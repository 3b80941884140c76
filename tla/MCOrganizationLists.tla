------------------------- MODULE MCOrganizationLists -------------------------
(* Small instances of OrganizationLists for TLC. *)
EXTENDS OrganizationLists, TLC

CONSTANTS c1, c2, c3, c4, alice, mallory, k1, k2, k3, k4, s1, s2, red, blue

MCCaller == {alice, mallory}
MCKey == {k1, k2, k3, k4}
MCSubject == {s1, s2}
MCSlug == {red, blue}
MCName == {"Acme"}
MCTrim == [n \in MCName |-> n]
MCAdmins == {alice}

Asks(who, key, intent) ==
  [caller |-> who, key |-> key, intent |-> intent, valid |-> TRUE]
Wrong(req) == [req EXCEPT !.valid = FALSE]

Creates(slug) ==
  [op |-> "create_organization", name |-> "Acme", slug |-> slug, subject |-> s1]
Adds(o, s) == [op |-> "add_member", org |-> o, subject |-> s]
Removes(o, s) == [op |-> "remove_member", org |-> o, subject |-> s]

\* The identifiers in the order of the calls, and mixed.
MCRanks ==
  {(c1 :> 1) @@ (c2 :> 2) @@ (c3 :> 3) @@ (c4 :> 4),
   (c3 :> 1) @@ (c1 :> 2) @@ (c4 :> 3) @@ (c2 :> 4)}

\* c1 makes an Organization and s2 is added to it; then s2 is removed or a
\* second Organization made; then s2 is added again, a third one made, or a
\* command is answered without changing a row.
MCOffered ==
  (c1 :> {Asks(alice, k1, Creates(red))}) @@
  (c2 :> {Asks(alice, k2, Adds(c1, s2))}) @@
  (c3 :> {Asks(alice, k3, Creates(blue)), Asks(alice, k3, Removes(c1, s2))}) @@
  (c4 :> {Asks(alice, k4, Creates(red)), Asks(alice, k4, Adds(c1, s2)),
          Asks(alice, k2, Adds(c1, s2)), Asks(alice, k2, Removes(c1, s2)),
          Asks(alice, k4, Removes(c1, s1)), Asks(mallory, k4, Adds(c1, s2)),
          Wrong(Asks(alice, k4, Adds(c1, s1)))})

Lists(list, limit) ==
  [list |-> list, caller |-> alice, states |-> BOOLEAN, slugs |-> Slug,
   org |-> c1, subjects |-> Subject, limit |-> limit, page |-> TRUE, filter |-> TRUE]

\* Whole lists and filtered ones, one and two rows to a page.
GoodWalks ==
  {Lists("organizations", 1), [Lists("organizations", 2) EXCEPT !.states = {TRUE}],
   Lists("members", 1), Lists("members", 2), [Lists("members", 1) EXCEPT !.states = {TRUE}],
   [Lists("workspaces", 1) EXCEPT !.subjects = {s1}],
   [Lists("workspaces", 2) EXCEPT !.subjects = {s2}]}

\* Walks to be refused, for each reason, and lists with nothing in them.
Refusable == {[Lists(l, 1) EXCEPT !.subjects = {s2}] :
                l \in {"organizations", "members", "workspaces"}}
OddWalks ==
  UNION {{[w EXCEPT !.caller = mallory], [w EXCEPT !.page = FALSE],
          [w EXCEPT !.filter = FALSE]} : w \in Refusable}
  \cup {[Lists("members", 1) EXCEPT !.org = c2],
        [Lists("organizations", 1) EXCEPT !.states = {FALSE}, !.slugs = {red}]}

MCWalks == GoodWalks \cup OddWalks

=============================================================================
