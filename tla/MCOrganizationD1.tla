--------------------------- MODULE MCOrganizationD1 ---------------------------
(* A small instance of OrganizationD1 for TLC. *)
EXTENDS OrganizationD1, TLC

CONSTANTS c1, c2, c3, c4, alice, mallory, k1, k2, k3, s1, s2, red, blue

MCCaller == {alice, mallory}
MCKey == {k1, k2, k3}
MCSubject == {s1, s2}
MCSlug == {red, blue}
MCName == {"Acme", " Acme "}
MCTrim == [n \in MCName |-> "Acme"]
MCAdmins == {alice}

Asks(who, key, intent) ==
  [caller |-> who, key |-> key, intent |-> intent, valid |-> TRUE]
Wrong(req) == [req EXCEPT !.valid = FALSE]

Creates(name, slug) ==
  [op |-> "create_organization", name |-> name, slug |-> slug, subject |-> s1]
Adds(o, s) == [op |-> "add_member", org |-> o, subject |-> s]
Removes(o, s) == [op |-> "remove_member", org |-> o, subject |-> s]

\* c1 makes an Organization; the others repeat or contradict that command,
\* take its slug, add, remove and add again s2, and try the owner s1.
Commands ==
  (c1 :> {Asks(alice, k1, Creates("Acme", red))}) @@
  (c2 :> {Asks(alice, k1, Creates(" Acme ", red)),
          Asks(alice, k1, Creates("Acme", blue)),
          Asks(alice, k2, Creates("Acme", red)),
          Asks(alice, k1, Adds(c1, s2))}) @@
  (c3 :> {Asks(alice, k1, Adds(c1, s2)),
          Wrong(Asks(alice, k2, Adds(c1, s2))),
          Asks(mallory, k2, Removes(c1, s2)),
          Asks(alice, k2, Removes(c1, s2)),
          Asks(alice, k1, Removes(c1, s2)),
          Asks(alice, k2, Removes(c1, s1))}) @@
  (c4 :> {Asks(alice, k2, Removes(c1, s2)),
          Asks(alice, k3, Adds(c1, s2)),
          Asks(alice, k3, Adds(c2, s2))})

=============================================================================
