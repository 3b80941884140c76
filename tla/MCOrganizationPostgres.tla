------------------------ MODULE MCOrganizationPostgres ------------------------
(* Small instances of OrganizationPostgres for TLC. *)
EXTENDS OrganizationPostgres, TLC

CONSTANTS c1, c2, c3, c4, alice, mallory, k1, k2, k3, s1, s2, red, blue

MCCaller == {alice, mallory}
MCKey == {k1, k2, k3}
MCSubject == {s1, s2}
MCSlug == {red, blue}
MCName == {"Acme", " Acme ", "Other"}
MCTrim == [n \in MCName |-> IF n = " Acme " THEN "Acme" ELSE n]
MCAdmins == {alice}

Asks(who, key, intent) ==
  [caller |-> who, key |-> key, intent |-> intent, valid |-> TRUE]
Wrong(req) == [req EXCEPT !.valid = FALSE]

Creates(name, slug) ==
  [op |-> "create_organization", name |-> name, slug |-> slug, subject |-> s1]
Adds(o, s) == [op |-> "add_member", org |-> o, subject |-> s]
Removes(o, s) == [op |-> "remove_member", org |-> o, subject |-> s]

\* Creations race for a slug and for a key, with names that are equal once
\* trimmed.
CreationRace ==
  (c1 :> {Asks(alice, k1, Creates("Acme", red))}) @@
  (c2 :> {Asks(alice, k1, Creates(" Acme ", red)),
          Asks(alice, k1, Creates("Acme", blue)),
          Asks(mallory, k1, Creates("Acme", red))}) @@
  (c3 :> {Asks(alice, k2, Creates("Other", red)),
          Wrong(Asks(alice, k2, Creates("Other", red))),
          Asks(alice, k1, Creates("Acme", red))})

\* c1 makes the Organization; the others add and remove s2, and try the
\* owner s1, under shared and separate keys.
MembershipRace ==
  (c1 :> {Asks(alice, k1, Creates("Acme", red))}) @@
  (c2 :> {Asks(alice, k1, Adds(c1, s2))}) @@
  (c3 :> {Asks(alice, k1, Adds(c1, s2)),
          Asks(alice, k2, Removes(c1, s2)),
          Asks(alice, k1, Removes(c1, s2)),
          Asks(alice, k2, Removes(c1, s1))}) @@
  (c4 :> {Asks(alice, k2, Removes(c1, s2)),
          Asks(alice, k3, Adds(c1, s2)),
          Asks(alice, k3, Adds(c2, s2))})

\* c1 makes the Organization; s2 is added, removed and added again.
ReaddRace ==
  (c1 :> {Asks(alice, k1, Creates("Acme", red))}) @@
  (c2 :> {Asks(alice, k1, Adds(c1, s2))}) @@
  (c3 :> {Asks(alice, k2, Removes(c1, s2))}) @@
  (c4 :> {Asks(alice, k3, Adds(c1, s2))})

\* Either, or some of both.
CreationOrReaddRace ==
  [c \in Call |-> ReaddRace[c] \cup (IF c = c4 THEN {} ELSE CreationRace[c])]

=============================================================================
