---------------------------- MODULE MCAgentTools ----------------------------
(* Small instances of AgentTools for TLC. *)
EXTENDS AgentTools, TLC

CONSTANTS c1, c2, c3, c4, get, alice, mallory, k1, k2, k3, s1, s2, red, blue

MCCaller == {alice, mallory}
MCKey == {k1, k2, k3}
MCSubject == {s1, s2}
MCSlug == {red, blue}
MCName == {"Acme"}
MCTrim == [n \in MCName |-> n]
MCAdmins == {alice}

Asks(who, key, intent) == [caller |-> who, key |-> key, intent |-> intent, valid |-> TRUE]
Wrong(req) == [req EXCEPT !.valid = FALSE]
Creates(slug) ==
  [op |-> "create_organization", name |-> "Acme", slug |-> slug, subject |-> s1]
Adds(o, s) == [op |-> "add_member", org |-> o, subject |-> s]
Removes(o, s) == [op |-> "remove_member", org |-> o, subject |-> s]

\* c1 makes an Organization; c2 adds to it; c3 is another mutation, c4 its retry.
MCEarlier == [c \in Call |-> IF c = c4 THEN {c3} ELSE {}]

Mutations ==
  {Asks(alice, k3, Adds(c1, s1)), Asks(alice, k3, Removes(c1, s2)),
   Asks(alice, k2, Removes(c1, s1)), Asks(mallory, k3, Adds(c1, s1)),
   Wrong(Asks(alice, k3, Adds(c1, s1)))}

MCOffered ==
  [c \in Call |-> IF c = c1 THEN {Asks(alice, k1, Creates(red))}
                  ELSE IF c = c2 THEN {Asks(alice, k2, Adds(c1, s2))}
                  ELSE Mutations]

\* All is well, or c3, its retry and the read are put wrong.
MCFaults ==
  {[e \in Execution |-> "none"],
   [e \in Execution |-> IF e \in {c3, c4} THEN "arguments"
                        ELSE IF e \in Read THEN "name" ELSE "none"]}

MCForgotten == {{"invalid_request"}}

Reads(what, caller) ==
  [list |-> what, caller |-> caller, states |-> BOOLEAN, slugs |-> Slug, org |-> c1,
   subjects |-> Subject, limit |-> 1, page |-> TRUE, filter |-> TRUE]
MCReading == {Reads("organization", alice)}

\* Calls without retries, all of one Tool.
LoneEarlier == [c \in Call |-> {}]
NoneForgotten == {{}}
Removals ==
  (c1 :> {Asks(alice, k1, Creates(red))}) @@
  (c2 :> {Asks(alice, k2, Removes(c1, s2))}) @@
  (c3 :> {Asks(alice, k3, Removes(c2, s1))})

=============================================================================
