-------------------------- MODULE MCPluginLifecycle --------------------------
(* A small instance of PluginLifecycle for TLC. *)
EXTENDS PluginLifecycle

CONSTANTS p1, p2, c1, c2, d1, d2

Good == [k \in ConfigChecks |-> TRUE]
\* A good configuration, and one that fails each check.
MCConfigs == {Good} \cup {[Good EXCEPT ![k] = FALSE] : k \in ConfigChecks}

=============================================================================
