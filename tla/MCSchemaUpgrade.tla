--------------------------- MODULE MCSchemaUpgrade ---------------------------
(* A small instance of SchemaUpgrade for TLC. *)
EXTENDS SchemaUpgrade, TLC

CONSTANTS o1, o2, m1, m2, m3

\* Two memberships in one Organization, one in the other.
MCMemberOrg == (m1 :> o1) @@ (m2 :> o1) @@ (m3 :> o2)

=============================================================================
