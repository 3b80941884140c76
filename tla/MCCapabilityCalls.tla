-------------------------- MODULE MCCapabilityCalls --------------------------
(* A small instance of CapabilityCalls for TLC. *)
EXTENDS CapabilityCalls

\* A client and a Provider, with up to two Plugins between that forward.
MCRoutes ==
  UNION {[nodes : [1..n -> Builds], lanes : [1..(n - 1) -> Lanes]] : n \in 2..4}

MCNewOperations == {"transfer_owner"}
Added(ops, what) ==
  [op \in Operations \cup MCNewOperations |-> IF op \in ops THEN what ELSE {}]

\* Some operations are extended by an error, some by a field, some by both.
MCNewErrors ==
  Added(Operations \ {"add_member", "check_membership"}, {"quota_exceeded"})
MCNewRequired == Added({"create_organization", "add_member"}, {"reason"})
MCNewReturned == Added({"remove_member", "check_membership"}, {"warning"})

=============================================================================
