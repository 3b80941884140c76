----------------------------- MODULE OrderedScan -----------------------------
(***************************************************************************)
(* What a paged list promises to the client that walks it, whatever the    *)
(* size of its pages: the walk moves forward over the places of the list   *)
(* while entries come and go, reports exactly the entries present where it *)
(* passes, goes on only while something is left, and ends only when        *)
(* nothing is.                                                             *)
(***************************************************************************)
EXTENDS Naturals

VARIABLES
  present,   \* places of the entries the list holds now
  pos,       \* the walk has passed every place up to this one
  reported,  \* places of the entries it has been shown
  done

scanVars == <<present, pos, reported, done>>

Start == present \subseteq Nat /\ pos = 0 /\ reported = {} /\ done = FALSE

Change == present' \subseteq Nat /\ UNCHANGED <<pos, reported, done>>

Advance ==
  /\ ~done
  /\ \E p \in present :
       /\ p > pos
       /\ \E q \in present : q > p
       /\ pos' = p
       /\ reported' = reported \cup {e \in present : pos < e /\ e <= p}
  /\ UNCHANGED <<present, done>>

Finish ==
  /\ ~done
  /\ done' = TRUE
  /\ reported' = reported \cup {e \in present : pos < e}
  /\ UNCHANGED <<present, pos>>

Spec == Start /\ [][Change \/ Advance \/ Finish]_scanVars

=============================================================================
