----------------------- MODULE OrganizationListsProofs -----------------------
(* Theorems about the paged lists. *)
EXTENDS OrganizationLists, OrganizationServiceProofs, FiniteSetTheorems

\* The rows of a list have distinct keys: that of the workspaces because no
\* subject is an active member of an Organization twice.
LEMMA KeysDistinct ==
  ASSUME RowInv, walk \in Walk
  PROVE  /\ \A r, q \in Rows(walk) : r.key = q.key => r = q
         /\ \A r \in Rows(walk) : r.key \in Call /\ r.via \in Call
<1>0. TablesTypeOK /\ OneActiveMembership
  BY DEF RowInv
<1>1. CASE walk.list = "organizations"
  <2>1. Rows(walk) = OrganizationRows(walk)
    BY <1>1 DEF Rows
  <2> QED BY <1>0, <2>1 DEF OrganizationRows, TablesTypeOK, Org
<1>2. CASE walk.list = "members"
  <2>1. Rows(walk) = MemberRows(walk)
    BY <1>2 DEF Rows
  <2> QED BY <1>0, <2>1 DEF MemberRows, TablesTypeOK, Member
<1>3. CASE walk.list = "workspaces"
  <2>1. Rows(walk) = WorkspaceRows(walk)
    BY <1>3 DEF Rows
  <2>2. PICK s \in Subject : walk.subjects = {s}
    BY <1>3 DEF Walk
  <2>3. \A m, n \in members :
          /\ m.active /\ m.subject \in walk.subjects
          /\ n.active /\ n.subject \in walk.subjects
          /\ m.org = n.org
          => m = n
    BY <1>0, <2>2 DEF OneActiveMembership
  <2> QED BY <1>0, <2>1, <2>3 DEF WorkspaceRows, TablesTypeOK, Member
<1> QED BY <1>1, <1>2, <1>3 DEF Walk, ListRequest

LEMMA KeysOf == \A S, k : k \in Keys(S) <=> \E r \in S : r.key = k
BY DEF Keys

LEMMA EntriesOf ==
  ASSUME NEW V
  PROVE  /\ \A e \in Entries(V) :
              \E r \in V : e = [key |-> r.key, via |-> r.via, after |-> cursor] /\ e.key = r.key
         /\ \A r \in V : \E e \in Entries(V) : e.key = r.key
<1>1. \A e \in Entries(V) : \E r \in V : e = [key |-> r.key, via |-> r.via, after |-> cursor]
  BY DEF Entries
<1> DEFINE E(r) == [key |-> r.key, via |-> r.via, after |-> cursor]
<1>2. Entries(V) = {E(r) : r \in V}
  BY DEF Entries
<1>3. \A r : E(r).key = r.key
  OBVIOUS
<1> HIDE DEF E
<1>4. \A r \in V : E(r) \in Entries(V)
  BY <1>2
<1> QED BY <1>1, <1>3, <1>4

\* A page without a next one shows every row beyond the cursor.
LEMMA LastPage ==
  ASSUME NEW B, NEW n \in Nat \ {0},
         NEW P \in Firsts(B, n + 1), NEW V \in Firsts(P, n), ~HasMore(P, n)
  PROVE  V = B
<1>1. /\ P \in SUBSET B /\ IsFiniteSet(P)
      /\ P # B => Cardinality(P) = n + 1
      /\ V \in SUBSET P
      /\ V # P => Cardinality(V) = n
  BY DEF Firsts
<1>2. Cardinality(P) \in Nat /\ Cardinality(P) <= n
  BY <1>1, FS_CardinalityType DEF HasMore
<1>3. P = B
  BY <1>1, <1>2
<1>4. /\ Cardinality(V) <= Cardinality(P)
      /\ Cardinality(P) = Cardinality(V) => P = V
  BY <1>1, FS_Subset
<1>5. V = P
  BY <1>1, <1>2, <1>4
<1> QED BY <1>3, <1>5

\* A page with a next one shows exactly the rows up to its cursor, and leaves
\* one beyond it.
LEMMA MiddlePage ==
  ASSUME NEW B, NEW n \in Nat \ {0}, NEW P \in Firsts(B, n + 1), NEW V \in Firsts(P, n),
         HasMore(P, n), NEW p \in LastOf(P, V),
         rank \in RankFunctions,
         \A r, q \in B : r.key = q.key => r = q,
         \A r \in B : r.key \in Call
  PROVE  /\ V \subseteq B
         /\ \E r \in V : rank[r.key] = p
         /\ \A r \in B : r \in V <=> rank[r.key] <= p
         /\ \E r \in B : rank[r.key] > p
<1>1. /\ P \in SUBSET B /\ IsFiniteSet(P)
      /\ \A r \in P, q \in B \ P : rank[r.key] <= rank[q.key]
      /\ V \in SUBSET P
      /\ Cardinality(V) <= n
      /\ \A r \in V, q \in P \ V : rank[r.key] <= rank[q.key]
  BY DEF Firsts
<1>2. \A r, q \in B : /\ rank[r.key] \in Nat
                      /\ rank[r.key] = rank[q.key] => r = q
  BY DEF RankFunctions
<1>3. PICK v \in V : p = rank[v.key] /\ \A s \in V : rank[s.key] <= rank[v.key]
  BY DEF LastOf
<1>4. \A q \in B \ V : rank[v.key] < rank[q.key]
  <2>1. SUFFICES ASSUME NEW q \in B \ V
                 PROVE  rank[v.key] <= rank[q.key]
    BY <1>1, <1>2, <1>3
  <2> QED BY <1>1, <1>3, <2>1
<1>5. V # P
  BY <1>1, FS_CardinalityType DEF HasMore
<1>6. PICK x \in P : x \notin V
  BY <1>1, <1>5
<1> QED BY <1>1, <1>2, <1>3, <1>4, <1>6

-----------------------------------------------------------------------------
(* The inductive invariant. *)

\* Where the walk stands: what it has passed, it has listed.
Passed ==
  /\ phase = "idle" => cursor = 0 /\ seen = {} /\ stable = {}
  /\ \A e \in seen : phase = "walking" => rank[e.key] <= cursor
  /\ \A k \in stable : phase = "done" \/ rank[k] <= cursor => k \in Keys(seen)
  /\ phase = "walking" => stable \subseteq Keys(Rows(walk))

ListInv ==
  /\ RowInv
  /\ ListTypeOK
  /\ Passed
  /\ ListedOnce

LEMMA ListStart == ASSUME Init PROVE ListInv
<1>1. RowInv /\ TablesTypeOK
  BY RowStart DEF Init, RowInv
<1>2. rank \in RankFunctions /\ walk \in Walk
  BY RanksAssumption, WalksAssumption DEF Init
<1> QED
  BY <1>1, <1>2 DEF Init, ListInv, ListTypeOK, Passed, ListedOnce, Keys

\* What a page shows and where it leaves the walk.
LEMMA PageStep ==
  ASSUME ListInv, ReadPage
  PROVE  /\ \A k \in Keys(Rows(walk)) : rank[k] \in Nat \ {0}
         /\ \E V \in SUBSET Rows(walk) :
              /\ seen' = seen \cup Entries(V)
              /\ \A r \in V : rank[r.key] > cursor
              /\ \/ /\ phase' = "done" /\ cursor' = cursor
                    /\ \A r \in Rows(walk) : rank[r.key] > cursor => r \in V
                 \/ /\ phase' = "walking"
                    /\ \E r \in V : rank[r.key] = cursor'
                    /\ \A r \in V : rank[r.key] <= cursor'
                    /\ \A r \in Rows(walk) :
                         rank[r.key] > cursor /\ rank[r.key] <= cursor' => r \in V
                    /\ \E r \in Rows(walk) : rank[r.key] > cursor'
<1> DEFINE R == Rows(walk)
           B == Beyond(R, cursor)
           n == walk.limit
<1>1. /\ rank \in RankFunctions /\ walk \in Walk /\ cursor \in Nat /\ n \in Nat \ {0}
      /\ \A r, q \in R : r.key = q.key => r = q
      /\ \A r \in R : r.key \in Call /\ rank[r.key] \in Nat \ {0}
  BY KeysDistinct DEF ListInv, ListTypeOK, Walk, ListRequest, RankFunctions
<1>7. PICK P \in Firsts(B, n + 1) :
        \E V \in Firsts(P, n) :
          /\ seen' = seen \cup Entries(V)
          /\ IF HasMore(P, n) THEN cursor' \in LastOf(P, V) /\ phase' = "walking"
                              ELSE cursor' = cursor /\ phase' = "done"
  BY DEF ReadPage
<1>2. PICK V \in Firsts(P, n) :
        /\ seen' = seen \cup Entries(V)
        /\ IF HasMore(P, n) THEN cursor' \in LastOf(P, V) /\ phase' = "walking"
                            ELSE cursor' = cursor /\ phase' = "done"
  BY <1>7
<1>3. B \subseteq R /\ \A r \in R : r \in B <=> rank[r.key] > cursor
  BY DEF Beyond
<1>4. V \subseteq B
  BY DEF Firsts
<1>5. CASE HasMore(P, n)
  <2>1. /\ \A r, q \in B : r.key = q.key => r = q
        /\ \A r \in B : r.key \in Call
    BY <1>1, <1>3
  <2> HIDE DEF B, n
  <2>2. /\ \E r \in V : rank[r.key] = cursor'
        /\ \A r \in B : r \in V <=> rank[r.key] <= cursor'
        /\ \E r \in B : rank[r.key] > cursor'
    BY <1>1, <1>2, <1>5, <2>1, MiddlePage
  <2> QED BY <1>1, <1>2, <1>3, <1>4, <1>5, <2>2 DEF Keys
<1>6. CASE ~HasMore(P, n)
  <2> HIDE DEF B, n
  <2>1. V = B
    BY <1>1, <1>2, <1>6, LastPage
  <2> QED BY <1>1, <1>2, <1>3, <1>6, <2>1 DEF Keys
<1> QED BY <1>5, <1>6

LEMMA ListReadStep ==
  ASSUME ListInv, ReadPage
  PROVE  ListInv'
<1>1. PICK V \in SUBSET Rows(walk) :
        /\ seen' = seen \cup Entries(V)
        /\ \A r \in V : rank[r.key] > cursor
        /\ \/ /\ phase' = "done" /\ cursor' = cursor
              /\ \A r \in Rows(walk) : rank[r.key] > cursor => r \in V
           \/ /\ phase' = "walking"
              /\ \E r \in V : rank[r.key] = cursor'
              /\ \A r \in V : rank[r.key] <= cursor'
              /\ \A r \in Rows(walk) :
                   rank[r.key] > cursor /\ rank[r.key] <= cursor' => r \in V
              /\ \E r \in Rows(walk) : rank[r.key] > cursor'
  BY PageStep
<1>2. /\ UNCHANGED <<orgs, members, receipts, request, result, rank, walk>>
      /\ phase \in {"idle", "walking"}
      /\ stable' = IF phase = "idle" THEN Keys(Rows(walk)) ELSE stable
  BY DEF ReadPage, serviceVars, Walking
<1>3. /\ rank \in RankFunctions /\ walk \in Walk /\ cursor \in Nat
      /\ \A r \in Rows(walk) : /\ r.key \in Call /\ r.via \in Call
                             /\ rank[r.key] \in Nat \ {0}
      /\ \A r, q \in Rows(walk) : r.key = q.key => r = q
  BY KeysDistinct DEF ListInv, ListTypeOK, RankFunctions
<1>4. Rows(walk)' = Rows(walk)
  BY <1>2 DEF Rows, OrganizationRows, MemberRows, WorkspaceRows, ActiveOrg
<1>5. RowInv' /\ TablesTypeOK'
  <2>1. [ServiceNext]_serviceVars
    BY <1>2 DEF serviceVars
  <2> QED BY <2>1, RowStep DEF ListInv, RowInv
<1>6. cursor' \in Nat /\ cursor' >= cursor
  BY <1>1, <1>3
<1>7. /\ Keys(seen') = Keys(seen) \cup Keys(V)
      /\ \A e \in Entries(V) : \E r \in V : e = [key |-> r.key, via |-> r.via, after |-> cursor]
  BY <1>1, KeysOf, EntriesOf
<1>8. ListTypeOK'
  <2>1. Entries(V) \subseteq Entry /\ Keys(Rows(walk)) \subseteq Call
    BY <1>3 DEF Entries, Entry, Keys
  <2> QED BY <1>1, <1>2, <1>5, <1>6, <2>1 DEF ListInv, ListTypeOK
<1>9. stable' \subseteq Keys(Rows(walk))
  BY <1>2 DEF ListInv, Passed
<1>10. \A k \in stable' : phase' = "done" \/ rank[k] <= cursor' => k \in Keys(seen')
  <2>1. SUFFICES ASSUME NEW r \in Rows(walk), r.key \in stable',
                        phase' = "done" \/ rank[r.key] <= cursor'
                 PROVE  r.key \in Keys(seen')
    BY <1>9 DEF Keys
  <2>2. CASE rank[r.key] > cursor
    <3>1. r \in V
      BY <1>1, <1>3, <1>6, <2>1, <2>2
    <3> QED BY <1>7, <3>1 DEF Keys
  <2>3. CASE rank[r.key] <= cursor
    <3>1. phase = "walking"
      BY <1>2, <1>3, <2>3 DEF ListInv, Passed
    <3>2. r.key \in stable
      BY <1>2, <2>1, <3>1
    <3> QED BY <1>7, <2>3, <3>2 DEF ListInv, Passed
  <2> QED BY <1>3, <2>2, <2>3
<1>11. \A e \in seen : rank[e.key] \in Nat /\ rank[e.key] <= cursor
  BY <1>2, <1>3 DEF ListInv, ListTypeOK, Entry, Passed, RankFunctions
<1>12. Passed'
  <2>1. \A e \in seen' : phase' = "walking" => rank[e.key] <= cursor'
    BY <1>1, <1>3, <1>6, <1>7, <1>11
  <2> QED BY <1>1, <1>2, <1>4, <1>9, <1>10, <2>1 DEF Passed
<1>13. ListedOnce'
  <2>1. \A e \in Entries(V) : rank[e.key] > cursor
    BY <1>1, <1>7
  <2>2. \A e \in seen, f \in Entries(V) : e.key # f.key
    BY <1>3, <1>11, <2>1
  <2>3. \A e, f \in Entries(V) : e.key = f.key => e = f
    BY <1>3, <1>7
  <2> QED BY <1>1, <2>2, <2>3 DEF ListInv, ListedOnce
<1> QED BY <1>5, <1>8, <1>12, <1>13 DEF ListInv

LEMMA ListStep ==
  ASSUME ListInv, [Next]_vars
  PROVE  ListInv'
<1>1. CASE ReadPage
  BY <1>1, ListReadStep
<1>2. CASE RefuseWalk \/ UNCHANGED vars
  <2>1. /\ UNCHANGED <<orgs, members, receipts, request, result>>
        /\ UNCHANGED <<rank, walk, cursor, seen, stable>>
    BY <1>2 DEF RefuseWalk, vars, listVars, serviceVars
  <2>2. RowInv' /\ TablesTypeOK'
    <3>1. [ServiceNext]_serviceVars
      BY <2>1 DEF serviceVars
    <3> QED BY <3>1, RowStep DEF ListInv, RowInv
  <2>3. Rows(walk)' = Rows(walk)
    BY <2>1 DEF Rows, OrganizationRows, MemberRows, WorkspaceRows, ActiveOrg
  <2>4. ListedOnce'
    BY <2>1 DEF ListInv, ListedOnce
  <2>5. CASE UNCHANGED phase
    BY <2>1, <2>2, <2>3, <2>4, <2>5 DEF ListInv, ListTypeOK, Passed
  <2>6. CASE RefuseWalk
    <3>1. phase' \in ListRefusals /\ phase \in {"idle", "walking"}
      BY <2>6 DEF RefuseWalk, Walking
    <3> QED BY <2>1, <2>2, <2>3, <2>4, <3>1
            DEF ListInv, ListTypeOK, Passed, ListRefusals
  <2> QED BY <1>2, <2>5, <2>6 DEF vars, listVars
<1>3. CASE Serve
  <2>1. /\ ServiceNext
        /\ UNCHANGED <<rank, walk, phase, cursor, seen>>
        /\ stable' = stable \cap Keys(Rows(walk))'
    BY <1>3 DEF Serve, Keys, Rows, OrganizationRows, MemberRows, WorkspaceRows, ActiveOrg
  <2>2. RowInv' /\ TablesTypeOK'
    BY <2>1, RowStep DEF ListInv, RowInv
  <2>3. ListTypeOK' /\ Passed' /\ ListedOnce'
    BY <2>1, <2>2 DEF ListInv, ListTypeOK, Passed, ListedOnce, Keys
  <2> QED BY <2>2, <2>3 DEF ListInv
<1> QED BY <1>1, <1>2, <1>3 DEF Next

LEMMA ListInvCorrect == Spec => []ListInv
BY ListStart, ListStep, PTL DEF Spec

-----------------------------------------------------------------------------
\* The walk, its pages and the tables beneath it keep their types.
THEOREM ListTypesKept == Spec => []ListTypeOK
<1>1. ListInv => ListTypeOK
  BY DEF ListInv
<1> QED BY <1>1, ListInvCorrect, PTL

\* However the rows come and go between its pages, a walk to the end has shown
\* every key that was there all the while: no cursor steps over a row.
THEOREM StableRowsAreListed == Spec => []StableRowsListed
<1>1. ListInv => StableRowsListed
  BY DEF ListInv, Passed, StableRowsListed
<1> QED BY <1>1, ListInvCorrect, PTL

\* No walk shows a key twice, whatever is inserted before or behind its cursor.
THEOREM KeysListedOnce == Spec => []ListedOnce
<1>1. ListInv => ListedOnce
  BY DEF ListInv
<1> QED BY <1>1, ListInvCorrect, PTL

\* Each page advances or finishes one scan of the places of the list; the
\* commands between them change only what the list holds.
THEOREM ListsImplementScan == Spec => ImplementsScan
<1> DEFINE Present == {rank[k] : k \in Keys(Rows(walk))}
           Reported == {rank[k] : k \in Keys(seen)}
<1>0. ListInv => Present \subseteq Nat
  BY KeysDistinct DEF ListInv, ListTypeOK, Keys, RankFunctions
<1>3. (ListInv => Present \subseteq Nat)'
  BY <1>0, PTL
<1>1. Init => Scan!Start
  <2> SUFFICES ASSUME Init PROVE Scan!Start
    OBVIOUS
  <2>1. ListInv
    BY ListStart
  <2>2. Present \subseteq Nat
    BY <1>0, <2>1
  <2> QED BY <2>2 DEF Init, Scan!Start, Keys
<1>2. ListInv /\ ListInv' /\ [Next]_vars
        => [Scan!Change \/ Scan!Advance \/ Scan!Finish]_(Scan!scanVars)
  <2> SUFFICES ASSUME ListInv, ListInv', [Next]_vars
               PROVE  [Scan!Change \/ Scan!Advance \/ Scan!Finish]_(Scan!scanVars)
    OBVIOUS
  <2>1. CASE ReadPage
    <3>1. PICK V \in SUBSET Rows(walk) :
            /\ seen' = seen \cup Entries(V)
            /\ \A r \in V : rank[r.key] > cursor
            /\ \/ /\ phase' = "done" /\ cursor' = cursor
                  /\ \A r \in Rows(walk) : rank[r.key] > cursor => r \in V
               \/ /\ phase' = "walking"
                  /\ \E r \in V : rank[r.key] = cursor'
                  /\ \A r \in V : rank[r.key] <= cursor'
                  /\ \A r \in Rows(walk) :
                       rank[r.key] > cursor /\ rank[r.key] <= cursor' => r \in V
                  /\ \E r \in Rows(walk) : rank[r.key] > cursor'
      BY <2>1, PageStep
    <3>2. /\ UNCHANGED <<orgs, members, rank, walk>>
          /\ phase # "done"
      BY <2>1 DEF ReadPage, serviceVars, Walking
    <3>3. Present' = Present
      BY <3>2 DEF Keys, Rows, OrganizationRows, MemberRows, WorkspaceRows, ActiveOrg
    <3>4. Reported' = Reported \cup {rank[k] : k \in Keys(V)}
      <4>1. Keys(seen') = Keys(seen) \cup Keys(V)
        BY <3>1, KeysOf, EntriesOf
      <4> QED BY <3>2, <4>1
    <3>7. /\ \A p : p \in Present <=> \E r \in Rows(walk) : p = rank[r.key]
          /\ \A p : p \in {rank[k] : k \in Keys(V)} <=> \E r \in V : p = rank[r.key]
      BY KeysOf
    <3>8. cursor \in Nat /\ cursor' \in Nat /\ \A r \in Rows(walk) : rank[r.key] \in Nat
      BY <1>0, <3>7 DEF ListInv, ListTypeOK
    <3>5. CASE phase' = "done"
      <4>1. Present' = Present /\ cursor' = cursor
        BY <3>1, <3>3, <3>5
      <4>2. Reported' = Reported \cup {p \in Present : cursor < p}
        <5>1. {rank[k] : k \in Keys(V)} = {p \in Present : cursor < p}
          BY <3>1, <3>5, <3>7, <3>8
        <5> QED BY <3>4, <5>1
      <4> QED BY <3>2, <3>5, <4>1, <4>2 DEF Scan!Finish
    <3>6. CASE phase' = "walking"
      <4>1. Reported' = Reported \cup {p \in Present : cursor < p /\ p <= cursor'}
        <5>1. {rank[k] : k \in Keys(V)} = {p \in Present : cursor < p /\ p <= cursor'}
          <6>1. ASSUME NEW r \in V
                PROVE  /\ r \in Rows(walk)
                       /\ cursor < rank[r.key] /\ rank[r.key] <= cursor'
            BY <3>1, <3>6, <3>8
          <6>2. ASSUME NEW r \in Rows(walk), cursor < rank[r.key], rank[r.key] <= cursor'
                PROVE  r \in V
            BY <3>1, <3>6, <3>8, <6>2
          <6> HIDE DEF Present
          <6>3. \A p : p \in {rank[k] : k \in Keys(V)}
                        <=> p \in Present /\ cursor < p /\ p <= cursor'
            BY <3>7, <6>1, <6>2
          <6> QED BY <6>3
        <5> QED BY <3>4, <5>1
      <4>2. cursor' \in Present /\ cursor' > cursor /\ \E p \in Present : p > cursor'
        BY <3>1, <3>6 DEF Keys
      <4> QED BY <3>2, <3>3, <3>6, <4>1, <4>2 DEF Scan!Advance
    <3> QED BY <3>1, <3>5, <3>6
  <2>2. CASE RefuseWalk \/ Serve \/ UNCHANGED vars
    <3>1. /\ UNCHANGED <<rank, cursor, seen>>
          /\ (phase' = "done") = (phase = "done")
      BY <2>2 DEF RefuseWalk, Walking, ListRefusals, Serve, vars, listVars
    <3>2. Present' \subseteq Nat
      BY <1>3
    <3> QED BY <3>1, <3>2 DEF Scan!Change, Keys
  <2> QED BY <2>1, <2>2 DEF Next
<1> QED BY <1>1, <1>2, ListInvCorrect, PTL DEF Spec, ImplementsScan, Scan!Spec

=============================================================================
