-------------------------- MODULE OrganizationLists --------------------------
(***************************************************************************)
(* A client walks one of the three paged lists (list_organizations,        *)
(* list_members, list_for_subject) page by page, by the cursor each page   *)
(* returns, while commands add and remove the rows under it.               *)
(*                                                                         *)
(* The commands are those of OrganizationService: both storages implement  *)
(* it, and in both a page is one read of the committed tables (a single    *)
(* SQL statement; two under one REPEATABLE READ snapshot in the Postgres   *)
(* list_members).  A read that fails changes nothing, and the client sends *)
(* the same cursor again.                                                  *)
(***************************************************************************)
EXTENDS OrganizationReads

CONSTANTS
  Ranks,  \* the orders the random identifiers may turn out to have
  Walks   \* the walks a client may make

RankFunctions ==
  {f \in [Call -> Nat \ {0}] : \A c, d \in Call : f[c] = f[d] => c = d}

\* list_for_subject names its subject.
Walk ==
  {w \in ListRequest :
     /\ w.list # "organization"
     /\ w.list = "workspaces" => \E s \in Subject : w.subjects = {s}}

ASSUME RanksAssumption == Ranks \subseteq RankFunctions
ASSUME WalksAssumption == Walks \subseteq Walk

VARIABLES
  rank,    \* place of each identifier in the order of its text
  walk,    \* the request
  phase,   \* "idle", "walking", "done" or a refusal
  cursor,  \* rank of next_cursor, 0 before the first page
  seen,    \* the entries of the pages so far
  stable   \* history: keys that matched ever since the first page was read

listVars == <<rank, walk, phase, cursor, seen, stable>>
vars == <<serviceVars, listVars>>

-----------------------------------------------------------------------------
(* The rows a list selects, each under its key and the membership it came by *)

OrganizationRows(w) ==
  {[key |-> g.id, via |-> g.id] :
     g \in {h \in orgs : h.active \in w.states /\ h.slug \in w.slugs}}

MemberRows(w) ==
  {[key |-> m.id, via |-> m.id] :
     m \in {n \in members : /\ n.org = w.org
                            /\ n.active \in w.states
                            /\ n.subject \in w.subjects}}

\* Mutant: the join takes removed memberships too.
WorkspaceRowsRemovedToo(w) ==
  {[key |-> m.org, via |-> m.id] :
     m \in {n \in members : n.subject \in w.subjects /\ ActiveOrg(n.org)}}

WorkspaceRows(w) ==
  {[key |-> m.org, via |-> m.id] :
     m \in {n \in members : n.active /\ n.subject \in w.subjects /\ ActiveOrg(n.org)}}

Rows(w) ==
  IF w.list = "organizations" THEN OrganizationRows(w)
  ELSE IF w.list = "members" THEN MemberRows(w) ELSE WorkspaceRows(w)

Keys(S) == {r.key : r \in S}

-----------------------------------------------------------------------------
(* A page. *)

\* Mutant: organization_id >= $3.
BeyondOrAt(S, p) == {r \in S : rank[r.key] >= p}

\* ... WHERE id > cursor
Beyond(S, p) == {r \in S : rank[r.key] > p}

\* ... ORDER BY id LIMIT n: rows of equal key come in any order.
Firsts(S, n) ==
  {P \in SUBSET S :
     /\ IsFiniteSet(P) /\ Cardinality(P) <= n
     /\ P # S => Cardinality(P) = n
     /\ \A r \in P, q \in S \ P : rank[r.key] <= rank[q.key]}

\* Mutant: the next page starts after the row fetched only to know of more.
LastOfFetched(P, V) == {rank[r.key] : r \in {q \in P : \A s \in P : rank[s.key] <= rank[q.key]}}

\* items.last(): of the rows shown, not of those fetched.
LastOf(P, V) == {rank[r.key] : r \in {q \in V : \A s \in V : rank[s.key] <= rank[q.key]}}

\* Mutant: a full page is taken to have a next one.
MoreIfFull(P, n) == Cardinality(P) >= n

\* has_more: one row was fetched beyond the page.
HasMore(P, n) == Cardinality(P) > n

Entries(V) == {[key |-> r.key, via |-> r.via, after |-> cursor] : r \in V}

Walking == phase \in {"idle", "walking"}

ReadPage ==
  /\ Walking
  /\ \A e \in ListRefusals : ~Refuses(walk, e)
  /\ \E P \in Firsts(Beyond(Rows(walk), cursor), walk.limit + 1) :
     \E V \in Firsts(P, walk.limit) :
       /\ seen' = seen \cup Entries(V)
       /\ IF HasMore(P, walk.limit)
            THEN cursor' \in LastOf(P, V) /\ phase' = "walking"
            ELSE cursor' = cursor /\ phase' = "done"
  /\ stable' = IF phase = "idle" THEN Keys(Rows(walk)) ELSE stable
  /\ UNCHANGED <<serviceVars, rank, walk>>

RefuseWalk ==
  /\ Walking
  /\ \E e \in ListRefusals : Refuses(walk, e) /\ phase' = e
  /\ UNCHANGED <<serviceVars, rank, walk, cursor, seen, stable>>

\* A command, or the Operator, changes the tables between two pages.
Serve ==
  /\ ServiceNext
  /\ UNCHANGED <<rank, walk, phase, cursor, seen>>
  /\ stable' = stable \cap Keys(Rows(walk)')

Init ==
  /\ TablesInit
  /\ rank \in Ranks /\ walk \in Walks
  /\ phase = "idle" /\ cursor = 0 /\ seen = {} /\ stable = {}

Next == ReadPage \/ RefuseWalk \/ Serve

\* The client follows next_cursor for as long as it is given one.
Fairness == WF_vars(ReadPage \/ RefuseWalk)

Spec == Init /\ [][Next]_vars
FairSpec == Spec /\ Fairness

-----------------------------------------------------------------------------
(* Properties. *)

Entry == [key : Call, via : Call, after : Nat]

\* The walk keeps its type.
ListTypeOK ==
  /\ TablesTypeOK
  /\ rank \in RankFunctions
  /\ walk \in Walk
  /\ phase \in {"idle", "walking", "done"} \cup ListRefusals
  /\ cursor \in Nat
  /\ seen \subseteq Entry
  /\ stable \subseteq Call

\* A key that matched from the first page to the last is in the walk, however
\* the rows around it came and went: no page boundary skips a row.
StableRowsListed == phase = "done" => stable \subseteq Keys(seen)

\* No key is listed twice, in one page or in two: a workspace is not repeated
\* for every membership its subject ever had, nor the row at a cursor read
\* again on the next page.
ListedOnce == \A a, b \in seen : a.key = b.key => a = b

\* The walk is a scan of the places of the list: each page reports exactly the
\* rows between two cursors, a cursor is given exactly when a row is left.
Scan == INSTANCE OrderedScan WITH
          present <- {rank[k] : k \in Keys(Rows(walk))},
          pos <- cursor,
          reported <- {rank[k] : k \in Keys(seen)},
          done <- phase = "done"
ImplementsScan == Scan!Spec

\* A client that follows the cursors comes to the end of the list.
WalkEnds == <>(~Walking)

=============================================================================
