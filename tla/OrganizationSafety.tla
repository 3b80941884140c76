-------------------------- MODULE OrganizationSafety --------------------------
(***************************************************************************)
(* What must hold of the committed tables and of the answers given, in     *)
(* every state, whichever storage keeps them.                              *)
(***************************************************************************)
EXTENDS OrganizationTables

\* Two active Organizations never share a slug, however creations of it and
\* archivals interleave (organizations_active_slug_key).
ActiveSlugUnique ==
  \A g, h \in orgs : g.active /\ h.active /\ g.slug = h.slug => g = h

\* A subject has at most one active membership in an Organization, although
\* add_member reads first and inserts in a later statement.
OneActiveMembership ==
  \A m, n \in members :
    m.active /\ n.active /\ m.org = n.org /\ m.subject = n.subject => m = n

\* Every Organization has an active owner, and its only one: no command
\* removes it, and creation publishes neither row without the other.
OwnerKept ==
  \A g \in orgs :
    \E m \in members :
      /\ m.org = g.id /\ m.owner /\ m.active
      /\ \A n \in members : n.org = g.id /\ n.owner => n = m

\* A membership is revised exactly once, when it is removed: a revision is
\* never skipped or used twice by racing removals.
RevisionTellsState ==
  \A m \in members : m.revision = IF m.active THEN 1 ELSE 2

\* A committed receipt is complete, is the only one of its key, and records
\* a row that exists, belongs to the command and has not fallen behind.
ReceiptsSound ==
  \A r \in receipts :
    /\ \A s \in receipts :
         r.family = s.family /\ r.caller = s.caller /\ r.key = s.key => r = s
    /\ \E m \in members :
         /\ m.id = r.id
         /\ r.revision \in 1..m.revision
         /\ m.subject = r.intent.subject
         /\ IF r.family = "creation"
              THEN m.owner /\ \E g \in orgs : g.id = m.org /\ g.id = r.id
              ELSE m.org = r.intent.org

\* Every row in the tables, and every removal, is the effect of a command
\* whose receipt was committed with it, and of no second one.
EffectsHaveReceipts ==
  \A m \in members :
    /\ \E r \in receipts :
         /\ r.id = m.id /\ r.revision = 1
         /\ r.intent.op = IF m.owner THEN "create_organization" ELSE "add_member"
    /\ ~m.active =>
         \E r \in receipts :
           /\ r.id = m.id /\ r.revision = 2 /\ r.intent.op = "remove_member"
           /\ \A s \in receipts :
                s.id = m.id /\ s.revision = 2 /\ s.intent.op = "remove_member"
                  => s = r

\* Calls by one caller under one key.
SameKey(c, d) ==
  /\ Family(c) = Family(d)
  /\ request[c].caller = request[d].caller
  /\ request[c].key = request[d].key

\* They ask for the same, up to blanks around a new Organization's name.
SameCommand(c, d) ==
  LET i == request[c].intent
      j == request[d].intent
  IN \/ i = j
     \/ /\ IsCreate(c) /\ IsCreate(d)
        /\ Trim[i.name] = Trim[j.name]
        /\ i.slug = j.slug /\ i.subject = j.subject

Confirmed(c) == result[c].code = "ok"

\* However often a command is retried, and whatever became of the earlier
\* attempts: the confirmations name one row at one revision, and at most one
\* of them claims to have made the change.
RetriesAgree ==
  \A c, d \in Call :
    Confirmed(c) /\ Confirmed(d) /\ SameKey(c, d) /\ c # d =>
      /\ SameCommand(c, d)
      /\ result[c].id = result[d].id /\ result[c].revision = result[d].revision
      /\ ~(result[c].changed /\ result[d].changed)

\* A confirmation rests on a committed receipt: it survives whatever happens
\* to the process that gave it.
ConfirmedIsDurable ==
  \A c \in Call :
    Confirmed(c) =>
      \E r \in receipts :
        r = ReceiptOf(c, result[c].id, result[c].revision)

\* A refused call leaves nothing behind: no row carries its identifier, and
\* if every call under the key was refused the key is free for another
\* command.  Only a conflicting key is there because another call used it.
RefusedWithoutTrace ==
  \A c \in Call :
    result[c].code \in Refusals =>
      /\ \A m \in members : m.id # c
      /\ \A g \in orgs : g.id # c
      /\ (\A d \in Call : SameKey(c, d) => result[d].code \in Refusals) =>
           Matching(c) = {}

\* idempotency_conflict is only ever told to a caller that did use the key
\* for a different command; a name that differs in surrounding blanks is
\* not a different command.
ConflictIsReal ==
  \A c \in Call :
    result[c].code = "idempotency_conflict" =>
      \E d \in Call : SameKey(c, d) /\ ~SameCommand(c, d)
                      /\ result[d].code \in {"ok", "runtime_failure"}

\* A step never takes anything back: a removed membership stays removed, a
\* revision never falls, nobody gains or loses ownership, an archived
\* Organization stays archived, and receipts are never rewritten.
NeverTakenBack ==
  [][/\ \A m \in members :
          \E n \in members' :
            /\ n.id = m.id /\ n.org = m.org /\ n.subject = m.subject
            /\ n.owner = m.owner
            /\ n.active => m.active
            /\ n.revision >= m.revision
     /\ \A g \in orgs :
          \E h \in orgs' : h.id = g.id /\ h.slug = g.slug /\ (h.active => g.active)
     /\ receipts \subseteq receipts']_tables

=============================================================================
