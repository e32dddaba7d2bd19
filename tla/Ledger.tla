------------------------------- MODULE Ledger -------------------------------
(***************************************************************************)
(* CoreLedger of crates/seaki-core/src/lib.rs: an event table with a hash- *)
(* chained audit table, workspace revisions, approval decisions and memory *)
(* notes in one SQLite file, and a session index in memory.                *)
(*                                                                         *)
(* Every ledger has a connection of its own to the file.  Some operations  *)
(* check inside their transaction and are one action here.  The others     *)
(* (workspace_init, append_inert_event, append_memory_propose,             *)
(* session_redact) read the key and the revision first and open the        *)
(* transaction later: Check and Write.  A transaction commits or leaves no *)
(* trace; a process may die between any two actions, and its session index *)
(* dies with it.                                                           *)
(*                                                                         *)
(* event_id and idempotency_key are both UNIQUE columns that callers       *)
(* choose together: here they are one key.                                 *)
(***************************************************************************)
EXTENDS Integers, Sequences, FiniteSets

CONSTANTS
  Conns,       \* open ledgers on the file
  Workspaces,
  Keys,        \* idempotency keys
  Notes,       \* memory note ids
  Patches,     \* wiki patch ids
  Sessions,    \* session ids
  Approvals,   \* approval ids
  None,        \* a field the event does not use
  MaxEvents    \* bound: the event table grows no longer

ASSUME LedgerAssumption ==
  /\ None \notin Notes \cup Patches \cup Sessions \cup Approvals
  /\ MaxEvents \in Nat

\* What an approval may be for.
Targets == Notes \cup Patches

Event ==
  [kind : {"init", "inert", "propose", "redact", "commit", "patch", "approve", "deny"},
   ws : Workspaces, key : Keys, target : Targets \cup Sessions \cup {None},
   approval : Approvals \cup {None}, rev : Nat]  \* rev: the revision a commit names

NoteStatus == {"absent", "proposed", "source_checking", "conflict", "active"}

VARIABLES
  log,       \* the events table; an event's seq is its position
  audit,     \* the audit table
  revision,  \* revision[w]: workspaces.revision, 0 while w has no row
  head,      \* head[w]: workspaces.audit_head
  decision,  \* decision[a]: the position of a's decision in log, 0 for none
  note,      \* note[n]: memory_notes.status, "absent" while n has no row
  pc,        \* pc[c]: what ledger c does next
  req,       \* req[c]: the event c is about to insert
  base,      \* base[c]: the revision c has computed for it
  indexed    \* indexed[c]: the sessions in c's session_search_index

tables   == <<log, audit, revision, head, decision, note>>
connVars == <<pc, req, base, indexed>>
vars     == <<tables, connVars>>

Genesis == <<>>  \* GENESIS_AUDIT_HASH

Init ==
  /\ log      = <<>>
  /\ audit    = <<>>
  /\ revision = [w \in Workspaces |-> 0]
  /\ head     = [w \in Workspaces |-> Genesis]
  /\ decision = [a \in Approvals |-> 0]
  /\ note     = [n \in Notes |-> "absent"]
  /\ pc       = [c \in Conns |-> "idle"]
  /\ req      = [c \in Conns |-> None]
  /\ base     = [c \in Conns |-> 0]
  /\ indexed  = [c \in Conns |-> {}]

-----------------------------------------------------------------------------
(* The parts of a transaction.                                             *)

Free(k) == \A n \in DOMAIN log : log[n].key # k

\* The hashes are taken to be collision-free: a digest is the row itself.
EventDigest(seq, e)      == <<seq, e>>
AuditHash(prev, digest)  == <<prev, digest>>

\* The chain runs through all workspaces: the previous hash is the last row's.
LastHash == IF audit = <<>> THEN Genesis ELSE audit[Len(audit)].hash

\* Mutant: every workspace has a chain of its own.
AuditEntryPerWorkspace(e) ==
  LET digest == EventDigest(Len(log) + 1, e) IN
  [event |-> Len(log) + 1, prev |-> head[e.ws], digest |-> digest,
   hash |-> AuditHash(head[e.ws], digest)]

AuditEntry(e) ==
  LET digest == EventDigest(Len(log) + 1, e) IN
  [event |-> Len(log) + 1, prev |-> LastHash, digest |-> digest,
   hash |-> AuditHash(LastHash, digest)]

\* Mutant: an UPDATE without its WHERE.
UpdateWorkspaceAll(w, rev, hash) ==
  /\ revision' = [revision EXCEPT ![w] = rev]
  /\ head'     = [v \in Workspaces |-> hash]

UpdateWorkspace(w, rev, hash) ==
  /\ revision' = [revision EXCEPT ![w] = rev]
  /\ head'     = [head EXCEPT ![w] = hash]

\* Mutant: the UNIQUE constraint on the key is dropped.
AppendEventAnyKey(e, rev) ==
  /\ Len(log) < MaxEvents
  /\ log'   = Append(log, e)
  /\ audit' = Append(audit, AuditEntry(e))
  /\ UpdateWorkspace(e.ws, rev, AuditEntry(e).hash)

\* insert_event, append_audit_entry and update_workspace_after_event.
AppendEvent(e, rev) ==
  /\ Len(log) < MaxEvents
  /\ Free(e.key)
  /\ log'   = Append(log, e)
  /\ audit' = Append(audit, AuditEntry(e))
  /\ UpdateWorkspace(e.ws, rev, AuditEntry(e).hash)

-----------------------------------------------------------------------------
(* Operations that check before they open the transaction.                 *)

Plain(kind, w, k, target) ==
  [kind |-> kind, ws |-> w, key |-> k, target |-> target, approval |-> None, rev |-> 0]

Unlocked(w, k) ==
  {Plain("init", w, k, None), Plain("inert", w, k, None)}
    \cup {Plain("propose", w, k, n) : n \in Notes}
    \cup {Plain("redact", w, k, s) : s \in Sessions}

\* A workspace is created once; every other event needs it to exist.  The
\* code asks for the key and for the revision in two statements; a key taken
\* in between only makes Write fail later.
Check(c, e) ==
  /\ pc[c] = "idle"
  /\ Free(e.key)
  /\ (e.kind = "init") <=> (revision[e.ws] = 0)
  /\ pc'   = [pc EXCEPT ![c] = "write"]
  /\ req'  = [req EXCEPT ![c] = e]
  /\ base' = [base EXCEPT ![c] = revision[e.ws] + 1]
  /\ UNCHANGED <<tables, indexed>>

EndCall(c) ==
  /\ pc'   = [pc EXCEPT ![c] = "idle"]
  /\ req'  = [req EXCEPT ![c] = None]
  /\ base' = [base EXCEPT ![c] = 0]

\* The transaction: the rows' UNIQUE and PRIMARY KEY constraints are the only
\* checks left.  A redaction goes on to the session index.
Write(c) ==
  LET e == req[c] IN
  /\ pc[c] = "write"
  /\ e.kind = "init" => revision[e.ws] = 0
  /\ e.kind = "propose" => note[e.target] = "absent"
  /\ AppendEvent(e, base[c])
  /\ note' = IF e.kind = "propose" THEN [note EXCEPT ![e.target] = "proposed"] ELSE note
  /\ IF e.kind = "redact"
       THEN pc' = [pc EXCEPT ![c] = "index"] /\ UNCHANGED <<req, base>>
       ELSE EndCall(c)
  /\ UNCHANGED <<decision, indexed>>

\* Mutant: a failed redaction is indexed all the same.
RollbackIndexes(c) ==
  /\ pc[c] = "write"
  /\ indexed' = IF req[c].kind = "redact"
                  THEN [indexed EXCEPT ![c] = @ \cup {req[c].target}] ELSE indexed
  /\ EndCall(c)
  /\ UNCHANGED tables

\* A constraint is violated, the file is locked or the disk fails.
Rollback(c) ==
  /\ pc[c] = "write"
  /\ EndCall(c)
  /\ UNCHANGED <<tables, indexed>>

\* The committed redaction enters the index of this process only.
IndexSession(c) ==
  /\ pc[c] = "index"
  /\ indexed' = [indexed EXCEPT ![c] = @ \cup {req[c].target}]
  /\ EndCall(c)
  /\ UNCHANGED tables

-----------------------------------------------------------------------------
(* Operations that check inside the transaction.                           *)

\* append_approval_decision: an approval id is decided once.
Decide(c, w, k, a, t, verdict) ==
  /\ pc[c] = "idle"
  /\ revision[w] > 0
  /\ decision[a] = 0
  /\ AppendEvent([kind |-> verdict, ws |-> w, key |-> k, target |-> t,
                  approval |-> a, rev |-> 0], revision[w] + 1)
  /\ decision' = [decision EXCEPT ![a] = Len(log) + 1]
  /\ UNCHANGED <<note, connVars>>

\* Mutant: the decision's workspace is not compared.
ApprovedAnywhere(a, t, w) ==
  /\ decision[a] # 0
  /\ log[decision[a]].target = t
  /\ log[decision[a]].kind = "approve"

\* ensure_approved_decision_for_target.
Approved(a, t, w) ==
  /\ decision[a] # 0
  /\ log[decision[a]].target = t
  /\ log[decision[a]].ws = w
  /\ log[decision[a]].kind = "approve"

\* A commit names the revision it makes: exactly the next one.
CommitEvent(kind, w, k, a, t) ==
  [kind |-> kind, ws |-> w, key |-> k, target |-> t, approval |-> a,
   rev |-> revision[w] + 1]

\* append_memory_commit: whatever status the note has, and whatever workspace
\* it is of, it becomes active; a note without a row stays without.
CommitNote(c, w, k, a, n) ==
  /\ pc[c] = "idle"
  /\ revision[w] > 0
  /\ Approved(a, n, w)
  /\ AppendEvent(CommitEvent("commit", w, k, a, n), revision[w] + 1)
  /\ note' = IF note[n] = "absent" THEN note ELSE [note EXCEPT ![n] = "active"]
  /\ UNCHANGED <<decision, connVars>>

\* append_wiki_patch_commit.
CommitPatch(c, w, k, a, p) ==
  /\ pc[c] = "idle"
  /\ revision[w] > 0
  /\ Approved(a, p, w)
  /\ AppendEvent(CommitEvent("patch", w, k, a, p), revision[w] + 1)
  /\ UNCHANGED <<decision, note, connVars>>

\* memory_source_check: the note's words decide; no event is recorded.
SourceCheck(c, n) ==
  /\ pc[c] = "idle"
  /\ note[n] # "absent"
  /\ \E s \in {"conflict", "source_checking"} : note' = [note EXCEPT ![n] = s]
  /\ UNCHANGED <<log, audit, revision, head, decision, connVars>>

\* The process of ledger c dies and the file is opened again.
Crash(c) ==
  /\ EndCall(c)
  /\ indexed' = [indexed EXCEPT ![c] = {}]
  /\ UNCHANGED tables

-----------------------------------------------------------------------------
Call(c) ==
  \E w \in Workspaces, k \in Keys :
    \/ \E e \in Unlocked(w, k) : Check(c, e)
    \/ \E a \in Approvals :
         \/ \E t \in Targets, v \in {"approve", "deny"} : Decide(c, w, k, a, t, v)
         \/ \E n \in Notes : CommitNote(c, w, k, a, n)
         \/ \E p \in Patches : CommitPatch(c, w, k, a, p)

Next ==
  \E c \in Conns :
    \/ Call(c) \/ Write(c) \/ Rollback(c) \/ IndexSession(c) \/ Crash(c)
    \/ \E n \in Notes : SourceCheck(c, n)

Spec == Init /\ [][Next]_vars

-----------------------------------------------------------------------------
TypeOK ==
  /\ log \in Seq(Event)
  /\ DOMAIN audit = DOMAIN log
  /\ revision \in [Workspaces -> Nat]
  /\ DOMAIN head = Workspaces
  /\ decision \in [Approvals -> 0..Len(log)]
  /\ note \in [Notes -> NoteStatus]
  /\ pc \in [Conns -> {"idle", "write", "index"}]
  /\ req \in [Conns -> Event \cup {None}]
  /\ base \in [Conns -> Nat]
  /\ indexed \in [Conns -> SUBSET Sessions]

\* verify_audit_chain: the chain is recomputed from the events and compared.
VerifyAuditChain ==
  /\ Len(log) = Len(audit)
  /\ \A n \in DOMAIN log :
       LET prev == IF n = 1 THEN Genesis ELSE audit[n - 1].hash IN
       /\ audit[n].event = n
       /\ audit[n].prev = prev
       /\ audit[n].digest = EventDigest(n, log[n])
       /\ audit[n].hash = AuditHash(prev, EventDigest(n, log[n]))

\* The audit chain verifies at every moment, whichever ledger wrote last and
\* wherever a process died: no interleaving forks the chain or leaves a gap.
AuditChainValid == VerifyAuditChain

\* A workspace's audit head is the hash of the last event of that workspace,
\* although the chain itself runs through all workspaces.
HeadIsLastEvent ==
  \A w \in Workspaces, n \in DOMAIN log :
    log[n].ws = w /\ (\A m \in (n + 1)..Len(log) : log[m].ws # w)
      => head[w] = audit[n].hash

IsDecision(e) == e.kind \in {"approve", "deny"}
IsCommit(e)   == e.kind \in {"commit", "patch"}

\* Nothing is committed without consent: an earlier event approves exactly
\* this target in this workspace under the approval id the commit names, and
\* no other decision was ever recorded under that id.
CommitsApproved ==
  \A n \in DOMAIN log : IsCommit(log[n]) =>
    \E m \in 1..(n - 1) :
      /\ log[m].kind = "approve"
      /\ log[m].approval = log[n].approval
      /\ log[m].target = log[n].target
      /\ log[m].ws = log[n].ws
      /\ \A l \in DOMAIN log :
           IsDecision(log[l]) /\ log[l].approval = log[m].approval => l = m

\* An active note was proposed and then committed.
ActiveWasCommitted ==
  \A x \in Notes : note[x] = "active" =>
    \E m, n \in DOMAIN log :
      /\ m < n
      /\ log[m].kind = "propose" /\ log[m].target = x
      /\ log[n].kind = "commit" /\ log[n].target = x

\* No session can be found whose redaction the ledger has not recorded.
IndexedIsRecorded ==
  \A c \in Conns : \A s \in indexed[c] :
    \E n \in DOMAIN log : log[n].kind = "redact" /\ log[n].target = s

Abstract == INSTANCE EventLog WITH Events <- Event, entries <- log

\* The events table is the promised log: append-only and without duplicate
\* keys, although two ledgers check a key before either of them writes.
ImplementsEventLog == Abstract!Spec

EventsOf(w, n) == {m \in 1..n : log[m].ws = w}

\* With one ledger open on the file, a workspace's revision counts its events,
\* and a commit carries the number that its event has in the workspace, so a
\* caller that names the next revision cannot commit over an unseen event.
\* (Two ledgers may read the same revision and lose a count.)
RevisionCounts ==
  \A w \in Workspaces :
    /\ revision[w] = Cardinality(EventsOf(w, Len(log)))
    /\ \A n \in EventsOf(w, Len(log)) :
         IsCommit(log[n]) => log[n].rev = Cardinality(EventsOf(w, n))

\* What the plan of milestone 1 says: a note in conflict cannot be approved.
ConflictStaysOut == [][\A n \in Notes : note[n] = "conflict" => note'[n] # "active"]_vars
=============================================================================
