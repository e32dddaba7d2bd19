---------------------------- MODULE LedgerProofs ----------------------------
(***************************************************************************)
(* Proofs about Ledger, for every number of ledgers on the file, of        *)
(* workspaces, keys, notes, patches, sessions and approvals, and for event *)
(* tables of any length.                                                   *)
(***************************************************************************)
EXTENDS Ledger, SequenceTheorems, TLAPS

\* What a ledger that is inside a call has prepared.
Requests ==
  {e \in Event : /\ e.kind \in {"init", "inert", "propose", "redact"}
                 /\ e.kind = "propose" => e.target \in Notes
                 /\ e.kind = "redact" => e.target \in Sessions}

Prepared ==
  \A c \in Conns :
    /\ pc[c] # "idle" => req[c] \in Requests
    /\ pc[c] = "index" => req[c].kind = "redact"

\* The audit table is a sequence; of what does not matter here.
AuditIsSeq == \E S : audit \in Seq(S)

TypeInv == TypeOK /\ AuditIsSeq /\ Prepared

-----------------------------------------------------------------------------
\* A transaction adds one row to the events and one to the audit, at the same
\* position, and leaves the rows before them as they are.
LEMMA Appending ==
  ASSUME TypeOK, AuditIsSeq, NEW e \in Event, NEW rev \in Nat, AppendEvent(e, rev)
  PROVE  /\ log' \in Seq(Event)
         /\ Len(log') = Len(log) + 1
         /\ \A n \in 1..Len(log) : log'[n] = log[n] /\ audit'[n] = audit[n]
         /\ log'[Len(log) + 1] = e
         /\ audit'[Len(log) + 1] = AuditEntry(e)
         /\ DOMAIN audit' = DOMAIN log'
         /\ AuditIsSeq'
         /\ revision' \in [Workspaces -> Nat]
         /\ DOMAIN head' = Workspaces
         /\ head'[e.ws] = AuditEntry(e).hash
         /\ \A w \in Workspaces \ {e.ws} : head'[w] = head[w]
         /\ revision'[e.ws] = rev
<1>1. PICK S : audit \in Seq(S)
  BY DEF AuditIsSeq
<1> DEFINE T == S \cup {AuditEntry(e)}
<1>2. audit \in Seq(T) /\ AuditEntry(e) \in T
  BY <1>1
<1>3. audit' = Append(audit, AuditEntry(e)) /\ log' = Append(log, e)
  BY DEF AppendEvent
<1> HIDE DEF T
<1>4. /\ audit' \in Seq(T) /\ Len(audit') = Len(audit) + 1
      /\ \A n \in 1..Len(audit) : audit'[n] = audit[n]
      /\ audit'[Len(audit) + 1] = AuditEntry(e)
  BY <1>2, <1>3, AppendProperties
<1>5. log \in Seq(Event)
  BY DEF TypeOK
<1>6. /\ log' \in Seq(Event) /\ Len(log') = Len(log) + 1
      /\ \A n \in 1..Len(log) : log'[n] = log[n]
      /\ log'[Len(log) + 1] = e
  BY <1>3, <1>5, AppendProperties
<1>7. Len(audit) = Len(log) /\ DOMAIN log = 1..Len(log)
  BY <1>2, <1>5 DEF TypeOK
<1>8. DOMAIN audit' = DOMAIN log' /\ AuditIsSeq'
  BY <1>4, <1>6, <1>7 DEF AuditIsSeq
<1>9. e.ws \in Workspaces
  BY DEF Event
<1>10. /\ revision' \in [Workspaces -> Nat] /\ DOMAIN head' = Workspaces
       /\ head'[e.ws] = AuditEntry(e).hash
       /\ \A w \in Workspaces \ {e.ws} : head'[w] = head[w]
       /\ revision'[e.ws] = rev
  BY <1>9 DEF TypeOK, AppendEvent, UpdateWorkspace
<1>11. QED
  BY <1>4, <1>6, <1>7, <1>8, <1>10

\* How the decisions table follows the event that a transaction adds.
DecisionFollows(e) ==
  \/ /\ IsDecision(e)
     /\ e.approval \in Approvals
     /\ decision[e.approval] = 0
     /\ decision' = [decision EXCEPT ![e.approval] = Len(log) + 1]
  \/ /\ ~IsDecision(e)
     /\ decision' = decision

\* Every action leaves the tables of events alone or adds one event to them;
\* a commit among them is approved.
Appends(e, rev) ==
  /\ AppendEvent(e, rev)
  /\ DecisionFollows(e)
  /\ IsCommit(e) => e.approval \in Approvals /\ Approved(e.approval, e.target, e.ws)

Quiet == UNCHANGED <<log, audit, revision, head, decision>>

\* Every step of the ledger is one of these two.
LEMMA StepShape ==
  ASSUME TypeInv, [Next]_vars
  PROVE  Quiet \/ \E e \in Event, rev \in Nat : Appends(e, rev)
<1> USE DEF TypeInv, TypeOK
<1>1. ASSUME NEW c \in Conns, Write(c)
      PROVE  \E e \in Event, rev \in Nat : Appends(e, rev)
  <2>1. req[c] \in Event /\ ~IsDecision(req[c]) /\ ~IsCommit(req[c])
    BY <1>1 DEF Write, Prepared, Requests, IsDecision, IsCommit
  <2>2. base[c] \in Nat
    OBVIOUS
  <2>3. AppendEvent(req[c], base[c]) /\ decision' = decision
    BY <1>1 DEF Write
  <2>4. QED
    BY <2>1, <2>2, <2>3 DEF Appends, DecisionFollows
<1>2. ASSUME NEW c \in Conns, NEW w \in Workspaces, NEW k \in Keys, NEW a \in Approvals,
             NEW t \in Targets, NEW v \in {"approve", "deny"}, Decide(c, w, k, a, t, v)
      PROVE  \E e \in Event, rev \in Nat : Appends(e, rev)
  <2> DEFINE e == [kind |-> v, ws |-> w, key |-> k, target |-> t, approval |-> a, rev |-> 0]
  <2>1. e \in Event /\ IsDecision(e) /\ ~IsCommit(e) /\ e.approval = a
    BY DEF Event, IsDecision, IsCommit, Targets
  <2>2. revision[w] + 1 \in Nat
    OBVIOUS
  <2>3. AppendEvent(e, revision[w] + 1) /\ decision[a] = 0
        /\ decision' = [decision EXCEPT ![a] = Len(log) + 1]
    BY <1>2 DEF Decide
  <2>4. QED
    BY <2>1, <2>2, <2>3 DEF Appends, DecisionFollows
<1>3. ASSUME NEW c \in Conns, NEW w \in Workspaces, NEW k \in Keys, NEW a \in Approvals,
             NEW n \in Notes, CommitNote(c, w, k, a, n)
      PROVE  \E e \in Event, rev \in Nat : Appends(e, rev)
  <2> DEFINE e == CommitEvent("commit", w, k, a, n)
  <2>1. /\ e \in Event /\ ~IsDecision(e)
        /\ e.approval = a /\ e.target = n /\ e.ws = w
    BY DEF CommitEvent, Event, IsDecision, Targets
  <2>2. revision[w] + 1 \in Nat
    OBVIOUS
  <2>3. AppendEvent(e, revision[w] + 1) /\ Approved(a, n, w) /\ decision' = decision
    BY <1>3 DEF CommitNote
  <2>4. QED
    BY <2>1, <2>2, <2>3 DEF Appends, DecisionFollows
<1>4. ASSUME NEW c \in Conns, NEW w \in Workspaces, NEW k \in Keys, NEW a \in Approvals,
             NEW p \in Patches, CommitPatch(c, w, k, a, p)
      PROVE  \E e \in Event, rev \in Nat : Appends(e, rev)
  <2> DEFINE e == CommitEvent("patch", w, k, a, p)
  <2>1. /\ e \in Event /\ ~IsDecision(e)
        /\ e.approval = a /\ e.target = p /\ e.ws = w
    BY DEF CommitEvent, Event, IsDecision, Targets
  <2>2. revision[w] + 1 \in Nat
    OBVIOUS
  <2>3. AppendEvent(e, revision[w] + 1) /\ Approved(a, p, w) /\ decision' = decision
    BY <1>4 DEF CommitPatch
  <2>4. QED
    BY <2>1, <2>2, <2>3 DEF Appends, DecisionFollows
<1>5. ASSUME NEW c \in Conns, NEW n \in Notes, SourceCheck(c, n) PROVE Quiet
  BY <1>5 DEF SourceCheck, Quiet
<1>6. ASSUME NEW c \in Conns, NEW e, Check(c, e) PROVE Quiet
  BY <1>6 DEF Check, Quiet, tables
<1>7. ASSUME NEW c \in Conns, Rollback(c) \/ IndexSession(c) \/ Crash(c) PROVE Quiet
  BY <1>7 DEF Rollback, IndexSession, Crash, Quiet, tables
<1>8. CASE UNCHANGED vars
  BY <1>8 DEF vars, tables, Quiet
<1>9. QED
  BY <1>1, <1>2, <1>3, <1>4, <1>5, <1>6, <1>7, <1>8 DEF Next, Call

-----------------------------------------------------------------------------
\* The requests that a ledger can prepare are well formed.
LEMMA PlainRequests ==
  ASSUME NEW w \in Workspaces, NEW k \in Keys, NEW e \in Unlocked(w, k)
  PROVE  e \in Requests /\ e.ws = w /\ e \in Event
BY DEF Unlocked, Plain, Requests, Event, Targets

\* The types hold initially.
LEMMA TypeInvInit == Init => TypeInv
<1> SUFFICES ASSUME Init PROVE TypeInv
  OBVIOUS
<1>1. TypeOK
  BY DEF Init, TypeOK, NoteStatus
<1>2. AuditIsSeq
  <2>1. audit \in Seq({})
    BY DEF Init
  <2>2. QED
    BY <2>1 DEF AuditIsSeq
<1>3. Prepared
  BY DEF Init, Prepared
<1>4. QED
  BY <1>1, <1>2, <1>3 DEF TypeInv

\* Every step keeps the types of the tables.
LEMMA TablesTyped ==
  ASSUME TypeInv, [Next]_vars
  PROVE  /\ log' \in Seq(Event) /\ DOMAIN audit' = DOMAIN log' /\ AuditIsSeq'
         /\ revision' \in [Workspaces -> Nat] /\ DOMAIN head' = Workspaces
         /\ decision' \in [Approvals -> 0..Len(log')]
<1>1. CASE Quiet
  BY <1>1 DEF Quiet, TypeInv, TypeOK, AuditIsSeq
<1>2. ASSUME NEW e \in Event, NEW rev \in Nat, Appends(e, rev)
      PROVE  /\ log' \in Seq(Event) /\ DOMAIN audit' = DOMAIN log' /\ AuditIsSeq'
             /\ revision' \in [Workspaces -> Nat] /\ DOMAIN head' = Workspaces
             /\ decision' \in [Approvals -> 0..Len(log')]
  <2>1. /\ log' \in Seq(Event) /\ DOMAIN audit' = DOMAIN log' /\ AuditIsSeq'
        /\ revision' \in [Workspaces -> Nat] /\ DOMAIN head' = Workspaces
        /\ Len(log') = Len(log) + 1
    BY <1>2, Appending DEF TypeInv, Appends
  <2>2. Len(log) \in Nat /\ decision \in [Approvals -> 0..Len(log)]
    BY DEF TypeInv, TypeOK
  <2>3. decision' \in [Approvals -> 0..Len(log')]
    BY <1>2, <2>1, <2>2 DEF Appends, DecisionFollows
  <2>4. QED
    BY <2>1, <2>3
<1>3. QED
  BY <1>1, <1>2, StepShape

\* Every step keeps the types of a ledger's own state.
LEMMA LedgersTyped ==
  ASSUME TypeInv, [Next]_vars
  PROVE  /\ note' \in [Notes -> NoteStatus]
         /\ pc' \in [Conns -> {"idle", "write", "index"}]
         /\ req' \in [Conns -> Event \cup {None}]
         /\ base' \in [Conns -> Nat]
         /\ indexed' \in [Conns -> SUBSET Sessions]
         /\ Prepared'
<1> DEFINE Goal == /\ note' \in [Notes -> NoteStatus]
                   /\ pc' \in [Conns -> {"idle", "write", "index"}]
                   /\ req' \in [Conns -> Event \cup {None}]
                   /\ base' \in [Conns -> Nat]
                   /\ indexed' \in [Conns -> SUBSET Sessions]
                   /\ Prepared'
<1> USE DEF TypeInv, TypeOK, Prepared, NoteStatus
<1>1. ASSUME NEW c \in Conns, NEW w \in Workspaces, NEW k \in Keys, NEW e \in Unlocked(w, k),
             Check(c, e)
      PROVE  Goal
  BY <1>1, PlainRequests DEF Check, tables
<1>2. ASSUME NEW c \in Conns, Write(c) PROVE Goal
  <2>1. req[c] \in Requests
    BY <1>2 DEF Write
  <2>2. note' \in [Notes -> NoteStatus]
    BY <1>2, <2>1 DEF Write, Requests
  <2>3. CASE req[c].kind = "redact"
    BY <1>2, <2>1, <2>2, <2>3 DEF Write
  <2>4. CASE req[c].kind # "redact"
    <3>1. EndCall(c) /\ indexed' = indexed
      BY <1>2, <2>4 DEF Write
    <3>2. QED
      BY <2>2, <3>1 DEF EndCall
  <2>5. QED
    BY <2>3, <2>4
<1>3. ASSUME NEW c \in Conns, Rollback(c) PROVE Goal
  BY <1>3 DEF Rollback, EndCall, tables
<1>4. ASSUME NEW c \in Conns, IndexSession(c) PROVE Goal
  <2>1. req[c].target \in Sessions
    BY <1>4 DEF IndexSession, Requests
  <2>2. QED
    BY <1>4, <2>1 DEF IndexSession, EndCall, tables
<1>5. ASSUME NEW c \in Conns, Crash(c) PROVE Goal
  BY <1>5 DEF Crash, EndCall, tables
<1>6. ASSUME NEW c \in Conns, NEW n \in Notes, SourceCheck(c, n) PROVE Goal
  BY <1>6 DEF SourceCheck, connVars
<1>7. ASSUME NEW c \in Conns, NEW w, NEW k, NEW a, NEW n \in Notes, CommitNote(c, w, k, a, n)
      PROVE  Goal
  BY <1>7 DEF CommitNote, connVars
<1>8. ASSUME NEW c \in Conns, NEW w, NEW k, NEW a, NEW p, CommitPatch(c, w, k, a, p)
      PROVE  Goal
  BY <1>8 DEF CommitPatch, connVars
<1>9. ASSUME NEW c \in Conns, NEW w, NEW k, NEW a, NEW t, NEW v, Decide(c, w, k, a, t, v)
      PROVE  Goal
  BY <1>9 DEF Decide, connVars
<1>10. CASE UNCHANGED vars
  BY <1>10 DEF vars, tables, connVars
<1>11. QED
  BY <1>1, <1>2, <1>3, <1>4, <1>5, <1>6, <1>7, <1>8, <1>9, <1>10 DEF Next, Call

\* Type correctness: the tables and the state of every open ledger keep their
\* types, whatever the ledgers do and whenever a process dies.
THEOREM TypeCorrect == Spec => []TypeInv
<1>1. TypeInv /\ [Next]_vars => TypeInv'
  <2> SUFFICES ASSUME TypeInv, [Next]_vars PROVE TypeInv'
    OBVIOUS
  <2>1. TypeOK'
    BY TablesTyped, LedgersTyped DEF TypeOK
  <2>2. QED
    BY <2>1, TablesTyped, LedgersTyped DEF TypeInv
<1>2. QED
  BY TypeInvInit, <1>1, PTL DEF Spec

-----------------------------------------------------------------------------
\* Only the last position of a longer table is new.
LEMMA Positions ==
  ASSUME TypeInv, NEW e \in Event, NEW rev \in Nat, AppendEvent(e, rev)
  PROVE  /\ Len(log) \in Nat
         /\ DOMAIN log = 1..Len(log)
         /\ DOMAIN log' = 1..(Len(log) + 1)
         /\ \A n \in DOMAIN log : n \in DOMAIN log' /\ n < Len(log) + 1
         /\ \A n \in DOMAIN log' : n \in DOMAIN log \/ n = Len(log) + 1
<1>1. log \in Seq(Event) /\ log' \in Seq(Event) /\ Len(log') = Len(log) + 1
  BY Appending DEF TypeInv, TypeOK
<1>2. QED
  BY <1>1

\* Each row of the audit chains to the row before it.
ChainRow(n) ==
  LET prev == IF n = 1 THEN Genesis ELSE audit[n - 1].hash IN
  /\ audit[n].event = n
  /\ audit[n].prev = prev
  /\ audit[n].digest = EventDigest(n, log[n])
  /\ audit[n].hash = AuditHash(prev, EventDigest(n, log[n]))

AllRows == \A n \in DOMAIN log : ChainRow(n)

\* With the types, a verified chain is nothing but its rows.
LEMMA ChainRows == TypeInv => (AuditChainValid <=> AllRows)
<1> SUFFICES ASSUME TypeInv PROVE AuditChainValid <=> AllRows
  OBVIOUS
<1>1. PICK S : audit \in Seq(S)
  BY DEF TypeInv, AuditIsSeq
<1>2. Len(log) = Len(audit)
  BY <1>1 DEF TypeInv, TypeOK
<1>3. QED
  BY <1>2 DEF AuditChainValid, VerifyAuditChain, ChainRow, AllRows

\* The audit chain verifies in every reachable state: the previous hash is read
\* in the transaction that appends the row.
THEOREM ChainVerifies == Spec => []AuditChainValid
<1>1. TypeInv /\ Init => AuditChainValid
  <2> SUFFICES ASSUME TypeInv, Init PROVE AuditChainValid
    OBVIOUS
  <2>1. DOMAIN log = {}
    BY DEF Init
  <2>2. QED
    BY <2>1, ChainRows DEF AllRows
<1>2. TypeInv /\ TypeInv' /\ AuditChainValid /\ [Next]_vars => AuditChainValid'
  <2> SUFFICES ASSUME TypeInv, TypeInv', AuditChainValid, [Next]_vars PROVE AuditChainValid'
    OBVIOUS
  <2>1. CASE Quiet
    BY <2>1 DEF Quiet, AuditChainValid, VerifyAuditChain
  <2>2. ASSUME NEW e \in Event, NEW rev \in Nat, Appends(e, rev) PROVE AuditChainValid'
    <3>1. AppendEvent(e, rev)
      BY <2>2 DEF Appends
    <3>2. \A n \in DOMAIN log : ChainRow(n)
      BY ChainRows DEF AllRows
    <3>3. ASSUME NEW n \in DOMAIN log PROVE ChainRow(n)'
      <4>1. /\ n \in 1..Len(log) /\ (n # 1 => n - 1 \in 1..Len(log))
            /\ ChainRow(n)
        BY <3>1, <3>2, <3>3, Positions
      <4>2. /\ log'[n] = log[n] /\ audit'[n] = audit[n]
            /\ n # 1 => audit'[n - 1] = audit[n - 1]
        BY <3>1, <4>1, Appending DEF TypeInv
      <4>3. QED
        BY <4>1, <4>2 DEF ChainRow
    <3>4. ASSUME NEW m, m = Len(log) + 1 PROVE ChainRow(m)'
      <4>1. /\ audit'[m] = AuditEntry(e) /\ log'[m] = e
            /\ m # 1 => audit'[m - 1] = audit[m - 1]
        BY <3>1, <3>4, Appending, Positions DEF TypeInv
      <4>2. LastHash = IF m = 1 THEN Genesis ELSE audit[m - 1].hash
        <5>1. PICK S : audit \in Seq(S)
          BY DEF TypeInv, AuditIsSeq
        <5>2. Len(audit) = Len(log) /\ Len(log) \in Nat
          BY <5>1 DEF TypeInv, TypeOK
        <5>3. audit = <<>> <=> m = 1
          BY <3>4, <5>1, <5>2
        <5>4. QED
          BY <3>4, <5>2, <5>3 DEF LastHash
      <4>3. QED
        BY <3>4, <4>1, <4>2 DEF AuditEntry, ChainRow
    <3>5. AllRows'
      BY <3>1, <3>3, <3>4, Positions DEF AllRows
    <3>6. QED
      BY <3>5, ChainRows, PTL
  <2>3. QED
    BY <2>1, <2>2, StepShape
<1>3. QED
  BY TypeCorrect, <1>1, <1>2, PTL DEF Spec

-----------------------------------------------------------------------------
\* The decisions table and the events agree: a decision is at the position
\* that the table names, and there is no other under its id.
DecisionsMatch ==
  /\ \A a \in Approvals : decision[a] # 0 =>
       /\ decision[a] \in DOMAIN log
       /\ IsDecision(log[decision[a]])
       /\ log[decision[a]].approval = a
  /\ \A n \in DOMAIN log : IsDecision(log[n]) =>
       /\ log[n].approval \in Approvals
       /\ decision[log[n].approval] = n

\* Every step keeps the decisions table and the events in agreement.
LEMMA DecisionsStay ==
  ASSUME TypeInv, DecisionsMatch, [Next]_vars
  PROVE  DecisionsMatch'
<1>1. CASE Quiet
  BY <1>1 DEF Quiet, DecisionsMatch
<1>2. ASSUME NEW e \in Event, NEW rev \in Nat, Appends(e, rev) PROVE DecisionsMatch'
  <2>1. AppendEvent(e, rev)
    BY <1>2 DEF Appends
  <2>2. /\ \A n \in DOMAIN log : log'[n] = log[n]
        /\ log'[Len(log) + 1] = e
        /\ Len(log) \in Nat /\ Len(log) + 1 \in DOMAIN log' /\ Len(log) + 1 # 0
        /\ Len(log) + 1 \notin DOMAIN log
        /\ \A n \in DOMAIN log : n \in DOMAIN log'
        /\ \A n \in DOMAIN log' : n \in DOMAIN log \/ n = Len(log) + 1
    BY <2>1, Appending, Positions DEF TypeInv
  <2>3. decision \in [Approvals -> 0..Len(log)]
    BY DEF TypeInv, TypeOK
  <2>4. CASE IsDecision(e)
    <3>1. /\ e.approval \in Approvals /\ decision[e.approval] = 0
          /\ decision' = [decision EXCEPT ![e.approval] = Len(log) + 1]
      BY <1>2, <2>4 DEF Appends, DecisionFollows
    <3>2. ASSUME NEW a \in Approvals, decision'[a] # 0
          PROVE  /\ decision'[a] \in DOMAIN log'
                 /\ IsDecision(log'[decision'[a]])
                 /\ log'[decision'[a]].approval = a
      <4>1. CASE a = e.approval
        BY <2>2, <2>3, <2>4, <3>1, <4>1
      <4>2. CASE a # e.approval
        BY <2>2, <2>3, <3>1, <3>2, <4>2 DEF DecisionsMatch
      <4>3. QED
        BY <4>1, <4>2
    <3>3. ASSUME NEW n \in DOMAIN log', IsDecision(log'[n])
          PROVE  log'[n].approval \in Approvals /\ decision'[log'[n].approval] = n
      <4>1. CASE n = Len(log) + 1
        BY <2>2, <2>3, <3>1, <4>1
      <4>2. CASE n \in DOMAIN log
        <5>1. log'[n] = log[n] /\ log[n].approval \in Approvals /\ decision[log[n].approval] = n
          BY <2>2, <3>3, <4>2 DEF DecisionsMatch
        <5>2. n # 0
          BY <4>2 DEF TypeInv, TypeOK
        <5>3. log[n].approval # e.approval
          BY <3>1, <5>1, <5>2
        <5>4. QED
          BY <2>3, <3>1, <5>1, <5>3
      <4>3. QED
        BY <2>2, <4>1, <4>2
    <3>4. QED
      BY <3>2, <3>3 DEF DecisionsMatch, IsDecision
  <2>5. CASE ~IsDecision(e)
    <3>1. decision' = decision
      BY <1>2, <2>5 DEF Appends, DecisionFollows
    <3>2. QED
      BY <2>2, <2>5, <3>1 DEF DecisionsMatch, IsDecision
  <2>6. QED
    BY <2>4, <2>5
<1>3. QED
  BY <1>1, <1>2, StepShape

\* A commit in the log is approved by an event before it, under the only
\* decision with its approval id.
ApprovedBy(n) ==
  \E m \in 1..(n - 1) :
    /\ log[m].kind = "approve"
    /\ log[m].approval = log[n].approval
    /\ log[m].target = log[n].target
    /\ log[m].ws = log[n].ws

\* Nothing is committed without consent, and consent is given once: proved from
\* the agreement of the decisions table with the events.
THEOREM CommitsNeedApproval == Spec => []CommitsApproved
<1> DEFINE Backed == \A n \in DOMAIN log : IsCommit(log[n]) => ApprovedBy(n)
<1>1. Init => DecisionsMatch /\ Backed
  BY DEF Init, DecisionsMatch
<1>2. TypeInv /\ DecisionsMatch /\ Backed /\ [Next]_vars => DecisionsMatch' /\ Backed'
  <2> SUFFICES ASSUME TypeInv, DecisionsMatch, Backed, [Next]_vars
               PROVE  DecisionsMatch' /\ Backed'
    OBVIOUS
  <2>1. CASE Quiet
    BY <2>1, DecisionsStay DEF Quiet, ApprovedBy
  <2>2. ASSUME NEW e \in Event, NEW rev \in Nat, Appends(e, rev) PROVE Backed'
    <3>1. AppendEvent(e, rev)
      BY <2>2 DEF Appends
    <3>2. /\ Len(log) \in Nat /\ DOMAIN log = 1..Len(log)
          /\ \A n \in DOMAIN log : log'[n] = log[n]
          /\ log'[Len(log) + 1] = e
          /\ \A n \in DOMAIN log' : n \in DOMAIN log \/ n = Len(log) + 1
      BY <3>1, Appending, Positions DEF TypeInv
    <3>3. ASSUME NEW n \in DOMAIN log, IsCommit(log'[n]) PROVE ApprovedBy(n)'
      <4>1. PICK m \in 1..(n - 1) :
              /\ log[m].kind = "approve"
              /\ log[m].approval = log[n].approval
              /\ log[m].target = log[n].target
              /\ log[m].ws = log[n].ws
        BY <3>2, <3>3 DEF ApprovedBy
      <4>2. m \in DOMAIN log
        BY <3>2
      <4>3. log'[m] = log[m] /\ log'[n] = log[n]
        BY <3>2, <4>2
      <4>4. QED
        BY <4>1, <4>3 DEF ApprovedBy
    <3>4. ASSUME IsCommit(e), NEW n, n = Len(log) + 1 PROVE ApprovedBy(n)'
      <4> DEFINE m == decision[e.approval]
      <4>1. /\ e.approval \in Approvals /\ m # 0
            /\ log[m].target = e.target /\ log[m].ws = e.ws /\ log[m].kind = "approve"
        BY <2>2, <3>4 DEF Appends, Approved
      <4>2. m \in DOMAIN log /\ log[m].approval = e.approval
        BY <4>1 DEF DecisionsMatch
      <4>3. m \in 1..(n - 1) /\ log'[m] = log[m]
        BY <3>2, <3>4, <4>2
      <4> HIDE DEF m
      <4>4. QED
        BY <3>2, <3>4, <4>1, <4>2, <4>3 DEF ApprovedBy
    <3>5. QED
      BY <3>2, <3>3, <3>4
  <2>3. QED
    BY <2>1, <2>2, StepShape, DecisionsStay
<1>3. TypeInv /\ DecisionsMatch /\ Backed => CommitsApproved
  <2> SUFFICES ASSUME TypeInv, DecisionsMatch, Backed,
                      NEW n \in DOMAIN log, IsCommit(log[n])
               PROVE  \E m \in 1..(n - 1) :
                        /\ log[m].kind = "approve"
                        /\ log[m].approval = log[n].approval
                        /\ log[m].target = log[n].target
                        /\ log[m].ws = log[n].ws
                        /\ \A l \in DOMAIN log :
                             IsDecision(log[l]) /\ log[l].approval = log[m].approval => l = m
    BY DEF CommitsApproved
  <2>1. PICK m \in 1..(n - 1) :
          /\ log[m].kind = "approve"
          /\ log[m].approval = log[n].approval
          /\ log[m].target = log[n].target
          /\ log[m].ws = log[n].ws
    BY DEF ApprovedBy
  <2>2. m \in DOMAIN log /\ IsDecision(log[m])
    BY <2>1 DEF TypeInv, TypeOK, IsDecision
  <2>3. \A l \in DOMAIN log : IsDecision(log[l]) /\ log[l].approval = log[m].approval => l = m
    BY <2>2 DEF DecisionsMatch
  <2>4. QED
    BY <2>1, <2>3
<1> HIDE DEF Backed
<1>4. QED
  BY TypeCorrect, <1>1, <1>2, <1>3, PTL DEF Spec

-----------------------------------------------------------------------------
\* The events table implements the promised log: it only grows, one event at
\* the end of it at a time, and never repeats a key, although a ledger checks
\* the key long before it writes.
THEOREM LogRefines == Spec => ImplementsEventLog
<1>1. Init => Abstract!Init
  BY DEF Init, Abstract!Init
<1>2. TypeInv /\ [Next]_vars => [Abstract!Next]_log
  <2> SUFFICES ASSUME TypeInv, [Next]_vars PROVE [Abstract!Next]_log
    OBVIOUS
  <2>1. CASE Quiet
    BY <2>1 DEF Quiet
  <2>2. ASSUME NEW e \in Event, NEW rev \in Nat, Appends(e, rev) PROVE Abstract!Next
    <3>1. AppendEvent(e, rev)
      BY <2>2 DEF Appends
    <3>2. log' \in Seq(Event) /\ Len(log') = Len(log) + 1 /\ Len(log) \in Nat
          /\ log'[Len(log) + 1] = e
      BY <3>1, Appending, Positions DEF TypeInv
    <3>3. log' # <<>> /\ log'[Len(log')] = e
      BY <3>2
    <3>4. ~Abstract!Recorded(e.key) /\ log' = Append(log, e)
      BY <3>1 DEF AppendEvent, Free, Abstract!Recorded
    <3>5. QED
      BY <3>3, <3>4 DEF Abstract!Next, Abstract!Record
  <2>3. QED
    BY <2>1, <2>2, StepShape
<1>3. QED
  BY TypeCorrect, <1>1, <1>2, PTL DEF Spec, ImplementsEventLog, Abstract!Spec

-----------------------------------------------------------------------------
\* A workspace's audit head is the hash of its own last event, although the
\* chain interleaves all workspaces.
THEOREM HeadsAreLast == Spec => []HeadIsLastEvent
<1>1. Init => HeadIsLastEvent
  BY DEF Init, HeadIsLastEvent
<1>2. TypeInv /\ HeadIsLastEvent /\ [Next]_vars => HeadIsLastEvent'
  <2> SUFFICES ASSUME TypeInv, HeadIsLastEvent, [Next]_vars PROVE HeadIsLastEvent'
    OBVIOUS
  <2>1. CASE Quiet
    BY <2>1 DEF Quiet, HeadIsLastEvent
  <2>2. ASSUME NEW e \in Event, NEW rev \in Nat, Appends(e, rev) PROVE HeadIsLastEvent'
    <3> SUFFICES ASSUME NEW w \in Workspaces, NEW n \in DOMAIN log', log'[n].ws = w,
                        \A m \in (n + 1)..Len(log') : log'[m].ws # w
                 PROVE  head'[w] = audit'[n].hash
      BY DEF HeadIsLastEvent
    <3>1. AppendEvent(e, rev)
      BY <2>2 DEF Appends
    <3>2. /\ Len(log) \in Nat /\ DOMAIN log = 1..Len(log) /\ Len(log') = Len(log) + 1
          /\ \A m \in DOMAIN log : log'[m] = log[m] /\ audit'[m] = audit[m]
          /\ log'[Len(log) + 1] = e
          /\ n \in DOMAIN log \/ n = Len(log) + 1
      BY <3>1, Appending, Positions DEF TypeInv
    <3>3. /\ audit'[Len(log) + 1] = AuditEntry(e)
          /\ head'[e.ws] = AuditEntry(e).hash
          /\ \A v \in Workspaces \ {e.ws} : head'[v] = head[v]
      BY <3>1, Appending DEF TypeInv
    <3>4. CASE n = Len(log) + 1
      BY <3>2, <3>3, <3>4
    <3>5. CASE n \in DOMAIN log
      <4>1. e.ws # w
        BY <3>2, <3>5
      <4>2. head'[w] = head[w] /\ log[n].ws = w /\ audit'[n] = audit[n]
        BY <3>2, <3>3, <3>5, <4>1
      <4>3. \A m \in (n + 1)..Len(log) : log[m].ws # w
        BY <3>2, <3>5
      <4>4. QED
        BY <3>5, <4>2, <4>3 DEF HeadIsLastEvent
    <3>6. QED
      BY <3>2, <3>4, <3>5
  <2>3. QED
    BY <2>1, <2>2, StepShape
<1>3. QED
  BY TypeCorrect, <1>1, <1>2, PTL DEF Spec

-----------------------------------------------------------------------------
\* The ledger has recorded a redaction of session s.
Redacted(s) == \E n \in DOMAIN log : log[n].kind = "redact" /\ log[n].target = s

\* What is recorded stays recorded.
LEMMA RedactedStays ==
  ASSUME TypeInv, [Next]_vars, NEW s, Redacted(s)
  PROVE  Redacted(s)'
<1>1. CASE Quiet
  BY <1>1 DEF Quiet, Redacted
<1>2. ASSUME NEW e \in Event, NEW rev \in Nat, Appends(e, rev) PROVE Redacted(s)'
  <2>1. /\ \A n \in DOMAIN log : log'[n] = log[n]
        /\ \A n \in DOMAIN log : n \in DOMAIN log'
    BY <1>2, Appending, Positions DEF TypeInv, Appends
  <2>2. QED
    BY <2>1 DEF Redacted
<1>3. QED
  BY <1>1, <1>2, StepShape

\* A ledger about to index a session has recorded its redaction.
IndexingIsRecorded == \A c \in Conns : pc[c] = "index" => Redacted(req[c].target)

\* No session can be found whose redaction is not in the log, whenever the
\* process dies between the commit and the index.
THEOREM IndexFollowsLog == Spec => []IndexedIsRecorded
<1> DEFINE Inv == /\ IndexingIsRecorded
                  /\ \A c \in Conns : \A s \in indexed[c] : Redacted(s)
<1>1. Init => Inv
  BY DEF Init, IndexingIsRecorded
<1>2. TypeInv /\ Inv /\ [Next]_vars => Inv'
  <2> SUFFICES ASSUME TypeInv, Inv, [Next]_vars PROVE Inv'
    OBVIOUS
  <2>1. \A s : Redacted(s) => Redacted(s)'
    BY RedactedStays
  <2>2. /\ pc \in [Conns -> {"idle", "write", "index"}]
        /\ req \in [Conns -> Event \cup {None}]
        /\ indexed \in [Conns -> SUBSET Sessions]
    BY DEF TypeInv, TypeOK
  <2>3. ASSUME NEW c \in Conns, NEW e, Check(c, e) PROVE Inv'
    BY <2>1, <2>2, <2>3 DEF Check, IndexingIsRecorded
  <2>4. ASSUME NEW c \in Conns, Write(c) PROVE Inv'
    <3>1. indexed' = indexed
      BY <2>4 DEF Write
    <3>2. CASE req[c].kind = "redact"
      <4>1. pc' = [pc EXCEPT ![c] = "index"] /\ req' = req
        BY <2>4, <3>2 DEF Write
      <4>2. req[c] \in Event /\ base[c] \in Nat /\ AppendEvent(req[c], base[c])
        BY <2>4 DEF Write, TypeInv, TypeOK, Prepared, Requests
      <4>3. Len(log) + 1 \in DOMAIN log' /\ log'[Len(log) + 1] = req[c]
        BY <4>2, Appending, Positions DEF TypeInv
      <4>4. Redacted(req[c].target)'
        BY <3>2, <4>1, <4>3 DEF Redacted
      <4>5. QED
        BY <2>1, <2>2, <3>1, <4>1, <4>4 DEF IndexingIsRecorded
    <3>3. CASE req[c].kind # "redact"
      <4>1. EndCall(c)
        BY <2>4, <3>3 DEF Write
      <4>2. QED
        BY <2>1, <2>2, <3>1, <4>1 DEF EndCall, IndexingIsRecorded
    <3>4. QED
      BY <3>2, <3>3
  <2>5. ASSUME NEW c \in Conns, Rollback(c) PROVE Inv'
    BY <2>1, <2>2, <2>5 DEF Rollback, EndCall, IndexingIsRecorded
  <2>6. ASSUME NEW c \in Conns, IndexSession(c) PROVE Inv'
    <3>1. Redacted(req[c].target)
      BY <2>6 DEF IndexSession, IndexingIsRecorded
    <3>2. QED
      BY <2>1, <2>2, <2>6, <3>1 DEF IndexSession, EndCall, IndexingIsRecorded
  <2>7. ASSUME NEW c \in Conns, Crash(c) PROVE Inv'
    BY <2>1, <2>2, <2>7 DEF Crash, EndCall, IndexingIsRecorded
  <2>8. ASSUME UNCHANGED connVars PROVE Inv'
    BY <2>1, <2>8 DEF connVars, IndexingIsRecorded
  <2>9. ASSUME NEW c, NEW w, NEW k, NEW a, NEW t, NEW v,
               \/ Decide(c, w, k, a, t, v)
               \/ CommitNote(c, w, k, a, t)
               \/ CommitPatch(c, w, k, a, t)
               \/ SourceCheck(c, t)
               \/ UNCHANGED vars
        PROVE  UNCHANGED connVars
    BY <2>9 DEF Decide, CommitNote, CommitPatch, SourceCheck, vars, connVars
  <2>10. QED
    BY <2>3, <2>4, <2>5, <2>6, <2>7, <2>8, <2>9 DEF Next, Call
<1>3. Inv => IndexedIsRecorded
  BY DEF IndexedIsRecorded, Redacted
<1> HIDE DEF Inv
<1>4. QED
  BY TypeCorrect, <1>1, <1>2, <1>3, PTL DEF Spec
=============================================================================
