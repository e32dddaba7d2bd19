------------------------------- MODULE Outbox -------------------------------
(***************************************************************************)
(* The outbound queue of the channel bridge: Outbox and OutboxDispatcher   *)
(* of crates/seaki-channel/src/outbox.rs.                                  *)
(*                                                                         *)
(* Workers run dispatch_round at the same time over one shared Outbox.     *)
(* A round reads the clock once and copies every item once; each later     *)
(* call (lease, transition, record_attempt, set_retry, item) takes and     *)
(* drops a mutex of its own, so each is one action here and everything a   *)
(* worker carries from one call to the next may be stale.  Callers enqueue *)
(* items and resolve Unknown ones beside the workers.                      *)
(*                                                                         *)
(* The provider is outside the repository's control: it may deliver a      *)
(* message and still answer with an error, and a call to it may never      *)
(* come back (the Panic actions).  Asked about a key, it is truthful.      *)
(***************************************************************************)
EXTENDS Integers, FiniteSets

CONSTANTS
  Ids,            \* outbox item ids
  NoItem,         \* no item is being handled
  Keys,           \* provider idempotency keys
  KeyOf,          \* KeyOf[i] is item i's provider_idempotency_key
  Compensable,    \* the items with a compensating_action
  Workers,        \* dispatcher worker ids
  NoWorker,       \* lease_holder is None
  Callers,        \* threads that enqueue items and resolve Unknown ones
  EntryStatus,    \* the statuses an item may be enqueued with
  LeaseDuration,  \* the lease_duration given to dispatch_round
  MaxRetries,     \* RetryBackoff::max_retries
  Delay,          \* Delay[n]: what RetryBackoff gives after n failed attempts
  MayPanic,       \* TRUE: a provider call may never return
  Timely,         \* TRUE: no round takes as long as a lease lasts
  MaxTime         \* bound: the clock stops here

ASSUME OutboxAssumption ==
  /\ NoItem \notin Ids
  /\ NoWorker \notin Workers
  /\ KeyOf \in [Ids -> Keys]
  /\ Compensable \subseteq Ids
  /\ EntryStatus \subseteq {"Pending", "Unknown"}
  /\ LeaseDuration \in Nat
  /\ MaxRetries \in Nat
  /\ Delay \in [0..(MaxRetries - 1) -> Nat]
  /\ MayPanic \in BOOLEAN
  /\ Timely \in BOOLEAN
  /\ MaxTime \in Nat

Status == {"Pending", "Leased", "Sending", "Sent", "Failed", "Retry",
           "Compensated", "Unknown"}

VARIABLES
  status,      \* status[i]: the item's OutboxStatus, "Absent" before it is enqueued
  leaseUntil,  \* leaseUntil[i]: lease_expires_at, 0 for None
  holder,      \* holder[i]: lease_holder
  count,       \* count[i]: attempt_count
  nextAt,      \* nextAt[i]: next_attempt_at, 0 for None
  attempts,    \* attempts[i]: how many ChannelSendAttempts of i are recorded
  sentKeys,    \* sent_idempotency_keys
  pc,          \* pc[w]: where in dispatch_round worker w is
  now,         \* now[w]: the time w's round started with
  todo,        \* todo[w]: eligible items of w's copy not yet handled
  unknown,     \* unknown[w]: those that were Unknown in w's copy
  seen,        \* seen[w][i]: attempt_count in w's copy
  cur,         \* cur[w]: the item w is handling
  answer,      \* answer[w]: what the provider last told w
  callerPc,    \* callerPc[c]: "idle", or what c does after dropping a lock
  callerItem,  \* callerItem[c]: the item c's call is about
  clock,       \* SystemTime::now()
  delivered,   \* the keys whose message reached its audience (the provider's state)
  acks         \* acks[i]: how many sends of i the provider confirmed (history)

itemVars   == <<status, leaseUntil, holder, count, nextAt>>
roundVars  == <<now, todo, unknown, seen>>
callerVars == <<callerPc, callerItem>>
vars == <<itemVars, attempts, sentKeys, pc, roundVars, cur, answer,
          callerVars, clock, delivered, acks>>

Init ==
  /\ status     = [i \in Ids |-> "Absent"]
  /\ leaseUntil = [i \in Ids |-> 0]
  /\ holder     = [i \in Ids |-> NoWorker]
  /\ count      = [i \in Ids |-> 0]
  /\ nextAt     = [i \in Ids |-> 0]
  /\ attempts   = [i \in Ids |-> 0]
  /\ sentKeys   = {}
  /\ pc         = [w \in Workers |-> "idle"]
  /\ now        = [w \in Workers |-> 0]
  /\ todo       = [w \in Workers |-> {}]
  /\ unknown    = [w \in Workers |-> {}]
  /\ seen       = [w \in Workers |-> [i \in Ids |-> 0]]
  /\ cur        = [w \in Workers |-> NoItem]
  /\ answer     = [w \in Workers |-> "none"]
  /\ callerPc   = [c \in Callers |-> "idle"]
  /\ callerItem = [c \in Callers |-> NoItem]
  /\ clock      = 0
  /\ delivered  = {}
  /\ acks       = [i \in Ids |-> 0]

-----------------------------------------------------------------------------
(* Callers: enqueue and resolve_unknown.                                   *)

\* enqueue's first half: the key is looked up and the lock is dropped.
EnqueueCheck(c, i) ==
  /\ callerPc[c] = "idle"
  /\ KeyOf[i] \notin sentKeys
  /\ callerPc'   = [callerPc EXCEPT ![c] = "insert"]
  /\ callerItem' = [callerItem EXCEPT ![c] = i]
  /\ UNCHANGED <<itemVars, attempts, sentKeys, pc, roundVars, cur, answer,
                 clock, delivered, acks>>

EndCall(c) ==
  /\ callerPc'   = [callerPc EXCEPT ![c] = "idle"]
  /\ callerItem' = [callerItem EXCEPT ![c] = NoItem]

\* enqueue's second half: the item is inserted unless its id is taken.  An
\* item that enters as Unknown was sent before, with or without success.
EnqueueInsert(c) ==
  LET i == callerItem[c] IN
  /\ callerPc[c] = "insert"
  /\ status[i] = "Absent"
  /\ \E s \in EntryStatus :
       /\ status' = [status EXCEPT ![i] = s]
       /\ delivered' \in {delivered} \cup
            (IF s = "Unknown" THEN {delivered \cup {KeyOf[i]}} ELSE {})
  /\ EndCall(c)
  /\ UNCHANGED <<leaseUntil, holder, count, nextAt, attempts, sentKeys, pc,
                 roundVars, cur, answer, clock, acks>>

EnqueueDuplicate(c) ==
  /\ callerPc[c] = "insert"
  /\ status[callerItem[c]] # "Absent"
  /\ EndCall(c)
  /\ UNCHANGED <<itemVars, attempts, sentKeys, pc, roundVars, cur, answer,
                 clock, delivered, acks>>

\* The provider's answer to a query about an idempotency key.
QueryAnswers(k) ==
  IF k \in delivered THEN {"Sent"} ELSE {"NotFound", "Failed"}

\* Mutant: anything but Failed counts as Sent.
AfterQueryOptimistic(a) == IF a = "Failed" THEN a ELSE "Sent"

AfterQuery(a) == IF a = "NotFound" THEN "Retry" ELSE a

\* resolve_unknown queries the provider under the items lock: the message is
\* known to be sent, or the item is retried or failed.
ResolveSent(c, i) ==
  /\ callerPc[c] = "idle"
  /\ status[i] = "Unknown"
  /\ "Sent" \in QueryAnswers(KeyOf[i])
  /\ status'     = [status EXCEPT ![i] = AfterQuery("Sent")]
  /\ callerPc'   = [callerPc EXCEPT ![c] = "mark"]
  /\ callerItem' = [callerItem EXCEPT ![c] = i]
  /\ UNCHANGED <<leaseUntil, holder, count, nextAt, attempts, sentKeys, pc,
                 roundVars, cur, answer, clock, delivered, acks>>

ResolveUnsent(c, i) ==
  /\ callerPc[c] = "idle"
  /\ status[i] = "Unknown"
  /\ \E a \in QueryAnswers(KeyOf[i]) \ {"Sent"} :
       status' = [status EXCEPT ![i] = AfterQuery(a)]
  /\ UNCHANGED <<leaseUntil, holder, count, nextAt, attempts, sentKeys, pc,
                 roundVars, cur, answer, callerVars, clock, delivered, acks>>

\* The key is recorded as sent only after the items lock was dropped.
CallerMarkSent(c) ==
  /\ callerPc[c] = "mark"
  /\ sentKeys' = sentKeys \cup {KeyOf[callerItem[c]]}
  /\ EndCall(c)
  /\ UNCHANGED <<itemVars, attempts, pc, roundVars, cur, answer, clock,
                 delivered, acks>>

-----------------------------------------------------------------------------
(* Workers: dispatch_round.                                                *)

Goto(w, l) == pc' = [pc EXCEPT ![w] = l]

\* The worker is done with this item and goes on with its copy.
NextItem(w) ==
  /\ Goto(w, "scan")
  /\ cur'    = [cur EXCEPT ![w] = NoItem]
  /\ answer' = [answer EXCEPT ![w] = "none"]

\* Mutants: Retry items are forgotten; the backoff is.
EligibleOnce(i, t) ==
  \/ status[i] \in {"Pending", "Unknown"}
  \/ status[i] = "Leased" /\ t >= leaseUntil[i]
EligibleAtOnce(i, t) ==
  \/ status[i] \in {"Pending", "Unknown", "Retry"}
  \/ status[i] = "Leased" /\ t >= leaseUntil[i]

\* What a copied item must be at time t to be worth handling.
Eligible(i, t) ==
  \/ status[i] \in {"Pending", "Unknown"}
  \/ status[i] = "Retry" /\ t >= nextAt[i]
  \/ status[i] = "Leased" /\ t >= leaseUntil[i]

\* The clock is read and all items are copied under one lock.  Whether an
\* item of the copy is eligible depends on nothing that changes later.
StartRound(w) ==
  LET picked == {i \in Ids : Eligible(i, clock)} IN
  /\ pc[w] = "idle"
  /\ Goto(w, "scan")
  /\ now'     = [now EXCEPT ![w] = clock]
  /\ todo'    = [todo EXCEPT ![w] = picked]
  /\ unknown' = [unknown EXCEPT ![w] = {i \in picked : status[i] = "Unknown"}]
  /\ seen'    = [seen EXCEPT ![w] = [i \in Ids |-> IF i \in picked THEN count[i] ELSE 0]]
  /\ UNCHANGED <<itemVars, attempts, sentKeys, cur, answer, callerVars,
                 clock, delivered, acks>>

\* The copy is visited in the arbitrary order of a HashMap.
PickItem(w, i) ==
  /\ pc[w] = "scan"
  /\ i \in todo[w]
  /\ Goto(w, IF i \in unknown[w] THEN "query" ELSE "lease")
  /\ cur'  = [cur EXCEPT ![w] = i]
  /\ todo' = [todo EXCEPT ![w] = @ \ {i}]
  /\ UNCHANGED <<itemVars, attempts, sentKeys, now, unknown, seen, answer,
                 callerVars, clock, delivered, acks>>

EndRound(w) ==
  /\ pc[w] = "scan"
  /\ todo[w] = {}
  /\ Goto(w, "idle")
  /\ now'     = [now EXCEPT ![w] = 0]
  /\ unknown' = [unknown EXCEPT ![w] = {}]
  /\ seen'    = [seen EXCEPT ![w] = [i \in Ids |-> 0]]
  /\ UNCHANGED <<itemVars, attempts, sentKeys, todo, cur, answer, callerVars,
                 clock, delivered, acks>>

QueryProvider(w) ==
  /\ pc[w] = "query"
  /\ \E a \in QueryAnswers(KeyOf[cur[w]]) : answer' = [answer EXCEPT ![w] = a]
  /\ Goto(w, "resolve")
  /\ UNCHANGED <<itemVars, attempts, sentKeys, roundVars, cur, callerVars,
                 clock, delivered, acks>>

\* Mutant: the expected status is not compared.
TransitionBlind(i, from, to) == status' = [status EXCEPT ![i] = to]

\* Outbox::transition compares the status only, never who holds the lease.
Transition(i, from, to) ==
  /\ status[i] = from
  /\ status' = [status EXCEPT ![i] = to]

\* The answer is applied if the item still is Unknown.
ApplyAnswer(w) ==
  /\ pc[w] = "resolve"
  /\ Transition(cur[w], "Unknown", AfterQuery(answer[w]))
  /\ Goto(w, CASE answer[w] = "Sent"     -> "mark"
               [] answer[w] = "Failed"   -> "compensate"
               [] answer[w] = "NotFound" -> "reread")
  /\ UNCHANGED <<leaseUntil, holder, count, nextAt, attempts, sentKeys,
                 roundVars, cur, answer, callerVars, clock, delivered, acks>>

\* The status is no longer the one the worker expects: it gives the item up.
StatusMismatch(w) ==
  /\ \/ pc[w] = "resolve" /\ status[cur[w]] # "Unknown"
     \/ pc[w] = "begin" /\ status[cur[w]] # "Leased"
  /\ NextItem(w)
  /\ UNCHANGED <<itemVars, attempts, sentKeys, roundVars, callerVars, clock,
                 delivered, acks>>

\* After Unknown -> Retry the item is copied again.
Reread(w) ==
  /\ pc[w] = "reread"
  /\ seen' = [seen EXCEPT ![w][cur[w]] = count[cur[w]]]
  /\ Goto(w, "lease")
  /\ UNCHANGED <<itemVars, attempts, sentKeys, now, todo, unknown, cur, answer,
                 callerVars, clock, delivered, acks>>

\* Mutants: lease() checks the expiry only, or the status only.
LeasableByTime(i, t) == status[i] # "Absent" /\ t >= leaseUntil[i]
LeasableByStatus(i, t) == status[i] \in {"Pending", "Retry", "Leased"}

\* Outbox::lease: the time it compares with is the round's, not the clock's.
Leasable(i, t) ==
  /\ status[i] \in {"Pending", "Retry", "Leased"}
  /\ t >= leaseUntil[i]

TakeLease(w) ==
  LET i == cur[w] IN
  /\ pc[w] = "lease"
  /\ Leasable(i, now[w])
  /\ status'     = [status EXCEPT ![i] = "Leased"]
  /\ leaseUntil' = [leaseUntil EXCEPT ![i] = now[w] + LeaseDuration]
  /\ holder'     = [holder EXCEPT ![i] = w]
  /\ Goto(w, "begin")
  /\ UNCHANGED <<count, nextAt, attempts, sentKeys, roundVars, cur, answer,
                 callerVars, clock, delivered, acks>>

LeaseRefused(w) ==
  /\ pc[w] = "lease"
  /\ ~Leasable(cur[w], now[w])
  /\ NextItem(w)
  /\ UNCHANGED <<itemVars, attempts, sentKeys, roundVars, callerVars, clock,
                 delivered, acks>>

BeginSend(w) ==
  /\ pc[w] = "begin"
  /\ Transition(cur[w], "Leased", "Sending")
  /\ Goto(w, "record")
  /\ UNCHANGED <<leaseUntil, holder, count, nextAt, attempts, sentKeys,
                 roundVars, cur, answer, callerVars, clock, delivered, acks>>

RecordAttempt(w) ==
  /\ pc[w] = "record"
  /\ attempts' = [attempts EXCEPT ![cur[w]] = @ + 1]
  /\ Goto(w, "send")
  /\ UNCHANGED <<itemVars, sentKeys, roundVars, cur, answer, callerVars,
                 clock, delivered, acks>>

\* provider.send: the provider confirms.
SendOk(w) ==
  LET i == cur[w] IN
  /\ pc[w] = "send"
  /\ Goto(w, "settle")
  /\ answer'    = [answer EXCEPT ![w] = "Ok"]
  /\ delivered' = delivered \cup {KeyOf[i]}
  /\ acks'      = [acks EXCEPT ![i] = @ + 1]
  /\ UNCHANGED <<itemVars, attempts, sentKeys, roundVars, cur, callerVars, clock>>

\* provider.send: it reports an error, and may have delivered all the same.
SendErr(w) ==
  /\ pc[w] = "send"
  /\ Goto(w, "settle")
  /\ answer' = [answer EXCEPT ![w] = "Err"]
  /\ delivered' \in {delivered, delivered \cup {KeyOf[cur[w]]}}
  /\ UNCHANGED <<itemVars, attempts, sentKeys, roundVars, cur, callerVars,
                 clock, acks>>

\* compute_next on the attempt_count of the copy: another attempt, or none.
RetriesLeft(w) == seen[w][cur[w]] < MaxRetries

\* The status that follows the provider's answer, and where the worker goes on.
Settle(w, to, l) ==
  /\ Transition(cur[w], "Sending", to)
  /\ Goto(w, l)
  /\ UNCHANGED <<leaseUntil, holder, count, nextAt, attempts, sentKeys,
                 roundVars, cur, answer, callerVars, clock, delivered, acks>>

SettleSent(w) ==
  pc[w] = "settle" /\ answer[w] = "Ok" /\ Settle(w, "Sent", "mark")

SettleRetry(w) ==
  /\ pc[w] = "settle" /\ answer[w] = "Err" /\ RetriesLeft(w)
  /\ Settle(w, "Retry", "setRetry")

SettleFailed(w) ==
  /\ pc[w] = "settle" /\ answer[w] = "Err" /\ ~RetriesLeft(w)
  /\ Settle(w, "Failed", "compensate")

\* Mutant: the attempt is not counted.
SetRetryUncounted(w) ==
  LET i == cur[w] IN
  /\ pc[w] = "setRetry"
  /\ nextAt' = [nextAt EXCEPT ![i] = now[w] + Delay[seen[w][i]]]
  /\ NextItem(w)
  /\ UNCHANGED <<status, leaseUntil, holder, count, attempts, sentKeys,
                 roundVars, callerVars, clock, delivered, acks>>

\* set_retry writes what the copy says, whatever the item has become since.
SetRetry(w) ==
  LET i == cur[w] IN
  /\ pc[w] = "setRetry"
  /\ count'  = [count EXCEPT ![i] = seen[w][i] + 1]
  /\ nextAt' = [nextAt EXCEPT ![i] = now[w] + Delay[seen[w][i]]]
  /\ NextItem(w)
  /\ UNCHANGED <<status, leaseUntil, holder, attempts, sentKeys, roundVars,
                 callerVars, clock, delivered, acks>>

\* The second lock of transition(.., Sent).
MarkSent(w) ==
  /\ pc[w] = "mark"
  /\ sentKeys' = sentKeys \cup {KeyOf[cur[w]]}
  /\ NextItem(w)
  /\ UNCHANGED <<itemVars, attempts, roundVars, callerVars, clock, delivered, acks>>

\* A failed item with a compensating action becomes Compensated.
Compensate(w) ==
  /\ pc[w] = "compensate"
  /\ IF cur[w] \in Compensable
       THEN Transition(cur[w], "Failed", "Compensated")
       ELSE UNCHANGED status
  /\ NextItem(w)
  /\ UNCHANGED <<leaseUntil, holder, count, nextAt, attempts, sentKeys,
                 roundVars, callerVars, clock, delivered, acks>>

\* A provider call never returns: the worker's thread is gone, in a query or
\* in a send that may have delivered.
PanicInQuery(w) ==
  /\ MayPanic
  /\ pc[w] = "query"
  /\ Goto(w, "dead")
  /\ cur' = [cur EXCEPT ![w] = NoItem]
  /\ UNCHANGED <<itemVars, attempts, sentKeys, roundVars, answer, callerVars,
                 clock, delivered, acks>>

PanicInSend(w) ==
  /\ MayPanic
  /\ pc[w] = "send"
  /\ Goto(w, "dead")
  /\ delivered' \in {delivered, delivered \cup {KeyOf[cur[w]]}}
  /\ UNCHANGED <<itemVars, attempts, sentKeys, roundVars, cur, answer,
                 callerVars, clock, acks>>

-----------------------------------------------------------------------------
InRound(w) == pc[w] \notin {"idle", "dead"}

\* Time passes.  Under Timely every round ends before a lease it takes does.
Tick ==
  /\ clock < MaxTime
  /\ clock' = clock + 1
  /\ Timely => \A w \in Workers : InRound(w) => clock' < now[w] + LeaseDuration
  /\ UNCHANGED <<itemVars, attempts, sentKeys, pc, roundVars, cur, answer,
                 callerVars, delivered, acks>>

Round(w) ==
  \/ StartRound(w) \/ (\E i \in Ids : PickItem(w, i)) \/ EndRound(w)
  \/ QueryProvider(w) \/ ApplyAnswer(w) \/ Reread(w) \/ StatusMismatch(w)
  \/ TakeLease(w) \/ LeaseRefused(w) \/ BeginSend(w) \/ RecordAttempt(w)
  \/ SendOk(w) \/ SendErr(w) \/ SettleSent(w) \/ SettleRetry(w) \/ SettleFailed(w)
  \/ SetRetry(w) \/ MarkSent(w) \/ Compensate(w)

Call(c) ==
  \/ \E i \in Ids : EnqueueCheck(c, i) \/ ResolveSent(c, i) \/ ResolveUnsent(c, i)
  \/ EnqueueInsert(c) \/ EnqueueDuplicate(c) \/ CallerMarkSent(c)

Next ==
  \/ \E w \in Workers : Round(w) \/ PanicInQuery(w) \/ PanicInSend(w)
  \/ \E c \in Callers : Call(c)
  \/ Tick

Spec == Init /\ [][Next]_vars

\* The host keeps calling dispatch_round on every worker, provider calls
\* return unless they panic, and time passes.  Nobody must enqueue or resolve.
Fairness ==
  /\ \A w \in Workers : WF_vars(Round(w))
  /\ WF_vars(Tick)

FairSpec == Spec /\ Fairness

-----------------------------------------------------------------------------
TypeOK ==
  /\ status \in [Ids -> Status \cup {"Absent"}]
  /\ leaseUntil \in [Ids -> Nat]
  /\ holder \in [Ids -> Workers \cup {NoWorker}]
  /\ count \in [Ids -> Nat]
  /\ nextAt \in [Ids -> Nat]
  /\ attempts \in [Ids -> Nat]
  /\ sentKeys \subseteq Keys
  /\ pc \in [Workers -> {"idle", "scan", "query", "resolve", "reread", "lease",
                         "begin", "record", "send", "settle", "setRetry",
                         "mark", "compensate", "dead"}]
  /\ now \in [Workers -> Nat]
  /\ todo \in [Workers -> SUBSET Ids]
  /\ unknown \in [Workers -> SUBSET Ids]
  /\ seen \in [Workers -> [Ids -> Nat]]
  /\ cur \in [Workers -> Ids \cup {NoItem}]
  /\ answer \in [Workers -> {"none", "Sent", "NotFound", "Failed", "Ok", "Err"}]
  /\ callerPc \in [Callers -> {"idle", "insert", "mark"}]
  /\ callerItem \in [Callers -> Ids \cup {NoItem}]
  /\ clock \in Nat
  /\ delivered \subseteq Keys
  /\ acks \in [Ids -> Nat]
\* The worker that moved item i to Sending and has not settled it: it is about
\* to send, in the provider's send, at its answer, or dead.
SendingBy(w, i) == cur[w] = i /\ pc[w] \in {"record", "send", "settle", "dead"}

\* Mutual exclusion of provider sends: an item is Sending exactly while one
\* worker is responsible for it.  Leases do not give this (a worker may act
\* under a lease that was taken over); the compare-and-set of
\* Outbox::transition from Leased to Sending does.
OneSender ==
  /\ \A i \in Ids : status[i] = "Sending" <=> \E w \in Workers : SendingBy(w, i)
  /\ \A i \in Ids : \A v, w \in Workers :
       SendingBy(v, i) /\ SendingBy(w, i) => v = w

\* Somebody has made item i Sent and has yet to record its key.
MarkPending(i) ==
  \/ \E w \in Workers : pc[w] = "mark" /\ cur[w] = i
  \/ \E c \in Callers : callerPc[c] = "mark" /\ callerItem[c] = i

\* The two maps of the Outbox agree, although no lock covers both: a recorded
\* key belongs to a Sent item, and a Sent item's key is recorded or is about
\* to be by the thread that made it Sent.
SentKeysAgree ==
  /\ \A k \in sentKeys : \E i \in Ids : KeyOf[i] = k /\ status[i] = "Sent"
  /\ \A i \in Ids : status[i] = "Sent" => KeyOf[i] \in sentKeys \/ MarkPending(i)

\* No item is reported Sent whose message the provider never delivered, on
\* any path: a confirmed send, a query by a worker or by resolve_unknown.
SentIsDelivered ==
  \A i \in Ids : status[i] = "Sent" => KeyOf[i] \in delivered

\* Delivery's state as the outbox represents it.
Phase(s) ==
  CASE s = "Absent"      -> "absent"
    [] s = "Sending"     -> "sending"
    [] s = "Sent"        -> "sent"
    [] s = "Failed"      -> "failed"
    [] s = "Compensated" -> "compensated"
    [] OTHER             -> "queued"

Abstract == INSTANCE Delivery WITH
  phase     <- [i \in Ids |-> Phase(status[i])],
  confirmed <- acks

\* The outbox implements the delivery promise: whatever the interleaving of
\* workers, an item is confirmed at most once and a settled one stays settled.
ImplementsDelivery == Abstract!Spec

\* An item that entered the outbox is settled in the end, unless what it waits
\* for lies beyond the bounded clock (calls return: no worker panics).
Settled(i) == status[i] \in {"Sent", "Failed", "Compensated"}
BeyondClock(i) == clock = MaxTime /\ (nextAt[i] > MaxTime \/ leaseUntil[i] > MaxTime)
Progress ==
  \A i \in Ids : (status[i] # "Absent") ~> (Settled(i) \/ BeyondClock(i))

-----------------------------------------------------------------------------
(* What a lease is for.  It holds only while no round outlasts a lease.    *)

\* A worker between lease() and the end of its work on an item.
ActsOn(w, i) == cur[w] = i /\ pc[w] \in {"begin", "record", "send", "settle", "setRetry"}

\* Only the current lease holder acts on an item, up to its last write: the
\* retry fields are never written under somebody else's lease.
HolderActs ==
  \A w \in Workers, i \in Ids : ActsOn(w, i) => holder[i] = w

\* max_retries bounds the sends of an item: no attempt is lost from its count.
RetryBudget == \A i \in Ids : attempts[i] <= MaxRetries + 1

\* An item is never handed to the provider before its backoff has elapsed.
BackoffRespected ==
  \A w \in Workers : pc[w] = "send" => clock >= nextAt[cur[w]]

\* The retry fields bound the sends of an item in number and in time, although they
\* are computed before a send and written after it.
RetriesBounded == RetryBudget /\ BackoffRespected

-----------------------------------------------------------------------------
(* What the documents ask of the outbox and the code does not do.          *)

\* "If a provider send times out, query before retrying, never blindly send a
\* second message" (docs/architecture/scenario-validation.md:36): the provider
\* is not given an item whose message it has already delivered.
NoBlindResend ==
  [][\A w \in Workers :
       pc[w] = "send" /\ pc'[w] = "settle" => KeyOf[cur[w]] \notin delivered]_vars

\* "One idempotency key must not be sent twice" (docs/plans/m1-task-plan.md:103).
KeySentOnce ==
  \A i, j \in Ids :
    status[i] = "Sent" /\ status[j] = "Sent" /\ KeyOf[i] = KeyOf[j] => i = j
=============================================================================
