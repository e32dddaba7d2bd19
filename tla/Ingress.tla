------------------------------- MODULE Ingress -------------------------------
(***************************************************************************)
(* Inbound events of a channel (crates/seaki-channel/src/webhook.rs,       *)
(* feishu.rs, ingress.rs).  Each delivery is handled by a thread of its    *)
(* own, which runs IngressNormalizer::normalize: verify the webhook, drop  *)
(* replays, resolve the sender, record the outcome.  The threads share the *)
(* table of event ids seen, the identity bindings and the audit log, each  *)
(* behind a mutex of its own; a critical section is one step, and a clock  *)
(* reading taken before the lock is a step before it.                      *)
(***************************************************************************)
EXTENDS Integers, Sequences, FiniteSets

CONSTANTS
  Deliveries,     \* the deliveries the provider makes, one handler thread each
  Events,         \* event ids
  EventOf,        \* the event a delivery carries: redeliveries share it
  StampOf,        \* the timestamp that comes with a delivery
  Forgeries,      \* sets of deliveries whose signature or token may be wrong
  Users,          \* provider identities
  UserOf,         \* the sender of an event
  Actors,         \* actors the binding table maps to
  Guest,          \* stands for the actor "guest:<provider_user_id>"
  None,
  Verifiers,      \* of "fake", "token", "encrypted": the verifiers a channel may install
  Policies,       \* of "Reject" and "Guest": the values of UnmappedUserPolicy
  TTL,
  MaxSeen,        \* MAX_SEEN_EVENT_IDS
  MaxAudit,       \* MAX_AUDIT_LOG_SIZE
  Threads,        \* how many handlers run at once
  MaxTime         \* bound on the clock

Result == {"Accepted", "RejectedSignature", "RejectedExpired",
           "RejectedReplay", "RejectedUnmapped"}

ASSUME IngressAssumption ==
  /\ IsFiniteSet(Deliveries)
  /\ EventOf \in [Deliveries -> Events]
  /\ StampOf \in [Deliveries -> Int]
  /\ UserOf \in [Events -> Users]
  /\ Forgeries \subseteq SUBSET Deliveries
  /\ None \notin Result /\ None \notin Actors /\ Guest \notin Actors /\ Guest # None
  /\ Verifiers \subseteq {"fake", "token", "encrypted"} /\ Policies \subseteq {"Reject", "Guest"}
  /\ TTL \in Nat /\ MaxSeen \in Nat \ {0} /\ MaxAudit \in Nat \ {0}
  /\ Threads \in Nat \ {0} /\ MaxTime \in Nat

VARIABLES
  verifier,   \* the installed verifier, fixed for the life of the normalizer
  policy,     \* its policy for unmapped users, fixed as well
  forged,     \* the deliveries that carry a wrong signature, fixed as well
  clock,
  seen,       \* seen_event_ids: event id -> the clock reading it was stored with
  bindings,   \* the binding table: user -> actor, or None
  audit,      \* the ingress audit log
  at,         \* where each handler is
  now,        \* the handler's last clock reading
  result,     \* its IngressResult once known
  actor,      \* the actor it resolved
  displaced,  \* history: admitted deliveries whose entry a full table pushed out
  outrun      \* history: those whose entry was ahead of the reading that evicted it

config == <<verifier, policy, forged>>
vars == <<config, clock, seen, bindings, audit, at, now, result, actor, displaced, outrun>>

Places == {"idle", "evict", "gate", "stamp", "admit", "resolve", "record", "done"}

AuditRecord ==
  [event : Events, actor : Actors \cup {Guest, None}, result : Result]

Init ==
  /\ verifier \in Verifiers /\ policy \in Policies /\ forged \in Forgeries
  /\ clock = 0
  /\ seen = [e \in {} |-> 0]
  /\ bindings = [u \in Users |-> None]
  /\ audit = <<>>
  /\ at = [d \in Deliveries |-> "idle"]
  /\ now = [d \in Deliveries |-> 0]
  /\ result = [d \in Deliveries |-> None]
  /\ actor = [d \in Deliveries |-> None]
  /\ displaced = {} /\ outrun = {}

------------------------------------------------------------------------------
(* Helpers *)

Goto(d, place) == at' = [at EXCEPT ![d] = place]

\* duration_since fails for a reading in the future, and both uses of it then
\* take Duration::MAX: such an age is beyond every TTL.
WithinTTL(later, earlier) == earlier <= later /\ later - earlier <= TTL

\* Mutant: an entry as old as the TTL is dropped.
FreshStrict(reading) ==
  {e \in DOMAIN seen : seen[e] <= reading /\ reading - seen[e] < TTL}

Fresh(reading) == {e \in DOMAIN seen : WithinTTL(reading, seen[e])}

Restricted(f, S) == [e \in S |-> f[e]]

\* The outcome is known: it still has to be written to the audit log.
Conclude(d, outcome) ==
  /\ result' = [result EXCEPT ![d] = outcome]
  /\ Goto(d, "record")

------------------------------------------------------------------------------
(* The webhook verifier *)

\* The handlers that are running.
Running == {d \in Deliveries : at[d] \notin {"idle", "done"}}

\* The request comes in and evict_expired reads the clock.
Receive(d) ==
  /\ at[d] = "idle" /\ Cardinality(Running) < Threads
  /\ now' = [now EXCEPT ![d] = clock]
  /\ Goto(d, "evict")
  /\ UNCHANGED <<config, clock, seen, bindings, audit, result, actor, displaced, outrun>>

\* verify has returned Ok for the delivery.
Admitted(d) ==
  at[d] = "resolve" \/ result[d] \in {"Accepted", "RejectedUnmapped"}

\* The deliveries whose admission is the entry of event e.
Holders(e) ==
  {d \in Deliveries : EventOf[d] = e /\ Admitted(d) /\ now[d] = seen[e]}

\* evict_expired has the lock: it keeps what is within the TTL of the reading it
\* took before it asked for the lock.
EvictExpired(d) ==
  /\ at[d] = "evict"
  /\ seen' = Restricted(seen, Fresh(now[d]))
  /\ outrun' = outrun \cup UNION {Holders(e) : e \in {e \in DOMAIN seen : seen[e] > now[d]}}
  /\ Goto(d, IF verifier = "token" THEN "gate" ELSE "stamp")
  /\ UNCHANGED <<config, clock, bindings, audit, now, result, actor, displaced>>

\* The first replay gate of the Feishu token verifier, in a critical section of its own.
FirstGate(d) ==
  /\ at[d] = "gate"
  /\ IF EventOf[d] \in DOMAIN seen
       THEN Conclude(d, "RejectedReplay")
       ELSE Goto(d, "stamp") /\ UNCHANGED result
  /\ UNCHANGED <<config, clock, seen, bindings, audit, now, actor, displaced, outrun>>

\* A second clock reading, against which the delivery's timestamp is judged.
CheckStamp(d) ==
  /\ at[d] = "stamp"
  /\ now' = [now EXCEPT ![d] = clock]
  /\ IF WithinTTL(clock, StampOf[d])
       THEN Goto(d, "admit") /\ UNCHANGED result
       ELSE Conclude(d, "RejectedExpired")
  /\ UNCHANGED <<config, clock, seen, bindings, audit, actor, displaced, outrun>>

\* FakeWebhookVerifier::verify, with the lock: the replay first, the HMAC next.
LockedRefusal(d) ==
  IF EventOf[d] \in DOMAIN seen THEN "RejectedReplay"
  ELSE IF d \in forged THEN "RejectedSignature" ELSE None

\* verify_with_encrypt_key decrypts and verifies at the same place.
EncryptedRefusal(d) == LockedRefusal(d)

\* FeishuWebhookVerifier::verify compares the token before it takes the lock for
\* its second replay gate.
TokenRefusal(d) ==
  IF d \in forged THEN "RejectedSignature"
  ELSE IF EventOf[d] \in DOMAIN seen THEN "RejectedReplay" ELSE None

Refusal(d) == IF verifier = "token" THEN TokenRefusal(d)
              ELSE IF verifier = "encrypted" THEN EncryptedRefusal(d)
              ELSE LockedRefusal(d)

Full == Cardinality(DOMAIN seen) >= MaxSeen

\* Mutant: any entry may go.
AnyEntry == DOMAIN seen

\* The entries that may go when the table is full: min_by_key over a hash map
\* takes any of the oldest.
Oldest == {e \in DOMAIN seen : \A f \in DOMAIN seen : seen[e] <= seen[f]}

\* The id is stored with the reading taken before the lock.
Remember(d, kept) ==
  seen' = [e \in kept \cup {EventOf[d]} |->
             IF e = EventOf[d] THEN now[d] ELSE seen[e]]

Admit(d) ==
  /\ at[d] = "admit" /\ Refusal(d) = None
  /\ IF Full
       THEN \E old \in Oldest :
              /\ Remember(d, DOMAIN seen \ {old})
              /\ displaced' = displaced \cup Holders(old)
       ELSE Remember(d, DOMAIN seen) /\ UNCHANGED displaced
  /\ Goto(d, "resolve")
  /\ UNCHANGED <<config, clock, bindings, audit, now, result, actor, outrun>>

\* Mutant: the id is stored before the signature is checked.
RefuseRemembering(d) ==
  /\ at[d] = "admit" /\ Refusal(d) # None
  /\ Conclude(d, Refusal(d))
  /\ Remember(d, DOMAIN seen)
  /\ UNCHANGED <<config, clock, bindings, audit, now, actor, displaced, outrun>>

Refuse(d) ==
  /\ at[d] = "admit" /\ Refusal(d) # None
  /\ Conclude(d, Refusal(d))
  /\ UNCHANGED <<config, clock, seen, bindings, audit, now, actor, displaced, outrun>>

------------------------------------------------------------------------------
(* Identity and audit *)

\* The sender is looked up only once the event id counts as seen.
Resolve(d) ==
  /\ at[d] = "resolve"
  /\ LET bound == bindings[UserOf[EventOf[d]]]
         who == IF bound = None /\ policy = "Guest" THEN Guest ELSE bound
     IN  /\ actor' = [actor EXCEPT ![d] = who]
         /\ Conclude(d, IF who = None THEN "RejectedUnmapped" ELSE "Accepted")
  /\ UNCHANGED <<config, clock, seen, bindings, audit, now, displaced, outrun>>

Record(d) == [event |-> EventOf[d], actor |-> actor[d], result |-> result[d]]

\* Mutant: the log may grow one past its bound.
AppendedLate(log, rec) ==
  Append(IF Len(log) > MaxAudit THEN Tail(log) ELSE log, rec)

\* record_audit drops the first record of a full log.
Appended(log, rec) ==
  Append(IF Len(log) >= MaxAudit THEN Tail(log) ELSE log, rec)

RecordAudit(d) ==
  /\ at[d] = "record"
  /\ audit' = Appended(audit, Record(d))
  /\ Goto(d, "done")
  /\ UNCHANGED <<config, clock, seen, bindings, now, result, actor, displaced, outrun>>

\* InMemoryIdentityResolver::upsert and ::remove, by whoever manages bindings.
Upsert(u, a) ==
  /\ bindings' = [bindings EXCEPT ![u] = a]
  /\ UNCHANGED <<config, clock, seen, audit, at, now, result, actor, displaced, outrun>>

Remove(u) ==
  /\ bindings[u] # None
  /\ bindings' = [bindings EXCEPT ![u] = None]
  /\ UNCHANGED <<config, clock, seen, audit, at, now, result, actor, displaced, outrun>>

------------------------------------------------------------------------------

\* The clock may move on between any reading and the step that acts on it.
Tick ==
  /\ clock < MaxTime
  /\ clock' = clock + 1
  /\ UNCHANGED <<config, seen, bindings, audit, at, now, result, actor, displaced, outrun>>

Handle(d) ==
  \/ EvictExpired(d)
  \/ FirstGate(d)
  \/ CheckStamp(d)
  \/ Admit(d)
  \/ Refuse(d)
  \/ Resolve(d)
  \/ RecordAudit(d)

Next ==
  \/ \E d \in Deliveries : Receive(d) \/ Handle(d)
  \/ \E u \in Users : Remove(u) \/ \E a \in Actors : Upsert(u, a)
  \/ Tick

\* Nothing is asked of the ingress's progress: a handler takes its locks one at a
\* time and calls nothing that waits.
Spec == Init /\ [][Next]_vars

------------------------------------------------------------------------------
(* What is asked of the ingress *)

TypeOK ==
  /\ verifier \in Verifiers /\ policy \in Policies /\ forged \in Forgeries
  /\ clock \in 0 .. MaxTime
  /\ DOMAIN seen \subseteq Events /\ seen \in [DOMAIN seen -> 0 .. MaxTime]
  /\ Cardinality(DOMAIN seen) <= MaxSeen
  /\ bindings \in [Users -> Actors \cup {None}]
  /\ audit \in Seq(AuditRecord) /\ Len(audit) <= MaxAudit
  /\ at \in [Deliveries -> Places]
  /\ now \in [Deliveries -> 0 .. MaxTime]
  /\ result \in [Deliveries -> Result \cup {None}]
  /\ actor \in [Deliveries -> Actors \cup {Guest, None}]
  /\ displaced \subseteq Deliveries /\ outrun \subseteq Deliveries

\* Two deliveries of one event are never both admitted within the TTL, except
\* that an event id pushed out of a full table may come back
\* ("On success the `event_id` is recorded to prevent replays", webhook.rs:133).
AdmittedOncePerTTL ==
  \A d1, d2 \in Deliveries :
    /\ d1 # d2 /\ EventOf[d1] = EventOf[d2]
    /\ Admitted(d1) /\ Admitted(d2)
    /\ {d1, d2} \cap displaced = {}
    => ~WithinTTL(now[d1], now[d2]) /\ ~WithinTTL(now[d2], now[d1])

\* A second delivery of an event is admitted only when the clock is past the TTL of
\* every earlier admission's reading, unless that admission was pushed out of a full
\* table or its entry was evicted by a handler whose own reading was older (the reading
\* is taken before the lock): stale readings, late insertions and interleaved evictions
\* open no other way back.
AdmitsAgain(d) ==
  \A f \in Deliveries \ {d} :
    EventOf[f] = EventOf[d] /\ Admitted(f) /\ f \notin displaced \cup outrun
      => clock - now[f] > TTL

ReadmittedAfterTTL ==
  [][\A d \in Deliveries : ~Admitted(d) /\ Admitted(d)' => AdmitsAgain(d)]_vars

\* What a full table forgets is what the TTL would have dropped first: when an event id
\* is pushed out, the rest of the table is MaxSeen - 1 ids admitted with readings no
\* older, however late each of them was inserted.
ForgottenRightly(d) ==
  Cardinality({f \in Deliveries \ {d} : Admitted(f) /\ now[f] >= now[d]}) >= MaxSeen - 1

OldestForgottenFirst ==
  [][\A d \in displaced' \ displaced : ForgottenRightly(d)]_vars

\* A delivery is refused as a replay only when a genuine delivery of the event
\* was admitted: a forged one never blocks the real one.
ReplayHasOriginal ==
  \A d \in Deliveries :
    result[d] = "RejectedReplay" =>
      \E f \in Deliveries \ (forged \cup {d}) : EventOf[f] = EventOf[d] /\ Admitted(f)

Answered == {d \in Deliveries : at[d] = "done"}

Occurrences(log, rec) == Cardinality({i \in DOMAIN log : log[i] = rec})

\* The audit log holds one record for every attempt that was answered, with the
\* event, the actor and the outcome of that attempt, and loses records only when
\* it is full.
AuditAgrees ==
  /\ Len(audit) = IF Cardinality(Answered) < MaxAudit
                    THEN Cardinality(Answered) ELSE MaxAudit
  /\ \A rec \in {audit[i] : i \in DOMAIN audit} :
       Occurrences(audit, rec) <= Cardinality({d \in Answered : Record(d) = rec})

\* A table at its bound loses what is oldest, and only when it is full.
TablesLoseTheOldest == OldestForgottenFirst /\ []AuditAgrees

=============================================================================
