---------------------------- MODULE IngressProofs ----------------------------
(***************************************************************************)
(* Proofs about Ingress, with no assumption on the clock, the scheduler or *)
(* how long a handler holds a reading: an event is admitted again only     *)
(* past its TTL, or because a full table or a handler with an older        *)
(* reading dropped its entry; a delivery is refused as a replay only when  *)
(* a genuine one was admitted; a table at its bound loses what is oldest.  *)
(***************************************************************************)
EXTENDS Ingress, FiniteSetTheorems, TLAPS

Shape ==
  /\ clock \in Nat
  /\ seen \in [DOMAIN seen -> Nat]
  /\ at \in [Deliveries -> Places]
  /\ now \in [Deliveries -> Nat]
  /\ result \in [Deliveries -> Result \cup {None}]

\* No handler has an outcome before it concludes.
NotConcluded ==
  \A d \in Deliveries :
    at[d] \in {"idle", "evict", "gate", "stamp", "admit", "resolve"}
      => result[d] = None

\* A reading may be old when it is used, but it is never ahead of the clock.
ReadingsPast == \A d \in Deliveries : now[d] <= clock

\* What was admitted is still remembered with its reading, or its TTL is over, or its
\* entry was pushed out or evicted by an older reading.
Backed ==
  \A d \in Deliveries :
    Admitted(d) /\ d \notin displaced \cup outrun =>
      \/ EventOf[d] \in DOMAIN seen /\ seen[EventOf[d]] = now[d]
      \/ clock - now[d] > TTL

\* Every entry of the table comes from a genuine delivery.
EntriesGenuine ==
  \A e \in DOMAIN seen :
    \E f \in Deliveries \ forged : EventOf[f] = e /\ Admitted(f)

IInv ==
  /\ Shape
  /\ NotConcluded
  /\ ReadingsPast
  /\ Backed
  /\ EntriesGenuine
  /\ ReplayHasOriginal

\* The invariant holds at the start: no handler has started and nothing is seen.
LEMMA InitIInv == Init => IInv
BY IngressAssumption
   DEF Init, IInv, Shape, NotConcluded, ReadingsPast, Backed, EntriesGenuine, ReplayHasOriginal, Admitted, Result, Places

\* A step that admits nobody, forgets nothing and reads no clock keeps the
\* invariant: what it may do is move one handler on to a place and an outcome.
LEMMA QuietStep ==
  ASSUME IInv, UNCHANGED <<config, clock, seen, now, displaced, outrun>>,
         NEW d \in Deliveries, NEW p \in Places, NEW r \in Result \cup {None},
         at' = [at EXCEPT ![d] = p],
         result' = [result EXCEPT ![d] = r],
         Admitted(d)' <=> Admitted(d),
         p \in {"idle", "evict", "gate", "stamp", "admit", "resolve"} => r = None,
         p \notin {"evict", "admit"},
         r = "RejectedReplay" =>
           \/ result[d] = r
           \/ EventOf[d] \in DOMAIN seen /\ ~Admitted(d)
  PROVE  IInv'
<1>1. \A f \in Deliveries : Admitted(f)' <=> Admitted(f)
  <2> SUFFICES ASSUME NEW f \in Deliveries PROVE Admitted(f)' <=> Admitted(f)
    OBVIOUS
  <2>1. CASE f = d
    BY <2>1
  <2>2. CASE f # d
    BY <2>2 DEF Admitted, IInv, Shape
  <2>3. QED
    BY <2>1, <2>2
<1>2. Shape'
  BY DEF IInv, Shape
<1>3. NotConcluded'
  BY DEF IInv, Shape, NotConcluded
<1>4. ReadingsPast'
  BY DEF IInv, Shape, ReadingsPast
<1>5. Backed'
  BY <1>1 DEF IInv, Backed
<1>7. EntriesGenuine'
  BY <1>1 DEF IInv, EntriesGenuine, config
<1>8. ReplayHasOriginal'
  <2> SUFFICES ASSUME NEW g \in Deliveries, result'[g] = "RejectedReplay"
               PROVE  \E f \in Deliveries \ (forged \cup {g}) :
                        EventOf[f] = EventOf[g] /\ Admitted(f)
    BY <1>1 DEF ReplayHasOriginal, config
  <2>1. CASE result[g] = "RejectedReplay"
    BY <2>1 DEF IInv, ReplayHasOriginal
  <2>2. CASE result[g] # "RejectedReplay"
    <3>1. g = d /\ EventOf[d] \in DOMAIN seen /\ ~Admitted(d)
      BY <2>2 DEF IInv, Shape
    <3>2. PICK f \in Deliveries \ forged : EventOf[f] = EventOf[d] /\ Admitted(f)
      BY <3>1 DEF IInv, EntriesGenuine
    <3>3. QED
      BY <3>1, <3>2
  <2>3. QED
    BY <2>1, <2>2
<1>9. QED
  BY <1>2, <1>3, <1>4, <1>5, <1>7, <1>8 DEF IInv

\* A handler that has not been admitted may read the clock at any time.
LEMMA ReadingStep ==
  ASSUME IInv, UNCHANGED <<config, clock, seen, displaced, outrun>>,
         NEW d \in Deliveries, NEW p \in Places \ {"resolve"},
         NEW r \in {None, "RejectedExpired"},
         result[d] = None, at[d] # "resolve",
         at' = [at EXCEPT ![d] = p],
         now' = [now EXCEPT ![d] = clock],
         result' = [result EXCEPT ![d] = r],
         p \in {"idle", "evict", "gate", "stamp", "admit"} => r = None
  PROVE  IInv'
<1>0. None \notin Result
  BY IngressAssumption
<1>1. /\ ~Admitted(d) /\ ~Admitted(d)'
      /\ \A f \in Deliveries \ {d} : (Admitted(f)' <=> Admitted(f)) /\ now'[f] = now[f]
  BY <1>0 DEF IInv, Shape, Admitted, Result
<1>2. Shape'
  BY DEF IInv, Shape, Result
<1>3. NotConcluded'
  BY DEF IInv, Shape, NotConcluded
<1>4. ReadingsPast'
  BY DEF IInv, Shape, ReadingsPast
<1>5. Backed'
  BY <1>1 DEF IInv, Backed
<1>7. EntriesGenuine'
  BY <1>1 DEF IInv, EntriesGenuine, config
<1>8. ReplayHasOriginal'
  BY <1>0, <1>1 DEF IInv, Shape, ReplayHasOriginal, config, Result
<1>9. QED
  BY <1>2, <1>3, <1>4, <1>5, <1>7, <1>8 DEF IInv

\* Eviction drops an entry whose TTL is over by a reading that is not ahead of the
\* clock, or one that is ahead of the reading: then its holders are outrun.
LEMMA EvictionStep ==
  ASSUME IInv, NEW d \in Deliveries, EvictExpired(d)
  PROVE  IInv'
<1>0. None \notin Result /\ TTL \in Nat
  BY IngressAssumption
<1> DEFINE p == IF verifier = "token" THEN "gate" ELSE "stamp"
<1>1. /\ at[d] = "evict" /\ at' = [at EXCEPT ![d] = p] /\ p \in {"gate", "stamp"}
      /\ seen' = [e \in Fresh(now[d]) |-> seen[e]] /\ Fresh(now[d]) \subseteq DOMAIN seen
      /\ UNCHANGED <<config, clock, now, result, displaced>> /\ outrun \subseteq outrun'
      /\ \A e \in DOMAIN seen : seen[e] > now[d] => Holders(e) \subseteq outrun'
  BY DEF EvictExpired, Goto, Restricted, Fresh
<1> HIDE DEF p
<1>2. \A f \in Deliveries : Admitted(f)' <=> Admitted(f)
  BY <1>1 DEF IInv, Shape, Admitted
<1>3. now[d] \in Nat /\ clock \in Nat /\ now[d] <= clock
  BY DEF IInv, ReadingsPast, Shape
<1>4. Shape'
  BY <1>1 DEF IInv, Shape, Places
<1>5. NotConcluded'
  BY <1>1 DEF IInv, Shape, NotConcluded
<1>6. ReadingsPast'
  BY <1>1 DEF IInv, Shape, ReadingsPast
<1>7. Backed'
  <2> SUFFICES ASSUME NEW f \in Deliveries, Admitted(f), f \notin displaced \cup outrun'
               PROVE  \/ EventOf[f] \in DOMAIN seen' /\ seen'[EventOf[f]] = now[f]
                      \/ clock - now[f] > TTL
    BY <1>1, <1>2 DEF Backed
  <2>0. now[f] \in Nat
    BY DEF IInv, Shape
  <2>1. CASE clock - now[f] > TTL
    BY <2>1
  <2>2. CASE EventOf[f] \in DOMAIN seen /\ seen[EventOf[f]] = now[f]
    <3>1. f \in Holders(EventOf[f])
      BY <2>2 DEF Holders
    <3>2. now[f] <= now[d]
      BY <1>1, <1>3, <2>0, <2>2, <3>1
    <3>3. CASE WithinTTL(now[d], seen[EventOf[f]])
      <4>1. EventOf[f] \in Fresh(now[d])
        BY <2>2, <3>3 DEF Fresh
      <4>2. QED
        BY <1>1, <2>2, <4>1
    <3>4. CASE ~WithinTTL(now[d], seen[EventOf[f]])
      <4>1. now[d] - now[f] > TTL
        BY <1>0, <1>3, <2>0, <2>2, <3>2, <3>4 DEF WithinTTL
      <4>2. QED
        BY ONLY <1>0, <1>3, <2>0, <4>1
    <3>5. QED
      BY <3>3, <3>4
  <2>3. QED
    BY <1>1, <2>1, <2>2 DEF IInv, Backed
<1>9. EntriesGenuine'
  BY <1>1, <1>2 DEF IInv, EntriesGenuine, config
<1>10. ReplayHasOriginal'
  BY <1>1, <1>2 DEF IInv, ReplayHasOriginal, config
<1>11. QED
  BY <1>4, <1>5, <1>6, <1>7, <1>9, <1>10 DEF IInv

\* An admission stores the reading its handler took, however old it is by now, and
\* pushes out at most one entry, whose holders are displaced.
LEMMA AdmissionStep ==
  ASSUME IInv, NEW d \in Deliveries, Admit(d)
  PROVE  IInv'
<1>0. None \notin Result /\ TTL \in Nat /\ EventOf \in [Deliveries -> Events]
  BY IngressAssumption
<1>1. /\ at[d] = "admit" /\ at' = [at EXCEPT ![d] = "resolve"]
      /\ UNCHANGED <<config, clock, now, result, outrun>>
  BY DEF Admit, Goto
<1>2. d \notin forged /\ EventOf[d] \notin DOMAIN seen
  <2>1. Refusal(d) = None
    BY DEF Admit
  <2>2. QED
    BY <2>1, <1>0
       DEF Refusal, LockedRefusal, EncryptedRefusal, TokenRefusal, Result
<1>3. /\ result[d] = None /\ ~Admitted(d) /\ Admitted(d)'
      /\ \A f \in Deliveries \ {d} : Admitted(f)' <=> Admitted(f)
  BY <1>0, <1>1 DEF IInv, Shape, NotConcluded, Admitted, Result
<1>4. PICK kept \in SUBSET DOMAIN seen :
        /\ Remember(d, kept)
        /\ displaced \subseteq displaced'
        /\ \A f \in Deliveries :
             /\ Admitted(f) /\ f \notin displaced'
             /\ EventOf[f] \in DOMAIN seen /\ seen[EventOf[f]] = now[f]
             => EventOf[f] \in kept
  <2>1. CASE Full
    <3>1. PICK old \in Oldest : /\ Remember(d, DOMAIN seen \ {old})
                                /\ displaced' = displaced \cup Holders(old)
      BY <2>1 DEF Admit
    <3>2. QED
      BY <3>1 DEF Holders
  <2>2. CASE ~Full
    BY <2>2 DEF Admit
  <2>3. QED
    BY <2>1, <2>2
<1>5. /\ DOMAIN seen' = kept \cup {EventOf[d]}
      /\ seen'[EventOf[d]] = now[d]
      /\ \A e \in kept : e # EventOf[d] /\ seen'[e] = seen[e]
      /\ seen' \in [DOMAIN seen' -> Nat]
  BY <1>2, <1>4 DEF Remember, IInv, Shape
<1>7. Shape'
  BY <1>1, <1>5 DEF IInv, Shape, Places
<1>8. NotConcluded'
  BY <1>1, <1>3 DEF IInv, Shape, NotConcluded
<1>9. ReadingsPast'
  BY <1>1 DEF IInv, Shape, ReadingsPast
<1>10. Backed'
  <2> SUFFICES ASSUME NEW f \in Deliveries, Admitted(f)', f \notin displaced' \cup outrun
               PROVE  \/ EventOf[f] \in DOMAIN seen' /\ seen'[EventOf[f]] = now[f]
                      \/ clock - now[f] > TTL
    BY <1>1 DEF Backed
  <2>1. CASE f = d
    BY <2>1, <1>5
  <2>2. CASE f # d
    <3>1. Admitted(f) /\ f \notin displaced \cup outrun /\ f \notin displaced'
      BY <2>2, <1>3, <1>4
    <3>2. CASE clock - now[f] > TTL
      BY <3>2
    <3>3. CASE EventOf[f] \in DOMAIN seen /\ seen[EventOf[f]] = now[f]
      BY <3>1, <3>3, <1>4, <1>5
    <3>4. QED
      BY <3>1, <3>2, <3>3 DEF IInv, Backed
  <2>3. QED
    BY <2>1, <2>2
<1>12. EntriesGenuine'
  <2> SUFFICES ASSUME NEW e \in DOMAIN seen'
               PROVE  \E f \in Deliveries \ forged : EventOf[f] = e /\ Admitted(f)'
    BY <1>1 DEF EntriesGenuine, config
  <2>1. CASE e = EventOf[d]
    BY <2>1, <1>2, <1>3
  <2>2. CASE e \in kept
    <3>1. PICK f \in Deliveries \ forged : EventOf[f] = e /\ Admitted(f)
      BY <2>2 DEF IInv, EntriesGenuine
    <3>2. QED
      BY <3>1, <1>3
  <2>3. QED
    BY <2>1, <2>2, <1>5
<1>13. ReplayHasOriginal'
  <2> SUFFICES ASSUME NEW g \in Deliveries, result[g] = "RejectedReplay"
               PROVE  \E f \in Deliveries \ (forged \cup {g}) :
                        EventOf[f] = EventOf[g] /\ Admitted(f)'
    BY <1>1 DEF ReplayHasOriginal, config
  <2>1. PICK f \in Deliveries \ (forged \cup {g}) : EventOf[f] = EventOf[g] /\ Admitted(f)
    BY DEF IInv, ReplayHasOriginal
  <2>2. QED
    BY <2>1, <1>3
<1>14. QED
  BY <1>7, <1>8, <1>9, <1>10, <1>12, <1>13 DEF IInv

------------------------------------------------------------------------------

\* Every step keeps the invariant.
LEMMA NextIInv ==
  ASSUME IInv, [Next]_vars
  PROVE  IInv'
<1>0. None \notin Result /\ TTL \in Nat
  BY IngressAssumption
<1>1. ASSUME NEW d \in Deliveries, Receive(d)
      PROVE  IInv'
  <2>1. /\ at[d] = "idle" /\ result[d] = None
        /\ at' = [at EXCEPT ![d] = "evict"] /\ now' = [now EXCEPT ![d] = clock]
        /\ UNCHANGED <<config, clock, seen, displaced, outrun>>
        /\ result' = [result EXCEPT ![d] = None]
    BY <1>1 DEF Receive, Goto, IInv, Shape, NotConcluded
  <2>2. QED
    BY <2>1, ReadingStep DEF Places
<1>2. ASSUME NEW d \in Deliveries, EvictExpired(d)
      PROVE  IInv'
  BY <1>2, EvictionStep
<1>3. ASSUME NEW d \in Deliveries, FirstGate(d)
      PROVE  IInv'
  <2>1. /\ at[d] = "gate" /\ result[d] = None /\ ~Admitted(d)
        /\ UNCHANGED <<config, clock, seen, now, displaced, outrun>>
    BY <1>3, <1>0 DEF FirstGate, IInv, Shape, NotConcluded, Admitted, Result
  <2>2. CASE EventOf[d] \in DOMAIN seen
    <3>1. /\ at' = [at EXCEPT ![d] = "record"]
          /\ result' = [result EXCEPT ![d] = "RejectedReplay"]
      BY <1>3, <2>2 DEF FirstGate, Conclude, Goto
    <3>2. ~Admitted(d)'
      BY <3>1, <2>1 DEF Admitted, IInv, Shape
    <3>3. QED
      BY <2>1, <2>2, <3>1, <3>2, QuietStep DEF Places, Result
  <2>3. CASE EventOf[d] \notin DOMAIN seen
    <3>1. /\ at' = [at EXCEPT ![d] = "stamp"]
          /\ result' = [result EXCEPT ![d] = None]
      BY <1>3, <2>1, <2>3 DEF FirstGate, Goto, IInv, Shape
    <3>2. ~Admitted(d)'
      BY <3>1, <2>1, <1>0 DEF Admitted, IInv, Shape, Result
    <3>3. QED
      BY <2>1, <3>1, <3>2, <1>0, QuietStep DEF Places, Result
  <2>4. QED
    BY <2>2, <2>3
<1>4. ASSUME NEW d \in Deliveries, CheckStamp(d)
      PROVE  IInv'
  <2>1. /\ at[d] = "stamp" /\ result[d] = None /\ now' = [now EXCEPT ![d] = clock]
        /\ UNCHANGED <<config, clock, seen, displaced, outrun>>
    BY <1>4 DEF CheckStamp, IInv, NotConcluded
  <2>2. CASE WithinTTL(clock, StampOf[d])
    <3>1. /\ at' = [at EXCEPT ![d] = "admit"]
          /\ result' = [result EXCEPT ![d] = None]
      BY <1>4, <2>1, <2>2 DEF CheckStamp, Goto, IInv, Shape
    <3>2. QED
      BY <2>1, <3>1, ReadingStep DEF Places
  <2>3. CASE ~WithinTTL(clock, StampOf[d])
    <3>1. /\ at' = [at EXCEPT ![d] = "record"]
          /\ result' = [result EXCEPT ![d] = "RejectedExpired"]
      BY <1>4, <2>3 DEF CheckStamp, Conclude, Goto
    <3>2. QED
      BY <2>1, <3>1, ReadingStep DEF Places
  <2>4. QED
    BY <2>2, <2>3
<1>5. ASSUME NEW d \in Deliveries, Admit(d)
      PROVE  IInv'
  BY <1>5, AdmissionStep
<1>6. ASSUME NEW d \in Deliveries, Refuse(d)
      PROVE  IInv'
  <2>1. /\ at[d] = "admit" /\ result[d] = None /\ ~Admitted(d)
        /\ UNCHANGED <<config, clock, seen, now, displaced, outrun>>
        /\ at' = [at EXCEPT ![d] = "record"]
        /\ result' = [result EXCEPT ![d] = Refusal(d)]
    BY <1>6, <1>0 DEF Refuse, Conclude, Goto, IInv, Shape, NotConcluded, Admitted, Result
  <2>2. /\ Refusal(d) \in {"RejectedReplay", "RejectedSignature"}
        /\ Refusal(d) = "RejectedReplay" => EventOf[d] \in DOMAIN seen
    BY <1>6, <1>0 DEF Refuse, Refusal, LockedRefusal, EncryptedRefusal, TokenRefusal
  <2>3. ~Admitted(d)'
    BY <2>1, <2>2 DEF Admitted, IInv, Shape
  <2>4. QED
    BY <2>1, <2>2, <2>3, QuietStep DEF Places, Result
<1>7. ASSUME NEW d \in Deliveries, Resolve(d)
      PROVE  IInv'
  <2>1. PICK r \in {"RejectedUnmapped", "Accepted"} :
          /\ at[d] = "resolve" /\ UNCHANGED <<config, clock, seen, now, displaced, outrun>>
          /\ at' = [at EXCEPT ![d] = "record"]
          /\ result' = [result EXCEPT ![d] = r]
    BY <1>7 DEF Resolve, Conclude, Goto
  <2>2. Admitted(d) /\ Admitted(d)'
    BY <2>1 DEF Admitted, IInv, Shape
  <2>3. QED
    BY <2>1, <2>2, QuietStep DEF Places, Result
<1>8. ASSUME NEW d \in Deliveries, RecordAudit(d)
      PROVE  IInv'
  <2>1. /\ at[d] = "record" /\ UNCHANGED <<config, clock, seen, now, displaced, outrun>>
        /\ at' = [at EXCEPT ![d] = "done"]
        /\ result' = [result EXCEPT ![d] = result[d]]
    BY <1>8 DEF RecordAudit, Goto, IInv, Shape
  <2>2. result[d] \in Result \cup {None} /\ (Admitted(d)' <=> Admitted(d))
    BY <2>1 DEF Admitted, IInv, Shape
  <2>3. QED
    BY <2>1, <2>2, QuietStep DEF Places
<1>9. ASSUME UNCHANGED <<config, seen, at, now, result, displaced, outrun>>,
             clock' \in Nat, clock <= clock'
      PROVE  IInv'
  <2>1. \A f \in Deliveries : Admitted(f)' <=> Admitted(f)
    BY <1>9 DEF Admitted
  <2>2. ReadingsPast'
    BY <1>9 DEF IInv, Shape, ReadingsPast
  <2>3. Backed'
    BY <1>0, <1>9, <2>1 DEF IInv, Shape, Backed
  <2>4. Shape' /\ NotConcluded'
    BY <1>9 DEF IInv, Shape, NotConcluded
  <2>5. EntriesGenuine' /\ ReplayHasOriginal'
    BY <1>9, <2>1 DEF IInv, EntriesGenuine, ReplayHasOriginal, config
  <2>6. QED
    BY <2>2, <2>3, <2>4, <2>5 DEF IInv
<1>10. CASE Tick
  <2>1. clock' = clock + 1
    BY <1>10 DEF Tick
  <2>2. UNCHANGED <<config, seen, at, now, result, displaced, outrun>>
    BY <1>10 DEF Tick
  <2>3. QED
    BY <2>1, <2>2, <1>9 DEF IInv, Shape
<1>11. CASE \E u \in Users : Remove(u) \/ \E a \in Actors : Upsert(u, a)
  <2>1. UNCHANGED <<config, clock, seen, at, now, result, displaced, outrun>>
    BY <1>11 DEF Remove, Upsert
  <2>2. QED
    BY <2>1, <1>9 DEF IInv, Shape
<1>12. CASE UNCHANGED vars
  <2>1. UNCHANGED <<config, clock, seen, at, now, result, displaced, outrun>>
    BY <1>12 DEF vars
  <2>2. QED
    BY <2>1, <1>9 DEF IInv, Shape
<1>13. QED
  BY <1>1, <1>2, <1>3, <1>4, <1>5, <1>6, <1>7, <1>8, <1>10, <1>11, <1>12
     DEF Next, Handle

\* Before an event is admitted again, the clock has passed the TTL of every earlier
\* admission whose entry was neither pushed out nor outrun.
LEMMA AdmissionIsLate ==
  ASSUME IInv, NEW d \in Deliveries, Admit(d)
  PROVE  AdmitsAgain(d)
<1>1. EventOf[d] \notin DOMAIN seen
  <2>1. Refusal(d) = None /\ None \notin Result
    BY IngressAssumption DEF Admit
  <2>2. QED
    BY <2>1 DEF Refusal, LockedRefusal, EncryptedRefusal, TokenRefusal, Result
<1>2. QED
  BY <1>1 DEF IInv, Backed, AdmitsAgain

\* Only the step that admits a delivery makes it admitted.
LEMMA OnlyAdmitAdmits ==
  ASSUME IInv, [Next]_vars, NEW d \in Deliveries, ~Admitted(d), Admitted(d)'
  PROVE  Admit(d)
<1> USE DEF IInv, Shape, NotConcluded, Admitted, Places, Goto
<1>0. None \notin Result /\ "Accepted" \in Result /\ "RejectedUnmapped" \in Result
  BY IngressAssumption DEF Result
<1>1. ASSUME NEW f \in Deliveries, Receive(f) PROVE FALSE
  BY <1>0, <1>1 DEF Receive
<1>2. ASSUME NEW f \in Deliveries, EvictExpired(f) PROVE FALSE
  BY <1>0, <1>2 DEF EvictExpired
<1>3. ASSUME NEW f \in Deliveries, FirstGate(f) PROVE FALSE
  BY <1>0, <1>3 DEF FirstGate, Conclude
<1>4. ASSUME NEW f \in Deliveries, CheckStamp(f) PROVE FALSE
  BY <1>0, <1>4 DEF CheckStamp, Conclude
<1>5. ASSUME NEW f \in Deliveries, Admit(f), f # d PROVE FALSE
  BY <1>0, <1>5 DEF Admit
<1>6. ASSUME NEW f \in Deliveries, Refuse(f) PROVE FALSE
  <2>1. /\ at' = [at EXCEPT ![f] = "record"] /\ result' = [result EXCEPT ![f] = Refusal(f)]
        /\ Refusal(f) \in {"RejectedReplay", "RejectedSignature", None}
    BY <1>6 DEF Refuse, Conclude, Refusal, LockedRefusal, EncryptedRefusal, TokenRefusal
  <2>2. QED
    BY <1>0, <2>1
<1>7. ASSUME NEW f \in Deliveries, Resolve(f) PROVE FALSE
  BY <1>0, <1>7 DEF Resolve, Conclude
<1>8. ASSUME NEW f \in Deliveries, RecordAudit(f) PROVE FALSE
  BY <1>0, <1>8 DEF RecordAudit
<1>9. ASSUME NEW u \in Users, Remove(u) \/ \E a \in Actors : Upsert(u, a) PROVE FALSE
  BY <1>9 DEF Remove, Upsert
<1>10. CASE Tick
  BY <1>10 DEF Tick
<1>11. CASE UNCHANGED vars
  BY <1>11 DEF vars
<1>12. QED
  BY <1>1, <1>2, <1>3, <1>4, <1>5, <1>6, <1>7, <1>8, <1>9, <1>10, <1>11 DEF Next, Handle

\* An event comes back only past the TTL of its earlier admissions, after a full table
\* pushed them out, or after a handler with an older reading evicted them: for any number
\* of handlers, events and redeliveries, any bounds, and readings of any age.
THEOREM AdmittedAgainLate == Spec => ReadmittedAfterTTL
<1>1. IInv /\ [Next]_vars =>
        [\A d \in Deliveries : ~Admitted(d) /\ Admitted(d)' => AdmitsAgain(d)]_vars
  BY OnlyAdmitAdmits, AdmissionIsLate
<1>2. IInv /\ [Next]_vars => IInv'
  BY NextIInv
<1>3. QED
  BY <1>1, <1>2, InitIInv, PTL DEF Spec, ReadmittedAfterTTL

\* No delivery is refused as a replay of something that was never genuinely admitted,
\* whatever the age of the readings the handlers act on.
THEOREM NoFalseReplay == Spec => []ReplayHasOriginal
<1>1. IInv => ReplayHasOriginal
  BY DEF IInv
<1>2. IInv /\ [Next]_vars => IInv'
  BY NextIInv
<1>3. QED
  BY <1>1, <1>2, InitIInv, PTL DEF Spec

------------------------------------------------------------------------------
(* Tables at their bounds. *)

\* Every entry of the table comes from an admission with the entry's reading.
EntriesHeld ==
  /\ IsFiniteSet(DOMAIN seen)
  /\ \A e \in DOMAIN seen : Holders(e) # {}

\* The deliveries admitted with a reading no older than d's, d left out.
NoEarlier(d) == {f \in Deliveries \ {d} : Admitted(f) /\ now[f] >= now[d]}

\* Each record of the audit log was written by an answered handler of its own.
Tells(h) ==
  /\ h \in [DOMAIN audit -> Answered]
  /\ \A i, j \in DOMAIN audit : h[i] = h[j] => i = j
  /\ \A i \in DOMAIN audit : audit[i] = Record(h[i])

LogRecord == [event : Events, actor : Actors \cup {Guest, None}, result : Result \cup {None}]

AuditTold ==
  /\ bindings \in [Users -> Actors \cup {None}]
  /\ actor \in [Deliveries -> Actors \cup {Guest, None}]
  /\ audit \in Seq(LogRecord)
  /\ Len(audit) = IF Cardinality(Answered) < MaxAudit
                    THEN Cardinality(Answered) ELSE MaxAudit
  /\ \E h \in [DOMAIN audit -> Answered] : Tells(h)

\* The records of the log are no more than the answered handlers that wrote them.
LEMMA AuditCounts ==
  ASSUME AuditTold
  PROVE  AuditAgrees
<1>1. PICK h \in [DOMAIN audit -> Answered] : Tells(h)
  BY DEF AuditTold
<1>2. ASSUME NEW rec PROVE Occurrences(audit, rec) <= Cardinality({d \in Answered : Record(d) = rec})
  <2> DEFINE S == {i \in DOMAIN audit : audit[i] = rec}
             T == {d \in Answered : Record(d) = rec}
             g == [i \in S |-> h[i]]
  <2>1. g \in Injection(S, T)
    <3>1. \A i \in S : h[i] \in T
      BY <1>1 DEF Tells
    <3>2. \A i, j \in S : h[i] = h[j] => i = j
      BY <1>1 DEF Tells
    <3>3. QED
      BY <3>1, <3>2 DEF Injection, IsInjective
  <2>2. IsFiniteSet(T)
    BY FS_Subset, IngressAssumption DEF Answered
  <2> HIDE DEF g
  <2>3. Cardinality(S) <= Cardinality(T)
    BY <2>1, <2>2, FS_Injection
  <2>4. QED
    BY <2>3 DEF Occurrences
<1>3. QED
  BY <1>2 DEF AuditTold, AuditAgrees

\* A step that answers nobody leaves the log and the handlers that wrote it alone.
LEMMA AuditQuietStep ==
  ASSUME AuditTold, UNCHANGED audit,
         bindings' \in [Users -> Actors \cup {None}],
         actor' \in [Deliveries -> Actors \cup {Guest, None}],
         \A d \in Deliveries : at'[d] = "done" <=> at[d] = "done",
         \A d \in Answered : actor'[d] = actor[d] /\ result'[d] = result[d]
  PROVE  AuditTold'
<1>1. Answered' = Answered
  BY DEF Answered
<1>2. PICK h \in [DOMAIN audit -> Answered] : Tells(h)
  BY DEF AuditTold
<1>3. \A d \in Answered : Record(d)' = Record(d)
  BY DEF Record
<1>4. Tells(h)'
  BY <1>1, <1>2, <1>3 DEF Tells
<1>5. QED
  BY <1>1, <1>4 DEF AuditTold

\* The handler that is answered writes its record, and a full log loses its first one.
LEMMA AuditRecordStep ==
  ASSUME Shape, AuditTold, NEW d \in Deliveries, RecordAudit(d)
  PROVE  AuditTold'
<1>n. PICK n : n = Len(audit)
  OBVIOUS
<1>k. PICK k : k = IF n >= MaxAudit THEN 1 ELSE 0
  OBVIOUS
<1>0. IsFiniteSet(Deliveries) /\ MaxAudit \in Nat \ {0} /\ EventOf \in [Deliveries -> Events]
  BY IngressAssumption
<1>1. /\ at[d] = "record" /\ at' = [at EXCEPT ![d] = "done"]
      /\ UNCHANGED <<bindings, result, actor>> /\ audit' = Appended(audit, Record(d))
  BY DEF RecordAudit, Goto
<1>2. d \notin Answered /\ Answered' = Answered \cup {d}
  BY <1>1 DEF Answered, Shape
<1>3. IsFiniteSet(Answered) /\ Cardinality(Answered) \in Nat
      /\ Cardinality(Answered') = Cardinality(Answered) + 1
  BY <1>0, <1>2, FS_Subset, FS_AddElement, FS_CardinalityType DEF Answered
<1>4. /\ n \in Nat /\ DOMAIN audit = 1..n /\ audit \in Seq(LogRecord)
      /\ n = IF Cardinality(Answered) < MaxAudit THEN Cardinality(Answered) ELSE MaxAudit
  BY <1>n DEF AuditTold
<1>5. Record(d) \in LogRecord
  BY <1>0 DEF Record, LogRecord, Shape, AuditTold
<1>6. /\ audit' \in Seq(LogRecord) /\ Len(audit') = n + 1 - k
      /\ \A i \in 1..(n - k) : audit'[i] = audit[i + k]
      /\ audit'[n + 1 - k] = Record(d)
  <2>1. CASE n >= MaxAudit
    BY <1>0, <1>1, <1>4, <1>5, <1>n, <1>k, <2>1 DEF Appended
  <2>2. CASE ~(n >= MaxAudit)
    BY <1>0, <1>1, <1>4, <1>5, <1>n, <1>k, <2>2 DEF Appended
  <2>3. QED
    BY <2>1, <2>2
<1>7. k \in {0, 1} /\ n - k \in Nat /\ DOMAIN audit' = 1..(n + 1 - k)
  BY <1>0, <1>4, <1>6, <1>k
<1>8. Len(audit') = IF Cardinality(Answered') < MaxAudit THEN Cardinality(Answered') ELSE MaxAudit
  BY <1>0, <1>3, <1>4, <1>6, <1>k
<1>9. PICK h \in [DOMAIN audit -> Answered] : Tells(h)
  BY DEF AuditTold
<1> DEFINE g == [i \in 1..(n + 1 - k) |-> IF i = n + 1 - k THEN d ELSE h[i + k]]
<1>10. \A i \in 1..(n + 1 - k) : i # n + 1 - k => i \in 1..(n - k) /\ i + k \in DOMAIN audit
  BY <1>4, <1>7
<1>11. g \in [DOMAIN audit' -> Answered']
  BY <1>2, <1>7, <1>9, <1>10
<1>12. ASSUME NEW i \in 1..(n + 1 - k), NEW j \in 1..(n + 1 - k), g[i] = g[j] PROVE i = j
  <2>1. CASE i # n + 1 - k /\ j # n + 1 - k
    <3>1. h[i + k] = h[j + k] /\ i + k \in DOMAIN audit /\ j + k \in DOMAIN audit
      BY <2>1, <1>10, <1>12
    <3>2. i + k = j + k
      BY <3>1, <1>9 DEF Tells
    <3>3. QED
      BY <3>2, <1>4, <1>7
  <2>2. CASE i = n + 1 - k /\ j # n + 1 - k
    BY <2>2, <1>2, <1>9, <1>10, <1>12
  <2>3. CASE i # n + 1 - k /\ j = n + 1 - k
    BY <2>3, <1>2, <1>9, <1>10, <1>12
  <2>4. QED
    BY <2>1, <2>2, <2>3
<1>13. \A f \in Deliveries : Record(f)' = Record(f)
  BY <1>1 DEF Record
<1>14. ASSUME NEW i \in 1..(n + 1 - k) PROVE audit'[i] = Record(g[i])
  <2>1. CASE i = n + 1 - k
    BY <2>1, <1>6
  <2>2. CASE i # n + 1 - k
    BY <2>2, <1>6, <1>9, <1>10 DEF Tells
  <2>3. QED
    BY <2>1, <2>2
<1> HIDE DEF g
<1>15. Tells(g)'
  <2>1. \A i \in 1..(n + 1 - k) : g[i] \in Deliveries
    BY <1>7, <1>11 DEF Answered
  <2>2. QED
    BY <1>7, <1>11, <1>12, <1>13, <1>14, <2>1 DEF Tells
<1>16. QED
  BY <1>1, <1>6, <1>8, <1>11, <1>15 DEF AuditTold

\* No step keeps the audit log from agreeing with the answers.
LEMMA AuditStep ==
  ASSUME Shape, NotConcluded, AuditTold, [Next]_vars
  PROVE  AuditTold'
<1> USE DEF Shape, AuditTold, Places
<1>0. UserOf \in [Events -> Users] /\ EventOf \in [Deliveries -> Events]
  BY IngressAssumption
<1>1. ASSUME NEW d \in Deliveries, Receive(d) PROVE AuditTold'
  BY <1>1, AuditQuietStep DEF Receive, Goto, Answered
<1>2. ASSUME NEW d \in Deliveries, EvictExpired(d) PROVE AuditTold'
  BY <1>2, AuditQuietStep DEF EvictExpired, Goto, Answered
<1>3. ASSUME NEW d \in Deliveries, FirstGate(d) PROVE AuditTold'
  BY <1>3, AuditQuietStep DEF FirstGate, Conclude, Goto, Answered
<1>4. ASSUME NEW d \in Deliveries, CheckStamp(d) PROVE AuditTold'
  BY <1>4, AuditQuietStep DEF CheckStamp, Conclude, Goto, Answered
<1>5. ASSUME NEW d \in Deliveries, Admit(d) PROVE AuditTold'
  BY <1>5, AuditQuietStep DEF Admit, Goto, Answered
<1>6. ASSUME NEW d \in Deliveries, Refuse(d) PROVE AuditTold'
  BY <1>6, AuditQuietStep DEF Refuse, Conclude, Goto, Answered
<1>7. ASSUME NEW d \in Deliveries, Resolve(d) PROVE AuditTold'
  <2>1. bindings[UserOf[EventOf[d]]] \in Actors \cup {None}
    BY <1>0
  <2>2. PICK who \in Actors \cup {Guest, None} : actor' = [actor EXCEPT ![d] = who]
    BY <1>7, <2>1 DEF Resolve
  <2>3. PICK r \in {"RejectedUnmapped", "Accepted"} :
          /\ at[d] = "resolve" /\ at' = [at EXCEPT ![d] = "record"]
          /\ result' = [result EXCEPT ![d] = r] /\ UNCHANGED <<audit, bindings>>
    BY <1>7 DEF Resolve, Conclude, Goto
  <2>4. QED
    BY <2>2, <2>3, AuditQuietStep DEF Answered
<1>8. ASSUME NEW d \in Deliveries, RecordAudit(d) PROVE AuditTold'
  BY <1>8, AuditRecordStep
<1>9. ASSUME NEW u \in Users, Remove(u) \/ \E a \in Actors : Upsert(u, a) PROVE AuditTold'
  BY <1>9, AuditQuietStep DEF Remove, Upsert, Answered
<1>10. CASE Tick
  BY <1>10, AuditQuietStep DEF Tick, Answered
<1>11. CASE UNCHANGED vars
  BY <1>11, AuditQuietStep DEF vars, Answered
<1>12. QED
  BY <1>1, <1>2, <1>3, <1>4, <1>5, <1>6, <1>7, <1>8, <1>9, <1>10, <1>11 DEF Next, Handle

\* An admission stays an admission, and keeps the reading it was made with.
AdmissionsStay == \A f \in Deliveries : Admitted(f) => Admitted(f)' /\ now'[f] = now[f]

\* Every step leaves admissions alone.
LEMMA AdmissionsStayStep ==
  ASSUME IInv, [Next]_vars
  PROVE  AdmissionsStay
<1> USE DEF IInv, Shape, NotConcluded, Admitted, AdmissionsStay, Places, Goto
<1>0. None \notin Result /\ "Accepted" \in Result /\ "RejectedUnmapped" \in Result
  BY IngressAssumption DEF Result
<1>1. ASSUME NEW d \in Deliveries, Receive(d) PROVE AdmissionsStay
  BY <1>0, <1>1 DEF Receive
<1>2. ASSUME NEW d \in Deliveries, EvictExpired(d) PROVE AdmissionsStay
  BY <1>0, <1>2 DEF EvictExpired
<1>3. ASSUME NEW d \in Deliveries, FirstGate(d) PROVE AdmissionsStay
  BY <1>0, <1>3 DEF FirstGate, Conclude
<1>4. ASSUME NEW d \in Deliveries, CheckStamp(d) PROVE AdmissionsStay
  BY <1>0, <1>4 DEF CheckStamp, Conclude
<1>5. ASSUME NEW d \in Deliveries, Admit(d) PROVE AdmissionsStay
  BY <1>0, <1>5 DEF Admit
<1>6. ASSUME NEW d \in Deliveries, Refuse(d) PROVE AdmissionsStay
  BY <1>0, <1>6 DEF Refuse, Conclude
<1>7. ASSUME NEW d \in Deliveries, Resolve(d) PROVE AdmissionsStay
  BY <1>0, <1>7 DEF Resolve, Conclude
<1>8. ASSUME NEW d \in Deliveries, RecordAudit(d) PROVE AdmissionsStay
  BY <1>0, <1>8 DEF RecordAudit
<1>9. ASSUME NEW u \in Users, Remove(u) \/ \E a \in Actors : Upsert(u, a) PROVE AdmissionsStay
  BY <1>9 DEF Remove, Upsert
<1>10. CASE Tick
  BY <1>10 DEF Tick
<1>11. CASE UNCHANGED vars
  BY <1>11 DEF vars
<1>12. QED
  BY <1>1, <1>2, <1>3, <1>4, <1>5, <1>6, <1>7, <1>8, <1>9, <1>10, <1>11 DEF Next, Handle

\* A step that adds no entry keeps every entry held.
LEMMA HeldQuietStep ==
  ASSUME EntriesHeld, AdmissionsStay,
         DOMAIN seen' \subseteq DOMAIN seen,
         \A e \in DOMAIN seen' : seen'[e] = seen[e]
  PROVE  EntriesHeld'
<1>1. IsFiniteSet(DOMAIN seen')
  BY FS_Subset DEF EntriesHeld
<1>2. ASSUME NEW e \in DOMAIN seen' PROVE Holders(e)' # {}
  <2>1. PICK f \in Deliveries : EventOf[f] = e /\ Admitted(f) /\ now[f] = seen[e]
    BY <1>2 DEF EntriesHeld, Holders
  <2>2. Admitted(f)' /\ now'[f] = seen'[e]
    BY <1>2, <2>1 DEF AdmissionsStay
  <2>3. QED
    BY <2>1, <2>2 DEF Holders
<1>3. QED
  BY <1>1, <1>2 DEF EntriesHeld

\* The rest of a full table was admitted with readings no older than the oldest entry's.
LEMMA PushedOutRightly ==
  ASSUME Shape, EntriesHeld, Full, NEW old \in Oldest, NEW h \in Holders(old)
  PROVE  ForgottenRightly(h)
<1>1. h \in Deliveries /\ EventOf[h] = old /\ now[h] = seen[old]
  BY DEF Holders
<1>2. old \in DOMAIN seen /\ \A e \in DOMAIN seen : seen[old] <= seen[e]
  BY DEF Oldest
<1> DEFINE N == NoEarlier(h)
           E == DOMAIN seen \ {old}
<1>4. ASSUME NEW e \in E PROVE \E f \in N : EventOf[f] = e
  <2>1. PICK f \in Deliveries : EventOf[f] = e /\ Admitted(f) /\ now[f] = seen[e]
    BY <1>4 DEF EntriesHeld, Holders
  <2>2. f # h /\ now[f] >= now[h]
    BY <1>1, <1>2, <1>4, <2>1 DEF Shape
  <2>3. QED
    BY <2>1, <2>2 DEF NoEarlier
<1>5. IsFiniteSet(N) /\ N \subseteq Deliveries
  <2>1. N \subseteq Deliveries
    BY DEF NoEarlier
  <2>2. QED
    BY <2>1, FS_Subset, IngressAssumption
<1> HIDE DEF N
<1>6. /\ IsFiniteSet(DOMAIN seen) /\ Cardinality(DOMAIN seen) \in Nat
      /\ IsFiniteSet(E) /\ Cardinality(E) = Cardinality(DOMAIN seen) - 1
  BY <1>2, FS_CardinalityType, FS_RemoveElement DEF EntriesHeld
<1> DEFINE g == [e \in E |-> CHOOSE f \in N : EventOf[f] = e]
<1> HIDE DEF E
<1>7. \A e \in E : g[e] \in N /\ EventOf[g[e]] = e
  BY <1>4
<1>8. g \in Injection(E, N)
  <2>1. g \in [E -> N]
    BY <1>7
  <2>2. \A a, b \in E : g[a] = g[b] => a = b
    BY <1>7
  <2> HIDE DEF g
  <2>3. QED
    BY <2>1, <2>2 DEF Injection, IsInjective
<1>9. Cardinality(E) <= Cardinality(N)
  <2> HIDE DEF g
  <2>1. QED
    BY <1>5, <1>8, FS_Injection
<1>10. Cardinality(DOMAIN seen) >= MaxSeen
  BY DEF Full
<1>11. MaxSeen \in Int /\ Cardinality(N) \in Int
  BY <1>5, FS_CardinalityType, IngressAssumption
<1>12. Cardinality(N) >= MaxSeen - 1
  BY <1>6, <1>9, <1>10, <1>11
<1>13. QED
  BY <1>12 DEF N, NoEarlier, ForgottenRightly

\* An admission adds an entry of its own and pushes out at most one.
LEMMA HeldAdmitStep ==
  ASSUME IInv, EntriesHeld, AdmissionsStay, NEW d \in Deliveries, Admit(d)
  PROVE  EntriesHeld'
<1>0. None \notin Result
  BY IngressAssumption
<1>1. at' = [at EXCEPT ![d] = "resolve"] /\ UNCHANGED now
  BY DEF Admit, Goto
<1>2. EventOf[d] \notin DOMAIN seen
  <2>1. Refusal(d) = None
    BY DEF Admit
  <2>2. QED
    BY <2>1, <1>0 DEF Refusal, LockedRefusal, EncryptedRefusal, TokenRefusal, Result
<1>3. Admitted(d)' /\ now'[d] = now[d]
  BY <1>1 DEF IInv, Shape, Admitted
<1>4. PICK kept \in SUBSET DOMAIN seen : Remember(d, kept)
  <2>1. CASE Full
    BY <2>1 DEF Admit
  <2>2. CASE ~Full
    BY <2>2 DEF Admit
  <2>3. QED
    BY <2>1, <2>2
<1>5. /\ DOMAIN seen' = kept \cup {EventOf[d]} /\ seen'[EventOf[d]] = now[d]
      /\ \A e \in kept : seen'[e] = seen[e]
  BY <1>2, <1>4 DEF Remember
<1>6. IsFiniteSet(DOMAIN seen')
  BY <1>5, FS_Subset, FS_AddElement DEF EntriesHeld
<1>7. ASSUME NEW e \in DOMAIN seen' PROVE Holders(e)' # {}
  <2>1. CASE e = EventOf[d]
    BY <2>1, <1>3, <1>5 DEF Holders
  <2>2. CASE e \in kept
    <3>1. PICK f \in Deliveries : EventOf[f] = e /\ Admitted(f) /\ now[f] = seen[e]
      BY <2>2 DEF EntriesHeld, Holders
    <3>2. Admitted(f)' /\ now'[f] = seen'[e]
      BY <2>2, <3>1, <1>5 DEF AdmissionsStay
    <3>3. QED
      BY <3>1, <3>2 DEF Holders
  <2>3. QED
    BY <2>1, <2>2, <1>5
<1>8. QED
  BY <1>6, <1>7 DEF EntriesHeld

\* Every step keeps every entry held by the admission it came from.
LEMMA HeldStep ==
  ASSUME IInv, EntriesHeld, [Next]_vars
  PROVE  EntriesHeld'
<1>0. AdmissionsStay
  BY AdmissionsStayStep
<1>1. ASSUME NEW d \in Deliveries, Admit(d) PROVE EntriesHeld'
  BY <1>0, <1>1, HeldAdmitStep
<1>2. ASSUME NEW d \in Deliveries, EvictExpired(d) PROVE EntriesHeld'
  <2>1. seen' = [e \in Fresh(now[d]) |-> seen[e]] /\ Fresh(now[d]) \subseteq DOMAIN seen
    BY <1>2 DEF EvictExpired, Restricted, Fresh
  <2>2. QED
    BY <1>0, <2>1, HeldQuietStep
<1>3. CASE UNCHANGED seen
  BY <1>0, <1>3, HeldQuietStep
<1>4. QED
  BY <1>1, <1>2, <1>3
  DEF Next, Handle, Receive, FirstGate, CheckStamp, Refuse, Resolve, RecordAudit, Remove,
      Upsert, Tick, vars

\* Only an admission to a full table displaces, and it displaces rightly.
LEMMA DisplacedRightly ==
  ASSUME IInv, EntriesHeld, [Next]_vars, NEW h \in displaced' \ displaced
  PROVE  ForgottenRightly(h)
<1>1. PICK d \in Deliveries : Admit(d)
  BY DEF Next, Handle, Receive, EvictExpired, FirstGate, CheckStamp, Refuse, Resolve,
         RecordAudit, Remove, Upsert, Tick, vars
<1>2. Full /\ \E old \in Oldest : h \in Holders(old)
  BY <1>1 DEF Admit
<1>3. QED
  BY <1>2, PushedOutRightly DEF IInv

\* What a full table forgets is what is oldest: an event id is pushed out only when the
\* rest of the table was admitted with readings no older, however late they were inserted,
\* and the audit log holds a record per answer until it is full.
THEOREM OldestLost == Spec => TablesLoseTheOldest
<1>1. Init => IInv /\ EntriesHeld /\ AuditTold
  <2>1. Init => EntriesHeld
    BY FS_EmptySet DEF Init, EntriesHeld
  <2>2. ASSUME Init PROVE AuditTold
    <3>1. Answered = {}
      BY <2>2 DEF Init, Answered
    <3>2. audit = <<>>
      BY <2>2 DEF Init
    <3>3. Len(audit) = 0 /\ DOMAIN audit = {} /\ audit \in Seq(LogRecord)
      BY <3>2
    <3>4. PICK h : h = [i \in {} |-> 0]
      OBVIOUS
    <3>5. h \in [DOMAIN audit -> Answered] /\ Tells(h)
      BY <3>1, <3>3, <3>4 DEF Tells
    <3>6. Len(audit) = IF Cardinality(Answered) < MaxAudit
                         THEN Cardinality(Answered) ELSE MaxAudit
      BY <3>1, <3>3, FS_EmptySet, IngressAssumption
    <3>7. bindings \in [Users -> Actors \cup {None}]
          /\ actor \in [Deliveries -> Actors \cup {Guest, None}]
      BY <2>2 DEF Init
    <3>8. QED
      BY <3>3, <3>5, <3>6, <3>7 DEF AuditTold
  <2>3. QED
    BY <2>1, <2>2, InitIInv
<1>2. IInv /\ EntriesHeld /\ AuditTold /\ [Next]_vars => (IInv /\ EntriesHeld /\ AuditTold)'
  BY NextIInv, HeldStep, AuditStep DEF IInv
<1>3. IInv /\ EntriesHeld /\ [Next]_vars =>
        [\A d \in displaced' \ displaced : ForgottenRightly(d)]_vars
  BY DisplacedRightly
<1>4. AuditTold => AuditAgrees
  BY AuditCounts
<1>5. Spec => OldestForgottenFirst
  BY <1>1, <1>2, <1>3, PTL DEF Spec, OldestForgottenFirst
<1>6. Spec => []AuditAgrees
  BY <1>1, <1>2, <1>4, PTL DEF Spec
<1>7. QED
  BY <1>5, <1>6 DEF TablesLoseTheOldest

==============================================================================
