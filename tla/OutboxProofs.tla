----------------------------- MODULE OutboxProofs -----------------------------
(***************************************************************************)
(* Proofs about Outbox, for every number of items, workers and callers,    *)
(* every backoff table and every clock.                                    *)
(***************************************************************************)
EXTENDS Outbox, TLAPS

\* What a thread's program counter says about the rest of its local state.
ControlOK ==
  /\ \A w \in Workers : pc[w] \notin {"idle", "scan", "dead"} => cur[w] \in Ids
  /\ \A w \in Workers : pc[w] = "resolve" => answer[w] \in {"Sent", "NotFound", "Failed"}
  /\ \A w \in Workers : pc[w] = "settle" => answer[w] \in {"Ok", "Err"}
  /\ \A w \in Workers : pc[w] = "setRetry" => seen[w][cur[w]] < MaxRetries
  /\ \A c \in Callers : callerPc[c] # "idle" => callerItem[c] \in Ids

TypeInv == TypeOK /\ ControlOK

\* Initially the types hold and nobody is inside a call.
LEMMA TypeInvInit == Init => TypeInv
  BY OutboxAssumption DEF Init, TypeInv, TypeOK, ControlOK, Status

\* A caller's step keeps the types and the control facts.
LEMMA TypeInvCall ==
  ASSUME TypeInv, NEW c \in Callers, Call(c)
  PROVE  TypeInv'
<1> USE OutboxAssumption
    DEF TypeInv, TypeOK, ControlOK, Status, itemVars, roundVars, callerVars, EndCall
<1>1. ASSUME NEW i \in Ids, EnqueueCheck(c, i) PROVE TypeInv'
  BY <1>1 DEF EnqueueCheck
<1>2. ASSUME NEW i \in Ids, ResolveSent(c, i) PROVE TypeInv'
  BY <1>2 DEF ResolveSent, AfterQuery
<1>6. ASSUME NEW i \in Ids, ResolveUnsent(c, i) PROVE TypeInv'
  BY <1>6 DEF ResolveUnsent, QueryAnswers, AfterQuery
<1>3. CASE EnqueueInsert(c)
  <2>1. callerItem[c] \in Ids
    BY <1>3 DEF EnqueueInsert
  <2>2. TypeOK'
    BY <1>3, <2>1 DEF EnqueueInsert
  <2>3. ControlOK'
    BY <1>3 DEF EnqueueInsert
  <2>4. QED
    BY <2>2, <2>3
<1>4. CASE EnqueueDuplicate(c)
  BY <1>4 DEF EnqueueDuplicate
<1>5. CASE CallerMarkSent(c)
  BY <1>5 DEF CallerMarkSent
<1>7. QED
  BY <1>1, <1>2, <1>3, <1>4, <1>5, <1>6 DEF Call

\* A worker's step keeps the types and the control facts.
LEMMA TypeInvRound ==
  ASSUME TypeInv, NEW w \in Workers, Round(w) \/ PanicInQuery(w) \/ PanicInSend(w)
  PROVE  TypeInv'
<1> USE OutboxAssumption
    DEF TypeInv, TypeOK, ControlOK, Status, itemVars, roundVars, callerVars, Goto, NextItem
<1>1. CASE StartRound(w)
  <2>1. TypeOK'
    BY <1>1 DEF StartRound
  <2>2. ControlOK'
    BY <1>1 DEF StartRound
  <2>3. QED
    BY <2>1, <2>2
<1>2. ASSUME NEW i \in Ids, PickItem(w, i) PROVE TypeInv'
  <2>1. TypeOK'
    BY <1>2 DEF PickItem
  <2>2. ControlOK'
    BY <1>2 DEF PickItem
  <2>3. QED
    BY <2>1, <2>2
<1>3. CASE EndRound(w)
  <2>1. TypeOK'
    BY <1>3 DEF EndRound
  <2>2. ControlOK'
    BY <1>3 DEF EndRound
  <2>3. QED
    BY <2>1, <2>2
<1>4. CASE QueryProvider(w)
  <2>1. cur[w] \in Ids
    BY <1>4 DEF QueryProvider
  <2>2. TypeOK'
    BY <1>4, <2>1 DEF QueryProvider, QueryAnswers
  <2>3. ControlOK'
    BY <1>4, <2>1 DEF QueryProvider, QueryAnswers
  <2>4. QED
    BY <2>2, <2>3
<1>5. CASE ApplyAnswer(w)
  <2>1. cur[w] \in Ids
    BY <1>5 DEF ApplyAnswer
  <2>2. TypeOK'
    BY <1>5, <2>1 DEF ApplyAnswer, Transition, AfterQuery
  <2>3. ControlOK'
    BY <1>5, <2>1 DEF ApplyAnswer, Transition, AfterQuery
  <2>4. QED
    BY <2>2, <2>3
<1>6. CASE Reread(w)
  <2>1. cur[w] \in Ids
    BY <1>6 DEF Reread
  <2>2. TypeOK'
    BY <1>6, <2>1 DEF Reread
  <2>3. ControlOK'
    BY <1>6, <2>1 DEF Reread
  <2>4. QED
    BY <2>2, <2>3
<1>7. CASE StatusMismatch(w)
  <2>1. cur[w] \in Ids
    BY <1>7 DEF StatusMismatch
  <2>2. TypeOK'
    BY <1>7, <2>1 DEF StatusMismatch
  <2>3. ControlOK'
    BY <1>7, <2>1 DEF StatusMismatch
  <2>4. QED
    BY <2>2, <2>3
<1>8. CASE TakeLease(w)
  <2>1. cur[w] \in Ids
    BY <1>8 DEF TakeLease
  <2>2. TypeOK'
    BY <1>8, <2>1 DEF TakeLease
  <2>3. ControlOK'
    BY <1>8, <2>1 DEF TakeLease
  <2>4. QED
    BY <2>2, <2>3
<1>9. CASE LeaseRefused(w)
  <2>1. cur[w] \in Ids
    BY <1>9 DEF LeaseRefused
  <2>2. TypeOK'
    BY <1>9, <2>1 DEF LeaseRefused
  <2>3. ControlOK'
    BY <1>9, <2>1 DEF LeaseRefused
  <2>4. QED
    BY <2>2, <2>3
<1>10. CASE BeginSend(w)
  <2>1. cur[w] \in Ids
    BY <1>10 DEF BeginSend
  <2>2. TypeOK'
    BY <1>10, <2>1 DEF BeginSend, Transition
  <2>3. ControlOK'
    BY <1>10, <2>1 DEF BeginSend, Transition
  <2>4. QED
    BY <2>2, <2>3
<1>11. CASE RecordAttempt(w)
  <2>1. cur[w] \in Ids
    BY <1>11 DEF RecordAttempt
  <2>2. TypeOK'
    BY <1>11, <2>1 DEF RecordAttempt
  <2>3. ControlOK'
    BY <1>11, <2>1 DEF RecordAttempt
  <2>4. QED
    BY <2>2, <2>3
<1>12. CASE SendOk(w)
  <2>1. cur[w] \in Ids
    BY <1>12 DEF SendOk
  <2>2. TypeOK'
    BY <1>12, <2>1 DEF SendOk
  <2>3. ControlOK'
    BY <1>12, <2>1 DEF SendOk
  <2>4. QED
    BY <2>2, <2>3
<1>13. CASE SendErr(w)
  <2>1. cur[w] \in Ids
    BY <1>13 DEF SendErr
  <2>2. delivered' \subseteq Keys
    BY <1>13, <2>1 DEF SendErr
  <2>3. TypeOK'
    BY <1>13, <2>1, <2>2, SMTT(30) DEF SendErr
  <2>4. ControlOK'
    BY <1>13, <2>1 DEF SendErr
  <2>5. QED
    BY <2>3, <2>4
<1>14. CASE SettleSent(w)
  <2>1. cur[w] \in Ids
    BY <1>14 DEF SettleSent
  <2>2. TypeOK'
    BY <1>14, <2>1 DEF SettleSent, Settle, Transition
  <2>3. ControlOK'
    BY <1>14, <2>1 DEF SettleSent, Settle, Transition
  <2>4. QED
    BY <2>2, <2>3
<1>15. CASE SettleRetry(w)
  <2>1. cur[w] \in Ids
    BY <1>15 DEF SettleRetry
  <2>2. TypeOK'
    BY <1>15, <2>1 DEF SettleRetry, Settle, Transition, RetriesLeft
  <2>3. ControlOK'
    BY <1>15, <2>1 DEF SettleRetry, Settle, Transition, RetriesLeft
  <2>4. QED
    BY <2>2, <2>3
<1>16. CASE SettleFailed(w)
  <2>1. cur[w] \in Ids
    BY <1>16 DEF SettleFailed
  <2>2. TypeOK'
    BY <1>16, <2>1 DEF SettleFailed, Settle, Transition
  <2>3. ControlOK'
    BY <1>16, <2>1 DEF SettleFailed, Settle, Transition
  <2>4. QED
    BY <2>2, <2>3
<1>17. CASE SetRetry(w)
  <2>1. cur[w] \in Ids
    BY <1>17 DEF SetRetry
  <2>2. seen[w][cur[w]] \in 0..(MaxRetries - 1)
    BY <1>17, <2>1 DEF SetRetry
  <2>3. now[w] \in Nat /\ Delay[seen[w][cur[w]]] \in Nat
    BY <2>2
  <2>4. count' \in [Ids -> Nat] /\ nextAt' \in [Ids -> Nat]
    BY <1>17, <2>1, <2>2, <2>3 DEF SetRetry
  <2>5. TypeOK'
    BY <1>17, <2>1, <2>4 DEF SetRetry
  <2>6. ControlOK'
    BY <1>17, <2>1 DEF SetRetry
  <2>7. QED
    BY <2>5, <2>6
<1>18. CASE MarkSent(w)
  <2>1. cur[w] \in Ids
    BY <1>18 DEF MarkSent
  <2>2. TypeOK'
    BY <1>18, <2>1 DEF MarkSent
  <2>3. ControlOK'
    BY <1>18, <2>1 DEF MarkSent
  <2>4. QED
    BY <2>2, <2>3
<1>19. CASE Compensate(w)
  <2>1. cur[w] \in Ids
    BY <1>19 DEF Compensate
  <2>2. TypeOK'
    BY <1>19, <2>1 DEF Compensate, Transition
  <2>3. ControlOK'
    BY <1>19, <2>1 DEF Compensate, Transition
  <2>4. QED
    BY <2>2, <2>3
<1>20. CASE PanicInQuery(w)
  <2>1. cur[w] \in Ids
    BY <1>20 DEF PanicInQuery
  <2>2. TypeOK'
    BY <1>20, <2>1 DEF PanicInQuery
  <2>3. ControlOK'
    BY <1>20, <2>1 DEF PanicInQuery
  <2>4. QED
    BY <2>2, <2>3
<1>21. CASE PanicInSend(w)
  <2>1. cur[w] \in Ids
    BY <1>21 DEF PanicInSend
  <2>2. TypeOK'
    BY <1>21, <2>1 DEF PanicInSend
  <2>3. ControlOK'
    BY <1>21, <2>1 DEF PanicInSend
  <2>4. QED
    BY <2>2, <2>3
<1>22. QED
  BY <1>1, <1>2, <1>3, <1>4, <1>5, <1>6, <1>7, <1>8, <1>9, <1>10, <1>11, <1>12, <1>13, <1>14, <1>15, <1>16, <1>17, <1>18, <1>19, <1>20, <1>21 DEF Round

\* Every reachable state is well typed, and a thread that is inside a call
\* knows its item: no stale copy ever indexes outside the retry table.
THEOREM TypeCorrect == Spec => []TypeInv
<1>1. TypeInv /\ [Next]_vars => TypeInv'
  <2> SUFFICES ASSUME TypeInv, [Next]_vars PROVE TypeInv'
    OBVIOUS
  <2>1. ASSUME NEW w \in Workers, Round(w) \/ PanicInQuery(w) \/ PanicInSend(w) PROVE TypeInv'
    BY <2>1, TypeInvRound
  <2>2. ASSUME NEW c \in Callers, Call(c) PROVE TypeInv'
    BY <2>2, TypeInvCall
  <2>3. CASE Tick
    BY <2>3 DEF Tick, TypeInv, TypeOK, ControlOK, itemVars, roundVars, callerVars
  <2>4. CASE UNCHANGED vars
    BY <2>4 DEF vars, TypeInv, TypeOK, ControlOK, itemVars, roundVars, callerVars
  <2>5. QED
    BY <2>1, <2>2, <2>3, <2>4 DEF Next
<1>2. QED
  BY TypeInvInit, <1>1, PTL DEF Spec
-----------------------------------------------------------------------------
\* A caller moves items from Absent and Unknown only, so the items that are
\* Sending and the workers responsible for them stay the same.
LEMMA OneSenderCall ==
  ASSUME TypeInv, OneSender, NEW c \in Callers, Call(c)
  PROVE  OneSender'
<1>1. UNCHANGED <<pc, cur>>
  BY DEF Call, EnqueueCheck, ResolveSent, ResolveUnsent, EnqueueInsert,
         EnqueueDuplicate, CallerMarkSent, itemVars, roundVars
<1>2. \A i \in Ids : status'[i] = "Sending" <=> status[i] = "Sending"
  <2>1. ASSUME NEW i \in Ids, ResolveUnsent(c, i)
        PROVE  \A j \in Ids : status'[j] = "Sending" <=> status[j] = "Sending"
    BY <2>1 DEF ResolveUnsent, QueryAnswers, AfterQuery, TypeInv, TypeOK
  <2>2. ASSUME NEW i \in Ids, ResolveSent(c, i)
        PROVE  \A j \in Ids : status'[j] = "Sending" <=> status[j] = "Sending"
    BY <2>2 DEF ResolveSent, AfterQuery, TypeInv, TypeOK
  <2>3. CASE EnqueueInsert(c)
    BY <2>3, OutboxAssumption DEF EnqueueInsert, TypeInv, TypeOK, ControlOK
  <2>4. CASE UNCHANGED status
    BY <2>4
  <2>5. QED
    BY <2>1, <2>2, <2>3, <2>4 DEF Call, EnqueueCheck, EnqueueDuplicate,
       CallerMarkSent, itemVars
<1>3. QED
  BY <1>1, <1>2 DEF OneSender, SendingBy

\* A step that changes neither which items are Sending nor who is responsible.
Quiet ==
  /\ \A i \in Ids : status'[i] = "Sending" <=> status[i] = "Sending"
  /\ \A v \in Workers, i \in Ids : SendingBy(v, i)' <=> SendingBy(v, i)

LEMMA QuietStep == OneSender /\ Quiet => OneSender'
  BY DEF OneSender, Quiet

\* A worker becomes responsible for an item by moving it from Leased, when
\* nobody is, and it moves the item from Sending when it stops being so.
LEMMA OneSenderRound ==
  ASSUME TypeInv, OneSender, NEW w \in Workers,
         Round(w) \/ PanicInQuery(w) \/ PanicInSend(w)
  PROVE  OneSender'
<1> USE DEF TypeInv, TypeOK, ControlOK, SendingBy, itemVars, Goto, NextItem
<1>1. ASSUME StartRound(w) PROVE Quiet
  BY <1>1 DEF Quiet, StartRound
<1>2. ASSUME NEW i \in Ids, PickItem(w, i) PROVE Quiet
  BY <1>2 DEF Quiet, PickItem
<1>3. ASSUME EndRound(w) PROVE Quiet
  BY <1>3 DEF Quiet, EndRound
<1>4. ASSUME QueryProvider(w) PROVE Quiet
  BY <1>4 DEF Quiet, QueryProvider
<1>5. ASSUME ApplyAnswer(w) PROVE Quiet
  BY <1>5 DEF Quiet, ApplyAnswer, Transition, AfterQuery
<1>6. ASSUME Reread(w) PROVE Quiet
  BY <1>6 DEF Quiet, Reread
<1>7. ASSUME StatusMismatch(w) PROVE Quiet
  BY <1>7, OutboxAssumption DEF Quiet, StatusMismatch
<1>8. ASSUME TakeLease(w) PROVE Quiet
  BY <1>8 DEF Quiet, TakeLease, Leasable
<1>9. ASSUME LeaseRefused(w) PROVE Quiet
  BY <1>9, OutboxAssumption DEF Quiet, LeaseRefused
<1>10. ASSUME RecordAttempt(w) PROVE Quiet
  BY <1>10 DEF Quiet, RecordAttempt
<1>11. ASSUME SendOk(w) PROVE Quiet
  BY <1>11 DEF Quiet, SendOk
<1>12. ASSUME SendErr(w) PROVE Quiet
  BY <1>12 DEF Quiet, SendErr
<1>13. ASSUME SetRetry(w) PROVE Quiet
  BY <1>13, OutboxAssumption DEF Quiet, SetRetry
<1>14. ASSUME MarkSent(w) PROVE Quiet
  BY <1>14, OutboxAssumption DEF Quiet, MarkSent
<1>15. ASSUME Compensate(w) PROVE Quiet
  BY <1>15, OutboxAssumption DEF Quiet, Compensate, Transition
<1>16. ASSUME PanicInQuery(w) PROVE Quiet
  BY <1>16, OutboxAssumption DEF Quiet, PanicInQuery
<1>17. ASSUME PanicInSend(w) PROVE Quiet
  BY <1>17 DEF Quiet, PanicInSend
<1>18. CASE BeginSend(w)
  BY <1>18 DEF BeginSend, Transition, OneSender
<1>19. CASE SettleSent(w)
  BY <1>19 DEF SettleSent, Settle, Transition, OneSender
<1>20. CASE SettleRetry(w)
  BY <1>20 DEF SettleRetry, Settle, Transition, OneSender
<1>21. CASE SettleFailed(w)
  BY <1>21 DEF SettleFailed, Settle, Transition, OneSender
<1>22. QED
  BY QuietStep, <1>1, <1>2, <1>3, <1>4, <1>5, <1>6, <1>7, <1>8, <1>9, <1>10, <1>11, <1>12, <1>13, <1>14, <1>15, <1>16, <1>17, <1>18, <1>19, <1>20, <1>21 DEF Round

\* No two workers are ever inside the provider's send of one item, even when
\* leases are taken over, copies are stale and workers die.
THEOREM SenderExclusion == Spec => []OneSender
<1>1. Init => OneSender
  BY DEF Init, OneSender, SendingBy
<1>2. TypeInv /\ OneSender /\ [Next]_vars => OneSender'
  <2> SUFFICES ASSUME TypeInv, OneSender, [Next]_vars PROVE OneSender'
    OBVIOUS
  <2>1. ASSUME NEW w \in Workers, Round(w) \/ PanicInQuery(w) \/ PanicInSend(w)
        PROVE  OneSender'
    BY <2>1, OneSenderRound
  <2>2. ASSUME NEW c \in Callers, Call(c) PROVE OneSender'
    BY <2>2, OneSenderCall
  <2>3. CASE Tick
    BY <2>3 DEF Tick, OneSender, SendingBy, itemVars
  <2>4. CASE UNCHANGED vars
    BY <2>4 DEF vars, OneSender, SendingBy, itemVars
  <2>5. QED
    BY <2>1, <2>2, <2>3, <2>4 DEF Next
<1>3. QED
  BY TypeCorrect, <1>1, <1>2, PTL DEF Spec
-----------------------------------------------------------------------------
\* How often an item was confirmed follows from its status and from the answer
\* the responsible worker holds.
AcksOK ==
  /\ \A i \in Ids : acks[i] \in {0, 1}
  /\ \A i \in Ids : status[i] \notin {"Sending", "Sent"} => acks[i] = 0
  /\ \A w \in Workers, i \in Ids : SendingBy(w, i) =>
       acks[i] = IF pc[w] = "settle" /\ answer[w] = "Ok" THEN 1 ELSE 0

\* A step that leaves confirmations, responsibilities and answers alone, and
\* takes no item into or out of Sending and Sent except from Unknown to Sent.
AckQuiet ==
  /\ UNCHANGED acks
  /\ \A i \in Ids : status'[i] \notin {"Sending", "Sent"} =>
                     status[i] \notin {"Sending", "Sent"}
  /\ \A v \in Workers, i \in Ids : SendingBy(v, i)' =>
       SendingBy(v, i) /\ (pc'[v] = "settle" /\ answer'[v] = "Ok"
                          <=> pc[v] = "settle" /\ answer[v] = "Ok")

LEMMA AckQuietStep == AcksOK /\ AckQuiet => AcksOK'
  BY DEF AcksOK, AckQuiet

\* A caller's step confirms nothing.
LEMMA AcksCall ==
  ASSUME TypeInv, AcksOK, NEW c \in Callers, Call(c)
  PROVE  AcksOK'
<1> USE DEF TypeInv, TypeOK, ControlOK, itemVars, roundVars
<1>1. ASSUME NEW i \in Ids, EnqueueCheck(c, i) PROVE AckQuiet
  BY <1>1 DEF AckQuiet, SendingBy, EnqueueCheck
<1>2. ASSUME NEW i \in Ids, ResolveSent(c, i) PROVE AckQuiet
  BY <1>2 DEF AckQuiet, SendingBy, ResolveSent, AfterQuery
<1>3. ASSUME NEW i \in Ids, ResolveUnsent(c, i) PROVE AckQuiet
  BY <1>3 DEF AckQuiet, SendingBy, ResolveUnsent, AfterQuery, QueryAnswers
<1>4. ASSUME EnqueueInsert(c) PROVE AckQuiet
  BY <1>4, OutboxAssumption DEF AckQuiet, SendingBy, EnqueueInsert
<1>5. ASSUME EnqueueDuplicate(c) PROVE AckQuiet
  BY <1>5 DEF AckQuiet, SendingBy, EnqueueDuplicate
<1>6. ASSUME CallerMarkSent(c) PROVE AckQuiet
  BY <1>6 DEF AckQuiet, SendingBy, CallerMarkSent
<1>7. QED
  BY AckQuietStep, <1>1, <1>2, <1>3, <1>4, <1>5, <1>6 DEF Call

\* A worker's step: only SendOk confirms, and only for the one responsible.
LEMMA AcksRound ==
  ASSUME TypeInv, OneSender, AcksOK, NEW w \in Workers,
         Round(w) \/ PanicInQuery(w) \/ PanicInSend(w)
  PROVE  AcksOK'
<1> USE DEF TypeInv, TypeOK, ControlOK, SendingBy, itemVars, Goto, NextItem
<1>1. ASSUME StartRound(w) PROVE AckQuiet
  BY <1>1 DEF AckQuiet, StartRound
<1>2. ASSUME NEW i \in Ids, PickItem(w, i) PROVE AckQuiet
  BY <1>2 DEF AckQuiet, PickItem
<1>3. ASSUME EndRound(w) PROVE AckQuiet
  BY <1>3 DEF AckQuiet, EndRound
<1>4. ASSUME QueryProvider(w) PROVE AckQuiet
  BY <1>4 DEF AckQuiet, QueryProvider
<1>5. ASSUME ApplyAnswer(w) PROVE AckQuiet
  BY <1>5 DEF AckQuiet, ApplyAnswer, Transition, AfterQuery
<1>6. ASSUME Reread(w) PROVE AckQuiet
  BY <1>6 DEF AckQuiet, Reread
<1>7. ASSUME StatusMismatch(w) PROVE AckQuiet
  BY <1>7, OutboxAssumption DEF AckQuiet, StatusMismatch
<1>8. ASSUME TakeLease(w) PROVE AckQuiet
  BY <1>8 DEF AckQuiet, TakeLease, Leasable
<1>9. ASSUME LeaseRefused(w) PROVE AckQuiet
  BY <1>9, OutboxAssumption DEF AckQuiet, LeaseRefused
<1>10. ASSUME RecordAttempt(w) PROVE AckQuiet
  BY <1>10 DEF AckQuiet, RecordAttempt
<1>11. ASSUME SendErr(w) PROVE AckQuiet
  BY <1>11 DEF AckQuiet, SendErr
<1>12. ASSUME SetRetry(w) PROVE AckQuiet
  BY <1>12, OutboxAssumption DEF AckQuiet, SetRetry
<1>13. ASSUME MarkSent(w) PROVE AckQuiet
  BY <1>13, OutboxAssumption DEF AckQuiet, MarkSent
<1>14. ASSUME Compensate(w) PROVE AckQuiet
  BY <1>14, OutboxAssumption DEF AckQuiet, Compensate, Transition
<1>15. ASSUME PanicInQuery(w) PROVE AckQuiet
  BY <1>15, OutboxAssumption DEF AckQuiet, PanicInQuery
<1>16. ASSUME PanicInSend(w) PROVE AckQuiet
  BY <1>16 DEF AckQuiet, PanicInSend
<1>17. ASSUME SettleSent(w) PROVE AckQuiet
  BY <1>17 DEF AckQuiet, SettleSent, Settle, Transition, OneSender
<1>18. CASE BeginSend(w)
  BY <1>18 DEF BeginSend, Transition, AcksOK, OneSender
<1>19. CASE SendOk(w)
  BY <1>19 DEF SendOk, AcksOK, OneSender
<1>20. CASE SettleRetry(w)
  BY <1>20 DEF SettleRetry, Settle, Transition, AcksOK, OneSender
<1>21. CASE SettleFailed(w)
  BY <1>21 DEF SettleFailed, Settle, Transition, AcksOK, OneSender
<1>22. QED
  BY AckQuietStep, <1>1, <1>2, <1>3, <1>4, <1>5, <1>6, <1>7, <1>8, <1>9, <1>10, <1>11, <1>12, <1>13, <1>14, <1>15, <1>16, <1>17, <1>18, <1>19, <1>20, <1>21 DEF Round

\* The provider confirms an item at most once, and never after it was settled.
THEOREM ConfirmedOnce == Spec => []AcksOK
<1>1. Init => AcksOK
  BY DEF Init, AcksOK, SendingBy
<1>2. TypeInv /\ OneSender /\ AcksOK /\ [Next]_vars => AcksOK'
  <2> SUFFICES ASSUME TypeInv, OneSender, AcksOK, [Next]_vars PROVE AcksOK'
    OBVIOUS
  <2>1. ASSUME NEW w \in Workers, Round(w) \/ PanicInQuery(w) \/ PanicInSend(w)
        PROVE  AcksOK'
    BY <2>1, AcksRound
  <2>2. ASSUME NEW c \in Callers, Call(c) PROVE AcksOK'
    BY <2>2, AcksCall
  <2>3. CASE Tick
    BY <2>3 DEF Tick, AcksOK, SendingBy, itemVars
  <2>4. CASE UNCHANGED vars
    BY <2>4 DEF vars, AcksOK, SendingBy, itemVars
  <2>5. QED
    BY <2>1, <2>2, <2>3, <2>4 DEF Next
<1>3. QED
  BY TypeCorrect, SenderExclusion, <1>1, <1>2, PTL DEF Spec
-----------------------------------------------------------------------------
\* The refinement: the step of Delivery each step of the outbox amounts to.
Bar == [i \in Ids |-> Phase(status[i])]

\* Moving one item's status moves one item's phase.
LEMMA BarMove ==
  ASSUME TypeInv, NEW i \in Ids, NEW s \in Status,
         status' = [status EXCEPT ![i] = s]
  PROVE  Bar' = [Bar EXCEPT ![i] = Phase(s)]
  BY DEF TypeInv, TypeOK, Bar

\* Writing the phase an item already has changes nothing.
LEMMA BarStay ==
  ASSUME NEW i \in Ids, Bar' = [Bar EXCEPT ![i] = Bar[i]]
  PROVE  Bar' = Bar
<1>1. Bar = [j \in Ids |-> Bar[j]]
  BY DEF Bar
<1>2. QED
  BY <1>1

\* A step of the abstract specification, or none.
AbstractStep == Abstract!Next \/ (Bar' = Bar /\ acks' = acks)

\* A caller's step submits an item, resolves it, or does nothing abstractly.
LEMMA RefineCall ==
  ASSUME TypeInv, NEW c \in Callers, Call(c)
  PROVE  AbstractStep
<1> USE DEF TypeInv, TypeOK, Status, itemVars, Phase
<1>1. ASSUME NEW i \in Ids, ResolveSent(c, i) PROVE AbstractStep
  <2>1. Bar' = [Bar EXCEPT ![i] = "sent"] /\ Bar[i] = "queued" /\ acks' = acks
    BY <1>1, BarMove DEF ResolveSent, AfterQuery, Bar
  <2>2. QED
    BY <2>1 DEF AbstractStep, Abstract!Next, Abstract!Resolve, Abstract!Move, Bar
<1>2. ASSUME NEW i \in Ids, ResolveUnsent(c, i) PROVE AbstractStep
  <2>1. PICK a \in QueryAnswers(KeyOf[i]) \ {"Sent"} :
          status' = [status EXCEPT ![i] = AfterQuery(a)]
    BY <1>2 DEF ResolveUnsent
  <2>2. Bar[i] = "queued" /\ acks' = acks
    BY <1>2 DEF ResolveUnsent, Bar
  <2>3. CASE a = "Failed"
    <3>1. Bar' = [Bar EXCEPT ![i] = "failed"]
      BY <2>1, <2>3, BarMove DEF AfterQuery
    <3>2. QED
      BY <2>2, <3>1 DEF AbstractStep, Abstract!Next, Abstract!Resolve, Abstract!Move, Bar
  <2>4. CASE a = "NotFound"
    <3>1. Bar' = [Bar EXCEPT ![i] = "queued"]
      BY <2>1, <2>4, BarMove DEF AfterQuery
    <3>2. QED
      BY <2>2, <3>1, BarStay DEF AbstractStep
  <2>5. QED
    BY <2>3, <2>4 DEF QueryAnswers
<1>3. ASSUME EnqueueInsert(c) PROVE AbstractStep
  <2>1. PICK s \in EntryStatus : status' = [status EXCEPT ![callerItem[c]] = s]
    BY <1>3 DEF EnqueueInsert
  <2>2. callerItem[c] \in Ids /\ Bar[callerItem[c]] = "absent" /\ acks' = acks
    BY <1>3 DEF EnqueueInsert, ControlOK, Bar
  <2>3. Bar' = [Bar EXCEPT ![callerItem[c]] = "queued"]
    BY <2>1, <2>2, BarMove, OutboxAssumption
  <2>4. QED
    BY <2>2, <2>3 DEF AbstractStep, Abstract!Next, Abstract!Submit, Abstract!Move, Bar
<1>4. CASE UNCHANGED <<status, acks>>
  BY <1>4 DEF AbstractStep, Bar
<1>5. QED
  BY <1>1, <1>2, <1>3, <1>4
  DEF Call, EnqueueCheck, EnqueueDuplicate, CallerMarkSent

\* A worker's step begins, confirms, settles, resolves or compensates, or does
\* nothing abstractly.
LEMMA RefineRound ==
  ASSUME TypeInv, OneSender, AcksOK, NEW w \in Workers,
         Round(w) \/ PanicInQuery(w) \/ PanicInSend(w)
  PROVE  AbstractStep
<1> USE DEF TypeInv, TypeOK, ControlOK, Status, itemVars, Phase
<1>1. CASE ApplyAnswer(w)
  <2>1. cur[w] \in Ids /\ Bar[cur[w]] = "queued" /\ acks' = acks
    BY <1>1 DEF ApplyAnswer, Transition, Bar
  <2>2. answer[w] \in {"Sent", "Failed", "NotFound"}
        /\ status' = [status EXCEPT ![cur[w]] = AfterQuery(answer[w])]
    BY <1>1 DEF ApplyAnswer, Transition
  <2>3. Bar' = [Bar EXCEPT ![cur[w]] = Phase(AfterQuery(answer[w]))]
    BY <2>1, <2>2, BarMove DEF AfterQuery
  <2>4. CASE answer[w] = "NotFound"
    <3>1. Bar' = [Bar EXCEPT ![cur[w]] = Bar[cur[w]]]
      BY <2>1, <2>3, <2>4 DEF AfterQuery
    <3>2. QED
      BY <2>1, <3>1, BarStay DEF AbstractStep
  <2>5. CASE answer[w] # "NotFound"
    <3>1. \/ Bar' = [Bar EXCEPT ![cur[w]] = "sent"]
          \/ Bar' = [Bar EXCEPT ![cur[w]] = "failed"]
      BY <2>2, <2>3, <2>5 DEF AfterQuery
    <3>2. QED
      BY <2>1, <3>1
      DEF AbstractStep, Abstract!Next, Abstract!Resolve, Abstract!Move, Bar
  <2>6. QED
    BY <2>4, <2>5
<1>2. CASE TakeLease(w)
  <2>1. cur[w] \in Ids /\ Bar[cur[w]] = "queued" /\ acks' = acks
    BY <1>2 DEF TakeLease, Leasable, Bar
  <2>2. Bar' = [Bar EXCEPT ![cur[w]] = "queued"]
    BY <1>2, <2>1, BarMove DEF TakeLease
  <2>3. QED
    BY <2>1, <2>2, BarStay DEF AbstractStep
<1>3. CASE BeginSend(w)
  <2>1. cur[w] \in Ids /\ Bar[cur[w]] = "queued" /\ acks' = acks
    BY <1>3 DEF BeginSend, Transition, Bar
  <2>2. Bar' = [Bar EXCEPT ![cur[w]] = "sending"]
    BY <1>3, <2>1, BarMove DEF BeginSend, Transition
  <2>3. QED
    BY <2>1, <2>2 DEF AbstractStep, Abstract!Next, Abstract!Begin, Abstract!Move, Bar
<1>4. CASE SendOk(w)
  <2>1. cur[w] \in Ids /\ SendingBy(w, cur[w]) /\ pc[w] = "send"
    BY <1>4 DEF SendOk, SendingBy
  <2>2. Bar[cur[w]] = "sending" /\ acks[cur[w]] = 0
    BY <2>1 DEF OneSender, AcksOK, Bar
  <2>3. Bar' = Bar /\ acks' = [acks EXCEPT ![cur[w]] = 1]
    BY <1>4, <2>1, <2>2 DEF SendOk, Bar
  <2>4. QED
    BY <2>1, <2>2, <2>3 DEF AbstractStep, Abstract!Next, Abstract!Confirm, Bar
<1>5. CASE SettleSent(w)
  <2>1. cur[w] \in Ids /\ Bar[cur[w]] = "sending" /\ acks[cur[w]] = 1 /\ acks' = acks
    BY <1>5 DEF SettleSent, Settle, Transition, AcksOK, SendingBy, Bar
  <2>2. Bar' = [Bar EXCEPT ![cur[w]] = "sent"]
    BY <1>5, <2>1, BarMove DEF SettleSent, Settle, Transition
  <2>3. QED
    BY <2>1, <2>2 DEF AbstractStep, Abstract!Next, Abstract!Settle, Abstract!Move, Bar
<1>6. CASE SettleRetry(w)
  <2>1. cur[w] \in Ids /\ Bar[cur[w]] = "sending" /\ acks[cur[w]] = 0 /\ acks' = acks
    BY <1>6 DEF SettleRetry, Settle, Transition, AcksOK, SendingBy, Bar
  <2>2. Bar' = [Bar EXCEPT ![cur[w]] = "queued"]
    BY <1>6, <2>1, BarMove DEF SettleRetry, Settle, Transition
  <2>3. QED
    BY <2>1, <2>2 DEF AbstractStep, Abstract!Next, Abstract!Settle, Abstract!Move, Bar
<1>7. CASE SettleFailed(w)
  <2>1. cur[w] \in Ids /\ Bar[cur[w]] = "sending" /\ acks[cur[w]] = 0 /\ acks' = acks
    BY <1>7 DEF SettleFailed, Settle, Transition, AcksOK, SendingBy, Bar
  <2>2. Bar' = [Bar EXCEPT ![cur[w]] = "failed"]
    BY <1>7, <2>1, BarMove DEF SettleFailed, Settle, Transition
  <2>3. QED
    BY <2>1, <2>2 DEF AbstractStep, Abstract!Next, Abstract!Settle, Abstract!Move, Bar
<1>8. CASE Compensate(w)
  <2>1. cur[w] \in Ids /\ acks' = acks
    BY <1>8 DEF Compensate
  <2>2. CASE cur[w] \in Compensable
    <3>1. Bar[cur[w]] = "failed" /\ status' = [status EXCEPT ![cur[w]] = "Compensated"]
      BY <1>8, <2>1, <2>2 DEF Compensate, Transition, Bar
    <3>2. Bar' = [Bar EXCEPT ![cur[w]] = "compensated"]
      BY <2>1, <3>1, BarMove
    <3>3. QED
      BY <2>1, <2>2, <3>1, <3>2
      DEF AbstractStep, Abstract!Next, Abstract!Compensate, Abstract!Move, Bar
  <2>3. CASE cur[w] \notin Compensable
    BY <1>8, <2>1, <2>3 DEF Compensate, AbstractStep, Bar
  <2>4. QED
    BY <2>2, <2>3
<1>9. CASE UNCHANGED <<status, acks>>
  BY <1>9 DEF AbstractStep, Bar
<1>10. QED
  BY <1>1, <1>2, <1>3, <1>4, <1>5, <1>6, <1>7, <1>8, <1>9
  DEF Round, StartRound, PickItem, EndRound, QueryProvider, Reread, StatusMismatch,
      LeaseRefused, RecordAttempt, SendErr, SetRetry, MarkSent, PanicInQuery, PanicInSend

\* The outbox, with its workers, leases and stale copies, implements the
\* delivery promise of Delivery.
THEOREM Implementation == Spec => ImplementsDelivery
<1>1. Init => Abstract!Init
  BY DEF Init, Abstract!Init, Phase
<1>2. TypeInv /\ OneSender /\ AcksOK /\ [Next]_vars => AbstractStep
  <2> SUFFICES ASSUME TypeInv, OneSender, AcksOK, [Next]_vars PROVE AbstractStep
    OBVIOUS
  <2>1. ASSUME NEW w \in Workers, Round(w) \/ PanicInQuery(w) \/ PanicInSend(w)
        PROVE  AbstractStep
    BY <2>1, RefineRound
  <2>2. ASSUME NEW c \in Callers, Call(c) PROVE AbstractStep
    BY <2>2, RefineCall
  <2>3. CASE Tick
    BY <2>3 DEF Tick, AbstractStep, Bar, itemVars
  <2>4. CASE UNCHANGED vars
    BY <2>4 DEF vars, AbstractStep, Bar, itemVars
  <2>5. QED
    BY <2>1, <2>2, <2>3, <2>4 DEF Next
<1>3. AbstractStep => [Abstract!Next]_<<Bar, acks>>
  BY DEF AbstractStep
<1>4. QED
  BY TypeCorrect, SenderExclusion, ConfirmedOnce, <1>1, <1>2, <1>3, PTL
  DEF Spec, ImplementsDelivery, Abstract!Spec, Bar
-----------------------------------------------------------------------------
\* A worker was told that its message was delivered, in answer to a query or to a send.
ToldDelivered(w) ==
  \/ pc[w] = "resolve" /\ answer[w] = "Sent"
  \/ pc[w] = "settle" /\ answer[w] = "Ok"

\* What makes SentIsDelivered inductive: an answer may be old when it is applied, but
\* what was delivered stays delivered.
SentInv ==
  /\ SentIsDelivered
  /\ \A w \in Workers : ToldDelivered(w) => KeyOf[cur[w]] \in delivered

\* A step that takes nothing back, and calls an item Sent or tells a worker so only if
\* the message is delivered.
SentQuiet ==
  /\ delivered \subseteq delivered'
  /\ \A i \in Ids : status'[i] = "Sent" => status[i] = "Sent" \/ KeyOf[i] \in delivered'
  /\ \A v \in Workers : ToldDelivered(v)' =>
       (ToldDelivered(v) /\ cur'[v] = cur[v]) \/ KeyOf[cur'[v]] \in delivered'

\* Such a step keeps the invariant.
LEMMA SentQuietStep == SentInv /\ SentQuiet => SentInv'
  BY DEF SentInv, SentQuiet, SentIsDelivered

\* A caller marks an item as Sent only on the provider's word.
LEMMA SentCall ==
  ASSUME TypeInv, SentInv, NEW c \in Callers, Call(c)
  PROVE  SentInv'
<1> USE DEF TypeInv, TypeOK, ControlOK, SentQuiet, ToldDelivered, itemVars, roundVars
<1>1. ASSUME NEW i \in Ids, EnqueueCheck(c, i) PROVE SentQuiet
  BY <1>1 DEF EnqueueCheck
<1>2. ASSUME NEW i \in Ids, ResolveSent(c, i) PROVE SentQuiet
  BY <1>2 DEF ResolveSent, AfterQuery, QueryAnswers
<1>3. ASSUME NEW i \in Ids, ResolveUnsent(c, i) PROVE SentQuiet
  BY <1>3 DEF ResolveUnsent, AfterQuery, QueryAnswers
<1>4. ASSUME EnqueueInsert(c) PROVE SentQuiet
  BY <1>4, OutboxAssumption DEF EnqueueInsert
<1>5. ASSUME EnqueueDuplicate(c) PROVE SentQuiet
  BY <1>5 DEF EnqueueDuplicate
<1>6. ASSUME CallerMarkSent(c) PROVE SentQuiet
  BY <1>6 DEF CallerMarkSent
<1>7. QED
  BY SentQuietStep, <1>1, <1>2, <1>3, <1>4, <1>5, <1>6 DEF Call

\* A worker marks an item as Sent only on the provider's word, fresh or stale.
LEMMA SentRound ==
  ASSUME TypeInv, SentInv, NEW w \in Workers,
         Round(w) \/ PanicInQuery(w) \/ PanicInSend(w)
  PROVE  SentInv'
<1> USE DEF TypeInv, TypeOK, ControlOK, SentQuiet, ToldDelivered, itemVars, Goto, NextItem
<1>1. ASSUME StartRound(w) PROVE SentQuiet
  BY <1>1 DEF StartRound
<1>2. ASSUME NEW i \in Ids, PickItem(w, i) PROVE SentQuiet
  BY <1>2 DEF PickItem
<1>3. ASSUME EndRound(w) PROVE SentQuiet
  BY <1>3 DEF EndRound
<1>4. ASSUME QueryProvider(w) PROVE SentQuiet
  BY <1>4 DEF QueryProvider, QueryAnswers
<1>5. ASSUME ApplyAnswer(w) PROVE SentQuiet
  BY <1>5 DEF ApplyAnswer, Transition, AfterQuery, SentInv
<1>6. ASSUME Reread(w) PROVE SentQuiet
  BY <1>6 DEF Reread
<1>7. ASSUME StatusMismatch(w) PROVE SentQuiet
  BY <1>7 DEF StatusMismatch
<1>8. ASSUME TakeLease(w) PROVE SentQuiet
  BY <1>8 DEF TakeLease
<1>9. ASSUME LeaseRefused(w) PROVE SentQuiet
  BY <1>9 DEF LeaseRefused
<1>10. ASSUME BeginSend(w) PROVE SentQuiet
  BY <1>10 DEF BeginSend, Transition
<1>11. ASSUME RecordAttempt(w) PROVE SentQuiet
  BY <1>11 DEF RecordAttempt
<1>12. ASSUME SendOk(w) PROVE SentQuiet
  BY <1>12 DEF SendOk
<1>13. ASSUME SendErr(w) PROVE SentQuiet
  BY <1>13 DEF SendErr
<1>14. ASSUME SettleSent(w) PROVE SentQuiet
  BY <1>14 DEF SettleSent, Settle, Transition, SentInv
<1>15. ASSUME SettleRetry(w) PROVE SentQuiet
  BY <1>15 DEF SettleRetry, Settle, Transition
<1>16. ASSUME SettleFailed(w) PROVE SentQuiet
  BY <1>16 DEF SettleFailed, Settle, Transition
<1>17. ASSUME SetRetry(w) PROVE SentQuiet
  BY <1>17 DEF SetRetry
<1>18. ASSUME MarkSent(w) PROVE SentQuiet
  BY <1>18 DEF MarkSent
<1>19. ASSUME Compensate(w) PROVE SentQuiet
  BY <1>19 DEF Compensate, Transition
<1>20. ASSUME PanicInQuery(w) PROVE SentQuiet
  BY <1>20 DEF PanicInQuery
<1>21. ASSUME PanicInSend(w) PROVE SentQuiet
  BY <1>21 DEF PanicInSend
<1>22. QED
  BY SentQuietStep, <1>1, <1>2, <1>3, <1>4, <1>5, <1>6, <1>7, <1>8, <1>9, <1>10, <1>11, <1>12, <1>13, <1>14, <1>15, <1>16, <1>17, <1>18, <1>19, <1>20, <1>21 DEF Round

\* No item is ever reported Sent whose message was not delivered, whatever the answers,
\* how late they are applied, and who dies in between.
THEOREM SentMeansDelivered == Spec => []SentIsDelivered
<1>1. Init => SentInv
  BY DEF Init, SentInv, SentIsDelivered, ToldDelivered
<1>2. TypeInv /\ SentInv /\ [Next]_vars => SentInv'
  <2> SUFFICES ASSUME TypeInv, SentInv, [Next]_vars PROVE SentInv'
    OBVIOUS
  <2>1. ASSUME NEW w \in Workers, Round(w) \/ PanicInQuery(w) \/ PanicInSend(w)
        PROVE  SentInv'
    BY <2>1, SentRound
  <2>2. ASSUME NEW c \in Callers, Call(c) PROVE SentInv'
    BY <2>2, SentCall
  <2>3. CASE Tick
    BY <2>3 DEF Tick, SentInv, SentIsDelivered, ToldDelivered, itemVars
  <2>4. CASE UNCHANGED vars
    BY <2>4 DEF vars, SentInv, SentIsDelivered, ToldDelivered, itemVars
  <2>5. QED
    BY <2>1, <2>2, <2>3, <2>4 DEF Next
<1>3. SentInv => SentIsDelivered
  BY DEF SentInv
<1>4. QED
  BY TypeCorrect, <1>1, <1>2, <1>3, PTL DEF Spec
-----------------------------------------------------------------------------
(* Leases, when every round ends before a lease that it takes. *)

\* A round began at some time that has come, and before a lease taken in it ends.
ClockInv ==
  \A w \in Workers : now[w] <= clock /\ (InRound(w) => clock < now[w] + LeaseDuration)

\* The status of an item that a worker acts on, by where the worker is.
Phased(w, i) ==
  /\ pc[w] = "begin" => status[i] = "Leased"
  /\ pc[w] \in {"record", "send", "settle"} => status[i] = "Sending"
  /\ pc[w] = "setRetry" => status[i] = "Retry"

\* Whoever acts on an item holds its lease of this round, and its copy of the retry
\* fields is what they are.
HeldInv ==
  \A w \in Workers, i \in Ids : ActsOn(w, i) =>
    /\ holder[i] = w /\ leaseUntil[i] = now[w] + LeaseDuration
    /\ seen[w][i] = count[i] /\ nextAt[i] <= now[w]
    /\ Phased(w, i)

\* An item nobody has leased has nothing to wait for, and one that is leased waits for
\* the end of the lease at most.
FreshInv ==
  \A i \in Ids :
    /\ status[i] \in {"Absent", "Pending", "Unknown"} =>
         nextAt[i] = 0 /\ leaseUntil[i] = 0 /\ count[i] = 0 /\ attempts[i] = 0
    /\ status[i] = "Leased" => nextAt[i] <= leaseUntil[i]

\* A worker that goes on to lease an item, with the copy it has of it.
AboutToLease(w, i) ==
  \/ InRound(w) /\ i \in todo[w] /\ i \notin unknown[w]
  \/ pc[w] = "lease" /\ cur[w] = i

\* A copy that can still be used for a lease is not stale: whoever has written the
\* item since has taken a lease that ends later than this round began.
CopyInv ==
  \A w \in Workers, i \in Ids : now[w] >= leaseUntil[i] =>
    /\ AboutToLease(w, i) => seen[w][i] = count[i] /\ now[w] >= nextAt[i]
    /\ pc[w] = "reread" /\ cur[w] = i => now[w] >= nextAt[i]

\* Somebody has settled an item as Retry and has yet to count the attempt.
Uncounted(i) == \E w \in Workers : pc[w] = "setRetry" /\ cur[w] = i

\* Every attempt but the one under way is counted.
BudgetInv ==
  /\ \A i \in Ids :
       /\ count[i] <= MaxRetries /\ attempts[i] <= count[i] + 1
       /\ status[i] = "Leased" \/ (status[i] = "Retry" /\ ~Uncounted(i)) => attempts[i] <= count[i]
  /\ \A w \in Workers : pc[w] = "record" => attempts[cur[w]] <= count[cur[w]]

\* The inductive invariant.
LeaseInv == ClockInv /\ HeldInv /\ FreshInv /\ CopyInv /\ BudgetInv

\* Two workers never act on one item: it has one holder.
LEMMA OneActor ==
  ASSUME HeldInv, NEW v \in Workers, NEW w \in Workers, NEW i \in Ids,
         ActsOn(v, i), ActsOn(w, i)
  PROVE  v = w
  BY DEF HeldInv

\* While a worker acts on an item, nobody's round is late enough to lease it.
LEMMA LeaseHeld ==
  ASSUME TypeOK, ClockInv, HeldInv, NEW v \in Workers, NEW w \in Workers, NEW i \in Ids,
         ActsOn(v, i)
  PROVE  ~(now[w] >= leaseUntil[i])
<1>1. leaseUntil[i] = now[v] + LeaseDuration /\ InRound(v)
  BY DEF HeldInv, ActsOn, InRound
<1>2. clock < leaseUntil[i] /\ now[w] <= clock
  BY <1>1 DEF ClockInv
<1>3. clock \in Int /\ now[w] \in Int /\ leaseUntil[i] \in Int
  BY DEF TypeOK
<1>4. QED
  BY <1>2, <1>3

\* A worker's step, when rounds are shorter than leases.  To take a lease the worker's
\* round must have begun after the last one ended, so nobody else acts on the item; the
\* holder's writes are then made under its own lease.
LEMMA LeaseRound ==
  ASSUME Timely, LeaseDuration > 0, TypeInv, LeaseInv, NEW w \in Workers,
         Round(w) \/ PanicInQuery(w) \/ PanicInSend(w)
  PROVE  LeaseInv'
<1> USE OutboxAssumption
    DEF TypeInv, TypeOK, ControlOK, itemVars, roundVars, Goto, NextItem, InRound, ActsOn
<1>1. ASSUME StartRound(w) PROVE LeaseInv'
  <2>1. ClockInv'
    BY <1>1 DEF LeaseInv, ClockInv, StartRound
  <2>2. HeldInv'
    BY <1>1 DEF LeaseInv, HeldInv, Phased, StartRound
  <2>3. FreshInv'
    BY <1>1 DEF LeaseInv, FreshInv, StartRound
  <2>4. CopyInv'
    <3>1. \A i \in Ids : Eligible(i, clock) => clock >= nextAt[i]
      BY DEF LeaseInv, Eligible, FreshInv
    <3>2. QED
      BY <1>1, <3>1 DEF LeaseInv, CopyInv, AboutToLease, StartRound
  <2>5. BudgetInv'
    BY <1>1 DEF LeaseInv, BudgetInv, Uncounted, StartRound
  <2>6. QED
    BY <2>1, <2>2, <2>3, <2>4, <2>5 DEF LeaseInv
<1>2. ASSUME NEW j \in Ids, PickItem(w, j) PROVE LeaseInv'
  <2>1. ClockInv'
    BY <1>2 DEF LeaseInv, ClockInv, PickItem
  <2>2. HeldInv'
    BY <1>2 DEF LeaseInv, HeldInv, Phased, PickItem
  <2>3. FreshInv'
    BY <1>2 DEF LeaseInv, FreshInv, PickItem
  <2>4. CopyInv'
    BY <1>2 DEF LeaseInv, CopyInv, AboutToLease, PickItem
  <2>5. BudgetInv'
    BY <1>2 DEF LeaseInv, BudgetInv, Uncounted, PickItem
  <2>6. QED
    BY <2>1, <2>2, <2>3, <2>4, <2>5 DEF LeaseInv
<1>3. ASSUME EndRound(w) PROVE LeaseInv'
  <2>1. ClockInv'
    BY <1>3 DEF LeaseInv, ClockInv, EndRound
  <2>2. HeldInv'
    BY <1>3 DEF LeaseInv, HeldInv, Phased, EndRound
  <2>3. FreshInv'
    BY <1>3 DEF LeaseInv, FreshInv, EndRound
  <2>4. CopyInv'
    BY <1>3 DEF LeaseInv, CopyInv, AboutToLease, EndRound
  <2>5. BudgetInv'
    BY <1>3 DEF LeaseInv, BudgetInv, Uncounted, EndRound
  <2>6. QED
    BY <2>1, <2>2, <2>3, <2>4, <2>5 DEF LeaseInv
<1>4. ASSUME QueryProvider(w) PROVE LeaseInv'
  <2>1. ClockInv'
    BY <1>4 DEF LeaseInv, ClockInv, QueryProvider
  <2>2. HeldInv'
    BY <1>4 DEF LeaseInv, HeldInv, Phased, QueryProvider
  <2>3. FreshInv'
    BY <1>4 DEF LeaseInv, FreshInv, QueryProvider
  <2>4. CopyInv'
    BY <1>4 DEF LeaseInv, CopyInv, AboutToLease, QueryProvider
  <2>5. BudgetInv'
    BY <1>4 DEF LeaseInv, BudgetInv, Uncounted, QueryProvider
  <2>6. QED
    BY <2>1, <2>2, <2>3, <2>4, <2>5 DEF LeaseInv
<1>5. ASSUME ApplyAnswer(w) PROVE LeaseInv'
  <2>1. ClockInv'
    BY <1>5 DEF LeaseInv, ClockInv, ApplyAnswer, Transition, AfterQuery
  <2>2. HeldInv'
    BY <1>5 DEF LeaseInv, HeldInv, Phased, ApplyAnswer, Transition, AfterQuery
  <2>3. FreshInv'
    BY <1>5 DEF LeaseInv, FreshInv, ApplyAnswer, Transition, AfterQuery
  <2>4. CopyInv'
    BY <1>5 DEF LeaseInv, CopyInv, AboutToLease, FreshInv, ApplyAnswer, Transition, AfterQuery
  <2>5. BudgetInv'
    BY <1>5 DEF LeaseInv, BudgetInv, Uncounted, FreshInv, ApplyAnswer, Transition, AfterQuery
  <2>6. QED
    BY <2>1, <2>2, <2>3, <2>4, <2>5 DEF LeaseInv
<1>6. ASSUME Reread(w) PROVE LeaseInv'
  <2>1. ClockInv'
    BY <1>6 DEF LeaseInv, ClockInv, Reread
  <2>2. HeldInv'
    BY <1>6 DEF LeaseInv, HeldInv, Phased, Reread
  <2>3. FreshInv'
    BY <1>6 DEF LeaseInv, FreshInv, Reread
  <2>4. CopyInv'
    BY <1>6 DEF LeaseInv, CopyInv, AboutToLease, Reread
  <2>5. BudgetInv'
    BY <1>6 DEF LeaseInv, BudgetInv, Uncounted, Reread
  <2>6. QED
    BY <2>1, <2>2, <2>3, <2>4, <2>5 DEF LeaseInv
<1>7. ASSUME StatusMismatch(w) PROVE LeaseInv'
  <2>1. ClockInv'
    BY <1>7 DEF LeaseInv, ClockInv, StatusMismatch
  <2>2. HeldInv'
    BY <1>7 DEF LeaseInv, HeldInv, Phased, StatusMismatch
  <2>3. FreshInv'
    BY <1>7 DEF LeaseInv, FreshInv, StatusMismatch
  <2>4. CopyInv'
    BY <1>7 DEF LeaseInv, CopyInv, AboutToLease, StatusMismatch
  <2>5. BudgetInv'
    BY <1>7 DEF LeaseInv, BudgetInv, Uncounted, StatusMismatch
  <2>6. QED
    BY <2>1, <2>2, <2>3, <2>4, <2>5 DEF LeaseInv
<1>8. ASSUME TakeLease(w) PROVE LeaseInv'
  <2> DEFINE i == cur[w]
  <2>a. i \in Ids /\ now[w] >= leaseUntil[i] /\ status[i] \in {"Pending", "Retry", "Leased"}
    BY <1>8 DEF TakeLease, Leasable
  <2>b. \A v \in Workers : ~ActsOn(v, i)
    BY <2>a, LeaseHeld DEF LeaseInv
  <2>c. seen[w][i] = count[i] /\ now[w] >= nextAt[i]
    BY <1>8, <2>a DEF LeaseInv, CopyInv, AboutToLease, TakeLease
  <2>d. attempts[i] <= count[i]
    BY <2>a, <2>b DEF LeaseInv, BudgetInv, FreshInv, Uncounted
  <2>2. HeldInv'
    <3> SUFFICES ASSUME NEW v \in Workers, NEW j \in Ids, ActsOn(v, j)'
                 PROVE  /\ holder'[j] = v /\ leaseUntil'[j] = now'[v] + LeaseDuration
                        /\ seen'[v][j] = count'[j] /\ nextAt'[j] <= now'[v]
                        /\ Phased(v, j)'
      BY DEF HeldInv
    <3>1. CASE v = w
      <4>1. j = i /\ pc'[w] = "begin"
        BY <1>8, <3>1 DEF TakeLease
      <4>2. QED
        BY <1>8, <3>1, <4>1, <2>a, <2>c DEF TakeLease, Phased
    <3>2. CASE v # w
      <4>1. ActsOn(v, j) /\ j # i
        BY <1>8, <3>2, <2>b DEF TakeLease
      <4>2. QED
        BY <1>8, <3>2, <4>1, <2>a DEF TakeLease, LeaseInv, HeldInv, Phased
    <3>3. QED
      BY <3>1, <3>2
  <2>3. FreshInv'
    BY <1>8, <2>a, <2>c DEF LeaseInv, FreshInv, TakeLease
  <2>5. BudgetInv'
    BY <1>8, <2>a, <2>d DEF LeaseInv, BudgetInv, Uncounted, TakeLease
  <2>1. ClockInv'
    BY <1>8 DEF LeaseInv, ClockInv, TakeLease, Leasable
  <2>4. CopyInv'
    BY <1>8 DEF LeaseInv, CopyInv, AboutToLease, TakeLease, Leasable
  <2>6. QED
    BY <2>1, <2>2, <2>3, <2>4, <2>5 DEF LeaseInv
<1>9. ASSUME LeaseRefused(w) PROVE LeaseInv'
  <2>1. ClockInv'
    BY <1>9 DEF LeaseInv, ClockInv, LeaseRefused
  <2>2. HeldInv'
    BY <1>9 DEF LeaseInv, HeldInv, Phased, LeaseRefused
  <2>3. FreshInv'
    BY <1>9 DEF LeaseInv, FreshInv, LeaseRefused
  <2>4. CopyInv'
    BY <1>9 DEF LeaseInv, CopyInv, AboutToLease, LeaseRefused
  <2>5. BudgetInv'
    BY <1>9 DEF LeaseInv, BudgetInv, Uncounted, LeaseRefused
  <2>6. QED
    BY <2>1, <2>2, <2>3, <2>4, <2>5 DEF LeaseInv
<1>10. ASSUME BeginSend(w) PROVE LeaseInv'
  <2>1. ClockInv'
    BY <1>10 DEF LeaseInv, ClockInv, BeginSend, Transition
  <2>2. HeldInv'
    BY <1>10 DEF LeaseInv, HeldInv, Phased, BeginSend, Transition
  <2>3. FreshInv'
    BY <1>10 DEF LeaseInv, FreshInv, BeginSend, Transition
  <2>4. CopyInv'
    BY <1>10 DEF LeaseInv, CopyInv, AboutToLease, BeginSend, Transition
  <2>5. BudgetInv'
    BY <1>10 DEF LeaseInv, BudgetInv, Uncounted, BeginSend, Transition
  <2>6. QED
    BY <2>1, <2>2, <2>3, <2>4, <2>5 DEF LeaseInv
<1>11. ASSUME RecordAttempt(w) PROVE LeaseInv'
  <2> DEFINE i == cur[w]
  <2>a. i \in Ids /\ ActsOn(w, i) /\ status[i] = "Sending" /\ attempts[i] <= count[i]
    BY <1>11 DEF RecordAttempt, LeaseInv, HeldInv, Phased, BudgetInv
  <2>b. \A v \in Workers : ActsOn(v, i) => v = w
    BY <2>a, OneActor DEF LeaseInv
  <2>3. FreshInv'
    BY <1>11, <2>a DEF LeaseInv, FreshInv, RecordAttempt
  <2>5. BudgetInv'
    <3>1. attempts' = [attempts EXCEPT ![i] = attempts[i] + 1]
      BY <1>11 DEF RecordAttempt
    <3>2. \A j \in Ids : Uncounted(j)' <=> Uncounted(j)
      BY <1>11 DEF RecordAttempt, Uncounted
    <3>3. \A v \in Workers : pc'[v] = "record" => pc[v] = "record" /\ cur[v] # i
      BY <1>11, <2>a, <2>b DEF RecordAttempt
    <3>4. UNCHANGED <<count, status, cur>>
      BY <1>11 DEF RecordAttempt
    <3>5. ASSUME NEW j \in Ids
          PROVE  /\ count'[j] <= MaxRetries /\ attempts'[j] <= count'[j] + 1
                 /\ status'[j] = "Leased" \/ (status'[j] = "Retry" /\ ~Uncounted(j)')
                      => attempts'[j] <= count'[j]
      <4>1. CASE j = i
        BY <4>1, <2>a, <3>1, <3>4 DEF LeaseInv, BudgetInv
      <4>2. CASE j # i
        BY <4>2, <3>1, <3>2, <3>4 DEF LeaseInv, BudgetInv
      <4>3. QED
        BY <4>1, <4>2
    <3>6. ASSUME NEW v \in Workers, pc'[v] = "record" PROVE attempts'[cur'[v]] <= count'[cur'[v]]
      <4>1. pc[v] = "record" /\ cur[v] \in Ids /\ cur[v] # i
        BY <3>3, <3>6
      <4>2. attempts[cur[v]] <= count[cur[v]]
        BY <4>1 DEF LeaseInv, BudgetInv
      <4>3. QED
        BY <3>1, <3>4, <4>1, <4>2
    <3>7. QED
      BY <3>5, <3>6 DEF BudgetInv
  <2>1. ClockInv'
    BY <1>11 DEF LeaseInv, ClockInv, RecordAttempt
  <2>2. HeldInv'
    BY <1>11 DEF LeaseInv, HeldInv, Phased, RecordAttempt
  <2>4. CopyInv'
    BY <1>11 DEF LeaseInv, CopyInv, AboutToLease, RecordAttempt
  <2>6. QED
    BY <2>1, <2>2, <2>3, <2>4, <2>5 DEF LeaseInv
<1>12. ASSUME SendOk(w) PROVE LeaseInv'
  <2>1. ClockInv'
    BY <1>12 DEF LeaseInv, ClockInv, SendOk
  <2>2. HeldInv'
    BY <1>12 DEF LeaseInv, HeldInv, Phased, SendOk
  <2>3. FreshInv'
    BY <1>12 DEF LeaseInv, FreshInv, SendOk
  <2>4. CopyInv'
    BY <1>12 DEF LeaseInv, CopyInv, AboutToLease, SendOk
  <2>5. BudgetInv'
    BY <1>12 DEF LeaseInv, BudgetInv, Uncounted, SendOk
  <2>6. QED
    BY <2>1, <2>2, <2>3, <2>4, <2>5 DEF LeaseInv
<1>13. ASSUME SendErr(w) PROVE LeaseInv'
  <2>1. ClockInv'
    BY <1>13 DEF LeaseInv, ClockInv, SendErr
  <2>2. HeldInv'
    BY <1>13 DEF LeaseInv, HeldInv, Phased, SendErr
  <2>3. FreshInv'
    BY <1>13 DEF LeaseInv, FreshInv, SendErr
  <2>4. CopyInv'
    BY <1>13 DEF LeaseInv, CopyInv, AboutToLease, SendErr
  <2>5. BudgetInv'
    BY <1>13 DEF LeaseInv, BudgetInv, Uncounted, SendErr
  <2>6. QED
    BY <2>1, <2>2, <2>3, <2>4, <2>5 DEF LeaseInv
<1>14. ASSUME SettleSent(w) PROVE LeaseInv'
  <2>1. ClockInv'
    BY <1>14 DEF LeaseInv, ClockInv, SettleSent, Settle, Transition
  <2>2. HeldInv'
    BY <1>14 DEF LeaseInv, HeldInv, Phased, SettleSent, Settle, Transition
  <2>3. FreshInv'
    BY <1>14 DEF LeaseInv, FreshInv, SettleSent, Settle, Transition
  <2>4. CopyInv'
    BY <1>14 DEF LeaseInv, CopyInv, AboutToLease, SettleSent, Settle, Transition
  <2>5. BudgetInv'
    BY <1>14 DEF LeaseInv, BudgetInv, Uncounted, SettleSent, Settle, Transition
  <2>6. QED
    BY <2>1, <2>2, <2>3, <2>4, <2>5 DEF LeaseInv
<1>15. ASSUME SettleRetry(w) PROVE LeaseInv'
  <2>1. ClockInv'
    BY <1>15 DEF LeaseInv, ClockInv, SettleRetry, Settle, Transition, RetriesLeft
  <2>2. HeldInv'
    BY <1>15 DEF LeaseInv, HeldInv, Phased, SettleRetry, Settle, Transition, RetriesLeft
  <2>3. FreshInv'
    BY <1>15 DEF LeaseInv, FreshInv, SettleRetry, Settle, Transition, RetriesLeft
  <2>4. CopyInv'
    BY <1>15 DEF LeaseInv, CopyInv, AboutToLease, SettleRetry, Settle, Transition, RetriesLeft
  <2>5. BudgetInv'
    BY <1>15 DEF LeaseInv, BudgetInv, Uncounted, SettleRetry, Settle, Transition, RetriesLeft
  <2>6. QED
    BY <2>1, <2>2, <2>3, <2>4, <2>5 DEF LeaseInv
<1>16. ASSUME SettleFailed(w) PROVE LeaseInv'
  <2>1. ClockInv'
    BY <1>16 DEF LeaseInv, ClockInv, SettleFailed, Settle, Transition
  <2>2. HeldInv'
    BY <1>16 DEF LeaseInv, HeldInv, Phased, SettleFailed, Settle, Transition
  <2>3. FreshInv'
    BY <1>16 DEF LeaseInv, FreshInv, SettleFailed, Settle, Transition
  <2>4. CopyInv'
    BY <1>16 DEF LeaseInv, CopyInv, AboutToLease, SettleFailed, Settle, Transition
  <2>5. BudgetInv'
    BY <1>16 DEF LeaseInv, BudgetInv, Uncounted, SettleFailed, Settle, Transition
  <2>6. QED
    BY <2>1, <2>2, <2>3, <2>4, <2>5 DEF LeaseInv
<1>17. ASSUME SetRetry(w) PROVE LeaseInv'
  <2> DEFINE i == cur[w]
  <2>a. i \in Ids /\ ActsOn(w, i) /\ status[i] = "Retry" /\ seen[w][i] = count[i]
    BY <1>17 DEF SetRetry, LeaseInv, HeldInv, Phased
  <2>aa. seen[w][i] \in 0..(MaxRetries - 1)
    BY <1>17, <2>a DEF SetRetry
  <2>b. \A v \in Workers : ActsOn(v, i) => v = w
    BY <2>a, OneActor DEF LeaseInv
  <2>c. \A v \in Workers : ~(now[v] >= leaseUntil[i])
    BY <2>a, LeaseHeld DEF LeaseInv
  <2>d. PICK d \in Nat : nextAt' = [nextAt EXCEPT ![i] = d]
    <3>1. now[w] \in Nat /\ Delay[seen[w][i]] \in Nat
      BY <2>aa
    <3>2. now[w] + Delay[seen[w][i]] \in Nat
      BY <3>1
    <3>3. nextAt' = [nextAt EXCEPT ![i] = now[w] + Delay[seen[w][i]]]
      BY <1>17 DEF SetRetry
    <3>4. QED
      BY <3>2, <3>3
  <2>e. count' = [count EXCEPT ![i] = count[i] + 1] /\ count[i] < MaxRetries
    BY <1>17, <2>a, <2>aa DEF SetRetry
  <2>f. UNCHANGED <<status, leaseUntil, holder, attempts, now, todo, unknown, seen, clock>>
    BY <1>17 DEF SetRetry
  <2>g. /\ \A v \in Workers : pc'[v] = IF v = w THEN "scan" ELSE pc[v]
        /\ \A v \in Workers : cur'[v] = IF v = w THEN NoItem ELSE cur[v]
    BY <1>17 DEF SetRetry
  <2>2. HeldInv'
    <3> SUFFICES ASSUME NEW v \in Workers, NEW j \in Ids, ActsOn(v, j)'
                 PROVE  /\ holder'[j] = v /\ leaseUntil'[j] = now'[v] + LeaseDuration
                        /\ seen'[v][j] = count'[j] /\ nextAt'[j] <= now'[v]
                        /\ Phased(v, j)'
      BY DEF HeldInv
    <3>1. v # w /\ ActsOn(v, j) /\ j # i
      BY <2>b, <2>g
    <3>2. count'[j] = count[j] /\ nextAt'[j] = nextAt[j] /\ pc'[v] = pc[v]
      BY <3>1, <2>d, <2>e, <2>g
    <3>3. QED
      BY <3>1, <3>2, <2>f DEF LeaseInv, HeldInv, Phased
  <2>3. FreshInv'
    <3>1. \A j \in Ids : j # i => count'[j] = count[j] /\ nextAt'[j] = nextAt[j]
      BY <2>d, <2>e
    <3>2. QED
    BY <2>a, <2>f, <3>1 DEF LeaseInv, FreshInv
  <2>4. CopyInv'
    <3> SUFFICES ASSUME NEW v \in Workers, NEW j \in Ids, now'[v] >= leaseUntil'[j]
                 PROVE  /\ AboutToLease(v, j)' => seen'[v][j] = count'[j] /\ now'[v] >= nextAt'[j]
                        /\ pc'[v] = "reread" /\ cur'[v] = j => now'[v] >= nextAt'[j]
      BY DEF CopyInv
    <3>1. j # i
      BY <2>c, <2>f
    <3>2. count'[j] = count[j] /\ nextAt'[j] = nextAt[j]
      BY <3>1, <2>d, <2>e
    <3>3. (AboutToLease(v, j)' => AboutToLease(v, j)) /\ (pc'[v] = "reread" /\ cur'[v] = j => pc[v] = "reread" /\ cur[v] = j)
      BY <1>17, <2>f, <2>g DEF AboutToLease, SetRetry
    <3>4. QED
      BY <3>2, <3>3, <2>f DEF LeaseInv, CopyInv
  <2>5. BudgetInv'
    <3>1. count'[i] = count[i] + 1 /\ \A j \in Ids : j # i => count'[j] = count[j]
      BY <2>a, <2>e
    <3>2. \A j \in Ids : j # i => (Uncounted(j)' <=> Uncounted(j))
      BY <2>g, <2>a DEF Uncounted
    <3>3. \A v \in Workers : pc'[v] = "record" => pc[v] = "record" /\ cur'[v] = cur[v] /\ cur[v] # i
      BY <2>b, <2>g, <2>a
    <3>4. attempts[i] <= count[i] + 1
      BY <2>a DEF LeaseInv, BudgetInv
    <3>5. count[i] \in Nat /\ count'[i] <= MaxRetries /\ attempts[i] <= count'[i]
      BY <2>a, <2>e, <3>1, <3>4
    <3>6. ASSUME NEW j \in Ids
          PROVE  /\ count'[j] <= MaxRetries /\ attempts'[j] <= count'[j] + 1
                 /\ status'[j] = "Leased" \/ (status'[j] = "Retry" /\ ~Uncounted(j)')
                      => attempts'[j] <= count'[j]
      <4>1. CASE j = i
        BY <4>1, <2>f, <3>1, <3>5
      <4>2. CASE j # i
        BY <4>2, <2>f, <3>1, <3>2 DEF LeaseInv, BudgetInv
      <4>3. QED
        BY <4>1, <4>2
    <3>7. ASSUME NEW v \in Workers, pc'[v] = "record" PROVE attempts'[cur'[v]] <= count'[cur'[v]]
      <4>1. pc[v] = "record" /\ cur'[v] = cur[v] /\ cur[v] \in Ids /\ cur[v] # i
        BY <3>3, <3>7
      <4>2. attempts[cur[v]] <= count[cur[v]]
        BY <4>1 DEF LeaseInv, BudgetInv
      <4>3. QED
        BY <2>f, <3>1, <4>1, <4>2
    <3>8. QED
      BY <3>6, <3>7 DEF BudgetInv
  <2>1. ClockInv'
    BY <1>17 DEF LeaseInv, ClockInv, SetRetry
  <2>6. QED
    BY <2>1, <2>2, <2>3, <2>4, <2>5 DEF LeaseInv
<1>18. ASSUME MarkSent(w) PROVE LeaseInv'
  <2>1. ClockInv'
    BY <1>18 DEF LeaseInv, ClockInv, MarkSent
  <2>2. HeldInv'
    BY <1>18 DEF LeaseInv, HeldInv, Phased, MarkSent
  <2>3. FreshInv'
    BY <1>18 DEF LeaseInv, FreshInv, MarkSent
  <2>4. CopyInv'
    BY <1>18 DEF LeaseInv, CopyInv, AboutToLease, MarkSent
  <2>5. BudgetInv'
    BY <1>18 DEF LeaseInv, BudgetInv, Uncounted, MarkSent
  <2>6. QED
    BY <2>1, <2>2, <2>3, <2>4, <2>5 DEF LeaseInv
<1>19. ASSUME Compensate(w) PROVE LeaseInv'
  <2>a. \/ UNCHANGED status
        \/ status[cur[w]] = "Failed" /\ status' = [status EXCEPT ![cur[w]] = "Compensated"]
    BY <1>19 DEF Compensate, Transition
  <2>b. cur[w] \in Ids
    BY <1>19 DEF Compensate
  <2>c. UNCHANGED <<leaseUntil, holder, count, nextAt, attempts, now, todo, unknown, seen, clock>>
    BY <1>19 DEF Compensate
  <2>g. /\ \A v \in Workers : pc'[v] = IF v = w THEN "scan" ELSE pc[v]
        /\ \A v \in Workers : cur'[v] = IF v = w THEN NoItem ELSE cur[v]
    BY <1>19 DEF Compensate
  <2>h. \A j \in Ids : status'[j] # status[j] => status[j] = "Failed" /\ status'[j] = "Compensated"
    BY <2>a, <2>b
  <2>2. HeldInv'
    <3> SUFFICES ASSUME NEW v \in Workers, NEW j \in Ids, ActsOn(v, j)'
                 PROVE  /\ holder'[j] = v /\ leaseUntil'[j] = now'[v] + LeaseDuration
                        /\ seen'[v][j] = count'[j] /\ nextAt'[j] <= now'[v]
                        /\ Phased(v, j)'
      BY DEF HeldInv
    <3>1. v # w /\ ActsOn(v, j)
      BY <2>g
    <3>2. QED
      BY <3>1, <2>c, <2>g, <2>h DEF LeaseInv, HeldInv, Phased
  <2>5. BudgetInv'
    <3>1. \A j \in Ids : Uncounted(j) => Uncounted(j)'
      BY <1>19, <2>g DEF Uncounted, Compensate
    <3>3. \A v \in Workers : pc'[v] = "record" => pc[v] = "record" /\ cur'[v] = cur[v]
      BY <2>g
    <3>4. QED
      BY <2>c, <2>h, <3>1, <3>3 DEF LeaseInv, BudgetInv
  <2>1. ClockInv'
    BY <1>19 DEF LeaseInv, ClockInv, Compensate, Transition
  <2>3. FreshInv'
    BY <1>19 DEF LeaseInv, FreshInv, Compensate, Transition
  <2>4. CopyInv'
    BY <1>19 DEF LeaseInv, CopyInv, AboutToLease, Compensate, Transition
  <2>6. QED
    BY <2>1, <2>2, <2>3, <2>4, <2>5 DEF LeaseInv
<1>20. ASSUME PanicInQuery(w) PROVE LeaseInv'
  <2>1. ClockInv'
    BY <1>20 DEF LeaseInv, ClockInv, PanicInQuery
  <2>2. HeldInv'
    BY <1>20 DEF LeaseInv, HeldInv, Phased, PanicInQuery
  <2>3. FreshInv'
    BY <1>20 DEF LeaseInv, FreshInv, PanicInQuery
  <2>4. CopyInv'
    BY <1>20 DEF LeaseInv, CopyInv, AboutToLease, PanicInQuery
  <2>5. BudgetInv'
    BY <1>20 DEF LeaseInv, BudgetInv, Uncounted, PanicInQuery
  <2>6. QED
    BY <2>1, <2>2, <2>3, <2>4, <2>5 DEF LeaseInv
<1>21. ASSUME PanicInSend(w) PROVE LeaseInv'
  <2>1. ClockInv'
    BY <1>21 DEF LeaseInv, ClockInv, PanicInSend
  <2>2. HeldInv'
    BY <1>21 DEF LeaseInv, HeldInv, Phased, PanicInSend
  <2>3. FreshInv'
    BY <1>21 DEF LeaseInv, FreshInv, PanicInSend
  <2>4. CopyInv'
    BY <1>21 DEF LeaseInv, CopyInv, AboutToLease, PanicInSend
  <2>5. BudgetInv'
    BY <1>21 DEF LeaseInv, BudgetInv, Uncounted, PanicInSend
  <2>6. QED
    BY <2>1, <2>2, <2>3, <2>4, <2>5 DEF LeaseInv
<1>22. QED
  BY <1>1, <1>2, <1>3, <1>4, <1>5, <1>6, <1>7, <1>8, <1>9, <1>10, <1>11, <1>12, <1>13, <1>14, <1>15, <1>16, <1>17, <1>18, <1>19, <1>20, <1>21 DEF Round

\* A caller's step: it writes items that nobody acts on and nobody has leased.
LEMMA LeaseCall ==
  ASSUME Timely, TypeInv, LeaseInv, NEW c \in Callers, Call(c)
  PROVE  LeaseInv'
<1> USE OutboxAssumption
    DEF TypeInv, TypeOK, ControlOK, itemVars, roundVars, callerVars
<1>1. UNCHANGED <<leaseUntil, holder, count, nextAt, attempts, pc, roundVars, cur, clock>>
  BY DEF Call, EnqueueCheck, ResolveSent, ResolveUnsent, EnqueueInsert,
         EnqueueDuplicate, CallerMarkSent
<1>2. \A i \in Ids : status'[i] # status[i] =>
        /\ status[i] \in {"Absent", "Unknown"}
        /\ status'[i] \in {"Pending", "Unknown", "Retry", "Sent", "Failed"}
  <2>1. ASSUME NEW i \in Ids, ResolveUnsent(c, i) PROVE <1>2!:
    BY <2>1 DEF ResolveUnsent, QueryAnswers, AfterQuery
  <2>2. ASSUME NEW i \in Ids, ResolveSent(c, i) PROVE <1>2!:
    BY <2>2 DEF ResolveSent, AfterQuery
  <2>3. CASE EnqueueInsert(c)
    BY <2>3 DEF EnqueueInsert
  <2>4. CASE UNCHANGED status
    BY <2>4
  <2>5. QED
    BY <2>1, <2>2, <2>3, <2>4 DEF Call, EnqueueCheck, EnqueueDuplicate, CallerMarkSent
<1>3. ClockInv'
  BY <1>1 DEF LeaseInv, ClockInv, InRound
<1>4. HeldInv'
  <2> SUFFICES ASSUME NEW v \in Workers, NEW j \in Ids, ActsOn(v, j)'
               PROVE  /\ holder'[j] = v /\ leaseUntil'[j] = now'[v] + LeaseDuration
                      /\ seen'[v][j] = count'[j] /\ nextAt'[j] <= now'[v]
                      /\ Phased(v, j)'
    BY DEF HeldInv
  <2>1. ActsOn(v, j)
    BY <1>1 DEF ActsOn
  <2>2. status[j] \in {"Leased", "Sending", "Retry"}
    BY <2>1 DEF LeaseInv, HeldInv, Phased, ActsOn
  <2>3. status'[j] = status[j]
    BY <1>2, <2>2
  <2>4. QED
    BY <1>1, <2>1, <2>3 DEF LeaseInv, HeldInv, Phased
<1>5. FreshInv'
  BY <1>1, <1>2 DEF LeaseInv, FreshInv
<1>6. CopyInv'
  BY <1>1 DEF LeaseInv, CopyInv, AboutToLease, InRound
<1>7. BudgetInv'
  <2>1. ASSUME NEW j \in Ids
        PROVE  /\ count'[j] <= MaxRetries /\ attempts'[j] <= count'[j] + 1
               /\ status'[j] = "Leased" \/ (status'[j] = "Retry" /\ ~Uncounted(j)')
                    => attempts'[j] <= count'[j]
    <3>1. Uncounted(j)' <=> Uncounted(j)
      BY <1>1 DEF Uncounted
    <3>2. CASE status'[j] = status[j]
      BY <1>1, <3>1, <3>2 DEF LeaseInv, BudgetInv
    <3>3. CASE status'[j] # status[j]
      <4>1. status[j] \in {"Absent", "Pending", "Unknown"}
        BY <1>2, <3>3
      <4>2. count[j] = 0 /\ attempts[j] = 0
        BY <4>1 DEF LeaseInv, FreshInv
      <4>3. count'[j] = 0 /\ attempts'[j] = 0
        BY <1>1, <4>2
      <4>4. QED
        BY <4>3
    <3>4. QED
      BY <3>2, <3>3
  <2>2. \A v \in Workers : pc'[v] = "record" => attempts'[cur'[v]] <= count'[cur'[v]]
    BY <1>1 DEF LeaseInv, BudgetInv
  <2>3. QED
    BY <2>1, <2>2 DEF BudgetInv
<1>8. QED
  BY <1>3, <1>4, <1>5, <1>6, <1>7 DEF LeaseInv

\* Every reachable state of an outbox whose rounds are shorter than its leases.
LEMMA LeasesHold ==
  ASSUME Timely, LeaseDuration > 0
  PROVE  Spec => []LeaseInv
<1>1. Init => LeaseInv
  BY OutboxAssumption
  DEF Init, LeaseInv, ClockInv, HeldInv, FreshInv, CopyInv, BudgetInv, InRound, ActsOn,
      AboutToLease
<1>2. TypeInv /\ LeaseInv /\ [Next]_vars => LeaseInv'
  <2> SUFFICES ASSUME TypeInv, LeaseInv, [Next]_vars PROVE LeaseInv'
    OBVIOUS
  <2>1. ASSUME NEW w \in Workers, Round(w) \/ PanicInQuery(w) \/ PanicInSend(w)
        PROVE  LeaseInv'
    BY <2>1, LeaseRound
  <2>2. ASSUME NEW c \in Callers, Call(c) PROVE LeaseInv'
    BY <2>2, LeaseCall
  <2>3. CASE Tick
    <3>1. ClockInv'
      BY <2>3, OutboxAssumption DEF Tick, LeaseInv, ClockInv, InRound, TypeInv, TypeOK, roundVars
    <3>2. HeldInv' /\ FreshInv' /\ CopyInv' /\ BudgetInv'
      BY <2>3 DEF Tick, LeaseInv, HeldInv, FreshInv, CopyInv, BudgetInv, itemVars, roundVars,
                  ActsOn, Phased, AboutToLease, InRound, Uncounted
    <3>3. QED
      BY <3>1, <3>2 DEF LeaseInv
  <2>4. CASE UNCHANGED vars
    BY <2>4 DEF vars, LeaseInv, ClockInv, HeldInv, FreshInv, CopyInv, BudgetInv, itemVars,
                roundVars, ActsOn, Phased, AboutToLease, InRound, Uncounted
  <2>5. QED
    BY <2>1, <2>2, <2>3, <2>4 DEF Next
<1>3. QED
  BY TypeCorrect, <1>1, <1>2, PTL DEF Spec

\* A worker acts on an item only under its own lease, if rounds are shorter than leases.
THEOREM LeaseHolderActs ==
  ASSUME Timely, LeaseDuration > 0
  PROVE  Spec => []HolderActs
<1>1. LeaseInv => HolderActs
  BY DEF LeaseInv, HeldInv, HolderActs
<1>2. QED
  BY LeasesHold, <1>1, PTL

\* The retry fields bound the sends of an item in number and in time, although the copy
\* they are computed from is as old as the round.
THEOREM RetriesAreBounded ==
  ASSUME Timely, LeaseDuration > 0
  PROVE  Spec => []RetriesBounded
<1>1. TypeInv /\ LeaseInv => RetriesBounded
  <2> SUFFICES ASSUME TypeInv, LeaseInv PROVE RetriesBounded
    OBVIOUS
  <2>1. RetryBudget
    BY OutboxAssumption DEF TypeInv, TypeOK, LeaseInv, BudgetInv, RetryBudget
  <2>2. ASSUME NEW w \in Workers, pc[w] = "send" PROVE clock >= nextAt[cur[w]]
    <3>1. cur[w] \in Ids /\ ActsOn(w, cur[w])
      BY <2>2 DEF TypeInv, ControlOK, ActsOn
    <3>2. nextAt[cur[w]] <= now[w] /\ now[w] <= clock
      BY <3>1 DEF LeaseInv, HeldInv, ClockInv
    <3>3. QED
      BY <3>1, <3>2 DEF TypeInv, TypeOK
  <2>3. QED
    BY <2>1, <2>2 DEF RetriesBounded, BackoffRespected
<1>2. QED
  BY TypeCorrect, LeasesHold, <1>1, PTL
=============================================================================
