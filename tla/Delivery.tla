------------------------------ MODULE Delivery ------------------------------
(***************************************************************************)
(* What the outbox promises about one item, without workers, leases,       *)
(* copies or clocks: an item is sent by one party at a time, is confirmed  *)
(* at most once, and once settled it never goes back into the queue.       *)
(* Outbox.tla is shown to implement this module.                           *)
(***************************************************************************)
EXTENDS Naturals

CONSTANTS Ids, Compensable

VARIABLES
  phase,     \* phase[i]: where item i is in its life
  confirmed  \* confirmed[i]: how often the provider confirmed a send of i

Phases == {"absent", "queued", "sending", "sent", "failed", "compensated"}

Init ==
  /\ phase     = [i \in Ids |-> "absent"]
  /\ confirmed = [i \in Ids |-> 0]

Move(i, from, to) ==
  /\ phase[i] = from
  /\ phase' = [phase EXCEPT ![i] = to]

Submit(i) == Move(i, "absent", "queued") /\ UNCHANGED confirmed

\* Somebody takes the item out of the queue and is alone with it.
Begin(i) == Move(i, "queued", "sending") /\ UNCHANGED confirmed

\* The provider confirms the send: at most once in the item's life.
Confirm(i) ==
  /\ phase[i] = "sending"
  /\ confirmed[i] = 0
  /\ confirmed' = [confirmed EXCEPT ![i] = 1]
  /\ UNCHANGED phase

\* A confirmed send is settled as sent, any other goes back or fails.
Settle(i) ==
  /\ \/ confirmed[i] = 1 /\ Move(i, "sending", "sent")
     \/ confirmed[i] = 0 /\ Move(i, "sending", "queued")
     \/ confirmed[i] = 0 /\ Move(i, "sending", "failed")
  /\ UNCHANGED confirmed

\* The fate of an earlier, unobserved send becomes known.
Resolve(i) ==
  /\ Move(i, "queued", "sent") \/ Move(i, "queued", "failed")
  /\ UNCHANGED confirmed

Compensate(i) ==
  /\ i \in Compensable
  /\ Move(i, "failed", "compensated")
  /\ UNCHANGED confirmed

Next ==
  \E i \in Ids :
    Submit(i) \/ Begin(i) \/ Confirm(i) \/ Settle(i) \/ Resolve(i) \/ Compensate(i)

Spec == Init /\ [][Next]_<<phase, confirmed>>
=============================================================================
