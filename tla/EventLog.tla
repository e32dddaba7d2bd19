------------------------------ MODULE EventLog ------------------------------
(***************************************************************************)
(* What the ledger promises of its event table: events are only ever       *)
(* appended, and no idempotency key is recorded twice.  Ledger.tla, with   *)
(* its connections, transactions, crashes and restarts, implements this.   *)
(***************************************************************************)
EXTENDS Sequences, Naturals

CONSTANT Events  \* records with a field key

VARIABLE entries

Recorded(k) == \E n \in DOMAIN entries : entries[n].key = k

Init == entries = <<>>

Record(e) ==
  /\ ~Recorded(e.key)
  /\ entries' = Append(entries, e)

Next ==
  /\ entries' # <<>>
  /\ LET e == entries'[Len(entries')] IN e \in Events /\ Record(e)

Spec == Init /\ [][Next]_entries
=============================================================================
