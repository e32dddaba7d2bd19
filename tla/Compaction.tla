------------------------------ MODULE Compaction ------------------------------
(***************************************************************************)
(* A session's messages and their compaction (SessionCompactor in          *)
(* crates/seaki-agent/src/session.rs) with the record of it in the ledger  *)
(* (crates/seaki-agent/src/wal.rs).                                        *)
(***************************************************************************)
EXTENDS Naturals, Sequences

CONSTANTS
  MaxBefore,    \* max_messages_before_compact
  MaxMessages,  \* bound on the messages of the session
  MaxLogged,    \* bound on the compactions in the ledger
  None

\* What the proofs in AssistantProofs need.
CompactionAssumption == MaxBefore \in Nat

VARIABLES
  messages,     \* Session.messages: [seq, kind]
  said,         \* history: the kinds of all messages so far
  unlogged,     \* a summary that is not in the ledger yet, or None
  logged        \* session.compacted events: how many messages each removed

sessionVars == <<messages, said, unlogged, logged>>

Kinds == {"talk", "decision"}

CompactionInit == messages = <<>> /\ said = <<>> /\ unlogged = None /\ logged = <<>>

\* Whoever keeps the session numbers its messages.
Say(kind) ==
  /\ Len(said) < MaxMessages
  /\ said' = Append(said, kind)
  /\ messages' = Append(messages, [seq |-> Len(said) + 1, kind |-> kind])
  /\ UNCHANGED <<unlogged, logged>>

\* Mutant: of the decisions, only the recent ones are retained.
MustRetainRecent(i) == i > Len(messages) - MaxBefore \div 2

\* compact, steps 2 and 3: decisions, and the most recent messages.
MustRetain(i) ==
  messages[i].kind = "decision" \/ i > Len(messages) - MaxBefore \div 2

\* What of the messages is kept, in their order.
Retained ==
  LET Upto[k \in 0 .. Len(messages)] ==
        IF k = 0 THEN <<>>
        ELSE IF MustRetain(k) THEN Append(Upto[k - 1], messages[k])
        ELSE Upto[k - 1]
  IN Upto[Len(messages)]

\* The rest becomes a System message at the front.  Its number is one more than the
\* largest of a vector that was drained before: one.  Its text (500 characters of what
\* is removed) is left out.
Compact ==
  /\ Len(messages) > MaxBefore /\ unlogged = None /\ Len(logged) < MaxLogged
  /\ messages' = <<[seq |-> 1, kind |-> "summary"]>> \o Retained
  /\ unlogged' = Len(messages) - Len(Retained)
  /\ UNCHANGED <<said, logged>>

\* write_compaction_to_wal, which may fail: the messages are gone all the same.
WriteCompactionToWal ==
  /\ unlogged # None /\ unlogged' = None
  /\ logged' \in {logged, Append(logged, unlogged)}
  /\ UNCHANGED <<messages, said>>

CompactionNext == (\E kind \in Kinds : Say(kind)) \/ Compact \/ WriteCompactionToWal

CompactionSpec == CompactionInit /\ [][CompactionNext]_sessionVars

------------------------------------------------------------------------------
(* What is asked of it *)

\* However often a session is compacted, its decisions stay in it word for word and in
\* their order, and so do its most recent messages.
DecisionsKept ==
  LET Own == {i \in DOMAIN messages : messages[i].kind # "summary"}
  IN /\ \A i, j \in Own : i < j => messages[i].seq < messages[j].seq
     /\ \A n \in DOMAIN said :
          (said[n] = "decision" \/ n > Len(said) - MaxBefore \div 2) =>
            \E i \in Own : messages[i] = [seq |-> n, kind |-> said[n]]

\* Every message of a session has a number of its own ("prepend System summary message
\* with unique seq", crates/seaki-agent/src/session.rs:273).
SeqUnique == \A i, j \in DOMAIN messages : i # j => messages[i].seq # messages[j].seq

=============================================================================
