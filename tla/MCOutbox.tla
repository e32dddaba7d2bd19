------------------------------ MODULE MCOutbox ------------------------------
(* Small instances of Outbox for TLC. *)
EXTENDS Outbox, TLC

CONSTANTS i1, i2, k1, k2, w1, w2, c1, BaseDelay, MaxDelay

MCIds == {i1, i2}
MCOneId == {i1}
MCKeys == {k1, k2}
MCWorkers == {w1, w2}
MCCallers == {c1}

MCOneKey == i1 :> k1
MCSameKey == i1 :> k1 @@ i2 :> k1

\* RetryBackoff: base_delay doubled per attempt, at most max_delay.
MCDelay == [n \in 0..(MaxRetries - 1) |->
              LET d == BaseDelay * 2 ^ n IN IF d <= MaxDelay THEN d ELSE MaxDelay]

MCEntry == {"Pending", "Unknown"}
MCPending == {"Pending"}
=============================================================================
