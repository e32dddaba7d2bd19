------------------------------ MODULE MCLedger ------------------------------
(* Small instances of Ledger for TLC. *)
EXTENDS Ledger, TLC

\* Nothing is asked of the ledger's progress: keys, ledgers, workspaces and the
\* sessions are interchangeable.
Symmetry ==
  Permutations(Keys) \cup Permutations(Conns) \cup Permutations(Workspaces)
=============================================================================
