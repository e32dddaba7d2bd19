---------------------------- MODULE SessionSearch ----------------------------
(***************************************************************************)
(* The index of redacted sessions (crates/seaki-memory/src/                *)
(* session_search.rs): manifest entries by session id, and the documents   *)
(* that the candidate index holds for them in a scope of their own.        *)
(***************************************************************************)
EXTENDS Naturals

CONSTANTS
  Scopes,     \* a workspace with an account
  Sessions,   \* session ids
  Ttl,        \* how long a redacted session is kept
  Grace,      \* how long an expired one is kept
  MaxTime,    \* bound on the clock
  None

Entry ==
  [scope : Scopes, status : {"active", "expired"}, due : Nat, expired : Nat \cup {None}]

\* What the theorem in KnowledgeProofs needs.
SessionAssumption == Ttl \in Nat /\ Grace \in Nat /\ None \notin Entry

VARIABLES
  entries,     \* session -> its manifest entry, or None
  found,       \* scope -> the sessions its index holds
  now

vars == <<entries, found, now>>

Init ==
  /\ entries = [x \in Sessions |-> None]
  /\ found = [s \in Scopes |-> {}]
  /\ now = 0

------------------------------------------------------------------------------

\* rebuild_scope
Rebuilt(scope, E) ==
  {x \in Sessions : E[x] # None /\ E[x].scope = scope /\ E[x].status = "active"}

\* index_redacted_session: under the session's id, whatever scope it had before.
RedactSession(x, scope) ==
  /\ entries' = [entries EXCEPT ![x] =
       [scope |-> scope, status |-> "active", due |-> now + Ttl, expired |-> None]]
  /\ found' = [found EXCEPT ![scope] = Rebuilt(scope, entries')]
  /\ UNCHANGED now

Due(x) == entries[x] # None /\ entries[x].status = "active" /\ now >= entries[x].due

\* The entry after both passes of cleanup_expired_sessions.
Aged(x) ==
  LET e == entries[x]
      marked == IF Due(x) THEN [e EXCEPT !.status = "expired", !.expired = now] ELSE e
  IN IF marked # None /\ marked.status = "expired" /\ now >= marked.expired + Grace
       THEN None ELSE marked

\* The sessions that are marked or deleted.
Changed == {x \in Sessions : entries[x] # Aged(x)}

\* Mutant: only the scopes of deleted entries are rebuilt.
TouchedByDeletion == {entries[x].scope : x \in {y \in Changed : Aged(y) = None}}

\* scopes_to_rebuild
Touched == {entries[x].scope : x \in Changed}

CleanupSessions ==
  /\ Changed # {}
  /\ entries' = [x \in Sessions |-> Aged(x)]
  /\ found' = [s \in Scopes |-> IF s \in Touched THEN Rebuilt(s, entries') ELSE found[s]]
  /\ UNCHANGED now

Tick == now < MaxTime /\ now' = now + 1 /\ UNCHANGED <<entries, found>>

Next ==
  \/ \E x \in Sessions, s \in Scopes : RedactSession(x, s)
  \/ CleanupSessions
  \/ Tick

Spec == Init /\ [][Next]_vars

------------------------------------------------------------------------------
(* What is asked of it *)

\* A session that was cleaned up cannot be found any more in the scope it was last
\* redacted for, and one that was not can: the two stores agree after any sequence
\* of redactions, of the same session too, and cleanups.
SessionsAgree ==
  \A x \in Sessions : entries[x] # None =>
    (x \in found[entries[x].scope] <=> entries[x].status = "active")

\* Whatever is found has an entry ("removed from the index after its physical
\* deletion", crates/seaki-memory/src/session_search.rs:192).
FoundIsKept == \A s \in Scopes : \A x \in found[s] : entries[x] # None

=============================================================================
