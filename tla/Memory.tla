-------------------------------- MODULE Memory --------------------------------
(***************************************************************************)
(* The memory of an agent (crates/seaki-memory): the store of memory items *)
(* with a capacity (memory_store.rs), the checks before a proposal         *)
(* (propose_pipeline.rs), and sessions that read a frozen snapshot of the  *)
(* store and keep what they write until they end (session_memory.rs).      *)
(***************************************************************************)
EXTENDS Naturals, Sequences, FiniteSets

CONSTANTS
  Items,     \* what may be proposed: [id, status, content, scope, trust, cited, wording, at, due]
  Sessions,
  Scopes,
  Capacity,  \* capacity_limit
  MinTrust,  \* min_trust_level of every session, 0 .. 3
  MaxTime,   \* bound on the clock
  MaxWrites, \* bound on what one session writes
  None

\* What the proofs in KnowledgeProofs need.
MemoryAssumption == Capacity \in Nat

VARIABLES
  stored,    \* the items in the store
  status,    \* id of a stored item -> MemoryStatus
  snapshot,  \* session -> the items frozen for it, or None
  writes,    \* session -> what it wrote, or None
  audit,     \* what the propose pipeline let through
  now,
  path,      \* history: id of a stored item -> what it was since it was put there
  evicted,   \* history: what the last step evicted, with the statuses of what it kept
  lost       \* history: what the last step took from a session and the store never took

memoryVars == <<stored, status, snapshot, writes, audit, now, path, evicted, lost>>

\* MemoryStatus::can_transition_to
After(from) ==
  IF from = "Proposed" THEN {"Scanning"}
  ELSE IF from = "Scanning" THEN {"SourceChecking"}
  ELSE IF from = "SourceChecking" THEN {"Approved", "Rejected", "Conflict"}
  ELSE IF from = "Approved" THEN {"Active"}
  ELSE IF from = "Active" THEN {"Stale", "Conflict", "Expired"}
  ELSE IF from = "Stale" THEN {"Archived", "Deleted", "Active"}
  ELSE IF from = "Conflict" THEN {"Stale", "Archived", "Deleted"}
  ELSE IF from \in {"Expired", "Rejected"} THEN {"Archived", "Deleted"}
  ELSE {}

NoFunction == [id \in {} |-> None]

MemoryInit ==
  /\ stored = {} /\ status = NoFunction /\ audit = {} /\ now = 0
  /\ snapshot = [s \in Sessions |-> None] /\ writes = [s \in Sessions |-> None]
  /\ path = NoFunction /\ evicted = {} /\ lost = {}

------------------------------------------------------------------------------
(* A store is a record [items, status, path, evicted]; propose works on one *)

Store == [items |-> stored, status |-> status, path |-> path, evicted |-> {}]

\* Expired, Archived and Deleted items are given up for good, like Rejected ones.
Dead == {"Rejected", "Expired", "Archived", "Deleted"}

\* The path of an id covers one stay in the store: an eviction ends it.
NotSeen == [checked |-> FALSE, approved |-> FALSE, dead |-> FALSE]
Seen(p, to) ==
  [checked |-> p.checked \/ to = "SourceChecking", approved |-> p.approved \/ to = "Approved",
   dead |-> p.dead \/ to \in Dead]

Becomes(S) ==
  stored' = S.items /\ status' = S.status /\ path' = S.path /\ evicted' = S.evicted

\* The step neither evicts nor loses anything.
Quiet == evicted' = {} /\ lost' = {}

With(f, id, v) == [x \in DOMAIN f \cup {id} |-> IF x = id THEN v ELSE f[x]]
Without(f, id) == [x \in DOMAIN f \ {id} |-> f[x]]

\* The oldest of some items: any of them when they were proposed in one second.
Oldest(I) == {i \in I : \A j \in I : i.at <= j.at}

\* Mutant: the oldest item goes, whatever its status.
VictimsByAge(S) == Oldest(S.items)

\* evict_if_needed: an item that is neither Active nor Approved, or else an
\* Approved one.
Victims(S) ==
  LET Idle == {i \in S.items : S.status[i.id] \notin {"Active", "Approved"}}
      Approved == {i \in S.items : S.status[i.id] = "Approved"}
  IN IF Idle # {} THEN Oldest(Idle) ELSE Oldest(Approved)

Evicted(S) ==
  IF Cardinality(S.items) < Capacity THEN {S}
  ELSE {[items |-> S.items \ {v}, status |-> Without(S.status, v.id),
         path |-> Without(S.path, v.id),
         evicted |-> S.evicted \cup
           {[status |-> S.status[v.id], rest |-> {S.status[i.id] : i \in S.items \ {v}}]}]
          : v \in Victims(S)}

\* propose: the stores it may leave behind; none when it fails.  The item is stored with
\* the status its caller gave it, which nothing here checks.
Proposed(S, i) ==
  IF i.id \in DOMAIN S.status THEN {}
  ELSE {[items |-> T.items \cup {i}, status |-> With(T.status, i.id, i.status),
         path |-> With(T.path, i.id, Seen(NotSeen, i.status)), evicted |-> T.evicted]
          : T \in Evicted(S)}

\* DefaultMemoryPolicyChecker::check and detect_injection
Harmless(i) ==
  /\ i.wording \notin {"long", "forbidden", "injection"}
  /\ ~(i.trust = 0 /\ ~i.cited)

\* find_duplicate: among the Active items of every scope.
Duplicate(i) ==
  \E j \in stored : status[j.id] = "Active" /\ j.id # i.id /\ j.content = i.content

\* MemoryProposePipeline::process, bound to `scope`; the store is only read.
Process(i, scope) ==
  /\ Harmless(i) /\ ~Duplicate(i) /\ i.scope = scope
  /\ audit' = audit \cup {i}
  /\ Quiet /\ UNCHANGED <<stored, status, snapshot, writes, now, path>>

Propose(i) ==
  /\ i \in audit
  /\ \E S \in Proposed(Store, i) : Becomes(S)
  /\ lost' = {} /\ UNCHANGED <<snapshot, writes, audit, now>>

Moves(id, to) ==
  /\ status' = [status EXCEPT ![id] = to]
  /\ path' = [path EXCEPT ![id] = Seen(@, to)]

TransitionStatus(i) ==
  /\ i \in stored
  /\ \E to \in After(status[i.id]) : Moves(i.id, to)
  /\ Quiet /\ UNCHANGED <<stored, snapshot, writes, audit, now>>

\* Mutant: an item past its time is only stale.
MarkStale == "Stale"

\* prune_expired: the status of an item past its time, whatever it was before.
Mark == "Expired"

PruneExpired ==
  LET Due == {i.id : i \in {j \in stored : j.due <= now /\ status[j.id] # "Expired"}} IN
  /\ Due # {}
  /\ status' = [id \in DOMAIN status |-> IF id \in Due THEN Mark ELSE status[id]]
  /\ path' = [id \in DOMAIN path |-> IF id \in Due THEN Seen(path[id], Mark) ELSE path[id]]
  /\ Quiet /\ UNCHANGED <<stored, snapshot, writes, audit, now>>

------------------------------------------------------------------------------
(* Sessions *)

\* FrozenSnapshotBuilder::build
Frozen(scope) ==
  {i \in stored : /\ i.scope = scope /\ status[i.id] = "Active"
                  /\ i.trust >= MinTrust /\ i.due > now}

\* start_session: a session that has a snapshot keeps it.
StartSession(s, scope) ==
  /\ snapshot[s] = None
  /\ snapshot' = [snapshot EXCEPT ![s] = Frozen(scope)]
  /\ writes' = [writes EXCEPT ![s] = IF @ = None THEN <<>> ELSE @]
  /\ Quiet /\ UNCHANGED <<stored, status, audit, now, path>>

WriteDuringSession(s, i) ==
  /\ writes[s] # None /\ Len(writes[s]) < MaxWrites
  /\ writes' = [writes EXCEPT ![s] = Append(@, i)]
  /\ Quiet /\ UNCHANGED <<stored, status, snapshot, audit, now, path>>

\* end_session, one write: it is proposed unless an earlier one failed.
HandOver(done, i) ==
  LET P == Proposed(done.store, i) IN
  IF done.failed THEN {[done EXCEPT !.lost = @ \cup {i}]}
  ELSE IF P = {} THEN {[done EXCEPT !.failed = TRUE, !.lost = @ \cup {i}]}
  ELSE {[done EXCEPT !.store = S] : S \in P}

HandedOn(D, i) == UNION {HandOver(d, i) : d \in D}
NothingHanded == {[store |-> Store, failed |-> FALSE, lost |-> {}]}

\* What handing over all of them may leave behind.
Handed(batch) ==
  LET Done[k \in 0 .. Len(batch)] ==
        IF k = 0 THEN NothingHanded ELSE HandedOn(Done[k - 1], batch[k])
  IN Done[Len(batch)]

\* end_session: the writes are taken out first and proposed one after the other;
\* at the first that fails it returns, and the snapshot stays.
EndSession(s) ==
  /\ writes[s] # None
  /\ writes' = [writes EXCEPT ![s] = None]
  /\ \E d \in Handed(writes[s]) :
       /\ Becomes(d.store) /\ lost' = d.lost
       /\ snapshot' = IF d.failed THEN snapshot ELSE [snapshot EXCEPT ![s] = None]
  /\ UNCHANGED <<audit, now>>

\* cleanup_session: the session is thrown away with what it wrote.
CleanupSession(s) ==
  /\ snapshot[s] # None \/ writes[s] # None
  /\ snapshot' = [snapshot EXCEPT ![s] = None]
  /\ writes' = [writes EXCEPT ![s] = None]
  /\ Quiet /\ UNCHANGED <<stored, status, audit, now, path>>

Tick ==
  /\ now < MaxTime /\ now' = now + 1
  /\ Quiet /\ UNCHANGED <<stored, status, snapshot, writes, audit, path>>

MemoryNext ==
  \/ \E i \in Items, scope \in Scopes : Process(i, scope)
  \/ \E i \in Items : Propose(i)
  \/ \E i \in Items : TransitionStatus(i)
  \/ PruneExpired
  \/ \E s \in Sessions, scope \in Scopes : StartSession(s, scope)
  \/ \E s \in Sessions, i \in Items : WriteDuringSession(s, i)
  \/ \E s \in Sessions : EndSession(s)
  \/ \E s \in Sessions : CleanupSession(s)
  \/ Tick

MemorySpec == MemoryInit /\ [][MemoryNext]_memoryVars

------------------------------------------------------------------------------
(* What is asked of it *)

\* As long as it is kept, what was rejected, given up or expired never becomes Active
\* again, by any sequence of transitions and expiries.  Once it has been evicted its id is
\* free, and a new proposal of it starts anew.
DeadStayDead ==
  \A i \in stored : status[i.id] = "Active" => ~path[i.id].dead

\* The statuses before the check of an item's source.
Unchecked == {"Proposed", "Scanning"}

\* An Active item that was proposed before its source was checked had it checked in this
\* stay: no approval of an earlier stay of the same id, no expiry and no way through a
\* conflict stands in for it.  What its caller proposes as checked or Active is taken at
\* its word.
EveryStayChecked ==
  \A i \in stored :
    i.status \in Unchecked /\ status[i.id] = "Active" => path[i.id].checked

\* What was proposed unchecked is Active only once it was approved in this stay ("proposed,
\* scanning, source_checking, approved or rejected, active", docs/plans/m2-task-plan.md:92).
ApprovedFirst ==
  \A i \in stored :
    i.status \in Unchecked /\ status[i.id] = "Active" => path[i.id].approved

\* The store never grows beyond its capacity, and makes room for a proposal, or for the
\* writes of a session that ends, without ever giving up an Active item, or an Approved one
\* while it keeps one that is neither.
Spared(e) == e.status # "Active" /\ (e.status = "Approved" => e.rest \subseteq {"Active", "Approved"})
SparesTheActive == Cardinality(stored) <= Capacity /\ \A e \in evicted : Spared(e)

\* When a session ends, what it wrote is kept ("the mid-session writes are made
\* durable in the store", crates/seaki-memory/src/session_memory.rs:71).
WritesAreKept == lost = {}

=============================================================================
