# TLA+ for seaki

Specifications of the parts of seaki whose correctness depends on order,
interleaving or failure, the TLC configurations that check them on small
instances, and TLAPS proofs of the properties that matter most. All paths are
relative to `src/`, the root of the repository.

    tlc -workers 2 -config MCOutbox.cfg MCOutbox.tla     # model-check one run
    tlapm OutboxProofs.tla                               # check one proof module

`PROJECT.json` names, for every definition that models code, the lines it
stands for; for every run, what it checks; for every property, a mutation of
the model that a plausible bug would make and that the property catches; and
the hazards of the code with the properties that watch them.

## The system

seaki is a local-first workspace: a Rust daemon and its crates under `crates/`,
and an Electron front end under `apps/` and `packages/`.

| Part | State | Operations | Talks to |
| --- | --- | --- | --- |
| Core ledger (`seaki-core`) | SQLite tables for events, audit chain, workspaces, approvals, notes; session index in memory | init, append, propose, commit, check sources, decide, redact, replay, verify | called by the daemon; commits stand behind approvals |
| Channel outbox (`seaki-channel/outbox.rs`) | items with status, lease and retry fields; sent keys; attempts | enqueue, lease, transition, record, retry, resolve, `dispatch_round` | several dispatcher threads, a provider |
| Channel provider (`feishu_http.rs`) | a cached access token | send, refresh, invalidate | the Feishu service |
| DAG runner (`seaki-pipe`) | step states, outputs and branch selections of a run; checkpoints; state machine; approval requests | run, run with checkpoints, resume, run with approval, roll back | executors, policy, people who approve |
| Agent (`seaki-agent`) | skills; a session's state machine, messages, compaction log | match and render skills, `execute_intent`, compose answers, compact | the linear `run` of seaki-pipe, approval gate, LLM |
| Capability grants (`seaki-policy`, `seaki-channel/grant.rs`) | grants with uses and validity | issue, consume, check | every guarded operation |
| Channel ingress (`ingress.rs`, `webhook.rs`) | seen event ids, audit log | verify, resolve identity, normalise | providers that deliver twice |
| Quarantine (`quarantine.rs`) | files in a directory and their verdicts | download, check, record | attachments of events |
| Secret broker (`broker/secret.rs`) | secrets, issued tokens | request, resolve, revoke | plugins |
| Plugins (`plugin/`) | registered manifests, instances | register, load, call | a WASM engine |
| Wiki (`seaki-wiki`) | pages, claims, citations, revision, rollback markers; files named by content | commit with a log, ingest | ledger, sandbox |
| Memory (`seaki-memory`) | items, notes, sessions, review cards, topics | propose, expire, transition, review, cluster | ledger, index |
| Pipelines (`seaki-pipeline`) | graphs, compiled plans, versions | validate, sort, compile, version | runners |
| Index (`seaki-index`) | documents by scope, generations | replace, mark, tombstone, search, resolve | wiki, memory, answers |
| Sandbox (`seaki-sandbox`) | one child process, its lock and a timeout thread; an ingest context | execute, read, write | executors, ingest |
| Daemon (`seaki-daemon`) | one ledger | decode a request, call the ledger | front end |
| Front end (`apps`, `packages`) | view models | fetch, render | daemon |

What is hard here: threads that work on copies of shared things and drop the
lock between any two calls; clocks that are read before a lock is taken;
ledgers that check before they open a transaction; processes that die between a
file and its index; pipelines that fail, panic, are resumed and rolled back;
people who answer an approval late, twice or never; stores that are full; ids
that are used again. Where these bite is listed, line by line, under `hazards`
in `PROJECT.json`.

## What makes each part correct

- Outbox: one sender per item, no item reported Sent that was not delivered,
  bounded retries after their backoff, every item settled in the end.
- Provider: one call hands a message over at most once, and says Ok only then.
- Ledger: an append-only log without duplicate keys, a chain that always
  verifies, no commit without its own approval.
- DAG runner: at most one arm of a branch in the whole life of a pipeline,
  checkpoints that hold all a resumption needs, no step without consent, a
  rollback that undoes exactly what was completed.
- Agent: an intent interrupted for an approval is answered as one that was not,
  every intent ends, nothing the user says is taken for a variable, an answer
  refers to what it cites, decisions survive compaction.
- Grants: used at most as often as given, by the subject, and for a file only
  with the content that was approved.
- Ingress: an event comes back only after its time, none is lost to its own
  replay memory.
- Quarantine: what is called clean is what was checked, in full.
- Broker: a revoked token gives nothing away, not even to a call under way.
- Wiki: commits form one line in log and store, every citation a claim declares
  is there; a stored file is whole.
- Memory: what is kept and dead stays dead, nothing becomes Active on the strength
  of an earlier stay, nothing Active is given up, a disputed note stays out, no
  review brings a removed card back.
- Index: what was withdrawn or cleaned up is not found.
- Sandbox: a child that was killed is told to have timed out, none outlives the
  call, no link leads out of a directory.
- Compiler: cycles are found and orders are right in whatever order a HashMap
  gives the nodes.

## Modules

| Module | Models |
| --- | --- |
| `Outbox` | `Outbox` and `OutboxDispatcher` with workers, callers, a provider and a clock |
| `Delivery` | what the outbox promises about an item, abstractly |
| `OutboxProofs` | typing, mutual exclusion, confirmation, refinement, leases and retries, for all constants |
| `Ledger` | `CoreLedger`: several ledgers open on one file |
| `EventLog` | what the event table promises, abstractly |
| `LedgerProofs` | typing, audit chain, approvals, heads, index and refinement, for all constants |
| `DagRun` | one pipeline: `execute_dag_core`, resumption, approval gate, rollback |
| `DagRunProofs` | typing, checkpoints, consent, branches and rollback, for all pipelines |
| `Ingress` | webhook verifiers, replay table, identity resolution and audit log under concurrent deliveries |
| `IngressProofs` | replay protection, its converse and what full tables lose, for all constants |
| `WikiPatch` | the patch store, its log, sources and approvals that change |
| `Search` | the candidate index, and answers of the core from it |
| `SessionSearch` | the index of redacted sessions and its cleanup |
| `SourceIngest` | imports that race for a file and may die |
| `Memory` | the store of items with its capacity, proposals, sessions |
| `Notes` | project notes and their index |
| `Topics` | clustering |
| `Review` | cards, grading and the queue |
| `Grants` | grants of the policy engine and of the channel |
| `Broker` | secrets and tokens |
| `Quarantine` | attachments |
| `Provider` | sending to Feishu with a shared token |
| `Paths` | which paths are read and written |
| `SandboxRun` | a child, its runner and its timeout thread |
| `Dispatch` | skills: registration, matching, admission, rendering |
| `Compile` | graphs, both compilers, the type check |
| `Agent` | a session: `execute_intent`, the linear run, approval and resumption |
| `Answers` | citations of a composed answer |
| `Compaction` | a session's messages and their compaction |
| `Knowledge` | `WikiPatch`, `Search`, `SessionSearch`, `SourceIngest`, `Memory`, `Notes`, `Topics` and `Review` beside each other |
| `Guards` | `Grants`, `Broker`, `Quarantine`, `Provider`, `Paths` and `SandboxRun` |
| `Assistant` | `Dispatch`, `Compile`, `Agent`, `Answers` and `Compaction` |
| `KnowledgeProofs`, `GuardsProofs`, `AssistantProofs` | safety of the parts, and of the compositions |
| `CompileProofs` | what functions defined by recursion compute, and both compilers; `AssistantProofs` extends it |
| `MCOutbox`, `MCLedger`, `MCDagRun`, `MCIngress`, `MCKnowledge`, `MCGuards`, `MCAssistant` | values of the constants, for TLC |

`Knowledge`, `Guards` and `Assistant` join services that share no state in the
code: the step of one leaves the variables of the others alone and neither
enables nor disables any of theirs, so every behaviour of the whole is an
interleaving of behaviours of the parts, and a property of one part holds in the
whole exactly if it holds in the part. They therefore explore one part at a
time. `scene` says which, and the variables of the others are `None`. Where
parts do interact (outbox and provider, ledger and its files, runner and gate,
the two threads of the sandbox, index and core, patches and sources) they are in
one module. `sandbox_hang` explores `SandboxRun` by itself.

### Outbox

`dispatch_round` reads the clock once and copies every item once
(`StartRound`); then it calls `lease`, `transition`, `record_attempt`,
`set_retry` and `item`, each of which takes and drops a mutex. Each such call is
one action of worker `w`, `pc[w]` says which comes next, and everything a worker
carries along (`now`, `todo`, `unknown`, `seen`) may be stale. `enqueue` and
`resolve_unknown` also drop the lock half-way (`EnqueueCheck` and
`EnqueueInsert`, `ResolveSent` and `CallerMarkSent`). The provider is the
environment: a send may deliver and still answer with an error, a query is
truthful, and with `MayPanic` a call never returns. Item contents are left out;
an item is its id, its key and its retry fields.

`Delivery` is the promise: an item is queued, taken by one party, confirmed at
most once and settled for good. `ImplementsDelivery` maps the eight statuses to
its six phases.

### Ledger

Operations that check inside their transaction (`append_approval_decision`,
`append_memory_commit`, `append_wiki_patch_commit`, `memory_source_check`) are
one action. `workspace_init`, `append_inert_event`, `append_memory_propose` and
`session_redact` read the key and the revision first and open the transaction
later: `Check`, then `Write`. A transaction is atomic, `Rollback` is its
failure for whatever reason (a constraint, a locked file, a full disk), and
`Crash` ends a process between any two actions and empties its session index.
`session_redact` goes on to the index after its commit (`IndexSession`). Hashes
are taken to be collision-free; `event_id` and `idempotency_key`, which callers
choose together, are one key. The daemon opens one ledger; the library allows
more, and SQLite serialises their transactions.

### DagRun

A step's output is its first frame: that is all that decides a branch, and all
merge strategies begin with it. `pc` is the runner: in the loop (`Recall`,
`Skip`, `Pass`, `Check`, `Deny`, `RequestApproval`), waiting for an approval
(`Granted`, `Refused`, `WaitTimesOut`), in an execution (`NotStarted`,
`Executed`, `ExecutionFails`, `Retry`, `Panic`) or rolling back (`Rollback`).
`Save`, the end of every step, may fail. `Resume` starts again from the
checkpoints after any run that did not complete, with empty local state, as
often as `MaxResumes` allows. `Decide` is a person approving or denying at any
time, also after an earlier decision. The policy may answer differently each
time it is asked; `Policy[s]` is the set of answers it may give. `ran`,
`undone` and `approved` are history.

### Ingress

Each delivery has a handler thread that runs `IngressNormalizer::normalize`.
The three mutexes (replay table, binding table, audit log) are taken one at a
time, and each critical section is one action. The clock is read before the
lock is asked for, so a reading is an action of its own: `Receive` takes the one
`evict_expired` uses, `CheckStamp` the one that judges the delivery's timestamp
and that the id is then stored with. `verifier` chooses between the three
verifiers of the code: `"fake"` (HMAC), `"token"` and `"encrypted"` (the two
paths of `FeishuWebhookVerifier`, of which only the first has a replay gate
before the timestamp check). What signatures, tokens and ciphertexts are checked
for is whether the delivery is in `forged`; a payload is its event id. Bindings
change at any time. `Threads` bounds how many handlers run at once. The clock
moves freely between a reading and its use, so that ids are inserted late and
out of order. `displaced` and `outrun` are history: the admitted deliveries whose
id was pushed out of a full table, and those whose id was evicted by a handler
with an older reading (`evict_expired` takes an entry in its future for infinitely
old). `ReadmittedAfterTTL` says that these two are the only ways back within the
TTL; `AdmittedOncePerTTL`, which has no such exception for the second, is what
`ingress_replay` refutes.

### WikiPatch

`commit_patch` needs `&mut self`, so a commit is one action; what races is what
happens between two calls. `Prepare` is the author who rebases a proposal on the
revision of the moment, `Approve` the decision on a patch id, `Withdraw` a source
that is restricted or tombstoned: all three are the environment and happen while
a patch waits. `Valid` is every check of the code in its order: base revision,
shape, approval, citations. `Commit` appends to the caller's log and then
applies; `LogFails` is `append_wal` answering with an error, whether or not the
record was written. A proposal with the id of an earlier one brings other
contents, which is how ids come to be used again. `Sources` are the manifests with
the scope of `source.ingest`: another one is refused as one that is missing. A
citation may name a frame (`framed`) or lie anywhere in its source; that a frame
was cut from the source's present content is part of being the frame (`FrameOf`).

### Search

One index of documents by scope. `ReplaceScope`, `MarkVisibility`,
`TombstoneSource` and `MarkBad` are its writers. `Answer` is `compose_answer` of
the core, which searches again and filters by the ids a client sends;
`Resolved` is `resolve_citation`. Ranking is left out: every document matches.
`withdrawn` is history, the sources that were tombstoned since the scope was
last rebuilt.

### SessionSearch

`entries` is the manifest and `found` the documents of the candidate index.
`CleanupSessions` performs both passes of the code (mark what is due, delete
what is past its grace) and rebuilds the scopes it collected; `RedactSession`
may give a session another scope than it had.

### SourceIngest

A blob is a file that is absent, partial or whole. Every file operation of an
import is an action: `Look` (`path.exists()`), `Compare`, `Create`
(`create_new`), `Write`, `WriteFails` and `Parse`; `Die` ends a process between
any two. An import goes either through `RawCas::append` or through the sandbox
context, which records each operation.

### Memory, Notes, Topics and Review

`Memory` keeps a store as a record, because `end_session` proposes many items in
one call: `Proposed(S, i)` is the set of stores that `propose` may leave, with
every choice that ties among the oldest allow. An item comes with its status:
the doc of `propose` asks for Proposed (`memory_store.rs:54`), the code does not
look, and tests propose Active items (`tests/memory_store.rs`); so does the third
item of `MCKnowledge`. `PruneExpired` sets Expired
whatever the status was; `Mark` is that status. `path`, `evicted` and `lost` are
history. `path` covers one stay of an id: once an item has been evicted, its id may
be proposed again, also as Active, and the new stay begins with nothing checked
(`NotSeen`). `MemoryHolds` is therefore about a stay: what is kept and dead is
never Active again, and what was proposed as unchecked is Active only when its
source was checked in this stay. `Notes` separates the store from the index that is rebuilt only on
request. `Topics` computes the clustering of a list, one item after the other
(`Opens`), and then places items that
come later. In `Review` a reviewer holds a copy of a card (`Take`) while others
grade or remove it (`Grade`, `RemoveCard`): nothing in the code ties the copy to
the queue. `NextDue` hands out the n-th card that is due as the one that n - 1
others come before (`Earlier`), which is what a stable sort by the due time gives.

### Grants

A caller reads the clock and then asks for the lock (`Ask`, then `ToStore` or an
answer that needs no grant, then `Consume` or `Refuse`), so time may pass and
files may change in between. `Takes` has one clause for each of the four kinds:
file and generic grants of the policy engine, action and resource grants of the
channel. `Usable` is the validity and the uses they share, `Suits` what the
request itself must fit. `Approve` is a person; `ScopeHashFits` says that a
grant was issued for the content that was approved. `issued`, `spent` and
`misused` are history.

### Broker

Two mutexes. `RequestToken` is a request up to its unlock of the secrets,
`IssueToken` what it does under the lock of the tokens, with the clean-up of
expired ones and the limit; anything may come between. A resolution keeps the
lock of the tokens (`TokensFree`) from `ResolveToken` to `ReadSecret`, which is
why a revocation cannot come between these two.

### Quarantine

Each step of `process` that touches the file system is an action: download,
observe the size, observe the hash, record. Workers that process the same
attachment share one file; a download may leave less than all of it.
`touched` marks the workers whose file another one wrote to in the meantime.

### Provider

No lock is held during a request, so senders overwrite each other's token.
`Ask` is the service that issues a token and `Fetched` its answer; `DoSend` is
the send, what the service makes of it, and the decision to try again.

### Paths

`Along` follows the names of a path to the first link, `Resolved` goes on from it,
at most `MaxLinks` times, as the file system does; `Canonical`,
`Joined` and `PathContains` are what the code compares. One action evaluates
one request (`Asked`) in one file system (`links`), and the property is that what is
permitted ends where it should. `LimitNotMet` says that the limit of links plays
no part in a request; it holds of all requests of the run.

### SandboxRun

`runner` runs the child, `timer` kills it after the timeout, `lock` is the mutex
they share. The child is the environment: `Habits` says whether it may ignore
its input (`"deaf"`), close its outputs and go on (`"mute"`), or leave its
outputs to children of its own (`"parent"`).

### Dispatch

A pattern is a sequence of letters. `LevenshteinWithin` computes row by row with the
code's early exit (`Hopeless`); `Escaped` and `Render` replace variables in the
code's order. `Register`, `DispatchIntent` and the ways it is refused are the
actions.

### Compile

A graph is kinds and a list of edges, in which an edge may be there twice, as after
two calls of `add_edge`; its entry need not be one of its nodes. Both compilers go
through the nodes in the order a `HashMap` gives them, so they are operators of an
`order`, and the action compiles a graph for every order of its nodes.

The loops are recursive functions. `Dfs` is the search by depth: it never goes
deeper than there are nodes, and what it knows is what was visited, what is on the
stack, and whether an edge led back to the stack. `Popped` is one round of
`topological_sort`, `Freed` the count of edges that comes down to zero; each node
is popped once at most, so there are as many rounds as nodes. `WalkOn` is one round
of the walk in `to_linear_ast`, which passes each node once, the graph being
without cycles. `Fits` is the type check between two steps.

`Cyclic` and `Reachable` are what the code's search is compared with, and use none
of it: a node is reachable if it is in every set that holds the successors and
that no edge leaves.

### Agent

`doing` is the place of the one thread in `execute_intent`. A step's output is a
term: what step `s` makes of the input `i` is `<<s, i>>`, so a wrong input at any
step shows in the answer. `StepWantsApproval` suspends the run;
`Approved` takes it up again with the stored outputs, `Denied`, `TimesOut` and
`GivesUp` end it. `Uninterrupted(p)` is the reference: the same pipeline without
an interruption.

### Answers and Compaction

`Answers` scans a text for markers `[N]` place by place; the reference is the
set of numbers that stand between brackets. `Sorted` is any permutation that
sorts: between equal numbers there is nothing to tell apart. `Compaction` keeps a session's
messages with their kinds; `Compact` drains what need not be kept and puts a
summary in its place, `WriteCompactionToWal` records it in the ledger.

## Runs

| Run | Question | Bounds |
| --- | --- | --- |
| `outbox` | one sender, no false Sent, refinement, progress | 2 workers, 1 caller, 1 item, lease 1, clock to 2: a lease can expire in mid-round and be taken over, and a retry falls due |
| `outbox_timely` | what leases, budget and backoff give when no round outlasts a lease | the same with lease 2, backoff 3, clock to 6, provider calls that never return |
| `outbox_resend` | fails: no send of a message that was already delivered | one item, one retry |
| `ledger` | chain, heads, approvals, notes, index, refinement | 2 ledgers, 2 workspaces, 4 events, 2 approvals: two overlapping checked writes, and a full proposal, approval and commit, fit |
| `dag` | branches, checkpoints, consent, rollback | branch of two arms and a join between two commands, 2 frames, 2 attempts, 2 resumptions: one interruption before and one after the branch |
| `dag_timeout` | fails: nobody is left waiting | one run |
| `ingress` | replay protection, its converse, eviction order, audit log | 2 handlers at once, 4 deliveries of 3 events, one of them possibly forged, the token and the encrypted verifier (the HMAC one takes the path of the latter), both policies, table of 2, TTL 1, clock to 2, log of 2: a redelivery can race, overtake, fall within the TTL, fall after it, or meet a table that is full |
| `ingress_replay` | fails: one admission per TTL when a handler is slow | the same with the HMAC verifier |
| `knowledge` | patches, index, sessions, imports, memory, notes, topics, reviews | see below |
| `guards` | grants, tokens, attachments, sends, paths, the child of the sandbox | see below |
| `assistant` | skills, compilers, intents, citations, compaction | see below |
| `sandbox_hang` | fails: the timeout binds every child | a child that may close its outputs before it ends |

Bounds of `knowledge`, by scene:

- patches: two proposals of two patch ids, each prepared again with another
  page and reused citation ids, 3 commits: a commit, one that overwrites parts
  of it and one that was prepared against a revision that is gone.
- index: two scopes; two documents of one source, of which one cites another
  source, and one document of that one, so a tombstone separates what a
  document is of from what it is about.
- sessions: 2 sessions, 2 scopes, TTL 2, grace 1, time to 4: a session can move
  to another scope, expire and be deleted.
- ingest: 3 imports of 2 contents, in and out of the sandbox, one of them
  refused: two race for a file and the third does not.
- memory: 3 items that say the same, one of them proposed as Active by a session, room
  for 2, one session with 2 writes: a full store may hold any mix of statuses.
- notes: 2 notes, 2 texts of which one is disputed, 2 edits.
- topics: every list of up to three items with keywords of three.
- review: 2 reviewers, 3 calls, three times, two kinds of items: a card can be
  held by both while it is removed and put in again.

Bounds of `guards`: a file grant of one use, a generic one of two, an action
grant and a resource grant that may be issued again, 2 callers; 2 plugins, 3
tokens of which 2 may live; 2 workers, 5 attachments (the same file twice, a new
version, an unsafe name, a key that runs into another's version), 2 calls; 2
senders, 3 access tokens, 3 sends; up to two links out of four places to eight
targets, 20 odd paths; a child with any habits.

Bounds of `assistant`: patterns of up to four letters and intents of up
to three, with distances up to 2; four kinds of graphs of four nodes with every set of up to four edges, with every set
of three edges that are there twice, and with an entry or exits that are none, in every
order of the nodes; pipelines of up to three steps with every kind of binding,
3 intents; texts of up to four brackets and digits over 0, 1 and 12 results; up
to 8 messages, compacted from the fifth on.

Every cfg sets `CHECK_DEADLOCK FALSE`: the clock, the log, the calls and the
resumptions are bounded, and a settled outbox, a full log, a completed pipeline,
a set of answered deliveries, a graph that is compiled or a store whose callers have made
all their calls has nothing more to do.

Every property of a passing run has a mutant in `PROJECT.json`. Where a property
joins several, some modules hold a second mutant for the other part, kept beside
the definition it changes under the comment "Mutant": `BestByOrder`,
`ScopeHashIgnored`, `KillOrGiveUp`, `AppendedLate`, `MarkStale`, `HopelessEarly`,
`FitsByFrame`, `FreedAtOnce` and `EarlierInQueue`.

### Where the code and its documents disagree

Four runs fail; `findings` in `PROJECT.json` quotes both sides.

- `outbox_resend`: `dispatch_round` retries after any send error without asking
  the provider.
- `dag_timeout`: an approval timeout leaves `execute_dag_core` through `?` before
  the transition to Failed, so nothing is rolled back.
- `ingress_replay`: `evict_expired` compares entries with a clock reading it took
  before it had the lock. An entry stored since then lies in its future, counts
  as infinitely old and is dropped, so that its redelivery is accepted within the
  TTL.
- `sandbox_hang`: once the outputs are closed the runner waits for the child
  under the lock that the timeout thread needs to kill it. A child that closes
  them and goes on running is waited for without end.

Further disagreements have a cfg beside the runs, or need a line in one; TLC finds
each of them violated.

| cfg (module) | Property | What the code does |
| --- | --- | --- |
| `MCOutboxSameKey.cfg` (`MCOutbox`) | `KeySentOnce` | `enqueue` accepts a second item with a key that is queued but not yet sent |
| `MCLedger.cfg` (`MCLedger`) with `PROPERTIES ConflictStaysOut` | `ConflictStaysOut` | `append_memory_commit` activates a note in conflict |
| `MCDagRunNested.cfg` (`MCDagRun`) | `BranchExclusive` | a deselected inner branch records no selection, so all its arms run, on empty input; the property holds in `dag`, where no branch lies below another |
| `MCKnowledgeMemory.cfg` (`MCKnowledge`) | `WritesAreKept` | `end_session` stops at the first write that fails, and the rest is gone |
| the same, with `INVARIANTS ApprovedFirst` | `ApprovedFirst` | an item that was proposed unchecked and found in conflict may become Stale and from there Active, without ever having been approved |

Seven more properties are stated in their modules, with the doc they come from
where there is one, and do not hold: `Compile.OnlyChains` (`to_linear_ast` looks
at the edges that leave its path and not at those that enter it: a command that
feeds a step, or stands alone, is dropped without an error), `SessionSearch.FoundIsKept` (a session that was redacted again for
another scope stays in the index of the first), `Compaction.SeqUnique` (every
summary has the number 1), `Notes.ShownIsCurrent` (a search shows the text of
the last rebuild), `Provider.RetryIsFresh` (a second try may be made with an old
token that another sender's late answer has put back into the cache),
`SourceIngest.NoFalseCollision` (an import that meets the half-written file of
another, running or dead, reports a hash collision), and
`Review.EveryReviewCounts` (of two reviews of one card the later overwrites the
earlier). `Paths` excepts dangling links from `StaysInside`, with the comment
that says why. `SandboxRun.RunEnds` and `SourceIngest.WholeStays` are stated, hold
on the same instances, and are checked by no run.

### Fairness

`outbox` and `assistant` check a liveness property, `sandbox_hang` refutes one.

`Outbox.Fairness` is weak fairness of each worker's round, and of time. The
repository has the dispatcher and not the loop that calls it; that each worker's
host keeps calling `dispatch_round` is the assumption under which any outbox
makes progress. Callers are not fair: nobody has to enqueue or to resolve.
Panics are excluded in this run, because the code has no recovery for an item
whose sender died: it stays Sending. `Progress` excepts items whose lease or
backoff ends beyond the bounded clock.

`assistant` assumes `WF_vars(Thread)`: the thread of `execute_intent` is
scheduled. Nobody has to begin an intent or to decide an approval; the wait for
a decision ends because it has a timeout (`TimesOut`, `GivesUp`).

`SandboxRun.Fairness` is weak fairness of the runner and of the timeout thread.
The child need not do anything. Weak fairness is enough for the lock: the
timeout thread takes and drops it in one step, and the counterexample does not
rest on an unfair lock but on one that is never dropped.

## Proofs

Every theorem holds for all values of the constants that satisfy the named
assumption of its module. `OutboxAssumption`, `LedgerAssumption`,
`DagAssumption` and `IngressAssumption` are ASSUMEs of their modules; those of
the smaller components (`BrokerAssumption`, `PatchAssumption`, ...) are
definitions that `Guards`, `Knowledge` and `Assistant` assume together. TLC
evaluates all of them on every run. Some theorems
have a further hypothesis: `LeaseHolderActs` and `RetriesAreBounded` that no
round outlasts a lease (`Timely`) and that leases last,
`RunMemoryIsStored` and `RunBranchExclusive` that no branch directly follows a
branch (`FlatBranches`), and `PathsStayInside` that the limit of links is not met
(`LimitNotMet`). The code ensures none of these. In `outbox`, where
`Timely` is FALSE, a lease runs out in mid-round and is taken over;
`MCDagRunNested.cfg` is what happens behind a nested branch.

### Outbox

`TypeInv` joins `TypeOK` with `ControlOK`: a worker past the scan has a current
item, a caller in mid-call too. `SenderExclusion` shows that an item is Sending
exactly while one worker is responsible; the invariant is inductive over
`TypeInv`, and the case that matters is `BeginSend`, where the compare-and-set on
Leased excludes a second worker whatever the leases say. `ConfirmedOnce` proves
that an item is confirmed at most once, through the relation between `acks`, the
status and the worker at `settle`. `Implementation` shows that each step is a
step of `Delivery` or a stutter, from these two.

`SentMeansDelivered`: what a worker was told may be old when it applies it
(`ToldDelivered`), but delivery is never taken back. `LeaseInv` is for leases. To
lease an item a round must have begun after the last lease ended (`HeldInv`,
`FreshInv`); so a copy on which a round can still act is current (`CopyInv`),
although it was made before the lease, and every attempt but the one under way
is counted in the item (`BudgetInv`). `HolderActs` and `RetriesBounded` follow.

### Ledger

`TypeInv` adds to `TypeOK` that a prepared request is a real one (`Prepared`) and
that the audit table is a sequence. `StepShape` reduces `Next` to three shapes:
nothing of the tables changes, an event is appended with its audit row and
workspace row, or an approval decision is. The theorems then need one case per
shape: `ChainVerifies` row by row (`AllRows`), `CommitsNeedApproval` with
`DecisionsMatch` (`decision[a]` is the position of the one decision under `a`),
`HeadsAreLast`, `LogRefines` (`ImplementsEventLog`), and `IndexFollowsLog`,
strengthened by the redactions that are committed and not yet indexed.

### DagRun

`RunInv` rests on `Prefix`: the checkpoints are the first steps of the order, in
that order and once each, whatever failed, panicked and was resumed. While a run
is under way it knows exactly what they hold (`MemoryRebuilt`), it is not ahead of
them (`NotAhead`), and the step that executes is the first one without a
checkpoint (`Facing`) and licensed (`Licensed`, `GateApproved`). `Consented` and
`CheckpointedOnce` follow. `FlatInv` adds, for pipelines in which no branch
directly follows a branch, that the checkpoint of a branch holds what it was given
(`BranchStored`), that what it selected is determined by it (`BranchSelected`),
and that a step that ran was selected by every branch before it (`RanSelected`);
then a later run selects as an earlier one did, which is `MemoryIsStored` and
`BranchExclusive`. `RollInv` follows a run behind the gate: its calls are made in
order, once each (`RanInOrder`), what it completed it called (`CompletedRan`), and
a rollback has undone all there is to undo behind the place it has come to
(`UndoneBehind`); at its end this is `RollbackComplete`.

### Ingress

Nothing is assumed of the clock: a handler may hold a reading as long as it
likes. `IInv` says that a reading is never ahead of the clock (`ReadingsPast`),
that an admitted delivery is remembered with its own reading, is past its TTL by
the clock, was displaced or was outrun (`Backed`), and that each entry of the table
comes from a genuine admitted delivery (`EntriesGenuine`). `Backed` is what an
admission needs: the id is not in the table, so every earlier admission of the
event is excused. It survives an eviction because an entry that is dropped is
either too old by a reading that is not ahead of the clock, or ahead of the
reading, and then its holders are outrun (`EvictionStep`). `AdmittedAgainLate` and
`NoFalseReplay` follow. `OldestLost`: every entry carries the reading of its
admission (`EntriesHeld`), so the events in a full table are `MaxSeen` - 1 others,
admitted with readings no older than that of the one pushed out, in whatever order
they were inserted (`PushedOutRightly`).
`AuditStep` is the same for the log, with the handlers that wrote its records as
witnesses.

### Guards, Knowledge, Assistant

For every component there is a theorem on the behaviours of that component
alone, with the inductive invariant, and one on the composition (`Guards...`,
`Knowledge...`, `Assistant...`) that cites it: `OneService` shows that a behaviour
stays with one service, whose steps are the component's.

| Theorem | Inductive invariant, and why |
| --- | --- |
| `BrokerKeepsSecrets` | what a plugin asked for between its two locks and what a resolution has read are still right (`AskedForOwn`, `ResolvedIsLive`) |
| `GrantsAreBounded` | an id is issued once and its approval then stands (`IssuedOnce`, `IssuedAsApproved`) |
| `QuarantineIsWhole` | while nobody downloads to a worker's file again, what it observed is what the file holds (`WorkerInv`); two attachments share a file only if they are the same version of one file (`DestOfOne`, on names joined with a separator) |
| `ProviderDelivers` | a call that has not returned has handed nothing over |
| `PathsStayInside` | what is written has no link among its beginnings that leads anywhere (`Settled`); see below |
| `SandboxTells` | the flag is raised before the kill, and nobody is through while the child lives (`ChildInv`) |
| `CommitsFormOneLine`, `StoredClaimsBacked` | `OneLine` is inductive with its types; citations and the registry agree (`Backed`), which needs that a proposal's ids differ, shown from the count the code makes (`IdsDiffer`) |
| `IndexForgetsWithdrawn` | what is left of a withdrawn source is tombstoned and its scope not fresh (`Tombstoned`) |
| `SessionStoresAgree` | `SessionsAgree` is inductive with its types: it does not depend on the clock |
| `IngestStoresWhole` | a partial blob has one writer (`OneWriter`) |
| `NotesStayDisputed` | an id given out does not come back (`NotesInv`) |
| `MemoryKeepsItsDead` | the store is `Whole`: capacity kept, the dead not Active (`DeadStill`), the unchecked checked on the way (`CheckedYet`, by `SeenPath`); and every store that handing over a batch may leave behind is (`HandedStoresWhole`) |
| `ClustersHold` | after the i-th item, what was taken is in one group, and what is similar to the first of a group was taken (`ClusterInv`); similarities are fractions and so ordered (`FractionsOrdered`), and the search for the best has found it among the topics up to each place (`AssignedIsClosest`) |
| `QueueCountsCards`, `QueueIsFair` | of every id, the cards in the queue and those taken out are those put in (`Balanced`), since a removal takes one place away (`CountRemoved`) and a review leaves every id where it is; each place in the order of the due cards is somebody's (`DueRanked`) |
| `InterruptedAsWhole` | an intent has done exactly the steps before the one it has come to, with the outputs of an uninterrupted run (`Reached`, `AgentInv`) |
| `AnswersCite` | the answer's references are `CitationRefs`; the scan has found what is marked before its place (`MarkersFound`), sorting makes it increasing (`SortedFacts`), and the filter leaves what names a result (`RefsRight`) |
| `DispatchIsSafe` | `DispatchInv` has the words of a state and what was dispatched; an entry of the table of distances is at most k exactly when k edits lead from prefix to prefix (`TableIsExact`), a hopeless row stays so (`HopelessStays`), and escaping commutes with filling a hole (`EscapedThroughHole`) |
| `CompileIsRight` | `CompileInv`: what was returned is an error that is right about cycles, a pipeline or a DAG (`ReturnedRight`, `DagReturnedRight`) of the graph; see below |
| `DecisionsSurvive` | numbers grow, the recent messages are the last ones, each at its place (`CompactionInv`, `RetainedKept`) |

`CompileIsRight` rests on what the loops of the compilers keep. A search that has
not met the stack again leaves the visited nodes closed and without a cycle
(`Searching`), and one that has met it stands on a cycle; so `validate` refuses
exactly the graphs with a cycle, in any order of the nodes (`HasCycleRight`). In
`topological_sort` a node is queued or done exactly when all before it are done,
and no node is either twice (`SortRight`), also where an edge was added twice;
when the queue is empty, what is not done has in itself a predecessor of each of
its nodes, which a finite graph without cycles does not allow, so all is done
(`AllAfterOthers`, `SortedIs`). The walk of `to_linear_ast` has come to a node that is reachable
from every command behind it (`WalkRight`). The steps of the chain and the DAG of
the same graph are then two listings of the same nodes that both rise in the
topological order, and so equal (`FilteredChain`). The theorem holds for graphs
with finitely many nodes whose edges and exits are nodes, which `add_edge` and
`add_exit` ensure (`GraphAssumption`).

`PathsStayInside` rests on what resolving a path gives: a real place or nothing, by
its names alone where it meets no link (`ResolvedIs`, by recursion over the links
left, and `AlongSteps`, over the names), so that a real path leads to itself
(`RealStays`). `canonicalize_write_target` resolves what is there and appends
the rest, whose first name leads nowhere; since links are in real directories, no
later beginning can be one (`SettledTail`, `TargetSettled`). `create_dir_all`
then makes the directory where its name says (`MadeIs`), and the file is the one
that was compared with the root (`CreatedNewIs`, `ReplacedIs`). `LimitNotMet` is
needed: a name can be there and yet not be resolved because the names before it
have used up the links, it is then taken for missing, and what is appended is no
longer what the file system resolves; with `MaxLinks` 1, TLC refutes `StaysInside`
on the instance of `guards` and confirms it under `LimitNotMet`. `PathAssumption` says that a
directory is real with all above it, that a link is in a real directory, and that neither
root that is written to is the root of the file system.

`InterruptedAsWhole` assumes that the steps of a pipeline have ids of their own:
`run_resume` finds a step by its id, and a template that names two steps alike,
which registration does not refuse, would be taken up at the first of them. None
of the safety theorems uses fairness.

### Recursion

A function that is defined by recursion is a CHOOSE until one shows that some
function satisfies the equation. The proofs do this with a least counterexample
(`Least`): if there were no stages up to some number, take the least such number
and prolong the stages before it (`RunStagesExist`, `KeptStagesExist`,
`StagesExist`, and in general `Recursion`, where the step is itself a function).
What the stages have in common then follows step by step (`StepByStep`, whose
parameter is a set). For the same reason the modules use recursive functions and
folds, and nowhere in a proved property `SelectSeq`, `SortSeq` or `Reverse`:
tlapm does not expand them. `Sorted` is a CHOOSE among bijections, and
`Sortable` shows there is one: each place goes to the number of places that hold
less.

### Only model-checked

`Progress` and `IntentEnds`: liveness is out of the prover's reach. That
`LimitNotMet` holds of the requests of `guards` is a matter of its directories
and links: TLC confirms it with `INVARIANT LimitNotMet` in `MCGuards.cfg`.

## Not modelled

`components` in `PROJECT.json` lists every part with its status and, where it is
only partly modelled, what is left out. For good:

- Redaction, conflict detection, keyword extraction, the runbook index, ranking
  and snippets: pattern matching and scores over text, where a model would
  restate the tables it is made of. What they are for in a protocol is in the
  models as a kind of item or a set of documents.
- The pipe registry and dry run, the helpers for cost, intent, policy and
  versions: declarations and stateless arithmetic without a step that two actors
  could disturb. Compilation reads the registry as the constant `Builtin`.
- Channel plugins: a table of manifests behind one lock, and calls into an
  external WASM engine. The secret broker they use is modelled.
- The daemon: one thread that decodes a request and calls the ledger. `Ledger`
  takes its calls as the environment.
- MCP and LLM clients, and the encoding of provider requests: one request and
  its answer.
- Data transfer objects, generated code, and the front end: types, and pure
  functions from an answer to what is shown.

Within the modelled parts: hashes, digests and signatures are taken to be
collision-free and are the content they stand for; a mutex that is poisoned by a
panic is not modelled; `run_dag` without checkpoints is the loop of `DagRun`
without `Save`.

## Plan

Every invariant of the passing runs has a theorem. What would come next is breadth: the
registry of pipes and the plugins of channels, whose state is one table behind
one lock, and a module of the daemon once it serves more than one request at a
time. The liveness properties stay with TLC.
