----------------------------- MODULE SourceIngest -----------------------------
(***************************************************************************)
(* Import of sources into the raw store (crates/seaki-wiki/src/lib.rs, and *)
(* the ingest context of crates/seaki-sandbox/src/lib.rs).  Several imports *)
(* run at once over one directory.  A blob is named by a keyed digest of   *)
(* its content, taken to be collision-free, so a name is its content.  A   *)
(* file operation is a step; a process may die between any two.            *)
(***************************************************************************)
EXTENDS Naturals, Sequences, FiniteSets

CONSTANTS
  Imports,      \* imports, each a thread or process of its own
  Contents,     \* what is imported
  ContentOf,    \* the content each import brings
  KindOf,       \* its kind: "markdown", "pdf", "degraded" or "binary"
  Sandboxed,    \* the imports that go through ingest_source_via_sandbox
  Permitted,    \* of these, the ones whose input the policy lets them read
  None

VARIABLES
  blob,      \* the file of each content: "absent", "partial" or "whole"
  at,        \* where each import is
  outcome,   \* how it ended
  audit,     \* the records of its sandbox context
  stages     \* state_history of its manifest

vars == <<blob, at, outcome, audit, stages>>

Ends == {"written", "existing", "collision", "denied", "io", "dead"}

\* What the theorem in KnowledgeProofs needs.
IngestAssumption == ContentOf \in [Imports -> Contents] /\ None \notin Ends

Init ==
  /\ blob = [c \in Contents |-> "absent"]
  /\ at = [i \in Imports |-> "start"]
  /\ outcome = [i \in Imports |-> None]
  /\ audit = [i \in Imports |-> <<>>]
  /\ stages = [i \in Imports |-> <<>>]

------------------------------------------------------------------------------

Goto(i, place) == at' = [at EXCEPT ![i] = place]

Finish(i, how) ==
  /\ outcome' = [outcome EXCEPT ![i] = how]
  /\ Goto(i, IF how \in {"written", "existing"} THEN "parse" ELSE "done")

\* Every operation of the sandbox context leaves one record, allowed or not.
Recorded(i, op, decision) ==
  audit' = IF i \in Sandboxed
             THEN [audit EXCEPT ![i] = Append(@, <<op, decision>>)] ELSE audit

File(i) == blob[ContentOf[i]]

\* read_input, through the policy.  RawCas::append has its bytes from the caller.
ReadInput(i) ==
  /\ at[i] = "start"
  /\ IF i \notin Sandboxed \/ i \in Permitted
       THEN /\ Goto(i, "look") /\ Recorded(i, "read", "allow")
            /\ UNCHANGED outcome
       ELSE Finish(i, "denied") /\ Recorded(i, "read", "deny")
  /\ UNCHANGED <<blob, stages>>

\* path.exists()
Look(i) ==
  /\ at[i] = "look"
  /\ Goto(i, IF File(i) = "absent" THEN "create" ELSE "compare")
  /\ UNCHANGED <<blob, outcome, audit, stages>>

\* Mutant: whatever is there under the name is taken for the content.
CompareTrusting(i) ==
  /\ at[i] = "compare"
  /\ Finish(i, "existing")
  /\ UNCHANGED <<blob, audit, stages>>

\* The file there is read and its hash compared.
Compare(i) ==
  /\ at[i] = "compare"
  /\ Finish(i, IF File(i) = "whole" THEN "existing" ELSE "collision")
  /\ UNCHANGED <<blob, audit, stages>>

\* create_new(true).open(): the file is there from here on, and empty.  If another
\* import was faster the content is compared after all; the sandbox context then
\* records a refused write.
Create(i) ==
  /\ at[i] = "create"
  /\ IF File(i) = "absent"
       THEN /\ blob' = [blob EXCEPT ![ContentOf[i]] = "partial"]
            /\ Goto(i, "write") /\ UNCHANGED audit
       ELSE /\ Goto(i, "compare") /\ Recorded(i, "write", "deny")
            /\ UNCHANGED blob
  /\ UNCHANGED <<outcome, stages>>

\* write_all
Write(i) ==
  /\ at[i] = "write"
  /\ blob' = [blob EXCEPT ![ContentOf[i]] = "whole"]
  /\ Finish(i, "written") /\ Recorded(i, "write", "allow")
  /\ UNCHANGED stages

\* write_all fails half-way: nothing removes the file.
WriteFails(i) ==
  /\ at[i] = "write"
  /\ Finish(i, "io") /\ Recorded(i, "write", "deny")
  /\ UNCHANGED <<blob, stages>>

\* The stage parsing ends in.
Parsed(kind) == IF kind \in {"markdown", "pdf"} THEN "Parsed"
                ELSE IF kind = "degraded" THEN "Partial" ELSE "Failed"

\* ingest_committed_source: the manifest goes through its stages, from the bytes
\* that were read and not from the file.  A failed parse leaves the blob alone.
Parse(i) ==
  /\ at[i] = "parse"
  /\ Goto(i, "done")
  /\ stages' = IF i \in Sandboxed
       THEN [stages EXCEPT ![i] =
              <<"RawCommitted", "ParseRunning", Parsed(KindOf[ContentOf[i]])>>]
       ELSE stages
  /\ UNCHANGED <<blob, outcome, audit>>

\* The process of the import dies.
Die(i) ==
  /\ at[i] \in {"compare", "create", "write", "parse"}
  /\ Goto(i, "done")
  /\ outcome' = [outcome EXCEPT ![i] = "dead"]
  /\ UNCHANGED <<blob, audit, stages>>

Next ==
  \E i \in Imports :
    \/ ReadInput(i)
    \/ Look(i)
    \/ Compare(i)
    \/ Create(i)
    \/ Write(i)
    \/ WriteFails(i)
    \/ Parse(i)
    \/ Die(i)

Spec == Init /\ [][Next]_vars

------------------------------------------------------------------------------
(* What is asked of the raw store *)

TypeOK ==
  /\ blob \in [Contents -> {"absent", "partial", "whole"}]
  /\ at \in [Imports -> {"start", "look", "compare", "create", "write", "parse", "done"}]
  /\ outcome \in [Imports -> Ends \cup {None}]
  /\ \A i \in Imports : Len(audit[i]) <= 2 /\ Len(stages[i]) \in {0, 3}

\* The store is append-only: a whole blob is never opened for writing again,
\* however many imports of its content race (docs/architecture/overview.md:55).
WholeStays == [][\A c \in Contents : blob[c] = "whole" => blob'[c] = "whole"]_vars

\* An import that reports its content stored can rely on all of it being there,
\* and of all the imports of a content at most one says it wrote it: what a
\* manifest refers to is in the store, whatever became of the other imports.
StoredIsWhole ==
  /\ \A i \in Imports : outcome[i] \in {"written", "existing"} => File(i) = "whole"
  /\ \A i, j \in Imports :
       outcome[i] = "written" /\ outcome[j] = "written" /\ i # j
         => ContentOf[i] # ContentOf[j]

\* A name never collides: one content, one name ("source ingest failures must keep
\* a recoverable state", docs/plans/phase-1-task-plan.md:89).
NoFalseCollision == \A i \in Imports : outcome[i] # "collision"

=============================================================================
