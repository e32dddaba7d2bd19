------------------------------ MODULE SandboxRun ------------------------------
(***************************************************************************)
(* execute_in_sandbox (crates/seaki-sandbox/src/lib.rs): a child process,  *)
(* the thread that runs it and the thread that kills it after the timeout. *)
(* The two threads share the child behind one mutex.                       *)
(***************************************************************************)
EXTENDS Naturals

CONSTANTS
  Habits   \* what children may do, of "deaf" (need not read an input larger than the
           \* pipe), "mute" (closes its outputs and runs on) and "parent" (leaves its
           \* outputs to a process of its own)

VARIABLES
  habits,    \* what this child does of it
  runner,    \* where the running thread is
  timer,     \* where the timeout thread is
  lock,      \* the mutex: held by "runner", or "free"
  timedOut,  \* the flag timed_out
  child,     \* "alive", "exited", "crashed" (a signal of its own) or "killed"
  input,     \* "pending" until all of it is in the pipe, "taken", or "refused"
  open,      \* the output pipes some process can still write to
  result     \* what the call returned

vars == <<habits, runner, timer, lock, timedOut, child, input, open, result>>

Init ==
  /\ habits \in SUBSET Habits
  /\ input \in IF "deaf" \in habits THEN {"pending", "taken"} ELSE {"taken"}
  /\ runner = "feed" /\ timer = "asleep" /\ lock = "free"
  /\ timedOut = FALSE /\ child = "alive"
  /\ open = {"stdout", "stderr"} /\ result = "none"

------------------------------------------------------------------------------
(* The child *)

Alive == child = "alive"

\* The child makes room for the rest of the input, or closes the pipe.
TakesInput ==
  /\ Alive /\ input = "pending"
  /\ input' \in {"taken", "refused"}
  /\ UNCHANGED <<habits, runner, timer, lock, timedOut, child, open, result>>

\* It closes an output and does not end.
ClosesOutput ==
  /\ Alive /\ "mute" \in habits
  /\ \E o \in open : open' = open \ {o}
  /\ UNCHANGED <<habits, runner, timer, lock, timedOut, child, input, result>>

\* What stays open when the child is gone.
Inherited == IF "parent" \in habits THEN {{}, open} ELSE {{}}

Ends ==
  /\ Alive
  /\ child' \in {"exited", "crashed"} /\ open' \in Inherited
  /\ UNCHANGED <<habits, runner, timer, lock, timedOut, input, result>>

------------------------------------------------------------------------------
(* The timeout thread *)

\* Mutant: it kills the child first and raises the flag later.
WakeSilently ==
  /\ timer = "asleep" /\ timer' = "locking"
  /\ UNCHANGED <<habits, runner, lock, timedOut, child, input, open, result>>

\* The sleep is over: it raises the flag before it asks for the lock.
Wake ==
  /\ timer = "asleep" /\ timer' = "locking"
  /\ timedOut' = TRUE
  /\ UNCHANGED <<habits, runner, lock, child, input, open, result>>

\* Mutant: with the lock taken it gives up (try_lock).
KillOrGiveUp ==
  /\ timer = "locking" /\ timer' = "done"
  /\ IF lock = "free" /\ Alive
       THEN child' = "killed" /\ open' \in Inherited
       ELSE UNCHANGED <<child, open>>
  /\ UNCHANGED <<habits, runner, lock, timedOut, input, result>>

\* lock().unwrap().kill(), which does nothing to a child that was waited for.  A
\* child that has ended and was not waited for is a zombie; the signal is lost.
Kill ==
  /\ timer = "locking" /\ lock = "free"
  /\ timer' = "done"
  /\ IF Alive THEN child' = "killed" /\ open' \in Inherited
     ELSE UNCHANGED <<child, open>>
  /\ UNCHANGED <<habits, runner, lock, timedOut, input, result>>

------------------------------------------------------------------------------
(* The running thread *)

\* It takes the lock and begins to write the input.
Lock ==
  /\ runner = "feed" /\ lock = "free"
  /\ lock' = "runner" /\ runner' = "feeding"
  /\ UNCHANGED <<habits, timer, timedOut, child, input, open, result>>

\* write_all has returned; the handles are taken and the lock is dropped.
Fed ==
  /\ runner = "feeding" /\ input = "taken"
  /\ lock' = "free" /\ runner' = "stdout"
  /\ UNCHANGED <<habits, timer, timedOut, child, input, open, result>>

\* The pipe is broken: write_all fails and `?` returns, leaving the child.
FeedFails ==
  /\ runner = "feeding" /\ (input = "refused" \/ (input = "pending" /\ ~Alive))
  /\ lock' = "free" /\ runner' = "done" /\ result' = "io"
  /\ UNCHANGED <<habits, timer, timedOut, child, input, open>>

\* read_to_end of one output returns once nobody can write to it.
Drain ==
  /\ runner \in {"stdout", "stderr"} /\ runner \notin open
  /\ runner' = IF runner = "stdout" THEN "stderr" ELSE "wait"
  /\ UNCHANGED <<habits, timer, lock, timedOut, child, input, open, result>>

\* child.lock().unwrap() before the wait.
LockToWait ==
  /\ runner = "wait" /\ lock = "free"
  /\ lock' = "runner" /\ runner' = "waiting"
  /\ UNCHANGED <<habits, timer, timedOut, child, input, open, result>>

\* status.code() is None for a child that a signal ended.
Outcome == IF timedOut /\ child # "exited" THEN "timeout" ELSE "finished"

\* wait() returns, with the lock held all along.
Waited ==
  /\ runner = "waiting" /\ ~Alive
  /\ lock' = "free" /\ runner' = "done" /\ result' = Outcome
  /\ UNCHANGED <<habits, timer, timedOut, child, input, open>>

Runner == Lock \/ Fed \/ FeedFails \/ Drain \/ LockToWait \/ Waited
Timer == Wake \/ Kill
Child == TakesInput \/ ClosesOutput \/ Ends

Next == Runner \/ Timer \/ Child

\* The threads run; the child need not do anything.  kill() takes and drops the
\* lock in one step, so the timeout thread never holds it between two.
Fairness == WF_vars(Runner) /\ WF_vars(Timer)

Spec == Init /\ [][Next]_vars /\ Fairness

------------------------------------------------------------------------------
(* What is asked of it *)

\* The call returns although the child need not do anything, as long as the input
\* fits into the pipe and the outputs close with the child: then the thread that
\* waits never holds the lock that the timeout thread needs.
RunEnds == habits = {} => <>(runner = "done")

\* The timeout binds every child ("returns an error when ... it times out",
\* crates/seaki-sandbox/src/lib.rs:216).
TimeoutBinds == <>(runner = "done")

\* A child the timeout thread killed is reported as timed out, and a child that
\* ended by itself with an exit code is reported with it, also after the timeout.
TimeoutTold ==
  runner = "done" /\ result # "io" =>
    /\ (child = "killed" => result = "timeout")
    /\ (child = "exited" => result = "finished")

\* When both threads are through nothing of the call is left running, also when
\* it returned early with an error.
NothingLeft == runner = "done" /\ timer = "done" => ~Alive

\* The two together: a call of execute_in_sandbox settles what became of its child.
SandboxSettles == TimeoutTold /\ NothingLeft

=============================================================================
