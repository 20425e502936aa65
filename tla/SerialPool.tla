----------------------------- MODULE SerialPool -----------------------------
(***************************************************************************)
(* run_serial (gcg-core/src/pool.rs): the path map_indexed takes with one  *)
(* worker.  Tasks run in index order on the calling thread; the interrupt  *)
(* flag is read before each task, after a task that failed, and at the     *)
(* end.  A task may also read the flag itself and stop with an error.      *)
(***************************************************************************)
EXTENDS PoolOutcomes

VARIABLES
  verdict,    \* what each task does, fixed by its closure
  cancelled,  \* the SIGINT flag
  index,      \* the loop variable
  running,    \* the task at index was started
  out,        \* number of values pushed
  done,       \* last on_done count
  outcome

vars == <<verdict, cancelled, index, running, out, done, outcome>>

Init ==
  /\ verdict \in [Index -> Verdicts]
  /\ cancelled = FALSE
  /\ index = 0
  /\ running = FALSE
  /\ out = 0
  /\ done = 0
  /\ outcome = Pending

\* SIGINT: the signal handler stores the flag at any moment.
Interrupt ==
  /\ ~cancelled
  /\ outcome = Pending
  /\ cancelled' = TRUE
  /\ UNCHANGED <<verdict, index, running, out, done, outcome>>

End(o) ==
  /\ outcome' = o
  /\ UNCHANGED <<verdict, cancelled, index, out, done>>

\* The head of the loop: an interrupt returns, otherwise the task starts.
StartTask ==
  /\ outcome = Pending /\ ~running /\ index < N
  /\ IF cancelled
       THEN End(Cancelled) /\ UNCHANGED running
       ELSE running' = TRUE /\ UNCHANGED <<verdict, cancelled, index, out, done, outcome>>

TaskOk ==
  /\ outcome = Pending /\ running
  /\ verdict[index] = "ok"
  /\ out' = out + 1
  /\ done' = index + 1
  /\ index' = index + 1
  /\ running' = FALSE
  /\ UNCHANGED <<verdict, cancelled, outcome>>

ErrorEnds == IF cancelled THEN Cancelled ELSE TaskError(index)

\* An error of the task's own, or of a task that stopped because it saw the flag.
TaskErr ==
  /\ outcome = Pending /\ running
  /\ verdict[index] = "err" \/ cancelled
  /\ running' = FALSE
  /\ End(ErrorEnds)

\* Nothing catches the panic of a task here.
TaskPanic ==
  /\ outcome = Pending /\ running
  /\ verdict[index] = "panic"
  /\ running' = FALSE
  /\ End(Panic(index))

Finish ==
  /\ outcome = Pending /\ ~running /\ index = N
  /\ End(IF cancelled THEN Cancelled ELSE Values)
  /\ UNCHANGED running

Returned ==
  /\ outcome # Pending
  /\ UNCHANGED vars

Next == Interrupt \/ StartTask \/ TaskOk \/ TaskErr \/ TaskPanic \/ Finish \/ Returned

Spec == Init /\ [][Next]_vars
=============================================================================
