-------------------------------- MODULE Pool --------------------------------
(***************************************************************************)
(* run_parallel (gcg-core/src/pool.rs): worker threads claim task indices  *)
(* in increasing order from one counter; a running task may fork jobs onto *)
(* one shared queue, which idle workers and the forking task itself run;   *)
(* waiting is a condition variable on the queue's mutex.  The calling      *)
(* thread (the coordinator) receives the results.                          *)
(*                                                                         *)
(* One step of a thread is one critical section of the queue mutex, or one *)
(* access to a shared atomic, with the thread's private work before it.    *)
(* Where a shared atomic is read inside a critical section and written     *)
(* outside of any (Fork::is_done, Run::stop_claiming), the section is two  *)
(* steps and "mutex" names its holder between them.                        *)
(***************************************************************************)
EXTENDS PoolOutcomes, Sequences, SequencesExt, FiniteSets

CONSTANTS
  Workers,        \* the threads: min(threads, n) of them, at least two
  Width,          \* number of jobs of one fork_join
  MaxForks,       \* bound: fork_joins one task makes, one after the other
  Behaviours,     \* the tasks a run may be given
  SpuriousWakes,  \* bound: condvar waits that may return without a notify
  MayInterrupt,   \* whether SIGINT can arrive
  Nobody          \* the holder of a free mutex

ASSUME PoolAssumption ==
  /\ Width \in Nat /\ Width >= 2
  /\ MaxForks \in Nat
  /\ Behaviours \subseteq [forks : 0 .. MaxForks, crash : 0 .. Width, end : Verdicts]
  /\ SpuriousWakes \in Nat
  /\ MayInterrupt \in BOOLEAN
  /\ Nobody \notin Workers
  /\ IsFiniteSet(Workers) /\ Workers # {}

NoIndex == N                      \* usize::MAX: above every index
JobNo   == 0 .. Width - 1
Jobs    == Index \X JobNo         \* job j of the fork task i is in
NoJob   == <<NoIndex, 0>>

VARIABLES
  plan,          \* plan[i]: the closure of task i: its forks, which of its
                 \* jobs panics (Width: none), and what it returns
  cancelled,     \* Cancel, the SIGINT flag
  at,            \* where each worker is
  index,         \* the task a worker runs, or NoIndex
  job,           \* the job a worker runs, or NoJob
  held,          \* the scratch a worker's job borrows
  mutex,         \* who is inside a two-step critical section of the queue lock
  jobs,          \* QueueState.jobs
  active,        \* QueueState.active
  claims_closed, \* QueueState.claims_closed
  next,          \* Run.next
  lowest_failed, \* Shared.lowest_failed
  panicked,      \* Run.panicked: the lowest panicking index
  scratch,       \* Shared.scratch, the free list of jobs' scratch values
  fork,          \* fork[i]: remaining and slots of the fork task i is in
  forks_left,    \* fork_joins task i has still to make
  result,        \* result[i]: what task i has returned so far
  channel,       \* indices sent on the mpsc channel and not yet received
  slots,         \* indices whose value the coordinator holds
  failure,       \* the coordinator's lowest failed index
  quiet,         \* the coordinator stopped reporting progress
  done,          \* last on_done count
  outcome,       \* what map_indexed returned
  spurious       \* spurious wakeups left

taskVars  == <<plan, forks_left, result>>
queueVars == <<jobs, active, claims_closed>>
claimVars == <<next, lowest_failed, panicked>>
coordVars == <<channel, slots, failure, quiet, done, outcome>>
vars == <<plan, cancelled, at, index, job, held, mutex, jobs, active, claims_closed, next,
          lowest_failed, panicked, scratch, fork, forks_left, result, channel, slots,
          failure, quiet, done, outcome, spurious>>

\* What task i returns when nothing stops it: a panicking job panics its task.
Verdict(p) == IF p.forks > 0 /\ p.crash < Width THEN "panic" ELSE p.end
verdict    == [i \in Index |-> Verdict(plan[i])]

\* Mutant: the latest failure, not the lowest.
LatestFailure(a, b) == b
\* fetch_min, and the coordinator's choice among failures.
Lower(a, b)  == IF a <= b THEN a ELSE b
IdleFork     == [remaining |-> 0, slots |-> [j \in JobNo |-> "none"]]
\* Mutant: only the queued jobs are counted.
NewForkQueuedOnly == [IdleFork EXCEPT !.remaining = Width - 1]
NewFork      == [IdleFork EXCEPT !.remaining = Width]

\* Every thread waiting on the condvar leaves its wait (notify_all).
Awake(pc) == [w \in Workers |-> CASE pc[w] = "sleep"     -> "claim"
                                  [] pc[w] = "joinsleep" -> "join"
                                  [] OTHER               -> pc[w]]
MoveAndNotify(w, to) == at' = [Awake(at) EXCEPT ![w] = to]
Move(w, from, to)    == at[w] = from /\ at' = [at EXCEPT ![w] = to]

Init ==
  /\ plan \in [Index -> Behaviours]
  /\ cancelled = FALSE
  /\ at = [w \in Workers |-> "claim"]
  /\ index = [w \in Workers |-> NoIndex]
  /\ job = [w \in Workers |-> NoJob]
  /\ held = [w \in Workers |-> "none"]
  /\ mutex = Nobody
  /\ jobs = <<>> /\ active = 0 /\ claims_closed = FALSE
  /\ next = 0 /\ lowest_failed = NoIndex /\ panicked = NoIndex
  /\ scratch = <<>>
  /\ fork = [i \in Index |-> IdleFork]
  /\ forks_left = [i \in Index |-> plan[i].forks]
  /\ result = [i \in Index |-> "none"]
  /\ channel = {} /\ slots = {} /\ failure = NoIndex /\ quiet = FALSE
  /\ done = 0 /\ outcome = Pending
  /\ spurious = SpuriousWakes

-----------------------------------------------------------------------------
(* Run::next_work, the loop a worker claims tasks and jobs in.             *)

stop_claiming == lowest_failed # NoIndex \/ cancelled

\* A queued job comes before a new index.
TakeJob(w) ==
  /\ mutex = Nobody /\ jobs # <<>>
  /\ Move(w, "claim", "job")
  /\ job' = [job EXCEPT ![w] = Head(jobs)]
  /\ jobs' = Tail(jobs)
  /\ UNCHANGED <<cancelled, index, held, mutex, active, claims_closed, scratch, fork, spurious>>
  /\ UNCHANGED <<taskVars, claimVars, coordVars>>

\* stop_claiming is read, and found false; the lock stays held.
CheckClaims(w) ==
  /\ mutex = Nobody /\ jobs = <<>> /\ ~claims_closed /\ ~stop_claiming
  /\ Move(w, "claim", "claiming")
  /\ mutex' = w
  /\ UNCHANGED <<cancelled, index, job, held, scratch, fork, spurious>>
  /\ UNCHANGED <<taskVars, queueVars, claimVars, coordVars>>

\* Nothing to claim: wait while a task runs, otherwise wake the others and exit.
DoneOrWait(w) ==
  /\ claims_closed' = TRUE
  /\ IF active = 0
       THEN MoveAndNotify(w, "exited")
       ELSE at' = [at EXCEPT ![w] = "sleep"]

\* Mutant: the last index is never claimed.
claimableOffByOne(i) == i < N - 1
claimable(i) == i < N

\* next.fetch_add, then the lock is released.
Claim(w) ==
  /\ at[w] = "claiming"
  /\ next' = next + 1
  /\ mutex' = Nobody
  /\ IF claimable(next)
       THEN /\ at' = [at EXCEPT ![w] = "task"]
            /\ index' = [index EXCEPT ![w] = next]
            /\ active' = active + 1
            /\ UNCHANGED claims_closed
       ELSE DoneOrWait(w) /\ UNCHANGED <<index, active>>
  /\ UNCHANGED <<cancelled, job, held, jobs, lowest_failed, panicked, scratch, fork, spurious>>
  /\ UNCHANGED <<taskVars, coordVars>>

NoMoreWork(w) ==
  /\ at[w] = "claim" /\ mutex = Nobody /\ jobs = <<>>
  /\ claims_closed \/ stop_claiming
  /\ DoneOrWait(w)
  /\ UNCHANGED <<cancelled, index, job, held, mutex, jobs, active, scratch, fork, spurious>>
  /\ UNCHANGED <<taskVars, claimVars, coordVars>>

-----------------------------------------------------------------------------
(* The body of worker for a claimed task.                                  *)

\* The closure returned or unwound with v: lowest_failed.fetch_min, record_panic.
Finish(w, v) ==
  LET i == index[w] IN
  /\ at' = [at EXCEPT ![w] = "ended"]
  /\ result' = [result EXCEPT ![i] = v]
  /\ lowest_failed' = IF v = "ok" THEN lowest_failed ELSE Lower(lowest_failed, i)
  /\ panicked' = IF v = "panic" THEN Lower(panicked, i) ELSE panicked
  /\ UNCHANGED <<plan, next>>

superseded(i) == i > lowest_failed

\* The task ends by itself, or stops early because it saw superseded or cancelled.
TaskReturns(w) ==
  /\ at[w] = "task"
  /\ \/ forks_left[index[w]] = 0 /\ Finish(w, plan[index[w]].end)
     \/ (superseded(index[w]) \/ cancelled) /\ Finish(w, "err")
  /\ UNCHANGED <<cancelled, index, job, held, mutex, scratch, fork, forks_left, spurious>>
  /\ UNCHANGED <<queueVars, coordVars>>

\* drop(guard): the task counts as ended before its result is sent.
DropGuard(w) ==
  /\ at[w] = "ended" /\ mutex = Nobody
  /\ active' = active - 1
  /\ MoveAndNotify(w, IF result[index[w]] = "panic" THEN "claim" ELSE "send")
  /\ index' = IF result[index[w]] = "panic" THEN [index EXCEPT ![w] = NoIndex] ELSE index
  /\ UNCHANGED <<cancelled, job, held, mutex, jobs, claims_closed, scratch, fork, spurious>>
  /\ UNCHANGED <<taskVars, claimVars, coordVars>>

Send(w) ==
  /\ Move(w, "send", "claim")
  /\ channel' = channel \cup {index[w]}
  /\ index' = [index EXCEPT ![w] = NoIndex]
  /\ UNCHANGED <<cancelled, job, held, mutex, scratch, fork, spurious>>
  /\ UNCHANGED <<taskVars, queueVars, claimVars, slots, failure, quiet, done, outcome>>

-----------------------------------------------------------------------------
(* TaskCx::fork_join, Shared::with_scratch and Shared::run_job.            *)

\* Jobs 1.. are queued and everybody is woken; the task keeps job 0.
Fork(w) ==
  LET i == index[w] IN
  /\ at[w] = "task" /\ mutex = Nobody /\ forks_left[i] > 0
  /\ jobs' = jobs \o [j \in 1 .. Width - 1 |-> <<i, j>>]
  /\ fork' = [fork EXCEPT ![i] = NewFork]
  /\ job' = [job EXCEPT ![w] = <<i, 0>>]
  /\ MoveAndNotify(w, "first")
  /\ UNCHANGED <<cancelled, index, held, mutex, active, claims_closed, scratch, spurious>>
  /\ UNCHANGED <<taskVars, claimVars, coordVars>>

\* The job's closure on a borrowed scratch: the last one returned, or a new
\* one.  A job that panics leaves the scratch half-updated.
JobPanics(jb) == plan[jb[1]].crash = jb[2]

Borrow(w) ==
  /\ held' = [held EXCEPT ![w] =
                IF JobPanics(job[w]) \/ (scratch # <<>> /\ Last(scratch) = "dirty")
                  THEN "dirty" ELSE "clean"]
  /\ scratch' = IF scratch = <<>> THEN scratch ELSE Front(scratch)

GiveBack(w) ==
  /\ held' = [held EXCEPT ![w] = "none"]
  /\ scratch' = Append(scratch, held[w])

\* Mutant: the panic of a job is swallowed.
JobResultValue(jb) == "value"
JobResult(jb) == IF JobPanics(jb) THEN "panic" ELSE "value"

\* Fork::complete: the slot is stored, then the job is counted.
Stored(f, jb) == [f EXCEPT !.slots[jb[2]] = JobResult(jb)]
Counted(f)    == [f EXCEPT !.remaining = @ - 1]

\* Job 0 runs on the forking thread, which then stores its result and counts it.
RunFirst(w) ==
  /\ Move(w, "first", "ranfirst")
  /\ Borrow(w)
  /\ UNCHANGED <<cancelled, index, job, mutex, fork, spurious>>
  /\ UNCHANGED <<taskVars, queueVars, claimVars, coordVars>>

CompleteFirst(w) ==
  /\ Move(w, "ranfirst", "join")
  /\ GiveBack(w)
  /\ fork' = [fork EXCEPT ![job[w][1]] = Counted(Stored(@, job[w]))]
  /\ job' = [job EXCEPT ![w] = NoJob]
  /\ UNCHANGED <<cancelled, index, mutex, spurious>>
  /\ UNCHANGED <<taskVars, queueVars, claimVars, coordVars>>

\* A queued job: its slot is stored, then (CountJob) remaining goes down.
RunJob(w) ==
  /\ Move(w, "job", "ran")
  /\ Borrow(w)
  /\ fork' = [fork EXCEPT ![job[w][1]] = Stored(@, job[w])]
  /\ UNCHANGED <<cancelled, index, job, mutex, spurious>>
  /\ UNCHANGED <<taskVars, queueVars, claimVars, coordVars>>

CountJob(w) ==
  /\ Move(w, "ran", "counted")
  /\ fork' = [fork EXCEPT ![job[w][1]] = Counted(@)]
  /\ UNCHANGED <<cancelled, index, job, held, mutex, scratch, spurious>>
  /\ UNCHANGED <<taskVars, queueVars, claimVars, coordVars>>

GiveBackAndNotify(w) ==
  /\ at[w] = "counted"
  /\ MoveAndNotify(w, IF index[w] = NoIndex THEN "claim" ELSE "join")
  /\ GiveBack(w)
  /\ job' = [job EXCEPT ![w] = NoJob]
  /\ UNCHANGED <<cancelled, index, mutex, fork, spurious>>
  /\ UNCHANGED <<taskVars, queueVars, claimVars, coordVars>>

\* Mutant: the notify does not take the lock first.
EndJobUnlocked(w) == GiveBackAndNotify(w)

\* The scratch goes back; the lock is taken and released before the notify,
\* so that no thread is between its is_done and its wait.
EndJob(w) == mutex = Nobody /\ GiveBackAndNotify(w)

OwnJobs(i) == {k \in 1 .. Len(jobs) : jobs[k][1] = i}

\* The waiting task runs a job of its own fork first, else the oldest one.
NextJob(k, i) ==
  IF OwnJobs(i) = {} THEN k = 1 ELSE k \in OwnJobs(i) /\ \A l \in OwnJobs(i) : k <= l

JoinHelp(w) ==
  /\ Move(w, "join", "job")
  /\ mutex = Nobody /\ fork[index[w]].remaining # 0
  /\ \E k \in 1 .. Len(jobs) :
       /\ NextJob(k, index[w])
       /\ job' = [job EXCEPT ![w] = jobs[k]]
       /\ jobs' = RemoveAt(jobs, k)
  /\ UNCHANGED <<cancelled, index, held, mutex, active, claims_closed, scratch, fork, spurious>>
  /\ UNCHANGED <<taskVars, claimVars, coordVars>>

\* is_done was false and the queue is empty: the task will wait ...
JoinCheck(w) ==
  /\ Move(w, "join", "joincheck")
  /\ mutex = Nobody /\ fork[index[w]].remaining # 0 /\ jobs = <<>>
  /\ mutex' = w
  /\ UNCHANGED <<cancelled, index, job, held, scratch, fork, spurious>>
  /\ UNCHANGED <<taskVars, queueVars, claimVars, coordVars>>

\* ... and the wait releases the lock.
JoinWait(w) ==
  /\ Move(w, "joincheck", "joinsleep")
  /\ mutex' = Nobody
  /\ UNCHANGED <<cancelled, index, job, held, scratch, fork, spurious>>
  /\ UNCHANGED <<taskVars, queueVars, claimVars, coordVars>>

\* take_results: the task goes on, or a panicked job unwinds it.
JoinDone(w) ==
  LET i == index[w] IN
  /\ at[w] = "join" /\ mutex = Nobody /\ fork[i].remaining = 0
  /\ fork' = [fork EXCEPT ![i] = IdleFork]
  /\ forks_left' = [forks_left EXCEPT ![i] = @ - 1]
  /\ IF \A j \in JobNo : fork[i].slots[j] = "value"
       THEN at' = [at EXCEPT ![w] = "task"] /\ UNCHANGED <<claimVars, plan, result>>
       ELSE Finish(w, "panic")
  /\ UNCHANGED <<cancelled, index, job, held, mutex, scratch, spurious>>
  /\ UNCHANGED <<queueVars, coordVars>>

-----------------------------------------------------------------------------
(* The calling thread, the signal handler, and the condition variable.     *)

ReceiveValue(i) ==
  /\ i \in channel /\ result[i] = "ok"
  /\ channel' = channel \ {i}
  /\ slots' = slots \cup {i}
  /\ quiet' = (quiet \/ cancelled)
  /\ done' = IF quiet' THEN done ELSE done + 1
  /\ UNCHANGED <<cancelled, at, index, job, held, mutex, scratch, fork, spurious>>
  /\ UNCHANGED <<taskVars, queueVars, claimVars, failure, outcome>>

TakeError(i) ==
  /\ i \in channel /\ result[i] = "err"
  /\ channel' = channel \ {i}
  /\ failure' = Lower(failure, i)
  /\ UNCHANGED <<cancelled, at, index, job, held, mutex, scratch, fork, spurious>>
  /\ UNCHANGED <<taskVars, queueVars, claimVars, slots, done, outcome>>

ReceiveError(i) == TakeError(i) /\ quiet' = TRUE

\* Mutant: an error wins over an interrupt.
EndingErrorFirst ==
  IF panicked # NoIndex THEN Panic(panicked)
  ELSE IF failure # NoIndex THEN TaskError(failure)
  ELSE IF cancelled THEN Cancelled ELSE Values

\* A panic, then the interrupt, then the lowest error; Panic(NoIndex) is the
\* unreachable!() of a run without any of them that misses a value.
Ending ==
  IF panicked # NoIndex THEN Panic(panicked)
  ELSE IF cancelled THEN Cancelled
  ELSE IF failure # NoIndex THEN TaskError(failure)
  ELSE IF slots = Index THEN Values ELSE Panic(NoIndex)

\* Every worker has dropped its sender and the channel is empty.
Return ==
  /\ outcome = Pending
  /\ channel = {} /\ \A w \in Workers : at[w] = "exited"
  /\ outcome' = Ending
  /\ UNCHANGED <<cancelled, at, index, job, held, mutex, scratch, fork, spurious>>
  /\ UNCHANGED <<taskVars, queueVars, claimVars, channel, slots, failure, quiet, done>>

Interrupt ==
  /\ MayInterrupt /\ ~cancelled /\ outcome = Pending
  /\ cancelled' = TRUE
  /\ UNCHANGED <<at, index, job, held, mutex, scratch, fork, spurious>>
  /\ UNCHANGED <<taskVars, queueVars, claimVars, coordVars>>

SpuriousWake(w) ==
  /\ at[w] \in {"sleep", "joinsleep"} /\ spurious > 0
  /\ at' = [at EXCEPT ![w] = Awake(at)[w]]
  /\ spurious' = spurious - 1
  /\ UNCHANGED <<cancelled, index, job, held, mutex, scratch, fork>>
  /\ UNCHANGED <<taskVars, queueVars, claimVars, coordVars>>

Worker(w) ==
  \/ TakeJob(w) \/ CheckClaims(w) \/ Claim(w) \/ NoMoreWork(w)
  \/ TaskReturns(w) \/ DropGuard(w) \/ Send(w)
  \/ Fork(w) \/ RunFirst(w) \/ CompleteFirst(w) \/ RunJob(w) \/ CountJob(w) \/ EndJob(w)
  \/ JoinHelp(w) \/ JoinCheck(w) \/ JoinWait(w) \/ JoinDone(w)

Coordinator == Return \/ \E i \in Index : ReceiveValue(i) \/ ReceiveError(i)

Next ==
  \/ \E w \in Workers : Worker(w) \/ SpuriousWake(w)
  \/ Coordinator \/ Interrupt

\* Threads are scheduled, the lock is granted; nothing is assumed of SIGINT.
Fairness == WF_vars(Coordinator) /\ \A w \in Workers : WF_vars(Worker(w))

Spec == Init /\ [][Next]_vars /\ Fairness
-----------------------------------------------------------------------------
Places == {"claim", "claiming", "sleep", "exited", "task", "ended", "send", "first",
           "ranfirst", "job", "ran", "counted", "join", "joincheck", "joinsleep"}

TypeOK ==
  /\ plan \in [Index -> Behaviours]
  /\ cancelled \in BOOLEAN
  /\ at \in [Workers -> Places]
  /\ index \in [Workers -> Index \cup {NoIndex}]
  /\ job \in [Workers -> Jobs \cup {NoJob}]
  /\ held \in [Workers -> {"none", "clean", "dirty"}]
  /\ mutex \in Workers \cup {Nobody}
  /\ jobs \in Seq(Jobs)
  /\ active \in Int
  /\ claims_closed \in BOOLEAN
  /\ next \in Nat
  /\ lowest_failed \in Index \cup {NoIndex}
  /\ panicked \in Index \cup {NoIndex}
  /\ scratch \in Seq({"clean", "dirty"})
  /\ fork \in [Index -> [remaining : Int, slots : [JobNo -> {"none", "value", "panic"}]]]
  /\ forks_left \in [Index -> 0 .. MaxForks]
  /\ result \in [Index -> Verdicts \cup {"none"}]
  /\ channel \subseteq Index
  /\ slots \subseteq Index
  /\ failure \in Index \cup {NoIndex}
  /\ quiet \in BOOLEAN
  /\ done \in Nat
  /\ outcome \in Outcomes \cup {Pending}
  /\ spurious \in Nat

(***************************************************************************)
(* A worker waits in next_work only while the queue is empty and a task is *)
(* running, and a task waits in fork_join only while the queue is empty    *)
(* and one of its jobs is unfinished, or the thread that finished the last *)
(* one has its notify still to do: no wakeup is lost.  A worker exits only *)
(* when no task runs and no job is queued, for good.                       *)
(***************************************************************************)
NoLostWakeup ==
  \A w \in Workers :
    /\ at[w] = "sleep" => jobs = <<>> /\ active > 0
    /\ at[w] = "joinsleep" =>
         /\ jobs = <<>>
         /\ fork[index[w]].remaining = 0 => \E x \in Workers : at[x] = "counted"
    /\ at[w] = "exited" => active = 0 /\ jobs = <<>> /\ claims_closed

\* The threads that have a job of task i and have not counted it.
Uncounted(i) == {w \in Workers : job[w][1] = i /\ at[w] \in {"first", "ranfirst", "job", "ran"}}

(***************************************************************************)
(* Fork.remaining is the number of jobs of the fork that are queued or in  *)
(* the hands of a thread that has not counted them: no job is lost, run    *)
(* twice or counted for another fork, whoever ran it.  A zero count        *)
(* publishes every slot: take_results never meets an empty one.            *)
(***************************************************************************)
ForkComplete ==
  /\ \A i \in Index : fork[i].remaining = Cardinality(OwnJobs(i)) + Cardinality(Uncounted(i))
  /\ \A w \in Workers :
       at[w] = "join" /\ fork[index[w]].remaining = 0 =>
         \A j \in JobNo : fork[index[w]].slots[j] # "none"

\* When an error is reported, every lower task finished and its value arrived.
LowerTasksFinish ==
  outcome.kind = "task" => \A j \in Index : j < outcome.index => result[j] = "ok" /\ j \in slots

(***************************************************************************)
(* The scratch of a panicked job goes back to the free list half-updated   *)
(* (only a worker's own scratch is reset).  Other jobs may run on it, but  *)
(* then the call ends in a panic: no value is returned from such a run.    *)
(***************************************************************************)
DirtyScratchIsNeverReported ==
  outcome # Pending /\ Contains(scratch, "dirty") => outcome.kind = "panic"

Contract == INSTANCE PoolContract

(***************************************************************************)
(* Any number of workers and any schedule give an outcome the contract     *)
(* allows: that of the first bad task in index order.                      *)
(***************************************************************************)
ImplementsContract == Contract!Spec

\* Every worker exits and the call returns (no deadlock, no lost wakeup).
Terminates == <>(outcome # Pending)
=============================================================================
