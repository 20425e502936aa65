----------------------------- MODULE PoolProofs -----------------------------
(***************************************************************************)
(* Proofs about the pool (Pool.tla, MapIndexed.tla), for any number of     *)
(* tasks, workers, forks and jobs: first its tasks and outcomes, then the  *)
(* job queue (its waits, its fork counts, the scratch of its jobs), then   *)
(* the contract that the whole call implements by either path.             *)
(***************************************************************************)
EXTENDS MapIndexed, FiniteSetTheorems, SequenceTheorems, TLAPS

USE NAssumption, PoolAssumption

ForkType == [remaining : Int, slots : [JobNo -> {"none", "value", "panic"}]]

\* The types that every single step preserves.
Types ==
  /\ plan \in [Index -> Behaviours]
  /\ cancelled \in BOOLEAN
  /\ at \in [Workers -> Places]
  /\ index \in [Workers -> Index \cup {NoIndex}]
  /\ job \in [Workers -> Jobs \cup {NoJob}]
  /\ held \in [Workers -> {"none", "clean", "dirty"}]
  /\ mutex \in Workers \cup {Nobody}
  /\ jobs \in Seq(Jobs)
  /\ active \in Int
  /\ claims_closed \in BOOLEAN
  /\ next \in Nat
  /\ lowest_failed \in Index \cup {NoIndex}
  /\ panicked \in Index \cup {NoIndex}
  /\ scratch \in Seq({"clean", "dirty"})
  /\ fork \in [Index -> ForkType]
  /\ forks_left \in [Index -> 0 .. MaxForks]
  /\ result \in [Index -> Verdicts \cup {"none"}]
  /\ channel \subseteq Index
  /\ slots \subseteq Index
  /\ failure \in Index \cup {NoIndex}
  /\ quiet \in BOOLEAN
  /\ done \in Nat
  /\ spurious \in Nat

\* Where a worker is inside a task, and where it is inside a fork_join.
InTask == {"task", "ended", "send", "first", "ranfirst", "join", "joincheck", "joinsleep"}
InJob  == {"job", "ran", "counted"}
InFork == {"first", "ranfirst", "join", "joincheck", "joinsleep"}

\* A worker's place agrees with what it holds.
Place(w) ==
    /\ at[w] \in InTask => index[w] \in Index
    /\ index[w] # NoIndex => at[w] \in InTask \cup InJob
    /\ at[w] \in {"ranfirst", "ran", "counted"} => held[w] # "none"
    /\ index[w] # NoIndex /\ at[w] \in InFork \cup InJob => forks_left[index[w]] > 0
    /\ at[w] \in {"first", "ranfirst"} \cup InJob => job[w] \in Jobs

PlacesInv == \A w \in Workers : Place(w)

\* Indices are claimed in order, each by one worker.
ClaimsInv ==
  /\ \A w \in Workers : index[w] # NoIndex => index[w] < next
  /\ \A w, x \in Workers : index[w] = index[x] /\ index[w] # NoIndex => w = x

\* What a task returned, and where its result is on the way to the coordinator.
ResultsInv ==
  /\ \A i \in Index : result[i] # "none" => i < next
  /\ \A i \in Index : result[i] = "panic" => panicked <= i
  /\ \A w \in Workers :
       /\ index[w] # NoIndex /\ at[w] \notin {"ended", "send"} => result[index[w]] = "none"
       /\ at[w] = "ended" => result[index[w]] # "none"
       /\ at[w] = "send" => result[index[w]] \in {"ok", "err"}
  /\ \A i \in channel : result[i] \in {"ok", "err"}
  /\ \A i \in slots : result[i] = "ok"
  /\ failure # NoIndex => result[failure] = "err"
  /\ panicked # NoIndex => result[panicked] = "panic"

\* No claimed task is lost: it runs, or its result is sent, received or a panic.
AccountInv ==
  \A i \in Index : i < next =>
    \/ \E w \in Workers : index[w] = i
    \/ i \in channel \/ i \in slots
    \/ result[i] = "err" /\ failure <= i
    \/ result[i] = "panic"

\* lowest_failed is the least index that failed, and only higher tasks are stopped.
FailureInv ==
  /\ \A i \in Index : result[i] \in {"err", "panic"} => lowest_failed <= i
  /\ lowest_failed # NoIndex => result[lowest_failed] \in {"err", "panic"}
  /\ \A i \in Index : result[i] = "err" => verdict[i] = "err" \/ cancelled \/ lowest_failed < i
  /\ \A i \in Index : result[i] = "ok" => verdict[i] = "ok"

\* The panic of a job reaches its task.
ForksInv ==
  /\ \A i \in Index, j \in JobNo : fork[i].slots[j] = "value" => plan[i].crash # j
  /\ \A i \in Index : plan[i].crash < Width /\ result[i] = "none" => forks_left[i] = plan[i].forks

ClosedInv ==
  /\ claims_closed => next >= N \/ lowest_failed # NoIndex \/ cancelled
  /\ \A w \in Workers : at[w] = "exited" => claims_closed

IInv ==
  /\ Types /\ PlacesInv /\ ClaimsInv /\ ResultsInv /\ AccountInv /\ FailureInv
  /\ ForksInv /\ ClosedInv

\* notify_all moves workers only to places of the program.
LEMMA AwakeType ==
  ASSUME Types PROVE Awake(at) \in [Workers -> Places]
  BY DEF Awake, Types, Places

\* notify_all moves the waiting workers, and only those, out of the wait.
LEMMA AwakeKeeps ==
  ASSUME Types, NEW w \in Workers
  PROVE  /\ at[w] \notin {"sleep", "joinsleep"} => Awake(at)[w] = at[w]
         /\ at[w] = "sleep" => Awake(at)[w] = "claim"
         /\ at[w] = "joinsleep" => Awake(at)[w] = "join"
  BY DEF Awake, Types, Places

\* The types and places hold when map_indexed spawns its workers.
LEMMA TypesInit == Init => Types /\ PlacesInv
  <1> SUFFICES ASSUME Init PROVE Types /\ PlacesInv
    OBVIOUS
  <1> USE DEF Init, NoIndex, Index
  <1>1. /\ plan \in [Index -> Behaviours] /\ cancelled \in BOOLEAN
        /\ at \in [Workers -> Places] /\ index \in [Workers -> Index \cup {NoIndex}]
        /\ held \in [Workers -> {"none", "clean", "dirty"}] /\ mutex \in Workers \cup {Nobody}
    BY DEF Places
  <1>2. job \in [Workers -> Jobs \cup {NoJob}]
    BY DEF Jobs, NoJob
  <1>3. jobs \in Seq(Jobs) /\ scratch \in Seq({"clean", "dirty"})
    OBVIOUS
  <1>4. fork \in [Index -> ForkType]
    BY DEF IdleFork, ForkType
  <1>5. forks_left \in [Index -> 0 .. MaxForks]
    <2>1. ASSUME NEW i \in Index PROVE plan[i].forks \in 0 .. MaxForks
      <3>1. plan[i] \in [forks : 0 .. MaxForks, crash : 0 .. Width, end : Verdicts]
        OBVIOUS
      <3> QED BY <3>1
    <2> QED BY <2>1
  <1>6. result \in [Index -> Verdicts \cup {"none"}]
    BY DEF Verdicts
  <1>7. /\ active \in Int /\ next \in Nat /\ done \in Nat /\ spurious \in Nat
        /\ lowest_failed \in Index \cup {NoIndex} /\ panicked \in Index \cup {NoIndex}
        /\ channel \subseteq Index /\ slots \subseteq Index /\ failure \in Index \cup {NoIndex}
    OBVIOUS
  <1>10. claims_closed \in BOOLEAN /\ quiet \in BOOLEAN
    OBVIOUS
  <1>9. Types
    BY <1>1, <1>2, <1>3, <1>4, <1>5, <1>6, <1>7, <1>10 DEF Types
  <1>8. PlacesInv
    BY DEF PlacesInv, Place, InTask, InJob, InFork
  <1> QED BY <1>8, <1>9

\* A worker's step keeps the types of what each thread has, and of the lock.
LEMMA ThreadTypes ==
  ASSUME Types, PlacesInv, NEW w \in Workers, Worker(w)
  PROVE  /\ at' \in [Workers -> Places]
         /\ index' \in [Workers -> Index \cup {NoIndex}]
         /\ held' \in [Workers -> {"none", "clean", "dirty"}]
         /\ mutex' \in Workers \cup {Nobody}
  <1>1. /\ at \in [Workers -> Places] /\ Awake(at) \in [Workers -> Places]
        /\ index \in [Workers -> Index \cup {NoIndex}] /\ mutex \in Workers \cup {Nobody}
        /\ held \in [Workers -> {"none", "clean", "dirty"}] /\ next \in Nat
    BY AwakeType DEF Types
  <1> USE <1>1 DEF Move, MoveAndNotify, Places, claimable, Index
  <1>2. CASE TakeJob(w)
    BY <1>2 DEF TakeJob
  <1>3. CASE CheckClaims(w)
    BY <1>3 DEF CheckClaims
  <1>4. CASE Claim(w)
    BY <1>4 DEF Claim, DoneOrWait
  <1>5. CASE NoMoreWork(w)
    BY <1>5 DEF NoMoreWork, DoneOrWait
  <1>6. CASE TaskReturns(w)
    BY <1>6 DEF TaskReturns, Finish
  <1>7. CASE DropGuard(w)
    BY <1>7 DEF DropGuard
  <1>8. CASE Send(w)
    BY <1>8 DEF Send
  <1>9. CASE Fork(w)
    BY <1>9 DEF Fork
  <1>10. CASE RunFirst(w)
    BY <1>10 DEF RunFirst, Borrow
  <1>11. CASE CompleteFirst(w)
    BY <1>11 DEF CompleteFirst, GiveBack
  <1>12. CASE RunJob(w)
    BY <1>12 DEF RunJob, Borrow
  <1>13. CASE CountJob(w)
    BY <1>13 DEF CountJob
  <1>14. CASE EndJob(w)
    BY <1>14 DEF EndJob, GiveBackAndNotify, GiveBack
  <1>15. CASE JoinHelp(w)
    BY <1>15 DEF JoinHelp
  <1>16. CASE JoinCheck(w)
    BY <1>16 DEF JoinCheck
  <1>17. CASE JoinWait(w)
    BY <1>17 DEF JoinWait
  <1>18. CASE JoinDone(w)
    BY <1>18 DEF JoinDone, Finish
  <1> QED BY <1>2, <1>3, <1>4, <1>5, <1>6, <1>7, <1>8, <1>9, <1>10, <1>11, <1>12, <1>13, <1>14,
     <1>15, <1>16, <1>17, <1>18 DEF Worker

\* A worker's step keeps the types of the job queue and of the scratch free list.
LEMMA JobTypes ==
  ASSUME Types, PlacesInv, NEW w \in Workers, Worker(w)
  PROVE  /\ job' \in [Workers -> Jobs \cup {NoJob}]
         /\ jobs' \in Seq(Jobs)
         /\ scratch' \in Seq({"clean", "dirty"})
  <1>1. /\ job \in [Workers -> Jobs \cup {NoJob}] /\ jobs \in Seq(Jobs)
        /\ scratch \in Seq({"clean", "dirty"}) /\ at \in [Workers -> Places]
        /\ index \in [Workers -> Index \cup {NoIndex}]
        /\ held \in [Workers -> {"none", "clean", "dirty"}]
    BY DEF Types
  <1>2. at[w] = "task" => index[w] \in Index
    BY DEF PlacesInv, Place, InTask
  <1>3. at[w] \in {"ranfirst", "ran", "counted"} => held[w] \in {"clean", "dirty"}
    BY <1>1 DEF PlacesInv, Place
  <1>4. \A s : s \in Seq({"clean", "dirty"}) /\ s # <<>> => Front(s) \in Seq({"clean", "dirty"})
    BY DEF Front
  <1>5. \A k \in 1 .. Len(jobs) : RemoveAt(jobs, k) \in Seq(Jobs) /\ jobs[k] \in Jobs
    BY <1>1 DEF RemoveAt
  <1>6. \A i \in Index : [j \in 1 .. Width - 1 |-> <<i, j>>] \in Seq(Jobs)
    BY DEF Jobs, JobNo
  <1>7. \A i \in Index : <<i, 0>> \in Jobs
    BY DEF Jobs, JobNo
  <1> USE <1>1 DEF Move, taskVars, queueVars, claimVars, coordVars
  <1>8. CASE TakeJob(w)
    BY <1>8 DEF TakeJob
  <1>9. CASE JoinHelp(w)
    BY <1>9, <1>5 DEF JoinHelp
  <1>10. CASE Fork(w)
    BY <1>10, <1>2, <1>6, <1>7 DEF Fork
  <1>11. CASE CompleteFirst(w)
    BY <1>11, <1>3 DEF CompleteFirst, GiveBack
  <1>12. CASE EndJob(w)
    BY <1>12, <1>3 DEF EndJob, GiveBackAndNotify, GiveBack
  <1>13. CASE RunFirst(w) \/ RunJob(w)
    BY <1>13, <1>4 DEF RunFirst, Borrow, RunJob
  <1>14. CASE CheckClaims(w) \/ Claim(w) \/ NoMoreWork(w) \/ TaskReturns(w) \/ DropGuard(w) \/
       Send(w) \/ CountJob(w) \/ JoinCheck(w) \/ JoinWait(w) \/ JoinDone(w)
    BY <1>14 DEF CheckClaims, Claim, DoneOrWait, NoMoreWork, TaskReturns, Finish, DropGuard,
       Send, CountJob, JoinCheck, JoinWait, JoinDone
  <1> QED BY <1>8, <1>9, <1>10, <1>11, <1>12, <1>13, <1>14 DEF Worker

\* A worker's step keeps the type of every Fork.
LEMMA ForkTypes ==
  ASSUME Types, PlacesInv, NEW w \in Workers, Worker(w)
  PROVE  fork' \in [Index -> ForkType]
  <1>1. /\ fork \in [Index -> ForkType] /\ job \in [Workers -> Jobs \cup {NoJob}]
        /\ plan \in [Index -> Behaviours]
    BY DEF Types
  <1>2. at[w] \in {"ranfirst", "job", "ran"} =>
          job[w] \in Jobs /\ job[w][1] \in Index /\ job[w][2] \in JobNo
    BY DEF PlacesInv, Place, InJob, Jobs
  <1>3. IdleFork \in ForkType /\ NewFork \in ForkType
    BY DEF ForkType, IdleFork, NewFork
  <1>4. \A jb : JobResult(jb) \in {"value", "panic"}
    BY DEF JobResult
  <1>5. ASSUME NEW g \in ForkType, NEW jb \in Jobs
        PROVE  Stored(g, jb) \in ForkType /\ Counted(g) \in ForkType
    BY <1>4 DEF Stored, Counted, ForkType
  <1> USE <1>1, <1>5 DEF Move, taskVars, queueVars, claimVars, coordVars
  <1>6. CASE Fork(w)
    BY <1>6, <1>3 DEF Fork
  <1>7. CASE CompleteFirst(w)
    BY <1>7, <1>2 DEF CompleteFirst, GiveBack
  <1>8. CASE RunJob(w)
    BY <1>8, <1>2 DEF RunJob, Borrow
  <1>9. CASE CountJob(w)
    BY <1>9, <1>2 DEF CountJob
  <1>10. CASE JoinDone(w)
    BY <1>10, <1>3 DEF JoinDone, Finish
  <1>11. CASE TakeJob(w) \/ CheckClaims(w) \/ Claim(w) \/ NoMoreWork(w) \/ TaskReturns(w) \/
       DropGuard(w) \/ Send(w) \/ RunFirst(w) \/ EndJob(w) \/ JoinHelp(w) \/ JoinCheck(w) \/
       JoinWait(w)
    BY <1>11 DEF TakeJob, CheckClaims, Claim, DoneOrWait, NoMoreWork, TaskReturns, Finish,
       DropGuard, Send, RunFirst, Borrow, EndJob, GiveBackAndNotify, GiveBack, JoinHelp,
       JoinCheck, JoinWait
  <1> QED BY <1>6, <1>7, <1>8, <1>9, <1>10, <1>11 DEF Worker

\* A worker's step keeps the types of the tasks: a fork_join ends at most as often as it began.
LEMMA TaskTypes ==
  ASSUME Types, PlacesInv, NEW w \in Workers, Worker(w)
  PROVE  /\ plan' \in [Index -> Behaviours]
         /\ forks_left' \in [Index -> 0 .. MaxForks]
         /\ result' \in [Index -> Verdicts \cup {"none"}]
  <1>1. /\ plan \in [Index -> Behaviours] /\ forks_left \in [Index -> 0 .. MaxForks]
        /\ result \in [Index -> Verdicts \cup {"none"}]
    BY DEF Types
  <1>2. at[w] \in {"task", "join"} => index[w] \in Index
    BY DEF PlacesInv, Place, InTask
  <1>3. at[w] = "join" => forks_left[index[w]] > 0
    BY <1>2 DEF PlacesInv, Place, InFork, NoIndex, Index
  <1>4. \A i \in Index : plan[i].end \in Verdicts
    <2> TAKE i \in Index
    <2>1. plan[i] \in [forks : 0 .. MaxForks, crash : 0 .. Width, end : Verdicts]
      BY <1>1
    <2> QED BY <2>1
  <1> USE <1>1 DEF Move, taskVars, queueVars, claimVars, coordVars, Verdicts
  <1>5. CASE TaskReturns(w)
    BY <1>5, <1>2, <1>4 DEF TaskReturns, Finish
  <1>6. CASE JoinDone(w)
    BY <1>6, <1>2, <1>3 DEF JoinDone, Finish
  <1>7. CASE TakeJob(w) \/ CheckClaims(w) \/ Claim(w) \/ NoMoreWork(w) \/ DropGuard(w) \/
       Send(w) \/ Fork(w) \/ RunFirst(w) \/ CompleteFirst(w) \/ RunJob(w) \/ CountJob(w) \/
       EndJob(w) \/ JoinHelp(w) \/ JoinCheck(w) \/ JoinWait(w)
    BY <1>7 DEF TakeJob, CheckClaims, Claim, DoneOrWait, NoMoreWork, DropGuard, Send, Fork,
       RunFirst, Borrow, CompleteFirst, GiveBack, RunJob, CountJob, EndJob, GiveBackAndNotify,
       JoinHelp, JoinCheck, JoinWait
  <1> QED BY <1>5, <1>6, <1>7 DEF Worker

\* A worker's step keeps the types of the shared counters and leaves the coordinator's state alone.
LEMMA CountTypes ==
  ASSUME Types, PlacesInv, NEW w \in Workers, Worker(w)
  PROVE  /\ active' \in Int /\ next' \in Nat
         /\ lowest_failed' \in Index \cup {NoIndex}
         /\ panicked' \in Index \cup {NoIndex}
         /\ channel' \subseteq Index
         /\ UNCHANGED <<slots, failure, done, spurious, outcome, quiet>>
  <1>1. /\ active \in Int /\ next \in Nat
        /\ lowest_failed \in Index \cup {NoIndex} /\ panicked \in Index \cup {NoIndex}
        /\ channel \subseteq Index
    BY DEF Types
  <1>2. at[w] \in {"task", "join", "send"} => index[w] \in Index
    BY DEF PlacesInv, Place, InTask
  <1> USE <1>1 DEF Move, taskVars, queueVars, claimVars, coordVars, Lower
  <1>3. CASE Claim(w)
    BY <1>3, <1>2 DEF Claim, DoneOrWait
  <1>4. CASE TaskReturns(w)
    BY <1>4, <1>2 DEF TaskReturns, Finish
  <1>5. CASE DropGuard(w)
    BY <1>5, <1>2 DEF DropGuard
  <1>6. CASE Send(w)
    BY <1>6, <1>2 DEF Send
  <1>7. CASE JoinDone(w)
    BY <1>7, <1>2 DEF JoinDone, Finish
  <1>8. CASE TakeJob(w) \/ CheckClaims(w) \/ NoMoreWork(w) \/ Fork(w) \/ RunFirst(w) \/
       CompleteFirst(w) \/ RunJob(w) \/ CountJob(w) \/ EndJob(w) \/ JoinHelp(w) \/ JoinCheck(w)
       \/ JoinWait(w)
    BY <1>8 DEF TakeJob, CheckClaims, NoMoreWork, DoneOrWait, Fork, RunFirst, Borrow,
       CompleteFirst, GiveBack, RunJob, CountJob, EndJob, GiveBackAndNotify, JoinHelp,
       JoinCheck, JoinWait
  <1> QED BY <1>3, <1>4, <1>5, <1>6, <1>7, <1>8 DEF Worker

\* A worker's step keeps claims_closed a flag and does not touch Cancel.
LEMMA FlagTypes ==
  ASSUME Types, NEW w \in Workers, Worker(w)
  PROVE  claims_closed' \in BOOLEAN /\ cancelled' = cancelled
  <1>1. claims_closed \in BOOLEAN
    BY DEF Types
  <1> USE <1>1 DEF taskVars, queueVars, claimVars, coordVars
  <1>2. CASE Claim(w) \/ NoMoreWork(w)
    BY <1>2 DEF Claim, DoneOrWait, NoMoreWork
  <1>3. CASE TakeJob(w) \/ CheckClaims(w) \/ TaskReturns(w) \/ DropGuard(w) \/ Send(w) \/
       Fork(w) \/ RunFirst(w) \/ CompleteFirst(w) \/ RunJob(w) \/ CountJob(w) \/ EndJob(w) \/
       JoinHelp(w) \/ JoinCheck(w) \/ JoinWait(w) \/ JoinDone(w)
    BY <1>3 DEF TakeJob, CheckClaims, TaskReturns, Finish, DropGuard, Send, Fork, RunFirst,
       Borrow, CompleteFirst, GiveBack, RunJob, CountJob, EndJob, GiveBackAndNotify, JoinHelp,
       JoinCheck, JoinWait, JoinDone
  <1> QED BY <1>2, <1>3 DEF Worker

\* A worker's step changes nothing of another worker, except that a notify ends its wait.
LEMMA OthersKeep ==
  ASSUME Types, NEW w \in Workers, Worker(w), NEW x \in Workers, x # w
  PROVE  /\ index'[x] = index[x] /\ held'[x] = held[x] /\ job'[x] = job[x]
         /\ \/ at'[x] = at[x]
            \/ at[x] = "sleep" /\ at'[x] = "claim"
            \/ at[x] = "joinsleep" /\ at'[x] = "join" 
  <1>1. /\ at \in [Workers -> Places] /\ Awake(at) \in [Workers -> Places]
        /\ index \in [Workers -> Index \cup {NoIndex}] /\ job \in [Workers -> Jobs \cup {NoJob}]
        /\ held \in [Workers -> {"none", "clean", "dirty"}]
    BY AwakeType DEF Types
  <1>2. \/ Awake(at)[x] = at[x]
        \/ at[x] = "sleep" /\ Awake(at)[x] = "claim"
        \/ at[x] = "joinsleep" /\ Awake(at)[x] = "join"
    BY AwakeKeeps
  <1> USE <1>1, <1>2 DEF Move, MoveAndNotify
  <1>3. CASE TakeJob(w)
    BY <1>3 DEF TakeJob
  <1>4. CASE CheckClaims(w)
    BY <1>4 DEF CheckClaims
  <1>5. CASE Claim(w)
    BY <1>5 DEF Claim, DoneOrWait
  <1>6. CASE NoMoreWork(w)
    BY <1>6 DEF NoMoreWork, DoneOrWait
  <1>7. CASE TaskReturns(w)
    BY <1>7 DEF TaskReturns, Finish
  <1>8. CASE DropGuard(w)
    BY <1>8 DEF DropGuard
  <1>9. CASE Send(w)
    BY <1>9 DEF Send
  <1>10. CASE Fork(w)
    BY <1>10 DEF Fork
  <1>11. CASE RunFirst(w)
    BY <1>11 DEF RunFirst, Borrow
  <1>12. CASE CompleteFirst(w)
    BY <1>12 DEF CompleteFirst, GiveBack
  <1>13. CASE RunJob(w)
    BY <1>13 DEF RunJob, Borrow
  <1>14. CASE CountJob(w)
    BY <1>14 DEF CountJob
  <1>15. CASE EndJob(w)
    BY <1>15 DEF EndJob, GiveBackAndNotify, GiveBack
  <1>16. CASE JoinHelp(w)
    BY <1>16 DEF JoinHelp
  <1>17. CASE JoinCheck(w)
    BY <1>17 DEF JoinCheck
  <1>18. CASE JoinWait(w)
    BY <1>18 DEF JoinWait
  <1>19. CASE JoinDone(w)
    BY <1>19 DEF JoinDone, Finish
  <1> QED BY <1>3, <1>4, <1>5, <1>6, <1>7, <1>8, <1>9, <1>10, <1>11, <1>12, <1>13, <1>14, <1>15,
     <1>16, <1>17, <1>18, <1>19 DEF Worker

\* A worker's step changes no task but the one it runs.
LEMMA TasksKeep ==
  ASSUME Types, NEW w \in Workers, Worker(w), NEW i \in Index, i # index[w]
  PROVE  /\ result'[i] = result[i] /\ forks_left'[i] = forks_left[i]
  <1>1. /\ forks_left \in [Index -> 0 .. MaxForks]
        /\ result \in [Index -> Verdicts \cup {"none"}]
    BY DEF Types
  <1> USE <1>1 DEF taskVars
  <1>2. CASE TaskReturns(w)
    BY <1>2 DEF TaskReturns, Finish
  <1>3. CASE JoinDone(w)
    BY <1>3 DEF JoinDone, Finish
  <1>4. CASE TakeJob(w) \/ CheckClaims(w) \/ Claim(w) \/ NoMoreWork(w) \/ DropGuard(w) \/
       Send(w) \/ Fork(w) \/ RunFirst(w) \/ CompleteFirst(w) \/ RunJob(w) \/ CountJob(w) \/
       EndJob(w) \/ JoinHelp(w) \/ JoinCheck(w) \/ JoinWait(w)
    BY <1>4 DEF TakeJob, CheckClaims, Claim, DoneOrWait, NoMoreWork, DropGuard, Send, Fork,
       RunFirst, Borrow, CompleteFirst, GiveBack, RunJob, CountJob, EndJob, GiveBackAndNotify,
       JoinHelp, JoinCheck, JoinWait
  <1> QED BY <1>2, <1>3, <1>4 DEF Worker

\* A worker's step keeps every worker's place in agreement with what it holds.
LEMMA PlacesStep ==
  ASSUME Types, PlacesInv, ClaimsInv, NEW w \in Workers, Worker(w)
  PROVE  PlacesInv'
  <1> USE DEF InTask, InJob, InFork
  <1>1. /\ at \in [Workers -> Places] /\ Awake(at) \in [Workers -> Places]
        /\ index \in [Workers -> Index \cup {NoIndex}] /\ job \in [Workers -> Jobs \cup {NoJob}]
        /\ held \in [Workers -> {"none", "clean", "dirty"}] /\ next \in Nat
        /\ forks_left \in [Index -> 0 .. MaxForks] /\ jobs \in Seq(Jobs)
    BY AwakeType DEF Types
  <1>2. \A x \in Workers : Place(x)
    BY DEF PlacesInv
  <1>3. NoIndex \notin Index /\ \A i \in Index : <<i, 0>> \in Jobs
    BY DEF NoIndex, Index, Jobs, JobNo
  <1>4. (jobs # <<>> => Head(jobs) \in Jobs) /\ \A k \in 1 .. Len(jobs) : jobs[k] \in Jobs
    BY <1>1
  <1>5. ASSUME NEW x \in Workers, x # w PROVE Place(x)'
    <2>1. index[x] # NoIndex => index[x] \in Index /\ forks_left'[index[x]] = forks_left[index[x]]
      BY <1>1, <1>5, TasksKeep DEF ClaimsInv
    <2>2. /\ index'[x] = index[x] /\ held'[x] = held[x] /\ job'[x] = job[x]
          /\ \/ at'[x] = at[x]
             \/ at[x] = "sleep" /\ at'[x] = "claim"
             \/ at[x] = "joinsleep" /\ at'[x] = "join"
      BY <1>5, OthersKeep
    <2> QED BY <1>1, <1>2, <2>1, <2>2 DEF Place
  <1>6. Place(w)'
    <2> USE <1>1, <1>2, <1>3 DEF Place, Move, MoveAndNotify, taskVars
    <2>1. CASE TakeJob(w)
      BY <2>1, <1>4 DEF TakeJob
    <2>2. CASE CheckClaims(w)
      BY <2>2 DEF CheckClaims
    <2>3. CASE Claim(w)
      BY <2>3 DEF Claim, DoneOrWait, claimable, Index
    <2>4. CASE NoMoreWork(w)
      BY <2>4 DEF NoMoreWork, DoneOrWait
    <2>5. CASE TaskReturns(w)
      BY <2>5 DEF TaskReturns, Finish
    <2>6. CASE DropGuard(w)
      BY <2>6 DEF DropGuard
    <2>7. CASE Send(w)
      BY <2>7 DEF Send
    <2>8. CASE Fork(w)
      BY <2>8 DEF Fork
    <2>9. CASE RunFirst(w)
      BY <2>9 DEF RunFirst, Borrow
    <2>10. CASE CompleteFirst(w)
      BY <2>10 DEF CompleteFirst, GiveBack
    <2>11. CASE RunJob(w)
      BY <2>11 DEF RunJob, Borrow
    <2>12. CASE CountJob(w)
      BY <2>12 DEF CountJob
    <2>13. CASE EndJob(w)
      BY <2>13 DEF EndJob, GiveBackAndNotify, GiveBack
    <2>14. CASE JoinHelp(w)
      BY <2>14, <1>4 DEF JoinHelp
    <2>15. CASE JoinCheck(w)
      BY <2>15 DEF JoinCheck
    <2>16. CASE JoinWait(w)
      BY <2>16 DEF JoinWait
    <2>17. CASE JoinDone(w)
      BY <2>17 DEF JoinDone, Finish
    <2> QED BY <2>1, <2>2, <2>3, <2>4, <2>5, <2>6, <2>7, <2>8, <2>9, <2>10, <2>11, <2>12, <2>13,
       <2>14, <2>15, <2>16, <2>17 DEF Worker
  <1> QED BY <1>5, <1>6 DEF PlacesInv

\* No index is claimed twice (next.fetch_add), and none from above the counter.
LEMMA ClaimsStep ==
  ASSUME Types, PlacesInv, ClaimsInv, NEW w \in Workers, Worker(w)
  PROVE  ClaimsInv'
  <1>1. next \in Nat /\ index \in [Workers -> Index \cup {NoIndex}] /\ at \in [Workers -> Places]
    BY DEF Types
  <1>2. at[w] = "claiming" => index[w] = NoIndex
    BY DEF PlacesInv, Place, InTask, InJob
  <1> USE <1>1, <1>2 DEF ClaimsInv, Move, claimVars, Index, NoIndex
  <1>3. CASE Claim(w)
    BY <1>3 DEF Claim, DoneOrWait, claimable
  <1>4. CASE DropGuard(w)
    BY <1>4 DEF DropGuard
  <1>5. CASE Send(w)
    BY <1>5 DEF Send
  <1>6. CASE TaskReturns(w) \/ JoinDone(w)
    BY <1>6 DEF TaskReturns, Finish, JoinDone
  <1>7. CASE TakeJob(w) \/ CheckClaims(w) \/ NoMoreWork(w) \/ Fork(w) \/ RunFirst(w) \/
       CompleteFirst(w) \/ RunJob(w) \/ CountJob(w) \/ EndJob(w) \/ JoinHelp(w) \/ JoinCheck(w)
       \/ JoinWait(w)
    BY <1>7 DEF TakeJob, CheckClaims, NoMoreWork, DoneOrWait, Fork, RunFirst, Borrow,
       CompleteFirst, GiveBack, RunJob, CountJob, EndJob, GiveBackAndNotify, JoinHelp,
       JoinCheck, JoinWait
  <1> QED BY <1>3, <1>4, <1>5, <1>6, <1>7 DEF Worker

\* A task returns what its closure says, or Err after it saw superseded or cancelled.
LEMMA TaskVerdict ==
  ASSUME Types, PlacesInv, NEW w \in Workers, TaskReturns(w)
  PROVE  \E v \in Verdicts : /\ Finish(w, v)
                             /\ \/ v = plan[index[w]].end /\ forks_left[index[w]] = 0
                                \/ v = "err" /\ (superseded(index[w]) \/ cancelled)
  <1>1. index[w] \in Index /\ plan \in [Index -> Behaviours]
    BY DEF TaskReturns, PlacesInv, Place, InTask, Types
  <1>2. plan[index[w]] \in [forks : 0 .. MaxForks, crash : 0 .. Width, end : Verdicts]
    BY <1>1
  <1>3. CASE forks_left[index[w]] = 0 /\ Finish(w, plan[index[w]].end)
    <2>1. plan[index[w]].end \in Verdicts
      BY <1>2
    <2> WITNESS plan[index[w]].end \in Verdicts
    <2> QED BY <1>3, Zenon
  <1>4. CASE (superseded(index[w]) \/ cancelled) /\ Finish(w, "err")
    <2>1. "err" \in Verdicts
      BY DEF Verdicts
    <2> WITNESS "err" \in Verdicts
    <2> QED BY <1>4
  <1> QED BY <1>3, <1>4 DEF TaskReturns

\* Ending a task (lowest_failed, record_panic) keeps the accounting of results.
LEMMA FinishResults ==
  ASSUME Types, PlacesInv, ClaimsInv, ResultsInv, NEW w \in Workers, at[w] \in {"task", "join"},
         NEW v \in Verdicts, Finish(w, v),
         UNCHANGED <<index, channel, slots, failure>>
  PROVE  ResultsInv'
  <1>1. /\ next \in Nat /\ index \in [Workers -> Index \cup {NoIndex}]
        /\ at \in [Workers -> Places] /\ Awake(at) \in [Workers -> Places]
        /\ result \in [Index -> Verdicts \cup {"none"}] /\ channel \subseteq Index
        /\ slots \subseteq Index /\ panicked \in Index \cup {NoIndex}
        /\ failure \in Index \cup {NoIndex}
    BY AwakeType DEF Types
  <1>2. /\ index[w] \in Index /\ index[w] # NoIndex
        /\ result[index[w]] = "none"
    BY <1>1 DEF PlacesInv, Place, Index, NoIndex, InTask, ResultsInv
  <1>3. /\ result' = [result EXCEPT ![index[w]] = v] /\ next' = next
        /\ \A x \in Workers : x # w => at'[x] = at[x]
        /\ at'[w] = "ended"
        /\ panicked' = IF v = "panic" THEN Lower(panicked, index[w]) ELSE panicked
    BY <1>1 DEF Finish
  <1>4. /\ \A i \in Index : i # index[w] => result'[i] = result[i]
        /\ result'[index[w]] = v /\ v # "none"
    BY <1>1, <1>2, <1>3 DEF Verdicts
  <1>5. \A x \in Workers : x # w /\ index[x] # NoIndex => index[x] \in Index /\ index[x] # index[w]
    BY <1>1, <1>2 DEF ClaimsInv
  <1>6. \A x \in Workers : at[x] \in {"ended", "send"} => index[x] \in Index /\ index[x] # NoIndex
    BY <1>1 DEF PlacesInv, Place, InTask, Index, NoIndex
  <1>7. /\ \A i \in Index : result'[i] # "none" => i < next'
        /\ \A i \in Index : result'[i] = "panic" => panicked' <= i
    BY <1>1, <1>2, <1>3, <1>4 DEF ResultsInv, ClaimsInv, Lower, Index, NoIndex
  <1>8. ASSUME NEW x \in Workers
        PROVE  /\ index[x] # NoIndex /\ at'[x] \notin {"ended", "send"} => result'[index[x]] = "none"
               /\ at'[x] = "ended" => result'[index[x]] # "none"
               /\ at'[x] = "send" => result'[index[x]] \in {"ok", "err"}
    BY <1>2, <1>3, <1>4, <1>5, <1>6 DEF ResultsInv
  <1>9. /\ \A i \in channel : result'[i] \in {"ok", "err"}
        /\ \A i \in slots : result'[i] = "ok"
        /\ failure # NoIndex => result'[failure] = "err"
        /\ panicked' # NoIndex => result'[panicked'] = "panic"
    BY <1>1, <1>2, <1>3, <1>4 DEF ResultsInv, Lower
  <1> QED BY <1>7, <1>8, <1>9 DEF ResultsInv

\* A worker's step keeps the accounting of results.
LEMMA ResultsStep ==
  ASSUME Types, PlacesInv, ClaimsInv, ResultsInv, NEW w \in Workers, Worker(w)
  PROVE  ResultsInv'
  <1>1. /\ next \in Nat /\ index \in [Workers -> Index \cup {NoIndex}]
        /\ at \in [Workers -> Places] /\ Awake(at) \in [Workers -> Places]
        /\ result \in [Index -> Verdicts \cup {"none"}] /\ channel \subseteq Index
        /\ slots \subseteq Index /\ panicked \in Index \cup {NoIndex}
        /\ failure \in Index \cup {NoIndex}
    BY AwakeType DEF Types
  <1>2. /\ at[w] \in InTask => index[w] \in Index /\ index[w] # NoIndex
        /\ index[w] # NoIndex => at[w] \in InTask \cup InJob
    BY <1>1 DEF PlacesInv, Place, Index, NoIndex
  <1>3. /\ UNCHANGED <<slots, failure>>
        /\ \A x \in Workers : x # w =>
             /\ index'[x] = index[x]
             /\ \/ at'[x] = at[x]
                \/ at[x] = "sleep" /\ at'[x] = "claim"
                \/ at[x] = "joinsleep" /\ at'[x] = "join"
    BY OthersKeep, CountTypes
  <1> USE <1>1, <1>2, <1>3 DEF ResultsInv, ClaimsInv, Move, MoveAndNotify, claimVars, taskVars,
                           coordVars, Index, NoIndex, InTask, InJob, Lower
  <1>4. CASE TaskReturns(w)
    BY <1>4, FinishResults, TaskVerdict DEF TaskReturns
  <1>5. CASE JoinDone(w)
    <2>1. CASE \A j \in JobNo : fork[index[w]].slots[j] = "value"
      BY <1>5, <2>1 DEF JoinDone
    <2>2. CASE ~ \A j \in JobNo : fork[index[w]].slots[j] = "value"
      BY <1>5, <2>2, FinishResults DEF JoinDone, Verdicts
    <2> QED BY <2>1, <2>2
  <1>6. CASE DropGuard(w)
    <2>1. CASE result[index[w]] = "panic"
      BY <1>6, <2>1 DEF DropGuard
    <2>2. CASE result[index[w]] # "panic"
      BY <1>6, <2>2 DEF DropGuard, Verdicts
    <2> QED BY <2>1, <2>2
  <1>7. CASE TakeJob(w)
    BY <1>7 DEF TakeJob
  <1>8. CASE CheckClaims(w)
    BY <1>8 DEF CheckClaims
  <1>9. CASE Claim(w)
    BY <1>9 DEF Claim, DoneOrWait, claimable
  <1>10. CASE NoMoreWork(w)
    BY <1>10 DEF NoMoreWork, DoneOrWait
  <1>11. CASE Send(w)
    BY <1>11 DEF Send
  <1>12. CASE Fork(w)
    BY <1>12 DEF Fork
  <1>13. CASE RunFirst(w)
    BY <1>13 DEF RunFirst, Borrow
  <1>14. CASE CompleteFirst(w)
    BY <1>14 DEF CompleteFirst, GiveBack
  <1>15. CASE RunJob(w)
    BY <1>15 DEF RunJob, Borrow
  <1>16. CASE CountJob(w)
    BY <1>16 DEF CountJob
  <1>17. CASE EndJob(w)
    BY <1>17 DEF EndJob, GiveBackAndNotify, GiveBack
  <1>18. CASE JoinHelp(w)
    BY <1>18 DEF JoinHelp
  <1>19. CASE JoinCheck(w)
    BY <1>19 DEF JoinCheck
  <1>20. CASE JoinWait(w)
    BY <1>20 DEF JoinWait
  <1> QED BY <1>4, <1>5, <1>6, <1>7, <1>8, <1>9, <1>10, <1>11, <1>12, <1>13, <1>14, <1>15, <1>16, <1>17, <1>18,
     <1>19, <1>20 DEF Worker

\* No claimed task is lost by a worker: it runs, was sent, or panicked.
LEMMA AccountStep ==
  ASSUME Types, PlacesInv, ClaimsInv, ResultsInv, AccountInv, NEW w \in Workers, Worker(w)
  PROVE  AccountInv'
  <1>1. /\ next \in Nat /\ index \in [Workers -> Index \cup {NoIndex}]
        /\ at \in [Workers -> Places] /\ Awake(at) \in [Workers -> Places]
        /\ result \in [Index -> Verdicts \cup {"none"}] /\ channel \subseteq Index
        /\ slots \subseteq Index /\ panicked \in Index \cup {NoIndex}
        /\ failure \in Index \cup {NoIndex}
    BY AwakeType DEF Types
  <1>2. /\ at[w] \in InTask => index[w] \in Index /\ index[w] # NoIndex
        /\ index[w] # NoIndex => at[w] \in InTask \cup InJob
    BY <1>1 DEF PlacesInv, Place, Index, NoIndex
  <1>3. /\ UNCHANGED <<slots, failure>>
        /\ \A x \in Workers : x # w =>
             /\ index'[x] = index[x]
             /\ \/ at'[x] = at[x]
                \/ at[x] = "sleep" /\ at'[x] = "claim"
                \/ at[x] = "joinsleep" /\ at'[x] = "join"
    BY OthersKeep, CountTypes
  <1>4. \A i \in Index : i # index[w] => result'[i] = result[i]
    BY TasksKeep
  <1> USE <1>1, <1>2, <1>3, <1>4 DEF AccountInv, Move, claimVars, coordVars, taskVars, Index, NoIndex,
                                InTask, InJob
  <1>5. CASE DropGuard(w)
    <2>1. CASE result[index[w]] = "panic"
      BY <1>5, <2>1 DEF DropGuard
    <2>2. CASE result[index[w]] # "panic"
      BY <1>5, <2>2 DEF DropGuard
    <2> QED BY <2>1, <2>2
  <1>6. CASE Claim(w)
    BY <1>6 DEF Claim, DoneOrWait, claimable
  <1>7. CASE Send(w)
    BY <1>7 DEF Send
  <1>8. CASE TaskReturns(w)
    BY <1>8 DEF TaskReturns, Finish
  <1>9. CASE JoinDone(w)
    BY <1>9 DEF JoinDone, Finish
  <1>10. CASE TakeJob(w) \/ CheckClaims(w) \/ NoMoreWork(w) \/ Fork(w) \/ RunFirst(w) \/
       CompleteFirst(w) \/ RunJob(w) \/ CountJob(w) \/ EndJob(w) \/ JoinHelp(w) \/ JoinCheck(w)
       \/ JoinWait(w)
    BY <1>10 DEF TakeJob, CheckClaims, NoMoreWork, DoneOrWait, Fork, RunFirst, Borrow,
       CompleteFirst, GiveBack, RunJob, CountJob, EndJob, GiveBackAndNotify, JoinHelp,
       JoinCheck, JoinWait
  <1> QED BY <1>5, <1>6, <1>7, <1>8, <1>9, <1>10 DEF Worker

\* What a closure is, by its fields.
LEMMA VerdictFacts ==
  ASSUME Types, NEW i \in Index
  PROVE  /\ plan[i].forks \in 0 .. MaxForks /\ plan[i].crash \in 0 .. Width
         /\ plan[i].end \in Verdicts
         /\ verdict[i] = IF plan[i].forks > 0 /\ plan[i].crash < Width THEN "panic" ELSE plan[i].end
  <1>1. plan[i] \in [forks : 0 .. MaxForks, crash : 0 .. Width, end : Verdicts]
    BY DEF Types
  <1> QED BY <1>1 DEF verdict, Verdict

\* lowest_failed stays the least failed index, and only tasks above it are stopped early.
LEMMA FailureStep ==
  ASSUME Types, PlacesInv, ClaimsInv, ResultsInv, ForksInv, FailureInv, NEW w \in Workers, Worker(w)
  PROVE  FailureInv'
  <1>1. /\ index \in [Workers -> Index \cup {NoIndex}] /\ at \in [Workers -> Places]
        /\ result \in [Index -> Verdicts \cup {"none"}] /\ lowest_failed \in Index \cup {NoIndex}
        /\ plan \in [Index -> Behaviours]
    BY DEF Types
  <1>2. at[w] \in {"task", "join"} =>
          index[w] \in Index /\ index[w] # NoIndex /\ result[index[w]] = "none"
    BY <1>1 DEF PlacesInv, Place, InTask, Index, NoIndex, ResultsInv
  <1>3. ASSUME NEW v \in Verdicts, Finish(w, v), at[w] \in {"task", "join"}, cancelled' = cancelled,
               v = "ok" => verdict[index[w]] = "ok",
               v = "err" => verdict[index[w]] = "err" \/ cancelled \/ lowest_failed < index[w]
        PROVE  FailureInv'
    <2>1. /\ result' = [result EXCEPT ![index[w]] = v] /\ plan' = plan /\ verdict' = verdict
          /\ lowest_failed' = IF v = "ok" THEN lowest_failed ELSE Lower(lowest_failed, index[w])
      BY <1>3 DEF Finish, verdict
    <2>2. lowest_failed' <= lowest_failed /\ (v # "ok" => lowest_failed' <= index[w])
      BY <1>1, <1>2, <1>3, <2>1 DEF Lower, Index, NoIndex
    <2>3. \A i \in Index : i # index[w] => result'[i] = result[i]
      BY <1>1, <1>2, <2>1
    <2>4. result'[index[w]] = v
      BY <1>1, <1>2, <1>3, <2>1
    <2>5. \A i \in Index : result'[i] \in {"err", "panic"} => lowest_failed' <= i
      BY <1>1, <1>2, <1>3, <2>2, <2>3, <2>4, <2>1 DEF FailureInv, Index, NoIndex, Lower
    <2>6. lowest_failed' # NoIndex => result'[lowest_failed'] \in {"err", "panic"}
      BY <1>1, <1>2, <1>3, <2>1, <2>3, <2>4 DEF FailureInv, Lower, Verdicts
    <2>7. ASSUME NEW i \in Index, result'[i] = "err"
          PROVE  verdict'[i] = "err" \/ cancelled' \/ lowest_failed' < i
      <3>1. CASE i = index[w]
        BY <1>1, <1>2, <1>3, <2>1, <2>2, <2>4, <2>7, <3>1 DEF Index, NoIndex, Lower
      <3>2. CASE i # index[w]
        <4>1. verdict[i] = "err" \/ cancelled \/ lowest_failed < i
          BY <2>3, <2>7, <3>2 DEF FailureInv
        <4> QED BY <1>1, <1>2, <1>3, <2>1, <2>2, <4>1 DEF Index, NoIndex, Lower
      <3> QED BY <3>1, <3>2
    <2>8. \A i \in Index : result'[i] = "ok" => verdict'[i] = "ok"
      BY <1>3, <2>1, <2>3, <2>4 DEF FailureInv
    <2> QED BY <2>5, <2>6, <2>7, <2>8 DEF FailureInv
  <1>4. cancelled' = cancelled
    BY FlagTypes
  <1>5. CASE TaskReturns(w)
    <2>1. PICK v \in Verdicts : /\ Finish(w, v)
                                /\ \/ v = plan[index[w]].end /\ forks_left[index[w]] = 0
                                   \/ v = "err" /\ (superseded(index[w]) \/ cancelled)
      BY <1>5, TaskVerdict
    <2>2. at[w] = "task" /\ index[w] \in Index /\ result[index[w]] = "none"
      BY <1>2, <1>5 DEF TaskReturns
    <2>3. CASE v = plan[index[w]].end /\ forks_left[index[w]] = 0
      <3>1. verdict[index[w]] = v
        BY <2>2, <2>3, VerdictFacts DEF ForksInv
      <3> QED BY <1>3, <1>4, <2>1, <2>2, <3>1
    <2>4. CASE v = "err" /\ (superseded(index[w]) \/ cancelled)
      BY <1>1, <1>3, <1>4, <2>1, <2>2, <2>4 DEF superseded, Index, NoIndex
    <2> QED BY <2>1, <2>3, <2>4
  <1>6. CASE JoinDone(w)
    <2>1. CASE \A j \in JobNo : fork[index[w]].slots[j] = "value"
      BY <1>6, <2>1 DEF JoinDone, FailureInv, claimVars, verdict
    <2>2. CASE ~ \A j \in JobNo : fork[index[w]].slots[j] = "value"
      <3>1. Finish(w, "panic") /\ at[w] = "join" /\ "panic" \in Verdicts
        BY <1>6, <2>2 DEF JoinDone, Verdicts
      <3> QED BY <1>3, <1>4, <3>1
    <2> QED BY <2>1, <2>2
  <1>7. CASE TakeJob(w) \/ CheckClaims(w) \/ Claim(w) \/ NoMoreWork(w) \/ DropGuard(w) \/
       Send(w) \/ Fork(w) \/ RunFirst(w) \/ CompleteFirst(w) \/ RunJob(w) \/ CountJob(w) \/
       EndJob(w) \/ JoinHelp(w) \/ JoinCheck(w) \/ JoinWait(w)
    BY <1>7 DEF TakeJob, CheckClaims, Claim, DoneOrWait, NoMoreWork, DropGuard, Send, Fork,
       RunFirst, Borrow, CompleteFirst, GiveBack, RunJob, CountJob, EndJob, GiveBackAndNotify,
       JoinHelp, JoinCheck, JoinWait, FailureInv, claimVars, taskVars, verdict
  <1> QED BY <1>5, <1>6, <1>7 DEF Worker

\* A panicked job's slot never holds a value, so a task with such a job never leaves its fork_join.
LEMMA ForksStep ==
  ASSUME Types, PlacesInv, ClaimsInv, ResultsInv, ForksInv, NEW w \in Workers, Worker(w)
  PROVE  ForksInv'
  <1>1. /\ fork \in [Index -> ForkType] /\ job \in [Workers -> Jobs \cup {NoJob}]
        /\ plan \in [Index -> Behaviours] /\ forks_left \in [Index -> 0 .. MaxForks]
        /\ result \in [Index -> Verdicts \cup {"none"}]
        /\ index \in [Workers -> Index \cup {NoIndex}]
    BY DEF Types
  <1>2. at[w] \in {"ranfirst", "job", "ran"} =>
          job[w] \in Jobs /\ job[w][1] \in Index /\ job[w][2] \in JobNo
    BY DEF PlacesInv, Place, InJob, Jobs
  <1>3. at[w] \in {"task", "join"} => index[w] \in Index /\ result[index[w]] = "none"
    BY <1>1 DEF PlacesInv, Place, InTask, Index, NoIndex, ResultsInv
  <1>4. /\ \A i \in Index : IdleFork.slots = [j \in JobNo |-> "none"]
        /\ NewFork.slots = [j \in JobNo |-> "none"]
    BY DEF IdleFork, NewFork
  <1>5. ASSUME NEW g \in ForkType, NEW jb \in Jobs,
               \A j \in JobNo : g.slots[j] = "value" => plan[jb[1]].crash # j
        PROVE  \A j \in JobNo : /\ Stored(g, jb).slots[j] = "value" => plan[jb[1]].crash # j
                                /\ Counted(g).slots[j] = g.slots[j]
                                /\ Counted(Stored(g, jb)).slots[j] = "value" => plan[jb[1]].crash # j
    BY <1>5 DEF Stored, Counted, ForkType, JobResult, JobPanics, Jobs
  <1> DEFINE Slots == \A i \in Index, j \in JobNo : fork[i].slots[j] = "value" => plan[i].crash # j
             Left  == \A i \in Index : plan[i].crash < Width /\ result[i] = "none" =>
                                         forks_left[i] = plan[i].forks
  <1>6. Slots /\ Left
    BY DEF ForksInv
  <1>7. CASE CompleteFirst(w)
    <2>1. Slots'
      BY <1>1, <1>2, <1>5, <1>6, <1>7 DEF CompleteFirst, Move, taskVars
    <2>2. Left'
      BY <1>6, <1>7 DEF CompleteFirst, taskVars
    <2> QED BY <2>1, <2>2 DEF ForksInv
  <1>8. CASE RunJob(w)
    <2>1. Slots'
      BY <1>1, <1>2, <1>5, <1>6, <1>8 DEF RunJob, Move, taskVars
    <2>2. Left'
      BY <1>6, <1>8 DEF RunJob, taskVars
    <2> QED BY <2>1, <2>2 DEF ForksInv
  <1>9. CASE CountJob(w)
    <2>1. Slots'
      <3>1. \A g \in ForkType : Counted(g).slots = g.slots
        BY DEF Counted, ForkType
      <3> QED BY <1>1, <1>2, <1>6, <1>9, <3>1 DEF CountJob, Move, taskVars
    <2>2. Left'
      BY <1>6, <1>9 DEF CountJob, taskVars
    <2> QED BY <2>1, <2>2 DEF ForksInv
  <1>10. CASE Fork(w)
    <2>1. Slots'
      BY <1>1, <1>3, <1>4, <1>6, <1>10 DEF Fork, taskVars
    <2>2. Left'
      BY <1>6, <1>10 DEF Fork, taskVars
    <2> QED BY <2>1, <2>2 DEF ForksInv
  <1>11. CASE JoinDone(w)
    <2>1. plan' = plan
      BY <1>11 DEF JoinDone, Finish
    <2>2. Slots'
      BY <1>1, <1>3, <1>4, <1>6, <1>11, <2>1 DEF JoinDone
    <2>3. ASSUME NEW i \in Index, plan'[i].crash < Width, result'[i] = "none"
          PROVE  forks_left'[i] = plan'[i].forks
      <3>1. CASE i # index[w]
        BY <1>6, <2>1, <2>3, <3>1, TasksKeep
      <3>2. CASE i = index[w]
        <4>0. plan[i].crash \in 0 .. Width /\ plan[i].crash < Width
          BY <2>1, <2>3, VerdictFacts
        <4>1. plan[i].crash \in JobNo
          BY <4>0 DEF JobNo
        <4>2. fork[i].slots[plan[i].crash] # "value"
          BY <1>6, <4>1
        <4>3. Finish(w, "panic")
          BY <1>11, <3>2, <4>1, <4>2 DEF JoinDone
        <4>4. result'[i] = "panic"
          BY <1>1, <3>2, <4>3 DEF Finish
        <4> QED BY <2>3, <4>4
      <3> QED BY <3>1, <3>2
    <2> QED BY <2>2, <2>3 DEF ForksInv
  <1>12. CASE TaskReturns(w)
    <2>1. plan' = plan /\ forks_left' = forks_left /\ fork' = fork /\ at[w] = "task"
      BY <1>12 DEF TaskReturns, Finish
    <2>2. \A i \in Index : result'[i] = "none" => result[i] = "none"
      BY <1>3, <2>1, TasksKeep
    <2> QED BY <1>6, <2>1, <2>2 DEF ForksInv
  <1>13. CASE TakeJob(w) \/ CheckClaims(w) \/ Claim(w) \/ NoMoreWork(w) \/ DropGuard(w) \/
       Send(w) \/ RunFirst(w) \/ EndJob(w) \/ JoinHelp(w) \/ JoinCheck(w) \/ JoinWait(w)
    BY <1>13 DEF TakeJob, CheckClaims, Claim, DoneOrWait, NoMoreWork, DropGuard, Send, RunFirst,
       Borrow, EndJob, GiveBackAndNotify, GiveBack, JoinHelp, JoinCheck, JoinWait, ForksInv,
       taskVars
  <1> QED BY <1>7, <1>8, <1>9, <1>10, <1>11, <1>12, <1>13 DEF Worker

\* Claims are closed only when no index is left or the run is stopping, and a worker leaves only then.
LEMMA ClosedStep ==
  ASSUME Types, PlacesInv, ClosedInv, NEW w \in Workers, Worker(w)
  PROVE  ClosedInv'
  <1>1. /\ at \in [Workers -> Places] /\ Awake(at) \in [Workers -> Places] /\ next \in Nat
        /\ index \in [Workers -> Index \cup {NoIndex}]
    BY AwakeType DEF Types
  <1>2. /\ \A x \in Workers : x # w /\ at'[x] = "exited" => at[x] = "exited"
        /\ cancelled' = cancelled
    BY OthersKeep, FlagTypes
  <1>3. ASSUME NEW v, Finish(w, v), at[w] \in {"task", "join"} PROVE lowest_failed' # NoIndex \/ lowest_failed' = lowest_failed
    <2>1. index[w] \in Index /\ lowest_failed \in Index \cup {NoIndex}
      BY <1>3 DEF PlacesInv, Place, InTask, Types
    <2> QED BY <1>3, <2>1 DEF Finish, Lower, Index, NoIndex
  <1> DEFINE Why == next >= N \/ lowest_failed # NoIndex \/ cancelled
  <1>4. CASE Claim(w)
    <2>1. ~ claimable(next) => next' >= N
      BY <1>1, <1>4 DEF Claim, claimable
    <2>2. next' >= next /\ lowest_failed' = lowest_failed
      BY <1>1, <1>4 DEF Claim
    <2>3. claims_closed' => claims_closed \/ ~ claimable(next)
      BY <1>4 DEF Claim
    <2>4. Why => Why'
      <3>1. next >= N => next' >= N
        BY <1>1, <1>4 DEF Claim
      <3> QED BY <1>2, <2>2, <3>1
    <2>5. claims_closed' => Why'
      BY <2>1, <2>3, <2>4 DEF ClosedInv
    <2>6. /\ at'[w] = "exited" => claims_closed'
          /\ claims_closed => claims_closed'
      BY <1>1, <1>4 DEF Claim, DoneOrWait, MoveAndNotify
    <2> QED BY <1>2, <2>5, <2>6 DEF ClosedInv
  <1>5. CASE NoMoreWork(w)
    <2>1. Why /\ next' = next /\ lowest_failed' = lowest_failed /\ claims_closed'
      BY <1>5 DEF NoMoreWork, DoneOrWait, claimVars, ClosedInv, stop_claiming
    <2> QED BY <1>2, <2>1 DEF ClosedInv
  <1>6. CASE TaskReturns(w)
    <2>1. /\ at[w] = "task" /\ next' = next /\ claims_closed' = claims_closed
          /\ lowest_failed' # NoIndex \/ lowest_failed' = lowest_failed
          /\ at'[w] = "ended"
      BY <1>1, <1>3, <1>6 DEF TaskReturns, Finish, queueVars
    <2> QED BY <1>2, <2>1 DEF ClosedInv
  <1>7. CASE JoinDone(w)
    <2>1. /\ at[w] = "join" /\ next' = next /\ claims_closed' = claims_closed
          /\ lowest_failed' # NoIndex \/ lowest_failed' = lowest_failed
          /\ at'[w] \in {"ended", "task"}
      BY <1>1, <1>3, <1>7 DEF JoinDone, Finish, queueVars, claimVars
    <2> QED BY <1>2, <2>1 DEF ClosedInv
  <1>8. CASE TakeJob(w) \/ CheckClaims(w) \/ DropGuard(w) \/ Send(w) \/ Fork(w) \/ RunFirst(w) \/
       CompleteFirst(w) \/ RunJob(w) \/ CountJob(w) \/ EndJob(w) \/ JoinHelp(w) \/ JoinCheck(w)
       \/ JoinWait(w)
    <2>1. /\ next' = next /\ lowest_failed' = lowest_failed /\ claims_closed' = claims_closed
      BY <1>8 DEF TakeJob, CheckClaims, DropGuard, Send, Fork, RunFirst, Borrow, CompleteFirst,
         GiveBack, RunJob, CountJob, EndJob, GiveBackAndNotify, JoinHelp, JoinCheck, JoinWait,
         queueVars, claimVars
    <2>2. at'[w] # "exited"
      BY <1>1, <1>8 DEF TakeJob, CheckClaims, DropGuard, Send, Fork, RunFirst, CompleteFirst,
         RunJob, CountJob, EndJob, GiveBackAndNotify, JoinHelp, JoinCheck, JoinWait, Move,
         MoveAndNotify
    <2> QED BY <1>2, <2>1, <2>2 DEF ClosedInv
  <1> QED BY <1>4, <1>5, <1>6, <1>7, <1>8 DEF Worker

\* Nothing has happened when map_indexed spawns its workers.
LEMMA InitIInv == Init => IInv
  <1> SUFFICES ASSUME Init PROVE IInv
    OBVIOUS
  <1>1. Types /\ PlacesInv
    BY TypesInit
  <1>2. /\ index = [w \in Workers |-> NoIndex] /\ result = [i \in Index |-> "none"]
        /\ at = [w \in Workers |-> "claim"] /\ next = 0 /\ ~claims_closed
        /\ channel = {} /\ slots = {} /\ failure = NoIndex /\ panicked = NoIndex
        /\ lowest_failed = NoIndex /\ fork = [i \in Index |-> IdleFork]
        /\ forks_left = [i \in Index |-> plan[i].forks]
    BY DEF Init
  <1>3. ClaimsInv /\ ResultsInv /\ AccountInv /\ FailureInv /\ ClosedInv
    BY <1>2 DEF ClaimsInv, ResultsInv, AccountInv, FailureInv, ClosedInv, Index
  <1>4. ForksInv
    BY <1>2 DEF ForksInv, IdleFork
  <1> QED BY <1>1, <1>3, <1>4 DEF IInv

\* A worker's step keeps the inductive invariant.
LEMMA WorkerStep ==
  ASSUME IInv, NEW w \in Workers, Worker(w)
  PROVE  IInv'
  <1> USE DEF IInv
  <1>1. Types'
    BY ThreadTypes, JobTypes, ForkTypes, TaskTypes, CountTypes, FlagTypes DEF Types
  <1> QED BY <1>1, PlacesStep, ClaimsStep, ResultsStep, AccountStep, FailureStep, ForksStep,
             ClosedStep

\* Receiving a value moves its index from the channel to the slots.
LEMMA ReceiveValueStep ==
  ASSUME IInv, NEW i \in Index, ReceiveValue(i)
  PROVE  IInv'
  <1>1. /\ UNCHANGED <<cancelled, at, index, job, held, mutex, scratch, fork, spurious, plan,
                       forks_left, result, jobs, active, claims_closed, next, lowest_failed,
                       panicked, failure, verdict>>
        /\ channel' = channel \ {i} /\ slots' = slots \cup {i} /\ result[i] = "ok"
        /\ i \in channel
    BY DEF ReceiveValue, taskVars, queueVars, claimVars, verdict
  <1>2. quiet' \in BOOLEAN
    BY DEF ReceiveValue
  <1>3. done' \in Nat
    BY DEF ReceiveValue, IInv, Types
  <1>4. Types'
    BY <1>1, <1>2, <1>3 DEF IInv, Types
  <1>5. PlacesInv' /\ ClaimsInv' /\ FailureInv' /\ ForksInv' /\ ClosedInv'
    BY <1>1 DEF IInv, PlacesInv, Place, ClaimsInv, FailureInv, ForksInv, ClosedInv
  <1>6. ResultsInv' /\ AccountInv'
    BY <1>1 DEF IInv, ResultsInv, AccountInv
  <1> QED BY <1>4, <1>5, <1>6 DEF IInv

\* Receiving an error keeps the lowest failing index.
LEMMA ReceiveErrorStep ==
  ASSUME IInv, NEW i \in Index, ReceiveError(i)
  PROVE  IInv'
  <1>1. /\ UNCHANGED <<cancelled, at, index, job, held, mutex, scratch, fork, spurious, plan,
                       forks_left, result, jobs, active, claims_closed, next, lowest_failed,
                       panicked, slots, done, verdict>>
        /\ channel' = channel \ {i} /\ failure' = Lower(failure, i) /\ result[i] = "err"
        /\ i \in channel /\ quiet' = TRUE
    BY DEF ReceiveError, TakeError, taskVars, queueVars, claimVars, verdict
  <1>2. Types'
    BY <1>1 DEF IInv, Types, Lower
  <1>3. PlacesInv' /\ ClaimsInv' /\ FailureInv' /\ ForksInv' /\ ClosedInv'
    BY <1>1 DEF IInv, PlacesInv, Place, ClaimsInv, FailureInv, ForksInv, ClosedInv
  <1>4. ResultsInv'
    BY <1>1 DEF IInv, ResultsInv, Lower
  <1>5. AccountInv'
    <2>1. failure' <= failure /\ failure' <= i
      BY <1>1 DEF IInv, Types, Lower, Index, NoIndex
    <2>2. failure \in Int /\ failure' \in Int
      BY <1>1 DEF IInv, Types, Lower, Index, NoIndex
    <2> QED BY <1>1, <2>1, <2>2 DEF IInv, AccountInv, Index
  <1> QED BY <1>2, <1>3, <1>4, <1>5 DEF IInv

\* The end of the call, an interrupt and a spurious wakeup keep the inductive invariant.
LEMMA OtherStep ==
  ASSUME IInv, Return \/ Interrupt \/ (\E w \in Workers : SpuriousWake(w)) \/ UNCHANGED vars
  PROVE  IInv'
  <1>1. /\ UNCHANGED <<index, job, held, mutex, scratch, fork, plan, forks_left, result, jobs,
                       active, claims_closed, next, lowest_failed, panicked, failure, verdict,
                       channel, slots, quiet, done>>
        /\ cancelled => cancelled'
    BY DEF Return, Interrupt, SpuriousWake, taskVars, queueVars, claimVars, coordVars, vars, verdict
  <1>2. cancelled' \in BOOLEAN
    BY DEF Return, Interrupt, SpuriousWake, vars, IInv, Types
  <1>3. /\ at' \in [Workers -> Places] /\ spurious' \in Nat
        /\ \A x \in Workers : \/ at'[x] = at[x]
                              \/ at[x] = "sleep" /\ at'[x] = "claim"
                              \/ at[x] = "joinsleep" /\ at'[x] = "join"
    <2>1. at \in [Workers -> Places] /\ spurious \in Nat
      BY DEF IInv, Types
    <2>2. CASE Return \/ Interrupt \/ UNCHANGED vars
      BY <2>1, <2>2 DEF Return, Interrupt, vars
    <2>3. CASE \E w \in Workers : SpuriousWake(w)
      <3>1. PICK w \in Workers : SpuriousWake(w)
        BY <2>3
      <3>2. at' = [at EXCEPT ![w] = Awake(at)[w]] /\ spurious > 0 /\ spurious' = spurious - 1
        BY <3>1 DEF SpuriousWake
      <3>3. \/ at[w] = "sleep" /\ Awake(at)[w] = "claim"
            \/ at[w] = "joinsleep" /\ Awake(at)[w] = "join"
        BY <3>1, AwakeKeeps DEF SpuriousWake, IInv
      <3> QED BY <2>1, <3>2, <3>3 DEF Places
    <2> QED BY <2>2, <2>3
  <1>4. Types'
    BY <1>1, <1>2, <1>3 DEF IInv, Types
  <1>5. PlacesInv'
    BY <1>1, <1>3 DEF IInv, PlacesInv, Place, InTask, InJob, InFork
  <1>6. ClaimsInv' /\ ForksInv' /\ AccountInv'
    BY <1>1 DEF IInv, ClaimsInv, ForksInv, AccountInv
  <1>7. ResultsInv'
    BY <1>1, <1>3 DEF IInv, ResultsInv
  <1>8. FailureInv'
    BY <1>1 DEF IInv, FailureInv
  <1>9. ClosedInv'
    BY <1>1, <1>3 DEF IInv, ClosedInv
  <1> QED BY <1>4, <1>5, <1>6, <1>7, <1>8, <1>9 DEF IInv

\* Every step of the pool keeps the inductive invariant.
LEMMA NextIInv == IInv /\ [Next]_vars => IInv'
  BY WorkerStep, ReceiveValueStep, ReceiveErrorStep, OtherStep DEF Next, Coordinator

\* Every worker has exited and every result was received.
AllOver == channel = {} /\ \A w \in Workers : at[w] = "exited"

\* When all is over, each claimed task gave a value, an error or a panic that was seen.
LEMMA AllOverResults ==
  ASSUME IInv, AllOver, NEW i \in Index, i < next
  PROVE  \/ i \in slots /\ result[i] = "ok"
         \/ result[i] = "err" /\ failure <= i
         \/ result[i] = "panic" /\ panicked <= i
  <1>1. \A w \in Workers : index[w] = NoIndex
    BY DEF AllOver, IInv, PlacesInv, Place, InTask, InJob
  <1>2. i # NoIndex
    BY DEF Index, NoIndex
  <1> QED BY <1>1, <1>2 DEF AllOver, IInv, AccountInv, ResultsInv

\* When all is over and nothing panicked, lowest_failed is the failure to report, or there is none.
LEMMA AllOverFailure ==
  ASSUME IInv, AllOver, panicked = NoIndex
  PROVE  failure = lowest_failed
  <1>1. /\ failure \in Index \cup {NoIndex} /\ lowest_failed \in Index \cup {NoIndex}
        /\ panicked \in Index \cup {NoIndex} /\ next \in Nat
    BY DEF IInv, Types
  <1>2. \A i \in Index : i < next => \/ result[i] = "ok"
                                     \/ result[i] = "err" /\ failure <= i
    BY <1>1, AllOverResults DEF Index, NoIndex
  <1>3. failure \in Index => lowest_failed <= failure
    BY DEF IInv, ResultsInv, FailureInv, Index, NoIndex
  <1>4. lowest_failed \in Index => failure <= lowest_failed
    BY <1>2 DEF IInv, ResultsInv, FailureInv, Index, NoIndex
  <1> QED BY <1>1, <1>3, <1>4 DEF Index, NoIndex

\* An error or a value that is reported is what the tasks' closures decide.
LEMMA EndingAllowed ==
  ASSUME IInv, AllOver
  PROVE  /\ Ending \in Outcomes
         /\ Ending.kind # "panic" => MayReturn(verdict, cancelled, Ending)
         /\ Ending.kind = "task" =>
              \A j \in Index : j < Ending.index => result[j] = "ok" /\ j \in slots
  <1>1. /\ failure \in Index \cup {NoIndex} /\ lowest_failed \in Index \cup {NoIndex}
        /\ panicked \in Index \cup {NoIndex} /\ next \in Nat /\ slots \subseteq Index
    BY DEF IInv, Types
  <1> USE DEF Values, Cancelled, TaskError, Panic
  <1>2. CASE panicked # NoIndex
    BY <1>1, <1>2 DEF Ending, Outcomes
  <1>3. CASE panicked = NoIndex /\ cancelled
    BY <1>3 DEF Ending, Outcomes, MayReturn
  <1>4. CASE panicked = NoIndex /\ ~cancelled /\ failure # NoIndex
    <2>1. Ending = TaskError(failure) /\ failure \in Index /\ failure = lowest_failed
      BY <1>1, <1>4, AllOverFailure DEF Ending
    <2>2. result[failure] = "err" /\ failure < next
      BY <2>1, <1>4 DEF IInv, ResultsInv
    <2>3. verdict[failure] = "err"
      BY <1>4, <2>1, <2>2 DEF IInv, FailureInv, Index
    <2>4. ASSUME NEW j \in Index, j < failure PROVE result[j] = "ok" /\ j \in slots
      BY <1>1, <1>4, <2>1, <2>2, <2>4, AllOverResults DEF Index, NoIndex
    <2>5. OkBelow(verdict, failure)
      BY <2>4 DEF OkBelow, IInv, FailureInv
    <2>6. MayReturn(verdict, cancelled, Ending)
      BY <1>4, <2>1, <2>3, <2>5 DEF MayReturn
    <2> QED BY <2>1, <2>4, <2>6 DEF Outcomes
  <1>5. CASE panicked = NoIndex /\ ~cancelled /\ failure = NoIndex
    <2>1. lowest_failed = NoIndex
      BY <1>5, AllOverFailure
    <2>2. next >= N
      BY <1>5, <2>1 DEF IInv, ClosedInv, AllOver
    <2>3. \A i \in Index : i \in slots /\ result[i] = "ok"
      BY <1>1, <1>5, <2>2, AllOverResults DEF Index, NoIndex
    <2>4. slots = Index
      BY <1>1, <2>3
    <2>5. \A i \in Index : verdict[i] = "ok"
      BY <2>3 DEF IInv, FailureInv
    <2>6. Ending = Values
      BY <1>5, <2>4 DEF Ending
    <2> QED BY <1>5, <2>5, <2>6 DEF Outcomes, MayReturn
  <1> QED BY <1>2, <1>3, <1>4, <1>5

\* The call returns once, at the end, and nothing moves afterwards.
OutcomeInv == outcome = Pending \/ (AllOver /\ outcome = Ending)

\* Return is the only step that sets the outcome, and it takes it from the final state.
LEMMA OutcomeStep == IInv /\ OutcomeInv /\ [Next]_vars => OutcomeInv'
  <1> SUFFICES ASSUME IInv, OutcomeInv, [Next]_vars PROVE OutcomeInv'
    OBVIOUS
  <1>1. CASE Return
    <2>1. /\ AllOver /\ outcome' = Ending
          /\ UNCHANGED <<channel, at, panicked, cancelled, failure, slots>>
      BY <1>1 DEF Return, AllOver, claimVars
    <2> QED BY <2>1 DEF OutcomeInv, AllOver, Ending
  <1>2. CASE \E w \in Workers : Worker(w)
    <2>1. PICK w \in Workers : Worker(w)
      BY <1>2
    <2>2. at[w] # "exited"
      BY <2>1 DEF Worker, TakeJob, CheckClaims, Claim, NoMoreWork, TaskReturns, DropGuard, Send,
         Fork, RunFirst, CompleteFirst, RunJob, CountJob, EndJob, GiveBackAndNotify, JoinHelp,
         JoinCheck, JoinWait, JoinDone, Move
    <2>3. outcome' = outcome
      BY <2>1, CountTypes DEF IInv
    <2> QED BY <2>2, <2>3 DEF OutcomeInv, AllOver
  <1>3. CASE \E i \in Index : ReceiveValue(i) \/ ReceiveError(i)
    BY <1>3 DEF OutcomeInv, AllOver, ReceiveValue, ReceiveError, TakeError
  <1>4. CASE Interrupt
    BY <1>4 DEF Interrupt, OutcomeInv, coordVars
  <1>5. CASE \E w \in Workers : SpuriousWake(w)
    BY <1>5 DEF SpuriousWake, OutcomeInv, AllOver, coordVars
  <1>6. CASE UNCHANGED vars
    BY <1>6 DEF vars, OutcomeInv, AllOver, Ending
  <1> QED BY <1>1, <1>2, <1>3, <1>4, <1>5, <1>6 DEF Next, Coordinator

\* The inductive invariant holds in every reachable state of the pool.
THEOREM Invariant == Spec => [](IInv /\ OutcomeInv)
  <1>1. Init => IInv /\ OutcomeInv
    BY InitIInv DEF Init, OutcomeInv
  <1>2. IInv /\ OutcomeInv /\ [Next]_vars => (IInv /\ OutcomeInv)'
    BY NextIInv, OutcomeStep
  <1> QED BY <1>1, <1>2, PTL DEF Spec

\* Every variable of the pool keeps its type, whatever the number of tasks and workers.
THEOREM TypeCorrect == Spec => []TypeOK
  <1>1. IInv /\ OutcomeInv => TypeOK
    <2> SUFFICES ASSUME IInv, OutcomeInv PROVE TypeOK
      OBVIOUS
    <2>1. outcome \in Outcomes \cup {Pending}
      BY EndingAllowed DEF OutcomeInv
    <2> QED BY <2>1 DEF IInv, Types, TypeOK, ForkType
  <1> QED BY <1>1, Invariant, PTL

\* When map_indexed reports a task's error, every lower task finished with a value.
THEOREM LowerFinish == Spec => []LowerTasksFinish
  <1>1. IInv /\ OutcomeInv => LowerTasksFinish
    BY EndingAllowed DEF OutcomeInv, LowerTasksFinish, Pending
  <1> QED BY <1>1, Invariant, PTL

\* Values, an error or Cancelled are returned only when the serial contract allows them.
THEOREM OutcomeIsSerial ==
  Spec => [](outcome # Pending /\ outcome.kind # "panic" => MayReturn(verdict, cancelled, outcome))
  <1>1. IInv /\ OutcomeInv /\ outcome # Pending /\ outcome.kind # "panic" =>
          MayReturn(verdict, cancelled, outcome)
    BY EndingAllowed DEF OutcomeInv
  <1> QED BY <1>1, Invariant, PTL

-----------------------------------------------------------------------------
(* The job queue.                                                          *)

\* The workers that run a task which is not over.
Busy == {w \in Workers : index[w] # NoIndex /\ at[w] # "send"}

\* Task i is inside a fork_join.
Forked(i) == \E w \in Workers : index[w] = i /\ at[w] \in InFork \cup InJob

\* A worker is between is_done or stop_claiming and what it does about it.
LockInv ==
  /\ \A w \in Workers : mutex = w <=> at[w] \in {"claiming", "joincheck"}
  /\ \A w \in Workers : at[w] = "claiming" => jobs = <<>> /\ ~claims_closed
  /\ \A w \in Workers : at[w] \in {"first", "ranfirst"} => job[w] = <<index[w], 0>>

\* Who waits has something to wait for.
WaitInv ==
  /\ active = Cardinality(Busy)
  /\ \A w \in Workers :
       /\ at[w] = "sleep" => jobs = <<>> /\ active > 0
       /\ at[w] \in {"joincheck", "joinsleep"} =>
            /\ jobs = <<>>
            /\ fork[index[w]].remaining = 0 => \E x \in Workers : at[x] = "counted"
       /\ at[w] = "exited" => active = 0 /\ jobs = <<>> /\ claims_closed

\* The jobs of a fork are counted exactly, and only a task that forked has any.
CountInv ==
  \A i \in Index :
    /\ fork[i].remaining = Cardinality(OwnJobs(i)) + Cardinality(Uncounted(i))
    /\ fork[i] # IdleFork => Forked(i)

\* Job j of task i is in the queue, or with a worker that has not stored its result.
Outstanding(i, j) ==
  \/ \E k \in 1 .. Len(jobs) : jobs[k] = <<i, j>>
  \/ \E w \in Workers : job[w] = <<i, j>> /\ at[w] \in {"first", "ranfirst", "job"}

\* An empty slot is that of a job that is still to return; a panic is the closure's.
SlotInv ==
  \A i \in Index : \A j \in JobNo :
    /\ Forked(i) /\ fork[i].slots[j] = "none" => Outstanding(i, j)
    /\ fork[i].slots[j] = "panic" => plan[i].crash = j

\* A job of task i panicked, and the task is still to notice.
Cracked(i) ==
  \/ \E j \in JobNo : fork[i].slots[j] = "panic"
  \/ \E w \in Workers : at[w] = "ranfirst" /\ job[w][1] = i /\ JobPanics(job[w])

Dirty == Contains(scratch, "dirty") \/ \E w \in Workers : held[w] = "dirty"

DirtInv == Dirty => panicked # NoIndex \/ \E i \in Index : Cracked(i)

\* What a task that panicked had to do.
PanicInv ==
  \A i \in Index :
    /\ forks_left[i] <= plan[i].forks
    /\ result[i] = "panic" => verdict[i] = "panic"

\* The coordinator receives every result once, and counts the values it reports.
ReceiptInv ==
  /\ \A i \in channel : i \notin slots
  /\ \A w \in Workers : index[w] \notin channel \cup slots
  /\ ~quiet => done = Cardinality(slots)
  /\ quiet => cancelled \/ failure # NoIndex

QueueInv == /\ LockInv /\ WaitInv /\ CountInv /\ SlotInv /\ DirtInv /\ PanicInv /\ ReceiptInv


\* A worker takes and gives back the lock for itself, and changes nothing that the
\* holder of the lock relies on.
LEMMA LockKeeps ==
  ASSUME Types, LockInv, NEW w \in Workers, Worker(w)
  PROVE  \A x \in Workers : x # w =>
           /\ mutex' = x <=> mutex = x
           /\ mutex = x => jobs' = jobs /\ (claims_closed' => claims_closed)
  <1> SUFFICES ASSUME NEW x \in Workers, x # w
               PROVE  /\ mutex' = x <=> mutex = x
                      /\ mutex = x => jobs' = jobs /\ (claims_closed' => claims_closed)
    OBVIOUS
  <1>1. /\ mutex \in Workers \cup {Nobody}
        /\ mutex = w <=> at[w] \in {"claiming", "joincheck"}
        /\ Nobody # x
    BY DEF Types, LockInv
  <1> USE <1>1 DEF Move, MoveAndNotify, taskVars, queueVars, claimVars, coordVars
  <1>2. CASE TakeJob(w)
    BY <1>2 DEF TakeJob
  <1>3. CASE CheckClaims(w)
    BY <1>3 DEF CheckClaims
  <1>4. CASE Claim(w)
    BY <1>4 DEF Claim, DoneOrWait, claimable
  <1>5. CASE NoMoreWork(w)
    BY <1>5 DEF NoMoreWork, DoneOrWait
  <1>6. CASE TaskReturns(w)
    BY <1>6 DEF TaskReturns, Finish
  <1>7. CASE DropGuard(w)
    BY <1>7 DEF DropGuard
  <1>8. CASE Send(w)
    BY <1>8 DEF Send
  <1>9. CASE Fork(w)
    BY <1>9 DEF Fork
  <1>10. CASE RunFirst(w)
    BY <1>10 DEF RunFirst, Borrow
  <1>11. CASE CompleteFirst(w)
    BY <1>11 DEF CompleteFirst, GiveBack
  <1>12. CASE RunJob(w)
    BY <1>12 DEF RunJob, Borrow
  <1>13. CASE CountJob(w)
    BY <1>13 DEF CountJob
  <1>14. CASE EndJob(w)
    BY <1>14 DEF EndJob, GiveBackAndNotify, GiveBack
  <1>15. CASE JoinHelp(w)
    BY <1>15 DEF JoinHelp
  <1>16. CASE JoinCheck(w)
    BY <1>16 DEF JoinCheck
  <1>17. CASE JoinWait(w)
    BY <1>17 DEF JoinWait
  <1>18. CASE JoinDone(w)
    BY <1>18 DEF JoinDone, Finish
  <1> QED BY <1>2, <1>3, <1>4, <1>5, <1>6, <1>7, <1>8, <1>9, <1>10, <1>11, <1>12, <1>13, <1>14,
     <1>15, <1>16, <1>17, <1>18 DEF Worker

\* Only the two steps that take the lock are entered with it free, and left with it held.
LEMMA LockStep ==
  ASSUME Types, PlacesInv, LockInv, NEW w \in Workers, Worker(w)
  PROVE  LockInv'
  <1>1. /\ at \in [Workers -> Places] /\ Awake(at) \in [Workers -> Places]
        /\ index \in [Workers -> Index \cup {NoIndex}] /\ job \in [Workers -> Jobs \cup {NoJob}]
        /\ mutex \in Workers \cup {Nobody}
    BY AwakeType DEF Types
  <1>2. ASSUME NEW x \in Workers, x # w
        PROVE  /\ mutex' = x <=> at'[x] \in {"claiming", "joincheck"}
               /\ at'[x] = "claiming" => jobs' = <<>> /\ ~claims_closed'
               /\ at'[x] \in {"first", "ranfirst"} => job'[x] = <<index'[x], 0>>
    BY <1>2, LockKeeps, OthersKeep DEF LockInv
  <1>3. /\ mutex' = w <=> at'[w] \in {"claiming", "joincheck"}
        /\ at'[w] = "claiming" => jobs' = <<>> /\ ~claims_closed'
        /\ at'[w] \in {"first", "ranfirst"} => job'[w] = <<index'[w], 0>>
    <2>1. /\ mutex = w <=> at[w] \in {"claiming", "joincheck"}
          /\ at[w] \in {"first", "ranfirst"} => job[w] = <<index[w], 0>>
      BY DEF LockInv
    <2> USE <1>1, <2>1 DEF Move, MoveAndNotify, taskVars, queueVars, claimVars, coordVars
    <2>2. CASE TakeJob(w)
      BY <2>2 DEF TakeJob
    <2>3. CASE CheckClaims(w)
      BY <2>3 DEF CheckClaims
    <2>4. CASE Claim(w)
      BY <2>4 DEF Claim, DoneOrWait, claimable
    <2>5. CASE NoMoreWork(w)
      BY <2>5 DEF NoMoreWork, DoneOrWait
    <2>6. CASE TaskReturns(w)
      BY <2>6 DEF TaskReturns, Finish
    <2>7. CASE DropGuard(w)
      BY <2>7 DEF DropGuard
    <2>8. CASE Send(w)
      BY <2>8 DEF Send
    <2>9. CASE Fork(w)
      BY <2>9 DEF Fork
    <2>10. CASE RunFirst(w)
      BY <2>10 DEF RunFirst, Borrow
    <2>11. CASE CompleteFirst(w)
      BY <2>11 DEF CompleteFirst, GiveBack
    <2>12. CASE RunJob(w)
      BY <2>12 DEF RunJob, Borrow
    <2>13. CASE CountJob(w)
      BY <2>13 DEF CountJob
    <2>14. CASE EndJob(w)
      BY <2>14 DEF EndJob, GiveBackAndNotify, GiveBack
    <2>15. CASE JoinHelp(w)
      BY <2>15 DEF JoinHelp
    <2>16. CASE JoinCheck(w)
      BY <2>16 DEF JoinCheck
    <2>17. CASE JoinWait(w)
      BY <2>17 DEF JoinWait
    <2>18. CASE JoinDone(w)
      BY <2>18 DEF JoinDone, Finish
    <2> QED BY <2>2, <2>3, <2>4, <2>5, <2>6, <2>7, <2>8, <2>9, <2>10, <2>11, <2>12, <2>13,
       <2>14, <2>15, <2>16, <2>17, <2>18 DEF Worker
  <1> QED BY <1>2, <1>3 DEF LockInv


\* Any set of workers is finite.
LEMMA FewWorkers ==
  ASSUME NEW S \in SUBSET Workers
  PROVE  IsFiniteSet(S) /\ Cardinality(S) \in Nat
  <1>1. IsFiniteSet(S)
    BY FS_Subset
  <1> QED BY <1>1, FS_CardinalityType

\* The queued jobs of a task are a finite number.
LEMMA FewJobs ==
  ASSUME Types, NEW i
  PROVE  IsFiniteSet(OwnJobs(i)) /\ Cardinality(OwnJobs(i)) \in Nat
  <1>1. jobs \in Seq(Jobs)
    BY DEF Types
  <1>2. Len(jobs) \in Int
    BY <1>1
  <1>3. IsFiniteSet(1 .. Len(jobs))
    BY <1>2, FS_Interval
  <1>4. OwnJobs(i) \in SUBSET (1 .. Len(jobs))
    BY DEF OwnJobs
  <1>5. IsFiniteSet(OwnJobs(i))
    BY <1>3, <1>4, FS_Subset
  <1> QED BY <1>5, FS_CardinalityType

\* active counts the tasks that run: a claim adds one, the end of a task takes one away.
LEMMA BusyStep ==
  ASSUME Types, PlacesInv, NEW w \in Workers, Worker(w), active = Cardinality(Busy)
  PROVE  active' = Cardinality(Busy')
  <1> DEFINE busy  == index[w] # NoIndex /\ at[w] # "send"
             after == index'[w] # NoIndex /\ at'[w] # "send"
  <1>1. /\ at \in [Workers -> Places] /\ Awake(at) \in [Workers -> Places]
        /\ index \in [Workers -> Index \cup {NoIndex}]
        /\ active \in Int /\ next \in Nat
    BY AwakeType DEF Types
  <1>2. \/ active' = active /\ (after <=> busy)
        \/ active' = active + 1 /\ ~busy /\ after
        \/ active' = active - 1 /\ busy /\ ~after
    <2>1. /\ at[w] = "ended" => index[w] # NoIndex
          /\ at[w] = "claiming" => index[w] = NoIndex
      BY DEF PlacesInv, Place, InTask, InJob, NoIndex, Index
    <2>2. next < N => next # NoIndex
      BY <1>1 DEF NoIndex
    <2> USE <1>1, <2>1, <2>2 DEF Move, MoveAndNotify, taskVars, queueVars, claimVars, coordVars
    <2>3. CASE TakeJob(w)
      BY <2>3 DEF TakeJob
    <2>4. CASE CheckClaims(w)
      BY <2>4 DEF CheckClaims
    <2>5. CASE Claim(w)
      BY <2>5 DEF Claim, DoneOrWait, claimable
    <2>6. CASE NoMoreWork(w)
      BY <2>6 DEF NoMoreWork, DoneOrWait
    <2>7. CASE TaskReturns(w)
      BY <2>7 DEF TaskReturns, Finish
    <2>8. CASE DropGuard(w)
      BY <2>8 DEF DropGuard
    <2>9. CASE Send(w)
      BY <2>9 DEF Send
    <2>10. CASE Fork(w)
      BY <2>10 DEF Fork
    <2>11. CASE RunFirst(w)
      BY <2>11 DEF RunFirst, Borrow
    <2>12. CASE CompleteFirst(w)
      BY <2>12 DEF CompleteFirst, GiveBack
    <2>13. CASE RunJob(w)
      BY <2>13 DEF RunJob, Borrow
    <2>14. CASE CountJob(w)
      BY <2>14 DEF CountJob
    <2>15. CASE EndJob(w)
      BY <2>15 DEF EndJob, GiveBackAndNotify, GiveBack
    <2>16. CASE JoinHelp(w)
      BY <2>16 DEF JoinHelp
    <2>17. CASE JoinCheck(w)
      BY <2>17 DEF JoinCheck
    <2>18. CASE JoinWait(w)
      BY <2>18 DEF JoinWait
    <2>19. CASE JoinDone(w)
      BY <2>19 DEF JoinDone, Finish
    <2> QED BY <2>3, <2>4, <2>5, <2>6, <2>7, <2>8, <2>9, <2>10, <2>11, <2>12, <2>13, <2>14,
       <2>15, <2>16, <2>17, <2>18, <2>19 DEF Worker
  <1>3. ASSUME NEW x \in Workers, x # w PROVE x \in Busy' <=> x \in Busy
    BY <1>3, OthersKeep DEF Busy
  <1>4. (w \in Busy <=> busy) /\ (w \in Busy' <=> after)
    BY DEF Busy
  <1>5. Busy \subseteq Workers /\ Busy' \subseteq Workers
    BY DEF Busy
  <1> HIDE DEF busy, after
  <1>6. IsFiniteSet(Busy) /\ IsFiniteSet(Busy')
    BY <1>5, FewWorkers
  <1>7. CASE after <=> busy
    <2>1. Busy' = Busy
      BY <1>3, <1>4, <1>5, <1>7
    <2> QED BY <1>2, <1>7, <2>1
  <1>8. CASE ~busy /\ after
    <2>1. Busy' = Busy \cup {w} /\ w \notin Busy
      BY <1>3, <1>4, <1>5, <1>8
    <2>2. Cardinality(Busy') = Cardinality(Busy) + 1
      BY <1>6, <2>1, FS_AddElement
    <2> QED BY <1>2, <1>8, <2>2
  <1>9. CASE busy /\ ~after
    <2>1. Busy' = Busy \ {w} /\ w \in Busy
      BY <1>3, <1>4, <1>5, <1>9
    <2>2. Cardinality(Busy') = Cardinality(Busy) - 1
      BY <1>6, <2>1, FS_RemoveElement
    <2> QED BY <1>2, <1>9, <2>2
  <1> QED BY <1>7, <1>8, <1>9

\* A worker that stays in a wait saw no notify: the queue stayed empty, no task ended
\* and no job was counted.
LEMMA WaitKeeps ==
  ASSUME Types, PlacesInv, LockInv, NEW w \in Workers, Worker(w), NEW x \in Workers, x # w,
         at'[x] \in {"sleep", "joincheck", "joinsleep"}
  PROVE  /\ at[x] = at'[x] /\ index'[x] = index[x] /\ at[w] # "counted"
         /\ jobs = <<>> => jobs' = <<>>
         /\ at[x] = "sleep" => active' >= active
  <1>1. /\ at \in [Workers -> Places] /\ Awake(at) \in [Workers -> Places]
        /\ active \in Int /\ jobs \in Seq(Jobs)
        /\ Awake(at)[x] \notin {"sleep", "joinsleep"}
    BY AwakeType, AwakeKeeps DEF Types
  <1>2. at[x] = at'[x] /\ index'[x] = index[x]
    BY OthersKeep
  <1>3. at[x] = "joincheck" => mutex = x /\ mutex # Nobody /\ jobs' = jobs
    BY LockKeeps DEF LockInv
  <1>4. at[w] # "counted"
    BY <1>1, <1>2, <1>3 DEF Worker, TakeJob, CheckClaims, Claim, NoMoreWork, TaskReturns, DropGuard,
       Send, Fork, RunFirst, CompleteFirst, RunJob, CountJob, EndJob, GiveBackAndNotify, JoinHelp,
       JoinCheck, JoinWait, JoinDone, Move, MoveAndNotify
  <1>5. ASSUME at[x] # "joincheck"
        PROVE  /\ jobs = <<>> => jobs' = <<>>
               /\ at[x] = "sleep" => active' >= active
    <2> USE <1>1, <1>2, <1>5 DEF Move, MoveAndNotify, taskVars, queueVars, claimVars, coordVars
    <2>1. CASE TakeJob(w)
      BY <2>1 DEF TakeJob
    <2>2. CASE CheckClaims(w)
      BY <2>2 DEF CheckClaims
    <2>3. CASE Claim(w)
      BY <2>3 DEF Claim, DoneOrWait, claimable
    <2>4. CASE NoMoreWork(w)
      BY <2>4 DEF NoMoreWork, DoneOrWait
    <2>5. CASE TaskReturns(w)
      BY <2>5 DEF TaskReturns, Finish
    <2>6. CASE DropGuard(w)
      BY <2>6 DEF DropGuard
    <2>7. CASE Send(w)
      BY <2>7 DEF Send
    <2>8. CASE Fork(w)
      BY <2>8 DEF Fork
    <2>9. CASE RunFirst(w)
      BY <2>9 DEF RunFirst, Borrow
    <2>10. CASE CompleteFirst(w)
      BY <2>10 DEF CompleteFirst, GiveBack
    <2>11. CASE RunJob(w)
      BY <2>11 DEF RunJob, Borrow
    <2>12. CASE CountJob(w)
      BY <2>12 DEF CountJob
    <2>13. CASE EndJob(w)
      BY <2>13 DEF EndJob, GiveBackAndNotify, GiveBack
    <2>14. CASE JoinHelp(w)
      BY <2>14 DEF JoinHelp
    <2>15. CASE JoinCheck(w)
      BY <2>15 DEF JoinCheck
    <2>16. CASE JoinWait(w)
      BY <2>16 DEF JoinWait
    <2>17. CASE JoinDone(w)
      BY <2>17 DEF JoinDone, Finish
    <2> QED BY <2>1, <2>2, <2>3, <2>4, <2>5, <2>6, <2>7, <2>8, <2>9, <2>10, <2>11, <2>12, <2>13,
       <2>14, <2>15, <2>16, <2>17 DEF Worker
  <1> QED BY <1>2, <1>3, <1>4, <1>5

\* No task ends and no job is queued once a worker has left.
LEMMA ExitKeeps ==
  ASSUME Types, PlacesInv, LockInv, WaitInv, NEW w \in Workers, Worker(w), NEW x \in Workers,
         x # w, at'[x] = "exited"
  PROVE  active' = 0 /\ jobs' = <<>> /\ claims_closed'
  <1>1. /\ at \in [Workers -> Places] /\ Awake(at) \in [Workers -> Places]
        /\ jobs \in Seq(Jobs)
    BY AwakeType DEF Types
  <1>2. active = 0 /\ jobs = <<>> /\ claims_closed
    BY OthersKeep DEF WaitInv
  <1>3. w \notin Busy
    <2>1. Cardinality(Busy) = 0 /\ Busy \subseteq Workers
      BY <1>2 DEF WaitInv, Busy
    <2> QED BY <2>1, FewWorkers, FS_EmptySet
  <1>4. at[w] \notin {"ended", "task", "claiming"}
    BY <1>2, <1>3 DEF Busy, PlacesInv, Place, InTask, NoIndex, Index, LockInv
  <1> USE <1>1, <1>2, <1>4 DEF Move, MoveAndNotify, taskVars, queueVars, claimVars, coordVars
  <1>5. CASE TakeJob(w)
    BY <1>5 DEF TakeJob
  <1>6. CASE CheckClaims(w)
    BY <1>6 DEF CheckClaims
  <1>7. CASE Claim(w)
    BY <1>7 DEF Claim, DoneOrWait, claimable
  <1>8. CASE NoMoreWork(w)
    BY <1>8 DEF NoMoreWork, DoneOrWait
  <1>9. CASE TaskReturns(w)
    BY <1>9 DEF TaskReturns, Finish
  <1>10. CASE DropGuard(w)
    BY <1>10 DEF DropGuard
  <1>11. CASE Send(w)
    BY <1>11 DEF Send
  <1>12. CASE Fork(w)
    BY <1>12 DEF Fork
  <1>13. CASE RunFirst(w)
    BY <1>13 DEF RunFirst, Borrow
  <1>14. CASE CompleteFirst(w)
    BY <1>14 DEF CompleteFirst, GiveBack
  <1>15. CASE RunJob(w)
    BY <1>15 DEF RunJob, Borrow
  <1>16. CASE CountJob(w)
    BY <1>16 DEF CountJob
  <1>17. CASE EndJob(w)
    BY <1>17 DEF EndJob, GiveBackAndNotify, GiveBack
  <1>18. CASE JoinHelp(w)
    BY <1>18 DEF JoinHelp
  <1>19. CASE JoinCheck(w)
    BY <1>19 DEF JoinCheck
  <1>20. CASE JoinWait(w)
    BY <1>20 DEF JoinWait
  <1>21. CASE JoinDone(w)
    BY <1>21 DEF JoinDone, Finish
  <1> QED BY <1>5, <1>6, <1>7, <1>8, <1>9, <1>10, <1>11, <1>12, <1>13, <1>14, <1>15, <1>16,
     <1>17, <1>18, <1>19, <1>20, <1>21 DEF Worker

\* Another task's count reaches zero only when the worker has its notify still to do.
LEMMA OtherForks ==
  ASSUME Types, PlacesInv, ClaimsInv, LockInv, NEW w \in Workers, Worker(w), NEW x \in Workers,
         x # w, index[x] \in Index, fork'[index[x]].remaining = 0
  PROVE  fork[index[x]].remaining = 0 \/ at'[w] = "counted"
  <1>1. /\ at \in [Workers -> Places] /\ fork \in [Index -> ForkType]
        /\ job \in [Workers -> Jobs \cup {NoJob}]
    BY DEF Types
  <1>2. index[x] # NoIndex /\ index[w] # index[x]
    BY DEF ClaimsInv, NoIndex, Index
  <1>3. at[w] = "ranfirst" => job[w][1] = index[w]
    BY DEF LockInv
  <1>4. \A i \in Index : fork[i] \in ForkType
    BY <1>1
  <1>5. at[w] = "job" => job[w] \in Jobs /\ job[w][1] \in Index
    BY DEF PlacesInv, Place, InJob, Jobs
  <1>6. \A jb : Stored(fork[index[x]], jb).remaining = fork[index[x]].remaining
    BY <1>4 DEF Stored, ForkType
  <1> USE <1>1, <1>2, <1>3 DEF Move, MoveAndNotify, taskVars, queueVars, claimVars, coordVars
  <1>7. CASE TakeJob(w)
    BY <1>7 DEF TakeJob
  <1>8. CASE CheckClaims(w)
    BY <1>8 DEF CheckClaims
  <1>9. CASE Claim(w)
    BY <1>9 DEF Claim, DoneOrWait, claimable
  <1>10. CASE NoMoreWork(w)
    BY <1>10 DEF NoMoreWork, DoneOrWait
  <1>11. CASE TaskReturns(w)
    BY <1>11 DEF TaskReturns, Finish
  <1>12. CASE DropGuard(w)
    BY <1>12 DEF DropGuard
  <1>13. CASE Send(w)
    BY <1>13 DEF Send
  <1>14. CASE Fork(w)
    BY <1>14 DEF Fork
  <1>15. CASE RunFirst(w)
    BY <1>15 DEF RunFirst, Borrow
  <1>16. CASE CompleteFirst(w)
    BY <1>16 DEF CompleteFirst, GiveBack
  <1>17. CASE RunJob(w)
    BY <1>17, <1>5, <1>6 DEF RunJob, Borrow
  <1>18. CASE CountJob(w)
    BY <1>18 DEF CountJob
  <1>19. CASE EndJob(w)
    BY <1>19 DEF EndJob, GiveBackAndNotify, GiveBack
  <1>20. CASE JoinHelp(w)
    BY <1>20 DEF JoinHelp
  <1>21. CASE JoinCheck(w)
    BY <1>21 DEF JoinCheck
  <1>22. CASE JoinWait(w)
    BY <1>22 DEF JoinWait
  <1>23. CASE JoinDone(w)
    BY <1>23 DEF JoinDone, Finish
  <1> QED BY <1>7, <1>8, <1>9, <1>10, <1>11, <1>12, <1>13, <1>14, <1>15, <1>16, <1>17, <1>18,
     <1>19, <1>20, <1>21, <1>22, <1>23 DEF Worker


\* What the worker itself waits for when it begins to wait, and what it leaves behind.
LEMMA OwnWait ==
  ASSUME Types, PlacesInv, LockInv, WaitInv, NEW w \in Workers, Worker(w)
  PROVE  /\ at'[w] = "sleep" => jobs' = <<>> /\ active' > 0
         /\ at'[w] \in {"joincheck", "joinsleep"} =>
              /\ jobs' = <<>>
              /\ fork'[index'[w]].remaining = 0 => \E x \in Workers : at'[x] = "counted"
         /\ at'[w] = "exited" => active' = 0 /\ jobs' = <<>> /\ claims_closed'
  <1>1. /\ at \in [Workers -> Places] /\ Awake(at) \in [Workers -> Places]
        /\ index \in [Workers -> Index \cup {NoIndex}]
        /\ active \in Int
    BY AwakeType DEF Types
  <1>2. active >= 0
    <2>1. Busy \subseteq Workers /\ active = Cardinality(Busy)
      BY DEF Busy, WaitInv
    <2> QED BY <2>1, FewWorkers
  <1>3. /\ at[w] = "claiming" => jobs = <<>>
        /\ at[w] = "joincheck" =>
             /\ jobs = <<>>
             /\ fork[index[w]].remaining = 0 => \E x \in Workers : at[x] = "counted"
    BY DEF LockInv, WaitInv
  <1>4. CASE JoinWait(w)
    <2>1. /\ at[w] = "joincheck" /\ at' = [at EXCEPT ![w] = "joinsleep"]
          /\ jobs' = jobs /\ fork' = fork /\ index' = index
      BY <1>4 DEF JoinWait, Move, queueVars
    <2>2. ASSUME NEW x \in Workers, at[x] = "counted" PROVE at'[x] = "counted"
      BY <1>1, <2>1, <2>2
    <2> QED BY <1>1, <1>3, <2>1, <2>2
  <1> USE <1>1, <1>2, <1>3 DEF Move, MoveAndNotify, taskVars, queueVars, claimVars, coordVars
  <1>5. CASE TakeJob(w)
    BY <1>5 DEF TakeJob
  <1>6. CASE CheckClaims(w)
    BY <1>6 DEF CheckClaims
  <1>7. CASE Claim(w)
    BY <1>7 DEF Claim, DoneOrWait, claimable
  <1>8. CASE NoMoreWork(w)
    BY <1>8 DEF NoMoreWork, DoneOrWait
  <1>9. CASE TaskReturns(w)
    BY <1>9 DEF TaskReturns, Finish
  <1>10. CASE DropGuard(w)
    BY <1>10 DEF DropGuard
  <1>11. CASE Send(w)
    BY <1>11 DEF Send
  <1>12. CASE Fork(w)
    BY <1>12 DEF Fork
  <1>13. CASE RunFirst(w)
    BY <1>13 DEF RunFirst, Borrow
  <1>14. CASE CompleteFirst(w)
    BY <1>14 DEF CompleteFirst, GiveBack
  <1>15. CASE RunJob(w)
    BY <1>15 DEF RunJob, Borrow
  <1>16. CASE CountJob(w)
    BY <1>16 DEF CountJob
  <1>17. CASE EndJob(w)
    BY <1>17 DEF EndJob, GiveBackAndNotify, GiveBack
  <1>18. CASE JoinHelp(w)
    BY <1>18 DEF JoinHelp
  <1>19. CASE JoinCheck(w)
    BY <1>19 DEF JoinCheck
  <1>20. CASE JoinDone(w)
    BY <1>20 DEF JoinDone, Finish
  <1> QED BY <1>4, <1>5, <1>6, <1>7, <1>8, <1>9, <1>10, <1>11, <1>12, <1>13, <1>14, <1>15, <1>16,
     <1>17, <1>18, <1>19, <1>20 DEF Worker

\* No wakeup is lost by a worker's step.
LEMMA WaitStep ==
  ASSUME Types, PlacesInv, ClaimsInv, LockInv, WaitInv, NEW w \in Workers, Worker(w)
  PROVE  WaitInv'
  <1>1. active' = Cardinality(Busy')
    BY BusyStep DEF WaitInv
  <1>2. ASSUME NEW x \in Workers, x # w, at'[x] = "sleep"
        PROVE  jobs' = <<>> /\ active' > 0
    <2>1. active \in Int /\ active' \in Int
      BY CountTypes DEF Types
    <2>2. at[x] = "sleep" /\ jobs' = <<>> /\ active' >= active /\ active > 0
      BY <1>2, WaitKeeps DEF WaitInv
    <2> QED BY <2>1, <2>2
  <1>3. ASSUME NEW x \in Workers, x # w, at'[x] \in {"joincheck", "joinsleep"}
        PROVE  /\ jobs' = <<>>
               /\ fork'[index'[x]].remaining = 0 => \E y \in Workers : at'[y] = "counted"
    <2>1. /\ at[x] = at'[x] /\ index'[x] = index[x] /\ at[w] # "counted"
          /\ jobs = <<>> /\ jobs' = <<>>
          /\ fork[index[x]].remaining = 0 => \E y \in Workers : at[y] = "counted"
      BY <1>3, WaitKeeps DEF WaitInv
    <2>2. index[x] \in Index
      BY <1>3, <2>1 DEF PlacesInv, Place, InTask
    <2>3. ASSUME fork'[index[x]].remaining = 0 PROVE \E y \in Workers : at'[y] = "counted"
      <3>1. CASE at'[w] = "counted"
        BY <3>1
      <3>2. CASE fork[index[x]].remaining = 0
        <4>1. PICK y \in Workers : at[y] = "counted"
          BY <2>1, <3>2
        <4>2. at'[y] = "counted"
          BY <2>1, <4>1, OthersKeep
        <4> QED BY <4>2
      <3> QED BY <1>3, <2>2, <2>3, <3>1, <3>2, OtherForks
    <2> QED BY <2>1, <2>3
  <1>4. ASSUME NEW x \in Workers, x # w, at'[x] = "exited"
        PROVE  active' = 0 /\ jobs' = <<>> /\ claims_closed'
    BY <1>4, ExitKeeps
  <1>5. ASSUME NEW x \in Workers
        PROVE  /\ at'[x] = "sleep" => jobs' = <<>> /\ active' > 0
               /\ at'[x] \in {"joincheck", "joinsleep"} =>
                    /\ jobs' = <<>>
                    /\ fork'[index'[x]].remaining = 0 => \E y \in Workers : at'[y] = "counted"
               /\ at'[x] = "exited" => active' = 0 /\ jobs' = <<>> /\ claims_closed'
    <2>1. CASE x = w
      BY <2>1, OwnWait
    <2>2. CASE x # w
      BY <1>2, <1>3, <1>4, <2>2
    <2> QED BY <2>1, <2>2
  <1> QED BY <1>1, <1>5 DEF WaitInv

\* The jobs of task i that wait in the queue q.
InQueue(q, i) == {k \in 1 .. Len(q) : q[k][1] = i}

\* A job taken out of the queue is one less of its task, and none of another.
LEMMA TakenOut ==
  ASSUME NEW q \in Seq(Jobs), NEW r \in Seq(Jobs), NEW n \in 1 .. Len(q), NEW i \in Index,
         Len(r) = Len(q) - 1,
         \A k \in 1 .. Len(r) : r[k] = IF k < n THEN q[k] ELSE q[k + 1]
  PROVE  /\ Cardinality(InQueue(q, i)) \in Nat
         /\ Cardinality(InQueue(r, i)) =
              Cardinality(InQueue(q, i)) - (IF q[n][1] = i THEN 1 ELSE 0)
  <1> DEFINE Q == InQueue(q, i) \ {n}
             R == InQueue(r, i)
             f == [k \in R |-> IF k < n THEN k ELSE k + 1]
  <1>1. Len(q) \in Nat /\ Len(r) \in Nat
    OBVIOUS
  <1>2. IsFiniteSet(InQueue(q, i)) /\ Cardinality(InQueue(q, i)) \in Nat
    <2>1. InQueue(q, i) \in SUBSET (1 .. Len(q))
      BY DEF InQueue
    <2>3. IsFiniteSet(1 .. Len(q))
      BY <1>1, FS_Interval
    <2>2. IsFiniteSet(InQueue(q, i))
      BY <2>1, <2>3, FS_Subset
    <2> QED BY <2>2, FS_CardinalityType
  <1>3. IsFiniteSet(R)
    <2>1. R \in SUBSET (1 .. Len(r))
      BY DEF InQueue
    <2>2. IsFiniteSet(1 .. Len(r))
      BY <1>1, FS_Interval
    <2> HIDE DEF R
    <2> QED BY <2>1, <2>2, FS_Subset
  <1>4. f \in [R -> Q]
    BY <1>1 DEF InQueue
  <1>5. \A a, b \in R : f[a] = f[b] => a = b
    BY <1>1 DEF InQueue
  <1>6. ASSUME NEW k \in Q PROVE \E a \in R : f[a] = k
    <2>1. CASE k < n
      <3>1. k \in R /\ f[k] = k
        BY <1>1, <2>1 DEF InQueue
      <3> QED BY <3>1
    <2>2. CASE ~(k < n)
      <3>1. k > n /\ k \in 1 .. Len(q) /\ q[k][1] = i
        BY <1>1, <2>2 DEF InQueue
      <3>2. k - 1 \in 1 .. Len(r) /\ ~(k - 1 < n) /\ r[k - 1] = q[k]
        BY <1>1, <3>1
      <3>3. k - 1 \in R /\ f[k - 1] = k
        BY <1>1, <3>1, <3>2 DEF InQueue
      <3> QED BY <3>3
    <2> QED BY <2>1, <2>2
  <1>7. f \in Bijection(R, Q)
    <2> HIDE DEF f, R, Q
    <2> QED BY <1>4, <1>5, <1>6 DEF Bijection, Injection, Surjection, IsInjective
  <1>8. Cardinality(Q) = Cardinality(R)
    <2> HIDE DEF f, R, Q
    <2>1. ExistsBijection(R, Q)
      BY <1>7 DEF ExistsBijection
    <2> QED BY <1>3, <2>1, FS_Bijection
  <1>9. Cardinality(Q) = IF n \in InQueue(q, i) THEN Cardinality(InQueue(q, i)) - 1
                                               ELSE Cardinality(InQueue(q, i))
    BY <1>2, FS_RemoveElement
  <1>10. n \in InQueue(q, i) <=> q[n][1] = i
    BY DEF InQueue
  <1> QED BY <1>2, <1>8, <1>9, <1>10


\* What a step does to the queue: one job is taken out, by the worker that will run it;
\* a fork adds jobs 1 ..; or nothing.
LEMMA QueueStep ==
  ASSUME Types, PlacesInv, NEW w \in Workers, Worker(w)
  PROVE  \/ /\ TakeJob(w) \/ JoinHelp(w)
            /\ \E n \in 1 .. Len(jobs) :
                 /\ job'[w] = jobs[n] /\ jobs[n] \in Jobs
                 /\ jobs' \in Seq(Jobs) /\ Len(jobs') = Len(jobs) - 1
                 /\ \A k \in 1 .. Len(jobs') : jobs'[k] = IF k < n THEN jobs[k] ELSE jobs[k + 1]
         \/ /\ Fork(w) /\ index[w] \in Index
            /\ Len(jobs') = Len(jobs) + Width - 1
            /\ \A k \in 1 .. Len(jobs) : jobs'[k] = jobs[k]
            /\ \A j \in 1 .. Width - 1 : jobs'[Len(jobs) + j] = <<index[w], j>>
         \/ ~Fork(w) /\ ~TakeJob(w) /\ ~JoinHelp(w) /\ jobs' = jobs
  <1>1. /\ jobs \in Seq(Jobs) /\ job \in [Workers -> Jobs \cup {NoJob}]
        /\ jobs' \in Seq(Jobs)
        /\ at[w] = "task" => index[w] \in Index
    BY JobTypes DEF Types, PlacesInv, Place, InTask
  <1>2. CASE TakeJob(w)
    <2>1. /\ jobs # <<>> /\ jobs' = Tail(jobs) /\ job'[w] = Head(jobs)
      BY <1>1, <1>2 DEF TakeJob
    <2>2. /\ 1 \in 1 .. Len(jobs) /\ job'[w] = jobs[1] /\ jobs[1] \in Jobs
          /\ Len(jobs') = Len(jobs) - 1
          /\ \A k \in 1 .. Len(jobs') : jobs'[k] = IF k < 1 THEN jobs[k] ELSE jobs[k + 1]
      BY <1>1, <2>1
    <2> QED BY <1>1, <1>2, <2>2
  <1>3. CASE JoinHelp(w)
    <2>1. PICK n \in 1 .. Len(jobs) : job'[w] = jobs[n] /\ jobs' = RemoveAt(jobs, n)
      BY <1>1, <1>3 DEF JoinHelp
    <2>2. /\ Len(jobs') = Len(jobs) - 1 /\ jobs[n] \in Jobs
          /\ \A k \in 1 .. Len(jobs') : jobs'[k] = IF k < n THEN jobs[k] ELSE jobs[k + 1]
      BY <1>1, <2>1 DEF RemoveAt
    <2> QED BY <1>1, <1>3, <2>1, <2>2
  <1>4. CASE Fork(w)
    <2> DEFINE new == [j \in 1 .. Width - 1 |-> <<index[w], j>>]
    <2>1. jobs' = jobs \o new /\ index[w] \in Index
      BY <1>1, <1>4 DEF Fork
    <2>2. new \in Seq(Jobs) /\ Len(new) = Width - 1
      BY <2>1 DEF Jobs, JobNo
    <2>3. \A j \in 1 .. Width - 1 : new[j] = <<index[w], j>>
      OBVIOUS
    <2> HIDE DEF new
    <2>4. Len(jobs') = Len(jobs) + Width - 1
      <3>1. Len(jobs \o new) = Len(jobs) + Len(new)
        BY <1>1, <2>2
      <3> QED BY <1>1, <2>1, <2>2, <3>1
    <2>5. \A k \in 1 .. Len(jobs) : jobs'[k] = jobs[k]
      BY <1>1, <2>1, <2>2
    <2>6. ASSUME NEW j \in 1 .. Width - 1 PROVE jobs'[Len(jobs) + j] = new[j]
      BY <1>1, <2>1, <2>2
    <2> QED BY <1>4, <2>1, <2>3, <2>4, <2>5, <2>6
  <1>5. ASSUME ~TakeJob(w), ~JoinHelp(w), ~Fork(w) PROVE jobs' = jobs
    <2> USE <1>5 DEF taskVars, queueVars, claimVars, coordVars
    <2>1. CASE CheckClaims(w)
      BY <2>1 DEF CheckClaims
    <2>2. CASE Claim(w)
      BY <2>2 DEF Claim, DoneOrWait, claimable
    <2>3. CASE NoMoreWork(w)
      BY <2>3 DEF NoMoreWork, DoneOrWait
    <2>4. CASE TaskReturns(w)
      BY <2>4 DEF TaskReturns, Finish
    <2>5. CASE DropGuard(w)
      BY <2>5 DEF DropGuard
    <2>6. CASE Send(w)
      BY <2>6 DEF Send
    <2>7. CASE RunFirst(w)
      BY <2>7 DEF RunFirst, Borrow
    <2>8. CASE CompleteFirst(w)
      BY <2>8 DEF CompleteFirst, GiveBack
    <2>9. CASE RunJob(w)
      BY <2>9 DEF RunJob, Borrow
    <2>10. CASE CountJob(w)
      BY <2>10 DEF CountJob
    <2>11. CASE EndJob(w)
      BY <2>11 DEF EndJob, GiveBackAndNotify, GiveBack
    <2>12. CASE JoinCheck(w)
      BY <2>12 DEF JoinCheck
    <2>13. CASE JoinWait(w)
      BY <2>13 DEF JoinWait
    <2>14. CASE JoinDone(w)
      BY <2>14 DEF JoinDone, Finish
    <2> QED BY <2>1, <2>2, <2>3, <2>4, <2>5, <2>6, <2>7, <2>8, <2>9, <2>10, <2>11, <2>12, <2>13,
       <2>14 DEF Worker
  <1> QED BY <1>2, <1>3, <1>4, <1>5

\* The places of a worker with a job that it has not counted.
Uncounting == {"first", "ranfirst", "job", "ran"}

\* The threads with an uncounted job of task i change by at most the one that moves.
LEMMA UncountedStep ==
  ASSUME Types, PlacesInv, NEW w \in Workers, Worker(w), NEW i \in Index
  PROVE  LET was   == job[w][1] = i /\ at[w] \in Uncounting
             after == job'[w][1] = i /\ at'[w] \in Uncounting
         IN /\ Cardinality(Uncounted(i)) \in Nat
            /\ Cardinality(Uncounted(i)') =
                 Cardinality(Uncounted(i)) + (IF after THEN 1 ELSE 0) - (IF was THEN 1 ELSE 0)
            /\ was => Cardinality(Uncounted(i)) >= 1
  <1> DEFINE was   == job[w][1] = i /\ at[w] \in Uncounting
             after == job'[w][1] = i /\ at'[w] \in Uncounting
             U == Uncounted(i)
             V == Uncounted(i)'
  <1>1. ASSUME NEW x \in Workers, x # w PROVE x \in V <=> x \in U
    BY <1>1, OthersKeep DEF Uncounted
  <1>2. (w \in U <=> was) /\ (w \in V <=> after)
    BY DEF Uncounted, Uncounting
  <1>3. U \subseteq Workers /\ V \subseteq Workers
    BY DEF Uncounted
  <1> HIDE DEF was, after, U, V
  <1>4. IsFiniteSet(U) /\ Cardinality(U) \in Nat
    BY <1>3, FewWorkers
  <1>5. U \ {w} = V \ {w}
    BY <1>1, <1>3
  <1>6. IsFiniteSet(U \ {w}) /\ Cardinality(U \ {w}) \in Nat
    BY <1>3, FewWorkers
  <1>7. Cardinality(U) = Cardinality(U \ {w}) + (IF was THEN 1 ELSE 0)
    <2>1. Cardinality(U \ {w}) = IF w \in U THEN Cardinality(U) - 1 ELSE Cardinality(U)
      BY <1>4, FS_RemoveElement
    <2> QED BY <1>2, <1>4, <2>1
  <1>8. Cardinality(V) = Cardinality(U \ {w}) + (IF after THEN 1 ELSE 0)
    <2>1. IsFiniteSet(V) /\ Cardinality(V) \in Nat
      BY <1>3, FewWorkers
    <2>2. Cardinality(V \ {w}) = IF w \in V THEN Cardinality(V) - 1 ELSE Cardinality(V)
      BY <2>1, FS_RemoveElement
    <2>3. Cardinality(V \ {w}) = Cardinality(U \ {w})
      BY <1>5
    <2> QED BY <1>2, <2>1, <2>2, <2>3
  <1>9. /\ Cardinality(U) \in Nat
        /\ Cardinality(V) = Cardinality(U) + (IF after THEN 1 ELSE 0) - (IF was THEN 1 ELSE 0)
        /\ was => Cardinality(U) >= 1
    BY <1>4, <1>6, <1>7, <1>8
  <1> QED BY <1>9 DEF was, after, U, V

\* A task in a fork_join stays in it until its thread takes the results.
LEMMA ForkedStays ==
  ASSUME Types, PlacesInv, NEW w \in Workers, Worker(w), NEW i \in Index, Forked(i),
         ~(JoinDone(w) /\ index[w] = i)
  PROVE  Forked(i)'
  <1> USE DEF InFork, InJob
  <1>1. PICK x \in Workers : index[x] = i /\ at[x] \in InFork \cup InJob
    BY DEF Forked
  <1>2. CASE x # w
    <2>1. index'[x] = i /\ at'[x] \in InFork \cup InJob
      BY <1>1, <1>2, OthersKeep
    <2> QED BY <2>1 DEF Forked
  <1>3. CASE x = w
    <2>1. /\ at \in [Workers -> Places] /\ Awake(at) \in [Workers -> Places]
          /\ index \in [Workers -> Index \cup {NoIndex}]
      BY AwakeType DEF Types
    <2>4. i # NoIndex
      BY DEF Index, NoIndex
    <2>3. index[w] = i /\ at[w] \in InFork \cup InJob /\ ~JoinDone(w)
      BY <1>1, <1>3
    <2>2. index'[w] = i /\ at'[w] \in InFork \cup InJob
      <3> USE <2>1, <2>3, <2>4 DEF Move, MoveAndNotify
      <3>1. CASE TakeJob(w)
        BY <3>1 DEF TakeJob
      <3>2. CASE CheckClaims(w)
        BY <3>2 DEF CheckClaims
      <3>3. CASE Claim(w)
        BY <3>3 DEF Claim, DoneOrWait, claimable
      <3>4. CASE NoMoreWork(w)
        BY <3>4 DEF NoMoreWork, DoneOrWait
      <3>5. CASE TaskReturns(w)
        BY <3>5 DEF TaskReturns, Finish
      <3>6. CASE DropGuard(w)
        BY <3>6 DEF DropGuard
      <3>7. CASE Send(w)
        BY <3>7 DEF Send
      <3>8. CASE Fork(w)
        BY <3>8 DEF Fork
      <3>9. CASE RunFirst(w)
        BY <3>9 DEF RunFirst, Borrow
      <3>10. CASE CompleteFirst(w)
        BY <3>10 DEF CompleteFirst, GiveBack
      <3>11. CASE RunJob(w)
        BY <3>11 DEF RunJob, Borrow
      <3>12. CASE CountJob(w)
        BY <3>12 DEF CountJob
      <3>13. CASE EndJob(w)
        BY <3>13 DEF EndJob, GiveBackAndNotify, GiveBack
      <3>14. CASE JoinHelp(w)
        BY <3>14 DEF JoinHelp
      <3>15. CASE JoinCheck(w)
        BY <3>15 DEF JoinCheck
      <3>16. CASE JoinWait(w)
        BY <3>16 DEF JoinWait
      <3> QED BY <3>1, <3>2, <3>3, <3>4, <3>5, <3>6, <3>7, <3>8, <3>9, <3>10, <3>11, <3>12,
         <3>13, <3>14, <3>15, <3>16 DEF Worker
    <2> QED BY <2>2 DEF Forked
  <1> QED BY <1>2, <1>3


\* What a step does to the Fork of task i.
LEMMA ForkStep ==
  ASSUME Types, PlacesInv, NEW w \in Workers, Worker(w), NEW i \in Index
  PROVE  \/ Fork(w) /\ i = index[w] /\ fork'[i] = NewFork
         \/ JoinDone(w) /\ i = index[w] /\ fork[i].remaining = 0 /\ fork'[i] = IdleFork
         \/ CompleteFirst(w) /\ i = job[w][1] /\ fork'[i] = Counted(Stored(fork[i], job[w]))
         \/ RunJob(w) /\ i = job[w][1] /\ fork'[i] = Stored(fork[i], job[w])
         \/ CountJob(w) /\ i = job[w][1] /\ fork'[i] = Counted(fork[i])
         \/ /\ fork'[i] = fork[i]
            /\ ~(i = index[w] /\ (Fork(w) \/ JoinDone(w)))
            /\ ~(i = job[w][1] /\ (CompleteFirst(w) \/ CountJob(w) \/ RunJob(w)))
  <1> DEFINE changes == \/ i = index[w] /\ (Fork(w) \/ JoinDone(w))
                        \/ i = job[w][1] /\ (CompleteFirst(w) \/ CountJob(w) \/ RunJob(w))
  <1>1. fork \in [Index -> ForkType]
    BY DEF Types
  <1>2. CASE Fork(w) /\ i = index[w]
    BY <1>1, <1>2 DEF Fork
  <1>3. CASE JoinDone(w) /\ i = index[w]
    BY <1>1, <1>3 DEF JoinDone
  <1>4. CASE CompleteFirst(w) /\ i = job[w][1]
    BY <1>1, <1>4 DEF CompleteFirst
  <1>5. CASE RunJob(w) /\ i = job[w][1]
    BY <1>1, <1>5 DEF RunJob
  <1>6. CASE CountJob(w) /\ i = job[w][1]
    BY <1>1, <1>6 DEF CountJob
  <1>7. ASSUME ~changes PROVE fork'[i] = fork[i]
    <2> USE <1>1, <1>7
    <2>1. CASE TakeJob(w)
      BY <2>1 DEF TakeJob
    <2>2. CASE CheckClaims(w)
      BY <2>2 DEF CheckClaims
    <2>3. CASE Claim(w)
      BY <2>3 DEF Claim, DoneOrWait, claimable
    <2>4. CASE NoMoreWork(w)
      BY <2>4 DEF NoMoreWork, DoneOrWait
    <2>5. CASE TaskReturns(w)
      BY <2>5 DEF TaskReturns, Finish
    <2>6. CASE DropGuard(w)
      BY <2>6 DEF DropGuard
    <2>7. CASE Send(w)
      BY <2>7 DEF Send
    <2>8. CASE Fork(w)
      BY <2>8 DEF Fork
    <2>9. CASE RunFirst(w)
      BY <2>9 DEF RunFirst, Borrow
    <2>10. CASE CompleteFirst(w)
      BY <2>10 DEF CompleteFirst, GiveBack
    <2>11. CASE RunJob(w)
      BY <2>11 DEF RunJob, Borrow
    <2>12. CASE CountJob(w)
      BY <2>12 DEF CountJob
    <2>13. CASE EndJob(w)
      BY <2>13 DEF EndJob, GiveBackAndNotify, GiveBack
    <2>14. CASE JoinHelp(w)
      BY <2>14 DEF JoinHelp
    <2>15. CASE JoinCheck(w)
      BY <2>15 DEF JoinCheck
    <2>16. CASE JoinWait(w)
      BY <2>16 DEF JoinWait
    <2>17. CASE JoinDone(w)
      BY <2>17 DEF JoinDone, Finish
    <2> QED BY <2>1, <2>2, <2>3, <2>4, <2>5, <2>6, <2>7, <2>8, <2>9, <2>10, <2>11, <2>12, <2>13,
       <2>14, <2>15, <2>16, <2>17 DEF Worker
  <1> QED BY <1>2, <1>3, <1>4, <1>5, <1>6, <1>7

\* Whether the worker's job is uncounted before a step and after it.
LEMMA UncountingStep ==
  ASSUME Types, PlacesInv, LockInv, NEW w \in Workers, Worker(w), NEW i \in Index
  PROVE  LET was   == job[w][1] = i /\ at[w] \in Uncounting
             after == job'[w][1] = i /\ at'[w] \in Uncounting
         IN \/ (TakeJob(w) \/ JoinHelp(w)) /\ ~was /\ (after <=> job'[w][1] = i)
            \/ Fork(w) /\ ~was /\ (after <=> index[w] = i)
            \/ (CompleteFirst(w) \/ CountJob(w)) /\ (was <=> job[w][1] = i) /\ ~after
            \/ /\ ~TakeJob(w) /\ ~JoinHelp(w) /\ ~Fork(w) /\ ~CompleteFirst(w) /\ ~CountJob(w)
               /\ was <=> after
  <1> DEFINE was   == job[w][1] = i /\ at[w] \in Uncounting
             after == job'[w][1] = i /\ at'[w] \in Uncounting
  <1> USE DEF Uncounting, Move, MoveAndNotify
  <1>1. /\ at \in [Workers -> Places] /\ Awake(at) \in [Workers -> Places]
        /\ job \in [Workers -> Jobs \cup {NoJob}]
    BY AwakeType DEF Types
  <1>2. CASE TakeJob(w) \/ JoinHelp(w)
    BY <1>1, <1>2 DEF TakeJob, JoinHelp
  <1>3. CASE Fork(w)
    BY <1>1, <1>3 DEF Fork
  <1>4. CASE CompleteFirst(w) \/ CountJob(w)
    BY <1>1, <1>4 DEF CompleteFirst, CountJob
  <1>5. ASSUME ~TakeJob(w), ~JoinHelp(w), ~Fork(w), ~CompleteFirst(w), ~CountJob(w)
        PROVE  was <=> after
    <2> USE <1>1, <1>5
    <2>1. CASE CheckClaims(w)
      BY <2>1 DEF CheckClaims
    <2>2. CASE Claim(w)
      BY <2>2 DEF Claim, DoneOrWait, claimable
    <2>3. CASE NoMoreWork(w)
      BY <2>3 DEF NoMoreWork, DoneOrWait
    <2>4. CASE TaskReturns(w)
      BY <2>4 DEF TaskReturns, Finish
    <2>5. CASE DropGuard(w)
      BY <2>5 DEF DropGuard
    <2>6. CASE Send(w)
      BY <2>6 DEF Send
    <2>7. CASE RunFirst(w)
      BY <2>7 DEF RunFirst, Borrow
    <2>8. CASE RunJob(w)
      BY <2>8 DEF RunJob, Borrow
    <2>9. CASE EndJob(w)
      BY <2>9 DEF EndJob, GiveBackAndNotify, GiveBack
    <2>10. CASE JoinCheck(w)
      BY <2>10 DEF JoinCheck
    <2>11. CASE JoinWait(w)
      BY <2>11 DEF JoinWait
    <2>12. CASE JoinDone(w)
      BY <2>12 DEF JoinDone, Finish
    <2> QED BY <2>1, <2>2, <2>3, <2>4, <2>5, <2>6, <2>7, <2>8, <2>9, <2>10, <2>11, <2>12 DEF
       Worker
  <1> HIDE DEF was, after
  <1>6. \/ (TakeJob(w) \/ JoinHelp(w)) /\ ~was /\ (after <=> job'[w][1] = i)
        \/ Fork(w) /\ ~was /\ (after <=> index[w] = i)
        \/ (CompleteFirst(w) \/ CountJob(w)) /\ (was <=> job[w][1] = i) /\ ~after
        \/ /\ ~TakeJob(w) /\ ~JoinHelp(w) /\ ~Fork(w) /\ ~CompleteFirst(w) /\ ~CountJob(w)
           /\ was <=> after
    BY <1>2, <1>3, <1>4, <1>5 DEF was, after
  <1> QED BY <1>6 DEF was, after

\* A job is stored in its slot, and counting it takes one from what remains.
LEMMA CountedIs ==
  ASSUME NEW g \in ForkType, NEW jb \in Jobs
  PROVE  /\ Stored(g, jb).remaining = g.remaining
         /\ Counted(g).remaining = g.remaining - 1
         /\ Counted(Stored(g, jb)).remaining = g.remaining - 1
         /\ Counted(g).slots = g.slots
         /\ Counted(Stored(g, jb)).slots = Stored(g, jb).slots
         /\ \A j \in JobNo : Stored(g, jb).slots[j] = IF j = jb[2] THEN JobResult(jb) ELSE g.slots[j]
  <1>1. jb[2] \in JobNo
    BY DEF Jobs
  <1> QED BY <1>1 DEF Stored, Counted, ForkType

\* A worker's step keeps what remains of every fork equal to the jobs that are queued
\* or uncounted.
LEMMA CountStep ==
  ASSUME Types, PlacesInv, ClaimsInv, LockInv, CountInv, NEW w \in Workers, Worker(w),
         NEW i \in Index
  PROVE  fork'[i].remaining = Cardinality(OwnJobs(i)') + Cardinality(Uncounted(i)')
  <1> DEFINE was   == job[w][1] = i /\ at[w] \in Uncounting
             after == job'[w][1] = i /\ at'[w] \in Uncounting
  <1>1. /\ fork[i].remaining = Cardinality(OwnJobs(i)) + Cardinality(Uncounted(i))
        /\ fork[i] # IdleFork => Forked(i)
        /\ fork[i] \in ForkType /\ fork[i].remaining \in Int /\ jobs \in Seq(Jobs)
    BY DEF CountInv, Types, ForkType
  <1>2. /\ Cardinality(Uncounted(i)) \in Nat
        /\ Cardinality(Uncounted(i)') =
             Cardinality(Uncounted(i)) + (IF after THEN 1 ELSE 0) - (IF was THEN 1 ELSE 0)
    BY UncountedStep
  <1>3. OwnJobs(i) = InQueue(jobs, i) /\ OwnJobs(i)' = InQueue(jobs', i)
    BY DEF OwnJobs, InQueue
  <1>4. Cardinality(OwnJobs(i)) \in Nat
    BY FewJobs
  <1>5. CASE TakeJob(w) \/ JoinHelp(w)
    <2>1. PICK n \in 1 .. Len(jobs) :
            /\ job'[w] = jobs[n] /\ jobs[n] \in Jobs
            /\ jobs' \in Seq(Jobs) /\ Len(jobs') = Len(jobs) - 1
            /\ \A k \in 1 .. Len(jobs') : jobs'[k] = IF k < n THEN jobs[k] ELSE jobs[k + 1]
      <3>1. ~Fork(w)
        BY <1>5 DEF TakeJob, JoinHelp, Fork, Move
      <3> QED BY <1>5, <3>1, QueueStep
    <2>2. Cardinality(OwnJobs(i)') =
            Cardinality(OwnJobs(i)) - (IF job'[w][1] = i THEN 1 ELSE 0)
      BY <1>1, <1>3, <2>1, TakenOut
    <2>3. fork'[i] = fork[i]
      BY <1>5 DEF TakeJob, JoinHelp
    <2>4. ~was /\ (after <=> job'[w][1] = i)
      BY <1>5, UncountingStep DEF TakeJob, JoinHelp, Fork, CompleteFirst, CountJob, Move
    <2> HIDE DEF was, after
    <2> QED BY <1>1, <1>2, <1>4, <2>2, <2>3, <2>4
  <1>6. CASE Fork(w)
    <2>1. /\ index[w] \in Index
          /\ Len(jobs') = Len(jobs) + Width - 1
          /\ \A k \in 1 .. Len(jobs) : jobs'[k] = jobs[k]
          /\ \A j \in 1 .. Width - 1 : jobs'[Len(jobs) + j] = <<index[w], j>>
      BY <1>6, QueueStep DEF TakeJob, JoinHelp, Fork, Move
    <2>2. ~was /\ (after <=> index[w] = i)
      BY <1>6, UncountingStep DEF TakeJob, JoinHelp, Fork, CompleteFirst, CountJob, Move
    <2>3. CASE i # index[w]
      <3>1. fork'[i] = fork[i]
        BY <1>6, <2>3 DEF Fork, Types
      <3>2. OwnJobs(i)' = OwnJobs(i)
        <4>1. ASSUME NEW k PROVE k \in InQueue(jobs', i) <=> k \in InQueue(jobs, i)
          <5>1. CASE k \in 1 .. Len(jobs)
            BY <1>1, <2>1, <5>1 DEF InQueue
          <5>2. CASE k \in 1 .. Len(jobs') /\ k \notin 1 .. Len(jobs)
            <6>1. /\ k - Len(jobs) \in 1 .. Width - 1
                  /\ k = Len(jobs) + (k - Len(jobs))
              BY <1>1, <2>1, <5>2
            <6>2. jobs'[k] = <<index[w], k - Len(jobs)>>
              BY <2>1, <6>1
            <6> QED BY <2>3, <5>2, <6>2 DEF InQueue
          <5> QED BY <5>1, <5>2 DEF InQueue
        <4>2. InQueue(jobs', i) = InQueue(jobs, i)
          BY <4>1
        <4> QED BY <1>3, <4>2
      <3> HIDE DEF was, after
      <3> QED BY <1>1, <1>2, <2>2, <2>3, <3>1, <3>2
    <2>4. CASE i = index[w]
      <3>1. fork'[i] = NewFork /\ fork'[i].remaining = Width
        BY <1>1, <1>6, <2>4 DEF Fork, NewFork, IdleFork, Types
      <3>2. ~Forked(i)
        BY <1>6, <2>4 DEF Forked, Fork, ClaimsInv, NoIndex, Index, InFork, InJob
      <3>3. Cardinality(OwnJobs(i)) = 0 /\ Cardinality(Uncounted(i)) = 0
        <4>1. fork[i].remaining = 0
          BY <1>1, <3>2 DEF IdleFork
        <4> QED BY <1>1, <1>2, <1>4, <4>1
      <3>4. OwnJobs(i) = {}
        BY <3>3, FewJobs, FS_EmptySet
      <3>5. OwnJobs(i)' = Len(jobs) + 1 .. Len(jobs) + Width - 1
        <4>1. ASSUME NEW k
              PROVE  k \in InQueue(jobs', i) <=> k \in Len(jobs) + 1 .. Len(jobs) + Width - 1
          <5>1. CASE k \in 1 .. Len(jobs)
            <6>1. k \notin InQueue(jobs, i)
              BY <1>3, <3>4
            <6> QED BY <1>1, <2>1, <5>1, <6>1 DEF InQueue
          <5>2. CASE k \in Len(jobs) + 1 .. Len(jobs) + Width - 1
            <6>1. /\ k - Len(jobs) \in 1 .. Width - 1
                  /\ k = Len(jobs) + (k - Len(jobs)) /\ k \in 1 .. Len(jobs')
              BY <1>1, <2>1, <5>2
            <6>2. jobs'[k] = <<index[w], k - Len(jobs)>>
              BY <2>1, <6>1
            <6> QED BY <2>4, <5>2, <6>1, <6>2 DEF InQueue
          <5>3. CASE k \notin 1 .. Len(jobs) /\ k \notin Len(jobs) + 1 .. Len(jobs) + Width - 1
            <6>1. k \notin 1 .. Len(jobs')
              BY <1>1, <2>1, <5>3
            <6> QED BY <5>3, <6>1 DEF InQueue
          <5> QED BY <5>1, <5>2, <5>3
        <4> QED BY <1>3, <4>1
      <3>6. Cardinality(OwnJobs(i)') = Width - 1
        <4>1. /\ Len(jobs) + 1 \in Int /\ Len(jobs) + Width - 1 \in Int
              /\ ~(Len(jobs) + 1 > Len(jobs) + Width - 1)
              /\ (Len(jobs) + Width - 1) - (Len(jobs) + 1) + 1 = Width - 1
          BY <1>1
        <4> QED BY <3>5, <4>1, FS_Interval
      <3> HIDE DEF was, after
      <3> QED BY <1>2, <2>2, <2>4, <3>1, <3>3, <3>6
    <2> QED BY <2>3, <2>4
  <1>7. CASE CompleteFirst(w) \/ CountJob(w)
    <2>1. ~TakeJob(w) /\ ~JoinHelp(w) /\ ~Fork(w) /\ ~JoinDone(w) /\ ~RunJob(w)
      BY <1>7 DEF TakeJob, JoinHelp, Fork, CompleteFirst, CountJob, Move, JoinDone, RunJob
    <2>2. jobs' = jobs
      BY <2>1, QueueStep
    <2>3. (was <=> job[w][1] = i) /\ ~after
      BY <1>7, <2>1, UncountingStep
    <2>4. CASE job[w][1] = i
      <3>1. job[w] \in Jobs
        BY <1>7 DEF CompleteFirst, CountJob, Move, PlacesInv, Place, InJob
      <3>2. fork'[i].remaining = fork[i].remaining - 1
        BY <1>1, <1>7, <2>1, <2>4, <3>1, ForkStep, CountedIs
      <3> HIDE DEF was, after
      <3> QED BY <1>1, <1>2, <1>3, <1>4, <2>2, <2>3, <2>4, <3>2
    <2>5. CASE job[w][1] # i
      <3>1. fork'[i] = fork[i]
        BY <2>1, <2>5, ForkStep
      <3> HIDE DEF was, after
      <3> QED BY <1>1, <1>2, <1>3, <1>4, <2>2, <2>3, <2>5, <3>1
    <2> QED BY <2>4, <2>5
  <1>8. CASE ~TakeJob(w) /\ ~JoinHelp(w) /\ ~Fork(w) /\ ~CompleteFirst(w) /\ ~CountJob(w)
    <2>1. (was <=> after) /\ jobs' = jobs
      BY <1>8, UncountingStep, QueueStep
    <2>2. fork'[i].remaining = fork[i].remaining
      <3>1. RunJob(w) => job[w] \in Jobs
        BY DEF RunJob, Move, PlacesInv, Place, InJob
      <3> QED BY <1>1, <1>8, <3>1, ForkStep, CountedIs DEF IdleFork
    <2> HIDE DEF was, after
    <2> QED BY <1>1, <1>2, <1>3, <1>4, <2>1, <2>2
  <1> QED BY <1>5, <1>6, <1>7, <1>8


\* The closures of the tasks do not change while the pool runs.
LEMMA PlanStays ==
  ASSUME NEW w \in Workers, Worker(w)
  PROVE  plan' = plan
  <1> USE DEF taskVars
  <1>1. CASE TakeJob(w)
    BY <1>1 DEF TakeJob
  <1>2. CASE CheckClaims(w)
    BY <1>2 DEF CheckClaims
  <1>3. CASE Claim(w)
    BY <1>3 DEF Claim, DoneOrWait, claimable
  <1>4. CASE NoMoreWork(w)
    BY <1>4 DEF NoMoreWork, DoneOrWait
  <1>5. CASE TaskReturns(w)
    BY <1>5 DEF TaskReturns, Finish
  <1>6. CASE DropGuard(w)
    BY <1>6 DEF DropGuard
  <1>7. CASE Send(w)
    BY <1>7 DEF Send
  <1>8. CASE Fork(w)
    BY <1>8 DEF Fork
  <1>9. CASE RunFirst(w)
    BY <1>9 DEF RunFirst, Borrow
  <1>10. CASE CompleteFirst(w)
    BY <1>10 DEF CompleteFirst, GiveBack
  <1>11. CASE RunJob(w)
    BY <1>11 DEF RunJob, Borrow
  <1>12. CASE CountJob(w)
    BY <1>12 DEF CountJob
  <1>13. CASE EndJob(w)
    BY <1>13 DEF EndJob, GiveBackAndNotify, GiveBack
  <1>14. CASE JoinHelp(w)
    BY <1>14 DEF JoinHelp
  <1>15. CASE JoinCheck(w)
    BY <1>15 DEF JoinCheck
  <1>16. CASE JoinWait(w)
    BY <1>16 DEF JoinWait
  <1>17. CASE JoinDone(w)
    BY <1>17 DEF JoinDone, Finish
  <1> QED BY <1>1, <1>2, <1>3, <1>4, <1>5, <1>6, <1>7, <1>8, <1>9, <1>10, <1>11, <1>12, <1>13,
     <1>14, <1>15, <1>16, <1>17 DEF Worker

\* A fork_join is only ever open for a task that is in one.
LEMMA ForkedStep ==
  ASSUME Types, PlacesInv, ClaimsInv, LockInv, CountInv, NEW w \in Workers, Worker(w),
         NEW i \in Index, fork'[i] # IdleFork
  PROVE  Forked(i)'
  <1>1. /\ fork[i].remaining = Cardinality(OwnJobs(i)) + Cardinality(Uncounted(i))
        /\ fork[i] # IdleFork => Forked(i)
        /\ jobs \in Seq(Jobs)
    BY DEF CountInv, Types
  <1>2. CASE Fork(w) /\ i = index[w]
    <2>1. index'[w] = i /\ at'[w] = "first"
      BY <1>2, AwakeType DEF Fork, MoveAndNotify
    <2> QED BY <2>1 DEF Forked, InFork
  <1>3. CASE JoinDone(w) /\ i = index[w]
    BY <1>3 DEF JoinDone, Types
  <1>4. CASE ~(i = index[w] /\ (Fork(w) \/ JoinDone(w)))
    <2>1. fork[i] # IdleFork
      <3>1. CASE fork'[i] = fork[i]
        BY <3>1
      <3>2. CASE fork'[i] # fork[i]
        <4>1. at[w] \in Uncounting /\ job[w][1] = i
          BY <1>4, <3>2, ForkStep DEF CompleteFirst, CountJob, RunJob, Move, Uncounting
        <4>2. Cardinality(Uncounted(i)) \in Nat /\ Cardinality(Uncounted(i)) >= 1
          BY <4>1, UncountedStep
        <4>3. Cardinality(OwnJobs(i)) \in Nat
          BY FewJobs
        <4> QED BY <1>1, <4>2, <4>3 DEF IdleFork
      <3> QED BY <3>1, <3>2
    <2> QED BY <1>1, <1>4, <2>1, ForkedStays
  <1> QED BY <1>2, <1>3, <1>4

\* A task that is in a fork_join was in it before, unless it begins it now.
LEMMA ForkedBefore ==
  ASSUME Types, PlacesInv, ClaimsInv, NEW w \in Workers, Worker(w), NEW i \in Index, Forked(i)'
  PROVE  /\ Forked(i) \/ (Fork(w) /\ index[w] = i)
         /\ ~(JoinDone(w) /\ index[w] = i)
  <1> USE DEF InFork, InJob
  <1>1. PICK x \in Workers : index'[x] = i /\ at'[x] \in InFork \cup InJob
    BY DEF Forked
  <1>2. i # NoIndex
    BY DEF Index, NoIndex
  <1>3. CASE x # w
    <2>1. index[x] = i /\ at[x] \in InFork \cup InJob
      BY <1>1, <1>3, OthersKeep
    <2> QED BY <1>2, <1>3, <2>1 DEF Forked, ClaimsInv
  <1>4. CASE x = w
    <2>1. /\ at \in [Workers -> Places] /\ Awake(at) \in [Workers -> Places]
          /\ index \in [Workers -> Index \cup {NoIndex}]
      BY AwakeType DEF Types
    <2>2. /\ index[w] # NoIndex => at[w] \in InTask \cup InJob
          /\ index'[w] = i /\ at'[w] \in InFork \cup InJob
      BY <1>1, <1>4 DEF PlacesInv, Place
    <2>3. /\ index[w] = i
          /\ at[w] \in InFork \cup InJob \/ Fork(w)
      <3> USE <1>2, <2>1, <2>2 DEF Move, MoveAndNotify, InTask
      <3>1. CASE TakeJob(w)
        BY <3>1 DEF TakeJob
      <3>2. CASE CheckClaims(w)
        BY <3>2 DEF CheckClaims
      <3>3. CASE Claim(w)
        BY <3>3 DEF Claim, DoneOrWait, claimable
      <3>4. CASE NoMoreWork(w)
        BY <3>4 DEF NoMoreWork, DoneOrWait
      <3>5. CASE TaskReturns(w)
        BY <3>5 DEF TaskReturns, Finish
      <3>6. CASE DropGuard(w)
        BY <3>6 DEF DropGuard
      <3>7. CASE Send(w)
        BY <3>7 DEF Send
      <3>8. CASE Fork(w)
        BY <3>8 DEF Fork
      <3>9. CASE RunFirst(w)
        BY <3>9 DEF RunFirst, Borrow
      <3>10. CASE CompleteFirst(w)
        BY <3>10 DEF CompleteFirst, GiveBack
      <3>11. CASE RunJob(w)
        BY <3>11 DEF RunJob, Borrow
      <3>12. CASE CountJob(w)
        BY <3>12 DEF CountJob
      <3>13. CASE EndJob(w)
        BY <3>13 DEF EndJob, GiveBackAndNotify, GiveBack
      <3>14. CASE JoinHelp(w)
        BY <3>14 DEF JoinHelp
      <3>15. CASE JoinCheck(w)
        BY <3>15 DEF JoinCheck
      <3>16. CASE JoinWait(w)
        BY <3>16 DEF JoinWait
      <3>17. CASE JoinDone(w)
        BY <3>17 DEF JoinDone, Finish
      <3> QED BY <3>1, <3>2, <3>3, <3>4, <3>5, <3>6, <3>7, <3>8, <3>9, <3>10, <3>11, <3>12,
         <3>13, <3>14, <3>15, <3>16, <3>17 DEF Worker
    <2>4. ~JoinDone(w)
      BY <2>1, <2>2 DEF JoinDone, Finish
    <2> QED BY <2>3, <2>4 DEF Forked
  <1> QED BY <1>3, <1>4

\* A job that is still to return is not lost by a step: whoever takes it runs it.
LEMMA OutstandingStays ==
  ASSUME Types, PlacesInv, NEW w \in Workers, Worker(w), NEW i \in Index, NEW j \in JobNo,
         Outstanding(i, j),
         ~((CompleteFirst(w) \/ RunJob(w)) /\ job[w] = <<i, j>>)
  PROVE  Outstanding(i, j)'
  <1>1. /\ at \in [Workers -> Places] /\ job \in [Workers -> Jobs \cup {NoJob}]
        /\ Awake(at) \in [Workers -> Places] /\ jobs \in Seq(Jobs)
    BY AwakeType DEF Types
  <1>2. CASE \E k \in 1 .. Len(jobs) : jobs[k] = <<i, j>>
    <2>1. PICK k \in 1 .. Len(jobs) : jobs[k] = <<i, j>>
      BY <1>2
    <2>2. CASE TakeJob(w) \/ JoinHelp(w)
      <3>1. PICK n \in 1 .. Len(jobs) :
              /\ job'[w] = jobs[n] /\ Len(jobs') = Len(jobs) - 1
              /\ \A l \in 1 .. Len(jobs') : jobs'[l] = IF l < n THEN jobs[l] ELSE jobs[l + 1]
        <4>1. ~Fork(w)
          BY <2>2 DEF TakeJob, JoinHelp, Fork, Move
        <4> QED BY <2>2, <4>1, QueueStep
      <3>2. CASE k = n
        <4>1. at'[w] = "job" /\ job'[w] = <<i, j>>
          BY <1>1, <2>1, <2>2, <3>1, <3>2 DEF TakeJob, JoinHelp, Move
        <4> QED BY <4>1 DEF Outstanding
      <3>3. CASE k < n
        <4>1. k \in 1 .. Len(jobs') /\ jobs'[k] = <<i, j>>
          BY <1>1, <2>1, <3>1, <3>3
        <4> QED BY <4>1 DEF Outstanding
      <3>4. CASE k > n
        <4>1. k - 1 \in 1 .. Len(jobs') /\ ~(k - 1 < n) /\ (k - 1) + 1 = k
          BY <1>1, <2>1, <3>1, <3>4
        <4>2. jobs'[k - 1] = <<i, j>>
          BY <2>1, <3>1, <4>1
        <4> QED BY <4>1, <4>2 DEF Outstanding
      <3> QED BY <1>1, <2>1, <3>1, <3>2, <3>3, <3>4
    <2>3. CASE Fork(w)
      <3>1. Len(jobs') = Len(jobs) + Width - 1 /\ jobs'[k] = jobs[k]
        BY <2>1, <2>3, QueueStep DEF TakeJob, JoinHelp, Fork, Move
      <3>2. k \in 1 .. Len(jobs')
        BY <1>1, <2>1, <3>1
      <3> QED BY <2>1, <3>1, <3>2 DEF Outstanding
    <2>4. CASE ~TakeJob(w) /\ ~JoinHelp(w) /\ ~Fork(w)
      <3>1. jobs' = jobs
        BY <2>4, QueueStep
      <3> QED BY <2>1, <3>1 DEF Outstanding
    <2> QED BY <2>2, <2>3, <2>4
  <1>3. CASE \E x \in Workers : job[x] = <<i, j>> /\ at[x] \in {"first", "ranfirst", "job"}
    <2>1. PICK x \in Workers : job[x] = <<i, j>> /\ at[x] \in {"first", "ranfirst", "job"}
      BY <1>3
    <2>2. CASE x # w
      <3>1. job'[x] = job[x] /\ at'[x] = at[x]
        BY <2>1, <2>2, OthersKeep
      <3> QED BY <2>1, <3>1 DEF Outstanding
    <2>3. CASE x = w
      <3>1. RunFirst(w)
        BY <2>1, <2>3 DEF Worker, TakeJob, CheckClaims, Claim, NoMoreWork, TaskReturns, DropGuard,
           Send, Fork, CountJob, EndJob, GiveBackAndNotify, JoinHelp, JoinCheck, JoinWait,
           JoinDone, Move, CompleteFirst, RunJob
      <3>2. at'[w] = "ranfirst" /\ job'[w] = job[w]
        BY <1>1, <3>1 DEF RunFirst, Move
      <3> QED BY <2>1, <2>3, <3>2 DEF Outstanding
    <2> QED BY <2>2, <2>3
  <1> QED BY <1>2, <1>3 DEF Outstanding

\* A worker's step fills a slot only with what its job returned.
LEMMA SlotStep ==
  ASSUME Types, PlacesInv, ClaimsInv, LockInv, CountInv, SlotInv, NEW w \in Workers, Worker(w)
  PROVE  SlotInv'
  <1> SUFFICES ASSUME NEW i \in Index, NEW j \in JobNo
               PROVE  /\ Forked(i)' /\ fork'[i].slots[j] = "none" => Outstanding(i, j)'
                      /\ fork'[i].slots[j] = "panic" => plan'[i].crash = j
    BY DEF SlotInv
  <1>1. /\ fork[i] \in ForkType /\ plan' = plan /\ jobs \in Seq(Jobs)
        /\ at \in [Workers -> Places] /\ Awake(at) \in [Workers -> Places]
        /\ job \in [Workers -> Jobs \cup {NoJob}]
    BY AwakeType, PlanStays DEF Types
  <1>2. /\ Forked(i) /\ fork[i].slots[j] = "none" => Outstanding(i, j)
        /\ fork[i].slots[j] = "panic" => plan[i].crash = j
    BY DEF SlotInv
  <1>3. CompleteFirst(w) \/ RunJob(w) => job[w] \in Jobs /\ job[w] = <<job[w][1], job[w][2]>>
    BY DEF CompleteFirst, RunJob, Move, PlacesInv, Place, InJob, Jobs
  <1>4. CASE fork'[i] = fork[i] /\ ~(i = index[w] /\ (Fork(w) \/ JoinDone(w)))
    <2>1. ASSUME Forked(i)', fork'[i].slots[j] = "none" PROVE Outstanding(i, j)'
      <3>1. Outstanding(i, j)
        BY <1>2, <1>4, <2>1, ForkedBefore
      <3>2. ~((CompleteFirst(w) \/ RunJob(w)) /\ job[w] = <<i, j>>)
        <4> SUFFICES ASSUME CompleteFirst(w) \/ RunJob(w), job[w] = <<i, j>> PROVE FALSE
          OBVIOUS
        <4>1. job[w] \in Jobs /\ job[w][1] = i /\ job[w][2] = j
          BY <1>3
        <4>2. /\ \/ fork'[i] = Counted(Stored(fork[i], job[w]))
                 \/ fork'[i] = Stored(fork[i], job[w])
          BY <4>1, ForkStep DEF CompleteFirst, RunJob, CountJob, Fork, JoinDone, Move
        <4>3. fork'[i].slots[j] = JobResult(job[w])
          BY <1>1, <4>1, <4>2, CountedIs
        <4> QED BY <2>1, <4>3 DEF JobResult
      <3> QED BY <3>1, <3>2, OutstandingStays
    <2> QED BY <1>1, <1>2, <1>4, <2>1
  <1>5. CASE Fork(w) /\ i = index[w]
    <2>1. fork'[i] = NewFork
      BY <1>5 DEF Fork, Types
    <2>2. fork'[i].slots[j] = "none"
      BY <2>1 DEF NewFork, IdleFork
    <2>3. Outstanding(i, j)'
      <3>1. CASE j = 0
        <4>1. job'[w] = <<i, 0>> /\ at'[w] = "first"
          BY <1>1, <1>5 DEF Fork, MoveAndNotify
        <4> QED BY <3>1, <4>1 DEF Outstanding
      <3>2. CASE j # 0
        <4>1. j \in 1 .. Width - 1
          BY <3>2 DEF JobNo
        <4>2. Len(jobs') = Len(jobs) + Width - 1 /\ jobs'[Len(jobs) + j] = <<i, j>>
          BY <1>5, <4>1, QueueStep DEF TakeJob, JoinHelp, Fork, Move
        <4>3. Len(jobs) + j \in 1 .. Len(jobs')
          BY <1>1, <4>1, <4>2
        <4> QED BY <4>2, <4>3 DEF Outstanding
      <3> QED BY <3>1, <3>2
    <2> QED BY <2>2, <2>3
  <1>6. CASE JoinDone(w) /\ i = index[w]
    <2>1. fork'[i].slots[j] = "none"
      BY <1>6 DEF JoinDone, IdleFork, Types
    <2> QED BY <1>6, <2>1, ForkedBefore
  <1>7. CASE (CompleteFirst(w) \/ RunJob(w)) /\ i = job[w][1]
    <2>1. /\ \/ fork'[i] = Counted(Stored(fork[i], job[w]))
             \/ fork'[i] = Stored(fork[i], job[w])
      BY <1>7, ForkStep DEF CompleteFirst, RunJob, CountJob, Fork, JoinDone, Move
    <2>2. fork'[i].slots[j] = IF j = job[w][2] THEN JobResult(job[w]) ELSE fork[i].slots[j]
      BY <1>1, <1>3, <1>7, <2>1, CountedIs
    <2>3. CASE j = job[w][2]
      BY <1>1, <1>7, <2>2, <2>3 DEF JobResult, JobPanics
    <2>4. CASE j # job[w][2]
      <3>1. fork'[i].slots[j] = fork[i].slots[j]
        BY <2>2, <2>4
      <3>2. job[w] # <<i, j>>
        BY <2>4
      <3>3. ASSUME Forked(i)', fork'[i].slots[j] = "none" PROVE Outstanding(i, j)'
        <4>1. Forked(i)
          BY <1>7, <3>3, ForkedBefore DEF CompleteFirst, RunJob, Fork, Move
        <4> QED BY <1>2, <3>1, <3>2, <3>3, <4>1, OutstandingStays
      <3> QED BY <1>1, <1>2, <3>1, <3>3
    <2> QED BY <2>3, <2>4
  <1>8. CASE CountJob(w) /\ i = job[w][1]
    <2>1. fork'[i] = Counted(fork[i])
      BY <1>8, ForkStep DEF CompleteFirst, RunJob, CountJob, Fork, JoinDone, Move
    <2>2. fork'[i].slots[j] = fork[i].slots[j]
      BY <2>1 DEF Counted
    <2>3. ASSUME Forked(i)', fork'[i].slots[j] = "none" PROVE Outstanding(i, j)'
      <3>1. Forked(i) /\ ~CompleteFirst(w) /\ ~RunJob(w)
        BY <1>8, <2>3, ForkedBefore DEF CountJob, Fork, CompleteFirst, RunJob, Move
      <3> QED BY <1>2, <2>2, <2>3, <3>1, OutstandingStays
    <2> QED BY <1>1, <1>2, <2>2, <2>3
  <1> QED BY <1>4, <1>5, <1>6, <1>7, <1>8, ForkStep


\* When nothing remains of a fork, every slot is full.
LEMMA AllReturned ==
  ASSUME Types, CountInv, SlotInv, NEW i \in Index, Forked(i), fork[i].remaining = 0,
         NEW j \in JobNo
  PROVE  fork[i].slots[j] # "none"
  <1>1. 0 = Cardinality(OwnJobs(i)) + Cardinality(Uncounted(i)) /\ jobs \in Seq(Jobs)
    BY DEF CountInv, Types
  <1>2. IsFiniteSet(OwnJobs(i)) /\ Cardinality(OwnJobs(i)) \in Nat
    BY FewJobs
  <1>3. IsFiniteSet(Uncounted(i)) /\ Cardinality(Uncounted(i)) \in Nat
    <2>1. Uncounted(i) \in SUBSET Workers
      BY DEF Uncounted
    <2> QED BY <2>1, FewWorkers
  <1>4. Cardinality(OwnJobs(i)) = 0 /\ Cardinality(Uncounted(i)) = 0
    BY <1>1, <1>2, <1>3
  <1>5. OwnJobs(i) = {} /\ Uncounted(i) = {}
    BY <1>2, <1>3, <1>4, FS_EmptySet
  <1>6. ASSUME NEW k \in 1 .. Len(jobs), jobs[k] = <<i, j>> PROVE FALSE
    BY <1>5, <1>6 DEF OwnJobs
  <1>7. ASSUME NEW w \in Workers, job[w] = <<i, j>>, at[w] \in {"first", "ranfirst", "job"}
        PROVE  FALSE
    BY <1>5, <1>7 DEF Uncounted
  <1> QED BY <1>6, <1>7 DEF SlotInv, Outstanding

\* A task that takes results of which one is missing a value has a panicked job.
LEMMA JoinPanics ==
  ASSUME Types, PlacesInv, CountInv, SlotInv, NEW w \in Workers, JoinDone(w)
  PROVE  /\ index[w] \in Index /\ Forked(index[w]) /\ forks_left[index[w]] > 0
         /\ \/ \A j \in JobNo : fork[index[w]].slots[j] = "value"
            \/ plan[index[w]].crash < Width /\ Finish(w, "panic")
  <1>1. /\ at[w] = "join" /\ index[w] \in Index /\ fork[index[w]].remaining = 0
        /\ forks_left[index[w]] > 0
    BY DEF JoinDone, PlacesInv, Place, InTask, InFork, NoIndex, Index
  <1>2. Forked(index[w])
    BY <1>1 DEF Forked, InFork
  <1>3. ASSUME NEW j \in JobNo, fork[index[w]].slots[j] # "value"
        PROVE  plan[index[w]].crash < Width
    <2>1. fork[index[w]].slots[j] = "panic"
      <3>1. fork[index[w]] \in ForkType
        BY <1>1 DEF Types
      <3>2. fork[index[w]].slots[j] \in {"none", "value", "panic"}
        BY <3>1 DEF ForkType
      <3> QED BY <1>1, <1>2, <1>3, <3>2, AllReturned
    <2>2. plan[index[w]].crash = j
      BY <1>1, <2>1 DEF SlotInv
    <2> QED BY <2>2 DEF JobNo
  <1>4. (\E j \in JobNo : fork[index[w]].slots[j] # "value") => Finish(w, "panic")
    BY DEF JoinDone
  <1> QED BY <1>1, <1>2, <1>3, <1>4

\* A task makes no more fork_joins than its closure asks for, and panics only as it says.
LEMMA PanicStep ==
  ASSUME Types, PlacesInv, CountInv, SlotInv, PanicInv, NEW w \in Workers, Worker(w)
  PROVE  PanicInv'
  <1> SUFFICES ASSUME NEW i \in Index
               PROVE  /\ forks_left'[i] <= plan'[i].forks
                      /\ result'[i] = "panic" => verdict'[i] = "panic"
    BY DEF PanicInv, verdict
  <1>1. /\ plan' = plan /\ verdict' = verdict
        /\ plan[i] \in [forks : 0 .. MaxForks, crash : 0 .. Width, end : Verdicts]
        /\ forks_left[i] \in 0 .. MaxForks
    BY PlanStays DEF Types, verdict
  <1>2. /\ forks_left[i] <= plan[i].forks
        /\ result[i] = "panic" => verdict[i] = "panic"
        /\ plan[i].forks \in Nat /\ forks_left[i] \in Nat
    BY <1>1 DEF PanicInv
  <1>3. CASE i # index[w]
    BY <1>1, <1>2, <1>3, TasksKeep
  <1>4. CASE i = index[w] /\ TaskReturns(w)
    <2>1. PICK v \in Verdicts : /\ Finish(w, v)
                                /\ \/ v = plan[i].end /\ forks_left[i] = 0
                                   \/ v = "err" /\ (superseded(i) \/ cancelled)
      BY <1>4, TaskVerdict
    <2>2. result'[i] = v /\ forks_left' = forks_left
      BY <1>4, <2>1 DEF Finish, TaskReturns, Types
    <2>3. v = "panic" => verdict[i] = "panic"
      BY <1>1, <2>1 DEF verdict, Verdict
    <2> QED BY <1>1, <1>2, <2>2, <2>3
  <1>5. CASE i = index[w] /\ JoinDone(w)
    <2>1. /\ forks_left[i] > 0
          /\ \/ \A j \in JobNo : fork[i].slots[j] = "value"
             \/ plan[i].crash < Width /\ Finish(w, "panic")
      BY <1>5, JoinPanics
    <2>2. forks_left'[i] = forks_left[i] - 1
      BY <1>5 DEF JoinDone, Types
    <2>3. ASSUME result'[i] = "panic" PROVE verdict[i] = "panic"
      <3>1. CASE \A j \in JobNo : fork[i].slots[j] = "value"
        <4>1. result' = result
          BY <1>5, <3>1 DEF JoinDone
        <4> QED BY <1>2, <2>3, <4>1
      <3>2. CASE plan[i].crash < Width
        BY <1>1, <1>2, <2>1, <3>2 DEF verdict, Verdict
      <3> QED BY <2>1, <3>1, <3>2
    <2> QED BY <1>1, <1>2, <2>2, <2>3
  <1>6. CASE ~TaskReturns(w) /\ ~JoinDone(w)
    <2>1. result' = result /\ forks_left' = forks_left
      <3> USE <1>6 DEF taskVars
      <3>1. CASE TakeJob(w)
        BY <3>1 DEF TakeJob
      <3>2. CASE CheckClaims(w)
        BY <3>2 DEF CheckClaims
      <3>3. CASE Claim(w)
        BY <3>3 DEF Claim, DoneOrWait, claimable
      <3>4. CASE NoMoreWork(w)
        BY <3>4 DEF NoMoreWork, DoneOrWait
      <3>5. CASE TaskReturns(w)
        BY <3>5 DEF TaskReturns, Finish
      <3>6. CASE DropGuard(w)
        BY <3>6 DEF DropGuard
      <3>7. CASE Send(w)
        BY <3>7 DEF Send
      <3>8. CASE Fork(w)
        BY <3>8 DEF Fork
      <3>9. CASE RunFirst(w)
        BY <3>9 DEF RunFirst, Borrow
      <3>10. CASE CompleteFirst(w)
        BY <3>10 DEF CompleteFirst, GiveBack
      <3>11. CASE RunJob(w)
        BY <3>11 DEF RunJob, Borrow
      <3>12. CASE CountJob(w)
        BY <3>12 DEF CountJob
      <3>13. CASE EndJob(w)
        BY <3>13 DEF EndJob, GiveBackAndNotify, GiveBack
      <3>14. CASE JoinHelp(w)
        BY <3>14 DEF JoinHelp
      <3>15. CASE JoinCheck(w)
        BY <3>15 DEF JoinCheck
      <3>16. CASE JoinWait(w)
        BY <3>16 DEF JoinWait
      <3>17. CASE JoinDone(w)
        BY <3>17 DEF JoinDone, Finish
      <3> QED BY <3>1, <3>2, <3>3, <3>4, <3>5, <3>6, <3>7, <3>8, <3>9, <3>10, <3>11, <3>12,
         <3>13, <3>14, <3>15, <3>16, <3>17 DEF Worker
    <2> QED BY <1>1, <1>2, <2>1
  <1> QED BY <1>3, <1>4, <1>5, <1>6

\* A worker's step sends a result once.
LEMMA ReceiptStep ==
  ASSUME Types, PlacesInv, ClaimsInv, ResultsInv, ReceiptInv, NEW w \in Workers, Worker(w)
  PROVE  ReceiptInv'
  <1>1. /\ UNCHANGED <<slots, failure, done, quiet, cancelled>>
        /\ index \in [Workers -> Index \cup {NoIndex}]
        /\ channel \subseteq Index /\ slots \subseteq Index /\ next \in Nat
    BY CountTypes, FlagTypes DEF Types
  <1>2. \A i \in channel \cup slots : i < next /\ i # NoIndex
    BY <1>1 DEF ResultsInv, Index, NoIndex
  <1>3. /\ \A i \in channel : i \notin slots
        /\ \A x \in Workers : index[x] \notin channel \cup slots
    BY DEF ReceiptInv
  <1>4. CASE Send(w)
    <2>1. /\ channel' = channel \cup {index[w]} /\ index' = [index EXCEPT ![w] = NoIndex]
          /\ index[w] \in Index
      BY <1>4 DEF Send, Move, PlacesInv, Place, InTask
    <2>2. \A x \in Workers : index'[x] \notin channel' \cup slots'
      <3> SUFFICES ASSUME NEW x \in Workers PROVE index'[x] \notin channel' \cup slots'
        OBVIOUS
      <3>1. CASE x = w
        BY <1>1, <1>2, <2>1, <3>1 DEF Index, NoIndex
      <3>2. CASE x # w
        BY <1>1, <1>2, <1>3, <2>1, <3>2 DEF ClaimsInv, Index, NoIndex
      <3> QED BY <3>1, <3>2
    <2>3. \A i \in channel' : i \notin slots'
      BY <1>1, <1>3, <2>1
    <2> QED BY <1>1, <2>2, <2>3 DEF ReceiptInv
  <1>5. CASE ~Send(w)
    <2>1. channel' = channel /\ (index'[w] = index[w] \/ index'[w] \in {next, NoIndex})
      <3> USE <1>1, <1>5 DEF coordVars
      <3>1. CASE TakeJob(w)
        BY <3>1 DEF TakeJob
      <3>2. CASE CheckClaims(w)
        BY <3>2 DEF CheckClaims
      <3>3. CASE Claim(w)
        BY <3>3 DEF Claim, DoneOrWait, claimable
      <3>4. CASE NoMoreWork(w)
        BY <3>4 DEF NoMoreWork, DoneOrWait
      <3>5. CASE TaskReturns(w)
        BY <3>5 DEF TaskReturns, Finish
      <3>6. CASE DropGuard(w)
        BY <3>6 DEF DropGuard
      <3>7. CASE Send(w)
        BY <3>7 DEF Send
      <3>8. CASE Fork(w)
        BY <3>8 DEF Fork
      <3>9. CASE RunFirst(w)
        BY <3>9 DEF RunFirst, Borrow
      <3>10. CASE CompleteFirst(w)
        BY <3>10 DEF CompleteFirst, GiveBack
      <3>11. CASE RunJob(w)
        BY <3>11 DEF RunJob, Borrow
      <3>12. CASE CountJob(w)
        BY <3>12 DEF CountJob
      <3>13. CASE EndJob(w)
        BY <3>13 DEF EndJob, GiveBackAndNotify, GiveBack
      <3>14. CASE JoinHelp(w)
        BY <3>14 DEF JoinHelp
      <3>15. CASE JoinCheck(w)
        BY <3>15 DEF JoinCheck
      <3>16. CASE JoinWait(w)
        BY <3>16 DEF JoinWait
      <3>17. CASE JoinDone(w)
        BY <3>17 DEF JoinDone, Finish
      <3> QED BY <3>1, <3>2, <3>3, <3>4, <3>5, <3>6, <3>7, <3>8, <3>9, <3>10, <3>11, <3>12,
         <3>13, <3>14, <3>15, <3>16, <3>17 DEF Worker
    <2>2. \A x \in Workers : index'[x] \notin channel' \cup slots'
      BY <1>1, <1>2, <1>3, <2>1, OthersKeep
    <2> QED BY <1>1, <2>1, <2>2 DEF ReceiptInv
  <1> QED BY <1>4, <1>5

\* A sequence without its last element.
LEMMA FrontIs ==
  ASSUME NEW S, NEW s \in Seq(S), s # <<>>
  PROVE  /\ Len(s) \in Nat /\ Len(Front(s)) = Len(s) - 1
         /\ \A k \in 1 .. Len(s) - 1 : Front(s)[k] = s[k]
  <1>1. PICK n \in Nat : Len(s) = n /\ n # 0
    OBVIOUS
  <1>2. 1 \in Int /\ n - 1 \in Int /\ \A k \in 1 .. n - 1 : s[k] \in S
    BY <1>1
  <1>3. /\ Len(SubSeq(s, 1, n - 1)) = IF 1 <= n - 1 THEN (n - 1) - 1 + 1 ELSE 0
        /\ \A k \in 1 .. (n - 1) - 1 + 1 : SubSeq(s, 1, n - 1)[k] = s[1 + k - 1]
    BY <1>2, SubSeqProperties
  <1>4. Front(s) = SubSeq(s, 1, n - 1)
    BY <1>1 DEF Front
  <1>5. /\ Len(Front(s)) = IF 1 <= n - 1 THEN (n - 1) - 1 + 1 ELSE 0
        /\ \A k \in 1 .. (n - 1) - 1 + 1 : Front(s)[k] = s[1 + k - 1]
    BY <1>3, <1>4, Zenon
  <1>6. (IF 1 <= n - 1 THEN (n - 1) - 1 + 1 ELSE 0) = n - 1
    BY <1>1
  <1>7. ASSUME NEW k \in 1 .. n - 1 PROVE Front(s)[k] = s[k]
    <2>1. k \in 1 .. (n - 1) - 1 + 1 /\ 1 + k - 1 = k
      BY <1>1
    <2> QED BY <1>5, <2>1
  <1> QED BY <1>1, <1>5, <1>6, <1>7

\* A scratch is only dirty when a job panicked, and the task of that job still has the
\* panic to take, or has raised it.
LEMMA DirtStep ==
  ASSUME Types, PlacesInv, ClaimsInv, LockInv, CountInv, SlotInv, DirtInv,
         NEW w \in Workers, Worker(w)
  PROVE  DirtInv'
  <1>1. /\ held \in [Workers -> {"none", "clean", "dirty"}] /\ scratch \in Seq({"clean", "dirty"})
        /\ panicked \in Index \cup {NoIndex} /\ plan' = plan
        /\ job \in [Workers -> Jobs \cup {NoJob}] /\ at \in [Workers -> Places]
    BY PlanStays DEF Types
  <1>2. ASSUME Dirty'
        PROVE  Dirty \/ ((RunFirst(w) \/ RunJob(w)) /\ JobPanics(job[w]))
    <2>1. CASE RunFirst(w) \/ RunJob(w)
      <3>1. Borrow(w)
        BY <2>1 DEF RunFirst, RunJob
      <3>2. ASSUME Contains(scratch', "dirty") PROVE Contains(scratch, "dirty")
        <4>1. CASE scratch = <<>>
          BY <3>1, <3>2, <4>1 DEF Borrow
        <4>2. CASE scratch # <<>>
          <5>1. scratch' = Front(scratch)
            BY <3>1, <4>2 DEF Borrow
          <5>2. /\ Len(scratch) \in Nat /\ Len(Front(scratch)) = Len(scratch) - 1
                /\ \A k \in 1 .. Len(scratch) - 1 : Front(scratch)[k] = scratch[k]
            BY <1>1, <4>2, FrontIs
          <5> QED BY <3>2, <5>1, <5>2 DEF Contains
        <4> QED BY <4>1, <4>2
      <3>3. ASSUME NEW x \in Workers, held'[x] = "dirty"
            PROVE  Dirty \/ JobPanics(job[w])
        <4>1. CASE x = w
          <5>1. JobPanics(job[w]) \/ (scratch # <<>> /\ Last(scratch) = "dirty")
            BY <1>1, <3>1, <3>3, <4>1 DEF Borrow
          <5>2. scratch # <<>> /\ Last(scratch) = "dirty" => Contains(scratch, "dirty")
            <6>1. scratch # <<>> => Len(scratch) \in 1 .. Len(scratch)
              BY <1>1
            <6> QED BY <6>1 DEF Contains, Last
          <5> QED BY <5>1, <5>2 DEF Dirty
        <4>2. CASE x # w
          BY <3>3, <4>2, OthersKeep DEF Dirty
        <4> QED BY <4>1, <4>2
      <3> QED BY <1>2, <2>1, <3>2, <3>3 DEF Dirty
    <2>2. CASE CompleteFirst(w) \/ EndJob(w)
      <3>1. GiveBack(w)
        BY <2>2 DEF CompleteFirst, EndJob, GiveBackAndNotify
      <3>2. held[w] \in {"clean", "dirty"}
        BY <1>1, <2>2 DEF CompleteFirst, EndJob, GiveBackAndNotify, Move, PlacesInv, Place
      <3>3. ASSUME Contains(scratch', "dirty")
            PROVE  Contains(scratch, "dirty") \/ held[w] = "dirty"
        BY <1>1, <3>1, <3>2, <3>3 DEF GiveBack, Contains
      <3>4. ASSUME NEW x \in Workers, held'[x] = "dirty" PROVE held[x] = "dirty"
        BY <1>1, <3>1, <3>4 DEF GiveBack
      <3> QED BY <1>2, <3>3, <3>4 DEF Dirty
    <2>3. CASE ~RunFirst(w) /\ ~RunJob(w) /\ ~CompleteFirst(w) /\ ~EndJob(w)
      <3>1. held' = held /\ scratch' = scratch
        <4> USE <2>3
        <4>1. CASE TakeJob(w)
          BY <4>1 DEF TakeJob
        <4>2. CASE CheckClaims(w)
          BY <4>2 DEF CheckClaims
        <4>3. CASE Claim(w)
          BY <4>3 DEF Claim, DoneOrWait, claimable
        <4>4. CASE NoMoreWork(w)
          BY <4>4 DEF NoMoreWork, DoneOrWait
        <4>5. CASE TaskReturns(w)
          BY <4>5 DEF TaskReturns, Finish
        <4>6. CASE DropGuard(w)
          BY <4>6 DEF DropGuard
        <4>7. CASE Send(w)
          BY <4>7 DEF Send
        <4>8. CASE Fork(w)
          BY <4>8 DEF Fork
        <4>9. CASE RunFirst(w)
          BY <4>9 DEF RunFirst, Borrow
        <4>10. CASE CompleteFirst(w)
          BY <4>10 DEF CompleteFirst, GiveBack
        <4>11. CASE RunJob(w)
          BY <4>11 DEF RunJob, Borrow
        <4>12. CASE CountJob(w)
          BY <4>12 DEF CountJob
        <4>13. CASE EndJob(w)
          BY <4>13 DEF EndJob, GiveBackAndNotify, GiveBack
        <4>14. CASE JoinHelp(w)
          BY <4>14 DEF JoinHelp
        <4>15. CASE JoinCheck(w)
          BY <4>15 DEF JoinCheck
        <4>16. CASE JoinWait(w)
          BY <4>16 DEF JoinWait
        <4>17. CASE JoinDone(w)
          BY <4>17 DEF JoinDone, Finish
        <4> QED BY <4>1, <4>2, <4>3, <4>4, <4>5, <4>6, <4>7, <4>8, <4>9, <4>10, <4>11, <4>12,
           <4>13, <4>14, <4>15, <4>16, <4>17 DEF Worker
      <3> QED BY <1>2, <3>1 DEF Dirty
    <2> QED BY <2>1, <2>2, <2>3
  <1>3. ASSUME panicked # NoIndex PROVE panicked' # NoIndex
    <2>1. CASE TaskReturns(w) \/ JoinDone(w)
      <3>1. index[w] \in Index
        BY <2>1 DEF TaskReturns, JoinDone, PlacesInv, Place, InTask
      <3> QED BY <1>1, <1>3, <2>1, <3>1 DEF TaskReturns, JoinDone, Finish, Lower, Index, NoIndex, claimVars
    <2>2. CASE ~TaskReturns(w) /\ ~JoinDone(w)
      <3>1. panicked' = panicked
        <4> USE <2>2 DEF claimVars
        <4>1. CASE TakeJob(w)
          BY <4>1 DEF TakeJob
        <4>2. CASE CheckClaims(w)
          BY <4>2 DEF CheckClaims
        <4>3. CASE Claim(w)
          BY <4>3 DEF Claim, DoneOrWait, claimable
        <4>4. CASE NoMoreWork(w)
          BY <4>4 DEF NoMoreWork, DoneOrWait
        <4>5. CASE TaskReturns(w)
          BY <4>5 DEF TaskReturns, Finish
        <4>6. CASE DropGuard(w)
          BY <4>6 DEF DropGuard
        <4>7. CASE Send(w)
          BY <4>7 DEF Send
        <4>8. CASE Fork(w)
          BY <4>8 DEF Fork
        <4>9. CASE RunFirst(w)
          BY <4>9 DEF RunFirst, Borrow
        <4>10. CASE CompleteFirst(w)
          BY <4>10 DEF CompleteFirst, GiveBack
        <4>11. CASE RunJob(w)
          BY <4>11 DEF RunJob, Borrow
        <4>12. CASE CountJob(w)
          BY <4>12 DEF CountJob
        <4>13. CASE EndJob(w)
          BY <4>13 DEF EndJob, GiveBackAndNotify, GiveBack
        <4>14. CASE JoinHelp(w)
          BY <4>14 DEF JoinHelp
        <4>15. CASE JoinCheck(w)
          BY <4>15 DEF JoinCheck
        <4>16. CASE JoinWait(w)
          BY <4>16 DEF JoinWait
        <4>17. CASE JoinDone(w)
          BY <4>17 DEF JoinDone, Finish
        <4> QED BY <4>1, <4>2, <4>3, <4>4, <4>5, <4>6, <4>7, <4>8, <4>9, <4>10, <4>11, <4>12,
           <4>13, <4>14, <4>15, <4>16, <4>17 DEF Worker
      <3> QED BY <1>3, <3>1
    <2> QED BY <2>1, <2>2
  <1>4. ASSUME NEW i \in Index, Cracked(i) PROVE panicked' # NoIndex \/ Cracked(i)'
    <2>1. CASE \E j \in JobNo : fork[i].slots[j] = "panic"
      <3>1. PICK j \in JobNo : fork[i].slots[j] = "panic"
        BY <2>1
      <3>2. plan[i].crash = j /\ fork[i] \in ForkType
        BY <3>1 DEF SlotInv, Types
      <3>3. CASE JoinDone(w) /\ i = index[w]
        <4>1. Finish(w, "panic")
          BY <3>1, <3>3 DEF JoinDone
        <4> QED BY <1>1, <3>3, <4>1 DEF Finish, Lower, Index, NoIndex
      <3>4. CASE Fork(w) /\ i = index[w]
        <4>1. ~Forked(i)
          BY <3>4 DEF Forked, Fork, ClaimsInv, NoIndex, Index, InFork, InJob
        <4>2. fork[i] = IdleFork
          BY <4>1 DEF CountInv
        <4> QED BY <3>1, <4>2 DEF IdleFork
      <3>5. ASSUME ~(i = index[w] /\ (Fork(w) \/ JoinDone(w)))
            PROVE  fork'[i].slots[j] = "panic"
        <4>1. CompleteFirst(w) \/ RunJob(w) => job[w] \in Jobs
          BY DEF CompleteFirst, RunJob, Move, PlacesInv, Place, InJob
        <4>2. i = job[w][1] /\ j = job[w][2] => JobResult(job[w]) = "panic"
          BY <3>2 DEF JobResult, JobPanics
        <4>3. Counted(fork[i]).slots = fork[i].slots
          BY DEF Counted
        <4>4. CompleteFirst(w) \/ RunJob(w) =>
                /\ Counted(Stored(fork[i], job[w])).slots = Stored(fork[i], job[w]).slots
                /\ Stored(fork[i], job[w]).slots[j]
                     = IF j = job[w][2] THEN JobResult(job[w]) ELSE fork[i].slots[j]
          BY <3>2, <4>1, CountedIs
        <4> QED BY <3>1, <3>5, <4>2, <4>3, <4>4, ForkStep
      <3> QED BY <3>3, <3>4, <3>5 DEF Cracked
    <2>2. CASE \E x \in Workers : at[x] = "ranfirst" /\ job[x][1] = i /\ JobPanics(job[x])
      <3>1. PICK x \in Workers : at[x] = "ranfirst" /\ job[x][1] = i /\ JobPanics(job[x])
        BY <2>2
      <3>2. CASE x # w
        <4>1. at'[x] = "ranfirst" /\ job'[x] = job[x]
          BY <3>1, <3>2, OthersKeep
        <4> QED BY <1>1, <3>1, <4>1 DEF Cracked, JobPanics
      <3>3. CASE x = w
        <4>1. CompleteFirst(w)
          BY <3>1, <3>3 DEF Worker, TakeJob, CheckClaims, Claim, NoMoreWork, TaskReturns, DropGuard,
             Send, Fork, CountJob, EndJob, GiveBackAndNotify, JoinHelp, JoinCheck, JoinWait,
             JoinDone, Move, RunFirst, RunJob
        <4>2. job[w] \in Jobs /\ job[w][2] \in JobNo /\ fork[i] \in ForkType
          BY <3>1, <3>3 DEF PlacesInv, Place, Jobs, Types
        <4>3. fork'[i] = Counted(Stored(fork[i], job[w]))
          BY <3>1, <3>3, <4>1 DEF CompleteFirst, Types
        <4>4. fork'[i].slots[job[w][2]] = "panic"
          BY <3>1, <3>3, <4>2, <4>3, CountedIs DEF JobResult
        <4> QED BY <4>2, <4>4 DEF Cracked
      <3> QED BY <3>2, <3>3
    <2> QED BY <1>4, <2>1, <2>2 DEF Cracked
  <1>5. ASSUME (RunFirst(w) \/ RunJob(w)) /\ JobPanics(job[w])
        PROVE  \E i \in Index : Cracked(i)'
    <2>1. job[w] \in Jobs /\ job[w][1] \in Index /\ job[w][2] \in JobNo
      BY <1>5 DEF RunFirst, RunJob, Move, PlacesInv, Place, InJob, Jobs
    <2>2. CASE RunFirst(w)
      <3>1. at'[w] = "ranfirst" /\ job'[w] = job[w]
        BY <1>1, <2>2 DEF RunFirst, Move
      <3> QED BY <1>1, <1>5, <2>1, <3>1 DEF Cracked, JobPanics
    <2>3. CASE RunJob(w)
      <3>1. fork[job[w][1]] \in ForkType /\ fork'[job[w][1]] = Stored(fork[job[w][1]], job[w])
        BY <2>1, <2>3 DEF RunJob, Types
      <3>2. fork'[job[w][1]].slots[job[w][2]] = "panic"
        BY <1>5, <2>1, <3>1, CountedIs DEF JobResult
      <3> QED BY <2>1, <3>2 DEF Cracked
    <2> QED BY <1>5, <2>2, <2>3
  <1> QED BY <1>2, <1>3, <1>4, <1>5 DEF DirtInv


\* The queue is in order when map_indexed spawns its workers.
LEMMA InitQueue == Init => QueueInv
  <1> SUFFICES ASSUME Init PROVE QueueInv
    OBVIOUS
  <1> USE DEF Init
  <1>1. LockInv
    BY DEF LockInv
  <1>2. WaitInv
    <2>1. Busy = {}
      BY DEF Busy
    <2> QED BY <2>1, FS_EmptySet DEF WaitInv
  <1>3. CountInv
    <2> SUFFICES ASSUME NEW i \in Index
                 PROVE  /\ fork[i] = IdleFork
                        /\ fork[i].remaining = Cardinality(OwnJobs(i)) + Cardinality(Uncounted(i))
      BY DEF CountInv
    <2>1. fork[i] = IdleFork /\ fork[i].remaining = 0
      BY DEF IdleFork
    <2>2. OwnJobs(i) = {} /\ Uncounted(i) = {}
      BY DEF OwnJobs, Uncounted
    <2> QED BY <2>1, <2>2, FS_EmptySet
  <1>4. SlotInv
    <2> SUFFICES ASSUME NEW i \in Index, NEW j \in JobNo
                 PROVE  ~Forked(i) /\ fork[i].slots[j] = "none"
      BY DEF SlotInv
    <2>1. ~Forked(i)
      BY DEF Forked, InFork, InJob
    <2> QED BY <2>1 DEF IdleFork
  <1>5. DirtInv
    BY DEF DirtInv, Dirty, Contains
  <1>6. PanicInv
    <2> SUFFICES ASSUME NEW i \in Index PROVE forks_left[i] <= plan[i].forks
      BY DEF PanicInv
    <2>1. plan[i] \in [forks : 0 .. MaxForks, crash : 0 .. Width, end : Verdicts]
      OBVIOUS
    <2>2. plan[i].forks \in Nat /\ forks_left[i] = plan[i].forks
      BY <2>1
    <2> QED BY <2>2
  <1>7. ReceiptInv
    BY FS_EmptySet DEF ReceiptInv
  <1> QED BY <1>1, <1>2, <1>3, <1>4, <1>5, <1>6, <1>7 DEF QueueInv

\* What the threads of the pool hold, without the coordinator's part.
threadVars ==
  <<plan, at, index, job, held, mutex, jobs, active, claims_closed, panicked, scratch, fork,
    forks_left, result>>

\* The coordinator and the signal handler leave the queue as it is.
LEMMA ThreadsSame ==
  ASSUME QueueInv, UNCHANGED threadVars
  PROVE  (LockInv /\ WaitInv /\ CountInv /\ SlotInv /\ DirtInv /\ PanicInv)'
  <1> USE DEF QueueInv, threadVars
  <1>1. LockInv'
    BY DEF LockInv
  <1>2. Busy' = Busy /\ \A i \in Index : Uncounted(i)' = Uncounted(i) /\ OwnJobs(i)' = OwnJobs(i)
    BY DEF Busy, Uncounted, OwnJobs
  <1>3. WaitInv'
    BY <1>2 DEF WaitInv
  <1>4. CountInv'
    BY <1>2 DEF CountInv, Forked
  <1>5. SlotInv'
    BY DEF SlotInv, Forked, Outstanding
  <1>6. DirtInv'
    BY DEF DirtInv, Dirty, Cracked, JobPanics
  <1>7. PanicInv'
    BY DEF PanicInv, verdict
  <1> QED BY <1>1, <1>3, <1>4, <1>5, <1>6, <1>7

\* A thread that wakes without a notify looks at the queue again.
LEMMA WakeQueue ==
  ASSUME Types, QueueInv, NEW w \in Workers, SpuriousWake(w)
  PROVE  QueueInv'
  <1> USE DEF QueueInv
  <1>1. /\ UNCHANGED <<plan, index, job, held, mutex, jobs, active, claims_closed, panicked,
                       scratch, fork, forks_left, result>>
        /\ UNCHANGED <<channel, slots, failure, done, quiet, cancelled>>
        /\ at \in [Workers -> Places] /\ at' = [at EXCEPT ![w] = Awake(at)[w]]
        /\ at[w] \in {"sleep", "joinsleep"}
    BY DEF SpuriousWake, taskVars, queueVars, claimVars, coordVars, Types
  <1>2. ASSUME NEW x \in Workers
        PROVE  \/ at'[x] = at[x]
               \/ at[x] = "sleep" /\ at'[x] = "claim"
               \/ at[x] = "joinsleep" /\ at'[x] = "join"
    BY <1>1, AwakeKeeps
  <1>3. LockInv'
    BY <1>1, <1>2 DEF LockInv
  <1>4. Busy' = Busy /\ \A i \in Index : Uncounted(i)' = Uncounted(i) /\ OwnJobs(i)' = OwnJobs(i)
    BY <1>1, <1>2 DEF Busy, Uncounted, OwnJobs
  <1>5. WaitInv'
    BY <1>1, <1>2, <1>4 DEF WaitInv
  <1>6. \A i \in Index : Forked(i)' <=> Forked(i)
    BY <1>1, <1>2 DEF Forked, InFork, InJob
  <1>7. CountInv'
    BY <1>1, <1>4, <1>6 DEF CountInv
  <1>8. SlotInv'
    <2> SUFFICES ASSUME NEW i \in Index, NEW j \in JobNo
                 PROVE  /\ Forked(i)' /\ fork'[i].slots[j] = "none" => Outstanding(i, j)'
                        /\ fork'[i].slots[j] = "panic" => plan'[i].crash = j
      BY DEF SlotInv
    <2>1. Outstanding(i, j) => Outstanding(i, j)'
      BY <1>1, <1>2 DEF Outstanding
    <2> QED BY <1>1, <1>6, <2>1 DEF SlotInv
  <1>9. DirtInv'
    BY <1>1, <1>2 DEF DirtInv, Dirty, Cracked, JobPanics
  <1>10. PanicInv'
    BY <1>1 DEF PanicInv, verdict
  <1>11. ReceiptInv'
    BY <1>1 DEF ReceiptInv
  <1> QED BY <1>3, <1>5, <1>7, <1>8, <1>9, <1>10, <1>11

\* A value is received once, and counted unless the coordinator is quiet.
LEMMA ReceiveKeeps ==
  ASSUME IInv, QueueInv, NEW i \in Index, ReceiveValue(i)
  PROVE  /\ ReceiptInv'
         /\ done' # done => done' = done + 1 /\ done < N
  <1>1. /\ i \in channel /\ channel' = channel \ {i} /\ slots' = slots \cup {i}
        /\ quiet' = (quiet \/ cancelled) /\ done' = IF quiet' THEN done ELSE done + 1
        /\ UNCHANGED <<cancelled, index, failure>>
    BY DEF ReceiveValue
  <1>2. /\ \A k \in channel : k \notin slots
        /\ \A w \in Workers : index[w] \notin channel \cup slots
        /\ ~quiet => done = Cardinality(slots)
        /\ quiet => cancelled \/ failure # NoIndex
    BY DEF QueueInv, ReceiptInv
  <1>3. /\ IsFiniteSet(slots) /\ Cardinality(slots) \in Nat
        /\ Cardinality(slots \cup {i}) = Cardinality(slots) + 1
        /\ Cardinality(slots \cup {i}) <= N
    <2>1. IsFiniteSet(Index) /\ Cardinality(Index) = N
      <3>1. 0 \in Int /\ N - 1 \in Int /\ (IF 0 > N - 1 THEN 0 ELSE (N - 1) - 0 + 1) = N
        OBVIOUS
      <3> QED BY <3>1, FS_Interval DEF Index
    <2>2. slots \in SUBSET Index /\ slots \cup {i} \in SUBSET Index
      BY DEF IInv, Types
    <2>3. IsFiniteSet(slots)
      BY <2>1, <2>2, FS_Subset
    <2>4. Cardinality(slots \cup {i}) <= N
      BY <2>1, <2>2, FS_Subset
    <2> QED BY <1>1, <1>2, <2>3, <2>4, FS_CardinalityType, FS_AddElement
  <1>4. ~quiet' => ~quiet /\ done = Cardinality(slots)
    BY <1>1, <1>2
  <1>5. ~quiet' => done' = Cardinality(slots')
    BY <1>1, <1>3, <1>4
  <1>6. quiet' => cancelled' \/ failure' # NoIndex
    BY <1>1, <1>2
  <1>7. /\ \A k \in channel' : k \notin slots'
        /\ \A w \in Workers : index'[w] \notin channel' \cup slots'
    BY <1>1, <1>2
  <1>8. ReceiptInv'
    BY <1>5, <1>6, <1>7 DEF ReceiptInv, NoIndex
  <1>9. done' # done => done' = done + 1 /\ done < N
    BY <1>1, <1>3, <1>4
  <1> QED BY <1>8, <1>9

\* Every step of the pool keeps the queue in order.
LEMMA NextQueue == IInv /\ QueueInv /\ [Next]_vars => QueueInv'
  <1> SUFFICES ASSUME IInv, QueueInv, [Next]_vars PROVE QueueInv'
    OBVIOUS
  <1>1. ASSUME NEW w \in Workers, Worker(w) PROVE QueueInv'
    <2> USE DEF IInv, QueueInv
    <2>1. LockInv'
      BY <1>1, LockStep
    <2>2. WaitInv'
      BY <1>1, WaitStep
    <2>3. CountInv'
      BY <1>1, CountStep, ForkedStep DEF CountInv
    <2>4. SlotInv'
      BY <1>1, SlotStep
    <2>5. DirtInv'
      BY <1>1, DirtStep
    <2>6. PanicInv'
      BY <1>1, PanicStep
    <2>7. ReceiptInv'
      BY <1>1, ReceiptStep
    <2> QED BY <2>1, <2>2, <2>3, <2>4, <2>5, <2>6, <2>7
  <1>2. ASSUME NEW w \in Workers, SpuriousWake(w) PROVE QueueInv'
    BY <1>2, WakeQueue DEF IInv
  <1>3. ASSUME NEW i \in Index, ReceiveValue(i) PROVE QueueInv'
    <2>1. UNCHANGED threadVars
      BY <1>3 DEF ReceiveValue, threadVars, taskVars, queueVars, claimVars
    <2> QED BY <1>3, <2>1, ThreadsSame, ReceiveKeeps DEF QueueInv
  <1>4. ASSUME NEW i \in Index, ReceiveError(i) PROVE QueueInv'
    <2>1. /\ UNCHANGED threadVars /\ UNCHANGED <<slots, done, cancelled>> /\ quiet' = TRUE
          /\ channel' = channel \ {i} /\ failure' = Lower(failure, i)
      BY <1>4 DEF ReceiveError, TakeError, threadVars, taskVars, queueVars, claimVars
    <2>2. failure' # NoIndex
      BY <2>1 DEF Lower, IInv, Types, Index, NoIndex
    <2>3. ReceiptInv'
      BY <2>1, <2>2 DEF QueueInv, ReceiptInv, threadVars
    <2> QED BY <2>1, <2>3, ThreadsSame DEF QueueInv
  <1>5. ASSUME Return \/ Interrupt PROVE QueueInv'
    <2>1. /\ UNCHANGED threadVars /\ UNCHANGED <<channel, slots, done, quiet, failure>>
          /\ cancelled' = cancelled \/ cancelled' = TRUE
      BY <1>5 DEF Return, Interrupt, threadVars, taskVars, queueVars, claimVars, coordVars
    <2>2. ReceiptInv'
      BY <2>1 DEF QueueInv, ReceiptInv, threadVars
    <2> QED BY <2>1, <2>2, ThreadsSame DEF QueueInv
  <1>6. ASSUME UNCHANGED vars PROVE QueueInv'
    <2>1. UNCHANGED threadVars /\ UNCHANGED <<channel, slots, done, quiet, failure, cancelled>>
      BY <1>6 DEF vars, threadVars
    <2>2. ReceiptInv'
      BY <2>1 DEF QueueInv, ReceiptInv, threadVars
    <2> QED BY <2>1, <2>2, ThreadsSame DEF QueueInv
  <1> QED BY <1>1, <1>2, <1>3, <1>4, <1>5, <1>6 DEF Next, Coordinator

\* The queue is in order in every reachable state.
THEOREM QueueInvariant == Spec => [](IInv /\ OutcomeInv /\ QueueInv)
  <1>1. IInv /\ QueueInv /\ [Next]_vars => QueueInv'
    BY NextQueue
  <1> QED BY <1>1, InitQueue, Invariant, PTL DEF Spec

\* No wakeup is lost: who waits, in next_work or in fork_join, has a task or a job to wait
\* for, and who left will not be missed.
THEOREM NobodyOversleeps == Spec => []NoLostWakeup
  <1>1. QueueInv => NoLostWakeup
    BY DEF QueueInv, WaitInv, NoLostWakeup
  <1> QED BY <1>1, QueueInvariant, PTL

\* Fork::complete counts every job of a fork_join once, whoever runs it, and take_results
\* finds every slot full.
THEOREM ForksComplete == Spec => []ForkComplete
  <1>1. IInv /\ QueueInv => ForkComplete
    <2> SUFFICES ASSUME IInv, QueueInv PROVE ForkComplete
      OBVIOUS
    <2>1. ASSUME NEW w \in Workers, at[w] = "join", fork[index[w]].remaining = 0, NEW j \in JobNo
          PROVE  fork[index[w]].slots[j] # "none"
      <3>1. index[w] \in Index /\ Forked(index[w])
        BY <2>1 DEF IInv, PlacesInv, Place, InTask, Forked, InFork
      <3> QED BY <2>1, <3>1, AllReturned DEF IInv, QueueInv
    <2> QED BY <2>1 DEF QueueInv, CountInv, ForkComplete
  <1> QED BY <1>1, QueueInvariant, PTL

\* A run in which a scratch stayed half-updated ends in a panic: no value, error or
\* cancellation is reported from it.
THEOREM DirtIsNotReported == Spec => []DirtyScratchIsNeverReported
  <1>1. IInv /\ OutcomeInv /\ QueueInv => DirtyScratchIsNeverReported
    <2> SUFFICES ASSUME IInv, OutcomeInv, QueueInv, outcome # Pending, Contains(scratch, "dirty")
                 PROVE  outcome.kind = "panic"
      BY DEF DirtyScratchIsNeverReported
    <2>1. AllOver /\ outcome = Ending
      BY DEF OutcomeInv
    <2>2. \A i \in Index : ~Forked(i)
      BY <2>1 DEF AllOver, Forked, InFork, InJob
    <2>3. \A i \in Index : fork[i] = IdleFork
      BY <2>2 DEF QueueInv, CountInv
    <2>4. \A i \in Index : ~Cracked(i)
      BY <2>1, <2>3 DEF Cracked, AllOver, IdleFork
    <2>5. panicked # NoIndex
      BY <2>4 DEF QueueInv, DirtInv, Dirty
    <2> QED BY <2>1, <2>5 DEF Ending, Panic
  <1> QED BY <1>1, QueueInvariant, PTL

\* The panic that is reported is one the contract allows: a lower task that would have
\* panicked was stopped by an error below it.
LEMMA PanicAllowed ==
  ASSUME IInv, QueueInv, AllOver, panicked # NoIndex
  PROVE  MayReturn(verdict, cancelled, Panic(panicked))
  <1>1. /\ panicked \in Index /\ lowest_failed \in Index \cup {NoIndex} /\ next \in Nat
        /\ result \in [Index -> Verdicts \cup {"none"}]
    BY DEF IInv, Types
  <1>2. result[panicked] = "panic" /\ verdict[panicked] = "panic" /\ panicked < next
    BY <1>1 DEF IInv, ResultsInv, QueueInv, PanicInv
  <1>3. ASSUME ~cancelled, NEW j \in Index, j < panicked, verdict[j] = "panic"
        PROVE  \E k \in Index : k < j /\ verdict[k] = "err"
    <2>1. result[j] # "panic" /\ result[j] # "ok"
      BY <1>1, <1>3 DEF IInv, ResultsInv, FailureInv, Index
    <2>2. result[j] = "err"
      <3>1. j < next
        BY <1>1, <1>2, <1>3 DEF Index
      <3>2. \A w \in Workers : index[w] # j
        BY DEF AllOver, IInv, PlacesInv, Place, InTask, InJob, Index, NoIndex
      <3> QED BY <2>1, <3>1, <3>2 DEF AllOver, IInv, AccountInv, ResultsInv
    <2>3. lowest_failed < j
      BY <1>3, <2>2 DEF IInv, FailureInv
    <2>4. lowest_failed \in Index
      BY <1>1, <2>3 DEF Index, NoIndex
    <2>5. result[lowest_failed] = "err"
      <3>1. result[lowest_failed] \in {"err", "panic"}
        BY <2>4 DEF IInv, FailureInv, Index, NoIndex
      <3>2. lowest_failed < panicked
        BY <1>1, <1>3, <2>3, <2>4 DEF Index
      <3>3. result[lowest_failed] # "panic"
        BY <1>1, <2>4, <3>2 DEF IInv, ResultsInv, Index
      <3> QED BY <3>1, <3>3
    <2>6. verdict[lowest_failed] = "err"
      BY <1>3, <2>4, <2>5 DEF IInv, FailureInv, Index
    <2> QED BY <2>3, <2>4, <2>6
  <1> QED BY <1>1, <1>2, <1>3 DEF MayReturn

\* Every step of the pool is a step of the contract, or one its caller cannot see.
LEMMA PoolStep ==
  ASSUME IInv, OutcomeInv, QueueInv, [Next]_vars
  PROVE  [Contract!Next]_Contract!vars
  <1> USE DEF Contract!vars, verdict
  <1>1. ASSUME NEW w \in Workers, Worker(w) PROVE UNCHANGED Contract!vars
    BY <1>1, PlanStays, CountTypes, FlagTypes DEF IInv
  <1>2. ASSUME NEW w \in Workers, SpuriousWake(w) PROVE UNCHANGED Contract!vars
    BY <1>2 DEF SpuriousWake, taskVars, coordVars
  <1>3. ASSUME NEW i \in Index, ReceiveValue(i) PROVE [Contract!Next]_Contract!vars
    <2>1. /\ outcome = Pending
          /\ UNCHANGED <<plan, cancelled, outcome>>
      BY <1>3 DEF ReceiveValue, taskVars, OutcomeInv, AllOver
    <2>2. done' # done => done' = done + 1 /\ done < N
      BY <1>3, ReceiveKeeps
    <2> QED BY <2>1, <2>2 DEF Contract!Next, Contract!Progress, Contract!Pending, Pending
  <1>4. ASSUME NEW i \in Index, ReceiveError(i) PROVE UNCHANGED Contract!vars
    BY <1>4 DEF ReceiveError, TakeError, taskVars
  <1>5. ASSUME Interrupt PROVE Contract!Next
    BY <1>5 DEF Interrupt, taskVars, coordVars, Contract!Next, Contract!Interrupt,
       Contract!Pending, Pending
  <1>6. ASSUME Return PROVE Contract!Next
    <2>1. /\ outcome = Pending /\ outcome' = Ending /\ AllOver
          /\ UNCHANGED <<plan, cancelled, done>>
      BY <1>6 DEF Return, AllOver, taskVars
    <2>2. Ending \in Outcomes
      BY <2>1, EndingAllowed
    <2>3. MayReturn(verdict, cancelled, Ending)
      <3>1. CASE panicked # NoIndex
        <4>1. Ending = Panic(panicked)
          BY <3>1 DEF Ending
        <4> QED BY <2>1, <3>1, <4>1, PanicAllowed
      <3>2. CASE panicked = NoIndex
        <4>1. Ending.kind # "panic"
          <5>1. Ending # Panic(NoIndex)
            BY <2>2 DEF Outcomes, Values, Cancelled, TaskError, Panic, Index, NoIndex
          <5> QED BY <3>2, <5>1 DEF Ending, Values, Cancelled, TaskError
        <4> QED BY <2>1, <4>1, EndingAllowed
      <3> QED BY <3>1, <3>2
    <2>4. ASSUME Ending = Values PROVE done = N
      <3>1. panicked = NoIndex /\ ~cancelled /\ failure = NoIndex /\ slots = Index
        BY <2>4 DEF Ending, Values, Cancelled, TaskError, Panic
      <3>2. done = Cardinality(Index)
        BY <3>1 DEF QueueInv, ReceiptInv
      <3>3. 0 \in Int /\ N - 1 \in Int /\ (IF 0 > N - 1 THEN 0 ELSE (N - 1) - 0 + 1) = N
        OBVIOUS
      <3> QED BY <3>2, <3>3, FS_Interval DEF Index
    <2>5. /\ Contract!Pending = Pending /\ Contract!Values = Values
          /\ Contract!Outcomes = Outcomes
          /\ Contract!MayReturn(verdict, cancelled, Ending)
      <3>1. Contract!Pending = Pending /\ Contract!Values = Values
        BY DEF Contract!Pending, Pending, Contract!Values, Values
      <3>2. Contract!Outcomes = Outcomes
        BY DEF Contract!Outcomes, Outcomes, Contract!Values, Values, Contract!Cancelled,
           Cancelled, Contract!TaskError, TaskError, Contract!Panic, Panic, Contract!Index, Index
      <3>3. Contract!MayReturn(verdict, cancelled, Ending)
        BY <2>3 DEF Contract!MayReturn, MayReturn, Contract!Values, Values, Contract!Cancelled,
           Cancelled, Contract!TaskError, TaskError, Contract!Panic, Panic, Contract!Index,
           Index, Contract!OkBelow, OkBelow
      <3> QED BY <3>1, <3>2, <3>3
    <2> QED BY <2>1, <2>2, <2>4, <2>5 DEF Contract!Next, Contract!Return
  <1>7. ASSUME UNCHANGED vars PROVE UNCHANGED Contract!vars
    BY <1>7 DEF vars
  <1> QED BY <1>1, <1>2, <1>3, <1>4, <1>5, <1>6, <1>7 DEF Next, Coordinator

\* The tasks a run starts with return what a task may return.
LEMMA VerdictInit == Init => verdict \in [Index -> Verdicts]
  <1> SUFFICES ASSUME Init PROVE verdict \in [Index -> Verdicts]
    OBVIOUS
  <1>1. ASSUME NEW i \in Index PROVE Verdict(plan[i]) \in Verdicts
    <2>1. plan[i] \in [forks : 0 .. MaxForks, crash : 0 .. Width, end : Verdicts]
      BY DEF Init
    <2>2. plan[i].end \in Verdicts
      BY <2>1
    <2> QED BY <2>2 DEF Verdict, Verdicts
  <1> QED BY <1>1 DEF verdict

\* Any number of workers and any schedule implement the contract of map_indexed: one
\* outcome, that of the first bad task in index order, and a progress count up to it.
THEOREM PoolImplements == Spec => ImplementsContract
  <1>1. Init => Contract!Init
    <2> SUFFICES ASSUME Init PROVE Contract!Init
      OBVIOUS
    <2>2. verdict \in [Index -> Verdicts]
      BY VerdictInit
    <2>3. cancelled = FALSE /\ done = 0 /\ outcome = Pending
      BY DEF Init
    <2> QED BY <2>2, <2>3 DEF Contract!Init, Contract!Index, Index, Contract!Verdicts, Verdicts,
            Contract!Pending, Pending
  <1>2. IInv /\ OutcomeInv /\ QueueInv /\ [Next]_vars => [Contract!Next]_Contract!vars
    BY PoolStep
  <1> QED BY <1>1, <1>2, QueueInvariant, PTL DEF Spec, ImplementsContract, Contract!Spec

-----------------------------------------------------------------------------
(* Either path of map_indexed.                                             *)

\* run_serial counts what it pushed and reported, and every task before its own succeeded.
SerialInv ==
  /\ verdict \in [Index -> Verdicts]
  /\ turn \in 0 .. N /\ out = turn /\ done = turn
  /\ running \in BOOLEAN /\ (running => turn < N)
  /\ outcome = Pending => \A i \in Index : i < turn => verdict[i] = "ok"

MapInv == IF RunsInline THEN SerialInv ELSE IInv /\ OutcomeInv /\ QueueInv

\* The outcomes of the contract and of run_serial are those of run_parallel.
LEMMA SameOutcomes ==
  /\ Contract!Pending = Pending /\ Contract!Values = Values
  /\ Contract!Outcomes = Outcomes /\ Contract!Index = Index
  /\ \A v, c, o : Contract!MayReturn(v, c, o) = MayReturn(v, c, o)
  /\ Serial!Pending = Pending /\ Serial!Values = Values /\ Serial!Cancelled = Cancelled
  /\ \A i : Serial!TaskError(i) = TaskError(i) /\ Serial!Panic(i) = Panic(i)
  <1>1. Contract!Pending = Pending /\ Contract!Values = Values /\ Contract!Cancelled = Cancelled
    BY DEF Contract!Pending, Pending, Contract!Values, Values, Contract!Cancelled, Cancelled
  <1>2. Contract!Outcomes = Outcomes /\ Contract!Index = Index
    BY <1>1 DEF Contract!Outcomes, Outcomes, Contract!TaskError, TaskError, Contract!Panic, Panic,
       Contract!Index, Index
  <1>3. \A v, c, o : Contract!MayReturn(v, c, o) = MayReturn(v, c, o)
    BY <1>1, <1>2 DEF Contract!MayReturn, MayReturn, Contract!TaskError, TaskError,
       Contract!Panic, Panic, Contract!OkBelow, OkBelow
  <1>4. Serial!Pending = Pending /\ Serial!Values = Values /\ Serial!Cancelled = Cancelled
    BY DEF Serial!Pending, Pending, Serial!Values, Values, Serial!Cancelled, Cancelled
  <1>5. \A i : Serial!TaskError(i) = TaskError(i) /\ Serial!Panic(i) = Panic(i)
    BY DEF Serial!TaskError, TaskError, Serial!Panic, Panic
  <1> QED BY <1>1, <1>2, <1>3, <1>4, <1>5

\* When run_serial returns what it may return, that is a step of the contract.
LEMMA SerialReturn ==
  ASSUME SerialInv, outcome = Pending, NEW o \in Outcomes, Serial!End(o), running' \in {FALSE, running},
         MayReturn(verdict, cancelled, o), o = Values => done = N, o # Pending
  PROVE  SerialInv' /\ Contract!Next
  <1>1. Contract!Return
    BY SameOutcomes DEF Contract!Return, Serial!End
  <1>2. UNCHANGED <<verdict, turn, out, done>> /\ outcome' # Pending
    BY DEF Serial!End
  <1>3. running' \in BOOLEAN /\ (running' => turn < N)
    <2>1. CASE running' = FALSE
      BY <2>1
    <2>2. CASE running' = running
      BY <2>2 DEF SerialInv
    <2> QED BY <2>1, <2>2
  <1>4. SerialInv'
    BY <1>2, <1>3 DEF SerialInv
  <1> QED BY <1>1, <1>4 DEF Contract!Next

\* A step of run_serial keeps its counts and is a step of the contract or none.
LEMMA SerialStep ==
  ASSUME SerialInv, Serial!Next
  PROVE  SerialInv' /\ [Contract!Next]_Contract!vars
  <1> USE SameOutcomes
  <1>1. turn \in Int /\ N \in Nat /\ turn >= 0 /\ turn <= N /\ done = turn
    BY NAssumption DEF SerialInv
  <1>9. outcome = Pending => OkBelow(verdict, turn)
    BY DEF SerialInv, OkBelow
  <1>2. CASE Serial!Interrupt
    BY <1>2 DEF Serial!Interrupt, SerialInv, OkBelow, Contract!Next, Contract!Interrupt
  <1>3. CASE Serial!StartTask
    <2>1. CASE cancelled
      <3>1. Serial!End(Cancelled) /\ running' = running /\ outcome = Pending
        BY <1>3, <2>1 DEF Serial!StartTask
      <3>2. Cancelled \in Outcomes /\ Cancelled # Values /\ Cancelled # Pending
        BY DEF Outcomes, Cancelled, Values, Pending
      <3>3. MayReturn(verdict, cancelled, Cancelled)
        BY <2>1 DEF MayReturn
      <3> QED BY <3>1, <3>2, <3>3, SerialReturn
    <2>2. CASE ~cancelled
      BY <1>3, <2>2, <1>1 DEF Serial!StartTask, SerialInv, OkBelow, Contract!vars
    <2> QED BY <2>1, <2>2
  <1>4. CASE Serial!TaskOk
    <2>1. turn < N /\ verdict[turn] = "ok" /\ outcome = Pending /\ turn \in Index
      BY <1>1, <1>4 DEF Serial!TaskOk, SerialInv, Index
    <2>2. turn' = turn + 1 /\ out' = out + 1 /\ done' = turn + 1 /\ running' = FALSE
          /\ UNCHANGED <<verdict, cancelled, outcome>>
      BY <1>4 DEF Serial!TaskOk
    <2>3. OkBelow(verdict, turn + 1)
      BY <1>1, <2>1 DEF SerialInv, OkBelow, Index
    <2>4. verdict' = verdict /\ \A i \in Index : i < turn' => verdict[i] = "ok"
      BY <2>2, <2>3 DEF OkBelow
    <2>5. verdict \in [Index -> Verdicts] /\ out = turn
      BY DEF SerialInv
    <2>6. turn' \in 0 .. N /\ out' = turn' /\ done' = turn' /\ running' = FALSE
      BY <1>1, <2>1, <2>2, <2>5
    <2>7. SerialInv'
      BY <2>4, <2>5, <2>6 DEF SerialInv
    <2>8. Contract!Progress
      BY <1>1, <2>1, <2>2 DEF Contract!Progress
    <2> QED BY <2>7, <2>8 DEF Contract!Next
  <1>5. CASE Serial!TaskErr
    <2>1. turn \in Index /\ outcome = Pending /\ OkBelow(verdict, turn) /\ running' = FALSE
      BY <1>1, <1>5, <1>9 DEF Serial!TaskErr, SerialInv, Index
    <2>2. verdict[turn] = "err" \/ cancelled
      BY <1>5 DEF Serial!TaskErr
    <2>3. PICK o : o = (IF cancelled THEN Cancelled ELSE TaskError(turn)) /\ Serial!End(o)
      BY <1>5 DEF Serial!TaskErr, Serial!ErrorEnds
    <2>4. o \in Outcomes /\ o # Values /\ o # Pending
      BY <2>1, <2>3 DEF Outcomes, Cancelled, TaskError, Values, Pending
    <2>5. MayReturn(verdict, cancelled, o)
      BY <2>1, <2>2, <2>3 DEF MayReturn
    <2> QED BY <2>1, <2>3, <2>4, <2>5, SerialReturn
  <1>6. CASE Serial!TaskPanic
    <2>1. turn \in Index /\ outcome = Pending /\ OkBelow(verdict, turn) /\ running' = FALSE
          /\ verdict[turn] = "panic" /\ Serial!End(Panic(turn))
      BY <1>1, <1>6, <1>9 DEF Serial!TaskPanic, SerialInv, Index
    <2>2. Panic(turn) \in Outcomes /\ Panic(turn) # Values /\ Panic(turn) # Pending
      BY <2>1 DEF Outcomes, Panic, Values, Pending
    <2>3. MayReturn(verdict, cancelled, Panic(turn))
      BY <2>1 DEF MayReturn, OkBelow
    <2> QED BY <2>1, <2>2, <2>3, SerialReturn
  <1>7. CASE Serial!Finish
    <2>1. turn = N /\ outcome = Pending /\ OkBelow(verdict, turn) /\ running' = running
      BY <1>7, <1>9 DEF Serial!Finish, SerialInv
    <2>2. PICK o : o = (IF cancelled THEN Cancelled ELSE Values) /\ Serial!End(o)
      BY <1>7 DEF Serial!Finish
    <2>3. o \in Outcomes /\ o # Pending /\ done = N
      BY <1>1, <2>1, <2>2 DEF Outcomes, Cancelled, Values, Pending
    <2>4. MayReturn(verdict, cancelled, o)
      BY <2>1, <2>2, NAssumption DEF MayReturn, OkBelow, Index
    <2> QED BY <2>1, <2>2, <2>3, <2>4, SerialReturn
  <1>8. CASE Serial!Returned
    BY <1>8 DEF Serial!Returned, Serial!vars, SerialInv, OkBelow, Contract!vars
  <1> QED BY <1>2, <1>3, <1>4, <1>5, <1>6, <1>7, <1>8 DEF Serial!Next

\* Whether the calling thread runs the tasks is settled before the first of them.
LEMMA PathStays == [MapNext]_mapVars => threads' = threads
  BY DEF MapNext, Inline, Parallel, mapVars

\* map_indexed implements its contract by either path, whatever the number of threads.
THEOREM MapImplements == MapSpec => ImplementsContract
  <1>1. MapInit => MapInv /\ Contract!Init
    <2> SUFFICES ASSUME MapInit PROVE MapInv /\ Contract!Init
      OBVIOUS
    <2>1. Init /\ verdict \in [Index -> Verdicts] /\ outcome = Pending /\ done = 0 /\ cancelled = FALSE
      BY VerdictInit DEF MapInit, Init
    <2>2. turn = 0 /\ running = FALSE /\ out = 0
      BY DEF MapInit, Serial!Init
    <2>3. SerialInv
      <3>1. 0 \in 0 .. N /\ \A i \in Index : ~(i < 0)
        BY NAssumption DEF Index
      <3> QED BY <2>1, <2>2, <3>1 DEF SerialInv
    <2>4. IInv /\ OutcomeInv /\ QueueInv
      BY <2>1, InitIInv, InitQueue DEF OutcomeInv, Init
    <2> QED BY <2>1, <2>3, <2>4, SameOutcomes
            DEF MapInv, Contract!Init, Contract!Verdicts, Verdicts
  <1>2. MapInv /\ [MapNext]_mapVars => MapInv' /\ [Contract!Next]_Contract!vars
    <2> SUFFICES ASSUME MapInv, [MapNext]_mapVars PROVE MapInv' /\ [Contract!Next]_Contract!vars
      OBVIOUS
    <2>1. RunsInline' = RunsInline
      BY PathStays DEF RunsInline, Lower
    <2>2. CASE Inline(Serial!Next)
      BY <2>1, <2>2, SerialStep DEF Inline, MapInv
    <2>3. CASE Parallel
      BY <2>1, <2>3, NextIInv, OutcomeStep, NextQueue, PoolStep DEF Parallel, MapInv
    <2>4. CASE UNCHANGED mapVars
      <3>1. UNCHANGED vars /\ UNCHANGED <<turn, out, running>> /\ UNCHANGED verdict
            /\ UNCHANGED <<done, outcome, cancelled>>
        BY <2>4 DEF mapVars, serialVars, vars, verdict
      <3>2. CASE RunsInline
        BY <2>1, <3>1, <3>2 DEF MapInv, SerialInv, OkBelow, Contract!vars
      <3>3. CASE ~RunsInline
        BY <2>1, <3>1, <3>3, NextIInv, OutcomeStep, NextQueue, PoolStep DEF MapInv
      <3> QED BY <3>2, <3>3
    <2> QED BY <2>2, <2>3, <2>4 DEF MapNext
  <1> QED BY <1>1, <1>2, PTL DEF MapSpec, ImplementsContract, Contract!Spec
=============================================================================
