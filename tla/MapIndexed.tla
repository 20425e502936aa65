----------------------------- MODULE MapIndexed -----------------------------
(***************************************************************************)
(* Pool::map_indexed (gcg-core/src/pool.rs): min(threads, n) workers run   *)
(* the tasks (Pool); with one, the calling thread runs them itself         *)
(* (SerialPool).  The two paths share the tasks, the SIGINT flag, the      *)
(* progress count and the outcome.                                         *)
(***************************************************************************)
EXTENDS Pool

VARIABLES
  threads,   \* the threads of the pool
  turn,      \* run_serial: its loop variable,
  running,   \* whether the task of it was started,
  out        \* and the number of values pushed

serialVars  == <<turn, running, out>>
mapVars     == <<vars, threads, serialVars>>

\* min(threads, n) is at most one.
RunsInline == Lower(threads, N) <= 1

Serial == INSTANCE SerialPool WITH index <- turn

MapInit ==
  /\ Init
  /\ threads \in {1, Cardinality(Workers)}
  /\ Serial!Init

\* The inline path leaves alone what only run_parallel has.
Inline(step) ==
  /\ RunsInline
  /\ UNCHANGED <<threads, at, index, job, held, mutex, scratch, fork, spurious>>
  /\ UNCHANGED <<taskVars, queueVars, claimVars, channel, slots, failure, quiet>>
  /\ step

\* A worker, the coordinator or the signal handler of run_parallel.
Parallel == ~RunsInline /\ Next /\ UNCHANGED <<threads, serialVars>>

MapNext == Inline(Serial!Next) \/ Parallel

InlineStep ==
  Inline(Serial!StartTask \/ Serial!TaskOk \/ Serial!TaskErr \/ Serial!TaskPanic \/ Serial!Finish)

\* The calling thread runs on; nothing is assumed of SIGINT.
MapSpec ==
  /\ MapInit /\ [][MapNext]_mapVars
  /\ WF_mapVars(InlineStep)
  /\ WF_mapVars(~RunsInline /\ Coordinator /\ UNCHANGED <<threads, serialVars>>)
  /\ \A w \in Workers : WF_mapVars(~RunsInline /\ Worker(w) /\ UNCHANGED <<threads, serialVars>>)
=============================================================================
