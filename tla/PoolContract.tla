---------------------------- MODULE PoolContract ----------------------------
(***************************************************************************)
(* What Pool::map_indexed (gcg-core/src/pool.rs) promises its caller, with *)
(* nothing of how it gets there: a progress count that goes up by one, and *)
(* one outcome, which depends on the tasks alone unless somebody           *)
(* interrupts the run or a task panics.  The one-thread path (SerialPool)  *)
(* and the parallel one (Pool) both implement it.                          *)
(***************************************************************************)
EXTENDS PoolOutcomes

VARIABLES
  verdict,    \* what each task returns when it is left to finish
  cancelled,  \* the SIGINT flag (Cancel)
  done,       \* the count last given to on_done
  outcome     \* what the call returned

vars == <<verdict, cancelled, done, outcome>>

Init ==
  /\ verdict \in [Index -> Verdicts]
  /\ cancelled = FALSE
  /\ done = 0
  /\ outcome = Pending

Interrupt ==
  /\ outcome = Pending
  /\ cancelled' = TRUE
  /\ UNCHANGED <<verdict, done, outcome>>

Progress ==
  /\ outcome = Pending
  /\ done < N
  /\ done' = done + 1
  /\ UNCHANGED <<verdict, cancelled, outcome>>

Return ==
  /\ outcome = Pending
  /\ \E o \in Outcomes :
       /\ MayReturn(verdict, cancelled, o)
       /\ o = Values => done = N
       /\ outcome' = o
  /\ UNCHANGED <<verdict, cancelled, done>>

Next == Interrupt \/ Progress \/ Return

Spec == Init /\ [][Next]_vars
=============================================================================
