---------------------------- MODULE PoolOutcomes ----------------------------
(***************************************************************************)
(* The results Pool::map_indexed (gcg-core/src/pool.rs) can give, and      *)
(* which of them a run of given tasks may give.                            *)
(***************************************************************************)
EXTENDS Integers

CONSTANT N          \* the tasks are 0 .. N-1

ASSUME NAssumption == N \in Nat

Index    == 0 .. N - 1
Verdicts == {"ok", "err", "panic"}

\* PoolError and the other two ways a call ends; Pending while it has not.
Pending      == [kind |-> "none", index |-> N]
Values       == [kind |-> "ok", index |-> N]
Cancelled    == [kind |-> "cancelled", index |-> N]
TaskError(i) == [kind |-> "task", index |-> i]
Panic(i)     == [kind |-> "panic", index |-> i]

Outcomes ==
  {Values, Cancelled} \cup {TaskError(i) : i \in Index} \cup {Panic(i) : i \in Index}

\* Every task below i succeeds when it is left to finish.
OkBelow(v, i) == \A j \in Index : j < i => v[j] = "ok"

(***************************************************************************)
(* v[i] is what task i returns when it is left to finish, c whether the    *)
(* run was interrupted.  An interrupt wins over an error.  Without one the *)
(* first bad task of the index order decides, as if the tasks ran one      *)
(* after the other, except that a panicking task some worker reached takes *)
(* precedence over an error at a lower index.                              *)
(***************************************************************************)
MayReturn(v, c, o) ==
  \/ o = Values /\ ~c /\ \A i \in Index : v[i] = "ok"
  \/ o = Cancelled /\ c
  \/ \E i \in Index : o = TaskError(i) /\ ~c /\ v[i] = "err" /\ OkBelow(v, i)
  \/ \E i \in Index : /\ o = Panic(i) /\ v[i] = "panic"
                      /\ c \/ \A j \in Index : j < i /\ v[j] = "panic" =>
                                 \E k \in Index : k < j /\ v[k] = "err"
=============================================================================
