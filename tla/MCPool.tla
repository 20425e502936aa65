------------------------------- MODULE MCPool -------------------------------
(* Small instances of Pool for TLC.                                        *)
EXTENDS Pool, TLC

Task(forks, crash, end) == [forks |-> forks, crash |-> crash, end |-> end]

\* Tasks that fork once; the second one's job 1 panics, and the task with it.
Forking == {Task(1, Width, "ok"), Task(1, 1, "ok")}
\* Every verdict: an error, and forks that end in a value and in a panic.
Mixed == {Task(0, Width, "err")} \cup Forking
\* A value, an error, and a fork whose jobs all return or one of which panics.
Interrupted == {Task(0, Width, "ok"), Task(0, Width, "err")} \cup Forking

\* At most two tasks fork: the third worker neither forks nor must help.
FewForks == Init /\ Cardinality({i \in Index : plan[i].forks > 0}) <= 2
FewForksSpec == FewForks /\ [][Next]_vars

Symmetry == Permutations(Workers)
=============================================================================
