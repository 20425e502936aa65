----------------------------- MODULE Checkpoint -----------------------------
(***************************************************************************)
(* The checkpoint of gcg-eval benchmark --resume (gcg-runner:              *)
(* checkpoint.rs, run.rs; gcg-eval: benchmark_opts.rs).  A run takes the   *)
(* matches the file already has, plays the others on the pool's workers,   *)
(* and appends a line per finished match; the next run goes on from there. *)
(*                                                                         *)
(* A run may be killed between any two steps, also with a line half        *)
(* written, interrupted (SIGINT), or meet an error of the disk.  The pool  *)
(* is what Pool says of it: matches are claimed in order, an error stops   *)
(* only higher ones, and nobody leaves before every lower one finished.    *)
(*                                                                         *)
(* The reports of a finished run either take the place of the whole        *)
(* directory, with the checkpoint in it, or are written into it; ReportSet *)
(* has both file by file.  One run at a time uses the directory, and no    *)
(* two runs have the same process id.                                      *)
(***************************************************************************)
EXTENDS Naturals, Sequences, SequencesExt, FiniteSets

CONSTANTS
  N,           \* matches of a benchmark
  Workers,     \* worker threads
  Configs,     \* configurations somebody runs with this directory
  NoConfig,
  Bad,         \* Bad[c]: the matches of configuration c that fail
  MaxRuns,     \* bound: runs
  MaxKills,    \* bound: kills
  MaxFaults    \* bound: disk errors

Matches == 0 .. N - 1

ASSUME CheckpointAssumption ==
  /\ NoConfig \notin Configs
  /\ N \in Nat /\ Workers \in Nat \ {0}
  /\ Bad \in [Configs -> SUBSET Matches]
  /\ {MaxRuns, MaxKills, MaxFaults} \subseteq Nat

Records   == [cfg : Configs, match : Matches]
Record(c, m) == [cfg |-> c, match |-> m]
NoRecord  == [none |-> TRUE]
NoRecords == [m \in Matches |-> NoRecord]

\* The complete lines a checkpoint may have.  Two texts run together in one
\* line are no JSON.
Header(c) == [header |-> c]
Garbage   == [garbage |-> TRUE]
Lines     == {Header(c) : c \in Configs} \cup Records \cup {Garbage}

\* torn: the file ends with text that no newline ends.
NoFile    == [exists |-> FALSE, lines |-> <<>>, torn |-> FALSE]
Nowhere   == [file |-> NoFile, reports |-> NoRecords]
Unlocked  == [match |-> N, clean |-> TRUE]

VARIABLES
  file,        \* checkpoint.ndjson
  reports,     \* the matches of results.json in the directory
  old,         \* the directory this run has set aside: its file and reports
  pc,          \* where the run is; "down": no process
  cfg,         \* the configuration of the current or the last run
  done,        \* the matches the run took from the file
  stage,       \* of each match
  result,      \* the record of each finished match
  lock,        \* the sink's mutex: who writes, and whether onto a new line
  write_error, \* the run could not write a line
  cancelled,   \* the SIGINT flag
  exit,        \* how the last run ended
  runs, kills, faults   \* counted for the bounds

run  == <<done, stage, result, lock, write_error>>
vars == <<file, reports, old, pc, cfg, run, cancelled, exit, runs, kills, faults>>

Stages == {"waiting", "playing", "ready", "writing", "ok", "failed", "stopped"}
Exits  == {"none", "refused", "checkpoint", "failure", "interrupted", "killed",
           "unwritten", "reported"}

Exit(kind) == [kind |-> kind, match |-> N]

Fresh ==
  /\ done' = NoRecords
  /\ stage' = [m \in Matches |-> "waiting"]
  /\ result' = NoRecords
  /\ lock' = Unlocked
  /\ write_error' = FALSE

\* The process ends; nothing of it stays but its files.
Leave(e) ==
  /\ pc' = "down"
  /\ exit' = e
  /\ Fresh

----------------------------------------------------------------------------
\* Mutant: the digest is not compared.
LoadsAnyConfig(f, c) ==
  f.lines # <<>> /\ \A i \in 2 .. Len(f.lines) : f.lines[i] \in Records

\* load reads only complete lines.  It refuses a file without one, a header
\* of another configuration and a line that does not parse.
Loads(f, c) ==
  /\ f.lines # <<>>
  /\ f.lines[1] = Header(c)
  /\ \A i \in 2 .. Len(f.lines) : f.lines[i] \in Records

\* Mutant: the lines are taken for being in match order.
RecordedInOrder(f) ==
  [m \in Matches |-> IF m + 1 < Len(f.lines) /\ f.lines[m + 2] = Record(cfg, m)
                     THEN f.lines[m + 2] ELSE NoRecord]

\* A later line of the same match replaces an earlier one.
Recorded(f) ==
  [m \in Matches |->
     LET at == SelectLastInSeq(f.lines, LAMBDA l : l \in Records /\ l.match = m)
     IN IF at = 0 THEN NoRecord ELSE f.lines[at]]

DropPartialLine(f) == [f EXCEPT !.torn = FALSE]

\* What write_all makes of the file: text after a torn end becomes part of
\* that line.
Append1(f, clean, r) ==
  [f EXCEPT !.lines = Append(@, IF clean THEN r ELSE Garbage), !.torn = FALSE]

Running == {m \in Matches : stage[m] \in {"playing", "ready", "writing"}}
Failed  == {m \in Matches : stage[m] = "failed"}
Claimed == {m \in Matches : stage[m] # "waiting"}

Init ==
  /\ file = NoFile
  /\ reports = NoRecords
  /\ old = Nowhere
  /\ pc = "down"
  /\ cfg = NoConfig
  /\ done = NoRecords
  /\ stage = [m \in Matches |-> "waiting"]
  /\ result = NoRecords
  /\ lock = Unlocked
  /\ write_error = FALSE
  /\ cancelled = FALSE
  /\ exit = Exit("none")
  /\ runs = 0 /\ kills = 0 /\ faults = 0

Start(c) ==
  /\ pc = "down"
  /\ runs < MaxRuns
  /\ runs' = runs + 1
  /\ cfg' = c
  /\ pc' = IF file.exists THEN "load" ELSE "create"
  /\ exit' = Exit("none")
  /\ cancelled' = FALSE
  /\ UNCHANGED <<file, reports, old, run, kills, faults>>

Load ==
  /\ pc = "load"
  /\ IF Loads(file, cfg)
     THEN /\ done' = Recorded(file)
          /\ pc' = "cut"
          /\ UNCHANGED <<stage, result, lock, write_error, exit>>
     ELSE Leave(Exit("refused"))
  /\ UNCHANGED <<file, reports, old, cfg, cancelled, runs, kills, faults>>

Cut ==
  /\ pc = "cut"
  /\ file' = DropPartialLine(file)
  /\ pc' = "play"
  /\ UNCHANGED <<reports, old, cfg, run, cancelled, exit, runs, kills, faults>>

\* fs::write: the file is there before its text.
Create ==
  /\ pc = "create"
  /\ file' = [exists |-> TRUE, lines |-> <<>>, torn |-> TRUE]
  /\ pc' = "header"
  /\ UNCHANGED <<reports, old, cfg, run, cancelled, exit, runs, kills, faults>>

WriteHeader ==
  /\ pc = "header"
  /\ file' = [file EXCEPT !.lines = <<Header(cfg)>>, !.torn = FALSE]
  /\ pc' = "play"
  /\ UNCHANGED <<reports, old, cfg, run, cancelled, exit, runs, kills, faults>>

\* Reading, cutting, creating or opening the file fails, or a report before
\* anything of the directory changed.
DiskError ==
  /\ pc \in {"load", "cut", "create", "header", "report", "moveOld", "place"}
  /\ faults < MaxFaults
  /\ faults' = faults + 1
  /\ Leave(Exit(IF pc \in {"report", "moveOld", "place"} THEN "unwritten" ELSE "checkpoint"))
  /\ UNCHANGED <<file, reports, old, cfg, cancelled, runs, kills>>

----------------------------------------------------------------------------
Set(m, s) == stage' = [stage EXCEPT ![m] = s]

Taken(m) == done[m] # NoRecord

\* A claim may come after another match's error: the pool looks at its limit
\* before it claims.
Claim(m) ==
  /\ pc = "play"
  /\ stage[m] = "waiting"
  /\ \A k \in 0 .. m - 1 : stage[k] # "waiting"
  /\ Cardinality(Running) < Workers
  /\ IF Taken(m)
     THEN Set(m, "ok") /\ result' = [result EXCEPT ![m] = done[m]]
     ELSE Set(m, "playing") /\ UNCHANGED result
  /\ UNCHANGED <<file, reports, old, pc, cfg, done, lock, write_error, cancelled, exit,
                 runs, kills, faults>>

Play(m) ==
  /\ stage[m] = "playing"
  /\ Set(m, IF m \in Bad[cfg] THEN "failed" ELSE "ready")
  /\ UNCHANGED <<file, reports, old, pc, cfg, done, result, lock, write_error, cancelled, exit,
                 runs, kills, faults>>

\* A match sees the SIGINT flag, or that a lower one failed.
Stop(m) ==
  /\ stage[m] = "playing"
  /\ cancelled \/ \E k \in Failed : k < m
  /\ Set(m, "stopped")
  /\ UNCHANGED <<file, reports, old, pc, cfg, done, result, lock, write_error, cancelled, exit,
                 runs, kills, faults>>

BeginLine(m) ==
  /\ stage[m] = "ready"
  /\ lock = Unlocked
  /\ lock' = [match |-> m, clean |-> ~file.torn]
  /\ file' = [file EXCEPT !.torn = TRUE]
  /\ Set(m, "writing")
  /\ UNCHANGED <<reports, old, pc, cfg, done, result, write_error, cancelled, exit,
                 runs, kills, faults>>

\* Mutant: the guard of the sink outlives the line.
EndLineLocked(m) ==
  /\ stage[m] = "writing"
  /\ file' = Append1(file, lock.clean, Record(cfg, m))
  /\ Set(m, "ok")
  /\ result' = [result EXCEPT ![m] = Record(cfg, m)]
  /\ UNCHANGED <<reports, old, pc, cfg, done, lock, write_error, cancelled, exit,
                 runs, kills, faults>>

EndLine(m) ==
  /\ stage[m] = "writing"
  /\ file' = Append1(file, lock.clean, Record(cfg, m))
  /\ lock' = Unlocked
  /\ Set(m, "ok")
  /\ result' = [result EXCEPT ![m] = Record(cfg, m)]
  /\ UNCHANGED <<reports, old, pc, cfg, done, write_error, cancelled, exit, runs, kills, faults>>

\* write_all fails, with part of the line written or with nothing.
LineFails(m) ==
  /\ stage[m] = "writing"
  /\ faults < MaxFaults
  /\ faults' = faults + 1
  /\ \E torn \in {TRUE, ~lock.clean} : file' = [file EXCEPT !.torn = torn]
  /\ lock' = Unlocked
  /\ Set(m, "failed")
  /\ write_error' = TRUE
  /\ UNCHANGED <<reports, old, pc, cfg, done, result, cancelled, exit, runs, kills>>

\* Mutant: the first error ends the run while lower matches are still played.
JoinedEarly ==
  \/ Failed # {}
  \/ Running = {} /\ (Claimed = Matches \/ cancelled)

\* The pool returned, and run_resumable with it.
Joined ==
  /\ Running = {}
  /\ Claimed = Matches \/ Failed # {} \/ cancelled

First(S) == CHOOSE m \in S : \A k \in S : m <= k

\* Of the run only the results go on to the reports.
Collect ==
  /\ pc = "play"
  /\ Joined
  /\ CASE write_error -> Leave(Exit("checkpoint"))
       [] ~write_error /\ cancelled -> Leave(Exit("interrupted"))
       [] ~write_error /\ ~cancelled /\ Failed # {} ->
            Leave([kind |-> "failure", match |-> First(Failed)])
       [] OTHER ->
            /\ pc' = "report"
            /\ done' = NoRecords
            /\ stage' = [m \in Matches |-> "waiting"]
            /\ UNCHANGED <<result, lock, write_error, exit>>
  /\ UNCHANGED <<file, reports, old, cfg, cancelled, runs, kills, faults>>

\* The new files are built and staged.  The directory is swapped, or updated
\* in place when it is a link or has more in it than reports.
Report ==
  /\ pc = "report"
  /\ IF cancelled
     THEN Leave(Exit("interrupted"))
     ELSE pc' \in {"moveOld", "place"} /\ UNCHANGED <<run, exit>>
  /\ UNCHANGED <<file, reports, old, cfg, cancelled, runs, kills, faults>>

\* The first rename: nothing is at the directory's name, where a resume looks.
MoveOld ==
  /\ pc = "moveOld"
  /\ old' = [file |-> file, reports |-> reports]
  /\ file' = NoFile
  /\ reports' = NoRecords
  /\ pc' = "moveNew"
  /\ UNCHANGED <<cfg, run, cancelled, exit, runs, kills, faults>>

\* The second rename.
MoveNew ==
  /\ pc = "moveNew"
  /\ reports' = result
  /\ pc' = "removeOld"
  /\ UNCHANGED <<file, old, cfg, run, cancelled, exit, runs, kills, faults>>

MoveNewFails ==
  /\ pc = "moveNew"
  /\ faults < MaxFaults
  /\ faults' = faults + 1
  /\ pc' = "restore"
  /\ UNCHANGED <<file, reports, old, cfg, run, cancelled, exit, runs, kills>>

Restore ==
  /\ pc = "restore"
  /\ file' = old.file
  /\ reports' = old.reports
  /\ old' = Nowhere
  /\ Leave(Exit("unwritten"))
  /\ UNCHANGED <<cfg, cancelled, runs, kills, faults>>

RemoveOld ==
  /\ pc = "removeOld"
  /\ old' = Nowhere
  /\ Leave(Exit("reported"))
  /\ UNCHANGED <<file, reports, cfg, cancelled, runs, kills, faults>>

\* Restoring or removing the directory set aside fails: what is left of it
\* stays under its other name, where no run looks.
LeaveOld ==
  /\ pc \in {"restore", "removeOld"}
  /\ faults < MaxFaults
  /\ faults' = faults + 1
  /\ old' = Nowhere
  /\ Leave(Exit("unwritten"))
  /\ UNCHANGED <<file, reports, cfg, cancelled, runs, kills>>

\* In place: the renames, of which results.json is the last, then the files
\* of earlier sets, the checkpoint among them.
Place ==
  /\ pc = "place"
  /\ reports' = result
  /\ pc' = "stale"
  /\ UNCHANGED <<file, old, cfg, run, cancelled, exit, runs, kills, faults>>

RemoveStale ==
  /\ pc = "stale"
  /\ file' = NoFile
  /\ Leave(Exit("reported"))
  /\ UNCHANGED <<reports, old, cfg, cancelled, runs, kills, faults>>

\* Removing the checkpoint fails, or a file after it.
RemoveStaleFails ==
  /\ pc = "stale"
  /\ faults < MaxFaults
  /\ faults' = faults + 1
  /\ file' \in {file, NoFile}
  /\ Leave(Exit("unwritten"))
  /\ UNCHANGED <<reports, old, cfg, cancelled, runs, kills>>

\* After the last report file is staged nobody looks at the flag.
Interrupt ==
  /\ pc \in {"play", "report"}
  /\ ~cancelled
  /\ cancelled' = TRUE
  /\ UNCHANGED <<file, reports, old, pc, cfg, run, exit, runs, kills, faults>>

\* kill -9.  What was written stays; a machine that stops could also lose
\* lines nobody synced.
Kill ==
  /\ pc # "down"
  /\ kills < MaxKills
  /\ kills' = kills + 1
  /\ old' = Nowhere
  /\ Leave(Exit("killed"))
  /\ UNCHANGED <<file, reports, cfg, cancelled, runs, faults>>

Work ==
  \/ Load \/ Cut \/ Create \/ WriteHeader \/ Collect
  \/ Report \/ MoveOld \/ MoveNew \/ Restore \/ RemoveOld \/ Place \/ RemoveStale
  \/ \E m \in Matches : Claim(m) \/ Play(m) \/ Stop(m) \/ BeginLine(m) \/ EndLine(m)

Next ==
  \/ \E c \in Configs : Start(c)
  \/ Work
  \/ DiskError \/ MoveNewFails \/ LeaveOld \/ RemoveStaleFails
  \/ Interrupt \/ Kill
  \/ \E m \in Matches : LineFails(m)

\* Nobody has to start a run; one that is started is scheduled.
Fairness == WF_vars(Work)

Spec     == Init /\ [][Next]_vars
FairSpec == Spec /\ Fairness

----------------------------------------------------------------------------
\* The file has one line of every match it has, whatever order the workers of
\* earlier runs appended in, so while it is there no later run plays a finished
\* match again; and when a run reports the error of match m, the matches below
\* m are there (checkpoint.rs:275-409, and the order Pool keeps).
OneLineOfEach ==
  /\ \A i, j \in DOMAIN file.lines :
       file.lines[i] = file.lines[j] => i = j \/ file.lines[i] = Garbage
  /\ exit.kind = "failure" =>
       \A k \in 0 .. exit.match - 1 : Record(cfg, k) \in ToSet(file.lines)

\* Reports and the checkpoint behave as ResumeContract says, whoever stopped
\* how many runs: a finished match is lost only when all of its configuration
\* are finished and a run stops between the two renames of the directory, or
\* cannot undo the first; and the reports hold every match of one configuration
\* (checkpoint.rs:3-17, set.rs:356-472).
OwnerOf(f) == IF f.lines = <<>> THEN NoConfig ELSE f.lines[1].header
KeptOf(f)  == {m \in Matches : \E i \in DOMAIN f.lines : f.lines[i] = Record(OwnerOf(f), m)}
Aside      == [owner |-> OwnerOf(old.file), kept |-> KeptOf(old.file), reports |-> old.reports]
Contract   == INSTANCE ResumeContract
                WITH owner <- OwnerOf(file), kept <- KeptOf(file), aside <- Aside
ImplementsContract == Contract!Spec

\* Every run ends, whatever failed in it (checkpoint.rs:338-409).
RunEnds == pc # "down" ~> pc = "down"

\* What checkpoint.rs:12-17 says: a line cut short by a kill is ignored, and
\* the checkpoint of a run that stopped is there for the next resume.  The
\* code does so for every line but the header.
StaysForTheNextResume ==
  pc = "down" /\ file.exists => \E c \in Configs : Loads(file, c)
=============================================================================
