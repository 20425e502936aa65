----------------------------- MODULE ReportSet ------------------------------
(***************************************************************************)
(* How a benchmark replaces the reports in its directory (gcg-runner:      *)
(* reports/set.rs write_report_set).  A directory with report files only   *)
(* is swapped for a staged one with two renames; one with anything else in *)
(* it (or a symlink) is updated file by file, under temporary names first. *)
(*                                                                         *)
(* A step is one call of the file system.  Every call may fail, the        *)
(* process may be killed before any of them, several processes may write   *)
(* to the same directory, and a user may save a file into it meanwhile.    *)
(***************************************************************************)
EXTENDS Naturals, Sequences, SequencesExt

CONSTANTS
  Writers,     \* processes that write reports
  Names,       \* entries of a report directory
  Plan,        \* Plan[w]: the files of the set of w, in writing order
  Replays,     \* the entries that are replay files
  Copies,      \* the entries that are deck copies or swap-test decks
  Earlier,     \* what the directory may hold before: sets of entries
  NoDir,
  MaxKills,    \* bound: kills
  MaxFaults    \* bound: failing calls

Absent   == "absent"
Before   == "before"   \* the content of what was there before
Versions == Writers \cup {Before, Absent}
Dirs     == [Names -> Versions]
Empty    == [f \in Names |-> Absent]

ASSUME ReportSetAssumption ==
  /\ Plan \in [Writers -> Seq(Names)]
  /\ \A w \in Writers : Plan[w] # <<>>
  /\ Replays \subseteq Names /\ Copies \subseteq Names
  /\ Earlier \subseteq SUBSET Names
  /\ NoDir \notin Dirs
  /\ {Before, Absent, "never", "out", "lost"} \cap Writers = {}
  /\ {MaxKills, MaxFaults} \subseteq Nat

\* results.json, the last file, is in a set once.
ASSUME ResultsAssumption ==
  \A w \in Writers : \A k \in 1 .. Len(Plan[w]) - 1 : Plan[w][k] # Plan[w][Len(Plan[w])]

\* The files of w's set, and nothing else.
Complete(w) == [f \in Names |-> IF f \in ToSet(Plan[w]) THEN w ELSE Absent]

VARIABLES
  out,         \* the report directory
  new,         \* .{name}.{pid}.new of each writer
  old,         \* .{name}.{pid}.old of each writer
  temp,        \* the files each writer has under temporary names in out
  pc,          \* the next call of each writer, or how it ended
  i,           \* the index of the file it is at
  staged,      \* how many files it has written under temporary names
  cancelled,   \* the SIGINT flag of each
  foreign,     \* something else is in out from the start; never changes
  saved,       \* where the file is that a user saved into out later
  late,        \* whether a process was replacing out then
  first,       \* what out was at the start; never changes
  kills, faults

vars == <<out, new, old, temp, pc, i, staged, cancelled, foreign, saved, late, first, kills,
          faults>>
whole == <<foreign, saved, late, first>>
fixed == <<foreign, first>>

Ends == {"ok", "failed", "interrupted", "killed"}
Calls == {"begin", "stage", "look", "install", "moveOld", "moveNew", "restore", "drop",
          "abandon", "removeOld", "temp", "clear", "undo", "rename", "stale"}
\* The calls of the two ways to write.
SwapCalls == {"stage", "look", "install", "moveOld", "moveNew", "restore", "drop",
              "abandon", "removeOld"}
InPlaceCalls == {"temp", "clear", "undo", "rename", "stale"}

Init ==
  /\ foreign \in BOOLEAN
  /\ out \in {[f \in Names |-> IF f \in S THEN Before ELSE Absent] : S \in Earlier}
             \cup IF foreign THEN {} ELSE {NoDir}
  /\ first = out
  /\ saved = "never" /\ late = FALSE
  /\ new = [w \in Writers |-> NoDir]
  /\ old = [w \in Writers |-> NoDir]
  /\ temp = [w \in Writers |-> {}]
  /\ pc = [w \in Writers |-> "begin"]
  /\ i = [w \in Writers |-> 1]
  /\ staged = [w \in Writers |-> 0]
  /\ cancelled = [w \in Writers |-> FALSE]
  /\ kills = 0 /\ faults = 0

Go(w, to) == pc' = [pc EXCEPT ![w] = to]
At(w, at) == pc[w] = at

\* Mutants: results.json first; the last file forgotten.
FileFromTheEnd(w) == Plan[w][Len(Plan[w]) + 1 - i[w]]
LastButOne(w) == i[w] + 1 >= Len(Plan[w])

File(w)  == Plan[w][i[w]]
AtLast(w)  == i[w] = Len(Plan[w])
Step(w)  == i' = [i EXCEPT ![w] = IF AtLast(w) THEN 1 ELSE @ + 1]

\* rename replaces an empty directory, and nothing else that is there.
Free(d) == d = NoDir \/ (d = Empty /\ saved # "out")

----------------------------------------------------------------------------
\* Mutant: the directory is looked at once, when the program starts.
LookedAtTheStart == ~foreign
\* Also: the directory is no symlink.
only_report_entries == ~foreign /\ saved # "out"

\* Bound: an update in place does not begin while another process swaps.
Begin(w) ==
  /\ At(w, "begin")
  /\ saved = "out" => \A v \in Writers : pc[v] \notin SwapCalls
  /\ Go(w, CASE cancelled[w] -> "interrupted"
             [] ~cancelled[w] /\ only_report_entries -> "stage"
             [] OTHER -> "temp")
  /\ UNCHANGED <<out, new, old, temp, i, staged, cancelled, whole, kills, faults>>

StageFile(w) ==
  /\ At(w, "stage")
  /\ new' = [new EXCEPT ![w] = [(IF @ = NoDir THEN Empty ELSE @) EXCEPT ![File(w)] = w]]
  /\ Step(w)
  /\ Go(w, CASE cancelled[w] -> "abandon"
             [] ~cancelled[w] /\ AtLast(w) -> "look"
             [] OTHER -> "stage")
  /\ UNCHANGED <<out, old, temp, staged, cancelled, whole, kills, faults>>

\* The staging directory goes away; the writer gives up.
Drop(w) ==
  /\ pc[w] \in {"drop", "abandon"}
  /\ new' = [new EXCEPT ![w] = NoDir]
  /\ Go(w, IF At(w, "drop") THEN "failed" ELSE "interrupted")
  /\ UNCHANGED <<out, old, temp, i, staged, cancelled, whole, kills, faults>>

Look(w) ==
  /\ At(w, "look")
  /\ Go(w, IF out = NoDir THEN "install" ELSE "moveOld")
  /\ UNCHANGED <<out, new, old, temp, i, staged, cancelled, whole, kills, faults>>

\* rename(staging, out) where no directory was.
Install(w) ==
  /\ At(w, "install")
  /\ IF Free(out)
     THEN /\ out' = new[w]
          /\ new' = [new EXCEPT ![w] = NoDir]
          /\ Go(w, "ok")
     ELSE Go(w, "drop") /\ UNCHANGED <<out, new>>
  /\ UNCHANGED <<old, temp, i, staged, cancelled, whole, kills, faults>>

\* Mutant: the old set is removed, not set aside.
MoveOldAway(w) ==
  /\ At(w, "moveOld")
  /\ out' = NoDir
  /\ old' = [old EXCEPT ![w] = Empty]
  /\ saved' = IF saved = "out" THEN "lost" ELSE saved
  /\ Go(w, "moveNew")
  /\ UNCHANGED <<new, temp, i, staged, cancelled, fixed, late, kills, faults>>

MoveOld(w) ==
  /\ At(w, "moveOld")
  /\ IF out # NoDir
     THEN /\ old' = [old EXCEPT ![w] = out]
          /\ out' = NoDir
          /\ saved' = IF saved = "out" THEN w ELSE saved
          /\ Go(w, "moveNew")
     ELSE Go(w, "drop") /\ UNCHANGED <<out, old, saved>>
  /\ UNCHANGED <<new, temp, i, staged, cancelled, fixed, late, kills, faults>>

MoveNew(w) ==
  /\ At(w, "moveNew")
  /\ IF Free(out)
     THEN /\ out' = new[w]
          /\ new' = [new EXCEPT ![w] = NoDir]
          /\ Go(w, "removeOld")
     ELSE Go(w, "restore") /\ UNCHANGED <<out, new>>
  /\ UNCHANGED <<old, temp, i, staged, cancelled, whole, kills, faults>>

Restore(w) ==
  /\ At(w, "restore")
  /\ IF Free(out)
     THEN /\ out' = old[w]
          /\ old' = [old EXCEPT ![w] = NoDir]
          /\ saved' = IF saved = w THEN "out" ELSE saved
     ELSE UNCHANGED <<out, old, saved>>
  /\ Go(w, "drop")
  /\ UNCHANGED <<new, temp, i, staged, cancelled, fixed, late, kills, faults>>

\* remove_dir_all, entry by entry, the user's file first.
RemoveOld(w) ==
  /\ At(w, "removeOld")
  /\ IF old[w] = Empty
     THEN old' = [old EXCEPT ![w] = NoDir] /\ Go(w, "ok")
     ELSE /\ \E f \in Names : old[w][f] # Absent /\ old' = [old EXCEPT ![w][f] = Absent]
          /\ UNCHANGED pc
  /\ saved' = IF saved = w THEN "lost" ELSE saved
  /\ UNCHANGED <<out, new, temp, i, staged, cancelled, fixed, late, kills, faults>>

----------------------------------------------------------------------------
TempFile(w) ==
  /\ At(w, "temp")
  /\ temp' = [temp EXCEPT ![w] = @ \cup {File(w)}]
  /\ staged' = [staged EXCEPT ![w] = @ + 1]
  /\ i' = [i EXCEPT ![w] = IF cancelled[w] \/ AtLast(w) THEN 1 ELSE @ + 1]
  /\ Go(w, CASE cancelled[w] -> "clear"
             [] ~cancelled[w] /\ AtLast(w) -> "rename"
             [] OTHER -> "temp")
  /\ UNCHANGED <<out, new, old, cancelled, whole, kills, faults>>

\* The files of an interrupted or failed update go, in the order they came.
ClearNext(w) ==
  IF i[w] < staged[w]
  THEN i' = [i EXCEPT ![w] = @ + 1] /\ UNCHANGED pc
  ELSE Go(w, IF At(w, "clear") THEN "interrupted" ELSE "failed") /\ UNCHANGED i

ClearTemp(w) ==
  /\ pc[w] \in {"clear", "undo"}
  /\ temp' = [temp EXCEPT ![w] = @ \ {File(w)}]
  /\ ClearNext(w)
  /\ UNCHANGED <<out, new, old, staged, cancelled, whole, kills, faults>>

\* A remove_file that fails is ignored.
ClearFails(w) ==
  /\ pc[w] \in {"clear", "undo"}
  /\ faults < MaxFaults
  /\ faults' = faults + 1
  /\ ClearNext(w)
  /\ UNCHANGED <<out, new, old, temp, staged, cancelled, whole, kills>>

RenameTemp(w) ==
  /\ At(w, "rename")
  /\ out' = [out EXCEPT ![File(w)] = w]
  /\ temp' = [temp EXCEPT ![w] = @ \ {File(w)}]
  /\ Step(w)
  /\ Go(w, IF AtLast(w) THEN "stale" ELSE "rename")
  /\ UNCHANGED <<new, old, staged, cancelled, whole, kills, faults>>

\* Mutant: only replays are stale, not the checkpoint.
StaleReplays(w) == {f \in Replays \ ToSet(Plan[w]) : out[f] # Absent}

Stale(w) == {f \in Names \ (Copies \cup ToSet(Plan[w])) : out[f] # Absent}

\* The report files first, then the replays.
RemoveStale(w) ==
  /\ At(w, "stale")
  /\ IF Stale(w) = {}
     THEN Go(w, "ok") /\ UNCHANGED out
     ELSE /\ \E f \in IF Stale(w) \subseteq Replays THEN Stale(w) ELSE Stale(w) \ Replays :
               out' = [out EXCEPT ![f] = Absent]
          /\ UNCHANGED pc
  /\ UNCHANGED <<new, old, temp, i, staged, cancelled, whole, kills, faults>>

----------------------------------------------------------------------------
\* Where the code goes when the call it is at fails.
OnError(at) ==
  CASE at \in {"stage", "install", "moveOld"} -> "drop"
    [] at = "moveNew" -> "restore"
    [] at = "restore" -> "drop"
    [] at = "abandon" -> "interrupted"
    [] OTHER -> "failed"

Fail(w) ==
  /\ pc[w] \in Calls \ {"look", "temp", "clear", "undo"}
  /\ faults < MaxFaults
  /\ faults' = faults + 1
  /\ Go(w, OnError(pc[w]))
  /\ UNCHANGED <<out, new, old, temp, i, staged, cancelled, whole, kills>>

\* The file that failed may be there, with part of its text; it is not among
\* those that are cleared.
TempFails(w) ==
  /\ At(w, "temp")
  /\ faults < MaxFaults
  /\ faults' = faults + 1
  /\ \E left \in {{}, {File(w)}} : temp' = [temp EXCEPT ![w] = @ \cup left]
  /\ i' = [i EXCEPT ![w] = 1]
  /\ Go(w, IF staged[w] = 0 THEN "failed" ELSE "undo")
  /\ UNCHANGED <<out, new, old, staged, cancelled, whole, kills>>

Interrupt(w) ==
  /\ pc[w] \in Calls
  /\ ~cancelled[w]
  /\ cancelled' = [cancelled EXCEPT ![w] = TRUE]
  /\ UNCHANGED <<out, new, old, temp, pc, i, staged, whole, kills, faults>>

Kill(w) ==
  /\ pc[w] \in Calls
  /\ kills < MaxKills
  /\ kills' = kills + 1
  /\ Go(w, "killed")
  /\ UNCHANGED <<out, new, old, temp, i, staged, cancelled, whole, faults>>

Call(w) ==
  \/ Begin(w) \/ StageFile(w) \/ Drop(w) \/ Look(w) \/ Install(w) \/ MoveOld(w)
  \/ MoveNew(w) \/ Restore(w) \/ RemoveOld(w)
  \/ TempFile(w) \/ ClearTemp(w) \/ RenameTemp(w) \/ RemoveStale(w)

Fault(w) == Fail(w) \/ TempFails(w) \/ ClearFails(w)

\* The user saves a file of his own into the directory.
Save ==
  /\ saved = "never" /\ out # NoDir
  /\ saved' = "out"
  /\ late' = \E w \in Writers : pc[w] \in SwapCalls
  /\ UNCHANGED <<out, new, old, temp, pc, i, staged, cancelled, fixed, kills, faults>>

Next == Save \/ \E w \in Writers : Call(w) \/ Fault(w) \/ Interrupt(w) \/ Kill(w)

Spec == Init /\ [][Next]_vars

----------------------------------------------------------------------------
TypeOK ==
  /\ out \in Dirs \cup {NoDir} /\ first \in Dirs \cup {NoDir}
  /\ new \in [Writers -> Dirs \cup {NoDir}] /\ old \in [Writers -> Dirs \cup {NoDir}]
  /\ temp \in [Writers -> SUBSET Names]
  /\ pc \in [Writers -> Calls \cup Ends]
  /\ \A w \in Writers : i[w] \in 1 .. Len(Plan[w]) /\ staged[w] \in 0 .. Len(Plan[w])
  /\ cancelled \in [Writers -> BOOLEAN]
  /\ saved \in {"never", "out", "lost"} \cup Writers /\ late \in BOOLEAN
  /\ kills \in 0 .. MaxKills /\ faults \in 0 .. MaxFaults

Sets == {first} \cup {Complete(w) : w \in Writers}

\* Nothing but report files is in the directory, or was.
ReportsOnly == ~foreign /\ saved = "never"

\* A reader of a swapped directory sees one complete set, or no directory,
\* however many processes write, fail or die (set.rs:8-11).
NeverAMix == ReportsOnly => out \in Sets \cup {NoDir}

\* While the directory has held report files only, and so is swapped, what was
\* there or a complete new set is on the disk after every failure and kill: at
\* its place, or under a staging name (set.rs:377-428).
SomeSetSurvives ==
  ReportsOnly /\ first # NoDir =>
    \E d \in {out} \cup {old[w] : w \in Writers} \cup {new[w] : w \in Writers} :
      d \in Sets

\* The set of w took the place of the directory.
Replaced(w) == pc[w] \in {"removeOld", "ok", "failed", "killed"} /\ new[w] = NoDir

\* A file that a user saves into the directory while no process replaces it
\* stays where it is, whoever writes, fails or dies later: a process looks for
\* other entries when it writes, not when it starts (set.rs:12-16, 356-361).
\* One saved between the look of a process and its swap (late) may go aside
\* with the old set, and then with its removal; but it is on the disk as long
\* as the new set is not in place, whatever fails in between (set.rs:402-426).
SavedFileStays ==
  /\ saved \in {"never", "out"} \/ late
  /\ saved \in Writers => old[saved] # NoDir
  /\ saved = "lost" => \E w \in Writers : Replaced(w)

\* No other process has called anything yet.
Alone(w) == \A v \in Writers \ {w} : At(v, "begin")

\* A process that was interrupted or reports success has nothing set aside.
\* A successful one left no staging directory and no temporary file; nor did an
\* interrupted one when no call failed, as clean-ups that fail are ignored
\* (set.rs:399, 457-459).  Alone, an interrupted one changed nothing in the
\* directory, failing clean-ups or not, and a successful one leaves its own set
\* and no file of the earlier one (set.rs:322-326, 377-492).
EndsClean ==
  \A w \in Writers : pc[w] \in {"interrupted", "ok"} =>
    /\ old[w] = NoDir
    /\ At(w, "ok") \/ faults = 0 => new[w] = NoDir /\ temp[w] = {}
    /\ At(w, "interrupted") /\ Alone(w) => out = first
    /\ At(w, "ok") /\ Alone(w) =>
         \A f \in IF ReportsOnly THEN Names ELSE Names \ Copies : out[f] = Complete(w)[f]

\* In a directory updated in place by one process, whoever sees the new
\* results.json sees every other file of that set: results.json is last
\* (set.rs:13-16).
ResultsComeLast ==
  foreign => \A w \in Writers :
    Alone(w) /\ out[Plan[w][Len(Plan[w])]] = w => \A f \in ToSet(Plan[w]) : out[f] = w

\* What set.rs:322-326 says of an error: the old set is kept.  Not so when
\* only its removal fails, or a rename of an update in place.
FailureKeepsTheOldSet ==
  \A w \in Writers : At(w, "failed") => out = first
=============================================================================
