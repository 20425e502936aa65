-------------------------- MODULE ReportSetProofs ---------------------------
(***************************************************************************)
(* Proofs about ReportSet, for any number of processes that write to one   *)
(* directory, any sets of files, and any number of kills and failing       *)
(* calls.                                                                  *)
(***************************************************************************)
EXTENDS ReportSet, TLAPS

USE ReportSetAssumption

DirOrNone == Dirs \cup {NoDir}

Types ==
  /\ out \in DirOrNone /\ first \in DirOrNone
  /\ new \in [Writers -> DirOrNone] /\ old \in [Writers -> DirOrNone]
  /\ temp \in [Writers -> SUBSET Names]
  /\ pc \in [Writers -> Calls \cup Ends]
  /\ i \in [Writers -> Nat]
  /\ \A w \in Writers : i[w] \in 1 .. Len(Plan[w])
  /\ staged \in [Writers -> Nat]
  /\ cancelled \in [Writers -> BOOLEAN]
  /\ saved \in {"never", "out", "lost"} \cup Writers /\ late \in BOOLEAN
  /\ kills \in 0 .. MaxKills /\ faults \in 0 .. MaxFaults

\* What is in the directory that keeps a process from swapping it.
Kept == foreign \/ saved = "out"

\* An update in place and a swap are never both under way.
ModeInv ==
  /\ Kept => out # NoDir
  /\ foreign => \A w \in Writers : pc[w] \notin SwapCalls
  /\ \A w \in Writers : pc[w] \in InPlaceCalls =>
       Kept /\ \A v \in Writers : pc[v] \notin SwapCalls

\* What a writer has staged before it writes file n.
Staged(w, n) ==
  [f \in Names |-> IF \E k \in 1 .. n - 1 : Plan[w][k] = f THEN w ELSE Absent]

StagingInv ==
  \A w \in Writers :
    /\ pc[w] = "begin" => i[w] = 1 /\ new[w] = NoDir
    /\ pc[w] = "stage" => new[w] = IF i[w] = 1 THEN NoDir ELSE Staged(w, i[w])
    /\ pc[w] \in {"look", "install", "moveOld", "moveNew"} => new[w] = Complete(w)

\* How many files a writer has under temporary names, when it updates in place.
TempInv ==
  \A w \in Writers :
    /\ staged[w] \in 0 .. Len(Plan[w])
    /\ pc[w] = "begin" => staged[w] = 0
    /\ pc[w] = "temp" => i[w] = staged[w] + 1
    /\ pc[w] \in {"clear", "undo"} => i[w] \in 1 .. staged[w]

\* What a writer moved aside was the directory a reader saw.
OldInv ==
  \A w \in Writers :
    /\ pc[w] \in {"moveNew", "restore"} /\ saved = "never" => old[w] \in Sets
    /\ pc[w] \in {"moveNew", "restore", "removeOld"} => old[w] # NoDir

IInv == Types /\ ModeInv /\ StagingInv /\ TempInv /\ OldInv /\ NeverAMix

----------------------------------------------------------------------------
\* The staged files are all of the set when the last one is written.
LEMMA AllStaged ==
  ASSUME NEW w \in Writers, NEW d \in Dirs,
         NEW n \in 1 .. Len(Plan[w]),
         d = IF n = 1 THEN Empty ELSE Staged(w, n)
  PROVE  /\ [d EXCEPT ![Plan[w][n]] = w] = Staged(w, n + 1)
         /\ n = Len(Plan[w]) => Staged(w, n + 1) = Complete(w)
         /\ Staged(w, n + 1) \in Dirs
  <1>0. Plan[w] \in Seq(Names) /\ Plan[w][n] \in Names
    OBVIOUS
  <1>1. d = Staged(w, n)
    BY DEF Staged, Empty
  <1>2. \A f \in Names :
          (\E k \in 1 .. (n + 1) - 1 : Plan[w][k] = f)
            <=> (\E k \in 1 .. n - 1 : Plan[w][k] = f) \/ f = Plan[w][n]
    <2>1. 1 .. (n + 1) - 1 = (1 .. n - 1) \cup {n}
      BY <1>0
    <2> QED BY <2>1
  <1>3. [d EXCEPT ![Plan[w][n]] = w] = Staged(w, n + 1)
    BY <1>0, <1>1, <1>2 DEF Staged
  <1>4. ASSUME n = Len(Plan[w]) PROVE Staged(w, n + 1) = Complete(w)
    <2>1. \A f : f \in ToSet(Plan[w]) <=> \E k \in 1 .. n : Plan[w][k] = f
      BY <1>0, <1>4 DEF ToSet
    <2>2. 1 .. (n + 1) - 1 = 1 .. n
      BY <1>0
    <2> QED BY <2>1, <2>2 DEF Staged, Complete
  <1>5. Staged(w, n + 1) \in Dirs
    BY DEF Staged, Dirs, Versions
  <1> QED BY <1>3, <1>4, <1>5

\* A complete set is a directory with something in it.
LEMMA CompleteIsADir ==
  ASSUME NEW w \in Writers
  PROVE  Complete(w) \in Dirs /\ Complete(w) # NoDir /\ Complete(w) \in Sets
  BY DEF Complete, Dirs, Versions, Sets

\* So is one with nothing in it.
LEMMA EmptyIsADir == Empty \in Dirs
  BY DEF Empty, Dirs, Versions

\* What no call changes, and what only MoveOld, Restore and RemoveOld do.
LEMMA Fixed ==
  ASSUME NEW w \in Writers, Call(w) \/ Fault(w) \/ Interrupt(w) \/ Kill(w)
  PROVE  /\ foreign' = foreign /\ first' = first /\ late' = late /\ Sets' = Sets
         /\ ~(MoveOld(w) \/ Restore(w) \/ RemoveOld(w)) => saved' = saved
         /\ saved' = "never" => saved = "never"
  <1>1. CASE MoveOld(w) \/ Restore(w) \/ RemoveOld(w)
    BY <1>1 DEF MoveOld, Restore, RemoveOld, fixed, Sets, Complete
  <1>2. CASE ~(MoveOld(w) \/ Restore(w) \/ RemoveOld(w))
    <2>1. UNCHANGED whole
      BY <1>2 DEF Call, Begin, StageFile, Drop, Look, Install, MoveNew,
         TempFile, ClearTemp, RenameTemp, RemoveStale, Fault, Fail, TempFails, ClearFails, ClearNext, Interrupt, Kill
    <2> QED BY <1>2, <2>1 DEF whole, Sets, Complete
  <1> QED BY <1>1, <1>2

----------------------------------------------------------------------------
\* The types hold at the start.
LEMMA InitIInv == Init => IInv
  <1> SUFFICES ASSUME Init PROVE IInv
    OBVIOUS
  <1>1. /\ out \in DirOrNone /\ first = out
        /\ foreign => out # NoDir
    BY DEF Init, DirOrNone, Dirs, Versions
  <1>2. Types
    <2>1. saved \in {"never", "out", "lost"} \cup Writers /\ late \in BOOLEAN
      BY DEF Init
    <2>2. /\ kills \in 0 .. MaxKills /\ faults \in 0 .. MaxFaults
          /\ i \in [Writers -> Nat] /\ \A w \in Writers : i[w] \in 1 .. Len(Plan[w])
      BY DEF Init
    <2>3. /\ new \in [Writers -> DirOrNone] /\ old \in [Writers -> DirOrNone]
          /\ temp \in [Writers -> SUBSET Names] /\ cancelled \in [Writers -> BOOLEAN]
          /\ pc \in [Writers -> Calls \cup Ends] /\ staged \in [Writers -> Nat]
      BY DEF Init, DirOrNone, Calls
    <2> QED BY <1>1, <2>1, <2>2, <2>3 DEF Types
  <1>3. ModeInv /\ StagingInv /\ TempInv /\ OldInv
    BY <1>1 DEF Init, ModeInv, Kept, StagingInv, TempInv, OldInv, SwapCalls, InPlaceCalls
  <1>4. NeverAMix
    BY <1>1 DEF NeverAMix, ReportsOnly, Sets
  <1> QED BY <1>2, <1>3, <1>4 DEF IInv

\* Writing a file moves the index on, or back to the start.
LEMMA StepType ==
  ASSUME Types, NEW w \in Writers, Step(w)
  PROVE  /\ i' \in [Writers -> Nat]
         /\ \A v \in Writers : i'[v] \in 1 .. Len(Plan[v])
         /\ \A v \in Writers : v # w => i'[v] = i[v]
         /\ i'[w] = IF i[w] = Len(Plan[w]) THEN 1 ELSE i[w] + 1
  BY DEF Types, Step, AtLast

\* pc changes at one writer only.
LEMMA GoType ==
  ASSUME Types, NEW w \in Writers, NEW to \in Calls \cup Ends, Go(w, to)
  PROVE  /\ pc' \in [Writers -> Calls \cup Ends]
         /\ pc'[w] = to
         /\ \A v \in Writers : v # w => pc'[v] = pc[v]
  BY DEF Types, Go

\* Each call of the file system keeps the types.
LEMMA TypesStep ==
  ASSUME Types, ModeInv, OldInv, TempInv, NEW w \in Writers,
         Call(w) \/ Fault(w) \/ Interrupt(w) \/ Kill(w)
  PROVE  Types'
  <1> USE DEF Types
  <1> Plan[w] \in Seq(Names) /\ File(w) \in Names
    BY DEF File
  <1>1. CASE Begin(w)
    BY <1>1 DEF Begin, Go, Calls, Ends, whole
  <1>2. CASE StageFile(w)
    <2>1. /\ i' \in [Writers -> Nat] /\ \A v \in Writers : i'[v] \in 1 .. Len(Plan[v])
      BY <1>2, StepType DEF StageFile
    <2>2. new' \in [Writers -> DirOrNone]
      BY <1>2, EmptyIsADir DEF StageFile, DirOrNone, Dirs, Versions
    <2>3. pc' \in [Writers -> Calls \cup Ends]
      BY <1>2 DEF StageFile, Go, Calls
    <2> QED BY <1>2, <2>1, <2>2, <2>3 DEF StageFile, whole
  <1>3. CASE Drop(w)
    BY <1>3 DEF Drop, Go, At, Ends, DirOrNone, whole
  <1>4. CASE Look(w)
    BY <1>4 DEF Look, Go, Calls, whole
  <1>5. CASE Install(w)
    BY <1>5 DEF Install, Go, Calls, Ends, DirOrNone, whole
  <1>6. CASE MoveOld(w)
    BY <1>6 DEF MoveOld, Go, Calls, DirOrNone, fixed
  <1>7. CASE MoveNew(w)
    BY <1>7 DEF MoveNew, Go, Calls, DirOrNone, whole
  <1>8. CASE Restore(w)
    BY <1>8 DEF Restore, Go, Calls, DirOrNone, fixed
  <1>9. CASE RemoveOld(w)
    <2>1. ASSUME NEW f \in Names, old[w] # NoDir, old' = [old EXCEPT ![w][f] = Absent]
          PROVE  old' \in [Writers -> DirOrNone]
      BY <2>1 DEF DirOrNone, Dirs, Versions
    <2>2. old[w] # NoDir
      BY <1>9 DEF RemoveOld, At, OldInv
    <2>3. old' \in [Writers -> DirOrNone]
      BY <1>9, <2>1, <2>2 DEF RemoveOld, DirOrNone
    <2>4. pc' \in [Writers -> Calls \cup Ends]
      BY <1>9 DEF RemoveOld, Go, Ends
    <2> QED BY <1>9, <2>3, <2>4 DEF RemoveOld, fixed
  <1>10. CASE TempFile(w)
    <2>1. /\ i' \in [Writers -> Nat] /\ \A v \in Writers : i'[v] \in 1 .. Len(Plan[v])
      BY <1>10 DEF TempFile, AtLast
    <2>2. pc' \in [Writers -> Calls \cup Ends]
      BY <1>10 DEF TempFile, Go, Calls, Ends
    <2>3. temp' \in [Writers -> SUBSET Names] /\ staged' \in [Writers -> Nat]
      BY <1>10 DEF TempFile
    <2> QED BY <1>10, <2>1, <2>2, <2>3 DEF TempFile, whole
  <1>10a. CASE ClearTemp(w) \/ ClearFails(w)
    <2>1. i[w] \in 1 .. staged[w] /\ staged[w] \in 0 .. Len(Plan[w])
      BY <1>10a DEF ClearTemp, ClearFails, TempInv
    <2>2. ClearNext(w)
      BY <1>10a DEF ClearTemp, ClearFails
    <2>3. /\ i' \in [Writers -> Nat] /\ \A v \in Writers : i'[v] \in 1 .. Len(Plan[v])
      <3>1. Len(Plan[w]) \in Nat
        OBVIOUS
      <3>2. CASE i[w] < staged[w]
        <4>1. i' = [i EXCEPT ![w] = @ + 1]
          BY <2>2, <3>2 DEF ClearNext
        <4>2. i[w] + 1 \in 1 .. Len(Plan[w])
          BY <2>1, <3>1, <3>2
        <4> QED BY <4>1, <4>2
      <3>3. CASE ~(i[w] < staged[w])
        BY <2>2, <3>3 DEF ClearNext
      <3> QED BY <3>2, <3>3
    <2>4. pc' \in [Writers -> Calls \cup Ends]
      BY <2>2 DEF ClearNext, Go, Ends
    <2>5. temp' \in [Writers -> SUBSET Names] /\ faults' \in 0 .. MaxFaults
      BY <1>10a DEF ClearTemp, ClearFails
    <2> QED BY <1>10a, <2>3, <2>4, <2>5 DEF ClearTemp, ClearFails, whole
  <1>10b. CASE TempFails(w)
    <2>1. /\ i' \in [Writers -> Nat] /\ \A v \in Writers : i'[v] \in 1 .. Len(Plan[v])
      BY <1>10b DEF TempFails
    <2>2. pc' \in [Writers -> Calls \cup Ends]
      BY <1>10b DEF TempFails, Go, Calls, Ends
    <2>3. PICK left \in {{}, {File(w)}} : temp' = [temp EXCEPT ![w] = @ \cup left]
      BY <1>10b DEF TempFails
    <2>4. left \in SUBSET Names
      BY <2>3
    <2>5. temp' \in [Writers -> SUBSET Names] /\ faults' \in 0 .. MaxFaults
      BY <1>10b, <2>3, <2>4 DEF TempFails
    <2> QED BY <1>10b, <2>1, <2>2, <2>5 DEF TempFails, whole
  <1>11. CASE RenameTemp(w)
    <2>1. /\ i' \in [Writers -> Nat] /\ \A v \in Writers : i'[v] \in 1 .. Len(Plan[v])
      BY <1>11, StepType DEF RenameTemp
    <2>2. out' \in DirOrNone
      <3>1. out \in Dirs
        BY <1>11 DEF RenameTemp, At, ModeInv, InPlaceCalls, DirOrNone
      <3> QED BY <1>11, <3>1 DEF RenameTemp, DirOrNone, Dirs, Versions
    <2>3. pc' \in [Writers -> Calls \cup Ends] /\ temp' \in [Writers -> SUBSET Names]
      BY <1>11 DEF RenameTemp, Go, Calls
    <2> QED BY <1>11, <2>1, <2>2, <2>3 DEF RenameTemp, whole
  <1>12. CASE RemoveStale(w)
    <2>1. out' \in DirOrNone
      <3>1. out \in Dirs
        BY <1>12 DEF RemoveStale, At, ModeInv, InPlaceCalls, DirOrNone
      <3>2. out' = out \/ \E f \in Names : out' = [out EXCEPT ![f] = Absent]
        BY <1>12 DEF RemoveStale, Stale
      <3> QED BY <3>1, <3>2 DEF DirOrNone, Dirs, Versions
    <2>2. pc' \in [Writers -> Calls \cup Ends]
      BY <1>12 DEF RemoveStale, Go, Ends
    <2> QED BY <1>12, <2>1, <2>2 DEF RemoveStale, whole
  <1>13. CASE Fail(w)
    <2>1. OnError(pc[w]) \in Calls \cup Ends
      BY DEF OnError, Calls, Ends
    <2>2. pc' \in [Writers -> Calls \cup Ends]
      BY <1>13, <2>1 DEF Fail, Go
    <2>4. faults' \in 0 .. MaxFaults
      BY <1>13 DEF Fail
    <2> QED BY <1>13, <2>2, <2>4 DEF Fail, whole
  <1>14. CASE Interrupt(w)
    BY <1>14 DEF Interrupt, whole
  <1>15. CASE Kill(w)
    BY <1>15 DEF Kill, Go, Ends, whole
  <1> QED BY <1>1, <1>2, <1>3, <1>4, <1>5, <1>6, <1>7, <1>8, <1>9, <1>10, <1>10a, <1>10b,
             <1>11, <1>12, <1>13, <1>14, <1>15 DEF Call, Fault

\* The index of an update in place follows what is written and cleared.
LEMMA TempStep ==
  ASSUME IInv, NEW w \in Writers,
         Call(w) \/ Fault(w) \/ Interrupt(w) \/ Kill(w)
  PROVE  TempInv'
  <1> USE DEF IInv, Types
  <1> SUFFICES ASSUME NEW v \in Writers
               PROVE  /\ staged'[v] \in 0 .. Len(Plan[v])
                      /\ pc'[v] = "begin" => staged'[v] = 0
                      /\ pc'[v] = "temp" => i'[v] = staged'[v] + 1
                      /\ pc'[v] \in {"clear", "undo"} => i'[v] \in 1 .. staged'[v]
    BY DEF TempInv
  <1>1. /\ staged[v] \in 0 .. Len(Plan[v])
        /\ pc[v] = "begin" => staged[v] = 0 /\ i[v] = 1
        /\ pc[v] = "temp" => i[v] = staged[v] + 1
        /\ pc[v] \in {"clear", "undo"} => i[v] \in 1 .. staged[v]
        /\ i[v] \in 1 .. Len(Plan[v]) /\ Len(Plan[v]) \in Nat
    BY DEF TempInv, StagingInv
  <1>2. CASE v # w
    <2>1. pc'[v] = pc[v] /\ i'[v] = i[v] /\ staged'[v] = staged[v]
      BY <1>2 DEF Call, Begin, StageFile, Drop, Look, Install, MoveOld, MoveNew, Restore,
         RemoveOld, TempFile, ClearTemp, RenameTemp, RemoveStale, Fault, Fail, TempFails,
         ClearFails, ClearNext, Interrupt, Kill, Go, Step
    <2> QED BY <1>1, <2>1
  <1>3. CASE v = w /\ TempFile(w)
    <2>1. /\ pc[w] = "temp" /\ staged'[w] = staged[w] + 1
          /\ i'[w] = IF cancelled[w] \/ i[w] = Len(Plan[w]) THEN 1 ELSE i[w] + 1
          /\ pc'[w] = IF cancelled[w] THEN "clear"
                      ELSE IF i[w] = Len(Plan[w]) THEN "rename" ELSE "temp"
      BY <1>3 DEF TempFile, At, AtLast, Go
    <2> QED BY <1>1, <1>3, <2>1
  <1>4. CASE v = w /\ (ClearTemp(w) \/ ClearFails(w))
    <2>1. pc[w] \in {"clear", "undo"} /\ staged' = staged /\ ClearNext(w)
      BY <1>4 DEF ClearTemp, ClearFails
    <2>2. CASE i[w] < staged[w]
      <3>1. i'[w] = i[w] + 1 /\ pc' = pc
        BY <2>1, <2>2 DEF ClearNext
      <3> QED BY <1>1, <1>4, <2>1, <2>2, <3>1
    <2>3. CASE ~(i[w] < staged[w])
      <3>1. pc'[w] \in {"interrupted", "failed"}
        BY <2>1, <2>3 DEF ClearNext, Go
      <3> QED BY <1>1, <1>4, <2>1, <3>1
    <2> QED BY <2>2, <2>3
  <1>5. CASE v = w /\ TempFails(w)
    <2>1. /\ staged' = staged /\ i'[w] = 1
          /\ pc'[w] = IF staged[w] = 0 THEN "failed" ELSE "undo"
      BY <1>5 DEF TempFails, Go
    <2> QED BY <1>1, <1>5, <2>1
  <1>6. CASE v = w /\ ~(TempFile(w) \/ ClearTemp(w) \/ ClearFails(w) \/ TempFails(w))
    <2>1. staged' = staged
      BY <1>6 DEF Call, Begin, StageFile, Drop, Look, Install, MoveOld, MoveNew, Restore,
         RemoveOld, RenameTemp, RemoveStale, Fault, Fail, Interrupt, Kill
    <2>2. CASE pc'[w] \in {"begin", "temp", "clear", "undo"}
      <3>1. /\ i'[w] = i[w]
            /\ pc'[w] = pc[w] \/ (pc[w] = "begin" /\ pc'[w] = "temp")
        BY <1>6, <2>2 DEF Call, Begin, StageFile, Drop, Look, Install, MoveOld, MoveNew,
           Restore, RemoveOld, RenameTemp, RemoveStale, Fault, Fail, OnError, Interrupt, Kill,
           Go, At, Calls
      <3> QED BY <1>1, <1>6, <2>1, <2>2, <3>1
    <2>3. CASE pc'[w] \notin {"begin", "temp", "clear", "undo"}
      BY <1>1, <1>6, <2>1, <2>3
    <2> QED BY <2>2, <2>3
  <1> QED BY <1>2, <1>3, <1>4, <1>5, <1>6

\* Only StageFile of its own process touches a staged set before it moves.
LEMMA StagingStep ==
  ASSUME IInv, NEW w \in Writers,
         Call(w) \/ Fault(w) \/ Interrupt(w) \/ Kill(w)
  PROVE  StagingInv'
  <1> USE DEF IInv, Types
  <1> SUFFICES ASSUME NEW v \in Writers
               PROVE  /\ pc'[v] = "begin" => i'[v] = 1 /\ new'[v] = NoDir
                      /\ pc'[v] = "stage" =>
                           new'[v] = IF i'[v] = 1 THEN NoDir ELSE Staged(v, i'[v])
                      /\ pc'[v] \in {"look", "install", "moveOld", "moveNew"} =>
                           new'[v] = Complete(v)
    BY DEF StagingInv
  <1>1. /\ pc[v] = "begin" => i[v] = 1 /\ new[v] = NoDir
        /\ pc[v] = "stage" => new[v] = IF i[v] = 1 THEN NoDir ELSE Staged(v, i[v])
        /\ pc[v] \in {"look", "install", "moveOld", "moveNew"} => new[v] = Complete(v)
    BY DEF StagingInv
  <1>2. CASE v # w
    <2>1. pc'[v] = pc[v] /\ i'[v] = i[v] /\ new'[v] = new[v]
      BY <1>2 DEF Call, Begin, StageFile, Drop, Look, Install, MoveOld, MoveNew, Restore,
         RemoveOld, TempFile, ClearTemp, RenameTemp, RemoveStale, Fault, Fail, TempFails, ClearFails, ClearNext, Interrupt, Kill, Go, Step
    <2> QED BY <1>1, <2>1
  <1>3. CASE v = w /\ StageFile(w)
    <2>1. /\ pc[w] = "stage"
          /\ new'[w] = [(IF new[w] = NoDir THEN Empty ELSE new[w]) EXCEPT ![Plan[w][i[w]]] = w]
          /\ i'[w] = IF i[w] = Len(Plan[w]) THEN 1 ELSE i[w] + 1
          /\ pc'[w] \in {"abandon", "look", "stage"}
          /\ pc'[w] = "look" => i[w] = Len(Plan[w])
          /\ pc'[w] = "stage" => i[w] # Len(Plan[w])
      BY <1>3, StepType DEF StageFile, At, AtLast, File, Go
    <2> DEFINE d == IF new[w] = NoDir THEN Empty ELSE new[w]
    <2>2. /\ d \in Dirs
          /\ d = IF i[w] = 1 THEN Empty ELSE Staged(w, i[w])
      <3>1. Staged(w, i[w]) \in Dirs
        BY DEF Staged, Dirs, Versions
      <3>2. new[w] = IF i[w] = 1 THEN NoDir ELSE Staged(w, i[w])
        BY <1>1, <1>3, <2>1
      <3>3. Staged(w, i[w]) # NoDir
        BY <3>1
      <3> QED BY <3>1, <3>2, <3>3, EmptyIsADir
    <2>3. /\ new'[w] = Staged(w, i[w] + 1)
          /\ i[w] = Len(Plan[w]) => new'[w] = Complete(w)
      <3> HIDE DEF d
      <3>1. new'[w] = [d EXCEPT ![Plan[w][i[w]]] = w]
        BY <2>1 DEF d
      <3> QED BY <2>2, <3>1, AllStaged
    <2>4. i[w] + 1 # 1
      OBVIOUS
    <2> QED BY <1>3, <2>1, <2>3, <2>4
  <1>4. CASE v = w /\ ~StageFile(w)
    <2>1. CASE pc'[w] \in {"begin", "stage"}
      <3>1. /\ pc'[w] = "begin" => pc[w] = "begin"
            /\ pc'[w] = "stage" => pc[w] \in {"begin", "stage"}
            /\ i'[w] = i[w] /\ new'[w] = new[w]
        BY <1>4, <2>1 DEF Call, Begin, Drop, Look, Install, MoveOld, MoveNew, Restore,
           RemoveOld, TempFile, ClearTemp, RenameTemp, RemoveStale, Fault, Fail, TempFails, ClearFails, ClearNext, OnError, Interrupt, Kill, Go, At
      <3> QED BY <1>1, <1>4, <2>1, <3>1
    <2>2. CASE pc'[w] \in {"look", "install", "moveOld", "moveNew"}
      <3>1. /\ pc[w] \in {"look", "install", "moveOld", "moveNew"}
            /\ new'[w] = new[w]
        BY <1>4, <2>2 DEF Call, Begin, Drop, Look, Install, MoveOld, MoveNew, Restore,
           RemoveOld, TempFile, ClearTemp, RenameTemp, RemoveStale, Fault, Fail, TempFails, ClearFails, ClearNext, OnError, Interrupt, Kill, Go, At
      <3> QED BY <1>1, <1>4, <2>2, <3>1
    <2> QED BY <1>4, <2>1, <2>2
  <1> QED BY <1>2, <1>3, <1>4

\* A process stays in the way of writing it began with.
LEMMA WayStep ==
  ASSUME IInv, NEW w \in Writers,
         Call(w) \/ Fault(w) \/ Interrupt(w) \/ Kill(w)
  PROVE  /\ \A v \in Writers : v # w => pc'[v] = pc[v]
         /\ pc'[w] \in SwapCalls => pc[w] \in SwapCalls \/ (Begin(w) /\ ~Kept)
         /\ pc'[w] \in InPlaceCalls =>
              pc[w] \in InPlaceCalls \/ (Begin(w) /\ Kept)
  <1> USE DEF IInv, Types
  <1>1. \A v \in Writers : v # w => pc'[v] = pc[v]
    BY DEF Call, Begin, StageFile, Drop, Look, Install, MoveOld, MoveNew, Restore,
       RemoveOld, TempFile, ClearTemp, RenameTemp, RemoveStale, Fault, Fail, TempFails, ClearFails, ClearNext, Interrupt, Kill, Go
  <1>2. CASE Begin(w)
    BY <1>1, <1>2 DEF Begin, Go, only_report_entries, Kept, SwapCalls, InPlaceCalls
  <1>3. CASE ~Begin(w)
    <2>1. /\ pc'[w] \in SwapCalls => pc[w] \in SwapCalls
          /\ pc'[w] \in InPlaceCalls => pc[w] \in InPlaceCalls
      BY <1>3 DEF Call, StageFile, Drop, Look, Install, MoveOld, MoveNew, Restore,
         RemoveOld, TempFile, ClearTemp, RenameTemp, RemoveStale, Fault, Fail, TempFails, ClearFails, ClearNext, OnError, Interrupt, Kill, Go, At,
         SwapCalls, InPlaceCalls, Calls
    <2> QED BY <1>1, <2>1
  <1> QED BY <1>2, <1>3

\* While one process updates the directory in place, none swaps it.
LEMMA ModeStep ==
  ASSUME IInv, NEW w \in Writers,
         Call(w) \/ Fault(w) \/ Interrupt(w) \/ Kill(w)
  PROVE  ModeInv'
  <1> USE DEF IInv, Types
  <1>1. CASE MoveOld(w) \/ Restore(w) \/ RemoveOld(w) \/ Install(w) \/ MoveNew(w)
    <2>1. pc[w] \in SwapCalls
      BY <1>1 DEF MoveOld, Restore, RemoveOld, Install, MoveNew, At, SwapCalls
    <2>2. ~foreign /\ \A v \in Writers : pc[v] \notin InPlaceCalls
      BY <2>1 DEF ModeInv
    <2>3. ~Begin(w)
      BY <2>1 DEF Begin, At, SwapCalls
    <2>4. ~foreign' /\ \A v \in Writers : pc'[v] \notin InPlaceCalls
      BY <2>2, <2>3, Fixed, WayStep
    <2>5. ASSUME saved' = "out" PROVE out' # NoDir
      <3>1. CASE MoveOld(w)
        BY <2>5, <3>1 DEF MoveOld, ModeInv, Kept
      <3>2. CASE Restore(w)
        BY <2>5, <3>2 DEF Restore, At, OldInv, ModeInv, Kept
      <3>3. CASE RemoveOld(w)
        BY <2>5, <3>3 DEF RemoveOld, ModeInv, Kept
      <3>4. CASE Install(w)
        <4>1. new[w] # NoDir
          BY <3>4, CompleteIsADir DEF Install, At, StagingInv
        <4> QED BY <2>5, <3>4, <4>1 DEF Install, whole, ModeInv, Kept
      <3>5. CASE MoveNew(w)
        <4>1. new[w] # NoDir
          BY <3>5, CompleteIsADir DEF MoveNew, At, StagingInv
        <4> QED BY <2>5, <3>5, <4>1 DEF MoveNew, whole, ModeInv, Kept
      <3> QED BY <1>1, <3>1, <3>2, <3>3, <3>4, <3>5
    <2> QED BY <2>4, <2>5 DEF ModeInv, Kept
  <1>2. CASE ~(MoveOld(w) \/ Restore(w) \/ RemoveOld(w) \/ Install(w) \/ MoveNew(w))
    <2>1. Kept' = Kept /\ foreign' = foreign
      BY <1>2, Fixed DEF Kept
    <2>2. ASSUME Kept PROVE out' # NoDir
      <3>1. out # NoDir /\ out \in Dirs
        BY <2>2 DEF ModeInv, DirOrNone
      <3>2. CASE RenameTemp(w)
        <4>1. out' = [out EXCEPT ![File(w)] = w]
          BY <3>2 DEF RenameTemp
        <4>2. out' \in Dirs
          BY <3>1, <4>1 DEF Dirs, Versions
        <4> QED BY <4>2
      <3>3. CASE RemoveStale(w)
        <4>1. out' = out \/ \E f \in Names : out' = [out EXCEPT ![f] = Absent]
          BY <3>3 DEF RemoveStale, Stale
        <4>2. out' \in Dirs
          BY <3>1, <4>1 DEF Dirs, Versions
        <4> QED BY <4>2
      <3>4. CASE ~(RenameTemp(w) \/ RemoveStale(w))
        BY <1>2, <3>1, <3>4 DEF Call, Begin, StageFile, Drop, Look, TempFile, ClearTemp, Fault, Fail, TempFails, ClearFails, ClearNext, Interrupt, Kill
      <3> QED BY <3>2, <3>3, <3>4
    <2>3. ASSUME foreign, NEW v \in Writers PROVE pc'[v] \notin SwapCalls
      BY <2>3, WayStep DEF ModeInv, Kept
    <2>4. ASSUME NEW v \in Writers, pc'[v] \in InPlaceCalls, NEW u \in Writers
          PROVE  Kept /\ pc'[u] \notin SwapCalls
      <3>1. CASE pc[v] \in InPlaceCalls
        <4>1. Kept /\ \A x \in Writers : pc[x] \notin SwapCalls
          BY <3>1 DEF ModeInv
        <4> QED BY <4>1, WayStep
      <3>2. CASE pc[v] \notin InPlaceCalls
        <4>1. v = w /\ Begin(w) /\ Kept
          BY <2>4, <3>2, WayStep
        <4>2. \A x \in Writers : pc[x] \notin SwapCalls
          BY <4>1 DEF Begin, Kept, ModeInv
        <4> QED BY <4>1, <4>2, WayStep
      <3> QED BY <3>1, <3>2
    <2> QED BY <2>1, <2>2, <2>3, <2>4 DEF ModeInv
  <1> QED BY <1>1, <1>2

\* What is moved aside is what a reader saw, and nobody else touches it.
LEMMA OldStep ==
  ASSUME IInv, NEW w \in Writers,
         Call(w) \/ Fault(w) \/ Interrupt(w) \/ Kill(w)
  PROVE  OldInv'
  <1> USE DEF IInv, Types
  <1>1. Sets' = Sets /\ (saved' = "never" => saved = "never")
    BY Fixed
  <1> SUFFICES ASSUME NEW v \in Writers
               PROVE  /\ pc'[v] \in {"moveNew", "restore"} /\ saved' = "never" => old'[v] \in Sets
                      /\ pc'[v] \in {"moveNew", "restore", "removeOld"} => old'[v] # NoDir
    BY <1>1 DEF OldInv
  <1>2. /\ pc[v] \in {"moveNew", "restore"} /\ saved = "never" => old[v] \in Sets
        /\ pc[v] \in {"moveNew", "restore", "removeOld"} => old[v] # NoDir
    BY DEF OldInv
  <1>3. CASE v # w
    <2>1. pc'[v] = pc[v] /\ old'[v] = old[v]
      BY <1>3 DEF Call, Begin, StageFile, Drop, Look, Install, MoveOld, MoveNew, Restore,
         RemoveOld, TempFile, ClearTemp, RenameTemp, RemoveStale, Fault, Fail, TempFails, ClearFails, ClearNext, Interrupt, Kill, Go
    <2> QED BY <1>1, <1>2, <2>1
  <1>4. CASE v = w /\ MoveOld(w)
    <2>1. ~foreign
      BY <1>4 DEF MoveOld, At, ModeInv, SwapCalls
    <2>2. saved = "never" => out \in Sets \cup {NoDir}
      BY <2>1 DEF NeverAMix, ReportsOnly
    <2>3. pc'[w] = "drop" \/ (pc'[w] = "moveNew" /\ old'[w] = out /\ out # NoDir)
      BY <1>4 DEF MoveOld, Go
    <2> QED BY <1>1, <1>4, <2>2, <2>3
  <1>5. CASE v = w /\ RemoveOld(w)
    <2>1. CASE old[w] = Empty
      <3>1. pc'[w] = "ok"
        BY <1>5, <2>1 DEF RemoveOld, Go
      <3> QED BY <1>5, <3>1
    <2>2. CASE old[w] # Empty
      <3>1. pc[w] = "removeOld" /\ pc'[w] = "removeOld" /\ old[w] \in Dirs
        BY <1>2, <1>5, <2>2 DEF RemoveOld, At, DirOrNone
      <3>2. PICK f \in Names : old' = [old EXCEPT ![w][f] = Absent]
        BY <1>5, <2>2 DEF RemoveOld
      <3>3. old'[w] \in Dirs
        BY <3>1, <3>2 DEF Dirs, Versions
      <3> QED BY <1>5, <3>1, <3>3
    <2> QED BY <2>1, <2>2
  <1>6. CASE v = w /\ ~MoveOld(w) /\ ~RemoveOld(w)
    <2>1. CASE pc'[w] \in {"moveNew", "restore", "removeOld"}
      <3>1. /\ old'[w] = old[w]
            /\ pc[w] \in {"moveNew", "restore", "removeOld"}
            /\ pc'[w] \in {"moveNew", "restore"} => pc[w] \in {"moveNew", "restore"}
        BY <1>6, <2>1 DEF Call, Begin, StageFile, Drop, Look, Install, MoveNew, Restore,
           TempFile, ClearTemp, RenameTemp, RemoveStale, Fault, Fail, TempFails, ClearFails, ClearNext, OnError, Interrupt, Kill, Go, At
      <3> QED BY <1>1, <1>2, <1>6, <3>1
    <2> QED BY <1>6, <2>1
  <1> QED BY <1>3, <1>4, <1>5, <1>6

\* A reader's directory changes only by a rename: of a complete staged set, of
\* the set that was moved aside, or away.
LEMMA MixStep ==
  ASSUME IInv, NEW w \in Writers,
         Call(w) \/ Fault(w) \/ Interrupt(w) \/ Kill(w)
  PROVE  NeverAMix'
  <1> USE DEF IInv
  <1>1. foreign' = foreign /\ Sets' = Sets /\ (saved' = "never" => saved = "never")
    BY Fixed
  <1> SUFFICES ASSUME ReportsOnly PROVE out' \in Sets \cup {NoDir}
    BY <1>1 DEF NeverAMix, ReportsOnly
  <1>2. out \in Sets \cup {NoDir}
    BY DEF NeverAMix
  <1>3. CASE Install(w) \/ MoveNew(w)
    <2>1. new[w] = Complete(w)
      BY <1>3 DEF Install, MoveNew, At, StagingInv
    <2>2. out' = new[w] \/ out' = out
      BY <1>3 DEF Install, MoveNew
    <2> QED BY <1>2, <2>1, <2>2, CompleteIsADir
  <1>4. CASE Restore(w)
    <2>1. old[w] \in Sets
      BY <1>4 DEF Restore, At, OldInv, ReportsOnly
    <2> QED BY <1>2, <1>4, <2>1 DEF Restore
  <1>5. CASE MoveOld(w)
    BY <1>2, <1>5 DEF MoveOld
  <1>6. CASE ~(Install(w) \/ MoveNew(w) \/ Restore(w) \/ MoveOld(w))
    <2>1. pc[w] \notin InPlaceCalls
      BY DEF ModeInv, Kept, ReportsOnly
    <2>2. out' = out
      BY <1>6, <2>1 DEF Call, Begin, StageFile, Drop, Look, RemoveOld, TempFile, ClearTemp, RenameTemp,
         RemoveStale, Fault, Fail, TempFails, ClearFails, ClearNext, Interrupt, Kill, At, InPlaceCalls
    <2> QED BY <1>2, <2>2
  <1> QED BY <1>3, <1>4, <1>5, <1>6

\* The user's file takes nothing away.
LEMMA SaveStep ==
  ASSUME IInv, Save
  PROVE  IInv'
  <1> USE DEF IInv
  <1>1. Types'
    BY DEF Save, fixed, Types
  <1>2. ModeInv' /\ StagingInv' /\ TempInv' /\ OldInv' /\ NeverAMix'
    BY DEF Save, fixed, ModeInv, Kept, StagingInv, TempInv, OldInv, NeverAMix, ReportsOnly
  <1> QED BY <1>1, <1>2

\* Every step keeps the inductive invariant.
LEMMA NextIInv == IInv /\ [Next]_vars => IInv'
  <1> SUFFICES ASSUME IInv, [Next]_vars PROVE IInv'
    OBVIOUS
  <1>1. CASE Next
    <2>0. CASE Save
      BY <2>0, SaveStep
    <2>1. CASE \E w \in Writers : Call(w) \/ Fault(w) \/ Interrupt(w) \/ Kill(w)
      <3>1. PICK w \in Writers : Call(w) \/ Fault(w) \/ Interrupt(w) \/ Kill(w)
        BY <2>1
      <3>2. Types'
        BY <3>1, TypesStep DEF IInv
      <3>3. ModeInv' /\ StagingInv' /\ TempInv' /\ OldInv' /\ NeverAMix'
        BY <3>1, ModeStep, StagingStep, TempStep, OldStep, MixStep
      <3> QED BY <3>2, <3>3 DEF IInv
    <2> QED BY <1>1, <2>0, <2>1 DEF Next
  <1>2. CASE UNCHANGED vars
    BY <1>2 DEF vars, IInv, Types, ModeInv, Kept, StagingInv, TempInv, OldInv, NeverAMix, ReportsOnly,
       Sets, Complete
  <1> QED BY <1>1, <1>2

\* The inductive invariant of the writers: what each has staged, what each has
\* set aside, and that a reader sees one set (set.rs:377-427).
THEOREM Invariant == Spec => []IInv
  <1>1. Init => IInv
    BY InitIInv
  <1>2. IInv /\ [Next]_vars => IInv'
    BY NextIInv
  <1> QED BY <1>1, <1>2, PTL DEF Spec

\* Every variable keeps its type, however many processes write.
THEOREM TypeCorrect == Spec => []TypeOK
  <1>1. IInv => TypeOK
    BY DEF IInv, Types, TempInv, TypeOK, DirOrNone
  <1> QED BY <1>1, Invariant, PTL

\* A reader of a swapped directory sees one complete set or no directory, with
\* any number of processes, kills and failing calls (set.rs:8-11).
THEOREM ReaderSeesOneSet == Spec => []NeverAMix
  <1>1. IInv => NeverAMix
    BY DEF IInv
  <1> QED BY <1>1, Invariant, PTL

----------------------------------------------------------------------------
\* While there was a set at the start, it or a new one is in its place, or one
\* is aside and not being removed.
Safe ==
  \/ out \in Sets \ {NoDir}
  \/ \E v \in Writers : old[v] \in Sets \ {NoDir} /\ pc[v] # "removeOld"

SurvivalInv == ReportsOnly /\ first # NoDir => Safe

\* A set goes aside only to where it can be put back from, and is removed only
\* when another took its place.
LEMMA SurvivalStep ==
  ASSUME IInv, SurvivalInv, NEW w \in Writers,
         Call(w) \/ Fault(w) \/ Interrupt(w) \/ Kill(w)
  PROVE  SurvivalInv'
  <1> USE DEF IInv, Types
  <1>1. /\ foreign' = foreign /\ first' = first /\ Sets' = Sets
        /\ saved' = "never" => saved = "never"
    BY Fixed
  <1> SUFFICES ASSUME ReportsOnly, Safe PROVE Safe'
    BY <1>1 DEF SurvivalInv, ReportsOnly
  <1>2. out \in Sets \cup {NoDir}
    BY DEF NeverAMix
  <1>3. CASE Install(w) /\ out' # out
    <2>1. out' = Complete(w)
      BY <1>3 DEF Install, At, StagingInv
    <2> QED BY <1>1, <2>1, CompleteIsADir DEF Safe
  <1>4. CASE MoveNew(w) /\ out' # out
    <2>1. out' = Complete(w)
      BY <1>4 DEF MoveNew, At, StagingInv
    <2> QED BY <1>1, <2>1, CompleteIsADir DEF Safe
  <1>5. CASE Restore(w) /\ out' # out
    <2>1. out' = old[w] /\ old[w] \in Sets \ {NoDir}
      BY <1>5 DEF Restore, At, OldInv, ReportsOnly
    <2> QED BY <1>1, <2>1 DEF Safe
  <1>6. CASE MoveOld(w) /\ out' # out
    <2>1. old'[w] = out /\ out # NoDir /\ pc'[w] = "moveNew"
      BY <1>6 DEF MoveOld, Go
    <2> QED BY <1>1, <1>2, <2>1 DEF Safe
  <1>7. CASE out' = out
    <2>1. CASE out \in Sets \ {NoDir}
      BY <1>1, <1>7, <2>1 DEF Safe
    <2>2. CASE out \notin Sets \ {NoDir}
      <3>1. PICK v \in Writers : old[v] \in Sets \ {NoDir} /\ pc[v] # "removeOld"
        BY <2>2 DEF Safe
      <3>2. CASE v # w
        <4>1. pc'[v] = pc[v] /\ old'[v] = old[v]
          BY <3>2 DEF Call, Begin, StageFile, Drop, Look, Install, MoveOld, MoveNew, Restore,
             RemoveOld, TempFile, ClearTemp, RenameTemp, RemoveStale, Fault, Fail, TempFails, ClearFails, ClearNext, Interrupt, Kill, Go
        <4> QED BY <1>1, <3>1, <4>1 DEF Safe
      <3>3. CASE v = w
        <4>1. out = NoDir
          BY <1>2, <2>2
        <4>2. old'[w] = old[w]
          BY <1>7, <3>1, <3>3, <4>1 DEF Call, Begin, StageFile, Drop, Look, Install, MoveOld,
             MoveNew, Restore, RemoveOld, TempFile, ClearTemp, RenameTemp, RemoveStale, Fault, Fail, TempFails, ClearFails, ClearNext, Interrupt,
             Kill, Free, At
        <4>3. CASE MoveNew(w)
          <5>1. new[w] = Complete(w) /\ out' = new[w]
            BY <4>1, <4>3 DEF MoveNew, At, StagingInv, Free
          <5> QED BY <1>1, <5>1, CompleteIsADir DEF Safe
        <4>4. CASE ~MoveNew(w)
          <5>1. pc'[w] # "removeOld"
            BY <3>1, <3>3, <4>4 DEF Call, Begin, StageFile, Drop, Look, Install, MoveOld,
               Restore, RemoveOld, TempFile, ClearTemp, RenameTemp, RemoveStale, Fault, Fail, TempFails, ClearFails, ClearNext, OnError,
               Interrupt, Kill, Go, At
          <5> QED BY <1>1, <3>1, <3>3, <4>2, <5>1 DEF Safe
        <4> QED BY <4>3, <4>4
      <3> QED BY <3>2, <3>3
    <2> QED BY <2>1, <2>2
  <1>8. CASE out' # out /\ ~(Install(w) \/ MoveNew(w) \/ Restore(w) \/ MoveOld(w))
    <2>1. pc[w] \notin InPlaceCalls
      BY DEF ModeInv, Kept, ReportsOnly
    <2>2. out' = out
      BY <1>8, <2>1 DEF Call, Begin, StageFile, Drop, Look, RemoveOld, TempFile, ClearTemp, RenameTemp,
         RemoveStale, Fault, Fail, TempFails, ClearFails, ClearNext, Interrupt, Kill, At, InPlaceCalls
    <2> QED BY <1>8, <2>2
  <1> QED BY <1>3, <1>4, <1>5, <1>6, <1>7, <1>8

\* What was there or a complete new set is on the disk after any number of
\* kills and failing calls of any number of processes (set.rs:377-428).
THEOREM ASetSurvives == Spec => []SomeSetSurvives
  <1>1. Init => SurvivalInv
    BY DEF Init, SurvivalInv, ReportsOnly, Safe, Sets
  <1>2. IInv /\ SurvivalInv /\ [Next]_vars => SurvivalInv'
    <2> SUFFICES ASSUME IInv, SurvivalInv, [Next]_vars PROVE SurvivalInv'
      OBVIOUS
    <2>1. CASE \E w \in Writers : Call(w) \/ Fault(w) \/ Interrupt(w) \/ Kill(w)
      BY <2>1, SurvivalStep
    <2>2. CASE Save
      BY <2>2 DEF Save, SurvivalInv, ReportsOnly
    <2>3. CASE UNCHANGED vars
      BY <2>3 DEF vars, SurvivalInv, ReportsOnly, Safe, Sets, Complete
    <2> QED BY <2>1, <2>2, <2>3 DEF Next
  <1>3. SurvivalInv => SomeSetSurvives
    BY DEF SurvivalInv, ReportsOnly, Safe, SomeSetSurvives
  <1> QED BY <1>1, <1>2, <1>3, Invariant, PTL DEF Spec

----------------------------------------------------------------------------
\* What a writer has under temporary names and aside, by the call it is at.
Tidy(w) ==
  /\ pc[w] \in {"temp", "clear", "rename"} => new[w] = NoDir /\ old[w] = NoDir
  /\ pc[w] \in {"begin", "stage", "look", "install", "moveOld", "abandon", "stale",
                "ok", "interrupted"} => old[w] = NoDir
  /\ pc[w] \in {"begin", "stale", "removeOld", "ok"} => new[w] = NoDir
  /\ pc[w] \in SwapCalls \cup {"begin", "stale", "ok"} => temp[w] = {}
  /\ pc[w] = "interrupted" /\ faults = 0 => new[w] = NoDir /\ temp[w] = {}
  /\ pc[w] = "temp" => temp[w] \subseteq {Plan[w][k] : k \in 1 .. staged[w]}
  /\ pc[w] = "clear" /\ faults = 0 =>
       temp[w] \subseteq {Plan[w][k] : k \in i[w] .. staged[w]}
  /\ pc[w] = "rename" =>
       temp[w] \subseteq {Plan[w][k] : k \in i[w] .. Len(Plan[w])}

TidyInv == \A w \in Writers : Tidy(w)

\* The index of the file after the last one that writer w has renamed.
Renamed(w) == IF At(w, "stale") THEN Len(Plan[w]) + 1 ELSE i[w]

\* What the directory is while one process has called anything.
AloneInv ==
  \A w \in Writers : Alone(w) =>
    /\ pc[w] \in {"begin", "stage", "look", "install", "moveOld", "abandon", "temp",
                  "clear", "interrupted"} => out = first
    /\ pc[w] = "removeOld" => out = Complete(w)
    /\ pc[w] \in {"rename", "stale"} =>
         \A k \in 1 .. Renamed(w) - 1 : out[Plan[w][k]] = w
    /\ At(w, "ok") =>
         \A f \in IF ReportsOnly THEN Names ELSE Names \ Copies : out[f] = Complete(w)[f]

\* The last file of a set is not in the directory before the other ones.
LastInv ==
  /\ first # NoDir => \A f \in Names : first[f] \in {Before, Absent}
  /\ foreign => \A w \in Writers :
       Alone(w) =>
         /\ out[Plan[w][Len(Plan[w])]] = w => \A f \in ToSet(Plan[w]) : out[f] = w
         /\ pc[w] = "rename" => out[Plan[w][Len(Plan[w])]] # w

\* A call of one writer leaves what the others have as it is.
LEMMA OthersKeep ==
  ASSUME Types, NEW w \in Writers, Call(w) \/ Fault(w) \/ Interrupt(w) \/ Kill(w),
         NEW v \in Writers, v # w
  PROVE  /\ pc'[v] = pc[v] /\ i'[v] = i[v] /\ new'[v] = new[v] /\ old'[v] = old[v]
         /\ temp'[v] = temp[v] /\ staged'[v] = staged[v]
  <1> USE DEF Types
  <1>1. pc'[v] = pc[v]
    BY DEF Call, Begin, StageFile, Drop, Look, Install, MoveOld, MoveNew, Restore,
       RemoveOld, TempFile, ClearTemp, RenameTemp, RemoveStale, Fault, Fail, TempFails, ClearFails, ClearNext, Interrupt, Kill, Go
  <1>2. i'[v] = i[v]
    BY DEF Call, Begin, StageFile, Drop, Look, Install, MoveOld, MoveNew, Restore,
       RemoveOld, TempFile, ClearTemp, RenameTemp, RemoveStale, Fault, Fail, TempFails, ClearFails, ClearNext, Interrupt, Kill, Step
  <1>3. new'[v] = new[v]
    BY DEF Call, Begin, StageFile, Drop, Look, Install, MoveOld, MoveNew, Restore,
       RemoveOld, TempFile, ClearTemp, RenameTemp, RemoveStale, Fault, Fail, TempFails, ClearFails, ClearNext, Interrupt, Kill
  <1>4. old'[v] = old[v]
    BY DEF Call, Begin, StageFile, Drop, Look, Install, MoveOld, MoveNew, Restore,
       RemoveOld, TempFile, ClearTemp, RenameTemp, RemoveStale, Fault, Fail, TempFails, ClearFails, ClearNext, Interrupt, Kill
  <1>5. temp'[v] = temp[v]
    BY DEF Call, Begin, StageFile, Drop, Look, Install, MoveOld, MoveNew, Restore,
       RemoveOld, TempFile, ClearTemp, RenameTemp, RemoveStale, Fault, Fail, TempFails, ClearFails, ClearNext, Interrupt, Kill
  <1>6. staged'[v] = staged[v]
    BY DEF Call, Begin, StageFile, Drop, Look, Install, MoveOld, MoveNew, Restore,
       RemoveOld, TempFile, ClearTemp, RenameTemp, RemoveStale, Fault, Fail, TempFails,
       ClearFails, ClearNext, Interrupt, Kill
  <1> QED BY <1>1, <1>2, <1>3, <1>4, <1>5, <1>6

\* No step takes a failure back.
LEMMA FaultsGrow ==
  ASSUME Types, NEW w \in Writers, Call(w) \/ Fault(w) \/ Interrupt(w) \/ Kill(w)
  PROVE  faults' = 0 => faults = 0
  <1>1. CASE Fault(w)
    BY <1>1 DEF Types, Fault, Fail, TempFails, ClearFails
  <1>2. CASE Call(w) \/ Interrupt(w) \/ Kill(w)
    BY <1>2 DEF Call, Begin, StageFile, Drop, Look, Install, MoveOld, MoveNew, Restore,
       RemoveOld, TempFile, ClearTemp, RenameTemp, RemoveStale, Interrupt, Kill
  <1> QED BY <1>1, <1>2

\* Every way to an end of a writer clears what it had aside and, when no call
\* fails, what it had staged and under temporary names.
LEMMA TidyStep ==
  ASSUME IInv, TidyInv, NEW w \in Writers,
         Call(w) \/ Fault(w) \/ Interrupt(w) \/ Kill(w)
  PROVE  TidyInv'
  <1>0. faults' = 0 => faults = 0
    BY FaultsGrow DEF IInv
  <1>1. ASSUME NEW v \in Writers, v # w PROVE Tidy(v)'
    <2>1. pc'[v] = pc[v] /\ i'[v] = i[v] /\ new'[v] = new[v] /\ old'[v] = old[v]
          /\ temp'[v] = temp[v] /\ staged'[v] = staged[v] /\ (faults' = 0 => faults = 0)
      BY <1>1, <1>0, OthersKeep DEF IInv
    <2>2. Tidy(v)
      BY DEF TidyInv
    <2> QED BY <2>1, <2>2 DEF Tidy
  <1> USE DEF IInv, Types
  <1>2. Tidy(w)
    BY DEF TidyInv
  <1> SUFFICES Tidy(w)'
    BY <1>1 DEF TidyInv
  <1> USE DEF At, Go, SwapCalls
  <1>3. CASE Begin(w)
    BY <1>2, <1>3 DEF Begin, Tidy
  <1>4. CASE StageFile(w) \/ Look(w) \/ Drop(w)
    BY <1>2, <1>4 DEF StageFile, Look, Drop, Tidy
  <1>5. CASE Install(w) \/ MoveOld(w) \/ MoveNew(w)
    BY <1>2, <1>5 DEF Install, MoveOld, MoveNew, Tidy
  <1>6. CASE Restore(w) \/ RemoveOld(w)
    BY <1>2, <1>6 DEF Restore, RemoveOld, Tidy
  <1>7. Plan[w] \in Seq(Names) /\ i[w] \in 1 .. Len(Plan[w]) /\ Len(Plan[w]) \in Nat
    OBVIOUS
  <1>8. CASE TempFile(w)
    <2>1. /\ pc[w] = "temp" /\ new'[w] = NoDir /\ old'[w] = NoDir
          /\ i[w] = staged[w] + 1 /\ staged'[w] = staged[w] + 1
      BY <1>2, <1>8 DEF TempFile, Tidy, TempInv
    <2>2. temp'[w] = temp[w] \cup {Plan[w][i[w]]}
      BY <1>8 DEF TempFile, File
    <2>3. temp'[w] \subseteq {Plan[w][k] : k \in 1 .. staged[w] + 1}
      BY <1>2, <1>7, <2>1, <2>2 DEF Tidy
    <2>4. CASE cancelled[w]
      <3>1. pc'[w] = "clear" /\ i'[w] = 1
        BY <1>8, <2>4 DEF TempFile
      <3> QED BY <2>1, <2>3, <3>1 DEF Tidy
    <2>5. CASE ~cancelled[w] /\ AtLast(w)
      <3>1. pc'[w] = "rename" /\ i'[w] = 1
        BY <1>8, <2>5 DEF TempFile
      <3>2. staged[w] + 1 = Len(Plan[w])
        BY <2>1, <2>5 DEF AtLast
      <3> QED BY <2>1, <2>3, <3>1, <3>2 DEF Tidy
    <2>6. CASE ~cancelled[w] /\ ~AtLast(w)
      <3>1. pc'[w] = "temp"
        BY <1>8, <2>6 DEF TempFile
      <3> QED BY <2>1, <2>3, <3>1 DEF Tidy
    <2> QED BY <2>4, <2>5, <2>6
  <1>8a. CASE ClearTemp(w)
    <2>1. /\ pc[w] \in {"clear", "undo"} /\ temp'[w] = temp[w] \ {Plan[w][i[w]]}
          /\ staged' = staged /\ new' = new /\ old' = old /\ faults' = faults
          /\ i[w] \in 1 .. staged[w] /\ staged[w] \in Nat
      BY <1>8a DEF ClearTemp, File, TempInv
    <2>2. CASE pc[w] = "clear"
      <3>1. ASSUME faults = 0, NEW f \in temp'[w]
            PROVE  \E k \in i[w] + 1 .. staged[w] : f = Plan[w][k]
        <4>1. PICK k \in i[w] .. staged[w] : f = Plan[w][k]
          BY <1>2, <2>1, <2>2, <3>1 DEF Tidy
        <4>2. k # i[w]
          BY <2>1, <3>1, <4>1
        <4> QED BY <2>1, <4>1, <4>2
      <3>2. new'[w] = NoDir /\ old'[w] = NoDir
        BY <1>2, <2>1, <2>2 DEF Tidy
      <3>3. CASE i[w] < staged[w]
        <4>1. pc'[w] = "clear" /\ i'[w] = i[w] + 1
          BY <1>8a, <2>2, <3>3 DEF ClearTemp, ClearNext
        <4>2. faults = 0 => temp'[w] \subseteq {Plan[w][k] : k \in i[w] + 1 .. staged[w]}
          BY <3>1
        <4> QED BY <2>1, <3>2, <4>1, <4>2 DEF Tidy
      <3>4. CASE ~(i[w] < staged[w])
        <4>1. pc'[w] = "interrupted"
          BY <1>8a, <2>2, <3>4 DEF ClearTemp, ClearNext
        <4>2. faults = 0 => temp'[w] = {}
          BY <2>1, <3>1, <3>4
        <4> QED BY <2>1, <3>2, <4>1, <4>2 DEF Tidy
      <3> QED BY <3>3, <3>4
    <2>3. CASE pc[w] = "undo"
      <3>1. pc'[w] \in {"undo", "failed"}
        BY <1>8a, <2>3 DEF ClearTemp, ClearNext
      <3> QED BY <3>1 DEF Tidy
    <2> QED BY <2>1, <2>2, <2>3
  <1>8b. CASE ClearFails(w) \/ TempFails(w)
    <2>1. /\ faults' # 0 /\ new' = new /\ old' = old
          /\ pc'[w] \in {"clear", "undo", "interrupted", "failed"}
          /\ pc'[w] \in {"clear", "interrupted"} => pc[w] = "clear"
      BY <1>8b DEF ClearFails, TempFails, ClearNext
    <2> QED BY <1>2, <2>1 DEF Tidy
  <1>9. CASE RenameTemp(w)
    <2>1. pc[w] = "rename" /\ new'[w] = NoDir /\ old'[w] = NoDir
      BY <1>2, <1>9 DEF RenameTemp, Tidy
    <2>2. temp'[w] = temp[w] \ {Plan[w][i[w]]}
      BY <1>9 DEF RenameTemp, File
    <2>3. temp'[w] \subseteq {Plan[w][k] : k \in i[w] + 1 .. Len(Plan[w])}
      <3>1. ASSUME NEW f \in temp'[w]
            PROVE  \E k \in i[w] + 1 .. Len(Plan[w]) : f = Plan[w][k]
        <4>1. PICK k \in i[w] .. Len(Plan[w]) : f = Plan[w][k]
          BY <1>2, <2>1, <2>2, <3>1 DEF Tidy
        <4>2. k # i[w]
          BY <2>2, <3>1, <4>1
        <4> QED BY <1>7, <4>1, <4>2
      <3> QED BY <3>1
    <2>4. CASE AtLast(w)
      <3>1. pc'[w] = "stale"
        BY <1>9, <2>4 DEF RenameTemp
      <3>2. temp'[w] = {}
        BY <1>7, <2>3, <2>4 DEF AtLast
      <3> QED BY <2>1, <3>1, <3>2 DEF Tidy
    <2>5. CASE ~AtLast(w)
      <3>1. pc'[w] = "rename" /\ i'[w] = i[w] + 1
        BY <1>9, <2>5 DEF RenameTemp, Step
      <3> QED BY <2>1, <2>3, <3>1 DEF Tidy
    <2> QED BY <2>4, <2>5
  <1>10. CASE RemoveStale(w)
    BY <1>2, <1>10 DEF RemoveStale, Tidy
  <1>11. CASE Fail(w)
    <2>1. faults' # 0
      BY <1>11 DEF Fail
    <2> QED BY <1>2, <1>11, <2>1 DEF Fail, OnError, Tidy, Calls
  <1>12. CASE Interrupt(w)
    BY <1>2, <1>12 DEF Interrupt, Tidy
  <1>13. CASE Kill(w)
    BY <1>2, <1>13 DEF Kill, Tidy
  <1> QED BY <1>3, <1>4, <1>5, <1>6, <1>8, <1>8a, <1>8b, <1>9, <1>10, <1>11,
             <1>12, <1>13 DEF Call, Fault

\* No call leads back to the first one.
LEMMA NeverBegins ==
  ASSUME Types, NEW w \in Writers, Call(w) \/ Fault(w) \/ Interrupt(w) \/ Kill(w),
         pc'[w] = "begin"
  PROVE  UNCHANGED <<out, pc, i, saved, foreign>>
  <1> USE DEF Types, At, Go
  <1>1. Interrupt(w)
    BY DEF Call, Begin, StageFile, Drop, Look, Install, MoveOld, MoveNew, Restore,
       RemoveOld, TempFile, ClearTemp, RenameTemp, RemoveStale, Fault, Fail, TempFails, ClearFails, ClearNext, OnError, Kill, Calls
  <1> QED BY <1>1 DEF Interrupt, whole

\* What AloneInv says of one writer.
AloneIs(w) ==
  /\ pc[w] \in {"begin", "stage", "look", "install", "moveOld", "abandon", "temp",
                "clear", "interrupted"} => out = first
  /\ pc[w] = "removeOld" => out = Complete(w)
  /\ pc[w] \in {"rename", "stale"} =>
       \A k \in 1 .. Renamed(w) - 1 : out[Plan[w][k]] = w
  /\ At(w, "ok") =>
       \A f \in IF ReportsOnly THEN Names ELSE Names \ Copies : out[f] = Complete(w)[f]

\* A step of another writer after which w is alone changes nothing w's state
\* is compared with.
LEMMA AloneStays ==
  ASSUME Types, NEW w \in Writers, Call(w) \/ Fault(w) \/ Interrupt(w) \/ Kill(w),
         NEW v \in Writers, Alone(v)'
  PROVE  /\ Alone(v)
         /\ v # w => UNCHANGED <<out, pc, i, saved, foreign>>
  <1>1. CASE v = w
    <2>1. \A x \in Writers \ {w} : pc'[x] = pc[x]
      BY OthersKeep
    <2> QED BY <1>1, <2>1 DEF Alone, At
  <1>2. CASE v # w
    <2>1. pc'[w] = "begin"
      BY <1>2 DEF Alone, At
    <2>2. UNCHANGED <<out, pc, i, saved, foreign>>
      BY <2>1, NeverBegins
    <2> QED BY <2>2 DEF Alone, At
  <1> QED BY <1>1, <1>2

\* A writer that is alone goes from what was there to its own set.
LEMMA AloneStep ==
  ASSUME IInv, AloneInv, NEW w \in Writers,
         Call(w) \/ Fault(w) \/ Interrupt(w) \/ Kill(w)
  PROVE  AloneInv'
  <1>0. first' = first /\ foreign' = foreign /\ (ReportsOnly' => ReportsOnly)
    BY Fixed DEF ReportsOnly
  <1>1. ASSUME NEW v \in Writers, Alone(v)', v # w PROVE AloneIs(v)'
    <2>1. Alone(v) /\ UNCHANGED <<out, pc, i, saved, foreign>>
      BY <1>1, AloneStays DEF IInv
    <2>2. AloneIs(v)
      BY <2>1 DEF AloneInv, AloneIs
    <2> QED BY <1>0, <2>1, <2>2 DEF AloneIs, Renamed, At, ReportsOnly, Complete
  <1> SUFFICES ASSUME Alone(w)' PROVE AloneIs(w)'
    BY <1>1 DEF AloneInv, AloneIs
  <1>2. AloneIs(w)
    <2>1. Alone(w)
      BY AloneStays DEF IInv
    <2> QED BY <2>1 DEF AloneInv, AloneIs
  <1> USE DEF IInv, Types, At, Go
  <1>3. CASE Begin(w)
    BY <1>0, <1>2, <1>3 DEF Begin, AloneIs
  <1>4. CASE StageFile(w) \/ Look(w) \/ Drop(w)
    BY <1>0, <1>2, <1>4 DEF StageFile, Look, Drop, AloneIs
  <1>5. CASE Install(w) \/ MoveOld(w) \/ MoveNew(w)
    <2>1. pc[w] \in {"install", "moveNew"} => new[w] = Complete(w)
      BY DEF StagingInv
    <2>2. CASE Install(w)
      BY <1>0, <1>2, <2>1, <2>2 DEF Install, AloneIs, Complete
    <2>3. CASE MoveOld(w)
      BY <1>0, <1>2, <2>3 DEF MoveOld, AloneIs
    <2>4. CASE MoveNew(w)
      BY <1>0, <1>2, <2>1, <2>4 DEF MoveNew, AloneIs, Complete
    <2> QED BY <1>5, <2>2, <2>3, <2>4
  <1>6. CASE Restore(w) \/ RemoveOld(w)
    BY <1>0, <1>2, <1>6 DEF Restore, RemoveOld, AloneIs, Complete
  <1>7. Plan[w] \in Seq(Names) /\ i[w] \in 1 .. Len(Plan[w]) /\ Len(Plan[w]) \in Nat
    OBVIOUS
  <1>8. CASE TempFile(w)
    <2>1. pc[w] = "temp" /\ out' = out /\ pc'[w] \in {"clear", "rename", "temp"}
      BY <1>8 DEF TempFile
    <2>2. pc'[w] = "rename" => i'[w] = 1
      BY <1>8 DEF TempFile
    <2> QED BY <1>0, <1>2, <2>1, <2>2 DEF AloneIs, Renamed
  <1>8a. CASE ClearTemp(w) \/ ClearFails(w) \/ TempFails(w)
    <2>1. /\ out' = out /\ pc'[w] \in {"clear", "undo", "interrupted", "failed"}
          /\ pc'[w] \in {"clear", "interrupted"} => pc[w] = "clear"
      BY <1>8a DEF ClearTemp, ClearFails, TempFails, ClearNext
    <2> QED BY <1>0, <1>2, <2>1 DEF AloneIs
  <1>9. CASE RenameTemp(w)
    <2>1. pc[w] = "rename" /\ pc'[w] \in {"rename", "stale"}
      BY <1>9 DEF RenameTemp
    <2>2. Renamed(w)' = i[w] + 1
      BY <1>7, <1>9 DEF RenameTemp, Step, AtLast, Renamed
    <2>3. out \in Dirs
      BY <2>1 DEF ModeInv, InPlaceCalls, DirOrNone
    <2>4. out' = [out EXCEPT ![Plan[w][i[w]]] = w]
      BY <1>9 DEF RenameTemp, File
    <2>5. \A k \in 1 .. i[w] - 1 : out[Plan[w][k]] = w
      BY <1>2, <2>1 DEF AloneIs, Renamed
    <2>6. \A k \in 1 .. i[w] : Plan[w][k] \in Names
      BY <1>7
    <2>7. \A k \in 1 .. i[w] : out'[Plan[w][k]] = w
      BY <1>7, <2>3, <2>4, <2>5, <2>6 DEF Dirs
    <2>8. \A k \in 1 .. Renamed(w)' - 1 : out'[Plan[w][k]] = w
      BY <1>7, <2>2, <2>7
    <2> QED BY <2>1, <2>8 DEF AloneIs
  <1>10. CASE RemoveStale(w)
    <2>1. pc[w] = "stale" /\ out \in Dirs /\ ~ReportsOnly
      BY <1>10 DEF RemoveStale, ModeInv, Kept, InPlaceCalls, DirOrNone, ReportsOnly
    <2>2. \A f \in ToSet(Plan[w]) : out[f] = w
      <3>1. \A k \in 1 .. Renamed(w) - 1 : out[Plan[w][k]] = w
        BY <1>2, <2>1 DEF AloneIs
      <3>2. Renamed(w) - 1 = Len(Plan[w])
        BY <1>7, <2>1 DEF Renamed
      <3>3. \A f \in ToSet(Plan[w]) : \E k \in 1 .. Len(Plan[w]) : f = Plan[w][k]
        BY <1>7 DEF ToSet
      <3> QED BY <3>1, <3>2, <3>3
    <2>3. CASE Stale(w) = {}
      <3>1. pc'[w] = "ok" /\ out' = out
        BY <1>10, <2>3 DEF RemoveStale
      <3>2. \A f \in Names \ Copies : out[f] = Complete(w)[f]
        BY <2>2, <2>3 DEF Stale, Complete
      <3>3. Complete(w)' = Complete(w) /\ ~ReportsOnly'
        BY <1>0, <2>1 DEF Complete
      <3> QED BY <3>1, <3>2, <3>3 DEF AloneIs
    <2>4. CASE Stale(w) # {}
      <3>1. PICK f \in Stale(w) : out' = [out EXCEPT ![f] = Absent]
        BY <1>10, <2>4 DEF RemoveStale
      <3>2. f \notin ToSet(Plan[w]) /\ pc'[w] = "stale"
        BY <1>10, <2>1, <2>4 DEF RemoveStale, Stale
      <3>3. \A g \in ToSet(Plan[w]) : out'[g] = w
        <4>1. ToSet(Plan[w]) \subseteq Names
          BY <1>7 DEF ToSet
        <4> QED BY <2>1, <2>2, <3>1, <3>2, <4>1 DEF Dirs
      <3>4. \A k \in 1 .. Len(Plan[w]) : out'[Plan[w][k]] = w
        BY <1>7, <3>3 DEF ToSet
      <3>5. Renamed(w)' = Len(Plan[w]) + 1
        BY <3>2 DEF Renamed
      <3> QED BY <1>7, <3>2, <3>4, <3>5 DEF AloneIs
    <2> QED BY <2>3, <2>4
  <1>11. CASE Fail(w)
    BY <1>0, <1>2, <1>11 DEF Fail, OnError, AloneIs, Calls, whole
  <1>12. CASE Interrupt(w)
    BY <1>0, <1>2, <1>12 DEF Interrupt, AloneIs, Renamed, whole, ReportsOnly, Complete
  <1>13. CASE Kill(w)
    BY <1>13 DEF Kill, AloneIs
  <1> QED BY <1>3, <1>4, <1>5, <1>6, <1>8, <1>8a, <1>9, <1>10, <1>11, <1>12,
             <1>13 DEF Call, Fault

\* What LastInv says of one writer.
LastIs(w) ==
  LET last == Plan[w][Len(Plan[w])] IN
  /\ out[last] = w => \A f \in ToSet(Plan[w]) : out[f] = w
  /\ pc[w] = "rename" => out[last] # w

\* results.json is renamed when every other file of its set was.
LEMMA LastStep ==
  ASSUME IInv, AloneInv, LastInv, NEW w \in Writers,
         Call(w) \/ Fault(w) \/ Interrupt(w) \/ Kill(w)
  PROVE  LastInv'
  <1>0. first' = first /\ foreign' = foreign
    BY Fixed
  <1> SUFFICES ASSUME foreign, NEW v \in Writers, Alone(v)' PROVE LastIs(v)'
    BY <1>0 DEF LastInv, LastIs
  <1>1. CASE v # w
    <2>1. Alone(v) /\ UNCHANGED <<out, pc, i, saved, foreign>>
      BY <1>1, AloneStays DEF IInv
    <2>2. LastIs(v)
      BY <2>1 DEF LastInv, LastIs
    <2> QED BY <2>1, <2>2 DEF LastIs
  <1>2. CASE v = w
    <2> SUFFICES LastIs(w)'
      BY <1>2
    <2> DEFINE last == Plan[w][Len(Plan[w])]
    <2>1. Alone(w)
      BY <1>2, AloneStays DEF IInv
    <2>2. LastIs(w)
      BY <2>1 DEF LastInv, LastIs
    <2>3. /\ Plan[w] \in Seq(Names) /\ i[w] \in 1 .. Len(Plan[w]) /\ Len(Plan[w]) \in Nat \ {0}
          /\ out \in Dirs /\ pc[w] \notin SwapCalls
      BY DEF IInv, Types, ModeInv, Kept, DirOrNone
    <2>4. last \in Names /\ last \in ToSet(Plan[w]) /\ ToSet(Plan[w]) \subseteq Names
      BY <2>3 DEF ToSet
    <2>5. ASSUME out' = out, pc'[w] # "rename" \/ pc[w] = "rename" PROVE LastIs(w)'
      BY <2>2, <2>5 DEF LastIs
    <2>6. CASE TempFile(w)
      <3>1. pc[w] = "temp" /\ out' = out
        BY <2>6 DEF TempFile, At
      <3>2. out = first
        BY <2>1, <3>1 DEF AloneInv
      <3>3. first[last] \in {Before, Absent}
        <4>1. first # NoDir
          BY <3>2 DEF IInv, ModeInv, Kept
        <4> QED BY <2>4, <4>1 DEF LastInv
      <3>4. out'[last] # w
        BY <3>1, <3>2, <3>3
      <3> QED BY <3>4 DEF LastIs
    <2>7. CASE RenameTemp(w)
      <3>1. pc[w] = "rename" /\ out[last] # w
        BY <2>2, <2>7 DEF RenameTemp, At, LastIs
      <3>2. out' = [out EXCEPT ![Plan[w][i[w]]] = w]
        BY <2>7 DEF RenameTemp, File
      <3>3. CASE AtLast(w)
        <4>1. pc'[w] = "stale"
          BY <2>7, <3>3 DEF RenameTemp, Go, IInv, Types
        <4>2. \A k \in 1 .. i[w] - 1 : out[Plan[w][k]] = w
          BY <2>1, <3>1 DEF AloneInv, Renamed, At
        <4>3. \A k \in 1 .. Len(Plan[w]) : Plan[w][k] \in Names
          BY <2>3
        <4>4. \A k \in 1 .. Len(Plan[w]) : out'[Plan[w][k]] = w
          BY <2>3, <3>2, <3>3, <4>2, <4>3 DEF Dirs, AtLast
        <4>5. \A f \in ToSet(Plan[w]) : \E k \in 1 .. Len(Plan[w]) : f = Plan[w][k]
          BY <2>3 DEF ToSet
        <4> QED BY <4>1, <4>4, <4>5 DEF LastIs
      <3>4. CASE ~AtLast(w)
        <4>1. i[w] \in 1 .. Len(Plan[w]) - 1
          BY <2>3, <3>4 DEF AtLast
        <4>2. Plan[w][i[w]] # last
          BY <4>1, ResultsAssumption
        <4>3. out'[last] = out[last]
          BY <2>3, <2>4, <3>2, <4>2 DEF Dirs
        <4> QED BY <3>1, <4>3 DEF LastIs
      <3> QED BY <3>3, <3>4
    <2>8. CASE RemoveStale(w)
      <3>1. pc'[w] # "rename"
        BY <2>8 DEF RemoveStale, At, Go, IInv, Types
      <3>2. CASE Stale(w) = {}
        BY <2>5, <2>8, <3>1, <3>2 DEF RemoveStale
      <3>3. CASE Stale(w) # {}
        <4>1. PICK f \in Stale(w) : out' = [out EXCEPT ![f] = Absent]
          BY <2>8, <3>3 DEF RemoveStale
        <4>2. f \notin ToSet(Plan[w])
          BY DEF Stale
        <4>3. \A g \in ToSet(Plan[w]) : out'[g] = out[g]
          BY <2>3, <2>4, <4>1, <4>2 DEF Dirs
        <4> QED BY <2>2, <2>4, <3>1, <4>3 DEF LastIs
      <3> QED BY <3>2, <3>3
    <2>9. CASE ~(TempFile(w) \/ RenameTemp(w) \/ RemoveStale(w))
      <3>1. out' = out
        BY <2>3, <2>9 DEF Call, Begin, StageFile, Drop, Look, Install, MoveOld, MoveNew,
           Restore, RemoveOld, ClearTemp, Fault, Fail, TempFails, ClearFails, ClearNext, Interrupt, Kill, At, SwapCalls
      <3>2. pc'[w] # "rename" \/ pc[w] = "rename"
        BY <2>3, <2>9 DEF Call, Begin, StageFile, Drop, Look, Install, MoveOld, MoveNew,
           Restore, RemoveOld, ClearTemp, Fault, Fail, TempFails, ClearFails, ClearNext, OnError, Interrupt, Kill, At, Go, SwapCalls, IInv, Types
      <3> QED BY <2>5, <3>1, <3>2
    <2> QED BY <2>6, <2>7, <2>8, <2>9
  <1> QED BY <1>1, <1>2

\* The three hold however many processes write, fail, are interrupted or die.
LEMMA Clean == Spec => [](TidyInv /\ AloneInv /\ LastInv)
  <1>1. Init => TidyInv /\ AloneInv /\ LastInv
    <2> SUFFICES ASSUME Init PROVE TidyInv /\ AloneInv /\ LastInv
      OBVIOUS
    <2>1. TidyInv
      BY DEF Init, TidyInv, Tidy
    <2>2. AloneInv
      BY DEF Init, AloneInv, At
    <2>3. first # NoDir => \A f \in Names : first[f] \in {Before, Absent}
      BY DEF Init
    <2>4. foreign => out = first /\ first # NoDir
      BY InitIInv DEF Init, IInv, ModeInv, Kept
    <2>5. \A w \in Writers : Plan[w][Len(Plan[w])] \in Names
      OBVIOUS
    <2>6. LastInv
      BY <2>3, <2>4, <2>5 DEF Init, LastInv
    <2> QED BY <2>1, <2>2, <2>6
  <1>2. IInv /\ TidyInv /\ AloneInv /\ LastInv /\ [Next]_vars
          => (TidyInv /\ AloneInv /\ LastInv)'
    <2> SUFFICES ASSUME IInv, TidyInv, AloneInv, LastInv, [Next]_vars
                 PROVE  (TidyInv /\ AloneInv /\ LastInv)'
      OBVIOUS
    <2>1. CASE \E w \in Writers : Call(w) \/ Fault(w) \/ Interrupt(w) \/ Kill(w)
      BY <2>1, TidyStep, AloneStep, LastStep
    <2>2. ASSUME UNCHANGED <<out, new, old, temp, pc, i, staged, faults, fixed>>,
                 ReportsOnly' => ReportsOnly
          PROVE  (TidyInv /\ AloneInv /\ LastInv)'
      <3>1. TidyInv'
        BY <2>2 DEF TidyInv, Tidy
      <3>2. AloneInv'
        BY <2>2 DEF fixed, AloneInv, Alone, At, Renamed, Complete
      <3>3. LastInv'
        BY <2>2 DEF fixed, LastInv, Alone, At
      <3> QED BY <3>1, <3>2, <3>3
    <2>3. CASE Save \/ UNCHANGED vars
      <3>1. UNCHANGED <<out, new, old, temp, pc, i, staged, faults, fixed>>
        BY <2>3 DEF Save, vars, fixed
      <3>2. ReportsOnly' => ReportsOnly
        BY <2>3 DEF Save, vars, fixed, ReportsOnly
      <3> QED BY <2>2, <3>1, <3>2
    <2> QED BY <2>1, <2>2, <2>3 DEF Next
  <1> QED BY <1>1, <1>2, Invariant, PTL DEF Spec

\* A process that was interrupted or reports success has nothing set aside; a
\* successful one, and an interrupted one when no call failed, left no staging
\* directory and no temporary file; alone, an interrupted one changed nothing in
\* the directory, whatever failed in its clean-up, and a successful one leaves
\* its own set (set.rs:322-326, 377-492).
THEOREM LeavesClean == Spec => []EndsClean
  <1>1. TidyInv /\ AloneInv => EndsClean
    BY DEF TidyInv, Tidy, AloneInv, EndsClean, At
  <1> QED BY <1>1, Clean, PTL

\* In a directory that one process updates in place, whoever sees its
\* results.json sees its whole set (set.rs:13-16).
THEOREM ResultsLast == Spec => []ResultsComeLast
  <1>1. LastInv => ResultsComeLast
    BY DEF LastInv, ResultsComeLast
  <1> QED BY <1>1, Clean, PTL
----------------------------------------------------------------------------
\* A file that is in the directory, saved while no process replaced it, is not
\* in the way of any swap; one that went aside is there until its end.
SavedInv ==
  /\ SavedFileStays
  /\ saved = "out" /\ ~late => \A w \in Writers : pc[w] \notin SwapCalls

\* A process that begins when the file is there updates the directory in place.
LEMMA SavedStep ==
  ASSUME IInv, SavedInv, ~late, NEW w \in Writers,
         Call(w) \/ Fault(w) \/ Interrupt(w) \/ Kill(w)
  PROVE  /\ saved' = saved /\ saved \in {"never", "out"}
         /\ saved = "out" => \A v \in Writers : pc'[v] \notin SwapCalls
  <1>1. saved \in {"never", "out"} /\ (saved = "out" => \A v \in Writers : pc[v] \notin SwapCalls)
    BY DEF SavedInv, SavedFileStays
  <1>2. saved' = saved
    <2>1. CASE saved = "never"
      BY <2>1, Fixed DEF MoveOld, Restore, RemoveOld
    <2>2. CASE saved = "out"
      BY <1>1, <2>2, Fixed DEF MoveOld, Restore, RemoveOld, At, SwapCalls
    <2> QED BY <1>1, <2>1, <2>2
  <1>3. saved = "out" => \A v \in Writers : pc'[v] \notin SwapCalls
    BY <1>1, WayStep DEF Kept
  <1> QED BY <1>1, <1>2, <1>3

\* What took the place of the directory did so for good.
LEMMA ReplacedStays ==
  ASSUME IInv, NEW w \in Writers, Call(w) \/ Fault(w) \/ Interrupt(w) \/ Kill(w),
         NEW v \in Writers, Replaced(v)
  PROVE  Replaced(v)'
  <1>1. CASE v # w
    <2>1. pc'[v] = pc[v] /\ new'[v] = new[v]
      BY <1>1, OthersKeep DEF IInv
    <2> QED BY <2>1 DEF Replaced
  <1>2. CASE v = w
    <2> USE DEF IInv, Types, At, Go
    <2>1. pc[w] \in {"removeOld", "ok", "failed", "killed"} /\ new[w] = NoDir
      BY <1>2 DEF Replaced
    <2>2. CASE RemoveOld(w)
      BY <1>2, <2>1, <2>2 DEF RemoveOld, Replaced
    <2>3. CASE Fail(w)
      BY <1>2, <2>1, <2>3 DEF Fail, OnError, Calls, Replaced
    <2>4. CASE Interrupt(w)
      BY <1>2, <2>1, <2>4 DEF Interrupt, Replaced
    <2>5. CASE Kill(w)
      BY <1>2, <2>1, <2>5 DEF Kill, Replaced
    <2>6. CASE ~(RemoveOld(w) \/ Fail(w) \/ Interrupt(w) \/ Kill(w))
      BY <2>1, <2>6 DEF Call, Begin, StageFile, Drop, Look, Install, MoveOld, MoveNew,
         Restore, TempFile, ClearTemp, RenameTemp, RemoveStale, Fault, TempFails, ClearFails
    <2> QED BY <2>2, <2>3, <2>4, <2>5, <2>6
  <1> QED BY <1>1, <1>2

\* A file that went aside comes back, or goes when the new set is in place.
LEMMA AsideStep ==
  ASSUME IInv, TidyInv, SavedInv, NEW w \in Writers,
         Call(w) \/ Fault(w) \/ Interrupt(w) \/ Kill(w)
  PROVE  /\ saved' \in Writers => old'[saved'] # NoDir
         /\ saved' = "lost" => \E v \in Writers : Replaced(v)'
  <1> USE DEF IInv, Types, At, Go
  <1>1. /\ saved \in Writers => old[saved] # NoDir
        /\ saved = "lost" => \E v \in Writers : Replaced(v)
    BY DEF SavedInv, SavedFileStays
  <1>2. ASSUME saved' = saved, saved \in Writers => old'[saved] # NoDir
        PROVE  /\ saved' \in Writers => old'[saved'] # NoDir
               /\ saved' = "lost" => \E v \in Writers : Replaced(v)'
    BY <1>1, <1>2, ReplacedStays
  <1>3. CASE MoveOld(w)
    <2>1. CASE out = NoDir
      BY <1>1, <1>2, <1>3, <2>1 DEF MoveOld
    <2>2. CASE out # NoDir /\ saved = "out"
      <3>1. saved' = w /\ old'[w] = out
        BY <1>3, <2>2 DEF MoveOld
      <3> QED BY <2>2, <3>1
    <2>3. CASE out # NoDir /\ saved # "out"
      <3>1. saved' = saved /\ old' = [old EXCEPT ![w] = out]
        BY <1>3, <2>3 DEF MoveOld
      <3>2. saved \in Writers => old'[saved] # NoDir
        BY <1>1, <2>3, <3>1
      <3> QED BY <1>2, <3>1, <3>2
    <2> QED BY <2>1, <2>2, <2>3
  <1>4. CASE Restore(w)
    <2>1. CASE Free(out) /\ saved = w
      <3>1. saved' = "out"
        BY <1>4, <2>1 DEF Restore
      <3> QED BY <3>1
    <2>2. CASE Free(out) /\ saved # w
      <3>1. saved' = saved /\ old' = [old EXCEPT ![w] = NoDir]
        BY <1>4, <2>2 DEF Restore
      <3>2. saved \in Writers => old'[saved] # NoDir
        BY <1>1, <2>2, <3>1
      <3> QED BY <1>2, <3>1, <3>2
    <2>3. CASE ~Free(out)
      BY <1>1, <1>2, <1>4, <2>3 DEF Restore
    <2> QED BY <2>1, <2>2, <2>3
  <1>5. CASE RemoveOld(w)
    <2>1. CASE saved = w
      <3>1. /\ saved' = "lost" /\ new' = new /\ pc[w] = "removeOld"
            /\ pc'[w] \in {"removeOld", "ok"}
        BY <1>5, <2>1 DEF RemoveOld
      <3>2. new[w] = NoDir
        BY <3>1 DEF TidyInv, Tidy
      <3>3. Replaced(w)'
        BY <3>1, <3>2 DEF Replaced
      <3> QED BY <3>1, <3>3
    <2>2. CASE saved # w
      <3>1. saved' = saved /\ \A v \in Writers \ {w} : old'[v] = old[v]
        BY <1>5, <2>2, OthersKeep DEF RemoveOld
      <3>2. saved \in Writers => old'[saved] # NoDir
        BY <1>1, <2>2, <3>1
      <3> QED BY <1>2, <3>1, <3>2
    <2> QED BY <2>1, <2>2
  <1>6. CASE ~(MoveOld(w) \/ Restore(w) \/ RemoveOld(w))
    <2>1. saved' = saved
      BY <1>6, Fixed
    <2>2. old' = old
      BY <1>6 DEF Call, Begin, StageFile, Drop, Look, Install, MoveNew, TempFile, ClearTemp,
         RenameTemp, RemoveStale, Fault, Fail, TempFails, ClearFails, Interrupt, Kill
    <2> QED BY <1>1, <1>2, <2>1, <2>2
  <1> QED BY <1>3, <1>4, <1>5, <1>6

\* A file a user saves while no process replaces the directory stays there; one
\* saved between a look and its swap is on the disk until the new set is in
\* place; with any number of processes, kills and failing calls (set.rs:12-16,
\* 356-361, 402-426).
THEOREM TheSavedFileStays == Spec => []SavedFileStays
  <1>1. Init => SavedInv
    BY DEF Init, SavedInv, SavedFileStays
  <1>2. IInv /\ TidyInv /\ SavedInv /\ [Next]_vars => SavedInv'
    <2> SUFFICES ASSUME IInv, TidyInv, SavedInv, [Next]_vars PROVE SavedInv'
      OBVIOUS
    <2>1. CASE \E w \in Writers : Call(w) \/ Fault(w) \/ Interrupt(w) \/ Kill(w)
      <3>1. PICK w \in Writers : Call(w) \/ Fault(w) \/ Interrupt(w) \/ Kill(w)
        BY <2>1
      <3>2. late' = late
        BY <3>1, Fixed
      <3>3. /\ saved' \in Writers => old'[saved'] # NoDir
            /\ saved' = "lost" => \E v \in Writers : Replaced(v)'
        BY <3>1, AsideStep
      <3>4. ~late => /\ saved' \in {"never", "out"}
                     /\ saved' = "out" => \A v \in Writers : pc'[v] \notin SwapCalls
        BY <3>1, SavedStep
      <3> QED BY <3>2, <3>3, <3>4 DEF SavedInv, SavedFileStays
    <2>2. CASE Save
      BY <2>2 DEF Save, SavedInv, SavedFileStays
    <2>3. CASE UNCHANGED vars
      BY <2>3 DEF vars, SavedInv, SavedFileStays, Replaced
    <2> QED BY <2>1, <2>2, <2>3 DEF Next
  <1>3. SavedInv => SavedFileStays
    BY DEF SavedInv
  <1> QED BY <1>1, <1>2, <1>3, Invariant, Clean, PTL DEF Spec
=============================================================================
