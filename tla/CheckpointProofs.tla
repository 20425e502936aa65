-------------------------- MODULE CheckpointProofs --------------------------
(***************************************************************************)
(* Proofs about the checkpoint of a benchmark (Checkpoint.tla), for any    *)
(* number of matches, workers, configurations, runs, kills and disk        *)
(* errors.                                                                 *)
(***************************************************************************)
EXTENDS Checkpoint, FiniteSetTheorems, WellFoundedInduction, TLAPS

USE CheckpointAssumption

\* Where a run is that writes its reports, and where it has set the old
\* directory aside.
Reporting == {"report", "moveOld", "moveNew", "restore", "removeOld", "place", "stale"}
Away      == {"moveNew", "restore", "removeOld"}

PCs == {"down", "load", "cut", "create", "header", "play"} \cup Reporting

Files == [exists : BOOLEAN, lines : Seq(Lines), torn : BOOLEAN]

Types ==
  /\ file \in Files
  /\ reports \in [Matches -> Records \cup {NoRecord}]
  /\ old \in [file : Files, reports : [Matches -> Records \cup {NoRecord}]]
  /\ pc \in PCs
  /\ cfg \in Configs \cup {NoConfig}
  /\ done \in [Matches -> Records \cup {NoRecord}]
  /\ stage \in [Matches -> Stages]
  /\ result \in [Matches -> Records \cup {NoRecord}]
  /\ lock \in [match : Matches \cup {N}, clean : BOOLEAN]
  /\ write_error \in BOOLEAN
  /\ cancelled \in BOOLEAN
  /\ exit \in [kind : Exits, match : Matches \cup {N}]
  /\ runs \in Nat /\ kills \in Nat /\ faults \in Nat

\* The file has match m of the run's configuration.
Has(m) == \E i \in DOMAIN file.lines : file.lines[i] = Record(cfg, m)

\* A file begins with the header of the configuration all its lines are of,
\* and has no line twice.
FileOk(f) ==
  /\ ~f.exists => f.lines = <<>>
  /\ f.lines # <<>> => \E c \in Configs : f.lines[1] = Header(c)
  /\ \A i \in 2 .. Len(f.lines) :
       f.lines[i] = Garbage \/ \E m \in Matches : f.lines[i] = Record(OwnerOf(f), m)
  /\ \A i, j \in DOMAIN f.lines :
       f.lines[i] = f.lines[j] => i = j \/ f.lines[i] = Garbage

FileInv == FileOk(file) /\ FileOk(old.file)

\* The file has every match of the run's configuration.
Complete(f) ==
  /\ f.lines # <<>> /\ f.lines[1] = Header(cfg)
  /\ \A m \in Matches : \E i \in DOMAIN f.lines : f.lines[i] = Record(cfg, m)

\* Where the run is, and what it has of the file.
PhaseInv ==
  /\ pc # "down" => cfg \in Configs
  /\ pc \in {"create", "header"} => file.lines = <<>>
  /\ pc \notin {"down", "create"} \cup Away => file.exists
  /\ pc \in {"cut", "play"} =>
       /\ file.lines # <<>> /\ file.lines[1] = Header(cfg)
       /\ \A m \in Matches : Has(m) => Taken(m) \/ stage[m] = "ok"
  /\ pc \notin {"cut", "play"} => done = NoRecords
  /\ pc # "play" =>
       /\ stage = [m \in Matches |-> "waiting"]
       /\ lock = Unlocked /\ write_error = FALSE
  /\ pc \notin {"play"} \cup Reporting => result = NoRecords

\* What a run that writes its reports has: every result, and every match on
\* the file, wherever that is.
ReportInv ==
  /\ pc \in Reporting => result = [m \in Matches |-> Record(cfg, m)]
  /\ pc \in Reporting \ Away => Complete(file)
  /\ pc \in Away => file = NoFile /\ Complete(old.file)
  /\ pc \notin Away => old = Nowhere
  /\ pc = "stale" => reports = result

\* What is known of a match by its stage.
MatchInv ==
  \A m \in Matches :
    /\ Taken(m) => /\ done[m] = Record(cfg, m) /\ Has(m)
                   /\ stage[m] \in {"waiting", "ok"}
    /\ stage[m] = "ok" => result[m] = Record(cfg, m) /\ (Has(m) \/ write_error)
    /\ stage[m] = "writing" <=> lock.match = m
    /\ stage[m] = "stopped" => cancelled \/ \E k \in Failed : k < m
    /\ stage[m] # "waiting" => \A k \in 0 .. m - 1 : stage[k] # "waiting"

\* Only after an error does the file end in a torn line nobody is writing.
TornInv ==
  /\ lock.match = N => lock.clean
  /\ ~lock.clean => write_error
  /\ pc = "play" /\ lock.match = N /\ file.torn => write_error

ExitInv ==
  exit.kind = "failure" =>
    /\ pc = "down"
    /\ \A k \in 0 .. exit.match - 1 : Has(k)

\* The inductive invariant.
IInv == Types /\ FileInv /\ PhaseInv /\ ReportInv /\ MatchInv /\ TornInv /\ ExitInv

\* The three kinds of line have different fields.
LEMMA LinesDiffer ==
  /\ \A c : Header(c) \notin Records /\ Header(c) # Garbage
  /\ Garbage \notin Records
  /\ NoRecord \notin Records
  /\ \A c, d : Header(c) = Header(d) => c = d
  /\ \A c, d, m, n : Record(c, m) = Record(d, n) => c = d /\ m = n
  /\ \A c, d, m : Record(c, m) # Header(d) /\ Record(c, m) # Garbage
  /\ \A c \in Configs, m \in Matches : Record(c, m) \in Records
  BY DEF Header, Garbage, Records, NoRecord, Record

\* A set of numbers that is not empty has a least element: the intervals below
\* its elements have one for inclusion.
LEMMA LeastNumber ==
  ASSUME NEW S \in SUBSET Nat, S # {}
  PROVE  \E m \in S : \A k \in S : m <= k
  <1> DEFINE Below(k) == 0 .. k - 1
             T == {Below(k) : k \in S}
  <1>1. T \subseteq FiniteSubsetsOf(Nat)
    <2> SUFFICES ASSUME NEW k \in S PROVE Below(k) \in FiniteSubsetsOf(Nat)
      OBVIOUS
    <2>1. k - 1 \in Int /\ k \in Nat
      OBVIOUS
    <2>2. IsFiniteSet(Below(k))
      BY <2>1, FS_Interval
    <2>3. Below(k) \subseteq Nat
      OBVIOUS
    <2> QED BY <2>2, <2>3 DEF FiniteSubsetsOf
  <1>a. T # {}
    <2> PICK k \in S : TRUE
      OBVIOUS
    <2> Below(k) \in T
      OBVIOUS
    <2> QED OBVIOUS
  <1>b. IsWellFoundedOn(StrictSubsetOrdering(Nat), FiniteSubsetsOf(Nat))
    BY FS_StrictSubsetOrderingWellFounded
  <1>2. \E t \in T : \A u \in T : ~ (<<u, t>> \in StrictSubsetOrdering(Nat))
    <2> HIDE DEF T
    <2> QED BY <1>a, <1>b, <1>1, WFMin, Zenon
  <1>2a. PICK t \in T : \A u \in T : ~ (<<u, t>> \in StrictSubsetOrdering(Nat))
    BY <1>2
  <1>3. PICK m \in S : t = Below(m)
    BY <1>2a
  <1>4. ASSUME NEW k \in S, k < m PROVE FALSE
    <2>1. Below(k) \subseteq Below(m) /\ k \in Below(m) /\ k \notin Below(k)
      BY <1>4
    <2>2. Below(k) \subseteq Nat /\ Below(m) \subseteq Nat /\ Below(k) # Below(m)
      BY <2>1
    <2>3. <<Below(k), Below(m)>> \in StrictSubsetOrdering(Nat)
      BY <2>1, <2>2 DEF StrictSubsetOrdering
    <2> QED BY <1>2a, <1>3, <2>3
  <1> QED BY <1>4

\* A bounded set of numbers that is not empty has a greatest element.
LEMMA GreatestNumber ==
  ASSUME NEW n \in Nat, NEW S \in SUBSET (1 .. n), S # {}
  PROVE  Max(S) \in S /\ \A k \in S : Max(S) >= k
  <1> DEFINE T == {n - k : k \in S}
  <1>1. \A k \in S : k \in Int /\ k <= n
    OBVIOUS
  <1>2. T \in SUBSET Nat /\ T # {}
    <2>1. ASSUME NEW k \in S PROVE n - k \in Nat
      BY <1>1
    <2>2. PICK k \in S : TRUE
      OBVIOUS
    <2>3. n - k \in T
      BY <2>2
    <2> QED BY <2>1, <2>3
  <1>3. PICK t \in T : \A k \in T : t <= k
    BY <1>2, LeastNumber
  <1>4. PICK m \in S : t = n - m
    BY <1>3
  <1>5. ASSUME NEW k \in S PROVE m >= k
    <2>1. n - k \in T
      OBVIOUS
    <2>2. n - m <= n - k
      BY <1>3, <1>4, <2>1
    <2> QED BY <1>1, <2>2
  <1> QED BY <1>5 DEF Max

\* The error the pool reports is that of the lowest match that failed.
LEMMA FirstIsLeast ==
  ASSUME NEW S \in SUBSET Matches, S # {}
  PROVE  First(S) \in S /\ \A k \in S : First(S) <= k
  <1>1. \E m \in S : \A k \in S : m <= k
    BY LeastNumber DEF Matches
  <1> QED BY <1>1 DEF First

\* What a run takes from a file it can load: of every match the file has, the
\* record of that match.
LEMMA RecordedIs ==
  ASSUME file \in Files, FileInv, cfg \in Configs, Loads(file, cfg), NEW m \in Matches
  PROVE  Recorded(file)[m] = IF Has(m) THEN Record(cfg, m) ELSE NoRecord
  <1> DEFINE I == {i \in 1 .. Len(file.lines) :
                     file.lines[i] \in Records /\ file.lines[i].match = m}
  <1>1. Recorded(file)[m] = IF I = {} THEN NoRecord ELSE file.lines[Max(I)]
    <2>1. Recorded(file)[m] = LET at == IF I # {} THEN Max(I) ELSE 0
                              IN IF at = 0 THEN NoRecord ELSE file.lines[at]
      BY DEF Recorded, SelectLastInSeq
    <2>2. Len(file.lines) \in Nat /\ I \in SUBSET (1 .. Len(file.lines))
      BY DEF Files
    <2>3. I # {} => Max(I) \in I
      BY <2>2, GreatestNumber
    <2> QED BY <2>1, <2>2, <2>3
  <1>2. OwnerOf(file) = cfg
    BY DEF OwnerOf, Loads, Header
  <1>3. ASSUME NEW i \in I PROVE file.lines[i] = Record(cfg, m)
    <2>1. i # 1
      BY LinesDiffer DEF Loads
    <2>2. PICK k \in Matches : file.lines[i] = Record(cfg, k)
      BY <1>2, <2>1, LinesDiffer DEF FileInv, FileOk, Files
    <2> QED BY <2>2 DEF Record
  <1>4. ASSUME NEW i \in DOMAIN file.lines, file.lines[i] = Record(cfg, m) PROVE i \in I
    BY <1>4, LinesDiffer DEF Record, Files
  <1>5. CASE I = {}
    BY <1>1, <1>4, <1>5 DEF Has
  <1>6. CASE I # {}
    <2>1. Max(I) \in I
      <3> Len(file.lines) \in Nat /\ I \in SUBSET (1 .. Len(file.lines))
        BY DEF Files
      <3> QED BY <1>6, GreatestNumber
    <2>2. file.lines[Max(I)] = Record(cfg, m)
      BY <1>3, <2>1
    <2>3. Has(m)
      BY <2>1, <2>2 DEF Has, Files
    <2> QED BY <1>1, <1>6, <2>2, <2>3
  <1> QED BY <1>5, <1>6

----------------------------------------------------------------------------
\* No directory is set aside: that has no file and no reports.
LEMMA NowhereIs ==
  /\ Nowhere \in [file : Files, reports : [Matches -> Records \cup {NoRecord}]]
  /\ NoFile \in Files /\ FileOk(NoFile) /\ FileOk(Nowhere.file)
  BY DEF Nowhere, NoFile, Files, NoRecords, FileOk

\* A step of a run that writes no reports yet, or of none.
LEMMA OutsideKeeps ==
  ASSUME ReportInv, pc \notin Reporting, pc' \notin Reporting, UNCHANGED old
  PROVE  ReportInv'
  BY DEF ReportInv, Reporting, Away

\* The invariant holds of a directory nobody has run anything in.
LEMMA InitIInv == Init => IInv
  <1> SUFFICES ASSUME Init PROVE IInv
    OBVIOUS
  <1> USE DEF Init
  <1>1. Types
    <2>1. file \in Files
      BY DEF Files, NoFile
    <2>2. lock \in [match : Matches \cup {N}, clean : BOOLEAN]
      BY DEF Unlocked
    <2>3. exit \in [kind : Exits, match : Matches \cup {N}]
      BY DEF Exit, Exits
    <2>4. old \in [file : Files, reports : [Matches -> Records \cup {NoRecord}]]
      BY NowhereIs
    <2> QED BY <2>1, <2>2, <2>3, <2>4 DEF Types, PCs, NoRecords, Stages
  <1>2. FileInv
    BY NowhereIs DEF FileInv, FileOk, NoFile
  <1>2a. ReportInv
    BY DEF ReportInv, Reporting, Away
  <1>3. PhaseInv
    BY DEF PhaseInv, NoFile, Reporting, Away
  <1>4. MatchInv
    <2>1. N \notin Matches
      BY DEF Matches
    <2> QED BY <2>1 DEF MatchInv, Taken, NoRecords, Unlocked
  <1>5. TornInv
    BY DEF TornInv, Unlocked
  <1>6. ExitInv
    BY DEF ExitInv, Exit
  <1> QED BY <1>1, <1>2, <1>2a, <1>3, <1>4, <1>5, <1>6 DEF IInv

\* A step that ends the process leaves the invariant true, if what it did to
\* the file and what it says of the lower matches are right.
LEMMA LeaveStep ==
  ASSUME Types, FileInv', file' \in Files,
         NEW e \in [kind : Exits, match : Matches \cup {N}], Leave(e),
         old' = Nowhere, cfg' = cfg, cancelled' = cancelled,
         reports' \in [Matches -> Records \cup {NoRecord}],
         runs' \in Nat, kills' \in Nat, faults' \in Nat,
         e.kind = "failure" => \A k \in 0 .. e.match - 1 : Has(k)'
  PROVE  IInv'
  <1> USE DEF Leave, Fresh
  <1>1. Types'
    <2>1. lock' \in [match : Matches \cup {N}, clean : BOOLEAN]
      BY DEF Unlocked
    <2>2. /\ done' \in [Matches -> Records \cup {NoRecord}]
          /\ stage' \in [Matches -> Stages]
          /\ result' \in [Matches -> Records \cup {NoRecord}]
      BY DEF NoRecords, Stages
    <2>3. exit' \in [kind : Exits, match : Matches \cup {N}]
      OBVIOUS
    <2>4. pc' = "down" /\ write_error' = FALSE
      OBVIOUS
    <2> HIDE DEF Leave, Fresh
    <2>5. old' \in [file : Files, reports : [Matches -> Records \cup {NoRecord}]]
      BY NowhereIs
    <2> QED BY <2>1, <2>2, <2>3, <2>4, <2>5 DEF Types, PCs
  <1>2. PhaseInv' /\ ReportInv'
    BY DEF PhaseInv, ReportInv, Reporting, Away
  <1>3. MatchInv'
    <2>1. N \notin Matches
      BY DEF Matches
    <2> QED BY <2>1 DEF MatchInv, Taken, NoRecords, Unlocked
  <1>4. TornInv'
    BY DEF TornInv, Unlocked
  <1>5. ExitInv'
    BY DEF ExitInv
  <1> QED BY <1>1, <1>2, <1>3, <1>4, <1>5 DEF IInv

\* What a step that leaves the file and the configuration alone leaves true.
LEMMA FileKeeps ==
  ASSUME UNCHANGED <<file, old, cfg>>
  PROVE  /\ FileInv => FileInv'
         /\ \A m \in Matches : Has(m)' = Has(m)
         /\ OwnerOf(file)' = OwnerOf(file)
  BY DEF FileInv, FileOk, Has, OwnerOf

\* An exit the model uses is of the type of exits.
LEMMA ExitType ==
  ASSUME NEW kind \in Exits
  PROVE  /\ Exit(kind) \in [kind : Exits, match : Matches \cup {N}]
         /\ Exit(kind).kind = kind
  BY DEF Exit

\* A start takes nothing of the last run but the file.
LEMMA StartStep == ASSUME IInv, NEW c \in Configs, Start(c) PROVE IInv'
  <1> USE DEF IInv, Start, run
  <1>1. Types'
    <2>1. exit' \in [kind : Exits, match : Matches \cup {N}]
      BY DEF Exit, Exits
    <2>2. pc' \in PCs /\ cfg' \in Configs \cup {NoConfig}
      BY DEF PCs
    <2>3. runs' \in Nat /\ kills' \in Nat /\ faults' \in Nat
      BY DEF Types
    <2>4. cancelled' \in BOOLEAN /\ write_error' \in BOOLEAN
      BY DEF Types
    <2> QED BY <2>1, <2>2, <2>3, <2>4 DEF Types
  <1>2. FileInv'
    BY DEF FileInv, FileOk, OwnerOf
  <1>3. PhaseInv'
    BY DEF PhaseInv, FileInv, FileOk, Reporting, Away
  <1>4. MatchInv'
    BY DEF MatchInv, PhaseInv, Taken, NoRecords, Failed, Types
  <1>5. TornInv'
    BY DEF TornInv
  <1>6. ExitInv'
    BY DEF ExitInv, Exit
  <1>r. ReportInv'
    BY OutsideKeeps DEF Reporting
  <1> QED BY <1>r, <1>1, <1>2, <1>3, <1>4, <1>5, <1>6

\* A load takes exactly the matches the file has, or ends the run.
LEMMA LoadStep == ASSUME IInv, Load PROVE IInv'
  <1> USE DEF IInv, Load
  <1>1. CASE ~Loads(file, cfg)
    <2>1. Leave(Exit("refused"))
      BY <1>1
    <2>2. Exit("refused") \in [kind : Exits, match : Matches \cup {N}]
          /\ Exit("refused").kind # "failure"
      BY ExitType DEF Exits
    <2> QED BY <2>1, <2>2, LeaveStep, FileKeeps DEF Types, ReportInv, Away
  <1>2. CASE Loads(file, cfg)
    <2> USE <1>2
    <2>1. cfg \in Configs /\ file \in Files
      BY DEF PhaseInv, Types
    <2>2. \A m \in Matches :
            done'[m] = IF Has(m) THEN Record(cfg, m) ELSE NoRecord
      BY <2>1, RecordedIs
    <2>3. Types'
      <3>1. done' \in [Matches -> Records \cup {NoRecord}]
        <4>1. \A m \in Matches : done'[m] \in Records \cup {NoRecord}
          BY <2>1, <2>2, LinesDiffer
        <4> QED BY <4>1 DEF Recorded
      <3> QED BY <3>1 DEF Types, PCs
    <2>4. FileInv'
      BY FileKeeps
    <2>5. \A m \in Matches : Has(m)' = Has(m)
      BY FileKeeps
    <2>6. \A m \in Matches : Taken(m)' <=> Has(m)
      BY <2>1, <2>2, LinesDiffer DEF Taken
    <2>7. PhaseInv'
      BY <2>1, <2>5, <2>6 DEF PhaseInv, Loads, Reporting, Away
    <2>8. MatchInv'
      BY <2>2, <2>5, <2>6 DEF MatchInv, PhaseInv, Failed
    <2>9. TornInv'
      BY DEF TornInv
    <2>10. ExitInv'
      BY DEF ExitInv
    <2>r. ReportInv'
      BY OutsideKeeps DEF Reporting
    <2> QED BY <2>r, <2>3, <2>4, <2>7, <2>8, <2>9, <2>10
  <1> QED BY <1>1, <1>2

\* Cutting the torn end off keeps every complete line.
LEMMA CutStep == ASSUME IInv, Cut PROVE IInv'
  <1> USE DEF IInv, Cut, run
  <1>1. file' \in Files /\ file'.lines = file.lines /\ ~file'.torn
    BY DEF DropPartialLine, Files, Types
  <1>2. file'.exists = file.exists
    BY DEF DropPartialLine, Files, Types
  <1>3. \A m \in Matches : Has(m)' = Has(m) /\ Taken(m)' = Taken(m)
    BY <1>1 DEF Has, Taken
  <1>4. Types'
    BY <1>1 DEF Types, PCs
  <1>5. FileInv'
    BY <1>1, <1>2 DEF FileInv, FileOk, OwnerOf
  <1>6. PhaseInv'
    BY <1>1, <1>2, <1>3 DEF PhaseInv, Reporting, Away
  <1>7. MatchInv'
    BY <1>3 DEF MatchInv, Failed
  <1>8. TornInv'
    BY <1>1 DEF TornInv
  <1>9. ExitInv'
    BY DEF ExitInv
  <1>r. ReportInv'
    BY OutsideKeeps DEF Reporting
  <1> QED BY <1>r, <1>4, <1>5, <1>6, <1>7, <1>8, <1>9

\* The new file has no line yet.
LEMMA CreateStep == ASSUME IInv, Create PROVE IInv'
  <1> USE DEF IInv, Create, run
  <1>1. file' \in Files /\ file'.lines = <<>> /\ file'.exists
    BY DEF Files
  <1>2. file.lines = <<>>
    BY DEF PhaseInv
  <1>3. \A m \in Matches : Has(m)' = Has(m)
    BY <1>1, <1>2 DEF Has
  <1>4. Types'
    BY <1>1 DEF Types, PCs
  <1>5. FileInv'
    BY <1>1 DEF FileInv, FileOk
  <1>6. PhaseInv'
    BY <1>1 DEF PhaseInv, Reporting, Away
  <1>7. MatchInv'
    BY <1>3 DEF MatchInv, Failed, Taken
  <1>8. TornInv'
    BY DEF TornInv
  <1>9. ExitInv'
    BY DEF ExitInv
  <1>r. ReportInv'
    BY OutsideKeeps DEF Reporting
  <1> QED BY <1>r, <1>4, <1>5, <1>6, <1>7, <1>8, <1>9

\* The header makes the file the run's.
LEMMA WriteHeaderStep == ASSUME IInv, WriteHeader PROVE IInv'
  <1> USE DEF IInv, WriteHeader, run
  <1>1. cfg \in Configs /\ cfg' = cfg /\ file.lines = <<>>
    BY DEF PhaseInv
  <1>2. file'.lines = <<Header(cfg)>> /\ ~file'.torn /\ file'.exists = file.exists
    BY DEF Types, Files
  <1>3. file' \in Files
    <2>1. <<Header(cfg)>> \in Seq(Lines)
      BY <1>1 DEF Lines
    <2> QED BY <2>1 DEF Types, Files
  <1>4. \A m \in Matches : ~Has(m) /\ ~Has(m)'
    BY <1>1, <1>2, LinesDiffer DEF Has
  <1>6. Types'
    BY <1>3 DEF Types, PCs
  <1>7. FileInv'
    <2>1. ~file'.exists => file'.lines = <<>>
      BY <1>2 DEF PhaseInv, Reporting, Away
    <2> QED BY <1>1, <1>2, <2>1 DEF FileInv, FileOk
  <1>8. PhaseInv'
    BY <1>1, <1>2, <1>4 DEF PhaseInv, Reporting, Away
  <1>9. MatchInv'
    BY <1>4 DEF MatchInv, Failed, Taken, PhaseInv, NoRecords
  <1>10. TornInv'
    BY <1>2 DEF TornInv
  <1>11. ExitInv'
    BY DEF ExitInv
  <1>r. ReportInv'
    BY OutsideKeeps DEF Reporting
  <1> QED BY <1>r, <1>6, <1>7, <1>8, <1>9, <1>10, <1>11

----------------------------------------------------------------------------
\* A match that is played, written or ready is so in the pool's phase.
LEMMA OnlyInPlay ==
  ASSUME Types, PhaseInv, NEW m \in Matches, stage[m] \notin {"waiting", "ok"}
  PROVE  pc = "play"
  BY DEF PhaseInv, Types, PCs 

\* A step that leaves the file, the phase and the lock alone keeps what the
\* invariant says of them.
LEMMA PlayKeeps ==
  ASSUME FileInv, TornInv, ExitInv,
         UNCHANGED <<file, old, pc, cfg, lock, write_error, exit>>
  PROVE  /\ FileInv' /\ TornInv' /\ ExitInv'
         /\ \A m \in Matches : Has(m)' = Has(m)
  BY DEF FileInv, FileOk, OwnerOf, TornInv, ExitInv, Has

\* A claimed match the run took from the file is finished at once.
LEMMA ClaimStep == ASSUME IInv, NEW m \in Matches, Claim(m) PROVE IInv'
  <1> USE DEF IInv, Claim
  <1>1. /\ FileInv' /\ TornInv' /\ ExitInv'
        /\ \A k \in Matches : Has(k)' = Has(k) /\ Taken(k)' = Taken(k)
    BY PlayKeeps DEF Taken
  <1>2. stage \in [Matches -> Stages] /\ done \in [Matches -> Records \cup {NoRecord}]
        /\ result \in [Matches -> Records \cup {NoRecord}]
    BY DEF Types
  <1>3. \A k \in Matches : k # m => stage'[k] = stage[k] /\ result'[k] = result[k]
    BY <1>2 DEF Set
  <1>4. Taken(m) => stage'[m] = "ok" /\ result'[m] = done[m]
    BY <1>2 DEF Set
  <1>5. ~Taken(m) => stage'[m] = "playing" /\ result' = result
    BY <1>2 DEF Set
  <1>6. Types'
    <2>1. stage' \in [Matches -> Stages]
      BY <1>2 DEF Set, Stages
    <2>2. result' \in [Matches -> Records \cup {NoRecord}]
      BY <1>2
    <2> QED BY <2>1, <2>2 DEF Types
  <1>7. PhaseInv'
    BY <1>1, <1>3, <1>4, <1>5 DEF PhaseInv
  <1>8. MatchInv'
    <2> SUFFICES ASSUME NEW k \in Matches
                 PROVE  /\ Taken(k)' => /\ done'[k] = Record(cfg', k) /\ Has(k)'
                                        /\ stage'[k] \in {"waiting", "ok"}
                        /\ stage'[k] = "ok" =>
                             result'[k] = Record(cfg', k) /\ (Has(k)' \/ write_error')
                        /\ stage'[k] = "writing" <=> lock'.match = k
                        /\ stage'[k] = "stopped" =>
                             cancelled' \/ \E j \in Failed' : j < k
                        /\ stage'[k] # "waiting" =>
                             \A j \in 0 .. k - 1 : stage'[j] # "waiting"
      BY DEF MatchInv
    <2>1. Failed \subseteq Failed'
      BY <1>3 DEF Failed
    <2>2. \A j \in 0 .. k - 1 : j \in Matches
      BY DEF Matches
    <2>3. CASE k = m
      BY <1>1, <1>3, <1>4, <1>5, <2>2, <2>3 DEF MatchInv
    <2>4. CASE k # m
      BY <1>1, <1>3, <1>4, <1>5, <2>1, <2>2, <2>4 DEF MatchInv
    <2> QED BY <2>3, <2>4
  <1>r. ReportInv'
    BY OutsideKeeps DEF Reporting, Claim
  <1> QED BY <1>r, <1>1, <1>6, <1>7, <1>8

\* One match goes from a stage it is played in to another, and no result does.
LEMMA MoveStep ==
  ASSUME IInv, NEW m \in Matches, NEW s \in Stages \ {"waiting", "ok", "writing"},
         stage[m] = "playing",
         Set(m, s),
         s = "stopped" => cancelled \/ \E j \in Failed : j < m,
         UNCHANGED <<file, reports, old, pc, cfg, done, result, lock, write_error, cancelled,
                     exit, runs, kills, faults>>
  PROVE  IInv'
  <1> USE DEF IInv
  <1>1. /\ FileInv' /\ TornInv' /\ ExitInv'
        /\ \A k \in Matches : Has(k)' = Has(k) /\ Taken(k)' = Taken(k)
    BY PlayKeeps DEF Taken
  <1>2. /\ \A k \in Matches : k # m => stage'[k] = stage[k]
        /\ stage'[m] = s
        /\ stage' \in [Matches -> Stages]
    BY DEF Types, Set
  <1>3. pc = "play"
    BY OnlyInPlay
  <1>4. Types'
    BY <1>2 DEF Types
  <1>5. PhaseInv'
    BY <1>1, <1>2, <1>3 DEF PhaseInv
  <1>6. MatchInv'
    <2> SUFFICES ASSUME NEW k \in Matches
                 PROVE  /\ Taken(k)' => /\ done'[k] = Record(cfg', k) /\ Has(k)'
                                        /\ stage'[k] \in {"waiting", "ok"}
                        /\ stage'[k] = "ok" =>
                             result'[k] = Record(cfg', k) /\ (Has(k)' \/ write_error')
                        /\ stage'[k] = "writing" <=> lock'.match = k
                        /\ stage'[k] = "stopped" =>
                             cancelled' \/ \E j \in Failed' : j < k
                        /\ stage'[k] # "waiting" =>
                             \A j \in 0 .. k - 1 : stage'[j] # "waiting"
      BY DEF MatchInv
    <2>1. Failed \subseteq Failed'
      BY <1>2 DEF Failed
    <2>2. \A j \in 0 .. k - 1 : j \in Matches
      BY DEF Matches
    <2>3. CASE k = m
      BY <1>1, <1>2, <2>1, <2>2, <2>3 DEF MatchInv
    <2>4. CASE k # m
      BY <1>1, <1>2, <2>1, <2>2, <2>4 DEF MatchInv
    <2> QED BY <2>3, <2>4
  <1>r. ReportInv'
    BY <1>3, OutsideKeeps DEF Reporting
  <1> QED BY <1>r, <1>1, <1>4, <1>5, <1>6

\* A match played to its end is ready or failed.
LEMMA PlayStep == ASSUME IInv, NEW m \in Matches, Play(m) PROVE IInv'
  BY MoveStep DEF Play, Stages

\* A match stops for the flag or for a lower failure.
LEMMA StopStep == ASSUME IInv, NEW m \in Matches, Stop(m) PROVE IInv'
  BY MoveStep DEF Stop, Stages

\* The writer knows whether it starts on a new line.
LEMMA BeginLineStep == ASSUME IInv, NEW m \in Matches, BeginLine(m) PROVE IInv'
  <1> USE DEF IInv, BeginLine
  <1>1. file' \in Files /\ file'.lines = file.lines /\ file'.exists = file.exists
    BY DEF Types, Files
  <1>2. /\ \A k \in Matches : k # m => stage'[k] = stage[k]
        /\ stage'[m] = "writing"
        /\ stage' \in [Matches -> Stages]
    BY DEF Types, Set, Stages
  <1>3. pc = "play"
    BY OnlyInPlay
  <1>4. lock'.match = m /\ lock'.clean = ~file.torn
    OBVIOUS
  <1>5. \A k \in Matches : Has(k)' = Has(k) /\ Taken(k)' = Taken(k)
    BY <1>1 DEF Has, Taken
  <1>6. m # N
    BY DEF Matches
  <1>7. Types'
    <2>1. lock' \in [match : Matches \cup {N}, clean : BOOLEAN]
      BY DEF Types, Files
    <2> QED BY <1>1, <1>2, <2>1 DEF Types
  <1>8. FileInv'
    BY <1>1 DEF FileInv, FileOk, OwnerOf
  <1>9. PhaseInv'
    BY <1>1, <1>2, <1>3, <1>5 DEF PhaseInv
  <1>10. MatchInv'
    <2> SUFFICES ASSUME NEW k \in Matches
                 PROVE  /\ Taken(k)' => /\ done'[k] = Record(cfg', k) /\ Has(k)'
                                        /\ stage'[k] \in {"waiting", "ok"}
                        /\ stage'[k] = "ok" =>
                             result'[k] = Record(cfg', k) /\ (Has(k)' \/ write_error')
                        /\ stage'[k] = "writing" <=> lock'.match = k
                        /\ stage'[k] = "stopped" =>
                             cancelled' \/ \E j \in Failed' : j < k
                        /\ stage'[k] # "waiting" =>
                             \A j \in 0 .. k - 1 : stage'[j] # "waiting"
      BY DEF MatchInv
    <2>1. Failed \subseteq Failed'
      BY <1>2 DEF Failed
    <2>2. \A j \in 0 .. k - 1 : j \in Matches
      BY DEF Matches
    <2>3. lock.match = N
      BY DEF Unlocked
    <2>4. CASE k = m
      BY <1>2, <1>4, <1>5, <2>1, <2>2, <2>4 DEF MatchInv
    <2>5. CASE k # m
      BY <1>2, <1>4, <1>5, <1>6, <2>1, <2>2, <2>3, <2>5 DEF MatchInv, Matches
    <2> QED BY <2>4, <2>5
  <1>11. TornInv'
    BY <1>3, <1>4, <1>6 DEF TornInv, Unlocked
  <1>12. ExitInv'
    BY <1>3 DEF ExitInv
  <1>r. ReportInv'
    BY <1>3, OutsideKeeps DEF Reporting
  <1> QED BY <1>r, <1>7, <1>8, <1>9, <1>10, <1>11, <1>12

\* A finished line is the first of its match, and of the run's configuration.
LEMMA EndLineStep == ASSUME IInv, NEW m \in Matches, EndLine(m) PROVE IInv'
  <1> USE DEF IInv, EndLine
  <1> DEFINE l == IF lock.clean THEN Record(cfg, m) ELSE Garbage
  <1>1. pc = "play" /\ cfg \in Configs /\ cfg' = cfg
    BY OnlyInPlay DEF PhaseInv
  <1>2. /\ \A k \in Matches : k # m => stage'[k] = stage[k] /\ result'[k] = result[k]
        /\ stage'[m] = "ok" /\ result'[m] = Record(cfg, m)
        /\ stage' \in [Matches -> Stages]
        /\ result' \in [Matches -> Records \cup {NoRecord}]
    <2>1. Record(cfg, m) \in Records
      BY <1>1, LinesDiffer
    <2> QED BY <2>1 DEF Types, Set, Stages
  <1>3. /\ file.lines \in Seq(Lines) /\ file.lines # <<>>
        /\ OwnerOf(file) = cfg
    BY <1>1 DEF Types, Files, PhaseInv, OwnerOf, Header
  <1>4. l \in Lines
    BY <1>1, LinesDiffer DEF Lines
  <1>5. file'.lines = Append(file.lines, l) /\ file'.torn = FALSE /\ file'.exists = file.exists
    BY DEF Append1, Types, Files
  <1>6. file' \in Files
    <2>1. Append(file.lines, l) \in Seq(Lines)
      BY <1>3, <1>4
    <2> HIDE DEF l
    <2>2. file' = [file EXCEPT !.lines = Append(file.lines, l), !.torn = FALSE]
      BY DEF Append1, l
    <2> QED BY <2>1, <2>2 DEF Types, Files
  <1>7. Len(file.lines) \in Nat \ {0}
    BY <1>3
  <1>8. /\ DOMAIN file'.lines = DOMAIN file.lines \cup {Len(file.lines) + 1}
        /\ \A i \in DOMAIN file.lines : file'.lines[i] = file.lines[i]
        /\ file'.lines[Len(file.lines) + 1] = l
        /\ Len(file'.lines) = Len(file.lines) + 1
        /\ DOMAIN file.lines = 1 .. Len(file.lines)
    BY <1>3, <1>4, <1>5, <1>7
  <1>9. ~Taken(m) /\ ~Has(m)
    BY <1>1 DEF MatchInv, PhaseInv
  <1>10. \A k \in Matches : Has(k)' <=> (Has(k) \/ (k = m /\ lock.clean))
    <2>1. \A k \in Matches : l = Record(cfg, k) <=> (k = m /\ lock.clean)
      BY LinesDiffer
    <2> QED BY <1>1, <1>8, <2>1 DEF Has
  <1>11. \A k \in Matches : Taken(k)' = Taken(k)
    BY DEF Taken
  <1>12. lock.match = m /\ (lock.clean \/ write_error)
    BY DEF MatchInv, TornInv
  <1>13. Types'
    <2>1. lock' \in [match : Matches \cup {N}, clean : BOOLEAN]
      BY DEF Unlocked
    <2> QED BY <1>2, <1>6, <2>1 DEF Types
  <1>14. FileInv'
    <2>1. file'.lines[1] = file.lines[1] /\ OwnerOf(file)' = OwnerOf(file) /\ file'.lines # <<>>
      BY <1>3, <1>7, <1>8 DEF OwnerOf
    <2>2. ASSUME NEW i \in 2 .. Len(file'.lines)
          PROVE  file'.lines[i] = Garbage \/ \E k \in Matches : file'.lines[i] = Record(OwnerOf(file)', k)
      <3>1. CASE i = Len(file.lines) + 1
        BY <1>3, <1>8, <2>1, <3>1
      <3>2. CASE i # Len(file.lines) + 1
        <4>1. i \in 2 .. Len(file.lines)
          BY <1>7, <1>8, <3>2
        <4>2. file.lines[i] = Garbage \/ \E k \in Matches : file.lines[i] = Record(OwnerOf(file), k)
          BY <4>1 DEF FileInv, FileOk
        <4> QED BY <1>8, <2>1, <4>1, <4>2
      <3> QED BY <3>1, <3>2
    <2>3. ASSUME NEW i \in DOMAIN file'.lines, NEW j \in DOMAIN file'.lines,
                 file'.lines[i] = file'.lines[j], i # j
          PROVE  file'.lines[i] = Garbage
      <3>1. \A k \in DOMAIN file.lines : file.lines[k] # Record(cfg, m)
        BY <1>9 DEF Has
      <3>2. CASE i \in DOMAIN file.lines /\ j \in DOMAIN file.lines
        BY <1>8, <2>3, <3>2 DEF FileInv, FileOk
      <3>3. CASE i \notin DOMAIN file.lines \/ j \notin DOMAIN file.lines
        BY <1>8, <2>3, <3>1, <3>3
      <3> QED BY <3>2, <3>3
    <2>4. file'.exists
      BY <1>1, <1>5 DEF PhaseInv, Reporting, Away
    <2>5. \E c \in Configs : file'.lines[1] = Header(c)
      BY <1>1, <2>1 DEF PhaseInv
    <2> QED BY <2>2, <2>3, <2>4, <2>5 DEF FileInv, FileOk
  <1>15. PhaseInv'
    <2>1. file'.lines # <<>> /\ file'.lines[1] = Header(cfg)
      BY <1>1, <1>7, <1>8 DEF PhaseInv
    <2>2. \A k \in Matches : Has(k)' => Taken(k)' \/ stage'[k] = "ok"
      BY <1>1, <1>2, <1>10, <1>11 DEF PhaseInv
    <2> QED BY <1>1, <1>5, <2>1, <2>2 DEF PhaseInv
  <1>16. MatchInv'
    <2> SUFFICES ASSUME NEW k \in Matches
                 PROVE  /\ Taken(k)' => /\ done'[k] = Record(cfg', k) /\ Has(k)'
                                        /\ stage'[k] \in {"waiting", "ok"}
                        /\ stage'[k] = "ok" =>
                             result'[k] = Record(cfg', k) /\ (Has(k)' \/ write_error')
                        /\ stage'[k] = "writing" <=> lock'.match = k
                        /\ stage'[k] = "stopped" =>
                             cancelled' \/ \E j \in Failed' : j < k
                        /\ stage'[k] # "waiting" =>
                             \A j \in 0 .. k - 1 : stage'[j] # "waiting"
      BY DEF MatchInv
    <2>1. Failed \subseteq Failed'
      BY <1>2 DEF Failed
    <2>2. \A j \in 0 .. k - 1 : j \in Matches
      BY DEF Matches
    <2>3. lock'.match = N
      BY DEF Unlocked
    <2>4. CASE k = m
      BY <1>1, <1>2, <1>9, <1>10, <1>11, <1>12, <2>1, <2>2, <2>3, <2>4 DEF MatchInv, Matches
    <2>5. CASE k # m
      BY <1>1, <1>2, <1>10, <1>11, <1>12, <2>1, <2>2, <2>3, <2>5 DEF MatchInv, Matches
    <2> QED BY <2>4, <2>5
  <1>17. TornInv'
    BY <1>5 DEF TornInv, Unlocked
  <1>18. ExitInv'
    BY <1>1 DEF ExitInv
  <1>r. ReportInv'
    BY <1>1, OutsideKeeps DEF Reporting
  <1> QED BY <1>r, <1>13, <1>14, <1>15, <1>16, <1>17, <1>18

\* A line that failed is marked before anybody else writes.
LEMMA LineFailsStep == ASSUME IInv, NEW m \in Matches, LineFails(m) PROVE IInv'
  <1> USE DEF IInv, LineFails
  <1>1. pc = "play"
    BY OnlyInPlay
  <1>2. PICK torn \in {TRUE, ~lock.clean} : file' = [file EXCEPT !.torn = torn]
    OBVIOUS
  <1>3. file' \in Files /\ file'.lines = file.lines /\ file'.exists = file.exists
    <2>1. torn \in BOOLEAN
      OBVIOUS
    <2> QED BY <1>2, <2>1 DEF Types, Files
  <1>4. /\ \A k \in Matches : k # m => stage'[k] = stage[k]
        /\ stage'[m] = "failed"
        /\ stage' \in [Matches -> Stages]
    BY DEF Types, Set, Stages
  <1>5. \A k \in Matches : Has(k)' = Has(k) /\ Taken(k)' = Taken(k)
    BY <1>3 DEF Has, Taken
  <1>6. lock.match = m /\ lock'.match = N
    BY DEF MatchInv, Unlocked
  <1>7. Types'
    <2>1. lock' \in [match : Matches \cup {N}, clean : BOOLEAN]
      BY DEF Unlocked
    <2>2. faults' \in Nat
      BY DEF Types
    <2> QED BY <1>3, <1>4, <2>1, <2>2 DEF Types
  <1>8. FileInv'
    BY <1>3 DEF FileInv, FileOk, OwnerOf
  <1>9. PhaseInv'
    BY <1>1, <1>3, <1>4, <1>5 DEF PhaseInv
  <1>10. MatchInv'
    <2> SUFFICES ASSUME NEW k \in Matches
                 PROVE  /\ Taken(k)' => /\ done'[k] = Record(cfg', k) /\ Has(k)'
                                        /\ stage'[k] \in {"waiting", "ok"}
                        /\ stage'[k] = "ok" =>
                             result'[k] = Record(cfg', k) /\ (Has(k)' \/ write_error')
                        /\ stage'[k] = "writing" <=> lock'.match = k
                        /\ stage'[k] = "stopped" =>
                             cancelled' \/ \E j \in Failed' : j < k
                        /\ stage'[k] # "waiting" =>
                             \A j \in 0 .. k - 1 : stage'[j] # "waiting"
      BY DEF MatchInv
    <2>1. Failed \subseteq Failed'
      BY <1>4 DEF Failed
    <2>2. \A j \in 0 .. k - 1 : j \in Matches
      BY DEF Matches
    <2>3. CASE k = m
      BY <1>4, <1>5, <1>6, <2>1, <2>2, <2>3 DEF MatchInv, Matches
    <2>4. CASE k # m
      BY <1>4, <1>5, <1>6, <2>1, <2>2, <2>4 DEF MatchInv, Matches
    <2> QED BY <2>3, <2>4
  <1>11. TornInv'
    BY DEF TornInv, Unlocked
  <1>12. ExitInv'
    BY <1>1 DEF ExitInv
  <1>r. ReportInv'
    BY <1>1, OutsideKeeps DEF Reporting
  <1> QED BY <1>r, <1>7, <1>8, <1>9, <1>10, <1>11, <1>12

\* The flag changes nothing of a match.
LEMMA InterruptStep == ASSUME IInv, Interrupt PROVE IInv'
  <1> USE DEF IInv, Interrupt, run
  <1>1. /\ FileInv' /\ TornInv' /\ ExitInv'
        /\ \A k \in Matches : Has(k)' = Has(k) /\ Taken(k)' = Taken(k)
    BY PlayKeeps DEF Taken
  <1>2. Types'
    BY DEF Types
  <1>3. PhaseInv'
    BY <1>1 DEF PhaseInv
  <1>4. MatchInv'
    BY <1>1 DEF MatchInv, Failed
  <1>r. ReportInv'
    BY DEF ReportInv, Reporting, Away, Complete
  <1> QED BY <1>r, <1>1, <1>2, <1>3, <1>4

\* A kill leaves the file as it is.
LEMMA KillStep == ASSUME IInv, Kill PROVE IInv'
  <1> USE DEF IInv, Kill
  <1>1. Exit("killed") \in [kind : Exits, match : Matches \cup {N}]
        /\ Exit("killed").kind # "failure"
    BY ExitType DEF Exits
  <1>2. kills' \in Nat
    BY DEF Types
  <1>3. FileInv'
    BY NowhereIs DEF FileInv, FileOk
  <1> QED BY <1>1, <1>2, <1>3, LeaveStep DEF Types

\* A disk error outside the pool ends the run.
LEMMA DiskErrorStep == ASSUME IInv, DiskError PROVE IInv'
  <1> USE DEF IInv, DiskError
  <1> DEFINE e == Exit(IF pc \in {"report", "moveOld", "place"} THEN "unwritten"
                       ELSE "checkpoint")
  <1>1. e \in [kind : Exits, match : Matches \cup {N}] /\ e.kind # "failure"
    BY ExitType DEF Exits
  <1>2. faults' \in Nat
    BY DEF Types
  <1>3. old' = Nowhere
    BY DEF ReportInv, Away
  <1> HIDE DEF e
  <1> QED BY <1>1, <1>2, <1>3, LeaveStep, FileKeeps DEF Types, e

\* The pool returns the error of a match only when every lower one has its
\* line: the lower ones were claimed, nobody plays one, and none failed or was
\* stopped by an error, because this is the lowest.
LEMMA LowerAreThere ==
  ASSUME IInv, Joined, ~write_error, ~cancelled, Failed # {}
  PROVE  /\ First(Failed) \in Matches
         /\ \A k \in 0 .. First(Failed) - 1 : Has(k)
  <1> DEFINE f == First(Failed)
  <1>1. f \in Failed /\ \A k \in Failed : f <= k
    BY FirstIsLeast DEF Failed
  <1>2. f \in Matches
    BY <1>1 DEF Failed
  <1> HIDE DEF f
  <1>3. ASSUME NEW k \in 0 .. f - 1 PROVE Has(k)
    <2>1. k \in Matches /\ k < f
      BY <1>2 DEF Matches
    <2>2. stage[k] # "waiting"
      BY <1>1, <1>2 DEF IInv, MatchInv, Failed
    <2>3. k \notin Failed
      BY <1>1, <1>2, <2>1 DEF Matches
    <2>4. stage[k] # "stopped"
      <3>1. \A j \in Failed : ~(j < k)
        BY <1>1, <1>2, <2>1 DEF Failed, Matches
      <3> QED BY <2>1, <3>1 DEF IInv, MatchInv
    <2>5. stage[k] \notin {"playing", "ready", "writing"}
      BY <2>1 DEF Joined, Running
    <2>6. stage[k] = "ok"
      BY <2>1, <2>2, <2>3, <2>4, <2>5 DEF IInv, Types, Stages, Failed
    <2> QED BY <2>1, <2>6 DEF IInv, MatchInv
  <1> QED BY <1>2, <1>3 DEF f

\* The pool's outcome ends the run or brings it to its reports.
LEMMA CollectStep == ASSUME IInv, Collect PROVE IInv'
  <1> USE DEF IInv, Collect
  <1> DEFINE e == [kind |-> "failure", match |-> First(Failed)]
  <1>1. /\ FileInv' /\ \A k \in Matches : Has(k)' = Has(k)
        /\ pc = "play" /\ file \in Files /\ old' = Nowhere
    BY FileKeeps DEF Types, ReportInv, Away
  <1>2. CASE write_error
    <2>1. Leave(Exit("checkpoint"))
      BY <1>2
    <2>2. Exit("checkpoint") \in [kind : Exits, match : Matches \cup {N}]
          /\ Exit("checkpoint").kind # "failure"
      BY ExitType DEF Exits
    <2> QED BY <1>1, <2>1, <2>2, LeaveStep DEF Types
  <1>3. CASE ~write_error /\ cancelled
    <2>1. Leave(Exit("interrupted"))
      BY <1>3
    <2>2. Exit("interrupted") \in [kind : Exits, match : Matches \cup {N}]
          /\ Exit("interrupted").kind # "failure"
      BY ExitType DEF Exits
    <2> QED BY <1>1, <2>1, <2>2, LeaveStep DEF Types
  <1>4. CASE ~write_error /\ ~cancelled /\ Failed # {}
    <2>1. Leave(e)
      BY <1>4
    <2>2. /\ First(Failed) \in Matches
          /\ \A k \in 0 .. First(Failed) - 1 : Has(k)
      BY <1>4, LowerAreThere
    <2>3. e \in [kind : Exits, match : Matches \cup {N}] /\ e.match = First(Failed)
      BY <2>2 DEF Exits
    <2>4. \A k \in 0 .. e.match - 1 : k \in Matches
      BY <2>2, <2>3 DEF Matches
    <2>5. \A k \in 0 .. e.match - 1 : Has(k)'
      BY <1>1, <2>2, <2>3, <2>4
    <2> HIDE DEF e
    <2> QED BY <1>1, <2>1, <2>3, <2>5, LeaveStep DEF Types
  <1>5. CASE ~write_error /\ ~cancelled /\ Failed = {}
    <2>1. /\ pc' = "report" /\ done' = NoRecords
          /\ stage' = [m \in Matches |-> "waiting"]
          /\ UNCHANGED <<result, lock, write_error, exit>>
      BY <1>5
    <2>2. Running = {} /\ Claimed = Matches
      BY <1>5 DEF Joined
    <2>3. ASSUME NEW k \in Matches PROVE stage[k] = "ok"
      <3>1. stage[k] \notin {"waiting", "playing", "ready", "writing", "failed"}
        BY <1>5, <2>2 DEF Running, Claimed, Failed
      <3>2. stage[k] # "stopped"
        BY <1>5 DEF MatchInv
      <3> QED BY <3>1, <3>2 DEF Types, Stages
    <2>4. \A k \in Matches : result[k] = Record(cfg, k) /\ Has(k)
      BY <1>5, <2>3 DEF MatchInv
    <2>5. Types'
      BY <2>1 DEF Types, PCs, Reporting, NoRecords, Stages
    <2>6. lock = Unlocked
      <3>1. lock.match = N /\ lock.clean
        BY <2>3 DEF MatchInv, TornInv, Types, Matches
      <3> QED BY <3>1 DEF Types, Unlocked
    <2>7. PhaseInv'
      BY <1>1, <1>5, <2>1, <2>6 DEF PhaseInv, Reporting, Away
    <2>8. ReportInv'
      <3>1. result = [k \in Matches |-> Record(cfg, k)]
        BY <2>4 DEF Types
      <3>2. Complete(file)
        BY <1>1, <2>4 DEF Complete, PhaseInv, Has
      <3>3. Complete(file)'
        BY <3>2 DEF Complete
      <3> QED BY <1>1, <2>1, <3>1, <3>3 DEF ReportInv, Reporting, Away
    <2>9. MatchInv'
      BY <2>1, <2>6 DEF MatchInv, Taken, Failed, NoRecords, Unlocked, Matches
    <2>10. TornInv'
      BY <1>1, <2>1 DEF TornInv
    <2>11. ExitInv'
      BY <1>1, <2>1 DEF ExitInv
    <2> QED BY <1>1, <2>5, <2>7, <2>8, <2>9, <2>10, <2>11
  <1> QED BY <1>2, <1>3, <1>4, <1>5

\* A run that stays at its reports keeps what it has: only its results and the
\* directories count.
LEMMA ReportingStep ==
  ASSUME IInv, pc \in Reporting, pc' \in Reporting, UNCHANGED <<cfg, run, cancelled, exit>>,
         file' \in Files, reports' \in [Matches -> Records \cup {NoRecord}],
         old' \in [file : Files, reports : [Matches -> Records \cup {NoRecord}]],
         FileInv', ReportInv', pc' \notin Away => file'.exists,
         runs' \in Nat, kills' \in Nat, faults' \in Nat
  PROVE  IInv'
  <1> USE DEF IInv, run
  <1>1. pc \notin {"down", "create", "header", "cut", "play", "load"}
        /\ pc' \notin {"down", "create", "header", "cut", "play", "load"}
    BY DEF Reporting
  <1>2. Types'
    BY DEF Types, PCs
  <1>3. PhaseInv'
    BY <1>1 DEF PhaseInv
  <1>4. MatchInv'
    BY <1>1 DEF MatchInv, PhaseInv, Taken, NoRecords, Unlocked, Matches
  <1>5. TornInv'
    BY <1>1 DEF TornInv
  <1>6. ExitInv'
    BY <1>1 DEF ExitInv
  <1> QED BY <1>2, <1>3, <1>4, <1>5, <1>6

\* A run that writes its reports ends with an error or with them.
LEMMA ReportingLeaves ==
  ASSUME IInv, NEW kind \in Exits \ {"failure"}, Leave(Exit(kind)),
         old' = Nowhere, UNCHANGED <<cfg, cancelled>>,
         file' \in Files, FileOk(file'),
         reports' \in [Matches -> Records \cup {NoRecord}],
         runs' \in Nat, kills' \in Nat, faults' \in Nat
  PROVE  IInv'
  <1>1. Exit(kind) \in [kind : Exits, match : Matches \cup {N}]
        /\ Exit(kind).kind # "failure"
    BY ExitType
  <1>2. FileInv'
    BY NowhereIs DEF FileInv, FileOk, OwnerOf
  <1> QED BY <1>1, <1>2, LeaveStep DEF IInv

\* Staging changes nothing of the directory.
LEMMA ReportStep == ASSUME IInv, Report PROVE IInv'
  <1> USE DEF IInv, Report
  <1>1. CASE cancelled
    <2>1. Leave(Exit("interrupted")) /\ old' = Nowhere
      BY <1>1 DEF ReportInv, Away
    <2>2. "interrupted" \in Exits \ {"failure"}
      BY DEF Exits
    <2> QED BY <2>1, <2>2, ReportingLeaves DEF Types, FileInv
  <1>2. CASE ~cancelled
    <2>1. pc' \in {"moveOld", "place"} /\ UNCHANGED <<run, exit>>
      BY <1>2
    <2>2. ReportInv'
      BY <2>1 DEF ReportInv, Reporting, Away, Complete, run
    <2>3. pc \in Reporting /\ pc' \in Reporting /\ pc' \notin Away /\ file'.exists
      BY <2>1 DEF Reporting, Away, PhaseInv
    <2>4. FileInv'
      BY FileKeeps
    <2> QED BY <2>1, <2>2, <2>3, <2>4, ReportingStep DEF Types
  <1> QED BY <1>1, <1>2

\* The directory set aside has the file with every match.
LEMMA MoveOldStep == ASSUME IInv, MoveOld PROVE IInv'
  <1> USE DEF IInv, MoveOld
  <1>1. pc \in Reporting \ Away /\ pc' \in Away /\ pc' \in Reporting
    BY DEF Reporting, Away
  <1>2. old'.file = file /\ old'.reports = reports /\ file' = NoFile
    OBVIOUS
  <1>3. ReportInv'
    BY <1>1, <1>2 DEF ReportInv, Complete, run
  <1>4. FileInv'
    BY <1>2, NowhereIs DEF FileInv, FileOk, OwnerOf
  <1>5. old' \in [file : Files, reports : [Matches -> Records \cup {NoRecord}]]
    BY DEF Types
  <1>6. file' \in Files /\ reports' \in [Matches -> Records \cup {NoRecord}]
    BY <1>2, NowhereIs DEF NoRecords
  <1>7. runs' \in Nat /\ kills' \in Nat /\ faults' \in Nat
    BY DEF Types
  <1> QED BY <1>1, <1>3, <1>4, <1>5, <1>6, <1>7, ReportingStep

\* The new directory has the run's results.
LEMMA MoveNewStep == ASSUME IInv, MoveNew PROVE IInv'
  <1> USE DEF IInv, MoveNew
  <1>1. pc \in Away /\ pc' \in Away /\ pc \in Reporting /\ pc' \in Reporting
    BY DEF Reporting, Away
  <1>2. ReportInv'
    BY <1>1 DEF ReportInv, Complete, run
  <1>3. FileInv'
    BY FileKeeps
  <1> QED BY <1>1, <1>2, <1>3, ReportingStep DEF Types, run

\* A second rename that fails changes nothing yet.
LEMMA MoveNewFailsStep == ASSUME IInv, MoveNewFails PROVE IInv'
  <1> USE DEF IInv, MoveNewFails
  <1>1. pc \in Away /\ pc' \in Away /\ pc \in Reporting /\ pc' \in Reporting
    BY DEF Reporting, Away
  <1>2. ReportInv'
    BY <1>1 DEF ReportInv, Complete, run
  <1>3. FileInv'
    BY FileKeeps
  <1>4. faults' \in Nat
    BY DEF Types
  <1> QED BY <1>1, <1>2, <1>3, <1>4, ReportingStep DEF Types

\* What was set aside is as it was when it is put back.
LEMMA RestoreStep == ASSUME IInv, Restore PROVE IInv'
  <1> USE DEF IInv, Restore
  <1>1. "unwritten" \in Exits \ {"failure"}
    BY DEF Exits
  <1>2. file' \in Files /\ reports' \in [Matches -> Records \cup {NoRecord}]
        /\ FileOk(file')
    BY DEF Types, FileInv
  <1> QED BY <1>1, <1>2, ReportingLeaves DEF Types

\* Nothing is there for a resume when the run is done with the old directory.
LEMMA OldGoesStep == ASSUME IInv, RemoveOld \/ LeaveOld PROVE IInv'
  <1> USE DEF IInv
  <1>1. PICK kind \in {"reported", "unwritten"} : Leave(Exit(kind))
    BY DEF RemoveOld, LeaveOld
  <1>2. kind \in Exits \ {"failure"}
    BY DEF Exits
  <1>3. /\ old' = Nowhere /\ UNCHANGED <<file, reports, cfg, cancelled, runs, kills>>
        /\ faults' \in Nat
    BY DEF RemoveOld, LeaveOld, Types
  <1> QED BY <1>1, <1>2, <1>3, ReportingLeaves DEF Types, FileInv

\* In place, the reports and the checkpoint are both there for a while.
LEMMA PlaceStep == ASSUME IInv, Place PROVE IInv'
  <1> USE DEF IInv, Place
  <1>1. pc \notin Away /\ pc' \notin Away /\ pc \in Reporting /\ pc' \in Reporting
    BY DEF Reporting, Away
  <1>2. ReportInv'
    BY <1>1 DEF ReportInv, Complete, run
  <1>3. FileInv'
    BY FileKeeps
  <1>4. file'.exists
    BY <1>1 DEF PhaseInv, Reporting
  <1> QED BY <1>1, <1>2, <1>3, <1>4, ReportingStep DEF Types, run

\* In place, the checkpoint goes last or stays.
LEMMA StaleStep == ASSUME IInv, RemoveStale \/ RemoveStaleFails PROVE IInv'
  <1> USE DEF IInv
  <1>1. PICK kind \in {"reported", "unwritten"} : Leave(Exit(kind))
    BY DEF RemoveStale, RemoveStaleFails
  <1>2. kind \in Exits \ {"failure"}
    BY DEF Exits
  <1>3. /\ old' = Nowhere /\ UNCHANGED <<reports, cfg, cancelled, runs, kills>>
        /\ faults' \in Nat /\ file' \in {file, NoFile}
    BY DEF RemoveStale, RemoveStaleFails, Types, ReportInv, Away
  <1>4. file' \in Files /\ FileOk(file')
    BY <1>3, NowhereIs DEF Types, FileInv
  <1> QED BY <1>1, <1>2, <1>3, <1>4, ReportingLeaves DEF Types

\* Every step of a run, and the end of one, leaves the invariant true.
LEMMA NextIInv == IInv /\ [Next]_vars => IInv'
  <1> SUFFICES ASSUME IInv, [Next]_vars PROVE IInv'
    OBVIOUS
  <1>1. ASSUME NEW c \in Configs, Start(c) PROVE IInv'
    BY <1>1, StartStep
  <1>2. CASE Load \/ Cut \/ Create \/ WriteHeader
    BY <1>2, LoadStep, CutStep, CreateStep, WriteHeaderStep
  <1>3. CASE Collect \/ Report
    BY <1>3, CollectStep, ReportStep
  <1>4. ASSUME NEW m \in Matches, Claim(m) \/ Play(m) \/ Stop(m) PROVE IInv'
    BY <1>4, ClaimStep, PlayStep, StopStep
  <1>5. ASSUME NEW m \in Matches, BeginLine(m) \/ EndLine(m) \/ LineFails(m) PROVE IInv'
    BY <1>5, BeginLineStep, EndLineStep, LineFailsStep
  <1>6. CASE DiskError \/ Interrupt \/ Kill
    BY <1>6, DiskErrorStep, InterruptStep, KillStep
  <1>7. CASE MoveOld \/ MoveNew \/ MoveNewFails \/ Restore \/ RemoveOld \/ LeaveOld
    BY <1>7, MoveOldStep, MoveNewStep, MoveNewFailsStep, RestoreStep, OldGoesStep
  <1>8. CASE Place \/ RemoveStale \/ RemoveStaleFails
    BY <1>8, PlaceStep, StaleStep
  <1>9. CASE UNCHANGED vars
    <2>1. /\ FileInv' /\ TornInv' /\ ExitInv'
          /\ \A k \in Matches : Has(k)' = Has(k) /\ Taken(k)' = Taken(k)
      BY <1>9, PlayKeeps DEF IInv, vars, run, Taken
    <2>2. Types'
      BY <1>9 DEF IInv, Types, vars, run
    <2>3. PhaseInv'
      BY <1>9, <2>1 DEF IInv, PhaseInv, vars, run
    <2>4. MatchInv'
      BY <1>9, <2>1 DEF IInv, MatchInv, Failed, vars, run
    <2>5. ReportInv'
      BY <1>9 DEF IInv, ReportInv, Complete, vars, run
    <2> QED BY <2>5, <2>1, <2>2, <2>3, <2>4 DEF IInv
  <1> QED BY <1>1, <1>2, <1>3, <1>4, <1>5, <1>6, <1>7, <1>8, <1>9 DEF Next, Work

\* The inductive invariant holds in every state a run can reach.
THEOREM Invariant == Spec => []IInv
  <1>1. Init => IInv
    BY InitIInv
  <1>2. IInv /\ [Next]_vars => IInv'
    BY NextIInv
  <1> QED BY <1>1, <1>2, PTL DEF Spec

\* However often runs of however many configurations were killed, interrupted
\* or met disk errors, the file has no match twice, and a run that reported the
\* error of a match left the records of all lower ones (checkpoint.rs:275-409).
THEOREM OneLine == Spec => []OneLineOfEach
  <1>1. IInv => OneLineOfEach
    <2> SUFFICES ASSUME IInv PROVE OneLineOfEach
      OBVIOUS
    <2>1. exit.kind = "failure" =>
            \A k \in 0 .. exit.match - 1 : Record(cfg, k) \in ToSet(file.lines)
      BY DEF IInv, ExitInv, Has, ToSet
    <2> QED BY <2>1 DEF IInv, FileInv, FileOk, OneLineOfEach
  <1> QED BY <1>1, Invariant, PTL

----------------------------------------------------------------------------
\* What the contract sees of a file of the run's configuration.
LEMMA KeptIs ==
  ASSUME NEW f, f.lines # <<>>, f.lines[1] = Header(cfg)
  PROVE  /\ OwnerOf(f) = cfg
         /\ KeptOf(f) = {m \in Matches : \E i \in DOMAIN f.lines : f.lines[i] = Record(cfg, m)}
  BY DEF OwnerOf, Header, KeptOf

\* A file with every match.
LEMMA CompleteIs ==
  ASSUME NEW f, Complete(f)
  PROVE  OwnerOf(f) = cfg /\ KeptOf(f) = Matches
  <1>1. OwnerOf(f) = cfg
        /\ KeptOf(f) = {m \in Matches : \E i \in DOMAIN f.lines : f.lines[i] = Record(cfg, m)}
    BY KeptIs DEF Complete
  <1> QED BY <1>1 DEF Complete

\* No file belongs to nobody.
LEMMA NoFileIs ==
  /\ OwnerOf(NoFile) = NoConfig /\ KeptOf(NoFile) = {}
  /\ NoRecords = Contract!NoReports
  /\ old = Nowhere => Aside = Contract!Nowhere
  <1>1. OwnerOf(NoFile) = NoConfig /\ KeptOf(NoFile) = {}
    BY DEF OwnerOf, KeptOf, NoFile
  <1>2. NoRecords = Contract!NoReports
    BY DEF NoRecords, NoRecord, Contract!NoReports
  <1>3. old = Nowhere => Aside = Contract!Nowhere
    BY <1>1, <1>2 DEF Aside, Nowhere, Contract!Nowhere
  <1> QED BY <1>1, <1>2, <1>3

\* A step that appends no line, writes no reports and moves no directory shows
\* nothing.
LEMMA ShowsNothing ==
  ASSUME file'.lines = file.lines, reports' = reports, old' = old
  PROVE  UNCHANGED Contract!vars
  BY DEF Contract!vars, OwnerOf, KeptOf, Aside

\* What the contract sees of the directory set aside.
LEMMA AsideIs ==
  ASSUME IInv
  PROVE  /\ pc \in Away => /\ cfg \in Configs /\ cfg # NoConfig
                           /\ Aside = [owner |-> cfg, kept |-> Matches, reports |-> old.reports]
                           /\ OwnerOf(file) = NoConfig /\ KeptOf(file) = {}
         /\ pc \notin Away => old = Nowhere /\ Aside = Contract!Nowhere
  <1>1. ASSUME pc \in Away
        PROVE  /\ cfg \in Configs /\ cfg # NoConfig
               /\ Aside = [owner |-> cfg, kept |-> Matches, reports |-> old.reports]
               /\ OwnerOf(file) = NoConfig /\ KeptOf(file) = {}
    <2>1. Complete(old.file) /\ file = NoFile /\ cfg \in Configs
      BY <1>1 DEF IInv, ReportInv, PhaseInv, Away
    <2>2. OwnerOf(old.file) = cfg /\ KeptOf(old.file) = Matches
      BY <2>1, CompleteIs
    <2> QED BY <2>1, <2>2, NoFileIs DEF Aside
  <1>2. pc \notin Away => old = Nowhere /\ Aside = Contract!Nowhere
    BY NoFileIs DEF IInv, ReportInv
  <1> QED BY <1>1, <1>2

\* The header of a new file gives it to a configuration.
LEMMA HeaderAdopts == ASSUME IInv, WriteHeader PROVE Contract!Adopt
  <1>1. file.lines = <<>> /\ cfg \in Configs /\ reports' = reports /\ old' = old
        /\ pc \notin Away
    BY DEF IInv, PhaseInv, WriteHeader, Away
  <1>2. file'.lines = <<Header(cfg)>>
    BY DEF WriteHeader, IInv, Types, Files
  <1>3. OwnerOf(file) = NoConfig /\ OwnerOf(file)' = cfg
    BY <1>1, <1>2 DEF OwnerOf, Header
  <1>4. KeptOf(file) = {} /\ KeptOf(file)' = {}
    BY <1>1, <1>2, LinesDiffer DEF KeptOf
  <1>5. Aside = Contract!Nowhere /\ Aside' = Aside
    BY <1>1, AsideIs DEF Aside
  <1> QED BY <1>1, <1>3, <1>4, <1>5 DEF Contract!Adopt

\* A finished line keeps one match, or none when a torn one was before it.
LEMMA LineKeeps ==
  ASSUME IInv, NEW m \in Matches, EndLine(m)
  PROVE  Contract!Keep \/ UNCHANGED Contract!vars
  <1> DEFINE l == IF lock.clean THEN Record(cfg, m) ELSE Garbage
  <1>1. pc = "play" /\ cfg \in Configs /\ cfg' = cfg /\ cfg # NoConfig /\ reports' = reports
        /\ Aside' = Aside
    BY OnlyInPlay DEF IInv, PhaseInv, EndLine, Aside
  <1>2. file.lines # <<>> /\ file.lines[1] = Header(cfg) /\ file.lines \in Seq(Lines)
    BY <1>1 DEF IInv, PhaseInv, Types, Files
  <1>3. file'.lines = Append(file.lines, l)
    BY DEF EndLine, Append1, IInv, Types, Files
  <1>4. l \in Lines
    BY <1>1, LinesDiffer DEF Lines
  <1>5. Len(file.lines) \in Nat \ {0}
    BY <1>2
  <1>6. /\ DOMAIN file'.lines = DOMAIN file.lines \cup {Len(file.lines) + 1}
        /\ \A i \in DOMAIN file.lines : file'.lines[i] = file.lines[i]
        /\ file'.lines[Len(file.lines) + 1] = l
        /\ 1 \in DOMAIN file.lines
    BY <1>2, <1>3, <1>4, <1>5
  <1>7. \A k \in Matches : l = Record(cfg, k) <=> (k = m /\ lock.clean)
    BY LinesDiffer
  <1>8. \A k \in Matches : Has(k)' <=> (Has(k) \/ (k = m /\ lock.clean))
    BY <1>1, <1>6, <1>7 DEF Has
  <1>9. file'.lines # <<>> /\ file'.lines[1] = Header(cfg')
    BY <1>1, <1>2, <1>6
  <1>10. OwnerOf(file)' = cfg /\ KeptOf(file)' = {k \in Matches : Has(k)'}
    BY <1>1, <1>9 DEF OwnerOf, Header, KeptOf, Has
  <1>11. OwnerOf(file) = cfg /\ KeptOf(file) = {k \in Matches : Has(k)}
    BY <1>2, KeptIs DEF Has
  <1>12. ~Has(m)
    BY <1>1 DEF IInv, MatchInv, PhaseInv, EndLine
  <1>13. CASE lock.clean
    <2>1. m \in Matches \ KeptOf(file) /\ KeptOf(file)' = KeptOf(file) \cup {m}
      BY <1>8, <1>10, <1>11, <1>12, <1>13
    <2> QED BY <1>1, <1>10, <1>11, <2>1 DEF Contract!Keep
  <1>14. CASE ~lock.clean
    <2>1. KeptOf(file)' = KeptOf(file)
      BY <1>8, <1>10, <1>11, <1>14
    <2> QED BY <1>1, <1>10, <1>11, <2>1 DEF Contract!vars
  <1> QED BY <1>13, <1>14

\* What a run that comes to its reports has.
LEMMA ReportingHas ==
  ASSUME IInv, pc \in Reporting
  PROVE  /\ cfg \in Configs /\ cfg # NoConfig
         /\ result = Contract!Reports(cfg)
         /\ pc \notin Away => OwnerOf(file) = cfg /\ KeptOf(file) = Matches
  <1>1. cfg \in Configs /\ result = [m \in Matches |-> Record(cfg, m)]
    BY DEF IInv, PhaseInv, ReportInv, Reporting
  <1>2. result = Contract!Reports(cfg)
    BY <1>1 DEF Record, Contract!Reports, Contract!Record
  <1>3. pc \notin Away => OwnerOf(file) = cfg /\ KeptOf(file) = Matches
    BY CompleteIs DEF IInv, ReportInv
  <1> QED BY <1>1, <1>2, <1>3

\* The first rename sets the complete file aside.
LEMMA MoveOldSetsAside == ASSUME IInv, MoveOld PROVE Contract!SetAside
  <1>1. pc \in Reporting /\ pc \notin Away
    BY DEF MoveOld, Reporting, Away
  <1>2. /\ OwnerOf(file) = cfg /\ KeptOf(file) = Matches /\ cfg # NoConfig
        /\ Aside = Contract!Nowhere
    BY <1>1, ReportingHas, AsideIs
  <1>3. file' = NoFile /\ reports' = NoRecords /\ old' = [file |-> file, reports |-> reports]
    BY DEF MoveOld
  <1>4. Aside' = [owner |-> OwnerOf(file), kept |-> KeptOf(file), reports |-> reports]
    BY <1>3 DEF Aside
  <1>5. OwnerOf(file)' = NoConfig /\ KeptOf(file)' = {} /\ reports' = Contract!NoReports
    BY <1>3, NoFileIs
  <1> QED BY <1>2, <1>4, <1>5 DEF Contract!SetAside

\* The second rename publishes every match of the file set aside.
LEMMA MoveNewTakesPlace == ASSUME IInv, MoveNew PROVE Contract!TakePlace
  <1>1. pc \in Reporting /\ pc \in Away
    BY DEF MoveNew, Reporting, Away
  <1>2. Aside.owner = cfg /\ cfg # NoConfig /\ reports' = Contract!Reports(cfg)
    BY <1>1, ReportingHas, AsideIs DEF MoveNew
  <1>3. Aside' = Aside /\ UNCHANGED file
    BY DEF MoveNew, Aside
  <1>4. OwnerOf(file)' = OwnerOf(file) /\ KeptOf(file)' = KeptOf(file)
    BY <1>3
  <1> QED BY <1>2, <1>3, <1>4 DEF Contract!TakePlace

\* A restore puts everything back.
LEMMA RestorePutsBack == ASSUME IInv, Restore PROVE Contract!PutBack
  <1>1. pc \in Away
    BY DEF Restore, Away
  <1>2. Aside.owner # NoConfig
    BY <1>1, AsideIs
  <1>3. file' = old.file /\ reports' = old.reports /\ old' = Nowhere
    BY DEF Restore
  <1>4. Aside' = Contract!Nowhere
    BY <1>3, NoFileIs DEF Aside, Nowhere, Contract!Nowhere
  <1>5. OwnerOf(file)' = Aside.owner /\ KeptOf(file)' = Aside.kept /\ reports' = Aside.reports
    BY <1>3 DEF Aside
  <1> QED BY <1>2, <1>4, <1>5 DEF Contract!PutBack

\* A run that stops, or is done, forgets what it had set aside.
LEMMA ForgetsAside ==
  ASSUME IInv, old' = Nowhere, UNCHANGED <<file, reports>>
  PROVE  Contract!Drop \/ UNCHANGED Contract!vars
  <1>1. CASE pc \in Away
    <2>1. Aside.owner # NoConfig
      BY <1>1, AsideIs
    <2>2. Aside' = Contract!Nowhere
      BY NoFileIs DEF Aside, Nowhere, Contract!Nowhere
    <2>3. OwnerOf(file)' = OwnerOf(file) /\ KeptOf(file)' = KeptOf(file)
      OBVIOUS
    <2> QED BY <2>1, <2>2, <2>3 DEF Contract!Drop
  <1>2. CASE pc \notin Away
    <2>1. old' = old
      BY <1>2, AsideIs
    <2> QED BY <2>1, ShowsNothing
  <1> QED BY <1>1, <1>2

\* In place, results.json publishes every match of the file beside it.
LEMMA PlacePublishes == ASSUME IInv, Place PROVE Contract!Publish
  <1>1. pc \in Reporting /\ pc \notin Away
    BY DEF Place, Reporting, Away
  <1>2. /\ OwnerOf(file) = cfg /\ KeptOf(file) = Matches /\ cfg # NoConfig
        /\ reports' = Contract!Reports(cfg)
    BY <1>1, ReportingHas DEF Place
  <1>3. Aside' = Aside /\ UNCHANGED file
    BY DEF Place, Aside
  <1>4. OwnerOf(file)' = OwnerOf(file) /\ KeptOf(file)' = KeptOf(file)
    BY <1>3
  <1> QED BY <1>2, <1>3, <1>4 DEF Contract!Publish

\* The checkpoint goes only when the reports of all its matches are there.
LEMMA StaleForgets ==
  ASSUME IInv, RemoveStale \/ RemoveStaleFails
  PROVE  Contract!Forget \/ UNCHANGED Contract!vars
  <1>1. pc = "stale" /\ file' \in {file, NoFile} /\ UNCHANGED <<reports, old>>
    BY DEF RemoveStale, RemoveStaleFails
  <1>2. pc \in Reporting /\ pc \notin Away
    BY <1>1 DEF Reporting, Away
  <1>3. OwnerOf(file) = cfg /\ cfg # NoConfig /\ reports = Contract!Reports(cfg)
    BY <1>1, <1>2, ReportingHas DEF IInv, ReportInv
  <1>4. CASE file' = file
    BY <1>1, <1>4, ShowsNothing
  <1>5. CASE file' = NoFile
    <2>1. OwnerOf(file)' = NoConfig /\ KeptOf(file)' = {}
      BY <1>5, NoFileIs
    <2>2. Aside' = Aside
      BY <1>1 DEF Aside
    <2> QED BY <1>1, <1>3, <2>1, <2>2 DEF Contract!Forget
  <1> QED BY <1>1, <1>4, <1>5

\* Every step of a run is a step of the contract or shows nothing.
LEMMA StepShows == IInv /\ [Next]_vars => [Contract!Next]_Contract!vars
  <1> SUFFICES ASSUME IInv, [Next]_vars PROVE Contract!Next \/ UNCHANGED Contract!vars
    OBVIOUS
  <1>1. ASSUME NEW c \in Configs, Start(c) PROVE UNCHANGED Contract!vars
    BY <1>1, ShowsNothing DEF Start
  <1>2. CASE Load \/ DiskError \/ Collect \/ Interrupt \/ Report \/ MoveNewFails
    BY <1>2, ShowsNothing DEF Load, DiskError, Collect, Interrupt, Report, MoveNewFails
  <1>3. CASE Cut
    <2>1. file'.lines = file.lines
      BY <1>3 DEF Cut, DropPartialLine, IInv, Types, Files
    <2> QED BY <1>3, <2>1, ShowsNothing DEF Cut
  <1>4. CASE Create
    <2>1. file'.lines = file.lines
      BY <1>4 DEF Create, IInv, PhaseInv
    <2> QED BY <1>4, <2>1, ShowsNothing DEF Create
  <1>5. CASE WriteHeader
    BY <1>5, HeaderAdopts DEF Contract!Next
  <1>6. ASSUME NEW m \in Matches, Claim(m) \/ Play(m) \/ Stop(m)
        PROVE  UNCHANGED Contract!vars
    BY <1>6, ShowsNothing DEF Claim, Play, Stop
  <1>7. ASSUME NEW m \in Matches, BeginLine(m) PROVE UNCHANGED Contract!vars
    <2>1. file'.lines = file.lines
      BY <1>7 DEF BeginLine, IInv, Types, Files
    <2> QED BY <1>7, <2>1, ShowsNothing DEF BeginLine
  <1>8. ASSUME NEW m \in Matches, LineFails(m) PROVE UNCHANGED Contract!vars
    <2>1. file'.lines = file.lines
      BY <1>8 DEF LineFails, IInv, Types, Files
    <2> QED BY <1>8, <2>1, ShowsNothing DEF LineFails
  <1>9. ASSUME NEW m \in Matches, EndLine(m)
        PROVE  Contract!Next \/ UNCHANGED Contract!vars
    BY <1>9, LineKeeps DEF Contract!Next
  <1>10. CASE MoveOld \/ MoveNew \/ Restore \/ Place
    BY <1>10, MoveOldSetsAside, MoveNewTakesPlace, RestorePutsBack, PlacePublishes
    DEF Contract!Next
  <1>11. CASE Kill \/ RemoveOld \/ LeaveOld
    <2>1. old' = Nowhere /\ UNCHANGED <<file, reports>>
      BY <1>11 DEF Kill, RemoveOld, LeaveOld
    <2> QED BY <2>1, ForgetsAside DEF Contract!Next
  <1>12. CASE RemoveStale \/ RemoveStaleFails
    BY <1>12, StaleForgets DEF Contract!Next
  <1>13. CASE UNCHANGED vars
    BY <1>13, ShowsNothing DEF vars
  <1> QED BY <1>1, <1>2, <1>3, <1>4, <1>5, <1>6, <1>7, <1>8, <1>9, <1>10, <1>11, <1>12, <1>13
          DEF Next, Work

\* The checkpoint implements its contract: through every kill, interrupt, disk
\* error and change of configuration a finished match is lost, if at all, with
\* all the others of its configuration, by a stop between the two renames that
\* swap the report directory or by a failed undoing of the first; it is never
\* taken for another configuration's, and what is published is every match of
\* one configuration (checkpoint.rs:338-409, set.rs:356-472).
THEOREM Resumes == Spec => ImplementsContract
  <1>1. Init => Contract!Init
    BY NoFileIs DEF Init, Contract!Init
  <1>2. IInv /\ [Next]_vars => [Contract!Next]_Contract!vars
    BY StepShows
  <1> QED BY <1>1, <1>2, Invariant, PTL DEF Spec, ImplementsContract, Contract!Spec
=============================================================================
