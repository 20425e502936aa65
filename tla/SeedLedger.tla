----------------------------- MODULE SeedLedger -----------------------------
(***************************************************************************)
(* The seed ledger of gcg-eval (ledger.rs): a run under a seed role checks *)
(* its master, plays, writes its report, and then reads the ledger, adds   *)
(* its entry and replaces the file.  Nothing keeps two runs apart: the     *)
(* ledger is one file of the repository, read and written without a lock.  *)
(***************************************************************************)
EXTENDS Naturals, Sequences, SequencesExt

CONSTANTS
  Runs,       \* processes
  Entry,      \* Entry[r]: role, master, command and options of run r
  Refused,    \* runs whose master or pairs the role does not allow
  Earlier,    \* what the ledger may hold before: sequences of entries
  Broken,     \* a file that is not a ledger
  MaxKills,   \* bound: kills and SIGINTs
  MaxFaults   \* bound: failing calls

Entries == {Entry[r] : r \in Runs} \cup UNION {ToSet(s) : s \in Earlier}

ASSUME SeedLedgerAssumption ==
  /\ Refused \subseteq Runs
  /\ \A s \in Earlier : s \in Seq(ToSet(s)) /\ IsInjective(s)
  /\ Broken \notin Seq(Entries)
  /\ {MaxKills, MaxFaults} \subseteq Nat

VARIABLES
  ledger,    \* seed-ledger.json; <<>> stands for no file too
  seen,      \* the entries each run read
  reported,  \* the runs whose report is out
  pc,
  alone,     \* history: no other run was inside record with it
  kills, faults

vars == <<ledger, seen, reported, pc, alone, kills, faults>>

Inside == {"read", "write", "rename"}   \* the steps of record
Ends   == {"ok", "refused", "failed", "killed"}

Init ==
  /\ ledger \in Earlier \cup {Broken}
  /\ seen = [r \in Runs |-> <<>>]
  /\ reported = {}
  /\ pc = [r \in Runs |-> "check"]
  /\ alone = [r \in Runs |-> TRUE]
  /\ kills = 0 /\ faults = 0

At(r, at) == pc[r] = at
Go(r, to) == pc' = [pc EXCEPT ![r] = to]

CheckRole(r) == Go(r, IF r \in Refused THEN "refused" ELSE "play")

\* check_master and check_pairs, before any game.
Check(r) ==
  /\ At(r, "check")
  /\ CheckRole(r)
  /\ UNCHANGED <<ledger, seen, reported, alone, kills, faults>>

\* The games, then the report.
PlayAndReport(r) ==
  /\ At(r, "play")
  /\ reported' = reported \cup {r}
  /\ Go(r, "read")
  /\ UNCHANGED <<ledger, seen, alone, kills, faults>>

Others(r) == {q \in Runs \ {r} : pc[q] \in {"write", "rename"}}

\* Mutant: an identical entry is added again.
AddsAgain(r) == FALSE
IsThere(r)   == Contains(ledger, Entry[r])

Read(r) ==
  /\ At(r, "read")
  /\ IF ledger = Broken
     THEN Go(r, "failed") /\ UNCHANGED <<seen, alone>>
     ELSE /\ seen' = [seen EXCEPT ![r] = ledger]
          /\ Go(r, IF IsThere(r) THEN "ok" ELSE "write")
          /\ alone' = [q \in Runs |->
               alone[q] /\ (Others(r) = {} \/ q \notin Others(r) \cup {r})]
  /\ UNCHANGED <<ledger, reported, kills, faults>>

\* write_atomic's temporary file; its name has the process id in it.
Write(r) ==
  /\ At(r, "write")
  /\ Go(r, "rename")
  /\ UNCHANGED <<ledger, seen, reported, alone, kills, faults>>

\* Mutant: the entries read are dropped.
OnlyOwn(r)  == <<Entry[r]>>
NewText(r)  == Append(seen[r], Entry[r])
Rename(r) ==
  /\ At(r, "rename")
  /\ ledger' = NewText(r)
  /\ Go(r, "ok")
  /\ UNCHANGED <<seen, reported, alone, kills, faults>>

\* A game, the report, reading or writing the ledger fails.
Fail(r) ==
  /\ pc[r] \in {"play"} \cup Inside
  /\ faults < MaxFaults
  /\ faults' = faults + 1
  /\ Go(r, "failed")
  /\ UNCHANGED <<ledger, seen, reported, alone, kills>>

Kill(r) ==
  /\ pc[r] \notin Ends
  /\ kills < MaxKills
  /\ kills' = kills + 1
  /\ Go(r, "killed")
  /\ UNCHANGED <<ledger, seen, reported, alone, faults>>

Next ==
  \E r \in Runs : Check(r) \/ PlayAndReport(r) \/ Read(r) \/ Write(r) \/ Rename(r)
                  \/ Fail(r) \/ Kill(r)

Spec == Init /\ [][Next]_vars

----------------------------------------------------------------------------
TypeOK ==
  /\ ledger \in Seq(Entries) \cup {Broken}
  /\ seen \in [Runs -> Seq(Entries)]
  /\ reported \subseteq Runs
  /\ pc \in [Runs -> {"check", "play"} \cup Inside \cup Ends]
  /\ alone \in [Runs -> BOOLEAN]
  /\ kills \in 0 .. MaxKills /\ faults \in 0 .. MaxFaults

\* A run that ended well and shared record with nobody has its entry in the
\* ledger for ever, whoever records afterwards (ledger.rs:6-8).
AloneIsRecorded ==
  \A r \in Runs : At(r, "ok") /\ alone[r] => ledger # Broken /\ Contains(ledger, Entry[r])

\* Reruns of the same command, also at the same time, add one entry (ledger.rs:11-12).
NoEntryTwice == ledger # Broken => IsInjective(ledger)

\* Every master a role run used is appended to the ledger (ledger.rs:6-7), also
\* when two runs end at the same time.
EveryRunIsRecorded ==
  \A r \in Runs : At(r, "ok") => ledger # Broken /\ Contains(ledger, Entry[r])
=============================================================================
