-------------------------- MODULE SeedLedgerProofs --------------------------
(***************************************************************************)
(* Proofs about SeedLedger, for any number of runs, entries, kills and     *)
(* failing calls.                                                          *)
(***************************************************************************)
EXTENDS SeedLedger, TLAPS

USE SeedLedgerAssumption

\* The steps between reading the ledger and replacing it.
Holding == {"write", "rename"}

Types ==
  /\ ledger \in Seq(Entries) \cup {Broken}
  /\ seen \in [Runs -> Seq(Entries)]
  /\ reported \subseteq Runs
  /\ pc \in [Runs -> {"check", "play"} \cup Inside \cup Ends]
  /\ alone \in [Runs -> BOOLEAN]
  /\ kills \in 0 .. MaxKills /\ faults \in 0 .. MaxFaults

\* While a run is alone inside record, the ledger is what it read.
AloneInv ==
  \A r \in Runs : pc[r] \in Holding /\ alone[r] =>
    ledger = seen[r] /\ \A q \in Runs \ {r} : pc[q] \notin Holding

\* What a run that recorded alone added is in the ledger, and in what every
\* later run read.
RecordedInv ==
  \A r \in Runs : pc[r] = "ok" /\ alone[r] =>
    /\ ledger # Broken /\ Contains(ledger, Entry[r])
    /\ \A q \in Runs : pc[q] \in Holding => Contains(seen[q], Entry[r])

\* A run that replaces the ledger read one, without its own entry in it.
ReadInv ==
  \A r \in Runs : pc[r] \in Holding =>
    /\ ledger # Broken
    /\ IsInjective(seen[r]) /\ ~Contains(seen[r], Entry[r])

IInv == Types /\ AloneInv /\ RecordedInv /\ ReadInv /\ NoEntryTwice

----------------------------------------------------------------------------
LEMMA AppendContains ==
  ASSUME NEW s \in Seq(Entries), NEW e \in Entries
  PROVE  /\ Append(s, e) \in Seq(Entries)
         /\ \A x : Contains(Append(s, e), x) <=> Contains(s, x) \/ x = e
         /\ IsInjective(s) /\ ~Contains(s, e) => IsInjective(Append(s, e))
  BY DEF Contains, IsInjective

LEMMA EntryType == \A r \in Runs : Entry[r] \in Entries
  BY DEF Entries

\* The types hold at the start.
LEMMA InitIInv == Init => IInv
  <1> SUFFICES ASSUME Init PROVE IInv
    OBVIOUS
  <1>1. ledger \in Seq(Entries) \cup {Broken}
    <2>1. ASSUME NEW s \in Earlier PROVE s \in Seq(Entries)
      <3>1. s \in Seq(ToSet(s))
        OBVIOUS
      <3>2. ToSet(s) \subseteq Entries
        BY DEF Entries
      <3>3. Len(s) \in Nat /\ DOMAIN s = 1 .. Len(s) /\ \A k \in 1 .. Len(s) : s[k] \in Entries
        BY <3>1, <3>2
      <3>4. s = [k \in 1 .. Len(s) |-> s[k]]
        BY <3>1
      <3> QED BY <3>3, <3>4
    <2> QED BY <2>1 DEF Init
  <1>2. Types
    BY <1>1 DEF Init, Types, Inside, Ends
  <1>3. AloneInv /\ RecordedInv /\ ReadInv
    BY DEF Init, AloneInv, RecordedInv, ReadInv, Holding
  <1>4. NoEntryTwice
    BY DEF Init, NoEntryTwice
  <1> QED BY <1>2, <1>3, <1>4 DEF IInv

----------------------------------------------------------------------------
Step(r) == Check(r) \/ PlayAndReport(r) \/ Read(r) \/ Write(r) \/ Rename(r)
           \/ Fail(r) \/ Kill(r)

LEMMA TypesStep ==
  ASSUME IInv, NEW r \in Runs, Step(r)
  PROVE  Types'
  <1> USE DEF IInv, Types
  <1>1. pc' \in [Runs -> {"check", "play"} \cup Inside \cup Ends]
    BY DEF Step, Check, CheckRole, PlayAndReport, Read, Write, Rename, Fail, Kill, Go, Inside, Ends
  <1>2. ledger' \in Seq(Entries) \cup {Broken}
    <2>1. CASE Rename(r)
      BY <2>1, EntryType, AppendContains DEF Rename, NewText
    <2>2. CASE ~Rename(r)
      BY <2>2 DEF Step, Check, PlayAndReport, Read, Write, Fail, Kill
    <2> QED BY <2>1, <2>2
  <1>3. seen' \in [Runs -> Seq(Entries)] /\ reported' \subseteq Runs
    BY DEF Step, Check, PlayAndReport, Read, Write, Rename, Fail, Kill
  <1>4. alone' \in [Runs -> BOOLEAN]
    <2>1. CASE Read(r)
      BY <2>1 DEF Read
    <2>2. CASE ~Read(r)
      BY <2>2 DEF Step, Check, PlayAndReport, Write, Rename, Fail, Kill
    <2> QED BY <2>1, <2>2
  <1>5. kills' \in 0 .. MaxKills /\ faults' \in 0 .. MaxFaults
    BY DEF Step, Check, PlayAndReport, Read, Write, Rename, Fail, Kill
  <1> QED BY <1>1, <1>2, <1>3, <1>4, <1>5

\* A step moves one run, and enters record's second half only by Read.
LEMMA PcStep ==
  ASSUME IInv, NEW r \in Runs, Step(r)
  PROVE  /\ \A q \in Runs : q # r => pc'[q] = pc[q]
         /\ pc'[r] \in Holding => Read(r) \/ Write(r)
         /\ pc'[r] = "ok" => Read(r) \/ Rename(r)
         /\ pc[r] = "ok" => FALSE
         /\ Rename(r) => pc[r] = "rename" /\ pc'[r] = "ok"
         /\ Write(r) => pc[r] = "write" /\ pc'[r] = "rename"
         /\ ~Rename(r) => ledger' = ledger
         /\ ~Read(r) => seen' = seen /\ alone' = alone
  BY DEF IInv, Types, Step, Check, CheckRole, PlayAndReport, Read, Write, Rename, Fail, Kill, Go, At,
     Holding, Inside, Ends

LEMMA ReadStep ==
  ASSUME IInv, NEW r \in Runs, Read(r), ledger # Broken
  PROVE  /\ seen' = [seen EXCEPT ![r] = ledger]
         /\ ledger' = ledger
         /\ \A q \in Runs : alone'[q] => alone[q]
         /\ \A q \in Runs : alone'[q] /\ pc[q] \in Holding => q = r
         /\ alone'[r] => \A q \in Runs \ {r} : pc[q] \notin Holding
         /\ pc[r] = "read"
         /\ pc'[r] = IF Contains(ledger, Entry[r]) THEN "ok" ELSE "write"
  BY DEF IInv, Types, Read, Others, Holding, At, Go, IsThere

----------------------------------------------------------------------------
LEMMA NextIInv == IInv /\ [Next]_vars => IInv'
  <1> SUFFICES ASSUME IInv, [Next]_vars PROVE IInv'
    OBVIOUS
  <1> USE DEF IInv
  <1>1. CASE UNCHANGED vars
    BY <1>1 DEF vars, Types, AloneInv, RecordedInv, ReadInv, NoEntryTwice
  <1>2. ASSUME NEW r \in Runs, Step(r) PROVE IInv'
    <2>1. Types'
      BY <1>2, TypesStep
    <2>2. CASE Read(r) /\ ledger # Broken
      <3> USE ReadStep, PcStep, <1>2, <2>2
      <3>1. AloneInv'
        <4>1. ASSUME NEW q \in Runs, pc'[q] \in Holding, alone'[q]
              PROVE  ledger' = seen'[q] /\ \A x \in Runs \ {q} : pc'[x] \notin Holding
          <5>1. CASE q = r
            BY <4>1, <5>1 DEF Types
          <5>2. CASE q # r
            <6>1. pc[q] \in Holding
              BY <4>1, <5>2
            <6> QED BY <4>1, <5>2, <6>1
          <5> QED BY <5>1, <5>2
        <4> QED BY <4>1 DEF AloneInv
      <3>2. RecordedInv'
        <4>1. ASSUME NEW q \in Runs, pc'[q] = "ok", alone'[q]
              PROVE  /\ Contains(ledger, Entry[q])
                     /\ \A x \in Runs : pc'[x] \in Holding => Contains(seen'[x], Entry[q])
          <5>1. CASE q = r
            <6>1. Contains(ledger, Entry[r])
              BY <4>1, <5>1
            <6>2. \A x \in Runs : pc'[x] \notin Holding
              BY <4>1, <5>1 DEF Holding
            <6> QED BY <5>1, <6>1, <6>2
          <5>2. CASE q # r
            <6>1. pc[q] = "ok" /\ alone[q]
              BY <4>1, <5>2
            <6>2. /\ Contains(ledger, Entry[q])
                  /\ \A x \in Runs : pc[x] \in Holding => Contains(seen[x], Entry[q])
              BY <6>1 DEF RecordedInv
            <6>3. ASSUME NEW x \in Runs, pc'[x] \in Holding PROVE Contains(seen'[x], Entry[q])
              BY <6>2, <6>3 DEF Types
            <6> QED BY <6>2, <6>3
          <5> QED BY <5>1, <5>2
        <4> QED BY <4>1 DEF RecordedInv
      <3>3. ReadInv'
        <4>1. ASSUME NEW q \in Runs, pc'[q] \in Holding
              PROVE  /\ ledger' # Broken
                     /\ IsInjective(seen'[q]) /\ ~Contains(seen'[q], Entry[q])
          <5>1. CASE q = r
            <6>1. seen'[q] = ledger /\ ledger' # Broken
              BY <5>1, <2>2 DEF Types
            <6>2. ~Contains(ledger, Entry[q])
              BY <4>1, <5>1 DEF Holding
            <6>3. IsInjective(ledger)
              BY <2>2 DEF NoEntryTwice
            <6> QED BY <6>1, <6>2, <6>3
          <5>2. CASE q # r
            <6>1. pc[q] \in Holding /\ seen'[q] = seen[q] /\ ledger' = ledger
              BY <4>1, <5>2 DEF Types
            <6> QED BY <6>1 DEF ReadInv
          <5> QED BY <5>1, <5>2
        <4> QED BY <4>1 DEF ReadInv
      <3>4. NoEntryTwice'
        BY DEF NoEntryTwice
      <3> QED BY <2>1, <3>1, <3>2, <3>3, <3>4
    <2>3. CASE Rename(r)
      <3>1. ledger' = Append(seen[r], Entry[r]) /\ UNCHANGED <<seen, alone>>
        BY <2>3 DEF Rename, NewText
      <3>2. ledger' # Broken
        <4>1. seen[r] \in Seq(Entries) /\ Entry[r] \in Entries
          BY EntryType DEF Types
        <4>2. ledger' \in Seq(Entries)
          BY <3>1, <4>1, AppendContains
        <4> QED BY <4>2
      <3>3. AloneInv'
        BY <1>2, <2>3, <3>1, PcStep DEF AloneInv, Holding
      <3>4. RecordedInv'
        BY <1>2, <2>3, <3>1, <3>2, PcStep, EntryType, AppendContains
        DEF RecordedInv, AloneInv, Types, Holding
      <3>5. ReadInv'
        BY <1>2, <2>3, <3>1, <3>2, PcStep DEF ReadInv, Holding
      <3>6. NoEntryTwice'
        BY <1>2, <2>3, <3>1, PcStep, EntryType, AppendContains
        DEF NoEntryTwice, ReadInv, Types, Holding
      <3> QED BY <2>1, <3>3, <3>4, <3>5, <3>6
    <2>4. CASE ~Rename(r) /\ ~(Read(r) /\ ledger # Broken)
      <3>1. ledger' = ledger /\ UNCHANGED <<seen, alone>>
        <4>1. CASE Read(r)
          BY <2>4, <4>1 DEF Read
        <4>2. CASE ~Read(r)
          BY <1>2, <2>4, <4>2, PcStep
        <4> QED BY <4>1, <4>2
      <3>2. /\ pc'[r] \in Holding => pc[r] \in Holding
            /\ pc'[r] # "ok"
        <4>1. CASE Read(r)
          BY <2>4, <4>1 DEF Read, Go, Types, Holding
        <4>2. CASE ~Read(r)
          BY <1>2, <2>4, <4>2, PcStep DEF Holding
        <4> QED BY <4>1, <4>2
      <3>3. AloneInv' /\ ReadInv'
        BY <1>2, <3>1, <3>2, PcStep DEF AloneInv, ReadInv
      <3>4. RecordedInv'
        BY <1>2, <3>1, <3>2, PcStep DEF RecordedInv
      <3> QED BY <2>1, <3>1, <3>3, <3>4 DEF NoEntryTwice
    <2> QED BY <2>2, <2>3, <2>4
  <1> QED BY <1>1, <1>2 DEF Next, Step

\* Who reads, writes and is alone in the ledger's record step (ledger.rs:127-149).
THEOREM Invariant == Spec => []IInv
  BY InitIInv, NextIInv, PTL DEF Spec

\* Every variable keeps its type, for any number of runs.
THEOREM TypeCorrect == Spec => []TypeOK
  <1>1. IInv => TypeOK
    BY DEF IInv, Types, TypeOK
  <1> QED BY <1>1, Invariant, PTL

\* A run that shared record with nobody is in the ledger for ever, whatever
\* number of runs record after it, fail or die (ledger.rs:6-8).
THEOREM AloneStays == Spec => []AloneIsRecorded
  <1>1. IInv => AloneIsRecorded
    BY DEF IInv, RecordedInv, AloneIsRecorded, At
  <1> QED BY <1>1, Invariant, PTL

\* Reruns never add an entry twice, also when they overlap (ledger.rs:11-12).
THEOREM EntriesAreDistinct == Spec => []NoEntryTwice
  <1>1. IInv => NoEntryTwice
    BY DEF IInv
  <1> QED BY <1>1, Invariant, PTL
=============================================================================
