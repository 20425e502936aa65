--------------------------- MODULE ResumeContract ---------------------------
(***************************************************************************)
(* What --resume keeps (gcg-runner/src/checkpoint.rs, reports/set.rs):     *)
(* however often a benchmark stops, a finished match stays finished until  *)
(* all of them are, and the reports are those of one run of one            *)
(* configuration that nothing stopped.  When all are finished the          *)
(* directory may be set aside to make room for the one with the reports;   *)
(* a stop right then loses it, and the next run starts over.               *)
(***************************************************************************)
CONSTANTS
  Configs,   \* the configurations somebody runs with this report directory
  NoConfig,
  Matches    \* the match indices, the same number in every configuration

\* The record of match m: a pure function of the configuration and m.
Record(c, m) == [cfg |-> c, match |-> m]

NoReports  == [m \in Matches |-> [none |-> TRUE]]
Reports(c) == [m \in Matches |-> Record(c, m)]

Nowhere == [owner |-> NoConfig, kept |-> {}, reports |-> NoReports]

VARIABLES
  owner,    \* the configuration the finished matches belong to
  kept,     \* the finished matches
  reports,  \* the matches of the reports last written
  aside     \* the directory set aside: these three of it

vars == <<owner, kept, reports, aside>>

Init ==
  /\ owner = NoConfig
  /\ kept = {}
  /\ reports = NoReports
  /\ aside = Nowhere

Adopt ==
  /\ owner = NoConfig
  /\ aside = Nowhere
  /\ owner' \in Configs
  /\ UNCHANGED <<kept, reports, aside>>

Keep ==
  /\ owner # NoConfig
  /\ \E m \in Matches \ kept : kept' = kept \cup {m}
  /\ UNCHANGED <<owner, reports, aside>>

SetAside ==
  /\ owner # NoConfig
  /\ kept = Matches
  /\ aside = Nowhere
  /\ aside' = [owner |-> owner, kept |-> kept, reports |-> reports]
  /\ owner' = NoConfig
  /\ kept' = {}
  /\ reports' = NoReports

TakePlace ==
  /\ aside.owner # NoConfig
  /\ reports' = Reports(aside.owner)
  /\ UNCHANGED <<owner, kept, aside>>

PutBack ==
  /\ aside.owner # NoConfig
  /\ owner' = aside.owner
  /\ kept' = aside.kept
  /\ reports' = aside.reports
  /\ aside' = Nowhere

\* Harmless once the reports are there; before that, the loss.
Drop ==
  /\ aside.owner # NoConfig
  /\ aside' = Nowhere
  /\ UNCHANGED <<owner, kept, reports>>

Publish ==
  /\ owner # NoConfig
  /\ kept = Matches
  /\ reports' = Reports(owner)
  /\ UNCHANGED <<owner, kept, aside>>

Forget ==
  /\ owner # NoConfig
  /\ reports = Reports(owner)
  /\ owner' = NoConfig
  /\ kept' = {}
  /\ UNCHANGED <<reports, aside>>

Next ==
  \/ Adopt \/ Keep
  \/ SetAside \/ TakePlace \/ PutBack \/ Drop
  \/ Publish \/ Forget

Spec == Init /\ [][Next]_vars
=============================================================================
