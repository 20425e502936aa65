---------------------------- MODULE MCReportSet -----------------------------
(* Small instances of ReportSet for TLC.                                   *)
EXTENDS ReportSet

CONSTANTS w1, w2

MCNames   == {"results", "games", "checkpoint", "replay1", "replay2", "deck"}
MCReplays == {"replay1", "replay2"}
MCCopies  == {"deck"}
MCEarlier == {{}, {"checkpoint"}, {"results", "games", "checkpoint", "replay2", "deck"}}
MCPlan    == [w \in Writers |-> IF w = w1 THEN <<"replay1", "games", "results">>
                               ELSE <<"games", "deck", "results">>]
=============================================================================
