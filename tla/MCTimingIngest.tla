--------------------------- MODULE MCTimingIngest ---------------------------
(* Small instances of TimingIngest for TLC.                                *)
EXTENDS TimingIngestLedger

MCAllKinds == {"messages", "empty", "malformed"}
MCMessagesOnly == {"messages"}
=============================================================================
