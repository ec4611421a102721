------------------------- MODULE TimingIngestLedger -------------------------
(* The refinement mapping from the ingest tables to FrameLedger.           *)
EXTENDS TimingIngest

\* The durable boundary a stored frame has reached.
StageOf(f) ==
    IF frames[f].state = "pending" THEN "raw"
    ELSE IF frames[f].state = "failed" THEN "failed"
    ELSE IF frames[f].processed THEN "done"
    ELSE IF frames[f].kind # "messages" THEN "blank"
    ELSE IF f \in metrics THEN "derived"
    ELSE IF f \in facts THEN "facts"
    ELSE "decoded"

LedgerView == [f \in DOMAIN frames |-> [conn |-> frames[f].conn, stage |-> StageOf(f)]]

Ledger == INSTANCE FrameLedger WITH ledger <- LedgerView

\* The ingest implements the frame ledger: no crash, restart, reconnect or
\* failed transaction makes a frame skip a boundary, go back, or disappear.
ImplementsLedger == Ledger!Spec
=============================================================================
