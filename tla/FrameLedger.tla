----------------------------- MODULE FrameLedger -----------------------------
(***************************************************************************)
(* What the ingest promises about every provider frame, whatever crashes,  *)
(* restarts, reconnects or fails: the frame is stored raw before anything  *)
(* is made of it, stays attributed to the socket that delivered it, and    *)
(* then only moves forward, one durable boundary at a time.                *)
(*                                                                         *)
(*   raw -> failed                      terminal: kept for a parser fix    *)
(*   raw -> blank -> done               an envelope without messages       *)
(*   raw -> decoded -> facts -> derived -> done                            *)
(***************************************************************************)
EXTENDS Naturals, Sequences

VARIABLE ledger     \* one entry per stored frame, in receive order

\* The stages a frame may move to from each stage.
Follows ==
    [raw     |-> {"failed", "blank", "decoded"},
     blank   |-> {"done"},
     decoded |-> {"facts"},
     facts   |-> {"derived"},
     derived |-> {"done"},
     done    |-> {},
     failed  |-> {}]

Init == ledger = <<>>

\* A frame becomes durable: raw evidence only, and attributed to its socket.
Receive ==
    /\ Len(ledger') = Len(ledger) + 1
    /\ LET socket == ledger'[Len(ledger')].conn
       IN /\ socket \in Nat \ {0}
          /\ ledger' = Append(ledger, [conn |-> socket, stage |-> "raw"])

\* One frame passes its next durable boundary.
Advance(f) ==
    \E s \in Follows[ledger[f].stage] : ledger' = [ledger EXCEPT ![f].stage = s]

Next == \/ Receive
        \/ \E f \in DOMAIN ledger : Advance(f)

Spec == Init /\ [][Next]_ledger
=============================================================================
