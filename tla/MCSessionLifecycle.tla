------------------------- MODULE MCSessionLifecycle -------------------------
(* A small instance of SessionLifecycle for TLC.                           *)
EXTENDS SessionLifecycle, TLC

CONSTANTS igora, moscow, k1, k2

MCSources == {igora, moscow}
MCKeys == {k1, k2}
MCModes == {"practice", "race"}
MCDurations == {14400}
MCPits == {2}

\* Sources and keys are only ever compared for equality.
MCSymmetry == Permutations(MCSources) \cup Permutations(MCKeys)
=============================================================================
