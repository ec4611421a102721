--------------------------- MODULE MCTimingStream ---------------------------
(* The instance of TimingStream for TLC.                                   *)
EXTENDS TimingStream

CONSTANT panel

MCOneStream == {panel}
=============================================================================
