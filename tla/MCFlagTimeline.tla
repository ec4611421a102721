--------------------------- MODULE MCFlagTimeline ---------------------------
EXTENDS FlagTimeline

MCOffsets == {0, 1}
=============================================================================
