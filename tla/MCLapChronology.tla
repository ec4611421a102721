--------------------------- MODULE MCLapChronology ---------------------------
EXTENDS LapChronology
=============================================================================
