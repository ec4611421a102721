----------------------------- MODULE MCPitStints -----------------------------
EXTENDS PitStints
=============================================================================
