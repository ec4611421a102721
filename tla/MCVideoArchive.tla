---------------------------- MODULE MCVideoArchive ----------------------------
EXTENDS VideoArchive
=============================================================================
