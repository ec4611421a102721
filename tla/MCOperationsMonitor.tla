------------------------ MODULE MCOperationsMonitor ------------------------
(* The instance of OperationsMonitor for TLC.                              *)
EXTENDS OperationsMonitor

MCWatched == {"SOURCE_OFFLINE"}
=============================================================================
