---------------------------- MODULE MCDriftReads ----------------------------
(* One page request beside the drift requests of an instance.              *)
EXTENDS DriftReads, TLC

CONSTANTS names, r1
=============================================================================
