---------------------------- MODULE MCDriftMonitor ----------------------------
(* Instances of DriftMonitor for TLC.                                      *)
EXTENDS DriftMonitor
=============================================================================
