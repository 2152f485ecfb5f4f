---------------------------- MODULE MCDaemonLoops ----------------------------
(* Instance of DaemonLoops for TLC.                                        *)
EXTENDS DaemonLoops
=============================================================================
