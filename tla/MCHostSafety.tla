---------------------------- MODULE MCHostSafety ----------------------------
(* An instance of HostSafety for TLC.                                      *)
EXTENDS HostSafety, TLC
=============================================================================
