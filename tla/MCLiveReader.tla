----------------------------- MODULE MCLiveReader -----------------------------
(* Instances of LiveReader for TLC.                                        *)
EXTENDS LiveReader, TLC
===============================================================================
