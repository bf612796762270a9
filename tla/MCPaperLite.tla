---------------------------- MODULE MCPaperLite ----------------------------
(* An instance of PaperLite for TLC.                                       *)
EXTENDS PaperLite, TLC

\* From 30, one stop costs 3, two spend the day's allowance.
FiveThirtieths == <<5, 30>>
SixThirtieths == <<6, 30>>
============================================================================
