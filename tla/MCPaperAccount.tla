---------------------------- MODULE MCPaperAccount ----------------------------
(* Bounds for the run of PaperAccount: a position pays an hour and is paid   *)
(* the next, so that its worth falls and rises.                              *)
EXTENDS PaperAccount

Payments == [p \in Positions |-> [h \in Clock |-> IF h = 2 THEN -1 ELSE 1]]
===============================================================================
