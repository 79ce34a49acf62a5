----------------------------- MODULE MCPaperRisk -----------------------------
(* TLC instances of PaperRisk: one opportunity, or two of two symbols.      *)
EXTENDS PaperRisk

TwoSymbols == [p1 |-> "BTC", p2 |-> "ETH"]
OneOnly    == [p1 |-> "BTC"]
=============================================================================
