---------------------------- MODULE MCAlertRouter ----------------------------
(* TLC instances of AlertRouter: two alerts that share a dedupe key, one    *)
(* restricted, one that the contract refuses unless it has expired, and one *)
(* that only the table refuses.                                             *)
EXTENDS AlertRouter

EventClasses == [a |-> "plain", b |-> "plain", r |-> "restricted", x |-> "overfull", o |-> "unstorable"]
Dedupe       == [a |-> "k", b |-> "k", r |-> "l", x |-> "m", o |-> "n"]
=============================================================================
