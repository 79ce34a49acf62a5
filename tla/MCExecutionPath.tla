---------------------------- MODULE MCExecutionPath ----------------------------
(* ExecutionPath for TLC: handlers and opportunities are interchangeable.   *)
EXTENDS ExecutionPath, TLC

Symmetry == Permutations(Handlers) \union Permutations(Opps)
===============================================================================
