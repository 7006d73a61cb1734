-------------------------- MODULE MCRangeExecution --------------------------
(* The programs of MCForwardDataflow, analysed and then executed.           *)
EXTENDS RangeExecution, MCForwardDataflow

Looping == Intraprocedural \cup {Program(m, Increment("fbr", "fx", f), Idle("gbr"), OneArg) : m \in {Twice}}
=============================================================================
