---------------------------- MODULE MCExecution ----------------------------
(* Execution for TLC: one execution that two workers may both run.             *)
EXTENDS Execution, TLC
=============================================================================
