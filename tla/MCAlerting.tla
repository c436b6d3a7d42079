----------------------------- MODULE MCAlerting -----------------------------
(* Alerting for TLC: a critical and a warning rule that one metric triggers,   *)
(* and an error rule that may replace either of them.                          *)
EXTENDS Alerting, TLC

CONSTANTS m1, p1, p2, p3

MCTriggers == (p1 :> {m1}) @@ (p2 :> {m1}) @@ (p3 :> {m1})
MCSeverity == (p1 :> "critical") @@ (p2 :> "warning") @@ (p3 :> "error")
MCInitialRules == <<[name |-> "down", rule |-> p1], [name |-> "memory", rule |-> p2]>>
=============================================================================
