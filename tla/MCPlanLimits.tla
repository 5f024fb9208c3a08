----------------------------- MODULE MCPlanLimits -----------------------------
(***************************************************************************)
(* PlanLimits on a small instance: the free plan allows two jobs, the plan  *)
(* `team' three and the plan `enterprise' any number; one user, a host with *)
(* two entries and a cluster with one CronJob compete for them.             *)
(***************************************************************************)
EXTENDS PlanLimits

CONSTANTS job, host, e1, e2, nightly

Caps == [p \in Plans |-> CASE p = "free" -> 2 [] p = "team" -> 3 [] OTHER -> None]

Entries == [h \in Hosts |-> {e1, e2}]
================================================================================
