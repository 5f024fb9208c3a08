------------------------------- MODULE MCK8sAgent -------------------------------
(***************************************************************************)
(* K8sAgent on a small instance: one CronJob that may be created twice, and *)
(* a Job of the first one, which fails.                                     *)
(***************************************************************************)
EXTENDS K8sAgent

CONSTANTS u1, u2, nightly, j1

OneName == [u \in UIDs |-> nightly]

Owners == [j \in Jobs |-> u1]
Outcomes == [j \in Jobs |-> "failed"]
================================================================================
