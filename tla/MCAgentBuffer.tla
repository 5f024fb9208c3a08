----------------------------- MODULE MCAgentBuffer -----------------------------
(***************************************************************************)
(* AgentBuffer on a small instance: lines of two and three bytes, one of    *)
(* them pushed by the daemon itself.                                        *)
(***************************************************************************)
EXTENDS AgentBuffer

CONSTANTS short, long, journal

Sizes == [e \in Events |-> IF e = long THEN 3 ELSE 2]
================================================================================
