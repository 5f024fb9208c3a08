----------------------------- MODULE MCSignalExport -----------------------------
(***************************************************************************)
(* SignalExport on a small instance: a webhook that takes the settled slots *)
(* of one workspace, and neither those of the other nor changes of a job's  *)
(* state.                                                                   *)
(***************************************************************************)
EXTENDS SignalExport

CONSTANTS msg, s1, s2, hook, ws, other

Filters ==
  [d \in Dests |-> [kind |-> "webhook", types |-> {"slot.settled"}, workspaces |-> {ws}]]

Workspaces == [e \in Messages \cup Slots |-> IF e = s2 THEN other ELSE ws]
================================================================================
