----------------------------- MODULE SlotLifecycle -----------------------------
(***************************************************************************)
(* What docs/ARCHITECTURE.md promises of an expected run: it goes from      *)
(* pending to running and to succeeded or failed, or is late and missed, or *)
(* is skipped.  A verdict stands, except that a report whose slot had been  *)
(* chosen before the verdict still answers for it; success stands always,   *)
(* and no execution has two.                                                *)
(***************************************************************************)
EXTENDS JobStates

CONSTANTS Slots, Execs, None

VARIABLES
  fate,   \* [Slots -> SlotState]
  answer, \* the execution that answers for a slot, or None
  held    \* the slot a report is about to answer for, or None

vars == <<fate, answer, held>>

Verdicts == {<<"pending", "late">>, <<"pending", "missed">>, <<"late", "missed">>,
             <<"pending", "skipped">>, <<"late", "skipped">>, <<"running", "failed">>}

Init ==
  /\ fate = [s \in Slots |-> "pending"] /\ answer = [s \in Slots |-> None]
  /\ held = None

\* A report chooses among the open slots.
Choose ==
  /\ held = None
  /\ held' \in {s \in Slots : fate[s] \in OPEN}
  /\ UNCHANGED <<fate, answer>>

\* It answers for the slot it chose, whatever verdict has been given since.
Answer ==
  /\ held # None /\ fate[held] # "succeeded"
  /\ fate'[held] \in {"running", "succeeded", "failed"} /\ answer'[held] \in Execs
  /\ fate'[held] = "succeeded" =>
       \A s \in Slots \ {held} : fate[s] = "succeeded" => answer[s] # answer'[held]
  /\ fate' = [fate EXCEPT ![held] = fate'[held]]
  /\ answer' = [answer EXCEPT ![held] = answer'[held]]
  /\ held' = None

LetGo == held # None /\ held' = None /\ UNCHANGED <<fate, answer>>

\* Verdicts are given on the slots nobody has answered for, and on runs that take too long.
Judge ==
  /\ \A s \in Slots : fate'[s] = fate[s] \/ <<fate[s], fate'[s]>> \in Verdicts
  /\ fate' = [s \in Slots |-> fate'[s]]
  /\ UNCHANGED <<answer, held>>

Next == Choose \/ Answer \/ LetGo \/ Judge

Spec == Init /\ [][Next]_vars
================================================================================
