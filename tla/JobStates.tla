------------------------------- MODULE JobStates -------------------------------
(***************************************************************************)
(* The vocabulary of job and slot states and the pure functions that       *)
(* derive a job's state (states.py).  Nothing here has state of its own:   *)
(* JobPipeline evaluates these operators inside its transactions.          *)
(***************************************************************************)

\* SlotState: the life of one row of expected_runs.
SlotState == {"pending", "running", "succeeded", "failed", "late", "missed", "skipped"}

\* A slot the code calls settled.
TERMINAL == {"succeeded", "failed", "missed", "skipped"}

BAD_SLOTS == {"failed", "missed"}

\* The states attach_slot and the partial index expected_runs_open_idx call open.
OPEN == {"pending", "late", "running"}

JobState == {"ok", "late", "failing", "unknown"}

\* "none" stands for SQL NULL / Python None.
UnknownReason == {"none", "no_schedule", "no_data_yet", "agent_offline", "paused"}

JobStatus == {"unknown", "healthy", "running", "late", "missed", "failed",
              "timeout", "recovered", "paused"}

\* The outcomes an execution can leave on the timeline (last_settled of derive).
Outcome == {"none", "succeeded", "failed", "missed"}

--------------------------------------------------------------------------------
(***************************************************************************)
(* derive: the four-state of a job and the reason it is unknown.  `f' is   *)
(* the record of facts recompute_state gathers.  The order of the tests is *)
(* the point: the most specific explanation comes first.                   *)
(***************************************************************************)
derive(f) ==
  IF f.paused                                        THEN <<"unknown", "paused">>
  ELSE IF f.offline                                  THEN <<"unknown", "agent_offline">>
  ELSE IF ~f.hasSchedule /\ ~f.everRan               THEN <<"unknown", "no_schedule">>
  ELSE IF ~f.everRan /\ f.last = "none" /\ ~f.openLate
                                                     THEN <<"unknown", "no_data_yet">>
  ELSE IF f.openLate                                 THEN <<"late", "none">>
  ELSE IF f.last \in BAD_SLOTS                       THEN <<"failing", "none">>
  ELSE IF f.last = "succeeded" \/ f.running          THEN <<"ok", "none">>
  ELSE <<"unknown", "no_data_yet">>

(***************************************************************************)
(* legacy_status: the nine-value jobs.status the UI and the alert rules    *)
(* read.  A running execution is reported before lateness or failure.      *)
(***************************************************************************)
legacy_status(state, paused, running, last, recovered) ==
  IF paused                      THEN "paused"
  ELSE IF state = "unknown"      THEN "unknown"
  ELSE IF running                THEN "running"
  ELSE IF state = "late"         THEN "late"
  ELSE IF state = "failing"      THEN (IF last = "missed" THEN "missed" ELSE "failed")
  ELSE IF recovered              THEN "recovered"
  ELSE "healthy"

================================================================================
