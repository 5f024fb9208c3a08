---------------------------- MODULE SlotGeneration ----------------------------
(***************************************************************************)
(* How expected runs come to exist (workers/schedule_generator.py,          *)
(* schedule_engine.py): the generator materialises the slots of every       *)
(* active job some hours ahead, one transaction per batch of jobs, while    *)
(* users create, edit, pause and delete jobs (routers/jobs.py).             *)
(*                                                                          *)
(* A schedule is the set of instants it fires at; evaluating cron           *)
(* expressions and time zones is croniter's work.  A slot is the instant it *)
(* is scheduled for; what becomes of it afterwards is JobPipeline's part.   *)
(***************************************************************************)
EXTENDS Integers, FiniteSets

CONSTANTS
  Jobs,
  Schedules,    \* schedule expressions
  Occurrences,  \* [Schedules -> SUBSET Nat]: when each one fires
  None,
  Horizon,      \* HORIZON: how far ahead slots are materialised
  RefreshMargin,\* REFRESH_MARGIN: a job is revisited when less than this much of it remains
  Backfill,     \* BACKFILL_LIMIT: how far back a generator that was down reaches
  MaxSlots,     \* MAX_SLOTS_PER_JOB: slots one job may get in one batch
  BatchJobs,    \* BATCH_JOBS: jobs locked by one batch
  SlotBudget,   \* SLOT_BUDGET: a batch takes no further job once it holds this many slots
  MaxTime,      \* bound on the clock
  MaxEdits,     \* bound on PATCH requests
  MaxFaults     \* bound on batches that roll back

\* The columns of a jobs row that generation reads; `through' is generated_through.
RowType == [created: Nat, schedule: Schedules \cup {None}, paused: BOOLEAN,
            through: Nat \cup {None}]

ASSUME GenerationAssumption ==
  /\ Occurrences \in [Schedules -> SUBSET Nat]
  /\ {Horizon, RefreshMargin, Backfill, MaxSlots, MaxTime, MaxEdits, MaxFaults} \subseteq Nat
  /\ {BatchJobs, SlotBudget} \subseteq Nat \ {0}
  /\ RefreshMargin < Horizon
  /\ None \notin Schedules \cup Nat /\ None \notin RowType

VARIABLES
  now,     \* the clock
  row,     \* jobs: [Jobs -> a row, or None when there is no such row]
  slots,   \* expected_runs: [Jobs -> the instants slots are scheduled for]
  batch,   \* the generator's open transaction, or None
  purged,  \* DELETE requests between purge_job and DELETE FROM jobs:
           \* [Jobs -> the slots purge_job found, or None]
  deleted, \* jobs whose row is gone for good
  cut,     \* ghost: [Jobs -> instants beyond the MaxSlots first ones of the window they were due in]
  edited,  \* ghost: jobs whose schedule was changed after they had slots
  edits,   \* PATCH requests so far
  faults   \* rolled-back batches so far

vars == <<now, row, slots, batch, purged, deleted, cut, edited, edits, faults>>

--------------------------------------------------------------------------------
(* Windows and slots                                                          *)

Later(a, b) == IF a >= b THEN a ELSE b

\* Mutant: the window starts at the floor for a job that never generated.
WindowStartAtFloor(r, at) == IF r.through = None THEN at - Backfill ELSE r.through

\* generation_window: resume where the last batch ended, or at the job's creation, but
\* never further back than the backfill limit.  (A time before 0 stands for the past.)
WindowStart(r, at) ==
  Later(IF r.through = None THEN r.created ELSE r.through, at - Backfill)

WindowEnd(at) == at + Horizon

Due(r, at) == {o \in Occurrences[r.schedule] : WindowStart(r, at) < o /\ o <= WindowEnd(at)}

\* Mutant: the instant the window ends on is left to a next window that starts after it.
SlotsBetweenOpenEnd(r, at) ==
  {o \in Occurrences[r.schedule] : WindowStart(r, at) < o /\ o < WindowEnd(at)}

\* slots_between: the first MaxSlots instants after the start, up to and including the end.
SlotsBetween(r, at) == {o \in Due(r, at) : Cardinality({p \in Due(r, at) : p < o}) < MaxSlots}

\* For the ghost cut: the instants that MaxSlots others of the window precede.
BeyondCap(r, at) == {o \in Due(r, at) : Cardinality({p \in Due(r, at) : p < o}) >= MaxSlots}

--------------------------------------------------------------------------------
(* The generator                                                              *)

\* generated_through IS NULL OR generated_through < refresh_before
Stale(r) == r.through = None \/ r.through < now + Horizon - RefreshMargin

Active(j) == row[j] # None /\ ~row[j].paused /\ row[j].schedule # None

\* Mutant: the query forgets that paused jobs are not generated.
CandidatesPaused == {j \in Jobs : row[j] # None /\ row[j].schedule # None /\ Stale(row[j])}

\* Mutant: without IS NULL, and a comparison with NULL is not true.
CandidatesNotNull == {j \in Jobs : Active(j) /\ row[j].through # None /\ Stale(row[j])}

Candidates == {j \in Jobs : Active(j) /\ Stale(row[j])}

\* ORDER BY generated_through NULLS FIRST; equal values come in any order.
Before(j, k) ==
  /\ row[k].through # None
  /\ row[j].through = None \/ row[j].through < row[k].through

\* How many slots a set of jobs adds to a batch.
Weight(js, at) ==
  Cardinality({a \in js \X (0 .. WindowEnd(at)) : a[2] \in SlotsBetween(row[a[1]], at)})

\* The jobs a batch that locked `locked' works through before its slot budget is used up:
\* in order, and the last of them is begun while the budget still has room.
WithinBudget(done, locked, at) ==
  \E last \in done :
    /\ \A j \in done, k \in locked \ done : ~Before(k, j)
    /\ \A j \in done : ~Before(last, j)
    /\ Weight(done \ {last}, at) < SlotBudget
    /\ done = locked \/ Weight(done, at) >= SlotBudget

\* run_batch up to its INSERT.  SKIP LOCKED leaves out jobs another transaction has locked.
BeginBatch ==
  /\ batch = None
  /\ \E locked \in SUBSET Candidates :
       /\ locked # {} /\ Cardinality(locked) <= BatchJobs
       /\ \E done \in SUBSET locked :
            /\ WithinBudget(done, locked, now)
            /\ batch' = [at |-> now, locked |-> locked, done |-> done]
  /\ UNCHANGED <<now, row, slots, purged, deleted, cut, edited, edits, faults>>

\* run_batch returns (0, 0): the pass is over.
CaughtUp ==
  /\ batch = None /\ Candidates = {}
  /\ UNCHANGED vars

\* INSERT ... ON CONFLICT DO NOTHING, _ADVANCE, and the commit.
CommitBatch ==
  /\ batch # None
  /\ slots' = [j \in Jobs |-> IF j \in batch.done
                              THEN slots[j] \cup SlotsBetween(row[j], batch.at) ELSE slots[j]]
  /\ row' = [j \in Jobs |-> IF j \in batch.done
                            THEN [row[j] EXCEPT !.through = WindowEnd(batch.at)] ELSE row[j]]
  /\ batch' = None
  /\ cut' = [j \in Jobs |-> IF j \in batch.done
                            THEN cut[j] \cup BeyondCap(row[j], batch.at) ELSE cut[j]]
  /\ UNCHANGED <<now, purged, deleted, edited, edits, faults>>

\* The batch rolls back: an error, or the generator dies.
AbortBatch ==
  /\ batch # None /\ faults < MaxFaults
  /\ batch' = None
  /\ faults' = faults + 1
  /\ UNCHANGED <<now, row, slots, purged, deleted, cut, edited, edits>>

--------------------------------------------------------------------------------
(* Users                                                                      *)

\* The generator's FOR UPDATE makes other writers of the row wait.
Unlocked(j) == batch # None => j \notin batch.locked

Exists(j) == row[j] # None

CreateJob(j) ==
  /\ ~Exists(j) /\ j \notin deleted
  /\ \E sch \in Schedules \cup {None} :
       row' = [row EXCEPT ![j] = [created |-> now, schedule |-> sch, paused |-> FALSE, through |-> None]]
  /\ UNCHANGED <<now, slots, batch, purged, deleted, cut, edited, edits, faults>>

\* PATCH with schedule_expr (it cannot be set back to none).  generated_through stays.
UpdateSchedule(j) ==
  /\ Exists(j) /\ Unlocked(j) /\ edits < MaxEdits
  /\ \E sch \in Schedules \ {row[j].schedule} : row' = [row EXCEPT ![j].schedule = sch]
  /\ edited' = IF row[j].through = None THEN edited ELSE edited \cup {j}
  /\ edits' = edits + 1
  /\ UNCHANGED <<now, slots, batch, purged, deleted, cut, faults>>

\* PATCH with paused.
UpdatePaused(j) ==
  /\ Exists(j) /\ Unlocked(j) /\ edits < MaxEdits
  /\ row' = [row EXCEPT ![j].paused = ~@]
  /\ edits' = edits + 1
  /\ UNCHANGED <<now, slots, batch, purged, deleted, cut, edited, faults>>

\* The first half of DELETE: purge_job deletes the slots committed so far.  The row of the
\* job itself is not locked yet.
PurgeJob(j) ==
  /\ Exists(j) /\ purged[j] = None
  /\ purged' = [purged EXCEPT ![j] = slots[j]]
  /\ UNCHANGED <<now, row, slots, batch, deleted, cut, edited, edits, faults>>

\* The second half: DELETE FROM jobs, which waits for the row, and the commit.
DeleteJob(j) ==
  /\ purged[j] # None /\ Unlocked(j)
  /\ row' = [row EXCEPT ![j] = None]
  /\ slots' = [slots EXCEPT ![j] = @ \ purged[j]]
  /\ purged' = [purged EXCEPT ![j] = None]
  /\ deleted' = deleted \cup {j}
  /\ UNCHANGED <<now, batch, cut, edited, edits, faults>>

Tick ==
  /\ now < MaxTime
  /\ now' = now + 1
  /\ UNCHANGED <<row, slots, batch, purged, deleted, cut, edited, edits, faults>>

--------------------------------------------------------------------------------
Init ==
  /\ now = 0
  /\ row = [j \in Jobs |-> None]
  /\ slots = [j \in Jobs |-> {}]
  /\ batch = None
  /\ purged = [j \in Jobs |-> None]
  /\ cut = [j \in Jobs |-> {}]
  /\ deleted = {} /\ edited = {} /\ edits = 0 /\ faults = 0

Next ==
  \/ BeginBatch
  \/ CaughtUp
  \/ CommitBatch
  \/ AbortBatch
  \/ \E j \in Jobs : CreateJob(j)
  \/ \E j \in Jobs : UpdateSchedule(j)
  \/ \E j \in Jobs : UpdatePaused(j)
  \/ \E j \in Jobs : PurgeJob(j)
  \/ \E j \in Jobs : DeleteJob(j)
  \/ Tick

Spec == Init /\ [][Next]_vars

\* Time passes and the generator keeps running; a request that began ends.
Fairness ==
  /\ WF_vars(Tick)
  /\ WF_vars(BeginBatch)
  /\ WF_vars(CommitBatch)
  /\ \A j \in Jobs : WF_vars(DeleteJob(j))

FairSpec == Spec /\ Fairness

--------------------------------------------------------------------------------
(* Properties                                                                 *)

BatchType == [at: Nat, locked: SUBSET Jobs, done: SUBSET Jobs]

\* Every variable keeps its type, and a batch works on jobs it has locked, that exist and
\* have a schedule.
TypeOK ==
  /\ now \in Nat
  /\ row \in [Jobs -> RowType \cup {None}]
  /\ slots \in [Jobs -> SUBSET Nat]
  /\ batch \in BatchType \cup {None}
  /\ batch # None => batch.done \subseteq batch.locked /\ \A j \in batch.locked : Active(j)
  /\ purged \in [Jobs -> (SUBSET Nat) \cup {None}]
  /\ cut \in [Jobs -> SUBSET Nat]
  /\ deleted \subseteq Jobs /\ edited \subseteq Jobs
  /\ edits \in Nat /\ faults \in Nat

\* Within the backfill limit the slots of a job are exactly the instants of its schedule
\* since it was created, as far as it has been generated: no seam between two batches, no
\* pause, outage or rollback loses or invents one.  The cap of slots_between takes away the
\* instants that MaxSlots others of the same window precede, for good, and no others.  (Jobs
\* whose schedule was changed are excepted: the slots of the old one stay, up to a horizon
\* ahead.)
ExactlyTheSchedule ==
  \A j \in Jobs : Exists(j) /\ row[j].through # None /\ j \notin edited =>
    \A t \in row[j].created + 1 .. row[j].through :
      now - Backfill < t => (t \in slots[j] <=> t \in Occurrences[row[j].schedule] \ cut[j])

\* A job is never expected to have run before it existed, nor beyond what its row says was
\* generated.
NothingInvented ==
  \A j \in Jobs : Exists(j) => \A t \in slots[j] :
    row[j].created < t /\ row[j].through # None /\ t <= row[j].through

\* An active job comes to be materialised ahead of time, whatever other jobs claim of the
\* batches, the slot budget and the locks.
MaterialisedAhead ==
  \A j \in Jobs : Active(j) ~> ~Active(j) \/ ~Stale(row[j])
================================================================================
