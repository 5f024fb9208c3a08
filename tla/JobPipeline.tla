------------------------------ MODULE JobPipeline ------------------------------
(***************************************************************************)
(* The detection core of JobWatch for one monitored job: its materialised  *)
(* slots (expected_runs), its executions, and its row in jobs, written by   *)
(* two kinds of process that share nothing but the database:               *)
(*                                                                         *)
(*   - the exec-processors (processor.process, workers/exec_processor.py): *)
(*     each takes one report off the CS_EXEC work queue, applies it in one *)
(*     transaction under the job's row lock, and then acknowledges it.     *)
(*     Delivery is at least once and in any order.                         *)
(*   - the reconciler (workers/reconciler.py): every tick settles overdue  *)
(*     slots in one transaction that does NOT take the job's lock, and     *)
(*     recomputes the job's state in a second one that does.               *)
(*                                                                         *)
(* No statement joins the rows of two jobs, and no lock spans two jobs, so *)
(* one job is the general case.                                            *)
(***************************************************************************)
EXTENDS Integers, FiniteSets, JobStates

CONSTANTS
  Slots,            \* the job's expected runs, already materialised; a slot is named by its
                    \* scheduled_for, which is unique per job
  Runs,             \* runs of the job on its host
  None,             \* no run, no slot, no time (SQL NULL)
  Grace,            \* jobs.grace_s, in ticks
  Runtime,          \* jobs.expected_runtime_s, in ticks; 0 when it is not set
  Early,            \* the 90 s by which a start may precede its slot, in ticks
  Anonymous,        \* runs reported without an execution_id (ping and path heartbeats)
  Unsequenced,      \* runs whose reporter leaves `sequence' at its default, 0
  StartReported,    \* subset of BOOLEAN: is a start report published for a run?
  DurationReported, \* subset of BOOLEAN: does a final report carry duration_ms?
  Endings,          \* subset of {"success", "fail"}: how a run may end
  MaxTime,          \* bound on the clock
  MaxFlips,         \* bound on pauses, maintenance edits and agent outages
  MaxFaults,        \* bound on crashes, rollbacks and lost acknowledgements
  ReconcilerCrashes \* BOOLEAN: may a reconciler tick die between its transactions?

ASSUME ConstantsAssumption ==
  /\ Slots \subseteq Nat /\ IsFiniteSet(Slots)
  /\ {Grace, Runtime, Early, MaxTime, MaxFlips, MaxFaults} \subseteq Nat
  /\ Anonymous \subseteq Runs /\ Unsequenced \subseteq Runs
  /\ StartReported \subseteq BOOLEAN /\ DurationReported \subseteq BOOLEAN
  /\ Endings \subseteq {"success", "fail"} /\ ReconcilerCrashes \in BOOLEAN
  /\ Runs \cap Nat = {}
  /\ None \notin Runs \cup Nat \cup {"success", "fail"}

VARIABLES
  now,       \* the database clock
  begun,     \* [Runs -> time or None]: when the run really began
  ended,     \* [Runs -> "success", "fail" or None]: how it really ended
  queue,     \* reports waiting in CS_EXEC
  seen,      \* execution_events: the (execution_id, sequence) pairs applied
  ulid,      \* execution ids minted so far for anonymous reports
  tx,        \* the exec-processor transaction holding the job's lock, or None
  slot,      \* expected_runs: [Slots -> [state, exec]]
  rows,      \* executions, keyed by (id, sched)
  missedAt,  \* the synthetic 'missed' executions: [Slots -> time or None]
  job,       \* jobs.job_state, unknown_reason, status, consecutive_failures
  everRan,   \* jobs.last_run_at is set
  paused,    \* jobs.paused
  offline,   \* the owning agent's last_seen_at is older than three intervals
  maint,     \* the slots some maintenance window covers
  rpc,       \* the reconciler: "idle", or "recompute" between its transactions
  forgotten, \* ghost: a crashed tick settled something and no state pass has followed
  flips,     \* environment changes so far
  faults     \* faults so far

clocks == <<now, begun, ended>>
env    == <<paused, offline, maint, flips>>
db     == <<seen, ulid, slot, rows, missedAt, job, everRan>>
vars   == <<now, begun, ended, queue, seen, ulid, tx, slot, rows, missedAt,
            job, everRan, paused, offline, maint, rpc, forgotten, flips, faults>>

--------------------------------------------------------------------------------
(* Slots, reports and rows                                                    *)

Time == 0 .. MaxTime

GraceUntil(s) == s + Grace

\* deadline_for: a missing expected runtime falls back to a second grace period.
Deadline(s) == s + Grace + (IF Runtime = 0 THEN Grace ELSE Runtime)

\* match_window, and the BETWEEN of attach_slot.
InWindow(s, ts) == s - Early <= ts /\ ts <= Deadline(s)

\* A report of a run: when it was sent and, on a final one, the start its duration implies.
Report == [run: Runs, kind: {"start", "success", "fail"}, ts: Time, began: Time \cup {None}]

ExecId == Runs \cup Nat

\* One row of executions that a report wrote (its primary key is id, sched).
ExecRow == [id: ExecId, sched: Time, status: {"running", "success", "failed", "timeout"},
            begin: Time, end: Time \cup {None}, slot: Slots \cup {None}]

\* The dedup key of a report (primary key of execution_events).
Sequence(m)  == IF m.kind = "start" \/ m.run \in Unsequenced THEN 0 ELSE 1
EventKey(m)  == <<m.run, Sequence(m)>>
Duplicate(m) == m.run \notin Anonymous /\ EventKey(m) \in seen

\* ev.get("execution_id") or str(ULID())
ExecIdOf(m) == IF m.run \in Anonymous THEN ulid ELSE m.run

RowsOf(id) == {r \in rows : r.id = id}

\* Mutant: duration_ms is not used to place a run whose start was never reported.
BeganAtEnd(m) == m.ts

\* When a final report says the run began: end minus duration, or the end itself.
Began(m) == IF m.began = None THEN m.ts ELSE m.began

\* The instants a report may be matched by: a final one prefers the start on record.
MatchTimes(m, id) ==
  IF m.kind = "start"   THEN {m.ts}
  ELSE IF RowsOf(id) = {} THEN {Began(m)}
  ELSE {r.begin : r \in RowsOf(id)}

Distance(s, ts) == IF ts >= s THEN ts - s ELSE s - ts

\* Mutant: attach_slot without its filter on the slot's state.
CandidatesAnyState(ts) == {s \in Slots : InWindow(s, ts)}

\* Mutant: attach_slot forgets that a running slot is still open to its own final report.
CandidatesNotRunning(ts) == {s \in Slots : slot[s].state \in {"pending", "late"} /\ InWindow(s, ts)}

\* Mutant: attach_slot forgets that a late slot is still open.
CandidatesNotLate(ts) == {s \in Slots : slot[s].state \in {"pending", "running"} /\ InWindow(s, ts)}

Candidates(ts) == {s \in Slots : slot[s].state \in OPEN /\ InWindow(s, ts)}

\* The order of attach_slot's SELECT: the nearest slot first, the earlier one on a tie.
Nearer(s, q, ts) ==
  \/ Distance(s, ts) < Distance(q, ts)
  \/ Distance(s, ts) = Distance(q, ts) /\ s <= q

Nearest(ts) == {s \in Candidates(ts) : \A q \in Candidates(ts) : Nearer(s, q, ts)}

SelectSlot(ts) == IF Candidates(ts) = {} THEN {None} ELSE Nearest(ts)

--------------------------------------------------------------------------------
(* recompute_state                                                            *)

OutcomeOf(status) == CASE status = "success" -> "succeeded"
                       [] status \in {"failed", "timeout"} -> "failed"
                       [] OTHER -> "missed"

\* The terminal executions, by the instant they are ordered by:
\* COALESCE(agent_ts_end, server_received_ts).
Timeline(rw, ms) ==
       {[key |-> <<r.id, r.sched>>, out |-> OutcomeOf(r.status), at |-> r.end] :
          r \in {x \in rw : x.status # "running"}}
  \cup {[key |-> <<s, -1>>, out |-> "missed", at |-> ms[s]] :
          s \in {x \in Slots : ms[x] # None}}

Latest(T) == {e \in T : \A x \in T : x.at <= e.at}

\* The last two outcomes; equal instants leave the order to the database.
LastTwo(T) ==
  IF T = {} THEN {<<"none", "none">>}
  ELSE UNION {IF T \ {e} = {} THEN {<<e.out, "none">>}
              ELSE {<<e.out, p.out>> : p \in Latest(T \ {e})} : e \in Latest(T)}

\* consecutive_failures: failures later than the last success.
FailureCount(T) ==
  Cardinality({e \in T : e.out # "succeeded" /\
                         \A x \in T : x.out = "succeeded" => e.at > x.at})

JobRow(sl, rw, T, ran, pair) ==
  LET running == \E r \in rw : r.status = "running"
      st == derive([paused |-> paused, offline |-> offline, hasSchedule |-> Slots # {},
                    everRan |-> ran, openLate |-> \E s \in Slots : sl[s].state = "late",
                    running |-> running, last |-> pair[1]])
  IN  [state  |-> st[1],
       reason |-> st[2],
       status |-> legacy_status(st[1], paused, running, pair[1],
                    pair[1] = "succeeded" /\ pair[2] \in BAD_SLOTS),
       fails  |-> FailureCount(T)]

\* Every value recompute_state may leave in the job's row, given the other tables.
JobRows(sl, rw, ms, ran) ==
  LET T == Timeline(rw, ms) IN {JobRow(sl, rw, T, ran, pair) : pair \in LastTwo(T)}

--------------------------------------------------------------------------------
(* The job's host                                                             *)

Tick ==
  /\ now < MaxTime
  /\ now' = now + 1
  /\ UNCHANGED <<begun, ended, queue, tx, rpc, forgotten, faults, db, env>>

\* A run begins.  Its start report is published, or never is: simple heartbeats send
\* none, and the agent drops one it cannot buffer.
BeginRun(r) ==
  /\ begun[r] = None
  /\ begun' = [begun EXCEPT ![r] = now]
  /\ \E reported \in StartReported :
       queue' = IF reported
                THEN queue \cup {[run |-> r, kind |-> "start", ts |-> now, began |-> None]}
                ELSE queue
  /\ UNCHANGED <<now, ended, tx, rpc, forgotten, faults, db, env>>

\* A run ends and its final report is published.
EndRun(r, kind) ==
  /\ begun[r] # None /\ ended[r] = None
  /\ ended' = [ended EXCEPT ![r] = kind]
  /\ \E known \in DurationReported :
       queue' = queue \cup {[run |-> r, kind |-> kind, ts |-> now,
                             began |-> IF known THEN begun[r] ELSE None]}
  /\ UNCHANGED <<now, begun, tx, rpc, forgotten, faults, db, env>>

--------------------------------------------------------------------------------
(* The exec-processor                                                         *)

\* A report already in execution_events: the transaction is empty, the report is acked.
AckDuplicate(m) ==
  /\ Duplicate(m)
  /\ queue' = queue \ {m}
  /\ UNCHANGED <<clocks, tx, rpc, forgotten, faults, db, env>>

\* The first half of process(): the event row is inserted, the job's row is locked, and
\* attach_slot selects a slot.  Nothing of it is visible before the commit.
BeginTx(m) ==
  /\ tx = None
  /\ ~Duplicate(m)
  /\ \E ts \in MatchTimes(m, ExecIdOf(m)) : \E s \in SelectSlot(ts) :
       tx' = [msg |-> m, id |-> ExecIdOf(m), slot |-> s]
  /\ queue' = queue \ {m}
  /\ UNCHANGED <<clocks, rpc, forgotten, faults, db, env>>

\* The executions row(s) a report writes.  A start that finds its (id, scheduled_ts)
\* taken sets it back to running; under another scheduled_ts it adds a second row.
Recorded(m, id) ==
  LET mine == RowsOf(id)
      same == {r \in mine : r.sched = m.ts}
      fin  == IF m.kind = "success" THEN "success" ELSE "failed"
  IN  IF m.kind = "start"
      THEN IF same = {}
           THEN rows \cup {[id |-> id, sched |-> m.ts, status |-> "running",
                            begin |-> m.ts, end |-> None, slot |-> None]}
           ELSE (rows \ same) \cup
                {[r EXCEPT !.status = "running", !.begin = m.ts] : r \in same}
      ELSE IF mine = {}
           THEN rows \cup {[id |-> id, sched |-> Began(m), status |-> fin,
                            begin |-> Began(m), end |-> m.ts, slot |-> None]}
           ELSE (rows \ mine) \cup {[r EXCEPT !.status = fin, !.end = m.ts] : r \in mine}

\* UPDATE executions SET expected_run_id: every row of the id is bound.
Bound(rw, id, s) ==
  IF s = None THEN rw ELSE {IF r.id = id THEN [r EXCEPT !.slot = s] ELSE r : r \in rw}

\* Mutant: the execution's status is written as the slot's state, unmapped.
SlotStateUnmapped(kind) == IF kind = "start" THEN "running" ELSE kind

SlotStateAfter(kind) == CASE kind = "start"   -> "running"
                          [] kind = "success" -> "succeeded"
                          [] kind = "fail"    -> "failed"

\* The UPDATE of attach_slot writes the selected slot by id, whatever its state is now.
Attached(s, id, kind) ==
  IF s = None THEN slot
  ELSE [slot EXCEPT ![s] = [state |-> SlotStateAfter(kind), exec |-> id]]

\* After the commit the worker acks the report, or the ack never arrives (the worker died,
\* or ran past ack_wait) and CS_EXEC delivers the report again.
Acked      == UNCHANGED <<queue, faults>>
AckLost(m) == faults < MaxFaults /\ faults' = faults + 1 /\ queue' = queue \cup {m}

\* The second half of process(): rows, slot, last_run_at and the recomputed job row
\* become visible together, and the job's lock is released.
CommitTx ==
  /\ tx # None
  /\ LET m == tx.msg IN
       /\ seen' = seen \cup {IF m.run \in Anonymous THEN <<tx.id, 0>> ELSE EventKey(m)}
       /\ ulid' = IF m.run \in Anonymous THEN ulid + 1 ELSE ulid
       /\ rows' = Bound(Recorded(m, tx.id), tx.id, tx.slot)
       /\ slot' = Attached(tx.slot, tx.id, m.kind)
       /\ everRan' = (everRan \/ m.kind # "start")
       /\ job' \in JobRows(slot', rows', missedAt, everRan')
       /\ \/ Acked
          \/ AckLost(m)
  /\ tx' = None /\ forgotten' = FALSE
  /\ UNCHANGED <<clocks, missedAt, rpc, env>>

\* The transaction rolls back (an error, a crash, a deadlock victim): the report is nak'ed.
AbortTx ==
  /\ tx # None /\ faults < MaxFaults
  /\ queue' = queue \cup {tx.msg}
  /\ tx' = None
  /\ faults' = faults + 1
  /\ UNCHANGED <<clocks, rpc, forgotten, db, env>>

--------------------------------------------------------------------------------
(* The reconciler                                                             *)

\* Mutant: skipping and missing also take slots an execution is running in.
UnsettledOrRunning(s) == slot[s].state \in OPEN

Unsettled(s) == slot[s].state \in {"pending", "late"} /\ slot[s].exec = None

\* Mutant: only pending slots are skipped, so a slot already late is not.
ToSkipPending ==
  {s \in Slots : slot[s].state = "pending" /\ slot[s].exec = None /\ GraceUntil(s) < now
                 /\ (paused \/ s \in maint)}

\* _settle_maintenance
ToSkip == {s \in Slots : Unsettled(s) /\ GraceUntil(s) < now /\ (paused \/ s \in maint)}

\* _mark_late, after _settle_maintenance
ToMarkLate == {s \in Slots \ ToSkip :
  slot[s].state = "pending" /\ slot[s].exec = None /\ GraceUntil(s) < now /\ now <= Deadline(s)}

\* Mutant: a slot is missed only if some tick marked it late first.
ToMarkMissedLate == {s \in Slots \ ToSkip : slot[s].state = "late" /\ Deadline(s) < now}

\* _mark_missed, after _settle_maintenance
ToMarkMissed == {s \in Slots \ ToSkip : Unsettled(s) /\ Deadline(s) < now}

RunningIn(s) == {r \in rows : r.slot = s /\ r.status = "running"}

\* _mark_timeouts: running slots past their deadline that join a running execution.
ToTimeOut == {s \in Slots : slot[s].state = "running" /\ Deadline(s) < now /\ RunningIn(s) # {}}

\* UPDATE ... FROM joins each slot to one of its running executions, and only that one is
\* timed out.  A row a final report has already updated in its open transaction is locked:
\* the two transactions would wait for each other, and the database breaks the tie.
TimedOutRows == {f \in [ToTimeOut -> rows] : \A s \in ToTimeOut :
  /\ f[s] \in RunningIn(s)
  /\ tx # None /\ tx.msg.kind # "start" => f[s].id # tx.id}

\* The last two queries of settle(): jobs whose pause or agent flag and state disagree.
\* A NULL unknown_reason makes the comparison NULL while the state is unknown.
FlagsDisagree ==
  /\ ~(job.state = "unknown" /\ job.reason = "none")
  /\ \/ paused  # (job.state = "unknown" /\ job.reason = "paused")
     \/ offline # (job.state = "unknown" /\ job.reason = "agent_offline")

\* Mutant: pause flips and agent outages cause no state pass of their own.
TouchedBySlots == ToSkip \cup ToMarkLate \cup ToMarkMissed \cup ToTimeOut # {}

Touched == ToSkip \cup ToMarkLate \cup ToMarkMissed \cup ToTimeOut # {} \/ FlagsDisagree

SettledSlot(s) ==
  [slot[s] EXCEPT !.state = IF s \in ToSkip THEN "skipped"
                            ELSE IF s \in ToMarkLate THEN "late"
                            ELSE IF s \in ToMarkMissed THEN "missed"
                            ELSE IF s \in ToTimeOut THEN "failed"
                            ELSE @]

\* Phase 1 of a tick, one transaction.  It takes no job lock, so it may fall between the
\* SELECT and the UPDATE of attach_slot.
Settle ==
  /\ rpc = "idle"
  /\ \E f \in TimedOutRows :
       rows' = {IF \E s \in ToTimeOut : r = f[s]
                THEN [r EXCEPT !.status = "timeout", !.end = now] ELSE r : r \in rows}
  /\ slot' = [s \in Slots |-> SettledSlot(s)]
  /\ missedAt' = [s \in Slots |->
       IF s \in ToMarkMissed /\ missedAt[s] = None THEN now ELSE missedAt[s]]
  /\ rpc' = IF Touched THEN "recompute" ELSE "idle"
  /\ UNCHANGED <<clocks, queue, tx, forgotten, faults, seen, ulid, job, everRan, env>>

\* Phase 2, another transaction: recompute_state waits for the job's lock.
Recompute ==
  /\ rpc = "recompute" /\ tx = None
  /\ job' \in JobRows(slot, rows, missedAt, everRan)
  /\ rpc' = "idle" /\ forgotten' = FALSE
  /\ UNCHANGED <<clocks, queue, tx, faults, seen, ulid, slot, rows, missedAt,
                 everRan, env>>

\* The tick dies after settling (a crash, or an exception on a publish or an earlier batch):
\* the set of touched jobs was only in memory.
CrashReconciler ==
  /\ ReconcilerCrashes /\ faults < MaxFaults
  /\ rpc = "recompute"
  /\ rpc' = "idle" /\ forgotten' = TRUE
  /\ faults' = faults + 1
  /\ UNCHANGED <<clocks, queue, tx, db, env>>

--------------------------------------------------------------------------------
(* Operators and agents                                                       *)

Flip == flips < MaxFlips /\ flips' = flips + 1

\* PATCH /jobs/{id} with `paused': the legacy status is overwritten, job_state is not.
UpdatePaused(p) ==
  /\ Flip
  /\ tx = None
  /\ paused' = p
  /\ job' = [job EXCEPT !.status = IF p THEN "paused" ELSE "unknown"]
  /\ UNCHANGED <<clocks, queue, tx, rpc, forgotten, faults, seen, ulid, slot, rows,
                 missedAt, everRan, offline, maint>>

\* A maintenance window that covers the slot is created or deleted.
EditMaintenance(s) ==
  /\ Flip
  /\ maint' = IF s \in maint THEN maint \ {s} ELSE maint \cup {s}
  /\ UNCHANGED <<clocks, queue, tx, rpc, forgotten, faults, db, paused, offline>>

\* The agent falls silent for three of its intervals, or is heard again.
AgentChange ==
  /\ Flip
  /\ offline' = ~offline
  /\ UNCHANGED <<clocks, queue, tx, rpc, forgotten, faults, db, paused, maint>>

--------------------------------------------------------------------------------
Init ==
  /\ now = 0
  /\ begun = [r \in Runs |-> None] /\ ended = [r \in Runs |-> None]
  /\ queue = {} /\ seen = {} /\ ulid = 0 /\ tx = None
  /\ slot = [s \in Slots |-> [state |-> "pending", exec |-> None]]
  /\ rows = {} /\ missedAt = [s \in Slots |-> None]
  /\ job = [state |-> "unknown", reason |-> "none", fails |-> 0,
            status |-> IF Slots = {} THEN "unknown" ELSE "healthy"]
  /\ everRan = FALSE /\ paused = FALSE /\ offline = FALSE /\ maint = {}
  /\ rpc = "idle" /\ forgotten = FALSE /\ flips = 0 /\ faults = 0

Deliver == \E m \in queue : AckDuplicate(m) \/ BeginTx(m)

Next ==
  \/ Tick
  \/ \E r \in Runs : BeginRun(r)
  \/ \E r \in Runs, kind \in Endings : EndRun(r, kind)
  \/ \E m \in queue : AckDuplicate(m)
  \/ \E m \in queue : BeginTx(m)
  \/ CommitTx
  \/ AbortTx
  \/ Settle
  \/ Recompute
  \/ CrashReconciler
  \/ \E p \in BOOLEAN : UpdatePaused(p)
  \/ \E s \in Slots : EditMaintenance(s)
  \/ AgentChange

Spec == Init /\ [][Next]_vars

\* Time passes, the workers keep running and the broker keeps delivering.  Nothing is
\* assumed of runs, operators, agents or faults.
Fairness ==
  /\ WF_vars(Tick)
  /\ WF_vars(Deliver)
  /\ WF_vars(CommitTx)
  /\ WF_vars(Settle)
  /\ WF_vars(Recompute)

FairSpec == Spec /\ Fairness

--------------------------------------------------------------------------------
(* Types                                                                      *)

TxType == [msg: Report, id: ExecId, slot: Slots \cup {None}]

JobType == [state: JobState, reason: UnknownReason, status: JobStatus, fails: Nat]

\* Every variable keeps its type; in particular what the SQL writes into an enum column is
\* one of the enum's values.
TypeOK ==
  /\ now \in Time
  /\ begun \in [Runs -> Time \cup {None}]
  /\ ended \in [Runs -> {"success", "fail", None}]
  /\ queue \subseteq Report
  /\ seen \subseteq ExecId \X {0, 1}
  /\ ulid \in Nat
  /\ tx \in TxType \cup {None}
  /\ slot \in [Slots -> [state: SlotState, exec: ExecId \cup {None}]]
  /\ rows \subseteq ExecRow
  /\ missedAt \in [Slots -> Time \cup {None}]
  /\ job \in JobType
  /\ {everRan, paused, offline, forgotten} \subseteq BOOLEAN
  /\ maint \subseteq Slots
  /\ rpc \in {"idle", "recompute"}
  /\ flips \in 0 .. MaxFlips
  /\ faults \in 0 .. MaxFaults

--------------------------------------------------------------------------------
(* Safety                                                                     *)

\* However often a report is delivered, in whatever order, one execution fulfils at most
\* one expected run: a redelivered success must not tick off the next slot as well.
OneSuccessPerExec ==
  \A s1, s2 \in Slots :
    /\ slot[s1].state = "succeeded" /\ slot[s2].state = "succeeded"
    /\ slot[s1].exec = slot[s2].exec
    => s1 = s2

\* A slot nobody has answered for has no execution, neither in its own row nor among the
\* executions: the reconciler, which takes no job lock, never buries an execution under
\* `missed' or `skipped', whichever side of an exec-processor's commit it falls on.
UnsettledUnbound ==
  \A s \in Slots :
    slot[s].state \in {"pending", "late", "missed", "skipped"} =>
      /\ slot[s].exec = None
      /\ \A r \in rows : r.slot # s

\* No slot hangs: the next tick settles every slot past its deadline.  In particular a slot
\* that counts as running still has a running execution for _mark_timeouts to join, so the
\* final report of every execution came to the slot its start had taken.
NextTickSettles == \A s \in Slots : now > Deadline(s) => SettledSlot(s).state \in TERMINAL

\* A slot is marked succeeded only for a run that really ended in success and really began
\* inside the slot's window, even when its start report came late or never.
SucceededIsReal ==
  \A s \in Slots : \A r \in Runs :
    slot[s].state = "succeeded" /\ slot[s].exec = r =>
      ended[r] = "success" /\ InWindow(s, begun[r])

\* A fulfilled slot is never changed again: not by an older report of the same or another
\* run, nor by a reconciler tick that overlaps the transaction that fulfilled it.
SucceededIsFinal ==
  [][\A s \in Slots : slot[s].state = "succeeded" => slot'[s] = slot[s]]_vars

\* To its readers a slot lives the life docs/ARCHITECTURE.md gives it: what the two kinds of
\* worker do to the tables, in any interleaving, is a step of that life or none.
Lifecycle == INSTANCE SlotLifecycle WITH
  Execs  <- ExecId,
  fate   <- [s \in Slots |-> slot[s].state],
  answer <- [s \in Slots |-> slot[s].exec],
  held   <- IF tx = None THEN None ELSE tx.slot

IsALifecycle == Lifecycle!Spec

\* When a slot is declared missed, every execution on record that began in its window has
\* been credited to some slot: no run is overlooked while its slot counts as missed.
NoFalseMiss ==
  [][\A s \in Slots : slot[s].state # "missed" /\ slot'[s].state = "missed" =>
       \A r \in rows : InWindow(s, r.begin) => r.slot # None]_vars

\* While the job is paused or maintenance covers a slot, the slot is never newly counted
\* late or missed, whatever it was before the pause.
SkippedNotBlamed ==
  [][\A s \in Slots :
       slot'[s].state \in {"late", "missed"} /\ slot'[s].state # slot[s].state =>
         ~paused /\ s \notin maint]_vars

--------------------------------------------------------------------------------
(* Liveness                                                                   *)

\* Every slot is settled in the end once its deadline is over, through crashes of either
\* worker, pauses and outages: detection may be delayed, it is never lost.
OverdueSettles ==
  \A s \in Slots : now > Deadline(s) ~> slot[s].state \in TERMINAL

Agrees ==
  \E j \in JobRows(slot, rows, missedAt, everRan) :
    job.state = j.state /\ job.reason = j.reason /\ job.fails = j.fails

\* Once pauses, outages and reports are over the job's row settles on what its slots and
\* executions say, unless a tick died half way and nothing has touched the job since.
EventualAgreement == <>[](Agrees \/ forgotten)
================================================================================
