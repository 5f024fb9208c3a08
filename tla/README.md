# JobWatch: a TLA+ model

JobWatch (`src/apps/api/cronsentinel`, `src/agents`) watches scheduled jobs. It writes down in
advance when each job should run, collects the reports the runs send, decides which runs were late,
missed, failed or timed out, and tells people and other systems. The specifications here follow that
path: how slots come to exist, how reports reach the server, how the two are matched and judged, what
becomes of the verdict; and what admits jobs, agents and users in the first place.

## The system

| part | state it keeps | operations | talks to |
|---|---|---|---|
| linux agent (`src/agents/linux-agent`) | host buffer file and offset | wrap a run, report start and final, flush, discover | ingest, by HTTP |
| k8s agent (`src/agents/k8s-agent`) | pending list and started Jobs in memory, key in a Secret | `onJob`, `onPod`, `onEvent`, flush, discover, enrol | Kubernetes, ingest |
| ingest (`routers/heartbeat.py`, `agents.py`, `k8s.py`) | token and key caches in Redis, `agents`, `k8s_cronjobs` | resolve a token or key, publish a report, enrol, rotate, revoke, discover | stream `CS_EXEC`, `jobs` |
| exec-processor (`workers/exec_processor.py`, `processor.py`), 2 replicas | none of its own | `process`, `attach_slot`, `recompute_state` in one transaction, then ack | `execution_events`, `executions`, `expected_runs`, `jobs`; publishes `jobstatus.*` |
| schedule-generator (`workers/schedule_generator.py`) | `jobs.generated_through` | materialise slots six hours ahead, every 60 s | `expected_runs` |
| reconciler (`workers/reconciler.py`), 1 replica | in-memory set of touched jobs | `settle` (skip, late, missed, timeout), then `recompute`, every 30 s | the same tables; publishes `jobstatus.*` |
| rule engine (`workers/rule_engine.py`, `alerting/`) | `incidents`, flap windows in Redis | auto-resolve, suppress, dedup, correlate, open | Celery |
| notifier (`alerting/tasks.py`) | `notification_ledger`, rate counters | send, record, retry | channels |
| outbound exporter (`workers/outbound_exporter.py`) | high-water marks in memory | consume `jobstatus.*`, poll, fan out | Celery |
| signal delivery (`outbound/deliver.py`) | `signal_deliveries`, failure counts | attempt, post, record, retry, auto-disable | endpoints of tenants |
| billing (`routers/billing.py`) | `subscriptions`, `stripe_events`, `organizations.plan` | checkout, webhook, plan caps where jobs are made | Stripe |
| users (`routers/auth.py`, `auth.py`, `oidc.py`, `cli.py`) | cookies, login states in Redis, cached signing keys, memberships, API keys | login, callback, switch, create and purge organisations | Keycloak |
| jobs, alerting, incidents and integrations APIs | configuration rows | CRUD, pause, maintenance windows, ack and resolve | Postgres |

What makes it hard: reports are delivered at least once and in any order; two kinds of worker write
the same slots, one under the job's row lock and one without it; either can die between two
transactions; pauses, maintenance windows and agent outages change what a silent slot means; time
itself is an input, since a slot is settled by the tick that first looks after its deadline. Further
on, tasks are queued before the transaction they belong to commits; polls look for rows that commit
late; webhooks come twice and out of order; limits are counted first and used later; caches outlive
what they cache.

What makes each part correct:

- exec-processor: a report counts once; a run is credited to the slot it belongs to; a fulfilled
  slot stays fulfilled.
- reconciler: nobody is called missed who is on record in the window; a paused job is not blamed;
  every slot is settled in the end; the job's row comes to agree with its slots and executions.
- generator: every occurrence of the schedule becomes exactly one slot, up to the documented cap.
- linux agent: an event that was pushed is sent, in order, unless the buffer is damaged.
- k8s agent: the start of a run comes before its end; the end and the reason of a failure arrive;
  a job is paused exactly while its CronJob is suspended.
- rule engine and notifier: one unresolved incident per job; every failure is on the timeline of
  one, unless it was suppressed; a job that is well has none; every event and page is dealt with.
- exporter and delivery: every settled slot is exported, once unless something broke; no delivery
  is forgotten.
- billing: the plan follows what is paid; jobs stay within it, and have what room it leaves.
- keys and sessions: what the caches answer comes to agree with the database; a change of signing
  keys locks nobody out.

`PROJECT.json` lists the components with their status, the hazards by line, the disagreements between
code and documentation that came up, and the lines every definition translates.

## Modules

| module | models | kind |
|---|---|---|
| `JobStates` | `states.py`: the state vocabularies, `derive`, `legacy_status` | pure operators |
| `SlotLifecycle` | the life `docs/ARCHITECTURE.md` gives a slot | abstract specification |
| `JobPipeline` | `processor.py`, `exec_processor.py`, `reconciler.py`, `job_state.py`, pause and maintenance endpoints, one job | state machine, refines `SlotLifecycle` |
| `SlotGeneration` | `schedule_generator.py`, `generation_window`, `slots_between`, create, edit, pause and delete of jobs | state machine, properties |
| `EventQueue` | what `docs/AGENT.md` promises of the agent's buffer | abstract specification |
| `AgentBuffer` | `buffer.go`, the flusher in `main.go`, `client.go`, the `events` endpoint | state machine, refines `EventQueue` |
| `K8sAgent` | `watcher.go`, `main.go` of the k8s agent, `routers/k8s.py` | state machine, properties |
| `AlertPipeline` | `rule_engine.py`, `alerting/`, ack and resolve of incidents, edits of rules, channels, windows | state machine, properties |
| `SignalExport` | `outbound_exporter.py`, `outbound/deliver.py`, edits of destinations | state machine, properties |
| `PlanLimits` | `billing.py`, and where `jobs.py`, `agents.py` and `k8s.py` create jobs | state machine, properties |
| `Access` | keys and tokens in `agents.py`, `auth.py`, `heartbeat.py` | state machine, properties |
| `SignIn` | `routers/auth.py`, `oidc.py`, `auth.py`, organisations in `cli.py` | state machine, properties |
| `MC<module>` | values for the constants of each state machine | model checking |
| `JobPipelineProofs`, `SlotGenerationProofs`, `AgentBufferProofs`, `K8sAgentProofs`, `AlertPipelineProofs`, `SignalExportProofs`, `PlanLimitsProofs`, `AccessProofs` | inductive invariants and theorems | TLAPS |

The machines meet at interfaces, and each assumes of its neighbour no more than the neighbour gives:

- What `AgentBuffer` publishes, in order and at least once, and what `K8sAgent` puts on its `stream`,
  is what `JobPipeline` consumes from a queue without order.
- What `SlotGeneration` materialises is what `JobPipeline` calls `Slots`.
- The `jobstatus` events of `JobPipeline` are what `AlertPipeline` (`Publish`) and `SignalExport`
  (`Messages`) receive; both accept any sequence of statuses. The slots it settles are what
  `SignalExport` polls.
- The jobs whose rows `SlotGeneration` creates are admitted by `PlanLimits`.
- `Access` decides which reports enter `JobPipeline` and `AgentBuffer`; `SignIn` decides who may
  make the edits that all of them show as actions of users.

### `JobPipeline`: state and actions

One job, with its slots already materialised. No statement of the code joins the rows of two jobs
and no lock spans two, so a job is the unit of reasoning; the reconciler's batches of 100 jobs are
100 independent instances of `Recompute`.

- `slot` is `expected_runs` (state, execution_id), `rows` the reported rows of `executions` with the
  primary key `(id, scheduled_ts)` as `(id, sched)`, `missedAt` the synthetic `missed` executions,
  `job` the derived columns of `jobs`, `seen` the keys of `execution_events`, `everRan` whether
  `last_run_at` is set.
- `queue` is the unacknowledged part of `CS_EXEC`, a set: no order is assumed. A redelivery is a
  report put back (`AckLost` after a commit, `AbortTx` after a rollback). It is recognised by its
  execution_id; a report without one gets a fresh id each time, as in the code, and counts twice. The stream's limit of ten
  deliveries is far above `MaxFaults`, so it is never reached and is left out.
- `tx` is the exec-processor transaction that holds the job's row lock, after the SELECT of
  `attach_slot`. `BeginTx` evaluates everything up to that SELECT; `CommitTx` makes all writes
  visible at once. The database runs at read committed: a reconciler tick takes no job lock, so it
  can commit in between, and the UPDATE of `attach_slot` then overwrites whatever it finds. Two
  replicas of the worker need no second `tx`: the row lock lets only one of them past `BeginTx`.
  `CommitTx` computes the job's row from the tables as they are at the commit; a tick that commits
  after the SELECTs of `recompute_state` but before the commit is followed by that tick's own
  `Recompute`, which waits for the lock, so the final value is the same.
- `rpc` is the reconciler's place in its loop. `Settle` is the one transaction of `settle` with its
  four UPDATEs in order (each reads what the earlier ones left); `Recompute` is the state pass;
  `CrashReconciler` is a tick that ends between them.
- `Timeline` breaks ties of equal instants both ways (`LastTwo` is a set), as ORDER BY does.
- `forgotten` is a ghost variable, set by `CrashReconciler` and cleared by the next state pass; no
  action reads it.

`SlotLifecycle` is what a reader of the slots may rely on: `fate`, `answer` and `held` are the states,
the executions and the slot of the open transaction (`Lifecycle` is the mapping). `Choose` is the
SELECT of `attach_slot`, `Answer` its UPDATE, `LetGo` a rollback, `Judge` a pass of the reconciler. It
has the document's arcs and those its shorthand leaves out: a late slot may still be answered, a slot
may be missed without having been late (the tick came after the deadline), and may succeed without
having been running (no start was reported). A verdict is provisional only while a transaction holds
the slot: its UPDATE goes by the slot's id and overwrites what a tick wrote since the SELECT.

Inputs are parameters: a run may be anonymous (`/ping`, `/heartbeat/<token>/<status>`),
unsequenced (JSON heartbeat with default `sequence`), its start may go unreported
(`StartReported`) and its final report may lack `duration_ms` (`DurationReported`). A run that ends
in the millisecond it began, and the few milliseconds between the agent's two clocks, fall within
one tick of the model.

Left out: wording, log tails, `skew_ms`, `next_expected_at` (a display cache), `state_since`. The
`jobstatus` events are the input of `AlertPipeline` and `SignalExport`. Progress reports never reach
the stream.

### `SlotGeneration`: state and actions

- `row` holds the columns of `jobs` the generator reads (`through` is `generated_through`), or None;
  `slots` is `expected_runs`, by instant. Evaluating a cron expression is croniter's work: a schedule
  is the set `Occurrences[s]` of instants it fires at. The clock starts at 0 and instants before it
  are negative, so a generator that reaches back finds nothing invented there.
- `batch` is the open transaction of `run_batch`: `BeginBatch` is its `FOR UPDATE SKIP LOCKED` query
  and loop, `CommitBatch` the INSERT, `_ADVANCE` and commit, `AbortBatch` a rollback or a dead
  generator. `SKIP LOCKED` means that a batch may get any subset of the candidates, in the order of
  `generated_through`. `WithinBudget` says which of them are worked through before the slot budget
  is used up; ties in the order are broken every way. `CaughtUp` is the batch that finds no
  candidate.
- `UpdateSchedule` and `UpdatePaused` are PATCH requests and wait for a row the batch has locked.
  DELETE is `PurgeJob` then `DeleteJob`, since only the second statement touches the job's row.
- `edited` is a ghost: jobs whose schedule was changed after slots had been generated.

### `AgentBuffer`: state and actions

- `file` is a sequence of bytes, because offsets count bytes: byte `i` of event `e` is `<<e, i>>`.
  Lines of two and three bytes are enough for an offset to fall inside a line.
- A wrapped run is a process that appends with one `write`. The kernel admits one writer at a time
  and readers at any time: `StartPush` shows a prefix of the line, `FinishPush` the rest, `TearPush`
  is a write cut short by a full disk or a kill. `Passive` events are pushed by the daemon, under the
  mutex that `Peek` and `Ack` take.
- `flusher` is the place of the daemon's loop. `Ack` is five actions: `os.WriteFile` truncates the
  offset file (`BeginAck`) and writes it (`SaveOffset`, with the size check; or `SaveOffsetFails`),
  then `Truncate` and `ResetOffset`. `Crash` can fall between any two.
- `request` is the batch a server handler is publishing, one event per step; `SendFails` may leave the
  handler running (`late`) while the agent sends the batch again.
- `damaged` is a ghost for three accidents: a torn line, an append between the size check and the
  truncation, a daemon that dies between the truncation and the reset of the offset. `recorded` and
  `published` are ghosts too; no action reads any of them.

Not modelled: loss of power (nothing is fsynced), the file system refusing to reopen the file, and
lines above the scanner's 1 MB, which log tails of 32 KB do not reach. That the server drops events
of jobs it has not discovered, after answering for them, is part of "published" here.

### `K8sAgent`: state and actions

- `current`, `retired`, `suspend`, `job` and `sick` are the cluster: CronJob objects by UID, Job
  objects and their pods. A Job is deleted in the end or stays, and what ails a pod stays or passes
  (`ClusterStep`: `Sicken`, `Heal`); `Recreate` gives a name a new UID.
- The handlers `OnJob`, `OnPod` and `OnEvent` run at every change and every resync, so they are
  enabled whenever their object exists. They append to `pending`; `started` is `jobToCron` and the
  memory of pushed starts. The execution id is the Job's UID, sequence 0, 5 or 1.
- `Flush` posts the list (`sending`, `posts`); `Handle` is one event of a batch on the server,
  `Finish` the commit and the answer. After `FlushFails` the batch is in front of the list again and
  the handler may run on, until it is rolled back or ends.
- `Discover` is `discover_cronjobs` as one transaction: rows, jobs by fingerprint, `paused`.
  `DiscoverRefused` is the unique constraint that a recreated CronJob meets.
- `Boot`, `BootFails`, `KeepKey` and `Die` are the life of the process and of its key.
- `stream` holds the reports published for the jobs rows there are. `Process` stores the dedup key and
  writes the execution that `explained` refers to (`recorded`; a report published again has its key).
- `DeleteJob` is `delete_job` with `purge_job`: the jobs row, its row of `k8s_cronjobs`, its executions and
  their dedup keys. Reports published before become `orphans`; when one reaches the processor then,
  `ProcessOrphan` stores its key and drops it (`swallowed`), so a later report of the same kind is a
  duplicate (a finding). A request that has updated an execution makes the deletion wait. A deletion is
  one step; a report written between its statements would leave its key behind likewise, and its
  execution. `PauseJob` is the PATCH of `paused`.
- `lost` is a ghost: the Jobs whose start was dropped.

Left out: spec columns, pods' nodes (which never arrive; a finding says why), lists of clusters.

### `AlertPipeline`: state and actions

- `queue` is the stream of the rule engine, with the deliveries each event has had. New events come
  in order, events that were not acknowledged at any time.
- `eng` is the open transaction of `handle_status_change`. `Begin` is everything up to the loop over
  rules; `Deduplicate`, `Notify`, `FindRelated` with `Attach`, and `Open` are the ways a rule can go;
  `Commit` makes the incidents visible and acknowledges, `Rollback` is an exception or a crash. The
  flap counter `flaps` lives in Redis and is not rolled back; the notifications in `tasks` are queued
  while the transaction is open.
- `incs` names an incident by the handling that opened it, since a handling opens one at most (the
  next rule finds it). Rows an open transaction has updated are locked for operators (`Locked`).
- A task is one of `GiveUp`, `SendOk` and `Retry`. `ledger` holds the rows with status `sent`, the only
  ones the dedup check reads; a row for an incident that was never committed violates its foreign key.
- Which rows share a signal (`correlation.py`), the success rate, the failures in a row, and business
  hours are choices, as is the age of the flap window's entries.
- `newest`, `reached` and `misled` are ghosts: the last event that says something about a job, how far
  the handling has come, and jobs for which an older event was handled after a newer one.

### `SignalExport`: state and actions

- `Settle` is the commit of a settling: `settled` becomes the time its transaction began, now or
  earlier, which is why the high-water mark `mark` can be past it already. `Overwrite` is the UPDATE of
  `attach_slot` that finds the slot settled since its SELECT: it settles it again with a time of its
  own, or sets it running, whereupon it may settle once more. `told` (a ghost) is the settling the last
  signal of a slot was made of.
- `Consume` fans a message of `stream` out, acknowledged or not. `Poll` is one round of `poll_loop`:
  slots in the order of `settled_at` up to `Limit`, then, if its query names only columns that exist,
  incidents and agents. The columns are sets: two of the three queries fail against the migrations.
  `PollBreaks` is a round that raises while fanning out; `Restart` sets the mark to now.
- `copies` counts the signals made of a source, each with a ULID of its own.
- A delivery goes `queued`, `posting`, `answered` or `failed`: the row is written, the signal posted and
  the outcome marked in separate transactions. A worker that dies before it acknowledges (`WorkerDies`)
  leaves the task, outcome written or not, to another one: that is `acks_late`. A task whose pool process
  is killed, by the hard limit of 60 s or from outside (`TaskKilled`), is acknowledged by its worker, as
  `task_reject_on_worker_lost` is not set, and is gone. `SentRaises` is an error of the mark `sent`, which
  the handler takes for a failed post; `Raises` is one outside the try (the look-up, the attempt's row,
  the decryption) or of the mark of a failure: the task is tried again, or after its last try gone with
  its row open. `dests` has the failures that lead to auto-disable.
- `due` (every delivery ever queued), `dropped`, `lost`, `excused`, `overwritten` and `repeated` are
  ghosts: what is to be accounted for, and the known losses and repetitions by name.

### `PlanLimits`: state and actions

- Stripe is external: `customers`, `subs`, `sessions`, and `inbox`, the events without a 2xx answer. It
  may deliver any of them at any time, again after an answer was lost.
- `BeginCheckout` and `EndCheckout` bracket the calls to Stripe that `checkout` makes inside its
  transaction. `Webhook` is one delivery: dedup by `seen`, then the row and the plan by type.
- `BeginCreate` and `CreateJob`, `BeginDiscovery` and `Discover` are the count and the inserts of
  `create_job` and of the host's discovery, one open per maker in `reading`; `DiscoverCronJobs` inserts
  without a count.
- `disordered` and the field `overtaken` are ghosts: an event applied after a later one; another
  creation that committed between the count and the inserts.

### `Access`: state and actions

- `rows` is `agents` (hash, revoked), `cache` the entry `agentkey:<id>`, `handed` the keys given out.
  `Rotate` and `Revoke` commit first and leave the deletion of the entry to `DeleteEntry`; `Crash` may
  come between.
- An enrolment is a token that is good (`Admit`), the SELECT of the host's live agent (`LookUp`, kept in
  `found`), the UPDATE or INSERT (`Enroll`), which leaves the cache alone, and `DeleteToken`. Several may
  overlap, with one token as well, and so make two live agents of one host (a finding).
- A request is `Handle`: it reads cache or row, fills the cache, and rewrites an old hash, in steps.
- `job`, `resolving` and `resolved` are the same for heartbeat tokens. `Expire` and `Forget` are Redis.
- `replaced` is a ghost: agents whose new key an upgrade of the old hash has overwritten.

### `SignIn`: state and actions

- The identity provider signs with `signing` and publishes `published`. `jwks` is the cache of
  `oidc.py`, which expires and can be refreshed by force, `bearer` that of `auth.py`, which can do
  neither.
- `Login`, `Callback`, `Exchange`, `Verify` and `Abandon` are one walk of a browser. A callback finds the
  state (`passed`) before it deletes it, so that a callback repeated in between passes as well; its code
  may be refused. `VerifyFails` is a provider or a database that cannot be reached. Callbacks of one
  browser verify one after the other, and its next login begins when no callback is left between
  the two commands.
- An id_token may lack a kid: it then verifies against a single key only, as in `_key_for`. A bearer
  token passes if any cached key signed it, even one withdrawn since; that tokens expire is left out.
- `made`, `orgs`, `keyed`, `known` and `session` are organisations, API keys, the user and the
  cookies; `PurgeOrg` deletes an organisation under the sessions that name it.
- `AccessProofs` extends this module together with `Access`; where the two would use the same name, this
  one prefixes it (`SignInInit`, `SignInNext`, `ApiCrash`).

## What is checked

| run | instance | properties |
|---|---|---|
| `reports` | two slots with overlapping windows, two runs, two faults, two ticks | `TypeOK`, `UnsettledUnbound`, `NextTickSettles`, `SucceededIsReal`, `IsALifecycle`, `NoFalseMiss` |
| `upkeep` | one slot, one run whose start may be lost, two environment changes, one crash, four ticks | `SkippedNotBlamed`, `OverdueSettles`, `EventualAgreement` |
| `generation` | two jobs, two schedules, one rollback, two edits, deletions, two ticks | `TypeOK`, `ExactlyTheSchedule`, `NothingInvented`, `MaterialisedAhead` |
| `buffer` | three lines, one of them the daemon's, batches of two, two faults, compaction in reach | `TypeOK`, `NothingSkipped`, `ResentOnlyAfterFault`, `IsAQueue`, `EventuallySent` |
| `alerts` | two jobs, a rule on failures and one on the success rate, two events delivered twice | `TypeOK`, `OneOpenIncident`, `HealthyMeansResolved`, `FailureIsTracked` |
| `paging` | one job, two rules that page, one event, one retry, one edit | `EventuallyHandled` |
| `second_outage` | one job that fails, recovers and fails | `FailureOpensIncident` is violated |
| `signals` | one message, two slots, one note, a webhook, one slot settled again, one fault, one edit | `TypeOK`, `OnceUnlessRepeated`, `AccountedFor`, `EventuallyExported` |
| `k8s` | a CronJob, its recreation, a failing Job, batches of two, of which one event is read, one mishap | `TypeOK`, `StartsFirst`, `EventuallyReported`, `EventuallyExplained`, `PauseFollowsSuspend` |
| `plans` | two paid plans, two customers, three webhook events, four jobs | `TypeOK`, `PlanFollowsStripe`, `WithinLimit`, `DiscoveredUnlessFull` |
| `keys` | a host of up to two agents, two enrolments at once, three keys, one request at a time, a job with a token, one crash | `TypeOK`, `AnswersConverge` |
| `signin` | two browsers, two signing keys, two organisations, one crash | `SignInTypeOK`, `SignInSurvivesRotation` |

Bounds. `reports`, `upkeep`: two slots whose windows overlap and two runs are what it takes for a
report to have a choice of slot, for a run to take a slot from another, and for one run's report to
arrive between the other's two. In `reports` two ticks let the clock pass the deadline of the first slot
while the second is still open, so that a run can be late for one and in time for the other, and a
tick can settle the first under a transaction that holds it; in `upkeep` four ticks take its slot through
late, missed and timeout and back from a pause. Two faults are enough to redeliver a report whose
transaction was rolled back before, or the reports of both runs; each fault leads back to a state a run
without it could be in, except where the ghost `forgotten` records it. Two flips are needed to pause and resume, or to pause inside an outage.

`generation`: two jobs with a slot budget that one of them can fill, so that a batch leaves the other
out or takes both; a backfill limit shorter than the clock's range, so that the limit bites; two edits to pause and
resume; one rollback. Two ticks make what the first batch generated stale again, so that there is a
seam between two batches of a job. `MaxSlots` is below the backfill limit and the horizon together, as
2000 is below 2880 and 360 minutes, so a window after an outage loses its last instants to the cap; the
ghost `cut` names them.

`buffer`: three lines in batches of two make a batch full, short or empty; the file passes
`CompactSize` after two lines, so that an append can meet the compaction; two faults allow a crash
while an abandoned request is still being published.

`alerts`: a second job is what a related incident, and an incident of two jobs, need; two events in
two deliveries each give a failure after the recovery, a failure handled again, and a job that flaps
(`FlapThreshold` 2). Three statuses stand for all: they are the ones that open, resolve and say
nothing. Retries, edits and a second paging rule are `paging`'s, whose question is only whether
everything ends. `second_outage` needs three events and no redelivery.

`signals`: with one slot per poll (`Limit`) and two slots, ties at the mark are cut; with two instants a
slot can commit behind the mark. The webhook takes the slots of one of two workspaces; messages do not
reach it. A destination of kind `nats` has no sender and does what a webhook that always fails does, and
deliveries to two destinations share nothing, so that one destination shows what there is to see. One
retry, two dead deliveries to disable (`AutoDisableAfter`), one slot settled again (`MaxOverwrites`) and
one fault, which is a repetition, a restart, an error, a dead worker or a killed task: combinations of
faults are left to the proofs, which bound neither.

`k8s`: the server reads one event of a batch of up to two (`Limit` 1, `MaxPending` 2), so that an end, a
start or a reason can lie beyond the limit, once or, with a pod that is reported before its Job, in every
batch; the properties except only the latter (`CutOff` again and again), and without that exception the
run refutes them. The second UID is the recreated CronJob. One mishap at a time is the bound, where
restarts, failed posts, warnings, pauses, deletions, suspensions and recreations count as mishaps, and a
sick or recovering pod does not: combinations of mishaps are not explored.

`plans`: caps 2, 3 and none against four possible jobs, so that a capped plan can be full or not; three
events are a checkout, an update and a deletion in any order; two customers come of two checkouts.
`keys`: the first key, and two more of enrolments or rotations; two enrolments overlap, a request
overlaps with them and with rotations, and requests with each other are left to the proofs. One edit pauses
the job. `signin`: two keys are a rotation, before or after any fetch, with the old key still published
or withdrawn. The passing runs take between some seconds and a minute and a half each on two cores.

Fairness. Nothing is assumed of runs, operators, users, agents' hosts or faults; what is assumed is
that loops loop and that what has begun ends:

- `JobPipeline`: the clock ticks, the broker keeps delivering (`Deliver`), an open transaction ends, the
  reconciler keeps ticking. The workers are loops around a sleep (`exec_processor.main`,
  `reconciler.main`) that log an exception and go on, and both deployments restart them; JetStream
  redelivers until acknowledged. Weak fairness suffices because each of these actions stays enabled
  until it is taken.
- `SlotGeneration`: the clock ticks and the generator keeps running (`schedule_generator.main`); a
  request that has begun ends. `SKIP LOCKED` may leave a job out of any one batch, but a job that was
  passed over stays first in the order until it is generated.
- `AgentBuffer`: writes end, the flusher loops, the server answers, systemd restarts the daemon
  (`Restart=always`); posts fail only `MaxFaults` times, which stands for outages that end.
- `K8sAgent`: Kubernetes restarts the agent, its two loops go round, the server ends a request, the
  processor consumes. For `OnJob` and `OnPod` strong fairness: an informer calls them again at every
  resync, and only the model's bound `MaxPending` can disable them for a while.
- `AlertPipeline`: `rule_engine.main` fetches for ever; the Celery workers take what is queued.
- `SignalExport`: the poll loop (15 s), the consumer's loop, the workers. `EventuallyExported` speaks of
  making the signal; that its delivery ends is not claimed, as a killed task has no successor.
- `PlanLimits`: the discovery loop of each host. Stripe and users need do nothing.
- `Access`: Redis lets entries expire (300 s); a request that has begun ends.
- `SignIn` states none: its property is about a step.

Excuses. Several properties except a state by name: `excused`, `repeated`, `dropped`, `damaged`,
`misled`, `overtaken`, `disordered`, `replaced`, `lost`, `overwritten`, `cut`, `swallowed`, `CutOff`,
`Stranded`, `Blocked`. Each names a place where the
code loses or repeats something, or keeps something too long, and is kept as narrow as possible so
that it does not hide other losses. Those that contradict the documentation or an evident intent are
`findings` in `PROJECT.json`.

Disagreements. `findings` quotes 42 of them, the code on one side and the document, comment or
evident intent on the other. One has a run, `second_outage`: without a repeat interval the ledger's
row of the first outage suppresses the second, its page and its incident, for good. The others were
met in modelling; where a property touches one, the property excepts it by name and the finding says
so. None of them touches what the passing properties promise.

## What is proved

Every theorem holds for all values of the constants that meet the module's assumption, and for any
number of faults, edits and events.

`JobPipelineProofs`, from `ConstantsAssumption`:

- `TypeCorrect`: `Spec => []TypeOK`.
- `NoDoubleCredit`, `NothingBuried`: the invariants `OneSuccessPerExec` and `UnsettledUnbound`. The first
  is also a guard of `SlotLifecycle`, so `IsALifecycle` checks it in the run.
- `FulfilledIsFinal`, `MissesAreReal`, `PausedIsSilent`: the action properties `SucceededIsFinal`,
  `NoFalseMiss`, `SkippedNotBlamed`.
- `ImplementsLifecycle`: `IsALifecycle`, the refinement of `SlotLifecycle`. `SucceededIsFinal` is part of
  it, which is why no run checks that one on its own.
- `SuccessIsReal`: `SucceededIsReal`, provided every final report carries its duration
  (`DurationReported \subseteq {TRUE}`), as those of both agents do (`run.go`, and `watcher.go` for a
  Job with a start time). For a heartbeat it is optional: without it a run whose start report is lost
  is placed by its end, and may tick off a slot it did not begin in.
- `NoSlotHangs`: `NextTickSettles`. After the deadline of a slot the next tick settles it, whatever became
  of its run, its reports and the ticks before: the safety half of `OverdueSettles`.
- `RowIsRight`: `RightUnlessOwed`. Between two ticks the job's row is what `derive` makes of its tables,
  unless a tick died before its state pass or the next `settle` would mark the job as touched: the
  safety half of `EventualAgreement`. A job no state pass has reached yet is excepted.

Neither `OneSuccessPerExec` nor `UnsettledUnbound` is inductive alone. `IInv` adds `TxSound`: while a
transaction is open its report is not yet in `seen` and its slot is open, or has been settled by a tick
since but never as succeeded; `Credited`: an execution credited with a success has its final report in
`seen`, so no second report can credit it again; and `UnattachedHadNone`: an execution bound to no slot
had no open slot to take. The first lets `CommitTx` preserve `OneSuccessPerExec` in spite of the gap
between SELECT and UPDATE, the last is what `NoFalseMiss` reads. The proof has one lemma per action,
each with one step per conjunct the action can disturb. Under the refinement mapping `TxSound` is the
guard of `Answer` that a success is never overwritten, and `Credited` with the newness of the report is
its guard that an execution succeeds once. For `SuccessIsReal` the invariant `Real` says that reports
and rows tell what happened on the host, and that the slot an open transaction selected is one its run
began in.

`NoSlotHangs` needs more than it says. The timeout of `settle` goes by executions: a slot that counts as
running while no running execution is bound to it would stay so for ever. `Placed` says that there is
one (`NoneHangs`). A report can take it away only by binding the execution to another slot, so `Placed`
also says that an execution whose slot is still in reach would be given the same slot again
(`KeepsItsSlot`): slots only leave reach, and the choice among those left is by distance and then by
instant, so the nearest stays the nearest. The rest is what the two halves of the transaction know of
each other: the dedup keys tell which executions have had their start (`KeysTell`), there is one row for
each until its final report (`OneRow`), and the slot an open transaction holds fits them (`TxFits`).

`RowIsRight` rests on `OnlyFlagsAreOld`: since the last state pass nothing but the two flags, paused and
offline, can have changed, because whoever writes slots or executions recomputes the row in the same
transaction or the same tick. A state derived under old flags shows which they were, where it matters
(`RightWhenFlagsAgree`), so flags `settle` finds in order are flags the row was derived with.

`SlotGenerationProofs`, from `GenerationAssumption`:

- `TypeCorrect`, and `NoInventedSlots` (`NothingInvented`).
- `SlotsAreTheSchedule`: `ExactlyTheSchedule`, for every cap. What the cap takes from a window (`cut`:
  the instants that `MaxSlots` others of the window precede) is excepted and never comes back; that a
  job that fires every minute loses instants to it (2000 of 2880 + 360) is one of the findings. Jobs whose
  schedule was edited after slots had been generated are excepted: the old slots stay, which is another.

Its invariant `IInv` adds that a row is generated only from its creation on, that slots stay within
`generated_through`, and that the rows and the clock an open batch read still bound what it will
write.

`AgentBufferProofs`, from `BufferAssumption` (a line has at least two bytes):

- `TypeCorrect`; `NothingIsSkipped` (`NothingSkipped`), `SentOnce` (`ResentOnlyAfterFault`).
- `ImplementsQueue`: `IsAQueue`, the refinement of `EventQueue`, step by step: the byte that completes a
  line is `Record`, a publication is `Receive` or nothing new, an accident is `Break`.

The inductive invariant is `TInv`, the types, and, while nothing is damaged, `Sound`. Its first half,
`FileSound`, is about the file alone: it consists of whole lines (`Whole`) up to the write in progress
(`Tip`), each event once (`Once`) and in the order of `recorded` (`InOrder`). Its second half,
`SentSound`, says of every place that remembers how far the agent has come that it is a line boundary
and that all events before it have been received: byte 0 (`Kept`, which is what allows a truncation),
the offset file (`FromDisk`, what a restart goes on from), the offset in memory (`FromOffset`), the
batch and the rest of the request (`Posting`), requests the agent has given up on (`Abandoned`); and
that what is compacted was sent to its end (`Compacting`). `Prefix` says that the server has the first
events recorded and no others, `Exact` that without a fault it has each once. The boundary may be one
byte ahead of the file, since a scanner takes a last line without its newline and counts it all the same.

`K8sAgentProofs`, from `K8sAssumption`:

- `TypeCorrect`.
- `StartBeforeEnd`: `StartsFirst`. The property is about what a step publishes; the invariant `OrderInv`
  says the same of every place where events wait: in requests the server still works on, in the batch of the
  flusher and in the list in memory, an end comes behind its start, or the start has gone before
  (`Led`). It adds that a start `onJob` remembers is somewhere on the way, and that the starts of a batch
  the agent waits for are dealt with or in the rest of the request, so that a batch the agent drops
  after an answer takes no start with it. What the server or a deletion drops is in `lost`.

`AlertPipelineProofs`, from `AlertAssumption`:

- `TypeCorrect`, with `Joined`: an incident about to be joined exists.
- `OneOpen`: `OneOpenIncident`. The invariant adds `SeesOne`: what an open transaction has opened or
  joined is all there is of unresolved incidents of its job, whatever operators do, because only the
  engine adds jobs to incidents and there is one engine.
- `FailuresTracked`: `FailureIsTracked`, from `RulesTracked`: of the rules considered so far, each left
  the event on a timeline or was suppressed.
- `HealthyResolved`: `HealthyMeansResolved`, from `Heard` (what is still to handle is no
  newer than `newest`, and the same event where the numbers agree) and `OnlyFlapping` (an event that
  says a job is well opens or joins an incident only when the job flaps).

`SignalExportProofs`, from `ExportAssumption`:

- `MadeOnce`: `OnceUnlessRepeated`. The invariant `CopiesBound` compares the signals made of a source
  with what is `Allowed`: one for a message that is acknowledged, one for a slot the mark has passed, and
  one more for a slot that was settled again; each further one broke off or was not acknowledged. The
  proof shows that every step makes no more than it allows (`CountSteps`).
- `TypeCorrect`. `TypeOK` bounds `copies` by `MaxFaults + 2`, which is the same invariant.
- `NothingForgotten`: `AccountedFor`, both halves. Of slots: the mark leaves none behind whose latest
  settling is neither a signal nor excused by name, because a batch holds every pending slot before its
  last one, so that what a poll leaves behind is of the mark's own instant (`PollLeaves`). Of deliveries:
  each step of a task hands its delivery on (`Handed`): to a task, to an outcome in its row, or to an end
  with a name. An outcome needs a row to be written to, which is `RowThere`: a task that is past its
  attempt has one unless its destination is gone. What Celery's settings do not give, a successor of a
  killed task, is not assumed: such a delivery is `lost` by name.

`PlanLimitsProofs`, from `PlanAssumption`:

- `TypeCorrect`.
- `CapIsKept`: `WithinLimit`. The invariant `Counts` says that there are at most as many jobs as an open
  creation has counted, as long as it was not overtaken; finiteness of `AllJobs` is what lets
  cardinalities be compared.
- `PlanIsPaidFor`: `PlanFollowsStripe`. The invariant `FollowInv` relates the row to the last event sent:
  every number is seen or still to come (`Numbers`), the last event tells how the only subscription
  stands, and once it is applied in order nothing that follows changes the row (`LastCounts`). A
  customer an open checkout has made is known nowhere else (`Unused`), so a webhook cannot be taken for
  another customer's.

`AccessProofs`, from `AccessAssumption`:

- `TypeCorrect`, and `Invariance`, the inductive invariant `KeysInv`: whatever a row, the cache or a
  request in flight holds of an agent is one of the keys given to that agent, and no key was given to
  two (`OwnKeys`); a row has the key handed out last, unless an upgrade of the old hash wrote over it
  (`RowIsLatest`).
- `KeysArePersonal` (`KeyIsPersonal`): a key lets in its own agent and no other, cached or not.
- `ForgottenIsDue` (`UncachedIsDue`): an agent whose cache entry is gone is let in with the key it was
  given last, and not at all once revoked: the safety half of `AnswersConverge`. Agents in `replaced`
  are excepted, which is a finding.
- `RevocationHolds` (`RevokedForGood`): no request in flight, rotation or enrolment brings a revoked agent
  back.
- `OneAgentPerHost` (`OneLive`): a host has one agent that is not revoked, where its enrolments do not
  overlap, which is a hypothesis (one handler in `Enrolments`): what an enrolment has not found is then
  still not there when it inserts (`LookedUp`). With two handlers it is false, as a finding says.

and from `SignInAssumption`: `SessionsTyped` (`SignInTypeOK`), and `RotationIsSurvived`
(`SignInSurvivesRotation`), whose lemma `PublishedVerifies` is the second look with fresh keys.

Assumptions. Apart from ranges, the named assumptions say that the values the modules use for "none"
differ from the data: SQL NULL is no number and no id. The only hypotheses beyond them are
`DurationReported \subseteq {TRUE}` and, of `OneAgentPerHost`, one enrolment at a time; both are named
above with what happens without them.

Only model-checked: what happens in the end, which with its fairness is outside what the prover
handles: `OverdueSettles`, `EventualAgreement`, `MaterialisedAhead`, `EventuallySent`,
`EventuallyHandled`, `EventuallyExported`, `EventuallyReported`, `EventuallyExplained`,
`PauseFollowsSuspend`, `DiscoveredUnlessFull`, `AnswersConverge`. Every other property of a run is a
theorem. Of five of these the safety half, that no step takes away what fairness would bring about, is a
theorem too: `NoSlotHangs`, `RowIsRight`, `NothingForgotten` (for `EventuallyExported`), `NothingIsSkipped`
(for `EventuallySent`) and `ForgottenIsDue`. `RightUnlessOwed`, `KeyIsPersonal`, `UncachedIsDue`,
`RevokedForGood` and `OneLive` are stated beside their proofs and belong to no run.

Also out of reach is induction over data: that `croniter`'s occurrences or a sum over a sequence come
out right for every input. Nothing above needs it, since the modules use sets and functions.

## Open

1. The safety halves of the remaining properties about the end. Parts of them are in invariants already:
   `OrderInv` says that a start the k8s agent remembers is on its way, is published or is in `lost`, and
   `ExactlyTheSchedule` that slots are complete up to `generated_through`.
2. The eight hazards without a property in `PROJECT.json`. Seven are places where the code goes wrong in
   ways a finding states; the eighth is the gap between the commit of a report and its `jobstatus` event,
   which is the seam between `JobPipeline` and the machines that consume these events.

## Not modelled

- Cron expressions and time zones: croniter's work, behind the constant `Occurrences`; recurrence of
  maintenance windows likewise.
- The scorer: hourly statistics over finished executions, a formula with one writer.
- Read-only views, the copilot, the web application: they change nothing the rest reads.
- Roles, CSRF tokens, rate limits, audit rows, row-level security: checks of one request over rows it
  does not change.
- Host metrics, and the parsers of crontabs and journals: data without control.
- Retention and partitions (`scorer.py`): an hourly deletion of rows past the plan's retention days.
- `netguard.py`, `redaction.py`, `crypto.py` and other helpers; migrations as such (their keys and constraints are part
  of the modules that rely on them); load tests, demo data and mock servers.
