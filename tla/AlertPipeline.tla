----------------------------- MODULE AlertPipeline -----------------------------
(***************************************************************************)
(* From a published change of a job's status to incidents and pages         *)
(* (workers/rule_engine.py, alerting/engine.py, rules.py, correlation.py,   *)
(* tasks.py, routers/incidents.py, routers/alerting.py).                    *)
(*                                                                          *)
(* One rule engine takes the events of the stream one at a time and handles *)
(* each in one transaction; the notifications of a rule are handed to the   *)
(* Celery workers while that transaction is still open.  The flap counter   *)
(* lives in Redis and is not rolled back with it.  Operators acknowledge    *)
(* and resolve incidents, and edit rules, channels and windows, meanwhile.  *)
(*                                                                          *)
(* Severity, titles, payloads and the timeline of an incident are left out. *)
(***************************************************************************)
EXTENDS Integers, FiniteSets

CONSTANTS
  Jobs, Rules, Channels,
  Rule,          \* [Rules -> [cond, jobs, chans, repeats, hours]]: a row of alert_rules
  None,
  Statuses,      \* the values of new_status; "unknown" stands for new_state = 'unknown'
  FlapThreshold, \* status changes within ten minutes that make a job flap
  MaxDeliver,    \* deliveries of one event (max_deliver of the consumer)
  MaxRetries,    \* retries of one notification (max_retries of the task)
  MaxEvents, MaxEdits \* bounds

\* rules.CONDITIONS.  new_status is never 'timeout', so runtime_exceeded never fires.
CONDITIONS == {"failed", "missed", "late", "runtime_exceeded", "recovered",
               "consecutive_failures", "sla_breach"}

RuleRow == [cond : CONDITIONS, jobs : SUBSET Jobs, chans : SUBSET Channels,
            repeats : BOOLEAN, hours : BOOLEAN]

\* One handling of an event: its number in the stream and the deliveries before.
Delivery == (1 .. MaxEvents) \X (0 .. MaxDeliver - 1)

Event == [n : 1 .. MaxEvents, job : Jobs, new : Statuses, tries : 0 .. MaxDeliver - 1]

Incident == [status : {"open", "acknowledged", "resolved"},
             resolution : {None, "auto", "manual"}, jobs : SUBSET Jobs, flappers : SUBSET Jobs]

\* A transaction of the engine: the event, the rules that fire for it and those still to
\* consider, the incident it is about to join and for which rule, those it has joined,
\* opened, and put the event on the timeline of.
Txn == [msg : Event, flap : BOOLEAN, rules : SUBSET Rules, todo : SUBSET Rules,
        joins : Delivery \cup {None}, by : Rules \cup {None}, attached : SUBSET Delivery,
        opened : SUBSET Delivery, noted : SUBSET Delivery]

Conds == CONDITIONS \cup {"flapping"}

\* A notification to send.
Page == [rule : Rules \cup {None}, job : Jobs \cup {None}, cond : Conds, chan : Channels,
         inc : Delivery \cup {None}, tries : 0 .. MaxRetries]

ASSUME AlertAssumption ==
  /\ Rule \in [Rules -> RuleRow]
  /\ Statuses \subseteq {"running", "healthy", "recovered", "failed", "late", "missed", "unknown"}
  /\ FlapThreshold \in Nat \ {0} /\ MaxDeliver \in Nat \ {0} /\ MaxRetries \in Nat
  /\ MaxEvents \in Nat /\ MaxEdits \in Nat
  /\ None \notin Rules \cup Jobs \cup Delivery \cup Incident \cup Txn

VARIABLES
  queue,     \* events to handle: [n, job, new, tries]
  eng,       \* the open transaction of the engine, or None
  incs,      \* [Delivery -> incident or None]: the committed incidents, named by the
             \* handling that opened them
  tasks,     \* notifications Celery has to send
  ledger,    \* the keys notification_ledger has a row 'sent' for
  flaps,     \* [Jobs -> 0 .. FlapThreshold]: recent changes, counted up to the threshold
  known, maint, enabled, live, \* jobs that exist, jobs in maintenance, rules, channels
  newest,    \* ghost: [Jobs -> [n, new]]: the last event that makes a statement
  reached,   \* ghost: [Jobs -> Nat]: the latest event whose handling committed
  misled,    \* ghost: jobs of which an older event was handled after a newer one
  count, edits

vars == <<queue, eng, incs, tasks, ledger, flaps, known, maint, enabled, live,
          newest, reached, misled, count, edits>>

config == <<known, maint, enabled, live, edits>>
ghosts == <<newest, reached, misled, count>>

--------------------------------------------------------------------------------
(* Rules                                                                      *)

BAD  == {"failed", "timeout", "missed"}

\* Mutant: a job that is healthy again without having failed resolves nothing.
GoodRecovered == {"recovered"}

Good == {"recovered", "healthy"}

\* condition_fires, as far as the new status decides it; the failures in a row and the
\* success rate are read from the executions.
Fires(r, new) ==
  LET c == Rule[r].cond IN
    \/ c \in {"failed", "missed", "late", "recovered"} /\ new = c
    \/ c = "runtime_exceeded" /\ new = "timeout"
    \/ c = "consecutive_failures" /\ new \in {"failed", "timeout"}
    \/ c = "sla_breach"

\* Whether such a rule really fires depends on statistics or on the hour.
Maybe(r) == Rule[r].hours \/ Rule[r].cond \in {"consecutive_failures", "sla_breach"}

\* scope_matches and condition_fires over the enabled rules.
Matching(j, new) == {r \in enabled : j \in Rule[r].jobs /\ Fires(r, new)}

Cond(r, flap) == IF flap /\ Rule[r].cond # "recovered" THEN "flapping" ELSE Rule[r].cond

\* Mutant: flapping needs no incident.
NeedsIncidentUnlessFlapping(new, cond) == (new \in BAD \/ new = "late") /\ cond # "flapping"

NeedsIncident(new, cond) == new \in BAD \/ new = "late" \/ cond = "flapping"

Sent(r, j, cond) == <<r, j, cond>> \in ledger

--------------------------------------------------------------------------------
(* The stream                                                                 *)

Publish(j, new) ==
  /\ count < MaxEvents
  /\ count' = count + 1
  /\ queue' = queue \cup {[n |-> count + 1, job |-> j, new |-> new, tries |-> 0]}
  /\ newest' = IF new = "unknown" THEN newest
               ELSE [newest EXCEPT ![j] = [n |-> count + 1, new |-> new]]
  /\ UNCHANGED <<eng, incs, tasks, flaps, config, ledger, reached, misled>>

\* New events come in order; what was not acknowledged comes again at any time.
Next1(m) == m \in queue /\ (m.tries = 0 => \A o \in queue : o.tries = 0 => m.n <= o.n)

\* Mutant: deliveries are not limited.
AgainForever(q, m) == (q \ {m}) \cup {[m EXCEPT !.tries = @ + 1]}

\* Mutant: deliveries are not counted.
AgainUncounted(q, m) == q \cup {m}

\* nak, or no answer at all: delivered again, max_deliver times in all.
Again(q, m) ==
  (q \ {m}) \cup (IF m.tries + 1 < MaxDeliver THEN {[m EXCEPT !.tries = @ + 1]} ELSE {})

--------------------------------------------------------------------------------
(* handle_status_change                                                       *)

Unresolved(i) == incs[i] # None /\ incs[i].status # "resolved"

\* The event says nothing about the job, or the job is gone.
Ignore(m) ==
  /\ eng = None /\ Next1(m)
  /\ m.new = "unknown" \/ m.job \notin known
  /\ queue' \in {queue \ {m}, Again(queue, m)}
  /\ UNCHANGED <<eng, incs, tasks, flaps, config, ledger, ghosts>>

\* Up to the loop over the rules.  A job in maintenance is still auto-resolved.
Begin(m) ==
  /\ eng = None /\ Next1(m)
  /\ m.new # "unknown" /\ m.job \in known
  /\ queue' = queue \ {m}
  /\ \E k \in 1 .. flaps[m.job] + 1 : \* this change, and those of the last ten minutes
       flaps' = [flaps EXCEPT ![m.job] = IF k < FlapThreshold THEN k ELSE FlapThreshold]
  /\ \E todo \in SUBSET Matching(m.job, m.new) :
       /\ m.job \notin maint => {r \in Matching(m.job, m.new) : ~Maybe(r)} \subseteq todo
       /\ m.job \in maint => todo = {}
       /\ eng' = [msg |-> m, flap |-> flaps'[m.job] >= FlapThreshold, rules |-> todo, todo |-> todo,
                  joins |-> None, by |-> None, attached |-> {}, opened |-> {}, noted |-> {}]
  /\ UNCHANGED <<incs, tasks, config, ledger, ghosts>>

Id == <<eng.msg.n, eng.msg.tries>>

\* Mutant: acknowledged incidents are not found.
SeenOpen ==
  eng.opened \cup
  {i \in Delivery : /\ incs[i] # None /\ incs[i].status = "open"
                    /\ i \in eng.attached \/ (eng.msg.job \in incs[i].jobs /\ eng.msg.new \notin Good)}

\* The unresolved incidents of the job as the transaction sees them.
Seen ==
  eng.opened \cup
  {i \in Delivery : /\ Unresolved(i)
                    /\ i \in eng.attached \/ (eng.msg.job \in incs[i].jobs /\ eng.msg.new \notin Good)}

\* send_notification.delay for every channel of the rule; equal pages are one.
Pages(r, i) ==
  {[rule |-> r, job |-> eng.msg.job, cond |-> Cond(r, eng.flap), chan |-> c, inc |-> i,
    tries |-> 0] : c \in Rule[r].chans}

Considering(r) ==
  /\ eng # None
  /\ eng.joins = None /\ r \in eng.todo
  /\ UNCHANGED <<queue, incs, flaps, config, ledger, ghosts>>

Done(r) == [eng EXCEPT !.todo = @ \ {r}]

\* should_repeat says no: sent before, and no repeat is due.
Deduplicate(r) ==
  /\ Considering(r)
  /\ Sent(r, eng.msg.job, Cond(r, eng.flap))
  /\ eng' = Done(r)
  /\ UNCHANGED tasks

\* should_repeat says yes: never sent, or a repeat is due.
Due(r) == Sent(r, eng.msg.job, Cond(r, eng.flap)) => Rule[r].repeats

Needed(r) == NeedsIncident(eng.msg.new, Cond(r, eng.flap))

\* No incident is needed, or the job has one.
Notify(r) ==
  /\ Considering(r) /\ Due(r)
  /\ \E i \in IF Needed(r) THEN Seen ELSE {None} :
       /\ tasks' = tasks \cup Pages(r, i)
       /\ eng' = [Done(r) EXCEPT !.noted = @ \cup ({i} \ {None})]

\* find_related_incident: an unresolved incident that shares a signal with the job.
\* Signals (host, deploy, dependency, age below 30 minutes) may hold or not.
FindRelated(r) ==
  /\ Considering(r) /\ Due(r) /\ Needed(r) /\ Seen = {}
  /\ \E i \in Delivery : /\ Unresolved(i) /\ eng.msg.job \notin incs[i].jobs
                         /\ eng' = [eng EXCEPT !.joins = i, !.by = r]
  /\ UNCHANGED tasks

\* The UPDATE names the incident by id only and locks its row until the commit.
Attach ==
  /\ eng # None
  /\ eng.joins # None
  /\ eng' = [eng EXCEPT !.attached = @ \cup {eng.joins}, !.noted = @ \cup {eng.joins},
                        !.joins = None, !.by = None, !.todo = @ \ {eng.by}]
  /\ tasks' = tasks \cup Pages(eng.by, eng.joins)
  /\ UNCHANGED <<queue, incs, flaps, config, ledger, ghosts>>

Open(r) ==
  /\ Considering(r) /\ Due(r) /\ Needed(r) /\ Seen = {}
  /\ eng' = [Done(r) EXCEPT !.opened = {Id}, !.noted = @ \cup {Id}]
  /\ tasks' = tasks \cup Pages(r, Id)

\* Noted with the incident (a ghost): its job was added as a flapping one.
Flapper == IF eng.flap THEN {eng.msg.job} ELSE {}

\* What the transaction makes of incident i; auto-resolve touches all of the job's.
Committed(i) ==
  IF i \in eng.opened
  THEN [status |-> "open", resolution |-> None, jobs |-> {eng.msg.job}, flappers |-> Flapper]
  ELSE IF i \in eng.attached
       THEN [incs[i] EXCEPT !.jobs = @ \cup {eng.msg.job}, !.flappers = @ \cup Flapper]
  ELSE IF Unresolved(i) /\ eng.msg.new \in Good /\ eng.msg.job \in incs[i].jobs
       THEN [incs[i] EXCEPT !.status = "resolved", !.resolution = "auto"] ELSE incs[i]

Commit ==
  /\ eng # None
  /\ eng.todo = {} /\ eng.joins = None
  /\ incs' = [i \in Delivery |-> Committed(i)]
  /\ queue' \in {queue, Again(queue, eng.msg)} \* the ack is received, or not
  /\ reached' = [reached EXCEPT ![eng.msg.job] = IF @ < eng.msg.n THEN eng.msg.n ELSE @]
  /\ misled' = IF eng.msg.n < reached[eng.msg.job] THEN misled \cup {eng.msg.job} ELSE misled
  /\ eng' = None
  /\ UNCHANGED <<tasks, flaps, config, ledger, newest, count>>

\* An exception or a crash anywhere in the handler: rollback and another delivery.
Rollback ==
  /\ eng # None
  /\ queue' = Again(queue, eng.msg)
  /\ eng' = None
  /\ UNCHANGED <<incs, tasks, flaps, config, ledger, ghosts>>

--------------------------------------------------------------------------------
(* send_notification                                                          *)

\* The foreign key of the ledger refuses an incident that is not committed; the task
\* dies of it and is not retried.
KeyHolds(t) == t.inc # None => incs[t.inc] # None

\* A row with status 'sent', named by its dedup_key; nothing here reads the others.
Row(t) == <<t.rule, t.job, t.cond>>

Sending(t) == t \in tasks /\ UNCHANGED <<queue, eng, incs, flaps, config, ghosts>>

\* The channel is gone, the minute's limit is reached, the send fails for the last time,
\* or it fails and the key does not hold.
GiveUp(t) ==
  /\ Sending(t)
  /\ tasks' = tasks \ {t}
  /\ UNCHANGED ledger

\* A worker that dies after the send leaves the task to another one (acks_late), which
\* sends it again: no state changes until it answers.
SendOk(t) ==
  /\ Sending(t) /\ t.chan \in live
  /\ ledger' = IF KeyHolds(t) THEN ledger \cup {Row(t)} ELSE ledger
  /\ tasks' = tasks \ {t}

Retry(t) ==
  /\ Sending(t) /\ t.chan \in live
  /\ KeyHolds(t) /\ t.tries < MaxRetries
  /\ tasks' = (tasks \ {t}) \cup {[t EXCEPT !.tries = @ + 1]}
  /\ UNCHANGED ledger

--------------------------------------------------------------------------------
(* Operators                                                                  *)

\* Rows the open transaction has updated.
Locked(i) ==
  /\ eng # None
  /\ \/ i \in eng.attached
     \/ Unresolved(i) /\ eng.msg.new \in Good /\ eng.msg.job \in incs[i].jobs

Ack(i) ==
  /\ incs[i] # None /\ ~Locked(i)
  /\ incs[i].status = "open"
  /\ incs' = [incs EXCEPT ![i].status = "acknowledged"]
  /\ UNCHANGED <<queue, eng, tasks, flaps, config, ledger, ghosts>>

Resolve(i) ==
  /\ Unresolved(i) /\ ~Locked(i)
  /\ incs' = [incs EXCEPT ![i].status = "resolved", ![i].resolution = "manual"]
  /\ UNCHANGED <<queue, eng, tasks, flaps, config, ledger, ghosts>>

Edit ==
  /\ edits < MaxEdits
  /\ edits' = edits + 1
  /\ UNCHANGED <<queue, eng, incs, flaps, ledger, ghosts>>

ToggleRule(r) ==
  /\ Edit
  /\ enabled' \in {enabled \cup {r}, enabled \ {r}}
  /\ UNCHANGED <<tasks, known, maint, live>>

DeleteChannel(c) ==
  /\ Edit /\ c \in live
  /\ live' = live \ {c}
  /\ UNCHANGED <<tasks, known, maint, enabled>>

TestChannel(c) ==
  /\ Edit
  /\ tasks' = tasks \cup {[rule |-> None, job |-> None, cond |-> "failed", chan |-> c,
                           inc |-> None, tries |-> 0]}
  /\ UNCHANGED <<known, maint, enabled, live>>

\* create_maintenance, delete_maintenance, or a window begins or ends.
EditMaintenance(j) ==
  /\ Edit
  /\ maint' = IF j \in maint THEN maint \ {j} ELSE maint \cup {j}
  /\ UNCHANGED <<tasks, known, enabled, live>>

DeleteJob(j) ==
  /\ Edit /\ j \in known
  /\ known' = known \ {j}
  /\ UNCHANGED <<tasks, maint, enabled, live>>

--------------------------------------------------------------------------------
Init ==
  /\ queue = {} /\ eng = None /\ tasks = {} /\ ledger = {}
  /\ incs = [i \in Delivery |-> None]
  /\ flaps = [j \in Jobs |-> 0]
  /\ known = Jobs /\ maint = {} /\ enabled = Rules /\ live = Channels
  /\ misled = {}
  /\ newest = [j \in Jobs |-> [n |-> 0, new |-> "unknown"]]
  /\ reached = [j \in Jobs |-> 0]
  /\ count = 0 /\ edits = 0

Handle ==
  \/ \E m \in queue : Ignore(m) \/ Begin(m)
  \/ \E r \in Rules : Deduplicate(r) \/ Notify(r) \/ FindRelated(r) \/ Open(r)
  \/ Attach
  \/ Commit
  \/ Rollback

Send(t) == GiveUp(t) \/ SendOk(t) \/ Retry(t)

Operator ==
  \/ \E i \in Delivery : Ack(i) \/ Resolve(i)
  \/ \E r \in Rules : ToggleRule(r)
  \/ \E c \in Channels : DeleteChannel(c) \/ TestChannel(c)
  \/ \E j \in Jobs : EditMaintenance(j) \/ DeleteJob(j)

Quiet == queue = {} /\ eng = None /\ tasks = {}

Idle == Quiet /\ UNCHANGED vars

Next ==
  \/ \E j \in Jobs, new \in Statuses : Publish(j, new)
  \/ Handle
  \/ \E t \in tasks : Send(t)
  \/ Operator
  \/ Idle

Spec == Init /\ [][Next]_vars

\* The engine polls for ever and the workers take what is queued; nothing is assumed of
\* the operators, of the channels' answers or of the ack.
FairSpec == Spec /\ WF_vars(Handle) /\ WF_vars(\E t \in tasks : Send(t))

--------------------------------------------------------------------------------
(* Properties                                                                 *)

TypeOK ==
  /\ queue \subseteq Event
  /\ eng \in Txn \cup {None}
  /\ incs \in [Delivery -> Incident \cup {None}]
  /\ tasks \subseteq Page
  /\ ledger \subseteq (Rules \cup {None}) \X (Jobs \cup {None}) \X Conds
  /\ flaps \in [Jobs -> 0 .. FlapThreshold]
  /\ known \subseteq Jobs /\ maint \subseteq Jobs /\ misled \subseteq Jobs
  /\ enabled \subseteq Rules /\ live \subseteq Channels
  /\ newest \in [Jobs -> [n : 0 .. MaxEvents, new : Statuses \cup {"unknown"}]]
  /\ reached \in [Jobs -> 0 .. MaxEvents]
  /\ count \in 0 .. MaxEvents /\ edits \in 0 .. MaxEdits

\* A job is in at most one unresolved incident, whatever the operators resolve while the
\* engine decides and however often an event is handled (engine.py looks for one first).
OneOpenIncident ==
  \A a, b \in Delivery :
    Unresolved(a) /\ Unresolved(b) /\ incs[a].jobs \cap incs[b].jobs # {} => a = b

\* Once the last statement about a job, that it is well, has been handled, no incident of
\* it is left unresolved (the comment at engine.py:69), unless a flapping rule opened one
\* or an older event was handled again after it.
HealthyMeansResolved ==
  \A j \in Jobs \ misled : newest[j].new \in {"healthy", "recovered"} /\ reached[j] = newest[j].n =>
    \A i \in Delivery : Unresolved(i) /\ j \in incs[i].jobs => j \in incs[i].flappers

\* When the handling of a failure commits, it is on the timeline of an incident that
\* names the job, unless every rule that matched was suppressed.
Tracked(j) == \E i \in eng.noted : incs'[i] # None /\ j \in incs'[i].jobs

FailureIsTracked ==
  [][Commit /\ eng.msg.new \in BAD
       /\ (\E r \in eng.rules : ~Sent(r, eng.msg.job, Cond(r, eng.flap)))
     => Tracked(eng.msg.job)]_vars

\* "Fail a job -> incident opens" (docs/DEVELOPMENT.md:50), also when the job has failed
\* and recovered before.
FailureOpensIncident ==
  [][Commit /\ eng.msg.new \in BAD /\ eng.rules # {}
     => \/ Tracked(eng.msg.job)
        \/ \E i \in Delivery : /\ incs[i] # None /\ eng.msg.job \in incs[i].jobs
                              /\ incs[i].resolution # "auto"]_vars

\* Every event is handled or given up after max_deliver, and every notification is sent or
\* given up after max_retries, however the handler and the channels fail.
EventuallyHandled == <>[]Quiet
================================================================================
