------------------------------ MODULE SignalExport ------------------------------
(***************************************************************************)
(* Signals to the destinations of a tenant (workers/outbound_exporter.py,   *)
(* outbound/deliver.py, outbound/schema.py, routers/integrations.py).       *)
(*                                                                          *)
(* The exporter takes changes of a job's state from a NATS stream, and      *)
(* polls the database for settled slots, incidents and agents from          *)
(* high-water marks it keeps in memory.  What it finds becomes one Celery   *)
(* task per destination; a task writes its attempt down, posts the signal,  *)
(* and writes the outcome down, in transactions of their own.               *)
(***************************************************************************)
EXTENDS Integers, FiniteSets

CONSTANTS
  Messages, Slots, Notes, Agents, \* jobstatus messages, slots, incident events, agents
  Dests,
  Dest,             \* [Dests -> [kind, types, workspaces]]: the filters of a destination
  WorkspaceOf,      \* [Messages \cup Slots -> workspace]; other signals carry none
  None,
  Limit,            \* slots per poll (500)
  MaxAttempts,      \* retries of a delivery
  AutoDisableAfter, \* dead deliveries in a row that disable a destination
  MaxTime, MaxFaults, MaxEdits, MaxOverwrites \* bounds

Sources == Messages \cup Slots \cup Notes \cup Agents

\* schema.EVENT_TYPES, the three kinds of incident.* as one.
EVENT_TYPES == {"job.state_changed", "slot.settled", "incident", "agent.status"}

EventType(e) ==
  IF e \in Messages THEN "job.state_changed" ELSE IF e \in Slots THEN "slot.settled"
  ELSE IF e \in Notes THEN "incident" ELSE "agent.status"

ASSUME ExportAssumption ==
  /\ \A d \in Dests : /\ Dest[d].kind \in {"webhook", "nats"}
                      /\ Dest[d].types \subseteq EVENT_TYPES
  /\ Limit \in Nat \ {0} /\ MaxAttempts \in Nat /\ AutoDisableAfter \in Nat \ {0}
  /\ MaxTime \in Nat \ {0} /\ {MaxFaults, MaxEdits, MaxOverwrites} \subseteq Nat
  /\ None \notin Sources \cup {"pending", "sent", "failed", "dead"}
  /\ Messages \cap Slots = {} /\ (Messages \cup Slots) \cap (Notes \cup Agents) = {}

\* What the polls read of incident_events, incidents and agents, and what the migrations
\* have put there.
NoteColumns  == {"ie.created_at", "ie.kind", "i.acked_by", "i.correlation_signals"}
AgentColumns == {"a.host", "a.last_seen_at", "a.heartbeat_interval_s"}

Columns == {"ie.ts", "ie.kind", "ie.actor_id", "ie.payload", "i.acknowledged_at",
            "i.responder_ids", "i.correlation_signals", "a.host_id", "a.last_seen_at",
            "a.heartbeat_interval_s"}

VARIABLES
  now,      \* the database's clock
  settled,  \* [Slots -> settled_at as committed, 0 while the slot is open or running]
  noted,    \* incident events and changes of an agent's status that have happened
  mark,     \* _hwm["slot"]
  stream,   \* jobstatus messages not yet acknowledged
  copies,   \* [Sources -> Nat]: how often a signal was made of it, each with a ULID of its own
  told,     \* ghost: [Slots -> the settled_at the last signal of the slot was made of]
  tasks,    \* deliver_signal: [sig, dest, tries, step]
  rows,     \* [signal \X Dests -> status of the delivery, or None]
  dests,    \* [Dests -> [exists, enabled, failures]]
  due,      \* ghost: deliveries queued so far, <<signal, destination>>
  dropped,  \* ghost: deliveries dropped because the destination was off or gone
  lost,     \* ghost: deliveries whose task was killed, or failed on its last try outside of
            \* what marks a failure
  excused,  \* ghost: slots the mark had passed when they were settled, cut off by the limit
            \* at the very mark, or left behind by a restart
  overwritten, \* ghost: slots settled, or set running, after they had been settled
  repeated, \* ghost: sources whose fan-out was cut short or not acknowledged
  faults, edits

vars == <<now, settled, noted, mark, stream, copies, told, tasks, rows, dests,
          due, dropped, lost, excused, overwritten, repeated, faults, edits>>

world   == <<now, settled, noted, overwritten>>
export  == <<mark, stream, copies, told, excused, repeated>>
deliver == <<rows, dropped, lost>>

--------------------------------------------------------------------------------
(* The world                                                                  *)

Tick ==
  /\ now < MaxTime
  /\ now' = now + 1
  /\ UNCHANGED <<settled, noted, overwritten, export, tasks, due, deliver, dests, faults, edits>>

\* A settling commits.  settled_at is the time its transaction began.
Settle(s) ==
  /\ settled[s] = 0
  /\ \E at \in 1 .. now :
       /\ settled' = [settled EXCEPT ![s] = at]
       /\ excused' = IF at <= mark THEN excused \cup {s} ELSE excused \ {s}
  /\ UNCHANGED <<now, noted, overwritten, mark, stream, copies, told, repeated, tasks, due,
                 deliver, dests, faults, edits>>

\* attach_slot's UPDATE finds the slot settled since its SELECT, and settles it again with a
\* settled_at of its own, or sets it running, which the poll leaves out.
Overwrite(s) ==
  /\ settled[s] # 0 /\ s \notin overwritten /\ Cardinality(overwritten) < MaxOverwrites
  /\ \E at \in 0 .. now :
       /\ settled' = [settled EXCEPT ![s] = at]
       /\ excused' = IF at \in 1 .. mark THEN excused \cup {s} ELSE excused \ {s}
  /\ overwritten' = overwritten \cup {s}
  /\ UNCHANGED <<now, noted, mark, stream, copies, told, repeated, tasks, due, deliver, dests,
                 faults, edits>>

Note(e) ==
  /\ e \notin noted
  /\ noted' = noted \cup {e}
  /\ UNCHANGED <<now, settled, overwritten, export, tasks, due, deliver, dests, faults, edits>>

--------------------------------------------------------------------------------
(* The exporter                                                               *)

Workspace(e) == IF e \in Messages \cup Slots THEN WorkspaceOf[e] ELSE None

\* _destinations: an empty filter lets everything pass.
Destinations(e) ==
  {d \in Dests :
     /\ dests[d].exists /\ dests[d].enabled
     /\ Dest[d].types = {} \/ EventType(e) \in Dest[d].types
     /\ Dest[d].workspaces = {} \/ Workspace(e) \in Dest[d].workspaces}

\* fanout of every source of a set; a source made into a signal again gets a new ULID.
Fanned(E) ==
  UNION {{[sig |-> <<e, copies[e] + 1>>, dest |-> d, tries |-> 0, step |-> "queued"] :
            d \in Destinations(e)} : e \in E}

\* Tasks are queued.
Queue(T) ==
  /\ tasks' = tasks \cup T
  /\ due' = due \cup {<<t.sig, t.dest>> : t \in T}

Counted(E) == [e \in Sources |-> IF e \in E THEN copies[e] + 1 ELSE copies[e]]

\* A message is acknowledged after the fan-out, or comes again.
Consume(m) ==
  /\ m \in stream
  /\ Queue(Fanned({m}))
  /\ copies' = Counted({m})
  /\ \/ stream' = stream \ {m} /\ UNCHANGED <<repeated, faults>>
     \/ faults < MaxFaults /\ faults' = faults + 1 /\ repeated' = repeated \cup {m} /\ UNCHANGED stream
  /\ UNCHANGED <<world, mark, told, excused, deliver, dests, edits>>

\* Mutant: from the mark on, not after it.
PendingFrom(s) == settled[s] # 0 /\ settled[s] >= mark

\* Mutant: a slot of the instant that follows the mark's is passed over.
PendingNext(s) == settled[s] > mark + 1

Pending(s) == settled[s] > mark

\* The first Limit slots by settled_at; which of the last instant is the database's choice.
IsBatch(B) ==
  /\ B \subseteq {s \in Slots : Pending(s)} /\ Cardinality(B) <= Limit
  /\ \A s \in Slots \ B : Pending(s) =>
       Cardinality(B) = Limit /\ \A b \in B : settled[b] <= settled[s]

\* The mark moves to the settled_at of the last slot polled.
MarkAfter(B) ==
  IF B = {} THEN mark' = mark
  ELSE mark' \in {settled[b] : b \in B} /\ \A b \in B : settled[b] <= mark'

\* The rest of the round after poll_slots: a query that names a missing column raises.
RestOfRound ==
  IF NoteColumns \subseteq Columns
  THEN {e \in noted : copies[e] = 0 /\ (e \in Agents => AgentColumns \subseteq Columns)}
  ELSE {}

\* A round of poll_loop.  The mark is set as soon as poll_slots returns.
Poll ==
  \E B \in SUBSET Slots :
    /\ IsBatch(B) /\ (B # {} \/ RestOfRound # {})
    /\ Queue(Fanned(B \cup RestOfRound))
    /\ copies' = Counted(B \cup RestOfRound)
    /\ told' = [s \in Slots |-> IF s \in B THEN settled[s] ELSE told[s]]
    /\ MarkAfter(B)
    /\ excused' = excused \cup {s \in Slots \ B : Pending(s) /\ settled[s] = mark'}
    /\ UNCHANGED <<world, stream, repeated, deliver, dests, faults, edits>>

\* poll_slots raises half way (the Celery broker is away): the mark stays.
PollBreaks ==
  /\ faults < MaxFaults
  /\ \E B \in SUBSET Slots : \E C \in SUBSET B \ {{}} :
       /\ IsBatch(B)
       /\ \A c \in C, b \in B \ C : settled[c] <= settled[b]
       /\ \E T \in SUBSET Fanned(C) : Queue(T)
       /\ copies' = Counted(C)
       /\ told' = [s \in Slots |-> IF s \in C THEN settled[s] ELSE told[s]]
       /\ repeated' = repeated \cup C
  /\ faults' = faults + 1
  /\ UNCHANGED <<world, mark, stream, excused, deliver, dests, edits>>

\* The exporter dies and starts again, with the mark at now.
Restart ==
  /\ faults < MaxFaults
  /\ mark' = now
  /\ excused' = excused \cup {s \in Slots : settled[s] \in mark + 1 .. now}
  /\ faults' = faults + 1
  /\ UNCHANGED <<world, stream, copies, told, repeated, tasks, due, deliver, dests, edits>>

--------------------------------------------------------------------------------
(* deliver_signal                                                             *)

Delivery(t) == <<t.sig, t.dest>>

Becomes(t, step) == tasks' = (tasks \ {t}) \cup {[t EXCEPT !.step = step]}

\* An exception leaves the task: autoretry queues it again.
Again(t) == tasks' = (tasks \ {t}) \cup {[t EXCEPT !.tries = @ + 1, !.step = "queued"]}

Fault == faults < MaxFaults /\ faults' = faults + 1

\* The destination is off or gone: the task ends.
Drop(t) ==
  /\ t \in tasks /\ t.step = "queued"
  /\ ~(dests[t.dest].exists /\ dests[t.dest].enabled)
  /\ tasks' = tasks \ {t}
  /\ dropped' = dropped \cup {Delivery(t)}
  /\ UNCHANGED <<world, export, due, rows, lost, dests, faults, edits>>

\* The attempt is written down; a row that exists keeps its status.
Attempt(t) ==
  /\ t \in tasks /\ t.step = "queued"
  /\ dests[t.dest].exists /\ dests[t.dest].enabled
  /\ Becomes(t, "posting")
  /\ rows' = IF rows[Delivery(t)] = None THEN [rows EXCEPT ![Delivery(t)] = "pending"] ELSE rows
  /\ UNCHANGED <<world, export, due, dropped, lost, dests, faults, edits>>

PostOk(t) ==
  /\ t \in tasks /\ t.step = "posting" /\ Dest[t.dest].kind = "webhook"
  /\ Becomes(t, "answered")
  /\ UNCHANGED <<world, export, due, deliver, dests, faults, edits>>

\* No answer, whether the server has taken the signal or not; an answer of 400 or above;
\* or a kind that has no sender.
PostFails(t) ==
  /\ t \in tasks /\ t.step = "posting"
  /\ Becomes(t, "failed")
  /\ UNCHANGED <<world, export, due, deliver, dests, faults, edits>>

\* An UPDATE finds no row once the destination is deleted.
Marked(t, status) ==
  rows' = IF rows[Delivery(t)] # None THEN [rows EXCEPT ![Delivery(t)] = status] ELSE rows

\* Mutant: one attempt more.
FinalLate(t) == t.tries > MaxAttempts

Final(t) == t.tries >= MaxAttempts

MarkSent(t) ==
  /\ t.step = "answered"
  /\ Marked(t, "sent")
  /\ dests' = [dests EXCEPT ![t.dest].failures = 0]

MarkFailed(t) ==
  /\ t.step = "failed" /\ ~Final(t)
  /\ Marked(t, "failed")
  /\ UNCHANGED dests

MarkDead(t) ==
  /\ t.step = "failed" /\ Final(t)
  /\ Marked(t, "dead")
  /\ dests' = [dests EXCEPT ![t.dest].failures = IF @ < AutoDisableAfter THEN @ + 1 ELSE @,
                            ![t.dest].enabled = @ /\ dests[t.dest].failures + 1 < AutoDisableAfter]

Sent(t) ==
  /\ t \in tasks /\ MarkSent(t)
  /\ tasks' = tasks \ {t}
  /\ UNCHANGED <<world, export, due, dropped, lost, faults, edits>>

\* Mutant: the exception is not raised again once the failure is marked.
RetrySwallowed(t) ==
  /\ t \in tasks /\ MarkFailed(t)
  /\ tasks' = tasks \ {t}
  /\ UNCHANGED <<world, export, due, dropped, lost, faults, edits>>

Retry(t) ==
  /\ t \in tasks /\ MarkFailed(t)
  /\ Again(t)
  /\ UNCHANGED <<world, export, due, dropped, lost, faults, edits>>

Die(t) ==
  /\ t \in tasks /\ MarkDead(t)
  /\ tasks' = tasks \ {t}
  /\ UNCHANGED <<world, export, due, dropped, lost, faults, edits>>

\* The mark `sent' raises: the handler takes it for a failure of the post.
SentRaises(t) ==
  /\ t \in tasks /\ t.step = "answered"
  /\ Fault
  /\ Becomes(t, "failed")
  /\ UNCHANGED <<world, export, due, deliver, dests, edits>>

\* The look-up, the attempt's row, the decryption, or the mark of a failure raises: its
\* transaction rolls back, and the task is tried again or, after the last try, gone.
Raises(t) ==
  /\ t \in tasks /\ t.step \in {"queued", "failed"}
  /\ Fault
  /\ IF Final(t) THEN tasks' = tasks \ {t} /\ lost' = lost \cup {Delivery(t)}
     ELSE Again(t) /\ UNCHANGED lost
  /\ UNCHANGED <<world, export, due, rows, dropped, dests, edits>>

\* The worker dies before the task is acknowledged, its outcome written or not: acks_late
\* hands the task, as it was queued, to another one.
WorkerDies(t) ==
  /\ t \in tasks /\ t.step # "queued"
  /\ Fault
  /\ Becomes(t, "queued")
  /\ MarkSent(t) \/ MarkFailed(t) \/ MarkDead(t) \/ UNCHANGED <<rows, dests>>
  /\ UNCHANGED <<world, export, due, dropped, lost, edits>>

\* The process of the pool that runs the task is killed, by the time limit or from outside:
\* without task_reject_on_worker_lost its worker acknowledges the task.
TaskKilled(t) ==
  /\ t \in tasks /\ t.step # "queued"
  /\ Fault
  /\ tasks' = tasks \ {t}
  /\ lost' = lost \cup {Delivery(t)}
  /\ UNCHANGED <<world, export, due, rows, dropped, dests, edits>>

--------------------------------------------------------------------------------
(* Integrations API                                                           *)

Edit(d) ==
  /\ edits < MaxEdits /\ dests[d].exists
  /\ edits' = edits + 1
  /\ UNCHANGED <<world, export, tasks, due, dropped, lost, faults>>

UpdateDestination(d) ==
  /\ Edit(d)
  /\ \E on \in BOOLEAN : dests' = [dests EXCEPT ![d].failures = 0, ![d].enabled = on]
  /\ UNCHANGED rows

\* The deliveries go with the destination.
DeleteDestination(d) ==
  /\ Edit(d)
  /\ dests' = [dests EXCEPT ![d].exists = FALSE]
  /\ rows' = [p \in DOMAIN rows |-> IF p[2] = d THEN None ELSE rows[p]]

--------------------------------------------------------------------------------
Signals == Sources \X (1 .. MaxFaults + 2)

Init ==
  /\ now = 1 /\ settled = [s \in Slots |-> 0] /\ noted = {} /\ overwritten = {}
  /\ mark = 0 /\ stream = Messages /\ copies = [e \in Sources |-> 0]
  /\ told = [s \in Slots |-> 0]
  /\ tasks = {} /\ rows = [p \in Signals \X Dests |-> None]
  /\ dests = [d \in Dests |-> [exists |-> TRUE, enabled |-> TRUE, failures |-> 0]]
  /\ due = {} /\ dropped = {} /\ lost = {} /\ excused = {} /\ repeated = {}
  /\ faults = 0 /\ edits = 0

World ==
  \/ Tick
  \/ \E s \in Slots : Settle(s) \/ Overwrite(s)
  \/ \E e \in Notes \cup Agents : Note(e)

Deliver(t) == Drop(t) \/ Attempt(t) \/ PostOk(t) \/ PostFails(t) \/ Sent(t) \/ Retry(t) \/ Die(t)

Breaks(t) == SentRaises(t) \/ Raises(t) \/ WorkerDies(t) \/ TaskKilled(t)

\* Nothing is left to poll, consume or deliver.
Idle == tasks = {} /\ stream = {} /\ UNCHANGED vars

Next ==
  \/ World
  \/ \E m \in Messages : Consume(m)
  \/ Poll \/ PollBreaks \/ Restart
  \/ \E t \in tasks : Deliver(t) \/ Breaks(t)
  \/ \E d \in Dests : UpdateDestination(d) \/ DeleteDestination(d)
  \/ Idle

Spec == Init /\ [][Next]_vars

\* The poll comes every 15 seconds and the Celery workers run; the consumer fetches for ever.
FairSpec == /\ Spec /\ WF_vars(Poll) /\ WF_vars(\E m \in Messages : Consume(m))
            /\ WF_vars(\E t \in tasks : Deliver(t))

--------------------------------------------------------------------------------
(* Properties                                                                 *)

TypeOK ==
  /\ settled \in [Slots -> 0 .. now] /\ told \in [Slots -> 0 .. now]
  /\ now \in 1 .. MaxTime /\ mark \in 0 .. now
  /\ \A e \in Sources : copies[e] \in 0 .. MaxFaults + 2
  /\ \A t \in tasks : /\ t.sig \in Signals /\ t.dest \in Dests /\ t.tries \in 0 .. MaxAttempts
                      /\ t.step \in {"queued", "posting", "answered", "failed"}
  /\ \A p \in DOMAIN rows : rows[p] \in {None, "pending", "sent", "failed", "dead"}
  /\ \A d \in Dests : dests[d].failures \in 0 .. AutoDisableAfter

\* A source is made a signal once, and a slot whose settling was overwritten once more,
\* unless its fan-out broke off or was not acknowledged.
OnceUnlessRepeated ==
  \A e \in Sources \ repeated : copies[e] <= IF e \in overwritten THEN 2 ELSE 1

\* A delivery that was queued is done (`sent' or `dead' in its row), or gone with its
\* destination, or has a task that will go on with it; retries, errors and dying workers
\* included.  Three ends are excepted by name: the destination was off when the task came
\* (`dropped'); the process that ran the task was killed, or the last try raised outside of
\* what marks a failure (`lost').
DeliveriesAccountedFor ==
  \A p \in due :
    \/ rows[p] \in {"sent", "dead"}
    \/ ~dests[p[2]].exists
    \/ p \in dropped \cup lost
    \/ \E t \in tasks : Delivery(t) = p

\* The mark leaves no settled slot behind without a signal of this settling, but for the three
\* known ways past it: the slot was committed after a later one was polled, it was cut off by
\* the limit at the instant of the mark, or the exporter restarted.
SlotsAccountedFor ==
  \A s \in Slots : settled[s] \in 1 .. mark => told[s] = settled[s] \/ s \in excused

\* What the exporter is done with has become a signal, and what it has queued is delivered,
\* dead or has a task: nothing is lost between poll_loop, its mark, the tasks and their rows.
AccountedFor == SlotsAccountedFor /\ DeliveriesAccountedFor

\* Every settling of a slot becomes a signal in the end, through failing rounds and restarts,
\* but for the ways past the mark that SlotsAccountedFor names.
EventuallyExported ==
  \A s \in Slots : []<>(settled[s] \in {0, told[s]} \/ s \in excused)
================================================================================
