-------------------------------- MODULE K8sAgent --------------------------------
(***************************************************************************)
(* The Kubernetes agent and its ingest (agents/k8s-agent: cmd/main.go,      *)
(* internal/watcher; routers/k8s.py).                                       *)
(*                                                                          *)
(* Informers call the agent's handlers for every change of a Job, a Pod or  *)
(* a warning, and for every object again every ten minutes.  The handlers   *)
(* append events to a list in memory; one goroutine posts the list every    *)
(* five seconds, another posts the CronJobs of the cluster every two        *)
(* minutes.  The server forwards an event only when it knows the CronJob.   *)
(***************************************************************************)
EXTENDS Integers, Sequences, SequencesExt

CONSTANTS
  UIDs, NameOf,    \* CronJob objects, and [UIDs -> "namespace/name"]
  Jobs, OwnerOf,   \* Job objects, and [Jobs -> UIDs]: their owner reference
  OutcomeOf,       \* [Jobs -> "succeeded" or "failed"]: how the Job ends if it does
  None,
  Limit,           \* events the server reads of one POST (500)
  MaxPending,      \* bound on what the handlers push between two posts
  MaxMishaps       \* bound on restarts, failed posts, lost replies, warnings and on what
                   \* operators change, together

Names == {NameOf[u] : u \in UIDs}

\* ExecEvent: the kind and the object it is about.  The execution id is the Job's uid, the
\* sequence number 0 for a start, 1 for an end: a Job's events have a dedup key each.
Start(j)    == <<"start", j>>
Success(j)  == <<"success", j>>
Fail(j)     == <<"fail", j>>
Progress(j) == <<"progress", j>>
Warning     == <<"k8s_event", None>>

Report == {"start", "success", "fail"} \X Jobs

Event == Report \cup ({"progress"} \X Jobs) \cup {Warning}

Ends(j) == {Success(j), Fail(j)}

ASSUME K8sAssumption ==
  /\ \A j \in Jobs : OwnerOf[j] \in UIDs /\ OutcomeOf[j] \in {"succeeded", "failed"}
  /\ None \notin UIDs /\ None \notin Seq(Event)
  /\ Limit \in Nat \ {0} /\ MaxPending \in Nat /\ MaxMishaps \in Nat

VARIABLES
  current,  \* [Names -> UID of the CronJob of that name]
  retired,  \* UIDs of deleted CronJobs
  suspend,  \* UIDs whose spec says suspend
  job,      \* [Jobs -> "absent", "running", "succeeded", "failed" or "gone"]
  sick,     \* Jobs with a pod that shows one of podFailureReasons
  key,      \* what the agent can start with: the "secret", the "token" or "none"
  up, pending, started, \* the agent: Watcher (jobToCron knows the Jobs of `started')
  sending,  \* the batch the flusher waits for, or None
  posts,    \* requests in k8s_events: [todo, rows, live]
  fp,       \* jobs.fingerprint, [Names -> UID, or None when there is no such job]
  paused,   \* names whose jobs row is paused
  rows,     \* k8s_cronjobs: the UIDs that have a row
  stream,   \* exec.<org>: the reports published for the jobs rows that exist
  orphans,  \* reports published for rows deleted since; each may come late, or again
  recorded, \* reports the processor has made an execution of
  swallowed, \* reports whose dedup key it has stored though their jobs row was gone
  explained, \* Jobs whose execution has a failure_reason
  lost,     \* ghost: Jobs whose start was dropped by the server, ended with the agent, or was
            \* deleted with the jobs row
  mishaps

cluster == <<current, retired, suspend, job, sick>>
watcher == <<up, pending, started>>
flush   == <<sending, posts>>
monitor == <<fp, paused, rows>>
ingest  == <<stream, orphans, recorded, swallowed, explained>>

vars == <<cluster, key, watcher, flush, monitor, ingest, lost, mishaps>>

Mishap == mishaps < MaxMishaps /\ mishaps' = mishaps + 1

--------------------------------------------------------------------------------
(* The cluster                                                                *)

Present(j) == job[j] \in {"running", "succeeded", "failed"}
Finished(j) == job[j] \in {"succeeded", "failed"}

SetJob(j, s) == job' = [job EXCEPT ![j] = s]

RunJob(j) ==
  /\ job[j] = "absent" /\ current[NameOf[OwnerOf[j]]] = OwnerOf[j]
  /\ SetJob(j, "running")
  /\ UNCHANGED <<current, retired, suspend, sick>>

EndJob(j) ==
  /\ job[j] = "running"
  /\ SetJob(j, OutcomeOf[j])
  /\ UNCHANGED <<current, retired, suspend, sick>>

Sicken(j) ==
  /\ job[j] = "running" /\ j \notin sick
  /\ sick' = sick \cup {j}
  /\ UNCHANGED <<current, retired, suspend, job>>

\* A waiting container goes on, or the pod is removed.
Heal(j) ==
  /\ j \in sick
  /\ sick' = sick \ {j}
  /\ UNCHANGED <<current, retired, suspend, job>>

\* The history limit removes a finished Job.
Collect(j) ==
  /\ Finished(j)
  /\ SetJob(j, "gone") /\ sick' = sick \ {j}
  /\ UNCHANGED <<current, retired, suspend>>

ClusterStep ==
  /\ \E j \in Jobs : RunJob(j) \/ EndJob(j) \/ Sicken(j) \/ Heal(j) \/ Collect(j)
  /\ UNCHANGED <<key, watcher, flush, monitor, ingest, lost, mishaps>>

\* A CronJob is deleted, its Jobs with it, and created again: it has a new uid.
Recreate(u) ==
  /\ u \notin retired /\ current[NameOf[u]] # u
  /\ LET old == current[NameOf[u]]
         its == {j \in Jobs : OwnerOf[j] = old /\ Present(j)}
     IN /\ current' = [current EXCEPT ![NameOf[u]] = u]
        /\ retired' = retired \cup {old}
        /\ job' = [j \in Jobs |-> IF j \in its THEN "gone" ELSE job[j]]
        /\ sick' = sick \ its
  /\ Mishap
  /\ UNCHANGED <<suspend, key, watcher, flush, monitor, ingest, lost>>

Suspend(u) ==
  /\ Mishap
  /\ suspend' = IF u \in suspend THEN suspend \ {u} ELSE suspend \cup {u}
  /\ UNCHANGED <<current, retired, job, sick, key, watcher, flush, monitor, ingest, lost>>

--------------------------------------------------------------------------------
(* The agent                                                                  *)

\* main: a key from the Secret, or else one for the bootstrap token, which is good for one
\* enrolment.  An enrolment whose reply is lost has used the token up.
Boot ==
  /\ ~up /\ key # "none"
  /\ key' = IF key = "token" THEN "none" ELSE key
  /\ \/ up' = TRUE /\ UNCHANGED mishaps
     \/ key = "token" /\ Mishap /\ UNCHANGED up
  /\ UNCHANGED <<cluster, pending, started, flush, monitor, ingest, lost>>

\* Without a key and a good token the process ends, is started again, and ends again: the
\* key it wrote to CS_KEY_FILE is not read.
BootFails ==
  /\ ~up /\ key = "none"
  /\ UNCHANGED vars

\* The operator copies the key of the agent into the Secret.
KeepKey ==
  /\ up /\ key = "none"
  /\ key' = "secret"
  /\ UNCHANGED <<cluster, watcher, flush, monitor, ingest, lost, mishaps>>

Push(es) ==
  /\ Len(pending) + Len(es) <= MaxPending
  /\ pending' = pending \o es
  /\ UNCHANGED <<cluster, key, up, flush, monitor, ingest, lost>>

FinalOf(j) ==
  CASE job[j] = "succeeded" -> <<Success(j)>>
    [] job[j] = "failed"    -> <<Fail(j)>>
    [] OTHER                -> <<>>

\* Mutant: a Job that was seen is done with.
EventsOnce(j) == IF j \in started THEN <<>> ELSE <<Start(j)>> \o FinalOf(j)

\* What onJob pushes: the start once, the end whenever it is called.
EventsOf(j) == (IF j \in started THEN <<>> ELSE <<Start(j)>>) \o FinalOf(j)

\* onJob, at a change of the Job and at every resync.
OnJob(j) ==
  /\ up /\ Present(j)
  /\ Push(EventsOf(j))
  /\ started' = started \cup {j}
  /\ UNCHANGED mishaps

\* Mutant: the pods of a finished Job are left alone.
OnPodOfRunning(j) ==
  /\ up /\ j \in sick /\ j \in started /\ job[j] = "running"
  /\ Push(<<Progress(j)>>)
  /\ UNCHANGED <<started, mishaps>>

\* onPod, likewise; a pod whose Job onJob has not seen is passed over.
OnPod(j) ==
  /\ up /\ j \in sick /\ j \in started
  /\ Push(<<Progress(j)>>)
  /\ UNCHANGED <<started, mishaps>>

\* onEvent; what it reports touches no execution, and takes its place in the batch.
OnEvent ==
  /\ up /\ Mishap
  /\ Push(<<Warning>>)
  /\ UNCHANGED started

\* Mutant: the server reads all of a batch.
ReadAll(batch) == batch

\* The server reads the first Limit events of a batch.
Read(batch) == SubSeq(batch, 1, IF Len(batch) < Limit THEN Len(batch) ELSE Limit)

\* The flusher takes the list and posts it.
Flush ==
  /\ up /\ sending = None /\ pending # <<>>
  /\ sending' = pending /\ pending' = <<>>
  /\ posts' = posts \cup {[todo |-> Read(pending), rows |-> {}, live |-> TRUE]}
  /\ UNCHANGED <<cluster, key, up, started, monitor, ingest, lost, mishaps>>

\* What becomes of the request when its agent no longer waits: rolled back, or carried on.
Unwatched ==
  LET gone == {p \in posts : ~p.live}
  IN {gone, gone \cup {[p EXCEPT !.live = FALSE] : p \in posts \ gone}}

\* Mutant: the batch is put behind what has come since.
RequeueLast(batch) == pending \o batch

Requeue(batch) == batch \o pending

\* The POST is refused, fails half way, or times out while the server is at it.
FlushFails ==
  /\ up /\ sending # None
  /\ pending' = Requeue(sending) /\ sending' = None
  /\ posts' \in Unwatched
  /\ Mishap
  /\ UNCHANGED <<cluster, key, up, started, monitor, ingest, lost>>

StartsIn(es) == {j \in Jobs : Start(j) \in ToSet(es)}

\* The agent ends: what it had in memory is gone.
Die ==
  /\ up /\ Mishap
  /\ up' = FALSE
  /\ pending' = <<>> /\ started' = {}
  /\ lost' = lost \cup StartsIn(pending) \cup (IF sending = None THEN {} ELSE StartsIn(sending))
  /\ sending' = None /\ posts' \in Unwatched
  /\ UNCHANGED <<cluster, key, monitor, ingest>>

--------------------------------------------------------------------------------
(* The events endpoint                                                        *)

Known(j) == fp[NameOf[OwnerOf[j]]] = OwnerOf[j]

Execs == {e[2] : e \in recorded}

\* k8s_events, one event.  A message published stays so when the transaction fails; a reason
\* is written only where the execution exists.
Handle(p) ==
  /\ p \in posts /\ p.todo # <<>>
  /\ LET e == Head(p.todo)
         j == e[2]
         taken == e # Warning /\ Known(j)
     IN /\ posts' = (posts \ {p}) \cup
             {[p EXCEPT !.todo = Tail(@),
                        !.rows = IF taken /\ e = Progress(j) /\ j \in Execs THEN @ \cup {j} ELSE @]}
        /\ stream' = IF taken /\ e # Progress(j) THEN stream \cup {e} ELSE stream
        /\ lost' = IF e # Warning /\ e = Start(j) /\ ~taken THEN lost \cup {j} ELSE lost
  /\ UNCHANGED <<cluster, key, watcher, sending, monitor, orphans, recorded, swallowed, explained, mishaps>>

\* The transaction commits and the agent hears of it: what lies beyond the limit is gone.
Finish(p) ==
  /\ p \in posts /\ p.todo = <<>>
  /\ posts' = posts \ {p}
  /\ explained' = explained \cup p.rows
  /\ sending' = IF p.live THEN None ELSE sending
  /\ lost' = IF p.live THEN lost \cup StartsIn(SubSeq(sending, Limit + 1, Len(sending))) ELSE lost
  /\ UNCHANGED <<cluster, key, watcher, monitor, stream, orphans, recorded, swallowed, mishaps>>

\* The processor stores the key of a report that is new to it and writes the execution
\* (JobPipeline).
Process(e) ==
  /\ e \in stream \ (recorded \cup swallowed)
  /\ recorded' = recorded \cup {e}
  /\ UNCHANGED <<cluster, key, watcher, flush, monitor, stream, orphans, swallowed, explained,
                 lost, mishaps>>

\* The jobs row is gone: the key is stored, the report dropped.
ProcessOrphan(e) ==
  /\ e \in orphans \ (recorded \cup swallowed)
  /\ swallowed' = swallowed \cup {e}
  /\ UNCHANGED <<cluster, key, watcher, flush, monitor, stream, orphans, recorded, explained,
                 lost, mishaps>>

--------------------------------------------------------------------------------
(* Discovery                                                                  *)

Living == {current[n] : n \in Names}

\* A row for a new uid meets UNIQUE (cluster_id, namespace, name), which the upsert by
\* (cluster_id, uid) does not name: the exception rolls the whole request back.
Collides(U) ==
  \E u \in U \ rows : \E v \in rows : NameOf[v] = NameOf[u]

\* Mutant: a job that is known keeps its pause.
PausedOnce ==
  {n \in Names : IF fp[n] = None THEN current[n] \in suspend
                 ELSE n \in paused}

\* paused is written by the INSERT and by the UPDATE of the job with that fingerprint, and
\* left alone by the upsert that gives the job of that name a new fingerprint.
PausedAfter ==
  {n \in Names : IF fp[n] \in {None, current[n]} THEN current[n] \in suspend
                 ELSE n \in paused}

\* The CronJobs in the informer's store, posted to discover_cronjobs: one transaction.  A
\* post takes 20 s at most and there are two minutes to the next, so it is one step; one
\* that fails changes nothing.
Discover ==
  /\ up /\ ~Collides(Living)
  /\ fp' = current
  /\ paused' = PausedAfter
  /\ rows' = rows \cup Living
  /\ UNCHANGED <<cluster, key, watcher, flush, ingest, lost, mishaps>>

DiscoverRefused ==
  /\ up /\ Collides(Living)
  /\ UNCHANGED vars

\* The jobs API: pause or resume.
PauseJob(n) ==
  /\ Mishap
  /\ fp[n] # None
  /\ paused' = IF n \in paused THEN paused \ {n} ELSE paused \cup {n}
  /\ UNCHANGED <<cluster, key, watcher, flush, fp, rows, ingest, lost>>

JobsOf(n) == {j \in Jobs : NameOf[OwnerOf[j]] = n}

ReportsOf(J) == {e \in Report : e[2] \in J}

\* The jobs API: delete, with purge_job.  The row of k8s_cronjobs goes, the executions and their
\* dedup keys; a key without an execution stays.  A request that has updated an execution holds
\* the deletion up until it has ended.
DeleteJob(n) ==
  /\ Mishap
  /\ fp[n] # None /\ \A p \in posts : p.rows \cap JobsOf(n) = {}
  /\ fp' = [fp EXCEPT ![n] = None] /\ paused' = paused \ {n}
  /\ rows' = {u \in rows : NameOf[u] # n}
  /\ orphans' = orphans \cup (stream \cap ReportsOf(JobsOf(n)))
  /\ stream' = stream \ ReportsOf(JobsOf(n))
  /\ recorded' = recorded \ ReportsOf(JobsOf(n))
  /\ swallowed' = swallowed \ ReportsOf(JobsOf(n) \cap Execs)
  /\ explained' = explained \ JobsOf(n)
  /\ lost' = lost \cup {j \in JobsOf(n) : Start(j) \in stream}
  /\ UNCHANGED <<cluster, key, watcher, flush>>

--------------------------------------------------------------------------------
Init ==
  /\ current \in [Names -> UIDs] /\ \A n \in Names : NameOf[current[n]] = n
  /\ retired = {} /\ suspend = {}
  /\ job = [j \in Jobs |-> "absent"] /\ sick = {}
  /\ key \in {"secret", "token"}
  /\ up = FALSE /\ pending = <<>> /\ started = {}
  /\ sending = None /\ posts = {}
  /\ fp = [n \in Names |-> None] /\ paused = {} /\ rows = {}
  /\ stream = {} /\ orphans = {} /\ recorded = {} /\ swallowed = {} /\ explained = {}
  /\ lost = {} /\ mishaps = 0

Next ==
  \/ ClusterStep
  \/ \E u \in UIDs : Suspend(u) \/ Recreate(u)
  \/ Boot
  \/ BootFails
  \/ KeepKey
  \/ \E j \in Jobs : OnJob(j) \/ OnPod(j)
  \/ OnEvent
  \/ Flush
  \/ FlushFails
  \/ Die
  \/ \E p \in posts : Handle(p) \/ Finish(p)
  \/ \E e \in Report : Process(e) \/ ProcessOrphan(e)
  \/ Discover
  \/ DiscoverRefused
  \/ \E n \in Names : PauseJob(n) \/ DeleteJob(n)

Spec == Init /\ [][Next]_vars

HandleAny == \E p \in posts : Handle(p) \/ Finish(p)

\* Kubernetes restarts the agent; its goroutines loop; the server answers; a resync calls the
\* handlers again and again (only MaxPending can keep them waiting, hence SF).
Fairness ==
  /\ WF_vars(Boot)
  /\ WF_vars(Flush) /\ WF_vars(HandleAny)
  /\ WF_vars(Discover) /\ WF_vars(\E e \in Report : Process(e))
  /\ \A j \in Jobs : SF_vars(OnJob(j)) /\ SF_vars(OnPod(j))

FairSpec == Spec /\ Fairness

--------------------------------------------------------------------------------
(* Properties                                                                 *)

\* Every variable keeps its type, a batch is awaited exactly while its request is live, and
\* no two rows of k8s_cronjobs have one name.
TypeOK ==
  /\ current \in [Names -> UIDs] /\ retired \subseteq UIDs /\ suspend \subseteq UIDs
  /\ job \in [Jobs -> {"absent", "running", "succeeded", "failed", "gone"}]
  /\ sick \subseteq {j \in Jobs : Present(j)}
  /\ key \in {"secret", "token", "none"} /\ up \in BOOLEAN
  /\ pending \in Seq(Event) /\ started \subseteq Jobs
  /\ sending # None => up /\ sending \in Seq(Event)
  /\ \A p \in posts : /\ p.todo \in Seq(Event) /\ Len(p.todo) <= Limit
                      /\ p.rows \subseteq Execs /\ p.live \in BOOLEAN
  /\ sending # None <=> \E p \in posts : p.live
  /\ fp \in [Names -> UIDs \cup {None}] /\ paused \subseteq Names
  /\ rows \subseteq UIDs /\ \A u, v \in rows : NameOf[u] = NameOf[v] => u = v
  /\ stream \subseteq Report /\ orphans \subseteq Report
  /\ recorded \subseteq stream /\ swallowed \subseteq orphans /\ recorded \cap swallowed = {}
  /\ explained \subseteq Execs
  /\ lost \subseteq Jobs
  /\ mishaps \in 0 .. MaxMishaps

\* No end of a run is published ahead of its start, whatever is posted again, carried on
\* without the agent, or pushed again after a restart, unless the start was dropped: with an
\* unknown CronJob, beyond the limit, by the end of the agent, or with its jobs row.
StartsFirst ==
  [][\A j \in Jobs :
       Ends(j) \cap (stream' \ stream) # {} => Start(j) \in stream \/ j \in lost]_vars

\* The agent cannot come back: its token is used up and nobody kept its key.
Stranded == ~up /\ key = "none"

\* Discovery fails as a whole since a CronJob was created again.
Blocked == Collides(Living)

\* A batch is done with though the limit cut off one of the events E.
CutOff(E) ==
  \E p \in posts :
    Finish(p) /\ p.live /\ E \cap ToSet(SubSeq(sending, Limit + 1, Len(sending))) # {}

\* A finished Job that stays in the cluster has an execution with its end at last: a resync
\* pushes it again after every restart, failure, unknown CronJob or deletion of the jobs row.
\* Excepted are a key stored for a row that was gone, and an end that the limit cuts off again
\* and again.
EventuallyReported ==
  \A j \in Jobs :
    \/ Finished(j) ~> (\/ Ends(j) \cap recorded # {} \/ job[j] = "gone"
                      \/ Ends(j) \cap swallowed # {} \/ Stranded \/ Blocked)
    \/ []<><<CutOff(Ends(j))>>_vars

\* The failure reason a pod goes on showing reaches the run's execution, though it is dropped when
\* it comes before the processor has written the execution, unless the limit cuts it off again
\* and again.
EventuallyExplained ==
  \A j \in Jobs :
    \/ j \in sick ~> (\/ j \in explained \/ j \notin sick
                     \/ j \in lost \ Execs \/ Stranded \/ Blocked)
    \/ []<><<CutOff({Progress(j)})>>_vars

\* Whatever users set in between, a job comes to be paused exactly when its CronJob is
\* suspended.
PauseFollowsSuspend ==
  <>[](Stranded \/ Blocked
       \/ \A n \in Names : fp[n] # None => (n \in paused <=> fp[n] \in suspend))
================================================================================
