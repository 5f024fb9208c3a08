-------------------------- MODULE AlertPipelineProofs --------------------------
(***************************************************************************)
(* The safety properties of AlertPipeline for all jobs, rules, channels and *)
(* limits.                                                                  *)
(*                                                                          *)
(* The engine decides about an incident long before it commits one, and     *)
(* operators close incidents in between.  Invariants therefore speak of     *)
(* what the open transaction sees (Seen): at most one incident of its job,  *)
(* and none while it is about to join another one.                          *)
(***************************************************************************)
EXTENDS AlertPipeline, TLAPS

--------------------------------------------------------------------------------
(* Types                                                                      *)

\* The incidents the open transaction joins are committed ones; it joins one for a rule that
\* it has still to be done with.
Joined ==
  eng # None =>
    /\ \A i \in eng.attached : incs[i] # None
    /\ eng.joins # None => incs[eng.joins] # None /\ eng.by \in eng.todo

TInv == TypeOK /\ Joined

LEMMA NoneIsNothing ==
  /\ None \notin Rules /\ None \notin Jobs /\ None \notin Delivery
  /\ None \notin Incident /\ None \notin Txn
BY AlertAssumption

\* What is delivered again is an event of the queue.
LEMMA AgainType ==
  ASSUME NEW q \in SUBSET Event, NEW m \in Event
  PROVE  Again(q, m) \in SUBSET Event
BY AlertAssumption DEF Again, Event

LEMMA PagesType ==
  ASSUME NEW r \in Rules, NEW i \in Delivery \cup {None}, TypeOK, eng # None
  PROVE  Pages(r, i) \in SUBSET Page
<1>1. eng.msg.job \in Jobs
  BY DEF TypeOK, Txn, Event
<1>2. Cond(r, eng.flap) \in Conds /\ Rule[r].chans \in SUBSET Channels
  BY AlertAssumption DEF Cond, Conds, RuleRow
<1> QED BY <1>1, <1>2, AlertAssumption DEF Pages, Page

LEMMA IdType ==
  ASSUME TypeOK, eng # None
  PROVE  Id \in Delivery
BY DEF TypeOK, Txn, Event, Id, Delivery

\* An incident after the commit.
LEMMA CommittedType ==
  ASSUME TInv, eng # None, NEW i \in Delivery
  PROVE  Committed(i) \in Incident \cup {None}
<1>1. eng \in Txn /\ eng.msg.job \in Jobs /\ Flapper \in SUBSET Jobs
  BY DEF TInv, TypeOK, Txn, Event, Flapper
<1>2. incs[i] \in Incident \cup {None}
  BY DEF TInv, TypeOK
<1>3. CASE i \in eng.opened
  BY <1>1, <1>3 DEF Committed, Incident
<1>4. CASE i \notin eng.opened /\ i \in eng.attached
  <2>1. incs[i] \in Incident
    BY <1>2, <1>4 DEF TInv, Joined
  <2>2. Committed(i) = [incs[i] EXCEPT !.jobs = @ \cup {eng.msg.job}, !.flappers = @ \cup Flapper]
    BY <1>4 DEF Committed
  <2> QED BY ZenonT(60), <1>1, <2>1, <2>2 DEF Incident
<1>5. CASE i \notin eng.opened /\ i \notin eng.attached
  <2>1. CASE Unresolved(i) /\ eng.msg.new \in Good /\ eng.msg.job \in incs[i].jobs
    <3>1. incs[i] \in Incident
      BY <1>2, <2>1 DEF Unresolved
    <3>2. Committed(i) = [incs[i] EXCEPT !.status = "resolved", !.resolution = "auto"]
      BY <1>5, <2>1 DEF Committed
    <3> QED BY <3>1, <3>2 DEF Incident
  <2>2. CASE ~(Unresolved(i) /\ eng.msg.new \in Good /\ eng.msg.job \in incs[i].jobs)
    BY <1>2, <1>5, <2>2 DEF Committed
  <2> QED BY <2>1, <2>2
<1> QED BY <1>3, <1>4, <1>5

LEMMA TypeInit == Init => TInv
BY AlertAssumption DEF Init, TInv, TypeOK, Joined

\* The handler of the rule engine.
LEMMA TypeHandle ==
  ASSUME TInv, Handle
  PROVE  TInv'
<1> USE DEF TInv
<1>1. ASSUME NEW m \in queue, Ignore(m) PROVE TInv'
  BY <1>1, AgainType DEF Ignore, TypeOK, Joined, ghosts, config
<1>2. ASSUME NEW m \in queue, Begin(m) PROVE TInv'
  <2>1. m \in Event /\ m.job \in Jobs
    BY DEF TypeOK, Event
  <2>2. flaps' \in [Jobs -> 0 .. FlapThreshold]
    <3>1. PICK k \in 1 .. flaps[m.job] + 1 :
            flaps' = [flaps EXCEPT ![m.job] = IF k < FlapThreshold THEN k ELSE FlapThreshold]
      BY <1>2 DEF Begin
    <3> QED BY <2>1, <3>1, AlertAssumption DEF TypeOK
  <2>3. PICK todo \in SUBSET Matching(m.job, m.new) :
          eng' = [msg |-> m, flap |-> flaps'[m.job] >= FlapThreshold, rules |-> todo,
                  todo |-> todo, joins |-> None, by |-> None, attached |-> {}, opened |-> {},
                  noted |-> {}]
    BY <1>2 DEF Begin
  <2>4. todo \in SUBSET Rules
    BY <2>3 DEF Matching, TypeOK
  <2>5. eng' \in Txn
    BY <2>1, <2>3, <2>4 DEF Txn
  <2>6. Joined'
    BY <2>3 DEF Joined
  <2>7. queue' \subseteq Event
    BY <1>2 DEF Begin, TypeOK
  <2> QED BY <1>2, <2>2, <2>5, <2>6, <2>7 DEF Begin, TypeOK, config, ghosts
<1>3. ASSUME NEW r \in Rules, Deduplicate(r) PROVE TInv'
  <2>1. eng \in Txn /\ eng' = [eng EXCEPT !.todo = @ \ {r}]
    BY <1>3 DEF Deduplicate, Considering, Done, TypeOK
  <2>2. eng' \in Txn /\ eng'.attached = eng.attached /\ eng'.joins = None
    BY <1>3, <2>1 DEF Deduplicate, Considering, Txn
  <2> QED BY <1>3, <2>2 DEF Deduplicate, Considering, TypeOK, Joined, config, ghosts
<1>4. ASSUME NEW r \in Rules, Notify(r) PROVE TInv'
  <2>1. PICK i \in IF Needed(r) THEN Seen ELSE {None} :
          /\ tasks' = tasks \cup Pages(r, i)
          /\ eng' = [Done(r) EXCEPT !.noted = @ \cup ({i} \ {None})]
    BY <1>4 DEF Notify
  <2>2. eng \in Txn
    BY <1>4 DEF Notify, Considering, TypeOK
  <2>3. i \in Delivery \cup {None}
    BY <2>1, <2>2 DEF Seen, Txn
  <2>4. eng' \in Txn /\ eng'.attached = eng.attached /\ eng'.joins = None
    BY <1>4, <2>1, <2>2, <2>3 DEF Notify, Considering, Done, Txn
  <2>5. tasks' \subseteq Page
    BY <1>4, <2>1, <2>3, PagesType DEF Notify, Considering, TypeOK
  <2> QED BY <1>4, <2>4, <2>5 DEF Notify, Considering, TypeOK, Joined, config, ghosts
<1>5. ASSUME NEW r \in Rules, FindRelated(r) PROVE TInv'
  <2>1. PICK i \in Delivery : Unresolved(i) /\ eng' = [eng EXCEPT !.joins = i, !.by = r]
    BY <1>5 DEF FindRelated
  <2>2. eng \in Txn /\ incs[i] # None
    BY <1>5, <2>1 DEF FindRelated, Considering, TypeOK, Unresolved
  <2>3. eng' \in Txn /\ eng'.attached = eng.attached /\ eng'.joins = i /\ eng'.by \in eng'.todo
    BY <1>5, <2>1, <2>2 DEF FindRelated, Considering, Txn
  <2> QED BY <1>5, <2>2, <2>3 DEF FindRelated, Considering, TypeOK, Joined, config, ghosts
<1>6. ASSUME NEW r \in Rules, Open(r) PROVE TInv'
  <2>1. eng \in Txn /\ eng.joins = None /\ Id \in Delivery
    BY <1>6, IdType DEF Open, Considering, TypeOK
  <2>2. eng' = [Done(r) EXCEPT !.opened = {Id}, !.noted = @ \cup {Id}]
    BY <1>6 DEF Open
  <2>3. eng' \in Txn /\ eng'.attached = eng.attached /\ eng'.joins = None
    BY <2>1, <2>2 DEF Done, Txn
  <2>4. tasks' \subseteq Page
    BY <1>6, <2>1, PagesType DEF Open, Considering, TypeOK
  <2> QED BY <1>6, <2>3, <2>4 DEF Open, Considering, TypeOK, Joined, config, ghosts
<1>7. ASSUME Attach PROVE TInv'
  <2>1. eng \in Txn /\ eng.joins \in Delivery /\ incs[eng.joins] # None
    BY <1>7 DEF Attach, TypeOK, Joined, Txn
  <2>2. eng' = [eng EXCEPT !.attached = @ \cup {eng.joins}, !.noted = @ \cup {eng.joins},
                           !.joins = None, !.by = None, !.todo = @ \ {eng.by}]
    BY <1>7 DEF Attach
  <2>3. eng' \in Txn /\ eng'.attached = eng.attached \cup {eng.joins} /\ eng'.joins = None
    BY <2>1, <2>2 DEF Txn
  <2>4. Joined'
    BY <1>7, <2>1, <2>3 DEF Attach, Joined
  <2>5. tasks' \subseteq Page
    <3>1. eng.by \in Rules
      BY <1>7, <2>1 DEF Attach, Joined, Txn
    <3> QED BY <1>7, <2>1, <3>1, PagesType DEF Attach, TypeOK
  <2> QED BY <1>7, <2>3, <2>4, <2>5 DEF Attach, TypeOK, config, ghosts
<1>8. ASSUME Commit PROVE TInv'
  <2>1. eng # None /\ eng \in Txn
    BY <1>8 DEF Commit, TypeOK
  <2>2. eng.msg \in Event /\ eng.msg.n \in 1 .. MaxEvents /\ eng.msg.job \in Jobs
    BY <2>1 DEF Txn, Event
  <2>3. incs' \in [Delivery -> Incident \cup {None}]
    BY <1>8, <2>1, CommittedType DEF Commit
  <2>4. queue' \subseteq Event
    BY <1>8, <2>2, AgainType DEF Commit, TypeOK
  <2>5. reached' \in [Jobs -> 0 .. MaxEvents] /\ misled' \subseteq Jobs
    BY <1>8, <2>2 DEF Commit, TypeOK
  <2> QED BY <1>8, <2>3, <2>4, <2>5 DEF Commit, TypeOK, Joined, config
<1>9. ASSUME Rollback PROVE TInv'
  <2>1. queue' \subseteq Event
    BY <1>9, AgainType DEF Rollback, TypeOK, Txn
  <2> QED BY <1>9, <2>1 DEF Rollback, TypeOK, Joined, config, ghosts
<1> QED BY <1>1, <1>2, <1>3, <1>4, <1>5, <1>6, <1>7, <1>8, <1>9 DEF Handle

LEMMA TypePublish ==
  ASSUME TInv, NEW j \in Jobs, NEW new \in Statuses, Publish(j, new)
  PROVE  TInv'
<1>1. count + 1 \in 1 .. MaxEvents
  BY AlertAssumption DEF Publish, TInv, TypeOK
<1>2. queue' \subseteq Event /\ count' \in 0 .. MaxEvents
  BY <1>1, AlertAssumption DEF Publish, TInv, TypeOK, Event
<1>3. newest' \in [Jobs -> [n : 0 .. MaxEvents, new : Statuses \cup {"unknown"}]]
  BY <1>1 DEF Publish, TInv, TypeOK
<1> QED BY <1>2, <1>3 DEF Publish, TInv, TypeOK, Joined, config

\* The Celery workers.
LEMMA TypeSend ==
  ASSUME TInv, NEW t \in tasks, Send(t)
  PROVE  TInv'
<1>1. t \in Page
  BY DEF TInv, TypeOK
<1>2. ledger' \subseteq (Rules \cup {None}) \X (Jobs \cup {None}) \X Conds
  <2>1. Row(t) \in (Rules \cup {None}) \X (Jobs \cup {None}) \X Conds
    BY <1>1 DEF Row, Page
  <2> QED BY <2>1 DEF Send, GiveUp, SendOk, Retry, TInv, TypeOK
<1>3. tasks' \subseteq Page
  <2>1. CASE Retry(t)
    <3>1. [t EXCEPT !.tries = @ + 1] \in Page
      BY <1>1, <2>1, AlertAssumption DEF Retry, Page
    <3> QED BY <2>1, <3>1 DEF Retry, TInv, TypeOK
  <2> QED BY <2>1 DEF Send, GiveUp, SendOk, TInv, TypeOK
<1>4. UNCHANGED <<queue, eng, incs, flaps, config, ghosts>>
  BY DEF Send, GiveUp, SendOk, Retry, Sending
<1> QED BY <1>2, <1>3, <1>4 DEF TInv, TypeOK, Joined, config, ghosts

\* What operators do to an incident leaves it one.
LEMMA TypeOperator ==
  ASSUME TInv, Operator
  PROVE  TInv'
<1>1. ASSUME NEW i \in Delivery, Ack(i) \/ Resolve(i) PROVE TInv'
  <2>1. incs[i] \in Incident
    BY <1>1 DEF Ack, Resolve, Unresolved, TInv, TypeOK
  <2>2. [incs[i] EXCEPT !.status = "acknowledged"] \in Incident
    BY <2>1 DEF Incident
  <2>3. [incs[i] EXCEPT !.status = "resolved", !.resolution = "manual"] \in Incident
    BY <2>1 DEF Incident
  <2>4. \E x \in Incident : incs' = [incs EXCEPT ![i] = x]
    BY ZenonT(60), <1>1, <2>2, <2>3 DEF Ack, Resolve
  <2>5. UNCHANGED <<queue, eng, tasks, flaps, config, ledger, ghosts>>
    BY <1>1 DEF Ack, Resolve
  <2> QED BY <2>4, <2>5, NoneIsNothing DEF TInv, TypeOK, Joined, config, ghosts
<1>2. ASSUME NEW r \in Rules, ToggleRule(r) PROVE TInv'
  BY <1>2, AlertAssumption DEF ToggleRule, Edit, TInv, TypeOK, Joined, ghosts
<1>3. ASSUME NEW c \in Channels, DeleteChannel(c) PROVE TInv'
  BY <1>3, AlertAssumption DEF DeleteChannel, Edit, TInv, TypeOK, Joined, ghosts
<1>4. ASSUME NEW c \in Channels, TestChannel(c) PROVE TInv'
  <2>1. [rule |-> None, job |-> None, cond |-> "failed", chan |-> c, inc |-> None, tries |-> 0]
          \in Page
    BY AlertAssumption DEF Page, Conds, CONDITIONS
  <2> QED BY <1>4, <2>1, AlertAssumption DEF TestChannel, Edit, TInv, TypeOK, Joined, ghosts
<1>5. ASSUME NEW j \in Jobs, EditMaintenance(j) PROVE TInv'
  BY <1>5, AlertAssumption DEF EditMaintenance, Edit, TInv, TypeOK, Joined, ghosts
<1>6. ASSUME NEW j \in Jobs, DeleteJob(j) PROVE TInv'
  BY <1>6, AlertAssumption DEF DeleteJob, Edit, TInv, TypeOK, Joined, ghosts
<1> QED BY <1>1, <1>2, <1>3, <1>4, <1>5, <1>6 DEF Operator

LEMMA TypeStep == TInv /\ [Next]_vars => TInv'
<1> SUFFICES ASSUME TInv, [Next]_vars PROVE TInv' OBVIOUS
<1>1. CASE UNCHANGED vars
  BY <1>1 DEF vars, config, ghosts, TInv, TypeOK, Joined
<1> QED BY <1>1, TypeHandle, TypePublish, TypeSend, TypeOperator DEF Next, Idle

\* Every variable keeps its type, whatever the handler, the workers and the operators do.
THEOREM TypeCorrect == Spec => []TypeOK
<1>1. TInv => TypeOK
  BY DEF TInv
<1> QED BY <1>1, TypeInit, TypeStep, PTL DEF Spec

--------------------------------------------------------------------------------
(* One unresolved incident for a job                                          *)

\* The open transaction sees at most one incident of its job, and none while it is about to
\* join one.
SeesOne ==
  eng # None =>
    /\ \A a, b \in Seen : a = b
    /\ eng.joins # None => Seen = {}

OneInv == TInv /\ OneOpenIncident /\ SeesOne

LEMMA OneInit == Init => OneInv
BY TypeInit DEF Init, OneInv, OneOpenIncident, SeesOne, Unresolved

\* What the transaction sees depends on few of its parts.
LEMMA SeenSame ==
  ASSUME eng' # None, eng'.opened = eng.opened, eng'.attached = eng.attached,
         eng'.msg = eng.msg, incs' = incs
  PROVE  Seen' = Seen
BY DEF Seen, Unresolved

\* An incident that names the job of the transaction after the commit was seen by it, and one
\* that names another job named it before.
LEMMA CommittedWas ==
  ASSUME TInv, eng # None, NEW i \in Delivery, NEW j \in Jobs,
         Committed(i) # None, Committed(i).status # "resolved", j \in Committed(i).jobs
  PROVE  /\ j = eng.msg.job => i \in Seen
         /\ j # eng.msg.job => Unresolved(i) /\ j \in incs[i].jobs
<1>1. incs[i] \in Incident \cup {None}
  BY DEF TInv, TypeOK
<1>2. CASE i \in eng.opened
  <2>1. Committed(i).jobs = {eng.msg.job}
    BY <1>2 DEF Committed
  <2> QED BY <1>2, <2>1 DEF Seen
<1>3. CASE i \notin eng.opened /\ i \in eng.attached
  <2>1. incs[i] \in Incident
    BY <1>1, <1>3 DEF TInv, Joined
  <2>2. Committed(i) = [incs[i] EXCEPT !.jobs = @ \cup {eng.msg.job}, !.flappers = @ \cup Flapper]
    BY <1>3 DEF Committed
  <2>3. Committed(i).status = incs[i].status /\ Committed(i).jobs = incs[i].jobs \cup {eng.msg.job}
    BY <2>1, <2>2 DEF Incident
  <2>4. Unresolved(i)
    BY <1>3, <2>3 DEF Unresolved, TInv, Joined
  <2> QED BY <1>3, <2>3, <2>4 DEF Seen
<1>4. CASE i \notin eng.opened /\ i \notin eng.attached
  <2>1. CASE Unresolved(i) /\ eng.msg.new \in Good /\ eng.msg.job \in incs[i].jobs
    <3>1. incs[i] \in Incident
      BY <1>1, <2>1 DEF Unresolved
    <3>2. Committed(i).status = "resolved"
      BY <1>4, <2>1, <3>1 DEF Committed, Incident
    <3> QED BY <3>2
  <2>2. CASE ~(Unresolved(i) /\ eng.msg.new \in Good /\ eng.msg.job \in incs[i].jobs)
    <3>1. Committed(i) = incs[i]
      BY <1>4, <2>2 DEF Committed
    <3>2. Unresolved(i) /\ j \in incs[i].jobs
      BY <3>1 DEF Unresolved
    <3> QED BY <2>2, <3>2 DEF Seen
  <2> QED BY <2>1, <2>2
<1> QED BY <1>2, <1>3, <1>4

LEMMA OneHandle ==
  ASSUME OneInv, Handle
  PROVE  OneOpenIncident' /\ SeesOne'
<1> USE DEF OneInv
<1>1. ASSUME NEW m \in queue, Ignore(m) PROVE OneOpenIncident' /\ SeesOne'
  BY <1>1 DEF Ignore, OneOpenIncident, SeesOne, Unresolved
<1>2. ASSUME NEW m \in queue, Begin(m) PROVE OneOpenIncident' /\ SeesOne'
  <2>1. incs' = incs
    BY <1>2 DEF Begin
  <2>2. eng'.msg = m /\ eng'.opened = {} /\ eng'.attached = {} /\ eng'.joins = None
    BY <1>2 DEF Begin
  <2>3. \A i \in Seen' : i \in Delivery /\ Unresolved(i) /\ m.job \in incs[i].jobs
    BY <2>1, <2>2 DEF Seen, Unresolved
  <2> QED BY <2>1, <2>2, <2>3 DEF OneOpenIncident, SeesOne, Unresolved
<1>3. ASSUME NEW r \in Rules, Deduplicate(r) PROVE OneOpenIncident' /\ SeesOne'
  <2>1. eng \in Txn /\ eng.joins = None /\ incs' = incs /\ eng' = [eng EXCEPT !.todo = @ \ {r}]
    BY <1>3 DEF Deduplicate, Considering, Done, TInv, TypeOK
  <2>2. /\ eng'.opened = eng.opened /\ eng'.attached = eng.attached
        /\ eng'.msg = eng.msg /\ eng'.joins = None
    BY <2>1 DEF Txn
  <2>3. eng # None
    BY <1>3 DEF Deduplicate, Considering
  <2> QED BY <2>1, <2>2, <2>3 DEF OneOpenIncident, SeesOne, Seen, Unresolved
<1>4. ASSUME NEW r \in Rules, Notify(r) PROVE OneOpenIncident' /\ SeesOne'
  <2>1. eng # None /\ eng \in Txn /\ eng.joins = None /\ incs' = incs
    BY <1>4 DEF Notify, Considering, TInv, TypeOK
  <2>2. \E i : eng' = [Done(r) EXCEPT !.noted = @ \cup ({i} \ {None})]
    BY <1>4 DEF Notify
  <2>3. /\ eng'.opened = eng.opened /\ eng'.attached = eng.attached
        /\ eng'.msg = eng.msg /\ eng'.joins = None
    BY <2>1, <2>2 DEF Done, Txn
  <2> QED BY <2>1, <2>3 DEF OneOpenIncident, SeesOne, Seen, Unresolved
<1>5. ASSUME NEW r \in Rules, FindRelated(r) PROVE OneOpenIncident' /\ SeesOne'
  <2>1. eng \in Txn /\ incs' = incs /\ Seen = {}
    BY <1>5 DEF FindRelated, Considering, TInv, TypeOK
  <2>2. \E i \in Delivery : eng' = [eng EXCEPT !.joins = i, !.by = r]
    BY <1>5 DEF FindRelated
  <2>3. eng'.opened = eng.opened /\ eng'.attached = eng.attached /\ eng'.msg = eng.msg
    BY <2>1, <2>2 DEF Txn
  <2>4. Seen' = {}
    BY <2>1, <2>3 DEF Seen, Unresolved
  <2> QED BY <2>1, <2>4 DEF OneOpenIncident, SeesOne, Unresolved
<1>6. ASSUME NEW r \in Rules, Open(r) PROVE OneOpenIncident' /\ SeesOne'
  <2>1. eng \in Txn /\ eng.joins = None /\ incs' = incs /\ Seen = {}
    BY <1>6 DEF Open, Considering, TInv, TypeOK
  <2>2. eng' = [Done(r) EXCEPT !.opened = {Id}, !.noted = @ \cup {Id}]
    BY <1>6 DEF Open
  <2>3. /\ eng'.opened = {Id} /\ eng'.attached = eng.attached
        /\ eng'.msg = eng.msg /\ eng'.joins = None
    BY <2>1, <2>2 DEF Done, Txn
  <2>4. Seen' = {Id}
    BY <2>1, <2>3 DEF Seen, Unresolved
  <2> QED BY <2>1, <2>3, <2>4 DEF OneOpenIncident, SeesOne, Unresolved
<1>7. ASSUME Attach PROVE OneOpenIncident' /\ SeesOne'
  <2>1. eng \in Txn /\ incs' = incs /\ Seen = {}
    BY <1>7 DEF Attach, SeesOne, TInv, TypeOK
  <2>2. eng' = [eng EXCEPT !.attached = @ \cup {eng.joins}, !.noted = @ \cup {eng.joins},
                           !.joins = None, !.by = None, !.todo = @ \ {eng.by}]
    BY <1>7 DEF Attach
  <2>3. /\ eng'.opened = eng.opened /\ eng'.attached = eng.attached \cup {eng.joins}
        /\ eng'.msg = eng.msg /\ eng'.joins = None
    BY <2>1, <2>2 DEF Txn
  <2>4. Seen' \subseteq {eng.joins}
    BY <2>1, <2>3 DEF Seen, Unresolved
  <2> QED BY <2>1, <2>3, <2>4 DEF OneOpenIncident, SeesOne, Unresolved
<1>8. ASSUME Commit PROVE OneOpenIncident' /\ SeesOne'
  <2>1. eng # None /\ eng' = None /\ incs' = [i \in Delivery |-> Committed(i)]
    BY <1>8 DEF Commit
  <2> SUFFICES ASSUME NEW a \in Delivery, NEW b \in Delivery,
                      Unresolved(a)', Unresolved(b)', NEW j \in incs'[a].jobs \cap incs'[b].jobs
               PROVE  a = b
    BY <2>1 DEF OneOpenIncident, SeesOne
  <2>2. /\ Committed(a) # None /\ Committed(a).status # "resolved" /\ j \in Committed(a).jobs
        /\ Committed(b) # None /\ Committed(b).status # "resolved" /\ j \in Committed(b).jobs
    BY <2>1 DEF Unresolved
  <2>3. j \in Jobs
    BY <2>1, <2>2, CommittedType DEF Incident
  <2>4. CASE j = eng.msg.job
    BY <2>1, <2>2, <2>3, <2>4, CommittedWas DEF SeesOne
  <2>5. CASE j # eng.msg.job
    <3>1. Unresolved(a) /\ Unresolved(b) /\ j \in incs[a].jobs \cap incs[b].jobs
      BY <2>1, <2>2, <2>3, <2>5, CommittedWas
    <3> QED BY <3>1 DEF OneOpenIncident
  <2> QED BY <2>4, <2>5
<1>9. ASSUME Rollback PROVE OneOpenIncident' /\ SeesOne'
  BY <1>9 DEF Rollback, OneOpenIncident, SeesOne, Unresolved
<1> QED BY <1>1, <1>2, <1>3, <1>4, <1>5, <1>6, <1>7, <1>8, <1>9 DEF Handle

\* Operators only close incidents, whatever the transaction has seen of them.
LEMMA OneOperator ==
  ASSUME OneInv, NEW i \in Delivery, Ack(i) \/ Resolve(i)
  PROVE  OneOpenIncident' /\ SeesOne'
<1>1. eng' = eng /\ incs[i] \in Incident
  BY DEF Ack, Resolve, Unresolved, OneInv, TInv, TypeOK
<1>2. \A a \in Delivery : Unresolved(a)' => Unresolved(a) /\ incs'[a].jobs = incs[a].jobs
  <2> SUFFICES ASSUME NEW a \in Delivery, Unresolved(a)'
               PROVE  Unresolved(a) /\ incs'[a].jobs = incs[a].jobs
    OBVIOUS
  <2>1. incs \in [Delivery -> Incident \cup {None}]
    BY DEF OneInv, TInv, TypeOK
  <2>2. CASE a = i
    BY <1>1, <2>1, <2>2 DEF Ack, Resolve, Unresolved, Incident
  <2>3. CASE a # i
    BY <2>1, <2>3 DEF Ack, Resolve, Unresolved
  <2> QED BY <2>2, <2>3
<1>3. eng # None => Seen' \subseteq Seen
  BY <1>1, <1>2 DEF Seen
<1> QED BY <1>1, <1>2, <1>3 DEF OneInv, OneOpenIncident, SeesOne

LEMMA OneStep == OneInv /\ [Next]_vars => OneInv'
<1> SUFFICES ASSUME OneInv, [Next]_vars PROVE OneOpenIncident' /\ SeesOne'
  BY TypeStep DEF OneInv
<1>1. CASE Handle
  BY <1>1, OneHandle
<1>2. CASE \E i \in Delivery : Ack(i) \/ Resolve(i)
  BY <1>2, OneOperator
<1>3. CASE UNCHANGED <<eng, incs>>
  BY <1>3 DEF OneInv, OneOpenIncident, SeesOne, Seen, Unresolved
<1>4. Next \/ UNCHANGED vars =>
        Handle \/ (\E i \in Delivery : Ack(i) \/ Resolve(i)) \/ UNCHANGED <<eng, incs>>
  BY DEF Next, Operator, Publish, Send, Sending, GiveUp, SendOk, Retry, Idle, vars, Edit,
         ToggleRule, DeleteChannel, TestChannel, EditMaintenance, DeleteJob
<1> QED BY <1>1, <1>2, <1>3, <1>4

\* A job is in at most one unresolved incident.
THEOREM OneOpen == Spec => []OneOpenIncident
<1>1. OneInv => OneOpenIncident
  BY DEF OneInv
<1> QED BY <1>1, OneInit, OneStep, PTL DEF Spec

--------------------------------------------------------------------------------
(* A handled failure is tracked                                               *)

\* Incidents that will name the job of the transaction once it has committed.
Names(i) ==
  i \in eng.opened \/ (incs[i] # None /\ (i \in eng.attached \/ eng.msg.job \in incs[i].jobs))

\* The rules the transaction is done with were suppressed or have put the failure on the
\* timeline of such an incident.
RulesTracked ==
  eng # None /\ eng.msg.new \in BAD =>
    \A r \in eng.rules \ eng.todo :
      Sent(r, eng.msg.job, Cond(r, eng.flap)) \/ \E i \in eng.noted : Names(i)

TrackInv == TInv /\ RulesTracked

LEMMA SeenNames ==
  ASSUME TInv, eng # None
  PROVE  \A i \in Seen : i \in Delivery /\ Names(i)
<1>1. eng.opened \subseteq Delivery
  BY DEF TInv, TypeOK, Txn
<1> QED BY <1>1 DEF Seen, Names, Unresolved

LEMMA TrackHandle ==
  ASSUME TrackInv, Handle
  PROVE  RulesTracked'
<1> USE DEF TrackInv
<1>1. ASSUME NEW m \in queue, Ignore(m) PROVE RulesTracked'
  BY <1>1 DEF Ignore, RulesTracked
<1>2. ASSUME NEW m \in queue, Begin(m) PROVE RulesTracked'
  <2>1. eng'.rules = eng'.todo
    BY <1>2 DEF Begin
  <2> QED BY <2>1 DEF RulesTracked
<1>3. ASSUME NEW r \in Rules, Deduplicate(r) PROVE RulesTracked'
  <2>1. eng \in Txn /\ eng # None /\ incs' = incs /\ ledger' = ledger
    BY <1>3 DEF Deduplicate, Considering, TInv, TypeOK
  <2>2. eng' = [eng EXCEPT !.todo = @ \ {r}] /\ Sent(r, eng.msg.job, Cond(r, eng.flap))
    BY <1>3 DEF Deduplicate, Done
  <2>3. /\ eng'.opened = eng.opened /\ eng'.attached = eng.attached /\ eng'.msg = eng.msg
        /\ eng'.flap = eng.flap /\ eng'.rules = eng.rules /\ eng'.noted = eng.noted
        /\ eng'.todo = eng.todo \ {r}
    BY <2>1, <2>2 DEF Txn
  <2> QED BY <2>1, <2>2, <2>3 DEF RulesTracked, Names, Sent, Cond
<1>4. ASSUME NEW r \in Rules, Notify(r) PROVE RulesTracked'
  <2>1. eng \in Txn /\ eng # None /\ incs' = incs /\ ledger' = ledger
    BY <1>4 DEF Notify, Considering, TInv, TypeOK
  <2>2. PICK i \in IF Needed(r) THEN Seen ELSE {None} :
          eng' = [Done(r) EXCEPT !.noted = @ \cup ({i} \ {None})]
    BY <1>4 DEF Notify
  <2>3. /\ eng'.opened = eng.opened /\ eng'.attached = eng.attached /\ eng'.msg = eng.msg
        /\ eng'.flap = eng.flap /\ eng'.rules = eng.rules
        /\ eng'.noted = eng.noted \cup ({i} \ {None})
        /\ eng'.todo = eng.todo \ {r}
    BY <2>1, <2>2 DEF Done, Txn
  <2>4. eng.msg.new \in BAD => i # None /\ Names(i)
    BY <2>1, <2>2, SeenNames, NoneIsNothing DEF Needed, NeedsIncident
  <2> QED BY <2>1, <2>3, <2>4 DEF RulesTracked, Names, Sent, Cond
<1>5. ASSUME NEW r \in Rules, FindRelated(r) PROVE RulesTracked'
  <2>1. eng \in Txn /\ eng # None /\ incs' = incs /\ ledger' = ledger
    BY <1>5 DEF FindRelated, Considering, TInv, TypeOK
  <2>2. \E i \in Delivery : eng' = [eng EXCEPT !.joins = i, !.by = r]
    BY <1>5 DEF FindRelated
  <2>3. /\ eng'.opened = eng.opened /\ eng'.attached = eng.attached /\ eng'.msg = eng.msg
        /\ eng'.flap = eng.flap /\ eng'.rules = eng.rules /\ eng'.noted = eng.noted
        /\ eng'.todo = eng.todo
    BY <2>1, <2>2 DEF Txn
  <2> QED BY <2>1, <2>3 DEF RulesTracked, Names, Sent, Cond
<1>6. ASSUME NEW r \in Rules, Open(r) PROVE RulesTracked'
  <2>1. eng \in Txn /\ eng # None /\ incs' = incs /\ ledger' = ledger /\ eng.opened = {}
    BY <1>6 DEF Open, Considering, Seen, TInv, TypeOK
  <2>2. eng' = [Done(r) EXCEPT !.opened = {Id}, !.noted = @ \cup {Id}]
    BY <1>6 DEF Open
  <2>3. /\ eng'.opened = {Id} /\ eng'.attached = eng.attached /\ eng'.msg = eng.msg
        /\ eng'.flap = eng.flap /\ eng'.rules = eng.rules /\ eng'.noted = eng.noted \cup {Id}
        /\ eng'.todo = eng.todo \ {r}
    BY <2>1, <2>2 DEF Done, Txn
  <2>4. \E i \in eng'.noted : Names(i)'
    BY <2>3 DEF Names
  <2> QED BY <2>1, <2>3, <2>4 DEF RulesTracked, Sent, Cond
<1>7. ASSUME Attach PROVE RulesTracked'
  <2>1. eng \in Txn /\ eng # None /\ incs' = incs /\ ledger' = ledger /\ incs[eng.joins] # None
    BY <1>7 DEF Attach, Joined, TInv, TypeOK
  <2>2. eng' = [eng EXCEPT !.attached = @ \cup {eng.joins}, !.noted = @ \cup {eng.joins},
                           !.joins = None, !.by = None, !.todo = @ \ {eng.by}]
    BY <1>7 DEF Attach
  <2>3. /\ eng'.attached = eng.attached \cup {eng.joins}
        /\ eng'.noted = eng.noted \cup {eng.joins}
    BY <2>1, <2>2 DEF Txn
  <2>4. \E i \in eng'.noted : Names(i)'
    BY <2>1, <2>3 DEF Names
  <2> QED BY <2>4 DEF RulesTracked
<1>8. ASSUME Commit \/ Rollback PROVE RulesTracked'
  BY <1>8 DEF Commit, Rollback, RulesTracked
<1> QED BY <1>1, <1>2, <1>3, <1>4, <1>5, <1>6, <1>7, <1>8 DEF Handle

\* Others add rows to the ledger and change the status of incidents, never their jobs.
LEMMA TrackStep == TrackInv /\ [Next]_vars => TrackInv'
<1> SUFFICES ASSUME TrackInv, [Next]_vars PROVE RulesTracked'
  BY TypeStep DEF TrackInv
<1> USE DEF TrackInv
<1>1. CASE Handle
  BY <1>1, TrackHandle
<1>2. CASE \E i \in Delivery : Ack(i) \/ Resolve(i)
  <2>1. PICK i \in Delivery : Ack(i) \/ Resolve(i)
    BY <1>2
  <2>2. eng' = eng /\ ledger' = ledger /\ incs[i] \in Incident
    BY <2>1 DEF Ack, Resolve, Unresolved, TInv, TypeOK
  <2>3. \A a : incs[a] # None => incs'[a] # None /\ incs'[a].jobs = incs[a].jobs
    <3>1. PICK x : incs' = [incs EXCEPT ![i] = x] /\ x # None /\ x.jobs = incs[i].jobs
      <4>1. [incs[i] EXCEPT !.status = "acknowledged"] \in Incident
        BY <2>2 DEF Incident
      <4>2. [incs[i] EXCEPT !.status = "resolved", !.resolution = "manual"] \in Incident
        BY <2>2 DEF Incident
      <4> QED BY <2>1, <2>2, <4>1, <4>2, NoneIsNothing DEF Ack, Resolve, Incident
    <3> QED BY <3>1 DEF TInv, TypeOK
  <2> QED BY <2>2, <2>3 DEF RulesTracked, Names, Sent, Cond
<1>3. CASE UNCHANGED <<eng, incs>> /\ ledger \subseteq ledger'
  BY <1>3 DEF RulesTracked, Names, Sent, Cond
<1>4. Handle \/ (\E i \in Delivery : Ack(i) \/ Resolve(i))
      \/ (UNCHANGED <<eng, incs>> /\ ledger \subseteq ledger')
  BY DEF Next, Operator, Publish, Send, Sending, GiveUp, SendOk, Retry, Idle, vars, Edit,
         ToggleRule, DeleteChannel, TestChannel, EditMaintenance, DeleteJob
<1> QED BY <1>1, <1>2, <1>3, <1>4

LEMMA CommitTracks ==
  ASSUME TrackInv, Commit, eng.msg.new \in BAD,
         NEW r \in eng.rules, ~Sent(r, eng.msg.job, Cond(r, eng.flap))
  PROVE  Tracked(eng.msg.job)
<1>1. eng # None /\ eng \in Txn /\ eng.todo = {} /\ incs' = [i \in Delivery |-> Committed(i)]
  BY DEF Commit, TrackInv, TInv, TypeOK
<1>2. PICK i \in eng.noted : Names(i)
  BY <1>1 DEF TrackInv, RulesTracked
<1>3. i \in Delivery /\ incs[i] \in Incident \cup {None}
  BY <1>1, <1>2 DEF Txn, TrackInv, TInv, TypeOK
<1>4. Committed(i) # None /\ eng.msg.job \in Committed(i).jobs
  <2>1. CASE i \in eng.opened
    <3>1. Committed(i) \in Incident
      <4>1. eng.msg.job \in Jobs /\ Flapper \in SUBSET Jobs
        BY <1>1 DEF Txn, Event, Flapper
      <4> QED BY <2>1, <4>1 DEF Committed, Incident
    <3> QED BY <2>1, <3>1, NoneIsNothing DEF Committed
  <2>2. CASE i \notin eng.opened
    <3>1. incs[i] \in Incident /\ (i \in eng.attached \/ eng.msg.job \in incs[i].jobs)
      BY <1>2, <1>3, <2>2 DEF Names
    <3>2. Committed(i) \in {incs[i],
             [incs[i] EXCEPT !.jobs = @ \cup {eng.msg.job}, !.flappers = @ \cup Flapper],
             [incs[i] EXCEPT !.status = "resolved", !.resolution = "auto"]}
          /\ (i \in eng.attached => Committed(i) =
                [incs[i] EXCEPT !.jobs = @ \cup {eng.msg.job}, !.flappers = @ \cup Flapper])
      BY <2>2 DEF Committed
    <3>3. eng.msg.job \in Committed(i).jobs
      BY ZenonT(60), <3>1, <3>2 DEF Incident
    <3>4. eng.msg.job \in Jobs /\ Flapper \in SUBSET Jobs
      BY <1>1 DEF Txn, Event, Flapper
    <3>5. Committed(i) \in Incident
      <4>1. [incs[i] EXCEPT !.jobs = @ \cup {eng.msg.job}, !.flappers = @ \cup Flapper] \in Incident
        BY <3>1, <3>4 DEF Incident
      <4>2. [incs[i] EXCEPT !.status = "resolved", !.resolution = "auto"] \in Incident
        BY <3>1 DEF Incident
      <4> QED BY <3>1, <3>2, <4>1, <4>2
    <3> QED BY <3>3, <3>5, NoneIsNothing
  <2> QED BY <2>1, <2>2
<1> QED BY <1>1, <1>2, <1>3, <1>4 DEF Tracked

\* The handling of a failure does not commit before an incident names the job, unless all
\* the rules that matched were suppressed.
THEOREM FailuresTracked == Spec => FailureIsTracked
<1>1. Init => TrackInv
  BY TypeInit DEF Init, TrackInv, RulesTracked
<1>2. TrackInv /\ [Next]_vars =>
        [Commit /\ eng.msg.new \in BAD
           /\ (\E r \in eng.rules : ~Sent(r, eng.msg.job, Cond(r, eng.flap)))
         => Tracked(eng.msg.job)]_vars
  BY CommitTracks
<1> QED BY <1>1, <1>2, TrackStep, PTL DEF Spec, FailureIsTracked

--------------------------------------------------------------------------------
(* A healthy job has no incident left                                         *)

\* The events of the queue and of the transaction.
Pending == queue \cup (IF eng = None THEN {} ELSE {eng.msg})

\* No event is newer than the newest; those that make a statement about a job do not
\* contradict the newest of it.
Heard ==
  /\ \A j \in Jobs : newest[j].n <= count /\ reached[j] <= count
  /\ \A m \in Pending : m.n <= count
  /\ \A m \in Pending : m.new # "unknown" =>
       /\ m.n <= newest[m.job].n
       /\ m.n = newest[m.job].n => m.new = newest[m.job].new

\* Only a flapping job gets an incident from an event that says it is well.
OnlyFlapping ==
  eng # None =>
    /\ eng.msg.new # "unknown"
    /\ eng.msg.new \in Good /\ ~eng.flap =>
         eng.opened = {} /\ eng.attached = {} /\ eng.joins = None

HealthyInv == TInv /\ Heard /\ OnlyFlapping /\ HealthyMeansResolved

LEMMA HealthyInit == Init => HealthyInv
<1>1. Init => Heard
  BY DEF Init, Heard, Pending
<1>2. Init => OnlyFlapping /\ HealthyMeansResolved
  BY DEF Init, OnlyFlapping, HealthyMeansResolved
<1> QED BY <1>1, <1>2, TypeInit DEF HealthyInv

LEMMA HeardStep ==
  ASSUME TInv, Heard, OnlyFlapping, [Next]_vars
  PROVE  Heard'
<1> USE DEF Heard
<1>1. Pending \subseteq Event
  BY DEF Pending, TInv, TypeOK, Txn
<1>2. CASE \E j \in Jobs, new \in Statuses : Publish(j, new)
  <2>1. PICK j \in Jobs, new \in Statuses : Publish(j, new)
    BY <1>2
  <2>2. DEFINE e == [n |-> count + 1, job |-> j, new |-> new, tries |-> 0]
  <2>3. Pending' = Pending \cup {e} /\ count' = count + 1 /\ reached' = reached /\ count \in Nat
    BY <2>1, AlertAssumption DEF Publish, Pending, TInv, TypeOK
  <2>4. newest' = IF new = "unknown" THEN newest
                  ELSE [newest EXCEPT ![j] = [n |-> count + 1, new |-> new]]
    BY <2>1 DEF Publish
  <2>5. \A k \in Jobs : newest[k].n \in Nat /\ reached[k] \in Nat
    BY AlertAssumption DEF TInv, TypeOK
  <2>6. \A k \in Jobs : newest'[k].n <= count' /\ reached'[k] <= count'
    BY <2>3, <2>4, <2>5 DEF TInv, TypeOK
  <2>7. \A m \in Pending : m.n \in Nat /\ m.job \in Jobs
    BY <1>1, AlertAssumption DEF Event
  <2>8. \A m \in Pending' : m.n <= count'
    BY <2>3, <2>7
  <2>9. ASSUME NEW m \in Pending', m.new # "unknown"
        PROVE  m.n <= newest'[m.job].n /\ (m.n = newest'[m.job].n => m.new = newest'[m.job].new)
    <3>1. CASE m = e
      BY <2>3, <2>4, <2>9, <3>1 DEF TInv, TypeOK
    <3>2. CASE m # e
      <4>1. m \in Pending /\ m.n <= count
        BY <2>3, <3>2
      <4>2. CASE m.job = j /\ new # "unknown"
        BY <2>3, <2>4, <2>7, <4>1, <4>2 DEF TInv, TypeOK
      <4>3. CASE m.job # j \/ new = "unknown"
        BY <2>4, <2>7, <2>9, <4>1, <4>3 DEF TInv, TypeOK
      <4> QED BY <4>2, <4>3
    <3> QED BY <3>1, <3>2
  <2> QED BY <2>6, <2>8, <2>9
<1>3. CASE Commit
  <2>1. eng # None /\ eng' = None /\ queue' \in {queue, Again(queue, eng.msg)}
        /\ newest' = newest /\ count' = count
        /\ reached' = [reached EXCEPT ![eng.msg.job] = IF @ < eng.msg.n THEN eng.msg.n ELSE @]
    BY <1>3 DEF Commit
  <2>2. \A j \in Jobs : reached'[j] <= count'
    BY <2>1 DEF Pending, TInv, TypeOK
  <2>3. \A m \in Pending' : \E o \in Pending : m.n = o.n /\ m.job = o.job /\ m.new = o.new
    BY <2>1, <1>1 DEF Pending, Again, Event
  <2> QED BY <2>1, <2>2, <2>3
<1>4. CASE Rollback
  <2>1. eng # None /\ eng' = None /\ queue' = Again(queue, eng.msg)
        /\ UNCHANGED <<newest, count, reached>>
    BY <1>4 DEF Rollback, ghosts
  <2>2. \A m \in Pending' : \E o \in Pending : m.n = o.n /\ m.job = o.job /\ m.new = o.new
    BY <2>1, <1>1 DEF Pending, Again, Event
  <2> QED BY <2>1, <2>2
<1>5. CASE \E m \in queue : Ignore(m) \/ Begin(m)
  <2>1. PICK m \in queue : Ignore(m) \/ Begin(m)
    BY <1>5
  <2>2. UNCHANGED <<newest, count, reached>>
    BY <2>1 DEF Ignore, Begin, ghosts
  <2>3. \A n \in Pending' : \E o \in Pending : n.n = o.n /\ n.job = o.job /\ n.new = o.new
    <3>1. CASE Ignore(m)
      BY <1>1, <3>1 DEF Ignore, Pending, Again, Event
    <3>2. CASE Begin(m)
      <4>1. queue' = queue \ {m} /\ eng'.msg = m
        BY <3>2 DEF Begin
      <4> QED BY <4>1 DEF Pending
    <3> QED BY <2>1, <3>1, <3>2
  <2> QED BY <2>2, <2>3
<1>6. CASE \E r \in Rules : Deduplicate(r) \/ Notify(r) \/ FindRelated(r) \/ Open(r)
  <2>1. UNCHANGED <<newest, count, reached, queue>> /\ eng # None /\ eng \in Txn
    BY <1>6 DEF Deduplicate, Notify, FindRelated, Open, Considering, ghosts, TInv, TypeOK
  <2>2. eng'.msg = eng.msg
    BY <1>6, <2>1 DEF Deduplicate, Notify, FindRelated, Open, Done, Txn
  <2>3. Pending' \subseteq Pending
    BY <2>1, <2>2 DEF Pending
  <2> QED BY <2>1, <2>3
<1>7. CASE Attach
  <2>1. UNCHANGED <<newest, count, reached, queue>> /\ eng # None /\ eng \in Txn
    BY <1>7 DEF Attach, ghosts, TInv, TypeOK
  <2>2. eng'.msg = eng.msg
    BY <1>7, <2>1 DEF Attach, Txn
  <2>3. Pending' \subseteq Pending
    BY <2>1, <2>2 DEF Pending
  <2> QED BY <2>1, <2>3
<1>8. CASE UNCHANGED <<queue, eng, newest, count, reached>>
  BY <1>8 DEF Pending
<1>9. CASE Handle
  BY <1>3, <1>4, <1>5, <1>6, <1>7, <1>9 DEF Handle
<1> QED
  BY <1>2, <1>8, <1>9 DEF Next, Operator, Send, Sending, GiveUp, SendOk, Retry, Idle, vars,
     ghosts, Edit, Ack, Resolve, ToggleRule, DeleteChannel, TestChannel, EditMaintenance, DeleteJob

LEMMA OnlyFlappingStep ==
  ASSUME TInv, OnlyFlapping, [Next]_vars
  PROVE  OnlyFlapping'
<1>1. ASSUME NEW m \in queue, Begin(m) PROVE OnlyFlapping'
  <2>1. /\ eng'.msg = m /\ m.new # "unknown"
        /\ eng'.opened = {} /\ eng'.attached = {} /\ eng'.joins = None
    BY <1>1 DEF Begin
  <2> QED BY <2>1 DEF OnlyFlapping
<1>2. ASSUME NEW r \in Rules, Deduplicate(r) \/ Notify(r) PROVE OnlyFlapping'
  <2>1. eng # None /\ eng \in Txn
    BY <1>2 DEF Deduplicate, Notify, Considering, TInv, TypeOK
  <2>2. /\ eng'.msg = eng.msg /\ eng'.flap = eng.flap
        /\ eng'.opened = eng.opened /\ eng'.attached = eng.attached /\ eng'.joins = eng.joins
    BY <1>2, <2>1 DEF Deduplicate, Notify, Done, Txn
  <2> QED BY <2>1, <2>2 DEF OnlyFlapping
<1>3. ASSUME NEW r \in Rules, FindRelated(r) \/ Open(r) PROVE OnlyFlapping'
  <2>1. eng # None /\ eng \in Txn /\ Needed(r)
    BY <1>3 DEF FindRelated, Open, Considering, TInv, TypeOK
  <2>2. eng'.msg = eng.msg /\ eng'.flap = eng.flap
    BY <1>3, <2>1 DEF FindRelated, Open, Done, Txn
  <2>3. eng.msg.new \in Good => eng.flap
    <3>1. Rule[r].cond # "flapping"
      BY AlertAssumption DEF RuleRow, CONDITIONS
    <3> QED BY <2>1, <3>1 DEF Needed, NeedsIncident, Cond, Good, BAD
  <2> QED BY <2>1, <2>2, <2>3 DEF OnlyFlapping
<1>4. ASSUME Attach PROVE OnlyFlapping'
  <2>1. eng # None /\ eng.joins # None /\ eng \in Txn
    BY <1>4 DEF Attach, TInv, TypeOK
  <2>2. eng'.msg = eng.msg /\ eng'.flap = eng.flap
    BY <1>4, <2>1 DEF Attach, Txn
  <2> QED BY <2>1, <2>2 DEF OnlyFlapping
<1>5. ASSUME Commit \/ Rollback PROVE OnlyFlapping'
  BY <1>5 DEF Commit, Rollback, OnlyFlapping
<1>6. ASSUME eng' = eng PROVE OnlyFlapping'
  BY <1>6 DEF OnlyFlapping
<1>7. CASE Handle
  <2>1. ASSUME NEW m \in queue, Ignore(m) PROVE OnlyFlapping'
    BY <2>1, <1>6 DEF Ignore
  <2> QED BY <1>1, <1>2, <1>3, <1>4, <1>5, <1>7, <2>1 DEF Handle
<1> QED
  BY <1>6, <1>7 DEF Next, Operator, Publish, Send, Sending, GiveUp, SendOk, Retry, Idle, vars,
     Edit, Ack, Resolve, ToggleRule, DeleteChannel, TestChannel, EditMaintenance, DeleteJob

\* The commit of an event: what it says of its own job, and what it leaves of the others.
LEMMA HealthyCommit ==
  ASSUME HealthyInv, Commit
  PROVE  HealthyMeansResolved'
<1> USE DEF HealthyInv
<1>1. /\ eng # None /\ eng \in Txn /\ incs' = [i \in Delivery |-> Committed(i)] /\ newest' = newest
      /\ reached' = [reached EXCEPT ![eng.msg.job] = IF @ < eng.msg.n THEN eng.msg.n ELSE @]
      /\ misled' = IF eng.msg.n < reached[eng.msg.job] THEN misled \cup {eng.msg.job} ELSE misled
  BY DEF Commit, TInv, TypeOK
<1>2. eng.msg \in Pending /\ eng.msg \in Event /\ eng.msg.new # "unknown"
  BY <1>1 DEF Pending, Txn, OnlyFlapping
<1> SUFFICES ASSUME NEW j \in Jobs \ misled', newest[j].new \in Good, reached'[j] = newest[j].n,
                    NEW i \in Delivery, Unresolved(i)', j \in incs'[i].jobs
             PROVE  j \in incs'[i].flappers
  BY <1>1 DEF HealthyMeansResolved, Good
<1>3. /\ Committed(i) # None /\ Committed(i).status # "resolved"
      /\ j \in Committed(i).jobs /\ incs'[i] = Committed(i)
  BY <1>1 DEF Unresolved
<1>4. incs[i] \in Incident \cup {None}
  BY DEF TInv, TypeOK
<1>5. i \notin eng.opened /\ i \in eng.attached =>
        /\ incs[i] \in Incident
        /\ Committed(i).flappers = incs[i].flappers \cup Flapper
  BY <1>1, <1>4 DEF Committed, Joined, TInv, Incident
<1>6. CASE j = eng.msg.job
  <2>1. eng.msg.n = newest[j].n
    <3>1. eng.msg.n \in Nat /\ reached[j] \in Nat /\ newest[j].n \in Nat
      BY <1>2, AlertAssumption DEF Event, TInv, TypeOK
    <3>2. eng.msg.n <= newest[j].n /\ ~(eng.msg.n < reached[j])
      BY <1>1, <1>2, <1>6 DEF Heard
    <3>3. reached'[j] = IF reached[j] < eng.msg.n THEN eng.msg.n ELSE reached[j]
      BY <1>1, <1>6 DEF TInv, TypeOK
    <3> QED BY <3>1, <3>2, <3>3
  <2>2. eng.msg.new \in Good
    BY <1>2, <1>6, <2>1 DEF Heard
  <2>3. CASE eng.flap
    <3>1. Flapper = {j}
      BY <1>6, <2>3 DEF Flapper
    <3>2. CASE i \in eng.opened
      BY <1>3, <3>1, <3>2 DEF Committed
    <3>3. CASE i \notin eng.opened /\ i \in eng.attached
      BY <1>3, <1>5, <3>1, <3>3
    <3>4. CASE i \notin eng.opened /\ i \notin eng.attached
      BY <1>3, <1>4, <1>6, <2>2, <3>4 DEF Committed, Unresolved, Incident
    <3> QED BY <3>2, <3>3, <3>4
  <2>4. CASE ~eng.flap
    <3>1. i \notin eng.opened /\ i \notin eng.attached
      BY <1>1, <2>2, <2>4 DEF OnlyFlapping
    <3> QED BY <1>3, <1>4, <1>6, <2>2, <3>1 DEF Committed, Unresolved, Incident
  <2> QED BY <2>3, <2>4
<1>7. CASE j # eng.msg.job
  <2>1. Unresolved(i) /\ j \in incs[i].jobs
    BY <1>1, <1>3, <1>7, CommittedWas
  <2>2. reached[j] = newest[j].n /\ j \notin misled
    BY <1>1, <1>7 DEF TInv, TypeOK
  <2>3. j \in incs[i].flappers
    BY <2>1, <2>2 DEF HealthyMeansResolved, Good
  <2>4. i \notin eng.opened
    BY <1>3, <1>7 DEF Committed
  <2>5. CASE i \in eng.attached
    BY <1>3, <1>5, <2>3, <2>4, <2>5
  <2>6. CASE i \notin eng.attached
    BY <1>3, <1>4, <2>3, <2>4, <2>6 DEF Committed, Incident
  <2> QED BY <2>5, <2>6
<1> QED BY <1>6, <1>7

LEMMA HealthyStep == HealthyInv /\ [Next]_vars => HealthyInv'
<1> SUFFICES ASSUME HealthyInv, [Next]_vars PROVE HealthyMeansResolved'
  BY TypeStep, HeardStep, OnlyFlappingStep DEF HealthyInv
<1> USE DEF HealthyInv
<1>1. CASE Commit
  BY <1>1, HealthyCommit
<1>2. CASE \E j \in Jobs, new \in Statuses : Publish(j, new)
  <2>1. PICK j \in Jobs, new \in Statuses : Publish(j, new)
    BY <1>2
  <2>2. /\ UNCHANGED <<incs, reached, misled>> /\ count \in Nat
        /\ newest' = IF new = "unknown" THEN newest
                     ELSE [newest EXCEPT ![j] = [n |-> count + 1, new |-> new]]
    BY <2>1, AlertAssumption DEF Publish, TInv, TypeOK
  <2>3. \A k \in Jobs : reached[k] \in Nat /\ reached[k] <= count
    BY AlertAssumption DEF Heard, TInv, TypeOK
  <2>4. \A k \in Jobs : newest'[k] = newest[k] \/ newest'[k].n # reached'[k]
    BY <2>2, <2>3 DEF TInv, TypeOK
  <2> QED BY <2>2, <2>4 DEF HealthyMeansResolved, Unresolved
<1>3. CASE \E i \in Delivery : Ack(i) \/ Resolve(i)
  <2>1. PICK i \in Delivery : Ack(i) \/ Resolve(i)
    BY <1>3
  <2>2. incs[i] \in Incident /\ UNCHANGED <<newest, reached, misled>>
    BY <2>1 DEF Ack, Resolve, Unresolved, TInv, TypeOK, ghosts
  <2>3. \A a \in Delivery : Unresolved(a)' =>
          Unresolved(a) /\ incs'[a].jobs = incs[a].jobs /\ incs'[a].flappers = incs[a].flappers
    <3> SUFFICES ASSUME NEW a \in Delivery, Unresolved(a)'
                 PROVE  /\ Unresolved(a) /\ incs'[a].jobs = incs[a].jobs
                        /\ incs'[a].flappers = incs[a].flappers
      OBVIOUS
    <3>1. incs \in [Delivery -> Incident \cup {None}]
      BY DEF TInv, TypeOK
    <3>2. CASE a = i
      BY <2>1, <2>2, <3>1, <3>2 DEF Ack, Resolve, Unresolved, Incident
    <3>3. CASE a # i
      BY <2>1, <3>1, <3>3 DEF Ack, Resolve, Unresolved
    <3> QED BY <3>2, <3>3
  <2> QED BY <2>2, <2>3 DEF HealthyMeansResolved
<1>4. CASE UNCHANGED <<incs, newest, reached, misled>>
  BY <1>4 DEF HealthyMeansResolved, Unresolved
<1> QED
  BY <1>1, <1>2, <1>3, <1>4 DEF Next, Handle, Ignore, Begin, Deduplicate, Notify, FindRelated,
     Open, Considering, Attach, Rollback, Operator, Send, Sending, GiveUp, SendOk, Retry, Idle,
     vars, ghosts, Edit, ToggleRule, DeleteChannel, TestChannel, EditMaintenance, DeleteJob

\* Once the last statement about a job has been handled and says it is well, only an incident
\* it was flapping in is left unresolved.
THEOREM HealthyResolved == Spec => []HealthyMeansResolved
<1>1. HealthyInv => HealthyMeansResolved
  BY DEF HealthyInv
<1> QED BY <1>1, HealthyInit, HealthyStep, PTL DEF Spec
================================================================================
