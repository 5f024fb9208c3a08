-------------------------- MODULE SignalExportProofs --------------------------
(***************************************************************************)
(* SignalExport for all sources, destinations and limits: every variable    *)
(* keeps its type, a source is made a signal once unless its fan-out broke  *)
(* off or it was settled again, the mark leaves no settled slot behind, and *)
(* a delivery that was queued is done, has a task, or ended in a way that   *)
(* has a name.                                                              *)
(***************************************************************************)
EXTENDS SignalExport, TLAPS

Steps == {"queued", "posting", "answered", "failed"}

TypedTask == [sig : Signals, dest : Dests, tries : 0 .. MaxAttempts, step : Steps]

Status == {None, "pending", "sent", "failed", "dead"}

Switch == [exists : BOOLEAN, enabled : BOOLEAN, failures : 0 .. AutoDisableAfter]

Clocks ==
  /\ now \in 1 .. MaxTime /\ mark \in 0 .. now
  /\ settled \in [Slots -> 0 .. now] /\ told \in [Slots -> 0 .. now]
  /\ faults \in 0 .. MaxFaults /\ copies \in [Sources -> Nat]

\* How often a source that nothing broke off may have been made a signal: a message once it is
\* acknowledged, a slot once the mark has passed it, and once more if it was overwritten.
Allowed(e) ==
  IF e \in Messages THEN IF e \in stream THEN 0 ELSE 1
  ELSE IF e \in Slots
       THEN (IF e \in overwritten THEN 1 ELSE 0) + (IF settled[e] \in 1 .. mark THEN 1 ELSE 0)
       ELSE 0

\* Each fan-out beyond that broke off or was not acknowledged, and was a fault.
CopiesBound ==
  /\ \A e \in Sources : copies[e] <= faults + Allowed(e)
  /\ \A e \in Sources \ repeated : copies[e] <= Allowed(e)
  /\ overwritten \subseteq Slots

DeliveryTypes ==
  /\ tasks \subseteq TypedTask
  /\ due \subseteq Signals \X Dests
  /\ DOMAIN rows = Signals \X Dests /\ \A p \in DOMAIN rows : rows[p] \in Status
  /\ dests \in [Dests -> Switch]

TInv == Clocks /\ CopiesBound /\ DeliveryTypes

--------------------------------------------------------------------------------
(* Signals are counted                                                        *)

\* One more copy of the sources of a set.
LEMMA CountedType ==
  ASSUME copies \in [Sources -> Nat], NEW E
  PROVE  /\ Counted(E) \in [Sources -> Nat]
         /\ \A e \in Sources : Counted(E)[e] = IF e \in E THEN copies[e] + 1 ELSE copies[e]
BY DEF Counted

\* The queries of poll_incidents name columns that are not there: nothing comes of the round
\* after the slots.
LEMMA RestIsNothing == RestOfRound = {}
BY DEF RestOfRound, NoteColumns, Columns

\* The mark does not move back, not beyond now, and to no earlier than what was polled.
LEMMA MarkMoves ==
  ASSUME Clocks, NEW B \in SUBSET Slots, \A b \in B : Pending(b), MarkAfter(B)
  PROVE  /\ mark' \in 0 .. now /\ mark <= mark'
         /\ \A b \in B : settled[b] <= mark'
BY DEF MarkAfter, Clocks, Pending

\* Tasks are nothing to the database, the stream and the exporter.
LEMMA TasksApart ==
  ASSUME NEW t \in tasks, Deliver(t) \/ Breaks(t)
  PROVE  UNCHANGED <<world, export>> /\ UNCHANGED due /\ (faults' = faults \/ Fault)
BY DEF Deliver, Breaks, Drop, Attempt, PostOk, PostFails, Sent, Retry, Die, SentRaises, Raises,
       WorkerDies, TaskKilled

LEMMA ClocksStep == Clocks /\ [Next]_vars => Clocks'
<1> SUFFICES ASSUME Clocks, [Next]_vars PROVE Clocks'
  OBVIOUS
<1> USE DEF Clocks
<1>a. MaxTime \in Nat /\ MaxFaults \in Nat
  BY ExportAssumption
<1>1. CASE Tick
  BY <1>1, <1>a DEF Tick, export
<1>2. ASSUME NEW s \in Slots, Settle(s) \/ Overwrite(s) PROVE Clocks'
  BY <1>2 DEF Settle, Overwrite
<1>3. ASSUME NEW e \in Notes \cup Agents, Note(e) PROVE Clocks'
  BY <1>3 DEF Note, export
<1>4. ASSUME NEW m \in Messages, Consume(m) PROVE Clocks'
  BY <1>4, <1>a, CountedType DEF Consume, world
<1>5. CASE Poll
  <2>1. PICK B \in SUBSET Slots :
          /\ IsBatch(B) /\ MarkAfter(B) /\ copies' = Counted(B \cup RestOfRound)
          /\ told' = [s \in Slots |-> IF s \in B THEN settled[s] ELSE told[s]]
          /\ UNCHANGED <<world, faults>>
    BY <1>5 DEF Poll
  <2>2. mark' \in 0 .. now
    BY <2>1, MarkMoves DEF IsBatch
  <2> QED BY <2>1, <2>2, CountedType DEF world
<1>6. CASE PollBreaks
  <2>1. PICK C \in SUBSET Slots :
          /\ copies' = Counted(C) /\ faults < MaxFaults /\ faults' = faults + 1
          /\ told' = [s \in Slots |-> IF s \in C THEN settled[s] ELSE told[s]]
          /\ UNCHANGED <<world, mark>>
    BY <1>6 DEF PollBreaks
  <2> QED BY <2>1, <1>a, CountedType DEF world
<1>7. CASE Restart
  BY <1>7, <1>a DEF Restart, world
<1>8. ASSUME NEW t \in tasks, Deliver(t) \/ Breaks(t) PROVE Clocks'
  BY <1>8, <1>a, TasksApart DEF world, export, Fault
<1>9. ASSUME NEW d \in Dests, UpdateDestination(d) \/ DeleteDestination(d) PROVE Clocks'
  BY <1>9 DEF UpdateDestination, DeleteDestination, Edit, world, export
<1>10. CASE Idle \/ UNCHANGED vars
  BY <1>10 DEF Idle, vars
<1> QED BY <1>1, <1>2, <1>3, <1>4, <1>5, <1>6, <1>7, <1>8, <1>9, <1>10 DEF Next, World

\* What is allowed is a small number, and no less when the sources' own state has moved on.
LEMMA AllowedType == ASSUME NEW e PROVE Allowed(e) \in 0 .. 2
BY DEF Allowed

LEMMA AllowedSame ==
  ASSUME NEW e, UNCHANGED <<stream, overwritten, settled, mark>>
  PROVE  Allowed(e)' = Allowed(e)
BY DEF Allowed

\* A step makes a signal of a source only where one more is allowed afterwards, or where it
\* broke off.
CountStep(e) ==
  \/ copies'[e] = copies[e] /\ Allowed(e)' >= Allowed(e)
  \/ copies'[e] = copies[e] + 1 /\ Allowed(e)' >= Allowed(e) + 1
  \/ copies'[e] = copies[e] + 1 /\ Allowed(e)' >= Allowed(e) /\ e \in repeated' /\ faults' = faults + 1

Count ==
  /\ \A e \in Sources : CountStep(e)
  /\ repeated \subseteq repeated' /\ faults' >= faults /\ overwritten' \subseteq Slots

LEMMA CountSteps ==
  ASSUME Clocks, CopiesBound, [Next]_vars
  PROVE  Count
<1> USE DEF Count
<1>a. /\ Messages \cap Slots = {} /\ (Messages \cup Slots) \cap (Notes \cup Agents) = {}
  BY ExportAssumption
<1>b. /\ copies \in [Sources -> Nat] /\ faults \in Nat /\ mark \in Nat /\ now \in Nat /\ mark <= now
      /\ settled \in [Slots -> Nat] /\ \A s \in Slots : settled[s] <= now
      /\ overwritten \subseteq Slots
  BY DEF Clocks, CopiesBound
<1>c. \A e : Allowed(e) \in Int
  BY AllowedType
<1>1. ASSUME UNCHANGED <<stream, overwritten, settled, mark, copies, repeated>>, faults' >= faults
      PROVE  Count
  BY <1>1, <1>b, <1>c, AllowedSame DEF CountStep
<1>2. ASSUME NEW s \in Slots, Settle(s) \/ Overwrite(s) PROVE Count
  <2>1. /\ UNCHANGED <<stream, mark, copies, repeated, faults>>
        /\ \A q \in Slots \ {s} : settled'[q] = settled[q]
        /\ \/ overwritten' = overwritten /\ settled[s] = 0
           \/ overwritten' = overwritten \cup {s} /\ s \notin overwritten
    BY <1>2, <1>b DEF Settle, Overwrite
  <2>2. \A e \in Sources : Allowed(e)' >= Allowed(e)
    BY <2>1, <1>a, <1>b DEF Allowed
  <2> QED BY <2>1, <2>2, <1>b DEF CountStep
<1>3. ASSUME NEW m \in Messages, Consume(m) PROVE Count
  <2>1. /\ m \in stream /\ copies' = Counted({m})
        /\ \/ stream' = stream \ {m} /\ repeated' = repeated /\ faults' = faults
           \/ stream' = stream /\ repeated' = repeated \cup {m} /\ faults' = faults + 1
        /\ UNCHANGED <<settled, overwritten, mark>>
    BY <1>3 DEF Consume, world
  <2>2. \A e \in Sources : copies'[e] = IF e = m THEN copies[e] + 1 ELSE copies[e]
    BY <2>1, <1>b, CountedType
  <2>3. \A e \in Sources : e # m => Allowed(e)' = Allowed(e)
    BY <2>1 DEF Allowed
  <2>4. /\ m \in stream' => Allowed(m)' = Allowed(m)
        /\ m \notin stream' => Allowed(m)' = Allowed(m) + 1
    BY <2>1 DEF Allowed
  <2>5. ASSUME NEW e \in Sources PROVE CountStep(e)
    <3>1. CASE e = m
      BY <2>1, <2>2, <2>4, <3>1, <1>b, <1>c DEF CountStep
    <3>2. CASE e # m
      BY <2>2, <2>3, <3>2, <1>c DEF CountStep
    <3> QED BY <3>1, <3>2
  <2> QED BY <2>1, <2>5, <1>b
<1>4. CASE Poll
  <2>1. PICK B \in SUBSET Slots :
          /\ IsBatch(B) /\ MarkAfter(B) /\ copies' = Counted(B)
          /\ UNCHANGED <<world, stream, repeated, faults>>
    BY <1>4, RestIsNothing DEF Poll
  <2>2. /\ mark' \in Nat /\ mark <= mark'
        /\ \A b \in B : settled[b] <= mark' /\ settled[b] > mark
    BY <2>1, MarkMoves, <1>b DEF IsBatch, Pending
  <2>3. \A e \in Sources : copies'[e] = IF e \in B THEN copies[e] + 1 ELSE copies[e]
    BY <2>1, <1>b, CountedType
  <2>4. \A e \in Sources : Allowed(e)' >= IF e \in B THEN Allowed(e) + 1 ELSE Allowed(e)
    BY <2>1, <2>2, <1>a, <1>b DEF Allowed, world
  <2> QED BY <2>1, <2>3, <2>4, <1>b, <1>c DEF CountStep, world
<1>5. CASE PollBreaks
  <2>1. PICK C \in SUBSET Slots :
          /\ copies' = Counted(C) /\ repeated' = repeated \cup C /\ faults' = faults + 1
          /\ UNCHANGED <<world, mark, stream>>
    BY <1>5 DEF PollBreaks
  <2>2. \A e \in Sources : copies'[e] = IF e \in C THEN copies[e] + 1 ELSE copies[e]
    BY <2>1, <1>b, CountedType
  <2>3. \A e \in Sources : Allowed(e)' = Allowed(e)
    BY <2>1, AllowedSame DEF world
  <2> QED BY <2>1, <2>2, <2>3, <1>b, <1>c DEF CountStep, world
<1>6. CASE Restart
  <2>1. mark' = now /\ UNCHANGED <<world, stream, copies, repeated>> /\ faults' = faults + 1
    BY <1>6 DEF Restart
  <2>2. \A e \in Sources : Allowed(e)' >= Allowed(e)
    BY <2>1, <1>b DEF Allowed, world
  <2> QED BY <2>1, <2>2, <1>b DEF CountStep, world
<1>7. ASSUME NEW t \in tasks, Deliver(t) \/ Breaks(t) PROVE Count
  BY <1>1, <1>7, <1>b, TasksApart DEF world, export, Fault
<1>8. ASSUME NEW d \in Dests, UpdateDestination(d) \/ DeleteDestination(d) PROVE Count
  BY <1>1, <1>8, <1>b DEF UpdateDestination, DeleteDestination, Edit, world, export
<1>9. CASE Tick \/ (\E e \in Notes \cup Agents : Note(e)) \/ Idle \/ UNCHANGED vars
  BY <1>1, <1>9, <1>b DEF Tick, Note, Idle, vars, export
<1> HIDE DEF Count
<1> QED
  BY <1>2, <1>3, <1>4, <1>5, <1>6, <1>7, <1>8, <1>9 DEF Next, World

LEMMA CopiesStep == Clocks /\ CopiesBound /\ [Next]_vars => CopiesBound'
<1> SUFFICES ASSUME Clocks, CopiesBound, [Next]_vars PROVE CopiesBound'
  OBVIOUS
<1>1. /\ \A e \in Sources : CountStep(e)
      /\ repeated \subseteq repeated' /\ faults' >= faults /\ overwritten' \subseteq Slots
  BY CountSteps DEF Count
<1>2. Clocks'
  BY ClocksStep
<1>3. ASSUME NEW e \in Sources
      PROVE  /\ copies'[e] <= faults' + Allowed(e)'
             /\ e \notin repeated' => copies'[e] <= Allowed(e)'
  <2>1. /\ copies[e] \in Nat /\ faults \in Int /\ faults' \in Int
        /\ Allowed(e) \in Int /\ Allowed(e)' \in Int
    BY <1>2, AllowedType DEF Clocks, Allowed
  <2>2. /\ copies[e] <= faults + Allowed(e)
        /\ e \notin repeated => copies[e] <= Allowed(e)
    BY DEF CopiesBound
  <2> QED BY <1>1, <2>1, <2>2 DEF CountStep
<1> QED BY <1>1, <1>3 DEF CopiesBound

LEMMA CountInit == Init => Clocks /\ CopiesBound
BY ExportAssumption DEF Init, Clocks, CopiesBound, Allowed, Sources

\* A change, a slot, an incident event or an agent's status becomes one signal; a second one,
\* with an id of its own, is made only of a slot whose settling was overwritten, or when the
\* exporter's fan-out was cut short or its message came again.
THEOREM MadeOnce == Spec => []OnceUnlessRepeated
<1>1. ASSUME Clocks, CopiesBound PROVE OnceUnlessRepeated
  <2> SUFFICES ASSUME NEW e \in Sources \ repeated
               PROVE  copies[e] <= IF e \in overwritten THEN 2 ELSE 1
    BY DEF OnceUnlessRepeated
  <2>1. copies[e] <= Allowed(e) /\ copies[e] \in Nat
    BY <1>1 DEF CopiesBound, Clocks
  <2>2. Allowed(e) <= IF e \in overwritten THEN 2 ELSE 1
    BY DEF Allowed
  <2> QED BY <2>1, <2>2, AllowedType
<1> QED BY CountInit, ClocksStep, CopiesStep, <1>1, PTL DEF Spec

--------------------------------------------------------------------------------
(* Types                                                                      *)

\* The tasks of a fan-out: the copies are counted in the same step.
LEMMA FannedTasks ==
  ASSUME Clocks, NEW E \in SUBSET Sources, copies' = Counted(E), Clocks', CopiesBound'
  PROVE  Fanned(E) \subseteq TypedTask
<1> SUFFICES ASSUME NEW e \in E, NEW d \in Destinations(e)
             PROVE  [sig |-> <<e, copies[e] + 1>>, dest |-> d, tries |-> 0, step |-> "queued"] \in TypedTask
  BY DEF Fanned
<1>1. copies[e] \in Nat /\ MaxFaults \in Nat /\ MaxAttempts \in Nat
  BY ExportAssumption DEF Clocks
<1>2. copies'[e] = copies[e] + 1
  BY CountedType DEF Clocks
<1>3. copies'[e] <= MaxFaults + 2
  <2>1. copies'[e] <= faults' + Allowed(e)' /\ faults' \in 0 .. MaxFaults
    BY DEF CopiesBound, Clocks
  <2>2. Allowed(e)' \in 0 .. 2
    BY DEF Allowed
  <2> QED BY <2>1, <2>2, <1>1, <1>2
<1>4. copies[e] + 1 \in 1 .. MaxFaults + 2 /\ 0 \in 0 .. MaxAttempts
  BY <1>1, <1>2, <1>3
<1>5. <<e, copies[e] + 1>> \in Signals
  BY <1>4 DEF Signals
<1>6. d \in Dests
  BY DEF Destinations
<1> QED BY <1>4, <1>5, <1>6 DEF TypedTask, Steps

LEMMA QueueTypes ==
  ASSUME DeliveryTypes, NEW T, T \subseteq TypedTask, Queue(T), UNCHANGED <<rows, dests>>
  PROVE  DeliveryTypes'
<1>1. \A t \in T : <<t.sig, t.dest>> \in Signals \X Dests
  BY DEF TypedTask
<1> QED BY <1>1 DEF DeliveryTypes, Queue

\* A switch stays one whatever is set of it.
LEMMA SwitchTypes ==
  ASSUME DeliveryTypes, NEW d \in Dests
  PROVE  /\ \A n \in 0 .. AutoDisableAfter : [dests EXCEPT ![d].failures = n] \in [Dests -> Switch]
         /\ \A b \in BOOLEAN : [dests EXCEPT ![d].exists = b] \in [Dests -> Switch]
         /\ \A n \in 0 .. AutoDisableAfter, b \in BOOLEAN :
              [dests EXCEPT ![d].failures = n, ![d].enabled = b] \in [Dests -> Switch]
<1>1. dests \in [Dests -> [exists : BOOLEAN, enabled : BOOLEAN, failures : 0 .. AutoDisableAfter]]
  BY DEF DeliveryTypes, Switch
<1>2. ASSUME NEW n \in 0 .. AutoDisableAfter
      PROVE  /\ [dests EXCEPT ![d].failures = n]
                  \in [Dests -> [exists : BOOLEAN, enabled : BOOLEAN, failures : 0 .. AutoDisableAfter]]
             /\ \A b \in BOOLEAN : [dests EXCEPT ![d].failures = n, ![d].enabled = b]
                  \in [Dests -> [exists : BOOLEAN, enabled : BOOLEAN, failures : 0 .. AutoDisableAfter]]
  BY <1>1
<1>3. ASSUME NEW b \in BOOLEAN
      PROVE  [dests EXCEPT ![d].exists = b]
               \in [Dests -> [exists : BOOLEAN, enabled : BOOLEAN, failures : 0 .. AutoDisableAfter]]
  BY <1>1
<1> QED BY <1>2, <1>3 DEF Switch

LEMMA BecomesTypes ==
  ASSUME NEW t \in TypedTask, NEW step \in Steps
  PROVE  LET u == [t EXCEPT !.step = step]
         IN  u \in TypedTask /\ Delivery(u) = Delivery(t) /\ u.step = step
BY DEF TypedTask, Delivery

LEMMA AgainTypes ==
  ASSUME NEW t \in TypedTask, ~Final(t)
  PROVE  LET u == [t EXCEPT !.tries = @ + 1, !.step = "queued"]
         IN  u \in TypedTask /\ Delivery(u) = Delivery(t) /\ u.step = "queued"
<1>1. MaxAttempts \in Nat /\ t.tries \in 0 .. MaxAttempts
  BY ExportAssumption DEF TypedTask
<1>2. t.tries + 1 \in 0 .. MaxAttempts
  BY <1>1 DEF Final
<1> QED BY <1>2 DEF TypedTask, Delivery, Steps

\* What a mark does to the rows: that of the delivery, if there is one, gets the status.
LEMMA MarkedRows ==
  ASSUME DeliveryTypes, NEW t \in tasks, NEW v \in Status \ {None}, Marked(t, v)
  PROVE  /\ DOMAIN rows' = DOMAIN rows /\ \A p \in DOMAIN rows : rows'[p] \in Status
         /\ \A p \in DOMAIN rows : p # Delivery(t) => rows'[p] = rows[p]
         /\ \A p \in DOMAIN rows : rows[p] # None => rows'[p] # None
         /\ Delivery(t) \in DOMAIN rows
         /\ rows[Delivery(t)] # None => rows'[Delivery(t)] = v
<1>1. Delivery(t) \in DOMAIN rows
  BY DEF DeliveryTypes, TypedTask, Delivery
<1>2. CASE rows' = [rows EXCEPT ![Delivery(t)] = v] /\ rows[Delivery(t)] # None
  BY <1>1, <1>2 DEF DeliveryTypes
<1>3. CASE rows' = rows /\ rows[Delivery(t)] = None
  BY <1>1, <1>3 DEF DeliveryTypes
<1> QED BY <1>2, <1>3 DEF Marked

\* What one step does for the delivery of a task: the other deliveries stand, and that of the
\* task is done, or has a task again, or its end has a name.
Handed(t) ==
  /\ UNCHANGED due /\ tasks \ {t} \subseteq tasks' /\ tasks' \subseteq TypedTask
  /\ DOMAIN rows' = DOMAIN rows /\ \A p \in DOMAIN rows : rows'[p] \in Status
  /\ \A p \in DOMAIN rows : p # Delivery(t) => rows'[p] = rows[p]
  /\ \A p \in DOMAIN rows : rows[p] # None => rows'[p] # None
  /\ dests' \in [Dests -> Switch] /\ \A d \in Dests : dests'[d].exists = dests[d].exists
  /\ dropped \subseteq dropped' /\ lost \subseteq lost'
  /\ \A u \in tasks' \ tasks :
       /\ Delivery(u) = Delivery(t)
       /\ u.step # "queued" => t.step # "queued" \/ rows'[Delivery(t)] # None
  /\ \/ \E u \in tasks' : Delivery(u) = Delivery(t)
     \/ Delivery(t) \in dropped' \cup lost'
     \/ t.step # "queued" /\ (rows[Delivery(t)] # None => rows'[Delivery(t)] \in {"sent", "dead"})

LEMMA MarkedHands ==
  ASSUME DeliveryTypes, NEW t \in tasks,
         MarkSent(t) \/ MarkFailed(t) \/ MarkDead(t) \/ UNCHANGED <<rows, dests>>
  PROVE  /\ DOMAIN rows' = DOMAIN rows /\ \A p \in DOMAIN rows : rows'[p] \in Status
         /\ \A p \in DOMAIN rows : p # Delivery(t) => rows'[p] = rows[p]
         /\ \A p \in DOMAIN rows : rows[p] # None => rows'[p] # None
         /\ dests' \in [Dests -> Switch] /\ \A d \in Dests : dests'[d].exists = dests[d].exists
         /\ MarkSent(t) \/ MarkDead(t) =>
              (rows[Delivery(t)] # None => rows'[Delivery(t)] \in {"sent", "dead"})
<1>1. t \in TypedTask /\ t.dest \in Dests /\ dests \in [Dests -> Switch]
  BY DEF DeliveryTypes, TypedTask
<1>2. {"sent", "failed", "dead"} \subseteq Status \ {None}
  BY ExportAssumption DEF Status
<1>3. CASE UNCHANGED <<rows, dests>> /\ ~MarkSent(t) /\ ~MarkDead(t)
  BY <1>1, <1>3 DEF DeliveryTypes
<1>4. CASE MarkSent(t)
  <2>1. Marked(t, "sent") /\ dests' = [dests EXCEPT ![t.dest].failures = 0] /\ t.step = "answered"
    BY <1>4 DEF MarkSent
  <2>2. dests' \in [Dests -> Switch] /\ \A d \in Dests : dests'[d].exists = dests[d].exists
    BY <1>1, <2>1, ExportAssumption DEF Switch
  <2> QED BY <1>2, <2>1, <2>2, MarkedRows
<1>5. CASE MarkFailed(t)
  <2>1. Marked(t, "failed") /\ UNCHANGED dests /\ t.step = "failed" /\ ~Final(t)
    BY <1>5 DEF MarkFailed
  <2>2. ~MarkSent(t) /\ ~MarkDead(t)
    BY <2>1 DEF MarkSent, MarkDead
  <2> QED BY <1>1, <1>2, <2>1, <2>2, MarkedRows
<1>6. CASE MarkDead(t)
  <2>a. PICK n \in 0 .. AutoDisableAfter :
          n = IF dests[t.dest].failures < AutoDisableAfter THEN dests[t.dest].failures + 1
              ELSE dests[t.dest].failures
    <3>1. dests[t.dest].failures \in 0 .. AutoDisableAfter
      BY <1>1 DEF Switch
    <3> QED BY <3>1, ExportAssumption
  <2>b. PICK b \in BOOLEAN : b = (dests[t.dest].enabled /\ dests[t.dest].failures + 1 < AutoDisableAfter)
    OBVIOUS
  <2>1. Marked(t, "dead") /\ dests' = [dests EXCEPT ![t.dest].failures = n, ![t.dest].enabled = b]
    BY <1>6, <2>a, <2>b DEF MarkDead
  <2>2. dests' \in [Dests -> Switch] /\ \A d \in Dests : dests'[d].exists = dests[d].exists
    BY <1>1, <2>1 DEF Switch
  <2> QED BY <1>2, <2>1, <2>2, MarkedRows
<1> QED BY <1>3, <1>4, <1>5, <1>6

\* A task makes way for its successor.
LEMMA Succeeds ==
  ASSUME DeliveryTypes, NEW t \in tasks, NEW u \in TypedTask, Delivery(u) = Delivery(t),
         tasks' = (tasks \ {t}) \cup {u}
  PROVE  /\ tasks \ {t} \subseteq tasks' /\ tasks' \subseteq TypedTask
         /\ \E v \in tasks' : Delivery(v) = Delivery(t)
         /\ \A v \in tasks' \ tasks : v = u
BY DEF DeliveryTypes

LEMMA Hands ==
  ASSUME DeliveryTypes, NEW t \in tasks, Deliver(t) \/ Breaks(t)
  PROVE  Handed(t)
<1>a. t \in TypedTask /\ Delivery(t) \in DOMAIN rows /\ {"queued", "posting", "answered", "failed"} \subseteq Steps
  BY DEF DeliveryTypes, TypedTask, Delivery, Steps
<1>b. UNCHANGED due /\ tasks \ {t} \subseteq tasks /\ tasks \subseteq TypedTask
  BY TasksApart DEF DeliveryTypes
<1>1. ASSUME UNCHANGED <<rows, dests, dropped, lost>>, NEW u \in TypedTask, Delivery(u) = Delivery(t),
             tasks' = (tasks \ {t}) \cup {u}, u.step = "queued" \/ t.step # "queued"
      PROVE  Handed(t)
  BY <1>1, <1>b, Succeeds DEF Handed, DeliveryTypes
<1>2. CASE Drop(t)
  BY <1>2, <1>b DEF Drop, Handed, DeliveryTypes
<1>3. CASE Attempt(t)
  <2>1. PICK u \in TypedTask : u = [t EXCEPT !.step = "posting"] /\ Delivery(u) = Delivery(t)
    BY <1>a, BecomesTypes
  <2>2. tasks' = (tasks \ {t}) \cup {u} /\ UNCHANGED <<dests, dropped, lost>>
    BY <1>3, <2>1 DEF Attempt, Becomes
  <2>3. /\ DOMAIN rows' = DOMAIN rows /\ \A p \in DOMAIN rows : rows'[p] \in Status
        /\ \A p \in DOMAIN rows : p # Delivery(t) => rows'[p] = rows[p]
        /\ \A p \in DOMAIN rows : rows[p] # None => rows'[p] # None
        /\ rows'[Delivery(t)] # None
    <3>1. "pending" \in Status /\ "pending" # None
      BY ExportAssumption DEF Status
    <3>2. CASE rows[Delivery(t)] = None /\ rows' = [rows EXCEPT ![Delivery(t)] = "pending"]
      BY <1>a, <3>1, <3>2 DEF DeliveryTypes
    <3>3. CASE rows[Delivery(t)] # None /\ rows' = rows
      BY <1>a, <3>3 DEF DeliveryTypes
    <3> QED BY <1>3, <3>2, <3>3 DEF Attempt
  <2> QED BY <1>b, <2>1, <2>2, <2>3, Succeeds DEF Handed, DeliveryTypes
<1>4. CASE PostOk(t) \/ PostFails(t) \/ SentRaises(t)
  <2>1. /\ \E step \in Steps : Becomes(t, step)
        /\ t.step # "queued" /\ UNCHANGED <<rows, dests, dropped, lost>>
    BY <1>a, <1>4 DEF PostOk, PostFails, SentRaises, deliver
  <2> QED BY <1>a, <1>1, <2>1, BecomesTypes DEF Becomes
<1>5. CASE Sent(t) \/ Die(t)
  <2>1. tasks' = tasks \ {t} /\ UNCHANGED <<dropped, lost>> /\ (MarkSent(t) \/ MarkDead(t)) /\ t.step # "queued"
    BY <1>5 DEF Sent, Die, MarkSent, MarkDead
  <2>2. rows[Delivery(t)] # None => rows'[Delivery(t)] \in {"sent", "dead"}
    BY <2>1, MarkedHands
  <2> QED BY <1>a, <1>b, <2>1, <2>2, MarkedHands DEF Handed
<1>6. CASE Retry(t)
  <2>1. MarkFailed(t) /\ Again(t) /\ UNCHANGED <<dropped, lost>>
    BY <1>6 DEF Retry
  <2>2. PICK u \in TypedTask : /\ u = [t EXCEPT !.tries = @ + 1, !.step = "queued"]
                               /\ Delivery(u) = Delivery(t) /\ u.step = "queued"
    BY <1>a, <2>1, AgainTypes DEF MarkFailed
  <2>3. tasks' = (tasks \ {t}) \cup {u}
    BY <2>1, <2>2 DEF Again
  <2> QED BY <1>a, <1>b, <2>1, <2>2, <2>3, MarkedHands, Succeeds DEF Handed
<1>7. CASE Raises(t)
  <2>1. UNCHANGED <<rows, dropped, dests>>
    BY <1>7 DEF Raises
  <2>2. CASE Final(t)
    BY <1>7, <1>b, <2>1, <2>2 DEF Raises, Handed, DeliveryTypes
  <2>3. CASE ~Final(t)
    BY <1>a, <1>7, <1>1, <2>1, <2>3, AgainTypes DEF Raises, Again
  <2> QED BY <2>2, <2>3
<1>8. CASE WorkerDies(t)
  <2>1. PICK u \in TypedTask : /\ u = [t EXCEPT !.step = "queued"]
                               /\ Delivery(u) = Delivery(t) /\ u.step = "queued"
    BY <1>a, BecomesTypes
  <2>2. /\ tasks' = (tasks \ {t}) \cup {u} /\ UNCHANGED <<dropped, lost>>
        /\ MarkSent(t) \/ MarkFailed(t) \/ MarkDead(t) \/ UNCHANGED <<rows, dests>>
    BY <1>8, <2>1 DEF WorkerDies, Becomes
  <2> QED BY <1>a, <1>b, <2>1, <2>2, MarkedHands, Succeeds DEF Handed
<1>9. CASE TaskKilled(t)
  BY <1>9, <1>b DEF TaskKilled, Handed, DeliveryTypes
<1> QED
  BY <1>2, <1>3, <1>4, <1>5, <1>6, <1>7, <1>8, <1>9 DEF Deliver, Breaks

LEMMA DeliveryTypesStep == TInv /\ [Next]_vars => DeliveryTypes'
<1> SUFFICES ASSUME TInv, [Next]_vars PROVE DeliveryTypes'
  OBVIOUS
<1>a. Clocks /\ Clocks' /\ CopiesBound' /\ DeliveryTypes
  BY ClocksStep, CopiesStep DEF TInv
<1>1. CASE UNCHANGED <<tasks, due, rows, dests>>
  BY <1>1, <1>a DEF DeliveryTypes
<1>2. ASSUME NEW m \in Messages, Consume(m) PROVE DeliveryTypes'
  <2>1. copies' = Counted({m}) /\ Queue(Fanned({m})) /\ UNCHANGED <<rows, dests>>
    BY <1>2 DEF Consume, deliver
  <2>2. {m} \in SUBSET Sources
    BY DEF Sources
  <2> QED BY <1>a, <2>1, <2>2, FannedTasks, QueueTypes
<1>3. CASE Poll
  <2>1. PICK B \in SUBSET Slots :
          copies' = Counted(B) /\ Queue(Fanned(B)) /\ UNCHANGED <<rows, dests>>
    BY <1>3, RestIsNothing DEF Poll, deliver
  <2>2. B \in SUBSET Sources
    BY DEF Sources
  <2> QED BY <1>a, <2>1, <2>2, FannedTasks, QueueTypes
<1>4. CASE PollBreaks
  <2>1. PICK C \in SUBSET Slots :
          /\ copies' = Counted(C) /\ \E T \in SUBSET Fanned(C) : Queue(T)
          /\ UNCHANGED <<rows, dests>>
    BY <1>4 DEF PollBreaks, deliver
  <2>2. C \in SUBSET Sources
    BY DEF Sources
  <2>3. Fanned(C) \subseteq TypedTask
    BY <1>a, <2>1, <2>2, FannedTasks
  <2> QED BY <1>a, <2>1, <2>3, QueueTypes
<1>5. ASSUME NEW t \in tasks, Deliver(t) \/ Breaks(t) PROVE DeliveryTypes'
  BY <1>5, <1>a, Hands DEF Handed, DeliveryTypes
<1>6. ASSUME NEW d \in Dests, UpdateDestination(d) PROVE DeliveryTypes'
  <2>1. /\ UNCHANGED <<tasks, due, rows>>
        /\ \E on \in BOOLEAN : dests' = [dests EXCEPT ![d].failures = 0, ![d].enabled = on]
    BY <1>6 DEF UpdateDestination, Edit
  <2>2. 0 \in 0 .. AutoDisableAfter
    BY ExportAssumption
  <2>3. dests' \in [Dests -> Switch]
    BY <1>a, <2>1, <2>2, SwitchTypes
  <2> QED BY <1>a, <2>1, <2>3 DEF DeliveryTypes
<1>7. ASSUME NEW d \in Dests, DeleteDestination(d) PROVE DeliveryTypes'
  <2>1. /\ UNCHANGED <<tasks, due>> /\ dests' = [dests EXCEPT ![d].exists = FALSE]
        /\ rows' = [p \in DOMAIN rows |-> IF p[2] = d THEN None ELSE rows[p]]
    BY <1>7 DEF DeleteDestination, Edit
  <2>2. dests' \in [Dests -> Switch]
    BY <1>a, <2>1, SwitchTypes
  <2> QED BY <1>a, <2>1, <2>2 DEF DeliveryTypes, Status
<1>8. CASE World \/ Restart \/ Idle \/ UNCHANGED vars
  BY <1>1, <1>8 DEF World, Tick, Settle, Overwrite, Note, Restart, Idle, vars, deliver
<1> QED BY <1>2, <1>3, <1>4, <1>5, <1>6, <1>7, <1>8 DEF Next

LEMMA TInvInit == Init => TInv
<1> SUFFICES ASSUME Init PROVE DeliveryTypes
  BY CountInit DEF TInv
<1> QED BY ExportAssumption DEF Init, DeliveryTypes, Status, Switch

LEMMA TInvStep == TInv /\ [Next]_vars => TInv'
BY ClocksStep, CopiesStep, DeliveryTypesStep DEF TInv

\* Every variable keeps its type: a source is made a signal at most twice more than there are
\* faults, no task is retried beyond the limit, and the mark is never ahead of the clock.
THEOREM TypeCorrect == Spec => []TypeOK
<1>1. ASSUME TInv PROVE TypeOK
  <2>1. ASSUME NEW e \in Sources PROVE copies[e] \in 0 .. MaxFaults + 2
    <3>1. copies[e] \in Nat /\ faults \in 0 .. MaxFaults /\ MaxFaults \in Nat /\ Allowed(e) \in 0 .. 2
      BY <1>1, ExportAssumption, AllowedType DEF TInv, Clocks
    <3>2. copies[e] <= faults + Allowed(e)
      BY <1>1 DEF TInv, CopiesBound
    <3> QED BY <3>1, <3>2
  <2>2. /\ \A t \in tasks : /\ t.sig \in Signals /\ t.dest \in Dests /\ t.tries \in 0 .. MaxAttempts
                            /\ t.step \in {"queued", "posting", "answered", "failed"}
        /\ \A d \in Dests : dests[d].failures \in 0 .. AutoDisableAfter
    BY <1>1 DEF TInv, DeliveryTypes, TypedTask, Steps, Switch
  <2> QED BY <1>1, <2>1, <2>2 DEF TInv, Clocks, DeliveryTypes, Status, TypeOK
<1> QED BY TInvInit, TInvStep, <1>1, PTL DEF Spec


--------------------------------------------------------------------------------
(* Deliveries are accounted for                                               *)

\* A task that is past its attempt has a row, unless its destination is gone.
RowThere ==
  \A t \in tasks : t.step # "queued" => rows[Delivery(t)] # None \/ ~dests[t.dest].exists

DeliveryInv == RowThere /\ DeliveriesAccountedFor

LEMMA DeliveryInit == Init => DeliveryInv
BY DEF Init, DeliveryInv, RowThere, DeliveriesAccountedFor

\* What is queued is due and has its task; queued tasks need no row.
LEMMA QueueAccounts ==
  ASSUME TInv, DeliveryInv, NEW T, T \subseteq TypedTask, \A t \in T : t.step = "queued",
         Queue(T), UNCHANGED <<deliver, dests>>
  PROVE  DeliveryInv'
<1>1. RowThere'
  BY DEF DeliveryInv, RowThere, Queue, deliver, Delivery
<1>2. \A t \in T : t \in tasks' /\ Delivery(t) = <<t.sig, t.dest>>
  BY DEF Queue, Delivery
<1>3. \A t \in tasks : t \in tasks'
  BY DEF Queue
<1>4. \A p \in due' : p \in due \/ \E t \in T : p = <<t.sig, t.dest>>
  BY DEF Queue
<1>5. DeliveriesAccountedFor'
  <2> SUFFICES ASSUME NEW p \in due'
               PROVE  \/ rows[p] \in {"sent", "dead"} \/ ~dests[p[2]].exists
                      \/ p \in dropped \cup lost \/ \E t \in tasks' : Delivery(t) = p
    BY DEF DeliveriesAccountedFor, deliver, Delivery
  <2> QED BY <1>2, <1>3, <1>4 DEF DeliveryInv, DeliveriesAccountedFor
<1> QED BY <1>1, <1>5 DEF DeliveryInv

LEMMA FannedQueued == ASSUME NEW E, NEW t \in Fanned(E) PROVE t.step = "queued"
BY DEF Fanned

\* A step of a task hands its delivery on, and leaves the others alone.
LEMMA HandsAccount ==
  ASSUME TInv, DeliveryInv, NEW t \in tasks, Handed(t)
  PROVE  DeliveryInv'
<1>a. /\ \A u \in tasks \cup tasks' : u \in TypedTask /\ Delivery(u) \in DOMAIN rows /\ u.dest \in Dests
      /\ \A u \in tasks \cup tasks' : Delivery(u)[2] = u.dest
      /\ due \subseteq DOMAIN rows /\ \A p \in due : p[2] \in Dests
  BY DEF TInv, DeliveryTypes, Handed, TypedTask, Delivery
<1>1. RowThere'
  <2> SUFFICES ASSUME NEW u \in tasks', u.step # "queued"
               PROVE  rows'[Delivery(u)] # None \/ ~dests'[u.dest].exists
    BY DEF RowThere, Delivery
  <2>1. CASE u \in tasks
    BY <1>a, <2>1 DEF DeliveryInv, RowThere, Handed
  <2>2. CASE u \notin tasks
    <3>1. Delivery(u) = Delivery(t) /\ u.dest = t.dest
          /\ (t.step # "queued" \/ rows'[Delivery(t)] # None)
      BY <1>a, <2>2 DEF Handed
    <3> QED BY <1>a, <3>1 DEF DeliveryInv, RowThere, Handed
  <2> QED BY <2>1, <2>2
<1>2. DeliveriesAccountedFor'
  <2> SUFFICES ASSUME NEW p \in due
               PROVE  \/ rows'[p] \in {"sent", "dead"} \/ ~dests'[p[2]].exists
                      \/ p \in dropped' \cup lost' \/ \E u \in tasks' : Delivery(u) = p
    BY DEF DeliveriesAccountedFor, Handed, Delivery
  <2>a. \/ rows[p] \in {"sent", "dead"} \/ ~dests[p[2]].exists
        \/ p \in dropped \cup lost \/ \E u \in tasks : Delivery(u) = p
    BY DEF DeliveryInv, DeliveriesAccountedFor
  <2>b. dests'[p[2]].exists = dests[p[2]].exists
    BY <1>a DEF Handed
  <2>1. CASE p # Delivery(t)
    BY <1>a, <2>a, <2>b, <2>1 DEF Handed
  <2>2. CASE p = Delivery(t)
    <3>1. \/ \E u \in tasks' : Delivery(u) = p
          \/ p \in dropped' \cup lost'
          \/ t.step # "queued" /\ (rows[p] # None => rows'[p] \in {"sent", "dead"})
      BY <2>2 DEF Handed
    <3>2. t.step # "queued" => rows[p] # None \/ ~dests[p[2]].exists
      BY <1>a, <2>2 DEF DeliveryInv, RowThere
    <3> QED BY <2>b, <3>1, <3>2
  <2> QED BY <2>1, <2>2
<1> QED BY <1>1, <1>2 DEF DeliveryInv


LEMMA DeliveryStep == TInv /\ DeliveryInv /\ [Next]_vars => DeliveryInv'
<1> SUFFICES ASSUME TInv, DeliveryInv, [Next]_vars PROVE DeliveryInv'
  OBVIOUS
<1>a. Clocks /\ Clocks' /\ CopiesBound' /\ DeliveryTypes
  BY ClocksStep, CopiesStep DEF TInv
<1>1. CASE UNCHANGED <<tasks, due, rows, dests, dropped, lost>>
  BY <1>1 DEF DeliveryInv, RowThere, DeliveriesAccountedFor, Delivery
<1>2. ASSUME NEW E \in SUBSET Sources, copies' = Counted(E), NEW T \in SUBSET Fanned(E), Queue(T),
             UNCHANGED <<deliver, dests>>
      PROVE  DeliveryInv'
  <2>1. T \subseteq TypedTask
    BY <1>a, <1>2, FannedTasks
  <2>2. \A t \in T : t.step = "queued"
    BY FannedQueued
  <2> QED BY <1>2, <2>1, <2>2, QueueAccounts
<1>3. ASSUME NEW m \in Messages, Consume(m) PROVE DeliveryInv'
  <2>1. copies' = Counted({m}) /\ Queue(Fanned({m})) /\ UNCHANGED <<deliver, dests>>
    BY <1>3 DEF Consume
  <2>2. {m} \in SUBSET Sources
    BY DEF Sources
  <2> QED BY <1>2, <2>1, <2>2
<1>4. CASE Poll
  <2>1. PICK B \in SUBSET Slots :
          copies' = Counted(B) /\ Queue(Fanned(B)) /\ UNCHANGED <<deliver, dests>>
    BY <1>4, RestIsNothing DEF Poll
  <2>2. B \in SUBSET Sources
    BY DEF Sources
  <2> QED BY <1>2, <2>1, <2>2
<1>5. CASE PollBreaks
  <2>1. PICK C \in SUBSET Slots :
          /\ copies' = Counted(C) /\ \E T \in SUBSET Fanned(C) : Queue(T)
          /\ UNCHANGED <<deliver, dests>>
    BY <1>5 DEF PollBreaks
  <2>2. C \in SUBSET Sources
    BY DEF Sources
  <2> QED BY <1>2, <2>1, <2>2
<1>6. ASSUME NEW t \in tasks, Deliver(t) \/ Breaks(t) PROVE DeliveryInv'
  BY <1>6, <1>a, Hands, HandsAccount
<1>7. ASSUME NEW d \in Dests, UpdateDestination(d) PROVE DeliveryInv'
  <2>1. /\ UNCHANGED <<tasks, due, rows, dropped, lost>>
        /\ \A e \in Dests : dests'[e].exists = dests[e].exists
    BY <1>a, <1>7 DEF UpdateDestination, Edit, DeliveryTypes, Switch
  <2>2. /\ \A t \in tasks : t.dest \in Dests
        /\ \A p \in due : p[2] \in Dests
    BY <1>a DEF DeliveryTypes, TypedTask
  <2> QED BY <2>1, <2>2 DEF DeliveryInv, RowThere, DeliveriesAccountedFor, Delivery
<1>8. ASSUME NEW d \in Dests, DeleteDestination(d) PROVE DeliveryInv'
  <2>1. /\ UNCHANGED <<tasks, due, dropped, lost>> /\ DOMAIN rows' = DOMAIN rows
        /\ \A p \in DOMAIN rows : p[2] # d => rows'[p] = rows[p]
    BY <1>8 DEF DeleteDestination, Edit
  <2>2. ~dests'[d].exists /\ \A e \in Dests : e # d => dests'[e].exists = dests[e].exists
    BY <1>a, <1>8 DEF DeleteDestination, DeliveryTypes, Switch
  <2>3. /\ \A t \in tasks : t.dest \in Dests /\ Delivery(t) \in DOMAIN rows /\ Delivery(t)[2] = t.dest
        /\ \A p \in due : p[2] \in Dests /\ p \in DOMAIN rows
    BY <1>a DEF DeliveryTypes, TypedTask, Delivery
  <2>4. RowThere'
    <3> SUFFICES ASSUME NEW t \in tasks, t.step # "queued"
                 PROVE  rows'[Delivery(t)] # None \/ ~dests'[t.dest].exists
      BY <2>1 DEF RowThere, Delivery
    <3> QED BY <2>1, <2>2, <2>3 DEF DeliveryInv, RowThere
  <2>5. DeliveriesAccountedFor'
    <3> SUFFICES ASSUME NEW p \in due
                 PROVE  \/ rows'[p] \in {"sent", "dead"} \/ ~dests'[p[2]].exists
                        \/ p \in dropped \cup lost \/ \E t \in tasks : Delivery(t) = p
      BY <2>1 DEF DeliveriesAccountedFor, Delivery
    <3> QED BY <2>1, <2>2, <2>3 DEF DeliveryInv, DeliveriesAccountedFor
  <2> QED BY <2>4, <2>5 DEF DeliveryInv
<1>9. CASE World \/ Restart \/ Idle \/ UNCHANGED vars
  BY <1>1, <1>9 DEF World, Tick, Settle, Overwrite, Note, Restart, Idle, vars, deliver
<1> QED BY <1>3, <1>4, <1>5, <1>6, <1>7, <1>8, <1>9 DEF Next

--------------------------------------------------------------------------------
(* Slots are accounted for                                                    *)

\* What a poll leaves behind its mark is excused: the batch holds every pending slot before the
\* last one, so a slot that is left is of the mark's own instant.
LEMMA PollLeaves ==
  ASSUME Clocks, SlotsAccountedFor, Poll
  PROVE  SlotsAccountedFor'
<1>1. PICK B \in SUBSET Slots :
        /\ IsBatch(B) /\ MarkAfter(B)
        /\ told' = [s \in Slots |-> IF s \in B THEN settled[s] ELSE told[s]]
        /\ excused' = excused \cup {s \in Slots \ B : Pending(s) /\ settled[s] = mark'}
        /\ UNCHANGED settled
  BY DEF Poll, world
<1>2. settled \in [Slots -> Nat] /\ mark \in Nat
  BY DEF Clocks
<1> SUFFICES ASSUME NEW s \in Slots, settled[s] \in 1 .. mark'
             PROVE  told'[s] = settled[s] \/ s \in excused'
  BY <1>1 DEF SlotsAccountedFor
<1>3. CASE s \in B
  BY <1>1, <1>3
<1>4. CASE s \notin B /\ settled[s] <= mark
  BY <1>1, <1>2, <1>4 DEF SlotsAccountedFor
<1>5. CASE s \notin B /\ settled[s] > mark
  <2>1. Pending(s) /\ \A b \in B : settled[b] <= settled[s]
    BY <1>1, <1>5 DEF IsBatch, Pending
  <2>2. PICK b \in B : mark' = settled[b]
    BY <1>1, <1>2, <1>5 DEF MarkAfter
  <2>3. settled[b] \in Nat /\ settled[b] <= settled[s]
    BY <1>2, <2>1
  <2>4. settled[s] = mark'
    BY <1>2, <2>2, <2>3
  <2> QED BY <1>1, <1>5, <2>1, <2>4
<1> QED BY <1>2, <1>3, <1>4, <1>5

LEMMA SlotsStep == Clocks /\ SlotsAccountedFor /\ [Next]_vars => SlotsAccountedFor'
<1> SUFFICES ASSUME Clocks, SlotsAccountedFor, [Next]_vars PROVE SlotsAccountedFor'
  OBVIOUS
<1>a. settled \in [Slots -> Nat] /\ mark \in Nat /\ now \in Nat
  BY DEF Clocks
<1>1. CASE UNCHANGED <<settled, mark, told, excused>>
  BY <1>1 DEF SlotsAccountedFor
<1>2. ASSUME NEW s \in Slots, Settle(s) \/ Overwrite(s) PROVE SlotsAccountedFor'
  <2>1. PICK at \in 0 .. now :
          /\ settled' = [settled EXCEPT ![s] = at] /\ UNCHANGED <<mark, told>>
          /\ excused' = IF at \in 1 .. mark THEN excused \cup {s} ELSE excused \ {s}
    BY <1>a, <1>2 DEF Settle, Overwrite
  <2> SUFFICES ASSUME NEW q \in Slots, settled'[q] \in 1 .. mark
               PROVE  told[q] = settled'[q] \/ q \in excused'
    BY <2>1 DEF SlotsAccountedFor
  <2>2. CASE q = s
    BY <1>a, <2>1, <2>2
  <2>3. CASE q # s
    BY <1>a, <2>1, <2>3 DEF SlotsAccountedFor
  <2> QED BY <2>2, <2>3
<1>3. ASSUME NEW m \in Messages, Consume(m) PROVE SlotsAccountedFor'
  BY <1>1, <1>3 DEF Consume, world
<1>4. CASE PollBreaks
  <2>1. PICK C \in SUBSET Slots :
          /\ told' = [s \in Slots |-> IF s \in C THEN settled[s] ELSE told[s]]
          /\ UNCHANGED <<settled, mark, excused>>
    BY <1>4 DEF PollBreaks, world
  <2> QED BY <2>1 DEF SlotsAccountedFor
<1>5. CASE Restart
  <2>1. /\ mark' = now /\ excused' = excused \cup {s \in Slots : settled[s] \in mark + 1 .. now}
        /\ UNCHANGED <<settled, told>>
    BY <1>5 DEF Restart, world
  <2> SUFFICES ASSUME NEW s \in Slots, settled[s] \in 1 .. now
               PROVE  told[s] = settled[s] \/ s \in excused'
    BY <2>1 DEF SlotsAccountedFor
  <2>2. settled[s] \in 1 .. mark \/ settled[s] \in mark + 1 .. now
    BY <1>a
  <2> QED BY <2>1, <2>2 DEF SlotsAccountedFor
<1>6. ASSUME NEW t \in tasks, Deliver(t) \/ Breaks(t) PROVE SlotsAccountedFor'
  BY <1>1, <1>6, TasksApart DEF world, export
<1>7. ASSUME NEW d \in Dests, UpdateDestination(d) \/ DeleteDestination(d) PROVE SlotsAccountedFor'
  BY <1>1, <1>7 DEF UpdateDestination, DeleteDestination, Edit, world, export
<1>8. CASE Tick \/ (\E e \in Notes \cup Agents : Note(e)) \/ Idle \/ UNCHANGED vars
  BY <1>1, <1>8 DEF Tick, Note, Idle, vars, export
<1> QED
  BY <1>2, <1>3, <1>4, <1>5, <1>6, <1>7, <1>8, PollLeaves DEF Next, World

\* Nothing is forgotten on its way out without a name for it.  A slot the mark has passed has
\* become a signal of that very settling, or went past it in one of three known ways.  A delivery
\* that was queued is sent or dead, or has a task that will go on with it, through retries,
\* errors and the death of a worker before the acknowledgement; or its destination was off or
\* gone; or its task was killed in the pool or raised on its last try, where Celery's settings
\* (celery_app.py) and the code outside deliver_signal's try give it no successor.
THEOREM NothingForgotten == Spec => []AccountedFor
<1>1. Init => SlotsAccountedFor
  BY DEF Init, SlotsAccountedFor
<1>2. TInv => Clocks
  BY DEF TInv
<1>3. DeliveryInv /\ SlotsAccountedFor => AccountedFor
  BY DEF DeliveryInv, AccountedFor
<1> QED BY TInvInit, TInvStep, DeliveryInit, DeliveryStep, SlotsStep, <1>1, <1>2, <1>3, PTL DEF Spec

==============================================================================
