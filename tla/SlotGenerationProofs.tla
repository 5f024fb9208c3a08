------------------------- MODULE SlotGenerationProofs -------------------------
(***************************************************************************)
(* Proofs about SlotGeneration: for every set of jobs, schedules and window *)
(* sizes, slots are never invented, and they are exactly the instants of the *)
(* schedule that the cap on slots per window leaves.                         *)
(***************************************************************************)
EXTENDS SlotGeneration, FiniteSetTheorems, TLAPS

\* What holds of a row: its job was created in the past, and was generated only later.
RowSound(j) ==
  Exists(j) =>
    /\ row[j].created <= now
    /\ row[j].through # None => row[j].created <= row[j].through

\* A job has slots, and lost instants to the cap, only within what its row says was generated.
Bounded(j) ==
  \A t \in slots[j] \cup cut[j] :
    /\ Exists(j) => row[j].created < t /\ row[j].through # None /\ t <= row[j].through
    /\ ~Exists(j) => j \in deleted

\* The open batch: its clock is past, and the rows it locked were there, and stale, then.
BatchSound ==
  batch # None =>
    /\ batch.at <= now
    /\ \A j \in batch.locked :
         /\ row[j].created <= batch.at
         /\ row[j].through # None => row[j].through <= WindowEnd(batch.at)

IInv ==
  /\ TypeOK
  /\ \A j \in Jobs : RowSound(j) /\ Bounded(j) /\ (j \in deleted => ~Exists(j))
  /\ \A j \in Jobs : purged[j] # None => Exists(j)
  /\ BatchSound

--------------------------------------------------------------------------------
(* The window                                                                 *)

USE GenerationAssumption

\* A window of a well-typed row starts at a time, at the creation or later.
LEMMA WindowType ==
  ASSUME NEW r \in RowType, NEW at \in Nat, r.through # None => r.created <= r.through
  PROVE  /\ WindowStart(r, at) \in Int
         /\ r.created <= WindowStart(r, at)
         /\ at - Backfill <= WindowStart(r, at)
         /\ r.through # None => r.through <= WindowStart(r, at)
         /\ WindowEnd(at) \in Nat
         /\ at <= WindowEnd(at)
         /\ \/ WindowStart(r, at) = at - Backfill
            \/ WindowStart(r, at) = r.through
            \/ r.through = None /\ WindowStart(r, at) = r.created
BY DEF WindowStart, WindowEnd, Later, RowType

\* Slots, and what the cap takes away, are instants of the schedule inside the window.
LEMMA SlotsInWindow ==
  ASSUME NEW r \in RowType, r.schedule # None, NEW at \in Nat
  PROVE  /\ SlotsBetween(r, at) \cup BeyondCap(r, at) \subseteq Nat
         /\ \A t \in SlotsBetween(r, at) \cup BeyondCap(r, at) :
              WindowStart(r, at) < t /\ t <= WindowEnd(at) /\ t \in Occurrences[r.schedule]
<1>1. r.schedule \in Schedules
  BY DEF RowType
<1>2. Occurrences[r.schedule] \subseteq Nat
  BY <1>1
<1> QED BY <1>2 DEF SlotsBetween, BeyondCap, Due

\* The instants due before one of a window are finitely many.
LEMMA CountedBefore ==
  ASSUME NEW r \in RowType, r.schedule # None, NEW at \in Nat,
         r.through # None => r.created <= r.through, NEW t \in Due(r, at)
  PROVE  Cardinality({p \in Due(r, at) : p < t}) \in Nat
<1> DEFINE w == WindowStart(r, at)
           earlier == {p \in Due(r, at) : p < t}
<1>1. r.schedule \in Schedules /\ Occurrences[r.schedule] \subseteq Nat
  BY DEF RowType
<1>2. w \in Int
  BY WindowType
<1>3. t \in Nat
  BY <1>1 DEF Due
<1>4. earlier \subseteq w + 1 .. t - 1
  BY <1>1, <1>2, <1>3 DEF Due
<1>5. IsFiniteSet(w + 1 .. t - 1)
  BY <1>2, <1>3, FS_Interval
<1> QED BY <1>4, <1>5, FS_Subset, FS_CardinalityType

\* An instant due either becomes a slot or is one the cap takes away, and never both.
LEMMA SlotOrCut ==
  ASSUME NEW r \in RowType, r.schedule # None, NEW at \in Nat,
         r.through # None => r.created <= r.through,
         NEW t \in Nat, WindowStart(r, at) < t, t <= WindowEnd(at)
  PROVE  t \in SlotsBetween(r, at) <=> t \in Occurrences[r.schedule] \ BeyondCap(r, at)
<1>1. CASE t \in Occurrences[r.schedule]
  <2>1. t \in Due(r, at)
    BY <1>1 DEF Due
  <2>2. Cardinality({p \in Due(r, at) : p < t}) \in Nat
    BY <2>1, CountedBefore
  <2> QED BY <1>1, <2>1, <2>2 DEF SlotsBetween, BeyondCap
<1>2. CASE t \notin Occurrences[r.schedule]
  BY <1>2 DEF SlotsBetween, Due
<1> QED BY <1>1, <1>2

--------------------------------------------------------------------------------
(* The inductive invariant                                                    *)

LEMMA InitIInv == Init => IInv
BY DEF Init, IInv, TypeOK, RowSound, Bounded, Exists, BatchSound

LEMMA BeginBatchIInv == IInv /\ BeginBatch => IInv'
<1> SUFFICES ASSUME IInv, BeginBatch PROVE IInv'
  OBVIOUS
<1> USE DEF IInv
<1>1. PICK locked \in SUBSET Candidates : \E done \in SUBSET locked :
        batch' = [at |-> now, locked |-> locked, done |-> done]
  BY DEF BeginBatch
<1>2. PICK done \in SUBSET locked : batch' = [at |-> now, locked |-> locked, done |-> done]
  BY <1>1
<1>3. UNCHANGED <<now, row, slots, purged, deleted, cut, edited, edits, faults>>
  BY DEF BeginBatch
<1>4. locked \subseteq Jobs /\ \A j \in locked : Active(j) /\ Stale(row[j])
  BY DEF Candidates
<1>5. TypeOK'
  BY <1>2, <1>3, <1>4 DEF TypeOK, BatchType, Active
<1>6. \A j \in Jobs : RowSound(j)' /\ Bounded(j)' /\ (j \in deleted => ~Exists(j))'
  BY <1>3 DEF RowSound, Bounded, Exists
<1>7. BatchSound'
  <2> SUFFICES ASSUME NEW j \in locked
               PROVE  /\ row[j].created <= now
                      /\ row[j].through # None => row[j].through <= WindowEnd(now)
    BY <1>2, <1>3 DEF BatchSound, WindowEnd, TypeOK
  <2>1. row[j] \in RowType /\ now \in Nat
    BY <1>4 DEF TypeOK, Active
  <2>2. row[j].created <= now
    BY <1>4 DEF RowSound, Exists, Active
  <2> QED BY <2>1, <2>2, <1>4 DEF Stale, WindowEnd, RowType
<1> QED BY <1>3, <1>5, <1>6, <1>7 DEF Exists

LEMMA CommitBatchIInv == IInv /\ CommitBatch => IInv'
<1> SUFFICES ASSUME IInv, CommitBatch PROVE IInv'
  OBVIOUS
<1> DEFINE at == batch.at
<1>1. batch \in BatchType /\ at \in Nat /\ at <= now /\ now \in Nat
  BY DEF IInv, TypeOK, BatchType, CommitBatch, BatchSound
<1>2. /\ UNCHANGED <<now, purged, deleted, edited, edits, faults>>
      /\ batch' = None
  BY DEF CommitBatch
<1>3. ASSUME NEW j \in batch.done
      PROVE  /\ j \in Jobs
             /\ row[j] \in RowType /\ row[j].schedule # None /\ Exists(j)
             /\ row[j].created <= at
             /\ row[j].through # None => row[j].created <= row[j].through
             /\ row[j].through # None => row[j].through <= WindowEnd(at)
             /\ row'[j] = [row[j] EXCEPT !.through = WindowEnd(at)]
             /\ slots'[j] = slots[j] \cup SlotsBetween(row[j], at)
             /\ cut'[j] = cut[j] \cup BeyondCap(row[j], at)
  <2>1. j \in Jobs /\ j \in batch.locked
    BY <1>1 DEF IInv, TypeOK, BatchType, CommitBatch
  <2>2. Active(j)
    BY <2>1 DEF IInv, TypeOK, CommitBatch
  <2>3. row[j] \in RowType /\ row[j].schedule # None /\ Exists(j)
    BY <2>1, <2>2 DEF Active, Exists, IInv, TypeOK
  <2>4. row[j].created <= at /\ (row[j].through # None => row[j].through <= WindowEnd(at))
    BY <2>1 DEF IInv, BatchSound, CommitBatch
  <2>5. row[j].through # None => row[j].created <= row[j].through
    BY <2>1, <2>3 DEF IInv, RowSound
  <2> QED BY <2>1, <2>3, <2>4, <2>5 DEF CommitBatch
<1>4. ASSUME NEW j \in Jobs, j \notin batch.done
      PROVE  row'[j] = row[j] /\ slots'[j] = slots[j] /\ cut'[j] = cut[j]
  BY <1>4 DEF CommitBatch
<1>5. WindowEnd(at) \in Nat /\ at <= WindowEnd(at)
  BY <1>1 DEF WindowEnd
<1>6. \A j \in batch.done : row'[j] \in RowType /\ row'[j] # None
  <2> TAKE j \in batch.done
  <2>1. row'[j] \in RowType
    BY <1>3, <1>5 DEF RowType
  <2>2. row'[j].through = WindowEnd(at) /\ row[j] # None
    BY <1>3, <1>5 DEF RowType, Exists
  <2> QED BY <2>1, <2>2, <1>3 DEF RowType
<1>7. TypeOK'
  <2>1. row' \in [Jobs -> RowType \cup {None}]
    <3>1. \A j \in Jobs : row'[j] \in RowType \cup {None}
      BY <1>4, <1>6 DEF IInv, TypeOK
    <3> QED BY <3>1 DEF CommitBatch
  <2>2. slots' \in [Jobs -> SUBSET Nat]
    <3>1. ASSUME NEW j \in Jobs PROVE slots'[j] \in SUBSET Nat
      <4>1. CASE j \in batch.done
        BY <4>1, <1>1, <1>3, SlotsInWindow DEF IInv, TypeOK
      <4>2. CASE j \notin batch.done
        BY <4>2, <1>4 DEF IInv, TypeOK
      <4> QED BY <4>1, <4>2
    <3> QED BY <3>1 DEF CommitBatch
  <2>3. cut' \in [Jobs -> SUBSET Nat]
    <3>1. ASSUME NEW j \in Jobs PROVE cut'[j] \in SUBSET Nat
      <4>1. CASE j \in batch.done
        BY <4>1, <1>1, <1>3, SlotsInWindow DEF IInv, TypeOK
      <4>2. CASE j \notin batch.done
        BY <4>2, <1>4 DEF IInv, TypeOK
      <4> QED BY <4>1, <4>2
    <3> QED BY <3>1 DEF CommitBatch
  <2> QED BY <2>1, <2>2, <2>3, <1>2 DEF IInv, TypeOK
<1>8. ASSUME NEW j \in Jobs
      PROVE  RowSound(j)' /\ Bounded(j)' /\ (j \in deleted => ~Exists(j))'
  <2>1. CASE j \in batch.done
    <3>1. row'[j].through = WindowEnd(at) /\ row'[j].created = row[j].created
      BY <2>1, <1>3 DEF RowType
    <3>2. row[j].created \in Nat /\ WindowEnd(at) # None
      BY <2>1, <1>3, <1>5 DEF RowType
    <3>3. RowSound(j)'
      <4>1. row[j].created <= at
        BY <2>1, <1>3
      <4>2. row[j].created <= now /\ row[j].created <= WindowEnd(at)
        BY <4>1, <3>2, <1>1, <1>5
      <4> QED BY <4>2, <3>1, <1>2 DEF RowSound
    <3>4. ASSUME NEW t \in slots'[j] \cup cut'[j]
          PROVE  row[j].created < t /\ t <= WindowEnd(at)
      <4>1. CASE t \in slots[j] \cup cut[j]
        <5>1. t \in Nat /\ row[j].created < t /\ row[j].through # None /\ t <= row[j].through
          BY <4>1, <2>1, <1>3 DEF IInv, Bounded, TypeOK
        <5>2. row[j].through \in Nat /\ row[j].through <= WindowEnd(at)
          BY <5>1, <2>1, <1>3 DEF RowType
        <5> QED BY <5>1, <5>2, <1>5
      <4>2. CASE t \in SlotsBetween(row[j], at) \cup BeyondCap(row[j], at)
        <5>1. t \in Nat /\ WindowStart(row[j], at) < t /\ t <= WindowEnd(at)
          BY <4>2, <2>1, <1>1, <1>3, SlotsInWindow
        <5>2. WindowStart(row[j], at) \in Int /\ row[j].created <= WindowStart(row[j], at)
          BY <2>1, <1>1, <1>3, WindowType
        <5> QED BY <5>1, <5>2, <3>2
      <4> QED BY <4>1, <4>2, <2>1, <1>3
    <3>5. Bounded(j)'
      BY <3>1, <3>2, <3>4, <2>1, <1>6 DEF Bounded, Exists
    <3> QED BY <3>3, <3>5, <2>1, <1>2, <1>3 DEF IInv
  <2>2. CASE j \notin batch.done
    BY <2>2, <1>2, <1>4 DEF IInv, RowSound, Bounded, Exists
  <2> QED BY <2>1, <2>2
<1>9. \A j \in Jobs : (purged[j] # None => Exists(j))'
  BY <1>2, <1>4, <1>6 DEF IInv, Exists
<1> QED BY <1>2, <1>7, <1>8, <1>9 DEF IInv, BatchSound

LEMMA CreateJobIInv == \A j \in Jobs : IInv /\ CreateJob(j) => IInv'
<1> SUFFICES ASSUME NEW j \in Jobs, IInv, CreateJob(j) PROVE IInv'
  OBVIOUS
<1> USE DEF IInv
<1>1. PICK sch \in Schedules \cup {None} :
        row' = [row EXCEPT ![j] = [created |-> now, schedule |-> sch, paused |-> FALSE, through |-> None]]
  BY DEF CreateJob
<1>2. UNCHANGED <<now, slots, batch, purged, deleted, cut, edited, edits, faults>>
      /\ ~Exists(j) /\ j \notin deleted
  BY DEF CreateJob
<1>3. row'[j] \in RowType /\ row'[j] # None /\ row'[j].created = now /\ row'[j].through = None
  <2> DEFINE new == [created |-> now, schedule |-> sch, paused |-> FALSE, through |-> None]
  <2>1. new \in RowType /\ new.created = now /\ new.through = None
    BY DEF TypeOK, RowType
  <2>2. new # None
    BY <2>1
  <2>3. row'[j] = new
    BY <1>1 DEF TypeOK
  <2> QED BY <2>1, <2>2, <2>3
<1>4. \A k \in Jobs \ {j} : row'[k] = row[k]
  BY <1>1 DEF TypeOK
<1>5. batch # None => batch.locked \subseteq Jobs \ {j} /\ batch \in BatchType
  BY <1>2 DEF TypeOK, Active, Exists, BatchType
<1>6. slots[j] = {} /\ cut[j] = {}
  BY <1>2 DEF Bounded, TypeOK
<1>7. TypeOK'
  BY <1>1, <1>2, <1>3, <1>4, <1>5 DEF TypeOK, Active
<1>8. ASSUME NEW k \in Jobs
      PROVE  RowSound(k)' /\ Bounded(k)' /\ (k \in deleted => ~Exists(k))' /\ (purged[k] # None => Exists(k))'
  BY <1>2, <1>3, <1>4, <1>6 DEF RowSound, Bounded, Exists, TypeOK
<1>9. BatchSound'
  BY <1>2, <1>4, <1>5 DEF BatchSound, WindowEnd
<1> QED BY <1>7, <1>8, <1>9

\* A PATCH changes neither the creation of a job nor what was generated, and waits for the
\* batch that has locked its row.
LEMMA PatchIInv ==
  ASSUME NEW j \in Jobs, IInv, Exists(j), Unlocked(j),
         NEW new \in RowType, new.created = row[j].created, new.through = row[j].through,
         row' = [row EXCEPT ![j] = new],
         UNCHANGED <<now, slots, batch, purged, deleted, cut, faults>>,
         edited' \subseteq Jobs, edits' \in Nat
  PROVE  IInv'
<1> USE DEF IInv
<1>1. row'[j] = new /\ new # None
  BY DEF TypeOK
<1>2. \A k \in Jobs \ {j} : row'[k] = row[k]
  BY DEF TypeOK
<1>3. batch # None => batch.locked \subseteq Jobs \ {j} /\ batch \in BatchType
  BY DEF TypeOK, Unlocked, BatchType
<1>4. TypeOK'
  BY <1>1, <1>2, <1>3 DEF TypeOK, Active
<1>5. ASSUME NEW k \in Jobs
      PROVE  RowSound(k)' /\ Bounded(k)' /\ (k \in deleted => ~Exists(k))' /\ (purged[k] # None => Exists(k))'
  BY <1>1, <1>2 DEF RowSound, Bounded, Exists, TypeOK
<1>6. BatchSound'
  BY <1>2, <1>3 DEF BatchSound, WindowEnd
<1> QED BY <1>4, <1>5, <1>6

LEMMA UpdateScheduleIInv == \A j \in Jobs : IInv /\ UpdateSchedule(j) => IInv'
<1> SUFFICES ASSUME NEW j \in Jobs, IInv, UpdateSchedule(j) PROVE IInv'
  OBVIOUS
<1>1. PICK sch \in Schedules : row' = [row EXCEPT ![j].schedule = sch]
  BY DEF UpdateSchedule
<1> DEFINE new == [row[j] EXCEPT !.schedule = sch]
<1>2. row[j] \in RowType /\ Exists(j) /\ Unlocked(j)
  BY DEF UpdateSchedule, IInv, TypeOK, Exists
<1>3. new \in RowType /\ new.created = row[j].created /\ new.through = row[j].through
  BY <1>2 DEF RowType
<1>4. row' = [row EXCEPT ![j] = new]
  BY <1>1 DEF IInv, TypeOK
<1>5. edited' \subseteq Jobs /\ edits' \in Nat
  BY DEF UpdateSchedule, IInv, TypeOK
<1>6. UNCHANGED <<now, slots, batch, purged, deleted, cut, faults>>
  BY DEF UpdateSchedule
<1> HIDE DEF new
<1> QED BY <1>2, <1>3, <1>4, <1>5, <1>6, PatchIInv

LEMMA UpdatePausedIInv == \A j \in Jobs : IInv /\ UpdatePaused(j) => IInv'
<1> SUFFICES ASSUME NEW j \in Jobs, IInv, UpdatePaused(j) PROVE IInv'
  OBVIOUS
<1> DEFINE new == [row[j] EXCEPT !.paused = ~@]
<1>1. row[j] \in RowType /\ Exists(j) /\ Unlocked(j)
  BY DEF UpdatePaused, IInv, TypeOK, Exists
<1>2. new \in RowType /\ new.created = row[j].created /\ new.through = row[j].through
  BY <1>1 DEF RowType
<1>3. row' = [row EXCEPT ![j] = new]
  BY DEF UpdatePaused
<1>4. edited' \subseteq Jobs /\ edits' \in Nat
  BY DEF UpdatePaused, IInv, TypeOK
<1>5. UNCHANGED <<now, slots, batch, purged, deleted, cut, faults>>
  BY DEF UpdatePaused
<1> HIDE DEF new
<1> QED BY <1>1, <1>2, <1>3, <1>4, <1>5, PatchIInv

LEMMA PurgeJobIInv == \A j \in Jobs : IInv /\ PurgeJob(j) => IInv'
BY DEF IInv, PurgeJob, TypeOK, RowSound, Bounded, Exists, BatchSound, Active, WindowEnd, BatchType

LEMMA DeleteJobIInv == \A j \in Jobs : IInv /\ DeleteJob(j) => IInv'
<1> SUFFICES ASSUME NEW j \in Jobs, IInv, DeleteJob(j) PROVE IInv'
  OBVIOUS
<1> USE DEF IInv
<1>1. /\ row' = [row EXCEPT ![j] = None]
      /\ slots' = [slots EXCEPT ![j] = @ \ purged[j]]
      /\ purged' = [purged EXCEPT ![j] = None]
      /\ deleted' = deleted \cup {j}
      /\ UNCHANGED <<now, batch, cut, edited, edits, faults>>
      /\ Unlocked(j)
  BY DEF DeleteJob
<1>2. row'[j] = None /\ \A k \in Jobs \ {j} : row'[k] = row[k]
  BY <1>1 DEF TypeOK
<1>3. batch # None => batch.locked \subseteq Jobs \ {j} /\ batch \in BatchType
  BY <1>1 DEF TypeOK, Unlocked, BatchType
<1>4. TypeOK'
  BY <1>1, <1>2, <1>3 DEF TypeOK, Active
<1>5. ASSUME NEW k \in Jobs
      PROVE  RowSound(k)' /\ Bounded(k)' /\ (k \in deleted => ~Exists(k))' /\ (purged[k] # None => Exists(k))'
  <2>1. CASE k = j
    BY <2>1, <1>1, <1>2 DEF RowSound, Bounded, Exists, TypeOK
  <2>2. CASE k # j
    <3>1. row'[k] = row[k] /\ slots'[k] = slots[k] /\ purged'[k] = purged[k]
      BY <2>2, <1>1 DEF TypeOK
    <3> QED BY <2>2, <1>1, <3>1 DEF RowSound, Bounded, Exists
  <2> QED BY <2>1, <2>2
<1>6. BatchSound'
  BY <1>1, <1>2, <1>3 DEF BatchSound, WindowEnd
<1> QED BY <1>4, <1>5, <1>6

LEMMA TickIInv == IInv /\ Tick => IInv'
<1> SUFFICES ASSUME IInv, Tick PROVE IInv'
  OBVIOUS
<1>1. /\ now \in Nat /\ now' = now + 1
      /\ UNCHANGED <<row, slots, batch, purged, deleted, cut, edited, edits, faults>>
  BY DEF IInv, TypeOK, Tick
<1>2. TypeOK' /\ \A j \in Jobs : (purged[j] # None => Exists(j))'
  BY <1>1 DEF IInv, TypeOK, Active, Exists
<1>3. ASSUME NEW j \in Jobs
      PROVE  RowSound(j)' /\ Bounded(j)' /\ (j \in deleted => ~Exists(j))'
  <2>1. row[j] # None => row[j].created \in Nat
    BY DEF IInv, TypeOK, RowType
  <2> QED BY <1>1, <2>1 DEF IInv, RowSound, Bounded, Exists
<1>4. BatchSound'
  BY <1>1 DEF IInv, TypeOK, BatchSound, BatchType, WindowEnd
<1> QED BY <1>2, <1>3, <1>4 DEF IInv

LEMMA AbortBatchIInv == IInv /\ (AbortBatch \/ UNCHANGED vars) => IInv'
BY DEF IInv, AbortBatch, vars, TypeOK, RowSound, Bounded, Exists, BatchSound, Active, WindowEnd

\* The invariant of generation holds in every reachable state.
THEOREM Invariance == Spec => []IInv
<1>1. IInv /\ [Next]_vars => IInv'
  BY BeginBatchIInv, CommitBatchIInv, AbortBatchIInv, CreateJobIInv, UpdateScheduleIInv,
     UpdatePausedIInv, PurgeJobIInv, DeleteJobIInv, TickIInv DEF Next, CaughtUp
<1> QED BY InitIInv, <1>1, PTL DEF Spec

\* TypeOK: a batch only ever works on rows it has locked, that exist and want slots, however
\* users edit, pause and delete jobs around it (run_batch's FOR UPDATE).
THEOREM TypeCorrect == Spec => []TypeOK
<1>1. IInv => TypeOK
  BY DEF IInv
<1> QED BY <1>1, Invariance, PTL

\* NothingInvented: generation_window never reaches back before a job's creation, and a row
\* never has slots beyond generated_through.
THEOREM NoInventedSlots == Spec => []NothingInvented
<1>1. IInv => NothingInvented
  BY DEF IInv, Bounded, NothingInvented
<1> QED BY <1>1, Invariance, PTL

--------------------------------------------------------------------------------
(* The slots are the schedule                                                 *)

LEMMA CommitExactly ==
  ASSUME IInv, ExactlyTheSchedule, CommitBatch
  PROVE  ExactlyTheSchedule'
<1> SUFFICES ASSUME NEW j \in Jobs, Exists(j)', row'[j].through # None, j \notin edited',
                    NEW t \in row'[j].created + 1 .. row'[j].through, now' - Backfill < t
             PROVE  t \in slots'[j] <=> t \in Occurrences[row'[j].schedule] \ cut'[j]
  BY DEF ExactlyTheSchedule
<1> DEFINE at == batch.at
<1>1. /\ at \in Nat /\ at <= now /\ now \in Nat
      /\ now' = now /\ edited' = edited
  BY DEF IInv, TypeOK, BatchType, BatchSound, CommitBatch
<1>2. CASE j \notin batch.done
  <2>1. row'[j] = row[j] /\ slots'[j] = slots[j] /\ cut'[j] = cut[j]
    BY <1>2 DEF CommitBatch
  <2> QED BY <2>1, <1>1 DEF ExactlyTheSchedule, Exists
<1>3. CASE j \in batch.done
  <2>1. j \in batch.locked /\ Active(j)
    BY <1>3 DEF IInv, TypeOK, BatchType, CommitBatch
  <2>2. row[j] \in RowType /\ row[j].schedule # None /\ Exists(j)
    BY <2>1 DEF Active, Exists, IInv, TypeOK
  <2>3. row[j].through # None => row[j].created <= row[j].through
    BY <2>2 DEF IInv, RowSound
  <2>4. /\ row'[j] = [row[j] EXCEPT !.through = WindowEnd(at)]
        /\ slots'[j] = slots[j] \cup SlotsBetween(row[j], at)
        /\ cut'[j] = cut[j] \cup BeyondCap(row[j], at)
    BY <1>3 DEF CommitBatch
  <2>5. /\ row'[j].created = row[j].created /\ row'[j].through = WindowEnd(at)
        /\ row'[j].schedule = row[j].schedule
    BY <2>2, <2>4 DEF RowType
  <2>6. row[j].created \in Nat /\ WindowEnd(at) \in Nat
    BY <2>2, <1>1 DEF RowType, WindowEnd
  <2>7. t \in Int /\ row[j].created < t /\ t <= WindowEnd(at)
    BY <2>5, <2>6
  <2>8. at - Backfill < t
    BY <1>1, <2>7
  <2>9. CASE row[j].through # None /\ t <= row[j].through
    <3>1. row[j].through \in Nat
      BY <2>2, <2>9 DEF RowType
    <3>2. t \in row[j].created + 1 .. row[j].through
      BY <2>6, <2>7, <2>9, <3>1
    <3>3. t \in slots[j] <=> t \in Occurrences[row[j].schedule] \ cut[j]
      BY <1>1, <2>2, <2>9, <3>2 DEF ExactlyTheSchedule
    <3>4. t \notin SlotsBetween(row[j], at) \cup BeyondCap(row[j], at)
      <4>1. row[j].through <= WindowStart(row[j], at) /\ WindowStart(row[j], at) \in Int
        BY <1>1, <2>2, <2>3, <2>9, WindowType
      <4>2. ~(WindowStart(row[j], at) < t)
        BY <4>1, <3>1, <2>7, <2>9
      <4> QED BY <4>2, <1>1, <2>2, SlotsInWindow
    <3> QED BY <3>3, <3>4, <2>4, <2>5
  <2>10. CASE row[j].through = None \/ ~(t <= row[j].through)
    <3>1. t \notin slots[j] \cup cut[j]
      BY <2>2, <2>10 DEF IInv, Bounded
    <3>2. WindowStart(row[j], at) < t
      <4>1. row[j].through # None => row[j].through \in Nat
        BY <2>2 DEF RowType
      <4>2. \/ WindowStart(row[j], at) = at - Backfill
            \/ row[j].through # None /\ WindowStart(row[j], at) = row[j].through
            \/ row[j].through = None /\ WindowStart(row[j], at) = row[j].created
        BY <1>1, <2>2 DEF WindowStart, Later, RowType
      <4> QED BY <4>1, <4>2, <2>6, <2>7, <2>8, <2>10
    <3>3. t \in Nat
      BY <2>6, <2>7
    <3>4. t \in SlotsBetween(row[j], at)
            <=> t \in Occurrences[row[j].schedule] \ BeyondCap(row[j], at)
      BY <3>2, <3>3, <2>2, <2>3, <2>7, <1>1, SlotOrCut
    <3> QED BY <3>1, <3>4, <2>4, <2>5
  <2> QED BY <2>9, <2>10
<1> QED BY <1>2, <1>3

LEMMA OthersExactly ==
  ASSUME IInv, ExactlyTheSchedule, [Next]_vars, ~CommitBatch
  PROVE  ExactlyTheSchedule'
<1> SUFFICES ASSUME NEW j \in Jobs, Exists(j)', row'[j].through # None, j \notin edited',
                    NEW t \in row'[j].created + 1 .. row'[j].through, now' - Backfill < t
             PROVE  t \in slots'[j] <=> t \in Occurrences[row'[j].schedule] \ cut'[j]
  BY DEF ExactlyTheSchedule
<1>1. ASSUME Exists(j), row'[j].through = row[j].through, row'[j].created = row[j].created,
             row'[j].schedule = row[j].schedule, slots'[j] = slots[j], cut'[j] = cut[j],
             j \notin edited,
             now - Backfill < t
      PROVE  t \in slots'[j] <=> t \in Occurrences[row'[j].schedule] \ cut'[j]
  BY <1>1 DEF ExactlyTheSchedule
<1>2. CASE BeginBatch \/ AbortBatch \/ CaughtUp \/ UNCHANGED vars
  BY <1>1, <1>2 DEF BeginBatch, AbortBatch, CaughtUp, vars, Exists
<1>3. CASE Tick
  <2>1. now \in Nat /\ now' = now + 1 /\ UNCHANGED <<row, slots, cut, edited>>
    BY <1>3 DEF Tick, IInv, TypeOK
  <2>2. row[j] \in RowType
    BY <2>1 DEF IInv, TypeOK, Exists
  <2>3. t \in Int
    BY <2>1, <2>2 DEF RowType
  <2>4. now - Backfill < t
    BY <2>1, <2>3
  <2> QED BY <1>1, <2>1, <2>4 DEF Exists
<1>4. CASE \E k \in Jobs : CreateJob(k)
  <2>1. PICK k \in Jobs : CreateJob(k)
    BY <1>4
  <2>2. CASE k = j
    BY <2>1, <2>2 DEF CreateJob, IInv, TypeOK
  <2>3. CASE k # j
    BY <2>1, <2>3, <1>1 DEF CreateJob, IInv, TypeOK, Exists
  <2> QED BY <2>2, <2>3
<1>5. CASE \E k \in Jobs : UpdateSchedule(k)
  <2>1. PICK k \in Jobs : UpdateSchedule(k)
    BY <1>5
  <2>2. row \in [Jobs -> RowType \cup {None}] /\ Exists(k) /\ row[k] \in RowType
    BY <2>1 DEF IInv, TypeOK, UpdateSchedule, Exists
  <2>3. CASE k = j
    <3>1. row'[j].through = row[j].through
      BY <2>1, <2>2, <2>3 DEF UpdateSchedule, RowType
    <3>2. j \in edited'
      BY <3>1, <2>1, <2>3 DEF UpdateSchedule
    <3> QED BY <3>2
  <2>4. CASE k # j
    BY <2>1, <2>2, <2>4, <1>1 DEF UpdateSchedule, Exists
  <2> QED BY <2>3, <2>4
<1>6. CASE \E k \in Jobs : UpdatePaused(k)
  <2>1. PICK k \in Jobs : UpdatePaused(k)
    BY <1>6
  <2>2. row \in [Jobs -> RowType \cup {None}] /\ Exists(k) /\ row[k] \in RowType
    BY <2>1 DEF IInv, TypeOK, UpdatePaused, Exists
  <2>3. /\ row'[j].through = row[j].through /\ row'[j].created = row[j].created
        /\ row'[j].schedule = row[j].schedule
        /\ UNCHANGED <<now, slots, cut, edited>>
    BY <2>1, <2>2 DEF UpdatePaused, RowType
  <2>4. Exists(j)
    BY <2>1, <2>2 DEF UpdatePaused, Exists
  <2> QED BY <2>3, <2>4, <1>1
<1>7. CASE \E k \in Jobs : PurgeJob(k)
  BY <1>1, <1>7 DEF PurgeJob, Exists
<1>8. CASE \E k \in Jobs : DeleteJob(k)
  <2>1. PICK k \in Jobs : DeleteJob(k)
    BY <1>8
  <2>2. k # j
    BY <2>1 DEF DeleteJob, Exists, IInv, TypeOK
  <2> QED BY <2>1, <2>2, <1>1 DEF DeleteJob, Exists, IInv, TypeOK
<1> QED BY <1>2, <1>3, <1>4, <1>5, <1>6, <1>7, <1>8 DEF Next

\* ExactlyTheSchedule: within the backfill limit the slots are exactly the schedule's instants
\* but for those beyond the cap of slots_between, whatever the cap is next to the window and
\* whatever pauses, rollbacks, budgets and locks did to the batches.
THEOREM SlotsAreTheSchedule == Spec => []ExactlyTheSchedule
<1>1. Init => ExactlyTheSchedule
  BY DEF Init, ExactlyTheSchedule, Exists
<1>2. IInv /\ ExactlyTheSchedule /\ [Next]_vars => ExactlyTheSchedule'
  BY CommitExactly, OthersExactly
<1> QED BY <1>1, <1>2, Invariance, PTL DEF Spec
================================================================================
