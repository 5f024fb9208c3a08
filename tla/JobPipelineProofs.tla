--------------------------- MODULE JobPipelineProofs ---------------------------
(***************************************************************************)
(* Theorems about JobPipeline, for every set of slots and runs and every   *)
(* value of the timing constants and bounds: its types, its safety, and    *)
(* that it implements SlotLifecycle.                                       *)
(***************************************************************************)
EXTENDS JobPipeline, FiniteSetTheorems, TLAPS

--------------------------------------------------------------------------------
(* Lemmas on the operators of the model                                       *)

\* The image of a finite set under a function is finite.
LEMMA FiniteImage ==
  ASSUME NEW S, IsFiniteSet(S), NEW f, f = [x \in S |-> f[x]]
  PROVE  IsFiniteSet({f[x] : x \in S})
<1>1. f \in Surjection(S, {f[x] : x \in S})
  BY DEF Surjection
<1> QED BY <1>1, FS_Surjection

\* A finite number of executions and slots makes a finite timeline.
LEMMA TimelineFinite ==
  ASSUME NEW rw, IsFiniteSet(rw), NEW ms
  PROVE  IsFiniteSet(Timeline(rw, ms))
<1> DEFINE ran  == {x \in rw : x.status # "running"}
           gone == {x \in Slots : ms[x] # None}
           f == [r \in ran |-> [key |-> <<r.id, r.sched>>, out |-> OutcomeOf(r.status), at |-> r.end]]
           g == [s \in gone |-> [key |-> <<s, -1>>, out |-> "missed", at |-> ms[s]]]
<1>1. IsFiniteSet(ran) /\ IsFiniteSet(gone)
  BY FS_Subset, ConstantsAssumption
<1>2. IsFiniteSet({f[r] : r \in ran})
  <2>1. f = [r \in ran |-> f[r]]
    OBVIOUS
  <2> HIDE DEF ran, f
  <2> QED BY <1>1, <2>1, FiniteImage
<1>3. IsFiniteSet({g[s] : s \in gone})
  <2>1. g = [s \in gone |-> g[s]]
    OBVIOUS
  <2> HIDE DEF gone, g
  <2> QED BY <1>1, <2>1, FiniteImage
<1>4. Timeline(rw, ms) = {f[r] : r \in ran} \cup {g[s] : s \in gone}
  BY DEF Timeline
<1> HIDE DEF f, g, ran, gone
<1> QED BY <1>2, <1>3, <1>4, FS_Union

\* derive gives one of the four states, and a reason the schema knows.
LEMMA DeriveType ==
  ASSUME NEW f
  PROVE  /\ derive(f)[1] \in JobState
         /\ derive(f)[2] \in UnknownReason
BY DEF derive, JobState, UnknownReason

\* legacy_status gives one of the nine legacy values.
LEMMA LegacyType ==
  ASSUME NEW st, NEW p, NEW run, NEW last, NEW rec
  PROVE  legacy_status(st, p, run, last, rec) \in JobStatus
BY DEF legacy_status, JobStatus

\* recompute_state leaves a well-typed row behind.
LEMMA JobRowsType ==
  ASSUME NEW sl, NEW rw, IsFiniteSet(rw), NEW ms, NEW ran
  PROVE  JobRows(sl, rw, ms, ran) \subseteq JobType
<1> SUFFICES ASSUME NEW pair, NEW T, T = Timeline(rw, ms)
             PROVE  JobRow(sl, rw, T, ran, pair) \in JobType
  BY DEF JobRows
<1>1. FailureCount(T) \in Nat
  <2>1. IsFiniteSet(T)
    BY TimelineFinite
  <2> QED BY <2>1, FS_Subset, FS_CardinalityType DEF FailureCount
<1> QED BY ZenonT(60), <1>1, DeriveType, LegacyType DEF JobRow, JobType

\* The slot attach_slot selects is one of the job's open slots, or none is open.
LEMMA SelectSlotOpen ==
  ASSUME NEW ts, NEW s \in SelectSlot(ts)
  PROVE  \/ s = None /\ Candidates(ts) = {}
         \/ s \in Slots /\ slot[s].state \in OPEN
BY DEF SelectSlot, Nearest, Candidates

--------------------------------------------------------------------------------
(* Type correctness                                                           *)

\* Only finitely many reports have been applied, so the timeline can be counted.
TypeInv == TypeOK /\ IsFiniteSet(rows)

\* A report names a real run at a real time, so what it writes is a row of the schema.
LEMMA RecordedType ==
  ASSUME TypeInv, NEW m \in Report, NEW id \in ExecId
  PROVE  Recorded(m, id) \subseteq ExecRow /\ IsFiniteSet(Recorded(m, id))
<1> USE DEF TypeInv, TypeOK
<1> DEFINE mine == RowsOf(id)
           same == {r \in mine : r.sched = m.ts}
           fin  == IF m.kind = "success" THEN "success" ELSE "failed"
           begin  == [r \in same |-> [r EXCEPT !.status = "running", !.begin = m.ts]]
           finish == [r \in mine |-> [r EXCEPT !.status = fin, !.end = m.ts]]
           newRun == [id |-> id, sched |-> m.ts, status |-> "running",
                      begin |-> m.ts, end |-> None, slot |-> None]
           newEnd == [id |-> id, sched |-> Began(m), status |-> fin,
                      begin |-> Began(m), end |-> m.ts, slot |-> None]
<1>1. mine \subseteq rows /\ same \subseteq rows
  BY DEF RowsOf
<1>2. m.ts \in Time /\ Began(m) \in Time
  BY DEF Report, Began
<1>3. newRun \in ExecRow /\ newEnd \in ExecRow
  BY <1>2 DEF ExecRow
<1>4. (\A r \in same : begin[r] \in ExecRow) /\ (\A r \in mine : finish[r] \in ExecRow)
  <2>1. \A r \in rows : /\ [r EXCEPT !.status = "running", !.begin = m.ts] \in ExecRow
                        /\ [r EXCEPT !.status = fin, !.end = m.ts] \in ExecRow
    BY <1>2 DEF ExecRow
  <2> QED BY <1>1, <2>1
<1>5. IsFiniteSet({begin[r] : r \in same})
  <2>1. begin = [r \in same |-> begin[r]]
    OBVIOUS
  <2>2. IsFiniteSet(same)
    BY <1>1, FS_Subset
  <2> HIDE DEF begin, same
  <2> QED BY <2>1, <2>2, FiniteImage
<1>6. IsFiniteSet({finish[r] : r \in mine})
  <2>1. finish = [r \in mine |-> finish[r]]
    OBVIOUS
  <2>2. IsFiniteSet(mine)
    BY <1>1, FS_Subset
  <2> HIDE DEF finish, mine
  <2> QED BY <2>1, <2>2, FiniteImage
<1>7. Recorded(m, id) \in {rows \cup {newRun}, (rows \ same) \cup {begin[r] : r \in same},
                           rows \cup {newEnd}, (rows \ mine) \cup {finish[r] : r \in mine}}
  BY DEF Recorded
<1>8. /\ rows \cup {newRun} \subseteq ExecRow
      /\ (rows \ same) \cup {begin[r] : r \in same} \subseteq ExecRow
      /\ rows \cup {newEnd} \subseteq ExecRow
      /\ (rows \ mine) \cup {finish[r] : r \in mine} \subseteq ExecRow
  <2> HIDE DEF same, mine, begin, finish, newRun, newEnd
  <2> QED BY <1>1, <1>3, <1>4
<1>9. /\ IsFiniteSet(rows \cup {newRun}) /\ IsFiniteSet(rows \cup {newEnd})
      /\ IsFiniteSet((rows \ same) \cup {begin[r] : r \in same})
      /\ IsFiniteSet((rows \ mine) \cup {finish[r] : r \in mine})
  <2> HIDE DEF same, mine, begin, finish, newRun, newEnd
  <2>1. IsFiniteSet(rows \ same) /\ IsFiniteSet(rows \ mine)
    BY FS_Difference
  <2> QED BY <1>5, <1>6, <2>1, FS_Union, FS_AddElement
<1> HIDE DEF same, mine, begin, finish, newRun, newEnd
<1> QED BY <1>7, <1>8, <1>9

\* Binding an execution's rows to a slot keeps them rows.
LEMMA BoundType ==
  ASSUME NEW rw, rw \subseteq ExecRow, IsFiniteSet(rw), NEW id \in ExecId,
         NEW s \in Slots \cup {None}
  PROVE  Bound(rw, id, s) \subseteq ExecRow /\ IsFiniteSet(Bound(rw, id, s))
<1> DEFINE f == [r \in rw |-> IF r.id = id THEN [r EXCEPT !.slot = s] ELSE r]
<1>1. Bound(rw, id, s) \in {rw, {f[r] : r \in rw}}
  BY DEF Bound
<1>2. {f[r] : r \in rw} \subseteq ExecRow
  BY DEF ExecRow
<1>3. IsFiniteSet({f[r] : r \in rw})
  <2>1. f = [r \in rw |-> f[r]]
    OBVIOUS
  <2> HIDE DEF f
  <2> QED BY <2>1, FiniteImage
<1> HIDE DEF f
<1> QED BY <1>1, <1>2, <1>3

\* Every action keeps the types: the transactions write only values the schema admits.
LEMMA TypeStep == TypeInv /\ [Next]_vars => TypeInv'
<1> SUFFICES ASSUME TypeInv, [Next]_vars
             PROVE  TypeInv'
  OBVIOUS
<1> USE ConstantsAssumption
<1>1. CASE Tick
  BY <1>1 DEF Tick, TypeInv, TypeOK, db, env, Time
<1>2. ASSUME NEW r \in Runs, BeginRun(r)
      PROVE  TypeInv'
  <2>1. queue' \subseteq Report
    BY <1>2 DEF BeginRun, TypeInv, TypeOK, Report, Time
  <2> QED BY <1>2, <2>1 DEF BeginRun, TypeInv, TypeOK, db, env
<1>3. ASSUME NEW r \in Runs, NEW kind \in Endings, EndRun(r, kind)
      PROVE  TypeInv'
  <2>1. queue' \subseteq Report
    BY <1>3 DEF EndRun, TypeInv, TypeOK, Report, Time
  <2> QED BY <1>3, <2>1 DEF EndRun, TypeInv, TypeOK, db, env
<1>4. ASSUME NEW m \in queue, AckDuplicate(m)
      PROVE  TypeInv'
  BY <1>4 DEF AckDuplicate, TypeInv, TypeOK, clocks, db, env
<1>5. ASSUME NEW m \in queue, BeginTx(m)
      PROVE  TypeInv'
  <2>1. tx' \in TxType
    <3>1. ExecIdOf(m) \in ExecId
      BY DEF TypeInv, TypeOK, ExecIdOf, ExecId, Report
    <3> QED BY <1>5, <3>1, SelectSlotOpen DEF BeginTx, TypeInv, TypeOK, TxType
  <2> QED BY <1>5, <2>1 DEF BeginTx, TypeInv, TypeOK, clocks, db, env
<1>6. CASE CommitTx
  <2> DEFINE m == tx.msg
  <2>1. tx \in TxType /\ m \in Report /\ tx.id \in ExecId /\ tx.slot \in Slots \cup {None}
    BY <1>6 DEF CommitTx, TypeInv, TypeOK, TxType
  <2>2. rows' \subseteq ExecRow /\ IsFiniteSet(rows')
    BY <1>6, <2>1, RecordedType, BoundType DEF CommitTx
  <2>3. seen' \subseteq ExecId \X {0, 1}
    BY <1>6, <2>1 DEF CommitTx, TypeInv, TypeOK, EventKey, Sequence, ExecId, Report
  <2>4. slot' \in [Slots -> [state: SlotState, exec: ExecId \cup {None}]]
    <3>1. SlotStateAfter(m.kind) \in SlotState
      BY <2>1 DEF SlotStateAfter, SlotState, Report
    <3> QED BY <1>6, <2>1, <3>1 DEF CommitTx, TypeInv, TypeOK, Attached
  <2>5. job' \in JobType
    BY <1>6, <2>2, JobRowsType DEF CommitTx
  <2>6. queue' \subseteq Report /\ faults' \in 0 .. MaxFaults
    BY <1>6, <2>1 DEF CommitTx, Acked, AckLost, TypeInv, TypeOK
  <2>7. ulid' \in Nat /\ everRan' \in BOOLEAN
    BY <1>6 DEF CommitTx, TypeInv, TypeOK
  <2> QED BY <1>6, <2>2, <2>3, <2>4, <2>5, <2>6, <2>7
          DEF CommitTx, TypeInv, TypeOK, clocks, env
<1>7. CASE AbortTx
  BY <1>7 DEF AbortTx, TypeInv, TypeOK, TxType, clocks, db, env
<1>8. CASE Settle
  <2>1. rows' \subseteq ExecRow /\ IsFiniteSet(rows')
    <3>1. PICK f \in TimedOutRows :
            rows' = {IF \E s \in ToTimeOut : r = f[s]
                     THEN [r EXCEPT !.status = "timeout", !.end = now] ELSE r : r \in rows}
      BY <1>8 DEF Settle
    <3> DEFINE hit == {r \in rows : \E s \in ToTimeOut : r = f[s]}
               out == [r \in rows |-> [r EXCEPT !.status = "timeout", !.end = now]]
               g == [r \in rows |-> IF r \in hit THEN out[r] ELSE r]
    <3>2. rows' = {g[r] : r \in rows} /\ g = [r \in rows |-> g[r]]
      BY <3>1
    <3>3. \A r \in rows : out[r] \in ExecRow
      <4>1. now \in Time /\ rows \subseteq ExecRow
        BY DEF TypeInv, TypeOK
      <4>2. \A r \in ExecRow : [r EXCEPT !.status = "timeout", !.end = now] \in ExecRow
        BY <4>1 DEF ExecRow
      <4> QED BY <4>1, <4>2
    <3>4. \A r \in rows : g[r] = r \/ g[r] = out[r]
      <4> HIDE DEF hit, out
      <4> QED OBVIOUS
    <3>5. \A r \in rows : g[r] \in ExecRow
      <4> HIDE DEF g
      <4> QED BY <3>3, <3>4 DEF TypeInv, TypeOK
    <3> HIDE DEF g
    <3> QED BY <3>2, <3>5, FiniteImage DEF TypeInv
  <2>2. slot' \in [Slots -> [state: SlotState, exec: ExecId \cup {None}]]
    <3>1. \A s \in Slots :
            \E st \in SlotState : SettledSlot(s) = [slot[s] EXCEPT !.state = st]
      BY DEF SettledSlot, SlotState, TypeInv, TypeOK
    <3>2. \A s \in Slots : SettledSlot(s) \in [state: SlotState, exec: ExecId \cup {None}]
      BY <3>1 DEF TypeInv, TypeOK
    <3> QED BY <1>8, <3>2 DEF Settle
  <2>3. missedAt' \in [Slots -> Time \cup {None}]
    BY <1>8 DEF Settle, TypeInv, TypeOK
  <2>4. rpc' \in {"idle", "recompute"}
    BY <1>8 DEF Settle
  <2> QED BY <1>8, <2>1, <2>2, <2>3, <2>4 DEF Settle, TypeInv, TypeOK, clocks, env
<1>9. CASE Recompute
  <2>1. job' \in JobType
    BY <1>9, JobRowsType DEF Recompute, TypeInv
  <2> QED BY <1>9, <2>1 DEF Recompute, TypeInv, TypeOK, clocks, env
<1>10. CASE CrashReconciler
  BY <1>10 DEF CrashReconciler, TypeInv, TypeOK, clocks, db, env
<1>11. ASSUME NEW p \in BOOLEAN, UpdatePaused(p)
       PROVE  TypeInv'
  <2>1. job' \in JobType
    BY <1>11 DEF UpdatePaused, TypeInv, TypeOK, JobType, JobStatus
  <2> QED BY <1>11, <2>1 DEF UpdatePaused, Flip, TypeInv, TypeOK, clocks
<1>12. ASSUME NEW s \in Slots, EditMaintenance(s)
       PROVE  TypeInv'
  <2>1. maint' \subseteq Slots
    <3>1. maint' = maint \ {s} \/ maint' = maint \cup {s}
      BY <1>12 DEF EditMaintenance
    <3> QED BY <3>1 DEF TypeInv, TypeOK
  <2>2. flips' \in 0 .. MaxFlips
    BY <1>12 DEF EditMaintenance, Flip, TypeInv, TypeOK
  <2> QED BY <1>12, <2>1, <2>2 DEF EditMaintenance, TypeInv, TypeOK, clocks, db
<1>13. CASE AgentChange
  BY <1>13 DEF AgentChange, Flip, TypeInv, TypeOK, clocks, db
<1>14. CASE UNCHANGED vars
  BY <1>14 DEF vars, TypeInv, TypeOK
<1> QED
  BY <1>1, <1>2, <1>3, <1>4, <1>5, <1>6, <1>7, <1>8, <1>9, <1>10, <1>11, <1>12, <1>13, <1>14
     DEF Next

\* A new job, with its slots materialised and nothing reported yet.
LEMMA InitTypeInv == Init => TypeInv
<1> SUFFICES ASSUME Init
             PROVE  TypeInv
  OBVIOUS
<1>1. IsFiniteSet(rows)
  BY FS_EmptySet DEF Init
<1>2. slot \in [Slots -> [state: SlotState, exec: ExecId \cup {None}]]
  BY DEF Init, SlotState
<1>3. job \in JobType
  BY DEF Init, JobType, JobState, UnknownReason, JobStatus
<1>4. now \in Time /\ flips \in 0 .. MaxFlips /\ faults \in 0 .. MaxFaults
  BY ConstantsAssumption DEF Init, Time
<1> QED BY <1>1, <1>2, <1>3, <1>4 DEF Init, TypeInv, TypeOK

\* JobPipeline is type correct: every value a transaction writes is one its column admits,
\* for any number of slots, runs, faults and environment changes.
THEOREM TypeCorrect == Spec => []TypeOK
<1>1. Init => TypeInv
  BY InitTypeInv
<1>2. TypeInv /\ [Next]_vars => TypeInv'
  BY TypeStep
<1>3. TypeInv => TypeOK
  BY DEF TypeInv
<1> QED BY <1>1, <1>2, <1>3, PTL DEF Spec

--------------------------------------------------------------------------------
(* The inductive invariant                                                    *)

FinalKey(r) == <<r, IF r \in Unsequenced THEN 0 ELSE 1>>

\* No slot that could still be missed would have accepted a run that began at ts.
NoneWaiting(ts) ==
  \A s \in Slots : InWindow(s, ts) => slot[s].state \notin {"pending", "late"}

\* A success is backed by the dedup key of the final report, or by a minted id in the past.
Credited ==
  \A s \in Slots : slot[s].state = "succeeded" =>
    /\ slot[s].exec \in Runs => FinalKey(slot[s].exec) \in seen
    /\ slot[s].exec \in Nat => slot[s].exec < ulid
    /\ slot[s].exec # None

\* An execution that was given no slot found none waiting, and none has begun to wait since.
UnattachedHadNone == \A r \in rows : r.slot = None => NoneWaiting(r.begin)

\* The job's lock keeps what the open transaction read true: the report is still new, the
\* slot it selected is still unfulfilled, and if it found none there is still none.
TxSound ==
  tx # None =>
    /\ tx.id = ExecIdOf(tx.msg)
    /\ ~Duplicate(tx.msg)
    /\ tx.slot # None => slot[tx.slot].state # "succeeded"
    /\ tx.slot = None =>
         /\ tx.msg.kind = "start" => NoneWaiting(tx.msg.ts)
         /\ tx.msg.kind # "start" /\ RowsOf(tx.id) = {} => NoneWaiting(Began(tx.msg))

Sound ==
  /\ TxSound
  /\ Credited
  /\ OneSuccessPerExec
  /\ UnsettledUnbound
  /\ UnattachedHadNone

IInv == TypeInv /\ Sound

--------------------------------------------------------------------------------
(* The steps of the safety proof                                              *)

\* A slot does not come to wait for a run again, so a start that found none finds none.
LEMMA NoneWaitingStable ==
  ASSUME \A s \in Slots : slot'[s].state \in {"pending", "late"} =>
                            slot[s].state \in {"pending", "late"},
         NEW ts, NoneWaiting(ts)
  PROVE  NoneWaiting(ts)'
BY DEF NoneWaiting, InWindow, Deadline

\* Steps that touch neither the slots nor the executions nor the dedup keys.
LEMMA SoundFrame ==
  ASSUME Sound, UNCHANGED <<slot, rows, seen, ulid>>, tx' = tx \/ tx' = None
  PROVE  Sound'
<1>1. TxSound'
  <2>1. CASE tx' = None
    BY <2>1 DEF TxSound
  <2>2. CASE tx' = tx
    BY <2>2 DEF Sound, TxSound, ExecIdOf, Duplicate, EventKey, Sequence, RowsOf, Began,
                NoneWaiting, InWindow, Deadline
  <2> QED BY <2>1, <2>2
<1>2. Credited'
  BY DEF Sound, Credited, FinalKey
<1>3. OneSuccessPerExec' /\ UnsettledUnbound'
  BY DEF Sound, OneSuccessPerExec, UnsettledUnbound
<1>4. UnattachedHadNone'
  BY DEF Sound, UnattachedHadNone, NoneWaiting, InWindow, Deadline
<1> QED BY <1>1, <1>2, <1>3, <1>4 DEF Sound

\* Opening a transaction: the report is new, and the slot it selected is open.
LEMMA BeginTxSound ==
  ASSUME Sound, NEW m \in queue, BeginTx(m)
  PROVE  Sound'
<1>1. UNCHANGED <<slot, rows, seen, ulid>> /\ ~Duplicate(m)
  BY DEF BeginTx, db
<1>2. PICK ts \in MatchTimes(m, ExecIdOf(m)) : \E s \in SelectSlot(ts) :
             tx' = [msg |-> m, id |-> ExecIdOf(m), slot |-> s]
  BY DEF BeginTx
<1>3. PICK s \in SelectSlot(ts) : tx' = [msg |-> m, id |-> ExecIdOf(m), slot |-> s]
  BY <1>2
<1>4. s # None => slot[s].state # "succeeded"
  BY SelectSlotOpen DEF OPEN
<1>5. s = None => NoneWaiting(ts)
  <2>1. s = None => Candidates(ts) = {}
    BY SelectSlotOpen, ConstantsAssumption
  <2> QED BY <2>1 DEF Candidates, NoneWaiting, OPEN
<1>6. /\ m.kind = "start" => ts = m.ts
      /\ m.kind # "start" /\ RowsOf(ExecIdOf(m)) = {} => ts = Began(m)
  BY DEF MatchTimes
<1>7. TxSound'
  <2>1. tx'.msg = m /\ tx'.id = ExecIdOf(m) /\ tx'.slot = s
    BY <1>3
  <2>2. ExecIdOf(m)' = ExecIdOf(m) /\ Duplicate(m)' = Duplicate(m)
    BY <1>1 DEF ExecIdOf, Duplicate, EventKey, Sequence
  <2>3. (RowsOf(tx.id) = {})' => RowsOf(ExecIdOf(m)) = {}
    BY <1>1, <2>1 DEF RowsOf
  <2>4. \A u : NoneWaiting(u) => NoneWaiting(u)'
    BY <1>1 DEF NoneWaiting, InWindow, Deadline
  <2>5. s = None => /\ m.kind = "start" => NoneWaiting(m.ts)'
                    /\ m.kind # "start" /\ RowsOf(ExecIdOf(m)) = {} => NoneWaiting(Began(m))'
    BY <1>5, <1>6, <2>4
  <2> QED BY <1>1, <1>4, <2>1, <2>2, <2>3, <2>5 DEF TxSound, Began, ExecIdOf, Duplicate,
             EventKey, Sequence, NoneWaiting, InWindow, Deadline
<1>8. Credited'
  BY <1>1 DEF Sound, Credited, FinalKey
<1>9. OneSuccessPerExec' /\ UnsettledUnbound'
  BY <1>1 DEF Sound, OneSuccessPerExec, UnsettledUnbound
<1>10. UnattachedHadNone'
  BY <1>1 DEF Sound, UnattachedHadNone, NoneWaiting, InWindow, Deadline
<1> QED BY <1>7, <1>8, <1>9, <1>10 DEF Sound

\* What a settling pass does to a slot: it keeps its execution, leaves a fulfilled slot
\* alone, and buries only slots that were waiting.
LEMMA SettleSlots ==
  ASSUME TypeInv, Settle, NEW s \in Slots
  PROVE  /\ slot'[s].exec = slot[s].exec
         /\ slot'[s].state = "succeeded" <=> slot[s].state = "succeeded"
         /\ slot[s].state = "succeeded" => slot'[s] = slot[s]
         /\ slot'[s].state \in {"pending", "late"} => slot[s].state \in {"pending", "late"}
         /\ slot'[s].state \in {"pending", "late", "missed", "skipped"} =>
              slot[s].state \in {"pending", "late", "missed", "skipped"}
<1>1. slot'[s] = SettledSlot(s)
  BY DEF Settle
<1>2. slot[s] \in [state: SlotState, exec: ExecId \cup {None}]
  BY DEF TypeInv, TypeOK
<1>3. s \in ToSkip \/ s \in ToMarkLate \/ s \in ToMarkMissed =>
        slot[s].state \in {"pending", "late"}
  BY DEF ToSkip, ToMarkLate, ToMarkMissed, Unsettled
<1>4. s \in ToTimeOut => slot[s].state = "running"
  BY DEF ToTimeOut
<1> QED BY <1>1, <1>2, <1>3, <1>4 DEF SettledSlot

\* What it does to the executions: their status and end, never their slot, id or begin.
LEMMA SettleRows ==
  ASSUME TypeInv, Settle
  PROVE  /\ \A r \in rows' : \E q \in rows : r.id = q.id /\ r.slot = q.slot /\ r.begin = q.begin
         /\ \A q \in rows : \E r \in rows' : r.id = q.id
<1>1. PICK f \in TimedOutRows :
        rows' = {IF \E s \in ToTimeOut : r = f[s]
                 THEN [r EXCEPT !.status = "timeout", !.end = now] ELSE r : r \in rows}
  BY DEF Settle
<1>2. \A q \in rows :
        LET o == [q EXCEPT !.status = "timeout", !.end = now]
        IN  o.id = q.id /\ o.slot = q.slot /\ o.begin = q.begin
  BY DEF TypeInv, TypeOK, ExecRow
<1>3. \A r \in rows' : \E q \in rows :
        r = q \/ r = [q EXCEPT !.status = "timeout", !.end = now]
  BY <1>1
<1>4. \A q \in rows :
        q \in rows' \/ [q EXCEPT !.status = "timeout", !.end = now] \in rows'
  BY <1>1
<1> QED BY <1>2, <1>3, <1>4

\* A settling pass, even one that falls inside an exec-processor's transaction.
LEMMA SettleSound ==
  ASSUME TypeInv, Sound, Settle
  PROVE  Sound'
<1>1. UNCHANGED <<tx, seen, ulid>>
  BY DEF Settle
<1>2. \A ts : NoneWaiting(ts) => NoneWaiting(ts)'
  BY SettleSlots, NoneWaitingStable
<1>3. TxSound'
  <2> SUFFICES ASSUME tx' # None
               PROVE  TxSound'
    BY DEF TxSound
  <2>1. tx \in TxType /\ TxSound
    BY <1>1 DEF TypeInv, TypeOK, Sound
  <2>2. tx.slot # None => slot'[tx.slot].state # "succeeded"
    BY <1>1, <2>1, SettleSlots DEF TxSound, TxType
  <2>3. (RowsOf(tx.id) = {})' => RowsOf(tx.id) = {}
    BY <1>1, SettleRows DEF RowsOf
  <2>4. tx.slot = None =>
          /\ tx.msg.kind = "start" => NoneWaiting(tx.msg.ts)'
          /\ tx.msg.kind # "start" /\ (RowsOf(tx.id) = {})' => NoneWaiting(Began(tx.msg))'
    BY <1>1, <1>2, <2>1, <2>3 DEF TxSound
  <2>5. tx.id = ExecIdOf(tx.msg)' /\ ~Duplicate(tx.msg)'
    BY <1>1, <2>1 DEF TxSound, ExecIdOf, Duplicate, EventKey, Sequence
  <2> QED BY <1>1, <2>2, <2>4, <2>5 DEF TxSound, ExecIdOf, Duplicate, EventKey, Sequence, Began,
             RowsOf, NoneWaiting, InWindow, Deadline
<1>4. Credited'
  BY <1>1, SettleSlots DEF Sound, Credited, FinalKey
<1>5. OneSuccessPerExec'
  BY SettleSlots DEF Sound, OneSuccessPerExec
<1>6. UnsettledUnbound'
  BY SettleSlots, SettleRows DEF Sound, UnsettledUnbound
<1>7. UnattachedHadNone'
  BY <1>2, SettleRows DEF Sound, UnattachedHadNone
<1> QED BY <1>3, <1>4, <1>5, <1>6, <1>7 DEF Sound

\* Every row a report leaves was there before under the same execution and slot, or is the
\* report's own and not bound yet.
LEMMA RecordedRows ==
  ASSUME TypeInv, NEW m \in Report, NEW id \in ExecId, NEW r \in Recorded(m, id)
  PROVE  \/ /\ r.id = id /\ r.slot = None
            /\ \/ m.kind = "start" /\ r.begin = m.ts
               \/ m.kind # "start" /\ RowsOf(id) = {} /\ r.begin = Began(m)
         \/ \E q \in rows : /\ r.id = q.id /\ r.slot = q.slot
                            /\ \/ r.begin = q.begin
                               \/ q.id = id /\ m.kind = "start" /\ r.begin = m.ts
<1> DEFINE fin == IF m.kind = "success" THEN "success" ELSE "failed"
<1>1. rows \subseteq ExecRow
  BY DEF TypeInv, TypeOK
<1>2. \A q \in ExecRow :
        LET b == [q EXCEPT !.status = "running", !.begin = m.ts]
            e == [q EXCEPT !.status = fin, !.end = m.ts]
        IN  /\ b.id = q.id /\ b.slot = q.slot /\ b.begin = m.ts
            /\ e.id = q.id /\ e.slot = q.slot /\ e.begin = q.begin
  BY DEF ExecRow
<1>3. CASE m.kind = "start"
  <2>1. \/ r \in rows
        \/ r = [id |-> id, sched |-> m.ts, status |-> "running",
                begin |-> m.ts, end |-> None, slot |-> None]
        \/ \E q \in rows : q.id = id /\ r = [q EXCEPT !.status = "running", !.begin = m.ts]
    BY <1>3 DEF Recorded, RowsOf
  <2>2. CASE r \in rows
    BY <2>2
  <2>3. CASE r = [id |-> id, sched |-> m.ts, status |-> "running",
                  begin |-> m.ts, end |-> None, slot |-> None]
    BY <1>3, <2>3
  <2>4. ASSUME NEW q \in rows, q.id = id, r = [q EXCEPT !.status = "running", !.begin = m.ts]
        PROVE  r.id = q.id /\ r.slot = q.slot /\ r.begin = m.ts
    BY <1>1, <1>2, <2>4
  <2> QED BY <1>3, <2>1, <2>2, <2>3, <2>4
<1>4. CASE m.kind # "start"
  <2>1. \/ r \in rows
        \/ RowsOf(id) = {} /\ r = [id |-> id, sched |-> Began(m), status |-> fin,
                                  begin |-> Began(m), end |-> m.ts, slot |-> None]
        \/ \E q \in rows : q.id = id /\ r = [q EXCEPT !.status = fin, !.end = m.ts]
    BY <1>4 DEF Recorded, RowsOf
  <2> HIDE DEF fin
  <2>2. CASE r \in rows
    BY <2>2
  <2>3. CASE RowsOf(id) = {} /\ r = [id |-> id, sched |-> Began(m), status |-> fin,
                                    begin |-> Began(m), end |-> m.ts, slot |-> None]
    BY <1>4, <2>3
  <2>4. ASSUME NEW q \in rows, r = [q EXCEPT !.status = fin, !.end = m.ts]
        PROVE  r.id = q.id /\ r.slot = q.slot /\ r.begin = q.begin
    BY <1>1, <1>2, <2>4
  <2> QED BY <2>1, <2>2, <2>3, <2>4
<1> QED BY <1>3, <1>4

\* Binding touches only the execution's own rows, and only their slot.
LEMMA BoundRows ==
  ASSUME NEW rw, rw \subseteq ExecRow, NEW id, NEW s, NEW r \in Bound(rw, id, s)
  PROVE  \E q \in rw : /\ r.id = q.id /\ r.begin = q.begin
                       /\ \/ r.slot = q.slot /\ (s = None \/ q.id # id)
                          \/ s # None /\ q.id = id /\ r.slot = s
<1>1. \A q \in ExecRow : LET b == [q EXCEPT !.slot = s]
                         IN  b.id = q.id /\ b.begin = q.begin /\ b.slot = s
  BY DEF ExecRow
<1> QED BY <1>1 DEF Bound

\* What a commit does to the slots: it writes the selected one, whatever its state is now,
\* and makes it a success only for a final report of success.
LEMMA CommitSlots ==
  ASSUME TypeInv, CommitTx, NEW s \in Slots
  PROVE  /\ s # tx.slot => slot'[s] = slot[s]
         /\ s = tx.slot => /\ slot'[s].exec = tx.id
                           /\ slot'[s].state \in {"running", "succeeded", "failed"}
                           /\ slot'[s].state = "succeeded" => tx.msg.kind = "success"
<1>1. tx \in TxType /\ tx.msg.kind \in {"start", "success", "fail"}
  BY DEF CommitTx, TypeInv, TypeOK, TxType, Report
<1>2. slot' = Attached(tx.slot, tx.id, tx.msg.kind)
  BY DEF CommitTx
<1>3. s # None
  BY ConstantsAssumption
<1> QED BY <1>1, <1>2, <1>3 DEF Attached, SlotStateAfter, TypeInv, TypeOK

\* The execution a transaction writes is the one its report names.
LEMMA TxExec ==
  ASSUME TypeInv, TxSound, CommitTx
  PROVE  /\ tx.msg \in Report /\ tx.id \in ExecId /\ tx.slot \in Slots \cup {None}
         /\ tx.id # None
         /\ tx.msg.run \in Anonymous => tx.id \in Nat /\ tx.id = ulid /\ tx.id \notin Runs
         /\ tx.msg.run \notin Anonymous =>
              /\ tx.id \in Runs /\ tx.id \notin Nat
              /\ tx.msg.kind # "start" => EventKey(tx.msg) = FinalKey(tx.id)
              /\ EventKey(tx.msg) \notin seen
<1>1. tx \in TxType /\ tx.msg \in Report /\ tx.msg.run \in Runs /\ ulid \in Nat
  BY DEF CommitTx, TypeInv, TypeOK, TxType, Report
<1>2. tx.id = ExecIdOf(tx.msg) /\ ~Duplicate(tx.msg)
  BY DEF TxSound, CommitTx
<1> QED BY <1>1, <1>2, ConstantsAssumption
       DEF TxType, ExecId, ExecIdOf, Duplicate, EventKey, Sequence, FinalKey

\* Committing a report: the proof that nothing is credited twice and nothing is overlooked.
LEMMA CommitSound ==
  ASSUME TypeInv, Sound, CommitTx
  PROVE  Sound'
<1> DEFINE m == tx.msg
<1>1. TxSound
  BY DEF Sound
<1>2. /\ seen \subseteq seen'
      /\ ulid \in Nat /\ ulid' \in Nat /\ ulid <= ulid'
      /\ m.run \in Anonymous => ulid' = ulid + 1
      /\ m.run \notin Anonymous => EventKey(m) \in seen'
  BY DEF CommitTx, TypeInv, TypeOK
<1>3. \A ts : NoneWaiting(ts) => NoneWaiting(ts)'
  BY CommitSlots, NoneWaitingStable
<1>4. \A r \in rows' : \E q \in Recorded(m, tx.id) :
         /\ r.id = q.id /\ r.begin = q.begin
         /\ \/ r.slot = q.slot /\ (tx.slot = None \/ q.id # tx.id)
            \/ tx.slot # None /\ q.id = tx.id /\ r.slot = tx.slot
  <2>1. Recorded(m, tx.id) \subseteq ExecRow
    BY <1>1, TxExec, RecordedType
  <2>2. rows' = Bound(Recorded(m, tx.id), tx.id, tx.slot)
    BY DEF CommitTx
  <2> QED BY <2>1, <2>2, BoundRows
<1>5. TxSound'
  BY DEF CommitTx, TxSound
<1>6. Credited'
  <2> SUFFICES ASSUME NEW s \in Slots, slot'[s].state = "succeeded"
               PROVE  /\ slot'[s].exec \in Runs => FinalKey(slot'[s].exec) \in seen'
                      /\ slot'[s].exec \in Nat => slot'[s].exec < ulid'
                      /\ slot'[s].exec # None
    BY DEF Credited, FinalKey
  <2>1. CASE s # tx.slot
    <3>1. slot'[s] = slot[s]
      BY <2>1, CommitSlots
    <3> QED BY <1>2, <3>1 DEF Sound, Credited
  <2>2. CASE s = tx.slot
    <3>1. slot'[s].exec = tx.id /\ m.kind = "success"
      BY <2>2, CommitSlots
    <3> QED BY <1>1, <1>2, <3>1, TxExec
  <2> QED BY <2>1, <2>2
<1>7. OneSuccessPerExec'
  <2>1. ASSUME NEW s \in Slots, s # tx.slot, tx.slot \in Slots,
               slot[s].state = "succeeded", slot[s].exec = tx.id, m.kind = "success"
        PROVE  FALSE
    <3>1. /\ tx.id \in Runs => FinalKey(tx.id) \in seen
          /\ tx.id \in Nat => tx.id < ulid
      BY <2>1 DEF Sound, Credited
    <3> QED BY <1>1, <1>2, <2>1, <3>1, TxExec
  <2> SUFFICES ASSUME NEW s1 \in Slots, NEW s2 \in Slots,
                      slot'[s1].state = "succeeded", slot'[s2].state = "succeeded",
                      slot'[s1].exec = slot'[s2].exec
               PROVE  s1 = s2
    BY DEF OneSuccessPerExec
  <2>2. CASE s1 # tx.slot /\ s2 # tx.slot
    <3>1. slot'[s1] = slot[s1] /\ slot'[s2] = slot[s2]
      BY <2>2, CommitSlots
    <3> QED BY <3>1 DEF Sound, OneSuccessPerExec
  <2>3. CASE s1 = tx.slot /\ s2 # tx.slot
    BY <2>1, <2>3, CommitSlots
  <2>4. CASE s2 = tx.slot /\ s1 # tx.slot
    BY <2>1, <2>4, CommitSlots
  <2> QED BY <2>2, <2>3, <2>4
<1>8. UnsettledUnbound'
  <2> SUFFICES ASSUME NEW s \in Slots,
                      slot'[s].state \in {"pending", "late", "missed", "skipped"}
               PROVE  slot'[s].exec = None /\ \A r \in rows' : r.slot # s
    BY DEF UnsettledUnbound
  <2>1. s # tx.slot /\ slot'[s] = slot[s]
    BY CommitSlots
  <2>2. slot[s].exec = None /\ \A q \in rows : q.slot # s
    BY <2>1 DEF Sound, UnsettledUnbound
  <2>3. \A q \in Recorded(m, tx.id) : q.slot # s
    BY <1>1, <2>2, TxExec, RecordedRows, ConstantsAssumption
  <2> QED BY <1>4, <2>1, <2>2, <2>3
<1>9. UnattachedHadNone'
  <2> SUFFICES ASSUME NEW r \in rows', r.slot = None
               PROVE  NoneWaiting(r.begin)
    BY <1>3 DEF UnattachedHadNone
  <2>1. PICK q \in Recorded(m, tx.id) :
          /\ r.begin = q.begin /\ q.slot = None
          /\ tx.slot = None \/ q.id # tx.id
    BY <1>4
  <2>2. q.id = tx.id =>
          /\ m.kind = "start" => NoneWaiting(m.ts)
          /\ m.kind # "start" /\ RowsOf(tx.id) = {} => NoneWaiting(Began(m))
    BY <1>1, <2>1 DEF TxSound, CommitTx
  <2>3. \A x \in rows : x.slot = None => NoneWaiting(x.begin)
    BY DEF Sound, UnattachedHadNone
  <2> QED BY <1>1, <2>1, <2>2, <2>3, TxExec, RecordedRows
<1> QED BY <1>5, <1>6, <1>7, <1>8, <1>9 DEF Sound

\* Only a settling pass and a commit touch the slots.
LEMMA SlotWriters ==
  ASSUME [Next]_vars
  PROVE  Settle \/ CommitTx \/ UNCHANGED slot
<1>1. CASE UNCHANGED vars
  BY <1>1 DEF vars
<1>2. CASE Next
  BY <1>2 DEF Next, Tick, BeginRun, EndRun, AckDuplicate, BeginTx, AbortTx, Recompute,
              CrashReconciler, UpdatePaused, EditMaintenance, AgentChange, db
<1> QED BY <1>1, <1>2

LEMMA SoundStep == TypeInv /\ Sound /\ [Next]_vars => Sound'
<1> SUFFICES ASSUME TypeInv, Sound, [Next]_vars
             PROVE  Sound'
  OBVIOUS
<1>1. CASE Tick
  BY <1>1, SoundFrame DEF Tick, db
<1>2. ASSUME NEW r \in Runs, BeginRun(r)
      PROVE  Sound'
  BY <1>2, SoundFrame DEF BeginRun, db
<1>3. ASSUME NEW r \in Runs, NEW kind \in Endings, EndRun(r, kind)
      PROVE  Sound'
  BY <1>3, SoundFrame DEF EndRun, db
<1>4. ASSUME NEW m \in queue, AckDuplicate(m)
      PROVE  Sound'
  BY <1>4, SoundFrame DEF AckDuplicate, db
<1>5. ASSUME NEW m \in queue, BeginTx(m)
      PROVE  Sound'
  BY <1>5, BeginTxSound
<1>6. CASE CommitTx
  BY <1>6, CommitSound
<1>7. CASE AbortTx
  BY <1>7, SoundFrame DEF AbortTx, db
<1>8. CASE Settle
  BY <1>8, SettleSound
<1>9. CASE Recompute
  BY <1>9, SoundFrame DEF Recompute
<1>10. CASE CrashReconciler
  BY <1>10, SoundFrame DEF CrashReconciler, db
<1>11. ASSUME NEW p \in BOOLEAN, UpdatePaused(p)
       PROVE  Sound'
  BY <1>11, SoundFrame DEF UpdatePaused
<1>12. ASSUME NEW s \in Slots, EditMaintenance(s)
       PROVE  Sound'
  BY <1>12, SoundFrame DEF EditMaintenance, db
<1>13. CASE AgentChange
  BY <1>13, SoundFrame DEF AgentChange, db
<1>14. CASE UNCHANGED vars
  BY <1>14, SoundFrame DEF vars
<1> QED
  BY <1>1, <1>2, <1>3, <1>4, <1>5, <1>6, <1>7, <1>8, <1>9, <1>10, <1>11, <1>12, <1>13, <1>14
     DEF Next

\* The inductive invariant holds of every reachable state.
THEOREM Invariance == Spec => []IInv
<1>1. Init => TypeInv
  BY InitTypeInv
<1>2. Init => Sound
  BY DEF Init, Sound, TxSound, Credited, OneSuccessPerExec, UnsettledUnbound,
         UnattachedHadNone
<1>3. TypeInv /\ [Next]_vars => TypeInv'
  BY TypeStep
<1>4. TypeInv /\ Sound /\ [Next]_vars => Sound'
  BY SoundStep
<1> QED BY <1>1, <1>2, <1>3, <1>4, PTL DEF Spec, IInv

--------------------------------------------------------------------------------
(* What follows                                                               *)

\* One execution fulfils at most one expected run, whatever is redelivered or reordered.
THEOREM NoDoubleCredit == Spec => []OneSuccessPerExec
<1>1. IInv => OneSuccessPerExec
  BY DEF IInv, Sound
<1> QED BY <1>1, Invariance, PTL

\* The reconciler never buries an execution under a missed or skipped slot.
THEOREM NothingBuried == Spec => []UnsettledUnbound
<1>1. IInv => UnsettledUnbound
  BY DEF IInv, Sound
<1> QED BY <1>1, Invariance, PTL

\* A fulfilled slot never changes again.  This is where the job's lock is needed: it keeps
\* the slot an open transaction selected unfulfilled until the transaction ends.
THEOREM FulfilledIsFinal == Spec => SucceededIsFinal
<1>1. IInv /\ [Next]_vars =>
        [\A s \in Slots : slot[s].state = "succeeded" => slot'[s] = slot[s]]_vars
  <2> SUFFICES ASSUME IInv, [Next]_vars, NEW s \in Slots, slot[s].state = "succeeded"
               PROVE  slot'[s] = slot[s]
    OBVIOUS
  <2>1. CASE Settle
    BY <2>1, SettleSlots DEF IInv
  <2>2. CASE CommitTx
    <3>1. tx.slot # s
      BY <2>2, ConstantsAssumption DEF IInv, Sound, TxSound, CommitTx
    <3> QED BY <2>2, <3>1, CommitSlots DEF IInv
  <2>3. CASE UNCHANGED slot
    BY <2>3
  <2> QED BY <2>1, <2>2, <2>3, SlotWriters
<1> QED BY <1>1, Invariance, PTL DEF Spec, SucceededIsFinal

\* No slot is declared missed while an execution on record that began in its window goes
\* uncredited.
THEOREM MissesAreReal == Spec => NoFalseMiss
<1>1. IInv /\ [Next]_vars =>
        [\A s \in Slots : slot[s].state # "missed" /\ slot'[s].state = "missed" =>
           \A r \in rows : InWindow(s, r.begin) => r.slot # None]_vars
  <2> SUFFICES ASSUME IInv, [Next]_vars, NEW s \in Slots,
                      slot[s].state # "missed", slot'[s].state = "missed",
                      NEW r \in rows, InWindow(s, r.begin)
               PROVE  r.slot # None
    OBVIOUS
  <2>1. CASE Settle
    <3>1. slot'[s] = SettledSlot(s) /\ slot[s] \in [state: SlotState, exec: ExecId \cup {None}]
      BY <2>1 DEF Settle, IInv, TypeInv, TypeOK
    <3>2. s \in ToMarkMissed
      BY <3>1 DEF SettledSlot
    <3>3. slot[s].state \in {"pending", "late"}
      BY <3>2 DEF ToMarkMissed, Unsettled
    <3> QED BY <3>3 DEF IInv, Sound, UnattachedHadNone, NoneWaiting
  <2>2. CASE CommitTx
    BY <2>2, CommitSlots DEF IInv
  <2>3. CASE UNCHANGED slot
    BY <2>3
  <2> QED BY <2>1, <2>2, <2>3, SlotWriters
<1> QED BY <1>1, Invariance, PTL DEF Spec, NoFalseMiss

\* While a job is paused or under maintenance no slot of it becomes late or missed.
THEOREM PausedIsSilent == Spec => SkippedNotBlamed
<1>1. IInv /\ [Next]_vars =>
        [\A s \in Slots :
           slot'[s].state \in {"late", "missed"} /\ slot'[s].state # slot[s].state =>
             ~paused /\ s \notin maint]_vars
  <2> SUFFICES ASSUME IInv, [Next]_vars, NEW s \in Slots,
                      slot'[s].state \in {"late", "missed"}, slot'[s].state # slot[s].state
               PROVE  ~paused /\ s \notin maint
    OBVIOUS
  <2>1. CASE Settle
    <3>1. slot'[s] = SettledSlot(s) /\ slot[s] \in [state: SlotState, exec: ExecId \cup {None}]
      BY <2>1 DEF Settle, IInv, TypeInv, TypeOK
    <3>2. s \notin ToSkip /\ (s \in ToMarkLate \/ s \in ToMarkMissed)
      BY <3>1 DEF SettledSlot
    <3>3. GraceUntil(s) < now
      <4>1. now \in Int /\ GraceUntil(s) \in Int /\ Deadline(s) \in Int
            /\ GraceUntil(s) <= Deadline(s)
        BY ConstantsAssumption DEF IInv, TypeInv, TypeOK, Time, GraceUntil, Deadline
      <4> QED BY <3>2, <4>1 DEF ToMarkLate, ToMarkMissed
    <3>4. Unsettled(s)
      BY <3>2 DEF ToMarkLate, ToMarkMissed, Unsettled
    <3> QED BY <3>2, <3>3, <3>4 DEF ToSkip
  <2>2. CASE CommitTx
    BY <2>2, CommitSlots DEF IInv
  <2>3. CASE UNCHANGED slot
    BY <2>3
  <2> QED BY <2>1, <2>2, <2>3, SlotWriters
<1> QED BY <1>1, Invariance, PTL DEF Spec, SkippedNotBlamed

--------------------------------------------------------------------------------
(* Successes are real                                                         *)

\* A report says what happened on the host.
TrueReport(m) ==
  /\ begun[m.run] # None
  /\ m.kind = "start" => m.ts = begun[m.run]
  /\ m.kind # "start" => ended[m.run] = m.kind /\ m.began = begun[m.run]

TrueReports == (\A m \in queue : TrueReport(m)) /\ (tx # None => TrueReport(tx.msg))

\* Only what began ends.
BegunFirst == \A r \in Runs : ended[r] # None => begun[r] # None

\* An execution on record, whichever report wrote it first, has the run's real start.
TrueRows == \A r \in rows : r.id \in Runs => begun[r.id] # None /\ r.begin = begun[r.id]

\* The slot an open transaction selected is one the run really began in.
TrueMatch ==
  tx # None => (tx.slot # None /\ tx.id \in Runs => InWindow(tx.slot, begun[tx.id]))

Real == TrueReports /\ BegunFirst /\ TrueRows /\ TrueMatch /\ SucceededIsReal

\* What has happened on the host does not change.
HistoryKept ==
  \A r \in Runs : /\ begun[r] # None => begun'[r] = begun[r]
                  /\ ended[r] # None => ended'[r] = ended[r]

LEMMA TrueReportKept ==
  ASSUME HistoryKept, NEW m \in Report, TrueReport(m)
  PROVE  TrueReport(m)'
<1>1. m.run \in Runs /\ m.kind \in {"start", "success", "fail"}
  BY DEF Report
<1>2. m.kind # "start" => ended[m.run] # None
  BY <1>1, ConstantsAssumption DEF TrueReport
<1> QED BY <1>1, <1>2 DEF TrueReport, HistoryKept

\* Success survives what else happens on the host.
LEMMA RealKept ==
  ASSUME TypeInv, TxSound, Real, HistoryKept, BegunFirst', UNCHANGED <<slot, rows>>,
         tx' = tx \/ tx' = None, \A m \in queue' : TrueReport(m)'
  PROVE  Real'
<1>1. tx # None => tx.msg \in Report /\ tx.msg.run \in Runs /\ tx.id = ExecIdOf(tx.msg)
  BY DEF TypeInv, TypeOK, TxType, Report, TxSound
<1>2. TrueReports'
  BY <1>1, TrueReportKept DEF Real, TrueReports
<1>3. TrueRows'
  BY DEF Real, TrueRows, HistoryKept
<1>4. TrueMatch'
  <2> SUFFICES ASSUME tx' # None, tx'.slot # None, tx'.id \in Runs
               PROVE  InWindow(tx'.slot, begun'[tx'.id])
    BY DEF TrueMatch, InWindow, Deadline
  <2>1. tx' = tx /\ InWindow(tx.slot, begun[tx.id])
    BY DEF Real, TrueMatch
  <2>2. begun[tx.id] # None
    BY <1>1, <2>1, ConstantsAssumption DEF Real, TrueReports, TrueReport, ExecIdOf, TypeInv, TypeOK
  <2> QED BY <2>1, <2>2 DEF HistoryKept
<1>5. SucceededIsReal'
  <2> SUFFICES ASSUME NEW s \in Slots, NEW r \in Runs, slot'[s].state = "succeeded", slot'[s].exec = r
               PROVE  ended'[r] = "success" /\ InWindow(s, begun'[r])
    BY DEF SucceededIsReal, InWindow, Deadline
  <2>1. ended[r] = "success" /\ InWindow(s, begun[r])
    BY DEF Real, SucceededIsReal
  <2>2. ended[r] # None /\ begun[r] # None
    BY <2>1, ConstantsAssumption DEF Real, BegunFirst
  <2> QED BY <2>1, <2>2 DEF HistoryKept
<1> QED BY <1>2, <1>3, <1>4, <1>5 DEF Real

\* attach_slot looks for a slot around the instant the run really began.
LEMMA TrueMatchTimes ==
  ASSUME Real, NEW m \in queue, NEW ts \in MatchTimes(m, ExecIdOf(m)), ExecIdOf(m) \in Runs,
         TypeInv
  PROVE  ts = begun[ExecIdOf(m)]
<1>1. m \in Report /\ TrueReport(m) /\ m.run = ExecIdOf(m)
  BY ConstantsAssumption DEF TypeInv, TypeOK, ExecIdOf, Real, TrueReports
<1>2. CASE m.kind = "start"
  BY <1>1, <1>2 DEF MatchTimes, TrueReport
<1>3. CASE m.kind # "start" /\ RowsOf(ExecIdOf(m)) = {}
  BY <1>1, <1>3 DEF MatchTimes, TrueReport, Began
<1>4. CASE m.kind # "start" /\ RowsOf(ExecIdOf(m)) # {}
  BY <1>1, <1>4 DEF MatchTimes, RowsOf, Real, TrueRows
<1> QED BY <1>2, <1>3, <1>4

LEMMA BeginTxReal ==
  ASSUME TypeInv, Real, NEW m \in queue, BeginTx(m)
  PROVE  Real'
<1>1. UNCHANGED <<begun, ended, slot, rows>> /\ queue' \subseteq queue
  BY DEF BeginTx, db, clocks
<1>2. PICK ts \in MatchTimes(m, ExecIdOf(m)) : \E s \in SelectSlot(ts) :
             tx' = [msg |-> m, id |-> ExecIdOf(m), slot |-> s]
  BY DEF BeginTx
<1>3. PICK s \in SelectSlot(ts) : tx' = [msg |-> m, id |-> ExecIdOf(m), slot |-> s]
  BY <1>2
<1>4. s # None => InWindow(s, ts)
  BY DEF SelectSlot, Nearest, Candidates
<1>5. TrueMatch'
  <2> SUFFICES ASSUME s # None, ExecIdOf(m) \in Runs PROVE InWindow(s, begun'[ExecIdOf(m)])
    BY <1>3 DEF TrueMatch, InWindow, Deadline
  <2> QED BY <1>1, <1>4, TrueMatchTimes
<1>6. TrueReports'
  BY <1>1, <1>3 DEF Real, TrueReports, TrueReport
<1>7. BegunFirst' /\ TrueRows' /\ SucceededIsReal'
  BY <1>1 DEF Real, BegunFirst, TrueRows, SucceededIsReal, InWindow, Deadline
<1> QED BY <1>5, <1>6, <1>7 DEF Real

LEMMA CommitReal ==
  ASSUME TypeInv, TxSound, Real, CommitTx
  PROVE  Real'
<1> DEFINE m == tx.msg
<1>1. UNCHANGED <<begun, ended>> /\ tx # None /\ tx' = None /\ queue' \subseteq queue \cup {m}
  BY DEF CommitTx, clocks, Acked, AckLost
<1>2. m \in Report /\ TrueReport(m) /\ tx.id \in ExecId /\ (tx.id \in Runs => m.run = tx.id)
  BY <1>1, TxExec DEF Real, TrueReports, TxSound, ExecIdOf
<1>3. TrueReports'
  BY <1>1, <1>2 DEF Real, TrueReports, TrueReport
<1>4. TrueRows'
  <2> SUFFICES ASSUME NEW r \in rows', r.id \in Runs
               PROVE  begun[r.id] # None /\ r.begin = begun[r.id]
    BY <1>1 DEF TrueRows
  <2>1. PICK q \in Recorded(m, tx.id) : r.id = q.id /\ r.begin = q.begin
    <3>1. Recorded(m, tx.id) \subseteq ExecRow
      BY <1>2, RecordedType
    <3>2. rows' = Bound(Recorded(m, tx.id), tx.id, tx.slot)
      BY DEF CommitTx
    <3> QED BY <3>1, <3>2, BoundRows
  <2>2. \/ q.id = tx.id /\ m.kind = "start" /\ q.begin = m.ts
        \/ q.id = tx.id /\ m.kind # "start" /\ q.begin = Began(m)
        \/ \E p \in rows : q.id = p.id /\ q.begin = p.begin
    BY <1>2, RecordedRows
  <2>3. q.id = tx.id => begun[q.id] # None /\ (m.kind = "start" => m.ts = begun[q.id])
                     /\ (m.kind # "start" => Began(m) = begun[q.id])
    BY <1>2, <2>1 DEF TrueReport, Began
  <2> QED BY <2>1, <2>2, <2>3 DEF Real, TrueRows
<1>5. SucceededIsReal'
  <2> SUFFICES ASSUME NEW s \in Slots, NEW r \in Runs, slot'[s].state = "succeeded", slot'[s].exec = r
               PROVE  ended[r] = "success" /\ InWindow(s, begun[r])
    BY <1>1 DEF SucceededIsReal, InWindow, Deadline
  <2>1. CASE s # tx.slot
    BY <2>1, CommitSlots DEF Real, SucceededIsReal
  <2>2. CASE s = tx.slot
    <3>1. tx.id = r /\ m.kind = "success"
      BY <2>2, CommitSlots
    <3>2. ended[r] = "success"
      BY <1>2, <3>1 DEF TrueReport
    <3>3. InWindow(s, begun[r])
      BY <1>1, <2>2, <3>1, ConstantsAssumption DEF Real, TrueMatch
    <3> QED BY <3>2, <3>3
  <2> QED BY <2>1, <2>2
<1>6. BegunFirst' /\ TrueMatch'
  BY <1>1 DEF Real, BegunFirst, TrueMatch
<1> QED BY <1>3, <1>4, <1>5, <1>6 DEF Real

LEMMA SettleReal ==
  ASSUME TypeInv, Real, Settle
  PROVE  Real'
<1>1. UNCHANGED <<begun, ended, queue, tx>>
  BY Zenon DEF Settle, clocks
<1>2. TrueRows'
  BY <1>1, SettleRows DEF Real, TrueRows
<1>3. SucceededIsReal'
  BY <1>1, SettleSlots DEF Real, SucceededIsReal, InWindow, Deadline
<1> QED BY <1>1, <1>2, <1>3
        DEF Real, TrueReports, TrueReport, BegunFirst, TrueMatch, InWindow, Deadline

LEMMA RealStep ==
  ASSUME DurationReported \subseteq {TRUE}, TypeInv, TxSound, Real, [Next]_vars
  PROVE  Real'
<1>1. ASSUME UNCHANGED <<begun, ended, slot, rows>>, tx' = tx \/ tx' = None,
             queue' \subseteq queue \cup (IF tx = None THEN {} ELSE {tx.msg})
      PROVE  Real'
  BY <1>1, RealKept DEF HistoryKept, Real, BegunFirst, TrueReports, TrueReport
<1>2. ASSUME NEW r \in Runs, BeginRun(r)
      PROVE  Real'
  <2>1. begun[r] = None /\ begun' = [begun EXCEPT ![r] = now] /\ now # None
        /\ begun \in [Runs -> Time \cup {None}] /\ UNCHANGED <<ended, slot, rows, tx>>
    BY <1>2, ConstantsAssumption DEF BeginRun, db, TypeInv, TypeOK, Time
  <2>2. HistoryKept /\ BegunFirst'
    BY <2>1 DEF HistoryKept, Real, BegunFirst
  <2>3. \A m \in queue' : TrueReport(m)'
    <3> TAKE m \in queue'
    <3>1. m \in queue \/ m = [run |-> r, kind |-> "start", ts |-> now, began |-> None]
      BY <1>2 DEF BeginRun
    <3>2. CASE m \in queue
      BY <2>2, <3>2, TrueReportKept DEF Real, TrueReports, TypeInv, TypeOK
    <3>3. CASE m = [run |-> r, kind |-> "start", ts |-> now, began |-> None]
      BY <2>1, <3>3 DEF TrueReport
    <3> QED BY <3>1, <3>2, <3>3
  <2> QED BY <2>1, <2>2, <2>3, RealKept
<1>3. ASSUME NEW r \in Runs, NEW kind \in Endings, EndRun(r, kind)
      PROVE  Real'
  <2>1. begun[r] # None /\ ended[r] = None /\ ended' = [ended EXCEPT ![r] = kind]
        /\ kind \in {"success", "fail"}
        /\ ended \in [Runs -> {"success", "fail", None}] /\ UNCHANGED <<begun, slot, rows, tx>>
    BY <1>3, ConstantsAssumption DEF EndRun, db, TypeInv, TypeOK
  <2>2. HistoryKept /\ BegunFirst'
    BY <2>1 DEF HistoryKept, Real, BegunFirst
  <2>3. \A m \in queue' : TrueReport(m)'
    <3> TAKE m \in queue'
    <3>1. m \in queue \/ m = [run |-> r, kind |-> kind, ts |-> now, began |-> begun[r]]
      BY <1>3 DEF EndRun
    <3>2. CASE m \in queue
      BY <2>2, <3>2, TrueReportKept DEF Real, TrueReports, TypeInv, TypeOK
    <3>3. CASE m = [run |-> r, kind |-> kind, ts |-> now, began |-> begun[r]]
      BY <2>1, <3>3 DEF TrueReport
    <3> QED BY <3>1, <3>2, <3>3
  <2> QED BY <2>1, <2>2, <2>3, RealKept
<1>4. ASSUME NEW m \in queue, AckDuplicate(m)
      PROVE  Real'
  BY <1>1, <1>4 DEF AckDuplicate, db, clocks
<1>5. ASSUME NEW m \in queue, BeginTx(m)
      PROVE  Real'
  BY <1>5, BeginTxReal
<1>6. CASE CommitTx
  BY <1>6, CommitReal
<1>7. CASE AbortTx
  BY <1>1, <1>7 DEF AbortTx, db, clocks
<1>8. CASE Settle
  BY <1>8, SettleReal
<1>9. CASE Tick \/ Recompute \/ CrashReconciler \/ AgentChange
  BY <1>1, <1>9 DEF Tick, Recompute, CrashReconciler, AgentChange, db, clocks
<1>10. ASSUME NEW p \in BOOLEAN, UpdatePaused(p)
       PROVE  Real'
  BY <1>1, <1>10 DEF UpdatePaused, clocks
<1>11. ASSUME NEW s \in Slots, EditMaintenance(s)
       PROVE  Real'
  BY <1>1, <1>11 DEF EditMaintenance, db, clocks
<1>12. CASE UNCHANGED vars
  BY <1>1, <1>12 DEF vars
<1> QED
  BY <1>2, <1>3, <1>4, <1>5, <1>6, <1>7, <1>8, <1>9, <1>10, <1>11, <1>12 DEF Next

\* Where every final report carries its duration, a fulfilled slot means a run that ended in
\* success and began in the slot's window, whatever was lost, repeated or reordered.
THEOREM SuccessIsReal ==
  ASSUME DurationReported \subseteq {TRUE}
  PROVE  Spec => []SucceededIsReal
<1>1. Init => Real
  BY DEF Init, Real, TrueReports, BegunFirst, TrueRows, TrueMatch, SucceededIsReal
<1>2. IInv /\ Real /\ [Next]_vars => Real'
  BY RealStep DEF IInv, Sound
<1>3. Real => SucceededIsReal
  BY DEF Real
<1> QED BY <1>1, <1>2, <1>3, Invariance, PTL DEF Spec

--------------------------------------------------------------------------------
(* The life of a slot                                                         *)

Fate   == [s \in Slots |-> slot[s].state]
Credit == [s \in Slots |-> slot[s].exec]
Held   == IF tx = None THEN None ELSE tx.slot

\* A settling pass gives verdicts and leaves what has been answered alone.
LEMMA SettleVerdicts ==
  ASSUME TypeInv, Settle, NEW s \in Slots
  PROVE  slot'[s].state = slot[s].state \/ <<slot[s].state, slot'[s].state>> \in Lifecycle!Verdicts
<1>1. slot'[s] = SettledSlot(s)
  BY DEF Settle
<1>2. slot[s] \in [state: SlotState, exec: ExecId \cup {None}]
  BY DEF TypeInv, TypeOK
<1>3. /\ s \in ToSkip \/ s \in ToMarkMissed => slot[s].state \in {"pending", "late"}
      /\ s \in ToMarkLate => slot[s].state = "pending"
      /\ s \in ToTimeOut => slot[s].state = "running"
  BY DEF ToSkip, ToMarkLate, ToMarkMissed, ToTimeOut, Unsettled
<1>4. slot'[s].state = IF s \in ToSkip THEN "skipped"
                       ELSE IF s \in ToMarkLate THEN "late"
                       ELSE IF s \in ToMarkMissed THEN "missed"
                       ELSE IF s \in ToTimeOut THEN "failed"
                       ELSE slot[s].state
  BY <1>1, <1>2 DEF SettledSlot
<1> QED BY <1>3, <1>4 DEF Lifecycle!Verdicts

LEMMA SettleJudges ==
  ASSUME TypeInv, Settle
  PROVE  Lifecycle!Judge
<1>1. \A s \in Slots : Fate'[s] = Fate[s] \/ <<Fate[s], Fate'[s]>> \in Lifecycle!Verdicts
  BY SettleVerdicts DEF Fate
<1>2. Fate' = [s \in Slots |-> Fate'[s]]
  BY DEF Fate
<1>3. Credit' = Credit /\ Held' = Held
  BY SettleSlots DEF Settle, Credit, Held
<1> QED BY <1>1, <1>2, <1>3 DEF Lifecycle!Judge, Fate, Credit, Held

\* The first half of process() chooses an open slot, or does without.
LEMMA BeginTxChooses ==
  ASSUME TypeInv, NEW m \in queue, BeginTx(m)
  PROVE  Lifecycle!Choose \/ UNCHANGED <<Fate, Credit, Held>>
<1>1. tx = None /\ UNCHANGED slot
  BY DEF BeginTx, db
<1>2. PICK ts \in MatchTimes(m, ExecIdOf(m)) : \E s \in SelectSlot(ts) :
             tx' = [msg |-> m, id |-> ExecIdOf(m), slot |-> s]
  BY DEF BeginTx
<1>3. PICK s \in SelectSlot(ts) : tx' = [msg |-> m, id |-> ExecIdOf(m), slot |-> s]
  BY <1>2
<1>4. Held = None /\ Fate' = Fate /\ Credit' = Credit
  BY <1>1 DEF Held, Fate, Credit
<1>5. Held' = s \/ Held' = None
  BY <1>3 DEF Held
<1>6. CASE Held' = None
  BY <1>4, <1>6
<1>7. CASE Held' = s /\ Held' # None
  <2>1. s \in Slots /\ slot[s].state \in OPEN
    BY <1>7, SelectSlotOpen
  <2>2. Held' \in {x \in Slots : Fate[x] \in Lifecycle!OPEN}
    BY <1>7, <2>1 DEF Fate, OPEN, Lifecycle!OPEN
  <2> QED BY <1>4, <2>2 DEF Lifecycle!Choose, Fate, Credit, Held
<1> QED BY <1>5, <1>6, <1>7

\* A commit is the answer of the execution, once: the report was new, so nothing is
\* credited to the execution yet.
LEMMA CommitAnswers ==
  ASSUME TypeInv, Sound, CommitTx
  PROVE  Lifecycle!Answer \/ UNCHANGED <<Fate, Credit, Held>>
<1>1. TxSound /\ tx # None /\ tx' = None /\ Held = tx.slot /\ Held' = None
  BY DEF Sound, CommitTx, Held
<1>2. tx.slot \in Slots \cup {None} /\ tx.id \in ExecId
  BY <1>1, TxExec
<1>3. CASE tx.slot = None
  <2>1. slot' = slot
    BY <1>3 DEF CommitTx, Attached
  <2> QED BY <1>1, <1>3, <2>1 DEF Fate, Credit
<1>4. CASE tx.slot # None
  <2>1. Held \in Slots /\ Held # None /\ Fate[Held] # "succeeded"
    BY <1>1, <1>2, <1>4 DEF TxSound, Fate
  <2>2. Fate'[Held] \in {"running", "succeeded", "failed"} /\ Credit'[Held] = tx.id
        /\ (Fate'[Held] = "succeeded" => tx.msg.kind = "success")
    BY <1>1, <2>1, CommitSlots DEF Fate, Credit
  <2>3. \A s \in Slots \ {Held} : slot'[s] = slot[s]
    BY <1>1, CommitSlots
  <2>4. Fate'[Held] = "succeeded" =>
          \A s \in Slots \ {Held} : Fate[s] = "succeeded" => Credit[s] # Credit'[Held]
    <3> SUFFICES ASSUME tx.msg.kind = "success", NEW s \in Slots, slot[s].state = "succeeded",
                        slot[s].exec = tx.id
                 PROVE  FALSE
      BY <2>2 DEF Fate, Credit
    <3>1. /\ tx.id \in Runs => FinalKey(tx.id) \in seen
          /\ tx.id \in Nat => tx.id < ulid
      BY DEF Sound, Credited
    <3> QED BY <1>1, <3>1, TxExec DEF TypeInv, TypeOK
  <2>5. Fate' = [Fate EXCEPT ![Held] = Fate'[Held]] /\ Credit' = [Credit EXCEPT ![Held] = Credit'[Held]]
    BY <2>1, <2>3 DEF Fate, Credit
  <2> QED BY <1>1, <1>2, <2>1, <2>2, <2>4, <2>5 DEF Lifecycle!Answer, Fate, Credit, Held
<1> QED BY <1>3, <1>4

\* JobPipeline implements the life of a slot: every step of a worker is a choice, an answer,
\* a withdrawal or a pass of verdicts, or changes nothing a reader of the slots sees.
THEOREM ImplementsLifecycle == Spec => IsALifecycle
<1>1. Init => Lifecycle!Init
  BY DEF Init, Lifecycle!Init
<1>2. IInv /\ [Next]_vars => [Lifecycle!Next]_(Lifecycle!vars)
  <2> SUFFICES ASSUME TypeInv, Sound, [Next]_vars
               PROVE  Lifecycle!Next \/ UNCHANGED <<Fate, Credit, Held>>
    BY DEF IInv, Lifecycle!vars, Fate, Credit, Held
  <2>1. ASSUME UNCHANGED <<slot, tx>>
        PROVE  UNCHANGED <<Fate, Credit, Held>>
    BY <2>1 DEF Fate, Credit, Held
  <2>2. ASSUME NEW m \in queue, BeginTx(m)
        PROVE  Lifecycle!Next \/ UNCHANGED <<Fate, Credit, Held>>
    BY <2>2, BeginTxChooses DEF Lifecycle!Next
  <2>3. CASE CommitTx
    BY <2>3, CommitAnswers DEF Lifecycle!Next
  <2>4. CASE Settle
    BY <2>4, SettleJudges DEF Lifecycle!Next
  <2>5. CASE AbortTx
    <3>1. slot' = slot /\ tx' = None
      BY <2>5 DEF AbortTx, db
    <3>2. Fate' = Fate /\ Credit' = Credit /\ Held' = None
      BY <3>1 DEF Fate, Credit, Held
    <3> QED BY <3>2 DEF Lifecycle!Next, Lifecycle!LetGo, Fate, Credit, Held
  <2>6. CASE UNCHANGED vars
    BY <2>1, <2>6 DEF vars
  <2>7. CASE \/ Tick \/ Recompute \/ CrashReconciler \/ AgentChange
             \/ \E r \in Runs : BeginRun(r)
             \/ \E r \in Runs, kind \in Endings : EndRun(r, kind)
             \/ \E m \in queue : AckDuplicate(m)
             \/ \E p \in BOOLEAN : UpdatePaused(p)
             \/ \E s \in Slots : EditMaintenance(s)
    <3>1. UNCHANGED <<slot, tx>>
      BY <2>7 DEF Tick, Recompute, CrashReconciler, AgentChange, BeginRun, EndRun, AckDuplicate,
                  UpdatePaused, EditMaintenance, db
    <3> QED BY <2>1, <3>1
  <2> QED BY <2>2, <2>3, <2>4, <2>5, <2>6, <2>7 DEF Next
<1> QED BY <1>1, <1>2, Invariance, PTL DEF Spec, IsALifecycle, Lifecycle!Spec

--------------------------------------------------------------------------------
(* No slot hangs                                                              *)

\* The slots a report may still answer for: those open, and the one the open transaction
\* selected.  None is ever added.
InReach == {s \in Slots : slot[s].state \in OPEN \/ (tx # None /\ tx.slot = s)}

\* Whichever slots in reach are settled before it, attach_slot selects s for a run that
\* began at ts.
IsNearest(s, ts) == InWindow(s, ts) /\ \A q \in InReach : InWindow(q, ts) => Nearer(s, q, ts)

\* A running execution whose slot is in reach would be given the same slot again.
KeepsItsSlot == \A r \in rows : r.status = "running" /\ r.slot \in InReach => IsNearest(r.slot, r.begin)

\* What the dedup keys say of the rows on record: a running one has its start applied, every
\* one its start or its final report; one written by the final report alone is bound to no
\* slot in reach; ids minted for anonymous reports are not minted again.
KeysTell ==
  \A r \in rows :
    /\ r.id \in Runs => /\ r.id \notin Anonymous
                        /\ r.status = "running" => <<r.id, 0>> \in seen
                        /\ <<r.id, 0>> \in seen \/ FinalKey(r.id) \in seen
                        /\ <<r.id, 0>> \notin seen => r.slot \notin InReach
    /\ r.id \in Nat => r.id < ulid

\* Until its final report is applied an execution has one row.
OneRow ==
  \A r, q \in rows : r.id = q.id /\ r.id \in Runs /\ FinalKey(r.id) \notin seen => r = q

\* The open transaction of a start holds the nearest slot, that of a final report the slot
\* of its running execution.
TxFits ==
  /\ tx # None /\ tx.msg.kind = "start" /\ tx.slot # None => IsNearest(tx.slot, tx.msg.ts)
  /\ tx # None /\ tx.msg.kind # "start" =>
       \A r \in rows : r.id = tx.id /\ r.status = "running" /\ r.slot \in InReach => r.slot = tx.slot

\* A slot that counts as running has a running execution bound to it.
NoneHangs == \A s \in Slots : slot[s].state = "running" => RunningIn(s) # {}

Placed == KeepsItsSlot /\ KeysTell /\ OneRow /\ TxFits /\ NoneHangs

\* A nearest slot stays nearest while no slot comes into reach.
LEMMA NearestKept ==
  ASSUME InReach' \subseteq InReach, NEW s, NEW ts, IsNearest(s, ts)
  PROVE  IsNearest(s, ts)'
BY DEF IsNearest, InWindow, Deadline, Nearer, Distance

\* Steps that touch neither the slots nor the executions nor the dedup keys.
LEMMA PlacedFrame ==
  ASSUME Placed, UNCHANGED <<slot, rows, seen, ulid>>, tx' = tx \/ tx' = None
  PROVE  Placed'
<1>1. InReach' \subseteq InReach
  BY DEF InReach
<1>2. KeepsItsSlot'
  BY <1>1, NearestKept DEF Placed, KeepsItsSlot
<1>3. KeysTell' /\ OneRow' /\ NoneHangs'
  BY <1>1 DEF Placed, KeysTell, OneRow, NoneHangs, RunningIn, FinalKey
<1>4. TxFits'
  BY <1>1, NearestKept DEF Placed, TxFits
<1> QED BY <1>2, <1>3, <1>4 DEF Placed

\* Two slots nearest to one instant are the same.
LEMMA NearestUnique ==
  ASSUME NEW s \in Slots, NEW q \in Slots, NEW ts \in Time, Nearer(s, q, ts), Nearer(q, s, ts)
  PROVE  s = q
BY ConstantsAssumption DEF Nearer, Distance, Time

LEMMA BeginTxPlaced ==
  ASSUME TypeInv, Sound, Placed, NEW m \in queue, BeginTx(m)
  PROVE  Placed'
<1>1. UNCHANGED <<slot, rows, seen, ulid>> /\ ~Duplicate(m) /\ tx = None /\ m \in Report
  BY DEF BeginTx, db, TypeInv, TypeOK
<1>2. PICK ts \in MatchTimes(m, ExecIdOf(m)) : \E s \in SelectSlot(ts) :
             tx' = [msg |-> m, id |-> ExecIdOf(m), slot |-> s]
  BY DEF BeginTx
<1>3. PICK s \in SelectSlot(ts) : tx' = [msg |-> m, id |-> ExecIdOf(m), slot |-> s]
  BY <1>2
<1>4. tx'.msg = m /\ tx'.id = ExecIdOf(m) /\ tx'.slot = s
  BY <1>3
<1>5. InReach = {q \in Slots : slot[q].state \in OPEN} /\ InReach' = InReach
  <2>1. InReach = {q \in Slots : slot[q].state \in OPEN}
    BY <1>1 DEF InReach
  <2>2. s \in Slots => slot[s].state \in OPEN
    BY SelectSlotOpen, ConstantsAssumption
  <2> QED BY <1>1, <1>4, <2>1, <2>2 DEF InReach
<1>6. s # None => s \in Slots /\ InWindow(s, ts) /\ \A q \in InReach : InWindow(q, ts) => Nearer(s, q, ts)
  BY <1>5 DEF SelectSlot, Nearest, Candidates
<1>7. KeepsItsSlot'
  BY <1>1, <1>5, NearestKept DEF Placed, KeepsItsSlot
<1>8. KeysTell' /\ OneRow' /\ NoneHangs'
  BY <1>1, <1>5 DEF Placed, KeysTell, OneRow, NoneHangs, RunningIn, FinalKey
<1>9. TxFits'
  <2>1. CASE m.kind = "start"
    <3>1. ts = m.ts
      BY <2>1 DEF MatchTimes
    <3>2. s # None => IsNearest(s, m.ts)'
      BY <1>5, <1>6, <3>1, NearestKept DEF IsNearest
    <3> QED BY <1>4, <2>1, <3>2 DEF TxFits
  <2>2. CASE m.kind # "start"
    <3> SUFFICES ASSUME NEW r \in rows, r.id = ExecIdOf(m), r.status = "running", r.slot \in InReach
                 PROVE  r.slot = s
      BY <1>1, <1>4, <1>5, <2>2 DEF TxFits
    <3>1. m.run \notin Anonymous /\ r.id = m.run /\ m.run \in Runs
      <4>1. ulid \in Nat /\ m.run \in Runs /\ (r.id \in Nat => r.id < ulid)
        BY <1>1 DEF Placed, KeysTell, TypeInv, TypeOK, Report
      <4> QED BY <4>1 DEF ExecIdOf
    <3>2. FinalKey(r.id) \notin seen
      BY <1>1, <2>2, <3>1 DEF Duplicate, EventKey, Sequence, FinalKey
    <3>3. RowsOf(ExecIdOf(m)) = {r}
      BY <3>1, <3>2 DEF Placed, OneRow, RowsOf
    <3>4. ts = r.begin /\ ts \in Time
      BY <2>2, <3>3 DEF MatchTimes, TypeInv, TypeOK, ExecRow
    <3>5. IsNearest(r.slot, ts)
      BY <3>4 DEF Placed, KeepsItsSlot
    <3>6. r.slot \in Candidates(ts)
      BY <1>5, <3>5 DEF Candidates, IsNearest
    <3>7. s \in Candidates(ts) /\ Nearer(s, r.slot, ts)
      BY <3>6 DEF SelectSlot, Nearest
    <3>8. Nearer(r.slot, s, ts)
      BY <1>5, <3>5, <3>7 DEF IsNearest, Candidates
    <3> QED BY <3>4, <3>6, <3>7, <3>8, NearestUnique DEF Candidates
  <2> QED BY <2>1, <2>2
<1> QED BY <1>7, <1>8, <1>9 DEF Placed

\* A settling pass leaves alone every running execution but those of the slots it times out.
LEMMA SettleRunning ==
  ASSUME TypeInv, Settle
  PROVE  /\ \A r \in rows' : r.status = "running" => r \in rows
         /\ \A r \in rows : r.slot \notin ToTimeOut => r \in rows'
         /\ \A r, q \in rows' : \A x \in rows :
              (\A y \in rows : y.id = r.id => y = x) /\ q.id = r.id => r = q
<1>1. PICK f \in TimedOutRows :
        rows' = {IF \E s \in ToTimeOut : r = f[s]
                 THEN [r EXCEPT !.status = "timeout", !.end = now] ELSE r : r \in rows}
  BY Zenon DEF Settle
<1>2. \A s \in ToTimeOut : f[s].slot = s
  BY DEF TimedOutRows, RunningIn
<1>3. \A q \in ExecRow :
        LET o == [q EXCEPT !.status = "timeout", !.end = now]
        IN  o.id = q.id /\ o.status = "timeout"
  BY DEF ExecRow
<1>4. rows \subseteq ExecRow
  BY DEF TypeInv, TypeOK
<1> DEFINE out(r) == [r EXCEPT !.status = "timeout", !.end = now]
           g(r) == IF \E s \in ToTimeOut : r = f[s] THEN out(r) ELSE r
<1>5. /\ rows' = {g(r) : r \in rows}
      /\ \A r \in rows : g(r).id = r.id /\ (g(r) = r \/ g(r).status = "timeout")
      /\ \A r \in rows : r.slot \notin ToTimeOut => g(r) = r
  <2>1. rows' = {g(r) : r \in rows}
    BY Zenon, <1>1
  <2>2. \A r \in rows : out(r).id = r.id /\ out(r).status = "timeout"
    BY <1>3, <1>4
  <2>3. \A r \in rows : (g(r) = out(r) \/ g(r) = r) /\ (r.slot \notin ToTimeOut => g(r) = r)
    BY <1>2
  <2> HIDE DEF out, g
  <2> QED BY <2>1, <2>2, <2>3
<1> HIDE DEF g
<1>6. \A r \in rows' : r.status = "running" => r \in rows
  BY <1>5
<1>7. \A r \in rows : r.slot \notin ToTimeOut => r \in rows'
  BY <1>5
<1>8. \A r, q \in rows' : \A x \in rows :
        (\A y \in rows : y.id = r.id => y = x) /\ q.id = r.id => r = q
  <2> SUFFICES ASSUME NEW r \in rows', NEW q \in rows', NEW x \in rows,
                      \A y \in rows : y.id = r.id => y = x, q.id = r.id
               PROVE  r = q
    OBVIOUS
  <2>1. PICK u \in rows, v \in rows : r = g(u) /\ q = g(v)
    BY <1>5
  <2> QED BY <1>5, <2>1
<1> QED BY <1>6, <1>7, <1>8

LEMMA SettlePlaced ==
  ASSUME TypeInv, Placed, Settle
  PROVE  Placed'
<1>1. UNCHANGED <<tx, seen, ulid>>
  BY Zenon DEF Settle
<1>2. \A s \in Slots : /\ slot'[s].state \in OPEN => slot[s].state \in OPEN
                       /\ slot'[s].state = "running" => slot[s].state = "running" /\ s \notin ToTimeOut
  <2> TAKE s \in Slots
  <2>1. slot'[s] = SettledSlot(s) /\ slot[s] \in [state: SlotState, exec: ExecId \cup {None}]
    <3>1. slot' = [x \in Slots |-> SettledSlot(x)]
      BY Zenon DEF Settle
    <3> QED BY <3>1 DEF TypeInv, TypeOK
  <2>2. s \in ToSkip \/ s \in ToMarkLate \/ s \in ToMarkMissed => slot[s].state \in {"pending", "late"}
    BY DEF ToSkip, ToMarkLate, ToMarkMissed, Unsettled
  <2> QED BY <2>1, <2>2 DEF SettledSlot, OPEN
<1>3. InReach' \subseteq InReach
  BY <1>1, <1>2 DEF InReach
<1>4. KeepsItsSlot'
  BY <1>3, SettleRunning, NearestKept DEF Placed, KeepsItsSlot
<1>5. KeysTell'
  <2> SUFFICES ASSUME NEW r \in rows'
               PROVE  /\ r.id \in Runs => /\ r.id \notin Anonymous
                                          /\ r.status = "running" => <<r.id, 0>> \in seen'
                                          /\ <<r.id, 0>> \in seen' \/ FinalKey(r.id) \in seen'
                                          /\ <<r.id, 0>> \notin seen' => r.slot \notin InReach'
                      /\ r.id \in Nat => r.id < ulid'
    BY ZenonT(30) DEF KeysTell, FinalKey
  <2>1. PICK q \in rows : r.id = q.id /\ r.slot = q.slot
    BY SettleRows
  <2>2. r.status = "running" => r \in rows
    BY SettleRunning
  <2> QED BY <1>1, <1>3, <2>1, <2>2 DEF Placed, KeysTell
<1>6. OneRow'
  <2> SUFFICES ASSUME NEW r \in rows', NEW q \in rows', r.id = q.id, r.id \in Runs,
                      FinalKey(r.id) \notin seen
               PROVE  r = q
    BY <1>1 DEF OneRow, FinalKey
  <2>1. PICK x \in rows : x.id = r.id
    BY SettleRows
  <2>2. \A y \in rows : y.id = r.id => y = x
    BY <2>1 DEF Placed, OneRow
  <2> QED BY <2>2, SettleRunning
<1>7. TxFits'
  <2>1. (tx # None /\ tx.msg.kind = "start" /\ tx.slot # None => IsNearest(tx.slot, tx.msg.ts))'
    BY <1>1, <1>3, NearestKept DEF Placed, TxFits
  <2>2. (tx # None /\ tx.msg.kind # "start" =>
           \A r \in rows : r.id = tx.id /\ r.status = "running" /\ r.slot \in InReach => r.slot = tx.slot)'
    BY <1>1, <1>3, SettleRunning DEF Placed, TxFits
  <2> QED BY <2>1, <2>2 DEF TxFits
<1>8. NoneHangs'
  <2> SUFFICES ASSUME NEW s \in Slots, slot'[s].state = "running"
               PROVE  \E r \in rows' : r.slot = s /\ r.status = "running"
    BY DEF NoneHangs, RunningIn
  <2>1. PICK r \in rows : r.slot = s /\ r.status = "running"
    BY <1>2 DEF Placed, NoneHangs, RunningIn
  <2> QED BY <1>2, <2>1, SettleRunning
<1> QED BY <1>4, <1>5, <1>6, <1>7, <1>8 DEF Placed

\* A row that is running after a report was either left alone, or is the start's own.
LEMMA RunningRecorded ==
  ASSUME TypeInv, NEW m \in Report, NEW id \in ExecId, NEW r \in Recorded(m, id)
  PROVE  \/ r.status # "running"
         \/ r \in rows /\ (m.kind = "start" \/ r.id # id)
         \/ /\ m.kind = "start" /\ r.id = id /\ r.begin = m.ts
            /\ r.slot = None \/ \E q \in rows : q.id = id /\ r.slot = q.slot
<1> DEFINE fin == IF m.kind = "success" THEN "success" ELSE "failed"
<1>1. rows \subseteq ExecRow
  BY DEF TypeInv, TypeOK
<1>2. \A q \in ExecRow :
        LET b == [q EXCEPT !.status = "running", !.begin = m.ts]
            e == [q EXCEPT !.status = fin, !.end = m.ts]
        IN  /\ b.id = q.id /\ b.slot = q.slot /\ b.begin = m.ts
            /\ e.id = q.id /\ e.status # "running"
  BY DEF ExecRow
<1>3. CASE m.kind = "start"
  <2>1. \/ r \in rows
        \/ r = [id |-> id, sched |-> m.ts, status |-> "running",
                begin |-> m.ts, end |-> None, slot |-> None]
        \/ \E q \in rows : q.id = id /\ r = [q EXCEPT !.status = "running", !.begin = m.ts]
    BY <1>3 DEF Recorded, RowsOf
  <2>2. CASE r = [id |-> id, sched |-> m.ts, status |-> "running",
                  begin |-> m.ts, end |-> None, slot |-> None]
    BY <1>3, <2>2
  <2>3. ASSUME NEW q \in rows, q.id = id, r = [q EXCEPT !.status = "running", !.begin = m.ts]
        PROVE  r.id = id /\ r.begin = m.ts /\ r.slot = q.slot
    BY <1>1, <1>2, <2>3
  <2> QED BY <1>3, <2>1, <2>2, <2>3
<1>4. CASE m.kind # "start"
  <2>1. \/ r \in rows /\ r.id # id
        \/ r = [id |-> id, sched |-> Began(m), status |-> fin,
                begin |-> Began(m), end |-> m.ts, slot |-> None]
        \/ \E q \in rows : r = [q EXCEPT !.status = fin, !.end = m.ts]
    BY <1>4 DEF Recorded, RowsOf
  <2> HIDE DEF fin
  <2>2. CASE r = [id |-> id, sched |-> Began(m), status |-> fin,
                  begin |-> Began(m), end |-> m.ts, slot |-> None]
    BY <2>2 DEF fin
  <2>3. ASSUME NEW q \in rows, r = [q EXCEPT !.status = fin, !.end = m.ts]
        PROVE  r.status # "running"
    BY <1>1, <1>2, <2>3
  <2> QED BY <2>1, <2>2, <2>3
<1> QED BY <1>3, <1>4

\* A start leaves a running row of its execution, and every report leaves the rows of other
\* executions alone.
LEMMA RecordedHas ==
  ASSUME TypeInv, NEW m \in Report, NEW id \in ExecId
  PROVE  /\ m.kind = "start" => \E r \in Recorded(m, id) : r.id = id /\ r.status = "running"
         /\ \A r \in rows : r.id # id => r \in Recorded(m, id)
<1> DEFINE same == {r \in RowsOf(id) : r.sched = m.ts}
<1>1. \A r \in rows : r.id # id => r \in Recorded(m, id)
  BY Zenon DEF Recorded, RowsOf
<1>2. CASE m.kind = "start" /\ same = {}
  <2> DEFINE new == [id |-> id, sched |-> m.ts, status |-> "running",
                     begin |-> m.ts, end |-> None, slot |-> None]
  <2>1. new \in Recorded(m, id)
    BY Zenon, <1>2 DEF Recorded
  <2> QED BY <1>1, <2>1
<1>3. CASE m.kind = "start" /\ same # {}
  <2>1. PICK q \in same : TRUE
    BY <1>3
  <2> DEFINE again == [q EXCEPT !.status = "running", !.begin = m.ts]
  <2>2. again \in Recorded(m, id)
    BY Zenon, <1>3 DEF Recorded
  <2>3. q \in ExecRow /\ q.id = id
    BY DEF TypeInv, TypeOK, RowsOf
  <2>4. again.id = id /\ again.status = "running"
    BY <2>3 DEF ExecRow
  <2> QED BY <1>1, <2>2, <2>4
<1> QED BY <1>1, <1>2, <1>3

\* Rows bound to a slot are the same rows, but for the slot of the execution's own.
LEMMA BoundExactly ==
  ASSUME NEW rw, rw \subseteq ExecRow, NEW id, NEW s
  PROVE  /\ \A r \in Bound(rw, id, s) : \E q \in rw :
              /\ r.id = q.id /\ r.status = q.status /\ r.begin = q.begin
              /\ IF s # None /\ q.id = id THEN r = [q EXCEPT !.slot = s] /\ r.slot = s ELSE r = q
         /\ \A q \in rw : s = None \/ q.id # id => q \in Bound(rw, id, s)
         /\ \A q \in rw : s # None /\ q.id = id =>
              \E r \in Bound(rw, id, s) : r.status = q.status /\ r.slot = s
<1> DEFINE moved(q) == [q EXCEPT !.slot = s]
           g(q) == IF q.id = id THEN moved(q) ELSE q
<1>1. \A q \in rw : LET b == moved(q)
                    IN  b.id = q.id /\ b.status = q.status /\ b.begin = q.begin /\ b.slot = s
  BY DEF ExecRow
<1>2. CASE s = None
  BY <1>2 DEF Bound
<1>3. CASE s # None
  <2>1. Bound(rw, id, s) = {g(q) : q \in rw}
    BY <1>3 DEF Bound
  <2>2. \A q \in rw : IF q.id = id THEN g(q) = moved(q) ELSE g(q) = q
    OBVIOUS
  <2> HIDE DEF g
  <2>3. \A q \in rw : moved(q) = [q EXCEPT !.slot = s]
    OBVIOUS
  <2> HIDE DEF moved
  <2> QED BY <1>1, <1>3, <2>1, <2>2, <2>3
<1> QED BY <1>2, <1>3

\* The rows of other executions after a report are those from before it.
LEMMA OthersKept ==
  ASSUME TypeInv, NEW m \in Report, NEW id \in ExecId, NEW r \in Recorded(m, id), r.id # id
  PROVE  r \in rows
<1>1. \A q \in ExecRow :
        LET b == [q EXCEPT !.status = "running", !.begin = m.ts]
        IN  b.id = q.id
  BY DEF ExecRow
<1>2. \A q \in ExecRow : \A st :
        LET e == [q EXCEPT !.status = st, !.end = m.ts]
        IN  e.id = q.id
  BY DEF ExecRow
<1>3. rows \subseteq ExecRow
  BY DEF TypeInv, TypeOK
<1>4. \/ r \in rows
      \/ r = [id |-> id, sched |-> m.ts, status |-> "running",
              begin |-> m.ts, end |-> None, slot |-> None]
      \/ \E st : r = [id |-> id, sched |-> Began(m), status |-> st,
                     begin |-> Began(m), end |-> m.ts, slot |-> None]
      \/ \E q \in rows : q.id = id /\ r = [q EXCEPT !.status = "running", !.begin = m.ts]
      \/ \E q \in rows, st \in {"success", "failed"} : q.id = id /\ r = [q EXCEPT !.status = st, !.end = m.ts]
  BY Zenon DEF Recorded, RowsOf
<1>5. ASSUME NEW q \in rows, q.id = id,
             \/ r = [q EXCEPT !.status = "running", !.begin = m.ts]
             \/ \E st : r = [q EXCEPT !.status = st, !.end = m.ts]
      PROVE  FALSE
  BY <1>1, <1>2, <1>3, <1>5
<1>6. ASSUME NEW b, NEW st, NEW e, r = [id |-> id, sched |-> b, status |-> st,
                                        begin |-> b, end |-> e, slot |-> None]
      PROVE  FALSE
  BY <1>6
<1> QED BY Zenon, <1>4, <1>5, <1>6

\* The first report of an execution leaves it one row.
LEMMA FirstRow ==
  ASSUME NEW m, NEW id, \A p \in rows : p.id # id,
         NEW r \in Recorded(m, id), NEW q \in Recorded(m, id), r.id = id, q.id = id
  PROVE  r = q
<1>1. RowsOf(id) = {}
  BY DEF RowsOf
<1>2. CASE m.kind = "start"
  <2> DEFINE new == [id |-> id, sched |-> m.ts, status |-> "running",
                     begin |-> m.ts, end |-> None, slot |-> None]
  <2>1. Recorded(m, id) = rows \cup {new}
    BY <1>1, <1>2 DEF Recorded
  <2> HIDE DEF new
  <2> QED BY <2>1
<1>3. CASE m.kind # "start"
  <2> DEFINE new == [id |-> id, sched |-> Began(m), status |-> IF m.kind = "success" THEN "success" ELSE "failed",
                     begin |-> Began(m), end |-> m.ts, slot |-> None]
  <2>1. Recorded(m, id) = rows \cup {new}
    BY <1>1, <1>3 DEF Recorded
  <2> HIDE DEF new
  <2> QED BY <2>1
<1> QED BY <1>2, <1>3

\* A report that is new finds no running row of its execution, if it is a start, and none at
\* all if its execution is anonymous or was never heard of.
LEMMA NewReport ==
  ASSUME TypeInv, Sound, Placed, CommitTx
  PROVE  /\ tx.id \in Runs \/ (tx.id \in Nat /\ \A r \in rows : r.id # tx.id)
         /\ tx.id \in Runs => tx.id \notin Anonymous
         /\ tx.msg.kind = "start" => \A r \in rows : r.id = tx.id =>
              r.status # "running" /\ r.slot \notin InReach /\ FinalKey(r.id) \in seen
         /\ tx.msg.kind # "start" /\ tx.id \in Runs => FinalKey(tx.id) \notin seen
<1>1. /\ TxSound /\ KeysTell /\ tx # None /\ ulid \in Nat
      /\ tx.msg \in Report /\ tx.id \in ExecId
  BY TxExec DEF Sound, Placed, CommitTx, TypeInv, TypeOK
<1>2. CASE tx.msg.run \in Anonymous
  <2>1. tx.id \in Nat /\ tx.id = ulid /\ tx.id \notin Runs
    BY <1>1, <1>2, TxExec
  <2>2. \A r \in rows : r.id \in Nat => r.id < ulid
    BY Zenon, <1>1 DEF KeysTell
  <2> QED BY <1>1, <2>1, <2>2
<1>3. CASE tx.msg.run \notin Anonymous
  <2>1. /\ tx.id \in Runs /\ tx.id = tx.msg.run /\ EventKey(tx.msg) \notin seen
        /\ tx.msg.kind # "start" => EventKey(tx.msg) = FinalKey(tx.id)
    BY <1>1, <1>3, TxExec DEF TxSound, ExecIdOf
  <2>2. tx.msg.kind = "start" => <<tx.id, 0>> \notin seen
    BY <2>1 DEF EventKey, Sequence
  <2> QED BY <1>1, <1>3, <2>1, <2>2 DEF KeysTell
<1> QED BY <1>2, <1>3

\* What a commit leaves of the slots in reach: none is added, and the slot a final report
\* answers for is not among them.
LEMMA CommitReach ==
  ASSUME TypeInv, Sound, CommitTx
  PROVE  /\ InReach' \subseteq InReach
         /\ tx.msg.kind # "start" => tx.slot \notin InReach'
<1>1. tx # None /\ tx' = None /\ tx.msg.kind \in {"start", "success", "fail"}
      /\ slot' = Attached(tx.slot, tx.id, tx.msg.kind)
  BY DEF CommitTx, TypeInv, TypeOK, TxType, Report
<1>2. \A s \in Slots : s # tx.slot => slot'[s] = slot[s]
  BY CommitSlots
<1>3. InReach' \subseteq InReach
  BY <1>1, <1>2 DEF InReach
<1>4. ASSUME tx.msg.kind # "start", tx.slot \in InReach'
      PROVE  FALSE
  <2>1. tx.slot \in Slots /\ slot'[tx.slot].state \in OPEN
    BY <1>1, <1>4 DEF InReach
  <2>2. slot'[tx.slot].state \in {"succeeded", "failed"}
    BY <1>1, <1>4, <2>1, ConstantsAssumption DEF Attached, SlotStateAfter, TypeInv, TypeOK
  <2> QED BY <2>1, <2>2 DEF OPEN
<1> QED BY <1>3, <1>4

LEMMA CommitPlaced ==
  ASSUME TypeInv, Sound, Placed, CommitTx
  PROVE  Placed'
<1> DEFINE m == tx.msg
           id == tx.id
<1>1. tx # None /\ tx' = None /\ m \in Report /\ id \in ExecId /\ tx.slot \in Slots \cup {None}
  BY TxExec DEF Sound, CommitTx
<1>2. rows' = Bound(Recorded(m, id), id, tx.slot) /\ Recorded(m, id) \subseteq ExecRow
  BY <1>1, RecordedType DEF CommitTx
<1>3. /\ InReach' \subseteq InReach /\ (m.kind # "start" => tx.slot \notin InReach')
      /\ None \notin InReach
  BY CommitReach, ConstantsAssumption DEF InReach
<1>4. \A r \in rows' : \E q \in Recorded(m, id) :
        /\ r.id = q.id /\ r.status = q.status /\ r.begin = q.begin
        /\ IF tx.slot # None /\ q.id = id THEN r = [q EXCEPT !.slot = tx.slot] /\ r.slot = tx.slot
           ELSE r = q
  <2>1. PICK rw, i, s : rw = Recorded(m, id) /\ i = id /\ s = tx.slot
    OBVIOUS
  <2>2. \A r \in Bound(rw, i, s) : \E q \in rw :
          /\ r.id = q.id /\ r.status = q.status /\ r.begin = q.begin
          /\ IF s # None /\ q.id = i THEN r = [q EXCEPT !.slot = s] /\ r.slot = s ELSE r = q
    BY <1>2, <2>1, BoundExactly
  <2> QED BY ZenonT(60), <1>2, <2>1, <2>2
<1>5. /\ seen \subseteq seen' /\ ulid \in Nat /\ ulid' \in Nat /\ ulid <= ulid'
      /\ id \in Nat => id < ulid'
      /\ id \in Runs => EventKey(m) \in seen'
      /\ id \in Runs /\ m.kind = "start" => <<id, 0>> \in seen'
      /\ id \in Runs /\ m.kind # "start" => FinalKey(id) \in seen'
  <2>1. seen \subseteq seen' /\ ulid \in Nat /\ ulid' \in Nat /\ ulid <= ulid'
    BY DEF CommitTx, TypeInv, TypeOK
  <2>2. CASE m.run \in Anonymous
    <3>1. id = ulid /\ id \notin Runs
      BY <2>2, TxExec DEF Sound
    <3>2. ulid' = ulid + 1
      BY <2>2 DEF CommitTx
    <3> QED BY <2>1, <3>1, <3>2
  <2>3. CASE m.run \notin Anonymous
    <3>1. /\ id \in Runs /\ id \notin Nat /\ id = m.run
          /\ m.kind # "start" => EventKey(m) = FinalKey(id)
      BY <1>1, <2>3, TxExec DEF Sound, TxSound, ExecIdOf
    <3>2. EventKey(m) \in seen'
      BY <2>3 DEF CommitTx
    <3> QED BY <2>1, <3>1, <3>2 DEF EventKey, Sequence
  <2> QED BY <2>2, <2>3
<1>6. TxFits'
  BY <1>1 DEF TxFits
<1> HIDE DEF m, id
<1>7. KeepsItsSlot'
  <2> SUFFICES ASSUME NEW r \in rows', r.status = "running", r.slot \in InReach'
               PROVE  IsNearest(r.slot, r.begin)
    BY <1>3, NearestKept DEF KeepsItsSlot
  <2>1. PICK q \in Recorded(m, id) :
          /\ r.id = q.id /\ r.status = q.status /\ r.begin = q.begin
          /\ IF tx.slot # None /\ q.id = id THEN r.slot = tx.slot ELSE r = q
    BY <1>4
  <2>2. CASE q.id # id
    <3>1. r \in rows
      BY <1>1, <2>1, <2>2, RunningRecorded
    <3> QED BY <1>3, <3>1 DEF Placed, KeepsItsSlot
  <2>3. CASE q.id = id
    <3>1. \/ q \in rows /\ m.kind = "start"
          \/ /\ m.kind = "start" /\ q.begin = m.ts
             /\ q.slot = None \/ \E p \in rows : p.id = id /\ q.slot = p.slot
      BY <1>1, <2>1, <2>3, RunningRecorded
    <3>2. m.kind = "start" /\ \A p \in rows : p.id = id => p.status # "running" /\ p.slot \notin InReach
      BY <3>1, NewReport DEF m, id
    <3>3. q.begin = m.ts /\ q.slot \notin InReach
      BY <1>3, <2>1, <2>3, <3>1, <3>2
    <3>4. tx.slot # None /\ r.slot = tx.slot
      BY <1>3, <2>1, <2>3, <3>3
    <3> QED BY <1>1, <2>1, <3>2, <3>3, <3>4 DEF Placed, TxFits, m
  <2> QED BY <2>2, <2>3
<1>8. KeysTell'
  <2> SUFFICES ASSUME NEW r \in rows'
               PROVE  /\ r.id \in Runs => /\ r.id \notin Anonymous
                                          /\ r.status = "running" => <<r.id, 0>> \in seen'
                                          /\ <<r.id, 0>> \in seen' \/ FinalKey(r.id) \in seen'
                                          /\ <<r.id, 0>> \notin seen' => r.slot \notin InReach'
                      /\ r.id \in Nat => r.id < ulid'
    BY ZenonT(30) DEF KeysTell, FinalKey
  <2>1. PICK q \in Recorded(m, id) :
          /\ r.id = q.id /\ r.status = q.status
          /\ IF tx.slot # None /\ q.id = id THEN r.slot = tx.slot ELSE r = q
    BY <1>4
  <2>2. CASE q.id # id
    <3>1. PICK p \in rows : q.id = p.id /\ q.slot = p.slot
      BY <1>1, <2>2, RecordedRows
    <3>2. q.status = "running" => q \in rows
      BY <1>1, <2>2, RunningRecorded
    <3>3. p.id \in Nat => p.id < ulid'
      <4>1. p.id \in Nat => p.id < ulid
        BY Zenon DEF Placed, KeysTell
      <4> QED BY <1>5, <4>1
    <3>4. p.id \in Runs => /\ p.id \notin Anonymous
                           /\ q.status = "running" => <<p.id, 0>> \in seen'
                           /\ <<p.id, 0>> \in seen' \/ FinalKey(p.id) \in seen'
                           /\ <<p.id, 0>> \notin seen' => p.slot \notin InReach'
      BY <1>3, <1>5, <3>1, <3>2 DEF Placed, KeysTell
    <3> QED BY <2>1, <2>2, <3>1, <3>3, <3>4
  <2>3. CASE q.id = id
    <3>1. id \in Runs => id \notin Anonymous
      BY NewReport DEF id
    <3>2. id \in Runs /\ r.status = "running" => m.kind = "start"
      <4>1. q.status = "running" => m.kind = "start"
        BY <1>1, <2>3, RunningRecorded
      <4> QED BY <2>1, <4>1
    <3>3. ASSUME id \in Runs, <<id, 0>> \notin seen'
          PROVE  r.slot \notin InReach'
      <4>1. m.kind # "start" /\ <<id, 0>> \notin seen /\ FinalKey(id) \notin seen
        BY <1>5, <3>3, NewReport DEF m, id
      <4>2. \A p \in rows : p.id # id
        BY <3>3, <4>1 DEF Placed, KeysTell
      <4>3. q.slot = None
        BY <1>1, <2>3, <4>2, RecordedRows
      <4> QED BY <1>3, <2>1, <2>3, <4>1, <4>3
    <3> QED BY <1>5, <2>1, <2>3, <3>1, <3>2, <3>3
  <2> QED BY <2>2, <2>3
<1>9. OneRow'
  <2> SUFFICES ASSUME NEW r1 \in rows', NEW r2 \in rows', r1.id = r2.id, r1.id \in Runs,
                      FinalKey(r1.id) \notin seen'
               PROVE  r1 = r2
    BY DEF OneRow, FinalKey
  <2>1. PICK q1 \in Recorded(m, id) :
          /\ r1.id = q1.id
          /\ IF tx.slot # None /\ q1.id = id THEN r1 = [q1 EXCEPT !.slot = tx.slot] ELSE r1 = q1
    BY <1>4
  <2>2. PICK q2 \in Recorded(m, id) :
          /\ r2.id = q2.id
          /\ IF tx.slot # None /\ q2.id = id THEN r2 = [q2 EXCEPT !.slot = tx.slot] ELSE r2 = q2
    BY <1>4
  <2> SUFFICES q1 = q2
    BY <2>1, <2>2
  <2>3. FinalKey(r1.id) \notin seen
    BY <1>5
  <2>4. CASE r1.id # id
    <3>1. q1 \in rows /\ q2 \in rows
      BY <2>1, <2>2, <2>4, OthersKept, <1>1
    <3> QED BY <2>1, <2>2, <2>3, <3>1 DEF Placed, OneRow
  <2>5. CASE r1.id = id
    <3>1. m.kind = "start"
      BY <1>5, <2>5
    <3>2. \A p \in rows : p.id # id
      BY <2>3, <2>5, <3>1, NewReport DEF m, id
    <3> QED BY <1>1, <2>1, <2>2, <2>5, <3>1, <3>2, FirstRow
  <2> QED BY <2>4, <2>5
<1>10. NoneHangs'
  <2> SUFFICES ASSUME NEW s \in Slots, slot'[s].state = "running"
               PROVE  \E r \in rows' : r.slot = s /\ r.status = "running"
    BY DEF NoneHangs, RunningIn
  <2>1. CASE s = tx.slot
    <3>1. m.kind = "start"
      BY <1>3, <2>1 DEF InReach, OPEN
    <3>2. PICK q \in Recorded(m, id) : q.id = id /\ q.status = "running"
      BY <1>1, <3>1, RecordedHas
    <3> QED BY <1>2, <2>1, <3>2, BoundExactly, ConstantsAssumption
  <2>2. CASE s # tx.slot
    <3>1. slot[s].state = "running" /\ s \in InReach
      BY <2>2, CommitSlots DEF InReach, OPEN
    <3>2. PICK r \in rows : r.slot = s /\ r.status = "running"
      BY <3>1 DEF Placed, NoneHangs, RunningIn
    <3>3. r.id # id
      <4>1. ASSUME r.id = id, m.kind = "start" PROVE FALSE
        BY <3>2, <4>1, NewReport DEF m, id
      <4>2. ASSUME r.id = id, m.kind # "start" PROVE FALSE
        BY <1>1, <2>2, <3>1, <3>2, <4>2 DEF Placed, TxFits, m, id
      <4> QED BY <4>1, <4>2
    <3>4. r \in Recorded(m, id)
      BY <1>1, <3>3, RecordedHas
    <3> QED BY <1>2, <3>2, <3>3, <3>4, BoundExactly
  <2> QED BY <2>1, <2>2
<1> QED BY <1>6, <1>7, <1>8, <1>9, <1>10 DEF Placed

LEMMA PlacedStep == IInv /\ Placed /\ [Next]_vars => Placed'
<1> SUFFICES ASSUME TypeInv, Sound, Placed, [Next]_vars
             PROVE  Placed'
  BY DEF IInv
<1>1. ASSUME NEW m \in queue, BeginTx(m)
      PROVE  Placed'
  BY <1>1, BeginTxPlaced
<1>2. CASE CommitTx
  BY <1>2, CommitPlaced
<1>3. CASE Settle
  BY <1>3, SettlePlaced
<1>4. CASE AbortTx
  BY <1>4, PlacedFrame DEF AbortTx, db
<1>5. CASE \/ Tick \/ Recompute \/ CrashReconciler \/ AgentChange
           \/ \E r \in Runs : BeginRun(r)
           \/ \E r \in Runs, kind \in Endings : EndRun(r, kind)
           \/ \E m \in queue : AckDuplicate(m)
           \/ \E p \in BOOLEAN : UpdatePaused(p)
           \/ \E s \in Slots : EditMaintenance(s)
           \/ UNCHANGED vars
  <2>1. UNCHANGED <<slot, rows, seen, ulid, tx>>
    BY <1>5 DEF Tick, Recompute, CrashReconciler, AgentChange, BeginRun, EndRun, AckDuplicate,
                UpdatePaused, EditMaintenance, db, vars
  <2> QED BY <2>1, PlacedFrame
<1> QED BY <1>1, <1>2, <1>3, <1>4, <1>5 DEF Next

\* No slot hangs: past its deadline every slot is settled by the next tick, whichever reports
\* were lost, repeated or reordered, whoever died, and whichever slots the runs' windows share.
THEOREM NoSlotHangs == Spec => []NextTickSettles
<1>1. Init => Placed
  BY DEF Init, Placed, KeepsItsSlot, KeysTell, OneRow, TxFits, NoneHangs
<1>2. IInv /\ Placed => NextTickSettles
  <2> SUFFICES ASSUME TypeInv, UnsettledUnbound, NoneHangs, NEW s \in Slots, now > Deadline(s)
               PROVE  SettledSlot(s).state \in TERMINAL
    BY DEF IInv, Sound, Placed, NextTickSettles
  <2>1. slot[s] \in [state: SlotState, exec: ExecId \cup {None}] /\ now \in Nat
    BY DEF TypeInv, TypeOK, Time
  <2>2. Deadline(s) < now /\ GraceUntil(s) < now
    BY <2>1, ConstantsAssumption DEF GraceUntil, Deadline
  <2>3. CASE slot[s].state \in {"pending", "late"}
    <3>1. Unsettled(s)
      BY <2>3 DEF Unsettled, UnsettledUnbound
    <3>2. s \notin ToMarkLate
      BY <2>1, <2>2, ConstantsAssumption DEF ToMarkLate, Deadline
    <3>3. s \in ToSkip \cup ToMarkMissed
      BY <2>2, <3>1 DEF ToMarkMissed
    <3> QED BY <2>1, <3>2, <3>3 DEF SettledSlot, TERMINAL
  <2>4. CASE slot[s].state = "running"
    <3>1. s \in ToTimeOut
      BY <2>2, <2>4 DEF ToTimeOut, NoneHangs
    <3>2. s \notin ToSkip /\ s \notin ToMarkLate
      BY <2>4 DEF ToSkip, ToMarkLate, Unsettled
    <3> QED BY <2>1, <3>1, <3>2 DEF SettledSlot, TERMINAL
  <2>5. CASE slot[s].state \in {"missed", "skipped", "succeeded", "failed"}
    <3>1. s \notin ToSkip /\ s \notin ToMarkLate /\ s \notin ToMarkMissed /\ s \notin ToTimeOut
      BY <2>5 DEF ToSkip, ToMarkLate, ToMarkMissed, ToTimeOut, Unsettled
    <3> QED BY <2>1, <2>5, <3>1 DEF SettledSlot, TERMINAL
  <2> QED BY <2>1, <2>3, <2>4, <2>5 DEF SlotState
<1> QED BY <1>1, <1>2, PlacedStep, Invariance, PTL DEF Spec


--------------------------------------------------------------------------------
(* The job's row                                                              *)

\* What derive makes of the job's tables, under flags that may be out of date.
DerivedWith(p, o, last) ==
  derive([paused |-> p, offline |-> o, hasSchedule |-> Slots # {}, everRan |-> everRan,
          openLate |-> \E s \in Slots : slot[s].state = "late",
          running |-> \E r \in rows : r.status = "running", last |-> last])

AsOf(p, o) ==
  \E pair \in LastTwo(Timeline(rows, missedAt)) :
    /\ job.state = DerivedWith(p, o, pair[1])[1] /\ job.reason = DerivedWith(p, o, pair[1])[2]
    /\ job.fails = FailureCount(Timeline(rows, missedAt))

\* A row as it was created: no state pass leaves a job unknown for no reason.
NeverDerived == job.state = "unknown" /\ job.reason = "none"

\* When no state pass is under way or was forgotten, only the flags can have changed since the
\* last one.
OnlyFlagsAreOld == rpc = "idle" /\ ~forgotten => NeverDerived \/ \E p, o \in BOOLEAN : AsOf(p, o)

\* What the next tick would not touch is right: a job's row disagrees with its slots and
\* executions only while a tick stands between its transactions, after one has died there,
\* while a flag and the state disagree in the eyes of settle(), or before the first pass.
RightUnlessOwed == rpc = "idle" /\ ~forgotten /\ ~FlagsDisagree /\ ~NeverDerived => Agrees

LEMMA JobRowFields ==
  ASSUME NEW pair, NEW T
  PROVE  LET j == JobRow(slot, rows, T, everRan, pair)
         IN  /\ j.state = DerivedWith(paused, offline, pair[1])[1]
             /\ j.reason = DerivedWith(paused, offline, pair[1])[2]
             /\ j.fails = FailureCount(T)
BY Zenon DEF JobRow, DerivedWith

\* The flags can be read off a state that was derived with them, where pause hides the agent.
LEMMA RightWhenFlagsAgree ==
  ASSUME TypeOK, OnlyFlagsAreOld
  PROVE  RightUnlessOwed
<1> SUFFICES ASSUME rpc = "idle", ~forgotten, ~FlagsDisagree, ~NeverDerived PROVE Agrees
  BY DEF RightUnlessOwed
<1>1. PICK p \in BOOLEAN, o \in BOOLEAN : AsOf(p, o)
  BY DEF OnlyFlagsAreOld
<1>2. PICK pair \in LastTwo(Timeline(rows, missedAt)) :
        /\ job.state = DerivedWith(p, o, pair[1])[1] /\ job.reason = DerivedWith(p, o, pair[1])[2]
        /\ job.fails = FailureCount(Timeline(rows, missedAt))
  BY <1>1 DEF AsOf
<1>3. /\ paused <=> job.state = "unknown" /\ job.reason = "paused"
      /\ offline <=> job.state = "unknown" /\ job.reason = "agent_offline"
      /\ paused \in BOOLEAN /\ offline \in BOOLEAN
  BY DEF FlagsDisagree, NeverDerived, TypeOK
<1>4. /\ p <=> job.state = "unknown" /\ job.reason = "paused"
      /\ ~p => (o <=> job.state = "unknown" /\ job.reason = "agent_offline")
      /\ p => DerivedWith(p, o, pair[1]) = DerivedWith(TRUE, FALSE, pair[1]) /\ job.reason = "paused"
  BY <1>2 DEF DerivedWith, derive
<1>5. DerivedWith(p, o, pair[1]) = DerivedWith(paused, offline, pair[1])
  BY <1>3, <1>4
<1> DEFINE j == JobRow(slot, rows, Timeline(rows, missedAt), everRan, pair)
<1>6. j \in JobRows(slot, rows, missedAt, everRan)
  BY <1>2 DEF JobRows
<1>7. job.state = j.state /\ job.reason = j.reason /\ job.fails = j.fails
  BY <1>2, <1>5, JobRowFields
<1> QED BY <1>6, <1>7 DEF Agrees

\* A state pass leaves the row as the tables and the flags are.
LEMMA PassIsFresh ==
  ASSUME TypeOK, job' \in JobRows(slot', rows', missedAt', everRan'), UNCHANGED <<paused, offline>>
  PROVE  OnlyFlagsAreOld'
<1>1. PICK pair \in LastTwo(Timeline(rows', missedAt')) :
        job' = JobRow(slot', rows', Timeline(rows', missedAt'), everRan', pair)
  BY DEF JobRows
<1>2. /\ job'.state = DerivedWith(paused, offline, pair[1])'[1]
      /\ job'.reason = DerivedWith(paused, offline, pair[1])'[2]
      /\ job'.fails = FailureCount(Timeline(rows', missedAt'))
  BY <1>1, Zenon DEF JobRow, DerivedWith
<1>3. AsOf(paused, offline)'
  BY <1>1, <1>2 DEF AsOf
<1>4. paused' \in BOOLEAN /\ offline' \in BOOLEAN
  BY DEF TypeOK
<1> QED BY <1>3, <1>4 DEF OnlyFlagsAreOld

LEMMA RowStands ==
  ASSUME OnlyFlagsAreOld, UNCHANGED <<slot, rows, missedAt, everRan, rpc, forgotten>>,
         job'.state = job.state, job'.reason = job.reason, job'.fails = job.fails
  PROVE  OnlyFlagsAreOld'
<1>1. ASSUME NEW p \in BOOLEAN, NEW o \in BOOLEAN, AsOf(p, o) PROVE AsOf(p, o)'
  <2>1. PICK pair \in LastTwo(Timeline(rows, missedAt)) :
          /\ job.state = DerivedWith(p, o, pair[1])[1] /\ job.reason = DerivedWith(p, o, pair[1])[2]
          /\ job.fails = FailureCount(Timeline(rows, missedAt))
    BY <1>1 DEF AsOf
  <2>2. DerivedWith(p, o, pair[1])' = DerivedWith(p, o, pair[1])
    BY DEF DerivedWith
  <2>3. /\ pair \in LastTwo(Timeline(rows', missedAt'))
        /\ FailureCount(Timeline(rows', missedAt')) = FailureCount(Timeline(rows, missedAt))
    BY Zenon
  <2> QED BY <2>1, <2>2, <2>3 DEF AsOf
<1>2. NeverDerived => NeverDerived'
  BY DEF NeverDerived
<1> QED BY <1>1, <1>2 DEF OnlyFlagsAreOld

\* A tick that touches nothing writes nothing.
LEMMA UntouchedTick ==
  ASSUME TypeOK, Settle, ~Touched
  PROVE  UNCHANGED <<slot, rows, missedAt, everRan, job, rpc, forgotten>>
<1>1. ToSkip = {} /\ ToMarkLate = {} /\ ToMarkMissed = {} /\ ToTimeOut = {}
  BY DEF Touched
<1>2. slot' = slot
  <2>1. \A s \in Slots : SettledSlot(s) = slot[s]
    BY <1>1 DEF SettledSlot, TypeOK
  <2> QED BY <2>1 DEF Settle, TypeOK
<1>3. rows' = rows
  <2>1. PICK f : rows' = {IF \E s \in ToTimeOut : r = f[s]
                          THEN [r EXCEPT !.status = "timeout", !.end = now] ELSE r : r \in rows}
    BY Zenon DEF Settle
  <2> QED BY <1>1, <2>1
<1>4. missedAt' = missedAt
  BY <1>1 DEF Settle, TypeOK
<1>5. rpc = "idle" /\ rpc' = "idle" /\ UNCHANGED <<everRan, job, forgotten>>
  BY Zenon DEF Settle
<1> QED BY <1>2, <1>3, <1>4, <1>5

LEMMA OnlyFlagsStep == TypeOK /\ OnlyFlagsAreOld /\ [Next]_vars => OnlyFlagsAreOld'
<1> SUFFICES ASSUME TypeOK, OnlyFlagsAreOld, [Next]_vars PROVE OnlyFlagsAreOld'
  OBVIOUS
<1>1. CASE UNCHANGED <<slot, rows, missedAt, everRan, job, rpc, forgotten>>
  BY <1>1, RowStands
<1>2. CASE CommitTx
  BY <1>2, PassIsFresh DEF CommitTx, env
<1>3. CASE Recompute
  BY <1>3, PassIsFresh DEF Recompute, env
<1>4. CASE Settle
  <2>1. Touched => rpc' = "recompute"
    BY <1>4, Zenon DEF Settle
  <2> QED BY <1>1, <1>4, <2>1, UntouchedTick DEF OnlyFlagsAreOld
<1>5. CASE CrashReconciler
  BY <1>5 DEF CrashReconciler, OnlyFlagsAreOld
<1>6. ASSUME NEW p \in BOOLEAN, UpdatePaused(p) PROVE OnlyFlagsAreOld'
  BY <1>6, RowStands DEF UpdatePaused, TypeOK, JobType
<1>7. CASE Tick \/ \E r \in Runs : BeginRun(r)
  BY <1>1, <1>7 DEF Tick, BeginRun, db
<1>8. CASE \E r \in Runs, kind \in Endings : EndRun(r, kind)
  BY <1>1, <1>8 DEF EndRun, db
<1>9. CASE (\E m \in queue : AckDuplicate(m) \/ BeginTx(m)) \/ AbortTx
  BY <1>1, <1>9, Zenon DEF AckDuplicate, BeginTx, AbortTx, db
<1>10. CASE (\E s \in Slots : EditMaintenance(s)) \/ AgentChange \/ UNCHANGED vars
  BY <1>1, <1>10 DEF EditMaintenance, AgentChange, vars, db
<1> QED
  BY <1>2, <1>3, <1>4, <1>5, <1>6, <1>7, <1>8, <1>9, <1>10 DEF Next

\* recompute_state and the two flag queries of settle() together miss nothing: whatever the
\* order of reports, rollbacks, ticks, pauses and outages, a job's state, reason and failure
\* count are those of its slots and executions, unless the next tick will see to it, a tick
\* has died between its transactions, or no pass has ever been made.
THEOREM RowIsRight == Spec => []RightUnlessOwed
<1>1. Init => OnlyFlagsAreOld
  BY DEF Init, OnlyFlagsAreOld, NeverDerived
<1>2. TypeInv => TypeOK
  BY DEF TypeInv
<1>3. TypeOK /\ OnlyFlagsAreOld => RightUnlessOwed
  BY RightWhenFlagsAgree
<1> QED BY InitTypeInv, TypeStep, OnlyFlagsStep, <1>1, <1>2, <1>3, PTL DEF Spec

==============================================================================
