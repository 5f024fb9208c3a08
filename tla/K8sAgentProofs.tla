----------------------------- MODULE K8sAgentProofs -----------------------------
(***************************************************************************)
(* Theorems about K8sAgent: type correctness, and that no run's end is       *)
(* published before its start, for any number of CronJobs, Jobs, posts,     *)
(* restarts, deletions and failures, and any limit.                         *)
(***************************************************************************)
EXTENDS K8sAgent, SequenceTheorems, TLAPS

\* In the events es every end follows its start, but for the jobs of S.
Led(es, S) ==
  \A i \in DOMAIN es : \A j \in Jobs :
    es[i] \in Ends(j) => j \in S \/ \E k \in 1 .. i : es[k] = Start(j)

--------------------------------------------------------------------------------
(* Lists of events                                                            *)

LEMMA EventKinds ==
  ASSUME NEW i \in Jobs, NEW j \in Jobs
  PROVE  /\ Start(i) = Start(j) => i = j
         /\ Start(i) \notin Ends(j) /\ Progress(i) \notin Ends(j) /\ Warning \notin Ends(j)
         /\ Start(i) # Warning /\ Progress(i) # Start(j)
         /\ {Success(i), Fail(i)} \cap Ends(j) # {} => i = j
         /\ {Start(j), Success(j), Fail(j), Progress(j), Warning} \subseteq Event
         /\ Start(j) \in Report /\ Start(j)[2] = j
BY DEF Start, Progress, Warning, Ends, Success, Fail, Event, Report

LEMMA Concat ==
  ASSUME NEW a \in Seq(Event), NEW b \in Seq(Event)
  PROVE  /\ a \o b \in Seq(Event) /\ Len(a \o b) = Len(a) + Len(b)
         /\ Len(a) \in Nat /\ Len(b) \in Nat
         /\ DOMAIN (a \o b) = 1 .. Len(a) + Len(b) /\ DOMAIN a = 1 .. Len(a) /\ DOMAIN b = 1 .. Len(b)
         /\ \A i \in 1 .. Len(a) : (a \o b)[i] = a[i]
         /\ \A i \in 1 .. Len(b) : (a \o b)[Len(a) + i] = b[i]
         /\ \A i \in Len(a) + 1 .. Len(a) + Len(b) : (a \o b)[i] = b[i - Len(a)]
OBVIOUS

LEMMA StartsConcat ==
  ASSUME NEW a \in Seq(Event), NEW b \in Seq(Event)
  PROVE  StartsIn(a \o b) = StartsIn(a) \cup StartsIn(b)
<1>1. ASSUME NEW j \in StartsIn(a \o b) PROVE j \in StartsIn(a) \cup StartsIn(b)
  <2>1. PICK i \in DOMAIN (a \o b) : (a \o b)[i] = Start(j)
    BY <1>1 DEF StartsIn, ToSet
  <2>2. i \in 1 .. Len(a) \/ i - Len(a) \in 1 .. Len(b)
    BY Concat
  <2> QED BY <2>1, <2>2, Concat DEF StartsIn, ToSet
<1>2. ASSUME NEW j \in StartsIn(a) \cup StartsIn(b) PROVE j \in StartsIn(a \o b)
  <2>1. CASE j \in StartsIn(a)
    <3>1. PICK i \in 1 .. Len(a) : a[i] = Start(j)
      BY <2>1, Concat DEF StartsIn, ToSet
    <3>2. i \in DOMAIN (a \o b) /\ (a \o b)[i] = Start(j)
      BY <3>1, Concat
    <3> QED BY <2>1, <3>2 DEF StartsIn, ToSet
  <2>2. CASE j \in StartsIn(b)
    <3>1. PICK i \in 1 .. Len(b) : b[i] = Start(j)
      BY <2>2, Concat DEF StartsIn, ToSet
    <3>2. Len(a) + i \in DOMAIN (a \o b) /\ (a \o b)[Len(a) + i] = Start(j)
      BY <3>1, Concat
    <3> QED BY <2>2, <3>2 DEF StartsIn, ToSet
  <2> QED BY <1>2, <2>1, <2>2
<1> QED BY <1>1, <1>2

LEMMA LedMore ==
  ASSUME NEW es, NEW S, NEW T, S \subseteq T, Led(es, S)
  PROVE  Led(es, T)
BY DEF Led

LEMMA LedConcat ==
  ASSUME NEW a \in Seq(Event), NEW b \in Seq(Event), NEW S,
         Led(a, S), Led(b, S \cup StartsIn(a))
  PROVE  Led(a \o b, S)
<1> SUFFICES ASSUME NEW i \in DOMAIN (a \o b), NEW j \in Jobs, (a \o b)[i] \in Ends(j), j \notin S
             PROVE  \E k \in 1 .. i : (a \o b)[k] = Start(j)
  BY DEF Led
<1>1. CASE i \in 1 .. Len(a)
  <2>1. a[i] \in Ends(j) /\ i \in DOMAIN a
    BY <1>1, Concat
  <2>2. PICK k \in 1 .. i : a[k] = Start(j)
    BY <2>1 DEF Led
  <2>3. k \in 1 .. Len(a)
    BY <1>1, Concat
  <2> QED BY <2>2, <2>3, Concat
<1>2. CASE i \notin 1 .. Len(a)
  <2>1. PICK h \in 1 .. Len(b) : h = i - Len(a)
    BY <1>2, Concat
  <2>2. b[h] \in Ends(j) /\ h \in DOMAIN b /\ i = Len(a) + h
    BY <2>1, Concat
  <2>3. CASE j \in StartsIn(a)
    <3>1. PICK k \in 1 .. Len(a) : a[k] = Start(j)
      BY <2>3, Concat DEF StartsIn, ToSet
    <3>2. k \in 1 .. i
      BY <2>2, Concat
    <3> QED BY <3>1, <3>2, Concat
  <2>4. CASE j \notin StartsIn(a)
    <3>1. PICK k \in 1 .. h : b[k] = Start(j)
      BY <2>2, <2>4 DEF Led
    <3>2. k \in 1 .. Len(b) /\ Len(a) + k \in 1 .. i
      BY <2>2, Concat
    <3> QED BY ZenonT(60), <3>1, <3>2, Concat
  <2> QED BY <2>3, <2>4
<1> QED BY <1>1, <1>2

\* The first n events of a list, and the others.
LEMMA Parts ==
  ASSUME NEW es \in Seq(Event), NEW n \in 0 .. Len(es)
  PROVE  /\ SubSeq(es, 1, n) \in Seq(Event) /\ SubSeq(es, n + 1, Len(es)) \in Seq(Event)
         /\ Len(SubSeq(es, 1, n)) = n
         /\ es = SubSeq(es, 1, n) \o SubSeq(es, n + 1, Len(es))
<1>1. n \in Nat /\ Len(es) \in Nat /\ n <= Len(es)
  OBVIOUS
<1>2. SubSeq(es, 1, n) \in Seq(Event) /\ Len(SubSeq(es, 1, n)) = n
  BY <1>1
<1>3. SubSeq(es, n + 1, Len(es)) \in Seq(Event)
  BY <1>1
<1>4. es = SubSeq(es, 1, n) \o SubSeq(es, n + 1, Len(es))
  <2>1. SubSeq(es, 1, n) \o SubSeq(es, n + 1, Len(es)) = SubSeq(es, 1, Len(es))
    <3>1. 1 \in 1 .. Len(es) + 1 /\ n \in 1 - 1 .. Len(es) /\ Len(es) \in n .. Len(es)
      BY <1>1
    <3> QED BY <3>1, ConcatAdjacentSubSeq
  <2> QED BY <2>1, SubSeqFull
<1> QED BY <1>2, <1>3, <1>4

LEMMA LedPrefix ==
  ASSUME NEW es \in Seq(Event), NEW n \in 0 .. Len(es), NEW S, Led(es, S)
  PROVE  Led(SubSeq(es, 1, n), S)
<1>1. /\ Len(es) \in Nat /\ n \in Nat /\ n <= Len(es) /\ DOMAIN es = 1 .. Len(es)
      /\ DOMAIN SubSeq(es, 1, n) = 1 .. n /\ \A i \in 1 .. n : SubSeq(es, 1, n)[i] = es[i]
  OBVIOUS
<1>2. \A i \in 1 .. n : i \in DOMAIN es /\ \A k \in 1 .. i : k \in 1 .. n
  BY <1>1
<1> QED BY <1>1, <1>2 DEF Led

\* What is left of a list once its first event was dealt with.
LEMMA LedTail ==
  ASSUME NEW es \in Seq(Event), es # <<>>, NEW S, Led(es, S)
  PROVE  /\ Head(es) \in Event /\ Tail(es) \in Seq(Event) /\ Len(Tail(es)) = Len(es) - 1
         /\ Led(Tail(es), S \cup StartsIn(<<Head(es)>>))
         /\ StartsIn(es) = StartsIn(<<Head(es)>>) \cup StartsIn(Tail(es))
         /\ \A j \in Jobs : Head(es) \in Ends(j) => j \in S
<1>1. /\ Head(es) \in Event /\ Tail(es) \in Seq(Event) /\ Len(Tail(es)) = Len(es) - 1
      /\ Len(es) \in Nat /\ Len(es) >= 1 /\ Head(es) = es[1]
      /\ DOMAIN es = 1 .. Len(es) /\ DOMAIN Tail(es) = 1 .. Len(es) - 1
      /\ \A i \in 1 .. Len(es) - 1 : Tail(es)[i] = es[i + 1]
  OBVIOUS
<1>2. es = <<Head(es)>> \o Tail(es) /\ <<Head(es)>> \in Seq(Event)
  BY <1>1
<1>3. StartsIn(es) = StartsIn(<<Head(es)>>) \cup StartsIn(Tail(es))
  BY <1>1, <1>2, StartsConcat
<1>4. \A j \in Jobs : Head(es) \in Ends(j) => j \in S
  <2> SUFFICES ASSUME NEW j \in Jobs, Head(es) \in Ends(j), j \notin S PROVE FALSE
    OBVIOUS
  <2>1. 1 \in DOMAIN es /\ es[1] \in Ends(j)
    BY <1>1
  <2>2. PICK k \in 1 .. 1 : es[k] = Start(j)
    BY <2>1 DEF Led
  <2>3. es[1] = Start(j)
    BY <2>2
  <2> QED BY <2>1, <2>3, EventKinds
<1>5. Led(Tail(es), S \cup StartsIn(<<Head(es)>>))
  <2> SUFFICES ASSUME NEW i \in DOMAIN Tail(es), NEW j \in Jobs, Tail(es)[i] \in Ends(j), j \notin S,
                      j \notin StartsIn(<<Head(es)>>)
               PROVE  \E k \in 1 .. i : Tail(es)[k] = Start(j)
    BY DEF Led
  <2>1. i + 1 \in DOMAIN es /\ es[i + 1] \in Ends(j) /\ i \in Nat
    BY <1>1
  <2>2. PICK k \in 1 .. i + 1 : es[k] = Start(j)
    BY <2>1 DEF Led
  <2>3. k # 1
    <3> SUFFICES ASSUME es[1] = Start(j) PROVE FALSE
      BY <2>2
    <3>1. ToSet(<<Head(es)>>) = {Head(es)}
      BY DEF ToSet
    <3> QED BY <1>1, <3>1 DEF StartsIn
  <2>4. k - 1 \in 1 .. i /\ k - 1 \in 1 .. Len(es) - 1 /\ k - 1 + 1 = k
    BY <1>1, <2>1, <2>3
  <2> QED BY <1>1, <2>2, <2>4
<1> QED BY <1>1, <1>3, <1>4, <1>5

LEMMA StartsEmpty == StartsIn(<<>>) = {} /\ \A S : Led(<<>>, S)
BY DEF StartsIn, ToSet, Led

\* What the server reads of a batch, and the rest.
LEMMA ReadParts ==
  ASSUME NEW es \in Seq(Event)
  PROVE  /\ Read(es) \in Seq(Event) /\ Len(Read(es)) <= Limit
         /\ StartsIn(es) = StartsIn(Read(es)) \cup StartsIn(SubSeq(es, Limit + 1, Len(es)))
         /\ \A S : Led(es, S) => Led(Read(es), S)
<1>1. Len(es) \in Nat /\ Limit \in Nat /\ Limit > 0
  BY K8sAssumption
<1>2. PICK n \in 0 .. Len(es) : n = IF Len(es) < Limit THEN Len(es) ELSE Limit
  BY <1>1
<1>3. Read(es) = SubSeq(es, 1, n) /\ n <= Limit
  BY <1>1, <1>2 DEF Read
<1>4. Read(es) \in Seq(Event) /\ Len(Read(es)) = n
  BY <1>3, Parts
<1>5. StartsIn(es) = StartsIn(Read(es)) \cup StartsIn(SubSeq(es, Limit + 1, Len(es)))
  <2>1. CASE Len(es) < Limit
    <3>1. n = Len(es) /\ n + 1 > Len(es) /\ Limit + 1 > Len(es)
      BY <1>1, <1>2, <2>1
    <3>2. SubSeq(es, Limit + 1, Len(es)) = <<>> /\ SubSeq(es, 1, Len(es)) = es
      <4>1. SubSeq(es, Limit + 1, Len(es)) = <<>>
        BY <1>1, <3>1
      <4> QED BY <4>1, SubSeqFull
    <3> QED BY <1>3, <3>1, <3>2, StartsEmpty
  <2>2. CASE ~(Len(es) < Limit)
    <3>1. n = Limit
      BY <1>2, <2>2
    <3>2. /\ SubSeq(es, 1, n) \in Seq(Event) /\ SubSeq(es, n + 1, Len(es)) \in Seq(Event)
          /\ es = SubSeq(es, 1, n) \o SubSeq(es, n + 1, Len(es))
      BY Parts
    <3>3. PICK a \in Seq(Event), b \in Seq(Event) : a = SubSeq(es, 1, n) /\ b = SubSeq(es, n + 1, Len(es))
      BY <3>2
    <3>4. StartsIn(es) = StartsIn(a) \cup StartsIn(b)
      BY <3>2, <3>3, StartsConcat
    <3> QED BY <1>3, <3>1, <3>3, <3>4
  <2> QED BY <2>1, <2>2
<1>6. \A S : Led(es, S) => Led(Read(es), S)
  BY <1>3, LedPrefix
<1> QED BY <1>3, <1>4, <1>5, <1>6

\* The order of a list of one event.
LEMMA OneEvent ==
  ASSUME NEW e \in Event
  PROVE  /\ <<e>> \in Seq(Event)
         /\ \A S : Led(<<e>>, S) <=> \A j \in Jobs : e \in Ends(j) => j \in S
         /\ StartsIn(<<e>>) = {j \in Jobs : e = Start(j)}
<1>1. <<e>> \in Seq(Event) /\ DOMAIN <<e>> = {1} /\ <<e>>[1] = e /\ 1 .. 1 = {1}
  OBVIOUS
<1>2. ASSUME NEW S PROVE Led(<<e>>, S) <=> \A j \in Jobs : e \in Ends(j) => j \in S
  BY <1>1, EventKinds DEF Led
<1>3. StartsIn(<<e>>) = {j \in Jobs : e = Start(j)}
  BY <1>1 DEF StartsIn, ToSet
<1> QED BY <1>1, <1>2, <1>3

\* What onJob pushes: the end of a Job behind its start, or one that was seen.
LEMMA EventsLed ==
  ASSUME NEW j \in Jobs, NEW S, j \in started => j \in S
  PROVE  /\ EventsOf(j) \in Seq(Event)
         /\ Led(EventsOf(j), S)
         /\ started \cup {j} \subseteq started \cup StartsIn(EventsOf(j))
<1>1. {Start(j), Success(j), Fail(j)} \subseteq Event
  BY EventKinds
<1>2. FinalOf(j) \in Seq(Event) /\ \A T : j \in T => Led(FinalOf(j), T)
  <2>1. \A e \in {Success(j), Fail(j)} : <<e>> \in Seq(Event) /\ \A T : j \in T => Led(<<e>>, T)
    BY <1>1, OneEvent, EventKinds
  <2>2. <<>> \in Seq(Event) /\ \A T : Led(<<>>, T)
    BY StartsEmpty
  <2> QED BY <2>1, <2>2 DEF FinalOf
<1>3. CASE j \in started
  <2>1. EventsOf(j) = FinalOf(j)
    BY <1>2, <1>3 DEF EventsOf
  <2> QED BY <1>2, <1>3, <2>1
<1>4. CASE j \notin started
  <2>1. EventsOf(j) = <<Start(j)>> \o FinalOf(j)
    BY <1>4 DEF EventsOf
  <2>2. <<Start(j)>> \in Seq(Event) /\ j \in StartsIn(<<Start(j)>>) /\ Led(<<Start(j)>>, S)
    BY <1>1, OneEvent, EventKinds
  <2>3. Led(FinalOf(j), S \cup StartsIn(<<Start(j)>>))
    BY <1>2, <2>2
  <2>4. EventsOf(j) \in Seq(Event) /\ Led(EventsOf(j), S)
    <3>1. PICK a \in Seq(Event), b \in Seq(Event) : a = <<Start(j)>> /\ b = FinalOf(j)
      BY <1>2, <2>2
    <3>2. Led(a \o b, S)
      BY <2>2, <2>3, <3>1, LedConcat
    <3> QED BY <2>1, <3>1, <3>2
  <2>5. j \in StartsIn(EventsOf(j))
    BY <1>2, <2>1, <2>2, StartsConcat
  <2> QED BY <2>4, <2>5
<1> QED BY <1>3, <1>4

--------------------------------------------------------------------------------
(* Types                                                                      *)

Request == [todo : Seq(Event), rows : SUBSET Jobs, live : BOOLEAN]

ClusterTypes ==
  /\ current \in [Names -> UIDs] /\ retired \subseteq UIDs /\ suspend \subseteq UIDs
  /\ job \in [Jobs -> {"absent", "running", "succeeded", "failed", "gone"}]
  /\ sick \subseteq {j \in Jobs : Present(j)}
  /\ \A n \in Names : NameOf[current[n]] = n

AgentTypes ==
  /\ key \in {"secret", "token", "none"} /\ up \in BOOLEAN
  /\ pending \in Seq(Event) /\ started \subseteq Jobs
  /\ sending # None => up /\ sending \in Seq(Event)

\* At most one request has an agent that waits for it.
RequestTypes ==
  /\ posts \subseteq Request
  /\ \A p \in posts : Len(p.todo) <= Limit /\ p.rows \subseteq Execs
  /\ \A p, q \in posts : p.live /\ q.live => p = q
  /\ sending # None <=> \E p \in posts : p.live

MonitorTypes ==
  /\ fp \in [Names -> UIDs \cup {None}] /\ paused \subseteq Names
  /\ rows \subseteq UIDs /\ \A u, v \in rows : NameOf[u] = NameOf[v] => u = v

IngestTypes ==
  /\ stream \subseteq Report /\ orphans \subseteq Report
  /\ recorded \subseteq stream /\ swallowed \subseteq orphans /\ recorded \cap swallowed = {}
  /\ explained \subseteq Execs
  /\ lost \subseteq Jobs
  /\ mishaps \in 0 .. MaxMishaps

TInv == ClusterTypes /\ AgentTypes /\ RequestTypes /\ MonitorTypes /\ IngestTypes

LEMMA TInvImplies == TInv => TypeOK
BY DEF TInv, ClusterTypes, AgentTypes, RequestTypes, MonitorTypes, IngestTypes, TypeOK, Request

LEMMA TInvInit == Init => TInv
<1> SUFFICES ASSUME Init PROVE TInv
  OBVIOUS
<1>1. ClusterTypes
  BY DEF Init, ClusterTypes
<1>2. AgentTypes /\ RequestTypes
  <2>1. pending = <<>> /\ pending \in Seq(Event) /\ sending = None /\ posts = {}
    BY DEF Init
  <2>2. AgentTypes
    BY <2>1 DEF Init, AgentTypes
  <2> QED BY <2>1, <2>2 DEF RequestTypes
<1>3. MonitorTypes /\ IngestTypes
  BY K8sAssumption DEF Init, MonitorTypes, IngestTypes
<1> QED BY <1>1, <1>2, <1>3 DEF TInv

LEMMA ExecsAreJobs == IngestTypes => Execs \subseteq Jobs
BY DEF IngestTypes, Execs, Report

LEMMA MishapStep == IngestTypes /\ Mishap => mishaps' \in 0 .. MaxMishaps
BY K8sAssumption DEF IngestTypes, Mishap

\* A step that leaves the variables of a part alone leaves its types alone.
LEMMA PartsUnchanged ==
  /\ ClusterTypes /\ UNCHANGED cluster => ClusterTypes'
  /\ AgentTypes /\ UNCHANGED <<key, watcher, sending>> => AgentTypes'
  /\ RequestTypes /\ UNCHANGED <<flush, recorded>> => RequestTypes'
  /\ MonitorTypes /\ UNCHANGED monitor => MonitorTypes'
  /\ IngestTypes /\ UNCHANGED <<ingest, lost, mishaps>> => IngestTypes'
  /\ IngestTypes /\ UNCHANGED <<ingest, lost>> /\ Mishap => IngestTypes'
<1>1. ClusterTypes /\ UNCHANGED cluster => ClusterTypes'
  BY DEF ClusterTypes, cluster, Present
<1>2. AgentTypes /\ UNCHANGED <<key, watcher, sending>> => AgentTypes'
  BY DEF AgentTypes, watcher
<1>3. RequestTypes /\ UNCHANGED <<flush, recorded>> => RequestTypes'
  BY DEF RequestTypes, flush, Execs
<1>4. MonitorTypes /\ UNCHANGED monitor => MonitorTypes'
  BY DEF MonitorTypes, monitor
<1>5. IngestTypes /\ UNCHANGED <<ingest, lost, mishaps>> => IngestTypes'
  BY DEF IngestTypes, ingest, Execs
<1>6. IngestTypes /\ UNCHANGED <<ingest, lost>> /\ Mishap => IngestTypes'
  BY MishapStep DEF IngestTypes, ingest, Execs
<1> QED BY <1>1, <1>2, <1>3, <1>4, <1>5, <1>6

--------------------------------------------------------------------------------
(* Types under each step                                                      *)

LEMMA ClusterTypesStep ==
  ASSUME TInv, \/ ClusterStep
               \/ \E u \in UIDs : Suspend(u) \/ Recreate(u)
  PROVE  ClusterTypes'
<1> USE DEF TInv, ClusterTypes
<1>1. CASE ClusterStep
  <2>1. PICK j \in Jobs : RunJob(j) \/ EndJob(j) \/ Sicken(j) \/ Heal(j) \/ Collect(j)
    BY <1>1 DEF ClusterStep
  <2>2. CASE RunJob(j)
    BY <2>2 DEF RunJob, SetJob, Present
  <2>3. CASE EndJob(j)
    BY <2>3, K8sAssumption DEF EndJob, SetJob, Present
  <2>4. CASE Sicken(j)
    BY <2>4 DEF Sicken, Present
  <2>5. CASE Collect(j)
    BY <2>5 DEF Collect, SetJob, Present, Finished
  <2>6. CASE Heal(j)
    BY <2>6 DEF Heal, Present
  <2> QED BY <2>1, <2>2, <2>3, <2>4, <2>5, <2>6
<1>2. ASSUME NEW u \in UIDs, Suspend(u) PROVE ClusterTypes'
  BY <1>2 DEF Suspend, Present
<1>3. ASSUME NEW u \in UIDs, Recreate(u) PROVE ClusterTypes'
  <2>1. NameOf[u] \in Names
    BY DEF Names
  <2>2. PICK its : its = {j \in Jobs : OwnerOf[j] = current[NameOf[u]] /\ Present(j)}
    OBVIOUS
  <2>3. /\ job' = [j \in Jobs |-> IF j \in its THEN "gone" ELSE job[j]] /\ sick' = sick \ its
        /\ current' = [current EXCEPT ![NameOf[u]] = u]
        /\ retired' = retired \cup {current[NameOf[u]]} /\ suspend' = suspend
    BY <1>3, <2>2 DEF Recreate
  <2>4. sick' \subseteq {j \in Jobs : Present(j)'}
    BY <2>3 DEF Present
  <2>5. job' \in [Jobs -> {"absent", "running", "succeeded", "failed", "gone"}]
    BY <2>3
  <2> QED BY <2>1, <2>3, <2>4, <2>5
<1> QED BY <1>1, <1>2, <1>3

\* The handlers of the informers, and what the operator and main do about the key.
LEMMA AgentStep ==
  ASSUME TInv, \/ Boot \/ KeepKey \/ OnEvent
               \/ \E j \in Jobs : OnJob(j) \/ OnPod(j)
  PROVE  AgentTypes' /\ UNCHANGED <<cluster, flush, monitor, ingest, lost>> /\ (Mishap \/ UNCHANGED mishaps)
<1> USE DEF TInv, AgentTypes
<1>1. CASE Boot
  <2>1. UNCHANGED <<cluster, flush, monitor, ingest, lost>> /\ (Mishap \/ UNCHANGED mishaps)
    BY <1>1 DEF Boot
  <2>2. AgentTypes'
    BY <1>1 DEF Boot, flush
  <2> QED BY <2>1, <2>2
<1>2. CASE KeepKey
  <2>1. UNCHANGED <<cluster, flush, monitor, ingest, lost>> /\ UNCHANGED mishaps
    BY <1>2 DEF KeepKey
  <2>2. AgentTypes'
    BY <1>2 DEF KeepKey, watcher, flush
  <2> QED BY <2>1, <2>2
<1>3. ASSUME NEW es \in Seq(Event), Push(es), UNCHANGED started \/ \E j \in Jobs : started' = started \cup {j}
      PROVE  AgentTypes' /\ UNCHANGED <<cluster, flush, monitor, ingest, lost>>
  <2>1. pending' \in Seq(Event)
    BY <1>3, Concat DEF Push
  <2>2. UNCHANGED <<cluster, key, up, sending, flush, monitor, ingest, lost>>
    BY <1>3 DEF Push, flush
  <2> QED BY <1>3, <2>1, <2>2
<1>4. CASE OnEvent
  BY <1>3, <1>4, OneEvent DEF OnEvent, Event
<1>5. ASSUME NEW j \in Jobs, OnJob(j)
      PROVE  /\ AgentTypes' /\ UNCHANGED <<cluster, flush, monitor, ingest, lost>>
             /\ (Mishap \/ UNCHANGED mishaps)
  <2>1. EventsOf(j) \in Seq(Event)
    BY EventsLed
  <2> QED BY <1>3, <1>5, <2>1 DEF OnJob
<1>6. ASSUME NEW j \in Jobs, OnPod(j)
      PROVE  /\ AgentTypes' /\ UNCHANGED <<cluster, flush, monitor, ingest, lost>>
             /\ (Mishap \/ UNCHANGED mishaps)
  <2>1. <<Progress(j)>> \in Seq(Event)
    BY EventKinds, OneEvent
  <2> QED BY <1>3, <1>6, <2>1 DEF OnPod
<1> QED BY <1>1, <1>2, <1>4, <1>5, <1>6

LEMMA StartsAreJobs == \A es : StartsIn(es) \subseteq Jobs
BY DEF StartsIn

\* The flusher takes what is pending.
LEMMA FlushTypes ==
  ASSUME TInv, Flush
  PROVE  AgentTypes' /\ RequestTypes'
<1> USE DEF TInv, AgentTypes
<1>1. AgentTypes'
  BY DEF Flush
<1>2. PICK r \in Request : r = [todo |-> Read(pending), rows |-> {}, live |-> TRUE]
  BY ReadParts DEF Request
<1>3. posts' = posts \cup {r} /\ sending = None /\ sending' = pending /\ Execs' = Execs
  BY <1>2 DEF Flush, ingest, Execs
<1>4. \A p \in posts : ~p.live
  BY <1>3 DEF RequestTypes
<1>5. Len(r.todo) <= Limit /\ r.rows \subseteq Execs' /\ r.live
  BY <1>2, ReadParts
<1>6. sending' # None
  BY <1>3, K8sAssumption
<1>7. RequestTypes'
  BY <1>3, <1>4, <1>5, <1>6 DEF RequestTypes
<1> QED BY <1>1, <1>7

\* Nobody waits for the requests that are left when the agent stops waiting.
LEMMA UnwatchedTypes ==
  ASSUME RequestTypes, sending' = None, recorded' = recorded, posts' \in Unwatched
  PROVE  RequestTypes' /\ \A p \in posts' : ~p.live /\ \E q \in posts : q.todo = p.todo
<1>1. PICK gone : gone = {p \in posts : ~p.live}
  OBVIOUS
<1>2. ASSUME NEW p \in posts'
      PROVE  ~p.live /\ p \in Request /\ \E q \in posts : q.todo = p.todo /\ q.rows = p.rows
  <2>1. CASE p \in gone
    BY <1>1, <2>1 DEF RequestTypes
  <2>2. CASE p \notin gone
    <3>1. PICK q \in posts : p = [q EXCEPT !.live = FALSE]
      BY <1>1, <1>2, <2>2 DEF Unwatched
    <3>2. q \in Request
      BY DEF RequestTypes
    <3> QED BY <3>1, <3>2 DEF Request
  <2> QED BY <2>1, <2>2
<1>3. Execs' = Execs
  BY DEF Execs
<1> QED BY <1>2, <1>3 DEF RequestTypes

LEMMA FlushFailsTypes ==
  ASSUME TInv, FlushFails
  PROVE  AgentTypes' /\ RequestTypes'
<1> USE DEF TInv, AgentTypes
<1>1. sending \in Seq(Event) /\ pending \in Seq(Event)
  BY DEF FlushFails
<1>2. pending' \in Seq(Event)
  BY <1>1, Concat DEF FlushFails, Requeue
<1>3. AgentTypes'
  BY <1>2 DEF FlushFails
<1>4. RequestTypes'
  BY UnwatchedTypes DEF FlushFails, ingest
<1> QED BY <1>3, <1>4

LEMMA DieTypes ==
  ASSUME TInv, Die
  PROVE  AgentTypes' /\ RequestTypes' /\ IngestTypes'
<1>1. AgentTypes'
  <2>1. pending' = <<>> /\ pending' \in Seq(Event) /\ sending' = None /\ started' = {} /\ up' = FALSE /\ key' = key
    BY DEF Die
  <2> QED BY <2>1 DEF AgentTypes, TInv
<1>2. RequestTypes'
  BY UnwatchedTypes DEF Die, ingest, TInv
<1>3. IngestTypes'
  <2>1. lost' \subseteq Jobs
    BY StartsAreJobs DEF Die, TInv, IngestTypes
  <2>2. mishaps' \in 0 .. MaxMishaps
    BY MishapStep DEF Die, TInv
  <2> QED BY <2>1, <2>2 DEF Die, ingest, TInv, IngestTypes, Execs
<1> QED BY <1>1, <1>2, <1>3

LEMMA RequestChanged ==
  ASSUME NEW p \in Request, NEW t \in Seq(Event), NEW r \in SUBSET Jobs
  PROVE  [p EXCEPT !.todo = t, !.rows = r] = [todo |-> t, rows |-> r, live |-> p.live]
<1> DEFINE q == [p EXCEPT !.todo = t]
<1>1. p \in [todo : Seq(Event), rows : SUBSET Jobs, live : BOOLEAN]
  BY DEF Request
<1>2. [p EXCEPT !.todo = t, !.rows = r] = [q EXCEPT !.rows = r]
  BY <1>1
<1>3. /\ q = [todo |-> t, rows |-> p.rows, live |-> p.live]
      /\ q \in [todo : Seq(Event), rows : SUBSET Jobs, live : BOOLEAN]
  BY <1>1
<1> HIDE DEF q
<1>4. [q EXCEPT !.rows = r] = [todo |-> q.todo, rows |-> r, live |-> q.live]
  BY <1>3
<1> QED BY <1>2, <1>3, <1>4

\* The server deals with the first event of a request.
LEMMA HandleTypes ==
  ASSUME TInv, NEW p \in Request, p \in posts, Handle(p)
  PROVE  /\ RequestTypes' /\ IngestTypes'
         /\ \E q \in Request : /\ posts' = (posts \ {p}) \cup {q}
                               /\ q.todo = Tail(p.todo) /\ q.live = p.live
<1> USE DEF TInv, RequestTypes, IngestTypes
<1>1. p \in Request /\ p.todo \in Seq(Event) /\ p.todo # <<>> /\ Len(p.todo) <= Limit
  BY DEF Request, Handle
<1>2. PICK e \in Event : e = Head(p.todo)
  BY <1>1, LedTail
<1>3. Tail(p.todo) \in Seq(Event) /\ Len(Tail(p.todo)) <= Limit
  <2>1. Len(p.todo) \in Nat /\ Len(p.todo) # 0 /\ Limit \in Nat /\ Len(Tail(p.todo)) = Len(p.todo) - 1
    BY <1>1, K8sAssumption
  <2> QED BY <1>1, <2>1
<1>4. \A j : e # Warning /\ j = e[2] => j \in Jobs
  BY DEF Event, Report
<1>5. PICK taken \in BOOLEAN : taken <=> e # Warning /\ Known(e[2])
  OBVIOUS
<1>6. PICK r \in SUBSET Jobs :
        /\ r = IF taken /\ e = Progress(e[2]) /\ e[2] \in Execs THEN p.rows \cup {e[2]} ELSE p.rows
        /\ r \subseteq Execs
  <2>1. p.rows \subseteq Execs /\ Execs \subseteq Jobs
    BY ExecsAreJobs
  <2> QED BY <2>1
<1>7. PICK q \in Request :
        /\ q = [p EXCEPT !.todo = Tail(@), !.rows = r]
        /\ q.todo = Tail(p.todo) /\ q.rows = r /\ q.live = p.live
  <2>1. PICK q \in Request : q = [todo |-> Tail(p.todo), rows |-> r, live |-> p.live]
    BY <1>3 DEF Request
  <2>2. [p EXCEPT !.todo = Tail(@), !.rows = r] = [todo |-> Tail(p.todo), rows |-> r, live |-> p.live]
    BY <1>3, RequestChanged
  <2> QED BY <2>1, <2>2
<1>8. /\ posts' = (posts \ {p}) \cup {q} /\ Execs' = Execs /\ sending' = sending
      /\ UNCHANGED <<orphans, recorded, swallowed, explained, mishaps>>
      /\ stream' = IF taken /\ e # Progress(e[2]) THEN stream \cup {e} ELSE stream
      /\ lost' = IF e # Warning /\ e = Start(e[2]) /\ ~taken THEN lost \cup {e[2]} ELSE lost
  <2>1. posts' = (posts \ {p}) \cup
             {[p EXCEPT !.todo = Tail(@),
                        !.rows = IF taken /\ e = Progress(e[2]) /\ e[2] \in Execs
                                   THEN @ \cup {e[2]} ELSE @]}
    BY <1>2, <1>5 DEF Handle
  <2>2. [p EXCEPT !.todo = Tail(@),
                  !.rows = IF taken /\ e = Progress(e[2]) /\ e[2] \in Execs
                             THEN @ \cup {e[2]} ELSE @] = [p EXCEPT !.todo = Tail(@), !.rows = r]
    BY <1>1, <1>6 DEF Request
  <2>3. Execs' = Execs
    BY DEF Handle, Execs
  <2> QED BY <1>2, <1>5, <1>7, <2>1, <2>2, <2>3 DEF Handle
<1>9. IngestTypes'
  <2>1. stream' \subseteq Report /\ stream \subseteq stream'
    <3>1. e # Warning /\ e # Progress(e[2]) => e \in Report
      BY DEF Event, Progress
    <3> QED BY <1>5, <1>8, <3>1
  <2>2. lost' \subseteq Jobs
    BY <1>4, <1>8
  <2> QED BY <1>8, <2>1, <2>2
<1>10. /\ Len(q.todo) <= Limit /\ q.rows \subseteq Execs /\ q.live = p.live /\ q.todo = Tail(p.todo)
  BY <1>3, <1>6, <1>7
<1>11. RequestTypes'
  BY <1>8, <1>10
<1> QED BY <1>8, <1>9, <1>10, <1>11

LEMMA FinishTypes ==
  ASSUME TInv, NEW p \in posts, Finish(p)
  PROVE  AgentTypes' /\ RequestTypes' /\ IngestTypes'
<1>1. p.live \in BOOLEAN /\ p.rows \subseteq Execs
  BY DEF TInv, RequestTypes, Request
<1>2. AgentTypes'
  BY <1>1 DEF Finish, TInv, AgentTypes, watcher
<1>3. RequestTypes'
  BY <1>1 DEF Finish, TInv, RequestTypes, Execs
<1>4. IngestTypes'
  <2>1. lost' \subseteq Jobs
    BY <1>1, StartsAreJobs DEF Finish, TInv, IngestTypes
  <2> QED BY <1>1, <2>1 DEF Finish, TInv, IngestTypes, Execs
<1> QED BY <1>2, <1>3, <1>4

LEMMA ProcessTypes ==
  ASSUME TInv, NEW e \in Report, Process(e) \/ ProcessOrphan(e)
  PROVE  RequestTypes' /\ IngestTypes'
<1>1. Execs \subseteq Execs'
  BY DEF Process, ProcessOrphan, Execs
<1>2. RequestTypes'
  BY <1>1 DEF Process, ProcessOrphan, TInv, RequestTypes, flush
<1>3. IngestTypes'
  BY <1>1 DEF Process, ProcessOrphan, TInv, IngestTypes
<1> QED BY <1>2, <1>3

\* A job is deleted: no request has a row of it, and the keys of its runs go with them.
LEMMA DeleteTypes ==
  ASSUME TInv, NEW n \in Names, DeleteJob(n)
  PROVE  RequestTypes' /\ IngestTypes' /\ MonitorTypes'
<1>1. \A j \in Execs : j \notin JobsOf(n) => j \in Execs'
  BY DEF DeleteJob, Execs, ReportsOf
<1>2. RequestTypes'
  <2>1. posts' = posts /\ sending' = sending /\ \A p \in posts : p.rows \cap JobsOf(n) = {}
    BY DEF DeleteJob, flush
  <2>2. \A p \in posts : p.rows \subseteq Execs'
    BY <1>1, <2>1 DEF TInv, RequestTypes
  <2> QED BY <2>1, <2>2 DEF TInv, RequestTypes
<1>3. IngestTypes'
  <2>1. stream' \subseteq Report /\ orphans' \subseteq Report
    BY DEF DeleteJob, TInv, IngestTypes
  <2>2. recorded' \subseteq stream' /\ swallowed' \subseteq orphans' /\ recorded' \cap swallowed' = {}
    BY DEF DeleteJob, TInv, IngestTypes
  <2>3. explained' \subseteq Execs'
    BY <1>1 DEF DeleteJob, TInv, IngestTypes
  <2>4. lost' \subseteq Jobs
    BY DEF DeleteJob, TInv, IngestTypes, JobsOf
  <2>5. mishaps' \in 0 .. MaxMishaps
    BY MishapStep DEF DeleteJob, TInv
  <2> QED BY <2>1, <2>2, <2>3, <2>4, <2>5 DEF IngestTypes
<1>4. MonitorTypes'
  BY DEF DeleteJob, TInv, MonitorTypes
<1> QED BY <1>2, <1>3, <1>4

\* What the agent posts gets no second row of a name: it would collide.
LEMMA MonitorStep ==
  ASSUME TInv, Discover \/ \E n \in Names : PauseJob(n)
  PROVE  MonitorTypes'
<1>1. CASE Discover
  <2>1. current \in [Names -> UIDs] /\ \A n \in Names : NameOf[current[n]] = n
    BY DEF TInv, ClusterTypes
  <2>2. fp' \in [Names -> UIDs \cup {None}] /\ paused' \subseteq Names /\ rows' \subseteq UIDs
    BY <1>1, <2>1 DEF Discover, PausedAfter, Living, TInv, MonitorTypes
  <2>3. ASSUME NEW u \in rows', NEW v \in rows', NameOf[u] = NameOf[v] PROVE u = v
    <3>1. CASE u \in rows /\ v \in rows
      BY <2>3, <3>1 DEF TInv, MonitorTypes
    <3>2. CASE u \in Living /\ v \in Living
      BY <2>1, <2>3, <3>2 DEF Living
    <3>3. CASE (u \in Living \ rows /\ v \in rows) \/ (v \in Living \ rows /\ u \in rows)
      BY <1>1, <2>3, <3>3 DEF Discover, Collides
    <3> QED BY <1>1, <2>3, <3>1, <3>2, <3>3 DEF Discover
  <2> QED BY <2>2, <2>3 DEF MonitorTypes
<1>2. ASSUME NEW n \in Names, PauseJob(n) PROVE MonitorTypes'
  BY <1>2 DEF PauseJob, TInv, MonitorTypes
<1> QED BY <1>1, <1>2

LEMMA TInvStep == TInv /\ [Next]_vars => TInv'
<1> SUFFICES ASSUME TInv, [Next]_vars PROVE TInv'
  OBVIOUS
<1>1. CASE ClusterStep \/ \E u \in UIDs : Suspend(u) \/ Recreate(u)
  <2>1. /\ UNCHANGED <<key, watcher, flush, monitor, ingest, lost>>
        /\ (Mishap \/ UNCHANGED mishaps)
    BY <1>1 DEF ClusterStep, Suspend, Recreate
  <2> QED BY <1>1, <2>1, ClusterTypesStep, PartsUnchanged DEF TInv, flush, ingest
<1>2. CASE \/ Boot \/ KeepKey \/ OnEvent
           \/ \E j \in Jobs : OnJob(j) \/ OnPod(j)
  BY <1>2, AgentStep, PartsUnchanged DEF TInv, flush, ingest
<1>3. CASE Flush
  BY <1>3, FlushTypes, PartsUnchanged DEF TInv, Flush
<1>4. CASE FlushFails
  BY <1>4, FlushFailsTypes, PartsUnchanged DEF TInv, FlushFails
<1>5. CASE Die
  BY <1>5, DieTypes, PartsUnchanged DEF TInv, Die
<1>6. ASSUME NEW p \in posts, Handle(p) PROVE TInv'
  <2>1. p \in Request
    BY <1>6 DEF TInv, RequestTypes
  <2> QED BY <1>6, <2>1, HandleTypes, PartsUnchanged DEF TInv, Handle
<1>7. ASSUME NEW p \in posts, Finish(p) PROVE TInv'
  BY <1>7, FinishTypes, PartsUnchanged DEF TInv, Finish
<1>8. ASSUME NEW e \in Report, Process(e) \/ ProcessOrphan(e) PROVE TInv'
  BY <1>8, ProcessTypes, PartsUnchanged DEF TInv, Process, ProcessOrphan, flush
<1>9. CASE Discover \/ \E n \in Names : PauseJob(n)
  <2>1. UNCHANGED <<cluster, key, watcher, flush, ingest, lost>> /\ (Mishap \/ UNCHANGED mishaps)
    BY <1>9 DEF Discover, PauseJob
  <2> QED BY <1>9, <2>1, MonitorStep, PartsUnchanged DEF TInv, flush, ingest
<1>10. CASE BootFails \/ DiscoverRefused \/ UNCHANGED vars
  <2>1. UNCHANGED vars
    BY <1>10 DEF BootFails, DiscoverRefused
  <2> QED BY <2>1, PartsUnchanged DEF TInv, vars, flush, ingest
<1>11. ASSUME NEW n \in Names, DeleteJob(n) PROVE TInv'
  BY <1>11, DeleteTypes, PartsUnchanged DEF TInv, DeleteJob, flush
<1> QED BY <1>1, <1>2, <1>3, <1>4, <1>5, <1>6, <1>7, <1>8, <1>9, <1>10, <1>11 DEF Next

\* Every variable keeps its type; a batch is awaited exactly while its request is live, and
\* k8s_cronjobs has no two rows of one name, for any cluster, limit and number of failures.
THEOREM TypeCorrect == Spec => []TypeOK
<1>1. Spec => []TInv
  BY TInvInit, TInvStep, PTL DEF Spec
<1> QED BY <1>1, TInvImplies, PTL


--------------------------------------------------------------------------------
(* The order of starts and ends                                               *)

\* What the flusher waits for.
Batch == IF sending = None THEN <<>> ELSE sending

\* The Jobs whose start was published or dropped.
Past == lost \cup {j \in Jobs : Start(j) \in stream}

\* Wherever events wait -- in the requests of the server, with the flusher, in the list in
\* memory -- an end comes behind its start, or its start has gone before; onJob pushes no
\* second start because it has the first one somewhere on the way; and the starts of a batch
\* that the agent waits for have been dealt with, or are in the rest of the request.
OrderInv ==
  /\ \A p \in posts : Led(p.todo, Past)
  /\ Led(Batch, Past)
  /\ Led(pending, Past \cup StartsIn(Batch))
  /\ started \subseteq Past \cup StartsIn(Batch) \cup StartsIn(pending)
  /\ \A p \in posts : p.live => StartsIn(Read(Batch)) \subseteq Past \cup StartsIn(p.todo)

LEMMA OrderInit == Init => OrderInv
<1> SUFFICES ASSUME Init PROVE OrderInv
  OBVIOUS
<1>1. posts = {} /\ sending = None /\ pending = <<>> /\ started = {}
  BY DEF Init
<1>2. Batch = <<>>
  BY <1>1 DEF Batch
<1> QED BY <1>1, <1>2, StartsEmpty DEF OrderInv

LEMMA BatchTypes ==
  ASSUME TInv
  PROVE  /\ Batch \in Seq(Event) /\ pending \in Seq(Event)
         /\ \A p \in posts : p \in Request /\ p.todo \in Seq(Event)
BY DEF TInv, AgentTypes, IngestTypes, RequestTypes, Request, Batch

LEMMA OrderUnchanged ==
  ASSUME OrderInv, UNCHANGED <<pending, started, sending, posts, stream, lost>>
  PROVE  OrderInv'
<1>1. Batch' = Batch /\ Past' = Past
  BY DEF Batch, Past, StartsIn
<1> QED BY <1>1 DEF OrderInv, Led, StartsIn, Read

\* A handler pushes events that are led by what is on the way.
LEMMA OrderPush ==
  ASSUME TInv, OrderInv, NEW es \in Seq(Event), Push(es),
         Led(es, Past \cup StartsIn(Batch) \cup StartsIn(pending)),
         started' \subseteq started \cup StartsIn(es)
  PROVE  OrderInv'
<1>1. /\ pending' = pending \o es
      /\ UNCHANGED <<sending, posts, stream, lost>>
  BY DEF Push, flush, ingest
<1>2. Batch' = Batch /\ Past' = Past
  BY <1>1 DEF Batch, Past
<1>3. Led(pending \o es, Past \cup StartsIn(Batch))
  BY BatchTypes, LedConcat DEF OrderInv
<1>4. StartsIn(pending \o es) = StartsIn(pending) \cup StartsIn(es)
  BY BatchTypes, StartsConcat
<1>5. started' \subseteq Past' \cup StartsIn(Batch') \cup StartsIn(pending')
  BY <1>1, <1>2, <1>4 DEF OrderInv
<1> QED BY <1>1, <1>2, <1>3, <1>5 DEF OrderInv

LEMMA OrderAgent ==
  ASSUME TInv, OrderInv,
         OnEvent \/ \E j \in Jobs : OnJob(j) \/ OnPod(j)
  PROVE  OrderInv'
<1>1. CASE OnEvent
  <2>1. PICK es \in Seq(Event) : es = <<Warning>>
    BY OneEvent DEF Event
  <2>2. \A S : Led(es, S)
    BY <2>1, OneEvent, EventKinds DEF Event
  <2> QED BY <1>1, <2>1, <2>2, OrderPush DEF OnEvent
<1>2. ASSUME NEW j \in Jobs, OnJob(j) PROVE OrderInv'
  <2>1. PICK S : S = Past \cup StartsIn(Batch) \cup StartsIn(pending)
    OBVIOUS
  <2>2. j \in started => j \in S
    BY <2>1 DEF OrderInv
  <2>3. /\ EventsOf(j) \in Seq(Event) /\ Led(EventsOf(j), S)
        /\ started \cup {j} \subseteq started \cup StartsIn(EventsOf(j))
    BY <2>2, EventsLed
  <2>4. Push(EventsOf(j)) /\ started' = started \cup {j}
    BY <1>2 DEF OnJob
  <2> QED BY <2>1, <2>3, <2>4, OrderPush
<1>3. ASSUME NEW j \in Jobs, OnPod(j) PROVE OrderInv'
  <2>1. PICK es \in Seq(Event) : es = <<Progress(j)>>
    BY OneEvent, EventKinds
  <2>2. \A S : Led(es, S)
    BY <2>1, OneEvent, EventKinds
  <2> QED BY <1>3, <2>1, <2>2, OrderPush DEF OnPod
<1> QED BY <1>1, <1>2, <1>3

LEMMA OrderFlush ==
  ASSUME TInv, OrderInv, Flush
  PROVE  OrderInv'
<1>1. /\ sending = None /\ sending' = pending /\ pending' = <<>>
      /\ posts' = posts \cup {[todo |-> Read(pending), rows |-> {}, live |-> TRUE]}
      /\ UNCHANGED <<started, stream, lost>>
  BY DEF Flush, ingest
<1>2. pending # None
  BY BatchTypes, K8sAssumption
<1>3. Batch = <<>> /\ Batch' = pending /\ Past' = Past
  BY <1>1, <1>2 DEF Batch, Past, StartsIn
<1>4. StartsIn(Batch) = {} /\ StartsIn(pending') = {} /\ \A S : Led(pending', S)
  BY <1>1, <1>3, StartsEmpty
<1>5. Led(pending, Past) /\ Led(Read(pending), Past)
  <2>1. Led(pending, Past)
    BY <1>4 DEF OrderInv
  <2> QED BY <2>1, BatchTypes, ReadParts
<1>6. \A p \in posts : ~p.live
  BY <1>1 DEF TInv, RequestTypes
<1>7. ASSUME NEW p \in posts'
      PROVE  Led(p.todo, Past) /\ (p.live => StartsIn(Read(pending)) \subseteq StartsIn(p.todo))
  <2>1. CASE p \in posts
    BY <1>6, <2>1 DEF OrderInv
  <2>2. CASE p = [todo |-> Read(pending), rows |-> {}, live |-> TRUE]
    <3>1. p.todo = Read(pending)
      BY <2>2
    <3> QED BY <1>5, <3>1
  <2> QED BY <1>1, <1>7, <2>1, <2>2
<1>8. \A p \in posts' : p.live => StartsIn(Read(Batch')) \subseteq Past' \cup StartsIn(p.todo)
  BY <1>3, <1>7
<1>9. started' \subseteq Past' \cup StartsIn(Batch') \cup StartsIn(pending')
  BY <1>1, <1>3, <1>4 DEF OrderInv
<1> QED BY <1>1, <1>3, <1>4, <1>5, <1>7, <1>8, <1>9 DEF OrderInv

\* The agent stops waiting: what it asked for is put before what has come since, or is gone
\* with the agent.
LEMMA OrderFlushFails ==
  ASSUME TInv, OrderInv, FlushFails
  PROVE  OrderInv'
<1>1. /\ sending # None /\ sending' = None /\ pending' = sending \o pending
      /\ posts' \in Unwatched /\ UNCHANGED <<started, stream, lost, recorded>>
  BY DEF FlushFails, Requeue, ingest
<1>2. Batch = sending /\ Batch' = <<>> /\ Past' = Past
  BY <1>1 DEF Batch, Past
<1>3. /\ Led(pending', Past)
      /\ StartsIn(pending') = StartsIn(Batch) \cup StartsIn(pending)
  <2>1. PICK a \in Seq(Event) : a = Batch
    BY BatchTypes
  <2>2. Led(a \o pending, Past) /\ StartsIn(a \o pending) = StartsIn(a) \cup StartsIn(pending)
    BY <2>1, BatchTypes, LedConcat, StartsConcat DEF OrderInv
  <2> QED BY <1>1, <1>2, <2>1, <2>2
<1>4. \A p \in posts' : ~p.live /\ \E q \in posts : q.todo = p.todo
  BY <1>1, UnwatchedTypes DEF TInv
<1>5. StartsIn(Batch') = {} /\ \A S : Led(Batch', S)
  BY <1>2, StartsEmpty
<1>6. \A p \in posts' : Led(p.todo, Past) /\ ~p.live
  BY <1>4 DEF OrderInv
<1>7. started' \subseteq Past \cup StartsIn(pending')
  BY <1>1, <1>3 DEF OrderInv
<1>8. Led(pending', Past' \cup StartsIn(Batch'))
  <2>1. Past' \cup StartsIn(Batch') = Past
    BY <1>2, <1>5
  <2> QED BY <1>3, <2>1
<1> QED BY <1>2, <1>5, <1>6, <1>7, <1>8 DEF OrderInv

LEMMA OrderDie ==
  ASSUME TInv, OrderInv, Die
  PROVE  OrderInv'
<1>1. /\ sending' = None /\ pending' = <<>> /\ started' = {} /\ posts' \in Unwatched
      /\ UNCHANGED <<stream, recorded>> /\ lost \subseteq lost'
  BY DEF Die, ingest
<1>2. Batch' = <<>> /\ Past \subseteq Past'
  BY <1>1 DEF Batch, Past
<1>3. \A S : Led(Batch', S) /\ Led(pending', S)
  BY <1>1, <1>2, StartsEmpty
<1>5. \A p \in posts' : ~p.live /\ \E q \in posts : q.todo = p.todo
  BY <1>1, UnwatchedTypes DEF TInv
<1>6. \A p \in posts' : Led(p.todo, Past') /\ ~p.live
  <2>1. \A q \in posts : Led(q.todo, Past')
    BY <1>2, LedMore DEF OrderInv
  <2> QED BY <1>5, <2>1
<1> QED BY <1>1, <1>3, <1>6 DEF OrderInv

\* The server deals with the first event of a request: its start is published, or was before,
\* or is dropped, and every later end stays led by what has gone before.
LEMMA OrderHandle ==
  ASSUME TInv, OrderInv, NEW p \in posts, Handle(p)
  PROVE  OrderInv'
<1>1. p \in Request /\ p.todo \in Seq(Event) /\ p.todo # <<>>
  BY BatchTypes DEF Handle
<1>2. PICK e \in Event : e = Head(p.todo)
  BY <1>1, LedTail
<1>3. PICK taken \in BOOLEAN : taken <=> e # Warning /\ Known(e[2])
  OBVIOUS
<1>4. /\ stream' = IF taken /\ e # Progress(e[2]) THEN stream \cup {e} ELSE stream
      /\ lost' = IF e # Warning /\ e = Start(e[2]) /\ ~taken THEN lost \cup {e[2]} ELSE lost
      /\ UNCHANGED <<sending, pending, started>>
  BY <1>2, <1>3 DEF Handle, watcher
<1>5. PICK q \in Request : /\ posts' = (posts \ {p}) \cup {q}
                           /\ q.todo = Tail(p.todo) /\ q.live = p.live
  BY <1>1, HandleTypes
<1>6. /\ Led(q.todo, Past \cup StartsIn(<<e>>)) /\ \A j \in Jobs : e \in Ends(j) => j \in Past
      /\ StartsIn(p.todo) = StartsIn(<<e>>) \cup StartsIn(q.todo)
  <2>1. PICK es \in Seq(Event) : es = p.todo /\ es # <<>>
    BY <1>1
  <2>2. Led(es, Past)
    BY <2>1 DEF OrderInv
  <2>3. /\ Led(Tail(es), Past \cup StartsIn(<<Head(es)>>))
        /\ StartsIn(es) = StartsIn(<<Head(es)>>) \cup StartsIn(Tail(es))
        /\ \A j \in Jobs : Head(es) \in Ends(j) => j \in Past
    BY <2>1, <2>2, LedTail
  <2> QED BY <1>2, <1>5, <2>1, <2>3
<1>7. lost \subseteq lost' /\ stream \subseteq stream'
  BY <1>4
<1>8. StartsIn(<<e>>) \subseteq Past'
  <2> SUFFICES ASSUME NEW j \in StartsIn(<<e>>) PROVE j \in Past'
    OBVIOUS
  <2>1. j \in Jobs /\ e = Start(j) /\ e[2] = j
    BY OneEvent DEF Start
  <2>2. e # Warning /\ e # Progress(e[2])
    BY <2>1, EventKinds
  <2>3. CASE taken
    BY <1>4, <2>1, <2>2, <2>3 DEF Past
  <2>4. CASE ~taken
    BY <1>4, <2>1, <2>2, <2>4 DEF Past
  <2> QED BY <2>3, <2>4
<1>9. Past \cup StartsIn(<<e>>) \subseteq Past' /\ Batch' = Batch
  <2>1. Past' = lost' \cup {j \in Jobs : Start(j) \in stream'}
    BY DEF Past
  <2> QED BY <1>4, <1>7, <1>8, <2>1 DEF Past, Batch
<1>11. Led(Batch', Past') /\ Led(pending', Past' \cup StartsIn(Batch'))
  <2>1. Led(Batch, Past')
    BY <1>9, LedMore DEF OrderInv
  <2>2. Led(pending, Past' \cup StartsIn(Batch))
    <3>1. Past \cup StartsIn(Batch) \subseteq Past' \cup StartsIn(Batch)
      BY <1>9
    <3> QED BY <3>1, LedMore DEF OrderInv
  <2> QED BY <1>4, <1>9, <2>1, <2>2
<1>12. ASSUME NEW r \in posts'
       PROVE  /\ Led(r.todo, Past')
              /\ r.live => StartsIn(Read(Batch)) \subseteq Past' \cup StartsIn(r.todo)
  <2>1. CASE r \in posts
    <3>1. Led(r.todo, Past')
      BY <1>9, <2>1, LedMore DEF OrderInv
    <3> QED BY <1>9, <2>1, <3>1 DEF OrderInv
  <2>2. CASE r = q
    <3>1. Led(q.todo, Past')
      BY <1>6, <1>9, LedMore
    <3>2. q.live => StartsIn(Read(Batch)) \subseteq Past' \cup StartsIn(q.todo)
      BY <1>5, <1>6, <1>9 DEF OrderInv
    <3> QED BY <2>2, <3>1, <3>2
  <2> QED BY <1>5, <1>12, <2>1, <2>2
<1>13. started' \subseteq Past' \cup StartsIn(Batch') \cup StartsIn(pending')
  BY <1>4, <1>9 DEF OrderInv
<1>14. \A r \in posts' : r.live => StartsIn(Read(Batch')) \subseteq Past' \cup StartsIn(r.todo)
  BY <1>9, <1>12
<1> QED BY <1>11, <1>12, <1>13, <1>14 DEF OrderInv

\* A batch is done with: its starts have gone, but for those that were not read.
LEMMA OrderFinish ==
  ASSUME TInv, OrderInv, NEW p \in posts, Finish(p)
  PROVE  OrderInv'
<1>1. /\ p.todo = <<>> /\ posts' = posts \ {p} /\ UNCHANGED <<pending, started, stream>>
      /\ sending' = IF p.live THEN None ELSE sending
      /\ lost' = IF p.live THEN lost \cup StartsIn(SubSeq(sending, Limit + 1, Len(sending))) ELSE lost
  BY DEF Finish, watcher
<1>2. CASE ~p.live
  <2>1. UNCHANGED <<sending, lost>>
    BY <1>1, <1>2
  <2>2. Batch' = Batch /\ Past' = Past
    BY <1>1, <2>1 DEF Batch, Past, StartsIn
  <2> QED BY <1>1, <2>1, <2>2 DEF OrderInv
<1>3. CASE p.live
  <2>1. sending # None /\ \A r \in posts' : ~r.live
    BY <1>1, <1>3 DEF TInv, RequestTypes
  <2>2. Batch = sending /\ Batch' = <<>>
    BY <1>1, <1>3, <2>1 DEF Batch
  <2>3. Past' = Past \cup StartsIn(SubSeq(Batch, Limit + 1, Len(Batch)))
    <3>1. Past' = lost' \cup {j \in Jobs : Start(j) \in stream'}
      BY DEF Past
    <3> QED BY <1>1, <1>3, <2>2, <3>1 DEF Past
  <2>4. StartsIn(Read(Batch)) \subseteq Past
    BY <1>1, <1>3, StartsEmpty DEF OrderInv
  <2>5. Past \cup StartsIn(Batch) \subseteq Past'
    BY <2>3, <2>4, BatchTypes, ReadParts
  <2>7. \A r \in posts' : Led(r.todo, Past')
    BY <1>1, <2>5, LedMore DEF OrderInv
  <2>8. StartsIn(Batch') = {} /\ \A S : Led(Batch', S)
    BY <2>2, StartsEmpty
  <2>9. Led(pending', Past' \cup StartsIn(Batch'))
    <3>1. Past \cup StartsIn(Batch) \subseteq Past' \cup StartsIn(Batch')
      BY <2>5
    <3> QED BY <1>1, <3>1, LedMore DEF OrderInv
  <2>10. started' \subseteq Past' \cup StartsIn(Batch') \cup StartsIn(pending')
    BY <1>1, <2>5 DEF OrderInv
  <2> QED BY <2>1, <2>7, <2>8, <2>9, <2>10 DEF OrderInv
<1> QED BY <1>2, <1>3

\* The reports of a deleted job are counted among the dropped.
LEMMA OrderDelete ==
  ASSUME TInv, OrderInv, NEW n \in Names, DeleteJob(n)
  PROVE  OrderInv'
<1>1. UNCHANGED <<pending, started, sending, posts>>
  BY DEF DeleteJob, watcher, flush
<1>2. Batch' = Batch
  BY <1>1 DEF Batch
<1>3. /\ stream' = stream \ ReportsOf(JobsOf(n))
      /\ lost' = lost \cup {j \in JobsOf(n) : Start(j) \in stream}
  BY DEF DeleteJob
<1>4. Past' = Past
  <2>1. \A j \in Jobs : Start(j) \in ReportsOf(JobsOf(n)) <=> j \in JobsOf(n)
    BY EventKinds DEF ReportsOf
  <2>2. JobsOf(n) \subseteq Jobs
    BY DEF JobsOf
  <2>3. Past' = lost' \cup {j \in Jobs : Start(j) \in stream'}
    BY DEF Past
  <2> QED BY <1>3, <2>1, <2>2, <2>3 DEF Past
<1> QED BY <1>1, <1>2, <1>4 DEF OrderInv, Led, StartsIn, Read

LEMMA OrderStep == TInv /\ OrderInv /\ [Next]_vars => OrderInv'
<1> SUFFICES ASSUME TInv, OrderInv, [Next]_vars PROVE OrderInv'
  OBVIOUS
<1>1. CASE ClusterStep \/ \E u \in UIDs : Suspend(u) \/ Recreate(u)
  BY <1>1, OrderUnchanged DEF ClusterStep, Suspend, Recreate, watcher, flush, ingest
<1>2. CASE Boot \/ KeepKey
  BY <1>2, OrderUnchanged DEF Boot, KeepKey, watcher, flush, ingest
<1>3. CASE OnEvent \/ \E j \in Jobs : OnJob(j) \/ OnPod(j)
  BY <1>3, OrderAgent
<1>4. CASE Flush \/ FlushFails \/ Die
  BY <1>4, OrderFlush, OrderFlushFails, OrderDie
<1>5. ASSUME NEW p \in posts, Handle(p) \/ Finish(p) PROVE OrderInv'
  BY <1>5, OrderHandle, OrderFinish
<1>6. ASSUME NEW e \in Report, Process(e) \/ ProcessOrphan(e) PROVE OrderInv'
  BY <1>6, OrderUnchanged DEF Process, ProcessOrphan, watcher, flush
<1>7. CASE Discover \/ \E n \in Names : PauseJob(n)
  BY <1>7, OrderUnchanged DEF Discover, PauseJob, watcher, flush, ingest
<1>8. CASE BootFails \/ DiscoverRefused \/ UNCHANGED vars
  BY <1>8, OrderUnchanged DEF BootFails, DiscoverRefused, vars, watcher, flush, ingest
<1>9. ASSUME NEW n \in Names, DeleteJob(n) PROVE OrderInv'
  BY <1>9, OrderDelete
<1> QED BY <1>1, <1>2, <1>3, <1>4, <1>5, <1>6, <1>7, <1>8, <1>9 DEF Next

\* Only the events endpoint publishes: an end that was led by its start.
LEMMA EndsFollow ==
  ASSUME TInv, OrderInv, [Next]_vars, NEW j \in Jobs, Ends(j) \cap (stream' \ stream) # {}
  PROVE  Start(j) \in stream \/ j \in lost
<1>1. CASE \E p \in posts : Handle(p)
  <2>1. PICK p \in posts : Handle(p)
    BY <1>1
  <2>2. p.todo \in Seq(Event) /\ p.todo # <<>> /\ Led(p.todo, Past)
    BY <2>1, BatchTypes DEF Handle, OrderInv
  <2>3. stream' \ stream \subseteq {Head(p.todo)}
    BY <2>1 DEF Handle
  <2>4. Head(p.todo) \in Ends(j)
    BY <2>3
  <2>5. PICK es \in Seq(Event) : es = p.todo /\ es # <<>> /\ Led(es, Past)
    BY <2>2
  <2>6. Head(es) \in Ends(j) => j \in Past
    BY <2>5, LedTail
  <2> QED BY <2>4, <2>5, <2>6 DEF Past
<1>2. CASE ~ \E p \in posts : Handle(p)
  <2>1. stream' \subseteq stream
    <3>1. CASE ClusterStep \/ \E u \in UIDs : Suspend(u) \/ Recreate(u)
      BY <3>1 DEF ClusterStep, Suspend, Recreate, ingest
    <3>2. CASE Boot \/ KeepKey \/ OnEvent \/ \E i \in Jobs : OnJob(i) \/ OnPod(i)
      BY <3>2, AgentStep DEF ingest
    <3>3. CASE Flush \/ FlushFails \/ Die
      BY <3>3 DEF Flush, FlushFails, Die, ingest
    <3>4. CASE \E p \in posts : Finish(p)
      BY <3>4 DEF Finish
    <3>5. CASE \E e \in Report : Process(e) \/ ProcessOrphan(e)
      BY <3>5 DEF Process, ProcessOrphan
    <3>6. CASE Discover \/ \E n \in Names : PauseJob(n) \/ DeleteJob(n)
      BY <3>6 DEF Discover, PauseJob, DeleteJob, ingest
    <3>7. CASE BootFails \/ DiscoverRefused \/ UNCHANGED vars
      BY <3>7 DEF BootFails, DiscoverRefused, vars, ingest
    <3> QED BY <1>2, <3>1, <3>2, <3>3, <3>4, <3>5, <3>6, <3>7 DEF Next
  <2> QED BY <2>1
<1> QED BY <1>1, <1>2

\* The start of a run is published before its end, however often requests fail, are carried on
\* without the agent or lose their reply, however often the agent is restarted, and in
\* whatever order the server serves the requests that are open, unless the start was dropped:
\* with an unknown CronJob, beyond the limit, by the end of the agent, or with its jobs row.
THEOREM StartBeforeEnd == Spec => StartsFirst
<1>1. TInv /\ OrderInv /\ [Next]_vars => (TInv /\ OrderInv)'
  BY TInvStep, OrderStep
<1>2. Spec => [](TInv /\ OrderInv)
  BY <1>1, TInvInit, OrderInit, PTL DEF Spec
<1>3. TInv /\ OrderInv /\ [Next]_vars =>
        [\A j \in Jobs :
           Ends(j) \cap (stream' \ stream) # {} => Start(j) \in stream \/ j \in lost]_vars
  BY EndsFollow
<1> QED BY <1>2, <1>3, PTL DEF Spec, StartsFirst

==============================================================================
