-------------------------- MODULE AgentBufferProofs --------------------------
(***************************************************************************)
(* The buffer of the linux agent for all events, line lengths, batch and    *)
(* compaction sizes: nothing recorded is skipped, nothing is sent twice     *)
(* without a fault, and the buffer implements EventQueue.                   *)
(***************************************************************************)
EXTENDS AgentBuffer, FiniteSetTheorems, SequenceTheorems, WellFoundedInduction, TLAPS

\* The last byte of the line of e.
End(e) == <<e, Size[e]>>

--------------------------------------------------------------------------------
(* Least and greatest elements, and ranks                                     *)

LEMMA LeastExists ==
  ASSUME NEW T \in SUBSET Nat, T # {}
  PROVE  \E x \in T : \A y \in T : x <= y
<1> DEFINE R == {ss \in Nat \X Nat : ss[1] < ss[2]}
<1>1. IsWellFoundedOn(R, Nat)
  BY NatLessThanWellFounded DEF OpToRel
<1> HIDE DEF R
<1>2. PICK x \in T : \A y \in T : <<y, x>> \notin R
  BY <1>1, WFMin
<1>3. \A y \in T : ~(y < x)
  BY <1>2 DEF R
<1> QED BY <1>3

LEMMA GreatestExists ==
  ASSUME NEW T \in SUBSET Nat, T # {}, NEW n \in Nat, \A t \in T : t <= n
  PROVE  \E x \in T : \A y \in T : y <= x
<1> DEFINE U == {n - t : t \in T}
<1>0. \A t \in T : t \in Nat /\ t <= n /\ n - t \in Nat
  OBVIOUS
<1>1. U \in SUBSET Nat /\ U # {}
  BY <1>0
<1>2. PICK u \in U : \A v \in U : u <= v
  BY <1>1, LeastExists
<1>3. PICK x \in T : u = n - x
  OBVIOUS
<1>4. \A y \in T : n - x <= n - y
  BY <1>2, <1>3
<1> QED BY <1>0, <1>3, <1>4

LEMMA Greatest ==
  ASSUME NEW T \in SUBSET Nat, T # {}, NEW n \in Nat, \A t \in T : t <= n
  PROVE  LET g == CHOOSE x \in T : \A y \in T : y <= x IN g \in T /\ \A y \in T : y <= g
BY GreatestExists

\* The number of elements of S up to s.
Rank(S, s) == Cardinality({t \in S : t <= s})

\* Every number up to the size of a bounded set is the rank of one of its elements.
LEMMA RankOnto ==
  ASSUME NEW S \in SUBSET Nat, NEW n \in Nat, \A t \in S : t <= n,
         NEW k \in 1 .. Cardinality(S)
  PROVE  \E s \in S : Rank(S, s) = k
<1>1. IsFiniteSet(S) /\ Cardinality(S) \in Nat
  BY FS_BoundedSetOfNaturals, FS_CardinalityType
<1>2. \A s \in S : IsFiniteSet({t \in S : t <= s}) /\ Rank(S, s) \in Nat
  BY <1>1, FS_Subset, FS_CardinalityType DEF Rank
<1> DEFINE U == {s \in S : Rank(S, s) >= k}
<1>3. U # {}
  <2>1. S # {}
    BY <1>1, FS_EmptySet
  <2>2. PICK x \in S : \A y \in S : y <= x
    BY <2>1, GreatestExists
  <2>3. {t \in S : t <= x} = S
    BY <2>2
  <2> QED BY <2>3, <1>1 DEF Rank
<1>a. U \in SUBSET Nat
  OBVIOUS
<1>4. PICK s \in U : \A u \in U : s <= u
  BY <1>3, <1>a, LeastExists
<1>b. s \in S /\ Rank(S, s) >= k /\ Rank(S, s) \in Nat
  BY <1>2
<1>6. k \in Nat
  BY <1>1
<1>5. CASE Rank(S, s) > k
  <2> DEFINE V == {t \in S : t <= s} \ {s}
  <2>1. IsFiniteSet(V) /\ Cardinality(V) = Rank(S, s) - 1
    BY <1>2, FS_RemoveElement DEF Rank
  <2>2. Cardinality(V) # 0
    BY <2>1, <1>2, <1>5
  <2>3. V # {} /\ V \in SUBSET Nat /\ s \in Nat /\ \A t \in V : t <= s
    BY <2>2, FS_EmptySet
  <2>4. PICK v \in V : \A t \in V : t <= v
    BY <2>3, GreatestExists
  <2>5. v \in Nat /\ v \in S /\ v < s /\ S \subseteq Nat
    BY <2>4
  <2>a. \A t \in S : t <= v <=> t <= s /\ t # s
    BY <2>3, <2>4, <2>5
  <2>6. {t \in S : t <= v} = V
    BY <2>a
  <2>7. Rank(S, v) = Rank(S, s) - 1
    BY <2>1, <2>6 DEF Rank
  <2>8. Rank(S, v) >= k
    BY <2>7, <1>b, <1>5, <1>6
  <2> QED BY <2>5, <2>8, <1>4
<1> QED BY <1>b, <1>5, <1>6

\* A set that is enumerated in increasing order: its size, its ranks, its first elements.
LEMMA Enumerated ==
  ASSUME NEW m \in Nat, NEW n \in Nat, m <= n, NEW S \in SUBSET Nat, NEW f \in [m + 1 .. n -> S],
         \A i, j \in m + 1 .. n : i < j <=> f[i] < f[j],
         \A s \in S : \E i \in m + 1 .. n : s = f[i]
  PROVE  /\ IsFiniteSet(S) /\ Cardinality(S) = n - m
         /\ \A i \in m + 1 .. n : Rank(S, f[i]) = i - m
<1>0. /\ \A i \in m + 1 .. n : i \in Nat /\ f[i] \in S /\ f[i] \in Nat
      /\ \A i, j \in m + 1 .. n : f[i] = f[j] => i = j
  <2>0. \A i \in m + 1 .. n : i \in Nat /\ f[i] \in S
    OBVIOUS
  <2>1. \A i \in m + 1 .. n : i \in Nat /\ f[i] \in S /\ f[i] \in Nat
    BY <2>0
  <2>2. \A i, j \in m + 1 .. n : f[i] = f[j] => ~(i < j) /\ ~(j < i)
    BY <2>1
  <2> QED BY <2>1, <2>2
<1>1. ASSUME NEW i \in m .. n
      PROVE  LET T == {f[j] : j \in m + 1 .. i} IN IsFiniteSet(T) /\ Cardinality(T) = i - m
  <2> DEFINE I == m + 1 .. i
             T == {f[j] : j \in I}
             g == [j \in I |-> f[j]]
  <2>1. i \in Nat /\ m <= i /\ \A j \in I : j \in m + 1 .. n
    OBVIOUS
  <2>2. IsFiniteSet(I) /\ Cardinality(I) = i - m
    <3>1. m + 1 \in Int /\ i \in Int /\ (m + 1 > i => i - m = 0) /\ i - (m + 1) + 1 = i - m
      BY <2>1
    <3> QED BY <3>1, FS_Interval
  <2>3. g \in Bijection(I, T)
    <3> HIDE DEF I
    <3>1. \A j \in I : g[j] = f[j]
      OBVIOUS
    <3>2. g \in [I -> T] /\ IsInjective(g)
      BY <3>1, <2>1, <1>0 DEF IsInjective
    <3>3. \A t \in T : \E j \in I : g[j] = t
      BY <3>1
    <3> QED BY <3>2, <3>3 DEF Bijection, Injection, Surjection
  <2>4. ExistsBijection(I, T)
    BY <2>3 DEF ExistsBijection
  <2> HIDE DEF I, T
  <2>5. IsFiniteSet(T) /\ Cardinality(T) = Cardinality(I)
    BY <2>2, <2>4, FS_Bijection
  <2> QED BY <2>2, <2>5 DEF T, I
<1>2. S = {f[j] : j \in m + 1 .. n}
  <2>1. {f[j] : j \in m + 1 .. n} \subseteq S
    BY <1>0
  <2> QED BY <2>1
<1>3. ASSUME NEW i \in m + 1 .. n PROVE {t \in S : t <= f[i]} = {f[j] : j \in m + 1 .. i}
  <2>1. \A j \in m + 1 .. n : f[j] <= f[i] <=> j \in m + 1 .. i
    BY <1>0
  <2>2. m + 1 .. i \subseteq m + 1 .. n
    OBVIOUS
  <2> QED BY <1>2, <2>1, <2>2
<1>4. IsFiniteSet(S) /\ Cardinality(S) = n - m
  BY <1>1, <1>2
<1>5. ASSUME NEW i \in m + 1 .. n PROVE Rank(S, f[i]) = i - m
  <2>1. i \in m .. n
    OBVIOUS
  <2> QED BY <2>1, <1>1, <1>3 DEF Rank
<1> QED BY <1>4, <1>5

--------------------------------------------------------------------------------
(* Lines, and the bytes they are written in                                    *)

LEMMA Sizes == \A e \in Events : Size[e] \in Nat /\ Size[e] >= 2
BY BufferAssumption

LEMMA BytesDiffer ==
  ASSUME NEW e \in Events, NEW i \in Nat
  PROVE  <<e, i>> \in Byte /\ <<e, i>> # NL
BY BufferAssumption DEF Byte

LEMMA BodyType ==
  ASSUME NEW e \in Events
  PROVE  /\ Body(e) \in Seq(Byte) /\ Len(Body(e)) = Size[e] /\ Body(e) # <<>>
         /\ \A i \in 1 .. Size[e] : Body(e)[i] = <<e, i>>
<1>1. Size[e] \in Nat /\ Size[e] >= 2
  BY Sizes
<1>2. \A i \in 1 .. Size[e] : <<e, i>> \in Byte
  BY <1>1, BytesDiffer
<1>3. Body(e) \in [1 .. Size[e] -> Byte]
  BY <1>2 DEF Body
<1>4. Body(e) \in Seq(Byte)
  BY <1>1, <1>3, SeqDef
<1>5. Len(Body(e)) = Size[e]
  BY <1>1, <1>3, <1>4, LenProperties
<1> QED BY <1>1, <1>4, <1>5 DEF Body

LEMMA EventOfBody ==
  ASSUME NEW e \in Events
  PROVE  EventOf(Body(e)) = e /\ \A f \in Events : Body(f) = Body(e) => f = e
<1>1. 1 \in 1 .. Size[e]
  BY Sizes
<1>2. \A f \in Events : Body(f) = Body(e) => f = e
  <2> TAKE f \in Events
  <2>1. 1 \in 1 .. Size[f]
    BY Sizes
  <2> QED BY <1>1, <2>1 DEF Body
<1> QED BY <1>2 DEF EventOf

LEMMA LineType ==
  ASSUME NEW e \in Events
  PROVE  /\ Line(e) \in Seq(Byte) /\ Len(Line(e)) = Size[e] + 1
         /\ \A i \in 1 .. Size[e] + 1 :
              Line(e)[i] = IF i = Size[e] + 1 THEN NL ELSE <<e, i>>
<1>1. Size[e] \in Nat /\ NL \in Byte
  BY Sizes DEF Byte
<1>2. /\ Body(e) \in Seq(Byte) /\ Len(Body(e)) = Size[e]
      /\ \A i \in 1 .. Size[e] : Body(e)[i] = <<e, i>>
  BY BodyType
<1> QED BY <1>1, <1>2 DEF Line

\* What is written when the bytes d + 1 .. k of a line are appended.
LEMMA Chunk ==
  ASSUME file \in Seq(Byte), NEW e \in Events, NEW d \in 0 .. Size[e],
         NEW k \in d + 1 .. Size[e] + 1, file' = file \o SubSeq(Line(e), d + 1, k)
  PROVE  /\ file' \in Seq(Byte) /\ Len(file') = Len(file) + (k - d)
         /\ \A p \in 1 .. Len(file) : file'[p] = file[p]
         /\ \A p \in Len(file) + 1 .. Len(file') :
              file'[p] = IF p - Len(file) + d = Size[e] + 1 THEN NL
                         ELSE <<e, p - Len(file) + d>>
<1> DEFINE c == SubSeq(Line(e), d + 1, k)
<1>1. Size[e] \in Nat /\ d \in Nat /\ k \in Nat
  BY Sizes
<1>2. /\ Line(e) \in Seq(Byte) /\ Len(Line(e)) = Size[e] + 1
      /\ \A i \in 1 .. Size[e] + 1 : Line(e)[i] = IF i = Size[e] + 1 THEN NL ELSE <<e, i>>
  BY LineType
<1>3. /\ c \in Seq(Byte) /\ Len(c) = k - d
      /\ \A j \in 1 .. k - d : c[j] = Line(e)[d + j]
  BY <1>1, <1>2, SubSeqProperties
<1>4. /\ file' \in Seq(Byte) /\ Len(file') = Len(file) + (k - d)
      /\ \A p \in 1 .. Len(file) + (k - d) :
           file'[p] = IF p <= Len(file) THEN file[p] ELSE c[p - Len(file)]
  <2> HIDE DEF c
  <2>1. file' = file \o c
    BY DEF c
  <2>2. k - d \in Nat /\ Len(file) \in Nat
    BY <1>1
  <2>3. /\ file \o c \in Seq(Byte) /\ Len(file \o c) = Len(file) + Len(c)
        /\ \A p \in 1 .. Len(file) + Len(c) :
             (file \o c)[p] = IF p <= Len(file) THEN file[p] ELSE c[p - Len(file)]
    BY <1>3, ConcatProperties
  <2> QED BY <1>3, <2>1, <2>2, <2>3
<1>5. \A p \in 1 .. Len(file) : file'[p] = file[p]
  BY <1>1, <1>4
<1>6. ASSUME NEW p \in Len(file) + 1 .. Len(file')
      PROVE  file'[p] = IF p - Len(file) + d = Size[e] + 1 THEN NL ELSE <<e, p - Len(file) + d>>
  <2> DEFINE j == p - Len(file)
  <2>1. j \in 1 .. k - d /\ d + j \in 1 .. Size[e] + 1 /\ j + d = d + j
    BY <1>1, <1>4
  <2>2. file'[p] = c[j]
    BY <1>1, <1>4
  <2>3. c[j] = Line(e)[d + j]
    BY <1>3, <2>1
  <2> QED BY <1>2, <2>1, <2>2, <2>3
<1> QED BY <1>4, <1>5, <1>6

--------------------------------------------------------------------------------
(* Reading lines                                                              *)

LEMMA StopsType ==
  ASSUME file \in Seq(Byte), NEW o \in Nat
  PROVE  Stops(o) \in SUBSET Nat /\ \A s \in Stops(o) : o < s /\ s <= Len(file) + 1
BY DEF Stops

\* A line begins after the last stop before its own, and its bytes are those of the file.
LEMMA LineAtType ==
  ASSUME file \in Seq(Byte), NEW o \in Nat, NEW s \in Stops(o)
  PROVE  \E b \in Nat :
           /\ o <= b /\ b < s /\ b \in Stops(o) \cup {o}
           /\ \A t \in Stops(o) : t < s => t <= b
           /\ LineAt(o, s) = SubSeq(file, b + 1, s - 1)
           /\ LineAt(o, s) \in Seq(Byte) /\ Len(LineAt(o, s)) = s - 1 - b
           /\ \A j \in 1 .. s - 1 - b : LineAt(o, s)[j] = file[b + j]
<1> DEFINE before == {t \in Stops(o) : t < s} \cup {o}
           b == CHOOSE t \in before : \A u \in before : u <= t
<1>1. s \in Nat /\ o < s /\ s <= Len(file) + 1 /\ Stops(o) \in SUBSET Nat
  BY StopsType
<1>2. before \in SUBSET Nat /\ before # {} /\ \A t \in before : t <= s
  BY <1>1
<1>3. \E t \in before : \A u \in before : u <= t
  <2> HIDE DEF before
  <2> QED BY <1>1, <1>2, GreatestExists
<1>4. b \in before /\ \A u \in before : u <= b
  <2> HIDE DEF before
  <2> QED BY <1>3
<1>5. LineAt(o, s) = SubSeq(file, b + 1, s - 1)
  BY DEF LineAt
<1> HIDE DEF b
<1>6. b \in Nat /\ o <= b /\ b < s /\ b \in Stops(o) \cup {o} /\ \A t \in Stops(o) : t < s => t <= b
  BY <1>1, <1>4
<1> HIDE DEF before
<1>7. /\ SubSeq(file, b + 1, s - 1) \in Seq(Byte)
      /\ Len(SubSeq(file, b + 1, s - 1)) = s - 1 - b
      /\ \A j \in 1 .. s - 1 - b : SubSeq(file, b + 1, s - 1)[j] = file[b + j]
  BY <1>1, <1>6, SubSeqProperties
<1> QED BY <1>5, <1>6, <1>7

\* What reads as the body of e ends with the last byte of e.
LEMMA EndOfLine ==
  ASSUME file \in Seq(Byte), NEW o \in Nat, NEW s \in Stops(o), NEW e \in Events,
         LineAt(o, s) = Body(e)
  PROVE  s - 1 \in DOMAIN file /\ file[s - 1] = End(e)
<1>1. Size[e] \in Nat /\ Size[e] >= 2
  BY Sizes
<1>2. PICK b \in Nat : /\ o <= b /\ b < s
                       /\ Len(LineAt(o, s)) = s - 1 - b
                       /\ \A j \in 1 .. s - 1 - b : LineAt(o, s)[j] = file[b + j]
  BY LineAtType
<1>3. s \in Nat /\ s <= Len(file) + 1
  BY StopsType
<1>4. s - 1 - b = Size[e] /\ Body(e)[Size[e]] = <<e, Size[e]>>
  BY <1>1, <1>2, BodyType
<1>5. Body(e)[Size[e]] = file[s - 1]
  BY <1>1, <1>2, <1>3, <1>4
<1> QED BY <1>1, <1>2, <1>3, <1>4, <1>5 DEF End

\* The lines Peek finds, those it takes, and those it gets to.
Full(o) == {s \in Stops(o) : LineAt(o, s) # <<>>}

Taken(o, n) == {s \in Full(o) : Rank(Full(o), s) <= n}

Scanned(o, n) == IF Cardinality(Full(o)) >= n THEN Taken(o, n) ELSE Stops(o)

LEMMA PeekedDef ==
  ASSUME NEW o, NEW n
  PROVE  /\ Peeked(o, n).lines = [k \in 1 .. Cardinality(Taken(o, n)) |->
                                   LineAt(o, CHOOSE s \in Taken(o, n) : Rank(Full(o), s) = k)]
         /\ Peeked(o, n).next = CHOOSE p \in Scanned(o, n) \cup {o} :
                                  \A s \in Scanned(o, n) \cup {o} : s <= p
         /\ Peeked(o, n) = [lines |-> Peeked(o, n).lines, next |-> Peeked(o, n).next]
<1> DEFINE lines == [k \in 1 .. Cardinality(Taken(o, n)) |->
                       LineAt(o, CHOOSE s \in Taken(o, n) : Rank(Full(o), s) = k)]
           next == CHOOSE p \in Scanned(o, n) \cup {o} : \A s \in Scanned(o, n) \cup {o} : s <= p
<1>1. Peeked(o, n) = [lines |-> lines, next |-> next]
  BY Zenon DEF Peeked, Scanned, Taken, Full, Rank
<1> HIDE DEF lines, next
<1>2. Peeked(o, n).lines = lines /\ Peeked(o, n).next = next
  BY <1>1
<1>3. Peeked(o, n) = [lines |-> Peeked(o, n).lines, next |-> Peeked(o, n).next]
  BY <1>1, <1>2
<1> QED BY <1>2, <1>3 DEF lines, next

LEMMA TakenType ==
  ASSUME file \in Seq(Byte), NEW o \in Nat, NEW n \in Nat
  PROVE  /\ Full(o) \in SUBSET Nat /\ Taken(o, n) \in SUBSET Nat /\ Scanned(o, n) \in SUBSET Nat
         /\ Full(o) \subseteq Stops(o) /\ Taken(o, n) \subseteq Full(o)
         /\ IsFiniteSet(Full(o)) /\ IsFiniteSet(Taken(o, n)) /\ Cardinality(Taken(o, n)) \in Nat
         /\ \A k \in 1 .. Cardinality(Taken(o, n)) :
              \E s \in Taken(o, n) : Rank(Full(o), s) = k
<1>1. Stops(o) \in SUBSET Nat /\ \A s \in Stops(o) : s <= Len(file) + 1
  BY StopsType
<1>2. /\ Full(o) \in SUBSET Nat /\ Taken(o, n) \in SUBSET Nat /\ Scanned(o, n) \in SUBSET Nat
      /\ Full(o) \subseteq Stops(o) /\ Taken(o, n) \subseteq Full(o)
  BY <1>1 DEF Full, Taken, Scanned
<1>3. Len(file) + 1 \in Nat
  OBVIOUS
<1>4. IsFiniteSet(Full(o)) /\ IsFiniteSet(Taken(o, n)) /\ Cardinality(Taken(o, n)) \in Nat
  <2>1. \A s \in Full(o) : s <= Len(file) + 1
    BY <1>1, <1>2
  <2>2. IsFiniteSet(Full(o))
    BY <1>2, <1>3, <2>1, FS_BoundedSetOfNaturals
  <2> QED BY <1>2, <2>2, FS_Subset, FS_CardinalityType
<1>5. ASSUME NEW s \in Taken(o, n) PROVE Rank(Taken(o, n), s) = Rank(Full(o), s)
  <2>1. ASSUME NEW t \in Full(o), t <= s PROVE t \in Taken(o, n)
    <3>1. s \in Full(o) /\ s \in Nat /\ t \in Nat /\ Rank(Full(o), s) <= n
      BY <1>2 DEF Taken
    <3>2. {u \in Full(o) : u <= t} \subseteq {u \in Full(o) : u <= s}
      <4>1. \A u \in Full(o) : u <= t => u <= s
        BY <1>2, <2>1, <3>1
      <4> QED BY <4>1
    <3>3. IsFiniteSet({u \in Full(o) : u <= s})
      BY <1>4, FS_Subset
    <3>4. Rank(Full(o), t) <= Rank(Full(o), s)
      BY <3>2, <3>3, FS_Subset DEF Rank
    <3>5. Rank(Full(o), t) \in Nat /\ Rank(Full(o), s) \in Nat
      BY <3>2, <3>3, FS_Subset, FS_CardinalityType DEF Rank
    <3> QED BY <3>1, <3>4, <3>5 DEF Taken
  <2>2. {t \in Taken(o, n) : t <= s} = {t \in Full(o) : t <= s}
    BY <1>2, <2>1
  <2> QED BY <2>2 DEF Rank
<1>6. ASSUME NEW k \in 1 .. Cardinality(Taken(o, n))
      PROVE  \E s \in Taken(o, n) : Rank(Full(o), s) = k
  <2>1. \A s \in Taken(o, n) : s <= Len(file) + 1
    BY <1>1, <1>2
  <2>2. PICK s \in Taken(o, n) : Rank(Taken(o, n), s) = k
    BY <1>2, <1>3, <2>1, RankOnto
  <2> QED BY <1>5, <2>2
<1> QED BY <1>2, <1>4, <1>6

LEMMA PeekedType ==
  ASSUME file \in Seq(Byte), NEW o \in Nat, NEW n \in Nat
  PROVE  /\ Peeked(o, n) \in Batch
         /\ \A k \in DOMAIN Peeked(o, n).lines :
              \E s \in Stops(o) : Peeked(o, n).lines[k] = LineAt(o, s)
<1> DEFINE c == Cardinality(Taken(o, n))
           at(k) == CHOOSE s \in Taken(o, n) : Rank(Full(o), s) = k
<1>1. c \in Nat /\ \A k \in 1 .. c : at(k) \in Stops(o)
  BY TakenType
<1>2. Peeked(o, n).lines = [k \in 1 .. c |-> LineAt(o, at(k))]
  BY PeekedDef
<1> HIDE DEF at, c
<1>3. Peeked(o, n).lines \in Seq(Seq(Byte))
  <2>1. \A k \in 1 .. c : LineAt(o, at(k)) \in Seq(Byte)
    BY <1>1, LineAtType
  <2>2. Peeked(o, n).lines \in [1 .. c -> Seq(Byte)]
    BY <1>2, <2>1
  <2> QED BY <1>1, <2>2, SeqDef
<1>4. Peeked(o, n).next \in Nat
  <2>1. Scanned(o, n) \cup {o} \in SUBSET Nat /\ Scanned(o, n) \cup {o} # {}
    BY TakenType
  <2>2. \A s \in Scanned(o, n) \cup {o} : s <= o + Len(file) + 1
    <3>1. \A s \in Stops(o) : s \in Nat /\ s <= Len(file) + 1
      BY StopsType
    <3>2. Scanned(o, n) \subseteq Stops(o)
      BY TakenType DEF Scanned
    <3> QED BY <3>1, <3>2
  <2>3. o + Len(file) + 1 \in Nat
    OBVIOUS
  <2>4. (CHOOSE p \in Scanned(o, n) \cup {o} : \A s \in Scanned(o, n) \cup {o} : s <= p) \in Nat
    BY <2>1, <2>2, <2>3, Greatest
  <2> QED BY <2>4, PeekedDef
<1>5. Peeked(o, n) \in Batch
  <2>1. Peeked(o, n) = [lines |-> Peeked(o, n).lines, next |-> Peeked(o, n).next]
    BY PeekedDef, Zenon
  <2> QED BY <1>3, <1>4, <2>1 DEF Batch
<1> QED BY <1>1, <1>2, <1>5

--------------------------------------------------------------------------------
(* Types                                                                      *)

\* What can be read as an event was recorded, in the file, in a batch and in a request.
OnlyRecorded ==
  /\ \A p \in DOMAIN file, e \in Events : file[p] = End(e) => e \in Recorded
  /\ batch # None =>
       \A k \in DOMAIN batch.lines, e \in Events : batch.lines[k] = Body(e) => e \in Recorded
  /\ request # None => request \in Seq(Recorded) /\ Sendable
  /\ late \subseteq Seq(Recorded) \ {<<>>}

TInv ==
  /\ TypeOK /\ OnlyRecorded
  /\ recorded \in Seq(Events) /\ published \in Seq(Events)
  /\ writing \in Write \cup {None} /\ batch \in Batch \cup {None}

\* Events stay recorded, so what was read in the file stays so.
LEMMA StillRecorded ==
  ASSUME OnlyRecorded, Recorded \subseteq Recorded', UNCHANGED <<batch, request, late>>,
         \A p \in DOMAIN file', e \in Events : file'[p] = End(e) => e \in Recorded'
  PROVE  OnlyRecorded'
<1>1. \A r \in Seq(Recorded) : r \in Seq(Recorded')
  OBVIOUS
<1>2. Sendable' <=> Sendable
  BY DEF Sendable
<1> QED BY <1>1, <1>2 DEF OnlyRecorded

\* The bytes d + 1 .. k of the line of e are written.
Wrote(e, d, k) ==
  /\ file' = file \o SubSeq(Line(e), d + 1, k)
  /\ writing' = IF k = Size[e] + 1 THEN None ELSE [event |-> e, done |-> k]
  /\ recorded' = IF d < Size[e] /\ k >= Size[e] THEN Append(recorded, e) ELSE recorded

LEMMA AppendRange ==
  ASSUME NEW S, NEW s \in Seq(S), NEW x \in S
  PROVE  /\ Append(s, x) \in Seq(S)
         /\ {Append(s, x)[i] : i \in DOMAIN Append(s, x)} = {s[i] : i \in DOMAIN s} \cup {x}
<1>1. /\ Append(s, x) \in Seq(S) /\ Len(Append(s, x)) = Len(s) + 1 /\ Len(s) \in Nat
      /\ \A i \in 1 .. Len(s) : Append(s, x)[i] = s[i]
      /\ Append(s, x)[Len(s) + 1] = x
  OBVIOUS
<1>2. DOMAIN s = 1 .. Len(s) /\ DOMAIN Append(s, x) = DOMAIN s \cup {Len(s) + 1}
  BY <1>1
<1> QED BY <1>1, <1>2

LEMMA RecordedAppend ==
  ASSUME recorded \in Seq(Events), NEW e \in Events
  PROVE  /\ Append(recorded, e) \in Seq(Events)
         /\ {Append(recorded, e)[i] : i \in DOMAIN Append(recorded, e)} = Recorded \cup {e}
BY AppendRange DEF Recorded

LEMMA PublishedAppend ==
  ASSUME published \in Seq(Events), NEW e \in Events
  PROVE  /\ Append(published, e) \in Seq(Events)
         /\ {Append(published, e)[i] : i \in DOMAIN Append(published, e)} = Received \cup {e}
BY AppendRange DEF Received

LEMMA WroteTypes ==
  ASSUME TInv, NEW e \in Events, NEW d \in 0 .. Size[e], NEW k \in d + 1 .. Size[e] + 1, Wrote(e, d, k)
  PROVE  /\ file' \in Seq(Byte) /\ recorded' \in Seq(Events) /\ writing' \in Write \cup {None}
         /\ Recorded \subseteq Recorded'
         /\ Recorded' = IF d < Size[e] /\ k >= Size[e] THEN Recorded \cup {e} ELSE Recorded
         /\ \A p \in DOMAIN file', f \in Events : file'[p] = End(f) => f \in Recorded'
<1>1. Size[e] \in Nat /\ d \in Nat /\ k \in Nat /\ file \in Seq(Byte) /\ recorded \in Seq(Events)
  BY Sizes DEF TInv, TypeOK
<1>2. /\ file' \in Seq(Byte) /\ Len(file') = Len(file) + (k - d)
      /\ \A p \in 1 .. Len(file) : file'[p] = file[p]
      /\ \A p \in Len(file) + 1 .. Len(file') :
           file'[p] = IF p - Len(file) + d = Size[e] + 1 THEN NL ELSE <<e, p - Len(file) + d>>
  BY <1>1, Chunk DEF Wrote
<1>3. /\ recorded' \in Seq(Events)
      /\ Recorded' = IF d < Size[e] /\ k >= Size[e] THEN Recorded \cup {e} ELSE Recorded
  <2>1. /\ Append(recorded, e) \in Seq(Events)
        /\ {Append(recorded, e)[i] : i \in DOMAIN Append(recorded, e)} = Recorded \cup {e}
    BY <1>1, RecordedAppend
  <2> QED BY <1>1, <2>1 DEF Wrote, Recorded
<1>4. writing' \in Write \cup {None}
  BY <1>1 DEF Wrote, Write
<1>5. ASSUME NEW p \in DOMAIN file', NEW f \in Events, file'[p] = End(f)
      PROVE  f \in Recorded'
  <2>1. p \in 1 .. Len(file) \/ p \in Len(file) + 1 .. Len(file')
    BY <1>1, <1>2
  <2>2. CASE p \in 1 .. Len(file)
    <3>1. p \in DOMAIN file /\ file[p] = End(f)
      BY <1>1, <1>2, <1>5, <2>2
    <3>2. f \in Recorded
      BY <3>1 DEF TInv, OnlyRecorded
    <3> QED BY <1>3, <3>2
  <2>3. CASE p \in Len(file) + 1 .. Len(file')
    <3>1. Size[f] \in Nat /\ End(f) # NL
      BY Sizes, BytesDiffer DEF End
    <3>2. End(f) = <<e, p - Len(file) + d>>
      BY <1>2, <1>5, <2>3, <3>1
    <3>3. f = e /\ Size[e] = p - Len(file) + d
      BY <3>2 DEF End
    <3>4. d < Size[e] /\ k >= Size[e]
      BY <1>1, <1>2, <2>3, <3>3
    <3> QED BY <1>3, <3>3, <3>4
  <2> QED BY <2>1, <2>2, <2>3
<1> QED BY <1>2, <1>3, <1>4, <1>5

LEMMA InitTypes == Init => TInv
<1> SUFFICES ASSUME Init PROVE TInv
  OBVIOUS
<1>1. TypeOK
  <2>1. Recorded = {} /\ Received = {} /\ file \in Seq(Byte)
    BY DEF Init, Recorded, Received
  <2>2. MaxFaults \in Nat
    BY BufferAssumption
  <2>3. started \subseteq Events /\ Recorded \subseteq started /\ Received \subseteq Recorded
    BY <2>1 DEF Init
  <2>4. /\ writing = None /\ request = None /\ batch = None /\ flusher = "asleep"
        /\ offset \in Nat /\ diskOffset \in Nat /\ damaged \in BOOLEAN /\ faults = 0
    BY DEF Init
  <2>5. faults \in 0 .. MaxFaults
    BY <2>2, <2>4
  <2> QED BY <2>1, <2>3, <2>4, <2>5 DEF TypeOK
<1>2. OnlyRecorded
  BY DEF Init, OnlyRecorded
<1> QED BY <1>1, <1>2 DEF Init, TInv

LEMMA NextTypes ==
  ASSUME TInv, [Next]_vars
  PROVE  TInv'
<1>0. /\ TypeOK /\ OnlyRecorded
      /\ recorded \in Seq(Events) /\ published \in Seq(Events)
      /\ writing \in Write \cup {None} /\ batch \in Batch \cup {None}
      /\ MaxFaults \in Nat /\ None \notin Write /\ None \notin Batch /\ None \notin Seq(Events)
  BY BufferAssumption DEF TInv
<1> USE <1>0
<1>1. ASSUME NEW e \in Events, StartPush(e) PROVE TInv'
  <2>1. PICK k \in 0 + 1 .. Size[e] + 1 : Wrote(e, 0, k)
    <3>1. PICK k \in 1 .. Size[e] + 1 :
            /\ file' = file \o SubSeq(Line(e), 1, k)
            /\ writing' = IF k = Size[e] + 1 THEN None ELSE [event |-> e, done |-> k]
            /\ recorded' = IF k >= Size[e] THEN Append(recorded, e) ELSE recorded
      BY <1>1 DEF StartPush
    <3>2. 0 + 1 = 1 /\ 0 < Size[e] /\ Size[e] \in Nat
      BY Sizes
    <3>3. Wrote(e, 0, k)
      BY <3>1, <3>2 DEF Wrote
    <3> QED BY <3>2, <3>3
  <2>2. /\ file' \in Seq(Byte) /\ recorded' \in Seq(Events) /\ writing' \in Write \cup {None}
        /\ Recorded \subseteq Recorded' /\ Recorded' \subseteq Recorded \cup {e}
        /\ \A p \in DOMAIN file', f \in Events : file'[p] = End(f) => f \in Recorded'
    BY <2>1, Sizes, WroteTypes DEF TInv
  <2>3. writing' # None => writing'.event \in started' /\ writing'.done \in 1 .. Size[writing'.event]
    BY SMTT(30), <1>1, <2>1, Sizes DEF StartPush, Wrote
  <2>4. TypeOK'
    BY <1>1, <2>2, <2>3 DEF StartPush, TypeOK, server, Received
  <2>5. OnlyRecorded'
    BY <1>1, <2>2, StillRecorded DEF StartPush, server
  <2> QED BY <1>1, <2>2, <2>4, <2>5 DEF StartPush, TInv, server
<1>2. CASE FinishPush
  <2> DEFINE e == writing.event
             d == writing.done
  <2>1. e \in Events /\ e \in started /\ d \in 1 .. Size[e] /\ Size[e] \in Nat
    BY <1>2, Sizes DEF FinishPush, Write, TypeOK
  <2>2. Wrote(e, d, Size[e] + 1)
    BY <1>2, <2>1 DEF FinishPush, Wrote
  <2>3. /\ file' \in Seq(Byte) /\ recorded' \in Seq(Events)
        /\ Recorded \subseteq Recorded' /\ Recorded' \subseteq Recorded \cup {e}
        /\ \A p \in DOMAIN file', f \in Events : file'[p] = End(f) => f \in Recorded'
    <3> HIDE DEF e, d
    <3>1. d \in 0 .. Size[e] /\ Size[e] + 1 \in d + 1 .. Size[e] + 1
      BY <2>1
    <3> QED BY <2>1, <2>2, <3>1, WroteTypes DEF TInv
  <2>4. TypeOK'
    BY <1>2, <2>1, <2>3 DEF FinishPush, TypeOK, server, Received
  <2>5. OnlyRecorded'
    BY <1>2, <2>3, StillRecorded DEF FinishPush, server
  <2> QED BY <1>2, <2>3, <2>4, <2>5 DEF FinishPush, TInv, server
<1>3. CASE TearPush
  <2>1. TypeOK'
    BY <1>3 DEF TearPush, TypeOK, server, Recorded, Received
  <2> QED BY <1>3, <2>1, StillRecorded DEF TearPush, TInv, server, Recorded, OnlyRecorded
<1>4. CASE Peek
  <2>1. offset \in Nat /\ file \in Seq(Byte) /\ BatchSize \in Nat
    BY BufferAssumption DEF TypeOK
  <2>2. /\ batch' \in Batch /\ batch' # None
        /\ \A k \in DOMAIN batch'.lines : \E s \in Stops(offset) : batch'.lines[k] = LineAt(offset, s)
    BY <1>4, <2>1, PeekedType DEF Peek
  <2>3. ASSUME NEW k \in DOMAIN batch'.lines, NEW e \in Events, batch'.lines[k] = Body(e)
        PROVE  e \in Recorded
    <3>1. PICK s \in Stops(offset) : LineAt(offset, s) = Body(e)
      BY <2>2, <2>3
    <3> QED BY <2>1, <3>1, EndOfLine DEF OnlyRecorded
  <2>4. UNCHANGED <<file, writing, started, recorded, request, late, published>>
    BY <1>4 DEF Peek, queue, server
  <2>5. request = None
    BY <1>4 DEF Peek, TypeOK
  <2>6. TypeOK'
    BY <1>4, <2>2, <2>4, <2>5 DEF Peek, TypeOK, Recorded, Received
  <2>7. OnlyRecorded'
    BY <2>3, <2>4, <2>5 DEF OnlyRecorded, Recorded
  <2> QED BY <2>2, <2>4, <2>6, <2>7 DEF TInv
<1>5. CASE UNCHANGED vars
  <2>1. TypeOK'
    BY <1>5 DEF vars, queue, server, TypeOK, Recorded, Received
  <2>2. OnlyRecorded'
    BY <1>5, StillRecorded DEF vars, queue, server, OnlyRecorded, Recorded
  <2> QED BY <1>5, <2>1, <2>2 DEF vars, queue, server, TInv
<1>6. CASE PeekNothing
  BY <1>5, <1>6 DEF PeekNothing
<1>7. CASE Send
  <2>1. batch \in Batch /\ batch # None /\ Sendable
    BY <1>7 DEF Send, TypeOK
  <2> DEFINE n == Len(batch.lines)
  <2>2. n \in Nat /\ DOMAIN batch.lines = 1 .. n
    BY <2>1 DEF Batch
  <2>3. \A k \in 1 .. n : EventOf(batch.lines[k]) \in Recorded
    <3> TAKE k \in 1 .. n
    <3>1. PICK e \in Events : batch.lines[k] = Body(e)
      BY <2>1, <2>2 DEF Sendable, Readable
    <3> QED BY <2>1, <2>2, <3>1, EventOfBody DEF OnlyRecorded
  <2>4. request' \in Seq(Recorded) /\ request' \in Seq(Events)
    <3>1. request' \in [1 .. n -> Recorded]
      BY <1>7, <2>2, <2>3 DEF Send
    <3>2. Recorded \subseteq Events
      BY DEF TypeOK
    <3> QED BY <2>2, <3>1, <3>2, SeqDef
  <2>5. TypeOK'
    BY <1>7, <2>4 DEF Send, TypeOK, queue, Recorded, Received
  <2>6. OnlyRecorded' /\ published' = published
    BY <1>7, <2>1, <2>4 DEF Send, OnlyRecorded, queue, Recorded, Sendable
  <2> QED BY <1>7, <2>5, <2>6 DEF Send, TInv, queue
<1>8. CASE SendRejected
  <2>1. request = None
    BY <1>8 DEF SendRejected, OnlyRecorded
  <2>2. TypeOK'
    BY <1>8, <2>1 DEF SendRejected, TypeOK, queue, server, Recorded, Received
  <2>3. OnlyRecorded'
    BY <1>8, <2>1 DEF SendRejected, OnlyRecorded, queue, server, Recorded
  <2> QED BY <1>8, <2>2, <2>3 DEF SendRejected, TInv, queue, server
<1>9. CASE Publish
  <2>1. request \in Seq(Recorded) /\ Head(request) \in Recorded /\ Tail(request) \in Seq(Recorded)
        /\ Recorded \subseteq Events
    BY <1>9 DEF Publish, OnlyRecorded, TypeOK
  <2>2. published' \in Seq(Events) /\ Received' = Received \cup {Head(request)}
    <3>1. /\ Append(published, Head(request)) \in Seq(Events)
          /\ {Append(published, Head(request))[i] : i \in DOMAIN Append(published, Head(request))}
               = Received \cup {Head(request)}
      <4>1. published \in Seq(Events) /\ Head(request) \in Events
        BY <1>0, <2>1 DEF TInv
      <4> HIDE DEF TInv, Received
      <4> QED BY <4>1, PublishedAppend
    <3> QED BY <1>9, <3>1 DEF Publish, Received
  <2>3. TypeOK'
    BY <1>9, <2>1, <2>2 DEF Publish, TypeOK, queue, Recorded
  <2>4. OnlyRecorded'
    BY <1>9, <2>1 DEF Publish, OnlyRecorded, queue, Recorded, Sendable
  <2> QED BY <1>9, <2>2, <2>3, <2>4 DEF Publish, TInv, queue
<1>10. CASE PublishLate
  <2>1. PICK r \in late : /\ published' = Append(published, Head(r))
                          /\ late' = (late \ {r}) \cup ({Tail(r)} \ {<<>>})
    BY <1>10 DEF PublishLate
  <2>2. UNCHANGED <<file, writing, started, recorded, offset, diskOffset, flusher, batch, request, damaged, faults>>
    BY <1>10 DEF PublishLate, queue
  <2>3. r \in Seq(Recorded) /\ Head(r) \in Recorded /\ Tail(r) \in Seq(Recorded)
        /\ Recorded \subseteq Events
    <3>1. r \in Seq(Recorded) /\ r # <<>>
      BY DEF OnlyRecorded
    <3> QED BY <3>1 DEF TypeOK
  <2>4. published' \in Seq(Events) /\ Received' = Received \cup {Head(r)}
    <3>1. /\ Append(published, Head(r)) \in Seq(Events)
          /\ {Append(published, Head(r))[i] : i \in DOMAIN Append(published, Head(r))}
               = Received \cup {Head(r)}
      <4>1. published \in Seq(Events) /\ Head(r) \in Events
        BY <1>0, <2>3 DEF TInv
      <4> HIDE DEF TInv, Received
      <4> QED BY <4>1, PublishedAppend
    <3> QED BY <2>1, <3>1 DEF Received
  <2>5. TypeOK'
    BY <2>2, <2>3, <2>4 DEF TypeOK, Recorded
  <2>6. OnlyRecorded'
    BY <2>1, <2>2, <2>3 DEF OnlyRecorded, Recorded, Sendable
  <2> QED BY <2>2, <2>4, <2>5, <2>6 DEF TInv
<1>11. CASE SendSucceeds
  <2>1. TypeOK'
    BY <1>11 DEF SendSucceeds, TypeOK, queue, Recorded, Received
  <2> QED BY <1>11, <2>1 DEF SendSucceeds, TInv, queue, OnlyRecorded, Recorded
<1>12. ASSUME NEW r \in {late, late \cup ({request} \ {None, <<>>})}
       PROVE  r \subseteq Seq(Recorded) \ {<<>>}
  BY <1>12 DEF OnlyRecorded
<1>13. CASE SendFails
  <2>1. TypeOK'
    BY <1>13 DEF SendFails, TypeOK, queue, Recorded, Received
  <2>2. OnlyRecorded'
    BY <1>12, <1>13 DEF SendFails, OnlyRecorded, queue, Recorded
  <2> QED BY <1>13, <2>1, <2>2 DEF SendFails, TInv, queue
<1>14. CASE BeginAck
  <2>1. batch \in Batch /\ request = None
    BY <1>14 DEF BeginAck, TypeOK
  <2>2. TypeOK'
    BY <1>14, <2>1 DEF BeginAck, TypeOK, Batch, queue, server, Recorded, Received
  <2> QED BY <1>14, <2>1, <2>2 DEF BeginAck, TInv, queue, server, OnlyRecorded, Recorded
<1>15. CASE SaveOffset \/ SaveOffsetFails \/ ResetOffset \/ Restart
  <2>1. request = None /\ batch = None
    BY <1>15 DEF SaveOffset, SaveOffsetFails, ResetOffset, Restart, TypeOK
  <2>2. UNCHANGED <<file, writing, started, recorded, published, request, late, batch, damaged>>
    BY <1>15 DEF SaveOffset, SaveOffsetFails, ResetOffset, Restart, queue, server
  <2>3. offset' \in Nat /\ diskOffset' \in Nat /\ faults' \in 0 .. MaxFaults
    BY <1>15 DEF SaveOffset, SaveOffsetFails, ResetOffset, Restart, TypeOK
  <2>4. flusher' \in {"asleep", "compacting"}
    BY <1>15 DEF SaveOffset, SaveOffsetFails, ResetOffset, Restart
  <2>5. TypeOK'
    BY <2>1, <2>2, <2>3, <2>4 DEF TypeOK, Recorded, Received
  <2> QED BY <2>1, <2>2, <2>5 DEF TInv, OnlyRecorded, Recorded
<1>16. CASE Truncate
  <2>1. request = None /\ batch = None /\ DOMAIN file' = {} /\ file' \in Seq(Byte)
    BY <1>16 DEF Truncate, TypeOK
  <2>2. TypeOK'
    BY <1>16, <2>1 DEF Truncate, TypeOK, server, Recorded, Received
  <2> QED BY <1>16, <2>1, <2>2 DEF Truncate, TInv, server, OnlyRecorded, Recorded
<1>17. CASE Crash
  <2>a. writing' \in {writing, None} /\ damaged' \in BOOLEAN /\ faults' \in 0 .. MaxFaults
    BY <1>17 DEF Crash, TypeOK
  <2>1. TypeOK'
    BY <1>17, <2>a DEF Crash, TypeOK, Recorded, Received
  <2>2. OnlyRecorded'
    BY <1>12, <1>17 DEF Crash, OnlyRecorded, Recorded
  <2> QED BY <1>17, <2>1, <2>2 DEF Crash, TInv
<1> QED BY <1>1, <1>2, <1>3, <1>4, <1>5, <1>6, <1>7, <1>8, <1>9, <1>10, <1>11, <1>13, <1>14, <1>15,
      <1>16, <1>17 DEF Next

\* The variables keep their types, and nothing is published that was not recorded.
THEOREM TypeCorrect == Spec => []TypeOK
<1>1. TInv => TypeOK
  BY DEF TInv
<1> QED BY <1>1, InitTypes, NextTypes, PTL DEF Spec

--------------------------------------------------------------------------------
(* The invariant of a buffer that is not damaged                              *)

Total == Len(recorded)

\* Every byte of a line follows the bytes before it, every line follows a newline, and every
\* newline a line.
Whole ==
  \A p \in DOMAIN file :
    IF file[p] = NL THEN p > 1 /\ \E e \in Events : file[p - 1] = End(e)
    ELSE \E e \in Events : \E i \in 1 .. Size[e] :
           /\ i <= p /\ \A j \in 1 .. i : file[p - i + j] = <<e, j>>
           /\ p = i \/ file[p - i] = NL

\* The file ends with a newline, or with the write in progress.
Tip ==
  IF writing = None THEN file = <<>> \/ file[Len(file)] = NL
  ELSE file # <<>> /\ file[Len(file)] = <<writing.event, writing.done>>

\* Events are recorded once, and are in the file in the order in which they were recorded.
Once ==
  /\ \A i, j \in 1 .. Total : recorded[i] = recorded[j] => i = j
  /\ writing # None /\ writing.done < Size[writing.event] => writing.event \notin Recorded

InOrder ==
  \A p, q \in DOMAIN file, i, j \in 1 .. Total :
    file[p] = End(recorded[i]) /\ file[q] = End(recorded[j]) => (p < q <=> i < j)

\* Byte o is the end of a line, or will be when its newline is written.
Boundary(o) ==
  \/ o = 0
  \/ o \in DOMAIN file /\ file[o] = NL
  \/ o = Len(file) + 1 /\ writing # None /\ writing.done = Size[writing.event]

\* After byte o come the lines of all events but the first m.
At(o, m) ==
  /\ m \in 0 .. Total
  /\ \A i \in 1 .. Total : i > m <=> \E p \in DOMAIN file : p > o /\ file[p] = End(recorded[i])

\* The server has the first m events; without faults, exactly once and no others.
Past(m) == m \in 0 .. Total /\ \A i \in 1 .. m : recorded[i] \in Received

Reached(m) == Past(m) /\ (faults = 0 => m = Len(published))

\* r are the events recorded after the first m.
Continues(r, m) == m + Len(r) <= Total /\ \A j \in 1 .. Len(r) : r[j] = recorded[m + j]

\* What lies before byte o was sent; nothing else was, unless there was a fault.
Behind(o) == Boundary(o) /\ \E m \in Nat : At(o, m) /\ Past(m)

Level(o) == Boundary(o) /\ \E m \in Nat : At(o, m) /\ Reached(m)

\* The events r, and then those after byte o, are what the server is to get.
Ready(r, o) ==
  Boundary(o) /\ \E m \in Nat : Reached(m) /\ Continues(r, m) /\ At(o, m + Len(r))

\* An abandoned request r goes on where the server has been.
Resumes(r) == \E m \in Nat : Past(m) /\ Continues(r, m)

Prefix == \E k \in 0 .. Total : Received = {recorded[i] : i \in 1 .. k}

Exact ==
  faults = 0 =>
    /\ late = {} /\ flusher # "down"
    /\ Len(published) <= Total /\ \A i \in 1 .. Len(published) : published[i] = recorded[i]

\* What was truncated was sent, and what lies before an offset was sent.
Kept == Behind(0)

FromDisk == flusher # "resetting" => Behind(diskOffset)

Current == IF flusher = "resetting" THEN 0 ELSE offset

Idle == flusher \notin {"sending", "acking"} \/ (flusher = "sending" /\ request = None)

FromOffset == flusher # "down" => Behind(Current) /\ (Idle => Level(Current))

\* Only a file that was sent to its end is compacted.
Compacting == flusher = "compacting" => writing = None /\ offset = Len(file)

Payload == [k \in DOMAIN batch.lines |-> EventOf(batch.lines[k])]

Posting ==
  /\ flusher = "sending" /\ request = None /\ Sendable => Ready(Payload, batch.next)
  /\ request # None => Ready(request, batch.next)
  /\ flusher = "acking" => Ready(<<>>, batch.next)

Abandoned == \A r \in late : Resumes(r)

FileSound == Whole /\ Tip /\ Once /\ InOrder

SentSound == Prefix /\ Exact /\ Kept /\ FromDisk /\ FromOffset /\ Compacting /\ Posting /\ Abandoned

Sound == ~damaged => FileSound /\ SentSound

IInv == TInv /\ Sound

--------------------------------------------------------------------------------
(* Writing a line keeps the file sound                                         *)

\* Up to byte d, the line of e is in the file.
Writer(e, d) ==
  \/ d = 0 /\ writing = None /\ e \notin Recorded
  \/ d > 0 /\ writing # None /\ writing.event = e /\ writing.done = d

\* The line being written begins the file or follows a newline.
LEMMA Partial ==
  ASSUME TInv, Whole, Tip, NEW e \in Events, NEW d \in 0 .. Size[e], Writer(e, d)
  PROVE  /\ d <= Len(file) /\ \A x \in 1 .. d : file[Len(file) - d + x] = <<e, x>>
         /\ Len(file) = d \/ file[Len(file) - d] = NL
<1>1. file \in Seq(Byte) /\ Len(file) \in Nat /\ d \in Nat /\ DOMAIN file = 1 .. Len(file)
  BY DEF TInv, TypeOK
<1>2. CASE d = 0
  <2>1. file = <<>> \/ file[Len(file)] = NL
    BY <1>2 DEF Writer, Tip
  <2> QED BY <1>1, <1>2, <2>1
<1>3. CASE d > 0
  <2>1. file # <<>> /\ file[Len(file)] = <<e, d>>
    BY <1>1, <1>3 DEF Writer, Tip
  <2>2. Len(file) \in 1 .. Len(file)
    BY <1>1, <2>1
  <2>3. file[Len(file)] # NL
    BY <1>1, <2>1, BytesDiffer
  <2>a. PICK f \in Events : \E i \in 1 .. Size[f] :
          /\ i <= Len(file) /\ \A j \in 1 .. i : file[Len(file) - i + j] = <<f, j>>
          /\ Len(file) = i \/ file[Len(file) - i] = NL
    BY <1>1, <2>2, <2>3 DEF Whole
  <2>4. PICK i \in 1 .. Size[f] :
          /\ i <= Len(file) /\ \A j \in 1 .. i : file[Len(file) - i + j] = <<f, j>>
          /\ Len(file) = i \/ file[Len(file) - i] = NL
    BY <2>a
  <2>5. Size[f] \in Nat
    BY Sizes
  <2>6. i \in 1 .. i /\ Len(file) - i + i = Len(file)
    BY <1>1, <2>5
  <2>7. file[Len(file)] = <<f, i>>
    BY <2>4, <2>6
  <2>8. f = e /\ i = d
    BY <2>1, <2>7
  <2> QED BY <2>4, <2>8
<1>4. d = 0 \/ d > 0
  BY <1>1
<1> QED BY <1>2, <1>3, <1>4, Zenon

\* The bytes of the file after a write.
Grown(e, d, k) ==
  /\ file \in Seq(Byte) /\ Len(file) \in Nat /\ DOMAIN file = 1 .. Len(file)
  /\ file' \in Seq(Byte) /\ DOMAIN file' = 1 .. Len(file') /\ Len(file') = Len(file) + (k - d)
  /\ \A p \in 1 .. Len(file) : file'[p] = file[p]
  /\ \A p \in Len(file) + 1 .. Len(file') :
       file'[p] = IF p - Len(file) + d = Size[e] + 1 THEN NL ELSE <<e, p - Len(file) + d>>

LEMMA WroteGrown ==
  ASSUME TInv, NEW e \in Events, NEW d \in 0 .. Size[e], NEW k \in d + 1 .. Size[e] + 1, Wrote(e, d, k)
  PROVE  Grown(e, d, k) /\ Size[e] \in Nat /\ Size[e] >= 2 /\ d \in Nat /\ k \in Nat
<1>1. Size[e] \in Nat /\ Size[e] >= 2 /\ d \in Nat /\ k \in Nat /\ file \in Seq(Byte)
  BY Sizes DEF TInv, TypeOK
<1>2. /\ file' \in Seq(Byte) /\ Len(file') = Len(file) + (k - d)
      /\ \A p \in 1 .. Len(file) : file'[p] = file[p]
      /\ \A p \in Len(file) + 1 .. Len(file') :
           file'[p] = IF p - Len(file) + d = Size[e] + 1 THEN NL ELSE <<e, p - Len(file) + d>>
  BY <1>1, Chunk DEF Wrote
<1> QED BY <1>1, <1>2 DEF Grown

\* The lines of a file that grew are still whole.
LEMMA StaysWhole ==
  ASSUME TInv, Whole, Tip, NEW e \in Events, NEW d \in 0 .. Size[e], NEW k \in d + 1 .. Size[e] + 1,
         Wrote(e, d, k), Writer(e, d)
  PROVE  Whole'
<1> DEFINE n == Len(file)
<1>1. Grown(e, d, k) /\ Size[e] \in Nat /\ Size[e] >= 2 /\ d \in Nat /\ k \in Nat
  BY WroteGrown
<1>2. /\ d <= n /\ \A x \in 1 .. d : file[n - d + x] = <<e, x>>
      /\ n = d \/ file[n - d] = NL
  BY Partial
<1>3. n \in Nat /\ DOMAIN file = 1 .. n /\ DOMAIN file' = 1 .. Len(file') /\ Len(file') = n + (k - d)
  BY <1>1 DEF Grown
<1>4. \A p \in 1 .. n : file'[p] = file[p]
  BY <1>1 DEF Grown
<1>5. \A p \in n + 1 .. Len(file') :
        file'[p] = IF p - n + d = Size[e] + 1 THEN NL ELSE <<e, p - n + d>>
  BY <1>1 DEF Grown
<1> HIDE DEF n
<1>6. ASSUME NEW p \in 1 .. n
      PROVE  IF file'[p] = NL THEN p > 1 /\ \E f \in Events : file'[p - 1] = End(f)
             ELSE \E f \in Events : \E i \in 1 .. Size[f] :
                    /\ i <= p /\ \A j \in 1 .. i : file'[p - i + j] = <<f, j>>
                    /\ p = i \/ file'[p - i] = NL
  <2>1. p \in DOMAIN file /\ file'[p] = file[p] /\ p \in Nat
    BY <1>3, <1>4
  <2>2. CASE file[p] = NL
    <3>1. p > 1 /\ \E f \in Events : file[p - 1] = End(f)
      BY <2>1, <2>2 DEF Whole
    <3>2. p - 1 \in 1 .. n
      BY <1>3, <3>1
    <3> QED BY <1>4, <2>1, <2>2, <3>1, <3>2
  <2>3. CASE file[p] # NL
    <3>a. PICK f \in Events : \E i \in 1 .. Size[f] :
            /\ i <= p /\ \A j \in 1 .. i : file[p - i + j] = <<f, j>>
            /\ p = i \/ file[p - i] = NL
      BY <2>1, <2>3 DEF Whole
    <3>1. PICK i \in 1 .. Size[f] :
            /\ i <= p /\ \A j \in 1 .. i : file[p - i + j] = <<f, j>>
            /\ p = i \/ file[p - i] = NL
      BY <3>a
    <3>2. Size[f] \in Nat
      BY Sizes
    <3>3. \A j \in 1 .. i : p - i + j \in 1 .. n
      BY <1>3, <2>1, <3>1, <3>2
    <3>4. p = i \/ p - i \in 1 .. n
      BY <1>3, <2>1, <3>1, <3>2
    <3>5. \A j \in 1 .. i : file'[p - i + j] = <<f, j>>
      BY <1>4, <3>1, <3>3
    <3>6. p = i \/ file'[p - i] = NL
      BY <1>4, <3>1, <3>4
    <3> QED BY <2>1, <2>3, <3>1, <3>5, <3>6
  <2> QED BY <2>2, <2>3
<1>7. ASSUME NEW p \in n + 1 .. Len(file')
      PROVE  IF file'[p] = NL THEN p > 1 /\ \E f \in Events : file'[p - 1] = End(f)
             ELSE \E f \in Events : \E i \in 1 .. Size[f] :
                    /\ i <= p /\ \A j \in 1 .. i : file'[p - i + j] = <<f, j>>
                    /\ p = i \/ file'[p - i] = NL
  <2> DEFINE i == p - n + d
  <2>1. p \in Nat /\ i \in Nat /\ d < i /\ i <= k /\ p - i = n - d /\ i <= p
    BY <1>1, <1>2, <1>3
  <2>2. ASSUME NEW j \in 1 .. i, j <= Size[e] PROVE file'[p - i + j] = <<e, j>>
    <3>1. CASE j <= d
      <4>1. n - d + j \in 1 .. n /\ j \in 1 .. d
        BY <1>1, <1>2, <1>3, <3>1
      <4> QED BY <1>2, <1>4, <2>1, <4>1
    <3>2. CASE j > d
      <4>1. PICK q \in n + 1 .. Len(file') : q = n - d + j
        BY <1>1, <1>2, <1>3, <2>1, <2>2, <3>2
      <4>2. q - n + d = j /\ j # Size[e] + 1 /\ p - i + j = q
        BY <1>1, <1>3, <2>1, <2>2, <4>1
      <4>3. file'[q] = <<e, j>>
        BY <1>5, <4>2
      <4> QED BY <4>2, <4>3
    <3> QED BY <1>1, <2>1, <3>1, <3>2
  <2>3. CASE i = Size[e] + 1
    <3>1. file'[p] = NL
      BY <1>5, <2>3
    <3>2. Size[e] \in 1 .. i /\ p - i + Size[e] = p - 1 /\ p > 1
      BY <1>1, <2>1, <2>3
    <3>3. file'[p - 1] = End(e)
      <4> HIDE DEF i
      <4>1. file'[p - i + Size[e]] = <<e, Size[e]>>
        BY <1>1, <2>2, <3>2
      <4> QED BY <3>2, <4>1 DEF End
    <3> QED BY <3>1, <3>2, <3>3
  <2>4. CASE i # Size[e] + 1
    <3>1. file'[p] = <<e, i>> /\ file'[p] # NL
      BY <1>5, <2>1, <2>4, BytesDiffer
    <3>2. i \in 1 .. Size[e]
      BY <1>1, <2>1, <2>4
    <3>3. p = i \/ file'[p - i] = NL
      <4>1. n = d \/ n - d \in 1 .. n
        BY <1>1, <1>2, <1>3
      <4>2. n = d => p = i
        BY <1>3, <2>1
      <4> QED BY <1>2, <1>4, <2>1, <4>1, <4>2
    <3> HIDE DEF i
    <3>4. \A j \in 1 .. i : j <= Size[e]
      BY <1>1, <2>1, <3>2
    <3>5. \A j \in 1 .. i : file'[p - i + j] = <<e, j>>
      BY <2>2, <3>4
    <3> QED BY <2>1, <3>1, <3>2, <3>3, <3>5
  <2> QED BY <2>3, <2>4
<1>8. DOMAIN file' = (1 .. n) \cup (n + 1 .. Len(file'))
  BY <1>1, <1>3
<1> QED BY <1>6, <1>7, <1>8 DEF Whole

\* The write brings in the last byte of the line.
Ends(e, d, k) == d < Size[e] /\ k >= Size[e]

\* The last bytes of lines in a file that grew, and the events they belong to.
LEMMA NewEnd ==
  ASSUME TInv, Once, NEW e \in Events, NEW d \in 0 .. Size[e], NEW k \in d + 1 .. Size[e] + 1,
         Wrote(e, d, k), Writer(e, d)
  PROVE  /\ \A p \in DOMAIN file', f \in Events :
              file'[p] = End(f) <=> \/ p \in DOMAIN file /\ file[p] = End(f)
                                    \/ f = e /\ Ends(e, d, k) /\ p = Len(file) + (Size[e] - d)
         /\ Ends(e, d, k) => Len(file) + (Size[e] - d) \in DOMAIN file'
         /\ \A p \in DOMAIN file : p \in DOMAIN file' /\ file'[p] = file[p] /\ p \in Nat /\ p <= Len(file)
         /\ Len(file) \in Nat /\ Size[e] \in Nat /\ d \in Nat
         /\ Ends(e, d, k) => e \notin Recorded
         /\ Total \in Nat /\ Total' = (IF Ends(e, d, k) THEN Total + 1 ELSE Total)
         /\ \A i \in 1 .. Total : recorded'[i] = recorded[i] /\ recorded[i] \in Recorded
                                /\ recorded[i] \in Events
         /\ Ends(e, d, k) => recorded'[Total + 1] = e
<1>1. Grown(e, d, k) /\ Size[e] \in Nat /\ Size[e] >= 2 /\ d \in Nat /\ k \in Nat
  BY WroteGrown
<1>2. /\ Len(file) \in Nat /\ DOMAIN file = 1 .. Len(file) /\ DOMAIN file' = 1 .. Len(file')
      /\ Len(file') = Len(file) + (k - d)
      /\ \A p \in 1 .. Len(file) : file'[p] = file[p]
      /\ \A p \in Len(file) + 1 .. Len(file') :
           file'[p] = IF p - Len(file) + d = Size[e] + 1 THEN NL ELSE <<e, p - Len(file) + d>>
  BY <1>1 DEF Grown
<1>3. ASSUME NEW p \in DOMAIN file', NEW f \in Events
      PROVE  file'[p] = End(f) <=> \/ p \in DOMAIN file /\ file[p] = End(f)
                                   \/ f = e /\ Ends(e, d, k) /\ p = Len(file) + (Size[e] - d)
  <2>1. CASE p \in 1 .. Len(file)
    BY <1>1, <1>2, <2>1 DEF Ends
  <2>2. CASE p \in Len(file) + 1 .. Len(file')
    <3>1. Size[f] \in Nat /\ End(f) # NL
      BY Sizes, BytesDiffer DEF End
    <3>2. file'[p] = IF p - Len(file) + d = Size[e] + 1 THEN NL ELSE <<e, p - Len(file) + d>>
      BY <1>2, <2>2
    <3>3. file'[p] = End(f) => f = e /\ p - Len(file) + d = Size[e]
      BY <3>1, <3>2 DEF End
    <3>4. f = e /\ p - Len(file) + d = Size[e] => file'[p] = End(f)
      BY <1>1, <3>2 DEF End
    <3>5. p - Len(file) + d = Size[e] <=> p = Len(file) + (Size[e] - d)
      <4>1. p \in Nat /\ Len(file) \in Nat /\ Size[e] \in Nat /\ d \in Nat
        BY <1>1, <1>2, <2>2
      <4> QED BY <4>1
    <3>6. p - Len(file) + d = Size[e] => Ends(e, d, k)
      BY <1>1, <1>2, <2>2 DEF Ends
    <3>7. p \notin DOMAIN file
      BY <1>2, <2>2
    <3> QED BY <3>3, <3>4, <3>5, <3>6, <3>7
  <2> QED BY <1>1, <1>2, <2>1, <2>2
<1>4. Ends(e, d, k) => Len(file) + (Size[e] - d) \in DOMAIN file'
  BY <1>1, <1>2 DEF Ends
<1>5. \A p \in DOMAIN file : p \in DOMAIN file' /\ file'[p] = file[p] /\ p \in Nat /\ p <= Len(file)
  BY <1>1, <1>2
<1>6. Ends(e, d, k) => e \notin Recorded
  BY <1>1 DEF Ends, Writer, Once
<1>7. recorded \in Seq(Events) /\ Total \in Nat
  BY DEF TInv, Total
<1>8. \A i \in 1 .. Total : recorded[i] \in Recorded /\ recorded[i] \in Events
  BY <1>7 DEF Total, Recorded
<1>9. /\ Total' = IF Ends(e, d, k) THEN Total + 1 ELSE Total
      /\ \A i \in 1 .. Total : recorded'[i] = recorded[i]
      /\ Ends(e, d, k) => recorded'[Total + 1] = e
  BY <1>7 DEF Wrote, Ends, Total
<1> QED BY <1>1, <1>2, <1>3, <1>4, <1>5, <1>6, <1>7, <1>8, <1>9

LEMMA StaysSound ==
  ASSUME TInv, FileSound, NEW e \in Events, NEW d \in 0 .. Size[e], NEW k \in d + 1 .. Size[e] + 1,
         Wrote(e, d, k), Writer(e, d)
  PROVE  FileSound'
<1> DEFINE q == Len(file) + (Size[e] - d)
<1>1. Grown(e, d, k) /\ Size[e] \in Nat /\ Size[e] >= 2 /\ d \in Nat /\ k \in Nat
  BY WroteGrown
<1>2. /\ \A p \in DOMAIN file', f \in Events :
           file'[p] = End(f) <=> \/ p \in DOMAIN file /\ file[p] = End(f)
                                 \/ f = e /\ Ends(e, d, k) /\ p = q
      /\ \A p \in DOMAIN file : p \in Nat /\ p <= Len(file)
      /\ Len(file) \in Nat
      /\ Ends(e, d, k) => e \notin Recorded
      /\ Total \in Nat /\ Total' = IF Ends(e, d, k) THEN Total + 1 ELSE Total
      /\ \A i \in 1 .. Total : recorded'[i] = recorded[i] /\ recorded[i] \in Recorded
                             /\ recorded[i] \in Events
      /\ Ends(e, d, k) => recorded'[Total + 1] = e
  BY NewEnd DEF FileSound
<1>3. Ends(e, d, k) => q \in Nat /\ q > Len(file)
  BY <1>1, <1>2 DEF Ends
<1> HIDE DEF q
<1>4. Whole'
  BY StaysWhole DEF FileSound
<1>5. Tip'
  <2>1. CASE k = Size[e] + 1
    <3>0. Len(file') = Len(file) + (k - d) /\ Len(file) \in Nat
      BY <1>1 DEF Grown
    <3>a. Len(file') \in Len(file) + 1 .. Len(file')
      <4>1. k - d \in Nat /\ k - d >= 1
        BY <1>1, <2>1
      <4> QED BY <3>0, <4>1
    <3>1. writing' = None /\ Len(file') \in Len(file) + 1 .. Len(file')
      BY <2>1, <3>a DEF Wrote
    <3>2. Len(file') - Len(file) + d = Size[e] + 1
      BY <1>1, <1>2, <2>1 DEF Grown
    <3>3. file'[Len(file')] = NL
      BY <1>1, <3>1, <3>2 DEF Grown
    <3> QED BY <3>1, <3>3 DEF Tip
  <2>2. CASE k # Size[e] + 1
    <3>1. writing' = [event |-> e, done |-> k] /\ writing' # None
      <4>1. writing' = [event |-> e, done |-> k]
        BY <2>2 DEF Wrote
      <4>2. [event |-> e, done |-> k] \in Write
        BY <1>1, <2>2 DEF Write
      <4> QED BY <4>1, <4>2, BufferAssumption
    <3>2. /\ Len(file') \in Len(file) + 1 .. Len(file')
          /\ Len(file') - Len(file) + d = k
      BY <1>1, <1>2, <2>2 DEF Grown
    <3>3. file'[Len(file')] = <<e, k>>
      BY <1>1, <2>2, <3>2 DEF Grown
    <3>4. file' # <<>>
      BY <1>1, <1>2, <3>2 DEF Grown
    <3> QED BY <3>1, <3>3, <3>4 DEF Tip
  <2> QED BY <2>1, <2>2
<1>6. Once'
  <2>1. ASSUME NEW i \in 1 .. Total', NEW j \in 1 .. Total', recorded'[i] = recorded'[j]
        PROVE  i = j
    <3>1. \A x \in 1 .. Total' : x \in 1 .. Total \/ (x = Total + 1 /\ Ends(e, d, k))
      BY <1>2
    <3>2. \A x \in 1 .. Total : Ends(e, d, k) => recorded'[x] # e
      BY <1>2
    <3> QED BY <1>2, <2>1, <3>1, <3>2 DEF FileSound, Once
  <2>2. ASSUME writing' # None, writing'.done < Size[writing'.event]
        PROVE  writing'.event \notin Recorded'
    <3>1. writing' = [event |-> e, done |-> k] /\ k < Size[e]
      BY <1>1, <2>2 DEF Wrote
    <3>2. ~Ends(e, d, k) /\ recorded' = recorded
      BY <1>1, <3>1 DEF Ends, Wrote
    <3>3. d < Size[e] /\ e \notin Recorded
      BY <1>1, <3>1 DEF FileSound, Once, Writer
    <3> QED BY <3>1, <3>2, <3>3 DEF Recorded
  <2> QED BY <2>1, <2>2 DEF Once
<1>7. InOrder'
  <2> SUFFICES ASSUME NEW p \in DOMAIN file', NEW r \in DOMAIN file',
                      NEW i \in 1 .. Total', NEW j \in 1 .. Total',
                      file'[p] = End(recorded'[i]), file'[r] = End(recorded'[j])
               PROVE  p < r <=> i < j
    BY DEF InOrder
  <2>1. \A x \in 1 .. Total' : x \in 1 .. Total \/ (x = Total + 1 /\ Ends(e, d, k))
    BY <1>2
  <2>2. ASSUME NEW x \in 1 .. Total', NEW y \in DOMAIN file', file'[y] = End(recorded'[x])
        PROVE  \/ x \in 1 .. Total /\ y \in DOMAIN file /\ file[y] = End(recorded[x])
               \/ x = Total + 1 /\ y = q /\ Ends(e, d, k)
    <3>1. CASE x \in 1 .. Total
      <4>1. recorded'[x] \in Events /\ recorded'[x] = recorded[x] /\ (Ends(e, d, k) => recorded'[x] # e)
        BY <1>2, <3>1
      <4> QED BY <1>2, <2>2, <3>1, <4>1
    <3>2. CASE x = Total + 1 /\ Ends(e, d, k)
      <4>1. recorded'[x] = e /\ e \notin Recorded
        BY <1>2, <3>2
      <4>2. ~(y \in DOMAIN file /\ file[y] = End(e))
        BY <4>1 DEF TInv, OnlyRecorded
      <4> QED BY <1>2, <2>2, <3>2, <4>1, <4>2
    <3> QED BY <2>1, <3>1, <3>2
  <2>3. /\ \/ i \in 1 .. Total /\ p \in DOMAIN file /\ file[p] = End(recorded[i])
           \/ i = Total + 1 /\ p = q /\ Ends(e, d, k)
        /\ \/ j \in 1 .. Total /\ r \in DOMAIN file /\ file[r] = End(recorded[j])
           \/ j = Total + 1 /\ r = q /\ Ends(e, d, k)
    BY <2>2
  <2>4. CASE i \in 1 .. Total /\ p \in DOMAIN file /\ file[p] = End(recorded[i])
    BY <1>2, <1>3, <2>3, <2>4 DEF FileSound, InOrder
  <2>5. CASE i = Total + 1 /\ p = q /\ Ends(e, d, k)
    BY <1>2, <1>3, <2>3, <2>5
  <2> QED BY <2>3, <2>4, <2>5
<1> QED BY <1>4, <1>5, <1>6, <1>7 DEF FileSound

\* An offset is still the end of a line, with the same events after it.
LEMMA StaysAhead ==
  ASSUME TInv, FileSound, NEW e \in Events, NEW d \in 0 .. Size[e], NEW k \in d + 1 .. Size[e] + 1,
         Wrote(e, d, k), Writer(e, d), NEW o \in Nat, Boundary(o)
  PROVE  Boundary(o)' /\ \A m \in Nat : At(o, m) => At(o, m)'
<1> DEFINE q == Len(file) + (Size[e] - d)
<1>1. Grown(e, d, k) /\ Size[e] \in Nat /\ Size[e] >= 2 /\ d \in Nat /\ k \in Nat
  BY WroteGrown
<1>2. /\ \A p \in DOMAIN file', f \in Events :
           file'[p] = End(f) <=> \/ p \in DOMAIN file /\ file[p] = End(f)
                                 \/ f = e /\ Ends(e, d, k) /\ p = q
      /\ Ends(e, d, k) => q \in DOMAIN file'
      /\ \A p \in DOMAIN file : p \in DOMAIN file' /\ file'[p] = file[p] /\ p \in Nat /\ p <= Len(file)
      /\ Len(file) \in Nat
      /\ Ends(e, d, k) => e \notin Recorded
      /\ Total \in Nat /\ Total' = IF Ends(e, d, k) THEN Total + 1 ELSE Total
      /\ \A i \in 1 .. Total : recorded'[i] = recorded[i] /\ recorded[i] \in Recorded
                             /\ recorded[i] \in Events
      /\ Ends(e, d, k) => recorded'[Total + 1] = e
  BY NewEnd DEF FileSound
<1>3. Ends(e, d, k) => q > o
  <2>1. d < Size[e] => o = 0 \/ o \in DOMAIN file
    BY <1>1 DEF Boundary, Writer
  <2> QED BY <1>1, <1>2, <2>1 DEF Ends
<1> HIDE DEF q
<1>4. Boundary(o)'
  <2>1. CASE o = 0
    BY <2>1 DEF Boundary
  <2>2. CASE o \in DOMAIN file /\ file[o] = NL
    BY <1>2, <2>2 DEF Boundary
  <2>3. CASE o = Len(file) + 1 /\ writing # None /\ writing.done = Size[writing.event]
    <3>1. d = Size[e] /\ k = Size[e] + 1
      BY <1>1, <2>3 DEF Writer
    <3>2. o \in Len(file) + 1 .. Len(file') /\ o - Len(file) + d = Size[e] + 1 /\ o \in DOMAIN file'
      BY <1>1, <1>2, <2>3, <3>1 DEF Grown
    <3>3. file'[o] = NL
      BY <1>1, <3>2 DEF Grown
    <3> QED BY <3>2, <3>3 DEF Boundary
  <2> QED BY <2>1, <2>2, <2>3 DEF Boundary
<1>5. ASSUME NEW m \in Nat, At(o, m) PROVE At(o, m)'
  <2>1. m \in 0 .. Total'
    BY <1>2, <1>5 DEF At
  <2>2. ASSUME NEW i \in 1 .. Total'
        PROVE  i > m <=> \E p \in DOMAIN file' : p > o /\ file'[p] = End(recorded'[i])
    <3>1. CASE i \in 1 .. Total
      <4>1. i > m <=> \E p \in DOMAIN file : p > o /\ file[p] = End(recorded[i])
        BY <1>5, <3>1 DEF At
      <4>2. recorded'[i] \in Events /\ recorded'[i] = recorded[i] /\ (Ends(e, d, k) => recorded'[i] # e)
        BY <1>2, <3>1
      <4> QED BY <1>2, <4>1, <4>2
    <3>2. CASE i = Total + 1 /\ Ends(e, d, k)
      <4>1. i > m
        BY <1>2, <1>5, <3>2 DEF At
      <4>2. q \in DOMAIN file' /\ q > o /\ file'[q] = End(e) /\ recorded'[i] = e
        BY <1>2, <1>3, <3>2
      <4> QED BY <4>1, <4>2
    <3> QED BY <1>2, <3>1, <3>2
  <2> QED BY <2>1, <2>2 DEF At
<1> QED BY <1>4, <1>5

--------------------------------------------------------------------------------
(* Reading a sound file                                                        *)

LEMMA FileType ==
  ASSUME TInv
  PROVE  /\ file \in Seq(Byte) /\ Len(file) \in Nat /\ DOMAIN file = 1 .. Len(file)
         /\ recorded \in Seq(Events) /\ Total \in Nat
         /\ \A i \in 1 .. Total : recorded[i] \in Events /\ recorded[i] \in Recorded
         /\ \A e \in Recorded : \E i \in 1 .. Total : e = recorded[i]
BY DEF TInv, TypeOK, Total, Recorded

\* The line of e is followed by a newline and is found by a reader who starts before it.
LEMMA Found ==
  ASSUME TInv, FileSound, NEW o \in Nat, Boundary(o), NEW p \in DOMAIN file, p > o,
         NEW e \in Events, file[p] = End(e)
  PROVE  p + 1 \in Stops(o) /\ LineAt(o, p + 1) = Body(e) /\ Boundary(p + 1)
<1> DEFINE n == Len(file)
           s == p + 1
<1>1. file \in Seq(Byte) /\ n \in Nat /\ DOMAIN file = 1 .. n /\ p \in 1 .. n /\ p \in Nat
  BY FileType
<1>2. Size[e] \in Nat /\ Size[e] >= 2 /\ End(e) # NL
  BY Sizes, BytesDiffer DEF End
<1>3. p < n => file[p + 1] = NL
  <2> SUFFICES ASSUME p < n, file[p + 1] # NL PROVE FALSE
    OBVIOUS
  <2>1. PICK q \in DOMAIN file : q = p + 1 /\ file[q] # NL
    BY <1>1
  <2>2. PICK g \in Events : \E i \in 1 .. Size[g] :
          /\ i <= q /\ \A j \in 1 .. i : file[q - i + j] = <<g, j>>
          /\ q = i \/ file[q - i] = NL
    BY <2>1 DEF FileSound, Whole
  <2>3. PICK i \in 1 .. Size[g] :
          /\ i <= q /\ \A j \in 1 .. i : file[q - i + j] = <<g, j>>
          /\ q = i \/ file[q - i] = NL
    BY <2>2
  <2>4. Size[g] \in Nat /\ i \in Nat
    BY Sizes
  <2>5. CASE i = 1
    <3>1. q # i /\ q - i = p
      BY <1>1, <2>1, <2>5
    <3> QED BY <1>2, <2>3, <3>1
  <2>6. CASE i > 1
    <3>1. i - 1 \in 1 .. i /\ q - i + (i - 1) = p
      BY <1>1, <2>1, <2>4, <2>6
    <3>2. file[p] = <<g, i - 1>>
      BY <2>3, <3>1
    <3>3. g = e /\ i - 1 = Size[e]
      BY <3>2 DEF End
    <3> QED BY <2>4, <3>3
  <2> QED BY <2>4, <2>5, <2>6
<1>4. s \in Stops(o)
  BY <1>1, <1>2, <1>3 DEF Stops
<1>5. Boundary(s)
  <2>1. CASE p < n
    BY <1>1, <1>3, <2>1 DEF Boundary
  <2>2. CASE p = n
    <3>1. file # <<>> /\ file[n] # NL
      BY <1>1, <1>2, <2>2
    <3>2. writing # None /\ <<writing.event, writing.done>> = End(e)
      BY <2>2, <3>1 DEF FileSound, Tip
    <3> QED BY <2>2, <3>2 DEF Boundary, End
  <2> QED BY <1>1, <2>1, <2>2
<1>6. LineAt(o, s) = Body(e)
  <2>1. PICK b \in Nat :
          /\ o <= b /\ b < s /\ b \in Stops(o) \cup {o}
          /\ \A t \in Stops(o) : t < s => t <= b
          /\ LineAt(o, s) \in Seq(Byte) /\ Len(LineAt(o, s)) = s - 1 - b
          /\ \A j \in 1 .. s - 1 - b : LineAt(o, s)[j] = file[b + j]
    BY <1>1, <1>4, LineAtType
  <2> DEFINE a == p - Size[e]
  <2>2. PICK g \in Events : \E i \in 1 .. Size[g] :
          /\ i <= p /\ \A j \in 1 .. i : file[p - i + j] = <<g, j>>
          /\ p = i \/ file[p - i] = NL
    BY <1>2 DEF FileSound, Whole
  <2>3. PICK i \in 1 .. Size[g] :
          /\ i <= p /\ \A j \in 1 .. i : file[p - i + j] = <<g, j>>
          /\ p = i \/ file[p - i] = NL
    BY <2>2
  <2>4. g = e /\ i = Size[e]
    <3>1. i \in 1 .. i /\ p - i + i = p
      BY <1>1, <2>3, Sizes
    <3>2. file[p] = <<g, i>>
      BY <2>3, <3>1
    <3> QED BY <3>2 DEF End
  <2>5. a \in Nat /\ a < p /\ a + Size[e] = p /\ \A j \in 1 .. Size[e] : file[a + j] = <<e, j>>
    BY SMTT(30), <1>1, <1>2, <2>3, <2>4
  <2>6. a = 0 \/ file[a] = NL
    BY <1>1, <2>3, <2>4
  <2> HIDE DEF a
  <2>7. \A t \in Nat : a < t /\ t <= p => file[t] # NL
    <3> TAKE t \in Nat
    <3>1. CASE a < t /\ t <= p
      <4>1. t - a \in 1 .. Size[e] /\ a + (t - a) = t /\ t - a \in Nat
        BY <1>1, <1>2, <2>5, <3>1
      <4>2. file[t] = <<e, t - a>>
        BY <2>5, <4>1
      <4> QED BY <4>1, <4>2, BytesDiffer
    <3> QED BY <3>1
  <2>8. o <= a
    <3> SUFFICES ASSUME a < o PROVE FALSE
      BY <2>5
    <3>1. file[o] # NL /\ o # 0 /\ o <= n
      BY <1>1, <2>5, <2>7
    <3> QED BY <1>1, <3>1 DEF Boundary
  <2>9. b = a
    <3>1. b <= a
      <4> SUFFICES ASSUME a < b PROVE FALSE
        BY <2>5
      <4>1. b <= p /\ file[b] # NL /\ b # o
        BY <1>1, <2>1, <2>5, <2>7, <2>8
      <4>2. b \in Stops(o) /\ b <= n
        BY <1>1, <2>1, <4>1
      <4>3. file[b] = NL
        BY <1>1, <4>2 DEF Stops
      <4> QED BY <4>1, <4>3
    <3>2. CASE a = o
      BY <2>1, <2>5, <3>1, <3>2
    <3>3. CASE a > o
      <4>1. a \in o + 1 .. n /\ file[a] = NL
        BY <1>1, <2>5, <2>6, <3>3
      <4>2. a \in Stops(o) /\ a < s
        BY <1>1, <2>5, <4>1 DEF Stops
      <4> QED BY <2>1, <2>5, <3>1, <4>2
    <3> QED BY <2>5, <2>8, <3>2, <3>3
  <2>10. s - 1 - b = Size[e]
    BY <1>1, <1>2, <2>5, <2>9
  <2>11. /\ Body(e) \in Seq(Byte) /\ Len(Body(e)) = Size[e]
         /\ \A j \in 1 .. Size[e] : Body(e)[j] = <<e, j>>
    BY BodyType
  <2>12. \A j \in 1 .. Size[e] : LineAt(o, s)[j] = Body(e)[j]
    BY <2>1, <2>5, <2>9, <2>10, <2>11
  <2> HIDE DEF s
  <2> QED BY <1>2, <2>1, <2>10, <2>11, <2>12, SeqEqual
<1> QED BY <1>4, <1>5, <1>6

\* A stop ends a line that is not empty, and that is whole unless it ends the file.
LEMMA StopsEnd ==
  ASSUME TInv, FileSound, NEW o \in Nat, Boundary(o), NEW s \in Stops(o)
  PROVE  /\ s \in Nat /\ s - 1 \in DOMAIN file /\ s - 1 > o /\ LineAt(o, s) # <<>>
         /\ s # Len(file) + 1 => \E e \in Events : file[s - 1] = End(e)
<1>1. file \in Seq(Byte) /\ Len(file) \in Nat /\ DOMAIN file = 1 .. Len(file)
  BY FileType
<1>2. s \in Nat /\ o < s /\ s <= Len(file) + 1
  BY <1>1, StopsType
<1>3. s # Len(file) + 1 => \E e \in Events : file[s - 1] = End(e)
  <2> SUFFICES ASSUME s # Len(file) + 1 PROVE \E e \in Events : file[s - 1] = End(e)
    OBVIOUS
  <2>1. s \in DOMAIN file /\ file[s] = NL
    BY <1>1, <1>2 DEF Stops
  <2> QED BY <2>1 DEF FileSound, Whole
<1>5. s - 1 \in DOMAIN file /\ s - 1 > o /\ file[s - 1] # NL
  <2>1. \A e \in Events : End(e) # NL
    BY Sizes, BytesDiffer DEF End
  <2>2. CASE s # Len(file) + 1
    <3>1. s \in DOMAIN file /\ file[s] = NL
      BY <1>1, <1>2, <2>2 DEF Stops
    <3>2. PICK e \in Events : s > 1 /\ file[s - 1] = End(e)
      BY <3>1 DEF FileSound, Whole
    <3>3. s - 1 # o
      BY <1>1, <1>2, <2>1, <2>2, <3>2 DEF Boundary
    <3> QED BY <1>1, <1>2, <2>1, <3>2, <3>3
  <2>3. CASE s = Len(file) + 1
    <3>1. s > o + 1 /\ file[s - 1] # NL
      BY <1>1, <1>2, <2>3 DEF Stops
    <3> QED BY <1>1, <1>2, <2>3, <3>1
  <2> QED BY <2>2, <2>3
<1>6. LineAt(o, s) # <<>>
  <2>1. PICK b \in Nat : b < s /\ b \in Stops(o) \cup {o} /\ Len(LineAt(o, s)) = s - 1 - b
    BY <1>1, LineAtType
  <2>2. b # s - 1
    <3>1. b \in Stops(o) /\ b <= Len(file) => file[b] = NL
      BY <1>1 DEF Stops
    <3> QED BY <1>1, <1>2, <1>5, <2>1, <3>1
  <2> QED BY <1>2, <2>1, <2>2
<1> QED BY <1>2, <1>3, <1>5, <1>6

\* f lists the stops after byte o: those of the events recorded after the first m, and
\* possibly one of a line whose write has only begun.
Listed(o, m, n, f) ==
  /\ n \in {Total, Total + 1} /\ m <= n /\ f \in [m + 1 .. n -> Stops(o)]
  /\ \A i, j \in m + 1 .. n : i < j <=> f[i] < f[j]
  /\ \A s \in Stops(o) : \E i \in m + 1 .. n : s = f[i]
  /\ \A i \in m + 1 .. Total : f[i] - 1 \in DOMAIN file /\ file[f[i] - 1] = End(recorded[i])
  /\ n = Total + 1 => \A e \in Events : file[f[n] - 1] # End(e)

LEMMA Follow ==
  ASSUME TInv, FileSound, NEW o \in Nat, Boundary(o), NEW m \in Nat, At(o, m)
  PROVE  \E n, f : Listed(o, m, n, f)
<1>1. /\ file \in Seq(Byte) /\ Len(file) \in Nat /\ DOMAIN file = 1 .. Len(file) /\ Total \in Nat
      /\ \A i \in 1 .. Total : recorded[i] \in Events /\ recorded[i] \in Recorded
      /\ \A e \in Recorded : \E i \in 1 .. Total : e = recorded[i]
  BY FileType
<1> DEFINE z == Len(file)
           pos(i) == CHOOSE p \in DOMAIN file : p > o /\ file[p] = End(recorded[i])
           open == z + 1 \in Stops(o) /\ \A e \in Events : file[z] # End(e)
           n == IF open THEN Total + 1 ELSE Total
           f == [i \in m + 1 .. n |-> IF i = Total + 1 THEN z + 1 ELSE pos(i) + 1]
<1>2. m <= Total /\ \A i \in m + 1 .. Total :
                      pos(i) \in DOMAIN file /\ pos(i) > o /\ file[pos(i)] = End(recorded[i])
  <2>1. m <= Total /\ \A i \in 1 .. Total :
                        i > m <=> \E p \in DOMAIN file : p > o /\ file[p] = End(recorded[i])
    BY <1>1 DEF At
  <2>2. \A i \in m + 1 .. Total : i \in 1 .. Total /\ i > m
    BY <1>1, <2>1
  <2> QED BY <2>1, <2>2
<1> HIDE DEF pos
<1>3. n \in {Total, Total + 1} /\ m <= n /\ n \in Nat
  BY <1>1, <1>2
<1>4. \A i \in m + 1 .. n : i \in m + 1 .. Total \/ (i = Total + 1 /\ open)
  BY <1>1, <1>2
<1>5. \A i \in m + 1 .. Total : i \in m + 1 .. n /\ f[i] = pos(i) + 1 /\ i \in Nat
  BY <1>1, <1>2
<1>6. open => Total + 1 \in m + 1 .. n /\ f[Total + 1] = z + 1
  BY <1>1, <1>2
<1>7. f \in [m + 1 .. n -> Stops(o)]
  <2>1. \A i \in m + 1 .. Total : pos(i) + 1 \in Stops(o)
    <3> TAKE i \in m + 1 .. Total
    <3>1. recorded[i] \in Events
      BY <1>1, <1>2
    <3> QED BY <1>2, <3>1, Found
  <2>2. \A i \in m + 1 .. n : (IF i = Total + 1 THEN z + 1 ELSE pos(i) + 1) \in Stops(o)
    BY <1>1, <1>4, <2>1
  <2> QED BY <2>2
<1> HIDE DEF f
<1>8. ASSUME NEW i \in m + 1 .. n, NEW j \in m + 1 .. n PROVE i < j <=> f[i] < f[j]
  <2>1. \A x \in m + 1 .. Total : pos(x) \in Nat /\ pos(x) <= z /\ x \in 1 .. Total /\ recorded[x] \in Events
    BY <1>1, <1>2
  <2>2. CASE i \in m + 1 .. Total /\ j \in m + 1 .. Total
    <3>1. pos(i) < pos(j) <=> i < j
      BY <1>2, <2>1, <2>2 DEF FileSound, InOrder
    <3> QED BY <1>5, <2>1, <2>2, <3>1
  <2>3. CASE i \in m + 1 .. Total /\ j = Total + 1 /\ open
    <3>1. pos(i) # z
      BY <1>2, <2>1, <2>3
    <3> QED BY <1>1, <1>5, <1>6, <2>1, <2>3, <3>1
  <2>4. CASE j \in m + 1 .. Total /\ i = Total + 1 /\ open
    <3>1. pos(j) # z
      BY <1>2, <2>1, <2>4
    <3> QED BY <1>1, <1>5, <1>6, <2>1, <2>4, <3>1
  <2>5. CASE i = Total + 1 /\ j = Total + 1
    BY <1>1, <1>6, <1>4, <2>5
  <2> QED BY <1>4, <2>2, <2>3, <2>4, <2>5
<1>9. ASSUME NEW s \in Stops(o) PROVE \E i \in m + 1 .. n : s = f[i]
  <2>1. /\ s \in Nat /\ s - 1 \in DOMAIN file /\ s - 1 > o
        /\ s # z + 1 => \E e \in Events : file[s - 1] = End(e)
    BY StopsEnd
  <2>2. CASE s = z + 1 /\ open
    BY <1>6, <2>2
  <2>3. CASE \E e \in Events : file[s - 1] = End(e)
    <3>1. PICK e \in Events : file[s - 1] = End(e)
      BY <2>3
    <3>2. e \in Recorded
      BY <2>1, <3>1 DEF TInv, OnlyRecorded
    <3>3. PICK i \in 1 .. Total : e = recorded[i]
      BY <1>1, <3>2
    <3>4. i \in m + 1 .. Total
      <4>1. i > m
        BY <2>1, <3>1, <3>3 DEF At
      <4> QED BY <1>1, <4>1
    <3>5. pos(i) \in DOMAIN file /\ file[pos(i)] = End(recorded[i])
      BY <1>2, <3>4
    <3>6. ~(pos(i) < s - 1) /\ ~(s - 1 < pos(i))
      <4>1. \A p, q \in DOMAIN file :
              file[p] = End(recorded[i]) /\ file[q] = End(recorded[i]) => (p < q <=> i < i)
        BY DEF FileSound, InOrder
      <4>2. file[s - 1] = End(recorded[i]) /\ ~(i < i)
        BY <1>1, <3>1, <3>3
      <4> QED BY <2>1, <3>5, <4>1, <4>2
    <3>7. pos(i) + 1 = s
      BY <1>1, <2>1, <3>5, <3>6
    <3> QED BY <1>5, <3>4, <3>7
  <2>4. s = z + 1 => s - 1 = z
    BY <1>1
  <2> QED BY <2>1, <2>2, <2>3, <2>4
<1>10. ASSUME NEW i \in m + 1 .. Total
       PROVE  f[i] - 1 \in DOMAIN file /\ file[f[i] - 1] = End(recorded[i])
  <2>1. pos(i) \in Nat /\ f[i] - 1 = pos(i)
    BY <1>1, <1>2, <1>5
  <2> QED BY <1>2, <2>1
<1>11. n = Total + 1 => \A e \in Events : file[f[n] - 1] # End(e)
  <2> SUFFICES ASSUME n = Total + 1 PROVE \A e \in Events : file[f[n] - 1] # End(e)
    OBVIOUS
  <2>1. open
    BY <1>1
  <2>2. f[n] = z + 1 /\ z + 1 - 1 = z
    BY <1>1, <1>6, <2>1
  <2> HIDE DEF n
  <2>3. f[n] - 1 = z
    BY <2>2
  <2> QED BY <2>1, <2>3
<1> HIDE DEF n
<1>12. Listed(o, m, n, f)
  BY <1>3, <1>7, <1>8, <1>9, <1>10, <1>11 DEF Listed
<1> QED BY <1>12

\* What Peek takes are the first stops of the list.
LEMMA PeekTakes ==
  ASSUME TInv, FileSound, NEW o \in Nat, Boundary(o), NEW m \in Nat, NEW n, NEW f, Listed(o, m, n, f),
         NEW b \in Nat \ {0}
  PROVE  LET c == IF n - m <= b THEN n - m ELSE b
         IN /\ c \in Nat /\ m + c <= n
            /\ Peeked(o, b).lines = [k \in 1 .. c |-> LineAt(o, f[m + k])]
            /\ Peeked(o, b).next = IF c = 0 THEN o ELSE f[m + c]
<1> DEFINE c == IF n - m <= b THEN n - m ELSE b
           F == Full(o)
           T == Taken(o, b)
<1>1. /\ n \in Nat /\ m <= n /\ f \in [m + 1 .. n -> Stops(o)]
      /\ \A i, j \in m + 1 .. n : i < j <=> f[i] < f[j]
      /\ \A s \in Stops(o) : \E i \in m + 1 .. n : s = f[i]
  BY FileType DEF Listed
<1>2. c \in Nat /\ m + c <= n /\ m + c \in Nat /\ c <= b
  BY <1>1
<1>3. Stops(o) \in SUBSET Nat /\ \A s \in Stops(o) : o < s /\ s <= Len(file) + 1
  BY FileType, StopsType
<1>4. F = Stops(o)
  BY StopsEnd DEF Full
<1>5. IsFiniteSet(F) /\ Cardinality(F) = n - m /\ \A i \in m + 1 .. n : Rank(F, f[i]) = i - m
  <2> HIDE DEF F
  <2>1. m \in Nat /\ n \in Nat /\ m <= n /\ F \in SUBSET Nat /\ f \in [m + 1 .. n -> F]
    BY <1>1, <1>3, <1>4
  <2>2. \A i, j \in m + 1 .. n : i < j <=> f[i] < f[j]
    BY <1>1
  <2>3. \A s \in F : \E i \in m + 1 .. n : s = f[i]
    BY <1>1, <1>4
  <2> QED BY <2>1, <2>2, <2>3, Enumerated
<1>6. ASSUME NEW i \in m + 1 .. n PROVE f[i] \in T <=> i <= m + c
  <2>1. f[i] \in T <=> i - m <= b
    BY <1>1, <1>4, <1>5 DEF Taken
  <2>2. i \in Nat /\ i <= n /\ (i - m <= b <=> i <= m + c)
    BY <1>1
  <2> QED BY <2>1, <2>2
<1>7. \A s \in T : \E i \in m + 1 .. m + c : s = f[i]
  <2> TAKE s \in T
  <2>1. s \in Stops(o)
    BY <1>4 DEF Taken
  <2>2. PICK i \in m + 1 .. n : s = f[i]
    BY <1>1, <2>1
  <2>3. i <= m + c
    BY <1>6, <2>2
  <2>4. i \in m + 1 .. m + c
    BY <1>2, <2>3
  <2> QED BY <2>2, <2>4
<1>8. \A i \in m + 1 .. m + c : i \in m + 1 .. n /\ i \in Nat /\ f[i] \in T
  <2> TAKE i \in m + 1 .. m + c
  <2>1. i \in m + 1 .. n /\ i <= m + c /\ i \in Nat
    BY <1>1, <1>2
  <2> QED BY <1>6, <2>1
<1> HIDE DEF c, F, T
<1>9. Cardinality(T) = c
  <2>1. PICK h \in Nat : h = m + c
    BY <1>2
  <2> DEFINE g == [i \in m + 1 .. h |-> f[i]]
  <2>2. T \in SUBSET Nat /\ m \in Nat /\ m <= h
    <3>1. T \subseteq Stops(o)
      BY <1>4 DEF T, F, Taken
    <3> QED BY <1>2, <1>3, <2>1, <3>1
  <2>3. g \in [m + 1 .. h -> T] /\ \A i \in m + 1 .. h : g[i] = f[i]
    BY <1>8, <2>1
  <2> HIDE DEF g
  <2>4. \A i, j \in m + 1 .. h : i < j <=> g[i] < g[j]
    BY <1>1, <1>8, <2>1, <2>3
  <2>5. \A s \in T : \E i \in m + 1 .. h : s = g[i]
    BY <1>7, <2>1, <2>3
  <2>6. Cardinality(T) = h - m
    BY <2>2, <2>3, <2>4, <2>5, Enumerated
  <2> QED BY <1>2, <2>1, <2>6
<1>10. ASSUME NEW k \in 1 .. c
       PROVE  (CHOOSE s \in T : Rank(F, s) = k) = f[m + k]
  <2>1. m + k \in m + 1 .. m + c /\ m + k - m = k /\ m + k \in m + 1 .. n
    BY <1>1, <1>2
  <2>2. f[m + k] \in T /\ Rank(F, f[m + k]) = k
    BY <1>5, <1>8, <2>1
  <2>3. ASSUME NEW s \in T, Rank(F, s) = k PROVE s = f[m + k]
    <3>1. PICK i \in m + 1 .. m + c : s = f[i]
      BY <1>7
    <3>2. i - m = k /\ i \in Nat
      BY <1>5, <1>8, <2>3, <3>1
    <3>3. i = m + k
      BY <1>2, <3>2
    <3> QED BY <3>1, <3>3
  <2> QED BY <2>2, <2>3
<1>11. Peeked(o, b).lines = [k \in 1 .. c |-> LineAt(o, f[m + k])]
  <2>1. Peeked(o, b).lines = [k \in 1 .. Cardinality(T) |-> LineAt(o, CHOOSE s \in T : Rank(F, s) = k)]
    BY PeekedDef DEF T, F
  <2> QED BY <1>9, <1>10, <2>1
<1>12. Scanned(o, b) = T
  <2>1. CASE n - m >= b
    BY <1>5, <2>1 DEF Scanned, T, F
  <2>2. CASE n - m < b
    <3>1. c = n - m /\ m + c = n
      BY <1>1, <2>2 DEF c
    <3>2. Stops(o) \subseteq T
      BY <1>1, <1>8, <3>1
    <3>3. T \subseteq Stops(o)
      BY <1>4 DEF T, F, Taken
    <3>4. ~(Cardinality(Full(o)) >= b)
      BY <1>1, <1>5, <2>2 DEF F
    <3> QED BY <3>2, <3>3, <3>4 DEF Scanned, T
  <2> QED BY <1>1, <2>1, <2>2
<1>13. Peeked(o, b).next = IF c = 0 THEN o ELSE f[m + c]
  <2> DEFINE g == IF c = 0 THEN o ELSE f[m + c]
  <2>1. \A s \in T : s \in Nat /\ o < s
    <3>1. T \subseteq Stops(o)
      BY <1>4 DEF T, F, Taken
    <3> QED BY <1>3, <3>1
  <2>2. g \in T \cup {o} /\ \A s \in T \cup {o} : s <= g /\ s \in Nat
    <3>1. CASE c = 0
      <4>1. T = {}
        BY <1>2, <1>7, <3>1
      <4> QED BY <3>1, <4>1
    <3>2. CASE c # 0
      <4>1. m + c \in m + 1 .. m + c
        BY <1>2, <3>2
      <4>2. f[m + c] \in T
        BY <1>8, <4>1
      <4>3. \A s \in T : s <= f[m + c]
        <5> TAKE s \in T
        <5>1. PICK i \in m + 1 .. m + c : s = f[i]
          BY <1>7
        <5>2. ~(m + c < i) /\ m + c \in m + 1 .. n /\ i \in m + 1 .. n
          BY <1>2, <1>8, <4>1
        <5>3. ~(f[m + c] < f[i])
          BY <1>1, <5>2
        <5> QED BY <2>1, <4>2, <5>1, <5>3
      <4> QED BY <2>1, <3>2, <4>2, <4>3
    <3> QED BY <3>1, <3>2
  <2>a. Peeked(o, b).next = CHOOSE p \in Scanned(o, b) \cup {o} :
                              \A s \in Scanned(o, b) \cup {o} : s <= p
    BY PeekedDef, Zenon
  <2>3. Peeked(o, b).next = CHOOSE p \in T \cup {o} : \A s \in T \cup {o} : s <= p
    BY <1>12, <2>a, Zenon
  <2> HIDE DEF g
  <2>4. \A p \in T \cup {o} : (\A s \in T \cup {o} : s <= p) => p = g
    BY <2>2
  <2>5. Peeked(o, b).next = g
    BY <2>2, <2>3, <2>4
  <2> QED BY <2>5 DEF g
<1> QED BY <1>2, <1>11, <1>13 DEF c

\* A batch that marshals holds the events recorded after the first m, and nothing is left
\* out between o and the offset it ends with.
LEMMA PeekSound ==
  ASSUME TInv, FileSound, NEW o \in Nat, Boundary(o), NEW m \in Nat, At(o, m), NEW b \in Nat \ {0},
         \A k \in DOMAIN Peeked(o, b).lines : Readable(Peeked(o, b).lines[k])
  PROVE  LET B == Peeked(o, b)
             c == Len(B.lines)
         IN /\ c \in Nat /\ DOMAIN B.lines = 1 .. c /\ m + c <= Total
            /\ \A k \in 1 .. c : B.lines[k] = Body(recorded[m + k]) /\ recorded[m + k] \in Events
            /\ Boundary(B.next) /\ At(B.next, m + c)
<1>1. /\ file \in Seq(Byte) /\ Len(file) \in Nat /\ DOMAIN file = 1 .. Len(file) /\ Total \in Nat
      /\ \A i \in 1 .. Total : recorded[i] \in Events /\ recorded[i] \in Recorded
  BY FileType
<1>2. PICK n, f : Listed(o, m, n, f)
  BY Follow
<1>3. /\ n \in {Total, Total + 1} /\ m <= n /\ f \in [m + 1 .. n -> Stops(o)]
      /\ \A i, j \in m + 1 .. n : i < j <=> f[i] < f[j]
      /\ \A i \in m + 1 .. Total : f[i] - 1 \in DOMAIN file /\ file[f[i] - 1] = End(recorded[i])
      /\ n = Total + 1 => \A e \in Events : file[f[n] - 1] # End(e)
  BY <1>2 DEF Listed
<1> DEFINE B == Peeked(o, b)
           c == IF n - m <= b THEN n - m ELSE b
<1>4. /\ c \in Nat /\ m + c <= n
      /\ B.lines = [k \in 1 .. c |-> LineAt(o, f[m + k])]
      /\ B.next = IF c = 0 THEN o ELSE f[m + c]
  BY <1>2, PeekTakes
<1> HIDE DEF c
<1>5. Len(B.lines) = c /\ DOMAIN B.lines = 1 .. c /\ \A k \in 1 .. c : B.lines[k] = LineAt(o, f[m + k])
  <2> HIDE DEF B
  <2>1. B.lines \in Seq(Seq(Byte))
    BY <1>1, PeekedType DEF B, Batch
  <2> QED BY <1>4, <2>1
<1>6. \A k \in 1 .. c : Readable(B.lines[k])
  BY <1>5
<1> HIDE DEF B
<1>7. Stops(o) \in SUBSET Nat /\ \A s \in Stops(o) : o < s
  BY <1>1, StopsType
<1>8. \A i \in m + 1 .. m + c : i \in m + 1 .. n /\ i \in Nat /\ i - m \in 1 .. c /\ m + (i - m) = i
  BY <1>1, <1>3, <1>4
<1>9. m + c <= Total
  <2> SUFFICES ASSUME m + c > Total PROVE FALSE
    BY <1>1, <1>4
  <2>1. n = Total + 1 /\ m + c = n /\ c # 0
    <3>1. m <= Total
      BY <1>1 DEF At
    <3> QED BY <1>1, <1>3, <1>4, <3>1
  <2>2. c \in 1 .. c /\ n \in m + 1 .. n
    BY <1>1, <1>3, <1>4, <2>1
  <2>3. Readable(LineAt(o, f[n])) /\ f[n] \in Stops(o)
    BY <1>3, <1>5, <1>6, <2>1, <2>2
  <2>4. PICK e \in Events : LineAt(o, f[n]) = Body(e)
    BY <2>3 DEF Readable
  <2>5. file[f[n] - 1] = End(e)
    BY <1>1, <2>3, <2>4, EndOfLine
  <2> QED BY <1>3, <2>1, <2>5
<1>10. ASSUME NEW i \in m + 1 .. m + c
       PROVE  /\ recorded[i] \in Events /\ f[i] \in Nat /\ f[i] - 1 > o /\ f[i] - 1 \in DOMAIN file
              /\ file[f[i] - 1] = End(recorded[i])
              /\ LineAt(o, f[i]) = Body(recorded[i]) /\ Boundary(f[i])
  <2>1. i \in m + 1 .. Total /\ i \in 1 .. Total /\ f[i] \in Stops(o)
    <3>1. f[i] \in Stops(o)
      BY <1>3, <1>8
    <3>2. i \in Nat /\ m + 1 <= i /\ i <= m + c /\ m + c \in Nat
      BY <1>4, <1>8
    <3> QED BY <1>1, <1>9, <3>1, <3>2
  <2>2. recorded[i] \in Events /\ f[i] - 1 \in DOMAIN file /\ file[f[i] - 1] = End(recorded[i])
    BY <1>1, <1>3, <2>1
  <2>3. f[i] \in Nat /\ f[i] - 1 > o /\ f[i] - 1 + 1 = f[i]
    BY <1>7, <2>1, StopsEnd
  <2>4. LineAt(o, f[i] - 1 + 1) = Body(recorded[i]) /\ Boundary(f[i] - 1 + 1)
    BY <2>2, <2>3, Found
  <2> QED BY <2>2, <2>3, <2>4
<1>11. ASSUME NEW k \in 1 .. c PROVE B.lines[k] = Body(recorded[m + k]) /\ recorded[m + k] \in Events
  <2>1. m + k \in m + 1 .. m + c
    BY <1>4
  <2> QED BY <1>5, <1>10, <2>1
<1>12. Boundary(B.next) /\ At(B.next, m + c)
  <2>1. CASE c = 0
    BY <1>4, <2>1
  <2>2. CASE c # 0
    <3> DEFINE l == m + c
    <3>1. l \in m + 1 .. m + c /\ l \in Nat /\ l \in 1 .. Total
      BY <1>1, <1>4, <1>9, <2>2
    <3>2. B.next = f[l]
      BY <1>4, <2>2
    <3> HIDE DEF l
    <3>3. /\ f[l] \in Nat /\ f[l] - 1 > o /\ f[l] - 1 \in DOMAIN file
          /\ file[f[l] - 1] = End(recorded[l]) /\ Boundary(f[l])
      BY <1>10, <3>1
    <3>4. ASSUME NEW i \in 1 .. Total
          PROVE  i > l <=> \E p \in DOMAIN file : p > f[l] /\ file[p] = End(recorded[i])
      <4>1. ASSUME i > l PROVE \E p \in DOMAIN file : p > f[l] /\ file[p] = End(recorded[i])
        <5>1. i > m
          BY <1>1, <3>1, <4>1
        <5>2. PICK p \in DOMAIN file : p > o /\ file[p] = End(recorded[i])
          BY <5>1 DEF At
        <5>3. f[l] - 1 < p
          BY <3>1, <3>3, <4>1, <5>2 DEF FileSound, InOrder
        <5>4. p # f[l]
          <6>1. CASE f[l] = Len(file) + 1
            BY <1>1, <6>1
          <6>2. CASE f[l] # Len(file) + 1
            <7>1. f[l] \in Stops(o)
              BY <1>3, <1>8, <3>1
            <7>2. file[f[l]] = NL
              BY <1>1, <6>2, <7>1 DEF Stops
            <7>3. End(recorded[i]) # NL
              BY <1>1, Sizes, BytesDiffer DEF End
            <7> QED BY <5>2, <7>2, <7>3
          <6> QED BY <6>1, <6>2
        <5> QED BY <1>1, <3>3, <5>2, <5>3, <5>4
      <4>2. ASSUME NEW p \in DOMAIN file, p > f[l], file[p] = End(recorded[i]) PROVE i > l
        <5>1. f[l] - 1 < p
          BY <1>1, <3>3, <4>2
        <5> QED BY <1>1, <3>1, <3>3, <4>2, <5>1 DEF FileSound, InOrder
      <4> QED BY <4>1, <4>2
    <3>5. At(f[l], l)
      BY <1>1, <3>1, <3>4 DEF At
    <3> QED BY <3>2, <3>3, <3>5 DEF l
  <2> QED BY <2>1, <2>2
<1> QED BY <1>4, <1>5, <1>9, <1>11, <1>12 DEF B

\* The events recorded after those before byte o are ahead of it.
LEMMA AheadOf ==
  ASSUME TInv, FileSound, NEW o \in Nat, Boundary(o), NEW m \in Nat, At(o, m),
         NEW i \in 1 .. Total, i > m
  PROVE  recorded[i] \in Ahead(o)
<1>1. recorded[i] \in Events /\ DOMAIN file = 1 .. Len(file)
  BY FileType
<1>2. PICK p \in DOMAIN file : p > o /\ file[p] = End(recorded[i])
  BY DEF At
<1>3. p + 1 \in Stops(o) /\ LineAt(o, p + 1) = Body(recorded[i])
  BY <1>1, <1>2, Found
<1>4. Body(recorded[i]) \in {LineAt(o, s) : s \in Stops(o)} \cap {Body(e) : e \in Events}
  BY <1>1, <1>3
<1>5. EventOf(Body(recorded[i])) = recorded[i]
  BY <1>1, EventOfBody
<1> QED BY <1>4, <1>5 DEF Ahead

--------------------------------------------------------------------------------
(* What the steps preserve                                                     *)

\* A step that keeps what is known of offsets and of requests.
Steady ==
  /\ \A o \in Nat : (Behind(o) => Behind(o)') /\ (Level(o) => Level(o)')
  /\ \A o \in Nat, r \in Seq(Events) : Ready(r, o) => Ready(r, o)'
  /\ \A r \in Seq(Events) : Resumes(r) => Resumes(r)'

LEMMA PrefixSame ==
  ASSUME UNCHANGED <<recorded, published>>, Prefix
  PROVE  Prefix'
<1>1. PICK k \in 0 .. Total : Received = {recorded[i] : i \in 1 .. k}
  BY DEF Prefix
<1>2. Received' = Received /\ Total' = Total
  BY DEF Received, Total
<1>3. {recorded'[i] : i \in 1 .. k} = {recorded[i] : i \in 1 .. k}
  OBVIOUS
<1>4. Received' = {recorded'[i] : i \in 1 .. k}
  BY <1>1, <1>2, <1>3
<1> QED BY <1>2, <1>4 DEF Prefix

LEMMA FileSame ==
  ASSUME UNCHANGED <<file, writing, recorded>>
  PROVE  /\ FileSound => FileSound'
         /\ \A o \in Nat : Boundary(o) => Boundary(o)'
         /\ \A o \in Nat, m \in Nat : At(o, m) => At(o, m)'
         /\ \A m \in Nat, r \in Seq(Events) : Continues(r, m) => Continues(r, m)'
<1>1. Whole => Whole'
  BY DEF Whole
<1>2. Tip => Tip'
  BY DEF Tip
<1>3. Once => Once'
  BY DEF Once, Total, Recorded
<1>4. InOrder => InOrder'
  BY DEF InOrder, Total
<1>5. \A o \in Nat : Boundary(o) => Boundary(o)'
  BY DEF Boundary
<1>6. \A o \in Nat, m \in Nat : At(o, m) => At(o, m)'
  BY DEF At, Total
<1>7. \A m \in Nat, r \in Seq(Events) : Continues(r, m) => Continues(r, m)'
  BY DEF Continues, Total
<1> QED BY <1>1, <1>2, <1>3, <1>4, <1>5, <1>6, <1>7 DEF FileSound

\* Nothing is written and nothing published.
LEMMA QuietStep ==
  ASSUME UNCHANGED <<file, writing, recorded, published>>, faults' = 0 => faults = 0
  PROVE  /\ Steady
         /\ faults' # 0 => \A o \in Nat : Behind(o) => Level(o)'
         /\ \A o \in Nat : Ready(<<>>, o) => Level(o)'
         /\ \A o \in Nat, r \in Seq(Events) : Ready(r, o) => Resumes(r)'
<1>1. /\ \A o \in Nat : Boundary(o) => Boundary(o)'
      /\ \A o \in Nat, m \in Nat : At(o, m) => At(o, m)'
      /\ \A m \in Nat, r \in Seq(Events) : Continues(r, m) => Continues(r, m)'
  BY FileSame
<1>2. \A m \in Nat : Past(m) => Past(m)'
  BY DEF Past, Total, Received
<1>3. \A m \in Nat : Reached(m) => Reached(m)' /\ Past(m)'
  BY <1>2 DEF Reached
<1>4. \A r \in Seq(Events) : Len(r) \in Nat
  OBVIOUS
<1>5. \A o \in Nat : (Behind(o) => Behind(o)') /\ (Level(o) => Level(o)')
  BY <1>1, <1>2, <1>3 DEF Behind, Level
<1>6. ASSUME NEW o \in Nat, NEW r \in Seq(Events), Ready(r, o)
      PROVE  Ready(r, o)' /\ Resumes(r)'
  <2>1. PICK m \in Nat : Reached(m) /\ Continues(r, m) /\ At(o, m + Len(r))
    BY <1>6 DEF Ready
  <2>2. m + Len(r) \in Nat /\ Boundary(o)
    BY <1>4, <1>6 DEF Ready
  <2>3. Boundary(o)' /\ Reached(m)' /\ Past(m)' /\ Continues(r, m)' /\ At(o, m + Len(r))'
    BY <1>1, <1>3, <2>1, <2>2
  <2> QED BY <2>3 DEF Ready, Resumes
<1>7. \A r \in Seq(Events) : Resumes(r) => Resumes(r)'
  BY <1>1, <1>2 DEF Resumes
<1>8. faults' # 0 => \A o \in Nat : Behind(o) => Level(o)'
  BY <1>1, <1>2 DEF Behind, Level, Reached
<1>9. ASSUME NEW o \in Nat, Ready(<<>>, o) PROVE Level(o)'
  <2>1. PICK m \in Nat : Reached(m) /\ At(o, m + Len(<<>>))
    BY <1>9 DEF Ready
  <2>2. m + Len(<<>>) = m /\ Boundary(o)
    BY <1>9 DEF Ready
  <2>3. Boundary(o)' /\ Reached(m)' /\ At(o, m)'
    BY <1>1, <1>3, <2>1, <2>2
  <2> QED BY <2>3 DEF Level
<1> QED BY <1>5, <1>6, <1>7, <1>8, <1>9 DEF Steady

\* A part of a line is written.
LEMMA WriteStep ==
  ASSUME TInv, FileSound, NEW e \in Events, NEW d \in 0 .. Size[e], NEW k \in d + 1 .. Size[e] + 1,
         Wrote(e, d, k), Writer(e, d), UNCHANGED <<published, faults>>
  PROVE  Steady /\ (Prefix => Prefix') /\ (Exact /\ UNCHANGED <<late, flusher>> => Exact')
<1>1. /\ Total \in Nat /\ Total' = (IF Ends(e, d, k) THEN Total + 1 ELSE Total)
      /\ \A i \in 1 .. Total : recorded'[i] = recorded[i]
  BY NewEnd DEF FileSound
<1>2. Total' \in Nat /\ Total <= Total'
  BY <1>1
<1>3. \A o \in Nat : Boundary(o) => Boundary(o)' /\ \A m \in Nat : At(o, m) => At(o, m)'
  BY StaysAhead
<1>4. \A m \in Nat : Past(m) => Past(m)'
  <2> SUFFICES ASSUME NEW m \in Nat, Past(m) PROVE Past(m)'
    OBVIOUS
  <2>1. m \in 0 .. Total /\ \A i \in 1 .. m : recorded[i] \in Received
    BY DEF Past
  <2>2. \A i \in 1 .. m : recorded'[i] = recorded[i]
    BY <1>1, <2>1
  <2>3. Received' = Received /\ m \in 0 .. Total'
    BY <1>1, <1>2, <2>1 DEF Received
  <2> QED BY <2>1, <2>2, <2>3 DEF Past
<1>5. \A m \in Nat : Reached(m) => Reached(m)'
  BY <1>4 DEF Reached
<1>6. \A m \in Nat, r \in Seq(Events) : Continues(r, m) => Continues(r, m)'
  <2> SUFFICES ASSUME NEW m \in Nat, NEW r \in Seq(Events), Continues(r, m) PROVE Continues(r, m)'
    OBVIOUS
  <2>1. Len(r) \in Nat /\ m + Len(r) <= Total /\ \A j \in 1 .. Len(r) : r[j] = recorded[m + j]
    BY DEF Continues
  <2>2. \A j \in 1 .. Len(r) : m + j \in 1 .. Total
    BY <1>1, <2>1
  <2>3. \A j \in 1 .. Len(r) : r[j] = recorded'[m + j]
    BY <1>1, <2>1, <2>2
  <2>4. m + Len(r) <= Total'
    BY <1>1, <1>2, <2>1
  <2> QED BY <2>3, <2>4 DEF Continues
<1>7. \A o \in Nat : (Behind(o) => Behind(o)') /\ (Level(o) => Level(o)')
  BY <1>3, <1>4, <1>5 DEF Behind, Level
<1>8. ASSUME NEW o \in Nat, NEW r \in Seq(Events), Ready(r, o) PROVE Ready(r, o)'
  <2>1. PICK m \in Nat : Reached(m) /\ Continues(r, m) /\ At(o, m + Len(r))
    BY <1>8 DEF Ready
  <2>2. m + Len(r) \in Nat /\ Boundary(o)
    BY <1>8 DEF Ready
  <2>3. Boundary(o)' /\ Reached(m)' /\ Continues(r, m)' /\ At(o, m + Len(r))'
    BY <1>3, <1>5, <1>6, <2>1, <2>2
  <2> QED BY <2>3 DEF Ready
<1>9. \A r \in Seq(Events) : Resumes(r) => Resumes(r)'
  BY <1>4, <1>6 DEF Resumes
<1>10. Prefix => Prefix'
  <2> SUFFICES ASSUME Prefix PROVE Prefix'
    OBVIOUS
  <2>1. PICK j \in 0 .. Total : Received = {recorded[i] : i \in 1 .. j}
    BY DEF Prefix
  <2>2. \A i \in 1 .. j : recorded'[i] = recorded[i]
    BY <1>1, <2>1
  <2>3. {recorded'[i] : i \in 1 .. j} = {recorded[i] : i \in 1 .. j}
    BY <2>2
  <2>4. Received' = Received /\ j \in 0 .. Total'
    BY <1>1, <1>2, <2>1 DEF Received
  <2> QED BY <2>1, <2>3, <2>4 DEF Prefix
<1>11. Exact /\ UNCHANGED <<late, flusher>> => Exact'
  <2> SUFFICES ASSUME Exact, UNCHANGED <<late, flusher>>, faults = 0 PROVE Exact'
    BY DEF Exact
  <2>1. /\ late = {} /\ flusher # "down" /\ Len(published) <= Total /\ Len(published) \in Nat
        /\ \A i \in 1 .. Len(published) : published[i] = recorded[i]
    BY DEF Exact, TInv
  <2>2. \A i \in 1 .. Len(published) : i \in 1 .. Total
    BY <1>1, <2>1
  <2>3. \A i \in 1 .. Len(published) : published[i] = recorded'[i]
    BY <1>1, <2>1, <2>2
  <2>4. Len(published) <= Total'
    BY <1>1, <1>2, <2>1
  <2> QED BY <2>1, <2>3, <2>4 DEF Exact
<1> QED BY <1>7, <1>8, <1>9, <1>10, <1>11 DEF Steady

\* The server cannot have passed an event it did not get.
LEMMA PastPrefix ==
  ASSUME TInv, Once, NEW m \in Nat, Past(m),
         NEW k \in 0 .. Total, Received = {recorded[i] : i \in 1 .. k}
  PROVE  m <= k
<1>1. Total \in Nat /\ k \in Nat /\ m <= Total
  BY FileType DEF Past
<1>2. CASE m = 0
  BY <1>1, <1>2
<1>3. CASE m # 0
  <2>1. m \in 1 .. m /\ m \in 1 .. Total
    BY <1>1, <1>3
  <2>2. recorded[m] \in Received
    BY <2>1 DEF Past
  <2>3. PICK i \in 1 .. k : recorded[m] = recorded[i]
    BY <2>2
  <2>4. i \in 1 .. Total
    BY <1>1
  <2>5. i = m
    BY <2>1, <2>3, <2>4 DEF Once
  <2> QED BY <1>1, <2>5
<1> QED BY <1>2, <1>3

\* The server publishes the event after the first m.
LEMMA PublishStep ==
  ASSUME TInv, FileSound, Prefix, UNCHANGED <<file, writing, recorded, faults>>,
         NEW m \in Nat, Past(m), m + 1 <= Total, published' = Append(published, recorded[m + 1])
  PROVE  /\ Prefix' /\ Past(m + 1)' /\ (Reached(m) => Reached(m + 1)')
         /\ \A o \in Nat : Behind(o) => Behind(o)'
         /\ \A r \in Seq(Events) : Resumes(r) => Resumes(r)'
         /\ faults # 0 => Steady
<1> DEFINE e == recorded[m + 1]
<1>1. /\ Total \in Nat /\ m + 1 \in 1 .. Total /\ e \in Events /\ e \in Recorded
      /\ published \in Seq(Events) /\ Total' = Total
      /\ \A i, j \in 1 .. Total : recorded[i] = recorded[j] => i = j
  <2>1. m + 1 \in 1 .. Total
    BY FileType
  <2> QED BY <2>1, FileType DEF TInv, Total, FileSound, Once
<1> HIDE DEF e
<1>2. Received' = Received \cup {e} /\ Len(published') = Len(published) + 1 /\ Len(published) \in Nat
  <2>1. published' = Append(published, e)
    BY DEF e
  <2>2. {Append(published, e)[i] : i \in DOMAIN Append(published, e)} = Received \cup {e}
    BY <1>1, PublishedAppend
  <2> QED BY <1>1, <2>1, <2>2 DEF Received
<1>3. \A x \in Nat : Past(x) => Past(x)'
  BY <1>1, <1>2 DEF Past
<1>4. Past(m + 1)'
  <2>1. \A i \in 1 .. m + 1 : i \in 1 .. m \/ i = m + 1
    OBVIOUS
  <2>2. m + 1 \in 0 .. Total
    BY <1>1
  <2> QED BY <1>1, <1>2, <2>1, <2>2 DEF Past, e
<1>5. Reached(m) => Reached(m + 1)'
  BY <1>2, <1>4 DEF Reached
<1>6. /\ \A o \in Nat : Boundary(o) => Boundary(o)'
      /\ \A o \in Nat, x \in Nat : At(o, x) => At(o, x)'
      /\ \A x \in Nat, r \in Seq(Events) : Continues(r, x) => Continues(r, x)'
  BY FileSame
<1>7. \A o \in Nat : Behind(o) => Behind(o)'
  BY <1>3, <1>6 DEF Behind
<1>8. \A r \in Seq(Events) : Resumes(r) => Resumes(r)'
  BY <1>3, <1>6 DEF Resumes
<1>9. Prefix'
  <2>1. PICK k \in 0 .. Total : Received = {recorded[i] : i \in 1 .. k}
    BY DEF Prefix
  <2>2. m <= k
    BY <2>1, PastPrefix DEF FileSound
  <2>3. CASE m < k
    <3>1. m + 1 \in 1 .. k
      BY <2>1, <2>3
    <3>2. e \in Received
      BY <2>1, <3>1 DEF e
    <3> QED BY <1>1, <1>2, <2>1, <3>2 DEF Prefix
  <2>4. CASE m = k
    <3>1. 1 .. m + 1 = (1 .. k) \cup {m + 1}
      BY <2>4
    <3>2. {recorded[i] : i \in 1 .. m + 1} = {recorded[i] : i \in 1 .. k} \cup {e}
      BY <3>1 DEF e
    <3>3. m + 1 \in 0 .. Total
      BY <1>1
    <3>4. {recorded'[i] : i \in 1 .. m + 1} = {recorded[i] : i \in 1 .. m + 1}
      OBVIOUS
    <3>5. Received' = {recorded'[i] : i \in 1 .. m + 1}
      BY <1>2, <2>1, <2>4, <3>2, <3>4
    <3> QED BY <1>1, <3>3, <3>5 DEF Prefix
  <2> QED BY <2>2, <2>3, <2>4
<1>10. faults # 0 => Steady
  <2> SUFFICES ASSUME faults # 0 PROVE Steady
    OBVIOUS
  <2>1. \A x \in Nat : Reached(x) => Reached(x)'
    BY <1>3 DEF Reached
  <2>2. \A o \in Nat : Level(o) => Level(o)'
    BY <1>6, <2>1 DEF Level
  <2>3. ASSUME NEW o \in Nat, NEW r \in Seq(Events), Ready(r, o) PROVE Ready(r, o)'
    <3>1. PICK x \in Nat : Reached(x) /\ Continues(r, x) /\ At(o, x + Len(r))
      BY <2>3 DEF Ready
    <3>2. x + Len(r) \in Nat /\ Boundary(o)
      BY <2>3 DEF Ready
    <3>3. Boundary(o)' /\ Reached(x)' /\ Continues(r, x)' /\ At(o, x + Len(r))'
      BY <1>6, <2>1, <3>1, <3>2
    <3> QED BY <3>3 DEF Ready
  <2> QED BY <1>7, <1>8, <2>2, <2>3 DEF Steady
<1> QED BY <1>4, <1>5, <1>7, <1>8, <1>9, <1>10

LEMMA Offsets ==
  ASSUME TInv
  PROVE  /\ offset \in Nat /\ diskOffset \in Nat /\ Current \in Nat /\ faults \in Nat
         /\ batch # None => batch.next \in Nat
         /\ request # None => request \in Seq(Events) /\ batch # None
         /\ late \subseteq Seq(Events) \ {<<>>}
         /\ batch # None /\ Sendable => Payload \in Seq(Events)
<1>1. offset \in Nat /\ diskOffset \in Nat /\ Current \in Nat /\ faults \in Nat
  BY DEF TInv, TypeOK, Current
<1>2. batch # None => batch.next \in Nat
  BY DEF TInv, Batch
<1>3. Recorded \subseteq Events
  BY DEF TInv, TypeOK
<1>4. /\ request # None => request \in Seq(Events) /\ batch # None
      /\ late \subseteq Seq(Events) \ {<<>>}
  BY <1>3 DEF TInv, OnlyRecorded, TypeOK
<1>5. ASSUME batch # None, Sendable PROVE Payload \in Seq(Events)
  <2>1. Len(batch.lines) \in Nat /\ DOMAIN batch.lines = 1 .. Len(batch.lines)
    BY <1>5 DEF TInv, Batch
  <2>2. \A k \in DOMAIN batch.lines : EventOf(batch.lines[k]) \in Events
    BY <1>5, EventOfBody DEF Sendable, Readable
  <2>3. Payload \in [1 .. Len(batch.lines) -> Events]
    BY <2>1, <2>2 DEF Payload
  <2> QED BY <2>1, <2>3, SeqDef
<1> QED BY <1>1, <1>2, <1>4, <1>5

LEMMA KeepsDisk ==
  ASSUME TInv, Steady, FromDisk, UNCHANGED diskOffset, flusher' # "resetting" => flusher # "resetting"
  PROVE  FromDisk'
<1>1. PICK o \in Nat : o = diskOffset
  BY Offsets
<1>2. flusher # "resetting" => Behind(o)
  BY <1>1 DEF FromDisk
<1>3. flusher' # "resetting" => Behind(o)'
  BY <1>2 DEF Steady
<1>4. diskOffset' = o
  BY <1>1
<1> QED BY <1>3, <1>4 DEF FromDisk

LEMMA KeepsOffset ==
  ASSUME TInv, Steady, FromOffset, Current' = Current, flusher' # "down" => flusher # "down",
         Idle' => Idle
  PROVE  FromOffset'
<1>1. PICK o \in Nat : o = Current
  BY Offsets
<1>2. flusher # "down" => Behind(o) /\ (Idle => Level(o))
  BY <1>1 DEF FromOffset
<1>3. flusher' # "down" => Behind(o)' /\ (Idle' => Level(o)')
  BY <1>2 DEF Steady
<1>4. Current' = o
  BY <1>1
<1> QED BY <1>3, <1>4 DEF FromOffset

\* After a fault, what the server may have got before its time does not count.
LEMMA FaultOffset ==
  ASSUME TInv, Steady, FromOffset, Current' = Current, flusher' # "down" => flusher # "down",
         \A o \in Nat : Behind(o) => Level(o)'
  PROVE  FromOffset'
<1>1. PICK o \in Nat : o = Current
  BY Offsets
<1>2. flusher' # "down" => Behind(o)' /\ Level(o)'
  BY <1>1 DEF FromOffset, Steady
<1>3. Current' = o
  BY <1>1
<1> QED BY <1>2, <1>3 DEF FromOffset

LEMMA KeepsPosting ==
  ASSUME TInv, Steady, Posting, UNCHANGED <<flusher, batch, request>>
  PROVE  Posting'
<1>0. Payload' = Payload /\ (Sendable' <=> Sendable)
  BY DEF Payload, Sendable
<1>1. CASE batch # None
  <2>1. PICK o \in Nat : o = batch.next
    BY <1>1, Offsets
  <2>2. ASSUME flusher = "sending", request = None, Sendable PROVE Ready(Payload, o)'
    <3>1. PICK r \in Seq(Events) : r = Payload
      BY <1>1, <2>2, Offsets
    <3>2. Ready(r, o)
      BY <2>1, <2>2, <3>1 DEF Posting
    <3>3. Ready(r, o)'
      BY <3>2 DEF Steady
    <3>4. Payload' = r
      BY <1>0, <3>1
    <3> QED BY <3>3, <3>4
  <2>3. ASSUME request # None PROVE Ready(request, o)'
    <3>1. PICK r \in Seq(Events) : r = request
      BY <2>3, Offsets
    <3>2. Ready(r, o)
      BY <2>1, <2>3, <3>1 DEF Posting
    <3>3. Ready(r, o)'
      BY <3>2 DEF Steady
    <3> QED BY <3>1, <3>3
  <2>4. ASSUME flusher = "acking" PROVE Ready(<<>>, o)'
    <3>1. <<>> \in Seq(Events)
      OBVIOUS
    <3> QED BY <2>1, <2>4, <3>1 DEF Posting, Steady
  <2>5. batch'.next = o
    BY <2>1
  <2> QED BY <1>0, <2>2, <2>3, <2>4, <2>5 DEF Posting
<1>2. CASE batch = None
  <2>1. flusher \notin {"sending", "acking"} /\ request = None
    BY <1>2 DEF TInv, TypeOK
  <2> QED BY <2>1 DEF Posting
<1> QED BY <1>1, <1>2

LEMMA KeepsAbandoned ==
  ASSUME TInv, Steady, Abandoned, late' \subseteq late
  PROVE  Abandoned'
<1>1. \A r \in late : r \in Seq(Events)
  BY Offsets
<1> QED BY <1>1 DEF Abandoned, Steady

--------------------------------------------------------------------------------
(* Every step keeps a buffer sound that it does not damage                     *)

\* Writes leave the flusher and the server alone.
LEMMA WriteSound ==
  ASSUME TInv, FileSound, SentSound, NEW e \in Events, NEW d \in 0 .. Size[e],
         NEW k \in d + 1 .. Size[e] + 1, Wrote(e, d, k), Writer(e, d), flusher # "compacting",
         UNCHANGED <<offset, diskOffset, flusher, batch, request, late, published, faults>>
  PROVE  FileSound' /\ SentSound'
<1>1. FileSound'
  BY StaysSound
<1>2. Steady /\ Prefix' /\ Exact'
  BY WriteStep DEF SentSound
<1>3. Kept' /\ FromDisk' /\ FromOffset' /\ Posting' /\ Abandoned'
  <2>1. (Idle' => Idle) /\ Current' = Current
    BY DEF Idle, Current
  <2>2. Kept'
    BY <1>2 DEF SentSound, Kept, Steady
  <2> QED BY <1>2, <2>1, <2>2, KeepsDisk, KeepsOffset, KeepsPosting, KeepsAbandoned DEF SentSound
<1>4. Compacting'
  BY DEF Compacting
<1> QED BY <1>1, <1>2, <1>3, <1>4 DEF SentSound

\* A step that neither writes nor publishes.
LEMMA QuietSound ==
  ASSUME TInv, FileSound, SentSound, UNCHANGED <<file, writing, recorded, published>>,
         faults' = 0 => faults = 0
  PROVE  /\ FileSound' /\ Steady /\ Prefix' /\ Kept'
         /\ faults' # 0 => \A o \in Nat : Behind(o) => Level(o)'
         /\ \A o \in Nat : Ready(<<>>, o) => Level(o)'
         /\ \A o \in Nat, r \in Seq(Events) : Ready(r, o) => Resumes(r)'
<1>1. FileSound'
  BY FileSame
<1>2. /\ Steady
      /\ faults' # 0 => \A o \in Nat : Behind(o) => Level(o)'
      /\ \A o \in Nat : Ready(<<>>, o) => Level(o)'
      /\ \A o \in Nat, r \in Seq(Events) : Ready(r, o) => Resumes(r)'
  BY QuietStep
<1>3. Prefix'
  BY PrefixSame DEF SentSound
<1>4. Kept'
  BY <1>2 DEF SentSound, Kept, Steady
<1> QED BY <1>1, <1>2, <1>3, <1>4

\* Requests the agent gives up on are abandoned.
LEMMA AbandonsRequest ==
  ASSUME TInv, SentSound, Steady, late' \in {late, late \cup ({request} \ {None, <<>>})},
         \A o \in Nat, r \in Seq(Events) : Ready(r, o) => Resumes(r)'
  PROVE  Abandoned'
<1>1. \A r \in late : Resumes(r)'
  <2>1. \A r \in late : r \in Seq(Events)
    BY Offsets
  <2> QED BY <2>1 DEF SentSound, Abandoned, Steady
<1>2. ASSUME NEW r, r = request, request # None PROVE Resumes(r)'
  <2>1. r \in Seq(Events) /\ batch.next \in Nat
    BY <1>2, Offsets
  <2>2. PICK o \in Nat : o = batch.next
    BY <2>1
  <2>3. Ready(r, o)
    BY <1>2, <2>2 DEF SentSound, Posting
  <2> QED BY <2>1, <2>3
<1>3. \A r \in late' : r \in late \/ (r = request /\ request # None)
  OBVIOUS
<1>4. \A r \in late' : Resumes(r)'
  BY <1>1, <1>2, <1>3
<1> QED BY <1>4 DEF Abandoned

LEMMA ContinuesTail ==
  ASSUME Total \in Nat, NEW r \in Seq(Events), r # <<>>, NEW m \in Nat, Continues(r, m)
  PROVE  /\ m + 1 <= Total /\ Head(r) = recorded[m + 1] /\ Tail(r) \in Seq(Events)
         /\ Continues(Tail(r), m + 1) /\ m + 1 + Len(Tail(r)) = m + Len(r)
<1>1. /\ Len(r) \in Nat /\ Len(r) >= 1 /\ Head(r) = r[1] /\ Tail(r) \in Seq(Events)
      /\ Len(Tail(r)) = Len(r) - 1 /\ \A j \in 1 .. Len(r) - 1 : Tail(r)[j] = r[j + 1]
  OBVIOUS
<1>2. m + Len(r) <= Total /\ \A j \in 1 .. Len(r) : r[j] = recorded[m + j]
  BY DEF Continues
<1>3. m + 1 <= Total /\ Head(r) = recorded[m + 1] /\ m + 1 + Len(Tail(r)) = m + Len(r)
  <2>1. 1 \in 1 .. Len(r)
    BY <1>1
  <2> QED BY <1>1, <1>2, <2>1
<1>4. ASSUME NEW j \in 1 .. Len(Tail(r)) PROVE Tail(r)[j] = recorded[m + 1 + j]
  <2>1. j \in 1 .. Len(r) - 1 /\ j + 1 \in 1 .. Len(r) /\ m + (j + 1) = m + 1 + j
    BY <1>1
  <2> QED BY <1>1, <1>2, <2>1
<1> QED BY <1>1, <1>2, <1>3, <1>4 DEF Continues

LEMMA PeekStep ==
  ASSUME TInv, FileSound, SentSound, Peek
  PROVE  FileSound' /\ SentSound'
<1>1. /\ flusher = "asleep" /\ flusher' = "sending" /\ batch' = Peeked(offset, BatchSize)
      /\ UNCHANGED <<file, writing, recorded, offset, diskOffset, request, late, published, faults>>
  BY DEF Peek, queue, server
<1>2. FileSound' /\ Steady /\ Prefix' /\ Kept'
  BY <1>1, QuietSound
<1>3. request = None
  BY <1>1 DEF TInv, TypeOK
<1>4. FromDisk' /\ FromOffset' /\ Compacting' /\ Abandoned'
  <2>1. Current' = Current /\ Idle
    BY <1>1 DEF Current, Idle
  <2> QED BY <1>1, <1>2, <2>1, KeepsDisk, KeepsOffset, KeepsAbandoned DEF SentSound, Compacting
<1>5. Exact'
  BY <1>1 DEF SentSound, Exact, Total
<1>6. ASSUME Sendable' PROVE Ready(Payload, batch.next)'
  <2>1. PICK o \in Nat : o = offset
    BY Offsets
  <2>2. Level(o)
    BY <1>1, <2>1 DEF SentSound, FromOffset, Idle, Current
  <2>3. PICK m \in Nat : At(o, m) /\ Reached(m)
    BY <2>2 DEF Level
  <2> DEFINE B == Peeked(o, BatchSize)
             c == Len(B.lines)
  <2>4. batch' = B
    BY <1>1, <2>1
  <2>5. \A k \in DOMAIN B.lines : Readable(B.lines[k])
    BY <1>6, <2>4 DEF Sendable
  <2>6. BatchSize \in Nat \ {0} /\ Boundary(o)
    BY <2>2, BufferAssumption DEF Level
  <2>7. /\ c \in Nat /\ DOMAIN B.lines = 1 .. c /\ m + c <= Total
        /\ \A k \in 1 .. c : B.lines[k] = Body(recorded[m + k]) /\ recorded[m + k] \in Events
        /\ Boundary(B.next) /\ At(B.next, m + c)
    BY <2>3, <2>5, <2>6, PeekSound
  <2>8. B.next \in Nat
    BY FileType, <2>6, PeekedType DEF Batch
  <2> HIDE DEF B, c
  <2> DEFINE r == [k \in 1 .. c |-> EventOf(B.lines[k])]
  <2>9. \A k \in 1 .. c : EventOf(B.lines[k]) = recorded[m + k] /\ recorded[m + k] \in Events
    BY <2>7, EventOfBody
  <2>10. r \in Seq(Events) /\ Len(r) = c /\ \A k \in 1 .. c : r[k] = recorded[m + k]
    <3>1. r \in [1 .. c -> Events]
      BY <2>9
    <3>2. r \in Seq(Events)
      BY <2>7, <3>1, SeqDef
    <3>3. Len(r) = c
      BY <2>7, <3>1, <3>2, LenProperties
    <3> QED BY <2>9, <3>2, <3>3
  <2>11. Payload' = r
    BY <2>4, <2>7 DEF Payload
  <2> HIDE DEF r
  <2>12. Ready(r, B.next)
    BY <2>3, <2>7, <2>10 DEF Ready, Continues
  <2>13. PICK q \in Seq(Events), x \in Nat : q = r /\ x = B.next
    BY <2>8, <2>10
  <2>14. Ready(q, x)
    BY <2>12, <2>13
  <2>15. Ready(q, x)'
    BY <1>2, <2>14 DEF Steady
  <2>16. Payload' = q /\ batch'.next = x
    BY <2>4, <2>11, <2>13
  <2> QED BY <2>15, <2>16
<1>7. Posting'
  BY <1>1, <1>3, <1>6 DEF Posting
<1> QED BY <1>2, <1>4, <1>5, <1>7 DEF SentSound

LEMMA PublishSound ==
  ASSUME TInv, FileSound, SentSound, Publish
  PROVE  FileSound' /\ SentSound'
<1>1. /\ request # None /\ request # <<>>
      /\ published' = Append(published, Head(request)) /\ request' = Tail(request)
      /\ UNCHANGED <<file, writing, recorded, offset, diskOffset, flusher, batch, late, faults>>
  BY DEF Publish, queue
<1>2. flusher = "sending" /\ request \in Seq(Events) /\ batch.next \in Nat /\ request' # None
      /\ published \in Seq(Events)
  <2>1. flusher = "sending" /\ request \in Seq(Events) /\ batch.next \in Nat
    BY <1>1, Offsets DEF TInv, TypeOK
  <2>2. Tail(request) \in Seq(Events)
    BY <1>1, <2>1
  <2> QED BY <1>1, <2>1, <2>2, BufferAssumption DEF TInv
<1>3. PICK r \in Seq(Events), o \in Nat : r = request /\ o = batch.next
  BY <1>2
<1>4. Ready(r, o) /\ Total \in Nat
  BY <1>1, <1>3, FileType DEF SentSound, Posting
<1>5. PICK m \in Nat : Reached(m) /\ Continues(r, m) /\ At(o, m + Len(r))
  BY <1>4 DEF Ready
<1>6. /\ m + 1 <= Total /\ Head(r) = recorded[m + 1] /\ Tail(r) \in Seq(Events)
      /\ Continues(Tail(r), m + 1) /\ m + 1 + Len(Tail(r)) = m + Len(r)
  BY <1>1, <1>3, <1>4, <1>5, ContinuesTail
<1>7. /\ Prefix' /\ Reached(m + 1)'
      /\ \A x \in Nat : Behind(x) => Behind(x)'
      /\ \A q \in Seq(Events) : Resumes(q) => Resumes(q)'
  <2>1. Past(m)
    BY <1>5 DEF Reached
  <2>2. published' = Append(published, recorded[m + 1])
    BY <1>1, <1>3, <1>6
  <2> QED BY <1>1, <1>5, <1>6, <2>1, <2>2, PublishStep DEF SentSound
<1>8. /\ FileSound'
      /\ \A x \in Nat : Boundary(x) => Boundary(x)'
      /\ \A x \in Nat, y \in Nat : At(x, y) => At(x, y)'
      /\ \A y \in Nat, q \in Seq(Events) : Continues(q, y) => Continues(q, y)'
  BY <1>1, FileSame
<1>9. Exact'
  <2> SUFFICES ASSUME faults = 0 PROVE Exact'
    BY <1>1 DEF Exact
  <2>1. m = Len(published) /\ Len(published') = m + 1
    BY <1>1, <1>2, <1>5 DEF Reached
  <2>2. late = {} /\ flusher # "down" /\ \A i \in 1 .. m : published[i] = recorded[i]
    BY <2>1 DEF SentSound, Exact
  <2>3. \A i \in 1 .. m + 1 : published'[i] = recorded[i]
    <3> TAKE i \in 1 .. m + 1
    <3>1. published'[i] = IF i = m + 1 THEN recorded[m + 1] ELSE published[i]
      BY <1>1, <1>2, <1>3, <1>6, <2>1
    <3> QED BY <2>2, <3>1
  <2> QED BY <1>1, <1>6, <2>1, <2>2, <2>3 DEF Exact, Total
<1>10. Kept'
  BY <1>7 DEF SentSound, Kept
<1>11. FromDisk'
  <2>1. PICK x \in Nat : x = diskOffset
    BY Offsets
  <2>2. Behind(x)'
    BY <1>2, <1>7, <2>1 DEF SentSound, FromDisk
  <2> QED BY <1>1, <2>1, <2>2 DEF FromDisk
<1>12. FromOffset'
  <2>1. PICK x \in Nat : x = Current
    BY Offsets
  <2>2. Behind(x)'
    BY <1>2, <1>7, <2>1 DEF SentSound, FromOffset
  <2>3. Current' = x /\ ~Idle'
    BY <1>1, <1>2, <2>1 DEF Current, Idle
  <2> QED BY <2>2, <2>3 DEF FromOffset
<1>13. Compacting'
  BY <1>1, <1>2 DEF Compacting
<1>14. Posting'
  <2>1. Boundary(o) /\ m + Len(r) \in Nat /\ m + 1 \in Nat
    BY <1>4 DEF Ready
  <2>2. Boundary(o)' /\ Reached(m + 1)' /\ Continues(Tail(r), m + 1)' /\ At(o, m + 1 + Len(Tail(r)))'
    BY <1>5, <1>6, <1>7, <1>8, <2>1
  <2>3. Ready(Tail(r), o)'
    BY <2>1, <2>2 DEF Ready
  <2>4. request' = Tail(r) /\ batch'.next = o
    BY <1>1, <1>3
  <2>5. Ready(request, batch.next)'
    BY <2>3, <2>4
  <2> QED BY <1>1, <1>2, <2>5 DEF Posting
<1>15. Abandoned'
  <2>1. \A q \in late : q \in Seq(Events)
    BY Offsets
  <2> QED BY <1>1, <1>7, <2>1 DEF SentSound, Abandoned
<1> QED BY <1>7, <1>8, <1>9, <1>10, <1>11, <1>12, <1>13, <1>14, <1>15 DEF SentSound

LEMMA PublishLateSound ==
  ASSUME TInv, FileSound, SentSound, PublishLate
  PROVE  FileSound' /\ SentSound'
<1>1. PICK r \in late : /\ published' = Append(published, Head(r))
                       /\ late' = (late \ {r}) \cup ({Tail(r)} \ {<<>>})
  BY DEF PublishLate
<1>2. UNCHANGED <<file, writing, recorded, offset, diskOffset, flusher, batch, request, faults>>
  BY DEF PublishLate, queue
<1>3. r \in Seq(Events) /\ r # <<>> /\ faults # 0 /\ Total \in Nat
  BY <1>1, Offsets, FileType DEF SentSound, Exact
<1>4. PICK m \in Nat : Past(m) /\ Continues(r, m)
  BY <1>1 DEF SentSound, Abandoned, Resumes
<1>5. /\ m + 1 <= Total /\ Head(r) = recorded[m + 1] /\ Tail(r) \in Seq(Events)
      /\ Continues(Tail(r), m + 1)
  BY <1>3, <1>4, ContinuesTail
<1>6. Prefix' /\ Past(m + 1)' /\ Steady
  <2>1. published' = Append(published, recorded[m + 1])
    BY <1>1, <1>5
  <2> QED BY <1>2, <1>3, <1>4, <1>5, <2>1, PublishStep DEF SentSound
<1>7. FileSound' /\ \A y \in Nat, q \in Seq(Events) : Continues(q, y) => Continues(q, y)'
  BY <1>2, FileSame
<1>8. Kept' /\ FromDisk' /\ FromOffset' /\ Posting'
  <2>1. (Idle' => Idle) /\ Current' = Current
    BY <1>2 DEF Idle, Current
  <2>2. Kept'
    BY <1>6 DEF SentSound, Kept, Steady
  <2> QED BY <1>2, <1>6, <2>1, <2>2, KeepsDisk, KeepsOffset, KeepsPosting DEF SentSound
<1>9. Abandoned'
  <2>1. \A q \in late : Resumes(q)'
    <3>1. \A q \in late : q \in Seq(Events)
      BY Offsets
    <3> QED BY <1>6, <3>1 DEF SentSound, Abandoned, Steady
  <2>2. Resumes(Tail(r))'
    <3>1. m + 1 \in Nat
      OBVIOUS
    <3>2. Continues(Tail(r), m + 1)'
      BY <1>5, <1>7, <3>1
    <3> QED BY <1>6, <3>1, <3>2 DEF Resumes
  <2>3. \A q \in late' : q \in late \/ q = Tail(r)
    BY <1>1
  <2>4. \A q \in late' : Resumes(q)'
    BY <2>1, <2>2, <2>3
  <2> QED BY <2>4 DEF Abandoned
<1>10. Exact' /\ Compacting'
  BY <1>2, <1>3 DEF SentSound, Exact, Compacting
<1> QED BY <1>6, <1>7, <1>8, <1>9, <1>10 DEF SentSound

LEMMA SendSound ==
  ASSUME TInv, FileSound, SentSound, Send \/ SendRejected \/ SendSucceeds
  PROVE  FileSound' /\ SentSound'
<1>1. /\ flusher = "sending"
      /\ UNCHANGED <<file, writing, recorded, offset, diskOffset, late, published, faults>>
  BY DEF Send, SendRejected, SendSucceeds, queue, server
<1>2. FileSound' /\ Steady /\ Prefix' /\ Kept' /\ \A o \in Nat : Ready(<<>>, o) => Level(o)'
  BY <1>1, QuietSound
<1>3. flusher' \in {"sending", "acking", "asleep"}
  BY <1>1 DEF Send, SendRejected, SendSucceeds
<1>4. Exact' /\ FromDisk' /\ Compacting' /\ Abandoned'
  <2>1. Exact' /\ Compacting'
    BY <1>1, <1>3 DEF SentSound, Exact, Compacting, Total
  <2> QED BY <1>1, <1>2, <1>3, <2>1, KeepsDisk, KeepsAbandoned DEF SentSound
<1>5. batch # None
  BY <1>1 DEF TInv, TypeOK
<1>6. CASE Send
  <2>1. /\ request = None /\ Sendable /\ request' = Payload /\ UNCHANGED <<flusher, batch>>
    BY <1>6 DEF Send, Payload
  <2>2. PICK r \in Seq(Events), o \in Nat : r = Payload /\ o = batch.next
    BY <1>5, <2>1, Offsets
  <2>3. Ready(r, o)
    BY <1>1, <2>1, <2>2 DEF SentSound, Posting
  <2>4. Ready(r, o)'
    BY <1>2, <2>3 DEF Steady
  <2>5. request' = r /\ batch'.next = o /\ request' # None
    BY <2>1, <2>2, BufferAssumption
  <2>6. Posting'
    BY <1>1, <2>1, <2>4, <2>5 DEF Posting
  <2>7. ~Idle' /\ Current' = Current
    BY <1>1, <2>1, <2>5 DEF Idle, Current
  <2> QED BY <1>1, <1>2, <1>4, <2>1, <2>6, <2>7, KeepsOffset DEF SentSound
<1>7. CASE SendRejected
  <2>1. request = None /\ request' = None /\ flusher' = "asleep"
    BY <1>7 DEF SendRejected, server, TInv, OnlyRecorded
  <2>2. Posting'
    BY <2>1 DEF Posting
  <2>3. Idle /\ Current' = Current
    BY <1>1, <2>1 DEF Idle, Current
  <2> QED BY <1>1, <1>2, <1>4, <2>1, <2>2, <2>3, KeepsOffset DEF SentSound
<1>8. CASE SendSucceeds
  <2>1. request = <<>> /\ request' = None /\ flusher' = "acking" /\ batch' = batch
    BY <1>8 DEF SendSucceeds
  <2>a. <<>> \in Seq(Events)
    OBVIOUS
  <2>2. <<>> \in Seq(Events) /\ request # None
    BY <2>1, <2>a, BufferAssumption
  <2>3. PICK o \in Nat : o = batch.next
    BY <1>5, Offsets
  <2>4. Ready(<<>>, o)
    BY <2>1, <2>2, <2>3 DEF SentSound, Posting
  <2>5. Ready(<<>>, o)'
    BY <1>2, <2>2, <2>4 DEF Steady
  <2>6. batch'.next = o
    BY <2>1, <2>3
  <2>7. Posting'
    BY <2>1, <2>5, <2>6 DEF Posting
  <2>8. ~Idle' /\ Current' = Current
    BY <1>1, <2>1 DEF Idle, Current
  <2> QED BY <1>1, <1>2, <1>4, <2>1, <2>7, <2>8, KeepsOffset DEF SentSound
<1> QED BY <1>6, <1>7, <1>8

\* A fault: a failed post, a failed write of the offset, the end of the daemon.
LEMMA FaultSound ==
  ASSUME TInv, FileSound, SentSound, SendFails \/ SaveOffsetFails \/ Crash, ~damaged'
  PROVE  FileSound' /\ SentSound'
<1>1. /\ faults' # 0
      /\ UNCHANGED <<file, writing, recorded, offset, diskOffset, published>>
  <2>1. faults' = faults + 1 /\ UNCHANGED <<file, writing, recorded, offset, diskOffset, published>>
    BY DEF SendFails, SaveOffsetFails, Crash, queue, server
  <2> QED BY <2>1, Offsets
<1>2. /\ flusher' \in {"down", "asleep"} /\ flusher # "resetting" /\ request' = None
      /\ flusher' = "asleep" => flusher # "down"
      /\ late' \in {late, late \cup ({request} \ {None, <<>>})}
  <2>1. CASE SendFails
    BY <2>1 DEF SendFails
  <2>2. CASE SaveOffsetFails
    BY <2>2 DEF SaveOffsetFails, server, TInv, TypeOK
  <2>3. CASE Crash
    BY <2>3 DEF Crash
  <2> QED BY <2>1, <2>2, <2>3
<1>3. /\ FileSound' /\ Steady /\ Prefix' /\ Kept'
      /\ \A o \in Nat : Behind(o) => Level(o)'
      /\ \A o \in Nat, r \in Seq(Events) : Ready(r, o) => Resumes(r)'
  BY <1>1, QuietSound
<1>4. Current' = Current
  BY <1>1, <1>2 DEF Current
<1>5. FromDisk' /\ FromOffset' /\ Abandoned'
  BY <1>1, <1>2, <1>3, <1>4, KeepsDisk, FaultOffset, AbandonsRequest DEF SentSound
<1>6. Exact' /\ Compacting' /\ Posting'
  BY <1>1, <1>2 DEF Exact, Compacting, Posting
<1> QED BY <1>3, <1>5, <1>6 DEF SentSound

LEMMA AckSound ==
  ASSUME TInv, FileSound, SentSound, BeginAck \/ SaveOffset \/ ResetOffset \/ Restart
  PROVE  FileSound' /\ SentSound'
<1>1. UNCHANGED <<file, writing, recorded, late, request, published, faults>>
  BY DEF BeginAck, SaveOffset, ResetOffset, Restart, queue, server
<1>2. FileSound' /\ Steady /\ Prefix' /\ Kept' /\ \A o \in Nat : Ready(<<>>, o) => Level(o)'
  BY <1>1, QuietSound
<1>3. request = None /\ flusher' \in {"saving", "compacting", "asleep"}
  BY DEF BeginAck, SaveOffset, ResetOffset, Restart, TInv, TypeOK
<1>4. Posting' /\ Abandoned'
  BY <1>1, <1>2, <1>3, KeepsAbandoned DEF SentSound, Posting
<1>5. ASSUME NEW o \in Nat, Level(o) PROVE Behind(o)
  BY <1>5 DEF Level, Behind, Reached
<1>6. CASE BeginAck
  <2>1. flusher = "acking" /\ flusher' = "saving" /\ offset' = batch.next /\ diskOffset' = 0
    BY <1>6 DEF BeginAck
  <2>2. PICK o \in Nat : o = batch.next
    BY <2>1, Offsets DEF TInv, TypeOK
  <2>3. Level(o)' /\ Behind(o)'
    <3>1. Ready(<<>>, o)
      BY <2>1, <2>2 DEF SentSound, Posting
    <3>2. Level(o)'
      BY <1>2, <3>1
    <3> QED BY <3>2 DEF Level, Behind, Reached
  <2>4. Current' = o
    BY <2>1, <2>2 DEF Current
  <2>5. FromOffset'
    BY <2>3, <2>4 DEF FromOffset
  <2>6. FromDisk'
    BY <1>2, <2>1 DEF FromDisk, Kept
  <2>7. Exact' /\ Compacting'
    BY <1>1, <2>1 DEF SentSound, Exact, Compacting, Total
  <2> QED BY <1>2, <1>4, <2>5, <2>6, <2>7 DEF SentSound
<1>7. CASE SaveOffset
  <2>1. flusher = "saving" /\ diskOffset' = offset /\ offset' = offset
        /\ flusher' = (IF Len(file) = offset /\ Len(file) > CompactSize THEN "compacting" ELSE "asleep")
    BY <1>7 DEF SaveOffset
  <2>2. PICK o \in Nat : o = offset
    BY Offsets
  <2>3. Level(o) /\ Behind(o)
    BY <2>1, <2>2 DEF SentSound, FromOffset, Current, Idle
  <2>4. Level(o)' /\ Behind(o)'
    BY <1>2, <2>3 DEF Steady
  <2>5. Current' = o /\ diskOffset' = o /\ flusher' # "resetting"
    BY <2>1, <2>2 DEF Current
  <2>6. FromOffset' /\ FromDisk'
    BY <2>4, <2>5 DEF FromOffset, FromDisk
  <2>7. Compacting'
    <3> SUFFICES ASSUME flusher' = "compacting" PROVE writing' = None /\ offset' = Len(file')
      BY DEF Compacting
    <3>1. Len(file) = offset /\ Len(file) > CompactSize
      BY <2>1
    <3>2. Len(file) \in Nat /\ CompactSize \in Nat /\ DOMAIN file = 1 .. Len(file)
      BY FileType, BufferAssumption
    <3>3. offset # 0 /\ offset # Len(file) + 1
      BY <3>1, <3>2
    <3>4. file # <<>> /\ file[Len(file)] = NL
      BY <2>2, <2>3, <3>1, <3>2, <3>3 DEF Level, Boundary
    <3>5. writing = None
      <4> SUFFICES ASSUME writing # None PROVE FALSE
        OBVIOUS
      <4>1. writing.event \in Events /\ writing.done \in Nat
        BY DEF TInv, Write
      <4>2. file[Len(file)] = <<writing.event, writing.done>>
        BY DEF FileSound, Tip
      <4> QED BY <3>4, <4>1, <4>2, BytesDiffer
    <3> QED BY <1>1, <2>1, <3>1, <3>5
  <2>8. Exact'
    BY <1>1, <1>3 DEF SentSound, Exact, Total
  <2> QED BY <1>2, <1>4, <2>6, <2>7, <2>8 DEF SentSound
<1>8. CASE ResetOffset
  <2>1. flusher = "resetting" /\ flusher' = "asleep" /\ offset' = 0 /\ diskOffset' = 0
    BY <1>8 DEF ResetOffset
  <2>2. Level(0)
    BY <2>1 DEF SentSound, FromOffset, Current, Idle
  <2>3. Level(0)' /\ Behind(0)'
    BY <1>2, <1>5, <2>2 DEF Steady
  <2>4. Current' = 0
    BY <2>1 DEF Current
  <2>5. FromOffset' /\ FromDisk'
    BY <2>1, <2>3, <2>4 DEF FromOffset, FromDisk
  <2>6. Exact' /\ Compacting'
    BY <1>1, <2>1 DEF SentSound, Exact, Compacting, Total
  <2> QED BY <1>2, <1>4, <2>5, <2>6 DEF SentSound
<1>9. CASE Restart
  <2>1. flusher = "down" /\ flusher' = "asleep" /\ offset' = diskOffset /\ diskOffset' = diskOffset
    BY <1>9 DEF Restart
  <2>2. faults # 0
    BY <2>1 DEF SentSound, Exact
  <2>3. PICK o \in Nat : o = diskOffset
    BY Offsets
  <2>4. Behind(o)
    BY <2>1, <2>3 DEF SentSound, FromDisk
  <2>5. Level(o)
    BY <2>2, <2>4 DEF Behind, Level, Reached
  <2>6. Level(o)' /\ Behind(o)'
    BY <1>2, <2>4, <2>5 DEF Steady
  <2>7. Current' = o /\ diskOffset' = o
    BY <2>1, <2>3 DEF Current
  <2>8. FromOffset' /\ FromDisk'
    BY <2>6, <2>7 DEF FromOffset, FromDisk
  <2>9. Exact' /\ Compacting'
    BY <1>1, <2>1, <2>2 DEF SentSound, Exact, Compacting, Total
  <2> QED BY <1>2, <1>4, <2>8, <2>9 DEF SentSound
<1> QED BY <1>6, <1>7, <1>8, <1>9

\* All that was recorded was sent before the file is truncated.
LEMMA TruncateSound ==
  ASSUME TInv, FileSound, SentSound, Truncate
  PROVE  FileSound' /\ SentSound'
<1>1. /\ flusher = "compacting" /\ flusher' = "resetting" /\ writing = None /\ file' = <<>>
      /\ UNCHANGED <<writing, recorded, offset, diskOffset, batch, request, late, published, faults>>
  BY DEF Truncate, server
<1>2. DOMAIN file' = {} /\ offset = Len(file) /\ Total \in Nat /\ Total' = Total
      /\ Len(file) \in Nat /\ DOMAIN file = 1 .. Len(file)
  BY <1>1, FileType DEF SentSound, Compacting, Total
<1>3. FileSound'
  <2>1. Whole' /\ Tip' /\ InOrder'
    BY <1>1, <1>2 DEF Whole, Tip, InOrder
  <2>2. Once'
    BY <1>1, <1>2 DEF FileSound, Once, Recorded
  <2> QED BY <2>1, <2>2 DEF FileSound
<1>4. PICK m \in Nat : At(offset, m) /\ Reached(m)
  BY <1>1 DEF SentSound, FromOffset, Current, Idle, Level
<1>5. m = Total
  <2>1. ~(\E p \in DOMAIN file : p > offset)
    BY <1>2
  <2>2. Total # 0 => Total \in 1 .. Total
    BY <1>2
  <2> QED BY <1>2, <1>4, <2>1, <2>2 DEF At
<1>6. Reached(Total)' /\ Past(Total)'
  <2>1. Reached(m)' /\ Past(m)'
    BY <1>1, <1>2, <1>4 DEF Reached, Past, Received
  <2> QED BY <1>2, <1>5, <2>1
<1>7. At(0, Total)' /\ Boundary(0)'
  BY <1>2 DEF At, Boundary
<1>8. Behind(0)' /\ Level(0)'
  <2>1. PICK x \in Nat : x = Total'
    BY <1>2
  <2>2. At(0, x)' /\ Reached(x)' /\ Past(x)'
    BY <1>6, <1>7, <2>1
  <2> QED BY <1>7, <2>2 DEF Behind, Level
<1>9. Kept' /\ FromDisk' /\ FromOffset' /\ Compacting'
  BY <1>1, <1>8 DEF Kept, FromDisk, FromOffset, Current, Compacting
<1>10. Prefix' /\ Exact'
  BY <1>1, <1>2, PrefixSame DEF SentSound, Exact
<1>11. Posting'
  <2>1. request = None
    BY <1>1 DEF TInv, TypeOK
  <2> QED BY <1>1, <2>1 DEF Posting
<1>12. Abandoned'
  <2>1. \A x \in Nat : Past(x) => Past(x)'
    BY <1>1, <1>2 DEF Past, Received
  <2>2. \A x \in Nat, r \in late : Continues(r, x) => Continues(r, x)'
    BY <1>1, <1>2 DEF Continues
  <2>3. \A r \in late : Resumes(r)'
    BY <2>1, <2>2 DEF SentSound, Abandoned, Resumes
  <2> QED BY <1>1, <2>3 DEF Abandoned
<1> QED BY <1>3, <1>9, <1>10, <1>11, <1>12 DEF SentSound

LEMMA InitSound ==
  ASSUME Init
  PROVE  Sound
<1>1. TInv /\ file = <<>> /\ recorded = <<>> /\ published = <<>> /\ faults = 0
  BY InitTypes DEF Init
<1>2. DOMAIN file = {} /\ Total = 0 /\ Received = {} /\ Recorded = {}
  BY <1>1 DEF Total, Received, Recorded
<1>3. FileSound
  <2>1. Whole /\ Tip /\ InOrder
    BY <1>1, <1>2 DEF Init, Whole, Tip, InOrder
  <2>2. Once
    BY <1>2 DEF Init, Once
  <2> QED BY <2>1, <2>2 DEF FileSound
<1>4. Boundary(0) /\ At(0, 0) /\ Past(0) /\ Reached(0)
  BY <1>1, <1>2 DEF Boundary, At, Past, Reached
<1>5. Behind(0) /\ Level(0)
  BY <1>4 DEF Behind, Level
<1>6. Kept /\ FromDisk /\ FromOffset
  BY <1>5 DEF Init, Kept, FromDisk, FromOffset, Current
<1>7. Prefix
  <2>1. {recorded[i] : i \in 1 .. 0} = {}
    OBVIOUS
  <2>2. 0 \in 0 .. Total
    BY <1>2
  <2> QED BY <1>2, <2>1, <2>2 DEF Prefix
<1>8. Exact /\ Compacting /\ Posting /\ Abandoned
  BY <1>1, <1>2 DEF Init, Exact, Compacting, Posting, Abandoned
<1> QED BY <1>3, <1>6, <1>7, <1>8 DEF Sound, SentSound

LEMMA NextSound ==
  ASSUME TInv, Sound, [Next]_vars
  PROVE  Sound'
<1> SUFFICES ASSUME ~damaged' PROVE FileSound' /\ SentSound'
  BY DEF Sound
<1>1. ASSUME ~damaged PROVE FileSound /\ SentSound
  BY <1>1 DEF Sound
<1>2. ASSUME NEW e \in Events, StartPush(e) PROVE FileSound' /\ SentSound'
  <2>1. /\ writing = None /\ e \notin started /\ ~damaged /\ flusher # "compacting"
        /\ UNCHANGED <<offset, diskOffset, flusher, batch, request, late, published, faults>>
    BY <1>2 DEF StartPush, server
  <2>2. PICK k \in 1 .. Size[e] + 1 :
          /\ file' = file \o SubSeq(Line(e), 1, k)
          /\ writing' = IF k = Size[e] + 1 THEN None ELSE [event |-> e, done |-> k]
          /\ recorded' = IF k >= Size[e] THEN Append(recorded, e) ELSE recorded
    BY <1>2 DEF StartPush
  <2>3. 0 + 1 = 1 /\ 0 < Size[e] /\ Size[e] \in Nat /\ 0 \in 0 .. Size[e]
    BY Sizes
  <2>4. Wrote(e, 0, k)
    BY <2>2, <2>3 DEF Wrote
  <2>5. Writer(e, 0)
    BY <2>1 DEF Writer, TInv, TypeOK
  <2>6. k \in 0 + 1 .. Size[e] + 1
    BY <2>3
  <2> QED BY <1>1, <2>1, <2>3, <2>4, <2>5, <2>6, WriteSound
<1>3. CASE FinishPush
  <2>1. /\ writing # None /\ ~damaged
        /\ UNCHANGED <<offset, diskOffset, flusher, batch, request, late, published, faults>>
    BY <1>3 DEF FinishPush, server
  <2>2. PICK e \in Events, d \in Nat : e = writing.event /\ d = writing.done
    BY <2>1 DEF TInv, Write
  <2>3. Size[e] \in Nat /\ d \in 1 .. Size[e]
    BY <2>1, <2>2, Sizes DEF TInv, TypeOK
  <2>4. Wrote(e, d, Size[e] + 1)
    BY <1>3, <2>2, <2>3 DEF FinishPush, Wrote
  <2>5. Writer(e, d) /\ d \in 0 .. Size[e] /\ Size[e] + 1 \in d + 1 .. Size[e] + 1
    BY <2>1, <2>2, <2>3 DEF Writer
  <2>6. flusher # "compacting"
    BY <1>1, <2>1 DEF SentSound, Compacting
  <2> QED BY <1>1, <2>1, <2>4, <2>5, <2>6, WriteSound
<1>4. CASE TearPush
  BY <1>4 DEF TearPush
<1>5. CASE Peek
  BY <1>1, <1>5, PeekStep DEF Peek
<1>6. CASE UNCHANGED vars
  <2>1. /\ UNCHANGED <<file, writing, recorded, offset, diskOffset, flusher, batch, request, late,
                       published, damaged, faults>>
    BY <1>6 DEF vars
  <2>2. FileSound' /\ Steady /\ Prefix' /\ Kept'
    BY <1>1, <2>1, QuietSound
  <2>3. (Idle' => Idle) /\ Current' = Current
    BY <2>1 DEF Idle, Current
  <2>4. FromDisk' /\ FromOffset' /\ Posting' /\ Abandoned'
    BY <1>1, <2>1, <2>2, <2>3, KeepsDisk, KeepsOffset, KeepsPosting, KeepsAbandoned DEF SentSound
  <2>5. Exact' /\ Compacting'
    BY <1>1, <2>1 DEF SentSound, Exact, Compacting, Total
  <2> QED BY <2>2, <2>4, <2>5 DEF SentSound
<1>7. CASE PeekNothing
  BY <1>6, <1>7 DEF PeekNothing
<1>8. CASE Send \/ SendRejected \/ SendSucceeds
  BY <1>1, <1>8, SendSound DEF Send, SendRejected, SendSucceeds
<1>9. CASE Publish
  BY <1>1, <1>9, PublishSound DEF Publish
<1>10. CASE PublishLate
  BY <1>1, <1>10, PublishLateSound DEF PublishLate
<1>11. CASE SendFails \/ SaveOffsetFails \/ Crash
  <2>1. ~damaged
    BY <1>11 DEF SendFails, SaveOffsetFails, Crash
  <2>2. Crash => MutexFree /\ flusher # "resetting" /\ writing' = writing
    BY DEF Crash
  <2> QED BY <1>1, <1>11, <2>1, FaultSound
<1>12. CASE BeginAck \/ SaveOffset \/ ResetOffset \/ Restart
  BY <1>1, <1>12, AckSound DEF BeginAck, SaveOffset, ResetOffset, Restart
<1>13. CASE Truncate
  BY <1>1, <1>13, TruncateSound DEF Truncate
<1> QED BY <1>2, <1>3, <1>4, <1>5, <1>6, <1>7, <1>8, <1>9, <1>10, <1>11, <1>12, <1>13 DEF Next

LEMMA Invariant == Spec => []IInv
<1>1. Init => IInv
  BY InitTypes, InitSound DEF IInv
<1>2. IInv /\ [Next]_vars => IInv'
  BY NextTypes, NextSound DEF IInv
<1> QED BY <1>1, <1>2, PTL DEF Spec

--------------------------------------------------------------------------------
(* What the buffer promises                                                    *)

\* Whatever is recorded and not yet published is still ahead of the offset in memory, and of
\* the offset on disk from which a restart goes on.
THEOREM NothingIsSkipped == Spec => []NothingSkipped
<1>1. IInv => NothingSkipped
  <2> SUFFICES ASSUME IInv, ~damaged PROVE NothingLost
    BY DEF NothingSkipped
  <2>1. TInv /\ FileSound /\ SentSound
    BY DEF IInv, Sound
  <2>2. ASSUME NEW o \in Nat, Behind(o), NEW e \in Recorded \ Received PROVE e \in Ahead(o)
    <3>1. PICK m \in Nat : At(o, m) /\ Past(m)
      BY <2>2 DEF Behind
    <3>2. PICK i \in 1 .. Total : e = recorded[i]
      BY <2>1, FileType
    <3>3. i > m
      <4> SUFFICES ASSUME ~(i > m) PROVE FALSE
        OBVIOUS
      <4>1. i \in 1 .. m
        BY <2>1, FileType
      <4> QED BY <3>1, <3>2, <4>1 DEF Past
    <3> QED BY <2>1, <2>2, <3>1, <3>2, <3>3, AheadOf DEF Behind
  <2>3. ASSUME NEW e \in Recorded \ Received
        PROVE IF flusher = "resetting" THEN e \in Ahead(0)
              ELSE /\ flusher # "down" => e \in Ahead(offset)
                   /\ e \in Ahead(diskOffset)
    <3>1. offset \in Nat /\ diskOffset \in Nat
      BY <2>1, Offsets
    <3>2. e \in Ahead(0)
      BY <2>1, <2>2 DEF SentSound, Kept
    <3>3. flusher # "resetting" => e \in Ahead(diskOffset)
      BY <2>1, <2>2, <3>1 DEF SentSound, FromDisk
    <3>4. flusher # "resetting" /\ flusher # "down" => e \in Ahead(offset)
      BY <2>1, <2>2, <3>1 DEF SentSound, FromOffset, Current
    <3> QED BY <3>2, <3>3, <3>4
  <2> QED BY <2>3 DEF NothingLost
<1> QED BY <1>1, Invariant, PTL

\* As long as nothing fails, the server publishes no event twice.
THEOREM SentOnce == Spec => []ResentOnlyAfterFault
<1>1. IInv => ResentOnlyAfterFault
  <2> SUFFICES ASSUME IInv, faults = 0, ~damaged PROVE Cardinality(Received) = Len(published)
    BY DEF ResentOnlyAfterFault
  <2> DEFINE n == Len(published)
             D == 1 .. n
  <2>1. /\ n \in Nat /\ DOMAIN published = D /\ n <= Total /\ Total \in Nat
        /\ \A i \in D : published[i] = recorded[i]
        /\ \A i, j \in 1 .. Total : recorded[i] = recorded[j] => i = j
    <3>1. TInv /\ FileSound /\ SentSound
      BY DEF IInv, Sound
    <3>2. published \in Seq(Events) /\ Total \in Nat
      BY <3>1, FileType DEF TInv
    <3> QED BY <3>1, <3>2 DEF SentSound, Exact, FileSound, Once
  <2>2. \A i \in D : i \in 1 .. Total
    BY <2>1
  <2>3. IsFiniteSet(D) /\ Cardinality(D) = n
    <3>1. n \in Int /\ 1 \in Int /\ (1 > n => n = 0) /\ n - 1 + 1 = n
      BY <2>1
    <3> HIDE DEF n
    <3> QED BY <3>1, FS_Interval
  <2> HIDE DEF D, n
  <2> DEFINE g == [i \in D |-> published[i]]
  <2>4. g \in Bijection(D, Received)
    <3>1. \A i \in D : g[i] = published[i] /\ g[i] \in Received
      BY <2>1 DEF Received
    <3>2. g \in [D -> Received] /\ IsInjective(g)
      BY <2>1, <2>2, <3>1 DEF IsInjective
    <3>3. \A t \in Received : \E i \in D : g[i] = t
      BY <2>1, <3>1 DEF Received
    <3> QED BY <3>2, <3>3 DEF Bijection, Injection, Surjection
  <2>5. ExistsBijection(D, Received)
    BY <2>4 DEF ExistsBijection
  <2>6. Cardinality(Received) = Cardinality(D)
    BY <2>3, <2>5, FS_Bijection
  <2> QED BY <2>3, <2>6 DEF n
<1> QED BY <1>1, Invariant, PTL

--------------------------------------------------------------------------------
(* The buffer is a queue                                                       *)

Stutter == UNCHANGED <<recorded, Received, damaged>>

\* An event is recorded.
LEMMA RecordStep ==
  ASSUME TInv, FileSound, NEW e \in Events, NEW d \in 0 .. Size[e], NEW k \in d + 1 .. Size[e] + 1,
         Wrote(e, d, k), Writer(e, d), ~damaged, UNCHANGED <<published, damaged>>
  PROVE  Queue!Record \/ Stutter
<1>1. Received' = Received
  BY DEF Received
<1>2. CASE ~(d < Size[e] /\ k >= Size[e])
  BY <1>1, <1>2 DEF Wrote, Stutter
<1>3. CASE d < Size[e] /\ k >= Size[e]
  <2>1. recorded' = Append(recorded, e)
    BY <1>3 DEF Wrote
  <2>2. e \notin Recorded
    BY <1>3 DEF Writer, FileSound, Once
  <2>3. Recorded = Queue!FirstOf(Len(recorded), recorded)
    BY DEF TInv, Recorded, Queue!FirstOf
  <2>4. e \in Events \ Queue!FirstOf(Len(recorded), recorded)
    BY <2>2, <2>3
  <2> QED BY <1>1, <2>1, <2>4 DEF Queue!Record
<1> QED BY <1>2, <1>3

\* The event after the first m is published: it is new to the server, or not.
LEMMA ReceiveStep ==
  ASSUME TInv, FileSound, Prefix, ~damaged, UNCHANGED <<recorded, damaged>>,
         NEW m \in Nat, Past(m), m + 1 <= Total, published' = Append(published, recorded[m + 1])
  PROVE  Queue!Receive \/ Stutter
<1>1. Total \in Nat /\ m + 1 \in 1 .. Total /\ recorded[m + 1] \in Events /\ published \in Seq(Events)
  BY FileType DEF TInv
<1>2. Received' = Received \cup {recorded[m + 1]}
  BY <1>1, PublishedAppend DEF Received
<1>3. PICK k \in 0 .. Total : Received = {recorded[i] : i \in 1 .. k}
  BY DEF Prefix
<1>a. m <= k
  BY <1>3, PastPrefix DEF FileSound
<1>4. m <= k /\ k \in Nat
  BY <1>1, <1>a
<1>5. CASE m < k
  <2>1. m + 1 \in 1 .. k
    BY <1>4, <1>5
  <2>2. recorded[m + 1] \in Received
    BY <1>3, <2>1
  <2> QED BY <1>2, <2>2 DEF Stutter
<1>6. CASE m = k
  <2>1. 1 .. m + 1 = (1 .. k) \cup {m + 1}
    BY <1>6
  <2>2. Received' = {recorded[i] : i \in 1 .. m + 1}
    BY <1>2, <1>3, <2>1
  <2>3. m + 1 \in 1 .. Len(recorded) /\ m + 1 - 1 = k
    BY <1>1, <1>6 DEF Total
  <2>4. Received = Queue!FirstOf(m + 1 - 1, recorded) /\ Received' = Queue!FirstOf(m + 1, recorded)
    BY <1>3, <2>2, <2>3 DEF Queue!FirstOf
  <2> QED BY <2>3, <2>4 DEF Queue!Receive
<1> QED BY <1>4, <1>5, <1>6

LEMMA QueueStep ==
  ASSUME IInv, TInv', [Next]_vars
  PROVE  Queue!Next \/ Stutter
<1> SUFFICES ASSUME ~damaged' PROVE Queue!Next \/ Stutter
  <2>1. ASSUME damaged' PROVE Queue!Break
    <3>1. recorded' \in Seq(Events) /\ Received' \subseteq Events
      BY DEF TInv, TypeOK
    <3> QED BY <2>1, <3>1 DEF Queue!Break
  <2> QED BY <2>1 DEF Queue!Next
<1>1. TInv
  BY DEF IInv
<1>2. ASSUME ~damaged PROVE FileSound /\ SentSound
  BY <1>2 DEF IInv, Sound
<1>3. ASSUME NEW e \in Events, StartPush(e) PROVE Queue!Record \/ Stutter
  <2>a. writing = None /\ e \notin started /\ ~damaged /\ UNCHANGED published
    BY <1>3 DEF StartPush, server
  <2>1. writing = None /\ e \notin started /\ ~damaged /\ UNCHANGED <<published, damaged>>
    BY <1>1, <2>a DEF TInv, TypeOK
  <2>2. PICK k \in 1 .. Size[e] + 1 :
          /\ file' = file \o SubSeq(Line(e), 1, k)
          /\ writing' = IF k = Size[e] + 1 THEN None ELSE [event |-> e, done |-> k]
          /\ recorded' = IF k >= Size[e] THEN Append(recorded, e) ELSE recorded
    BY <1>3 DEF StartPush
  <2>3. 0 + 1 = 1 /\ 0 < Size[e] /\ 0 \in 0 .. Size[e] /\ k \in 0 + 1 .. Size[e] + 1
    BY Sizes
  <2>4. Wrote(e, 0, k)
    BY <2>2, <2>3 DEF Wrote
  <2>5. Writer(e, 0)
    BY <1>1, <2>1 DEF Writer, TInv, TypeOK
  <2> QED BY <1>1, <1>2, <2>1, <2>3, <2>4, <2>5, RecordStep
<1>4. CASE FinishPush
  <2>1. writing # None /\ ~damaged /\ UNCHANGED <<published, damaged>>
    BY <1>4 DEF FinishPush, server
  <2>2. PICK e \in Events, d \in Nat : e = writing.event /\ d = writing.done
    BY <1>1, <2>1 DEF TInv, Write
  <2>3. Size[e] \in Nat /\ d \in 1 .. Size[e]
    BY <1>1, <2>1, <2>2, Sizes DEF TInv, TypeOK
  <2>4. Wrote(e, d, Size[e] + 1)
    BY <1>4, <2>2, <2>3 DEF FinishPush, Wrote
  <2>5. Writer(e, d) /\ d \in 0 .. Size[e] /\ Size[e] + 1 \in d + 1 .. Size[e] + 1
    BY <2>1, <2>2, <2>3 DEF Writer
  <2>6. Queue!Record \/ Stutter
    BY <1>1, <1>2, <2>1, <2>4, <2>5, RecordStep
  <2> QED BY <2>6 DEF Queue!Next
<1>5. CASE Publish
  <2>1. /\ request # None /\ request # <<>> /\ published' = Append(published, Head(request))
        /\ ~damaged /\ UNCHANGED <<recorded, damaged>>
    BY <1>5 DEF Publish, queue
  <2>2. PICK r \in Seq(Events), o \in Nat : r = request /\ o = batch.next
    <3>1. flusher = "sending" /\ request \in Seq(Events) /\ batch.next \in Nat
      BY <1>1, <2>1, Offsets DEF TInv, TypeOK
    <3> QED BY <3>1
  <2>3. FileSound /\ Prefix /\ Ready(r, o) /\ Total \in Nat
    BY <1>1, <1>2, <2>1, <2>2, FileType DEF SentSound, Posting
  <2>4. PICK m \in Nat : Reached(m) /\ Continues(r, m)
    BY <2>3 DEF Ready
  <2>5. m + 1 <= Total /\ Head(r) = recorded[m + 1] /\ Past(m)
    BY <2>1, <2>2, <2>3, <2>4, ContinuesTail DEF Reached
  <2>6. published' = Append(published, recorded[m + 1])
    BY <2>1, <2>2, <2>5
  <2>7. Queue!Receive \/ Stutter
    BY <1>1, <2>1, <2>3, <2>5, <2>6, ReceiveStep
  <2> QED BY <2>7 DEF Queue!Next
<1>6. CASE PublishLate
  <2>1. ~damaged /\ UNCHANGED <<recorded, damaged>>
    BY <1>6 DEF PublishLate, queue
  <2>2. PICK r \in late : published' = Append(published, Head(r))
    BY <1>6 DEF PublishLate
  <2>3. FileSound /\ Prefix /\ r \in Seq(Events) /\ r # <<>> /\ Total \in Nat
    BY <1>1, <1>2, <2>1, Offsets, FileType DEF SentSound
  <2>4. PICK m \in Nat : Past(m) /\ Continues(r, m)
    BY <1>2, <2>1 DEF SentSound, Abandoned, Resumes
  <2>5. m + 1 <= Total /\ Head(r) = recorded[m + 1]
    BY <2>3, <2>4, ContinuesTail
  <2>6. published' = Append(published, recorded[m + 1])
    BY <2>2, <2>5
  <2>7. Queue!Receive \/ Stutter
    BY <1>1, <2>1, <2>3, <2>4, <2>5, <2>6, ReceiveStep
  <2> QED BY <2>7 DEF Queue!Next
<1>7. ASSUME UNCHANGED <<recorded, published, damaged>> PROVE Stutter
  BY <1>7 DEF Stutter, Received
<1>8. CASE UNCHANGED vars
  BY <1>7, <1>8 DEF vars
<1>9. CASE Peek \/ PeekNothing \/ Send \/ SendRejected \/ SendSucceeds \/ SendFails
  BY <1>7, <1>9 DEF Peek, PeekNothing, Send, SendRejected, SendSucceeds, SendFails, queue, server, vars
<1>10. CASE BeginAck \/ SaveOffset \/ SaveOffsetFails \/ Truncate \/ ResetOffset \/ Restart
  BY <1>7, <1>10 DEF BeginAck, SaveOffset, SaveOffsetFails, Truncate, ResetOffset, Restart, queue, server
<1>11. CASE Crash
  <2>1. damaged' = damaged
    BY <1>1, <1>11 DEF Crash, TInv, TypeOK
  <2> QED BY <1>7, <1>11, <2>1 DEF Crash
<1>12. CASE TearPush
  BY <1>12 DEF TearPush
<1> QED
  BY <1>3, <1>4, <1>5, <1>6, <1>8, <1>9, <1>10, <1>11, <1>12 DEF Next, Queue!Next

\* The buffer implements the queue that docs/AGENT.md describes: the server has the first
\* events recorded, none left out, until the buffer is damaged.
THEOREM ImplementsQueue == Spec => IsAQueue
<1>1. Init => Queue!Init
  BY DEF Init, Queue!Init, Received
<1>2. IInv /\ IInv' /\ [Next]_vars => [Queue!Next]_(Queue!vars)
  <2>1. IInv' => TInv'
    BY DEF IInv
  <2> QED BY <2>1, QueueStep DEF Stutter, Queue!vars
<1> QED BY <1>1, <1>2, Invariant, PTL DEF Spec, IsAQueue, Queue!Spec

==============================================================================
