------------------------------ MODULE AccessProofs ------------------------------
(***************************************************************************)
(* Who is let in, for any number of agents, keys, requests, jobs, browsers  *)
(* and organisations.  Of Access: every variable keeps its type, no key     *)
(* lets in two agents, what the database says is never behind the last key  *)
(* handed out, and a host has one live agent where enrolments do not overlap.  Of SignIn: every variable keeps   *)
(* its type, and replacing signing keys refuses no good sign-in.            *)
(***************************************************************************)
EXTENDS Access, SignIn, TLAPS

--------------------------------------------------------------------------------
(* Types of Access                                                            *)

LEMMA TypeInit == Init => TypeOK
<1> SUFFICES ASSUME Init PROVE TypeOK OBVIOUS
<1>1. PICK h \in [key : {1}, legacy : BOOLEAN] :
        \/ rows = [a \in Agents |-> None]
        \/ rows = [a \in Agents |-> IF a = First THEN [hash |-> h, revoked |-> FALSE] ELSE None]
  <2>1. [key |-> 1, legacy |-> FALSE] \in [key : {1}, legacy : BOOLEAN]
    OBVIOUS
  <2> QED BY <2>1 DEF Init
<1>2. h \in Hash
  BY AccessAssumption DEF Hash
<1>3. [hash |-> h, revoked |-> FALSE] \in Row
  BY <1>2 DEF Row
<1>4. rows \in [Agents -> Row \cup {None}]
  BY <1>1, <1>3
<1>5. handed \in [Agents -> SUBSET (1 .. keys)] /\ keys \in 1 .. MaxKeys
  BY AccessAssumption DEF Init
<1>6. edits \in 0 .. MaxEdits /\ faults \in 0 .. MaxFaults
  BY AccessAssumption DEF Init
<1> QED BY <1>4, <1>5, <1>6 DEF Init, TypeOK

\* A new key is the newest, and belongs to its agent only.
LEMMA KeyIsNew ==
  ASSUME TypeOK, NEW a \in Agents, NewKey(a)
  PROVE  /\ keys' = keys + 1 /\ keys' \in 1 .. MaxKeys
         /\ rows' \in [Agents -> Row \cup {None}] /\ handed' \in [Agents -> SUBSET (1 .. keys')]
         /\ rows'[a] # None /\ rows'[a].hash.key = keys + 1
         /\ rows'[a].revoked <=> rows[a] # None /\ ~Live(a)
         /\ handed'[a] = handed[a] \cup {keys + 1}
         /\ \A b \in Agents \ {a} : rows'[b] = rows[b] /\ handed'[b] = handed[b]
<1>1. keys \in Nat /\ keys' = keys + 1 /\ keys' \in 1 .. MaxKeys
  BY AccessAssumption DEF TypeOK, NewKey
<1>r. PICK gone \in BOOLEAN : gone <=> rows[a] # None /\ ~Live(a)
  OBVIOUS
<1> DEFINE r == [hash |-> [key |-> keys + 1, legacy |-> FALSE], revoked |-> gone]
<1>2. r \in Row /\ r.hash.key = keys + 1 /\ (r.revoked <=> gone)
  BY <1>1 DEF Row, Hash
<1>3. rows' = [rows EXCEPT ![a] = r]
  BY <1>r, Zenon DEF NewKey
<1> HIDE DEF r
<1>4. /\ rows' \in [Agents -> Row \cup {None}] /\ rows'[a] = r
      /\ \A b \in Agents \ {a} : rows'[b] = rows[b]
  BY <1>2, <1>3 DEF TypeOK
<1>5. /\ handed' \in [Agents -> SUBSET (1 .. keys')] /\ handed'[a] = handed[a] \cup {keys + 1}
      /\ \A b \in Agents \ {a} : handed'[b] = handed[b]
  BY <1>1 DEF TypeOK, NewKey
<1> QED BY <1>1, <1>2, <1>4, <1>5, <1>r, AccessAssumption

\* What a request does once the hash is known.
LEMMA Next1Type ==
  ASSUME NEW a \in Agents, NEW k \in 1 .. MaxKeys, NEW h \in Hash
  PROVE  /\ Next1(a, k, h) \in Request \cup {None}
         /\ Next1(a, k, h) # None =>
              Next1(a, k, h) = [agent |-> a, key |-> k, hash |-> h, step |-> "rehash"] /\ k = h.key
BY DEF Next1, Request

\* The steps of a request: the agent and the key it is about stay the same.
LEMMA LookType ==
  ASSUME TypeOK, NEW i \in Requests, NEW a \in Agents, NEW k \in 1 .. keys, Look(i, a, k)
  PROVE  /\ req' \in [Requests -> Request \cup {None}]
         /\ \A j \in Requests \ {i} : req'[j] = req[j]
         /\ req'[i] # None =>
              /\ req'[i].agent = a /\ req'[i].key = k /\ k \in handed[a]
              /\ \/ cache[a] # None /\ req'[i].hash = cache[a]
                 \/ rows[a] # None /\ req'[i].hash = rows[a].hash
<1>1. k \in 1 .. MaxKeys /\ k \in handed[a]
  BY AccessAssumption DEF TypeOK, Look
<1>2. CASE cache[a] # None
  <2>1. cache[a] \in Hash
    BY <1>2 DEF TypeOK
  <2>2. PICK n : n = Next1(a, k, cache[a])
    OBVIOUS
  <2>3. req' = [req EXCEPT ![i] = n]
    BY <1>2, <2>2 DEF Look
  <2>4. n \in Request \cup {None} /\ (n # None => n.agent = a /\ n.key = k /\ n.hash = cache[a])
    BY <1>1, <2>1, <2>2, Next1Type
  <2> QED BY <1>1, <1>2, <2>3, <2>4 DEF TypeOK
<1>3. CASE cache[a] = None
  <2>1. rows[a] # None /\ rows[a] \in Row
    BY <1>3 DEF Look, Live, TypeOK
  <2>2. PICK n : n = [agent |-> a, key |-> k, hash |-> rows[a].hash, step |-> "fill"]
    OBVIOUS
  <2>3. req' = [req EXCEPT ![i] = n]
    BY <1>3, <2>2 DEF Look
  <2>4. n \in Request /\ n.agent = a /\ n.key = k /\ n.hash = rows[a].hash
    BY <1>1, <2>1, <2>2 DEF Request, Row
  <2> QED BY <1>1, <2>1, <2>3, <2>4 DEF TypeOK
<1> QED BY <1>2, <1>3

LEMMA FillType ==
  ASSUME TypeOK, NEW i \in Requests, Fill(i)
  PROVE  /\ req' \in [Requests -> Request \cup {None}]
         /\ \A j \in Requests \ {i} : req'[j] = req[j]
         /\ req'[i] # None =>
              req'[i].agent = req[i].agent /\ req'[i].key = req[i].key /\ req'[i].hash = req[i].hash
         /\ cache' \in [Agents -> Hash \cup {None}] /\ cache' = [cache EXCEPT ![req[i].agent] = req[i].hash]
<1>1. req[i] \in Request
  BY DEF Fill, TypeOK
<1>2. req[i].agent \in Agents /\ req[i].key \in 1 .. MaxKeys /\ req[i].hash \in Hash
  BY <1>1 DEF Request
<1>3. PICK n : n = Next1(req[i].agent, req[i].key, req[i].hash)
  OBVIOUS
<1>4. req' = [req EXCEPT ![i] = n] /\ cache' = [cache EXCEPT ![req[i].agent] = req[i].hash]
  BY <1>3 DEF Fill
<1>5. /\ n \in Request \cup {None}
      /\ n # None => n.agent = req[i].agent /\ n.key = req[i].key /\ n.hash = req[i].hash
  BY <1>2, <1>3, Next1Type
<1> QED BY <1>2, <1>4, <1>5 DEF TypeOK

LEMMA RehashType ==
  ASSUME TypeOK, NEW i \in Requests, Rehash(i)
  PROVE  /\ req' \in [Requests -> Request \cup {None}]
         /\ \A j \in Requests \ {i} : req'[j] = req[j]
         /\ req[i] \in Request /\ req[i].key = req[i].hash.key
         /\ req'[i].agent = req[i].agent /\ req'[i].key = req[i].key /\ req'[i].hash = req[i].hash
<1>1. req[i] \in Request /\ req[i].step = "rehash" /\ req' = [req EXCEPT ![i].step = "store"]
  BY DEF Rehash, TypeOK
<1>2. req[i].key = req[i].hash.key /\ req[i].hash.legacy
  BY <1>1 DEF Request
<1>3. PICK n : n = [req[i] EXCEPT !.step = "store"]
  OBVIOUS
<1>4. /\ n \in [agent : Agents, key : 1 .. MaxKeys, hash : Hash, step : {"fill", "rehash", "store"}]
      /\ n.agent = req[i].agent /\ n.key = req[i].key /\ n.hash = req[i].hash
  BY <1>1, <1>3 DEF Request
<1>5. n \in Request
  BY <1>2, <1>4 DEF Request
<1>6. req' = [req EXCEPT ![i] = n]
  BY <1>1, <1>3
<1>7. /\ req' \in [Requests -> Request \cup {None}] /\ req'[i] = n
      /\ \A j \in Requests \ {i} : req'[j] = req[j]
  BY <1>5, <1>6 DEF TypeOK
<1> QED BY <1>1, <1>2, <1>4, <1>7

\* What a rehash writes into the row of a live agent: a new hash of the key it verified.
LEMMA RehashRow ==
  ASSUME TypeOK, NEW i \in Requests, Rehash(i), NEW a, a = req[i].agent
  PROVE  /\ a \in Agents /\ rows' \in [Agents -> Row \cup {None}]
         /\ \A b \in Agents : b # a \/ ~Live(b) => rows'[b] = rows[b]
         /\ Live(a) => /\ rows'[a] # None /\ rows'[a].hash.key = req[i].key /\ ~rows'[a].revoked
                       /\ a \notin replaced' => req[i].key = rows[a].hash.key
         /\ replaced \subseteq replaced' /\ replaced' \subseteq Agents
<1>1. req[i] \in Request
  BY DEF Rehash, TypeOK
<1>2. a \in Agents /\ req[i].key \in 1 .. MaxKeys
  BY <1>1 DEF Request
<1>3. PICK h : h = [key |-> req[i].key, legacy |-> FALSE]
  OBVIOUS
<1>4. h \in Hash /\ h.key = req[i].key
  BY <1>2, <1>3 DEF Hash
<1>5. /\ rows' = IF Live(a) THEN [rows EXCEPT ![a].hash = h] ELSE rows
      /\ replaced' = IF Live(a) /\ rows[a].hash.key # req[i].key THEN replaced \cup {a} ELSE replaced
  BY <1>3, Zenon DEF Rehash
<1>6. CASE Live(a)
  <2>1. rows[a] \in [hash : Hash, revoked : BOOLEAN] /\ ~rows[a].revoked
    BY <1>2, <1>6 DEF Live, TypeOK, Row
  <2>2. PICK r : r = [rows[a] EXCEPT !.hash = h]
    OBVIOUS
  <2>3. r \in Row /\ r.hash.key = req[i].key /\ ~r.revoked
    BY <1>4, <2>1, <2>2 DEF Row
  <2>4. rows' = [rows EXCEPT ![a] = r]
    BY <1>5, <1>6, <2>2
  <2>5. /\ rows' \in [Agents -> Row \cup {None}] /\ rows'[a] = r
        /\ \A b \in Agents \ {a} : rows'[b] = rows[b]
    BY <1>2, <2>3, <2>4 DEF TypeOK
  <2> QED BY <1>2, <1>5, <1>6, <2>3, <2>5, AccessAssumption DEF TypeOK
<1>7. CASE ~Live(a)
  BY <1>2, <1>5, <1>7 DEF TypeOK
<1> QED BY <1>6, <1>7

LEMMA RevokeRow ==
  ASSUME TypeOK, NEW a \in Agents, Revoke(a)
  PROVE  /\ rows' \in [Agents -> Row \cup {None}]
         /\ rows[a] # None /\ rows'[a] # None /\ rows'[a].hash = rows[a].hash /\ rows'[a].revoked
         /\ \A b \in Agents \ {a} : rows'[b] = rows[b]
<1>1. rows[a] \in [hash : Hash, revoked : BOOLEAN] /\ rows' = [rows EXCEPT ![a].revoked = TRUE]
  BY DEF Revoke, TypeOK, Row
<1>2. PICK r : r = [rows[a] EXCEPT !.revoked = TRUE]
  OBVIOUS
<1>3. r \in Row /\ r.hash = rows[a].hash /\ r.revoked
  BY <1>1, <1>2 DEF Row
<1>4. rows' = [rows EXCEPT ![a] = r]
  BY <1>1, <1>2
<1>5. rows' \in [Agents -> Row \cup {None}] /\ rows'[a] = r /\ \A b \in Agents \ {a} : rows'[b] = rows[b]
  BY <1>3, <1>4 DEF TypeOK
<1>6. r # None /\ rows[a] # None
  BY <1>3, AccessAssumption DEF Revoke
<1> QED BY <1>3, <1>5, <1>6

LEMMA TypeStep == TypeOK /\ [Next]_vars => TypeOK'
<1> SUFFICES ASSUME TypeOK, [Next]_vars PROVE TypeOK' OBVIOUS
<1>1. ASSUME NEW a \in Agents, Rotate(a) PROVE TypeOK'
  <2>1. NewKey(a)
    BY <1>1 DEF Rotate
  <2> QED BY <1>1, <2>1, KeyIsNew DEF Rotate, jobs, TypeOK
<1>2. ASSUME NEW a \in Agents, Revoke(a) PROVE TypeOK'
  BY <1>2, RevokeRow DEF Revoke, jobs, TypeOK
<1>3. ASSUME NEW a \in Agents, DeleteEntry(a) \/ Expire(a) PROVE TypeOK'
  BY <1>3 DEF DeleteEntry, Expire, jobs, TypeOK
<1>4. ASSUME NEW t \in Tokens, BootstrapToken(t) PROVE TypeOK'
  BY <1>4 DEF BootstrapToken, jobs, TypeOK
<1>14. ASSUME NEW e \in Enrolments, Admit(e) \/ LookUp(e) \/ DeleteToken(e) PROVE TypeOK'
  <2>1. /\ enrolling' \in [Enrolments -> {"none", "admitted", "looked", "committed"}]
        /\ found' \in [Enrolments -> Agents \cup {None}] /\ tokens' \subseteq Tokens
    BY <1>14 DEF Admit, LookUp, DeleteToken, Enrolling, TypeOK
  <2>2. UNCHANGED <<rows, cache, keys, handed, forget, req, replaced, jobs, faults>>
    BY <1>14 DEF Admit, LookUp, DeleteToken
  <2> QED BY <2>1, <2>2 DEF jobs, TypeOK
<1>5. ASSUME NEW e \in Enrolments, NEW a \in Agents, Enroll(e, a) PROVE TypeOK'
  <2>1. NewKey(a)
    BY <1>5 DEF Enroll
  <2> QED BY <1>5, <2>1, KeyIsNew DEF Enroll, Enrolling, jobs, TypeOK
<1>6. ASSUME NEW i \in Requests, NEW a \in Agents, NEW k \in 1 .. keys, Look(i, a, k) PROVE TypeOK'
  <2>1. req' \in [Requests -> Request \cup {None}]
    BY <1>6, LookType
  <2>2. UNCHANGED <<rows, cache, keys, handed, tokens, enrolling, found, forget, replaced, jobs, faults>>
    BY <1>6 DEF Look
  <2> QED BY <2>1, <2>2 DEF jobs, TypeOK
<1>7. ASSUME NEW i \in Requests, Fill(i) PROVE TypeOK'
  <2>1. req' \in [Requests -> Request \cup {None}] /\ cache' \in [Agents -> Hash \cup {None}]
    BY <1>7, FillType
  <2>2. UNCHANGED <<rows, keys, handed, tokens, enrolling, found, forget, replaced, jobs, faults>>
    BY <1>7 DEF Fill
  <2> QED BY <2>1, <2>2 DEF jobs, TypeOK
<1>8. ASSUME NEW i \in Requests, Rehash(i) PROVE TypeOK'
  <2>1. req' \in [Requests -> Request \cup {None}]
    BY <1>8, RehashType
  <2>2. rows' \in [Agents -> Row \cup {None}] /\ replaced' \subseteq Agents
    BY <1>8, RehashRow
  <2>3. UNCHANGED <<cache, keys, handed, tokens, enrolling, found, forget, jobs, faults>>
    BY <1>8 DEF Rehash
  <2> QED BY <2>1, <2>2, <2>3 DEF jobs, TypeOK
<1>9. ASSUME NEW i \in Requests, Store(i) PROVE TypeOK'
  <2>1. req[i].agent \in Agents /\ req[i].key \in 1 .. MaxKeys
    BY <1>9 DEF Store, TypeOK, Request
  <2>2. [key |-> req[i].key, legacy |-> FALSE] \in Hash
    BY <2>1 DEF Hash
  <2>3. cache' \in [Agents -> Hash \cup {None}] /\ req' \in [Requests -> Request \cup {None}]
    BY <1>9, <2>1, <2>2 DEF Store, TypeOK
  <2>4. UNCHANGED <<rows, keys, handed, tokens, enrolling, found, forget, replaced, jobs, faults>>
    BY <1>9 DEF Store
  <2> QED BY <2>3, <2>4 DEF jobs, TypeOK
<1>10. ASSUME NEW j \in Jobs, UpdatePaused(j) \/ DeleteJob(j) PROVE TypeOK'
  <2>1. job' \in [Jobs -> {"active", "paused", "deleted"}] /\ edits' \in 0 .. MaxEdits
    BY <1>10, AccessAssumption DEF UpdatePaused, DeleteJob, TypeOK
  <2> QED BY <1>10, <2>1 DEF UpdatePaused, DeleteJob, agents, TypeOK
<1>11. ASSUME NEW j \in Jobs, Resolve(j) \/ Emit(j) \/ Forget(j) PROVE TypeOK'
  BY <1>11 DEF Resolve, Emit, Forget, agents, TypeOK
<1>12. CASE Crash
  BY <1>12, AccessAssumption DEF Crash, TypeOK
<1>13. CASE UNCHANGED vars
  BY <1>13 DEF vars, agents, jobs, TypeOK
<1> QED
  BY <1>1, <1>2, <1>3, <1>4, <1>5, <1>6, <1>7, <1>8, <1>9, <1>10, <1>11, <1>12, <1>13, <1>14
  DEF Next, Handle

\* Every variable keeps its type; in particular a request that is about to write a new hash has
\* verified its key with the old one it found.
THEOREM TypeCorrect == Spec => []TypeOK
BY TypeInit, TypeStep, PTL DEF Spec

--------------------------------------------------------------------------------
(* Keys                                                                       *)

\* Whatever the database, the cache or a request holds of an agent is one of its keys, and
\* no key was handed out for two agents.
OwnKeys ==
  /\ \A a \in Agents : rows[a] # None => rows[a].hash.key \in handed[a]
  /\ \A a \in Agents : cache[a] # None => cache[a].key \in handed[a]
  /\ \A i \in Requests : req[i] # None =>
       req[i].key \in handed[req[i].agent] /\ req[i].hash.key \in handed[req[i].agent]
  /\ \A a, b \in Agents : a # b => handed[a] \cap handed[b] = {}

\* The row has the key handed out last, unless a rehash has written an older one back.
RowIsLatest ==
  \A a \in Agents \ replaced : rows[a] # None => \A o \in handed[a] : o <= rows[a].hash.key

KeysInv == TypeOK /\ OwnKeys /\ RowIsLatest

\* A key lets in the agent it was handed out for and no other, whatever the requests in flight
\* write to the cache and to the rows.
KeyIsPersonal ==
  \A a, b \in Agents : Accepted(a) \subseteq handed[a] /\ (a # b => Accepted(a) \cap Accepted(b) = {})

\* Once the cache has forgotten an agent, exactly the key it was handed out last is accepted,
\* and none if it is revoked, unless a rehash has written an older key back.
UncachedIsDue == \A a \in Agents \ replaced : cache[a] = None => Accepted(a) = Due(a)

\* A revoked agent stays revoked, also when a rehash of its key was under way.
RevokedForGood ==
  [][\A a \in Agents : rows[a] # None /\ rows[a].revoked => rows'[a] # None /\ rows'[a].revoked]_vars

LEMMA KeysInit == Init => KeysInv
<1> SUFFICES ASSUME Init PROVE KeysInv OBVIOUS
<1>1. TypeOK
  BY TypeInit
<1>2. /\ \/ rows = [a \in Agents |-> None]
         \/ \E h \in [key : {1}, legacy : BOOLEAN] :
              rows = [a \in Agents |-> IF a = First THEN [hash |-> h, revoked |-> FALSE] ELSE None]
      /\ handed = [a \in Agents |-> IF rows[a] = None THEN {} ELSE {1}]
  BY DEF Init
<1>3. /\ \A b \in Agents : rows[b] # None => b = First /\ rows[b].hash.key = 1 /\ handed[b] = {1}
      /\ \A b \in Agents : rows[b] = None => handed[b] = {}
  BY <1>2
<1>4. OwnKeys
  BY <1>3 DEF Init, OwnKeys
<1>5. RowIsLatest
  BY <1>3 DEF RowIsLatest
<1> QED BY <1>1, <1>4, <1>5 DEF KeysInv

\* A new key, of a rotation or of an enrolment.
LEMMA NewKeyInv ==
  ASSUME KeysInv, NEW a \in Agents, NewKey(a), replaced' = replaced \ {a}, UNCHANGED <<cache, req>>
  PROVE  OwnKeys' /\ RowIsLatest'
<1>1. /\ keys' = keys + 1 /\ keys \in Nat
      /\ rows'[a] # None /\ rows'[a].hash.key = keys + 1
      /\ handed'[a] = handed[a] \cup {keys + 1}
      /\ \A b \in Agents \ {a} : rows'[b] = rows[b] /\ handed'[b] = handed[b]
  BY KeyIsNew, AccessAssumption DEF KeysInv, TypeOK
<1>2. \A b \in Agents : \A k \in handed[b] : k \in Nat /\ k <= keys
  BY <1>1 DEF KeysInv, TypeOK
<1>3. \A b \in Agents : handed[b] \subseteq handed'[b]
  BY <1>1
<1>4. OwnKeys'
  <2>1. \A b \in Agents : rows'[b] # None => rows'[b].hash.key \in handed'[b]
    BY <1>1 DEF KeysInv, OwnKeys
  <2>2. \A b \in Agents : cache'[b] # None => cache'[b].key \in handed'[b]
    BY <1>3 DEF KeysInv, OwnKeys
  <2>3. \A i \in Requests : req'[i] # None =>
          req'[i].key \in handed'[req'[i].agent] /\ req'[i].hash.key \in handed'[req'[i].agent]
    <3> SUFFICES ASSUME NEW i \in Requests, req[i] # None
                 PROVE  req[i].key \in handed'[req[i].agent] /\ req[i].hash.key \in handed'[req[i].agent]
      OBVIOUS
    <3>1. req[i].agent \in Agents
      BY DEF KeysInv, TypeOK, Request
    <3> QED BY <1>3, <3>1 DEF KeysInv, OwnKeys
  <2>4. \A b \in Agents : keys + 1 \notin handed[b]
    BY <1>1, <1>2
  <2>5. \A b, c \in Agents : b # c => handed'[b] \cap handed'[c] = {}
    BY <1>1, <2>4 DEF KeysInv, OwnKeys
  <2> QED BY <2>1, <2>2, <2>3, <2>5 DEF OwnKeys
<1>6. RowIsLatest'
  <2> SUFFICES ASSUME NEW b \in Agents \ replaced', rows'[b] # None, NEW o \in handed'[b]
               PROVE  o <= rows'[b].hash.key
    BY DEF RowIsLatest
  <2>1. CASE b = a
    <3>1. o \in Nat /\ o <= keys + 1
      BY <1>1, <1>2, <2>1
    <3> QED BY <1>1, <2>1, <3>1
  <2>2. CASE b # a
    BY <1>1, <2>2 DEF KeysInv, RowIsLatest
  <2> QED BY <2>1, <2>2
<1> QED BY <1>4, <1>6

\* Steps that leave the rows and the keys alone, and take what they cache or hold from there.
LEMMA RowsStand ==
  ASSUME KeysInv, UNCHANGED <<rows, handed, replaced>>,
         \A a \in Agents : cache'[a] # None => cache'[a].key \in handed[a],
         \A i \in Requests : req'[i] # None =>
           req'[i].key \in handed[req'[i].agent] /\ req'[i].hash.key \in handed[req'[i].agent]
  PROVE  OwnKeys' /\ RowIsLatest'
<1>1. OwnKeys'
  BY DEF KeysInv, OwnKeys
<1>2. RowIsLatest'
  BY DEF KeysInv, RowIsLatest
<1> QED BY <1>1, <1>2

LEMMA RehashInv ==
  ASSUME KeysInv, NEW i \in Requests, Rehash(i)
  PROVE  OwnKeys' /\ RowIsLatest'
<1> DEFINE a == req[i].agent
<1>1. /\ a \in Agents
      /\ \A b \in Agents : b # a \/ ~Live(b) => rows'[b] = rows[b]
      /\ Live(a) => /\ rows'[a] # None /\ rows'[a].hash.key = req[i].key /\ ~rows'[a].revoked
                    /\ a \notin replaced' => req[i].key = rows[a].hash.key
      /\ replaced \subseteq replaced'
  BY RehashRow DEF KeysInv
<1>2. /\ \A j \in Requests \ {i} : req'[j] = req[j]
      /\ req'[i].agent = a /\ req'[i].key = req[i].key /\ req'[i].hash = req[i].hash
  BY RehashType DEF KeysInv
<1>3. req[i] # None /\ UNCHANGED <<cache, handed>>
  BY DEF Rehash
<1>4. req[i].key \in handed[a]
  BY <1>3 DEF KeysInv, OwnKeys
<1> HIDE DEF a
<1>5. OwnKeys'
  <2>1. \A b \in Agents : rows'[b] # None => rows'[b].hash.key \in handed[b]
    BY <1>1, <1>4 DEF KeysInv, OwnKeys
  <2>2. \A j \in Requests : req'[j] # None =>
          req'[j].key \in handed[req'[j].agent] /\ req'[j].hash.key \in handed[req'[j].agent]
    BY <1>2, <1>3 DEF KeysInv, OwnKeys, a
  <2> QED BY <1>3, <2>1, <2>2 DEF KeysInv, OwnKeys
<1>7. RowIsLatest'
  <2> SUFFICES ASSUME NEW b \in Agents \ replaced', rows'[b] # None, NEW o \in handed[b]
               PROVE  o <= rows'[b].hash.key
    BY <1>3 DEF RowIsLatest
  <2>1. b \in Agents \ replaced
    BY <1>1
  <2>2. CASE b # a \/ ~Live(b)
    <3>1. rows'[b] = rows[b]
      BY <1>1, <2>2
    <3> QED BY <2>1, <3>1 DEF KeysInv, RowIsLatest
  <2>3. CASE b = a /\ Live(a)
    <3>1. rows'[b].hash.key = rows[b].hash.key /\ rows[b] # None
      BY <1>1, <2>3 DEF Live
    <3> QED BY <2>1, <3>1 DEF KeysInv, RowIsLatest
  <2> QED BY <2>2, <2>3
<1> QED BY <1>5, <1>7

LEMMA KeysStep == KeysInv /\ [Next]_vars => KeysInv'
<1> SUFFICES ASSUME KeysInv, [Next]_vars PROVE OwnKeys' /\ RowIsLatest'
  BY TypeStep DEF KeysInv
<1>a. TypeOK
  BY DEF KeysInv
<1>1. ASSUME NEW a \in Agents, Rotate(a) PROVE OwnKeys' /\ RowIsLatest'
  <2>1. NewKey(a) /\ replaced' = replaced \ {a} /\ UNCHANGED <<cache, req>>
    BY <1>1 DEF Rotate
  <2> QED BY <2>1, NewKeyInv
<1>2. ASSUME NEW e \in Enrolments, NEW a \in Agents, Enroll(e, a) PROVE OwnKeys' /\ RowIsLatest'
  <2>1. NewKey(a) /\ replaced' = replaced \ {a} /\ UNCHANGED <<cache, req>>
    BY <1>2 DEF Enroll
  <2> QED BY <2>1, NewKeyInv
<1>3. ASSUME NEW a \in Agents, Revoke(a) PROVE OwnKeys' /\ RowIsLatest'
  <2>1. /\ rows[a] # None /\ rows'[a] # None /\ rows'[a].hash = rows[a].hash /\ rows'[a].revoked
        /\ \A b \in Agents \ {a} : rows'[b] = rows[b]
    BY <1>a, <1>3, RevokeRow
  <2>2. UNCHANGED <<cache, handed, req, replaced>>
    BY <1>3 DEF Revoke
  <2>3. OwnKeys'
    BY <2>1, <2>2 DEF KeysInv, OwnKeys
  <2>5. RowIsLatest'
    BY <2>1, <2>2 DEF KeysInv, RowIsLatest
  <2> QED BY <2>3, <2>5
<1>4. CASE UNCHANGED <<rows, cache, handed, req, replaced>>
  BY <1>4, RowsStand DEF KeysInv, OwnKeys
<1>5. ASSUME NEW a \in Agents, DeleteEntry(a) \/ Expire(a) PROVE OwnKeys' /\ RowIsLatest'
  <2>1. cache' = [cache EXCEPT ![a] = None] /\ UNCHANGED <<rows, handed, req, replaced>>
    BY <1>5 DEF DeleteEntry, Expire
  <2>2. \A b \in Agents : cache'[b] # None => cache'[b] = cache[b]
    BY <1>a, <2>1 DEF TypeOK
  <2> QED BY <2>1, <2>2, RowsStand DEF KeysInv, OwnKeys
<1>6. ASSUME NEW i \in Requests, NEW a \in Agents, NEW k \in 1 .. keys, Look(i, a, k)
      PROVE  OwnKeys' /\ RowIsLatest'
  <2>1. /\ \A j \in Requests \ {i} : req'[j] = req[j]
        /\ req'[i] # None =>
             /\ req'[i].agent = a /\ req'[i].key = k /\ k \in handed[a]
             /\ \/ cache[a] # None /\ req'[i].hash = cache[a]
                \/ rows[a] # None /\ req'[i].hash = rows[a].hash
    BY <1>a, <1>6, LookType
  <2>2. UNCHANGED <<rows, cache, handed, replaced>>
    BY <1>6 DEF Look
  <2>3. \A j \in Requests : req'[j] # None =>
          req'[j].key \in handed[req'[j].agent] /\ req'[j].hash.key \in handed[req'[j].agent]
    BY <2>1 DEF KeysInv, OwnKeys
  <2> QED BY <2>2, <2>3, RowsStand DEF KeysInv, OwnKeys
<1>7. ASSUME NEW i \in Requests, Fill(i) PROVE OwnKeys' /\ RowIsLatest'
  <2>1. /\ \A j \in Requests \ {i} : req'[j] = req[j]
        /\ req'[i] # None =>
             req'[i].agent = req[i].agent /\ req'[i].key = req[i].key /\ req'[i].hash = req[i].hash
        /\ cache' = [cache EXCEPT ![req[i].agent] = req[i].hash]
    BY <1>a, <1>7, FillType
  <2>2. req[i] # None /\ UNCHANGED <<rows, handed, replaced>>
    BY <1>7 DEF Fill
  <2>3. \A j \in Requests : req'[j] # None =>
          req'[j].key \in handed[req'[j].agent] /\ req'[j].hash.key \in handed[req'[j].agent]
    BY <2>1, <2>2 DEF KeysInv, OwnKeys
  <2>4. \A b \in Agents : cache'[b] # None => cache'[b].key \in handed[b]
    BY <1>a, <2>1, <2>2 DEF KeysInv, OwnKeys, TypeOK
  <2> QED BY <2>2, <2>3, <2>4, RowsStand
<1>8. ASSUME NEW i \in Requests, Rehash(i) PROVE OwnKeys' /\ RowIsLatest'
  BY <1>8, RehashInv
<1>9. ASSUME NEW i \in Requests, Store(i) PROVE OwnKeys' /\ RowIsLatest'
  <2>1. /\ req[i] # None /\ req' = [req EXCEPT ![i] = None] /\ UNCHANGED <<rows, handed, replaced>>
        /\ cache' = [cache EXCEPT ![req[i].agent] = [key |-> req[i].key, legacy |-> FALSE]]
    BY <1>9 DEF Store
  <2>2. \A j \in Requests : req'[j] # None => req'[j] = req[j]
    BY <1>a, <2>1 DEF TypeOK
  <2>3. \A b \in Agents : cache'[b] # None => cache'[b].key \in handed[b]
    BY <1>a, <2>1 DEF KeysInv, OwnKeys, TypeOK
  <2> QED BY <2>1, <2>2, <2>3, RowsStand DEF KeysInv, OwnKeys
<1>10. CASE Crash
  <2>1. (\A j \in Requests : req'[j] = None) /\ UNCHANGED <<rows, cache, handed, replaced>>
    BY <1>10 DEF Crash
  <2> QED BY <2>1, RowsStand DEF KeysInv, OwnKeys
<1>11. ASSUME NEW t \in Tokens, BootstrapToken(t)
       PROVE  UNCHANGED <<rows, cache, handed, req, replaced>>
  BY <1>11 DEF BootstrapToken
<1>14. ASSUME NEW e \in Enrolments, Admit(e) \/ LookUp(e) \/ DeleteToken(e)
       PROVE  UNCHANGED <<rows, cache, handed, req, replaced>>
  BY <1>14 DEF Admit, LookUp, DeleteToken
<1>12. ASSUME NEW j \in Jobs, UpdatePaused(j) \/ DeleteJob(j) \/ Resolve(j) \/ Emit(j) \/ Forget(j)
       PROVE  UNCHANGED <<rows, cache, handed, req, replaced>>
  BY <1>12 DEF UpdatePaused, DeleteJob, Resolve, Emit, Forget, agents
<1>13. CASE UNCHANGED vars
  BY <1>4, <1>13 DEF vars, agents
<1> QED
  BY <1>1, <1>2, <1>3, <1>4, <1>5, <1>6, <1>7, <1>8, <1>9, <1>10, <1>11, <1>12, <1>13, <1>14
  DEF Next, Handle

\* What rows, cache and requests hold of an agent is one of its own keys, no key was given to
\* two, and the row of an agent has the key it was given last, unless a rehash has written an
\* older one back.
THEOREM Invariance == Spec => []KeysInv
BY KeysInit, KeysStep, PTL DEF Spec

\* No key of one agent lets in another, cached or not.
THEOREM KeysArePersonal == Spec => []KeyIsPersonal
<1>1. KeysInv => KeyIsPersonal
  <2> SUFFICES ASSUME KeysInv, NEW a \in Agents, NEW b \in Agents
               PROVE  Accepted(a) \subseteq handed[a] /\ (a # b => Accepted(a) \cap Accepted(b) = {})
    BY DEF KeyIsPersonal
  <2>1. \A c \in Agents : Accepted(c) \subseteq handed[c]
    BY DEF Accepted, Live, KeysInv, OwnKeys
  <2> QED BY <2>1 DEF KeysInv, OwnKeys
<1> QED BY Invariance, <1>1, PTL

\* The safety half of AnswersConverge: when its cache entry is gone, and it goes within 300 s of
\* the last request, an agent is let in with exactly the key it was given last, or not at all
\* once it is revoked, unless a rehash wrote an older key back.
THEOREM ForgottenIsDue == Spec => []UncachedIsDue
<1>1. KeysInv => UncachedIsDue
  <2> SUFFICES ASSUME KeysInv, NEW a \in Agents \ replaced, cache[a] = None, Live(a)
               PROVE  {rows[a].hash.key} = {k \in handed[a] : \A o \in handed[a] : o <= k}
    BY DEF UncachedIsDue, Accepted, Due
  <2>1. rows[a] # None /\ rows[a].hash.key \in handed[a]
    BY DEF Live, KeysInv, OwnKeys
  <2>2. \A o \in handed[a] : o <= rows[a].hash.key
    BY <2>1 DEF KeysInv, RowIsLatest
  <2>3. handed[a] \subseteq Int
    BY DEF KeysInv, TypeOK
  <2> QED BY <2>1, <2>2, <2>3
<1> QED BY Invariance, <1>1, PTL

\* No rotation, enrolment or rehash brings back a revoked agent.
THEOREM RevocationHolds == Spec => RevokedForGood
<1>1. TypeOK /\ [Next]_vars =>
        [\A a \in Agents : rows[a] # None /\ rows[a].revoked => rows'[a] # None /\ rows'[a].revoked]_vars
  <2> SUFFICES ASSUME TypeOK, Next, NEW a \in Agents, rows[a] # None, rows[a].revoked
               PROVE  rows'[a] # None /\ rows'[a].revoked
    OBVIOUS
  <2>1. ~Live(a)
    BY DEF Live
  <2>2. ASSUME NEW b \in Agents, Rotate(b) \/ \E e \in Enrolments : Enroll(e, b)
        PROVE  rows'[a] # None /\ rows'[a].revoked
    <3>1. NewKey(b)
      BY <2>2 DEF Rotate, Enroll
    <3> QED BY <2>1, <3>1, KeyIsNew
  <2>3. ASSUME NEW b \in Agents, Revoke(b) PROVE rows'[a] # None /\ rows'[a].revoked
    BY <2>3, RevokeRow
  <2>4. ASSUME NEW i \in Requests, Rehash(i) PROVE rows'[a] # None /\ rows'[a].revoked
    BY <2>1, <2>4, RehashRow
  <2>5. CASE UNCHANGED rows
    BY <2>5
  <2> QED
    BY <2>2, <2>3, <2>4, <2>5 DEF Next, Handle, DeleteEntry, Expire, BootstrapToken, Admit, LookUp, DeleteToken,
       Look, Fill, Store, UpdatePaused, DeleteJob, Resolve, Emit, Forget, Crash, agents
<1> QED BY <1>1, TypeInit, TypeStep, PTL DEF Spec, RevokedForGood

\* A host has at most one agent that is not revoked.
OneLive == \A a, b \in Agents : Live(a) /\ Live(b) => a = b

\* The agent an enrolment has found has a row; where it has found none there is none, while no
\* other enrolment can have made one.
LookedUp ==
  \A e \in Enrolments :
    /\ found[e] # None => rows[found[e]] # None
    /\ enrolling[e] = "looked" /\ found[e] = None => \A a \in Agents : ~Live(a)

LEMMA OneLiveStep ==
  ASSUME TypeOK, OneLive, LookedUp, [Next]_vars, \A e, f \in Enrolments : e = f
  PROVE  OneLive' /\ LookedUp'
<1> USE AccessAssumption
<1>1. ASSUME NEW a \in Agents, Rotate(a) PROVE OneLive' /\ LookedUp'
  <2>1. NewKey(a) /\ Live(a) /\ UNCHANGED <<enrolling, found>>
    BY <1>1 DEF Rotate
  <2>2. \A b \in Agents : (Live(b)' => Live(b)) /\ (rows[b] # None => rows'[b] # None)
    BY <2>1, KeyIsNew DEF Live
  <2> QED BY <2>1, <2>2 DEF OneLive, LookedUp, TypeOK
<1>2. ASSUME NEW e \in Enrolments, NEW a \in Agents, Enroll(e, a) PROVE OneLive' /\ LookedUp'
  <2>1. /\ NewKey(a) /\ enrolling[e] = "looked" /\ enrolling' = [enrolling EXCEPT ![e] = "committed"]
        /\ found[e] = a \/ (found[e] = None /\ rows[a] = None)
        /\ found' = [found EXCEPT ![e] = None]
    BY <1>2 DEF Enroll, Enrolling
  <2>2. LookedUp'
    BY <2>1 DEF LookedUp, TypeOK
  <2>3. CASE found[e] = None
    <3>1. \A b \in Agents : ~Live(b)
      BY <2>1, <2>3 DEF LookedUp
    <3>2. \A b \in Agents : Live(b)' => b = a
      BY <2>1, <3>1, KeyIsNew DEF Live
    <3> QED BY <2>2, <3>2 DEF OneLive
  <2>4. CASE found[e] # None
    <3>1. rows[a] # None
      BY <2>1, <2>4 DEF LookedUp
    <3>2. \A b \in Agents : Live(b)' => Live(b)
      BY <2>1, <3>1, KeyIsNew DEF Live
    <3> QED BY <2>2, <3>2 DEF OneLive
  <2> QED BY <2>3, <2>4
<1>3. ASSUME NEW e \in Enrolments, LookUp(e) PROVE OneLive' /\ LookedUp'
  <2>1. /\ rows' = rows /\ enrolling' = [enrolling EXCEPT ![e] = "looked"]
        /\ \/ \E a \in Agents : Live(a) /\ found' = [found EXCEPT ![e] = a]
           \/ (\A a \in Agents : ~Live(a)) /\ found' = found
    BY <1>3 DEF LookUp, Enrolling
  <2>2. /\ found'[e] = None => \A a \in Agents : ~Live(a)
        /\ found'[e] # None => rows[found'[e]] # None
    BY <2>1 DEF TypeOK, Live, LookedUp
  <2> QED BY <2>1, <2>2 DEF OneLive, LookedUp, Live
<1>4. ASSUME NEW a \in Agents, Revoke(a) PROVE OneLive' /\ LookedUp'
  <2>1. \A b \in Agents : (Live(b)' => Live(b)) /\ (rows[b] # None => rows'[b] # None)
    BY <1>4, RevokeRow DEF Live
  <2>2. UNCHANGED <<enrolling, found>>
    BY <1>4 DEF Revoke
  <2> QED BY <2>1, <2>2 DEF OneLive, LookedUp, TypeOK
<1>5. ASSUME NEW i \in Requests, Rehash(i) PROVE OneLive' /\ LookedUp'
  <2>1. \A b \in Agents : (Live(b)' => Live(b)) /\ (rows[b] # None => rows'[b] # None)
    BY <1>5, RehashRow DEF Live
  <2>2. UNCHANGED <<enrolling, found>>
    BY <1>5 DEF Rehash
  <2> QED BY <2>1, <2>2 DEF OneLive, LookedUp, TypeOK
<1>6. ASSUME NEW e \in Enrolments, Admit(e) \/ DeleteToken(e) PROVE OneLive' /\ LookedUp'
  <2>1. rows' = rows /\ found' = found /\ \E s \in {"admitted", "none"} : enrolling' = [enrolling EXCEPT ![e] = s]
    BY <1>6 DEF Admit, DeleteToken, Enrolling
  <2> QED BY <2>1 DEF OneLive, LookedUp, Live, TypeOK
<1>7. CASE Crash
  BY <1>7 DEF Crash, OneLive, LookedUp, Live
<1>8. CASE UNCHANGED <<rows, enrolling, found>>
  BY <1>8 DEF OneLive, LookedUp, Live
<1> QED
  BY <1>1, <1>2, <1>3, <1>4, <1>5, <1>6, <1>7, <1>8 DEF Next, Handle, DeleteEntry, Expire, BootstrapToken,
     Look, Fill, Store, UpdatePaused, DeleteJob, Resolve, Emit, Forget, agents, vars

\* Where enrolments of a host do not overlap, it has one live agent at most, however they are
\* interleaved with rotations, revocations and requests.  Where they do overlap it may come to
\* have two: the SELECT of enroll takes no lock, and no constraint forbids a second row.
THEOREM OneAgentPerHost ==
  ASSUME \A e, f \in Enrolments : e = f
  PROVE  Spec => []OneLive
<1>1. Init => OneLive /\ LookedUp
  <2> SUFFICES ASSUME Init PROVE OneLive /\ LookedUp
    OBVIOUS
  <2>1. \A a \in Agents : rows[a] # None => a = First
    BY DEF Init
  <2> QED BY <2>1 DEF Init, OneLive, LookedUp, Live
<1>2. TypeOK /\ OneLive /\ LookedUp /\ [Next]_vars => (TypeOK /\ OneLive /\ LookedUp)'
  BY TypeStep, OneLiveStep
<1> QED BY <1>1, <1>2, TypeInit, PTL DEF Spec

--------------------------------------------------------------------------------
(* Sessions                                                                   *)

\* The absence of an id_token is typed like one.
LEMMA NoIdTokenType == NoIdToken \in IdTokens /\ NoIdToken.key = 0
BY SignInAssumption DEF NoIdToken, IdTokens

LEMMA SignInTypeInit == SignInInit => SignInTypeOK
<1> SUFFICES ASSUME SignInInit PROVE SignInTypeOK OBVIOUS
<1>1. known \in BOOLEAN
  BY DEF SignInInit
<1>2. /\ signing \in SigningKeys /\ published \subseteq 1 .. signing /\ signing \in published
      /\ made \in 0 .. MaxOrgs /\ crashes \in 0 .. MaxCrashes
      /\ session \in [Browsers -> NoSession .. made]
  BY SignInAssumption DEF SignInInit, SigningKeys, NoSession
<1>3. /\ jwks = {} /\ bearer = {} /\ states = {} /\ passed = {} /\ orgs = {} /\ keyed = {}
      /\ callback = [b \in Browsers |-> NoIdToken] /\ signing = 1
  BY DEF SignInInit
<1>4. callback \in [Browsers -> IdTokens] /\ \A b \in Browsers : callback[b].key <= signing
  BY <1>3, NoIdTokenType
<1> QED BY <1>1, <1>2, <1>3, <1>4, Zenon DEF SignInTypeOK

\* The keys a cache may be filled with were made by the identity provider.
LEMMA FetchedType ==
  ASSUME SignInTypeOK, NEW force \in BOOLEAN
  PROVE  Fetched(force) \subseteq 1 .. signing
BY DEF Fetched, SignInTypeOK

\* What a cookie may be set to.
LEMMA SessionType ==
  ASSUME SignInTypeOK, NEW b \in Browsers, NEW s, SetSession(b, s),
         NEW n \in Nat, made <= n, s \in NoSession .. n
  PROVE  session' \in [Browsers -> NoSession .. n]
BY DEF SetSession, SignInTypeOK, NoSession

\* What a callback may be left with.
LEMMA CallbackType ==
  ASSUME SignInTypeOK, NEW b \in Browsers, NEW t \in IdTokens, t.key <= signing,
         callback' = [callback EXCEPT ![b] = t], signing' = signing
  PROVE  callback' \in [Browsers -> IdTokens] /\ \A c \in Browsers : callback'[c].key <= signing'
BY DEF SignInTypeOK

LEMMA SignInTypeStep == SignInTypeOK /\ [SignInNext]_signInVars => SignInTypeOK'
<1> SUFFICES ASSUME SignInTypeOK, [SignInNext]_signInVars PROVE SignInTypeOK' OBVIOUS
<1> USE SignInAssumption DEF SigningKeys
<1>1. /\ signing \in Nat /\ made \in Nat /\ made <= MaxOrgs /\ MaxOrgs \in Nat
      /\ orgs \subseteq 1 .. made /\ NoIdToken \in IdTokens /\ NoIdToken.key <= signing
  BY NoIdTokenType DEF SignInTypeOK
<1>2. CASE NewSigningKey
  <2>1. \A b \in Browsers : callback'[b].key <= signing'
    BY <1>1, <1>2 DEF NewSigningKey, IdTokens, SignInTypeOK
  <2> QED BY <1>2, <2>1 DEF NewSigningKey, logins, users, SignInTypeOK
<1>3. CASE WithdrawKeys
  BY <1>3 DEF WithdrawKeys, logins, users, SignInTypeOK
<1>4. CASE ExpireJwks
  BY <1>4 DEF ExpireJwks, users, provider, logins, SignInTypeOK
<1>5. CASE FetchBearerKeys
  BY <1>5 DEF FetchBearerKeys, users, provider, logins, SignInTypeOK
<1>6. CASE ApiCrash
  <2>1. callback' \in [Browsers -> IdTokens] /\ \A b \in Browsers : callback'[b].key <= signing'
    BY <1>1, <1>6 DEF ApiCrash, provider
  <2> QED BY <1>6, <2>1 DEF ApiCrash, users, provider, SignInTypeOK
<1>7. CASE Bootstrap
  <2>1. session' \in [Browsers -> NoSession .. made']
    BY <1>1, <1>7 DEF Bootstrap, NewOrg, SignInTypeOK, NoSession
  <2>2. made' \in 0 .. MaxOrgs /\ orgs' \subseteq 1 .. made' /\ keyed' \subseteq orgs'
    BY <1>1, <1>7 DEF Bootstrap, NewOrg, SignInTypeOK
  <2> QED BY <1>7, <2>1, <2>2 DEF Bootstrap, provider, logins, SignInTypeOK
<1>8. ASSUME NEW o \in 1 .. MaxOrgs, CreateKey(o) PROVE SignInTypeOK'
  BY <1>8 DEF CreateKey, Principal, Member, provider, logins, SignInTypeOK
<1>9. ASSUME NEW o \in 1 .. MaxOrgs, RevokeKey(o) \/ PurgeOrg(o) PROVE SignInTypeOK'
  BY <1>9 DEF RevokeKey, PurgeOrg, provider, logins, SignInTypeOK
<1>10. ASSUME NEW b \in Browsers, Login(b) \/ Abandon(b) PROVE SignInTypeOK'
  BY <1>10 DEF Login, Abandon, provider, logins, users, SignInTypeOK
<1>11. ASSUME NEW b \in Browsers, Callback(b) \/ Exchange(b) PROVE SignInTypeOK'
  <2>1. CASE Callback(b)
    BY <2>1 DEF Callback, provider, logins, users, SignInTypeOK
  <2>2. CASE Exchange(b)
    <3>1. PICK t \in [key : {0, signing}, kid : BOOLEAN] :
            callback' = [callback EXCEPT ![b] = t]
      BY <2>2 DEF Exchange
    <3>2. t \in IdTokens /\ t.key <= signing /\ t.key \in Int
      BY <1>1, <3>1 DEF IdTokens, SignInTypeOK
    <3>3. /\ states' \subseteq Browsers /\ passed' \subseteq Browsers
          /\ UNCHANGED <<signing, published, jwks, bearer, users, crashes>>
      BY <2>2 DEF Exchange, provider, SignInTypeOK
    <3>4. callback' \in [Browsers -> IdTokens] /\ \A c \in Browsers : callback'[c].key <= signing'
      BY <3>1, <3>2, <3>3, CallbackType
    <3> QED BY <3>3, <3>4 DEF users, SignInTypeOK
  <2> QED BY <1>11, <2>1, <2>2
<1>12. ASSUME NEW b \in Browsers, Verify(b) PROVE SignInTypeOK'
  <2>1. jwks' \subseteq 1 .. signing
    BY <1>12, FetchedType DEF Verify
  <2>2. /\ callback' = [callback EXCEPT ![b] = NoIdToken]
        /\ UNCHANGED <<provider, bearer, logins, made, orgs, keyed, crashes>>
    BY <1>12 DEF Verify
  <2>3. known' \in BOOLEAN /\ session' \in [Browsers -> NoSession .. made]
    <3>1. CASE UNCHANGED <<known, session>>
      BY <3>1 DEF SignInTypeOK
    <3>2. CASE known' = TRUE /\ \E s \in {Onboarding} \cup orgs : SetSession(b, s)
      <4>1. \A s \in {Onboarding} \cup orgs : s \in NoSession .. made
        BY <1>1 DEF Onboarding, NoSession
      <4> QED BY <1>1, <3>2, <4>1, SessionType
    <3> QED BY <1>12, <3>1, <3>2 DEF Verify
  <2>5. UNCHANGED <<signing, published, bearer, states, passed, made, orgs, keyed, crashes>>
    BY <2>2 DEF provider, logins
  <2>4. callback' \in [Browsers -> IdTokens] /\ \A c \in Browsers : callback'[c].key <= signing'
    BY <1>1, <2>2, <2>5, CallbackType
  <2> QED BY <2>1, <2>3, <2>4, <2>5, Zenon DEF SignInTypeOK
<1>13. ASSUME NEW b \in Browsers, VerifyFails(b) PROVE SignInTypeOK'
  <2>1. callback' = [callback EXCEPT ![b] = NoIdToken] /\ jwks' \in {jwks, published}
        /\ UNCHANGED <<signing, published, bearer, states, passed, users, crashes>>
    BY <1>13 DEF VerifyFails, provider, logins
  <2>2. callback' \in [Browsers -> IdTokens] /\ \A c \in Browsers : callback'[c].key <= signing'
    BY <1>1, <2>1, CallbackType
  <2> QED BY <2>1, <2>2 DEF users, SignInTypeOK
<1>14. ASSUME NEW b \in Browsers, CreateOrg(b) PROVE SignInTypeOK'
  <2>1. made' \in 0 .. MaxOrgs /\ orgs' \subseteq 1 .. made' /\ keyed' \subseteq orgs'
        /\ made' = made + 1
    BY <1>1, <1>14 DEF CreateOrg, NewOrg, SignInTypeOK
  <2>2. session' \in [Browsers -> NoSession .. made']
    BY <1>1, <1>14, <2>1, SessionType DEF CreateOrg, NoSession
  <2> QED BY <1>14, <2>1, <2>2 DEF CreateOrg, provider, logins, SignInTypeOK
<1>15. ASSUME NEW b \in Browsers, Logout(b) PROVE SignInTypeOK'
  <2>1. session' \in [Browsers -> NoSession .. made]
    BY <1>1, <1>15, SessionType DEF Logout, NoSession
  <2> QED BY <1>15, <2>1 DEF Logout, provider, logins, SignInTypeOK
<1>16. ASSUME NEW b \in Browsers, NEW o \in 1 .. MaxOrgs, SwitchOrg(b, o) PROVE SignInTypeOK'
  <2>1. session' \in [Browsers -> NoSession .. made]
    BY <1>1, <1>16, SessionType DEF SwitchOrg, Member, NoSession
  <2> QED BY <1>16, <2>1 DEF SwitchOrg, provider, logins, SignInTypeOK
<1>17. CASE UNCHANGED signInVars
  BY <1>17 DEF signInVars, provider, logins, users, SignInTypeOK
<1> QED
  BY <1>2, <1>3, <1>4, <1>5, <1>6, <1>7, <1>8, <1>9, <1>10, <1>11, <1>12, <1>13, <1>14, <1>15,
     <1>16, <1>17 DEF SignInNext

\* Every variable keeps its type; no session and no API key is for an organisation that was
\* never made.
THEOREM SessionsTyped == SignInSpec => []SignInTypeOK
BY SignInTypeInit, SignInTypeStep, PTL DEF SignInSpec

\* The keys the provider publishes now verify the token, whatever the cache held.
LEMMA PublishedVerifies ==
  ASSUME SignInTypeOK, NEW b \in Browsers, Verify(b), Genuine(callback[b])
  PROVE  session'[b] # NoSession
<1>1. \E s \in {Onboarding} \cup orgs : SetSession(b, s)
  BY DEF Verify, Fetched, Verified, Genuine
<1>2. \A s \in {Onboarding} \cup orgs : s # NoSession
  BY SignInAssumption DEF SignInTypeOK, Onboarding, NoSession
<1> QED BY <1>1, <1>2 DEF SetSession, SignInTypeOK

\* A sign-in whose id_token is signed with a published key is never refused for its signature.
THEOREM RotationIsSurvived == SignInSpec => SignInSurvivesRotation
<1>1. SignInTypeOK /\ [SignInNext]_signInVars =>
        [\A b \in Browsers : Verify(b) /\ Genuine(callback[b]) => session'[b] # NoSession]_signInVars
  BY PublishedVerifies
<1> QED BY <1>1, SignInTypeInit, SignInTypeStep, PTL DEF SignInSpec, SignInSurvivesRotation
================================================================================
