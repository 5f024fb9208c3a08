---------------------------------- MODULE Access ----------------------------------
(***************************************************************************)
(* What Redis remembers of the keys and tokens that let agents and jobs     *)
(* report: routers/agents.py, auth.py and routers/heartbeat.py.             *)
(*                                                                          *)
(* The hash of an agent's key, and the job of a heartbeat token, are cached *)
(* for 300 s.  A key changes in the database first and its cache entry is   *)
(* deleted afterwards, or not at all, while other requests read the row and *)
(* fill the cache; a token's entry is never deleted.  A request that        *)
(* presents a key with an old hash writes a new hash of it.                 *)
(*                                                                          *)
(* Roles, rate limits and the bodies of requests are left out.              *)
(***************************************************************************)
EXTENDS Integers

CONSTANTS
  Agents,     \* ids of the agents of one host
  First,      \* the agent the host may have at the start
  Tokens,     \* bootstrap tokens
  Enrolments, \* handlers of enrolments of the host that run at once
  TokenOf,    \* [Enrolments -> Tokens]: what they present
  Requests,   \* request handlers of the API that run at once
  Jobs,       \* jobs with a heartbeat token
  None,
  MaxKeys,    \* bound on the keys ever made
  MaxEdits,   \* bound on pauses and resumptions of jobs
  MaxFaults   \* bound on crashes of the API

Hash == [key : 1 .. MaxKeys, legacy : BOOLEAN] \* key_hash: of which key, argon2 or SHA-256
Row  == [hash : Hash, revoked : BOOLEAN]

\* A request: the key it presents, the hash it found, and what it is about to do with it.  Only
\* a key that its old hash verifies is hashed anew.
Request ==
  {r \in [agent : Agents, key : 1 .. MaxKeys, hash : Hash, step : {"fill", "rehash", "store"}] :
     r.step # "fill" => r.key = r.hash.key /\ r.hash.legacy}

ASSUME AccessAssumption ==
  /\ First \in Agents /\ TokenOf \in [Enrolments -> Tokens]
  /\ MaxKeys \in Nat \ {0} /\ MaxEdits \in Nat /\ MaxFaults \in Nat
  /\ None \notin Row /\ None \notin Hash /\ None \notin Request /\ None \notin Agents

VARIABLES
  rows,      \* [Agents -> Row or None]
  cache,     \* [Agents -> Hash or None]: agentkey:<id> in Redis
  keys,      \* how many keys were made; the next one is keys + 1
  handed,    \* [Agents -> SUBSET Nat]: keys handed out for the agent
  tokens,    \* unused bootstrap tokens
  enrolling, \* [Enrolments -> how far they are]
  found,     \* [Enrolments -> the live agent their SELECT has found, or None]
  forget,    \* agents whose cache entry a rotate or revoke is about to delete
  req,       \* [Requests -> Request or None]
  replaced,  \* ghost: agents whose new key was overwritten by a rehash of an older one
  job,       \* [Jobs -> "active", "paused" or "deleted"]
  resolved,  \* jobs whose token is cached: hb:<token> in Redis
  resolving, \* jobs whose row a heartbeat has read and is about to cache
  edits, faults

agents  == <<rows, cache, keys, handed, tokens, enrolling, found, forget, req, replaced>>
jobs    == <<job, resolved, resolving, edits>>

vars == <<agents, jobs, faults>>

--------------------------------------------------------------------------------
(* Keys of agents                                                             *)

Live(a) == rows[a] # None /\ ~rows[a].revoked

\* A new key of agent a, with a SHA-256 hash; it takes no revocation back.
NewKey(a) ==
  /\ keys < MaxKeys
  /\ keys' = keys + 1
  /\ rows' = [rows EXCEPT ![a] = [hash |-> [key |-> keys + 1, legacy |-> FALSE],
                                  revoked |-> rows[a] # None /\ ~Live(a)]]
  /\ handed' = [handed EXCEPT ![a] = @ \cup {keys + 1}]

Rotate(a) ==
  /\ Live(a)
  /\ NewKey(a)
  /\ forget' = forget \cup {a}
  /\ replaced' = replaced \ {a}
  /\ UNCHANGED <<cache, tokens, enrolling, found, req, jobs, faults>>

Revoke(a) ==
  /\ rows[a] # None
  /\ rows' = [rows EXCEPT ![a].revoked = TRUE]
  /\ forget' = forget \cup {a}
  /\ UNCHANGED <<cache, keys, handed, tokens, enrolling, found, req, replaced, jobs, faults>>

\* The last step of rotate and revoke.
DeleteEntry(a) ==
  /\ a \in forget
  /\ forget' = forget \ {a}
  /\ cache' = [cache EXCEPT ![a] = None]
  /\ UNCHANGED <<rows, keys, handed, tokens, enrolling, found, req, replaced, jobs, faults>>

BootstrapToken(t) ==
  /\ t \notin tokens /\ \A e \in Enrolments : TokenOf[e] = t => enrolling[e] = "none"
  /\ tokens' = tokens \cup {t}
  /\ UNCHANGED <<rows, cache, keys, handed, enrolling, found, forget, req, replaced, jobs, faults>>

\* An enrolment goes through its steps.
Enrolling(e, from, to) == enrolling[e] = from /\ enrolling' = [enrolling EXCEPT ![e] = to]

Admit(e) ==
  /\ TokenOf[e] \in tokens
  /\ Enrolling(e, "none", "admitted")
  /\ UNCHANGED <<rows, cache, keys, handed, tokens, found, forget, req, replaced, jobs, faults>>

\* The SELECT: an agent of the host that is not revoked, or none.
LookUp(e) ==
  /\ Enrolling(e, "admitted", "looked")
  /\ \/ \E a \in Agents : Live(a) /\ found' = [found EXCEPT ![e] = a]
     \/ (\A a \in Agents : ~Live(a)) /\ UNCHANGED found
  /\ UNCHANGED <<rows, cache, keys, handed, tokens, forget, req, replaced, jobs, faults>>

\* The agent that was found gets a new key, or a new agent its first one; the cache is left as
\* it is.  Nothing forbids two rows for one host.
Enroll(e, a) ==
  /\ Enrolling(e, "looked", "committed")
  /\ found[e] = a \/ (found[e] = None /\ rows[a] = None)
  /\ NewKey(a)
  /\ found' = [found EXCEPT ![e] = None]
  /\ replaced' = replaced \ {a}
  /\ UNCHANGED <<cache, tokens, forget, req, jobs, faults>>

DeleteToken(e) ==
  /\ Enrolling(e, "committed", "none")
  /\ tokens' = tokens \ {TokenOf[e]}
  /\ UNCHANGED <<rows, cache, keys, handed, found, forget, req, replaced, jobs, faults>>

--------------------------------------------------------------------------------
(* agent_principal                                                            *)

\* Mutant: the key is hashed anew before it is verified.
Next1Unverified(a, k, h) ==
  IF h.legacy THEN [agent |-> a, key |-> k, hash |-> h, step |-> "rehash"] ELSE None

\* The answer to a key is given when its hash is known; a good key whose hash is an old one
\* is hashed anew first.
Next1(a, k, h) ==
  IF k = h.key /\ h.legacy THEN [agent |-> a, key |-> k, hash |-> h, step |-> "rehash"] ELSE None

Look(i, a, k) ==
  /\ req[i] = None /\ k \in handed[a]
  /\ cache[a] # None \/ Live(a)
  /\ req' = [req EXCEPT ![i] =
       IF cache[a] # None THEN Next1(a, k, cache[a])
       ELSE [agent |-> a, key |-> k, hash |-> rows[a].hash, step |-> "fill"]]
  /\ UNCHANGED <<rows, cache, keys, handed, tokens, enrolling, found, forget, replaced, jobs, faults>>

\* setex, with what the row held when it was read.
Fill(i) ==
  /\ req[i] # None
  /\ req[i].step = "fill"
  /\ cache' = [cache EXCEPT ![req[i].agent] = req[i].hash]
  /\ req' = [req EXCEPT ![i] = Next1(@.agent, @.key, @.hash)]
  /\ UNCHANGED <<rows, keys, handed, tokens, enrolling, found, forget, replaced, jobs, faults>>

\* The UPDATE looks at the id and at revoked_at only.
Rehash(i) ==
  /\ req[i] # None
  /\ req[i].step = "rehash"
  /\ LET a == req[i].agent
         k == req[i].key
     IN /\ rows' = IF Live(a) THEN [rows EXCEPT ![a].hash = [key |-> k, legacy |-> FALSE]] ELSE rows
        /\ replaced' = IF Live(a) /\ rows[a].hash.key # k THEN replaced \cup {a} ELSE replaced
  /\ req' = [req EXCEPT ![i].step = "store"]
  /\ UNCHANGED <<cache, keys, handed, tokens, enrolling, found, forget, jobs, faults>>

Store(i) ==
  /\ req[i] # None
  /\ req[i].step = "store"
  /\ cache' = [cache EXCEPT ![req[i].agent] = [key |-> req[i].key, legacy |-> FALSE]]
  /\ req' = [req EXCEPT ![i] = None]
  /\ UNCHANGED <<rows, keys, handed, tokens, enrolling, found, forget, replaced, jobs, faults>>

\* Mutant: an entry stays until it is deleted.
NeverTooOld(a) == FALSE

TooOld(a) == cache[a] # None

\* 300 s have passed since the entry was set.
Expire(a) ==
  /\ TooOld(a)
  /\ cache' = [cache EXCEPT ![a] = None]
  /\ UNCHANGED <<rows, keys, handed, tokens, enrolling, found, forget, req, replaced, jobs, faults>>

--------------------------------------------------------------------------------
(* Heartbeat tokens                                                           *)

UpdatePaused(j) ==
  /\ edits < MaxEdits /\ job[j] # "deleted"
  /\ edits' = edits + 1
  /\ job' = [job EXCEPT ![j] = IF @ = "active" THEN "paused" ELSE "active"]
  /\ UNCHANGED <<agents, resolved, resolving, faults>>

DeleteJob(j) ==
  /\ job' = [job EXCEPT ![j] = "deleted"]
  /\ UNCHANGED <<agents, resolved, resolving, edits, faults>>

\* Mutant: the row is found whatever its job's state.
FoundPaused(j) == job[j] # "deleted"

Found(j) == job[j] = "active"

\* _resolve, when the token is not cached: the row is read.
Resolve(j) ==
  /\ j \notin resolved \cup resolving /\ Found(j)
  /\ resolving' = resolving \cup {j}
  /\ UNCHANGED <<agents, job, resolved, edits, faults>>

\* It is cached, and the heartbeat goes on to the stream (JobPipeline).
Emit(j) ==
  /\ j \in resolving
  /\ resolving' = resolving \ {j}
  /\ resolved' = resolved \cup {j}
  /\ UNCHANGED <<agents, job, edits, faults>>

Forget(j) ==
  /\ j \in resolved
  /\ resolved' = resolved \ {j}
  /\ UNCHANGED <<agents, job, resolving, edits, faults>>

--------------------------------------------------------------------------------
\* The API stops: requests end where they are.
Crash ==
  /\ faults < MaxFaults
  /\ faults' = faults + 1
  /\ req' = [i \in Requests |-> None]
  /\ enrolling' = [e \in Enrolments |-> "none"] /\ found' = [e \in Enrolments |-> None]
  /\ forget' = {} /\ resolving' = {}
  /\ UNCHANGED <<rows, cache, keys, handed, tokens, replaced, job, resolved, edits>>

\* An agent enrolled before hashes were SHA-256, or since, or not yet.
Init ==
  /\ \/ rows = [a \in Agents |-> None]
     \/ \E h \in [key : {1}, legacy : BOOLEAN] :
          rows = [a \in Agents |-> IF a = First THEN [hash |-> h, revoked |-> FALSE] ELSE None]
  /\ handed = [a \in Agents |-> IF rows[a] = None THEN {} ELSE {1}]
  /\ keys = 1
  /\ cache = [a \in Agents |-> None] /\ replaced = {}
  /\ tokens = {} /\ forget = {}
  /\ enrolling = [e \in Enrolments |-> "none"] /\ found = [e \in Enrolments |-> None]
  /\ req = [i \in Requests |-> None]
  /\ job = [j \in Jobs |-> "active"] /\ resolved = {} /\ resolving = {}
  /\ edits = 0 /\ faults = 0

Handle(i) ==
  \/ \E a \in Agents, k \in 1 .. keys : Look(i, a, k)
  \/ Fill(i) \/ Rehash(i) \/ Store(i)

Next ==
  \/ \E a \in Agents : Rotate(a) \/ Revoke(a) \/ DeleteEntry(a) \/ Expire(a)
  \/ \E t \in Tokens : BootstrapToken(t)
  \/ \E e \in Enrolments : Admit(e) \/ LookUp(e) \/ DeleteToken(e) \/ \E a \in Agents : Enroll(e, a)
  \/ \E i \in Requests : Handle(i)
  \/ \E j \in Jobs : UpdatePaused(j) \/ DeleteJob(j) \/ Resolve(j) \/ Emit(j) \/ Forget(j)
  \/ Crash

Spec == Init /\ [][Next]_vars

\* Redis lets entries expire and a request that has begun ends; no one has to send any.
FairSpec ==
  /\ Spec
  /\ \A a \in Agents : WF_vars(Expire(a))
  /\ \A i \in Requests : WF_vars(Fill(i) \/ Rehash(i) \/ Store(i))
  /\ \A j \in Jobs : WF_vars(Forget(j)) /\ WF_vars(Emit(j))

--------------------------------------------------------------------------------
(* Properties                                                                 *)

TypeOK ==
  /\ rows \in [Agents -> Row \cup {None}] /\ cache \in [Agents -> Hash \cup {None}]
  /\ keys \in 1 .. MaxKeys /\ handed \in [Agents -> SUBSET (1 .. keys)]
  /\ tokens \subseteq Tokens /\ found \in [Enrolments -> Agents \cup {None}]
  /\ enrolling \in [Enrolments -> {"none", "admitted", "looked", "committed"}]
  /\ forget \subseteq Agents /\ req \in [Requests -> Request \cup {None}]
  /\ replaced \subseteq Agents
  /\ job \in [Jobs -> {"active", "paused", "deleted"}]
  /\ resolved \subseteq Jobs /\ resolving \subseteq Jobs
  /\ edits \in 0 .. MaxEdits /\ faults \in 0 .. MaxFaults

\* The keys that would be accepted of agent a now.
Accepted(a) ==
  IF cache[a] # None THEN {cache[a].key} ELSE IF Live(a) THEN {rows[a].hash.key} ELSE {}

Due(a) == IF Live(a) THEN {k \in handed[a] : \A o \in handed[a] : o <= k} ELSE {}

\* In the end the cache agrees with the database.  An agent is let in with the key it was
\* given last, and not at all once it is revoked, whatever requests fill the cache between
\* the change of the row and the deletion of the entry, and also when there is no such
\* deletion (agents.py: enroll, or a crash), unless a rehash wrote an older key back; and
\* the token of a job that is paused or deleted is not taken any more (heartbeat.py: _resolve).
AnswersConverge ==
  <>[](/\ \A a \in Agents \ replaced : Accepted(a) = Due(a)
       /\ \A j \in resolved : job[j] = "active")
================================================================================
