------------------------------- MODULE PlanLimits -------------------------------
(***************************************************************************)
(* The plan of an organisation and the number of jobs it allows             *)
(* (routers/billing.py, routers/jobs.py, routers/agents.py, routers/k8s.py).*)
(*                                                                          *)
(* Admins check out a plan with Stripe; Stripe reports what becomes of the  *)
(* subscription in webhook events that arrive at least once and in any      *)
(* order.  Jobs are created by users, by the discovery of the hosts' agents *)
(* and by that of the clusters' agents, in transactions that count the jobs *)
(* first and insert later.                                                  *)
(*                                                                          *)
(* Stripe itself, prices, periods and trials are left out.                  *)
(***************************************************************************)
EXTENDS Integers, FiniteSets

CONSTANTS
  Paid,            \* plans with a Stripe price
  Cap,             \* [Paid \cup {"free"} -> Nat or None]: plan_limits.max_jobs
  Manual,          \* jobs that users create
  Hosts, Crontab,  \* agents, and [Hosts -> set of entries they discover]
  Clustered,       \* CronJobs a cluster's agent discovers
  None,
  MaxCustomers, MaxEvents, MaxFaults, MaxEdits \* bounds

Plans == Paid \cup {"free"}
Makers == Manual \cup Hosts
AllJobs == Manual \cup Clustered \cup UNION {Crontab[h] : h \in Hosts}

Subscription == [id : 1 .. MaxEvents, cust : 1 .. MaxCustomers, plan : Paid,
                 status : {"active", "past_due", "canceled"}]

Event == [n : 1 .. MaxEvents, type : {"completed", "updated", "deleted", "payment_failed"},
          cust : 1 .. MaxCustomers, plan : Paid, status : {"active", "past_due", "canceled"}]

\* An open checkout: the customer it read, or made, and a Stripe session of one.
Checkout == [cust : 1 .. MaxCustomers, made : BOOLEAN, plan : Paid]
Session  == [cust : 1 .. MaxCustomers, plan : Paid]

\* What an open creation has read, and (a ghost) whether another one committed since.
Reading == [n : 0 .. Cardinality(AllJobs), cap : {Cap[p] : p \in Plans}, overtaken : BOOLEAN]

ASSUME PlanAssumption ==
  /\ Cap \in [Plans -> Nat \cup {None}]
  /\ "free" \notin Paid /\ None \notin Reading /\ None \notin Nat /\ IsFiniteSet(AllJobs)
  /\ \A x, y \in {Manual, Clustered} \cup {Crontab[h] : h \in Hosts} : x = y \/ x \cap y = {}
  /\ MaxCustomers \in Nat /\ MaxEvents \in Nat /\ MaxFaults \in Nat /\ MaxEdits \in Nat

VARIABLES
  customers, subs, sessions, \* at Stripe: customers made, subscriptions, open sessions
  sent, inbox,  \* events Stripe has sent, and those it has no 2xx for
  checkouts,    \* open transactions of checkout
  row,          \* subscriptions: [cust, plan, status]
  orgPlan,      \* organizations.plan
  seen,         \* stripe_events
  jobs,         \* jobs of the organisation
  reading,      \* [Makers -> Reading or None]: open creations
  disordered,   \* ghost: an event was applied after a later one
  faults, edits

vars == <<customers, subs, sessions, sent, inbox, checkouts, row, orgPlan, seen, jobs,
          reading, disordered, faults, edits>>

stripe == <<customers, subs, sessions, sent>>
billing == <<row, orgPlan, seen, disordered>>

Fault == faults < MaxFaults /\ faults' = faults + 1
Edit  == edits < MaxEdits /\ edits' = edits + 1

--------------------------------------------------------------------------------
(* checkout                                                                   *)

\* A customer is made at Stripe when the row names none; the transaction stays open.
BeginCheckout(plan) ==
  /\ Edit
  /\ row.cust = None => customers < MaxCustomers
  /\ customers' = IF row.cust = None THEN customers + 1 ELSE customers
  /\ checkouts' = checkouts \cup
       {[cust |-> IF row.cust = None THEN customers' ELSE row.cust,
         made |-> row.cust = None, plan |-> plan]}
  /\ UNCHANGED <<subs, sessions, sent, inbox, billing, jobs, reading, faults>>

EndCheckout(c) ==
  /\ checkouts' = checkouts \ {c}
  /\ row' = IF c.made THEN [row EXCEPT !.cust = c.cust] ELSE row
  /\ sessions' = sessions \cup {[cust |-> c.cust, plan |-> c.plan]}
  /\ UNCHANGED <<customers, subs, sent, inbox, orgPlan, seen, disordered, jobs, reading,
                 faults, edits>>

\* Stripe refuses the session: the new customer is not stored.
FailCheckout(c) ==
  /\ Fault
  /\ checkouts' = checkouts \ {c}
  /\ UNCHANGED <<stripe, inbox, billing, jobs, reading, edits>>

--------------------------------------------------------------------------------
(* Stripe                                                                     *)

Send(types, s) ==
  LET number(t) == sent + 1 + Cardinality({u \in types \ {t} : u = "payment_failed"})
  IN /\ sent + Cardinality(types) <= MaxEvents
     /\ sent' = sent + Cardinality(types)
     /\ inbox' = inbox \cup {[n |-> number(t), type |-> t, cust |-> s.cust, plan |-> s.plan,
                              status |-> s.status] : t \in types}
     /\ UNCHANGED <<customers, checkouts, billing, jobs, reading, faults, edits>>

Pay(k) ==
  LET s == [id |-> sent + 1, cust |-> k.cust, plan |-> k.plan, status |-> "active"]
  IN /\ Send({"completed"}, s)
     /\ subs' = subs \cup {s}
     /\ sessions' = sessions \ {k}

Becomes(s, t) == subs' = (subs \ {s}) \cup {t} /\ UNCHANGED sessions

\* A change of plan in the portal, or a payment that succeeds after all.
Renew(s, plan) ==
  LET t == [s EXCEPT !.plan = plan, !.status = "active"]
  IN s.status # "canceled" /\ t # s /\ Send({"updated"}, t) /\ Becomes(s, t)

PaymentFails(s) ==
  LET t == [s EXCEPT !.status = "past_due"]
  IN s.status = "active" /\ Send({"payment_failed", "updated"}, t) /\ Becomes(s, t)

Cancel(s) ==
  LET t == [s EXCEPT !.status = "canceled"]
  IN s.status # "canceled" /\ Send({"deleted"}, t) /\ Becomes(s, t)

--------------------------------------------------------------------------------
(* webhook                                                                    *)

\* Mutant: no row of stripe_events stops an event that was handled before.
FreshAlways(e) == TRUE

\* ON CONFLICT DO NOTHING on the id of the event.
Fresh(e) == e.n \notin seen

\* Mutant: a subscription that is not active has no plan at all.
EffectiveNull(s) == IF s.status = "active" THEN s.plan ELSE None

Effective(s) == IF s.status = "active" THEN s.plan ELSE "free"

\* completed names the organisation; the others find it by the customer of its row.
Applied(e) ==
  IF e.type = "completed"
  THEN row' = [row EXCEPT !.plan = e.plan, !.status = "active"] /\ orgPlan' = e.plan
  ELSE IF e.cust # row.cust THEN UNCHANGED <<row, orgPlan>>
  ELSE IF e.type = "payment_failed"
       THEN row' = [row EXCEPT !.status = "past_due"] /\ UNCHANGED orgPlan
  ELSE row' = [row EXCEPT !.plan = Effective(e), !.status = e.status] /\ orgPlan' = Effective(e)

\* One transaction; the answer may be lost, and the event comes again.
Webhook(e) ==
  /\ \/ inbox' = inbox \ {e} /\ UNCHANGED faults
     \/ Fault /\ UNCHANGED inbox
  /\ IF Fresh(e)
     THEN /\ Applied(e)
          /\ seen' = seen \cup {e.n}
          /\ disordered' = (disordered \/ (e.n \notin seen /\ \E n \in seen : n > e.n))
     ELSE UNCHANGED billing
  /\ UNCHANGED <<stripe, checkouts, jobs, reading, edits>>

--------------------------------------------------------------------------------
(* Jobs                                                                       *)

\* Mutant: one job too many.
FullAbove(n, cap) == cap # None /\ n > cap

Full(n, cap) == cap # None /\ n >= cap

\* The jobs and the limit are read; the inserts come later in the transaction.
Begin(m) ==
  /\ reading[m] = None
  /\ reading' = [reading EXCEPT ![m] =
       [n |-> Cardinality(jobs), cap |-> Cap[orgPlan], overtaken |-> FALSE]]
  /\ UNCHANGED <<stripe, inbox, checkouts, billing, jobs, faults>>

\* The transaction of m commits with new jobs; the other open ones have read too early.
Insert(m, new) ==
  /\ jobs' = jobs \cup new
  /\ reading' = [o \in Makers |->
       IF o = m \/ reading[o] = None THEN None
       ELSE [reading[o] EXCEPT !.overtaken = @ \/ new # {}]]
  /\ UNCHANGED <<stripe, inbox, checkouts, billing, faults>>

BeginCreate(j) ==
  /\ j \notin jobs /\ Edit
  /\ Begin(j)

BeginDiscovery(h) == Begin(h) /\ UNCHANGED edits

\* create_job answers 402 when the organisation is full.
CreateJob(j) ==
  /\ reading[j] # None
  /\ Insert(j, IF Full(reading[j].n, reading[j].cap) THEN {} ELSE {j})
  /\ UNCHANGED edits

\* Mutant: a host one of whose entries is known is done with.
DiscoveredOnce(h) ==
  {new \in SUBSET Crontab[h] :
     IF Crontab[h] \cap jobs # {} THEN new = {}
     ELSE /\ \A e \in new : ~Full(reading[h].n + Cardinality(new \ {e}), reading[h].cap)
          /\ new # Crontab[h] => Full(reading[h].n + Cardinality(new), reading[h].cap)}

\* What discovery inserts: entries it does not know, counted as it goes, while there is room.
Discovered(h) ==
  LET r == reading[h]
      fresh == Crontab[h] \ jobs
  IN {new \in SUBSET fresh :
        /\ \A e \in new : ~Full(r.n + Cardinality(new \ {e}), r.cap)
        /\ new # fresh => Full(r.n + Cardinality(new), r.cap)}

Discover(h) ==
  /\ reading[h] # None
  /\ \E new \in Discovered(h) : Insert(h, new)
  /\ UNCHANGED edits

\* The handler fails and is rolled back; the agent tries again at its next round.
Abort(m) ==
  /\ reading[m] # None
  /\ Fault
  /\ reading' = [reading EXCEPT ![m] = None]
  /\ UNCHANGED <<stripe, inbox, checkouts, billing, jobs, edits>>

\* discover_cronjobs looks at no limit.
DiscoverCronJobs ==
  /\ Clustered \ jobs # {}
  /\ jobs' = jobs \cup Clustered
  /\ reading' = [o \in Makers |->
       IF reading[o] = None THEN None ELSE [reading[o] EXCEPT !.overtaken = TRUE]]
  /\ UNCHANGED <<stripe, inbox, checkouts, billing, faults, edits>>

DeleteJob(j) ==
  /\ Edit
  /\ jobs' = jobs \ {j}
  /\ UNCHANGED <<stripe, inbox, checkouts, billing, reading, faults>>

--------------------------------------------------------------------------------
Init ==
  /\ customers = 0 /\ subs = {} /\ sessions = {} /\ sent = 0 /\ inbox = {}
  /\ checkouts = {}
  /\ row = [cust |-> None, plan |-> "free", status |-> "active"]
  /\ orgPlan = "free" /\ seen = {} /\ disordered = FALSE
  /\ jobs = {} /\ reading = [m \in Makers |-> None]
  /\ faults = 0 /\ edits = 0

Stripe ==
  \/ \E k \in sessions : Pay(k)
  \/ \E s \in subs : PaymentFails(s) \/ Cancel(s) \/ \E plan \in Paid : Renew(s, plan)

Next ==
  \/ \E plan \in Paid : BeginCheckout(plan)
  \/ \E c \in checkouts : EndCheckout(c) \/ FailCheckout(c)
  \/ Stripe
  \/ \E e \in inbox : Webhook(e)
  \/ \E j \in Manual : BeginCreate(j) \/ CreateJob(j)
  \/ \E h \in Hosts : BeginDiscovery(h) \/ Discover(h)
  \/ \E m \in Makers : Abort(m)
  \/ DiscoverCronJobs
  \/ \E j \in jobs : DeleteJob(j)

Spec == Init /\ [][Next]_vars

\* The agent's discovery loop runs for ever and the handler ends; Stripe and the users need
\* not do anything.
FairSpec == Spec /\ \A h \in Hosts : WF_vars(BeginDiscovery(h)) /\ WF_vars(Discover(h))

--------------------------------------------------------------------------------
(* Properties                                                                 *)

TypeOK ==
  /\ customers \in 0 .. MaxCustomers /\ subs \subseteq Subscription
  /\ sessions \subseteq Session /\ checkouts \subseteq Checkout
  /\ sent \in 0 .. MaxEvents /\ inbox \subseteq Event /\ seen \subseteq 1 .. sent
  /\ row \in [cust : 1 .. MaxCustomers \cup {None}, plan : Plans,
              status : {"active", "past_due", "canceled"}]
  /\ orgPlan \in Plans
  /\ jobs \subseteq AllJobs /\ reading \in [Makers -> Reading \cup {None}]
  /\ disordered \in BOOLEAN /\ faults \in 0 .. MaxFaults /\ edits \in 0 .. MaxEdits

\* Once every event was handled, redelivered ones included, the organisation is on the plan
\* it pays for and its row says how the subscription stands, as long as no event was applied
\* after a later one and there is one subscription, of the customer the row names
\* (billing.py: checkout, webhook, plan on org).
PlanFollowsStripe ==
  {e \in inbox : Fresh(e)} = {} /\ ~disordered =>
    /\ subs = {} => orgPlan = "free"
    /\ \A s \in subs : subs = {s} /\ s.cust = row.cust =>
         orgPlan = Effective(s) /\ row.plan = orgPlan /\ row.status = s.status

\* A creation by a user or by discovery does not take the organisation beyond the limit it
\* has read, however many entries a host reports, unless another creation commits between
\* its count and its inserts (jobs.py and agents.py count before they insert).
WithinLimit ==
  [][\A m \in Makers :
       reading[m] # None /\ reading'[m] = None /\ jobs' # jobs /\ ~reading[m].overtaken
         => reading[m].cap = None \/ Cardinality(jobs') <= reading[m].cap]_vars

\* What a host runs is monitored in the end, also when discovery fails, jobs are deleted or
\* the plan was full and is not any more, unless the organisation is full.
DiscoveredUnlessFull ==
  <>[](Full(Cardinality(jobs), Cap[orgPlan]) \/ \A h \in Hosts : Crontab[h] \subseteq jobs)
================================================================================
