--------------------------- MODULE PlanLimitsProofs ---------------------------
(***************************************************************************)
(* Type correctness of PlanLimits, that no creation takes the organisation  *)
(* beyond the limit it has read unless another one overtook it, and that    *)
(* the plan follows the only subscription once every event of Stripe has    *)
(* been applied in order, for all plans, limits, hosts and crontabs.        *)
(***************************************************************************)
EXTENDS PlanLimits, FiniteSetTheorems, TLAPS

StripeOK ==
  /\ customers \in 0 .. MaxCustomers /\ subs \subseteq Subscription
  /\ sessions \subseteq Session /\ checkouts \subseteq Checkout
  /\ sent \in 0 .. MaxEvents /\ inbox \subseteq Event

BillingOK ==
  /\ seen \subseteq 1 .. sent
  /\ row \in [cust : 1 .. MaxCustomers \cup {None}, plan : Plans,
              status : {"active", "past_due", "canceled"}]
  /\ orgPlan \in Plans /\ disordered \in BOOLEAN

JobsOK == jobs \subseteq AllJobs /\ reading \in [Makers -> Reading \cup {None}]

BoundsOK == faults \in 0 .. MaxFaults /\ edits \in 0 .. MaxEdits

LEMMA TypeOKParts == TypeOK <=> StripeOK /\ BillingOK /\ JobsOK /\ BoundsOK
BY DEF TypeOK, StripeOK, BillingOK, JobsOK, BoundsOK

\* A creation nobody overtook has counted at least the jobs there are.
Counts == \A m \in Makers :
            reading[m] # None /\ ~reading[m].overtaken => Cardinality(jobs) <= reading[m].n

\* Events bear the numbers of those that were sent.
WasSent == \A e \in inbox : e.n <= sent

PlanInv == StripeOK /\ WasSent /\ BillingOK /\ JobsOK /\ BoundsOK /\ Counts

--------------------------------------------------------------------------------
(* Finite sets of jobs                                                        *)

LEMMA JobsFinite ==
  ASSUME NEW S \in SUBSET AllJobs
  PROVE  IsFiniteSet(S) /\ Cardinality(S) \in 0 .. Cardinality(AllJobs)
BY FS_Subset, FS_CardinalityType, PlanAssumption

LEMMA UnionBound ==
  ASSUME NEW S \in SUBSET AllJobs, NEW T \in SUBSET AllJobs
  PROVE  Cardinality(S \cup T) <= Cardinality(S) + Cardinality(T)
<1>1. /\ IsFiniteSet(S) /\ IsFiniteSet(T) /\ IsFiniteSet(S \cap T)
      /\ Cardinality(S) \in Nat /\ Cardinality(T) \in Nat /\ Cardinality(S \cap T) \in Nat
  BY JobsFinite, FS_Subset, FS_CardinalityType
<1>2. Cardinality(S \cup T) = Cardinality(S) + Cardinality(T) - Cardinality(S \cap T)
  BY <1>1, FS_Union
<1> QED BY <1>1, <1>2

--------------------------------------------------------------------------------
(* The invariant                                                              *)

LEMMA PlanInit == Init => PlanInv
<1> SUFFICES ASSUME Init PROVE PlanInv OBVIOUS
<1>1. StripeOK /\ WasSent /\ BoundsOK
  BY PlanAssumption DEF Init, StripeOK, WasSent, BoundsOK
<1>2. BillingOK
  BY DEF Init, BillingOK, Plans
<1>3. JobsOK /\ Counts
  BY DEF Init, JobsOK, Counts
<1> QED BY <1>1, <1>2, <1>3 DEF PlanInv

LEMMA Numbered ==
  ASSUME PlanInv, NEW types, types = {"payment_failed", "updated"} \/ \E u : types = {u},
         sent + Cardinality(types) <= MaxEvents
  PROVE  /\ sent + Cardinality(types) \in 0 .. MaxEvents
         /\ sent <= sent + Cardinality(types)
         /\ \A t \in types :
              sent + 1 + Cardinality({u \in types \ {t} : u = "payment_failed"})
                \in 1 .. sent + Cardinality(types)
<1> SUFFICES ASSUME NEW t \in types
             PROVE  /\ sent + Cardinality(types) \in 0 .. MaxEvents
                    /\ sent <= sent + Cardinality(types)
                    /\ sent + 1 + Cardinality({u \in types \ {t} : u = "payment_failed"})
                         \in 1 .. sent + Cardinality(types)
  <2>1. types # {}
    OBVIOUS
  <2> QED BY <2>1
<1> DEFINE P == {u \in types \ {t} : u = "payment_failed"}
<1>1. IsFiniteSet(types)
  <2>1. IsFiniteSet({"payment_failed"} \cup {"updated"})
    BY FS_Singleton, FS_AddElement
  <2>2. {"payment_failed", "updated"} = {"payment_failed"} \cup {"updated"}
    OBVIOUS
  <2> QED BY <2>1, <2>2, FS_Singleton
<1>2. IsFiniteSet(P) /\ Cardinality(P) <= Cardinality(types \ {t})
  BY <1>1, FS_Subset, FS_RemoveElement
<1>3. Cardinality(types \ {t}) = Cardinality(types) - 1
  BY <1>1, FS_RemoveElement
<1>4. Cardinality(types) \in Nat /\ Cardinality(P) \in Nat
  BY <1>1, <1>2, FS_CardinalityType
<1>5. sent \in Nat
  BY DEF PlanInv, StripeOK
<1> HIDE DEF P
<1>6. sent + Cardinality(types) \in 0 .. MaxEvents /\ sent + 1 + Cardinality(P) \in 1 .. sent + Cardinality(types)
  BY <1>2, <1>3, <1>4, <1>5, PlanAssumption
<1> QED BY <1>4, <1>5, <1>6 DEF P

\* What Stripe sends is well formed, and nothing else changes but Stripe's own state.
LEMMA SendStep ==
  ASSUME PlanInv, NEW types \in SUBSET {"completed", "updated", "deleted", "payment_failed"},
         types = {"payment_failed", "updated"} \/ \E u : types = {u},
         NEW s \in Subscription, Send(types, s)
  PROVE  /\ sent' \in 0 .. MaxEvents /\ sent <= sent' /\ inbox' \subseteq Event /\ WasSent'
         /\ UNCHANGED <<customers, checkouts, row, orgPlan, seen, disordered, jobs, reading,
                        faults, edits>>
<1> DEFINE number(t) == sent + 1 + Cardinality({u \in types \ {t} : u = "payment_failed"})
           new == {[n |-> number(t), type |-> t, cust |-> s.cust, plan |-> s.plan,
                    status |-> s.status] : t \in types}
<1>1. /\ sent + Cardinality(types) <= MaxEvents /\ sent' = sent + Cardinality(types)
      /\ inbox' = inbox \cup new
      /\ UNCHANGED <<customers, checkouts, row, orgPlan, seen, disordered, jobs, reading,
                     faults, edits>>
  BY DEF Send, billing
<1>2. /\ sent + Cardinality(types) \in 0 .. MaxEvents /\ sent <= sent + Cardinality(types)
      /\ \A t \in types : number(t) \in 1 .. sent + Cardinality(types)
  BY <1>1, Numbered
<1> HIDE DEF number
<1>a. \A t \in types : number(t) \in 1 .. MaxEvents /\ number(t) <= sent'
  BY <1>1, <1>2, PlanAssumption
<1>3. ASSUME NEW e \in new PROVE e \in Event /\ e.n <= sent'
  <2>1. PICK t \in types : e = [n |-> number(t), type |-> t, cust |-> s.cust, plan |-> s.plan,
                                status |-> s.status]
    OBVIOUS
  <2> QED BY <2>1, <1>a DEF Event, Subscription
<1>4. sent \in Nat /\ sent' \in Nat /\ sent <= sent' /\ \A e \in inbox : e.n \in Nat /\ e.n <= sent
  BY <1>1, <1>2 DEF PlanInv, StripeOK, WasSent, Event
<1>5. inbox' \subseteq Event /\ WasSent'
  BY <1>1, <1>3, <1>4 DEF PlanInv, StripeOK, WasSent
<1> QED BY <1>1, <1>2, <1>5

\* Stripe's steps leave billing and jobs alone.
LEMMA StripeKeeps ==
  ASSUME PlanInv, StripeOK', WasSent', sent <= sent', sent' \in Nat,
         UNCHANGED <<row, orgPlan, seen, disordered, jobs, reading, faults, edits>>
  PROVE  PlanInv'
<1>1. BillingOK'
  BY DEF PlanInv, StripeOK, BillingOK
<1>2. JobsOK' /\ BoundsOK' /\ Counts'
  BY DEF PlanInv, JobsOK, BoundsOK, Counts
<1> QED BY <1>1, <1>2 DEF PlanInv

LEMMA PayStep == ASSUME PlanInv, NEW k \in sessions, Pay(k) PROVE PlanInv'
<1> DEFINE s == [id |-> sent + 1, cust |-> k.cust, plan |-> k.plan, status |-> "active"]
<1>1. /\ Send({"completed"}, s) /\ subs' = subs \cup {s} /\ sessions' = sessions \ {k}
      /\ sent + Cardinality({"completed"}) <= MaxEvents
  BY DEF Pay, Send
<1>2. Cardinality({"completed"}) = 1
  BY FS_Singleton
<1>3. s \in Subscription
  BY <1>1, <1>2, PlanAssumption DEF PlanInv, StripeOK, Session, Subscription
<1> HIDE DEF s
<1>4. /\ sent' \in 0 .. MaxEvents /\ sent <= sent' /\ inbox' \subseteq Event /\ WasSent'
      /\ UNCHANGED <<customers, checkouts, row, orgPlan, seen, disordered, jobs, reading,
                     faults, edits>>
  BY <1>1, <1>3, SendStep
<1>5. StripeOK'
  BY <1>1, <1>3, <1>4 DEF PlanInv, StripeOK
<1> QED BY <1>4, <1>5, StripeKeeps

LEMMA ChangeStep ==
  ASSUME PlanInv, NEW s \in subs, NEW t \in Subscription, Becomes(s, t),
         NEW types \in SUBSET {"completed", "updated", "deleted", "payment_failed"},
         types = {"payment_failed", "updated"} \/ \E u : types = {u}, Send(types, t)
  PROVE  PlanInv'
<1>1. /\ sent' \in 0 .. MaxEvents /\ sent <= sent' /\ inbox' \subseteq Event /\ WasSent'
      /\ UNCHANGED <<customers, checkouts, row, orgPlan, seen, disordered, jobs, reading,
                     faults, edits>>
  BY SendStep
<1>2. StripeOK'
  BY <1>1 DEF PlanInv, StripeOK, Becomes
<1> QED BY <1>1, <1>2, StripeKeeps

LEMMA StripeStep == ASSUME PlanInv, Stripe PROVE PlanInv'
<1>1. ASSUME NEW k \in sessions, Pay(k) PROVE PlanInv'
  BY <1>1, PayStep
<1>2. ASSUME NEW s \in subs, PaymentFails(s) PROVE PlanInv'
  <2> DEFINE t == [s EXCEPT !.status = "past_due"]
  <2>1. t \in Subscription
    BY DEF PlanInv, StripeOK, Subscription
  <2>2. Send({"payment_failed", "updated"}, t) /\ Becomes(s, t)
    BY <1>2 DEF PaymentFails
  <2> HIDE DEF t
  <2> QED BY <2>1, <2>2, ChangeStep
<1>3. ASSUME NEW s \in subs, Cancel(s) PROVE PlanInv'
  <2> DEFINE t == [s EXCEPT !.status = "canceled"]
  <2>1. t \in Subscription
    BY DEF PlanInv, StripeOK, Subscription
  <2>2. Send({"deleted"}, t) /\ Becomes(s, t)
    BY <1>3 DEF Cancel
  <2> HIDE DEF t
  <2> QED BY <2>1, <2>2, ChangeStep
<1>4. ASSUME NEW s \in subs, NEW plan \in Paid, Renew(s, plan) PROVE PlanInv'
  <2> DEFINE t == [s EXCEPT !.plan = plan, !.status = "active"]
  <2>1. t \in Subscription
    BY DEF PlanInv, StripeOK, Subscription
  <2>2. Send({"updated"}, t) /\ Becomes(s, t)
    BY <1>4 DEF Renew
  <2> HIDE DEF t
  <2> QED BY <2>1, <2>2, ChangeStep
<1> QED BY <1>1, <1>2, <1>3, <1>4 DEF Stripe

LEMMA CheckoutStep ==
  ASSUME PlanInv,
         \/ \E plan \in Paid : BeginCheckout(plan)
         \/ \E c \in checkouts : EndCheckout(c) \/ FailCheckout(c)
  PROVE  PlanInv'
<1> USE DEF PlanInv
<1>1. ASSUME NEW plan \in Paid, BeginCheckout(plan) PROVE PlanInv'
  <2> DEFINE c == [cust |-> IF row.cust = None THEN customers' ELSE row.cust,
                   made |-> row.cust = None, plan |-> plan]
  <2>a. /\ customers' = IF row.cust = None THEN customers + 1 ELSE customers
        /\ row.cust = None => customers < MaxCustomers
        /\ checkouts' = checkouts \cup {c}
        /\ UNCHANGED <<subs, sessions, sent, inbox>>
        /\ edits < MaxEdits /\ edits' = edits + 1 /\ UNCHANGED faults
    BY <1>1 DEF BeginCheckout, Edit
  <2>b. customers' \in 0 .. MaxCustomers /\ (row.cust = None => customers' \in 1 .. MaxCustomers)
    BY <2>a, PlanAssumption DEF StripeOK
  <2>c. row.cust # None => row.cust \in 1 .. MaxCustomers
    BY DEF BillingOK
  <2>d. (row.cust = None) \in BOOLEAN
    OBVIOUS
  <2>e. c \in Checkout
    BY <2>b, <2>c, <2>d DEF Checkout
  <2> HIDE DEF c
  <2>1. StripeOK' /\ BoundsOK'
    BY <2>a, <2>b, <2>e, PlanAssumption DEF StripeOK, BoundsOK
  <2>2. WasSent' /\ BillingOK' /\ JobsOK' /\ Counts'
    BY <1>1, <2>a DEF WasSent, BeginCheckout, billing, BillingOK, JobsOK, Counts
  <2> QED BY <2>1, <2>2
<1>2. ASSUME NEW c \in checkouts, EndCheckout(c) PROVE PlanInv'
  <2>1. c \in Checkout
    BY DEF StripeOK
  <2>2. StripeOK' /\ WasSent' /\ BoundsOK' /\ JobsOK' /\ Counts'
    BY <1>2, <2>1 DEF EndCheckout, StripeOK, WasSent, BoundsOK, JobsOK, Counts, Checkout, Session
  <2>3. BillingOK'
    BY <1>2, <2>1 DEF EndCheckout, BillingOK, Checkout
  <2> QED BY <2>2, <2>3
<1>3. ASSUME NEW c \in checkouts, FailCheckout(c) PROVE PlanInv'
  BY <1>3, PlanAssumption
     DEF FailCheckout, Fault, stripe, billing, StripeOK, WasSent, BoundsOK, BillingOK, JobsOK, Counts
<1> QED BY <1>1, <1>2, <1>3

LEMMA WebhookStep == ASSUME PlanInv, NEW e \in inbox, Webhook(e) PROVE PlanInv'
<1> USE DEF PlanInv
<1>1. e \in Event
  BY DEF StripeOK
<1>2. StripeOK' /\ WasSent' /\ BoundsOK' /\ JobsOK' /\ Counts'
  BY PlanAssumption DEF Webhook, Fault, stripe, StripeOK, WasSent, BoundsOK, JobsOK, Counts
<1>3. BillingOK'
  <2>1. CASE ~Fresh(e)
    BY <2>1 DEF Webhook, billing, stripe, BillingOK
  <2>2. CASE Fresh(e)
    <3>1. /\ Applied(e) /\ seen' = seen \cup {e.n} /\ sent' = sent
          /\ disordered' = (disordered \/ (e.n \notin seen /\ \E n \in seen : n > e.n))
      BY <2>2 DEF Webhook, stripe
    <3>2. disordered' \in BOOLEAN
      BY <3>1 DEF BillingOK
    <3>3. Effective(e) \in Plans /\ e.plan \in Plans
      BY <1>1 DEF Effective, Event, Plans
    <3>4. /\ row' \in [cust : 1 .. MaxCustomers \cup {None}, plan : Plans,
                       status : {"active", "past_due", "canceled"}]
          /\ orgPlan' \in Plans
      BY <1>1, <3>1, <3>3 DEF Applied, BillingOK, Event
    <3>5. seen' \subseteq 1 .. sent'
      <4>1. e.n \in 1 .. sent
        BY <1>1 DEF StripeOK, WasSent, Event
      <4> QED BY <3>1, <4>1 DEF BillingOK
    <3> QED BY <3>2, <3>4, <3>5 DEF BillingOK
  <2> QED BY <2>1, <2>2
<1> QED BY <1>2, <1>3

\* What discovery or a user's request inserts are jobs, as many as there was room for.
Fits(m, new) ==
  /\ new \subseteq AllJobs
  /\ new # {} => reading[m].cap = None \/ reading[m].n + Cardinality(new) <= reading[m].cap

LEMMA MadeFits ==
  ASSUME PlanInv, NEW j \in Manual, reading[j] # None
  PROVE  Fits(j, IF Full(reading[j].n, reading[j].cap) THEN {} ELSE {j})
<1>1. reading[j] \in Reading /\ j \in AllJobs
  BY DEF PlanInv, JobsOK, Makers, AllJobs
<1>2. reading[j].n \in Nat /\ (reading[j].cap = None \/ reading[j].cap \in Nat)
  <2>1. \A p \in Plans : Cap[p] \in Nat \cup {None}
    BY PlanAssumption
  <2>2. Cardinality(AllJobs) \in Nat
    BY PlanAssumption, FS_CardinalityType
  <2> QED BY <1>1, <2>1, <2>2 DEF Reading
<1>3. Cardinality({j}) = 1
  BY FS_Singleton
<1> QED BY <1>1, <1>2, <1>3 DEF Fits, Full

LEMMA DiscoveredFits ==
  ASSUME PlanInv, NEW h \in Hosts, reading[h] # None, NEW new \in Discovered(h)
  PROVE  Fits(h, new)
<1>1. reading[h] \in Reading
  BY DEF PlanInv, JobsOK, Makers
<1>2. reading[h].n \in Nat /\ (reading[h].cap = None \/ reading[h].cap \in Nat)
  <2>1. \A p \in Plans : Cap[p] \in Nat \cup {None}
    BY PlanAssumption
  <2>2. Cardinality(AllJobs) \in Nat
    BY PlanAssumption, FS_CardinalityType
  <2> QED BY <1>1, <2>1, <2>2 DEF Reading
<1>3. new \subseteq AllJobs
  BY DEF Discovered, AllJobs
<1>4. ASSUME NEW e \in new
      PROVE  reading[h].cap = None \/ reading[h].n + Cardinality(new) <= reading[h].cap
  <2>1. ~Full(reading[h].n + Cardinality(new \ {e}), reading[h].cap)
    BY <1>4 DEF Discovered
  <2>2. Cardinality(new) \in Nat /\ Cardinality(new \ {e}) = Cardinality(new) - 1
    BY <1>3, JobsFinite, FS_RemoveElement, FS_CardinalityType
  <2> QED BY <2>1, <2>2, <1>2 DEF Full
<1> QED BY <1>3, <1>4 DEF Fits

LEMMA InsertStep ==
  ASSUME PlanInv, NEW m \in Makers, reading[m] # None, NEW new, Fits(m, new),
         Insert(m, new), UNCHANGED edits
  PROVE  PlanInv'
<1> USE DEF PlanInv
<1>1. /\ jobs' = jobs \cup new
      /\ reading' = [o \in Makers |->
           IF o = m \/ reading[o] = None THEN None
           ELSE [reading[o] EXCEPT !.overtaken = @ \/ new # {}]]
      /\ UNCHANGED <<stripe, inbox, checkouts, billing, faults>>
  BY DEF Insert
<1>2. ASSUME NEW o \in Makers, reading[o] # None, o # m
      PROVE  /\ reading'[o] \in Reading /\ reading'[o].n = reading[o].n
             /\ ~reading'[o].overtaken => ~reading[o].overtaken /\ new = {}
  <2>1. reading[o] \in Reading
    BY <1>2 DEF JobsOK
  <2> DEFINE b == reading[o].overtaken \/ new # {}
  <2>2. reading'[o] = [reading[o] EXCEPT !.overtaken = b]
    BY <1>1, <1>2
  <2>3. b \in BOOLEAN
    OBVIOUS
  <2>4. b <=> (reading[o].overtaken \/ new # {})
    OBVIOUS
  <2> HIDE DEF b
  <2>5. /\ reading'[o] \in Reading /\ reading'[o].n = reading[o].n
        /\ reading'[o].overtaken = b
    BY <2>1, <2>2, <2>3 DEF Reading
  <2> QED BY <2>4, <2>5
<1>3. ASSUME NEW o \in Makers, reading[o] = None \/ o = m PROVE reading'[o] = None
  BY <1>1, <1>3
<1>4. JobsOK'
  <2>1. jobs' \subseteq AllJobs
    BY <1>1 DEF JobsOK, Fits
  <2>2. \A o \in Makers : reading'[o] \in Reading \cup {None}
    BY <1>2, <1>3
  <2> QED BY <2>1, <2>2, <1>1 DEF JobsOK
<1>5. Counts'
  <2> SUFFICES ASSUME NEW o \in Makers, reading'[o] # None, ~reading'[o].overtaken
               PROVE  Cardinality(jobs') <= reading'[o].n
    BY DEF Counts
  <2>1. reading[o] # None /\ o # m
    BY <1>3
  <2>2. jobs' = jobs /\ ~reading[o].overtaken /\ reading'[o].n = reading[o].n
    BY <1>1, <1>2, <2>1
  <2> QED BY <2>1, <2>2 DEF Counts
<1>6. StripeOK' /\ WasSent' /\ BillingOK' /\ BoundsOK'
  BY <1>1 DEF stripe, billing, StripeOK, WasSent, BillingOK, BoundsOK
<1> QED BY <1>4, <1>5, <1>6

LEMMA BeginStep ==
  ASSUME PlanInv, NEW m \in Makers, Begin(m), edits' \in 0 .. MaxEdits
  PROVE  PlanInv'
<1> USE DEF PlanInv
<1>1. /\ reading[m] = None /\ UNCHANGED <<stripe, inbox, checkouts, billing, jobs, faults>>
      /\ reading' = [reading EXCEPT ![m] =
           [n |-> Cardinality(jobs), cap |-> Cap[orgPlan], overtaken |-> FALSE]]
  BY DEF Begin
<1>2. [n |-> Cardinality(jobs), cap |-> Cap[orgPlan], overtaken |-> FALSE] \in Reading
  BY JobsFinite DEF JobsOK, BillingOK, Reading
<1>3. JobsOK'
  BY <1>1, <1>2 DEF JobsOK
<1>4. Counts'
  <2>1. Cardinality(jobs) <= Cardinality(jobs)
    BY JobsFinite DEF JobsOK
  <2> QED BY <1>1, <2>1 DEF Counts, JobsOK
<1>5. StripeOK' /\ WasSent' /\ BillingOK' /\ BoundsOK'
  BY <1>1 DEF stripe, billing, StripeOK, WasSent, BillingOK, BoundsOK
<1> QED BY <1>3, <1>4, <1>5

\* Fewer jobs, or fewer open creations.
LEMMA LessStep ==
  ASSUME PlanInv, UNCHANGED <<stripe, inbox, checkouts, billing>>, BoundsOK', jobs' \subseteq jobs,
         reading' \in [Makers -> Reading \cup {None}],
         \A m \in Makers : reading'[m] \in {reading[m], None}
  PROVE  PlanInv'
<1> USE DEF PlanInv
<1>1. StripeOK' /\ WasSent' /\ BillingOK' /\ JobsOK'
  BY DEF stripe, billing, StripeOK, WasSent, BillingOK, JobsOK
<1>2. Counts'
  <2> SUFFICES ASSUME NEW m \in Makers, reading'[m] # None, ~reading'[m].overtaken
               PROVE  Cardinality(jobs') <= reading'[m].n
    BY DEF Counts
  <2>1. reading'[m] = reading[m] /\ reading[m] \in Reading
    BY DEF JobsOK
  <2>2. Cardinality(jobs') <= Cardinality(jobs) /\ Cardinality(jobs') \in Nat /\ Cardinality(jobs) \in Nat
    BY JobsFinite, FS_Subset, FS_CardinalityType DEF JobsOK
  <2>3. Cardinality(jobs) <= reading[m].n
    BY <2>1 DEF Counts
  <2>4. reading[m].n \in Nat
    BY <2>1, PlanAssumption, FS_CardinalityType DEF Reading
  <2> QED BY <2>1, <2>2, <2>3, <2>4
<1> QED BY <1>1, <1>2

LEMMA ClusteredStep == ASSUME PlanInv, DiscoverCronJobs PROVE PlanInv'
<1> USE DEF PlanInv
<1>1. /\ jobs' = jobs \cup Clustered
      /\ reading' = [o \in Makers |->
           IF reading[o] = None THEN None ELSE [reading[o] EXCEPT !.overtaken = TRUE]]
      /\ UNCHANGED <<stripe, inbox, checkouts, billing, faults, edits>>
  BY DEF DiscoverCronJobs
<1>2. ASSUME NEW o \in Makers
      PROVE  reading'[o] = None \/ (reading'[o] \in Reading /\ reading'[o].overtaken = TRUE)
  <2>1. CASE reading[o] = None
    BY <1>1, <2>1
  <2>2. CASE reading[o] # None
    <3>1. reading[o] \in Reading /\ reading'[o] = [reading[o] EXCEPT !.overtaken = TRUE]
      BY <1>1, <2>2 DEF JobsOK
    <3> QED BY <3>1 DEF Reading
  <2> QED BY <2>1, <2>2
<1>3. JobsOK'
  <2>1. jobs' \subseteq AllJobs
    <3>1. Clustered \subseteq AllJobs
      BY DEF AllJobs
    <3> QED BY <1>1, <3>1 DEF JobsOK
  <2>2. \A o \in Makers : reading'[o] \in Reading \cup {None}
    BY <1>2
  <2> QED BY <2>1, <2>2, <1>1 DEF JobsOK
<1>a. Counts'
  BY <1>2 DEF Counts
<1>4. StripeOK' /\ WasSent' /\ BillingOK' /\ BoundsOK'
  BY <1>1 DEF stripe, billing, StripeOK, WasSent, BillingOK, BoundsOK
<1> QED BY <1>3, <1>4, <1>a

LEMMA PlanStep == PlanInv /\ [Next]_vars => PlanInv'
<1> SUFFICES ASSUME PlanInv, [Next]_vars PROVE PlanInv' OBVIOUS
<1>1. ASSUME NEW j \in Manual, BeginCreate(j) PROVE PlanInv'
  <2>1. edits' \in 0 .. MaxEdits
    BY <1>1, PlanAssumption DEF BeginCreate, Edit, PlanInv, BoundsOK
  <2> QED BY <1>1, <2>1, BeginStep DEF BeginCreate, Makers
<1>2. ASSUME NEW j \in Manual, CreateJob(j) PROVE PlanInv'
  BY <1>2, MadeFits, InsertStep DEF CreateJob, Makers
<1>3. ASSUME NEW h \in Hosts, BeginDiscovery(h) PROVE PlanInv'
  BY <1>3, BeginStep DEF BeginDiscovery, Makers, PlanInv, BoundsOK
<1>4. ASSUME NEW h \in Hosts, Discover(h) PROVE PlanInv'
  BY <1>4, DiscoveredFits, InsertStep DEF Discover, Makers
<1>5. ASSUME NEW m \in Makers, Abort(m) PROVE PlanInv'
  <2>1. /\ BoundsOK' /\ UNCHANGED <<stripe, inbox, checkouts, billing, jobs>>
        /\ reading' = [reading EXCEPT ![m] = None]
    BY <1>5, PlanAssumption DEF Abort, Fault, PlanInv, BoundsOK
  <2>2. /\ reading' \in [Makers -> Reading \cup {None}]
        /\ \A o \in Makers : reading'[o] \in {reading[o], None}
    BY <2>1 DEF PlanInv, JobsOK
  <2> QED BY <2>1, <2>2, LessStep
<1>6. ASSUME NEW j \in jobs, DeleteJob(j) PROVE PlanInv'
  <2>1. /\ BoundsOK' /\ UNCHANGED <<stripe, inbox, checkouts, billing, reading>>
        /\ jobs' \subseteq jobs
    BY <1>6, PlanAssumption DEF DeleteJob, Edit, PlanInv, BoundsOK
  <2>2. /\ reading' \in [Makers -> Reading \cup {None}]
        /\ \A o \in Makers : reading'[o] \in {reading[o], None}
    BY <2>1 DEF PlanInv, JobsOK
  <2> QED BY <2>1, <2>2, LessStep
<1>7. CASE UNCHANGED vars
  BY <1>7 DEF vars, PlanInv, StripeOK, WasSent, BillingOK, JobsOK, BoundsOK, Counts
<1> QED
  BY <1>1, <1>2, <1>3, <1>4, <1>5, <1>6, <1>7, CheckoutStep, StripeStep, WebhookStep,
     ClusteredStep DEF Next

LEMMA Invariance == Spec => []PlanInv
BY PlanInit, PlanStep, PTL DEF Spec

--------------------------------------------------------------------------------
(* The theorems                                                               *)

\* Type correctness: events are numbered as they were sent, the handled ones among them, and
\* the organisation is always on a plan with a limit.
THEOREM TypeCorrect == Spec => []TypeOK
<1>1. PlanInv => TypeOK BY TypeOKParts DEF PlanInv
<1> QED BY <1>1, Invariance, PTL

\* A creation nobody overtook stays within the limit.
LEMMA CommitStep ==
  ASSUME PlanInv, NEW m \in Makers, reading[m] # None, ~reading[m].overtaken,
         NEW o \in Makers, NEW new, Fits(o, new), Insert(o, new), reading[o] # None,
         reading'[m] = None, jobs' # jobs
  PROVE  reading[m].cap = None \/ Cardinality(jobs') <= reading[m].cap
<1>1. /\ jobs' = jobs \cup new
      /\ reading' = [x \in Makers |->
           IF x = o \/ reading[x] = None THEN None
           ELSE [reading[x] EXCEPT !.overtaken = @ \/ new # {}]]
  BY DEF Insert
<1>2. reading[m] \in Reading /\ jobs \subseteq AllJobs /\ new \subseteq AllJobs
  BY DEF PlanInv, JobsOK, Fits
<1>3. m = o
  <2> SUFFICES ASSUME m # o PROVE FALSE
    OBVIOUS
  <2>1. reading'[m] = [reading[m] EXCEPT !.overtaken = @ \/ new # {}]
    BY <1>1
  <2>2. [reading[m] EXCEPT !.overtaken = @ \/ new # {}] \in Reading
    BY <1>2 DEF Reading
  <2> QED BY <2>1, <2>2, PlanAssumption
<1>4. Cardinality(jobs) <= reading[m].n /\ new # {}
  BY <1>1 DEF PlanInv, Counts
<1>5. Cardinality(jobs \cup new) <= Cardinality(jobs) + Cardinality(new)
  BY <1>2, UnionBound
<1>6. /\ Cardinality(jobs) \in Nat /\ Cardinality(new) \in Nat
      /\ Cardinality(jobs \cup new) \in Nat
  BY <1>2, JobsFinite
<1>7. reading[m].n \in Nat /\ (reading[m].cap = None \/ reading[m].cap \in Nat)
  <2>1. \A p \in Plans : Cap[p] \in Nat \cup {None}
    BY PlanAssumption
  <2>2. Cardinality(AllJobs) \in Nat
    BY PlanAssumption, FS_CardinalityType
  <2> QED BY <1>2, <2>1, <2>2 DEF Reading
<1> QED BY <1>1, <1>3, <1>4, <1>5, <1>6, <1>7 DEF Fits

\* A user's request or a host's discovery that no other creation overtakes leaves the
\* organisation within the limit it has read (count first, insert later: jobs.py, agents.py).
THEOREM CapIsKept == Spec => WithinLimit
<1> DEFINE Within(m) ==
      reading[m] # None /\ reading'[m] = None /\ jobs' # jobs /\ ~reading[m].overtaken
        => reading[m].cap = None \/ Cardinality(jobs') <= reading[m].cap
<1>1. PlanInv /\ [Next]_vars => [\A m \in Makers : Within(m)]_vars
  <2> SUFFICES ASSUME PlanInv, Next, NEW m \in Makers, reading[m] # None, reading'[m] = None,
                      jobs' # jobs, ~reading[m].overtaken
               PROVE  reading[m].cap = None \/ Cardinality(jobs') <= reading[m].cap
    OBVIOUS
  <2>1. ASSUME NEW j \in Manual, CreateJob(j)
        PROVE  reading[m].cap = None \/ Cardinality(jobs') <= reading[m].cap
    BY <2>1, MadeFits, CommitStep DEF CreateJob, Makers
  <2>2. ASSUME NEW h \in Hosts, Discover(h)
        PROVE  reading[m].cap = None \/ Cardinality(jobs') <= reading[m].cap
    BY <2>2, DiscoveredFits, CommitStep DEF Discover, Makers
  <2>3. ~DiscoverCronJobs
    <3> SUFFICES ASSUME DiscoverCronJobs PROVE FALSE
      OBVIOUS
    <3>1. reading'[m] = [reading[m] EXCEPT !.overtaken = TRUE]
      BY DEF DiscoverCronJobs
    <3>2. [reading[m] EXCEPT !.overtaken = TRUE] \in Reading
      <4>1. reading[m] \in Reading
        BY DEF PlanInv, JobsOK
      <4> QED BY <4>1 DEF Reading
    <3> QED BY <3>1, <3>2, PlanAssumption
  <2>4. ASSUME NEW j \in jobs, DeleteJob(j) PROVE FALSE
    BY <2>4 DEF DeleteJob
  <2>5. ASSUME NEW c \in checkouts, EndCheckout(c) \/ FailCheckout(c) PROVE FALSE
    BY <2>5 DEF EndCheckout, FailCheckout
  <2>6. ASSUME NEW plan \in Paid, BeginCheckout(plan) PROVE FALSE
    BY <2>6 DEF BeginCheckout
  <2>7. ASSUME Stripe PROVE FALSE
    BY <2>7 DEF Stripe, Pay, PaymentFails, Cancel, Renew, Send
  <2>8. ASSUME NEW e \in inbox, Webhook(e) PROVE FALSE
    BY <2>8 DEF Webhook
  <2>9. ASSUME NEW o \in Makers, Abort(o) PROVE FALSE
    BY <2>9 DEF Abort
  <2>10. ASSUME NEW j \in Manual, BeginCreate(j) PROVE FALSE
    BY <2>10 DEF BeginCreate, Begin
  <2>11. ASSUME NEW h \in Hosts, BeginDiscovery(h) PROVE FALSE
    BY <2>11 DEF BeginDiscovery, Begin
  <2> QED
    BY <2>1, <2>2, <2>3, <2>4, <2>5, <2>6, <2>7, <2>8, <2>9, <2>10, <2>11 DEF Next
<1> QED BY <1>1, Invariance, PTL DEF Spec, WithinLimit

--------------------------------------------------------------------------------
(* The plan follows Stripe                                                    *)

\* Customers are numbered as they are made.
Named ==
  /\ row.cust # None => row.cust <= customers
  /\ \A c \in checkouts \cup sessions \cup subs : c.cust <= customers

\* A customer that an open checkout made is not known outside that checkout.
Unused ==
  \A c \in checkouts : c.made =>
    /\ c.cust # row.cust
    /\ \A k \in sessions \cup subs : k.cust # c.cust
    /\ \A d \in checkouts : d.cust = c.cust => d = c

\* Every event that was sent is known here or still to come, and every subscription sent one.
Numbers ==
  /\ \A n \in 1 .. sent : n \in seen \/ \E e \in inbox : e.n = n
  /\ IF subs = {} THEN sent = 0 /\ orgPlan = "free" ELSE sent > 0

Says(e, s) ==
  /\ e.type # "payment_failed" /\ e.cust = s.cust /\ e.plan = s.plan /\ e.status = s.status
  /\ e.type = "completed" => e.status = "active"

Follows(s) == orgPlan = Effective(s) /\ row.plan = orgPlan /\ row.status = s.status

\* The last event tells how the only subscription stands, and nothing overrides it in order.
LastCounts ==
  \A s \in subs : subs = {s} =>
    /\ \A e \in inbox : e.n = sent => Says(e, s)
    /\ sent \in seen /\ ~disordered /\ s.cust = row.cust => Follows(s)

FollowInv == Named /\ Unused /\ Numbers /\ LastCounts

\* Nothing of Stripe's and of the organisation's subscription changes.
LEMMA FollowSame ==
  ASSUME FollowInv,
         UNCHANGED <<customers, subs, sessions, sent, inbox, checkouts, row, orgPlan, seen, disordered>>
  PROVE  FollowInv'
BY DEF FollowInv, Named, Unused, Numbers, LastCounts, Follows

\* The last event of a change, which comes with the highest number, tells the new state.
LEMMA SendLast ==
  ASSUME PlanInv, NEW types \in SUBSET {"completed", "updated", "deleted", "payment_failed"},
         types = {"payment_failed", "updated"} \/ \E u : types = {u} /\ u # "payment_failed",
         NEW s \in Subscription, "completed" \in types => s.status = "active", Send(types, s)
  PROVE  /\ sent \in Nat /\ sent' \in Nat /\ sent < sent' /\ inbox \subseteq inbox'
         /\ \A n \in sent + 1 .. sent' : \E e \in inbox' : e.n = n
         /\ \A e \in inbox' : e.n = sent' => Says(e, s)
<1> DEFINE P(t) == {u \in types \ {t} : u = "payment_failed"}
           number(t) == sent + 1 + Cardinality(P(t))
           event(t) == [n |-> number(t), type |-> t, cust |-> s.cust, plan |-> s.plan,
                        status |-> s.status]
<1>1. /\ sent' = sent + Cardinality(types)
      /\ inbox' = inbox \cup {event(t) : t \in types}
  BY DEF Send
<1>2. sent \in Nat /\ \A e \in inbox : e.n \in Nat /\ e.n <= sent
  BY DEF PlanInv, StripeOK, WasSent, Event
<1>3. \/ /\ Cardinality(types) = 1
         /\ \E u \in types : types = {u} /\ u # "payment_failed" /\ number(u) = sent + 1
      \/ /\ Cardinality(types) = 2 /\ types = {"payment_failed", "updated"}
         /\ number("payment_failed") = sent + 1 /\ number("updated") = sent + 2
  <2>1. ASSUME NEW u, types = {u}, u # "payment_failed"
        PROVE  Cardinality(types) = 1 /\ number(u) = sent + 1
    <3>1. P(u) = {} /\ Cardinality({}) = 0
      BY <2>1, FS_EmptySet
    <3>2. Cardinality(P(u)) = 0
      BY <3>1
    <3>3. Cardinality(types) = 1
      BY <2>1, FS_Singleton
    <3> HIDE DEF P
    <3> QED BY <1>2, <3>2, <3>3
  <2>2. CASE types = {"payment_failed", "updated"}
    <3>1. Cardinality(types) = 2
      <4>1. /\ IsFiniteSet({"payment_failed"}) /\ Cardinality({"payment_failed"}) = 1
            /\ "updated" \notin {"payment_failed"}
        BY FS_Singleton
      <4>2. Cardinality({"payment_failed"} \cup {"updated"}) = 1 + 1
        BY <4>1, FS_AddElement
      <4>3. types = {"payment_failed"} \cup {"updated"}
        BY <2>2
      <4> QED BY <4>2, <4>3
    <3>2. P("payment_failed") = {} /\ Cardinality({}) = 0
      BY <2>2, FS_EmptySet
    <3>3. P("updated") = {"payment_failed"} /\ Cardinality({"payment_failed"}) = 1
      BY <2>2, FS_Singleton
    <3>4. Cardinality(P("payment_failed")) = 0 /\ Cardinality(P("updated")) = 1
      BY <3>2, <3>3
    <3> HIDE DEF P
    <3>5. number("payment_failed") = sent + 1 /\ number("updated") = sent + 2
      BY <1>2, <3>4
    <3> QED BY <2>2, <3>1, <3>5
  <2> QED BY <2>1, <2>2
<1> HIDE DEF number
<1>a. Cardinality(types) \in {1, 2}
  BY <1>3
<1>b. \A n \in sent + 1 .. sent + Cardinality(types) : \E t \in types : number(t) = n
  BY <1>2, <1>3
<1>c. \A t \in types : number(t) > sent /\ (number(t) = sent + Cardinality(types) => t # "payment_failed")
  BY <1>2, <1>3
<1>4. \A t \in types : event(t) \in inbox' /\ event(t).n = number(t)
  BY <1>1
<1>5. ASSUME NEW e \in inbox', e.n = sent' PROVE Says(e, s)
  <2>1. e \notin inbox
    BY <1>1, <1>2, <1>a, <1>5
  <2>2. PICK t \in types : e = event(t)
    BY <1>1, <2>1
  <2>3. t # "payment_failed"
    BY <1>1, <1>4, <1>c, <1>5, <2>2
  <2> QED BY <2>2, <2>3 DEF Says
<1>6. sent' \in Nat /\ sent < sent' /\ inbox \subseteq inbox'
  BY <1>1, <1>2, <1>a
<1>7. \A n \in sent + 1 .. sent' : \E e \in inbox' : e.n = n
  BY <1>1, <1>b, <1>4
<1> QED BY <1>2, <1>5, <1>6, <1>7

LEMMA FollowInit == Init => FollowInv
<1> SUFFICES ASSUME Init PROVE FollowInv
  OBVIOUS
<1>1. Numbers
  BY DEF Init, Numbers
<1>2. Named /\ Unused /\ LastCounts
  BY DEF Init, Named, Unused, LastCounts
<1> QED BY <1>1, <1>2 DEF FollowInv

\* A customer that is made has a number of its own.
LEMMA BeginFollows ==
  ASSUME PlanInv, FollowInv, NEW plan \in Paid, BeginCheckout(plan)
  PROVE  FollowInv'
<1> DEFINE k == IF row.cust = None THEN customers' ELSE row.cust
           c == [cust |-> k, made |-> row.cust = None, plan |-> plan]
<1>1. /\ customers' = IF row.cust = None THEN customers + 1 ELSE customers
      /\ checkouts' = checkouts \cup {c}
      /\ UNCHANGED <<subs, sessions, sent, inbox, row, orgPlan, seen, disordered>>
  BY DEF BeginCheckout, billing
<1>2. /\ customers \in Nat /\ (row.cust # None => row.cust \in Nat)
      /\ \A d \in checkouts \cup sessions \cup subs : d.cust \in Nat
  BY DEF PlanInv, StripeOK, BillingOK, Checkout, Session, Subscription
<1>3. k \in Nat /\ k <= customers' /\ customers <= customers' /\ customers' \in Nat
      /\ (row.cust = None => k = customers + 1)
  BY <1>1, <1>2 DEF FollowInv, Named
<1>4. c.cust = k /\ c.made = (row.cust = None)
  OBVIOUS
<1> HIDE DEF c, k
<1>5. Named'
  <2>1. \A d \in checkouts \cup sessions \cup subs : d.cust <= customers'
    BY <1>2, <1>3 DEF FollowInv, Named
  <2>2. row.cust # None => row.cust <= customers'
    BY <1>2, <1>3 DEF FollowInv, Named
  <2> QED BY <1>1, <1>3, <1>4, <2>1, <2>2 DEF Named
<1>6. Unused'
  <2>1. CASE row.cust = None
    <3>1. \A d \in checkouts \cup sessions \cup subs : d.cust # k
      BY <1>2, <1>3, <2>1 DEF FollowInv, Named
    <3>2. k # row.cust
      BY <1>3, <2>1, PlanAssumption
    <3> QED BY <1>1, <1>4, <3>1, <3>2 DEF FollowInv, Unused
  <2>2. CASE row.cust # None
    <3>1. k = row.cust
      BY <2>2 DEF k
    <3> QED BY <1>1, <1>4, <2>2, <3>1 DEF FollowInv, Unused
  <2> QED BY <2>1, <2>2
<1>7. Numbers' /\ LastCounts'
  BY <1>1 DEF FollowInv, Numbers, LastCounts, Follows
<1> QED BY <1>5, <1>6, <1>7 DEF FollowInv

\* A new customer has no subscription yet.
LEMMA EndFollows ==
  ASSUME PlanInv, FollowInv, NEW c \in checkouts, EndCheckout(c) \/ FailCheckout(c)
  PROVE  FollowInv'
<1>1. /\ checkouts' = checkouts \ {c}
      /\ UNCHANGED <<customers, subs, sent, inbox, orgPlan, seen, disordered>>
  BY DEF EndCheckout, FailCheckout, stripe, billing
<1>2. CASE UNCHANGED <<sessions, row>>
  BY <1>1, <1>2 DEF FollowInv, Named, Unused, Numbers, LastCounts, Follows
<1>3. CASE EndCheckout(c)
  <2> DEFINE k == [cust |-> c.cust, plan |-> c.plan]
  <2>1. /\ sessions' = sessions \cup {k}
        /\ row' = IF c.made THEN [row EXCEPT !.cust = c.cust] ELSE row
    BY <1>3 DEF EndCheckout
  <2>2. k.cust = c.cust /\ c.made \in BOOLEAN /\ c.cust <= customers
    BY DEF PlanInv, StripeOK, Checkout, FollowInv, Named
  <2>3. /\ row'.plan = row.plan /\ row'.status = row.status
        /\ row'.cust = IF c.made THEN c.cust ELSE row.cust
    BY <2>1 DEF PlanInv, BillingOK
  <2> HIDE DEF k
  <2>4. Named'
    BY <1>1, <2>1, <2>2, <2>3 DEF FollowInv, Named
  <2>5. Unused'
    BY <1>1, <2>1, <2>2, <2>3 DEF FollowInv, Unused
  <2>6. \A s \in subs : s.cust = row'.cust => s.cust = row.cust
    BY <2>3 DEF FollowInv, Unused
  <2>7. Numbers' /\ LastCounts'
    BY <1>1, <2>3, <2>6 DEF FollowInv, Numbers, LastCounts, Follows
  <2> QED BY <2>4, <2>5, <2>7 DEF FollowInv
<1>4. CASE FailCheckout(c)
  BY <1>2, <1>4 DEF FailCheckout, stripe, billing
<1> QED BY <1>3, <1>4

\* What is left of Stripe's steps once the last event is known.
LEMMA SubFollows ==
  ASSUME PlanInv, FollowInv, NEW s \in Subscription,
         sent \in Nat, sent' \in Nat, sent < sent', inbox \subseteq inbox',
         \A n \in sent + 1 .. sent' : \E e \in inbox' : e.n = n,
         \A e \in inbox' : e.n = sent' => Says(e, s),
         UNCHANGED <<customers, checkouts, row, orgPlan, seen, disordered>>,
         sessions' \subseteq sessions, s \in subs',
         \E k \in sessions \cup subs : s.cust = k.cust,
         subs' \subseteq subs \cup {s}
  PROVE  FollowInv'
<1>1. Named' /\ Unused'
  <2>1. \A t \in sessions' \cup subs' : \E k \in sessions \cup subs : t.cust = k.cust
    OBVIOUS
  <2> QED BY <2>1 DEF FollowInv, Named, Unused
<1>2. Numbers'
  <2>1. \A n \in 1 .. sent' : n \in 1 .. sent \/ n \in sent + 1 .. sent'
    OBVIOUS
  <2>2. \A n \in 1 .. sent' : n \in seen \/ \E e \in inbox' : e.n = n
    BY <2>1 DEF FollowInv, Numbers
  <2> QED BY <2>2 DEF Numbers
<1>3. LastCounts'
  <2>1. sent' \notin seen
    BY DEF PlanInv, BillingOK
  <2> QED BY <2>1 DEF LastCounts
<1> QED BY <1>1, <1>2, <1>3 DEF FollowInv

LEMMA StripeFollows ==
  ASSUME PlanInv, FollowInv, Stripe
  PROVE  FollowInv'
<1>1. ASSUME NEW k \in sessions, Pay(k) PROVE FollowInv'
  <2> DEFINE s == [id |-> sent + 1, cust |-> k.cust, plan |-> k.plan, status |-> "active"]
  <2>1. /\ Send({"completed"}, s) /\ subs' = subs \cup {s} /\ sessions' = sessions \ {k}
        /\ sent + Cardinality({"completed"}) <= MaxEvents
    BY <1>1 DEF Pay, Send
  <2>2. Cardinality({"completed"}) = 1
    BY FS_Singleton
  <2>3. s \in Subscription /\ s.cust = k.cust /\ s.status = "active"
    BY <2>1, <2>2, PlanAssumption DEF PlanInv, StripeOK, Session, Subscription
  <2> HIDE DEF s
  <2>4. UNCHANGED <<customers, checkouts, row, orgPlan, seen, disordered>>
    BY <2>1 DEF Send, billing
  <2>5. /\ sent \in Nat /\ sent' \in Nat /\ sent < sent' /\ inbox \subseteq inbox'
        /\ \A n \in sent + 1 .. sent' : \E e \in inbox' : e.n = n
        /\ \A e \in inbox' : e.n = sent' => Says(e, s)
    BY <2>1, <2>3, SendLast
  <2> QED BY <2>1, <2>3, <2>4, <2>5, SubFollows
<1>2. ASSUME NEW s \in subs, NEW t \in Subscription, t.cust = s.cust, Becomes(s, t),
             NEW types \in SUBSET {"updated", "deleted", "payment_failed"},
             types = {"payment_failed", "updated"} \/ \E u : types = {u} /\ u # "payment_failed",
             Send(types, t)
      PROVE  FollowInv'
  <2>1. subs' = (subs \ {s}) \cup {t} /\ sessions' = sessions
    BY <1>2 DEF Becomes
  <2>2. UNCHANGED <<customers, checkouts, row, orgPlan, seen, disordered>>
    BY <1>2 DEF Send, billing
  <2>3. /\ sent \in Nat /\ sent' \in Nat /\ sent < sent' /\ inbox \subseteq inbox'
        /\ \A n \in sent + 1 .. sent' : \E e \in inbox' : e.n = n
        /\ \A e \in inbox' : e.n = sent' => Says(e, t)
    BY <1>2, SendLast
  <2> QED BY <1>2, <2>1, <2>2, <2>3, SubFollows
<1>3. ASSUME NEW s \in subs, PaymentFails(s) PROVE FollowInv'
  <2> DEFINE t == [s EXCEPT !.status = "past_due"]
  <2>1. t \in Subscription /\ t.cust = s.cust
    BY DEF PlanInv, StripeOK, Subscription
  <2>2. Send({"payment_failed", "updated"}, t) /\ Becomes(s, t)
    BY <1>3 DEF PaymentFails
  <2> HIDE DEF t
  <2> QED BY <1>2, <2>1, <2>2
<1>4. ASSUME NEW s \in subs, Cancel(s) PROVE FollowInv'
  <2> DEFINE t == [s EXCEPT !.status = "canceled"]
  <2>1. t \in Subscription /\ t.cust = s.cust
    BY DEF PlanInv, StripeOK, Subscription
  <2>2. Send({"deleted"}, t) /\ Becomes(s, t)
    BY <1>4 DEF Cancel
  <2> HIDE DEF t
  <2> QED BY <1>2, <2>1, <2>2
<1>5. ASSUME NEW s \in subs, NEW plan \in Paid, Renew(s, plan) PROVE FollowInv'
  <2> DEFINE t == [s EXCEPT !.plan = plan, !.status = "active"]
  <2>1. t \in Subscription /\ t.cust = s.cust
    BY DEF PlanInv, StripeOK, Subscription
  <2>2. Send({"updated"}, t) /\ Becomes(s, t)
    BY <1>5 DEF Renew
  <2> HIDE DEF t
  <2> QED BY <1>2, <2>1, <2>2
<1> QED BY <1>1, <1>3, <1>4, <1>5 DEF Stripe

\* The last event is applied as it stands; an earlier one that comes after it is out of order.
LEMMA WebhookFollows ==
  ASSUME PlanInv, FollowInv, NEW e \in inbox, Webhook(e)
  PROVE  FollowInv'
<1>1. /\ UNCHANGED <<customers, subs, sessions, sent, checkouts>>
      /\ inbox' = inbox \ {e} \/ inbox' = inbox
  BY DEF Webhook, stripe
<1>2. e \in Event /\ e.n \in 1 .. sent /\ sent \in Nat /\ seen \subseteq 1 .. sent
  BY DEF PlanInv, StripeOK, WasSent, BillingOK, Event
<1>3. subs # {}
  BY <1>2 DEF FollowInv, Numbers
<1>4. \/ ~Fresh(e) /\ UNCHANGED <<row, orgPlan, seen, disordered>>
      \/ /\ Fresh(e) /\ Applied(e) /\ seen' = seen \cup {e.n}
         /\ disordered' = (disordered \/ (e.n \notin seen /\ \E n \in seen : n > e.n))
  BY DEF Webhook, billing
<1>5. row'.cust = row.cust
  BY <1>4 DEF Applied, PlanInv, BillingOK
<1>6. Named' /\ Unused'
  BY <1>1, <1>5 DEF FollowInv, Named, Unused
<1>7. Numbers'
  <2>1. e.n \in seen' /\ seen \subseteq seen'
    BY <1>4 DEF Fresh
  <2> QED BY <1>1, <1>3, <2>1 DEF FollowInv, Numbers
<1>8. LastCounts'
  <2> SUFFICES ASSUME NEW s \in subs, subs = {s}
               PROVE  /\ \A f \in inbox' : f.n = sent => Says(f, s)
                      /\ sent \in seen' /\ ~disordered' /\ s.cust = row'.cust => Follows(s)'
    BY <1>1 DEF LastCounts
  <2>1. \A f \in inbox : f.n = sent => Says(f, s)
    BY DEF FollowInv, LastCounts
  <2> SUFFICES ASSUME sent \in seen', ~disordered', s.cust = row.cust PROVE Follows(s)'
    BY <1>1, <1>5, <2>1
  <2>2. CASE ~Fresh(e)
    <3>1. UNCHANGED <<row, orgPlan, seen, disordered>>
      BY <1>4, <2>2
    <3> QED BY <3>1 DEF FollowInv, LastCounts, Follows
  <2>3. CASE Fresh(e) /\ e.n # sent
    <3>1. sent \in seen /\ sent > e.n
      BY <1>2, <1>4, <2>3
    <3>2. disordered'
      BY <1>4, <2>3, <3>1 DEF Fresh
    <3> QED BY <3>2
  <2>4. CASE Fresh(e) /\ e.n = sent
    <3>1. Says(e, s) /\ e.cust = row.cust /\ Applied(e)
      BY <1>4, <2>1, <2>4 DEF Says
    <3>2. CASE e.type = "completed"
      <4>1. row' = [row EXCEPT !.plan = e.plan, !.status = "active"] /\ orgPlan' = e.plan
        BY <3>1, <3>2 DEF Applied
      <4> QED BY <3>1, <3>2, <4>1 DEF Says, Follows, Effective, PlanInv, BillingOK
    <3>3. CASE e.type # "completed"
      <4>1. row' = [row EXCEPT !.plan = Effective(e), !.status = e.status] /\ orgPlan' = Effective(e)
        BY <3>1, <3>3 DEF Applied, Says
      <4> QED BY <3>1, <4>1 DEF Says, Follows, Effective, PlanInv, BillingOK
    <3> QED BY <3>2, <3>3
  <2> QED BY <2>2, <2>3, <2>4
<1> QED BY <1>6, <1>7, <1>8 DEF FollowInv

LEMMA FollowStep ==
  ASSUME PlanInv, FollowInv, [Next]_vars
  PROVE  FollowInv'
<1>1. ASSUME UNCHANGED <<stripe, inbox, checkouts, billing>> PROVE FollowInv'
  BY <1>1, FollowSame DEF stripe, billing
<1>2. ASSUME NEW j \in Manual, BeginCreate(j) \/ CreateJob(j) PROVE FollowInv'
  BY <1>1, <1>2 DEF BeginCreate, CreateJob, Begin, Insert
<1>3. ASSUME NEW h \in Hosts, BeginDiscovery(h) \/ Discover(h) PROVE FollowInv'
  BY <1>1, <1>3 DEF BeginDiscovery, Discover, Begin, Insert
<1>4. ASSUME NEW m \in Makers, Abort(m) PROVE FollowInv'
  BY <1>1, <1>4 DEF Abort
<1>5. ASSUME NEW j \in jobs, DeleteJob(j) PROVE FollowInv'
  BY <1>1, <1>5 DEF DeleteJob
<1>6. CASE DiscoverCronJobs \/ UNCHANGED vars
  BY <1>1, <1>6 DEF DiscoverCronJobs, vars, stripe, billing
<1> QED
  BY <1>2, <1>3, <1>4, <1>5, <1>6, BeginFollows, EndFollows, StripeFollows, WebhookFollows DEF Next

\* Once every event was handled, in order, the organisation is on the plan that its only
\* subscription pays for, and its row says how that stands (billing.py: webhook).
THEOREM PlanIsPaidFor == Spec => []PlanFollowsStripe
<1>1. PlanInv /\ FollowInv => PlanFollowsStripe
  <2> SUFFICES ASSUME PlanInv, FollowInv, {e \in inbox : Fresh(e)} = {}, ~disordered
               PROVE  /\ subs = {} => orgPlan = "free"
                      /\ \A s \in subs : subs = {s} /\ s.cust = row.cust => Follows(s)
    BY DEF PlanFollowsStripe, Follows
  <2>1. ASSUME subs # {} PROVE sent \in seen
    <3>1. sent \in 1 .. sent
      BY <2>1 DEF PlanInv, StripeOK, FollowInv, Numbers
    <3> QED BY <3>1 DEF FollowInv, Numbers, Fresh
  <2> QED BY <2>1 DEF FollowInv, Numbers, LastCounts
<1>2. PlanInv /\ FollowInv /\ [Next]_vars => FollowInv'
  BY FollowStep
<1> QED BY <1>1, <1>2, FollowInit, Invariance, PTL DEF Spec

==============================================================================
