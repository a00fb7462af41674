---------------------------- MODULE BillingProofs ----------------------------
(***************************************************************************)
(* Proofs about Billing, for any number of users, plans, requests, events  *)
(* and subscriptions at Stripe.                                            *)
(*                                                                         *)
(* Three arguments carry them.  A plan is deleted by a statement that sees *)
(* the subscriptions, and a subscription is written by one that sees the   *)
(* plan.  Of two highlighted plans one belongs to a request that has yet   *)
(* to list or to clear the other.  And a subscription row that has Stripe's*)
(* id belongs to the user that Stripe has for it, so that the event written*)
(* last is one of that user's, and the newest of them says what Stripe     *)
(* says.                                                                   *)
(***************************************************************************)
EXTENDS Billing, FiniteSetTheorems, WellFoundedInduction, TLAPS

-----------------------------------------------------------------------------
(* The inductive invariant.                                                *)

\* Where a request is, or where it goes once its user has a subscription.
Ensuring == {"ensure", "insert"}
Target(r) == IF r.pc \in Ensuring THEN r.then ELSE r.pc

\* What a request may rely on at each point.
RequestOK(r) ==
  /\ r.pc \in Ensuring =>
       r.user \in Users /\ r.then \in {"done", "plan", "eventWrite", "adminWrite"}
  /\ r.pc = "insert" => r.default \in Slugs
  /\ r.pc = "lookup" => r.then = "eventWrite"
  /\ Target(r) \in {"plan", "customer", "setCustomer", "session", "checkoutWrite",
                    "lookup", "eventWrite", "adminWrite"} => r.user \in Users
  /\ Target(r) \in {"plan", "customer", "setCustomer", "session", "checkoutWrite",
                    "planInsert", "planUpdate", "planDelete", "list", "clear"} => r.slug \in Slugs
  /\ Target(r) \in {"lookup", "eventWrite"} =>
       r.event \in 1..Len(events) /\ r.user = events[r.event].user
  /\ r.customer <= MaxCustomers

RequestsOK == \A p \in Requests : RequestOK(req[p])

\* An event speaks of a subscription, and of the user Stripe has for it.
EventOK(e) ==
  /\ e.sub \in 1..Len(stripe.subs)
  /\ e.user = stripe.subs[e.sub].user
  /\ e.type = "completed" => e.status = "active"
  /\ e.type = "deleted" => e.status = "canceled"
EventsOK == /\ Len(stripe.subs) <= MaxSubscriptions
            /\ Len(events) <= MaxEvents
            /\ \A n \in 1..Len(events) : EventOK(events[n])

\* The last event of a subscription says what Stripe says.
LatestOK ==
  \A n \in 1..Len(events) :
    (\A m \in 1..Len(events) : events[m].sub = events[n].sub => m <= n)
      => events[n].status = stripe.subs[events[n].sub].status

\* A row with Stripe's id is the row of the user Stripe has for it.
SubscribersOK ==
  \A u \in Users :
    subs[u].stripe # NoStripe =>
      subs[u].stripe \in 1..Len(stripe.subs) /\ stripe.subs[subs[u].stripe].user = u

\* The event a user's status comes from is one of that user's.
NewestOK ==
  \A u \in Users :
    newest[u] > 0 =>
      /\ subs[u].plan # NoPlan
      /\ newest[u] \in 1..Len(events)
      /\ events[newest[u]].user = u
      /\ subs[u].status = EventStatus(events[newest[u]])

\* Of two highlighted plans, request r will clear one.
WillClear(r, s, t) ==
  \/ r.pc = "list" /\ r.slug \in {s, t}
  \/ r.pc = "clear" /\ r.slug = s /\ t \in r.rest
  \/ r.pc = "clear" /\ r.slug = t /\ s \in r.rest
HighlightsOK ==
  \/ interrupted
  \/ \A s, t \in ListHighlighted : s # t => \E p \in Requests : WillClear(req[p], s, t)

BillingInv ==
  /\ TypeOK /\ RequestsOK /\ EventsOK /\ LatestOK /\ SubscribersOK /\ NewestOK
  /\ SubscriptionHasPlan /\ HighlightsOK

-----------------------------------------------------------------------------
(* Requests, one at a time.                                                *)

LEMMA ConstantsTyped ==
  /\ NoPlan \notin Slugs /\ Slugs \subseteq Nat /\ NoUser \notin Users
  /\ MaxSubscriptions \in Nat /\ MaxEvents \in Nat /\ MaxCustomers \in Nat /\ MaxAdmin \in Nat
  /\ "active" \in StripeStatuses
  BY BillingAssumption DEF NoPlan

LEMMA NoCustomerTyped == 0 <= MaxCustomers
  BY BillingAssumption

LEMMA NoEventTyped == MaxEvents \in Nat /\ 0 \in 0..MaxEvents /\ ~(0 > 0)
  BY BillingAssumption

LEMMA AtMostOne ==
  ASSUME NEW S, IsFiniteSet(S), Cardinality(S) <= 1
  PROVE  \A s, t \in S : s = t
  <1>1. Cardinality(S) = 0 => S = {} BY FS_EmptySet
  <1>2. Cardinality(S) = 1 => \E x : S = {x} BY FS_Singleton
  <1>3. Cardinality(S) = 0 \/ Cardinality(S) = 1 BY FS_CardinalityType
  <1> QED BY <1>1, <1>2, <1>3

LEMMA OneAtMost ==
  ASSUME NEW S, IsFiniteSet(S), \A s, t \in S : s = t
  PROVE  Cardinality(S) <= 1
  <1>1. CASE S = {} BY <1>1, FS_EmptySet
  <1>2. CASE S # {}
    <2>1. PICK x : S = {x} BY <1>2
    <2> QED BY <2>1, FS_Singleton
  <1> QED BY <1>1, <1>2

LEMMA IdleTyped ==
  /\ Idle \in Request /\ Idle.pc = "idle" /\ Idle.customer = 0 /\ Idle.then = "done"
  /\ Idle.status = "" /\ Idle.slug = NoPlan /\ Idle.edit = "" /\ Idle.found = FALSE
  BY ConstantsTyped DEF Idle, Request, Points, NoPlan

\* The types of what a request holds.
LEMMA Typed ==
  ASSUME TypeOK, NEW p \in Requests
  PROVE  /\ req[p] \in Request /\ req[p].pc \in Points /\ req[p].then \in Points
         /\ req[p].user \in Users \cup {NoUser} /\ req[p].slug \in Slugs \cup {NoPlan}
         /\ req[p].default \in Slugs \cup {NoPlan} /\ req[p].status \in Statuses \cup {""}
         /\ req[p].event \in 0..MaxEvents /\ req[p].found \in BOOLEAN /\ req[p].customer \in Nat
         /\ req[p].edit \in {"", "activate", "deactivate", "highlight"}
         /\ req[p].rest \subseteq Slugs
  <1>1. req[p] \in Request BY DEF TypeOK
  <1> QED BY <1>1 DEF Request

\* A step of request p.
Only(p) ==
  /\ req' \in [Requests -> Request]
  /\ \A q \in Requests : q # p => req'[q] = req[q]

\* Every field that a statement does not set stays.
Same(r, s) ==
  /\ s.then = r.then /\ s.user = r.user /\ s.slug = r.slug /\ s.status = r.status
  /\ s.event = r.event /\ s.edit = r.edit

LEMMA ReturnForm ==
  ASSUME TypeOK, NEW p \in Requests, Return(p)
  PROVE  Only(p) /\ req'[p] = Idle /\ req'[p].pc = "idle" /\ RequestOK(req[p])'
  <1>1. Only(p) /\ req'[p] = Idle
    BY IdleTyped DEF TypeOK, Return, Only
  <1>2. Idle.pc = "idle" /\ Idle.customer <= MaxCustomers
    <2>1. 0 <= MaxCustomers BY NoCustomerTyped
    <2>2. Idle.pc = "idle" /\ Idle.customer = 0 BY IdleTyped
    <2> QED BY <2>1, <2>2
  <1> QED BY <1>1, <1>2 DEF RequestOK, Target, Ensuring

LEMMA GotoForm ==
  ASSUME TypeOK, NEW p \in Requests, NEW pc \in Points, Goto(p, pc)
  PROVE  /\ Only(p) /\ req'[p].pc = pc /\ Same(req[p], req'[p])
         /\ req'[p].default = req[p].default /\ req'[p].found = req[p].found
         /\ req'[p].customer = req[p].customer /\ req'[p].rest = req[p].rest
  <1>1. req \in [Requests -> Request] BY DEF TypeOK
  <1> QED BY <1>1 DEF Goto, Only, Request, Same

LEMMA BeginForm ==
  ASSUME TypeOK, NEW p \in Requests, NEW r \in Request, Begin(p, r)
  PROVE  Only(p) /\ req'[p] = r /\ req[p].pc = "idle"
  BY DEF TypeOK, Begin, At, Only

LEMMA RequestsStep ==
  ASSUME BillingInv, NEW p \in Requests, Only(p), RequestOK(req[p])', UNCHANGED events
  PROVE  RequestsOK'
  <1>1. ASSUME NEW q \in Requests PROVE RequestOK(req[q])'
    <2>1. CASE q = p BY <2>1
    <2>2. CASE q # p
      <3>1. RequestOK(req[q]) BY DEF BillingInv, RequestsOK
      <3>2. req'[q] = req[q] BY <2>2 DEF Only
      <3> QED BY <3>1, <3>2 DEF RequestOK, Target, Ensuring
    <2> QED BY <2>1, <2>2
  <1> QED BY <1>1 DEF RequestsOK

\* What a step of p leaves alone when it is at no highlight and writes no plan.
LEMMA QuietStep ==
  ASSUME BillingInv, NEW p \in Requests, Only(p), RequestOK(req[p])',
         req[p].pc \notin {"list", "clear"}, UNCHANGED <<plans, events, interrupted>>
  PROVE  RequestsOK' /\ HighlightsOK'
  <1>2. RequestsOK' BY RequestsStep
  <1>3. CASE interrupted BY <1>2, <1>3 DEF HighlightsOK
  <1>4. CASE ~interrupted
    <2>1. ASSUME NEW s \in ListHighlighted, NEW t \in ListHighlighted, s # t
          PROVE  \E q \in Requests : WillClear(req'[q], s, t)
      <3>1. PICK q \in Requests : WillClear(req[q], s, t)
        BY <1>4, <2>1 DEF BillingInv, HighlightsOK
      <3>2. q # p BY <3>1 DEF WillClear
      <3>3. req'[q] = req[q] BY <3>2 DEF Only
      <3> QED BY <3>1, <3>3
    <2>2. ListHighlighted' = ListHighlighted BY DEF ListHighlighted
    <2>3. HighlightsOK' BY <2>1, <2>2 DEF HighlightsOK, WillClear
    <2> QED BY <1>2, <2>3
  <1> QED BY <1>3, <1>4 DEF BillingInv, TypeOK

\* Tables that no statement of a step writes.
LEMMA QuietTables ==
  ASSUME BillingInv
  PROVE  /\ UNCHANGED <<subs, stripe, events, newest>> => SubscribersOK' /\ NewestOK'
         /\ UNCHANGED <<stripe, events>> => EventsOK' /\ LatestOK'
         /\ UNCHANGED <<plans, subs>> => SubscriptionHasPlan'
  <1>1. UNCHANGED <<subs, stripe, events, newest>> => SubscribersOK' /\ NewestOK'
    BY DEF BillingInv, SubscribersOK, NewestOK, EventStatus, mapStripeStatus
  <1>2. UNCHANGED <<stripe, events>> => EventsOK'
    BY DEF BillingInv, EventsOK, EventOK
  <1>3. UNCHANGED <<stripe, events>> => LatestOK'
    BY DEF BillingInv, LatestOK
  <1>4. UNCHANGED <<plans, subs>> => SubscriptionHasPlan'
    BY DEF BillingInv, SubscriptionHasPlan, GetPlan
  <1> QED BY <1>1, <1>2, <1>3, <1>4

\* A step that writes nothing but its own request.
LEMMA ReadStep ==
  ASSUME BillingInv, NEW p \in Requests, Only(p), RequestOK(req[p])',
         req[p].pc \notin {"list", "clear"},
         UNCHANGED <<plans, subs, customer, stripe, events, newest, interrupted>>,
         admin' \in 0..MaxAdmin
  PROVE  BillingInv'
  <1>1. TypeOK' BY DEF BillingInv, TypeOK, Only
  <1> QED BY <1>1, QuietStep, QuietTables DEF BillingInv

-----------------------------------------------------------------------------
(* EnsureUserSubscription.                                                 *)

LEMMA DefaultPlan == TypeOK => GetDefaultPlan \in Slugs \cup {NoPlan}
  <1> DEFINE active == {s \in Slugs : GetActivePlan(s)}
  <1>1. ASSUME active # {} PROVE \E s \in active : \A t \in active : s <= t
    <2> DEFINE R == OpToRel(<, Nat)
    <2>1. active \subseteq Nat BY ConstantsTyped
    <2> HIDE DEF active
    <2>2. PICK s \in active : \A t \in active : ~(<<t, s>> \in R)
      BY <1>1, <2>1, NatLessThanWellFounded, WFMin
    <2>3. ASSUME NEW t \in active PROVE s <= t
      <3>1. s \in Nat /\ t \in Nat BY <2>1, <2>2, <2>3
      <3>2. ~(<<t, s>> \in R) BY <2>2, <2>3
      <3>3. ~(t < s) BY <3>1, <3>2 DEF OpToRel
      <3> HIDE DEF R
      <3> QED BY <3>1, <3>3
    <2> QED BY <2>2, <2>3
  <1>2. CASE active = {} BY <1>2 DEF GetDefaultPlan
  <1>3. CASE active # {}
    <2>1. (CHOOSE s \in active : \A t \in active : s <= t) \in active BY <1>1, <1>3
    <2>2. GetDefaultPlan = CHOOSE s \in active : \A t \in active : s <= t
      BY <1>3 DEF GetDefaultPlan
    <2> QED BY <2>1, <2>2
  <1> QED BY <1>2, <1>3

\* A request that begins.
LEMMA BeginStep ==
  ASSUME BillingInv, NEW p \in Requests, NEW r \in Request, Begin(p, r), RequestOK(r),
         UNCHANGED <<plans, subs, customer, stripe, events, newest, interrupted>>,
         admin' \in 0..MaxAdmin
  PROVE  BillingInv'
  <1>1. Only(p) /\ req'[p] = r /\ req[p].pc = "idle" BY BeginForm DEF BillingInv
  <1>2. RequestOK(req[p])' BY <1>1 DEF RequestOK, Target, Ensuring
  <1> QED BY <1>1, <1>2, ReadStep

LEMMA EnsureOnlyStep ==
  ASSUME BillingInv, NEW p \in Requests, NEW u \in Users, EnsureOnly(p, u)
  PROVE  BillingInv'
  <1> DEFINE r == [Idle EXCEPT !.pc = "ensure", !.user = u]
  <1>1. TypeOK BY DEF BillingInv
  <1>2. r \in Request /\ r.pc = "ensure" /\ r.user = u /\ r.then = "done" /\ r.customer = 0
    <2>1. "ensure" \in Points BY DEF Points
    <2> QED BY <2>1, IdleTyped DEF Request
  <1>3. Begin(p, r) BY DEF EnsureOnly
  <1> HIDE DEF r
  <1>4. RequestOK(r) BY <1>2, NoCustomerTyped DEF RequestOK, Target, Ensuring
  <1>5. UNCHANGED <<plans, subs, customer, stripe, events, newest, interrupted, admin>>
    BY DEF EnsureOnly, others
  <1>6. admin' \in 0..MaxAdmin BY <1>1, <1>5 DEF TypeOK
  <1> QED BY <1>2, <1>3, <1>4, <1>5, <1>6, BeginStep

LEMMA EnsureStep ==
  ASSUME BillingInv, NEW p \in Requests, Ensure(p)
  PROVE  BillingInv'
  <1>1. TypeOK /\ RequestOK(req[p]) BY DEF BillingInv, RequestsOK
  <1>2. req[p].pc = "ensure" BY DEF Ensure, At
  <1>3. /\ req[p].user \in Users /\ req[p].then \in {"done", "plan", "eventWrite", "adminWrite"}
        /\ req[p].then \in Points
    BY <1>1, <1>2, Typed DEF RequestOK, Ensuring
  <1>4. UNCHANGED <<plans, subs, customer, stripe, events, newest, interrupted, admin>>
    BY DEF Ensure, others
  <1>5. admin' \in 0..MaxAdmin BY <1>1, <1>4 DEF TypeOK
  <1>6. CASE Return(p) BY <1>1, <1>2, <1>4, <1>5, <1>6, ReturnForm, ReadStep
  <1>7. CASE req[p].then # "done" /\ Goto(p, req[p].then)
    <2>1. Only(p) /\ req'[p].pc = req[p].then /\ Same(req[p], req'[p])
          /\ req'[p].customer = req[p].customer
      BY <1>1, <1>3, <1>7, GotoForm
    <2>2. RequestOK(req[p])'
      BY <1>1, <1>2, <1>3, <1>4, <1>7, <2>1 DEF RequestOK, Target, Ensuring, Same
    <2> QED BY <1>2, <1>4, <1>5, <2>1, <2>2, ReadStep
  <1>8. CASE /\ GetDefaultPlan # NoPlan
             /\ req' = [req EXCEPT ![p].pc = "insert", ![p].default = GetDefaultPlan]
    <2> DEFINE row == [req[p] EXCEPT !.pc = "insert", !.default = GetDefaultPlan]
    <2>1. GetDefaultPlan \in Slugs BY <1>1, <1>8, DefaultPlan
    <2>2. row \in Request /\ row.pc = "insert" /\ row.default \in Slugs
          /\ Same(req[p], row) /\ row.customer = req[p].customer
      <3>1. req[p] \in Request BY <1>1 DEF TypeOK
      <3>2. "insert" \in Points BY DEF Points
      <3> QED BY <2>1, <3>1, <3>2 DEF Request, Same
    <2>3. req' = [req EXCEPT ![p] = row] BY <1>8
    <2> HIDE DEF row
    <2>4. Only(p) /\ req'[p] = row BY <1>1, <2>2, <2>3 DEF TypeOK, Only
    <2>5. RequestOK(req[p])'
      BY <1>1, <1>2, <1>3, <1>4, <2>2, <2>4 DEF RequestOK, Target, Ensuring, Same
    <2> QED BY <1>2, <1>4, <1>5, <2>4, <2>5, ReadStep
  <1> QED BY <1>6, <1>7, <1>8 DEF Ensure

\* A step that writes subs, and nothing else but its own request.
LEMMA WriteSubs ==
  ASSUME BillingInv, NEW p \in Requests, Only(p), RequestOK(req[p])',
         req[p].pc \notin {"list", "clear"},
         UNCHANGED <<plans, customer, stripe, events, admin, interrupted>>,
         NEW u \in Users, NEW row \in Row, subs' = [subs EXCEPT ![u] = row],
         row.plan # NoPlan => plans[row.plan].exists,
         row.stripe # NoStripe =>
           row.stripe \in 1..Len(stripe.subs) /\ stripe.subs[row.stripe].user = u,
         NEW n \in 0..MaxEvents, newest' = [newest EXCEPT ![u] = n],
         n > 0 => /\ row.plan # NoPlan /\ n \in 1..Len(events) /\ events[n].user = u
                  /\ row.status = EventStatus(events[n])
  PROVE  BillingInv'
  <1>1. TypeOK BY DEF BillingInv
  <1>2. /\ subs' \in [Users -> Row] /\ subs'[u] = row
        /\ newest' \in [Users -> 0..MaxEvents] /\ newest'[u] = n
        /\ \A v \in Users : v # u => subs'[v] = subs[v] /\ newest'[v] = newest[v]
    BY <1>1 DEF TypeOK
  <1>3. TypeOK' BY <1>1, <1>2 DEF TypeOK, Only
  <1>4. SubscriptionHasPlan'
    <2>1. ASSUME NEW v \in Users, subs'[v].plan # NoPlan PROVE plans[subs'[v].plan].exists
      <3>1. CASE v = u BY <1>2, <2>1, <3>1
      <3>2. CASE v # u BY <1>2, <2>1, <3>2 DEF BillingInv, SubscriptionHasPlan, GetPlan
      <3> QED BY <3>1, <3>2
    <2> QED BY <2>1 DEF SubscriptionHasPlan, GetPlan
  <1>5. SubscribersOK'
    <2>1. ASSUME NEW v \in Users, subs'[v].stripe # NoStripe
          PROVE  subs'[v].stripe \in 1..Len(stripe.subs) /\ stripe.subs[subs'[v].stripe].user = v
      <3>1. CASE v = u BY <1>2, <2>1, <3>1
      <3>2. CASE v # u BY <1>2, <2>1, <3>2 DEF BillingInv, SubscribersOK
      <3> QED BY <3>1, <3>2
    <2> QED BY <2>1 DEF SubscribersOK
  <1>6. NewestOK'
    <2>1. ASSUME NEW v \in Users, newest'[v] > 0
          PROVE  /\ subs'[v].plan # NoPlan /\ newest'[v] \in 1..Len(events)
                 /\ events[newest'[v]].user = v
                 /\ subs'[v].status = EventStatus(events[newest'[v]])
      <3>1. CASE v = u BY <1>2, <2>1, <3>1
      <3>2. CASE v # u BY <1>2, <2>1, <3>2 DEF BillingInv, NewestOK
      <3> QED BY <3>1, <3>2
    <2> QED BY <2>1 DEF NewestOK, EventStatus, mapStripeStatus
  <1> QED BY <1>3, <1>4, <1>5, <1>6, QuietStep, QuietTables DEF BillingInv

LEMMA InsertSubscriptionStep ==
  ASSUME BillingInv, NEW p \in Requests, InsertSubscription(p)
  PROVE  BillingInv'
  <1> DEFINE u == req[p].user
             d == req[p].default
  <1>1. TypeOK /\ RequestOK(req[p]) BY DEF BillingInv, RequestsOK
  <1>2. req[p].pc = "insert" BY DEF InsertSubscription, At
  <1>3. /\ u \in Users /\ d \in Slugs /\ d # NoPlan
        /\ req[p].then \in {"done", "plan", "eventWrite", "adminWrite"} /\ req[p].then \in Points
    BY <1>1, <1>2, Typed, ConstantsTyped DEF RequestOK, Ensuring
  <1>4. UNCHANGED <<plans, customer, stripe, events, newest, interrupted, admin>>
    BY DEF InsertSubscription, others
  <1>5. admin' \in 0..MaxAdmin BY <1>1, <1>4 DEF TypeOK
  <1>6. CASE UNCHANGED subs /\ Return(p) BY <1>1, <1>2, <1>4, <1>5, <1>6, ReturnForm, ReadStep
  <1>7. CASE /\ ~GetUserSubscription(u) /\ plans[d].exists
             /\ subs' = [subs EXCEPT ![u] = [NoRow EXCEPT !.plan = d]]
             /\ IF req[p].then = "done" THEN Return(p)
                ELSE req' = [req EXCEPT ![p].pc = req[p].then, ![p].default = NoPlan]
    <2> DEFINE row == [NoRow EXCEPT !.plan = d]
    <2>1. row \in Row /\ row.plan = d /\ row.stripe = NoStripe
      BY <1>3 DEF NoRow, Row, Statuses
    <2>2. newest[u] = 0
      BY <1>1, <1>3, <1>7 DEF BillingInv, TypeOK, NewestOK, GetUserSubscription
    <2>3. newest' = [newest EXCEPT ![u] = 0] BY <1>1, <1>4, <2>2 DEF TypeOK
    <2>4. Only(p) /\ RequestOK(req[p])'
      <3>1. CASE Return(p) BY <1>1, <3>1, ReturnForm
      <3>2. CASE req[p].then # "done"
                 /\ req' = [req EXCEPT ![p].pc = req[p].then, ![p].default = NoPlan]
        <4> DEFINE r == [req[p] EXCEPT !.pc = req[p].then, !.default = NoPlan]
        <4>1. r \in Request /\ r.pc = req[p].then /\ Same(req[p], r)
              /\ r.customer = req[p].customer
          <5>1. req[p] \in Request BY <1>1 DEF TypeOK
          <5> QED BY <1>3, <5>1 DEF Request, Same
        <4>2. req' = [req EXCEPT ![p] = r] BY <3>2
        <4> HIDE DEF r
        <4>3. Only(p) /\ req'[p] = r BY <1>1, <4>1, <4>2 DEF TypeOK, Only
        <4> QED BY <1>1, <1>2, <1>3, <1>4, <3>2, <4>1, <4>3
            DEF RequestOK, Target, Ensuring, Same
      <3> QED BY <1>7, <3>1, <3>2
    <2>5. subs' = [subs EXCEPT ![u] = row] BY <1>7
    <2>6. 0 \in 0..MaxEvents /\ ~(0 > 0) BY ConstantsTyped
    <2>7. req[p].pc \notin {"list", "clear"} BY <1>2
    <2>8. plans[row.plan].exists BY <1>7, <2>1
    <2> HIDE DEF row, u
    <2> QED BY <1>3, <1>4, <2>1, <2>3, <2>4, <2>5, <2>6, <2>7, <2>8, WriteSubs
  <1> QED BY <1>6, <1>7 DEF InsertSubscription

-----------------------------------------------------------------------------
(* CreateCheckoutSession.                                                  *)

LEMMA CheckoutBegin ==
  ASSUME BillingInv, NEW p \in Requests, NEW u \in Users, NEW s \in Slugs, Checkout(p, u, s)
  PROVE  BillingInv'
  <1> DEFINE r == [Idle EXCEPT !.pc = "ensure", !.then = "plan", !.user = u, !.slug = s]
  <1>1. TypeOK BY DEF BillingInv
  <1>2. /\ r \in Request /\ r.pc = "ensure" /\ r.user = u /\ r.then = "plan"
        /\ r.slug = s /\ r.customer = 0
    <2>1. "ensure" \in Points /\ "plan" \in Points BY DEF Points
    <2> QED BY <2>1, IdleTyped DEF Request
  <1>3. Begin(p, r) BY DEF Checkout
  <1> HIDE DEF r
  <1>4. RequestOK(r) BY <1>2, NoCustomerTyped DEF RequestOK, Target, Ensuring
  <1>5. UNCHANGED <<plans, subs, customer, stripe, events, newest, interrupted, admin>>
    BY DEF Checkout, others
  <1>6. admin' \in 0..MaxAdmin BY <1>1, <1>5 DEF TypeOK
  <1> QED BY <1>2, <1>3, <1>4, <1>5, <1>6, BeginStep

\* The points of a checkout after its user has a subscription.
CheckoutPoints == {"plan", "customer", "setCustomer", "session", "checkoutWrite"}

LEMMA AtCheckout ==
  ASSUME BillingInv, NEW p \in Requests, req[p].pc \in CheckoutPoints
  PROVE  /\ req[p].user \in Users /\ req[p].slug \in Slugs
         /\ req[p].customer \in 0..MaxCustomers
         /\ req[p].pc \notin {"list", "clear"}
  <1>1. RequestOK(req[p]) /\ req[p].customer \in Nat BY Typed DEF BillingInv, RequestsOK
  <1> QED BY <1>1, ConstantsTyped DEF RequestOK, Target, Ensuring, CheckoutPoints

\* A checkout goes on to its next point with its user and plan.
LEMMA CheckoutGoes ==
  ASSUME BillingInv, NEW p \in Requests, req[p].pc \in CheckoutPoints,
         NEW pc \in CheckoutPoints, req'[p].pc = pc, req'[p].user = req[p].user,
         req'[p].slug = req[p].slug, req'[p].customer <= MaxCustomers
  PROVE  RequestOK(req[p])'
  BY AtCheckout DEF RequestOK, Target, Ensuring, CheckoutPoints

LEMMA CheckoutPlanStep ==
  ASSUME BillingInv, NEW p \in Requests, CheckoutPlan(p)
  PROVE  BillingInv'
  <1>1. TypeOK BY DEF BillingInv
  <1>2. req[p].pc \in CheckoutPoints BY DEF CheckoutPlan, At, CheckoutPoints
  <1>3. UNCHANGED <<plans, subs, customer, stripe, events, newest, interrupted, admin>>
    BY DEF CheckoutPlan, others
  <1>4. admin' \in 0..MaxAdmin BY <1>1, <1>3 DEF TypeOK
  <1>5. CASE Return(p) BY <1>1, <1>2, <1>3, <1>4, <1>5, AtCheckout, ReturnForm, ReadStep
  <1>6. CASE Goto(p, "customer")
    <2>1. "customer" \in Points /\ "customer" \in CheckoutPoints BY DEF Points, CheckoutPoints
    <2>2. /\ Only(p) /\ req'[p].pc = "customer" /\ Same(req[p], req'[p])
          /\ req'[p].customer = req[p].customer
      BY <1>1, <1>6, <2>1, GotoForm
    <2>3. req'[p].customer <= MaxCustomers BY <1>2, <2>2, AtCheckout, ConstantsTyped
    <2>4. RequestOK(req[p])' BY <1>2, <2>1, <2>2, <2>3, CheckoutGoes DEF Same
    <2> QED BY <1>2, <1>3, <1>4, <2>2, <2>4, AtCheckout, ReadStep
  <1> QED BY <1>5, <1>6 DEF CheckoutPlan

\* A checkout that writes customer or stripe.customers and stripe.sessions.
LEMMA CheckoutWrites ==
  ASSUME BillingInv, NEW p \in Requests, Only(p), RequestOK(req[p])',
         req[p].pc \in CheckoutPoints,
         UNCHANGED <<plans, subs, events, newest, interrupted, admin>>,
         customer' \in [Users -> 0..MaxCustomers],
         stripe' \in [customers : 0..MaxCustomers, sessions : SUBSET (Users \X Slugs),
                      subs : Seq(StripeSub)],
         stripe'.subs = stripe.subs
  PROVE  BillingInv'
  <1>1. TypeOK' BY DEF BillingInv, TypeOK, Only
  <1>2. EventsOK' /\ LatestOK' BY DEF BillingInv, EventsOK, EventOK, LatestOK
  <1>3. SubscribersOK' BY DEF BillingInv, SubscribersOK
  <1>4. NewestOK' BY DEF BillingInv, NewestOK, EventStatus, mapStripeStatus
  <1> QED BY <1>1, <1>2, <1>3, <1>4, QuietStep, QuietTables, AtCheckout DEF BillingInv

LEMMA CheckoutCustomerStep ==
  ASSUME BillingInv, NEW p \in Requests, CheckoutCustomer(p)
  PROVE  BillingInv'
  <1> DEFINE u == req[p].user
  <1>1. TypeOK BY DEF BillingInv
  <1>2. req[p].pc \in CheckoutPoints BY DEF CheckoutCustomer, At, CheckoutPoints
  <1>3. u \in Users BY <1>2, AtCheckout
  <1>4. UNCHANGED <<plans, subs, customer, events, newest, interrupted, admin>>
    BY DEF CheckoutCustomer
  <1>5. customer' \in [Users -> 0..MaxCustomers] BY <1>1, <1>4 DEF TypeOK
  <1>6. ASSUME NEW pc \in {"session", "setCustomer"}, NEW c \in 0..MaxCustomers,
               req' = [req EXCEPT ![p].pc = pc, ![p].customer = c]
        PROVE  Only(p) /\ RequestOK(req[p])'
    <2> DEFINE row == [req[p] EXCEPT !.pc = pc, !.customer = c]
    <2>1. pc \in Points /\ pc \in CheckoutPoints BY DEF Points, CheckoutPoints
    <2>2. row \in Request /\ row.pc = pc /\ row.customer = c /\ Same(req[p], row)
      <3>1. req[p] \in Request /\ c \in Nat BY <1>1, ConstantsTyped DEF TypeOK
      <3> QED BY <2>1, <3>1 DEF Request, Same
    <2>3. req' = [req EXCEPT ![p] = row] BY <1>6
    <2> HIDE DEF row
    <2>4. Only(p) /\ req'[p] = row BY <1>1, <2>2, <2>3 DEF TypeOK, Only
    <2>5. req'[p].customer <= MaxCustomers BY <2>2, <2>4, ConstantsTyped
    <2> QED BY <1>2, <2>1, <2>2, <2>4, <2>5, CheckoutGoes DEF Same
  <1>7. CASE /\ req' = [req EXCEPT ![p].pc = "session", ![p].customer = customer[u]]
             /\ UNCHANGED stripe
    <2>1. PICK c \in 0..MaxCustomers : c = customer[u] BY <1>1, <1>3 DEF TypeOK
    <2>2. Only(p) /\ RequestOK(req[p])' BY <1>6, <1>7, <2>1
    <2>3. stripe' = stripe BY <1>7
    <2> QED BY <1>1, <1>2, <1>4, <1>5, <2>2, <2>3, CheckoutWrites DEF TypeOK
  <1>8. CASE /\ stripe.customers < MaxCustomers
             /\ stripe' = [stripe EXCEPT !.customers = @ + 1]
             /\ req' = [req EXCEPT ![p].pc = "setCustomer",
                                   ![p].customer = stripe.customers + 1]
    <2>1. stripe.customers \in 0..MaxCustomers BY <1>1 DEF TypeOK
    <2>2. stripe.customers + 1 \in 0..MaxCustomers BY <1>8, <2>1, ConstantsTyped
    <2>3. PICK c \in 0..MaxCustomers : c = stripe.customers + 1 BY <2>2
    <2>4. Only(p) /\ RequestOK(req[p])' BY <1>6, <1>8, <2>3
    <2>5. /\ stripe' \in [customers : 0..MaxCustomers, sessions : SUBSET (Users \X Slugs),
                          subs : Seq(StripeSub)]
          /\ stripe'.subs = stripe.subs
      BY <1>1, <1>8, <2>2 DEF TypeOK
    <2> QED BY <1>2, <1>4, <1>5, <2>4, <2>5, CheckoutWrites
  <1> QED BY <1>7, <1>8 DEF CheckoutCustomer

LEMMA SetCustomerStep ==
  ASSUME BillingInv, NEW p \in Requests, SetCustomer(p)
  PROVE  BillingInv'
  <1>1. TypeOK BY DEF BillingInv
  <1>2. req[p].pc \in CheckoutPoints BY DEF SetCustomer, At, CheckoutPoints
  <1>3. UNCHANGED <<plans, subs, stripe, events, newest, interrupted, admin>>
    BY DEF SetCustomer, others
  <1>4. customer' \in [Users -> 0..MaxCustomers]
    BY <1>1, <1>2, AtCheckout DEF TypeOK, SetCustomer
  <1>5. "session" \in Points /\ "session" \in CheckoutPoints BY DEF Points, CheckoutPoints
  <1>6. Goto(p, "session") BY DEF SetCustomer
  <1>7. /\ Only(p) /\ req'[p].pc = "session" /\ Same(req[p], req'[p])
        /\ req'[p].customer = req[p].customer
    BY <1>1, <1>5, <1>6, GotoForm
  <1>8. req'[p].customer <= MaxCustomers BY <1>2, <1>7, AtCheckout, ConstantsTyped
  <1>9. RequestOK(req[p])' BY <1>2, <1>5, <1>7, <1>8, CheckoutGoes DEF Same
  <1> QED BY <1>1, <1>2, <1>3, <1>4, <1>7, <1>9, CheckoutWrites DEF TypeOK

LEMMA CheckoutSessionStep ==
  ASSUME BillingInv, NEW p \in Requests, CheckoutSession(p)
  PROVE  BillingInv'
  <1>1. TypeOK BY DEF BillingInv
  <1>2. req[p].pc \in CheckoutPoints BY DEF CheckoutSession, At, CheckoutPoints
  <1>3. UNCHANGED <<plans, subs, customer, events, newest, interrupted, admin>>
    BY DEF CheckoutSession
  <1>4. /\ stripe' \in [customers : 0..MaxCustomers, sessions : SUBSET (Users \X Slugs),
                        subs : Seq(StripeSub)]
        /\ stripe'.subs = stripe.subs
    <2>1. <<req[p].user, req[p].slug>> \in Users \X Slugs BY <1>2, AtCheckout
    <2> QED BY <1>1, <2>1 DEF TypeOK, CheckoutSession
  <1>5. "checkoutWrite" \in Points /\ "checkoutWrite" \in CheckoutPoints
    BY DEF Points, CheckoutPoints
  <1>6. Goto(p, "checkoutWrite") BY DEF CheckoutSession
  <1>7. /\ Only(p) /\ req'[p].pc = "checkoutWrite" /\ Same(req[p], req'[p])
        /\ req'[p].customer = req[p].customer
    BY <1>1, <1>5, <1>6, GotoForm
  <1>8. req'[p].customer <= MaxCustomers BY <1>2, <1>7, AtCheckout, ConstantsTyped
  <1>9. RequestOK(req[p])' BY <1>2, <1>5, <1>7, <1>8, CheckoutGoes DEF Same
  <1> QED BY <1>1, <1>2, <1>3, <1>4, <1>7, <1>9, CheckoutWrites DEF TypeOK

-----------------------------------------------------------------------------
(* UpdateUserSubscription, and the three statements that call it.          *)

\* The row that the COALESCE of the columns leaves.
Merged(u, s, status, id) ==
  [plan   |-> IF s = NoPlan THEN subs[u].plan ELSE s,
   status |-> IF status = "" THEN subs[u].status ELSE status,
   stripe |-> IF id = NoStripe THEN subs[u].stripe ELSE id]

LEMMA MergedForm ==
  ASSUME TypeOK, NEW u \in Users, NEW s \in Slugs \cup {NoPlan},
         NEW status \in Statuses \cup {""}, NEW id \in StripeIds \cup {NoStripe}
  PROVE  Merged(u, s, status, id) \in Row
  <1>1. subs[u] \in Row BY DEF TypeOK
  <1> QED BY <1>1 DEF Row, Merged

LEMMA UpdateForm ==
  ASSUME TypeOK, NEW u \in Users, NEW s, NEW status, NEW id,
         UpdateUserSubscription(u, s, status, id)
  PROVE  subs' = [subs EXCEPT ![u] = Merged(u, s, status, id)]
  BY DEF UpdateUserSubscription, TypeOK, Merged

LEMMA CheckoutWriteStep ==
  ASSUME BillingInv, NEW p \in Requests, CheckoutWrite(p)
  PROVE  BillingInv'
  <1>1. TypeOK BY DEF BillingInv
  <1>2. req[p].pc \in CheckoutPoints BY DEF CheckoutWrite, At, CheckoutPoints
  <1>3. PICK u \in Users : u = req[p].user BY <1>2, AtCheckout
  <1>4. PICK s \in Slugs : s = req[p].slug BY <1>2, AtCheckout
  <1>5. UNCHANGED <<plans, customer, stripe, events, newest, interrupted, admin>>
    BY DEF CheckoutWrite, others
  <1>6. Only(p) /\ RequestOK(req[p])' BY <1>1, ReturnForm DEF CheckoutWrite
  <1>7. CASE UNCHANGED subs
    <2>1. admin' \in 0..MaxAdmin BY <1>1, <1>5 DEF TypeOK
    <2> QED BY <1>2, <1>5, <1>6, <1>7, <2>1, AtCheckout, ReadStep
  <1>8. CASE ForeignKey(s) /\ UpdateUserSubscription(u, s, "", NoStripe)
    <2>0. PICK row \in Row : row = Merged(u, s, "", NoStripe)
      <3>1. /\ s \in Slugs \cup {NoPlan} /\ "" \in Statuses \cup {""}
            /\ NoStripe \in StripeIds \cup {NoStripe} /\ s # NoPlan
        BY ConstantsTyped
      <3> QED BY <1>1, <3>1, MergedForm
    <2>a. /\ subs' = [subs EXCEPT ![u] = row]
          /\ row.plan = IF s = NoPlan THEN subs[u].plan ELSE s
          /\ row.status = IF "" = "" THEN subs[u].status ELSE ""
          /\ row.stripe = IF NoStripe = NoStripe THEN subs[u].stripe ELSE NoStripe
      <3>1. UpdateUserSubscription(u, s, "", NoStripe) BY <1>8
      <3>2. subs' = [subs EXCEPT ![u] = row] BY <1>1, <2>0, <3>1, UpdateForm
      <3> QED BY <2>0, <3>2 DEF Merged
    <2>1. /\ row \in Row /\ subs' = [subs EXCEPT ![u] = row] /\ row.plan = s
          /\ row.status = subs[u].status /\ row.stripe = subs[u].stripe
      BY <2>a, ConstantsTyped
    <2>2. plans[row.plan].exists BY <1>8, <2>1, ConstantsTyped DEF ForeignKey
    <2>3. row.stripe # NoStripe =>
            row.stripe \in 1..Len(stripe.subs) /\ stripe.subs[row.stripe].user = u
      BY <2>1 DEF BillingInv, SubscribersOK
    <2>4. PICK n \in 0..MaxEvents : n = newest[u] BY <1>1 DEF TypeOK
    <2>5. newest' = [newest EXCEPT ![u] = n] BY <1>1, <1>5, <2>4 DEF TypeOK
    <2>6. n > 0 => /\ row.plan # NoPlan /\ n \in 1..Len(events) /\ events[n].user = u
                   /\ row.status = EventStatus(events[n])
      BY <2>1, <2>4, ConstantsTyped DEF BillingInv, NewestOK
    <2>7. req[p].pc \notin {"list", "clear"} BY <1>2, AtCheckout
    <2> QED BY <1>5, <1>6, <2>1, <2>2, <2>3, <2>5, <2>6, <2>7, WriteSubs
  <1> QED BY <1>3, <1>4, <1>7, <1>8 DEF CheckoutWrite

LEMMA WebhookBegin ==
  ASSUME BillingInv, NEW p \in Requests, NEW n \in 1..MaxEvents, Webhook(p, n)
  PROVE  BillingInv'
  <1>1. TypeOK BY DEF BillingInv
  <1>2. n \in 1..Len(events)
    <2>1. n \in DOMAIN events BY DEF Webhook
    <2>2. events \in Seq(Event) BY <1>1 DEF TypeOK
    <2> QED BY <2>1, <2>2
  <1>3. PICK u \in Users : u = events[n].user
    <2>1. events[n] \in Event BY <1>1, <1>2 DEF TypeOK
    <2>2. events[n].user \in Users BY <2>1 DEF Event
    <2> QED BY <2>2
  <1>4. PICK pc \in {"ensure", "lookup"} :
          pc = IF events[n].type = "completed" THEN "ensure" ELSE "lookup"
    OBVIOUS
  <1> DEFINE r == [Idle EXCEPT !.pc = pc, !.then = "eventWrite", !.user = u, !.event = n]
  <1>5. /\ r \in Request /\ r.pc = pc /\ r.then = "eventWrite" /\ r.user = u
        /\ r.event = n /\ r.customer = 0
    <2>1. pc \in Points /\ "eventWrite" \in Points /\ n \in 0..MaxEvents BY DEF Points
    <2> QED BY <2>1, IdleTyped DEF Request
  <1>6. Begin(p, r) BY <1>3, <1>4 DEF Webhook
  <1> HIDE DEF r
  <1>7. RequestOK(r)
    BY <1>2, <1>3, <1>5, NoCustomerTyped DEF RequestOK, Target, Ensuring
  <1>8. UNCHANGED <<plans, subs, customer, stripe, events, newest, interrupted, admin>>
    BY DEF Webhook, others
  <1>9. admin' \in 0..MaxAdmin BY <1>1, <1>8 DEF TypeOK
  <1> QED BY <1>5, <1>6, <1>7, <1>8, <1>9, BeginStep

\* A webhook at its lookup or its write has an event, and its user is the one
\* that Stripe has for the subscription.
LEMMA AtWebhook ==
  ASSUME BillingInv, NEW p \in Requests, req[p].pc \in {"lookup", "eventWrite"}
  PROVE  \E n \in 1..Len(events), u \in Users :
           /\ req[p].pc = "lookup" => req[p].then = "eventWrite"
           /\ req[p].event = n /\ req[p].user = u /\ events[n] \in Event
           /\ events[n].user = u /\ EventOK(events[n])
           /\ req[p].customer \in 0..MaxCustomers
  <1>1. RequestOK(req[p]) /\ req[p].customer \in Nat BY Typed DEF BillingInv, RequestsOK
  <1>2. /\ req[p].event \in 1..Len(events) /\ req[p].user = events[req[p].event].user
        /\ req[p].user \in Users /\ req[p].customer <= MaxCustomers
        /\ req[p].pc = "lookup" => req[p].then = "eventWrite"
    BY <1>1 DEF RequestOK, Target, Ensuring
  <1>3. EventOK(events[req[p].event]) BY <1>2 DEF BillingInv, EventsOK
  <1>4. events[req[p].event] \in Event BY <1>2 DEF BillingInv, TypeOK
  <1> QED BY <1>1, <1>2, <1>3, <1>4, ConstantsTyped

LEMMA WebhookLookupStep ==
  ASSUME BillingInv, NEW p \in Requests, WebhookLookup(p)
  PROVE  BillingInv'
  <1>1. TypeOK BY DEF BillingInv
  <1>2. req[p].pc = "lookup" BY DEF WebhookLookup, At
  <1>3. PICK n \in 1..Len(events), u \in Users :
          /\ req[p].then = "eventWrite" /\ req[p].event = n /\ req[p].user = u
          /\ events[n] \in Event
          /\ events[n].user = u /\ EventOK(events[n]) /\ req[p].customer \in 0..MaxCustomers
    BY <1>2, AtWebhook
  <1>4. UNCHANGED <<plans, subs, customer, stripe, events, newest, interrupted, admin>>
    BY DEF WebhookLookup, others
  <1>5. admin' \in 0..MaxAdmin BY <1>1, <1>4 DEF TypeOK
  <1>6. req[p].then \in Points BY <1>1, Typed
  <1>7. CASE Goto(p, "ensure")
    <2>1. "ensure" \in Points BY DEF Points
    <2>2. /\ Only(p) /\ req'[p].pc = "ensure" /\ Same(req[p], req'[p])
          /\ req'[p].customer = req[p].customer
      BY <1>1, <1>7, <2>1, GotoForm
    <2>3. RequestOK(req[p])'
      BY <1>3, <1>4, <1>7, <2>2, ConstantsTyped DEF RequestOK, Target, Ensuring, Same
    <2> QED BY <1>2, <1>4, <1>5, <2>2, <2>3, ReadStep
  <1>8. ASSUME NEW v \in Users, subs[v].stripe = events[n].sub,
               req' = [req EXCEPT ![p].pc = "eventWrite", ![p].user = v, ![p].found = TRUE]
        PROVE  BillingInv'
    <2>1. events[n].sub # NoStripe /\ events[n].sub \in StripeIds
      BY <1>3, ConstantsTyped DEF EventOK, Event, NoStripe, StripeIds
    <2>2. v = u BY <1>3, <1>8, <2>1 DEF BillingInv, SubscribersOK, EventOK
    <2> DEFINE row == [req[p] EXCEPT !.pc = "eventWrite", !.user = v, !.found = TRUE]
    <2>3. /\ row \in Request /\ row.pc = "eventWrite" /\ row.user = v
          /\ row.event = n /\ row.customer = req[p].customer
      <3>1. req[p] \in Request /\ "eventWrite" \in Points BY <1>1 DEF TypeOK, Points
      <3> QED BY <1>3, <3>1 DEF Request
    <2>4. req' = [req EXCEPT ![p] = row] BY <1>8
    <2> HIDE DEF row
    <2>5. Only(p) /\ req'[p] = row BY <1>1, <2>3, <2>4 DEF TypeOK, Only
    <2>6. RequestOK(req[p])'
      BY <1>3, <1>4, <2>2, <2>3, <2>5, NoCustomerTyped DEF RequestOK, Target, Ensuring
    <2> QED BY <1>2, <1>4, <1>5, <2>5, <2>6, ReadStep
  <1> QED BY <1>3, <1>7, <1>8 DEF WebhookLookup

LEMMA EventStatusTyped ==
  ASSUME NEW e \in Event
  PROVE  EventStatus(e) \in Statuses /\ EventStatus(e) # ""
  BY DEF EventStatus, mapStripeStatus, Statuses

LEMMA WebhookWriteStep ==
  ASSUME BillingInv, NEW p \in Requests, WebhookWrite(p)
  PROVE  BillingInv'
  <1>1. TypeOK BY DEF BillingInv
  <1>2. req[p].pc = "eventWrite" BY DEF WebhookWrite, At
  <1>3. PICK n \in 1..Len(events), u \in Users :
          /\ req[p].event = n /\ req[p].user = u /\ events[n] \in Event
          /\ events[n].user = u /\ EventOK(events[n])
    BY <1>2, AtWebhook
  <1>4. UNCHANGED <<plans, customer, stripe, events, interrupted, admin>>
    BY DEF WebhookWrite
  <1>5. Only(p) /\ RequestOK(req[p])' BY <1>1, ReturnForm DEF WebhookWrite
  <1>6. CASE UNCHANGED <<subs, newest>>
    <2>1. admin' \in 0..MaxAdmin BY <1>1, <1>4 DEF TypeOK
    <2> QED BY <1>2, <1>4, <1>5, <1>6, <2>1, ReadStep
  <1>7. PICK s \in Slugs, id \in StripeIds, st \in Statuses :
          s = events[n].plan /\ id = events[n].sub /\ st = EventStatus(events[n]) /\ st # ""
    BY <1>3, EventStatusTyped DEF Event
  <1>8. PICK i \in StripeIds \cup {NoStripe} : i = IF req[p].found THEN NoStripe ELSE id
    OBVIOUS
  <1>9. CASE /\ ForeignKey(s) /\ UpdateUserSubscription(u, s, st, i)
             /\ newest' = [newest EXCEPT ![u] = n]
    <2>0. PICK row \in Row : row = Merged(u, s, st, i)
      <3>1. s \in Slugs \cup {NoPlan} /\ st \in Statuses \cup {""}
        OBVIOUS
      <3> QED BY <1>1, <3>1, MergedForm
    <2>a. /\ subs' = [subs EXCEPT ![u] = row]
          /\ row.plan = IF s = NoPlan THEN subs[u].plan ELSE s
          /\ row.status = IF st = "" THEN subs[u].status ELSE st
          /\ row.stripe = IF i = NoStripe THEN subs[u].stripe ELSE i
      <3>1. UpdateUserSubscription(u, s, st, i) BY <1>9
      <3>2. subs' = [subs EXCEPT ![u] = row] BY <1>1, <2>0, <3>1, UpdateForm
      <3> QED BY <2>0, <3>2 DEF Merged
    <2>1. /\ row \in Row /\ subs' = [subs EXCEPT ![u] = row] /\ row.plan = s
          /\ row.status = st /\ row.stripe \in {subs[u].stripe, id}
      <3>1. i \in {NoStripe, id} BY <1>8
      <3>2. s # NoPlan BY ConstantsTyped
      <3> QED BY <1>7, <2>a, <3>1, <3>2
    <2>2. plans[row.plan].exists /\ row.plan # NoPlan
      BY <1>9, <2>1, ConstantsTyped DEF ForeignKey
    <2>3. row.stripe # NoStripe =>
            row.stripe \in 1..Len(stripe.subs) /\ stripe.subs[row.stripe].user = u
      <3>1. CASE row.stripe = subs[u].stripe BY <3>1 DEF BillingInv, SubscribersOK
      <3>2. CASE row.stripe = id BY <1>3, <1>7, <3>2 DEF EventOK
      <3> QED BY <2>1, <3>1, <3>2
    <2>4. n \in 0..MaxEvents BY <1>3, ConstantsTyped DEF BillingInv, EventsOK, TypeOK
    <2>5. newest' = [newest EXCEPT ![u] = n] BY <1>9
    <2>6. n > 0 => /\ row.plan # NoPlan /\ n \in 1..Len(events) /\ events[n].user = u
                   /\ row.status = EventStatus(events[n])
      BY <1>3, <1>7, <2>1, <2>2
    <2>7. req[p].pc \notin {"list", "clear"} BY <1>2
    <2> QED BY <1>4, <1>5, <2>1, <2>2, <2>3, <2>4, <2>5, <2>6, <2>7, WriteSubs
  <1> QED
    <2>1. \/ UNCHANGED <<subs, newest>>
          \/ /\ ForeignKey(s)
             /\ UpdateUserSubscription(u, s, st, IF req[p].found THEN NoStripe ELSE id)
             /\ newest' = [newest EXCEPT ![u] = n]
      BY <1>3, <1>7 DEF WebhookWrite
    <2> QED BY <1>6, <1>8, <1>9, <2>1

-----------------------------------------------------------------------------
(* AdminUpdateSubscription.                                                *)

LEMMA AdminBegin ==
  ASSUME BillingInv, NEW p \in Requests, NEW r \in Request, BeginAdmin(p, r)
  PROVE  Begin(p, r) /\ admin' \in 0..MaxAdmin
  BY ConstantsTyped DEF BillingInv, TypeOK, BeginAdmin

LEMMA AdminUpdateStep ==
  ASSUME BillingInv, NEW p \in Requests, NEW u \in Users, NEW s \in Slugs \cup {NoPlan},
         NEW st \in {"", "active", "canceled"}, AdminUpdate(p, u, s, st)
  PROVE  BillingInv'
  <1> DEFINE r == [Idle EXCEPT !.pc = "ensure", !.then = "adminWrite", !.user = u,
                               !.slug = s, !.status = st]
  <1>1. /\ r \in Request /\ r.pc = "ensure" /\ r.user = u /\ r.then = "adminWrite"
        /\ r.customer = 0
    <2>1. "ensure" \in Points /\ "adminWrite" \in Points /\ st \in Statuses \cup {""}
      BY DEF Points, Statuses
    <2> QED BY <2>1, IdleTyped DEF Request
  <1>2. BeginAdmin(p, r) BY DEF AdminUpdate
  <1> HIDE DEF r
  <1>3. RequestOK(r) BY <1>1, NoCustomerTyped DEF RequestOK, Target, Ensuring
  <1>4. UNCHANGED <<plans, subs, customer, stripe, events, newest, interrupted>>
    BY DEF AdminUpdate
  <1> QED BY <1>1, <1>2, <1>3, <1>4, AdminBegin, BeginStep

LEMMA AdminWriteStep ==
  ASSUME BillingInv, NEW p \in Requests, AdminWrite(p)
  PROVE  BillingInv'
  <1>1. TypeOK /\ RequestOK(req[p]) BY DEF BillingInv, RequestsOK
  <1>2. req[p].pc = "adminWrite" BY DEF AdminWrite, At
  <1>3. PICK u \in Users : u = req[p].user BY <1>1, <1>2 DEF RequestOK, Target, Ensuring
  <1>4. PICK s \in Slugs \cup {NoPlan}, st \in Statuses \cup {""} :
          s = req[p].slug /\ st = req[p].status
    BY <1>1, Typed
  <1>5. UNCHANGED <<plans, customer, stripe, events, interrupted, admin>> BY DEF AdminWrite
  <1>6. Only(p) /\ RequestOK(req[p])' BY <1>1, ReturnForm DEF AdminWrite
  <1>7. CASE UNCHANGED <<subs, newest>>
    <2>1. admin' \in 0..MaxAdmin BY <1>1, <1>5 DEF TypeOK
    <2> QED BY <1>2, <1>5, <1>6, <1>7, <2>1, ReadStep
  <1>8. CASE /\ ForeignKey(s) /\ UpdateUserSubscription(u, s, st, NoStripe)
             /\ newest' = [newest EXCEPT ![u] = IF st = "" THEN @ ELSE 0]
    <2>0. PICK row \in Row : row = Merged(u, s, st, NoStripe)
      <3>1. NoStripe \in StripeIds \cup {NoStripe} OBVIOUS
      <3> QED BY <1>1, <3>1, MergedForm
    <2>a. /\ subs' = [subs EXCEPT ![u] = row]
          /\ row.plan = IF s = NoPlan THEN subs[u].plan ELSE s
          /\ row.status = IF st = "" THEN subs[u].status ELSE st
          /\ row.stripe = IF NoStripe = NoStripe THEN subs[u].stripe ELSE NoStripe
      <3>1. UpdateUserSubscription(u, s, st, NoStripe) BY <1>8
      <3>2. subs' = [subs EXCEPT ![u] = row] BY <1>1, <2>0, <3>1, UpdateForm
      <3> QED BY <2>0, <3>2 DEF Merged
    <2>1. /\ row \in Row /\ subs' = [subs EXCEPT ![u] = row]
          /\ row.plan = IF s = NoPlan THEN subs[u].plan ELSE s
          /\ row.status = IF st = "" THEN subs[u].status ELSE st
          /\ row.stripe = subs[u].stripe
      BY <2>a
    <2>2. row.plan # NoPlan => plans[row.plan].exists
      <3>1. CASE s = NoPlan BY <2>1, <3>1 DEF BillingInv, SubscriptionHasPlan, GetPlan
      <3>2. CASE s # NoPlan BY <1>8, <2>1, <3>2 DEF ForeignKey
      <3> QED BY <3>1, <3>2
    <2>3. row.stripe # NoStripe =>
            row.stripe \in 1..Len(stripe.subs) /\ stripe.subs[row.stripe].user = u
      BY <2>1 DEF BillingInv, SubscribersOK
    <2>4. newest[u] \in 0..MaxEvents BY <1>1 DEF TypeOK
    <2>5. PICK n \in 0..MaxEvents : n = IF st = "" THEN newest[u] ELSE 0
      <3>1. 0 \in 0..MaxEvents BY NoEventTyped
      <3>2. (IF st = "" THEN newest[u] ELSE 0) \in 0..MaxEvents
        <4>1. CASE st = "" BY <2>4, <4>1
        <4>2. CASE st # "" BY <3>1, <4>2
        <4> QED BY <4>1, <4>2
      <3> QED BY <3>2
    <2>6. newest' = [newest EXCEPT ![u] = n] BY <1>1, <1>8, <2>5 DEF TypeOK
    <2>7. n > 0 => /\ row.plan # NoPlan /\ n \in 1..Len(events) /\ events[n].user = u
                   /\ row.status = EventStatus(events[n])
      <3> SUFFICES ASSUME n > 0 PROVE /\ row.plan # NoPlan /\ n \in 1..Len(events)
                                      /\ events[n].user = u /\ row.status = EventStatus(events[n])
        OBVIOUS
      <3>1. st = "" /\ n = newest[u]
        <4>1. CASE st = "" BY <2>5, <4>1
        <4>2. CASE st # ""
          <5>1. n = 0 BY <2>5, <4>2
          <5>2. ~(n > 0) BY <5>1, NoEventTyped, Zenon
          <5> QED BY <5>2
        <4> QED BY <4>1, <4>2
      <3> QED BY <2>1, <3>1 DEF BillingInv, NewestOK
    <2>8. req[p].pc \notin {"list", "clear"} BY <1>2
    <2> QED BY <1>5, <1>6, <2>1, <2>2, <2>3, <2>6, <2>7, <2>8, WriteSubs
  <1> QED BY <1>3, <1>4, <1>7, <1>8 DEF AdminWrite

-----------------------------------------------------------------------------
(* Plans and their highlight.                                              *)

\* Of two highlighted plans after a step of p, p will clear one, or both were
\* highlighted before and somebody else will.
LEMMA HighlightsStep ==
  ASSUME BillingInv, NEW p \in Requests, Only(p), interrupted => interrupted',
         \A s, t \in ListHighlighted' :
           s # t => \/ interrupted'
                    \/ WillClear(req'[p], s, t)
                    \/ s \in ListHighlighted /\ t \in ListHighlighted /\ ~WillClear(req[p], s, t)
  PROVE  HighlightsOK'
  <1>1. SUFFICES ASSUME ~interrupted', NEW s \in ListHighlighted', NEW t \in ListHighlighted',
                        s # t
                 PROVE  \E q \in Requests : WillClear(req'[q], s, t)
    BY DEF HighlightsOK, WillClear
  <1>2. CASE WillClear(req'[p], s, t) BY <1>2
  <1>3. CASE s \in ListHighlighted /\ t \in ListHighlighted /\ ~WillClear(req[p], s, t)
    <2>1. ~interrupted BY <1>1
    <2>2. PICK q \in Requests : WillClear(req[q], s, t)
      BY <1>1, <1>3, <2>1 DEF BillingInv, HighlightsOK
    <2>3. q # p BY <1>3, <2>2
    <2>4. req'[q] = req[q] BY <2>3 DEF Only
    <2> QED BY <2>2, <2>4
  <1> QED BY <1>1, <1>2, <1>3

\* A step of p that writes plans, its own request and interrupted.
LEMMA PlanStep ==
  ASSUME BillingInv, NEW p \in Requests, Only(p), RequestOK(req[p])',
         UNCHANGED <<subs, customer, stripe, events, newest, admin>>,
         plans' \in [Slugs -> Plan], interrupted' \in BOOLEAN,
         \A u \in Users : subs[u].plan # NoPlan => plans'[subs[u].plan].exists,
         HighlightsOK'
  PROVE  BillingInv'
  <1>1. TypeOK' BY DEF BillingInv, TypeOK, Only
  <1>2. SubscriptionHasPlan' BY DEF SubscriptionHasPlan, GetPlan
  <1> QED BY <1>1, <1>2, RequestsStep, QuietTables DEF BillingInv

\* A request for plan s that begins at pc.
LEMMA PlanBegin ==
  ASSUME BillingInv, NEW p \in Requests, NEW s \in Slugs,
         NEW pc \in {"planInsert", "planUpdate", "planDelete"},
         NEW edit \in {"", "activate", "deactivate", "highlight"},
         BeginAdmin(p, [Idle EXCEPT !.pc = pc, !.slug = s, !.edit = edit]),
         UNCHANGED <<plans, subs, customer, stripe, events, newest, interrupted>>
  PROVE  BillingInv'
  <1> DEFINE r == [Idle EXCEPT !.pc = pc, !.slug = s, !.edit = edit]
  <1>1. r \in Request /\ r.pc = pc /\ r.slug = s /\ r.customer = 0
    <2>1. pc \in Points BY DEF Points
    <2> QED BY <2>1, IdleTyped DEF Request
  <1>2. BeginAdmin(p, r) OBVIOUS
  <1> HIDE DEF r
  <1>3. RequestOK(r) BY <1>1, NoCustomerTyped DEF RequestOK, Target, Ensuring
  <1> QED BY <1>1, <1>2, <1>3, AdminBegin, BeginStep

LEMMA AdminCreatePlanStep ==
  ASSUME BillingInv, NEW p \in Requests, NEW s \in Slugs,
         NEW e \in {"", "activate", "deactivate", "highlight"}, AdminCreatePlan(p, s, e)
  PROVE  BillingInv'
  BY PlanBegin DEF AdminCreatePlan

LEMMA AdminUpdatePlanStep ==
  ASSUME BillingInv, NEW p \in Requests, NEW s \in Slugs,
         NEW e \in {"", "activate", "deactivate", "highlight"}, AdminUpdatePlan(p, s, e)
  PROVE  BillingInv'
  BY PlanBegin DEF AdminUpdatePlan

LEMMA AdminDeletePlanStep ==
  ASSUME BillingInv, NEW p \in Requests, NEW s \in Slugs, AdminDeletePlan(p, s)
  PROVE  BillingInv'
  <1> DEFINE r == [Idle EXCEPT !.pc = "planDelete", !.slug = s]
  <1>1. r = [Idle EXCEPT !.pc = "planDelete", !.slug = s, !.edit = ""]
    BY IdleTyped DEF Request
  <1> QED BY <1>1, PlanBegin DEF AdminDeletePlan

PlanPoints == {"planInsert", "planUpdate", "planDelete", "list", "clear"}

LEMMA AtPlan ==
  ASSUME BillingInv, NEW p \in Requests, req[p].pc \in PlanPoints
  PROVE  req[p].slug \in Slugs /\ req[p].customer <= MaxCustomers
  BY DEF BillingInv, RequestsOK, RequestOK, Target, Ensuring, PlanPoints

LEMMA PlanGoes ==
  ASSUME BillingInv, NEW p \in Requests, req[p].pc \in PlanPoints,
         NEW pc \in {"list", "clear"}, req'[p].pc = pc, req'[p].slug = req[p].slug,
         req'[p].customer = req[p].customer
  PROVE  RequestOK(req[p])'
  <1>1. req[p].slug \in Slugs /\ req[p].customer <= MaxCustomers BY AtPlan
  <1> QED BY <1>1 DEF RequestOK, Target, Ensuring

\* A statement that writes row s of plans, and returns or goes on to clear.
LEMMA PlanRow ==
  ASSUME BillingInv, NEW p \in Requests, req[p].pc \in {"planInsert", "planUpdate"},
         NEW s \in Slugs, req[p].slug = s, NEW row \in Plan,
         plans' = [plans EXCEPT ![s] = row], row.exists,
         ThenClear(p),
         row.is_highlighted =>
           s \in ListHighlighted \/ req[p].edit = "highlight",
         UNCHANGED <<subs, customer, stripe, events, newest, admin, interrupted>>
  PROVE  BillingInv'
  <1>1. TypeOK BY DEF BillingInv
  <1>2. /\ plans' \in [Slugs -> Plan] /\ plans'[s] = row
        /\ \A t \in Slugs : t # s => plans'[t] = plans[t]
    BY <1>1 DEF TypeOK
  <1>3. \A u \in Users : subs[u].plan # NoPlan => plans'[subs[u].plan].exists
    <2> SUFFICES ASSUME NEW u \in Users, subs[u].plan # NoPlan
                 PROVE  plans'[subs[u].plan].exists
      OBVIOUS
    <2>1. subs[u].plan \in Slugs BY <1>1 DEF TypeOK, Row
    <2>2. plans[subs[u].plan].exists BY DEF BillingInv, SubscriptionHasPlan, GetPlan
    <2> QED BY <1>2, <2>1, <2>2
  <1>4. /\ Only(p) /\ RequestOK(req[p])'
        /\ req[p].edit = "highlight" => req'[p].pc = "list" /\ req'[p].slug = s
    <2>1. CASE req[p].edit = "highlight"
      <3>1. "list" \in Points BY DEF Points
      <3>2. Goto(p, "list") BY <2>1 DEF ThenClear
      <3>3. /\ Only(p) /\ req'[p].pc = "list" /\ Same(req[p], req'[p])
            /\ req'[p].customer = req[p].customer
        BY <1>1, <3>1, <3>2, GotoForm
      <3>4. RequestOK(req[p])' BY <3>3, PlanGoes DEF Same, PlanPoints
      <3> QED BY <3>3, <3>4 DEF Same
    <2>2. CASE req[p].edit # "highlight"
      <3>1. Return(p) BY <2>2 DEF ThenClear
      <3> QED BY <1>1, <2>2, <3>1, ReturnForm
    <2> QED BY <2>1, <2>2
  <1>5. ASSUME NEW a \in ListHighlighted', NEW b \in ListHighlighted', a # b
        PROVE  \/ WillClear(req'[p], a, b)
               \/ a \in ListHighlighted /\ b \in ListHighlighted /\ ~WillClear(req[p], a, b)
    <2>1. ~WillClear(req[p], a, b) BY DEF WillClear
    <2>2. \A c \in ListHighlighted' : c # s => c \in ListHighlighted
      BY <1>2 DEF ListHighlighted
    <2>3. s \in ListHighlighted' => row.is_highlighted BY <1>2 DEF ListHighlighted
    <2>4. CASE req[p].edit = "highlight" /\ s \in {a, b}
      BY <1>4, <2>4 DEF WillClear
    <2>5. CASE ~(req[p].edit = "highlight" /\ s \in {a, b})
      BY <1>5, <2>1, <2>2, <2>3, <2>5
    <2> QED BY <2>4, <2>5
  <1>6. HighlightsOK' BY <1>4, <1>5, HighlightsStep
  <1>7. interrupted' \in BOOLEAN BY <1>1 DEF TypeOK
  <1> QED BY <1>2, <1>3, <1>4, <1>6, <1>7, PlanStep

LEMMA PlanInsertStep ==
  ASSUME BillingInv, NEW p \in Requests, PlanInsert(p)
  PROVE  BillingInv'
  <1>1. TypeOK BY DEF BillingInv
  <1>2. req[p].pc = "planInsert" BY DEF PlanInsert, At
  <1>3. PICK s \in Slugs : req[p].slug = s BY <1>2, AtPlan DEF PlanPoints
  <1>4. UNCHANGED <<subs, customer, stripe, events, newest, admin, interrupted>>
    BY DEF PlanInsert, others
  <1>5. CASE UNCHANGED plans /\ Return(p)
    <2>1. admin' \in 0..MaxAdmin BY <1>1, <1>4 DEF TypeOK
    <2> QED BY <1>1, <1>2, <1>4, <1>5, <2>1, ReturnForm, ReadStep
  <1>6. CASE /\ plans' = [plans EXCEPT ![s] =
                            [Catalog[s] EXCEPT !.exists = TRUE, !.is_active = TRUE,
                               !.is_highlighted = req[p].edit = "highlight"]]
             /\ ThenClear(p)
    <2> DEFINE new == [Catalog[s] EXCEPT !.exists = TRUE, !.is_active = TRUE,
                               !.is_highlighted = req[p].edit = "highlight"]
    <2>1. Catalog[s] \in Plan BY BillingAssumption
    <2>2. new \in Plan /\ new.exists = TRUE /\ new.is_highlighted = (req[p].edit = "highlight")
      BY <2>1 DEF Plan
    <2>3. plans' = [plans EXCEPT ![s] = new] BY <1>6
    <2> HIDE DEF new
    <2>4. PICK row \in Plan : row = new BY <2>2
    <2>5. /\ plans' = [plans EXCEPT ![s] = row] /\ row.exists
          /\ row.is_highlighted => req[p].edit = "highlight"
      BY <2>2, <2>3, <2>4
    <2>6. ThenClear(p) /\ req[p].pc \in {"planInsert", "planUpdate"} BY <1>2, <1>6
    <2> QED BY <1>3, <1>4, <2>5, <2>6, PlanRow
  <1> QED BY <1>3, <1>5, <1>6 DEF PlanInsert

LEMMA PlanUpdateStep ==
  ASSUME BillingInv, NEW p \in Requests, PlanUpdate(p)
  PROVE  BillingInv'
  <1> DEFINE edit == req[p].edit
  <1>1. TypeOK BY DEF BillingInv
  <1>2. req[p].pc = "planUpdate" BY DEF PlanUpdate, At
  <1>3. PICK s \in Slugs : req[p].slug = s BY <1>2, AtPlan DEF PlanPoints
  <1>4. UNCHANGED <<subs, customer, stripe, events, newest, admin, interrupted>>
    BY DEF PlanUpdate, others
  <1>5. CASE UNCHANGED plans /\ Return(p)
    <2>1. admin' \in 0..MaxAdmin BY <1>1, <1>4 DEF TypeOK
    <2> QED BY <1>1, <1>2, <1>4, <1>5, <2>1, ReturnForm, ReadStep
  <1>6. CASE /\ GetPlan(s)
             /\ plans' = [plans EXCEPT
                  ![s].is_highlighted = @ \/ edit = "highlight",
                  ![s].is_active = IF edit = "activate" THEN TRUE
                                   ELSE IF edit = "deactivate" THEN FALSE ELSE @]
             /\ ThenClear(p)
    <2> DEFINE new == [plans[s] EXCEPT
                         !.is_highlighted = plans[s].is_highlighted \/ edit = "highlight",
                         !.is_active = IF edit = "activate" THEN TRUE
                                       ELSE IF edit = "deactivate" THEN FALSE
                                       ELSE plans[s].is_active]
    <2>1. plans[s] \in Plan BY <1>1 DEF TypeOK
    <2>2. new \in Plan /\ new.exists = plans[s].exists
          /\ new.is_highlighted = (plans[s].is_highlighted \/ edit = "highlight")
      BY <2>1 DEF Plan
    <2>3. plans' = [plans EXCEPT ![s] = new] BY <1>1, <1>6 DEF TypeOK
    <2> HIDE DEF new
    <2>4. PICK row \in Plan : row = new BY <2>2
    <2>5. /\ plans' = [plans EXCEPT ![s] = row] /\ row.exists
          /\ row.is_highlighted => s \in ListHighlighted \/ req[p].edit = "highlight"
      BY <1>6, <2>2, <2>3, <2>4 DEF GetPlan, ListHighlighted
    <2>6. ThenClear(p) /\ req[p].pc \in {"planInsert", "planUpdate"} BY <1>2, <1>6
    <2> QED BY <1>3, <1>4, <2>5, <2>6, PlanRow
  <1> QED BY <1>3, <1>5, <1>6 DEF PlanUpdate

\* Subscriptions keep their plans when no plan ceases to exist.
LEMMA PlansStay ==
  ASSUME BillingInv, \A s \in Slugs : plans[s].exists => plans'[s].exists
  PROVE  \A u \in Users : subs[u].plan # NoPlan => plans'[subs[u].plan].exists
  <1> SUFFICES ASSUME NEW u \in Users, subs[u].plan # NoPlan
               PROVE  plans'[subs[u].plan].exists
    OBVIOUS
  <1>1. subs[u].plan \in Slugs BY DEF BillingInv, TypeOK, Row
  <1> QED BY <1>1 DEF BillingInv, SubscriptionHasPlan, GetPlan

LEMMA ClearListStep ==
  ASSUME BillingInv, NEW p \in Requests, ClearList(p)
  PROVE  BillingInv'
  <1>1. TypeOK BY DEF BillingInv
  <1>2. req[p].pc = "list" BY DEF ClearList, At
  <1>3. UNCHANGED <<plans, subs, customer, stripe, events, newest, admin, interrupted>>
    BY DEF ClearList, others
  <1> DEFINE row == [req[p] EXCEPT !.pc = "clear", !.rest = ListHighlighted \ {req[p].slug}]
  <1>4. /\ row \in Request /\ row.pc = "clear" /\ row.slug = req[p].slug
        /\ row.customer = req[p].customer /\ row.rest = ListHighlighted \ {req[p].slug}
    <2>1. req[p] \in Request BY <1>1 DEF TypeOK
    <2>2. ListHighlighted \ {req[p].slug} \in SUBSET Slugs /\ "clear" \in Points
      BY DEF ListHighlighted, Points
    <2> QED BY <2>1, <2>2 DEF Request
  <1>5. req' = [req EXCEPT ![p] = row] BY DEF ClearList
  <1> HIDE DEF row
  <1>6. Only(p) /\ req'[p] = row BY <1>1, <1>4, <1>5 DEF TypeOK, Only
  <1>7. RequestOK(req[p])'
    <2>1. req'[p].pc = "clear" /\ req'[p].slug = req[p].slug /\ req'[p].customer = req[p].customer
      BY <1>4, <1>6
    <2> QED BY <1>2, <2>1, PlanGoes DEF PlanPoints
  <1>8. ASSUME NEW s \in ListHighlighted', NEW t \in ListHighlighted', s # t
        PROVE  \/ WillClear(req'[p], s, t)
               \/ s \in ListHighlighted /\ t \in ListHighlighted /\ ~WillClear(req[p], s, t)
    <2>1. s \in ListHighlighted /\ t \in ListHighlighted BY <1>3 DEF ListHighlighted
    <2>2. CASE req[p].slug \in {s, t}
      BY <1>4, <1>6, <1>8, <2>1, <2>2 DEF WillClear
    <2>3. CASE req[p].slug \notin {s, t} BY <1>2, <2>1, <2>3 DEF WillClear
    <2> QED BY <2>2, <2>3
  <1>9. HighlightsOK' BY <1>3, <1>6, <1>8, HighlightsStep
  <1>10. \A u \in Users : subs[u].plan # NoPlan => plans'[subs[u].plan].exists
    BY <1>3, PlansStay
  <1>11. plans' \in [Slugs -> Plan] /\ interrupted' \in BOOLEAN BY <1>1, <1>3 DEF TypeOK
  <1> QED BY <1>3, <1>6, <1>7, <1>9, <1>10, <1>11, PlanStep

LEMMA ClearOneStep ==
  ASSUME BillingInv, NEW p \in Requests, ClearOne(p)
  PROVE  BillingInv'
  <1>1. TypeOK BY DEF BillingInv
  <1>2. req[p].pc = "clear" BY DEF ClearOne, At
  <1>3. UNCHANGED <<subs, customer, stripe, events, newest, admin>> BY DEF ClearOne
  <1>4. CASE req[p].rest = {} /\ Return(p) /\ UNCHANGED <<plans, interrupted>>
    <2>1. Only(p) /\ RequestOK(req[p])' BY <1>1, <1>4, ReturnForm
    <2>2. ASSUME NEW s \in ListHighlighted', NEW t \in ListHighlighted', s # t
          PROVE  s \in ListHighlighted /\ t \in ListHighlighted /\ ~WillClear(req[p], s, t)
      BY <1>2, <1>4 DEF WillClear, ListHighlighted
    <2>3. HighlightsOK' BY <1>4, <2>1, <2>2, HighlightsStep
    <2>4. \A u \in Users : subs[u].plan # NoPlan => plans'[subs[u].plan].exists
      BY <1>4, PlansStay
    <2>5. plans' \in [Slugs -> Plan] /\ interrupted' \in BOOLEAN BY <1>1, <1>4 DEF TypeOK
    <2> QED BY <1>3, <2>1, <2>3, <2>4, <2>5, PlanStep
  <1>5. ASSUME NEW s \in req[p].rest, GetPlan(s),
               plans' = [plans EXCEPT ![s].is_highlighted = FALSE],
               req' = [req EXCEPT ![p].rest = @ \ {s}], UNCHANGED interrupted
        PROVE  BillingInv'
    <2>1. s \in Slugs BY <1>1, Typed
    <2> DEFINE row == [req[p] EXCEPT !.rest = req[p].rest \ {s}]
    <2>2. /\ row \in Request /\ row.pc = "clear" /\ row.slug = req[p].slug
          /\ row.customer = req[p].customer /\ row.rest = req[p].rest \ {s}
      <3>1. req[p] \in Request /\ req[p].rest \ {s} \in SUBSET Slugs BY <1>1, Typed DEF TypeOK
      <3> QED BY <1>2, <3>1 DEF Request
    <2>3. req' = [req EXCEPT ![p] = row] BY <1>1, <1>5 DEF TypeOK
    <2> HIDE DEF row
    <2>4. Only(p) /\ req'[p] = row BY <1>1, <2>2, <2>3 DEF TypeOK, Only
    <2>5. RequestOK(req[p])'
      <3>1. /\ req'[p].pc = "clear" /\ req'[p].slug = req[p].slug
            /\ req'[p].customer = req[p].customer
        BY <2>2, <2>4
      <3> QED BY <1>2, <3>1, PlanGoes DEF PlanPoints
    <2> DEFINE new == [plans[s] EXCEPT !.is_highlighted = FALSE]
    <2>6. new \in Plan /\ new.exists = plans[s].exists /\ new.is_highlighted = FALSE
      <3>1. plans[s] \in Plan BY <1>1, <2>1 DEF TypeOK
      <3> QED BY <3>1 DEF Plan
    <2>7. plans' = [plans EXCEPT ![s] = new] BY <1>1, <1>5, <2>1 DEF TypeOK
    <2> HIDE DEF new
    <2>8. /\ plans' \in [Slugs -> Plan] /\ plans'[s] = new
          /\ \A t \in Slugs : t # s => plans'[t] = plans[t]
      BY <1>1, <2>1, <2>6, <2>7 DEF TypeOK
    <2>9. \A t \in ListHighlighted' : t \in ListHighlighted /\ t # s
      BY <2>6, <2>8 DEF ListHighlighted
    <2>10. ASSUME NEW a \in ListHighlighted', NEW b \in ListHighlighted', a # b
           PROVE  \/ WillClear(req'[p], a, b)
                  \/ a \in ListHighlighted /\ b \in ListHighlighted /\ ~WillClear(req[p], a, b)
      <3>1. a \in ListHighlighted /\ b \in ListHighlighted /\ a # s /\ b # s BY <2>9
      <3>2. WillClear(req[p], a, b) => WillClear(req'[p], a, b)
        BY <1>2, <2>2, <2>4, <3>1 DEF WillClear
      <3> QED BY <3>1, <3>2
    <2>11. HighlightsOK' BY <1>5, <2>4, <2>10, HighlightsStep
    <2>12. \A t \in Slugs : plans[t].exists => plans'[t].exists BY <2>6, <2>8
    <2>13. \A u \in Users : subs[u].plan # NoPlan => plans'[subs[u].plan].exists
      BY <2>12, PlansStay
    <2>14. interrupted' \in BOOLEAN BY <1>1, <1>5 DEF TypeOK
    <2> QED BY <1>3, <2>4, <2>5, <2>8, <2>11, <2>13, <2>14, PlanStep
  <1>6. ASSUME NEW s \in req[p].rest, ~GetPlan(s), Return(p),
               interrupted' = (interrupted \/ req[p].rest # {s}), UNCHANGED plans
        PROVE  BillingInv'
    <2>1. Only(p) /\ RequestOK(req[p])' BY <1>1, <1>6, ReturnForm
    <2>2. ASSUME NEW a \in ListHighlighted', NEW b \in ListHighlighted', a # b, ~interrupted'
          PROVE  a \in ListHighlighted /\ b \in ListHighlighted /\ ~WillClear(req[p], a, b)
      <3>1. a \in ListHighlighted /\ b \in ListHighlighted BY <1>6 DEF ListHighlighted
      <3>2. a # s /\ b # s BY <1>6, <3>1 DEF ListHighlighted, GetPlan
      <3>3. req[p].rest = {s} BY <1>6, <2>2
      <3> QED BY <1>2, <3>1, <3>2, <3>3 DEF WillClear
    <2>3. interrupted => interrupted' BY <1>6
    <2>4. HighlightsOK' BY <2>1, <2>2, <2>3, HighlightsStep
    <2>5. \A u \in Users : subs[u].plan # NoPlan => plans'[subs[u].plan].exists
      BY <1>6, PlansStay
    <2>6. plans' \in [Slugs -> Plan] /\ interrupted' \in BOOLEAN BY <1>1, <1>6 DEF TypeOK
    <2> QED BY <1>3, <2>1, <2>4, <2>5, <2>6, PlanStep
  <1> QED BY <1>4, <1>5, <1>6 DEF ClearOne

\* The foreign key: a plan that is deleted has no subscription.
LEMMA PlanDeleteStep ==
  ASSUME BillingInv, NEW p \in Requests, PlanDelete(p)
  PROVE  BillingInv'
  <1>1. TypeOK BY DEF BillingInv
  <1>2. req[p].pc = "planDelete" BY DEF PlanDelete, At
  <1>3. PICK s \in Slugs : req[p].slug = s BY <1>2, AtPlan DEF PlanPoints
  <1>4. UNCHANGED <<subs, customer, stripe, events, newest, admin, interrupted>>
    BY DEF PlanDelete, others
  <1>5. Only(p) /\ RequestOK(req[p])' BY <1>1, ReturnForm DEF PlanDelete
  <1>6. CASE plans' = plans
    <2>1. admin' \in 0..MaxAdmin BY <1>1, <1>4 DEF TypeOK
    <2> QED BY <1>2, <1>4, <1>5, <1>6, <2>1, ReadStep
  <1>7. CASE CountSubscriptionsForPlan(s) = 0 /\ plans' = [plans EXCEPT ![s].exists = FALSE]
    <2> DEFINE new == [plans[s] EXCEPT !.exists = FALSE]
    <2>1. new \in Plan /\ new.exists = FALSE
      <3>1. plans[s] \in Plan BY <1>1 DEF TypeOK
      <3> QED BY <3>1 DEF Plan
    <2>2. plans' = [plans EXCEPT ![s] = new] BY <1>1, <1>7 DEF TypeOK
    <2> HIDE DEF new
    <2>3. /\ plans' \in [Slugs -> Plan] /\ plans'[s] = new
          /\ \A t \in Slugs : t # s => plans'[t] = plans[t]
      BY <1>1, <2>1, <2>2 DEF TypeOK
    <2>4. \A u \in Users : subs[u].plan # s
      <3> DEFINE U == {u \in Users : subs[u].plan = s}
      <3>1. IsFiniteSet(Users) BY BillingAssumption
      <3>2. IsFiniteSet(U) BY <3>1, FS_Subset
      <3>3. Cardinality(U) = 0 BY <1>7 DEF CountSubscriptionsForPlan
      <3>4. U = {} BY <3>2, <3>3, FS_EmptySet
      <3> QED BY <3>4
    <2>5. \A u \in Users : subs[u].plan # NoPlan => plans'[subs[u].plan].exists
      <3> SUFFICES ASSUME NEW u \in Users, subs[u].plan # NoPlan
                   PROVE  plans'[subs[u].plan].exists
        OBVIOUS
      <3>1. subs[u].plan \in Slugs BY <1>1 DEF TypeOK, Row
      <3>2. plans[subs[u].plan].exists BY DEF BillingInv, SubscriptionHasPlan, GetPlan
      <3> QED BY <2>3, <2>4, <3>1, <3>2
    <2>6. \A t \in ListHighlighted' : t \in ListHighlighted
      BY <2>1, <2>3 DEF ListHighlighted
    <2>7. ASSUME NEW a \in ListHighlighted', NEW b \in ListHighlighted', a # b
          PROVE  a \in ListHighlighted /\ b \in ListHighlighted /\ ~WillClear(req[p], a, b)
      BY <1>2, <2>6 DEF WillClear
    <2>8. HighlightsOK' BY <1>4, <1>5, <2>7, HighlightsStep
    <2>9. interrupted' \in BOOLEAN BY <1>1, <1>4 DEF TypeOK
    <2> QED BY <1>4, <1>5, <2>3, <2>5, <2>8, <2>9, PlanStep
  <1> QED BY <1>3, <1>6, <1>7 DEF PlanDelete

LEMMA FailStep ==
  ASSUME BillingInv, NEW p \in Requests, Fail(p)
  PROVE  BillingInv'
  <1>1. TypeOK BY DEF BillingInv
  <1>2. /\ UNCHANGED <<plans, subs, customer, stripe, events, newest, admin>>
        /\ interrupted' = (interrupted \/ req[p].pc \in {"list", "clear"})
    BY DEF Fail
  <1>3. Only(p) /\ RequestOK(req[p])' BY <1>1, ReturnForm DEF Fail
  <1>4. ASSUME NEW a \in ListHighlighted', NEW b \in ListHighlighted', a # b, ~interrupted'
        PROVE  a \in ListHighlighted /\ b \in ListHighlighted /\ ~WillClear(req[p], a, b)
    BY <1>2, <1>4 DEF WillClear, ListHighlighted
  <1>5. interrupted => interrupted' BY <1>2
  <1>6. HighlightsOK' BY <1>3, <1>4, <1>5, HighlightsStep
  <1>7. \A u \in Users : subs[u].plan # NoPlan => plans'[subs[u].plan].exists
    BY <1>2, PlansStay
  <1>8. plans' \in [Slugs -> Plan] /\ interrupted' \in BOOLEAN BY <1>1, <1>2 DEF TypeOK
  <1> QED BY <1>2, <1>3, <1>6, <1>7, <1>8, PlanStep

-----------------------------------------------------------------------------
(* Stripe.                                                                 *)

LEMMA Concatenation ==
  ASSUME NEW S, NEW s \in Seq(S), NEW t \in Seq(S)
  PROVE  /\ s \o t \in Seq(S) /\ Len(s \o t) = Len(s) + Len(t)
         /\ Len(s) \in Nat /\ Len(t) \in Nat
         /\ \A i \in 1..Len(s) : i \in 1..Len(s \o t) /\ (s \o t)[i] = s[i]
         /\ \A i \in 1..Len(t) : Len(s) + i \in 1..Len(s \o t) /\ (s \o t)[Len(s) + i] = t[i]
         /\ \A i \in 1..Len(s \o t) : i \in 1..Len(s) \/ i - Len(s) \in 1..Len(t)
         /\ \A i \in 1..Len(s \o t) : i \notin 1..Len(s) => (s \o t)[i] = t[i - Len(s)]
  OBVIOUS

\* Stripe changes subscription id and emits events of it.
LEMMA EmitStep ==
  ASSUME BillingInv, NEW id \in StripeIds, NEW batch \in Seq(Event), Emit(batch),
         stripe' \in [customers : 0..MaxCustomers, sessions : SUBSET (Users \X Slugs),
                      subs : Seq(StripeSub)],
         1..Len(stripe.subs) \subseteq 1..Len(stripe'.subs),
         Len(stripe'.subs) <= MaxSubscriptions,
         \A i \in 1..Len(stripe.subs) :
           /\ stripe'.subs[i].user = stripe.subs[i].user
           /\ i # id => stripe'.subs[i].status = stripe.subs[i].status,
         1 \in 1..Len(batch),
         \A k \in 1..Len(batch) :
           /\ EventOK(batch[k])' /\ batch[k].sub = id
           /\ batch[k].status = stripe'.subs[id].status,
         UNCHANGED <<plans, subs, customer, req, admin, newest, interrupted>>
  PROVE  BillingInv'
  <1>1. TypeOK BY DEF BillingInv
  <1>2. events \in Seq(Event) /\ events' = events \o batch /\ Len(events) + Len(batch) <= MaxEvents
    BY <1>1 DEF TypeOK, Emit
  <1>3. /\ events' \in Seq(Event) /\ Len(events') = Len(events) + Len(batch)
        /\ Len(events) \in Nat /\ Len(batch) \in Nat
        /\ \A i \in 1..Len(events) : i \in 1..Len(events') /\ events'[i] = events[i]
        /\ \A i \in 1..Len(batch) :
             Len(events) + i \in 1..Len(events') /\ events'[Len(events) + i] = batch[i]
        /\ \A i \in 1..Len(events') : i \in 1..Len(events) \/ i - Len(events) \in 1..Len(batch)
        /\ \A i \in 1..Len(events') : i \notin 1..Len(events) => events'[i] = batch[i - Len(events)]
    BY <1>2, Concatenation
  <1>4. TypeOK' BY <1>1, <1>3 DEF TypeOK
  <1>5. EventsOK'
    <2>1. ASSUME NEW n \in 1..Len(events'), NEW e, e = events'[n] PROVE EventOK(e)'
      <3>1. CASE n \in 1..Len(events)
        <4>1. e = events[n] BY <1>3, <2>1, <3>1
        <4>2. EventOK(e) BY <3>1, <4>1 DEF BillingInv, EventsOK
        <4> QED BY <4>2 DEF EventOK
      <3>2. CASE n \notin 1..Len(events)
        <4>1. PICK k \in 1..Len(batch) : k = n - Len(events) BY <1>3, <3>2
        <4>2. e = batch[k] BY <1>3, <2>1, <3>2, <4>1
        <4>3. EventOK(batch[k])' OBVIOUS
        <4> QED BY <4>2, <4>3
      <3> QED BY <3>1, <3>2
    <2>2. Len(events') <= MaxEvents BY <1>2, <1>3
    <2> QED BY <2>1, <2>2 DEF EventsOK, EventOK
  <1>6. LatestOK'
    <2> SUFFICES ASSUME NEW n \in 1..Len(events'),
                        \A m \in 1..Len(events') : events'[m].sub = events'[n].sub => m <= n
                 PROVE  events'[n].status = stripe'.subs[events'[n].sub].status
      BY DEF LatestOK
    <2>1. CASE n \in 1..Len(events)
      <3>1. events'[n] = events[n] BY <1>3, <2>1
      <3>2. events[n].sub # id
        <4>1. /\ Len(events) + 1 \in 1..Len(events') /\ events'[Len(events) + 1] = batch[1]
              /\ batch[1].sub = id /\ ~(Len(events) + 1 <= n)
          BY <1>3, <2>1
        <4> QED BY <3>1, <4>1
      <3>3. \A m \in 1..Len(events) : events[m].sub = events[n].sub => m <= n
        BY <1>3, <3>1
      <3>4. events[n].status = stripe.subs[events[n].sub].status
        BY <2>1, <3>3 DEF BillingInv, LatestOK
      <3>5. events[n].sub \in 1..Len(stripe.subs) BY <2>1 DEF BillingInv, EventsOK, EventOK
      <3> QED BY <3>1, <3>2, <3>4, <3>5
    <2>2. CASE n \notin 1..Len(events)
      <3>1. PICK k \in 1..Len(batch) : k = n - Len(events) BY <1>3, <2>2
      <3>2. events'[n] = batch[k] BY <1>3, <2>2, <3>1
      <3> QED BY <3>2
    <2> QED BY <2>1, <2>2
  <1>7. RequestsOK'
    <2>1. ASSUME NEW q \in Requests PROVE RequestOK(req[q])'
      <3>1. RequestOK(req[q]) BY DEF BillingInv, RequestsOK
      <3> QED BY <1>3, <3>1 DEF RequestOK, Target, Ensuring
    <2> QED BY <2>1 DEF RequestsOK
  <1>8. SubscribersOK' BY DEF BillingInv, SubscribersOK
  <1>9. NewestOK'
    <2>1. ASSUME NEW u \in Users, newest[u] > 0
          PROVE  /\ subs[u].plan # NoPlan /\ newest[u] \in 1..Len(events')
                 /\ events'[newest[u]].user = u
                 /\ subs[u].status = EventStatus(events'[newest[u]])
      <3>1. /\ subs[u].plan # NoPlan /\ newest[u] \in 1..Len(events)
            /\ events[newest[u]].user = u /\ subs[u].status = EventStatus(events[newest[u]])
        BY <2>1 DEF BillingInv, NewestOK
      <3>2. newest[u] \in 1..Len(events') /\ events'[newest[u]] = events[newest[u]]
        BY <1>3, <3>1
      <3> QED BY <3>1, <3>2
    <2> QED BY <2>1 DEF NewestOK, EventStatus, mapStripeStatus
  <1>10. HighlightsOK' BY DEF BillingInv, HighlightsOK, ListHighlighted, WillClear
  <1> QED BY <1>4, <1>5, <1>6, <1>7, <1>8, <1>9, <1>10, QuietTables DEF BillingInv

LEMMA StripePayStep ==
  ASSUME BillingInv, NEW u \in Users, NEW s \in Slugs, StripePay(u, s)
  PROVE  BillingInv'
  <1>1. TypeOK BY DEF BillingInv
  <1>2. Len(stripe.subs) \in Nat /\ stripe.subs \in Seq(StripeSub) BY <1>1 DEF TypeOK
  <1>3. Len(stripe.subs) + 1 <= MaxSubscriptions BY DEF StripePay
  <1>4. PICK id \in StripeIds : id = Len(stripe.subs) + 1
    BY <1>2, <1>3, ConstantsTyped DEF StripeIds
  <1> DEFINE sub == [user |-> u, plan |-> s, status |-> "active"]
             e(type) == [type |-> type, sub |-> id, user |-> u, plan |-> s, status |-> "active"]
             batch == <<e("updated"), e("completed")>>
  <1>5. sub \in StripeSub /\ sub.user = u /\ sub.status = "active"
    BY ConstantsTyped DEF StripeSub
  <1>6. e("updated") \in Event /\ e("completed") \in Event
    BY ConstantsTyped DEF Event
  <1>7. /\ batch \in Seq(Event) /\ Len(batch) = 2
        /\ batch[1] = e("updated") /\ batch[2] = e("completed")
    BY <1>6
  <1>8. stripe' = [stripe EXCEPT !.sessions = @ \ {<<u, s>>}, !.subs = Append(@, sub)]
    BY DEF StripePay
  <1>9. Emit(batch) BY <1>4 DEF StripePay
  <1>10. UNCHANGED <<plans, subs, customer, req, admin, newest, interrupted>> BY DEF StripePay
  <1>11. /\ Append(stripe.subs, sub) \in Seq(StripeSub) /\ Len(Append(stripe.subs, sub)) = id
         /\ Append(stripe.subs, sub)[id] = sub
         /\ \A i \in 1..Len(stripe.subs) :
              i \in 1..id /\ i # id /\ Append(stripe.subs, sub)[i] = stripe.subs[i]
    <2> HIDE DEF sub
    <2> QED BY <1>2, <1>4, <1>5
  <1>12. /\ stripe' \in [customers : 0..MaxCustomers, sessions : SUBSET (Users \X Slugs),
                         subs : Seq(StripeSub)]
         /\ stripe'.subs = Append(stripe.subs, sub)
    <2> HIDE DEF sub
    <2> QED BY <1>1, <1>8, <1>11 DEF TypeOK
  <1>13. \A k \in 1..Len(batch) : /\ batch[k].sub = id /\ batch[k].user = u
                                  /\ batch[k].status = "active" /\ batch[k].type # "deleted"
    <2>1. \A k \in 1..Len(batch) : k = 1 \/ k = 2 BY <1>7
    <2> QED BY <1>7, <2>1
  <1>14. id \in 1..Len(stripe'.subs) /\ stripe'.subs[id] = sub BY <1>2, <1>4, <1>11, <1>12
  <1> HIDE DEF sub, batch, e
  <1>15. \A k \in 1..Len(batch) :
           /\ EventOK(batch[k])' /\ batch[k].sub = id /\ batch[k].status = stripe'.subs[id].status
    BY <1>5, <1>13, <1>14 DEF EventOK
  <1>16. /\ 1..Len(stripe.subs) \subseteq 1..Len(stripe'.subs)
         /\ Len(stripe'.subs) <= MaxSubscriptions
         /\ 1 \in 1..Len(batch)
    BY <1>3, <1>4, <1>7, <1>11, <1>12
  <1>17. \A i \in 1..Len(stripe.subs) : stripe'.subs[i] = stripe.subs[i] BY <1>11, <1>12
  <1>18. batch \in Seq(Event) BY <1>7
  <1> QED BY <1>9, <1>10, <1>12, <1>15, <1>16, <1>17, <1>18, EmitStep

LEMMA StripeChangeStep ==
  ASSUME BillingInv, NEW id \in StripeIds, NEW st \in StripeStatuses, StripeChange(id, st)
  PROVE  BillingInv'
  <1>1. TypeOK BY DEF BillingInv
  <1>2. stripe.subs \in Seq(StripeSub) /\ id \in 1..Len(stripe.subs)
    BY <1>1 DEF TypeOK, StripeChange
  <1>3. PICK sub \in StripeSub : sub = stripe.subs[id] BY <1>2
  <1> DEFINE e == [type |-> IF st = "canceled" THEN "deleted" ELSE "updated",
                   sub |-> id, user |-> sub.user, plan |-> sub.plan, status |-> st]
             new == [sub EXCEPT !.status = st]
  <1>4. /\ e \in Event /\ e.sub = id /\ e.user = sub.user /\ e.status = st
        /\ e.type # "completed" /\ (e.type = "deleted" => st = "canceled")
    BY <1>3 DEF Event, StripeSub
  <1>5. new \in StripeSub /\ new.user = sub.user /\ new.status = st BY <1>3 DEF StripeSub
  <1>6. stripe' = [stripe EXCEPT !.subs = [stripe.subs EXCEPT ![id] = new]]
    BY <1>1, <1>2, <1>3 DEF TypeOK, StripeChange
  <1>7. Emit(<<e>>) BY <1>3 DEF StripeChange
  <1>8. UNCHANGED <<plans, subs, customer, req, admin, newest, interrupted>> BY DEF StripeChange
  <1> HIDE DEF e, new
  <1>9. /\ [stripe.subs EXCEPT ![id] = new] \in Seq(StripeSub)
        /\ Len([stripe.subs EXCEPT ![id] = new]) = Len(stripe.subs)
        /\ [stripe.subs EXCEPT ![id] = new][id] = new
        /\ \A i \in 1..Len(stripe.subs) :
             i # id => [stripe.subs EXCEPT ![id] = new][i] = stripe.subs[i]
    BY <1>2, <1>5
  <1>10. /\ stripe' \in [customers : 0..MaxCustomers, sessions : SUBSET (Users \X Slugs),
                         subs : Seq(StripeSub)]
         /\ stripe'.subs = [stripe.subs EXCEPT ![id] = new]
    BY <1>1, <1>6, <1>9 DEF TypeOK
  <1>11. /\ <<e>> \in Seq(Event) /\ Len(<<e>>) = 1 /\ <<e>>[1] = e BY <1>4
  <1> DEFINE batch == <<e>>
  <1>12. /\ batch \in Seq(Event) /\ 1 \in 1..Len(batch)
         /\ \A k \in 1..Len(batch) : batch[k] = e
    BY <1>11
  <1>13. Emit(batch) BY <1>7
  <1> HIDE DEF batch
  <1>14. id \in 1..Len(stripe'.subs) /\ stripe'.subs[id] = new BY <1>2, <1>9, <1>10
  <1>15. EventOK(e)' BY <1>4, <1>5, <1>14 DEF EventOK
  <1>16. \A k \in 1..Len(batch) :
           /\ EventOK(batch[k])' /\ batch[k].sub = id /\ batch[k].status = stripe'.subs[id].status
    BY <1>4, <1>5, <1>12, <1>14, <1>15
  <1>17. /\ 1..Len(stripe.subs) \subseteq 1..Len(stripe'.subs)
         /\ Len(stripe'.subs) <= MaxSubscriptions
    BY <1>9, <1>10 DEF BillingInv, EventsOK
  <1>18. \A i \in 1..Len(stripe.subs) :
           /\ stripe'.subs[i].user = stripe.subs[i].user
           /\ i # id => stripe'.subs[i].status = stripe.subs[i].status
    <2> SUFFICES ASSUME NEW i \in 1..Len(stripe.subs)
                 PROVE  /\ stripe'.subs[i].user = stripe.subs[i].user
                        /\ i # id => stripe'.subs[i].status = stripe.subs[i].status
      OBVIOUS
    <2>1. CASE i = id BY <1>3, <1>5, <1>9, <1>10, <2>1
    <2>2. CASE i # id BY <1>9, <1>10, <2>2
    <2> QED BY <2>1, <2>2
  <1> QED BY <1>8, <1>10, <1>12, <1>13, <1>16, <1>17, <1>18, EmitStep

-----------------------------------------------------------------------------
(* The invariant holds at first, and every step preserves it.              *)

LEMMA InitInv == Init => BillingInv
  <1> SUFFICES ASSUME Init PROVE BillingInv
    OBVIOUS
  <1>1. NoRow \in Row /\ NoRow.plan = NoPlan /\ NoRow.stripe = NoStripe
    BY DEF NoRow, Row, Statuses
  <1>2. /\ plans = Catalog /\ subs = [u \in Users |-> NoRow]
        /\ customer = [u \in Users |-> 0]
        /\ stripe = [customers |-> 0, sessions |-> {}, subs |-> <<>>]
        /\ events = <<>> /\ req = [p \in Requests |-> Idle] /\ admin = 0
        /\ newest = [u \in Users |-> 0] /\ interrupted = FALSE
    BY DEF Init
  <1>3. TypeOK
    <2>1. plans \in [Slugs -> Plan] BY <1>2, BillingAssumption
    <2>2. subs \in [Users -> Row] /\ req \in [Requests -> Request] BY <1>1, <1>2, IdleTyped
    <2>3. 0 \in 0..MaxCustomers /\ 0 \in 0..MaxAdmin /\ 0 \in 0..MaxEvents BY BillingAssumption
    <2>4. /\ customer \in [Users -> 0..MaxCustomers] /\ newest \in [Users -> 0..MaxEvents]
          /\ admin \in 0..MaxAdmin /\ interrupted \in BOOLEAN
      BY <1>2, <2>3
    <2>5. stripe \in [customers : 0..MaxCustomers, sessions : SUBSET (Users \X Slugs),
                      subs : Seq(StripeSub)]
      BY <1>2, <2>3
    <2>6. events \in Seq(Event) BY <1>2
    <2> QED BY <2>1, <2>2, <2>4, <2>5, <2>6 DEF TypeOK
  <1>4. RequestsOK
    <2>1. \A p \in Requests : req[p].pc = "idle" /\ req[p].customer = 0 BY <1>2, IdleTyped
    <2> QED BY <2>1, NoCustomerTyped DEF RequestsOK, RequestOK, Target, Ensuring
  <1>5. Len(events) = 0 /\ Len(stripe.subs) = 0 BY <1>2
  <1>6. EventsOK BY <1>5, ConstantsTyped DEF EventsOK
  <1>7. LatestOK BY <1>5 DEF LatestOK
  <1>8. SubscribersOK BY <1>1, <1>2 DEF SubscribersOK
  <1>9. NewestOK BY <1>2 DEF NewestOK
  <1>10. SubscriptionHasPlan BY <1>1, <1>2 DEF SubscriptionHasPlan
  <1>11. HighlightsOK
    <2> DEFINE S == {s \in Slugs : Catalog[s].exists /\ Catalog[s].is_highlighted}
    <2>1. ListHighlighted = S BY <1>2 DEF ListHighlighted
    <2>2. IsFiniteSet(S) /\ Cardinality(S) <= 1 BY BillingAssumption, FS_Subset
    <2>3. \A s, t \in S : s = t BY <2>2, AtMostOne
    <2> HIDE DEF S
    <2> QED BY <2>1, <2>3 DEF HighlightsOK
  <1> QED BY <1>3, <1>4, <1>6, <1>7, <1>8, <1>9, <1>10, <1>11 DEF BillingInv

LEMMA NextInv == BillingInv /\ [Next]_vars => BillingInv'
  <1> SUFFICES ASSUME BillingInv, [Next]_vars PROVE BillingInv'
    OBVIOUS
  <1>1. ASSUME NEW p \in Requests, Step(p) PROVE BillingInv'
    <2>1. ASSUME Ensure(p) \/ InsertSubscription(p) \/ CheckoutPlan(p) \/ CheckoutCustomer(p)
                 \/ SetCustomer(p)
          PROVE  BillingInv'
      BY <2>1, EnsureStep, InsertSubscriptionStep, CheckoutPlanStep, CheckoutCustomerStep,
         SetCustomerStep
    <2>2. ASSUME CheckoutSession(p) \/ CheckoutWrite(p) \/ WebhookLookup(p) \/ WebhookWrite(p)
                 \/ AdminWrite(p)
          PROVE  BillingInv'
      BY <2>2, CheckoutSessionStep, CheckoutWriteStep, WebhookLookupStep, WebhookWriteStep,
         AdminWriteStep
    <2>3. ASSUME PlanInsert(p) \/ PlanUpdate(p) \/ ClearList(p) \/ ClearOne(p) \/ PlanDelete(p)
          PROVE  BillingInv'
      BY <2>3, PlanInsertStep, PlanUpdateStep, ClearListStep, ClearOneStep, PlanDeleteStep
    <2> QED BY <1>1, <2>1, <2>2, <2>3 DEF Step
  <1>2. ASSUME NEW p \in Requests,
               \/ Fail(p)
               \/ \E u \in Users : EnsureOnly(p, u)
               \/ \E u \in Users, s \in Slugs : Checkout(p, u, s)
               \/ \E n \in 1..MaxEvents : Webhook(p, n)
        PROVE  BillingInv'
    BY <1>2, FailStep, EnsureOnlyStep, CheckoutBegin, WebhookBegin
  <1>3. ASSUME NEW p \in Requests,
               \/ \E u \in Users, s \in Slugs \cup {NoPlan}, st \in {"", "active", "canceled"} :
                    AdminUpdate(p, u, s, st)
               \/ \E s \in Slugs, e \in {"", "activate", "deactivate", "highlight"} :
                    AdminCreatePlan(p, s, e) \/ AdminUpdatePlan(p, s, e)
               \/ \E s \in Slugs : AdminDeletePlan(p, s)
        PROVE  BillingInv'
    BY <1>3, AdminUpdateStep, AdminCreatePlanStep, AdminUpdatePlanStep, AdminDeletePlanStep
  <1>4. ASSUME \/ \E u \in Users, s \in Slugs : StripePay(u, s)
               \/ \E id \in StripeIds, st \in StripeStatuses : StripeChange(id, st)
        PROVE  BillingInv'
    BY <1>4, StripePayStep, StripeChangeStep
  <1>5. CASE UNCHANGED vars
    <2>1. UNCHANGED <<plans, subs, customer, stripe, events, req, admin, newest, interrupted>>
      BY <1>5 DEF vars
    <2>2. TypeOK' BY <2>1 DEF BillingInv, TypeOK
    <2>3. RequestsOK' BY <2>1 DEF BillingInv, RequestsOK, RequestOK, Target, Ensuring
    <2>4. HighlightsOK' BY <2>1 DEF BillingInv, HighlightsOK, ListHighlighted, WillClear
    <2> QED BY <2>1, <2>2, <2>3, <2>4, QuietTables DEF BillingInv
  <1> QED BY <1>1, <1>2, <1>3, <1>4, <1>5 DEF Next

LEMMA Invariance == Spec => []BillingInv
  BY InitInv, NextInv, PTL DEF Spec

-----------------------------------------------------------------------------
(* What holds of every reachable state.                                    *)

\* Plans, subscriptions, events and requests keep their types, whatever
\* internal/billing is asked and whatever order Stripe's events come in.
THEOREM TypeCorrect == Spec => []TypeOK
  <1>1. BillingInv => TypeOK BY DEF BillingInv
  <1> QED BY <1>1, Invariance, PTL

\* Every subscription has its plan, and the pricing page at most one plan that
\* is highlighted, whatever deletes, checkouts, webhooks and changes of the
\* highlight do between each other's statements.
THEOREM CatalogCorrect == Spec => []CatalogKept
  <1>1. ASSUME BillingInv PROVE CatalogKept
    <2>1. SubscriptionHasPlan BY <1>1 DEF BillingInv
    <2>2. OneHighlight
      <3> SUFFICES ASSUME ~interrupted, \A p \in Requests : req[p].pc \notin {"list", "clear"}
                   PROVE  Cardinality(ListHighlighted) <= 1
        BY DEF OneHighlight
      <3>1. \A s, t \in ListHighlighted : s = t BY <1>1 DEF BillingInv, HighlightsOK, WillClear
      <3>2. IsFiniteSet(ListHighlighted)
        <4>1. ListHighlighted \in SUBSET Slugs /\ IsFiniteSet(Slugs)
          BY BillingAssumption DEF ListHighlighted
        <4> QED BY <4>1, FS_Subset
      <3> QED BY <3>1, <3>2, OneAtMost
    <2> QED BY <2>1, <2>2 DEF CatalogKept
  <1> QED BY <1>1, Invariance, PTL

\* Once the newest of a user's events was written last, the account may be used
\* exactly while Stripe says that the subscription is paid for: an event is
\* written only to the row of the user it speaks of.
THEOREM AccessCorrect == Spec => []AccessFollowsPayment
  <1>1. ASSUME BillingInv PROVE AccessFollowsPayment
    <2> SUFFICES ASSUME NEW u \in Users, newest[u] > 0,
                        \A m \in DOMAIN events : events[m].user = u => m <= newest[u]
                 PROVE  statusAllowsUsage(subs[u].status)
                        <=> stripe.subs[events[newest[u]].sub].status \in {"active", "trialing"}
      BY DEF AccessFollowsPayment
    <2>1. PICK n \in 1..Len(events) : n = newest[u] BY <1>1 DEF BillingInv, NewestOK
    <2>2. events[n].user = u /\ subs[u].status = EventStatus(events[n])
      BY <1>1, <2>1 DEF BillingInv, NewestOK
    <2>3. events[n] \in Event /\ DOMAIN events = 1..Len(events) BY <1>1 DEF BillingInv, TypeOK
    <2>4. EventOK(events[n]) /\ \A m \in 1..Len(events) : EventOK(events[m])
      BY <1>1 DEF BillingInv, EventsOK
    <2>5. \A m \in 1..Len(events) : events[m].sub = events[n].sub => m <= n
      BY <2>1, <2>2, <2>3, <2>4 DEF EventOK
    <2>6. events[n].status = stripe.subs[events[n].sub].status
      BY <1>1, <2>5 DEF BillingInv, LatestOK
    <2>7. statusAllowsUsage(EventStatus(events[n])) <=> events[n].status \in {"active", "trialing"}
      <3>1. CASE events[n].type = "completed"
        BY <2>4, <3>1 DEF EventOK, EventStatus, statusAllowsUsage
      <3>2. CASE events[n].type = "deleted"
        BY <2>4, <3>2 DEF EventOK, EventStatus, statusAllowsUsage
      <3>3. CASE events[n].type \notin {"completed", "deleted"}
        <4>1. EventStatus(events[n]) = mapStripeStatus(events[n].status) BY <3>3 DEF EventStatus
        <4> QED BY <4>1 DEF mapStripeStatus, statusAllowsUsage
      <3> QED BY <3>1, <3>2, <3>3
    <2> QED BY <2>1, <2>2, <2>6, <2>7
  <1> QED BY <1>1, Invariance, PTL
=============================================================================
