------------------------------- MODULE Billing -------------------------------
(***************************************************************************)
(* Account billing, internal/billing: the plans, one subscription row for  *)
(* each user, Stripe checkout and Stripe's webhooks.                       *)
(*                                                                         *)
(* Every statement is an action, as in Calls: the service opens no         *)
(* transaction.  Stripe is external; its events reach the webhook handler  *)
(* in any order and any number of times (it repeats what was not answered  *)
(* with 200 and promises no order).  A plan's slug is a number that stands *)
(* for its sort_order.                                                     *)
(***************************************************************************)
EXTENDS Naturals, FiniteSets, Sequences

CONSTANTS
  Users, Requests,
  Slugs,           \* plan slugs, numbered by sort_order
  Catalog,         \* the plans of the migrations
  StripeStatuses,  \* the statuses that Stripe gives a subscription
  MaxSubscriptions,\* bound: subscriptions that Stripe creates
  MaxEvents,       \* bound: events that Stripe emits
  MaxCustomers,    \* bound: customers that Stripe creates
  MaxAdmin,        \* bound: changes that administrators begin
  Failures,        \* may a request stop between two statements?
  NoUser

\* What the checkout and the catalogue tell apart of a plan.
Plan == [exists : BOOLEAN, is_active : BOOLEAN, is_highlighted : BOOLEAN,
         price_cents : Nat, stripe_price_id : BOOLEAN]

ASSUME BillingAssumption ==
  /\ IsFiniteSet(Users) /\ NoUser \notin Users
  /\ IsFiniteSet(Requests)
  /\ Slugs \subseteq Nat \ {0} /\ IsFiniteSet(Slugs)
  /\ Catalog \in [Slugs -> Plan]
  /\ Cardinality({s \in Slugs : Catalog[s].exists /\ Catalog[s].is_highlighted}) <= 1
  /\ "active" \in StripeStatuses
  /\ MaxSubscriptions \in Nat /\ MaxEvents \in Nat /\ MaxCustomers \in Nat
  /\ MaxAdmin \in Nat
  /\ Failures \in BOOLEAN

NoPlan == 0
NoStripe == 0
Statuses == {"incomplete", "trialing", "active", "past_due", "canceled"}
StripeIds == 1..MaxSubscriptions

VARIABLES
  plans,        \* the table plans
  subs,         \* the table user_subscriptions; NoPlan is "no row"
  customer,     \* users.stripe_customer_id, 0 is null
  stripe,       \* external: Stripe's customers, sessions and subscriptions
  events,       \* external: the events Stripe has emitted, in that order
  req,          \* the requests in flight
  admin,        \* the number of changes administrators began
  newest,       \* observed: for each user the last event written, 0 if the
                \* last to write the status was no event
  interrupted   \* observed: a change of the highlight was cut short

vars == <<plans, subs, customer, stripe, events, req, admin, newest, interrupted>>

Row == [plan : Slugs \cup {NoPlan}, status : Statuses,
        stripe : StripeIds \cup {NoStripe}]
NoRow == [plan |-> NoPlan, status |-> "active", stripe |-> NoStripe]

Event == [type : {"completed", "updated", "deleted"}, sub : StripeIds,
          user : Users, plan : Slugs, status : StripeStatuses]

\* A subscription at Stripe.
StripeSub == [user : Users, plan : Slugs, status : StripeStatuses]

Points == {"idle", "ensure", "insert", "done",
           "plan", "customer", "setCustomer", "session", "checkoutWrite",
           "lookup", "eventWrite", "adminWrite",
           "planInsert", "planUpdate", "planDelete", "list", "clear"}

Request == [pc : Points, then : Points, user : Users \cup {NoUser},
            slug : Slugs \cup {NoPlan},      \* the plan asked for
            default : Slugs \cup {NoPlan},   \* GetDefaultPlan's answer
            status : Statuses \cup {""},     \* the status asked for
            event : 0..MaxEvents, found : BOOLEAN,
            customer : Nat, edit : {"", "activate", "deactivate", "highlight"},
            rest : SUBSET Slugs]             \* highlights still to clear

Idle == [pc |-> "idle", then |-> "done", user |-> NoUser, slug |-> NoPlan,
         default |-> NoPlan, status |-> "", event |-> 0, found |-> FALSE,
         customer |-> 0, edit |-> "", rest |-> {}]

TypeOK ==
  /\ plans \in [Slugs -> Plan]
  /\ subs \in [Users -> Row]
  /\ customer \in [Users -> 0..MaxCustomers]
  /\ stripe \in [customers : 0..MaxCustomers, sessions : SUBSET (Users \X Slugs),
                 subs : Seq(StripeSub)]
  /\ events \in Seq(Event)
  /\ req \in [Requests -> Request]
  /\ admin \in 0..MaxAdmin
  /\ newest \in [Users -> 0..MaxEvents]
  /\ interrupted \in BOOLEAN

Init ==
  /\ plans = Catalog
  /\ subs = [u \in Users |-> NoRow]
  /\ customer = [u \in Users |-> 0]
  /\ stripe = [customers |-> 0, sessions |-> {}, subs |-> <<>>]
  /\ events = <<>>
  /\ req = [p \in Requests |-> Idle]
  /\ admin = 0
  /\ newest = [u \in Users |-> 0]
  /\ interrupted = FALSE

At(p, pc) == req[p].pc = pc
Goto(p, pc) == req' = [req EXCEPT ![p].pc = pc]
Return(p) == req' = [req EXCEPT ![p] = Idle]
Begin(p, r) == At(p, "idle") /\ req' = [req EXCEPT ![p] = r]
BeginAdmin(p, r) ==
  /\ admin < MaxAdmin
  /\ admin' = admin + 1
  /\ Begin(p, r)

others == <<stripe, events, admin, newest, interrupted>>

-----------------------------------------------------------------------------
(* Queries.                                                                *)

GetPlan(s) == plans[s].exists
GetActivePlan(s) == plans[s].exists /\ plans[s].is_active
CountSubscriptionsForPlan(s) == Cardinality({u \in Users : subs[u].plan = s})
GetUserSubscription(u) == subs[u].plan # NoPlan

\* The active plan that comes first by sort_order, NoPlan when none is active.
GetDefaultPlan ==
  LET active == {s \in Slugs : GetActivePlan(s)}
  IN IF active = {} THEN NoPlan
     ELSE CHOOSE s \in active : \A t \in active : s <= t

ListHighlighted == {s \in Slugs : plans[s].exists /\ plans[s].is_highlighted}

\* The foreign key of plan_slug, and the COALESCE of the columns: NoPlan, ""
\* and NoStripe leave a column as it is.  A missing plan is an error.
ForeignKey(s) == s = NoPlan \/ plans[s].exists
UpdateUserSubscription(u, s, status, id) ==
  subs' = [subs EXCEPT ![u] =
             [plan   |-> IF s = NoPlan THEN @.plan ELSE s,
              status |-> IF status = "" THEN @.status ELSE status,
              stripe |-> IF id = NoStripe THEN @.stripe ELSE id]]

-----------------------------------------------------------------------------
(* EnsureUserSubscription, called first by nearly everything.              *)

\* OnUserRegistered and GetAccountBilling do nothing else that writes.
EnsureOnly(p, u) ==
  /\ Begin(p, [Idle EXCEPT !.pc = "ensure", !.user = u])
  /\ ~GetUserSubscription(u)
  /\ UNCHANGED <<plans, subs, customer, others>>

\* A row is never deleted, so one that is there stays there.
Ensure(p) ==
  /\ At(p, "ensure")
  /\ IF GetUserSubscription(req[p].user)
     THEN IF req[p].then = "done" THEN Return(p) ELSE Goto(p, req[p].then)
     ELSE IF GetDefaultPlan = NoPlan THEN Return(p)
     ELSE req' = [req EXCEPT ![p].pc = "insert", ![p].default = GetDefaultPlan]
  /\ UNCHANGED <<plans, subs, customer, others>>

\* CreateUserSubscription: user_id is unique and the plan must still exist.
InsertSubscription(p) ==
  LET u == req[p].user
  IN /\ At(p, "insert")
     /\ IF ~GetUserSubscription(u) /\ plans[req[p].default].exists
        THEN /\ subs' = [subs EXCEPT ![u] = [NoRow EXCEPT !.plan = req[p].default]]
             /\ IF req[p].then = "done" THEN Return(p)
                ELSE req' = [req EXCEPT ![p].pc = req[p].then, ![p].default = NoPlan]
        ELSE UNCHANGED subs /\ Return(p)
     /\ UNCHANGED <<plans, customer, others>>

-----------------------------------------------------------------------------
(* CreateCheckoutSession, with ensureStripeCustomer.                       *)

Checkout(p, u, s) ==
  /\ <<u, s>> \notin stripe.sessions
  /\ Begin(p, [Idle EXCEPT !.pc = "ensure", !.then = "plan", !.user = u, !.slug = s])
  /\ UNCHANGED <<plans, subs, customer, others>>

CheckoutPlan(p) ==
  LET s == req[p].slug
  IN /\ At(p, "plan")
     /\ IF GetActivePlan(s) /\ plans[s].price_cents > 0 /\ plans[s].stripe_price_id
        THEN Goto(p, "customer") ELSE Return(p)
     /\ UNCHANGED <<plans, subs, customer, others>>

\* GetUserStripeCustomerID, and a new customer at Stripe if there is none.
CheckoutCustomer(p) ==
  LET u == req[p].user
  IN /\ At(p, "customer")
     /\ IF customer[u] # 0
        THEN /\ req' = [req EXCEPT ![p].pc = "session", ![p].customer = customer[u]]
             /\ UNCHANGED stripe
        ELSE /\ stripe.customers < MaxCustomers
             /\ stripe' = [stripe EXCEPT !.customers = @ + 1]
             /\ req' = [req EXCEPT ![p].pc = "setCustomer",
                                   ![p].customer = stripe.customers + 1]
     /\ UNCHANGED <<plans, subs, customer, events, admin, newest, interrupted>>

\* SetUserStripeCustomerID keeps an id that is there; its error is dropped,
\* and the caller goes on with the customer it has just made.
SetCustomer(p) ==
  LET u == req[p].user
  IN /\ At(p, "setCustomer")
     /\ \/ customer' = [customer EXCEPT ![u] = IF @ = 0 THEN req[p].customer ELSE @]
        \/ Failures /\ UNCHANGED customer
     /\ Goto(p, "session")
     /\ UNCHANGED <<plans, subs, others>>

\* checkoutsession.New; metadata carries the user and the plan.
CheckoutSession(p) ==
  /\ At(p, "session")
  /\ stripe' = [stripe EXCEPT !.sessions = @ \cup {<<req[p].user, req[p].slug>>}]
  /\ Goto(p, "checkoutWrite")
  /\ UNCHANGED <<plans, subs, customer, events, admin, newest, interrupted>>

\* The plan is written as soon as the session exists; the error is dropped.
CheckoutWrite(p) ==
  /\ At(p, "checkoutWrite")
  /\ IF ForeignKey(req[p].slug)
     THEN UpdateUserSubscription(req[p].user, req[p].slug, "", NoStripe)
     ELSE UNCHANGED subs
  /\ Return(p)
  /\ UNCHANGED <<plans, customer, others>>

-----------------------------------------------------------------------------
(* External: Stripe.                                                       *)

Emit(batch) ==
  /\ Len(events) + Len(batch) <= MaxEvents
  /\ events' = events \o batch

\* The user pays: a subscription begins.
StripePay(u, s) ==
  LET id == Len(stripe.subs) + 1
      e(type) == [type |-> type, sub |-> id, user |-> u, plan |-> s,
                  status |-> "active"]
  IN /\ <<u, s>> \in stripe.sessions
     /\ id <= MaxSubscriptions
     /\ stripe' = [stripe EXCEPT !.sessions = @ \ {<<u, s>>},
                     !.subs = Append(@, [user |-> u, plan |-> s,
                                         status |-> "active"])]
     /\ Emit(<<e("updated"), e("completed")>>)
     /\ UNCHANGED <<plans, subs, customer, req, admin, newest, interrupted>>

\* A payment fails, a payment succeeds, the subscription is cancelled for good.
StripeChange(id, status) ==
  LET sub == stripe.subs[id]
  IN /\ id \in DOMAIN stripe.subs
     /\ sub.status \notin {"canceled", status}
     /\ stripe' = [stripe EXCEPT !.subs[id].status = status]
     /\ Emit(<<[type |-> IF status = "canceled" THEN "deleted" ELSE "updated",
                sub |-> id, user |-> sub.user, plan |-> sub.plan,
                status |-> status]>>)
     /\ UNCHANGED <<plans, subs, customer, req, admin, newest, interrupted>>

-----------------------------------------------------------------------------
(* HandleStripeWebhook.                                                    *)

\* Mutant: a subscription that is not paid for stays active.
mapUnpaidActive(status) ==
  CASE status \in {"active", "unpaid"} -> "active"
    [] status = "trialing" -> "trialing"
    [] status = "past_due" -> "past_due"
    [] status = "canceled" -> "canceled"
    [] OTHER -> "incomplete"

\* Mutant: Stripe's own word is stored.
mapNothing(status) == status

mapStripeStatus(status) ==
  CASE status = "active" -> "active"
    [] status = "trialing" -> "trialing"
    [] status = "past_due" -> "past_due"
    [] status \in {"canceled", "unpaid"} -> "canceled"
    [] OTHER -> "incomplete"

\* The status an event writes: a checkout that completed is active and a
\* deleted subscription is canceled, whatever status the payload carries.
EventStatus(e) ==
  CASE e.type = "completed" -> "active"
    [] e.type = "deleted" -> "canceled"
    [] OTHER -> mapStripeStatus(e.status)

\* handleCheckoutCompleted goes to Ensure, handleSubscriptionChanged first
\* looks for the row that has the subscription's id.
Webhook(p, n) ==
  LET e == events[n]
  IN /\ n \in DOMAIN events
     /\ Begin(p, [Idle EXCEPT !.pc = IF e.type = "completed" THEN "ensure" ELSE "lookup",
                              !.then = "eventWrite", !.user = e.user,
                              !.event = n])
     /\ UNCHANGED <<plans, subs, customer, others>>

\* GetUserSubscriptionByStripeSubscriptionID; without a row the metadata's
\* user is used.
WebhookLookup(p) ==
  LET owners == {u \in Users : subs[u].stripe = events[req[p].event].sub}
  IN /\ At(p, "lookup")
     /\ \/ /\ owners = {}
           /\ Goto(p, "ensure")
        \/ \E u \in owners :
             req' = [req EXCEPT ![p].pc = "eventWrite", ![p].user = u, ![p].found = TRUE]
     /\ UNCHANGED <<plans, subs, customer, others>>

\* UpdateUserSubscription; the id is written only where it was not found.  A
\* missing plan is an error and Stripe will send the event again.
WebhookWrite(p) ==
  LET e == events[req[p].event]
      u == req[p].user
  IN /\ At(p, "eventWrite")
     /\ IF ForeignKey(e.plan)
        THEN /\ UpdateUserSubscription(u, e.plan, EventStatus(e),
                  IF req[p].found THEN NoStripe ELSE e.sub)
             /\ newest' = [newest EXCEPT ![u] = req[p].event]
        ELSE UNCHANGED <<subs, newest>>
     /\ Return(p)
     /\ UNCHANGED <<plans, customer, stripe, events, admin, interrupted>>

-----------------------------------------------------------------------------
(* Platform administrators.                                                *)

\* AdminUpdateSubscription: a plan, a status, or both.
AdminUpdate(p, u, s, status) ==
  /\ s # NoPlan \/ status # ""
  /\ BeginAdmin(p, [Idle EXCEPT !.pc = "ensure", !.then = "adminWrite", !.user = u,
                           !.slug = s, !.status = status])
  /\ UNCHANGED <<plans, subs, customer, stripe, events, newest, interrupted>>

\* GetPlan and the update refuse a missing plan alike.
AdminWrite(p) ==
  LET r == req[p]
  IN /\ At(p, "adminWrite")
     /\ IF ForeignKey(r.slug)
        THEN /\ UpdateUserSubscription(r.user, r.slug, r.status, NoStripe)
             /\ newest' = [newest EXCEPT ![r.user] = IF r.status = "" THEN @ ELSE 0]
        ELSE UNCHANGED <<subs, newest>>
     /\ Return(p)
     /\ UNCHANGED <<plans, customer, stripe, events, admin, interrupted>>

\* AdminCreatePlan and AdminUpdatePlan, after GetPlan.
AdminCreatePlan(p, s, edit) ==
  /\ edit \in {"", "highlight"}
  /\ ~GetPlan(s)
  /\ BeginAdmin(p, [Idle EXCEPT !.pc = "planInsert", !.slug = s, !.edit = edit])
  /\ UNCHANGED <<plans, subs, customer, stripe, events, newest, interrupted>>

AdminUpdatePlan(p, s, edit) ==
  /\ edit # ""
  /\ GetPlan(s)
  /\ BeginAdmin(p, [Idle EXCEPT !.pc = "planUpdate", !.slug = s, !.edit = edit])
  /\ UNCHANGED <<plans, subs, customer, stripe, events, newest, interrupted>>

ThenClear(p) == IF req[p].edit = "highlight" THEN Goto(p, "list") ELSE Return(p)

\* CreatePlan: slug is the primary key.
PlanInsert(p) ==
  LET s == req[p].slug
  IN /\ At(p, "planInsert")
     /\ IF GetPlan(s)
        THEN UNCHANGED plans /\ Return(p)
        ELSE /\ plans' = [plans EXCEPT ![s] =
                            [Catalog[s] EXCEPT !.exists = TRUE, !.is_active = TRUE,
                               !.is_highlighted = req[p].edit = "highlight"]]
             /\ ThenClear(p)
     /\ UNCHANGED <<subs, customer, others>>

\* UpdatePlan; the row may be gone since GetPlan.
PlanUpdate(p) ==
  LET s == req[p].slug
      edit == req[p].edit
  IN /\ At(p, "planUpdate")
     /\ IF ~GetPlan(s)
        THEN UNCHANGED plans /\ Return(p)
        ELSE /\ plans' = [plans EXCEPT
                  ![s].is_highlighted = @ \/ edit = "highlight",
                  ![s].is_active = IF edit = "activate" THEN TRUE
                                   ELSE IF edit = "deactivate" THEN FALSE ELSE @]
             /\ ThenClear(p)
     /\ UNCHANGED <<subs, customer, others>>

\* Mutant: only the plans on sale are listed.
ClearListActive(p) ==
  /\ At(p, "list")
  /\ req' = [req EXCEPT ![p].pc = "clear",
       ![p].rest = {s \in ListHighlighted : plans[s].is_active} \ {req[p].slug}]
  /\ UNCHANGED <<plans, subs, customer, others>>

\* clearOtherHighlights: one list, then an update for each of its plans.
ClearList(p) ==
  /\ At(p, "list")
  /\ req' = [req EXCEPT ![p].pc = "clear", ![p].rest = ListHighlighted \ {req[p].slug}]
  /\ UNCHANGED <<plans, subs, customer, others>>

\* A plan that was deleted since the list ends the loop with an error.
ClearOne(p) ==
  /\ At(p, "clear")
  /\ \/ /\ req[p].rest = {}
        /\ Return(p)
        /\ UNCHANGED <<plans, interrupted>>
     \/ \E s \in req[p].rest :
          /\ \A t \in req[p].rest : s <= t
          /\ IF GetPlan(s)
             THEN /\ plans' = [plans EXCEPT ![s].is_highlighted = FALSE]
                  /\ req' = [req EXCEPT ![p].rest = @ \ {s}]
                  /\ UNCHANGED interrupted
             ELSE /\ Return(p)
                  /\ interrupted' = (interrupted \/ req[p].rest # {s})
                  /\ UNCHANGED plans
  /\ UNCHANGED <<subs, customer, stripe, events, admin, newest>>

\* AdminDeletePlan: the count and the delete are two statements; the foreign
\* key refuses a plan that was taken in between.
AdminDeletePlan(p, s) ==
  /\ GetPlan(s)
  /\ CountSubscriptionsForPlan(s) = 0
  /\ BeginAdmin(p, [Idle EXCEPT !.pc = "planDelete", !.slug = s])
  /\ UNCHANGED <<plans, subs, customer, stripe, events, newest, interrupted>>

PlanDelete(p) ==
  LET s == req[p].slug
  IN /\ At(p, "planDelete")
     /\ plans' = IF CountSubscriptionsForPlan(s) = 0
                 THEN [plans EXCEPT ![s].exists = FALSE] ELSE plans
     /\ Return(p)
     /\ UNCHANGED <<subs, customer, others>>

-----------------------------------------------------------------------------
\* A database error, a cancelled context, a process that dies.
Fail(p) ==
  /\ Failures
  /\ ~At(p, "idle")
  /\ interrupted' = (interrupted \/ req[p].pc \in {"list", "clear"})
  /\ Return(p)
  /\ UNCHANGED <<plans, subs, customer, stripe, events, admin, newest>>

Step(p) ==
  \/ Ensure(p) \/ InsertSubscription(p)
  \/ CheckoutPlan(p) \/ CheckoutCustomer(p) \/ SetCustomer(p)
  \/ CheckoutSession(p) \/ CheckoutWrite(p)
  \/ WebhookLookup(p) \/ WebhookWrite(p)
  \/ AdminWrite(p)
  \/ PlanInsert(p) \/ PlanUpdate(p) \/ ClearList(p) \/ ClearOne(p) \/ PlanDelete(p)

Next ==
  \/ \E p \in Requests :
       \/ Step(p)
       \/ Fail(p)
       \/ \E u \in Users : EnsureOnly(p, u)
       \/ \E u \in Users, s \in Slugs : Checkout(p, u, s)
       \/ \E n \in 1..MaxEvents : Webhook(p, n)
       \/ \E u \in Users, s \in Slugs \cup {NoPlan}, st \in {"", "active", "canceled"} :
            AdminUpdate(p, u, s, st)
       \/ \E s \in Slugs, e \in {"", "activate", "deactivate", "highlight"} :
            AdminCreatePlan(p, s, e) \/ AdminUpdatePlan(p, s, e)
       \/ \E s \in Slugs : AdminDeletePlan(p, s)
  \/ \E u \in Users, s \in Slugs : StripePay(u, s)
  \/ \E id \in StripeIds, st \in StripeStatuses : StripeChange(id, st)

Spec == Init /\ [][Next]_vars

-----------------------------------------------------------------------------
(* Properties.                                                             *)

statusAllowsUsage(status) == status \in {"active", "trialing"}

\* The plan of a subscription exists, whatever a delete, a checkout and a
\* webhook do between each other's statements.  GetUserSubscription joins the
\* plan: without it every quota check of the account fails.
SubscriptionHasPlan ==
  \A u \in Users : subs[u].plan # NoPlan => GetPlan(subs[u].plan)

\* When no change of the highlight is under way and none was cut short, at
\* most one plan is highlighted: each change sets its own plan before it lists
\* the others, so of two that overlap at least one sees the other's.
OneHighlight ==
  \/ interrupted
  \/ \E p \in Requests : req[p].pc \in {"list", "clear"}
  \/ Cardinality(ListHighlighted) <= 1

\* The catalogue stays usable: every account has a plan to show, and the
\* pricing page highlights one.
CatalogKept == SubscriptionHasPlan /\ OneHighlight

\* Webhooks win in the order in which they are written.  If that left the
\* newest event of a user as the last one, the account may be used exactly
\* while Stripe says that the subscription is paid for; a later checkout that
\* is never paid does not change that.
AccessFollowsPayment ==
  \A u \in Users :
    LET n == newest[u]
    IN (n > 0 /\ \A m \in DOMAIN events : events[m].user = u => m <= n)
       => (statusAllowsUsage(subs[u].status)
           <=> stripe.subs[events[n].sub].status \in {"active", "trialing"})

=============================================================================
