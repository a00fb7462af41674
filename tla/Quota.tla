-------------------------------- MODULE Quota --------------------------------
(***************************************************************************)
(* What an account may use: the gates of internal/billing that messages,   *)
(* video calls, apps and webhook endpoints pass, the monthly usage         *)
(* counters, and CreateApp and CreateWebhook of internal/apps.             *)
(*                                                                         *)
(* A gate reads the owner's subscription, then counts; the thing that is   *)
(* counted is stored and recorded later, in other statements.  Each is an  *)
(* action.  Billing is where subscriptions change; here a subscription     *)
(* changes at any time.  The owner has a row: EnsureUserSubscription, the  *)
(* first call of every gate, is a part of Billing.                         *)
(***************************************************************************)
EXTENDS Integers, FiniteSets, FiniteSetsExt

CONSTANTS
  Users, Requests,
  Apps,            \* app slugs
  FirstApps,       \* the owner of each app at the start, NoUser for a free slug
  Slug,            \* the slug of an app's workspace in each lane
  Plans,           \* records of the limits and features of a plan
  FirstPlan,
  MaxMinutes,      \* the longest call
  MaxMonths,       \* bound: months
  MaxBegun,        \* bound: requests that begin
  MaxChanges,      \* bound: changes of subscriptions
  Failures,        \* may a request stop between two statements?
  NoUser, NoApp

PlanType == [messages_limit : Int, video_minutes_limit : Nat, max_apps : Int,
             video_calls_enabled : BOOLEAN, webhooks_enabled : BOOLEAN]

ASSUME QuotaAssumption ==
  /\ IsFiniteSet(Users) /\ NoUser \notin Users
  /\ IsFiniteSet(Requests)
  /\ IsFiniteSet(Apps) /\ NoApp \notin Apps
  /\ FirstApps \in [Apps -> Users \cup {NoUser}]
  /\ DOMAIN Slug = Apps \X {"live", "sandbox"}
  /\ Plans \subseteq PlanType /\ IsFiniteSet(Plans) /\ FirstPlan \in Plans
  /\ MaxMinutes \in Nat \ {0} /\ MaxMonths \in Nat /\ MaxBegun \in Nat
  /\ MaxChanges \in Nat /\ Failures \in BOOLEAN

VARIABLES
  sub,          \* user_subscriptions joined with plans
  apps,         \* the owner of each app, NoUser where there is none
  workspaces,   \* for each workspace slug the app it was made for, or NoApp
  members,      \* the workspace slugs whose workspace has its owner
  usage,        \* usage_counters
  month,        \* date_trunc('month', NOW())
  hooks,        \* the apps that have a webhook endpoint
  req,          \* the requests in flight
  begun, changes,
  stored,       \* observed: the messages stored in an app's production lane
  interrupted   \* observed: the slugs whose creation was cut short

vars == <<sub, apps, workspaces, members, usage, month, hooks, req, begun,
          changes, stored, interrupted>>

Lanes == {"live", "sandbox"}

\* The workspaces of an app are "app-<slug>" and "app-<slug>-sandbox": the
\* sandbox of the app x and the live workspace of the app x-sandbox collide.
Names == {Slug[x] : x \in DOMAIN Slug}
Kinds == {"message", "video", "app", "webhook"}
Counters == [messages : Nat, minutes : Nat]

Points == {"idle", "gate", "count", "store", "record", "meter",
           "workspace", "sandbox", "member", "sandboxMember", "app", "hook"}

Request == [pc : Points, kind : Kinds, user : Users \cup {NoUser},
            app : Apps \cup {NoApp}, lane : Lanes,
            limit : Int]                 \* the limit that the gate read

Idle == [pc |-> "idle", kind |-> "message", user |-> NoUser, app |-> NoApp,
         lane |-> "live", limit |-> 0]

TypeOK ==
  /\ sub \in [Users -> [plan : Plans, status : {"active", "past_due"}]]
  /\ apps \in [Apps -> Users \cup {NoUser}]
  /\ workspaces \in [Names -> Apps \cup {NoApp}]
  /\ members \subseteq Names
  /\ usage \in [Apps -> [1..MaxMonths -> Counters]]
  /\ month \in 1..MaxMonths
  /\ hooks \subseteq Apps
  /\ req \in [Requests -> Request]
  /\ begun \in 0..MaxBegun
  /\ changes \in 0..MaxChanges
  /\ stored \in [Apps -> Nat]
  /\ interrupted \subseteq Apps

Init ==
  /\ sub = [u \in Users |-> [plan |-> FirstPlan, status |-> "active"]]
  /\ apps = FirstApps
  /\ workspaces = [n \in Names |->
       LET of == {a \in Apps : FirstApps[a] # NoUser /\ \E l \in Lanes : Slug[a, l] = n}
       IN IF of = {} THEN NoApp ELSE CHOOSE a \in of : TRUE]
  /\ members = {n \in Names : workspaces[n] # NoApp}
  /\ usage = [a \in Apps |-> [m \in 1..MaxMonths |-> [messages |-> 0, minutes |-> 0]]]
  /\ month = 1
  /\ hooks = {}
  /\ req = [p \in Requests |-> Idle]
  /\ begun = 0
  /\ changes = 0
  /\ stored = [a \in Apps |-> 0]
  /\ interrupted = {}

At(p, pc) == req[p].pc = pc
Goto(p, pc) == req' = [req EXCEPT ![p].pc = pc]
Return(p) == req' = [req EXCEPT ![p] = Idle]
Begin(p, r) ==
  /\ At(p, "idle")
  /\ begun < MaxBegun
  /\ begun' = begun + 1
  /\ req' = [req EXCEPT ![p] = r]

tenancy == <<apps, workspaces, members, hooks>>
metering == <<usage, stored>>
environment == <<sub, month, changes>>

-----------------------------------------------------------------------------
(* Queries.                                                                *)

AppsOf(u) == {a \in Apps : apps[a] = u}

CountAppsByOwner(u) == Cardinality(AppsOf(u))

\* Mutant: only one app of the owner is counted.
SumOneApp(u) ==
  IF AppsOf(u) = {} THEN 0
  ELSE usage[CHOOSE a \in AppsOf(u) : TRUE][month].messages

SumOwnerMessageUsage(u) ==
  MapThenSumSet(LAMBDA a : usage[a][month].messages, AppsOf(u))

SumOwnerVideoMinutesUsage(u) ==
  MapThenSumSet(LAMBDA a : usage[a][month].minutes, AppsOf(u))

IncrementAppMessageUsage(a) ==
  usage' = [usage EXCEPT ![a][month].messages = @ + 1]
\* Mutant: minutes are taken off instead of added.
DecrementAppVideoMinutes(a, m) ==
  usage' = [usage EXCEPT ![a][month].minutes = @ - m]

IncrementAppVideoMinutes(a, m) ==
  usage' = [usage EXCEPT ![a][month].minutes = @ + m]

-----------------------------------------------------------------------------
(* The gates.                                                              *)

\* The status and feature checks of checkOwnerMessageQuota,
\* CheckCanStartVideoCall, AssertCanCreateApp and CheckCanCreateWebhook.
Allowed(kind, s) ==
  /\ s.status = "active"
  /\ kind = "video" => s.plan.video_calls_enabled
  /\ kind = "webhook" => s.plan.webhooks_enabled

Limit(kind, plan) ==
  CASE kind = "message" -> plan.messages_limit
    [] kind = "video" -> plan.video_minutes_limit
    [] kind = "app" -> plan.max_apps
    [] kind = "webhook" -> 0

\* Zero is "no limit" for messages and minutes, a negative number for apps.
Limited(kind, limit) == IF kind = "app" THEN limit >= 0 ELSE limit > 0

Effect(kind) ==
  CASE kind = "message" -> "store"
    [] kind = "video" -> "meter"
    [] kind = "app" -> "workspace"
    [] kind = "webhook" -> "hook"

\* GetUserSubscription.
Gate(p) ==
  LET s == sub[req[p].user]
      limit == Limit(req[p].kind, s.plan)
  IN /\ At(p, "gate")
     /\ IF ~Allowed(req[p].kind, s) THEN Return(p)
        ELSE IF Limited(req[p].kind, limit)
        THEN req' = [req EXCEPT ![p].pc = "count", ![p].limit = limit]
        ELSE Goto(p, Effect(req[p].kind))
     /\ UNCHANGED <<environment, tenancy, metering, begun, interrupted>>

Used(kind, u) ==
  CASE kind = "message" -> SumOwnerMessageUsage(u)
    [] kind = "video" -> SumOwnerVideoMinutesUsage(u)
    [] kind = "app" -> CountAppsByOwner(u)

Count(p) ==
  LET r == req[p]
  IN /\ At(p, "count")
     /\ IF Used(r.kind, r.user) < r.limit
        THEN req' = [req EXCEPT ![p].pc = Effect(r.kind), ![p].limit = 0]
        ELSE Return(p)
     /\ UNCHANGED <<environment, tenancy, metering, begun, interrupted>>

-----------------------------------------------------------------------------
(* Messages and video minutes.                                             *)

\* CheckMessageQuotaByWorkspace and CheckCanStartVideoCall: the sandbox
\* workspace of an app passes without a check.
Use(p, a, kind, lane) ==
  /\ kind \in {"message", "video"}
  /\ apps[a] # NoUser
  /\ Begin(p, [Idle EXCEPT !.pc = IF lane = "live" THEN "gate" ELSE Effect(kind),
                           !.kind = kind, !.user = apps[a], !.app = a,
                           !.lane = lane])
  /\ UNCHANGED <<environment, tenancy, metering, interrupted>>

\* CreateMessage, between the check and the record.
Store(p) ==
  LET r == req[p]
  IN /\ At(p, "store")
     /\ stored' = IF r.lane = "live" THEN [stored EXCEPT ![r.app] = @ + 1] ELSE stored
     /\ Goto(p, "record")
     /\ UNCHANGED <<environment, tenancy, usage, begun, interrupted>>

\* RecordMessageByWorkspaceID; the sandbox is skipped.
Record(p) ==
  LET r == req[p]
  IN /\ At(p, "record")
     /\ IF r.lane = "live" THEN IncrementAppMessageUsage(r.app) ELSE UNCHANGED usage
     /\ Return(p)
     /\ UNCHANGED <<environment, tenancy, stored, begun, interrupted>>

\* RecordVideoMinutesByWorkspaceID, when the call has ended.
Meter(p, m) ==
  LET r == req[p]
  IN /\ At(p, "meter")
     /\ IF r.lane = "live" /\ m > 0 THEN IncrementAppVideoMinutes(r.app, m)
        ELSE UNCHANGED usage
     /\ Return(p)
     /\ UNCHANGED <<environment, tenancy, stored, begun, interrupted>>

-----------------------------------------------------------------------------
(* CreateApp and CreateWebhook.                                            *)

\* GetAppBySlug, then AssertCanCreateApp.
CreateApp(p, u, a) ==
  /\ apps[a] = NoUser
  /\ Begin(p, [Idle EXCEPT !.pc = "gate", !.kind = "app", !.user = u, !.app = a])
  /\ UNCHANGED <<environment, tenancy, metering, interrupted>>

\* CreateWorkspace, twice; the slug of a workspace is unique.
CreateWorkspace(p, pc, lane, next) ==
  LET n == Slug[req[p].app, lane]
  IN /\ At(p, pc)
     /\ IF workspaces[n] # NoApp
        THEN UNCHANGED workspaces /\ Return(p)
        ELSE /\ workspaces' = [workspaces EXCEPT ![n] = req[p].app]
             /\ Goto(p, next)
     /\ UNCHANGED <<environment, apps, members, hooks, metering, begun, interrupted>>

AddOwner(p, pc, lane, next) ==
  /\ At(p, pc)
  /\ members' = members \cup {Slug[req[p].app, lane]}
  /\ Goto(p, next)
  /\ UNCHANGED <<environment, apps, workspaces, hooks, metering, begun, interrupted>>

InsertApp(p) ==
  LET a == req[p].app
  IN /\ At(p, "app")
     /\ apps' = IF apps[a] = NoUser THEN [apps EXCEPT ![a] = req[p].user] ELSE apps
     /\ Return(p)
     /\ UNCHANGED <<environment, workspaces, members, hooks, metering, begun, interrupted>>

\* Mutant: the app's row is written before its members.
CreateAppStepsEarly(p) ==
  \/ CreateWorkspace(p, "workspace", "live", "sandbox")
  \/ CreateWorkspace(p, "sandbox", "sandbox", "app")
  \/ InsertApp(p)

CreateAppSteps(p) ==
  \/ CreateWorkspace(p, "workspace", "live", "sandbox")
  \/ CreateWorkspace(p, "sandbox", "sandbox", "member")
  \/ AddOwner(p, "member", "live", "sandboxMember")
  \/ AddOwner(p, "sandboxMember", "sandbox", "app")
  \/ InsertApp(p)

\* assertAppOwner, then CheckCanCreateWebhook.
CreateWebhook(p, a) ==
  /\ apps[a] # NoUser
  /\ Begin(p, [Idle EXCEPT !.pc = "gate", !.kind = "webhook", !.user = apps[a],
                           !.app = a])
  /\ UNCHANGED <<environment, tenancy, metering, interrupted>>

InsertWebhook(p) ==
  /\ At(p, "hook")
  /\ hooks' = hooks \cup {req[p].app}
  /\ Return(p)
  /\ UNCHANGED <<environment, apps, workspaces, members, metering, begun, interrupted>>

DisableWebhook(a) ==
  /\ a \in hooks
  /\ hooks' = hooks \ {a}
  /\ UNCHANGED <<environment, apps, workspaces, members, metering, req, begun, interrupted>>

-----------------------------------------------------------------------------
(* The environment.                                                        *)

\* What Billing does to the row of an owner.
SubscriptionChanges(u, plan, status) ==
  /\ changes < MaxChanges
  /\ changes' = changes + 1
  /\ sub' = [sub EXCEPT ![u] = [plan |-> plan, status |-> status]]
  /\ UNCHANGED <<month, tenancy, metering, req, begun, interrupted>>

NextMonth ==
  /\ month < MaxMonths
  /\ month' = month + 1
  /\ UNCHANGED <<sub, changes, tenancy, metering, req, begun, interrupted>>

\* Callers drop the error of a record, so a lost record is a Fail as well.
Fail(p) ==
  /\ Failures
  /\ ~At(p, "idle")
  /\ interrupted' = IF req[p].pc \in {"sandbox", "member", "sandboxMember", "app"}
                    THEN interrupted \cup {req[p].app} ELSE interrupted
  /\ Return(p)
  /\ UNCHANGED <<environment, tenancy, metering, begun>>

Next ==
  \/ \E p \in Requests :
       \/ Gate(p) \/ Count(p) \/ Store(p) \/ Record(p)
       \/ \E m \in 0..MaxMinutes : Meter(p, m)
       \/ CreateAppSteps(p) \/ InsertWebhook(p) \/ Fail(p)
       \/ \E a \in Apps, k \in Kinds, lane \in Lanes : Use(p, a, k, lane)
       \/ \E u \in Users, a \in Apps : CreateApp(p, u, a)
       \/ \E a \in Apps : CreateWebhook(p, a)
  \/ \E a \in Apps : DisableWebhook(a)
  \/ \E u \in Users, plan \in Plans, st \in {"active", "past_due"} :
       SubscriptionChanges(u, plan, st)
  \/ NextMonth

Spec == Init /\ [][Next]_vars

-----------------------------------------------------------------------------
(* Properties.                                                             *)

Pending(u, kind, pcs) ==
  Cardinality({p \in Requests : /\ req[p].user = u /\ req[p].kind = kind
                                /\ req[p].lane = "live" /\ req[p].pc \in pcs})

\* The most that any plan allows.
Ceiling(kind) == Max({Limit(kind, plan) : plan \in Plans})

\* The pool of an owner, over all apps and plans, is exceeded by at most one
\* less than the number of requests that can be between the count and the
\* record together.
MessageOvershoot ==
  (\A plan \in Plans : Limited("message", plan.messages_limit)) =>
  \A u \in Users :
    MapThenSumSet(LAMBDA a : usage[a][month].messages, AppsOf(u))
      + Pending(u, "message", {"store", "record"})
      < Ceiling("message") + Cardinality(Requests)

\* Minutes are checked when a call starts and added when it ends.
VideoOvershoot ==
  (\A plan \in Plans : Limited("video", plan.video_minutes_limit)) =>
  \A u \in Users :
    MapThenSumSet(LAMBDA a : usage[a][month].minutes, AppsOf(u))
      + MaxMinutes * Pending(u, "video", {"meter"})
      < Ceiling("video") + MaxMinutes * Cardinality(Requests)

\* Two creations that overlap both count before either inserts its app.
AppOvershoot ==
  (\A plan \in Plans : Limited("app", plan.max_apps)) =>
  \A u \in Users :
    Cardinality(AppsOf(u)) < Max({Ceiling("app"), Cardinality({a \in Apps : FirstApps[a] = u})})
                            + Cardinality(Requests)

\* A message is counted only after it is stored, once, and never in the
\* sandbox: over all months no more are counted than are stored.
CountedWasStored ==
  \A a \in Apps :
    MapThenSumSet(LAMBDA m : usage[a][m].messages, 1..MaxMonths) <= stored[a]

\* What an owner uses beyond the plan is bounded by the requests that overlap,
\* and the counters count nothing that was not used.
UsageBounded == MessageOvershoot /\ VideoOvershoot /\ AppOvershoot /\ CountedWasStored

\* An app that can be found has both of its workspaces, each with its owner,
\* whatever was cut short before and whichever slugs were taken.
AppIsWhole ==
  \A a \in Apps : apps[a] # NoUser =>
    \A l \in Lanes : workspaces[Slug[a, l]] = a /\ Slug[a, l] \in members

\* Two that create the same slug together leave nothing behind.  A workspace
\* without an app, which keeps its slug for good, is left only by a creation
\* that was cut short or that found the slug of its sandbox taken.
OnlyInterruptedLeavesWorkspace ==
  \A a \in Apps :
    (apps[a] = NoUser /\ \E n \in Names : workspaces[n] = a) =>
      \/ a \in interrupted
      \/ workspaces[Slug[a, "sandbox"]] \notin {a, NoApp}
      \/ \E p \in Requests : req[p].app = a
           /\ req[p].pc \in {"sandbox", "member", "sandboxMember", "app"}

\* CreateApp is all or nothing as far as a reader of the tables can tell,
\* although it is five statements.
AppsWhole == AppIsWhole /\ OnlyInterruptedLeavesWorkspace
=============================================================================
