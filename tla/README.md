# Verification of brenox-engine

TLA+ models of the parts of brenox-engine whose correctness depends on
interleavings and failures, checked with TLC on small instances and, for the
safety properties of every module but `Quota`, proved with TLAPS for every size.

brenox-engine is a multi-tenant chat backend in Go: a Gin HTTP API over
PostgreSQL (sqlc queries in `internal/db`), a WebSocket hub on every node, and
Redis for events between nodes, presence, sequence numbers and rate limits.

## Inventory

| Component | State it keeps | Operations | Interacts with | What is hard, and what makes it correct | Module |
|---|---|---|---|---|---|
| Hub and clients (`internal/realtime/hub.go`, `client.go`, `handler.go`) | channel maps, per-user and per-IP counters, send buffers, a broadcast queue | CanConnect, register, unregister, deliver, notifyUserLocal, Shutdown, the two pumps | broker, presence, chat, calls, `main` | a goroutine per pump, eviction and event; check-then-act on the limits; closing a channel others send on. Counters equal the maps; a channel is closed once; slow and dead clients leave | `Hub` |
| Redis broker (`redis_broker.go`) | a reference count for each topic | Ensure/MaybeUnsubscribe, Publish, readLoop, reconnect | hub, Redis | Redis fails; calls after the hub's lock is released. A topic is subscribed exactly while the node has clients for it | `Hub` |
| Sequencer (`sequence.go`) | a counter for each channel | Next | hub | events are queued in another order than numbered, or lost. The numbers tell which is the last | `Members` |
| Presence (`internal/presence`) | connection counts by user, workspace, channel; status; keys that expire | Connect, Disconnect, Touch, SetStatus, lists | hub, Redis | scripts and pipelines, expiry against heartbeat. A user is online while connected and fades afterwards | `PresenceStore`, `Presence` |
| Calls (`internal/calls`) | rows of calls, participants, recordings | InitiateCall, JoinCall, LeaveCall, Start/StopRecording | billing, channels, hub | no transaction: every request is a series of statements. One live call per channel, participant limit, metered once | `Calls` |
| Billing (`internal/billing`) | plans, subscriptions | checkout, Stripe webhooks, changes by administrators | Stripe, quota | webhooks out of order or repeated, plans deleted under a checkout. Access follows payment | `Billing` |
| Quotas and apps (`internal/billing`, `internal/apps`) | usage counters, apps, their workspaces and webhook endpoints | Check…, Assert…, Record…, CreateApp, CreateWebhook, DisableWebhook | chat, calls | checks before the counted action, five statements for an app. Overshoot is bounded, apps are whole | `Quota` |
| Developer API, API keys, idempotency, sandbox | keys, app users, channels, messages, stored answers | ProvisionUser, CreateChannel, SendMessage, CreateSession, the cleaner | apps, webhooks | concurrent requests with one key or one external id, caps, deletion under a request. Lanes do not mix, retries do not pile up | `DeveloperApi` |
| Accounts (`internal/auth`, `pkg/jwt`, `internal/users`, `internal/platformadmin`) | users, revoked tokens, invalidation times, maintenance mode | Register, Login, Refresh, UpdateProfile, ChangePassword, UpdateUser | every request with a token | concurrent refreshes of one token, suspension against refresh, administrators against each other | `Accounts` |
| Workspaces, channels, authorization | memberships and roles | CreateWorkspace, AddMember, RemoveMember, UpdateMemberRole, CreateChannel, Join, Leave, Can | each other, hub, notifications | role read before the write it guards; half-made workspaces. Owners stay, the permission table holds | `Members` |
| Chat, notifications, attachments | messages, notifications, attachments | SendMessage, AttachToMessage, MarkRead | authorization, billing, hub | side effects after the insert, errors dropped. Who may post, who is notified, whose files | `Messages` |
| Rate limits, origins | windows, a cache | Allow, IsAllowed | middleware | INCR without EXPIRE; a cache that other nodes do not invalidate | none |
| Storage, health, metrics, version, audit | single rows or none | I/O | | no multi-step state | none |

`PROJECT.json` lists every component with its status, and under `hazards` what
is hard to test in this code, at the line where it bites.

## Modules

| Module | What it is | Instances | Theorems |
|---|---|---|---|
| `Hub` | the hub of one node with its goroutines, the broker's topic counters and the shutdown | `MCHub` | `HubProofs` |
| `PresenceStore` | what presence promises, one step per operation: the abstract specification | | |
| `Presence` | the Redis store with expiring keys, and that it implements `PresenceStore` | `MCPresence` | `PresenceProofs` |
| `Calls` | the call service | `MCCalls` | `CallsProofs` |
| `Billing` | plans, subscriptions, checkout, Stripe's webhooks | `MCBilling` | `BillingProofs` |
| `Quota` | gates and counters of a plan, creation of apps | `MCQuota` | |
| `DeveloperApi` | the API of an app in its two lanes, with keys, idempotency and the cleaner | `MCDeveloperApi` | `DeveloperApiProofs` |
| `Accounts` | registration, tokens, profiles, administrators | `MCAccounts` | `AccountsProofs` |
| `Members` | workspaces, channels and roles, and the events of joining and leaving on their way | `MCMembers` | `MembersProofs` |
| `Messages` | messages, notifications and files | `MCMessages` | `MessagesProofs` |

Definitions marked *Mutant* are faulty variants of the definition that follows
them. No specification uses them; each is swapped in to see that a property
notices the bug.

From `Calls` on, the modules share one form. The services open no transaction,
so a request is a record with the statement it is at (`pc`) and what it has
read, each statement is an action, and any other request may run between two of
them. `Fail(p)` stops a request after any statement: a database error, a
cancelled context, a process that dies. `Inputs` are the requests that may be
sent. Variables marked *observed* are history: no guard reads them.

### Hub

*State.* `channels`, `userConnections`, `ipConnections` are the hub's maps (an
absent key is 0); `conn` is how far the HTTP handler and then the readPump of a
client are; `writing` the running writePumps; `sockets` the open connections;
`queued` and `closed` the client's send channel; `evictors` the goroutines
blocked in `h.unregister <- c`; `spawned` and `broadcast` the event path; `run`
the Run goroutine with its locals; `notifying` the broker goroutine inside
notifyUserLocal; `subs` the broker's counts; `presence` the connections that the
tracker counts; `stage` main's shutdown; `panic` the operation that panicked.

*Granularity.* An action is what a goroutine does between two points at which
another can run: a section under `h.mu`, one channel operation, one call that
leaves the process. handleRegister is `Register`, `RegisterSubscribe`,
`RegisterConnect`; handleUnregister is `Unregister`, `UnregisterUnsubscribe`,
`UnregisterClose`; deliver is a snapshot (`Deliver`) and one `DeliverSend` for
each target; so is notifyUserLocal. In the sweep of Shutdown the whole section
under `h.mu` is one action: everything else that touches the maps waits for the
lock, and a send that falls between two closes of the sweep commutes with it.

*Data.* An event is the channel it is for. A call signal goes to a subset of
the channel's clients, so `Deliver` picks any subset. Messages that go-redis has
already read may arrive after the unsubscribe and after Close.

*Panics.* A send on a closed channel and a second close end the process. The
model has the three places where the code can do that: notifyUserLocal and
sendClientError (which really can, in this code, when the client is
unregistered between their check and their send), and deliver after the sweep.
`RunLoopDoesNotPanic` says that the Run loop's own operations never do before
the sweep.

*Faults.* `Faults` lets every Redis call of the broker and of presence fail;
`Signal` lets SIGTERM arrive.

### Calls

*State.* `calls` holds, for each id, the row of `calls` and what the code can
observe of `call_participants` (who has an open row, who ever had one, how many
rows) and `call_recordings`; `charges` counts RecordVideoMinutesByWorkspaceID
calls. `req` holds the requests in flight: the statement each is at and what it
has read.

*Granularity.* The service opens no transaction, so each statement is an action
and any other request may run in between. Reads that are followed by a decision
make the decision in the same action. meterVideoCall's count and its record are
one action: rows only grow, so no step in between changes what it does.

*Failures.* `Fail` also stands for a check that refuses (membership, plan).
With `Failures` the lookup of the plan's limit may fail too (the node's limit is
then used) and so may the metering (dropped).

*Left out.* Published events; the length of a call (positive); changes of the
plan during a call.

### PresenceStore and Presence

*State.* One variable for each kind of key (`wsConn`, `chConn`, `hash`,
`online`, `wsOnline`, `active`), each value with its time to live in heartbeat
intervals; `live` is what is really connected; `told` the last event of each
user. The Lua scripts and pipelines are one action each, SetStatus is two.
`Tick` ages every key; it waits until each connected user has sent the
heartbeat of the interval, which may fail.

*Refinement.* `ImplementsStore` maps the keys to the abstract connections,
lists and status. It holds until `lost`: a call that fails, a process that
stops, a key of a connected client that expires, or an offline status that was
decided before the first connection and written after it. What the code does
from there on is `StaleFades`.

### Billing

*State.* `plans` and `subs` are tables, `customer` the column of users,
`stripe` and `events` are Stripe's side: it emits events in order, and the
webhook handler gets any of them, at any time, again and again. A plan's slug
is a number that stands for its `sort_order`.

*Left out.* Amounts beyond zero or not, trial periods, summaries of usage.

### Quota

*State.* `sub` the owner's plan and status, which change at any time; `usage`
the monthly counters; `apps`, `workspaces`, `members`, `hooks` what CreateApp
and CreateWebhook write. A workspace's slug is made from the app's, and the
sandbox of one app may have the slug of another's live workspace, as in the
code.

### DeveloperApi

*State.* Tables of one app: `keys`, `accounts`, `members`, `links`
(`app_users`), `channels`, `messages`, `idem`. Rows carry `old`, set by `Tick`,
which the cleaner's cutoff reads. The idempotency middleware looks up before
the handler and saves after it, as two actions. A message's quota refuses at
will (module `Quota` says when).

*Left out.* Bodies and their validation, signatures of webhooks and delivery.

### Accounts

*State.* `users`, `revoked`, `maintenance`, and the `tokens` handed out, which
may be sent at any time. The clock moves with every event; a token's times are
cut to `Second`, the invalidation time of an account is not, as in the code.
E-mail addresses are compared as the code normalises them (`Fold` for names).

*Left out.* Hashes and signatures (equality).

### Members

*State.* `workspaces`, `members`, `channels`, `channelMembers`. `Allowed` and
`AssignableRoles` are the permission table.

*Events.* member.joined and member.left get a number of their channel from
`sequence` (Sequencer.Next) and are `sent`: they wait in goroutines of their own
for the hub's queue, or travel through Redis. `Deliver` takes any of them,
`Lose` drops any (a full queue, a publish that fails and is only logged).
`said` is the last one published of a channel and a user, `heard` the one with
the highest number that arrived. `LastWordTrue` compares `heard` with the table.
It cannot hold while the last event is under way, nor when it is in `lost`; and
two overlapping requests of one user about one channel may write their rows in
one order and publish in the other: `blurred`. Both sets forget a channel and a
user at their next event. `Fail` also stands for a sequencer that fails: the
event then has number 0. Numbers do not begin anew: the counter that a process
without Redis keeps in memory, and its restart, which hangs up on all clients,
are left out, and so is what clients do about gaps.

### Messages

*State.* `messages`, `notifications`, `attachments`, the published `events`;
memberships and roles change under the requests. Names are spellings, and
`NameOf` is the lookup with LOWER. Objects in the store have an owner (the
prefix of the key) and a size.

*Left out.* Text beyond empty or not, MIME types, invitations to calls, the push
to the user's own topic.

## Runs

| Run | Instance | Shows |
|---|---|---|
| `hub_trio` | 3 clients of 2 users in one channel behind one address, 2 handshakes at a time, Redis fails | counters equal the maps; the limits are overshot by the racing handshakes only; subscriptions never leak |
| `hub_live` | 2 clients of one user, limit 1, shutdown, fairness | presence agrees with the maps, the Run loop never panics, a closed client stays out; slow, dead and unregistered clients leave; Run returns |
| `presence` | 2 users, 2 workspaces with a channel each, times to live of 2, every fault | the Redis store implements the abstract one until the first fault; stale users fade |
| `calls_serial` | one request at a time, no failures, 3 users, 2 calls | all that the documentation promises of a call |
| `calls_race` | 4 users, 2 requests, failures, limit 2, plan limit 1, 2 recordings | one participant too many at most; one open recording; an active call was shared; only billable calls are charged |
| `billing` | 1 user, 2 plans, 2 requests, 3 events of one Stripe subscription that is active or unpaid | plans exist, one highlight, access follows the newest event |
| `quota` | 1 owner, 5 apps two of whose slugs collide, 2 months, 3 requests of which 2 overlap | overshoot by the requests in flight at most; apps are whole |
| `devapi` | 2 keys, 3 external ids, 1 idempotency key, caps of 1 and 2, the cleaner | one user per external id; lanes do not mix; races are bounded |
| `accounts` | 3 users (2 administrators, 1 bootstrap), 5 tokens, 2 requests | suspension ends sessions, refresh continues one, an administrator remains |
| `members` | 3 users, 2 workspaces, 2 channels, 5 requests of which 2 overlap | owners stay, the permission table holds, membership events are true by their numbers, one invitation per addition |
| `messages` | 2 users, 4 spellings, a read-only channel, 3 objects, 3 requests of which 2 overlap | who posts, who is notified, whose files, which events |
| `presence_heartbeat` | 1 user, no fault | violation, see below |

*Properties in parts.* Where several statements make one promise, the property
is their conjunction and the parts are defined above it with a comment each:
`ClientsLeave` (slow, dead, unregistered), `SerialCalls` (one live call,
capacity, status, charged once, solo not billed), `CatalogKept`,
`UsageBounded` (messages, minutes, apps, counted was stored), `AppsWhole`,
`RacesBounded` (caps, retries), `LanesDoNotMix`, `RefreshContinues`,
`OwnersStay`, `ToldTrue`, `NotificationsRight`, `StoredAsTold`.

*Violation.* `presence_heartbeat`: `docs/DEPLOYMENT.md` says that heartbeats
refresh the keys' time to live. Touch refreshes the user's key, the global set
and the user's channels, but not the workspace's set, so a member who stays
connected past the time to live is gone from the workspace's list
(`ListedWhileConnected`).

*Hazards without a property.* Some hazards are what the code does, so that a
property about them is an exception and not a check: two live calls, double
metering, blocked calls, late webhooks, a write by an actor just demoted, two
administrators who demote each other, a message of a user just removed, a status
overwritten by SetStatus, counts after a failed presence call. The hazards of
that kind in `PROJECT.json` have a note instead, which says how far the nearest
property confines them.

*What the models show besides.* The exceptions written into the properties are
behaviours of the code. With two requests at once: two upgrades exceed the
connection limit by the handshakes in flight; two initiators leave two live
calls; a join that read `ringing` overwrites `ended`; the last two to leave both
meter the call; caps and quotas are overshot; two administrators demote each
other; a refresh that read the account before its suspension issues a token that
survives it; a user removed while sending still posts. With a request cut short:
calls without participants, workspaces without owner, plans with two
highlights. Without either: a client that registers after the shutdown's sweep
is not closed; the plan column is written when a checkout session is created and
not when it is paid; a user whose name is mentioned in two cases is notified
twice; idempotency keys are looked up by app, so both lanes share them.

*Bounds.* Two requests make every pairwise race, and every property that bounds
an overshoot does so by the number of requests. Two clients are the smallest
number for a racing handshake, for one client leaving while another keeps the
topic, and for an eviction that overtakes a readPump; the third adds a second
user, so that a user's last connection is not the channel's last; the single
address has a limit of 1, so both admission checks refuse. A buffer of 1
makes "full" happen at the second event; `MaxEvents` is therefore 2. Every
client object connects once (a reconnect is another object). `MaxCalls = 2` lets
a channel be called again. Three Stripe events are an old one, a newer one and a
repetition of either. Three begun requests (`MaxBegun`) are two that overlap and
one that finds what they left; `members` has more because its requests are
short. A time to live of 2 lets a key survive one interval and expire with
the next. Requests, and users where no constant names them, are interchangeable,
so the invariant runs use symmetry. The bounds on rows keep a request from
beginning when it could not be finished within them. The proofs have none of
these bounds.

*Deadlock* is not checked: clients, events and requests are used up, a panic or
a shutdown ends the process.

*Fairness.* `FairSpec` of `Hub`: weak fairness for the steps of the Run loop
inside a handler and for pumps that have something to do: Go runs every
goroutine that is ready. Strong fairness for `Unregister(c)` and `RunReturn`: a
select chooses uniformly among its ready cases and a channel serves blocked
senders in order, so a case that is ready again and again is chosen. None for
what peers, Redis or operators do, and none after a panic. `Presence`: weak
fairness of `Tick`, since clocks run and Redis expires keys by them, and of
`Touch`, since writePump pings on a ticker; the heartbeat may fail.

## Proofs

| Theorem | Property |
|---|---|
| `HubProofs!TypeCorrect` | `TypeOK` |
| `HubProofs!CountsCorrect` | `ConnectionCounts` |
| `HubProofs!OvershootBounded` | `LimitOvershoot` |
| `HubProofs!RunLoopSafe` | `RunLoopDoesNotPanic` |
| `HubProofs!ClosedStaysOut` | `ClosedIsFinal` (an action property) |
| `HubProofs!SubscriptionsCorrect` | `SubscriptionsTrackClients` |
| `HubProofs!PresenceCorrect` | `PresenceTracksClients` |
| `CallsProofs!TypeCorrect` | `TypeOK` |
| `CallsProofs!ActiveCorrect` | `ActiveWasShared` |
| `CallsProofs!ChargesCorrect` | `ChargedWasBillable` |
| `CallsProofs!OvershootBounded` | `CapacityOvershoot` |
| `CallsProofs!RecordingCorrect` | `OneActiveRecording` |
| `CallsProofs!SerialCorrect` | `SerialCalls`, if one request is served at a time and none is lost |
| `MembersProofs!TypeCorrect` | `TypeOK` |
| `MembersProofs!OwnersStayCorrect` | `OwnersStay` |
| `MembersProofs!MatrixCorrect` | `MatrixKept` |
| `MembersProofs!ToldCorrect` | `ToldTrue` |
| `AccountsProofs!TypeCorrect` | `TypeOK` |
| `AccountsProofs!SuspensionCorrect` | `SuspensionEndsSessions` |
| `AccountsProofs!AdminCorrect` | `AdminRemains` |
| `AccountsProofs!RefreshCorrect` | `RefreshContinues` |
| `BillingProofs!TypeCorrect` | `TypeOK` |
| `BillingProofs!CatalogCorrect` | `CatalogKept` |
| `BillingProofs!AccessCorrect` | `AccessFollowsPayment` |
| `DeveloperApiProofs!TypeCorrect` | `TypeOK` |
| `DeveloperApiProofs!OneUserCorrect` | `OneUserPerExternal` |
| `DeveloperApiProofs!RacesCorrect` | `RacesBounded` |
| `DeveloperApiProofs!LanesCorrect` | `LanesDoNotMix` |
| `MessagesProofs!TypeCorrect` | `TypeOK` |
| `MessagesProofs!PostingCorrect` | `PostingAllowed` |
| `MessagesProofs!NotificationsCorrect` | `NotificationsRight` |
| `MessagesProofs!StoredCorrect` | `StoredAsTold` |
| `PresenceProofs!TypeCorrect` | `TypeOK` |
| `PresenceProofs!KeysFaithful` | `Faithful`: until a fault, the keys count the hubs' clients |
| `PresenceProofs!StoreImplemented` | `ImplementsStore` (the refinement) |

*Assumptions.* Each module's named `ASSUME`, which TLC evaluates on every run:
types and finiteness of the constants, null values that are not members, and
inputs that have the fields of their kind. Three say more, and the code has
them: the installation begins with a user (`Accounts`: FirstUsers is not empty)
and the clock can move; the catalogue begins with one highlighted plan at most
(`Billing`: migration 000014 highlights one), and `active` is a status of
Stripe's; a workspace begins with one owner (`Members`: CreateWorkspace makes
no other). The bounds (`MaxBegun`, `MaxEvents`, ...) are any numbers.

*Form.* Each proof shows `Init => Inv`, `Inv /\ [Next]_vars => Inv'` and that
`Inv` implies the property. A first group of lemmas (`...Form`) says what a step
does to the record of the request that takes it and to the tables; the lemmas
of the actions are then about the conjuncts they can disturb.

*Hub, counting.* `ConnectionCounts` alone is not inductive: that a register
adds a new member to the map needs `Placed` (a client that has not registered is
in no map, and each is in the map of its own channel). The overshoot needs
`Admission`, which counts the requests in their handshake together with the
registered clients: the check that lets one in sees a counter below the limit,
and the counter is never below the map (`CountsCover`, which unlike
`ConnectionCounts` survives the sweep).

*Hub, closing.* `CloseInv`: no registered client is closed; the client between
`Unregister` and `UnregisterClose` is out of the maps and not closed; deliver's
targets are not closed before the sweep, since only Run closes until then and
Run is busy delivering.

*Hub, Redis.* `SubsInv` and `PresenceInv` tie the broker's count and the
tracker's connections to the maps through the step that Run is at: they differ
by the client in Run's hands, and by that client only, so they agree whenever
Run is back in its select. With Redis faults a subscription may be missing, but
none is left over, and nothing is said of presence.

*Calls.* `CallsInv` is `TypeOK`, `Refs` (what a request refers to exists),
`Rows` (each row satisfies `RowOK`, and a request about to write `active` has
seen two participants, which stays true because users who joined are never
forgotten) and `Capacity` (participants plus requests about to insert one). The
proof shows once which pairs of a request's record and a call's row may be
written, and then that each statement writes such a pair.

*Calls, one at a time.* `SerialCorrect` assumes `Serial`: one request in flight
at most, and no failures, which is the setting of the run `calls_serial`. There
the promises of `docs/WEBRTC.md` hold, so that what breaks them in
`calls_race` is the overlap or the loss of requests. They do not hold
inside a request: a call that everybody left is live until the next statement
ends it. `SerialInv` therefore says of every row that it is `Steady`, which is
what the promises say of it, or belongs to the request in flight, and of that
row what the request's point implies (`InFlight`: a request that has read its
call and not yet written it finds it steady; one that meters finds it ended and
not charged). `Counted` ties the rows of participants, of which a user who
comes back has several, to the users who joined.

*Members.* `RequestsOK` says what a request may rely on at each point although
the tables change under it: that the workspace which let it in keeps its owner,
that its target is not that owner, the role it read. `CreationOK`: a workspace
is empty until its creator is in, and one request puts them there. `InvitesOK`
counts the invitations sent with the requests that are about to send one.
`LastWordTrue` is proved in two halves. `LatestTrue`: the last event published
says what the table says, or was overtaken; it needs `SaidOK` (nobody is said
to have left their own channel). `DeliveryOK`: that event is under way, lost, or
the one with the highest number that arrived, since numbers only grow and every
other event has a lower one.

*Accounts.* The clock moves with each token and each suspension, so a suspension
invalidates every token there is, and `SessionsOK` (a token that was not
invalidated is of a session after the last suspension) is kept; a refresh still
in flight is marked as overlapping. An administrator who acts on somebody else
is still there afterwards (`AdminRemains`). `RefreshOK` counts: a token that is
not revoked yet has no more successors than requests about to revoke it, and a
revoked one no more than there are requests, with those that may still issue.

*Billing.* A plan is deleted by a statement that sees the subscriptions, and a
subscription is written by one that sees the plan (`SubscriptionHasPlan`). Of
two highlighted plans, one belongs to a request that has yet to list or to clear
the other (`HighlightsOK`). A row with Stripe's id belongs to the user Stripe
has for it (`SubscribersOK`), so the event written last is one of that user's
(`NewestOK`), and the last of a subscription says what Stripe says (`LatestOK`).

*DeveloperApi.* Links are never removed and ids are never given twice
(`LinksOK`, `ChannelsOK`), so what a request read of its lane stays true while
other requests and the cleaner run (`RequestsOK`). A cap counts, with the rows,
the requests that passed its check and have not inserted (`UserCapOK`,
`ChannelCapOK`, `MessageCapOK`). A key without a stored answer has had its
effect only in requests that are about to store one, and a key with an answer
only in those still under way (`RetriesOK`).

*Messages.* `AccessOK`: a request that no change of its user's membership
overlapped may still do what it was let do, so what it stores is allowed. The
names left to notify are distinct (`NamesOf`, from `ParseMentions`), and
`MentionsOK` counts the mentions told of a message against the spellings that
are not left, so each row takes one of them; it needs `SendsApart` (a message is
sent by one request). `AnnouncedOnce` ties message.new to the one request that
may still publish it. A file that no event lists is one its request has yet to
list, unless the message is noted as cut or refused (`ListedOK`).

*Presence.* `Faithful`: until `lost`, a user's count is the number of their
connections (`Places` numbers them, so that one connection more is one element
more of a finite set), a workspace's count that of the connections to its
channels, and each set holds who has a connection there. It needs `Gones` (a key
that is gone has no value): a key that ends with a tick then either counted
nobody, or the tick is `lost`. From it, what a reader sees is `Shown` of the
clients (`Mapped`), and each action is mapped: the scripts to `Connect` and
`Disconnect`, SetStatus's write to `SetStatus` or, for a user who is offline, to
nothing, heartbeats and ticks to nothing, the first fault to `Lose`. After it
`PresenceStore` shows nothing (`Void`) and every step is a stutter.

*Only model-checked.* The liveness properties (the prover has no ENABLED), and
`Quota` as a whole: `UsageBounded` compares counters with what was stored, in
sums over an owner's apps and over months, which is induction over data. Its
`TypeOK` and `AppsWhole` (an app that can be found has both of its workspaces,
each with its owner) have no proofs; the run `quota` checks them.

## Not modelled

- The order of other events than those of memberships, and their delivery to
  several nodes: what it should guarantee depends on what clients do with the
  sequence numbers, and the clients are not here. `Hub` abstracts an event to its
  channel.
- The rate limiter (`ratelimit/limiter.go:81`: INCR and EXPIRE are two commands,
  and a key whose EXPIRE is lost limits its caller for ever) and the cache of
  origins (Invalidate reaches one process only): one value each, that nothing
  else depends on.
- Delivery of webhooks: one attempt from a goroutine of its own, whose failure
  is logged. `DeveloperApi` ends where an event is handed over.
- The audit log, the lists, reports and statistics: read only or write only.
- Presigned URLs and the object store, CORS and security headers, health,
  metrics, version: I/O.
- Parsing, validation and formatting of requests, except where a property tells
  the outcomes apart.
