--------------------------------- MODULE Hub ---------------------------------
(***************************************************************************)
(* The websocket hub of one API node: internal/realtime/hub.go with the    *)
(* client pumps (client.go), the upgrade handler (handler.go), the topic   *)
(* counters of the Redis broker (redis_broker.go) and the calls it makes   *)
(* to the presence tracker.                                                *)
(*                                                                         *)
(* Goroutines: one HTTP handler, one readPump and one writePump for each   *)
(* client, the hub's Run loop, the broker's readLoop (notifyUserLocal),    *)
(* one short-lived goroutine for each broadcast and for each eviction, and *)
(* main, which shuts the node down.  An action is what one of them does    *)
(* between two points where another can run: a section under h.mu, a       *)
(* channel operation, or a call that leaves the process.                   *)
(*                                                                         *)
(* An event is abstracted to the channel it is for, and a send buffer to   *)
(* the number of events in it.  A panic (a send on a closed channel, or    *)
(* closing it twice) ends the process: nothing happens after it.           *)
(***************************************************************************)
EXTENDS Naturals, Sequences, FiniteSets

CONSTANTS
  Clients,               \* *Client objects, one for each upgraded request
  Users, IPs, Channels,
  UserOf, IPOf, ChannelOf,   \* the fields of a client
  MaxConnectionsPerUser, MaxConnectionsPerIP,  \* 0 is "no limit"
  clientSendBuffer, broadcastBufferSize,
  Faults,                \* may Redis calls of the broker and presence fail?
  Signal,                \* may main receive SIGTERM and shut the node down?
  Handshakes,            \* bound: requests between CanConnect and register
  MaxEvents,             \* bound: events the outside world sends to the node
  NoClient

ASSUME HubAssumption ==
  /\ IsFiniteSet(Clients)
  /\ NoClient \notin Clients
  /\ UserOf \in [Clients -> Users]
  /\ IPOf \in [Clients -> IPs]
  /\ ChannelOf \in [Clients -> Channels]
  /\ Users \cap Channels = {}
  /\ MaxConnectionsPerUser \in Nat
  /\ MaxConnectionsPerIP \in Nat
  /\ clientSendBuffer \in Nat \ {0}
  /\ broadcastBufferSize \in Nat \ {0}
  /\ Faults \in BOOLEAN
  /\ Signal \in BOOLEAN
  /\ Handshakes \in Nat \ {0}
  /\ MaxEvents \in Nat

VARIABLES
  conn,             \* where the request / readPump of each client is
  sockets,          \* clients whose websocket connection is open
  writing,          \* clients whose writePump runs
  channels,         \* Hub.channels
  userConnections,  \* Hub.userConnections, 0 for an absent key
  ipConnections,    \* Hub.ipConnections, 0 for an absent key
  queued,           \* events in client.send
  closed,           \* clients whose client.send is closed
  evictors,         \* goroutines blocked in h.unregister <- c after a full buffer
  spawned,          \* enqueueBroadcast goroutines that have not run, by channel
  broadcast,        \* Hub.broadcast
  run,              \* the Run goroutine
  notifying,        \* targets notifyUserLocal has still to serve
  subs,             \* redisBroker.subs, 0 for an absent key
  presence,         \* live connections the presence tracker counts for a user
  stage,            \* how far main's shutdown is
  events,           \* events sent by the outside world so far
  panic             \* the operation that panicked, or "none"

vars == <<conn, sockets, writing, channels, userConnections, ipConnections,
          queued, closed, evictors, spawned, broadcast, run, notifying, subs,
          presence, stage, events, panic>>

\* The variables of the two pumps and of the client's send channel.
pumpVars == <<sockets, writing, queued, closed, evictors>>
\* The three maps guarded by h.mu.
hubMaps == <<channels, userConnections, ipConnections>>
\* What the broadcast path keeps.
eventVars == <<spawned, broadcast, notifying, events>>

Topics == Channels \cup Users
Phases == {"idle", "checked", "upgraded", "open", "leaving", "left"}
Idle == [pc |-> "select", client |-> NoClient, first |-> FALSE,
         firstUser |-> FALSE, targets |-> {}]

Handlers == {"subscribe", "connect", "unsubscribe", "close"}
RunType ==
  /\ run \in [pc : Handlers \cup {"select", "deliver", "returned"},
              client : Clients \cup {NoClient}, first : BOOLEAN,
              firstUser : BOOLEAN, targets : SUBSET Clients]
  /\ run.pc \in Handlers => run.client \in Clients
Panics == {"none", "deliver", "notify", "clientError", "close"}

TypeOK ==
  /\ conn \in [Clients -> Phases]
  /\ sockets \in SUBSET Clients
  /\ writing \in SUBSET Clients
  /\ channels \in [Channels -> SUBSET Clients]
  /\ userConnections \in [Users -> Nat]
  /\ ipConnections \in [IPs -> Nat]
  /\ queued \in [Clients -> 0..clientSendBuffer]
  /\ closed \in SUBSET Clients
  /\ evictors \in [Clients -> Nat]
  /\ spawned \in [Channels -> Nat]
  /\ broadcast \in Seq(Channels)
  /\ RunType
  /\ notifying \in SUBSET Clients
  /\ subs \in [Topics -> Nat]
  /\ presence \in [Users -> Nat]
  /\ stage \in {"up", "brokerClosed", "done", "swept"}
  /\ events \in Nat
  /\ panic \in Panics

Init ==
  /\ conn = [c \in Clients |-> "idle"]
  /\ sockets = {} /\ writing = {}
  /\ channels = [ch \in Channels |-> {}]
  /\ userConnections = [u \in Users |-> 0]
  /\ ipConnections = [i \in IPs |-> 0]
  /\ queued = [c \in Clients |-> 0]
  /\ closed = {}
  /\ evictors = [c \in Clients |-> 0]
  /\ spawned = [ch \in Channels |-> 0]
  /\ broadcast = <<>>
  /\ run = Idle
  /\ notifying = {}
  /\ subs = [t \in Topics |-> 0]
  /\ presence = [u \in Users |-> 0]
  /\ stage = "up"
  /\ events = 0
  /\ panic = "none"

Registered == UNION {channels[ch] : ch \in Channels}
ShuttingDown == stage \in {"done", "swept"}      \* close(h.done) has happened
BeforeRegister == {"idle", "checked", "upgraded"}
InHandshake == {c \in Clients : conn[c] \in {"checked", "upgraded"}}

-----------------------------------------------------------------------------
(* The upgrade handler.                                                    *)

\* Mutant: the limit compared with <=.
CanConnectOffByOne(c) ==
  /\ MaxConnectionsPerUser > 0 =>
       userConnections[UserOf[c]] <= MaxConnectionsPerUser
  /\ MaxConnectionsPerIP > 0 => ipConnections[IPOf[c]] <= MaxConnectionsPerIP

CanConnect(c) ==
  /\ MaxConnectionsPerUser > 0 =>
       userConnections[UserOf[c]] < MaxConnectionsPerUser
  /\ MaxConnectionsPerIP > 0 => ipConnections[IPOf[c]] < MaxConnectionsPerIP

\* The admission check at the top of HandleWebSocket.  A request it refuses
\* is answered 429 and leaves no trace.
Check(c) ==
  /\ conn[c] = "idle"
  /\ Cardinality(InHandshake) < Handshakes
  /\ CanConnect(c)
  /\ conn' = [conn EXCEPT ![c] = "checked"]
  /\ UNCHANGED <<pumpVars, hubMaps, eventVars, run, subs, presence, stage, panic>>

\* A membership lookup says no or fails, or the upgrade itself fails.
Refuse(c) ==
  /\ conn[c] = "checked"
  /\ conn' = [conn EXCEPT ![c] = "idle"]
  /\ UNCHANGED <<pumpVars, hubMaps, eventVars, run, subs, presence, stage, panic>>

\* The connection is upgraded; the handler now waits in h.register <- client.
Upgrade(c) ==
  /\ conn[c] = "checked"
  /\ conn' = [conn EXCEPT ![c] = "upgraded"]
  /\ sockets' = sockets \cup {c}
  /\ UNCHANGED <<writing, queued, closed, evictors, hubMaps, eventVars, run,
                 subs, presence, stage, panic>>

-----------------------------------------------------------------------------
(* The broker's topic counters.                                            *)

\* EnsureSubscribed and EnsureUserSubscribed: only the first reference calls
\* Redis, and takes the count back if that fails.
EnsureSubscribed(s, t, ok) ==
  IF s[t] = 0 /\ ~ok THEN s ELSE [s EXCEPT ![t] = @ + 1]

\* Mutant: the count is never taken down.
MaybeUnsubscribeKeeps(s, t) == s

\* MaybeUnsubscribe and MaybeUnsubscribeUser.
MaybeUnsubscribe(s, t) ==
  IF s[t] = 0 THEN s ELSE [s EXCEPT ![t] = @ - 1]

\* Whether a Subscribe may succeed or fail: after Close the context is
\* cancelled and it always fails.
SubscribeOutcomes ==
  IF stage # "up" THEN {FALSE} ELSE IF Faults THEN BOOLEAN ELSE {TRUE}

CallOutcomes == IF Faults THEN BOOLEAN ELSE {TRUE}

-----------------------------------------------------------------------------
(* The Run loop.  Once done is closed its select may still pick any other  *)
(* case that is ready.                                                     *)

\* handleRegister, the section under h.mu.
Register(c) ==
  LET ch == ChannelOf[c]
      u  == UserOf[c]
  IN /\ run.pc = "select"
     /\ conn[c] = "upgraded"
     /\ conn' = [conn EXCEPT ![c] = "open"]
     /\ writing' = writing \cup {c}
     /\ channels' = [channels EXCEPT ![ch] = @ \cup {c}]
     /\ userConnections' = [userConnections EXCEPT ![u] = @ + 1]
     /\ ipConnections' = [ipConnections EXCEPT ![IPOf[c]] = @ + 1]
     /\ run' = [Idle EXCEPT !.pc = "subscribe", !.client = c,
                            !.first = channels[ch] = {},
                            !.firstUser = userConnections[u] = 0]
     /\ UNCHANGED <<sockets, queued, closed, evictors, eventVars, subs,
                    presence, stage, panic>>

\* handleRegister, the broker calls after the unlock.
RegisterSubscribe ==
  /\ run.pc = "subscribe"
  /\ \E ok1, ok2 \in SubscribeOutcomes :
       LET s1 == IF run.first
                 THEN EnsureSubscribed(subs, ChannelOf[run.client], ok1)
                 ELSE subs
       IN subs' = IF run.firstUser
                  THEN EnsureSubscribed(s1, UserOf[run.client], ok2)
                  ELSE s1
  /\ run' = [run EXCEPT !.pc = "connect"]
  /\ UNCHANGED <<conn, pumpVars, hubMaps, eventVars, presence, stage, panic>>

\* handleRegister, presence.Connect; an error is only logged.
RegisterConnect ==
  /\ run.pc = "connect"
  /\ \E ok \in CallOutcomes :
       presence' = IF ok
                   THEN [presence EXCEPT ![UserOf[run.client]] = @ + 1]
                   ELSE presence
  /\ run' = Idle
  /\ UNCHANGED <<conn, pumpVars, hubMaps, eventVars, subs, stage, panic>>

\* Who can be received from h.unregister: a readPump that ended, or a
\* goroutine that evicts a slow client.  The sender goes on as it is received.
Sender(c) ==
  \/ /\ conn[c] = "leaving"
     /\ conn' = [conn EXCEPT ![c] = "left"]
     /\ sockets' = sockets \ {c}
     /\ UNCHANGED evictors
  \/ /\ evictors[c] > 0
     /\ evictors' = [evictors EXCEPT ![c] = @ - 1]
     /\ UNCHANGED <<conn, sockets>>

\* Mutant: no early return.
NeverStale(c) == FALSE

\* The early return of handleUnregister: the client is no longer in the map.
StaleUnregister(c) == c \notin channels[ChannelOf[c]]

\* handleUnregister, the section under h.mu.
Unregister(c) ==
  LET ch == ChannelOf[c]
      u  == UserOf[c]
      i  == IPOf[c]
  IN /\ run.pc = "select"
     /\ Sender(c)
     /\ IF StaleUnregister(c)
        THEN UNCHANGED <<hubMaps, run>>
        ELSE /\ channels' = [channels EXCEPT ![ch] = @ \ {c}]
             /\ userConnections' = [userConnections EXCEPT ![u] =
                                      IF @ > 0 THEN @ - 1 ELSE 0]
             /\ ipConnections' = [ipConnections EXCEPT ![i] =
                                      IF @ > 0 THEN @ - 1 ELSE 0]
             /\ run' = [Idle EXCEPT !.pc = "unsubscribe", !.client = c,
                                    !.first = channels[ch] = {c},
                                    !.firstUser = userConnections[u] <= 1]
     /\ UNCHANGED <<writing, queued, closed, eventVars, subs, presence, stage,
                    panic>>

\* handleUnregister, the broker calls after the unlock.
UnregisterUnsubscribe ==
  /\ run.pc = "unsubscribe"
  /\ LET s1 == IF run.first
               THEN MaybeUnsubscribe(subs, ChannelOf[run.client])
               ELSE subs
     IN subs' = IF run.firstUser
                THEN MaybeUnsubscribe(s1, UserOf[run.client])
                ELSE s1
  /\ run' = [run EXCEPT !.pc = "close"]
  /\ UNCHANGED <<conn, pumpVars, hubMaps, eventVars, presence, stage, panic>>

\* Mutant: a client that leaves is still counted.
StillConnected(p, u) == p

\* presence.Disconnect keeps its count at zero or above.
Disconnected(p, u) == [p EXCEPT ![u] = IF @ > 0 THEN @ - 1 ELSE 0]

\* Mutant: the send channel is left open.
UnregisterKeepsOpen ==
  /\ run.pc = "close"
  /\ presence' = Disconnected(presence, UserOf[run.client])
  /\ run' = Idle
  /\ UNCHANGED <<conn, pumpVars, hubMaps, eventVars, subs, stage, panic>>

\* handleUnregister, close(client.send) and presence.Disconnect.
UnregisterClose ==
  LET c == run.client
  IN /\ run.pc = "close"
     /\ IF c \in closed
        THEN panic' = "close" /\ UNCHANGED <<closed, presence>>
        ELSE /\ closed' = closed \cup {c}
             /\ \E ok \in CallOutcomes :
                  presence' = IF ok THEN Disconnected(presence, UserOf[c])
                                    ELSE presence
             /\ UNCHANGED panic
     /\ run' = Idle
     /\ UNCHANGED <<conn, sockets, writing, queued, evictors, hubMaps,
                    eventVars, subs, stage>>

\* Mutant: the buffer's capacity is not looked at.
SendUnbounded(c, who) ==
  IF c \in closed
  THEN panic' = who /\ UNCHANGED <<queued, evictors>>
  ELSE queued' = [queued EXCEPT ![c] = @ + 1] /\ UNCHANGED <<evictors, panic>>

\* sendToClient and the body of notifyUserLocal's loop: the select either
\* sends, panics on a closed channel, or finds the buffer full and leaves the
\* client to a goroutine that will unregister it.
SendTo(c, who) ==
  IF c \in closed
  THEN panic' = who /\ UNCHANGED <<queued, evictors>>
  ELSE /\ IF queued[c] < clientSendBuffer
          THEN /\ queued' = [queued EXCEPT ![c] = @ + 1]
               /\ UNCHANGED evictors
          ELSE /\ evictors' = [evictors EXCEPT ![c] = @ + 1]
               /\ UNCHANGED queued
       /\ UNCHANGED panic

\* deliver, the snapshot of the channel's clients under RLock.  For a call
\* signal the filter on user ids leaves some of them out.
Deliver ==
  /\ run.pc = "select"
  /\ broadcast # <<>>
  /\ broadcast' = Tail(broadcast)
  /\ \E T \in SUBSET channels[Head(broadcast)] :
       run' = [Idle EXCEPT !.pc = IF T = {} THEN "select" ELSE "deliver",
                           !.targets = T]
  /\ UNCHANGED <<conn, pumpVars, hubMaps, spawned, notifying, events, subs,
                 presence, stage, panic>>

DeliverSend(c) ==
  /\ run.pc = "deliver"
  /\ c \in run.targets
  /\ SendTo(c, "deliver")
  /\ run' = IF run.targets = {c} THEN Idle
            ELSE [run EXCEPT !.targets = @ \ {c}]
  /\ UNCHANGED <<conn, sockets, writing, closed, hubMaps, eventVars, subs,
                 presence, stage>>

\* Mutant: Run waits for the clients to be gone.
RunReturnWhenEmpty ==
  /\ run.pc = "select"
  /\ ShuttingDown /\ Registered = {}
  /\ run' = [run EXCEPT !.pc = "returned"]
  /\ UNCHANGED <<conn, pumpVars, hubMaps, eventVars, subs, presence, stage, panic>>

\* Run returns.
RunReturn ==
  /\ run.pc = "select"
  /\ ShuttingDown
  /\ run' = [run EXCEPT !.pc = "returned"]
  /\ UNCHANGED <<conn, pumpVars, hubMaps, eventVars, subs, presence, stage, panic>>

-----------------------------------------------------------------------------
(* Events that reach the node through the broker's readLoop.  Messages     *)
(* already read from Redis are buffered by the client library: they may    *)
(* arrive for a topic that has just been unsubscribed, and after Close.    *)

\* readLoop on a channel topic: deliverLocal spawns enqueueBroadcast's
\* goroutine.
DeliverLocal(ch) ==
  /\ events < MaxEvents
  /\ events' = events + 1
  /\ spawned' = [spawned EXCEPT ![ch] = @ + 1]
  /\ UNCHANGED <<conn, pumpVars, hubMaps, broadcast, notifying, run, subs,
                 presence, stage, panic>>

\* The select of enqueueBroadcast: with room and done closed either case may
\* be picked; the default drops the event when the queue is full.
EnqueueBroadcast(ch) ==
  /\ spawned[ch] > 0
  /\ spawned' = [spawned EXCEPT ![ch] = @ - 1]
  /\ \/ /\ Len(broadcast) < broadcastBufferSize
        /\ broadcast' = Append(broadcast, ch)
     \/ /\ Len(broadcast) = broadcastBufferSize \/ ShuttingDown
        /\ UNCHANGED broadcast
  /\ UNCHANGED <<conn, pumpVars, hubMaps, notifying, events, run, subs,
                 presence, stage, panic>>

\* readLoop on a user topic: notifyUserLocal's snapshot under RLock.  The
\* loop reads the next message when it has served this one.
NotifyUser(u) ==
  /\ events < MaxEvents
  /\ notifying = {}
  /\ events' = events + 1
  /\ notifying' = {c \in Registered : UserOf[c] = u}
  /\ UNCHANGED <<conn, pumpVars, hubMaps, spawned, broadcast, run, subs,
                 presence, stage, panic>>

NotifySend(c) ==
  /\ c \in notifying
  /\ SendTo(c, "notify")
  /\ notifying' = notifying \ {c}
  /\ UNCHANGED <<conn, sockets, writing, closed, hubMaps, spawned, broadcast,
                 events, run, subs, presence, stage>>

-----------------------------------------------------------------------------
(* The pumps of a client.                                                  *)

\* readPump: a message is refused and sendClientError queues the answer, or
\* drops it when the buffer is full.  The socket may have been closed since
\* the message was read.
ClientError(c) ==
  /\ conn[c] = "open"
  /\ events < MaxEvents
  /\ events' = events + 1
  /\ IF c \in closed
     THEN panic' = "clientError" /\ UNCHANGED queued
     ELSE /\ queued' = [queued EXCEPT ![c] =
                          IF @ < clientSendBuffer THEN @ + 1 ELSE @]
          /\ UNCHANGED panic
  /\ UNCHANGED <<conn, sockets, writing, closed, evictors, hubMaps, spawned,
                 broadcast, notifying, run, subs, presence, stage>>

\* readPump ends: the peer closed, the pong deadline passed or the socket was
\* closed under it.  Its defer now waits in h.unregister <- c.
ReadPumpEnds(c) ==
  /\ conn[c] = "open"
  /\ conn' = [conn EXCEPT ![c] = "leaving"]
  /\ UNCHANGED <<pumpVars, hubMaps, eventVars, run, subs, presence, stage, panic>>

\* writePump writes one event of client.send.
WriteEvent(c) ==
  /\ c \in writing \cap sockets
  /\ queued[c] > 0
  /\ queued' = [queued EXCEPT ![c] = @ - 1]
  /\ UNCHANGED <<conn, sockets, writing, closed, evictors, hubMaps, eventVars,
                 run, subs, presence, stage, panic>>

\* writePump ends and closes the connection: the send channel is closed and
\* drained, or a write or a ping failed.
WritePumpEnds(c) ==
  /\ c \in writing
  /\ writing' = writing \ {c}
  /\ sockets' = sockets \ {c}
  /\ UNCHANGED <<conn, queued, closed, evictors, hubMaps, eventVars, run, subs,
                 presence, stage, panic>>

-----------------------------------------------------------------------------
(* main's shutdown: broker.Close(), close(h.done), then the sweep.         *)

BrokerClose ==
  /\ Signal
  /\ stage = "up"
  /\ stage' = "brokerClosed"
  /\ UNCHANGED <<conn, pumpVars, hubMaps, eventVars, run, subs, presence, panic>>

CloseDone ==
  /\ stage = "brokerClosed"
  /\ stage' = "done"
  /\ UNCHANGED <<conn, pumpVars, hubMaps, eventVars, run, subs, presence, panic>>

\* The presence tracker after Disconnect for every client of S.
DisconnectedAll(p, S) ==
  [u \in Users |-> LET n == Cardinality({c \in S : UserOf[c] = u})
                   IN IF p[u] > n THEN p[u] - n ELSE 0]

\* Mutant: the sweep leaves the closed clients in the maps.
SweepKeepsMaps ==
  /\ stage = "done"
  /\ stage' = "swept"
  /\ closed' = closed \cup Registered
  /\ presence' = DisconnectedAll(presence, Registered)
  /\ sockets' = sockets \ Registered
  /\ UNCHANGED <<conn, writing, queued, evictors, hubMaps, eventVars, run, subs, panic>>

\* The section of Shutdown under h.mu: every registered client is closed and
\* dropped from channels; the two connection counters are left as they are.
Sweep ==
  /\ stage = "done"
  /\ stage' = "swept"
  /\ IF Registered \cap closed # {}
     THEN panic' = "close" /\ UNCHANGED <<closed, presence, sockets, channels>>
     ELSE /\ closed' = closed \cup Registered
          /\ \E S \in IF Faults THEN SUBSET Registered ELSE {Registered} :
               presence' = DisconnectedAll(presence, S)
          /\ sockets' = sockets \ Registered
          /\ channels' = [ch \in Channels |-> {}]
          /\ UNCHANGED panic
  /\ UNCHANGED <<conn, writing, queued, evictors, userConnections,
                 ipConnections, eventVars, run, subs>>

-----------------------------------------------------------------------------

RunStep ==
  \/ \E c \in Clients : Register(c) \/ Unregister(c) \/ DeliverSend(c)
  \/ RegisterSubscribe \/ RegisterConnect
  \/ UnregisterUnsubscribe \/ UnregisterClose
  \/ Deliver \/ RunReturn

Next ==
  /\ panic = "none"
  /\ \/ \E c \in Clients :
          \/ Check(c) \/ Refuse(c) \/ Upgrade(c)
          \/ NotifySend(c) \/ ClientError(c)
          \/ ReadPumpEnds(c) \/ WriteEvent(c) \/ WritePumpEnds(c)
     \/ RunStep
     \/ \E ch \in Channels : DeliverLocal(ch) \/ EnqueueBroadcast(ch)
     \/ \E u \in Users : NotifyUser(u)
     \/ BrokerClose \/ CloseDone \/ Sweep

Spec == Init /\ [][Next]_vars

\* Fairness.  Go runs every ready goroutine, so a step of the Run loop that
\* waits for nobody, and a pump that has something to do, is taken in the
\* end.  A select picks at random among the ready cases and a channel serves
\* its senders in order, so a sender that waits again and again for the Run
\* loop is received (strong fairness).  Nothing runs after a panic.
RunHandler ==
  \/ RegisterSubscribe \/ RegisterConnect
  \/ UnregisterUnsubscribe \/ UnregisterClose
  \/ \E c \in Clients : DeliverSend(c)

WriterMustEnd(c) == c \notin sockets \/ (c \in closed /\ queued[c] = 0)

Alive == panic = "none"

Fairness ==
  /\ WF_vars(Alive /\ RunHandler)
  /\ SF_vars(Alive /\ RunReturn)
  /\ \A c \in Clients :
       /\ SF_vars(Alive /\ Unregister(c))
       /\ WF_vars(Alive /\ WriteEvent(c))
       /\ WF_vars(Alive /\ WriterMustEnd(c) /\ WritePumpEnds(c))
       /\ WF_vars(Alive /\ c \notin sockets /\ ReadPumpEnds(c))

FairSpec == Spec /\ Fairness

-----------------------------------------------------------------------------
(* Properties.                                                             *)

ClientsOf(u) == {c \in Registered : UserOf[c] = u}
ClientsAt(i) == {c \in Registered : IPOf[c] = i}

\* The connection counters that CanConnect reads are the number of clients in
\* the channel maps, for every user and every address, until the shutdown
\* sweep (which empties the maps and not the counters), whatever evictions,
\* peers that leave and repeated unregistrations interleave.
ConnectionCounts ==
  stage # "swept" =>
    /\ \A u \in Users : userConnections[u] = Cardinality(ClientsOf(u))
    /\ \A i \in IPs : ipConnections[i] = Cardinality(ClientsAt(i))

\* CanConnect is checked long before the register that counts the client, so
\* the limits can be exceeded; but never by more than the other requests that
\* were in their handshake at the same time.
LimitOvershoot ==
  /\ MaxConnectionsPerUser > 0 =>
       \A u \in Users : Cardinality(ClientsOf(u)) + 1
                          <= MaxConnectionsPerUser + Handshakes
  /\ MaxConnectionsPerIP > 0 =>
       \A i \in IPs : Cardinality(ClientsAt(i)) + 1
                        <= MaxConnectionsPerIP + Handshakes

\* Between two handlers of the Run loop and before the sweep, the broker holds
\* at most one reference for a topic and none for a channel or user without
\* clients; if no Redis call can fail it holds one for each that has some.
SubscriptionsTrackClients ==
  run.pc \notin Handlers /\ stage # "swept" =>
    /\ \A ch \in Channels : subs[ch] <= 1 /\ (channels[ch] = {} => subs[ch] = 0)
    /\ \A u \in Users : subs[u] <= 1 /\ (ClientsOf(u) = {} => subs[u] = 0)
    /\ ~Faults /\ stage = "up" =>
         /\ \A ch \in Channels : channels[ch] # {} => subs[ch] = 1
         /\ \A u \in Users : ClientsOf(u) # {} => subs[u] = 1

\* As long as its calls succeed, the presence tracker counts the connections
\* the hub has: Connect and Disconnect are paired once for each client even
\* when an eviction and the readPump both unregister it.
PresenceTracksClients ==
  ~Faults /\ stage # "swept" /\ run.pc \notin Handlers =>
    \A u \in Users : presence[u] = Cardinality(ClientsOf(u))

\* The Run loop, which alone closes send channels until the sweep, never
\* closes one twice, and deliver never sends on a closed one before the sweep:
\* its snapshot cannot go stale because it runs in the same goroutine.
RunLoopDoesNotPanic ==
  /\ panic # "close"
  /\ panic = "deliver" => stage = "swept"

\* A client that was unregistered or swept never gets back into the maps, and
\* its channel stays closed: no later event is delivered to it.
ClosedIsFinal ==
  [][\A c \in closed : c \in closed' /\ c \notin Registered']_vars

\* A client whose buffer was found full is dropped from the hub, unless the
\* node shuts down or panics first.
SlowClientIsDropped ==
  \A c \in Clients :
    evictors[c] > 0 ~> (c \in closed \/ ShuttingDown \/ ~Alive)

\* A registered client whose connection is gone leaves the maps and frees its
\* place in the limits, whichever pump noticed first.
DeadConnectionLeaves ==
  \A c \in Clients :
    (c \in Registered /\ c \notin sockets)
      ~> (c \notin Registered \/ ShuttingDown \/ ~Alive)

\* A client the hub has unregistered is hung up on: its writePump drains the
\* closed channel and closes the connection.
UnregisteredIsHungUp ==
  \A c \in Clients : c \in closed ~> (c \notin sockets \/ ~Alive)

\* Nobody stays by being slow or dead: the three above, for every client.
ClientsLeave == SlowClientIsDropped /\ DeadConnectionLeaves /\ UnregisteredIsHungUp

\* After close(h.done) the Run loop returns.
ShutdownStopsRun == ShuttingDown ~> (run.pc = "returned" \/ ~Alive)

-----------------------------------------------------------------------------
(* The inductive invariants of the proofs in HubProofs.                    *)

\* A client is in the map of its own channel only, and not before its register.
Placed ==
  /\ \A ch \in Channels : \A c \in channels[ch] : ChannelOf[c] = ch
  /\ \A c \in Clients :
       conn[c] \in BeforeRegister => c \notin Registered

\* The counters never fall behind the maps, not even after the sweep.
CountsCover ==
  /\ \A u \in Users : Cardinality(ClientsOf(u)) <= userConnections[u]
  /\ \A i \in IPs : Cardinality(ClientsAt(i)) <= ipConnections[i]

\* The requests in their handshake have their places too.
Admission ==
  /\ MaxConnectionsPerUser > 0 => \A u \in Users :
       Cardinality(ClientsOf(u)) + Cardinality({c \in InHandshake : UserOf[c] = u}) + 1
         <= MaxConnectionsPerUser + Handshakes
  /\ MaxConnectionsPerIP > 0 => \A i \in IPs :
       Cardinality(ClientsAt(i)) + Cardinality({c \in InHandshake : IPOf[c] = i}) + 1
         <= MaxConnectionsPerIP + Handshakes

CountInv == Placed /\ CountsCover /\ ConnectionCounts /\ Admission

\* Who may be sent to and who may be closed: the maps hold no closed client,
\* the client being unregistered is out of them and not closed yet, and the
\* targets of deliver are open until the sweep.
CloseInv ==
  /\ Registered \cap closed = {}
  /\ \A c \in Clients :
       conn[c] \in BeforeRegister => c \notin Registered \cup closed
  /\ run.pc \in {"unsubscribe", "close"} =>
       /\ run.client \notin Registered \cup closed
       /\ conn[run.client] \notin BeforeRegister
  /\ run.pc = "deliver" /\ stage # "swept" => run.targets \cap closed = {}
  /\ RunLoopDoesNotPanic

\* A client that the Run loop has put into the maps and not yet told presence
\* of, and one that it has taken out.
Arriving(u) == IF run.pc \in {"subscribe", "connect"} /\ UserOf[run.client] = u THEN 1 ELSE 0
Departing(u) == IF run.pc \in {"unsubscribe", "close"} /\ UserOf[run.client] = u THEN 1 ELSE 0

PresenceInv ==
  ~Faults /\ stage # "swept" =>
    \A u \in Users : presence[u] + Arriving(u) = Cardinality(ClientsOf(u)) + Departing(u)

\* The topics of the registered clients, and those that the Run loop is about
\* to subscribe to or to unsubscribe from, which only the first client brings
\* and the last one takes along.
HasClients(t) == \E c \in Registered : t \in {ChannelOf[c], UserOf[c]}
Changing(t) ==
  /\ run.pc \in {"subscribe", "unsubscribe"}
  /\ \/ run.first /\ t = ChannelOf[run.client]
     \/ run.firstUser /\ t = UserOf[run.client]

TopicOK(t) ==
  IF Changing(t)
  THEN IF run.pc = "subscribe"
       THEN HasClients(t) /\ subs[t] = 0
       ELSE ~HasClients(t) /\ subs[t] <= 1
  ELSE IF HasClients(t)
       THEN subs[t] = 1 \/ (subs[t] = 0 /\ (Faults \/ stage # "up"))
       ELSE subs[t] = 0

SubsInv == stage # "swept" => \A t \in Topics : TopicOK(t)

=============================================================================
