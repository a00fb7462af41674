------------------------------ MODULE HubProofs ------------------------------
(***************************************************************************)
(* Proofs about Hub, for any number of clients, users, addresses, channels *)
(* and events, any limits and any buffer sizes.                            *)
(***************************************************************************)
EXTENDS Hub, FiniteSetTheorems, TLAPS

USE HubAssumption

-----------------------------------------------------------------------------
(* Type correctness.                                                       *)

LEMMA TypeInit == Init => TypeOK
  BY DEF Init, TypeOK, RunType, Handlers, Panics, Idle, Topics, Phases

\* What sendClientError does to the buffer of its client.
LEMMA TypeClientError ==
  ASSUME queued \in [Clients -> 0..clientSendBuffer],
         NEW c \in Clients, ClientError(c)
  PROVE  queued' \in [Clients -> 0..clientSendBuffer]
  <1> DEFINE v == IF queued[c] < clientSendBuffer THEN queued[c] + 1 ELSE queued[c]
  <1>1. queued' = queued \/ queued' = [queued EXCEPT ![c] = v]
    BY DEF ClientError
  <1>2. v \in 0..clientSendBuffer
    OBVIOUS
  <1> HIDE DEF v
  <1> QED BY <1>1, <1>2

\* What enqueueBroadcast does to the queue.
LEMMA TypeEnqueue ==
  ASSUME broadcast \in Seq(Channels), NEW ch \in Channels, EnqueueBroadcast(ch)
  PROVE  broadcast' \in Seq(Channels)
  <1>1. broadcast' = Append(broadcast, ch) \/ broadcast' = broadcast
    BY DEF EnqueueBroadcast
  <1> QED BY <1>1

\* Steps of the upgrade handler and of the pumps keep TypeOK.
LEMMA TypeEdge ==
  ASSUME TypeOK, NEW c \in Clients,
         \/ Check(c) \/ Refuse(c) \/ Upgrade(c) \/ ClientError(c)
         \/ ReadPumpEnds(c) \/ WriteEvent(c) \/ WritePumpEnds(c)
  PROVE  TypeOK'
  <1> USE DEF TypeOK, RunType, Phases, pumpVars, hubMaps, eventVars
  <1>1. CASE Check(c) BY <1>1 DEF Check
  <1>2. CASE Refuse(c) BY <1>2 DEF Refuse
  <1>3. CASE Upgrade(c) BY <1>3 DEF Upgrade
  <1>4. CASE ClientError(c)
    <2>2. queued' \in [Clients -> 0..clientSendBuffer]
      BY <1>4, TypeClientError
    <2>3. panic' \in Panics
      BY <1>4 DEF ClientError, Panics
    <2>4. events' \in Nat
      BY <1>4 DEF ClientError
    <2> QED BY <1>4, <2>2, <2>3, <2>4 DEF ClientError
  <1>5. CASE ReadPumpEnds(c) BY <1>5 DEF ReadPumpEnds
  <1>6. CASE WriteEvent(c) BY SMTT(30), <1>6 DEF WriteEvent
  <1>7. CASE WritePumpEnds(c) BY <1>7 DEF WritePumpEnds
  <1> QED BY <1>1, <1>2, <1>3, <1>4, <1>5, <1>6, <1>7

\* What one send of deliver or notifyUserLocal does to the client it serves.
LEMMA TypeSendTo ==
  ASSUME queued \in [Clients -> 0..clientSendBuffer],
         evictors \in [Clients -> Nat], panic \in Panics,
         NEW c \in Clients, NEW who \in Panics, SendTo(c, who)
  PROVE  /\ queued' \in [Clients -> 0..clientSendBuffer]
         /\ evictors' \in [Clients -> Nat]
         /\ panic' \in Panics
  <1>1. CASE c \in closed BY <1>1 DEF SendTo
  <1>2. CASE c \notin closed /\ queued[c] < clientSendBuffer
    <2>1. queued[c] + 1 \in 0..clientSendBuffer BY <1>2
    <2>2. /\ queued' = [queued EXCEPT ![c] = queued[c] + 1]
          /\ evictors' = evictors
          /\ panic' = panic
      BY <1>2 DEF SendTo
    <2> QED BY <2>1, <2>2
  <1>3. CASE c \notin closed /\ ~(queued[c] < clientSendBuffer)
    BY <1>3 DEF SendTo
  <1> QED BY <1>1, <1>2, <1>3

\* The topic counters stay counters.
LEMMA TypeSubs ==
  ASSUME NEW s \in [Topics -> Nat], NEW t \in Topics, NEW ok \in BOOLEAN
  PROVE  /\ EnsureSubscribed(s, t, ok) \in [Topics -> Nat]
         /\ MaybeUnsubscribe(s, t) \in [Topics -> Nat]
  BY DEF EnsureSubscribed, MaybeUnsubscribe

\* The topics of a client.
LEMMA ClientTopics ==
  ASSUME NEW c \in Clients
  PROVE  ChannelOf[c] \in Topics /\ UserOf[c] \in Topics
  BY DEF Topics

\* Steps of the Run loop keep TypeOK.
LEMMA TypeRun == ASSUME TypeOK, RunStep PROVE TypeOK'
  <1> USE DEF TypeOK, pumpVars, hubMaps, eventVars
  <1>1. ASSUME NEW c \in Clients, Register(c) PROVE TypeOK'
    <2>1. conn' \in [Clients -> Phases] /\ writing' \in SUBSET Clients
      BY <1>1 DEF Register, Phases
    <2>2. /\ channels' \in [Channels -> SUBSET Clients]
          /\ userConnections' \in [Users -> Nat]
          /\ ipConnections' \in [IPs -> Nat]
      BY SMTT(30), <1>1 DEF Register
    <2>3. RunType'
      BY <1>1 DEF Register, RunType, Idle, Handlers
    <2> QED BY <1>1, <2>1, <2>2, <2>3 DEF Register
  <1>2. ASSUME NEW c \in Clients, Unregister(c) PROVE TypeOK'
    <2>1. conn' \in [Clients -> Phases] /\ sockets' \in SUBSET Clients
          /\ evictors' \in [Clients -> Nat]
      <3>1. CASE conn[c] = "leaving" /\ conn' = [conn EXCEPT ![c] = "left"]
                 /\ sockets' = sockets \ {c} /\ UNCHANGED evictors
        BY <3>1 DEF Phases
      <3>2. CASE evictors[c] > 0 /\ evictors' = [evictors EXCEPT ![c] = @ - 1]
                 /\ UNCHANGED <<conn, sockets>>
        BY <3>2
      <3> QED BY <1>2, <3>1, <3>2 DEF Unregister, Sender
    <2>2. CASE StaleUnregister(c)
      <3>1. UNCHANGED <<channels, userConnections, ipConnections, run>>
        BY <1>2, <2>2 DEF Unregister
      <3>2. RunType' BY <3>1 DEF RunType
      <3> QED BY <1>2, <2>1, <3>1, <3>2 DEF Unregister
    <2>3. CASE ~StaleUnregister(c)
      <3>1. channels' = [channels EXCEPT ![ChannelOf[c]] = @ \ {c}]
        BY <1>2, <2>3 DEF Unregister
      <3>2. channels' \in [Channels -> SUBSET Clients]
        BY <3>1
      <3>3. userConnections' = [userConnections EXCEPT ![UserOf[c]] =
                                  IF @ > 0 THEN @ - 1 ELSE 0]
        BY <1>2, <2>3 DEF Unregister
      <3>4. userConnections' \in [Users -> Nat]
        BY <3>3
      <3>5. ipConnections' = [ipConnections EXCEPT ![IPOf[c]] =
                                IF @ > 0 THEN @ - 1 ELSE 0]
        BY <1>2, <2>3 DEF Unregister
      <3>6. ipConnections' \in [IPs -> Nat]
        BY <3>5
      <3> DEFINE f == channels[ChannelOf[c]] = {c}
                 g == userConnections[UserOf[c]] <= 1
      <3>7. run' = [Idle EXCEPT !.pc = "unsubscribe", !.client = c,
                                !.first = f, !.firstUser = g]
        BY <1>2, <2>3 DEF Unregister
      <3>8. f \in BOOLEAN /\ g \in BOOLEAN OBVIOUS
      <3> HIDE DEF f, g
      <3>9. RunType' BY <3>7, <3>8 DEF RunType, Idle, Handlers
      <3> QED BY <1>2, <2>1, <3>2, <3>4, <3>6, <3>9 DEF Unregister
    <2> QED BY <2>2, <2>3
  <1>3. ASSUME NEW c \in Clients, DeliverSend(c) PROVE TypeOK'
    <2>1. /\ queued' \in [Clients -> 0..clientSendBuffer]
          /\ evictors' \in [Clients -> Nat]
          /\ panic' \in Panics
      BY <1>3, TypeSendTo DEF DeliverSend, Panics
    <2>2. RunType' BY <1>3 DEF DeliverSend, RunType, Idle, Handlers
    <2> QED BY <1>3, <2>1, <2>2 DEF DeliverSend
  <1>4. CASE RegisterSubscribe
    <2>1. run.client \in Clients
      BY <1>4 DEF RegisterSubscribe, RunType, Handlers
    <2>2. SubscribeOutcomes \subseteq BOOLEAN
      BY DEF SubscribeOutcomes
    <2>3. subs' \in [Topics -> Nat]
      <3> DEFINE s1(ok) == IF run.first
                           THEN EnsureSubscribed(subs, ChannelOf[run.client], ok)
                           ELSE subs
      <3>1. PICK ok1, ok2 \in BOOLEAN :
               subs' = IF run.firstUser
                       THEN EnsureSubscribed(s1(ok1), UserOf[run.client], ok2)
                       ELSE s1(ok1)
        BY <1>4, <2>2 DEF RegisterSubscribe
      <3>2. s1(ok1) \in [Topics -> Nat]
        BY <2>1, TypeSubs, ClientTopics
      <3> HIDE DEF s1
      <3> QED BY <2>1, <3>1, <3>2, TypeSubs, ClientTopics
    <2>4. RunType' BY <1>4, <2>1 DEF RegisterSubscribe, RunType, Handlers
    <2> QED BY <1>4, <2>3, <2>4 DEF RegisterSubscribe
  <1>5. CASE RegisterConnect
    <2>1. run.client \in Clients
      BY <1>5 DEF RegisterConnect, RunType, Handlers
    <2>2. presence' \in [Users -> Nat]
      BY SMTT(30), <1>5, <2>1 DEF RegisterConnect
    <2>3. RunType' BY <1>5 DEF RegisterConnect, RunType, Idle, Handlers
    <2> QED BY <1>5, <2>2, <2>3 DEF RegisterConnect
  <1>6. CASE UnregisterUnsubscribe
    <2>1. run.client \in Clients
      BY <1>6 DEF UnregisterUnsubscribe, RunType, Handlers
    <2>2. subs' \in [Topics -> Nat]
      BY <1>6, <2>1, TypeSubs, ClientTopics DEF UnregisterUnsubscribe
    <2>3. RunType' BY <1>6, <2>1 DEF UnregisterUnsubscribe, RunType, Handlers
    <2> QED BY <1>6, <2>2, <2>3 DEF UnregisterUnsubscribe
  <1>7. CASE UnregisterClose
    <2>1. run.client \in Clients
      BY <1>7 DEF UnregisterClose, RunType, Handlers
    <2>2. presence' \in [Users -> Nat]
      BY <1>7, <2>1 DEF UnregisterClose, Disconnected
    <2>3. closed' \in SUBSET Clients /\ panic' \in Panics
      BY <1>7, <2>1 DEF UnregisterClose, Panics
    <2>4. RunType' BY <1>7 DEF UnregisterClose, RunType, Idle, Handlers
    <2> QED BY <1>7, <2>2, <2>3, <2>4 DEF UnregisterClose
  <1>8. CASE Deliver
    <2>1. Head(broadcast) \in Channels /\ broadcast' \in Seq(Channels)
      BY <1>8 DEF Deliver
    <2>2. channels[Head(broadcast)] \subseteq Clients BY <2>1
    <2>3. RunType'
      <3>1. PICK T \in SUBSET Clients :
               run' = [Idle EXCEPT !.pc = IF T = {} THEN "select" ELSE "deliver", !.targets = T]
        BY <1>8, <2>2 DEF Deliver
      <3>2. CASE T = {} BY <3>1, <3>2 DEF RunType, Idle, Handlers
      <3>3. CASE T # {} BY <3>1, <3>3 DEF RunType, Idle, Handlers
      <3> QED BY <3>2, <3>3
    <2> QED BY <1>8, <2>1, <2>3 DEF Deliver
  <1>9. CASE RunReturn
    <2>1. RunType' BY <1>9 DEF RunReturn, RunType, Handlers
    <2> QED BY <1>9, <2>1 DEF RunReturn
  <1> QED BY <1>1, <1>2, <1>3, <1>4, <1>5, <1>6, <1>7, <1>8, <1>9 DEF RunStep

\* Events that arrive and steps of the shutdown keep TypeOK.
LEMMA TypeOutside ==
  ASSUME TypeOK,
         \/ \E c \in Clients : NotifySend(c)
         \/ \E ch \in Channels : DeliverLocal(ch) \/ EnqueueBroadcast(ch)
         \/ \E u \in Users : NotifyUser(u)
         \/ BrokerClose \/ CloseDone \/ Sweep
  PROVE  TypeOK'
  <1> USE DEF TypeOK, RunType, pumpVars, hubMaps, eventVars
  <1>1. ASSUME NEW c \in Clients, NotifySend(c) PROVE TypeOK'
    <2>1. /\ queued' \in [Clients -> 0..clientSendBuffer]
          /\ evictors' \in [Clients -> Nat]
          /\ panic' \in Panics
      BY <1>1, TypeSendTo DEF NotifySend, Panics
    <2> QED BY <1>1, <2>1 DEF NotifySend
  <1>2. ASSUME NEW ch \in Channels, DeliverLocal(ch) PROVE TypeOK'
    <2>1. spawned' \in [Channels -> Nat] BY SMTT(30), <1>2 DEF DeliverLocal
    <2>2. events' \in Nat BY <1>2 DEF DeliverLocal
    <2> QED BY <1>2, <2>1, <2>2 DEF DeliverLocal
  <1>3. ASSUME NEW ch \in Channels, EnqueueBroadcast(ch) PROVE TypeOK'
    <2>2. spawned' \in [Channels -> Nat] BY SMTT(30), <1>3 DEF EnqueueBroadcast
    <2>3. broadcast' \in Seq(Channels) BY <1>3, TypeEnqueue
    <2> QED BY <1>3, <2>2, <2>3 DEF EnqueueBroadcast
  <1>4. ASSUME NEW u \in Users, NotifyUser(u) PROVE TypeOK'
    <2>1. Registered \subseteq Clients BY DEF Registered
    <2>2. notifying' \in SUBSET Clients BY <1>4, <2>1 DEF NotifyUser
    <2>3. events' \in Nat BY <1>4 DEF NotifyUser
    <2> QED BY <1>4, <2>2, <2>3 DEF NotifyUser
  <1>5. CASE BrokerClose BY <1>5 DEF BrokerClose
  <1>6. CASE CloseDone BY <1>6 DEF CloseDone
  <1>7. CASE Sweep
    <2>1. Registered \subseteq Clients BY DEF Registered
    <2>2. /\ closed' \in SUBSET Clients /\ sockets' \in SUBSET Clients
          /\ channels' \in [Channels -> SUBSET Clients] /\ panic' \in Panics
      BY <1>7, <2>1 DEF Sweep, Panics
    <2>3. ASSUME NEW S \in SUBSET Clients
          PROVE  DisconnectedAll(presence, S) \in [Users -> Nat]
      <3>1. ASSUME NEW u \in Users
            PROVE  Cardinality({c \in S : UserOf[c] = u}) \in Nat
        BY FS_Subset, FS_CardinalityType
      <3>2. ASSUME NEW u \in Users, NEW n \in Nat
            PROVE  (IF presence[u] > n THEN presence[u] - n ELSE 0) \in Nat
        OBVIOUS
      <3> QED BY <3>1, <3>2 DEF DisconnectedAll
    <2>4. presence' \in [Users -> Nat]
      BY <1>7, <2>1, <2>3 DEF Sweep
    <2> QED BY <1>7, <2>2, <2>4 DEF Sweep
  <1> QED BY <1>1, <1>2, <1>3, <1>4, <1>5, <1>6, <1>7

LEMMA TypeStep == TypeOK /\ [Next]_vars => TypeOK'
  <1> SUFFICES ASSUME TypeOK, [Next]_vars PROVE TypeOK'
    OBVIOUS
  <1>1. CASE UNCHANGED vars
    BY <1>1 DEF vars, TypeOK, RunType
  <1>2. CASE Next
    BY <1>2, TypeEdge, TypeRun, TypeOutside DEF Next
  <1> QED BY <1>1, <1>2

\* Every variable keeps its type: in particular no counter of connections,
\* subscriptions or presence goes below zero and no send buffer grows over
\* clientSendBuffer.
THEOREM TypeCorrect == Spec => []TypeOK
  BY TypeInit, TypeStep, PTL DEF Spec

-----------------------------------------------------------------------------
(* Counting the clients of a user or of an address.                        *)

\* The members of S whose field f is t.
CountBy(S, f, t) == Cardinality({c \in S : f[c] = t})

LEMMA CountType ==
  ASSUME NEW S \in SUBSET Clients, NEW f, NEW t
  PROVE  CountBy(S, f, t) \in Nat
  BY FS_Subset, FS_CardinalityType DEF CountBy

LEMMA CountAdd ==
  ASSUME NEW S \in SUBSET Clients, NEW f, NEW t, NEW c \in Clients, c \notin S
  PROVE  CountBy(S \cup {c}, f, t) = CountBy(S, f, t) + (IF f[c] = t THEN 1 ELSE 0)
  <1> DEFINE A == {x \in S : f[x] = t}
             B == {x \in S \cup {c} : f[x] = t}
  <1>1. IsFiniteSet(A) /\ c \notin A
    BY FS_Subset
  <1>2. /\ CountBy(S, f, t) = Cardinality(A)
        /\ CountBy(S \cup {c}, f, t) = Cardinality(B)
    BY DEF CountBy
  <1>3. CASE f[c] = t
    <2>1. B = A \cup {c} BY <1>3
    <2>2. Cardinality(B) = Cardinality(A) + 1 BY <1>1, <2>1, FS_AddElement
    <2> QED BY <1>2, <1>3, <2>2
  <1>4. CASE f[c] # t
    <2>1. B = A BY <1>4
    <2>2. Cardinality(A) \in Nat BY <1>1, FS_CardinalityType
    <2> HIDE DEF A, B
    <2> QED BY <1>2, <1>4, <2>1, <2>2
  <1> QED BY <1>3, <1>4

LEMMA CountRemove ==
  ASSUME NEW S \in SUBSET Clients, NEW f, NEW t, NEW c \in S
  PROVE  CountBy(S, f, t) = CountBy(S \ {c}, f, t) + (IF f[c] = t THEN 1 ELSE 0)
  <1>1. S \ {c} \in SUBSET Clients /\ c \in Clients /\ c \notin S \ {c}
    OBVIOUS
  <1>2. (S \ {c}) \cup {c} = S
    OBVIOUS
  <1> QED BY <1>1, <1>2, CountAdd

LEMMA CountEmpty ==
  ASSUME NEW f, NEW t
  PROVE  CountBy({}, f, t) = 0
  <1>1. {c \in {} : f[c] = t} = {} OBVIOUS
  <1> QED BY <1>1, FS_EmptySet DEF CountBy

LEMMA CountShrink ==
  ASSUME NEW S \in SUBSET Clients, NEW T \in SUBSET S, NEW f, NEW t
  PROVE  CountBy(T, f, t) <= CountBy(S, f, t)
  <1>1. /\ {c \in T : f[c] = t} \in SUBSET {c \in S : f[c] = t}
        /\ IsFiniteSet({c \in S : f[c] = t})
    BY FS_Subset
  <1> QED BY <1>1, FS_Subset DEF CountBy

LEMMA CountAtMost ==
  ASSUME NEW S \in SUBSET Clients, NEW f, NEW t
  PROVE  CountBy(S, f, t) <= Cardinality(S)
  <1>1. {c \in S : f[c] = t} \in SUBSET S /\ IsFiniteSet(S)
    BY FS_Subset
  <1> QED BY <1>1, FS_Subset DEF CountBy

\* The invariant in terms of CountBy.
CountForm ==
  /\ Placed
  /\ \A u \in Users : CountBy(Registered, UserOf, u) <= userConnections[u]
  /\ \A i \in IPs : CountBy(Registered, IPOf, i) <= ipConnections[i]
  /\ stage # "swept" =>
       /\ \A u \in Users : userConnections[u] = CountBy(Registered, UserOf, u)
       /\ \A i \in IPs : ipConnections[i] = CountBy(Registered, IPOf, i)
  /\ MaxConnectionsPerUser > 0 => \A u \in Users :
       CountBy(Registered, UserOf, u) + CountBy(InHandshake, UserOf, u) + 1
         <= MaxConnectionsPerUser + Handshakes
  /\ MaxConnectionsPerIP > 0 => \A i \in IPs :
       CountBy(Registered, IPOf, i) + CountBy(InHandshake, IPOf, i) + 1
         <= MaxConnectionsPerIP + Handshakes

LEMMA CountInvForm == (CountInv <=> CountForm) /\ (CountInv' <=> CountForm')
  BY DEF CountInv, CountForm, CountsCover, ConnectionCounts, Admission, CountBy,
         ClientsOf, ClientsAt

LEMMA RegisteredType == ASSUME TypeOK PROVE Registered \in SUBSET Clients
  BY DEF TypeOK, Registered

LEMMA InHandshakeType == InHandshake \in SUBSET Clients
  BY DEF InHandshake

\* Whether a client is registered shows in the map of its channel.
LEMMA RegisteredAtHome ==
  ASSUME TypeOK, Placed, NEW c \in Clients
  PROVE  c \in Registered <=> c \in channels[ChannelOf[c]]
  BY DEF TypeOK, Placed, Registered

-----------------------------------------------------------------------------
(* The counters of connections and the admission.                          *)

LEMMA CountInit == Init => CountInv
  <1> SUFFICES ASSUME Init PROVE CountInv
    OBVIOUS
  <1>1. Registered = {} /\ InHandshake = {}
    BY DEF Init, Registered, InHandshake
  <1>2. Placed
    BY <1>1 DEF Init, Placed
  <1> QED BY <1>1, <1>2, CountInvForm, CountEmpty DEF Init, CountForm

\* Steps that touch neither the requests, the maps, the counters nor the stage.
LEMMA CountFrame ==
  ASSUME CountInv,
         UNCHANGED <<conn, channels, userConnections, ipConnections, stage>>
  PROVE  CountInv'
  BY DEF CountInv, Placed, CountsCover, ConnectionCounts, Admission,
         ClientsOf, ClientsAt, Registered, InHandshake

\* The admission check: the other handshakes take fewer than Handshakes places
\* and the clients counted for the user or the address fewer than the limit.
LEMMA CountCheck ==
  ASSUME TypeOK, CountInv, NEW c \in Clients, Check(c)
  PROVE  CountInv'
  <1> USE CountInvForm DEF CountForm
  <1>1. Registered' = Registered
    BY DEF Check, hubMaps, Registered
  <1>2. InHandshake' = InHandshake \cup {c} /\ c \notin InHandshake
    BY DEF Check, TypeOK, InHandshake
  <1>3. UNCHANGED <<userConnections, ipConnections, stage, channels>>
    BY DEF Check, hubMaps
  <1>4. Placed'
    BY <1>1, <1>3 DEF Check, TypeOK, Placed, BeforeRegister
  <1>5. Cardinality(InHandshake) \in Nat /\ Cardinality(InHandshake) < Handshakes
    BY InHandshakeType, FS_Subset, FS_CardinalityType DEF Check
  <1>6. ASSUME NEW f, NEW t
        PROVE  /\ CountBy(Registered, f, t) \in Nat
               /\ CountBy(InHandshake, f, t) \in Nat
               /\ CountBy(InHandshake, f, t) < Handshakes
               /\ CountBy(InHandshake', f, t)
                    = CountBy(InHandshake, f, t) + (IF f[c] = t THEN 1 ELSE 0)
    BY <1>2, <1>5, RegisteredType, InHandshakeType, CountType, CountAdd, CountAtMost
  <1>7. ASSUME MaxConnectionsPerUser > 0, NEW u \in Users
        PROVE  CountBy(Registered, UserOf, u) + CountBy(InHandshake', UserOf, u) + 1
                 <= MaxConnectionsPerUser + Handshakes
    <2>1. UserOf[c] = u => CountBy(Registered, UserOf, u) < MaxConnectionsPerUser
      BY <1>6, <1>7 DEF Check, CanConnect, TypeOK
    <2> QED BY <1>6, <1>7, <2>1
  <1>8. ASSUME MaxConnectionsPerIP > 0, NEW i \in IPs
        PROVE  CountBy(Registered, IPOf, i) + CountBy(InHandshake', IPOf, i) + 1
                 <= MaxConnectionsPerIP + Handshakes
    <2>1. IPOf[c] = i => CountBy(Registered, IPOf, i) < MaxConnectionsPerIP
      BY <1>6, <1>8 DEF Check, CanConnect, TypeOK
    <2> QED BY <1>6, <1>8, <2>1
  <1> QED BY <1>1, <1>3, <1>4, <1>7, <1>8

\* A handshake that goes on or is refused, and a readPump that ends.
LEMMA CountHandshake ==
  ASSUME TypeOK, CountInv, NEW c \in Clients,
         Refuse(c) \/ Upgrade(c) \/ ReadPumpEnds(c)
  PROVE  CountInv'
  <1> USE CountInvForm DEF CountForm
  <1>1. /\ UNCHANGED <<userConnections, ipConnections, stage, channels>>
        /\ Registered' = Registered
    BY DEF Refuse, Upgrade, ReadPumpEnds, hubMaps, Registered
  <1>2. Placed'
    BY <1>1 DEF Refuse, Upgrade, ReadPumpEnds, TypeOK, Placed, BeforeRegister
  <1>3. InHandshake' \in SUBSET InHandshake
    BY DEF Refuse, Upgrade, ReadPumpEnds, TypeOK, InHandshake
  <1>4. ASSUME NEW f, NEW t
        PROVE  /\ CountBy(Registered, f, t) \in Nat
               /\ CountBy(InHandshake, f, t) \in Nat
               /\ CountBy(InHandshake', f, t) \in Nat
               /\ CountBy(InHandshake', f, t) <= CountBy(InHandshake, f, t)
    <2>1. InHandshake' \in SUBSET Clients BY <1>3, InHandshakeType
    <2> QED BY <1>3, <2>1, RegisteredType, InHandshakeType, CountType, CountShrink
  <1> QED BY <1>1, <1>2, <1>4

\* What handleRegister does to the set of registered clients.
LEMMA RegisterAdds ==
  ASSUME TypeOK, Placed, NEW c \in Clients, Register(c)
  PROVE  Registered' = Registered \cup {c} /\ c \notin Registered
  <1>1. c \notin Registered
    BY DEF Register, Placed, BeforeRegister
  <1>2. \A ch \in Channels :
          channels'[ch] = IF ch = ChannelOf[c] THEN channels[ch] \cup {c}
                          ELSE channels[ch]
    BY DEF Register, TypeOK
  <1>3. ChannelOf[c] \in Channels
    OBVIOUS
  <1>4. \A x : x \in Registered <=> \E ch \in Channels : x \in channels[ch]
    BY DEF Registered
  <1>5. \A x : x \in Registered' <=> \E ch \in Channels : x \in channels'[ch]
    BY DEF Registered
  <1>6. ASSUME NEW x PROVE x \in Registered' <=> x \in Registered \cup {c}
    <2>1. ASSUME x \in Registered' PROVE x \in Registered \cup {c}
      <3>1. PICK ch \in Channels : x \in channels'[ch] BY <1>5, <2>1
      <3>2. channels'[ch] \subseteq channels[ch] \cup {c} BY <1>2
      <3>3. x \in channels[ch] \/ x = c BY <3>1, <3>2
      <3> QED BY <1>4, <3>3
    <2>2. x \in Registered => x \in Registered'
      BY <1>2, <1>4, <1>5
    <2>3. c \in Registered'
      BY <1>2, <1>3, <1>5
    <2> QED BY <2>1, <2>2, <2>3
  <1> QED BY <1>1, <1>6

\* handleRegister moves a client from its handshake into the maps.
LEMMA CountRegister ==
  ASSUME TypeOK, CountInv, NEW c \in Clients, Register(c)
  PROVE  CountInv'
  <1> USE CountInvForm DEF CountForm
  <1>1. Registered' = Registered \cup {c} /\ c \notin Registered
    BY RegisterAdds DEF CountInv
  <1>2. InHandshake' = InHandshake \ {c} /\ c \in InHandshake
    BY DEF Register, TypeOK, InHandshake
  <1>3. /\ userConnections' = [userConnections EXCEPT ![UserOf[c]] = @ + 1]
        /\ ipConnections' = [ipConnections EXCEPT ![IPOf[c]] = @ + 1]
        /\ stage' = stage
    BY DEF Register
  <1>4. Placed'
    <2>1. \A x \in Clients :
            conn'[x] \in BeforeRegister =>
              conn[x] \in BeforeRegister /\ x # c
      BY DEF Register, TypeOK, BeforeRegister
    <2>2. \A ch \in Channels : \A x \in channels'[ch] : ChannelOf[x] = ch
      BY DEF Register, TypeOK, Placed
    <2> QED BY <1>1, <2>1, <2>2 DEF Placed
  <1>5. ASSUME NEW f, NEW t
        PROVE  /\ CountBy(Registered, f, t) \in Nat
               /\ CountBy(InHandshake', f, t) \in Nat
               /\ CountBy(Registered', f, t)
                    = CountBy(Registered, f, t) + (IF f[c] = t THEN 1 ELSE 0)
               /\ CountBy(InHandshake, f, t)
                    = CountBy(InHandshake', f, t) + (IF f[c] = t THEN 1 ELSE 0)
    <2>1. InHandshake' \in SUBSET Clients BY <1>2, InHandshakeType
    <2> QED BY <1>1, <1>2, <2>1, RegisteredType, InHandshakeType, CountType,
               CountAdd, CountRemove
  <1>6. \A u \in Users : userConnections'[u] = userConnections[u]
                                      + (IF UserOf[c] = u THEN 1 ELSE 0)
    BY <1>3 DEF TypeOK
  <1>7. \A i \in IPs : ipConnections'[i] = ipConnections[i]
                                      + (IF IPOf[c] = i THEN 1 ELSE 0)
    BY <1>3 DEF TypeOK
  <1>8. /\ \A u \in Users : CountBy(Registered, UserOf, u)' <= userConnections'[u]
        /\ \A i \in IPs : CountBy(Registered, IPOf, i)' <= ipConnections'[i]
    <2>1. ASSUME NEW u \in Users
          PROVE  CountBy(Registered, UserOf, u)' <= userConnections'[u]
      <3>1. userConnections[u] \in Nat BY DEF TypeOK
      <3> QED BY <1>5, <1>6, <3>1
    <2>2. ASSUME NEW i \in IPs
          PROVE  CountBy(Registered, IPOf, i)' <= ipConnections'[i]
      <3>1. ipConnections[i] \in Nat BY DEF TypeOK
      <3> QED BY <1>5, <1>7, <3>1
    <2> QED BY <2>1, <2>2
  <1>9. stage # "swept" =>
          /\ \A u \in Users : userConnections'[u] = CountBy(Registered, UserOf, u)'
          /\ \A i \in IPs : ipConnections'[i] = CountBy(Registered, IPOf, i)'
    BY <1>5, <1>6, <1>7
  <1>10. MaxConnectionsPerUser > 0 => \A u \in Users :
            CountBy(Registered, UserOf, u)' + CountBy(InHandshake, UserOf, u)' + 1
              <= MaxConnectionsPerUser + Handshakes
    BY <1>5
  <1>11. MaxConnectionsPerIP > 0 => \A i \in IPs :
            CountBy(Registered, IPOf, i)' + CountBy(InHandshake, IPOf, i)' + 1
              <= MaxConnectionsPerIP + Handshakes
    BY <1>5
  <1> QED BY <1>3, <1>4, <1>8, <1>9, <1>10, <1>11

\* What handleUnregister does to the set of registered clients.
LEMMA UnregisterRemoves ==
  ASSUME TypeOK, Placed, NEW c \in Clients, Unregister(c)
  PROVE  \/ /\ c \notin Registered
            /\ UNCHANGED <<channels, userConnections, ipConnections, run>>
            /\ Registered' = Registered
         \/ /\ c \in Registered /\ Registered' = Registered \ {c}
            /\ channels' = [channels EXCEPT ![ChannelOf[c]] = @ \ {c}]
            /\ userConnections' = [userConnections EXCEPT ![UserOf[c]] =
                                     IF @ > 0 THEN @ - 1 ELSE 0]
            /\ ipConnections' = [ipConnections EXCEPT ![IPOf[c]] =
                                     IF @ > 0 THEN @ - 1 ELSE 0]
            /\ run'.pc = "unsubscribe" /\ run'.client = c
  <1>1. CASE StaleUnregister(c)
    <2>1. UNCHANGED <<channels, userConnections, ipConnections, run>>
      BY <1>1 DEF Unregister, hubMaps
    <2>2. c \notin Registered
      BY <1>1, RegisteredAtHome DEF StaleUnregister
    <2> QED BY <2>1, <2>2 DEF Registered
  <1>2. CASE ~StaleUnregister(c)
    <2>1. c \in Registered
      BY <1>2, RegisteredAtHome DEF StaleUnregister
    <2>2. /\ channels' = [channels EXCEPT ![ChannelOf[c]] = @ \ {c}]
          /\ userConnections' = [userConnections EXCEPT ![UserOf[c]] =
                                   IF @ > 0 THEN @ - 1 ELSE 0]
          /\ ipConnections' = [ipConnections EXCEPT ![IPOf[c]] =
                                   IF @ > 0 THEN @ - 1 ELSE 0]
          /\ run'.pc = "unsubscribe" /\ run'.client = c
      BY <1>2 DEF Unregister, Idle
    <2>3. \A ch \in Channels :
            channels'[ch] = IF ch = ChannelOf[c] THEN channels[ch] \ {c}
                            ELSE channels[ch]
      BY <2>2 DEF TypeOK
    <2>4. \A x : x \in Registered <=> \E ch \in Channels : x \in channels[ch]
      BY DEF Registered
    <2>5. \A x : x \in Registered' <=> \E ch \in Channels : x \in channels'[ch]
      BY DEF Registered
    <2>6. ASSUME NEW x PROVE x \in Registered' <=> x \in Registered \ {c}
      <3>1. ASSUME x \in Registered' PROVE x \in Registered
        <4>1. PICK ch \in Channels : x \in channels'[ch] BY <2>5, <3>1
        <4>2. x \in channels[ch] BY <2>3, <4>1
        <4> QED BY <2>4, <4>2
      <3>2. ASSUME c \in Registered' PROVE FALSE
        <4>1. PICK ch \in Channels : c \in channels'[ch] BY <2>5, <3>2
        <4>2. ch # ChannelOf[c] /\ c \in channels[ch] BY <2>3, <4>1
        <4> QED BY <4>2 DEF Placed
      <3>3. x \in Registered /\ x # c => x \in Registered'
        BY <2>3, <2>4, <2>5
      <3> QED BY <3>1, <3>2, <3>3
    <2> QED BY <2>1, <2>2, <2>6
  <1> QED BY <1>1, <1>2

\* Only a readPump that ends, or nobody, changes its place in Unregister.
LEMMA UnregisterConn ==
  ASSUME TypeOK, NEW c \in Clients, Unregister(c)
  PROVE  /\ InHandshake' = InHandshake
         /\ \A x \in Clients : conn'[x] \in BeforeRegister
                                 => conn'[x] = conn[x]
         /\ \A x \in Clients : conn[x] \in BeforeRegister
                                 => conn'[x] = conn[x]
  <1>1. conn' = conn \/ (conn[c] = "leaving" /\ conn' = [conn EXCEPT ![c] = "left"])
    BY DEF Unregister, Sender
  <1> QED BY <1>1 DEF TypeOK, InHandshake, BeforeRegister

LEMMA CountUnregister ==
  ASSUME TypeOK, CountInv, NEW c \in Clients, Unregister(c)
  PROVE  CountInv'
  <1>1. /\ Placed /\ CountForm
        /\ stage' = stage
        /\ InHandshake' = InHandshake
    BY CountInvForm, UnregisterConn DEF CountInv, Unregister
  <1>2. Placed'
    <2>1. \A ch \in Channels : channels'[ch] \subseteq channels[ch]
      <3>1. \/ channels' = channels
            \/ channels' = [channels EXCEPT ![ChannelOf[c]] = @ \ {c}]
        BY <1>1, UnregisterRemoves
      <3>2. channels \in [Channels -> SUBSET Clients] BY DEF TypeOK
      <3> QED BY <3>1, <3>2
    <2>2. Registered' \subseteq Registered
      BY <1>1, UnregisterRemoves
    <2> QED BY <1>1, <2>1, <2>2, UnregisterConn DEF Placed
  <1>3. CASE /\ UNCHANGED <<channels, userConnections, ipConnections, run>>
             /\ Registered' = Registered
    <2>1. CountForm' BY <1>1, <1>2, <1>3 DEF CountForm
    <2> QED BY <2>1, CountInvForm
  <1>4. CASE /\ c \in Registered /\ Registered' = Registered \ {c}
             /\ userConnections' = [userConnections EXCEPT ![UserOf[c]] =
                                      IF @ > 0 THEN @ - 1 ELSE 0]
             /\ ipConnections' = [ipConnections EXCEPT ![IPOf[c]] =
                                      IF @ > 0 THEN @ - 1 ELSE 0]
    <2>1. ASSUME NEW f, NEW t
          PROVE  /\ CountBy(Registered', f, t) \in Nat
                 /\ CountBy(InHandshake, f, t) \in Nat
                 /\ CountBy(Registered, f, t)
                      = CountBy(Registered', f, t) + (IF f[c] = t THEN 1 ELSE 0)
      <3>1. Registered' \in SUBSET Clients BY <1>4, RegisteredType
      <3> QED BY <1>4, <3>1, RegisteredType, InHandshakeType, CountType, CountRemove
    <2>2. ASSUME NEW u \in Users
          PROVE  /\ userConnections[u] \in Nat /\ userConnections'[u] \in Nat
                 /\ userConnections'[u] + (IF UserOf[c] = u THEN 1 ELSE 0)
                      = userConnections[u]
      <3>1. userConnections[u] \in Nat BY DEF TypeOK
      <3>2. UserOf[c] = u => userConnections[u] > 0
        BY <1>1, <2>1, <3>1 DEF CountForm
      <3>3. userConnections'[u] = IF UserOf[c] = u /\ userConnections[u] > 0
                                  THEN userConnections[u] - 1
                                  ELSE IF UserOf[c] = u THEN 0 ELSE userConnections[u]
        BY <1>4 DEF TypeOK
      <3> QED BY <3>1, <3>2, <3>3
    <2>3. ASSUME NEW i \in IPs
          PROVE  /\ ipConnections[i] \in Nat /\ ipConnections'[i] \in Nat
                 /\ ipConnections'[i] + (IF IPOf[c] = i THEN 1 ELSE 0)
                      = ipConnections[i]
      <3>1. ipConnections[i] \in Nat BY DEF TypeOK
      <3>2. IPOf[c] = i => ipConnections[i] > 0
        BY <1>1, <2>1, <3>1 DEF CountForm
      <3>3. ipConnections'[i] = IF IPOf[c] = i /\ ipConnections[i] > 0
                                THEN ipConnections[i] - 1
                                ELSE IF IPOf[c] = i THEN 0 ELSE ipConnections[i]
        BY <1>4 DEF TypeOK
      <3> QED BY <3>1, <3>2, <3>3
    <2>4. /\ \A u \in Users : CountBy(Registered', UserOf, u) <= userConnections'[u]
          /\ \A i \in IPs : CountBy(Registered', IPOf, i) <= ipConnections'[i]
      <3>1. ASSUME NEW u \in Users
            PROVE  CountBy(Registered', UserOf, u) <= userConnections'[u]
        <4>1. CountBy(Registered, UserOf, u) <= userConnections[u]
          BY <1>1 DEF CountForm
        <4> QED BY <2>1, <2>2, <4>1
      <3>2. ASSUME NEW i \in IPs
            PROVE  CountBy(Registered', IPOf, i) <= ipConnections'[i]
        <4>1. CountBy(Registered, IPOf, i) <= ipConnections[i]
          BY <1>1 DEF CountForm
        <4> QED BY <2>1, <2>3, <4>1
      <3> QED BY <3>1, <3>2
    <2>5. stage # "swept" =>
            /\ \A u \in Users : userConnections'[u] = CountBy(Registered', UserOf, u)
            /\ \A i \in IPs : ipConnections'[i] = CountBy(Registered', IPOf, i)
      <3>1. ASSUME stage # "swept", NEW u \in Users
            PROVE  userConnections'[u] = CountBy(Registered', UserOf, u)
        <4>1. userConnections[u] = CountBy(Registered, UserOf, u)
          BY <1>1, <3>1 DEF CountForm
        <4> QED BY <2>1, <2>2, <4>1
      <3>2. ASSUME stage # "swept", NEW i \in IPs
            PROVE  ipConnections'[i] = CountBy(Registered', IPOf, i)
        <4>1. ipConnections[i] = CountBy(Registered, IPOf, i)
          BY <1>1, <3>2 DEF CountForm
        <4> QED BY <2>1, <2>3, <4>1
      <3> QED BY <3>1, <3>2
    <2>6. MaxConnectionsPerUser > 0 => \A u \in Users :
            CountBy(Registered', UserOf, u) + CountBy(InHandshake, UserOf, u) + 1
              <= MaxConnectionsPerUser + Handshakes
      BY <1>1, <2>1 DEF CountForm
    <2>7. MaxConnectionsPerIP > 0 => \A i \in IPs :
            CountBy(Registered', IPOf, i) + CountBy(InHandshake, IPOf, i) + 1
              <= MaxConnectionsPerIP + Handshakes
      BY <1>1, <2>1 DEF CountForm
    <2>8. CountForm'
      BY <1>1, <1>2, <2>4, <2>5, <2>6, <2>7 DEF CountForm
    <2> QED BY <2>8, CountInvForm
  <1> QED BY <1>1, <1>3, <1>4, UnregisterRemoves

\* The shutdown: the sweep empties the maps and leaves the counters.
LEMMA CountShutdown ==
  ASSUME TypeOK, CountInv, BrokerClose \/ CloseDone \/ Sweep
  PROVE  CountInv'
  <1>1. CountForm BY CountInvForm
  <1>2. CASE BrokerClose \/ CloseDone
    <2>1. /\ UNCHANGED <<conn, channels, userConnections, ipConnections>>
          /\ stage # "swept" /\ stage' # "swept"
      BY <1>2 DEF BrokerClose, CloseDone, hubMaps
    <2> QED BY <2>1 DEF CountInv, Placed, CountsCover, ConnectionCounts, Admission,
                        ClientsOf, ClientsAt, Registered, InHandshake
  <1>3. CASE Sweep /\ channels' = channels
    <2>1. /\ UNCHANGED <<conn, channels, userConnections, ipConnections>>
          /\ stage' = "swept"
      BY <1>3 DEF Sweep
    <2> QED BY <2>1 DEF CountInv, Placed, CountsCover, ConnectionCounts, Admission,
                        ClientsOf, ClientsAt, Registered, InHandshake
  <1>4. CASE Sweep /\ channels' # channels
    <2>1. /\ UNCHANGED <<conn, userConnections, ipConnections>>
          /\ stage' = "swept"
          /\ channels' = [ch \in Channels |-> {}]
      BY <1>4 DEF Sweep
    <2>2. Registered' = {} /\ InHandshake' = InHandshake
      BY <2>1 DEF Registered, InHandshake
    <2>3. Placed'
      BY <2>1, <2>2 DEF Placed
    <2>4. ASSUME NEW f, NEW t
          PROVE  /\ CountBy(Registered', f, t) = 0
                 /\ CountBy(Registered, f, t) \in Nat
                 /\ CountBy(InHandshake, f, t) \in Nat
      BY <2>2, CountEmpty, RegisteredType, InHandshakeType, CountType
    <2>5. /\ \A u \in Users : userConnections[u] >= 0
          /\ \A i \in IPs : ipConnections[i] >= 0
      BY DEF TypeOK
    <2>6. CountForm'
      BY <1>1, <2>1, <2>2, <2>3, <2>4, <2>5 DEF CountForm
    <2> QED BY <2>6, CountInvForm
  <1> QED BY <1>2, <1>3, <1>4

LEMMA CountStep == TypeOK /\ CountInv /\ [Next]_vars => CountInv'
  <1> SUFFICES ASSUME TypeOK, CountInv, [Next]_vars PROVE CountInv'
    OBVIOUS
  <1> DEFINE Same == UNCHANGED <<conn, channels, userConnections, ipConnections, stage>>
  <1>1. CASE UNCHANGED vars
    BY <1>1, CountFrame DEF vars
  <1>2. ASSUME NEW c \in Clients,
               \/ NotifySend(c) \/ ClientError(c) \/ WriteEvent(c)
               \/ WritePumpEnds(c) \/ DeliverSend(c)
        PROVE  CountInv'
    <2>1. Same
      BY <1>2 DEF NotifySend, ClientError, WriteEvent, WritePumpEnds, DeliverSend, hubMaps
    <2> QED BY <2>1, CountFrame
  <1>3. CASE \/ RegisterSubscribe \/ RegisterConnect
             \/ UnregisterUnsubscribe \/ UnregisterClose
             \/ Deliver \/ RunReturn
    <2>1. Same
      BY <1>3 DEF RegisterSubscribe, RegisterConnect, UnregisterUnsubscribe,
                  UnregisterClose, Deliver, RunReturn, hubMaps
    <2> QED BY <2>1, CountFrame
  <1>4. CASE \/ \E ch \in Channels : DeliverLocal(ch) \/ EnqueueBroadcast(ch)
             \/ \E u \in Users : NotifyUser(u)
    <2>1. Same
      BY <1>4 DEF DeliverLocal, EnqueueBroadcast, NotifyUser, hubMaps
    <2> QED BY <2>1, CountFrame
  <1> QED
    BY <1>1, <1>2, <1>3, <1>4, CountCheck, CountHandshake, CountRegister,
       CountUnregister, CountShutdown DEF Next, RunStep

LEMMA CountAlways == Spec => []CountInv
  BY CountInit, CountStep, TypeCorrect, PTL DEF Spec

\* The counters that CanConnect reads are the numbers of registered clients of
\* each user and each address until the shutdown sweep.
THEOREM CountsCorrect == Spec => []ConnectionCounts
  <1>1. CountInv => ConnectionCounts BY DEF CountInv
  <1> QED BY <1>1, CountAlways, PTL

\* A limit on connections is exceeded by fewer clients than requests can be in
\* their handshake together.
THEOREM OvershootBounded == Spec => []LimitOvershoot
  <1>1. TypeOK /\ CountInv => LimitOvershoot
    <2> SUFFICES ASSUME TypeOK, CountInv PROVE LimitOvershoot
      OBVIOUS
    <2>1. CountForm BY CountInvForm
    <2>2. ASSUME NEW f, NEW t
          PROVE  /\ CountBy(Registered, f, t) \in Nat
                 /\ CountBy(InHandshake, f, t) \in Nat
      BY RegisteredType, InHandshakeType, CountType
    <2>3. MaxConnectionsPerUser > 0 => \A u \in Users :
            CountBy(Registered, UserOf, u) + 1 <= MaxConnectionsPerUser + Handshakes
      BY <2>1, <2>2 DEF CountForm
    <2>4. MaxConnectionsPerIP > 0 => \A i \in IPs :
            CountBy(Registered, IPOf, i) + 1 <= MaxConnectionsPerIP + Handshakes
      BY <2>1, <2>2 DEF CountForm
    <2> QED BY <2>3, <2>4 DEF LimitOvershoot, ClientsOf, ClientsAt, CountBy
  <1> QED BY <1>1, TypeCorrect, CountAlways, PTL

-----------------------------------------------------------------------------
(* Closing send channels.                                                  *)

\* A step that closes nothing, registers nobody and does not make the Run loop
\* panic.
LEMMA CloseFrame ==
  ASSUME TypeOK, CloseInv, UNCHANGED <<channels, closed>>,
         \A c \in Clients : conn'[c] \in BeforeRegister <=> conn[c] \in BeforeRegister,
         panic' \in {panic, "notify", "clientError"},
         stage' = stage \/ stage = "brokerClosed" \/ stage = "up",
         run' = run \/ run'.pc \in {"select", "connect", "subscribe", "returned"}
                    \/ (run.pc = "deliver" /\ run'.pc = "deliver"
                          /\ run'.targets \subseteq run.targets)
                    \/ (run.pc = "unsubscribe" /\ run'.pc = "close"
                          /\ run'.client = run.client)
  PROVE  CloseInv'
  <1>1. Registered' = Registered BY DEF Registered
  <1>2. /\ (Registered \cap closed = {})'
        /\ \A c \in Clients : conn'[c] \in BeforeRegister
                                => c \notin Registered' \cup closed'
    BY <1>1 DEF CloseInv
  <1>3. run'.pc \in {"unsubscribe", "close"} =>
          /\ run'.client \notin Registered' \cup closed'
          /\ conn'[run'.client] \notin BeforeRegister
    <2>1. run'.pc \in {"unsubscribe", "close"} =>
            run.pc \in {"unsubscribe", "close"} /\ run'.client = run.client
      OBVIOUS
    <2>2. run.pc \in {"unsubscribe", "close"} => run.client \in Clients
      BY DEF TypeOK, RunType, Handlers
    <2> QED BY <1>1, <2>1, <2>2 DEF CloseInv
  <1>4. run'.pc = "deliver" /\ stage' # "swept" => run'.targets \cap closed' = {}
    BY DEF CloseInv
  <1>5. RunLoopDoesNotPanic'
    BY DEF CloseInv, RunLoopDoesNotPanic
  <1> QED BY <1>2, <1>3, <1>4, <1>5 DEF CloseInv

LEMMA CloseInit == Init => CloseInv
  BY DEF Init, CloseInv, Registered, Idle, RunLoopDoesNotPanic

\* The handshake and the pumps.
LEMMA CloseEdge ==
  ASSUME TypeOK, CloseInv, NEW c \in Clients,
         \/ Check(c) \/ Refuse(c) \/ Upgrade(c) \/ ClientError(c)
         \/ ReadPumpEnds(c) \/ WriteEvent(c) \/ WritePumpEnds(c) \/ NotifySend(c)
  PROVE  CloseInv'
  <1>1. \A x \in Clients : conn'[x] \in BeforeRegister <=> conn[x] \in BeforeRegister
    BY DEF TypeOK, BeforeRegister, Check, Refuse, Upgrade, ClientError,
           ReadPumpEnds, WriteEvent, WritePumpEnds, NotifySend
  <1>2. UNCHANGED <<channels, closed, run, stage>>
    BY DEF Check, Refuse, Upgrade, ClientError, ReadPumpEnds, WriteEvent,
           WritePumpEnds, NotifySend, pumpVars, hubMaps
  <1>3. panic' \in {panic, "notify", "clientError"}
    BY DEF Check, Refuse, Upgrade, ClientError, ReadPumpEnds, WriteEvent,
           WritePumpEnds, NotifySend, SendTo
  <1> QED BY <1>1, <1>2, <1>3, CloseFrame

\* Events that arrive, and the shutdown before its sweep.
LEMMA CloseOutside ==
  ASSUME TypeOK, CloseInv,
         \/ \E ch \in Channels : DeliverLocal(ch) \/ EnqueueBroadcast(ch)
         \/ \E u \in Users : NotifyUser(u)
         \/ BrokerClose \/ CloseDone
  PROVE  CloseInv'
  <1>1. UNCHANGED <<conn, channels, closed, run, panic>>
    BY DEF DeliverLocal, EnqueueBroadcast, NotifyUser, BrokerClose, CloseDone,
           pumpVars, hubMaps
  <1>2. stage' = stage \/ stage = "brokerClosed" \/ stage = "up"
    BY DEF DeliverLocal, EnqueueBroadcast, NotifyUser, BrokerClose, CloseDone
  <1> QED BY <1>1, <1>2, CloseFrame

\* The sweep closes the registered clients, none of which is closed, and not
\* the one that is being unregistered.
LEMMA CloseSweep ==
  ASSUME TypeOK, CloseInv, panic = "none", Sweep
  PROVE  CloseInv'
  <1>1. Registered \cap closed = {} BY DEF CloseInv
  <1>2. /\ closed' = closed \cup Registered
        /\ channels' = [ch \in Channels |-> {}]
        /\ panic' = panic /\ stage' = "swept"
        /\ UNCHANGED <<conn, run>>
    BY <1>1 DEF Sweep
  <1>3. Registered' = {} BY <1>2 DEF Registered
  <1> QED BY <1>2, <1>3 DEF CloseInv, RunLoopDoesNotPanic

\* The Run loop.
LEMMA CloseRun ==
  ASSUME TypeOK, CountInv, CloseInv, panic = "none", RunStep
  PROVE  CloseInv'
  <1>1. ASSUME NEW c \in Clients, Register(c) PROVE CloseInv'
    <2>1. Registered' = Registered \cup {c}
      BY <1>1, RegisterAdds DEF CountInv
    <2>2. c \notin closed
      BY <1>1 DEF Register, CloseInv, BeforeRegister
    <2>3. \A x \in Clients : conn'[x] \in BeforeRegister
                               => conn[x] \in BeforeRegister /\ x # c
      BY <1>1 DEF Register, TypeOK, BeforeRegister
    <2>4. run'.pc = "subscribe" /\ UNCHANGED <<closed, stage, panic>>
      BY <1>1 DEF Register, Idle
    <2> QED BY <2>1, <2>2, <2>3, <2>4 DEF CloseInv, RunLoopDoesNotPanic
  <1>2. ASSUME NEW c \in Clients, Unregister(c) PROVE CloseInv'
    <2>1. UNCHANGED <<closed, stage, panic>> /\ run.pc = "select"
      BY <1>2 DEF Unregister
    <2>2. \A x \in Clients : conn'[x] \in BeforeRegister <=> conn[x] \in BeforeRegister
      BY <1>2, UnregisterConn DEF BeforeRegister
    <2>3. CASE UNCHANGED <<channels, run>>
      BY <2>1, <2>2, <2>3, CloseFrame
    <2>4. CASE /\ c \in Registered /\ Registered' = Registered \ {c}
               /\ run'.pc = "unsubscribe" /\ run'.client = c
      <3>1. c \notin closed /\ conn[c] \notin BeforeRegister
        BY <2>4 DEF CloseInv
      <3> QED BY <2>1, <2>2, <2>4, <3>1 DEF CloseInv, RunLoopDoesNotPanic
    <2> QED BY <1>2, <2>3, <2>4, UnregisterRemoves DEF CountInv
  <1>3. ASSUME NEW c \in Clients, DeliverSend(c) PROVE CloseInv'
    <2>1. UNCHANGED <<conn, channels, closed, stage>>
      BY <1>3 DEF DeliverSend, hubMaps
    <2>2. \/ run'.pc = "select"
          \/ run.pc = "deliver" /\ run'.pc = "deliver" /\ run'.targets \subseteq run.targets
      BY <1>3 DEF DeliverSend, Idle, TypeOK, RunType
    <2>3. CASE c \notin closed
      <3>1. panic' = panic BY <1>3, <2>3 DEF DeliverSend, SendTo
      <3> QED BY <2>1, <2>2, <3>1, CloseFrame
    <2>4. CASE c \in closed
      <3>1. stage = "swept"
        BY <1>3, <2>4 DEF DeliverSend, CloseInv
      <3>2. panic' = "deliver"
        BY <1>3, <2>4 DEF DeliverSend, SendTo
      <3>3. Registered' = Registered BY <2>1 DEF Registered
      <3> QED BY <2>1, <2>2, <3>1, <3>2, <3>3 DEF CloseInv, RunLoopDoesNotPanic
    <2> QED BY <2>3, <2>4
  <1>4. CASE RegisterSubscribe \/ RegisterConnect \/ RunReturn
    <2>1. /\ UNCHANGED <<conn, channels, closed, stage, panic>>
          /\ run'.pc \in {"select", "connect", "returned"}
      BY <1>4 DEF RegisterSubscribe, RegisterConnect, RunReturn, Idle, TypeOK,
                  RunType, pumpVars, hubMaps
    <2> QED BY <2>1, CloseFrame
  <1>5. CASE UnregisterUnsubscribe
    <2>1. /\ UNCHANGED <<conn, channels, closed, stage, panic>>
          /\ run.pc = "unsubscribe" /\ run'.pc = "close" /\ run'.client = run.client
      BY <1>5 DEF UnregisterUnsubscribe, TypeOK, RunType, pumpVars, hubMaps
    <2> QED BY <2>1, CloseFrame
  <1>6. CASE UnregisterClose
    <2>1. /\ run.client \notin Registered \cup closed
          /\ conn[run.client] \notin BeforeRegister
      BY <1>6 DEF UnregisterClose, CloseInv
    <2>2. /\ closed' = closed \cup {run.client} /\ run'.pc = "select"
          /\ UNCHANGED <<conn, channels, stage, panic>>
      BY <1>6, <2>1 DEF UnregisterClose, Idle, hubMaps
    <2>3. Registered' = Registered BY <2>2 DEF Registered
    <2> QED BY <2>1, <2>2, <2>3 DEF CloseInv, RunLoopDoesNotPanic
  <1>7. CASE Deliver
    <2>1. /\ UNCHANGED <<conn, channels, closed, stage, panic>>
          /\ run'.pc \in {"select", "deliver"}
          /\ run'.targets \subseteq channels[Head(broadcast)]
      BY <1>7 DEF Deliver, Idle, pumpVars, hubMaps
    <2>2. Head(broadcast) \in Channels
      BY <1>7 DEF Deliver, TypeOK
    <2>3. run'.targets \subseteq Registered
      BY <2>1, <2>2 DEF Registered
    <2>4. Registered' = Registered BY <2>1 DEF Registered
    <2> QED BY <2>1, <2>3, <2>4 DEF CloseInv, RunLoopDoesNotPanic
  <1> QED BY <1>1, <1>2, <1>3, <1>4, <1>5, <1>6, <1>7 DEF RunStep

LEMMA CloseStep == TypeOK /\ CountInv /\ CloseInv /\ [Next]_vars => CloseInv'
  <1> SUFFICES ASSUME TypeOK, CountInv, CloseInv, [Next]_vars PROVE CloseInv'
    OBVIOUS
  <1>1. CASE UNCHANGED vars
    BY <1>1, CloseFrame DEF vars
  <1>2. CASE Next
    BY <1>2, CloseEdge, CloseOutside, CloseSweep, CloseRun DEF Next
  <1> QED BY <1>1, <1>2

LEMMA CloseAlways == Spec => []CloseInv
  BY CloseInit, CloseStep, TypeCorrect, CountAlways, PTL DEF Spec

\* No send channel is ever closed twice, and deliver never sends on a closed one
\* before the shutdown sweep.
THEOREM RunLoopSafe == Spec => []RunLoopDoesNotPanic
  <1>1. CloseInv => RunLoopDoesNotPanic BY DEF CloseInv
  <1> QED BY <1>1, CloseAlways, PTL

\* An unregistered client stays out of the maps for good.
THEOREM ClosedStaysOut == Spec => ClosedIsFinal
  <1>1. CloseInv' /\ [Next]_vars =>
          [\A c \in closed : c \in closed' /\ c \notin Registered']_vars
    <2> SUFFICES ASSUME CloseInv', Next, NEW c \in closed
                 PROVE  c \in closed' /\ c \notin Registered'
      OBVIOUS
    <2>1. closed \subseteq closed'
      BY DEF Next, RunStep, Check, Refuse, Upgrade, NotifySend, ClientError,
             ReadPumpEnds, WriteEvent, WritePumpEnds, Register, Unregister,
             DeliverSend, RegisterSubscribe, RegisterConnect,
             UnregisterUnsubscribe, UnregisterClose, Deliver, RunReturn,
             DeliverLocal, EnqueueBroadcast, NotifyUser, BrokerClose, CloseDone,
             Sweep, pumpVars
    <2> QED BY <2>1 DEF CloseInv
  <1> QED BY <1>1, CloseAlways, PTL DEF Spec, ClosedIsFinal

-----------------------------------------------------------------------------
(* Presence and subscriptions.                                             *)

\* Before the sweep the stage only moves on, and no step leaves it.
Onward == stage' = stage \/ (stage = "up" /\ stage' = "brokerClosed")
                         \/ (stage = "brokerClosed" /\ stage' = "done")

\* A step that brings and takes no client, and changes nothing of what the
\* broker or the presence tracker count.
Still ==
  /\ UNCHANGED <<channels, subs, presence>> /\ Onward
  /\ run' = run \/ (run.pc \notin Handlers /\ run'.pc \notin Handlers)

LEMMA StillKeeps == ASSUME Still, SubsInv, PresenceInv PROVE SubsInv' /\ PresenceInv'
  <1>1. Registered' = Registered BY DEF Still, Registered
  <1>2. (stage' # "swept" => stage # "swept") /\ (stage' = "up" => stage = "up")
    BY DEF Still, Onward
  <1>3. \A t : HasClients(t)' = HasClients(t) BY <1>1 DEF HasClients
  <1>4. \A t : (HasClients(t)' <=> HasClients(t)) /\ (Changing(t)' <=> Changing(t))
    BY <1>3 DEF Changing, Still, Handlers
  <1>5. \A t : Changing(t) => run' = run
    BY DEF Changing, Still, Handlers
  <1>6. SubsInv'
    <2> SUFFICES ASSUME stage' # "swept", NEW t \in Topics PROVE TopicOK(t)'
      BY DEF SubsInv
    <2>1. TopicOK(t) /\ subs'[t] = subs[t] BY <1>2 DEF SubsInv, Still
    <2> QED BY <1>2, <1>4, <1>5, <2>1 DEF TopicOK
  <1>7. \A u : ClientsOf(u)' = ClientsOf(u) BY <1>1 DEF ClientsOf
  <1>8. \A u : Arriving(u)' = Arriving(u) /\ Departing(u)' = Departing(u)
    BY DEF Still, Arriving, Departing, Handlers
  <1>9. PresenceInv' BY <1>2, <1>7, <1>8 DEF PresenceInv, Still
  <1> QED BY <1>6, <1>9

\* The topics with clients, in terms of the maps.
LEMMA ChannelHas ==
  ASSUME TypeOK, Placed, NEW ch \in Channels
  PROVE  HasClients(ch) <=> channels[ch] # {}
  <1>1. \A c \in Clients : UserOf[c] # ch
    OBVIOUS
  <1>2. channels[ch] \subseteq Clients BY DEF TypeOK
  <1>3. ASSUME NEW c \in Registered PROVE ch \in {ChannelOf[c], UserOf[c]} <=> c \in channels[ch]
    BY <1>1, <1>3, RegisteredType, RegisteredAtHome DEF Placed
  <1>4. channels[ch] \subseteq Registered BY DEF Registered
  <1> QED BY <1>3, <1>4 DEF HasClients

LEMMA UserHas ==
  ASSUME TypeOK, NEW u \in Users
  PROVE  /\ HasClients(u) <=> ClientsOf(u) # {}
         /\ HasClients(u) <=> CountBy(Registered, UserOf, u) # 0
  <1>1. Registered \subseteq Clients BY RegisteredType
  <1>2. \A c \in Clients : ChannelOf[c] # u
    OBVIOUS
  <1>3. HasClients(u) <=> ClientsOf(u) # {}
    BY <1>1, <1>2 DEF HasClients, ClientsOf
  <1>4. IsFiniteSet(ClientsOf(u))
    BY <1>1, FS_Subset DEF ClientsOf
  <1> QED BY <1>3, <1>4, FS_EmptySet DEF CountBy, ClientsOf

LEMMA ChannelHasNext ==
  ASSUME TypeOK', Placed', NEW ch \in Channels
  PROVE  HasClients(ch)' <=> channels'[ch] # {}
  <1>1. \A c \in Clients : UserOf[c] # ch
    OBVIOUS
  <1>2. channels' \in [Channels -> SUBSET Clients] BY DEF TypeOK
  <1>3. ASSUME NEW c \in Registered' PROVE ch \in {ChannelOf[c], UserOf[c]} <=> c \in channels'[ch]
    <2>1. PICK d \in Channels : c \in channels'[d] BY <1>3 DEF Registered
    <2>2. c \in Clients /\ ChannelOf[c] = d BY <1>2, <2>1 DEF Placed
    <2> QED BY <1>1, <2>1, <2>2 DEF Placed
  <1>4. channels'[ch] \subseteq Registered' BY DEF Registered
  <1> QED BY <1>3, <1>4 DEF HasClients

LEMMA UserHasNext ==
  ASSUME TypeOK', NEW u \in Users
  PROVE  HasClients(u)' <=> CountBy(Registered', UserOf, u) # 0
  <1>1. Registered' \subseteq Clients BY DEF TypeOK, Registered
  <1>2. \A c \in Clients : ChannelOf[c] # u
    OBVIOUS
  <1>3. HasClients(u)' <=> {c \in Registered' : UserOf[c] = u} # {}
    BY <1>1, <1>2 DEF HasClients
  <1>4. IsFiniteSet({c \in Registered' : UserOf[c] = u})
    BY <1>1, FS_Subset
  <1> QED BY <1>3, <1>4, FS_EmptySet DEF CountBy

\* The topics with clients once a client is in the maps, and once it is out.
LEMMA HasAdded ==
  ASSUME NEW c, Registered' = Registered \cup {c}, NEW t
  PROVE  HasClients(t)' <=> (HasClients(t) \/ t \in {ChannelOf[c], UserOf[c]})
  BY DEF HasClients

LEMMA HasRemoved ==
  ASSUME NEW c \in Registered, Registered' = Registered \ {c}, NEW t
  PROVE  /\ t \notin {ChannelOf[c], UserOf[c]} => (HasClients(t)' <=> HasClients(t))
         /\ t \in {ChannelOf[c], UserOf[c]} => HasClients(t)
  BY DEF HasClients

\* handleRegister brings the client of a channel or a user to whom nobody has
\* been subscribed, if it is the first one.
LEMMA SubsRegister ==
  ASSUME TypeOK, CountInv, SubsInv, NEW c \in Clients, Register(c)
  PROVE  SubsInv'
  <1> DEFINE ch == ChannelOf[c]
  <1> DEFINE u == UserOf[c]
  <1>1. ch \in Channels /\ u \in Users /\ ch # u
    OBVIOUS
  <1>2. run.pc = "select" /\ stage' = stage /\ subs' = subs
    BY DEF Register
  <1>3. /\ run'.pc = "subscribe" /\ run'.client = c
        /\ run'.first = (channels[ch] = {}) /\ run'.firstUser = (userConnections[u] = 0)
    <2> DEFINE f == channels[ch] = {}
    <2> DEFINE g == userConnections[u] = 0
    <2>1. run' = [Idle EXCEPT !.pc = "subscribe", !.client = c, !.first = f, !.firstUser = g]
      BY DEF Register
    <2> HIDE DEF f, g
    <2>2. /\ run'.pc = "subscribe" /\ run'.client = c /\ run'.first = f /\ run'.firstUser = g
      BY <2>1 DEF Idle
    <2> QED BY <2>2 DEF f, g
  <1>4. Registered' = Registered \cup {c} BY RegisterAdds DEF CountInv
  <1> SUFFICES ASSUME stage # "swept", NEW t \in Topics PROVE TopicOK(t)'
    BY <1>2 DEF SubsInv
  <1>5. /\ HasClients(ch) <=> channels[ch] # {}
        /\ HasClients(u) <=> userConnections[u] # 0
    BY <1>1, ChannelHas, UserHas, CountInvForm DEF CountForm
  <1>6. HasClients(t)' <=> (HasClients(t) \/ t \in {ch, u})
    BY <1>4, HasAdded
  <1>7. Changing(t)' <=> (t \in {ch, u} /\ ~HasClients(t))
    BY <1>1, <1>3, <1>5 DEF Changing
  <1>8. ~Changing(t) /\ TopicOK(t) BY <1>2 DEF Changing, SubsInv
  <1> QED BY <1>2, <1>3, <1>6, <1>7, <1>8 DEF TopicOK

\* What EnsureSubscribed does to a topic without a subscription.
LEMMA SubsSubscribe ==
  ASSUME TypeOK, SubsInv, RegisterSubscribe
  PROVE  SubsInv'
  <1> DEFINE ch == ChannelOf[run.client]
  <1> DEFINE u == UserOf[run.client]
  <1>1. run.client \in Clients /\ run.pc = "subscribe"
    BY DEF RegisterSubscribe, TypeOK, RunType, Handlers
  <1>2. ch \in Topics /\ u \in Topics /\ ch # u
    <2>1. ch \in Channels /\ u \in Users BY <1>1
    <2> QED BY <2>1 DEF Topics
  <1>3. /\ stage' = stage /\ run'.pc = "connect" /\ Registered' = Registered
    BY DEF RegisterSubscribe, hubMaps, Registered, TypeOK, RunType
  <1> SUFFICES ASSUME stage # "swept", NEW t \in Topics PROVE TopicOK(t)'
    BY <1>3 DEF SubsInv
  <1>4. subs \in [Topics -> Nat] BY DEF TypeOK
  <1>5. PICK ok1, ok2 \in SubscribeOutcomes :
          subs' = LET s1 == IF run.first THEN EnsureSubscribed(subs, ch, ok1) ELSE subs
                  IN IF run.firstUser THEN EnsureSubscribed(s1, u, ok2) ELSE s1
    BY DEF RegisterSubscribe
  <1> DEFINE s1 == IF run.first THEN EnsureSubscribed(subs, ch, ok1) ELSE subs
  <1>6. subs' = IF run.firstUser THEN EnsureSubscribed(s1, u, ok2) ELSE s1
    BY <1>5
  <1> HIDE DEF ch, u
  <1>7. /\ s1 \in [Topics -> Nat] /\ \A x \in Topics : x # ch => s1[x] = subs[x]
        /\ ~run.first => s1[ch] = subs[ch]
        /\ run.first /\ subs[ch] = 0 => s1[ch] = IF ok1 THEN 1 ELSE 0
    BY <1>2, <1>4 DEF EnsureSubscribed
  <1> HIDE DEF s1
  <1>8. /\ \A x \in Topics : x # u => subs'[x] = s1[x]
        /\ ~run.firstUser => subs'[u] = s1[u]
        /\ run.firstUser /\ s1[u] = 0 => subs'[u] = IF ok2 THEN 1 ELSE 0
    BY <1>2, <1>6, <1>7 DEF EnsureSubscribed
  <1>9. (ok1 /\ ok2) \/ Faults \/ stage # "up"
    BY <1>5 DEF SubscribeOutcomes
  <1>10. TopicOK(t) BY DEF SubsInv
  <1>11. Changing(t) <=> (run.first /\ t = ch) \/ (run.firstUser /\ t = u)
    BY <1>1 DEF Changing, ch, u
  <1>12. HasClients(t)' = HasClients(t) /\ ~Changing(t)'
    BY <1>3 DEF HasClients, Changing
  <1>13. CASE Changing(t)
    <2>1. HasClients(t) /\ subs[t] = 0 BY <1>1, <1>10, <1>13 DEF TopicOK
    <2>2. subs'[t] = 1 \/ (subs'[t] = 0 /\ (Faults \/ stage # "up"))
      <3>1. CASE run.first /\ t = ch BY <1>2, <1>7, <1>8, <1>9, <2>1, <3>1
      <3>2. CASE run.firstUser /\ t = u BY <1>2, <1>7, <1>8, <1>9, <2>1, <3>2
      <3> QED BY <1>11, <1>13, <3>1, <3>2
    <2> QED BY <1>3, <1>12, <2>1, <2>2 DEF TopicOK
  <1>14. CASE ~Changing(t)
    <2>1. subs'[t] = subs[t] BY <1>2, <1>7, <1>8, <1>11, <1>14
    <2> QED BY <1>3, <1>10, <1>12, <1>14, <2>1 DEF TopicOK
  <1> QED BY <1>13, <1>14

\* handleUnregister takes the last client of a channel or a user, or not.
LEMMA SubsUnregister ==
  ASSUME TypeOK, CountInv, SubsInv, PresenceInv, NEW c \in Clients, Unregister(c)
  PROVE  SubsInv'
  <1> DEFINE ch == ChannelOf[c]
  <1> DEFINE u == UserOf[c]
  <1>1. ch \in Channels /\ u \in Users /\ ch # u
    OBVIOUS
  <1>2. run.pc = "select" /\ stage' = stage /\ UNCHANGED <<subs, presence>>
    BY DEF Unregister
  <1>3. CASE StaleUnregister(c)
    <2>1. Still BY <1>2, <1>3 DEF Unregister, hubMaps, Still, Onward
    <2> QED BY <2>1, StillKeeps
  <1>4. CASE ~StaleUnregister(c)
    <2>1. c \in Registered /\ Registered' = Registered \ {c}
          /\ channels' = [channels EXCEPT ![ch] = @ \ {c}]
      <3>1. c \in Registered BY <1>4, RegisteredAtHome DEF StaleUnregister, CountInv
      <3> QED BY <3>1, UnregisterRemoves DEF CountInv
    <2>2. /\ run'.pc = "unsubscribe" /\ run'.client = c
          /\ run'.first = (channels[ch] = {c}) /\ run'.firstUser = (userConnections[u] <= 1)
      <3> DEFINE f == channels[ch] = {c}
      <3> DEFINE g == userConnections[u] <= 1
      <3>1. run' = [Idle EXCEPT !.pc = "unsubscribe", !.client = c, !.first = f, !.firstUser = g]
        BY <1>4 DEF Unregister
      <3> HIDE DEF f, g
      <3>2. /\ run'.pc = "unsubscribe" /\ run'.client = c /\ run'.first = f /\ run'.firstUser = g
        BY <3>1 DEF Idle
      <3> QED BY <3>2 DEF f, g
    <2> SUFFICES ASSUME stage # "swept", NEW t \in Topics PROVE TopicOK(t)'
      BY <1>2 DEF SubsInv
    <2>3. TypeOK' /\ CountInv'
      BY CountUnregister, TypeRun DEF RunStep
    <2>4. channels[ch] = {c} <=> ~HasClients(ch)'
      <3>1. c \in channels[ch] BY <1>4 DEF StaleUnregister
      <3>2. channels'[ch] = channels[ch] \ {c} BY <2>1 DEF TypeOK
      <3>3. HasClients(ch)' <=> channels'[ch] # {}
        BY <2>3, ChannelHasNext DEF CountInv
      <3> QED BY <3>1, <3>2, <3>3
    <2>5. userConnections[u] <= 1 <=> ~HasClients(u)'
      <3>1. HasClients(u)' <=> CountBy(Registered', UserOf, u) # 0
        BY <2>3, UserHasNext
      <3>2. userConnections[u] = CountBy(Registered, UserOf, u)
        BY CountInvForm DEF CountForm
      <3>3. CountBy(Registered, UserOf, u) = CountBy(Registered', UserOf, u) + 1
        BY <2>1, RegisteredType, CountRemove
      <3>4. CountBy(Registered', UserOf, u) \in Nat
        <4>1. Registered' \in SUBSET Clients BY <2>1, RegisteredType
        <4> QED BY <4>1, CountType
      <3> QED BY <3>1, <3>2, <3>3, <3>4
    <2>6. Changing(t)' <=> (t \in {ch, u} /\ ~HasClients(t)')
      BY <1>1, <2>2, <2>4, <2>5 DEF Changing
    <2>7. ~Changing(t) /\ TopicOK(t) BY <1>2 DEF Changing, SubsInv
    <2>8. /\ t \notin {ch, u} => (HasClients(t)' <=> HasClients(t))
          /\ t \in {ch, u} => HasClients(t)
      BY <2>1, HasRemoved
    <2>9. TopicOK(t) /\ HasClients(t) => subs[t] \in 0..1 BY <2>7 DEF TopicOK
    <2> QED BY <1>2, <2>2, <2>6, <2>7, <2>8, <2>9 DEF TopicOK
  <1> QED BY <1>3, <1>4

\* MaybeUnsubscribe ends the one subscription that a topic has.
LEMMA SubsUnsubscribe ==
  ASSUME TypeOK, SubsInv, UnregisterUnsubscribe
  PROVE  SubsInv'
  <1> DEFINE ch == ChannelOf[run.client]
  <1> DEFINE u == UserOf[run.client]
  <1>1. run.client \in Clients /\ run.pc = "unsubscribe"
    BY DEF UnregisterUnsubscribe, TypeOK, RunType, Handlers
  <1>2. ch \in Topics /\ u \in Topics /\ ch # u
    <2>1. ch \in Channels /\ u \in Users BY <1>1
    <2> QED BY <2>1 DEF Topics
  <1>3. /\ stage' = stage /\ run'.pc = "close" /\ Registered' = Registered
    BY DEF UnregisterUnsubscribe, hubMaps, Registered, TypeOK, RunType
  <1> SUFFICES ASSUME stage # "swept", NEW t \in Topics PROVE TopicOK(t)'
    BY <1>3 DEF SubsInv
  <1>4. subs \in [Topics -> Nat] BY DEF TypeOK
  <1> DEFINE s1 == IF run.first THEN MaybeUnsubscribe(subs, ch) ELSE subs
  <1>6. subs' = IF run.firstUser THEN MaybeUnsubscribe(s1, u) ELSE s1
    BY DEF UnregisterUnsubscribe
  <1> HIDE DEF ch, u
  <1>7. /\ s1 \in [Topics -> Nat] /\ \A x \in Topics : x # ch => s1[x] = subs[x]
        /\ ~run.first => s1[ch] = subs[ch]
        /\ run.first /\ subs[ch] <= 1 => s1[ch] = 0
    BY <1>2, <1>4 DEF MaybeUnsubscribe
  <1> HIDE DEF s1
  <1>8. /\ \A x \in Topics : x # u => subs'[x] = s1[x]
        /\ ~run.firstUser => subs'[u] = s1[u]
        /\ run.firstUser /\ s1[u] <= 1 => subs'[u] = 0
    BY <1>2, <1>6, <1>7 DEF MaybeUnsubscribe
  <1>10. TopicOK(t) BY DEF SubsInv
  <1>11. Changing(t) <=> (run.first /\ t = ch) \/ (run.firstUser /\ t = u)
    BY <1>1 DEF Changing, ch, u
  <1>12. HasClients(t)' = HasClients(t) /\ ~Changing(t)'
    BY <1>3 DEF HasClients, Changing
  <1>13. CASE Changing(t)
    <2>1. ~HasClients(t) /\ subs[t] <= 1 BY <1>1, <1>10, <1>13 DEF TopicOK
    <2>2. subs'[t] = 0
      <3>1. CASE run.first /\ t = ch BY <1>2, <1>7, <1>8, <2>1, <3>1
      <3>2. CASE run.firstUser /\ t = u BY <1>2, <1>7, <1>8, <2>1, <3>2
      <3> QED BY <1>11, <1>13, <3>1, <3>2
    <2> QED BY <1>3, <1>12, <2>1, <2>2 DEF TopicOK
  <1>14. CASE ~Changing(t)
    <2>1. subs'[t] = subs[t] BY <1>2, <1>7, <1>8, <1>11, <1>14
    <2> QED BY <1>3, <1>10, <1>12, <1>14, <2>1 DEF TopicOK
  <1> QED BY <1>13, <1>14

\* The Run loop tells presence of every client once: after it has put the
\* client into the maps, and after it has taken it out.
LEMMA PresenceRegister ==
  ASSUME TypeOK, CountInv, PresenceInv, NEW c \in Clients, Register(c)
  PROVE  PresenceInv'
  <1>1. run.pc = "select" /\ stage' = stage /\ presence' = presence
        /\ run'.pc = "subscribe" /\ run'.client = c
    BY DEF Register, Idle
  <1> SUFFICES ASSUME ~Faults, stage # "swept", NEW u \in Users
               PROVE  presence[u] + Arriving(u)' = CountBy(Registered', UserOf, u) + Departing(u)'
    BY <1>1 DEF PresenceInv, CountBy, ClientsOf
  <1>2. Registered' = Registered \cup {c} /\ c \notin Registered
    BY RegisterAdds DEF CountInv
  <1>3. CountBy(Registered', UserOf, u)
          = CountBy(Registered, UserOf, u) + (IF UserOf[c] = u THEN 1 ELSE 0)
    BY <1>2, RegisteredType, CountAdd
  <1>4. presence[u] + Arriving(u) = CountBy(Registered, UserOf, u) + Departing(u)
    BY DEF PresenceInv, CountBy, ClientsOf
  <1>5. /\ Arriving(u) = 0 /\ Departing(u) = 0 /\ Departing(u)' = 0
        /\ Arriving(u)' = IF UserOf[c] = u THEN 1 ELSE 0
    BY <1>1 DEF Arriving, Departing
  <1>6. presence[u] \in Nat /\ CountBy(Registered, UserOf, u) \in Nat
    BY RegisteredType, CountType DEF TypeOK
  <1> QED BY <1>3, <1>4, <1>5, <1>6

LEMMA PresenceUnregister ==
  ASSUME TypeOK, CountInv, SubsInv, PresenceInv, NEW c \in Clients, Unregister(c)
  PROVE  PresenceInv'
  <1>1. run.pc = "select" /\ stage' = stage /\ UNCHANGED <<subs, presence>>
    BY DEF Unregister
  <1>2. CASE UNCHANGED <<channels, run>>
    <2>1. Still BY <1>1, <1>2 DEF Still, Onward
    <2> QED BY <2>1, StillKeeps
  <1>3. CASE /\ c \in Registered /\ Registered' = Registered \ {c}
             /\ run'.pc = "unsubscribe" /\ run'.client = c
    <2> SUFFICES ASSUME ~Faults, stage # "swept", NEW u \in Users
                 PROVE  presence[u] + Arriving(u)' = CountBy(Registered', UserOf, u) + Departing(u)'
      BY <1>1 DEF PresenceInv, CountBy, ClientsOf
    <2>1. CountBy(Registered, UserOf, u)
            = CountBy(Registered', UserOf, u) + (IF UserOf[c] = u THEN 1 ELSE 0)
      BY <1>3, RegisteredType, CountRemove
    <2>2. presence[u] + Arriving(u) = CountBy(Registered, UserOf, u) + Departing(u)
      BY DEF PresenceInv, CountBy, ClientsOf
    <2>3. /\ Arriving(u) = 0 /\ Departing(u) = 0 /\ Arriving(u)' = 0
          /\ Departing(u)' = IF UserOf[c] = u THEN 1 ELSE 0
      BY <1>1, <1>3 DEF Arriving, Departing
    <2>4. presence[u] \in Nat /\ CountBy(Registered', UserOf, u) \in Nat
      <3>1. Registered' \in SUBSET Clients BY <1>3, RegisteredType
      <3> QED BY <3>1, CountType DEF TypeOK
    <2> QED BY <2>1, <2>2, <2>3, <2>4
  <1> QED BY <1>2, <1>3, UnregisterRemoves DEF CountInv

\* The calls that touch no map: the broker's, and the presence tracker's.
LEMMA PresenceCalls ==
  ASSUME TypeOK, CloseInv, PresenceInv,
         RegisterSubscribe \/ RegisterConnect \/ UnregisterUnsubscribe \/ UnregisterClose
  PROVE  PresenceInv'
  <1> DEFINE c == run.client
  <1>1. c \in Clients /\ UserOf[c] \in Users
    BY DEF RegisterSubscribe, RegisterConnect, UnregisterUnsubscribe, UnregisterClose,
           TypeOK, RunType, Handlers
  <1>2. stage' = stage /\ Registered' = Registered
    BY DEF RegisterSubscribe, RegisterConnect, UnregisterUnsubscribe, UnregisterClose, hubMaps,
           Registered
  <1> SUFFICES ASSUME ~Faults, stage # "swept", NEW u \in Users
               PROVE  presence'[u] + Arriving(u)' = CountBy(Registered, UserOf, u) + Departing(u)'
    BY <1>2 DEF PresenceInv, CountBy, ClientsOf
  <1>3. presence[u] + Arriving(u) = CountBy(Registered, UserOf, u) + Departing(u)
    BY DEF PresenceInv, CountBy, ClientsOf
  <1>4. presence \in [Users -> Nat] /\ CountBy(Registered, UserOf, u) \in Nat
    BY RegisteredType, CountType DEF TypeOK
  <1>5. CASE RegisterSubscribe \/ UnregisterUnsubscribe
    <2>1. presence' = presence /\ run'.client = c
          /\ \/ run.pc = "subscribe" /\ run'.pc = "connect"
             \/ run.pc = "unsubscribe" /\ run'.pc = "close"
      BY <1>5 DEF RegisterSubscribe, UnregisterUnsubscribe, TypeOK, RunType
    <2>2. Arriving(u)' = Arriving(u) /\ Departing(u)' = Departing(u)
      BY <2>1 DEF Arriving, Departing
    <2> QED BY <1>3, <2>1, <2>2
  <1>6. CASE RegisterConnect
    <2>1. run.pc = "connect" /\ run'.pc = "select"
          /\ presence' = [presence EXCEPT ![UserOf[c]] = @ + 1]
      BY <1>6 DEF RegisterConnect, Idle, CallOutcomes
    <2>2. /\ Arriving(u) = (IF UserOf[c] = u THEN 1 ELSE 0) /\ Departing(u) = 0
          /\ Arriving(u)' = 0 /\ Departing(u)' = 0
      BY <2>1 DEF Arriving, Departing
    <2>3. presence'[u] = presence[u] + (IF UserOf[c] = u THEN 1 ELSE 0)
      BY <1>1, <1>4, <2>1
    <2>4. presence[u] \in Nat BY <1>4
    <2> QED BY <1>3, <1>4, <2>2, <2>3, <2>4
  <1>7. CASE UnregisterClose
    <2>1. c \notin closed BY <1>7 DEF UnregisterClose, CloseInv
    <2>2. run.pc = "close" /\ run'.pc = "select" /\ presence' = Disconnected(presence, UserOf[c])
      BY <1>7, <2>1 DEF UnregisterClose, Idle, CallOutcomes
    <2>3. /\ Departing(u) = (IF UserOf[c] = u THEN 1 ELSE 0) /\ Arriving(u) = 0
          /\ Arriving(u)' = 0 /\ Departing(u)' = 0
      BY <2>2 DEF Arriving, Departing
    <2>4. presence[u] \in Nat BY <1>4
    <2>5. presence'[u] = IF UserOf[c] = u /\ presence[u] > 0 THEN presence[u] - 1
                         ELSE IF UserOf[c] = u THEN 0 ELSE presence[u]
      BY <1>1, <1>4, <2>2 DEF Disconnected
    <2> QED BY <1>3, <1>4, <2>3, <2>4, <2>5
  <1> QED BY <1>5, <1>6, <1>7

\* The tracker is told of the clients between two handlers.
LEMMA SubsCalls ==
  ASSUME TypeOK, SubsInv, RegisterConnect \/ UnregisterClose
  PROVE  SubsInv'
  <1>1. stage' = stage /\ Registered' = Registered /\ subs' = subs
        /\ run.pc \in {"connect", "close"} /\ run'.pc = "select"
    BY DEF RegisterConnect, UnregisterClose, hubMaps, Registered, Idle
  <1> SUFFICES ASSUME stage # "swept", NEW t \in Topics PROVE TopicOK(t)'
    BY <1>1 DEF SubsInv
  <1>2. TopicOK(t) BY DEF SubsInv
  <1>3. HasClients(t)' = HasClients(t) /\ ~Changing(t) /\ ~Changing(t)'
    BY <1>1 DEF HasClients, Changing
  <1> QED BY <1>1, <1>2, <1>3 DEF TopicOK

LEMMA TellInit == Init => SubsInv /\ PresenceInv
  <1> SUFFICES ASSUME Init PROVE SubsInv /\ PresenceInv
    OBVIOUS
  <1>1. Registered = {} /\ run.pc = "select" BY DEF Init, Registered, Idle
  <1>2. SubsInv
    BY <1>1 DEF Init, SubsInv, TopicOK, HasClients, Changing
  <1>3. ASSUME NEW u \in Users PROVE Cardinality(ClientsOf(u)) = 0
    BY <1>1, FS_EmptySet DEF ClientsOf
  <1>4. \A u \in Users : presence[u] = 0 /\ Arriving(u) = 0 /\ Departing(u) = 0
    BY <1>1 DEF Init, Arriving, Departing
  <1> QED BY <1>2, <1>3, <1>4 DEF PresenceInv

LEMMA TellStep ==
  TypeOK /\ CountInv /\ CloseInv /\ SubsInv /\ PresenceInv /\ [Next]_vars
    => SubsInv' /\ PresenceInv'
  <1> SUFFICES ASSUME TypeOK, CountInv, CloseInv, SubsInv, PresenceInv, [Next]_vars
               PROVE  SubsInv' /\ PresenceInv'
    OBVIOUS
  <1>1. CASE UNCHANGED vars
    <2>1. Still BY <1>1 DEF vars, Still, Onward
    <2> QED BY <2>1, StillKeeps
  <1>2. ASSUME NEW c \in Clients,
               \/ Check(c) \/ Refuse(c) \/ Upgrade(c) \/ NotifySend(c) \/ ClientError(c)
               \/ ReadPumpEnds(c) \/ WriteEvent(c) \/ WritePumpEnds(c)
        PROVE  SubsInv' /\ PresenceInv'
    <2>1. UNCHANGED <<channels, subs, presence, stage, run>>
      <3>1. CASE Check(c) \/ Refuse(c) \/ Upgrade(c) \/ ReadPumpEnds(c)
        BY <3>1 DEF Check, Refuse, Upgrade, ReadPumpEnds, hubMaps
      <3>2. CASE NotifySend(c) \/ ClientError(c) \/ WriteEvent(c) \/ WritePumpEnds(c)
        BY <3>2 DEF NotifySend, ClientError, WriteEvent, WritePumpEnds, hubMaps
      <3> QED BY <1>2, <3>1, <3>2
    <2>2. Still BY <2>1 DEF Still, Onward
    <2> QED BY <2>2, StillKeeps
  <1>3. CASE \/ \E ch \in Channels : DeliverLocal(ch) \/ EnqueueBroadcast(ch)
             \/ \E u \in Users : NotifyUser(u)
    <2>1. UNCHANGED <<channels, subs, presence, stage, run>>
      BY <1>3 DEF DeliverLocal, EnqueueBroadcast, NotifyUser, hubMaps
    <2>2. Still BY <2>1 DEF Still, Onward
    <2> QED BY <2>2, StillKeeps
  <1>4. CASE BrokerClose \/ CloseDone
    <2>1. Still BY <1>4 DEF BrokerClose, CloseDone, hubMaps, Still, Onward
    <2> QED BY <2>1, StillKeeps
  <1>5. CASE Sweep
    BY <1>5 DEF Sweep, SubsInv, PresenceInv
  <1>6. CASE Deliver \/ RunReturn \/ \E c \in Clients : DeliverSend(c)
    <2>1. UNCHANGED <<channels, subs, presence, stage>>
      BY <1>6 DEF Deliver, RunReturn, DeliverSend, hubMaps
    <2>2. run.pc \notin Handlers /\ run'.pc \notin Handlers
      <3>1. CASE Deliver
        <4>1. run.pc = "select" /\ run'.pc \in {"select", "deliver"}
          BY <3>1 DEF Deliver, Idle
        <4> QED BY <4>1 DEF Handlers
      <3>2. CASE RunReturn
        BY <3>2 DEF RunReturn, Handlers, TypeOK, RunType
      <3>3. ASSUME NEW c \in Clients, DeliverSend(c)
            PROVE  run.pc \notin Handlers /\ run'.pc \notin Handlers
        <4>1. run.pc = "deliver" /\ run'.pc \in {"select", "deliver"}
          BY <3>3 DEF DeliverSend, Idle, TypeOK, RunType
        <4> QED BY <4>1 DEF Handlers
      <3> QED BY <1>6, <3>1, <3>2, <3>3
    <2>3. Still BY <2>1, <2>2 DEF Still, Onward
    <2> QED BY <2>3, StillKeeps
  <1>7. ASSUME NEW c \in Clients, Register(c) \/ Unregister(c) PROVE SubsInv' /\ PresenceInv'
    BY <1>7, SubsRegister, SubsUnregister, PresenceRegister, PresenceUnregister
  <1>8. CASE RegisterSubscribe \/ RegisterConnect \/ UnregisterUnsubscribe \/ UnregisterClose
    BY <1>8, SubsSubscribe, SubsUnsubscribe, SubsCalls, PresenceCalls
  <1> QED BY <1>1, <1>2, <1>3, <1>4, <1>5, <1>6, <1>7, <1>8 DEF Next, RunStep

LEMMA TellAlways == Spec => [](SubsInv /\ PresenceInv)
  BY TellInit, TellStep, TypeCorrect, CountAlways, CloseAlways, PTL DEF Spec

\* The broker holds one subscription for a channel or user with clients and none
\* for one without, between two handlers of the Run loop, until the sweep.
THEOREM SubscriptionsCorrect == Spec => []SubscriptionsTrackClients
  <1>1. TypeOK /\ CountInv /\ SubsInv => SubscriptionsTrackClients
    <2> SUFFICES ASSUME TypeOK, CountInv, SubsInv, run.pc \notin Handlers, stage # "swept"
                 PROVE  SubscriptionsTrackClients
      BY DEF SubscriptionsTrackClients
    <2>1. ASSUME NEW t \in Topics
          PROVE  /\ subs[t] <= 1 /\ (~HasClients(t) => subs[t] = 0)
                 /\ ~Faults /\ stage = "up" /\ HasClients(t) => subs[t] = 1
      BY <2>1 DEF SubsInv, TopicOK, Changing, Handlers
    <2>2. ASSUME NEW ch \in Channels PROVE HasClients(ch) <=> channels[ch] # {}
      BY ChannelHas DEF CountInv
    <2>3. ASSUME NEW u \in Users PROVE HasClients(u) <=> ClientsOf(u) # {}
      BY UserHas
    <2>4. Channels \subseteq Topics /\ Users \subseteq Topics BY DEF Topics
    <2> QED BY <2>1, <2>2, <2>3, <2>4 DEF SubscriptionsTrackClients
  <1> QED BY <1>1, TypeCorrect, CountAlways, TellAlways, PTL

\* While its calls succeed, the presence tracker counts a user's clients,
\* between two handlers of the Run loop, until the sweep.
THEOREM PresenceCorrect == Spec => []PresenceTracksClients
  <1>1. TypeOK /\ PresenceInv => PresenceTracksClients
    <2> SUFFICES ASSUME TypeOK, PresenceInv, ~Faults, stage # "swept", run.pc \notin Handlers,
                        NEW u \in Users
                 PROVE  presence[u] = Cardinality(ClientsOf(u))
      BY DEF PresenceTracksClients
    <2>1. Arriving(u) = 0 /\ Departing(u) = 0 BY DEF Arriving, Departing, Handlers
    <2>2. presence[u] \in Nat /\ CountBy(Registered, UserOf, u) \in Nat
      BY RegisteredType, CountType DEF TypeOK
    <2>3. Cardinality(ClientsOf(u)) = CountBy(Registered, UserOf, u) BY DEF ClientsOf, CountBy
    <2> QED BY <2>1, <2>2, <2>3 DEF PresenceInv
  <1> QED BY <1>1, TypeCorrect, TellAlways, PTL
=============================================================================
