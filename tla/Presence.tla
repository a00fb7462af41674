------------------------------ MODULE Presence ------------------------------
(***************************************************************************)
(* The Redis presence store (internal/presence/redis_store.go): counters   *)
(* and sets with times to live, the scripts that change them, heartbeats,  *)
(* and the service that reads them.  A tick of the clock is one heartbeat  *)
(* interval; every connected client sends its heartbeat in each.           *)
(***************************************************************************)
EXTENDS Integers, FiniteSets

CONSTANTS
  Users, Channels, Workspaces, WorkspaceOf,
  TTL,          \* PRESENCE_TTL_SECONDS, in heartbeats
  MaxLive,      \* bound: connections of a user to a channel
  MaxOps,       \* bound: connections, crashes and status changes
  Failures      \* may calls of the store fail, and processes stop?

Statuses == {"online", "away", "offline"}

ASSUME PresenceAssumption ==
  /\ IsFiniteSet(Users) /\ IsFiniteSet(Channels)
  /\ WorkspaceOf \in [Channels -> Workspaces]
  /\ TTL \in Nat \ {0} /\ MaxLive \in Nat /\ MaxOps \in Nat /\ Failures \in BOOLEAN

VARIABLES
  wsConn,    \* presence:ws:<user>:<workspace>
  chConn,    \* presence:ch:<user>:<workspace>:<channel>
  hash,      \* presence:<user>
  online,    \* presence:online
  wsOnline,  \* presence:workspace:<workspace>:online
  active,    \* presence:user:<user>:channels
  live,      \* the hubs' clients, per user and channel
  pinged,    \* users whose heartbeat of this interval was sent
  setting,   \* the status that a SetStatus is about to write, or "none"
  told,      \* the last of presence.online and presence.offline, per user
  ops,
  lost       \* observed: a fault has come between the store and the clients

vars == <<wsConn, chConn, hash, online, wsOnline, active, live, pinged, setting, told, ops, lost>>

\* A key lives for `ttl` ticks; EXPIRE sets it, without one it stays for ever.
Forever == TTL + 1
Gone == 0
Counter == [n : Int, ttl : 0..Forever]
Set(S) == [set : SUBSET S, ttl : 0..Forever]
NoCounter == [n |-> 0, ttl |-> Gone]
NoSet == [set |-> {}, ttl |-> Gone]
NoHash == [count |-> 0, status |-> "", ttl |-> Gone]

TypeOK ==
  /\ wsConn \in [Users -> [Workspaces -> Counter]]
  /\ chConn \in [Users -> [Channels -> Counter]]
  /\ hash \in [Users -> [count : Nat, status : Statuses \cup {""}, ttl : 0..Forever]]
  /\ online \in Set(Users)
  /\ wsOnline \in [Workspaces -> Set(Users)]
  /\ active \in [Users -> Set(Channels)]
  /\ live \in [Users -> [Channels -> 0..MaxLive]]
  /\ pinged \subseteq Users
  /\ setting \in [Users -> Statuses \cup {"none"}]
  /\ told \in [Users -> {"online", "offline"}]
  /\ ops \in 0..MaxOps /\ lost \in BOOLEAN

Init ==
  /\ wsConn = [u \in Users |-> [w \in Workspaces |-> NoCounter]]
  /\ chConn = [u \in Users |-> [c \in Channels |-> NoCounter]]
  /\ hash = [u \in Users |-> NoHash]
  /\ online = NoSet
  /\ wsOnline = [w \in Workspaces |-> NoSet]
  /\ active = [u \in Users |-> NoSet]
  /\ live = [u \in Users |-> [c \in Channels |-> 0]]
  /\ pinged = {}
  /\ setting = [u \in Users |-> "none"]
  /\ told = [u \in Users |-> "offline"]
  /\ ops = 0 /\ lost = FALSE

-----------------------------------------------------------------------------
(* Redis.                                                                  *)

Incr(k) == [n |-> k.n + 1, ttl |-> TTL]
Decr(k) == IF k.n <= 1 THEN NoCounter ELSE [k EXCEPT !.n = @ - 1]
Expire(k) == IF k.ttl = Gone THEN k ELSE [k EXCEPT !.ttl = TTL]
SAdd(k, x) == [set |-> k.set \cup {x}, ttl |-> IF k.ttl = Gone THEN Forever ELSE k.ttl]
SRem(k, x) == IF k.set \subseteq {x} THEN NoSet ELSE [k EXCEPT !.set = @ \ {x}]
HSet(k) == [k EXCEPT !.ttl = IF @ = Gone THEN Forever ELSE @]
Age(k, none) ==
  IF k.ttl = Forever THEN k ELSE IF k.ttl <= 1 THEN none ELSE [k EXCEPT !.ttl = @ - 1]

-----------------------------------------------------------------------------
(* What the service shows.                                                 *)

Get(u) == IF hash[u].count <= 0 THEN "offline" ELSE hash[u].status
ListOnline == {u \in online.set : hash[u].count > 0}
ListWorkspacePresence(w) == {u \in wsOnline[w].set : hash[u].count > 0}
ActiveChannels(u) == active[u].set

Live(u) == \E c \in Channels : live[u][c] > 0

-----------------------------------------------------------------------------
(* Operations.                                                             *)

Op == ops < MaxOps /\ ops' = ops + 1

keys == <<wsConn, chConn, hash, online, wsOnline, active>>

\* Mutant: the workspace's set is filled when the user comes online.
ConnectScriptGlobal(u, c) ==
  LET w == WorkspaceOf[c]
      count == hash[u].count + 1
  IN /\ wsConn' = [wsConn EXCEPT ![u][w] = Incr(@)]
     /\ wsOnline' = [wsOnline EXCEPT ![w] = Expire(IF count = 1 THEN SAdd(@, u) ELSE @)]
     /\ chConn' = [chConn EXCEPT ![u][c] = Incr(@)]
     /\ active' = [active EXCEPT ![u] = Expire(IF chConn[u][c].n = 0 THEN SAdd(@, c) ELSE @)]
     /\ hash' = [hash EXCEPT ![u] =
          [count |-> count, status |-> IF count = 1 THEN "online" ELSE @.status, ttl |-> TTL]]
     /\ online' = Expire(IF count = 1 THEN SAdd(online, u) ELSE online)

\* Mutant: the user's key is not given a time to live.
ConnectScriptForever(u, c) ==
  LET w == WorkspaceOf[c]
      count == hash[u].count + 1
  IN /\ wsConn' = [wsConn EXCEPT ![u][w] = Incr(@)]
     /\ wsOnline' = [wsOnline EXCEPT ![w] = Expire(IF wsConn[u][w].n = 0 THEN SAdd(@, u) ELSE @)]
     /\ chConn' = [chConn EXCEPT ![u][c] = Incr(@)]
     /\ active' = [active EXCEPT ![u] = Expire(IF chConn[u][c].n = 0 THEN SAdd(@, c) ELSE @)]
     /\ hash' = [hash EXCEPT ![u] =
          [count |-> count, status |-> IF count = 1 THEN "online" ELSE @.status,
           ttl |-> IF @.ttl = Gone THEN Forever ELSE @.ttl]]
     /\ online' = Expire(IF count = 1 THEN SAdd(online, u) ELSE online)

connectScript(u, c) ==
  LET w == WorkspaceOf[c]
      count == hash[u].count + 1
  IN /\ wsConn' = [wsConn EXCEPT ![u][w] = Incr(@)]
     /\ wsOnline' = [wsOnline EXCEPT ![w] = Expire(IF wsConn[u][w].n = 0 THEN SAdd(@, u) ELSE @)]
     /\ chConn' = [chConn EXCEPT ![u][c] = Incr(@)]
     /\ active' = [active EXCEPT ![u] = Expire(IF chConn[u][c].n = 0 THEN SAdd(@, c) ELSE @)]
     /\ hash' = [hash EXCEPT ![u] =
          [count |-> count, status |-> IF count = 1 THEN "online" ELSE @.status, ttl |-> TTL]]
     /\ online' = Expire(IF count = 1 THEN SAdd(online, u) ELSE online)

\* Mutant: the count may fall below zero.
DisconnectScriptBelow(u, c) ==
  LET w == WorkspaceOf[c]
      count == hash[u].count - 1
  IN /\ wsConn' = [wsConn EXCEPT ![u][w] = Decr(@)]
     /\ wsOnline' = [wsOnline EXCEPT ![w] = IF wsConn[u][w].n <= 1 THEN SRem(@, u) ELSE @]
     /\ chConn' = [chConn EXCEPT ![u][c] = Decr(@)]
     /\ active' = [active EXCEPT ![u] = IF chConn[u][c].n <= 1 THEN SRem(@, c) ELSE @]
     /\ hash' = [hash EXCEPT ![u] =
          [count |-> count, status |-> IF count <= 0 THEN "offline" ELSE @.status, ttl |-> TTL]]
     /\ online' = IF count <= 0 THEN SRem(online, u) ELSE online

disconnectScript(u, c) ==
  LET w == WorkspaceOf[c]
      count == IF hash[u].count <= 1 THEN 0 ELSE hash[u].count - 1
  IN /\ wsConn' = [wsConn EXCEPT ![u][w] = Decr(@)]
     /\ wsOnline' = [wsOnline EXCEPT ![w] = IF wsConn[u][w].n <= 1 THEN SRem(@, u) ELSE @]
     /\ chConn' = [chConn EXCEPT ![u][c] = Decr(@)]
     /\ active' = [active EXCEPT ![u] = IF chConn[u][c].n <= 1 THEN SRem(@, c) ELSE @]
     /\ hash' = [hash EXCEPT ![u] =
          [count |-> count, status |-> IF count = 0 THEN "offline" ELSE @.status, ttl |-> TTL]]
     /\ online' = IF count = 0 THEN SRem(online, u) ELSE online

\* A client registers.  The hub keeps it when the store's call fails.
Connect(u, c) ==
  /\ Op
  /\ live[u][c] < MaxLive
  /\ live' = [live EXCEPT ![u][c] = @ + 1]
  /\ \/ /\ connectScript(u, c)
        /\ told' = [told EXCEPT ![u] = IF hash[u].count = 0 THEN "online" ELSE @]
        /\ UNCHANGED lost
     \/ Failures /\ lost' = TRUE /\ UNCHANGED <<keys, told>>
  /\ UNCHANGED <<pinged, setting>>

Disconnect(u, c) ==
  /\ live[u][c] > 0
  /\ live' = [live EXCEPT ![u][c] = @ - 1]
  /\ \/ /\ disconnectScript(u, c)
        /\ told' = [told EXCEPT ![u] = IF hash[u].count <= 1 THEN "offline" ELSE @]
        /\ UNCHANGED lost
     \/ Failures /\ lost' = TRUE /\ UNCHANGED <<keys, told>>
  /\ UNCHANGED <<pinged, setting, ops>>

\* An instance stops, and the user's clients with it.
Crash(u) ==
  /\ Failures
  /\ Op
  /\ Live(u)
  /\ live' = [live EXCEPT ![u] = [c \in Channels |-> 0]]
  /\ lost' = TRUE
  /\ UNCHANGED <<keys, pinged, setting, told>>

\* Touch, on the heartbeat of a client: the user's key, the global set and the
\* set of channels; not the workspace's set, nor the counters.
Touch(u) ==
  /\ Live(u) /\ u \notin pinged
  /\ pinged' = pinged \cup {u}
  /\ \/ /\ hash' = [hash EXCEPT ![u] = Expire(HSet(@))]
        /\ online' = Expire(online)
        /\ active' = [active EXCEPT ![u] = Expire(@)]
        /\ UNCHANGED lost
     \/ Failures /\ lost' = TRUE /\ UNCHANGED <<hash, online, active>>
  /\ UNCHANGED <<wsConn, chConn, wsOnline, live, setting, told, ops>>

\* SetStatus reads the count and writes the status in two round trips.
SetStatusRead(u, s) ==
  /\ Op
  /\ setting[u] = "none"
  /\ setting' = [setting EXCEPT ![u] = IF hash[u].count > 0 /\ s = "offline" THEN "away" ELSE s]
  /\ UNCHANGED <<keys, live, pinged, told, lost>>

SetStatusWrite(u) ==
  /\ setting[u] # "none"
  /\ hash' = [hash EXCEPT ![u] = Expire(HSet([@ EXCEPT !.status = setting[u]]))]
  /\ setting' = [setting EXCEPT ![u] = "none"]
  /\ lost' = (lost \/ (setting[u] = "offline" /\ hash[u].count > 0))
  /\ UNCHANGED <<wsConn, chConn, online, wsOnline, active, live, pinged, told, ops>>

\* Does a key that tells of a connected client expire with this tick?
LosesLive ==
  \E u \in Users : Live(u) /\
    \/ 1 \in {hash[u].ttl, online.ttl, active[u].ttl}
    \/ \E c \in Channels : /\ live[u][c] > 0
                           /\ 1 \in {chConn[u][c].ttl, wsConn[u][WorkspaceOf[c]].ttl,
                                     wsOnline[WorkspaceOf[c]].ttl}

Tick ==
  /\ \A u \in Users : Live(u) => u \in pinged
  /\ pinged' = {}
  /\ wsConn' = [u \in Users |-> [w \in Workspaces |-> Age(wsConn[u][w], NoCounter)]]
  /\ chConn' = [u \in Users |-> [c \in Channels |-> Age(chConn[u][c], NoCounter)]]
  /\ hash' = [u \in Users |-> Age(hash[u], NoHash)]
  /\ online' = Age(online, NoSet)
  /\ wsOnline' = [w \in Workspaces |-> Age(wsOnline[w], NoSet)]
  /\ active' = [u \in Users |-> Age(active[u], NoSet)]
  /\ lost' = (lost \/ LosesLive)
  /\ UNCHANGED <<live, setting, told, ops>>

Next ==
  \/ \E u \in Users :
       \/ \E c \in Channels : Connect(u, c) \/ Disconnect(u, c)
       \/ \E s \in Statuses : SetStatusRead(u, s)
       \/ SetStatusWrite(u) \/ Touch(u) \/ Crash(u)
  \/ Tick

\* Clocks run and connected clients send heartbeats.
Fairness == WF_vars(Tick) /\ \A u \in Users : WF_vars(Touch(u))

Spec == Init /\ [][Next]_vars /\ Fairness

-----------------------------------------------------------------------------
(* Properties.                                                             *)

None == [u \in Users |-> [c \in Channels |-> 0]]
Empty == [online |-> {}, listed |-> [w \in Workspaces |-> {}], active |-> [u \in Users |-> {}]]
Off == [u \in Users |-> "offline"]

\* What a reader of the store sees of it, as PresenceStore tells it.
Conns == IF lost THEN None ELSE [u \in Users |-> [c \in Channels |-> chConn[u][c].n]]
ShownStatus == IF lost THEN Off ELSE [u \in Users |-> Get(u)]
ToldNow == IF lost THEN Off ELSE told
Lists ==
  IF lost THEN Empty
  ELSE [online |-> ListOnline,
        listed |-> [w \in Workspaces |-> ListWorkspacePresence(w)],
        active |-> [u \in Users |-> ActiveChannels(u)]]

Store == INSTANCE PresenceStore WITH
  conns <- Conns, status <- ShownStatus, told <- ToldNow, shown <- Lists

\* The Redis store does what module PresenceStore says (counts, lists, status
\* and events fit together), until a call fails, a process stops, a key of a
\* connected client expires, or SetStatus("offline") is overtaken by the first
\* connection.
ImplementsStore == Store!Spec

\* docs/BACKEND_TASKS.md: "TTL / heartbeat for stale presence cleanup".  After
\* whatever faults, a user without connections is off the list in the end.
StaleFades ==
  \A u \in Users : <>[]~Live(u) => <>[](u \notin ListOnline)

\* docs/DEPLOYMENT.md: "WebSocket heartbeat pings refresh key TTL".  A member
\* who is connected to a workspace and sends heartbeats is listed there.
ListedWhileConnected ==
  \A u \in Users, c \in Channels :
    live[u][c] > 0 => u \in ListWorkspacePresence(WorkspaceOf[c])
=============================================================================
