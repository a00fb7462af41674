--------------------------- MODULE PresenceStore ---------------------------
(***************************************************************************)
(* What internal/presence promises, whichever store is behind it: the      *)
(* connections of each user, and what the API and the events tell of them. *)
(* The in-memory store does each operation in one step under its mutex;    *)
(* module Presence shows how far the Redis store implements the same.      *)
(***************************************************************************)
EXTENDS Naturals

CONSTANTS Users, Channels, Workspaces, WorkspaceOf   \* channels belong to workspaces

VARIABLES
  conns,   \* connections per user and channel
  status,  \* the status that Get shows
  told,    \* the last of presence.online and presence.offline, per user
  shown,   \* what the lists show
  lost     \* a fault has ended the promise

vars == <<conns, status, told, shown, lost>>

Connected(f) == \E c \in Channels : f[c] > 0

\* ListOnline, ListWorkspaceOnlineUserIDs and ActiveChannels.
Shown(c) ==
  [online |-> {u \in Users : Connected(c[u])},
   listed |-> [w \in Workspaces |->
                {u \in Users : \E ch \in Channels : WorkspaceOf[ch] = w /\ c[u][ch] > 0}],
   active |-> [u \in Users |-> {ch \in Channels : c[u][ch] > 0}]]

NoConns == [u \in Users |-> [c \in Channels |-> 0]]
AllOffline == [u \in Users |-> "offline"]

Init ==
  /\ conns = NoConns
  /\ status = AllOffline
  /\ told = AllOffline
  /\ shown = Shown(conns)
  /\ lost = FALSE

\* The first connection brings a user online.  A status "away" that was set
\* before is kept by the in-memory store and replaced by the Redis store.
Connect(u, c) ==
  /\ ~lost
  /\ conns' = [conns EXCEPT ![u][c] = @ + 1]
  /\ IF ~Connected(conns[u])
     THEN /\ told' = [told EXCEPT ![u] = "online"]
          /\ \E s \in {"online", "away"} : status' = [status EXCEPT ![u] = s]
     ELSE UNCHANGED <<told, status>>
  /\ shown' = Shown(conns')
  /\ UNCHANGED lost

\* The last one takes them offline.
Disconnect(u, c) ==
  /\ ~lost
  /\ conns[u][c] > 0
  /\ conns' = [conns EXCEPT ![u][c] = @ - 1]
  /\ IF ~Connected(conns'[u])
     THEN told' = [told EXCEPT ![u] = "offline"] /\ status' = [status EXCEPT ![u] = "offline"]
     ELSE UNCHANGED <<told, status>>
  /\ shown' = Shown(conns')
  /\ UNCHANGED lost

\* A connected user is never offline; who is not connected shows offline.
SetStatus(u, s) ==
  /\ ~lost
  /\ Connected(conns[u])
  /\ status' = [status EXCEPT ![u] = IF s = "offline" THEN "away" ELSE s]
  /\ UNCHANGED <<conns, told, shown, lost>>

Lose ==
  /\ lost' = TRUE
  /\ conns' = NoConns /\ status' = AllOffline /\ told' = AllOffline /\ shown' = Shown(NoConns)

Next ==
  \/ \E u \in Users, c \in Channels : Connect(u, c) \/ Disconnect(u, c)
  \/ \E u \in Users, s \in {"online", "away", "offline"} : SetStatus(u, s)
  \/ Lose

Spec == Init /\ [][Next]_vars
=============================================================================
