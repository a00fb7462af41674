---------------------------- MODULE MembersProofs ----------------------------
(***************************************************************************)
(* Proofs about Members, for any number of users, workspaces, channels and *)
(* requests in flight, and any requests.                                   *)
(*                                                                         *)
(* A step replaces the record of one request and changes at most one of    *)
(* the tables.  RequestsOK says what a request may rely on at each point,  *)
(* although the tables change under it: that the workspace which let it in *)
(* keeps its owner, and that channels keep theirs.                         *)
(***************************************************************************)
EXTENDS Members, FiniteSetTheorems, TLAPS

USE DEF events

-----------------------------------------------------------------------------
(* The inductive invariant.                                                *)

\* The points of a request that a workspace has let in.
Admitted == {"assign", "target", "present", "insertMember", "reread", "write", "readOnly",
             "insertChannel", "addCreator", "channel", "isMember", "row", "announce"}

\* Which operation a request at each point can be of.
FlowOK(r) ==
  /\ r.pc # "idle" => r.body \in Inputs
  /\ r.pc \in {"slug", "insertWorkspace", "addOwner"} => r.body.kind = "createWorkspace"
  /\ r.pc = "insertWorkspace" => r.body.name # NoName
  /\ r.pc = "member" => r.body.kind \in {"createChannel", "join", "leave"}
  /\ r.pc = "assign" => r.body.kind \in {"add", "role"}
  /\ r.pc = "target" => r.body.kind \in {"remove", "role"}
  /\ r.pc \in {"present", "insertMember", "reread"} => r.body.kind = "add"
  /\ r.pc \in {"readOnly", "insertChannel", "addCreator"} => r.body.kind = "createChannel"
  /\ r.pc \in {"channel", "announce"} => r.body.kind \in {"join", "leave"}
  /\ r.pc = "isMember" => r.body.kind = "join"
  /\ r.pc = "row" => r.body.kind = "leave"
  /\ r.pc = "write" => r.body.kind \in {"remove", "role", "join", "leave"}

HasOwner(w) == w \in 1..Len(workspaces) /\ members[w][workspaces[w].owner] = "owner"

\* A request that was let in is about a workspace with an owner; one that is
\* about to remove or to demote has not picked the owner.
WorkspaceOK(r) ==
  /\ r.pc \in {"can", "member"} => r.body.ws \in 1..Len(workspaces)
  /\ r.pc \in Admitted => HasOwner(r.body.ws)
  /\ r.pc = "write" /\ r.body.kind \in {"remove", "role"} =>
       r.body.target # workspaces[r.body.ws].owner

\* The role with which a request got where it is.
RoleOK(r) ==
  /\ r.pc = "target" /\ r.body.kind = "remove" => r.seen \in {"owner", "admin"}
  /\ r.pc = "write" /\ r.body.kind = "remove" => r.seen \in {"owner", "admin"}
  /\ \/ r.pc \in {"present", "insertMember"}
     \/ r.pc \in {"target", "write"} /\ r.body.kind = "role"
     => ParseRole(r.body.role) /\ r.body.role \in AssignableRoles(r.seen)
  /\ r.pc \in {"readOnly", "insertChannel"} => r.seen \in {"owner", "admin", "moderator"}
  /\ r.pc = "insertChannel" /\ r.body.readOnly => r.seen \in {"owner", "admin"}
  /\ r.pc \in {"channel", "isMember"} => r.seen # "none"
  /\ r.pc = "write" /\ r.body.kind = "join" => r.seen # "none"

\* A request at a channel has found it, and is not its owner's if it leaves.
ChannelOK(r) ==
  /\ \/ r.pc \in {"isMember", "row", "announce"}
     \/ r.pc = "write" /\ r.body.kind \in {"join", "leave"}
     => r.body.channel \in 1..Len(channels)
  /\ r.pc \in {"row", "write", "announce"} /\ r.body.kind = "leave" =>
       r.body.actor # channels[r.body.channel].owner
  /\ r.pc = "addCreator" => /\ r.id \in 1..Len(channels)
                            /\ channels[r.id].owner = r.body.actor

RequestOK(r) == FlowOK(r) /\ WorkspaceOK(r) /\ RoleOK(r) /\ ChannelOK(r)
RequestsOK == \A p \in Requests : RequestOK(req[p])

\* A workspace is empty until its creator is in.
CreationOK ==
  /\ \A w \in 1..MaxWorkspaces : w > Len(workspaces) => \A u \in Users : members[w][u] = "none"
  /\ \A p \in Requests : At(p, "addOwner") =>
       /\ req[p].id \in 1..Len(workspaces)
       /\ workspaces[req[p].id].owner = req[p].body.actor
       /\ \A u \in Users : members[req[p].id][u] = "none"
       /\ \A q \in Requests : At(q, "addOwner") /\ req[q].id = req[p].id => p = q

\* Nobody is said to have left their own channel.
SaidOK ==
  \A c \in 1..MaxChannels, u \in Users :
    said[c][u].word = "left" => c \in 1..Len(channels) /\ u # channels[c].owner

\* The last event published says what the table says, or was overtaken.
LatestTrue ==
  \A c \in 1..MaxChannels, u \in Users :
    Announcing(c, u) \/ <<c, u>> \in blurred \/ Holds(said[c][u].word, c, u)

\* Those who are about to be invited to a workspace.
Rereading(u) == {p \in Requests : At(p, "reread") /\ req[p].body.target = u}
InvitesOK == \A u \in Users : invites[u] + Cardinality(Rereading(u)) <= adds[u]

MembersInv ==
  /\ TypeOK /\ RequestsOK /\ CreationOK /\ SaidOK
  /\ OwnersStay /\ MatrixKept /\ LatestTrue /\ InvitesOK
-----------------------------------------------------------------------------
(* Requests, one at a time.                                                *)

\* What the constants are taken to be.
LEMMA InputsTyped ==
  \A i \in Inputs :
    /\ i \in Input
    /\ i.kind = "createWorkspace" => i.name \in Slugs \cup {NoName}
    /\ i.kind = "createChannel" => i.name \in Names
    /\ i.kind \in {"add", "remove", "role"} => i.target \in Users
  BY MembersAssumption

LEMMA BoundsTyped ==
  MaxWorkspaces \in Nat \ {0} /\ MaxChannels \in Nat \ {0} /\ MaxBegun \in Nat
  BY MembersAssumption

LEMMA IdleTyped == Idle \in Request /\ Idle.pc = "idle"
  <1>1. NoBody \in Input
    <2>1. Owner \in Users /\ 1 \in 1..MaxWorkspaces /\ 0 \in 0..MaxChannels
      BY MembersAssumption
    <2> QED BY <2>1 DEF NoBody, Input, Kinds, Role
  <1> QED BY <1>1 DEF Idle, Request, Points, Role

\* A step of request p.
Only(p) ==
  /\ req' \in [Requests -> Request]
  /\ \A q \in Requests : q # p => req'[q] = req[q]

\* The request ends.
LEMMA ReturnForm ==
  ASSUME TypeOK, NEW p \in Requests, Return(p)
  PROVE  Only(p) /\ req'[p].pc = "idle" /\ RequestOK(req[p])'
  <1>1. Only(p) /\ req'[p] = Idle
    BY IdleTyped DEF TypeOK, Return, Only
  <1> QED BY <1>1, IdleTyped DEF RequestOK, FlowOK, WorkspaceOK, RoleOK, ChannelOK, Admitted

\* The request goes on.
LEMMA GotoForm ==
  ASSUME TypeOK, NEW p \in Requests, NEW pc \in Points, Goto(p, pc)
  PROVE  /\ Only(p) /\ req'[p].pc = pc
         /\ req'[p].body = req[p].body /\ req'[p].seen = req[p].seen /\ req'[p].id = req[p].id
  BY DEF TypeOK, Goto, Only, Request

\* The types of what a request holds.
LEMMA Typed ==
  ASSUME TypeOK, NEW p \in Requests
  PROVE  /\ req[p] \in Request /\ req[p].pc \in Points
         /\ req[p].seen \in Role /\ req[p].id \in Nat
         /\ req[p].body \in Input /\ req[p].body.actor \in Users
         /\ req[p].body.ws \in 1..MaxWorkspaces /\ req[p].body.channel \in 0..MaxChannels
         /\ req[p].body.kind \in Kinds /\ req[p].body.readOnly \in BOOLEAN
         /\ members[req[p].body.ws][req[p].body.actor] \in Role
  <1>1. req[p] \in Request BY DEF TypeOK
  <1>2. /\ req[p].pc \in Points /\ req[p].seen \in Role /\ req[p].id \in Nat
        /\ req[p].body \in Input
    BY <1>1 DEF Request
  <1>3. /\ req[p].body.actor \in Users
        /\ req[p].body.ws \in 1..MaxWorkspaces /\ req[p].body.channel \in 0..MaxChannels
        /\ req[p].body.kind \in Kinds /\ req[p].body.readOnly \in BOOLEAN
    BY <1>2 DEF Input
  <1>4. members[req[p].body.ws][req[p].body.actor] \in Role
    BY <1>3 DEF TypeOK
  <1> QED BY <1>1, <1>2, <1>3, <1>4

-----------------------------------------------------------------------------
(* What a step leaves alone.                                               *)

\* Rows are added and owners stay in.
Grow ==
  /\ Len(workspaces) <= Len(workspaces')
  /\ \A w \in 1..Len(workspaces) : workspaces'[w] = workspaces[w]
  /\ Len(channels) <= Len(channels')
  /\ \A c \in 1..Len(channels) : channels'[c] = channels[c]
  /\ \A w \in 1..Len(workspaces) :
       members[w][workspaces[w].owner] = "owner" => members'[w][workspaces[w].owner] = "owner"

LEMMA Lengths ==
  ASSUME TypeOK
  PROVE  Len(workspaces) \in Nat /\ Len(channels) \in Nat
  BY DEF TypeOK

LEMMA ChannelIds ==
  ASSUME TypeOK
  PROVE  1..Len(channels) \subseteq 1..MaxChannels
  <1>1. Len(channels) \in Nat /\ Len(channels) <= MaxChannels /\ MaxChannels \in Nat
    BY BoundsTyped DEF TypeOK
  <1> QED BY <1>1

LEMMA RowTyped ==
  ASSUME NEW S, NEW s \in Seq(S), NEW i \in 1..Len(s)
  PROVE  s[i] \in S
  OBVIOUS

\* The requests that do not take the step may go on as before.
LEMMA KeepRequests ==
  ASSUME TypeOK, TypeOK', RequestsOK, NEW p \in Requests, Only(p), RequestOK(req[p])', Grow
  PROVE  RequestsOK'
  <1> SUFFICES ASSUME NEW q \in Requests, q # p PROVE RequestOK(req[q])'
    BY DEF RequestsOK
  <1>1. req'[q] = req[q] BY DEF Only
  <1>2. RequestOK(req[q]) BY DEF RequestsOK
  <1>3. /\ Len(workspaces) \in Nat /\ Len(channels) \in Nat
        /\ Len(workspaces') \in Nat /\ Len(channels') \in Nat
    BY DEF TypeOK
  <1>4. FlowOK(req[q])' BY <1>1, <1>2 DEF RequestOK, FlowOK
  <1>5. WorkspaceOK(req[q])'
    <2> DEFINE w == req[q].body.ws
    <2>1. w \in 1..Len(workspaces) => w \in 1..Len(workspaces') /\ workspaces'[w] = workspaces[w]
      BY <1>3 DEF Grow
    <2>2. HasOwner(w) => HasOwner(w)'
      BY <1>1, <2>1 DEF Grow, HasOwner
    <2>3. WorkspaceOK(req[q]) BY <1>2 DEF RequestOK
    <2>4. HasOwner(w) => w \in 1..Len(workspaces) BY DEF HasOwner
    <2>5. req[q].pc = "write" => HasOwner(w) BY <2>3 DEF WorkspaceOK, Admitted
    <2> QED BY <1>1, <2>1, <2>2, <2>3, <2>4, <2>5 DEF WorkspaceOK
  <1>6. RoleOK(req[q])' BY <1>1, <1>2 DEF RequestOK, RoleOK
  <1>7. ChannelOK(req[q])' BY <1>1, <1>2, <1>3 DEF RequestOK, ChannelOK, Grow
  <1> QED BY <1>4, <1>5, <1>6, <1>7 DEF RequestOK

LEMMA GrowSame == ASSUME TypeOK, UNCHANGED tables PROVE Grow
  BY DEF TypeOK, Grow, tables

\* A step that neither makes a workspace nor touches the members of one.
LEMMA KeepCreation ==
  ASSUME CreationOK, NEW p \in Requests, Only(p), req'[p].pc # "addOwner",
         UNCHANGED <<workspaces, members>>
  PROVE  CreationOK'
  BY DEF CreationOK, Only, At

LEMMA KeepSaid ==
  ASSUME SaidOK, UNCHANGED <<channels, said>>
  PROVE  SaidOK'
  BY DEF SaidOK

LEMMA KeepOwners ==
  ASSUME OwnerStays, NEW p \in Requests, Only(p), cut \subseteq cut',
         ~At(p, "addOwner") \/ <<"workspace", req[p].id>> \in cut',
         UNCHANGED <<workspaces, members>>
  PROVE  OwnerStays'
  <1>1. \A w : Creating("workspace", "addOwner", w) => Creating("workspace", "addOwner", w)'
    BY DEF Creating, Only, At
  <1> QED BY <1>1 DEF OwnerStays

LEMMA KeepChannelOwners ==
  ASSUME ChannelOwnerStays, NEW p \in Requests, Only(p), cut \subseteq cut',
         ~At(p, "addCreator") \/ <<"channel", req[p].id>> \in cut',
         UNCHANGED <<channels, channelMembers>>
  PROVE  ChannelOwnerStays'
  BY DEF ChannelOwnerStays, Creating, Only, At

LEMMA KeepMatrix ==
  ASSUME MatrixKept, UNCHANGED writes
  PROVE  MatrixKept'
  BY DEF MatrixKept

LEMMA KeepLatest ==
  ASSUME LatestTrue, NEW p \in Requests, Only(p), blurred \subseteq blurred',
         ~At(p, "announce") \/ <<req[p].body.channel, req[p].body.actor>> \in blurred',
         UNCHANGED <<channelMembers, said>>
  PROVE  LatestTrue'
  <1>1. ASSUME NEW c, NEW u, Announcing(c, u)
        PROVE  Announcing(c, u)' \/ <<c, u>> \in blurred'
    BY <1>1 DEF Announcing, Only, At
  <1>2. \A word, c, u : Holds(word, c, u)' <=> Holds(word, c, u)
    BY DEF Holds
  <1> QED BY <1>1, <1>2 DEF LatestTrue

LEMMA RereadingFinite ==
  ASSUME NEW u
  PROVE  IsFiniteSet(Rereading(u)) /\ Cardinality(Rereading(u)) \in Nat
  <1>1. Rereading(u) \in SUBSET Requests /\ IsFiniteSet(Requests)
    BY MembersAssumption DEF Rereading
  <1> QED BY <1>1, FS_Subset, FS_CardinalityType

LEMMA KeepInvites ==
  ASSUME TypeOK, InvitesOK, NEW p \in Requests, Only(p), req'[p].pc # "reread",
         UNCHANGED <<adds, invites>>
  PROVE  InvitesOK'
  <1> SUFFICES ASSUME NEW u \in Users
               PROVE  invites[u] + Cardinality(Rereading(u)') <= adds[u]
    BY DEF InvitesOK
  <1>1. Rereading(u)' \subseteq Rereading(u)
    BY DEF Rereading, Only, At
  <1>2. /\ Cardinality(Rereading(u)') <= Cardinality(Rereading(u))
        /\ Cardinality(Rereading(u)') \in Nat
    BY <1>1, RereadingFinite, FS_Subset, FS_CardinalityType
  <1>3. invites[u] + Cardinality(Rereading(u)) <= adds[u]
    BY DEF InvitesOK
  <1>4. invites[u] \in Nat /\ adds[u] \in Nat /\ Cardinality(Rereading(u)) \in Nat
    BY RereadingFinite DEF TypeOK
  <1> QED BY <1>2, <1>3, <1>4

\* A step that touches no table and is not one of an announcement or creation.
LEMMA Quiet ==
  ASSUME MembersInv, NEW p \in Requests, Only(p), RequestOK(req[p])',
         req'[p].pc \notin {"addOwner", "reread"},
         req[p].pc \notin {"addOwner", "addCreator", "announce"},
         begun' \in 0..MaxBegun, UNCHANGED <<tables, observed>>
  PROVE  MembersInv'
  <1> USE DEF MembersInv, OwnersStay
  <1>1. TypeOK' BY DEF TypeOK, tables, observed, Only
  <1>2. RequestsOK' BY <1>1, GrowSame, KeepRequests
  <1>3. CreationOK' BY KeepCreation DEF tables
  <1>4. SaidOK' BY KeepSaid DEF tables, observed
  <1>5. OwnerStays' BY KeepOwners DEF tables, observed, At
  <1>6. ChannelOwnerStays' BY KeepChannelOwners DEF tables, observed, At
  <1>7. MatrixKept' BY KeepMatrix DEF observed
  <1>8. LatestTrue' BY KeepLatest DEF tables, observed, At
  <1>9. InvitesOK' BY KeepInvites DEF observed
  <1> QED BY <1>1, <1>2, <1>3, <1>4, <1>5, <1>6, <1>7, <1>8, <1>9
\* A request ends before it has written anything that others wait for.
LEMMA Ends ==
  ASSUME MembersInv, NEW p \in Requests, Return(p),
         req[p].pc \notin {"addOwner", "addCreator", "announce"},
         UNCHANGED <<tables, begun, observed>>
  PROVE  MembersInv'
  <1>1. Only(p) /\ req'[p].pc = "idle" /\ RequestOK(req[p])'
    BY ReturnForm DEF MembersInv
  <1>2. begun' \in 0..MaxBegun BY DEF MembersInv, TypeOK
  <1> QED BY <1>1, <1>2, Quiet

-----------------------------------------------------------------------------
(* The steps that only read.                                               *)

\* A workspace in which anybody has a role has its owner.
LEMMA Entered ==
  ASSUME MembersInv, NEW w \in 1..Len(workspaces), NEW u \in Users, members[w][u] # "none"
  PROVE  HasOwner(w)
  BY DEF MembersInv, OwnersStay, OwnerStays, HasOwner

LEMMA ArriveInv ==
  ASSUME MembersInv, NEW p \in Requests, NEW i \in Inputs, Arrive(p, i)
  PROVE  MembersInv'
  <1> DEFINE r == [Idle EXCEPT !.pc = FirstPoint(i.kind), !.body = i]
  <1>1. i \in Input BY InputsTyped
  <1>2. /\ FirstPoint(i.kind) \in {"slug", "can", "member"}
        /\ (FirstPoint(i.kind) = "slug" <=> i.kind = "createWorkspace")
        /\ FirstPoint(i.kind) = "member" => i.kind \in {"createChannel", "join", "leave"}
    BY <1>1 DEF FirstPoint, Input, Kinds
  <1>3. r \in Request /\ r.pc = FirstPoint(i.kind) /\ r.body = i
    BY <1>1, <1>2, IdleTyped DEF Request, Points, Idle
  <1>4. req' = [req EXCEPT ![p] = r] BY DEF Arrive
  <1> HIDE DEF r
  <1>5. Only(p) /\ req'[p] = r
    BY <1>3, <1>4 DEF Only, MembersInv, TypeOK
  <1>6. /\ i.kind # "createWorkspace" => i.ws \in 1..Len(workspaces)
        /\ req[p].pc = "idle" /\ begun' \in 0..MaxBegun
        /\ UNCHANGED <<tables, observed>>
    <2>1. i.ws \in 1..MaxWorkspaces BY <1>1 DEF Input
    <2>2. Len(workspaces) \in Nat /\ begun \in Nat BY BoundsTyped DEF MembersInv, TypeOK
    <2> QED BY <2>1, <2>2, BoundsTyped DEF Arrive, At
  <1>7. RequestOK(req[p])'
    BY <1>2, <1>3, <1>5, <1>6
    DEF RequestOK, FlowOK, WorkspaceOK, RoleOK, ChannelOK, Admitted, tables
  <1> QED BY <1>2, <1>3, <1>5, <1>6, <1>7, Quiet

LEMMA CheckSlugInv ==
  ASSUME MembersInv, NEW p \in Requests, CheckSlug(p)
  PROVE  MembersInv'
  <1>1. req[p].pc = "slug" /\ UNCHANGED <<tables, begun, observed>>
    BY DEF CheckSlug, At
  <1>2. CASE Return(p) BY <1>1, <1>2, Ends
  <1>3. CASE req[p].body.name # NoName /\ Goto(p, "insertWorkspace")
    <2>1. /\ Only(p) /\ req'[p].pc = "insertWorkspace" /\ req'[p].body = req[p].body
          /\ begun' \in 0..MaxBegun
      BY <1>1, <1>3, GotoForm DEF MembersInv, TypeOK, Points
    <2>2. FlowOK(req[p]) BY DEF MembersInv, RequestsOK, RequestOK
    <2>3. RequestOK(req[p])'
      BY <1>1, <1>3, <2>1, <2>2
      DEF RequestOK, FlowOK, WorkspaceOK, RoleOK, ChannelOK, Admitted
    <2> QED BY <1>1, <2>1, <2>3, Quiet
  <1> QED BY <1>2, <1>3 DEF CheckSlug, If

LEMMA CanInv ==
  ASSUME MembersInv, NEW p \in Requests, Can(p)
  PROVE  MembersInv'
  <1> DEFINE b == req[p].body
             role == members[b.ws][b.actor]
             to == AfterCan(b.kind, b.readOnly)
  <1>1. req[p].pc = "can" /\ UNCHANGED <<tables, begun, observed>>
    BY DEF Can, At
  <1>2. CASE Return(p) BY <1>1, <1>2, Ends
  <1>3. CASE /\ Allowed(role, b.kind)
             /\ req' = [req EXCEPT ![p].pc = to, ![p].seen = role]
    <2>1. /\ role \in {"owner", "admin", "moderator"}
          /\ b.kind \in {"add", "remove", "role", "createChannel"}
          /\ b.kind \in {"add", "remove", "role"} => role \in {"owner", "admin"}
      BY <1>3 DEF Allowed
    <2>2. FlowOK(req[p]) /\ b.ws \in 1..Len(workspaces)
      BY <1>1 DEF MembersInv, RequestsOK, RequestOK, WorkspaceOK
    <2>3. b.actor \in Users /\ b.readOnly \in BOOLEAN /\ role \in Role
      BY Typed DEF MembersInv
    <2>4. HasOwner(b.ws) BY <2>1, <2>2, <2>3, Entered
    <2> HIDE DEF role
    <2>5. /\ to \in Points
          /\ b.kind \in {"add", "role"} => to = "assign"
          /\ b.kind = "remove" => to = "target"
          /\ b.kind = "createChannel" =>
               to = IF b.readOnly THEN "readOnly" ELSE "insertChannel"
      BY <2>1, <2>3 DEF AfterCan, Points
    <2> HIDE DEF to
    <2>6. /\ Only(p) /\ req'[p].pc = to
          /\ req'[p].body = b /\ req'[p].seen = role /\ begun' \in 0..MaxBegun
      <3>1. req \in [Requests -> Request] BY DEF MembersInv, TypeOK
      <3>2. req' = [req EXCEPT ![p].pc = to, ![p].seen = role] BY <1>3
      <3>3. to \in Points /\ role \in Role BY <2>3, <2>5
      <3>4. begun' \in 0..MaxBegun BY <1>1 DEF MembersInv, TypeOK
      <3> QED BY <3>1, <3>2, <3>3, <3>4 DEF Only, Request
    <2>7. HasOwner(req[p].body.ws)' BY <1>1, <2>4, <2>6 DEF HasOwner, tables
    <2>8. RequestOK(req[p])'
      BY <1>1, <2>1, <2>2, <2>3, <2>5, <2>6, <2>7
      DEF RequestOK, FlowOK, WorkspaceOK, RoleOK, ChannelOK, Admitted
    <2>9. req'[p].pc \notin {"addOwner", "reread"}
      BY <2>1, <2>5, <2>6
    <2> QED BY <1>1, <2>6, <2>8, <2>9, Quiet
  <1> QED BY <1>2, <1>3 DEF Can, GetWorkspaceMember

LEMMA CanAssignRoleInv ==
  ASSUME MembersInv, NEW p \in Requests, CanAssignRole(p)
  PROVE  MembersInv'
  <1> DEFINE b == req[p].body
             role == members[b.ws][b.actor]
             to == IF b.kind = "add" THEN "present" ELSE "target"
  <1>1. req[p].pc = "assign" /\ UNCHANGED <<tables, begun, observed>>
    BY DEF CanAssignRole, At
  <1>2. CASE Return(p) BY <1>1, <1>2, Ends
  <1>3. CASE /\ ParseRole(b.role) /\ b.role \in AssignableRoles(role)
             /\ req' = [req EXCEPT ![p].pc = to, ![p].seen = role]
    <2>1. FlowOK(req[p]) /\ WorkspaceOK(req[p])
      BY DEF MembersInv, RequestsOK, RequestOK
    <2>2. /\ role \in Role /\ to \in Points
          /\ (b.kind = "add" /\ to = "present") \/ (b.kind # "add" /\ to = "target")
      BY Typed DEF MembersInv, Points
    <2> HIDE DEF role, to
    <2>3. /\ Only(p) /\ req'[p].pc = to /\ req'[p].body = b /\ req'[p].seen = role
      <3>1. req \in [Requests -> Request] BY DEF MembersInv, TypeOK
      <3>2. req' = [req EXCEPT ![p].pc = to, ![p].seen = role] BY <1>3
      <3> QED BY <2>2, <3>1, <3>2 DEF Only, Request
    <2>6. begun' \in 0..MaxBegun BY <1>1 DEF MembersInv, TypeOK
    <2>4. HasOwner(req[p].body.ws)' BY <1>1, <2>1, <2>3 DEF HasOwner, tables, WorkspaceOK, Admitted
    <2>5. RequestOK(req[p])'
      BY <1>1, <1>3, <2>1, <2>2, <2>3, <2>4
      DEF RequestOK, FlowOK, WorkspaceOK, RoleOK, ChannelOK, Admitted
    <2> QED BY <1>1, <2>2, <2>3, <2>5, <2>6, Quiet
  <1> QED BY <1>2, <1>3 DEF CanAssignRole, GetWorkspaceMember
LEMMA CheckPresentInv ==
  ASSUME MembersInv, NEW p \in Requests, CheckPresent(p)
  PROVE  MembersInv'
  <1>1. req[p].pc = "present" /\ UNCHANGED <<tables, begun, observed>>
    BY DEF CheckPresent, At
  <1>2. CASE Return(p) BY <1>1, <1>2, Ends
  <1>3. CASE Goto(p, "insertMember")
    <2>1. RequestOK(req[p]) BY DEF MembersInv, RequestsOK
    <2>2. /\ Only(p) /\ req'[p].pc = "insertMember"
          /\ req'[p].body = req[p].body /\ req'[p].seen = req[p].seen
      BY <1>3, GotoForm DEF MembersInv, Points
    <2>3. begun' \in 0..MaxBegun BY <1>1 DEF MembersInv, TypeOK
    <2>4. RequestOK(req[p])'
      BY <1>1, <2>1, <2>2
      DEF RequestOK, FlowOK, WorkspaceOK, RoleOK, ChannelOK, Admitted, HasOwner, tables
    <2> QED BY <1>1, <2>2, <2>3, <2>4, Quiet
  <1> QED BY <1>2, <1>3 DEF CheckPresent, If

\* Whoever is found at "target" has a role, and it is not that of the owner.
LEMMA GetTargetInv ==
  ASSUME MembersInv, NEW p \in Requests, GetTarget(p)
  PROVE  MembersInv'
  <1>1. req[p].pc = "target" /\ UNCHANGED <<tables, begun, observed>>
    BY DEF GetTarget, At
  <1>2. CASE Return(p) BY <1>1, <1>2, Ends
  <1>3. CASE Goto(p, "write") /\ members[req[p].body.ws][req[p].body.target] # "owner"
    <2>1. RequestOK(req[p]) BY DEF MembersInv, RequestsOK
    <2>2. /\ Only(p) /\ req'[p].pc = "write"
          /\ req'[p].body = req[p].body /\ req'[p].seen = req[p].seen
      BY <1>3, GotoForm DEF MembersInv, Points
    <2>3. begun' \in 0..MaxBegun BY <1>1 DEF MembersInv, TypeOK
    <2>4. HasOwner(req[p].body.ws) /\ req[p].body.target # workspaces[req[p].body.ws].owner
      BY <1>1, <1>3, <2>1 DEF RequestOK, WorkspaceOK, Admitted, HasOwner
    <2>5. RequestOK(req[p])'
      BY <1>1, <2>1, <2>2, <2>4
      DEF RequestOK, FlowOK, WorkspaceOK, RoleOK, ChannelOK, Admitted, HasOwner, tables
    <2> QED BY <1>1, <2>2, <2>3, <2>5, Quiet
  <1> QED BY <1>2, <1>3 DEF GetTarget, If, GetWorkspaceMember

LEMMA assertWorkspaceMemberInv ==
  ASSUME MembersInv, NEW p \in Requests, assertWorkspaceMember(p)
  PROVE  MembersInv'
  <1> DEFINE b == req[p].body
             role == members[b.ws][b.actor]
             to == IF b.kind = "createChannel" THEN "can" ELSE "channel"
  <1>1. req[p].pc = "member" /\ UNCHANGED <<tables, begun, observed>>
    BY DEF assertWorkspaceMember, At
  <1>2. CASE Return(p) BY <1>1, <1>2, Ends
  <1>3. CASE role # "none" /\ req' = [req EXCEPT ![p].pc = to, ![p].seen = role]
    <2>1. RequestOK(req[p]) BY DEF MembersInv, RequestsOK
    <2>2. role \in Role /\ b.actor \in Users BY Typed DEF MembersInv
    <2>3. /\ to \in Points
          /\ (b.kind = "createChannel" /\ to = "can") \/ (b.kind # "createChannel" /\ to = "channel")
      BY DEF Points
    <2>4. b.ws \in 1..Len(workspaces) /\ b \in Inputs
      BY <1>1, <2>1 DEF RequestOK, WorkspaceOK, FlowOK
    <2>5. HasOwner(b.ws) BY <1>3, <2>2, <2>4, Entered
    <2> HIDE DEF role, to
    <2>6. /\ Only(p) /\ req'[p].pc = to /\ req'[p].body = b /\ req'[p].seen = role
      <3>1. req \in [Requests -> Request] BY DEF MembersInv, TypeOK
      <3>2. req' = [req EXCEPT ![p].pc = to, ![p].seen = role] BY <1>3
      <3> QED BY <2>2, <2>3, <3>1, <3>2 DEF Only, Request
    <2>7. begun' \in 0..MaxBegun BY <1>1 DEF MembersInv, TypeOK
    <2>8. HasOwner(req[p].body.ws)' BY <1>1, <2>5, <2>6 DEF HasOwner, tables
    <2>9. b.kind \in {"createChannel", "join", "leave"}
      BY <1>1, <2>1 DEF RequestOK, FlowOK
    <2>10. RequestOK(req[p])'
      BY <1>1, <1>3, <2>3, <2>4, <2>6, <2>8, <2>9
      DEF RequestOK, FlowOK, WorkspaceOK, RoleOK, ChannelOK, Admitted, HasOwner, tables
    <2> QED BY <1>1, <2>3, <2>6, <2>7, <2>10, Quiet
  <1> QED BY <1>2, <1>3 DEF assertWorkspaceMember, IsWorkspaceMember

LEMMA CheckReadOnlyInv ==
  ASSUME MembersInv, NEW p \in Requests, CheckReadOnly(p)
  PROVE  MembersInv'
  <1> DEFINE b == req[p].body
             role == members[b.ws][b.actor]
  <1>1. req[p].pc = "readOnly" /\ UNCHANGED <<tables, begun, observed>>
    BY DEF CheckReadOnly, At
  <1>2. CASE Return(p) BY <1>1, <1>2, Ends
  <1>3. CASE /\ role \in {"owner", "admin"}
             /\ req' = [req EXCEPT ![p].pc = "insertChannel", ![p].seen = role]
    <2>1. RequestOK(req[p]) BY DEF MembersInv, RequestsOK
    <2>2. role \in Role BY Typed DEF MembersInv
    <2> HIDE DEF role
    <2>3. /\ Only(p) /\ req'[p].pc = "insertChannel" /\ req'[p].body = b
          /\ req'[p].seen = role
      <3>1. req \in [Requests -> Request] BY DEF MembersInv, TypeOK
      <3>2. req' = [req EXCEPT ![p].pc = "insertChannel", ![p].seen = role] BY <1>3
      <3> QED BY <2>2, <3>1, <3>2 DEF Only, Request, Points
    <2>4. begun' \in 0..MaxBegun BY <1>1 DEF MembersInv, TypeOK
    <2>5. RequestOK(req[p])'
      BY <1>1, <1>3, <2>1, <2>3
      DEF RequestOK, FlowOK, WorkspaceOK, RoleOK, ChannelOK, Admitted, HasOwner, tables
    <2> QED BY <1>1, <2>3, <2>4, <2>5, Quiet
  <1> QED BY <1>2, <1>3 DEF CheckReadOnly, GetWorkspaceMember

LEMMA GetChannelInv ==
  ASSUME MembersInv, NEW p \in Requests, GetChannel(p)
  PROVE  MembersInv'
  <1> DEFINE b == req[p].body
             to == IF b.kind = "join" THEN "isMember" ELSE "row"
  <1>1. req[p].pc = "channel" /\ UNCHANGED <<tables, begun, observed>>
    BY DEF GetChannel, At
  <1>2. CASE Return(p) BY <1>1, <1>2, Ends
  <1>3. CASE /\ b.channel \in 1..Len(channels)
             /\ b.kind = "leave" => channels[b.channel].owner # b.actor
             /\ Goto(p, to)
    <2>1. RequestOK(req[p]) BY DEF MembersInv, RequestsOK
    <2>2. to \in Points /\ ((b.kind = "join" /\ to = "isMember") \/ (b.kind # "join" /\ to = "row"))
      BY DEF Points
    <2> HIDE DEF to
    <2>3. /\ Only(p) /\ req'[p].pc = to /\ req'[p].body = b /\ req'[p].seen = req[p].seen
      BY <1>3, <2>2, GotoForm DEF MembersInv
    <2>4. begun' \in 0..MaxBegun BY <1>1 DEF MembersInv, TypeOK
    <2>5. RequestOK(req[p])'
      BY <1>1, <1>3, <2>1, <2>2, <2>3
      DEF RequestOK, FlowOK, WorkspaceOK, RoleOK, ChannelOK, Admitted, HasOwner, tables
    <2> QED BY <1>1, <2>2, <2>3, <2>4, <2>5, Quiet
  <1> QED BY <1>2, <1>3 DEF GetChannel, If, GetChannelInWorkspace

LEMMA CheckChannelMemberInv ==
  ASSUME MembersInv, NEW p \in Requests, CheckChannelMember(p)
  PROVE  MembersInv'
  <1>1. req[p].pc \in {"isMember", "row"} /\ UNCHANGED <<tables, begun, observed>>
    BY DEF CheckChannelMember, At
  <1>2. CASE Return(p) BY <1>1, <1>2, Ends
  <1>3. CASE Goto(p, "write")
    <2>1. RequestOK(req[p]) BY DEF MembersInv, RequestsOK
    <2>2. /\ Only(p) /\ req'[p].pc = "write"
          /\ req'[p].body = req[p].body /\ req'[p].seen = req[p].seen
      BY <1>3, GotoForm DEF MembersInv, Points
    <2>3. begun' \in 0..MaxBegun BY <1>1 DEF MembersInv, TypeOK
    <2>4. RequestOK(req[p])'
      BY <1>1, <2>1, <2>2
      DEF RequestOK, FlowOK, WorkspaceOK, RoleOK, ChannelOK, Admitted, HasOwner, tables
    <2> QED BY <1>1, <2>2, <2>3, <2>4, Quiet
  <1> QED BY <1>2, <1>3 DEF CheckChannelMember, If
-----------------------------------------------------------------------------
(* The steps that write.                                                   *)

\* A new workspace: nobody has been in it, and only this request may enter.
LEMMA InsertWorkspaceInv ==
  ASSUME MembersInv, NEW p \in Requests, InsertWorkspace(p)
  PROVE  MembersInv'
  <1> DEFINE b == req[p].body
             n == Len(workspaces) + 1
             row == [slug |-> b.name, owner |-> b.actor]
  <1>1. /\ req[p].pc = "insertWorkspace" /\ Len(workspaces) < MaxWorkspaces
        /\ UNCHANGED <<members, channels, channelMembers, begun, observed>>
    BY DEF InsertWorkspace, At
  <1>2. CASE Return(p) /\ UNCHANGED workspaces
    BY <1>1, <1>2, Ends DEF tables
  <1>3. CASE /\ workspaces' = Append(workspaces, row)
             /\ req' = [req EXCEPT ![p].pc = "addOwner", ![p].id = n]
    <2>1. TypeOK /\ RequestOK(req[p]) BY DEF MembersInv, RequestsOK
    <2>2. /\ b.name \in Slugs /\ b.actor \in Users /\ b \in Inputs
          /\ b.kind = "createWorkspace"
      BY <1>1, <2>1, InputsTyped, Typed DEF RequestOK, FlowOK
    <2>3. /\ Len(workspaces) \in Nat /\ n \in Nat \ {0} /\ n <= MaxWorkspaces
      BY <1>1, <2>1, BoundsTyped DEF TypeOK
    <2>4. /\ Len(workspaces') = n /\ workspaces'[n] = row /\ row.owner = b.actor
          /\ \A w \in 1..Len(workspaces) : workspaces'[w] = workspaces[w]
          /\ workspaces' \in Seq([slug : Slugs, owner : Users])
      <3>1. workspaces \in Seq([slug : Slugs, owner : Users]) BY <2>1 DEF TypeOK
      <3>2. row \in [slug : Slugs, owner : Users] /\ row.owner = b.actor BY <2>2
      <3> HIDE DEF row
      <3> QED BY <1>3, <3>1, <3>2
    <2> HIDE DEF row
    <2>5. /\ Only(p) /\ req'[p].pc = "addOwner" /\ req'[p].body = b /\ req'[p].id = n
      <3> HIDE DEF n
      <3>1. req \in [Requests -> Request] BY <2>1 DEF TypeOK
      <3>2. req' = [req EXCEPT ![p].pc = "addOwner", ![p].id = n] /\ n \in Nat
        BY <1>3, <2>3
      <3> QED BY <3>1, <3>2 DEF Only, Request, Points
    <2>6. TypeOK'
      BY <1>1, <2>1, <2>3, <2>4, <2>5 DEF TypeOK, observed, Only
    <2>7. RequestOK(req[p])'
      BY <2>2, <2>5 DEF RequestOK, FlowOK, WorkspaceOK, RoleOK, ChannelOK, Admitted
    <2>8. Grow BY <1>1, <2>1, <2>3, <2>4, Lengths DEF Grow
    <2>9. RequestsOK' BY <2>1, <2>6, <2>7, <2>8, <2>5, KeepRequests DEF MembersInv
    <2> HIDE DEF n
    <2>10. n \in 1..MaxWorkspaces /\ n > Len(workspaces) BY <2>3 DEF n
    <2>11. \A u \in Users : members[n][u] = "none"
      BY <2>10 DEF MembersInv, CreationOK
    <2>12. CreationOK'
      <3>1. \A w \in 1..MaxWorkspaces : w > Len(workspaces') => \A u \in Users : members'[w][u] = "none"
        BY <1>1, <2>3, <2>4, <2>10 DEF MembersInv, CreationOK
      <3>2. ASSUME NEW q \in Requests, At(q, "addOwner")', q # p
            PROVE  /\ req[q].id \in 1..Len(workspaces) /\ req'[q] = req[q] /\ At(q, "addOwner")
        BY <2>5, <3>2 DEF MembersInv, CreationOK, At, Only
      <3>3. ASSUME NEW q \in Requests, At(q, "addOwner")', q # p
            PROVE  req'[q].id # n /\ req'[q].id \in 1..Len(workspaces')
        BY <3>2, <3>3, <2>3, <2>4, <2>10
      <3>4. ASSUME NEW q \in Requests, At(q, "addOwner")'
            PROVE  /\ req'[q].id \in 1..Len(workspaces')
                   /\ workspaces'[req'[q].id].owner = req'[q].body.actor
                   /\ \A u \in Users : members'[req'[q].id][u] = "none"
        <4>1. CASE q = p BY <4>1, <1>1, <2>3, <2>4, <2>5, <2>10, <2>11
        <4>2. CASE q # p
          BY <4>2, <3>2, <3>3, <3>4, <2>4, <1>1 DEF MembersInv, CreationOK
        <4> QED BY <4>1, <4>2
      <3>5. ASSUME NEW q1 \in Requests, NEW q2 \in Requests, At(q1, "addOwner")',
                   At(q2, "addOwner")', req'[q1].id = req'[q2].id
            PROVE  q1 = q2
        <4>1. CASE q1 = p \/ q2 = p BY <4>1, <3>3, <3>5, <2>5
        <4>2. CASE q1 # p /\ q2 # p
          BY <4>2, <3>2, <3>5 DEF MembersInv, CreationOK
        <4> QED BY <4>1, <4>2
      <3> QED BY <3>1, <3>4, <3>5 DEF CreationOK
    <2>13. SaidOK' BY <1>1, KeepSaid DEF MembersInv, observed
    <2>14. OwnerStays'
      <3> SUFFICES ASSUME NEW w \in 1..Len(workspaces')
                   PROVE  /\ \A u \in Users : members'[w][u] = "owner" => u = workspaces'[w].owner
                          /\ \/ members'[w][workspaces'[w].owner] = "owner"
                             \/ /\ Creating("workspace", "addOwner", w)'
                                /\ \A u \in Users : members'[w][u] = "none"
        BY DEF OwnerStays
      <3>1. CASE w = n
        <4>1. Creating("workspace", "addOwner", w)' BY <3>1, <2>5 DEF Creating, At
        <4> QED BY <3>1, <4>1, <2>11, <1>1
      <3>2. CASE w # n
        <4>1. w \in 1..Len(workspaces) BY <3>2, <2>3, <2>4 DEF n
        <4>2. Creating("workspace", "addOwner", w) => Creating("workspace", "addOwner", w)'
          BY <1>1, <2>5 DEF Creating, At, Only, observed
        <4> QED BY <4>1, <4>2, <2>4, <1>1 DEF MembersInv, OwnersStay, OwnerStays
      <3> QED BY <3>1, <3>2
    <2>15. ChannelOwnerStays'
      BY <1>1, <2>5, KeepChannelOwners DEF MembersInv, OwnersStay, observed, At
    <2>16. MatrixKept' BY <1>1, KeepMatrix DEF MembersInv, observed
    <2>17. LatestTrue' BY <1>1, <2>5, KeepLatest DEF MembersInv, observed, At
    <2>18. InvitesOK' BY <1>1, <2>1, <2>5, KeepInvites DEF MembersInv, observed
    <2> QED BY <2>6, <2>9, <2>12, <2>13, <2>14, <2>15, <2>16, <2>17, <2>18
            DEF MembersInv, OwnersStay
  <1> QED BY <1>2, <1>3 DEF InsertWorkspace
\* The creator enters: this was the only request that could.
LEMMA AddOwnerInv ==
  ASSUME MembersInv, NEW p \in Requests, AddOwner(p)
  PROVE  MembersInv'
  <1> DEFINE b == req[p].body
             n == req[p].id
  <1>1. /\ req[p].pc = "addOwner" /\ Return(p)
        /\ members' = [members EXCEPT ![n][b.actor] = "owner"]
        /\ UNCHANGED <<workspaces, channels, channelMembers, begun, observed>>
    BY DEF AddOwner, At, AddWorkspaceMember
  <1>2. TypeOK BY DEF MembersInv
  <1>3. /\ n \in 1..Len(workspaces) /\ workspaces[n].owner = b.actor
        /\ \A u \in Users : members[n][u] = "none"
        /\ \A q \in Requests : At(q, "addOwner") /\ req[q].id = n => p = q
    BY <1>1 DEF MembersInv, CreationOK, At
  <1>4. /\ Len(workspaces) \in Nat /\ Len(workspaces) <= MaxWorkspaces /\ MaxWorkspaces \in Nat
        /\ members \in [1..MaxWorkspaces -> [Users -> Role]]
    BY <1>2, BoundsTyped DEF TypeOK
  <1>5. b.actor \in Users BY <1>2, Typed
  <1> HIDE DEF n
  <1>6. /\ members' \in [1..MaxWorkspaces -> [Users -> Role]]
        /\ members'[n][b.actor] = "owner"
        /\ \A u \in Users : u # b.actor => members'[n][u] = "none"
        /\ \A w \in 1..MaxWorkspaces : w # n => members'[w] = members[w]
    BY <1>1, <1>3, <1>4, <1>5 DEF Role, RoleNames
  <1>7. Only(p) /\ req'[p].pc = "idle" /\ RequestOK(req[p])'
    BY <1>1, <1>2, ReturnForm
  <1>8. TypeOK' BY <1>1, <1>2, <1>6, <1>7 DEF TypeOK, observed, Only
  <1>9. Grow
    BY <1>1, <1>2, <1>3, <1>4, <1>6, Lengths DEF Grow
  <1>10. RequestsOK' BY <1>2, <1>7, <1>8, <1>9, KeepRequests DEF MembersInv
  <1>11. CreationOK'
    <2>1. \A w \in 1..MaxWorkspaces : w > Len(workspaces) => w # n BY <1>3, <1>4
    <2>2. ASSUME NEW q \in Requests, At(q, "addOwner")'
          PROVE  q # p /\ req'[q] = req[q] /\ At(q, "addOwner") /\ req[q].id # n
      BY <1>3, <1>7, <2>2 DEF At, Only
    <2>3. 1..Len(workspaces) \subseteq 1..MaxWorkspaces BY <1>4
    <2> QED BY <1>1, <1>6, <2>1, <2>2, <2>3 DEF MembersInv, CreationOK, At
  <1>12. SaidOK' BY <1>1, KeepSaid DEF MembersInv, observed
  <1>13. OwnerStays'
    <2> SUFFICES ASSUME NEW w \in 1..Len(workspaces)
                 PROVE  /\ \A u \in Users : members'[w][u] = "owner" => u = workspaces[w].owner
                        /\ \/ members'[w][workspaces[w].owner] = "owner"
                           \/ /\ Creating("workspace", "addOwner", w)'
                              /\ \A u \in Users : members'[w][u] = "none"
      BY <1>1 DEF OwnerStays
    <2>1. CASE w = n BY <2>1, <1>3, <1>6
    <2>2. CASE w # n
      <3>1. members'[w] = members[w] BY <2>2, <1>4, <1>6
      <3>2. Creating("workspace", "addOwner", w) => Creating("workspace", "addOwner", w)'
        BY <2>2, <1>1, <1>7 DEF Creating, At, Only, observed, n
      <3> QED BY <3>1, <3>2 DEF MembersInv, OwnersStay, OwnerStays
    <2> QED BY <2>1, <2>2
  <1>14. ChannelOwnerStays'
    BY <1>1, <1>7, KeepChannelOwners DEF MembersInv, OwnersStay, observed, At
  <1>15. MatrixKept' BY <1>1, KeepMatrix DEF MembersInv, observed
  <1>16. LatestTrue' BY <1>1, <1>7, KeepLatest DEF MembersInv, observed, At
  <1>17. InvitesOK' BY <1>1, <1>2, <1>7, KeepInvites DEF MembersInv, observed
  <1> QED BY <1>8, <1>10, <1>11, <1>12, <1>13, <1>14, <1>15, <1>16, <1>17
          DEF MembersInv, OwnersStay

\* A statement that gives a role, or none, to one who does not own the workspace.
Gives(w, u, role) ==
  /\ HasOwner(w) /\ u \in Users /\ u # workspaces[w].owner
  /\ role \in Role \ {"owner"}
  /\ members' = [members EXCEPT ![w][u] = role]
  /\ UNCHANGED workspaces

LEMMA GivesRole ==
  ASSUME TypeOK, CreationOK, OwnerStays, NEW p \in Requests, Only(p),
         NEW w, NEW u, NEW role, Gives(w, u, role), UNCHANGED <<channels, cut>>,
         req[p].pc # "addOwner", req'[p].pc # "addOwner"
  PROVE  /\ members' \in [1..MaxWorkspaces -> [Users -> Role]]
         /\ Grow /\ CreationOK' /\ OwnerStays'
  <1>1. /\ Len(workspaces) \in Nat /\ Len(workspaces) <= MaxWorkspaces /\ MaxWorkspaces \in Nat
        /\ members \in [1..MaxWorkspaces -> [Users -> Role]]
    BY BoundsTyped DEF TypeOK
  <1>2. /\ w \in 1..MaxWorkspaces /\ w <= Len(workspaces)
        /\ members[w][workspaces[w].owner] = "owner"
    BY <1>1 DEF Gives, HasOwner
  <1>3. /\ members' \in [1..MaxWorkspaces -> [Users -> Role]]
        /\ members'[w][u] = role /\ role # "owner"
        /\ \A v \in Users : v # u => members'[w][v] = members[w][v]
        /\ \A x \in 1..MaxWorkspaces : x # w => members'[x] = members[x]
    BY <1>1, <1>2 DEF Gives
  <1>4. workspaces[w].owner \in Users /\ workspaces[w].owner # u
    <2>1. w \in 1..Len(workspaces) BY <1>1, <1>2
    <2>2. workspaces \in Seq([slug : Slugs, owner : Users]) BY DEF TypeOK
    <2>3. workspaces[w] \in [slug : Slugs, owner : Users] BY <2>1, <2>2, RowTyped
    <2> QED BY <2>3 DEF Gives
  <1>5. members'[w][workspaces[w].owner] = "owner"
    BY <1>2, <1>3, <1>4
  <1>6. Grow
    BY <1>1, <1>3, <1>5, Lengths DEF Grow, Gives
  <1>7. CreationOK'
    <2>1. \A q \in Requests : At(q, "addOwner")' =>
            /\ q # p /\ req'[q] = req[q] /\ At(q, "addOwner") /\ req[q].id # w
      BY <1>2, <1>4 DEF At, Only, CreationOK
    <2>2. 1..Len(workspaces) \subseteq 1..MaxWorkspaces BY <1>1
    <2>3. \A x \in 1..MaxWorkspaces : x > Len(workspaces) => x # w BY <1>1, <1>2
    <2> QED BY <1>3, <2>1, <2>2, <2>3 DEF CreationOK, At, Gives
  <1>8. OwnerStays'
    <2> SUFFICES ASSUME NEW x \in 1..Len(workspaces)
                 PROVE  /\ \A v \in Users : members'[x][v] = "owner" => v = workspaces[x].owner
                        /\ \/ members'[x][workspaces[x].owner] = "owner"
                           \/ /\ Creating("workspace", "addOwner", x)'
                              /\ \A v \in Users : members'[x][v] = "none"
      BY DEF OwnerStays, Gives
    <2>1. CASE x = w BY <2>1, <1>3, <1>5 DEF OwnerStays
    <2>2. CASE x # w
      <3>1. members'[x] = members[x] BY <2>2, <1>1, <1>3
      <3>2. Creating("workspace", "addOwner", x) => Creating("workspace", "addOwner", x)'
        BY DEF Creating, At, Only
      <3> QED BY <3>1, <3>2 DEF OwnerStays
    <2> QED BY <2>1, <2>2
  <1> QED BY <1>3, <1>6, <1>7, <1>8

\* What a write records of its actor.
LEMMA WroteRow ==
  ASSUME TypeOK, NEW p \in Requests,
         NEW what \in {"add", "addAdmin", "remove", "role", "create", "createReadOnly", "join"},
         Wrote(p, what), MatrixKept,
         \/ what = "addAdmin" /\ req[p].seen = "owner"
         \/ what \in {"add", "remove", "role", "createReadOnly"} /\ req[p].seen \in {"owner", "admin"}
         \/ what = "create" /\ req[p].seen \in {"owner", "admin", "moderator"}
         \/ what = "join" /\ req[p].seen # "none"
  PROVE  /\ writes' \subseteq [what : {"add", "addAdmin", "remove", "role", "create",
                                       "createReadOnly", "join"},
                               role : Role, changed : BOOLEAN]
         /\ MatrixKept'
  <1> DEFINE role == members[req[p].body.ws][req[p].body.actor]
             changed == role # req[p].seen
             row == [what |-> what, role |-> role, changed |-> changed]
  <1>1. writes' = writes \cup {row} BY DEF Wrote
  <1>2. role \in Role /\ changed \in BOOLEAN BY Typed
  <1>3. /\ row.what = what /\ row.role = role /\ row.changed = changed
        /\ row \in [what : {"add", "addAdmin", "remove", "role", "create", "createReadOnly", "join"},
                    role : Role, changed : BOOLEAN]
    <2> HIDE DEF role, changed
    <2> QED BY <1>2
  <1>4. row.changed \/ row.role = req[p].seen BY <1>3
  <1> HIDE DEF row
  <1>5. MatrixKept'
    <2>1. \/ row.changed
          \/ row.what = "addAdmin" /\ row.role = "owner"
          \/ row.what \in {"add", "remove", "role", "createReadOnly"} /\ row.role \in {"owner", "admin"}
          \/ row.what = "create" /\ row.role \in {"owner", "admin", "moderator"}
          \/ row.what = "join" /\ row.role # "none"
      BY <1>3, <1>4
    <2> QED BY <1>1, <2>1 DEF MatrixKept
  <1> QED BY <1>1, <1>3, <1>5 DEF TypeOK
\* Whoever is added becomes one of those to be invited, once.
LEMMA AddMemberInv ==
  ASSUME MembersInv, NEW p \in Requests, AddMember(p)
  PROVE  MembersInv'
  <1> DEFINE b == req[p].body
             what == IF b.role = "admin" THEN "addAdmin" ELSE "add"
  <1>1. /\ req[p].pc = "insertMember"
        /\ UNCHANGED <<workspaces, channels, channelMembers, begun, invites, cut, events>>
    BY DEF AddMember, At
  <1>2. CASE Return(p) /\ UNCHANGED <<members, adds, writes>>
    BY <1>1, <1>2, Ends DEF tables, observed
  <1>3. CASE /\ members[b.ws][b.target] = "none"
             /\ members' = [members EXCEPT ![b.ws][b.target] = b.role]
             /\ adds' = [adds EXCEPT ![b.target] = @ + 1]
             /\ Wrote(p, what)
             /\ Goto(p, "reread")
    <2>1. /\ TypeOK /\ RequestsOK /\ CreationOK /\ SaidOK /\ OwnerStays /\ ChannelOwnerStays
          /\ MatrixKept /\ LatestTrue /\ InvitesOK
      BY DEF MembersInv, OwnersStay
    <2>2. RequestOK(req[p]) BY <2>1 DEF RequestsOK
    <2>3. /\ b \in Inputs /\ b.kind = "add" /\ HasOwner(b.ws)
          /\ ParseRole(b.role) /\ b.role \in AssignableRoles(req[p].seen)
      BY <1>1, <2>2 DEF RequestOK, FlowOK, WorkspaceOK, RoleOK, Admitted
    <2>4. b.target \in Users BY <2>3, InputsTyped
    <2>5. Gives(b.ws, b.target, b.role)
      BY <1>1, <1>3, <2>3, <2>4 DEF Gives, HasOwner, ParseRole, Role, RoleNames
    <2>6. /\ Only(p) /\ req'[p].pc = "reread"
          /\ req'[p].body = b /\ req'[p].seen = req[p].seen
      BY <1>3, <2>1, GotoForm DEF Points
    <2>7. /\ members' \in [1..MaxWorkspaces -> [Users -> Role]]
          /\ Grow /\ CreationOK' /\ OwnerStays'
      BY <1>1, <2>1, <2>5, <2>6, GivesRole
    <2>8. /\ \/ what = "addAdmin" /\ req[p].seen = "owner"
             \/ what = "add" /\ req[p].seen \in {"owner", "admin"}
          /\ what \in {"addAdmin", "add"}
      BY <2>3 DEF AssignableRoles
    <2> HIDE DEF what
    <2>9. /\ writes' \subseteq [what : {"add", "addAdmin", "remove", "role", "create",
                                        "createReadOnly", "join"},
                                role : Role, changed : BOOLEAN]
          /\ MatrixKept'
      BY <1>3, <2>1, <2>8, WroteRow
    <2>10. adds' \in [Users -> Nat]
      BY <1>3, <2>1, <2>4 DEF TypeOK
    <2>11. TypeOK' BY <1>1, <2>1, <2>6, <2>7, <2>9, <2>10 DEF TypeOK, Only
    <2>12. RequestOK(req[p])'
      <3>1. HasOwner(req[p].body.ws)'
        BY <1>1, <2>3, <2>6, <2>7 DEF HasOwner, Grow
      <3> QED BY <2>3, <2>6, <3>1
              DEF RequestOK, FlowOK, WorkspaceOK, RoleOK, ChannelOK, Admitted
    <2>13. RequestsOK' BY <2>1, <2>6, <2>7, <2>11, <2>12, KeepRequests
    <2>14. SaidOK' BY <1>1, <2>1, KeepSaid
    <2>15. ChannelOwnerStays' BY <1>1, <2>1, <2>6, KeepChannelOwners DEF At
    <2>16. LatestTrue' BY <1>1, <2>1, <2>6, KeepLatest DEF At
    <2>17. InvitesOK'
      <3> SUFFICES ASSUME NEW u \in Users
                   PROVE  invites[u] + Cardinality(Rereading(u)') <= adds'[u]
        BY <1>1 DEF InvitesOK
      <3>1. /\ invites[u] + Cardinality(Rereading(u)) <= adds[u]
            /\ invites[u] \in Nat /\ adds[u] \in Nat /\ Cardinality(Rereading(u)) \in Nat
            /\ IsFiniteSet(Rereading(u))
        BY <2>1, RereadingFinite DEF InvitesOK, TypeOK
      <3>2. CASE u = b.target
        <4>1. Rereading(u)' = Rereading(u) \cup {p} /\ p \notin Rereading(u)
          BY <1>1, <2>6, <3>2 DEF Rereading, At, Only
        <4>2. Cardinality(Rereading(u)') = Cardinality(Rereading(u)) + 1
          BY <3>1, <4>1, FS_AddElement
        <4>3. adds'[u] = adds[u] + 1 BY <1>3, <2>1, <3>2 DEF TypeOK
        <4> QED BY <3>1, <4>2, <4>3
      <3>3. CASE u # b.target
        <4>1. Rereading(u)' = Rereading(u)
          BY <1>1, <2>6, <3>3 DEF Rereading, At, Only
        <4>2. adds'[u] = adds[u] BY <1>3, <2>1, <3>3 DEF TypeOK
        <4> QED BY <3>1, <4>1, <4>2
      <3> QED BY <3>2, <3>3
    <2> QED BY <2>7, <2>9, <2>11, <2>13, <2>14, <2>15, <2>16, <2>17 DEF MembersInv, OwnersStay
  <1> QED BY <1>2, <1>3 DEF AddMember, AddWorkspaceMember

\* The invitation takes the place of the one that was owed.
LEMMA InviteInv ==
  ASSUME MembersInv, NEW p \in Requests, Invite(p)
  PROVE  MembersInv'
  <1> DEFINE b == req[p].body
  <1>1. /\ req[p].pc = "reread" /\ Return(p)
        /\ UNCHANGED <<workspaces, members, channels, channelMembers, begun,
                       adds, cut, writes, events>>
        /\ invites' = invites \/ invites' = [invites EXCEPT ![b.target] = @ + 1]
    BY DEF Invite, At, tables
  <1>2. /\ TypeOK /\ RequestsOK /\ CreationOK /\ SaidOK /\ OwnerStays /\ ChannelOwnerStays
        /\ MatrixKept /\ LatestTrue /\ InvitesOK
    BY DEF MembersInv, OwnersStay
  <1>3. Only(p) /\ req'[p].pc = "idle" /\ RequestOK(req[p])'
    BY <1>1, <1>2, ReturnForm
  <1>4. invites' \in [Users -> Nat] BY <1>1, <1>2 DEF TypeOK
  <1>5. TypeOK' BY <1>1, <1>2, <1>3, <1>4 DEF TypeOK, Only
  <1>6. RequestsOK' BY <1>1, <1>2, <1>3, <1>5, GrowSame, KeepRequests DEF tables
  <1>7. CreationOK' BY <1>1, <1>2, <1>3, KeepCreation
  <1>8. SaidOK' BY <1>1, <1>2, KeepSaid
  <1>9. OwnerStays' BY <1>1, <1>2, <1>3, KeepOwners DEF At
  <1>10. ChannelOwnerStays' BY <1>1, <1>2, <1>3, KeepChannelOwners DEF At
  <1>11. MatrixKept' BY <1>1, <1>2, KeepMatrix
  <1>12. LatestTrue' BY <1>1, <1>2, <1>3, KeepLatest DEF At
  <1>13. InvitesOK'
    <2> SUFFICES ASSUME NEW u \in Users
                 PROVE  invites'[u] + Cardinality(Rereading(u)') <= adds[u]
      BY <1>1 DEF InvitesOK
    <2>1. /\ invites[u] + Cardinality(Rereading(u)) <= adds[u]
          /\ invites[u] \in Nat /\ adds[u] \in Nat /\ Cardinality(Rereading(u)) \in Nat
          /\ IsFiniteSet(Rereading(u))
      BY <1>2, RereadingFinite DEF InvitesOK, TypeOK
    <2>2. CASE u = b.target
      <3>1. Rereading(u)' = Rereading(u) \ {p} /\ p \in Rereading(u)
        BY <1>1, <1>3, <2>2 DEF Rereading, At, Only
      <3>2. Cardinality(Rereading(u)') = Cardinality(Rereading(u)) - 1
        BY <2>1, <3>1, FS_RemoveElement
      <3>3. invites'[u] <= invites[u] + 1 /\ invites'[u] \in Nat
        BY <1>1, <1>2, <1>4, <2>2 DEF TypeOK
      <3> QED BY <2>1, <3>2, <3>3
    <2>3. CASE u # b.target
      <3>1. Rereading(u)' = Rereading(u)
        BY <1>1, <1>3, <2>3 DEF Rereading, At, Only
      <3>2. invites'[u] = invites[u] BY <1>1, <1>2, <2>3 DEF TypeOK
      <3> QED BY <2>1, <3>1, <3>2
    <2> QED BY <2>2, <2>3
  <1> QED BY <1>5, <1>6, <1>7, <1>8, <1>9, <1>10, <1>11, <1>12, <1>13 DEF MembersInv, OwnersStay

\* A role, or a membership, of somebody who does not own the workspace.
LEMMA WriteMemberInv ==
  ASSUME MembersInv, NEW p \in Requests, RemoveMember(p) \/ UpdateMemberRole(p)
  PROVE  MembersInv'
  <1> DEFINE b == req[p].body
             what == CASE b.kind = "remove" -> "remove"
                       [] b.kind = "role" /\ b.role = "admin" -> "addAdmin"
                       [] OTHER -> "role"
             role == IF b.kind = "remove" \/ members[b.ws][b.target] = "none" THEN "none"
                     ELSE b.role
  <1>1. /\ req[p].pc = "write" /\ b.kind \in {"remove", "role"} /\ Return(p)
        /\ members' = [members EXCEPT ![b.ws][b.target] = role]
        /\ Wrote(p, what)
        /\ UNCHANGED <<workspaces, channels, channelMembers, begun, adds, invites, cut, events>>
    BY DEF RemoveMember, UpdateMemberRole, At, RemoveWorkspaceMember, UpdateWorkspaceMemberRole
  <1>2. /\ TypeOK /\ RequestsOK /\ CreationOK /\ SaidOK /\ OwnerStays /\ ChannelOwnerStays
        /\ MatrixKept /\ LatestTrue /\ InvitesOK
    BY DEF MembersInv, OwnersStay
  <1>3. RequestOK(req[p]) BY <1>2 DEF RequestsOK
  <1>4. /\ b \in Inputs /\ HasOwner(b.ws) /\ b.target # workspaces[b.ws].owner
        /\ b.kind = "remove" => req[p].seen \in {"owner", "admin"}
        /\ b.kind = "role" => ParseRole(b.role) /\ b.role \in AssignableRoles(req[p].seen)
    BY <1>1, <1>3 DEF RequestOK, FlowOK, WorkspaceOK, RoleOK, Admitted
  <1>5. b.target \in Users BY <1>1, <1>4, InputsTyped
  <1>6. role \in Role \ {"owner"}
    BY <1>1, <1>4 DEF ParseRole, Role, RoleNames
  <1>7. /\ \/ what = "addAdmin" /\ req[p].seen = "owner"
           \/ what \in {"remove", "role"} /\ req[p].seen \in {"owner", "admin"}
        /\ what \in {"addAdmin", "remove", "role"}
    BY <1>1, <1>4 DEF AssignableRoles
  <1> HIDE DEF what, role
  <1>8. Gives(b.ws, b.target, role)
    BY <1>1, <1>4, <1>5, <1>6 DEF Gives
  <1>9. Only(p) /\ req'[p].pc = "idle" /\ RequestOK(req[p])'
    BY <1>1, <1>2, ReturnForm
  <1>10. /\ members' \in [1..MaxWorkspaces -> [Users -> Role]]
         /\ Grow /\ CreationOK' /\ OwnerStays'
    BY <1>1, <1>2, <1>8, <1>9, GivesRole
  <1>11. /\ writes' \subseteq [what : {"add", "addAdmin", "remove", "role", "create",
                                       "createReadOnly", "join"},
                               role : Role, changed : BOOLEAN]
         /\ MatrixKept'
    BY <1>1, <1>2, <1>7, WroteRow
  <1>12. TypeOK' BY <1>1, <1>2, <1>9, <1>10, <1>11 DEF TypeOK, Only
  <1>13. RequestsOK' BY <1>2, <1>9, <1>10, <1>12, KeepRequests
  <1>14. SaidOK' BY <1>1, <1>2, KeepSaid
  <1>15. ChannelOwnerStays' BY <1>1, <1>2, <1>9, KeepChannelOwners DEF At
  <1>16. LatestTrue' BY <1>1, <1>2, <1>9, KeepLatest DEF At
  <1>17. InvitesOK' BY <1>1, <1>2, <1>9, KeepInvites
  <1> QED BY <1>10, <1>11, <1>12, <1>13, <1>14, <1>15, <1>16, <1>17 DEF MembersInv, OwnersStay
-----------------------------------------------------------------------------
(* Channels.                                                               *)

LEMMA CreateChannelInv ==
  ASSUME MembersInv, NEW p \in Requests, CreateChannel(p)
  PROVE  MembersInv'
  <1> DEFINE b == req[p].body
             n == Len(channels) + 1
             row == [ws |-> b.ws, name |-> b.name, owner |-> b.actor, readOnly |-> b.readOnly]
             what == IF b.readOnly THEN "createReadOnly" ELSE "create"
             Row == [ws : 1..MaxWorkspaces, name : Names, owner : Users, readOnly : BOOLEAN]
  <1>1. /\ req[p].pc = "insertChannel" /\ Len(channels) < MaxChannels
        /\ UNCHANGED <<workspaces, members, channelMembers, begun, adds, invites, cut, events>>
    BY DEF CreateChannel, At
  <1>2. CASE Return(p) /\ UNCHANGED <<channels, writes>>
    BY <1>1, <1>2, Ends DEF tables, observed
  <1>3. CASE /\ channels' = Append(channels, row)
             /\ req' = [req EXCEPT ![p].pc = "addCreator", ![p].id = n]
             /\ Wrote(p, what)
    <2>1. /\ TypeOK /\ RequestsOK /\ CreationOK /\ SaidOK /\ OwnerStays /\ ChannelOwnerStays
          /\ MatrixKept /\ LatestTrue /\ InvitesOK
      BY DEF MembersInv, OwnersStay
    <2>2. RequestOK(req[p]) BY <2>1 DEF RequestsOK
    <2>3. /\ b \in Inputs /\ b.kind = "createChannel" /\ HasOwner(b.ws)
          /\ req[p].seen \in {"owner", "admin", "moderator"}
          /\ b.readOnly => req[p].seen \in {"owner", "admin"}
      BY <1>1, <2>2 DEF RequestOK, FlowOK, WorkspaceOK, RoleOK, Admitted
    <2>4. row \in Row /\ row.owner = b.actor
      BY <2>1, <2>3, InputsTyped, Typed
    <2>5. /\ Len(channels) \in Nat /\ n \in Nat \ {0} /\ n \in 1..MaxChannels
      BY <1>1, <2>1, BoundsTyped DEF TypeOK
    <2>6. /\ Len(channels') = n /\ channels'[n] = row
          /\ \A c \in 1..Len(channels) : channels'[c] = channels[c]
          /\ channels' \in Seq(Row)
      <3>1. channels \in Seq(Row) BY <2>1 DEF TypeOK
      <3> HIDE DEF row, Row
      <3> QED BY <1>3, <2>4, <3>1
    <2>7. what \in {"createReadOnly", "create"} /\ (what = "createReadOnly" <=> b.readOnly)
      BY <2>1, Typed
    <2> HIDE DEF row, what
    <2>8. /\ Only(p) /\ req'[p].pc = "addCreator" /\ req'[p].body = b /\ req'[p].id = n
      <3> HIDE DEF n
      <3>1. req \in [Requests -> Request] BY <2>1 DEF TypeOK
      <3>2. req' = [req EXCEPT ![p].pc = "addCreator", ![p].id = n] /\ n \in Nat
        BY <1>3, <2>5
      <3> QED BY <3>1, <3>2 DEF Only, Request, Points
    <2>9. /\ writes' \subseteq [what : {"add", "addAdmin", "remove", "role", "create",
                                        "createReadOnly", "join"},
                                role : Role, changed : BOOLEAN]
          /\ MatrixKept'
      BY <1>3, <2>1, <2>3, <2>7, WroteRow
    <2>10. TypeOK'
      <3>1. Len(channels') <= MaxChannels BY <2>5, <2>6
      <3> QED BY <1>1, <2>1, <2>6, <2>8, <2>9, <3>1 DEF TypeOK, Only
    <2>11. n \in 1..Len(channels') BY <2>5, <2>6
    <2> HIDE DEF n
    <2>12. RequestOK(req[p])'
      <3>1. HasOwner(req[p].body.ws)' BY <1>1, <2>3, <2>8 DEF HasOwner
      <3> QED BY <2>3, <2>4, <2>6, <2>8, <2>11, <3>1
              DEF RequestOK, FlowOK, WorkspaceOK, RoleOK, ChannelOK, Admitted
    <2>13. Grow
      <3>1. Len(channels) <= Len(channels') BY <2>5, <2>6 DEF n
      <3> QED BY <1>1, <2>1, <2>6, <3>1, Lengths DEF Grow
    <2>14. RequestsOK' BY <2>1, <2>8, <2>10, <2>12, <2>13, KeepRequests
    <2>15. CreationOK' BY <1>1, <2>1, <2>8, KeepCreation
    <2>16. 1..Len(channels) \subseteq 1..Len(channels') BY <2>5, <2>6 DEF n
    <2>17. SaidOK' BY <1>1, <2>1, <2>6, <2>16 DEF SaidOK
    <2>18. OwnerStays' BY <1>1, <2>1, <2>8, KeepOwners DEF At
    <2>19. ChannelOwnerStays'
      <3> SUFFICES ASSUME NEW c \in 1..Len(channels')
                   PROVE  \/ channels'[c].owner \in channelMembers'[c]
                          \/ Creating("channel", "addCreator", c)'
        BY DEF ChannelOwnerStays
      <3>1. CASE c = n BY <3>1, <2>8 DEF Creating, At
      <3>2. CASE c # n
        <4>1. c \in 1..Len(channels) BY <3>2, <2>5, <2>6 DEF n
        <4>2. Creating("channel", "addCreator", c) => Creating("channel", "addCreator", c)'
          BY <1>1, <2>8 DEF Creating, At, Only
        <4> QED BY <4>1, <4>2, <2>1, <2>6, <1>1 DEF ChannelOwnerStays
      <3> QED BY <3>1, <3>2
    <2>20. LatestTrue' BY <1>1, <2>1, <2>8, KeepLatest DEF At
    <2>21. InvitesOK' BY <1>1, <2>1, <2>8, KeepInvites
    <2> QED BY <2>9, <2>10, <2>14, <2>15, <2>17, <2>18, <2>19, <2>20, <2>21 DEF MembersInv, OwnersStay
  <1> QED BY <1>2, <1>3 DEF CreateChannel

LEMMA AddCreatorInv ==
  ASSUME MembersInv, NEW p \in Requests, AddCreator(p)
  PROVE  MembersInv'
  <1> DEFINE u == req[p].body.actor
             n == req[p].id
  <1>1. /\ req[p].pc = "addCreator" /\ Return(p)
        /\ channelMembers' = [channelMembers EXCEPT ![n] = @ \cup {u}]
        /\ UNCHANGED <<workspaces, members, channels, begun, observed>>
    BY DEF AddCreator, At, AddChannelMember
  <1>2. /\ TypeOK /\ RequestsOK /\ CreationOK /\ SaidOK /\ OwnerStays /\ ChannelOwnerStays
        /\ MatrixKept /\ LatestTrue /\ InvitesOK
    BY DEF MembersInv, OwnersStay
  <1>3. Only(p) /\ req'[p].pc = "idle" /\ RequestOK(req[p])'
    BY <1>1, <1>2, ReturnForm
  <1>4. n \in 1..Len(channels) /\ channels[n].owner = u
    BY <1>1, <1>2 DEF RequestsOK, RequestOK, ChannelOK
  <1>5. /\ Len(channels) \in Nat /\ Len(channels) <= MaxChannels /\ MaxChannels \in Nat
        /\ channelMembers \in [1..MaxChannels -> SUBSET Users] /\ u \in Users
    BY <1>2, BoundsTyped, Typed DEF TypeOK
  <1> HIDE DEF n, u
  <1>6. /\ channelMembers' \in [1..MaxChannels -> SUBSET Users]
        /\ channelMembers'[n] = channelMembers[n] \cup {u}
        /\ \A c \in 1..MaxChannels : c # n => channelMembers'[c] = channelMembers[c]
    BY <1>1, <1>4, <1>5
  <1>7. TypeOK' BY <1>1, <1>2, <1>3, <1>6 DEF TypeOK, observed, Only
  <1>8. Grow BY <1>1, <1>2, Lengths DEF Grow
  <1>9. RequestsOK' BY <1>2, <1>3, <1>7, <1>8, KeepRequests
  <1>10. CreationOK' BY <1>1, <1>2, <1>3, KeepCreation
  <1>11. SaidOK' BY <1>1, <1>2, KeepSaid DEF observed
  <1>12. OwnerStays' BY <1>1, <1>2, <1>3, KeepOwners DEF At, observed
  <1>13. ChannelOwnerStays'
    <2> SUFFICES ASSUME NEW c \in 1..Len(channels)
                 PROVE  \/ channels[c].owner \in channelMembers'[c]
                        \/ Creating("channel", "addCreator", c)'
      BY <1>1 DEF ChannelOwnerStays
    <2>1. CASE c = n BY <2>1, <1>4, <1>6
    <2>2. CASE c # n
      <3>1. Creating("channel", "addCreator", c) => Creating("channel", "addCreator", c)'
        BY <2>2, <1>1, <1>3 DEF Creating, At, Only, observed, n
      <3>2. channelMembers'[c] = channelMembers[c] BY <2>2, <1>5, <1>6
      <3> QED BY <3>1, <3>2, <1>2 DEF ChannelOwnerStays
    <2> QED BY <2>1, <2>2
  <1>14. MatrixKept' BY <1>1, <1>2, KeepMatrix DEF observed
  <1>15. LatestTrue'
    <2> SUFFICES ASSUME NEW c \in 1..MaxChannels, NEW v \in Users
                 PROVE  \/ <<c, v>> \in blurred
                        \/ \E q \in Requests : /\ At(q, "announce")' /\ req'[q].body.channel = c
                                               /\ req'[q].body.actor = v
                        \/ /\ said[c][v].word = "joined" => v \in channelMembers'[c]
                           /\ said[c][v].word = "left" => v \notin channelMembers'[c]
      BY <1>1 DEF LatestTrue, Announcing, Holds, observed
    <2>1. \A q \in Requests : At(q, "announce") => q # p /\ req'[q] = req[q]
      BY <1>1, <1>3 DEF At, Only
    <2>2. (c = n /\ said[c][v].word = "left") => v # u
      BY <1>2, <1>4 DEF SaidOK
    <2>3. /\ v \in channelMembers[c] => v \in channelMembers'[c]
          /\ v \in channelMembers'[c] => v \in channelMembers[c] \/ (c = n /\ v = u)
      BY <1>6
    <2> QED BY <1>2, <2>1, <2>2, <2>3 DEF LatestTrue, Announcing, Holds, At
  <1>16. InvitesOK' BY <1>1, <1>2, <1>3, KeepInvites DEF observed
  <1> QED BY <1>7, <1>9, <1>10, <1>11, <1>12, <1>13, <1>14, <1>15, <1>16 DEF MembersInv, OwnersStay

\* Joining and leaving: the owner of the channel stays, and an event is due.
LEMMA WriteChannelInv ==
  ASSUME MembersInv, NEW p \in Requests, JoinChannel(p) \/ LeaveChannel(p)
  PROVE  MembersInv'
  <1> DEFINE b == req[p].body
             set == IF b.kind = "join" THEN channelMembers[b.channel] \cup {b.actor}
                    ELSE channelMembers[b.channel] \ {b.actor}
  <1>1. /\ req[p].pc = "write" /\ b.kind \in {"join", "leave"}
        /\ UNCHANGED <<workspaces, members, channels, begun, adds, invites, cut, events>>
    BY DEF JoinChannel, LeaveChannel, At, observed
  <1>2. CASE Return(p) /\ UNCHANGED <<channelMembers, writes>>
    BY <1>1, <1>2, Ends DEF tables, observed
  <1>3. CASE /\ channelMembers' = [channelMembers EXCEPT ![b.channel] = set]
             /\ Goto(p, "announce")
             /\ IF b.kind = "join" THEN Wrote(p, "join") ELSE UNCHANGED writes
    <2>1. /\ TypeOK /\ RequestsOK /\ CreationOK /\ SaidOK /\ OwnerStays /\ ChannelOwnerStays
          /\ MatrixKept /\ LatestTrue /\ InvitesOK
      BY DEF MembersInv, OwnersStay
    <2>2. RequestOK(req[p]) BY <2>1 DEF RequestsOK
    <2>3. /\ b \in Inputs /\ HasOwner(b.ws) /\ b.channel \in 1..Len(channels)
          /\ b.kind = "leave" => b.actor # channels[b.channel].owner
          /\ b.kind = "join" => req[p].seen # "none"
      BY <1>1, <2>2 DEF RequestOK, FlowOK, WorkspaceOK, RoleOK, ChannelOK, Admitted
    <2>4. /\ Len(channels) \in Nat /\ Len(channels) <= MaxChannels /\ MaxChannels \in Nat
          /\ channelMembers \in [1..MaxChannels -> SUBSET Users] /\ b.actor \in Users
      BY <2>1, BoundsTyped, Typed DEF TypeOK
    <2>5. b.channel \in 1..MaxChannels BY <2>3, <2>4
    <2>6. set \in SUBSET Users /\ \A v \in Users : v # b.actor => (v \in set <=> v \in channelMembers[b.channel])
      BY <2>4, <2>5
    <2>7. b.kind = "join" => channelMembers[b.channel] \subseteq set
      OBVIOUS
    <2> HIDE DEF set
    <2>8. /\ channelMembers' \in [1..MaxChannels -> SUBSET Users]
          /\ channelMembers'[b.channel] = set
          /\ \A c \in 1..MaxChannels : c # b.channel => channelMembers'[c] = channelMembers[c]
      BY <1>3, <2>4, <2>5, <2>6
    <2>9. /\ Only(p) /\ req'[p].pc = "announce"
          /\ req'[p].body = b /\ req'[p].seen = req[p].seen
      BY <1>3, <2>1, GotoForm DEF Points
    <2>10. /\ writes' \subseteq [what : {"add", "addAdmin", "remove", "role", "create",
                                         "createReadOnly", "join"},
                                 role : Role, changed : BOOLEAN]
           /\ MatrixKept'
      <3>1. CASE b.kind = "join" BY <1>3, <2>1, <2>3, <3>1, WroteRow
      <3>2. CASE b.kind # "join" BY <1>3, <2>1, <3>2, KeepMatrix DEF TypeOK
      <3> QED BY <3>1, <3>2
    <2>11. TypeOK' BY <1>1, <2>1, <2>8, <2>9, <2>10 DEF TypeOK, Only
    <2>12. RequestOK(req[p])'
      <3>1. HasOwner(req[p].body.ws)' BY <1>1, <2>3, <2>9 DEF HasOwner
      <3> QED BY <1>1, <2>3, <2>9, <3>1
              DEF RequestOK, FlowOK, WorkspaceOK, RoleOK, ChannelOK, Admitted
    <2>13. Grow BY <1>1, <2>1, Lengths DEF Grow
    <2>14. RequestsOK' BY <2>1, <2>9, <2>11, <2>12, <2>13, KeepRequests
    <2>15. CreationOK' BY <1>1, <2>1, <2>9, KeepCreation
    <2>16. SaidOK' BY <1>1, <2>1, KeepSaid
    <2>17. OwnerStays' BY <1>1, <2>1, <2>9, KeepOwners DEF At
    <2>18. ChannelOwnerStays'
      <3> SUFFICES ASSUME NEW c \in 1..Len(channels)
                   PROVE  \/ channels[c].owner \in channelMembers'[c]
                          \/ Creating("channel", "addCreator", c)'
        BY <1>1 DEF ChannelOwnerStays
      <3>1. Creating("channel", "addCreator", c) => Creating("channel", "addCreator", c)'
        BY <1>1, <2>9 DEF Creating, At, Only
      <3>2. c \in 1..MaxChannels BY <2>4
      <3>3. channels[c].owner \in channelMembers[c] => channels[c].owner \in channelMembers'[c]
        <4>1. CASE c # b.channel BY <4>1, <3>2, <2>8
        <4>2. CASE c = b.channel /\ b.kind = "join" BY <4>2, <2>7, <2>8
        <4>3. CASE c = b.channel /\ b.kind = "leave"
          BY <4>3, <2>3, <2>4, <2>6, <2>8, <3>2
        <4> QED BY <4>1, <4>2, <4>3, <1>1
      <3> QED BY <2>1, <3>1, <3>3 DEF ChannelOwnerStays
    <2>19. LatestTrue'
      <3> SUFFICES ASSUME NEW c \in 1..MaxChannels, NEW v \in Users
                   PROVE  \/ <<c, v>> \in blurred
                          \/ \E q \in Requests : /\ At(q, "announce")' /\ req'[q].body.channel = c
                                                 /\ req'[q].body.actor = v
                          \/ /\ said[c][v].word = "joined" => v \in channelMembers'[c]
                             /\ said[c][v].word = "left" => v \notin channelMembers'[c]
        BY <1>1 DEF LatestTrue, Announcing, Holds
      <3>1. CASE c = b.channel /\ v = b.actor BY <3>1, <2>9 DEF At
      <3>2. CASE ~(c = b.channel /\ v = b.actor)
        <4>1. v \in channelMembers[c] <=> v \in channelMembers'[c]
          BY <3>2, <2>6, <2>8
        <4>2. \A q \in Requests : At(q, "announce") => q # p /\ req'[q] = req[q]
          BY <1>1, <2>9 DEF At, Only
        <4> QED BY <2>1, <4>1, <4>2 DEF LatestTrue, Announcing, Holds, At
      <3> QED BY <3>1, <3>2
    <2>20. InvitesOK' BY <1>1, <2>1, <2>9, KeepInvites
    <2> QED BY <2>10, <2>11, <2>14, <2>15, <2>16, <2>17, <2>18, <2>19, <2>20 DEF MembersInv, OwnersStay
  <1>4. CASE JoinChannel(p)
    BY <1>2, <1>3, <1>4 DEF JoinChannel, AddChannelMember, IsChannelMember
  <1>5. CASE LeaveChannel(p)
    BY <1>3, <1>5 DEF LeaveChannel, RemoveChannelMember, observed
  <1> QED BY <1>4, <1>5
\* The event says what the table says, or is recorded as overtaken.
LEMMA AnnounceInv ==
  ASSUME MembersInv, NEW p \in Requests, Announce(p)
  PROVE  MembersInv'
  <1> DEFINE b == req[p].body
             word == IF b.kind = "join" THEN "joined" ELSE "left"
             says == [word |-> word, number |-> sequence[b.channel] + 1]
             event == [channel |-> b.channel, user |-> b.actor, says |-> says]
             here == {<<b.channel, b.actor>>}
  <1>1. /\ req[p].pc = "announce" /\ Return(p)
        /\ sequence' = [sequence EXCEPT ![b.channel] = says.number]
        /\ sent' = sent \cup {event}
        /\ said' = [said EXCEPT ![b.channel][b.actor] = says]
        /\ lost' = lost \ here
        /\ blurred' = IF (b.kind = "join") = (b.actor \in channelMembers[b.channel])
                      THEN blurred \ here ELSE blurred \cup here
        /\ UNCHANGED <<workspaces, members, channels, channelMembers, begun,
                       adds, invites, cut, writes, heard>>
    BY DEF Announce, Publish, SequencerNext, At, tables, IsChannelMember
  <1>2. /\ TypeOK /\ RequestsOK /\ CreationOK /\ SaidOK /\ OwnerStays /\ ChannelOwnerStays
        /\ MatrixKept /\ LatestTrue /\ InvitesOK
    BY DEF MembersInv, OwnersStay
  <1>3. Only(p) /\ req'[p].pc = "idle" /\ RequestOK(req[p])'
    BY <1>1, <1>2, ReturnForm
  <1>4. /\ b.channel \in 1..Len(channels) /\ b.kind \in {"join", "leave"}
        /\ b.kind = "leave" => b.actor # channels[b.channel].owner
    BY <1>1, <1>2 DEF RequestsOK, RequestOK, FlowOK, ChannelOK
  <1>5. b.channel \in 1..MaxChannels /\ b.actor \in Users
    BY <1>2, <1>4, ChannelIds, Typed
  <1>6. /\ said \in [1..MaxChannels -> [Users -> Says]] /\ sequence \in [1..MaxChannels -> Nat]
        /\ word \in {"joined", "left"} /\ (word = "left" <=> b.kind = "leave")
        /\ says \in Says /\ says.word = word /\ event \in Event /\ says.number \in Nat
    <2>1. said \in [1..MaxChannels -> [Users -> Says]] /\ sequence \in [1..MaxChannels -> Nat]
      BY <1>2 DEF TypeOK
    <2>2. word \in {"joined", "left"} /\ (word = "left" <=> b.kind = "leave")
      BY <1>4
    <2>3. sequence[b.channel] + 1 \in Nat
      BY <1>5, <2>1
    <2>4. says \in Says /\ says.word = word /\ says.number \in Nat
      BY <2>2, <2>3 DEF Says
    <2> HIDE DEF says
    <2>5. event \in Event
      BY <1>5, <2>4 DEF Event
    <2> QED BY <2>1, <2>2, <2>4, <2>5
  <1> HIDE DEF word, says, event
  <1>7. /\ said' \in [1..MaxChannels -> [Users -> Says]]
        /\ said'[b.channel][b.actor] = says
        /\ \A c \in 1..MaxChannels, v \in Users :
             ~(c = b.channel /\ v = b.actor) => said'[c][v] = said[c][v]
    BY <1>1, <1>5, <1>6
  <1>8. /\ blurred' \subseteq ((1..MaxChannels) \X Users) /\ lost' \subseteq ((1..MaxChannels) \X Users)
        /\ sent' \subseteq Event /\ sequence' \in [1..MaxChannels -> Nat]
    BY <1>1, <1>2, <1>5, <1>6 DEF TypeOK
  <1>9. TypeOK' BY <1>1, <1>2, <1>3, <1>7, <1>8 DEF TypeOK, Only
  <1>10. RequestsOK' BY <1>1, <1>2, <1>3, <1>9, GrowSame, KeepRequests DEF tables
  <1>11. CreationOK' BY <1>1, <1>2, <1>3, KeepCreation
  <1>12. SaidOK'
    <2> SUFFICES ASSUME NEW c \in 1..MaxChannels, NEW v \in Users, said'[c][v].word = "left"
                 PROVE  c \in 1..Len(channels) /\ v # channels[c].owner
      BY <1>1 DEF SaidOK
    <2>1. CASE c = b.channel /\ v = b.actor BY <2>1, <1>4, <1>6, <1>7
    <2>2. CASE ~(c = b.channel /\ v = b.actor) BY <2>2, <1>2, <1>7 DEF SaidOK
    <2> QED BY <2>1, <2>2
  <1>13. OwnerStays' BY <1>1, <1>2, <1>3, KeepOwners DEF At
  <1>14. ChannelOwnerStays' BY <1>1, <1>2, <1>3, KeepChannelOwners DEF At
  <1>15. MatrixKept' BY <1>1, <1>2, KeepMatrix
  <1>16. LatestTrue'
    <2> SUFFICES ASSUME NEW c \in 1..MaxChannels, NEW v \in Users
                 PROVE  \/ <<c, v>> \in blurred'
                        \/ \E q \in Requests : /\ At(q, "announce")' /\ req'[q].body.channel = c
                                               /\ req'[q].body.actor = v
                        \/ /\ said'[c][v].word = "joined" => v \in channelMembers[c]
                           /\ said'[c][v].word = "left" => v \notin channelMembers[c]
      BY <1>1 DEF LatestTrue, Announcing, Holds
    <2>1. CASE c = b.channel /\ v = b.actor
      <3>1. CASE (b.kind = "join") = (b.actor \in channelMembers[b.channel])
        BY <2>1, <3>1, <1>4, <1>6, <1>7 DEF Holds
      <3>2. CASE (b.kind = "join") # (b.actor \in channelMembers[b.channel])
        BY <2>1, <3>2, <1>1
      <3> QED BY <3>1, <3>2
    <2>2. CASE ~(c = b.channel /\ v = b.actor)
      <3>1. \A q \in Requests : At(q, "announce") =>
              \/ q = p
              \/ At(q, "announce")' /\ req'[q] = req[q]
        BY <1>3 DEF At, Only
      <3>2. <<c, v>> \in blurred => <<c, v>> \in blurred'
        BY <2>2, <1>1
      <3> QED BY <2>2, <3>1, <3>2, <1>2, <1>7 DEF LatestTrue, Announcing, Holds, At
    <2> QED BY <2>1, <2>2
  <1>17. InvitesOK' BY <1>1, <1>2, <1>3, KeepInvites
  <1> QED BY <1>9, <1>10, <1>11, <1>12, <1>13, <1>14, <1>15, <1>16, <1>17 DEF MembersInv, OwnersStay

\* A request that stops leaves what it has written, and a note of it.
LEMMA FailInv ==
  ASSUME MembersInv, NEW p \in Requests, Fail(p)
  PROVE  MembersInv'
  <1> DEFINE b == req[p].body
  <1>1. /\ Return(p) /\ cut \subseteq cut' /\ blurred \subseteq blurred'
        /\ At(p, "addOwner") => <<"workspace", req[p].id>> \in cut'
        /\ At(p, "addCreator") => <<"channel", req[p].id>> \in cut'
        /\ At(p, "announce") => <<b.channel, b.actor>> \in blurred'
        /\ cut' \subseteq cut \cup ({"workspace", "channel"} \X {req[p].id})
        /\ blurred' = blurred \/ (At(p, "announce") /\ blurred' = blurred \cup {<<b.channel, b.actor>>})
        /\ UNCHANGED <<workspaces, members, channels, channelMembers, begun,
                       adds, invites, writes, sequence, sent, heard, said, lost>>
    BY DEF Fail, At, tables
  <1>2. /\ TypeOK /\ RequestsOK /\ CreationOK /\ SaidOK /\ OwnerStays /\ ChannelOwnerStays
        /\ MatrixKept /\ LatestTrue /\ InvitesOK
    BY DEF MembersInv, OwnersStay
  <1>3. Only(p) /\ req'[p].pc = "idle" /\ RequestOK(req[p])'
    BY <1>1, <1>2, ReturnForm
  <1>4. At(p, "announce") => b.channel \in 1..MaxChannels
    <2>1. At(p, "announce") => b.channel \in 1..Len(channels)
      BY <1>2 DEF RequestsOK, RequestOK, ChannelOK, At
    <2> QED BY <1>2, <2>1, BoundsTyped DEF TypeOK
  <1>5. b.actor \in Users /\ req[p].id \in Nat BY <1>2, Typed
  <1>6. blurred' \subseteq ((1..MaxChannels) \X Users) /\ cut' \subseteq ({"workspace", "channel"} \X Nat)
    BY <1>1, <1>2, <1>4, <1>5 DEF TypeOK
  <1>7. TypeOK' BY <1>1, <1>2, <1>3, <1>6 DEF TypeOK, Only
  <1>8. RequestsOK' BY <1>1, <1>2, <1>3, <1>7, GrowSame, KeepRequests DEF tables
  <1>9. CreationOK' BY <1>1, <1>2, <1>3, KeepCreation
  <1>10. SaidOK' BY <1>1, <1>2, KeepSaid
  <1>11. OwnerStays' BY <1>1, <1>2, <1>3, KeepOwners
  <1>12. ChannelOwnerStays' BY <1>1, <1>2, <1>3, KeepChannelOwners
  <1>13. MatrixKept' BY <1>1, <1>2, KeepMatrix
  <1>14. LatestTrue' BY <1>1, <1>2, <1>3, KeepLatest
  <1>15. InvitesOK' BY <1>1, <1>2, <1>3, KeepInvites
  <1> QED BY <1>7, <1>8, <1>9, <1>10, <1>11, <1>12, <1>13, <1>14, <1>15 DEF MembersInv, OwnersStay

-----------------------------------------------------------------------------
(* The invariant holds, and with it the properties.                        *)

LEMMA InitInv == Init => MembersInv
  <1> SUFFICES ASSUME Init PROVE MembersInv
    OBVIOUS
  <1> USE DEF Init
  <1>1. /\ Len(workspaces) = 1 /\ workspaces[1].owner = Owner
        /\ workspaces \in Seq([slug : Slugs, owner : Users])
        /\ members[1] = FirstRoles /\ \A u \in Users : FirstRoles[u] = "owner" <=> u = Owner
    BY MembersAssumption
  <1>2. /\ Len(channels) = 1 /\ channels[1].owner = FirstChannel
        /\ channels \in Seq([ws : 1..MaxWorkspaces, name : Names, owner : Users,
                             readOnly : BOOLEAN])
    BY MembersAssumption
  <1>3. members \in [1..MaxWorkspaces -> [Users -> Role]]
    BY MembersAssumption DEF Role
  <1>4. channelMembers \in [1..MaxChannels -> SUBSET Users]
    BY MembersAssumption
  <1>5. req \in [Requests -> Request] /\ \A p \in Requests : req[p].pc = "idle"
    BY IdleTyped
  <1>6. TypeOK
    <2>1. Len(workspaces) <= MaxWorkspaces /\ Len(channels) <= MaxChannels
      BY <1>1, <1>2, BoundsTyped
    <2>2. begun \in 0..MaxBegun /\ adds \in [Users -> Nat] /\ invites \in [Users -> Nat]
      BY BoundsTyped
    <2>3. /\ sequence \in [1..MaxChannels -> Nat]
          /\ heard \in [1..MaxChannels -> [Users -> Says]] /\ said = heard
      BY DEF Nothing, Says
    <2>4. cut = {} /\ writes = {} /\ sent = {} /\ lost = {} /\ blurred = {}
      OBVIOUS
    <2> QED BY <1>1, <1>2, <1>3, <1>4, <1>5, <2>1, <2>2, <2>3, <2>4 DEF TypeOK
  <1>7. RequestsOK
    BY <1>5 DEF RequestsOK, RequestOK, FlowOK, WorkspaceOK, RoleOK, ChannelOK, Admitted
  <1>8. CreationOK
    BY <1>1, <1>5, BoundsTyped DEF CreationOK, At
  <1>9. SaidOK
    BY DEF SaidOK, Nothing
  <1>10. OwnerStays
    BY <1>1, MembersAssumption DEF OwnerStays
  <1>11. ChannelOwnerStays
    BY <1>2, BoundsTyped DEF ChannelOwnerStays
  <1>12. MatrixKept BY DEF MatrixKept
  <1>13. LatestTrue BY DEF LatestTrue, Holds, Nothing
  <1>14. InvitesOK
    <2> SUFFICES ASSUME NEW u \in Users PROVE invites[u] + Cardinality(Rereading(u)) <= adds[u]
      BY DEF InvitesOK
    <2>1. Rereading(u) = {} BY <1>5 DEF Rereading, At
    <2>2. Cardinality(Rereading(u)) = 0 BY <2>1, FS_EmptySet
    <2>3. invites[u] = 0 /\ adds[u] = 0 OBVIOUS
    <2> QED BY <2>2, <2>3
  <1> QED BY <1>6, <1>7, <1>8, <1>9, <1>10, <1>11, <1>12, <1>13, <1>14 DEF MembersInv, OwnersStay

\* A step of events alone.
LEMMA StayInv ==
  ASSUME MembersInv, TypeOK',
         UNCHANGED <<workspaces, members, channels, channelMembers, req, begun, adds, invites,
                     cut, writes, said, blurred>>
  PROVE  MembersInv'
  <1>2. RequestsOK'
    <2> SUFFICES ASSUME NEW p \in Requests PROVE RequestOK(req[p])'
      BY DEF RequestsOK
    <2>1. RequestOK(req[p]) BY DEF MembersInv, RequestsOK
    <2>2. FlowOK(req[p])' BY <2>1 DEF RequestOK, FlowOK
    <2>3. WorkspaceOK(req[p])' BY <2>1 DEF RequestOK, WorkspaceOK, HasOwner
    <2>4. RoleOK(req[p])' BY <2>1 DEF RequestOK, RoleOK
    <2>5. ChannelOK(req[p])' BY <2>1 DEF RequestOK, ChannelOK
    <2> QED BY <2>2, <2>3, <2>4, <2>5 DEF RequestOK
  <1>3. CreationOK' /\ SaidOK' BY DEF MembersInv, CreationOK, SaidOK, At
  <1>4. OwnersStay'
    <2>1. \A what, pc, id : Creating(what, pc, id) => Creating(what, pc, id)'
      BY DEF Creating, At
    <2> QED BY <2>1 DEF MembersInv, OwnersStay, OwnerStays, ChannelOwnerStays
  <1>5. MatrixKept' /\ LatestTrue' BY DEF MembersInv, MatrixKept, LatestTrue, Announcing, Holds, At
  <1>6. InvitesOK' BY DEF MembersInv, InvitesOK, Rereading, At
  <1> QED BY <1>2, <1>3, <1>4, <1>5, <1>6 DEF MembersInv

\* Events on their way change what is known of them, and nothing else.
LEMMA ArrivalInv ==
  ASSUME MembersInv, NEW e \in sent, Deliver(e) \/ Lose(e)
  PROVE  MembersInv'
  <1>1. /\ UNCHANGED <<workspaces, members, channels, channelMembers, req, begun, adds, invites,
                       cut, writes, sequence, said, blurred>>
        /\ sent' \subseteq sent
    BY DEF Deliver, Lose, tables
  <1>2. e \in Event /\ e.channel \in 1..MaxChannels /\ e.user \in Users /\ e.says \in Says
    BY DEF MembersInv, TypeOK, Event
  <1>3. heard' \in [1..MaxChannels -> [Users -> Says]]
    <2>1. heard \in [1..MaxChannels -> [Users -> Says]] BY DEF MembersInv, TypeOK
    <2>2. CASE Lose(e) BY <2>1, <2>2 DEF Lose
    <2>3. CASE Deliver(e) BY <1>2, <2>1, <2>3 DEF Deliver
    <2> QED BY <2>2, <2>3
  <1>4. lost' \subseteq ((1..MaxChannels) \X Users)
    BY <1>2 DEF Deliver, Lose, MembersInv, TypeOK
  <1>5. TypeOK' BY <1>1, <1>3, <1>4 DEF MembersInv, TypeOK
  <1> QED BY <1>1, <1>5, StayInv

LEMMA NextInv == MembersInv /\ [Next]_vars => MembersInv'
  <1> SUFFICES ASSUME MembersInv, [Next]_vars PROVE MembersInv'
    OBVIOUS
  <1>1. CASE UNCHANGED vars
    <2>1. TypeOK' BY <1>1 DEF MembersInv, TypeOK, vars, observed
    <2> QED BY <1>1, <2>1, StayInv DEF vars, observed
  <1>2. CASE RequestStep
    BY <1>2, ArriveInv, CheckSlugInv, InsertWorkspaceInv, AddOwnerInv, CanInv, CanAssignRoleInv,
       CheckPresentInv, AddMemberInv, InviteInv, GetTargetInv, WriteMemberInv,
       assertWorkspaceMemberInv, CheckReadOnlyInv, CreateChannelInv, AddCreatorInv, GetChannelInv,
       CheckChannelMemberInv, WriteChannelInv, AnnounceInv, FailInv
    DEF RequestStep
  <1>3. CASE \E e \in sent : Deliver(e) \/ Lose(e)
    BY <1>3, ArrivalInv
  <1> QED BY <1>1, <1>2, <1>3 DEF Next

-----------------------------------------------------------------------------
(* What arrived of the events.                                             *)

\* Numbers grow.  The last event published of a user and a channel is under
\* way, lost, or has arrived, and then none that is under way counts any more.
DeliveryOK ==
  /\ \A c \in 1..MaxChannels, u \in Users :
       /\ UnderWay(c, u) \/ <<c, u>> \in lost \/ heard[c][u] = said[c][u]
       /\ said[c][u].number <= sequence[c]
       /\ \/ heard[c][u].number < said[c][u].number
          \/ heard[c][u] = said[c][u]
  /\ \A e \in sent :
       \/ e.says.number < said[e.channel][e.user].number
       \/ e.says = said[e.channel][e.user]

LEMMA AnnounceDelivery ==
  ASSUME MembersInv, DeliveryOK, NEW p \in Requests, Announce(p)
  PROVE  DeliveryOK'
  <1> DEFINE b == req[p].body
             says == [word |-> IF b.kind = "join" THEN "joined" ELSE "left",
                      number |-> sequence[b.channel] + 1]
             event == [channel |-> b.channel, user |-> b.actor, says |-> says]
  <1>1. /\ req[p].pc = "announce"
        /\ sequence' = [sequence EXCEPT ![b.channel] = says.number]
        /\ sent' = sent \cup {event}
        /\ said' = [said EXCEPT ![b.channel][b.actor] = says]
        /\ lost' = lost \ {<<b.channel, b.actor>>}
        /\ heard' = heard
    BY DEF Announce, Publish, SequencerNext, At
  <1>2. b.channel \in 1..Len(channels)
    BY <1>1 DEF MembersInv, RequestsOK, RequestOK, ChannelOK
  <1>3. b.channel \in 1..MaxChannels /\ b.actor \in Users
    BY <1>2, ChannelIds, Typed DEF MembersInv
  <1>4. /\ said \in [1..MaxChannels -> [Users -> Says]] /\ heard \in [1..MaxChannels -> [Users -> Says]]
        /\ sequence \in [1..MaxChannels -> Nat] /\ sent \subseteq Event
    BY DEF MembersInv, TypeOK
  <1>5. says.number = sequence[b.channel] + 1
    OBVIOUS
  <1>6. event.channel = b.channel /\ event.user = b.actor /\ event.says = says
    OBVIOUS
  <1> HIDE DEF says
  <1>7. /\ said'[b.channel][b.actor] = says /\ sequence'[b.channel] = sequence[b.channel] + 1
        /\ \A c \in 1..MaxChannels : c # b.channel => sequence'[c] = sequence[c]
        /\ \A c \in 1..MaxChannels, v \in Users :
             ~(c = b.channel /\ v = b.actor) => said'[c][v] = said[c][v]
    BY <1>1, <1>3, <1>4, <1>5
  <1>8. \A s \in Says : s.number \in Nat
    BY DEF Says
  <1>9. \A c \in 1..MaxChannels, v \in Users :
          /\ said[c][v].number \in Nat /\ heard[c][v].number \in Nat /\ sequence[c] \in Nat
          /\ said[c][v].number <= sequence[c] /\ heard[c][v].number <= said[c][v].number
    <2> SUFFICES ASSUME NEW c \in 1..MaxChannels, NEW v \in Users
                 PROVE  /\ said[c][v].number \in Nat /\ heard[c][v].number \in Nat
                        /\ sequence[c] \in Nat /\ said[c][v].number <= sequence[c]
                        /\ heard[c][v].number <= said[c][v].number
      OBVIOUS
    <2>1. said[c][v] \in Says /\ heard[c][v] \in Says /\ sequence[c] \in Nat
      BY <1>4
    <2>2. /\ said[c][v].number <= sequence[c]
          /\ heard[c][v].number < said[c][v].number \/ heard[c][v] = said[c][v]
      BY DEF DeliveryOK
    <2> QED BY <2>1, <2>2, <1>8
  <1>10. ASSUME NEW c \in 1..MaxChannels, NEW v \in Users
         PROVE  /\ UnderWay(c, v)' \/ <<c, v>> \in lost' \/ heard'[c][v] = said'[c][v]
                /\ said'[c][v].number <= sequence'[c]
                /\ heard'[c][v].number < said'[c][v].number \/ heard'[c][v] = said'[c][v]
    <2>1. CASE c = b.channel /\ v = b.actor
      <3>1. said'[c][v] = says /\ sequence'[c] = says.number
        BY <2>1, <1>5, <1>7
      <3>2. UnderWay(c, v)'
        BY <2>1, <3>1, <1>1 DEF UnderWay
      <3>3. says.number \in Nat /\ heard[c][v].number < says.number
        BY <2>1, <1>5, <1>9
      <3> QED BY <3>1, <3>2, <3>3, <1>1
    <2>2. CASE ~(c = b.channel /\ v = b.actor)
      <3>1. said'[c][v] = said[c][v] BY <2>2, <1>7
      <3>2. UnderWay(c, v) => UnderWay(c, v)' BY <3>1, <1>1 DEF UnderWay
      <3>3. <<c, v>> \in lost => <<c, v>> \in lost' BY <2>2, <1>1
      <3>4. said[c][v].number <= sequence'[c] BY <1>7, <1>9
      <3> QED BY <3>1, <3>2, <3>3, <3>4, <1>1 DEF DeliveryOK
    <2> QED BY <2>1, <2>2
  <1>11. ASSUME NEW e \in sent'
         PROVE  \/ e.says.number < said'[e.channel][e.user].number
                \/ e.says = said'[e.channel][e.user]
    <2>1. CASE e = event BY <2>1, <1>6, <1>7
    <2>2. CASE e \in sent
      <3>1. e.channel \in 1..MaxChannels /\ e.user \in Users /\ e.says \in Says
        BY <2>2, <1>4 DEF Event
      <3>2. \/ e.says.number < said[e.channel][e.user].number
            \/ e.says = said[e.channel][e.user]
        BY <2>2 DEF DeliveryOK
      <3>3. CASE e.channel = b.channel /\ e.user = b.actor
        <4>1. e.says.number <= sequence[b.channel] /\ e.says.number \in Nat
          BY <3>1, <3>2, <3>3, <1>8, <1>9
        <4> QED BY <3>3, <4>1, <1>5, <1>7, <1>9, <1>3
      <3>4. CASE ~(e.channel = b.channel /\ e.user = b.actor)
        BY <3>1, <3>2, <3>4, <1>7
      <3> QED BY <3>3, <3>4
    <2> QED BY <2>1, <2>2, <1>1
  <1> QED BY <1>10, <1>11 DEF DeliveryOK

LEMMA ArrivalDelivery ==
  ASSUME MembersInv, DeliveryOK, NEW e \in sent, Deliver(e) \/ Lose(e)
  PROVE  DeliveryOK'
  <1> DEFINE there(c, v) == c = e.channel /\ v = e.user
  <1>1. sent' = sent \ {e} /\ sequence' = sequence /\ said' = said
    BY DEF Deliver, Lose
  <1>2. /\ said \in [1..MaxChannels -> [Users -> Says]] /\ heard \in [1..MaxChannels -> [Users -> Says]]
        /\ e.channel \in 1..MaxChannels /\ e.user \in Users /\ e.says \in Says
    BY DEF MembersInv, TypeOK, Event
  <1>3. \A s \in Says : s.number \in Nat
    BY DEF Says
  <1>4. \/ e.says.number < said[e.channel][e.user].number
        \/ e.says = said[e.channel][e.user]
    BY DEF DeliveryOK
  <1>5. ASSUME NEW c \in 1..MaxChannels, NEW v \in Users
        PROVE  /\ UnderWay(c, v)' \/ <<c, v>> \in lost' \/ heard'[c][v] = said[c][v]
               /\ heard'[c][v].number < said[c][v].number \/ heard'[c][v] = said[c][v]
    <2>1. /\ UnderWay(c, v) \/ <<c, v>> \in lost \/ heard[c][v] = said[c][v]
          /\ heard[c][v].number < said[c][v].number \/ heard[c][v] = said[c][v]
      BY DEF DeliveryOK
    <2>2. UnderWay(c, v) => UnderWay(c, v)' \/ (there(c, v) /\ e.says = said[c][v])
      <3>1. [channel |-> c, user |-> v, says |-> said[c][v]] = e =>
              there(c, v) /\ e.says = said[c][v]
        OBVIOUS
      <3> QED BY <1>1, <3>1 DEF UnderWay
    <2>3. CASE Lose(e)
      <3>1. /\ heard' = heard
            /\ lost' = IF e.says = said[e.channel][e.user]
                       THEN lost \cup {<<e.channel, e.user>>} ELSE lost
        BY <2>3 DEF Lose
      <3> QED BY <2>1, <2>2, <3>1
    <2>4. CASE Deliver(e)
      <3>1. /\ lost' = lost
            /\ heard' = [heard EXCEPT ![e.channel][e.user] =
                           IF e.says.number > heard[e.channel][e.user].number THEN e.says
                           ELSE heard[e.channel][e.user]]
        BY <2>4, <1>2 DEF Deliver
      <3>2. CASE ~there(c, v)
        <4>1. heard'[c][v] = heard[c][v] BY <3>1, <3>2, <1>2
        <4> QED BY <2>1, <2>2, <3>1, <3>2, <4>1
      <3>3. CASE there(c, v)
        <4>1. heard'[c][v] = IF e.says.number > heard[c][v].number THEN e.says ELSE heard[c][v]
          BY <3>1, <3>3, <1>2
        <4>2. /\ heard[c][v].number \in Nat /\ said[c][v].number \in Nat
              /\ e.says.number \in Nat
          BY <1>2, <1>3
        <4>3. CASE e.says = said[c][v]
          BY <2>1, <4>1, <4>2, <4>3
        <4>4. CASE e.says.number < said[c][v].number
          BY <2>1, <2>2, <3>1, <4>1, <4>2, <4>4
        <4> QED BY <1>4, <3>3, <4>3, <4>4
      <3> QED BY <3>2, <3>3
    <2> QED BY <2>3, <2>4
  <1>6. \A c \in 1..MaxChannels, v \in Users : said[c][v].number <= sequence[c]
    BY DEF DeliveryOK
  <1>7. \A f \in sent' : \/ f.says.number < said[f.channel][f.user].number
                         \/ f.says = said[f.channel][f.user]
    BY <1>1 DEF DeliveryOK
  <1> QED BY <1>1, <1>5, <1>6, <1>7 DEF DeliveryOK

\* No other step touches the events.
LEMMA OnlyAnnouncePublishes ==
  ASSUME RequestStep
  PROVE  (\E p \in Requests : Announce(p)) \/ UNCHANGED <<sequence, sent, heard, said, lost>>
  <1> DEFINE same == UNCHANGED <<sequence, sent, heard, said, lost>>
  <1>1. ASSUME NEW p \in Requests, \E i \in Inputs : Arrive(p, i) PROVE same
    BY <1>1 DEF Arrive, observed
  <1>2. ASSUME NEW p \in Requests, CheckSlug(p) \/ InsertWorkspace(p) \/ AddOwner(p) PROVE same
    BY <1>2 DEF CheckSlug, InsertWorkspace, AddOwner, observed
  <1>3. ASSUME NEW p \in Requests, Can(p) \/ CanAssignRole(p) \/ CheckPresent(p) PROVE same
    BY <1>3 DEF Can, CanAssignRole, CheckPresent, observed
  <1>4. ASSUME NEW p \in Requests, AddMember(p) \/ Invite(p) PROVE same
    BY <1>4 DEF AddMember, Invite
  <1>5. ASSUME NEW p \in Requests, GetTarget(p) \/ RemoveMember(p) \/ UpdateMemberRole(p) PROVE same
    BY <1>5 DEF GetTarget, RemoveMember, UpdateMemberRole, observed
  <1>6. ASSUME NEW p \in Requests,
               \/ assertWorkspaceMember(p) \/ CheckReadOnly(p) \/ CreateChannel(p) \/ AddCreator(p)
        PROVE same
    BY <1>6 DEF assertWorkspaceMember, CheckReadOnly, CreateChannel, AddCreator, observed
  <1>7. ASSUME NEW p \in Requests, GetChannel(p) \/ CheckChannelMember(p) PROVE same
    BY <1>7 DEF GetChannel, CheckChannelMember, observed
  <1>8. ASSUME NEW p \in Requests, JoinChannel(p) \/ LeaveChannel(p) \/ Fail(p) PROVE same
    BY <1>8 DEF JoinChannel, LeaveChannel, Fail, observed
  <1> HIDE DEF same
  <1>9. (\E p \in Requests : Announce(p)) \/ same
    BY <1>1, <1>2, <1>3, <1>4, <1>5, <1>6, <1>7, <1>8 DEF RequestStep
  <1> QED BY <1>9 DEF same

LEMMA NextDelivery == MembersInv /\ DeliveryOK /\ [Next]_vars => DeliveryOK'
  <1> SUFFICES ASSUME MembersInv, DeliveryOK, [Next]_vars PROVE DeliveryOK'
    OBVIOUS
  <1>1. CASE UNCHANGED <<sequence, sent, heard, said, lost>>
    BY <1>1 DEF DeliveryOK, UnderWay
  <1>2. CASE UNCHANGED vars
    BY <1>1, <1>2 DEF vars, observed
  <1>3. CASE \E e \in sent : Deliver(e) \/ Lose(e)
    BY <1>3, ArrivalDelivery
  <1>4. CASE RequestStep
    BY <1>1, <1>4, OnlyAnnouncePublishes, AnnounceDelivery
  <1> QED BY <1>2, <1>3, <1>4 DEF Next

LEMMA Invariance == Spec => [](MembersInv /\ DeliveryOK)
  <1>1. Init => DeliveryOK
    BY DEF Init, DeliveryOK, UnderWay, Nothing
  <1> QED BY <1>1, InitInv, NextInv, NextDelivery, PTL DEF Spec

\* Every row, membership and request keeps its type.
THEOREM TypeCorrect == Spec => []TypeOK
  <1>1. MembersInv => TypeOK BY DEF MembersInv
  <1> QED BY <1>1, Invariance, PTL

\* Nobody removes or demotes the owner of a workspace, makes a second one, or
\* gets the owner of a channel out of it, whatever requests overlap or stop.
THEOREM OwnersStayCorrect == Spec => []OwnersStay
  <1>1. MembersInv => OwnersStay BY DEF MembersInv
  <1> QED BY <1>1, Invariance, PTL

\* A write that the table of permissions forbids its actor is one whose actor
\* had another role when it was last read.
THEOREM MatrixCorrect == Spec => []MatrixKept
  <1>1. MembersInv => MatrixKept BY DEF MembersInv
  <1> QED BY <1>1, Invariance, PTL

\* Of the events of a user and a channel that arrived, in whatever order, the
\* one with the highest number says what the table says, unless the last one
\* published is under way, lost or overtaken by the user's own requests; and
\* nobody is invited more often than they were added.
THEOREM ToldCorrect == Spec => []ToldTrue
  <1>1. MembersInv /\ DeliveryOK => LastWordTrue
    BY DEF MembersInv, DeliveryOK, LatestTrue, LastWordTrue
  <1>2. MembersInv => InvitedOncePerAdd
    <2> SUFFICES ASSUME MembersInv, NEW u \in Users PROVE invites[u] <= adds[u]
      BY DEF InvitedOncePerAdd
    <2>1. /\ invites[u] + Cardinality(Rereading(u)) <= adds[u]
          /\ invites[u] \in Nat /\ adds[u] \in Nat /\ Cardinality(Rereading(u)) \in Nat
      BY RereadingFinite DEF MembersInv, InvitesOK, TypeOK
    <2> QED BY <2>1
  <1>3. MembersInv /\ DeliveryOK => ToldTrue BY <1>1, <1>2 DEF ToldTrue
  <1> QED BY <1>3, Invariance, PTL
=============================================================================
