------------------------------ MODULE Members ------------------------------
(***************************************************************************)
(* Who belongs to what: internal/workspaces, internal/channels and the     *)
(* roles of internal/authz.  No operation runs in a transaction: what one  *)
(* statement read may have changed when the next one runs.                 *)
(***************************************************************************)
EXTENDS Naturals, FiniteSets, Sequences

CONSTANTS
  Users, Owner,     \* Owner has created the first workspace
  FirstRoles,       \* the roles in it at the start
  FirstChannel,     \* the owner of its first channel
  Slugs, FirstSlug, Names, FirstName,
  Requests,
  Inputs,           \* the requests that are sent
  MaxWorkspaces, MaxChannels, MaxBegun,   \* bounds
  Failures,         \* may a request stop between two statements?
  NoUser, NoName

RoleNames == {"owner", "admin", "moderator", "member"}
Role == RoleNames \cup {"none"}
Kinds == {"createWorkspace", "add", "remove", "role", "createChannel", "join", "leave"}
\* "" and "none" stand for the texts that ParseRole does not know.
Input == [kind : Kinds, actor : Users, ws : 1..MaxWorkspaces, target : Users \cup {NoUser},
          role : Role \cup {""}, name : Slugs \cup Names \cup {NoName}, readOnly : BOOLEAN,
          channel : 0..MaxChannels]

ASSUME MembersAssumption ==
  /\ IsFiniteSet(Users) /\ Owner \in Users /\ FirstChannel \in Users
  /\ FirstRoles \in [Users -> Role]
  /\ \A u \in Users : FirstRoles[u] = "owner" <=> u = Owner
  /\ FirstRoles[FirstChannel] # "none"
  /\ FirstSlug \in Slugs /\ FirstName \in Names
  /\ NoUser \notin Users /\ NoName \notin Slugs \cup Names
  /\ IsFiniteSet(Requests)
  /\ MaxWorkspaces \in Nat \ {0} /\ MaxChannels \in Nat \ {0} /\ MaxBegun \in Nat
  /\ Failures \in BOOLEAN
  /\ Inputs \subseteq Input
  /\ \A i \in Inputs :
       /\ i.kind = "createWorkspace" => i.name \in Slugs \cup {NoName}
       /\ i.kind = "createChannel" => i.name \in Names
       /\ i.kind \in {"add", "remove", "role"} => i.target \in Users

VARIABLES
  workspaces,     \* the table workspaces: slug and owner
  members,        \* workspace_members
  channels,       \* the table channels
  channelMembers, \* channel_members
  req,            \* the requests in flight
  begun,
  adds, invites,  \* observed: members added, invitations sent, per user
  cut,            \* observed: creations that stopped before the creator was in
  writes,         \* observed: what was written, and by which role
  sequence,       \* the last sequence number of each channel
  sent,           \* the events published that are under way
  heard,          \* observed: of those that arrived, the one with the highest number
  said,           \* observed: the last event published of each channel and user
  lost,           \* observed: where that event was lost
  blurred         \* observed: where a later change came before that event

\* `heard` and `said` are kept, and `lost` and `blurred` hold until the next
\* event, of each channel and user.
events == <<sequence, sent, heard, said, lost, blurred>>
observed == <<adds, invites, cut, writes, events>>
vars == <<workspaces, members, channels, channelMembers, req, begun, observed>>

Points == {"idle", "slug", "insertWorkspace", "addOwner", "can", "assign", "target",
           "present", "insertMember", "reread", "write", "member", "readOnly",
           "insertChannel", "addCreator", "channel", "isMember", "row", "announce"}

\* `seen` is the actor's role when it was last read; `id` what was created.
Request == [pc : Points, body : Input, seen : Role, id : Nat]

NoBody == [kind |-> "join", actor |-> Owner, ws |-> 1, target |-> NoUser, role |-> "none",
           name |-> NoName, readOnly |-> FALSE, channel |-> 0]
Idle == [pc |-> "idle", body |-> NoBody, seen |-> "none", id |-> 0]

\* member.joined or member.left of a user, with its sequence number.
Says == [word : {"nothing", "joined", "left"}, number : Nat]
Nothing == [word |-> "nothing", number |-> 0]
Event == [channel : 1..MaxChannels, user : Users, says : Says]

TypeOK ==
  /\ workspaces \in Seq([slug : Slugs, owner : Users]) /\ Len(workspaces) <= MaxWorkspaces
  /\ members \in [1..MaxWorkspaces -> [Users -> Role]]
  /\ channels \in Seq([ws : 1..MaxWorkspaces, name : Names, owner : Users,
                       readOnly : BOOLEAN])
  /\ Len(channels) <= MaxChannels
  /\ channelMembers \in [1..MaxChannels -> SUBSET Users]
  /\ req \in [Requests -> Request]
  /\ begun \in 0..MaxBegun
  /\ adds \in [Users -> Nat] /\ invites \in [Users -> Nat]
  /\ cut \subseteq ({"workspace", "channel"} \X Nat)
  /\ writes \subseteq [what : {"add", "addAdmin", "remove", "role", "create", "createReadOnly",
                               "join"},
                       role : Role, changed : BOOLEAN]
  /\ sequence \in [1..MaxChannels -> Nat]
  /\ sent \subseteq Event
  /\ heard \in [1..MaxChannels -> [Users -> Says]]
  /\ said \in [1..MaxChannels -> [Users -> Says]]
  /\ lost \subseteq ((1..MaxChannels) \X Users)
  /\ blurred \subseteq ((1..MaxChannels) \X Users)

Init ==
  /\ workspaces = <<[slug |-> FirstSlug, owner |-> Owner]>>
  /\ members = [w \in 1..MaxWorkspaces |->
                  IF w = 1 THEN FirstRoles ELSE [u \in Users |-> "none"]]
  /\ channels = <<[ws |-> 1, name |-> FirstName, owner |-> FirstChannel, readOnly |-> FALSE]>>
  /\ channelMembers = [c \in 1..MaxChannels |-> IF c = 1 THEN {FirstChannel} ELSE {}]
  /\ req = [p \in Requests |-> Idle]
  /\ begun = 0
  /\ adds = [u \in Users |-> 0] /\ invites = [u \in Users |-> 0]
  /\ cut = {} /\ writes = {}
  /\ sequence = [c \in 1..MaxChannels |-> 0] /\ sent = {}
  /\ heard = [c \in 1..MaxChannels |-> [u \in Users |-> Nothing]]
  /\ said = heard /\ lost = {} /\ blurred = {}

At(p, pc) == req[p].pc = pc
Goto(p, pc) == req' = [req EXCEPT ![p].pc = pc]
Return(p) == req' = [req EXCEPT ![p] = Idle]
If(p, condition, pc) == IF condition THEN Goto(p, pc) ELSE Return(p)

tables == <<workspaces, members, channels, channelMembers>>

-----------------------------------------------------------------------------
(* Queries.                                                                *)

GetWorkspaceBySlug(s) == \E w \in 1..Len(workspaces) : workspaces[w].slug = s
GetWorkspaceMember(w, u) == members[w][u]
IsWorkspaceMember(w, u) == members[w][u] # "none"
IsChannelMember(c, u) == u \in channelMembers[c]
GetChannelMember(c, u) == u \in channelMembers[c]
GetChannelInWorkspace(c, w) == c \in 1..Len(channels) /\ channels[c].ws = w
ChannelNameTaken(w, n) == \E c \in 1..Len(channels) : channels[c].ws = w /\ channels[c].name = n

AddWorkspaceMember(w, u, r) == members' = [members EXCEPT ![w][u] = r]
RemoveWorkspaceMember(w, u) == members' = [members EXCEPT ![w][u] = "none"]

\* An UPDATE: there is nothing to do when the row is gone.
UpdateWorkspaceMemberRole(w, u, r) ==
  members' = [members EXCEPT ![w][u] = IF @ = "none" THEN @ ELSE r]
AddChannelMember(c, u) == channelMembers' = [channelMembers EXCEPT ![c] = @ \cup {u}]
RemoveChannelMember(c, u) == channelMembers' = [channelMembers EXCEPT ![c] = @ \ {u}]

-----------------------------------------------------------------------------
(* authz.                                                                  *)

Allowed(role, kind) ==
  CASE kind = "createChannel" -> role \in {"owner", "admin", "moderator"}
    [] kind \in {"add", "remove", "role"} -> role \in {"owner", "admin"}
    [] OTHER -> FALSE

\* ParseRole, and the callers' refusal of "owner".
ParseRole(raw) == raw \in RoleNames \ {"owner"}

\* Mutant: administrators make administrators.
AssignableRolesEqual(actor) ==
  CASE actor \in {"owner", "admin"} -> {"admin", "moderator", "member"}
    [] OTHER -> {}

AssignableRoles(actor) ==
  CASE actor = "owner" -> {"admin", "moderator", "member"}
    [] actor = "admin" -> {"moderator", "member"}
    [] OTHER -> {}

\* Observed: a write with the role that its actor has at that moment.
Wrote(p, what) ==
  LET b == req[p].body
  IN writes' = writes \cup {[what |-> what, role |-> members[b.ws][b.actor],
                             changed |-> members[b.ws][b.actor] # req[p].seen]}

-----------------------------------------------------------------------------

FirstPoint(kind) ==
  CASE kind = "createWorkspace" -> "slug"
    [] kind \in {"add", "remove", "role"} -> "can"
    [] OTHER -> "member"

\* A request arrives.  Those for workspaces and channels that do not exist yet
\* are refused by the first query, and left out.
Arrive(p, i) ==
  /\ At(p, "idle")
  /\ begun < MaxBegun /\ begun' = begun + 1
  /\ i.kind # "createWorkspace" => i.ws <= Len(workspaces)
  /\ i.channel <= Len(channels)
  /\ req' = [req EXCEPT ![p] = [Idle EXCEPT !.pc = FirstPoint(i.kind), !.body = i]]
  /\ UNCHANGED <<tables, observed>>

\* Mutant: a name that leaves no slug is taken.
CheckSlugFree(p) ==
  /\ At(p, "slug")
  /\ If(p, ~GetWorkspaceBySlug(req[p].body.name), "insertWorkspace")
  /\ UNCHANGED <<tables, begun, observed>>

\* CreateWorkspace: check of the slug, row, membership of the owner.  Names are
\* given as the slug that normalizeSlug makes of them, NoName if it makes none.
CheckSlug(p) ==
  /\ At(p, "slug")
  /\ If(p, req[p].body.name # NoName /\ ~GetWorkspaceBySlug(req[p].body.name),
        "insertWorkspace")
  /\ UNCHANGED <<tables, begun, observed>>

InsertWorkspace(p) ==
  LET b == req[p].body
  IN /\ At(p, "insertWorkspace")
     /\ Len(workspaces) < MaxWorkspaces
     /\ IF GetWorkspaceBySlug(b.name) THEN Return(p) /\ UNCHANGED workspaces
        ELSE /\ workspaces' = Append(workspaces, [slug |-> b.name, owner |-> b.actor])
             /\ req' = [req EXCEPT ![p].pc = "addOwner", ![p].id = Len(workspaces) + 1]
     /\ UNCHANGED <<members, channels, channelMembers, begun, observed>>

AddOwner(p) ==
  /\ At(p, "addOwner")
  /\ AddWorkspaceMember(req[p].id, req[p].body.actor, "owner")
  /\ Return(p)
  /\ UNCHANGED <<workspaces, channels, channelMembers, begun, observed>>

AfterCan(kind, readOnly) ==
  CASE kind \in {"add", "role"} -> "assign"
    [] kind = "remove" -> "target"
    [] kind = "createChannel" -> IF readOnly THEN "readOnly" ELSE "insertChannel"

\* Can: WorkspaceRole is one query, and a stranger has no role.
Can(p) ==
  LET b == req[p].body
      role == GetWorkspaceMember(b.ws, b.actor)
  IN /\ At(p, "can")
     /\ IF Allowed(role, b.kind)
        THEN req' = [req EXCEPT ![p].pc = AfterCan(b.kind, b.readOnly), ![p].seen = role]
        ELSE Return(p)
     /\ UNCHANGED <<tables, begun, observed>>

\* The role is parsed, then the actor's own role read a second time.
CanAssignRole(p) ==
  LET b == req[p].body
      role == GetWorkspaceMember(b.ws, b.actor)
  IN /\ At(p, "assign")
     /\ IF ParseRole(b.role) /\ b.role \in AssignableRoles(role)
        THEN req' = [req EXCEPT ![p].pc = IF b.kind = "add" THEN "present" ELSE "target",
                                ![p].seen = role]
        ELSE Return(p)
     /\ UNCHANGED <<tables, begun, observed>>

\* AddMember: GetUserByEmail, GetWorkspaceMember.
CheckPresent(p) ==
  LET b == req[p].body
  IN /\ At(p, "present")
     /\ If(p, GetWorkspaceMember(b.ws, b.target) = "none", "insertMember")
     /\ UNCHANGED <<tables, begun, observed>>

\* The row is unique: of two who add the same user, one gets the error.
AddMember(p) ==
  LET b == req[p].body
  IN /\ At(p, "insertMember")
     /\ IF members[b.ws][b.target] = "none"
        THEN /\ AddWorkspaceMember(b.ws, b.target, b.role)
             /\ adds' = [adds EXCEPT ![b.target] = @ + 1]
             /\ Wrote(p, IF b.role = "admin" THEN "addAdmin" ELSE "add")
             /\ Goto(p, "reread")
        ELSE Return(p) /\ UNCHANGED <<members, adds, writes>>
     /\ UNCHANGED <<workspaces, channels, channelMembers, begun, invites, cut, events>>

\* The new row is read again, and the invitation sent if it is still there.
Invite(p) ==
  LET b == req[p].body
  IN /\ At(p, "reread")
     /\ invites' = IF GetWorkspaceMember(b.ws, b.target) = "none" \/ b.target = b.actor
                   THEN invites ELSE [invites EXCEPT ![b.target] = @ + 1]
     /\ Return(p)
     /\ UNCHANGED <<tables, begun, adds, cut, writes, events>>

\* Mutant: only RemoveMember spares the owner.
GetTargetToRemove(p) ==
  LET b == req[p].body
  IN /\ At(p, "target")
     /\ If(p, GetWorkspaceMember(b.ws, b.target)
                \notin (IF b.kind = "remove" THEN {"none", "owner"} ELSE {"none"}), "write")
     /\ UNCHANGED <<tables, begun, observed>>

\* RemoveMember and UpdateMemberRole: the target is a member and not the owner.
GetTarget(p) ==
  LET b == req[p].body
  IN /\ At(p, "target")
     /\ If(p, GetWorkspaceMember(b.ws, b.target) \notin {"none", "owner"}, "write")
     /\ UNCHANGED <<tables, begun, observed>>

\* The memberships of the workspace's channels stay.
RemoveMember(p) ==
  LET b == req[p].body
  IN /\ At(p, "write") /\ b.kind = "remove"
     /\ RemoveWorkspaceMember(b.ws, b.target)
     /\ Wrote(p, "remove")
     /\ Return(p)
     /\ UNCHANGED <<workspaces, channels, channelMembers, begun, adds, invites, cut, events>>

UpdateMemberRole(p) ==
  LET b == req[p].body
  IN /\ At(p, "write") /\ b.kind = "role"
     /\ UpdateWorkspaceMemberRole(b.ws, b.target, b.role)
     /\ Wrote(p, IF b.role = "admin" THEN "addAdmin" ELSE "role")
     /\ Return(p)
     /\ UNCHANGED <<workspaces, channels, channelMembers, begun, adds, invites, cut, events>>

-----------------------------------------------------------------------------
(* Channels.                                                               *)

\* assertWorkspaceMember, before every operation on channels.
assertWorkspaceMember(p) ==
  LET b == req[p].body
  IN /\ At(p, "member")
     /\ IF IsWorkspaceMember(b.ws, b.actor)
        THEN req' = [req EXCEPT ![p].pc = IF b.kind = "createChannel" THEN "can" ELSE "channel",
                                ![p].seen = members[b.ws][b.actor]]
        ELSE Return(p)
     /\ UNCHANGED <<tables, begun, observed>>

\* Only owners and administrators make a channel read-only; the role is read
\* once more for it.
CheckReadOnly(p) ==
  LET b == req[p].body
      role == GetWorkspaceMember(b.ws, b.actor)
  IN /\ At(p, "readOnly")
     /\ IF role \in {"owner", "admin"}
        THEN req' = [req EXCEPT ![p].pc = "insertChannel", ![p].seen = role] ELSE Return(p)
     /\ UNCHANGED <<tables, begun, observed>>

CreateChannel(p) ==
  LET b == req[p].body
  IN /\ At(p, "insertChannel")
     /\ Len(channels) < MaxChannels
     /\ IF ChannelNameTaken(b.ws, b.name) THEN Return(p) /\ UNCHANGED <<channels, writes>>
        ELSE /\ channels' = Append(channels, [ws |-> b.ws, name |-> b.name,
                                              owner |-> b.actor, readOnly |-> b.readOnly])
             /\ req' = [req EXCEPT ![p].pc = "addCreator", ![p].id = Len(channels) + 1]
             /\ Wrote(p, IF b.readOnly THEN "createReadOnly" ELSE "create")
     /\ UNCHANGED <<workspaces, members, channelMembers, begun, adds, invites, cut, events>>

\* When the creator has joined meanwhile this is an error, and the row is there.
AddCreator(p) ==
  /\ At(p, "addCreator")
  /\ AddChannelMember(req[p].id, req[p].body.actor)
  /\ Return(p)
  /\ UNCHANGED <<workspaces, members, channels, begun, observed>>

\* getChannelInWorkspace; its owner cannot leave.
GetChannel(p) ==
  LET b == req[p].body
  IN /\ At(p, "channel")
     /\ If(p, /\ GetChannelInWorkspace(b.channel, b.ws)
              /\ ~(b.kind = "leave" /\ channels[b.channel].owner = b.actor),
           IF b.kind = "join" THEN "isMember" ELSE "row")
     /\ UNCHANGED <<tables, begun, observed>>

CheckChannelMember(p) ==
  LET b == req[p].body
  IN \/ /\ At(p, "isMember")
        /\ If(p, ~IsChannelMember(b.channel, b.actor), "write")
        /\ UNCHANGED <<tables, begun, observed>>
     \/ /\ At(p, "row")
        /\ If(p, GetChannelMember(b.channel, b.actor), "write")
        /\ UNCHANGED <<tables, begun, observed>>

\* Of two joins of one user, the second gets the error of the unique row.
JoinChannel(p) ==
  LET b == req[p].body
  IN /\ At(p, "write") /\ b.kind = "join"
     /\ IF IsChannelMember(b.channel, b.actor)
        THEN Return(p) /\ UNCHANGED <<channelMembers, writes>>
        ELSE /\ AddChannelMember(b.channel, b.actor)
             /\ Wrote(p, "join")
             /\ Goto(p, "announce")
     /\ UNCHANGED <<workspaces, members, channels, begun, adds, invites, cut, events>>

LeaveChannel(p) ==
  LET b == req[p].body
  IN /\ At(p, "write") /\ b.kind = "leave"
     /\ RemoveChannelMember(b.channel, b.actor)
     /\ Goto(p, "announce")
     /\ UNCHANGED <<workspaces, members, channels, begun, observed>>

-----------------------------------------------------------------------------
(* Events.  Each waits in a goroutine of its own for a place in the hub's  *)
(* queue, or travels through Redis: they arrive in any order, or not.      *)

\* Mutant: the counter is set once, and not incremented.
SequencerNextStuck(c) == 1

\* Sequencer.Next
SequencerNext(c) == sequence[c] + 1

\* Hub.Publish
Publish(e) ==
  /\ sequence' = [sequence EXCEPT ![e.channel] = e.says.number]
  /\ sent' = sent \cup {e}
  /\ said' = [said EXCEPT ![e.channel][e.user] = e.says]
  /\ lost' = lost \ {<<e.channel, e.user>>}

\* BroadcastMemberJoined and BroadcastMemberLeft, by the handler.
Announce(p) ==
  LET b == req[p].body
      joined == b.kind = "join"
  IN /\ At(p, "announce")
     /\ Publish([channel |-> b.channel, user |-> b.actor,
                 says |-> [word |-> IF joined THEN "joined" ELSE "left",
                           number |-> SequencerNext(b.channel)]])
     /\ blurred' = IF joined = IsChannelMember(b.channel, b.actor)
                   THEN blurred \ {<<b.channel, b.actor>>}
                   ELSE blurred \cup {<<b.channel, b.actor>>}
     /\ Return(p)
     /\ UNCHANGED <<tables, begun, adds, invites, cut, writes, heard>>

\* The event reaches the clients of the channel.
Deliver(e) ==
  /\ sent' = sent \ {e}
  /\ heard' = [heard EXCEPT ![e.channel][e.user] =
                 IF e.says.number > @.number THEN e.says ELSE @]
  /\ UNCHANGED <<tables, req, begun, adds, invites, cut, writes, sequence, said, lost, blurred>>

\* The queue is full, or publishing to Redis fails, which is only logged.
Lose(e) ==
  /\ sent' = sent \ {e}
  /\ lost' = IF e.says = said[e.channel][e.user]
             THEN lost \cup {<<e.channel, e.user>>} ELSE lost
  /\ UNCHANGED <<tables, req, begun, adds, invites, cut, writes, sequence, heard, said, blurred>>

-----------------------------------------------------------------------------

\* A statement fails, or the process stops.  When the sequencer fails the event
\* has the number 0, and nobody can tell its place.
Fail(p) ==
  /\ Failures
  /\ ~At(p, "idle")
  /\ cut' = CASE At(p, "addOwner") -> cut \cup {<<"workspace", req[p].id>>}
              [] At(p, "addCreator") -> cut \cup {<<"channel", req[p].id>>}
              [] OTHER -> cut
  /\ blurred' = IF At(p, "announce")
                THEN blurred \cup {<<req[p].body.channel, req[p].body.actor>>} ELSE blurred
  /\ Return(p)
  /\ UNCHANGED <<tables, begun, adds, invites, writes, sequence, sent, heard, said, lost>>

RequestStep ==
  \E p \in Requests :
    \/ \E i \in Inputs : Arrive(p, i)
    \/ CheckSlug(p) \/ InsertWorkspace(p) \/ AddOwner(p)
    \/ Can(p) \/ CanAssignRole(p) \/ CheckPresent(p) \/ AddMember(p) \/ Invite(p)
    \/ GetTarget(p) \/ RemoveMember(p) \/ UpdateMemberRole(p)
    \/ assertWorkspaceMember(p) \/ CheckReadOnly(p) \/ CreateChannel(p) \/ AddCreator(p)
    \/ GetChannel(p) \/ CheckChannelMember(p) \/ JoinChannel(p) \/ LeaveChannel(p)
    \/ Announce(p)
    \/ Fail(p)

Next == RequestStep \/ \E e \in sent : Deliver(e) \/ Lose(e)

Spec == Init /\ [][Next]_vars

-----------------------------------------------------------------------------
(* Properties.                                                             *)

Creating(what, pc, id) ==
  \/ <<what, id>> \in cut
  \/ \E p \in Requests : At(p, pc) /\ req[p].id = id

\* docs/PERMISSIONS.md: "Owner cannot be removed or demoted via API".  Whatever
\* removals, additions and role changes overlap, a workspace's owner has the
\* role owner, and nobody else has it, unless the creation stopped half way:
\* then the workspace exists, its slug is taken, and nobody can enter it.
OwnerStays ==
  \A w \in 1..Len(workspaces) :
    /\ \A u \in Users : members[w][u] = "owner" => u = workspaces[w].owner
    /\ \/ members[w][workspaces[w].owner] = "owner"
       \/ Creating("workspace", "addOwner", w) /\ \A u \in Users : members[w][u] = "none"

\* The owner of a channel is in it, whoever joins and leaves meanwhile, unless
\* the creation stopped half way.
ChannelOwnerStays ==
  \A c \in 1..Len(channels) :
    channels[c].owner \in channelMembers[c] \/ Creating("channel", "addCreator", c)

\* Workspaces and channels keep their owners.
OwnersStay == OwnerStays /\ ChannelOwnerStays

\* The table of docs/PERMISSIONS.md holds at the moment of every write, unless
\* the role of the actor was changed after it was last read.
MatrixKept ==
  \A w \in writes :
    \/ w.changed
    \/ w.what = "addAdmin" /\ w.role = "owner"
    \/ w.what \in {"add", "remove", "role", "createReadOnly"} /\ w.role \in {"owner", "admin"}
    \/ w.what = "create" /\ w.role \in {"owner", "admin", "moderator"}
    \/ w.what = "join" /\ w.role # "none"

\* A request of the user has changed the row of the channel and is about to
\* say so.
Announcing(c, u) ==
  \E p \in Requests : At(p, "announce") /\ req[p].body.channel = c /\ req[p].body.actor = u

\* The last event published of a user and a channel has yet to arrive.
UnderWay(c, u) == [channel |-> c, user |-> u, says |-> said[c][u]] \in sent

\* A word of a user and a channel that the table agrees with.
Holds(word, c, u) ==
  /\ word = "joined" => u \in channelMembers[c]
  /\ word = "left" => u \notin channelMembers[c]

\* In whatever order events arrive, and whichever are lost: of those of a user
\* and a channel that arrived, the one with the highest sequence number says
\* what the table says, unless the last event published of the two is under way
\* or lost, or the user's own requests overtook each other between the table
\* and that event.  The next event puts right what was lost or overtaken.
LastWordTrue ==
  \A c \in 1..MaxChannels, u \in Users :
    \/ Announcing(c, u) \/ UnderWay(c, u)
    \/ <<c, u>> \in lost \/ <<c, u>> \in blurred
    \/ Holds(heard[c][u].word, c, u)

\* A user is invited at most once for every time that they were added, also
\* when several add them at once.
InvitedOncePerAdd == \A u \in Users : invites[u] <= adds[u]

\* What users are told of memberships is so: by events, read by their numbers,
\* and by invitations.
ToldTrue == LastWordTrue /\ InvitedOncePerAdd
=============================================================================
