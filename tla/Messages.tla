------------------------------ MODULE Messages ------------------------------
(***************************************************************************)
(* Messages of one workspace and what follows from them: sending           *)
(* (internal/chat), mentions, replies and reading of notifications         *)
(* (internal/notifications), files (internal/attachments).  Every          *)
(* statement is an action; membership changes under the requests as        *)
(* module Members says, and the quota of module Quota may refuse.          *)
(***************************************************************************)
EXTENDS Naturals, FiniteSets, Sequences, Functions

CONSTANTS
  Users, Roles0,      \* the users and their roles at the start
  Names, NameOf(_),   \* spellings of user names; the user that LOWER finds, or NoUser
  Channels, ReadOnly, ChannelRole,   \* ChannelRole: the table channel_roles
  FirstMessages,      \* channel and sender of the messages at the start
  Keys, Object,       \* object keys; owner and size of what was put under them
  MaxBytes,
  Requests, Inputs,
  MaxBegun, MaxMessages, MaxChanges,   \* bounds
  Failures,           \* may a request stop between two statements?
  NoUser

Roles == {"owner", "admin", "moderator", "member", "none"}
Kinds == {"send", "attach", "read", "readAll"}
File == [key : Keys, size : Nat]
Input == [kind : Kinds, user : Users, channel : Channels, empty : BOOLEAN,
          names : Seq(Names), reply : Nat, files : Seq(File), id : Nat]

ASSUME MessagesAssumption ==
  /\ IsFiniteSet(Users) /\ Users # {} /\ NoUser \notin Users
  /\ Roles0 \in [Users -> Roles]
  /\ \A n \in Names : NameOf(n) \in Users \cup {NoUser}
  /\ IsFiniteSet(Channels) /\ Channels # {} /\ ReadOnly \subseteq Channels
  /\ ChannelRole \in [Channels -> [Users -> {"moderator", "member", "none"}]]
  /\ FirstMessages \in Seq([channel : Channels, sender : Users])
  /\ Object \in [Keys -> [owner : Users, size : Nat]]   \* size 0: nothing was put
  /\ MaxBytes \in Nat /\ MaxBegun \in Nat /\ MaxChanges \in Nat
  /\ MaxMessages \in Nat /\ Len(FirstMessages) <= MaxMessages
  /\ Failures \in BOOLEAN
  /\ Inputs \subseteq Input

VARIABLES
  members,        \* workspace_members
  inChannel,      \* channel_members
  changes,        \* observed: membership changes of each user
  messages,       \* the table messages
  notifications,  \* the table notifications
  attachments,    \* the table attachments
  events,         \* message.new and message.updated, as published
  req,            \* the requests in flight
  begun,
  refused,        \* observed: messages of which a file was refused
  cut             \* observed: messages whose sending stopped after the row

observed == <<refused, cut>>
access == <<members, inChannel, changes>>
vars == <<access, messages, notifications, attachments, events, req, begun, observed>>

\* Observed of a message: its mentions and reply, whether a change of the
\* sender's membership overlapped, and the sender's standing when it was stored.
Message == [channel : Channels, sender : Users, empty : BOOLEAN, names : Seq(Names),
            reply : Nat, overlap : BOOLEAN, role : Roles, member : BOOLEAN]
Notification == [user : Users, type : {"mention", "reply"}, message : Nat, read : BOOLEAN,
                 readBy : Users \cup {NoUser}]
Attachment == [message : Nat, uploader : Users, key : Keys]
Event == [type : {"message.new", "message.updated"}, message : Nat, files : SUBSET Keys]

Points == {"idle", "ws", "member", "role", "quota", "insert", "publish", "reply", "mention",
           "message", "head", "attach", "updated"}
Request == [pc : Points, body : Input, id : Nat, todo : Seq(Names), files : Seq(File),
            done : SUBSET Keys, epoch : Nat]

TypeOK ==
  /\ members \in [Users -> Roles]
  /\ inChannel \in [Channels -> SUBSET Users]
  /\ changes \in [Users -> Nat]
  /\ messages \in Seq(Message) /\ Len(messages) <= MaxMessages
  /\ notifications \in Seq(Notification)
  /\ attachments \in Seq(Attachment)
  /\ events \in Seq(Event)
  /\ \A a \in 1..Len(attachments) : Object[attachments[a].key].size \in 1..MaxBytes
  /\ req \in [Requests -> Request]
  /\ begun \in 0..MaxBegun
  /\ refused \subseteq 1..MaxMessages /\ cut \subseteq 1..MaxMessages

Nobody == CHOOSE u \in Users : TRUE
NoBody == [kind |-> "send", user |-> Nobody, channel |-> CHOOSE c \in Channels : TRUE,
           empty |-> FALSE, names |-> <<>>, reply |-> 0, files |-> <<>>, id |-> 0]
Idle == [pc |-> "idle", body |-> NoBody, id |-> 0, todo |-> <<>>, files |-> <<>>, done |-> {},
         epoch |-> 0]

Init ==
  /\ members = Roles0
  /\ inChannel = [c \in Channels |-> {u \in Users : Roles0[u] # "none"}]
  /\ changes = [u \in Users |-> 0]
  /\ messages = [i \in 1..Len(FirstMessages) |->
       [channel |-> FirstMessages[i].channel, sender |-> FirstMessages[i].sender,
        empty |-> FALSE, names |-> <<>>, reply |-> 0, overlap |-> FALSE, role |-> "owner",
        member |-> TRUE]]
  /\ notifications = <<>> /\ attachments = <<>>
  /\ events = <<>>
  /\ req = [p \in Requests |-> Idle]
  /\ begun = 0
  /\ refused = {} /\ cut = {}

At(p, pc) == req[p].pc = pc
Goto(p, pc) == req' = [req EXCEPT ![p].pc = pc]
Return(p) == req' = [req EXCEPT ![p] = Idle]
If(p, condition, pc) == IF condition THEN Goto(p, pc) ELSE Return(p)

rows == <<messages, notifications, attachments, events>>

-----------------------------------------------------------------------------
(* Queries and checks.                                                     *)

IsWorkspaceMember(u) == members[u] # "none"
IsChannelMember(c, u) == u \in inChannel[c]
GetMessageByID(m) == m \in 1..Len(messages)
GetMessageInChannel(m, c) == m \in 1..Len(messages) /\ messages[m].channel = c
GetWorkspaceMemberByUsername(n) ==
  IF NameOf(n) # NoUser /\ members[NameOf(n)] # "none" THEN NameOf(n) ELSE NoUser
KeyTaken(k) == \E a \in 1..Len(attachments) : attachments[a].key = k

CreateMessage(m) == messages' = Append(messages, m)
CreateNotification(u, type, m) ==
  notifications' = Append(notifications,
    [user |-> u, type |-> type, message |-> m, read |-> FALSE, readBy |-> NoUser])
CreateAttachment(m, u, k) ==
  attachments' = Append(attachments, [message |-> m, uploader |-> u, key |-> k])

MarkNotificationRead(n, u) ==
  notifications' = [notifications EXCEPT ![n] =
    IF @.user # u \/ @.read THEN @ ELSE [@ EXCEPT !.read = TRUE, !.readBy = u]]

MarkAllNotificationsRead(u) ==
  notifications' = [n \in 1..Len(notifications) |->
    IF notifications[n].user # u \/ notifications[n].read THEN notifications[n]
    ELSE [notifications[n] EXCEPT !.read = TRUE, !.readBy = u]]

\* Mutant: any row in channel_roles lets its user post.
AllowedByAnyRole(role, c, u) ==
  c \in ReadOnly => role \in {"owner", "admin", "moderator"} \/ ChannelRole[c][u] # "none"

\* authz.Allowed for message.send.
Allowed(role, c, u) ==
  c \in ReadOnly => role \in {"owner", "admin", "moderator"} \/ ChannelRole[c][u] = "moderator"

\* Content may be blank only beside files.
normalizeContent(i) == i.empty => i.files # <<>>

\* Mutant: every mention counts.
ParseAllMentions(names) == names

\* Each spelling once, in the order of the text.
ParseMentions(names) ==
  LET first == {k \in 1..Len(names) : \A j \in 1..(k - 1) : names[j] # names[k]}
      Rank(k) == Cardinality({j \in first : j <= k})
  IN [i \in 1..Cardinality(first) |-> names[CHOOSE k \in first : Rank(k) = i]]

\* Mutant: no upper bound.
validateNonEmpty(f) == f.size > 0

validateUpload(f) == f.size > 0 /\ f.size <= MaxBytes

\* The key lies under uploads/<user>/.
OfUser(k, u) == Object[k].owner = u

HeadObject(k) == Object[k].size

-----------------------------------------------------------------------------
(* Sending.                                                                *)

\* A message is sent, or files are attached to one that exists; blank content
\* and an empty list of files are refused at once.
Arrive(p, i) ==
  /\ At(p, "idle")
  /\ begun < MaxBegun /\ begun' = begun + 1
  /\ CASE i.kind = "send" -> normalizeContent(i)
       [] i.kind = "attach" -> i.files # <<>>
       [] OTHER -> FALSE
  /\ req' = [req EXCEPT ![p] =
       [Idle EXCEPT !.pc = "ws", !.body = i, !.files = i.files, !.epoch = changes[i.user]]]
  /\ UNCHANGED <<access, rows, observed>>

\* assertChannelAccess; the channel is there.
assertChannelAccess(p) ==
  LET b == req[p].body
  IN \/ /\ At(p, "ws")
        /\ If(p, IsWorkspaceMember(b.user), "member")
        /\ UNCHANGED <<access, rows, begun, observed>>
     \/ /\ At(p, "member")
        /\ If(p, IsChannelMember(b.channel, b.user),
              IF b.kind = "send" THEN "role" ELSE "message")
        /\ UNCHANGED <<access, rows, begun, observed>>

\* Can: the role is read once more, with channel_roles for a read-only channel.
CanSend(p) ==
  LET b == req[p].body
  IN /\ At(p, "role")
     /\ If(p, members[b.user] # "none" /\ Allowed(members[b.user], b.channel, b.user), "quota")
     /\ UNCHANGED <<access, rows, begun, observed>>

CheckQuota(p) ==
  /\ At(p, "quota")
  /\ Goto(p, "insert") \/ Return(p)
  /\ UNCHANGED <<access, rows, begun, observed>>

saveMessage(p) ==
  LET b == req[p].body
  IN /\ At(p, "insert")
     /\ Len(messages) < MaxMessages
     /\ CreateMessage([channel |-> b.channel, sender |-> b.user, empty |-> b.empty,
                       names |-> b.names, reply |-> b.reply,
                       overlap |-> changes[b.user] # req[p].epoch, role |-> members[b.user],
                       member |-> b.user \in inChannel[b.channel]])
     /\ req' = [req EXCEPT ![p].pc = "publish", ![p].id = Len(messages) + 1]
     /\ UNCHANGED <<access, notifications, attachments, events, begun, observed>>

AfterNotify(p) == IF req[p].files = <<>> THEN Return(p) ELSE Goto(p, "head")

\* The usage is recorded and message.new published; then the notifier runs.
PublishMessageNew(p) ==
  LET b == req[p].body
  IN /\ At(p, "publish")
     /\ events' = Append(events, [type |-> "message.new", message |-> req[p].id, files |-> {}])
     /\ req' = [req EXCEPT ![p].pc = IF b.reply = 0 THEN "mention" ELSE "reply",
                           ![p].todo = ParseMentions(b.names)]
     /\ UNCHANGED <<access, messages, notifications, attachments, begun, observed>>

\* The reply must be to a message of the same channel and of somebody else.
notifyReply(p) ==
  LET b == req[p].body
      parent == messages[b.reply]
  IN /\ At(p, "reply")
     /\ IF GetMessageByID(b.reply) /\ parent.channel = b.channel /\ parent.sender # b.user
        THEN CreateNotification(parent.sender, "reply", req[p].id)
        ELSE UNCHANGED notifications
     /\ Goto(p, "mention")
     /\ UNCHANGED <<access, messages, attachments, events, begun, observed>>

\* One name: who has it in the workspace, and the row.
notifyMentions(p) ==
  /\ At(p, "mention")
  /\ IF req[p].todo = <<>> THEN AfterNotify(p) /\ UNCHANGED notifications
     ELSE LET u == GetWorkspaceMemberByUsername(Head(req[p].todo))
          IN /\ IF u \in {NoUser, req[p].body.user} THEN UNCHANGED notifications
                ELSE CreateNotification(u, "mention", req[p].id)
             /\ req' = [req EXCEPT ![p].todo = Tail(@)]
  /\ UNCHANGED <<access, messages, attachments, events, begun, observed>>

\* The notifier's errors are dropped: that of a reply goes to the log, that of
\* a mention ends the mentions, and the files come next.
NotifyFails(p) ==
  /\ Failures
  /\ \/ At(p, "reply") /\ Goto(p, "mention")
     \/ At(p, "mention") /\ AfterNotify(p)
  /\ UNCHANGED <<access, rows, begun, observed>>

-----------------------------------------------------------------------------
(* Files.                                                                  *)

\* AttachToMessage: the message is in the channel and one's own.
CheckMessage(p) ==
  LET b == req[p].body
  IN /\ At(p, "message")
     /\ IF GetMessageInChannel(b.id, b.channel) /\ messages[b.id].sender = b.user
        THEN req' = [req EXCEPT ![p].pc = "head", ![p].id = b.id]
        ELSE Return(p)
     /\ UNCHANGED <<access, rows, begun, observed>>

Refuse(p) == Return(p) /\ refused' = refused \cup {req[p].id}

\* createAttachment up to the row: the file's description, its key, and the
\* object that was put.
CheckFile(p) ==
  LET f == Head(req[p].files)
  IN /\ At(p, "head")
     /\ IF validateUpload(f) /\ OfUser(f.key, req[p].body.user) /\ HeadObject(f.key) = f.size
        THEN Goto(p, "attach") /\ UNCHANGED refused
        ELSE Refuse(p)
     /\ UNCHANGED <<access, rows, begun, cut>>

\* The key is unique: the second of two rows is an error, and the files of the
\* request before it stay without message.updated.
createAttachment(p) ==
  LET k == Head(req[p].files).key
  IN /\ At(p, "attach")
     /\ IF KeyTaken(k) THEN Refuse(p) /\ UNCHANGED attachments
        ELSE /\ CreateAttachment(req[p].id, req[p].body.user, k)
             /\ req' = [req EXCEPT ![p].pc = IF Len(req[p].files) = 1 THEN "updated" ELSE "head",
                                   ![p].files = Tail(@), ![p].done = @ \cup {k}]
             /\ UNCHANGED refused
     /\ UNCHANGED <<access, messages, notifications, events, begun, cut>>

\* Mutant: message.updated lists the files that were asked for.
PublishMessageAsked(p) ==
  /\ At(p, "updated") \/ (At(p, "head") /\ req[p].done # {})
  /\ events' = Append(events, [type |-> "message.updated", message |-> req[p].id,
       files |-> {req[p].body.files[i].key : i \in DOMAIN req[p].body.files}])
  /\ Return(p)
  /\ UNCHANGED <<access, messages, notifications, attachments, begun, observed>>

PublishMessageUpdated(p) ==
  /\ At(p, "updated")
  /\ events' = Append(events, [type |-> "message.updated", message |-> req[p].id,
                               files |-> req[p].done])
  /\ Return(p)
  /\ UNCHANGED <<access, messages, notifications, attachments, begun, observed>>

-----------------------------------------------------------------------------
(* Reading notifications, and membership.                                  *)

\* MarkRead and MarkAllRead are one statement each.
MarkRead(i) ==
  /\ begun < MaxBegun /\ begun' = begun + 1
  /\ \/ i.kind = "read" /\ i.id \in 1..Len(notifications) /\ MarkNotificationRead(i.id, i.user)
     \/ i.kind = "readAll" /\ MarkAllNotificationsRead(i.user)
  /\ UNCHANGED <<access, messages, attachments, events, req, observed>>

SumOf(f) == FoldFunction(LAMBDA x, y : x + y, 0, f)

Change(u) ==
  /\ SumOf(changes) < MaxChanges
  /\ changes' = [changes EXCEPT ![u] = @ + 1]
  /\ UNCHANGED <<rows, req, begun, observed>>

\* RemoveMember and UpdateMemberRole of module Members.
SetRole(u, role) ==
  /\ members[u] \notin {"owner", "none", role}
  /\ members' = [members EXCEPT ![u] = role]
  /\ Change(u)
  /\ UNCHANGED inChannel

LeaveChannel(u, c) ==
  /\ u \in inChannel[c] /\ members[u] # "none"
  /\ inChannel' = [inChannel EXCEPT ![c] = @ \ {u}]
  /\ Change(u)
  /\ UNCHANGED members

\* A statement fails, or the process stops.
Fail(p) ==
  /\ Failures
  /\ ~At(p, "idle")
  /\ cut' = IF req[p].id = 0 THEN cut ELSE cut \cup {req[p].id}
  /\ Return(p)
  /\ UNCHANGED <<access, rows, begun, refused>>

Next ==
  \/ \E p \in Requests :
       \/ \E i \in Inputs : Arrive(p, i)
       \/ assertChannelAccess(p) \/ CanSend(p) \/ CheckQuota(p) \/ saveMessage(p)
       \/ PublishMessageNew(p) \/ notifyReply(p) \/ notifyMentions(p) \/ NotifyFails(p)
       \/ CheckMessage(p) \/ CheckFile(p) \/ createAttachment(p) \/ PublishMessageUpdated(p)
       \/ Fail(p)
  \/ \E i \in Inputs : MarkRead(i)
  \/ \E u \in Users : \/ \E role \in {"none", "member"} : SetRole(u, role)
                      \/ \E c \in Channels : LeaveChannel(u, c)

Spec == Init /\ [][Next]_vars

-----------------------------------------------------------------------------
(* Properties.                                                             *)

InFlight(m) == \E p \in Requests : ~At(p, "idle") /\ req[p].id = m

\* A message that no change of its sender's membership overlapped was stored
\* for a member of the channel and, in a read-only channel, for one who may
\* post there by docs/PERMISSIONS.md.
PostingAllowed ==
  \A m \in 1..Len(messages) :
    LET x == messages[m]
    IN x.overlap \/ /\ x.member /\ x.role # "none"
                    /\ x.channel \in ReadOnly =>
                         \/ x.role \in {"owner", "admin", "moderator"}
                         \/ ChannelRole[x.channel][x.sender] = "moderator"

\* Nobody is notified of a message without a reason in it: a spelling of their
\* name, or a reply to a message of theirs in the same channel; never its sender.
NotifiedForReason ==
  \A n \in 1..Len(notifications) :
    LET x == notifications[n]
        m == messages[x.message]
    IN /\ x.user # m.sender
       /\ x.type = "mention" => \E k \in 1..Len(m.names) : NameOf(m.names[k]) = x.user
       /\ x.type = "reply" => /\ messages[m.reply].sender = x.user
                              /\ messages[m.reply].channel = m.channel

\* A message notifies a user of a mention at most once per spelling of their
\* name, however often it is repeated.  (Spellings that differ in case only do
\* notify twice: ParseMentions compares as written, the query with LOWER.)
MentionedOncePerSpelling ==
  \A m \in 1..Len(messages), u \in Users :
    Cardinality({n \in 1..Len(notifications) :
      /\ notifications[n].user = u /\ notifications[n].message = m
      /\ notifications[n].type = "mention"})
    <= Cardinality({messages[m].names[k] : k \in
         {j \in 1..Len(messages[m].names) : NameOf(messages[m].names[j]) = u}})

\* Only its user marks a notification as read, and it stays so.
ReadByUser ==
  \A n \in 1..Len(notifications) :
    notifications[n].read => notifications[n].readBy = notifications[n].user

\* Notifications have a reason, a mention is told once per spelling, and reading
\* is up to the one who was notified.
NotificationsRight == NotifiedForReason /\ MentionedOncePerSpelling /\ ReadByUser

\* A file belongs to one message, and both to the one who put it, also when two
\* requests attach the same file.
FileOfSender ==
  \A a \in 1..Len(attachments) :
    LET x == attachments[a]
    IN /\ Object[x.key].owner = x.uploader /\ messages[x.message].sender = x.uploader
       /\ \A b \in 1..Len(attachments) : attachments[b].key = x.key => a = b

\* message.updated lists files that are stored with the message; and a stored
\* file that no event lists is one whose request is still running, was cut, or
\* had a later file refused.
UpdatedAsStored ==
  /\ \A e \in 1..Len(events) : \A k \in events[e].files :
       \E a \in 1..Len(attachments) :
         attachments[a].key = k /\ attachments[a].message = events[e].message
  /\ \A a \in 1..Len(attachments) :
       LET m == attachments[a].message
       IN \/ InFlight(m) \/ m \in refused \cup cut
          \/ \E e \in 1..Len(events) : events[e].message = m /\ attachments[a].key \in events[e].files

\* docs/WEBSOCKET_EVENTS.md: a message is "Persisted and broadcast as
\* `message.new`": once, unless its request has not come so far or was cut.
BroadcastOnce ==
  \A m \in (Len(FirstMessages) + 1)..Len(messages) :
    LET new == {e \in 1..Len(events) :
                  events[e].message = m /\ events[e].type = "message.new"}
    IN \/ Cardinality(new) = 1
       \/ new = {} /\ (m \in cut \/ \E p \in Requests : At(p, "publish") /\ req[p].id = m)

\* A message without text shows a file, unless its request is still running,
\* was cut, or the file was refused after the message was stored: SendMessage
\* drops the error of the attacher and reports success.
EmptyHasFile ==
  \A m \in 1..Len(messages) :
    messages[m].empty =>
      \/ InFlight(m) \/ m \in refused \cup cut
      \/ \E a \in 1..Len(attachments) : attachments[a].message = m

\* Files and events tell what is stored, once, whatever was refused or cut.
StoredAsTold == FileOfSender /\ UpdatedAsStored /\ BroadcastOnce /\ EmptyHasFile
=============================================================================
