---------------------------- MODULE DeveloperApi ----------------------------
(***************************************************************************)
(* The developer API, internal/developerapi, of one app: provisioning of   *)
(* users, channels, messages and sessions in the app's two lanes, behind   *)
(* the API keys of internal/apps and the idempotency middleware; the       *)
(* caps and the cleaner of the sandbox lane, and the webhook events of the *)
(* live lane.                                                              *)
(*                                                                         *)
(* Every statement of a request is an action.  Rows that are inserted get  *)
(* the next number, as from a BIGSERIAL.  The plan's message quota is the  *)
(* subject of Quota; here it refuses at will.                              *)
(***************************************************************************)
EXTENDS Naturals, FiniteSets, Sequences

CONSTANTS
  Requests,
  Keys, Lane,        \* API keys and the lane of each
  FirstKeys,         \* the keys that exist at the start
  IdemKeys, NoIdem,  \* values of the Idempotency-Key header
  Externals,         \* external ids
  Names,             \* e-mail addresses and user names
  Default,           \* what ProvisionUser derives from an external id
  Inputs,            \* the requests that are sent
  MaxUsers, MaxChannels, MaxMessages,   \* sandbox caps, 0 is "no cap"
  MaxBegun,          \* bound: requests that begin
  MaxTicks,          \* bound: changes of keys and the passing of TTLs
  Failures           \* may a request stop between two statements?

Lanes == {"live", "sandbox"}
Kinds == {"provision", "channel", "message", "session"}

\* The Idempotency-Key header and the body: an external id, an e-mail address and
\* a user name for provision, a channel name for channel, a channel for message
\* and session.
Input == [kind : Kinds, ext : Externals, email : Names, username : Names,
          name : Names, channel : Nat, idem : IdemKeys \cup {NoIdem}]

ASSUME DeveloperApiAssumption ==
  /\ IsFiniteSet(Requests) /\ Requests # {} /\ IsFiniteSet(Keys) /\ FirstKeys \subseteq Keys
  /\ Lane \in [Keys -> Lanes]
  /\ NoIdem \notin IdemKeys
  /\ Externals # {} /\ Names # {}
  /\ Default \in [Externals -> Names]
  /\ Inputs \subseteq Input
  /\ MaxUsers \in Nat /\ MaxChannels \in Nat /\ MaxMessages \in Nat
  /\ MaxBegun \in Nat /\ MaxTicks \in Nat /\ Failures \in BOOLEAN

VARIABLES
  keys,       \* api_keys
  accounts,   \* users, in the order of their ids
  members,    \* workspace_members of the app's two workspaces
  links,      \* app_users
  channels,   \* channels of the two workspaces
  messages,   \* messages
  serial,     \* the last channel and message number given
  idem,       \* idempotency_keys
  sweep,      \* the cleaner is between its two statements
  req,        \* the requests in flight
  begun, ticks,
  told,       \* observed: the users that provisioning answered with
  sent,       \* observed: the events handed to the webhook dispatcher
  ran,        \* observed: how often each idempotency key had its effect
  lost        \* observed: idempotency keys whose answer was not saved or read

tables == <<accounts, members, links, channels, messages, serial>>
observed == <<told, sent, ran, lost>>
vars == <<keys, tables, idem, sweep, req, begun, ticks, observed>>

Owner == 1                          \* the account that owns the app
Link == [ext : Externals, user : Nat \ {0}, lane : Lanes]
Channel == [id : Nat \ {0}, name : Names, lane : Lanes, members : SUBSET Nat,
            old : BOOLEAN]
Message == [id : Nat \ {0}, channel : Nat \ {0}, sender : Nat \ {0}, old : BOOLEAN]

Points == {"idle", "idem", "save",
           "lookup", "userCap", "email", "createUser", "email2", "username",
           "member", "link", "relink",
           "chLookup", "chCap", "chCreate", "chAgain", "chMember",
           "resolve", "chGet", "isMember", "addMember", "quota", "msgCap", "msgCreate"}

Request == [pc : Points, lane : Lanes, body : Input,
            user : Nat, created : BOOLEAN, channel : Nat]

Answer == [kind : Kinds, lane : Lanes]
NoAnswer == [kind |-> "none", lane |-> "live"]

NoBody == [kind |-> "provision", ext |-> CHOOSE x \in Externals : TRUE,
           email |-> CHOOSE n \in Names : TRUE, username |-> CHOOSE n \in Names : TRUE,
           name |-> CHOOSE n \in Names : TRUE, channel |-> 0, idem |-> NoIdem]
Idle == [pc |-> "idle", lane |-> "live", body |-> NoBody,
         user |-> 0, created |-> FALSE, channel |-> 0]

TypeOK ==
  /\ keys \in [Keys -> {"none", "active", "revoked", "expired"}]
  /\ accounts \in Seq([email : Names, username : Names])
  /\ members \in [Lanes -> SUBSET (1..Len(accounts))]
  /\ links \subseteq Link
  /\ channels \subseteq Channel
  /\ messages \subseteq Message
  /\ serial \in [{"channel", "message"} -> Nat]
  /\ idem \in [IdemKeys -> Answer \cup {NoAnswer}]
  /\ sweep \in BOOLEAN
  /\ req \in [Requests -> Request]
  /\ begun \in 0..MaxBegun /\ ticks \in 0..MaxTicks
  /\ told \subseteq Link
  /\ sent \subseteq (Kinds \X Nat)
  /\ ran \in [IdemKeys -> Nat]
  /\ lost \subseteq IdemKeys

\* A new app: its owner is a member of both workspaces, and an external id of
\* the owner was provisioned in both; each lane has a channel.
Init ==
  /\ keys = [k \in Keys |-> IF k \in FirstKeys THEN "active" ELSE "none"]
  /\ LET x == CHOOSE x \in Externals : TRUE
     IN /\ accounts = <<[email |-> Default[x], username |-> Default[x]]>>
        /\ links = {[ext |-> x, user |-> Owner, lane |-> l] : l \in Lanes}
  /\ members = [l \in Lanes |-> {Owner}]
  /\ channels = {[id |-> IF l = "live" THEN 1 ELSE 2, name |-> CHOOSE n \in Names : TRUE,
                  lane |-> l, members |-> {}, old |-> FALSE] : l \in Lanes}
  /\ messages = {}
  /\ serial = [s \in {"channel", "message"} |-> IF s = "channel" THEN 2 ELSE 0]
  /\ idem = [k \in IdemKeys |-> NoAnswer]
  /\ sweep = FALSE
  /\ req = [p \in Requests |-> Idle]
  /\ begun = 0 /\ ticks = 0
  /\ told = {} /\ sent = {} /\ ran = [k \in IdemKeys |-> 0]
  /\ lost = {}

At(p, pc) == req[p].pc = pc
Goto(p, pc) == req' = [req EXCEPT ![p].pc = pc]
Clock == ticks < MaxTicks /\ ticks' = ticks + 1
Return(p) == req' = [req EXCEPT ![p] = Idle]

\* A 2xx answer is captured and saved when the request named a key.
Reply(p) ==
  IF req[p].body.idem = NoIdem THEN Return(p) ELSE Goto(p, "save")

\* The request had its effect.
Ran(p) ==
  ran' = IF req[p].body.idem = NoIdem THEN ran ELSE [ran EXCEPT ![req[p].body.idem] = @ + 1]

\* dispatch: nothing is sent from the sandbox.
dispatch(p, event) ==
  sent' = IF req[p].lane = "sandbox" THEN sent ELSE sent \cup {event}

-----------------------------------------------------------------------------
(* Queries.                                                                *)

GetAPIKeyByPrefix(k) == keys[k] \in {"active", "expired"}
GetAppUserByExternalID(x, lane) == {l \in links : l.ext = x /\ l.lane = lane}
GetAppUserByUserID(u, lane) == {l \in links : l.user = u /\ l.lane = lane}
GetUserByEmail(e) == {u \in 1..Len(accounts) : accounts[u].email = e}
GetUserByUsername(n) == {u \in 1..Len(accounts) : accounts[u].username = n}
GetChannelByNameInWorkspace(n, lane) == {c \in channels : c.name = n /\ c.lane = lane}
GetChannelInWorkspace(id, lane) == {c \in channels : c.id = id /\ c.lane = lane}
IsChannelMember(id, u) == \E c \in channels : c.id = id /\ u \in c.members
GetIdempotencyKey(k) == idem[k]

CountSandboxAppUsers == Cardinality({l \in links : l.lane = "sandbox"})

CountSandboxWorkspaceChannels == Cardinality({c \in channels : c.lane = "sandbox"})

MessagesOf(lane) == {m \in messages : \E c \in channels : c.id = m.channel /\ c.lane = lane}
CountWorkspaceMessages(lane) == Cardinality(MessagesOf(lane))

\* Unique are the external id and the user, each in its lane.
LinkTaken(l) ==
  GetAppUserByExternalID(l.ext, l.lane) \cup GetAppUserByUserID(l.user, l.lane) # {}

InsertUser(email, username) ==
  accounts' = Append(accounts, [email |-> email, username |-> username])
InsertChannel(name, lane) ==
  /\ serial' = [serial EXCEPT !["channel"] = @ + 1]
  /\ channels' = channels \cup {[id |-> serial["channel"] + 1, name |-> name, lane |-> lane,
                                 members |-> {}, old |-> FALSE]}
InsertMessage(channel, sender) ==
  /\ serial' = [serial EXCEPT !["message"] = @ + 1]
  /\ messages' = messages \cup {[id |-> serial["message"] + 1, channel |-> channel,
                                 sender |-> sender, old |-> FALSE]}
InsertAPIKey(k) == keys' = [keys EXCEPT ![k] = "active"]
SetRevoked(k) == keys' = [keys EXCEPT ![k] = "revoked"]

\* Inserting twice is a unique violation, and into a channel that was deleted
\* a foreign key violation.
CanAddChannelMember(id, u) == \E c \in channels : c.id = id /\ u \notin c.members
AddChannelMember(id, u) ==
  channels' = {IF c.id = id THEN [c EXCEPT !.members = @ \cup {u}] ELSE c : c \in channels}

-----------------------------------------------------------------------------
(* API keys.                                                               *)

CreateAPIKey(k) ==
  /\ keys[k] = "none"
  /\ Clock
  /\ InsertAPIKey(k)
  /\ UNCHANGED <<tables, idem, sweep, req, begun, observed>>

RevokeAPIKey(k) ==
  /\ keys[k] \in {"active", "expired"}
  /\ Clock
  /\ SetRevoked(k)
  /\ UNCHANGED <<tables, idem, sweep, req, begun, observed>>

\* AuthenticateAPIKey; the key decides the lane once, for the whole request.
\* Expiry is looked at for sandbox keys only, and only they expire.
APIKeyMiddleware(p, k, body) ==
  /\ At(p, "idle")
  /\ begun < MaxBegun
  /\ GetAPIKeyByPrefix(k)
  /\ ~(Lane[k] = "sandbox" /\ keys[k] = "expired")
  /\ begun' = begun + 1
  /\ req' = [req EXCEPT ![p] = [Idle EXCEPT !.pc = "idem", !.lane = Lane[k],
                                            !.body = body]]
  /\ UNCHANGED <<keys, tables, idem, sweep, ticks, observed>>

-----------------------------------------------------------------------------
(* IdempotencyMiddleware.                                                  *)

FirstPoint(kind, lane) ==
  CASE kind = "provision" -> "lookup"
    [] kind = "channel" -> IF lane = "sandbox" THEN "chLookup" ELSE "chCreate"
    [] kind \in {"message", "session"} -> "resolve"

\* A row of the app with that key is the answer, whatever the endpoint and the
\* lane; an error of the lookup lets the request run.
IdempotencyLookup(p) ==
  LET r == req[p]
      found == r.body.idem # NoIdem /\ GetIdempotencyKey(r.body.idem) # NoAnswer
  IN /\ At(p, "idem")
     /\ \/ /\ found
           /\ Return(p)
           /\ UNCHANGED lost
        \/ /\ found => Failures
           /\ lost' = IF found THEN lost \cup {r.body.idem} ELSE lost
           /\ Goto(p, FirstPoint(r.body.kind, r.lane))
     /\ UNCHANGED <<keys, tables, idem, sweep, begun, ticks, told, sent, ran>>

\* Mutant: only 200 is taken for a success, and creating answers with 201.
SaveIdempotencyOfSession(p) ==
  LET r == req[p]
  IN /\ At(p, "save")
     /\ idem' = IF r.body.kind = "session" /\ idem[r.body.idem] = NoAnswer
                THEN [idem EXCEPT ![r.body.idem] = [kind |-> r.body.kind, lane |-> r.lane]]
                ELSE idem
     /\ Return(p)
     /\ UNCHANGED <<keys, tables, sweep, begun, ticks, observed>>

\* The second of two that ran together is not saved.
SaveIdempotency(p) ==
  LET r == req[p]
  IN /\ At(p, "save")
     /\ idem' = IF idem[r.body.idem] = NoAnswer
                THEN [idem EXCEPT ![r.body.idem] = [kind |-> r.body.kind, lane |-> r.lane]]
                ELSE idem
     /\ Return(p)
     /\ UNCHANGED <<keys, tables, sweep, begun, ticks, observed>>

-----------------------------------------------------------------------------
(* ProvisionUser.                                                          *)

local == <<keys, idem, sweep, begun, ticks, lost>>

Provisioned(p, l) ==
  /\ told' = told \cup {l}
  /\ Ran(p)

ProvisionLookup(p) ==
  LET found == GetAppUserByExternalID(req[p].body.ext, req[p].lane)
  IN /\ At(p, "lookup")
     /\ IF found = {}
        THEN /\ Goto(p, IF req[p].lane = "sandbox" /\ MaxUsers > 0 THEN "userCap" ELSE "email")
             /\ UNCHANGED <<told, ran>>
        ELSE (\E l \in found : Provisioned(p, l)) /\ Reply(p)
     /\ UNCHANGED <<local, tables, sent>>

checkSandboxUsers(p) ==
  /\ At(p, "userCap")
  /\ IF CountSandboxAppUsers >= MaxUsers THEN Return(p) ELSE Goto(p, "email")
  /\ UNCHANGED <<local, tables, told, sent, ran>>

\* resolveOrCreateProvisionedUser: by e-mail address, or a new account; when
\* that violates a constraint, by e-mail address again and then by user name.
FindUser(p, pc, found, next) ==
  /\ At(p, pc)
  /\ IF found = {} THEN Goto(p, next)
     ELSE \E u \in found : req' = [req EXCEPT ![p].user = u, ![p].pc = "member"]
  /\ UNCHANGED <<local, tables, told, sent, ran>>

\* Mutant: a violated constraint is taken for success, without a row.
CreateUserUnchecked(p) ==
  LET b == req[p].body
  IN /\ At(p, "createUser")
     /\ IF GetUserByEmail(b.email) # {} \/ GetUserByUsername(b.username) # {}
        THEN Goto(p, "member") /\ UNCHANGED accounts
        ELSE /\ InsertUser(b.email, b.username)
             /\ req' = [req EXCEPT ![p].user = Len(accounts) + 1, ![p].created = TRUE,
                                   ![p].pc = "member"]
     /\ UNCHANGED <<local, members, links, channels, messages, serial, told, sent, ran>>

CreateUser(p) ==
  LET b == req[p].body
  IN /\ At(p, "createUser")
     /\ IF GetUserByEmail(b.email) # {} \/ GetUserByUsername(b.username) # {}
        THEN Goto(p, "email2") /\ UNCHANGED accounts
        ELSE /\ InsertUser(b.email, b.username)
             /\ req' = [req EXCEPT ![p].user = Len(accounts) + 1, ![p].created = TRUE,
                                   ![p].pc = "member"]
     /\ UNCHANGED <<local, members, links, channels, messages, serial, told, sent, ran>>

ResolveUser(p) ==
  \/ FindUser(p, "email", GetUserByEmail(req[p].body.email), "createUser")
  \/ CreateUser(p)
  \/ FindUser(p, "email2", GetUserByEmail(req[p].body.email), "username")
  \/ FindUser(p, "username", GetUserByUsername(req[p].body.username), "idle")

ensureWorkspaceMember(p) ==
  /\ At(p, "member")
  /\ members' = [members EXCEPT ![req[p].lane] = @ \cup {req[p].user}]
  /\ Goto(p, "link")
  /\ UNCHANGED <<local, accounts, links, channels, messages, serial, told, sent, ran>>

CreateAppUser(p) ==
  LET r == req[p]
      l == [ext |-> r.body.ext, user |-> r.user, lane |-> r.lane]
  IN /\ At(p, "link")
     /\ IF LinkTaken(l)
        THEN Goto(p, "relink") /\ UNCHANGED <<links, told, sent, ran>>
        ELSE /\ links' = links \cup {l}
             /\ IF r.created THEN dispatch(p, <<"provision", l.user>>) ELSE UNCHANGED sent
             /\ Provisioned(p, l)
             /\ Reply(p)
     /\ UNCHANGED <<local, accounts, members, channels, messages, serial>>

\* Mutant: the account that was found, not the one that is linked.
RelinkOwn(p) ==
  LET r == req[p]
  IN /\ At(p, "relink")
     /\ Provisioned(p, [ext |-> r.body.ext, user |-> r.user, lane |-> r.lane])
     /\ Reply(p)
     /\ UNCHANGED <<local, tables, sent>>

\* The answer is the user that the external id is linked with; an account
\* that has another external id is refused.
Relink(p) ==
  LET r == req[p]
      found == GetAppUserByExternalID(r.body.ext, r.lane)
  IN /\ At(p, "relink")
     /\ IF found = {} THEN Return(p) /\ UNCHANGED <<told, ran>>
        ELSE (\E l \in found : Provisioned(p, l)) /\ Reply(p)
     /\ UNCHANGED <<local, tables, sent>>

-----------------------------------------------------------------------------
(* CreateChannel.                                                          *)

\* An existing channel of that name is the answer: in the sandbox before the
\* cap is looked at, and in both lanes when the insert finds it.
ChannelLookup(p, pc, next) ==
  LET found == GetChannelByNameInWorkspace(req[p].body.name, req[p].lane)
  IN /\ At(p, pc)
     /\ IF found = {} THEN Goto(p, next) /\ UNCHANGED ran ELSE Ran(p) /\ Reply(p)
     /\ UNCHANGED <<local, tables, told, sent>>

checkSandboxChannels(p) ==
  /\ At(p, "chCap")
  /\ IF MaxChannels > 0 /\ CountSandboxWorkspaceChannels >= MaxChannels
     THEN Return(p) ELSE Goto(p, "chCreate")
  /\ UNCHANGED <<local, tables, told, sent, ran>>

CreateChannel(p) ==
  LET r == req[p]
  IN /\ At(p, "chCreate")
     /\ IF GetChannelByNameInWorkspace(r.body.name, r.lane) # {}
        THEN Goto(p, "chAgain") /\ UNCHANGED <<channels, serial>>
        ELSE /\ InsertChannel(r.body.name, r.lane)
             /\ req' = [req EXCEPT ![p].channel = serial["channel"] + 1, ![p].pc = "chMember"]
     /\ UNCHANGED <<local, accounts, members, links, messages, told, sent, ran>>

\* The owner of the app joins, and the event is sent.
ChannelMember(p) ==
  LET id == req[p].channel
  IN /\ At(p, "chMember")
     /\ IF CanAddChannelMember(id, Owner)
        THEN /\ AddChannelMember(id, Owner)
             /\ dispatch(p, <<"channel", id>>)
             /\ Ran(p)
             /\ Reply(p)
        ELSE Return(p) /\ UNCHANGED <<channels, sent, ran>>
     /\ UNCHANGED <<local, accounts, members, links, messages, serial, told>>

-----------------------------------------------------------------------------
(* SendMessage and CreateSession.                                          *)

\* Mutant: an external id is looked up in both lanes.
resolveAnyLane(p) ==
  LET found == {l \in links : l.ext = req[p].body.ext}
  IN /\ At(p, "resolve")
     /\ IF found = {} THEN Return(p)
        ELSE \E l \in found : req' = [req EXCEPT ![p].user = l.user, ![p].pc = "chGet"]
     /\ UNCHANGED <<local, tables, told, sent, ran>>

resolveUserID(p) ==
  LET found == GetAppUserByExternalID(req[p].body.ext, req[p].lane)
  IN /\ At(p, "resolve")
     /\ IF found = {} THEN Return(p)
        ELSE \E l \in found : req' = [req EXCEPT ![p].user = l.user, ![p].pc = "chGet"]
     /\ UNCHANGED <<local, tables, told, sent, ran>>

\* A session that names no channel is answered here.
GetChannel(p) ==
  LET b == req[p].body
  IN /\ At(p, "chGet")
     /\ IF b.kind = "session" /\ b.channel = 0 THEN Ran(p) /\ Reply(p)
        ELSE /\ IF GetChannelInWorkspace(b.channel, req[p].lane) = {} THEN Return(p)
                ELSE req' = [req EXCEPT ![p].channel = b.channel, ![p].pc = "isMember"]
             /\ UNCHANGED ran
     /\ UNCHANGED <<local, tables, told, sent>>

AfterMember(p) ==
  IF req[p].body.kind = "session" THEN Ran(p) /\ Reply(p)
  ELSE Goto(p, IF req[p].lane = "live" THEN "quota" ELSE "msgCap") /\ UNCHANGED ran

ensureChannelMember(p) ==
  LET r == req[p]
  IN \/ /\ At(p, "isMember")
        /\ IF IsChannelMember(r.channel, r.user) THEN AfterMember(p)
           ELSE Goto(p, "addMember") /\ UNCHANGED ran
        /\ UNCHANGED <<local, tables, told, sent>>
     \/ /\ At(p, "addMember")
        /\ IF CanAddChannelMember(r.channel, r.user)
           THEN AddChannelMember(r.channel, r.user) /\ AfterMember(p)
           ELSE Return(p) /\ UNCHANGED <<channels, ran>>
        /\ UNCHANGED <<local, accounts, members, links, messages, serial, told, sent>>

\* CheckMessageQuota; see Quota.
CheckMessageQuota(p) ==
  /\ At(p, "quota")
  /\ Return(p) \/ Goto(p, "msgCreate")
  /\ UNCHANGED <<local, tables, told, sent, ran>>

checkSandboxMessages(p) ==
  /\ At(p, "msgCap")
  /\ IF MaxMessages > 0 /\ CountWorkspaceMessages("sandbox") >= MaxMessages
     THEN Return(p) ELSE Goto(p, "msgCreate")
  /\ UNCHANGED <<local, tables, told, sent, ran>>

\* The insert, then the broadcast, the usage record and the event.
CreateMessage(p) ==
  LET r == req[p]
  IN /\ At(p, "msgCreate")
     /\ IF \E c \in channels : c.id = r.channel
        THEN /\ InsertMessage(r.channel, r.user)
             /\ dispatch(p, <<"message", serial["message"] + 1>>)
             /\ Ran(p)
             /\ Reply(p)
        ELSE Return(p) /\ UNCHANGED <<messages, serial, sent, ran>>
     /\ UNCHANGED <<local, accounts, members, links, channels, told>>

-----------------------------------------------------------------------------
(* Time and the cleaner.                                                   *)

\* The TTLs of sandbox keys and of data pass.
Tick ==
  /\ Clock
  /\ keys' = [k \in Keys |-> IF Lane[k] = "sandbox" /\ keys[k] = "active"
                             THEN "expired" ELSE keys[k]]
  /\ messages' = {[m EXCEPT !.old = TRUE] : m \in messages}
  /\ channels' = {[c EXCEPT !.old = TRUE] : c \in channels}
  /\ UNCHANGED <<accounts, members, links, serial, idem, sweep, req, begun, observed>>

\* The first statement of RunOnce; before anything is old it finds nothing.
DeleteExpiredSandboxMessages ==
  /\ ~sweep
  /\ \E c \in channels : c.old
  /\ sweep' = TRUE
  /\ messages' = {m \in messages : ~(m.old /\ m \in MessagesOf("sandbox"))}
  /\ UNCHANGED <<keys, accounts, members, links, channels, serial, idem, req, begun,
                 ticks, observed>>

DeleteExpiredEmptySandboxChannels ==
  /\ sweep
  /\ sweep' = FALSE
  /\ channels' = {c \in channels :
                    ~(c.lane = "sandbox" /\ c.old /\ \A m \in messages : m.channel # c.id)}
  /\ UNCHANGED <<keys, accounts, members, links, messages, serial, idem, req, begun,
                 ticks, observed>>

\* The cleaner stops at an error of its first statement.
SweepFails ==
  /\ Failures
  /\ sweep
  /\ sweep' = FALSE
  /\ UNCHANGED <<keys, tables, idem, req, begun, ticks, observed>>

Fail(p) ==
  /\ Failures
  /\ ~At(p, "idle")
  /\ lost' = IF req[p].body.idem = NoIdem THEN lost ELSE lost \cup {req[p].body.idem}
  /\ Return(p)
  /\ UNCHANGED <<keys, tables, idem, sweep, begun, ticks, told, sent, ran>>

Next ==
  \/ \E k \in Keys : CreateAPIKey(k) \/ RevokeAPIKey(k)
  \/ \E p \in Requests :
       \/ \E k \in Keys, b \in Inputs : APIKeyMiddleware(p, k, b)
       \/ IdempotencyLookup(p) \/ SaveIdempotency(p)
       \/ ProvisionLookup(p) \/ checkSandboxUsers(p) \/ ResolveUser(p)
       \/ ensureWorkspaceMember(p) \/ CreateAppUser(p) \/ Relink(p)
       \/ ChannelLookup(p, "chLookup", "chCap") \/ checkSandboxChannels(p)
       \/ CreateChannel(p) \/ ChannelLookup(p, "chAgain", "idle") \/ ChannelMember(p)
       \/ resolveUserID(p) \/ GetChannel(p) \/ ensureChannelMember(p)
       \/ CheckMessageQuota(p) \/ checkSandboxMessages(p) \/ CreateMessage(p)
       \/ Fail(p)
  \/ Tick \/ DeleteExpiredSandboxMessages \/ DeleteExpiredEmptySandboxChannels \/ SweepFails

Spec == Init /\ [][Next]_vars

-----------------------------------------------------------------------------
(* Properties.                                                             *)

\* Provisioning is a lookup when it is repeated: whatever ran together with
\* it, every answer for an external id of a lane names the same user, and that
\* is the user the external id is linked with.
OneUserPerExternal == \A l \in told : GetAppUserByExternalID(l.ext, l.lane) = {l}

\* A linked user is a member of the workspace of that lane, so a session that
\* is made for it can be used.
LinkedIsMember == \A l \in links : l.user \in members[l.lane]

\* The lanes do not mix: who wrote a message of a lane is linked in that lane.
SenderIsLinked ==
  \A m \in messages : \A c \in channels :
    c.id = m.channel => GetAppUserByUserID(m.sender, c.lane) # {}

\* The caps of the sandbox are checked before the insert: they are exceeded by
\* less than the number of requests at once.
SandboxCaps ==
  /\ MaxUsers > 0 => Cardinality({l \in links : l.lane = "sandbox"})
                       < MaxUsers + Cardinality(Requests)
  /\ MaxChannels > 0 => Cardinality({c \in channels : c.lane = "sandbox"})
                          < MaxChannels + Cardinality(Requests)
  /\ MaxMessages > 0 => Cardinality(MessagesOf("sandbox"))
                          < MaxMessages + Cardinality(Requests)

\* However often a write is retried with one key, it has its effect at most
\* as often as requests overlap, unless an answer was lost.
RetriesBounded == \A k \in IdemKeys \ lost : ran[k] <= Cardinality(Requests)

\* Checks that are not one statement with what they guard let through less
\* than the number of requests that overlap, in the caps and in the retries.
RacesBounded == SandboxCaps /\ RetriesBounded

\* What an event names is in a table of the live lane.
Stored(e) ==
  \/ e[1] = "provision" /\ GetAppUserByUserID(e[2], "live") # {}
  \/ e[1] = "channel" /\ \E c \in channels : c.id = e[2] /\ c.lane = "live"
  \/ e[1] = "message" /\ \E m \in MessagesOf("live") : m.id = e[2]
\* An event names something that was stored in the live lane, and a user is
\* announced only to the app's live lane.
SentWasStored == \A e \in sent : Stored(e)

\* docs/SDK_INTEGRATION.md: the lanes are isolated.  Members, senders and events
\* belong to the lane of the key they came with.
LanesDoNotMix == LinkedIsMember /\ SenderIsLinked /\ SentWasStored

=============================================================================
