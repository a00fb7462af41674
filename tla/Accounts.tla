------------------------------ MODULE Accounts ------------------------------
(***************************************************************************)
(* Accounts and their tokens: registration, login and refresh of           *)
(* internal/auth and pkg/jwt, the middleware that accepts a token, profile *)
(* and password of internal/users, and what administrators do to accounts  *)
(* (internal/platformadmin) and to maintenance mode.                       *)
(*                                                                         *)
(* Every statement is an action.  Tokens are not stored anywhere: `tokens` *)
(* are the ones that were handed out, and any of them may be sent at any   *)
(* time.  The clock moves on with each event that reads it, so that no two *)
(* have the same time; a token's times are cut to whole seconds.           *)
(***************************************************************************)
EXTENDS Naturals, FiniteSets, Sequences

CONSTANTS
  Users,           \* e-mail addresses
  FirstUsers,      \* the accounts at the start, all administrators
  Bootstrap,       \* PLATFORM_ADMIN_EMAILS
  Names,           \* user names
  Fold(_),         \* LOWER
  FirstName,       \* the names at the start
  FirstTokens,     \* users and lanes of the tokens handed out before the start
  Requests,
  Inputs,          \* the requests that are sent
  Second, TTL, Grace,  \* in instants of the clock
  MaxTime,         \* bound: instants
  MaxTokens,       \* bound: tokens handed out
  MaxBegun,        \* bound: requests that begin
  Failures,        \* may a request stop between two statements?
  NoUser, NoName

Roles == {"user", "support", "admin"}
Lanes == {"live", "sandbox"}
Kinds == {"register", "login", "refresh", "profile", "password", "update",
          "settings", "visit"}

\* What a request asks for: of a user (register, login, update), a name
\* (register, profile), a role and a suspension (update), a lane (visit).  "root"
\* stands for the roles that there are not.
Input == [kind : Kinds, user : Users \cup {NoUser}, name : Names \cup {NoName},
          role : Roles \cup {"", "root"}, suspend : {"", "on", "off"}, lane : Lanes]

ASSUME AccountsAssumption ==
  /\ IsFiniteSet(Users) /\ FirstUsers \subseteq Users /\ FirstUsers # {} /\ Bootstrap \subseteq Users
  /\ NoUser \notin Users /\ NoName \notin Names
  /\ FirstName \in [FirstUsers -> Names]
  /\ \A u, v \in FirstUsers : FirstName[u] = FirstName[v] => u = v
  /\ FirstTokens \in Seq(FirstUsers \X (Lanes \cup {"none"})) /\ Len(FirstTokens) <= MaxTokens
  /\ IsFiniteSet(Requests)
  /\ Second \in Nat \ {0} /\ TTL \in Nat /\ Grace \in Nat
  /\ MaxTime \in Nat \ {0} /\ MaxTokens \in Nat /\ MaxBegun \in Nat /\ Failures \in BOOLEAN

\* Registration, login and an administrator's update name an account.
ASSUME InputsAssumption ==
  /\ Inputs \subseteq Input
  /\ \A i \in Inputs : /\ i.kind \in {"register", "login", "update"} => i.user \in Users
                       /\ i.kind = "register" => i.name \in Names

VARIABLES
  users,         \* the table users
  revoked,       \* revoked_tokens
  maintenance,   \* platform_settings.maintenance_mode
  tokens,        \* the tokens handed out; a token's number is its jti
  now,           \* the clock
  req,           \* the requests in flight
  begun,
  suspensions,   \* observed: how often each user was suspended
  unrevoked,     \* observed: tokens whose revocation was lost
  stale,         \* observed: an administrator's write by one who no longer is
  served         \* observed: lanes of a session and of the workspace it reached

observed == <<suspensions, unrevoked, stale, served>>
vars == <<users, revoked, maintenance, tokens, now, req, begun, observed>>

Account == [exists : BOOLEAN, name : Names \cup {NoName}, password : 1..2, role : Roles,
            suspended : BOOLEAN, invalidated : Nat]
NoAccount == [exists |-> FALSE, name |-> NoName, password |-> 1, role |-> "user",
              suspended |-> FALSE, invalidated |-> 0]

\* Claims: user, issued-at, expiry, and the lane of an app session.  Observed:
\* the token that was refreshed, the lane and the number of suspensions at the
\* start of the session, and whether a refresh overlapped a suspension.
Token == [user : Users, iat : Nat, exp : Nat, lane : Lanes \cup {"none"},
          parent : Nat, first : Lanes \cup {"none"}, epoch : Nat, overlap : BOOLEAN]

Points == {"idle", "revoked", "state", "platform", "get", "role", "suspend", "settings",
           "nameCheck", "nameWrite", "passRead", "passWrite", "guard",
           "regCheck", "regInsert", "promote", "logRead", "logIssue", "issue", "revoke"}

Request == [pc : Points, body : Input, token : Nat, actor : Users \cup {NoUser}, seen : Nat]

NoBody == [kind |-> "login", user |-> NoUser, name |-> NoName, role |-> "", suspend |-> "",
           lane |-> "live"]
Idle == [pc |-> "idle", body |-> NoBody, token |-> 0, actor |-> NoUser, seen |-> 0]

TypeOK ==
  /\ users \in [Users -> Account]
  /\ \A u \in Users : users[u].exists => users[u].name # NoName
  /\ revoked \subseteq 1..MaxTokens
  /\ maintenance \in BOOLEAN
  /\ tokens \in Seq(Token) /\ Len(tokens) <= MaxTokens
  /\ now \in 0..MaxTime
  /\ req \in [Requests -> Request]
  /\ begun \in 0..MaxBegun
  /\ suspensions \in [Users -> Nat]
  /\ unrevoked \subseteq 1..MaxTokens /\ stale \in BOOLEAN
  /\ served \subseteq ((Lanes \cup {"none"}) \X Lanes)

Init ==
  /\ users = [u \in Users |->
       IF u \in FirstUsers
       THEN [NoAccount EXCEPT !.exists = TRUE, !.name = FirstName[u], !.role = "admin"]
       ELSE NoAccount]
  /\ revoked = {}
  /\ maintenance = FALSE
  /\ tokens = [i \in 1..Len(FirstTokens) |->
       [user |-> FirstTokens[i][1], iat |-> 0, exp |-> TTL, lane |-> FirstTokens[i][2],
        parent |-> 0, first |-> FirstTokens[i][2], epoch |-> 0, overlap |-> FALSE]]
  /\ now = 1
  /\ req = [p \in Requests |-> Idle]
  /\ begun = 0
  /\ suspensions = [u \in Users |-> 0]
  /\ unrevoked = {} /\ stale = FALSE /\ served = {}

At(p, pc) == req[p].pc = pc
Goto(p, pc) == req' = [req EXCEPT ![p].pc = pc]
Return(p) == req' = [req EXCEPT ![p] = Idle]
Begin(p, r) ==
  /\ At(p, "idle")
  /\ begun < MaxBegun
  /\ begun' = begun + 1
  /\ req' = [req EXCEPT ![p] = r]

Clock == now < MaxTime /\ now' = now + 1
Cut(t) == (t \div Second) * Second

-----------------------------------------------------------------------------
(* Queries.                                                                *)

GetUserByEmail(u) == users[u].exists
GetUserByUsername(n) == {u \in Users : users[u].exists /\ Fold(users[u].name) = Fold(n)}
NameTaken(n, u) == \E v \in Users \ {u} : users[v].exists /\ users[v].name = n
IsTokenRevoked(t) == t \in revoked
GetUserAuthState(u) == users[u]

CreateUser(u, n) == users' = [users EXCEPT ![u] = [NoAccount EXCEPT !.exists = TRUE, !.name = n]]
PromoteUserToAdminByEmail(u) == users' = [users EXCEPT ![u].role = "admin"]
UpdateUserPlatformRole(u, r) == users' = [users EXCEPT ![u].role = r]

\* Mutant: the tokens are not invalidated.
SuspendUserOnly(u) == users' = [users EXCEPT ![u].suspended = TRUE]

SuspendUser(u) == users' = [users EXCEPT ![u].suspended = TRUE, ![u].invalidated = now]
UnsuspendUser(u) == users' = [users EXCEPT ![u].suspended = FALSE]
UpdateUserProfile(u, n) == users' = [users EXCEPT ![u].name = n]
UpdateUserPassword(u) == users' = [users EXCEPT ![u].password = 3 - @]
RevokeToken(t) == revoked' = revoked \cup {t}
UpsertPlatformSetting(on) == maintenance' = on

-----------------------------------------------------------------------------
(* Tokens.                                                                 *)

\* GenerateSessionToken; `u` and `lane` are the claims, `t` the token that is
\* refreshed, or 0.
GenerateToken(u, lane, t, overlap) ==
  /\ Clock
  /\ Len(tokens) < MaxTokens
  /\ tokens' = Append(tokens,
       [user |-> u, iat |-> Cut(now), exp |-> Cut(now + TTL), lane |-> lane, parent |-> t,
        first |-> IF t = 0 THEN lane ELSE tokens[t].first,
        epoch |-> IF t = 0 THEN suspensions[u] ELSE tokens[t].epoch,
        overlap |-> overlap])

ValidateToken(t) == now <= tokens[t].exp
ValidateTokenForRefresh(t) == now <= tokens[t].exp + Grace

\* The account's side of ValidateAccessToken and Refresh.
StateAllows(t, state) == ~state.suspended /\ tokens[t].iat >= state.invalidated

FirstPoint(kind) ==
  CASE kind = "register" -> "regCheck"
    [] kind = "login" -> "logRead"
    [] OTHER -> "revoked"

\* Paths that MaintenanceMiddleware lets pass in maintenance mode.
isMaintenanceBypass(kind) == kind \in {"login", "refresh", "profile", "update", "settings"}

\* A request arrives, with one of the tokens where it needs one.  When the
\* setting cannot be read, MaintenanceMiddleware lets the request pass.
Arrive(p, i, t) ==
  /\ maintenance /\ ~Failures => isMaintenanceBypass(i.kind)
  /\ IF i.kind \in {"register", "login"} THEN t = 0
     ELSE /\ t \in 1..Len(tokens)
          /\ IF i.kind = "refresh" THEN ValidateTokenForRefresh(t) ELSE ValidateToken(t)
  /\ Begin(p, [Idle EXCEPT !.pc = FirstPoint(i.kind), !.body = i, !.token = t])
  /\ UNCHANGED <<users, revoked, maintenance, tokens, now, observed>>

quiet == <<maintenance, tokens, now, begun, unrevoked, served>>

\* ValidateAccessToken and Refresh, first statement.
CheckRevoked(p) ==
  /\ At(p, "revoked")
  /\ IF IsTokenRevoked(req[p].token) THEN Return(p) ELSE Goto(p, "state")
  /\ UNCHANGED <<users, revoked, quiet, suspensions, stale>>

AfterAuth(kind) ==
  CASE kind = "refresh" -> "issue"
    [] kind = "profile" -> "nameCheck"
    [] kind = "password" -> "passRead"
    [] kind \in {"update", "settings"} -> "platform"
    [] kind = "visit" -> "guard"

\* Second statement: the account must exist, not be suspended, and not have
\* invalidated the token.
CheckState(p) ==
  LET t == req[p].token
      u == tokens[t].user
  IN /\ At(p, "state")
     /\ IF StateAllows(t, GetUserAuthState(u))
        THEN req' = [req EXCEPT ![p].pc = AfterAuth(req[p].body.kind), ![p].actor = u,
                                ![p].seen = suspensions[u]]
        ELSE Return(p)
     /\ UNCHANGED <<users, revoked, quiet, suspensions, stale>>

\* Refresh: the new token has the claims of the old one.
Refresh(p) ==
  LET t == req[p].token
      u == tokens[t].user
  IN /\ At(p, "issue")
     /\ GenerateToken(u, tokens[t].lane, t, tokens[t].overlap \/ suspensions[u] # req[p].seen)
     /\ Goto(p, "revoke")
     /\ UNCHANGED <<users, revoked, maintenance, begun, observed>>

\* Mutant: only a token that has expired is revoked.
RevokeExpired(p) ==
  /\ At(p, "revoke")
  /\ IF ValidateToken(req[p].token) THEN UNCHANGED revoked ELSE RevokeToken(req[p].token)
  /\ Return(p)
  /\ UNCHANGED <<users, quiet, suspensions, stale>>

RevokeOld(p) ==
  /\ At(p, "revoke")
  /\ RevokeToken(req[p].token)
  /\ Return(p)
  /\ UNCHANGED <<users, quiet, suspensions, stale>>

\* EmbedWorkspaceGuard: the token of an app session reaches the workspace of
\* its lane; the token of an account is checked elsewhere.
EmbedWorkspaceGuard(p) ==
  LET t == tokens[req[p].token]
      lane == req[p].body.lane
  IN /\ At(p, "guard")
     /\ served' = IF t.lane \in {"none", lane} THEN served \cup {<<t.first, lane>>} ELSE served
     /\ Return(p)
     /\ UNCHANGED <<users, revoked, maintenance, tokens, now, begun, suspensions, unrevoked,
                    stale>>

-----------------------------------------------------------------------------
(* Registration, login and sessions.                                       *)

RegisterCheck(p) ==
  /\ At(p, "regCheck")
  /\ IF GetUserByEmail(req[p].body.user) THEN Return(p) ELSE Goto(p, "regInsert")
  /\ UNCHANGED <<users, revoked, quiet, suspensions, stale>>

\* The e-mail address and the name are unique; the name as it is written.
RegisterInsert(p) ==
  LET b == req[p].body
  IN /\ At(p, "regInsert")
     /\ IF GetUserByEmail(b.user) \/ NameTaken(b.name, b.user)
        THEN Return(p) /\ UNCHANGED users
        ELSE CreateUser(b.user, b.name) /\ Goto(p, "promote")
     /\ UNCHANGED <<revoked, quiet, suspensions, stale>>

\* SyncBootstrapAdmin, after registration and login.
SyncBootstrapAdmin(p) ==
  LET u == req[p].body.user
  IN /\ At(p, "promote")
     /\ IF u \in Bootstrap THEN PromoteUserToAdminByEmail(u) ELSE UNCHANGED users
     /\ Return(p)
     /\ UNCHANGED <<revoked, quiet, suspensions, stale>>

\* Login reads the account and compares the password; suspension is not looked
\* at here.
LoginRead(p) ==
  /\ At(p, "logRead")
  /\ IF GetUserByEmail(req[p].body.user) THEN Goto(p, "logIssue") ELSE Return(p)
  /\ UNCHANGED <<users, revoked, quiet, suspensions, stale>>

Login(p) ==
  /\ At(p, "logIssue")
  /\ GenerateToken(req[p].body.user, "none", 0, FALSE)
  /\ Goto(p, "promote")
  /\ UNCHANGED <<users, revoked, maintenance, begun, observed>>

-----------------------------------------------------------------------------
(* Profile and password.                                                   *)

\* Mutant: a blank name is taken.
UpdateProfileBlank(p) ==
  LET r == req[p]
      found == GetUserByUsername(r.body.name)
  IN \/ /\ At(p, "nameCheck")
        /\ \/ (found = {} \/ r.actor \in found) /\ Goto(p, "nameWrite")
           \/ found \ {r.actor} # {} /\ Return(p)
        /\ UNCHANGED <<users, revoked, quiet, suspensions, stale>>
     \/ /\ At(p, "nameWrite")
        /\ IF NameTaken(r.body.name, r.actor) THEN UNCHANGED users
           ELSE UpdateUserProfile(r.actor, r.body.name)
        /\ Return(p)
        /\ UNCHANGED <<revoked, quiet, suspensions, stale>>

\* Names that differ in case only may exist (they are unique as written): the
\* query then returns any of them.
UpdateProfile(p) ==
  LET r == req[p]
      found == GetUserByUsername(r.body.name)
  IN \/ /\ At(p, "nameCheck")
        /\ \/ /\ r.body.name # NoName
              /\ found = {} \/ r.actor \in found
              /\ Goto(p, "nameWrite")
           \/ /\ r.body.name = NoName \/ found \ {r.actor} # {}
              /\ Return(p)
        /\ UNCHANGED <<users, revoked, quiet, suspensions, stale>>
     \/ /\ At(p, "nameWrite")
        /\ IF NameTaken(r.body.name, r.actor) THEN UNCHANGED users
           ELSE UpdateUserProfile(r.actor, r.body.name)
        /\ Return(p)
        /\ UNCHANGED <<revoked, quiet, suspensions, stale>>

\* The current password is compared with the one read, then overwritten.
ChangePassword(p) ==
  \/ /\ At(p, "passRead")
     /\ Goto(p, "passWrite")
     /\ UNCHANGED <<users, revoked, quiet, suspensions, stale>>
  \/ /\ At(p, "passWrite")
     /\ UpdateUserPassword(req[p].actor)
     /\ Return(p)
     /\ UNCHANGED <<revoked, quiet, suspensions, stale>>

-----------------------------------------------------------------------------
(* Administrators.                                                         *)

RoleRank(role) ==
  CASE role = "admin" -> 3 [] role = "support" -> 2 [] role = "user" -> 1 [] OTHER -> 0

IsValidRole(role) == RoleRank(role) > 0

\* PlatformUserMiddleware reads the account again; RequirePlatformWrite.
RequirePlatformWrite(p) ==
  LET state == GetUserAuthState(req[p].actor)
  IN /\ At(p, "platform")
     /\ IF ~state.suspended /\ RoleRank(state.role) >= RoleRank("admin")
        THEN Goto(p, IF req[p].body.kind = "update" THEN "get" ELSE "settings")
        ELSE Return(p)
     /\ UNCHANGED <<users, revoked, quiet, suspensions, stale>>

GetUserAdmin(p) ==
  /\ At(p, "get")
  /\ IF users[req[p].body.user].exists /\ ~(req[p].body.role = "" /\ req[p].body.suspend = "")
     THEN Goto(p, IF req[p].body.role = "" THEN "suspend" ELSE "role") ELSE Return(p)
  /\ UNCHANGED <<users, revoked, quiet, suspensions, stale>>

\* Is the one who writes still an administrator?
Stale(p) ==
  stale' = (stale \/ users[req[p].actor].role # "admin" \/ users[req[p].actor].suspended)

\* Mutant: one may give up one's own role.
UpdateRoleOfSelf(p) ==
  LET r == req[p]
  IN /\ At(p, "role")
     /\ IF ~IsValidRole(r.body.role) THEN Return(p) /\ UNCHANGED <<users, stale>>
        ELSE /\ UpdateUserPlatformRole(r.body.user, r.body.role)
             /\ Stale(p)
             /\ IF r.body.suspend = "" THEN Return(p) ELSE Goto(p, "suspend")
     /\ UNCHANGED <<revoked, quiet, suspensions>>

\* The role is written before the suspension is looked at.
UpdateRole(p) ==
  LET r == req[p]
  IN /\ At(p, "role")
     /\ IF ~IsValidRole(r.body.role) \/ (r.body.user = r.actor /\ r.body.role # "admin")
        THEN Return(p) /\ UNCHANGED <<users, stale>>
        ELSE /\ UpdateUserPlatformRole(r.body.user, r.body.role)
             /\ Stale(p)
             /\ IF r.body.suspend = "" THEN Return(p) ELSE Goto(p, "suspend")
     /\ UNCHANGED <<revoked, quiet, suspensions>>

UpdateSuspension(p) ==
  LET r == req[p]
      u == r.body.user
  IN /\ At(p, "suspend")
     /\ IF u = r.actor /\ r.body.suspend = "on"
        THEN UNCHANGED <<users, now, suspensions, stale>>
        ELSE /\ Stale(p)
             /\ IF r.body.suspend = "on"
                THEN Clock /\ SuspendUser(u) /\ suspensions' = [suspensions EXCEPT ![u] = @ + 1]
                ELSE UnsuspendUser(u) /\ UNCHANGED <<now, suspensions>>
     /\ Return(p)
     /\ UNCHANGED <<revoked, maintenance, tokens, begun, unrevoked, served>>

\* UpdatePlatformSettings, from "off" to "on" and back.
UpdatePlatformSettings(p) ==
  /\ At(p, "settings")
  /\ UpsertPlatformSetting(~maintenance)
  /\ Return(p)
  /\ UNCHANGED <<users, revoked, tokens, now, begun, observed>>

-----------------------------------------------------------------------------

Tick == Clock /\ UNCHANGED <<users, revoked, maintenance, tokens, req, begun, observed>>

\* The error of a revocation is dropped, so a lost one is a Fail as well.
Fail(p) ==
  /\ Failures
  /\ ~At(p, "idle")
  /\ unrevoked' = IF At(p, "revoke") THEN unrevoked \cup {req[p].token} ELSE unrevoked
  /\ Return(p)
  /\ UNCHANGED <<users, revoked, maintenance, tokens, now, begun, suspensions, stale, served>>

Next ==
  \/ \E p \in Requests :
       \/ \E i \in Inputs, t \in 0..MaxTokens : Arrive(p, i, t)
       \/ CheckRevoked(p) \/ CheckState(p) \/ Refresh(p) \/ RevokeOld(p)
       \/ EmbedWorkspaceGuard(p)
       \/ RegisterCheck(p) \/ RegisterInsert(p) \/ SyncBootstrapAdmin(p)
       \/ LoginRead(p) \/ Login(p)
       \/ UpdateProfile(p) \/ ChangePassword(p)
       \/ RequirePlatformWrite(p) \/ GetUserAdmin(p) \/ UpdateRole(p)
       \/ UpdateSuspension(p) \/ UpdatePlatformSettings(p)
       \/ Fail(p)
  \/ Tick

Spec == Init /\ [][Next]_vars

-----------------------------------------------------------------------------
(* Properties.                                                             *)

Accepted(t) ==
  /\ t \notin revoked
  /\ ValidateToken(t)
  /\ StateAllows(t, users[tokens[t].user])

\* Suspending an account ends its sessions for good: after the account is let
\* in again, a token is accepted only if its session began after the
\* suspension, whatever refreshes came between.  The exception is a refresh
\* that had read the account before the suspension and issued its token after.
SuspensionEndsSessions ==
  \A t \in 1..Len(tokens) :
    Accepted(t) => tokens[t].epoch = suspensions[tokens[t].user] \/ tokens[t].overlap

\* A token is good for one refresh.  Only refreshes that overlap, or one whose
\* revocation was lost, give more.
RefreshedOnce ==
  \A t \in 1..Len(tokens) \ unrevoked :
    Cardinality({s \in 1..Len(tokens) : tokens[s].parent = t}) <= Cardinality(Requests)

\* Nobody takes the role from, or suspends, themselves, so that an
\* administrator remains; two who do it to each other leave none only when one
\* of them had lost the role between the check and the write.
AdminRemains ==
  stale \/ \E u \in Users : users[u].exists /\ users[u].role = "admin" /\ ~users[u].suspended

\* docs/SDK_INTEGRATION.md: browser clients "cannot cross lanes".  However often
\* an app session is refreshed, it reaches the workspace of its first lane only.
LaneKept == \A s \in served : s[1] \in {"none", s[2]}

\* Refreshing continues one session, in its lane.
RefreshContinues == RefreshedOnce /\ LaneKept
=============================================================================
