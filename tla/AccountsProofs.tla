---------------------------- MODULE AccountsProofs ----------------------------
(***************************************************************************)
(* Proofs about Accounts, for any number of users, tokens and requests in  *)
(* flight, any requests and any lifetimes.                                 *)
(*                                                                         *)
(* Three arguments carry them.  The clock moves with each token and each   *)
(* suspension, so a suspension invalidates every token there is.  An       *)
(* administrator who acts on somebody else is still there afterwards.  And *)
(* a refreshed token that is not yet revoked has no more successors than   *)
(* requests that are about to revoke it.                                   *)
(***************************************************************************)
EXTENDS Accounts, FiniteSetTheorems, TLAPS

-----------------------------------------------------------------------------
(* The inductive invariant.                                                *)

\* The points of a request whose token was accepted.
Authenticated == {"platform", "get", "role", "suspend", "settings", "nameCheck", "nameWrite",
                  "passRead", "passWrite", "guard", "issue", "revoke"}

\* What a request may rely on at each point.
RequestOK(r) ==
  /\ r.pc # "idle" => r.body \in Inputs
  /\ r.pc \in {"regCheck", "regInsert"} => r.body.kind = "register"
  /\ r.pc \in {"logRead", "logIssue"} => r.body.kind = "login"
  /\ r.pc = "promote" => r.body.kind \in {"register", "login"}
  /\ r.pc \in {"get", "role", "suspend"} => r.body.kind = "update"
  /\ r.pc = "platform" => r.body.kind \in {"update", "settings"}
  /\ r.pc \in {"revoked", "state"} =>
       r.body.kind \in {"refresh", "profile", "password", "update", "settings", "visit"}
  /\ r.pc \in {"issue", "revoke"} => r.body.kind = "refresh"
  /\ r.pc = "nameWrite" => r.body.name # NoName
  /\ r.pc = "logIssue" => users[r.body.user].exists
  /\ r.pc \in {"role", "suspend"} => users[r.body.user].exists
  /\ r.pc \in {"revoked", "state"} \cup Authenticated => r.token \in 1..Len(tokens)
  /\ r.pc \in Authenticated => r.actor = tokens[r.token].user
  /\ r.pc = "issue" => tokens[r.token].overlap \/ tokens[r.token].epoch = r.seen

RequestsOK == \A p \in Requests : RequestOK(req[p])

\* Tokens are of the past and of accounts that exist.
TokenOK(t) ==
  /\ tokens[t].iat < now
  /\ users[tokens[t].user].exists
  /\ tokens[t].parent \in 0..Len(tokens)
  /\ tokens[t].lane = tokens[t].first
TokensOK == /\ \A t \in 1..Len(tokens) : TokenOK(t)
            /\ revoked \subseteq 1..Len(tokens)

\* Only accounts that exist are suspended.
UsersOK == \A u \in Users : ~users[u].exists => users[u].invalidated = 0

\* A token that was not invalidated is of a session after the last suspension.
SessionsOK ==
  \A t \in 1..Len(tokens) :
    tokens[t].iat >= users[tokens[t].user].invalidated =>
      tokens[t].epoch = suspensions[tokens[t].user] \/ tokens[t].overlap

\* The tokens that came from t, the refreshes of t that may still issue one,
\* and those that have issued one and will revoke t.
Successors(t) == {s \in 1..Len(tokens) : tokens[s].parent = t}
Pending(t) == {p \in Requests : /\ req[p].pc \in {"state", "issue"}
                                /\ req[p].body.kind = "refresh" /\ req[p].token = t}
Revoking(t) == {p \in Requests : req[p].pc = "revoke" /\ req[p].token = t}

RefreshOK ==
  \A t \in 1..Len(tokens) \ unrevoked :
    IF t \in revoked
    THEN Cardinality(Successors(t)) + Cardinality(Pending(t)) <= Cardinality(Requests)
    ELSE Cardinality(Successors(t)) <= Cardinality(Revoking(t))

AccountsInv ==
  /\ TypeOK /\ RequestsOK /\ TokensOK /\ UsersOK /\ SessionsOK
  /\ AdminRemains /\ RefreshOK /\ LaneKept
-----------------------------------------------------------------------------
(* Requests, one at a time.                                                *)

LEMMA InputsTyped ==
  \A i \in Inputs :
    /\ i \in Input
    /\ i.kind \in {"register", "login", "update"} => i.user \in Users
    /\ i.kind = "register" => i.name \in Names
  BY InputsAssumption

LEMMA BoundsTyped ==
  /\ MaxTime \in Nat /\ MaxTime > 0 /\ MaxTokens \in Nat /\ MaxBegun \in Nat
  /\ Second \in Nat /\ Second > 0 /\ TTL \in Nat /\ Grace \in Nat
  BY AccountsAssumption

LEMMA IdleTyped == Idle \in Request /\ Idle.pc = "idle"
  <1>1. NoBody \in Input
    BY DEF NoBody, Input, Kinds, Lanes
  <1> QED BY <1>1 DEF Idle, Request, Points

LEMMA NoAccountTyped == /\ NoAccount \in Account /\ NoAccount.invalidated = 0
                        /\ ~NoAccount.exists
  BY DEF NoAccount, Account, Roles

\* A step of request p.
Only(p) ==
  /\ req' \in [Requests -> Request]
  /\ \A q \in Requests : q # p => req'[q] = req[q]

LEMMA ReturnForm ==
  ASSUME TypeOK, NEW p \in Requests, Return(p)
  PROVE  Only(p) /\ req'[p].pc = "idle" /\ RequestOK(req[p])'
  <1>1. Only(p) /\ req'[p] = Idle
    BY IdleTyped DEF TypeOK, Return, Only
  <1> QED BY <1>1, IdleTyped DEF RequestOK, Authenticated

LEMMA GotoForm ==
  ASSUME TypeOK, NEW p \in Requests, NEW pc \in Points, Goto(p, pc)
  PROVE  /\ Only(p) /\ req'[p].pc = pc
         /\ req'[p].body = req[p].body /\ req'[p].token = req[p].token
         /\ req'[p].actor = req[p].actor /\ req'[p].seen = req[p].seen
  <1>1. req \in [Requests -> Request] BY DEF TypeOK
  <1> QED BY <1>1 DEF Goto, Only, Request

\* The types of what a request holds.
LEMMA Typed ==
  ASSUME TypeOK, NEW p \in Requests
  PROVE  /\ req[p] \in Request /\ req[p].pc \in Points /\ req[p].body \in Input
         /\ req[p].token \in Nat /\ req[p].actor \in Users \cup {NoUser} /\ req[p].seen \in Nat
         /\ req[p].body.kind \in Kinds /\ req[p].body.name \in Names \cup {NoName}
         /\ req[p].body.lane \in Lanes
  <1>1. req[p] \in Request BY DEF TypeOK
  <1>2. /\ req[p].pc \in Points /\ req[p].body \in Input
        /\ req[p].token \in Nat /\ req[p].actor \in Users \cup {NoUser} /\ req[p].seen \in Nat
    BY <1>1 DEF Request
  <1> QED BY <1>1, <1>2 DEF Input

LEMMA RowTyped ==
  ASSUME NEW S, NEW s \in Seq(S), NEW i \in 1..Len(s)
  PROVE  s[i] \in S
  OBVIOUS

\* A token's claims, and the account it is of.
LEMMA TokenTyped ==
  ASSUME TypeOK, NEW t \in 1..Len(tokens)
  PROVE  /\ tokens[t] \in Token /\ tokens[t].user \in Users /\ tokens[t].iat \in Nat
         /\ tokens[t].epoch \in Nat /\ tokens[t].overlap \in BOOLEAN
         /\ tokens[t].lane \in Lanes \cup {"none"} /\ tokens[t].first \in Lanes \cup {"none"}
         /\ users[tokens[t].user] \in Account
         /\ users[tokens[t].user].invalidated \in Nat
  <1>1. tokens[t] \in Token BY RowTyped DEF TypeOK
  <1>2. tokens[t].user \in Users BY <1>1 DEF Token
  <1>3. users[tokens[t].user] \in Account BY <1>2 DEF TypeOK
  <1> QED BY <1>1, <1>2, <1>3 DEF Token, Account

-----------------------------------------------------------------------------
(* What a step leaves alone.                                               *)

\* Tokens are added, and accounts do not vanish.
Grow ==
  /\ Len(tokens) <= Len(tokens')
  /\ \A t \in 1..Len(tokens) : tokens'[t] = tokens[t]
  /\ \A u \in Users : users[u].exists => users'[u].exists

LEMMA Lengths == ASSUME TypeOK PROVE Len(tokens) \in Nat
  BY DEF TypeOK

\* The accounts that a request is about.
LEMMA Subject ==
  ASSUME TypeOK, NEW p \in Requests, RequestOK(req[p]),
         req[p].pc \in {"regCheck", "regInsert", "logRead", "logIssue", "promote",
                       "get", "role", "suspend"}
  PROVE  req[p].body.user \in Users
  BY InputsTyped DEF RequestOK

LEMMA KeepRequests ==
  ASSUME TypeOK, TypeOK', RequestsOK, NEW p \in Requests, Only(p), RequestOK(req[p])', Grow
  PROVE  RequestsOK'
  <1> SUFFICES ASSUME NEW q \in Requests, q # p PROVE RequestOK(req[q])'
    BY DEF RequestsOK
  <1> DEFINE r == req[q]
  <1>1. req'[q] = req[q] BY DEF Only
  <1>2. RequestOK(r) BY DEF RequestsOK
  <1>3. Len(tokens) \in Nat /\ Len(tokens') \in Nat
    BY DEF TypeOK
  <1>4. r.token \in 1..Len(tokens) => r.token \in 1..Len(tokens') /\ tokens'[r.token] = tokens[r.token]
    BY <1>3 DEF Grow
  <1>5. r.pc \in {"role", "suspend", "logIssue"} => users'[r.body.user].exists
    BY <1>2, Subject DEF Grow, RequestOK
  <1> QED BY <1>1, <1>2, <1>4, <1>5 DEF RequestOK, Authenticated

LEMMA KeepTokens ==
  ASSUME TypeOK, TokensOK, now' \in Nat, now <= now', UNCHANGED <<tokens, revoked>>,
         \A u \in Users : users[u].exists => users'[u].exists
  PROVE  TokensOK'
  <1> SUFFICES ASSUME NEW t \in 1..Len(tokens) PROVE TokenOK(t)'
    BY DEF TokensOK
  <1>1. TokenOK(t) BY DEF TokensOK
  <1>2. tokens[t].user \in Users /\ tokens[t].iat \in Nat BY TokenTyped
  <1>3. now \in Nat BY BoundsTyped DEF TypeOK
  <1> QED BY <1>1, <1>2, <1>3 DEF TokenOK

LEMMA KeepSessions ==
  ASSUME TypeOK, SessionsOK, UNCHANGED <<tokens, suspensions>>,
         \A u \in Users : users'[u].invalidated = users[u].invalidated
  PROVE  SessionsOK'
  <1> SUFFICES ASSUME NEW t \in 1..Len(tokens),
                      tokens[t].iat >= users[tokens[t].user].invalidated
               PROVE  tokens[t].epoch = suspensions[tokens[t].user] \/ tokens[t].overlap
    BY TokenTyped DEF SessionsOK
  <1> QED BY DEF SessionsOK

\* Request p does not come to be one that may issue a token for a revoked one.
Harmless(p) ==
  \/ req'[p].pc \notin {"state", "issue"}
  \/ req'[p].body.kind # "refresh"
  \/ /\ req[p].pc \in {"state", "issue"}
     /\ req'[p].body = req[p].body /\ req'[p].token = req[p].token
  \/ req'[p].token \notin revoked

LEMMA RequestSets ==
  ASSUME NEW S \in SUBSET Requests
  PROVE  IsFiniteSet(S) /\ Cardinality(S) \in Nat /\ Cardinality(S) <= Cardinality(Requests)
         /\ Cardinality(Requests) \in Nat
  BY AccountsAssumption, FS_Subset, FS_CardinalityType

LEMMA SuccessorSets ==
  ASSUME TypeOK, NEW t
  PROVE  IsFiniteSet(Successors(t)) /\ Cardinality(Successors(t)) \in Nat
  <1>1. IsFiniteSet(1..Len(tokens))
    BY Lengths, FS_Interval
  <1>2. Successors(t) \subseteq 1..Len(tokens) BY DEF Successors
  <1> QED BY <1>1, <1>2, FS_Subset, FS_CardinalityType

LEMMA KeepRefresh ==
  ASSUME TypeOK, RefreshOK, NEW p \in Requests, Only(p), req[p].pc # "revoke", Harmless(p),
         unrevoked \subseteq unrevoked', UNCHANGED <<tokens, revoked>>
  PROVE  RefreshOK'
  <1> SUFFICES ASSUME NEW t \in 1..Len(tokens), t \notin unrevoked
               PROVE  IF t \in revoked
                      THEN Cardinality(Successors(t)') + Cardinality(Pending(t)') <= Cardinality(Requests)
                      ELSE Cardinality(Successors(t)') <= Cardinality(Revoking(t)')
    BY DEF RefreshOK
  <1>1. Successors(t)' = Successors(t) BY DEF Successors
  <1>2. /\ Cardinality(Successors(t)) \in Nat
        /\ Cardinality(Pending(t)) \in Nat /\ Cardinality(Pending(t)') \in Nat
        /\ Cardinality(Revoking(t)) \in Nat /\ Cardinality(Revoking(t)') \in Nat
        /\ IsFiniteSet(Pending(t)) /\ IsFiniteSet(Revoking(t)') /\ Cardinality(Requests) \in Nat
    <2>1. /\ Pending(t) \in SUBSET Requests /\ Pending(t)' \in SUBSET Requests
          /\ Revoking(t) \in SUBSET Requests /\ Revoking(t)' \in SUBSET Requests
      BY DEF Pending, Revoking
    <2> QED BY <2>1, RequestSets, SuccessorSets
  <1>3. CASE t \in revoked
    <2>1. Pending(t)' \subseteq Pending(t)
      BY <1>3 DEF Pending, Only, Harmless
    <2>2. Cardinality(Pending(t)') <= Cardinality(Pending(t)) BY <1>2, <2>1, FS_Subset
    <2> QED BY <1>1, <1>2, <1>3, <2>2 DEF RefreshOK
  <1>4. CASE t \notin revoked
    <2>1. Revoking(t) \subseteq Revoking(t)'
      BY DEF Revoking, Only
    <2>2. Cardinality(Revoking(t)) <= Cardinality(Revoking(t)') BY <1>2, <2>1, FS_Subset
    <2> QED BY <1>1, <1>2, <1>4, <2>2 DEF RefreshOK
  <1> QED BY <1>3, <1>4

-----------------------------------------------------------------------------
(* Steps that issue and revoke no token.                                   *)

\* What an account's row may become.
UsersKept ==
  /\ users' \in [Users -> Account]
  /\ \A u \in Users : /\ users[u].exists => users'[u].exists
                      /\ users'[u].exists => users'[u].name # NoName
                      /\ users'[u].invalidated = users[u].invalidated

LEMMA Step ==
  ASSUME AccountsInv, NEW p \in Requests, Only(p), RequestOK(req[p])', req[p].pc # "revoke",
         Harmless(p), UNCHANGED <<revoked, tokens, now, suspensions, unrevoked>>,
         UsersKept, maintenance' \in BOOLEAN, begun' \in 0..MaxBegun, stale' \in BOOLEAN,
         served' \subseteq ((Lanes \cup {"none"}) \X Lanes), AdminRemains', LaneKept'
  PROVE  AccountsInv'
  <1>1. TypeOK /\ RequestsOK /\ TokensOK /\ UsersOK /\ SessionsOK /\ RefreshOK
    BY DEF AccountsInv
  <1>2. TypeOK' BY <1>1 DEF TypeOK, UsersKept, Only
  <1>3. Grow
    BY <1>1, Lengths DEF Grow, UsersKept
  <1>4. RequestsOK' BY <1>1, <1>2, <1>3, KeepRequests
  <1>5. now' \in Nat /\ now <= now'
    BY <1>1, BoundsTyped DEF TypeOK
  <1>6. TokensOK' BY <1>1, <1>5, KeepTokens DEF UsersKept
  <1>7. UsersOK' BY <1>1 DEF UsersOK, UsersKept
  <1>8. SessionsOK' BY <1>1, KeepSessions DEF UsersKept
  <1>9. RefreshOK' BY <1>1, KeepRefresh
  <1> QED BY <1>2, <1>4, <1>6, <1>7, <1>8, <1>9 DEF AccountsInv

\* A step that reads.
LEMMA Quiet ==
  ASSUME AccountsInv, NEW p \in Requests, Only(p), RequestOK(req[p])', req[p].pc # "revoke",
         Harmless(p), UNCHANGED <<users, revoked, quiet, suspensions, stale>>
  PROVE  AccountsInv'
  <1>1. TypeOK /\ AdminRemains /\ LaneKept BY DEF AccountsInv
  <1>2. UsersKept BY <1>1 DEF TypeOK, UsersKept
  <1>3. /\ UNCHANGED <<revoked, tokens, now, suspensions, unrevoked>>
        /\ maintenance' = maintenance /\ begun' = begun /\ stale' = stale /\ served' = served
    BY DEF quiet
  <1>4. AdminRemains' /\ LaneKept' BY <1>1, <1>3 DEF AdminRemains, LaneKept
  <1>5. /\ maintenance' \in BOOLEAN /\ begun' \in 0..MaxBegun /\ stale' \in BOOLEAN
        /\ served' \subseteq ((Lanes \cup {"none"}) \X Lanes)
    BY <1>1, <1>3 DEF TypeOK
  <1> QED BY <1>2, <1>3, <1>4, <1>5, Step

LEMMA ReturnQuiet ==
  ASSUME AccountsInv, NEW p \in Requests, req[p].pc # "revoke", Return(p),
         UNCHANGED <<users, revoked, quiet, suspensions, stale>>
  PROVE  AccountsInv'
  <1>1. Only(p) /\ req'[p].pc = "idle" /\ RequestOK(req[p])'
    BY ReturnForm DEF AccountsInv
  <1> QED BY <1>1, Quiet DEF Harmless

\* A step that changes users or what is observed, and ends the request or moves
\* it on.
LEMMA UserStep ==
  ASSUME AccountsInv, NEW p \in Requests, Only(p), RequestOK(req[p])', req[p].pc # "revoke",
         Harmless(p), UNCHANGED <<revoked, quiet, suspensions>>,
         UsersKept, stale' \in BOOLEAN, AdminRemains'
  PROVE  AccountsInv'
  <1>1. TypeOK /\ LaneKept BY DEF AccountsInv
  <1>3. /\ UNCHANGED <<revoked, tokens, now, suspensions, unrevoked>>
        /\ maintenance' = maintenance /\ begun' = begun /\ served' = served
    BY DEF quiet
  <1>4. LaneKept' BY <1>1, <1>3 DEF LaneKept
  <1>5. /\ maintenance' \in BOOLEAN /\ begun' \in 0..MaxBegun
        /\ served' \subseteq ((Lanes \cup {"none"}) \X Lanes)
    BY <1>1, <1>3 DEF TypeOK
  <1> QED BY <1>3, <1>4, <1>5, Step

LEMMA ArriveStep ==
  ASSUME AccountsInv, NEW p \in Requests, NEW i \in Inputs, NEW t \in 0..MaxTokens, Arrive(p, i, t)
  PROVE  AccountsInv'
  <1> DEFINE r == [Idle EXCEPT !.pc = FirstPoint(i.kind), !.body = i, !.token = t]
  <1>1. TypeOK /\ AdminRemains /\ LaneKept BY DEF AccountsInv
  <1>2. i \in Input /\ i.kind \in Kinds
    BY InputsTyped DEF Input
  <1>3. FirstPoint(i.kind) \in {"regCheck", "logRead", "revoked"}
    BY DEF FirstPoint
  <1>4. t \in Nat BY BoundsTyped
  <1>5. /\ r.pc = FirstPoint(i.kind) /\ r.body = i /\ r.token = t /\ r \in Request
    <2>1. FirstPoint(i.kind) \in Points BY <1>3 DEF Points
    <2> QED BY <1>2, <1>4, <2>1 DEF Idle, Request
  <1> HIDE DEF r
  <1>6. req' = [req EXCEPT ![p] = r] /\ req[p].pc = "idle" /\ begun' = begun + 1 /\ begun < MaxBegun
    BY DEF Arrive, Begin, At, r
  <1>7. Only(p) /\ req'[p] = r BY <1>1, <1>5, <1>6 DEF Only, TypeOK
  <1>8. r.pc = "regCheck" => i.kind = "register"
    BY <1>5 DEF FirstPoint
  <1>9. r.pc = "logRead" => i.kind = "login"
    BY <1>5 DEF FirstPoint
  <1>10. r.pc = "revoked" => /\ i.kind \notin {"register", "login"}
                             /\ t \in 1..Len(tokens)
    <2>1. r.pc = "revoked" => i.kind \notin {"register", "login"}
      BY <1>5 DEF FirstPoint
    <2> QED BY <2>1 DEF Arrive
  <1>11. UNCHANGED <<users, revoked, maintenance, tokens, now, observed>>
    BY DEF Arrive
  <1>12. r.pc = "revoked" =>
           i.kind \in {"refresh", "profile", "password", "update", "settings", "visit"}
    BY <1>2, <1>10 DEF Kinds
  <1>13. RequestOK(r)'
    BY <1>3, <1>5, <1>8, <1>9, <1>10, <1>11, <1>12 DEF RequestOK, Authenticated
  <1>14. RequestOK(req[p])' BY <1>7, <1>13 DEF RequestOK
  <1>15. Harmless(p) BY <1>3, <1>5, <1>7 DEF Harmless
  <1>16. begun' \in 0..MaxBegun
    BY <1>1, <1>6, BoundsTyped DEF TypeOK
  <1>17. UsersKept BY <1>1, <1>11 DEF TypeOK, UsersKept
  <1>18. AdminRemains' /\ LaneKept' BY <1>1, <1>11 DEF AdminRemains, LaneKept, observed
  <1>19. /\ maintenance' \in BOOLEAN /\ stale' \in BOOLEAN
         /\ served' \subseteq ((Lanes \cup {"none"}) \X Lanes)
    BY <1>1, <1>11 DEF TypeOK, observed
  <1> QED BY <1>6, <1>7, <1>11, <1>14, <1>15, <1>16, <1>17, <1>18, <1>19, Step DEF observed

LEMMA CheckRevokedStep ==
  ASSUME AccountsInv, NEW p \in Requests, CheckRevoked(p)
  PROVE  AccountsInv'
  <1>1. TypeOK /\ RequestOK(req[p]) /\ req[p].pc = "revoked"
    BY DEF AccountsInv, RequestsOK, CheckRevoked, At
  <1>2. UNCHANGED <<users, revoked, quiet, suspensions, stale>> BY DEF CheckRevoked
  <1>3. CASE req[p].token \in revoked
    BY <1>1, <1>2, <1>3, ReturnQuiet DEF CheckRevoked, IsTokenRevoked
  <1>4. CASE req[p].token \notin revoked
    <2>1. Goto(p, "state") BY <1>4 DEF CheckRevoked, IsTokenRevoked
    <2>2. /\ Only(p) /\ req'[p].pc = "state"
          /\ req'[p].body = req[p].body /\ req'[p].token = req[p].token
      BY <1>1, <2>1, GotoForm DEF Points
    <2>3. tokens' = tokens BY <1>2 DEF quiet
    <2>4. RequestOK(req[p])' BY <1>1, <2>2, <2>3 DEF RequestOK, Authenticated
    <2>5. Harmless(p) BY <1>4, <2>2 DEF Harmless
    <2> QED BY <1>1, <1>2, <2>2, <2>4, <2>5, Quiet
  <1> QED BY <1>3, <1>4

LEMMA CheckStateStep ==
  ASSUME AccountsInv, NEW p \in Requests, CheckState(p)
  PROVE  AccountsInv'
  <1> DEFINE t == req[p].token
  <1> DEFINE u == tokens[t].user
  <1>1. TypeOK /\ RequestOK(req[p]) /\ req[p].pc = "state" /\ SessionsOK
    BY DEF AccountsInv, RequestsOK, CheckState, At
  <1>2. UNCHANGED <<users, revoked, quiet, suspensions, stale>> BY DEF CheckState
  <1>3. CASE ~StateAllows(t, users[u])
    <2>1. Return(p) BY <1>3 DEF CheckState, GetUserAuthState
    <2> QED BY <1>1, <1>2, <2>1, ReturnQuiet
  <1>4. CASE StateAllows(t, users[u])
    <2> DEFINE to == AfterAuth(req[p].body.kind)
    <2> DEFINE n == suspensions[u]
    <2>1. t \in 1..Len(tokens) /\ req[p].body \in Inputs
          /\ req[p].body.kind \in {"refresh", "profile", "password", "update", "settings", "visit"}
      BY <1>1 DEF RequestOK
    <2>2. /\ to \in {"issue", "nameCheck", "passRead", "platform", "guard"}
          /\ to = "issue" => req[p].body.kind = "refresh"
          /\ to = "platform" => req[p].body.kind \in {"update", "settings"}
      BY <2>1 DEF AfterAuth
    <2>3. u \in Users BY <1>1, <2>1, TokenTyped
    <2>4. n \in Nat BY <1>1, <2>3 DEF TypeOK
    <2>5. tokens[t].overlap \/ tokens[t].epoch = n
      BY <1>1, <1>4, <2>1 DEF SessionsOK, StateAllows
    <2>6. req' = [req EXCEPT ![p].pc = to, ![p].actor = u, ![p].seen = n]
      BY <1>4 DEF CheckState, GetUserAuthState
    <2>7. to \in Points BY <2>2 DEF Points
    <2>8. req \in [Requests -> Request] BY <1>1 DEF TypeOK
    <2>9. UNCHANGED <<users, tokens>> BY <1>2 DEF quiet
    <2> HIDE DEF to, u, n
    <2>11. Only(p)
      <3> DEFINE row == [req[p] EXCEPT !.pc = to, !.actor = u, !.seen = n]
      <3>1. row \in Request
        BY <2>3, <2>4, <2>7, <2>8 DEF Request
      <3>2. req' = [req EXCEPT ![p] = row]
        BY <2>6, <2>8
      <3> HIDE DEF row
      <3> QED BY <2>8, <3>1, <3>2 DEF Only
    <2>12. /\ req'[p].pc = to /\ req'[p].actor = u /\ req'[p].seen = n
           /\ req'[p].body = req[p].body /\ req'[p].token = req[p].token
      BY <2>6, <2>8 DEF Request
    <2>13. req'[p].actor = tokens'[req'[p].token].user
      BY <2>9, <2>12 DEF u
    <2>14. /\ req'[p].token \in 1..Len(tokens')
           /\ tokens'[req'[p].token].overlap \/ tokens'[req'[p].token].epoch = req'[p].seen
      BY <2>1, <2>5, <2>9, <2>12
    <2>15. RequestOK(req[p])'
      BY <2>1, <2>2, <2>12, <2>13, <2>14 DEF RequestOK
    <2>16. Harmless(p) BY <1>1, <2>12 DEF Harmless
    <2> QED BY <1>1, <1>2, <2>11, <2>15, <2>16, Quiet
  <1> QED BY <1>3, <1>4

-----------------------------------------------------------------------------
(* Registration, login, profile and password.                              *)

LEMMA RegisterCheckStep ==
  ASSUME AccountsInv, NEW p \in Requests, RegisterCheck(p)
  PROVE  AccountsInv'
  <1>1. TypeOK /\ RequestOK(req[p]) /\ req[p].pc = "regCheck"
    BY DEF AccountsInv, RequestsOK, RegisterCheck, At
  <1>2. UNCHANGED <<users, revoked, quiet, suspensions, stale>> BY DEF RegisterCheck
  <1>3. CASE Return(p) BY <1>1, <1>2, <1>3, ReturnQuiet
  <1>4. CASE Goto(p, "regInsert")
    <2>1. /\ Only(p) /\ req'[p].pc = "regInsert" /\ req'[p].body = req[p].body
      BY <1>1, <1>4, GotoForm DEF Points
    <2>2. RequestOK(req[p])' BY <1>1, <2>1 DEF RequestOK, Authenticated
    <2>3. Harmless(p) BY <2>1 DEF Harmless
    <2> QED BY <1>1, <1>2, <2>1, <2>2, <2>3, Quiet
  <1> QED BY <1>3, <1>4 DEF RegisterCheck

LEMMA RegisterInsertStep ==
  ASSUME AccountsInv, NEW p \in Requests, RegisterInsert(p)
  PROVE  AccountsInv'
  <1> DEFINE b == req[p].body
  <1>1. TypeOK /\ RequestOK(req[p]) /\ req[p].pc = "regInsert" /\ UsersOK /\ AdminRemains
    BY DEF AccountsInv, RequestsOK, RegisterInsert, At
  <1>2. UNCHANGED <<revoked, quiet, suspensions, stale>> BY DEF RegisterInsert
  <1>3. CASE Return(p) /\ UNCHANGED users
    BY <1>1, <1>2, <1>3, ReturnQuiet
  <1>4. CASE ~users[b.user].exists /\ CreateUser(b.user, b.name) /\ Goto(p, "promote")
    <2>1. b \in Inputs /\ b.kind = "register" BY <1>1 DEF RequestOK
    <2>2. b.user \in Users /\ b.name \in Names /\ b.name # NoName
      BY <2>1, InputsTyped, AccountsAssumption
    <2>3. /\ Only(p) /\ req'[p].pc = "promote" /\ req'[p].body = req[p].body
      BY <1>1, <1>4, GotoForm DEF Points
    <2>4. RequestOK(req[p])' BY <1>1, <2>1, <2>3 DEF RequestOK, Authenticated
    <2>5. Harmless(p) BY <2>3 DEF Harmless
    <2> DEFINE row == [NoAccount EXCEPT !.exists = TRUE, !.name = b.name]
    <2>6. /\ row \in Account /\ row.exists /\ row.name = b.name
          /\ row.invalidated = 0
      <3>1. NoAccount \in Account /\ NoAccount.invalidated = 0
        BY NoAccountTyped
      <3> QED BY <2>2, <3>1 DEF Account
    <2>7. users' = [users EXCEPT ![b.user] = row]
      BY <1>4 DEF CreateUser
    <2> HIDE DEF row
    <2>8. users \in [Users -> Account] BY <1>1 DEF TypeOK
    <2>9. users'[b.user] = row /\ \A v \in Users : v # b.user => users'[v] = users[v]
      BY <2>2, <2>7, <2>8
    <2>10. users' \in [Users -> Account] BY <2>6, <2>7, <2>8
    <2>11. UsersKept
      BY <1>1, <1>4, <2>2, <2>6, <2>9, <2>10 DEF UsersKept, UsersOK, TypeOK
    <2>12. AdminRemains'
      <3>1. ASSUME NEW v \in Users, users[v].exists PROVE users'[v] = users[v]
        BY <1>4, <2>9, <3>1
      <3> QED BY <1>1, <1>2, <3>1 DEF AdminRemains
    <2>13. stale' \in BOOLEAN BY <1>1, <1>2 DEF TypeOK
    <2> QED BY <1>1, <1>2, <2>3, <2>4, <2>5, <2>11, <2>12, <2>13, UserStep
  <1> QED BY <1>3, <1>4 DEF RegisterInsert, GetUserByEmail

\* One column of an account is written.
LEMMA RowKept ==
  ASSUME AccountsInv, NEW u \in Users, NEW row \in Account,
         row.exists = users[u].exists, row.exists => row.name # NoName,
         row.invalidated = users[u].invalidated,
         users' = [users EXCEPT ![u] = row]
  PROVE  /\ UsersKept /\ users'[u] = row
         /\ \A v \in Users : v # u => users'[v] = users[v]
  <1>1. users \in [Users -> Account] /\ \A v \in Users : users[v].exists => users[v].name # NoName
    BY DEF AccountsInv, TypeOK
  <1>2. users'[u] = row /\ \A v \in Users : v # u => users'[v] = users[v]
    BY <1>1
  <1>3. users' \in [Users -> Account] BY <1>1
  <1> QED BY <1>1, <1>2, <1>3 DEF UsersKept

LEMMA SyncBootstrapAdminStep ==
  ASSUME AccountsInv, NEW p \in Requests, SyncBootstrapAdmin(p)
  PROVE  AccountsInv'
  <1> DEFINE u == req[p].body.user
  <1>1. TypeOK /\ RequestOK(req[p]) /\ req[p].pc = "promote" /\ AdminRemains
    BY DEF AccountsInv, RequestsOK, SyncBootstrapAdmin, At
  <1>2. UNCHANGED <<revoked, quiet, suspensions, stale>> /\ Return(p)
    BY DEF SyncBootstrapAdmin
  <1>3. CASE UNCHANGED users
    BY <1>1, <1>2, <1>3, ReturnQuiet
  <1>4. CASE users' = [users EXCEPT ![u].role = "admin"]
    <2>1. u \in Users BY <1>1, Subject
    <2>2. users \in [Users -> Account] BY <1>1 DEF TypeOK
    <2> DEFINE row == [users[u] EXCEPT !.role = "admin"]
    <2>3. /\ row \in Account /\ row.exists = users[u].exists /\ row.name = users[u].name
          /\ row.invalidated = users[u].invalidated /\ row.role = "admin"
          /\ row.suspended = users[u].suspended
      BY <2>1, <2>2 DEF Account, Roles
    <2>4. users' = [users EXCEPT ![u] = row] BY <1>4, <2>1, <2>2
    <2>5. users[u].exists => users[u].name # NoName BY <1>1, <2>1 DEF TypeOK
    <2> HIDE DEF row
    <2>6. /\ UsersKept /\ users'[u] = row
          /\ \A v \in Users : v # u => users'[v] = users[v]
      BY <2>1, <2>3, <2>4, <2>5, RowKept
    <2>7. AdminRemains' BY <1>1, <1>2, <2>3, <2>6 DEF AdminRemains
    <2>8. Only(p) /\ req'[p].pc = "idle" /\ RequestOK(req[p])' BY <1>1, <1>2, ReturnForm
    <2>9. Harmless(p) BY <2>8 DEF Harmless
    <2>10. stale' \in BOOLEAN BY <1>1, <1>2 DEF TypeOK
    <2> QED BY <1>1, <1>2, <2>6, <2>7, <2>8, <2>9, <2>10, UserStep
  <1> QED BY <1>3, <1>4 DEF SyncBootstrapAdmin, PromoteUserToAdminByEmail

LEMMA LoginReadStep ==
  ASSUME AccountsInv, NEW p \in Requests, LoginRead(p)
  PROVE  AccountsInv'
  <1>1. TypeOK /\ RequestOK(req[p]) /\ req[p].pc = "logRead"
    BY DEF AccountsInv, RequestsOK, LoginRead, At
  <1>2. UNCHANGED <<users, revoked, quiet, suspensions, stale>> BY DEF LoginRead
  <1>3. CASE Return(p) BY <1>1, <1>2, <1>3, ReturnQuiet
  <1>4. CASE users[req[p].body.user].exists /\ Goto(p, "logIssue")
    <2>1. /\ Only(p) /\ req'[p].pc = "logIssue" /\ req'[p].body = req[p].body
      BY <1>1, <1>4, GotoForm DEF Points
    <2>2. RequestOK(req[p])' BY <1>1, <1>2, <1>4, <2>1 DEF RequestOK, Authenticated
    <2>3. Harmless(p) BY <2>1 DEF Harmless
    <2> QED BY <1>1, <1>2, <2>1, <2>2, <2>3, Quiet
  <1> QED BY <1>3, <1>4 DEF LoginRead, GetUserByEmail

\* The request's token, its account, and that the account exists.
LEMMA ActorOK ==
  ASSUME AccountsInv, NEW p \in Requests, req[p].pc \in Authenticated
  PROVE  /\ req[p].token \in 1..Len(tokens)
         /\ req[p].actor = tokens[req[p].token].user
         /\ req[p].actor \in Users /\ users[req[p].actor].exists
  <1>1. TypeOK /\ TokensOK /\ RequestOK(req[p]) BY DEF AccountsInv, RequestsOK
  <1>2. /\ req[p].token \in 1..Len(tokens)
        /\ req[p].actor = tokens[req[p].token].user
    BY <1>1 DEF RequestOK
  <1> QED BY <1>1, <1>2, TokenTyped DEF TokensOK, TokenOK

LEMMA UpdateProfileStep ==
  ASSUME AccountsInv, NEW p \in Requests, UpdateProfile(p)
  PROVE  AccountsInv'
  <1> DEFINE r == req[p]
  <1> DEFINE u == r.actor
  <1>1. TypeOK /\ RequestOK(req[p]) /\ AdminRemains
    BY DEF AccountsInv, RequestsOK
  <1>2. UNCHANGED <<revoked, quiet, suspensions, stale>> BY DEF UpdateProfile
  <1>3. CASE r.pc = "nameCheck" /\ r.body.name # NoName /\ Goto(p, "nameWrite") /\ UNCHANGED users
    <2>1. /\ Only(p) /\ req'[p].pc = "nameWrite" /\ req'[p].body = req[p].body
          /\ req'[p].token = req[p].token /\ req'[p].actor = req[p].actor
      BY <1>1, <1>3, GotoForm DEF Points
    <2>2. RequestOK(req[p])' BY <1>1, <1>2, <1>3, <2>1 DEF RequestOK, Authenticated, quiet
    <2>3. Harmless(p) BY <2>1 DEF Harmless
    <2> QED BY <1>2, <1>3, <2>1, <2>2, <2>3, Quiet
  <1>4. CASE r.pc # "revoke" /\ Return(p) /\ UNCHANGED users
    BY <1>2, <1>4, ReturnQuiet
  <1>5. CASE r.pc = "nameWrite" /\ Return(p) /\ users' = [users EXCEPT ![u].name = r.body.name]
    <2>1. u \in Users BY <1>5, ActorOK DEF Authenticated
    <2>2. users \in [Users -> Account] BY <1>1 DEF TypeOK
    <2>3. r.body.name \in Names \cup {NoName} /\ r.body.name # NoName
      BY <1>1, <1>5, Typed DEF RequestOK
    <2> DEFINE n == r.body.name
    <2> HIDE DEF n, u
    <2> DEFINE row == [users[u] EXCEPT !.name = n]
    <2>4. /\ row \in Account /\ row.exists = users[u].exists /\ row.name = n
          /\ row.invalidated = users[u].invalidated /\ row.role = users[u].role
          /\ row.suspended = users[u].suspended
      BY <2>1, <2>2, <2>3 DEF Account, n
    <2>5. users' = [users EXCEPT ![u] = row] BY <1>5, <2>1, <2>2 DEF n, u
    <2>6. n # NoName BY <2>3 DEF n
    <2> HIDE DEF row
    <2>7. /\ UsersKept /\ users'[u] = row
          /\ \A v \in Users : v # u => users'[v] = users[v]
      BY <2>1, <2>4, <2>5, <2>6, RowKept
    <2>8. AdminRemains' BY <1>1, <1>2, <2>4, <2>7 DEF AdminRemains
    <2>9. Only(p) /\ req'[p].pc = "idle" /\ RequestOK(req[p])' BY <1>1, <1>5, ReturnForm
    <2>10. Harmless(p) BY <2>9 DEF Harmless
    <2>11. stale' \in BOOLEAN BY <1>1, <1>2 DEF TypeOK
    <2> QED BY <1>2, <1>5, <2>7, <2>8, <2>9, <2>10, <2>11, UserStep
  <1> QED BY <1>3, <1>4, <1>5 DEF UpdateProfile, UpdateUserProfile, At

LEMMA ChangePasswordStep ==
  ASSUME AccountsInv, NEW p \in Requests, ChangePassword(p)
  PROVE  AccountsInv'
  <1> DEFINE u == req[p].actor
  <1>1. TypeOK /\ RequestOK(req[p]) /\ AdminRemains
    BY DEF AccountsInv, RequestsOK
  <1>2. UNCHANGED <<revoked, quiet, suspensions, stale>> BY DEF ChangePassword
  <1>3. CASE req[p].pc = "passRead" /\ Goto(p, "passWrite") /\ UNCHANGED users
    <2>1. /\ Only(p) /\ req'[p].pc = "passWrite" /\ req'[p].body = req[p].body
          /\ req'[p].token = req[p].token /\ req'[p].actor = req[p].actor
      BY <1>1, <1>3, GotoForm DEF Points
    <2>2. RequestOK(req[p])' BY <1>1, <1>2, <1>3, <2>1 DEF RequestOK, Authenticated, quiet
    <2>3. Harmless(p) BY <2>1 DEF Harmless
    <2> QED BY <1>2, <1>3, <2>1, <2>2, <2>3, Quiet
  <1>4. CASE req[p].pc = "passWrite" /\ Return(p) /\ UpdateUserPassword(u)
    <2>1. u \in Users BY <1>4, ActorOK DEF Authenticated
    <2>2. users \in [Users -> Account] BY <1>1 DEF TypeOK
    <2> HIDE DEF u
    <2> DEFINE row == [users[u] EXCEPT !.password = 3 - @]
    <2>3. 3 - users[u].password \in 1..2
      BY <2>1, <2>2 DEF Account
    <2>4. /\ row \in Account /\ row.exists = users[u].exists /\ row.name = users[u].name
          /\ row.invalidated = users[u].invalidated /\ row.role = users[u].role
          /\ row.suspended = users[u].suspended
      BY <2>1, <2>2, <2>3 DEF Account
    <2>5. users' = [users EXCEPT ![u] = row] BY <1>4, <2>1, <2>2 DEF UpdateUserPassword, u
    <2>6. users[u].exists => users[u].name # NoName BY <1>1, <2>1 DEF TypeOK
    <2> HIDE DEF row
    <2>7. /\ UsersKept /\ users'[u] = row
          /\ \A v \in Users : v # u => users'[v] = users[v]
      BY <2>1, <2>4, <2>5, <2>6, RowKept
    <2>8. AdminRemains' BY <1>1, <1>2, <2>4, <2>7 DEF AdminRemains
    <2>9. Only(p) /\ req'[p].pc = "idle" /\ RequestOK(req[p])' BY <1>1, <1>4, ReturnForm
    <2>10. Harmless(p) BY <2>9 DEF Harmless
    <2>11. stale' \in BOOLEAN BY <1>1, <1>2 DEF TypeOK
    <2> QED BY <1>2, <1>4, <2>7, <2>8, <2>9, <2>10, <2>11, UserStep
  <1> QED BY <1>3, <1>4 DEF ChangePassword, At

-----------------------------------------------------------------------------
(* Administrators.                                                         *)

LEMMA RequirePlatformWriteStep ==
  ASSUME AccountsInv, NEW p \in Requests, RequirePlatformWrite(p)
  PROVE  AccountsInv'
  <1>1. TypeOK /\ RequestOK(req[p]) /\ req[p].pc = "platform"
    BY DEF AccountsInv, RequestsOK, RequirePlatformWrite, At
  <1>2. UNCHANGED <<users, revoked, quiet, suspensions, stale>> BY DEF RequirePlatformWrite
  <1>3. CASE Return(p) BY <1>1, <1>2, <1>3, ReturnQuiet
  <1>4. ASSUME NEW to \in {"get", "settings"}, to = "get" => req[p].body.kind = "update",
               Goto(p, to)
        PROVE  AccountsInv'
    <2>1. /\ Only(p) /\ req'[p].pc = to /\ req'[p].body = req[p].body
          /\ req'[p].token = req[p].token /\ req'[p].actor = req[p].actor
      <3>1. to \in Points BY DEF Points
      <3> QED BY <1>1, <1>4, <3>1, GotoForm
    <2>2. RequestOK(req[p])' BY <1>1, <1>2, <1>4, <2>1 DEF RequestOK, Authenticated, quiet
    <2>3. Harmless(p) BY <2>1 DEF Harmless
    <2> QED BY <1>1, <1>2, <2>1, <2>2, <2>3, Quiet
  <1>5. \/ Return(p)
        \/ Goto(p, IF req[p].body.kind = "update" THEN "get" ELSE "settings")
    BY DEF RequirePlatformWrite
  <1> QED BY <1>3, <1>4, <1>5

LEMMA GetUserAdminStep ==
  ASSUME AccountsInv, NEW p \in Requests, GetUserAdmin(p)
  PROVE  AccountsInv'
  <1>1. TypeOK /\ RequestOK(req[p]) /\ req[p].pc = "get"
    BY DEF AccountsInv, RequestsOK, GetUserAdmin, At
  <1>2. UNCHANGED <<users, revoked, quiet, suspensions, stale>> BY DEF GetUserAdmin
  <1>3. CASE Return(p) BY <1>1, <1>2, <1>3, ReturnQuiet
  <1>4. ASSUME NEW to \in {"suspend", "role"}, users[req[p].body.user].exists, Goto(p, to)
        PROVE  AccountsInv'
    <2>1. /\ Only(p) /\ req'[p].pc = to /\ req'[p].body = req[p].body
          /\ req'[p].token = req[p].token /\ req'[p].actor = req[p].actor
      <3>1. to \in Points BY DEF Points
      <3> QED BY <1>1, <1>4, <3>1, GotoForm
    <2>2. RequestOK(req[p])' BY <1>1, <1>2, <1>4, <2>1 DEF RequestOK, Authenticated, quiet
    <2>3. Harmless(p) BY <2>1 DEF Harmless
    <2> QED BY <1>1, <1>2, <2>1, <2>2, <2>3, Quiet
  <1>5. \/ Return(p)
        \/ /\ users[req[p].body.user].exists
           /\ Goto(p, IF req[p].body.role = "" THEN "suspend" ELSE "role")
    BY DEF GetUserAdmin
  <1> QED BY <1>3, <1>4, <1>5

\* One who is still an administrator remains one.
LEMMA ActorRemains ==
  ASSUME AccountsInv, NEW p \in Requests, req[p].pc \in {"role", "suspend"}, Stale(p),
         users'[req[p].actor].exists,
         ~stale' => users'[req[p].actor].role = "admin" /\ ~users'[req[p].actor].suspended
  PROVE  AdminRemains' /\ stale' \in BOOLEAN
  <1>1. req[p].actor \in Users BY ActorOK DEF Authenticated
  <1>2. stale' \in BOOLEAN BY DEF AccountsInv, TypeOK, Stale
  <1> QED BY <1>1, <1>2 DEF AdminRemains

LEMMA UpdateRoleStep ==
  ASSUME AccountsInv, NEW p \in Requests, UpdateRole(p)
  PROVE  AccountsInv'
  <1> DEFINE r == req[p]
  <1> DEFINE u == r.body.user
  <1>1. TypeOK /\ RequestOK(req[p]) /\ r.pc = "role"
    BY DEF AccountsInv, RequestsOK, UpdateRole, At
  <1>2. UNCHANGED <<revoked, quiet, suspensions>> BY DEF UpdateRole
  <1>3. CASE Return(p) /\ UNCHANGED <<users, stale>>
    BY <1>1, <1>2, <1>3, ReturnQuiet
  <1>4. CASE /\ IsValidRole(r.body.role) /\ ~(u = r.actor /\ r.body.role # "admin")
             /\ UpdateUserPlatformRole(u, r.body.role) /\ Stale(p)
             /\ Return(p) \/ Goto(p, "suspend")
    <2>1. u \in Users BY <1>1, Subject
    <2>2. users \in [Users -> Account] BY <1>1 DEF TypeOK
    <2>3. r.body.role \in Roles
      BY <1>4 DEF IsValidRole, RoleRank, Roles
    <2>4. users[u].exists BY <1>1 DEF RequestOK
    <2> DEFINE row == [users[u] EXCEPT !.role = r.body.role]
    <2>5. /\ row \in Account /\ row.exists = users[u].exists /\ row.name = users[u].name
          /\ row.invalidated = users[u].invalidated /\ row.role = r.body.role
          /\ row.suspended = users[u].suspended
      <3> DEFINE n == r.body.role
      <3>1. n \in Roles BY <2>3
      <3> HIDE DEF n
      <3>2. row = [users[u] EXCEPT !.role = n] BY DEF n
      <3> QED BY <2>1, <2>2, <3>1, <3>2 DEF Account, n
    <2>6. users' = [users EXCEPT ![u] = row]
      BY <1>4, <2>1, <2>2 DEF UpdateUserPlatformRole
    <2>7. users[u].exists => users[u].name # NoName BY <1>1, <2>1 DEF TypeOK
    <2> HIDE DEF row
    <2>8. /\ UsersKept /\ users'[u] = row
          /\ \A v \in Users : v # u => users'[v] = users[v]
      BY <2>1, <2>5, <2>6, <2>7, RowKept
    <2>9. r.actor \in Users /\ users[r.actor].exists
      BY <1>1, ActorOK DEF Authenticated
    <2>10. users'[r.actor].exists
      BY <2>8, <2>9 DEF UsersKept
    <2>11. ~stale' => users[r.actor].role = "admin" /\ ~users[r.actor].suspended
      BY <1>4 DEF Stale
    <2>12. ~stale' => users'[r.actor].role = "admin" /\ ~users'[r.actor].suspended
      <3>1. CASE r.actor = u BY <1>4, <2>5, <2>8, <2>11, <3>1
      <3>2. CASE r.actor # u BY <2>8, <2>9, <2>11, <3>2
      <3> QED BY <3>1, <3>2
    <2>13. AdminRemains' /\ stale' \in BOOLEAN
      BY <1>1, <1>4, <2>10, <2>12, ActorRemains
    <2>14. /\ Only(p) /\ RequestOK(req[p])' /\ Harmless(p)
      <3>1. CASE Return(p)
        <4>1. Only(p) /\ req'[p].pc = "idle" /\ RequestOK(req[p])' BY <1>1, <3>1, ReturnForm
        <4> QED BY <4>1 DEF Harmless
      <3>2. CASE Goto(p, "suspend")
        <4>1. /\ Only(p) /\ req'[p].pc = "suspend" /\ req'[p].body = req[p].body
              /\ req'[p].token = req[p].token /\ req'[p].actor = req[p].actor
          BY <1>1, <3>2, GotoForm DEF Points
        <4>2. users'[req[p].body.user].exists
          BY <2>4, <2>5, <2>8
        <4>3. RequestOK(req[p])' BY <1>1, <1>2, <4>1, <4>2 DEF RequestOK, Authenticated, quiet
        <4> QED BY <4>1, <4>3 DEF Harmless
      <3> QED BY <1>4, <3>1, <3>2
    <2> QED BY <1>1, <1>2, <2>8, <2>13, <2>14, UserStep
  <1> QED BY <1>3, <1>4 DEF UpdateRole

LEMMA UpdateSuspensionOff ==
  ASSUME AccountsInv, NEW p \in Requests, req[p].pc = "suspend", Stale(p),
         UnsuspendUser(req[p].body.user), UNCHANGED <<revoked, quiet, suspensions>>, Return(p)
  PROVE  AccountsInv'
  <1> DEFINE u == req[p].body.user
  <1>1. TypeOK /\ RequestOK(req[p])
    BY DEF AccountsInv, RequestsOK
  <1>2. u \in Users BY <1>1, Subject
  <1>3. users \in [Users -> Account] BY <1>1 DEF TypeOK
  <1> DEFINE row == [users[u] EXCEPT !.suspended = FALSE]
  <1>4. /\ row \in Account /\ row.exists = users[u].exists /\ row.name = users[u].name
        /\ row.invalidated = users[u].invalidated /\ row.role = users[u].role
        /\ row.suspended = FALSE
    <2>1. users[u] \in Account BY <1>2, <1>3
    <2> HIDE DEF u
    <2> QED BY <2>1 DEF Account
  <1>5. users' = [users EXCEPT ![u] = row]
    BY <1>2, <1>3 DEF UnsuspendUser
  <1>6. users[u].exists => users[u].name # NoName BY <1>1, <1>2 DEF TypeOK
  <1> HIDE DEF row
  <1>7. /\ UsersKept /\ users'[u] = row
        /\ \A v \in Users : v # u => users'[v] = users[v]
    BY <1>2, <1>4, <1>5, <1>6, RowKept
  <1>8. req[p].actor \in Users /\ users[req[p].actor].exists
    BY ActorOK DEF Authenticated
  <1>9. users'[req[p].actor].exists
    BY <1>7, <1>8 DEF UsersKept
  <1>10. ~stale' => users'[req[p].actor].role = "admin" /\ ~users'[req[p].actor].suspended
    <2>1. ~stale' => users[req[p].actor].role = "admin" /\ ~users[req[p].actor].suspended
      BY DEF Stale
    <2> QED BY <1>4, <1>7, <1>8, <2>1
  <1>11. AdminRemains' /\ stale' \in BOOLEAN
    BY <1>9, <1>10, ActorRemains
  <1>12. Only(p) /\ req'[p].pc = "idle" /\ RequestOK(req[p])' BY <1>1, ReturnForm
  <1>13. Harmless(p) BY <1>12 DEF Harmless
  <1> QED BY <1>7, <1>11, <1>12, <1>13, UserStep

\* A suspension is later than every token there is.
LEMMA UpdateSuspensionOn ==
  ASSUME AccountsInv, NEW p \in Requests, req[p].pc = "suspend", Stale(p),
         req[p].body.user # req[p].actor,
         Clock, SuspendUser(req[p].body.user),
         suspensions' = [suspensions EXCEPT ![req[p].body.user] = @ + 1],
         UNCHANGED <<revoked, maintenance, tokens, begun, unrevoked, served>>, Return(p)
  PROVE  AccountsInv'
  <1> DEFINE u == req[p].body.user
  <1>1. /\ TypeOK /\ RequestsOK /\ TokensOK /\ UsersOK /\ SessionsOK /\ RefreshOK /\ LaneKept
        /\ RequestOK(req[p])
    BY DEF AccountsInv, RequestsOK
  <1>2. u \in Users BY <1>1, Subject
  <1>3. users \in [Users -> Account] /\ suspensions \in [Users -> Nat]
    BY <1>1 DEF TypeOK
  <1>4. now \in Nat /\ now' = now + 1 /\ now' \in 0..MaxTime
    BY <1>1, BoundsTyped DEF TypeOK, Clock
  <1> DEFINE row == [users[u] EXCEPT !.suspended = TRUE, !.invalidated = now]
  <1>5. /\ row \in Account /\ row.exists = users[u].exists /\ row.name = users[u].name
        /\ row.invalidated = now
    BY <1>2, <1>3, <1>4 DEF Account
  <1>6. users' = [users EXCEPT ![u] = row]
    BY <1>2, <1>3 DEF SuspendUser
  <1> HIDE DEF row
  <1>7. /\ users' \in [Users -> Account] /\ users'[u] = row
        /\ \A v \in Users : v # u => users'[v] = users[v]
    BY <1>2, <1>3, <1>5, <1>6
  <1>8. /\ suspensions' \in [Users -> Nat]
        /\ \A v \in Users : v # u => suspensions'[v] = suspensions[v]
    BY <1>2, <1>3
  <1>9. users[u].exists /\ \A v \in Users : users[v].exists => users'[v].exists
    BY <1>1, <1>5, <1>7 DEF RequestOK
  <1>10. AdminRemains' /\ stale' \in BOOLEAN
    <2>1. req[p].actor \in Users /\ users[req[p].actor].exists
      BY ActorOK DEF Authenticated
    <2>2. ~stale' => users[req[p].actor].role = "admin" /\ ~users[req[p].actor].suspended
      BY DEF Stale
    <2>3. users'[req[p].actor] = users[req[p].actor]
      BY <1>7, <2>1
    <2> QED BY <2>1, <2>2, <2>3, ActorRemains
  <1>11. Only(p) /\ req'[p].pc = "idle" /\ RequestOK(req[p])' BY <1>1, ReturnForm
  <1>12. \A v \in Users : users'[v].exists => users'[v].name # NoName
    BY <1>1, <1>5, <1>7 DEF TypeOK
  <1>13. TypeOK'
    BY <1>1, <1>4, <1>7, <1>8, <1>10, <1>11, <1>12 DEF TypeOK, Only
  <1>14. Grow
    BY <1>1, <1>9, Lengths DEF Grow
  <1>15. RequestsOK' BY <1>1, <1>11, <1>13, <1>14, KeepRequests
  <1>16. TokensOK' BY <1>1, <1>4, <1>9, KeepTokens
  <1>17. UsersOK' BY <1>1, <1>5, <1>7, <1>9 DEF UsersOK
  <1>18. SessionsOK'
    <2> SUFFICES ASSUME NEW t \in 1..Len(tokens),
                        tokens[t].iat >= users'[tokens[t].user].invalidated
                 PROVE  tokens[t].epoch = suspensions'[tokens[t].user] \/ tokens[t].overlap
      BY DEF SessionsOK
    <2>1. tokens[t].user \in Users /\ tokens[t].iat \in Nat /\ tokens[t].iat < now
      BY <1>1, TokenTyped DEF TokensOK, TokenOK
    <2>2. tokens[t].user # u
      BY <1>4, <1>5, <1>7, <2>1
    <2> QED BY <1>1, <1>7, <1>8, <2>1, <2>2 DEF SessionsOK
  <1>19. RefreshOK'
    <2>1. Harmless(p) BY <1>11 DEF Harmless
    <2> QED BY <1>1, <1>11, <2>1, KeepRefresh
  <1>20. LaneKept' BY <1>1 DEF LaneKept
  <1> QED BY <1>10, <1>13, <1>15, <1>16, <1>17, <1>18, <1>19, <1>20 DEF AccountsInv

LEMMA UpdateSuspensionStep ==
  ASSUME AccountsInv, NEW p \in Requests, UpdateSuspension(p)
  PROVE  AccountsInv'
  <1> DEFINE r == req[p]
  <1>1. r.pc = "suspend" /\ Return(p) BY DEF UpdateSuspension, At
  <1>2. UNCHANGED <<revoked, maintenance, tokens, begun, unrevoked, served>>
    BY DEF UpdateSuspension
  <1>3. CASE UNCHANGED <<users, now, suspensions, stale>>
    BY <1>1, <1>2, <1>3, ReturnQuiet DEF quiet
  <1>4. CASE Stale(p) /\ UnsuspendUser(r.body.user) /\ UNCHANGED <<now, suspensions>>
    BY <1>1, <1>2, <1>4, UpdateSuspensionOff DEF quiet
  <1>5. CASE /\ Stale(p) /\ r.body.user # r.actor /\ Clock /\ SuspendUser(r.body.user)
             /\ suspensions' = [suspensions EXCEPT ![r.body.user] = @ + 1]
    BY <1>1, <1>2, <1>5, UpdateSuspensionOn
  <1> QED BY <1>3, <1>4, <1>5 DEF UpdateSuspension

LEMMA UpdatePlatformSettingsStep ==
  ASSUME AccountsInv, NEW p \in Requests, UpdatePlatformSettings(p)
  PROVE  AccountsInv'
  <1>1. TypeOK /\ AdminRemains /\ LaneKept BY DEF AccountsInv
  <1>2. /\ req[p].pc = "settings" /\ Return(p) /\ maintenance' = ~maintenance
        /\ UNCHANGED <<users, revoked, tokens, now, begun, observed>>
    BY DEF UpdatePlatformSettings, At, UpsertPlatformSetting
  <1>3. Only(p) /\ req'[p].pc = "idle" /\ RequestOK(req[p])' BY <1>1, <1>2, ReturnForm
  <1>4. Harmless(p) BY <1>3 DEF Harmless
  <1>5. UsersKept BY <1>1, <1>2 DEF TypeOK, UsersKept
  <1>6. UNCHANGED <<suspensions, unrevoked, stale, served>> BY <1>2 DEF observed
  <1>7. AdminRemains' /\ LaneKept' BY <1>1, <1>2, <1>6 DEF AdminRemains, LaneKept
  <1>8. maintenance' \in BOOLEAN BY <1>1, <1>2 DEF TypeOK
  <1>9. /\ begun' \in 0..MaxBegun /\ stale' \in BOOLEAN
        /\ served' \subseteq ((Lanes \cup {"none"}) \X Lanes)
    BY <1>1, <1>2, <1>6 DEF TypeOK
  <1> QED BY <1>2, <1>3, <1>4, <1>5, <1>6, <1>7, <1>8, <1>9, Step

\* A session of an app is in the lane it began in.
LEMMA EmbedWorkspaceGuardStep ==
  ASSUME AccountsInv, NEW p \in Requests, EmbedWorkspaceGuard(p)
  PROVE  AccountsInv'
  <1> DEFINE t == tokens[req[p].token]
  <1> DEFINE lane == req[p].body.lane
  <1>1. TypeOK /\ AdminRemains /\ LaneKept /\ TokensOK BY DEF AccountsInv
  <1>2. /\ req[p].pc = "guard" /\ Return(p)
        /\ UNCHANGED <<users, revoked, maintenance, tokens, now, begun, suspensions, unrevoked,
                       stale>>
        /\ served' = IF t.lane \in {"none", lane} THEN served \cup {<<t.first, lane>>} ELSE served
    BY DEF EmbedWorkspaceGuard, At
  <1>3. req[p].token \in 1..Len(tokens) BY <1>2, ActorOK DEF Authenticated
  <1>4. t.first = t.lane /\ t.first \in Lanes \cup {"none"} /\ lane \in Lanes
    BY <1>1, <1>3, TokenTyped, Typed DEF TokensOK, TokenOK
  <1>5. Only(p) /\ req'[p].pc = "idle" /\ RequestOK(req[p])' BY <1>1, <1>2, ReturnForm
  <1>6. Harmless(p) BY <1>5 DEF Harmless
  <1>7. UsersKept BY <1>1, <1>2 DEF TypeOK, UsersKept
  <1>8. AdminRemains' BY <1>1, <1>2 DEF AdminRemains
  <1> HIDE DEF t, lane
  <1>9. served' \subseteq ((Lanes \cup {"none"}) \X Lanes)
    BY <1>1, <1>2, <1>4 DEF TypeOK
  <1>10. LaneKept' BY <1>1, <1>2, <1>4 DEF LaneKept
  <1>11. maintenance' \in BOOLEAN /\ begun' \in 0..MaxBegun /\ stale' \in BOOLEAN
    BY <1>1, <1>2 DEF TypeOK
  <1> QED BY <1>2, <1>5, <1>6, <1>7, <1>8, <1>9, <1>10, <1>11, Step

-----------------------------------------------------------------------------
(* Tokens.                                                                 *)

\* A time is cut to a time that is no later.
LEMMA CutBelow ==
  ASSUME NEW n \in Nat
  PROVE  Cut(n) \in Nat /\ Cut(n) <= n
  <1> DEFINE d == n \div Second
  <1>1. Second \in Nat /\ Second > 0 BY BoundsTyped
  <1>2. d \in Nat /\ Second * d <= n
    BY <1>1
  <1> HIDE DEF d
  <1>3. d * Second = Second * d /\ d * Second \in Nat
    BY <1>1, <1>2
  <1> QED BY <1>2, <1>3 DEF Cut, d

LEMMA TokenBound ==
  ASSUME TypeOK
  PROVE  /\ revoked \subseteq 1..MaxTokens /\ unrevoked \subseteq 1..MaxTokens
         /\ \A t \in 1..Len(tokens) : t \in 1..MaxTokens
  <1>1. Len(tokens) \in Nat /\ Len(tokens) <= MaxTokens /\ MaxTokens \in Nat
    BY Lengths, BoundsTyped DEF TypeOK
  <1>2. \A t \in 1..Len(tokens) : t \in 1..MaxTokens BY <1>1
  <1> QED BY <1>2 DEF TypeOK

\* What a session's token carries over, of the token t that is refreshed.
Continues(u, lane, t, overlap) ==
  IF t = 0 THEN lane \in Lanes \cup {"none"}
  ELSE /\ t \in 1..Len(tokens) /\ lane = tokens[t].lane
       /\ tokens[t].epoch = suspensions[u] \/ overlap

\* All but the count of successors.
LEMMA Issue ==
  ASSUME AccountsInv, NEW p \in Requests, NEW u \in Users, users[u].exists,
         NEW lane, NEW t \in Nat, NEW overlap \in BOOLEAN,
         Continues(u, lane, t, overlap), GenerateToken(u, lane, t, overlap),
         Only(p), UNCHANGED <<users, revoked, maintenance, begun, observed>>
  PROVE  /\ TypeOK' /\ TokensOK' /\ UsersOK' /\ SessionsOK' /\ AdminRemains' /\ LaneKept' /\ Grow
         /\ Len(tokens') = Len(tokens) + 1 /\ tokens'[Len(tokens')].parent = t
  <1> DEFINE first == IF t = 0 THEN lane ELSE tokens[t].first
  <1> DEFINE epoch == IF t = 0 THEN suspensions[u] ELSE tokens[t].epoch
  <1> DEFINE row == [user |-> u, iat |-> Cut(now), exp |-> Cut(now + TTL), lane |-> lane,
                     parent |-> t, first |-> first, epoch |-> epoch, overlap |-> overlap]
  <1>1. TypeOK /\ TokensOK /\ UsersOK /\ SessionsOK /\ AdminRemains /\ LaneKept BY DEF AccountsInv
  <1>2. now \in Nat /\ now' = now + 1 /\ now' \in 0..MaxTime
    BY <1>1, BoundsTyped DEF TypeOK, GenerateToken, Clock
  <1>3. now + TTL \in Nat BY <1>2, BoundsTyped
  <1>4. Cut(now) \in Nat /\ Cut(now) <= now /\ Cut(now + TTL) \in Nat
    BY <1>2, <1>3, CutBelow
  <1>5. lane \in Lanes \cup {"none"} /\ first = lane
    BY <1>1, TokenTyped DEF Continues, TokensOK, TokenOK
  <1>6. epoch \in Nat
    <2>1. suspensions[u] \in Nat BY <1>1 DEF TypeOK
    <2> QED BY <1>1, <2>1, TokenTyped DEF Continues
  <1>7. epoch = suspensions[u] \/ overlap BY DEF Continues
  <1>8. tokens' = Append(tokens, row) /\ Len(tokens) < MaxTokens
    BY DEF GenerateToken
  <1>9. t \in 0..Len(tokens) BY <1>1, Lengths DEF Continues
  <1> HIDE DEF first, epoch
  <1>10. row \in Token BY <1>4, <1>5, <1>6 DEF Token
  <1>11. row.user = u /\ row.iat = Cut(now) /\ row.lane = lane /\ row.parent = t
         /\ row.first = first /\ row.epoch = epoch /\ row.overlap = overlap
    OBVIOUS
  <1> HIDE DEF row
  <1>12. Len(tokens) \in Nat BY <1>1, Lengths
  <1>13. tokens \in Seq(Token) /\ MaxTokens \in Nat
    BY <1>1, BoundsTyped DEF TypeOK
  <1>14. /\ tokens' \in Seq(Token) /\ Len(tokens') = Len(tokens) + 1
         /\ tokens'[Len(tokens) + 1] = row
         /\ \A s \in 1..Len(tokens) : tokens'[s] = tokens[s]
    BY <1>8, <1>10, <1>13
  <1>15. Len(tokens') <= MaxTokens
    BY <1>8, <1>12, <1>13, <1>14
  <1>16. UNCHANGED <<suspensions, unrevoked, stale, served>> BY DEF observed
  <1>17. TypeOK' BY <1>1, <1>2, <1>14, <1>15, <1>16 DEF TypeOK, Only
  <1>18. Grow BY <1>12, <1>14 DEF Grow
  <1>19. TokensOK'
    <2>1. ASSUME NEW s \in 1..Len(tokens') PROVE TokenOK(s)'
      <3>1. CASE s \in 1..Len(tokens)
        <4>1. TokenOK(s) /\ tokens'[s] = tokens[s] BY <1>1, <1>14, <3>1 DEF TokensOK
        <4>2. tokens[s].iat \in Nat BY <1>1, <3>1, TokenTyped
        <4>3. tokens[s].parent \in 0..Len(tokens') BY <1>12, <1>14, <4>1 DEF TokenOK
        <4> QED BY <1>2, <4>1, <4>2, <4>3 DEF TokenOK
      <3>2. CASE s \notin 1..Len(tokens)
        <4>1. s = Len(tokens) + 1 BY <1>12, <1>14, <3>2
        <4>2. tokens'[s] = row BY <1>14, <4>1
        <4>3. t \in 0..Len(tokens') BY <1>9, <1>12, <1>14
        <4>4. row.iat < now' BY <1>2, <1>4, <1>11
        <4> QED BY <1>5, <1>11, <4>2, <4>3, <4>4 DEF TokenOK
      <3> QED BY <3>1, <3>2
    <2>2. revoked' \subseteq 1..Len(tokens')
      BY <1>1, <1>12, <1>14 DEF TokensOK
    <2> QED BY <2>1, <2>2 DEF TokensOK
  <1>20. UsersOK' BY <1>1 DEF UsersOK
  <1>21. SessionsOK'
    <2> SUFFICES ASSUME NEW s \in 1..Len(tokens'),
                        tokens'[s].iat >= users[tokens'[s].user].invalidated
                 PROVE  tokens'[s].epoch = suspensions[tokens'[s].user] \/ tokens'[s].overlap
      BY <1>16 DEF SessionsOK
    <2>1. CASE s \in 1..Len(tokens)
      BY <1>1, <1>14, <2>1 DEF SessionsOK
    <2>2. CASE s \notin 1..Len(tokens)
      <3>1. s = Len(tokens) + 1 BY <1>12, <1>14, <2>2
      <3> QED BY <1>7, <1>11, <1>14, <3>1
    <2> QED BY <2>1, <2>2
  <1>22. AdminRemains' /\ LaneKept'
    BY <1>1, <1>16 DEF AdminRemains, LaneKept
  <1> QED BY <1>11, <1>14, <1>17, <1>18, <1>19, <1>20, <1>21, <1>22

LEMMA LoginStep ==
  ASSUME AccountsInv, NEW p \in Requests, Login(p)
  PROVE  AccountsInv'
  <1> DEFINE u == req[p].body.user
  <1>1. TypeOK /\ RequestOK(req[p]) /\ req[p].pc = "logIssue" /\ RequestsOK /\ TokensOK /\ RefreshOK
    BY DEF AccountsInv, RequestsOK, Login, At
  <1>2. /\ GenerateToken(u, "none", 0, FALSE) /\ Goto(p, "promote")
        /\ UNCHANGED <<users, revoked, maintenance, begun, observed>>
    BY DEF Login
  <1>3. u \in Users /\ users[u].exists
    BY <1>1, Subject DEF RequestOK
  <1>4. /\ Only(p) /\ req'[p].pc = "promote" /\ req'[p].body = req[p].body
        /\ req'[p].token = req[p].token /\ req'[p].actor = req[p].actor
    BY <1>1, <1>2, GotoForm DEF Points
  <1>5. Continues(u, "none", 0, FALSE) BY DEF Continues
  <1>6. /\ TypeOK' /\ TokensOK' /\ UsersOK' /\ SessionsOK' /\ AdminRemains' /\ LaneKept' /\ Grow
        /\ Len(tokens') = Len(tokens) + 1 /\ tokens'[Len(tokens')].parent = 0
    BY <1>2, <1>3, <1>4, <1>5, Issue
  <1>7. RequestOK(req[p])' BY <1>1, <1>4 DEF RequestOK, Authenticated
  <1>8. RequestsOK' BY <1>1, <1>4, <1>6, <1>7, KeepRequests
  <1>9. RefreshOK'
    <2> SUFFICES ASSUME NEW s \in 1..Len(tokens'), s \notin unrevoked
                 PROVE  IF s \in revoked
                        THEN Cardinality(Successors(s)') + Cardinality(Pending(s)')
                               <= Cardinality(Requests)
                        ELSE Cardinality(Successors(s)') <= Cardinality(Revoking(s)')
      BY <1>2 DEF RefreshOK, observed
    <2>1. Len(tokens) \in Nat BY <1>1, Lengths
    <2>2. Pending(s)' = Pending(s) /\ Revoking(s)' = Revoking(s)
      BY <1>1, <1>4 DEF Only, Pending, Revoking
    <2>3. Successors(s)' = Successors(s)
      BY <1>6, <2>1 DEF Successors, Grow
    <2>4. CASE s \in 1..Len(tokens)
      BY <1>1, <2>2, <2>3, <2>4 DEF RefreshOK
    <2>5. CASE s \notin 1..Len(tokens)
      <3>1. s > Len(tokens) /\ s \notin revoked
        BY <1>1, <2>1, <2>5 DEF TokensOK
      <3>2. Successors(s) = {}
        BY <1>1, <2>1, <3>1 DEF Successors, TokensOK, TokenOK
      <3>3. Revoking(s) \in SUBSET Requests BY DEF Revoking
      <3> QED BY <2>2, <2>3, <3>1, <3>2, <3>3, FS_EmptySet, RequestSets
    <2> QED BY <2>4, <2>5
  <1> QED BY <1>6, <1>8, <1>9 DEF AccountsInv

\* One more token of t, which the request that issued it is about to revoke.
LEMMA RefreshStep ==
  ASSUME AccountsInv, NEW p \in Requests, Refresh(p)
  PROVE  AccountsInv'
  <1> DEFINE t == req[p].token
  <1> DEFINE u == tokens[t].user
  <1> DEFINE overlap == tokens[t].overlap \/ suspensions[u] # req[p].seen
  <1>1. TypeOK /\ RequestOK(req[p]) /\ req[p].pc = "issue" /\ RequestsOK /\ TokensOK /\ RefreshOK
    BY DEF AccountsInv, RequestsOK, Refresh, At
  <1>2. /\ GenerateToken(u, tokens[t].lane, t, overlap) /\ Goto(p, "revoke")
        /\ UNCHANGED <<users, revoked, maintenance, begun, observed>>
    BY DEF Refresh
  <1>3. t \in 1..Len(tokens) /\ u \in Users /\ users[u].exists /\ tokens[t].overlap \in BOOLEAN
    <2>1. t \in 1..Len(tokens) BY <1>1, ActorOK DEF Authenticated
    <2> QED BY <1>1, <2>1, TokenTyped DEF TokensOK, TokenOK
  <1>4. /\ Only(p) /\ req'[p].pc = "revoke" /\ req'[p].body = req[p].body
        /\ req'[p].token = req[p].token /\ req'[p].actor = req[p].actor
    BY <1>1, <1>2, GotoForm DEF Points
  <1>5. t \in Nat /\ t # 0 BY <1>1, <1>3, Lengths
  <1>6. overlap \in BOOLEAN BY <1>3
  <1>7. tokens[t].epoch = suspensions[u] \/ overlap
    BY <1>1 DEF RequestOK
  <1>8. Continues(u, tokens[t].lane, t, overlap) BY <1>3, <1>5, <1>7 DEF Continues
  <1> HIDE DEF overlap
  <1>9. /\ TypeOK' /\ TokensOK' /\ UsersOK' /\ SessionsOK' /\ AdminRemains' /\ LaneKept' /\ Grow
        /\ Len(tokens') = Len(tokens) + 1 /\ tokens'[Len(tokens')].parent = t
    BY <1>2, <1>3, <1>4, <1>5, <1>6, <1>8, Issue
  <1>10. Len(tokens) \in Nat BY <1>1, Lengths
  <1>11. t \in 1..Len(tokens') /\ tokens'[t] = tokens[t]
    BY <1>3, <1>9, <1>10 DEF Grow
  <1>12. RequestOK(req[p])'
    BY <1>1, <1>4, <1>11 DEF RequestOK, Authenticated
  <1>13. RequestsOK' BY <1>1, <1>4, <1>9, <1>12, KeepRequests
  <1>14. RefreshOK'
    <2> SUFFICES ASSUME NEW s \in 1..Len(tokens'), s \notin unrevoked
                 PROVE  IF s \in revoked
                        THEN Cardinality(Successors(s)') + Cardinality(Pending(s)')
                               <= Cardinality(Requests)
                        ELSE Cardinality(Successors(s)') <= Cardinality(Revoking(s)')
      BY <1>2 DEF RefreshOK, observed
    <2>1. CASE s = t
      <3> DEFINE n == Len(tokens')
      <3>1. n \notin Successors(s) BY <1>9, <1>10 DEF Successors
      <3>2. Successors(s)' = Successors(s) \cup {n}
        <4>1. 1..Len(tokens') = 1..Len(tokens) \cup {n} /\ tokens'[n].parent = s
          BY <1>9, <1>10, <2>1
        <4>2. \A r \in 1..Len(tokens) : tokens'[r] = tokens[r]
          BY <1>9 DEF Grow
        <4> QED BY <4>1, <4>2 DEF Successors
      <3>3. /\ Cardinality(Successors(s)') = Cardinality(Successors(s)) + 1
            /\ Cardinality(Successors(s)) \in Nat
        BY <1>1, <3>1, <3>2, SuccessorSets, FS_AddElement
      <3>4. CASE s \in revoked
        <4>1. req[p].body.kind = "refresh" BY <1>1 DEF RequestOK
        <4>2. p \in Pending(s) /\ Pending(s)' = Pending(s) \ {p}
          BY <1>1, <1>4, <2>1, <4>1 DEF Pending, Only
        <4>3. Pending(s) \in SUBSET Requests BY DEF Pending
        <4>4. /\ Cardinality(Pending(s)') = Cardinality(Pending(s)) - 1
              /\ Cardinality(Pending(s)) \in Nat /\ Cardinality(Requests) \in Nat
          BY <4>2, <4>3, RequestSets, FS_RemoveElement
        <4>5. Cardinality(Successors(s)) + Cardinality(Pending(s)) <= Cardinality(Requests)
          BY <1>1, <1>3, <2>1, <3>4 DEF RefreshOK
        <4> QED BY <1>2, <3>3, <3>4, <4>4, <4>5
      <3>5. CASE s \notin revoked
        <4>1. p \notin Revoking(s) /\ Revoking(s)' = Revoking(s) \cup {p}
          BY <1>1, <1>4, <2>1 DEF Revoking, Only
        <4>2. Revoking(s) \in SUBSET Requests BY DEF Revoking
        <4>3. /\ Cardinality(Revoking(s)') = Cardinality(Revoking(s)) + 1
              /\ Cardinality(Revoking(s)) \in Nat
          BY <4>1, <4>2, RequestSets, FS_AddElement
        <4>4. Cardinality(Successors(s)) <= Cardinality(Revoking(s))
          BY <1>1, <1>3, <2>1, <3>5 DEF RefreshOK
        <4> QED BY <1>2, <3>3, <3>5, <4>3, <4>4
      <3> QED BY <3>4, <3>5
    <2>2. CASE s # t
      <3>1. Pending(s)' = Pending(s) /\ Revoking(s)' = Revoking(s)
        BY <1>4, <2>2 DEF Only, Pending, Revoking
      <3>2. Successors(s)' = Successors(s)
        BY <1>9, <1>10, <2>2 DEF Successors, Grow
      <3>3. CASE s \in 1..Len(tokens)
        BY <1>1, <3>1, <3>2, <3>3 DEF RefreshOK
      <3>4. CASE s \notin 1..Len(tokens)
        <4>1. s > Len(tokens) /\ s \notin revoked
          BY <1>1, <1>10, <3>4 DEF TokensOK
        <4>2. Successors(s) = {}
          BY <1>1, <1>10, <4>1 DEF Successors, TokensOK, TokenOK
        <4>3. Revoking(s) \in SUBSET Requests BY DEF Revoking
        <4> QED BY <3>1, <3>2, <4>1, <4>2, <4>3, FS_EmptySet, RequestSets
      <3> QED BY <3>3, <3>4
    <2> QED BY <2>1, <2>2
  <1> QED BY <1>9, <1>13, <1>14 DEF AccountsInv

\* Once a token is revoked, only the refreshes that had looked before go on.
LEMMA RevokeOldStep ==
  ASSUME AccountsInv, NEW p \in Requests, RevokeOld(p)
  PROVE  AccountsInv'
  <1> DEFINE t == req[p].token
  <1>1. /\ TypeOK /\ RequestsOK /\ TokensOK /\ UsersOK /\ SessionsOK /\ RefreshOK /\ LaneKept
        /\ AdminRemains /\ req[p].pc = "revoke"
    BY DEF AccountsInv, RevokeOld, At
  <1>2. revoked' = revoked \cup {t} /\ Return(p) /\ UNCHANGED <<users, quiet, suspensions, stale>>
    BY DEF RevokeOld, RevokeToken
  <1>3. Only(p) /\ req'[p].pc = "idle" /\ RequestOK(req[p])' BY <1>1, <1>2, ReturnForm
  <1>4. t \in 1..Len(tokens) BY <1>1, ActorOK DEF Authenticated
  <1>5. UNCHANGED <<maintenance, tokens, now, begun, unrevoked, served>> BY <1>2 DEF quiet
  <1>6. revoked' \subseteq 1..MaxTokens
    BY <1>1, <1>2, <1>4, TokenBound
  <1>7. TypeOK' BY <1>1, <1>2, <1>3, <1>5, <1>6 DEF TypeOK, Only
  <1>8. Grow BY <1>1, <1>2, <1>5, Lengths DEF Grow
  <1>9. RequestsOK' BY <1>1, <1>3, <1>7, <1>8, KeepRequests
  <1>10. TokensOK' BY <1>1, <1>2, <1>4, <1>5 DEF TokensOK, TokenOK
  <1>11. UsersOK' /\ SessionsOK' /\ AdminRemains' /\ LaneKept'
    BY <1>1, <1>2, <1>5 DEF UsersOK, SessionsOK, AdminRemains, LaneKept
  <1>12. RefreshOK'
    <2> SUFFICES ASSUME NEW s \in 1..Len(tokens), s \notin unrevoked
                 PROVE  IF s \in revoked'
                        THEN Cardinality(Successors(s)) + Cardinality(Pending(s)')
                               <= Cardinality(Requests)
                        ELSE Cardinality(Successors(s)) <= Cardinality(Revoking(s)')
      BY <1>5 DEF RefreshOK, Successors
    <2>1. Pending(s)' = Pending(s)
      BY <1>1, <1>3 DEF Pending, Only
    <2>2. CASE s = t /\ s \notin revoked
      <3>1. Cardinality(Successors(s)) <= Cardinality(Revoking(s))
        BY <1>1, <2>2 DEF RefreshOK
      <3>2. /\ Revoking(s) \in SUBSET Requests /\ Pending(s) \in SUBSET Requests
            /\ Revoking(s) \cup Pending(s) \in SUBSET Requests
            /\ Revoking(s) \cap Pending(s) = {}
        BY DEF Revoking, Pending
      <3>3. /\ IsFiniteSet(Revoking(s)) /\ Cardinality(Revoking(s)) \in Nat
            /\ IsFiniteSet(Pending(s)) /\ Cardinality(Pending(s)) \in Nat
            /\ Cardinality(Revoking(s) \cup Pending(s)) <= Cardinality(Requests)
            /\ Cardinality(Requests) \in Nat
        BY <3>2, RequestSets
      <3>4. Cardinality(Revoking(s) \cup Pending(s))
              = Cardinality(Revoking(s)) + Cardinality(Pending(s))
        <4>1. Cardinality(Revoking(s) \cap Pending(s)) = 0
          BY <3>2, FS_EmptySet
        <4>2. Cardinality(Revoking(s) \cup Pending(s))
                = Cardinality(Revoking(s)) + Cardinality(Pending(s))
                    - Cardinality(Revoking(s) \cap Pending(s))
          BY <3>3, FS_Union
        <4> QED BY <3>3, <4>1, <4>2
      <3>5. Cardinality(Successors(s)) \in Nat BY <1>1, SuccessorSets
      <3> QED BY <1>2, <2>1, <2>2, <3>1, <3>3, <3>4, <3>5
    <2>3. CASE s \in revoked
      BY <1>1, <1>2, <2>1, <2>3 DEF RefreshOK
    <2>4. CASE s # t /\ s \notin revoked
      <3>1. Revoking(s)' = Revoking(s)
        BY <1>1, <1>3, <2>4 DEF Revoking, Only
      <3> QED BY <1>1, <1>2, <2>4, <3>1 DEF RefreshOK
    <2> QED BY <2>2, <2>3, <2>4
  <1> QED BY <1>7, <1>9, <1>10, <1>11, <1>12 DEF AccountsInv

LEMMA TickStep ==
  ASSUME AccountsInv, Tick
  PROVE  AccountsInv'
  <1>1. TypeOK /\ RequestsOK /\ TokensOK /\ UsersOK /\ SessionsOK /\ RefreshOK /\ LaneKept
        /\ AdminRemains
    BY DEF AccountsInv
  <1>2. now \in Nat /\ now' = now + 1 /\ now' \in 0..MaxTime
    BY <1>1, BoundsTyped DEF TypeOK, Tick, Clock
  <1>3. UNCHANGED <<users, revoked, maintenance, tokens, req, begun, suspensions, unrevoked,
                    stale, served>>
    BY DEF Tick, observed
  <1>4. TypeOK' BY <1>1, <1>2, <1>3 DEF TypeOK
  <1>5. RequestsOK' BY <1>1, <1>3 DEF RequestsOK, RequestOK, Authenticated
  <1>6. TokensOK' BY <1>1, <1>2, <1>3, KeepTokens
  <1>7. UsersOK' /\ SessionsOK' /\ AdminRemains' /\ LaneKept'
    BY <1>1, <1>3 DEF UsersOK, SessionsOK, AdminRemains, LaneKept
  <1>8. RefreshOK' BY <1>1, <1>3 DEF RefreshOK, Successors, Pending, Revoking
  <1> QED BY <1>4, <1>5, <1>6, <1>7, <1>8 DEF AccountsInv

LEMMA FailStep ==
  ASSUME AccountsInv, NEW p \in Requests, Fail(p)
  PROVE  AccountsInv'
  <1> DEFINE t == req[p].token
  <1>1. /\ TypeOK /\ RequestsOK /\ TokensOK /\ UsersOK /\ SessionsOK /\ RefreshOK /\ LaneKept
        /\ AdminRemains
    BY DEF AccountsInv
  <1>2. /\ unrevoked' = IF req[p].pc = "revoke" THEN unrevoked \cup {t} ELSE unrevoked
        /\ Return(p)
        /\ UNCHANGED <<users, revoked, maintenance, tokens, now, begun, suspensions, stale, served>>
    BY DEF Fail, At
  <1>3. CASE req[p].pc # "revoke"
    BY <1>2, <1>3, ReturnQuiet DEF quiet
  <1>4. CASE req[p].pc = "revoke"
    <2>1. Only(p) /\ req'[p].pc = "idle" /\ RequestOK(req[p])' BY <1>1, <1>2, ReturnForm
    <2>2. t \in 1..Len(tokens) BY <1>4, ActorOK DEF Authenticated
    <2>3. unrevoked' = unrevoked \cup {t} BY <1>2, <1>4
    <2>4. unrevoked' \subseteq 1..MaxTokens
      BY <1>1, <2>2, <2>3, TokenBound
    <2>5. TypeOK' BY <1>1, <1>2, <2>1, <2>4 DEF TypeOK, Only
    <2>6. Grow BY <1>1, <1>2, Lengths DEF Grow
    <2>7. RequestsOK' BY <1>1, <2>1, <2>5, <2>6, KeepRequests
    <2>8. TokensOK' BY <1>1, <1>2 DEF TokensOK, TokenOK
    <2>9. UsersOK' /\ SessionsOK' /\ AdminRemains' /\ LaneKept'
      BY <1>1, <1>2 DEF UsersOK, SessionsOK, AdminRemains, LaneKept
    <2>10. RefreshOK'
      <3> SUFFICES ASSUME NEW s \in 1..Len(tokens), s \notin unrevoked, s # t
                   PROVE  IF s \in revoked
                          THEN Cardinality(Successors(s)) + Cardinality(Pending(s)')
                                 <= Cardinality(Requests)
                          ELSE Cardinality(Successors(s)) <= Cardinality(Revoking(s)')
        BY <1>2, <2>3 DEF RefreshOK, Successors
      <3>1. Pending(s)' = Pending(s) /\ Revoking(s)' = Revoking(s)
        BY <1>4, <2>1 DEF Pending, Revoking, Only
      <3> QED BY <1>1, <3>1 DEF RefreshOK
    <2> QED BY <2>5, <2>7, <2>8, <2>9, <2>10 DEF AccountsInv
  <1> QED BY <1>3, <1>4

-----------------------------------------------------------------------------
(* The theorems.                                                           *)

LEMMA InitInv == Init => AccountsInv
  <1> SUFFICES ASSUME Init PROVE AccountsInv
    OBVIOUS
  <1> DEFINE L == Lanes \cup {"none"}
  <1>1. /\ FirstUsers \subseteq Users /\ FirstUsers # {} /\ FirstName \in [FirstUsers -> Names]
        /\ NoName \notin Names
    BY AccountsAssumption
  <1>2. FirstTokens \in Seq(FirstUsers \X L) /\ Len(FirstTokens) <= MaxTokens
    BY AccountsAssumption
  <1> DEFINE n == Len(FirstTokens)
  <1>3. n \in Nat /\ n <= MaxTokens BY <1>2
  <1>4. \A i \in 1..n : FirstTokens[i][1] \in FirstUsers /\ FirstTokens[i][2] \in L
    <2> SUFFICES ASSUME NEW i \in 1..n
                 PROVE  FirstTokens[i][1] \in FirstUsers /\ FirstTokens[i][2] \in L
      OBVIOUS
    <2>1. FirstTokens[i] \in FirstUsers \X L BY <1>2, RowTyped
    <2> HIDE DEF L
    <2> QED BY <2>1
  <1> DEFINE row(i) == [user |-> FirstTokens[i][1], iat |-> 0, exp |-> TTL,
                        lane |-> FirstTokens[i][2], parent |-> 0, first |-> FirstTokens[i][2],
                        epoch |-> 0, overlap |-> FALSE]
  <1>5. \A i \in 1..n : row(i) \in Token
    <2>1. 0 \in Nat /\ TTL \in Nat BY BoundsTyped
    <2> QED BY <1>1, <1>4, <2>1 DEF Token
  <1>6. tokens = [i \in 1..n |-> row(i)] BY DEF Init
  <1>7. tokens \in Seq(Token) /\ Len(tokens) = n
    <2> HIDE DEF row
    <2> QED BY <1>3, <1>5, <1>6
  <1>8. \A t \in 1..n : /\ tokens[t].user \in FirstUsers /\ tokens[t].iat = 0
                        /\ tokens[t].parent = 0 /\ tokens[t].epoch = 0
                        /\ tokens[t].lane = tokens[t].first
    BY <1>4, <1>6
  <1> HIDE DEF row, n
  <1>9. /\ users \in [Users -> Account]
        /\ \A u \in Users : /\ users[u].exists <=> u \in FirstUsers
                            /\ users[u].exists => users[u].name # NoName
                            /\ users[u].exists => users[u].role = "admin"
                            /\ ~users[u].suspended
                            /\ users[u].invalidated = 0
    <2> DEFINE new(u) == [NoAccount EXCEPT !.exists = TRUE, !.name = FirstName[u], !.role = "admin"]
    <2>1. NoAccount.suspended = FALSE BY DEF NoAccount
    <2>2. ASSUME NEW u \in FirstUsers
          PROVE  /\ new(u) \in Account /\ new(u).exists /\ new(u).name = FirstName[u]
                 /\ new(u).role = "admin" /\ new(u).suspended = FALSE /\ new(u).invalidated = 0
      <3> DEFINE name == FirstName[u]
      <3>1. name \in Names BY <1>1
      <3> HIDE DEF name
      <3>2. new(u) = [NoAccount EXCEPT !.exists = TRUE, !.name = name, !.role = "admin"]
        BY DEF name
      <3> QED BY <2>1, <3>1, <3>2, NoAccountTyped DEF Account, Roles, name
    <2>3. \A u \in FirstUsers : FirstName[u] # NoName BY <1>1
    <2>4. users = [u \in Users |-> IF u \in FirstUsers THEN new(u) ELSE NoAccount] BY DEF Init
    <2> HIDE DEF new
    <2> QED BY <1>1, <2>1, <2>2, <2>3, <2>4, NoAccountTyped
  <1>10. /\ revoked = {} /\ maintenance = FALSE /\ now = 1 /\ begun = 0
         /\ suspensions = [u \in Users |-> 0] /\ unrevoked = {} /\ stale = FALSE /\ served = {}
    BY DEF Init
  <1>11. req = [p \in Requests |-> Idle] BY DEF Init
  <1>12. TypeOK
    <2>1. now \in 0..MaxTime /\ begun \in 0..MaxBegun BY <1>10, BoundsTyped
    <2>2. req \in [Requests -> Request] BY <1>11, IdleTyped
    <2>3. suspensions \in [Users -> Nat] BY <1>10
    <2> QED BY <1>3, <1>7, <1>9, <1>10, <2>1, <2>2, <2>3 DEF TypeOK
  <1>13. \A p \in Requests : req[p].pc = "idle" BY <1>11, IdleTyped
  <1>14. RequestsOK BY <1>13 DEF RequestsOK, RequestOK, Authenticated
  <1>15. TokensOK
    <2>1. \A t \in 1..n : TokenOK(t)
      BY <1>1, <1>3, <1>7, <1>8, <1>9, <1>10 DEF TokenOK
    <2> QED BY <1>7, <1>10, <2>1 DEF TokensOK
  <1>16. UsersOK BY <1>9 DEF UsersOK
  <1>17. SessionsOK BY <1>1, <1>7, <1>8, <1>10 DEF SessionsOK
  <1>18. AdminRemains BY <1>1, <1>9 DEF AdminRemains
  <1>19. RefreshOK
    <2> SUFFICES ASSUME NEW t \in 1..Len(tokens)
                 PROVE  Cardinality(Successors(t)) <= Cardinality(Revoking(t))
      BY <1>10 DEF RefreshOK
    <2>1. Successors(t) = {} BY <1>3, <1>7, <1>8 DEF Successors
    <2>2. Revoking(t) \in SUBSET Requests BY DEF Revoking
    <2> QED BY <2>1, <2>2, FS_EmptySet, RequestSets
  <1>20. LaneKept BY <1>10 DEF LaneKept
  <1> QED BY <1>12, <1>14, <1>15, <1>16, <1>17, <1>18, <1>19, <1>20 DEF AccountsInv

LEMMA NextInv == AccountsInv /\ [Next]_vars => AccountsInv'
  <1> SUFFICES ASSUME AccountsInv, [Next]_vars PROVE AccountsInv'
    OBVIOUS
  <1>1. CASE Tick BY <1>1, TickStep
  <1>2. ASSUME NEW p \in Requests,
               \/ CheckRevoked(p) \/ CheckState(p) \/ Refresh(p) \/ RevokeOld(p)
               \/ EmbedWorkspaceGuard(p) \/ Fail(p)
        PROVE  AccountsInv'
    BY <1>2, CheckRevokedStep, CheckStateStep, RefreshStep, RevokeOldStep,
       EmbedWorkspaceGuardStep, FailStep
  <1>3. ASSUME NEW p \in Requests,
               \/ RegisterCheck(p) \/ RegisterInsert(p) \/ SyncBootstrapAdmin(p)
               \/ LoginRead(p) \/ Login(p) \/ UpdateProfile(p) \/ ChangePassword(p)
        PROVE  AccountsInv'
    BY <1>3, RegisterCheckStep, RegisterInsertStep, SyncBootstrapAdminStep, LoginReadStep,
       LoginStep, UpdateProfileStep, ChangePasswordStep
  <1>4. ASSUME NEW p \in Requests,
               \/ RequirePlatformWrite(p) \/ GetUserAdmin(p) \/ UpdateRole(p)
               \/ UpdateSuspension(p) \/ UpdatePlatformSettings(p)
        PROVE  AccountsInv'
    BY <1>4, RequirePlatformWriteStep, GetUserAdminStep, UpdateRoleStep, UpdateSuspensionStep,
       UpdatePlatformSettingsStep
  <1>5. ASSUME NEW p \in Requests, NEW i \in Inputs, NEW t \in 0..MaxTokens, Arrive(p, i, t)
        PROVE  AccountsInv'
    BY <1>5, ArriveStep
  <1>6. CASE UNCHANGED vars
    <2>1. UNCHANGED <<users, revoked, maintenance, tokens, now, req, begun, suspensions,
                      unrevoked, stale, served>>
      BY <1>6 DEF vars, observed
    <2>2. TypeOK' BY <2>1 DEF AccountsInv, TypeOK
    <2>3. RequestsOK' BY <2>1 DEF AccountsInv, RequestsOK, RequestOK
    <2>4. TokensOK' /\ UsersOK' BY <2>1 DEF AccountsInv, TokensOK, TokenOK, UsersOK
    <2>5. SessionsOK' /\ AdminRemains' /\ LaneKept'
      BY <2>1 DEF AccountsInv, SessionsOK, AdminRemains, LaneKept
    <2>6. RefreshOK' BY <2>1 DEF AccountsInv, RefreshOK, Successors, Pending, Revoking
    <2> QED BY <2>2, <2>3, <2>4, <2>5, <2>6 DEF AccountsInv
  <1> QED BY <1>1, <1>2, <1>3, <1>4, <1>5, <1>6 DEF Next

LEMMA Invariance == Spec => []AccountsInv
  BY InitInv, NextInv, PTL DEF Spec

\* The tables, the tokens and the requests keep their shape: accounts of
\* internal/auth, internal/users and internal/platformadmin, claims of pkg/jwt.
THEOREM TypeCorrect == Spec => []TypeOK
  <1>1. AccountsInv => TypeOK BY DEF AccountsInv
  <1> QED BY <1>1, Invariance, PTL

\* A suspension ends every session that began before it, whatever refreshes
\* came between, but for a refresh that overlapped it: the clock has moved on
\* since every token was issued, and a refreshed token carries its session on.
THEOREM SuspensionCorrect == Spec => []SuspensionEndsSessions
  <1>1. AccountsInv => SuspensionEndsSessions
    BY DEF AccountsInv, SessionsOK, SuspensionEndsSessions, Accepted, StateAllows
  <1> QED BY <1>1, Invariance, PTL

\* The platform keeps an administrator, unless one acted who had lost the role
\* since the check: nobody takes the role from, or suspends, themselves.
THEOREM AdminCorrect == Spec => []AdminRemains
  <1>1. AccountsInv => AdminRemains BY DEF AccountsInv
  <1> QED BY <1>1, Invariance, PTL

\* A token is refreshed once, but for refreshes that overlap and revocations
\* that are lost, and a session never leaves its lane.
THEOREM RefreshCorrect == Spec => []RefreshContinues
  <1>1. ASSUME AccountsInv PROVE RefreshContinues
    <2>1. TypeOK /\ RefreshOK /\ LaneKept BY <1>1 DEF AccountsInv
    <2>2. ASSUME NEW t \in 1..Len(tokens), t \notin unrevoked
          PROVE  Cardinality(Successors(t)) <= Cardinality(Requests)
      <3>1. Pending(t) \in SUBSET Requests /\ Revoking(t) \in SUBSET Requests
        BY DEF Pending, Revoking
      <3>2. /\ Cardinality(Pending(t)) \in Nat /\ Cardinality(Revoking(t)) \in Nat
            /\ Cardinality(Revoking(t)) <= Cardinality(Requests)
            /\ Cardinality(Requests) \in Nat /\ Cardinality(Successors(t)) \in Nat
        BY <2>1, <3>1, RequestSets, SuccessorSets
      <3> QED BY <2>1, <2>2, <3>2 DEF RefreshOK
    <2> QED BY <2>1, <2>2 DEF RefreshContinues, RefreshedOnce, Successors
  <1> QED BY <1>1, Invariance, PTL
=============================================================================
