-------------------------- MODULE DeveloperApiProofs --------------------------
(***************************************************************************)
(* Proofs about DeveloperApi, for any number of users, channels, messages, *)
(* keys and requests.                                                      *)
(*                                                                         *)
(* Three arguments carry them.  Links are never removed and ids are never  *)
(* given twice, so what a request read of its lane stays true while other  *)
(* requests and the cleaner run.  A cap counts, with the rows, the requests*)
(* that passed its check and have not inserted yet.  And a key without a   *)
(* stored answer has had its effect only in requests that are about to     *)
(* store one.                                                              *)
(***************************************************************************)
EXTENDS DeveloperApi, FiniteSetTheorems, TLAPS

-----------------------------------------------------------------------------
(* The inductive invariant.                                                *)

\* The points of each kind of request.
ResolvePoints == {"userCap", "email", "createUser", "email2", "username"}
LinkPoints == {"member", "link", "relink"}
SendPoints == {"quota", "msgCap", "msgCreate"}
JoinPoints == {"isMember", "addMember"}

Linked(u, lane) == GetAppUserByUserID(u, lane) # {}

\* What a request may rely on at each point.  Its channel, where it was not
\* deleted, is of its lane.
RequestOK(r) ==
  /\ r.pc = "save" => r.body.idem # NoIdem
  /\ r.pc \in {"member", "link"} => r.user \in 1..Len(accounts)
  /\ r.pc = "link" => r.user \in members[r.lane]
  /\ r.pc = "quota" => r.lane = "live"
  /\ r.pc \in {"chGet"} \cup JoinPoints \cup SendPoints => Linked(r.user, r.lane)
  /\ r.pc \in {"chMember"} \cup JoinPoints \cup SendPoints =>
       /\ r.channel \in 1..serial["channel"]
       /\ \A c \in channels : c.id = r.channel => c.lane = r.lane

RequestsOK == \A p \in Requests : RequestOK(req[p])

\* An external id and a user have one link in a lane, and every answer was one.
LinksOK ==
  /\ \A k, l \in links : k.lane = l.lane /\ (k.ext = l.ext \/ k.user = l.user) => k = l
  /\ told \subseteq links

\* Ids are given once, and messages are of channels that there were.
ChannelsOK ==
  /\ \A c, d \in channels : c.id = d.id => c = d
  /\ \A c \in channels : c.id <= serial["channel"]
  /\ \A m \in messages : m.channel <= serial["channel"]

\* The requests that passed the check of a sandbox cap and have not inserted.
PastCap(pcs) == {p \in Requests : req[p].lane = "sandbox" /\ req[p].pc \in pcs}
Provisioning == PastCap({"email", "createUser", "email2", "username", "member", "link"})
Creating == PastCap({"chCreate"})
Sending == PastCap({"msgCreate"})

SandboxLinks == {l \in links : l.lane = "sandbox"}
SandboxChannels == {c \in channels : c.lane = "sandbox"}

UserCapOK ==
  MaxUsers > 0 =>
    Cardinality(SandboxLinks) + Cardinality(Provisioning) < MaxUsers + Cardinality(Requests)
ChannelCapOK ==
  MaxChannels > 0 =>
    Cardinality(SandboxChannels) + Cardinality(Creating) < MaxChannels + Cardinality(Requests)
MessageCapOK ==
  MaxMessages > 0 =>
    Cardinality(MessagesOf("sandbox")) + Cardinality(Sending)
      < MaxMessages + Cardinality(Requests)

\* Tables are finite.
FinitelyMany == IsFiniteSet(links) /\ IsFiniteSet(channels) /\ IsFiniteSet(messages)

\* The requests of an idempotency key that may still have their effect, and
\* those that had it and will store the answer.
Under(k) == {p \in Requests : req[p].body.idem = k /\ req[p].pc \notin {"idle", "idem", "save"}}
Saving(k) == {p \in Requests : req[p].body.idem = k /\ req[p].pc = "save"}

RetriesOK ==
  \A k \in IdemKeys \ lost :
    IF idem[k] = NoAnswer
    THEN ran[k] <= Cardinality(Saving(k))
    ELSE ran[k] + Cardinality(Under(k)) <= Cardinality(Requests)

DeveloperApiInv ==
  /\ TypeOK /\ RequestsOK /\ LinksOK /\ ChannelsOK /\ FinitelyMany
  /\ LanesDoNotMix /\ UserCapOK /\ ChannelCapOK /\ MessageCapOK /\ RetriesOK

-----------------------------------------------------------------------------
(* Sets.                                                                   *)

\* What the assumption says of the requests.
LEMMA RequestsFinite == IsFiniteSet(Requests) /\ Cardinality(Requests) \in Nat
                        /\ Cardinality(Requests) > 0
  <1>1. IsFiniteSet(Requests) /\ Requests # {} BY DeveloperApiAssumption
  <1> QED BY <1>1, FS_CardinalityType, FS_EmptySet

\* An image is not larger.
LEMMA ImageFinite ==
  ASSUME NEW S, NEW T, NEW f \in [S -> T], IsFiniteSet(S), \A t \in T : \E s \in S : f[s] = t
  PROVE  IsFiniteSet(T) /\ Cardinality(T) <= Cardinality(S)
  <1>1. f \in Surjection(S, T) BY DEF Surjection
  <1> QED BY <1>1, FS_Surjection

\* Fewer rows and fewer requests past the check.
LEMMA CapKept ==
  ASSUME NEW A, IsFiniteSet(A), NEW B, IsFiniteSet(B), Cardinality(B) <= Cardinality(A),
         NEW P \in SUBSET Requests, NEW Q \in SUBSET P, NEW M \in Nat,
         Cardinality(A) + Cardinality(P) < M
  PROVE  Cardinality(B) + Cardinality(Q) < M
  <1>1. IsFiniteSet(P) BY RequestsFinite, FS_Subset
  <1>2. IsFiniteSet(Q) /\ Cardinality(Q) <= Cardinality(P) BY <1>1, FS_Subset
  <1>3. /\ Cardinality(A) \in Nat /\ Cardinality(B) \in Nat
        /\ Cardinality(P) \in Nat /\ Cardinality(Q) \in Nat
    BY <1>1, <1>2, FS_CardinalityType
  <1> QED BY <1>2, <1>3

\* A request passes the check: whoever is past it, they are the requests at most.
LEMMA CapChecked ==
  ASSUME NEW A, IsFiniteSet(A), NEW M \in Nat, ~(Cardinality(A) >= M),
         NEW Q \in SUBSET Requests
  PROVE  Cardinality(A) + Cardinality(Q) < M + Cardinality(Requests)
  <1>1. IsFiniteSet(Q) /\ Cardinality(Q) <= Cardinality(Requests) BY RequestsFinite, FS_Subset
  <1>2. Cardinality(A) \in Nat /\ Cardinality(Q) \in Nat BY <1>1, FS_CardinalityType
  <1> QED BY <1>1, <1>2, RequestsFinite

\* A request that is past the check inserts a row, and is no longer past it.
LEMMA CapInsert ==
  ASSUME NEW A, IsFiniteSet(A), NEW x, NEW B \in SUBSET (A \cup {x}),
         NEW P \in SUBSET Requests, NEW p \in P, NEW Q \in SUBSET (P \ {p}),
         NEW M \in Nat, Cardinality(A) + Cardinality(P) < M
  PROVE  Cardinality(B) + Cardinality(Q) < M
  <1>1. IsFiniteSet(P) BY RequestsFinite, FS_Subset
  <1>2. IsFiniteSet(P \ {p}) /\ Cardinality(P \ {p}) = Cardinality(P) - 1
    BY <1>1, FS_RemoveElement
  <1>3. IsFiniteSet(Q) /\ Cardinality(Q) <= Cardinality(P \ {p}) BY <1>2, FS_Subset
  <1>4. IsFiniteSet(A \cup {x}) /\ Cardinality(A \cup {x}) <= Cardinality(A) + 1
    <2>1. IsFiniteSet(A \cup {x}) /\ Cardinality(A \cup {x}) =
            IF x \in A THEN Cardinality(A) ELSE Cardinality(A) + 1 BY FS_AddElement
    <2>2. Cardinality(A) \in Nat BY FS_CardinalityType
    <2> QED BY <2>1, <2>2
  <1>5. IsFiniteSet(B) /\ Cardinality(B) <= Cardinality(A \cup {x}) BY <1>4, FS_Subset
  <1>6. /\ Cardinality(A) \in Nat /\ Cardinality(A \cup {x}) \in Nat /\ Cardinality(B) \in Nat
        /\ Cardinality(P) \in Nat /\ Cardinality(Q) \in Nat
    BY <1>1, <1>3, <1>4, <1>5, FS_CardinalityType
  <1> QED BY <1>2, <1>3, <1>4, <1>5, <1>6

-----------------------------------------------------------------------------
(* The forms of a request's step.                                          *)

LEMMA NoBodyTyped == NoBody \in Input
  <1>1. (CHOOSE x \in Externals : TRUE) \in Externals /\ (CHOOSE n \in Names : TRUE) \in Names
    BY DeveloperApiAssumption
  <1> QED BY <1>1 DEF NoBody, Input, Kinds

LEMMA IdleTyped == Idle \in Request /\ Idle.pc = "idle" /\ Idle.lane = "live"
  BY NoBodyTyped DEF Idle, Request, Points, Lanes

\* A step of p alone; what a step keeps of a request.
Others(p) == \A q \in Requests \ {p} : req'[q] = req[q]
Only(p) == req' \in [Requests -> Request] /\ Others(p)
Same(r, s) == s.lane = r.lane /\ s.body = r.body

LEMMA ReturnForm ==
  ASSUME TypeOK, NEW p \in Requests, Return(p)
  PROVE  Only(p) /\ req'[p] = Idle
  <1>1. req \in [Requests -> Request] BY DEF TypeOK
  <1> QED BY <1>1, IdleTyped DEF Return, Only, Others

LEMMA GotoForm ==
  ASSUME TypeOK, NEW p \in Requests, NEW pc \in Points, Goto(p, pc)
  PROVE  /\ Only(p) /\ req'[p].pc = pc /\ Same(req[p], req'[p])
         /\ req'[p].user = req[p].user /\ req'[p].created = req[p].created
         /\ req'[p].channel = req[p].channel
  <1>1. req \in [Requests -> Request] BY DEF TypeOK
  <1> QED BY <1>1 DEF Goto, Only, Others, Request, Same

\* The request has an answer: it is saved under a key, or the request ends.
LEMMA ReplyForm ==
  ASSUME TypeOK, NEW p \in Requests, Reply(p)
  PROVE  /\ Only(p)
         /\ \/ req[p].body.idem = NoIdem /\ req'[p] = Idle
            \/ req[p].body.idem # NoIdem /\ req'[p].pc = "save" /\ Same(req[p], req'[p])
  <1>1. CASE req[p].body.idem = NoIdem
    BY <1>1, ReturnForm DEF Reply
  <1>2. CASE req[p].body.idem # NoIdem
    <2>1. Goto(p, "save") /\ "save" \in Points BY <1>2 DEF Reply, Points
    <2> QED BY <1>2, <2>1, GotoForm
  <1> QED BY <1>1, <1>2

LEMMA UserForm ==
  ASSUME TypeOK, NEW p \in Requests, NEW pc \in Points, NEW u \in Nat,
         req' = [req EXCEPT ![p].user = u, ![p].pc = pc]
  PROVE  Only(p) /\ req'[p].pc = pc /\ req'[p].user = u /\ Same(req[p], req'[p])
  <1>1. req \in [Requests -> Request] BY DEF TypeOK
  <1> QED BY <1>1 DEF Only, Others, Request, Same

LEMMA CreatedForm ==
  ASSUME TypeOK, NEW p \in Requests, NEW u \in Nat,
         req' = [req EXCEPT ![p].user = u, ![p].created = TRUE, ![p].pc = "member"]
  PROVE  Only(p) /\ req'[p].pc = "member" /\ req'[p].user = u /\ Same(req[p], req'[p])
  <1>1. req \in [Requests -> Request] /\ "member" \in Points BY DEF TypeOK, Points
  <1> QED BY <1>1 DEF Only, Others, Request, Same

-----------------------------------------------------------------------------
(* What a step of one request keeps.                                       *)

\* The tables keep what the requests rely on: rows stay, and a channel that was
\* not there has a new id.
Grows ==
  /\ Len(accounts') >= Len(accounts)
  /\ \A l \in Lanes : members[l] \subseteq members'[l]
  /\ links \subseteq links'
  /\ serial'["channel"] >= serial["channel"]
  /\ \A d \in channels' :
       d.id > serial["channel"] \/ \E c \in channels : c.id = d.id /\ c.lane = d.lane

LEMMA RequestKept ==
  ASSUME TypeOK, accounts' \in Seq([email : Names, username : Names]),
         serial' \in [{"channel", "message"} -> Nat], Grows,
         NEW q \in Requests, req'[q] = req[q], RequestOK(req[q])
  PROVE  RequestOK(req[q])'
  <1> DEFINE r == req[q]
  <1>1. r \in Request BY DEF TypeOK
  <1>2. /\ Len(accounts) \in Nat /\ Len(accounts') \in Nat /\ Len(accounts') >= Len(accounts)
        /\ serial["channel"] \in Nat /\ serial'["channel"] \in Nat
        /\ serial'["channel"] >= serial["channel"]
    BY DEF TypeOK, Grows
  <1>3. r.pc \in {"member", "link"} => r.user \in 1..Len(accounts')
    BY <1>2 DEF RequestOK
  <1>4. r.pc = "link" => r.user \in members'[r.lane]
    BY <1>1 DEF RequestOK, Grows, Request
  <1>5. Linked(r.user, r.lane) => Linked(r.user, r.lane)'
    BY DEF Linked, GetAppUserByUserID, Grows
  <1>6. ASSUME r.channel \in 1..serial["channel"],
               \A c \in channels : c.id = r.channel => c.lane = r.lane
        PROVE  /\ r.channel \in 1..serial'["channel"]
               /\ \A c \in channels' : c.id = r.channel => c.lane = r.lane
    <2>1. r.channel \in 1..serial'["channel"] BY <1>2, <1>6
    <2>2. ASSUME NEW d \in channels', d.id = r.channel PROVE d.lane = r.lane
      <3>1. ~(d.id > serial["channel"]) BY <1>2, <1>6, <2>2
      <3> QED BY <1>6, <2>2, <3>1 DEF Grows
    <2> QED BY <2>1, <2>2
  <1> QED BY <1>3, <1>4, <1>5, <1>6 DEF RequestOK, Linked

LEMMA RequestsKept ==
  ASSUME TypeOK, RequestsOK, accounts' \in Seq([email : Names, username : Names]),
         serial' \in [{"channel", "message"} -> Nat], Grows,
         NEW p \in Requests, Only(p), RequestOK(req[p])'
  PROVE  RequestsOK'
  <1>1. ASSUME NEW q \in Requests PROVE RequestOK(req[q])'
    <2>1. CASE q = p BY <2>1
    <2>2. CASE q # p
      <3>1. req'[q] = req[q] /\ RequestOK(req[q]) BY <2>2 DEF Only, Others, RequestsOK
      <3> QED BY <3>1, RequestKept
    <2> QED BY <2>1, <2>2
  <1> QED BY <1>1 DEF RequestsOK

\* The requests past a check do not become more.
NotPast(p, pcs) ==
  req'[p].lane = "sandbox" /\ req'[p].pc \in pcs
    => req[p].lane = "sandbox" /\ req[p].pc \in pcs

LEMMA PastKept ==
  ASSUME NEW p \in Requests, Only(p), NEW CONSTANT pcs, NotPast(p, pcs)
  PROVE  PastCap(pcs)' \subseteq PastCap(pcs)
  BY DEF PastCap, NotPast, Only, Others

LEMMA PastLeft ==
  ASSUME NEW p \in Requests, Only(p), NEW CONSTANT pcs, req'[p].pc \notin pcs
  PROVE  PastCap(pcs)' \subseteq PastCap(pcs) \ {p}
  BY DEF PastCap, Only, Others

UserPoints == {"email", "createUser", "email2", "username", "member", "link"}

\* No request passes a check that finds the cap reached.
Passes(p) ==
  /\ MaxUsers > 0 => NotPast(p, UserPoints) \/ ~(Cardinality(SandboxLinks) >= MaxUsers)
  /\ MaxChannels > 0 =>
       NotPast(p, {"chCreate"}) \/ ~(Cardinality(SandboxChannels) >= MaxChannels)
  /\ MaxMessages > 0 =>
       NotPast(p, {"msgCreate"}) \/ ~(Cardinality(MessagesOf("sandbox")) >= MaxMessages)

Finite == FinitelyMany /\ IsFiniteSet(SandboxLinks) /\ IsFiniteSet(SandboxChannels)
          /\ IsFiniteSet(MessagesOf("sandbox"))
LEMMA FinitelyManyOfEach == FinitelyMany => Finite
  <1> SUFFICES ASSUME FinitelyMany PROVE Finite OBVIOUS
  <1>1. SandboxLinks \in SUBSET links /\ SandboxChannels \in SUBSET channels
        /\ MessagesOf("sandbox") \in SUBSET messages
    BY DEF SandboxLinks, SandboxChannels, MessagesOf
  <1> QED BY <1>1, FS_Subset DEF Finite, FinitelyMany

LEMMA CapTyped ==
  /\ MaxUsers \in Nat /\ MaxUsers + Cardinality(Requests) \in Nat
  /\ MaxChannels \in Nat /\ MaxChannels + Cardinality(Requests) \in Nat
  /\ MaxMessages \in Nat /\ MaxMessages + Cardinality(Requests) \in Nat
  BY RequestsFinite, DeveloperApiAssumption

LEMMA UserCapKept ==
  ASSUME FinitelyMany, UserCapOK, FinitelyMany', links' = links,
         NEW p \in Requests, Only(p), Passes(p)
  PROVE  UserCapOK'
  <1> SUFFICES ASSUME MaxUsers > 0
               PROVE  (Cardinality(SandboxLinks) + Cardinality(Provisioning)
                         < MaxUsers + Cardinality(Requests))'
    BY DEF UserCapOK
  <1>1. IsFiniteSet(SandboxLinks) BY FinitelyManyOfEach DEF Finite
  <1>2. SandboxLinks' = SandboxLinks BY DEF SandboxLinks
  <1>3. Provisioning \in SUBSET Requests /\ Provisioning' \in SUBSET Requests
    BY DEF Provisioning, PastCap
  <1>4. Cardinality(SandboxLinks) + Cardinality(Provisioning)
          < MaxUsers + Cardinality(Requests)
    BY DEF UserCapOK
  <1>5. Cardinality(SandboxLinks') <= Cardinality(SandboxLinks)
    BY <1>1, <1>2, FS_CardinalityType
  <1>6. CASE NotPast(p, UserPoints)
    <2>1. Provisioning' \in SUBSET Provisioning BY <1>6, PastKept DEF Provisioning, UserPoints
    <2> QED BY <1>1, <1>2, <1>3, <1>4, <1>5, <2>1, CapTyped, CapKept
  <1>7. CASE ~(Cardinality(SandboxLinks) >= MaxUsers)
    <2>1. Cardinality(SandboxLinks) \in Nat /\ Cardinality(SandboxLinks') \in Nat
      BY <1>1, <1>2, FS_CardinalityType
    <2>2. ~(Cardinality(SandboxLinks') >= MaxUsers) BY <1>5, <1>7, <2>1, CapTyped
    <2> QED BY <1>1, <1>2, <1>3, <2>2, CapTyped, CapChecked
  <1> QED BY <1>6, <1>7 DEF Passes

LEMMA ChannelCapKept ==
  ASSUME FinitelyMany, ChannelCapOK, FinitelyMany',
         Cardinality(SandboxChannels') <= Cardinality(SandboxChannels),
         NEW p \in Requests, Only(p), Passes(p)
  PROVE  ChannelCapOK'
  <1> SUFFICES ASSUME MaxChannels > 0
               PROVE  (Cardinality(SandboxChannels) + Cardinality(Creating)
                         < MaxChannels + Cardinality(Requests))'
    BY DEF ChannelCapOK
  <1>1. IsFiniteSet(SandboxChannels) /\ IsFiniteSet(SandboxChannels')
    <2>1. SandboxChannels' \in SUBSET channels' /\ IsFiniteSet(channels')
      BY DEF SandboxChannels, FinitelyMany
    <2> QED BY <2>1, FS_Subset, FinitelyManyOfEach DEF Finite
  <1>3. Creating \in SUBSET Requests /\ Creating' \in SUBSET Requests BY DEF Creating, PastCap
  <1>4. Cardinality(SandboxChannels) + Cardinality(Creating)
          < MaxChannels + Cardinality(Requests)
    BY DEF ChannelCapOK
  <1>5. Cardinality(SandboxChannels') <= Cardinality(SandboxChannels)
    BY <1>1, FS_CardinalityType
  <1>6. CASE NotPast(p, {"chCreate"})
    <2>1. Creating' \in SUBSET Creating BY <1>6, PastKept DEF Creating
    <2> QED BY <1>1, <1>3, <1>4, <1>5, <2>1, CapTyped, CapKept
  <1>7. CASE ~(Cardinality(SandboxChannels) >= MaxChannels)
    <2>1. Cardinality(SandboxChannels) \in Nat /\ Cardinality(SandboxChannels') \in Nat
      BY <1>1, FS_CardinalityType
    <2>2. ~(Cardinality(SandboxChannels') >= MaxChannels) BY <1>5, <1>7, <2>1, CapTyped
    <2> QED BY <1>1, <1>3, <2>2, CapTyped, CapChecked
  <1> QED BY <1>6, <1>7 DEF Passes

LEMMA MessageCapKept ==
  ASSUME FinitelyMany, MessageCapOK, FinitelyMany',
         Cardinality(MessagesOf("sandbox")') <= Cardinality(MessagesOf("sandbox")),
         NEW p \in Requests, Only(p), Passes(p)
  PROVE  MessageCapOK'
  <1> SUFFICES ASSUME MaxMessages > 0
               PROVE  (Cardinality(MessagesOf("sandbox")) + Cardinality(Sending)
                         < MaxMessages + Cardinality(Requests))'
    BY DEF MessageCapOK
  <1>1. IsFiniteSet(MessagesOf("sandbox")) /\ IsFiniteSet(MessagesOf("sandbox")')
    <2>1. MessagesOf("sandbox")' \in SUBSET messages' /\ IsFiniteSet(messages')
      BY DEF MessagesOf, FinitelyMany
    <2> QED BY <2>1, FS_Subset, FinitelyManyOfEach DEF Finite
  <1>3. Sending \in SUBSET Requests /\ Sending' \in SUBSET Requests BY DEF Sending, PastCap
  <1>4. Cardinality(MessagesOf("sandbox")) + Cardinality(Sending)
          < MaxMessages + Cardinality(Requests)
    BY DEF MessageCapOK
  <1>5. Cardinality(MessagesOf("sandbox")') <= Cardinality(MessagesOf("sandbox"))
    BY <1>1, FS_CardinalityType
  <1>6. CASE NotPast(p, {"msgCreate"})
    <2>1. Sending' \in SUBSET Sending BY <1>6, PastKept DEF Sending
    <2> QED BY <1>1, <1>3, <1>4, <1>5, <2>1, CapTyped, CapKept
  <1>7. CASE ~(Cardinality(MessagesOf("sandbox")) >= MaxMessages)
    <2>1. Cardinality(MessagesOf("sandbox")) \in Nat /\ Cardinality(MessagesOf("sandbox")') \in Nat
      BY <1>1, FS_CardinalityType
    <2>2. ~(Cardinality(MessagesOf("sandbox")') >= MaxMessages) BY <1>5, <1>7, <2>1, CapTyped
    <2> QED BY <1>1, <1>3, <2>2, CapTyped, CapChecked
  <1> QED BY <1>6, <1>7 DEF Passes

\* A request at one of its points comes to another, or ends without an answer.
Outside == {"idle", "idem", "save"}
Proceeds(p) ==
  \/ req[p].pc # "save" /\ req'[p].pc = "idle"
  \/ req[p].pc \notin Outside /\ req'[p].pc \notin Outside /\ req'[p].body = req[p].body
\* It has its effect and its answer.
Effect(p) == req[p].pc \notin Outside /\ Ran(p) /\ Reply(p)

LEMMA UnderFinite ==
  ASSUME NEW k
  PROVE  /\ IsFiniteSet(Under(k)) /\ IsFiniteSet(Saving(k))
         /\ Cardinality(Under(k)) \in Nat /\ Cardinality(Saving(k)) \in Nat
         /\ Cardinality(Under(k)) <= Cardinality(Requests)
         /\ Cardinality(Saving(k)) <= Cardinality(Requests)
  <1>1. Under(k) \in SUBSET Requests /\ Saving(k) \in SUBSET Requests BY DEF Under, Saving
  <1> QED BY <1>1, RequestsFinite, FS_Subset, FS_CardinalityType

LEMMA ProceedsKeepsRetries ==
  ASSUME TypeOK, RetriesOK, NEW p \in Requests, Only(p), Proceeds(p),
         idem' = idem, ran' = ran, lost \subseteq lost'
  PROVE  RetriesOK'
  <1> SUFFICES ASSUME NEW k \in IdemKeys \ lost
               PROVE  IF idem[k] = NoAnswer
                      THEN ran[k] <= Cardinality(Saving(k)')
                      ELSE ran[k] + Cardinality(Under(k)') <= Cardinality(Requests)
    BY DEF RetriesOK
  <1>1. CASE idem[k] = NoAnswer
    <2>1. Saving(k)' = Saving(k) BY DEF Saving, Only, Others, Proceeds, Outside
    <2> QED BY <1>1, <2>1 DEF RetriesOK
  <1>2. CASE idem[k] # NoAnswer
    <2>1. Under(k)' \in SUBSET Under(k) BY DEF Under, Only, Others, Proceeds, Outside
    <2>2. IsFiniteSet(Under(k)') /\ Cardinality(Under(k)') <= Cardinality(Under(k))
      BY <2>1, UnderFinite, FS_Subset
    <2>3. Cardinality(Under(k)') \in Nat /\ ran[k] \in Nat
      BY <2>2, FS_CardinalityType DEF TypeOK
    <2>4. ran[k] + Cardinality(Under(k)) <= Cardinality(Requests) BY <1>2 DEF RetriesOK
    <2> QED BY <1>2, <2>2, <2>3, <2>4, UnderFinite, RequestsFinite
  <1> QED BY <1>1, <1>2

LEMMA EffectKeepsRetries ==
  ASSUME TypeOK, RetriesOK, NEW p \in Requests, Effect(p), idem' = idem, lost' = lost
  PROVE  /\ RetriesOK' /\ ran' \in [IdemKeys -> Nat]
  <1>a. ran \in [IdemKeys -> Nat] /\ req[p].body.idem \in IdemKeys \cup {NoIdem}
    BY DEF TypeOK, Request, Input
  <1>b. ran' \in [IdemKeys -> Nat] BY <1>a DEF Effect, Ran
  <1>c. Only(p) BY ReplyForm DEF Effect
  <1>d. /\ req[p].pc \notin Outside
        /\ \/ req[p].body.idem = NoIdem /\ req'[p] = Idle
           \/ req[p].body.idem # NoIdem /\ req'[p].pc = "save" /\ req'[p].body = req[p].body
    BY ReplyForm DEF Effect, Same
  <1> SUFFICES ASSUME NEW k \in IdemKeys \ lost
               PROVE  IF idem[k] = NoAnswer
                      THEN ran'[k] <= Cardinality(Saving(k)')
                      ELSE ran'[k] + Cardinality(Under(k)') <= Cardinality(Requests)
    BY <1>b DEF RetriesOK
  <1>e. k # NoIdem BY DeveloperApiAssumption
  <1>1. CASE req[p].body.idem # k
    <2>1. ran'[k] = ran[k] BY <1>1, <1>a DEF Effect, Ran
    <2>2. p \notin Saving(k) /\ p \notin Under(k) BY <1>1 DEF Saving, Under
    <2>3. p \notin Saving(k)' /\ p \notin Under(k)'
      BY <1>1, <1>d, IdleTyped DEF Saving, Under
    <2>4. Saving(k)' = Saving(k) /\ Under(k)' = Under(k)
      BY <1>c, <2>2, <2>3 DEF Saving, Under, Only, Others
    <2> QED BY <2>1, <2>4 DEF RetriesOK
  <1>2. CASE req[p].body.idem = k
    <2>1. ran'[k] = ran[k] + 1 /\ ran[k] \in Nat BY <1>2, <1>a, <1>e DEF Effect, Ran
    <2>2. p \in Under(k) /\ p \notin Saving(k)
      BY <1>2, <1>d DEF Under, Saving, Outside
    <2>3. p \in Saving(k)' /\ p \notin Under(k)'
      BY <1>2, <1>d, <1>e DEF Under, Saving, Outside
    <2>4. Saving(k)' = Saving(k) \cup {p} /\ Under(k)' = Under(k) \ {p}
      BY <1>c, <2>2, <2>3 DEF Saving, Under, Only, Others
    <2>5. /\ Cardinality(Saving(k)') = Cardinality(Saving(k)) + 1
          /\ Cardinality(Under(k)') = Cardinality(Under(k)) - 1
      <3>1. IsFiniteSet(Saving(k)) /\ IsFiniteSet(Under(k)) BY UnderFinite
      <3>2. Cardinality(Saving(k) \cup {p}) = Cardinality(Saving(k)) + 1
        BY <2>2, <3>1, FS_AddElement
      <3>3. Cardinality(Under(k) \ {p}) = Cardinality(Under(k)) - 1
        BY <2>2, <3>1, FS_RemoveElement
      <3> QED BY <2>4, <3>2, <3>3
    <2>6. IF idem[k] = NoAnswer
          THEN ran[k] <= Cardinality(Saving(k))
          ELSE ran[k] + Cardinality(Under(k)) <= Cardinality(Requests)
      BY DEF RetriesOK
    <2> QED BY <2>1, <2>5, <2>6, UnderFinite, RequestsFinite
  <1> QED BY <1>1, <1>2

-----------------------------------------------------------------------------
(* Steps that read tables.                                                 *)

\* All but the caps and the retries.
Core == /\ TypeOK /\ RequestsOK /\ LinksOK /\ ChannelsOK /\ FinitelyMany
        /\ LanesDoNotMix
Caps == UserCapOK /\ ChannelCapOK /\ MessageCapOK
LEMMA Parts == DeveloperApiInv <=> Core /\ Caps /\ RetriesOK
  BY DEF DeveloperApiInv, Core, Caps

LEMMA LanesKept ==
  ASSUME LanesDoNotMix, UNCHANGED <<members, links, channels, messages, sent>>
  PROVE  LanesDoNotMix'
  BY DEF LanesDoNotMix, LinkedIsMember, SenderIsLinked, SentWasStored, Stored,
         GetAppUserByUserID, MessagesOf

LEMMA ReadCore ==
  ASSUME Core, NEW p \in Requests, Only(p), UNCHANGED <<tables, sent>>,
         keys' \in [Keys -> {"none", "active", "revoked", "expired"}],
         idem' \in [IdemKeys -> Answer \cup {NoAnswer}], sweep' \in BOOLEAN,
         begun' \in 0..MaxBegun, ticks' \in 0..MaxTicks,
         ran' \in [IdemKeys -> Nat], lost' \subseteq IdemKeys,
         told' \subseteq links, RequestOK(req[p])'
  PROVE  Core'
  <1>u. UNCHANGED <<accounts, members, links, channels, messages, serial, sent>> BY DEF tables
  <1>1. TypeOK' BY <1>u DEF Core, TypeOK, Only
  <1>2. RequestsOK'
    <2>1. TypeOK /\ RequestsOK BY DEF Core
    <2>2. Grows BY <1>u, <2>1 DEF Grows, TypeOK
    <2> QED BY <1>1, <2>1, <2>2, RequestsKept DEF TypeOK
  <1>3. LinksOK' /\ ChannelsOK' /\ FinitelyMany'
    BY <1>u DEF Core, LinksOK, ChannelsOK, FinitelyMany
  <1>4. LanesDoNotMix' BY <1>u, LanesKept DEF Core
  <1> QED BY <1>1, <1>2, <1>3, <1>4 DEF Core

LEMMA ReadCaps ==
  ASSUME Core, Caps, Core', NEW p \in Requests, Only(p), Passes(p),
         UNCHANGED <<links, channels, messages>>
  PROVE  Caps'
  <1>1. UNCHANGED <<links, channels, messages>> OBVIOUS
  <1>2. SandboxChannels' = SandboxChannels /\ MessagesOf("sandbox")' = MessagesOf("sandbox")
    BY <1>1 DEF SandboxChannels, MessagesOf
  <1>3. FinitelyMany /\ FinitelyMany' BY DEF Core
  <1>4. /\ Cardinality(SandboxChannels') <= Cardinality(SandboxChannels)
        /\ Cardinality(MessagesOf("sandbox")') <= Cardinality(MessagesOf("sandbox"))
    BY <1>2, <1>3, FinitelyManyOfEach, FS_CardinalityType DEF Finite
  <1> QED BY <1>1, <1>3, <1>4, UserCapKept, ChannelCapKept, MessageCapKept DEF Caps

\* The request goes on, with what its next point relies on.
LEMMA ReadGoes ==
  ASSUME DeveloperApiInv, NEW p \in Requests, Only(p), Proceeds(p), Passes(p),
         RequestOK(req[p])', UNCHANGED <<local, tables, told, sent, ran>>
  PROVE  DeveloperApiInv'
  <1>1. Core /\ Caps /\ RetriesOK /\ TypeOK BY Parts DEF Core
  <1>2. UNCHANGED <<keys, idem, sweep, begun, ticks, lost, told, sent, ran>> BY DEF local
  <1>3. Core' BY <1>1, <1>2, ReadCore DEF TypeOK, Core, LinksOK
  <1>4. Caps' BY <1>1, <1>3, ReadCaps DEF tables
  <1>5. RetriesOK' BY <1>1, <1>2, ProceedsKeepsRetries
  <1> QED BY <1>3, <1>4, <1>5 DEF DeveloperApiInv, Core, Caps

LEMMA EndedOK ==
  ASSUME NEW p \in Requests, req'[p].pc \in {"idle", "save"},
         req'[p].pc = "save" => req'[p].body.idem # NoIdem
  PROVE  RequestOK(req[p])' /\ Passes(p)
  BY DEF RequestOK, Passes, NotPast, UserPoints, JoinPoints, SendPoints

LEMMA ReadEnds ==
  ASSUME DeveloperApiInv, NEW p \in Requests, req[p].pc # "save", Return(p),
         UNCHANGED <<local, tables, told, sent, ran>>
  PROVE  DeveloperApiInv'
  <1>1. TypeOK BY DEF DeveloperApiInv
  <1>2. Only(p) /\ req'[p].pc = "idle" BY <1>1, ReturnForm, IdleTyped
  <1>3. RequestOK(req[p])' /\ Passes(p) BY <1>2, EndedOK
  <1>4. Proceeds(p) BY <1>2 DEF Proceeds
  <1> QED BY <1>2, <1>3, <1>4, ReadGoes

LEMMA AnswerOK ==
  ASSUME TypeOK, NEW p \in Requests, Reply(p)
  PROVE  /\ Only(p) /\ RequestOK(req[p])' /\ Passes(p)
         /\ req'[p].pc \in {"idle", "save"}
  <1>1. /\ Only(p)
        /\ req'[p].pc \in {"idle", "save"}
        /\ req'[p].pc = "save" => req'[p].body.idem # NoIdem
    BY ReplyForm, IdleTyped DEF Same
  <1> QED BY <1>1, EndedOK

\* The request has its effect in what was read, and its answer.
LEMMA ReadAnswers ==
  ASSUME DeveloperApiInv, NEW p \in Requests, Effect(p), told' \subseteq links,
         UNCHANGED <<local, tables, sent>>
  PROVE  DeveloperApiInv'
  <1>1. Core /\ Caps /\ RetriesOK /\ TypeOK BY Parts DEF Core
  <1>2. UNCHANGED <<keys, idem, sweep, begun, ticks, lost, sent>> BY DEF local
  <1>3. Only(p) /\ RequestOK(req[p])' /\ Passes(p) BY <1>1, AnswerOK DEF Effect
  <1>4. RetriesOK' /\ ran' \in [IdemKeys -> Nat] BY <1>1, <1>2, EffectKeepsRetries
  <1>5. Core' BY <1>1, <1>2, <1>3, <1>4, ReadCore DEF TypeOK
  <1>6. Caps' BY <1>1, <1>3, <1>5, ReadCaps DEF tables
  <1> QED BY <1>4, <1>5, <1>6 DEF DeveloperApiInv, Core, Caps

-----------------------------------------------------------------------------
(* Provisioning: the steps that read.                                      *)

LEMMA ProvisionLookupStep ==
  ASSUME DeveloperApiInv, NEW p \in Requests, ProvisionLookup(p)
  PROVE  DeveloperApiInv'
  <1> DEFINE found == GetAppUserByExternalID(req[p].body.ext, req[p].lane)
             next == IF req[p].lane = "sandbox" /\ MaxUsers > 0 THEN "userCap" ELSE "email"
  <1>a. /\ TypeOK /\ told \subseteq links /\ req[p].pc = "lookup"
        /\ UNCHANGED <<local, tables, sent>>
    BY DEF DeveloperApiInv, LinksOK, ProvisionLookup, At
  <1>1. CASE found = {}
    <2>1. Goto(p, next) /\ UNCHANGED <<told, ran>> /\ next \in Points
      BY <1>1 DEF ProvisionLookup, Points
    <2>2. Only(p) /\ req'[p].pc = next /\ Same(req[p], req'[p]) BY <1>a, <2>1, GotoForm
    <2>3. RequestOK(req[p])' BY <2>2 DEF RequestOK, JoinPoints, SendPoints
    <2>4. Passes(p) BY <2>2 DEF Passes, NotPast, UserPoints, Same
    <2>5. Proceeds(p) BY <1>a, <2>2 DEF Proceeds, Outside, Same
    <2> QED BY <1>a, <2>1, <2>2, <2>3, <2>4, <2>5, ReadGoes
  <1>2. CASE found # {}
    <2>1. PICK l \in found : Provisioned(p, l) BY <1>2 DEF ProvisionLookup
    <2>2. Effect(p) BY <1>a, <1>2, <2>1 DEF ProvisionLookup, Provisioned, Effect, Outside
    <2>3. told' \subseteq links
      BY <1>a, <2>1 DEF Provisioned, GetAppUserByExternalID
    <2> QED BY <1>a, <2>2, <2>3, ReadAnswers
  <1> QED BY <1>1, <1>2

LEMMA RelinkStep ==
  ASSUME DeveloperApiInv, NEW p \in Requests, Relink(p)
  PROVE  DeveloperApiInv'
  <1> DEFINE found == GetAppUserByExternalID(req[p].body.ext, req[p].lane)
  <1>a. /\ told \subseteq links /\ req[p].pc = "relink"
        /\ UNCHANGED <<local, tables, sent>>
    BY DEF DeveloperApiInv, LinksOK, Relink, At
  <1>1. CASE found = {}
    <2>1. Return(p) /\ UNCHANGED <<told, ran>> BY <1>1 DEF Relink
    <2> QED BY <1>a, <2>1, ReadEnds
  <1>2. CASE found # {}
    <2>1. PICK l \in found : Provisioned(p, l) BY <1>2 DEF Relink
    <2>2. Effect(p) BY <1>a, <1>2, <2>1 DEF Relink, Provisioned, Effect, Outside
    <2>3. told' \subseteq links
      BY <1>a, <2>1 DEF Provisioned, GetAppUserByExternalID
    <2> QED BY <1>a, <2>2, <2>3, ReadAnswers
  <1> QED BY <1>1, <1>2

\* An account that was found becomes a member next.
LEMMA FindUserStep ==
  ASSUME DeveloperApiInv, NEW p \in Requests,
         NEW pc \in {"email", "email2", "username"},
         NEW next \in {"createUser", "username", "idle"},
         NEW found \in SUBSET (1..Len(accounts)), FindUser(p, pc, found, next)
  PROVE  DeveloperApiInv'
  <1>a. /\ TypeOK /\ req[p].pc = pc
        /\ UNCHANGED <<local, tables, told, sent, ran>>
    BY DEF DeveloperApiInv, FindUser, At
  <1>b. Len(accounts) \in Nat BY <1>a DEF TypeOK
  <1>1. CASE found = {}
    <2>1. Goto(p, next) /\ next \in Points BY <1>1 DEF FindUser, Points
    <2>2. Only(p) /\ req'[p].pc = next /\ Same(req[p], req'[p]) BY <1>a, <2>1, GotoForm
    <2>3. RequestOK(req[p])' BY <2>2 DEF RequestOK, JoinPoints, SendPoints
    <2>4. Passes(p) BY <1>a, <2>2 DEF Passes, NotPast, UserPoints, Same
    <2>5. Proceeds(p) BY <1>a, <2>2 DEF Proceeds, Outside, Same
    <2> QED BY <1>a, <2>2, <2>3, <2>4, <2>5, ReadGoes
  <1>2. CASE found # {}
    <2>1. PICK u \in found : req' = [req EXCEPT ![p].user = u, ![p].pc = "member"]
      BY <1>2 DEF FindUser
    <2>2. u \in Nat /\ "member" \in Points BY <1>b DEF Points
    <2>3. Only(p) /\ req'[p].pc = "member" /\ req'[p].user = u /\ Same(req[p], req'[p])
      BY <1>a, <2>1, <2>2, UserForm
    <2>4. RequestOK(req[p])'
      <3>1. accounts' = accounts BY <1>a DEF tables
      <3> QED BY <2>3, <3>1 DEF RequestOK, JoinPoints, SendPoints
    <2>5. Passes(p) BY <1>a, <2>3 DEF Passes, NotPast, UserPoints, Same
    <2>6. Proceeds(p) BY <1>a, <2>3 DEF Proceeds, Outside, Same
    <2> QED BY <1>a, <2>3, <2>4, <2>5, <2>6, ReadGoes
  <1> QED BY <1>1, <1>2

\* Every request may pass the check at once: there are less of them than rows
\* and requests together.
LEMMA checkSandboxUsersStep ==
  ASSUME DeveloperApiInv, NEW p \in Requests, checkSandboxUsers(p)
  PROVE  DeveloperApiInv'
  <1>a. /\ TypeOK /\ req[p].pc = "userCap"
        /\ UNCHANGED <<local, tables, told, sent, ran>>
    BY DEF DeveloperApiInv, checkSandboxUsers, At
  <1>1. CASE CountSandboxAppUsers >= MaxUsers
    <2>1. Return(p) BY <1>1 DEF checkSandboxUsers
    <2> QED BY <1>a, <2>1, ReadEnds
  <1>2. CASE ~(CountSandboxAppUsers >= MaxUsers)
    <2>1. Goto(p, "email") /\ "email" \in Points BY <1>2 DEF checkSandboxUsers, Points
    <2>2. Only(p) /\ req'[p].pc = "email" /\ Same(req[p], req'[p]) BY <1>a, <2>1, GotoForm
    <2>3. RequestOK(req[p])' BY <2>2 DEF RequestOK, JoinPoints, SendPoints
    <2>4. Passes(p)
      BY <1>2, <2>2 DEF Passes, NotPast, CountSandboxAppUsers, SandboxLinks
    <2>5. Proceeds(p) BY <1>a, <2>2 DEF Proceeds, Outside, Same
    <2> QED BY <1>a, <2>2, <2>3, <2>4, <2>5, ReadGoes
  <1> QED BY <1>1, <1>2

-----------------------------------------------------------------------------
(* Channels, messages and sessions: the steps that read.                   *)

LEMMA ChannelLookupStep ==
  ASSUME DeveloperApiInv, NEW p \in Requests, NEW pc \in {"chLookup", "chAgain"},
         NEW next \in {"chCap", "idle"}, ChannelLookup(p, pc, next)
  PROVE  DeveloperApiInv'
  <1> DEFINE found == GetChannelByNameInWorkspace(req[p].body.name, req[p].lane)
  <1>a. /\ TypeOK /\ told \subseteq links /\ req[p].pc = pc
        /\ UNCHANGED <<local, tables, told, sent>>
    BY DEF DeveloperApiInv, LinksOK, ChannelLookup, At
  <1>1. CASE found = {}
    <2>1. Goto(p, next) /\ ran' = ran /\ next \in Points BY <1>1 DEF ChannelLookup, Points
    <2>2. Only(p) /\ req'[p].pc = next /\ Same(req[p], req'[p]) BY <1>a, <2>1, GotoForm
    <2>3. RequestOK(req[p])' BY <2>2 DEF RequestOK, JoinPoints, SendPoints
    <2>4. Passes(p) BY <2>2 DEF Passes, NotPast, UserPoints
    <2>5. Proceeds(p) BY <1>a, <2>2 DEF Proceeds, Outside, Same
    <2> QED BY <1>a, <2>1, <2>2, <2>3, <2>4, <2>5, ReadGoes
  <1>2. CASE found # {}
    <2>1. Effect(p) BY <1>a, <1>2 DEF ChannelLookup, Effect, Outside
    <2> QED BY <1>a, <2>1, ReadAnswers
  <1> QED BY <1>1, <1>2

LEMMA checkSandboxChannelsStep ==
  ASSUME DeveloperApiInv, NEW p \in Requests, checkSandboxChannels(p)
  PROVE  DeveloperApiInv'
  <1> DEFINE full == MaxChannels > 0 /\ CountSandboxWorkspaceChannels >= MaxChannels
  <1>a. /\ TypeOK /\ req[p].pc = "chCap"
        /\ UNCHANGED <<local, tables, told, sent, ran>>
    BY DEF DeveloperApiInv, checkSandboxChannels, At
  <1>1. CASE full
    <2>1. Return(p) BY <1>1 DEF checkSandboxChannels
    <2> QED BY <1>a, <2>1, ReadEnds
  <1>2. CASE ~full
    <2>1. Goto(p, "chCreate") /\ "chCreate" \in Points BY <1>2 DEF checkSandboxChannels, Points
    <2>2. Only(p) /\ req'[p].pc = "chCreate" /\ Same(req[p], req'[p]) BY <1>a, <2>1, GotoForm
    <2>3. RequestOK(req[p])' BY <2>2 DEF RequestOK, JoinPoints, SendPoints
    <2>4. Passes(p)
      BY <1>2, <2>2 DEF Passes, NotPast, UserPoints, CountSandboxWorkspaceChannels, SandboxChannels
    <2>5. Proceeds(p) BY <1>a, <2>2 DEF Proceeds, Outside, Same
    <2> QED BY <1>a, <2>2, <2>3, <2>4, <2>5, ReadGoes
  <1> QED BY <1>1, <1>2

LEMMA checkSandboxMessagesStep ==
  ASSUME DeveloperApiInv, NEW p \in Requests, checkSandboxMessages(p)
  PROVE  DeveloperApiInv'
  <1> DEFINE full == MaxMessages > 0 /\ CountWorkspaceMessages("sandbox") >= MaxMessages
  <1>a. /\ TypeOK /\ req[p].pc = "msgCap" /\ RequestOK(req[p])
        /\ UNCHANGED <<local, tables, told, sent, ran>>
    BY DEF DeveloperApiInv, checkSandboxMessages, At, RequestsOK
  <1>1. CASE full
    <2>1. Return(p) BY <1>1 DEF checkSandboxMessages
    <2> QED BY <1>a, <2>1, ReadEnds
  <1>2. CASE ~full
    <2>1. Goto(p, "msgCreate") /\ "msgCreate" \in Points
      BY <1>2 DEF checkSandboxMessages, Points
    <2>2. /\ Only(p) /\ req'[p].pc = "msgCreate" /\ Same(req[p], req'[p])
          /\ req'[p].user = req[p].user /\ req'[p].channel = req[p].channel
      BY <1>a, <2>1, GotoForm
    <2>u. UNCHANGED <<links, channels, serial>> BY <1>a DEF tables
    <2>3. RequestOK(req[p])'
      BY <1>a, <2>2, <2>u DEF RequestOK, JoinPoints, SendPoints, Linked, GetAppUserByUserID, Same
    <2>4. Passes(p)
      BY <1>2, <2>2 DEF Passes, NotPast, UserPoints, CountWorkspaceMessages
    <2>5. Proceeds(p) BY <1>a, <2>2 DEF Proceeds, Outside, Same
    <2> QED BY <1>a, <2>2, <2>3, <2>4, <2>5, ReadGoes
  <1> QED BY <1>1, <1>2

LEMMA CheckMessageQuotaStep ==
  ASSUME DeveloperApiInv, NEW p \in Requests, CheckMessageQuota(p)
  PROVE  DeveloperApiInv'
  <1>a. /\ TypeOK /\ req[p].pc = "quota" /\ RequestOK(req[p])
        /\ UNCHANGED <<local, tables, told, sent, ran>>
    BY DEF DeveloperApiInv, CheckMessageQuota, At, RequestsOK
  <1>1. CASE Return(p) BY <1>1, <1>a, ReadEnds
  <1>2. CASE Goto(p, "msgCreate")
    <2>1. "msgCreate" \in Points BY DEF Points
    <2>2. /\ Only(p) /\ req'[p].pc = "msgCreate" /\ Same(req[p], req'[p])
          /\ req'[p].user = req[p].user /\ req'[p].channel = req[p].channel
      BY <1>a, <1>2, <2>1, GotoForm
    <2>u. UNCHANGED <<links, channels, serial>> BY <1>a DEF tables
    <2>3. RequestOK(req[p])'
      BY <1>a, <2>2, <2>u DEF RequestOK, JoinPoints, SendPoints, Linked, GetAppUserByUserID, Same
    <2>4. Passes(p)
      BY <1>a, <2>2 DEF Passes, NotPast, UserPoints, RequestOK, Same
    <2>5. Proceeds(p) BY <1>a, <2>2 DEF Proceeds, Outside, Same
    <2> QED BY <1>a, <2>2, <2>3, <2>4, <2>5, ReadGoes
  <1> QED BY <1>1, <1>2 DEF CheckMessageQuota

LEMMA resolveUserIDStep ==
  ASSUME DeveloperApiInv, NEW p \in Requests, resolveUserID(p)
  PROVE  DeveloperApiInv'
  <1> DEFINE found == GetAppUserByExternalID(req[p].body.ext, req[p].lane)
  <1>a. /\ TypeOK /\ req[p].pc = "resolve"
        /\ UNCHANGED <<local, tables, told, sent, ran>>
    BY DEF DeveloperApiInv, resolveUserID, At
  <1>1. CASE found = {}
    <2>1. Return(p) BY <1>1 DEF resolveUserID
    <2> QED BY <1>a, <2>1, ReadEnds
  <1>2. CASE found # {}
    <2>1. PICK l \in found : req' = [req EXCEPT ![p].user = l.user, ![p].pc = "chGet"]
      BY <1>2 DEF resolveUserID
    <2>2. /\ l \in links /\ l.lane = req[p].lane /\ l.user \in Nat
          /\ "chGet" \in Points
      BY <1>a DEF GetAppUserByExternalID, TypeOK, Link, Points
    <2>3. Only(p) /\ req'[p].pc = "chGet" /\ req'[p].user = l.user /\ Same(req[p], req'[p])
      BY <1>a, <2>1, <2>2, UserForm
    <2>4. RequestOK(req[p])'
      <3>1. links' = links BY <1>a DEF tables
      <3>2. l \in links' /\ l.user = req'[p].user /\ l.lane = req'[p].lane
        BY <2>2, <2>3, <3>1 DEF Same
      <3>3. Linked(req[p].user, req[p].lane)' BY <3>2 DEF Linked, GetAppUserByUserID
      <3> QED BY <2>3, <3>3 DEF RequestOK, JoinPoints, SendPoints
    <2>5. Passes(p) BY <2>3 DEF Passes, NotPast, UserPoints
    <2>6. Proceeds(p) BY <1>a, <2>3 DEF Proceeds, Outside, Same
    <2> QED BY <1>a, <2>3, <2>4, <2>5, <2>6, ReadGoes
  <1> QED BY <1>1, <1>2

\* The channel that is found is the only one of that id, and of the lane.
LEMMA GetChannelStep ==
  ASSUME DeveloperApiInv, NEW p \in Requests, GetChannel(p)
  PROVE  DeveloperApiInv'
  <1> DEFINE b == req[p].body
             found == GetChannelInWorkspace(b.channel, req[p].lane)
  <1>a. /\ TypeOK /\ told \subseteq links /\ req[p].pc = "chGet" /\ RequestOK(req[p])
        /\ UNCHANGED <<local, tables, told, sent>>
    BY DEF DeveloperApiInv, LinksOK, RequestsOK, GetChannel, At
  <1>1. CASE b.kind = "session" /\ b.channel = 0
    <2>1. Effect(p) BY <1>a, <1>1 DEF GetChannel, Effect, Outside
    <2> QED BY <1>a, <2>1, ReadAnswers
  <1>2. CASE ~(b.kind = "session" /\ b.channel = 0) /\ found = {}
    <2>1. Return(p) /\ ran' = ran BY <1>2 DEF GetChannel
    <2> QED BY <1>a, <2>1, ReadEnds
  <1>3. CASE ~(b.kind = "session" /\ b.channel = 0) /\ found # {}
    <2>1. req' = [req EXCEPT ![p].channel = b.channel, ![p].pc = "isMember"] /\ ran' = ran
      BY <1>3 DEF GetChannel
    <2>2. b.channel \in Nat /\ "isMember" \in Points BY <1>a DEF TypeOK, Request, Input, Points
    <2>3. /\ Only(p) /\ req'[p].pc = "isMember" /\ req'[p].channel = b.channel
          /\ Same(req[p], req'[p]) /\ req'[p].user = req[p].user
      <3>1. PICK n \in Nat : n = b.channel BY <2>2
      <3>2. req' = [req EXCEPT ![p].channel = n, ![p].pc = "isMember"] BY <2>1, <3>1
      <3>3. TypeOK /\ "isMember" \in Points BY <1>a, <2>2
      <3>4. /\ Only(p) /\ req'[p].pc = "isMember" /\ req'[p].channel = n
            /\ Same(req[p], req'[p]) /\ req'[p].user = req[p].user
        BY <3>2, <3>3 DEF Only, Others, Request, Same, TypeOK
      <3> QED BY <3>1, <3>4
    <2>4. PICK c \in channels : c.id = b.channel /\ c.lane = req[p].lane
      BY <1>3 DEF GetChannelInWorkspace
    <2>5. b.channel \in 1..serial["channel"]
      <3>1. c.id \in Nat \ {0} /\ serial["channel"] \in Nat BY <1>a DEF TypeOK, Channel
      <3>2. c.id <= serial["channel"] BY DEF DeveloperApiInv, ChannelsOK
      <3> QED BY <2>4, <3>1, <3>2
    <2>6. \A d \in channels : d.id = b.channel => d.lane = req[p].lane
      BY <2>4 DEF DeveloperApiInv, ChannelsOK
    <2>7. RequestOK(req[p])'
      <3>1. UNCHANGED <<links, channels, serial>> BY <1>a DEF tables
      <3>2. Linked(req[p].user, req[p].lane)'
        BY <1>a, <2>3, <3>1 DEF Linked, GetAppUserByUserID, RequestOK, Same
      <3> QED BY <2>3, <2>5, <2>6, <3>1, <3>2 DEF RequestOK, JoinPoints, SendPoints, Same
    <2>8. Passes(p) BY <2>3 DEF Passes, NotPast, UserPoints
    <2>9. Proceeds(p) BY <1>a, <2>3 DEF Proceeds, Outside, Same
    <2> QED BY <1>a, <2>1, <2>3, <2>7, <2>8, <2>9, ReadGoes
  <1> QED BY <1>1, <1>2, <1>3

\* A member of the channel: a session is answered, a message goes on to the
\* quota or to the cap of its lane.
LEMMA AfterMemberForm ==
  ASSUME TypeOK, NEW p \in Requests, req[p].pc \in JoinPoints, AfterMember(p)
  PROVE  \/ Effect(p)
         \/ /\ Only(p) /\ Same(req[p], req'[p]) /\ ran' = ran
            /\ req'[p].user = req[p].user /\ req'[p].channel = req[p].channel
            /\ \/ req'[p].pc = "quota" /\ req[p].lane = "live"
               \/ req'[p].pc = "msgCap"
  <1>a. "quota" \in Points /\ "msgCap" \in Points BY DEF Points
  <1>1. CASE req[p].body.kind = "session"
    <2>1. Ran(p) /\ Reply(p) BY <1>1 DEF AfterMember
    <2> QED BY <2>1 DEF Effect, Outside, JoinPoints
  <1>2. CASE req[p].body.kind # "session" /\ req[p].lane = "live"
    <2>1. Goto(p, "quota") /\ ran' = ran BY <1>2 DEF AfterMember
    <2> QED BY <1>a, <1>2, <2>1, GotoForm
  <1>3. CASE req[p].body.kind # "session" /\ req[p].lane # "live"
    <2>1. Goto(p, "msgCap") /\ ran' = ran BY <1>3 DEF AfterMember
    <2> QED BY <1>a, <1>3, <2>1, GotoForm
  <1> QED BY <1>1, <1>2, <1>3

LEMMA IsMemberStep ==
  ASSUME DeveloperApiInv, NEW p \in Requests, At(p, "isMember"),
         \/ AfterMember(p)
         \/ Goto(p, "addMember") /\ ran' = ran,
         UNCHANGED <<local, tables, told, sent>>
  PROVE  DeveloperApiInv'
  <1>a. /\ TypeOK /\ told \subseteq links /\ req[p].pc = "isMember" /\ RequestOK(req[p])
        /\ req[p].pc \in JoinPoints
    BY DEF DeveloperApiInv, LinksOK, At, RequestsOK, JoinPoints
  <1>1. CASE Effect(p) BY <1>1, <1>a, ReadAnswers
  <1>2. ASSUME Only(p), Same(req[p], req'[p]), ran' = ran,
               req'[p].user = req[p].user, req'[p].channel = req[p].channel,
               \/ req'[p].pc = "quota" /\ req[p].lane = "live"
               \/ req'[p].pc \in {"msgCap", "addMember"}
        PROVE  DeveloperApiInv'
    <2>u. UNCHANGED <<links, channels, serial>> BY DEF tables
    <2>1. RequestOK(req[p])'
      BY <1>a, <1>2, <2>u
      DEF RequestOK, JoinPoints, SendPoints, Linked, GetAppUserByUserID, Same
    <2>2. Passes(p) BY <1>2 DEF Passes, NotPast, UserPoints
    <2>3. Proceeds(p) BY <1>a, <1>2 DEF Proceeds, Outside, Same
    <2> QED BY <1>a, <1>2, <2>1, <2>2, <2>3, ReadGoes
  <1>3. CASE AfterMember(p) BY <1>a, <1>1, <1>2, <1>3, AfterMemberForm
  <1>4. CASE Goto(p, "addMember") /\ ran' = ran
    <2>1. "addMember" \in Points BY DEF Points
    <2> QED BY <1>a, <1>2, <1>4, <2>1, GotoForm
  <1> QED BY <1>3, <1>4

-----------------------------------------------------------------------------
(* Requests begin, are answered from what was stored, store, and stop.     *)

LEMMA APIKeyMiddlewareStep ==
  ASSUME DeveloperApiInv, NEW p \in Requests, NEW k \in Keys, NEW b \in Inputs,
         APIKeyMiddleware(p, k, b)
  PROVE  DeveloperApiInv'
  <1> DEFINE row == [Idle EXCEPT !.pc = "idem", !.lane = Lane[k], !.body = b]
  <1>a. /\ Core /\ Caps /\ RetriesOK /\ TypeOK /\ req[p].pc = "idle"
        /\ UNCHANGED <<keys, tables, idem, sweep, ticks, told, sent, ran, lost>>
    BY Parts DEF Core, APIKeyMiddleware, At, observed
  <1>1. row \in Request /\ row.pc = "idem" /\ row.lane = Lane[k]
    <2>1. Lane[k] \in Lanes /\ b \in Input BY DeveloperApiAssumption
    <2> QED BY <2>1, IdleTyped DEF Request, Points
  <1> HIDE DEF row
  <1>2. req' = [req EXCEPT ![p] = row] BY DEF APIKeyMiddleware, row
  <1>3. Only(p) /\ req'[p].pc = "idem" BY <1>a, <1>1, <1>2 DEF Only, Others, TypeOK
  <1>4. begun' \in 0..MaxBegun
    <2>1. begun \in 0..MaxBegun /\ begun < MaxBegun /\ begun' = begun + 1 /\ MaxBegun \in Nat
      BY <1>a, DeveloperApiAssumption DEF TypeOK, APIKeyMiddleware
    <2> QED BY <2>1
  <1>5. RequestOK(req[p])' /\ Passes(p)
    BY <1>3 DEF RequestOK, Passes, NotPast, UserPoints, JoinPoints, SendPoints
  <1>6. Core' BY <1>a, <1>3, <1>4, <1>5, ReadCore DEF TypeOK, Core, LinksOK
  <1>7. Caps' BY <1>a, <1>3, <1>5, <1>6, ReadCaps DEF tables
  <1>8. RetriesOK'
    <2>1. ASSUME NEW i \in IdemKeys PROVE Under(i)' = Under(i) /\ Saving(i)' = Saving(i)
      BY <1>a, <1>3 DEF Under, Saving, Only, Others
    <2> QED BY <1>a, <2>1 DEF RetriesOK
  <1> QED BY <1>6, <1>7, <1>8 DEF DeveloperApiInv, Core, Caps

LEMMA FirstPointForm ==
  ASSUME NEW kind \in Kinds, NEW lane
  PROVE  /\ FirstPoint(kind, lane) \in {"lookup", "chLookup", "chCreate", "resolve"}
         /\ FirstPoint(kind, lane) = "chCreate" => lane # "sandbox"
  BY DEF FirstPoint, Kinds

\* A key without an answer may let another request run; one with an answer
\* only if reading it failed.
LEMMA IdempotencyLookupStep ==
  ASSUME DeveloperApiInv, NEW p \in Requests, IdempotencyLookup(p)
  PROVE  DeveloperApiInv'
  <1> DEFINE r == req[p]
             found == r.body.idem # NoIdem /\ GetIdempotencyKey(r.body.idem) # NoAnswer
  <1>a. /\ Core /\ Caps /\ RetriesOK /\ TypeOK /\ told \subseteq links /\ req[p].pc = "idem"
        /\ UNCHANGED <<keys, tables, idem, sweep, begun, ticks, told, sent, ran>>
        /\ r.body.idem \in IdemKeys \cup {NoIdem} /\ r.body.kind \in Kinds
    BY Parts DEF Core, LinksOK, IdempotencyLookup, At, TypeOK, Request, Input
  <1>1. CASE Return(p) /\ lost' = lost
    BY <1>a, <1>1, ReadEnds DEF local
  <1>2. CASE /\ lost' = IF found THEN lost \cup {r.body.idem} ELSE lost
             /\ Goto(p, FirstPoint(r.body.kind, r.lane))
    <2>1. PICK pc \in {"lookup", "chLookup", "chCreate", "resolve"} :
            pc = FirstPoint(r.body.kind, r.lane) /\ (pc = "chCreate" => r.lane # "sandbox")
      BY <1>a, FirstPointForm
    <2>2. Goto(p, pc) /\ pc \in Points BY <1>2, <2>1 DEF Points
    <2>3. Only(p) /\ req'[p].pc = pc /\ Same(req[p], req'[p]) BY <1>a, <2>2, GotoForm
    <2>4. RequestOK(req[p])' BY <2>3 DEF RequestOK, JoinPoints, SendPoints
    <2>5. Passes(p) BY <2>1, <2>3 DEF Passes, NotPast, UserPoints, Same
    <2>6. lost' \subseteq IdemKeys /\ lost \subseteq lost' BY <1>a, <1>2 DEF TypeOK
    <2>7. Core' BY <1>a, <2>3, <2>4, <2>6, ReadCore DEF TypeOK
    <2>8. Caps' BY <1>a, <2>3, <2>5, <2>7, ReadCaps DEF tables
    <2>9. RetriesOK'
      <3> SUFFICES ASSUME NEW k \in IdemKeys \ lost'
                   PROVE  IF idem[k] = NoAnswer
                          THEN ran[k] <= Cardinality(Saving(k)')
                          ELSE ran[k] + Cardinality(Under(k)') <= Cardinality(Requests)
        BY <1>a DEF RetriesOK
      <3>1. Saving(k)' = Saving(k)
        BY <1>a, <2>3 DEF Saving, Only, Others
      <3>2. idem[k] # NoAnswer => r.body.idem # k
        BY <1>2, DeveloperApiAssumption DEF GetIdempotencyKey
      <3>3. idem[k] # NoAnswer => Under(k)' = Under(k)
        BY <1>a, <2>3, <3>2 DEF Under, Only, Others, Same
      <3>4. k \in IdemKeys \ lost BY <2>6
      <3> QED BY <1>a, <3>1, <3>3, <3>4 DEF RetriesOK
    <2> QED BY <2>7, <2>8, <2>9 DEF DeveloperApiInv, Core, Caps
  <1> QED BY <1>1, <1>2 DEF IdempotencyLookup

\* The answer is stored: from now on only the requests that already passed the
\* lookup have an effect.
LEMMA SaveIdempotencyStep ==
  ASSUME DeveloperApiInv, NEW p \in Requests, SaveIdempotency(p)
  PROVE  DeveloperApiInv'
  <1> DEFINE i == req[p].body.idem
             answer == [kind |-> req[p].body.kind, lane |-> req[p].lane]
  <1>a. /\ Core /\ Caps /\ RetriesOK /\ TypeOK /\ told \subseteq links /\ req[p].pc = "save"
        /\ UNCHANGED <<keys, tables, sweep, begun, ticks, told, sent, ran, lost>>
        /\ i \in IdemKeys /\ Return(p)
        /\ idem' = IF idem[i] = NoAnswer THEN [idem EXCEPT ![i] = answer] ELSE idem
    BY Parts
    DEF Core, LinksOK, SaveIdempotency, At, TypeOK, Request, Input, RequestsOK, RequestOK, observed
  <1>1. answer \in Answer /\ answer # NoAnswer
    <2>1. req[p].body.kind \in Kinds /\ req[p].lane \in Lanes BY <1>a DEF TypeOK, Request, Input
    <2> QED BY <2>1 DEF Answer, NoAnswer, Kinds
  <1> HIDE DEF answer
  <1>2. Only(p) /\ req'[p].pc = "idle" BY <1>a, ReturnForm, IdleTyped
  <1>3. RequestOK(req[p])' /\ Passes(p) BY <1>2, EndedOK
  <1>4. idem' \in [IdemKeys -> Answer \cup {NoAnswer}] BY <1>a, <1>1 DEF TypeOK
  <1>5. Core' BY <1>a, <1>2, <1>3, <1>4, ReadCore DEF TypeOK
  <1>6. Caps' BY <1>a, <1>2, <1>3, <1>5, ReadCaps DEF tables
  <1>7. RetriesOK'
    <2> SUFFICES ASSUME NEW k \in IdemKeys \ lost
                 PROVE  IF idem'[k] = NoAnswer
                        THEN ran[k] <= Cardinality(Saving(k)')
                        ELSE ran[k] + Cardinality(Under(k)') <= Cardinality(Requests)
      BY <1>a DEF RetriesOK
    <2>1. Under(k)' = Under(k) BY <1>a, <1>2 DEF Under, Only, Others
    <2>2. CASE i # k
      <3>1. idem'[k] = idem[k] BY <1>a, <2>2 DEF TypeOK
      <3>2. Saving(k)' = Saving(k) BY <1>a, <1>2, <2>2 DEF Saving, Only, Others
      <3> QED BY <1>a, <2>1, <3>1, <3>2 DEF RetriesOK
    <2>3. CASE i = k /\ idem[k] # NoAnswer
      <3>1. idem' = idem BY <1>a, <2>3
      <3> QED BY <1>a, <2>1, <2>3, <3>1 DEF RetriesOK
    <2>4. CASE i = k /\ idem[k] = NoAnswer
      <3>1. idem'[k] # NoAnswer BY <1>a, <1>1, <2>4 DEF TypeOK
      <3>2. ran[k] <= Cardinality(Saving(k)) /\ ran[k] \in Nat
        BY <1>a, <2>4 DEF RetriesOK, TypeOK
      <3>3. Cardinality(Saving(k)) + Cardinality(Under(k)) <= Cardinality(Requests)
        <4>1. Saving(k) \cup Under(k) \in SUBSET Requests /\ Saving(k) \cap Under(k) = {}
          BY DEF Saving, Under
        <4>2. Cardinality(Saving(k) \cup Under(k))
                = Cardinality(Saving(k)) + Cardinality(Under(k)) - Cardinality({})
          BY <4>1, UnderFinite, FS_Union
        <4>3. Cardinality(Saving(k) \cup Under(k)) <= Cardinality(Requests)
          BY <4>1, RequestsFinite, FS_Subset
        <4> QED BY <4>2, <4>3, UnderFinite, FS_EmptySet
      <3> QED BY <2>1, <3>1, <3>2, <3>3, UnderFinite, RequestsFinite
    <2> QED BY <2>2, <2>3, <2>4
  <1> QED BY <1>5, <1>6, <1>7 DEF DeveloperApiInv, Core, Caps

\* A request that stops takes its key out of account.
LEMMA FailStep ==
  ASSUME DeveloperApiInv, NEW p \in Requests, Fail(p)
  PROVE  DeveloperApiInv'
  <1> DEFINE i == req[p].body.idem
  <1>a. /\ Core /\ Caps /\ RetriesOK /\ TypeOK /\ told \subseteq links
        /\ UNCHANGED <<keys, tables, idem, sweep, begun, ticks, told, sent, ran>>
        /\ i \in IdemKeys \cup {NoIdem} /\ Return(p)
        /\ lost' = IF i = NoIdem THEN lost ELSE lost \cup {i}
    BY Parts DEF Core, LinksOK, Fail, TypeOK, Request, Input
  <1>1. Only(p) /\ req'[p].pc = "idle" BY <1>a, ReturnForm, IdleTyped
  <1>2. RequestOK(req[p])' /\ Passes(p) BY <1>1, EndedOK
  <1>3. lost' \subseteq IdemKeys /\ lost \subseteq lost' BY <1>a DEF TypeOK
  <1>4. Core' BY <1>a, <1>1, <1>2, <1>3, ReadCore DEF TypeOK
  <1>5. Caps' BY <1>a, <1>1, <1>2, <1>4, ReadCaps DEF tables
  <1>6. RetriesOK'
    <2> SUFFICES ASSUME NEW k \in IdemKeys \ lost'
                 PROVE  IF idem[k] = NoAnswer
                        THEN ran[k] <= Cardinality(Saving(k)')
                        ELSE ran[k] + Cardinality(Under(k)') <= Cardinality(Requests)
      BY <1>a DEF RetriesOK
    <2>1. k # i /\ k \in IdemKeys \ lost BY <1>a, <1>3, DeveloperApiAssumption
    <2>2. Saving(k)' = Saving(k) /\ Under(k)' = Under(k)
      BY <1>1, <2>1 DEF Saving, Under, Only, Others
    <2> QED BY <1>a, <2>1, <2>2 DEF RetriesOK
  <1> QED BY <1>4, <1>5, <1>6 DEF DeveloperApiInv, Core, Caps

-----------------------------------------------------------------------------
(* Provisioning: the steps that write.                                     *)

\* A new account, or a new member, changes nothing else.
LEMMA JoinStep ==
  ASSUME DeveloperApiInv, NEW p \in Requests, Only(p), Proceeds(p), Passes(p),
         UNCHANGED <<local, links, channels, messages, serial, told, sent, ran>>,
         accounts' \in Seq([email : Names, username : Names]),
         Len(accounts') >= Len(accounts),
         members' \in [Lanes -> SUBSET (1..Len(accounts'))],
         \A l \in Lanes : members[l] \subseteq members'[l],
         RequestOK(req[p])'
  PROVE  DeveloperApiInv'
  <1>a. Core /\ Caps /\ RetriesOK /\ TypeOK BY Parts DEF Core
  <1>u. UNCHANGED <<keys, idem, sweep, begun, ticks, lost, links, channels, messages, serial,
                    told, sent, ran>>
    BY DEF local
  <1>1. TypeOK' BY <1>a, <1>u DEF TypeOK, Only
  <1>2. RequestsOK'
    <2>1. Grows BY <1>a, <1>u DEF Grows, TypeOK
    <2> QED BY <1>a, <1>1, <2>1, RequestsKept DEF Core, TypeOK
  <1>3. LinksOK' /\ ChannelsOK' /\ FinitelyMany'
    BY <1>a, <1>u DEF Core, LinksOK, ChannelsOK, FinitelyMany
  <1>4. LanesDoNotMix'
    <2>1. LinkedIsMember' BY <1>a, <1>u DEF Core, LanesDoNotMix, LinkedIsMember, TypeOK, Link
    <2>2. SenderIsLinked' /\ SentWasStored'
      BY <1>a, <1>u
      DEF Core, LanesDoNotMix, SenderIsLinked, SentWasStored, Stored, GetAppUserByUserID, MessagesOf
    <2> QED BY <2>1, <2>2 DEF LanesDoNotMix
  <1>5. Core' BY <1>1, <1>2, <1>3, <1>4 DEF Core
  <1>6. Caps' BY <1>a, <1>u, <1>5, ReadCaps
  <1>7. RetriesOK' BY <1>a, <1>u, ProceedsKeepsRetries
  <1> QED BY <1>5, <1>6, <1>7 DEF DeveloperApiInv, Core, Caps

LEMMA CreateUserStep ==
  ASSUME DeveloperApiInv, NEW p \in Requests, CreateUser(p)
  PROVE  DeveloperApiInv'
  <1> DEFINE b == req[p].body
             taken == GetUserByEmail(b.email) # {} \/ GetUserByUsername(b.username) # {}
  <1>a. /\ TypeOK /\ req[p].pc = "createUser"
        /\ UNCHANGED <<local, members, links, channels, messages, serial, told, sent, ran>>
    BY DEF DeveloperApiInv, CreateUser, At
  <1>b. /\ accounts \in Seq([email : Names, username : Names]) /\ Len(accounts) \in Nat
        /\ members \in [Lanes -> SUBSET (1..Len(accounts))]
        /\ b.email \in Names /\ b.username \in Names
    BY <1>a DEF TypeOK, Request, Input
  <1>1. CASE taken
    <2>1. Goto(p, "email2") /\ accounts' = accounts /\ "email2" \in Points
      BY <1>1 DEF CreateUser, Points
    <2>2. Only(p) /\ req'[p].pc = "email2" /\ Same(req[p], req'[p]) BY <1>a, <2>1, GotoForm
    <2>3. RequestOK(req[p])' BY <2>2 DEF RequestOK, JoinPoints, SendPoints
    <2>4. Passes(p) BY <1>a, <2>2 DEF Passes, NotPast, UserPoints, Same
    <2>5. Proceeds(p) BY <1>a, <2>2 DEF Proceeds, Outside, Same
    <2>6. UNCHANGED tables BY <1>a, <2>1 DEF tables
    <2> QED BY <1>a, <2>2, <2>3, <2>4, <2>5, <2>6, ReadGoes
  <1>2. CASE ~taken
    <2>1. /\ accounts' = Append(accounts, [email |-> b.email, username |-> b.username])
          /\ req' = [req EXCEPT ![p].user = Len(accounts) + 1, ![p].created = TRUE,
                                ![p].pc = "member"]
      BY <1>2 DEF CreateUser, InsertUser
    <2>2. /\ accounts' \in Seq([email : Names, username : Names])
          /\ Len(accounts') = Len(accounts) + 1
      BY <1>b, <2>1
    <2>3. /\ Only(p) /\ req'[p].pc = "member" /\ req'[p].user = Len(accounts) + 1
          /\ Same(req[p], req'[p])
      <3>1. PICK u \in Nat : u = Len(accounts) + 1 BY <1>b
      <3>2. req' = [req EXCEPT ![p].user = u, ![p].created = TRUE, ![p].pc = "member"]
        BY <2>1, <3>1
      <3> QED BY <1>a, <3>1, <3>2, CreatedForm
    <2>4. RequestOK(req[p])'
      <3>1. req'[p].user \in 1..Len(accounts') BY <1>b, <2>2, <2>3
      <3> QED BY <2>3, <3>1 DEF RequestOK, JoinPoints, SendPoints
    <2>5. Passes(p) BY <1>a, <2>3 DEF Passes, NotPast, UserPoints, Same
    <2>6. Proceeds(p) BY <1>a, <2>3 DEF Proceeds, Outside, Same
    <2>7. /\ members' \in [Lanes -> SUBSET (1..Len(accounts'))]
          /\ Len(accounts') >= Len(accounts)
          /\ \A l \in Lanes : members[l] \subseteq members'[l]
      BY <1>a, <1>b, <2>2
    <2> QED BY <1>a, <2>2, <2>3, <2>4, <2>5, <2>6, <2>7, JoinStep
  <1> QED BY <1>1, <1>2

LEMMA ensureWorkspaceMemberStep ==
  ASSUME DeveloperApiInv, NEW p \in Requests, ensureWorkspaceMember(p)
  PROVE  DeveloperApiInv'
  <1>a. /\ TypeOK /\ req[p].pc = "member" /\ RequestOK(req[p])
        /\ UNCHANGED <<local, accounts, links, channels, messages, serial, told, sent, ran>>
        /\ members' = [members EXCEPT ![req[p].lane] = @ \cup {req[p].user}]
        /\ Goto(p, "link") /\ "link" \in Points
    BY DEF DeveloperApiInv, RequestsOK, ensureWorkspaceMember, At, Points
  <1>b. /\ accounts \in Seq([email : Names, username : Names]) /\ Len(accounts) \in Nat
        /\ members \in [Lanes -> SUBSET (1..Len(accounts))] /\ req[p].lane \in Lanes
        /\ req[p].user \in 1..Len(accounts)
    BY <1>a DEF TypeOK, Request, RequestOK
  <1>1. /\ Only(p) /\ req'[p].pc = "link" /\ Same(req[p], req'[p])
        /\ req'[p].user = req[p].user
    BY <1>a, GotoForm
  <1>2. /\ members' \in [Lanes -> SUBSET (1..Len(accounts'))]
        /\ \A l \in Lanes : members[l] \subseteq members'[l]
        /\ req[p].user \in members'[req[p].lane]
    BY <1>a, <1>b
  <1>3. RequestOK(req[p])' BY <1>a, <1>b, <1>1, <1>2 DEF RequestOK, JoinPoints, SendPoints, Same
  <1>4. Passes(p) BY <1>a, <1>1 DEF Passes, NotPast, UserPoints, Same
  <1>5. Proceeds(p) BY <1>a, <1>1 DEF Proceeds, Outside, Same
  <1>6. accounts' \in Seq([email : Names, username : Names]) /\ Len(accounts') >= Len(accounts)
    BY <1>a, <1>b
  <1> QED BY <1>a, <1>1, <1>2, <1>3, <1>4, <1>5, <1>6, JoinStep

\* A link is inserted if neither its external id nor its user has one.
LEMMA CreateAppUserStep ==
  ASSUME DeveloperApiInv, NEW p \in Requests, CreateAppUser(p)
  PROVE  DeveloperApiInv'
  <1> DEFINE r == req[p]
             new == [ext |-> r.body.ext, user |-> r.user, lane |-> r.lane]
  <1>a. /\ Core /\ Caps /\ RetriesOK /\ TypeOK /\ RequestsOK /\ r.pc = "link" /\ RequestOK(r)
        /\ UNCHANGED <<keys, idem, sweep, begun, ticks, lost, accounts, members, channels,
                       messages, serial>>
    BY Parts DEF Core, RequestsOK, CreateAppUser, At, local
  <1>b. /\ r.body.ext \in Externals /\ r.lane \in Lanes /\ r.user \in 1..Len(accounts)
        /\ Len(accounts) \in Nat /\ r.user \in members[r.lane]
    BY <1>a DEF TypeOK, Request, Input, RequestOK
  <1>1. CASE LinkTaken(new)
    <2>1. Goto(p, "relink") /\ UNCHANGED <<links, told, sent, ran>> /\ "relink" \in Points
      BY <1>1 DEF CreateAppUser, Points
    <2>2. Only(p) /\ req'[p].pc = "relink" /\ Same(req[p], req'[p]) BY <1>a, <2>1, GotoForm
    <2>3. RequestOK(req[p])' BY <2>2 DEF RequestOK, JoinPoints, SendPoints
    <2>4. Passes(p) BY <2>2 DEF Passes, NotPast, UserPoints
    <2>5. Proceeds(p) BY <1>a, <2>2 DEF Proceeds, Outside, Same
    <2>6. UNCHANGED <<local, tables>> BY <1>a, <2>1 DEF tables, local
    <2> QED BY <2>1, <2>2, <2>3, <2>4, <2>5, <2>6, ReadGoes
  <1>2. CASE ~LinkTaken(new)
    <2>a. /\ links' = links \cup {new} /\ told' = told \cup {new}
          /\ Ran(p) /\ Reply(p)
      BY <1>2 DEF CreateAppUser, Provisioned
    <2>s. \/ sent' = sent
          \/ sent' = sent \cup {<<"provision", new.user>>} /\ new.lane # "sandbox"
      BY <1>2 DEF CreateAppUser, dispatch
    <2>b. new \in Link /\ new.user \in Nat BY <1>b DEF Link
    <2>c. new.lane = r.lane /\ new.user = r.user OBVIOUS
    <2>d. \A l \in links : l.lane = new.lane => l.ext # new.ext /\ l.user # new.user
      BY <1>2 DEF LinkTaken, GetAppUserByExternalID, GetAppUserByUserID
    <2>e. Effect(p) BY <1>a, <2>a DEF Effect, Outside
    <2> HIDE DEF new
    <2>1. Only(p) /\ RequestOK(req[p])' /\ Passes(p) /\ req'[p].pc \in {"idle", "save"}
      BY <1>a, <2>a, AnswerOK
    <2>2. RetriesOK' /\ ran' \in [IdemKeys -> Nat] BY <1>a, <2>e, EffectKeepsRetries
    <2>3. sent' \subseteq (Kinds \X Nat) BY <1>a, <2>b, <2>s DEF TypeOK, Kinds
    <2>4. TypeOK'
      <3>1. links' \subseteq Link /\ told' \subseteq Link BY <1>a, <2>a, <2>b DEF TypeOK
      <3> QED BY <1>a, <2>1, <2>2, <2>3, <3>1 DEF TypeOK, Only
    <2>5. RequestsOK'
      <3>1. Grows BY <1>a, <2>a DEF Grows, TypeOK
      <3> QED BY <1>a, <2>1, <2>4, <3>1, RequestsKept DEF TypeOK
    <2>6. LinksOK' BY <1>a, <2>a, <2>d DEF Core, LinksOK
    <2>7. ChannelsOK' BY <1>a DEF Core, ChannelsOK
    <2>8. FinitelyMany'
      <3>1. IsFiniteSet(links \cup {new}) BY <1>a, FS_AddElement DEF Core, FinitelyMany
      <3> QED BY <1>a, <2>a, <3>1 DEF Core, FinitelyMany
    <2>9. LanesDoNotMix'
      <3>1. LinkedIsMember'
        BY <1>a, <1>b, <2>a, <2>c DEF Core, LanesDoNotMix, LinkedIsMember
      <3>2. SenderIsLinked'
        BY <1>a, <2>a DEF Core, LanesDoNotMix, SenderIsLinked, GetAppUserByUserID
      <3>3. SentWasStored'
        <4> SUFFICES ASSUME NEW e \in sent' PROVE Stored(e)' BY DEF SentWasStored
        <4>1. CASE e \in sent
          BY <1>a, <2>a, <4>1
          DEF Core, LanesDoNotMix, SentWasStored, Stored, GetAppUserByUserID, MessagesOf
        <4>2. CASE e = <<"provision", new.user>> /\ new.lane # "sandbox"
          <5>1. new.lane = "live" BY <1>b, <2>c, <4>2 DEF Lanes
          <5>2. e[1] = "provision" /\ GetAppUserByUserID(e[2], "live")' # {}
            BY <2>a, <4>2, <5>1 DEF GetAppUserByUserID
          <5> QED BY <5>2 DEF Stored
        <4> QED BY <2>s, <4>1, <4>2
      <3> QED BY <3>1, <3>2, <3>3 DEF LanesDoNotMix
    <2>10. Core' BY <2>3, <2>4, <2>5, <2>6, <2>7, <2>8, <2>9 DEF Core
    <2>11. UserCapOK'
      <3> SUFFICES ASSUME MaxUsers > 0
                   PROVE  (Cardinality(SandboxLinks) + Cardinality(Provisioning)
                             < MaxUsers + Cardinality(Requests))'
        BY DEF UserCapOK
      <3>1. IsFiniteSet(SandboxLinks) BY <1>a, FinitelyManyOfEach DEF Core, Finite
      <3>2. Cardinality(SandboxLinks) + Cardinality(Provisioning)
              < MaxUsers + Cardinality(Requests)
        BY <1>a DEF Caps, UserCapOK
      <3>3. Provisioning \in SUBSET Requests BY DEF Provisioning, PastCap
      <3>4. Provisioning' \in SUBSET (Provisioning \ {p})
        BY <2>1, PastLeft DEF Provisioning
      <3>5. CASE r.lane = "sandbox"
        <4>1. p \in Provisioning BY <1>a, <3>5 DEF Provisioning, PastCap
        <4>2. SandboxLinks' \in SUBSET (SandboxLinks \cup {new}) BY <2>a DEF SandboxLinks
        <4> QED BY <3>1, <3>2, <3>3, <3>4, <4>1, <4>2, CapTyped, CapInsert
      <3>6. CASE r.lane # "sandbox"
        <4>1. SandboxLinks' = SandboxLinks BY <2>a, <2>c, <3>6 DEF SandboxLinks
        <4>2. Provisioning' \in SUBSET Provisioning BY <3>4
        <4>3. Cardinality(SandboxLinks) <= Cardinality(SandboxLinks)
          BY <3>1, FS_CardinalityType
        <4> QED BY <3>1, <3>2, <3>3, <4>1, <4>2, <4>3, CapTyped, CapKept
      <3> QED BY <3>5, <3>6
    <2>12. ChannelCapOK' /\ MessageCapOK'
      <3>1. SandboxChannels' = SandboxChannels /\ MessagesOf("sandbox")' = MessagesOf("sandbox")
        BY <1>a DEF SandboxChannels, MessagesOf
      <3>2. FinitelyMany /\ FinitelyMany' BY <1>a, <2>8 DEF Core
      <3>3. /\ Cardinality(SandboxChannels') <= Cardinality(SandboxChannels)
            /\ Cardinality(MessagesOf("sandbox")') <= Cardinality(MessagesOf("sandbox"))
        BY <3>1, <3>2, FinitelyManyOfEach, FS_CardinalityType DEF Finite
      <3> QED BY <1>a, <2>1, <3>2, <3>3, ChannelCapKept, MessageCapKept DEF Caps
    <2> QED BY <2>2, <2>10, <2>11, <2>12 DEF DeveloperApiInv, Core
  <1> QED BY <1>1, <1>2

-----------------------------------------------------------------------------
(* Channels and messages: the steps that write.                            *)

\* The channels with their ids and lanes, whoever joined and however old.
SameChannels ==
  /\ channels' \subseteq Channel
  /\ \A d \in channels' : \E c \in channels : c.id = d.id /\ c.lane = d.lane
  /\ \A c \in channels : \E d \in channels' : d.id = c.id /\ d.lane = c.lane
  /\ \A c, d \in channels' : c.id = d.id => c = d
  /\ IsFiniteSet(channels')
  /\ Cardinality(SandboxChannels') <= Cardinality(SandboxChannels)

LEMMA ChannelsMapped ==
  ASSUME ChannelsOK, FinitelyMany, NEW f \in [channels -> Channel],
         \A c \in channels : f[c].id = c.id /\ f[c].lane = c.lane,
         channels' = {f[c] : c \in channels}
  PROVE  SameChannels
  <1>1. /\ channels' \subseteq Channel
        /\ \A d \in channels' : \E c \in channels : c.id = d.id /\ c.lane = d.lane
        /\ \A c \in channels : \E d \in channels' : d.id = c.id /\ d.lane = c.lane
    OBVIOUS
  <1>2. \A c, d \in channels' : c.id = d.id => c = d BY DEF ChannelsOK
  <1>3. IsFiniteSet(channels')
    <2>1. f \in [channels -> channels'] /\ \A d \in channels' : \E c \in channels : f[c] = d
      OBVIOUS
    <2> QED BY <2>1, ImageFinite DEF FinitelyMany
  <1>4. Cardinality(SandboxChannels') <= Cardinality(SandboxChannels)
    <2> DEFINE g == [c \in SandboxChannels |-> f[c]]
    <2>1. g \in [SandboxChannels -> SandboxChannels'] BY DEF SandboxChannels
    <2>2. \A d \in SandboxChannels' : \E c \in SandboxChannels : g[c] = d
      BY DEF SandboxChannels
    <2>3. IsFiniteSet(SandboxChannels) BY FinitelyManyOfEach DEF Finite
    <2> HIDE DEF g
    <2> QED BY <2>1, <2>2, <2>3, ImageFinite
  <1> QED BY <1>1, <1>2, <1>3, <1>4 DEF SameChannels

LEMMA AddMemberMaps ==
  ASSUME TypeOK, ChannelsOK, FinitelyMany, NEW id, NEW u \in Nat, AddChannelMember(id, u)
  PROVE  SameChannels
  <1> DEFINE f == [c \in channels |->
                     IF c.id = id THEN [c EXCEPT !.members = @ \cup {u}] ELSE c]
  <1>1. ASSUME NEW c \in channels
        PROVE  f[c] \in Channel /\ f[c].id = c.id /\ f[c].lane = c.lane
    <2>1. c \in Channel BY DEF TypeOK
    <2> QED BY <2>1 DEF Channel
  <1>2. f \in [channels -> Channel] BY <1>1
  <1>3. channels' = {f[c] : c \in channels} BY DEF AddChannelMember
  <1> HIDE DEF f
  <1> QED BY <1>1, <1>2, <1>3, ChannelsMapped

\* Who joins changes no lane; what is announced has to be stored.
LEMMA SameChannelsCore ==
  ASSUME Core, NEW p \in Requests, Only(p), SameChannels, RequestOK(req[p])',
         UNCHANGED <<local, accounts, members, links, messages, serial, told>>,
         ran' \in [IdemKeys -> Nat],
         sent' \subseteq (Kinds \X Nat), \A e \in sent' : e \in sent \/ Stored(e)'
  PROVE  Core'
  <1>u. UNCHANGED <<keys, idem, sweep, begun, ticks, lost, accounts, members, links,
                    messages, serial, told>>
    BY DEF local
  <1>1. TypeOK' BY <1>u DEF Core, TypeOK, Only, SameChannels
  <1>2. RequestsOK'
    <2>1. TypeOK /\ RequestsOK BY DEF Core
    <2>2. Grows BY <1>u, <2>1 DEF Grows, TypeOK, SameChannels
    <2> QED BY <1>1, <2>1, <2>2, RequestsKept DEF TypeOK
  <1>3. LinksOK' BY <1>u DEF Core, LinksOK
  <1>4. ChannelsOK' BY <1>u DEF Core, ChannelsOK, SameChannels
  <1>5. FinitelyMany' BY <1>u DEF Core, FinitelyMany, SameChannels
  <1>6. LanesDoNotMix'
    <2>1. LinkedIsMember' BY <1>u DEF Core, LanesDoNotMix, LinkedIsMember
    <2>2. SenderIsLinked'
      BY <1>u DEF Core, LanesDoNotMix, SenderIsLinked, GetAppUserByUserID, SameChannels
    <2>3. ASSUME NEW e \in sent PROVE Stored(e)'
      <3>1. Stored(e) BY DEF Core, LanesDoNotMix, SentWasStored
      <3> QED BY <1>u, <3>1 DEF Stored, GetAppUserByUserID, MessagesOf, SameChannels
    <2>4. SentWasStored' BY <2>3 DEF SentWasStored
    <2> QED BY <2>1, <2>2, <2>4 DEF LanesDoNotMix
  <1> QED BY <1>1, <1>2, <1>3, <1>4, <1>5, <1>6 DEF Core

LEMMA SameMessages ==
  ASSUME SameChannels, messages' = messages
  PROVE  \A lane : MessagesOf(lane)' = MessagesOf(lane)
  BY DEF SameChannels, MessagesOf

LEMMA SameChannelsCaps ==
  ASSUME Core, Caps, Core', NEW p \in Requests, Only(p), Passes(p), SameChannels,
         links' = links, messages' = messages
  PROVE  Caps'
  <1>1. MessagesOf("sandbox")' = MessagesOf("sandbox") BY SameMessages
  <1>2. FinitelyMany /\ FinitelyMany' BY DEF Core
  <1>3. /\ Cardinality(SandboxChannels') <= Cardinality(SandboxChannels)
        /\ Cardinality(MessagesOf("sandbox")') <= Cardinality(MessagesOf("sandbox"))
    BY <1>1, <1>2, FinitelyManyOfEach, FS_CardinalityType DEF Finite, SameChannels
  <1> QED BY <1>2, <1>3, UserCapKept, ChannelCapKept, MessageCapKept DEF Caps

LEMMA ChannelMemberStep ==
  ASSUME DeveloperApiInv, NEW p \in Requests, ChannelMember(p)
  PROVE  DeveloperApiInv'
  <1> DEFINE r == req[p]
  <1>a. /\ Core /\ Caps /\ RetriesOK /\ TypeOK /\ r.pc = "chMember" /\ RequestOK(r)
        /\ UNCHANGED <<local, accounts, members, links, messages, serial, told>>
    BY Parts DEF Core, RequestsOK, ChannelMember, At
  <1>1. CASE CanAddChannelMember(r.channel, Owner)
    <2>1. AddChannelMember(r.channel, Owner) /\ Ran(p) /\ Reply(p)
      BY <1>1 DEF ChannelMember
    <2>s. \/ sent' = sent
          \/ sent' = sent \cup {<<"channel", r.channel>>} /\ r.lane # "sandbox"
      BY <1>1 DEF ChannelMember, dispatch
    <2>2. SameChannels BY <1>a, <2>1, AddMemberMaps DEF Core, Owner
    <2>3. Effect(p) BY <1>a, <2>1 DEF Effect, Outside
    <2>4. Only(p) /\ RequestOK(req[p])' /\ Passes(p) BY <1>a, <2>1, AnswerOK
    <2>5. RetriesOK' /\ ran' \in [IdemKeys -> Nat] BY <1>a, <2>3, EffectKeepsRetries DEF local
    <2>6. r.channel \in Nat /\ r.lane \in Lanes BY <1>a DEF TypeOK, Request
    <2>7. sent' \subseteq (Kinds \X Nat) BY <1>a, <2>6, <2>s DEF TypeOK, Kinds
    <2>8. ASSUME NEW e \in sent', e \notin sent PROVE Stored(e)'
      <3>1. e = <<"channel", r.channel>> /\ r.lane = "live" BY <2>6, <2>8, <2>s DEF Lanes
      <3>2. PICK c \in channels : c.id = r.channel BY <1>1 DEF CanAddChannelMember
      <3>3. c.lane = "live" BY <1>a, <3>1, <3>2 DEF RequestOK
      <3>4. \E d \in channels' : d.id = r.channel /\ d.lane = "live"
        BY <2>2, <3>2, <3>3 DEF SameChannels
      <3> QED BY <3>1, <3>4 DEF Stored
    <2>9. Core' BY <1>a, <2>2, <2>4, <2>5, <2>7, <2>8, SameChannelsCore
    <2>10. Caps' BY <1>a, <2>2, <2>4, <2>9, SameChannelsCaps
    <2> QED BY <2>5, <2>9, <2>10 DEF DeveloperApiInv, Core, Caps
  <1>2. CASE ~CanAddChannelMember(r.channel, Owner)
    <2>1. Return(p) /\ UNCHANGED <<channels, sent, ran>> BY <1>2 DEF ChannelMember
    <2>2. UNCHANGED tables BY <1>a, <2>1 DEF tables
    <2> QED BY <1>a, <2>1, <2>2, ReadEnds
  <1> QED BY <1>1, <1>2

LEMMA AddMemberStep ==
  ASSUME DeveloperApiInv, NEW p \in Requests, At(p, "addMember"),
         \/ AddChannelMember(req[p].channel, req[p].user) /\ AfterMember(p)
         \/ Return(p) /\ UNCHANGED <<channels, ran>>,
         UNCHANGED <<local, accounts, members, links, messages, serial, told, sent>>
  PROVE  DeveloperApiInv'
  <1> DEFINE r == req[p]
  <1>a. /\ Core /\ Caps /\ RetriesOK /\ TypeOK /\ r.pc = "addMember" /\ RequestOK(r)
        /\ r.pc \in JoinPoints
    BY Parts DEF Core, RequestsOK, At, JoinPoints
  <1>u. UNCHANGED <<keys, idem, sweep, begun, ticks, lost>> BY DEF local
  <1>1. CASE AddChannelMember(r.channel, r.user) /\ AfterMember(p)
    <2>1. r.user \in Nat BY <1>a DEF TypeOK, Request
    <2>2. SameChannels BY <1>a, <1>1, <2>1, AddMemberMaps DEF Core
    <2>3. CASE Effect(p)
      <3>1. Only(p) /\ RequestOK(req[p])' /\ Passes(p) BY <1>a, <2>3, AnswerOK DEF Effect
      <3>2. RetriesOK' /\ ran' \in [IdemKeys -> Nat] BY <1>a, <1>u, <2>3, EffectKeepsRetries
      <3>3. sent' \subseteq (Kinds \X Nat) /\ \A e \in sent' : e \in sent \/ Stored(e)'
        BY <1>a DEF TypeOK
      <3>4. Core' BY <1>a, <2>2, <3>1, <3>2, <3>3, SameChannelsCore
      <3>5. Caps' BY <1>a, <2>2, <3>1, <3>4, SameChannelsCaps
      <3> QED BY <3>2, <3>4, <3>5 DEF DeveloperApiInv, Core, Caps
    <2>4. ASSUME Only(p), Same(r, req'[p]), ran' = ran,
                 req'[p].user = r.user, req'[p].channel = r.channel,
                 \/ req'[p].pc = "quota" /\ r.lane = "live"
                 \/ req'[p].pc = "msgCap"
          PROVE  DeveloperApiInv'
      <3>1. RequestOK(req[p])'
        <4>1. Linked(req[p].user, req[p].lane)'
          BY <1>a, <2>4 DEF RequestOK, JoinPoints, Linked, GetAppUserByUserID, Same
        <4>2. r.channel \in 1..serial'["channel"] BY <1>a DEF RequestOK, JoinPoints
        <4>3. \A c \in channels : c.id = r.channel => c.lane = r.lane
          BY <1>a DEF RequestOK, JoinPoints
        <4>4. \A c \in channels' : c.id = r.channel => c.lane = r.lane
          BY <2>2, <4>3 DEF SameChannels
        <4> QED BY <2>4, <4>1, <4>2, <4>4 DEF RequestOK, JoinPoints, SendPoints, Same
      <3>2. Passes(p) BY <2>4 DEF Passes, NotPast, UserPoints
      <3>3. Proceeds(p) BY <1>a, <2>4 DEF Proceeds, Outside, Same
      <3>4. RetriesOK' BY <1>a, <1>u, <2>4, <3>3, ProceedsKeepsRetries
      <3>5. /\ ran' \in [IdemKeys -> Nat]
            /\ sent' \subseteq (Kinds \X Nat) /\ \A e \in sent' : e \in sent \/ Stored(e)'
        BY <1>a, <2>4 DEF TypeOK
      <3>6. Core' BY <1>a, <2>2, <2>4, <3>1, <3>5, SameChannelsCore
      <3>7. Caps' BY <1>a, <2>2, <2>4, <3>2, <3>6, SameChannelsCaps
      <3> QED BY <3>4, <3>6, <3>7 DEF DeveloperApiInv, Core, Caps
    <2> QED BY <1>a, <1>1, <2>3, <2>4, AfterMemberForm
  <1>2. CASE Return(p) /\ UNCHANGED <<channels, ran>>
    <2>1. UNCHANGED tables BY <1>2 DEF tables
    <2> QED BY <1>a, <1>2, <2>1, ReadEnds
  <1> QED BY <1>1, <1>2

\* The new channel has an id that no channel had and no message names.
LEMMA CreateChannelStep ==
  ASSUME DeveloperApiInv, NEW p \in Requests, CreateChannel(p)
  PROVE  DeveloperApiInv'
  <1> DEFINE r == req[p]
             found == GetChannelByNameInWorkspace(r.body.name, r.lane)
             n == serial["channel"] + 1
             new == [id |-> n, name |-> r.body.name, lane |-> r.lane,
                     members |-> {}, old |-> FALSE]
  <1>a. /\ Core /\ Caps /\ RetriesOK /\ TypeOK /\ RequestsOK /\ r.pc = "chCreate"
        /\ UNCHANGED <<local, accounts, members, links, messages, told, sent, ran>>
    BY Parts DEF Core, CreateChannel, At
  <1>u. UNCHANGED <<keys, idem, sweep, begun, ticks, lost>> BY <1>a DEF local
  <1>1. CASE found # {}
    <2>1. Goto(p, "chAgain") /\ UNCHANGED <<channels, serial>> /\ "chAgain" \in Points
      BY <1>1 DEF CreateChannel, Points
    <2>2. Only(p) /\ req'[p].pc = "chAgain" /\ Same(req[p], req'[p]) BY <1>a, <2>1, GotoForm
    <2>3. RequestOK(req[p])' BY <2>2 DEF RequestOK, JoinPoints, SendPoints
    <2>4. Passes(p) BY <2>2 DEF Passes, NotPast, UserPoints
    <2>5. Proceeds(p) BY <1>a, <2>2 DEF Proceeds, Outside, Same
    <2>6. UNCHANGED tables BY <1>a, <2>1 DEF tables
    <2> QED BY <1>a, <2>2, <2>3, <2>4, <2>5, <2>6, ReadGoes
  <1>2. CASE found = {}
    <2>a. /\ channels' = channels \cup {new}
          /\ serial' = [serial EXCEPT !["channel"] = @ + 1]
          /\ req' = [req EXCEPT ![p].channel = n, ![p].pc = "chMember"]
      BY <1>2 DEF CreateChannel, InsertChannel
    <2>b. /\ r.body.name \in Names /\ r.lane \in Lanes /\ serial["channel"] \in Nat
          /\ n \in Nat \ {0} /\ n > serial["channel"] /\ "chMember" \in Points
      BY <1>a DEF TypeOK, Request, Input, Points
    <2>c. new \in Channel /\ new.id = n /\ new.lane = r.lane BY <2>b DEF Channel
    <2>d. /\ serial' \in [{"channel", "message"} -> Nat] /\ serial'["channel"] = n
      BY <1>a, <2>a, <2>b DEF TypeOK
    <2>e. /\ \A c \in channels : c.id <= serial["channel"] /\ c.id # n /\ c.id \in Nat
          /\ \A m \in messages :
               m.channel <= serial["channel"] /\ m.channel # n /\ m.channel \in Nat
      BY <1>a, <2>b DEF Core, ChannelsOK, TypeOK, Channel, Message
    <2>k. PICK k : k = n OBVIOUS
    <2> HIDE DEF new, n
    <2>1. /\ Only(p) /\ req'[p].pc = "chMember" /\ req'[p].channel = n
          /\ Same(req[p], req'[p]) /\ req'[p].user = req[p].user
      <3>1. k \in Nat /\ req' = [req EXCEPT ![p].channel = k, ![p].pc = "chMember"]
        BY <2>a, <2>b, <2>k
      <3>2. /\ Only(p) /\ req'[p].pc = "chMember" /\ req'[p].channel = k
            /\ Same(req[p], req'[p]) /\ req'[p].user = req[p].user
        <4>1. req \in [Requests -> Request] /\ "chMember" \in Points BY <1>a, <2>b DEF TypeOK
        <4> QED BY <3>1, <4>1 DEF Only, Others, Request, Same
      <3> QED BY <2>k, <3>2
    <2>2. TypeOK' BY <1>a, <1>u, <2>a, <2>c, <2>d, <2>1 DEF TypeOK, Only
    <2>3. \A d \in channels' : d \in channels \/ d = new BY <2>a
    <2>4. RequestOK(req[p])'
      <3>1. n \in 1..serial'["channel"] BY <2>b, <2>d
      <3>2. \A c \in channels' : c.id = n => c.lane = r.lane BY <2>c, <2>e, <2>3
      <3> QED BY <2>1, <3>1, <3>2 DEF RequestOK, JoinPoints, SendPoints, Same
    <2>5. RequestsOK'
      <3>1. Grows
        <4>1. serial'["channel"] >= serial["channel"] BY <2>b, <2>d
        <4>2. Len(accounts) >= Len(accounts) /\ accounts' = accounts BY <1>a DEF TypeOK
        <4> QED BY <1>a, <2>b, <2>c, <2>3, <4>1, <4>2 DEF Grows
      <3> QED BY <1>a, <2>1, <2>2, <2>4, <3>1, RequestsKept DEF TypeOK
    <2>6. LinksOK' BY <1>a DEF Core, LinksOK
    <2>7. ChannelsOK'
      <3>1. \A c, d \in channels' : c.id = d.id => c = d
        BY <1>a, <2>c, <2>e, <2>3 DEF Core, ChannelsOK
      <3>2. \A c \in channels' : c.id <= serial'["channel"]
        BY <2>b, <2>c, <2>d, <2>e, <2>3
      <3>3. \A m \in messages' : m.channel <= serial'["channel"]
        BY <1>a, <2>b, <2>d, <2>e
      <3> QED BY <3>1, <3>2, <3>3 DEF ChannelsOK
    <2>8. FinitelyMany'
      <3>1. IsFiniteSet(channels \cup {new}) BY <1>a, FS_AddElement DEF Core, FinitelyMany
      <3> QED BY <1>a, <2>a, <3>1 DEF Core, FinitelyMany
    <2>9. \A lane : MessagesOf(lane)' = MessagesOf(lane)
      BY <1>a, <2>a, <2>c, <2>e DEF MessagesOf
    <2>10. LanesDoNotMix'
      <3>1. LinkedIsMember' BY <1>a DEF Core, LanesDoNotMix, LinkedIsMember
      <3>2. SenderIsLinked'
        BY <1>a, <2>c, <2>e, <2>3 DEF Core, LanesDoNotMix, SenderIsLinked, GetAppUserByUserID
      <3>3. SentWasStored'
        BY <1>a, <2>a, <2>9
        DEF Core, LanesDoNotMix, SentWasStored, Stored, GetAppUserByUserID
      <3> QED BY <3>1, <3>2, <3>3 DEF LanesDoNotMix
    <2>11. Core' BY <2>2, <2>5, <2>6, <2>7, <2>8, <2>10 DEF Core
    <2>12. Passes(p) BY <2>1 DEF Passes, NotPast, UserPoints
    <2>13. UserCapOK' BY <1>a, <2>1, <2>11, <2>12, UserCapKept DEF Core, Caps
    <2>14. MessageCapOK'
      <3>1. MessagesOf("sandbox")' = MessagesOf("sandbox") BY <2>9
      <3>2. Cardinality(MessagesOf("sandbox")') <= Cardinality(MessagesOf("sandbox"))
        BY <1>a, <3>1, FinitelyManyOfEach, FS_CardinalityType DEF Core, Finite
      <3> QED BY <1>a, <2>1, <2>11, <2>12, <3>2, MessageCapKept DEF Core, Caps
    <2>15. ChannelCapOK'
      <3> SUFFICES ASSUME MaxChannels > 0
                   PROVE  (Cardinality(SandboxChannels) + Cardinality(Creating)
                             < MaxChannels + Cardinality(Requests))'
        BY DEF ChannelCapOK
      <3>1. IsFiniteSet(SandboxChannels) BY <1>a, FinitelyManyOfEach DEF Core, Finite
      <3>2. Cardinality(SandboxChannels) + Cardinality(Creating)
              < MaxChannels + Cardinality(Requests)
        BY <1>a DEF Caps, ChannelCapOK
      <3>3. Creating \in SUBSET Requests BY DEF Creating, PastCap
      <3>4. Creating' \in SUBSET (Creating \ {p}) BY <2>1, PastLeft DEF Creating
      <3>5. CASE r.lane = "sandbox"
        <4>1. p \in Creating BY <1>a, <3>5 DEF Creating, PastCap
        <4>2. SandboxChannels' \in SUBSET (SandboxChannels \cup {new})
          BY <2>a DEF SandboxChannels
        <4> QED BY <3>1, <3>2, <3>3, <3>4, <4>1, <4>2, CapTyped, CapInsert
      <3>6. CASE r.lane # "sandbox"
        <4>1. SandboxChannels' = SandboxChannels BY <2>a, <2>c, <3>6 DEF SandboxChannels
        <4>2. Creating' \in SUBSET Creating BY <3>4
        <4>3. Cardinality(SandboxChannels) <= Cardinality(SandboxChannels)
          BY <3>1, FS_CardinalityType
        <4> QED BY <3>1, <3>2, <3>3, <4>1, <4>2, <4>3, CapTyped, CapKept
      <3> QED BY <3>5, <3>6
    <2>16. Proceeds(p) BY <1>a, <2>1 DEF Proceeds, Outside, Same
    <2>17. RetriesOK' BY <1>a, <1>u, <2>1, <2>16, ProceedsKeepsRetries
    <2> QED BY <2>11, <2>13, <2>14, <2>15, <2>17 DEF DeveloperApiInv, Core
  <1> QED BY <1>1, <1>2

\* The message is of a channel that is still there, by a user linked in its lane.
LEMMA CreateMessageStep ==
  ASSUME DeveloperApiInv, NEW p \in Requests, CreateMessage(p)
  PROVE  DeveloperApiInv'
  <1> DEFINE r == req[p]
             found == \E c \in channels : c.id = r.channel
             n == serial["message"] + 1
             new == [id |-> n, channel |-> r.channel, sender |-> r.user, old |-> FALSE]
  <1>a. /\ Core /\ Caps /\ RetriesOK /\ TypeOK /\ RequestsOK /\ r.pc = "msgCreate"
        /\ UNCHANGED <<local, accounts, members, links, channels, told>>
        /\ r.pc = "msgCreate" => RequestOK(r)
    BY Parts DEF Core, RequestsOK, CreateMessage, At
  <1>u. UNCHANGED <<keys, idem, sweep, begun, ticks, lost>> BY <1>a DEF local
  <1>1. CASE ~found
    <2>1. Return(p) /\ UNCHANGED <<messages, serial, sent, ran>> BY <1>1 DEF CreateMessage
    <2>2. UNCHANGED tables BY <1>a, <2>1 DEF tables
    <2> QED BY <1>a, <2>1, <2>2, ReadEnds
  <1>2. CASE found
    <2>a. /\ messages' = messages \cup {new}
          /\ serial' = [serial EXCEPT !["message"] = @ + 1]
          /\ Ran(p) /\ Reply(p)
      BY <1>2 DEF CreateMessage, InsertMessage
    <2>s. \/ sent' = sent
          \/ sent' = sent \cup {<<"message", n>>} /\ r.lane # "sandbox"
      BY <1>2 DEF CreateMessage, dispatch
    <2>b. /\ r.lane \in Lanes /\ serial["message"] \in Nat /\ n \in Nat \ {0}
          /\ r.channel \in Nat /\ serial["channel"] \in Nat
      BY <1>a DEF TypeOK, Request
    <2>l. PICK l \in links : l.user = r.user /\ l.lane = r.lane
      BY <1>a DEF RequestOK, SendPoints, Linked, GetAppUserByUserID
    <2>c. /\ r.channel \in 1..serial["channel"]
          /\ \A c \in channels : c.id = r.channel => c.lane = r.lane
      BY <1>a DEF RequestOK, SendPoints
    <2>d. new \in Message /\ new.id = n /\ new.channel = r.channel /\ new.sender = r.user
      <3>1. l.user \in Nat \ {0} BY <1>a DEF TypeOK, Link
      <3> QED BY <2>b, <2>c, <2>l, <3>1 DEF Message
    <2>e. /\ serial' \in [{"channel", "message"} -> Nat]
          /\ serial'["channel"] = serial["channel"]
      BY <1>a, <2>a, <2>b DEF TypeOK
    <2>f. PICK c \in channels : c.id = r.channel /\ c.lane = r.lane BY <1>2, <2>c
    <2> HIDE DEF new, n
    <2>1. Only(p) /\ RequestOK(req[p])' /\ Passes(p) /\ req'[p].pc \in {"idle", "save"}
      BY <1>a, <2>a, AnswerOK
    <2>2. RetriesOK' /\ ran' \in [IdemKeys -> Nat]
      <3>1. Effect(p) BY <1>a, <2>a DEF Effect, Outside
      <3> QED BY <1>a, <1>u, <3>1, EffectKeepsRetries
    <2>3. sent' \subseteq (Kinds \X Nat) BY <1>a, <2>b, <2>s DEF TypeOK, Kinds
    <2>4. TypeOK' BY <1>a, <1>u, <2>a, <2>d, <2>e, <2>1, <2>2, <2>3 DEF TypeOK, Only
    <2>5. RequestsOK'
      <3>1. Grows BY <1>a, <2>b, <2>e DEF Grows, TypeOK
      <3> QED BY <1>a, <2>1, <2>4, <3>1, RequestsKept DEF TypeOK
    <2>6. LinksOK' BY <1>a DEF Core, LinksOK
    <2>7. ChannelsOK'
      <3>1. \A m \in messages' : m \in messages \/ m = new BY <2>a
      <3>2. r.channel <= serial["channel"] BY <2>b, <2>c
      <3> QED BY <1>a, <2>d, <2>e, <3>1, <3>2 DEF Core, ChannelsOK
    <2>8. FinitelyMany'
      <3>1. IsFiniteSet(messages \cup {new}) BY <1>a, FS_AddElement DEF Core, FinitelyMany
      <3> QED BY <1>a, <2>a, <3>1 DEF Core, FinitelyMany
    <2>9. /\ MessagesOf("live") \subseteq MessagesOf("live")'
          /\ MessagesOf("sandbox")' \subseteq MessagesOf("sandbox") \cup {new}
          /\ r.lane = "live" => new \in MessagesOf("live")'
          /\ r.lane # "sandbox" => MessagesOf("sandbox")' = MessagesOf("sandbox")
      BY <1>a, <2>a, <2>c, <2>d, <2>f DEF MessagesOf
    <2>10. LanesDoNotMix'
      <3>1. LinkedIsMember' BY <1>a DEF Core, LanesDoNotMix, LinkedIsMember
      <3>2. SenderIsLinked'
        <4> SUFFICES ASSUME NEW m \in messages', NEW d \in channels', d.id = m.channel
                     PROVE  GetAppUserByUserID(m.sender, d.lane)' # {}
          BY DEF SenderIsLinked
        <4>1. CASE m \in messages
          BY <1>a, <4>1 DEF Core, LanesDoNotMix, SenderIsLinked, GetAppUserByUserID
        <4>2. CASE m = new
          <5>1. d.lane = l.lane /\ m.sender = l.user BY <1>a, <2>c, <2>d, <2>l, <4>2
          <5> QED BY <1>a, <5>1 DEF GetAppUserByUserID
        <4> QED BY <2>a, <4>1, <4>2
      <3>3. ASSUME NEW e \in sent' PROVE Stored(e)'
        <4>1. CASE e \in sent
          <5>1. Stored(e) BY <1>a, <4>1 DEF Core, LanesDoNotMix, SentWasStored
          <5> QED BY <1>a, <2>9, <5>1 DEF Stored, GetAppUserByUserID
        <4>2. CASE e = <<"message", n>> /\ r.lane # "sandbox"
          <5>1. r.lane = "live" BY <2>b, <4>2 DEF Lanes
          <5>2. e[1] = "message" /\ \E m \in MessagesOf("live")' : m.id = e[2]
            BY <2>9, <2>d, <4>2, <5>1
          <5> QED BY <5>2 DEF Stored
        <4> QED BY <2>s, <4>1, <4>2
      <3>4. SentWasStored' BY <3>3 DEF SentWasStored
      <3> QED BY <3>1, <3>2, <3>4 DEF LanesDoNotMix
    <2>11. Core' BY <2>4, <2>5, <2>6, <2>7, <2>8, <2>10 DEF Core
    <2>12. UserCapOK' BY <1>a, <2>1, <2>11, UserCapKept DEF Core, Caps
    <2>13. ChannelCapOK'
      <3>1. SandboxChannels' = SandboxChannels BY <1>a DEF SandboxChannels
      <3>2. Cardinality(SandboxChannels') <= Cardinality(SandboxChannels)
        BY <1>a, <3>1, FinitelyManyOfEach, FS_CardinalityType DEF Core, Finite
      <3> QED BY <1>a, <2>1, <2>11, <3>2, ChannelCapKept DEF Core, Caps
    <2>14. MessageCapOK'
      <3> SUFFICES ASSUME MaxMessages > 0
                   PROVE  (Cardinality(MessagesOf("sandbox")) + Cardinality(Sending)
                             < MaxMessages + Cardinality(Requests))'
        BY DEF MessageCapOK
      <3>1. IsFiniteSet(MessagesOf("sandbox")) BY <1>a, FinitelyManyOfEach DEF Core, Finite
      <3>2. Cardinality(MessagesOf("sandbox")) + Cardinality(Sending)
              < MaxMessages + Cardinality(Requests)
        BY <1>a DEF Caps, MessageCapOK
      <3>3. Sending \in SUBSET Requests BY DEF Sending, PastCap
      <3>4. Sending' \in SUBSET (Sending \ {p}) BY <2>1, PastLeft DEF Sending
      <3>5. CASE r.lane = "sandbox"
        <4>1. p \in Sending BY <1>a, <3>5 DEF Sending, PastCap
        <4>2. MessagesOf("sandbox")' \in SUBSET (MessagesOf("sandbox") \cup {new}) BY <2>9
        <4> QED BY <3>1, <3>2, <3>3, <3>4, <4>1, <4>2, CapTyped, CapInsert
      <3>6. CASE r.lane # "sandbox"
        <4>1. MessagesOf("sandbox")' = MessagesOf("sandbox") BY <2>9, <3>6
        <4>2. Sending' \in SUBSET Sending BY <3>4
        <4>3. Cardinality(MessagesOf("sandbox")) <= Cardinality(MessagesOf("sandbox"))
          BY <3>1, FS_CardinalityType
        <4> QED BY <3>1, <3>2, <3>3, <4>1, <4>2, <4>3, CapTyped, CapKept
      <3> QED BY <3>5, <3>6
    <2> QED BY <2>2, <2>11, <2>12, <2>13, <2>14 DEF DeveloperApiInv, Core
  <1> QED BY <1>1, <1>2

-----------------------------------------------------------------------------
(* Keys, time and the cleaner.                                             *)

\* No row is added; rows of the live lane stay.
OnlyOld ==
  /\ channels' \subseteq Channel /\ messages' \subseteq Message
  /\ IsFiniteSet(channels') /\ IsFiniteSet(messages')
  /\ \A c, d \in channels' : c.id = d.id => c = d
  /\ \A d \in channels' : \E c \in channels : c.id = d.id /\ c.lane = d.lane
  /\ \A n \in messages' : \E m \in messages : m.channel = n.channel /\ m.sender = n.sender
  /\ \A c \in channels : c.lane = "live" => \E d \in channels' : d.id = c.id /\ d.lane = "live"
  /\ \A m \in MessagesOf("live") : \E n \in messages' : n.id = m.id /\ n.channel = m.channel
  /\ Cardinality(SandboxChannels') <= Cardinality(SandboxChannels)
  /\ Cardinality(MessagesOf("sandbox")') <= Cardinality(MessagesOf("sandbox"))

LEMMA SystemStep ==
  ASSUME DeveloperApiInv, OnlyOld,
         UNCHANGED <<accounts, members, links, serial, idem, req, begun, observed>>,
         keys' \in [Keys -> {"none", "active", "revoked", "expired"}],
         sweep' \in BOOLEAN, ticks' \in 0..MaxTicks
  PROVE  DeveloperApiInv'
  <1>a. Core /\ Caps /\ RetriesOK /\ TypeOK BY Parts DEF Core
  <1>u. UNCHANGED <<told, sent, ran, lost>> BY DEF observed
  <1>1. TypeOK' BY <1>a, <1>u DEF TypeOK, OnlyOld
  <1>2. RequestsOK'
    <2>1. Grows BY <1>a DEF Grows, TypeOK, OnlyOld
    <2>2. ASSUME NEW q \in Requests PROVE RequestOK(req[q])'
      <3>1. req'[q] = req[q] /\ RequestOK(req[q]) BY <1>a DEF Core, RequestsOK
      <3> QED BY <1>a, <1>1, <2>1, <3>1, RequestKept DEF TypeOK
    <2> QED BY <2>2 DEF RequestsOK
  <1>3. LinksOK' BY <1>a, <1>u DEF Core, LinksOK
  <1>4. ChannelsOK'
    <2>1. \A d \in channels' : d.id <= serial'["channel"] BY <1>a DEF Core, ChannelsOK, OnlyOld
    <2>2. \A n \in messages' : n.channel <= serial'["channel"]
      BY <1>a DEF Core, ChannelsOK, OnlyOld
    <2> QED BY <2>1, <2>2 DEF ChannelsOK, OnlyOld
  <1>5. FinitelyMany' BY <1>a DEF Core, FinitelyMany, OnlyOld
  <1>6. LanesDoNotMix'
    <2>1. LinkedIsMember' BY <1>a DEF Core, LanesDoNotMix, LinkedIsMember
    <2>2. SenderIsLinked'
      <3> SUFFICES ASSUME NEW n \in messages', NEW d \in channels', d.id = n.channel
                   PROVE  GetAppUserByUserID(n.sender, d.lane)' # {}
        BY DEF SenderIsLinked
      <3>1. PICK m \in messages : m.channel = n.channel /\ m.sender = n.sender BY DEF OnlyOld
      <3>2. PICK c \in channels : c.id = d.id /\ c.lane = d.lane BY DEF OnlyOld
      <3>3. GetAppUserByUserID(m.sender, c.lane) # {}
        BY <1>a, <3>1, <3>2 DEF Core, LanesDoNotMix, SenderIsLinked
      <3> QED BY <3>1, <3>2, <3>3 DEF GetAppUserByUserID
    <2>3. ASSUME NEW e \in sent' PROVE Stored(e)'
      <3>1. Stored(e) BY <1>a, <1>u DEF Core, LanesDoNotMix, SentWasStored
      <3>2. CASE e[1] = "provision" /\ GetAppUserByUserID(e[2], "live") # {}
        BY <3>2 DEF Stored, GetAppUserByUserID
      <3>3. CASE e[1] = "channel" /\ \E c \in channels : c.id = e[2] /\ c.lane = "live"
        BY <3>3 DEF Stored, OnlyOld
      <3>4. CASE e[1] = "message" /\ \E m \in MessagesOf("live") : m.id = e[2]
        <4>1. PICK m \in MessagesOf("live") : m.id = e[2] BY <3>4
        <4>2. PICK n \in messages' : n.id = m.id /\ n.channel = m.channel BY DEF OnlyOld
        <4>3. \E d \in channels' : d.id = n.channel /\ d.lane = "live"
          BY <4>1, <4>2 DEF OnlyOld, MessagesOf
        <4>4. n \in MessagesOf("live")' BY <4>2, <4>3 DEF MessagesOf
        <4> QED BY <3>4, <4>1, <4>2, <4>4 DEF Stored
      <3> QED BY <3>1, <3>2, <3>3, <3>4 DEF Stored
    <2>4. SentWasStored' BY <2>3 DEF SentWasStored
    <2> QED BY <2>1, <2>2, <2>4 DEF LanesDoNotMix
  <1>7. UserCapOK'
    BY <1>a DEF Caps, UserCapOK, SandboxLinks, Provisioning, PastCap
  <1>8. ChannelCapOK'
    <2> SUFFICES ASSUME MaxChannels > 0
                 PROVE  (Cardinality(SandboxChannels) + Cardinality(Creating)
                           < MaxChannels + Cardinality(Requests))'
      BY DEF ChannelCapOK
    <2>1. IsFiniteSet(SandboxChannels) BY <1>a, FinitelyManyOfEach DEF Core, Finite
    <2>2. IsFiniteSet(SandboxChannels')
      <3>1. SandboxChannels' \in SUBSET channels' /\ IsFiniteSet(channels')
        BY DEF SandboxChannels, OnlyOld
      <3> QED BY <3>1, FS_Subset
    <2>3. Creating \in SUBSET Requests /\ Creating' \in SUBSET Creating
      BY DEF Creating, PastCap
    <2>4. Cardinality(SandboxChannels) + Cardinality(Creating)
            < MaxChannels + Cardinality(Requests)
      BY <1>a DEF Caps, ChannelCapOK
    <2>5. Cardinality(SandboxChannels') <= Cardinality(SandboxChannels) BY DEF OnlyOld
    <2> QED BY <2>1, <2>2, <2>3, <2>4, <2>5, CapTyped, CapKept
  <1>9. MessageCapOK'
    <2> SUFFICES ASSUME MaxMessages > 0
                 PROVE  (Cardinality(MessagesOf("sandbox")) + Cardinality(Sending)
                           < MaxMessages + Cardinality(Requests))'
      BY DEF MessageCapOK
    <2>1. IsFiniteSet(MessagesOf("sandbox")) BY <1>a, FinitelyManyOfEach DEF Core, Finite
    <2>2. IsFiniteSet(MessagesOf("sandbox")')
      <3>1. MessagesOf("sandbox")' \in SUBSET messages' /\ IsFiniteSet(messages')
        BY DEF MessagesOf, OnlyOld
      <3> QED BY <3>1, FS_Subset
    <2>3. Sending \in SUBSET Requests /\ Sending' \in SUBSET Sending
      BY DEF Sending, PastCap
    <2>4. Cardinality(MessagesOf("sandbox")) + Cardinality(Sending)
            < MaxMessages + Cardinality(Requests)
      BY <1>a DEF Caps, MessageCapOK
    <2>5. Cardinality(MessagesOf("sandbox")') <= Cardinality(MessagesOf("sandbox")) BY DEF OnlyOld
    <2> QED BY <2>1, <2>2, <2>3, <2>4, <2>5, CapTyped, CapKept
  <1>10. RetriesOK' BY <1>a, <1>u DEF RetriesOK, Saving, Under
  <1> QED BY <1>1, <1>2, <1>3, <1>4, <1>5, <1>6, <1>7, <1>8, <1>9, <1>10
      DEF DeveloperApiInv, Core, Caps

\* The rows that are left are some of those there were, of the live lane all.
LEMMA DeletedOld ==
  ASSUME Core, channels' \subseteq channels, messages' \subseteq messages,
         \A c \in channels : c.lane = "live" => c \in channels',
         MessagesOf("live") \subseteq messages'
  PROVE  OnlyOld
  <1>1. channels' \subseteq Channel /\ messages' \subseteq Message BY DEF Core, TypeOK
  <1>2. IsFiniteSet(channels') /\ IsFiniteSet(messages') BY FS_Subset DEF Core, FinitelyMany
  <1>3. \A c, d \in channels' : c.id = d.id => c = d BY DEF Core, ChannelsOK
  <1>4. Cardinality(SandboxChannels') <= Cardinality(SandboxChannels)
    <2>1. SandboxChannels' \in SUBSET SandboxChannels BY DEF SandboxChannels
    <2> QED BY <2>1, FinitelyManyOfEach, FS_Subset DEF Core, Finite
  <1>5. Cardinality(MessagesOf("sandbox")') <= Cardinality(MessagesOf("sandbox"))
    <2>1. MessagesOf("sandbox")' \in SUBSET MessagesOf("sandbox") BY DEF MessagesOf
    <2> QED BY <2>1, FinitelyManyOfEach, FS_Subset DEF Core, Finite
  <1> QED BY <1>1, <1>2, <1>3, <1>4, <1>5 DEF OnlyOld

LEMMA ClockTyped == TypeOK /\ Clock => ticks' \in 0..MaxTicks
  <1>1. MaxTicks \in Nat BY DeveloperApiAssumption
  <1> QED BY <1>1 DEF TypeOK, Clock

LEMMA KeyStep ==
  ASSUME DeveloperApiInv, NEW k \in Keys, CreateAPIKey(k) \/ RevokeAPIKey(k)
  PROVE  DeveloperApiInv'
  <1>a. Core /\ TypeOK BY Parts DEF Core
  <1>b. /\ Clock
        /\ InsertAPIKey(k) \/ SetRevoked(k)
        /\ UNCHANGED <<accounts, members, links, channels, messages, serial, idem, sweep, req,
                       begun, observed>>
    BY DEF CreateAPIKey, RevokeAPIKey, tables
  <1>1. OnlyOld BY <1>a, <1>b, DeletedOld DEF MessagesOf
  <1>2. keys' \in [Keys -> {"none", "active", "revoked", "expired"}]
    BY <1>a, <1>b DEF TypeOK, InsertAPIKey, SetRevoked
  <1>3. sweep' \in BOOLEAN /\ ticks' \in 0..MaxTicks BY <1>a, <1>b, ClockTyped DEF TypeOK
  <1> QED BY <1>b, <1>1, <1>2, <1>3, SystemStep

\* Everything that is stored grows old.
LEMMA TickStep == DeveloperApiInv /\ Tick => DeveloperApiInv'
  <1> SUFFICES ASSUME DeveloperApiInv, Tick PROVE DeveloperApiInv' OBVIOUS
  <1> DEFINE f == [c \in channels |-> [c EXCEPT !.old = TRUE]]
             g == [m \in messages |-> [m EXCEPT !.old = TRUE]]
  <1>a. /\ Core /\ TypeOK /\ ChannelsOK /\ FinitelyMany BY Parts DEF Core
  <1>b. /\ Clock
        /\ UNCHANGED <<accounts, members, links, serial, idem, sweep, req, begun, observed>>
    BY DEF Tick
  <1>1. SameChannels
    <2>1. ASSUME NEW c \in channels
          PROVE  f[c] \in Channel /\ f[c].id = c.id /\ f[c].lane = c.lane
      <3>1. c \in Channel BY <1>a DEF TypeOK
      <3> QED BY <3>1 DEF Channel
    <2>2. f \in [channels -> Channel] BY <2>1
    <2>3. channels' = {f[c] : c \in channels} BY DEF Tick
    <2> HIDE DEF f
    <2> QED BY <1>a, <2>1, <2>2, <2>3, ChannelsMapped
  <1>2. ASSUME NEW m \in messages
        PROVE  /\ g[m] \in Message /\ g[m] \in messages' /\ g[m].id = m.id
               /\ g[m].channel = m.channel /\ g[m].sender = m.sender
    <2>1. m \in Message BY <1>a DEF TypeOK
    <2>2. g[m] \in messages' BY DEF Tick
    <2> QED BY <2>1, <2>2 DEF Message
  <1>3. messages' = {g[m] : m \in messages} BY DEF Tick
  <1>4. g \in [messages -> messages'] BY <1>3
  <1> HIDE DEF f, g
  <1>5. messages' \subseteq Message /\ IsFiniteSet(messages')
    <2>1. \A n \in messages' : \E m \in messages : g[m] = n BY <1>3
    <2>2. IsFiniteSet(messages') BY <1>a, <1>4, <2>1, ImageFinite DEF FinitelyMany
    <2> QED BY <1>2, <2>1, <2>2
  <1>6. Cardinality(MessagesOf("sandbox")') <= Cardinality(MessagesOf("sandbox"))
    <2> DEFINE h == [m \in MessagesOf("sandbox") |-> g[m]]
    <2>1. ASSUME NEW m \in MessagesOf("sandbox") PROVE g[m] \in MessagesOf("sandbox")'
      BY <1>1, <1>2 DEF MessagesOf, SameChannels
    <2>2. h \in [MessagesOf("sandbox") -> MessagesOf("sandbox")'] BY <2>1
    <2>3. ASSUME NEW n \in MessagesOf("sandbox")'
          PROVE  \E m \in MessagesOf("sandbox") : h[m] = n
      <3>1. PICK m \in messages : g[m] = n BY <1>3 DEF MessagesOf
      <3>2. m \in MessagesOf("sandbox") BY <1>1, <1>2, <3>1 DEF MessagesOf, SameChannels
      <3> QED BY <3>1, <3>2
    <2>4. IsFiniteSet(MessagesOf("sandbox")) BY <1>a, FinitelyManyOfEach DEF Finite
    <2> HIDE DEF h
    <2> QED BY <2>2, <2>3, <2>4, ImageFinite
  <1>7. /\ \A n \in messages' : \E m \in messages : m.channel = n.channel /\ m.sender = n.sender
        /\ \A m \in MessagesOf("live") : \E n \in messages' : n.id = m.id /\ n.channel = m.channel
    <2>1. MessagesOf("live") \subseteq messages BY DEF MessagesOf
    <2> QED BY <1>2, <1>3, <2>1
  <1>8. OnlyOld BY <1>1, <1>5, <1>6, <1>7 DEF OnlyOld, SameChannels
  <1>9. keys' \in [Keys -> {"none", "active", "revoked", "expired"}] BY <1>a DEF Tick, TypeOK
  <1> QED BY <1>a, <1>b, <1>8, <1>9, ClockTyped, SystemStep DEF TypeOK

\* A message of the live lane is of no sandbox channel, as ids are unique.
LEMMA CleanerStep ==
  ASSUME DeveloperApiInv, \/ DeleteExpiredSandboxMessages
                          \/ DeleteExpiredEmptySandboxChannels
                          \/ SweepFails
                          \/ UNCHANGED vars
  PROVE  DeveloperApiInv'
  <1>a. Core /\ TypeOK /\ ChannelsOK BY Parts DEF Core
  <1>1. /\ UNCHANGED <<keys, accounts, members, links, serial, idem, req, begun, ticks, observed>>
        /\ sweep' \in BOOLEAN
    BY <1>a
    DEF DeleteExpiredSandboxMessages, DeleteExpiredEmptySandboxChannels, SweepFails, vars, tables,
        TypeOK, observed
  <1>2. OnlyOld
    <2>1. CASE DeleteExpiredSandboxMessages
      <3>1. channels' = channels
            /\ messages' = {m \in messages : ~(m.old /\ m \in MessagesOf("sandbox"))}
        BY <2>1 DEF DeleteExpiredSandboxMessages
      <3>2. \A m \in MessagesOf("live") : m \in messages /\ m \notin MessagesOf("sandbox")
        BY <1>a DEF MessagesOf, ChannelsOK
      <3> QED BY <1>a, <3>1, <3>2, DeletedOld
    <2>2. CASE DeleteExpiredEmptySandboxChannels
      <3>1. /\ messages' = messages
            /\ channels' = {c \in channels : ~(c.lane = "sandbox" /\ c.old
                                               /\ \A m \in messages : m.channel # c.id)}
        BY <2>2 DEF DeleteExpiredEmptySandboxChannels
      <3>2. MessagesOf("live") \subseteq messages BY DEF MessagesOf
      <3>3. \A c \in channels : c.lane = "live" => c \in channels' BY <3>1
      <3>4. channels' \subseteq channels BY <3>1
      <3> QED BY <1>a, <3>1, <3>2, <3>3, <3>4, DeletedOld
    <2>3. CASE SweepFails \/ UNCHANGED vars
      <3>1. channels' = channels /\ messages' = messages
        BY <2>3 DEF SweepFails, vars, tables
      <3>2. MessagesOf("live") \subseteq messages BY DEF MessagesOf
      <3> QED BY <1>a, <3>1, <3>2, DeletedOld
    <2> QED BY <2>1, <2>2, <2>3
  <1>3. keys' \in [Keys -> {"none", "active", "revoked", "expired"}] /\ ticks' \in 0..MaxTicks
    BY <1>a, <1>1 DEF TypeOK
  <1> QED BY <1>1, <1>2, <1>3, SystemStep

-----------------------------------------------------------------------------
(* The invariant holds.                                                    *)

LEMMA InitInv == Init => DeveloperApiInv
  <1> SUFFICES ASSUME Init PROVE DeveloperApiInv OBVIOUS
  <1> DEFINE x == CHOOSE x \in Externals : TRUE
             first == CHOOSE n \in Names : TRUE
  <1>a. x \in Externals /\ first \in Names /\ Default[x] \in Names
    BY DeveloperApiAssumption
  <1> DEFINE link(lane) == [ext |-> x, user |-> Owner, lane |-> lane]
             channel(n, lane) == [id |-> n, name |-> first, lane |-> lane,
                                  members |-> {}, old |-> FALSE]
  <1>b. /\ accounts = <<[email |-> Default[x], username |-> Default[x]]>>
        /\ links = {link("live"), link("sandbox")}
        /\ channels = {channel(1, "live"), channel(2, "sandbox")}
    BY DEF Init, Lanes
  <1>c. /\ link("live") \in Link /\ link("sandbox") \in Link
        /\ channel(1, "live") \in Channel /\ channel(2, "sandbox") \in Channel
    BY <1>a DEF Lanes, Link, Channel, Owner
  <1>d. /\ link("live").lane = "live" /\ link("sandbox").lane = "sandbox"
        /\ link("live").user = Owner /\ link("sandbox").user = Owner
        /\ channel(1, "live").lane = "live" /\ channel(2, "sandbox").lane = "sandbox"
        /\ channel(1, "live").id = 1 /\ channel(2, "sandbox").id = 2
    OBVIOUS
  <1> HIDE DEF x, first, link, channel
  <1>1. /\ accounts \in Seq([email : Names, username : Names]) /\ Len(accounts) = 1
        /\ links \subseteq Link
        /\ channels \subseteq Channel
    <2>1. accounts \in Seq([email : Names, username : Names]) /\ Len(accounts) = 1
      BY <1>a, <1>b
    <2> QED BY <1>b, <1>c, <2>1
  <1>2. TypeOK
    <2>1. /\ keys \in [Keys -> {"none", "active", "revoked", "expired"}]
          /\ members \in [Lanes -> SUBSET (1..Len(accounts))]
          /\ messages \subseteq Message
          /\ serial \in [{"channel", "message"} -> Nat]
          /\ idem \in [IdemKeys -> Answer \cup {NoAnswer}]
      BY <1>1 DEF Init, Owner
    <2>2. /\ sweep \in BOOLEAN /\ req \in [Requests -> Request]
          /\ told \subseteq Link /\ sent \subseteq (Kinds \X Nat)
          /\ ran \in [IdemKeys -> Nat] /\ lost \subseteq IdemKeys
      BY IdleTyped DEF Init
    <2>3. begun \in 0..MaxBegun /\ ticks \in 0..MaxTicks BY DeveloperApiAssumption DEF Init
    <2> QED BY <1>1, <2>1, <2>2, <2>3 DEF TypeOK
  <1>3. \A p \in Requests : req[p] = Idle /\ req[p].pc = "idle" BY IdleTyped DEF Init
  <1>4. RequestsOK BY <1>3 DEF RequestsOK, RequestOK, JoinPoints, SendPoints
  <1>5. LinksOK
    <2>1. told = {} BY DEF Init
    <2> QED BY <1>b, <1>d, <2>1 DEF LinksOK
  <1>6. ChannelsOK
    <2>1. serial["channel"] = 2 /\ messages = {} BY DEF Init
    <2>2. \A c \in channels : c.id \in {1, 2} BY <1>b, <1>d
    <2>3. \A c, d \in channels : c.id = d.id => c = d BY <1>b, <1>d
    <2> QED BY <2>1, <2>2, <2>3 DEF ChannelsOK
  <1>7. FinitelyMany
    <2>1. IsFiniteSet(links)
      <3>1. IsFiniteSet({link("live")}) BY FS_Singleton
      <3>2. IsFiniteSet({link("live")} \cup {link("sandbox")}) BY <3>1, FS_AddElement
      <3> QED BY <1>b, <3>2
    <2>2. IsFiniteSet(channels)
      <3>1. IsFiniteSet({channel(1, "live")}) BY FS_Singleton
      <3>2. IsFiniteSet({channel(1, "live")} \cup {channel(2, "sandbox")}) BY <3>1, FS_AddElement
      <3> QED BY <1>b, <3>2
    <2>3. IsFiniteSet(messages) BY FS_EmptySet DEF Init
    <2> QED BY <2>1, <2>2, <2>3 DEF FinitelyMany
  <1>8. LanesDoNotMix
    <2>1. members = [l \in Lanes |-> {Owner}] /\ messages = {} /\ sent = {} BY DEF Init
    <2>2. LinkedIsMember BY <1>b, <1>d, <2>1 DEF LinkedIsMember, Lanes
    <2> QED BY <2>1, <2>2 DEF LanesDoNotMix, SenderIsLinked, SentWasStored
  <1>9. RetriesOK
    <2>1. ASSUME NEW k \in IdemKeys
          PROVE  idem[k] = NoAnswer /\ ran[k] <= Cardinality(Saving(k))
      <3>1. idem[k] = NoAnswer /\ ran[k] = 0 BY DEF Init
      <3>2. Cardinality(Saving(k)) \in Nat BY UnderFinite
      <3> QED BY <3>1, <3>2
    <2> QED BY <2>1 DEF RetriesOK
  <1>10. ASSUME NEW pcs, "idle" \notin pcs PROVE Cardinality(PastCap(pcs)) = 0
    <2>1. PastCap(pcs) = {} BY <1>3, <1>10 DEF PastCap
    <2> QED BY <2>1, FS_EmptySet
  <1>11. UserCapOK
    <2>1. SandboxLinks = {link("sandbox")} BY <1>b, <1>d DEF SandboxLinks
    <2>2. Cardinality(SandboxLinks) = 1 BY <2>1, FS_Singleton
    <2>3. Cardinality(Provisioning) = 0 BY <1>10 DEF Provisioning
    <2> QED BY <2>2, <2>3, RequestsFinite, CapTyped DEF UserCapOK
  <1>12. ChannelCapOK
    <2>1. SandboxChannels = {channel(2, "sandbox")} BY <1>b, <1>d DEF SandboxChannels
    <2>2. Cardinality(SandboxChannels) = 1 BY <2>1, FS_Singleton
    <2>3. Cardinality(Creating) = 0 BY <1>10 DEF Creating
    <2> QED BY <2>2, <2>3, RequestsFinite, CapTyped DEF ChannelCapOK
  <1>13. MessageCapOK
    <2>1. MessagesOf("sandbox") = {} BY DEF MessagesOf, Init
    <2>2. Cardinality(MessagesOf("sandbox")) = 0 BY <2>1, FS_EmptySet
    <2>3. Cardinality(Sending) = 0 BY <1>10 DEF Sending
    <2> QED BY <2>2, <2>3, RequestsFinite, CapTyped DEF MessageCapOK
  <1> QED BY <1>2, <1>4, <1>5, <1>6, <1>7, <1>8, <1>9, <1>11, <1>12, <1>13 DEF DeveloperApiInv

LEMMA NextInv == DeveloperApiInv /\ [Next]_vars => DeveloperApiInv'
  <1> SUFFICES ASSUME DeveloperApiInv, [Next]_vars PROVE DeveloperApiInv' OBVIOUS
  <1>1. ASSUME NEW k \in Keys, CreateAPIKey(k) \/ RevokeAPIKey(k) PROVE DeveloperApiInv'
    BY <1>1, KeyStep
  <1>2. ASSUME NEW p \in Requests,
               \/ \E k \in Keys, b \in Inputs : APIKeyMiddleware(p, k, b)
               \/ IdempotencyLookup(p) \/ SaveIdempotency(p) \/ Fail(p)
        PROVE  DeveloperApiInv'
    BY <1>2, APIKeyMiddlewareStep, IdempotencyLookupStep, SaveIdempotencyStep, FailStep
  <1>3. ASSUME NEW p \in Requests,
               \/ ProvisionLookup(p) \/ checkSandboxUsers(p) \/ ensureWorkspaceMember(p)
               \/ CreateAppUser(p) \/ Relink(p)
        PROVE  DeveloperApiInv'
    BY <1>3, ProvisionLookupStep, checkSandboxUsersStep, ensureWorkspaceMemberStep,
       CreateAppUserStep, RelinkStep
  <1>4. ASSUME NEW p \in Requests, ResolveUser(p) PROVE DeveloperApiInv'
    <2>1. CASE FindUser(p, "email", GetUserByEmail(req[p].body.email), "createUser")
      <3>1. GetUserByEmail(req[p].body.email) \in SUBSET (1..Len(accounts)) BY DEF GetUserByEmail
      <3> QED BY <2>1, <3>1, FindUserStep
    <2>2. CASE CreateUser(p) BY <2>2, CreateUserStep
    <2>3. CASE FindUser(p, "email2", GetUserByEmail(req[p].body.email), "username")
      <3>1. GetUserByEmail(req[p].body.email) \in SUBSET (1..Len(accounts)) BY DEF GetUserByEmail
      <3> QED BY <2>3, <3>1, FindUserStep
    <2>4. CASE FindUser(p, "username", GetUserByUsername(req[p].body.username), "idle")
      <3>1. GetUserByUsername(req[p].body.username) \in SUBSET (1..Len(accounts))
        BY DEF GetUserByUsername
      <3> QED BY <2>4, <3>1, FindUserStep
    <2> QED BY <1>4, <2>1, <2>2, <2>3, <2>4 DEF ResolveUser
  <1>5. ASSUME NEW p \in Requests,
               \/ ChannelLookup(p, "chLookup", "chCap") \/ checkSandboxChannels(p)
               \/ CreateChannel(p) \/ ChannelLookup(p, "chAgain", "idle") \/ ChannelMember(p)
        PROVE  DeveloperApiInv'
    BY <1>5, ChannelLookupStep, checkSandboxChannelsStep, CreateChannelStep, ChannelMemberStep
  <1>6. ASSUME NEW p \in Requests, ensureChannelMember(p) PROVE DeveloperApiInv'
    <2>1. CASE At(p, "isMember")
      <3>1. \/ AfterMember(p)
            \/ Goto(p, "addMember") /\ ran' = ran
        BY <1>6, <2>1 DEF ensureChannelMember, At
      <3>2. UNCHANGED <<local, tables, told, sent>> BY <1>6, <2>1 DEF ensureChannelMember, At
      <3> QED BY <2>1, <3>1, <3>2, IsMemberStep
    <2>2. CASE At(p, "addMember")
      <3>1. \/ AddChannelMember(req[p].channel, req[p].user) /\ AfterMember(p)
            \/ Return(p) /\ UNCHANGED <<channels, ran>>
        BY <1>6, <2>2 DEF ensureChannelMember, At
      <3>2. UNCHANGED <<local, accounts, members, links, messages, serial, told, sent>>
        BY <1>6, <2>2 DEF ensureChannelMember, At
      <3> QED BY <2>2, <3>1, <3>2, AddMemberStep
    <2> QED BY <1>6, <2>1, <2>2 DEF ensureChannelMember
  <1>7. ASSUME NEW p \in Requests,
               \/ resolveUserID(p) \/ GetChannel(p)
               \/ CheckMessageQuota(p) \/ checkSandboxMessages(p) \/ CreateMessage(p)
        PROVE  DeveloperApiInv'
    BY <1>7, resolveUserIDStep, GetChannelStep, CheckMessageQuotaStep, checkSandboxMessagesStep,
       CreateMessageStep
  <1>8. CASE Tick BY <1>8, TickStep
  <1>9. CASE \/ DeleteExpiredSandboxMessages \/ DeleteExpiredEmptySandboxChannels
             \/ SweepFails \/ UNCHANGED vars
    BY <1>9, CleanerStep
  <1> QED BY <1>1, <1>2, <1>3, <1>4, <1>5, <1>6, <1>7, <1>8, <1>9 DEF Next

LEMMA Invariance == Spec => []DeveloperApiInv
  BY InitInv, NextInv, PTL DEF Spec

-----------------------------------------------------------------------------
(* The theorems.                                                           *)

\* The tables, the requests in flight and what was observed have their types,
\* whatever requests, keys and the cleaner do (internal/developerapi).
THEOREM TypeCorrect == Spec => []TypeOK
  <1>1. DeveloperApiInv => TypeOK BY DEF DeveloperApiInv
  <1> QED BY <1>1, Invariance, PTL

\* Every answer of ProvisionUser for an external id of a lane names the one user
\* that the external id is linked with, whatever ran together with it.
THEOREM OneUserCorrect == Spec => []OneUserPerExternal
  <1>1. DeveloperApiInv => OneUserPerExternal
    BY DEF DeveloperApiInv, LinksOK, OneUserPerExternal, GetAppUserByExternalID
  <1> QED BY <1>1, Invariance, PTL

\* The caps of the sandbox, which are checked before the insert, are exceeded by
\* less than the number of requests at once; and a retried write has its effect
\* at most that often, unless its answer was lost.
THEOREM RacesCorrect == Spec => []RacesBounded
  <1>1. ASSUME DeveloperApiInv PROVE SandboxCaps
    <2>1. Finite /\ Caps BY <1>1, FinitelyManyOfEach DEF DeveloperApiInv, Caps
    <2>2. ASSUME NEW pcs PROVE Cardinality(PastCap(pcs)) \in Nat
      <3>1. PastCap(pcs) \in SUBSET Requests BY DEF PastCap
      <3> QED BY <3>1, RequestsFinite, FS_Subset, FS_CardinalityType
    <2>3. /\ Cardinality(Provisioning) \in Nat /\ Cardinality(Creating) \in Nat
          /\ Cardinality(Sending) \in Nat
      BY <2>2 DEF Provisioning, Creating, Sending
    <2>4. MaxUsers > 0 => Cardinality(SandboxLinks) < MaxUsers + Cardinality(Requests)
      <3>1. Cardinality(SandboxLinks) \in Nat BY <2>1, FS_CardinalityType DEF Finite
      <3> QED BY <2>1, <2>3, <3>1, CapTyped DEF Caps, UserCapOK
    <2>5. MaxChannels > 0 => Cardinality(SandboxChannels) < MaxChannels + Cardinality(Requests)
      <3>1. Cardinality(SandboxChannels) \in Nat BY <2>1, FS_CardinalityType DEF Finite
      <3> QED BY <2>1, <2>3, <3>1, CapTyped DEF Caps, ChannelCapOK
    <2>6. MaxMessages > 0 =>
            Cardinality(MessagesOf("sandbox")) < MaxMessages + Cardinality(Requests)
      <3>1. Cardinality(MessagesOf("sandbox")) \in Nat BY <2>1, FS_CardinalityType DEF Finite
      <3> QED BY <2>1, <2>3, <3>1, CapTyped DEF Caps, MessageCapOK
    <2> QED BY <2>4, <2>5, <2>6 DEF SandboxCaps, SandboxLinks, SandboxChannels
  <1>2. ASSUME DeveloperApiInv PROVE RetriesBounded
    <2> SUFFICES ASSUME NEW k \in IdemKeys \ lost PROVE ran[k] <= Cardinality(Requests)
      BY DEF RetriesBounded
    <2>1. ran[k] \in Nat BY <1>2 DEF DeveloperApiInv, TypeOK
    <2>2. IF idem[k] = NoAnswer
          THEN ran[k] <= Cardinality(Saving(k))
          ELSE ran[k] + Cardinality(Under(k)) <= Cardinality(Requests)
      BY <1>2 DEF DeveloperApiInv, RetriesOK
    <2> QED BY <2>1, <2>2, UnderFinite, RequestsFinite
  <1>3. DeveloperApiInv => RacesBounded BY <1>1, <1>2 DEF RacesBounded
  <1> QED BY <1>3, Invariance, PTL

\* Members, senders and events belong to the lane of the key they came with,
\* though keys expire and the cleaner deletes (docs/SDK_INTEGRATION.md).
THEOREM LanesCorrect == Spec => []LanesDoNotMix
  <1>1. DeveloperApiInv => LanesDoNotMix BY DEF DeveloperApiInv
  <1> QED BY <1>1, Invariance, PTL

=============================================================================
