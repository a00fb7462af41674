---------------------------- MODULE MessagesProofs ----------------------------
(***************************************************************************)
(* Proofs about Messages, for any number of users, channels, messages,     *)
(* files and requests in flight, any spellings and any requests.           *)
(*                                                                         *)
(* Three arguments carry them.  A request that no change of membership     *)
(* overlapped may still do what it was let do.  The names that are left to *)
(* notify are distinct, and each notification takes one of them.  And a    *)
(* file that no event lists is one its request has yet to list, unless the *)
(* request was cut or refused.                                             *)
(***************************************************************************)
EXTENDS Messages, FiniteSetTheorems, TLAPS

-----------------------------------------------------------------------------
(* The inductive invariant.                                                *)

\* The points of a request that sends; those after its message was stored;
\* and those at which files are attached to a message.
Sending == {"role", "quota", "insert", "publish", "reply", "mention"}
Sent == {"publish", "reply", "mention"}
Notifying == {"reply", "mention"}
Attaching == {"head", "attach", "updated"}

Attached(k, m) ==
  \E a \in 1..Len(attachments) : attachments[a].key = k /\ attachments[a].message = m

\* A request has text or files, and files as long as it attaches some.
ContentOK(r) ==
  /\ r.pc \in {"ws", "member"} =>
       (r.files = <<>> => r.body.kind = "send" /\ ~r.body.empty)
  /\ r.pc \in Sending => (r.files = <<>> => ~r.body.empty)
  /\ r.pc \in {"message", "head", "attach"} => r.files # <<>>

\* A request that found or stored its message is of the sender, and what it
\* will notify of is in the message.
StoredOK(r) ==
  /\ r.pc \notin Sent \cup Attaching => r.id = 0
  /\ r.pc \in Sent \cup Attaching =>
       r.id \in 1..Len(messages) /\ messages[r.id].sender = r.body.user
  /\ r.pc \in Sent =>
       /\ messages[r.id].channel = r.body.channel
       /\ messages[r.id].names = r.body.names
       /\ messages[r.id].reply = r.body.reply
       /\ messages[r.id].empty = r.body.empty

\* The names that are left to notify are distinct names of the message.
NamesOf(names, todo) ==
  /\ \A i \in 1..Len(todo) : \E k \in 1..Len(names) : names[k] = todo[i]
  /\ \A i, j \in 1..Len(todo) : todo[i] = todo[j] => i = j
TodoOK(r) == r.pc \in Notifying => NamesOf(r.body.names, r.todo)

\* A file was checked before its row is written; the files that are done are
\* attached.
FilesOK(r) ==
  /\ r.pc = "attach" =>
       LET f == Head(r.files)
       IN validateUpload(f) /\ OfUser(f.key, r.body.user) /\ HeadObject(f.key) = f.size
  /\ r.pc \notin Attaching => r.done = {}
  /\ r.pc = "updated" => r.done # {}
  /\ \A k \in r.done : Attached(k, r.id)

\* Unless a change of its user's membership overlapped, a request may still do
\* what it was let do.
AccessOK(r) ==
  LET b == r.body
  IN /\ r.epoch <= changes[b.user]
     /\ r.epoch = changes[b.user] =>
          /\ r.pc \in {"member", "role", "quota", "insert"} => members[b.user] # "none"
          /\ r.pc \in {"role", "quota", "insert"} => b.user \in inChannel[b.channel]
          /\ r.pc \in {"quota", "insert"} => Allowed(members[b.user], b.channel, b.user)

RequestOK(r) == ContentOK(r) /\ StoredOK(r) /\ TodoOK(r) /\ FilesOK(r) /\ AccessOK(r)
RequestsOK == \A p \in Requests : RequestOK(req[p])

\* A message is sent by one request.
SendsApart ==
  \A p, q \in Requests :
    req[p].pc \in Sent /\ req[q].pc \in Sent /\ req[p].id = req[q].id => p = q

\* Rows refer to messages that there are.
RowsOK ==
  /\ \A n \in 1..Len(notifications) :
       LET x == notifications[n]
       IN /\ x.message \in 1..Len(messages)
          /\ x.type = "reply" => messages[x.message].reply \in 1..Len(messages)
  /\ \A a \in 1..Len(attachments) : attachments[a].message \in 1..Len(messages)
  /\ \A e \in 1..Len(events) : events[e].message \in 1..Len(messages)

\* The mentions of m that u was told of, the spellings of u in m, and those
\* among the names left.
Told(m, u) == {n \in 1..Len(notifications) :
                 /\ notifications[n].user = u /\ notifications[n].message = m
                 /\ notifications[n].type = "mention"}
SpellingsOf(u, names) == {names[k] : k \in {j \in 1..Len(names) : NameOf(names[j]) = u}}
Spellings(m, u) == SpellingsOf(u, messages[m].names)
Left(r) == {r.todo[i] : i \in 1..Len(r.todo)}

\* A message that was not announced is not told of, and each mention told of
\* is of a spelling that is not left.
MentionsOK ==
  /\ \A m \in 1..Len(messages), u \in Users :
       Cardinality(Told(m, u)) <= Cardinality(Spellings(m, u))
  /\ \A p \in Requests, u \in Users :
       /\ At(p, "publish") => Told(req[p].id, u) = {}
       /\ req[p].pc \in Notifying =>
            Cardinality(Told(req[p].id, u)) <=
              Cardinality(Spellings(req[p].id, u) \ Left(req[p]))

\* The announcements of m.
News(m) == {e \in 1..Len(events) : events[e].message = m /\ events[e].type = "message.new"}
AnnouncedOnce ==
  /\ \A m \in (Len(FirstMessages) + 1)..Len(messages) :
       \/ Cardinality(News(m)) = 1
       \/ News(m) = {} /\ (m \in cut \/ \E p \in Requests : At(p, "publish") /\ req[p].id = m)
  /\ \A p \in Requests : At(p, "publish") => News(req[p].id) = {}

\* What message.updated lists is attached; a file that none lists is one of a
\* request that goes on, or that was cut or refused.
ListedOK ==
  /\ \A e \in 1..Len(events) : \A k \in events[e].files : Attached(k, events[e].message)
  /\ \A a \in 1..Len(attachments) :
       LET m == attachments[a].message
           k == attachments[a].key
       IN \/ m \in refused \cup cut
          \/ \E p \in Requests : req[p].id = m /\ k \in req[p].done
          \/ \E e \in 1..Len(events) : events[e].message = m /\ k \in events[e].files

MessagesInv ==
  /\ TypeOK /\ RequestsOK /\ SendsApart /\ RowsOK /\ PostingAllowed /\ NotifiedForReason
  /\ ReadByUser /\ MentionsOK /\ FileOfSender /\ AnnouncedOnce /\ ListedOK /\ EmptyHasFile

-----------------------------------------------------------------------------
(* Constants, sequences and sets.                                          *)

LEMMA BoundsTyped ==
  /\ MaxMessages \in Nat /\ MaxBegun \in Nat /\ MaxBytes \in Nat
  /\ FirstMessages \in Seq([channel : Channels, sender : Users])
  /\ Len(FirstMessages) <= MaxMessages
  BY MessagesAssumption

LEMMA InputsTyped == Inputs \subseteq Input
  BY MessagesAssumption

LEMMA NamesTyped == \A n \in Names : NameOf(n) \in Users \cup {NoUser}
  BY MessagesAssumption

LEMMA ObjectsTyped == Object \in [Keys -> [owner : Users, size : Nat]]
  BY MessagesAssumption

LEMMA NoBodyTyped == NoBody \in Input
  <1>1. Nobody \in Users /\ (CHOOSE c \in Channels : TRUE) \in Channels
    BY MessagesAssumption DEF Nobody
  <1>2. <<>> \in Seq(Names) /\ <<>> \in Seq(File)
    OBVIOUS
  <1> QED BY <1>1, <1>2 DEF NoBody, Input, Kinds

LEMMA IdleTyped ==
  /\ Idle \in Request
  /\ Idle.pc = "idle" /\ Idle.id = 0 /\ Idle.done = {} /\ Idle.epoch = 0
  BY NoBodyTyped DEF Idle, Request, Points

LEMMA AppendForm ==
  ASSUME NEW S, NEW s \in Seq(S), NEW x \in S
  PROVE  /\ Append(s, x) \in Seq(S)
         /\ Len(s) \in Nat /\ Len(Append(s, x)) = Len(s) + 1
         /\ \A i \in 1..Len(s) : Append(s, x)[i] = s[i]
         /\ Append(s, x)[Len(s) + 1] = x
  OBVIOUS

\* An image is not larger.
LEMMA ImageFinite ==
  ASSUME NEW S, NEW T, NEW f \in [S -> T], IsFiniteSet(S), \A t \in T : \E s \in S : f[s] = t
  PROVE  IsFiniteSet(T) /\ Cardinality(T) <= Cardinality(S)
  <1>1. f \in Surjection(S, T) BY DEF Surjection
  <1> QED BY <1>1, FS_Surjection

LEMMA UpToFinite == \A n \in Nat : IsFiniteSet(1..n)
  <1>1. ASSUME NEW n \in Nat PROVE IsFiniteSet(1..n)
    <2>1. 1 \in Int /\ n \in Int OBVIOUS
    <2> QED BY <2>1, FS_Interval
  <1> QED BY <1>1

LEMMA SpellingsFinite ==
  \A names \in Seq(Names), u \in Users : IsFiniteSet(SpellingsOf(u, names))
  <1>1. ASSUME NEW names \in Seq(Names), NEW u \in Users
        PROVE  IsFiniteSet(SpellingsOf(u, names))
    <2> DEFINE J == {j \in 1..Len(names) : NameOf(names[j]) = u}
               f == [k \in J |-> names[k]]
    <2>1. IsFiniteSet(1..Len(names)) /\ J \in SUBSET (1..Len(names)) BY UpToFinite
    <2>2. IsFiniteSet(J) BY <2>1, FS_Subset
    <2>3. f \in [J -> SpellingsOf(u, names)] BY DEF SpellingsOf
    <2>4. \A t \in SpellingsOf(u, names) : \E k \in J : f[k] = t BY DEF SpellingsOf
    <2> QED BY <2>2, <2>3, <2>4, ImageFinite
  <1> QED BY <1>1

\* The names of a text, each once.
LEMMA MentionsDistinct ==
  ASSUME NEW names \in Seq(Names)
  PROVE  ParseMentions(names) \in Seq(Names) /\ NamesOf(names, ParseMentions(names))
  <1> DEFINE first == {k \in 1..Len(names) : \A j \in 1..(k - 1) : names[j] # names[k]}
             Upto(k) == {j \in first : j <= k}
             Rank(k) == Cardinality(Upto(k))
             N == Cardinality(first)
             rank == [k \in first |-> Rank(k)]
             todo == [i \in 1..N |-> names[CHOOSE k \in first : Rank(k) = i]]
  <1>1. ParseMentions(names) = todo BY Zenon DEF ParseMentions
  <1>2. IsFiniteSet(first)
    <2>1. IsFiniteSet(1..Len(names)) /\ first \in SUBSET (1..Len(names)) BY UpToFinite
    <2> QED BY <2>1, FS_Subset
  <1>3. N \in Nat BY <1>2, FS_CardinalityType
  <1>4. \A k \in first : IsFiniteSet(Upto(k)) /\ Rank(k) \in 1..N
    <2>1. ASSUME NEW k \in first PROVE IsFiniteSet(Upto(k)) /\ Rank(k) \in 1..N
      <3>1. Upto(k) \in SUBSET first OBVIOUS
      <3>2. IsFiniteSet(Upto(k)) /\ Rank(k) <= N BY <1>2, <3>1, FS_Subset
      <3>3. Rank(k) \in Nat BY <3>2, FS_CardinalityType
      <3>4. k \in Upto(k) OBVIOUS
      <3>5. Rank(k) # 0 BY <3>2, <3>4, FS_EmptySet
      <3> QED BY <1>3, <3>2, <3>3, <3>5
    <2> QED BY <2>1
  <1>5. ASSUME NEW k \in first, NEW l \in first, k < l PROVE Rank(k) < Rank(l)
    <2>1. Upto(k) \in SUBSET Upto(l) BY <1>5
    <2>2. l \in Upto(l) /\ l \notin Upto(k) BY <1>5
    <2>3. Upto(k) # Upto(l) BY <2>2
    <2>4. IsFiniteSet(Upto(l)) BY <1>4
    <2>5. Rank(k) <= Rank(l) /\ Rank(k) # Rank(l) BY <2>1, <2>3, <2>4, FS_Subset
    <2> HIDE DEF first, Upto, Rank, N
    <2>6. Rank(k) \in Nat /\ Rank(l) \in Nat BY <1>3, <1>4
    <2> QED BY <2>5, <2>6
  <1>6. \A k, l \in first : Rank(k) = Rank(l) => k = l
    <2>1. ASSUME NEW k \in first, NEW l \in first, Rank(k) = Rank(l) PROVE k = l
      <3>1. k \in Int /\ l \in Int OBVIOUS
      <3>2. ~(k < l) /\ ~(l < k)
        <4> HIDE DEF first, Upto, Rank, N
        <4>1. Rank(k) \in Int /\ Rank(l) \in Int BY <1>3, <1>4
        <4> QED BY <1>5, <2>1, <4>1
      <3> QED BY <3>1, <3>2
    <2> QED BY <2>1
  <1>7. rank \in Injection(first, 1..N)
    BY <1>4, <1>6 DEF Injection, IsInjective
  <1>8. IsFiniteSet(1..N) /\ Cardinality(1..N) = N
    <2>1. 1 \in Int /\ N \in Int BY <1>3
    <2> QED BY <1>3, <2>1, FS_Interval
  <1>9. rank \in Surjection(first, 1..N) BY <1>7, <1>8, FS_Injection
  <1>10. \A i \in 1..N : \E k \in first : Rank(k) = i BY <1>9 DEF Surjection
  <1> DEFINE At1(i) == CHOOSE k \in first : Rank(k) = i
  <1>11. \A i \in 1..N : At1(i) \in first /\ Rank(At1(i)) = i
    <2> HIDE DEF first, Rank, Upto, N
    <2> QED BY <1>10
  <1>12. \A k, l \in first : names[k] = names[l] => k = l
    <2>1. ASSUME NEW k \in first, NEW l \in first, names[k] = names[l] PROVE k = l
      <3>1. k \in 1..Len(names) /\ l \in 1..Len(names) OBVIOUS
      <3>2. ~(k < l) BY <2>1, <3>1
      <3>3. ~(l < k) BY <2>1, <3>1
      <3> QED BY <3>1, <3>2, <3>3
    <2> QED BY <2>1
  <1>13. \A k \in first : k \in 1..Len(names) /\ names[k] \in Names OBVIOUS
  <1>14. /\ todo \in Seq(Names) /\ Len(todo) = N
         /\ \A i \in 1..N : todo[i] = names[At1(i)]
    <2> HIDE DEF first, Rank, Upto, N
    <2>1. \A i \in 1..N : names[At1(i)] \in Names BY <1>11, <1>13
    <2>2. todo = [i \in 1..N |-> names[At1(i)]] OBVIOUS
    <2> HIDE DEF At1, todo
    <2> QED BY <1>3, <2>1, <2>2
  <1>15. \A i \in 1..N : \E k \in 1..Len(names) : names[k] = todo[i]
    <2> HIDE DEF first, Rank, Upto, N, At1, todo
    <2> QED BY <1>11, <1>13, <1>14
  <1>16. \A i, j \in 1..N : todo[i] = todo[j] => i = j
    <2> HIDE DEF first, Rank, Upto, N, At1, todo
    <2> QED BY <1>11, <1>12, <1>14
  <1> HIDE DEF todo
  <1>17. NamesOf(names, todo) BY <1>14, <1>15, <1>16 DEF NamesOf
  <1> QED BY <1>1, <1>14, <1>17

-----------------------------------------------------------------------------
(* The forms of a request's step.                                          *)

LEMMA MessagesTyped ==
  ASSUME TypeOK
  PROVE  /\ Len(messages) \in Nat
         /\ \A m \in 1..Len(messages) : messages[m] \in Message
         /\ \A m \in 1..Len(messages) : messages[m].names \in Seq(Names)
  <1>1. messages \in Seq(Message) BY DEF TypeOK
  <1>2. \A m \in 1..Len(messages) : messages[m] \in Message BY <1>1
  <1>3. \A x \in Message : x.names \in Seq(Names) BY DEF Message
  <1> QED BY <1>1, <1>2, <1>3

\* A step of p alone, and a step that moves p and keeps what it has read.
Others(p) == \A q \in Requests \ {p} : req'[q] = req[q]
Only(p) == req' \in [Requests -> Request] /\ Others(p)
Same(r, s) == /\ s.body = r.body /\ s.id = r.id /\ s.todo = r.todo
              /\ s.files = r.files /\ s.done = r.done /\ s.epoch = r.epoch

LEMMA ReturnForm ==
  ASSUME TypeOK, NEW p \in Requests, Return(p)
  PROVE  Only(p) /\ req'[p] = Idle
  <1>1. req \in [Requests -> Request] BY DEF TypeOK
  <1> QED BY <1>1, IdleTyped DEF Return, Only, Others

LEMMA GotoForm ==
  ASSUME TypeOK, NEW p \in Requests, NEW pc \in Points, Goto(p, pc)
  PROVE  Only(p) /\ req'[p].pc = pc /\ Same(req[p], req'[p])
  <1>1. req \in [Requests -> Request] BY DEF TypeOK
  <1> QED BY <1>1 DEF Goto, Only, Others, Request, Same

-----------------------------------------------------------------------------
(* What a step of one request keeps.                                       *)

\* Rows are added, and rows of messages and attachments are never changed.
Longer(s, t) == Len(t) >= Len(s) /\ \A i \in 1..Len(s) : t[i] = s[i]
Grows == Longer(messages, messages') /\ Longer(attachments, attachments')

LEMMA AttachedKept ==
  ASSUME TypeOK, TypeOK', Grows, NEW k, NEW m, Attached(k, m)
  PROVE  Attached(k, m)'
  <1>1. Len(attachments) \in Nat /\ Len(attachments') \in Nat BY DEF TypeOK
  <1> QED BY <1>1 DEF Attached, Grows, Longer

LEMMA RequestKept ==
  ASSUME TypeOK, TypeOK', Grows, UNCHANGED access,
         NEW q \in Requests, req'[q] = req[q], RequestOK(req[q])
  PROVE  RequestOK(req[q])'
  <1> DEFINE r == req[q]
  <1>1. Len(messages) \in Nat /\ Len(messages') \in Nat BY DEF TypeOK
  <1>2. r.pc \in Sent \cup Attaching =>
          r.id \in 1..Len(messages) /\ r.id \in 1..Len(messages')
                                    /\ messages'[r.id] = messages[r.id]
    BY <1>1 DEF RequestOK, StoredOK, Grows, Longer
  <1>3. StoredOK(req[q])' BY <1>2 DEF RequestOK, StoredOK
  <1>4. \A k \in r.done : Attached(k, r.id)'
    BY AttachedKept DEF RequestOK, FilesOK
  <1>5. FilesOK(req[q])' BY <1>4 DEF RequestOK, FilesOK
  <1>6. AccessOK(req[q])' BY DEF RequestOK, AccessOK, access
  <1>7. ContentOK(req[q])' /\ TodoOK(req[q])' BY DEF RequestOK, ContentOK, TodoOK
  <1> QED BY <1>3, <1>5, <1>6, <1>7 DEF RequestOK

LEMMA RequestsKept ==
  ASSUME TypeOK, TypeOK', RequestsOK, Grows, UNCHANGED access,
         NEW p \in Requests, Only(p), RequestOK(req[p])'
  PROVE  RequestsOK'
  <1>1. ASSUME NEW q \in Requests PROVE RequestOK(req[q])'
    <2>1. CASE q = p BY <2>1
    <2>2. CASE q # p
      <3>1. req'[q] = req[q] /\ RequestOK(req[q]) BY <2>2 DEF Only, Others, RequestsOK
      <3> QED BY <3>1, RequestKept
    <2> QED BY <2>1, <2>2
  <1> QED BY <1>1 DEF RequestsOK

\* All keep what they rely on when no request moves.
LEMMA RequestsSame ==
  ASSUME RequestsOK, UNCHANGED <<members, inChannel, changes, messages, req>>,
         \A k, m : Attached(k, m)' <=> Attached(k, m)
  PROVE  RequestsOK'
  <1>1. ASSUME NEW p \in Requests PROVE RequestOK(req[p])'
    <2>1. RequestOK(req[p]) BY DEF RequestsOK
    <2>2. ContentOK(req[p])' /\ TodoOK(req[p])' BY <2>1 DEF RequestOK, ContentOK, TodoOK
    <2>3. StoredOK(req[p])' BY <2>1 DEF RequestOK, StoredOK
    <2>4. FilesOK(req[p])' BY <2>1 DEF RequestOK, FilesOK
    <2>5. AccessOK(req[p])' BY <2>1 DEF RequestOK, AccessOK
    <2> QED BY <2>2, <2>3, <2>4, <2>5 DEF RequestOK
  <1> QED BY <1>1 DEF RequestsOK

\* A request that starts anew relies on nothing.
LEMMA IdleOK ==
  ASSUME TypeOK', NEW p \in Requests, req'[p] = Idle
  PROVE  RequestOK(req[p])'
  <1>1. changes' \in [Users -> Nat] /\ Idle.body.user \in Users
    BY NoBodyTyped DEF TypeOK, Idle, Input
  <1>2. ContentOK(req[p])' /\ StoredOK(req[p])' /\ TodoOK(req[p])'
    BY IdleTyped DEF ContentOK, StoredOK, TodoOK, Sending, Sent, Attaching, Notifying
  <1>3. FilesOK(req[p])' BY IdleTyped DEF FilesOK, Attaching
  <1>4. AccessOK(req[p])' BY <1>1, IdleTyped DEF AccessOK
  <1> QED BY <1>2, <1>3, <1>4 DEF RequestOK

\* What a step of p may do to its request without a row for it: it has no new
\* message and no new names, and leaves nothing it had to do, unless the
\* message is noted as refused or cut.
Onward(p) ==
  LET r == req[p]
      s == req'[p]
  IN /\ s.pc \in Sent => r.pc \in Sent /\ s.id = r.id
     /\ s.pc = "publish" => r.pc = "publish"
     /\ s.pc \in Notifying => r.pc \in Notifying /\ Left(s) \subseteq Left(r)
     /\ r.pc = "publish" => s.pc = "publish" \/ r.id \in cut'
     /\ \/ r.id \in refused' \cup cut'
        \/ /\ r.done = {} \/ (s.id = r.id /\ r.done \subseteq s.done)
           /\ r.id = 0 \/ (s.id = r.id /\ s.pc # "idle") \/ ~messages[r.id].empty

Quiet(p) ==
  /\ Only(p) /\ UNCHANGED <<access, rows>> /\ Onward(p)
  /\ refused \subseteq refused' /\ cut \subseteq cut'

LEMMA ApartKept ==
  ASSUME SendsApart, NEW p \in Requests, Only(p),
         req'[p].pc \in Sent => req[p].pc \in Sent /\ req'[p].id = req[p].id
  PROVE  SendsApart'
  BY DEF SendsApart, Only, Others

\* What a request with the mentions told of its message promises.
ToldOf(r, told, m, u) ==
  /\ r.pc = "publish" => told = {}
  /\ r.pc \in Notifying => Cardinality(told) <= Cardinality(Spellings(m, u) \ Left(r))

LEMMA MentionsStep ==
  ASSUME UNCHANGED messages,
         \A m \in 1..Len(messages), u \in Users :
           Cardinality(Told(m, u)') <= Cardinality(Spellings(m, u)),
         \A m : \A q \in Requests, u \in Users :
           req'[q].id = m => ToldOf(req'[q], Told(m, u)', m, u)
  PROVE  MentionsOK'
  <1>1. \A m, u : Spellings(m, u)' = Spellings(m, u) BY DEF Spellings
  <1>2. ASSUME NEW q \in Requests, NEW u \in Users
        PROVE  /\ req'[q].pc = "publish" => Told(req[q].id, u)' = {}
               /\ req'[q].pc \in Notifying =>
                    Cardinality(Told(req[q].id, u)') <=
                      Cardinality(Spellings(req[q].id, u)' \ Left(req'[q]))
    <2>1. PICK m : m = req'[q].id OBVIOUS
    <2>2. /\ Told(req[q].id, u)' = Told(m, u)'
          /\ Spellings(req[q].id, u)' = Spellings(m, u)'
      BY <2>1 DEF Told, Spellings
    <2>3. ToldOf(req'[q], Told(m, u)', m, u) BY <2>1
    <2> QED BY <1>1, <2>1, <2>2, <2>3 DEF ToldOf
  <1>3. \A m \in 1..Len(messages), u \in Users :
          Cardinality(Told(m, u)') <= Cardinality(Spellings(m, u)')
    BY <1>1
  <1> QED BY <1>2, <1>3 DEF MentionsOK, At

LEMMA MentionsSame ==
  ASSUME MentionsOK, UNCHANGED <<messages, req>>, \A m, u : Told(m, u)' = Told(m, u)
  PROVE  MentionsOK'
  <1>1. ASSUME NEW q \in Requests, NEW u \in Users, NEW m, req'[q].id = m
        PROVE  ToldOf(req'[q], Told(m, u)', m, u)
    <2>1. ToldOf(req[q], Told(m, u), m, u) BY <1>1 DEF MentionsOK, ToldOf, At
    <2> QED BY <2>1
  <1>2. \A m \in 1..Len(messages), u \in Users :
          Cardinality(Told(m, u)') <= Cardinality(Spellings(m, u))
    BY DEF MentionsOK
  <1> QED BY <1>1, <1>2, MentionsStep

LEMMA MentionsKept ==
  ASSUME TypeOK, RequestsOK, MentionsOK, NEW p \in Requests, Only(p), Onward(p),
         UNCHANGED messages, \A m, u : Told(m, u)' = Told(m, u)
  PROVE  MentionsOK'
  <1>1. \A m, u : Told(m, u)' = Told(m, u) /\ Spellings(m, u)' = Spellings(m, u)
    BY DEF Spellings
  <1>2. ASSUME NEW q \in Requests, NEW u \in Users
        PROVE  /\ req'[q].pc = "publish" => Told(req'[q].id, u) = {}
               /\ req'[q].pc \in Notifying =>
                    Cardinality(Told(req'[q].id, u)) <=
                      Cardinality(Spellings(req'[q].id, u) \ Left(req'[q]))
    <2>1. CASE q # p
      <3>1. req'[q] = req[q] BY <2>1 DEF Only, Others
      <3> QED BY <3>1 DEF MentionsOK, At
    <2>2. CASE q = p /\ req'[p].pc = "publish"
      <3>1. req[p].pc = "publish" /\ req'[p].id = req[p].id BY <2>2 DEF Onward, Sent
      <3> QED BY <2>2, <3>1 DEF MentionsOK, At, Notifying
    <2>3. CASE q = p /\ req'[p].pc \in Notifying
      <3> DEFINE m == req[p].id
                 A == Spellings(m, u) \ Left(req[p])
                 B == Spellings(m, u) \ Left(req'[p])
      <3>1. /\ req[p].pc \in Notifying /\ req'[p].id = m
            /\ Left(req'[p]) \subseteq Left(req[p])
        BY <2>3 DEF Onward, Sent, Notifying
      <3>2. Cardinality(Told(m, u)) <= Cardinality(A) BY <3>1 DEF MentionsOK
      <3>3. m \in 1..Len(messages)
        BY <3>1 DEF RequestsOK, RequestOK, StoredOK, Sent, Notifying
      <3>4. messages[m].names \in Seq(Names) BY <3>3, MessagesTyped
      <3>5. IsFiniteSet(Spellings(m, u)) BY <3>4, SpellingsFinite DEF Spellings
      <3>6. B \in SUBSET Spellings(m, u) /\ A \in SUBSET B BY <3>1
      <3>7. IsFiniteSet(B) BY <3>5, <3>6, FS_Subset
      <3>8. IsFiniteSet(A) /\ Cardinality(A) <= Cardinality(B) BY <3>6, <3>7, FS_Subset
      <3>9. Told(m, u) \in SUBSET (1..Len(notifications)) BY DEF Told
      <3>10. IsFiniteSet(Told(m, u))
        <4>1. IsFiniteSet(1..Len(notifications)) BY UpToFinite DEF TypeOK
        <4> QED BY <3>9, <4>1, FS_Subset
      <3>11. /\ Cardinality(Told(m, u)) \in Nat /\ Cardinality(A) \in Nat
             /\ Cardinality(B) \in Nat
        BY <3>7, <3>8, <3>10, FS_CardinalityType
      <3>12. Cardinality(Told(m, u)) <= Cardinality(B)
        <4> HIDE DEF A, B
        <4> QED BY <3>2, <3>8, <3>11
      <3> QED BY <2>3, <3>1, <3>12 DEF Notifying
    <2> QED BY <2>1, <2>2, <2>3
  <1>3. \A m \in 1..Len(messages), u \in Users :
          Cardinality(Told(m, u)') <= Cardinality(Spellings(m, u))
    BY <1>1 DEF MentionsOK
  <1>4. ASSUME NEW q \in Requests, NEW u \in Users, NEW m, req'[q].id = m
        PROVE  ToldOf(req'[q], Told(m, u)', m, u)
    <2>1. Told(m, u)' = Told(m, u) BY <1>1
    <2>2. ToldOf(req'[q], Told(m, u), m, u) BY <1>2, <1>4 DEF ToldOf
    <2> QED BY <2>1, <2>2
  <1> QED BY <1>3, <1>4, MentionsStep

LEMMA AnnouncedKept ==
  ASSUME TypeOK, AnnouncedOnce, NEW p \in Requests, Only(p), Onward(p),
         UNCHANGED <<messages, events>>, cut \subseteq cut'
  PROVE  AnnouncedOnce'
  <1>1. \A m : News(m)' = News(m) BY DEF News
  <1>2. ASSUME NEW q \in Requests, req'[q].pc = "publish"
        PROVE  req[q].pc = "publish" /\ req'[q].id = req[q].id
    <2>1. CASE q = p BY <1>2, <2>1 DEF Onward, Sent
    <2>2. CASE q # p BY <1>2, <2>2 DEF Only, Others
    <2> QED BY <2>1, <2>2
  <1>3. \A q \in Requests : At(q, "publish")' => News(req'[q].id) = {}
    BY <1>2 DEF AnnouncedOnce, At
  <1>4. ASSUME NEW q \in Requests, At(q, "publish")
        PROVE  (req'[q].pc = "publish" /\ req'[q].id = req[q].id) \/ req[q].id \in cut'
    <2>1. CASE q = p BY <1>2, <1>4, <2>1 DEF Onward, At
    <2>2. CASE q # p BY <1>4, <2>2 DEF Only, Others, At
    <2> QED BY <2>1, <2>2
  <1>5. ASSUME NEW m \in (Len(FirstMessages) + 1)..Len(messages)
        PROVE  \/ Cardinality(News(m)) = 1
               \/ /\ News(m) = {}
                  /\ \/ m \in cut'
                     \/ \E q \in Requests : req'[q].pc = "publish" /\ req'[q].id = m
    BY <1>4 DEF AnnouncedOnce
  <1> QED BY <1>1, <1>3, <1>5 DEF AnnouncedOnce, At

LEMMA ListedKept ==
  ASSUME TypeOK, ListedOK, NEW p \in Requests, Only(p), Onward(p),
         UNCHANGED <<attachments, events>>, refused \subseteq refused', cut \subseteq cut'
  PROVE  ListedOK'
  <1>1. \A k, m : Attached(k, m)' <=> Attached(k, m) BY DEF Attached
  <1>2. ASSUME NEW q \in Requests, NEW k \in req[q].done
        PROVE  \/ req[q].id \in refused' \cup cut'
               \/ req'[q].id = req[q].id /\ k \in req'[q].done
    <2>1. CASE q = p BY <1>2, <2>1 DEF Onward
    <2>2. CASE q # p BY <1>2, <2>2 DEF Only, Others
    <2> QED BY <2>1, <2>2
  <1>3. ASSUME NEW a \in 1..Len(attachments)
        PROVE  \/ attachments[a].message \in refused' \cup cut'
               \/ \E q \in Requests : /\ req'[q].id = attachments[a].message
                                      /\ attachments[a].key \in req'[q].done
               \/ \E e \in 1..Len(events) : /\ events[e].message = attachments[a].message
                                            /\ attachments[a].key \in events[e].files
    BY <1>2 DEF ListedOK
  <1> QED BY <1>1, <1>3 DEF ListedOK

LEMMA EmptyKept ==
  ASSUME TypeOK, EmptyHasFile, NEW p \in Requests, Only(p), Onward(p),
         UNCHANGED <<messages, attachments>>, refused \subseteq refused', cut \subseteq cut'
  PROVE  EmptyHasFile'
  <1>1. ASSUME NEW m \in 1..Len(messages), messages[m].empty,
               NEW q \in Requests, ~At(q, "idle"), req[q].id = m
        PROVE  m \in refused' \cup cut' \/ (req'[q].pc # "idle" /\ req'[q].id = m)
    <2>1. CASE q = p
      <3>1. m # 0 BY DEF TypeOK
      <3> QED BY <1>1, <2>1, <3>1 DEF Onward
    <2>2. CASE q # p BY <1>1, <2>2 DEF Only, Others, At
    <2> QED BY <2>1, <2>2
  <1>2. ASSUME NEW m \in 1..Len(messages), messages[m].empty
        PROVE  \/ \E q \in Requests : req'[q].pc # "idle" /\ req'[q].id = m
               \/ m \in refused' \cup cut'
               \/ \E a \in 1..Len(attachments) : attachments[a].message = m
    BY <1>1, <1>2 DEF EmptyHasFile, InFlight
  <1> QED BY <1>2 DEF EmptyHasFile, InFlight, At

\* A step of p that writes no row.
LEMMA QuietInv ==
  ASSUME MessagesInv, NEW p \in Requests, Quiet(p), TypeOK', RequestOK(req[p])'
  PROVE  MessagesInv'
  <1>1. TypeOK /\ RequestsOK BY DEF MessagesInv
  <1>2. Only(p) /\ Onward(p) /\ UNCHANGED access BY DEF Quiet
  <1>3. UNCHANGED <<messages, notifications, attachments, events>> BY DEF Quiet, rows
  <1>4. refused \subseteq refused' /\ cut \subseteq cut' BY DEF Quiet
  <1>5. Grows
    <2>1. Len(messages) \in Nat /\ Len(attachments) \in Nat BY <1>1 DEF TypeOK
    <2> QED BY <1>3, <2>1 DEF Grows, Longer
  <1>6. RequestsOK' BY <1>1, <1>2, <1>5, RequestsKept
  <1>7. SendsApart' BY <1>2, ApartKept DEF MessagesInv, Onward
  <1>8. MentionsOK'
    <2>1. \A m, u : Told(m, u)' = Told(m, u) BY <1>3 DEF Told
    <2> QED BY <1>1, <1>2, <1>3, <2>1, MentionsKept DEF MessagesInv
  <1>9. AnnouncedOnce' BY <1>1, <1>2, <1>3, <1>4, AnnouncedKept DEF MessagesInv
  <1>10. ListedOK' BY <1>1, <1>2, <1>3, <1>4, ListedKept DEF MessagesInv
  <1>11. EmptyHasFile' BY <1>1, <1>2, <1>3, <1>4, EmptyKept DEF MessagesInv
  <1>12. RowsOK' /\ PostingAllowed' BY <1>3 DEF MessagesInv, RowsOK, PostingAllowed
  <1>13. NotifiedForReason' /\ ReadByUser' BY <1>3 DEF MessagesInv, NotifiedForReason, ReadByUser
  <1>14. FileOfSender' BY <1>3 DEF MessagesInv, FileOfSender
  <1> QED BY <1>6, <1>7, <1>8, <1>9, <1>10, <1>11, <1>12, <1>13, <1>14 DEF MessagesInv

LEMMA QuietTyped ==
  ASSUME TypeOK, NEW p \in Requests, Only(p), UNCHANGED <<access, rows>>,
         begun' \in 0..MaxBegun,
         refused' \subseteq 1..MaxMessages, cut' \subseteq 1..MaxMessages
  PROVE  TypeOK'
  BY DEF TypeOK, Only, access, rows

\* p goes on to another check.
LEMMA GotoInv ==
  ASSUME MessagesInv, NEW p \in Requests, NEW pc \in Points \ {"idle", "publish"}, Goto(p, pc),
         UNCHANGED <<access, rows, begun, observed>>,
         req[p].pc # "publish", pc \in Sent => req[p].pc \in Notifying,
         RequestOK(req[p])'
  PROVE  MessagesInv'
  <1>1. TypeOK BY DEF MessagesInv
  <1>2. Only(p) /\ req'[p].pc = pc /\ Same(req[p], req'[p]) BY <1>1, GotoForm
  <1>3. TypeOK' BY <1>1, <1>2, QuietTyped DEF TypeOK, observed
  <1>4. Onward(p) BY <1>2 DEF Onward, Same, Sent, Notifying, Left
  <1>5. Quiet(p) BY <1>2, <1>4 DEF Quiet, observed
  <1> QED BY <1>3, <1>5, QuietInv

\* p ends with nothing left to do for its message, or the message is noted.
LEMMA EndInv ==
  ASSUME MessagesInv, NEW p \in Requests, Return(p), UNCHANGED <<access, rows, begun>>,
         refused' \in {refused, refused \cup {req[p].id}},
         cut' \in {cut, cut \cup {req[p].id}},
         req[p].id = 0 => observed' = observed,
         req[p].pc = "publish" => req[p].id \in cut',
         \/ req[p].id \in refused' \cup cut'
         \/ req[p].done = {} /\ (req[p].id = 0 \/ ~messages[req[p].id].empty)
  PROVE  MessagesInv'
  <1>1. TypeOK /\ RequestOK(req[p]) BY DEF MessagesInv, RequestsOK
  <1>2. Only(p) /\ req'[p] = Idle BY <1>1, ReturnForm
  <1>3. req[p].id = 0 \/ req[p].id \in 1..MaxMessages
    <2>1. req[p].id = 0 \/ req[p].id \in 1..Len(messages)
      BY <1>1 DEF RequestOK, StoredOK
    <2>2. Len(messages) \in Nat /\ Len(messages) <= MaxMessages BY <1>1, MessagesTyped DEF TypeOK
    <2> QED BY <2>1, <2>2, BoundsTyped
  <1>4. refused' \subseteq 1..MaxMessages /\ cut' \subseteq 1..MaxMessages
    BY <1>1, <1>3 DEF TypeOK, observed
  <1>5. TypeOK'
    <2>1. begun' \in 0..MaxBegun BY <1>1 DEF TypeOK
    <2> QED BY <1>1, <1>2, <1>4, <2>1, QuietTyped
  <1>6. RequestOK(req[p])' BY <1>2, <1>5, IdleOK
  <1>7. Onward(p) BY <1>2, IdleTyped DEF Onward, Sent, Notifying
  <1>8. Quiet(p) BY <1>2, <1>7 DEF Quiet
  <1> QED BY <1>5, <1>6, <1>8, QuietInv

-----------------------------------------------------------------------------
(* The steps that write no row.                                            *)

\* A step of p that keeps what it has read and writes nothing.
LEMMA ChecksOK ==
  ASSUME TypeOK, NEW p \in Requests, RequestOK(req[p]), Only(p), Same(req[p], req'[p]),
         UNCHANGED <<access, rows>>,
         req[p].pc \notin Sent \cup Attaching, req'[p].pc \notin Sent \cup Attaching,
         ContentOK(req'[p]), AccessOK(req'[p])
  PROVE  RequestOK(req[p])'
  <1>1. StoredOK(req[p])' BY DEF RequestOK, StoredOK, Same
  <1>2. TodoOK(req[p])' BY DEF TodoOK, Sent, Notifying
  <1>3. FilesOK(req[p])' BY DEF RequestOK, FilesOK, Same, Sent, Attaching
  <1>4. AccessOK(req[p])' /\ ContentOK(req[p])' BY DEF AccessOK, ContentOK, access
  <1> QED BY <1>1, <1>2, <1>3, <1>4 DEF RequestOK

\* The request has its body, a type and what it was let do.
LEMMA RequestTyped ==
  ASSUME TypeOK, NEW p \in Requests
  PROVE  /\ req[p] \in Request /\ req[p].body \in Input /\ req[p].body.user \in Users
         /\ req[p].epoch \in Nat /\ changes[req[p].body.user] \in Nat
         /\ req[p].body.names \in Seq(Names) /\ req[p].body.channel \in Channels
  BY DEF TypeOK, Request, Input

LEMMA RefusedInv ==
  ASSUME MessagesInv, NEW p \in Requests, Return(p), UNCHANGED <<access, rows, begun, observed>>,
         req[p].pc \notin Sent \cup Attaching
  PROVE  MessagesInv'
  <1>1. RequestOK(req[p]) BY DEF MessagesInv, RequestsOK
  <1>2. req[p].id = 0 /\ req[p].done = {} /\ req[p].pc # "publish"
    BY <1>1 DEF RequestOK, StoredOK, FilesOK, Sent
  <1> QED BY <1>2, EndInv DEF observed

LEMMA ArriveInv ==
  ASSUME MessagesInv, NEW p \in Requests, NEW i \in Inputs, Arrive(p, i)
  PROVE  MessagesInv'
  <1> DEFINE s == [Idle EXCEPT !.pc = "ws", !.body = i, !.files = i.files,
                               !.epoch = changes[i.user]]
  <1>1. TypeOK /\ RequestOK(req[p]) BY DEF MessagesInv, RequestsOK
  <1>2. i \in Input /\ i.files \in Seq(File) /\ changes[i.user] \in Nat
    BY <1>1, InputsTyped DEF Input, TypeOK
  <1>3. /\ s \in Request /\ s.pc = "ws" /\ s.body = i /\ s.files = i.files
        /\ s.epoch = changes[i.user] /\ s.id = 0 /\ s.done = {}
    BY <1>2, IdleTyped DEF Request, Points
  <1>4. Only(p) /\ req'[p] = s
    <2>1. req \in [Requests -> Request] /\ req' = [req EXCEPT ![p] = s]
      BY <1>1 DEF TypeOK, Arrive
    <2> HIDE DEF s
    <2> QED BY <1>3, <2>1 DEF Only, Others
  <1> HIDE DEF s
  <1>5. UNCHANGED <<access, rows, observed>> /\ begun < MaxBegun /\ begun' = begun + 1
    BY DEF Arrive
  <1>6. TypeOK'
    <2>1. begun' \in 0..MaxBegun BY <1>1, <1>5, BoundsTyped DEF TypeOK
    <2>2. refused' \subseteq 1..MaxMessages /\ cut' \subseteq 1..MaxMessages
      BY <1>1, <1>5 DEF TypeOK, observed
    <2> QED BY <1>1, <1>4, <1>5, <2>1, <2>2, QuietTyped
  <1>7. s.files = <<>> => s.body.kind = "send" /\ ~s.body.empty
    BY <1>3 DEF Arrive, normalizeContent
  <1>8. RequestOK(req[p])'
    <2>1. ContentOK(req[p])' BY <1>3, <1>4, <1>7 DEF ContentOK, Sending
    <2>2. StoredOK(req[p])' /\ TodoOK(req[p])' /\ FilesOK(req[p])'
      BY <1>3, <1>4 DEF StoredOK, TodoOK, FilesOK, Sent, Attaching, Notifying
    <2>3. AccessOK(req[p])'
      BY <1>2, <1>3, <1>4, <1>5 DEF AccessOK, access
    <2> QED BY <2>1, <2>2, <2>3 DEF RequestOK
  <1>9. At(p, "idle") BY DEF Arrive
  <1>10. Onward(p)
    BY <1>1, <1>3, <1>4, <1>9
    DEF Onward, At, RequestOK, FilesOK, StoredOK, Sent, Attaching, Notifying
  <1>11. Quiet(p) BY <1>4, <1>5, <1>10 DEF Quiet, observed
  <1> QED BY <1>6, <1>8, <1>11, QuietInv

\* The requester is a member of the workspace, and then of the channel.
LEMMA AccessInv ==
  ASSUME MessagesInv, NEW p \in Requests, assertChannelAccess(p)
  PROVE  MessagesInv'
  <1> DEFINE b == req[p].body
             next == IF At(p, "ws") THEN "member"
                     ELSE IF b.kind = "send" THEN "role" ELSE "message"
  <1>1. TypeOK /\ RequestOK(req[p]) BY DEF MessagesInv, RequestsOK
  <1>2. /\ req[p].pc \in {"ws", "member"} /\ UNCHANGED <<access, rows, begun, observed>>
        /\ \/ Return(p)
           \/ /\ Goto(p, next)
              /\ IF req[p].pc = "ws" THEN members[b.user] # "none"
                 ELSE b.user \in inChannel[b.channel]
    BY DEF assertChannelAccess, If, At, IsWorkspaceMember, IsChannelMember
  <1>3. CASE Return(p)
    BY <1>2, <1>3, RefusedInv DEF Sent, Attaching
  <1>4. CASE ~Return(p)
    <2>1. /\ Goto(p, next) /\ next \in {"member", "role", "message"}
          /\ next \in Points \ {"idle", "publish"}
          /\ next = "member" => req[p].pc = "ws"
          /\ next \in {"role", "message"} => req[p].pc = "member"
          /\ next = "role" => b.kind = "send" /\ b.user \in inChannel[b.channel]
          /\ next = "member" => members[b.user] # "none"
          /\ next = "message" => b.kind # "send"
      BY <1>2, <1>4 DEF At, Points
    <2> HIDE DEF next
    <2>2. Only(p) /\ req'[p].pc = next /\ Same(req[p], req'[p]) BY <1>1, <2>1, GotoForm
    <2>3. ContentOK(req'[p])
      BY <1>1, <1>2, <2>1, <2>2 DEF RequestOK, ContentOK, Same, Sending
    <2>4. AccessOK(req'[p])
      BY <1>1, <2>1, <2>2 DEF RequestOK, AccessOK, Same
    <2>5. RequestOK(req[p])'
      BY <1>1, <1>2, <2>1, <2>2, <2>3, <2>4, ChecksOK DEF Sent, Attaching
    <2> QED BY <1>2, <2>1, <2>5, GotoInv DEF Sent
  <1> QED BY <1>3, <1>4

\* The role lets the requester post, and the plan has room.
LEMMA CanSendInv ==
  ASSUME MessagesInv, NEW p \in Requests, CanSend(p) \/ CheckQuota(p)
  PROVE  MessagesInv'
  <1> DEFINE b == req[p].body
             next == IF At(p, "role") THEN "quota" ELSE "insert"
  <1>1. TypeOK /\ RequestOK(req[p]) BY DEF MessagesInv, RequestsOK
  <1>2. /\ req[p].pc \in {"role", "quota"} /\ UNCHANGED <<access, rows, begun, observed>>
        /\ \/ Return(p)
           \/ /\ Goto(p, next)
              /\ req[p].pc = "role" => /\ members[b.user] # "none"
                                       /\ Allowed(members[b.user], b.channel, b.user)
    BY DEF CanSend, CheckQuota, If, At
  <1>3. CASE Return(p)
    BY <1>2, <1>3, RefusedInv DEF Sent, Attaching
  <1>4. CASE ~Return(p)
    <2>1. /\ Goto(p, next) /\ next \in {"quota", "insert"}
          /\ next \in Points \ {"idle", "publish"}
          /\ next = "quota" => /\ req[p].pc = "role" /\ members[b.user] # "none"
                               /\ Allowed(members[b.user], b.channel, b.user)
          /\ next = "insert" => req[p].pc = "quota"
      BY <1>2, <1>4 DEF At, Points
    <2> HIDE DEF next
    <2>2. Only(p) /\ req'[p].pc = next /\ Same(req[p], req'[p]) BY <1>1, <2>1, GotoForm
    <2>3. ContentOK(req'[p])
      BY <1>1, <1>2, <2>1, <2>2 DEF RequestOK, ContentOK, Same, Sending
    <2>4. AccessOK(req'[p])
      BY <1>1, <1>2, <2>1, <2>2 DEF RequestOK, AccessOK, Same
    <2>5. RequestOK(req[p])'
      BY <1>1, <1>2, <2>1, <2>2, <2>3, <2>4, ChecksOK DEF Sent, Attaching
    <2> QED BY <1>2, <2>1, <2>5, GotoInv DEF Sent
  <1> QED BY <1>3, <1>4

LEMMA CheckMessageInv ==
  ASSUME MessagesInv, NEW p \in Requests, CheckMessage(p)
  PROVE  MessagesInv'
  <1> DEFINE b == req[p].body
             found == GetMessageInChannel(b.id, b.channel) /\ messages[b.id].sender = b.user
  <1>1. TypeOK /\ RequestOK(req[p]) BY DEF MessagesInv, RequestsOK
  <1>2. /\ req[p].pc = "message" /\ UNCHANGED <<access, rows, begun, observed>>
        /\ \/ Return(p)
           \/ found /\ req' = [req EXCEPT ![p].pc = "head", ![p].id = b.id]
    BY DEF CheckMessage, At
  <1>3. CASE Return(p) BY <1>2, <1>3, RefusedInv DEF Sent, Attaching
  <1>4. CASE found /\ req' = [req EXCEPT ![p].pc = "head", ![p].id = b.id]
    <2>1. req \in [Requests -> Request] /\ "head" \in Points /\ b.id \in Nat
      BY <1>1 DEF TypeOK, Points, Request, Input
    <2>2. /\ Only(p) /\ req'[p].pc = "head" /\ req'[p].id = b.id /\ req'[p].body = b
          /\ req'[p].files = req[p].files /\ req'[p].done = req[p].done
          /\ req'[p].epoch = req[p].epoch
      BY <1>4, <2>1 DEF Only, Others, Request
    <2>3. TypeOK' BY <1>1, <1>2, <2>2, QuietTyped DEF TypeOK, observed
    <2>4. messages' = messages /\ UNCHANGED access BY <1>2 DEF rows
    <2>5. StoredOK(req[p])'
      BY <1>4, <2>2, <2>4 DEF StoredOK, GetMessageInChannel, Sent, Attaching
    <2>6. req[p].done = {} BY <1>1, <1>2 DEF RequestOK, FilesOK, Attaching
    <2>7. ContentOK(req[p])' /\ TodoOK(req[p])' /\ FilesOK(req[p])' /\ AccessOK(req[p])'
      BY <1>1, <1>2, <2>2, <2>4, <2>6
      DEF RequestOK, ContentOK, TodoOK, FilesOK, AccessOK, Sending, Notifying, Attaching, access
    <2>8. RequestOK(req[p])' BY <2>5, <2>7 DEF RequestOK
    <2>9. req[p].id = 0 BY <1>1, <1>2 DEF RequestOK, StoredOK, Sent, Attaching
    <2>10. Onward(p) BY <1>2, <2>2, <2>6, <2>9 DEF Onward, Sent, Notifying
    <2>11. Quiet(p) BY <1>2, <2>2, <2>10 DEF Quiet, observed
    <2> QED BY <2>3, <2>8, <2>11, QuietInv
  <1> QED BY <1>2, <1>3, <1>4

\* A file is refused: the rest of the request is dropped.
LEMMA RefuseInv ==
  ASSUME MessagesInv, NEW p \in Requests, Refuse(p), UNCHANGED <<access, rows, begun, cut>>,
         req[p].pc \in Attaching
  PROVE  MessagesInv'
  <1>1. RequestOK(req[p]) BY DEF MessagesInv, RequestsOK
  <1>2. req[p].id # 0 BY <1>1 DEF MessagesInv, RequestOK, StoredOK
  <1>3. Return(p) /\ refused' = refused \cup {req[p].id} BY DEF Refuse
  <1> QED BY <1>2, <1>3, EndInv DEF Attaching

LEMMA CheckFileInv ==
  ASSUME MessagesInv, NEW p \in Requests, CheckFile(p)
  PROVE  MessagesInv'
  <1> DEFINE f == Head(req[p].files)
  <1>1. TypeOK /\ RequestOK(req[p]) BY DEF MessagesInv, RequestsOK
  <1>2. /\ req[p].pc = "head" /\ UNCHANGED <<access, rows, begun, cut>>
        /\ \/ Refuse(p)
           \/ /\ validateUpload(f) /\ OfUser(f.key, req[p].body.user)
              /\ HeadObject(f.key) = f.size
              /\ Goto(p, "attach") /\ UNCHANGED refused
    BY DEF CheckFile, At
  <1>3. CASE Refuse(p) BY <1>2, <1>3, RefuseInv DEF Attaching
  <1>4. CASE ~Refuse(p)
    <2>1. "attach" \in Points \ {"idle", "publish"} BY DEF Points
    <2>2. Only(p) /\ req'[p].pc = "attach" /\ Same(req[p], req'[p])
      BY <1>1, <1>2, <1>4, <2>1, GotoForm
    <2>3. UNCHANGED <<messages, attachments, access>> BY <1>2 DEF rows
    <2>4. StoredOK(req[p])' BY <1>1, <1>2, <2>2, <2>3 DEF RequestOK, StoredOK, Same, Sent, Attaching
    <2>5. ContentOK(req[p])' /\ TodoOK(req[p])'
      BY <1>1, <1>2, <2>2 DEF RequestOK, ContentOK, TodoOK, Same, Sending, Notifying
    <2>6. FilesOK(req[p])'
      <3>1. \A k, m : Attached(k, m)' <=> Attached(k, m) BY <2>3 DEF Attached
      <3>2. FilesOK(req'[p])
        BY <1>1, <1>2, <1>4, <2>2 DEF RequestOK, FilesOK, Same, Attaching
      <3> QED BY <3>1, <3>2 DEF FilesOK, validateUpload, OfUser, HeadObject
    <2>7. AccessOK(req[p])' BY <1>1, <2>2, <2>3 DEF RequestOK, AccessOK, Same, access
    <2>8. RequestOK(req[p])' BY <2>4, <2>5, <2>6, <2>7 DEF RequestOK
    <2> QED BY <1>2, <1>4, <2>1, <2>8, GotoInv DEF Sent, observed
  <1> QED BY <1>3, <1>4

LEMMA FailInv ==
  ASSUME MessagesInv, NEW p \in Requests, Fail(p)
  PROVE  MessagesInv'
  <1>1. RequestOK(req[p]) BY DEF MessagesInv, RequestsOK
  <1>2. /\ Return(p) /\ UNCHANGED <<access, rows, begun, refused>>
        /\ cut' = IF req[p].id = 0 THEN cut ELSE cut \cup {req[p].id}
    BY DEF Fail
  <1>3. req[p].id = 0 => req[p].done = {} /\ req[p].pc # "publish"
    <2>1. req[p].id = 0 => req[p].pc \notin Sent \cup Attaching
      BY <1>1 DEF RequestOK, StoredOK
    <2> QED BY <1>1, <2>1 DEF RequestOK, FilesOK, Sent
  <1> QED BY <1>2, <1>3, EndInv DEF observed

\* The notifier is done; the files of the message come next.
LEMMA AfterNotifyInv ==
  ASSUME MessagesInv, NEW p \in Requests, AfterNotify(p), req[p].pc \in Notifying,
         UNCHANGED <<access, rows, begun, observed>>
  PROVE  MessagesInv'
  <1>1. TypeOK /\ RequestOK(req[p]) BY DEF MessagesInv, RequestsOK
  <1>2. req[p].done = {} BY <1>1 DEF RequestOK, FilesOK, Notifying, Attaching
  <1>3. CASE req[p].files = <<>>
    <2>1. Return(p) BY <1>3 DEF AfterNotify
    <2>2. ~messages[req[p].id].empty
      BY <1>1, <1>3 DEF RequestOK, ContentOK, StoredOK, Notifying, Sending, Sent
    <2> QED BY <1>2, <2>1, <2>2, EndInv DEF observed, Notifying
  <1>4. CASE req[p].files # <<>>
    <2>1. Goto(p, "head") /\ "head" \in Points \ {"idle", "publish"}
      BY <1>4 DEF AfterNotify, Points
    <2>2. Only(p) /\ req'[p].pc = "head" /\ Same(req[p], req'[p]) BY <1>1, <2>1, GotoForm
    <2>3. UNCHANGED <<messages, attachments, access>> BY DEF rows
    <2>4. StoredOK(req[p])'
      BY <1>1, <2>2, <2>3 DEF RequestOK, StoredOK, Same, Sent, Notifying, Attaching
    <2>5. ContentOK(req[p])' /\ TodoOK(req[p])'
      BY <1>4, <2>2 DEF ContentOK, TodoOK, Same, Sending, Notifying
    <2>6. FilesOK(req[p])' BY <1>2, <2>2 DEF FilesOK, Same, Attaching
    <2>7. AccessOK(req[p])' BY <1>1, <2>2, <2>3 DEF RequestOK, AccessOK, Same, access
    <2>8. RequestOK(req[p])' BY <2>4, <2>5, <2>6, <2>7 DEF RequestOK
    <2> QED BY <2>1, <2>8, GotoInv DEF Sent, Notifying
  <1> QED BY <1>3, <1>4

\* From the reply to the mentions: what p relies on there is the same.
LEMMA MentionOK ==
  ASSUME TypeOK, NEW p \in Requests, RequestOK(req[p]), req[p].pc = "reply", Goto(p, "mention"),
         UNCHANGED <<access, messages, attachments>>
  PROVE  Only(p) /\ req'[p].pc = "mention" /\ Same(req[p], req'[p]) /\ RequestOK(req[p])'
  <1>1. "mention" \in Points BY DEF Points
  <1>2. Only(p) /\ req'[p].pc = "mention" /\ Same(req[p], req'[p]) BY <1>1, GotoForm
  <1>3. StoredOK(req[p])' BY <1>2 DEF RequestOK, StoredOK, Same, Sent, Attaching
  <1>4. ContentOK(req[p])' /\ TodoOK(req[p])'
    BY <1>2 DEF RequestOK, ContentOK, TodoOK, Same, Sending, Notifying
  <1>5. FilesOK(req[p])' BY <1>2 DEF RequestOK, FilesOK, Same, Attaching
  <1>6. AccessOK(req[p])' BY <1>2 DEF RequestOK, AccessOK, Same, access
  <1> QED BY <1>2, <1>3, <1>4, <1>5, <1>6 DEF RequestOK

LEMMA NotifyFailsInv ==
  ASSUME MessagesInv, NEW p \in Requests, NotifyFails(p)
  PROVE  MessagesInv'
  <1>1. TypeOK /\ RequestOK(req[p]) BY DEF MessagesInv, RequestsOK
  <1>2. /\ UNCHANGED <<access, rows, begun, observed>>
        /\ \/ req[p].pc = "reply" /\ Goto(p, "mention")
           \/ req[p].pc = "mention" /\ AfterNotify(p)
    BY DEF NotifyFails, At
  <1>3. CASE req[p].pc = "reply" /\ Goto(p, "mention")
    <2>1. "mention" \in Points \ {"idle", "publish"} BY DEF Points
    <2>2. RequestOK(req[p])' BY <1>1, <1>2, <1>3, MentionOK DEF rows
    <2> QED BY <1>2, <1>3, <2>1, <2>2, GotoInv DEF Notifying
  <1>4. CASE req[p].pc = "mention" /\ AfterNotify(p)
    BY <1>2, <1>4, AfterNotifyInv DEF Notifying
  <1> QED BY <1>2, <1>3, <1>4

\* What follows the first of distinct names.
LEMMA TailDistinct ==
  ASSUME NEW S, NEW s \in Seq(S), s # <<>>,
         \A i, j \in 1..Len(s) : s[i] = s[j] => i = j
  PROVE  /\ Head(s) = s[1] /\ Head(s) \in S /\ 1 \in 1..Len(s)
         /\ Tail(s) \in Seq(S)
         /\ \A i \in 1..Len(Tail(s)) : \E j \in 1..Len(s) : Tail(s)[i] = s[j]
         /\ \A i \in 1..Len(Tail(s)) : Tail(s)[i] # Head(s)
         /\ \A i, j \in 1..Len(Tail(s)) : Tail(s)[i] = Tail(s)[j] => i = j
  <1>1. /\ Len(s) \in Nat /\ Len(s) > 0 /\ Head(s) = s[1] /\ Head(s) \in S
        /\ Tail(s) \in Seq(S) /\ Len(Tail(s)) = Len(s) - 1
        /\ \A i \in 1..Len(Tail(s)) : Tail(s)[i] = s[i + 1]
    OBVIOUS
  <1>2. \A i \in 1..Len(Tail(s)) : i \in Int /\ i + 1 \in 1..Len(s) /\ i + 1 # 1
    BY <1>1
  <1>3. 1 \in 1..Len(s) BY <1>1
  <1>4. ASSUME NEW i \in 1..Len(Tail(s)) PROVE Tail(s)[i] # Head(s)
    <2>1. s[i + 1] # s[1] BY <1>2, <1>3
    <2> QED BY <1>1, <2>1
  <1>5. ASSUME NEW i \in 1..Len(Tail(s)), NEW j \in 1..Len(Tail(s)), Tail(s)[i] = Tail(s)[j]
        PROVE  i = j
    <2>1. s[i + 1] = s[j + 1] BY <1>1, <1>5
    <2>2. i + 1 = j + 1 BY <1>2, <2>1
    <2> QED BY <1>2, <2>2
  <1>6. ASSUME NEW i \in 1..Len(Tail(s)) PROVE \E j \in 1..Len(s) : Tail(s)[i] = s[j]
    BY <1>1, <1>2
  <1> QED BY <1>1, <1>3, <1>4, <1>5, <1>6

\* One name is done: it is not left any more.
LEMMA TailForm ==
  ASSUME TypeOK, NEW p \in Requests, RequestOK(req[p]), req[p].pc = "mention", req[p].todo # <<>>,
         req' = [req EXCEPT ![p].todo = Tail(@)],
         UNCHANGED <<access, messages, attachments>>
  PROVE  /\ Only(p) /\ req'[p].pc = "mention" /\ req'[p].id = req[p].id
         /\ req'[p].done = req[p].done
         /\ Head(req[p].todo) \in Names /\ Head(req[p].todo) \in Left(req[p])
         /\ Left(req'[p]) \subseteq Left(req[p]) \ {Head(req[p].todo)}
         /\ \E k \in 1..Len(req[p].body.names) : req[p].body.names[k] = Head(req[p].todo)
         /\ RequestOK(req[p])'
  <1> DEFINE todo == req[p].todo
             rest == Tail(todo)
  <1>1. req \in [Requests -> Request] /\ todo \in Seq(Names) /\ todo # <<>>
    BY DEF TypeOK, Request
  <1>2. /\ \A i \in 1..Len(todo) : \E k \in 1..Len(req[p].body.names) :
             req[p].body.names[k] = todo[i]
        /\ \A i, j \in 1..Len(todo) : todo[i] = todo[j] => i = j
    BY DEF RequestOK, TodoOK, NamesOf, Notifying
  <1> HIDE DEF todo
  <1>3. /\ Head(todo) = todo[1] /\ Head(todo) \in Names /\ 1 \in 1..Len(todo)
        /\ rest \in Seq(Names)
        /\ \A i \in 1..Len(rest) : \E j \in 1..Len(todo) : rest[i] = todo[j]
        /\ \A i \in 1..Len(rest) : rest[i] # Head(todo)
        /\ \A i, j \in 1..Len(rest) : rest[i] = rest[j] => i = j
    BY <1>1, <1>2, TailDistinct
  <1> HIDE DEF rest
  <1>4. /\ Only(p) /\ req'[p].pc = "mention" /\ req'[p].id = req[p].id
        /\ req'[p].body = req[p].body /\ req'[p].files = req[p].files
        /\ req'[p].done = req[p].done /\ req'[p].epoch = req[p].epoch
        /\ req'[p].todo = rest
    <2> DEFINE s == [req[p] EXCEPT !.todo = rest]
    <2>1. req' = [req EXCEPT ![p] = s] BY <1>1 DEF Request, todo, rest
    <2>2. /\ s \in Request /\ s.pc = "mention" /\ s.id = req[p].id /\ s.body = req[p].body
          /\ s.files = req[p].files /\ s.done = req[p].done /\ s.epoch = req[p].epoch
          /\ s.todo = rest
      BY <1>1, <1>3 DEF Request
    <2> HIDE DEF s
    <2> QED BY <1>1, <2>1, <2>2 DEF Only, Others
  <1>5. Left(req[p]) = {todo[i] : i \in 1..Len(todo)} BY DEF Left, todo
  <1>6. Left(req'[p]) = {rest[i] : i \in 1..Len(rest)} BY <1>4 DEF Left
  <1>7. Head(todo) \in Left(req[p])
    <2>1. \E i \in 1..Len(todo) : Head(todo) = todo[i] BY <1>3, Zenon
    <2> QED BY <1>5, <2>1, Zenon
  <1>8. Left(req'[p]) \subseteq Left(req[p]) \ {Head(todo)}
    <2>1. ASSUME NEW x \in Left(req'[p]) PROVE x \in Left(req[p]) /\ x # Head(todo)
      <3>1. PICK i \in 1..Len(rest) : x = rest[i] BY <1>6
      <3>2. PICK j \in 1..Len(todo) : rest[i] = todo[j] BY <1>3
      <3>3. x \in Left(req[p]) BY <1>5, <3>1, <3>2, Zenon
      <3> QED BY <1>3, <3>1, <3>3
    <2> QED BY <2>1
  <1>9. \A i \in 1..Len(rest) : \E k \in 1..Len(req[p].body.names) :
          req[p].body.names[k] = rest[i]
    BY <1>2, <1>3
  <1>10. NamesOf(req[p].body.names, rest) BY <1>3, <1>9 DEF NamesOf
  <1>11. TodoOK(req[p])' BY <1>4, <1>10 DEF TodoOK
  <1>12. StoredOK(req[p])' BY <1>4 DEF RequestOK, StoredOK, Sent, Attaching
  <1>13. ContentOK(req[p])' /\ AccessOK(req[p])'
    BY <1>4 DEF RequestOK, ContentOK, AccessOK, Sending, access
  <1>14. FilesOK(req[p])'
    <2>1. \A k, m : Attached(k, m)' <=> Attached(k, m) BY DEF Attached
    <2> QED BY <1>4, <2>1 DEF RequestOK, FilesOK, Attaching
  <1>15. RequestOK(req[p])' BY <1>11, <1>12, <1>13, <1>14 DEF RequestOK
  <1>16. \E k \in 1..Len(req[p].body.names) : req[p].body.names[k] = Head(todo) BY <1>2, <1>3
  <1> QED BY <1>3, <1>4, <1>7, <1>8, <1>15, <1>16 DEF todo

-----------------------------------------------------------------------------
(* The steps that notify.                                                  *)

\* A notification more: a mention of u in m is told once more, and no other.
LEMMA ToldGrows ==
  ASSUME TypeOK, NEW u, NEW type, NEW m, CreateNotification(u, type, m)
  PROVE  /\ \A n, v : ~(n = m /\ v = u /\ type = "mention") => Told(n, v)' = Told(n, v)
         /\ type = "mention" =>
              \E x : x \notin Told(m, u) /\ Told(m, u)' = Told(m, u) \cup {x}
  <1> DEFINE N == Len(notifications)
             row == [user |-> u, type |-> type, message |-> m, read |-> FALSE, readBy |-> NoUser]
  <1>1. N \in Nat /\ notifications \in Seq(Notification) BY DEF TypeOK
  <1>2. notifications' = Append(notifications, row) BY DEF CreateNotification
  <1>3. /\ Len(notifications') = N + 1 /\ notifications'[N + 1] = row
        /\ \A i \in 1..N : notifications'[i] = notifications[i]
    BY <1>1, <1>2
  <1>4. row.user = u /\ row.type = type /\ row.message = m OBVIOUS
  <1> HIDE DEF row
  <1>5. \A n, v : Told(n, v)' = Told(n, v) \cup
          (IF n = m /\ v = u /\ type = "mention" THEN {N + 1} ELSE {})
    BY <1>1, <1>3, <1>4 DEF Told
  <1>6. N + 1 \notin Told(m, u) BY <1>1 DEF Told
  <1> QED BY <1>5, <1>6

\* One spelling is told, and is not left any more.
LEMMA MentionTold ==
  ASSUME TypeOK, RequestsOK, SendsApart, MentionsOK, NEW p \in Requests, Only(p), Onward(p),
         UNCHANGED messages, req[p].pc \in Notifying, req'[p].pc = "mention",
         NEW u \in Users, NEW m, m = req[p].id, CreateNotification(u, "mention", m),
         NEW h \in Spellings(m, u), h \in Left(req[p]), h \notin Left(req'[p])
  PROVE  MentionsOK'
  <1> DEFINE S == Spellings(m, u)
             A == S \ Left(req[p])
             B == S \ Left(req'[p])
  <1>1. /\ m \in 1..Len(messages) /\ req'[p].id = m
        /\ Left(req'[p]) \subseteq Left(req[p])
    BY DEF Onward, RequestsOK, RequestOK, StoredOK, Sent, Notifying
  <1>2. IsFiniteSet(S)
    <2>1. messages[m].names \in Seq(Names) BY <1>1, MessagesTyped
    <2> QED BY <2>1, SpellingsFinite DEF Spellings
  <1>3. \A n, v : ~(n = m /\ v = u) => Told(n, v)' = Told(n, v) BY ToldGrows
  <1>4. \E x : x \notin Told(m, u) /\ Told(m, u)' = Told(m, u) \cup {x} BY ToldGrows
  <1>5. PICK x : x \notin Told(m, u) /\ Told(m, u)' = Told(m, u) \cup {x} BY <1>4
  <1>6. IsFiniteSet(Told(m, u))
    <2>1. Told(m, u) \in SUBSET (1..Len(notifications)) BY DEF Told
    <2>2. IsFiniteSet(1..Len(notifications)) BY UpToFinite DEF TypeOK
    <2> QED BY <2>1, <2>2, FS_Subset
  <1>7. IsFiniteSet(A) /\ IsFiniteSet(B) /\ IsFiniteSet(A \cup {h})
    <2>1. A \in SUBSET S /\ B \in SUBSET S /\ A \cup {h} \in SUBSET S OBVIOUS
    <2> QED BY <1>2, <2>1, FS_Subset
  <1>8. Cardinality(A \cup {h}) = Cardinality(A) + 1
    <2>1. h \notin A OBVIOUS
    <2> QED BY <1>7, <2>1, FS_AddElement
  <1>9. Cardinality(A \cup {h}) <= Cardinality(B) /\ Cardinality(B) <= Cardinality(S)
    <2>1. A \cup {h} \in SUBSET B /\ B \in SUBSET S BY <1>1
    <2> QED BY <1>2, <1>7, <2>1, FS_Subset
  <1>10. Cardinality(Told(m, u) \cup {x}) = Cardinality(Told(m, u)) + 1
    BY <1>5, <1>6, FS_AddElement
  <1>11. Cardinality(Told(m, u)) <= Cardinality(A) BY DEF MentionsOK
  <1>12. /\ Cardinality(Told(m, u)) \in Nat /\ Cardinality(A) \in Nat
         /\ Cardinality(B) \in Nat /\ Cardinality(S) \in Nat
    BY <1>2, <1>6, <1>7, FS_CardinalityType
  <1>13. /\ Cardinality(Told(m, u)') <= Cardinality(B)
         /\ Cardinality(Told(m, u)') <= Cardinality(S)
    <2> HIDE DEF A, B, S
    <2>1. Cardinality(Told(m, u) \cup {x}) <= Cardinality(B)
      BY <1>8, <1>9, <1>10, <1>11, <1>12
    <2>2. Cardinality(Told(m, u) \cup {x}) <= Cardinality(S)
      BY <1>9, <1>10, <1>12, <2>1
    <2> QED BY <1>5, <2>1, <2>2
  <1>14. ASSUME NEW q \in Requests, NEW v \in Users, NEW n, req'[q].id = n
         PROVE  ToldOf(req'[q], Told(n, v)', n, v)
    <2>1. CASE q = p /\ v = u BY <1>1, <1>13, <1>14, <2>1 DEF ToldOf
    <2>2. CASE q = p /\ v # u
      <3> DEFINE T == Spellings(m, v)
                 C == T \ Left(req[p])
                 D == T \ Left(req'[p])
      <3>1. n = m BY <1>1, <1>14, <2>2
      <3>2. Told(n, v)' = Told(m, v) BY <1>3, <2>2, <3>1
      <3>3. Cardinality(Told(m, v)) <= Cardinality(C) BY DEF MentionsOK
      <3>4. IsFiniteSet(T)
        <4>1. messages[m].names \in Seq(Names) BY <1>1, MessagesTyped
        <4> QED BY <4>1, SpellingsFinite DEF Spellings
      <3>5. D \in SUBSET T /\ C \in SUBSET D BY <1>1
      <3>6. IsFiniteSet(D) BY <3>4, <3>5, FS_Subset
      <3>7. IsFiniteSet(C) /\ Cardinality(C) <= Cardinality(D) BY <3>5, <3>6, FS_Subset
      <3>8. IsFiniteSet(Told(m, v))
        <4>1. Told(m, v) \in SUBSET (1..Len(notifications)) BY DEF Told
        <4>2. IsFiniteSet(1..Len(notifications)) BY UpToFinite DEF TypeOK
        <4> QED BY <4>1, <4>2, FS_Subset
      <3>9. /\ Cardinality(Told(m, v)) \in Nat /\ Cardinality(C) \in Nat
            /\ Cardinality(D) \in Nat
        BY <3>6, <3>7, <3>8, FS_CardinalityType
      <3>10. Cardinality(Told(m, v)) <= Cardinality(D)
        <4> HIDE DEF C, D
        <4> QED BY <3>3, <3>7, <3>9
      <3> QED BY <2>2, <3>1, <3>2, <3>10 DEF ToldOf
    <2>3. CASE q # p
      <3>1. req'[q] = req[q] BY <2>3 DEF Only, Others
      <3>2. req[q].pc \in Sent => n # m BY <1>14, <2>3, <3>1 DEF SendsApart, Sent, Notifying
      <3>3. req[q].pc \in Sent => Told(n, v)' = Told(n, v) BY <1>3, <3>2
      <3>4. ToldOf(req[q], Told(n, v), n, v)
        BY <1>14, <3>1 DEF MentionsOK, ToldOf, At
      <3> QED BY <3>1, <3>3, <3>4 DEF ToldOf, Sent, Notifying
    <2> QED BY <2>1, <2>2, <2>3
  <1>15. ASSUME NEW n \in 1..Len(messages), NEW v \in Users
         PROVE  Cardinality(Told(n, v)') <= Cardinality(Spellings(n, v))
    <2>1. CASE n = m /\ v = u BY <1>13, <2>1
    <2>2. CASE ~(n = m /\ v = u) BY <1>3, <2>2 DEF MentionsOK
    <2> QED BY <2>1, <2>2
  <1> QED BY <1>14, <1>15, MentionsStep

\* A step of p that notifies u of its message.
LEMMA NotifiedInv ==
  ASSUME MessagesInv, NEW p \in Requests, req[p].pc \in Notifying,
         Only(p), req'[p].pc = "mention", req'[p].id = req[p].id, req'[p].done = req[p].done,
         Left(req'[p]) \subseteq Left(req[p]), RequestOK(req[p])',
         UNCHANGED <<access, messages, attachments, events, begun, observed>>,
         NEW u \in Users, NEW type \in {"mention", "reply"}, NEW m, m = req[p].id,
         CreateNotification(u, type, m), u # messages[m].sender,
         type = "mention" =>
           \E k \in 1..Len(messages[m].names) : NameOf(messages[m].names[k]) = u,
         type = "reply" => /\ messages[m].reply \in 1..Len(messages)
                           /\ messages[messages[m].reply].sender = u
                           /\ messages[messages[m].reply].channel = messages[m].channel,
         MentionsOK'
  PROVE  MessagesInv'
  <1> DEFINE N == Len(notifications)
             row == [user |-> u, type |-> type, message |-> m, read |-> FALSE, readBy |-> NoUser]
  <1>1. TypeOK /\ RequestsOK /\ RequestOK(req[p]) BY DEF MessagesInv, RequestsOK
  <1>2. m \in 1..Len(messages) /\ Len(messages) \in Nat
    BY <1>1, MessagesTyped DEF RequestOK, StoredOK, Sent, Notifying
  <1>3. row \in Notification
    BY <1>2 DEF Notification
  <1>4. notifications' = Append(notifications, row) BY DEF CreateNotification
  <1>5. row.user = u /\ row.type = type /\ row.message = m /\ ~row.read OBVIOUS
  <1>6. N \in Nat /\ notifications \in Seq(Notification) BY <1>1 DEF TypeOK
  <1> HIDE DEF row
  <1>7. /\ notifications' \in Seq(Notification) /\ Len(notifications') = N + 1
        /\ notifications'[N + 1] = row /\ \A i \in 1..N : notifications'[i] = notifications[i]
    BY <1>3, <1>4, <1>6, AppendForm
  <1>8. UNCHANGED <<messages, attachments, events, refused, cut>> /\ UNCHANGED access
    BY DEF observed
  <1>9. TypeOK'
    <2>1. UNCHANGED <<members, inChannel, changes>> BY DEF access
    <2> QED BY <1>1, <1>7, <1>8, <2>1 DEF TypeOK, Only
  <1>10. \A n \in 1..Len(notifications') : n \in 1..N \/ n = N + 1 BY <1>6, <1>7
  <1>11. NotifiedForReason'
    <2>1. ASSUME NEW n \in 1..Len(notifications')
          PROVE  LET x == notifications'[n]
                     y == messages[x.message]
                 IN /\ x.user # y.sender
                    /\ x.type = "mention" =>
                         \E k \in 1..Len(y.names) : NameOf(y.names[k]) = x.user
                    /\ x.type = "reply" => /\ messages[y.reply].sender = x.user
                                           /\ messages[y.reply].channel = y.channel
      <3>1. CASE n \in 1..N BY <1>7, <3>1 DEF MessagesInv, NotifiedForReason
      <3>2. CASE n = N + 1
        <4>1. notifications'[n] = row BY <1>7, <3>2
        <4> QED BY <1>5, <4>1
      <3> QED BY <1>10, <3>1, <3>2
    <2> QED BY <1>8, <2>1 DEF NotifiedForReason
  <1>12. ReadByUser'
    <2>1. ASSUME NEW n \in 1..Len(notifications'), notifications'[n].read
          PROVE  notifications'[n].readBy = notifications'[n].user
      BY <1>5, <1>7, <1>10, <2>1 DEF MessagesInv, ReadByUser
    <2> QED BY <2>1 DEF ReadByUser
  <1>13. RowsOK'
    <2>1. ASSUME NEW n \in 1..Len(notifications')
          PROVE  LET x == notifications'[n]
                 IN /\ x.message \in 1..Len(messages)
                    /\ x.type = "reply" => messages[x.message].reply \in 1..Len(messages)
      BY <1>2, <1>5, <1>7, <1>10 DEF MessagesInv, RowsOK
    <2> QED BY <1>8, <2>1 DEF MessagesInv, RowsOK
  <1>14. Onward(p) BY <1>8 DEF Onward, Sent, Notifying
  <1>15. RequestsOK'
    <2>1. Grows
      <3>1. Len(messages) \in Nat /\ Len(attachments) \in Nat BY <1>1 DEF TypeOK
      <3> QED BY <1>8, <3>1 DEF Grows, Longer
    <2> QED BY <1>1, <1>8, <1>9, <2>1, RequestsKept
  <1>16. SendsApart' BY <1>14, ApartKept DEF MessagesInv, Onward
  <1>17. AnnouncedOnce' BY <1>1, <1>8, <1>14, AnnouncedKept DEF MessagesInv
  <1>18. ListedOK' BY <1>1, <1>8, <1>14, ListedKept DEF MessagesInv
  <1>19. EmptyHasFile' BY <1>1, <1>8, <1>14, EmptyKept DEF MessagesInv
  <1>20. PostingAllowed' BY <1>8 DEF MessagesInv, PostingAllowed
  <1>21. FileOfSender' BY <1>8 DEF MessagesInv, FileOfSender
  <1> QED BY <1>9, <1>11, <1>12, <1>13, <1>15, <1>16, <1>17, <1>18, <1>19, <1>20, <1>21
      DEF MessagesInv

\* The reply.
LEMMA NotifyReplyInv ==
  ASSUME MessagesInv, NEW p \in Requests, notifyReply(p)
  PROVE  MessagesInv'
  <1> DEFINE b == req[p].body
             parent == messages[b.reply]
             told == /\ GetMessageByID(b.reply) /\ parent.channel = b.channel
                     /\ parent.sender # b.user
  <1>1. TypeOK /\ RequestsOK /\ RequestOK(req[p]) BY DEF MessagesInv, RequestsOK
  <1>2. /\ req[p].pc = "reply" /\ Goto(p, "mention")
        /\ UNCHANGED <<access, messages, attachments, events, begun, observed>>
        /\ IF told THEN CreateNotification(parent.sender, "reply", req[p].id)
           ELSE UNCHANGED notifications
    BY DEF notifyReply, At
  <1>3. Only(p) /\ req'[p].pc = "mention" /\ Same(req[p], req'[p]) /\ RequestOK(req[p])'
    BY <1>1, <1>2, MentionOK
  <1>4. CASE ~told
    <2>1. "mention" \in Points \ {"idle", "publish"} BY DEF Points
    <2>2. UNCHANGED <<access, rows, begun, observed>> BY <1>2, <1>4 DEF rows
    <2> QED BY <1>2, <1>3, <2>1, <2>2, GotoInv DEF Notifying
  <1>5. CASE told
    <2>1. PICK m, u : m = req[p].id /\ u = parent.sender OBVIOUS
    <2>2. /\ m \in 1..Len(messages) /\ messages[m].sender = b.user
          /\ messages[m].channel = b.channel /\ messages[m].reply = b.reply
      BY <1>1, <1>2, <2>1 DEF RequestOK, StoredOK, Sent
    <2>3. b.reply \in 1..Len(messages) BY <1>5 DEF GetMessageByID
    <2>4. u \in Users
      <3>1. parent \in Message BY <1>1, <2>3, MessagesTyped
      <3> QED BY <2>1, <3>1 DEF Message
    <2>5. CreateNotification(u, "reply", m) BY <1>2, <1>5, <2>1
    <2>6. /\ u # messages[m].sender /\ messages[m].reply \in 1..Len(messages)
          /\ messages[messages[m].reply].sender = u
          /\ messages[messages[m].reply].channel = messages[m].channel
      BY <1>5, <2>1, <2>2, <2>3
    <2>7. /\ req'[p].id = req[p].id /\ req'[p].done = req[p].done
          /\ Left(req'[p]) \subseteq Left(req[p])
      BY <1>3 DEF Same, Left
    <2>8. MentionsOK'
      <3>1. \A n, v : Told(n, v)' = Told(n, v) BY <1>1, <2>5, ToldGrows
      <3>2. Onward(p) BY <1>2, <1>3, <2>7 DEF Onward, Sent, Notifying
      <3> QED BY <1>1, <1>2, <1>3, <3>1, <3>2, MentionsKept DEF MessagesInv
    <2> QED BY <1>2, <1>3, <2>1, <2>4, <2>5, <2>6, <2>7, <2>8, NotifiedInv DEF Notifying
  <1> QED BY <1>4, <1>5

\* A name.
LEMMA NotifyMentionsInv ==
  ASSUME MessagesInv, NEW p \in Requests, notifyMentions(p)
  PROVE  MessagesInv'
  <1> DEFINE b == req[p].body
             h == Head(req[p].todo)
             found == GetWorkspaceMemberByUsername(h)
  <1>1. TypeOK /\ RequestsOK /\ RequestOK(req[p]) BY DEF MessagesInv, RequestsOK
  <1>2. /\ req[p].pc = "mention"
        /\ UNCHANGED <<access, messages, attachments, events, begun, observed>>
    BY DEF notifyMentions, At
  <1>3. CASE req[p].todo = <<>>
    <2>1. AfterNotify(p) /\ UNCHANGED notifications BY <1>3 DEF notifyMentions
    <2>2. UNCHANGED <<access, rows, begun, observed>> BY <1>2, <2>1 DEF rows
    <2> QED BY <1>2, <2>1, <2>2, AfterNotifyInv DEF Notifying
  <1>4. CASE req[p].todo # <<>>
    <2>1. /\ req' = [req EXCEPT ![p].todo = Tail(@)]
          /\ IF found \in {NoUser, b.user} THEN UNCHANGED notifications
             ELSE CreateNotification(found, "mention", req[p].id)
      BY <1>4 DEF notifyMentions
    <2> HIDE DEF found
    <2>2. /\ Only(p) /\ req'[p].pc = "mention" /\ req'[p].id = req[p].id
          /\ req'[p].done = req[p].done
          /\ h \in Names /\ h \in Left(req[p])
          /\ Left(req'[p]) \subseteq Left(req[p]) \ {h}
          /\ \E k \in 1..Len(b.names) : b.names[k] = h
          /\ RequestOK(req[p])'
      BY <1>1, <1>2, <1>4, <2>1, TailForm
    <2> HIDE DEF h
    <2>3. Onward(p) BY <1>2, <2>2 DEF Onward, Sent, Notifying
    <2>4. CASE found \in {NoUser, b.user}
      <3>1. UNCHANGED <<access, rows, begun, observed>> BY <1>2, <2>1, <2>4 DEF rows
      <3>2. TypeOK'
        <4>1. /\ begun' \in 0..MaxBegun /\ refused' \subseteq 1..MaxMessages
              /\ cut' \subseteq 1..MaxMessages
          BY <1>1, <3>1 DEF TypeOK, observed
        <4> QED BY <1>1, <2>2, <3>1, <4>1, QuietTyped
      <3>3. Quiet(p) BY <2>2, <2>3, <3>1 DEF Quiet, observed
      <3> QED BY <2>2, <3>2, <3>3, QuietInv
    <2>5. CASE found \notin {NoUser, b.user}
      <3>1. PICK m, u : m = req[p].id /\ u = found OBVIOUS
      <3>2. u \in Users /\ u # b.user /\ u = NameOf(h)
        BY <2>2, <2>5, <3>1, NamesTyped DEF found, GetWorkspaceMemberByUsername, h
      <3>3. m \in 1..Len(messages) /\ messages[m].sender = b.user /\ messages[m].names = b.names
        BY <1>1, <1>2, <3>1 DEF RequestOK, StoredOK, Sent
      <3>4. CreateNotification(u, "mention", m) BY <2>1, <2>5, <3>1
      <3>5. PICK k \in 1..Len(b.names) : b.names[k] = h BY <2>2
      <3>6. h \in Spellings(m, u) BY <3>2, <3>3, <3>5 DEF Spellings, SpellingsOf
      <3>7. MentionsOK'
        BY <1>1, <1>2, <2>2, <2>3, <3>1, <3>2, <3>4, <3>6, MentionTold DEF MessagesInv, Notifying
      <3>8. \E j \in 1..Len(messages[m].names) : NameOf(messages[m].names[j]) = u
        BY <3>2, <3>3, <3>5
      <3>9. u # messages[m].sender /\ Left(req'[p]) \subseteq Left(req[p])
        BY <2>2, <3>2, <3>3
      <3> QED BY <1>2, <2>2, <3>1, <3>2, <3>4, <3>7, <3>8, <3>9, NotifiedInv DEF Notifying
    <2> QED BY <2>4, <2>5
  <1> QED BY <1>3, <1>4

-----------------------------------------------------------------------------
(* The steps that write the other rows.                                    *)

\* The message is stored for one who may post, unless a change overlapped.
LEMMA SaveInv ==
  ASSUME MessagesInv, NEW p \in Requests, saveMessage(p)
  PROVE  MessagesInv'
  <1> DEFINE r == req[p]
             b == r.body
             L == Len(messages)
             x == [channel |-> b.channel, sender |-> b.user, empty |-> b.empty,
                   names |-> b.names, reply |-> b.reply,
                   overlap |-> changes[b.user] # r.epoch, role |-> members[b.user],
                   member |-> b.user \in inChannel[b.channel]]
  <1>1. TypeOK /\ RequestsOK /\ RowsOK /\ RequestOK(r) BY DEF MessagesInv, RequestsOK
  <1>2. /\ r.pc = "insert" /\ L < MaxMessages /\ messages' = Append(messages, x)
        /\ req' = [req EXCEPT ![p].pc = "publish", ![p].id = L + 1]
        /\ UNCHANGED <<access, notifications, attachments, events, begun, observed>>
    BY DEF saveMessage, At, CreateMessage
  <1>3. messages \in Seq(Message) /\ L \in Nat BY <1>1 DEF TypeOK
  <1>4. /\ b \in Input /\ b.user \in Users /\ b.channel \in Channels /\ b.names \in Seq(Names)
        /\ r.epoch \in Nat /\ changes[b.user] \in Nat
    BY <1>1, RequestTyped
  <1>5. x \in Message
    <2>1. members[b.user] \in Roles BY <1>1, <1>4 DEF TypeOK
    <2> QED BY <1>4, <2>1 DEF Message, Input
  <1>6. /\ x.channel = b.channel /\ x.sender = b.user /\ x.empty = b.empty
        /\ x.names = b.names /\ x.reply = b.reply /\ (~x.overlap <=> changes[b.user] = r.epoch)
        /\ x.role = members[b.user] /\ (x.member <=> b.user \in inChannel[b.channel])
    OBVIOUS
  <1> HIDE DEF x
  <1>7. /\ messages' \in Seq(Message) /\ Len(messages') = L + 1 /\ messages'[L + 1] = x
        /\ \A i \in 1..L : messages'[i] = messages[i]
    BY <1>2, <1>3, <1>5, AppendForm
  <1>8. /\ Only(p) /\ req'[p].pc = "publish" /\ req'[p].id = L + 1 /\ req'[p].body = b
        /\ req'[p].files = r.files /\ req'[p].done = r.done /\ req'[p].epoch = r.epoch
    <2> DEFINE s == [r EXCEPT !.pc = "publish", !.id = L + 1]
    <2>1. req \in [Requests -> Request] /\ "publish" \in Points BY <1>1 DEF TypeOK, Points
    <2>2. req' = [req EXCEPT ![p] = s] BY <1>2, <2>1 DEF Request
    <2>3. /\ s \in Request /\ s.pc = "publish" /\ s.id = L + 1 /\ s.body = b
          /\ s.files = r.files /\ s.done = r.done /\ s.epoch = r.epoch
      <3>1. L + 1 \in Nat /\ r \in Request BY <1>3, <2>1
      <3> HIDE DEF L, r
      <3> QED BY <2>1, <3>1 DEF Request
    <2> HIDE DEF s
    <2> QED BY <2>1, <2>2, <2>3 DEF Only, Others
  <1>9. UNCHANGED <<notifications, attachments, events, refused, cut>> /\ UNCHANGED access
    BY <1>2 DEF observed
  <1>10. r.id = 0 /\ r.done = {}
    BY <1>1, <1>2 DEF RequestOK, StoredOK, FilesOK, Sent, Attaching
  <1>11. TypeOK'
    <2>1. UNCHANGED <<members, inChannel, changes>> BY <1>9 DEF access
    <2>2. Len(messages') <= MaxMessages BY <1>2, <1>3, <1>7, BoundsTyped
    <2> QED BY <1>1, <1>2, <1>7, <1>8, <1>9, <2>1, <2>2 DEF TypeOK, Only
  <1>12. L + 1 \in 1..Len(messages') /\ \A m \in 1..L : m \in 1..Len(messages') /\ m # L + 1
    BY <1>3, <1>7
  <1>13. \A m \in 1..Len(messages') : m \in 1..L \/ m = L + 1 BY <1>3, <1>7
  <1>14. RequestOK(req[p])'
    <2>1. ContentOK(req[p])' BY <1>1, <1>2, <1>8 DEF RequestOK, ContentOK, Sending
    <2>2. StoredOK(req[p])' BY <1>6, <1>7, <1>8, <1>12 DEF StoredOK, Sent
    <2>3. TodoOK(req[p])' BY <1>8 DEF TodoOK, Notifying
    <2>4. FilesOK(req[p])' BY <1>8, <1>10 DEF FilesOK, Attaching
    <2>5. AccessOK(req[p])' BY <1>1, <1>8, <1>9 DEF RequestOK, AccessOK, access
    <2> QED BY <2>1, <2>2, <2>3, <2>4, <2>5 DEF RequestOK
  <1>15. RequestsOK'
    <2>1. Grows
      <3>1. Len(attachments) \in Nat BY <1>1 DEF TypeOK
      <3> QED BY <1>3, <1>7, <1>9, <3>1 DEF Grows, Longer
    <2> QED BY <1>1, <1>8, <1>9, <1>11, <1>14, <2>1, RequestsKept
  <1>16. \A q \in Requests \ {p} : req'[q] = req[q] BY <1>8 DEF Only, Others
  <1>17. \A q \in Requests : req[q].pc \in Sent => req[q].id \in 1..L
    BY <1>1 DEF RequestsOK, RequestOK, StoredOK
  <1>18. SendsApart'
    BY <1>8, <1>12, <1>16, <1>17 DEF MessagesInv, SendsApart
  <1>19. RowsOK'
    BY <1>1, <1>7, <1>9, <1>12 DEF RowsOK
  <1>20. PostingAllowed'
    <2>1. ASSUME ~x.overlap
          PROVE  x.member /\ x.role # "none" /\ Allowed(x.role, x.channel, x.sender)
      BY <1>1, <1>2, <1>6, <2>1 DEF RequestOK, AccessOK
    <2>2. ASSUME NEW m \in 1..Len(messages')
          PROVE  LET y == messages'[m]
                 IN y.overlap \/ /\ y.member /\ y.role # "none"
                                 /\ y.channel \in ReadOnly =>
                                      \/ y.role \in {"owner", "admin", "moderator"}
                                      \/ ChannelRole[y.channel][y.sender] = "moderator"
      <3>1. CASE m \in 1..L BY <1>7, <3>1 DEF MessagesInv, PostingAllowed
      <3>2. CASE m = L + 1
        <4>1. messages'[m] = x BY <1>7, <3>2
        <4> QED BY <2>1, <4>1 DEF Allowed
      <3> QED BY <1>13, <3>1, <3>2
    <2> QED BY <2>2 DEF PostingAllowed
  <1>21. NotifiedForReason'
    <2>1. ASSUME NEW i \in 1..Len(notifications)
          PROVE  LET t == notifications[i]
                     y == messages'[t.message]
                 IN /\ t.user # y.sender
                    /\ t.type = "mention" =>
                         \E k \in 1..Len(y.names) : NameOf(y.names[k]) = t.user
                    /\ t.type = "reply" => /\ messages'[y.reply].sender = t.user
                                           /\ messages'[y.reply].channel = y.channel
      <3>1. /\ notifications[i].message \in 1..L
            /\ notifications[i].type = "reply" =>
                 messages[notifications[i].message].reply \in 1..L
        BY <1>1 DEF RowsOK
      <3> DEFINE t == notifications[i]
                 y == messages[t.message]
      <3>2. messages'[t.message] = y BY <1>7, <3>1
      <3>3. t.type = "reply" => messages'[y.reply] = messages[y.reply] BY <1>7, <3>1
      <3>4. /\ t.user # y.sender
            /\ t.type = "mention" => \E k \in 1..Len(y.names) : NameOf(y.names[k]) = t.user
            /\ t.type = "reply" => /\ messages[y.reply].sender = t.user
                                   /\ messages[y.reply].channel = y.channel
        BY DEF MessagesInv, NotifiedForReason
      <3> HIDE DEF t, y
      <3> QED BY <3>2, <3>3, <3>4 DEF t
    <2> QED BY <1>9, <2>1 DEF NotifiedForReason
  <1>22. ReadByUser' BY <1>9 DEF MessagesInv, ReadByUser
  <1>23. FileOfSender'
    BY <1>1, <1>7, <1>9 DEF MessagesInv, FileOfSender, RowsOK
  <1>24. PICK new : new = L + 1 OBVIOUS
  <1>25. MentionsOK'
    <2>1. \A m, u : Told(m, u)' = Told(m, u) BY <1>9 DEF Told
    <2>2. \A u : \A m \in 1..L : Spellings(m, u)' = Spellings(m, u) BY <1>7 DEF Spellings
    <2>3. \A u : Told(new, u) = {} BY <1>1, <1>3, <1>24 DEF Told, RowsOK
    <2>4. \A u \in Users : Cardinality({}) <= Cardinality(Spellings(new, u)')
      <3>1. ASSUME NEW u \in Users PROVE Cardinality({}) <= Cardinality(SpellingsOf(u, b.names))
        <4>1. IsFiniteSet(SpellingsOf(u, b.names)) BY <1>4, SpellingsFinite
        <4>2. Cardinality(SpellingsOf(u, b.names)) \in Nat BY <4>1, FS_CardinalityType
        <4> QED BY <4>2, FS_EmptySet
      <3>2. messages'[new].names = b.names BY <1>6, <1>7, <1>24
      <3>3. \A u : Spellings(new, u)' = SpellingsOf(u, b.names)
        BY <3>2 DEF Spellings, SpellingsOf
      <3> QED BY <3>1, <3>3
    <2>5. ASSUME NEW m \in 1..Len(messages'), NEW u \in Users
          PROVE  Cardinality(Told(m, u)') <= Cardinality(Spellings(m, u)')
      <3>1. CASE m \in 1..L BY <2>1, <2>2, <3>1 DEF MessagesInv, MentionsOK
      <3>2. CASE m = new BY <2>1, <2>3, <2>4, <3>2
      <3> QED BY <1>13, <1>24, <3>1, <3>2
    <2>6. ASSUME NEW q \in Requests, NEW u \in Users
          PROVE  /\ req'[q].pc = "publish" => Told(req[q].id, u)' = {}
                 /\ req'[q].pc \in Notifying =>
                      Cardinality(Told(req[q].id, u)') <=
                        Cardinality(Spellings(req[q].id, u)' \ Left(req'[q]))
      <3>1. PICK m : m = req'[q].id OBVIOUS
      <3>2. /\ Told(req[q].id, u)' = Told(m, u)'
            /\ Spellings(req[q].id, u)' = Spellings(m, u)'
        BY <3>1 DEF Told, Spellings
      <3>3. CASE q = p
        BY <1>8, <1>24, <2>1, <2>3, <3>1, <3>2, <3>3 DEF Notifying
      <3>4. CASE q # p
        <4>1. req'[q] = req[q] BY <1>16, <3>4
        <4>2. req[q].pc \in Notifying => m \in 1..L BY <1>17, <3>1, <4>1 DEF Sent, Notifying
        <4>3. /\ req[q].pc = "publish" => Told(m, u) = {}
              /\ req[q].pc \in Notifying =>
                   Cardinality(Told(m, u)) <= Cardinality(Spellings(m, u) \ Left(req[q]))
          BY <3>1, <4>1 DEF MessagesInv, MentionsOK, At
        <4> QED BY <2>1, <2>2, <3>2, <4>1, <4>2, <4>3
      <3> QED BY <3>3, <3>4
    <2> QED BY <2>5, <2>6 DEF MentionsOK, At
  <1>26. AnnouncedOnce'
    <2>1. \A m : News(m)' = News(m) BY <1>9 DEF News
    <2>2. News(new) = {} BY <1>1, <1>3, <1>24 DEF News, RowsOK
    <2>3. ASSUME NEW q \in Requests, req'[q].pc = "publish" PROVE News(req'[q].id) = {}
      <3>1. CASE q = p BY <1>8, <1>24, <2>2, <3>1
      <3>2. CASE q # p BY <1>16, <2>3, <3>2 DEF MessagesInv, AnnouncedOnce, At
      <3> QED BY <3>1, <3>2
    <2>4. ASSUME NEW m \in (Len(FirstMessages) + 1)..Len(messages')
          PROVE  \/ Cardinality(News(m)) = 1
                 \/ /\ News(m) = {}
                    /\ m \in cut' \/ \E q \in Requests : req'[q].pc = "publish" /\ req'[q].id = m
      <3>1. CASE m = new BY <1>8, <1>24, <2>2, <3>1
      <3>2. CASE m # new
        <4>1. m \in (Len(FirstMessages) + 1)..Len(messages)
          BY <1>3, <1>7, <1>24, <3>2, BoundsTyped
        <4>2. \A q \in Requests : At(q, "publish") => req'[q] = req[q]
          BY <1>2, <1>16 DEF At
        <4> QED BY <1>9, <4>1, <4>2 DEF MessagesInv, AnnouncedOnce, At
      <3> QED BY <3>1, <3>2
    <2>5. \A q \in Requests : At(q, "publish")' => News(req[q].id)' = {}
      BY <2>1, <2>3 DEF At, News
    <2> QED BY <2>1, <2>4, <2>5 DEF AnnouncedOnce, At
  <1>27. ListedOK'
    <2>1. \A k, m : Attached(k, m)' <=> Attached(k, m) BY <1>9 DEF Attached
    <2>2. \A k, m : \A q \in Requests : req[q].id = m /\ k \in req[q].done =>
            req'[q].id = m /\ k \in req'[q].done
      BY <1>10, <1>16
    <2> QED BY <1>9, <2>1, <2>2 DEF MessagesInv, ListedOK
  <1>28. EmptyHasFile'
    <2>1. ASSUME NEW m \in 1..L, InFlight(m) PROVE InFlight(m)'
      <3>1. PICK q \in Requests : ~At(q, "idle") /\ req[q].id = m BY <2>1 DEF InFlight
      <3>2. q # p BY <1>3, <1>10, <3>1
      <3> QED BY <1>16, <3>1, <3>2 DEF InFlight, At
    <2>2. InFlight(new)' BY <1>8, <1>24 DEF InFlight, At
    <2>3. ASSUME NEW m \in 1..Len(messages'), messages'[m].empty
          PROVE  \/ InFlight(m)' \/ m \in refused' \cup cut'
                 \/ \E a \in 1..Len(attachments') : attachments'[a].message = m
      <3>1. CASE m = new BY <2>2, <3>1
      <3>2. CASE m # new
        <4>1. m \in 1..L /\ messages[m].empty BY <1>7, <1>13, <1>24, <2>3, <3>2
        <4> QED BY <1>9, <2>1, <4>1 DEF MessagesInv, EmptyHasFile
      <3> QED BY <3>1, <3>2
    <2> QED BY <2>3 DEF EmptyHasFile
  <1> QED BY <1>11, <1>15, <1>18, <1>19, <1>20, <1>21, <1>22, <1>23, <1>25, <1>26, <1>27, <1>28
      DEF MessagesInv

\* message.new is published once, and each name of the text is left to notify.
LEMMA PublishNewInv ==
  ASSUME MessagesInv, NEW p \in Requests, PublishMessageNew(p)
  PROVE  MessagesInv'
  <1> DEFINE r == req[p]
             b == r.body
             E == Len(events)
             pc == IF b.reply = 0 THEN "mention" ELSE "reply"
             s == [r EXCEPT !.pc = pc, !.todo = ParseMentions(b.names)]
  <1>1. /\ TypeOK /\ RequestsOK /\ RowsOK /\ RequestOK(r) /\ r \in Request
        /\ req \in [Requests -> Request]
    BY DEF MessagesInv, RequestsOK, TypeOK
  <1>2. /\ r.pc = "publish"
        /\ events' = Append(events, [type |-> "message.new", message |-> r.id, files |-> {}])
        /\ req' = [req EXCEPT ![p].pc = pc, ![p].todo = ParseMentions(b.names)]
        /\ UNCHANGED <<access, messages, notifications, attachments, begun, observed>>
    BY DEF PublishMessageNew, At
  <1>3. ParseMentions(b.names) \in Seq(Names) /\ NamesOf(b.names, ParseMentions(b.names))
    BY <1>1, RequestTyped, MentionsDistinct
  <1>4. req' = [req EXCEPT ![p] = s] BY <1>1, <1>2 DEF Request
  <1>5. pc \in {"reply", "mention"} /\ pc \in Points BY DEF Points
  <1> HIDE DEF pc
  <1>6. /\ s \in Request /\ s.pc = pc /\ s.id = r.id /\ s.body = b /\ s.files = r.files
        /\ s.done = r.done /\ s.epoch = r.epoch /\ s.todo = ParseMentions(b.names)
    <2> HIDE DEF r
    <2> QED BY <1>1, <1>3, <1>5 DEF Request
  <1> HIDE DEF s
  <1>7. Only(p) /\ req'[p] = s /\ \A q \in Requests \ {p} : req'[q] = req[q]
    BY <1>1, <1>4, <1>6 DEF Only, Others
  <1>8. UNCHANGED <<messages, notifications, attachments, refused, cut>> /\ UNCHANGED access
    BY <1>2 DEF observed
  <1>9. PICK m, new : m = r.id /\ new = E + 1 OBVIOUS
  <1>10. m \in 1..Len(messages) BY <1>1, <1>2, <1>9 DEF RequestOK, StoredOK, Sent
  <1>11. /\ events' \in Seq(Event) /\ E \in Nat /\ Len(events') = E + 1
         /\ \A i \in 1..E : events'[i] = events[i]
         /\ events'[new].type = "message.new" /\ events'[new].message = m
         /\ events'[new].files = {}
    <2> DEFINE e == [type |-> "message.new", message |-> r.id, files |-> {}]
    <2>1. e \in Event BY <1>9, <1>10 DEF Event
    <2>2. e.type = "message.new" /\ e.message = m /\ e.files = {} BY <1>9
    <2>3. events' = Append(events, e) BY <1>2
    <2>4. events \in Seq(Event) BY <1>1 DEF TypeOK
    <2> HIDE DEF e
    <2> QED BY <1>9, <2>1, <2>2, <2>3, <2>4, AppendForm
  <1>12. TypeOK'
    <2>1. UNCHANGED <<members, inChannel, changes>> BY <1>8 DEF access
    <2> QED BY <1>1, <1>2, <1>7, <1>8, <1>11, <2>1 DEF TypeOK, Only
  <1>13. /\ new \in 1..Len(events') /\ \A i \in 1..E : i \in 1..Len(events') /\ i # new
         /\ \A i \in 1..Len(events') : i \in 1..E \/ i = new
    BY <1>9, <1>11
  <1>14. RequestOK(req[p])'
    <2>1. ContentOK(req[p])' BY <1>1, <1>2, <1>5, <1>6, <1>7 DEF RequestOK, ContentOK, Sending
    <2>2. StoredOK(req[p])'
      BY <1>1, <1>2, <1>5, <1>6, <1>7, <1>8 DEF RequestOK, StoredOK, Sent, Attaching
    <2>3. TodoOK(req[p])' BY <1>3, <1>6, <1>7 DEF TodoOK
    <2>4. FilesOK(req[p])'
      BY <1>1, <1>2, <1>5, <1>6, <1>7 DEF RequestOK, FilesOK, Attaching
    <2>5. AccessOK(req[p])'
      BY <1>1, <1>5, <1>6, <1>7, <1>8 DEF RequestOK, AccessOK, access
    <2> QED BY <2>1, <2>2, <2>3, <2>4, <2>5 DEF RequestOK
  <1>15. RequestsOK'
    <2>1. Grows
      <3>1. Len(messages) \in Nat /\ Len(attachments) \in Nat BY <1>1 DEF TypeOK
      <3> QED BY <1>8, <3>1 DEF Grows, Longer
    <2> QED BY <1>1, <1>7, <1>8, <1>12, <1>14, <2>1, RequestsKept
  <1>16. SendsApart' BY <1>2, <1>6, <1>7, ApartKept DEF MessagesInv, Sent
  <1>17. RowsOK'
    <2>1. \A i \in 1..Len(events') : events'[i].message \in 1..Len(messages)
      BY <1>1, <1>10, <1>11, <1>13 DEF RowsOK
    <2> QED BY <1>1, <1>8, <2>1 DEF RowsOK
  <1>18. /\ PostingAllowed' /\ NotifiedForReason' /\ ReadByUser' /\ FileOfSender'
    BY <1>8 DEF MessagesInv, PostingAllowed, NotifiedForReason, ReadByUser, FileOfSender
  <1>19. MentionsOK'
    <2>1. \A n, u : Told(n, u)' = Told(n, u) BY <1>8 DEF Told
    <2>2. ASSUME NEW u \in Users
          PROVE  Cardinality({}) <= Cardinality(Spellings(m, u) \ Left(s))
      <3>1. messages[m].names \in Seq(Names) BY <1>1, <1>10, MessagesTyped
      <3>2. IsFiniteSet(Spellings(m, u)) BY <3>1, SpellingsFinite DEF Spellings
      <3>3. Spellings(m, u) \ Left(s) \in SUBSET Spellings(m, u) OBVIOUS
      <3>4. IsFiniteSet(Spellings(m, u) \ Left(s)) BY <3>2, <3>3, FS_Subset
      <3>5. Cardinality(Spellings(m, u) \ Left(s)) \in Nat BY <3>4, FS_CardinalityType
      <3> QED BY <3>5, FS_EmptySet
    <2>3. ASSUME NEW q \in Requests, NEW u \in Users, NEW n, req'[q].id = n
          PROVE  ToldOf(req'[q], Told(n, u)', n, u)
      <3>1. CASE q = p
        <4>1. n = m /\ req'[q] = s BY <1>6, <1>7, <1>9, <2>3, <3>1
        <4>2. Told(n, u)' = {} BY <1>2, <1>9, <2>1, <4>1 DEF MessagesInv, MentionsOK, At
        <4>3. s.pc # "publish" BY <1>5, <1>6
        <4> QED BY <2>2, <4>1, <4>2, <4>3 DEF ToldOf
      <3>2. CASE q # p
        <4>1. req'[q] = req[q] BY <1>7, <3>2
        <4>2. ToldOf(req[q], Told(n, u), n, u)
          BY <2>3, <4>1 DEF MessagesInv, MentionsOK, ToldOf, At
        <4> QED BY <2>1, <4>1, <4>2
      <3> QED BY <3>1, <3>2
    <2>4. \A n \in 1..Len(messages), u \in Users :
            Cardinality(Told(n, u)') <= Cardinality(Spellings(n, u))
      BY <2>1 DEF MessagesInv, MentionsOK
    <2> QED BY <1>8, <2>3, <2>4, MentionsStep
  <1>20. AnnouncedOnce'
    <2>1. \A n : n # m => News(n)' = News(n) BY <1>11, <1>13 DEF News
    <2>2. News(m) = {} BY <1>2, <1>9 DEF MessagesInv, AnnouncedOnce, At
    <2>3. News(m)' = {new} BY <1>11, <1>13, <2>2 DEF News
    <2>4. Cardinality(News(m)') = 1 BY <2>3, FS_Singleton
    <2>5. ASSUME NEW q \in Requests, req'[q].pc = "publish"
          PROVE  /\ q # p /\ req'[q] = req[q] /\ req[q].id # m /\ News(req[q].id) = {}
      <3>1. q # p /\ req'[q] = req[q] BY <1>5, <1>6, <1>7, <2>5
      <3> QED BY <1>2, <1>9, <2>5, <3>1 DEF MessagesInv, SendsApart, AnnouncedOnce, At, Sent
    <2>6. ASSUME NEW q \in Requests, req'[q].pc = "publish" PROVE News(req[q].id)' = {}
      <3>1. PICK n : n = req[q].id OBVIOUS
      <3>2. News(n)' = {} /\ req'[q].id = n BY <2>1, <2>5, <2>6, <3>1
      <3> QED BY <3>2 DEF News
    <2>7. ASSUME NEW n \in (Len(FirstMessages) + 1)..Len(messages)
          PROVE  \/ Cardinality(News(n)') = 1
                 \/ /\ News(n)' = {}
                    /\ n \in cut \/ \E q \in Requests : req'[q].pc = "publish" /\ req'[q].id = n
      <3>1. CASE n = m BY <2>4, <3>1
      <3>2. CASE n # m
        <4>1. \A q \in Requests : At(q, "publish") /\ req[q].id = n => req'[q] = req[q]
          BY <1>7, <1>9, <3>2
        <4> QED BY <2>1, <3>2, <4>1 DEF MessagesInv, AnnouncedOnce, At
      <3> QED BY <3>1, <3>2
    <2> QED BY <1>8, <2>6, <2>7 DEF AnnouncedOnce, At
  <1>21. ListedOK'
    <2>1. \A k, n : Attached(k, n)' <=> Attached(k, n) BY <1>8 DEF Attached
    <2>2. \A q \in Requests : req'[q].id = req[q].id /\ req'[q].done = req[q].done
      BY <1>6, <1>7
    <2>3. ASSUME NEW i \in 1..Len(events'), NEW k \in events'[i].files
          PROVE  Attached(k, events'[i].message)
      BY <1>11, <1>13, <2>3 DEF MessagesInv, ListedOK
    <2>4. ASSUME NEW i \in 1..Len(events'), NEW k \in events'[i].files
          PROVE  Attached(k, events[i].message)'
      <3>1. PICK n : n = events'[i].message OBVIOUS
      <3>2. Attached(k, n)' BY <2>1, <2>3, <2>4, <3>1
      <3> QED BY <3>1, <3>2 DEF Attached
    <2>5. \A i \in 1..E : i \in 1..Len(events') /\ events'[i] = events[i] BY <1>11, <1>13
    <2>6. ASSUME NEW a \in 1..Len(attachments)
          PROVE  \/ attachments[a].message \in refused \cup cut
                 \/ \E q \in Requests : /\ req'[q].id = attachments[a].message
                                        /\ attachments[a].key \in req'[q].done
                 \/ \E i \in 1..Len(events') : /\ events'[i].message = attachments[a].message
                                               /\ attachments[a].key \in events'[i].files
      BY <2>2, <2>5 DEF MessagesInv, ListedOK
    <2> QED BY <1>8, <2>4, <2>6 DEF ListedOK
  <1>22. EmptyHasFile'
    <2>1. \A q \in Requests : req'[q].id = req[q].id /\ (At(q, "idle")' => At(q, "idle"))
      BY <1>5, <1>6, <1>7 DEF At
    <2>2. \A n : InFlight(n) => InFlight(n)' BY <2>1 DEF InFlight
    <2> QED BY <1>8, <2>2 DEF MessagesInv, EmptyHasFile
  <1> QED BY <1>12, <1>15, <1>16, <1>17, <1>18, <1>19, <1>20, <1>21, <1>22 DEF MessagesInv

\* A step of p that neither sends before nor after it.
LEMMA AsideKept ==
  ASSUME SendsApart, MentionsOK, AnnouncedOnce, NEW p \in Requests, Only(p),
         req[p].pc \notin Sent, req'[p].pc \notin Sent, UNCHANGED <<messages, notifications>>,
         \A m : News(m)' = News(m), cut \subseteq cut'
  PROVE  SendsApart' /\ MentionsOK' /\ AnnouncedOnce'
  <1>1. \A q \in Requests : req[q].pc \in Sent \/ req'[q].pc \in Sent => req'[q] = req[q]
    BY DEF Only, Others
  <1>2. SendsApart' BY <1>1 DEF SendsApart
  <1>3. MentionsOK'
    <2>1. \A m, u : Told(m, u)' = Told(m, u) BY DEF Told
    <2>2. ASSUME NEW q \in Requests, NEW u \in Users, NEW m, req'[q].id = m
          PROVE  ToldOf(req'[q], Told(m, u)', m, u)
      <3>1. CASE req'[q].pc \in Sent
        <4>1. req'[q] = req[q] BY <1>1, <3>1
        <4>2. ToldOf(req[q], Told(m, u), m, u) BY <2>2, <4>1 DEF MentionsOK, ToldOf, At
        <4> QED BY <2>1, <4>1, <4>2
      <3>2. CASE req'[q].pc \notin Sent BY <3>2 DEF ToldOf, Sent, Notifying
      <3> QED BY <3>1, <3>2
    <2>3. \A m \in 1..Len(messages), u \in Users :
            Cardinality(Told(m, u)') <= Cardinality(Spellings(m, u))
      BY <2>1 DEF MentionsOK
    <2> QED BY <2>2, <2>3, MentionsStep
  <1>4. AnnouncedOnce'
    <2>1. \A q \in Requests : At(q, "publish") \/ req'[q].pc = "publish" => req'[q] = req[q]
      BY <1>1 DEF At, Sent
    <2>2. ASSUME NEW q \in Requests, req'[q].pc = "publish" PROVE News(req[q].id)' = {}
      <3>1. PICK m : m = req[q].id OBVIOUS
      <3>2. req'[q] = req[q] BY <2>1, <2>2
      <3>3. News(m)' = {} BY <2>2, <3>1, <3>2 DEF AnnouncedOnce, At
      <3> QED BY <3>1, <3>2, <3>3 DEF News
    <2>3. ASSUME NEW m \in (Len(FirstMessages) + 1)..Len(messages)
          PROVE  \/ Cardinality(News(m)') = 1
                 \/ /\ News(m)' = {}
                    /\ m \in cut' \/ \E q \in Requests : req'[q].pc = "publish" /\ req'[q].id = m
      BY <2>1 DEF AnnouncedOnce, At
    <2> QED BY <2>2, <2>3 DEF AnnouncedOnce, At
  <1> QED BY <1>2, <1>3, <1>4

\* message.updated lists what the request has stored.
LEMMA PublishUpdatedInv ==
  ASSUME MessagesInv, NEW p \in Requests, PublishMessageUpdated(p)
  PROVE  MessagesInv'
  <1> DEFINE r == req[p]
             E == Len(events)
             e == [type |-> "message.updated", message |-> r.id, files |-> r.done]
  <1>1. TypeOK /\ RequestsOK /\ RowsOK /\ RequestOK(r) BY DEF MessagesInv, RequestsOK
  <1>2. /\ r.pc = "updated" /\ events' = Append(events, e) /\ Return(p)
        /\ UNCHANGED <<access, messages, notifications, attachments, begun, observed>>
    BY DEF PublishMessageUpdated, At
  <1>3. Only(p) /\ req'[p] = Idle /\ \A q \in Requests \ {p} : req'[q] = req[q]
    BY <1>1, <1>2, ReturnForm DEF Only, Others
  <1>4. UNCHANGED <<messages, notifications, attachments, refused, cut>> /\ UNCHANGED access
    BY <1>2 DEF observed
  <1>5. /\ r.id \in 1..Len(messages) /\ r.done # {}
        /\ \A k \in r.done : Attached(k, r.id)
    BY <1>1, <1>2 DEF RequestOK, StoredOK, FilesOK, Attaching
  <1>6. PICK m, new : m = r.id /\ new = E + 1 OBVIOUS
  <1>7. /\ events' \in Seq(Event) /\ E \in Nat /\ Len(events') = E + 1
        /\ \A i \in 1..E : events'[i] = events[i]
        /\ events'[new].type = "message.updated" /\ events'[new].message = m
        /\ events'[new].files = r.done
    <2>1. e \in Event
      <3>1. r.done \in SUBSET Keys /\ r.id \in Nat BY <1>1 DEF TypeOK, Request
      <3> QED BY <3>1 DEF Event
    <2>2. e.type = "message.updated" /\ e.message = m /\ e.files = r.done BY <1>6
    <2>3. events \in Seq(Event) BY <1>1 DEF TypeOK
    <2> HIDE DEF e
    <2> QED BY <1>2, <1>6, <2>1, <2>2, <2>3, AppendForm
  <1>8. TypeOK'
    <2>1. UNCHANGED <<members, inChannel, changes>> BY <1>4 DEF access
    <2> QED BY <1>1, <1>2, <1>3, <1>4, <1>7, <2>1 DEF TypeOK, Only
  <1>9. /\ new \in 1..Len(events') /\ \A i \in 1..E : i \in 1..Len(events') /\ i # new
        /\ \A i \in 1..Len(events') : i \in 1..E \/ i = new
    BY <1>6, <1>7
  <1>10. RequestsOK'
    <2>1. Grows
      <3>1. Len(messages) \in Nat /\ Len(attachments) \in Nat BY <1>1 DEF TypeOK
      <3> QED BY <1>4, <3>1 DEF Grows, Longer
    <2>2. RequestOK(req[p])' BY <1>3, <1>8, IdleOK
    <2> QED BY <1>1, <1>3, <1>4, <1>8, <2>1, <2>2, RequestsKept
  <1>11. RowsOK'
    <2>1. \A i \in 1..Len(events') : events'[i].message \in 1..Len(messages)
      BY <1>1, <1>5, <1>6, <1>7, <1>9 DEF RowsOK
    <2> QED BY <1>1, <1>4, <2>1 DEF RowsOK
  <1>12. /\ PostingAllowed' /\ NotifiedForReason' /\ ReadByUser' /\ FileOfSender'
    BY <1>4 DEF MessagesInv, PostingAllowed, NotifiedForReason, ReadByUser, FileOfSender
  <1>13. SendsApart' /\ MentionsOK' /\ AnnouncedOnce'
    <2>1. \A n : News(n)' = News(n) BY <1>7, <1>9 DEF News
    <2>2. r.pc \notin Sent /\ req'[p].pc \notin Sent BY <1>2, <1>3, IdleTyped DEF Sent
    <2> QED BY <1>3, <1>4, <2>1, <2>2, AsideKept DEF MessagesInv
  <1>14. ListedOK'
    <2>1. \A k, n : Attached(k, n)' <=> Attached(k, n) BY <1>4 DEF Attached
    <2>2. ASSUME NEW i \in 1..Len(events'), NEW k \in events'[i].files
          PROVE  Attached(k, events'[i].message)
      <3>1. CASE i \in 1..E BY <1>7, <2>2, <3>1 DEF MessagesInv, ListedOK
      <3>2. CASE i = new BY <1>5, <1>6, <1>7, <2>2, <3>2
      <3> QED BY <1>9, <3>1, <3>2
    <2>3. ASSUME NEW i \in 1..Len(events'), NEW k \in events'[i].files
          PROVE  Attached(k, events[i].message)'
      <3>1. PICK n : n = events'[i].message OBVIOUS
      <3>2. Attached(k, n)' BY <2>1, <2>2, <2>3, <3>1
      <3> QED BY <3>1, <3>2 DEF Attached
    <2>4. ASSUME NEW a \in 1..Len(attachments)
          PROVE  \/ attachments[a].message \in refused \cup cut
                 \/ \E q \in Requests : /\ req'[q].id = attachments[a].message
                                        /\ attachments[a].key \in req'[q].done
                 \/ \E i \in 1..Len(events') : /\ events'[i].message = attachments[a].message
                                               /\ attachments[a].key \in events'[i].files
      <3>1. CASE attachments[a].message = m /\ attachments[a].key \in r.done
        BY <1>7, <1>9, <3>1
      <3>2. CASE ~(attachments[a].message = m /\ attachments[a].key \in r.done)
        <4>1. \A q \in Requests : req[q].id = attachments[a].message
                                  /\ attachments[a].key \in req[q].done => req'[q] = req[q]
          BY <1>3, <1>6, <3>2
        <4>2. \A i \in 1..E : i \in 1..Len(events') /\ events'[i] = events[i] BY <1>7, <1>9
        <4>3. \/ attachments[a].message \in refused \cup cut
              \/ \E q \in Requests : /\ req[q].id = attachments[a].message
                                     /\ attachments[a].key \in req[q].done
              \/ \E i \in 1..E : /\ events[i].message = attachments[a].message
                                  /\ attachments[a].key \in events[i].files
          BY DEF MessagesInv, ListedOK
        <4> HIDE DEF E
        <4> QED BY <4>1, <4>2, <4>3
      <3> QED BY <3>1, <3>2
    <2> QED BY <1>4, <2>3, <2>4 DEF ListedOK
  <1>15. EmptyHasFile'
    <2>1. \E a \in 1..Len(attachments) : attachments[a].message = m
      BY <1>5, <1>6 DEF Attached
    <2>2. ASSUME NEW n, n # m, InFlight(n) PROVE InFlight(n)'
      <3>1. PICK q \in Requests : ~At(q, "idle") /\ req[q].id = n BY <2>2 DEF InFlight
      <3>2. q # p BY <1>6, <2>2, <3>1
      <3> QED BY <1>3, <3>1, <3>2 DEF InFlight, At
    <2>3. ASSUME NEW n \in 1..Len(messages), messages[n].empty
          PROVE  \/ InFlight(n)' \/ n \in refused \cup cut
                 \/ \E a \in 1..Len(attachments) : attachments[a].message = n
      <3>1. CASE n = m BY <2>1, <3>1
      <3>2. CASE n # m BY <2>2, <2>3, <3>2 DEF MessagesInv, EmptyHasFile
      <3> QED BY <3>1, <3>2
    <2> QED BY <1>4, <2>3 DEF EmptyHasFile
  <1> QED BY <1>8, <1>10, <1>11, <1>12, <1>13, <1>14, <1>15 DEF MessagesInv

\* The row of a file whose key was free.
LEMMA CreateAttachmentInv ==
  ASSUME MessagesInv, NEW p \in Requests, createAttachment(p)
  PROVE  MessagesInv'
  <1> DEFINE r == req[p]
             f == Head(r.files)
             A == Len(attachments)
             pc == IF Len(r.files) = 1 THEN "updated" ELSE "head"
             s == [r EXCEPT !.pc = pc, !.files = Tail(@), !.done = @ \cup {f.key}]
  <1>1. /\ TypeOK /\ RequestsOK /\ RowsOK /\ RequestOK(r) /\ r \in Request
        /\ req \in [Requests -> Request]
    BY DEF MessagesInv, RequestsOK, TypeOK
  <1>2. /\ r.pc = "attach" /\ UNCHANGED <<access, messages, notifications, events, begun, cut>>
        /\ IF KeyTaken(f.key) THEN Refuse(p) /\ UNCHANGED attachments
           ELSE /\ CreateAttachment(r.id, r.body.user, f.key) /\ UNCHANGED refused
                /\ req' = [req EXCEPT ![p].pc = pc, ![p].files = Tail(@),
                                      ![p].done = @ \cup {f.key}]
    BY DEF createAttachment, At
  <1>3. CASE KeyTaken(f.key)
    <2>1. UNCHANGED <<access, rows, begun, cut>> BY <1>2, <1>3 DEF rows
    <2> QED BY <1>2, <1>3, <2>1, RefuseInv DEF Attaching
  <1>4. CASE ~KeyTaken(f.key)
    <2>1. r.files \in Seq(File) /\ r.files # <<>> /\ r.done \in SUBSET Keys /\ r.id \in Nat
      BY <1>1, <1>2 DEF RequestOK, ContentOK, Request
    <2>2. /\ f \in File /\ Tail(r.files) \in Seq(File)
          /\ Len(r.files) # 1 => Tail(r.files) # <<>>
      <3>1. ASSUME NEW S, NEW files \in Seq(S), files # <<>>
            PROVE  /\ Head(files) \in S /\ Tail(files) \in Seq(S)
                   /\ Len(files) # 1 => Tail(files) # <<>>
        <4>1. /\ Len(files) \in Nat /\ Len(files) # 0 /\ Head(files) \in S
              /\ Tail(files) \in Seq(S) /\ Len(Tail(files)) = Len(files) - 1
          BY <3>1
        <4>2. Len(files) # 1 => Len(Tail(files)) # 0 BY <4>1
        <4>3. Len(Tail(files)) # 0 => Tail(files) # <<>>
          <5>1. \A t \in Seq(S) : Len(t) # 0 => t # <<>> OBVIOUS
          <5> QED BY <4>1, <5>1
        <4> QED BY <4>1, <4>2, <4>3, Zenon
      <3> HIDE DEF r
      <3> QED BY <2>1, <3>1
    <2>3. f.key \in Keys /\ f.size \in Nat BY <2>2 DEF File
    <2>4. req' = [req EXCEPT ![p] = s] BY <1>1, <1>2, <1>4 DEF Request
    <2>5. /\ pc \in {"head", "updated"} /\ pc \in Points
          /\ pc = "head" => Tail(r.files) # <<>>
      BY <2>2 DEF Points
    <2>6. /\ f.size \in 1..MaxBytes /\ Object[f.key].size = f.size
          /\ Object[f.key].owner = r.body.user
      <3>1. /\ validateUpload(f) /\ OfUser(f.key, r.body.user)
            /\ HeadObject(f.key) = f.size
        BY <1>1, <1>2 DEF RequestOK, FilesOK
      <3> HIDE DEF f, r
      <3>2. f.size > 0 /\ f.size <= MaxBytes BY <3>1 DEF validateUpload
      <3>3. f.size \in 1..MaxBytes BY <2>3, <3>2, BoundsTyped
      <3> QED BY <3>1, <3>3 DEF OfUser, HeadObject
    <2> HIDE DEF pc
    <2>7. PICK k, m, new : k = f.key /\ m = r.id /\ new = A + 1 OBVIOUS
    <2> HIDE DEF f
    <2>8. /\ s \in Request /\ s.pc = pc /\ s.id = r.id /\ s.body = r.body
          /\ s.files = Tail(r.files) /\ s.done = r.done \cup {k} /\ s.epoch = r.epoch
      <3> HIDE DEF r
      <3> QED BY <1>1, <2>1, <2>2, <2>3, <2>5, <2>7 DEF Request
    <2> HIDE DEF s
    <2>9. Only(p) /\ req'[p] = s /\ \A q \in Requests \ {p} : req'[q] = req[q]
      BY <1>1, <2>4, <2>8 DEF Only, Others
    <2>10. UNCHANGED <<messages, notifications, events, refused, cut>> /\ UNCHANGED access
      BY <1>2, <1>4
    <2>11. m \in 1..Len(messages) /\ messages[m].sender = r.body.user /\ r.body.user \in Users
      BY <1>1, <1>2, <2>7, RequestTyped DEF RequestOK, StoredOK, Attaching
    <2>12. /\ attachments' \in Seq(Attachment) /\ A \in Nat /\ Len(attachments') = A + 1
           /\ \A i \in 1..A : attachments'[i] = attachments[i]
           /\ attachments'[new].message = m /\ attachments'[new].uploader = r.body.user
           /\ attachments'[new].key = k
      <3> DEFINE x == [message |-> r.id, uploader |-> r.body.user, key |-> f.key]
      <3>1. x \in Attachment BY <2>1, <2>3, <2>11 DEF Attachment
      <3>2. x.message = m /\ x.uploader = r.body.user /\ x.key = k BY <2>7
      <3>3. attachments' = Append(attachments, x) BY <1>2, <1>4 DEF CreateAttachment
      <3>4. attachments \in Seq(Attachment) BY <1>1 DEF TypeOK
      <3> HIDE DEF x
      <3> QED BY <2>7, <3>1, <3>2, <3>3, <3>4, AppendForm
    <2>13. /\ new \in 1..Len(attachments')
           /\ \A i \in 1..A : i \in 1..Len(attachments') /\ i # new
           /\ \A i \in 1..Len(attachments') : i \in 1..A \/ i = new
      BY <2>7, <2>12
    <2>14. TypeOK'
      <3>1. UNCHANGED <<members, inChannel, changes>> BY <2>10 DEF access
      <3>2. \A i \in 1..Len(attachments') : Object[attachments'[i].key].size \in 1..MaxBytes
        BY <1>1, <2>6, <2>7, <2>12, <2>13 DEF TypeOK
      <3> QED BY <1>1, <1>2, <2>9, <2>10, <2>12, <3>1, <3>2 DEF TypeOK, Only
    <2>15. Grows
      <3>1. Len(messages) \in Nat BY <1>1 DEF TypeOK
      <3> QED BY <2>10, <2>12, <3>1 DEF Grows, Longer
    <2>16. Attached(k, m)' BY <2>12, <2>13 DEF Attached
    <2>17. \A j, n : Attached(j, n) => Attached(j, n)' BY <1>1, <2>14, <2>15, AttachedKept
    <2>18. RequestOK(req[p])'
      <3>1. ContentOK(req[p])' BY <2>5, <2>8, <2>9 DEF ContentOK, Sending
      <3>2. StoredOK(req[p])'
        BY <1>1, <1>2, <2>5, <2>8, <2>9, <2>10 DEF RequestOK, StoredOK, Sent, Attaching
      <3>3. TodoOK(req[p])' BY <2>5, <2>8, <2>9 DEF TodoOK, Notifying
      <3>4. FilesOK(req[p])'
        <4>1. \A j \in s.done : Attached(j, m)'
          BY <1>1, <2>7, <2>8, <2>16, <2>17 DEF RequestOK, FilesOK
        <4>2. req'[p].id = m /\ req'[p].done = s.done /\ s.done # {} BY <2>7, <2>8, <2>9
        <4>3. \A j \in req'[p].done : Attached(j, req[p].id)'
          BY <4>1, <4>2 DEF Attached
        <4>4. req'[p].pc \in {"head", "updated"} BY <2>5, <2>8, <2>9
        <4> QED BY <4>2, <4>3, <4>4 DEF FilesOK, Attaching
      <3>5. AccessOK(req[p])'
        BY <1>1, <2>5, <2>8, <2>9, <2>10 DEF RequestOK, AccessOK, access
      <3> QED BY <3>1, <3>2, <3>3, <3>4, <3>5 DEF RequestOK
    <2>19. RequestsOK' BY <1>1, <2>9, <2>10, <2>14, <2>15, <2>18, RequestsKept
    <2>20. RowsOK'
      <3>1. \A i \in 1..Len(attachments') : attachments'[i].message \in 1..Len(messages)
        BY <1>1, <2>11, <2>12, <2>13 DEF RowsOK
      <3> QED BY <1>1, <2>10, <3>1 DEF RowsOK
    <2>21. PostingAllowed' /\ NotifiedForReason' /\ ReadByUser'
      BY <2>10 DEF MessagesInv, PostingAllowed, NotifiedForReason, ReadByUser
    <2>22. SendsApart' /\ MentionsOK' /\ AnnouncedOnce'
      <3>1. \A n : News(n)' = News(n) BY <2>10 DEF News
      <3>2. r.pc \notin Sent /\ req'[p].pc \notin Sent BY <1>2, <2>5, <2>8, <2>9 DEF Sent
      <3> QED BY <2>9, <2>10, <3>1, <3>2, AsideKept DEF MessagesInv
    <2>23. FileOfSender'
      <3>1. \A i \in 1..A : attachments[i].key # k BY <1>4, <2>7 DEF KeyTaken
      <3>2. \A i \in 1..Len(attachments') :
              /\ Object[attachments'[i].key].owner = attachments'[i].uploader
              /\ messages[attachments'[i].message].sender = attachments'[i].uploader
        BY <2>6, <2>7, <2>11, <2>12, <2>13 DEF MessagesInv, FileOfSender
      <3>3. ASSUME NEW i \in 1..Len(attachments'), NEW j \in 1..Len(attachments'),
                   attachments'[j].key = attachments'[i].key
            PROVE  i = j
        <4>1. CASE i \in 1..A /\ j \in 1..A
          BY <2>12, <3>3, <4>1 DEF MessagesInv, FileOfSender
        <4>2. CASE ~(i \in 1..A /\ j \in 1..A) BY <2>12, <2>13, <3>1, <3>3, <4>2
        <4> QED BY <4>1, <4>2
      <3> QED BY <2>10, <3>2, <3>3 DEF FileOfSender
    <2>24. ListedOK'
      <3>1. ASSUME NEW i \in 1..Len(events), NEW j \in events[i].files
            PROVE  Attached(j, events[i].message)'
        <4>1. PICK n : n = events[i].message OBVIOUS
        <4>2. Attached(j, n)' BY <2>17, <4>1 DEF MessagesInv, ListedOK
        <4> QED BY <2>10, <4>1, <4>2 DEF Attached
      <3>2. \A q \in Requests : req'[q].id = req[q].id /\ req[q].done \subseteq req'[q].done
        BY <2>8, <2>9
      <3>3. ASSUME NEW i \in 1..Len(attachments')
            PROVE  LET a == attachments'[i]
                   IN \/ a.message \in refused \cup cut
                      \/ \E q \in Requests : req'[q].id = a.message /\ a.key \in req'[q].done
                      \/ \E e \in 1..Len(events) :
                           events[e].message = a.message /\ a.key \in events[e].files
        <4>1. CASE i = new BY <2>7, <2>8, <2>9, <2>12, <4>1
        <4>2. CASE i \in 1..A
          <5>1. attachments'[i] = attachments[i] BY <2>12, <4>2
          <5> QED BY <3>2, <4>2, <5>1 DEF MessagesInv, ListedOK
        <4> QED BY <2>13, <4>1, <4>2
      <3> QED BY <2>10, <3>1, <3>3 DEF ListedOK
    <2>25. EmptyHasFile'
      <3>1. \A q \in Requests : req'[q].id = req[q].id /\ (At(q, "idle")' => At(q, "idle"))
        BY <2>5, <2>8, <2>9 DEF At
      <3>2. \A n : InFlight(n) => InFlight(n)' BY <3>1 DEF InFlight
      <3>3. \A n : (\E i \in 1..A : attachments[i].message = n) =>
              \E i \in 1..Len(attachments') : attachments'[i].message = n
        BY <2>12, <2>13
      <3> QED BY <2>10, <3>2, <3>3 DEF MessagesInv, EmptyHasFile
    <2> QED BY <2>14, <2>19, <2>20, <2>21, <2>22, <2>23, <2>24, <2>25 DEF MessagesInv
  <1> QED BY <1>3, <1>4

-----------------------------------------------------------------------------
(* Reading, and membership.                                                *)

\* Reading changes who read, and nothing that the rest relies on.
LEMMA MarkReadInv ==
  ASSUME MessagesInv, NEW i \in Inputs, MarkRead(i)
  PROVE  MessagesInv'
  <1> DEFINE N == Len(notifications)
  <1>1. TypeOK /\ i \in Input BY InputsTyped DEF MessagesInv
  <1>2. /\ begun < MaxBegun /\ begun' = begun + 1
        /\ UNCHANGED <<access, messages, attachments, events, req, observed>>
        /\ \/ i.id \in 1..N /\ MarkNotificationRead(i.id, i.user)
           \/ MarkAllNotificationsRead(i.user)
    BY DEF MarkRead
  <1>3. notifications \in Seq(Notification) /\ N \in Nat /\ i.user \in Users
    BY <1>1 DEF TypeOK, Input
  <1> DEFINE Marked(x) == IF x.user # i.user \/ x.read THEN x
                          ELSE [x EXCEPT !.read = TRUE, !.readBy = i.user]
  <1>4. ASSUME NEW x \in Notification
        PROVE  /\ Marked(x) \in Notification
               /\ Marked(x).user = x.user /\ Marked(x).type = x.type
               /\ Marked(x).message = x.message
               /\ (x.read => x.readBy = x.user) =>
                    (Marked(x).read => Marked(x).readBy = Marked(x).user)
    BY <1>3 DEF Notification
  <1>5. notifications \in [1..N -> Notification] BY <1>3
  <1> DEFINE One(k) == [notifications EXCEPT ![k] = Marked(@)]
             All == [n \in 1..N |-> Marked(notifications[n])]
  <1>6. \/ \E k \in 1..N : notifications' = One(k)
        \/ notifications' = All
    BY <1>2 DEF MarkNotificationRead, MarkAllNotificationsRead
  <1> HIDE DEF Marked
  <1>7. /\ notifications' \in [1..N -> Notification]
        /\ \A n \in 1..N : notifications'[n] \in {notifications[n], Marked(notifications[n])}
    <2>1. CASE \E k \in 1..N : notifications' = One(k) BY <1>4, <1>5, <2>1
    <2>2. CASE notifications' = All BY <1>4, <1>5, <2>2
    <2> QED BY <1>6, <2>1, <2>2
  <1>8. ASSUME NEW n \in 1..N
        PROVE  /\ notifications'[n] \in Notification
               /\ notifications'[n].user = notifications[n].user
               /\ notifications'[n].type = notifications[n].type
               /\ notifications'[n].message = notifications[n].message
               /\ (notifications[n].read => notifications[n].readBy = notifications[n].user) =>
                    (notifications'[n].read => notifications'[n].readBy = notifications'[n].user)
    <2>1. notifications[n] \in Notification BY <1>3
    <2> QED BY <1>4, <1>7, <2>1
  <1>9. notifications' \in Seq(Notification) /\ Len(notifications') = N
    BY <1>3, <1>7
  <1>10. UNCHANGED <<messages, attachments, events, req, refused, cut>> /\ UNCHANGED access
    BY <1>2 DEF observed
  <1>11. TypeOK'
    <2>1. UNCHANGED <<members, inChannel, changes>> BY <1>10 DEF access
    <2>2. begun' \in 0..MaxBegun BY <1>1, <1>2, BoundsTyped DEF TypeOK
    <2> QED BY <1>1, <1>9, <1>10, <2>1, <2>2 DEF TypeOK
  <1>12. \A m, u : Told(m, u)' = Told(m, u) BY <1>8, <1>9 DEF Told
  <1>13. MentionsOK' BY <1>10, <1>12, MentionsSame DEF MessagesInv
  <1>14. RequestsOK'
    <2>1. \A k, m : Attached(k, m)' <=> Attached(k, m) BY <1>10 DEF Attached
    <2> QED BY <1>10, <2>1, RequestsSame DEF MessagesInv, access
  <1>15. SendsApart' /\ PostingAllowed' /\ FileOfSender'
    BY <1>10 DEF MessagesInv, SendsApart, PostingAllowed, FileOfSender
  <1>16. RowsOK' BY <1>8, <1>9, <1>10 DEF MessagesInv, RowsOK
  <1>17. NotifiedForReason'
    <2>1. ASSUME NEW n \in 1..N
          PROVE  LET x == notifications'[n]
                     m == messages[x.message]
                 IN /\ x.user # m.sender
                    /\ x.type = "mention" =>
                         \E k \in 1..Len(m.names) : NameOf(m.names[k]) = x.user
                    /\ x.type = "reply" => /\ messages[m.reply].sender = x.user
                                           /\ messages[m.reply].channel = m.channel
      BY <1>8 DEF MessagesInv, NotifiedForReason
    <2> QED BY <1>9, <1>10, <2>1 DEF NotifiedForReason
  <1>18. ReadByUser' BY <1>8, <1>9 DEF MessagesInv, ReadByUser
  <1>19. AnnouncedOnce' BY <1>10 DEF MessagesInv, AnnouncedOnce, News, At
  <1>20. ListedOK' BY <1>10 DEF MessagesInv, ListedOK, Attached
  <1>21. EmptyHasFile' BY <1>10 DEF MessagesInv, EmptyHasFile, InFlight, At
  <1> QED BY <1>11, <1>13, <1>14, <1>15, <1>16, <1>17, <1>18, <1>19, <1>20, <1>21 DEF MessagesInv

\* A change of u overlaps what u has in flight; it is no matter of the others.
LEMMA ChangeInv ==
  ASSUME MessagesInv, NEW u \in Users, changes' = [changes EXCEPT ![u] = @ + 1],
         members' \in [Users -> Roles], inChannel' \in [Channels -> SUBSET Users],
         \A v \in Users \ {u} : members'[v] = members[v],
         \A v \in Users \ {u}, c \in Channels : v \in inChannel'[c] <=> v \in inChannel[c],
         UNCHANGED <<rows, req, begun, observed>>
  PROVE  MessagesInv'
  <1>1. TypeOK /\ changes \in [Users -> Nat] BY DEF MessagesInv, TypeOK
  <1>2. UNCHANGED <<messages, notifications, attachments, events, req, begun, refused, cut>>
    BY DEF rows, observed
  <1>3. /\ changes' \in [Users -> Nat] /\ changes'[u] = changes[u] + 1
        /\ \A v \in Users \ {u} : changes'[v] = changes[v]
    BY <1>1
  <1>4. TypeOK' BY <1>1, <1>2, <1>3 DEF TypeOK
  <1>5. RequestsOK'
    <2>1. ASSUME NEW p \in Requests PROVE RequestOK(req[p])'
      <3>1. RequestOK(req[p]) BY DEF MessagesInv, RequestsOK
      <3>2. \A k, m : Attached(k, m)' <=> Attached(k, m) BY <1>2 DEF Attached
      <3>3. ContentOK(req[p])' /\ StoredOK(req[p])' /\ TodoOK(req[p])' /\ FilesOK(req[p])'
        BY <1>2, <3>1, <3>2 DEF RequestOK, ContentOK, StoredOK, TodoOK, FilesOK
      <3>4. AccessOK(req[p])'
        <4>1. /\ req[p].body.user \in Users /\ req[p].body.channel \in Channels
              /\ req[p].epoch \in Nat /\ changes[req[p].body.user] \in Nat
          BY <1>1, RequestTyped
        <4>2. CASE req[p].body.user = u
          BY <1>2, <1>3, <3>1, <4>1, <4>2 DEF RequestOK, AccessOK
        <4>3. CASE req[p].body.user # u
          BY <1>2, <1>3, <3>1, <4>1, <4>3 DEF RequestOK, AccessOK
        <4> QED BY <4>2, <4>3
      <3> QED BY <3>3, <3>4 DEF RequestOK
    <2> QED BY <2>1 DEF RequestsOK
  <1>6. SendsApart' /\ PostingAllowed' /\ FileOfSender' /\ RowsOK'
    BY <1>2 DEF MessagesInv, SendsApart, PostingAllowed, FileOfSender, RowsOK
  <1>7. NotifiedForReason' /\ ReadByUser'
    BY <1>2 DEF MessagesInv, NotifiedForReason, ReadByUser
  <1>8. MentionsOK'
    <2>1. \A m, v : Told(m, v)' = Told(m, v) BY <1>2 DEF Told
    <2> QED BY <1>2, <2>1, MentionsSame DEF MessagesInv
  <1>9. AnnouncedOnce' BY <1>2 DEF MessagesInv, AnnouncedOnce, News, At
  <1>10. ListedOK' BY <1>2 DEF MessagesInv, ListedOK, Attached
  <1>11. EmptyHasFile' BY <1>2 DEF MessagesInv, EmptyHasFile, InFlight, At
  <1> QED BY <1>4, <1>5, <1>6, <1>7, <1>8, <1>9, <1>10, <1>11 DEF MessagesInv

LEMMA SetRoleInv ==
  ASSUME MessagesInv, NEW u \in Users, NEW role \in {"none", "member"}, SetRole(u, role)
  PROVE  MessagesInv'
  <1>1. members \in [Users -> Roles] /\ inChannel \in [Channels -> SUBSET Users] /\ role \in Roles
    BY DEF MessagesInv, TypeOK, Roles
  <1>2. /\ members' = [members EXCEPT ![u] = role] /\ UNCHANGED inChannel
        /\ changes' = [changes EXCEPT ![u] = @ + 1] /\ UNCHANGED <<rows, req, begun, observed>>
    BY DEF SetRole, Change
  <1> QED BY <1>1, <1>2, ChangeInv

LEMMA LeaveChannelInv ==
  ASSUME MessagesInv, NEW u \in Users, NEW c \in Channels, LeaveChannel(u, c)
  PROVE  MessagesInv'
  <1>1. members \in [Users -> Roles] /\ inChannel \in [Channels -> SUBSET Users]
    BY DEF MessagesInv, TypeOK
  <1>2. /\ inChannel' = [inChannel EXCEPT ![c] = @ \ {u}] /\ UNCHANGED members
        /\ changes' = [changes EXCEPT ![u] = @ + 1] /\ UNCHANGED <<rows, req, begun, observed>>
    BY DEF LeaveChannel, Change
  <1>3. /\ inChannel' \in [Channels -> SUBSET Users]
        /\ \A v \in Users \ {u}, d \in Channels : v \in inChannel'[d] <=> v \in inChannel[d]
    BY <1>1, <1>2
  <1> QED BY <1>1, <1>2, <1>3, ChangeInv

-----------------------------------------------------------------------------
(* The theorems.                                                           *)

LEMMA InitInv ==
  ASSUME Init
  PROVE  MessagesInv
  <1> DEFINE first == [i \in 1..Len(FirstMessages) |->
               [channel |-> FirstMessages[i].channel, sender |-> FirstMessages[i].sender,
                empty |-> FALSE, names |-> <<>>, reply |-> 0, overlap |-> FALSE, role |-> "owner",
                member |-> TRUE]]
  <1>1. /\ members = Roles0 /\ changes = [u \in Users |-> 0]
        /\ inChannel = [c \in Channels |-> {u \in Users : Roles0[u] # "none"}]
        /\ messages = first
        /\ notifications = <<>> /\ attachments = <<>> /\ events = <<>>
        /\ req = [p \in Requests |-> Idle] /\ begun = 0 /\ refused = {} /\ cut = {}
    BY DEF Init
  <1>2. /\ Len(notifications) = 0 /\ Len(attachments) = 0 /\ Len(events) = 0
        /\ notifications \in Seq(Notification) /\ attachments \in Seq(Attachment)
        /\ events \in Seq(Event)
    BY <1>1
  <1>3. \A p \in Requests : req[p] = Idle BY <1>1
  <1>4. /\ messages \in Seq(Message) /\ Len(messages) = Len(FirstMessages)
        /\ Len(FirstMessages) \in Nat
        /\ \A m \in 1..Len(messages) :
             /\ messages[m].role = "owner" /\ messages[m].member
             /\ ~messages[m].empty
    <2>1. Len(FirstMessages) \in Nat BY BoundsTyped
    <2>2. \A i \in 1..Len(FirstMessages) :
            FirstMessages[i].channel \in Channels /\ FirstMessages[i].sender \in Users
      <3> DEFINE First == [channel : Channels, sender : Users]
      <3>1. \A f \in First : f.channel \in Channels /\ f.sender \in Users OBVIOUS
      <3>2. FirstMessages \in Seq(First) BY BoundsTyped
      <3> HIDE DEF First
      <3>3. \A i \in 1..Len(FirstMessages) : FirstMessages[i] \in First BY <3>2
      <3> QED BY <3>1, <3>3
    <2>3. \A i \in 1..Len(FirstMessages) : first[i] \in Message
      <3>1. <<>> \in Seq(Names) OBVIOUS
      <3> QED BY <2>2, <3>1 DEF Message, Roles
    <2>4. \A i \in 1..Len(FirstMessages) :
            first[i].role = "owner" /\ first[i].member /\ ~first[i].empty
      OBVIOUS
    <2>5. first = [i \in 1..Len(FirstMessages) |-> first[i]] OBVIOUS
    <2> HIDE DEF first
    <2>6. first \in Seq(Message) /\ Len(first) = Len(FirstMessages) BY <2>1, <2>3, <2>5
    <2> QED BY <1>1, <2>1, <2>4, <2>6
  <1> HIDE DEF first
  <1>5. TypeOK
    <2>1. members \in [Users -> Roles] BY <1>1, MessagesAssumption
    <2>2. inChannel \in [Channels -> SUBSET Users] /\ changes \in [Users -> Nat] BY <1>1
    <2>3. req \in [Requests -> Request] BY <1>1, IdleTyped
    <2>4. begun \in 0..MaxBegun /\ refused \subseteq 1..MaxMessages /\ cut \subseteq 1..MaxMessages
      BY <1>1, BoundsTyped
    <2> QED BY <1>2, <1>4, <2>1, <2>2, <2>3, <2>4, BoundsTyped DEF TypeOK
  <1>6. RequestsOK
    <2>1. ASSUME NEW p \in Requests PROVE RequestOK(req[p])
      <3>1. req[p] = Idle BY <1>3
      <3>2. Idle.body.user \in Users BY NoBodyTyped DEF Idle, Input
      <3>3. changes[Idle.body.user] = 0 BY <1>1, <3>2
      <3> QED BY <3>1, <3>3, IdleTyped
          DEF RequestOK, ContentOK, StoredOK, TodoOK, FilesOK, AccessOK,
              Sending, Sent, Attaching, Notifying
    <2> QED BY <2>1 DEF RequestsOK
  <1>7. SendsApart BY <1>3, IdleTyped DEF SendsApart, Sent
  <1>8. /\ RowsOK /\ NotifiedForReason /\ ReadByUser /\ FileOfSender
    BY <1>2 DEF RowsOK, NotifiedForReason, ReadByUser, FileOfSender
  <1>9. PostingAllowed BY <1>4 DEF PostingAllowed
  <1>10. MentionsOK
    <2>1. \A m, u : Told(m, u) = {} BY <1>2 DEF Told
    <2>2. ASSUME NEW m \in 1..Len(messages), NEW u \in Users
          PROVE  Cardinality(Told(m, u)) <= Cardinality(Spellings(m, u))
      <3>1. messages[m].names \in Seq(Names) BY <1>5, MessagesTyped
      <3>2. IsFiniteSet(Spellings(m, u)) BY <3>1, SpellingsFinite DEF Spellings
      <3>3. Cardinality(Spellings(m, u)) \in Nat BY <3>2, FS_CardinalityType
      <3>4. Cardinality(Told(m, u)) = 0 BY <2>1, FS_EmptySet
      <3> QED BY <3>3, <3>4
    <2> QED BY <1>3, <2>1, <2>2, IdleTyped DEF MentionsOK, At, Notifying
  <1>11. AnnouncedOnce
    <2>1. \A m \in (Len(FirstMessages) + 1)..Len(messages) : FALSE BY <1>4
    <2> QED BY <1>3, <2>1, IdleTyped DEF AnnouncedOnce, At
  <1>12. ListedOK BY <1>2 DEF ListedOK
  <1>13. EmptyHasFile BY <1>4 DEF EmptyHasFile
  <1> QED BY <1>5, <1>6, <1>7, <1>8, <1>9, <1>10, <1>11, <1>12, <1>13 DEF MessagesInv

LEMMA NextInv ==
  ASSUME MessagesInv, [Next]_vars
  PROVE  MessagesInv'
  <1>1. ASSUME NEW p \in Requests, NEW i \in Inputs, Arrive(p, i) PROVE MessagesInv'
    BY <1>1, ArriveInv
  <1>2. ASSUME NEW p \in Requests, assertChannelAccess(p) \/ CanSend(p) \/ CheckQuota(p)
        PROVE  MessagesInv'
    BY <1>2, AccessInv, CanSendInv
  <1>3. ASSUME NEW p \in Requests, saveMessage(p) \/ PublishMessageNew(p) PROVE MessagesInv'
    BY <1>3, SaveInv, PublishNewInv
  <1>4. ASSUME NEW p \in Requests, notifyReply(p) \/ notifyMentions(p) \/ NotifyFails(p)
        PROVE  MessagesInv'
    BY <1>4, NotifyReplyInv, NotifyMentionsInv, NotifyFailsInv
  <1>5. ASSUME NEW p \in Requests, CheckMessage(p) \/ CheckFile(p) \/ createAttachment(p)
        PROVE  MessagesInv'
    BY <1>5, CheckMessageInv, CheckFileInv, CreateAttachmentInv
  <1>6. ASSUME NEW p \in Requests, PublishMessageUpdated(p) \/ Fail(p) PROVE MessagesInv'
    BY <1>6, PublishUpdatedInv, FailInv
  <1>7. ASSUME NEW i \in Inputs, MarkRead(i) PROVE MessagesInv'
    BY <1>7, MarkReadInv
  <1>8. ASSUME NEW u \in Users, NEW role \in {"none", "member"}, SetRole(u, role)
        PROVE  MessagesInv'
    BY <1>8, SetRoleInv
  <1>9. ASSUME NEW u \in Users, NEW c \in Channels, LeaveChannel(u, c) PROVE MessagesInv'
    BY <1>9, LeaveChannelInv
  <1>10. ASSUME UNCHANGED vars PROVE MessagesInv'
    <2>1. /\ UNCHANGED <<members, inChannel, changes, messages, notifications>>
          /\ UNCHANGED <<attachments, events, req, begun, refused, cut>>
      BY <1>10 DEF vars, access, observed
    <2>2. TypeOK' BY <2>1 DEF MessagesInv, TypeOK
    <2>3. RequestsOK'
      <3>1. \A k, m : Attached(k, m)' <=> Attached(k, m) BY <2>1 DEF Attached
      <3> QED BY <2>1, <3>1, RequestsSame DEF MessagesInv
    <2>4. SendsApart' /\ PostingAllowed' /\ FileOfSender' /\ RowsOK'
      BY <2>1 DEF MessagesInv, SendsApart, PostingAllowed, FileOfSender, RowsOK
    <2>5. NotifiedForReason' /\ ReadByUser'
      BY <2>1 DEF MessagesInv, NotifiedForReason, ReadByUser
    <2>6. MentionsOK'
      <3>1. \A m, v : Told(m, v)' = Told(m, v) BY <2>1 DEF Told
      <3> QED BY <2>1, <3>1, MentionsSame DEF MessagesInv
    <2>7. AnnouncedOnce' BY <2>1 DEF MessagesInv, AnnouncedOnce, News, At
    <2>8. ListedOK' BY <2>1 DEF MessagesInv, ListedOK, Attached
    <2>9. EmptyHasFile' BY <2>1 DEF MessagesInv, EmptyHasFile, InFlight, At
    <2> QED BY <2>2, <2>3, <2>4, <2>5, <2>6, <2>7, <2>8, <2>9 DEF MessagesInv
  <1>11. CASE Next
    <2>1. \/ \E p \in Requests :
               \/ \E i \in Inputs : Arrive(p, i)
               \/ assertChannelAccess(p) \/ CanSend(p) \/ CheckQuota(p) \/ saveMessage(p)
               \/ PublishMessageNew(p) \/ notifyReply(p) \/ notifyMentions(p) \/ NotifyFails(p)
               \/ CheckMessage(p) \/ CheckFile(p) \/ createAttachment(p)
               \/ PublishMessageUpdated(p) \/ Fail(p)
          \/ \E i \in Inputs : MarkRead(i)
          \/ \E u \in Users : \/ \E role \in {"none", "member"} : SetRole(u, role)
                              \/ \E c \in Channels : LeaveChannel(u, c)
      BY <1>11 DEF Next
    <2>2. ASSUME NEW p \in Requests,
                 \/ \E i \in Inputs : Arrive(p, i)
                 \/ assertChannelAccess(p) \/ CanSend(p) \/ CheckQuota(p) \/ saveMessage(p)
                 \/ PublishMessageNew(p) \/ notifyReply(p) \/ notifyMentions(p) \/ NotifyFails(p)
                 \/ CheckMessage(p) \/ CheckFile(p) \/ createAttachment(p)
                 \/ PublishMessageUpdated(p) \/ Fail(p)
          PROVE  MessagesInv'
      BY <1>1, <1>2, <1>3, <1>4, <1>5, <1>6, <2>2
    <2> QED BY <1>7, <1>8, <1>9, <2>1, <2>2
  <1> QED BY <1>10, <1>11

LEMMA Invariance == Spec => []MessagesInv
  <1>1. Init => MessagesInv BY InitInv
  <1>2. MessagesInv /\ [Next]_vars => MessagesInv' BY NextInv
  <1> QED BY <1>1, <1>2, PTL DEF Spec

\* Every table row, request and bound is of its type.
THEOREM TypeCorrect == Spec => []TypeOK
  <1>1. MessagesInv => TypeOK BY DEF MessagesInv
  <1> QED BY <1>1, Invariance, PTL

\* SendMessage stores a message only for a member who may post in the channel,
\* unless a change of the sender's membership overlapped it.
THEOREM PostingCorrect == Spec => []PostingAllowed
  <1>1. MessagesInv => PostingAllowed BY DEF MessagesInv
  <1> QED BY <1>1, Invariance, PTL

\* NotifyMessage notifies for a reason in the message, of each spelling of a name
\* at most once, and only the one who was notified marks it as read.
THEOREM NotificationsCorrect == Spec => []NotificationsRight
  <1>1. MessagesInv => NotificationsRight
    <2>1. ASSUME MentionsOK PROVE MentionedOncePerSpelling
      BY <2>1 DEF MentionsOK, MentionedOncePerSpelling, Told, Spellings, SpellingsOf
    <2> QED BY <2>1 DEF MessagesInv, NotificationsRight
  <1> QED BY <1>1, Invariance, PTL

\* A file is of one message and both of the one who put it; message.new tells each
\* message once, message.updated what was stored; a message without text has a file.
THEOREM StoredCorrect == Spec => []StoredAsTold
  <1>1. MessagesInv => StoredAsTold
    <2>1. ASSUME MessagesInv PROVE UpdatedAsStored
      <3>1. ASSUME NEW m, NEW p \in Requests, NEW k \in req[p].done, req[p].id = m
            PROVE  InFlight(m)
        <4>1. req[p].pc \in Attaching
          BY <2>1, <3>1 DEF MessagesInv, RequestsOK, RequestOK, FilesOK
        <4> QED BY <3>1, <4>1 DEF InFlight, At, Attaching
      <3>2. \A e \in 1..Len(events) : \A k \in events[e].files :
              \E a \in 1..Len(attachments) :
                attachments[a].key = k /\ attachments[a].message = events[e].message
        BY <2>1 DEF MessagesInv, ListedOK, Attached
      <3>3. ASSUME NEW a \in 1..Len(attachments)
            PROVE  LET m == attachments[a].message
                   IN \/ InFlight(m) \/ m \in refused \cup cut
                      \/ \E e \in 1..Len(events) :
                           events[e].message = m /\ attachments[a].key \in events[e].files
        BY <2>1, <3>1 DEF MessagesInv, ListedOK
      <3> QED BY <3>2, <3>3 DEF UpdatedAsStored
    <2>2. ASSUME AnnouncedOnce PROVE BroadcastOnce
      BY <2>2 DEF AnnouncedOnce, BroadcastOnce, News
    <2> QED BY <2>1, <2>2 DEF MessagesInv, StoredAsTold
  <1> QED BY <1>1, Invariance, PTL

=============================================================================
