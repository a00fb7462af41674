----------------------------- MODULE CallsProofs -----------------------------
(***************************************************************************)
(* Proofs about Calls, for any number of users, channels, requests in      *)
(* flight, calls and rows, and any limits.                                 *)
(*                                                                         *)
(* A step of the service replaces the record of one request and, if it is  *)
(* a statement that writes, the row of one call.  The lemmas of the first  *)
(* part say which records and rows may be written for CallsInv to hold     *)
(* afterwards; the lemmas of the second part show it of each statement.    *)
(* The last part is about requests that are served one at a time.          *)
(***************************************************************************)
EXTENDS Calls, FiniteSetTheorems, TLAPS

USE CallsAssumption

-----------------------------------------------------------------------------
(* One record and one row.                                                 *)

\* A step of request p that leaves its record r, and the row of call k as c.
Writes(p, r, k, c) ==
  /\ req' = [req EXCEPT ![p] = r]
  /\ calls' = [calls EXCEPT ![k] = c]

\* A record that a request may be left with, when call k is not free.
RequestOK(r, k) ==
  /\ r \in Request
  /\ r.pc # "idle" => r.user \in Users
  /\ r.pc \in Initiating => r.channel \in Channels
  /\ r.pc \in WithCall =>
       r.call \in CallIds /\ (r.call = k \/ calls[r.call].status # "free")
  /\ r.pc = "joinActivate" => /\ calls[r.call].status # "free"
                              /\ Cardinality(calls[r.call].joined) >= 2

\* A row that may replace the one of call k: no user is forgotten.
Successor(k, c) ==
  /\ c \in Call
  /\ c.status # "free"
  /\ RowOK(c)
  /\ calls[k].status # "free" => calls[k].joined \subseteq c.joined

\* How a write of request p changes who takes part in call k or is about to.
Growth(p, r, k, c) ==
  \/ /\ c.active \subseteq calls[k].active
     /\ r.pc \notin AddingPoints
  \/ /\ \E u \in Users : c.active = calls[k].active \cup {u}
     /\ p \in Adding(k)
     /\ r.pc \notin AddingPoints
  \/ /\ r.call = k
     /\ ceiling > 0 => Cardinality(c.active) < ceiling

LEMMA TypeInit == Init => TypeOK /\ Refs
  BY DEF Init, TypeOK, Refs, Idle, Free, Call, Request, Points, CallIds, At,
         Initiating, WithCall

LEMMA TypeWrite ==
  ASSUME TypeOK, Refs, NEW p \in Requests, NEW r, NEW k \in CallIds, NEW c,
         Successor(k, c), RequestOK(r, k), Writes(p, r, k, c)
  PROVE  TypeOK' /\ Refs'
  BY DEF TypeOK, Refs, Writes, RequestOK, Successor, At

\* Sets of users are finite, and their cardinality grows with them.
LEMMA UserSets ==
  ASSUME NEW S \in SUBSET Users, NEW T \in SUBSET Users, S \subseteq T
  PROVE  /\ IsFiniteSet(T)
         /\ Cardinality(S) \in Nat /\ Cardinality(T) \in Nat
         /\ Cardinality(S) <= Cardinality(T)
  BY FS_Subset, FS_CardinalityType

LEMMA RowsWrite ==
  ASSUME TypeOK, Refs, Rows, NEW p \in Requests, NEW r, NEW k \in CallIds, NEW c,
         Successor(k, c), RequestOK(r, k), Writes(p, r, k, c)
  PROVE  Rows'
  <1>1. \A l \in CallIds : calls'[l] = IF l = k THEN c ELSE calls[l]
    BY DEF Writes, TypeOK
  <1>2. \A l \in CallIds : RowOK(calls'[l])
    BY <1>1 DEF Rows, Successor
  <1>3. ASSUME NEW q \in Requests, req'[q].pc = "joinActivate"
        PROVE  Cardinality(calls'[req'[q].call].joined) >= 2
    <2> DEFINE l == req'[q].call
    <2>1. /\ l \in CallIds /\ calls[l].status # "free"
          /\ Cardinality(calls[l].joined) >= 2
      <3>1. CASE q = p
        BY <1>3, <3>1 DEF Writes, RequestOK, WithCall, Points, TypeOK
      <3>2. CASE q # p
        BY <1>3, <3>2 DEF Writes, Rows, Refs, At, WithCall, Points, TypeOK
      <3> QED BY <3>1, <3>2
    <2>2. CASE l = k
      <3>1. calls[k].joined \subseteq c.joined /\ calls'[l] = c
        BY <1>1, <2>1, <2>2 DEF Successor
      <3>2. calls[k].joined \in SUBSET Users /\ c.joined \in SUBSET Users
        BY DEF TypeOK, Successor, Call
      <3>3. /\ Cardinality(calls[k].joined) \in Nat /\ Cardinality(c.joined) \in Nat
            /\ Cardinality(calls[k].joined) <= Cardinality(c.joined)
        BY <3>1, <3>2, UserSets
      <3> QED BY <2>1, <2>2, <3>1, <3>3
    <2>3. CASE l # k
      BY <1>1, <2>1, <2>3
    <2> QED BY <2>2, <2>3
  <1> QED BY <1>2, <1>3 DEF Rows, RowOK, At

\* Sets of requests are finite, and bounded by all of them.
LEMMA RequestSets ==
  ASSUME NEW S \in SUBSET Requests, NEW T \in SUBSET Requests, S \subseteq T
  PROVE  /\ IsFiniteSet(T)
         /\ Cardinality(S) \in Nat /\ Cardinality(T) \in Nat
         /\ Cardinality(Requests) \in Nat
         /\ Cardinality(S) <= Cardinality(T)
         /\ Cardinality(T) <= Cardinality(Requests)
  BY FS_Subset, FS_CardinalityType

LEMMA CeilingType == ceiling \in Nat
  BY DEF ceiling, participantLimit

\* Whether the plan is known or not, the limit in force is at most the ceiling.
LEMMA CeilingHolds ==
  ASSUME NEW known \in LookupOutcomes, ceiling > 0
  PROVE  0 < participantLimit(known) /\ participantLimit(known) <= ceiling
  <1>1. CASE Failures
    <2>1. ceiling = maxParticipants
      BY <1>1 DEF ceiling, participantLimit
    <2>2. participantLimit(known) = maxParticipants
          \/ /\ planLimit > 0 /\ (maxParticipants = 0 \/ planLimit < maxParticipants)
             /\ participantLimit(known) = planLimit
      BY DEF participantLimit
    <2> QED BY <2>1, <2>2
  <1>2. CASE ~Failures
    <2>1. known = TRUE
      BY <1>2 DEF LookupOutcomes
    <2>2. participantLimit(known) = ceiling
      BY <1>2, <2>1 DEF ceiling, participantLimit
    <2> QED BY <2>2, CeilingType
  <1> QED BY <1>1, <1>2

\* A write that does not let a call grow, gives a place to a pending request
\* or admits one more under the ceiling keeps the bound.
LEMMA CapacityWrite ==
  ASSUME TypeOK, Capacity, NEW p \in Requests, NEW r, NEW k \in CallIds, NEW c,
         Successor(k, c), Growth(p, r, k, c), Writes(p, r, k, c)
  PROVE  Capacity'
  <1> SUFFICES ASSUME ceiling > 0, NEW l \in CallIds
               PROVE  Cardinality(calls'[l].active) + Cardinality(Adding(l)') + 1
                        <= ceiling + Cardinality(Requests)
    BY DEF Capacity, ceiling
  <1> DEFINE A == calls[l].active
             B == calls'[l].active
             M == Adding(l)
             N == Adding(l)'
  <1>1. Cardinality(A) + Cardinality(M) + 1 <= ceiling + Cardinality(Requests)
    BY DEF Capacity
  <1>2. A \in SUBSET Users /\ B \in SUBSET Users
    BY DEF TypeOK, Writes, Successor, Call
  <1>3. M \in SUBSET Requests /\ N \in SUBSET Requests
    BY DEF Adding
  <1>4. /\ Cardinality(A) \in Nat /\ Cardinality(B) \in Nat /\ IsFiniteSet(A)
        /\ Cardinality(M) \in Nat /\ Cardinality(N) \in Nat /\ IsFiniteSet(M)
        /\ Cardinality(N) <= Cardinality(Requests)
        /\ Cardinality(Requests) \in Nat /\ ceiling \in Nat
    BY <1>2, <1>3, UserSets, RequestSets, CeilingType
  <1>5. CASE B \subseteq A /\ N \subseteq M
    BY <1>1, <1>2, <1>3, <1>4, <1>5, UserSets, RequestSets
  <1>6. l # k => B = A
    BY DEF Writes, TypeOK
  <1>7. l = k => B = c.active
    BY DEF Writes, TypeOK
  <1>8. r.pc \notin AddingPoints \/ r.call # l => N \subseteq M \ {p}
    BY DEF Adding, Writes, TypeOK
  <1>9. CASE l = k /\ p \in M /\ N \subseteq M \ {p} /\ \E u \in Users : B = A \cup {u}
    <2>1. PICK u \in Users : B = A \cup {u}
      BY <1>9
    <2>2. Cardinality(B) <= Cardinality(A) + 1
      <3>1. Cardinality(A \cup {u}) = IF u \in A THEN Cardinality(A) ELSE Cardinality(A) + 1
        BY <1>4, FS_AddElement
      <3> HIDE DEF A, B
      <3> QED BY <1>4, <2>1, <3>1
    <2>3. Cardinality(M \ {p}) = Cardinality(M) - 1
      BY <1>4, <1>9, FS_RemoveElement
    <2>4. Cardinality(N) <= Cardinality(M \ {p})
      BY <1>3, <1>9, RequestSets
    <2> QED BY <1>1, <1>4, <2>2, <2>3, <2>4
  <1>10. CASE l = k /\ ceiling > 0 /\ Cardinality(c.active) < ceiling
    BY <1>4, <1>7, <1>10
  <1>11. CASE l # k
    <2>1. r.pc \notin AddingPoints \/ r.call # l
      BY <1>11 DEF Growth
    <2> QED BY <1>5, <1>6, <1>8, <1>11, <2>1
  <1> QED BY <1>5, <1>7, <1>8, <1>9, <1>10, <1>11 DEF Growth

\* A write of a good record and a good row keeps the invariant.
LEMMA WriteInv ==
  ASSUME CallsInv, NEW p \in Requests, NEW r, NEW k \in CallIds, NEW c,
         Successor(k, c), RequestOK(r, k), Growth(p, r, k, c), Writes(p, r, k, c)
  PROVE  CallsInv'
  BY TypeWrite, RowsWrite, CapacityWrite DEF CallsInv

\* So does a step that touches no table.
LEMMA ReadInv ==
  ASSUME CallsInv, NEW p \in Requests, NEW r, RequestOK(r, 0),
         r.pc \notin AddingPoints, req' = [req EXCEPT ![p] = r], UNCHANGED calls
  PROVE  CallsInv'
  <1>1. TypeOK' /\ Refs'
    BY DEF CallsInv, TypeOK, Refs, RequestOK, At, CallIds
  <1>2. Rows'
    BY DEF CallsInv, TypeOK, Rows, RowOK, RequestOK, At
  <1>3. Capacity'
    <2> SUFFICES ASSUME ceiling > 0, NEW l \in CallIds
                 PROVE  Cardinality(calls[l].active) + Cardinality(Adding(l)') + 1
                          <= ceiling + Cardinality(Requests)
      BY DEF Capacity, ceiling
    <2>1. Adding(l)' \subseteq Adding(l) /\ Adding(l) \in SUBSET Requests
      BY DEF Adding, CallsInv, TypeOK
    <2>2. calls[l].active \in SUBSET Users
      BY DEF CallsInv, TypeOK, Call
    <2>3. Cardinality(calls[l].active) + Cardinality(Adding(l)) + 1
            <= ceiling + Cardinality(Requests)
      BY DEF CallsInv, Capacity
    <2>4. /\ Cardinality(Adding(l)') \in Nat /\ Cardinality(Adding(l)) \in Nat
          /\ Cardinality(Requests) \in Nat
          /\ Cardinality(Adding(l)') <= Cardinality(Adding(l))
      BY <2>1, RequestSets
    <2>5. Cardinality(calls[l].active) \in Nat /\ ceiling \in Nat
      BY <2>2, UserSets, CeilingType
    <2> QED BY <2>3, <2>4, <2>5
  <1> QED BY <1>1, <1>2, <1>3 DEF CallsInv

-----------------------------------------------------------------------------
(* The forms in which the statements replace them.                         *)

LEMMA IdleOK == ASSUME NEW k PROVE RequestOK(Idle, k) /\ Idle.pc \notin AddingPoints
  BY DEF RequestOK, Idle, Request, Points, Initiating, WithCall, AddingPoints

\* A request ends without a write.
LEMMA Stop ==
  ASSUME CallsInv, NEW p \in Requests, Return(p), UNCHANGED calls
  PROVE  CallsInv'
  BY IdleOK, ReadInv DEF Return

\* The record of request p at another point.
LEMMA GotoOK ==
  ASSUME CallsInv, NEW p \in Requests, NEW k, NEW pc \in Points \ {"joinActivate"},
         ~At(p, "idle"),
         pc \in Initiating => req[p].pc \in Initiating,
         pc \in WithCall => req[p].pc \in WithCall
  PROVE  /\ RequestOK([req[p] EXCEPT !.pc = pc], k)
         /\ [req[p] EXCEPT !.pc = pc].pc = pc
         /\ [req[p] EXCEPT !.pc = pc].call = req[p].call
         /\ Goto(p, pc) => req' = [req EXCEPT ![p] = [req[p] EXCEPT !.pc = pc]]
  BY DEF RequestOK, Goto, CallsInv, TypeOK, Refs, Request, At

\* A request goes on without a write.
LEMMA Advance ==
  ASSUME CallsInv, NEW p \in Requests, ~At(p, "idle"),
         NEW pc \in Points \ ({"joinActivate"} \cup AddingPoints),
         pc \in Initiating => req[p].pc \in Initiating,
         pc \in WithCall => req[p].pc \in WithCall,
         Goto(p, pc), UNCHANGED calls
  PROVE  CallsInv'
  <1>1. RequestOK([req[p] EXCEPT !.pc = pc], 0)
    BY GotoOK
  <1>2. [req[p] EXCEPT !.pc = pc].pc \notin AddingPoints
    BY GotoOK
  <1>3. req' = [req EXCEPT ![p] = [req[p] EXCEPT !.pc = pc]]
    BY GotoOK
  <1> QED BY <1>1, <1>2, <1>3, ReadInv

\* A request that has a call refers to a row that is not free.
LEMMA HasCall ==
  ASSUME CallsInv, NEW p \in Requests, req[p].pc \in WithCall
  PROVE  /\ req[p].call \in CallIds /\ req[p].user \in Users
         /\ calls[req[p].call] \in Call /\ calls[req[p].call].status # "free"
         /\ RowOK(calls[req[p].call])
         /\ req[p] \in Request /\ ~At(p, "idle")
  BY DEF CallsInv, TypeOK, Refs, Rows, At, WithCall

\* A request writes the row of its call, where nobody is added, and goes on
\* or ends.
LEMMA AdvanceRow ==
  ASSUME CallsInv, NEW p \in Requests, req[p].pc \in WithCall, NEW c,
         NEW pc \in Points \ ({"joinActivate"} \cup AddingPoints),
         pc \in Initiating => req[p].pc \in Initiating,
         Successor(req[p].call, c), c.active \subseteq calls[req[p].call].active,
         calls' = [calls EXCEPT ![req[p].call] = c],
         Goto(p, pc) \/ Return(p)
  PROVE  CallsInv'
  <1> DEFINE k == req[p].call
             r == [req[p] EXCEPT !.pc = pc]
  <1>1. k \in CallIds /\ ~At(p, "idle")
    BY HasCall
  <1>2. CASE Goto(p, pc)
    <2>1. RequestOK(r, k) /\ r.pc = pc /\ req' = [req EXCEPT ![p] = r]
      BY <1>1, <1>2, GotoOK
    <2>2. Growth(p, r, k, c) /\ Writes(p, r, k, c)
      BY <2>1 DEF Growth, Writes
    <2> QED BY <1>1, <2>1, <2>2, WriteInv
  <1>3. CASE Return(p)
    <2>1. RequestOK(Idle, k) /\ Growth(p, Idle, k, c) /\ Writes(p, Idle, k, c)
      BY <1>3, IdleOK DEF Growth, Writes, Return
    <2> QED BY <1>1, <2>1, WriteInv
  <1> QED BY <1>2, <1>3

\* The row that AddCallParticipant leaves.
Joined(d, u) ==
  [d EXCEPT !.active = @ \cup {u}, !.joined = @ \cup {u}, !.rows = @ + 1]

LEMMA RowAdd ==
  ASSUME NEW d \in Call, NEW u \in Users
  PROVE  /\ Joined(d, u) \in Call
         /\ Joined(d, u).status = d.status
         /\ Joined(d, u).active = d.active \cup {u}
         /\ Joined(d, u).joined = d.joined \cup {u}
         /\ Joined(d, u).rows = d.rows + 1
         /\ Joined(d, u).charges = d.charges
         /\ Joined(d, u).mode = d.mode
         /\ Joined(d, u).recording = d.recording
  <1>1. /\ d.active \cup {u} \in SUBSET Users /\ d.joined \cup {u} \in SUBSET Users
        /\ d.rows + 1 \in Nat
    BY DEF Call
  <1>2. Joined(d, u) \in Call
    BY <1>1 DEF Call, Joined
  <1> QED BY <1>2 DEF Call, Joined

\* A request that was about to adds user u to its call, and goes on or ends.
LEMMA AddRow ==
  ASSUME CallsInv, NEW p \in Requests, req[p].pc \in AddingPoints,
         AddCallParticipant(req[p].call, req[p].user),
         Goto(p, "joinRecount") \/ Return(p)
  PROVE  CallsInv'
  <1> DEFINE k == req[p].call
             u == req[p].user
             c == Joined(calls[k], u)
             r == [req[p] EXCEPT !.pc = "joinRecount"]
  <1>1. /\ k \in CallIds /\ u \in Users /\ ~At(p, "idle") /\ req[p].pc \in WithCall
        /\ calls[k] \in Call /\ calls[k].status # "free" /\ RowOK(calls[k])
    BY HasCall DEF AddingPoints, WithCall, Points
  <1>2. calls' = [calls EXCEPT ![k] = c]
    BY <1>1 DEF AddCallParticipant, Joined, CallsInv, TypeOK, Call
  <1>3. /\ c \in Call
        /\ c.status = calls[k].status
        /\ c.active = calls[k].active \cup {u} /\ c.joined = calls[k].joined \cup {u}
        /\ c.rows = calls[k].rows + 1 /\ c.charges = calls[k].charges
        /\ c.mode = calls[k].mode /\ c.recording = calls[k].recording
    BY <1>1, RowAdd
  <1>4. Cardinality(c.joined) >= Cardinality(calls[k].joined)
        /\ Cardinality(c.joined) \in Nat /\ Cardinality(calls[k].joined) \in Nat
    <2>1. calls[k].joined \in SUBSET Users /\ c.joined \in SUBSET Users
      BY <1>1, <1>3 DEF Call
    <2> QED BY <1>3, <2>1, UserSets
  <1>5. RowOK(c)
    <2>1. calls[k].rows \in Nat
      BY <1>1 DEF Call
    <2> HIDE DEF c
    <2>2. c.active \subseteq c.joined /\ \A m, n \in c.recording : m = n
      BY <1>1, <1>3 DEF RowOK
    <2>3. c.status = "active" => Cardinality(c.joined) >= 2
      BY <1>1, <1>3, <1>4 DEF RowOK
    <2>4. c.charges > 0 => c.mode = "video" /\ c.rows >= 2
      BY <1>1, <1>3, <2>1 DEF RowOK
    <2> QED BY <2>2, <2>3, <2>4 DEF RowOK
  <1> HIDE DEF c
  <1>6. Successor(k, c)
    BY <1>1, <1>3, <1>5 DEF Successor
  <1>7. p \in Adding(k)
    BY DEF Adding
  <1>8. CASE Goto(p, "joinRecount")
    <2>1. RequestOK(r, k) /\ r.pc = "joinRecount" /\ req' = [req EXCEPT ![p] = r]
      BY <1>1, <1>8, GotoOK DEF Points, Initiating
    <2>2. Growth(p, r, k, c) /\ Writes(p, r, k, c)
      BY <1>1, <1>2, <1>3, <1>7, <2>1 DEF Growth, Writes, AddingPoints
    <2> QED BY <1>1, <1>6, <2>1, <2>2, WriteInv
  <1>9. CASE Return(p)
    <2>1. RequestOK(Idle, k) /\ Growth(p, Idle, k, c) /\ Writes(p, Idle, k, c)
      BY <1>1, <1>2, <1>3, <1>7, <1>9, IdleOK DEF Growth, Writes, Return
    <2> QED BY <1>1, <1>6, <2>1, WriteInv
  <1> QED BY <1>8, <1>9

\* The rows that the other statements leave.
Left(d, u) == [d EXCEPT !.active = @ \ {u}]
WithStatus(d, status) == [d EXCEPT !.status = status]
Charged(d) == [d EXCEPT !.charges = @ + 1]
Recorded(d) == [d EXCEPT !.started = @ + 1, !.recording = @ \cup {d.started + 1}]
Stopped(d, n) == [d EXCEPT !.recording = @ \ {n}]

\* Nobody is added, nobody forgotten, and the row is as RowOK says.
Follows(d, c) ==
  /\ c \in Call
  /\ c.status # "free"
  /\ RowOK(c)
  /\ c.joined = d.joined
  /\ c.active \subseteq d.active

LEMMA RowLeft ==
  ASSUME NEW d \in Call, d.status # "free", RowOK(d), NEW u
  PROVE  Follows(d, Left(d, u))
  <1> DEFINE c == Left(d, u)
  <1>1. c \in Call BY DEF Call, Left
  <1>2. /\ c.status = d.status /\ c.joined = d.joined /\ c.active = d.active \ {u}
        /\ c.charges = d.charges /\ c.mode = d.mode /\ c.rows = d.rows
        /\ c.recording = d.recording
    BY DEF Call, Left
  <1> QED BY <1>1, <1>2 DEF Follows, RowOK

LEMMA RowStatus ==
  ASSUME NEW d \in Call, d.status # "free", RowOK(d), NEW st \in {"active", "ended"},
         st = "active" => Cardinality(d.joined) >= 2
  PROVE  Follows(d, WithStatus(d, st))
  <1> DEFINE c == WithStatus(d, st)
  <1>1. c \in Call BY DEF Call, WithStatus
  <1>2. /\ c.status = st /\ c.joined = d.joined /\ c.active = d.active
        /\ c.charges = d.charges /\ c.mode = d.mode /\ c.rows = d.rows
        /\ c.recording = d.recording
    BY DEF Call, WithStatus
  <1> QED BY <1>1, <1>2 DEF Follows, RowOK

LEMMA RowCharged ==
  ASSUME NEW d \in Call, d.status # "free", RowOK(d), d.mode = "video", d.rows >= 2
  PROVE  Follows(d, Charged(d))
  <1> DEFINE c == Charged(d)
  <1>1. d.charges + 1 \in Nat BY DEF Call
  <1>2. c \in Call BY <1>1 DEF Call, Charged
  <1>3. /\ c.status = d.status /\ c.joined = d.joined /\ c.active = d.active
        /\ c.mode = d.mode /\ c.rows = d.rows /\ c.recording = d.recording
    BY DEF Call, Charged
  <1> QED BY <1>2, <1>3 DEF Follows, RowOK

LEMMA RowRecorded ==
  ASSUME NEW d \in Call, d.status # "free", RowOK(d), d.recording = {}
  PROVE  Follows(d, Recorded(d))
  <1> DEFINE c == Recorded(d)
  <1>1. d.started + 1 \in Nat /\ d.recording \cup {d.started + 1} \in SUBSET Nat
    BY DEF Call
  <1>2. c \in Call BY <1>1 DEF Call, Recorded
  <1>3. /\ c.status = d.status /\ c.joined = d.joined /\ c.active = d.active
        /\ c.charges = d.charges /\ c.mode = d.mode /\ c.rows = d.rows
        /\ c.recording = {d.started + 1}
    BY DEF Call, Recorded
  <1> QED BY <1>2, <1>3 DEF Follows, RowOK

LEMMA RowStopped ==
  ASSUME NEW d \in Call, d.status # "free", RowOK(d), NEW n
  PROVE  Follows(d, Stopped(d, n))
  <1> DEFINE c == Stopped(d, n)
  <1>1. c \in Call BY DEF Call, Stopped
  <1>2. /\ c.status = d.status /\ c.joined = d.joined /\ c.active = d.active
        /\ c.charges = d.charges /\ c.mode = d.mode /\ c.rows = d.rows
        /\ c.recording = d.recording \ {n}
    BY DEF Call, Stopped
  <1> QED BY <1>1, <1>2 DEF Follows, RowOK

\* A request writes such a row to its call, and goes on or ends.
LEMMA FollowRow ==
  ASSUME CallsInv, NEW p \in Requests, req[p].pc \in WithCall, NEW c,
         NEW pc \in Points \ ({"joinActivate"} \cup AddingPoints),
         pc \in Initiating => req[p].pc \in Initiating,
         Follows(calls[req[p].call], c),
         calls' = [calls EXCEPT ![req[p].call] = c],
         Goto(p, pc) \/ Return(p)
  PROVE  CallsInv'
  <1>1. Successor(req[p].call, c) /\ c.active \subseteq calls[req[p].call].active
    BY DEF Successor, Follows
  <1> QED BY <1>1, AdvanceRow

\* meterVideoCall, at its two places.
LEMMA MeterInv ==
  ASSUME CallsInv, NEW p \in Requests, req[p].pc \in WithCall,
         NEW pc \in Points \ ({"joinActivate"} \cup AddingPoints \cup WithCall),
         pc \in Initiating => req[p].pc \in Initiating,
         Meter(req[p].call), Goto(p, pc) \/ Return(p)
  PROVE  CallsInv'
  <1> DEFINE k == req[p].call
  <1>1. /\ k \in CallIds /\ calls[k] \in Call /\ calls[k].status # "free"
        /\ RowOK(calls[k]) /\ ~At(p, "idle")
    BY HasCall
  <1>2. CASE Billable(k) /\ calls' = [calls EXCEPT ![k].charges = @ + 1]
    <2>1. Follows(calls[k], Charged(calls[k]))
      BY <1>1, <1>2, RowCharged DEF Billable
    <2>2. calls' = [calls EXCEPT ![k] = Charged(calls[k])]
      BY <1>1, <1>2 DEF Charged, CallsInv, TypeOK
    <2> QED BY <2>1, <2>2, FollowRow
  <1>3. CASE UNCHANGED calls /\ Goto(p, pc)
    BY <1>1, <1>3, Advance
  <1>4. CASE UNCHANGED calls /\ Return(p)
    BY <1>4, Stop
  <1> QED BY <1>2, <1>3, <1>4 DEF Meter

-----------------------------------------------------------------------------
(* The statements of each operation.                                       *)

\* A request begins: any good record without a call, or with a live one.
LEMMA Begin ==
  ASSUME CallsInv, NEW p \in Requests, NEW r \in Request, r.user \in Users,
         \/ r.pc = "findActive" /\ r.channel \in Channels
         \/ /\ r.pc \in {"joinLookup", "leaveLookup", "startLookup", "stopLookup"}
            /\ r.call \in CallIds /\ Live(r.call),
         req' = [req EXCEPT ![p] = r], UNCHANGED calls
  PROVE  CallsInv'
  <1>1. RequestOK(r, 0) /\ r.pc \notin AddingPoints
    BY DEF RequestOK, Initiating, WithCall, Points, AddingPoints, Live
  <1> QED BY <1>1, ReadInv

LEMMA InitiateInv ==
  ASSUME CallsInv, NEW p \in Requests, InitiateStep(p)
  PROVE  CallsInv'
  <1>1. ASSUME NEW u \in Users, NEW ch \in Channels, NEW m \in Modes,
               Initiate(p, u, ch, m)
        PROVE  CallsInv'
    <2> DEFINE r == [Idle EXCEPT !.pc = "findActive", !.user = u, !.channel = ch,
                                 !.mode = m]
    <2>1. m \in {"voice", "video"} /\ 0 \in 0..MaxCalls
      OBVIOUS
    <2>2. /\ r \in Request /\ r.user = u /\ r.pc = "findActive" /\ r.channel = ch
      BY <2>1 DEF Idle, Request, Points
    <2>3. req' = [req EXCEPT ![p] = r] /\ UNCHANGED calls
      BY <1>1 DEF Initiate
    <2> HIDE DEF r
    <2> QED BY <2>2, <2>3, Begin
  <1>2. CASE FindActive(p)
    <2>1. CASE Goto(p, "create")
      BY <1>2, <2>1, Advance DEF FindActive, At, Points, Initiating, WithCall,
                                 AddingPoints
    <2>2. ASSUME NEW k \in LiveIn(req[p].channel),
                 req' = [req EXCEPT ![p].pc = "listSolo", ![p].call = k]
          PROVE  CallsInv'
      <3> DEFINE r == [req[p] EXCEPT !.pc = "listSolo", !.call = k]
      <3>1. k \in CallIds /\ k \in 0..MaxCalls /\ calls[k].status # "free"
        BY DEF LiveIn, Live, CallIds
      <3>2. req[p] \in Request /\ req[p].user \in Users /\ req[p].channel \in Channels
        BY <1>2 DEF FindActive, CallsInv, TypeOK, Refs, At, Initiating
      <3>3. /\ r \in Request /\ r.pc = "listSolo" /\ r.call = k
            /\ r.user = req[p].user /\ r.channel = req[p].channel
        BY <3>1, <3>2 DEF Request, Points
      <3>4. req' = [req EXCEPT ![p] = r] /\ UNCHANGED calls
        BY <1>2, <2>2 DEF FindActive, CallsInv, TypeOK
      <3> HIDE DEF r
      <3>5. RequestOK(r, 0) /\ r.pc \notin AddingPoints
        BY <3>1, <3>2, <3>3 DEF RequestOK, AddingPoints
      <3> QED BY <3>4, <3>5, ReadInv
    <2> QED BY <1>2, <2>1, <2>2 DEF FindActive
  <1>3. CASE ListSolo(p)
    <2>1. CASE Goto(p, "markSolo")
      BY <1>3, <2>1, Advance DEF ListSolo, At, Points, Initiating, WithCall,
                                 AddingPoints
    <2>2. CASE Return(p)
      BY <1>3, <2>2, Stop DEF ListSolo
    <2> QED BY <1>3, <2>1, <2>2 DEF ListSolo
  <1>4. CASE MarkSolo(p)
    <2> DEFINE k == req[p].call
    <2>1. req[p].pc \in WithCall /\ req[p].pc \in Initiating
      BY <1>4 DEF MarkSolo, At, WithCall, Points, Initiating
    <2>2. Follows(calls[k], Left(calls[k], req[p].user))
      BY <2>1, HasCall, RowLeft
    <2>3. calls' = [calls EXCEPT ![k] = Left(calls[k], req[p].user)]
      BY <1>4, <2>1, HasCall DEF MarkSolo, MarkCallParticipantLeft, Left, CallsInv, TypeOK
    <2>4. "endSolo" \in Points \ ({"joinActivate"} \cup AddingPoints)
      BY DEF Points, AddingPoints
    <2> QED BY <1>4, <2>1, <2>2, <2>3, <2>4, FollowRow DEF MarkSolo
  <1>5. CASE EndSolo(p)
    <2> DEFINE k == req[p].call
    <2>1. req[p].pc \in WithCall /\ req[p].pc \in Initiating
      BY <1>5 DEF EndSolo, At, WithCall, Points, Initiating
    <2>2. Follows(calls[k], WithStatus(calls[k], "ended"))
      BY <2>1, HasCall, RowStatus
    <2>3. calls' = [calls EXCEPT ![k] = WithStatus(calls[k], "ended")]
      BY <1>5, <2>1, HasCall DEF EndSolo, UpdateCallStatus, WithStatus, CallsInv, TypeOK
    <2>4. "meterSolo" \in Points \ ({"joinActivate"} \cup AddingPoints)
      BY DEF Points, AddingPoints
    <2> QED BY <1>5, <2>1, <2>2, <2>3, <2>4, FollowRow DEF EndSolo
  <1>6. CASE MeterSolo(p)
    <2>1. req[p].pc \in WithCall /\ req[p].pc \in Initiating
      BY <1>6 DEF MeterSolo, At, WithCall, Points, Initiating
    <2>2. "create" \in Points \ ({"joinActivate"} \cup AddingPoints \cup WithCall)
      BY DEF Points, AddingPoints, WithCall
    <2> QED BY <1>6, <2>1, <2>2, MeterInv DEF MeterSolo
  <1>7. CASE CreateCall(p)
    <2>1. PICK k \in CallIds :
            /\ calls[k].status = "free"
            /\ calls' = [calls EXCEPT ![k] = [Free EXCEPT !.status = "ringing",
                                                          !.channel = req[p].channel,
                                                          !.mode = req[p].mode]]
            /\ req' = [req EXCEPT ![p].pc = "addSelf", ![p].call = k]
      BY <1>7 DEF CreateCall
    <2> DEFINE c == [Free EXCEPT !.status = "ringing", !.channel = req[p].channel,
                                 !.mode = req[p].mode]
               r == [req[p] EXCEPT !.pc = "addSelf", !.call = k]
    <2>2. req[p] \in Request /\ req[p].user \in Users /\ req[p].channel \in Channels
      BY <1>7 DEF CreateCall, CallsInv, TypeOK, Refs, At, Initiating
    <2>3. req[p].mode \in {"voice", "video"}
      BY <2>2 DEF Request
    <2>4. c \in Call /\ c.status = "ringing" /\ c.active = {} /\ c.joined = {}
          /\ c.charges = 0 /\ c.recording = {}
      BY <2>2, <2>3 DEF Call, Free
    <2>5. k \in 0..MaxCalls
      BY DEF CallIds
    <2>6. /\ r \in Request /\ r.pc = "addSelf" /\ r.call = k
          /\ r.user = req[p].user /\ r.channel = req[p].channel
      BY <2>2, <2>5 DEF Request, Points
    <2>7. Writes(p, r, k, c)
      BY <2>1 DEF Writes, CallsInv, TypeOK
    <2> HIDE DEF r, c
    <2>8. RequestOK(r, k)
      BY <2>2, <2>6 DEF RequestOK
    <2>9. Successor(k, c)
      BY <2>1, <2>4 DEF Successor, RowOK
    <2>10. Growth(p, r, k, c)
      <3>1. Cardinality(c.active) = 0 BY <2>4, FS_EmptySet
      <3> QED BY <2>6, <3>1, CeilingType DEF Growth
    <2> QED BY <2>7, <2>8, <2>9, <2>10, WriteInv
  <1>8. CASE AddSelf(p)
    <2>1. CASE UNCHANGED calls
      BY <1>8, <2>1, Stop DEF AddSelf
    <2>2. CASE AddCallParticipant(req[p].call, req[p].user)
      BY <1>8, <2>2, AddRow DEF AddSelf, At, AddingPoints
    <2> QED BY <1>8, <2>1, <2>2 DEF AddSelf
  <1> QED BY <1>1, <1>2, <1>3, <1>4, <1>5, <1>6, <1>7, <1>8 DEF InitiateStep

\* The records with which the requests on a call begin.
LEMMA BeginCall ==
  ASSUME CallsInv, NEW p \in Requests, NEW u \in Users, NEW k \in CallIds, Live(k),
         NEW b \in BOOLEAN,
         req' = [req EXCEPT ![p] = [Idle EXCEPT !.pc = "joinLookup", !.user = u,
                                                !.call = k, !.ringing = b]],
         UNCHANGED calls
  PROVE  CallsInv'
  <1> DEFINE r == [Idle EXCEPT !.pc = "joinLookup", !.user = u, !.call = k, !.ringing = b]
  <1>1. k \in 0..MaxCalls
    BY DEF CallIds
  <1>2. r \in Request /\ r.pc = "joinLookup" /\ r.user = u /\ r.call = k
    BY <1>1 DEF Idle, Request, Points
  <1>3. req' = [req EXCEPT ![p] = r]
    OBVIOUS
  <1> HIDE DEF r
  <1> QED BY <1>2, <1>3, Begin

LEMMA BeginPlain ==
  ASSUME CallsInv, NEW p \in Requests, NEW u \in Users, NEW k \in CallIds, Live(k),
         NEW pc \in {"leaveLookup", "startLookup", "stopLookup"},
         req' = [req EXCEPT ![p] = [Idle EXCEPT !.pc = pc, !.user = u, !.call = k]],
         UNCHANGED calls
  PROVE  CallsInv'
  <1> DEFINE r == [Idle EXCEPT !.pc = pc, !.user = u, !.call = k]
  <1>1. k \in 0..MaxCalls
    BY DEF CallIds
  <1>2. r \in Request /\ r.pc = pc /\ r.user = u /\ r.call = k
    BY <1>1 DEF Idle, Request, Points
  <1>3. req' = [req EXCEPT ![p] = r]
    OBVIOUS
  <1> HIDE DEF r
  <1> QED BY <1>2, <1>3, Begin

LEMMA JoinInv ==
  ASSUME CallsInv, NEW p \in Requests, JoinStep(p)
  PROVE  CallsInv'
  <1>1. ASSUME NEW u \in Users, NEW k \in CallIds, Join(p, u, k)
        PROVE  CallsInv'
    <2> DEFINE b == calls[k].status = "ringing"
    <2>1. b \in BOOLEAN /\ Live(k) /\ UNCHANGED calls
      BY <1>1 DEF Join
    <2>2. req' = [req EXCEPT ![p] = [Idle EXCEPT !.pc = "joinLookup", !.user = u,
                                                 !.call = k, !.ringing = b]]
      BY <1>1 DEF Join
    <2> HIDE DEF b
    <2> QED BY <2>1, <2>2, BeginCall
  <1>2. CASE JoinLookup(p)
    <2>1. CASE Goto(p, "joinRecount")
      BY <1>2, <2>1, Advance DEF JoinLookup, At, Points, Initiating, WithCall,
                                 AddingPoints
    <2>2. CASE Goto(p, "joinCount")
      BY <1>2, <2>2, Advance DEF JoinLookup, At, Points, Initiating, WithCall,
                                 AddingPoints
    <2> QED BY <1>2, <2>1, <2>2 DEF JoinLookup
  <1>3. CASE JoinCount(p)
    <2>1. PICK known \in LookupOutcomes :
            IF HasCapacity(Cardinality(calls[req[p].call].active), participantLimit(known))
            THEN Goto(p, "joinAdd") ELSE Return(p)
      BY <1>3 DEF JoinCount
    <2> DEFINE k == req[p].call
               n == Cardinality(calls[k].active)
               r == [req[p] EXCEPT !.pc = "joinAdd"]
    <2>2. CASE HasCapacity(n, participantLimit(known)) /\ Goto(p, "joinAdd")
      <3>1. req[p].pc \in WithCall /\ ~At(p, "idle")
        BY <1>3 DEF JoinCount, At, WithCall, Points
      <3>2. /\ k \in CallIds /\ calls[k] \in Call /\ calls[k].status # "free"
            /\ RowOK(calls[k])
        BY <3>1, HasCall
      <3>3. RequestOK(r, k) /\ r.call = k /\ req' = [req EXCEPT ![p] = r]
        BY <2>2, <3>1, GotoOK DEF Points, Initiating
      <3>4. calls' = [calls EXCEPT ![k] = calls[k]]
        BY <1>3, <3>2 DEF JoinCount, CallsInv, TypeOK
      <3>5. n \in Nat
        <4>1. calls[k].active \in SUBSET Users BY <3>2 DEF Call
        <4> QED BY <4>1, UserSets
      <3>6. ceiling > 0 => n < ceiling
        <4>1. participantLimit(known) > 0 => n < participantLimit(known)
          BY <2>2 DEF HasCapacity
        <4>2. ceiling > 0 => 0 < participantLimit(known) /\ participantLimit(known) <= ceiling
          BY CeilingHolds
        <4>3. participantLimit(known) \in Nat
          BY DEF participantLimit
        <4> HIDE DEF n
        <4> QED BY <3>5, <4>1, <4>2, <4>3, CeilingType
      <3>7. Growth(p, r, k, calls[k]) /\ Successor(k, calls[k])
        BY <3>2, <3>3, <3>6 DEF Growth, Successor
      <3> QED BY <3>2, <3>3, <3>4, <3>7, WriteInv DEF Writes
    <2>3. CASE Return(p)
      BY <1>3, <2>3, Stop DEF JoinCount
    <2> QED BY <2>1, <2>2, <2>3
  <1>4. CASE JoinAdd(p)
    <2>1. CASE UNCHANGED calls /\ Return(p)
      BY <2>1, Stop
    <2>2. CASE AddCallParticipant(req[p].call, req[p].user) /\ Goto(p, "joinRecount")
      BY <1>4, <2>2, AddRow DEF JoinAdd, At, AddingPoints
    <2> QED BY <1>4, <2>1, <2>2 DEF JoinAdd
  <1>5. CASE JoinRecount(p)
    <2> DEFINE k == req[p].call
               r == [req[p] EXCEPT !.pc = "joinActivate"]
    <2>1. CASE Cardinality(calls[k].active) >= 2 /\ Goto(p, "joinActivate")
      <3>1. req[p].pc \in WithCall
        BY <1>5 DEF JoinRecount, At, WithCall, Points
      <3>2. /\ k \in CallIds /\ calls[k] \in Call /\ calls[k].status # "free"
            /\ RowOK(calls[k]) /\ req[p] \in Request /\ req[p].user \in Users
        BY <3>1, HasCall
      <3>3. Cardinality(calls[k].joined) >= 2
        <4>1. calls[k].active \in SUBSET Users /\ calls[k].joined \in SUBSET Users
          BY <3>2 DEF Call
        <4>2. calls[k].active \subseteq calls[k].joined
          BY <3>2 DEF RowOK
        <4> QED BY <2>1, <4>1, <4>2, UserSets
      <3>4. /\ r \in Request /\ r.pc = "joinActivate" /\ r.call = k
            /\ r.user = req[p].user
        BY <3>2 DEF Request, Points
      <3>5. req' = [req EXCEPT ![p] = r] /\ UNCHANGED calls
        BY <1>5, <2>1 DEF JoinRecount, Goto, CallsInv, TypeOK
      <3> HIDE DEF r
      <3>6. RequestOK(r, 0) /\ r.pc \notin AddingPoints
        BY <3>2, <3>3, <3>4 DEF RequestOK, AddingPoints, Initiating
      <3> QED BY <3>5, <3>6, ReadInv
    <2>2. CASE Return(p)
      BY <1>5, <2>2, Stop DEF JoinRecount
    <2> QED BY <1>5, <2>1, <2>2 DEF JoinRecount
  <1>6. CASE JoinActivate(p)
    <2> DEFINE k == req[p].call
    <2>1. req[p].pc \in WithCall
      BY <1>6 DEF JoinActivate, At, WithCall, Points
    <2>2. Cardinality(calls[k].joined) >= 2
      BY <1>6 DEF JoinActivate, CallsInv, Rows
    <2>3. Follows(calls[k], WithStatus(calls[k], "active"))
      BY <2>1, <2>2, HasCall, RowStatus
    <2>4. calls' = [calls EXCEPT ![k] = WithStatus(calls[k], "active")]
      BY <1>6, <2>1, HasCall DEF JoinActivate, UpdateCallStatus, WithStatus, CallsInv, TypeOK
    <2>5. "idle" \in Points \ ({"joinActivate"} \cup AddingPoints) /\ "idle" \notin Initiating
      BY DEF Points, AddingPoints, Initiating
    <2> QED BY <1>6, <2>1, <2>3, <2>4, <2>5, FollowRow DEF JoinActivate
  <1> QED BY <1>1, <1>2, <1>3, <1>4, <1>5, <1>6 DEF JoinStep

LEMMA LeaveInv ==
  ASSUME CallsInv, NEW p \in Requests, LeaveStep(p)
  PROVE  CallsInv'
  <1>1. ASSUME NEW u \in Users, NEW k \in CallIds, Leave(p, u, k)
        PROVE  CallsInv'
    BY <1>1, BeginPlain DEF Leave
  <1>2. CASE LeaveLookup(p)
    <2>1. CASE Goto(p, "leaveMark")
      BY <1>2, <2>1, Advance DEF LeaveLookup, At, Points, Initiating, WithCall,
                                 AddingPoints
    <2>2. CASE Return(p)
      BY <1>2, <2>2, Stop DEF LeaveLookup
    <2> QED BY <1>2, <2>1, <2>2 DEF LeaveLookup
  <1>3. CASE LeaveMark(p)
    <2> DEFINE k == req[p].call
    <2>1. req[p].pc \in WithCall
      BY <1>3 DEF LeaveMark, At, WithCall, Points
    <2>2. CASE MarkCallParticipantLeft(k, req[p].user) /\ Goto(p, "leaveCount")
      <3>1. Follows(calls[k], Left(calls[k], req[p].user))
        BY <2>1, HasCall, RowLeft
      <3>2. calls' = [calls EXCEPT ![k] = Left(calls[k], req[p].user)]
        BY <2>1, <2>2, HasCall DEF MarkCallParticipantLeft, Left, CallsInv, TypeOK
      <3>3. "leaveCount" \in Points \ ({"joinActivate"} \cup AddingPoints)
            /\ "leaveCount" \notin Initiating
        BY DEF Points, AddingPoints, Initiating
      <3> QED BY <2>1, <2>2, <3>1, <3>2, <3>3, FollowRow
    <2>3. CASE UNCHANGED calls /\ Return(p)
      BY <2>3, Stop
    <2> QED BY <1>3, <2>2, <2>3 DEF LeaveMark
  <1>4. CASE LeaveCount(p)
    <2>1. CASE Goto(p, "leaveEnd")
      BY <1>4, <2>1, Advance DEF LeaveCount, At, Points, Initiating, WithCall,
                                 AddingPoints
    <2>2. CASE Goto(p, "leaveList")
      BY <1>4, <2>2, Advance DEF LeaveCount, At, Points, Initiating, WithCall,
                                 AddingPoints
    <2>3. CASE Return(p)
      BY <1>4, <2>3, Stop DEF LeaveCount
    <2> QED BY <1>4, <2>1, <2>2, <2>3 DEF LeaveCount
  <1>5. CASE LeaveList(p)
    <2> DEFINE R == calls[req[p].call].active
               pc == IF R = {} THEN "leaveEnd" ELSE "leaveMarkRest"
               r == [req[p] EXCEPT !.rest = R, !.pc = pc]
    <2>1. req[p].pc \in WithCall
      BY <1>5 DEF LeaveList, At, WithCall, Points
    <2>2. /\ R \in SUBSET Users /\ req[p] \in Request /\ req[p].user \in Users
          /\ req[p].call \in CallIds /\ calls[req[p].call].status # "free"
      BY <2>1, HasCall DEF Call
    <2>3. pc \in {"leaveEnd", "leaveMarkRest"}
      OBVIOUS
    <2>4. req' = [req EXCEPT ![p] = r] /\ UNCHANGED calls
      BY <1>5 DEF LeaveList, CallsInv, TypeOK
    <2> HIDE DEF R, pc
    <2>5. r \in Request /\ r.pc = pc /\ r.user = req[p].user /\ r.call = req[p].call
      BY <2>2, <2>3 DEF Request, Points
    <2> HIDE DEF r
    <2>6. RequestOK(r, 0) /\ r.pc \notin AddingPoints
      BY <2>2, <2>3, <2>5 DEF RequestOK, AddingPoints, Initiating
    <2> QED BY <2>4, <2>6, ReadInv
  <1>6. CASE LeaveMarkRest(p)
    <2>1. PICK u \in req[p].rest :
            /\ MarkCallParticipantLeft(req[p].call, u)
            /\ req' = [req EXCEPT ![p].rest = @ \ {u},
                                  ![p].pc = IF req[p].rest = {u} THEN "leaveEnd"
                                            ELSE "leaveMarkRest"]
      BY <1>6 DEF LeaveMarkRest
    <2> DEFINE k == req[p].call
               pc == IF req[p].rest = {u} THEN "leaveEnd" ELSE "leaveMarkRest"
               r == [req[p] EXCEPT !.rest = @ \ {u}, !.pc = pc]
               c == Left(calls[k], u)
    <2>2. req[p].pc \in WithCall
      BY <1>6 DEF LeaveMarkRest, At, WithCall, Points
    <2>3. /\ k \in CallIds /\ calls[k].status # "free" /\ req[p] \in Request
          /\ req[p].user \in Users
      BY <2>2, HasCall
    <2>4. Follows(calls[k], c)
      BY <2>2, HasCall, RowLeft
    <2>5. Writes(p, r, k, c)
      BY <2>1, <2>3 DEF MarkCallParticipantLeft, Left, Writes, CallsInv, TypeOK
    <2>6. pc \in {"leaveEnd", "leaveMarkRest"}
      OBVIOUS
    <2> HIDE DEF pc, c
    <2>7. r \in Request /\ r.pc = pc /\ r.user = req[p].user /\ r.call = k
      BY <2>3, <2>6 DEF Request, Points
    <2> HIDE DEF r
    <2>8. RequestOK(r, k) /\ Growth(p, r, k, c) /\ Successor(k, c)
      BY <2>3, <2>4, <2>6, <2>7
         DEF RequestOK, Growth, Successor, Follows, AddingPoints, Initiating
    <2> QED BY <2>3, <2>5, <2>8, WriteInv
  <1>7. CASE LeaveEnd(p)
    <2> DEFINE k == req[p].call
    <2>1. req[p].pc \in WithCall
      BY <1>7 DEF LeaveEnd, At, WithCall, Points
    <2>2. Follows(calls[k], WithStatus(calls[k], "ended"))
      BY <2>1, HasCall, RowStatus
    <2>3. calls' = [calls EXCEPT ![k] = WithStatus(calls[k], "ended")]
      BY <1>7, <2>1, HasCall DEF LeaveEnd, UpdateCallStatus, WithStatus, CallsInv, TypeOK
    <2>4. "leaveMeter" \in Points \ ({"joinActivate"} \cup AddingPoints)
          /\ "leaveMeter" \notin Initiating
      BY DEF Points, AddingPoints, Initiating
    <2> QED BY <1>7, <2>1, <2>2, <2>3, <2>4, FollowRow DEF LeaveEnd
  <1>8. CASE LeaveMeter(p)
    <2>1. req[p].pc \in WithCall
      BY <1>8 DEF LeaveMeter, At, WithCall, Points
    <2>2. "idle" \in Points \ ({"joinActivate"} \cup AddingPoints \cup WithCall)
          /\ "idle" \notin Initiating
      BY DEF Points, AddingPoints, WithCall, Initiating
    <2> QED BY <1>8, <2>1, <2>2, MeterInv DEF LeaveMeter
  <1> QED BY <1>1, <1>2, <1>3, <1>4, <1>5, <1>6, <1>7, <1>8 DEF LeaveStep

LEMMA RecordingInv ==
  ASSUME CallsInv, NEW p \in Requests, RecordingStep(p)
  PROVE  CallsInv'
  <1>1. ASSUME NEW u \in Users, NEW k \in CallIds, NEW pc \in {"startLookup", "stopLookup"},
               ValidateSignal(p, u, k, pc)
        PROVE  CallsInv'
    BY <1>1, BeginPlain DEF ValidateSignal
  <1>2. CASE SignalLookup(p, "startLookup", "startCheck")
    <2>1. CASE Goto(p, "startCheck")
      BY <1>2, <2>1, Advance DEF SignalLookup, At, Points, Initiating, WithCall,
                                 AddingPoints
    <2>2. CASE Return(p)
      BY <1>2, <2>2, Stop DEF SignalLookup
    <2> QED BY <1>2, <2>1, <2>2 DEF SignalLookup
  <1>3. CASE SignalLookup(p, "stopLookup", "stopEnd")
    <2>1. CASE Goto(p, "stopEnd")
      BY <1>3, <2>1, Advance DEF SignalLookup, At, Points, Initiating, WithCall,
                                 AddingPoints
    <2>2. CASE Return(p)
      BY <1>3, <2>2, Stop DEF SignalLookup
    <2> QED BY <1>3, <2>1, <2>2 DEF SignalLookup
  <1>4. CASE StartCheck(p)
    <2>1. CASE Goto(p, "startCreate")
      BY <1>4, <2>1, Advance DEF StartCheck, At, Points, Initiating, WithCall,
                                 AddingPoints
    <2>2. CASE Return(p)
      BY <1>4, <2>2, Stop DEF StartCheck
    <2> QED BY <1>4, <2>1, <2>2 DEF StartCheck
  <1>5. "idle" \in Points \ ({"joinActivate"} \cup AddingPoints) /\ "idle" \notin Initiating
    BY DEF Points, AddingPoints, Initiating
  <1>6. CASE StartCreate(p)
    <2> DEFINE k == req[p].call
    <2>1. req[p].pc \in WithCall
      BY <1>6 DEF StartCreate, At, WithCall, Points
    <2>2. CASE /\ UniqueRecording(k)
               /\ calls' = [calls EXCEPT ![k].started = @ + 1,
                                         ![k].recording = @ \cup {calls[k].started + 1}]
      <3>1. Follows(calls[k], Recorded(calls[k]))
        BY <2>1, <2>2, HasCall, RowRecorded DEF UniqueRecording
      <3>2. calls' = [calls EXCEPT ![k] = Recorded(calls[k])]
        BY <2>1, <2>2, HasCall DEF Recorded, CallsInv, TypeOK
      <3> QED BY <1>5, <1>6, <2>1, <3>1, <3>2, FollowRow DEF StartCreate
    <2>3. CASE UNCHANGED calls
      BY <1>6, <2>3, Stop DEF StartCreate
    <2> QED BY <1>6, <2>2, <2>3 DEF StartCreate
  <1>7. CASE StopEnd(p)
    <2> DEFINE k == req[p].call
    <2>1. req[p].pc \in WithCall
      BY <1>7 DEF StopEnd, At, WithCall, Points
    <2>2. PICK n \in 1..MaxRecordings : calls' = [calls EXCEPT ![k].recording = @ \ {n}]
      BY <1>7 DEF StopEnd
    <2>3. Follows(calls[k], Stopped(calls[k], n))
      BY <2>1, HasCall, RowStopped
    <2>4. calls' = [calls EXCEPT ![k] = Stopped(calls[k], n)]
      BY <2>1, <2>2, HasCall DEF Stopped, CallsInv, TypeOK
    <2> QED BY <1>5, <1>7, <2>1, <2>3, <2>4, FollowRow DEF StopEnd
  <1> QED BY <1>1, <1>2, <1>3, <1>4, <1>6, <1>7 DEF RecordingStep

-----------------------------------------------------------------------------
(* The theorems.                                                           *)

LEMMA InitInv == Init => CallsInv
  <1> SUFFICES ASSUME Init PROVE CallsInv
    OBVIOUS
  <1>1. \A k \in CallIds : calls[k] = Free
    BY DEF Init
  <1>2. \A p \in Requests : req[p] = Idle
    BY DEF Init
  <1>3. Rows
    BY <1>1, <1>2 DEF Rows, RowOK, At, Free, Idle
  <1>4. Capacity
    <2> SUFFICES ASSUME ceiling > 0, NEW k \in CallIds
                 PROVE  Cardinality(calls[k].active) + Cardinality(Adding(k)) + 1
                          <= ceiling + Cardinality(Requests)
      BY DEF Capacity
    <2>1. calls[k].active = {} /\ Adding(k) = {}
      BY <1>1, <1>2 DEF Adding, AddingPoints, Free, Idle
    <2>2. Cardinality({}) = 0 /\ Cardinality(Requests) \in Nat
      BY FS_EmptySet, FS_CardinalityType
    <2> QED BY <2>1, <2>2, CeilingType
  <1> QED BY <1>3, <1>4, TypeInit DEF CallsInv

LEMMA NextInv == CallsInv /\ [Next]_vars => CallsInv'
  <1> SUFFICES ASSUME CallsInv, [Next]_vars PROVE CallsInv'
    OBVIOUS
  <1>1. CASE UNCHANGED vars
    BY <1>1 DEF vars, CallsInv, TypeOK, Refs, Rows, RowOK, At, Capacity, Adding, ceiling
  <1>2. ASSUME NEW p \in Requests, Fail(p) PROVE CallsInv'
    BY <1>2, Stop DEF Fail
  <1> QED BY <1>1, <1>2, InitiateInv, JoinInv, LeaveInv, RecordingInv DEF Next

LEMMA Invariance == Spec => []CallsInv
  BY InitInv, NextInv, PTL DEF Spec

\* Type correctness: every statement of every operation of service.go leaves
\* rows and requests of their types, whatever other requests do in between.
THEOREM TypeCorrect == Spec => []TypeOK
  <1>1. CallsInv => TypeOK BY DEF CallsInv
  <1> QED BY <1>1, Invariance, PTL

\* JoinCall writes "active" on a count that may be old by then; still two
\* different users have joined every call that is active.
THEOREM ActiveCorrect == Spec => []ActiveWasShared
  <1>1. CallsInv => ActiveWasShared BY DEF CallsInv, Rows, RowOK, ActiveWasShared
  <1> QED BY <1>1, Invariance, PTL

\* meterVideoCall charges only video calls with two participant rows or more,
\* however many requests end the call together.
THEOREM ChargesCorrect == Spec => []ChargedWasBillable
  <1>1. CallsInv => ChargedWasBillable BY DEF CallsInv, Rows, RowOK, ChargedWasBillable
  <1> QED BY <1>1, Invariance, PTL

\* The check of assertParticipantCapacity and the insert that follows it are
\* separate statements: n requests together exceed the limit by n - 1 at most.
THEOREM OvershootBounded == Spec => []CapacityOvershoot
  <1>1. CallsInv => CapacityOvershoot
    <2> SUFFICES ASSUME CallsInv, ceiling > 0, NEW k \in CallIds
                 PROVE  Cardinality(calls[k].active) + 1 <= ceiling + Cardinality(Requests)
      BY DEF CapacityOvershoot
    <2>1. Cardinality(calls[k].active) + Cardinality(Adding(k)) + 1
            <= ceiling + Cardinality(Requests)
      BY DEF CallsInv, Capacity
    <2>2. calls[k].active \in SUBSET Users /\ Adding(k) \in SUBSET Requests
      BY DEF CallsInv, TypeOK, Call, Adding
    <2>3. /\ Cardinality(calls[k].active) \in Nat /\ Cardinality(Adding(k)) \in Nat
          /\ Cardinality(Requests) \in Nat
      BY <2>2, UserSets, RequestSets
    <2> QED BY <2>1, <2>3, CeilingType
  <1> QED BY <1>1, Invariance, PTL

\* The unique index on open recordings keeps a call at one, although
\* StartRecording's own check is made before its insert.
THEOREM RecordingCorrect == Spec => []OneActiveRecording
  <1>1. CallsInv => OneActiveRecording
    <2> SUFFICES ASSUME CallsInv, NEW k \in CallIds
                 PROVE  Cardinality(calls[k].recording) <= 1
      BY DEF OneActiveRecording
    <2>1. \A m, n \in calls[k].recording : m = n
      BY DEF CallsInv, Rows, RowOK
    <2>2. CASE calls[k].recording = {}
      BY <2>2, FS_EmptySet
    <2>3. ASSUME NEW n \in calls[k].recording
          PROVE  Cardinality(calls[k].recording) <= 1
      <3>1. calls[k].recording = {n}
        BY <2>1
      <3> QED BY <3>1, FS_Singleton
    <2> QED BY <2>2, <2>3
  <1> QED BY <1>1, Invariance, PTL

-----------------------------------------------------------------------------
(* Requests that are served one at a time.                                 *)

\* A row that may be written by a request that is left as r.
Fits(r, c) ==
  /\ Counted(c)
  /\ ceiling > 0 => Cardinality(c.active) <= ceiling
  /\ IF r.pc \in WithCall THEN InFlight(r, c) ELSE Steady(c)

\* The request in flight is the only one.
LEMMA OneRequest ==
  ASSUME Serial, NEW p \in Requests
  PROVE  Requests = {p}
  BY DEF Serial

\* What is known of the row of the request in flight.
LEMMA Working ==
  ASSUME CallsInv, SerialInv, NEW p \in Requests, req[p].pc \in WithCall
  PROVE  /\ InFlight(req[p], calls[req[p].call])
         /\ Counted(calls[req[p].call])
         /\ ceiling > 0 => Cardinality(calls[req[p].call].active) <= ceiling
         /\ Cardinality(calls[req[p].call].active) \in Nat
         /\ calls[req[p].call].active \in SUBSET Users
         /\ calls[req[p].call].joined \in SUBSET Users
         /\ IsFiniteSet(calls[req[p].call].active)
  <1>1. req[p].call \in CallIds /\ calls[req[p].call] \in Call
    BY HasCall
  <1>2. /\ calls[req[p].call].active \in SUBSET Users
        /\ calls[req[p].call].joined \in SUBSET Users
    BY <1>1 DEF Call
  <1>3. /\ Cardinality(calls[req[p].call].active) \in Nat
        /\ IsFiniteSet(calls[req[p].call].active)
    BY <1>2, UserSets
  <1> QED BY <1>1, <1>2, <1>3 DEF SerialInv, CapacityLimit

\* A write of row k by the only request, which was at work on no other.
LEMMA SerialWrite ==
  ASSUME CallsInv, SerialInv, Serial, NEW p \in Requests, NEW r, NEW k \in CallIds, NEW c,
         Writes(p, r, k, c), Fits(r, c),
         req[p].pc \in WithCall => req[p].call = k,
         r.pc \in WithCall => r.call = k,
         c.status \in {"ringing", "active"} =>
           \A l \in LiveIn(c.channel) : l = k,
         r.pc \in {"meterSolo", "create"} =>
           /\ c.status = "ended"
           /\ \A l \in LiveIn(r.channel) : l = k
  PROVE  SerialInv'
  <1>1. /\ \A l \in CallIds : calls'[l] = IF l = k THEN c ELSE calls[l]
        /\ req'[p] = r
    BY DEF Writes, CallsInv, TypeOK
  <1>2. Requests = {p}
    BY OneRequest
  <1>3. ASSUME NEW l \in CallIds, NEW m \in CallIds, Live(l)', Live(m)',
               calls'[l].channel = calls'[m].channel
        PROVE  l = m
    <2>1. CASE l # k /\ m # k
      BY <1>1, <1>3, <2>1 DEF Live, SerialInv
    <2>2. ASSUME NEW n \in CallIds, n # k, Live(n)', Live(k)',
                 calls'[n].channel = calls'[k].channel
          PROVE  FALSE
      BY <1>1, <2>2 DEF Live, LiveIn
    <2> QED BY <1>3, <2>1, <2>2
  <1>4. CapacityLimit'
    BY <1>1 DEF SerialInv, CapacityLimit, ceiling, Fits
  <1>5. ASSUME NEW l \in CallIds
        PROVE  /\ Counted(calls'[l])
               /\ Steady(calls'[l]) \/ (req'[p].pc \in WithCall /\ req'[p].call = l)
    BY <1>1, <1>2 DEF SerialInv, Fits
  <1>6. req'[p].pc \in WithCall => InFlight(req'[p], calls'[req'[p].call])
    BY <1>1 DEF Fits
  <1>7. r.pc \in {"meterSolo", "create"} =>
          \A l \in CallIds : ~(Live(l)' /\ calls'[l].channel = r.channel)
    BY <1>1 DEF LiveIn, Live
  <1>8. r.pc \in {"meterSolo", "create"} => LiveIn(r.channel)' = {}
    BY <1>7 DEF LiveIn
  <1> QED BY <1>1, <1>2, <1>3, <1>4, <1>5, <1>6, <1>8 DEF SerialInv

\* A step of the only request that touches no table.
LEMMA SerialRead ==
  ASSUME CallsInv, SerialInv, Serial, NEW p \in Requests, NEW r,
         req' = [req EXCEPT ![p] = r], UNCHANGED calls,
         r.pc \in WithCall => InFlight(r, calls[r.call]),
         req[p].pc \in WithCall =>
           \/ r.pc \in WithCall /\ r.call = req[p].call
           \/ Steady(calls[req[p].call]),
         r.pc \in {"meterSolo", "create"} => LiveIn(r.channel) = {}
  PROVE  SerialInv'
  <1>1. Requests = {p} /\ req'[p] = r /\ calls' = calls
    BY OneRequest DEF CallsInv, TypeOK
  <1>2. CapacityLimit' /\ \A l \in CallIds : Live(l)' <=> Live(l)
    BY <1>1 DEF SerialInv, CapacityLimit, ceiling, Live
  <1>3. LiveIn(r.channel)' = LiveIn(r.channel)
    BY <1>1, <1>2 DEF LiveIn
  <1>4. \A l \in CallIds : Steady(calls[l]) \/ (r.pc \in WithCall /\ r.call = l)
    BY <1>1 DEF SerialInv
  <1> QED BY <1>1, <1>2, <1>3, <1>4 DEF SerialInv

\* A request ends, or goes on to read or write the same row.
LEMMA SerialStop ==
  ASSUME CallsInv, SerialInv, Serial, NEW p \in Requests, Return(p), UNCHANGED calls,
         req[p].pc \in WithCall => Steady(calls[req[p].call])
  PROVE  SerialInv'
  BY SerialRead DEF Return, Idle, WithCall

LEMMA SerialGoto ==
  ASSUME CallsInv, SerialInv, Serial, NEW p \in Requests, NEW pc \in WithCall \ Metering,
         req[p].pc \in WithCall, Goto(p, pc), UNCHANGED calls,
         InFlight([req[p] EXCEPT !.pc = pc], calls[req[p].call])
  PROVE  SerialInv'
  <1> DEFINE r == [req[p] EXCEPT !.pc = pc]
  <1>1. r.pc = pc /\ r.call = req[p].call /\ req' = [req EXCEPT ![p] = r]
    BY HasCall DEF Goto, CallsInv, TypeOK, Request
  <1>2. pc \notin {"meterSolo", "create"}
    BY DEF WithCall, Metering
  <1> QED BY <1>1, <1>2, SerialRead

\* The fields of a request at another point.
LEMMA AtPoint ==
  ASSUME CallsInv, NEW p \in Requests, NEW pc
  PROVE  /\ [req[p] EXCEPT !.pc = pc].pc = pc
         /\ [req[p] EXCEPT !.pc = pc].call = req[p].call
         /\ [req[p] EXCEPT !.pc = pc].user = req[p].user
         /\ [req[p] EXCEPT !.pc = pc].channel = req[p].channel
         /\ [req[p] EXCEPT !.pc = pc].ringing = req[p].ringing
         /\ [req[p] EXCEPT !.pc = pc].rest = req[p].rest
         /\ Goto(p, pc) => req' = [req EXCEPT ![p] = [req[p] EXCEPT !.pc = pc]]
  BY DEF Goto, CallsInv, TypeOK, Request

\* A request writes the row of its own call, and goes on or ends.
LEMMA SerialRow ==
  ASSUME CallsInv, SerialInv, Serial, NEW p \in Requests, req[p].pc \in WithCall,
         NEW r, NEW c, req' = [req EXCEPT ![p] = r],
         calls' = [calls EXCEPT ![req[p].call] = c], Fits(r, c),
         r.pc \in WithCall => r.call = req[p].call,
         c.channel = calls[req[p].call].channel,
         c.status \in {"ringing", "active"} => Live(req[p].call),
         r.pc \in {"meterSolo", "create"} =>
           /\ c.status = "ended"
           /\ \A l \in LiveIn(r.channel) : l = req[p].call
  PROVE  SerialInv'
  <1>1. req[p].call \in CallIds /\ Writes(p, r, req[p].call, c)
    BY HasCall DEF Writes
  <1>2. c.status \in {"ringing", "active"} =>
          \A l \in LiveIn(c.channel) : l = req[p].call
    BY <1>1 DEF SerialInv, LiveIn
  <1> QED BY <1>1, <1>2, SerialWrite

\* The fields of the rows that the statements leave.
LEMMA LeftFields ==
  ASSUME NEW d \in Call, NEW u
  PROVE  /\ Left(d, u).active = d.active \ {u}
         /\ Left(d, u).status = d.status /\ Left(d, u).channel = d.channel
         /\ Left(d, u).mode = d.mode /\ Left(d, u).joined = d.joined
         /\ Left(d, u).rows = d.rows /\ Left(d, u).charges = d.charges
  BY DEF Left, Call

LEMMA StatusFields ==
  ASSUME NEW d \in Call, NEW st
  PROVE  /\ WithStatus(d, st).status = st
         /\ WithStatus(d, st).active = d.active /\ WithStatus(d, st).channel = d.channel
         /\ WithStatus(d, st).mode = d.mode /\ WithStatus(d, st).joined = d.joined
         /\ WithStatus(d, st).rows = d.rows /\ WithStatus(d, st).charges = d.charges
  BY DEF WithStatus, Call

LEMMA ChargedFields ==
  ASSUME NEW d \in Call
  PROVE  /\ Charged(d).charges = d.charges + 1
         /\ Charged(d).active = d.active /\ Charged(d).channel = d.channel
         /\ Charged(d).mode = d.mode /\ Charged(d).joined = d.joined
         /\ Charged(d).rows = d.rows /\ Charged(d).status = d.status
  BY DEF Charged, Call

\* The number of participants after one has left.
LEMMA OneLess ==
  ASSUME NEW S \in SUBSET Users, NEW u \in S
  PROVE  /\ Cardinality(S) \in Nat /\ Cardinality(S \ {u}) \in Nat
         /\ Cardinality(S \ {u}) = Cardinality(S) - 1
         /\ Cardinality(S) = 1 => S \ {u} = {}
  <1>1. IsFiniteSet(S) /\ IsFiniteSet(S \ {u}) /\ S \ {u} \in SUBSET Users
    BY UserSets
  <1>2. /\ Cardinality(S) \in Nat /\ Cardinality(S \ {u}) \in Nat
        /\ Cardinality(S \ {u}) = Cardinality(S) - 1
    BY <1>1, FS_RemoveElement, FS_CardinalityType
  <1>3. Cardinality(S \ {u}) = 0 <=> S \ {u} = {}
    BY <1>1, FS_EmptySet
  <1> QED BY <1>2, <1>3

\* The number of participants and the rows after one was added.
LEMMA OneMore ==
  ASSUME NEW d \in Call, RowOK(d), Counted(d), NEW u \in Users, u \notin d.active,
         d.active # {} \/ (d.joined = {} /\ d.rows = 0)
  PROVE  /\ Counted(Joined(d, u))
         /\ Cardinality(d.active) \in Nat
         /\ Cardinality(Joined(d, u).active) = Cardinality(d.active) + 1
         /\ Joined(d, u).channel = d.channel
  <1> DEFINE c == Joined(d, u)
  <1>1. /\ c \in Call /\ c.active = d.active \cup {u} /\ c.joined = d.joined \cup {u}
        /\ c.rows = d.rows + 1
    BY RowAdd
  <1>2. d.active \in SUBSET Users /\ d.joined \in SUBSET Users /\ d.rows \in Nat
    BY DEF Call
  <1>3. c.active \in SUBSET Users /\ c.joined \in SUBSET Users
    BY <1>1 DEF Call
  <1>4. c.channel = d.channel
    BY DEF Joined, Call
  <1> HIDE DEF c
  <1>5. /\ IsFiniteSet(d.active) /\ Cardinality(d.active) \in Nat
        /\ Cardinality(c.active) \in Nat /\ Cardinality(c.joined) \in Nat
    BY <1>2, <1>3, UserSets
  <1>6. Cardinality(c.active) = Cardinality(d.active) + 1
    <2>1. Cardinality(d.active \cup {u})
            = IF u \in d.active THEN Cardinality(d.active) ELSE Cardinality(d.active) + 1
      BY <1>5, FS_AddElement
    <2> QED BY <1>1, <2>1
  <1>7. Counted(c)
    <2>1. CASE d.active # {}
      <3>1. c.active \subseteq c.joined /\ d.joined # {}
        BY <1>1, <2>1 DEF RowOK
      <3>2. Cardinality(c.active) <= Cardinality(c.joined)
        BY <1>3, <3>1, UserSets
      <3>3. Cardinality(d.active) # 0
        BY <1>5, <2>1, FS_EmptySet
      <3>4. Cardinality(c.joined) >= 2
        BY <1>5, <1>6, <3>2, <3>3
      <3>5. c.rows >= 2 /\ c.rows >= 1
        BY <1>1, <1>2, <3>1 DEF Counted
      <3> QED BY <3>4, <3>5 DEF Counted
    <2>2. CASE d.joined = {} /\ d.rows = 0
      <3>1. c.joined = {u} /\ c.rows = 1
        BY <1>1, <2>2
      <3>2. Cardinality(c.joined) = 1
        BY <3>1, FS_Singleton
      <3> QED BY <3>1, <3>2 DEF Counted
    <2> QED BY <2>1, <2>2
  <1> QED BY <1>4, <1>5, <1>6, <1>7 DEF c

\* MarkCallParticipantLeft, UpdateCallStatus and the metering, as they write
\* the row of the request in flight.
LEMMA WritesLeft ==
  ASSUME CallsInv, NEW p \in Requests, req[p].pc \in WithCall, NEW u,
         MarkCallParticipantLeft(req[p].call, u)
  PROVE  calls' = [calls EXCEPT ![req[p].call] = Left(calls[req[p].call], u)]
  BY HasCall DEF MarkCallParticipantLeft, Left, CallsInv, TypeOK

LEMMA WritesStatus ==
  ASSUME CallsInv, NEW p \in Requests, req[p].pc \in WithCall, NEW st,
         UpdateCallStatus(req[p].call, st)
  PROVE  calls' = [calls EXCEPT ![req[p].call] = WithStatus(calls[req[p].call], st)]
  BY HasCall DEF UpdateCallStatus, WithStatus, CallsInv, TypeOK

LEMMA WritesJoined ==
  ASSUME CallsInv, NEW p \in Requests, req[p].pc \in WithCall,
         AddCallParticipant(req[p].call, req[p].user)
  PROVE  calls' = [calls EXCEPT ![req[p].call] = Joined(calls[req[p].call], req[p].user)]
  BY HasCall DEF AddCallParticipant, Joined, CallsInv, TypeOK, Call

\* The metering leaves an ended call charged as the documentation says,
\* whichever request ended it.
LEMMA SerialMeter ==
  ASSUME CallsInv, SerialInv, Serial, NEW p \in Requests, req[p].pc \in Metering,
         NEW r, req' = [req EXCEPT ![p] = r], r.pc \in {"idle", "create"},
         r.pc = "create" => r.channel = req[p].channel /\ At(p, "meterSolo"),
         Meter(req[p].call)
  PROVE  SerialInv'
  <1> DEFINE k == req[p].call
             d == calls[k]
  <1>1. req[p].pc \in WithCall /\ r.pc \notin WithCall
    BY DEF Metering, WithCall, Points
  <1>2. k \in CallIds /\ d \in Call /\ RowOK(d)
    BY <1>1, HasCall
  <1>3. /\ d.status = "ended" /\ d.charges = 0 /\ d.active = {} /\ Counted(d)
        /\ ceiling > 0 => Cardinality(d.active) <= ceiling
    BY <1>1, Working DEF InFlight, Metering
  <1>4. Cardinality(d.active) = 0
    BY <1>3, FS_EmptySet
  <1>5. r.pc \in {"meterSolo", "create"} => LiveIn(r.channel) = {}
    BY DEF SerialInv, At
  <1>6. CASE Billable(k) /\ calls' = [calls EXCEPT ![k].charges = @ + 1]
    <2>1. calls' = [calls EXCEPT ![k] = Charged(d)]
      BY <1>2, <1>6 DEF Charged, CallsInv, TypeOK
    <2>2. Steady(Charged(d))
      <3>1. /\ Charged(d).charges = 1 /\ Charged(d).status = "ended"
            /\ Charged(d).active = {}
        BY <1>2, <1>3, ChargedFields
      <3>2. Cardinality(Charged(d).active) = 0
        BY <3>1, FS_EmptySet
      <3> QED BY <3>1, <3>2 DEF Steady
    <2>3. Fits(r, Charged(d))
      BY <1>1, <1>2, <1>3, <2>2, ChargedFields DEF Fits, Counted
    <2>4. /\ Charged(d).channel = d.channel /\ Charged(d).status = "ended"
      BY <1>2, <1>3, ChargedFields
    <2> QED BY <1>1, <1>5, <2>1, <2>3, <2>4, SerialRow
  <1>7. CASE ~Billable(k) /\ UNCHANGED calls
    <2>1. d.mode = "video" => ~(d.rows >= 2)
      BY <1>7 DEF Billable
    <2>2. Steady(d)
      BY <1>3, <1>4, <2>1 DEF Steady, Counted
    <2> QED BY <1>1, <1>5, <1>7, <2>2, SerialRead
  <1> QED BY <1>6, <1>7 DEF Meter, Serial

\* A request begins at a point where it has no call, or reads a live one,
\* whose row is steady.
LEMMA SerialBegin ==
  ASSUME CallsInv, SerialInv, Serial, NEW p \in Requests, At(p, "idle"), NEW r,
         \/ r.pc = "findActive"
         \/ /\ r.pc \in {"joinLookup", "leaveLookup", "startLookup", "stopLookup"}
            /\ r.call \in CallIds /\ Live(r.call)
            /\ r.pc = "joinLookup" => (r.ringing <=> calls[r.call].status = "ringing"),
         req' = [req EXCEPT ![p] = r], UNCHANGED calls
  PROVE  SerialInv'
  <1>1. req[p].pc \notin WithCall /\ Requests = {p}
    BY OneRequest DEF At, WithCall
  <1>2. \A k \in CallIds : Steady(calls[k])
    BY <1>1 DEF SerialInv
  <1>3. CASE r.pc = "findActive"
    BY <1>1, <1>3, SerialRead DEF WithCall
  <1>4. CASE r.pc # "findActive"
    <2>1. InFlight(r, calls[r.call])
      BY <1>2, <1>4 DEF InFlight, Live, Steady, Joining, Metering
    <2> QED BY <1>1, <1>4, <2>1, SerialRead
  <1> QED BY <1>3, <1>4

LEMMA InitiateSerial ==
  ASSUME CallsInv, SerialInv, Serial, NEW p \in Requests, InitiateStep(p)
  PROVE  SerialInv'
  <1> DEFINE k == req[p].call
             d == calls[k]
  <1>1. ASSUME NEW u \in Users, NEW ch \in Channels, NEW m \in Modes,
               Initiate(p, u, ch, m)
        PROVE  SerialInv'
    <2> DEFINE r == [Idle EXCEPT !.pc = "findActive", !.user = u, !.channel = ch,
                                 !.mode = m]
    <2>1. r.pc = "findActive"
      BY DEF Idle
    <2>2. req' = [req EXCEPT ![p] = r] /\ UNCHANGED calls /\ At(p, "idle")
      BY <1>1 DEF Initiate
    <2> HIDE DEF r
    <2> QED BY <2>1, <2>2, SerialBegin
  <1>2. CASE FindActive(p)
    <2>1. req[p].pc \notin WithCall /\ Requests = {p}
      BY <1>2, OneRequest DEF FindActive, At, WithCall
    <2>2. CASE LiveIn(req[p].channel) = {} /\ Goto(p, "create")
      <3> DEFINE r == [req[p] EXCEPT !.pc = "create"]
      <3>1. /\ r.pc = "create" /\ r.channel = req[p].channel
            /\ req' = [req EXCEPT ![p] = r] /\ UNCHANGED calls
        BY <1>2, <2>2, AtPoint DEF FindActive
      <3> HIDE DEF r
      <3> QED BY <2>1, <2>2, <3>1, SerialRead DEF WithCall
    <2>3. ASSUME NEW n \in LiveIn(req[p].channel),
                 req' = [req EXCEPT ![p].pc = "listSolo", ![p].call = n]
          PROVE  SerialInv'
      <3> DEFINE r == [req[p] EXCEPT !.pc = "listSolo", !.call = n]
      <3>0. req[p] \in Request
        BY DEF CallsInv, TypeOK
      <3>1. r.pc = "listSolo" /\ r.channel = req[p].channel /\ r.call = n
        BY <3>0 DEF Request
      <3>5. req' = [req EXCEPT ![p] = r] /\ UNCHANGED calls
        BY <1>2, <2>3 DEF FindActive, CallsInv, TypeOK
      <3> HIDE DEF r
      <3>2. n \in CallIds /\ Live(n) /\ calls[n].channel = r.channel
        BY <3>1 DEF LiveIn
      <3>3. Steady(calls[n])
        BY <2>1, <3>2 DEF SerialInv
      <3>4. InFlight(r, calls[n])
        BY <3>1, <3>2, <3>3 DEF InFlight, Live, Steady, Joining, Metering
      <3> QED BY <2>1, <3>1, <3>4, <3>5, SerialRead
    <2> QED BY <1>2, <2>2, <2>3 DEF FindActive
  <1>3. CASE ListSolo(p)
    <2>1. req[p].pc = "listSolo" /\ req[p].pc \in WithCall /\ UNCHANGED calls
      BY <1>3 DEF ListSolo, At, WithCall, Points
    <2>2. InFlight(req[p], d)
      BY <2>1, Working
    <2>3. Steady(d)
      BY <2>1, <2>2 DEF InFlight, Reading
    <2>4. CASE d.active = {req[p].user} /\ Goto(p, "markSolo")
      <3> DEFINE r == [req[p] EXCEPT !.pc = "markSolo"]
      <3>1. /\ r.pc = "markSolo" /\ r.channel = req[p].channel
            /\ r.user = req[p].user
        BY AtPoint
      <3> HIDE DEF r
      <3>2. InFlight(r, d)
        BY <2>1, <2>2, <2>3, <2>4, <3>1 DEF InFlight, Joining, Metering
      <3>3. "markSolo" \in WithCall \ Metering
        BY DEF WithCall, Points, Metering
      <3> QED BY <2>1, <2>4, <3>2, <3>3, SerialGoto DEF r
    <2>5. CASE Return(p)
      BY <2>1, <2>3, <2>5, SerialStop
    <2> QED BY <1>3, <2>4, <2>5 DEF ListSolo
  <1>4. CASE MarkSolo(p)
    <2> DEFINE c == Left(d, req[p].user)
               r == [req[p] EXCEPT !.pc = "endSolo"]
    <2>1. req[p].pc = "markSolo" /\ req[p].pc \in WithCall
      BY <1>4 DEF MarkSolo, At, WithCall, Points
    <2>2. /\ InFlight(req[p], d) /\ Counted(d) /\ d \in Call
      BY <2>1, Working, HasCall
    <2>3. /\ r.pc = "endSolo" /\ r.channel = req[p].channel /\ r.call = k
          /\ req' = [req EXCEPT ![p] = r]
      BY <1>4, AtPoint DEF MarkSolo
    <2>4. calls' = [calls EXCEPT ![k] = c]
      BY <1>4, <2>1, WritesLeft DEF MarkSolo
    <2>5. /\ c.active = {} /\ c.status = d.status /\ c.channel = d.channel
          /\ c.joined = d.joined /\ c.rows = d.rows /\ c.charges = d.charges
      BY <2>1, <2>2, LeftFields DEF InFlight
    <2> HIDE DEF c, r
    <2>6. InFlight(r, c)
      BY <2>1, <2>2, <2>3, <2>5 DEF InFlight, Joining, Metering, Reading
    <2>7. Fits(r, c)
      <3>1. Cardinality(c.active) = 0
        BY <2>5, FS_EmptySet
      <3>2. r.pc \in WithCall
        BY <2>3 DEF WithCall, Points
      <3> QED BY <2>2, <2>5, <2>6, <3>1, <3>2, CeilingType DEF Fits, Counted
    <2>8. c.status \in {"ringing", "active"} => Live(k)
      BY <2>5 DEF Live
    <2> QED BY <2>1, <2>3, <2>4, <2>5, <2>7, <2>8, SerialRow
  <1>5. CASE EndSolo(p)
    <2> DEFINE c == WithStatus(d, "ended")
               r == [req[p] EXCEPT !.pc = "meterSolo"]
    <2>1. req[p].pc = "endSolo" /\ req[p].pc \in WithCall
      BY <1>5 DEF EndSolo, At, WithCall, Points
    <2>2. /\ InFlight(req[p], d) /\ Counted(d) /\ d \in Call /\ k \in CallIds
      BY <2>1, Working, HasCall
    <2>3. /\ r.pc = "meterSolo" /\ r.channel = req[p].channel /\ r.call = k
          /\ req' = [req EXCEPT ![p] = r]
      BY <1>5, AtPoint DEF EndSolo
    <2>4. calls' = [calls EXCEPT ![k] = c]
      BY <1>5, <2>1, WritesStatus DEF EndSolo
    <2>5. /\ c.active = {} /\ c.status = "ended" /\ c.channel = d.channel
          /\ c.joined = d.joined /\ c.rows = d.rows /\ c.charges = 0
      BY <2>1, <2>2, StatusFields DEF InFlight
    <2> HIDE DEF c, r
    <2>6. InFlight(r, c)
      BY <2>3, <2>5 DEF InFlight, Joining, Metering, Reading
    <2>7. Fits(r, c)
      <3>1. Cardinality(c.active) = 0
        BY <2>5, FS_EmptySet
      <3>2. r.pc \in WithCall
        BY <2>3 DEF WithCall, Points
      <3> QED BY <2>2, <2>5, <2>6, <3>1, <3>2, CeilingType DEF Fits, Counted
    <2>8. \A l \in LiveIn(r.channel) : l = k
      <3>1. d.channel = r.channel /\ Live(k)
        BY <2>1, <2>2, <2>3 DEF InFlight, Live, Metering
      <3> QED BY <2>2, <3>1 DEF SerialInv, LiveIn
    <2> QED BY <2>1, <2>3, <2>4, <2>5, <2>7, <2>8, SerialRow
  <1>6. CASE MeterSolo(p)
    <2> DEFINE r == [req[p] EXCEPT !.pc = "create"]
    <2>1. /\ r.pc = "create" /\ r.channel = req[p].channel
          /\ req' = [req EXCEPT ![p] = r] /\ At(p, "meterSolo") /\ Meter(k)
      BY <1>6, AtPoint DEF MeterSolo
    <2> HIDE DEF r
    <2> QED BY <2>1, SerialMeter DEF At, Metering
  <1>7. CASE CreateCall(p)
    <2>1. PICK n \in CallIds :
            /\ calls[n].status = "free"
            /\ calls' = [calls EXCEPT ![n] = [Free EXCEPT !.status = "ringing",
                                                          !.channel = req[p].channel,
                                                          !.mode = req[p].mode]]
            /\ req' = [req EXCEPT ![p].pc = "addSelf", ![p].call = n]
      BY <1>7 DEF CreateCall
    <2> DEFINE c == [Free EXCEPT !.status = "ringing", !.channel = req[p].channel,
                                 !.mode = req[p].mode]
               r == [req[p] EXCEPT !.pc = "addSelf", !.call = n]
    <2>2. req[p].pc = "create" /\ req[p].pc \notin WithCall
      BY <1>7 DEF CreateCall, At, WithCall
    <2>3. /\ c.status = "ringing" /\ c.active = {} /\ c.joined = {} /\ c.rows = 0
          /\ c.charges = 0 /\ c.channel = req[p].channel
      BY DEF Free
    <2>4. /\ r.pc = "addSelf" /\ r.call = n
      BY DEF CallsInv, TypeOK, Request
    <2>5. Writes(p, r, n, c)
      BY <2>1 DEF Writes, CallsInv, TypeOK
    <2> HIDE DEF c, r
    <2>6. InFlight(r, c)
      BY <2>3, <2>4 DEF InFlight, Joining, Metering, Reading
    <2>7. Fits(r, c)
      <3>1. Cardinality(c.active) = 0 /\ Cardinality(c.joined) = 0
        BY <2>3, FS_EmptySet
      <3>2. r.pc \in WithCall
        BY <2>4 DEF WithCall, Points
      <3> QED BY <2>3, <2>6, <3>1, <3>2, CeilingType DEF Fits, Counted
    <2>8. LiveIn(c.channel) = {}
      BY <2>2, <2>3 DEF SerialInv
    <2> QED BY <2>2, <2>4, <2>5, <2>7, <2>8, SerialWrite
  <1>8. CASE AddSelf(p)
    <2> DEFINE c == Joined(d, req[p].user)
    <2>1. req[p].pc = "addSelf" /\ req[p].pc \in WithCall /\ Return(p)
      BY <1>8 DEF AddSelf, At, WithCall, Points
    <2>2. /\ InFlight(req[p], d) /\ Counted(d) /\ d \in Call /\ RowOK(d)
          /\ req[p].user \in Users
      BY <2>1, Working, HasCall
    <2>3. d.status = "ringing" /\ d.joined = {} /\ d.rows = 0 /\ d.charges = 0
      BY <2>1, <2>2 DEF InFlight
    <2>4. d.active = {}
      BY <2>2, <2>3 DEF RowOK
    <2>5. calls' = [calls EXCEPT ![k] = c]
      BY <1>8, <2>1, <2>4, WritesJoined DEF AddSelf, UniqueParticipant
    <2>6. /\ Counted(c) /\ Cardinality(c.active) = Cardinality(d.active) + 1
          /\ c.channel = d.channel
      BY <2>2, <2>3, <2>4, OneMore
    <2>7. c.status = "ringing" /\ c.charges = 0 /\ Cardinality(c.active) = 1
      BY <2>2, <2>3, <2>4, <2>6, RowAdd, FS_EmptySet
    <2> HIDE DEF c
    <2>8. Idle.pc \notin WithCall /\ Idle.pc \notin {"meterSolo", "create"}
      BY DEF Idle, WithCall
    <2>9. Fits(Idle, c)
      <3>1. Steady(c)
        BY <2>7 DEF Steady
      <3> QED BY <2>6, <2>7, <2>8, <3>1, CeilingType DEF Fits
    <2>10. Live(k)
      BY <2>3 DEF Live
    <2>11. req' = [req EXCEPT ![p] = Idle]
      BY <2>1 DEF Return
    <2> QED BY <2>1, <2>5, <2>6, <2>8, <2>9, <2>10, <2>11, SerialRow
  <1> QED BY <1>1, <1>2, <1>3, <1>4, <1>5, <1>6, <1>7, <1>8 DEF InitiateStep

LEMMA JoinSerial ==
  ASSUME CallsInv, SerialInv, Serial, NEW p \in Requests, JoinStep(p)
  PROVE  SerialInv'
  <1> DEFINE k == req[p].call
             d == calls[k]
  <1>1. ASSUME NEW u \in Users, NEW n \in CallIds, Join(p, u, n)
        PROVE  SerialInv'
    <2> DEFINE b == calls[n].status = "ringing"
               r == [Idle EXCEPT !.pc = "joinLookup", !.user = u, !.call = n,
                                 !.ringing = b]
    <2>1. r.pc = "joinLookup" /\ r.call = n /\ r.ringing = b
      BY DEF Idle
    <2>2. /\ At(p, "idle") /\ req' = [req EXCEPT ![p] = r] /\ UNCHANGED calls
          /\ Live(n)
      BY <1>1 DEF Join
    <2> HIDE DEF r
    <2> QED BY <2>1, <2>2, SerialBegin
  <1>2. CASE JoinLookup(p)
    <2>1. req[p].pc = "joinLookup" /\ req[p].pc \in WithCall /\ UNCHANGED calls
      BY <1>2 DEF JoinLookup, At, WithCall, Points
    <2>2. InFlight(req[p], d) /\ Cardinality(d.active) \in Nat
      BY <2>1, Working
    <2>3. Steady(d)
      BY <2>1, <2>2 DEF InFlight, Reading
    <2> DEFINE r(pc) == [req[p] EXCEPT !.pc = pc]
    <2>4. ASSUME NEW pc \in {"joinRecount", "joinCount"}
          PROVE  InFlight(r(pc), d)
      <3>1. r(pc).pc = pc /\ r(pc).ringing = req[p].ringing
        BY AtPoint
      <3> HIDE DEF r
      <3> QED BY <2>1, <2>2, <2>3, <3>1 DEF InFlight, Steady, Joining, Metering, Reading
    <2>5. ASSUME NEW pc \in {"joinRecount", "joinCount"}, Goto(p, pc)
          PROVE  SerialInv'
      <3>1. pc \in WithCall \ Metering
        BY DEF WithCall, Points, Metering
      <3> QED BY <2>1, <2>4, <2>5, <3>1, SerialGoto
    <2> QED BY <1>2, <2>5 DEF JoinLookup
  <1>3. CASE JoinCount(p)
    <2>1. req[p].pc = "joinCount" /\ req[p].pc \in WithCall /\ UNCHANGED calls
      BY <1>3 DEF JoinCount, At, WithCall, Points
    <2>2. InFlight(req[p], d) /\ Cardinality(d.active) \in Nat
      BY <2>1, Working
    <2>3. Steady(d)
      BY <2>1, <2>2 DEF InFlight, Reading
    <2>4. CASE HasCapacity(Cardinality(d.active), ceiling) /\ Goto(p, "joinAdd")
      <3> DEFINE r == [req[p] EXCEPT !.pc = "joinAdd"]
      <3>1. r.pc = "joinAdd" /\ r.ringing = req[p].ringing
        BY AtPoint
      <3> HIDE DEF r
      <3>2. InFlight(r, d)
        BY <2>1, <2>2, <2>3, <2>4, <3>1
           DEF InFlight, Steady, Joining, Metering, Reading, HasCapacity
      <3>3. "joinAdd" \in WithCall \ Metering
        BY DEF WithCall, Points, Metering
      <3> QED BY <2>1, <2>4, <3>2, <3>3, SerialGoto DEF r
    <2>5. CASE Return(p)
      BY <2>1, <2>3, <2>5, SerialStop
    <2>6. LookupOutcomes = {TRUE} /\ participantLimit(TRUE) = ceiling
      BY DEF LookupOutcomes, ceiling, Serial
    <2> QED BY <1>3, <2>4, <2>5, <2>6 DEF JoinCount
  <1>4. CASE JoinAdd(p)
    <2>1. req[p].pc = "joinAdd" /\ req[p].pc \in WithCall
      BY <1>4 DEF JoinAdd, At, WithCall, Points
    <2>2. /\ InFlight(req[p], d) /\ Counted(d) /\ d \in Call /\ RowOK(d)
          /\ req[p].user \in Users /\ Cardinality(d.active) \in Nat
      BY <2>1, Working, HasCall
    <2>3. Steady(d) /\ d.status \in {"ringing", "active"} /\ d.charges = 0
      BY <2>1, <2>2 DEF InFlight, Reading, Metering
    <2>4. CASE UNCHANGED calls /\ Return(p)
      BY <2>3, <2>4, SerialStop
    <2>5. CASE /\ req[p].user \notin d.active
               /\ AddCallParticipant(k, req[p].user) /\ Goto(p, "joinRecount")
      <3> DEFINE c == Joined(d, req[p].user)
                 r == [req[p] EXCEPT !.pc = "joinRecount"]
      <3>1. /\ r.pc = "joinRecount" /\ r.ringing = req[p].ringing /\ r.call = k
            /\ req' = [req EXCEPT ![p] = r]
        BY <2>5, AtPoint
      <3>2. calls' = [calls EXCEPT ![k] = c]
        BY <2>1, <2>5, WritesJoined
      <3>3. d.active # {}
        BY <2>3, FS_EmptySet DEF Steady
      <3>4. /\ Counted(c) /\ Cardinality(c.active) = Cardinality(d.active) + 1
            /\ c.channel = d.channel
        BY <2>2, <2>5, <3>3, OneMore
      <3>5. c.status = d.status /\ c.charges = 0
        BY <2>2, <2>3, RowAdd
      <3> HIDE DEF c, r
      <3>6. InFlight(r, c)
        BY <2>1, <2>2, <2>3, <3>1, <3>4, <3>5
           DEF InFlight, Steady, Joining, Metering, Reading
      <3>7. Fits(r, c)
        <4>1. ceiling > 0 => Cardinality(d.active) < ceiling
          BY <2>1, <2>2 DEF InFlight
        <4>2. ceiling > 0 => Cardinality(c.active) <= ceiling
          BY <2>2, <3>4, <4>1, CeilingType
        <4>3. r.pc \in WithCall
          BY <3>1 DEF WithCall, Points
        <4> QED BY <3>4, <3>6, <4>2, <4>3 DEF Fits
      <3>8. Live(k)
        BY <2>3 DEF Live
      <3> QED BY <2>1, <3>1, <3>2, <3>4, <3>7, <3>8, SerialRow
    <2> QED BY <1>4, <2>4, <2>5 DEF JoinAdd, UniqueParticipant
  <1>5. CASE JoinRecount(p)
    <2>1. req[p].pc = "joinRecount" /\ req[p].pc \in WithCall /\ UNCHANGED calls
      BY <1>5 DEF JoinRecount, At, WithCall, Points
    <2>2. InFlight(req[p], d) /\ Cardinality(d.active) \in Nat
      BY <2>1, Working
    <2>3. CASE Cardinality(d.active) >= 2 /\ Goto(p, "joinActivate")
      <3> DEFINE r == [req[p] EXCEPT !.pc = "joinActivate"]
      <3>1. r.pc = "joinActivate" /\ r.ringing = req[p].ringing
        BY AtPoint
      <3> HIDE DEF r
      <3>2. InFlight(r, d)
        BY <2>1, <2>2, <2>3, <3>1 DEF InFlight, Joining, Metering, Reading
      <3>3. "joinActivate" \in WithCall \ Metering
        BY DEF WithCall, Points, Metering
      <3> QED BY <2>1, <2>3, <3>2, <3>3, SerialGoto DEF r
    <2>4. CASE ~(req[p].ringing /\ Cardinality(d.active) >= 2) /\ Return(p)
      <3>1. Steady(d)
        BY <2>1, <2>2, <2>4 DEF InFlight, Steady, Joining, Metering
      <3> QED BY <2>1, <2>4, <3>1, SerialStop
    <2> QED BY <1>5, <2>3, <2>4 DEF JoinRecount
  <1>6. CASE JoinActivate(p)
    <2> DEFINE c == WithStatus(d, "active")
    <2>1. /\ req[p].pc = "joinActivate" /\ req[p].pc \in WithCall
          /\ req' = [req EXCEPT ![p] = Idle]
      BY <1>6 DEF JoinActivate, At, WithCall, Points, Return
    <2>2. /\ InFlight(req[p], d) /\ Counted(d) /\ d \in Call
          /\ ceiling > 0 => Cardinality(d.active) <= ceiling
      BY <2>1, Working, HasCall
    <2>3. calls' = [calls EXCEPT ![k] = c]
      BY <1>6, <2>1, WritesStatus DEF JoinActivate
    <2>4. /\ Cardinality(d.active) >= 2 /\ d.charges = 0
          /\ d.status \in {"ringing", "active"}
      BY <2>1, <2>2 DEF InFlight, Metering
    <2>5. /\ c.active = d.active /\ c.status = "active" /\ c.channel = d.channel
          /\ c.joined = d.joined /\ c.rows = d.rows /\ c.charges = d.charges
      BY <2>2, StatusFields
    <2> HIDE DEF c
    <2>6. Idle.pc \notin WithCall /\ Idle.pc \notin {"meterSolo", "create"}
      BY DEF Idle, WithCall
    <2>7. Fits(Idle, c)
      <3>1. Steady(c)
        BY <2>4, <2>5 DEF Steady
      <3> QED BY <2>2, <2>5, <2>6, <3>1 DEF Fits, Counted
    <2>8. Live(k)
      BY <2>4 DEF Live
    <2> QED BY <2>1, <2>3, <2>5, <2>6, <2>7, <2>8, SerialRow
  <1> QED BY <1>1, <1>2, <1>3, <1>4, <1>5, <1>6 DEF JoinStep

LEMMA LeaveSerial ==
  ASSUME CallsInv, SerialInv, Serial, NEW p \in Requests, LeaveStep(p)
  PROVE  SerialInv'
  <1> DEFINE k == req[p].call
             d == calls[k]
  <1>1. ASSUME NEW u \in Users, NEW n \in CallIds, Leave(p, u, n)
        PROVE  SerialInv'
    <2> DEFINE r == [Idle EXCEPT !.pc = "leaveLookup", !.user = u, !.call = n]
    <2>1. r.pc = "leaveLookup" /\ r.call = n
      BY DEF Idle
    <2>2. /\ At(p, "idle") /\ req' = [req EXCEPT ![p] = r] /\ UNCHANGED calls
          /\ Live(n)
      BY <1>1 DEF Leave
    <2> HIDE DEF r
    <2> QED BY <2>1, <2>2, SerialBegin
  <1>2. CASE LeaveLookup(p)
    <2>1. req[p].pc = "leaveLookup" /\ req[p].pc \in WithCall /\ UNCHANGED calls
      BY <1>2 DEF LeaveLookup, At, WithCall, Points
    <2>2. InFlight(req[p], d)
      BY <2>1, Working
    <2>3. Steady(d)
      BY <2>1, <2>2 DEF InFlight, Reading
    <2>4. CASE Goto(p, "leaveMark")
      <3> DEFINE r == [req[p] EXCEPT !.pc = "leaveMark"]
      <3>1. r.pc = "leaveMark"
        BY AtPoint
      <3> HIDE DEF r
      <3>2. InFlight(r, d)
        BY <2>1, <2>2, <2>3, <3>1 DEF InFlight, Joining, Metering
      <3>3. "leaveMark" \in WithCall \ Metering
        BY DEF WithCall, Points, Metering
      <3> QED BY <2>1, <2>4, <3>2, <3>3, SerialGoto DEF r
    <2>5. CASE Return(p)
      BY <2>1, <2>3, <2>5, SerialStop
    <2> QED BY <1>2, <2>4, <2>5 DEF LeaveLookup
  <1>3. CASE LeaveMark(p)
    <2>1. req[p].pc = "leaveMark" /\ req[p].pc \in WithCall
      BY <1>3 DEF LeaveMark, At, WithCall, Points
    <2>2. /\ InFlight(req[p], d) /\ Counted(d) /\ d \in Call
          /\ ceiling > 0 => Cardinality(d.active) <= ceiling
          /\ d.active \in SUBSET Users
      BY <2>1, Working, HasCall
    <2>3. Steady(d) /\ d.status \in {"ringing", "active"} /\ d.charges = 0
      BY <2>1, <2>2 DEF InFlight, Reading, Metering
    <2>4. CASE UNCHANGED calls /\ Return(p)
      BY <2>3, <2>4, SerialStop
    <2>5. CASE /\ req[p].user \in d.active
               /\ MarkCallParticipantLeft(k, req[p].user) /\ Goto(p, "leaveCount")
      <3> DEFINE c == Left(d, req[p].user)
                 r == [req[p] EXCEPT !.pc = "leaveCount"]
      <3>1. r.pc = "leaveCount" /\ r.call = k /\ req' = [req EXCEPT ![p] = r]
        BY <2>5, AtPoint
      <3>2. calls' = [calls EXCEPT ![k] = c]
        BY <2>1, <2>5, WritesLeft
      <3>3. /\ c.active = d.active \ {req[p].user} /\ c.status = d.status
            /\ c.channel = d.channel /\ c.joined = d.joined /\ c.rows = d.rows
            /\ c.charges = d.charges
        BY <2>2, LeftFields
      <3> HIDE DEF c, r
      <3>4. /\ Cardinality(d.active) \in Nat
            /\ Cardinality(c.active) = Cardinality(d.active) - 1
        <4>1. /\ Cardinality(d.active) \in Nat
              /\ Cardinality(d.active \ {req[p].user}) = Cardinality(d.active) - 1
          BY <2>2, <2>5, OneLess
        <4> QED BY <3>3, <4>1
      <3>5. InFlight(r, c)
        BY <2>3, <3>1, <3>3, <3>4 DEF InFlight, Steady, Joining, Metering, Reading
      <3>6. Fits(r, c)
        <4>1. r.pc \in WithCall
          BY <3>1 DEF WithCall, Points
        <4>2. ceiling > 0 => Cardinality(c.active) <= ceiling
          BY <2>2, <3>4, CeilingType
        <4>3. Counted(c)
          BY <2>2, <3>3 DEF Counted
        <4> QED BY <3>5, <4>1, <4>2, <4>3 DEF Fits
      <3>7. Live(k)
        BY <2>3 DEF Live
      <3> QED BY <2>1, <3>1, <3>2, <3>3, <3>6, <3>7, SerialRow
    <2> QED BY <1>3, <2>4, <2>5 DEF LeaveMark
  <1>4. CASE LeaveCount(p)
    <2>1. req[p].pc = "leaveCount" /\ req[p].pc \in WithCall /\ UNCHANGED calls
      BY <1>4 DEF LeaveCount, At, WithCall, Points
    <2>2. /\ InFlight(req[p], d) /\ Cardinality(d.active) \in Nat
          /\ IsFiniteSet(d.active)
      BY <2>1, Working
    <2> DEFINE r(pc) == [req[p] EXCEPT !.pc = pc]
    <2>3. CASE Cardinality(d.active) = 0 /\ Goto(p, "leaveEnd")
      <3>1. r("leaveEnd").pc = "leaveEnd"
        BY AtPoint
      <3>2. d.active = {}
        BY <2>2, <2>3, FS_EmptySet
      <3> HIDE DEF r
      <3>3. InFlight(r("leaveEnd"), d)
        BY <2>1, <2>2, <3>1, <3>2 DEF InFlight, Joining, Metering, Reading
      <3>4. "leaveEnd" \in WithCall \ Metering
        BY DEF WithCall, Points, Metering
      <3> QED BY <2>1, <2>3, <3>3, <3>4, SerialGoto DEF r
    <2>4. CASE Cardinality(d.active) = 1 /\ Goto(p, "leaveList")
      <3>1. r("leaveList").pc = "leaveList"
        BY AtPoint
      <3> HIDE DEF r
      <3>2. InFlight(r("leaveList"), d)
        BY <2>1, <2>2, <2>4, <3>1 DEF InFlight, Joining, Metering, Reading
      <3>3. "leaveList" \in WithCall \ Metering
        BY DEF WithCall, Points, Metering
      <3> QED BY <2>1, <2>4, <3>2, <3>3, SerialGoto DEF r
    <2>5. CASE Cardinality(d.active) > 1 /\ Return(p)
      <3>1. Steady(d)
        BY <2>1, <2>2, <2>5 DEF InFlight, Steady, Metering
      <3> QED BY <2>1, <2>5, <3>1, SerialStop
    <2> QED BY <1>4, <2>3, <2>4, <2>5 DEF LeaveCount
  <1>5. CASE LeaveList(p)
    <2>1. req[p].pc = "leaveList" /\ req[p].pc \in WithCall /\ UNCHANGED calls
      BY <1>5 DEF LeaveList, At, WithCall, Points
    <2>2. InFlight(req[p], d)
      BY <2>1, Working
    <2>3. d.active # {}
      BY <2>1, <2>2, FS_EmptySet DEF InFlight
    <2> DEFINE r == [req[p] EXCEPT !.rest = d.active, !.pc = "leaveMarkRest"]
    <2>4. req[p] \in Request
      BY DEF CallsInv, TypeOK
    <2>5. r.pc = "leaveMarkRest" /\ r.rest = d.active /\ r.call = k
      BY <2>4 DEF Request
    <2>6. req' = [req EXCEPT ![p] = r]
      BY <1>5, <2>3 DEF LeaveList, CallsInv, TypeOK
    <2> HIDE DEF r
    <2>7. InFlight(r, d)
      BY <2>1, <2>2, <2>5 DEF InFlight, Joining, Metering, Reading
    <2>8. r.pc \in WithCall /\ r.pc \notin {"meterSolo", "create"}
      BY <2>5 DEF WithCall, Points
    <2> QED BY <2>1, <2>5, <2>6, <2>7, <2>8, SerialRead
  <1>6. CASE LeaveMarkRest(p)
    <2>1. PICK u \in req[p].rest :
            /\ MarkCallParticipantLeft(k, u)
            /\ req' = [req EXCEPT ![p].rest = @ \ {u},
                                  ![p].pc = IF req[p].rest = {u} THEN "leaveEnd"
                                            ELSE "leaveMarkRest"]
      BY <1>6 DEF LeaveMarkRest
    <2> DEFINE pc == IF req[p].rest = {u} THEN "leaveEnd" ELSE "leaveMarkRest"
               r == [req[p] EXCEPT !.rest = @ \ {u}, !.pc = pc]
               c == Left(d, u)
    <2>2. req[p].pc = "leaveMarkRest" /\ req[p].pc \in WithCall
      BY <1>6 DEF LeaveMarkRest, At, WithCall, Points
    <2>3. /\ InFlight(req[p], d) /\ Counted(d) /\ d \in Call
          /\ ceiling > 0 => Cardinality(d.active) <= ceiling
          /\ d.active \in SUBSET Users /\ req[p] \in Request
      BY <2>2, Working, HasCall
    <2>4. /\ req[p].rest = d.active /\ d.charges = 0
          /\ d.status \in {"ringing", "active"}
      BY <2>2, <2>3 DEF InFlight, Metering
    <2>5. /\ c.active = d.active \ {u} /\ c.status = d.status
          /\ c.channel = d.channel /\ c.joined = d.joined /\ c.rows = d.rows
          /\ c.charges = d.charges
      BY <2>3, LeftFields
    <2>6. calls' = [calls EXCEPT ![k] = c]
      BY <2>1, <2>2, WritesLeft
    <2>7. /\ r.pc = pc /\ r.call = k /\ r.rest = req[p].rest \ {u}
      BY <2>3 DEF Request
    <2>8. req' = [req EXCEPT ![p] = r]
      BY <2>1 DEF CallsInv, TypeOK
    <2>9. \/ pc = "leaveEnd" /\ c.active = {}
          \/ pc = "leaveMarkRest"
      BY <2>4, <2>5
    <2> HIDE DEF pc, r, c
    <2>10. /\ Cardinality(d.active) \in Nat
           /\ Cardinality(c.active) = Cardinality(d.active) - 1
      BY <2>1, <2>3, <2>4, <2>5, OneLess
    <2>11. InFlight(r, c)
      BY <2>4, <2>5, <2>7, <2>9 DEF InFlight, Joining, Metering, Reading
    <2>12. r.pc \in WithCall /\ r.pc \notin {"meterSolo", "create"}
      BY <2>7, <2>9 DEF WithCall, Points
    <2>13. Fits(r, c)
      <3>1. ceiling > 0 => Cardinality(c.active) <= ceiling
        BY <2>3, <2>10, CeilingType
      <3>2. Counted(c)
        BY <2>3, <2>5 DEF Counted
      <3> QED BY <2>11, <2>12, <3>1, <3>2 DEF Fits
    <2>14. Live(k)
      BY <2>4 DEF Live
    <2> QED BY <2>2, <2>5, <2>6, <2>7, <2>8, <2>12, <2>13, <2>14, SerialRow
  <1>7. CASE LeaveEnd(p)
    <2> DEFINE c == WithStatus(d, "ended")
               r == [req[p] EXCEPT !.pc = "leaveMeter"]
    <2>1. req[p].pc = "leaveEnd" /\ req[p].pc \in WithCall
      BY <1>7 DEF LeaveEnd, At, WithCall, Points
    <2>2. /\ InFlight(req[p], d) /\ Counted(d) /\ d \in Call
      BY <2>1, Working, HasCall
    <2>3. r.pc = "leaveMeter" /\ r.call = k /\ req' = [req EXCEPT ![p] = r]
      BY <1>7, AtPoint DEF LeaveEnd
    <2>4. calls' = [calls EXCEPT ![k] = c]
      BY <1>7, <2>1, WritesStatus DEF LeaveEnd
    <2>5. /\ c.active = {} /\ c.status = "ended" /\ c.channel = d.channel
          /\ c.joined = d.joined /\ c.rows = d.rows /\ c.charges = 0
      BY <2>1, <2>2, StatusFields DEF InFlight
    <2> HIDE DEF c, r
    <2>6. InFlight(r, c)
      BY <2>3, <2>5 DEF InFlight, Joining, Metering, Reading
    <2>7. r.pc \in WithCall /\ r.pc \notin {"meterSolo", "create"}
      BY <2>3 DEF WithCall, Points
    <2>8. Fits(r, c)
      <3>1. Cardinality(c.active) = 0
        BY <2>5, FS_EmptySet
      <3> QED BY <2>2, <2>5, <2>6, <2>7, <3>1, CeilingType DEF Fits, Counted
    <2> QED BY <2>1, <2>3, <2>4, <2>5, <2>7, <2>8, SerialRow
  <1>8. CASE LeaveMeter(p)
    <2>1. Idle.pc = "idle" /\ req' = [req EXCEPT ![p] = Idle]
      BY <1>8 DEF LeaveMeter, Idle, Return
    <2>2. req[p].pc \in Metering /\ Meter(k)
      BY <1>8 DEF LeaveMeter, At, Metering
    <2> QED BY <2>1, <2>2, SerialMeter
  <1> QED BY <1>1, <1>2, <1>3, <1>4, <1>5, <1>6, <1>7, <1>8 DEF LeaveStep

\* A row of which only the recordings change.
LEMMA SerialRecording ==
  ASSUME CallsInv, SerialInv, Serial, NEW p \in Requests,
         req[p].pc \in {"startCreate", "stopEnd"}, Return(p), NEW c,
         calls' = [calls EXCEPT ![req[p].call] = c],
         c.active = calls[req[p].call].active, c.joined = calls[req[p].call].joined,
         c.rows = calls[req[p].call].rows, c.status = calls[req[p].call].status,
         c.mode = calls[req[p].call].mode, c.charges = calls[req[p].call].charges,
         c.channel = calls[req[p].call].channel
  PROVE  SerialInv'
  <1>1. req[p].pc \in WithCall /\ req' = [req EXCEPT ![p] = Idle]
    BY DEF WithCall, Points, Return
  <1>2. /\ InFlight(req[p], calls[req[p].call]) /\ Counted(calls[req[p].call])
        /\ ceiling > 0 => Cardinality(calls[req[p].call].active) <= ceiling
    BY <1>1, Working
  <1>3. Steady(calls[req[p].call]) /\ Live(req[p].call)
    BY <1>2 DEF InFlight, Reading, Metering, Live
  <1>4. Idle.pc \notin WithCall /\ Idle.pc \notin {"meterSolo", "create"}
    BY DEF Idle, WithCall
  <1>5. Fits(Idle, c)
    BY <1>2, <1>3, <1>4 DEF Fits, Steady, Counted
  <1> QED BY <1>1, <1>3, <1>4, <1>5, SerialRow

LEMMA RecordingSerial ==
  ASSUME CallsInv, SerialInv, Serial, NEW p \in Requests, RecordingStep(p)
  PROVE  SerialInv'
  <1> DEFINE k == req[p].call
             d == calls[k]
  <1>1. ASSUME NEW u \in Users, NEW n \in CallIds, NEW pc \in {"startLookup", "stopLookup"},
               ValidateSignal(p, u, n, pc)
        PROVE  SerialInv'
    <2> DEFINE r == [Idle EXCEPT !.pc = pc, !.user = u, !.call = n]
    <2>1. r.pc = pc /\ r.call = n
      BY DEF Idle
    <2>2. /\ At(p, "idle") /\ req' = [req EXCEPT ![p] = r] /\ UNCHANGED calls
          /\ Live(n)
      BY <1>1 DEF ValidateSignal
    <2> HIDE DEF r
    <2> QED BY <2>1, <2>2, SerialBegin
  <1>2. ASSUME req[p].pc \in {"startLookup", "stopLookup", "startCheck"}, UNCHANGED calls,
               NEW pc \in {"startCheck", "stopEnd", "startCreate"},
               Goto(p, pc) \/ Return(p)
        PROVE  SerialInv'
    <2>1. req[p].pc \in WithCall /\ pc \in WithCall \ Metering
      BY <1>2 DEF WithCall, Points, Metering
    <2>2. InFlight(req[p], d)
      BY <2>1, Working
    <2>3. Steady(d)
      BY <1>2, <2>2 DEF InFlight, Reading
    <2>4. CASE Goto(p, pc)
      <3> DEFINE r == [req[p] EXCEPT !.pc = pc]
      <3>1. r.pc = pc
        BY AtPoint
      <3> HIDE DEF r
      <3>2. InFlight(r, d)
        BY <1>2, <2>2, <2>3, <3>1 DEF InFlight, Joining, Metering
      <3> QED BY <1>2, <2>1, <2>4, <3>2, SerialGoto DEF r
    <2>5. CASE Return(p)
      BY <1>2, <2>3, <2>5, SerialStop
    <2> QED BY <1>2, <2>4, <2>5
  <1>3. CASE SignalLookup(p, "startLookup", "startCheck")
    BY <1>2, <1>3 DEF SignalLookup, At
  <1>4. CASE SignalLookup(p, "stopLookup", "stopEnd")
    BY <1>2, <1>4 DEF SignalLookup, At
  <1>5. CASE StartCheck(p)
    BY <1>2, <1>5 DEF StartCheck, At
  <1>6. CASE StartCreate(p)
    <2>1. /\ req[p].pc = "startCreate" /\ Return(p) /\ req[p].pc \in WithCall
      BY <1>6 DEF StartCreate, At, WithCall, Points
    <2>2. d \in Call /\ k \in CallIds
      BY <2>1, HasCall
    <2>3. CASE calls' = [calls EXCEPT ![k].started = @ + 1,
                                      ![k].recording = @ \cup {calls[k].started + 1}]
      <3> DEFINE c == Recorded(d)
      <3>1. calls' = [calls EXCEPT ![k] = c]
        BY <2>2, <2>3 DEF Recorded, CallsInv, TypeOK
      <3>2. /\ c.active = d.active /\ c.joined = d.joined /\ c.rows = d.rows
            /\ c.status = d.status /\ c.mode = d.mode /\ c.charges = d.charges
            /\ c.channel = d.channel
        BY <2>2 DEF Recorded, Call
      <3> HIDE DEF c
      <3> QED BY <2>1, <3>1, <3>2, SerialRecording
    <2>4. CASE UNCHANGED calls
      <3>1. Steady(d)
        BY <2>1, Working DEF InFlight, Reading
      <3> QED BY <2>1, <2>4, <3>1, SerialStop
    <2> QED BY <1>6, <2>3, <2>4 DEF StartCreate
  <1>7. CASE StopEnd(p)
    <2>1. /\ req[p].pc = "stopEnd" /\ Return(p) /\ req[p].pc \in WithCall
      BY <1>7 DEF StopEnd, At, WithCall, Points
    <2>2. d \in Call /\ k \in CallIds
      BY <2>1, HasCall
    <2>3. PICK n \in 1..MaxRecordings : calls' = [calls EXCEPT ![k].recording = @ \ {n}]
      BY <1>7 DEF StopEnd
    <2> DEFINE c == Stopped(d, n)
    <2>4. calls' = [calls EXCEPT ![k] = c]
      BY <2>2, <2>3 DEF Stopped, CallsInv, TypeOK
    <2>5. /\ c.active = d.active /\ c.joined = d.joined /\ c.rows = d.rows
          /\ c.status = d.status /\ c.mode = d.mode /\ c.charges = d.charges
          /\ c.channel = d.channel
      BY <2>2 DEF Stopped, Call
    <2> HIDE DEF c
    <2> QED BY <2>1, <2>4, <2>5, SerialRecording
  <1> QED BY <1>1, <1>3, <1>4, <1>5, <1>6, <1>7 DEF RecordingStep

LEMMA InitSerial == Init => SerialInv
  <1> SUFFICES ASSUME Init PROVE SerialInv
    OBVIOUS
  <1>1. \A k \in CallIds : calls[k] = Free
    BY DEF Init
  <1>2. \A p \in Requests : req[p].pc = "idle"
    BY DEF Init, Idle
  <1>3. Cardinality({}) = 0
    BY FS_EmptySet
  <1>4. /\ Free.status = "free" /\ Free.active = {} /\ Free.joined = {}
        /\ Free.rows = 0 /\ Free.charges = 0
    BY DEF Free
  <1>5. Steady(Free) /\ Counted(Free)
    BY <1>3, <1>4 DEF Steady, Counted
  <1>6. CapacityLimit
    BY <1>1, <1>3, <1>4, CeilingType DEF CapacityLimit
  <1>7. \A k \in CallIds : ~Live(k)
    BY <1>1, <1>4 DEF Live
  <1> QED BY <1>1, <1>2, <1>5, <1>6, <1>7 DEF SerialInv, WithCall

LEMMA NextSerial == Serial /\ CallsInv /\ SerialInv /\ [Next]_vars => SerialInv'
  <1> SUFFICES ASSUME Serial, CallsInv, SerialInv, [Next]_vars PROVE SerialInv'
    OBVIOUS
  <1>1. CASE UNCHANGED vars
    <2>1. calls' = calls /\ req' = req
      BY <1>1 DEF vars
    <2> QED BY <2>1 DEF SerialInv, CapacityLimit, Live, LiveIn, ceiling
  <1>2. ASSUME NEW p \in Requests, Fail(p) PROVE SerialInv'
    BY <1>2 DEF Fail, Serial
  <1> QED BY <1>1, <1>2, InitiateSerial, JoinSerial, LeaveSerial, RecordingSerial DEF Next

\* What is left in the tables when requests are served one at a time.
LEMMA SerialInvCalls == Serial /\ CallsInv /\ SerialInv => SerialCalls
  <1> SUFFICES ASSUME Serial, CallsInv, SerialInv PROVE SerialCalls
    OBVIOUS
  <1>1. OneLiveCall
    <2> SUFFICES ASSUME NEW ch \in Channels PROVE Cardinality(LiveIn(ch)) <= 1
      BY DEF OneLiveCall
    <2>1. \A k, l \in LiveIn(ch) : k = l
      BY DEF LiveIn, SerialInv
    <2>2. CASE LiveIn(ch) = {}
      BY <2>2, FS_EmptySet
    <2>3. ASSUME NEW k \in LiveIn(ch) PROVE Cardinality(LiveIn(ch)) <= 1
      <3>1. LiveIn(ch) = {k}
        BY <2>1
      <3> QED BY <3>1, FS_Singleton
    <2> QED BY <2>2, <2>3
  <1>2. CapacityLimit
    BY DEF SerialInv
  <1>3. Settled => \A k \in CallIds : Steady(calls[k])
    BY DEF Settled, At, SerialInv, WithCall
  <1>4. StatusMatchesParticipants
    BY <1>3 DEF StatusMatchesParticipants, Steady
  <1>5. ChargedOnce
    BY <1>3 DEF ChargedOnce, Steady
  <1>6. SoloNotBilled
    BY DEF SoloNotBilled, CallsInv, Rows, RowOK, SerialInv, Counted
  <1> QED BY <1>1, <1>2, <1>4, <1>5, <1>6 DEF SerialCalls

\* The promises of docs/WEBRTC.md, for requests that service.go serves one at
\* a time: one live call per channel, no more participants than the limit, a
\* status that fits them, and one charge for exactly the video calls that were
\* shared.  What breaks them is only the overlap or the loss of requests.
THEOREM SerialCorrect == ASSUME Serial PROVE Spec => []SerialCalls
  <1>1. Init => SerialInv
    BY InitSerial
  <1>2. CallsInv /\ SerialInv /\ [Next]_vars => SerialInv'
    BY NextSerial
  <1>3. CallsInv /\ SerialInv => SerialCalls
    BY SerialInvCalls
  <1> QED BY <1>1, <1>2, <1>3, Invariance, PTL DEF Spec

=============================================================================
