-------------------------------- MODULE Calls --------------------------------
(***************************************************************************)
(* The call service, internal/calls/service.go: voice and video calls of a *)
(* channel, their participants, recordings and video metering, kept in     *)
(* PostgreSQL.                                                             *)
(*                                                                         *)
(* The service opens no transaction: a request is a sequence of single     *)
(* statements, and any other request may run between two of them.  Each    *)
(* statement is one action here; req holds where each request in flight is *)
(* and the values it has read.  A request may also stop after any          *)
(* statement: a check refuses it, the database fails, the client goes away *)
(* and its context is cancelled, or the process dies.                      *)
(*                                                                         *)
(* Events published on the way change no state of the service and are left *)
(* out.  A call's row, its participants' rows and its recordings are one   *)
(* record of calls; a participant's row that was closed matters only to    *)
(* the two counts that the code takes, rows and joined.                    *)
(***************************************************************************)
EXTENDS Naturals, FiniteSets

CONSTANTS
  Users, Channels, Modes,   \* Modes is a subset of {"voice", "video"}
  maxParticipants,          \* CALL_MAX_PARTICIPANTS, 0 is "no limit"
  planLimit,                \* max_call_participants of the owner's plan
  Requests,                 \* bound: requests that can be in flight together
  MaxCalls,                 \* bound: rows of calls
  MaxRows,                  \* bound: rows of call_participants for a call
  MaxRecordings,            \* bound: rows of call_recordings for a call
  Failures,                 \* may a request stop between two statements?
  NoUser, NoChannel

ASSUME CallsAssumption ==
  /\ IsFiniteSet(Users)
  /\ IsFiniteSet(Requests)
  /\ NoUser \notin Users
  /\ NoChannel \notin Channels
  /\ Modes \subseteq {"voice", "video"}
  /\ maxParticipants \in Nat
  /\ planLimit \in Nat
  /\ MaxCalls \in Nat
  /\ MaxRows \in Nat
  /\ MaxRecordings \in Nat
  /\ Failures \in BOOLEAN

VARIABLES
  calls,   \* the tables calls, call_participants and call_recordings
  req      \* the requests in flight

vars == <<calls, req>>

CallIds == 1..MaxCalls

Call == [status : {"free", "ringing", "active", "ended"},
         channel : Channels \cup {NoChannel},
         mode : {"voice", "video"},
         active : SUBSET Users,        \* users with a row whose left_at is null
         joined : SUBSET Users,        \* users with a row
         rows : Nat,                   \* rows of call_participants
         charges : Nat,                \* times the call's minutes were recorded
         started : Nat,                \* rows of call_recordings
         recording : SUBSET Nat]       \* those whose ended_at is null

\* An id not used yet.
Free == [status |-> "free", channel |-> NoChannel, mode |-> "voice",
         active |-> {}, joined |-> {}, rows |-> 0, charges |-> 0,
         started |-> 0, recording |-> {}]

Points == {"idle",
           "findActive", "listSolo", "markSolo", "endSolo", "meterSolo",
           "create", "addSelf",
           "joinLookup", "joinCount", "joinAdd", "joinRecount", "joinActivate",
           "leaveLookup", "leaveMark", "leaveCount", "leaveList",
           "leaveMarkRest", "leaveEnd", "leaveMeter",
           "startLookup", "startCheck", "startCreate",
           "stopLookup", "stopEnd"}

Request == [pc : Points,
            user : Users \cup {NoUser},
            channel : Channels \cup {NoChannel},
            mode : {"voice", "video"},
            call : 0..MaxCalls,
            ringing : BOOLEAN,          \* the status JoinCall read first
            rest : SUBSET Users]        \* participants LeaveCall has to mark

Idle == [pc |-> "idle", user |-> NoUser, channel |-> NoChannel,
         mode |-> "voice", call |-> 0, ringing |-> FALSE, rest |-> {}]

TypeOK ==
  /\ calls \in [CallIds -> Call]
  /\ req \in [Requests -> Request]

Init ==
  /\ calls = [k \in CallIds |-> Free]
  /\ req = [p \in Requests |-> Idle]

Live(k) == calls[k].status \in {"ringing", "active"}
LiveIn(ch) == {k \in CallIds : Live(k) /\ calls[k].channel = ch}

At(p, pc) == req[p].pc = pc
Goto(p, pc) == req' = [req EXCEPT ![p].pc = pc]
Return(p) == req' = [req EXCEPT ![p] = Idle]

\* The bounds: a request that would need a row more than there may be does
\* not begin.
Pending(S) == {q \in Requests : req[q].pc \in S}
CallBudget ==
  Cardinality(Pending({"findActive", "listSolo", "markSolo", "endSolo",
                       "meterSolo", "create"}))
    < Cardinality({k \in CallIds : calls[k].status = "free"})
RowBudget(k) ==
  calls[k].rows + Cardinality({q \in Pending({"addSelf", "joinLookup",
                                 "joinCount", "joinAdd"}) : req[q].call = k})
    < MaxRows
RecordingBudget(k) ==
  calls[k].started + Cardinality({q \in Pending({"startLookup", "startCheck",
                                   "startCreate"}) : req[q].call = k})
    < MaxRecordings

-----------------------------------------------------------------------------
(* Limits.                                                                 *)

\* participantLimit: the plan's cap when it is set and the smaller one.  When
\* the plan cannot be looked up (known is FALSE) the node's own cap is used.
participantLimit(known) ==
  IF known /\ planLimit > 0 /\ (maxParticipants = 0 \/ planLimit < maxParticipants)
  THEN planLimit ELSE maxParticipants

LookupOutcomes == IF Failures THEN BOOLEAN ELSE {TRUE}

\* Mutant: one too many.
HasCapacityOffByOne(count, limit) == limit > 0 => count <= limit

\* assertParticipantCapacity
HasCapacity(count, limit) == limit > 0 => count < limit

-----------------------------------------------------------------------------
(* Statements used by several operations.                                  *)

\* UpdateCallStatus does not look at the status it overwrites.
UpdateCallStatus(k, status) == calls' = [calls EXCEPT ![k].status = status]

\* AddCallParticipant; the unique index on the open rows of (call, user).
UniqueParticipant(k, u) == u \notin calls[k].active
AddCallParticipant(k, u) ==
  calls' = [calls EXCEPT ![k].active = @ \cup {u}, ![k].joined = @ \cup {u},
                         ![k].rows = @ + 1]

MarkCallParticipantLeft(k, u) ==
  calls' = [calls EXCEPT ![k].active = @ \ {u}]

\* Mutant: the initiator alone is charged for.
BillableAlone(k) == calls[k].mode = "video" /\ calls[k].rows >= 1

\* meterVideoCall: which calls are charged.  The time between the creation
\* and the end of the call is positive and not modelled.
Billable(k) == calls[k].mode = "video" /\ calls[k].rows >= 2

\* An error of the metering is dropped.
Meter(k) ==
  \/ /\ Billable(k)
     /\ calls' = [calls EXCEPT ![k].charges = @ + 1]
  \/ /\ ~Billable(k) \/ Failures
     /\ UNCHANGED calls

-----------------------------------------------------------------------------
(* InitiateCall, with clearStaleSoloCall.                                  *)

\* Mutant: an empty mode is stored as it is.
InitiateRawMode(p, u, ch, m) ==
  /\ At(p, "idle")
  /\ CallBudget
  /\ req' = [req EXCEPT ![p] = [Idle EXCEPT !.pc = "findActive", !.user = u,
                                            !.channel = ch, !.mode = ""]]
  /\ UNCHANGED calls

\* The checks of the mode, the membership and the plan change nothing; the
\* ones that refuse are Fail.  assertParticipantCapacity(0) never does.
Initiate(p, u, ch, m) ==
  /\ At(p, "idle")
  /\ CallBudget
  /\ req' = [req EXCEPT ![p] = [Idle EXCEPT !.pc = "findActive", !.user = u,
                                            !.channel = ch, !.mode = m]]
  /\ UNCHANGED calls

\* GetActiveCallByChannel: the newest one.
FindActive(p) ==
  LET live == LiveIn(req[p].channel)
  IN /\ At(p, "findActive")
     /\ \/ /\ live = {}
           /\ Goto(p, "create")
        \/ \E k \in live :
             /\ \A l \in live : l <= k
             /\ req' = [req EXCEPT ![p].pc = "listSolo", ![p].call = k]
     /\ UNCHANGED calls

\* ListActiveCallParticipants: anything but the caller alone is refused with
\* ErrCallAlreadyActive.
ListSolo(p) ==
  /\ At(p, "listSolo")
  /\ IF calls[req[p].call].active = {req[p].user}
     THEN Goto(p, "markSolo") ELSE Return(p)
  /\ UNCHANGED calls

MarkSolo(p) ==
  /\ At(p, "markSolo")
  /\ MarkCallParticipantLeft(req[p].call, req[p].user)
  /\ Goto(p, "endSolo")

EndSolo(p) ==
  /\ At(p, "endSolo")
  /\ UpdateCallStatus(req[p].call, "ended")
  /\ Goto(p, "meterSolo")

MeterSolo(p) ==
  /\ At(p, "meterSolo")
  /\ Meter(req[p].call)
  /\ Goto(p, "create")

\* CreateCall: the next id of the sequence.
CreateCall(p) ==
  /\ At(p, "create")
  /\ \E k \in CallIds :
       /\ calls[k].status = "free"
       /\ \A l \in CallIds : l < k => calls[l].status # "free"
       /\ calls' = [calls EXCEPT ![k] = [Free EXCEPT !.status = "ringing",
                                                     !.channel = req[p].channel,
                                                     !.mode = req[p].mode]]
       /\ req' = [req EXCEPT ![p].pc = "addSelf", ![p].call = k]

AddSelf(p) ==
  LET k == req[p].call
      u == req[p].user
  IN /\ At(p, "addSelf")
     /\ IF UniqueParticipant(k, u)
        THEN AddCallParticipant(k, u)
        ELSE UNCHANGED calls
     /\ Return(p)

-----------------------------------------------------------------------------
(* JoinCall.                                                               *)

\* GetCallByID; an unknown or ended call is refused and leaves no trace.
Join(p, u, k) ==
  /\ At(p, "idle")
  /\ RowBudget(k)
  /\ Live(k)
  /\ req' = [req EXCEPT ![p] =
               [Idle EXCEPT !.pc = "joinLookup", !.user = u, !.call = k,
                            !.ringing = calls[k].status = "ringing"]]
  /\ UNCHANGED calls

\* GetActiveCallParticipant, after the membership check.
JoinLookup(p) ==
  /\ At(p, "joinLookup")
  /\ Goto(p, IF req[p].user \in calls[req[p].call].active
             THEN "joinRecount" ELSE "joinCount")
  /\ UNCHANGED calls

\* CountActiveCallParticipants and assertParticipantCapacity.
JoinCount(p) ==
  /\ At(p, "joinCount")
  /\ \E known \in LookupOutcomes :
       IF HasCapacity(Cardinality(calls[req[p].call].active), participantLimit(known))
       THEN Goto(p, "joinAdd") ELSE Return(p)
  /\ UNCHANGED calls

JoinAdd(p) ==
  LET k == req[p].call
      u == req[p].user
  IN /\ At(p, "joinAdd")
     /\ IF UniqueParticipant(k, u)
        THEN AddCallParticipant(k, u) /\ Goto(p, "joinRecount")
        ELSE UNCHANGED calls /\ Return(p)

\* Mutant: one participant is enough.
JoinRecountOne(p) ==
  /\ At(p, "joinRecount")
  /\ IF req[p].ringing /\ Cardinality(calls[req[p].call].active) >= 1
     THEN Goto(p, "joinActivate") ELSE Return(p)
  /\ UNCHANGED calls

\* The second count, and the test of the status read at the beginning.
JoinRecount(p) ==
  /\ At(p, "joinRecount")
  /\ IF req[p].ringing /\ Cardinality(calls[req[p].call].active) >= 2
     THEN Goto(p, "joinActivate") ELSE Return(p)
  /\ UNCHANGED calls

JoinActivate(p) ==
  /\ At(p, "joinActivate")
  /\ UpdateCallStatus(req[p].call, "active")
  /\ Return(p)

-----------------------------------------------------------------------------
(* LeaveCall.                                                              *)

\* GetCallByID; leaving an ended call is answered without a change.
Leave(p, u, k) ==
  /\ At(p, "idle")
  /\ Live(k)
  /\ req' = [req EXCEPT ![p] = [Idle EXCEPT !.pc = "leaveLookup", !.user = u,
                                            !.call = k]]
  /\ UNCHANGED calls

LeaveLookup(p) ==
  /\ At(p, "leaveLookup")
  /\ IF req[p].user \in calls[req[p].call].active
     THEN Goto(p, "leaveMark") ELSE Return(p)
  /\ UNCHANGED calls

\* MarkCallParticipantLeft; no row means that somebody else closed it.
LeaveMark(p) ==
  LET k == req[p].call
      u == req[p].user
  IN /\ At(p, "leaveMark")
     /\ IF u \in calls[k].active
        THEN MarkCallParticipantLeft(k, u) /\ Goto(p, "leaveCount")
        ELSE UNCHANGED calls /\ Return(p)

\* Mutant: the last participant stays.
LeaveCountZero(p) ==
  LET n == Cardinality(calls[req[p].call].active)
  IN /\ At(p, "leaveCount")
     /\ \/ n = 0 /\ Goto(p, "leaveEnd")
        \/ n >= 1 /\ Return(p)
     /\ UNCHANGED calls

LeaveCount(p) ==
  LET n == Cardinality(calls[req[p].call].active)
  IN /\ At(p, "leaveCount")
     /\ \/ n = 0 /\ Goto(p, "leaveEnd")
        \/ n = 1 /\ Goto(p, "leaveList")
        \/ n > 1 /\ Return(p)
     /\ UNCHANGED calls

\* ListActiveCallParticipants: whoever is there now.
LeaveList(p) ==
  LET rest == calls[req[p].call].active
  IN /\ At(p, "leaveList")
     /\ req' = [req EXCEPT ![p].rest = rest,
                           ![p].pc = IF rest = {} THEN "leaveEnd"
                                     ELSE "leaveMarkRest"]
     /\ UNCHANGED calls

LeaveMarkRest(p) ==
  /\ At(p, "leaveMarkRest")
  /\ \E u \in req[p].rest :
       /\ MarkCallParticipantLeft(req[p].call, u)
       /\ req' = [req EXCEPT ![p].rest = @ \ {u},
                             ![p].pc = IF req[p].rest = {u} THEN "leaveEnd"
                                       ELSE "leaveMarkRest"]

LeaveEnd(p) ==
  /\ At(p, "leaveEnd")
  /\ UpdateCallStatus(req[p].call, "ended")
  /\ Goto(p, "leaveMeter")

LeaveMeter(p) ==
  /\ At(p, "leaveMeter")
  /\ Meter(req[p].call)
  /\ Return(p)

-----------------------------------------------------------------------------
(* StartRecording and StopRecording; both begin with ValidateSignal.       *)

ValidateSignal(p, u, k, lookup) ==
  /\ At(p, "idle")
  /\ lookup = "startLookup" => RecordingBudget(k)
  /\ Live(k)
  /\ req' = [req EXCEPT ![p] = [Idle EXCEPT !.pc = lookup, !.user = u,
                                            !.call = k]]
  /\ UNCHANGED calls

SignalLookup(p, lookup, next) ==
  /\ At(p, lookup)
  /\ IF req[p].user \in calls[req[p].call].active
     THEN Goto(p, next) ELSE Return(p)
  /\ UNCHANGED calls

\* GetActiveCallRecording
StartCheck(p) ==
  /\ At(p, "startCheck")
  /\ IF calls[req[p].call].recording = {}
     THEN Goto(p, "startCreate") ELSE Return(p)
  /\ UNCHANGED calls

\* Mutant: no unique index.
AnyRecording(k) == TRUE

\* CreateCallRecording; the unique index on the open recordings of a call.
UniqueRecording(k) == calls[k].recording = {}
StartCreate(p) ==
  LET k == req[p].call
  IN /\ At(p, "startCreate")
     /\ IF UniqueRecording(k)
        THEN calls' = [calls EXCEPT ![k].started = @ + 1,
                                    ![k].recording = @ \cup {calls[k].started + 1}]
        ELSE UNCHANGED calls
     /\ Return(p)

\* EndCallRecording, for the id the client gave.
StopEnd(p) ==
  /\ At(p, "stopEnd")
  /\ \E r \in 1..MaxRecordings :
       calls' = [calls EXCEPT ![req[p].call].recording = @ \ {r}]
  /\ Return(p)

-----------------------------------------------------------------------------

\* A request stops: refused by a check, an error, a cancelled context, a
\* client or a process that is gone.
Fail(p) ==
  /\ Failures
  /\ ~At(p, "idle")
  /\ Return(p)
  /\ UNCHANGED calls

InitiateStep(p) ==
  \/ \E u \in Users, ch \in Channels, m \in Modes : Initiate(p, u, ch, m)
  \/ FindActive(p) \/ ListSolo(p) \/ MarkSolo(p) \/ EndSolo(p) \/ MeterSolo(p)
  \/ CreateCall(p) \/ AddSelf(p)

JoinStep(p) ==
  \/ \E u \in Users, k \in CallIds : Join(p, u, k)
  \/ JoinLookup(p) \/ JoinCount(p) \/ JoinAdd(p) \/ JoinRecount(p)
  \/ JoinActivate(p)

LeaveStep(p) ==
  \/ \E u \in Users, k \in CallIds : Leave(p, u, k)
  \/ LeaveLookup(p) \/ LeaveMark(p) \/ LeaveCount(p) \/ LeaveList(p)
  \/ LeaveMarkRest(p) \/ LeaveEnd(p) \/ LeaveMeter(p)

RecordingStep(p) ==
  \/ \E u \in Users, k \in CallIds :
       \/ ValidateSignal(p, u, k, "startLookup")
       \/ ValidateSignal(p, u, k, "stopLookup")
  \/ SignalLookup(p, "startLookup", "startCheck")
  \/ SignalLookup(p, "stopLookup", "stopEnd")
  \/ StartCheck(p) \/ StartCreate(p) \/ StopEnd(p)

Next ==
  \E p \in Requests :
    InitiateStep(p) \/ JoinStep(p) \/ LeaveStep(p) \/ RecordingStep(p) \/ Fail(p)

Spec == Init /\ [][Next]_vars

-----------------------------------------------------------------------------
(* Properties that hold whatever requests interleave and fail.             *)

\* What docs/WEBRTC.md says of the state "active", two or more participants
\* joined: two different users did, although the count that JoinCall acts on
\* may be old when it writes the status.
ActiveWasShared ==
  \A k \in CallIds :
    calls[k].status = "active" => Cardinality(calls[k].joined) >= 2

\* Minutes are recorded only for a video call with two participant rows or
\* more that some request has ended, never for a voice call.
ChargedWasBillable ==
  \A k \in CallIds :
    calls[k].charges > 0 => calls[k].mode = "video" /\ calls[k].rows >= 2

\* The limit that is always in force: the plan's cap is lost when its lookup
\* fails.
ceiling == participantLimit(~Failures)

\* JoinCall counts the participants before it adds one, so a call can grow
\* over its limit; but never by more than the requests that race with it.
CapacityOvershoot ==
  ceiling > 0 =>
    \A k \in CallIds :
      Cardinality(calls[k].active) + 1 <= ceiling + Cardinality(Requests)

\* What docs/WEBRTC_CLIENT.md says: only one active recording per call at a
\* time, also when two participants press record together.
OneActiveRecording ==
  \A k \in CallIds : Cardinality(calls[k].recording) <= 1

-----------------------------------------------------------------------------
(* What the documentation promises.  It holds when requests are served one *)
(* at a time and run to their end; each part is lost when they are not.    *)

Settled == \A p \in Requests : At(p, "idle")

\* ErrCallAlreadyActive, "channel already has an active call": a channel has
\* at most one call that rings or is active.
OneLiveCall == \A ch \in Channels : Cardinality(LiveIn(ch)) <= 1

\* docs/WEBRTC.md: the maximum of participants per call is a hard ceiling.
CapacityLimit ==
  ceiling > 0 =>
    \A k \in CallIds : Cardinality(calls[k].active) <= ceiling

\* docs/WEBRTC.md: a call ends automatically when one participant or none
\* remains.  Between requests a call that rings has its initiator alone, an
\* active one two participants or more, and an ended one none.
StatusMatchesParticipants ==
  Settled =>
    \A k \in CallIds :
      LET n == Cardinality(calls[k].active)
      IN /\ calls[k].status = "ringing" => n = 1
         /\ calls[k].status = "active" => n >= 2
         /\ calls[k].status = "ended" => n = 0

\* meterVideoCall: an ended video call with two participants is charged for
\* its wall-clock minutes, once.
ChargedOnce ==
  Settled /\ ~Failures =>
    \A k \in CallIds :
      /\ calls[k].status = "ended"
      /\ calls[k].mode = "video"
      /\ Cardinality(calls[k].joined) >= 2
      => calls[k].charges = 1

\* The comment on meterVideoCall: "Solo/abandoned ringing calls are not
\* billed", so a call that is charged was joined by two users.
SoloNotBilled ==
  \A k \in CallIds :
    calls[k].charges > 0 => Cardinality(calls[k].joined) >= 2

\* Requests served one at a time keep all that docs/WEBRTC.md says of a call:
\* one per channel, no more participants than the limit, a status that fits
\* them, and a charge exactly for what was shared.
SerialCalls ==
  OneLiveCall /\ CapacityLimit /\ StatusMatchesParticipants /\ ChargedOnce /\ SoloNotBilled

-----------------------------------------------------------------------------
(* The inductive invariants of the proofs in CallsProofs.                  *)

\* The points at which a request has a channel, or a call.
Initiating == {"findActive", "listSolo", "markSolo", "endSolo", "meterSolo", "create"}
WithCall == Points \ {"idle", "findActive", "create"}

\* What a request in flight refers to exists.
Refs ==
  \A p \in Requests :
    /\ ~At(p, "idle") => req[p].user \in Users
    /\ req[p].pc \in Initiating => req[p].channel \in Channels
    /\ req[p].pc \in WithCall => /\ req[p].call \in CallIds
                                 /\ calls[req[p].call].status # "free"

\* A row: who takes part has joined, an active call was joined by two, a
\* charged one is billable, and at most one recording is open.
RowOK(c) ==
  /\ c.active \subseteq c.joined
  /\ c.status = "active" => Cardinality(c.joined) >= 2
  /\ c.charges > 0 => c.mode = "video" /\ c.rows >= 2
  /\ \A m, n \in c.recording : m = n

\* Every row is so, and a request about to write "active" has seen two
\* participants.
Rows ==
  /\ \A k \in CallIds : RowOK(calls[k])
  /\ \A p \in Requests :
       At(p, "joinActivate") => Cardinality(calls[req[p].call].joined) >= 2

\* The requests that are about to add a participant to call k have a place.
AddingPoints == {"joinAdd", "addSelf"}
Adding(k) == {p \in Requests : req[p].pc \in AddingPoints /\ req[p].call = k}
Capacity ==
  ceiling > 0 =>
    \A k \in CallIds :
      Cardinality(calls[k].active) + Cardinality(Adding(k)) + 1
        <= ceiling + Cardinality(Requests)

CallsInv == TypeOK /\ Refs /\ Rows /\ Capacity

-----------------------------------------------------------------------------
(* The inductive invariant for requests that are served one at a time.     *)

\* At most one request is in flight, and each runs to its end.
Serial == ~Failures /\ \A p, q \in Requests : p = q

\* Rows of participants are counted as users are, up to two.
Counted(c) ==
  /\ c.joined # {} => c.rows >= 1
  /\ c.rows >= 2 <=> Cardinality(c.joined) >= 2

\* A row that no request is changing: what the documentation promises.
Steady(c) ==
  LET n == Cardinality(c.active)
  IN /\ c.status = "ringing" => n = 1
     /\ c.status = "active" => n >= 2
     /\ c.status = "ended" => n = 0
     /\ c.status # "ended" => c.charges = 0
     /\ c.status = "ended" /\ c.mode = "video" /\ Cardinality(c.joined) >= 2
          => c.charges = 1

\* The points at which a request has read, and not yet written, its call.
Reading == {"listSolo", "markSolo", "joinLookup", "joinCount", "joinAdd",
            "leaveLookup", "leaveMark",
            "startLookup", "startCheck", "startCreate", "stopLookup", "stopEnd"}
Joining == {"joinLookup", "joinCount", "joinAdd", "joinRecount", "joinActivate"}
Metering == {"meterSolo", "leaveMeter"}

\* The row c that the request r is working on, at each point.
InFlight(r, c) ==
  LET n == Cardinality(c.active)
  IN /\ r.pc \in Reading => Steady(c)
     /\ c.status \in IF r.pc \in Metering THEN {"ended"} ELSE {"ringing", "active"}
     /\ c.charges = 0
     /\ r.pc \in {"listSolo", "markSolo", "endSolo"} => c.channel = r.channel
     /\ r.pc = "markSolo" => c.active = {r.user}
     /\ r.pc \in {"endSolo", "leaveEnd"} \cup Metering => c.active = {}
     /\ r.pc = "addSelf" => c.status = "ringing" /\ c.joined = {} /\ c.rows = 0
     /\ r.pc \in Joining => (r.ringing <=> c.status = "ringing")
     /\ r.pc = "joinAdd" /\ ceiling > 0 => n < ceiling
     /\ r.pc = "joinRecount" => n >= IF c.status = "ringing" THEN 1 ELSE 2
     /\ r.pc = "joinActivate" => n >= 2
     /\ r.pc = "leaveCount" => (n >= 1 <=> c.status = "active")
     /\ r.pc = "leaveList" => n = 1
     /\ r.pc = "leaveMarkRest" => r.rest = c.active

\* The row of the request in flight is as its point says, and every other is
\* steady; no two calls of a channel are live, and none is where one is about
\* to be created.
SerialInv ==
  /\ \A k, l \in CallIds :
       Live(k) /\ Live(l) /\ calls[k].channel = calls[l].channel => k = l
  /\ CapacityLimit
  /\ \A k \in CallIds :
       /\ Counted(calls[k])
       /\ \/ Steady(calls[k])
          \/ \E p \in Requests : req[p].pc \in WithCall /\ req[p].call = k
  /\ \A p \in Requests :
       /\ req[p].pc \in WithCall => InFlight(req[p], calls[req[p].call])
       /\ req[p].pc \in {"meterSolo", "create"} => LiveIn(req[p].channel) = {}

=============================================================================
