--------------------------- MODULE ConnectionCall ---------------------------
(***************************************************************************)
(* Direct calls between two connections, apps/server: the invite, its ring *)
(* keys and timer, the handlers that answer, cancel, miss and hang up, the *)
(* room made for the call and the chat row that records its outcome.       *)
(*                                                                         *)
(* A request and its room share one id. Every await of a handler is a step *)
(* of its own, so handlers of one request interleave as in the server.     *)
(***************************************************************************)
EXTENDS Accounts, Naturals, FiniteSets

CONSTANTS
  Requests,     \* request ids, each with the room of the same call
  Procs,        \* slots for handlers and timer callbacks that are running
  MaxCalls,     \* bound: HTTP calls and faults in a behaviour
  MaxFaults     \* bound: publishes that fail and restarts of the server, of these

ASSUME RequestsAssumption == None \notin Requests \cup (Users \X Users)
ASSUME CallBoundsAssumption == MaxCalls \in Nat /\ MaxFaults \in Nat

VARIABLES
  dial,       \* caller and callee of a request, None while the id is unused
  invite,     \* invite hash: its status; "ghost" holds a status and no ids
  ttl,        \* invite hashes that have a TTL
  ringing,    \* pendingForCallee key of each user
  byRoom,     \* pendingByRoom keys
  timers,     \* ring timers of this server process
  announced,  \* requests whose id the callee and the caller know
  room,       \* rooms row: its status
  seated,     \* room_participants rows with no left_at
  session,    \* room:{id} hashes
  active,     \* activeByRoom keys
  logged,     \* historyLogged keys
  recorded,   \* historyLoggedForRequest keys
  outcome,    \* chat rows of a request that say declined, cancelled or missed
  completed,  \* chat rows that say completed
  proc,       \* handlers: where they are and for which request
  readers,    \* history: handlers that read a pending invite, up to two
  late,       \* history: outcome rows whose publish failed after the insert
  closedBy,   \* history: the handler that ended the room
  restarted,  \* history: the server was restarted
  calls, faults  \* counters for the bounds

ring == <<dial, invite, ttl, ringing, byRoom, announced>>
call == <<room, seated, session, active>>
chat == <<logged, recorded, outcome, completed>>
history == <<readers, late, closedBy, restarted>>
counters == <<calls, faults>>
callVars == <<ring, timers, call, chat, proc, history, counters>>

Dials == {d \in Users \X Users : d[1] # d[2]}
Caller(r) == dial[r][1]
Callee(r) == dial[r][2]

Outcomes == {"declined", "cancelled", "missed"}
Statuses == Outcomes \cup {"absent", "ghost", "pending", "accepted"}
Ops == Outcomes \cup {"ring", "accepted", "expired", "hangup", "sweep"}
Pcs == {"free", "pending", "create", "provision", "claim", "by_room",
        "hset", "expire", "seat", "write", "record", "publish", "undo",
        "del_invite", "del_ringing", "del_by_room", "set_active",
        "clear_active", "get_active", "log", "publish_completed",
        "del_active", "find_room", "end_tx", "del_session"}
Free == [pc |-> "free", op |-> None, req |-> None]

\* Fault variant: the timer writes a status of its own.
StatusRaw(op) == op

\* The status a handler that closes the ring writes and records.
Status(op) == IF op = "expired" THEN "missed" ELSE op

Handler == [pc : Pcs, op : Ops \cup {None}, req : Requests \cup {None}]

CallTypeOK ==
  /\ dial \in [Requests -> Dials \cup {None}]
  /\ invite \in [Requests -> Statuses]
  /\ ringing \in [Users -> Requests \cup {None}]
  /\ room \in [Requests -> {"none", "live", "ended"}]
  /\ seated \in [Requests -> SUBSET Users]
  /\ ttl \in SUBSET Requests /\ byRoom \in SUBSET Requests
  /\ timers \in SUBSET Requests /\ announced \in SUBSET Requests
  /\ session \in SUBSET Requests /\ active \in SUBSET Requests
  /\ logged \in SUBSET Requests /\ recorded \in SUBSET Requests
  /\ outcome \in [Requests -> Nat] /\ completed \in [Requests -> Nat]
  /\ proc \in [Procs -> Handler]
  /\ readers \in [Requests -> 0..2]
  /\ late \in [Requests -> Nat]
  /\ closedBy \in [Requests -> Ops \cup {None}]
  /\ restarted \in BOOLEAN
  /\ calls \in Nat /\ faults \in Nat

CallInit ==
  /\ dial = [r \in Requests |-> None]
  /\ invite = [r \in Requests |-> "absent"]
  /\ ringing = [u \in Users |-> None]
  /\ ttl = {} /\ byRoom = {} /\ timers = {} /\ announced = {}
  /\ room = [r \in Requests |-> "none"]
  /\ seated = [r \in Requests |-> {}]
  /\ session = {} /\ active = {} /\ logged = {} /\ recorded = {}
  /\ outcome = [r \in Requests |-> 0] /\ completed = [r \in Requests |-> 0]
  /\ proc = [p \in Procs |-> Free]
  /\ readers = [r \in Requests |-> 0]
  /\ late = [r \in Requests |-> 0]
  /\ closedBy = [r \in Requests |-> None]
  /\ restarted = FALSE
  /\ calls = 0 /\ faults = 0

At(p, pc) == proc[p].pc = pc
Goto(p, pc) == proc' = [proc EXCEPT ![p].pc = pc]
Finish(p) == proc' = [proc EXCEPT ![p] = Free]
Begin(p, pc, op, r) ==
  /\ At(p, "free")
  /\ proc' = [proc EXCEPT ![p] = [pc |-> pc, op |-> op, req |-> r]]
\* Only requests from clients are bounded: timers and the sweep are not.
Arrives == calls + faults < MaxCalls /\ calls' = calls + 1
Fault == calls + faults < MaxCalls /\ faults < MaxFaults /\ faults' = faults + 1

\* No handler works on the request.
Quiet(r) == \A p \in Procs : proc[p].req # r

-----------------------------------------------------------------------------
(* initiateConnectionCallService. The checks that read other modules (the   *)
(* conversation, presence, who is in a call) only refuse: here the call is  *)
(* then not placed.                                                         *)

PlaceCall(p, r, d) ==
  /\ dial[r] = None
  /\ Arrives
  /\ Begin(p, "pending", "ring", r)
  /\ dial' = [dial EXCEPT ![r] = d]
  /\ UNCHANGED <<invite, ttl, ringing, byRoom, announced, timers, call, chat,
                 history, faults>>

\* The callee is already being rung: the caller's own invite is rung again
\* (its id is told once more, its timer is not set), another one is refused.
ReadPending(p) ==
  LET r == proc[p].req
      other == ringing[Callee(r)]
      own == /\ other # None
             /\ invite[other] = "pending"
             /\ Caller(other) = Caller(r)
  IN  /\ At(p, "pending")
      /\ \/ other = None /\ Goto(p, "create") /\ UNCHANGED <<dial, announced>>
         \/ /\ other # None
            /\ Finish(p)
            /\ dial' = [dial EXCEPT ![r] = None]
            /\ announced' = IF own THEN announced \cup {other} ELSE announced
      /\ UNCHANGED <<invite, ttl, ringing, byRoom, timers, call, chat, history,
                     counters>>

\* createConnectionCallRoom: live at once, the caller seated as host.
CreateRoom(p) ==
  LET r == proc[p].req
  IN  /\ At(p, "create")
      /\ Goto(p, "provision")
      /\ room' = [room EXCEPT ![r] = "live"]
      /\ seated' = [seated EXCEPT ![r] = {Caller(r)}]
      /\ UNCHANGED <<ring, session, active, timers, chat, history, counters>>

Provision(p) ==
  /\ At(p, "provision")
  /\ Goto(p, "claim")
  /\ session' = session \cup {proc[p].req}
  /\ UNCHANGED <<ring, room, seated, active, timers, chat, history, counters>>

\* Fault variant: the claim overwrites the ring of another caller.
ClaimCalleeOverwrites(p) ==
  LET r == proc[p].req
  IN  /\ At(p, "claim")
      /\ Goto(p, "by_room")
      /\ ringing' = [ringing EXCEPT ![Callee(r)] = r]
      /\ UNCHANGED <<dial, invite, ttl, byRoom, announced, timers, call, chat,
                     history, counters>>

\* SET NX of pendingForCallee; the loser ends the room it has just made.
ClaimCallee(p) ==
  LET r == proc[p].req
      callee == Callee(r)
  IN  /\ At(p, "claim")
      /\ \/ /\ ringing[callee] = None
            /\ ringing' = [ringing EXCEPT ![callee] = r]
            /\ Goto(p, "by_room")
         \/ /\ ringing[callee] # None
            /\ Goto(p, "clear_active")
            /\ UNCHANGED ringing
      /\ UNCHANGED <<dial, invite, ttl, byRoom, announced, timers, call, chat,
                     history, counters>>

SetByRoom(p) ==
  /\ At(p, "by_room")
  /\ Goto(p, "hset")
  /\ byRoom' = byRoom \cup {proc[p].req}
  /\ UNCHANGED <<dial, invite, ttl, ringing, announced, timers, call, chat,
                 history, counters>>

WriteInvite(p) ==
  /\ At(p, "hset")
  /\ Goto(p, "expire")
  /\ invite' = [invite EXCEPT ![proc[p].req] = "pending"]
  /\ UNCHANGED <<dial, ttl, ringing, byRoom, announced, timers, call, chat,
                 history, counters>>

\* Fault variant: a return before expire and the timer.
RingCalleeUntimed(p) ==
  LET r == proc[p].req
  IN  /\ At(p, "expire")
      /\ Finish(p)
      /\ announced' = announced \cup {r}
      /\ UNCHANGED <<dial, invite, ttl, ringing, byRoom, timers, call, chat,
                     history, counters>>

\* expire of the hash, then with no await the ring event and the 60 s timer.
RingCallee(p) ==
  LET r == proc[p].req
  IN  /\ At(p, "expire")
      /\ Finish(p)
      /\ ttl' = ttl \cup {r}
      /\ announced' = announced \cup {r}
      /\ timers' = timers \cup {r}
      /\ UNCHANGED <<dial, invite, ringing, byRoom, call, chat, history,
                     counters>>

-----------------------------------------------------------------------------
(* Handlers that close the ring. The first await reads the invite: one that *)
(* is gone or no longer pending is refused and nothing changes.             *)

SawPending(r) ==
  readers' = [readers EXCEPT
                ![r] = IF invite[r] = "pending" /\ @ < 2 THEN @ + 1 ELSE @]

\* Fault variant: the status of the invite is not checked.
Answerable(r) == invite[r] \notin {"absent", "ghost"}

StillPending(r) == invite[r] = "pending"

\* respond (accept or decline), cancel and markMissed.
Answer(p, op, r) ==
  /\ r \in announced
  /\ Arrives
  /\ StillPending(r)
  /\ Begin(p, IF op = "accepted" THEN "seat" ELSE "write", op, r)
  /\ SawPending(r)
  /\ UNCHANGED <<ring, timers, call, chat, late, closedBy, restarted, faults>>

\* The ring timer fires: expireConnectionCallInvite.
RingTimeout(p, r) ==
  /\ r \in timers
  /\ timers' = timers \ {r}
  /\ \/ /\ StillPending(r)
        /\ Begin(p, "write", "expired", r)
        /\ SawPending(r)
     \/ ~ StillPending(r) /\ UNCHANGED <<proc, readers>>
  /\ UNCHANGED <<ring, call, chat, late, closedBy, restarted, counters>>

\* The callee's participant row, whatever the state of the room.
SeatCallee(p) ==
  LET r == proc[p].req
  IN  /\ At(p, "seat")
      /\ Goto(p, "write")
      /\ seated' = [seated EXCEPT ![r] = @ \cup {Callee(r)}]
      /\ UNCHANGED <<ring, timers, room, session, active, chat, history, counters>>

\* hset of the status: a hash that was deleted meanwhile comes back with the
\* status alone, without a TTL, and readInvite takes it for no invite.
WriteStatus(p) ==
  LET r == proc[p].req
      op == proc[p].op
  IN  /\ At(p, "write")
      /\ Goto(p, IF op = "accepted" THEN "del_invite" ELSE "record")
      /\ invite' = [invite EXCEPT
                      ![r] = IF @ \in {"absent", "ghost"} THEN "ghost"
                             ELSE Status(op)]
      /\ UNCHANGED <<dial, ttl, ringing, byRoom, announced, timers, call, chat,
                     history, counters>>

\* Fault variant: the outcome is published without the dedupe key.
RecordOutcomeAlways(p) ==
  /\ At(p, "record")
  /\ Goto(p, "publish")
  /\ recorded' = recorded \cup {proc[p].req}
  /\ UNCHANGED <<ring, timers, call, logged, outcome, completed, history, counters>>

\* recordPendingCallOutcome: SET NX of the dedupe key.
RecordOutcome(p) ==
  LET r == proc[p].req
  IN  /\ At(p, "record")
      /\ recorded' = recorded \cup {r}
      /\ Goto(p, IF r \in recorded THEN "del_invite" ELSE "publish")
      /\ UNCHANGED <<ring, timers, call, logged, outcome, completed, history,
                     counters>>

\* publishSystemMessage inserts the row or fails before, or fails after it
\* on one of the awaits that follow the insert.
PublishOutcome(p) ==
  LET r == proc[p].req
      inserted == outcome' = [outcome EXCEPT ![r] = @ + 1]
  IN  /\ At(p, "publish")
      /\ \/ inserted /\ Goto(p, "del_invite") /\ UNCHANGED <<late, faults>>
         \/ Fault /\ Goto(p, "undo") /\ UNCHANGED <<outcome, late>>
         \/ /\ Fault
            /\ inserted
            /\ late' = [late EXCEPT ![r] = @ + 1]
            /\ Goto(p, "undo")
      /\ UNCHANGED <<ring, timers, call, logged, recorded, completed, readers,
                     closedBy, restarted, calls>>

\* The publish threw: the dedupe key is deleted.
UndoRecord(p) ==
  /\ At(p, "undo")
  /\ Goto(p, "del_invite")
  /\ recorded' = recorded \ {proc[p].req}
  /\ UNCHANGED <<ring, timers, call, logged, outcome, completed, history, counters>>

\* cleanupInvite: three deletes, the second one by callee.
DeleteInvite(p) ==
  LET r == proc[p].req
  IN  /\ At(p, "del_invite")
      /\ Goto(p, "del_ringing")
      /\ invite' = [invite EXCEPT ![r] = "absent"]
      /\ ttl' = ttl \ {r}
      /\ UNCHANGED <<dial, ringing, byRoom, announced, timers, call, chat, history,
                     counters>>

\* Fault variant: the ring key of the callee is left behind.
KeepRinging(p) ==
  /\ At(p, "del_ringing")
  /\ Goto(p, "del_by_room")
  /\ UNCHANGED <<ring, timers, call, chat, history, counters>>

DeleteRinging(p) ==
  /\ At(p, "del_ringing")
  /\ Goto(p, "del_by_room")
  /\ ringing' = [ringing EXCEPT ![Callee(proc[p].req)] = None]
  /\ UNCHANGED <<dial, invite, ttl, byRoom, announced, timers, call, chat, history,
                 counters>>

DeleteByRoom(p) ==
  LET accepts == proc[p].op = "accepted"
  IN  /\ At(p, "del_by_room")
      /\ Goto(p, IF accepts THEN "set_active" ELSE "clear_active")
      /\ byRoom' = byRoom \ {proc[p].req}
      /\ UNCHANGED <<dial, invite, ttl, ringing, announced, timers, call, chat,
                     history, counters>>

\* setActiveConnectionCall, the last write of an accept.
SetActive(p) ==
  /\ At(p, "set_active")
  /\ Finish(p)
  /\ active' = active \cup {proc[p].req}
  /\ UNCHANGED <<ring, timers, room, seated, session, chat, history, counters>>

-----------------------------------------------------------------------------
(* finalizeDeclinedRoom, leaveDirectRoomService and endLiveRoomSession.     *)

ClearActive(p) ==
  /\ At(p, "clear_active")
  /\ Goto(p, "find_room")
  /\ active' = active \ {proc[p].req}
  /\ UNCHANGED <<ring, timers, room, seated, session, chat, history, counters>>

\* A client leaves: the caller from the moment it rings, since its client
\* enters the room at once, the callee once it has a seat.
HangUp(p, r, u) ==
  /\ r \in announced
  /\ u = Caller(r) \/ u \in seated[r]
  /\ Arrives
  /\ Begin(p, "get_active", "hangup", r)
  /\ seated' = [seated EXCEPT ![r] = @ \ {u}]
  /\ UNCHANGED <<ring, timers, room, session, active, chat, history, faults>>

\* finalizeConnectionCallHistory: nothing to record for a call that was not
\* answered, and a call is recorded once.
GetActive(p) ==
  /\ At(p, "get_active")
  /\ Goto(p, IF proc[p].req \in active THEN "log" ELSE "find_room")
  /\ UNCHANGED <<ring, timers, call, chat, history, counters>>

\* Fault variant: the SET NX of historyLogged is dropped.
LogAlways(p) ==
  /\ At(p, "log")
  /\ Goto(p, "publish_completed")
  /\ UNCHANGED <<ring, timers, call, chat, history, counters>>

LogCompleted(p) ==
  LET r == proc[p].req
  IN  /\ At(p, "log")
      /\ logged' = logged \cup {r}
      /\ Goto(p, IF r \in logged THEN "find_room" ELSE "publish_completed")
      /\ UNCHANGED <<ring, timers, call, recorded, outcome, completed, history,
                     counters>>

\* A publish that fails leaves both keys: the row is not tried again.
PublishCompleted(p) ==
  LET inserted == completed' = [completed EXCEPT ![proc[p].req] = @ + 1]
  IN  /\ At(p, "publish_completed")
      /\ \/ inserted /\ Goto(p, "del_active") /\ UNCHANGED faults
         \/ Fault /\ Goto(p, "find_room") /\ UNCHANGED completed
         \/ Fault /\ Goto(p, "find_room") /\ inserted
      /\ UNCHANGED <<ring, timers, call, logged, recorded, outcome, history, calls>>

DeleteActive(p) ==
  /\ At(p, "del_active")
  /\ Goto(p, "find_room")
  /\ active' = active \ {proc[p].req}
  /\ UNCHANGED <<ring, timers, room, seated, session, chat, history, counters>>

\* Fault variant: direct rooms are due at once.
SweepRoomEarly(p, r) ==
  /\ room[r] = "live"
  /\ Begin(p, "find_room", "sweep", r)
  /\ UNCHANGED <<ring, timers, call, chat, history, counters>>

\* The background sweep or an access past the two-hour cap of a direct room:
\* handlers, the ring timer and the ring keys of the call are long done.
SweepDueRoom(p, r) ==
  /\ room[r] = "live"
  /\ Quiet(r) /\ r \notin timers /\ r \notin ttl
  /\ \A u \in Users : ringing[u] # r
  /\ Begin(p, "find_room", "sweep", r)
  /\ UNCHANGED <<ring, timers, call, chat, history, counters>>

\* Fault variant: a room is looked up by its participants.
FindSeatedRoom(p) ==
  LET r == proc[p].req
  IN  /\ At(p, "find_room")
      /\ Goto(p, IF room[r] = "live" /\ seated[r] # {} THEN "end_tx" ELSE "del_session")
      /\ UNCHANGED <<ring, timers, call, chat, history, counters>>

FindRoom(p) ==
  /\ At(p, "find_room")
  /\ Goto(p, IF room[proc[p].req] = "live" THEN "end_tx" ELSE "del_session")
  /\ UNCHANGED <<ring, timers, call, chat, history, counters>>

\* Fault variant: a hang-up leaves the room to the last participant.
EndTxIfEmpty(p) ==
  LET r == proc[p].req
  IN  /\ At(p, "end_tx")
      /\ Goto(p, "del_session")
      /\ seated' = [seated EXCEPT ![r] = {}]
      /\ room' = IF seated[r] = {} THEN [room EXCEPT ![r] = "ended"] ELSE room
      /\ closedBy' = [closedBy EXCEPT ![r] = proc[p].op]
      /\ UNCHANGED <<ring, timers, session, active, chat, readers, late,
                     restarted, counters>>

\* endLiveRoomSessionTx: everyone has left; a live room has ended.
EndTx(p) ==
  LET r == proc[p].req
  IN  /\ At(p, "end_tx")
      /\ Goto(p, "del_session")
      /\ seated' = [seated EXCEPT ![r] = {}]
      /\ room' = [room EXCEPT ![r] = "ended"]
      /\ closedBy' = IF room[r] = "live"
                       THEN [closedBy EXCEPT ![r] = proc[p].op] ELSE closedBy
      /\ UNCHANGED <<ring, timers, session, active, chat, readers, late,
                     restarted, counters>>

\* deleteSessionRoomRedis; the RTC keys of the participants are cleared next.
DeleteSession(p) ==
  /\ At(p, "del_session")
  /\ Finish(p)
  /\ session' = session \ {proc[p].req}
  /\ UNCHANGED <<ring, timers, room, seated, active, chat, history, counters>>

-----------------------------------------------------------------------------
(* Time and crashes. Handlers take well under the 60 s between the timer    *)
(* and the TTL, so keys lapse only when nobody works on the request.        *)

\* pendingForCallee and pendingByRoom lapse 120 s after the claim.
RingKeysLapse(r) ==
  /\ Quiet(r) /\ r \notin timers
  /\ dial[r] # None /\ ringing[Callee(r)] = r
  /\ ringing' = [ringing EXCEPT ![Callee(r)] = None]
  /\ byRoom' = byRoom \ {r}
  /\ UNCHANGED <<dial, invite, ttl, announced, timers, call, chat, proc, history,
                 counters>>

\* The invite hash lapses just after them, if its TTL was set.
InviteLapses(r) ==
  /\ Quiet(r) /\ r \notin timers
  /\ r \in ttl /\ ringing[Callee(r)] # r
  /\ invite' = [invite EXCEPT ![r] = "absent"]
  /\ ttl' = ttl \ {r}
  /\ UNCHANGED <<dial, ringing, byRoom, announced, timers, call, chat, proc, history,
                 counters>>

\* Redis and Postgres keep their state; handlers and timers are gone.
ServerRestart ==
  /\ Fault
  /\ restarted' = TRUE
  /\ proc' = [p \in Procs |-> Free]
  /\ timers' = {}
  /\ UNCHANGED <<ring, call, chat, readers, late, closedBy, calls>>

CallStep(p) ==
  \/ ReadPending(p) \/ CreateRoom(p) \/ Provision(p) \/ ClaimCallee(p)
  \/ SetByRoom(p) \/ WriteInvite(p) \/ RingCallee(p)
  \/ SeatCallee(p) \/ WriteStatus(p) \/ RecordOutcome(p) \/ PublishOutcome(p)
  \/ UndoRecord(p) \/ DeleteInvite(p) \/ DeleteRinging(p) \/ DeleteByRoom(p)
  \/ SetActive(p) \/ ClearActive(p) \/ GetActive(p) \/ LogCompleted(p)
  \/ PublishCompleted(p) \/ DeleteActive(p) \/ FindRoom(p) \/ EndTx(p)
  \/ DeleteSession(p)

CallNext ==
  \/ \E p \in Procs : CallStep(p)
  \/ \E p \in Procs, r \in Requests, d \in Dials : PlaceCall(p, r, d)
  \/ \E p \in Procs, r \in Requests, op \in Outcomes \cup {"accepted"} :
       Answer(p, op, r)
  \/ \E p \in Procs, r \in Requests : RingTimeout(p, r) \/ SweepDueRoom(p, r)
  \/ \E p \in Procs, r \in Requests, u \in Users : HangUp(p, r, u)
  \/ \E r \in Requests : RingKeysLapse(r) \/ InviteLapses(r)
  \/ ServerRestart

CallSpec == CallInit /\ [][CallNext]_callVars

\* A handler that runs goes on, timers fire, keys lapse, the sweep comes
\* round. Nothing is asked of the users.
CallFairness ==
  /\ \A p \in Procs : WF_callVars(CallStep(p))
  /\ \A r \in Requests :
       /\ WF_callVars(\E p \in Procs : RingTimeout(p, r))
       /\ WF_callVars(\E p \in Procs : SweepDueRoom(p, r))
       /\ WF_callVars(RingKeysLapse(r))
       /\ WF_callVars(InviteLapses(r))

CallFairSpec == CallSpec /\ CallFairness

=============================================================================
