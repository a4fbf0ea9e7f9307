---------------------------- MODULE SpaceSession ----------------------------
(***************************************************************************)
(* One space, apps/server modules/rooms and modules/spaces: the rooms row  *)
(* with its deadlines, the participant, restriction and invite rows, the   *)
(* session hash in Redis that holds the lobby gate, and the handlers that  *)
(* create, start, join, leave, remove from, end, cancel and sweep it.      *)
(*                                                                         *)
(* Every instant is kept as hours from now, negative in the past: a        *)
(* deadline d has come when d <= 0 and is over when d < 0. Hours far in    *)
(* the past are all the same, so time is not bounded.                      *)
(***************************************************************************)
EXTENDS Accounts, Integers, FiniteSets

CONSTANTS
  Host,        \* the account that made the space
  Guests,      \* the other accounts
  Plans,       \* the spaces that are made: schedule and options
  Handlers,    \* slots for handlers that are running
  Seats,       \* maxParticipants, the host included
  MaxRequests  \* bound: HTTP calls and crashes in a behaviour

Members == Guests \cup {Host}

PastBound == -3    \* no deadline reaches further back
SessionCap == 3    \* SPACE_SESSION_MAX_MS
EmptyGrace == 2    \* SCHEDULED_EMPTY_ROOM_GRACE_MS
JoinGrace == 2     \* SCHEDULED_JOIN_GRACE_AFTER_START_MINUTES
HashTTL == 2       \* ROOM_TTL

\* start, end: the booked hours; window: spaceExpirationMinutes, in hours.
\* lead: who opens the space, one of host (shouldHostStartMeeting), auto
\* (shouldMeetingAutoStart) and none, which exclude each other.
Hours == PastBound..4
StartHours == PastBound..2
PlanSpace == [start : StartHours \cup {None}, end : Hours \cup {None},
              window : {1, 2, None}, lead : {"host", "auto", "none"},
              oneShot : BOOLEAN, public : BOOLEAN]
NoPlan == [start |-> None, end |-> None, window |-> None, lead |-> "none",
           oneShot |-> FALSE, public |-> FALSE]

ASSUME SpaceAssumption ==
  /\ None \notin Int /\ Host \notin Guests /\ None \notin Members
  /\ Plans \subseteq PlanSpace
  /\ Seats \in Nat \ {0} /\ MaxRequests \in Nat

VARIABLES
  plan,        \* the options of the space; schedule hours are in due
  status,      \* rooms.status, none before the space is made
  due,         \* hours: start, end, live (startedAt), expiry, left, hash
  isExpired,   \* rooms.is_expired
  row,         \* participant rows: absent, in, or left (left_at is set)
  restricted,  \* room_restricted_users
  invited,     \* pending or accepted room_friend_invites
  hash,        \* room:{id} session hash: absent, or its gate, closed or open
  handler,     \* what the running handlers do
  opened,      \* history: the host opened the meeting of this session
  early,       \* history: guests let in before that, past the session hash
  parted,      \* history: how the last one went in this session
  raced,       \* history: the start came between a handler's look at the space
               \* and its DEL of the hash, a crash, or a session that was over
               \* got a new deadline
  slipped,     \* history: members seated while they were being removed
  requests     \* counter for the bound

spaceVars == <<plan, status, due, isExpired, row, restricted, invited, hash,
               handler, opened, early, parted, raced, slipped, requests>>
roomRow == <<plan, status, due, isExpired>>
people == <<row, restricted, invited>>
past == <<opened, early, parted, raced, slipped>>

HandlerPcs == {"free", "auto_start", "reconcile", "expire", "presence",
               "recheck", "mark_live", "provision", "open", "unlock", "admit",
               "seat", "refresh", "token", "restart", "gate", "lobby", "leave",
               "leave_commit", "kick", "uninvite", "restrict", "end", "end_tx",
               "drop", "drop_again"}
HandlerOps == {"create", "start", "join", "token", "open", "view", "peek",
               "list", "leave", "kick", "end", "sweep"}
Idle == [pc |-> "free", op |-> None, user |-> None, flag |-> FALSE]

HandlerTable == [Handlers -> [pc : HandlerPcs, op : HandlerOps \cup {None},
                              user : Members \cup {None}, flag : BOOLEAN]]

SpaceTypeOK ==
  /\ plan \in PlanSpace
  /\ status \in {"none", "scheduled", "live", "ended", "cancelled"}
  /\ due \in [{"start", "end", "live", "expiry", "left", "hash"}
                -> Hours \cup {None}]
  /\ due.start \in StartHours \cup {None}
  /\ isExpired \in BOOLEAN
  /\ row \in [Members -> {"absent", "in", "left"}]
  /\ restricted \in SUBSET Members /\ invited \in SUBSET Members
  /\ hash \in {"absent", "closed", "open"}
  /\ handler \in HandlerTable
  /\ opened \in BOOLEAN /\ raced \in BOOLEAN
  /\ parted \in {"left", "removed", "together", None}
  /\ early \in SUBSET Members /\ slipped \in SUBSET Members
  /\ requests \in Nat

SpaceInit ==
  /\ plan = NoPlan /\ status = "none" /\ isExpired = FALSE
  /\ due = [start |-> None, end |-> None, live |-> None,
            expiry |-> None, left |-> None, hash |-> None]
  /\ row = [u \in Members |-> "absent"]
  /\ restricted = {} /\ invited = {}
  /\ hash = "absent"
  /\ handler = [h \in Handlers |-> Idle]
  /\ opened = FALSE /\ raced = FALSE /\ parted = None /\ early = {} /\ slipped = {}
  /\ requests = 0

-----------------------------------------------------------------------------
(* room-expiry.ts and reconcile-room-session-eval.ts                        *)

After(t, h) == IF t = None \/ h = None THEN None ELSE t + h
HasCome(t) == t # None /\ t <= 0
IsOver(t) == t # None /\ t < 0
Earliest(s, t) == IF s = None \/ (t # None /\ t < s) THEN t ELSE s

WindowEnd == After(due.start, plan.window)
\* computeCalendarEndForScheduledRoom
CalendarEnd == IF due.end # None THEN due.end ELSE WindowEnd
\* computeRoomExpiresAt
SlotEnd(start, end, window) == Earliest(end, After(start, window))
ListingEnd(st) ==
  IF st = "scheduled" THEN SlotEnd(due.start, due.end, plan.window) ELSE due.end
\* computeLiveSessionExpiresAt of a session that begins now
LiveEnd == IF due.start = None THEN SessionCap ELSE Earliest(CalendarEnd, SessionCap)

Booked == due.start # None
Active == {u \in Members : row[u] = "in"}
\* isDbRoomSessionClosed
SessionClosed == status \in {"ended", "cancelled"} \/ isExpired \/ IsOver(due.expiry)
\* isScheduledSpaceBeforeStartTime
BeforeStart == Booked /\ due.start > 0

GraceMissed == status = "scheduled" /\ HasCome(After(due.start, JoinGrace))
EmptyTooLong ==
  /\ Active = {} /\ ~ BeforeStart
  /\ HasCome(After(IF due.left # None THEN due.left ELSE due.live, EmptyGrace))
\* The live cases of evaluateRoomSessionEndReason: by the row alone, or empty.
RowOverdue ==
  /\ status = "live"
  /\ \/ isExpired \/ IsOver(due.expiry)
     \/ HasCome(After(due.live, SessionCap))
     \/ Booked /\ HasCome(CalendarEnd)
Overdue == RowOverdue \/ (status = "live" /\ EmptyTooLong)
\* Fault variant: the sweep looks at live rooms alone.
SweepLiveRooms ==
  /\ status = "live"
  /\ \/ isExpired \/ HasCome(due.expiry)
     \/ HasCome(After(due.live, SessionCap)) \/ EmptyTooLong

\* Fault variant: the sweep looks at expires_at alone.
SweepByExpiry == GraceMissed \/ (status = "live" /\ (isExpired \/ HasCome(due.expiry)))

\* roomSessionSweepCandidatesWhere
SweepCandidate ==
  \/ GraceMissed
  \/ /\ status = "live"
     /\ \/ isExpired \/ HasCome(due.expiry)
        \/ HasCome(After(due.live, SessionCap))
        \/ EmptyTooLong

-----------------------------------------------------------------------------
Pc(h, pc) == handler[h].pc = pc
Proceed(h, pc) == handler' = [handler EXCEPT ![h].pc = pc]
Release(h) == handler' = [handler EXCEPT ![h] = Idle]
Serve(h, pc, op, u, flag) ==
  /\ Pc(h, "free")
  /\ handler' = [handler EXCEPT ![h] =
                   [pc |-> pc, op |-> op, user |-> u, flag |-> flag]]
Request == requests < MaxRequests /\ requests' = requests + 1
LeavesOpen == \E h \in Handlers : Pc(h, "leave_commit")
NoHandler == \A h \in Handlers : Pc(h, "free")

-----------------------------------------------------------------------------
(* createSpaceService: the row and its people in one transaction, then the  *)
(* session hash of a space that is live at once.                            *)

CreateSpace(h, p, friends) ==
  LET slot == p.start # None
  IN  /\ status = "none"
      /\ plan' = p
      /\ status' = IF slot THEN "scheduled" ELSE "live"
      /\ due' = [due EXCEPT !.start = p.start, !.end = p.end,
                            !.live = IF slot THEN None ELSE 0,
                            !.expiry = IF slot THEN SlotEnd(p.start, p.end, p.window) ELSE p.end]
      /\ isExpired' = IsOver(due'.expiry)
      /\ row' = [row EXCEPT ![Host] = "in"]
      /\ invited' = friends
      /\ IF slot THEN UNCHANGED handler ELSE Serve(h, "provision", "create", Host, FALSE)
      /\ UNCHANGED <<restricted, hash, past, requests>>

\* Fault variant: every space is provisioned without a gate.
ProvisionUngated(h) ==
  /\ Pc(h, "provision")
  /\ hash' = "open"
  /\ due' = [due EXCEPT !.hash = HashTTL]
  /\ early' = {}
  /\ IF handler[h].op \in {"create", "start"} THEN Release(h)
                                              ELSE Proceed(h, "reconcile")
  /\ UNCHANGED <<plan, status, isExpired, people, opened, parted, raced, slipped, requests>>

\* provisionSessionRoomRedis: a gate only where the host opens the space.
ProvisionSpace(h) ==
  /\ Pc(h, "provision")
  /\ hash' = IF plan.lead = "host" THEN "closed" ELSE "open"
  /\ due' = [due EXCEPT !.hash = HashTTL]
  /\ early' = {}
  /\ IF handler[h].op \in {"create", "start"} THEN Release(h)
                                              ELSE Proceed(h, "reconcile")
  /\ UNCHANGED <<plan, status, isExpired, people, opened, parted, raced, slipped, requests>>

\* A handler that is about to delete the session hash.
DropsHash(h) == handler[h].pc \in {"drop", "drop_again"}

\* Host and clients: start, join, GET rtc-token, open-meeting.
Arrive(h, op, u) ==
  /\ status # "none"
  /\ Request
  /\ op \in {"start", "open"} => u = Host
  /\ Serve(h, IF op \in {"join", "token"} THEN "auto_start" ELSE "reconcile",
           op, u, FALSE)
  /\ UNCHANGED <<roomRow, people, hash, past>>

\* markRoomLive: one conditional update. A new session has no early guest.
GoLive ==
  /\ status' = "live"
  /\ due' = [due EXCEPT !.live = 0, !.expiry = ListingEnd("live"), !.hash = None]
  /\ isExpired' = IsOver(due'.expiry)
  /\ opened' = FALSE /\ early' = {}
  /\ parted' = IF LeavesOpen THEN "together" ELSE None
  /\ raced' = \E g \in Handlers : DropsHash(g)

\* maybeAutoStartScheduledSpaceFromDb
AutoStart(h) ==
  LET starts == /\ status = "scheduled" /\ ~ SessionClosed
                /\ plan.lead = "auto" /\ Booked /\ ~ BeforeStart
  IN  /\ Pc(h, "auto_start")
      /\ \/ starts /\ GoLive /\ Proceed(h, "provision") /\ UNCHANGED <<plan, slipped>>
         \/ ~ starts /\ Proceed(h, "reconcile") /\ UNCHANGED <<roomRow, past>>
      /\ UNCHANGED <<people, hash, requests>>

\* Fault variant: the row goes live without its session hash.
MarkLiveOnly(h) ==
  /\ Pc(h, "mark_live")
  /\ Release(h)
  /\ \/ status = "scheduled" /\ GoLive /\ UNCHANGED <<plan, slipped>>
     \/ status # "scheduled" /\ UNCHANGED <<roomRow, past>>
  /\ UNCHANGED <<people, hash, requests>>

\* Fault variant: the update does not ask for a scheduled row.
MarkLiveById(h) ==
  /\ Pc(h, "mark_live")
  /\ GoLive /\ Proceed(h, "provision")
  /\ UNCHANGED <<plan, slipped, people, hash, requests>>

\* startRoomSessionService after its reconcile.
MarkLive(h) ==
  /\ Pc(h, "mark_live")
  /\ \/ status = "scheduled" /\ GoLive /\ Proceed(h, "provision") /\ UNCHANGED <<plan, slipped>>
     \/ status # "scheduled" /\ Release(h) /\ UNCHANGED <<roomRow, past>>
  /\ UNCHANGED <<people, hash, requests>>

-----------------------------------------------------------------------------
(* reconcileRoomSessionOnAccess and endLiveRoomSession: each read, each       *)
(* update and each DEL is a step, and others may act in between.             *)

\* GET /room: one that found a session hash looks and deletes once more.
View(h) ==
  /\ status # "none" /\ Request
  /\ Serve(h, "reconcile", IF hash = "absent" THEN "peek" ELSE "view", None, FALSE)
  /\ UNCHANGED <<roomRow, people, hash, past>>

Admitted(h) ==
  LET op == handler[h].op
  IN  CASE op = "start" -> Proceed(h, "mark_live")
        [] op = "join" -> Proceed(h, "admit")
        [] op = "token" -> Proceed(h, "token")
        [] op = "open" -> Proceed(h, "open")
        [] op = "view" -> Proceed(h, "recheck")
        [] OTHER -> Release(h)

\* The row is read. flag: the session began so long ago that it is over unless
\* somebody is in it or left it since.
Reconcile(h) ==
  LET grace == status = "live" /\ ~ RowOverdue /\ ~ BeforeStart
      over == \/ status \in {"ended", "cancelled"}
              \/ status = "scheduled" /\ ~ GraceMissed /\ SessionClosed
  IN  /\ Pc(h, "reconcile")
      /\ \/ over /\ Proceed(h, "drop")
         \/ GraceMissed /\ Proceed(h, "expire")
         \/ RowOverdue /\ Proceed(h, "end")
         \/ /\ grace
            /\ handler' = [handler EXCEPT ![h].pc = "presence",
                            ![h].flag = HasCome(After(due.live, EmptyGrace))]
         \/ ~ over /\ ~ GraceMissed /\ ~ RowOverdue /\ ~ grace /\ Admitted(h)
      /\ UNCHANGED <<roomRow, people, hash, past, requests>>

\* loadParticipantPresence
CheckPresence(h) ==
  LET empty == /\ Active = {}
               /\ IF due.left # None THEN HasCome(After(due.left, EmptyGrace))
                                     ELSE handler[h].flag
  IN  /\ Pc(h, "presence")
      /\ IF empty THEN Proceed(h, "end") ELSE Admitted(h)
      /\ UNCHANGED <<roomRow, people, hash, past, requests>>

\* expireScheduledJoinGraceMissed asks for strictly more than the grace.
ExpireSlot(h) ==
  LET missed == status = "scheduled" /\ IsOver(After(due.start, JoinGrace))
  IN  /\ Pc(h, "expire")
      /\ isExpired' = (isExpired \/ missed)
      /\ IF missed THEN Proceed(h, "drop") ELSE Admitted(h)
      /\ UNCHANGED <<plan, status, due, people, hash, past, requests>>

\* GET /room reads the row again.
RecheckRoom(h) ==
  /\ Pc(h, "recheck")
  /\ IF SessionClosed THEN Proceed(h, "drop_again") ELSE Release(h)
  /\ UNCHANGED <<roomRow, people, hash, past, requests>>

\* The room is read again: one that is closed only loses its session hash.
EndSession(h) ==
  /\ Pc(h, "end")
  /\ Proceed(h, IF SessionClosed \/ status # "live" THEN "drop" ELSE "end_tx")
  /\ UNCHANGED <<roomRow, people, hash, past, requests>>

\* endLiveRoomSessionTx: a booked slot returns, with its host in it.
EndSpaceTx(h) ==
  LET gone == [u \in Members |-> IF row[u] = "in" THEN "left" ELSE row[u]]
      left == IF Active = {} THEN due.left ELSE 0
  IN  /\ Pc(h, "end_tx")
      /\ Proceed(h, "drop")
      /\ \/ /\ status # "live"
            /\ row' = gone /\ due' = [due EXCEPT !.left = left]
            /\ UNCHANGED <<status, isExpired>>
         \/ /\ status = "live" /\ Booked
            /\ status' = "scheduled"
            /\ due' = [due EXCEPT !.left = left, !.live = None,
                                  !.expiry = ListingEnd("scheduled")]
            /\ isExpired' = IsOver(due'.expiry)
            /\ row' = [gone EXCEPT ![Host] = "in"]
         \/ /\ status = "live" /\ ~ Booked
            /\ status' = "ended"
            /\ due' = [due EXCEPT !.left = left, !.expiry = 0]
            /\ isExpired' = TRUE
            /\ row' = gone
      /\ UNCHANGED <<plan, restricted, invited, hash, past, requests>>

\* deleteSessionRoomRedis, then the RTC keys and the media room.
DropSession(h) ==
  /\ DropsHash(h)
  /\ IF Pc(h, "drop") /\ handler[h].op = "view" THEN Proceed(h, "drop_again")
                                               ELSE Release(h)
  /\ hash' = "absent"
  /\ UNCHANGED <<roomRow, people, past, requests>>

\* hostEndSpaceForEveryoneService
HostEnds(h) ==
  /\ status # "none" /\ Request
  /\ \/ SessionClosed /\ Serve(h, "drop", "end", Host, FALSE)
     \/ ~ SessionClosed /\ status = "live" /\ Serve(h, "end", "end", Host, FALSE)
  /\ UNCHANGED <<roomRow, people, hash, past>>

\* The sweep, one at a time.
Sweep(h) ==
  /\ SweepCandidate
  /\ \A g \in Handlers : handler[g].op # "sweep"
  /\ Serve(h, "reconcile", "sweep", None, FALSE)
  /\ UNCHANGED <<roomRow, people, hash, past, requests>>

\* The list of spaces: syncPastDueSpaceRoomExpiry, then the DEL of the hashes.
ListSpaces(h) ==
  /\ status \in {"live", "scheduled"} /\ ~ isExpired
  /\ \/ IsOver(due.expiry)
     \/ status = "scheduled" /\ IsOver(After(due.start, JoinGrace))
  /\ isExpired' = TRUE
  /\ Serve(h, "drop", "list", None, FALSE)
  /\ UNCHANGED <<plan, status, due, people, hash, past, requests>>

-----------------------------------------------------------------------------
(* joinRoomService and issueRtcTokenService. The queries between two writes *)
(* are one step.                                                            *)

\* Fault variant: whoever has a row comes back.
MayReturn(u) ==
  \/ u = Host \/ row[u] = "left"
  \/ /\ u \notin restricted /\ Cardinality(Active) < Seats
     /\ plan.public \/ u \in invited

MayEnter(u) ==
  \/ u = Host
  \/ /\ u \notin restricted
     /\ \/ row[u] = "left"
        \/ Cardinality(Active) < Seats /\ (plan.public \/ u \in invited)

\* flag: the room was live, a token follows.
Admit(h) ==
  LET u == handler[h].user
      live == status = "live"
      barred == ~ live /\ u # Host /\ u \in restricted
  IN  /\ Pc(h, "admit")
      /\ \/ row[u] = "in" /\ live /\ Proceed(h, "token")
         \/ row[u] = "in" /\ ~ live /\ Release(h)
         \/ /\ row[u] # "in" /\ MayEnter(u) /\ ~ barred
            /\ handler' = [handler EXCEPT ![h].pc = "seat", ![h].flag = live]
         \/ row[u] # "in" /\ (~ MayEnter(u) \/ barred) /\ Release(h)
      /\ UNCHANGED <<roomRow, people, hash, past, requests>>

\* addOrReactivateParticipantRow
SeatMember(h) ==
  /\ Pc(h, "seat")
  /\ row' = [row EXCEPT ![handler[h].user] = "in"]
  /\ IF handler[h].flag THEN Proceed(h, "refresh") ELSE Release(h)
  /\ UNCHANGED <<roomRow, restricted, invited, hash, past, requests>>

\* The updates of the two deadlines do not ask whether the session is over.
NotesRevival == raced' = (raced \/ SessionClosed)

\* refreshLiveSpaceExpiryAfterParticipantJoin
RefreshExpiry(h) ==
  /\ Pc(h, "refresh")
  /\ Proceed(h, "token")
  /\ IF status = "live"
       THEN /\ due' = [due EXCEPT !.expiry = ListingEnd("live")]
            /\ isExpired' = IsOver(due'.expiry)
            /\ NotesRevival
       ELSE UNCHANGED <<due, isExpired, raced>>
  /\ UNCHANGED <<plan, status, people, hash, opened, early, parted, slipped, requests>>

\* A live room that nobody is in starts its clock again.
CheckClock(h) ==
  /\ Pc(h, "token")
  /\ \/ handler[h].op = "token" /\ status # "live" /\ Release(h)
     \/ /\ handler[h].op = "join" \/ status = "live"
        /\ Proceed(h, IF status = "live" /\ Active = {} THEN "restart" ELSE "gate")
  /\ UNCHANGED <<roomRow, people, hash, past, requests>>

\* Fault variant: the new clock runs on from the old deadline.
RestartClockExtends(h) ==
  /\ Pc(h, "restart")
  /\ Proceed(h, "gate")
  /\ due' = [due EXCEPT !.live = 0, !.expiry = After(LiveEnd, SessionCap)]
  /\ isExpired' = FALSE
  /\ NotesRevival
  /\ UNCHANGED <<plan, status, people, hash, opened, early, parted, slipped, requests>>

\* The update of restartLiveSessionClockIfNoActiveParticipants, by id alone.
RestartClock(h) ==
  /\ Pc(h, "restart")
  /\ Proceed(h, "gate")
  /\ due' = [due EXCEPT !.live = 0, !.expiry = LiveEnd]
  /\ isExpired' = FALSE
  /\ NotesRevival
  /\ UNCHANGED <<plan, status, people, hash, opened, early, parted, slipped, requests>>

\* Restriction, participant and gate, then the token.
PassGate(h) ==
  LET u == handler[h].user
      passes == \/ u = Host
                \/ /\ u \notin restricted
                   /\ handler[h].op = "token" => row[u] # "absent"
                   /\ ~ (plan.lead = "host" /\ hash = "closed")
  IN  /\ Pc(h, "gate")
      /\ Release(h)
      /\ early' = IF passes /\ u # Host /\ ~ opened THEN early \cup {u} ELSE early
      /\ UNCHANGED <<roomRow, people, hash, opened, parted, raced, slipped, requests>>

\* openSpaceMeetingService: refused while there is no session hash.
OpenMeeting(h) ==
  /\ Pc(h, "open")
  /\ IF status = "live" /\ hash # "absent" THEN Proceed(h, "unlock") ELSE Release(h)
  /\ UNCHANGED <<roomRow, people, hash, past, requests>>

\* The HSET asks for nothing: it may make the hash again.
ClearGate(h) ==
  /\ Pc(h, "unlock")
  /\ Release(h)
  /\ hash' = "open" /\ due' = [due EXCEPT !.hash = HashTTL] /\ opened' = TRUE
  /\ UNCHANGED <<plan, status, isExpired, people, early, parted, raced, slipped, requests>>

-----------------------------------------------------------------------------
(* leaveSpaceRtcSessionForUser, kickSpaceParticipantService, the schedule    *)

Part(how) == parted' = IF parted = "together" THEN parted ELSE how
GoneAt(u) == /\ row' = [row EXCEPT ![u] = "left"]
             /\ due' = [due EXCEPT !.left = 0]

Leave(h, u) ==
  /\ status # "none" /\ Request
  /\ \/ SessionClosed /\ Serve(h, "drop", "leave", u, FALSE)
     \/ /\ ~ SessionClosed /\ row[u] = "in"
        /\ \/ status = "scheduled" /\ Serve(h, "lobby", "leave", u, FALSE)
           \/ status = "live" /\ Serve(h, "leave", "leave", u, FALSE)
  /\ UNCHANGED <<roomRow, people, hash, past>>

\* markParticipantLeft of a member who was in the lobby: it counts nobody.
LeaveLobby(h) ==
  LET u == handler[h].user
  IN  /\ Pc(h, "lobby")
      /\ Release(h)
      /\ IF row[u] = "in" THEN GoneAt(u) ELSE UNCHANGED <<row, due>>
      /\ Part(IF LeavesOpen THEN "together" ELSE "removed")
      /\ UNCHANGED <<plan, status, isExpired, restricted, invited, hash, opened,
                     early, raced, slipped, requests>>

\* Fault variant: the rows are counted before the member has left.
LeaveTxCountsSelf(h) ==
  /\ Pc(h, "leave")
  /\ handler' = [handler EXCEPT ![h].pc = "leave_commit", ![h].flag = Active = {}]
  /\ parted' = IF LeavesOpen THEN "together" ELSE parted
  /\ UNCHANGED <<roomRow, people, hash, opened, early, raced, slipped, requests>>

\* leaveAndMaybeEndRoomTx at read committed: the transaction counts the rows
\* that were committed before it, and its own.
LeaveTx(h) ==
  LET u == handler[h].user
  IN  /\ Pc(h, "leave")
      /\ handler' = [handler EXCEPT ![h].pc = "leave_commit",
                                    ![h].flag = Active \subseteq {u}]
      /\ parted' = IF LeavesOpen THEN "together" ELSE parted
      /\ UNCHANGED <<roomRow, people, hash, opened, early, raced, slipped, requests>>

LeaveCommit(h) ==
  LET u == handler[h].user
      ends == handler[h].flag /\ plan.oneShot /\ status = "live"
      gone == [due EXCEPT !.left = IF row[u] = "in" THEN 0 ELSE @]
  IN  /\ Pc(h, "leave_commit")
      /\ row' = [row EXCEPT ![u] = "left"]
      /\ \/ /\ ends
            /\ status' = "ended" /\ isExpired' = TRUE
            /\ due' = [gone EXCEPT !.expiry = 0]
            /\ Proceed(h, "drop")
         \/ ~ ends /\ due' = gone /\ Release(h) /\ UNCHANGED <<status, isExpired>>
      /\ Part("left")
      /\ UNCHANGED <<plan, restricted, invited, hash, opened, early, raced,
                     slipped, requests>>

\* The host, or a member's client that saw something indecent, which always
\* restricts. flag: the member may not come back.
Kick(h, u, restrict) ==
  /\ status = "live" /\ u # Host /\ row[u] = "in"
  /\ Request
  /\ \/ SessionClosed /\ UNCHANGED handler
     \/ ~ SessionClosed /\ Serve(h, "kick", "kick", u, restrict)
  /\ UNCHANGED <<roomRow, people, hash, past>>

KickOut(h) ==
  LET u == handler[h].user
  IN  /\ Pc(h, "kick")
      /\ Proceed(h, "uninvite")
      /\ IF row[u] = "in" THEN GoneAt(u) ELSE UNCHANGED <<row, due>>
      /\ Part(IF LeavesOpen THEN "together" ELSE "removed")
      /\ UNCHANGED <<plan, status, isExpired, restricted, invited, hash, opened,
                     early, raced, slipped, requests>>

Uninvite(h) ==
  /\ Pc(h, "uninvite")
  /\ IF handler[h].flag THEN Proceed(h, "restrict") ELSE Release(h)
  /\ invited' = invited \ {handler[h].user}
  /\ UNCHANGED <<roomRow, row, restricted, hash, past, requests>>

\* The restriction is the last write of the removal.
Restrict(h) ==
  LET u == handler[h].user
      back == row[u] = "in" \/ \E g \in Handlers : Pc(g, "seat") /\ handler[g].user = u
  IN  /\ Pc(h, "restrict")
      /\ Release(h)
      /\ restricted' = restricted \cup {u}
      /\ slipped' = IF back THEN slipped \cup {u} ELSE slipped
      /\ UNCHANGED <<roomRow, row, invited, hash, opened, early, parted, raced, requests>>

\* cancelScheduledSpaceByHost
CancelSpace ==
  /\ status = "scheduled" /\ Request
  /\ status' = "cancelled"
  /\ UNCHANGED <<plan, due, isExpired, people, hash, handler, past>>

\* updateScheduledSpaceByHost: a start in the future, an end after it.
Reschedule(start, end) ==
  /\ status = "scheduled" /\ Request
  /\ start > 0 /\ (end # None => end > start)
  /\ due' = [due EXCEPT !.start = start, !.end = end,
                        !.expiry = SlotEnd(start, end, plan.window)]
  /\ isExpired' = IsOver(due'.expiry)
  /\ UNCHANGED <<plan, status, people, hash, handler, past>>

-----------------------------------------------------------------------------
\* An hour passes; a handler takes much less. The session hash lapses.
Later(t) == IF t = None \/ t = PastBound THEN t ELSE t - 1
Hour ==
  /\ status # "none" /\ NoHandler
  /\ due' = [k \in DOMAIN due |-> Later(due[k])]
  /\ hash' = IF HasCome(due'.hash) THEN "absent" ELSE hash
  /\ UNCHANGED <<plan, status, isExpired, people, handler, past, requests>>

\* Postgres and Redis keep their state; the handlers are gone.
ServerStops ==
  /\ ~ NoHandler /\ Request
  /\ handler' = [h \in Handlers |-> Idle]
  /\ raced' = TRUE
  /\ UNCHANGED <<roomRow, people, hash, opened, early, parted, slipped>>

SpaceStep(h) ==
  \/ ProvisionSpace(h) \/ AutoStart(h) \/ MarkLive(h)
  \/ Reconcile(h) \/ CheckPresence(h) \/ ExpireSlot(h) \/ RecheckRoom(h)
  \/ EndSession(h) \/ EndSpaceTx(h) \/ DropSession(h)
  \/ Admit(h) \/ SeatMember(h) \/ RefreshExpiry(h) \/ CheckClock(h)
  \/ RestartClock(h) \/ PassGate(h) \/ OpenMeeting(h) \/ ClearGate(h)
  \/ LeaveLobby(h) \/ LeaveTx(h) \/ LeaveCommit(h)
  \/ KickOut(h) \/ Uninvite(h) \/ Restrict(h)

SpaceNext ==
  \/ \E h \in Handlers :
       \/ SpaceStep(h) \/ HostEnds(h) \/ Sweep(h) \/ View(h) \/ ListSpaces(h)
       \/ \E p \in Plans, friends \in {{}, Guests} : CreateSpace(h, p, friends)
       \/ \E u \in Members : Leave(h, u)
       \/ \E op \in {"start", "open", "join", "token"}, u \in Members : Arrive(h, op, u)
       \/ \E u \in Guests, restrict \in BOOLEAN : Kick(h, u, restrict)
  \/ CancelSpace \/ Hour \/ ServerStops
  \/ \E start \in 1..2, end \in {3, None} : Reschedule(start, end)

SpaceSpec == SpaceInit /\ [][SpaceNext]_spaceVars

\* Handlers that run go on, the sweep comes round, and time passes: that an hour
\* waits for the handlers only says that they take less.
SpaceFairness ==
  /\ \A h \in Handlers : WF_spaceVars(SpaceStep(h))
  /\ WF_spaceVars(\E h \in Handlers : Sweep(h))
  /\ SF_spaceVars(Hour)

SpaceFairSpec == SpaceSpec /\ SpaceFairness

=============================================================================
