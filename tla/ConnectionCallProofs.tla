------------------------ MODULE ConnectionCallProofs ------------------------
(***************************************************************************)
(* Proofs about the call handlers, for any accounts, requests, handler     *)
(* slots and bounds: every key and row keeps its type, an outcome is       *)
(* written once but for late failures, a completed call is logged once.    *)
(***************************************************************************)
EXTENDS ConnectionCallProperties, TLAPS

\* Places of an initiate handler before the invite exists.
Starting == {"pending", "create", "provision", "claim", "by_room", "hset"}

\* What a handler works on was dialled, and each one writes a known status.
HandlersDialled ==
  \A p \in Procs :
    /\ At(p, "free") => proc[p].req = None
    /\ ~ At(p, "free") => /\ proc[p].req \in Requests /\ proc[p].op \in Ops
                          /\ dial[proc[p].req] # None
    /\ At(p, "seat") => proc[p].op = "accepted"
    /\ At(p, "write") => proc[p].op \in Outcomes \cup {"accepted", "expired"}

\* Nothing is there of a request that was not dialled.
UnusedIsBlank ==
  \A r \in Requests : dial[r] = None =>
    r \notin announced /\ r \notin timers /\ room[r] = "none" /\ invite[r] = "absent"

\* Until the invite exists nobody else can work on the request.
StartsAlone ==
  \A p \in Procs : proc[p].pc \in Starting =>
    LET r == proc[p].req
    IN  /\ r \notin announced /\ r \notin timers /\ invite[r] = "absent"
        /\ proc[p].pc \in {"pending", "create"} => room[r] = "none"
        /\ \A q \in Procs : proc[q].req = r => q = p

CallShape == CallTypeOK /\ HandlersDialled /\ UnusedIsBlank /\ StartsAlone

-----------------------------------------------------------------------------
(* What a handler step does to the table of handlers.                       *)

\* Goto moves one handler and keeps what it works on.
LEMMA HandlerGoes ==
  ASSUME CallTypeOK, NEW p \in Procs, NEW pc \in Pcs, Goto(p, pc)
  PROVE  /\ proc' \in [Procs -> Handler]
         /\ \A q \in Procs : /\ proc'[q].req = proc[q].req
                             /\ proc'[q].op = proc[q].op
                             /\ proc'[q].pc = IF q = p THEN pc ELSE proc[q].pc
BY DEF CallTypeOK, Goto, Handler

\* Finish empties one slot.
LEMMA HandlerEnds ==
  ASSUME CallTypeOK, NEW p \in Procs, Finish(p)
  PROVE  /\ proc' \in [Procs -> Handler]
         /\ \A q \in Procs : proc'[q] = IF q = p THEN Free ELSE proc[q]
         /\ proc'[p].pc = "free" /\ proc'[p].req = None
BY DEF CallTypeOK, Finish, Handler, Free, Pcs

\* Begin fills one slot.
LEMMA HandlerBegins ==
  ASSUME CallTypeOK, NEW p \in Procs, NEW pc \in Pcs, NEW op \in Ops, NEW r \in Requests,
         Begin(p, pc, op, r)
  PROVE  /\ proc' \in [Procs -> Handler]
         /\ proc[p].pc = "free"
         /\ proc'[p].pc = pc /\ proc'[p].op = op /\ proc'[p].req = r
         /\ \A q \in Procs \ {p} : proc'[q] = proc[q]
BY DEF CallTypeOK, Begin, At, Handler

\* None is no request and no dialled pair.
LEMMA NoneIsNoRequest == None \notin Requests /\ None \notin Dials
BY RequestsAssumption DEF Dials

\* The invariant holds before the first call.
LEMMA CallShapeInit == CallInit => CallShape
<1> SUFFICES ASSUME CallInit PROVE CallShape
  OBVIOUS
<1> USE NoneIsNoRequest DEF CallInit
<1>1. \A p \in Procs : proc[p] = Free /\ proc[p].pc = "free" /\ proc[p].req = None
  BY DEF Free
<1>2. proc \in [Procs -> Handler]
  BY DEF Free, Handler, Pcs
<1>3. CallTypeOK
  <2>1. /\ dial \in [Requests -> Dials \cup {None}]
        /\ invite \in [Requests -> Statuses]
        /\ ringing \in [Users -> Requests \cup {None}]
        /\ room \in [Requests -> {"none", "live", "ended"}]
        /\ seated \in [Requests -> SUBSET Users]
    BY DEF Statuses
  <2>2. /\ outcome \in [Requests -> Nat] /\ completed \in [Requests -> Nat]
        /\ readers \in [Requests -> 0..2] /\ late \in [Requests -> Nat]
        /\ closedBy \in [Requests -> Ops \cup {None}]
    OBVIOUS
  <2> QED
    BY <1>2, <2>1, <2>2 DEF CallTypeOK
<1>4. HandlersDialled
  BY <1>1 DEF HandlersDialled, At
<1>5. UnusedIsBlank
  BY DEF UnusedIsBlank
<1>6. StartsAlone
  BY <1>1 DEF StartsAlone, Starting
<1> QED
  BY <1>3, <1>4, <1>5, <1>6 DEF CallShape

-----------------------------------------------------------------------------
(* A handler past the start of a call disturbs its own request alone.       *)

\* Another handler's starting request is untouched, and its own is dialled.
LEMMA OthersUntouched ==
  ASSUME CallShape, NEW p \in Procs, ~ At(p, "free"), dial' = dial,
         \A q \in Procs \ {p} : proc'[q] = proc[q],
         proc'[p].pc \notin Starting, proc'[p].req \in {proc[p].req, None},
         proc'[p].pc = "free" <=> proc'[p].req = None,
         proc'[p].pc # "free" => proc'[p].op = proc[p].op /\ proc'[p].pc # "seat",
         proc'[p].pc = "write" => proc[p].op \in Outcomes \cup {"accepted", "expired"},
         \A r \in Requests \ {proc[p].req} :
           /\ r \in announced' <=> r \in announced
           /\ r \in timers' <=> r \in timers
           /\ room'[r] = room[r] /\ invite'[r] = invite[r]
  PROVE  HandlersDialled' /\ UnusedIsBlank' /\ StartsAlone'
<1>1. proc[p].req \in Requests /\ proc[p].op \in Ops /\ dial[proc[p].req] # None
  BY DEF CallShape, HandlersDialled
<1>2. HandlersDialled'
  BY <1>1 DEF CallShape, HandlersDialled, At
<1>3. UnusedIsBlank'
  BY <1>1 DEF CallShape, UnusedIsBlank
<1>4. StartsAlone'
  <2> SUFFICES ASSUME NEW q \in Procs, proc'[q].pc \in Starting
               PROVE  LET r == proc'[q].req
                      IN  /\ r \notin announced' /\ r \notin timers' /\ invite'[r] = "absent"
                          /\ proc'[q].pc \in {"pending", "create"} => room'[r] = "none"
                          /\ \A o \in Procs : proc'[o].req = r => o = q
    BY DEF StartsAlone
  <2>1. q # p /\ proc'[q] = proc[q]
    OBVIOUS
  <2>2. proc[q].req \in Requests /\ proc[q].req # proc[p].req
    BY <2>1 DEF CallShape, HandlersDialled, StartsAlone, At, Starting
  <2>3. proc[q].req # None
    BY <2>2, NoneIsNoRequest
  <2> QED
    BY <2>1, <2>2, <2>3 DEF CallShape, StartsAlone
<1> QED
  BY <1>2, <1>3, <1>4

\* The same for a handler that goes on.
LEMMA GoesAlone ==
  ASSUME CallShape, NEW p \in Procs, ~ At(p, "free"), dial' = dial,
         NEW pc \in Pcs \ (Starting \cup {"free", "seat"}), Goto(p, pc),
         pc = "write" => proc[p].op \in Outcomes \cup {"accepted", "expired"},
         \A r \in Requests \ {proc[p].req} :
           /\ r \in announced' <=> r \in announced
           /\ r \in timers' <=> r \in timers
           /\ room'[r] = room[r] /\ invite'[r] = invite[r]
  PROVE  /\ proc' \in [Procs -> Handler]
         /\ HandlersDialled' /\ UnusedIsBlank' /\ StartsAlone'
<1>1. CallTypeOK /\ pc \in Pcs
  BY DEF CallShape
<1>2. proc' \in [Procs -> Handler] /\ \A q \in Procs \ {p} : proc'[q] = proc[q]
  BY <1>1, HandlerGoes DEF Goto, CallTypeOK
<1>3. proc'[p].pc = pc /\ proc'[p].req = proc[p].req /\ proc'[p].op = proc[p].op
  BY <1>1, HandlerGoes
<1>4. proc[p].req \in Requests
  BY DEF CallShape, HandlersDialled
<1> QED
  BY <1>2, <1>3, <1>4, NoneIsNoRequest, OthersUntouched

\* And for one that is done.
LEMMA EndsAlone ==
  ASSUME CallShape, NEW p \in Procs, ~ At(p, "free"), dial' = dial, Finish(p),
         \A r \in Requests \ {proc[p].req} :
           /\ r \in announced' <=> r \in announced
           /\ r \in timers' <=> r \in timers
           /\ room'[r] = room[r] /\ invite'[r] = invite[r]
  PROVE  /\ proc' \in [Procs -> Handler]
         /\ HandlersDialled' /\ UnusedIsBlank' /\ StartsAlone'
<1>1. /\ proc' \in [Procs -> Handler]
      /\ \A q \in Procs \ {p} : proc'[q] = proc[q]
      /\ proc'[p].pc = "free" /\ proc'[p].req = None
  BY HandlerEnds DEF CallShape
<1> QED
  BY <1>1, OthersUntouched DEF Starting

-----------------------------------------------------------------------------
(* Every step of a handler keeps the invariant.                             *)

\* The steps after the start of a call go on alone.
LEMMA LaterStepsKeep ==
  ASSUME CallShape, NEW p \in Procs,
         \/ RingCallee(p) \/ SetActive(p) \/ DeleteSession(p)
         \/ WriteInvite(p) \/ SeatCallee(p) \/ WriteStatus(p) \/ RecordOutcome(p)
         \/ PublishOutcome(p) \/ UndoRecord(p) \/ DeleteInvite(p) \/ DeleteRinging(p)
         \/ DeleteByRoom(p) \/ ClearActive(p) \/ GetActive(p) \/ LogCompleted(p)
         \/ PublishCompleted(p) \/ DeleteActive(p) \/ FindRoom(p) \/ EndTx(p)
  PROVE  CallShape'
<1> DEFINE r == proc[p].req
<1> USE DEF CallTypeOK, At, ring, call, chat, history, counters
<1>a. CallTypeOK
  BY DEF CallShape
<1>b. ~ At(p, "free") => r \in Requests /\ proc[p].op \in Ops /\ dial[r] \in Dials
  BY <1>a DEF CallShape, HandlersDialled
<1>1. CASE WriteInvite(p)
  <2>1. proc' \in [Procs -> Handler] /\ HandlersDialled' /\ UnusedIsBlank' /\ StartsAlone'
    BY <1>a, <1>b, <1>1, GoesAlone DEF WriteInvite, Pcs, Starting, CallShape
  <2>2. CallTypeOK'
    BY <1>a, <1>b, <1>1, <2>1 DEF WriteInvite, Statuses
  <2> QED
    BY <2>1, <2>2 DEF CallShape
<1>2. CASE SeatCallee(p)
  <2>1. proc' \in [Procs -> Handler] /\ HandlersDialled' /\ UnusedIsBlank' /\ StartsAlone'
    BY <1>a, <1>b, <1>2, GoesAlone DEF SeatCallee, Pcs, Starting, CallShape, HandlersDialled
  <2>2. CallTypeOK'
    BY <1>a, <1>b, <1>2, <2>1 DEF SeatCallee, Callee, Dials
  <2> QED
    BY <2>1, <2>2 DEF CallShape
<1>3. CASE WriteStatus(p)
  <2>1. proc' \in [Procs -> Handler] /\ HandlersDialled' /\ UnusedIsBlank' /\ StartsAlone'
    BY <1>a, <1>b, <1>3, GoesAlone DEF WriteStatus, Pcs, Starting, CallShape
  <2>2. Status(proc[p].op) \in Statuses
    BY <1>3 DEF WriteStatus, CallShape, HandlersDialled, Statuses, Status, Outcomes
  <2>3. CallTypeOK'
    BY <1>a, <1>b, <1>3, <2>1, <2>2 DEF WriteStatus, Statuses
  <2> QED
    BY <2>1, <2>3 DEF CallShape
<1>4. CASE RecordOutcome(p)
  <2>1. proc' \in [Procs -> Handler] /\ HandlersDialled' /\ UnusedIsBlank' /\ StartsAlone'
    BY <1>a, <1>b, <1>4, GoesAlone DEF RecordOutcome, Pcs, Starting, CallShape
  <2>2. CallTypeOK'
    BY <1>a, <1>b, <1>4, <2>1 DEF RecordOutcome
  <2> QED
    BY <2>1, <2>2 DEF CallShape
<1>5. CASE PublishOutcome(p)
  <2>1. proc' \in [Procs -> Handler] /\ HandlersDialled' /\ UnusedIsBlank' /\ StartsAlone'
    BY <1>a, <1>b, <1>5, GoesAlone DEF PublishOutcome, Pcs, Starting, CallShape, Fault
  <2>2. CallTypeOK'
    BY <1>a, <1>b, <1>5, <2>1 DEF PublishOutcome, Fault
  <2> QED
    BY <2>1, <2>2 DEF CallShape
<1>6. CASE UndoRecord(p)
  <2>1. proc' \in [Procs -> Handler] /\ HandlersDialled' /\ UnusedIsBlank' /\ StartsAlone'
    BY <1>a, <1>b, <1>6, GoesAlone DEF UndoRecord, Pcs, Starting, CallShape
  <2>2. CallTypeOK'
    BY <1>a, <1>b, <1>6, <2>1 DEF UndoRecord
  <2> QED
    BY <2>1, <2>2 DEF CallShape
<1>7. CASE DeleteInvite(p)
  <2>1. proc' \in [Procs -> Handler] /\ HandlersDialled' /\ UnusedIsBlank' /\ StartsAlone'
    BY <1>a, <1>b, <1>7, GoesAlone DEF DeleteInvite, Pcs, Starting, CallShape
  <2>2. CallTypeOK'
    BY <1>a, <1>b, <1>7, <2>1 DEF DeleteInvite, Statuses
  <2> QED
    BY <2>1, <2>2 DEF CallShape
<1>8. CASE DeleteRinging(p)
  <2>1. proc' \in [Procs -> Handler] /\ HandlersDialled' /\ UnusedIsBlank' /\ StartsAlone'
    BY <1>a, <1>b, <1>8, GoesAlone DEF DeleteRinging, Pcs, Starting, CallShape
  <2>2. CallTypeOK'
    BY <1>a, <1>b, <1>8, <2>1 DEF DeleteRinging
  <2> QED
    BY <2>1, <2>2 DEF CallShape
<1>9. CASE DeleteByRoom(p)
  <2>1. proc' \in [Procs -> Handler] /\ HandlersDialled' /\ UnusedIsBlank' /\ StartsAlone'
    BY <1>a, <1>b, <1>9, GoesAlone DEF DeleteByRoom, Pcs, Starting, CallShape
  <2>2. CallTypeOK'
    BY <1>a, <1>b, <1>9, <2>1 DEF DeleteByRoom
  <2> QED
    BY <2>1, <2>2 DEF CallShape
<1>10. CASE ClearActive(p)
  <2>1. proc' \in [Procs -> Handler] /\ HandlersDialled' /\ UnusedIsBlank' /\ StartsAlone'
    BY <1>a, <1>b, <1>10, GoesAlone DEF ClearActive, Pcs, Starting, CallShape
  <2>2. CallTypeOK'
    BY <1>a, <1>b, <1>10, <2>1 DEF ClearActive
  <2> QED
    BY <2>1, <2>2 DEF CallShape
<1>11. CASE GetActive(p)
  <2>1. proc' \in [Procs -> Handler] /\ HandlersDialled' /\ UnusedIsBlank' /\ StartsAlone'
    BY <1>a, <1>b, <1>11, GoesAlone DEF GetActive, Pcs, Starting, CallShape
  <2>2. CallTypeOK'
    BY <1>a, <1>b, <1>11, <2>1 DEF GetActive
  <2> QED
    BY <2>1, <2>2 DEF CallShape
<1>12. CASE LogCompleted(p)
  <2>1. proc' \in [Procs -> Handler] /\ HandlersDialled' /\ UnusedIsBlank' /\ StartsAlone'
    BY <1>a, <1>b, <1>12, GoesAlone DEF LogCompleted, Pcs, Starting, CallShape
  <2>2. CallTypeOK'
    BY <1>a, <1>b, <1>12, <2>1 DEF LogCompleted
  <2> QED
    BY <2>1, <2>2 DEF CallShape
<1>13. CASE PublishCompleted(p)
  <2>1. proc' \in [Procs -> Handler] /\ HandlersDialled' /\ UnusedIsBlank' /\ StartsAlone'
    BY <1>a, <1>b, <1>13, GoesAlone DEF PublishCompleted, Pcs, Starting, CallShape, Fault
  <2>2. CallTypeOK'
    BY <1>a, <1>b, <1>13, <2>1 DEF PublishCompleted, Fault
  <2> QED
    BY <2>1, <2>2 DEF CallShape
<1>14. CASE DeleteActive(p)
  <2>1. proc' \in [Procs -> Handler] /\ HandlersDialled' /\ UnusedIsBlank' /\ StartsAlone'
    BY <1>a, <1>b, <1>14, GoesAlone DEF DeleteActive, Pcs, Starting, CallShape
  <2>2. CallTypeOK'
    BY <1>a, <1>b, <1>14, <2>1 DEF DeleteActive
  <2> QED
    BY <2>1, <2>2 DEF CallShape
<1>15. CASE FindRoom(p)
  <2>1. proc' \in [Procs -> Handler] /\ HandlersDialled' /\ UnusedIsBlank' /\ StartsAlone'
    BY <1>a, <1>b, <1>15, GoesAlone DEF FindRoom, Pcs, Starting, CallShape
  <2>2. CallTypeOK'
    BY <1>a, <1>b, <1>15, <2>1 DEF FindRoom
  <2> QED
    BY <2>1, <2>2 DEF CallShape
<1>16. CASE EndTx(p)
  <2>1. proc' \in [Procs -> Handler] /\ HandlersDialled' /\ UnusedIsBlank' /\ StartsAlone'
    BY <1>a, <1>b, <1>16, GoesAlone DEF EndTx, Pcs, Starting, CallShape
  <2>2. CallTypeOK'
    BY <1>a, <1>b, <1>16, <2>1 DEF EndTx
  <2> QED
    BY <2>1, <2>2 DEF CallShape
<1>17. CASE RingCallee(p)
  <2>1. proc' \in [Procs -> Handler] /\ HandlersDialled' /\ UnusedIsBlank' /\ StartsAlone'
    BY <1>a, <1>b, <1>17, EndsAlone DEF RingCallee
  <2>2. CallTypeOK'
    BY <1>a, <1>b, <1>17, <2>1 DEF RingCallee
  <2> QED
    BY <2>1, <2>2 DEF CallShape
<1>18. CASE SetActive(p)
  <2>1. proc' \in [Procs -> Handler] /\ HandlersDialled' /\ UnusedIsBlank' /\ StartsAlone'
    BY <1>a, <1>b, <1>18, EndsAlone DEF SetActive
  <2>2. CallTypeOK'
    BY <1>a, <1>b, <1>18, <2>1 DEF SetActive
  <2> QED
    BY <2>1, <2>2 DEF CallShape
<1>19. CASE DeleteSession(p)
  <2>1. proc' \in [Procs -> Handler] /\ HandlersDialled' /\ UnusedIsBlank' /\ StartsAlone'
    BY <1>a, <1>b, <1>19, EndsAlone DEF DeleteSession
  <2>2. CallTypeOK'
    BY <1>a, <1>b, <1>19, <2>1 DEF DeleteSession
  <2> QED
    BY <2>1, <2>2 DEF CallShape
<1> QED
  BY <1>1, <1>2, <1>3, <1>4, <1>5, <1>6, <1>7, <1>8, <1>9, <1>10, <1>11, <1>12, <1>13, <1>14,
     <1>15, <1>16, <1>17, <1>18, <1>19

-----------------------------------------------------------------------------
(* The start of a call, arrivals, time and restarts.                        *)

\* A starting handler that goes on still works alone.
LEMMA StartGoes ==
  ASSUME CallShape, NEW p \in Procs, proc[p].pc \in Starting,
         NEW pc \in {"provision", "claim", "by_room", "hset"}, Goto(p, pc),
         UNCHANGED <<dial, announced, timers, invite>>,
         \A r \in Requests \ {proc[p].req} : room'[r] = room[r]
  PROVE  /\ proc' \in [Procs -> Handler]
         /\ HandlersDialled' /\ UnusedIsBlank' /\ StartsAlone'
<1>1. CallTypeOK /\ pc \in Pcs /\ pc \in Starting
  BY DEF CallShape, Pcs, Starting
<1>2. /\ proc' \in [Procs -> Handler]
      /\ \A q \in Procs : /\ proc'[q].req = proc[q].req /\ proc'[q].op = proc[q].op
                          /\ proc'[q].pc = IF q = p THEN pc ELSE proc[q].pc
  BY <1>1, HandlerGoes
<1>3. proc[p].req \in Requests /\ dial[proc[p].req] # None
  BY DEF CallShape, HandlersDialled, At, Starting
<1>4. HandlersDialled'
  BY <1>2, <1>3 DEF CallShape, HandlersDialled, At, Starting
<1>5. UnusedIsBlank'
  BY <1>3 DEF CallShape, UnusedIsBlank
<1>6. StartsAlone'
  <2> SUFFICES ASSUME NEW q \in Procs, proc'[q].pc \in Starting
               PROVE  /\ proc'[q].req \notin announced' /\ proc'[q].req \notin timers'
                      /\ invite'[proc'[q].req] = "absent"
                      /\ proc'[q].pc \in {"pending", "create"} => room'[proc'[q].req] = "none"
                      /\ \A o \in Procs : proc'[o].req = proc'[q].req => o = q
    BY DEF StartsAlone
  <2>1. proc[q].pc \in Starting /\ proc'[q].req = proc[q].req /\ proc[q].req \in Requests
    BY <1>2 DEF CallShape, HandlersDialled, At, Starting
  <2>2. q # p => proc[q].req # proc[p].req
    BY <2>1 DEF CallShape, StartsAlone
  <2>3. CASE q = p
    BY <1>2, <2>1, <2>3 DEF CallShape, StartsAlone
  <2>4. CASE q # p
    BY <1>2, <2>1, <2>2, <2>4 DEF CallShape, StartsAlone
  <2> QED
    BY <2>3, <2>4
<1> QED
  BY <1>2, <1>4, <1>5, <1>6

\* A handler that begins on a request that nobody is starting.
LEMMA BeginsLater ==
  ASSUME CallShape, NEW p \in Procs, NEW r \in Requests, dial[r] # None,
         NEW pc \in Pcs \ (Starting \cup {"free"}), NEW op \in Ops, Begin(p, pc, op, r),
         pc = "seat" => op = "accepted",
         pc = "write" => op \in Outcomes \cup {"accepted", "expired"},
         \A q \in Procs : proc[q].pc \in Starting => proc[q].req # r,
         UNCHANGED <<dial, announced, invite, room>>, timers' \subseteq timers
  PROVE  /\ proc' \in [Procs -> Handler]
         /\ HandlersDialled' /\ UnusedIsBlank' /\ StartsAlone'
<1>1. CallTypeOK /\ pc \in Pcs
  BY DEF CallShape
<1>2. /\ proc' \in [Procs -> Handler] /\ proc[p].pc = "free"
      /\ proc'[p].pc = pc /\ proc'[p].op = op /\ proc'[p].req = r
      /\ \A q \in Procs \ {p} : proc'[q] = proc[q]
  BY <1>1, HandlerBegins
<1>3. HandlersDialled'
  BY <1>2 DEF CallShape, HandlersDialled, At
<1>4. UnusedIsBlank'
  BY DEF CallShape, UnusedIsBlank
<1>5. StartsAlone'
  BY <1>2 DEF CallShape, StartsAlone
<1> QED
  BY <1>2, <1>3, <1>4, <1>5

\* The steps of initiate up to the invite.
LEMMA StartStepsKeep ==
  ASSUME CallShape, NEW p \in Procs,
         ReadPending(p) \/ CreateRoom(p) \/ Provision(p) \/ ClaimCallee(p) \/ SetByRoom(p)
  PROVE  CallShape'
<1> DEFINE r == proc[p].req
<1> USE DEF CallTypeOK, At, ring, call, chat, history, counters
<1>a. CallTypeOK
  BY DEF CallShape
<1>b. ~ At(p, "free") => r \in Requests /\ proc[p].op \in Ops /\ dial[r] \in Dials
  BY <1>a DEF CallShape, HandlersDialled
<1>1. CASE ReadPending(p)
  <2>0. /\ proc[p].pc \in Starting /\ r \in Requests /\ r \notin announced /\ r \notin timers
        /\ invite[r] = "absent" /\ room[r] = "none" /\ \A q \in Procs : proc[q].req = r => q = p
    BY <1>b, <1>1 DEF ReadPending, Starting, CallShape, StartsAlone
  <2>1. CASE Goto(p, "create") /\ UNCHANGED <<dial, announced>>
    <3>1. /\ proc' \in [Procs -> Handler]
          /\ \A q \in Procs : /\ proc'[q].req = proc[q].req /\ proc'[q].op = proc[q].op
                              /\ proc'[q].pc = IF q = p THEN "create" ELSE proc[q].pc
      BY <1>a, <2>1, HandlerGoes DEF Pcs
    <3>2. HandlersDialled'
      BY <1>1, <2>0, <2>1, <3>1 DEF ReadPending, CallShape, HandlersDialled, Starting
    <3>3. UnusedIsBlank'
      BY <1>1, <2>1 DEF ReadPending, CallShape, UnusedIsBlank
    <3>4. StartsAlone'
      BY <1>1, <2>0, <2>1, <3>1 DEF ReadPending, CallShape, StartsAlone, Starting
    <3>5. CallTypeOK'
      BY <1>a, <1>1, <2>1, <3>1 DEF ReadPending
    <3> QED
      BY <3>2, <3>3, <3>4, <3>5 DEF CallShape
  <2>3. CASE Finish(p) /\ dial' = [dial EXCEPT ![r] = None]
    <3>0. dial' = [dial EXCEPT ![r] = None] /\ UNCHANGED <<invite, timers, room>>
      BY <1>1, <2>3 DEF ReadPending
    <3>1. /\ proc' \in [Procs -> Handler] /\ proc'[p].pc = "free" /\ proc'[p].req = None
          /\ \A q \in Procs \ {p} : proc'[q] = proc[q] /\ proc[q].req # r
      BY <1>a, <2>0, <2>3, HandlerEnds
    <3>2. announced' \in SUBSET Requests /\ r \notin announced'
          /\ \A s \in announced' \ announced : s \in Requests /\ invite[s] = "pending"
      BY <1>a, <1>1, <1>b, <2>0 DEF ReadPending, Callee, Dials
    <3>3. HandlersDialled'
      BY <1>a, <3>0, <3>1 DEF CallShape, HandlersDialled
    <3>4. UnusedIsBlank'
      BY <1>a, <2>0, <3>0, <3>2 DEF CallShape, UnusedIsBlank
    <3>5. StartsAlone'
      <4> SUFFICES ASSUME NEW q \in Procs, proc'[q].pc \in Starting
                   PROVE  /\ proc'[q].req \notin announced' /\ proc'[q].req \notin timers'
                          /\ invite'[proc'[q].req] = "absent"
                          /\ proc'[q].pc \in {"pending", "create"} => room'[proc'[q].req] = "none"
                          /\ \A o \in Procs : proc'[o].req = proc'[q].req => o = q
        BY DEF StartsAlone
      <4>1. q # p /\ proc'[q] = proc[q] /\ proc[q].req \in Requests
        BY <3>1 DEF CallShape, HandlersDialled, Starting
      <4>2. proc[q].req # None
        BY <4>1, NoneIsNoRequest
      <4> QED
        BY <3>0, <3>1, <3>2, <4>1, <4>2 DEF CallShape, StartsAlone
    <3>6. CallTypeOK'
      BY <1>a, <1>1, <3>0, <3>1, <3>2 DEF ReadPending
    <3> QED
      BY <3>3, <3>4, <3>5, <3>6 DEF CallShape
  <2> QED
    BY <1>1, <2>1, <2>3 DEF ReadPending
<1>2. CASE CreateRoom(p)
  <2>1. proc' \in [Procs -> Handler] /\ HandlersDialled' /\ UnusedIsBlank' /\ StartsAlone'
    BY <1>a, <1>b, <1>2, StartGoes DEF CreateRoom, Starting
  <2>2. Caller(r) \in Users
    BY <1>b, <1>2 DEF CreateRoom, Caller, Dials
  <2>3. CallTypeOK'
    BY <1>a, <1>b, <1>2, <2>1, <2>2 DEF CreateRoom
  <2> QED
    BY <2>1, <2>3 DEF CallShape
<1>3. CASE Provision(p)
  <2>1. proc' \in [Procs -> Handler] /\ HandlersDialled' /\ UnusedIsBlank' /\ StartsAlone'
    BY <1>a, <1>3, StartGoes DEF Provision, Starting
  <2>2. CallTypeOK'
    BY <1>a, <1>b, <1>3, <2>1 DEF Provision
  <2> QED
    BY <2>1, <2>2 DEF CallShape
<1>4. CASE ClaimCallee(p)
  <2> DEFINE Rest == proc' \in [Procs -> Handler] /\ HandlersDialled' /\ UnusedIsBlank' /\ StartsAlone'
  <2>1. ASSUME Goto(p, "by_room") PROVE Rest
    BY <1>4, <2>1, StartGoes DEF ClaimCallee, Starting
  <2>2. ASSUME Goto(p, "clear_active") PROVE Rest
    BY <1>4, <2>2, GoesAlone DEF ClaimCallee, Pcs, Starting
  <2>3. Rest
    BY <1>4, <2>1, <2>2 DEF ClaimCallee
  <2>4. CallTypeOK'
    BY <1>a, <1>b, <1>4, <2>3 DEF ClaimCallee
  <2> QED
    BY <2>3, <2>4 DEF CallShape
<1>5. CASE SetByRoom(p)
  <2>1. proc' \in [Procs -> Handler] /\ HandlersDialled' /\ UnusedIsBlank' /\ StartsAlone'
    BY <1>a, <1>5, StartGoes DEF SetByRoom, Starting
  <2>2. CallTypeOK'
    BY <1>a, <1>b, <1>5, <2>1 DEF SetByRoom
  <2> QED
    BY <2>1, <2>2 DEF CallShape
<1> QED
  BY <1>1, <1>2, <1>3, <1>4, <1>5

\* Arrivals, timers, lapsing keys and restarts.
LEMMA ArrivalsKeep ==
  ASSUME CallShape,
         \/ \E p \in Procs, r \in Requests, d \in Dials : PlaceCall(p, r, d)
         \/ \E p \in Procs, r \in Requests, op \in Outcomes \cup {"accepted"} : Answer(p, op, r)
         \/ \E p \in Procs, r \in Requests : RingTimeout(p, r) \/ SweepDueRoom(p, r)
         \/ \E p \in Procs, r \in Requests, u \in Users : HangUp(p, r, u)
         \/ \E r \in Requests : RingKeysLapse(r) \/ InviteLapses(r)
         \/ ServerRestart
  PROVE  CallShape'
<1> USE DEF CallTypeOK, ring, call, chat, history, counters
<1>a. CallTypeOK
  BY DEF CallShape
<1>b. \A r \in Requests : r \in announced \/ r \in timers => dial[r] # None
  BY DEF CallShape, UnusedIsBlank
<1>c. \A r \in Requests : r \in announced \/ r \in timers =>
        \A q \in Procs : proc[q].pc \in Starting => proc[q].req # r
  BY DEF CallShape, StartsAlone
<1>d. Outcomes \cup {"accepted", "expired", "ring", "hangup", "sweep"} \subseteq Ops
  BY DEF Ops
<1>1. ASSUME NEW p \in Procs, NEW r \in Requests, NEW d \in Dials, PlaceCall(p, r, d)
      PROVE  CallShape'
  <2>1. /\ proc' \in [Procs -> Handler] /\ proc[p].pc = "free"
        /\ proc'[p].pc = "pending" /\ proc'[p].op = "ring" /\ proc'[p].req = r
        /\ \A q \in Procs \ {p} : proc'[q] = proc[q]
    BY <1>a, <1>d, <1>1, HandlerBegins DEF PlaceCall, Pcs
  <2>2. /\ dial[r] = None /\ dial' = [dial EXCEPT ![r] = d] /\ d # None
        /\ UNCHANGED <<announced, timers, invite, room>>
    BY <1>1, NoneIsNoRequest DEF PlaceCall
  <2>3. r \notin announced /\ r \notin timers /\ room[r] = "none" /\ invite[r] = "absent"
    BY <2>2 DEF CallShape, UnusedIsBlank
  <2>4. \A q \in Procs : proc[q].req # r
    BY <1>a, <2>2, NoneIsNoRequest DEF CallShape, HandlersDialled
  <2>5. HandlersDialled'
    BY <1>a, <1>d, <2>1, <2>2, <2>4 DEF CallShape, HandlersDialled, At
  <2>6. UnusedIsBlank'
    BY <1>a, <2>2 DEF CallShape, UnusedIsBlank
  <2>7. StartsAlone'
    BY <2>1, <2>2, <2>3, <2>4 DEF CallShape, StartsAlone
  <2>8. CallTypeOK'
    BY <1>a, <1>1, <2>1, <2>2 DEF PlaceCall, Arrives
  <2> QED
    BY <2>5, <2>6, <2>7, <2>8 DEF CallShape
<1>2. ASSUME NEW p \in Procs, NEW r \in Requests, NEW op \in Outcomes \cup {"accepted"},
             Answer(p, op, r)
      PROVE  CallShape'
  <2>1. proc' \in [Procs -> Handler] /\ HandlersDialled' /\ UnusedIsBlank' /\ StartsAlone'
    <3>1. CASE op = "accepted"
      BY <1>b, <1>c, <1>d, <1>2, <3>1, BeginsLater DEF Answer, Pcs, Starting
    <3>2. CASE op # "accepted"
      BY <1>b, <1>c, <1>d, <1>2, <3>2, BeginsLater DEF Answer, Pcs, Starting
    <3> QED
      BY <3>1, <3>2
  <2>2. readers' \in [Requests -> 0..2]
    BY <1>a, <1>2 DEF Answer, SawPending
  <2>3. CallTypeOK'
    BY <1>a, <1>2, <2>1, <2>2 DEF Answer, Arrives
  <2> QED
    BY <2>1, <2>3 DEF CallShape
<1>3. ASSUME NEW p \in Procs, NEW r \in Requests, RingTimeout(p, r)
      PROVE  CallShape'
  <2>1. CASE UNCHANGED <<proc, readers>>
    <3>1. CallTypeOK'
      BY <1>a, <1>3, <2>1 DEF RingTimeout
    <3>2. HandlersDialled' /\ UnusedIsBlank' /\ StartsAlone'
      BY <1>a, <1>3, <2>1 DEF RingTimeout, CallShape, HandlersDialled, UnusedIsBlank,
         StartsAlone, At
    <3> QED
      BY <3>1, <3>2 DEF CallShape
  <2>2. CASE Begin(p, "write", "expired", r) /\ SawPending(r)
    <3>1. proc' \in [Procs -> Handler] /\ HandlersDialled' /\ UnusedIsBlank' /\ StartsAlone'
      BY <1>b, <1>c, <1>d, <1>3, <2>2, BeginsLater DEF RingTimeout, Pcs, Starting
    <3>2. readers' \in [Requests -> 0..2]
      BY <1>a, <2>2 DEF SawPending
    <3>3. CallTypeOK'
      BY <1>a, <1>3, <3>1, <3>2 DEF RingTimeout
    <3> QED
      BY <3>1, <3>3 DEF CallShape
  <2> QED
    BY <1>3, <2>1, <2>2 DEF RingTimeout
<1>4. ASSUME NEW p \in Procs, NEW r \in Requests, SweepDueRoom(p, r)
      PROVE  CallShape'
  <2>1. dial[r] # None /\ \A q \in Procs : proc[q].req # r
    BY <1>4 DEF SweepDueRoom, Quiet, CallShape, UnusedIsBlank
  <2>2. proc' \in [Procs -> Handler] /\ HandlersDialled' /\ UnusedIsBlank' /\ StartsAlone'
    BY <1>d, <1>4, <2>1, BeginsLater DEF SweepDueRoom, Pcs, Starting
  <2>3. CallTypeOK'
    BY <1>a, <1>4, <2>2 DEF SweepDueRoom
  <2> QED
    BY <2>2, <2>3 DEF CallShape
<1>5. ASSUME NEW p \in Procs, NEW r \in Requests, NEW u \in Users, HangUp(p, r, u)
      PROVE  CallShape'
  <2>1. proc' \in [Procs -> Handler] /\ HandlersDialled' /\ UnusedIsBlank' /\ StartsAlone'
    BY <1>b, <1>c, <1>d, <1>5, BeginsLater DEF HangUp, Pcs, Starting
  <2>2. CallTypeOK'
    BY <1>a, <1>5, <2>1 DEF HangUp, Arrives
  <2> QED
    BY <2>1, <2>2 DEF CallShape
<1>6. ASSUME NEW r \in Requests, RingKeysLapse(r) PROVE CallShape'
  <2>1. CallTypeOK'
    BY <1>a, <1>6 DEF RingKeysLapse
  <2>2. HandlersDialled' /\ UnusedIsBlank' /\ StartsAlone'
    BY <1>6 DEF RingKeysLapse, CallShape, HandlersDialled, UnusedIsBlank, StartsAlone, At
  <2> QED
    BY <2>1, <2>2 DEF CallShape
<1>7. ASSUME NEW r \in Requests, InviteLapses(r) PROVE CallShape'
  <2>1. CallTypeOK'
    BY <1>a, <1>7 DEF InviteLapses, Statuses
  <2>2. UNCHANGED <<dial, announced, timers, room, proc>>
    BY <1>7 DEF InviteLapses
  <2>3. invite' \in [Requests -> Statuses]
        /\ \A s \in Requests : invite'[s] = invite[s] \/ invite'[s] = "absent"
    BY <1>a, <1>7, <2>1 DEF InviteLapses
  <2>4. HandlersDialled' /\ UnusedIsBlank'
    BY <2>2, <2>3 DEF CallShape, HandlersDialled, UnusedIsBlank, At
  <2>5. \A q \in Procs : proc[q].pc \in Starting => proc[q].req \in Requests
    BY DEF CallShape, HandlersDialled, At, Starting
  <2>6. StartsAlone'
    BY <2>2, <2>3, <2>5 DEF CallShape, StartsAlone
  <2> QED
    BY <2>1, <2>4, <2>6 DEF CallShape
<1>8. CASE ServerRestart
  <2>1. /\ \A q \in Procs : proc'[q].pc = "free" /\ proc'[q].req = None
        /\ proc' \in [Procs -> Handler]
    BY <1>8 DEF ServerRestart, Free, Handler, Pcs
  <2>2. CallTypeOK'
    BY <1>a, <1>8, <2>1 DEF ServerRestart, Fault
  <2>3. HandlersDialled' /\ UnusedIsBlank' /\ StartsAlone'
    BY <1>8, <2>1 DEF ServerRestart, CallShape, HandlersDialled, UnusedIsBlank, StartsAlone,
       At, Starting
  <2> QED
    BY <2>2, <2>3 DEF CallShape
<1> QED
  BY <1>1, <1>2, <1>3, <1>4, <1>5, <1>6, <1>7, <1>8

-----------------------------------------------------------------------------
\* The invariant is inductive.
LEMMA CallShapeNext == CallShape /\ [CallNext]_callVars => CallShape'
<1> SUFFICES ASSUME CallShape, [CallNext]_callVars PROVE CallShape'
  OBVIOUS
<1>1. CASE UNCHANGED callVars
  <2>1. CallTypeOK'
    BY <1>1 DEF callVars, ring, call, chat, history, counters, CallShape, CallTypeOK
  <2>2. HandlersDialled' /\ UnusedIsBlank' /\ StartsAlone'
    BY <1>1 DEF callVars, ring, call, CallShape, HandlersDialled, UnusedIsBlank, StartsAlone, At
  <2> QED
    BY <2>1, <2>2 DEF CallShape
<1>2. ASSUME NEW p \in Procs, CallStep(p) PROVE CallShape'
  BY <1>2, StartStepsKeep, LaterStepsKeep DEF CallStep
<1> QED
  BY <1>1, <1>2, ArrivalsKeep DEF CallNext

\* The shape of the handlers and of the requests they work on holds in every
\* reachable state.
THEOREM CallShapeHolds == CallSpec => []CallShape
  BY CallShapeInit, CallShapeNext, PTL DEF CallSpec

\* Every ring key, room row, chat count and handler local keeps its type.
THEOREM CallTypeCorrect == CallSpec => []CallTypeOK
<1>1. CallShape => CallTypeOK
  BY DEF CallShape
<1> QED
  BY <1>1, CallShapeHolds, PTL

-----------------------------------------------------------------------------
(* A call is logged as completed once.                                      *)

\* Who is about to publish the completed row of a request is alone, holds the
\* dedupe key, and no row is there yet.
LoggedOnce ==
  \A r \in Requests :
    /\ completed[r] <= 1
    /\ r \notin logged => completed[r] = 0
    /\ \A p \in Procs : At(p, "publish_completed") /\ proc[p].req = r =>
         /\ r \in logged /\ completed[r] = 0
         /\ \A q \in Procs : At(q, "publish_completed") /\ proc[q].req = r => q = p

\* Only LogCompleted and PublishCompleted touch the log of completed calls.
LEMMA OthersDoNotLog ==
  ASSUME CallTypeOK, [CallNext]_callVars,
         \A p \in Procs : ~ LogCompleted(p) /\ ~ PublishCompleted(p)
  PROVE  /\ UNCHANGED <<logged, completed>>
         /\ \A p \in Procs : proc'[p].pc \in {"publish_completed"} => proc'[p] = proc[p]
<1> DEFINE Same == /\ UNCHANGED <<logged, completed>>
                  /\ \A p \in Procs : proc'[p].pc \in {"publish_completed"} => proc'[p] = proc[p]
<1> USE DEF At, ring, call, chat, history, counters
<1>1. CASE UNCHANGED callVars
  BY <1>1 DEF callVars
<1>2. ASSUME NEW p \in Procs, CallStep(p) PROVE Same
  <2>a. proc \in [Procs -> Handler]
    BY DEF CallTypeOK
  <2>b. \A pc \in Pcs \ {"publish_completed"} : Goto(p, pc) =>
          \A q \in Procs : proc'[q].pc \in {"publish_completed"} => proc'[q] = proc[q]
    BY <2>a DEF Goto
  <2>c. Finish(p) => \A q \in Procs : proc'[q].pc \in {"publish_completed"} => proc'[q] = proc[q]
    BY <2>a DEF Finish, Free
  <2>1. CASE ReadPending(p)
    <3>1. UNCHANGED <<logged, completed>> /\ (Goto(p, "create") \/ Finish(p))
      BY <2>1 DEF ReadPending
    <3> QED
      BY <2>b, <2>c, <3>1 DEF Pcs
  <2>2. CASE CreateRoom(p)
    BY <2>a, <2>2 DEF CreateRoom, Goto, Finish, Free
  <2>3. CASE Provision(p)
    BY <2>a, <2>3 DEF Provision, Goto, Finish, Free
  <2>4. CASE ClaimCallee(p)
    <3>1. UNCHANGED <<logged, completed>> /\ (Goto(p, "by_room") \/ Goto(p, "clear_active"))
      BY <2>4 DEF ClaimCallee
    <3> QED
      BY <2>b, <2>c, <3>1 DEF Pcs
  <2>5. CASE SetByRoom(p)
    BY <2>a, <2>5 DEF SetByRoom, Goto, Finish, Free
  <2>6. CASE WriteInvite(p)
    BY <2>a, <2>6 DEF WriteInvite, Goto, Finish, Free
  <2>7. CASE RingCallee(p)
    BY <2>a, <2>7 DEF RingCallee, Goto, Finish, Free
  <2>8. CASE SeatCallee(p)
    BY <2>a, <2>8 DEF SeatCallee, Goto, Finish, Free
  <2>9. CASE WriteStatus(p)
    BY <2>a, <2>9 DEF WriteStatus, Goto, Finish, Free
  <2>10. CASE RecordOutcome(p)
    BY <2>a, <2>10 DEF RecordOutcome, Goto, Finish, Free
  <2>11. CASE PublishOutcome(p)
    <3>1. UNCHANGED <<logged, completed>> /\ (Goto(p, "del_invite") \/ Goto(p, "undo"))
      BY <2>11 DEF PublishOutcome
    <3> QED
      BY <2>b, <2>c, <3>1 DEF Pcs
  <2>12. CASE UndoRecord(p)
    BY <2>a, <2>12 DEF UndoRecord, Goto, Finish, Free
  <2>13. CASE DeleteInvite(p)
    BY <2>a, <2>13 DEF DeleteInvite, Goto, Finish, Free
  <2>14. CASE DeleteRinging(p)
    BY <2>a, <2>14 DEF DeleteRinging, Goto, Finish, Free
  <2>15. CASE DeleteByRoom(p)
    BY <2>a, <2>15 DEF DeleteByRoom, Goto, Finish, Free
  <2>16. CASE SetActive(p)
    BY <2>a, <2>16 DEF SetActive, Goto, Finish, Free
  <2>17. CASE ClearActive(p)
    BY <2>a, <2>17 DEF ClearActive, Goto, Finish, Free
  <2>18. CASE GetActive(p)
    BY <2>a, <2>18 DEF GetActive, Goto, Finish, Free
  <2>19. CASE DeleteActive(p)
    BY <2>a, <2>19 DEF DeleteActive, Goto, Finish, Free
  <2>20. CASE FindRoom(p)
    BY <2>a, <2>20 DEF FindRoom, Goto, Finish, Free
  <2>21. CASE EndTx(p)
    BY <2>a, <2>21 DEF EndTx, Goto, Finish, Free
  <2>22. CASE DeleteSession(p)
    BY <2>a, <2>22 DEF DeleteSession, Goto, Finish, Free
  <2> QED
    BY <1>2, <2>1, <2>2, <2>3, <2>4, <2>5, <2>6, <2>7, <2>8, <2>9, <2>10, <2>11, <2>12, <2>13,
       <2>14, <2>15, <2>16, <2>17, <2>18, <2>19, <2>20, <2>21, <2>22 DEF CallStep
<1>3. ASSUME NEW p \in Procs, NEW r \in Requests, NEW d \in Dials, PlaceCall(p, r, d) PROVE Same
  BY <1>3 DEF PlaceCall, Begin, CallTypeOK
<1>4. ASSUME NEW p \in Procs, NEW r \in Requests, NEW op \in Outcomes \cup {"accepted"},
             Answer(p, op, r)
      PROVE  Same
  BY <1>4 DEF Answer, Begin, CallTypeOK, SawPending
<1>5. ASSUME NEW p \in Procs, NEW r \in Requests, RingTimeout(p, r) \/ SweepDueRoom(p, r)
      PROVE  Same
  BY <1>5 DEF RingTimeout, SweepDueRoom, Begin, CallTypeOK, SawPending
<1>6. ASSUME NEW p \in Procs, NEW r \in Requests, NEW u \in Users, HangUp(p, r, u) PROVE Same
  BY <1>6 DEF HangUp, Begin, CallTypeOK
<1>7. ASSUME NEW r \in Requests, RingKeysLapse(r) \/ InviteLapses(r) PROVE Same
  BY <1>7 DEF RingKeysLapse, InviteLapses
<1>8. CASE ServerRestart
  BY <1>8 DEF ServerRestart, Free
<1> QED
  BY <1>1, <1>2, <1>3, <1>4, <1>5, <1>6, <1>7, <1>8 DEF CallNext

\* The invariant of the log is kept by every step.
LEMMA LoggedOnceNext == CallShape /\ LoggedOnce /\ [CallNext]_callVars => LoggedOnce'
<1> SUFFICES ASSUME CallShape, LoggedOnce, [CallNext]_callVars PROVE LoggedOnce'
  OBVIOUS
<1>a. CallTypeOK
  BY DEF CallShape
<1>b. \A p \in Procs : ~ At(p, "free") => proc[p].req \in Requests
  BY DEF CallShape, HandlersDialled
<1>1. ASSUME NEW p \in Procs, LogCompleted(p) PROVE LoggedOnce'
  <2> DEFINE s == proc[p].req
  <2>1. /\ s \in Requests /\ At(p, "log") /\ logged' = logged \cup {s} /\ completed' = completed
        /\ Goto(p, IF s \in logged THEN "find_room" ELSE "publish_completed")
    BY <1>b, <1>1 DEF LogCompleted, At
  <2>2. /\ \A q \in Procs \ {p} : proc'[q] = proc[q]
        /\ proc'[p].req = s
        /\ proc'[p].pc = IF s \in logged THEN "find_room" ELSE "publish_completed"
    BY <1>a, <2>1 DEF Goto, CallTypeOK, Handler
  <2> QED
    BY <2>1, <2>2 DEF LoggedOnce, At
<1>2. ASSUME NEW p \in Procs, PublishCompleted(p) PROVE LoggedOnce'
  <2> DEFINE s == proc[p].req
  <2>1. /\ s \in Requests /\ At(p, "publish_completed") /\ logged' = logged
        /\ completed' \in {completed, [completed EXCEPT ![s] = @ + 1]}
        /\ Goto(p, "del_active") \/ Goto(p, "find_room")
    BY <1>b, <1>2 DEF PublishCompleted, At, chat
  <2>2. /\ \A q \in Procs \ {p} : proc'[q] = proc[q]
        /\ proc'[p].pc # "publish_completed"
    BY <1>a, <2>1 DEF Goto, CallTypeOK, Handler
  <2>3. completed[s] = 0 /\ s \in logged
    BY <2>1 DEF LoggedOnce
  <2>4. /\ completed'[s] \in {0, 1}
        /\ \A r \in Requests \ {s} : completed'[r] = completed[r]
    BY <1>a, <2>1, <2>3 DEF CallTypeOK
  <2>5. \A q \in Procs : proc'[q].pc = "publish_completed" =>
          q # p /\ proc'[q] = proc[q] /\ proc[q].req # s
    BY <2>1, <2>2 DEF LoggedOnce, At
  <2> QED
    BY <2>1, <2>3, <2>4, <2>5 DEF LoggedOnce, At
<1>3. CASE \A p \in Procs : ~ LogCompleted(p) /\ ~ PublishCompleted(p)
  BY <1>a, <1>3, OthersDoNotLog DEF LoggedOnce, At
<1> QED
  BY <1>1, <1>2, <1>3

\* Both sides hang up, the room is swept, a publish fails: an answered call is
\* logged as completed at most once.
THEOREM CompletedOnce == CallSpec => []OneCompletedRow
<1>1. CallInit => LoggedOnce
  BY DEF CallInit, LoggedOnce, At, Free
<1>2. LoggedOnce => OneCompletedRow
  BY DEF LoggedOnce, OneCompletedRow
<1> QED
  BY <1>1, <1>2, CallShapeHolds, LoggedOnceNext, PTL DEF CallSpec

-----------------------------------------------------------------------------
(* The outcome of a request is recorded once, but for late failures.        *)

Recording(p, r) == proc[p].pc \in {"publish", "undo"} /\ proc[p].req = r

\* Who records the outcome of a request is alone, holds the dedupe key, and the
\* rows that are there came from publishes that failed late.
RecordedOnce ==
  \A r \in Requests :
    /\ outcome[r] <= 1 + late[r]
    /\ r \notin recorded => outcome[r] <= late[r]
    /\ \A p \in Procs : Recording(p, r) =>
         /\ r \in recorded /\ outcome[r] <= late[r]
         /\ \A q \in Procs : Recording(q, r) => q = p

\* Only three steps touch what is recorded of an outcome.
LEMMA OthersDoNotRecord ==
  ASSUME CallTypeOK, [CallNext]_callVars,
         \A p \in Procs : ~ RecordOutcome(p) /\ ~ PublishOutcome(p) /\ ~ UndoRecord(p)
  PROVE  /\ UNCHANGED <<recorded, outcome, late>>
         /\ \A p \in Procs : proc'[p].pc \in {"publish", "undo"} => proc'[p] = proc[p]
<1> DEFINE Same == /\ UNCHANGED <<recorded, outcome, late>>
                  /\ \A p \in Procs : proc'[p].pc \in {"publish", "undo"} => proc'[p] = proc[p]
<1> USE DEF At, ring, call, chat, history, counters
<1>1. CASE UNCHANGED callVars
  BY <1>1 DEF callVars
<1>2. ASSUME NEW p \in Procs, CallStep(p) PROVE Same
  <2>a. proc \in [Procs -> Handler]
    BY DEF CallTypeOK
  <2>b. \A pc \in Pcs \ {"publish", "undo"} : Goto(p, pc) =>
          \A q \in Procs : proc'[q].pc \in {"publish", "undo"} => proc'[q] = proc[q]
    BY <2>a DEF Goto
  <2>c. Finish(p) => \A q \in Procs : proc'[q].pc \in {"publish", "undo"} => proc'[q] = proc[q]
    BY <2>a DEF Finish, Free
  <2>1. CASE ReadPending(p)
    <3>1. UNCHANGED <<recorded, outcome, late>> /\ (Goto(p, "create") \/ Finish(p))
      BY <2>1 DEF ReadPending
    <3> QED
      BY <2>b, <2>c, <3>1 DEF Pcs
  <2>2. CASE CreateRoom(p)
    BY <2>a, <2>2 DEF CreateRoom, Goto, Finish, Free
  <2>3. CASE Provision(p)
    BY <2>a, <2>3 DEF Provision, Goto, Finish, Free
  <2>4. CASE ClaimCallee(p)
    <3>1. UNCHANGED <<recorded, outcome, late>> /\ (Goto(p, "by_room") \/ Goto(p, "clear_active"))
      BY <2>4 DEF ClaimCallee
    <3> QED
      BY <2>b, <2>c, <3>1 DEF Pcs
  <2>5. CASE SetByRoom(p)
    BY <2>a, <2>5 DEF SetByRoom, Goto, Finish, Free
  <2>6. CASE WriteInvite(p)
    BY <2>a, <2>6 DEF WriteInvite, Goto, Finish, Free
  <2>7. CASE RingCallee(p)
    BY <2>a, <2>7 DEF RingCallee, Goto, Finish, Free
  <2>8. CASE SeatCallee(p)
    BY <2>a, <2>8 DEF SeatCallee, Goto, Finish, Free
  <2>9. CASE WriteStatus(p)
    BY <2>a, <2>9 DEF WriteStatus, Goto, Finish, Free
  <2>10. CASE DeleteInvite(p)
    BY <2>a, <2>10 DEF DeleteInvite, Goto, Finish, Free
  <2>11. CASE DeleteRinging(p)
    BY <2>a, <2>11 DEF DeleteRinging, Goto, Finish, Free
  <2>12. CASE DeleteByRoom(p)
    BY <2>a, <2>12 DEF DeleteByRoom, Goto, Finish, Free
  <2>13. CASE SetActive(p)
    BY <2>a, <2>13 DEF SetActive, Goto, Finish, Free
  <2>14. CASE ClearActive(p)
    BY <2>a, <2>14 DEF ClearActive, Goto, Finish, Free
  <2>15. CASE GetActive(p)
    BY <2>a, <2>15 DEF GetActive, Goto, Finish, Free
  <2>16. CASE LogCompleted(p)
    BY <2>a, <2>16 DEF LogCompleted, Goto, Finish, Free
  <2>17. CASE PublishCompleted(p)
    <3>1. UNCHANGED <<recorded, outcome, late>> /\ (Goto(p, "del_active") \/ Goto(p, "find_room"))
      BY <2>17 DEF PublishCompleted
    <3> QED
      BY <2>b, <2>c, <3>1 DEF Pcs
  <2>18. CASE DeleteActive(p)
    BY <2>a, <2>18 DEF DeleteActive, Goto, Finish, Free
  <2>19. CASE FindRoom(p)
    BY <2>a, <2>19 DEF FindRoom, Goto, Finish, Free
  <2>20. CASE EndTx(p)
    BY <2>a, <2>20 DEF EndTx, Goto, Finish, Free
  <2>21. CASE DeleteSession(p)
    BY <2>a, <2>21 DEF DeleteSession, Goto, Finish, Free
  <2> QED
    BY <1>2, <2>1, <2>2, <2>3, <2>4, <2>5, <2>6, <2>7, <2>8, <2>9, <2>10, <2>11, <2>12, <2>13,
       <2>14, <2>15, <2>16, <2>17, <2>18, <2>19, <2>20, <2>21 DEF CallStep
<1>3. ASSUME NEW p \in Procs, NEW r \in Requests, NEW d \in Dials, PlaceCall(p, r, d) PROVE Same
  BY <1>3 DEF PlaceCall, Begin, CallTypeOK
<1>4. ASSUME NEW p \in Procs, NEW r \in Requests, NEW op \in Outcomes \cup {"accepted"},
             Answer(p, op, r)
      PROVE  Same
  BY <1>4 DEF Answer, Begin, CallTypeOK, SawPending
<1>5. ASSUME NEW p \in Procs, NEW r \in Requests, RingTimeout(p, r) \/ SweepDueRoom(p, r)
      PROVE  Same
  BY <1>5 DEF RingTimeout, SweepDueRoom, Begin, CallTypeOK, SawPending
<1>6. ASSUME NEW p \in Procs, NEW r \in Requests, NEW u \in Users, HangUp(p, r, u) PROVE Same
  BY <1>6 DEF HangUp, Begin, CallTypeOK
<1>7. ASSUME NEW r \in Requests, RingKeysLapse(r) \/ InviteLapses(r) PROVE Same
  BY <1>7 DEF RingKeysLapse, InviteLapses
<1>8. CASE ServerRestart
  BY <1>8 DEF ServerRestart, Free
<1> QED
  BY <1>1, <1>2, <1>3, <1>4, <1>5, <1>6, <1>7, <1>8 DEF CallNext

\* The invariant of the record is kept by every step.
LEMMA RecordedOnceNext == CallShape /\ RecordedOnce /\ [CallNext]_callVars => RecordedOnce'
<1> SUFFICES ASSUME CallShape, RecordedOnce, [CallNext]_callVars PROVE RecordedOnce'
  OBVIOUS
<1> USE DEF Recording
<1>a. CallTypeOK /\ outcome \in [Requests -> Nat] /\ late \in [Requests -> Nat]
  BY DEF CallShape, CallTypeOK
<1>b. \A p \in Procs : ~ At(p, "free") => proc[p].req \in Requests
  BY DEF CallShape, HandlersDialled
<1>1. ASSUME NEW p \in Procs, RecordOutcome(p) PROVE RecordedOnce'
  <2> DEFINE s == proc[p].req
  <2>1. /\ s \in Requests /\ At(p, "record") /\ recorded' = recorded \cup {s}
        /\ outcome' = outcome /\ late' = late
        /\ Goto(p, IF s \in recorded THEN "del_invite" ELSE "publish")
    BY <1>b, <1>1 DEF RecordOutcome, At, history
  <2>2. /\ \A q \in Procs \ {p} : proc'[q] = proc[q]
        /\ proc'[p].req = s
        /\ proc'[p].pc = IF s \in recorded THEN "del_invite" ELSE "publish"
    BY <1>a, <2>1 DEF Goto, CallTypeOK, Handler
  <2> QED
    BY <1>a, <2>1, <2>2 DEF RecordedOnce, At
<1>2. ASSUME NEW p \in Procs, PublishOutcome(p) PROVE RecordedOnce'
  <2> DEFINE s == proc[p].req
  <2>1. /\ s \in Requests /\ At(p, "publish") /\ recorded' = recorded
        /\ \/ /\ outcome' = [outcome EXCEPT ![s] = @ + 1] /\ late' = late
              /\ Goto(p, "del_invite")
           \/ outcome' = outcome /\ late' = late /\ Goto(p, "undo")
           \/ /\ outcome' = [outcome EXCEPT ![s] = @ + 1] /\ late' = [late EXCEPT ![s] = @ + 1]
              /\ Goto(p, "undo")
    BY <1>b, <1>2 DEF PublishOutcome, At
  <2>2. /\ \A q \in Procs \ {p} : proc'[q] = proc[q]
        /\ proc'[p].req = s /\ proc'[p].pc \in {"del_invite", "undo"}
        /\ proc'[p].pc = "undo" => outcome' = outcome \/ late' # late
    BY <1>a, <2>1 DEF Goto, CallTypeOK, Handler
  <2>3. outcome[s] <= late[s] /\ s \in recorded /\ \A q \in Procs : Recording(q, s) => q = p
    BY <2>1 DEF RecordedOnce, At
  <2>4. \A r \in Requests \ {s} : outcome'[r] = outcome[r] /\ late'[r] = late[r]
    BY <1>a, <2>1
  <2>5. /\ outcome'[s] <= 1 + late'[s]
        /\ proc'[p].pc = "undo" => outcome'[s] <= late'[s]
    <3>1. CASE Goto(p, "del_invite") /\ outcome' = [outcome EXCEPT ![s] = @ + 1] /\ late' = late
      BY <1>a, <2>1, <2>3, <3>1 DEF Goto, CallTypeOK, Handler
    <3>2. CASE outcome' = outcome /\ late' = late
      BY <1>a, <2>1, <2>3, <3>2
    <3>3. CASE outcome' = [outcome EXCEPT ![s] = @ + 1] /\ late' = [late EXCEPT ![s] = @ + 1]
      BY <1>a, <2>1, <2>3, <3>3
    <3> QED
      BY <2>1, <3>1, <3>2, <3>3
  <2> QED
    BY <1>a, <2>1, <2>2, <2>3, <2>4, <2>5 DEF RecordedOnce
<1>3. ASSUME NEW p \in Procs, UndoRecord(p) PROVE RecordedOnce'
  <2> DEFINE s == proc[p].req
  <2>1. /\ s \in Requests /\ At(p, "undo") /\ recorded' = recorded \ {s}
        /\ outcome' = outcome /\ late' = late /\ Goto(p, "del_invite")
    BY <1>b, <1>3 DEF UndoRecord, At, history
  <2>2. /\ \A q \in Procs \ {p} : proc'[q] = proc[q]
        /\ proc'[p].pc = "del_invite"
    BY <1>a, <2>1 DEF Goto, CallTypeOK, Handler
  <2>3. outcome[s] <= late[s] /\ \A q \in Procs : Recording(q, s) => q = p
    BY <2>1 DEF RecordedOnce, At
  <2> QED
    BY <2>1, <2>2, <2>3 DEF RecordedOnce
<1>4. CASE \A p \in Procs : ~ RecordOutcome(p) /\ ~ PublishOutcome(p) /\ ~ UndoRecord(p)
  BY <1>a, <1>4, OthersDoNotRecord DEF RecordedOnce
<1> QED
  BY <1>1, <1>2, <1>3, <1>4

\* However the answers and the ring timer race and whatever fails, a request
\* gets one outcome row, and one more for each publish that failed too late.
THEOREM OutcomeOnce == CallSpec => []OutcomeRowsBounded
<1>1. CallInit => RecordedOnce
  BY DEF CallInit, RecordedOnce, Recording, Free
<1>2. RecordedOnce => OutcomeRowsBounded
  BY DEF RecordedOnce, OutcomeRowsBounded
<1> QED
  BY <1>1, <1>2, CallShapeHolds, RecordedOnceNext, PTL DEF CallSpec

=============================================================================
