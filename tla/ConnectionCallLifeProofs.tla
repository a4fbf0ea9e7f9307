---------------------- MODULE ConnectionCallLifeProofs ----------------------
(***************************************************************************)
(* Proofs about the life of a call, for any accounts, requests, handler    *)
(* slots and bounds: whom a ring holds busy, when a phone rings, when the  *)
(* room of a call may end, and what is left of a call whose outcome was    *)
(* recorded. They rest on one inductive invariant, CallKept, that says of  *)
(* each thing that is still there which handler will take it away.         *)
(***************************************************************************)
EXTENDS ConnectionCallProofs

Closers == Outcomes \cup {"expired"}
Answers == Closers \cup {"accepted"}

\* A handler that read the invite of r while it was pending.
Answering(p, r) == proc[p].req = r /\ proc[p].op \in Answers

\* A handler of r is at one of the places; it is one that closes the ring.
Doing(r, pcs) == \E p \in Procs : proc[p].req = r /\ proc[p].pc \in pcs
Closing(r, pcs) ==
  \E p \in Procs : proc[p].req = r /\ proc[p].op \in Closers /\ proc[p].pc \in pcs

-----------------------------------------------------------------------------
(* What is known of the handlers.                                           *)

\* Which handlers reach which places.
OpsFit ==
  \A p \in Procs :
    LET pc == proc[p].pc
        op == proc[p].op
    IN  /\ pc \in Starting \cup {"expire"} => op = "ring"
        /\ pc \in {"seat", "set_active"} => op = "accepted"
        /\ pc \in {"write", "del_invite", "del_ringing", "del_by_room"} => op \in Answers
        /\ pc \in {"record", "publish", "undo"} => op \in Closers
        /\ pc = "clear_active" => op \in Closers \cup {"ring"}
        /\ pc \in {"get_active", "log", "publish_completed", "del_active"} => op = "hangup"
        /\ pc \in {"find_room", "end_tx", "del_session"} => op # "accepted"

\* An initiate handler that has not rung, the loser of a claim included.
Fresh(p) == proc[p].op = "ring" /\ proc[p].pc \notin {"expire", "free"}

\* Nobody else can come to know its request.
FreshAlone ==
  \A p \in Procs : Fresh(p) =>
    LET r == proc[p].req
    IN  /\ r \notin announced /\ r \notin timers /\ invite[r] = "absent" /\ readers[r] = 0
        /\ \A q \in Procs : proc[q].req = r => q = p

\* A call has a room before it rings.
RoomFirst ==
  /\ \A p \in Procs : proc[p].pc \in {"provision", "claim", "by_room", "hset"} =>
       room[proc[p].req] = "live"
  /\ \A r \in Requests : room[r] = "none" =>
       /\ r \notin announced /\ r \notin timers /\ invite[r] = "absent"
       /\ \A p \in Procs : proc[p].req = r => proc[p].pc \in {"pending", "create"}

\* The ring key of a callee is set by the claim alone, and for a dialled call.
ClaimedOnce ==
  /\ \A r \in Requests : dial[r] = None => readers[r] = 0 /\ \A u \in Users : ringing[u] # r
  /\ \A p \in Procs : proc[p].pc \in {"pending", "create", "provision", "claim"} =>
       \A u \in Users : ringing[u] # proc[p].req

\* readers counts the handlers that answer.
ReadersCounted ==
  \A r \in Requests :
    /\ \A p \in Procs : Answering(p, r) => readers[r] >= 1
    /\ readers[r] = 1 => \A p, q \in Procs : Answering(p, r) /\ Answering(q, r) => p = q

\* Places from which the invite may still be pending.
Early == Starting \cup {"free", "expire", "seat", "write"}

\* Who goes on to end a call without a hang-up has seen its ring over.
RingIsOver ==
  \A p \in Procs : proc[p].pc \notin Early /\ proc[p].op # "hangup" =>
    invite[proc[p].req] # "pending" \/ (proc[p].op = "sweep" /\ restarted)

HandlersKnown == /\ OpsFit /\ FreshAlone /\ RoomFirst /\ ClaimedOnce
                 /\ ReadersCounted /\ RingIsOver

-----------------------------------------------------------------------------
(* While no restart cut a handler short, what is there has a keeper.        *)

\* A pending invite has its timer, or a handler that sets it or that answers.
RingTended ==
  ~ restarted => \A r \in Requests :
    invite[r] = "pending" => r \in timers \/ Doing(r, {"expire", "seat", "write"})

\* Places of a handler that will delete the ring key, or has just set it.
HoldsRing == {"by_room", "hset", "record", "publish", "undo", "del_invite", "del_ringing"}

\* The ring key of a user is that of a call to the user, with a pending invite
\* or with a handler that will delete the key.
BusyForReason ==
  \A u \in Users : LET r == ringing[u] IN r # None =>
    /\ dial[r] # None /\ Callee(r) = u
    /\ restarted \/ invite[r] = "pending" \/ Doing(r, HoldsRing)

ContestedAt(u) == \E q \in Requests : dial[q] # None /\ Callee(q) = u /\ Contested(q)

\* A call that rings has the ring key of its callee, unless two handlers closed
\* one ring of that callee.
RingOwnsCallee ==
  ~ restarted => \A r \in Requests :
    /\ dial[r] # None
    /\ invite[r] = "pending" \/ Doing(r, HoldsRing \cup {"seat", "write"})
    => ringing[Callee(r)] = r \/ ContestedAt(Callee(r))

RingKept == RingTended /\ RingHasRoom /\ BusyForReason /\ RingOwnsCallee

\* r was answered by one handler, rings without an answer, or is a call.
Untroubled(r) ==
  /\ readers[r] < 2
  /\ \/ r \in active
     \/ invite[r] = "pending" /\ readers[r] = 0
     \/ \E p \in Procs : proc[p].req = r /\ proc[p].op = "accepted"

\* Only a hang-up or the sweep ends the room of such a call.
AnswerKept ==
  /\ \A r \in active : readers[r] >= 1
  /\ \A r \in active : readers[r] = 1 =>
       \A p \in Procs : Answering(p, r) => proc[p].op = "accepted"
  /\ \A r \in Requests : Untroubled(r) =>
       room[r] = "live" \/ closedBy[r] \in {"hangup", "sweep"}

\* Places of a handler that has recorded the outcome and will end the room.
WillEnd == {"undo", "del_invite", "del_ringing", "del_by_room", "clear_active",
            "find_room", "end_tx"}

\* A recorded outcome has a handler that carries it through.
OutcomeTended ==
  \A r \in Requests : outcome[r] > 0 =>
    /\ readers[r] >= 1
    /\ restarted \/ room[r] = "ended" \/ Closing(r, WillEnd)
    /\ restarted \/ r \notin session \/ Closing(r, WillEnd \cup {"del_session"})

\* An invite hash that is neither pending nor gone has a handler that deletes it.
InviteTended ==
  ~ restarted => \A r \in Requests :
    /\ invite[r] \notin {"absent", "pending"} => Doing(r, {"record", "publish", "undo", "del_invite"})
    /\ outcome[r] > 0 => invite[r] # "pending"

EndKept == OutcomeTended /\ InviteTended

CallKept == HandlersKnown /\ RingKept /\ AnswerKept /\ EndKept

-----------------------------------------------------------------------------
(* What the proofs use of the types and of the table of handlers.           *)

CallTyped ==
  /\ invite \in [Requests -> Statuses] /\ ringing \in [Users -> Requests \cup {None}]
  /\ room \in [Requests -> {"none", "live", "ended"}] /\ outcome \in [Requests -> Nat]
  /\ closedBy \in [Requests -> Ops \cup {None}] /\ active \subseteq Requests
  /\ readers \in [Requests -> 0..2] /\ dial \in [Requests -> Dials \cup {None}]
  /\ \A p \in Procs : proc[p].pc # "free" => proc[p].req \in Requests

\* The types the proofs use.
LEMMA CallTypes == CallShape => CallTyped
BY DEF CallShape, CallTypeOK, CallTyped, HandlersDialled, At

\* p goes on to another place, or is done, and no other handler moves.
Moves(p, to) ==
  \A q \in Procs : /\ proc'[q].req = proc[q].req /\ proc'[q].op = proc[q].op
                   /\ proc'[q].pc = IF q = p THEN to ELSE proc[q].pc
Leaves(p) == /\ \A q \in Procs \ {p} : proc'[q] = proc[q]
             /\ proc'[p].pc = "free" /\ proc'[p].req = None
\* A handler starts to work on r.
Serves(p, pc, op, r) ==
  /\ \A q \in Procs \ {p} : proc'[q] = proc[q]
  /\ proc[p].pc = "free" /\ proc[p].req = None
  /\ proc'[p].pc = pc /\ proc'[p].op = op /\ proc'[p].req = r

\* Goto moves a handler.
LEMMA GoesMoves ==
  ASSUME CallShape, NEW p \in Procs, NEW to \in Pcs, Goto(p, to) PROVE Moves(p, to)
BY HandlerGoes DEF CallShape, Moves

\* Finish frees its slot.
LEMMA EndsLeaves == ASSUME CallShape, NEW p \in Procs, Finish(p) PROVE Leaves(p)
<1>1. CallTypeOK
  BY DEF CallShape
<1>2. /\ \A q \in Procs : proc'[q] = IF q = p THEN Free ELSE proc[q]
      /\ proc'[p].pc = "free" /\ proc'[p].req = None
  BY <1>1, HandlerEnds
<1> QED
  BY <1>2 DEF Leaves

\* Begin takes one.
LEMMA BeginsServes ==
  ASSUME CallShape, NEW p \in Procs, NEW pc \in Pcs, NEW op \in Ops, NEW r \in Requests,
         Begin(p, pc, op, r)
  PROVE  Serves(p, pc, op, r)
<1>1. CallTypeOK /\ proc[p].pc = "free" /\ proc[p].req = None
  BY DEF CallShape, Begin, At, HandlersDialled
<1> QED
  BY <1>1, HandlerBegins DEF Serves

\* The invariant holds before the first call.
LEMMA CallKeptInit == CallInit => CallKept
<1> SUFFICES ASSUME CallInit PROVE CallKept
  OBVIOUS
<1>1. \A p \in Procs : proc[p].pc = "free" /\ proc[p].op = None /\ proc[p].req = None
  BY DEF CallInit, Free
<1>2. HandlersKnown
  <2>1. \A p \in Procs, r \in Requests : proc[p].req # r
    BY <1>1, NoneIsNoRequest
  <2>2. \A p \in Procs : proc[p].pc = "free"
    BY <1>1
  <2>3. OpsFit /\ FreshAlone /\ RingIsOver
    BY <2>2 DEF OpsFit, FreshAlone, Fresh, RingIsOver, Early, Starting
  <2>4. RoomFirst /\ ClaimedOnce /\ ReadersCounted
    BY <2>1, <2>2, NoneIsNoRequest DEF CallInit, RoomFirst, ClaimedOnce, ReadersCounted, Answering
  <2> QED
    BY <2>3, <2>4 DEF HandlersKnown
<1>3. RingKept
  BY DEF CallInit, RingKept, RingTended, RingHasRoom, BusyForReason, RingOwnsCallee
<1>4. AnswerKept /\ EndKept
  BY <1>1, NoneIsNoRequest DEF CallInit, AnswerKept, Untroubled, EndKept, OutcomeTended,
     InviteTended
<1> QED
  BY <1>2, <1>3, <1>4 DEF CallKept

-----------------------------------------------------------------------------
(* Every step of a handler keeps the invariant.                             *)

\* The callee is found free, or is being rung already.
LEMMA ReadPendingKeeps ==
  ASSUME CallShape, CallKept, NEW p \in Procs, ReadPending(p)
  PROVE  CallKept'
<1>a. CallTyped /\ None \notin Requests
  BY CallTypes, NoneIsNoRequest
<1>1. /\ proc[p].pc = "pending" /\ proc[p].req \in Requests /\ dial[proc[p].req] \in Dials
      /\ Callee(proc[p].req) \in Users
  BY <1>a DEF ReadPending, At, CallTyped, CallShape, HandlersDialled, Callee, Dials
<1>2. \/ Moves(p, "create") /\ UNCHANGED <<dial, announced>>
      \/ /\ Leaves(p)
         /\ dial' = [dial EXCEPT ![proc[p].req] = None]
         /\ \/ announced' = announced
            \/ \E s \in Requests : invite[s] = "pending" /\ announced' = announced \cup {s}
  BY <1>a, <1>1, GoesMoves, EndsLeaves DEF ReadPending, Pcs, CallTyped
<1>3. UNCHANGED <<invite, ringing, timers, room, readers, restarted, closedBy, active, outcome, session>>
  BY DEF ReadPending, call, chat, history
<1>4. HandlersKnown'
  BY <1>a, <1>1, <1>2, <1>3 DEF Moves, Leaves, CallTyped, CallKept, HandlersKnown, OpsFit,
     FreshAlone, RoomFirst, ClaimedOnce, ReadersCounted, RingIsOver, Answering, Fresh, Early,
     Starting, Closers
<1>5. RingKept'
  BY <1>a, <1>1, <1>2, <1>3, <1>4 DEF Moves, Leaves, CallTyped, CallKept, HandlersKnown, OpsFit,
     FreshAlone, RoomFirst, ClaimedOnce, ReadersCounted, RingIsOver, Answering, Fresh, Early,
     Starting, Answers, Closers, Outcomes, RingKept, RingTended, RingHasRoom, BusyForReason,
     RingOwnsCallee, Doing, HoldsRing, ContestedAt, Contested, Callee
<1>6. AnswerKept'
  BY <1>a, <1>2, <1>3 DEF Moves, Leaves, CallTyped, CallKept, Answering, AnswerKept, Untroubled
<1>7. EndKept'
  BY <1>a, <1>1, <1>2, <1>3, <1>4 DEF Moves, Leaves, CallTyped, CallKept, HandlersKnown, OpsFit,
     FreshAlone, RoomFirst, ClaimedOnce, ReadersCounted, RingIsOver, Answering, Fresh, Early,
     Starting, Answers, Closers, Outcomes, EndKept, OutcomeTended, InviteTended, Closing, Doing,
     WillEnd
<1> QED
  BY <1>4, <1>5, <1>6, <1>7 DEF CallKept

\* The start of a call, up to the ring.
LEMMA StartKeeps ==
  ASSUME CallShape, CallKept, NEW p \in Procs,
         \/ CreateRoom(p) \/ Provision(p) \/ ClaimCallee(p) \/ SetByRoom(p)
         \/ WriteInvite(p) \/ RingCallee(p)
  PROVE  CallKept'
<1> DEFINE r == proc[p].req
<1>a. /\ None \notin Requests
      /\ proc[p].pc # "free" => r \in Requests /\ dial[r] \in Dials /\ dial[r] # None /\ Callee(r) \in Users
  BY NoneIsNoRequest DEF CallShape, HandlersDialled, At, CallTypeOK, Callee, Dials
<1>b. CallTyped
  BY CallTypes
<1>1. CASE CreateRoom(p)
  <2>1. /\ Goto(p, "provision") /\ proc[p].pc = "create"
        /\ room' = [room EXCEPT ![r] = "live"]
    BY <1>1 DEF CreateRoom, At
  <2>2. UNCHANGED <<dial, invite, ringing, announced, timers, readers, restarted, closedBy, active, outcome, session>>
    BY <1>1 DEF CreateRoom, ring, chat, history
  <2>3. Moves(p, "provision")
    BY <2>1, GoesMoves DEF Pcs
  <2>4. HandlersKnown'
    BY <1>b, <2>1, <2>2, <2>3 DEF Moves, CallTyped, CallKept, HandlersKnown, OpsFit, FreshAlone,
       RoomFirst, ClaimedOnce, ReadersCounted, RingIsOver, Answering, Fresh, Starting
  <2>5. RingKept'
    BY <1>a, <1>b, <2>1, <2>2, <2>3, <2>4 DEF Moves, CallTyped, CallKept, HandlersKnown, OpsFit,
       FreshAlone, RoomFirst, ClaimedOnce, ReadersCounted, RingIsOver, Answering, Fresh, Early,
       Starting, Answers, Closers, Outcomes, RingKept, RingTended, RingHasRoom, BusyForReason,
       RingOwnsCallee, Doing, HoldsRing, ContestedAt, Contested, Callee
  <2>6. AnswerKept'
    BY <2>1, <2>2, <2>3 DEF Moves, CallKept, Answering, AnswerKept, Untroubled
  <2>7. EndKept'
    BY <1>a, <1>b, <2>1, <2>2, <2>3, <2>4 DEF Moves, CallTyped, CallKept, HandlersKnown, OpsFit,
       FreshAlone, RoomFirst, ClaimedOnce, ReadersCounted, RingIsOver, Answering, Fresh, Early,
       Starting, Answers, Closers, Outcomes, EndKept, OutcomeTended, InviteTended, Closing,
       Doing, WillEnd
  <2> QED
    BY <2>4, <2>5, <2>6, <2>7 DEF CallKept
<1>2. CASE Provision(p)
  <2>1. /\ Goto(p, "claim") /\ proc[p].pc = "provision"
        /\ session' = session \cup {r}
    BY <1>2 DEF Provision, At
  <2>2. UNCHANGED <<dial, invite, ringing, announced, timers, room, readers, restarted, closedBy, active, outcome>>
    BY <1>2 DEF Provision, ring, chat, history
  <2>3. Moves(p, "claim")
    BY <2>1, GoesMoves DEF Pcs
  <2>4. HandlersKnown'
    BY <2>1, <2>2, <2>3 DEF Moves, CallKept, HandlersKnown, OpsFit, FreshAlone, RoomFirst,
       ClaimedOnce, ReadersCounted, RingIsOver, Answering, Fresh, Starting
  <2>5. RingKept'
    BY <1>a, <1>b, <2>1, <2>2, <2>3, <2>4 DEF Moves, CallTyped, CallKept, HandlersKnown, OpsFit,
       FreshAlone, RoomFirst, ClaimedOnce, ReadersCounted, RingIsOver, Answering, Fresh, Early,
       Starting, Answers, Closers, Outcomes, RingKept, RingTended, RingHasRoom, BusyForReason,
       RingOwnsCallee, Doing, HoldsRing, ContestedAt, Contested, Callee
  <2>6. AnswerKept'
    BY <2>2, <2>3 DEF Moves, CallKept, Answering, AnswerKept, Untroubled
  <2>7. EndKept'
    BY <2>1, <2>2, <2>3 DEF Moves, CallKept, HandlersKnown, RoomFirst, EndKept, OutcomeTended,
       InviteTended, Closing, Doing, WillEnd
  <2> QED
    BY <2>4, <2>5, <2>6, <2>7 DEF CallKept
<1>3. CASE ClaimCallee(p)
  <2>1. PICK to \in {"by_room", "clear_active"} :
          /\ Goto(p, to) /\ proc[p].pc = "claim"
          /\ to = "by_room" => /\ ringing[Callee(r)] = None
                             /\ ringing' = [ringing EXCEPT ![Callee(r)] = r]
          /\ to = "clear_active" => ringing' = ringing
    BY <1>3 DEF ClaimCallee, At
  <2>2. UNCHANGED <<dial, invite, announced, timers, room, readers, restarted, closedBy, active, outcome, session>>
    BY <1>3 DEF ClaimCallee, call, chat, history
  <2>3. Moves(p, to)
    BY <2>1, GoesMoves DEF Pcs
  <2>4. HandlersKnown'
    BY <1>a, <1>b, <2>1, <2>2, <2>3 DEF Moves, CallTyped, CallKept, HandlersKnown, OpsFit,
       FreshAlone, RoomFirst, ClaimedOnce, ReadersCounted, RingIsOver, Answering, Fresh, Early,
       Starting, Answers, Closers, Outcomes
  <2>5. RingKept'
    <3>1. RingTended'
      BY <2>1, <2>2, <2>3 DEF Moves, CallKept, RingKept, RingTended, Doing
    <3>2. RingHasRoom'
      BY <2>2 DEF CallKept, RingKept, RingHasRoom
    <3>3. BusyForReason'
      BY <1>a, <1>b, <2>1, <2>2, <2>3 DEF Moves, CallTyped, CallKept, RingKept, BusyForReason,
         Doing, HoldsRing, Callee
    <3>4. RingOwnsCallee'
      <4> SUFFICES ASSUME ~ restarted, NEW s \in Requests, dial[s] # None,
                          invite[s] = "pending" \/ Doing(s, HoldsRing \cup {"seat", "write"})'
                   PROVE  ringing'[Callee(s)] = s \/ ContestedAt(Callee(s))
        BY <2>2 DEF RingOwnsCallee, ContestedAt, Contested, Callee
      <4>1. Callee(s) \in Users
        BY <1>b DEF CallTyped, Callee, Dials
      <4>2. CASE s = r
        BY <1>b, <2>1, <2>3, <4>1, <4>2 DEF Moves, CallTyped, CallKept, HandlersKnown, FreshAlone,
           OpsFit, Starting, Fresh, Doing, HoldsRing
      <4>3. CASE s # r
        <5>1. invite[s] = "pending" \/ Doing(s, HoldsRing \cup {"seat", "write"})
          BY <2>1, <2>3, <4>3 DEF Doing, Moves
        <5>2. ringing[Callee(s)] = s \/ ContestedAt(Callee(s))
          BY <5>1 DEF CallKept, RingKept, RingOwnsCallee
        <5> QED
          BY <1>a, <1>b, <2>1, <4>1, <4>3, <5>2 DEF CallTyped
      <4> QED
        BY <4>2, <4>3
    <3> QED
      BY <3>1, <3>2, <3>3, <3>4 DEF RingKept
  <2>6. AnswerKept'
    BY <2>2, <2>3 DEF Moves, CallKept, Answering, AnswerKept, Untroubled
  <2>7. EndKept'
    BY <1>a, <1>b, <2>1, <2>2, <2>3, <2>4 DEF Moves, CallTyped, CallKept, HandlersKnown, OpsFit,
       FreshAlone, RoomFirst, ClaimedOnce, ReadersCounted, RingIsOver, Answering, Fresh, Early,
       Starting, Answers, Closers, Outcomes, EndKept, OutcomeTended, InviteTended, Closing,
       Doing, WillEnd
  <2> QED
    BY <2>4, <2>5, <2>6, <2>7 DEF CallKept
<1>4. CASE SetByRoom(p)
  <2>1. /\ Goto(p, "hset") /\ proc[p].pc = "by_room"
    BY <1>4 DEF SetByRoom, At
  <2>2. UNCHANGED <<dial, invite, ringing, announced, timers, room, readers, restarted, closedBy, active, outcome, session>>
    BY <1>4 DEF SetByRoom, call, chat, history
  <2>3. Moves(p, "hset")
    BY <2>1, GoesMoves DEF Pcs
  <2>4. HandlersKnown'
    BY <2>1, <2>2, <2>3 DEF Moves, CallKept, HandlersKnown, OpsFit, FreshAlone, RoomFirst,
       ClaimedOnce, ReadersCounted, RingIsOver, Answering, Fresh, Starting
  <2>5. RingKept'
    BY <2>1, <2>2, <2>3 DEF Moves, CallKept, RingKept, RingTended, RingHasRoom, BusyForReason,
       RingOwnsCallee, Doing, HoldsRing, ContestedAt, Contested, Callee
  <2>6. AnswerKept'
    BY <2>2, <2>3 DEF Moves, CallKept, Answering, AnswerKept, Untroubled
  <2>7. EndKept'
    BY <2>1, <2>2, <2>3 DEF Moves, CallKept, EndKept, OutcomeTended, InviteTended, Closing, Doing,
       WillEnd
  <2> QED
    BY <2>4, <2>5, <2>6, <2>7 DEF CallKept
<1>5. CASE WriteInvite(p)
  <2>1. /\ Goto(p, "expire") /\ proc[p].pc = "hset"
        /\ invite' = [invite EXCEPT ![r] = "pending"]
    BY <1>5 DEF WriteInvite, At
  <2>2. UNCHANGED <<dial, ringing, announced, timers, room, readers, restarted, closedBy, active, outcome, session>>
    BY <1>5 DEF WriteInvite, call, chat, history
  <2>3. Moves(p, "expire")
    BY <2>1, GoesMoves DEF Pcs
  <2>4. HandlersKnown'
    BY <1>a, <1>b, <2>1, <2>2, <2>3 DEF Moves, CallTyped, CallKept, HandlersKnown, OpsFit,
       FreshAlone, RoomFirst, ClaimedOnce, ReadersCounted, RingIsOver, Answering, Fresh, Early,
       Starting, Answers, Closers, Outcomes
  <2>5. RingKept'
    BY <1>a, <1>b, <2>1, <2>2, <2>3, <2>4 DEF Moves, CallTyped, CallKept, HandlersKnown, OpsFit,
       FreshAlone, RoomFirst, ClaimedOnce, ReadersCounted, RingIsOver, Answering, Fresh, Early,
       Starting, Answers, Closers, Outcomes, RingKept, RingTended, RingHasRoom, BusyForReason,
       RingOwnsCallee, Doing, HoldsRing, ContestedAt, Contested, Callee
  <2>6. AnswerKept'
    BY <2>1, <2>2, <2>3 DEF Moves, CallKept, HandlersKnown, RoomFirst, Answering, AnswerKept,
       Untroubled
  <2>7. EndKept'
    BY <1>a, <1>b, <2>1, <2>2, <2>3, <2>4 DEF Moves, CallTyped, CallKept, HandlersKnown, OpsFit,
       FreshAlone, RoomFirst, ClaimedOnce, ReadersCounted, RingIsOver, Answering, Fresh, Early,
       Starting, Answers, Closers, Outcomes, EndKept, OutcomeTended, InviteTended, Closing,
       Doing, WillEnd
  <2> QED
    BY <2>4, <2>5, <2>6, <2>7 DEF CallKept
<1>6. CASE RingCallee(p)
  <2>1. /\ Finish(p) /\ proc[p].pc = "expire"
        /\ announced' = announced \cup {r} /\ timers' = timers \cup {r}
    BY <1>6 DEF RingCallee, At
  <2>2. UNCHANGED <<dial, invite, ringing, room, readers, restarted, closedBy, active, outcome, session>>
    BY <1>6 DEF RingCallee, call, chat, history
  <2>3. Leaves(p)
    BY <2>1, EndsLeaves DEF Pcs
  <2>4. HandlersKnown'
    BY <1>a, <1>b, <2>1, <2>2, <2>3 DEF Leaves, CallTyped, CallKept, HandlersKnown, OpsFit,
       FreshAlone, RoomFirst, ClaimedOnce, ReadersCounted, RingIsOver, Answering, Fresh, Early,
       Starting
  <2>5. RingKept'
    BY <2>1, <2>2, <2>3 DEF Leaves, CallKept, RingKept, RingTended, RingHasRoom, BusyForReason,
       RingOwnsCallee, Doing, HoldsRing, ContestedAt, Contested, Callee
  <2>6. AnswerKept'
    BY <1>a, <1>b, <2>2, <2>3 DEF Leaves, CallTyped, CallKept, Answering, AnswerKept, Untroubled
  <2>7. EndKept'
    BY <2>1, <2>2, <2>3 DEF Leaves, CallKept, EndKept, OutcomeTended, InviteTended, Closing, Doing,
       WillEnd
  <2> QED
    BY <2>4, <2>5, <2>6, <2>7 DEF CallKept
<1> QED
  BY <1>1, <1>2, <1>3, <1>4, <1>5, <1>6

\* An answer, up to the ring keys.
LEMMA AnswerKeeps ==
  ASSUME CallShape, CallKept, NEW p \in Procs,
         \/ SeatCallee(p) \/ WriteStatus(p) \/ RecordOutcome(p)
         \/ PublishOutcome(p) \/ UndoRecord(p) \/ DeleteInvite(p)
         \/ DeleteRinging(p) \/ DeleteByRoom(p) \/ SetActive(p)
  PROVE  CallKept'
<1> DEFINE r == proc[p].req
<1>a. /\ None \notin Requests
      /\ proc[p].pc # "free" => r \in Requests /\ dial[r] \in Dials /\ dial[r] # None /\ Callee(r) \in Users
  BY NoneIsNoRequest DEF CallShape, HandlersDialled, At, CallTypeOK, Callee, Dials
<1>b. CallTyped
  BY CallTypes
<1>1. CASE SeatCallee(p)
  <2>1. /\ Goto(p, "write") /\ proc[p].pc = "seat"
    BY <1>1 DEF SeatCallee, At
  <2>2. UNCHANGED <<dial, invite, ringing, announced, timers, room, readers, restarted, closedBy, active, outcome, session>>
    BY <1>1 DEF SeatCallee, ring, chat, history
  <2>3. Moves(p, "write")
    BY <2>1, GoesMoves DEF Pcs
  <2>4. HandlersKnown'
    BY <2>1, <2>2, <2>3 DEF Moves, CallKept, HandlersKnown, OpsFit, FreshAlone, RoomFirst,
       ClaimedOnce, ReadersCounted, RingIsOver, Answering, Fresh, Early, Starting, Answers
  <2>5. RingKept'
    BY <1>a, <1>b, <2>1, <2>2, <2>3, <2>4 DEF Moves, CallTyped, CallKept, HandlersKnown, OpsFit,
       FreshAlone, RoomFirst, ClaimedOnce, ReadersCounted, RingIsOver, Answering, Fresh, Early,
       Starting, Answers, Closers, Outcomes, RingKept, RingTended, RingHasRoom, BusyForReason,
       RingOwnsCallee, Doing, HoldsRing, ContestedAt, Contested, Callee
  <2>6. AnswerKept'
    BY <2>2, <2>3 DEF Moves, CallKept, Answering, AnswerKept, Untroubled
  <2>7. EndKept'
    BY <1>a, <1>b, <2>1, <2>2, <2>3, <2>4 DEF Moves, CallTyped, CallKept, HandlersKnown, OpsFit,
       FreshAlone, RoomFirst, ClaimedOnce, ReadersCounted, RingIsOver, Answering, Fresh, Early,
       Starting, Answers, Closers, Outcomes, EndKept, OutcomeTended, InviteTended, Closing,
       Doing, WillEnd
  <2> QED
    BY <2>4, <2>5, <2>6, <2>7 DEF CallKept
<1>2. CASE WriteStatus(p)
  <2>1. PICK to \in {"del_invite", "record"} :
          /\ Goto(p, to) /\ proc[p].pc = "write"
          /\ invite' = [invite EXCEPT ![r] =
                       IF @ \in {"absent", "ghost"} THEN "ghost" ELSE Status(proc[p].op)]
          /\ proc[p].op = "accepted" <=> to = "del_invite"
          /\ Status(proc[p].op) \in Outcomes \cup {"accepted"}
    BY <1>2 DEF WriteStatus, Status, CallKept, HandlersKnown, OpsFit, Answers, Closers, Outcomes,
       At
  <2>2. UNCHANGED <<dial, ringing, announced, timers, room, readers, restarted, closedBy, active, outcome, session>>
    BY <1>2 DEF WriteStatus, call, chat, history
  <2>3. Moves(p, to)
    BY <2>1, GoesMoves DEF Pcs
  <2>4. HandlersKnown'
    BY <1>a, <1>b, <2>1, <2>2, <2>3 DEF Moves, CallTyped, CallKept, HandlersKnown, OpsFit,
       FreshAlone, RoomFirst, ClaimedOnce, ReadersCounted, RingIsOver, Answering, Fresh, Starting,
       Answers, Closers, Outcomes
  <2>5. RingKept'
    <3>1. RingTended'
      BY <1>b, <2>1, <2>2, <2>3 DEF Moves, CallTyped, CallKept, Outcomes, RingKept, RingTended,
         Doing
    <3>2. RingHasRoom'
      BY <2>1, <2>2 DEF CallKept, Outcomes, RingKept, RingHasRoom
    <3>3. BusyForReason'
      BY <2>1, <2>2, <2>3 DEF Moves, CallKept, RingKept, BusyForReason, Doing, HoldsRing, Callee
    <3>4. RingOwnsCallee'
      BY <2>1, <2>2, <2>3 DEF Moves, CallKept, RingKept, RingOwnsCallee, Doing, ContestedAt,
         Contested, Callee
    <3> QED
      BY <3>1, <3>2, <3>3, <3>4 DEF RingKept
  <2>6. AnswerKept'
    BY <2>1, <2>2, <2>3 DEF Moves, CallKept, Answering, Outcomes, AnswerKept, Untroubled
  <2>7. EndKept'
    BY <1>a, <1>b, <2>1, <2>2, <2>3, <2>4 DEF Moves, CallTyped, CallKept, HandlersKnown, OpsFit,
       FreshAlone, RoomFirst, ClaimedOnce, ReadersCounted, RingIsOver, Answering, Fresh, Early,
       Starting, Answers, Closers, Outcomes, EndKept, OutcomeTended, InviteTended, Closing,
       Doing, WillEnd
  <2> QED
    BY <2>4, <2>5, <2>6, <2>7 DEF CallKept
<1>3. CASE RecordOutcome(p)
  <2>1. PICK to \in {"del_invite", "publish"} :
          /\ Goto(p, to) /\ proc[p].pc = "record"
    BY <1>3 DEF RecordOutcome, At
  <2>2. UNCHANGED <<dial, invite, ringing, announced, timers, room, readers, restarted, closedBy, active, outcome, session>>
    BY <1>3 DEF RecordOutcome, ring, call, history
  <2>3. Moves(p, to)
    BY <2>1, GoesMoves DEF Pcs
  <2>4. HandlersKnown'
    BY <2>1, <2>2, <2>3 DEF Moves, CallKept, HandlersKnown, OpsFit, FreshAlone, RoomFirst,
       ClaimedOnce, ReadersCounted, RingIsOver, Answering, Fresh, Early, Starting, Answers
  <2>5. RingKept'
    BY <1>a, <1>b, <2>1, <2>2, <2>3, <2>4 DEF Moves, CallTyped, CallKept, HandlersKnown, OpsFit,
       FreshAlone, RoomFirst, ClaimedOnce, ReadersCounted, RingIsOver, Answering, Fresh, Early,
       Starting, Answers, Closers, Outcomes, RingKept, RingTended, RingHasRoom, BusyForReason,
       RingOwnsCallee, Doing, HoldsRing, ContestedAt, Contested, Callee
  <2>6. AnswerKept'
    BY <2>2, <2>3 DEF Moves, CallKept, Answering, AnswerKept, Untroubled
  <2>7. EndKept'
    BY <2>1, <2>2, <2>3 DEF Moves, CallKept, EndKept, OutcomeTended, InviteTended, Closing, Doing,
       WillEnd
  <2> QED
    BY <2>4, <2>5, <2>6, <2>7 DEF CallKept
<1>4. CASE PublishOutcome(p)
  <2>1. PICK to \in {"del_invite", "undo"} :
          /\ Goto(p, to) /\ proc[p].pc = "publish"
          /\ outcome' = outcome \/ outcome' = [outcome EXCEPT ![r] = @ + 1]
    BY <1>4 DEF PublishOutcome, At
  <2>2. UNCHANGED <<dial, invite, ringing, announced, timers, room, readers, restarted, closedBy, active, session>>
    BY <1>4 DEF PublishOutcome, ring, call
  <2>3. Moves(p, to)
    BY <2>1, GoesMoves DEF Pcs
  <2>4. HandlersKnown'
    BY <2>1, <2>2, <2>3 DEF Moves, CallKept, HandlersKnown, OpsFit, FreshAlone, RoomFirst,
       ClaimedOnce, ReadersCounted, RingIsOver, Answering, Fresh, Early, Starting, Answers
  <2>5. RingKept'
    BY <2>1, <2>2, <2>3 DEF Moves, CallKept, RingKept, RingTended, RingHasRoom, BusyForReason,
       RingOwnsCallee, Doing, HoldsRing, ContestedAt, Contested, Callee
  <2>6. AnswerKept'
    BY <2>2, <2>3 DEF Moves, CallKept, Answering, AnswerKept, Untroubled
  <2>7. EndKept'
    BY <1>a, <1>b, <2>1, <2>2, <2>3, <2>4 DEF Moves, CallTyped, CallKept, HandlersKnown, OpsFit,
       FreshAlone, RoomFirst, ClaimedOnce, ReadersCounted, RingIsOver, Answering, Fresh, Early,
       Starting, Answers, Closers, Outcomes, EndKept, OutcomeTended, InviteTended, Closing,
       Doing, WillEnd
  <2> QED
    BY <2>4, <2>5, <2>6, <2>7 DEF CallKept
<1>5. CASE UndoRecord(p)
  <2>1. /\ Goto(p, "del_invite") /\ proc[p].pc = "undo"
    BY <1>5 DEF UndoRecord, At
  <2>2. UNCHANGED <<dial, invite, ringing, announced, timers, room, readers, restarted, closedBy, active, outcome, session>>
    BY <1>5 DEF UndoRecord, ring, call, history
  <2>3. Moves(p, "del_invite")
    BY <2>1, GoesMoves DEF Pcs
  <2>4. HandlersKnown'
    BY <2>1, <2>2, <2>3 DEF Moves, CallKept, HandlersKnown, OpsFit, FreshAlone, RoomFirst,
       ClaimedOnce, ReadersCounted, RingIsOver, Answering, Fresh, Early, Starting, Answers
  <2>5. RingKept'
    BY <2>1, <2>2, <2>3 DEF Moves, CallKept, RingKept, RingTended, RingHasRoom, BusyForReason,
       RingOwnsCallee, Doing, HoldsRing, ContestedAt, Contested, Callee
  <2>6. AnswerKept'
    BY <2>2, <2>3 DEF Moves, CallKept, Answering, AnswerKept, Untroubled
  <2>7. EndKept'
    BY <2>2, <2>3 DEF Moves, CallKept, EndKept, OutcomeTended, InviteTended, Closing, Doing,
       WillEnd
  <2> QED
    BY <2>4, <2>5, <2>6, <2>7 DEF CallKept
<1>6. CASE DeleteInvite(p)
  <2>1. /\ Goto(p, "del_ringing") /\ proc[p].pc = "del_invite"
        /\ invite' = [invite EXCEPT ![r] = "absent"]
    BY <1>6 DEF DeleteInvite, At
  <2>2. UNCHANGED <<dial, ringing, announced, timers, room, readers, restarted, closedBy, active, outcome, session>>
    BY <1>6 DEF DeleteInvite, call, chat, history
  <2>3. Moves(p, "del_ringing")
    BY <2>1, GoesMoves DEF Pcs
  <2>4. HandlersKnown'
    BY <2>1, <2>2, <2>3 DEF Moves, CallKept, HandlersKnown, OpsFit, FreshAlone, RoomFirst,
       ClaimedOnce, ReadersCounted, RingIsOver, Answering, Fresh, Early, Starting
  <2>5. RingKept'
    BY <1>a, <1>b, <2>1, <2>2, <2>3, <2>4 DEF Moves, CallTyped, CallKept, HandlersKnown, OpsFit,
       FreshAlone, RoomFirst, ClaimedOnce, ReadersCounted, RingIsOver, Answering, Fresh, Early,
       Starting, Answers, Closers, Outcomes, RingKept, RingTended, RingHasRoom, BusyForReason,
       RingOwnsCallee, Doing, HoldsRing, ContestedAt, Contested, Callee
  <2>6. AnswerKept'
    BY <2>1, <2>2, <2>3 DEF Moves, CallKept, Answering, AnswerKept, Untroubled
  <2>7. EndKept'
    BY <1>b, <2>1, <2>2, <2>3 DEF Moves, CallTyped, CallKept, EndKept, OutcomeTended, InviteTended,
       Closing, Doing, WillEnd
  <2> QED
    BY <2>4, <2>5, <2>6, <2>7 DEF CallKept
<1>7. CASE DeleteRinging(p)
  <2>1. /\ Goto(p, "del_by_room") /\ proc[p].pc = "del_ringing"
        /\ ringing' = [ringing EXCEPT ![Callee(r)] = None]
    BY <1>7 DEF DeleteRinging, At
  <2>2. UNCHANGED <<dial, invite, announced, timers, room, readers, restarted, closedBy, active, outcome, session>>
    BY <1>7 DEF DeleteRinging, call, chat, history
  <2>3. Moves(p, "del_by_room")
    BY <2>1, GoesMoves DEF Pcs
  <2>4. HandlersKnown'
    BY <1>a, <1>b, <2>1, <2>2, <2>3 DEF Moves, CallTyped, CallKept, HandlersKnown, OpsFit,
       FreshAlone, RoomFirst, ClaimedOnce, ReadersCounted, RingIsOver, Answering, Fresh, Early,
       Starting
  <2>5. RingKept'
    <3>1. RingTended'
      BY <2>1, <2>2, <2>3 DEF Moves, CallKept, RingKept, RingTended, Doing
    <3>2. RingHasRoom'
      BY <2>2 DEF CallKept, RingKept, RingHasRoom
    <3>3. BusyForReason'
      BY <1>b, <2>1, <2>2, <2>3 DEF Moves, CallTyped, CallKept, RingKept, BusyForReason, Doing,
         Callee
    <3>4. RingOwnsCallee'
      BY <1>a, <1>b, <2>1, <2>2, <2>3 DEF Moves, CallTyped, CallKept, HandlersKnown, OpsFit,
         FreshAlone, ReadersCounted, RingIsOver, Answering, Fresh, Early, Starting, Answers,
         Closers, Outcomes, RingKept, RingOwnsCallee, Doing, HoldsRing, ContestedAt, Contested,
         Callee
    <3> QED
      BY <3>1, <3>2, <3>3, <3>4 DEF RingKept
  <2>6. AnswerKept'
    BY <2>2, <2>3 DEF Moves, CallKept, Answering, AnswerKept, Untroubled
  <2>7. EndKept'
    BY <1>a, <1>b, <2>1, <2>2, <2>3, <2>4 DEF Moves, CallTyped, CallKept, HandlersKnown, OpsFit,
       FreshAlone, RoomFirst, ClaimedOnce, ReadersCounted, RingIsOver, Answering, Fresh, Early,
       Starting, Answers, Closers, Outcomes, EndKept, OutcomeTended, InviteTended, Closing,
       Doing, WillEnd
  <2> QED
    BY <2>4, <2>5, <2>6, <2>7 DEF CallKept
<1>8. CASE DeleteByRoom(p)
  <2>1. PICK to \in {"set_active", "clear_active"} :
          /\ Goto(p, to) /\ proc[p].pc = "del_by_room"
          /\ proc[p].op = "accepted" <=> to = "set_active"
    BY <1>8 DEF DeleteByRoom, At
  <2>2. UNCHANGED <<dial, invite, ringing, announced, timers, room, readers, restarted, closedBy, active, outcome, session>>
    BY <1>8 DEF DeleteByRoom, call, chat, history
  <2>3. Moves(p, to)
    BY <2>1, GoesMoves DEF Pcs
  <2>4. HandlersKnown'
    BY <2>1, <2>2, <2>3 DEF Moves, CallKept, HandlersKnown, OpsFit, FreshAlone, RoomFirst,
       ClaimedOnce, ReadersCounted, RingIsOver, Answering, Fresh, Early, Starting, Answers
  <2>5. RingKept'
    BY <2>1, <2>2, <2>3 DEF Moves, CallKept, RingKept, RingTended, RingHasRoom, BusyForReason,
       RingOwnsCallee, Doing, HoldsRing, ContestedAt, Contested, Callee
  <2>6. AnswerKept'
    BY <2>2, <2>3 DEF Moves, CallKept, Answering, AnswerKept, Untroubled
  <2>7. EndKept'
    BY <1>a, <1>b, <2>1, <2>2, <2>3, <2>4 DEF Moves, CallTyped, CallKept, HandlersKnown, OpsFit,
       FreshAlone, RoomFirst, ClaimedOnce, ReadersCounted, RingIsOver, Answering, Fresh, Early,
       Starting, Answers, Closers, Outcomes, EndKept, OutcomeTended, InviteTended, Closing,
       Doing, WillEnd
  <2> QED
    BY <2>4, <2>5, <2>6, <2>7 DEF CallKept
<1>9. CASE SetActive(p)
  <2>1. /\ Finish(p) /\ proc[p].pc = "set_active"
        /\ active' = active \cup {r}
    BY <1>9 DEF SetActive, At
  <2>2. UNCHANGED <<dial, invite, ringing, announced, timers, room, readers, restarted, closedBy, outcome, session>>
    BY <1>9 DEF SetActive, ring, chat, history
  <2>3. Leaves(p)
    BY <2>1, EndsLeaves DEF Pcs
  <2>4. HandlersKnown'
    BY <1>a, <1>b, <2>2, <2>3 DEF Leaves, CallTyped, CallKept, HandlersKnown, OpsFit, FreshAlone,
       RoomFirst, ClaimedOnce, ReadersCounted, RingIsOver, Answering, Fresh, Early, Starting
  <2>5. RingKept'
    BY <2>1, <2>2, <2>3 DEF Leaves, CallKept, RingKept, RingTended, RingHasRoom, BusyForReason,
       RingOwnsCallee, Doing, HoldsRing, ContestedAt, Contested, Callee
  <2>6. AnswerKept'
    BY <1>a, <1>b, <2>1, <2>2, <2>3 DEF Leaves, CallTyped, CallKept, HandlersKnown, OpsFit,
       ReadersCounted, Answering, Answers, AnswerKept, Untroubled
  <2>7. EndKept'
    BY <2>1, <2>2, <2>3 DEF Leaves, CallKept, EndKept, OutcomeTended, InviteTended, Closing, Doing,
       WillEnd
  <2> QED
    BY <2>4, <2>5, <2>6, <2>7 DEF CallKept
<1> QED
  BY <1>1, <1>2, <1>3, <1>4, <1>5, <1>6, <1>7, <1>8, <1>9

\* The end of a room.
LEMMA EndKeeps ==
  ASSUME CallShape, CallKept, NEW p \in Procs,
         \/ ClearActive(p) \/ GetActive(p) \/ LogCompleted(p)
         \/ PublishCompleted(p) \/ DeleteActive(p) \/ FindRoom(p) \/ EndTx(p)
         \/ DeleteSession(p)
  PROVE  CallKept'
<1> DEFINE r == proc[p].req
<1>a. /\ None \notin Requests
      /\ proc[p].pc # "free" => r \in Requests /\ dial[r] \in Dials /\ dial[r] # None /\ Callee(r) \in Users
  BY NoneIsNoRequest DEF CallShape, HandlersDialled, At, CallTypeOK, Callee, Dials
<1>b. CallTyped
  BY CallTypes
<1>1. CASE ClearActive(p)
  <2>1. /\ Goto(p, "find_room") /\ proc[p].pc = "clear_active"
        /\ active' = active \ {r}
    BY <1>1 DEF ClearActive, At
  <2>2. UNCHANGED <<dial, invite, ringing, announced, timers, room, readers, restarted, closedBy, outcome, session>>
    BY <1>1 DEF ClearActive, ring, chat, history
  <2>3. Moves(p, "find_room")
    BY <2>1, GoesMoves DEF Pcs
  <2>4. HandlersKnown'
    BY <2>1, <2>2, <2>3 DEF Moves, CallKept, HandlersKnown, OpsFit, FreshAlone, RoomFirst,
       ClaimedOnce, ReadersCounted, RingIsOver, Answering, Fresh, Early, Starting, Closers,
       Outcomes
  <2>5. RingKept'
    BY <2>1, <2>2, <2>3 DEF Moves, CallKept, RingKept, RingTended, RingHasRoom, BusyForReason,
       RingOwnsCallee, Doing, HoldsRing, ContestedAt, Contested, Callee
  <2>6. AnswerKept'
    BY <2>1, <2>2, <2>3 DEF Moves, CallKept, Answering, AnswerKept, Untroubled
  <2>7. EndKept'
    BY <2>1, <2>2, <2>3 DEF Moves, CallKept, EndKept, OutcomeTended, InviteTended, Closing, Doing,
       WillEnd
  <2> QED
    BY <2>4, <2>5, <2>6, <2>7 DEF CallKept
<1>2. CASE GetActive(p)
  <2>1. PICK to \in {"log", "find_room"} :
          /\ Goto(p, to) /\ proc[p].pc = "get_active"
    BY <1>2 DEF GetActive, At
  <2>2. UNCHANGED <<dial, invite, ringing, announced, timers, room, readers, restarted, closedBy, active, outcome, session>>
    BY <1>2 DEF GetActive, ring, call, chat, history
  <2>3. Moves(p, to)
    BY <2>1, GoesMoves DEF Pcs
  <2>4. HandlersKnown'
    BY <2>1, <2>2, <2>3 DEF Moves, CallKept, HandlersKnown, OpsFit, FreshAlone, RoomFirst,
       ClaimedOnce, ReadersCounted, RingIsOver, Answering, Fresh, Starting
  <2>5. RingKept'
    BY <1>a, <1>b, <2>1, <2>2, <2>3, <2>4 DEF Moves, CallTyped, CallKept, HandlersKnown, OpsFit,
       FreshAlone, RoomFirst, ClaimedOnce, ReadersCounted, RingIsOver, Answering, Fresh, Early,
       Starting, Answers, Closers, Outcomes, RingKept, RingTended, RingHasRoom, BusyForReason,
       RingOwnsCallee, Doing, HoldsRing, ContestedAt, Contested, Callee
  <2>6. AnswerKept'
    BY <2>2, <2>3 DEF Moves, CallKept, Answering, AnswerKept, Untroubled
  <2>7. EndKept'
    BY <1>a, <1>b, <2>1, <2>2, <2>3, <2>4 DEF Moves, CallTyped, CallKept, HandlersKnown, OpsFit,
       FreshAlone, RoomFirst, ClaimedOnce, ReadersCounted, RingIsOver, Answering, Fresh, Early,
       Starting, Answers, Closers, Outcomes, EndKept, OutcomeTended, InviteTended, Closing,
       Doing, WillEnd
  <2> QED
    BY <2>4, <2>5, <2>6, <2>7 DEF CallKept
<1>3. CASE LogCompleted(p)
  <2>1. PICK to \in {"find_room", "publish_completed"} :
          /\ Goto(p, to) /\ proc[p].pc = "log"
    BY <1>3 DEF LogCompleted, At
  <2>2. UNCHANGED <<dial, invite, ringing, announced, timers, room, readers, restarted, closedBy, active, outcome, session>>
    BY <1>3 DEF LogCompleted, ring, call, history
  <2>3. Moves(p, to)
    BY <2>1, GoesMoves DEF Pcs
  <2>4. HandlersKnown'
    BY <2>1, <2>2, <2>3 DEF Moves, CallKept, HandlersKnown, OpsFit, FreshAlone, RoomFirst,
       ClaimedOnce, ReadersCounted, RingIsOver, Answering, Fresh, Starting
  <2>5. RingKept'
    BY <1>a, <1>b, <2>1, <2>2, <2>3, <2>4 DEF Moves, CallTyped, CallKept, HandlersKnown, OpsFit,
       FreshAlone, RoomFirst, ClaimedOnce, ReadersCounted, RingIsOver, Answering, Fresh, Early,
       Starting, Answers, Closers, Outcomes, RingKept, RingTended, RingHasRoom, BusyForReason,
       RingOwnsCallee, Doing, HoldsRing, ContestedAt, Contested, Callee
  <2>6. AnswerKept'
    BY <2>2, <2>3 DEF Moves, CallKept, Answering, AnswerKept, Untroubled
  <2>7. EndKept'
    BY <2>1, <2>2, <2>3 DEF Moves, CallKept, EndKept, OutcomeTended, InviteTended, Closing, Doing,
       WillEnd
  <2> QED
    BY <2>4, <2>5, <2>6, <2>7 DEF CallKept
<1>4. CASE PublishCompleted(p)
  <2>1. PICK to \in {"del_active", "find_room"} :
          /\ Goto(p, to) /\ proc[p].pc = "publish_completed"
    BY <1>4 DEF PublishCompleted, At
  <2>2. UNCHANGED <<dial, invite, ringing, announced, timers, room, readers, restarted, closedBy, active, outcome, session>>
    BY <1>4 DEF PublishCompleted, ring, call, history
  <2>3. Moves(p, to)
    BY <2>1, GoesMoves DEF Pcs
  <2>4. HandlersKnown'
    BY <2>1, <2>2, <2>3 DEF Moves, CallKept, HandlersKnown, OpsFit, FreshAlone, RoomFirst,
       ClaimedOnce, ReadersCounted, RingIsOver, Answering, Fresh, Starting
  <2>5. RingKept'
    BY <1>a, <1>b, <2>1, <2>2, <2>3, <2>4 DEF Moves, CallTyped, CallKept, HandlersKnown, OpsFit,
       FreshAlone, RoomFirst, ClaimedOnce, ReadersCounted, RingIsOver, Answering, Fresh, Early,
       Starting, Answers, Closers, Outcomes, RingKept, RingTended, RingHasRoom, BusyForReason,
       RingOwnsCallee, Doing, HoldsRing, ContestedAt, Contested, Callee
  <2>6. AnswerKept'
    BY <2>2, <2>3 DEF Moves, CallKept, Answering, AnswerKept, Untroubled
  <2>7. EndKept'
    BY <1>a, <1>b, <2>1, <2>2, <2>3, <2>4 DEF Moves, CallTyped, CallKept, HandlersKnown, OpsFit,
       FreshAlone, RoomFirst, ClaimedOnce, ReadersCounted, RingIsOver, Answering, Fresh, Early,
       Starting, Answers, Closers, Outcomes, EndKept, OutcomeTended, InviteTended, Closing,
       Doing, WillEnd
  <2> QED
    BY <2>4, <2>5, <2>6, <2>7 DEF CallKept
<1>5. CASE DeleteActive(p)
  <2>1. /\ Goto(p, "find_room") /\ proc[p].pc = "del_active"
        /\ active' = active \ {r}
    BY <1>5 DEF DeleteActive, At
  <2>2. UNCHANGED <<dial, invite, ringing, announced, timers, room, readers, restarted, closedBy, outcome, session>>
    BY <1>5 DEF DeleteActive, ring, chat, history
  <2>3. Moves(p, "find_room")
    BY <2>1, GoesMoves DEF Pcs
  <2>4. HandlersKnown'
    BY <2>1, <2>2, <2>3 DEF Moves, CallKept, HandlersKnown, OpsFit, FreshAlone, RoomFirst,
       ClaimedOnce, ReadersCounted, RingIsOver, Answering, Fresh, Starting
  <2>5. RingKept'
    BY <2>1, <2>2, <2>3 DEF Moves, CallKept, RingKept, RingTended, RingHasRoom, BusyForReason,
       RingOwnsCallee, Doing, HoldsRing, ContestedAt, Contested, Callee
  <2>6. AnswerKept'
    BY <2>1, <2>2, <2>3 DEF Moves, CallKept, Answering, AnswerKept, Untroubled
  <2>7. EndKept'
    BY <2>1, <2>2, <2>3 DEF Moves, CallKept, EndKept, OutcomeTended, InviteTended, Closing, Doing,
       WillEnd
  <2> QED
    BY <2>4, <2>5, <2>6, <2>7 DEF CallKept
<1>6. CASE FindRoom(p)
  <2>1. PICK to \in {"end_tx", "del_session"} :
          /\ Goto(p, to) /\ proc[p].pc = "find_room"
          /\ room[r] = "live" <=> to = "end_tx"
    BY <1>6 DEF FindRoom, At
  <2>2. UNCHANGED <<dial, invite, ringing, announced, timers, room, readers, restarted, closedBy, active, outcome, session>>
    BY <1>6 DEF FindRoom, ring, call, chat, history
  <2>3. Moves(p, to)
    BY <2>1, GoesMoves DEF Pcs
  <2>4. HandlersKnown'
    BY <2>1, <2>2, <2>3 DEF Moves, CallKept, HandlersKnown, OpsFit, FreshAlone, RoomFirst,
       ClaimedOnce, ReadersCounted, RingIsOver, Answering, Fresh, Early, Starting
  <2>5. RingKept'
    BY <1>a, <1>b, <2>1, <2>2, <2>3, <2>4 DEF Moves, CallTyped, CallKept, HandlersKnown, OpsFit,
       FreshAlone, RoomFirst, ClaimedOnce, ReadersCounted, RingIsOver, Answering, Fresh, Early,
       Starting, Answers, Closers, Outcomes, RingKept, RingTended, RingHasRoom, BusyForReason,
       RingOwnsCallee, Doing, HoldsRing, ContestedAt, Contested, Callee
  <2>6. AnswerKept'
    BY <2>2, <2>3 DEF Moves, CallKept, Answering, AnswerKept, Untroubled
  <2>7. EndKept'
    BY <1>a, <1>b, <2>1, <2>2, <2>3, <2>4 DEF Moves, CallTyped, CallKept, HandlersKnown, OpsFit,
       FreshAlone, RoomFirst, ClaimedOnce, ReadersCounted, RingIsOver, Answering, Fresh, Early,
       Starting, Answers, Closers, Outcomes, EndKept, OutcomeTended, InviteTended, Closing,
       Doing, WillEnd
  <2> QED
    BY <2>4, <2>5, <2>6, <2>7 DEF CallKept
<1>7. CASE EndTx(p)
  <2>1. /\ Goto(p, "del_session") /\ proc[p].pc = "end_tx"
        /\ room' = [room EXCEPT ![r] = "ended"]
        /\ closedBy' = IF room[r] = "live" THEN [closedBy EXCEPT ![r] = proc[p].op] ELSE closedBy
    BY <1>7 DEF EndTx, At
  <2>2. UNCHANGED <<dial, invite, ringing, announced, timers, readers, restarted, active, outcome, session>>
    BY <1>7 DEF EndTx, ring, chat
  <2>3. Moves(p, "del_session")
    BY <2>1, GoesMoves DEF Pcs
  <2>4. HandlersKnown'
    BY <1>a, <1>b, <2>1, <2>2, <2>3 DEF Moves, CallTyped, CallKept, HandlersKnown, OpsFit,
       FreshAlone, RoomFirst, ClaimedOnce, ReadersCounted, RingIsOver, Answering, Fresh, Early,
       Starting, Answers, Closers, Outcomes
  <2>5. RingKept'
    BY <1>b, <2>1, <2>2, <2>3, <2>4 DEF Moves, CallTyped, CallKept, HandlersKnown, OpsFit,
       FreshAlone, ClaimedOnce, ReadersCounted, RingIsOver, Early, Starting, RingKept, RingTended,
       RingHasRoom, BusyForReason, RingOwnsCallee, Doing, HoldsRing, ContestedAt, Contested, Callee
  <2>6. AnswerKept'
    <3>1. \A s \in Requests \ {r} : room'[s] = room[s] /\ closedBy'[s] = closedBy[s]
      BY <1>a, <1>b, <2>1 DEF CallTyped
    <3>2. Untroubled(r) => proc[p].op \in {"hangup", "sweep"} \/ room[r] # "live"
      BY <1>a, <1>b, <2>1 DEF HandlersDialled, CallShape, Ops, Untroubled, CallTyped, CallKept,
         HandlersKnown, OpsFit, FreshAlone, ReadersCounted, Answering, Fresh, Answers, Closers,
         AnswerKept
    <3>3. \A s \in Requests : Untroubled(s)' => Untroubled(s)
      BY <2>1, <2>2, <2>3 DEF Untroubled, Moves
    <3> QED
      BY <1>a, <1>b, <2>1, <2>2, <2>3, <3>1, <3>2, <3>3 DEF CallTyped, CallKept, AnswerKept,
         Answering, Moves
  <2>7. EndKept'
    BY <1>a, <1>b, <2>1, <2>2, <2>3, <2>4 DEF Moves, CallTyped, CallKept, HandlersKnown, OpsFit,
       FreshAlone, RoomFirst, ClaimedOnce, ReadersCounted, RingIsOver, Answering, Fresh, Early,
       Starting, Answers, Closers, Outcomes, EndKept, OutcomeTended, InviteTended, Closing,
       Doing, WillEnd
  <2> QED
    BY <2>4, <2>5, <2>6, <2>7 DEF CallKept
<1>8. CASE DeleteSession(p)
  <2>1. /\ Finish(p) /\ proc[p].pc = "del_session"
        /\ session' = session \ {r}
    BY <1>8 DEF DeleteSession, At
  <2>2. UNCHANGED <<dial, invite, ringing, announced, timers, room, readers, restarted, closedBy, active, outcome>>
    BY <1>8 DEF DeleteSession, ring, chat, history
  <2>3. Leaves(p)
    BY <2>1, EndsLeaves DEF Pcs
  <2>4. HandlersKnown'
    BY <1>a, <1>b, <2>2, <2>3 DEF Leaves, CallTyped, CallKept, HandlersKnown, OpsFit, FreshAlone,
       RoomFirst, ClaimedOnce, ReadersCounted, RingIsOver, Answering, Fresh, Early, Starting
  <2>5. RingKept'
    BY <1>a, <1>b, <2>1, <2>2, <2>3, <2>4 DEF Leaves, CallTyped, CallKept, HandlersKnown, OpsFit,
       FreshAlone, RoomFirst, ClaimedOnce, ReadersCounted, RingIsOver, Answering, Fresh, Early,
       Starting, Answers, Closers, Outcomes, RingKept, RingTended, RingHasRoom, BusyForReason,
       RingOwnsCallee, Doing, HoldsRing, ContestedAt, Contested, Callee
  <2>6. AnswerKept'
    BY <1>a, <1>b, <2>2, <2>3 DEF Leaves, CallTyped, CallKept, Answering, AnswerKept, Untroubled
  <2>7. EndKept'
    BY <2>1, <2>2, <2>3 DEF Leaves, CallKept, EndKept, OutcomeTended, InviteTended, Closing, Doing,
       WillEnd
  <2> QED
    BY <2>4, <2>5, <2>6, <2>7 DEF CallKept
<1> QED
  BY <1>1, <1>2, <1>3, <1>4, <1>5, <1>6, <1>7, <1>8

-----------------------------------------------------------------------------
(* Arrivals, time and restarts.                                             *)

\* A call is placed.
LEMMA PlaceCallKeeps ==
  ASSUME CallShape, CallKept, NEW p \in Procs, NEW r \in Requests, NEW d \in Dials,
         PlaceCall(p, r, d)
  PROVE  CallKept'
<1>a. CallTyped /\ None \notin Requests
  BY CallTypes, NoneIsNoRequest
<1>1. /\ dial[r] = None /\ dial' = [dial EXCEPT ![r] = d] /\ d # None
      /\ \A q \in Procs : proc[q].req # r
  BY <1>a, NoneIsNoRequest DEF PlaceCall, CallShape, HandlersDialled, At
<1>2. Serves(p, "pending", "ring", r)
  BY BeginsServes DEF PlaceCall, Pcs, Ops
<1>3. UNCHANGED <<invite, ringing, announced, timers, room, readers, restarted, closedBy, active, outcome, session>>
  BY DEF PlaceCall, call, chat, history
<1>4. HandlersKnown'
  BY <1>1, <1>2, <1>3 DEF Serves, CallKept, HandlersKnown, OpsFit, FreshAlone, RoomFirst,
     ClaimedOnce, ReadersCounted, RingIsOver, Answering, Fresh, Answers, Closers, Outcomes,
     CallShape, UnusedIsBlank
<1>5. RingKept'
  BY <1>1, <1>2, <1>3, <1>4 DEF Serves, CallKept, HandlersKnown, FreshAlone, Fresh, RingKept,
     RingTended, RingHasRoom, BusyForReason, RingOwnsCallee, Doing, HoldsRing, ContestedAt,
     Contested, Callee
<1>6. AnswerKept'
  BY <1>2, <1>3 DEF Serves, CallKept, Answering, Answers, Closers, Outcomes, AnswerKept, Untroubled
<1>7. EndKept'
  BY <1>a, <1>2, <1>3 DEF Serves, CallKept, EndKept, OutcomeTended, InviteTended, Closing, Doing
<1> QED
  BY <1>4, <1>5, <1>6, <1>7 DEF CallKept

\* The invite is answered.
LEMMA AnswerArrives ==
  ASSUME CallShape, CallKept, NEW p \in Procs, NEW r \in Requests,
         NEW op \in Outcomes \cup {"accepted"}, Answer(p, op, r)
  PROVE  CallKept'
<1>a. CallTyped /\ None \notin Requests
  BY CallTypes, NoneIsNoRequest
<1>1. /\ r \in announced /\ dial[r] # None /\ invite[r] = "pending"
      /\ readers' = [readers EXCEPT ![r] = IF @ < 2 THEN @ + 1 ELSE @]
  BY DEF Answer, StillPending, SawPending, CallShape, UnusedIsBlank
<1>2. Serves(p, IF op = "accepted" THEN "seat" ELSE "write", op, r)
  BY BeginsServes DEF Answer, Pcs, Ops
<1>3. UNCHANGED <<dial, invite, ringing, announced, timers, room, restarted, closedBy, active, outcome, session>>
  BY DEF Answer, ring, call, chat
<1>4. HandlersKnown'
  <2>1. OpsFit'
    BY <1>2 DEF Serves, CallKept, HandlersKnown, OpsFit, Starting, Answers, Closers
  <2>2. FreshAlone'
    BY <1>1, <1>2, <1>3 DEF Serves, CallKept, HandlersKnown, FreshAlone, Fresh, Outcomes
  <2>3. RoomFirst'
    BY <1>a, <1>1, <1>2, <1>3 DEF Serves, CallTyped, CallKept, HandlersKnown, RoomFirst
  <2>4. ClaimedOnce'
    BY <1>a, <1>1, <1>2, <1>3 DEF Serves, CallTyped, CallKept, HandlersKnown, ClaimedOnce
  <2>5. ReadersCounted'
    BY <1>a, <1>1, <1>2 DEF Serves, CallTyped, CallKept, HandlersKnown, ReadersCounted, Answering
  <2>6. RingIsOver'
    BY <1>2, <1>3 DEF Serves, CallKept, HandlersKnown, RingIsOver, Early
  <2> QED
    BY <2>1, <2>2, <2>3, <2>4, <2>5, <2>6 DEF HandlersKnown
<1>5. RingKept'
  BY <1>1, <1>2, <1>3 DEF Serves, CallKept, RingKept, RingTended, RingHasRoom, BusyForReason,
     RingOwnsCallee, Doing, ContestedAt, Contested, Callee
<1>6. AnswerKept'
  BY <1>a, <1>1, <1>2, <1>3 DEF Serves, CallTyped, CallKept, Answering, AnswerKept, Untroubled
<1>7. EndKept'
  BY <1>a, <1>1, <1>2, <1>3, <1>4 DEF Serves, CallTyped, CallKept, HandlersKnown, OpsFit,
     FreshAlone, RoomFirst, ClaimedOnce, ReadersCounted, RingIsOver, Answering, Fresh, Early,
     Starting, Answers, Closers, Outcomes, EndKept, OutcomeTended, InviteTended, Closing, Doing,
     WillEnd
<1> QED
  BY <1>4, <1>5, <1>6, <1>7 DEF CallKept

\* The ring timer fires.
LEMMA RingTimeoutKeeps ==
  ASSUME CallShape, CallKept, NEW p \in Procs, NEW r \in Requests, RingTimeout(p, r)
  PROVE  CallKept'
<1>a. CallTyped /\ None \notin Requests
  BY CallTypes, NoneIsNoRequest
<1>1. /\ r \in timers /\ dial[r] # None /\ timers' = timers \ {r}
      /\ \/ /\ invite[r] = "pending" /\ Serves(p, "write", "expired", r)
            /\ readers' = [readers EXCEPT ![r] = IF @ < 2 THEN @ + 1 ELSE @]
         \/ invite[r] # "pending" /\ UNCHANGED <<proc, readers>>
  BY BeginsServes DEF RingTimeout, StillPending, SawPending, Pcs, Ops, CallShape, UnusedIsBlank
<1>2. UNCHANGED <<dial, invite, ringing, announced, room, restarted, closedBy, active, outcome, session>>
  BY DEF RingTimeout, ring, call, chat
<1>3. HandlersKnown'
  <2>1. OpsFit'
    BY <1>1 DEF Serves, CallKept, HandlersKnown, OpsFit, Starting, Answers, Closers
  <2>2. FreshAlone'
    BY <1>a, <1>1, <1>2 DEF Serves, CallTyped, CallKept, HandlersKnown, FreshAlone, Fresh
  <2>3. RoomFirst'
    BY <1>a, <1>1, <1>2 DEF Serves, CallTyped, CallKept, HandlersKnown, RoomFirst
  <2>4. ClaimedOnce'
    BY <1>a, <1>1, <1>2 DEF Serves, CallTyped, CallKept, HandlersKnown, ClaimedOnce
  <2>5. ReadersCounted'
    BY <1>a, <1>1 DEF Serves, CallTyped, CallKept, HandlersKnown, ReadersCounted, Answering
  <2>6. RingIsOver'
    BY <1>1, <1>2 DEF Serves, CallKept, HandlersKnown, RingIsOver, Early
  <2> QED
    BY <2>1, <2>2, <2>3, <2>4, <2>5, <2>6 DEF HandlersKnown
<1>4. RingKept'
  BY <1>a, <1>1, <1>2 DEF Serves, CallTyped, CallKept, RingKept, RingTended, RingHasRoom,
     BusyForReason, RingOwnsCallee, Doing, ContestedAt, Contested, Callee
<1>5. AnswerKept'
  BY <1>a, <1>1, <1>2 DEF Serves, CallTyped, CallKept, Answering, AnswerKept, Untroubled
<1>6. EndKept'
  BY <1>a, <1>1, <1>2, <1>3 DEF Serves, CallTyped, CallKept, HandlersKnown, OpsFit, FreshAlone,
     RoomFirst, ClaimedOnce, ReadersCounted, RingIsOver, Answering, Fresh, Early, Starting,
     Answers, Closers, Outcomes, EndKept, OutcomeTended, InviteTended, Closing, Doing, WillEnd
<1> QED
  BY <1>3, <1>4, <1>5, <1>6 DEF CallKept

\* The sweep finds a room past its time.
LEMMA SweepKeeps ==
  ASSUME CallShape, CallKept, NEW p \in Procs, NEW r \in Requests, SweepDueRoom(p, r)
  PROVE  CallKept'
<1>a. CallTyped /\ None \notin Requests
  BY CallTypes, NoneIsNoRequest
<1>1. /\ room[r] = "live" /\ r \notin timers /\ \A q \in Procs : proc[q].req # r
  BY DEF SweepDueRoom, Quiet
<1>2. Serves(p, "find_room", "sweep", r)
  BY BeginsServes DEF SweepDueRoom, Pcs, Ops
<1>3. UNCHANGED <<dial, invite, ringing, announced, timers, room, readers, restarted, closedBy, active, outcome, session>>
  BY DEF SweepDueRoom, ring, call, chat, history
<1>4. HandlersKnown'
  BY <1>1, <1>2, <1>3 DEF Serves, CallKept, HandlersKnown, OpsFit, FreshAlone, RoomFirst,
     ClaimedOnce, ReadersCounted, RingIsOver, Answering, Fresh, Starting, Answers, Closers,
     Outcomes, RingKept, RingTended, Doing
<1>5. RingKept'
  BY <1>2, <1>3 DEF Serves, CallKept, RingTended, RingHasRoom, BusyForReason, RingOwnsCallee,
     Doing, HoldsRing, ContestedAt, Contested, Callee, RingKept
<1>6. AnswerKept'
  BY <1>2, <1>3 DEF Serves, CallKept, Answering, Answers, Closers, Outcomes, AnswerKept, Untroubled
<1>7. EndKept'
  BY <1>a, <1>2, <1>3 DEF Serves, CallKept, EndKept, OutcomeTended, InviteTended, Closing, Doing
<1> QED
  BY <1>4, <1>5, <1>6, <1>7 DEF CallKept

\* A client leaves.
LEMMA HangUpKeeps ==
  ASSUME CallShape, CallKept, NEW p \in Procs, NEW r \in Requests, NEW u \in Users, HangUp(p, r, u)
  PROVE  CallKept'
<1>a. CallTyped /\ None \notin Requests
  BY CallTypes, NoneIsNoRequest
<1>1. r \in announced
  BY DEF HangUp
<1>2. Serves(p, "get_active", "hangup", r)
  BY BeginsServes DEF HangUp, Pcs, Ops
<1>3. UNCHANGED <<dial, invite, ringing, announced, timers, room, readers, restarted, closedBy, active, outcome, session>>
  BY DEF HangUp, ring, chat, history
<1>4. HandlersKnown'
  BY <1>1, <1>2, <1>3 DEF Serves, CallKept, HandlersKnown, OpsFit, FreshAlone, RoomFirst,
     ClaimedOnce, ReadersCounted, RingIsOver, Answering, Fresh, Starting, Answers, Closers,
     Outcomes
<1>5. RingKept'
  BY <1>2, <1>3 DEF Serves, CallKept, RingKept, RingTended, RingHasRoom, BusyForReason,
     RingOwnsCallee, Doing, HoldsRing, ContestedAt, Contested, Callee
<1>6. AnswerKept'
  BY <1>2, <1>3 DEF Serves, CallKept, Answering, Answers, Closers, Outcomes, AnswerKept, Untroubled
<1>7. EndKept'
  BY <1>a, <1>2, <1>3 DEF Serves, CallKept, EndKept, OutcomeTended, InviteTended, Closing, Doing
<1> QED
  BY <1>4, <1>5, <1>6, <1>7 DEF CallKept

\* The ring keys lapse.
LEMMA RingKeysLapseKeep ==
  ASSUME CallShape, CallKept, NEW r \in Requests, RingKeysLapse(r)
  PROVE  CallKept'
<1>a. CallTyped /\ None \notin Requests
  BY CallTypes, NoneIsNoRequest
<1>1. /\ r \notin timers /\ \A q \in Procs : proc[q].req # r
      /\ dial[r] # None /\ Callee(r) \in Users /\ ringing[Callee(r)] = r
      /\ ringing' = [ringing EXCEPT ![Callee(r)] = None]
  BY <1>a DEF RingKeysLapse, Quiet, CallTyped, Callee, Dials
<1>2. UNCHANGED proc /\ UNCHANGED <<dial, invite, announced, timers, room, readers, restarted, closedBy, active, outcome, session>>
  BY DEF RingKeysLapse, call, chat, history
<1>3. HandlersKnown'
  BY <1>a, <1>1, <1>2 DEF CallTyped, CallKept, HandlersKnown, OpsFit, FreshAlone, RoomFirst,
     ClaimedOnce, ReadersCounted, RingIsOver, Answering, Fresh
<1>4. RingKept'
  BY <1>a, <1>1, <1>2 DEF Callee, CallKept, RingKept, RingTended, RingHasRoom, BusyForReason,
     RingOwnsCallee, Doing
<1>5. AnswerKept'
  BY <1>2 DEF CallKept, Answering, AnswerKept, Untroubled
<1>6. EndKept'
  BY <1>2 DEF CallKept, EndKept, OutcomeTended, InviteTended, Closing, Doing
<1> QED
  BY <1>3, <1>4, <1>5, <1>6 DEF CallKept

\* The invite hash lapses.
LEMMA InviteLapsesKeeps ==
  ASSUME CallShape, CallKept, NEW r \in Requests, InviteLapses(r)
  PROVE  CallKept'
<1>a. CallTyped /\ None \notin Requests
  BY CallTypes, NoneIsNoRequest
<1>1. /\ ringing[Callee(r)] # r
      /\ invite' = [invite EXCEPT ![r] = "absent"]
  BY DEF InviteLapses
<1>2. UNCHANGED proc /\ UNCHANGED <<dial, ringing, announced, timers, room, readers, restarted, closedBy, active, outcome, session>>
  BY DEF InviteLapses, call, chat, history
<1>3. HandlersKnown'
  BY <1>1, <1>2 DEF CallKept, HandlersKnown, OpsFit, FreshAlone, RoomFirst, ClaimedOnce,
     ReadersCounted, RingIsOver, Answering, Fresh
<1>4. RingKept'
  BY <1>1, <1>2 DEF CallKept, RingKept, RingTended, RingHasRoom, BusyForReason, RingOwnsCallee,
     Doing, ContestedAt, Contested, Callee
<1>5. AnswerKept'
  BY <1>1, <1>2 DEF CallKept, Answering, AnswerKept, Untroubled
<1>6. EndKept'
  BY <1>1, <1>2 DEF CallKept, EndKept, OutcomeTended, InviteTended, Closing, Doing
<1> QED
  BY <1>3, <1>4, <1>5, <1>6 DEF CallKept

\* The server restarts.
LEMMA RestartKeeps ==
  ASSUME CallShape, CallKept, ServerRestart
  PROVE  CallKept'
<1>a. CallTyped /\ None \notin Requests
  BY CallTypes, NoneIsNoRequest
<1>1. /\ restarted' = TRUE /\ timers' = {}
      /\ \A p \in Procs : proc'[p].pc = "free" /\ proc'[p].req = None
  BY DEF ServerRestart, Free
<1>2. UNCHANGED <<dial, invite, ringing, announced, room, readers, closedBy, active, outcome, session>>
  BY DEF ServerRestart, ring, call, chat
<1>3. HandlersKnown'
  BY <1>a, <1>1, <1>2 DEF CallKept, HandlersKnown, OpsFit, FreshAlone, RoomFirst, ClaimedOnce,
     ReadersCounted, RingIsOver, Answering, Fresh, Early, Starting
<1>4. RingKept'
  BY <1>1, <1>2 DEF Callee, CallKept, RingKept, RingTended, RingHasRoom, BusyForReason,
     RingOwnsCallee
<1>5. AnswerKept'
  BY <1>a, <1>1, <1>2 DEF CallTyped, CallKept, Answering, AnswerKept, Untroubled
<1>6. EndKept'
  BY <1>1, <1>2 DEF CallKept, EndKept, OutcomeTended, InviteTended
<1> QED
  BY <1>3, <1>4, <1>5, <1>6 DEF CallKept

\* Every step keeps the invariant.
LEMMA CallKeptNext == CallShape /\ CallKept /\ [CallNext]_callVars => CallKept'
<1> SUFFICES ASSUME CallShape, CallKept, [CallNext]_callVars PROVE CallKept'
  OBVIOUS
<1>1. ASSUME NEW p \in Procs, CallStep(p) PROVE CallKept'
  BY <1>1, ReadPendingKeeps, StartKeeps, AnswerKeeps, EndKeeps DEF CallStep
<1>2. ASSUME NEW p \in Procs, NEW r \in Requests, NEW d \in Dials, PlaceCall(p, r, d)
      PROVE  CallKept'
  BY <1>2, PlaceCallKeeps
<1>3. ASSUME NEW p \in Procs, NEW r \in Requests, NEW op \in Outcomes \cup {"accepted"},
             Answer(p, op, r)
      PROVE  CallKept'
  BY <1>3, AnswerArrives
<1>4. ASSUME NEW p \in Procs, NEW r \in Requests, RingTimeout(p, r) \/ SweepDueRoom(p, r)
      PROVE  CallKept'
  BY <1>4, RingTimeoutKeeps, SweepKeeps
<1>5. ASSUME NEW p \in Procs, NEW r \in Requests, NEW u \in Users, HangUp(p, r, u) PROVE CallKept'
  BY <1>5, HangUpKeeps
<1>6. ASSUME NEW r \in Requests, RingKeysLapse(r) \/ InviteLapses(r) PROVE CallKept'
  BY <1>6, RingKeysLapseKeep, InviteLapsesKeeps
<1>7. CASE ServerRestart
  BY <1>7, RestartKeeps
<1>8. CASE UNCHANGED callVars
  <2>1. UNCHANGED <<dial, invite, ringing, announced, timers, room, readers, restarted, closedBy,
                    active, outcome, session, proc>>
    BY <1>8 DEF callVars, ring, call, chat, history
  <2>2. HandlersKnown'
    BY <2>1 DEF CallKept, HandlersKnown, OpsFit, FreshAlone, RoomFirst, ClaimedOnce,
       ReadersCounted, RingIsOver, Answering, Fresh
  <2>3. RingKept'
    BY <2>1 DEF CallKept, RingKept, RingTended, RingHasRoom, BusyForReason, RingOwnsCallee, Doing,
       ContestedAt, Contested, Callee
  <2>4. AnswerKept' /\ EndKept'
    BY <2>1 DEF CallKept, AnswerKept, Untroubled, Answering, EndKept, OutcomeTended, InviteTended,
       Closing, Doing
  <2> QED
    BY <2>2, <2>3, <2>4 DEF CallKept
<1> QED
  BY <1>1, <1>2, <1>3, <1>4, <1>5, <1>6, <1>7, <1>8 DEF CallNext

\* The invariant of the life of a call holds throughout.
THEOREM CallKeptHolds == CallSpec => []CallKept
BY CallKeptInit, CallKeptNext, CallShapeHolds, PTL DEF CallSpec

-----------------------------------------------------------------------------
(* What follows for the people who call.                                    *)

\* The phone does not ring for a call that is over, except when the caller left
\* the room without cancelling or a crash left an invite without a TTL.
THEOREM RingingHasRoom == CallSpec => []RingHasRoom
<1>1. CallKept => RingHasRoom
  BY DEF CallKept, RingKept
<1> QED
  BY <1>1, CallKeptHolds, PTL

\* A callee is held busy only by an invite that can still be answered: no
\* interleaving of cleanups leaves the ring key of a finished request behind.
THEOREM CalleeIsFree == CallSpec => []CalleeNotBlocked
<1>1. CallKept => CalleeNotBlocked
  BY DEF CallKept, RingKept, BusyForReason, CalleeNotBlocked, AtRest, Quiet, Doing
<1> QED
  BY <1>1, CallKeptHolds, PTL

\* One phone rings once, unless two handlers closed one ring of it, and the
\* second one deleted the key of the next caller, or a restart lost the timers.
THEOREM OneRing == CallSpec => []OneRingPerCallee
<1>1. CallShape /\ CallKept => OneRingPerCallee
  <2> SUFFICES ASSUME CallShape, CallKept, ~ restarted, NEW r \in Requests, NEW s \in Requests,
                      invite[r] = "pending", invite[s] = "pending", Callee(r) = Callee(s),
                      ~ ContestedAt(Callee(r))
               PROVE  r = s
    BY DEF OneRingPerCallee, ContestedAt
  <2>1. dial[r] # None /\ dial[s] # None
    BY DEF CallShape, UnusedIsBlank
  <2>2. ringing[Callee(r)] = r /\ ringing[Callee(s)] = s
    BY <2>1 DEF CallKept, RingKept, RingOwnsCallee
  <2> QED
    BY <2>2
<1> QED
  BY <1>1, CallShapeHolds, CallKeptHolds, PTL

\* A call that one handler answered keeps its room until somebody hangs up or
\* its time is over: a late cancel, missed or ring timer does not end it.
THEOREM AnsweredKeepsRoom == CallSpec => []AnsweredCallKeepsRoom
<1>1. CallShape /\ CallKept => AnsweredCallKeepsRoom
  <2> SUFFICES ASSUME CallShape, CallKept, NEW r \in active, ~ Contested(r)
               PROVE  room[r] = "live" \/ closedBy[r] \in {"hangup", "sweep"}
    BY DEF AnsweredCallKeepsRoom
  <2>1. r \in Requests /\ readers[r] < 2
    BY CallTypes DEF CallTyped, Contested
  <2>2. Untroubled(r)
    BY <2>1 DEF Untroubled
  <2> QED
    BY <2>1, <2>2 DEF CallKept, AnswerKept
<1> QED
  BY <1>1, CallShapeHolds, CallKeptHolds, PTL

\* A recorded outcome is carried through: when its handlers are done the room
\* has ended, the session hash is gone and no invite hash is left.
THEOREM RecordedOutcomeEnds == CallSpec => []OutcomeEndsCall
<1>1. CallKept => OutcomeEndsCall
  <2> SUFFICES ASSUME CallKept, NEW r \in Requests, outcome[r] > 0, AtRest(r)
               PROVE  room[r] = "ended" /\ r \notin session /\ invite[r] = "absent"
    BY DEF OutcomeEndsCall
  <2>1. ~ restarted /\ \A p \in Procs : proc[p].req # r
    BY DEF AtRest, Quiet
  <2> QED
    BY <2>1 DEF CallKept, EndKept, OutcomeTended, InviteTended, Closing, Doing
<1> QED
  BY <1>1, CallKeptHolds, PTL

=============================================================================
