----------------------- MODULE SpaceSessionLifeProofs -----------------------
(***************************************************************************)
(* Proofs about the life of a space, for any accounts, plans, handler      *)
(* slots and bounds: a live space has its session hash, its gate keeps the *)
(* guests until the host opens it, and a one-shot space ends when the last *)
(* one has left.                                                           *)
(***************************************************************************)
EXTENDS SpaceSessionProofs

\* No handler runs before the space is made.
FreeAtFirst == status = "none" => NoHandler

\* A handler that is about to drop the session hash of a live space found this
\* session over, or was about to drop it when the space went live.
EndingsNoted ==
  status = "live" /\ (\E h \in Handlers : DropsHash(h)) => raced \/ SessionClosed

\* The TTL of the hash does not end while its gate is being opened.
OpensInTime == (\E h \in Handlers : Pc(h, "unlock")) => ~ HasCome(due.hash)

\* A hash whose TTL is over is gone.
HashLapses == HasCome(due.hash) => hash = "absent"

\* A live space lacks its hash before it is provisioned, or after its TTL.
HashKept ==
  status = "live" /\ ~ SessionClosed /\ ~ raced /\ hash = "absent" =>
    HasCome(due.hash) \/ \E h \in Handlers : Pc(h, "provision")

\* Once it is provisioned, the gate of a space that its host leads is closed
\* until the host opens it, and nobody has slipped by.
GateKept ==
  /\ plan.lead = "host" /\ status = "live" /\ ~ SessionClosed /\ ~ raced
  /\ ~ HasCome(due.hash) /\ \A h \in Handlers : ~ Pc(h, "provision")
  => early = {} /\ (hash = "closed" \/ opened)

\* Two that leave at one time leave together, and one that leaves while another
\* stays still sees the other.
LeaveKept ==
  \A h \in Handlers : Pc(h, "leave_commit") /\ status = "live" /\ parted # "together" =>
    /\ \A g \in Handlers \ {h} : ~ Pc(g, "leave_commit")
    /\ ~ handler[h].flag => \E v \in Active : v # handler[h].user

SpaceKept ==
  /\ FreeAtFirst /\ EndingsNoted /\ OpensInTime /\ HashLapses /\ HashKept /\ GateKept
  /\ LeaveKept /\ OneShotSpaceEnds

-----------------------------------------------------------------------------
(* What a step may leave alone                                              *)

DueFields == {"start", "end", "live", "expiry", "left", "hash"}

\* The table of handlers, the deadlines and the rows are functions.
LEMMA SpaceTyped ==
  ASSUME SpaceTypeOK
  PROVE  /\ handler \in HandlerTable
         /\ due \in [DueFields -> Hours \cup {None}]
         /\ row \in [Members -> {"absent", "in", "left"}]
BY DEF SpaceTypeOK, DueFields

\* The handlers at pc stay there, and no other comes.
Stay(pc) ==
  \A g \in Handlers : /\ (handler'[g].pc = pc) <=> (handler[g].pc = pc)
                      /\ handler[g].pc = pc => handler'[g] = handler[g]

\* h goes from pc to one of the places in to, and its locals stay.
Moves(h, pc, to) ==
  /\ Pc(h, pc) /\ handler'[h].pc \in to
  /\ handler'[h].pc # "free" => handler'[h].user = handler[h].user
  /\ \A g \in Handlers \ {h} : handler'[g] = handler[g]

\* A handler that moves between other places leaves the rest where they are.
LEMMA MovesStay ==
  ASSUME NEW h \in Handlers, NEW pc, NEW to, Moves(h, pc, to), NEW at, at # pc, at \notin to
  PROVE  Stay(at)
BY DEF Moves, Stay, Pc

\* A step that leaves the hash, the gate and its handlers alone, and revives no
\* session that was over, keeps what is said of them.
LEMMA HashAside ==
  ASSUME HashLapses, HashKept, GateKept,
         UNCHANGED <<plan, status, hash, opened, early>>, due'.hash = due.hash,
         Stay("provision"),
         raced' \/ (raced' = raced /\ (SessionClosed => SessionClosed'))
  PROVE  HashLapses' /\ HashKept' /\ GateKept'
BY DEF HashLapses, HashKept, GateKept, Stay, Pc, HasCome

\* A step after which the space is not live keeps what is said of its hash.
LEMMA HashIdle ==
  ASSUME HashLapses, due'.hash = due.hash, hash' \in {hash, "absent"},
         status' # "live" \/ SessionClosed' \/ raced'
  PROVE  HashLapses' /\ HashKept' /\ GateKept'
BY DEF HashLapses, HashKept, GateKept, HasCome

\* A step that takes nobody out and leaves those that are leaving alone keeps
\* what is said of them.
LEMMA LeaveAside ==
  ASSUME LeaveKept, OneShotSpaceEnds, Stay("leave_commit"),
         UNCHANGED <<plan, status, parted>>,
         \A u \in Members : row[u] = "in" => row'[u] = "in"
  PROVE  LeaveKept' /\ OneShotSpaceEnds'
BY DEF LeaveKept, OneShotSpaceEnds, Stay, Pc, Active

\* No handler comes to drop the hash or to open its gate.
NoneCome ==
  \A g \in Handlers :
    /\ handler'[g].pc \in {"drop", "drop_again"} => handler[g].pc \in {"drop", "drop_again"}
    /\ handler'[g].pc = "unlock" => handler[g].pc = "unlock"

\* A handler that moves elsewhere brings none there.
LEMMA MovesNone ==
  ASSUME NEW h \in Handlers, NEW pc, NEW to, Moves(h, pc, to),
         "drop" \notin to, "unlock" \notin to, "drop_again" \in to => pc = "drop"
  PROVE  NoneCome
BY DEF Moves, NoneCome, Pc

\* A step that brings no handler there keeps what is said of endings.
LEMMA EndingsAside ==
  ASSUME EndingsNoted, OpensInTime, NoneCome, status' = status, due'.hash = due.hash,
         raced' \/ (raced' = raced /\ (SessionClosed => SessionClosed'))
  PROVE  EndingsNoted' /\ OpensInTime'
BY DEF EndingsNoted, OpensInTime, NoneCome, DropsHash, Pc, HasCome

\* A handler that comes to drop the hash found the session over.
LEMMA EndingsFound ==
  ASSUME NEW h \in Handlers, NEW pc, NEW to, Moves(h, pc, to), "unlock" \notin to,
         OpensInTime, due'.hash = due.hash, status' # "live" \/ raced' \/ SessionClosed'
  PROVE  EndingsNoted' /\ OpensInTime'
BY DEF EndingsNoted, OpensInTime, Moves, Pc, HasCome

\* A hash that has lapsed, or a deadline that is over, remains so.
LEMMA LaterStays ==
  \A t \in Hours \cup {None} :
    /\ HasCome(t) => HasCome(Later(t))
    /\ IsOver(t) => IsOver(Later(t))
BY SpaceAssumption DEF Later, HasCome, IsOver, Hours, PastBound

-----------------------------------------------------------------------------
(* Every step keeps the invariant.                                          *)

\* A start keeps the invariant.
LEMMA GoLiveKeeps ==
  ASSUME SpaceTypeOK, SpaceKept, NEW h \in Handlers, GoLive, Proceed(h, "provision"),
         Pc(h, "auto_start") \/ Pc(h, "mark_live"), UNCHANGED <<plan, row>>
  PROVE  SpaceKept'
<1>1. /\ handler'[h].pc = "provision"
      /\ \A g \in Handlers \ {h} : handler'[g] = handler[g]
  BY SpaceTyped DEF Proceed, HandlerTable
<1>2. /\ status' = "live" /\ due'.hash = None
      /\ parted' = IF LeavesOpen THEN "together" ELSE None
      /\ raced' = \E g \in Handlers : DropsHash(g)
  BY SpaceTyped DEF GoLive, DueFields
<1>3. FreeAtFirst'
  BY <1>2 DEF FreeAtFirst
<1>4. EndingsNoted' /\ OpensInTime'
  BY <1>1, <1>2 DEF EndingsNoted, OpensInTime, DropsHash, HasCome, Pc
<1>5. HashLapses'
  BY <1>2 DEF HashLapses, HasCome
<1>6. HashKept' /\ GateKept'
  BY <1>1 DEF HashKept, GateKept, Pc
<1>7. LeaveKept'
  BY <1>1, <1>2 DEF LeaveKept, LeavesOpen, Pc
<1>8. OneShotSpaceEnds'
  BY <1>2 DEF OneShotSpaceEnds
<1> QED
  BY <1>3, <1>4, <1>5, <1>6, <1>7, <1>8 DEF SpaceKept

\* Every step of a handler keeps the invariant.
LEMMA SpaceStepKept ==
  ASSUME SpaceTypeOK, SpaceKept, NEW h \in Handlers, SpaceStep(h)
  PROVE  SpaceKept'
<1> USE DEF roomRow, people, past
<1>b. /\ FreeAtFirst /\ EndingsNoted /\ OpensInTime /\ HashLapses /\ HashKept /\ GateKept
      /\ LeaveKept /\ OneShotSpaceEnds
      /\ SpaceTypeOK /\ SpaceKept
  BY DEF SpaceKept
<1>c. /\ handler \in HandlerTable
      /\ due \in [DueFields -> Hours \cup {None}]
      /\ row \in [Members -> {"absent", "in", "left"}]
  BY SpaceTyped
<1>1. CASE ProvisionSpace(h)
  <2>1. Moves(h, "provision", {"free", "reconcile"})
    BY <1>c, <1>1 DEF ProvisionSpace, Proceed, Release, Idle, Moves, Pc, HandlerTable
  <2>2. status # "none"
    BY <1>b, <1>1 DEF ProvisionSpace, FreeAtFirst, NoHandler, Pc
  <2>3. status' = status
    BY <1>1 DEF ProvisionSpace
  <2>4. EndingsNoted' /\ OpensInTime'
    <3>1. due'.hash = HashTTL /\ due'.expiry = due.expiry /\ UNCHANGED <<status, isExpired, raced>>
      BY <1>c, <1>1 DEF ProvisionSpace, DueFields
    <3>2. NoneCome
      BY <2>1, MovesNone
    <3> QED
      BY <1>b, <3>1, <3>2, SpaceAssumption
         DEF EndingsNoted, OpensInTime, NoneCome, DropsHash, SessionClosed, Pc, HasCome, HashTTL
  <2>5. HashLapses' /\ HashKept' /\ GateKept'
    <3>1. due'.hash = HashTTL /\ early' = {}
      BY <1>c, <1>1 DEF ProvisionSpace, DueFields
    <3>2. hash' # "absent" /\ (plan'.lead = "host" => hash' = "closed")
      BY <1>1 DEF ProvisionSpace
    <3> QED
      BY <3>1, <3>2, SpaceAssumption DEF HashLapses, HashKept, GateKept, HasCome, HashTTL
  <2>6. LeaveKept' /\ OneShotSpaceEnds'
    <3>1. Stay("leave_commit")
      BY <2>1, MovesStay
    <3> QED
      BY <1>b, <1>1, <3>1, LeaveAside DEF ProvisionSpace
  <2> QED
    BY <2>2, <2>3, <2>4, <2>5, <2>6 DEF SpaceKept, FreeAtFirst
<1>2. CASE AutoStart(h)
  <2>1. CASE GoLive /\ Proceed(h, "provision")
    BY <1>b, <1>2, <2>1, GoLiveKeeps DEF AutoStart
  <2>2. CASE ~ (GoLive /\ Proceed(h, "provision"))
    <3>1. Moves(h, "auto_start", {"reconcile"})
      BY <1>c, <1>2, <2>2 DEF AutoStart, Proceed, Release, Idle, Moves, Pc, HandlerTable
    <3>2. Stay("provision") /\ Stay("leave_commit")
      BY <3>1, MovesStay
    <3>3. UNCHANGED <<roomRow, people, past, hash>>
      BY <1>2, <2>2 DEF AutoStart
    <3>4. EndingsNoted' /\ OpensInTime'
      BY <1>b, <3>1, <3>3, MovesNone, EndingsAside DEF SessionClosed
    <3>5. HashLapses' /\ HashKept' /\ GateKept'
      BY <1>b, <3>2, <3>3, HashAside DEF SessionClosed
    <3>6. LeaveKept' /\ OneShotSpaceEnds'
      BY <1>b, <3>2, <3>3, LeaveAside
    <3>7. status' # "none"
      BY <1>b, <1>2, <3>3 DEF AutoStart, FreeAtFirst, NoHandler, Pc
    <3> QED
      BY <3>4, <3>5, <3>6, <3>7 DEF SpaceKept, FreeAtFirst
  <2> QED
    BY <2>1, <2>2
<1>3. CASE MarkLive(h)
  <2>1. CASE GoLive /\ Proceed(h, "provision")
    BY <1>b, <1>3, <2>1, GoLiveKeeps DEF MarkLive
  <2>2. CASE ~ (GoLive /\ Proceed(h, "provision"))
    <3>1. Moves(h, "mark_live", {"free"})
      BY <1>c, <1>3, <2>2 DEF MarkLive, Proceed, Release, Idle, Moves, Pc, HandlerTable
    <3>2. Stay("provision") /\ Stay("leave_commit")
      BY <3>1, MovesStay
    <3>3. UNCHANGED <<roomRow, people, past, hash>>
      BY <1>3, <2>2 DEF MarkLive
    <3>4. EndingsNoted' /\ OpensInTime'
      BY <1>b, <3>1, <3>3, MovesNone, EndingsAside DEF SessionClosed
    <3>5. HashLapses' /\ HashKept' /\ GateKept'
      BY <1>b, <3>2, <3>3, HashAside DEF SessionClosed
    <3>6. LeaveKept' /\ OneShotSpaceEnds'
      BY <1>b, <3>2, <3>3, LeaveAside
    <3>7. status' # "none"
      BY <1>b, <1>3, <3>3 DEF MarkLive, FreeAtFirst, NoHandler, Pc
    <3> QED
      BY <3>4, <3>5, <3>6, <3>7 DEF SpaceKept, FreeAtFirst
  <2> QED
    BY <2>1, <2>2
<1>4. CASE Reconcile(h)
  <2>1. Moves(h, "reconcile", {"free", "drop", "expire", "end", "presence", "mark_live", "admit", "token", "open", "recheck"})
    BY <1>c, <1>4 DEF Reconcile, Proceed, Release, Idle, Moves, Pc, HandlerTable, Admitted
  <2>2. status # "none"
    BY <1>b, <1>4, <2>1 DEF FreeAtFirst, NoHandler, Moves, Pc
  <2>3. Stay("provision") /\ Stay("leave_commit")
    BY <2>1, MovesStay
  <2>4. status' = status
    BY <1>4 DEF Reconcile
  <2>5. EndingsNoted' /\ OpensInTime'
    <3>1. CASE status = "live"
      <4>1. Moves(h, "reconcile", {"free", "expire", "end", "presence", "mark_live", "admit",
                                   "token", "open", "recheck"})
        BY <1>c, <1>4, <3>1
           DEF Reconcile, Proceed, Release, Idle, Moves, Pc, HandlerTable, Admitted
      <4> QED
        BY <1>b, <1>4, <4>1, MovesNone, EndingsAside DEF Reconcile, SessionClosed
    <3>2. CASE status # "live"
      BY <1>b, <1>4, <2>1, <3>2, EndingsFound DEF Reconcile
    <3> QED
      BY <3>1, <3>2
  <2>6. HashLapses' /\ HashKept' /\ GateKept'
    BY <1>b, <1>4, <2>3, HashAside DEF Reconcile, SessionClosed
  <2>7. LeaveKept' /\ OneShotSpaceEnds'
    BY <1>b, <1>4, <2>3, LeaveAside DEF Reconcile
  <2> QED
    BY <2>2, <2>4, <2>5, <2>6, <2>7 DEF SpaceKept, FreeAtFirst
<1>20. CASE CheckPresence(h)
  <2>1. Moves(h, "presence", {"free", "end", "mark_live", "admit", "token", "open", "recheck"})
    BY <1>c, <1>20 DEF CheckPresence, Proceed, Release, Idle, Moves, Pc, HandlerTable, Admitted
  <2>2. status # "none"
    BY <1>b, <1>20, <2>1 DEF FreeAtFirst, NoHandler, Moves, Pc
  <2>3. Stay("provision") /\ Stay("leave_commit")
    BY <2>1, MovesStay
  <2>4. status' = status
    BY <1>20 DEF CheckPresence
  <2>5. EndingsNoted' /\ OpensInTime'
    BY <1>b, <1>20, <2>1, MovesNone, EndingsAside DEF CheckPresence, SessionClosed
  <2>6. HashLapses' /\ HashKept' /\ GateKept'
    BY <1>b, <1>20, <2>3, HashAside DEF CheckPresence, SessionClosed
  <2>7. LeaveKept' /\ OneShotSpaceEnds'
    BY <1>b, <1>20, <2>3, LeaveAside DEF CheckPresence
  <2> QED
    BY <2>2, <2>4, <2>5, <2>6, <2>7 DEF SpaceKept, FreeAtFirst
<1>21. CASE ExpireSlot(h)
  <2>1. Moves(h, "expire", {"free", "drop", "mark_live", "admit", "token", "open", "recheck"})
    BY <1>c, <1>21 DEF ExpireSlot, Proceed, Release, Idle, Moves, Pc, HandlerTable, Admitted
  <2>2. status # "none"
    BY <1>b, <1>21, <2>1 DEF FreeAtFirst, NoHandler, Moves, Pc
  <2>3. Stay("provision") /\ Stay("leave_commit")
    BY <2>1, MovesStay
  <2>4. status' = status
    BY <1>21 DEF ExpireSlot
  <2>5. EndingsNoted' /\ OpensInTime'
    <3>1. CASE status = "live"
      <4>1. Moves(h, "expire", {"free", "mark_live", "admit", "token", "open", "recheck"})
        BY <1>c, <1>21, <3>1
           DEF ExpireSlot, Proceed, Release, Idle, Moves, Pc, HandlerTable, Admitted
      <4>2. SessionClosed => SessionClosed'
        BY <1>21 DEF ExpireSlot, SessionClosed
      <4> QED
        BY <1>b, <1>21, <4>1, <4>2, MovesNone, EndingsAside DEF ExpireSlot
    <3>2. CASE status # "live"
      BY <1>b, <1>21, <2>1, <3>2, EndingsFound DEF ExpireSlot
    <3> QED
      BY <3>1, <3>2
  <2>6. HashLapses' /\ HashKept' /\ GateKept'
    <3>1. SessionClosed => SessionClosed'
      BY <1>21 DEF ExpireSlot, SessionClosed
    <3> QED
      BY <1>b, <1>21, <2>3, <3>1, HashAside DEF ExpireSlot
  <2>7. LeaveKept' /\ OneShotSpaceEnds'
    BY <1>b, <1>21, <2>3, LeaveAside DEF ExpireSlot
  <2> QED
    BY <2>2, <2>4, <2>5, <2>6, <2>7 DEF SpaceKept, FreeAtFirst
<1>22. CASE RecheckRoom(h)
  <2>1. Moves(h, "recheck", {"free", "drop_again"})
    BY <1>c, <1>22 DEF RecheckRoom, Proceed, Release, Idle, Moves, Pc, HandlerTable
  <2>2. status # "none"
    BY <1>b, <1>22, <2>1 DEF FreeAtFirst, NoHandler, Moves, Pc
  <2>3. Stay("provision") /\ Stay("leave_commit")
    BY <2>1, MovesStay
  <2>4. status' = status
    BY <1>22 DEF RecheckRoom
  <2>5. EndingsNoted' /\ OpensInTime'
    <3>1. CASE SessionClosed
      BY <1>b, <1>22, <2>1, <3>1, EndingsFound DEF RecheckRoom, SessionClosed
    <3>2. CASE ~ SessionClosed
      <4>1. Moves(h, "recheck", {"free"})
        BY <1>c, <1>22, <3>2 DEF RecheckRoom, Release, Idle, Moves, Pc, HandlerTable
      <4> QED
        BY <1>b, <1>22, <4>1, MovesNone, EndingsAside DEF RecheckRoom, SessionClosed
    <3> QED
      BY <3>1, <3>2
  <2>6. HashLapses' /\ HashKept' /\ GateKept'
    BY <1>b, <1>22, <2>3, HashAside DEF RecheckRoom, SessionClosed
  <2>7. LeaveKept' /\ OneShotSpaceEnds'
    BY <1>b, <1>22, <2>3, LeaveAside DEF RecheckRoom
  <2> QED
    BY <2>2, <2>4, <2>5, <2>6, <2>7 DEF SpaceKept, FreeAtFirst
<1>5. CASE EndSession(h)
  <2>1. Moves(h, "end", {"drop", "end_tx"})
    BY <1>c, <1>5 DEF EndSession, Proceed, Release, Idle, Moves, Pc, HandlerTable
  <2>2. status # "none"
    BY <1>b, <1>5, <2>1 DEF FreeAtFirst, NoHandler, Moves, Pc
  <2>3. Stay("provision") /\ Stay("leave_commit")
    BY <2>1, MovesStay
  <2>4. status' = status
    BY <1>5 DEF EndSession
  <2>5. EndingsNoted' /\ OpensInTime'
    <3>1. CASE SessionClosed \/ status # "live"
      BY <1>b, <1>5, <2>1, <3>1, EndingsFound DEF EndSession, SessionClosed
    <3>2. CASE ~ (SessionClosed \/ status # "live")
      <4>1. Moves(h, "end", {"end_tx"})
        BY <1>c, <1>5, <3>2 DEF EndSession, Proceed, Moves, Pc, HandlerTable
      <4> QED
        BY <1>b, <1>5, <4>1, MovesNone, EndingsAside DEF EndSession, SessionClosed
    <3> QED
      BY <3>1, <3>2
  <2>6. HashLapses' /\ HashKept' /\ GateKept'
    BY <1>b, <1>5, <2>3, HashAside DEF EndSession, SessionClosed
  <2>7. LeaveKept' /\ OneShotSpaceEnds'
    BY <1>b, <1>5, <2>3, LeaveAside DEF EndSession
  <2> QED
    BY <2>2, <2>4, <2>5, <2>6, <2>7 DEF SpaceKept, FreeAtFirst
<1>6. CASE EndSpaceTx(h)
  <2>1. status # "none"
    BY <1>b, <1>6 DEF EndSpaceTx, FreeAtFirst, NoHandler, Pc
  <2>2. status' \notin {"live", "none"}
    BY <1>6, <2>1 DEF EndSpaceTx
  <2>3. EndingsNoted' /\ OpensInTime'
    <3>1. Moves(h, "end_tx", {"drop"})
      <4>1. Pc(h, "end_tx") /\ Proceed(h, "drop")
        BY <1>6 DEF EndSpaceTx
      <4> QED
        BY <1>c, <4>1 DEF Proceed, Moves, Pc, HandlerTable
    <3>2. due'.hash = due.hash
      BY <1>c, <1>6 DEF EndSpaceTx, DueFields
    <3> QED
      BY <1>b, <2>2, <3>1, <3>2, EndingsFound
  <2>4. HashLapses' /\ HashKept' /\ GateKept'
    <3>1. due'.hash = due.hash
      BY <1>c, <1>6 DEF EndSpaceTx, DueFields
    <3> QED
      BY <1>b, <1>6, <2>2, <3>1, HashIdle DEF EndSpaceTx
  <2>5. LeaveKept' /\ OneShotSpaceEnds'
    BY <2>2 DEF LeaveKept, OneShotSpaceEnds
  <2> QED
    BY <2>1, <2>2, <2>3, <2>4, <2>5 DEF SpaceKept, FreeAtFirst
<1>7. CASE DropSession(h)
  <2> DEFINE pc == handler[h].pc
  <2>1. Moves(h, pc, {"free", "drop_again"}) /\ pc \in {"drop", "drop_again"}
    BY <1>c, <1>7 DEF DropSession, DropsHash, Proceed, Release, Idle, Moves, Pc, HandlerTable
  <2>2. status # "none"
    BY <1>b, <2>1 DEF FreeAtFirst, NoHandler, Pc
  <2> HIDE DEF pc
  <2>3. Stay("provision") /\ Stay("leave_commit")
    BY <2>1, MovesStay
  <2>4. status' = status
    BY <1>7 DEF DropSession
  <2>5. EndingsNoted' /\ OpensInTime'
    <3>1. NoneCome
      BY <2>1 DEF Moves, NoneCome, Pc
    <3> QED
      BY <1>b, <1>7, <3>1, EndingsAside DEF DropSession, SessionClosed
  <2>6. HashLapses' /\ HashKept' /\ GateKept'
    <3>1. status = "live" => raced \/ SessionClosed
      BY <1>b, <1>7 DEF DropSession, EndingsNoted
    <3> QED
      BY <1>b, <1>7, <3>1, HashIdle DEF DropSession, SessionClosed
  <2>7. LeaveKept' /\ OneShotSpaceEnds'
    BY <1>b, <1>7, <2>3, LeaveAside DEF DropSession
  <2> QED
    BY <2>2, <2>4, <2>5, <2>6, <2>7 DEF SpaceKept, FreeAtFirst
<1>8. CASE Admit(h)
  <2>1. Moves(h, "admit", {"free", "token", "seat"})
    BY <1>c, <1>8 DEF Admit, Proceed, Release, Idle, Moves, Pc, HandlerTable
  <2>2. status # "none"
    BY <1>b, <1>8 DEF Admit, FreeAtFirst, NoHandler, Pc
  <2>3. Stay("provision") /\ Stay("leave_commit")
    BY <2>1, MovesStay
  <2>4. status' = status
    BY <1>8 DEF Admit
  <2>5. EndingsNoted' /\ OpensInTime'
    BY <1>b, <1>8, <2>1, MovesNone, EndingsAside DEF Admit, SessionClosed
  <2>6. HashLapses' /\ HashKept' /\ GateKept'
    BY <1>b, <1>8, <2>3, HashAside DEF Admit, SessionClosed
  <2>7. LeaveKept' /\ OneShotSpaceEnds'
    BY <1>b, <1>8, <2>3, LeaveAside DEF Admit
  <2> QED
    BY <2>2, <2>4, <2>5, <2>6, <2>7 DEF SpaceKept, FreeAtFirst
<1>9. CASE SeatMember(h)
  <2>1. Moves(h, "seat", {"free", "refresh"})
    BY <1>c, <1>9 DEF SeatMember, Proceed, Release, Idle, Moves, Pc, HandlerTable
  <2>2. status # "none"
    BY <1>b, <1>9 DEF SeatMember, FreeAtFirst, NoHandler, Pc
  <2>3. Stay("provision") /\ Stay("leave_commit")
    BY <2>1, MovesStay
  <2>4. status' = status
    BY <1>9 DEF SeatMember
  <2>5. EndingsNoted' /\ OpensInTime'
    BY <1>b, <1>9, <2>1, MovesNone, EndingsAside DEF SeatMember, SessionClosed
  <2>6. HashLapses' /\ HashKept' /\ GateKept'
    BY <1>b, <1>9, <2>3, HashAside DEF SeatMember, SessionClosed
  <2>7. LeaveKept' /\ OneShotSpaceEnds'
    <3>1. \A u \in Members : row[u] = "in" => row'[u] = "in"
      BY <1>c, <1>9 DEF SeatMember
    <3> QED
      BY <1>b, <1>9, <2>3, <3>1, LeaveAside DEF SeatMember
  <2> QED
    BY <2>2, <2>4, <2>5, <2>6, <2>7 DEF SpaceKept, FreeAtFirst
<1>10. CASE RefreshExpiry(h)
  <2>1. Moves(h, "refresh", {"token"})
    BY <1>c, <1>10 DEF RefreshExpiry, Proceed, Release, Idle, Moves, Pc, HandlerTable
  <2>2. status # "none"
    BY <1>b, <1>10 DEF RefreshExpiry, FreeAtFirst, NoHandler, Pc
  <2>3. Stay("provision") /\ Stay("leave_commit")
    BY <2>1, MovesStay
  <2>4. status' = status
    BY <1>10 DEF RefreshExpiry
  <2>5. due'.hash = due.hash
    BY <1>c, <1>10 DEF RefreshExpiry, DueFields
  <2>6. raced' \/ (raced' = raced /\ (SessionClosed => SessionClosed'))
    <3>1. raced \in BOOLEAN
      BY <1>b DEF SpaceTypeOK
    <3>2. \/ raced' = (raced \/ SessionClosed)
          \/ UNCHANGED <<status, due, isExpired, raced>>
      BY <1>10 DEF RefreshExpiry, NotesRevival
    <3>3. CASE raced' = (raced \/ SessionClosed)
      BY <3>1, <3>3
    <3>4. CASE UNCHANGED <<status, due, isExpired, raced>>
      BY <3>1, <3>4 DEF SessionClosed
    <3> QED
      BY <3>2, <3>3, <3>4
  <2>7. EndingsNoted' /\ OpensInTime'
    BY <1>b, <2>1, <2>4, <2>5, <2>6, MovesNone, EndingsAside
  <2>8. HashLapses' /\ HashKept' /\ GateKept'
    BY <1>b, <1>10, <2>3, <2>5, <2>6, HashAside DEF RefreshExpiry
  <2>9. LeaveKept' /\ OneShotSpaceEnds'
    BY <1>b, <1>10, <2>3, LeaveAside DEF RefreshExpiry
  <2> QED
    BY <2>2, <2>4, <2>7, <2>8, <2>9 DEF SpaceKept, FreeAtFirst
<1>11. CASE CheckClock(h)
  <2>1. Moves(h, "token", {"free", "restart", "gate"})
    BY <1>c, <1>11 DEF CheckClock, Proceed, Release, Idle, Moves, Pc, HandlerTable
  <2>2. status # "none"
    BY <1>b, <1>11 DEF CheckClock, FreeAtFirst, NoHandler, Pc
  <2>3. Stay("provision") /\ Stay("leave_commit")
    BY <2>1, MovesStay
  <2>4. status' = status
    BY <1>11 DEF CheckClock
  <2>5. EndingsNoted' /\ OpensInTime'
    BY <1>b, <1>11, <2>1, MovesNone, EndingsAside DEF CheckClock, SessionClosed
  <2>6. HashLapses' /\ HashKept' /\ GateKept'
    BY <1>b, <1>11, <2>3, HashAside DEF CheckClock, SessionClosed
  <2>7. LeaveKept' /\ OneShotSpaceEnds'
    BY <1>b, <1>11, <2>3, LeaveAside DEF CheckClock
  <2> QED
    BY <2>2, <2>4, <2>5, <2>6, <2>7 DEF SpaceKept, FreeAtFirst
<1>12. CASE RestartClock(h)
  <2>1. Moves(h, "restart", {"gate"})
    BY <1>c, <1>12 DEF RestartClock, Proceed, Release, Idle, Moves, Pc, HandlerTable
  <2>2. status # "none"
    BY <1>b, <1>12 DEF RestartClock, FreeAtFirst, NoHandler, Pc
  <2>3. Stay("provision") /\ Stay("leave_commit")
    BY <2>1, MovesStay
  <2>4. status' = status
    BY <1>12 DEF RestartClock
  <2>5. due'.hash = due.hash
    BY <1>c, <1>12 DEF RestartClock, DueFields
  <2>6. raced' \/ (raced' = raced /\ (SessionClosed => SessionClosed'))
    <3>1. raced \in BOOLEAN
      BY <1>b DEF SpaceTypeOK
    <3>2. \/ raced' = (raced \/ SessionClosed)
          \/ UNCHANGED <<status, due, isExpired, raced>>
      BY <1>12 DEF RestartClock, NotesRevival
    <3>3. CASE raced' = (raced \/ SessionClosed)
      BY <3>1, <3>3
    <3>4. CASE UNCHANGED <<status, due, isExpired, raced>>
      BY <3>1, <3>4 DEF SessionClosed
    <3> QED
      BY <3>2, <3>3, <3>4
  <2>7. EndingsNoted' /\ OpensInTime'
    BY <1>b, <2>1, <2>4, <2>5, <2>6, MovesNone, EndingsAside
  <2>8. HashLapses' /\ HashKept' /\ GateKept'
    BY <1>b, <1>12, <2>3, <2>5, <2>6, HashAside DEF RestartClock
  <2>9. LeaveKept' /\ OneShotSpaceEnds'
    BY <1>b, <1>12, <2>3, LeaveAside DEF RestartClock
  <2> QED
    BY <2>2, <2>4, <2>7, <2>8, <2>9 DEF SpaceKept, FreeAtFirst
<1>13. CASE PassGate(h)
  <2>1. Moves(h, "gate", {"free"})
    BY <1>c, <1>13 DEF PassGate, Proceed, Release, Idle, Moves, Pc, HandlerTable
  <2>2. status # "none"
    BY <1>b, <1>13 DEF PassGate, FreeAtFirst, NoHandler, Pc
  <2>3. Stay("provision") /\ Stay("leave_commit")
    BY <2>1, MovesStay
  <2>4. status' = status
    BY <1>13 DEF PassGate
  <2>5. EndingsNoted' /\ OpensInTime'
    BY <1>b, <1>13, <2>1, MovesNone, EndingsAside DEF PassGate, SessionClosed
  <2>6. HashLapses' /\ HashKept' /\ GateKept'
    <3>1. early' # early => ~ opened /\ ~ (plan.lead = "host" /\ hash = "closed")
      BY <1>13 DEF PassGate, MayEnter
    <3>2. UNCHANGED <<roomRow, hash, opened, raced>>
      BY <1>13 DEF PassGate
    <3> QED
      BY <1>b, <2>3, <3>1, <3>2 DEF HashLapses, HashKept, GateKept, SessionClosed, Stay, Pc,
         HasCome
  <2>7. LeaveKept' /\ OneShotSpaceEnds'
    BY <1>b, <1>13, <2>3, LeaveAside DEF PassGate
  <2> QED
    BY <2>2, <2>4, <2>5, <2>6, <2>7 DEF SpaceKept, FreeAtFirst
<1>14. CASE OpenMeeting(h)
  <2>1. Moves(h, "open", {"free", "unlock"})
    BY <1>c, <1>14 DEF OpenMeeting, Proceed, Release, Idle, Moves, Pc, HandlerTable
  <2>2. status # "none"
    BY <1>b, <1>14, <2>1 DEF FreeAtFirst, NoHandler, Moves, Pc
  <2>3. Stay("provision") /\ Stay("leave_commit")
    BY <2>1, MovesStay
  <2>4. status' = status
    BY <1>14 DEF OpenMeeting
  <2>5. EndingsNoted' /\ OpensInTime'
    <3>1. CASE hash = "absent"
      <4>1. Moves(h, "open", {"free"})
        BY <1>c, <1>14, <3>1 DEF OpenMeeting, Release, Idle, Moves, Pc, HandlerTable
      <4> QED
        BY <1>b, <1>14, <4>1, MovesNone, EndingsAside DEF OpenMeeting, SessionClosed
    <3>2. CASE hash # "absent"
      <4>1. ~ HasCome(due.hash) /\ UNCHANGED <<roomRow, past>>
        BY <1>b, <1>14, <3>2 DEF HashLapses, OpenMeeting
      <4>2. \A g \in Handlers : handler'[g].pc \in {"drop",
      "drop_again"} => handler'[g] = handler[g]
        BY <2>1 DEF Moves
      <4> QED
        BY <1>b, <4>1, <4>2 DEF EndingsNoted, OpensInTime, DropsHash, SessionClosed, HasCome
    <3> QED
      BY <3>1, <3>2
  <2>6. HashLapses' /\ HashKept' /\ GateKept'
    BY <1>b, <1>14, <2>3, HashAside DEF OpenMeeting, SessionClosed
  <2>7. LeaveKept' /\ OneShotSpaceEnds'
    BY <1>b, <1>14, <2>3, LeaveAside DEF OpenMeeting
  <2> QED
    BY <2>2, <2>4, <2>5, <2>6, <2>7 DEF SpaceKept, FreeAtFirst
<1>23. CASE ClearGate(h)
  <2>1. Moves(h, "unlock", {"free"})
    BY <1>c, <1>23 DEF ClearGate, Proceed, Release, Idle, Moves, Pc, HandlerTable
  <2>2. status # "none"
    BY <1>b, <1>23, <2>1 DEF FreeAtFirst, NoHandler, Moves, Pc
  <2>3. Stay("provision") /\ Stay("leave_commit")
    BY <2>1, MovesStay
  <2>4. status' = status
    BY <1>23 DEF ClearGate
  <2>8. /\ hash' = "open" /\ due'.hash = HashTTL /\ opened' = TRUE
        /\ due'.expiry = due.expiry /\ UNCHANGED <<plan, status, isExpired, early, raced>>
    BY <1>c, <1>23 DEF ClearGate, DueFields
  <2>9. ~ HasCome(due.hash) /\ ~ HasCome(due'.hash)
    BY <1>b, <1>23, <2>8, SpaceAssumption DEF ClearGate, OpensInTime, HasCome, HashTTL
  <2>5. EndingsNoted' /\ OpensInTime'
    <3>1. NoneCome
      BY <2>1, MovesNone
    <3> QED
      BY <1>b, <2>8, <2>9, <3>1
         DEF EndingsNoted, OpensInTime, NoneCome, DropsHash, SessionClosed, HasCome
  <2>6. HashLapses' /\ HashKept' /\ GateKept'
    BY <1>b, <2>3, <2>8, <2>9 DEF HashLapses, HashKept, GateKept, SessionClosed, Stay, Pc
  <2>7. LeaveKept' /\ OneShotSpaceEnds'
    BY <1>b, <1>23, <2>3, LeaveAside DEF ClearGate
  <2> QED
    BY <2>2, <2>4, <2>5, <2>6, <2>7 DEF SpaceKept, FreeAtFirst
<1>24. CASE LeaveLobby(h)
  <2>1. Moves(h, "lobby", {"free"})
    BY <1>c, <1>24 DEF LeaveLobby, Proceed, Release, Idle, Moves, Pc, HandlerTable
  <2>2. status # "none"
    BY <1>b, <1>24, <2>1 DEF FreeAtFirst, NoHandler, Moves, Pc
  <2>3. Stay("provision") /\ Stay("leave_commit")
    BY <2>1, MovesStay
  <2>4. status' = status
    BY <1>24 DEF LeaveLobby
  <2>8. due'.hash = due.hash /\ due'.expiry = due.expiry
    BY <1>c, <1>24 DEF LeaveLobby, GoneAt, DueFields
  <2>5. EndingsNoted' /\ OpensInTime'
    BY <1>b, <1>24, <2>1, <2>8, MovesNone, EndingsAside DEF LeaveLobby, SessionClosed
  <2>6. HashLapses' /\ HashKept' /\ GateKept'
    BY <1>b, <1>24, <2>3, <2>8, HashAside DEF LeaveLobby, SessionClosed
  <2>7. LeaveKept' /\ OneShotSpaceEnds'
    <3>1. parted' = IF parted = "together" \/ LeavesOpen THEN "together" ELSE "removed"
      BY <1>24 DEF LeaveLobby, Part
    <3> QED
      BY <2>3, <3>1 DEF LeaveKept, OneShotSpaceEnds, LeavesOpen, Stay, Pc
  <2> QED
    BY <2>2, <2>4, <2>5, <2>6, <2>7 DEF SpaceKept, FreeAtFirst
<1>15. CASE LeaveTx(h)
  <2>1. Moves(h, "leave", {"leave_commit"})
    BY <1>c, <1>15 DEF LeaveTx, Proceed, Release, Idle, Moves, Pc, HandlerTable
  <2>2. status # "none"
    BY <1>b, <1>15 DEF LeaveTx, FreeAtFirst, NoHandler, Pc
  <2>3. Stay("provision")
    BY <2>1, MovesStay
  <2>4. status' = status
    BY <1>15 DEF LeaveTx
  <2>5. EndingsNoted' /\ OpensInTime'
    BY <1>b, <1>15, <2>1, MovesNone, EndingsAside DEF LeaveTx, SessionClosed
  <2>6. HashLapses' /\ HashKept' /\ GateKept'
    BY <1>b, <1>15, <2>3, HashAside DEF LeaveTx, SessionClosed
  <2>7. LeaveKept' /\ OneShotSpaceEnds'
    <3>1. /\ UNCHANGED <<plan, status, row>>
          /\ parted' = IF LeavesOpen THEN "together" ELSE parted
          /\ handler'[h].flag = (Active \subseteq {handler[h].user})
      BY <1>c, <1>15 DEF LeaveTx, HandlerTable
    <3>2. LeaveKept'
      BY <2>1, <3>1 DEF LeaveKept, LeavesOpen, Moves, Pc, Active
    <3>3. OneShotSpaceEnds'
      BY <1>b, <3>1 DEF OneShotSpaceEnds, Active
    <3> QED
      BY <3>2, <3>3
  <2> QED
    BY <2>2, <2>4, <2>5, <2>6, <2>7 DEF SpaceKept, FreeAtFirst
<1>16. CASE LeaveCommit(h)
  <2>1. Moves(h, "leave_commit", {"free", "drop"})
    BY <1>c, <1>16 DEF LeaveCommit, Proceed, Release, Idle, Moves, Pc, HandlerTable
  <2>2. status # "none"
    BY <1>b, <1>16 DEF LeaveCommit, FreeAtFirst, NoHandler, Pc
  <2>3. Stay("provision")
    BY <2>1, MovesStay
  <2>4. due'.hash = due.hash /\ hash' = hash /\ raced' = raced
    BY <1>c, <1>16 DEF LeaveCommit, DueFields
  <2>5. \/ status' = "ended"
        \/ /\ UNCHANGED <<status, isExpired>> /\ handler'[h].pc = "free"
           /\ due'.expiry = due.expiry
           /\ ~ (handler[h].flag /\ plan.oneShot /\ status = "live")
    BY <1>c, <1>16 DEF LeaveCommit, DueFields, Release, Idle, HandlerTable
  <2>6. status' # "none"
    BY <2>2, <2>5
  <2>7. EndingsNoted' /\ OpensInTime'
    <3>1. CASE status' = "ended"
      BY <1>b, <2>1, <2>4, <3>1, EndingsFound
    <3>2. CASE status' # "ended"
      <4>1. Moves(h, "leave_commit", {"free"})
        BY <2>1, <2>5, <3>2 DEF Moves
      <4> QED
        BY <1>b, <2>4, <2>5, <3>2, <4>1, MovesNone, EndingsAside DEF SessionClosed
    <3> QED
      BY <3>1, <3>2
  <2>8. HashLapses' /\ HashKept' /\ GateKept'
    <3>1. CASE status' = "ended"
      BY <1>b, <2>4, <3>1, HashIdle
    <3>2. CASE status' # "ended"
      BY <1>b, <1>16, <2>3, <2>4, <2>5, <3>2, HashAside DEF LeaveCommit, SessionClosed
    <3> QED
      BY <3>1, <3>2
  <2>9. LeaveKept' /\ OneShotSpaceEnds'
    <3>1. /\ plan' = plan /\ \A v \in Members : v # handler[h].user => row'[v] = row[v]
          /\ parted' = IF parted = "together" THEN "together" ELSE "left"
      BY <1>c, <1>16 DEF LeaveCommit, Part
    <3>2. LeaveKept'
      BY <1>b, <2>1, <2>5, <3>1 DEF LeaveKept, Moves, Pc, Active
    <3>3. OneShotSpaceEnds'
      BY <1>b, <2>1, <2>5, <3>1 DEF OneShotSpaceEnds, LeaveKept, Moves, Pc, Active
    <3> QED
      BY <3>2, <3>3
  <2> QED
    BY <2>2, <2>6, <2>7, <2>8, <2>9 DEF SpaceKept, FreeAtFirst
<1>17. CASE KickOut(h)
  <2>1. Moves(h, "kick", {"uninvite"})
    BY <1>c, <1>17 DEF KickOut, Proceed, Release, Idle, Moves, Pc, HandlerTable
  <2>2. status # "none"
    BY <1>b, <1>17 DEF KickOut, FreeAtFirst, NoHandler, Pc
  <2>3. Stay("provision") /\ Stay("leave_commit")
    BY <2>1, MovesStay
  <2>4. status' = status
    BY <1>17 DEF KickOut
  <2>8. due'.hash = due.hash /\ due'.expiry = due.expiry
    BY <1>c, <1>17 DEF KickOut, GoneAt, DueFields
  <2>5. EndingsNoted' /\ OpensInTime'
    BY <1>b, <1>17, <2>1, <2>8, MovesNone, EndingsAside DEF KickOut, SessionClosed
  <2>6. HashLapses' /\ HashKept' /\ GateKept'
    BY <1>b, <1>17, <2>3, <2>8, HashAside DEF KickOut, SessionClosed
  <2>7. LeaveKept' /\ OneShotSpaceEnds'
    <3>1. parted' = IF parted = "together" \/ LeavesOpen THEN "together" ELSE "removed"
      BY <1>17 DEF KickOut, Part
    <3> QED
      BY <2>3, <3>1 DEF LeaveKept, OneShotSpaceEnds, LeavesOpen, Stay, Pc
  <2> QED
    BY <2>2, <2>4, <2>5, <2>6, <2>7 DEF SpaceKept, FreeAtFirst
<1>18. CASE Uninvite(h)
  <2>1. Moves(h, "uninvite", {"free", "restrict"})
    BY <1>c, <1>18 DEF Uninvite, Proceed, Release, Idle, Moves, Pc, HandlerTable
  <2>2. status # "none"
    BY <1>b, <1>18 DEF Uninvite, FreeAtFirst, NoHandler, Pc
  <2>3. Stay("provision") /\ Stay("leave_commit")
    BY <2>1, MovesStay
  <2>4. status' = status
    BY <1>18 DEF Uninvite
  <2>5. EndingsNoted' /\ OpensInTime'
    BY <1>b, <1>18, <2>1, MovesNone, EndingsAside DEF Uninvite, SessionClosed
  <2>6. HashLapses' /\ HashKept' /\ GateKept'
    BY <1>b, <1>18, <2>3, HashAside DEF Uninvite, SessionClosed
  <2>7. LeaveKept' /\ OneShotSpaceEnds'
    BY <1>b, <1>18, <2>3, LeaveAside DEF Uninvite
  <2> QED
    BY <2>2, <2>4, <2>5, <2>6, <2>7 DEF SpaceKept, FreeAtFirst
<1>19. CASE Restrict(h)
  <2>1. Moves(h, "restrict", {"free"})
    BY <1>c, <1>19 DEF Restrict, Proceed, Release, Idle, Moves, Pc, HandlerTable
  <2>2. status # "none"
    BY <1>b, <1>19 DEF Restrict, FreeAtFirst, NoHandler, Pc
  <2>3. Stay("provision") /\ Stay("leave_commit")
    BY <2>1, MovesStay
  <2>4. status' = status
    BY <1>19 DEF Restrict
  <2>5. EndingsNoted' /\ OpensInTime'
    BY <1>b, <1>19, <2>1, MovesNone, EndingsAside DEF Restrict, SessionClosed
  <2>6. HashLapses' /\ HashKept' /\ GateKept'
    BY <1>b, <1>19, <2>3, HashAside DEF Restrict, SessionClosed
  <2>7. LeaveKept' /\ OneShotSpaceEnds'
    BY <1>b, <1>19, <2>3, LeaveAside DEF Restrict
  <2> QED
    BY <2>2, <2>4, <2>5, <2>6, <2>7 DEF SpaceKept, FreeAtFirst
<1> QED
  BY <1>1, <1>2, <1>3, <1>4, <1>5, <1>6, <1>7, <1>8, <1>9, <1>10, <1>11, <1>12, <1>13,
     <1>14, <1>15, <1>16, <1>17, <1>18, <1>19, <1>20, <1>21, <1>22, <1>23, <1>24
  DEF SpaceStep

\* Requests, the sweep, time and crashes keep the invariant.
LEMMA SpaceArrivalsKept ==
  ASSUME SpaceTypeOK, SpaceKept,
         \/ \E h \in Handlers : HostEnds(h) \/ Sweep(h) \/ View(h) \/ ListSpaces(h)
         \/ \E h \in Handlers, p \in Plans, friends \in {{}, Guests} : CreateSpace(h, p, friends)
         \/ \E h \in Handlers, u \in Members : Leave(h, u)
         \/ \E h \in Handlers, op \in {"start", "open", "join", "token"}, u \in Members :
              Arrive(h, op, u)
         \/ \E h \in Handlers, u \in Guests, restrict \in BOOLEAN : Kick(h, u, restrict)
         \/ CancelSpace \/ Hour \/ ServerStops
         \/ \E start \in 1..2, end \in {3, None} : Reschedule(start, end)
  PROVE  SpaceKept'
<1> USE DEF roomRow, people, past
<1>b. /\ FreeAtFirst /\ EndingsNoted /\ OpensInTime /\ HashLapses /\ HashKept /\ GateKept
      /\ LeaveKept /\ OneShotSpaceEnds
      /\ SpaceTypeOK /\ SpaceKept
  BY DEF SpaceKept
<1>c. /\ handler \in HandlerTable
      /\ due \in [DueFields -> Hours \cup {None}]
      /\ row \in [Members -> {"absent", "in", "left"}]
  BY SpaceTyped
\* A handler that begins, or none.
<1>d. ASSUME NEW h \in Handlers, NEW to \in HandlerPcs \ {"provision", "leave_commit", "unlock"},
             NEW op, NEW u, NEW flag, Serve(h, to, op, u, flag)
      PROVE  /\ Stay("provision") /\ Stay("leave_commit")
             /\ to \notin {"drop", "drop_again"} => NoneCome
             /\ \A g \in Handlers : handler'[g].pc = "unlock" => handler[g].pc = "unlock"
  BY <1>c, <1>d DEF Serve, Stay, Pc, HandlerTable, NoneCome
<1>e. ASSUME UNCHANGED handler
      PROVE  Stay("provision") /\ Stay("leave_commit") /\ NoneCome
  BY <1>e DEF Stay, NoneCome
\* A request that only reads keeps the invariant.
<1>f. ASSUME NEW h \in Handlers, NEW to \in HandlerPcs \ {"provision", "leave_commit", "unlock"},
             NEW op, NEW u, NEW flag, Serve(h, to, op, u, flag), status # "none",
             UNCHANGED <<plan, status, due, people, hash, past>>,
             SessionClosed => SessionClosed',
             to \in {"drop", "drop_again"} => SessionClosed'
      PROVE  SpaceKept'
  <2>1. EndingsNoted' /\ OpensInTime'
    <3>1. CASE to \in {"drop", "drop_again"}
      BY <1>b, <1>d, <1>f, <3>1 DEF EndingsNoted, OpensInTime, Pc
    <3>2. CASE to \notin {"drop", "drop_again"}
      BY <1>b, <1>d, <1>f, <3>2, EndingsAside
    <3> QED
      BY <3>1, <3>2
  <2>2. HashLapses' /\ HashKept' /\ GateKept'
    BY <1>b, <1>d, <1>f, HashAside
  <2>3. LeaveKept' /\ OneShotSpaceEnds'
    BY <1>b, <1>d, <1>f, LeaveAside
  <2> QED
    BY <1>f, <2>1, <2>2, <2>3 DEF SpaceKept, FreeAtFirst
<1>1. ASSUME NEW h \in Handlers, NEW p \in Plans, NEW friends \in {{}, Guests},
             CreateSpace(h, p, friends)
      PROVE  SpaceKept'
  <2>1. /\ row'[Host] = "in" /\ Host \in Members
        /\ due'.hash = due.hash /\ hash' = hash
    BY <1>c, <1>1 DEF CreateSpace, Members, DueFields
  <2>2. /\ status = "none"
        /\ \/ status' = "scheduled" /\ UNCHANGED handler
           \/ status' = "live" /\ Serve(h, "provision", "create", Host, FALSE)
    BY <1>1 DEF CreateSpace
  <2>3. \A g \in Handlers : handler'[g].pc \in {"free", "provision"}
    BY <1>b, <1>c, <2>2 DEF Serve, FreeAtFirst, NoHandler, Pc, HandlerTable
  <2>4. status' = "scheduled" \/ (status' = "live" /\ handler'[h].pc = "provision")
    BY <1>c, <2>2 DEF Serve, HandlerTable
  <2>5. FreeAtFirst' /\ EndingsNoted' /\ OpensInTime'
    BY <2>3, <2>4 DEF FreeAtFirst, EndingsNoted, OpensInTime, DropsHash, Pc
  <2>6. HashLapses' /\ HashKept' /\ GateKept'
    BY <1>b, <2>1, <2>4 DEF HashLapses, HashKept, GateKept, HasCome, Pc
  <2>7. LeaveKept' /\ OneShotSpaceEnds'
    BY <2>1, <2>3 DEF LeaveKept, OneShotSpaceEnds, Active, Pc
  <2> QED
    BY <2>5, <2>6, <2>7 DEF SpaceKept
<1>2. ASSUME NEW h \in Handlers, NEW op \in {"start", "open", "join", "token"}, NEW u \in Members,
             Arrive(h, op, u)
      PROVE  SpaceKept'
  <2> DEFINE to == IF op \in {"join", "token"} THEN "auto_start" ELSE "reconcile"
  <2>1. /\ to \in HandlerPcs \ {"provision", "leave_commit", "unlock", "drop", "drop_again"}
        /\ Serve(h, to, op, u, FALSE)
        /\ status # "none" /\ UNCHANGED <<roomRow, people, hash, past>>
    BY <1>2 DEF Arrive, HandlerPcs
  <2> HIDE DEF to
  <2> QED
    BY <1>f, <2>1 DEF SessionClosed
<1>3. ASSUME NEW h \in Handlers, HostEnds(h) PROVE SpaceKept'
  <2>1. \/ SessionClosed /\ Serve(h, "drop", "end", Host, FALSE)
        \/ Serve(h, "end", "end", Host, FALSE)
    BY <1>3 DEF HostEnds
  <2>2. status # "none" /\ UNCHANGED <<roomRow, people, hash, past>>
    BY <1>3 DEF HostEnds
  <2> QED
    BY <1>f, <2>1, <2>2 DEF HandlerPcs, SessionClosed
<1>4. ASSUME NEW h \in Handlers, Sweep(h) \/ View(h) PROVE SpaceKept'
  <2>1. \E op \in HandlerOps : Serve(h, "reconcile", op, None, FALSE)
    BY <1>4 DEF Sweep, View, HandlerOps
  <2>2. status # "none" /\ UNCHANGED <<roomRow, people, hash, past>>
    BY <1>4 DEF Sweep, View, SweepCandidate, GraceMissed
  <2> QED
    BY <1>f, <2>1, <2>2 DEF HandlerPcs, SessionClosed
<1>5. ASSUME NEW h \in Handlers, NEW u \in Members, Leave(h, u) PROVE SpaceKept'
  <2>1. \/ SessionClosed /\ Serve(h, "drop", "leave", u, FALSE)
        \/ \E to \in {"lobby", "leave"} : Serve(h, to, "leave", u, FALSE)
    BY <1>5 DEF Leave
  <2>2. status # "none" /\ UNCHANGED <<roomRow, people, hash, past>>
    BY <1>5 DEF Leave
  <2> QED
    BY <1>f, <2>1, <2>2 DEF HandlerPcs, SessionClosed
<1>6. ASSUME NEW h \in Handlers, NEW u \in Guests, NEW restrict \in BOOLEAN, Kick(h, u, restrict)
      PROVE  SpaceKept'
  <2>1. status # "none" /\ UNCHANGED <<roomRow, people, hash, past>>
    BY <1>6 DEF Kick
  <2>2. CASE UNCHANGED handler
    <3>1. EndingsNoted' /\ OpensInTime'
      BY <1>b, <1>e, <2>1, <2>2, EndingsAside DEF SessionClosed
    <3>2. HashLapses' /\ HashKept' /\ GateKept'
      BY <1>b, <1>e, <2>1, <2>2, HashAside DEF SessionClosed
    <3>3. LeaveKept' /\ OneShotSpaceEnds'
      BY <1>b, <1>e, <2>1, <2>2, LeaveAside
    <3> QED
      BY <2>1, <3>1, <3>2, <3>3 DEF SpaceKept, FreeAtFirst
  <2>3. CASE Serve(h, "kick", "kick", u, restrict)
    BY <1>f, <2>1, <2>3 DEF HandlerPcs, SessionClosed
  <2> QED
    BY <1>6, <2>2, <2>3 DEF Kick
<1>7. ASSUME NEW h \in Handlers, ListSpaces(h) PROVE SpaceKept'
  <2>1. /\ status # "none" /\ UNCHANGED <<plan, status, due, people, hash, past>>
        /\ isExpired' = TRUE /\ Serve(h, "drop", "list", None, FALSE)
    BY <1>7 DEF ListSpaces
  <2> QED
    BY <1>f, <2>1 DEF HandlerPcs, SessionClosed
<1>8. ASSUME CancelSpace \/ \E start \in 1..2, end \in {3, None} : Reschedule(start, end)
      PROVE  SpaceKept'
  <2>1. /\ status' \in {"scheduled", "cancelled"}
        /\ due'.hash = due.hash /\ hash' = hash
    BY <1>c, <1>8 DEF CancelSpace, Reschedule, DueFields
  <2>2. FreeAtFirst' /\ EndingsNoted' /\ OpensInTime' /\ LeaveKept' /\ OneShotSpaceEnds'
    <3>1. UNCHANGED handler
      BY <1>8 DEF CancelSpace, Reschedule
    <3> QED
      BY <1>b, <2>1, <3>1
         DEF FreeAtFirst, EndingsNoted, OpensInTime, LeaveKept, OneShotSpaceEnds, Pc, HasCome
  <2>3. HashLapses' /\ HashKept' /\ GateKept'
    BY <1>b, <2>1, HashIdle
  <2> QED
    BY <2>2, <2>3 DEF SpaceKept
<1>9. CASE Hour
  <2>1. /\ status # "none" /\ UNCHANGED <<plan, status, isExpired, people, handler, past>>
        /\ hash' = IF HasCome(due'.hash) THEN "absent" ELSE hash
    BY <1>9 DEF Hour
  <2>2. EndingsNoted' /\ OpensInTime'
    <3>1. \A g \in Handlers : handler[g].pc = "free"
      BY <1>9 DEF Hour, NoHandler, Pc
    <3> QED
      BY <2>1, <3>1 DEF EndingsNoted, OpensInTime, DropsHash, Pc
  <2>3. LeaveKept' /\ OneShotSpaceEnds'
    BY <1>b, <1>e, <2>1, LeaveAside
  <2>4. /\ HasCome(due.hash) => HasCome(due'.hash)
        /\ SessionClosed => SessionClosed'
    <3>1. due' = [k \in DueFields |-> Later(due[k])]
      BY <1>c, <1>9 DEF Hour
    <3>2. due'.hash = Later(due.hash) /\ due'.expiry = Later(due.expiry)
      BY <3>1 DEF DueFields
    <3>3. due.hash \in Hours \cup {None} /\ due.expiry \in Hours \cup {None}
      BY <1>c DEF DueFields
    <3> QED
      BY <2>1, <3>2, <3>3, LaterStays DEF SessionClosed
  <2>5. HashLapses' /\ HashKept' /\ GateKept'
    BY <1>b, <2>1, <2>4 DEF HashLapses, HashKept, GateKept, Pc
  <2> QED
    BY <2>1, <2>2, <2>3, <2>5 DEF SpaceKept, FreeAtFirst
<1>10. CASE ServerStops
  <2>1. /\ UNCHANGED <<plan, status, due, row, hash, parted>> /\ raced' = TRUE
        /\ \A g \in Handlers : handler'[g].pc = "free"
    BY <1>10 DEF ServerStops, Idle
  <2>2. FreeAtFirst' /\ EndingsNoted' /\ OpensInTime' /\ LeaveKept' /\ OneShotSpaceEnds'
    BY <1>b, <2>1 DEF FreeAtFirst, NoHandler, EndingsNoted, OpensInTime, LeaveKept,
                      OneShotSpaceEnds, Pc, Active
  <2>3. HashLapses' /\ HashKept' /\ GateKept'
    BY <1>b, <2>1, HashIdle
  <2> QED
    BY <2>2, <2>3 DEF SpaceKept
<1> QED
  BY <1>1, <1>2, <1>3, <1>4, <1>5, <1>6, <1>7, <1>8, <1>9, <1>10

-----------------------------------------------------------------------------
\* The invariant holds before the space is made.
LEMMA SpaceKeptInit == SpaceInit => SpaceKept
BY DEF SpaceInit, SpaceKept, FreeAtFirst, NoHandler, EndingsNoted, OpensInTime, DropsHash,
   HashLapses, HashKept,
       GateKept, LeaveKept, OneShotSpaceEnds, HasCome, Pc, Idle, NoPlan

\* Every step keeps the invariant, of a state that has its shape.
LEMMA SpaceKeptNext ==
  ASSUME SpaceTypeOK, SpaceKept, [SpaceNext]_spaceVars
  PROVE  SpaceKept'
<1>1. CASE UNCHANGED spaceVars
  BY <1>1 DEF spaceVars, SpaceKept, FreeAtFirst, NoHandler, EndingsNoted, OpensInTime, DropsHash,
     HashLapses, HashKept,
              GateKept, LeaveKept, OneShotSpaceEnds, HasCome, Pc, Active, SessionClosed, IsOver
<1>2. CASE \E h \in Handlers : SpaceStep(h)
  BY <1>2, SpaceStepKept
<1>3. CASE SpaceNext /\ ~ \E h \in Handlers : SpaceStep(h)
  BY <1>3, SpaceArrivalsKept DEF SpaceNext
<1> QED
  BY <1>1, <1>2, <1>3

\* In every behaviour the hash, the gate and the leaves are in order.
THEOREM SpaceKeptHolds == SpaceSpec => []SpaceKept
<1>1. SpaceInit => SpaceKept
  BY SpaceKeptInit
<1>2. SpaceTypeOK /\ SpaceKept /\ [SpaceNext]_spaceVars => SpaceKept'
  BY SpaceKeptNext
<1>3. SpaceShape => SpaceTypeOK
  BY DEF SpaceShape
<1> QED
  BY <1>1, <1>2, <1>3, SpaceShapeHolds, PTL DEF SpaceSpec

\* The host can open a live space: its session hash is there until its TTL is
\* over, but for a start between a handler's look at the space and its DEL of the
\* hash, a crash, or a session that was over and was brought back
\* (provisionSessionRoomRedis, deleteSessionRoomRedis).
THEOREM LiveHasHash == SpaceSpec => []LiveSpaceHasHash
<1>1. SpaceKept => LiveSpaceHasHash
  BY DEF SpaceKept, HashKept, LiveSpaceHasHash, NoHandler, Pc
<1> QED
  BY <1>1, SpaceKeptHolds, PTL

\* Nobody enters a host-led space before its host opens this session of it
\* (openSpaceMeetingService, issueRtcTokenService).
THEOREM GuestsWait == SpaceSpec => []GuestsWaitForHost
<1>1. SpaceKept => GuestsWaitForHost
  BY DEF SpaceKept, GateKept, GuestsWaitForHost
<1> QED
  BY <1>1, SpaceKeptHolds, PTL

\* When the last one has left a one-shot space, it is over, unless two left in
\* one instant, or the last one was removed or left by way of the lobby
\* (leaveAndMaybeEndRoomTx, markParticipantLeft).
THEOREM OneShotEnds == SpaceSpec => []OneShotSpaceEnds
<1>1. SpaceKept => OneShotSpaceEnds
  BY DEF SpaceKept
<1> QED
  BY <1>1, SpaceKeptHolds, PTL

=============================================================================
