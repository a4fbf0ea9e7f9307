------------------------- MODULE SpaceSessionProofs -------------------------
(***************************************************************************)
(* Proofs about a space, for any accounts, plans, handler slots and        *)
(* bounds: rows and locals keep their type, the status goes through one    *)
(* lifecycle, and whoever may not come back stays out.                     *)
(***************************************************************************)
EXTENDS SpaceSessionProperties, TLAPS

\* The handlers that name no member, and where they can be: the sweep, the list
\* of spaces and GET /room.
Unnamed == {"sweep", "list", "view", "peek"}
SweepPcs == {"reconcile", "expire", "presence", "recheck", "end", "end_tx", "drop",
             "drop_again"}

\* A running handler serves a member or nobody; only guests are removed.
HandlersServe ==
  \A h \in Handlers : ~ Pc(h, "free") =>
    /\ handler[h].op \in HandlerOps
    /\ handler[h].op \notin Unnamed => handler[h].user \in Members
    /\ handler[h].op \in Unnamed => handler[h].pc \in SweepPcs
    /\ handler[h].pc \in {"kick", "uninvite", "restrict"} => handler[h].user \in Guests

\* A scheduled space has a slot.
ScheduledIsBooked == status = "scheduled" => Booked

SpaceShape == SpaceTypeOK /\ HandlersServe /\ ScheduledIsBooked

-----------------------------------------------------------------------------
(* Hours                                                                    *)

\* A slot that begins within the bound ends within the bound.
LEMMA SlotEndType ==
  ASSUME NEW start \in StartHours \cup {None}, NEW end \in Hours \cup {None},
         NEW window \in {1, 2, None}
  PROVE  SlotEnd(start, end, window) \in Hours \cup {None}
BY SpaceAssumption DEF SlotEnd, Earliest, After, Hours, StartHours, PastBound

\* The deadlines the code computes from the row are within the bound.
LEMMA DeadlineTypes ==
  ASSUME SpaceTypeOK
  PROVE  /\ ListingEnd("live") \in Hours \cup {None}
         /\ ListingEnd("scheduled") \in Hours \cup {None}
         /\ LiveEnd \in Hours
<1>1. /\ due.start \in StartHours \cup {None} /\ due.end \in Hours \cup {None}
      /\ plan.window \in {1, 2, None}
  BY DEF SpaceTypeOK, PlanSpace
<1>2. CalendarEnd \in Hours \cup {None}
  BY <1>1, SpaceAssumption DEF CalendarEnd, WindowEnd, After, Hours, StartHours, PastBound
<1>3. LiveEnd \in Hours
  BY <1>2, SpaceAssumption DEF LiveEnd, Earliest, SessionCap, Hours, PastBound
<1> QED
  BY <1>1, <1>3, SlotEndType DEF ListingEnd

\* An hour later is within the bound.
LEMMA LaterType ==
  /\ \A t \in Hours \cup {None} : Later(t) \in Hours \cup {None} /\ (Later(t) = None <=> t = None)
  /\ \A t \in StartHours \cup {None} : Later(t) \in StartHours \cup {None}
BY SpaceAssumption DEF Later, Hours, StartHours, PastBound

-----------------------------------------------------------------------------
(* What a step does to the table of handlers                                *)

\* A handler that goes on serves the same member.
LEMMA ProceedServes ==
  ASSUME SpaceShape, NEW h \in Handlers, ~ Pc(h, "free"), NEW pc \in HandlerPcs \ {"free"},
         Proceed(h, pc),
         handler[h].op \in Unnamed => pc \in SweepPcs,
         pc \in {"kick", "uninvite", "restrict"} => handler[h].user \in Guests
  PROVE  handler' \in HandlerTable /\ HandlersServe'
<1>1. handler \in HandlerTable
  BY DEF SpaceShape, SpaceTypeOK
<1>2. handler' \in HandlerTable
  BY <1>1 DEF Proceed, HandlerTable
<1>3. /\ \A g \in Handlers \ {h} : handler'[g] = handler[g]
      /\ handler'[h].pc = pc /\ handler'[h].op = handler[h].op /\ handler'[h].user = handler[h].user
  BY <1>1 DEF Proceed, HandlerTable
<1> QED
  BY <1>2, <1>3 DEF SpaceShape, HandlersServe, Pc

\* A handler that is done serves nobody.
LEMMA ReleaseServes ==
  ASSUME SpaceShape, NEW h \in Handlers, Release(h)
  PROVE  handler' \in HandlerTable /\ HandlersServe'
<1>1. handler \in HandlerTable
  BY DEF SpaceShape, SpaceTypeOK
<1>2. handler' \in HandlerTable
  BY <1>1 DEF Release, Idle, HandlerTable, HandlerPcs
<1>3. handler'[h].pc = "free" /\ \A g \in Handlers \ {h} : handler'[g] = handler[g]
  BY <1>1 DEF Release, Idle, HandlerTable
<1> QED
  BY <1>2, <1>3 DEF SpaceShape, HandlersServe, Pc

\* A handler that begins serves a member, or is the sweep's.
LEMMA ServeServes ==
  ASSUME SpaceShape, NEW h \in Handlers, NEW pc \in HandlerPcs \ {"free"}, NEW op \in HandlerOps,
         NEW u \in Members \cup {None}, NEW flag \in BOOLEAN, Serve(h, pc, op, u, flag),
         op \notin Unnamed => u \in Members,
         op \in Unnamed => pc \in SweepPcs,
         pc \in {"kick", "uninvite", "restrict"} => u \in Guests
  PROVE  handler' \in HandlerTable /\ HandlersServe'
<1>1. handler \in HandlerTable
  BY DEF SpaceShape, SpaceTypeOK
<1>2. handler' \in HandlerTable
  BY <1>1 DEF Serve, HandlerTable
<1>3. /\ \A g \in Handlers \ {h} : handler'[g] = handler[g]
      /\ handler'[h].pc = pc /\ handler'[h].op = op /\ handler'[h].user = u
  BY <1>1 DEF Serve, HandlerTable
<1> QED
  BY <1>2, <1>3 DEF SpaceShape, HandlersServe, Pc

\* The invariant holds before the space is made.
LEMMA SpaceShapeInit == SpaceInit => SpaceShape
<1> SUFFICES ASSUME SpaceInit PROVE SpaceShape
  OBVIOUS
<1>1. SpaceTypeOK
  <2>1. plan \in PlanSpace
    BY DEF SpaceInit, NoPlan, PlanSpace
  <2>2. handler \in HandlerTable
    BY DEF SpaceInit, Idle, HandlerTable, HandlerPcs
  <2>3. /\ due \in [{"start", "end", "live", "expiry", "left", "hash"} -> Hours \cup {None}]
        /\ due.start \in StartHours \cup {None}
    BY DEF SpaceInit
  <2> QED
    BY <2>1, <2>2, <2>3 DEF SpaceInit, SpaceTypeOK
<1>2. HandlersServe
  BY DEF SpaceInit, HandlersServe, Pc, Idle
<1>3. ScheduledIsBooked
  BY DEF SpaceInit, ScheduledIsBooked
<1> QED
  BY <1>1, <1>2, <1>3 DEF SpaceShape

-----------------------------------------------------------------------------
(* Every step keeps the invariant.                                          *)

Served == handler' \in HandlerTable /\ HandlersServe'

\* A step that releases its handler or goes on, the sweep only to its places.
LEMMA StepServes ==
  ASSUME SpaceShape, NEW h \in Handlers, ~ Pc(h, "free"),
         NEW Next \in SUBSET (HandlerPcs \ {"free", "kick", "uninvite", "restrict"}),
         Release(h) \/ \E pc \in Next : Proceed(h, pc),
         handler[h].op \in Unnamed => Release(h) \/ \E pc \in Next \cap SweepPcs : Proceed(h, pc)
  PROVE  Served
<1>1. CASE Release(h)
  BY <1>1, ReleaseServes DEF Served
<1>2. CASE ~ Release(h)
  BY <1>2, ProceedServes DEF Served
<1> QED
  BY <1>1, <1>2

\* A step that notes a flag as it goes on.
LEMMA FlagServes ==
  ASSUME SpaceShape, NEW h \in Handlers, ~ Pc(h, "free"),
         NEW pc \in {"seat", "leave_commit", "presence"}, NEW flag \in BOOLEAN,
         handler[h].op \in Unnamed => pc \in SweepPcs,
         handler' = [handler EXCEPT ![h].pc = pc, ![h].flag = flag]
  PROVE  Served
<1>1. handler \in HandlerTable /\ pc \in HandlerPcs
  BY DEF SpaceShape, SpaceTypeOK, HandlerPcs
<1>2. handler' \in HandlerTable
  BY <1>1 DEF HandlerTable
<1>3. /\ \A g \in Handlers \ {h} : handler'[g] = handler[g]
      /\ handler'[h].pc = pc /\ handler'[h].op = handler[h].op /\ handler'[h].user = handler[h].user
  BY <1>1 DEF HandlerTable
<1> QED
  BY <1>2, <1>3 DEF SpaceShape, HandlersServe, Pc, Served

\* A new session keeps the types.
LEMMA GoLiveTypes ==
  ASSUME SpaceTypeOK, GoLive
  PROVE  /\ status' = "live" /\ isExpired' \in BOOLEAN
         /\ due' \in [{"start", "end", "live", "expiry", "left", "hash"} -> Hours \cup {None}]
         /\ due'.start \in StartHours \cup {None}
         /\ opened' \in BOOLEAN /\ early' \in SUBSET Members /\ raced' \in BOOLEAN
         /\ parted' \in {"left", "removed", "together", None}
<1>1. 0 \in Hours /\ ListingEnd("live") \in Hours \cup {None}
  BY DeadlineTypes DEF Hours, PastBound
<1> QED
  BY <1>1 DEF GoLive, SpaceTypeOK, IsOver

\* Every step of a handler keeps the invariant.
LEMMA SpaceStepKeeps ==
  ASSUME SpaceShape, NEW h \in Handlers, SpaceStep(h)
  PROVE  SpaceShape'
<1> USE DEF roomRow, people, past
<1>a. SpaceTypeOK /\ handler \in HandlerTable
  BY DEF SpaceShape, SpaceTypeOK
<1>b. ~ Pc(h, "free") => /\ handler[h].op \in Unnamed => handler[h].pc \in SweepPcs
                         /\ handler[h].op \notin Unnamed => handler[h].user \in Members
                         /\ handler[h].op \in HandlerOps
  BY DEF SpaceShape, HandlersServe
<1>c. /\ 0 \in Hours /\ HashTTL \in Hours
      /\ ListingEnd("live") \in Hours \cup {None} /\ ListingEnd("scheduled") \in Hours \cup {None}
      /\ LiveEnd \in Hours
  BY <1>a, DeadlineTypes DEF Hours, HashTTL, PastBound
<1>e. /\ due \in [{"start", "end", "live", "expiry", "left", "hash"} -> Hours \cup {None}]
      /\ due.start \in StartHours \cup {None}
  BY <1>a DEF SpaceTypeOK
<1>d. status' = status /\ due'.start = due.start => ScheduledIsBooked'
  BY DEF SpaceShape, ScheduledIsBooked, Booked
<1>1. CASE ProvisionSpace(h)
  <2>1. /\ ~ Pc(h, "free")
        /\ Release(h) \/ \E pc \in {"reconcile"} : Proceed(h, pc)
        /\ handler[h].op \in Unnamed => Release(h) \/ \E pc \in {"reconcile"} \cap SweepPcs : Proceed(h, pc)
    BY <1>b, <1>1 DEF ProvisionSpace, Pc, SweepPcs, Unnamed
  <2>2. {"reconcile"} \in SUBSET (HandlerPcs \ {"free", "kick", "uninvite", "restrict"})
    BY DEF HandlerPcs
  <2>3. Served
    BY <2>1, <2>2, StepServes
  <2>4. SpaceTypeOK'
    BY <1>a, <1>b, <1>c, <1>1, <2>3 DEF ProvisionSpace, Served, SpaceTypeOK, Pc, SweepPcs, Unnamed
  <2>5. ScheduledIsBooked'
    BY <1>a, <1>d, <1>1 DEF ProvisionSpace, SpaceTypeOK
  <2> QED
    BY <2>3, <2>4, <2>5 DEF SpaceShape, Served
<1>2. CASE AutoStart(h)
  <2>1. /\ ~ Pc(h, "free")
        /\ Release(h) \/ \E pc \in {"provision", "reconcile"} : Proceed(h, pc)
        /\ handler[h].op \in Unnamed => Release(h) \/ \E pc \in {"provision", "reconcile"} \cap SweepPcs : Proceed(h, pc)
    BY <1>b, <1>2 DEF AutoStart, Pc, SweepPcs, Unnamed
  <2>2. {"provision", "reconcile"} \in SUBSET (HandlerPcs \ {"free", "kick", "uninvite",
  "restrict"})
    BY DEF HandlerPcs
  <2>3. Served
    BY <2>1, <2>2, StepServes
  <2>4. SpaceTypeOK'
    BY <1>a, <1>b, <1>c, <1>2, <2>3, GoLiveTypes DEF AutoStart, Served, SpaceTypeOK, Pc,
       SweepPcs, Unnamed
  <2>5. ScheduledIsBooked'
    BY <1>a, <1>d, <1>2 DEF AutoStart, ScheduledIsBooked, SpaceTypeOK, Booked, GoLive
  <2> QED
    BY <2>3, <2>4, <2>5 DEF SpaceShape, Served
<1>3. CASE MarkLive(h)
  <2>1. /\ ~ Pc(h, "free")
        /\ Release(h) \/ \E pc \in {"provision"} : Proceed(h, pc)
        /\ handler[h].op \in Unnamed => Release(h) \/ \E pc \in {"provision"} \cap SweepPcs : Proceed(h, pc)
    BY <1>b, <1>3 DEF MarkLive, Pc, SweepPcs, Unnamed
  <2>2. {"provision"} \in SUBSET (HandlerPcs \ {"free", "kick", "uninvite", "restrict"})
    BY DEF HandlerPcs
  <2>3. Served
    BY <2>1, <2>2, StepServes
  <2>4. SpaceTypeOK'
    BY <1>a, <1>b, <1>c, <1>3, <2>3, GoLiveTypes DEF MarkLive, Served, SpaceTypeOK, Pc, SweepPcs,
       Unnamed
  <2>5. ScheduledIsBooked'
    BY <1>a, <1>d, <1>3 DEF MarkLive, ScheduledIsBooked, SpaceTypeOK, Booked, GoLive
  <2> QED
    BY <2>3, <2>4, <2>5 DEF SpaceShape, Served
<1>4. CASE Reconcile(h)
  <2>1. ~ Pc(h, "free")
    BY <1>4 DEF Reconcile, Pc
  <2>2. ASSUME handler' = [handler EXCEPT ![h].pc = "presence",
                             ![h].flag = HasCome(After(due.live, EmptyGrace))]
        PROVE  Served
    BY <2>1, <2>2, FlagServes DEF HasCome, SweepPcs
  <2>3. ASSUME Proceed(h, "drop") \/ Proceed(h, "expire") \/ Proceed(h, "end") \/ Admitted(h)
        PROVE  Served
    <3> DEFINE to == {"drop", "expire", "end", "mark_live", "admit", "token", "open", "recheck"}
    <3>1. to \in SUBSET (HandlerPcs \ {"free", "kick", "uninvite", "restrict"})
      BY DEF HandlerPcs
    <3>2. /\ Release(h) \/ \E pc \in to : Proceed(h, pc)
          /\ handler[h].op \in Unnamed => Release(h) \/ \E pc \in to \cap SweepPcs : Proceed(h, pc)
      BY <2>3 DEF Admitted, SweepPcs, Unnamed
    <3> HIDE DEF to
    <3> QED
      BY <2>1, <3>1, <3>2, StepServes
  <2>4. Served
    BY <1>4, <2>2, <2>3 DEF Reconcile
  <2>5. SpaceTypeOK'
    BY <1>a, <1>4, <2>4 DEF Reconcile, Served, SpaceTypeOK
  <2>6. ScheduledIsBooked'
    BY <1>a, <1>d, <1>4 DEF Reconcile
  <2> QED
    BY <2>4, <2>5, <2>6 DEF SpaceShape, Served
<1>20. CASE CheckPresence(h)
  <2>1. /\ ~ Pc(h, "free")
        /\ Release(h) \/ \E pc \in {"end", "mark_live", "admit", "token", "open", "recheck"} : Proceed(h, pc)
        /\ handler[h].op \in Unnamed =>
             Release(h) \/ \E pc \in {"end", "mark_live", "admit", "token", "open", "recheck"} \cap SweepPcs : Proceed(h, pc)
    BY <1>b, <1>20 DEF CheckPresence, Pc, SweepPcs, Unnamed, Admitted
  <2>2. {"end", "mark_live", "admit", "token", "open",
  "recheck"} \in SUBSET (HandlerPcs \ {"free", "kick", "uninvite", "restrict"})
    BY DEF HandlerPcs
  <2>3. Served
    BY <2>1, <2>2, StepServes
  <2>4. SpaceTypeOK'
    BY <1>a, <1>b, <1>c, <1>20, <2>3 DEF CheckPresence, Served, SpaceTypeOK, Pc, SweepPcs, Unnamed
  <2>5. ScheduledIsBooked'
    BY <1>a, <1>d, <1>20 DEF CheckPresence, SpaceTypeOK
  <2> QED
    BY <2>3, <2>4, <2>5 DEF SpaceShape, Served
<1>21. CASE ExpireSlot(h)
  <2>1. /\ ~ Pc(h, "free")
        /\ Release(h) \/ \E pc \in {"drop", "mark_live", "admit", "token", "open", "recheck"} : Proceed(h, pc)
        /\ handler[h].op \in Unnamed =>
             Release(h) \/ \E pc \in {"drop", "mark_live", "admit", "token", "open", "recheck"} \cap SweepPcs : Proceed(h, pc)
    BY <1>b, <1>21 DEF ExpireSlot, Pc, SweepPcs, Unnamed, Admitted
  <2>2. {"drop", "mark_live", "admit", "token", "open",
  "recheck"} \in SUBSET (HandlerPcs \ {"free", "kick", "uninvite", "restrict"})
    BY DEF HandlerPcs
  <2>3. Served
    BY <2>1, <2>2, StepServes
  <2>4. SpaceTypeOK'
    BY <1>a, <1>b, <1>c, <1>21, <2>3 DEF ExpireSlot, Served, SpaceTypeOK, Pc, SweepPcs, Unnamed
  <2>5. ScheduledIsBooked'
    BY <1>a, <1>d, <1>21 DEF ExpireSlot, SpaceTypeOK
  <2> QED
    BY <2>3, <2>4, <2>5 DEF SpaceShape, Served
<1>22. CASE RecheckRoom(h)
  <2>1. /\ ~ Pc(h, "free")
        /\ Release(h) \/ \E pc \in {"drop_again"} : Proceed(h, pc)
        /\ handler[h].op \in Unnamed =>
             Release(h) \/ \E pc \in {"drop_again"} \cap SweepPcs : Proceed(h, pc)
    BY <1>b, <1>22 DEF RecheckRoom, Pc, SweepPcs, Unnamed
  <2>2. {"drop_again"} \in SUBSET (HandlerPcs \ {"free", "kick", "uninvite", "restrict"})
    BY DEF HandlerPcs
  <2>3. Served
    BY <2>1, <2>2, StepServes
  <2>4. SpaceTypeOK'
    BY <1>a, <1>b, <1>c, <1>22, <2>3 DEF RecheckRoom, Served, SpaceTypeOK, Pc, SweepPcs, Unnamed
  <2>5. ScheduledIsBooked'
    BY <1>a, <1>d, <1>22 DEF RecheckRoom, SpaceTypeOK
  <2> QED
    BY <2>3, <2>4, <2>5 DEF SpaceShape, Served
<1>23. CASE ClearGate(h)
  <2>1. /\ ~ Pc(h, "free")
        /\ Release(h) \/ \E pc \in {"open"} : Proceed(h, pc)
        /\ handler[h].op \in Unnamed =>
             Release(h) \/ \E pc \in {"open"} \cap SweepPcs : Proceed(h, pc)
    BY <1>b, <1>23 DEF ClearGate, Pc, SweepPcs, Unnamed
  <2>2. {"open"} \in SUBSET (HandlerPcs \ {"free", "kick", "uninvite", "restrict"})
    BY DEF HandlerPcs
  <2>3. Served
    BY <2>1, <2>2, StepServes
  <2>4. SpaceTypeOK'
    BY <1>a, <1>b, <1>c, <1>23, <2>3 DEF ClearGate, Served, SpaceTypeOK, Pc, SweepPcs, Unnamed
  <2>5. ScheduledIsBooked'
    BY <1>a, <1>d, <1>23 DEF ClearGate, SpaceTypeOK
  <2> QED
    BY <2>3, <2>4, <2>5 DEF SpaceShape, Served
<1>24. CASE LeaveLobby(h)
  <2>1. ~ Pc(h, "free") /\ handler[h].user \in Members
    BY <1>b, <1>24 DEF LeaveLobby, Pc, SweepPcs, Unnamed
  <2>2. Served
    BY <1>24, ReleaseServes DEF LeaveLobby, Served
  <2>3. /\ row' \in [Members -> {"absent", "in", "left"}]
        /\ due' \in [{"start", "end", "live", "expiry", "left", "hash"} -> Hours \cup {None}]
        /\ due'.start = due.start
        /\ parted' \in {"left", "removed", "together", None}
    BY <1>a, <1>c, <1>e, <1>24, <2>1 DEF LeaveLobby, GoneAt, Part, SpaceTypeOK
  <2>4. SpaceTypeOK'
    BY <1>a, <1>e, <1>24, <2>2, <2>3 DEF LeaveLobby, Served, SpaceTypeOK
  <2>5. ScheduledIsBooked'
    BY <1>d, <1>24, <2>3 DEF LeaveLobby
  <2> QED
    BY <2>2, <2>4, <2>5 DEF SpaceShape, Served
<1>5. CASE EndSession(h)
  <2>1. /\ ~ Pc(h, "free")
        /\ Release(h) \/ \E pc \in {"drop", "end_tx"} : Proceed(h, pc)
        /\ handler[h].op \in Unnamed =>
             Release(h) \/ \E pc \in {"drop", "end_tx"} \cap SweepPcs : Proceed(h, pc)
    BY <1>b, <1>5 DEF EndSession, Pc, SweepPcs, Unnamed
  <2>2. {"drop", "end_tx"} \in SUBSET (HandlerPcs \ {"free", "kick", "uninvite", "restrict"})
    BY DEF HandlerPcs
  <2>3. Served
    BY <2>1, <2>2, StepServes
  <2>4. SpaceTypeOK'
    BY <1>a, <1>b, <1>c, <1>5, <2>3 DEF EndSession, Served, SpaceTypeOK, Pc, SweepPcs, Unnamed
  <2>5. ScheduledIsBooked'
    BY <1>a, <1>d, <1>5 DEF EndSession, SpaceTypeOK
  <2> QED
    BY <2>3, <2>4, <2>5 DEF SpaceShape, Served
<1>6. CASE EndSpaceTx(h)
  <2>1. /\ ~ Pc(h, "free")
        /\ Release(h) \/ \E pc \in {"drop"} : Proceed(h, pc)
        /\ handler[h].op \in Unnamed => Release(h) \/ \E pc \in {"drop"} \cap SweepPcs : Proceed(h, pc)
    BY <1>b, <1>6 DEF EndSpaceTx, Pc, SweepPcs, Unnamed
  <2>2. {"drop"} \in SUBSET (HandlerPcs \ {"free", "kick", "uninvite", "restrict"})
    BY DEF HandlerPcs
  <2>3. Served
    BY <2>1, <2>2, StepServes
  <2>4. SpaceTypeOK'
    <3> DEFINE left == IF Active = {} THEN due.left ELSE 0
    <3>1. left \in Hours \cup {None}
      BY <1>a, <1>c DEF SpaceTypeOK
    <3>2. row' \in [Members -> {"absent", "in", "left"}]
      BY <1>a, <1>6 DEF EndSpaceTx, SpaceTypeOK, Members
    <3>3. /\ due' \in [{"start", "end", "live", "expiry", "left", "hash"} -> Hours \cup {None}]
          /\ due'.start = due.start
      <4>1. \/ due' = [due EXCEPT !.left = left]
            \/ due' = [due EXCEPT !.left = left, !.live = None, !.expiry = ListingEnd("scheduled")]
            \/ due' = [due EXCEPT !.left = left, !.expiry = 0]
        BY <1>6 DEF EndSpaceTx
      <4> HIDE DEF left
      <4> QED
        BY <1>c, <1>e, <3>1, <4>1
    <3>4. isExpired' \in BOOLEAN /\ status' \in {status, "scheduled", "ended"}
      BY <1>a, <1>6 DEF EndSpaceTx, SpaceTypeOK, IsOver
    <3> QED
      BY <1>a, <1>6, <2>3, <3>2, <3>3, <3>4 DEF EndSpaceTx, Served, SpaceTypeOK
  <2>5. ScheduledIsBooked'
    BY <1>a, <1>d, <1>6 DEF EndSpaceTx, ScheduledIsBooked, SpaceTypeOK, Booked
  <2> QED
    BY <2>3, <2>4, <2>5 DEF SpaceShape, Served
<1>7. CASE DropSession(h)
  <2>1. /\ ~ Pc(h, "free")
        /\ Release(h) \/ \E pc \in {"drop_again"} : Proceed(h, pc)
        /\ handler[h].op \in Unnamed =>
             Release(h) \/ \E pc \in {"drop_again"} \cap SweepPcs : Proceed(h, pc)
    BY <1>b, <1>7 DEF DropSession, Pc, SweepPcs, Unnamed, DropsHash
  <2>2. {"drop_again"} \in SUBSET (HandlerPcs \ {"free", "kick", "uninvite", "restrict"})
    BY DEF HandlerPcs
  <2>3. Served
    BY <2>1, <2>2, StepServes
  <2>4. SpaceTypeOK'
    BY <1>a, <1>b, <1>c, <1>7, <2>3 DEF DropSession, Served, SpaceTypeOK, Pc, SweepPcs, Unnamed
  <2>5. ScheduledIsBooked'
    BY <1>a, <1>d, <1>7 DEF DropSession, SpaceTypeOK
  <2> QED
    BY <2>3, <2>4, <2>5 DEF SpaceShape, Served
<1>8. CASE Admit(h)
  <2>1. ~ Pc(h, "free") /\ handler[h].op \notin Unnamed
    BY <1>b, <1>8 DEF Admit, Pc, SweepPcs, Unnamed
  <2>2. ASSUME Release(h) PROVE Served
    BY <2>2, ReleaseServes DEF Served
  <2>3. ASSUME Proceed(h, "token") PROVE Served
    BY <2>1, <2>3, ProceedServes DEF Served, HandlerPcs
  <2>4. ASSUME handler' = [handler EXCEPT ![h].pc = "seat",
  ![h].flag = (status = "live")] PROVE Served
    BY <2>1, <2>4, FlagServes
  <2>5. Served
    BY <1>8, <2>2, <2>3, <2>4 DEF Admit
  <2>6. SpaceTypeOK'
    BY <1>a, <1>b, <1>c, <1>8, <2>5 DEF Admit, Served, SpaceTypeOK, Pc, SweepPcs, Unnamed
  <2>7. ScheduledIsBooked'
    BY <1>a, <1>d, <1>8 DEF Admit, SpaceTypeOK
  <2> QED
    BY <2>5, <2>6, <2>7 DEF SpaceShape, Served
<1>9. CASE SeatMember(h)
  <2>1. /\ ~ Pc(h, "free")
        /\ Release(h) \/ \E pc \in {"refresh"} : Proceed(h, pc)
        /\ handler[h].op \in Unnamed => Release(h) \/ \E pc \in {"refresh"} \cap SweepPcs : Proceed(h, pc)
    BY <1>b, <1>9 DEF SeatMember, Pc, SweepPcs, Unnamed
  <2>2. {"refresh"} \in SUBSET (HandlerPcs \ {"free", "kick", "uninvite", "restrict"})
    BY DEF HandlerPcs
  <2>3. Served
    BY <2>1, <2>2, StepServes
  <2>4. SpaceTypeOK'
    BY <1>a, <1>b, <1>c, <1>9, <2>3 DEF SeatMember, Served, SpaceTypeOK, Pc, SweepPcs, Unnamed
  <2>5. ScheduledIsBooked'
    BY <1>a, <1>d, <1>9 DEF SeatMember, SpaceTypeOK
  <2> QED
    BY <2>3, <2>4, <2>5 DEF SpaceShape, Served
<1>10. CASE RefreshExpiry(h)
  <2>1. /\ ~ Pc(h, "free")
        /\ Release(h) \/ \E pc \in {"token"} : Proceed(h, pc)
        /\ handler[h].op \in Unnamed => Release(h) \/ \E pc \in {"token"} \cap SweepPcs : Proceed(h, pc)
    BY <1>b, <1>10 DEF RefreshExpiry, Pc, SweepPcs, Unnamed
  <2>2. {"token"} \in SUBSET (HandlerPcs \ {"free", "kick", "uninvite", "restrict"})
    BY DEF HandlerPcs
  <2>3. Served
    BY <2>1, <2>2, StepServes
  <2>4. SpaceTypeOK'
    <3>1. raced' \in BOOLEAN
      BY <1>a, <1>10 DEF RefreshExpiry, NotesRevival, SpaceTypeOK
    <3>2. /\ due' \in [{"start", "end", "live", "expiry", "left", "hash"} -> Hours \cup {None}]
          /\ due'.start = due.start /\ isExpired' \in BOOLEAN
      BY <1>a, <1>c, <1>e, <1>10 DEF RefreshExpiry, SpaceTypeOK, IsOver
    <3> QED
      BY <1>a, <1>10, <2>3, <3>1, <3>2 DEF RefreshExpiry, Served, SpaceTypeOK
  <2>5. ScheduledIsBooked'
    BY <1>a, <1>d, <1>10 DEF RefreshExpiry, SpaceTypeOK
  <2> QED
    BY <2>3, <2>4, <2>5 DEF SpaceShape, Served
<1>11. CASE CheckClock(h)
  <2>1. /\ ~ Pc(h, "free")
        /\ Release(h) \/ \E pc \in {"restart", "gate"} : Proceed(h, pc)
        /\ handler[h].op \in Unnamed => Release(h) \/ \E pc \in {"restart", "gate"} \cap SweepPcs : Proceed(h, pc)
    BY <1>b, <1>11 DEF CheckClock, Pc, SweepPcs, Unnamed
  <2>2. {"restart", "gate"} \in SUBSET (HandlerPcs \ {"free", "kick", "uninvite", "restrict"})
    BY DEF HandlerPcs
  <2>3. Served
    BY <2>1, <2>2, StepServes
  <2>4. SpaceTypeOK'
    BY <1>a, <1>b, <1>c, <1>11, <2>3 DEF CheckClock, Served, SpaceTypeOK, Pc, SweepPcs, Unnamed
  <2>5. ScheduledIsBooked'
    BY <1>a, <1>d, <1>11 DEF CheckClock, SpaceTypeOK
  <2> QED
    BY <2>3, <2>4, <2>5 DEF SpaceShape, Served
<1>12. CASE RestartClock(h)
  <2>1. /\ ~ Pc(h, "free")
        /\ Release(h) \/ \E pc \in {"gate"} : Proceed(h, pc)
        /\ handler[h].op \in Unnamed => Release(h) \/ \E pc \in {"gate"} \cap SweepPcs : Proceed(h, pc)
    BY <1>b, <1>12 DEF RestartClock, Pc, SweepPcs, Unnamed
  <2>2. {"gate"} \in SUBSET (HandlerPcs \ {"free", "kick", "uninvite", "restrict"})
    BY DEF HandlerPcs
  <2>3. Served
    BY <2>1, <2>2, StepServes
  <2>4. SpaceTypeOK'
    <3>1. raced' \in BOOLEAN
      BY <1>a, <1>12 DEF RestartClock, NotesRevival, SpaceTypeOK
    <3>2. /\ due' \in [{"start", "end", "live", "expiry", "left", "hash"} -> Hours \cup {None}]
          /\ due'.start = due.start /\ isExpired' \in BOOLEAN
      BY <1>a, <1>c, <1>e, <1>12 DEF RestartClock, SpaceTypeOK
    <3> QED
      BY <1>a, <1>12, <2>3, <3>1, <3>2 DEF RestartClock, Served, SpaceTypeOK
  <2>5. ScheduledIsBooked'
    BY <1>a, <1>d, <1>12 DEF RestartClock, SpaceTypeOK
  <2> QED
    BY <2>3, <2>4, <2>5 DEF SpaceShape, Served
<1>13. CASE PassGate(h)
  <2>1. /\ ~ Pc(h, "free")
        /\ Release(h) \/ \E pc \in {"gate"} : Proceed(h, pc)
        /\ handler[h].op \in Unnamed => Release(h) \/ \E pc \in {"gate"} \cap SweepPcs : Proceed(h, pc)
    BY <1>b, <1>13 DEF PassGate, Pc, SweepPcs, Unnamed
  <2>2. {"gate"} \in SUBSET (HandlerPcs \ {"free", "kick", "uninvite", "restrict"})
    BY DEF HandlerPcs
  <2>3. Served
    BY <2>1, <2>2, StepServes
  <2>4. SpaceTypeOK'
    BY <1>a, <1>b, <1>c, <1>13, <2>3 DEF PassGate, Served, SpaceTypeOK, Pc, SweepPcs, Unnamed
  <2>5. ScheduledIsBooked'
    BY <1>a, <1>d, <1>13 DEF PassGate, SpaceTypeOK
  <2> QED
    BY <2>3, <2>4, <2>5 DEF SpaceShape, Served
<1>14. CASE OpenMeeting(h)
  <2>1. /\ ~ Pc(h, "free")
        /\ Release(h) \/ \E pc \in {"unlock"} : Proceed(h, pc)
        /\ handler[h].op \in Unnamed =>
             Release(h) \/ \E pc \in {"unlock"} \cap SweepPcs : Proceed(h, pc)
    BY <1>b, <1>14 DEF OpenMeeting, Pc, SweepPcs, Unnamed
  <2>2. {"unlock"} \in SUBSET (HandlerPcs \ {"free", "kick", "uninvite", "restrict"})
    BY DEF HandlerPcs
  <2>3. Served
    BY <2>1, <2>2, StepServes
  <2>4. SpaceTypeOK'
    BY <1>a, <1>b, <1>c, <1>14, <2>3 DEF OpenMeeting, Served, SpaceTypeOK, Pc, SweepPcs, Unnamed
  <2>5. ScheduledIsBooked'
    BY <1>a, <1>d, <1>14 DEF OpenMeeting, SpaceTypeOK
  <2> QED
    BY <2>3, <2>4, <2>5 DEF SpaceShape, Served
<1>15. CASE LeaveTx(h)
  <2>1. ~ Pc(h, "free") /\ handler[h].op \notin Unnamed
    BY <1>b, <1>15 DEF LeaveTx, Pc, SweepPcs, Unnamed
  <2>2. handler' = [handler EXCEPT ![h].pc = "leave_commit",
  ![h].flag = Active \subseteq {handler[h].user}]
    BY <1>15 DEF LeaveTx
  <2>3. Served
    BY <2>1, <2>2, FlagServes
  <2>4. SpaceTypeOK'
    BY <1>a, <1>b, <1>c, <1>15, <2>3 DEF LeaveTx, Served, SpaceTypeOK, Pc, SweepPcs, Unnamed
  <2>5. ScheduledIsBooked'
    BY <1>a, <1>d, <1>15 DEF LeaveTx, SpaceTypeOK
  <2> QED
    BY <2>3, <2>4, <2>5 DEF SpaceShape, Served
<1>16. CASE LeaveCommit(h)
  <2>1. /\ ~ Pc(h, "free")
        /\ Release(h) \/ \E pc \in {"drop"} : Proceed(h, pc)
        /\ handler[h].op \in Unnamed => Release(h) \/ \E pc \in {"drop"} \cap SweepPcs : Proceed(h, pc)
    BY <1>b, <1>16 DEF LeaveCommit, Pc, SweepPcs, Unnamed
  <2>2. {"drop"} \in SUBSET (HandlerPcs \ {"free", "kick", "uninvite", "restrict"})
    BY DEF HandlerPcs
  <2>3. Served
    BY <2>1, <2>2, StepServes
  <2>4. SpaceTypeOK'
    <3>1. row' \in [Members -> {"absent", "in", "left"}]
      BY <1>a, <1>16 DEF LeaveCommit, SpaceTypeOK
    <3>2. /\ due' \in [{"start", "end", "live", "expiry", "left", "hash"} -> Hours \cup {None}]
          /\ due'.start = due.start
      <4> DEFINE left == IF row[handler[h].user] = "in" THEN 0 ELSE due.left
      <4>1. left \in Hours \cup {None}
        BY <1>a, <1>c DEF SpaceTypeOK
      <4>2. due' = [due EXCEPT !.left = left] \/ due' = [[due EXCEPT !.left = left] EXCEPT !.expiry = 0]
        BY <1>a, <1>16 DEF LeaveCommit, SpaceTypeOK
      <4> HIDE DEF left
      <4> QED
        BY <1>c, <1>e, <4>1, <4>2
    <3>3. /\ isExpired' \in BOOLEAN /\ status' \in {status, "ended"}
          /\ parted' \in {"left", "removed", "together", None}
      BY <1>a, <1>16 DEF LeaveCommit, SpaceTypeOK, Part
    <3> QED
      BY <1>a, <1>16, <2>3, <3>1, <3>2, <3>3 DEF LeaveCommit, Served, SpaceTypeOK
  <2>5. ScheduledIsBooked'
    BY <1>a, <1>d, <1>16 DEF LeaveCommit, ScheduledIsBooked, SpaceTypeOK, Booked
  <2> QED
    BY <2>3, <2>4, <2>5 DEF SpaceShape, Served
<1>17. CASE KickOut(h)
  <2>1. /\ ~ Pc(h, "free") /\ handler[h].op \notin Unnamed /\ handler[h].user \in Guests
        /\ Release(h) \/ Proceed(h, "uninvite")
    BY <1>b, <1>17 DEF KickOut, Pc, SweepPcs, Unnamed, SpaceShape, HandlersServe
  <2>3. Served
    BY <2>1, ReleaseServes, ProceedServes DEF Served, HandlerPcs
  <2>4. SpaceTypeOK'
    BY <1>a, <1>b, <1>c, <1>17, <2>3 DEF KickOut, Served, SpaceTypeOK, Pc, SweepPcs, Unnamed,
       Part, GoneAt
  <2>5. ScheduledIsBooked'
    BY <1>a, <1>d, <1>17 DEF KickOut, SpaceTypeOK, GoneAt
  <2> QED
    BY <2>3, <2>4, <2>5 DEF SpaceShape, Served
<1>18. CASE Uninvite(h)
  <2>1. /\ ~ Pc(h, "free") /\ handler[h].op \notin Unnamed /\ handler[h].user \in Guests
        /\ Release(h) \/ Proceed(h, "restrict")
    BY <1>b, <1>18 DEF Uninvite, Pc, SweepPcs, Unnamed, SpaceShape, HandlersServe
  <2>3. Served
    BY <2>1, ReleaseServes, ProceedServes DEF Served, HandlerPcs
  <2>4. SpaceTypeOK'
    BY <1>a, <1>b, <1>c, <1>18, <2>3 DEF Uninvite, Served, SpaceTypeOK, Pc, SweepPcs, Unnamed
  <2>5. ScheduledIsBooked'
    BY <1>a, <1>d, <1>18 DEF Uninvite, SpaceTypeOK
  <2> QED
    BY <2>3, <2>4, <2>5 DEF SpaceShape, Served
<1>19. CASE Restrict(h)
  <2>1. /\ ~ Pc(h, "free")
        /\ Release(h) \/ \E pc \in {"gate"} : Proceed(h, pc)
        /\ handler[h].op \in Unnamed => Release(h) \/ \E pc \in {"gate"} \cap SweepPcs : Proceed(h, pc)
    BY <1>b, <1>19 DEF Restrict, Pc, SweepPcs, Unnamed
  <2>2. {"gate"} \in SUBSET (HandlerPcs \ {"free", "kick", "uninvite", "restrict"})
    BY DEF HandlerPcs
  <2>3. Served
    BY <2>1, <2>2, StepServes
  <2>4. SpaceTypeOK'
    BY <1>a, <1>b, <1>c, <1>19, <2>3 DEF Restrict, Served, SpaceTypeOK, Pc, SweepPcs, Unnamed
  <2>5. ScheduledIsBooked'
    BY <1>a, <1>d, <1>19 DEF Restrict, SpaceTypeOK
  <2> QED
    BY <2>3, <2>4, <2>5 DEF SpaceShape, Served
<1> QED
  BY <1>1, <1>2, <1>3, <1>4, <1>5, <1>6, <1>7, <1>8, <1>9, <1>10, <1>11, <1>12, <1>13,
     <1>14, <1>15, <1>16, <1>17, <1>18, <1>19, <1>20, <1>21, <1>22, <1>23, <1>24 DEF SpaceStep

\* Requests, the sweep, time and crashes keep the invariant.
LEMMA SpaceArrivalsKeep ==
  ASSUME SpaceShape,
         \/ \E h \in Handlers : HostEnds(h) \/ Sweep(h) \/ View(h) \/ ListSpaces(h)
         \/ \E h \in Handlers, p \in Plans, friends \in {{}, Guests} : CreateSpace(h, p, friends)
         \/ \E h \in Handlers, u \in Members : Leave(h, u)
         \/ \E h \in Handlers, op \in {"start", "open", "join", "token"}, u \in Members :
              Arrive(h, op, u)
         \/ \E h \in Handlers, u \in Guests, restrict \in BOOLEAN : Kick(h, u, restrict)
         \/ CancelSpace \/ Hour \/ ServerStops
         \/ \E start \in 1..2, end \in {3, None} : Reschedule(start, end)
  PROVE  SpaceShape'
<1> USE DEF roomRow, people, past
<1>a. SpaceTypeOK /\ handler \in HandlerTable
  BY DEF SpaceShape, SpaceTypeOK
<1>b. /\ due \in [{"start", "end", "live", "expiry", "left", "hash"} -> Hours \cup {None}]
      /\ due.start \in StartHours \cup {None}
  BY <1>a DEF SpaceTypeOK
<1>c. Host \in Members /\ Guests \subseteq Members /\ 0 \in Hours
  BY DEF Members, Hours, PastBound
<1>d. status' = status /\ due'.start = due.start => ScheduledIsBooked'
  BY DEF SpaceShape, ScheduledIsBooked, Booked
<1>e. handler' = handler => Served
  BY <1>a DEF Served, SpaceShape, HandlersServe, Pc
<1>1. ASSUME NEW h \in Handlers, NEW p \in Plans, NEW friends \in {{}, Guests},
             CreateSpace(h, p, friends)
      PROVE  SpaceShape'
  <2>1. p \in PlanSpace
    BY SpaceAssumption
  <2>2. /\ p.start \in StartHours \cup {None} /\ p.end \in Hours \cup {None}
        /\ SlotEnd(p.start, p.end, p.window) \in Hours \cup {None}
    BY <2>1, SlotEndType DEF PlanSpace
  <2>3. Served
    <3>1. ASSUME Serve(h, "provision", "create", Host, FALSE) PROVE Served
      BY <1>c, <3>1, ServeServes DEF Served, HandlerPcs, HandlerOps, Unnamed
    <3> QED
      BY <1>e, <1>1, <3>1 DEF CreateSpace
  <2>4. /\ due' \in [{"start", "end", "live", "expiry", "left", "hash"} -> Hours \cup {None}]
        /\ due'.start = p.start
    <3> DEFINE live == IF p.start # None THEN None ELSE 0
               over == IF p.start # None THEN SlotEnd(p.start, p.end, p.window) ELSE p.end
    <3>1. live \in Hours \cup {None} /\ over \in Hours \cup {None}
      BY <1>c, <2>2
    <3>2. due' = [due EXCEPT !.start = p.start, !.end = p.end, !.live = live, !.expiry = over]
      BY <1>1 DEF CreateSpace
    <3> HIDE DEF live, over
    <3>3. StartHours \subseteq Hours
      BY DEF StartHours, Hours, PastBound
    <3> QED
      BY <1>b, <2>2, <3>1, <3>2, <3>3
  <2>5. /\ status' = IF p.start # None THEN "scheduled" ELSE "live"
        /\ isExpired' \in BOOLEAN /\ invited' \in SUBSET Members
    BY <1>c, <1>1 DEF CreateSpace, IsOver
  <2>6. row' \in [Members -> {"absent", "in", "left"}]
    BY <1>a, <1>1 DEF CreateSpace, SpaceTypeOK
  <2>7. SpaceTypeOK'
    BY <1>a, <1>1, <2>1, <2>2, <2>3, <2>4, <2>5, <2>6 DEF CreateSpace, SpaceTypeOK, Served
  <2>8. ScheduledIsBooked'
    BY <2>4, <2>5 DEF ScheduledIsBooked, Booked
  <2> QED
    BY <2>3, <2>7, <2>8 DEF SpaceShape, Served
<1>2. ASSUME NEW h \in Handlers, NEW op \in {"start", "open", "join", "token"}, NEW u \in Members,
             Arrive(h, op, u)
      PROVE  SpaceShape'
  <2>1. Served
    <3> DEFINE pc == IF op \in {"join", "token"} THEN "auto_start" ELSE "reconcile"
    <3>1. Serve(h, pc, op, u, FALSE) /\ pc \in HandlerPcs \ {"free", "kick", "uninvite", "restrict"}
      BY <1>2 DEF Arrive, HandlerPcs
    <3>2. op \in HandlerOps /\ op \notin Unnamed
      BY DEF HandlerOps, Unnamed
    <3> HIDE DEF pc
    <3> QED
      BY <3>1, <3>2, ServeServes DEF Served
  <2>2. SpaceTypeOK' /\ ScheduledIsBooked'
    BY <1>a, <1>d, <1>2, <2>1 DEF Arrive, Request, SpaceTypeOK, Served
  <2> QED
    BY <2>1, <2>2 DEF SpaceShape, Served
<1>3. ASSUME NEW h \in Handlers, HostEnds(h) PROVE SpaceShape'
  <2>1. Served
    <3>1. ASSUME NEW pc \in {"drop", "end"}, Serve(h, pc, "end", Host, FALSE) PROVE Served
      BY <1>c, <3>1, ServeServes DEF Served, HandlerPcs, HandlerOps, Unnamed
    <3> QED
      BY <1>3, <3>1 DEF HostEnds
  <2>2. SpaceTypeOK' /\ ScheduledIsBooked'
    BY <1>a, <1>d, <1>3, <2>1 DEF HostEnds, Request, SpaceTypeOK, Served
  <2> QED
    BY <2>1, <2>2 DEF SpaceShape, Served
<1>4. ASSUME NEW h \in Handlers, Sweep(h) \/ View(h) \/ ListSpaces(h) PROVE SpaceShape'
  <2>1. Served
    <3>1. \E pc \in {"reconcile", "drop"}, op \in Unnamed : Serve(h, pc, op, None, FALSE)
      BY <1>4 DEF Sweep, View, ListSpaces, Unnamed
    <3>2. {"reconcile",
    "drop"} \subseteq (HandlerPcs \ {"free"}) \cap SweepPcs /\ Unnamed \subseteq HandlerOps
      BY DEF HandlerPcs, SweepPcs, Unnamed, HandlerOps
    <3>3. PICK pc \in {"reconcile", "drop"}, op \in Unnamed : Serve(h, pc, op, None, FALSE)
      BY <3>1
    <3>4. pc \in HandlerPcs \ {"free"} /\ pc \in SweepPcs /\ op \in HandlerOps
      BY <3>2, <3>3
    <3> QED
      BY <3>3, <3>4, ServeServes DEF Served
  <2>2. /\ UNCHANGED <<plan, status, due, people, hash, past>>
        /\ isExpired' \in BOOLEAN /\ requests' \in {requests, requests + 1}
    BY <1>a, <1>4 DEF Sweep, View, ListSpaces, Request, SpaceTypeOK
  <2>3. SpaceTypeOK' /\ ScheduledIsBooked'
    BY <1>a, <1>d, <2>1, <2>2 DEF SpaceTypeOK, Served
  <2> QED
    BY <2>1, <2>3 DEF SpaceShape, Served
<1>5. ASSUME NEW h \in Handlers, NEW u \in Members, Leave(h, u) PROVE SpaceShape'
  <2>1. Served
    <3>1. ASSUME NEW pc \in {"drop", "lobby", "leave"}, Serve(h, pc, "leave", u, FALSE)
          PROVE  Served
      BY <3>1, ServeServes DEF Served, HandlerPcs, HandlerOps, Unnamed
    <3> QED
      BY <1>5, <3>1 DEF Leave
  <2>2. SpaceTypeOK' /\ ScheduledIsBooked'
    BY <1>a, <1>d, <1>5, <2>1 DEF Leave, Request, SpaceTypeOK, Served
  <2> QED
    BY <2>1, <2>2 DEF SpaceShape, Served
<1>6. ASSUME NEW h \in Handlers, NEW u \in Guests, NEW restrict \in BOOLEAN, Kick(h, u, restrict)
      PROVE  SpaceShape'
  <2>1. Served
    <3>1. ASSUME Serve(h, "kick", "kick", u, restrict) PROVE Served
      BY <1>c, <3>1, ServeServes DEF Served, HandlerPcs, HandlerOps, Unnamed
    <3> QED
      BY <1>e, <1>6, <3>1 DEF Kick
  <2>2. SpaceTypeOK' /\ ScheduledIsBooked'
    BY <1>a, <1>d, <1>6, <2>1 DEF Kick, Request, SpaceTypeOK, Served
  <2> QED
    BY <2>1, <2>2 DEF SpaceShape, Served
<1>7. CASE CancelSpace
  <2>1. Served
    BY <1>e, <1>7 DEF CancelSpace
  <2>2. /\ UNCHANGED <<plan, due, isExpired, people, hash, handler, past>>
        /\ requests' = requests + 1 /\ status' = "cancelled"
    BY <1>a, <1>7 DEF CancelSpace, Request
  <2>3. SpaceTypeOK'
    BY <1>a, <2>1, <2>2 DEF SpaceTypeOK, Served
  <2>4. ScheduledIsBooked'
    BY <1>d, <2>2 DEF ScheduledIsBooked
  <2> QED
    BY <2>1, <2>3, <2>4 DEF SpaceShape, Served
<1>8. ASSUME NEW start \in 1..2, NEW end \in {3, None}, Reschedule(start, end) PROVE SpaceShape'
  <2>1. Served
    BY <1>e, <1>8 DEF Reschedule
  <2>2. /\ start \in StartHours /\ start \in Hours /\ end \in Hours \cup {None} /\ start # None
        /\ SlotEnd(start, end, plan.window) \in Hours \cup {None}
    <3>1. start \in StartHours /\ start \in Hours /\ end \in Hours \cup {None} /\ start # None
      BY SpaceAssumption DEF StartHours, Hours, PastBound
    <3>2. plan.window \in {1, 2, None}
      BY <1>a DEF SpaceTypeOK, PlanSpace
    <3> QED
      BY <3>1, <3>2, SlotEndType
  <2>3. /\ due' \in [{"start", "end", "live", "expiry", "left", "hash"} -> Hours \cup {None}]
        /\ due'.start = start
    <3>1. due' = [due EXCEPT !.start = start, !.end = end, !.expiry = SlotEnd(start, end, plan.window)]
      BY <1>8 DEF Reschedule
    <3> QED
      BY <1>b, <2>2, <3>1
  <2>4. SpaceTypeOK'
    BY <1>a, <1>8, <2>1, <2>2, <2>3 DEF Reschedule, Request, SpaceTypeOK, Served, IsOver
  <2>5. ScheduledIsBooked'
    BY <2>2, <2>3 DEF ScheduledIsBooked, Booked
  <2> QED
    BY <2>1, <2>4, <2>5 DEF SpaceShape, Served
<1>9. CASE Hour
  <2>1. Served
    BY <1>e, <1>9 DEF Hour
  <2>2. /\ due' \in [{"start", "end", "live", "expiry", "left", "hash"} -> Hours \cup {None}]
        /\ due'.start \in StartHours \cup {None}
        /\ due'.start = None <=> due.start = None
    <3>1. due' = [k \in {"start", "end", "live", "expiry", "left", "hash"} |-> Later(due[k])]
      BY <1>b, <1>9 DEF Hour
    <3> QED
      BY <1>b, <3>1, LaterType
  <2>3. SpaceTypeOK' /\ ScheduledIsBooked'
    BY <1>a, <1>9, <2>1, <2>2 DEF Hour, SpaceTypeOK, Served, SpaceShape, ScheduledIsBooked, Booked
  <2> QED
    BY <2>1, <2>3 DEF SpaceShape, Served
<1>10. CASE ServerStops
  <2>1. handler' \in HandlerTable /\ \A h \in Handlers : handler'[h].pc = "free"
    BY <1>10 DEF ServerStops, HandlerTable, Idle, HandlerPcs
  <2>2. HandlersServe'
    BY <2>1 DEF HandlersServe, Pc
  <2>3. SpaceTypeOK' /\ ScheduledIsBooked'
    BY <1>a, <1>d, <1>10, <2>1 DEF ServerStops, Request, SpaceTypeOK
  <2> QED
    BY <2>2, <2>3 DEF SpaceShape
<1> QED
  BY <1>1, <1>2, <1>3, <1>4, <1>5, <1>6, <1>7, <1>8, <1>9, <1>10

\* The invariant is inductive.
LEMMA SpaceShapeNext == SpaceShape /\ [SpaceNext]_spaceVars => SpaceShape'
<1> SUFFICES ASSUME SpaceShape, [SpaceNext]_spaceVars PROVE SpaceShape'
  OBVIOUS
<1>1. CASE UNCHANGED spaceVars
  BY <1>1 DEF spaceVars, SpaceShape, SpaceTypeOK, HandlersServe, Pc, ScheduledIsBooked, Booked
<1>2. CASE SpaceNext
  BY <1>2, SpaceStepKeeps, SpaceArrivalsKeep DEF SpaceNext
<1> QED
  BY <1>1, <1>2

\* The shape of the handlers, and that a scheduled space has a slot, hold in
\* every reachable state.
THEOREM SpaceShapeHolds == SpaceSpec => []SpaceShape
  BY SpaceShapeInit, SpaceShapeNext, PTL DEF SpaceSpec

\* Every row, deadline, session hash and handler local keeps its type.
THEOREM SpaceTypeCorrect == SpaceSpec => []SpaceTypeOK
<1>1. SpaceShape => SpaceTypeOK
  BY DEF SpaceShape
<1> QED
  BY <1>1, SpaceShapeHolds, PTL

-----------------------------------------------------------------------------
(* The status goes through the lifecycle.                                   *)

LifecycleNext ==
  \/ SL!Create
  \/ (SL!Start \/ SL!Finish \/ SL!Cancel) /\ UNCHANGED <<Booked, plan.oneShot>>

\* A step that leaves the status, the slot and the options alone.
Aside == UNCHANGED <<plan, status>> /\ due'.start = due.start

\* Most steps of a handler leave the lifecycle alone; starts, ends of sessions
\* and last leaves take one step of it.
LEMMA StepOfLifecycle ==
  ASSUME SpaceShape, NEW h \in Handlers, SpaceStep(h)
  PROVE  Aside \/ LifecycleNext
<1> USE DEF roomRow
<1>a. /\ due \in [{"start", "end", "live", "expiry", "left", "hash"} -> Hours \cup {None}]
      /\ status = "scheduled" => Booked
  BY DEF SpaceShape, SpaceTypeOK, ScheduledIsBooked
<1>b. GoLive /\ status = "scheduled" /\ plan' = plan => LifecycleNext
  BY <1>a DEF GoLive, LifecycleNext, SL!Start, Booked
<1>1. CASE ProvisionSpace(h)
  BY <1>a, <1>1 DEF ProvisionSpace, Aside, GoneAt
<1>2. CASE Reconcile(h) \/ CheckPresence(h) \/ ExpireSlot(h) \/ RecheckRoom(h)
  BY <1>a, <1>2 DEF Reconcile, CheckPresence, ExpireSlot, RecheckRoom, Aside
<1>3. CASE EndSession(h)
  BY <1>a, <1>3 DEF EndSession, Aside, GoneAt
<1>4. CASE DropSession(h)
  BY <1>a, <1>4 DEF DropSession, Aside, GoneAt
<1>5. CASE Admit(h)
  BY <1>a, <1>5 DEF Admit, Aside, GoneAt
<1>6. CASE SeatMember(h)
  BY <1>a, <1>6 DEF SeatMember, Aside, GoneAt
<1>7. CASE RefreshExpiry(h)
  BY <1>a, <1>7 DEF RefreshExpiry, Aside, GoneAt
<1>8. CASE CheckClock(h)
  BY <1>a, <1>8 DEF CheckClock, Aside, GoneAt
<1>9. CASE RestartClock(h)
  BY <1>a, <1>9 DEF RestartClock, Aside, GoneAt
<1>10. CASE PassGate(h)
  BY <1>a, <1>10 DEF PassGate, Aside, GoneAt
<1>11. CASE OpenMeeting(h) \/ ClearGate(h)
  BY <1>a, <1>11 DEF OpenMeeting, ClearGate, Aside
<1>12. CASE LeaveTx(h)
  BY <1>a, <1>12 DEF LeaveTx, Aside, GoneAt
<1>13. CASE KickOut(h) \/ LeaveLobby(h)
  BY <1>a, <1>13 DEF KickOut, LeaveLobby, Aside, GoneAt
<1>14. CASE Uninvite(h)
  BY <1>a, <1>14 DEF Uninvite, Aside, GoneAt
<1>15. CASE Restrict(h)
  BY <1>a, <1>15 DEF Restrict, Aside, GoneAt
<1>16. CASE AutoStart(h) \/ MarkLive(h)
  BY <1>a, <1>b, <1>16 DEF AutoStart, MarkLive, Aside
<1>17. CASE EndSpaceTx(h)
  <2>1. plan' = plan /\ due'.start = due.start
    BY <1>a, <1>17 DEF EndSpaceTx
  <2>2. \/ status # "live" /\ UNCHANGED status
        \/ status = "live" /\ Booked /\ status' = "scheduled"
        \/ status = "live" /\ ~ Booked /\ status' = "ended"
    BY <1>17 DEF EndSpaceTx
  <2> QED
    BY <2>1, <2>2 DEF Aside, LifecycleNext, SL!Finish, Booked
<1>18. CASE LeaveCommit(h)
  <2>1. plan' = plan /\ due'.start = due.start
    <3> DEFINE left == IF row[handler[h].user] = "in" THEN 0 ELSE due.left
    <3>1. due' = [due EXCEPT !.left = left] \/ due' = [[due EXCEPT !.left = left] EXCEPT !.expiry = 0]
      BY <1>a, <1>18 DEF LeaveCommit
    <3>2. plan' = plan
      BY <1>18 DEF LeaveCommit
    <3> HIDE DEF left
    <3> QED
      BY <1>a, <3>1, <3>2
  <2>2. status' = status \/ (status = "live" /\ plan.oneShot /\ status' = "ended")
    BY <1>18 DEF LeaveCommit
  <2> QED
    BY <2>1, <2>2 DEF Aside, LifecycleNext, SL!Finish, Booked
<1> QED
  BY <1>1, <1>2, <1>3, <1>4, <1>5, <1>6, <1>7, <1>8, <1>9, <1>10, <1>11, <1>12, <1>13, <1>14,
     <1>15, <1>16, <1>17, <1>18 DEF SpaceStep

\* What clients ask for, the sweep and time do to the lifecycle.
LEMMA ArrivalOfLifecycle ==
  ASSUME SpaceShape, SpaceShape', SpaceNext, \A h \in Handlers : ~ SpaceStep(h)
  PROVE  LifecycleNext \/ UNCHANGED <<status, Booked, plan.oneShot>>
<1> USE DEF roomRow
<1>a. due \in [{"start", "end", "live", "expiry", "left", "hash"} -> Hours \cup {None}]
  BY DEF SpaceShape, SpaceTypeOK
<1>b. Aside => UNCHANGED <<status, Booked, plan.oneShot>>
  BY DEF Aside, Booked
<1>1. ASSUME NEW h \in Handlers, NEW p \in Plans, NEW friends \in {{}, Guests},
             CreateSpace(h, p, friends)
      PROVE  LifecycleNext
  <2>1. p \in PlanSpace /\ plan' = p
    BY <1>1, SpaceAssumption DEF CreateSpace
  <2>2. due'.start = p.start
    <3> DEFINE live == IF p.start # None THEN None ELSE 0
               over == IF p.start # None THEN SlotEnd(p.start, p.end, p.window) ELSE p.end
    <3>1. due' = [due EXCEPT !.start = p.start, !.end = p.end, !.live = live, !.expiry = over]
      BY <1>1 DEF CreateSpace
    <3> HIDE DEF live, over
    <3> QED
      BY <1>a, <3>1
  <2>3. status = "none" /\ status' = IF p.start # None THEN "scheduled" ELSE "live"
    BY <1>1 DEF CreateSpace
  <2>4. Booked' = (p.start # None) /\ plan'.oneShot \in BOOLEAN
    BY <2>1, <2>2 DEF Booked, PlanSpace
  <2> QED
    BY <2>3, <2>4 DEF LifecycleNext, SL!Create
<1>2. ASSUME NEW h \in Handlers, HostEnds(h) \/ Sweep(h) \/ View(h) \/ ListSpaces(h) PROVE Aside
  BY <1>2 DEF HostEnds, Sweep, View, ListSpaces, Aside
<1>3. ASSUME NEW h \in Handlers, NEW u \in Members, Leave(h, u) PROVE Aside
  BY <1>3 DEF Leave, Aside
<1>4. ASSUME NEW h \in Handlers, NEW op \in {"start", "open", "join", "token"}, NEW u \in Members,
             Arrive(h, op, u)
      PROVE  Aside
  BY <1>4 DEF Arrive, Aside
<1>5. ASSUME NEW h \in Handlers, NEW u \in Guests, NEW restrict \in BOOLEAN, Kick(h, u, restrict)
      PROVE  Aside
  BY <1>5 DEF Kick, Aside
<1>6. CASE ServerStops
  BY <1>b, <1>6 DEF ServerStops, Aside
<1>7. CASE CancelSpace
  BY <1>7 DEF CancelSpace, LifecycleNext, SL!Cancel, Booked
<1>8. ASSUME NEW start \in 1..2, NEW end \in {3, None}, Reschedule(start, end)
      PROVE  UNCHANGED <<status, Booked, plan.oneShot>>
  <2>1. status = "scheduled" /\ UNCHANGED <<status, plan>>
    BY <1>8 DEF Reschedule
  <2>2. Booked /\ Booked'
    BY <2>1 DEF SpaceShape, ScheduledIsBooked
  <2> QED
    BY <2>1, <2>2 DEF Booked
<1>9. CASE Hour
  <2>1. UNCHANGED <<status, plan>> /\ due' = [k \in DOMAIN due |-> Later(due[k])]
    BY <1>9 DEF Hour
  <2>2. due'.start = Later(due.start)
    BY <1>a, <2>1
  <2>3. due'.start = None <=> due.start = None
    BY <1>a, <2>2, LaterType
  <2> QED
    BY <2>1, <2>3 DEF Booked
<1> QED
  BY <1>b, <1>1, <1>2, <1>3, <1>4, <1>5, <1>6, <1>7, <1>8, <1>9 DEF SpaceNext

\* SpaceSession implements SpaceLifecycle: starts, lazy starts, ends, last leaves,
\* sweeps and cancels, however they race, take the status through one lifecycle,
\* and a booked slot is never lost to the end of a session.
THEOREM LifecycleImplements == SpaceSpec => KeepsLifecycle
<1>1. SpaceInit => status = "none"
  BY DEF SpaceInit
<1>2. SpaceShape /\ SpaceShape' /\ [SpaceNext]_spaceVars =>
        [LifecycleNext]_<<status, Booked, plan.oneShot>>
  <2> SUFFICES ASSUME SpaceShape, SpaceShape', [SpaceNext]_spaceVars
               PROVE  LifecycleNext \/ UNCHANGED <<status, Booked, plan.oneShot>>
    OBVIOUS
  <2>1. CASE UNCHANGED spaceVars
    BY <2>1 DEF spaceVars, Booked
  <2>2. ASSUME NEW h \in Handlers, SpaceStep(h)
        PROVE  LifecycleNext \/ UNCHANGED <<status, Booked, plan.oneShot>>
    BY <2>2, StepOfLifecycle DEF Aside, Booked
  <2> QED
    BY <2>1, <2>2, ArrivalOfLifecycle
<1> QED
  BY <1>1, <1>2, SpaceShapeHolds, PTL DEF SpaceSpec, KeepsLifecycle, SL!Lifecycle, LifecycleNext

-----------------------------------------------------------------------------
(* Whoever may not come back stays out.                                     *)

\* The host is never restricted, and who is taking a seat in spite of it was let
\* in before the removal was done.
SeatsGuarded ==
  /\ Host \notin restricted
  /\ \A h \in Handlers : Pc(h, "seat") /\ handler[h].user \in restricted => handler[h].user \in slipped
  /\ RestrictedStayOut

\* No one but the host gets a seat, or is on the way to one, in this step.
SeatsAside ==
  /\ UNCHANGED <<restricted, slipped>>
  /\ \A u \in Members : row'[u] = "in" => row[u] = "in" \/ u = Host
  /\ \A h \in Handlers : handler'[h].pc = "seat" => handler'[h] = handler[h]

\* Only Admit, SeatMember and Restrict do more than that.
LEMMA StepsAside ==
  ASSUME SpaceShape, NEW h \in Handlers, SpaceStep(h),
         ~ Admit(h), ~ SeatMember(h), ~ Restrict(h)
  PROVE  SeatsAside
<1> USE DEF roomRow, people, past
<1>a. handler \in HandlerTable /\ row \in [Members -> {"absent", "in", "left"}]
  BY DEF SpaceShape, SpaceTypeOK
<1>b. \A pc \in HandlerPcs \ {"seat"} : Proceed(h, pc) =>
        \A g \in Handlers : handler'[g].pc = "seat" => handler'[g] = handler[g]
  BY <1>a DEF Proceed, HandlerTable
<1>c. Release(h) => \A g \in Handlers : handler'[g].pc = "seat" => handler'[g] = handler[g]
  BY <1>a DEF Release, Idle, HandlerTable
<1>1. CASE ProvisionSpace(h)
  <2>1. Release(h) \/ \E pc \in {"reconcile"} : Proceed(h, pc)
    BY <1>1 DEF ProvisionSpace
  <2>2. \A g \in Handlers : handler'[g].pc = "seat" => handler'[g] = handler[g]
    BY <1>b, <1>c, <2>1 DEF HandlerPcs
  <2>3. /\ UNCHANGED <<restricted, slipped>>
        /\ \A u \in Members : row'[u] = "in" => row[u] = "in" \/ u = Host
    BY <1>a, <1>1 DEF ProvisionSpace
  <2> QED
    BY <2>2, <2>3 DEF SeatsAside
<1>2. CASE AutoStart(h)
  <2>1. Release(h) \/ \E pc \in {"provision", "reconcile"} : Proceed(h, pc)
    BY <1>2 DEF AutoStart
  <2>2. \A g \in Handlers : handler'[g].pc = "seat" => handler'[g] = handler[g]
    BY <1>b, <1>c, <2>1 DEF HandlerPcs
  <2>3. /\ UNCHANGED <<restricted, slipped>>
        /\ \A u \in Members : row'[u] = "in" => row[u] = "in" \/ u = Host
    BY <1>a, <1>2 DEF AutoStart, GoLive
  <2> QED
    BY <2>2, <2>3 DEF SeatsAside
<1>3. CASE MarkLive(h)
  <2>1. Release(h) \/ \E pc \in {"provision"} : Proceed(h, pc)
    BY <1>3 DEF MarkLive
  <2>2. \A g \in Handlers : handler'[g].pc = "seat" => handler'[g] = handler[g]
    BY <1>b, <1>c, <2>1 DEF HandlerPcs
  <2>3. /\ UNCHANGED <<restricted, slipped>>
        /\ \A u \in Members : row'[u] = "in" => row[u] = "in" \/ u = Host
    BY <1>a, <1>3 DEF MarkLive, GoLive
  <2> QED
    BY <2>2, <2>3 DEF SeatsAside
<1>4. CASE Reconcile(h)
  <2>1. \/ Release(h) \/ \E pc \in {"drop", "expire", "end", "mark_live", "admit", "token", "open", "recheck"} : Proceed(h, pc)
        \/ handler' = [handler EXCEPT ![h].pc = "presence",
                          ![h].flag = HasCome(After(due.live, EmptyGrace))]
    BY <1>4 DEF Reconcile, Admitted
  <2>2. \A g \in Handlers : handler'[g].pc = "seat" => handler'[g] = handler[g]
    BY <1>a, <1>b, <1>c, <2>1 DEF HandlerPcs, HandlerTable
  <2>3. /\ UNCHANGED <<restricted, slipped>>
        /\ \A u \in Members : row'[u] = "in" => row[u] = "in" \/ u = Host
    BY <1>a, <1>4 DEF Reconcile
  <2> QED
    BY <2>2, <2>3 DEF SeatsAside
<1>17. CASE CheckPresence(h)
  <2>1. Release(h) \/ \E pc \in {"end", "mark_live", "admit", "token", "open", "recheck"} : Proceed(h, pc)
    BY <1>17 DEF CheckPresence, Admitted
  <2>2. \A g \in Handlers : handler'[g].pc = "seat" => handler'[g] = handler[g]
    BY <1>b, <1>c, <2>1 DEF HandlerPcs
  <2>3. /\ UNCHANGED <<restricted, slipped>>
        /\ \A u \in Members : row'[u] = "in" => row[u] = "in" \/ u = Host
    BY <1>a, <1>17 DEF CheckPresence
  <2> QED
    BY <2>2, <2>3 DEF SeatsAside
<1>18. CASE ExpireSlot(h)
  <2>1. Release(h) \/ \E pc \in {"drop", "mark_live", "admit", "token", "open", "recheck"} : Proceed(h, pc)
    BY <1>18 DEF ExpireSlot, Admitted
  <2>2. \A g \in Handlers : handler'[g].pc = "seat" => handler'[g] = handler[g]
    BY <1>b, <1>c, <2>1 DEF HandlerPcs
  <2>3. /\ UNCHANGED <<restricted, slipped>>
        /\ \A u \in Members : row'[u] = "in" => row[u] = "in" \/ u = Host
    BY <1>a, <1>18 DEF ExpireSlot
  <2> QED
    BY <2>2, <2>3 DEF SeatsAside
<1>19. CASE RecheckRoom(h)
  <2>1. Release(h) \/ \E pc \in {"drop_again"} : Proceed(h, pc)
    BY <1>19 DEF RecheckRoom
  <2>2. \A g \in Handlers : handler'[g].pc = "seat" => handler'[g] = handler[g]
    BY <1>b, <1>c, <2>1 DEF HandlerPcs
  <2>3. /\ UNCHANGED <<restricted, slipped>>
        /\ \A u \in Members : row'[u] = "in" => row[u] = "in" \/ u = Host
    BY <1>a, <1>19 DEF RecheckRoom
  <2> QED
    BY <2>2, <2>3 DEF SeatsAside
<1>20. CASE ClearGate(h)
  <2>1. Release(h) \/ \E pc \in {"open"} : Proceed(h, pc)
    BY <1>20 DEF ClearGate
  <2>2. \A g \in Handlers : handler'[g].pc = "seat" => handler'[g] = handler[g]
    BY <1>b, <1>c, <2>1 DEF HandlerPcs
  <2>3. /\ UNCHANGED <<restricted, slipped>>
        /\ \A u \in Members : row'[u] = "in" => row[u] = "in" \/ u = Host
    BY <1>a, <1>20 DEF ClearGate
  <2> QED
    BY <2>2, <2>3 DEF SeatsAside
<1>21. CASE LeaveLobby(h)
  <2>1. Release(h) \/ \E pc \in {"open"} : Proceed(h, pc)
    BY <1>21 DEF LeaveLobby
  <2>2. \A g \in Handlers : handler'[g].pc = "seat" => handler'[g] = handler[g]
    BY <1>b, <1>c, <2>1 DEF HandlerPcs
  <2>3. /\ UNCHANGED <<restricted, slipped>>
        /\ \A u \in Members : row'[u] = "in" => row[u] = "in" \/ u = Host
    BY <1>a, <1>21 DEF LeaveLobby, GoneAt
  <2> QED
    BY <2>2, <2>3 DEF SeatsAside
<1>5. CASE EndSession(h)
  <2>1. Release(h) \/ \E pc \in {"drop", "end_tx"} : Proceed(h, pc)
    BY <1>5 DEF EndSession
  <2>2. \A g \in Handlers : handler'[g].pc = "seat" => handler'[g] = handler[g]
    BY <1>b, <1>c, <2>1 DEF HandlerPcs
  <2>3. /\ UNCHANGED <<restricted, slipped>>
        /\ \A u \in Members : row'[u] = "in" => row[u] = "in" \/ u = Host
    BY <1>a, <1>5 DEF EndSession
  <2> QED
    BY <2>2, <2>3 DEF SeatsAside
<1>6. CASE EndSpaceTx(h)
  <2>1. Release(h) \/ \E pc \in {"drop"} : Proceed(h, pc)
    BY <1>6 DEF EndSpaceTx
  <2>2. \A g \in Handlers : handler'[g].pc = "seat" => handler'[g] = handler[g]
    BY <1>b, <1>c, <2>1 DEF HandlerPcs
  <2>3. /\ UNCHANGED <<restricted, slipped>>
        /\ \A u \in Members : row'[u] = "in" => row[u] = "in" \/ u = Host
    BY <1>a, <1>6 DEF EndSpaceTx
  <2> QED
    BY <2>2, <2>3 DEF SeatsAside
<1>7. CASE DropSession(h)
  <2>1. Release(h) \/ \E pc \in {"drop_again"} : Proceed(h, pc)
    BY <1>7 DEF DropSession
  <2>2. \A g \in Handlers : handler'[g].pc = "seat" => handler'[g] = handler[g]
    BY <1>b, <1>c, <2>1 DEF HandlerPcs
  <2>3. /\ UNCHANGED <<restricted, slipped>>
        /\ \A u \in Members : row'[u] = "in" => row[u] = "in" \/ u = Host
    BY <1>a, <1>7 DEF DropSession
  <2> QED
    BY <2>2, <2>3 DEF SeatsAside
<1>8. CASE RefreshExpiry(h)
  <2>1. Release(h) \/ \E pc \in {"token"} : Proceed(h, pc)
    BY <1>8 DEF RefreshExpiry
  <2>2. \A g \in Handlers : handler'[g].pc = "seat" => handler'[g] = handler[g]
    BY <1>b, <1>c, <2>1 DEF HandlerPcs
  <2>3. /\ UNCHANGED <<restricted, slipped>>
        /\ \A u \in Members : row'[u] = "in" => row[u] = "in" \/ u = Host
    BY <1>a, <1>8 DEF RefreshExpiry
  <2> QED
    BY <2>2, <2>3 DEF SeatsAside
<1>9. CASE CheckClock(h)
  <2>1. Release(h) \/ \E pc \in {"restart", "gate"} : Proceed(h, pc)
    BY <1>9 DEF CheckClock
  <2>2. \A g \in Handlers : handler'[g].pc = "seat" => handler'[g] = handler[g]
    BY <1>b, <1>c, <2>1 DEF HandlerPcs
  <2>3. /\ UNCHANGED <<restricted, slipped>>
        /\ \A u \in Members : row'[u] = "in" => row[u] = "in" \/ u = Host
    BY <1>a, <1>9 DEF CheckClock
  <2> QED
    BY <2>2, <2>3 DEF SeatsAside
<1>10. CASE RestartClock(h)
  <2>1. Release(h) \/ \E pc \in {"gate"} : Proceed(h, pc)
    BY <1>10 DEF RestartClock
  <2>2. \A g \in Handlers : handler'[g].pc = "seat" => handler'[g] = handler[g]
    BY <1>b, <1>c, <2>1 DEF HandlerPcs
  <2>3. /\ UNCHANGED <<restricted, slipped>>
        /\ \A u \in Members : row'[u] = "in" => row[u] = "in" \/ u = Host
    BY <1>a, <1>10 DEF RestartClock
  <2> QED
    BY <2>2, <2>3 DEF SeatsAside
<1>11. CASE PassGate(h)
  <2>1. Release(h) \/ \E pc \in {"gate"} : Proceed(h, pc)
    BY <1>11 DEF PassGate
  <2>2. \A g \in Handlers : handler'[g].pc = "seat" => handler'[g] = handler[g]
    BY <1>b, <1>c, <2>1 DEF HandlerPcs
  <2>3. /\ UNCHANGED <<restricted, slipped>>
        /\ \A u \in Members : row'[u] = "in" => row[u] = "in" \/ u = Host
    BY <1>a, <1>11 DEF PassGate
  <2> QED
    BY <2>2, <2>3 DEF SeatsAside
<1>12. CASE OpenMeeting(h)
  <2>1. Release(h) \/ \E pc \in {"unlock"} : Proceed(h, pc)
    BY <1>12 DEF OpenMeeting
  <2>2. \A g \in Handlers : handler'[g].pc = "seat" => handler'[g] = handler[g]
    BY <1>b, <1>c, <2>1 DEF HandlerPcs
  <2>3. /\ UNCHANGED <<restricted, slipped>>
        /\ \A u \in Members : row'[u] = "in" => row[u] = "in" \/ u = Host
    BY <1>a, <1>12 DEF OpenMeeting
  <2> QED
    BY <2>2, <2>3 DEF SeatsAside
<1>13. CASE LeaveTx(h)
  <2>1. handler' = [handler EXCEPT ![h].pc = "leave_commit", ![h].flag = Active \subseteq {handler[h].user}]
    BY <1>13 DEF LeaveTx
  <2>2. \A g \in Handlers : handler'[g].pc = "seat" => handler'[g] = handler[g]
    BY <1>a, <2>1 DEF HandlerTable
  <2> QED
    BY <1>13, <2>2 DEF LeaveTx, SeatsAside
<1>14. CASE LeaveCommit(h)
  <2>1. Release(h) \/ \E pc \in {"drop"} : Proceed(h, pc)
    BY <1>14 DEF LeaveCommit
  <2>2. \A g \in Handlers : handler'[g].pc = "seat" => handler'[g] = handler[g]
    BY <1>b, <1>c, <2>1 DEF HandlerPcs
  <2>3. /\ UNCHANGED <<restricted, slipped>>
        /\ \A u \in Members : row'[u] = "in" => row[u] = "in" \/ u = Host
    BY <1>a, <1>14 DEF LeaveCommit
  <2> QED
    BY <2>2, <2>3 DEF SeatsAside
<1>15. CASE KickOut(h)
  <2>1. Release(h) \/ \E pc \in {"uninvite"} : Proceed(h, pc)
    BY <1>15 DEF KickOut
  <2>2. \A g \in Handlers : handler'[g].pc = "seat" => handler'[g] = handler[g]
    BY <1>b, <1>c, <2>1 DEF HandlerPcs
  <2>3. /\ UNCHANGED <<restricted, slipped>>
        /\ \A u \in Members : row'[u] = "in" => row[u] = "in" \/ u = Host
    BY <1>a, <1>15 DEF KickOut, GoneAt
  <2> QED
    BY <2>2, <2>3 DEF SeatsAside
<1>16. CASE Uninvite(h)
  <2>1. Release(h) \/ \E pc \in {"restrict"} : Proceed(h, pc)
    BY <1>16 DEF Uninvite
  <2>2. \A g \in Handlers : handler'[g].pc = "seat" => handler'[g] = handler[g]
    BY <1>b, <1>c, <2>1 DEF HandlerPcs
  <2>3. /\ UNCHANGED <<restricted, slipped>>
        /\ \A u \in Members : row'[u] = "in" => row[u] = "in" \/ u = Host
    BY <1>a, <1>16 DEF Uninvite
  <2> QED
    BY <2>2, <2>3 DEF SeatsAside
<1> QED
  BY <1>1, <1>2, <1>3, <1>4, <1>5, <1>6, <1>7, <1>8, <1>9, <1>10, <1>11, <1>12, <1>13,
     <1>14, <1>15, <1>16, <1>17, <1>18, <1>19, <1>20, <1>21 DEF SpaceStep

\* Neither do the requests, the sweep, time and crashes.
LEMMA ArrivalsAside ==
  ASSUME SpaceShape, SpaceNext, \A h \in Handlers : ~ SpaceStep(h)
  PROVE  SeatsAside
<1> USE DEF roomRow, people, past
<1>a. handler \in HandlerTable /\ row \in [Members -> {"absent", "in", "left"}]
  BY DEF SpaceShape, SpaceTypeOK
<1>b. \A h \in Handlers, pc \in HandlerPcs \ {"seat"}, op \in HandlerOps,
u \in Members \cup {None},
         flag \in BOOLEAN :
        Serve(h, pc, op, u, flag) =>
          \A g \in Handlers : handler'[g].pc = "seat" => handler'[g] = handler[g]
  BY <1>a DEF Serve, HandlerTable
<1>c. handler' = handler => \A g \in Handlers : handler'[g].pc = "seat" => handler'[g] = handler[g]
  OBVIOUS
<1>d. Guests \subseteq Members /\ Host \in Members
  BY DEF Members
<1>1. ASSUME NEW h \in Handlers, NEW p \in Plans, NEW friends \in {{}, Guests},
             CreateSpace(h, p, friends)
      PROVE  SeatsAside
  BY <1>a, <1>b, <1>c, <1>d, <1>1 DEF CreateSpace, SeatsAside, HandlerPcs, HandlerOps, Unnamed
<1>2. ASSUME NEW h \in Handlers, HostEnds(h) PROVE SeatsAside
  BY <1>b, <1>c, <1>d, <1>2 DEF HostEnds, SeatsAside, HandlerPcs, HandlerOps, Unnamed
<1>3. ASSUME NEW h \in Handlers, Sweep(h) \/ View(h) \/ ListSpaces(h) PROVE SeatsAside
  BY <1>b, <1>3 DEF Sweep, View, ListSpaces, SeatsAside, HandlerPcs, HandlerOps
<1>4. ASSUME NEW h \in Handlers, NEW u \in Members, Leave(h, u) PROVE SeatsAside
  BY <1>b, <1>4 DEF Leave, SeatsAside, HandlerPcs, HandlerOps
<1>5. ASSUME NEW h \in Handlers, NEW op \in {"start", "open", "join", "token"}, NEW u \in Members,
             Arrive(h, op, u)
      PROVE  SeatsAside
  <2> DEFINE pc == IF op \in {"join", "token"} THEN "auto_start" ELSE "reconcile"
  <2>1. Serve(h, pc, op, u, FALSE) /\ pc \in HandlerPcs \ {"seat"} /\ op \in HandlerOps
    BY <1>5 DEF Arrive, HandlerPcs, HandlerOps, Unnamed
  <2> HIDE DEF pc
  <2> QED
    BY <1>b, <1>5, <2>1 DEF Arrive, SeatsAside
<1>6. ASSUME NEW h \in Handlers, NEW u \in Guests, NEW restrict \in BOOLEAN, Kick(h, u, restrict)
      PROVE  SeatsAside
  BY <1>b, <1>c, <1>d, <1>6 DEF Kick, SeatsAside, HandlerPcs, HandlerOps, Unnamed
<1>8. CASE CancelSpace
  BY <1>8 DEF CancelSpace, SeatsAside
<1>9. ASSUME NEW start \in 1..2, NEW end \in {3, None}, Reschedule(start, end) PROVE SeatsAside
  BY <1>9 DEF Reschedule, SeatsAside
<1>10. CASE Hour
  BY <1>10 DEF Hour, SeatsAside
<1>11. CASE ServerStops
  BY <1>11 DEF ServerStops, SeatsAside, Idle
<1> QED
  BY <1>1, <1>2, <1>3, <1>4, <1>5, <1>6, <1>8, <1>9, <1>10, <1>11 DEF SpaceNext

\* A step that gives no seat keeps the guard.
LEMMA AsideGuards ==
  ASSUME SpaceShape, SeatsGuarded, SeatsAside PROVE SeatsGuarded'
<1>1. restricted \subseteq Members
  BY DEF SpaceShape, SpaceTypeOK
<1> QED
  BY <1>1 DEF SeatsGuarded, SeatsAside, RestrictedStayOut, Pc

\* Every step keeps the guard.
LEMMA SeatsGuardedNext == SpaceShape /\ SeatsGuarded /\ [SpaceNext]_spaceVars => SeatsGuarded'
<1> SUFFICES ASSUME SpaceShape, SeatsGuarded, [SpaceNext]_spaceVars PROVE SeatsGuarded'
  OBVIOUS
<1> USE DEF roomRow, people, past
<1>a. handler \in HandlerTable /\ row \in [Members -> {"absent", "in", "left"}]
      /\ restricted \subseteq Members
  BY DEF SpaceShape, SpaceTypeOK
<1>1. CASE UNCHANGED spaceVars
  BY <1>1 DEF spaceVars, SeatsGuarded, RestrictedStayOut, Pc
<1>2. ASSUME NEW h \in Handlers, Admit(h) PROVE SeatsGuarded'
  <2>1. /\ UNCHANGED <<row, restricted, slipped>>
        /\ \/ Release(h) \/ Proceed(h, "token")
           \/ /\ handler' = [handler EXCEPT ![h].pc = "seat", ![h].flag = (status = "live")]
              /\ MayEnter(handler[h].user)
    BY <1>2 DEF Admit
  <2>2. MayEnter(handler[h].user) => handler[h].user \notin restricted
    BY DEF MayEnter, SeatsGuarded
  <2>3. \A g \in Handlers : handler'[g].pc = "seat" =>
          handler'[g] = handler[g] \/ handler'[g].user \notin restricted
    <3>1. CASE Release(h)
      BY <1>a, <3>1 DEF Release, Idle, HandlerTable
    <3>2. CASE Proceed(h, "token")
      BY <1>a, <3>2 DEF Proceed, HandlerTable
    <3>3. CASE ~ Release(h) /\ ~ Proceed(h, "token")
      BY <1>a, <2>1, <2>2, <3>3 DEF HandlerTable
    <3> QED
      BY <3>1, <3>2, <3>3
  <2> QED
    BY <2>1, <2>3 DEF SeatsGuarded, RestrictedStayOut, Pc
<1>3. ASSUME NEW h \in Handlers, SeatMember(h) PROVE SeatsGuarded'
  <2>1. /\ UNCHANGED <<restricted, slipped>> /\ Pc(h, "seat")
        /\ row' = [row EXCEPT ![handler[h].user] = "in"]
        /\ Proceed(h, "refresh") \/ Release(h)
    BY <1>3 DEF SeatMember
  <2>2. \A g \in Handlers : handler'[g].pc = "seat" => handler'[g] = handler[g]
    <3>1. CASE Release(h)
      BY <1>a, <3>1 DEF Release, Idle, HandlerTable
    <3>2. CASE Proceed(h, "refresh")
      BY <1>a, <3>2 DEF Proceed, HandlerTable
    <3> QED
      BY <2>1, <3>1, <3>2
  <2>3. \A u \in restricted : row'[u] = "in" => row[u] = "in" \/ u = handler[h].user
    BY <1>a, <2>1
  <2> QED
    BY <2>1, <2>2, <2>3 DEF SeatsGuarded, RestrictedStayOut, Pc
<1>4. ASSUME NEW h \in Handlers, Restrict(h) PROVE SeatsGuarded'
  <2> DEFINE u == handler[h].user
             back == row[u] = "in" \/ \E g \in Handlers : Pc(g, "seat") /\ handler[g].user = u
  <2>1. /\ row' = row /\ Release(h) /\ restricted' = restricted \cup {u}
        /\ slipped' = IF back THEN slipped \cup {u} ELSE slipped
    BY <1>4 DEF Restrict
  <2>2. u \in Guests /\ u # Host
    BY <1>4, SpaceAssumption DEF Restrict, SpaceShape, HandlersServe, Pc
  <2>3. \A g \in Handlers : handler'[g].pc = "seat" => handler'[g] = handler[g]
    BY <1>a, <2>1 DEF Release, Idle, HandlerTable
  <2>4. slipped \subseteq slipped' /\ (back => u \in slipped')
    BY <2>1
  <2>5. RestrictedStayOut'
    BY <2>1, <2>4 DEF SeatsGuarded, RestrictedStayOut
  <2>6. \A g \in Handlers : Pc(g,
  "seat")' /\ handler'[g].user \in restricted' => handler'[g].user \in slipped'
    BY <2>1, <2>3, <2>4 DEF SeatsGuarded, Pc
  <2> QED
    BY <2>1, <2>2, <2>5, <2>6 DEF SeatsGuarded
<1>5. ASSUME NEW h \in Handlers, SpaceStep(h), ~ Admit(h), ~ SeatMember(h), ~ Restrict(h)
      PROVE  SeatsGuarded'
  BY <1>5, StepsAside, AsideGuards
<1>6. CASE SpaceNext /\ \A h \in Handlers : ~ SpaceStep(h)
  BY <1>6, ArrivalsAside, AsideGuards
<1> QED
  BY <1>1, <1>2, <1>3, <1>4, <1>5, <1>6

\* A removed member that may not come back is out, by whatever way in, but for a
\* join that was under way during the removal.
THEOREM RestrictedOut == SpaceSpec => []RestrictedStayOut
<1>1. SpaceInit => SeatsGuarded
  BY DEF SpaceInit, SeatsGuarded, RestrictedStayOut
<1>2. SeatsGuarded => RestrictedStayOut
  BY DEF SeatsGuarded
<1> QED
  BY <1>1, <1>2, SpaceShapeHolds, SeatsGuardedNext, PTL DEF SpaceSpec

=============================================================================
