-------------------------- MODULE MediaRoomProofs --------------------------
(***************************************************************************)
(* Proofs about a room of the media service, for any accounts, sockets,    *)
(* instances, handler slots and bounds: what it keeps in memory and in     *)
(* Redis keeps its type, and an emptied room releases its router.          *)
(***************************************************************************)
EXTENDS MediaRoomProperties, TLAPS

RemovalOps == {"join", "leave", "kick", "teardown", "move"}
JoinPcs == {"lookup", "cached", "owned", "count", "cleared", "claim", "reread", "wrong",
            "create", "save", "enter"}

\* What a handler knows at each of its places.
Shaped(k) ==
  /\ k.pc # "free" => k.inst \in Instances
  /\ k.op = "join" => k.sock \in Sockets
  /\ k.pc \in JoinPcs => k.op = "join" /\ k.user \in Users
  /\ k.pc = "unpublish" => k.op \in RemovalOps /\ k.user \in Users /\ k.held \in Sockets
  /\ k.pc \in {"release", "close", "forget"} => k.op \in {"leave", "kick", "teardown"}
  /\ k.pc \in {"release", "close"} => k.yes \/ (k.user \in Users /\ k.held \in Sockets)
  /\ k.pc = "forget" => k.user \in Users /\ k.held \in Sockets
  /\ k.pc = "next" => k.op = "teardown"
  /\ k.pc \in {"make", "produce"} => k.held \in Sockets

TasksShaped == \A t \in Tasks : Shaped(task[t])

\* A connected socket has a user and an instance.
LinksShaped ==
  \A s \in Sockets : \/ link[s].state \in {"new", "closed"}
                     \/ link[s].user \in Users /\ link[s].inst \in Instances

\* Whoever has a session is listed in roomMembers.
Listed == \A i \in Instances, u \in Users : present[i][u] # None => u \in members[i]

MediaShape == MediaTypeOK /\ TasksShaped /\ LinksShaped /\ Listed

Tasked == task' \in [Tasks -> Task] /\ TasksShaped'
SessionsTyped ==
  /\ present' \in [Instances -> [Users -> Sockets \cup {None}]]
  /\ members' \in [Instances -> SUBSET Users]
  /\ transport' \in [Sockets -> Nat]
  /\ producing' \in SUBSET Sockets /\ deserted' \in SUBSET Instances
  /\ Listed'
RoomsTyped ==
  /\ router' \in [Instances -> Nat] /\ running' \in [Instances -> SUBSET Nat]
  /\ transport' \in [Sockets -> Nat] /\ producing' \in SUBSET Sockets
  /\ deserted' \in SUBSET Instances

-----------------------------------------------------------------------------
(* What a step does to the table of handlers                                *)

\* A handler that becomes a shaped one.
LEMMA BecomesShaped ==
  ASSUME MediaShape, NEW t \in Tasks, NEW k \in Task, Shaped(k), task' = [task EXCEPT ![t] = k]
  PROVE  Tasked
<1>1. task \in [Tasks -> Task]
  BY DEF MediaShape, MediaTypeOK
<1>2. task' \in [Tasks -> Task] /\ task'[t] = k /\ \A g \in Tasks \ {t} : task'[g] = task[g]
  BY <1>1
<1> QED
  BY <1>2 DEF MediaShape, TasksShaped, Tasked

\* A free slot is shaped.
LEMMA NoTaskShaped == NoTask \in Task /\ Shaped(NoTask)
BY DEF NoTask, Task, TaskPcs, Shaped, JoinPcs

\* A handler that moves to a place it is shaped for.
LEMMA GoesShaped ==
  ASSUME MediaShape, NEW t \in Tasks, NEW pc \in TaskPcs, Goes(t, pc),
         Shaped([task[t] EXCEPT !.pc = pc])
  PROVE  Tasked
<1>1. task[t] \in Task
  BY DEF MediaShape, MediaTypeOK
<1>2. [task[t] EXCEPT !.pc = pc] \in Task
  BY <1>1 DEF Task
<1>3. task' = [task EXCEPT ![t] = [task[t] EXCEPT !.pc = pc]]
  BY DEF Goes
<1> QED
  BY <1>2, <1>3, BecomesShaped

\* A handler that is done.
LEMMA EndsShaped ==
  ASSUME MediaShape, NEW t \in Tasks, Ends(t) PROVE Tasked
BY BecomesShaped, NoTaskShaped DEF Ends

\* What follows a removal is shaped.
LEMMA AfterRemovalShaped ==
  ASSUME MediaShape, NEW t \in Tasks, NEW k \in Task, k.op \in RemovalOps, k.inst \in Instances,
         k.user \in Users, k.op = "join" => k.sock \in Sockets,
         NEW gone \in BOOLEAN, gone => k.held \in Sockets, NEW last \in BOOLEAN,
         AfterRemoval(t, k, gone, last)
  PROVE  Tasked
<1>1. owner \in Instances \cup {None} /\ router[k.inst] \in Nat
  BY DEF MediaShape, MediaTypeOK
<1>2. CASE k.op = "join"
  <2> DEFINE pc == IF router[k.inst] # 0 THEN "cached" ELSE "owned"
             new == [k EXCEPT !.read = owner, !.rtr = router[k.inst], !.pc = pc]
  <2>1. task' = [task EXCEPT ![t] = new]
    BY <1>2 DEF AfterRemoval
  <2>2. new \in Task /\ new.pc = pc /\ new.inst = k.inst /\ new.op = k.op /\ new.sock = k.sock
        /\ new.user = k.user
    BY <1>1 DEF Task, TaskPcs
  <2>3. Shaped(new)
    BY <1>2, <2>2 DEF Shaped, JoinPcs
  <2> HIDE DEF new
  <2> QED
    BY <2>1, <2>2, <2>3, BecomesShaped
<1>3. CASE k.op \in {"leave", "kick", "teardown"} /\ gone /\ last
  <2> DEFINE new == [k EXCEPT !.pc = "release", !.read = owner]
  <2>1. task' = [task EXCEPT ![t] = new]
    BY <1>3 DEF AfterRemoval
  <2>2. new \in Task /\ new.pc = "release" /\ new.inst = k.inst /\ new.op = k.op
        /\ new.user = k.user /\ new.held = k.held
    BY <1>1 DEF Task, TaskPcs
  <2>3. Shaped(new)
    BY <1>3, <2>2 DEF Shaped, JoinPcs, RemovalOps
  <2> HIDE DEF new
  <2> QED
    BY <2>1, <2>2, <2>3, BecomesShaped
<1>4. CASE k.op \in {"leave", "kick", "teardown"} /\ gone /\ ~ last
  <2> DEFINE new == [k EXCEPT !.pc = "forget"]
  <2>1. task' = [task EXCEPT ![t] = new]
    BY <1>4 DEF AfterRemoval
  <2>2. new \in Task /\ new.pc = "forget" /\ new.inst = k.inst /\ new.op = k.op
        /\ new.user = k.user /\ new.held = k.held
    BY DEF Task, TaskPcs
  <2>3. Shaped(new)
    BY <1>4, <2>2 DEF Shaped, JoinPcs, RemovalOps
  <2> HIDE DEF new
  <2> QED
    BY <2>1, <2>2, <2>3, BecomesShaped
<1>5. CASE k.op = "teardown" /\ ~ gone
  <2> DEFINE new == [k EXCEPT !.pc = "next"]
  <2>1. task' = [task EXCEPT ![t] = new]
    BY <1>5 DEF AfterRemoval
  <2>2. new \in Task /\ new.pc = "next" /\ new.inst = k.inst /\ new.op = k.op
    BY DEF Task, TaskPcs
  <2>3. Shaped(new)
    BY <1>5, <2>2 DEF Shaped, JoinPcs
  <2> HIDE DEF new
  <2> QED
    BY <2>1, <2>2, <2>3, BecomesShaped
<1>6. CASE k.op = "move" \/ (k.op \in {"leave", "kick"} /\ ~ gone)
  <2>1. task' = [task EXCEPT ![t] = NoTask]
    BY <1>6 DEF AfterRemoval
  <2> QED
    BY <2>1, NoTaskShaped, BecomesShaped
<1> QED
  BY <1>2, <1>3, <1>4, <1>5, <1>6 DEF RemovalOps

\* A removal keeps the types of the sessions and the shape of the handlers.
LEMMA RemovalTyped ==
  ASSUME MediaShape, NEW t \in Tasks, NEW k \in Task, k.op \in RemovalOps, k.inst \in Instances,
         k.user \in Users, k.op = "join" => k.sock \in Sockets,
         TakeOut(t, k)
  PROVE  Tasked /\ SessionsTyped
<1>1. /\ present \in [Instances -> [Users -> Sockets \cup {None}]]
      /\ members \in [Instances -> SUBSET Users]
      /\ transport \in [Sockets -> Nat] /\ producing \in SUBSET Sockets
      /\ deserted \in SUBSET Instances /\ Listed
  BY DEF MediaShape, MediaTypeOK
<1>2. (k.held # None) => k.held \in Sockets
  BY DEF Task
<1>3. AfterRemoval(t, k, k.held # None, members[k.inst] = {k.user})
  BY DEF TakeOut
<1>4. Tasked
  BY <1>2, <1>3, AfterRemovalShaped
<1>5. SessionsTyped
  <2>1. CASE k.held # None
    <3>1. /\ present' = [present EXCEPT ![k.inst][k.user] = None]
          /\ members' = [members EXCEPT ![k.inst] = @ \ {k.user}]
          /\ transport' = [transport EXCEPT ![k.held] = 0]
          /\ producing' = producing \ {k.held}
          /\ deserted' \in {deserted, deserted \cup {k.inst}}
      BY <2>1 DEF TakeOut
    <3>2. Listed'
      BY <1>1, <3>1 DEF Listed
    <3> QED
      BY <1>1, <3>1, <3>2 DEF SessionsTyped
  <2>2. CASE k.held = None
    BY <1>1, <2>2 DEF TakeOut, SessionsTyped, Listed, sessions
  <2> QED
    BY <2>1, <2>2
<1> QED
  BY <1>4, <1>5

\* So does its start.
LEMMA BeginRemovalTyped ==
  ASSUME MediaShape, NEW t \in Tasks, NEW k \in Task, k.op \in RemovalOps, k.inst \in Instances,
         k.user \in Users, k.op = "join" => k.sock \in Sockets,
         BeginRemoval(t, k)
  PROVE  Tasked /\ SessionsTyped
<1> DEFINE now == [k EXCEPT !.held = present[k.inst][k.user]]
<1>1. /\ present \in [Instances -> [Users -> Sockets \cup {None}]]
      /\ members \in [Instances -> SUBSET Users]
      /\ transport \in [Sockets -> Nat] /\ producing \in SUBSET Sockets
      /\ deserted \in SUBSET Instances /\ Listed
  BY DEF MediaShape, MediaTypeOK
<1>2. /\ now \in Task /\ now.op = k.op /\ now.inst = k.inst /\ now.user = k.user
      /\ now.sock = k.sock
  BY <1>1 DEF Task
<1>3. CASE /\ now.held \in producing
           /\ task' = [task EXCEPT ![t] = [now EXCEPT !.pc = "unpublish"]]
           /\ UNCHANGED sessions
  <2> DEFINE new == [now EXCEPT !.pc = "unpublish"]
  <2>1. /\ new \in Task /\ new.pc = "unpublish" /\ new.op = k.op /\ new.inst = k.inst
        /\ new.user = k.user /\ new.sock = k.sock /\ new.held \in Sockets
    BY <1>1, <1>2, <1>3 DEF Task, TaskPcs
  <2>2. Shaped(new)
    BY <2>1 DEF Shaped, JoinPcs
  <2>3. Tasked
    BY <1>3, <2>1, <2>2, BecomesShaped
  <2>4. SessionsTyped
    BY <1>1, <1>3 DEF SessionsTyped, Listed, sessions
  <2> QED
    BY <2>3, <2>4
<1>4. CASE TakeOut(t, now)
  BY <1>2, <1>4, RemovalTyped
<1> QED
  BY <1>3, <1>4 DEF BeginRemoval

\* A handler that is started serves whom it was started for.
LEMMA SpawnType ==
  ASSUME NEW op \in TaskOps, NEW s \in Sockets \cup {None}, NEW i \in Instances,
         NEW u \in Users \cup {None}
  PROVE  /\ Spawn(op, s, i, u) \in Task
         /\ Spawn(op, s, i, u).op = op /\ Spawn(op, s, i, u).sock = s
         /\ Spawn(op, s, i, u).inst = i /\ Spawn(op, s, i, u).user = u
BY DEF Spawn, NoTask, Task, TaskPcs

\* Closing a router keeps the types.
LEMMA CloseRouterTyped ==
  ASSUME MediaShape, NEW i \in Instances, CloseRouter(i) PROVE RoomsTyped
BY DEF MediaShape, MediaTypeOK, CloseRouter, RoomsTyped

\* The invariant holds before anybody connects.
LEMMA MediaShapeInit == MediaInit => MediaShape
<1> SUFFICES ASSUME MediaInit PROVE MediaShape
  OBVIOUS
<1>1. task \in [Tasks -> Task] /\ TasksShaped
  BY NoTaskShaped DEF MediaInit, TasksShaped
<1>2. link \in [Sockets -> Link] /\ LinksShaped
  BY DEF MediaInit, Link, LinksShaped
<1>3. MediaTypeOK /\ Listed
  BY <1>1, <1>2 DEF MediaInit, MediaTypeOK, Listed
<1> QED
  BY <1>1, <1>2, <1>3 DEF MediaShape

-----------------------------------------------------------------------------
(* Every step keeps the invariant                                           *)

KeysTyped == owner' \in Instances \cup {None} /\ peers' \in SUBSET Users
LinksTyped == link' \in [Sockets -> Link] /\ LinksShaped'
RestTyped ==
  /\ routers' \in Nat /\ orphans' \in SUBSET Sockets /\ crossed' \in SUBSET Sockets
  /\ webhooks' \in Nat /\ moves' \in Nat /\ crashes' \in Nat

\* The parts of the invariant.
LEMMA PartsShaped ==
  ASSUME Tasked, SessionsTyped, RoomsTyped, KeysTyped, LinksTyped, RestTyped
  PROVE  MediaShape'
BY DEF Tasked, SessionsTyped, RoomsTyped, KeysTyped, LinksTyped, RestTyped, MediaShape,
   MediaTypeOK

\* What a step leaves alone is typed.
LEMMA LeftAlone ==
  ASSUME MediaShape
  PROVE  /\ UNCHANGED sessions => SessionsTyped
         /\ UNCHANGED <<rooms, transport, producing, deserted>> => RoomsTyped
         /\ UNCHANGED redisKeys => KeysTyped
         /\ ClearRedis => KeysTyped
         /\ UNCHANGED link => LinksTyped
         /\ UNCHANGED <<routers, orphans, crossed, bounds>> => RestTyped
BY DEF MediaShape, MediaTypeOK, LinksShaped, sessions, rooms, redisKeys, bounds, ClearRedis,
       SessionsTyped, RoomsTyped, KeysTyped, LinksTyped, RestTyped, Listed

\* A room keeps its router when sessions come and go.
LEMMA RoomsLeft ==
  ASSUME MediaShape, SessionsTyped, UNCHANGED rooms PROVE RoomsTyped
BY DEF MediaShape, MediaTypeOK, rooms, SessionsTyped, RoomsTyped

\* Sessions keep their users when a router closes.
LEMMA SessionsLeft ==
  ASSUME MediaShape, RoomsTyped, UNCHANGED <<present, members>> PROVE SessionsTyped
BY DEF MediaShape, MediaTypeOK, SessionsTyped, RoomsTyped, Listed

\* The handlers that take a session out or let a room go.
LEMMA ReleaseStepShaped ==
  ASSUME MediaShape, NEW t \in Tasks,
         \/ Unpublish(t) \/ ReleaseRoom(t) \/ CloseRoom(t) \/ ForgetPeer(t)
         \/ TeardownNext(t) \/ WipeRedis(t)
  PROVE  MediaShape'
<1> DEFINE k == task[t]
<1>1. k \in Task /\ Shaped(k)
  BY DEF MediaShape, MediaTypeOK, TasksShaped
<1>2. ASSUME NEW pc \in {"wipe", "close", "forget", "next"}, k.pc \in {"release", "close",
"forget"},
             pc = "forget" => ~ k.yes, pc = "next" => k.op = "teardown",
             pc = "close" => k.pc = "release", Goes(t, pc)
      PROVE  Tasked
  <2> DEFINE new == [k EXCEPT !.pc = pc]
  <2>1. /\ new.pc = pc /\ new.op = k.op /\ new.inst = k.inst /\ new.user = k.user
        /\ new.held = k.held /\ new.yes = k.yes
    BY <1>1 DEF Task
  <2>2. Shaped(new)
    BY <1>1, <1>2, <2>1 DEF Shaped, JoinPcs
  <2> QED
    BY <1>2, <2>2, GoesShaped DEF TaskPcs
<1>3. CASE Unpublish(t)
  <2>1. k.op \in RemovalOps /\ k.inst \in Instances /\ k.user \in Users
        /\ (k.op = "join" => k.sock \in Sockets)
    BY <1>1, <1>3 DEF Unpublish, Awaits, Shaped
  <2>2. Tasked /\ SessionsTyped
    BY <1>1, <1>3, <2>1, RemovalTyped DEF Unpublish
  <2>3. RoomsTyped /\ KeysTyped /\ LinksTyped /\ RestTyped
    BY <1>3, <2>2, RoomsLeft, LeftAlone DEF Unpublish, rooms
  <2> QED
    BY <2>2, <2>3, PartsShaped
<1>4. CASE ReleaseRoom(t)
  <2>1. Released(k) \in {"wipe", "forget"} /\ (Released(k) = "forget" => ~ k.yes)
    BY DEF Released
  <2>2. Tasked
    BY <1>2, <1>4, <2>1 DEF ReleaseRoom, Awaits
  <2>3. k.inst \in Instances
    BY <1>1, <1>4 DEF ReleaseRoom, Awaits, Shaped
  <2>4. SessionsTyped /\ RoomsTyped /\ KeysTyped
    <3>1. CASE ClearRedis /\ UNCHANGED <<rooms, sessions>>
      BY <3>1, LeftAlone DEF sessions
    <3>2. CASE CloseRouter(k.inst) /\ UNCHANGED <<redisKeys, routers, present, members>>
      BY <2>3, <3>2, CloseRouterTyped, SessionsLeft, LeftAlone
    <3> QED
      BY <1>4, <3>1, <3>2 DEF ReleaseRoom
  <2>5. LinksTyped /\ RestTyped
    BY <1>4, LeftAlone DEF ReleaseRoom, rooms
  <2> QED
    BY <2>2, <2>4, <2>5, PartsShaped
<1>5. CASE CloseRoom(t)
  <2>1. Released(k) \in {"wipe", "forget"} /\ (Released(k) = "forget" => ~ k.yes)
    BY DEF Released
  <2>2. Tasked
    BY <1>2, <1>5, <2>1 DEF CloseRoom, Awaits
  <2>3. k.inst \in Instances
    BY <1>1, <1>5 DEF CloseRoom, Awaits, Shaped
  <2>4. RoomsTyped
    BY <1>5, <2>3, CloseRouterTyped DEF CloseRoom
  <2>5. SessionsTyped /\ KeysTyped /\ LinksTyped /\ RestTyped
    BY <1>5, <2>4, SessionsLeft, LeftAlone DEF CloseRoom
  <2> QED
    BY <2>2, <2>4, <2>5, PartsShaped
<1>6. CASE ForgetPeer(t)
  <2>1. k.inst \in Instances /\ k.user \in Users /\ k.held \in Sockets /\ k.pc = "forget"
    BY <1>1, <1>6 DEF ForgetPeer, Awaits, Shaped
  <2>2. KeysTyped /\ RestTyped
    BY <1>6, LeftAlone DEF ForgetPeer, rooms, KeysTyped, MediaShape, MediaTypeOK
  <2>3. CASE k.op = "kick" /\ link[k.held].state # "closed"
    <3> DEFINE spawned == Spawn("leave", k.held, k.inst, k.user)
    <3>0. /\ link' = [link EXCEPT ![k.held].state = "closed"]
          /\ BeginRemoval(t, spawned) /\ UNCHANGED rooms
      BY <1>6, <2>3 DEF ForgetPeer
    <3>1. /\ spawned \in Task /\ spawned.op = "leave" /\ spawned.inst = k.inst
          /\ spawned.user = k.user
      BY <2>1, SpawnType DEF TaskOps
    <3> HIDE DEF spawned
    <3>2. Tasked /\ SessionsTyped
      BY <2>1, <3>0, <3>1, BeginRemovalTyped DEF RemovalOps
    <3>3. RoomsTyped
      BY <3>0, <3>2, RoomsLeft
    <3>4. LinksTyped
      <4>1. link \in [Sockets -> Link] /\ LinksShaped
        BY DEF MediaShape, MediaTypeOK
      <4> QED
        BY <2>1, <3>0, <4>1 DEF LinksTyped, LinksShaped, Link
    <3> QED
      BY <2>2, <3>2, <3>3, <3>4, PartsShaped
  <2>4. CASE ~ (k.op = "kick" /\ link[k.held].state # "closed")
    <3>1. UNCHANGED <<link, sessions, rooms>>
      BY <1>6, <2>4 DEF ForgetPeer
    <3>2. Tasked
      BY <1>2, <1>6, <2>1, <2>4, EndsShaped, <1>1 DEF ForgetPeer, Shaped
    <3>3. SessionsTyped /\ RoomsTyped /\ LinksTyped
      BY <3>1, LeftAlone DEF sessions
    <3> QED
      BY <2>2, <3>2, <3>3, PartsShaped
  <2> QED
    BY <2>3, <2>4
<1>7. CASE TeardownNext(t)
  <2>1. k.inst \in Instances /\ k.op = "teardown"
    BY <1>1, <1>7 DEF TeardownNext, Awaits, Shaped
  <2>2. KeysTyped /\ LinksTyped /\ RestTyped
    BY <1>7, LeftAlone DEF TeardownNext, rooms
  <2>3. Tasked /\ SessionsTyped
    <3>1. CASE UNCHANGED sessions /\ task' = [task EXCEPT ![t] =
                 [k EXCEPT !.pc = "release", !.read = owner, !.yes = TRUE]]
      <4> DEFINE new == [k EXCEPT !.pc = "release", !.read = owner, !.yes = TRUE]
      <4>1. new \in Task /\ new.pc = "release" /\ new.inst = k.inst /\ new.op = k.op /\ new.yes
        BY <1>1 DEF Task, TaskPcs, MediaShape, MediaTypeOK
      <4>2. Shaped(new)
        BY <2>1, <4>1 DEF Shaped, JoinPcs
      <4> HIDE DEF new
      <4> QED
        BY <3>1, <4>1, <4>2, BecomesShaped, LeftAlone DEF new
    <3>2. ASSUME NEW u \in k.todo, BeginRemoval(t, [k EXCEPT !.user = u, !.todo = @ \ {u}])
          PROVE  Tasked /\ SessionsTyped
      <4> DEFINE now == [k EXCEPT !.user = u, !.todo = @ \ {u}]
      <4>1. now \in Task /\ now.op = k.op /\ now.inst = k.inst /\ now.user = u /\ u \in Users
        BY <1>1 DEF Task
      <4>2. BeginRemoval(t, now)
        BY <3>2
      <4> HIDE DEF now
      <4> QED
        BY <2>1, <4>1, <4>2, BeginRemovalTyped DEF RemovalOps
    <3> QED
      BY <1>7, <3>1, <3>2 DEF TeardownNext
  <2>4. RoomsTyped
    BY <1>7, <2>3, RoomsLeft DEF TeardownNext
  <2> QED
    BY <2>2, <2>3, <2>4, PartsShaped
<1>8. CASE WipeRedis(t)
  BY <1>8, EndsShaped, LeftAlone, PartsShaped DEF WipeRedis, rooms, sessions
<1> QED
  BY <1>3, <1>4, <1>5, <1>6, <1>7, <1>8

\* The handlers that look the room up, claim it and enter it.
LEMMA JoinStepShaped ==
  ASSUME MediaShape, NEW t \in Tasks,
         \/ Cached(t) \/ Owned(t) \/ CountPeers(t) \/ Cleared(t) \/ Claimed(t)
         \/ Reread(t) \/ WrongInstance(t) \/ LookupAgain(t) \/ CreateRouter(t)
         \/ SavePeer(t) \/ Enter(t)
  PROVE  MediaShape'
<1> DEFINE k == task[t]
<1>1. k \in Task
  BY DEF MediaShape, MediaTypeOK
<1>2. k.pc \in JoinPcs /\ k.inst \in Instances /\ k.op = "join" /\ k.sock \in Sockets
      /\ k.user \in Users
  BY DEF MediaShape, TasksShaped, Shaped, JoinPcs, Awaits, Cached, Owned, CountPeers, Cleared,
         Claimed, Reread, WrongInstance, LookupAgain, CreateRouter, SavePeer, Enter
<1>3. owner \in Instances \cup {None} /\ peers \in SUBSET Users /\ routers \in Nat
  BY DEF MediaShape, MediaTypeOK
<1>4. ASSUME NEW new \in Task, new.pc \in JoinPcs, new.inst = k.inst, new.op = k.op,
             new.sock = k.sock, new.user = k.user, task' = [task EXCEPT ![t] = new]
      PROVE  Tasked
  <2>1. Shaped(new)
    BY <1>2, <1>4 DEF Shaped, JoinPcs
  <2> QED
    BY <1>4, <2>1, BecomesShaped
<1>5. ASSUME NEW pc \in JoinPcs, Goes(t, pc) PROVE Tasked
  <2> DEFINE new == [k EXCEPT !.pc = pc]
  <2>1. new \in Task /\ new.pc = pc /\ new.inst = k.inst /\ new.op = k.op
        /\ new.sock = k.sock /\ new.user = k.user
    BY <1>1 DEF Task, TaskPcs, JoinPcs
  <2>2. task' = [task EXCEPT ![t] = new]
    BY <1>5 DEF Goes
  <2> HIDE DEF new
  <2> QED
    BY <1>4, <1>5, <2>1, <2>2
<1>6. ASSUME Wrong(t, k) PROVE Tasked
  <2>1. CASE k.again
    <3>1. Ends(t)
      BY <1>6, <2>1 DEF Wrong, Ends
    <3> QED
      BY <3>1, EndsShaped
  <2>2. CASE ~ k.again
    <3> DEFINE alone == peers \subseteq {k.user}
               new == [k EXCEPT !.pc = "wrong", !.yes = alone]
    <3>0. alone \in BOOLEAN
      OBVIOUS
    <3> HIDE DEF alone
    <3>1. new \in Task /\ new.pc = "wrong" /\ new.inst = k.inst /\ new.op = k.op
          /\ new.sock = k.sock /\ new.user = k.user
      BY <1>1, <3>0 DEF Task, TaskPcs
    <3>2. task' = [task EXCEPT ![t] = new]
      BY <1>6, <2>2 DEF Wrong, alone
    <3> HIDE DEF new
    <3> QED
      BY <1>4, <3>1, <3>2 DEF JoinPcs
  <2> QED
    BY <2>1, <2>2
<1>7. CASE Cached(t)
  <2>1. KeysTyped /\ LinksTyped
    BY <1>7, LeftAlone DEF Cached
  <2>2. CASE k.read = k.inst /\ Goes(t, "save") /\ UNCHANGED <<rooms, sessions>>
    BY <1>5, <1>7, <2>1, <2>2, LeftAlone, PartsShaped DEF Cached, JoinPcs, sessions, rooms
  <2>3. CASE /\ CloseRouter(k.inst)
             /\ task' = [task EXCEPT ![t] = [k EXCEPT !.pc = "owned", !.read = owner]]
             /\ UNCHANGED <<routers, present, members>>
    <3> DEFINE new == [k EXCEPT !.pc = "owned", !.read = owner]
    <3>1. new \in Task /\ new.pc = "owned" /\ new.inst = k.inst /\ new.op = k.op
          /\ new.sock = k.sock /\ new.user = k.user
      BY <1>1, <1>3 DEF Task, TaskPcs
    <3>2. task' = [task EXCEPT ![t] = new]
      BY <2>3
    <3> HIDE DEF new
    <3>3. Tasked
      BY <1>4, <3>1, <3>2 DEF JoinPcs
    <3>4. RoomsTyped
      BY <1>2, <2>3, CloseRouterTyped
    <3>5. SessionsTyped /\ RestTyped
      BY <1>7, <2>3, <3>4, SessionsLeft, LeftAlone DEF Cached
    <3> QED
      BY <2>1, <3>3, <3>4, <3>5, PartsShaped
  <2> QED
    BY <1>7, <2>2, <2>3 DEF Cached
<1>8. CASE Owned(t)
  <2>1. SessionsTyped /\ RoomsTyped /\ LinksTyped /\ RestTyped
    BY <1>8, LeftAlone DEF Owned, rooms, sessions
  <2>2. KeysTyped
    BY <1>2, <1>3, <1>8 DEF Owned, KeysTyped
  <2>3. Tasked
    <3> DEFINE claims == [k EXCEPT !.pc = "claim", !.yes = owner = None]
               counts == [k EXCEPT !.pc = "count", !.yes = peers = {}]
    <3>1. claims \in Task /\ claims.pc = "claim" /\ claims.inst = k.inst /\ claims.op = k.op
          /\ claims.sock = k.sock /\ claims.user = k.user
      BY <1>1 DEF Task, TaskPcs
    <3>2. counts \in Task /\ counts.pc = "count" /\ counts.inst = k.inst /\ counts.op = k.op
          /\ counts.sock = k.sock /\ counts.user = k.user
      BY <1>1 DEF Task, TaskPcs
    <3>3. Goes(t, "create") \/ task' = [task EXCEPT ![t] = claims]
          \/ task' = [task EXCEPT ![t] = counts]
      BY <1>8 DEF Owned
    <3> HIDE DEF claims, counts
    <3> QED
      BY <1>4, <1>5, <3>1, <3>2, <3>3 DEF JoinPcs
  <2> QED
    BY <2>1, <2>2, <2>3, PartsShaped
<1>9. CASE CountPeers(t)
  <2>1. SessionsTyped /\ RoomsTyped /\ KeysTyped /\ LinksTyped /\ RestTyped
    BY <1>9, LeftAlone DEF CountPeers, rooms, sessions
  <2>2. Tasked
    BY <1>5, <1>6, <1>9 DEF CountPeers, JoinPcs
  <2> QED
    BY <2>1, <2>2, PartsShaped
<1>10. CASE Cleared(t)
  <2>1. SessionsTyped /\ RoomsTyped /\ LinksTyped /\ RestTyped
    BY <1>10, LeftAlone DEF Cleared, rooms, sessions
  <2>2. KeysTyped
    BY <1>2, <1>3, <1>10 DEF Cleared, KeysTyped
  <2>3. Tasked
    <3> DEFINE new == [k EXCEPT !.pc = "claim", !.yes = owner = None]
    <3>1. new \in Task /\ new.pc = "claim" /\ new.inst = k.inst /\ new.op = k.op
          /\ new.sock = k.sock /\ new.user = k.user
      BY <1>1 DEF Task, TaskPcs
    <3>2. task' = [task EXCEPT ![t] = new]
      BY <1>10 DEF Cleared
    <3> HIDE DEF new
    <3> QED
      BY <1>4, <3>1, <3>2 DEF JoinPcs
  <2> QED
    BY <2>1, <2>2, <2>3, PartsShaped
<1>11. CASE Claimed(t)
  <2>1. SessionsTyped /\ RoomsTyped /\ KeysTyped /\ LinksTyped /\ RestTyped
    BY <1>11, LeftAlone DEF Claimed, rooms, sessions
  <2>2. Tasked
    <3> DEFINE creates == [k EXCEPT !.pc = "create"]
               rereads == [k EXCEPT !.pc = "reread", !.read = owner]
    <3>1. creates \in Task /\ creates.pc = "create" /\ creates.inst = k.inst
          /\ creates.op = k.op /\ creates.sock = k.sock /\ creates.user = k.user
      BY <1>1 DEF Task, TaskPcs
    <3>2. rereads \in Task /\ rereads.pc = "reread" /\ rereads.inst = k.inst
          /\ rereads.op = k.op /\ rereads.sock = k.sock /\ rereads.user = k.user
      BY <1>1, <1>3 DEF Task, TaskPcs
    <3>3. task' = [task EXCEPT ![t] = creates] \/ task' = [task EXCEPT ![t] = rereads]
      BY <1>11 DEF Claimed
    <3> HIDE DEF creates, rereads
    <3> QED
      BY <1>4, <3>1, <3>2, <3>3 DEF JoinPcs
  <2> QED
    BY <2>1, <2>2, PartsShaped
<1>12. CASE Reread(t)
  <2>1. SessionsTyped /\ RoomsTyped /\ KeysTyped /\ LinksTyped /\ RestTyped
    BY <1>12, LeftAlone DEF Reread, rooms, sessions
  <2>2. Tasked
    BY <1>5, <1>6, <1>12 DEF Reread, JoinPcs
  <2> QED
    BY <2>1, <2>2, PartsShaped
<1>13. CASE WrongInstance(t)
  <2>1. SessionsTyped /\ RoomsTyped /\ KeysTyped /\ LinksTyped /\ RestTyped
    BY <1>13, LeftAlone DEF WrongInstance, rooms, sessions
  <2>2. Tasked
    <3> DEFINE new == [k EXCEPT !.pc = "lookup", !.again = TRUE]
    <3>1. new \in Task /\ new.pc = "lookup" /\ new.inst = k.inst /\ new.op = k.op
          /\ new.sock = k.sock /\ new.user = k.user
      BY <1>1 DEF Task, TaskPcs
    <3>2. task' = [task EXCEPT ![t] = new] \/ Ends(t)
      BY <1>13 DEF WrongInstance
    <3> HIDE DEF new
    <3> QED
      BY <1>4, <3>1, <3>2, EndsShaped DEF JoinPcs
  <2> QED
    BY <2>1, <2>2, PartsShaped
<1>14. CASE LookupAgain(t)
  <2>1. SessionsTyped /\ RoomsTyped /\ KeysTyped /\ LinksTyped /\ RestTyped
    BY <1>14, LeftAlone DEF LookupAgain, rooms, sessions
  <2>2. Tasked
    BY <1>1, <1>2, <1>14, AfterRemovalShaped DEF LookupAgain, RemovalOps
  <2> QED
    BY <2>1, <2>2, PartsShaped
<1>15. CASE CreateRouter(t)
  <2> DEFINE made == routers + 1
             new == [k EXCEPT !.pc = "save", !.rtr = made]
  <2>0. made \in Nat
    BY <1>3
  <2> HIDE DEF made
  <2>1. new \in Task /\ new.pc = "save" /\ new.inst = k.inst /\ new.op = k.op
        /\ new.sock = k.sock /\ new.user = k.user
    BY <1>1, <2>0 DEF Task, TaskPcs
  <2>2. task' = [task EXCEPT ![t] = new]
    BY <1>15 DEF CreateRouter, made
  <2> HIDE DEF new
  <2>3. Tasked
    BY <1>4, <2>1, <2>2 DEF JoinPcs
  <2>4. SessionsTyped /\ KeysTyped /\ LinksTyped
    BY <1>15, LeftAlone DEF CreateRouter, sessions
  <2>5. RoomsTyped /\ RestTyped
    BY <1>2, <1>3, <1>15 DEF CreateRouter, RoomsTyped, RestTyped, MediaShape, MediaTypeOK,
       sessions,
                              bounds
  <2> QED
    BY <2>3, <2>4, <2>5, PartsShaped
<1>16. CASE SavePeer(t)
  <2>1. SessionsTyped /\ RoomsTyped /\ LinksTyped /\ RestTyped
    BY <1>16, LeftAlone DEF SavePeer, rooms, sessions
  <2>2. KeysTyped
    BY <1>2, <1>3, <1>16 DEF SavePeer, KeysTyped
  <2>3. Tasked
    BY <1>5, <1>16 DEF SavePeer, JoinPcs
  <2> QED
    BY <2>1, <2>2, <2>3, PartsShaped
<1>17. CASE Enter(t)
  <2>1. KeysTyped /\ RestTyped
    BY <1>17, LeftAlone DEF Enter, rooms
  <2>2. SessionsTyped
    <3>1. /\ present \in [Instances -> [Users -> Sockets \cup {None}]]
          /\ members \in [Instances -> SUBSET Users] /\ Listed
          /\ transport \in [Sockets -> Nat] /\ producing \in SUBSET Sockets
          /\ deserted \in SUBSET Instances
      BY DEF MediaShape, MediaTypeOK
    <3>2. Listed'
      BY <1>2, <1>17, <3>1 DEF Enter, Listed
    <3> QED
      BY <1>2, <1>17, <3>1, <3>2 DEF Enter, SessionsTyped
  <2>5. RoomsTyped
    BY <1>17, <2>2, RoomsLeft DEF Enter
  <2>3. LinksTyped
    <3>1. link \in [Sockets -> Link] /\ LinksShaped
      BY DEF MediaShape, MediaTypeOK
    <3> QED
      BY <1>2, <1>17, <3>1 DEF Enter, LinksTyped, LinksShaped, Link
  <2>4. Tasked
    BY <1>17, EndsShaped DEF Enter
  <2> QED
    BY <2>1, <2>2, <2>3, <2>4, <2>5, PartsShaped
<1> QED
  BY <1>7, <1>8, <1>9, <1>10, <1>11, <1>12, <1>13, <1>14, <1>15, <1>16, <1>17

\* A handler that starts with a removal, for a connected socket or a webhook.
LEMMA StartShaped ==
  ASSUME MediaShape, NEW t \in Tasks, NEW op \in RemovalOps, NEW s \in Sockets \cup {None},
         op = "join" => s \in Sockets, NEW i \in Instances, NEW u \in Users,
         BeginRemoval(t, Spawn(op, s, i, u)), UNCHANGED rooms
  PROVE  Tasked /\ SessionsTyped /\ RoomsTyped
<1> DEFINE k == Spawn(op, s, i, u)
<1>1. k \in Task /\ k.op = op /\ k.sock = s /\ k.inst = i /\ k.user = u
  BY SpawnType DEF RemovalOps, TaskOps
<1> HIDE DEF k
<1>2. BeginRemoval(t, k)
  BY DEF k
<1>3. Tasked /\ SessionsTyped
  BY <1>1, <1>2, BeginRemovalTyped
<1> QED
  BY <1>3, RoomsLeft

\* What a handler crosses is sockets.
LEMMA CrossesTyped ==
  ASSUME MediaShape, NEW t \in Tasks, NEW s \in SUBSET Sockets
  PROVE  /\ CrossedBy(t, s) \in SUBSET Sockets
         /\ Crosses(t, s) => crossed' \in SUBSET Sockets
<1>1. \A g \in Tasks : task[g].op = "join" => task[g].sock \in Sockets
  <2>1. \A g \in Tasks : task[g] \in Task /\ Shaped(task[g])
    BY DEF MediaShape, MediaTypeOK, TasksShaped
  <2> QED
    BY <2>1 DEF Shaped, JoinPcs
<1> QED
  BY <1>1 DEF CrossedBy, Crosses, MediaShape, MediaTypeOK

\* The socket events that take a session out, the kick, and what comes of other rooms.
LEMMA RemovalEventShaped ==
  ASSUME MediaShape, NEW t \in Tasks,
         \/ \E s \in Sockets : \/ LeaveRoom(t, s) \/ Disconnect(t, s)
                               \/ \E i \in Instances, u \in Users : Join(t, s, i, u)
         \/ \E i \in Instances, u \in Users : KickPeer(t, i, u) \/ OtherRoom(t, i, u)
  PROVE  MediaShape'
<1>1. /\ link \in [Sockets -> Link] /\ LinksShaped /\ orphans \in SUBSET Sockets
      /\ routers \in Nat /\ webhooks \in Nat /\ moves \in Nat /\ crashes \in Nat
  BY DEF MediaShape, MediaTypeOK
<1>2. CASE \E s \in Sockets : LeaveRoom(t, s)
  <2>1. PICK s \in Sockets : LeaveRoom(t, s)
    BY <1>2
  <2>2. link[s].user \in Users /\ link[s].inst \in Instances
    BY <1>1, <2>1 DEF LeaveRoom, LinksShaped
  <2>3. Tasked /\ SessionsTyped /\ RoomsTyped
    BY <2>1, <2>2, StartShaped DEF LeaveRoom, RemovalOps
  <2>4. KeysTyped /\ RestTyped
    BY <1>1, <2>1, CrossesTyped, LeftAlone DEF LeaveRoom, RestTyped, rooms, bounds
  <2>5. LinksTyped
    BY <1>1, <2>1, <2>2 DEF LeaveRoom, LinksTyped, LinksShaped, Link
  <2> QED
    BY <2>3, <2>4, <2>5, PartsShaped
<1>3. CASE \E s \in Sockets : Disconnect(t, s)
  <2>1. PICK s \in Sockets : Disconnect(t, s)
    BY <1>3
  <2>2. link[s].user \in Users /\ link[s].inst \in Instances
    BY <1>1, <2>1 DEF Disconnect, LinksShaped
  <2>3. Tasked /\ SessionsTyped /\ RoomsTyped
    BY <2>1, <2>2, StartShaped DEF Disconnect, RemovalOps
  <2>4. KeysTyped /\ RestTyped
    BY <1>1, <2>1, CrossesTyped, LeftAlone DEF Disconnect, RestTyped, rooms, bounds
  <2>5. LinksTyped
    BY <1>1, <2>1, <2>2 DEF Disconnect, LinksTyped, LinksShaped, Link
  <2> QED
    BY <2>3, <2>4, <2>5, PartsShaped
<1>4. CASE \E s \in Sockets, i \in Instances, u \in Users : Join(t, s, i, u)
  <2>1. PICK s \in Sockets, i \in Instances, u \in Users : Join(t, s, i, u)
    BY <1>4
  <2>2. Tasked /\ SessionsTyped /\ RoomsTyped
    BY <2>1, StartShaped DEF Join, RemovalOps
  <2>3. KeysTyped /\ RestTyped
    BY <1>1, <2>1, CrossesTyped, LeftAlone DEF Join, RestTyped, rooms, bounds
  <2>4. LinksTyped
    BY <1>1, <2>1 DEF Join, LinksTyped, LinksShaped, Link
  <2> QED
    BY <2>2, <2>3, <2>4, PartsShaped
<1>5. CASE \E i \in Instances, u \in Users : KickPeer(t, i, u)
  <2>1. PICK i \in Instances, u \in Users : KickPeer(t, i, u)
    BY <1>5
  <2>2. Tasked /\ SessionsTyped /\ RoomsTyped
    BY <2>1, StartShaped DEF KickPeer, RemovalOps
  <2>3. KeysTyped /\ LinksTyped /\ RestTyped
    BY <1>1, <2>1, CrossesTyped, LeftAlone DEF KickPeer, RestTyped, rooms, Webhook
  <2> QED
    BY <2>2, <2>3, PartsShaped
<1>6. CASE \E i \in Instances, u \in Users : OtherRoom(t, i, u)
  <2>1. PICK i \in Instances, u \in Users : OtherRoom(t, i, u)
    BY <1>6
  <2>2. Tasked /\ SessionsTyped /\ crossed' \in SUBSET Sockets
    <3>1. ASSUME NEW op \in {"move", "leave"}, BeginRemoval(t, Spawn(op, None, i, u)),
                 Crosses(t, {})
          PROVE  Tasked /\ SessionsTyped /\ crossed' \in SUBSET Sockets
      BY <2>1, <3>1, StartShaped, CrossesTyped DEF OtherRoom, RemovalOps
    <3>2. CASE /\ present' = [present EXCEPT ![i][u] = None]
               /\ UNCHANGED <<members, transport, producing, deserted, task, crossed>>
      BY <3>2 DEF MediaShape, MediaTypeOK, SessionsTyped, Tasked, TasksShaped, Listed
    <3> QED
      BY <2>1, <3>1, <3>2 DEF OtherRoom
  <2>3. RoomsTyped
    BY <2>1, <2>2, RoomsLeft DEF OtherRoom
  <2>4. KeysTyped /\ LinksTyped
    BY <2>1, LeftAlone DEF OtherRoom
  <2>5. RestTyped
    BY <1>1, <2>1, <2>2 DEF OtherRoom, RestTyped, rooms
  <2> QED
    BY <2>2, <2>3, <2>4, <2>5, PartsShaped
<1> QED
  BY <1>2, <1>3, <1>4, <1>5, <1>6

\* Transports and producers.
LEMMA MediaEventShaped ==
  ASSUME MediaShape,
         \/ \E t \in Tasks : \/ MakeTransport(t) \/ AddProducer(t)
                             \/ \E s \in Sockets : CreateTransport(t, s) \/ Produce(t, s)
         \/ \E s \in Sockets : CloseProducer(s)
  PROVE  MediaShape'
<1>1. /\ link \in [Sockets -> Link] /\ LinksShaped
      /\ router \in [Instances -> Nat] /\ running \in [Instances -> SUBSET Nat]
      /\ present \in [Instances -> [Users -> Sockets \cup {None}]]
      /\ members \in [Instances -> SUBSET Users]
      /\ transport \in [Sockets -> Nat] /\ producing \in SUBSET Sockets
      /\ deserted \in SUBSET Instances /\ Listed
      /\ \A t \in Tasks : task[t] \in Task /\ Shaped(task[t])
  BY DEF MediaShape, MediaTypeOK, TasksShaped
<1>2. ASSUME NEW t \in Tasks, MakeTransport(t) PROVE MediaShape'
  <2>1. task[t].held \in Sockets /\ task[t].rtr \in Nat
    BY <1>1, <1>2 DEF MakeTransport, Awaits, Shaped, Task
  <2>2. SessionsTyped /\ RoomsTyped
    BY <1>1, <1>2, <2>1 DEF MakeTransport, SessionsTyped, RoomsTyped, Listed, rooms
  <2>3. LinksTyped
    <3>1. \/ link' = link
          \/ /\ link[task[t].sock].state = "joined"
             /\ link' = [link EXCEPT ![task[t].sock].state = "ready"]
      BY <1>2 DEF MakeTransport
    <3>2. link \in [Sockets -> Link] /\ LinksShaped
      BY <1>1
    <3> QED
      BY <3>1, <3>2 DEF LinksTyped, LinksShaped, Link
  <2>4. Tasked /\ KeysTyped /\ RestTyped
    BY <1>2, EndsShaped, LeftAlone DEF MakeTransport, rooms
  <2> QED
    BY <2>2, <2>3, <2>4, PartsShaped
<1>3. ASSUME NEW t \in Tasks, AddProducer(t) PROVE MediaShape'
  <2>1. task[t].held \in Sockets
    BY <1>1, <1>3 DEF AddProducer, Awaits, Shaped
  <2>2. SessionsTyped /\ RoomsTyped
    BY <1>1, <1>3, <2>1 DEF AddProducer, SessionsTyped, RoomsTyped, Listed, rooms
  <2>3. Tasked /\ KeysTyped /\ LinksTyped /\ RestTyped
    BY <1>3, EndsShaped, LeftAlone DEF AddProducer, rooms
  <2> QED
    BY <2>2, <2>3, PartsShaped
<1>4. ASSUME NEW s \in Sockets, CloseProducer(s) PROVE MediaShape'
  <2>1. SessionsTyped /\ RoomsTyped
    BY <1>1, <1>4 DEF CloseProducer, SessionsTyped, RoomsTyped, Listed, rooms
  <2>2. Tasked /\ KeysTyped /\ LinksTyped /\ RestTyped
    BY <1>4, LeftAlone DEF CloseProducer, rooms, Tasked, TasksShaped, MediaShape, MediaTypeOK
  <2> QED
    BY <2>1, <2>2, PartsShaped
<1>5. ASSUME NEW t \in Tasks, NEW s \in Sockets, CreateTransport(t, s) PROVE MediaShape'
  <2> DEFINE l == link[s]
             held == present[l.inst][l.user]
             base == Spawn("transport", s, l.inst, l.user)
             new == [base EXCEPT !.pc = "make", !.held = held, !.rtr = router[l.inst]]
  <2>1. l.user \in Users /\ l.inst \in Instances
    BY <1>1, <1>5 DEF CreateTransport, LinksShaped
  <2>2. base \in Task /\ base.op = "transport" /\ base.inst = l.inst
    BY <2>1, SpawnType DEF TaskOps
  <2>3. held \in Sockets /\ router[l.inst] \in Nat
    <3>1. held \in Sockets \cup {None} /\ router[l.inst] \in Nat
      BY <1>1, <2>1
    <3>2. held # None
      BY <1>5 DEF CreateTransport
    <3> QED
      BY <3>1, <3>2
  <2>7. task' = [task EXCEPT ![t] = new]
    BY <1>5 DEF CreateTransport
  <2> HIDE DEF base
  <2>4. new \in Task /\ new.pc = "make" /\ new.inst \in Instances /\ new.held \in Sockets
        /\ new.op = "transport"
    BY <2>1, <2>2, <2>3 DEF Task, TaskPcs
  <2> HIDE DEF new
  <2>5. Tasked
    BY <2>4, <2>7, BecomesShaped DEF Shaped, JoinPcs
  <2>6. SessionsTyped /\ RoomsTyped /\ KeysTyped /\ LinksTyped /\ RestTyped
    BY <1>5, LeftAlone DEF CreateTransport, rooms, sessions
  <2> QED
    BY <2>5, <2>6, PartsShaped
<1>6. ASSUME NEW t \in Tasks, NEW s \in Sockets, Produce(t, s) PROVE MediaShape'
  <2> DEFINE l == link[s]
             held == present[l.inst][l.user]
             base == Spawn("produce", s, l.inst, l.user)
             new == [base EXCEPT !.pc = "produce", !.held = held]
  <2>1. l.user \in Users /\ l.inst \in Instances
    BY <1>1, <1>6 DEF Produce, LinksShaped
  <2>2. base \in Task /\ base.op = "produce" /\ base.inst = l.inst
    BY <2>1, SpawnType DEF TaskOps
  <2>3. held \in Sockets
    <3>1. held \in Sockets \cup {None}
      BY <1>1, <2>1
    <3>2. held # None
      BY <1>6 DEF Produce
    <3> QED
      BY <3>1, <3>2
  <2>7. task' = [task EXCEPT ![t] = new]
    BY <1>6 DEF Produce
  <2> HIDE DEF base
  <2>4. new \in Task /\ new.pc = "produce" /\ new.inst \in Instances /\ new.held \in Sockets
        /\ new.op = "produce"
    BY <2>1, <2>2, <2>3 DEF Task, TaskPcs
  <2> HIDE DEF new
  <2>5. Tasked
    BY <2>4, <2>7, BecomesShaped DEF Shaped, JoinPcs
  <2>6. SessionsTyped /\ RoomsTyped /\ KeysTyped /\ LinksTyped /\ RestTyped
    BY <1>6, LeftAlone DEF Produce, rooms, sessions
  <2> QED
    BY <2>5, <2>6, PartsShaped
<1> QED
  BY <1>2, <1>3, <1>4, <1>5, <1>6

\* A teardown that starts, and a process that dies.
LEMMA TeardownOrCrashShaped ==
  ASSUME MediaShape, NEW i \in Instances,
         Crash(i) \/ \E t \in Tasks : TeardownRoom(t, i)
  PROVE  MediaShape'
<1>1. CASE Crash(i)
  <2>1. /\ link \in [Sockets -> Link] /\ LinksShaped /\ task \in [Tasks -> Task] /\ TasksShaped
        /\ crashes \in Nat
    BY DEF MediaShape, MediaTypeOK
  <2>2. Tasked
    BY <1>1, <2>1, NoTaskShaped DEF Crash, Tasked, TasksShaped
  <2>3. SessionsTyped /\ RoomsTyped
    BY <1>1 DEF Crash, MediaShape, MediaTypeOK, SessionsTyped, RoomsTyped, Listed
  <2>4. LinksTyped
    BY <1>1, <2>1 DEF Crash, LinksTyped, LinksShaped, Link
  <2>5. KeysTyped /\ RestTyped
    BY <1>1, <2>1, LeftAlone DEF Crash, RestTyped, MediaShape, MediaTypeOK
  <2> QED
    BY <2>2, <2>3, <2>4, <2>5, PartsShaped
<1>2. ASSUME NEW t \in Tasks, TeardownRoom(t, i) PROVE MediaShape'
  <2> DEFINE base == Spawn("teardown", None, i, None)
             new == [base EXCEPT !.pc = "next", !.todo = members[i]]
  <2>1. base \in Task /\ base.op = "teardown" /\ base.inst = i
    BY SpawnType DEF TaskOps
  <2>2. members[i] \in SUBSET Users /\ task' = [task EXCEPT ![t] = new]
    BY <1>2 DEF TeardownRoom, MediaShape, MediaTypeOK
  <2> HIDE DEF base
  <2>3. new \in Task /\ new.pc = "next" /\ new.inst = i /\ new.op = "teardown"
    BY <2>1, <2>2 DEF Task, TaskPcs
  <2> HIDE DEF new
  <2>4. Tasked
    BY <2>2, <2>3, BecomesShaped DEF Shaped, JoinPcs
  <2>5. SessionsTyped /\ RoomsTyped /\ KeysTyped /\ LinksTyped
    BY <1>2, LeftAlone DEF TeardownRoom, rooms, sessions
  <2>6. RestTyped
    <3>1. crossed' \in SUBSET Sockets
      BY <1>2, CrossesTyped DEF TeardownRoom, Elsewhere, MediaShape, MediaTypeOK
    <3> QED
      BY <1>2, <3>1 DEF TeardownRoom, Webhook, RestTyped, MediaShape, MediaTypeOK, rooms
  <2> QED
    BY <2>4, <2>5, <2>6, PartsShaped
<1> QED
  BY <1>1, <1>2

\* Every step keeps the invariant.
LEMMA MediaShapeNext == MediaShape /\ [MediaNext]_mediaVars => MediaShape'
<1> SUFFICES ASSUME MediaShape, [MediaNext]_mediaVars PROVE MediaShape'
  OBVIOUS
<1>1. CASE UNCHANGED mediaVars
  BY <1>1, LeftAlone, PartsShaped DEF mediaVars, rooms, sessions, Tasked, TasksShaped,
     MediaShape, MediaTypeOK
<1>2. CASE MediaNext
  BY <1>2, ReleaseStepShaped, JoinStepShaped, RemovalEventShaped, MediaEventShaped,
     TeardownOrCrashShaped DEF MediaNext, MediaStep
<1> QED
  BY <1>1, <1>2

\* Behaviour covered: everything rtc-service keeps of a room, with what each of its handlers
\* knows between two awaits.
THEOREM MediaShapeHolds == MediaSpec => []MediaShape
<1> QED
  BY MediaShapeInit, MediaShapeNext, PTL DEF MediaSpec

\* Behaviour covered: the same, as the type invariant of the module.
THEOREM MediaTypeCorrect == MediaSpec => []MediaTypeOK
<1>1. MediaShape => MediaTypeOK
  BY DEF MediaShape
<1> QED
  BY <1>1, MediaShapeHolds, PTL

-----------------------------------------------------------------------------
(* What localRooms keeps a router for                                       *)

\* Where a handler is when it keeps a router for somebody, or is about to close it.
KeepPcs == {"cached", "save", "enter", "release", "close"}
Keeps(k, i) == k.inst = i /\ k.pc \in KeepPcs

\* Somebody is listed there, or the last one went to another room.
Kept(i) == members[i] # {} \/ i \in deserted

\* localRooms has a router for a member, for a handler that will enter or close it, or since
\* the last member went to another room.
RoomKept ==
  \A i \in Instances : router[i] # 0 => Kept(i) \/ \E t \in Tasks : Keeps(task[t], i)

\* A step that makes no router, takes nobody out of a room that keeps its router, and moves
\* no handler away from one.
LEMMA KeptStep ==
  ASSUME MediaShape, RoomKept,
         \A i \in Instances : router'[i] # 0 =>
            /\ router[i] # 0 /\ (Kept(i) => Kept(i)')
            /\ \A t \in Tasks : Keeps(task[t], i) => Keeps(task'[t], i)
  PROVE  RoomKept'
<1> SUFFICES ASSUME NEW i \in Instances, router'[i] # 0
             PROVE  Kept(i)' \/ \E t \in Tasks : Keeps(task'[t], i)
  BY DEF RoomKept, Keeps
<1>1. /\ router[i] # 0 /\ (Kept(i) => Kept(i)')
      /\ \A t \in Tasks : Keeps(task[t], i) => Keeps(task'[t], i)
  OBVIOUS
<1>2. Kept(i) \/ \E t \in Tasks : Keeps(task[t], i)
  BY <1>1 DEF RoomKept
<1> QED
  BY <1>1, <1>2

\* A step of a handler that keeps no router, which leaves rooms and sessions alone.
LEMMA KeptElsewhere ==
  ASSUME MediaShape, RoomKept, NEW t \in Tasks, task[t].pc \notin KeepPcs,
         \A g \in Tasks \ {t} : task'[g] = task[g], UNCHANGED <<router, members, deserted>>
  PROVE  RoomKept'
<1>1. \A i \in Instances : \A g \in Tasks : Keeps(task[g], i) => Keeps(task'[g], i)
  BY DEF Keeps
<1>2. \A i \in Instances : Kept(i)' = Kept(i)
  BY DEF Kept
<1> QED
  BY <1>1, <1>2, KeptStep

\* Taking a session out: the last one out lets the room go, or is about to join it again.
LEMMA TakeOutKept ==
  ASSUME MediaShape, RoomKept, NEW t \in Tasks, task[t].pc \notin KeepPcs,
         NEW k \in Task, k.op \in RemovalOps, k.inst \in Instances, k.user \in Users,
         TakeOut(t, k), UNCHANGED router
  PROVE  RoomKept'
<1>1. task \in [Tasks -> Task] /\ members \in [Instances -> SUBSET Users]
  BY DEF MediaShape, MediaTypeOK
<1>2. AfterRemoval(t, k, k.held # None, members[k.inst] = {k.user})
  BY DEF TakeOut
<1>3. \A g \in Tasks \ {t} : task'[g] = task[g]
  BY <1>1, <1>2 DEF AfterRemoval
<1>4. CASE k.held = None
  BY <1>3, <1>4, KeptElsewhere DEF TakeOut, sessions
<1>5. CASE k.held # None
  <2>1. /\ members' = [members EXCEPT ![k.inst] = @ \ {k.user}]
        /\ deserted \subseteq deserted'
        /\ members[k.inst] = {k.user} /\ k.op = "move" /\ router[k.inst] # 0 =>
             k.inst \in deserted'
    BY <1>5 DEF TakeOut
  <2>2. \A i \in Instances : Kept(i) /\ ~ (i = k.inst /\ members[i] = {k.user}) => Kept(i)'
    <3> SUFFICES ASSUME NEW i \in Instances, members[i] # {}, Kept(i),
                        ~ (i = k.inst /\ members[i] = {k.user})
                 PROVE  members'[i] # {}
      BY <2>1 DEF Kept
    <3>1. CASE i # k.inst
      BY <1>1, <2>1, <3>1
    <3>2. CASE i = k.inst
      <4>1. PICK u \in members[i] : u # k.user
        BY <3>2
      <4> QED
        BY <1>1, <2>1, <3>2, <4>1
    <3> QED
      BY <3>1, <3>2
  <2>4. SUFFICES ASSUME NEW i \in Instances, router[i] # 0
                 PROVE  Kept(i)' \/ \E g \in Tasks : Keeps(task'[g], i)
    BY DEF RoomKept, Keeps
  <2>5. Kept(i) \/ \E g \in Tasks \ {t} : Keeps(task[g], i)
    BY <2>4 DEF RoomKept, Keeps
  <2>6. CASE \E g \in Tasks \ {t} : Keeps(task[g], i)
    BY <1>3, <2>6
  <2>7. CASE Kept(i) /\ ~ (i = k.inst /\ members[i] = {k.user})
    BY <2>2, <2>7
  <2>8. CASE i = k.inst /\ members[i] = {k.user}
    <3>1. CASE k.op = "join"
      <4>1. task' = [task EXCEPT ![t] =
              [k EXCEPT !.read = owner, !.rtr = router[k.inst], !.pc = "cached"]]
        BY <1>2, <2>4, <2>8, <3>1 DEF AfterRemoval
      <4>2. task'[t].pc = "cached" /\ task'[t].inst = i
        BY <1>1, <2>8, <4>1 DEF Task
      <4> QED
        BY <4>2 DEF Keeps, KeepPcs
    <3>2. CASE k.op \in {"leave", "kick", "teardown"}
      <4>1. task' = [task EXCEPT ![t] = [k EXCEPT !.pc = "release", !.read = owner]]
        BY <1>2, <1>5, <2>8, <3>2 DEF AfterRemoval
      <4>2. task'[t].pc = "release" /\ task'[t].inst = i
        BY <1>1, <2>8, <4>1 DEF Task
      <4> QED
        BY <4>2 DEF Keeps, KeepPcs
    <3>3. CASE k.op = "move"
      BY <2>1, <2>4, <2>8, <3>3 DEF Kept
    <3> QED
      BY <3>1, <3>2, <3>3 DEF RemovalOps
  <2> QED
    BY <2>5, <2>6, <2>7, <2>8
<1> QED
  BY <1>4, <1>5

\* So does the start of a removal.
LEMMA BeginRemovalKept ==
  ASSUME MediaShape, RoomKept, NEW t \in Tasks, task[t].pc \notin KeepPcs,
         NEW k \in Task, k.op \in RemovalOps, k.inst \in Instances, k.user \in Users,
         BeginRemoval(t, k), UNCHANGED router
  PROVE  RoomKept'
<1> DEFINE now == [k EXCEPT !.held = present[k.inst][k.user]]
<1>1. /\ task \in [Tasks -> Task]
      /\ present \in [Instances -> [Users -> Sockets \cup {None}]]
  BY DEF MediaShape, MediaTypeOK
<1>2. now \in Task /\ now.op = k.op /\ now.inst = k.inst /\ now.user = k.user
  BY <1>1 DEF Task
<1>3. CASE task' = [task EXCEPT ![t] = [now EXCEPT !.pc = "unpublish"]] /\ UNCHANGED sessions
  <2>1. \A g \in Tasks \ {t} : task'[g] = task[g]
    BY <1>1, <1>3
  <2> QED
    BY <1>3, <2>1, KeptElsewhere DEF sessions
<1>4. CASE TakeOut(t, now)
  BY <1>2, <1>4, TakeOutKept
<1> QED
  BY <1>3, <1>4 DEF BeginRemoval

\* A handler that starts takes a free slot.
LEMMA StartKept ==
  ASSUME MediaShape, RoomKept, NEW t \in Tasks, Awaits(t, "free"),
         NEW op \in RemovalOps, NEW s \in Sockets \cup {None}, NEW i \in Instances, NEW u \in Users,
         BeginRemoval(t, Spawn(op, s, i, u)), UNCHANGED rooms
  PROVE  RoomKept'
<1> DEFINE k == Spawn(op, s, i, u)
<1>1. k \in Task /\ k.op = op /\ k.inst = i /\ k.user = u
  BY SpawnType DEF RemovalOps, TaskOps
<1>2. task[t].pc \notin KeepPcs
  BY DEF Awaits, KeepPcs
<1> HIDE DEF k
<1>3. BeginRemoval(t, k)
  BY DEF k
<1> QED
  BY <1>1, <1>2, <1>3, BeginRemovalKept DEF rooms

\* A handler at a router that goes to another such place, or closes the router.
LEMMA KeeperKept ==
  ASSUME MediaShape, RoomKept, NEW t \in Tasks, NEW new \in Task,
         task' = [task EXCEPT ![t] = new], new.inst = task[t].inst,
         \/ new.pc \in KeepPcs /\ UNCHANGED <<router, members, deserted>>
         \/ task[t].inst \in Instances /\ CloseRouter(task[t].inst) /\ UNCHANGED members
  PROVE  RoomKept'
<1> DEFINE i == task[t].inst
<1>1. task \in [Tasks -> Task] /\ router \in [Instances -> Nat]
  BY DEF MediaShape, MediaTypeOK
<1>2. task'[t] = new /\ \A g \in Tasks \ {t} : task'[g] = task[g]
  BY <1>1
<1>4. CASE new.pc \in KeepPcs /\ UNCHANGED <<router, members, deserted>>
  <2>1. \A j \in Instances : \A g \in Tasks : Keeps(task[g], j) => Keeps(task'[g], j)
    BY <1>2, <1>4 DEF Keeps
  <2>2. \A j \in Instances : Kept(j)' = Kept(j)
    BY <1>4 DEF Kept
  <2> QED
    BY <1>4, <2>1, <2>2, KeptStep
<1>5. CASE i \in Instances /\ CloseRouter(i) /\ UNCHANGED members
  <2>1. router'[i] = 0 /\ \A j \in Instances \ {i} : router'[j] = router[j]
    BY <1>1, <1>5 DEF CloseRouter
  <2>2. \A j \in Instances \ {i} : \A g \in Tasks : Keeps(task[g], j) => Keeps(task'[g], j)
    BY <1>2 DEF Keeps
  <2>3. \A j \in Instances \ {i} : Kept(j) => Kept(j)'
    BY <1>5 DEF CloseRouter, Kept
  <2> QED
    BY <2>1, <2>2, <2>3, KeptStep
<1> QED
  BY <1>4, <1>5

\* Every step keeps a router in localRooms only for somebody.
LEMMA RoomKeptNext == MediaShape /\ RoomKept /\ [MediaNext]_mediaVars => RoomKept'
<1> SUFFICES ASSUME MediaShape, RoomKept, [MediaNext]_mediaVars PROVE RoomKept'
  OBVIOUS
<1>1. /\ task \in [Tasks -> Task] /\ TasksShaped /\ LinksShaped
      /\ router \in [Instances -> Nat]
      /\ members \in [Instances -> SUBSET Users]
  BY DEF MediaShape, MediaTypeOK
<1>2. \A t \in Tasks : task[t] \in Task /\ Shaped(task[t])
  BY <1>1 DEF TasksShaped
<1>3. ASSUME NEW t \in Tasks, task[t].pc \in KeepPcs, NEW pc \in TaskPcs, Goes(t, pc),
             \/ pc \in KeepPcs /\ UNCHANGED <<router, members, deserted>>
             \/ task[t].inst \in Instances /\ CloseRouter(task[t].inst) /\ UNCHANGED members
      PROVE  RoomKept'
  <2> DEFINE new == [task[t] EXCEPT !.pc = pc]
  <2>1. new \in Task /\ new.inst = task[t].inst /\ new.pc = pc
    BY <1>2 DEF Task
  <2>2. task' = [task EXCEPT ![t] = new]
    BY <1>3 DEF Goes
  <2> HIDE DEF new
  <2> QED
    BY <1>3, <2>1, <2>2, KeeperKept
<1>4. ASSUME NEW t \in Tasks, MediaStep(t) PROVE RoomKept'
  <2> DEFINE k == task[t]
  <2>1. CASE Unpublish(t)
    <3>1. k.op \in RemovalOps /\ k.inst \in Instances /\ k.user \in Users
      BY <1>2, <2>1 DEF Unpublish, Awaits, Shaped
    <3> QED
      BY <1>2, <2>1, <3>1, TakeOutKept DEF Unpublish, Awaits, rooms, KeepPcs
  <2>2. CASE ReleaseRoom(t)
    <3>1. k.inst \in Instances
      BY <1>2, <2>2 DEF ReleaseRoom, Awaits, Shaped
    <3>2. Released(k) \in TaskPcs /\ "close" \in TaskPcs
      BY DEF Released, TaskPcs
    <3> QED
      BY <1>3, <2>2, <3>1, <3>2 DEF ReleaseRoom, Awaits, rooms, sessions, KeepPcs
  <2>3. CASE CloseRoom(t)
    <3>1. k.inst \in Instances
      BY <1>2, <2>3 DEF CloseRoom, Awaits, Shaped
    <3>2. Released(k) \in TaskPcs
      BY DEF Released, TaskPcs
    <3> QED
      BY <1>3, <2>3, <3>1, <3>2 DEF CloseRoom, Awaits, KeepPcs
  <2>4. CASE ForgetPeer(t)
    <3>1. k.inst \in Instances /\ k.user \in Users /\ k.held \in Sockets /\ k.pc = "forget"
      BY <1>2, <2>4 DEF ForgetPeer, Awaits, Shaped
    <3>2. CASE BeginRemoval(t, Spawn("leave", k.held, k.inst, k.user))
      <4> DEFINE spawned == Spawn("leave", k.held, k.inst, k.user)
      <4>1. /\ spawned \in Task /\ spawned.op = "leave" /\ spawned.inst = k.inst
            /\ spawned.user = k.user
        BY <3>1, SpawnType DEF TaskOps
      <4> HIDE DEF spawned
      <4>2. BeginRemoval(t, spawned)
        BY <3>2 DEF spawned
      <4> QED
        BY <2>4, <3>1, <4>1, <4>2, BeginRemovalKept DEF ForgetPeer, rooms, RemovalOps, KeepPcs
    <3>3. CASE (Goes(t, "next") \/ Ends(t)) /\ UNCHANGED sessions
      <4>1. \A g \in Tasks \ {t} : task'[g] = task[g]
        BY <1>1, <3>3 DEF Goes, Ends
      <4> QED
        BY <2>4, <3>1, <3>3, <4>1, KeptElsewhere DEF ForgetPeer, rooms, sessions, KeepPcs
    <3> QED
      BY <2>4, <3>2, <3>3 DEF ForgetPeer
  <2>5. CASE TeardownNext(t)
    <3>1. k.inst \in Instances /\ k.op = "teardown" /\ k.pc = "next"
      BY <1>2, <2>5 DEF TeardownNext, Awaits, Shaped
    <3>2. CASE UNCHANGED sessions /\ task' = [task EXCEPT ![t] =
                 [k EXCEPT !.pc = "release", !.read = owner, !.yes = TRUE]]
      <4>1. \A g \in Tasks \ {t} : task'[g] = task[g]
        BY <1>1, <3>2
      <4> QED
        BY <2>5, <3>1, <3>2, <4>1, KeptElsewhere DEF TeardownNext, rooms, sessions, KeepPcs
    <3>3. ASSUME NEW u \in k.todo, BeginRemoval(t, [k EXCEPT !.user = u, !.todo = @ \ {u}])
          PROVE  RoomKept'
      <4> DEFINE now == [k EXCEPT !.user = u, !.todo = @ \ {u}]
      <4>1. now \in Task /\ now.op = k.op /\ now.inst = k.inst /\ now.user = u /\ u \in Users
        BY <1>2 DEF Task
      <4>2. BeginRemoval(t, now)
        BY <3>3
      <4> HIDE DEF now
      <4> QED
        BY <2>5, <3>1, <4>1, <4>2, BeginRemovalKept DEF TeardownNext, rooms, RemovalOps, KeepPcs
    <3> QED
      BY <2>5, <3>2, <3>3 DEF TeardownNext
  <2>6. CASE Cached(t)
    <3>1. k.inst \in Instances
      BY <1>2, <2>6 DEF Cached, Awaits, Shaped
    <3>2. CASE Goes(t, "save") /\ UNCHANGED <<rooms, sessions>>
      BY <1>3, <2>6, <3>2 DEF Cached, Awaits, rooms, sessions, KeepPcs, TaskPcs
    <3>3. CASE /\ CloseRouter(k.inst) /\ UNCHANGED members
               /\ task' = [task EXCEPT ![t] = [k EXCEPT !.pc = "owned", !.read = owner]]
      <4> DEFINE new == [k EXCEPT !.pc = "owned", !.read = owner]
      <4>1. owner \in Instances \cup {None}
        BY DEF MediaShape, MediaTypeOK
      <4>2. new \in Task /\ new.inst = k.inst
        BY <1>2, <4>1 DEF Task, TaskPcs
      <4>3. task' = [task EXCEPT ![t] = new]
        BY <3>3
      <4> HIDE DEF new
      <4> QED
        BY <3>1, <3>3, <4>2, <4>3, KeeperKept
    <3> QED
      BY <2>6, <3>2, <3>3 DEF Cached
  <2>7. CASE CreateRouter(t)
    <3> DEFINE i == k.inst
    <3>1. i \in Instances
      BY <1>2, <2>7 DEF CreateRouter, Awaits, Shaped, JoinPcs
    <3>2. task'[t].pc = "save" /\ task'[t].inst = i /\ \A g \in Tasks \ {t} : task'[g] = task[g]
      BY <1>1, <1>2, <2>7 DEF CreateRouter, Task
    <3>3. Keeps(task'[t], i)
      BY <3>2 DEF Keeps, KeepPcs
    <3>4. \A j \in Instances \ {i} : router'[j] = router[j]
      BY <1>1, <2>7 DEF CreateRouter
    <3>5. \A j \in Instances : Kept(j)' = Kept(j)
      BY <2>7 DEF CreateRouter, sessions, Kept
    <3>6. \A j \in Instances \ {i} : \A g \in Tasks : Keeps(task[g], j) => Keeps(task'[g], j)
      BY <2>7, <3>2 DEF CreateRouter, Awaits, Keeps, KeepPcs
    <3> QED
      BY <3>1, <3>3, <3>4, <3>5, <3>6 DEF RoomKept
  <2>8. CASE SavePeer(t)
    BY <1>3, <2>8 DEF SavePeer, Awaits, rooms, sessions, KeepPcs, TaskPcs
  <2>9. CASE Enter(t)
    <3>1. k.inst \in Instances /\ k.op = "join" /\ k.user \in Users
      BY <1>2, <2>9 DEF Enter, Awaits, Shaped, JoinPcs
    <3>3. PICK i \in Instances, u \in Users : i = k.inst /\ u = k.user
      BY <3>1
    <3>4. members' = [members EXCEPT ![i] = @ \cup {u}] /\ deserted' = deserted \ {i}
      BY <2>9, <3>3 DEF Enter
    <3>5. Kept(i)' /\ \A j \in Instances \ {i} : Kept(j) => Kept(j)'
      <4>1. u \in members'[i] /\ \A j \in Instances \ {i} : members'[j] = members[j]
        BY <1>1, <3>4
      <4> QED
        BY <3>4, <4>1 DEF Kept
    <3>6. \A j \in Instances \ {i} : \A g \in Tasks : Keeps(task[g], j) => Keeps(task'[g], j)
      BY <1>1, <2>9, <3>3 DEF Enter, Ends, Keeps
    <3>7. UNCHANGED router
      BY <2>9 DEF Enter, rooms
    <3>8. SUFFICES ASSUME NEW j \in Instances, router'[j] # 0
                   PROVE  Kept(j)' \/ \E g \in Tasks : Keeps(task'[g], j)
      BY DEF RoomKept, Keeps
    <3>9. CASE j = i
      BY <3>5, <3>9
    <3>10. CASE j # i
      <4>1. Kept(j) \/ \E g \in Tasks : Keeps(task[g], j)
        BY <3>7, <3>8 DEF RoomKept
      <4> QED
        BY <3>5, <3>6, <3>10, <4>1
    <3> QED
      BY <3>9, <3>10
  <2>10. CASE \/ WipeRedis(t) \/ Owned(t) \/ CountPeers(t) \/ Cleared(t) \/ Claimed(t)
              \/ Reread(t) \/ WrongInstance(t) \/ LookupAgain(t) \/ MakeTransport(t)
              \/ AddProducer(t)
    <3>1. k.pc \notin KeepPcs
      BY <2>10 DEF WipeRedis, Owned, CountPeers, Cleared, Claimed, Reread, WrongInstance,
                   LookupAgain, MakeTransport, AddProducer, Awaits, KeepPcs
    <3>2. \A g \in Tasks \ {t} : task'[g] = task[g]
      BY <1>1, <2>10 DEF WipeRedis, Owned, CountPeers, Cleared, Claimed, Reread, WrongInstance,
                         LookupAgain, MakeTransport, AddProducer, Goes, Ends, Wrong, AfterRemoval
    <3>3. UNCHANGED <<router, members, deserted>>
      BY <2>10 DEF WipeRedis, Owned, CountPeers, Cleared, Claimed, Reread, WrongInstance,
                   LookupAgain, MakeTransport, AddProducer, rooms, sessions
    <3> QED
      BY <3>1, <3>2, <3>3, KeptElsewhere
  <2> QED
    BY <1>4, <2>1, <2>2, <2>3, <2>4, <2>5, <2>6, <2>7, <2>8, <2>9, <2>10 DEF MediaStep
<1>5. ASSUME NEW t \in Tasks, NEW s \in Sockets,
             LeaveRoom(t, s) \/ Disconnect(t, s)
      PROVE  RoomKept'
  <2>1. link[s].user \in Users /\ link[s].inst \in Instances
    BY <1>1, <1>5 DEF LeaveRoom, Disconnect, LinksShaped
  <2> QED
    BY <1>5, <2>1, StartKept DEF LeaveRoom, Disconnect, RemovalOps
<1>6. ASSUME NEW t \in Tasks, NEW i \in Instances, NEW u \in Users,
             KickPeer(t, i, u) \/ \E s \in Sockets : Join(t, s, i, u)
      PROVE  RoomKept'
  BY <1>6, StartKept DEF KickPeer, Join, RemovalOps
<1>11. ASSUME NEW t \in Tasks, NEW i \in Instances, NEW u \in Users, OtherRoom(t, i, u)
       PROVE  RoomKept'
  <2>1. ASSUME NEW op \in {"move", "leave"}, BeginRemoval(t, Spawn(op, None, i, u))
        PROVE  RoomKept'
    BY <1>11, <2>1, StartKept DEF OtherRoom, RemovalOps
  <2>2. CASE UNCHANGED <<router, members, deserted, task>>
    BY <2>2 DEF RoomKept, Kept, Keeps
  <2> QED
    BY <1>11, <2>1, <2>2 DEF OtherRoom, rooms
<1>7. ASSUME NEW t \in Tasks,
             \/ \E s \in Sockets : CreateTransport(t, s) \/ Produce(t, s)
             \/ \E i \in Instances : TeardownRoom(t, i)
      PROVE  RoomKept'
  <2>1. task[t].pc \notin KeepPcs
    BY <1>7 DEF CreateTransport, Produce, TeardownRoom, Awaits, KeepPcs
  <2>2. \A g \in Tasks \ {t} : task'[g] = task[g]
    BY <1>1, <1>7 DEF CreateTransport, Produce, TeardownRoom
  <2>3. UNCHANGED <<router, members, deserted>>
    BY <1>7 DEF CreateTransport, Produce, TeardownRoom, rooms, sessions
  <2> QED
    BY <2>1, <2>2, <2>3, KeptElsewhere
<1>8. ASSUME NEW s \in Sockets, CloseProducer(s) PROVE RoomKept'
  BY <1>8 DEF CloseProducer, rooms, RoomKept, Kept, Keeps
<1>9. ASSUME NEW i \in Instances, Crash(i) PROVE RoomKept'
  <2>1. router'[i] = 0 /\ \A j \in Instances \ {i} : router'[j] = router[j]
    BY <1>1, <1>9 DEF Crash
  <2>2. \A j \in Instances \ {i} : Kept(j) => Kept(j)'
    BY <1>1, <1>9 DEF Crash, Kept
  <2>3. \A j \in Instances \ {i} : \A t \in Tasks : Keeps(task[t], j) => Keeps(task'[t], j)
    BY <1>9 DEF Crash, Keeps
  <2> QED
    BY <2>1, <2>2, <2>3, KeptStep
<1>10. CASE UNCHANGED mediaVars
  BY <1>10 DEF mediaVars, rooms, sessions, RoomKept, Kept, Keeps
<1> QED
  BY <1>4, <1>5, <1>6, <1>7, <1>8, <1>9, <1>10, <1>11 DEF MediaNext

\* Behaviour covered: removeSession and releaseRoom against getOrCreateLocalRoom. However joins,
\* leaves, kicks, teardowns, disconnects, other rooms and crashes interleave, localRooms has a
\* router only for a member, for a handler that is about to enter the room or to close it, or
\* since the last member joined another room.
THEOREM RoomKeptHolds == MediaSpec => []RoomKept
<1>1. MediaInit => RoomKept
  BY DEF MediaInit, RoomKept
<1> QED
  BY <1>1, RoomKeptNext, MediaShapeHolds, PTL DEF MediaSpec

=============================================================================
