------------------------- MODULE MediaRoomLifeProofs -------------------------
(***************************************************************************)
(* Proofs about the life of a room of the media service, for any accounts, *)
(* sockets, instances, handler slots and bounds: who stays in it, that the *)
(* members have a router and share it, and which routers are left when it  *)
(* is empty. Each invariant says what a handler may rely on between two    *)
(* awaits.                                                                 *)
(***************************************************************************)
EXTENDS MediaRoomProofs

-----------------------------------------------------------------------------
(* What a removal does                                                      *)

\* A handler that goes on for the same socket, user and session.
Serves(n, k) ==
  /\ n.op = k.op /\ n.sock = k.sock /\ n.inst = k.inst /\ n.user = k.user
  /\ n.held = k.held /\ n.yes = k.yes /\ n.todo = k.todo
OthersSame(t) == \A g \in Tasks \ {t} : task'[g] = task[g]

\* removeSession, with its events still to publish.
Waits(t, k) ==
  /\ OthersSame(t) /\ UNCHANGED sessions /\ k.held # None /\ k.held = present[k.inst][k.user]
  /\ Serves(task'[t], k) /\ task'[t].pc = "unpublish" /\ task'[t].read = k.read

\* What a handler does once removeSession has taken the session out.
Follows(n, k) ==
  \/ /\ k.op = "join" /\ Serves(n, k) /\ n.read = owner
     /\ n.pc = IF router[k.inst] # 0 THEN "cached" ELSE "owned"
  \/ /\ k.op \in {"leave", "kick", "teardown"} /\ k.held # None /\ members[k.inst] = {k.user}
     /\ Serves(n, k) /\ n.pc = "release" /\ n.read = owner
  \/ /\ k.op \in {"leave", "kick", "teardown"} /\ k.held # None /\ members[k.inst] # {k.user}
     /\ Serves(n, k) /\ n.pc = "forget" /\ n.read = k.read
  \/ k.op = "teardown" /\ k.held = None /\ Serves(n, k) /\ n.pc = "next" /\ n.read = k.read
  \/ k.op = "move" /\ n = NoTask
  \/ k.op \in {"leave", "kick"} /\ k.held = None /\ n = NoTask

TakesOut(t, k) ==
  /\ OthersSame(t) /\ Follows(task'[t], k)
  /\ \A i \in Instances, u \in Users :
       present'[i][u] = IF k.held # None /\ i = k.inst /\ u = k.user THEN None ELSE present[i][u]
  /\ \A s \in Sockets : transport'[s] = IF s = k.held THEN 0 ELSE transport[s]

Removal(t, k) == Waits(t, k) \/ TakesOut(t, k)

\* A handler to take a session out.
Remover(k) ==
  /\ k \in Task /\ k.op \in RemovalOps /\ k.inst \in Instances /\ k.user \in Users
  /\ k.op = "join" => k.sock \in Sockets

\* What removeSession does to the sessions, the transports and its handler when it
\* takes a session out.
LEMMA TakeOutEffect ==
  ASSUME MediaShape, NEW t \in Tasks, NEW k, Remover(k), TakeOut(t, k)
  PROVE  TakesOut(t, k)
<1> DEFINE gone == k.held # None
           last == members[k.inst] = {k.user}
<1>1. /\ task \in [Tasks -> Task] /\ owner \in Instances \cup {None} /\ router[k.inst] \in Nat
      /\ present \in [Instances -> [Users -> Sockets \cup {None}]]
      /\ transport \in [Sockets -> Nat]
  BY DEF MediaShape, MediaTypeOK, Remover
<1>2. k \in Task /\ k.op \in RemovalOps /\ k.inst \in Instances /\ k.user \in Users
      /\ (gone => k.held \in Sockets)
  BY DEF Remover, Task
<1>3. AfterRemoval(t, k, gone, last)
  BY DEF TakeOut
<1>4. OthersSame(t)
  BY <1>1, <1>3 DEF AfterRemoval, OthersSame
<1>5. Follows(task'[t], k)
  <2> HIDE DEF last
  <2>1. CASE k.op = "join"
    <3> DEFINE pc == IF router[k.inst] # 0 THEN "cached" ELSE "owned"
               new == [k EXCEPT !.read = owner, !.rtr = router[k.inst], !.pc = pc]
    <3>1. task'[t] = new
      BY <1>1, <1>3, <2>1 DEF AfterRemoval
    <3>2. Serves(new, k) /\ new.read = owner /\ new.pc = pc
      BY <1>1, <1>2 DEF Task, Serves
    <3> QED
      BY <2>1, <3>1, <3>2 DEF Follows
  <2>2. CASE k.op \in {"leave", "kick", "teardown"} /\ gone /\ last
    <3> DEFINE new == [k EXCEPT !.pc = "release", !.read = owner]
    <3>1. task'[t] = new
      BY <1>1, <1>3, <2>2 DEF AfterRemoval
    <3>2. Serves(new, k) /\ new.read = owner /\ new.pc = "release"
      BY <1>1, <1>2 DEF Task, Serves
    <3> QED
      BY <2>2, <3>1, <3>2 DEF Follows, last
  <2>3. CASE k.op \in {"leave", "kick", "teardown"} /\ gone /\ ~ last
    <3> DEFINE new == [k EXCEPT !.pc = "forget"]
    <3>1. task'[t] = new
      BY <1>1, <1>3, <2>3 DEF AfterRemoval
    <3>2. Serves(new, k) /\ new.read = k.read /\ new.pc = "forget"
      BY <1>1, <1>2 DEF Task, Serves
    <3> QED
      BY <2>3, <3>1, <3>2 DEF Follows, last
  <2>4. CASE k.op = "teardown" /\ ~ gone
    <3> DEFINE new == [k EXCEPT !.pc = "next"]
    <3>1. task'[t] = new
      BY <1>1, <1>3, <2>4 DEF AfterRemoval
    <3>2. Serves(new, k) /\ new.read = k.read /\ new.pc = "next"
      BY <1>1, <1>2 DEF Task, Serves
    <3> QED
      BY <2>4, <3>1, <3>2 DEF Follows
  <2>5. CASE k.op = "move" \/ (k.op \in {"leave", "kick"} /\ ~ gone)
    BY <1>1, <1>3, <2>5 DEF AfterRemoval, Follows
  <2> QED
    BY <1>2, <2>1, <2>2, <2>3, <2>4, <2>5 DEF RemovalOps
<1>6. /\ \A i \in Instances, u \in Users :
           present'[i][u] = IF gone /\ i = k.inst /\ u = k.user THEN None ELSE present[i][u]
      /\ \A s \in Sockets : transport'[s] = IF s = k.held THEN 0 ELSE transport[s]
  <2>1. CASE gone
    <3>1. /\ present' = [present EXCEPT ![k.inst][k.user] = None]
          /\ transport' = [transport EXCEPT ![k.held] = 0]
      BY <2>1 DEF TakeOut
    <3> QED
      BY <1>1, <1>2, <2>1, <3>1
  <2>2. CASE ~ gone
    BY <2>2, MediaAssumption DEF TakeOut, sessions
  <2> QED
    BY <2>1, <2>2
<1> QED
  BY <1>4, <1>5, <1>6 DEF TakesOut

\* The session that a removal starts with is the one the user has.
Starter(h, k) ==
  /\ Remover(h) /\ h.held = present[k.inst][k.user] /\ h.read = k.read
  /\ h.op = k.op /\ h.sock = k.sock /\ h.inst = k.inst /\ h.user = k.user
  /\ h.yes = k.yes /\ h.todo = k.todo

\* What removeSession does from its start to its first await.
LEMMA BeginRemovalEffect ==
  ASSUME MediaShape, NEW t \in Tasks, NEW k, Remover(k), BeginRemoval(t, k)
  PROVE  \E h : Starter(h, k) /\ Removal(t, h)
<1> DEFINE h == [k EXCEPT !.held = present[k.inst][k.user]]
<1>1. /\ task \in [Tasks -> Task]
      /\ present \in [Instances -> [Users -> Sockets \cup {None}]] /\ producing \in SUBSET Sockets
      /\ k \in Task /\ k.inst \in Instances /\ k.user \in Users
  BY DEF MediaShape, MediaTypeOK, Remover
<1>2. h \in Task /\ h.held = present[k.inst][k.user] /\ h.read = k.read
      /\ h.op = k.op /\ h.sock = k.sock /\ h.inst = k.inst /\ h.user = k.user
      /\ h.yes = k.yes /\ h.todo = k.todo
  <2> DEFINE now == present[k.inst][k.user]
  <2>1. now \in Sockets \cup {None}
    BY <1>1
  <2> HIDE DEF now
  <2>2. h = [k EXCEPT !.held = now]
    BY DEF now
  <2>3. /\ [k EXCEPT !.held = now] \in Task /\ [k EXCEPT !.held = now].held = now
        /\ \A f \in DOMAIN k \ {"held"} : [k EXCEPT !.held = now][f] = k[f]
    BY <1>1, <2>1 DEF Task
  <2> QED
    BY <1>1, <2>2, <2>3 DEF Task, now
<1>3. Starter(h, k)
  BY <1>2 DEF Starter, Remover
<1>4. CASE /\ h.held \in producing
           /\ task' = [task EXCEPT ![t] = [h EXCEPT !.pc = "unpublish"]]
           /\ UNCHANGED sessions
  <2> HIDE DEF h
  <2> DEFINE new == [h EXCEPT !.pc = "unpublish"]
  <2>1. task'[t] = new /\ OthersSame(t)
    BY <1>1, <1>4 DEF OthersSame
  <2>2. Serves(new, h) /\ new.pc = "unpublish" /\ new.read = h.read
    BY <1>2 DEF Serves, Task
  <2>3. h.held # None
    BY <1>1, <1>4, MediaAssumption
  <2>4. Waits(t, h)
    BY <1>2, <1>4, <2>1, <2>2, <2>3 DEF Waits
  <2> QED
    BY <1>3, <2>4 DEF Removal
<1>5. CASE TakeOut(t, h)
  <2>1. Remover(h)
    BY <1>3 DEF Starter
  <2> HIDE DEF h
  <2> QED
    BY <1>3, <1>5, <2>1, TakeOutEffect DEF Removal
<1> QED
  BY <1>4, <1>5 DEF BeginRemoval

\* A handler that starts for somebody takes out the session they have.
Starting(h, op, s, i, u) ==
  /\ Remover(h) /\ h.held = present[i][u] /\ h.read = None
  /\ h.op = op /\ h.sock = s /\ h.inst = i /\ h.user = u
  /\ h.yes = FALSE /\ h.todo = {}

\* What a leave, a kick, a disconnect or a join that removes a session first does to the
\* sessions, the transports and its handler when it starts.
LEMMA StartEffect ==
  ASSUME MediaShape, NEW t \in Tasks, NEW op \in RemovalOps, NEW s \in Sockets \cup {None},
         op = "join" => s \in Sockets, NEW i \in Instances, NEW u \in Users,
         BeginRemoval(t, Spawn(op, s, i, u))
  PROVE  \E h : Starting(h, op, s, i, u) /\ Removal(t, h)
<1> DEFINE k == Spawn(op, s, i, u)
<1>1. k \in Task /\ k.op = op /\ k.sock = s /\ k.inst = i /\ k.user = u
  BY SpawnType DEF RemovalOps, TaskOps
<1>2. k.read = None /\ k.yes = FALSE /\ k.todo = {}
  BY DEF Spawn, NoTask
<1> HIDE DEF k
<1>3. Remover(k) /\ BeginRemoval(t, k)
  BY <1>1 DEF Remover, k
<1>4. PICK h : Starter(h, k) /\ Removal(t, h)
  BY <1>3, BeginRemovalEffect
<1>5. Starting(h, op, s, i, u)
  BY <1>1, <1>2, <1>4 DEF Starter, Starting
<1> QED
  BY <1>4, <1>5

-----------------------------------------------------------------------------
(* Whose sessions there are                                                 *)

\* A socket that has not joined has no instance and no transport.
NewLinks ==
  \A s \in Sockets :
    /\ link[s].state = "new" => link[s].inst = None
    /\ link[s].state \in {"new", "open"} => transport[s] = 0

\* The session of socket s is of its user and its instance, and s has joined.
Of(s, i, u) == link[s].inst = i /\ link[s].user = u /\ link[s].state \notin {"new", "open"}
SessionLinks ==
  \A i \in Instances, u \in Users : present[i][u] # None => Of(present[i][u], i, u)
HeldLinks ==
  \A t \in Tasks : task[t].held # None => Of(task[t].held, task[t].inst, task[t].user)

\* A socket that is joining has no session yet; if it is closed, it is an orphan.
Joins(t) == task[t].op = "join"
Fresh(s) ==
  /\ transport[s] = 0 /\ \A t \in Tasks : task[t].held # s
  /\ \A i \in Instances, u \in Users : present[i][u] # s
JoinLinks ==
  \A t \in Tasks : Joins(t) =>
    LET s == task[t].sock
    IN  /\ s \in Sockets /\ link[s].inst = task[t].inst /\ link[s].user = task[t].user
        /\ link[s].state \in {"open", "closed"}
        /\ link[s].state = "closed" => s \in orphans
        /\ Fresh(s)
OneJoin == \A t, g \in Tasks : Joins(t) /\ Joins(g) /\ task[t].sock = task[g].sock => t = g

\* The session of a socket that is closed is an orphan's, or is being removed.
Removes(t, i, u) == Awaits(t, "unpublish") /\ task[t].inst = i /\ task[t].user = u
GoneAreRemoved ==
  \A i \in Instances, u \in Users :
    LET s == present[i][u]
    IN  s # None /\ link[s].state = "closed" => s \in orphans \/ \E t \in Tasks : Removes(t, i, u)

LinksKept == /\ NewLinks /\ SessionLinks /\ HeldLinks /\ JoinLinks /\ OneJoin
             /\ GoneAreRemoved

\* What a step may do to sockets, sessions and transports when nobody joins or enters.
LinkMoves ==
  \A s \in Sockets :
    \/ link'[s] = link[s]
    \/ /\ link[s].state # "new" /\ link'[s].user = link[s].user /\ link'[s].inst = link[s].inst
       /\ link'[s].state \notin {"new", "open"}
       /\ link[s].state \in {"open", "closed"} => link'[s].state = "closed"
SessionMoves == \A i \in Instances, u \in Users : present'[i][u] \in {None, present[i][u]}
TransportMoves ==
  \A s \in Sockets : transport'[s] \in {0, transport[s]} \/ \E t \in Tasks : task[t].held = s

\* A handler keeps its session or takes one that is there; none begins to join.
HeldBy(n, k) == n.held = k.held /\ n.inst = k.inst /\ n.user = k.user
HandlerMoves ==
  \A t \in Tasks :
    LET n == task'[t]
    IN  /\ \/ n.held = None \/ HeldBy(n, task[t])
           \/ \E i \in Instances, u \in Users : /\ present[i][u] = n.held
                                                /\ n.inst = i /\ n.user = u
        /\ n.op = "join" => /\ Joins(t) /\ n.sock = task[t].sock
                            /\ n.inst = task[t].inst /\ n.user = task[t].user

\* Whoever is closed is an orphan if it joins, and its session is an orphan's or removed.
ClosedNow(s) == link'[s].state = "closed" /\ link[s].state # "closed"
OrphanMoves ==
  /\ orphans \subseteq orphans'
  /\ \A t \in Tasks : task'[t].op = "join" /\ ClosedNow(task'[t].sock) => task'[t].sock \in orphans'
Removed(i, u) == \E t \in Tasks : /\ task'[t].pc = "unpublish"
                                  /\ task'[t].inst = i /\ task'[t].user = u
GoneMoves ==
  \A i \in Instances, u \in Users : present'[i][u] # None =>
    /\ ClosedNow(present[i][u]) => Removed(i, u)
    /\ \A t \in Tasks : Removes(t, i, u) => Removed(i, u)

Moves == /\ LinkMoves /\ SessionMoves /\ TransportMoves /\ HandlerMoves /\ OrphanMoves
         /\ GoneMoves

\* A step that moves sockets, sessions and handlers in the permitted ways only keeps
\* their links.
LEMMA MovesKeepLinks ==
  ASSUME MediaShape, MediaShape', LinksKept, Moves PROVE LinksKept'
<1>0. /\ task \in [Tasks -> Task] /\ task' \in [Tasks -> Task]
      /\ present \in [Instances -> [Users -> Sockets \cup {None}]]
      /\ present' \in [Instances -> [Users -> Sockets \cup {None}]]
  BY DEF MediaShape, MediaTypeOK
<1>00. \A i \in Instances, u \in Users : present[i][u] \in Sockets \cup {None}
  BY <1>0
<1>1. ASSUME NEW s \in Sockets, NEW i, NEW u, Of(s, i, u) PROVE Of(s, i, u)'
  BY <1>1 DEF Moves, LinkMoves, Of
<1>2. ASSUME NEW t \in Tasks, task[t].held # None
      PROVE  task[t].held \in Sockets /\ Of(task[t].held, task[t].inst, task[t].user)
  BY <1>0, <1>2 DEF LinksKept, HeldLinks, Task
<1>3. NewLinks'
  <2> SUFFICES ASSUME NEW s \in Sockets
               PROVE  /\ link'[s].state = "new" => link'[s].inst = None
                      /\ link'[s].state \in {"new", "open"} => transport'[s] = 0
    BY DEF NewLinks
  <2>1. link'[s].state \in {"new", "open"} => link'[s] = link[s]
    BY DEF Moves, LinkMoves
  <2>2. link[s].state \in {"new", "open"} => transport'[s] \in {0, transport[s]}
    BY <1>2, MediaAssumption DEF Moves, TransportMoves, Of
  <2> QED
    BY <2>1, <2>2 DEF LinksKept, NewLinks
<1>4. SessionLinks'
  <2> SUFFICES ASSUME NEW i \in Instances, NEW u \in Users, present'[i][u] # None
               PROVE  Of(present[i][u], i, u)' /\ present'[i][u] = present[i][u]
    BY DEF SessionLinks, Of
  <2>1. present'[i][u] = present[i][u] /\ present[i][u] \in Sockets
    BY <1>00 DEF Moves, SessionMoves
  <2>2. Of(present[i][u], i, u)
    BY <2>1 DEF LinksKept, SessionLinks
  <2> QED
    BY <2>1, <2>2 DEF Moves, LinkMoves, Of
<1>5. HeldLinks'
  <2> SUFFICES ASSUME NEW t \in Tasks, task'[t].held # None
               PROVE  LET n == task'[t]
                      IN  n.held \in Sockets /\ Of(n.held, n.inst, n.user)
    BY <1>1 DEF HeldLinks, Of, Moves, LinkMoves
  <2>1. CASE HeldBy(task'[t], task[t])
    BY <1>2, <2>1 DEF HeldBy
  <2>2. CASE \E i \in Instances, u \in Users : /\ present[i][u] = task'[t].held
                                               /\ task'[t].inst = i /\ task'[t].user = u
    <3>1. PICK i \in Instances, u \in Users : /\ present[i][u] = task'[t].held
                                              /\ task'[t].inst = i /\ task'[t].user = u
      BY <2>2
    <3> QED
      BY <1>00, <3>1 DEF LinksKept, SessionLinks
  <2> QED
    BY <2>1, <2>2 DEF Moves, HandlerMoves
<1>6. JoinLinks'
  <2> SUFFICES ASSUME NEW t \in Tasks, NEW s, s = task'[t].sock, task'[t].op = "join"
               PROVE  /\ s \in Sockets
                      /\ link'[s].inst = task'[t].inst /\ link'[s].user = task'[t].user
                      /\ link'[s].state \in {"open", "closed"}
                      /\ link'[s].state = "closed" => s \in orphans'
                      /\ transport'[s] = 0 /\ \A g \in Tasks : task'[g].held # s
                      /\ \A i \in Instances, u \in Users : present'[i][u] # s
    BY DEF JoinLinks, Joins, Fresh
  <2>1. /\ Joins(t) /\ task[t].sock = s /\ task'[t].inst = task[t].inst
        /\ task'[t].user = task[t].user
    BY DEF Moves, HandlerMoves
  <2>2. /\ s \in Sockets /\ link[s].inst = task[t].inst /\ link[s].user = task[t].user
        /\ link[s].state \in {"open", "closed"}
        /\ link[s].state = "closed" => s \in orphans
        /\ Fresh(s)
    BY <2>1 DEF LinksKept, JoinLinks
  <2>3. /\ link'[s].inst = link[s].inst /\ link'[s].user = link[s].user
        /\ link'[s].state \in {"open", "closed"}
    BY <2>2 DEF Moves, LinkMoves
  <2>4. link'[s].state = "closed" => s \in orphans'
    BY <2>1, <2>2 DEF Moves, OrphanMoves, ClosedNow
  <2>5. s # None
    BY <2>2, MediaAssumption
  <2>6. transport'[s] = 0
    BY <2>2 DEF Moves, TransportMoves, Fresh
  <2>7. \A g \in Tasks : task'[g].held # s
    BY <2>2, <2>5 DEF Moves, HandlerMoves, HeldBy, Fresh
  <2>8. \A i \in Instances, u \in Users : present'[i][u] # s
    BY <2>2, <2>5 DEF Moves, SessionMoves, Fresh
  <2> QED
    BY <2>1, <2>2, <2>3, <2>4, <2>6, <2>7, <2>8
<1>7. OneJoin'
  BY DEF LinksKept, OneJoin, Joins, Moves, HandlerMoves
<1>8. GoneAreRemoved'
  <2> SUFFICES ASSUME NEW i \in Instances, NEW u \in Users, present'[i][u] # None,
                      link'[present'[i][u]].state = "closed"
               PROVE  present'[i][u] \in orphans' \/ Removed(i, u)
    BY DEF GoneAreRemoved, Removes, Awaits, Removed
  <2>1. present'[i][u] = present[i][u]
    BY DEF Moves, SessionMoves
  <2>2. CASE ClosedNow(present[i][u])
    BY <2>2 DEF Moves, GoneMoves
  <2>3. CASE ~ ClosedNow(present[i][u])
    <3>1. present[i][u] \in orphans \/ \E t \in Tasks : Removes(t, i, u)
      BY <2>1, <2>3 DEF LinksKept, GoneAreRemoved, ClosedNow
    <3> QED
      BY <2>1, <3>1 DEF Moves, OrphanMoves, GoneMoves
  <2> QED
    BY <2>2, <2>3
<1> QED
  BY <1>3, <1>4, <1>5, <1>6, <1>7, <1>8 DEF LinksKept

\* A step of one handler that leaves the sessions alone, or only closes transports.
Quiet(t) ==
  /\ UNCHANGED <<link, present, orphans>> /\ OthersSame(t) /\ ~ Awaits(t, "unpublish")
  /\ \A s \in Sockets : transport'[s] \in {0, transport[s]}
  /\ \/ task'[t] = NoTask
     \/ HeldBy(task'[t], task[t]) /\ task'[t].op = task[t].op /\ task'[t].sock = task[t].sock

\* A step that lets nobody in and takes nobody out moves them in the permitted ways.
LEMMA QuietMoves ==
  ASSUME MediaShape, NEW t \in Tasks, Quiet(t) PROVE Moves
<1>1. NoTask.held = None /\ NoTask.op = "none"
  BY DEF NoTask
<1>2. LinkMoves /\ SessionMoves /\ TransportMoves
  BY DEF Quiet, LinkMoves, SessionMoves, TransportMoves
<1>3. HandlerMoves
  BY <1>1 DEF Quiet, OthersSame, HandlerMoves, HeldBy, Joins
<1>4. OrphanMoves
  BY DEF Quiet, OrphanMoves, ClosedNow
<1>5. GoneMoves
  BY DEF Quiet, OthersSame, GoneMoves, ClosedNow, Removes, Awaits, Removed
<1> QED
  BY <1>2, <1>3, <1>4, <1>5 DEF Moves

\* A removal, by a handler that goes on with it or starts it.
LEMMA RemovalMoves ==
  ASSUME MediaShape, NEW t \in Tasks, NEW h, Remover(h), Removal(t, h),
         h.op = "join" => Joins(t) /\ h.sock = task[t].sock /\ HeldBy(h, task[t]),
         h.held = present[h.inst][h.user] \/ HeldBy(h, task[t]),
         Awaits(t, "unpublish") => TakesOut(t, h) /\ HeldBy(h, task[t]),
         Awaits(t, "unpublish") \/ h.held = present[h.inst][h.user],
         LinkMoves, OrphanMoves,
         \A i \in Instances, u \in Users : ClosedNow(present[i][u]) /\ present[i][u] # None =>
            i = h.inst /\ u = h.user /\ ~ Awaits(t, "unpublish")
  PROVE  Moves
<1>1. NoTask.held = None /\ NoTask.op = "none"
  BY DEF NoTask
<1>2. OthersSame(t)
  BY DEF Removal, Waits, TakesOut
<1>3. task'[t] = NoTask \/ Serves(task'[t], h)
  BY DEF Removal, Waits, TakesOut, Follows
<1>4. SessionMoves
  BY DEF SessionMoves, Removal, Waits, TakesOut, sessions
<1>5. TransportMoves
  BY DEF TransportMoves, Removal, Waits, TakesOut, sessions
<1>6. HandlerMoves
  <2> SUFFICES ASSUME NEW g \in Tasks
               PROVE  LET n == task'[g]
                      IN  /\ \/ n.held = None \/ HeldBy(n, task[g])
                             \/ \E i \in Instances, u \in Users : /\ present[i][u] = n.held
                                                                  /\ n.inst = i /\ n.user = u
                          /\ n.op = "join" => /\ Joins(g) /\ n.sock = task[g].sock
                                              /\ n.inst = task[g].inst /\ n.user = task[g].user
    BY DEF HandlerMoves
  <2>1. CASE g # t
    BY <1>2, <2>1 DEF OthersSame, HeldBy, Joins
  <2>2. CASE g = t /\ task'[t] = NoTask
    BY <1>1, <2>2
  <2>3. CASE g = t /\ Serves(task'[t], h)
    <3>1. h.inst \in Instances /\ h.user \in Users
      BY DEF Remover
    <3> QED
      BY <2>3, <3>1 DEF Serves, HeldBy
  <2> QED
    BY <1>3, <2>1, <2>2, <2>3
<1>7. GoneMoves
  <2> SUFFICES ASSUME NEW i \in Instances, NEW u \in Users, present'[i][u] # None
               PROVE  /\ ClosedNow(present[i][u]) => Removed(i, u)
                      /\ \A g \in Tasks : Removes(g, i, u) => Removed(i, u)
    BY DEF GoneMoves
  <2>0. present[i][u] # None
    BY <1>4 DEF SessionMoves
  <2>1. ASSUME NEW g \in Tasks, Removes(g, i, u) PROVE Removed(i, u)
    <3>1. CASE g # t
      BY <1>2, <2>1, <3>1 DEF OthersSame, Removed, Removes, Awaits
    <3>2. CASE g = t
      <4>1. HeldBy(h, task[t]) /\ TakesOut(t, h) /\ h.inst = i /\ h.user = u
        BY <2>1, <3>2 DEF Removes, HeldBy
      <4>2. h.held # None
        BY <2>1, <3>2, <4>1, MediaAssumption DEF MediaShape, TasksShaped, Shaped, Removes,
           Awaits, HeldBy
      <4> QED
        BY <4>1, <4>2 DEF TakesOut
    <3> QED
      BY <3>1, <3>2
  <2>2. ASSUME ClosedNow(present[i][u]) PROVE Removed(i, u)
    <3>1. i = h.inst /\ u = h.user /\ h.held = present[i][u]
      BY <2>0, <2>2
    <3>2. Waits(t, h)
      BY <2>0, <3>1 DEF Removal, TakesOut
    <3> QED
      BY <3>1, <3>2 DEF Waits, Serves, Removed
  <2> QED
    BY <2>1, <2>2
<1> QED
  BY <1>4, <1>5, <1>6, <1>7 DEF Moves

\* The other handlers keep their links, and so does a socket that nothing happens to.
LEMMA LinksLeft ==
  ASSUME MediaShape, UNCHANGED <<link, orphans>> PROVE LinkMoves /\ OrphanMoves
BY DEF LinkMoves, OrphanMoves, ClosedNow

\* A handler that is started for a connected socket or a webhook, and joins nobody.
LEMMA StartMoves ==
  ASSUME MediaShape, NEW t \in Tasks, ~ Awaits(t, "unpublish"), NEW op \in RemovalOps \ {"join"},
         NEW s \in Sockets \cup {None}, NEW i \in Instances, NEW u \in Users,
         BeginRemoval(t, Spawn(op, s, i, u)), LinkMoves, OrphanMoves,
         \A j \in Instances, v \in Users : ClosedNow(present[j][v]) /\ present[j][v] # None =>
            j = i /\ v = u
  PROVE  Moves
<1>1. PICK h : Starting(h, op, s, i, u) /\ Removal(t, h)
  BY StartEffect
<1> QED
  BY <1>1, RemovalMoves DEF Starting

\* A user joins: the socket is fresh.
LEMMA JoinLinksKept ==
  ASSUME MediaShape, MediaShape', LinksKept, NEW t \in Tasks, NEW s \in Sockets,
         NEW i \in Instances, NEW u \in Users, Join(t, s, i, u)
  PROVE  LinksKept'
<1>0. PICK h : Starting(h, "join", s, i, u) /\ Removal(t, h)
  BY StartEffect DEF Join, RemovalOps
<1>1. /\ Remover(h) /\ Removal(t, h) /\ h.held = present[i][u]
      /\ h.op = "join" /\ h.sock = s /\ h.inst = i /\ h.user = u
  BY <1>0 DEF Starting
<1>2. /\ OthersSame(t) /\ Serves(task'[t], h)
      /\ \A r \in Sockets : transport'[r] \in {0, transport[r]}
      /\ \A j \in Instances, v \in Users : present'[j][v] \in {None, present[j][v]}
  BY <1>1 DEF Removal, Waits, TakesOut, Follows, sessions
<1>3. /\ link[s].state = "new" /\ link'[s].state = "open" /\ link'[s].user = u
      /\ link'[s].inst = i /\ \A r \in Sockets \ {s} : link'[r] = link[r]
      /\ orphans' = orphans /\ task[t].pc = "free"
  BY DEF Join, Awaits, MediaShape, MediaTypeOK
<1>4. \A j \in Instances, v \in Users : present[j][v] \in Sockets \cup {None}
  BY DEF MediaShape, MediaTypeOK
<1>5. \A g \in Tasks : task[g].held \in Sockets \cup {None}
  BY DEF MediaShape, MediaTypeOK, Task
<1>6. /\ \A j \in Instances, v \in Users : present[j][v] # None =>
           present[j][v] # s /\ Of(present[j][v], j, v)
      /\ \A g \in Tasks : task[g].held # None =>
           task[g].held # s /\ Of(task[g].held, task[g].inst, task[g].user)
      /\ \A g \in Tasks : Joins(g) => task[g].sock # s
  BY <1>3 DEF LinksKept, SessionLinks, HeldLinks, JoinLinks, Of
<1>7. NewLinks'
  BY <1>2, <1>3 DEF LinksKept, NewLinks
<1>8. SessionLinks'
  BY <1>2, <1>3, <1>4, <1>6 DEF SessionLinks, Of
<1>9. HeldLinks'
  <2> SUFFICES ASSUME NEW g \in Tasks, task'[g].held # None
               PROVE  LET n == task'[g]
                      IN  n.held \in Sockets \ {s} /\ Of(n.held, n.inst, n.user)
    BY <1>3 DEF HeldLinks, Of
  <2>1. CASE g # t
    BY <1>2, <1>5, <1>6, <2>1 DEF OthersSame
  <2>2. CASE g = t
    BY <1>1, <1>2, <1>4, <1>6, <2>2 DEF Serves
  <2> QED
    BY <2>1, <2>2
<1>10. /\ \A g \in Tasks : task'[g].held = task[g].held \/ task'[g].held = present[i][u]
       /\ task'[t].sock = s /\ task'[t].inst = i /\ task'[t].user = u
       /\ \A g \in Tasks \ {t} : task'[g] = task[g]
  BY <1>1, <1>2 DEF OthersSame, Serves
<1>11. JoinLinks'
  <2> SUFFICES ASSUME NEW g \in Tasks, NEW r, r = task'[g].sock, task'[g].op = "join"
               PROVE  /\ r \in Sockets
                      /\ link'[r].inst = task'[g].inst /\ link'[r].user = task'[g].user
                      /\ link'[r].state \in {"open", "closed"}
                      /\ link'[r].state = "closed" => r \in orphans'
                      /\ transport'[r] = 0 /\ \A q \in Tasks : task'[q].held # r
                      /\ \A j \in Instances, v \in Users : present'[j][v] # r
    BY DEF JoinLinks, Joins, Fresh
  <2>1. CASE g = t
    <3>1. transport[s] = 0 /\ s # None
      BY <1>3, MediaAssumption DEF LinksKept, NewLinks
    <3>2. transport'[s] = 0 /\ \A j \in Instances, v \in Users : present'[j][v] # s
      BY <1>2, <1>6, <3>1
    <3>3. \A q \in Tasks : task'[q].held # s
      BY <1>6, <1>10, <3>1
    <3> QED
      BY <1>3, <1>10, <2>1, <3>2, <3>3
  <2>2. CASE g # t
    <3>1. /\ Joins(g) /\ r = task[g].sock /\ r # s
          /\ r \in Sockets /\ link[r].inst = task[g].inst /\ link[r].user = task[g].user
          /\ link[r].state \in {"open", "closed"}
          /\ link[r].state = "closed" => r \in orphans
          /\ Fresh(r)
      BY <1>6, <1>10, <2>2 DEF LinksKept, JoinLinks, Joins
    <3>2. link'[r] = link[r] /\ task'[g] = task[g] /\ r # None
      BY <1>3, <1>10, <2>2, <3>1, MediaAssumption
    <3>3. transport'[r] = 0 /\ \A j \in Instances, v \in Users : present'[j][v] # r
      BY <1>2, <3>1, <3>2 DEF Fresh
    <3>4. \A q \in Tasks : task'[q].held # r
      BY <1>10, <3>1 DEF Fresh
    <3> QED
      BY <1>3, <3>1, <3>2, <3>3, <3>4
  <2> QED
    BY <2>1, <2>2
<1>12. OneJoin'
  BY <1>6, <1>10 DEF LinksKept, OneJoin, Joins
<1>13. GoneAreRemoved'
  <2> SUFFICES ASSUME NEW j \in Instances, NEW v \in Users, present'[j][v] # None,
                      link'[present'[j][v]].state = "closed"
               PROVE  present'[j][v] \in orphans' \/ Removed(j, v)
    BY DEF GoneAreRemoved, Removes, Awaits, Removed
  <2>1. present'[j][v] = present[j][v] /\ link[present[j][v]].state = "closed"
    BY <1>2, <1>3, <1>4, <1>6
  <2>2. present[j][v] \in orphans \/ \E g \in Tasks : Removes(g, j, v)
    BY <2>1 DEF LinksKept, GoneAreRemoved
  <2> QED
    BY <1>3, <1>10, <2>1, <2>2 DEF Removes, Awaits, Removed
<1> QED
  BY <1>7, <1>8, <1>9, <1>11, <1>12, <1>13 DEF LinksKept

\* A user enters: the session is of the socket that joined.
LEMMA EnterLinksKept ==
  ASSUME MediaShape, MediaShape', LinksKept, NEW t \in Tasks, Enter(t)
  PROVE  LinksKept'
<1> DEFINE s == task[t].sock
           i == task[t].inst
           u == task[t].user
<1>1. /\ task[t].pc = "enter" /\ Joins(t) /\ s \in Sockets /\ i \in Instances /\ u \in Users
  BY DEF Enter, Awaits, MediaShape, TasksShaped, Shaped, JoinPcs, Joins
<1>2. /\ link[s].inst = i /\ link[s].user = u /\ link[s].state \in {"open", "closed"}
      /\ link[s].state = "closed" => s \in orphans
      /\ Fresh(s) /\ s # None
  BY <1>1, MediaAssumption DEF LinksKept, JoinLinks
<1>3. /\ present \in [Instances -> [Users -> Sockets \cup {None}]] /\ link \in [Sockets -> Link]
      /\ task \in [Tasks -> Task]
  BY DEF MediaShape, MediaTypeOK
<1>4. \A j \in Instances, v \in Users :
         present'[j][v] = IF j = i /\ v = u THEN s ELSE present[j][v]
  BY <1>1, <1>3 DEF Enter
<1>5. /\ \A r \in Sockets \ {s} : link'[r] = link[r]
      /\ link'[s].inst = i /\ link'[s].user = u
      /\ link'[s].state = IF link[s].state = "open" THEN "joined" ELSE link[s].state
  BY <1>1, <1>2, <1>3 DEF Enter, Link
<1>6. /\ task'[t].held = None /\ task'[t].op = "none" /\ \A g \in Tasks \ {t} : task'[g] = task[g]
      /\ UNCHANGED <<transport, orphans>>
  BY <1>3 DEF Enter, Ends, NoTask
<1>7. \A j \in Instances, v \in Users : present[j][v] \in Sockets \cup {None}
  BY <1>3
<1>8. \A g \in Tasks : task[g].held \in Sockets \cup {None}
  BY <1>3 DEF Task
<1> HIDE DEF s, i, u
<1>9. NewLinks'
  BY <1>2, <1>5, <1>6 DEF LinksKept, NewLinks
<1>10. SessionLinks'
  <2> SUFFICES ASSUME NEW j \in Instances, NEW v \in Users, present'[j][v] # None
               PROVE  Of(present[j][v], j, v)'
    BY DEF SessionLinks
  <2>1. CASE j = i /\ v = u
    BY <1>2, <1>4, <1>5, <2>1 DEF Of
  <2>2. CASE ~ (j = i /\ v = u)
    BY <1>2, <1>4, <1>5, <1>7, <2>2 DEF LinksKept, SessionLinks, Of, Fresh
  <2> QED
    BY <2>1, <2>2
<1>11. HeldLinks'
  BY <1>2, <1>5, <1>6, <1>8 DEF LinksKept, HeldLinks, Of, Fresh
<1>12. OneJoin'
  BY <1>6 DEF LinksKept, OneJoin, Joins
<1>13. JoinLinks'
  <2> SUFFICES ASSUME NEW g \in Tasks, NEW r, r = task'[g].sock, task'[g].op = "join"
               PROVE  /\ r \in Sockets
                      /\ link'[r].inst = task'[g].inst /\ link'[r].user = task'[g].user
                      /\ link'[r].state \in {"open", "closed"}
                      /\ link'[r].state = "closed" => r \in orphans'
                      /\ transport'[r] = 0 /\ \A q \in Tasks : task'[q].held # r
                      /\ \A j \in Instances, v \in Users : present'[j][v] # r
    BY DEF JoinLinks, Joins, Fresh
  <2>1. g # t /\ task'[g] = task[g] /\ Joins(g) /\ r = task[g].sock
    BY <1>6 DEF Joins
  <2>2. r # s
    BY <1>1, <2>1 DEF LinksKept, OneJoin, s
  <2>3. /\ r \in Sockets /\ link[r].inst = task[g].inst /\ link[r].user = task[g].user
        /\ link[r].state \in {"open", "closed"}
        /\ link[r].state = "closed" => r \in orphans
        /\ Fresh(r)
    BY <2>1 DEF LinksKept, JoinLinks
  <2>4. r # None
    BY <2>3, MediaAssumption
  <2>5. transport'[r] = 0 /\ \A j \in Instances, v \in Users : present'[j][v] # r
    BY <1>4, <1>6, <2>2, <2>3 DEF Fresh
  <2>6. \A q \in Tasks : task'[q].held # r
    BY <1>6, <2>3, <2>4 DEF Fresh
  <2> QED
    BY <1>5, <1>6, <2>1, <2>2, <2>3, <2>5, <2>6
<1>14. GoneAreRemoved'
  <2> SUFFICES ASSUME NEW j \in Instances, NEW v \in Users, present'[j][v] # None,
                      link'[present'[j][v]].state = "closed"
               PROVE  present'[j][v] \in orphans' \/ Removed(j, v)
    BY DEF GoneAreRemoved, Removes, Awaits, Removed
  <2>1. CASE j = i /\ v = u
    BY <1>2, <1>4, <1>5, <1>6, <2>1
  <2>2. CASE ~ (j = i /\ v = u)
    <3>1. present'[j][v] = present[j][v] /\ link[present[j][v]].state = "closed"
      BY <1>2, <1>4, <1>5, <1>7, <2>2 DEF Fresh
    <3>2. present[j][v] \in orphans \/ \E g \in Tasks : Removes(g, j, v)
      BY <2>2, <3>1 DEF LinksKept, GoneAreRemoved
    <3> QED
      BY <1>1, <1>6, <3>1, <3>2 DEF Removes, Awaits, Removed
  <2> QED
    BY <2>1, <2>2
<1> QED
  BY <1>9, <1>10, <1>11, <1>12, <1>13, <1>14 DEF LinksKept

\* The handlers that release a room, look it up, claim it or make a router.
LEMMA QuietSteps ==
  ASSUME MediaShape, NEW t \in Tasks,
         \/ ReleaseRoom(t) \/ CloseRoom(t) \/ WipeRedis(t) \/ Cached(t) \/ Owned(t)
         \/ CountPeers(t) \/ Cleared(t) \/ Claimed(t) \/ Reread(t) \/ WrongInstance(t)
         \/ LookupAgain(t) \/ CreateRouter(t) \/ SavePeer(t) \/ AddProducer(t)
  PROVE  Quiet(t)
<1> DEFINE k == task[t]
<1>1. /\ task \in [Tasks -> Task] /\ k \in Task /\ Shaped(k)
      /\ transport \in [Sockets -> Nat]
  BY DEF MediaShape, MediaTypeOK, TasksShaped
<1>2. \A new : task' = [task EXCEPT ![t] = new] => task'[t] = new /\ OthersSame(t)
  BY <1>1 DEF OthersSame
<1>3. ASSUME NEW i, CloseRouter(i) PROVE \A s \in Sockets : transport'[s] \in {0, transport[s]}
  BY <1>3 DEF CloseRouter
<1>4. ASSUME UNCHANGED transport PROVE \A s \in Sockets : transport'[s] \in {0, transport[s]}
  BY <1>4
<1>5. k.pc # "unpublish"
  BY DEF ReleaseRoom, CloseRoom, WipeRedis, Cached, Owned, CountPeers, Cleared, Claimed, Reread,
         WrongInstance, LookupAgain, CreateRouter, SavePeer, AddProducer, Awaits
<1>6. UNCHANGED <<link, present, orphans>> /\ \A s \in Sockets : transport'[s] \in {0, transport[s]}
  BY <1>3, <1>4 DEF ReleaseRoom, CloseRoom, WipeRedis, Cached, Owned, CountPeers, Cleared,
         Claimed, Reread, WrongInstance, LookupAgain, CreateRouter, SavePeer, AddProducer, sessions
<1> DEFINE Like(n) == HeldBy(n, k) /\ n.op = k.op /\ n.sock = k.sock
<1>7. \A pc : Like([k EXCEPT !.pc = pc])
  BY <1>1 DEF Task, HeldBy
<1>8. /\ Like([k EXCEPT !.pc = "claim", !.yes = owner = None])
      /\ Like([k EXCEPT !.pc = "count", !.yes = peers = {}])
      /\ Like([k EXCEPT !.pc = "wrong", !.yes = peers \subseteq {k.user}])
      /\ Like([k EXCEPT !.pc = "lookup", !.again = TRUE])
  BY <1>1 DEF Task, HeldBy
<1>9. \A pc, read : Like([k EXCEPT !.pc = pc, !.read = read])
  BY <1>1 DEF Task, HeldBy
<1>10. \A pc, r, read : /\ Like([k EXCEPT !.pc = pc, !.rtr = r])
                        /\ Like([k EXCEPT !.read = read, !.rtr = r, !.pc = pc])
  BY <1>1 DEF Task, HeldBy
<1> HIDE DEF Like
<1>11. ASSUME NEW pc, Goes(t, pc) PROVE OthersSame(t) /\ Like(task'[t])
  <2>1. task' = [task EXCEPT ![t] = [k EXCEPT !.pc = pc]]
    BY <1>11 DEF Goes
  <2> QED
    BY <1>2, <1>7, <2>1
<1>12. ASSUME Ends(t) PROVE OthersSame(t) /\ task'[t] = NoTask
  BY <1>2, <1>12 DEF Ends
<1>13. ASSUME Wrong(t, k) PROVE OthersSame(t) /\ (task'[t] = NoTask \/ Like(task'[t]))
  BY <1>2, <1>8, <1>13 DEF Wrong
<1>14. OthersSame(t) /\ (task'[t] = NoTask \/ Like(task'[t]))
  <2>1. CASE \/ ReleaseRoom(t) \/ CloseRoom(t) \/ WipeRedis(t) \/ SavePeer(t) \/ AddProducer(t)
    BY <1>11, <1>12, <2>1 DEF ReleaseRoom, CloseRoom, WipeRedis, SavePeer, AddProducer
  <2>2. CASE Cached(t)
    <3> DEFINE owns == [k EXCEPT !.pc = "owned", !.read = owner]
    <3>1. Goes(t, "save") \/ task' = [task EXCEPT ![t] = owns]
      BY <2>2 DEF Cached
    <3>2. Like(owns)
      BY <1>9
    <3> HIDE DEF owns
    <3> QED
      BY <1>2, <1>11, <3>1, <3>2
  <2>3. CASE Owned(t)
    <3> DEFINE claims == [k EXCEPT !.pc = "claim", !.yes = owner = None]
               counts == [k EXCEPT !.pc = "count", !.yes = peers = {}]
    <3>1. \/ Goes(t, "create") \/ task' = [task EXCEPT ![t] = claims]
          \/ task' = [task EXCEPT ![t] = counts]
      BY <2>3 DEF Owned
    <3>2. Like(claims) /\ Like(counts)
      BY <1>8
    <3> HIDE DEF claims, counts
    <3> QED
      BY <1>2, <1>11, <3>1, <3>2
  <2>4. CASE CountPeers(t) \/ Reread(t)
    BY <1>11, <1>13, <2>4 DEF CountPeers, Reread
  <2>9. CASE Cleared(t)
    BY <1>2, <1>8, <2>9 DEF Cleared
  <2>5. CASE Claimed(t)
    BY <1>2, <1>7, <1>9, <2>5 DEF Claimed
  <2>6. CASE WrongInstance(t)
    BY <1>2, <1>8, <1>12, <2>6 DEF WrongInstance
  <2>7. CASE LookupAgain(t)
    <3>1. k.op = "join"
      BY <1>1, <2>7 DEF LookupAgain, Awaits, Shaped, JoinPcs
    <3> QED
      BY <1>2, <1>10, <2>7, <3>1 DEF LookupAgain, AfterRemoval
  <2>8. CASE CreateRouter(t)
    <3>1. task' = [task EXCEPT ![t] = [k EXCEPT !.pc = "save", !.rtr = routers + 1]]
      BY <2>8 DEF CreateRouter
    <3> QED
      BY <1>2, <1>10, <3>1
  <2> QED
    BY <2>1, <2>2, <2>3, <2>4, <2>5, <2>6, <2>7, <2>8, <2>9
<1> QED
  BY <1>5, <1>6, <1>14 DEF Quiet, Awaits, Like

\* The handlers that take a session out, and go on with what follows.
LEMMA RemovalSteps ==
  ASSUME MediaShape, LinksKept, NEW t \in Tasks, Unpublish(t) \/ ForgetPeer(t) \/ TeardownNext(t)
  PROVE  Moves
<1> DEFINE k == task[t]
<1>1. task \in [Tasks -> Task] /\ link \in [Sockets -> Link] /\ k \in Task /\ Shaped(k)
  BY DEF MediaShape, MediaTypeOK, TasksShaped
<1>2. CASE Unpublish(t)
  <2>1. k.pc = "unpublish" /\ Remover(k) /\ TakeOut(t, k) /\ UNCHANGED <<link, orphans>>
    BY <1>1, <1>2 DEF Unpublish, Awaits, Shaped, Remover
  <2>2. TakesOut(t, k)
    BY <2>1, TakeOutEffect
  <2>3. LinkMoves /\ OrphanMoves /\ \A i \in Instances, u \in Users : ~ ClosedNow(present[i][u])
    BY <2>1, LinksLeft DEF ClosedNow
  <2>4. /\ Remover(task[t]) /\ Removal(t, task[t]) /\ TakesOut(t, task[t])
        /\ HeldBy(task[t], task[t]) /\ Awaits(t, "unpublish")
        /\ task[t].op = "join" => Joins(t)
    BY <2>1, <2>2 DEF Removal, HeldBy, Joins, Awaits
  <2> QED
    BY <2>3, <2>4, RemovalMoves
<1>3. CASE ForgetPeer(t)
  <2>1. /\ k.inst \in Instances /\ k.user \in Users /\ k.held \in Sockets /\ k.pc = "forget"
        /\ k.op \in {"leave", "kick", "teardown"} /\ UNCHANGED orphans
    BY <1>1, <1>3 DEF ForgetPeer, Awaits, Shaped
  <2>2. CASE /\ link' = [link EXCEPT ![k.held].state = "closed"]
             /\ BeginRemoval(t, Spawn("leave", k.held, k.inst, k.user))
    <3>1. Of(k.held, k.inst, k.user)
      BY <2>1, MediaAssumption DEF LinksKept, HeldLinks
    <3>2. /\ \A s \in Sockets \ {k.held} : link'[s] = link[s]
          /\ link'[k.held].state = "closed" /\ link'[k.held].user = link[k.held].user
          /\ link'[k.held].inst = link[k.held].inst
      BY <1>1, <2>1, <2>2 DEF Link
    <3>3. LinkMoves
      BY <2>1, <3>1, <3>2 DEF LinkMoves, Of
    <3>4. OrphanMoves
      <4> SUFFICES ASSUME NEW g \in Tasks, task'[g].op = "join", ClosedNow(task'[g].sock)
                   PROVE  task'[g].sock \in orphans'
        BY <2>1 DEF OrphanMoves
      <4>0. PICK h : Starting(h, "leave", k.held, k.inst, k.user) /\ Removal(t, h)
        BY <2>1, <2>2, StartEffect DEF RemovalOps
      <4>1. OthersSame(t) /\ task'[t].op # "join"
        BY <4>0 DEF Starting, Removal, Waits, TakesOut, Follows, Serves, NoTask
      <4>2. task[g].op = "join" /\ task'[g].sock = task[g].sock
        BY <4>1 DEF OthersSame
      <4>3. task[g].sock \in Sockets \ {k.held}
        BY <4>2 DEF LinksKept, JoinLinks, Joins, Fresh
      <4> QED
        BY <3>2, <4>2, <4>3 DEF ClosedNow
    <3>5. \A i \in Instances, u \in Users : ClosedNow(present[i][u]) /\ present[i][u] # None =>
             i = k.inst /\ u = k.user
      <4> SUFFICES ASSUME NEW i \in Instances, NEW u \in Users, ClosedNow(present[i][u]),
                          present[i][u] # None
                   PROVE  i = k.inst /\ u = k.user
        OBVIOUS
      <4>1. present[i][u] \in Sockets
        BY DEF MediaShape, MediaTypeOK
      <4>2. present[i][u] = k.held
        BY <3>2, <4>1 DEF ClosedNow
      <4>3. Of(present[i][u], i, u)
        BY DEF LinksKept, SessionLinks
      <4> QED
        BY <3>1, <4>2, <4>3 DEF Of
    <3>6. "leave" \in RemovalOps \ {"join"} /\ ~ Awaits(t, "unpublish")
      BY <2>1 DEF RemovalOps, Awaits
    <3> QED
      BY <2>1, <2>2, <3>3, <3>4, <3>5, <3>6, StartMoves
  <2>3. CASE (Goes(t, "next") \/ Ends(t)) /\ UNCHANGED <<link, sessions>>
    <3>1. OthersSame(t)
      BY <1>1, <2>3 DEF Goes, Ends, OthersSame
    <3>2. task'[t] = NoTask \/ task'[t] = [k EXCEPT !.pc = "next"]
      BY <1>1, <2>3 DEF Goes, Ends
    <3>3. HeldBy([k EXCEPT !.pc = "next"], k) /\ [k EXCEPT !.pc = "next"].op = k.op
          /\ [k EXCEPT !.pc = "next"].sock = k.sock
      BY <1>1 DEF Task, HeldBy
    <3>4. Quiet(t)
      BY <2>1, <2>3, <3>1, <3>2, <3>3 DEF Quiet, Awaits, sessions
    <3> QED
      BY <3>4, QuietMoves
  <2> QED
    BY <1>3, <2>2, <2>3 DEF ForgetPeer
<1>4. CASE TeardownNext(t)
  <2>1. /\ k.inst \in Instances /\ k.op = "teardown" /\ k.pc = "next"
        /\ UNCHANGED <<link, orphans, rooms>>
    BY <1>1, <1>4 DEF TeardownNext, Awaits, Shaped
  <2>2. CASE UNCHANGED sessions /\ task' = [task EXCEPT ![t] =
               [k EXCEPT !.pc = "release", !.read = owner, !.yes = TRUE]]
    <3> DEFINE new == [k EXCEPT !.pc = "release", !.read = owner, !.yes = TRUE]
    <3>1. OthersSame(t) /\ task'[t] = new
      BY <1>1, <2>2 DEF OthersSame
    <3>2. HeldBy(new, k) /\ new.op = k.op /\ new.sock = k.sock
      BY <1>1 DEF Task, HeldBy
    <3>3. Quiet(t)
      BY <2>1, <2>2, <3>1, <3>2 DEF Quiet, Awaits, sessions
    <3> QED
      BY <3>3, QuietMoves
  <2>3. ASSUME NEW u \in k.todo, BeginRemoval(t, [k EXCEPT !.user = u, !.todo = @ \ {u}])
        PROVE  Moves
    <3> DEFINE now == [k EXCEPT !.user = u, !.todo = @ \ {u}]
    <3>1. now \in Task /\ now.op = k.op /\ now.inst = k.inst /\ now.user = u /\ u \in Users
      BY <1>1 DEF Task
    <3>2. BeginRemoval(t, now)
      BY <2>3
    <3> HIDE DEF now
    <3>3. Remover(now)
      BY <2>1, <3>1 DEF Remover, RemovalOps
    <3>4. PICK h : Starter(h, now) /\ Removal(t, h)
      BY <3>2, <3>3, BeginRemovalEffect
    <3>5. /\ Remover(h) /\ h.op = "teardown" /\ h.held = present[h.inst][h.user]
          /\ ~ Awaits(t, "unpublish")
      BY <2>1, <3>1, <3>4 DEF Starter, Awaits
    <3>6. LinkMoves /\ OrphanMoves /\ \A i \in Instances, v \in Users : ~ ClosedNow(present[i][v])
      BY <2>1, LinksLeft DEF ClosedNow
    <3> QED
      BY <3>4, <3>5, <3>6, RemovalMoves
  <2> QED
    BY <1>4, <2>2, <2>3 DEF TeardownNext
<1> QED
  BY <1>2, <1>3, <1>4

\* The events that take a session out without a join.
LEMMA EventMoves ==
  ASSUME MediaShape, LinksKept, NEW t \in Tasks,
         \/ \E s \in Sockets : LeaveRoom(t, s) \/ Disconnect(t, s)
         \/ \E i \in Instances, u \in Users : KickPeer(t, i, u) \/ OtherRoom(t, i, u)
  PROVE  Moves
<1>1. /\ link \in [Sockets -> Link] /\ LinksShaped /\ task \in [Tasks -> Task]
      /\ present \in [Instances -> [Users -> Sockets \cup {None}]]
  BY DEF MediaShape, MediaTypeOK
<1>2. {"leave", "kick", "move"} \subseteq RemovalOps \ {"join"} /\ ~ Awaits(t, "unpublish")
  BY DEF RemovalOps, LeaveRoom, Disconnect, KickPeer, OtherRoom, Awaits
<1>3. ASSUME NEW s \in Sockets, LeaveRoom(t, s) PROVE Moves
  <2>1. link[s].user \in Users /\ link[s].inst \in Instances
    BY <1>1, <1>3 DEF LeaveRoom, LinksShaped
  <2>2. /\ \A r \in Sockets \ {s} : link'[r] = link[r]
        /\ link'[s].state = "left" /\ link'[s].user = link[s].user /\ link'[s].inst = link[s].inst
        /\ link[s].state \in {"joined", "ready"} /\ UNCHANGED orphans
    BY <1>1, <1>3 DEF LeaveRoom, Link
  <2>3. LinkMoves
    BY <2>2 DEF LinkMoves
  <2>4. \A i \in Instances, u \in Users : present[i][u] # None => ~ ClosedNow(present[i][u])
    BY <1>1, <2>2 DEF ClosedNow
  <2>5. OrphanMoves
    <3> SUFFICES ASSUME NEW g \in Tasks, task'[g].op = "join" PROVE ~ ClosedNow(task'[g].sock)
      BY <2>2 DEF OrphanMoves
    <3>1. PICK h : Starting(h, "leave", s, link[s].inst, link[s].user) /\ Removal(t, h)
      BY <1>3, <2>1, StartEffect DEF LeaveRoom, RemovalOps
    <3>2. task'[g] = task[g]
      BY <3>1 DEF Starting, Removal, Waits, TakesOut, Follows, Serves, NoTask, OthersSame
    <3>3. task[g].sock \in Sockets
      BY <3>2 DEF LinksKept, JoinLinks, Joins
    <3> QED
      BY <2>2, <3>2, <3>3 DEF ClosedNow
  <2>6. BeginRemoval(t, Spawn("leave", s, link[s].inst, link[s].user))
    BY <1>3 DEF LeaveRoom
  <2> QED
    BY <1>2, <2>1, <2>3, <2>4, <2>5, <2>6, StartMoves
<1>4. ASSUME NEW s \in Sockets, Disconnect(t, s) PROVE Moves
  <2>1. link[s].user \in Users /\ link[s].inst \in Instances
    BY <1>1, <1>4 DEF Disconnect, LinksShaped
  <2>2. /\ \A r \in Sockets \ {s} : link'[r] = link[r]
        /\ link'[s].state = "closed" /\ link'[s].user = link[s].user /\ link'[s].inst = link[s].inst
        /\ link[s].state \notin {"new", "closed"}
    BY <1>1, <1>4 DEF Disconnect, Link
  <2>3. LinkMoves
    BY <2>2 DEF LinkMoves
  <2>4. \A i \in Instances, u \in Users : ClosedNow(present[i][u]) /\ present[i][u] # None =>
           i = link[s].inst /\ u = link[s].user
    <3> SUFFICES ASSUME NEW i \in Instances, NEW u \in Users, ClosedNow(present[i][u]),
                        present[i][u] # None
                 PROVE  i = link[s].inst /\ u = link[s].user
      OBVIOUS
    <3>1. present[i][u] = s
      BY <1>1, <2>2 DEF ClosedNow
    <3>2. Of(present[i][u], i, u)
      BY DEF LinksKept, SessionLinks
    <3> QED
      BY <3>1, <3>2 DEF Of
  <2>5. OrphanMoves
    <3>1. orphans \subseteq orphans'
      BY <1>4 DEF Disconnect
    <3> SUFFICES ASSUME NEW g \in Tasks, task'[g].op = "join", ClosedNow(task'[g].sock)
                 PROVE  task'[g].sock \in orphans'
      BY <3>1 DEF OrphanMoves
    <3>2. PICK h : Starting(h, "leave", s, link[s].inst, link[s].user) /\ Removal(t, h)
      BY <1>4, <2>1, StartEffect DEF Disconnect, RemovalOps
    <3>3. task'[g] = task[g]
      BY <3>2 DEF Starting, Removal, Waits, TakesOut, Follows, Serves, NoTask, OthersSame
    <3>4. task[g].sock \in Sockets
      BY <3>3 DEF LinksKept, JoinLinks, Joins
    <3>5. task[g].sock = s
      BY <2>2, <3>3, <3>4 DEF ClosedNow
    <3> QED
      BY <1>4, <3>3, <3>5 DEF Disconnect
  <2>6. BeginRemoval(t, Spawn("leave", s, link[s].inst, link[s].user))
    BY <1>4 DEF Disconnect
  <2> QED
    BY <1>2, <2>1, <2>3, <2>4, <2>5, <2>6, StartMoves
<1>5. ASSUME NEW i \in Instances, NEW u \in Users, KickPeer(t, i, u) PROVE Moves
  <2>1. LinkMoves /\ OrphanMoves /\ \A j \in Instances, v \in Users : ~ ClosedNow(present[j][v])
    BY <1>5, LinksLeft DEF KickPeer, ClosedNow
  <2>2. BeginRemoval(t, Spawn("kick", None, i, u))
    BY <1>5 DEF KickPeer
  <2> QED
    BY <1>2, <2>1, <2>2, StartMoves
<1>6. ASSUME NEW i \in Instances, NEW u \in Users, OtherRoom(t, i, u) PROVE Moves
  <2>1. LinkMoves /\ OrphanMoves /\ \A j \in Instances, v \in Users : ~ ClosedNow(present[j][v])
    BY <1>6, LinksLeft DEF OtherRoom, ClosedNow
  <2>2. ASSUME NEW op \in {"move", "leave"}, BeginRemoval(t, Spawn(op, None, i, u)) PROVE Moves
    BY <1>2, <2>1, <2>2, StartMoves
  <2>3. CASE present' = [present EXCEPT ![i][u] = None] /\ UNCHANGED <<transport, task>>
    <3>1. SessionMoves
      BY <1>1, <2>3 DEF SessionMoves
    <3>2. TransportMoves /\ HandlerMoves
      BY <2>3 DEF TransportMoves, HandlerMoves, HeldBy, Joins
    <3>3. GoneMoves
      BY <2>1, <2>3 DEF GoneMoves, Removes, Awaits, Removed
    <3> QED
      BY <2>1, <3>1, <3>2, <3>3 DEF Moves
  <2> QED
    BY <1>6, <2>2, <2>3 DEF OtherRoom
<1> QED
  BY <1>3, <1>4, <1>5, <1>6

\* Transports, producers, a teardown that starts and a process that dies.
LEMMA OtherMoves ==
  ASSUME MediaShape, LinksKept,
         \/ \E t \in Tasks : \/ MakeTransport(t)
                             \/ \E s \in Sockets : CreateTransport(t, s) \/ Produce(t, s)
                             \/ \E i \in Instances : TeardownRoom(t, i)
         \/ \E s \in Sockets : CloseProducer(s)
         \/ \E i \in Instances : Crash(i)
  PROVE  Moves
<1>1. /\ link \in [Sockets -> Link] /\ LinksShaped /\ task \in [Tasks -> Task]
      /\ present \in [Instances -> [Users -> Sockets \cup {None}]]
      /\ transport \in [Sockets -> Nat]
      /\ \A t \in Tasks : task[t] \in Task /\ Shaped(task[t])
  BY DEF MediaShape, MediaTypeOK, TasksShaped
<1>2. NoTask.held = None /\ NoTask.op = "none" /\ NoTask.pc = "free"
  BY DEF NoTask
<1>3. ASSUME NEW t \in Tasks, MakeTransport(t) PROVE Moves
  <2>1. /\ task[t].held \in Sockets /\ task[t].pc = "make" /\ UNCHANGED <<present, orphans>>
        /\ OthersSame(t) /\ task'[t] = NoTask
    BY <1>1, <1>3 DEF MakeTransport, Awaits, Shaped, Ends, OthersSame
  <2>2. LinkMoves
    BY <1>1, <1>3 DEF MakeTransport, LinkMoves, Link
  <2>3. \A s : ~ ClosedNow(s)
    BY <1>1, <1>3 DEF MakeTransport, ClosedNow, Link
  <2>4. TransportMoves
    BY <1>1, <1>3 DEF MakeTransport, TransportMoves
  <2>5. SessionMoves /\ HandlerMoves /\ OrphanMoves
    BY <1>2, <2>1, <2>3 DEF SessionMoves, HandlerMoves, OrphanMoves, OthersSame, HeldBy, Joins
  <2>6. GoneMoves
    BY <2>1, <2>3 DEF GoneMoves, OthersSame, Removes, Awaits, Removed
  <2> QED
    BY <2>2, <2>4, <2>5, <2>6 DEF Moves
<1>4. ASSUME NEW t \in Tasks, NEW n, NEW i \in Instances, NEW u \in Users \cup {None},
             task' = [task EXCEPT ![t] = n], n.inst = i, n.user = u, n.op # "join",
             n.held = None \/ (u \in Users /\ n.held = present[i][u]),
             ~ Awaits(t, "unpublish"), UNCHANGED <<link, sessions, orphans>>
      PROVE  Moves
  <2>1. task'[t] = n /\ OthersSame(t)
    BY <1>1, <1>4 DEF OthersSame
  <2>2. LinkMoves /\ OrphanMoves /\ \A s : ~ ClosedNow(s)
    BY <1>4, LinksLeft DEF ClosedNow
  <2>3. SessionMoves /\ TransportMoves
    BY <1>4 DEF SessionMoves, TransportMoves, sessions
  <2>4. HandlerMoves
    BY <1>4, <2>1 DEF HandlerMoves, OthersSame, HeldBy, Joins
  <2>5. GoneMoves
    BY <1>4, <2>1, <2>2 DEF GoneMoves, OthersSame, Removes, Awaits, Removed, sessions
  <2> QED
    BY <2>2, <2>3, <2>4, <2>5 DEF Moves
<1>5. ASSUME NEW t \in Tasks, NEW s \in Sockets, CreateTransport(t, s) \/ Produce(t, s) PROVE Moves
  <2> DEFINE l == link[s]
             held == present[l.inst][l.user]
             makes == [Spawn("transport", s, l.inst, l.user) EXCEPT
                         !.pc = "make", !.held = held, !.rtr = router[l.inst]]
             produces == [Spawn("produce", s, l.inst, l.user) EXCEPT !.pc = "produce", !.held = held]
  <2>1. l.user \in Users /\ l.inst \in Instances
    BY <1>1, <1>5 DEF CreateTransport, Produce, LinksShaped
  <2>2. /\ makes.inst = l.inst /\ makes.user = l.user /\ makes.op = "transport" /\ makes.held = held
        /\ produces.inst = l.inst /\ produces.user = l.user /\ produces.op = "produce"
        /\ produces.held = held
    BY DEF Spawn, NoTask
  <2>3. /\ task' = [task EXCEPT ![t] = makes] \/ task' = [task EXCEPT ![t] = produces]
        /\ ~ Awaits(t, "unpublish") /\ UNCHANGED <<link, sessions, orphans>>
    BY <1>5 DEF CreateTransport, Produce, Awaits
  <2> HIDE DEF makes, produces
  <2> QED
    BY <1>4, <2>1, <2>2, <2>3
<1>6. ASSUME NEW t \in Tasks, NEW i \in Instances, TeardownRoom(t, i) PROVE Moves
  <2> DEFINE new == [Spawn("teardown", None, i, None) EXCEPT !.pc = "next", !.todo = members[i]]
  <2>1. new.inst = i /\ new.user = None /\ new.op = "teardown" /\ new.held = None
    BY DEF Spawn, NoTask
  <2>2. /\ task' = [task EXCEPT ![t] = new] /\ ~ Awaits(t, "unpublish")
        /\ UNCHANGED <<link, sessions, orphans>>
    BY <1>6 DEF TeardownRoom, Awaits
  <2> HIDE DEF new
  <2> QED
    BY <1>4, <2>1, <2>2
<1>7. ASSUME NEW s \in Sockets, CloseProducer(s) PROVE Moves
  <2>1. UNCHANGED <<link, present, transport, task, orphans>>
    BY <1>7 DEF CloseProducer
  <2> QED
    BY <2>1, LinksLeft DEF Moves, SessionMoves, TransportMoves, HandlerMoves, HeldBy, Joins,
       GoneMoves, ClosedNow, Removes, Awaits, Removed
<1>8. ASSUME NEW i \in Instances, Crash(i) PROVE Moves
  <2>1. /\ \A s \in Sockets : \/ link'[s] = link[s]
                              \/ /\ link[s].inst = i /\ link[s].state # "new"
                                 /\ link'[s].state = "closed" /\ link'[s].inst = link[s].inst
                                 /\ link'[s].user = link[s].user
        /\ \A j \in Instances, u \in Users : present'[j][u] = IF j = i THEN None ELSE present[j][u]
        /\ \A s \in Sockets : transport'[s] \in {0, transport[s]}
        /\ \A t \in Tasks : task'[t] = IF task[t].inst = i THEN NoTask ELSE task[t]
        /\ UNCHANGED orphans
    BY <1>1, <1>8 DEF Crash, Link
  <2>2. LinkMoves
    BY <2>1 DEF LinkMoves
  <2>3. SessionMoves /\ TransportMoves
    BY <2>1 DEF SessionMoves, TransportMoves
  <2>4. HandlerMoves
    BY <1>2, <2>1 DEF HandlerMoves, HeldBy, Joins
  <2>5. OrphanMoves
    BY <1>2, <2>1 DEF OrphanMoves, ClosedNow, LinksKept, JoinLinks, Joins
  <2>6. GoneMoves
    <3> SUFFICES ASSUME NEW j \in Instances, NEW u \in Users, present'[j][u] # None
                 PROVE  /\ ~ ClosedNow(present[j][u])
                        /\ \A t \in Tasks : Removes(t, j, u) => Removed(j, u)
      BY DEF GoneMoves
    <3>1. j # i /\ present[j][u] \in Sockets /\ Of(present[j][u], j, u)
      BY <1>1, <2>1 DEF LinksKept, SessionLinks
    <3> QED
      BY <2>1, <3>1 DEF ClosedNow, Of, Removes, Awaits, Removed
  <2> QED
    BY <2>2, <2>3, <2>4, <2>5, <2>6 DEF Moves
<1> QED
  BY <1>3, <1>5, <1>6, <1>7, <1>8

\* Every step keeps the sessions of their users.
LEMMA LinksKeptNext ==
  ASSUME MediaShape, MediaShape', LinksKept, [MediaNext]_mediaVars PROVE LinksKept'
<1>1. CASE UNCHANGED mediaVars
  BY <1>1 DEF mediaVars, sessions, LinksKept, NewLinks, SessionLinks, HeldLinks, JoinLinks,
     OneJoin, GoneAreRemoved, Removes, Awaits, Of, Fresh, Joins
<1>2. ASSUME NEW t \in Tasks, MediaStep(t) PROVE LinksKept'
  <2>1. CASE Enter(t)
    BY <2>1, EnterLinksKept
  <2>2. CASE Unpublish(t) \/ ForgetPeer(t) \/ TeardownNext(t)
    BY <2>2, RemovalSteps, MovesKeepLinks
  <2>3. CASE MakeTransport(t)
    BY <2>3, OtherMoves, MovesKeepLinks
  <2>4. CASE \/ ReleaseRoom(t) \/ CloseRoom(t) \/ WipeRedis(t) \/ Cached(t) \/ Owned(t)
             \/ CountPeers(t) \/ Cleared(t) \/ Claimed(t) \/ Reread(t) \/ WrongInstance(t)
             \/ LookupAgain(t) \/ CreateRouter(t) \/ SavePeer(t) \/ AddProducer(t)
    BY <2>4, QuietSteps, QuietMoves, MovesKeepLinks
  <2> QED
    BY <1>2, <2>1, <2>2, <2>3, <2>4 DEF MediaStep
<1>3. CASE /\ MediaNext
           /\ ~ \E t \in Tasks : MediaStep(t)
           /\ ~ \E t \in Tasks, s \in Sockets, i \in Instances, u \in Users : Join(t, s, i, u)
  <2>1. Moves
    BY <1>3, EventMoves, OtherMoves DEF MediaNext
  <2> QED
    BY <2>1, MovesKeepLinks
<1> QED
  BY <1>1, <1>2, <1>3, JoinLinksKept DEF MediaNext

\* At first there are no sessions and no handlers to link.
LEMMA LinksKeptInit == MediaInit => LinksKept
<1> SUFFICES ASSUME MediaInit PROVE LinksKept
  OBVIOUS
<1>1. \A t \in Tasks : task[t].op = "none" /\ task[t].held = None
  BY DEF MediaInit, NoTask
<1>2. /\ \A i \in Instances, u \in Users : present[i][u] = None
      /\ \A s \in Sockets : link[s].inst = None /\ transport[s] = 0
  BY DEF MediaInit
<1> QED
  BY <1>1, <1>2 DEF LinksKept, NewLinks, SessionLinks, HeldLinks, JoinLinks, OneJoin,
     GoneAreRemoved, Joins

\* Behaviour covered: join, removeSession and the disconnect handler of rtc-service. However
\* they interleave, a session is of the user and the instance its socket joined with, no two
\* joins are of one socket, and the session of a socket that is gone is an orphan's or removed.
THEOREM LinksKeptHolds == MediaSpec => []LinksKept
<1>1. MediaShape /\ MediaShape' /\ LinksKept /\ [MediaNext]_mediaVars => LinksKept'
  BY LinksKeptNext
<1> QED
  BY <1>1, LinksKeptInit, MediaShapeHolds, PTL DEF MediaSpec

\* Behaviour covered: a socket that is gone leaves no session behind, unless it went while its
\* own join was running.
THEOREM Orphans == MediaSpec => []OnlyOrphansStay
<1>1. LinksKept => OnlyOrphansStay
  BY DEF LinksKept, GoneAreRemoved, OnlyOrphansStay, Still, Removes, Awaits
<1> QED
  BY <1>1, LinksKeptHolds, PTL

-----------------------------------------------------------------------------
(* Who has a router, and which                                              *)

\* While a join runs that crosses nothing, nothing else joins, leaves or releases.
JoinsApart ==
  \A t \in Tasks : Joins(t) /\ task[t].sock \notin crossed =>
    \A g \in Tasks \ {t} : task[g].op \notin RemovalOps

\* Whoever joined and crossed nothing.
Member(i, u) == present[i][u] # None /\ present[i][u] \notin crossed

\* Where such a member is nobody releases the room, and a teardown is yet to
\* remove the member.
Spares(k, i, u) ==
  /\ k.inst = i => k.pc \notin {"release", "close"}
  /\ k.op = "teardown" => k.inst = i /\ (u \in k.todo \/ (k.pc = "unpublish" /\ k.user = u))
MembersKept ==
  \A i \in Instances, u \in Users : Member(i, u) => \A t \in Tasks : Spares(task[t], i, u)

\* A teardown that is done with the members has none left to do.
Done(k) ==
  /\ k.op \in {"leave", "kick", "teardown"} /\ k.yes => k.op = "teardown" /\ k.todo = {}
  /\ k.pc = "wipe" => k.op = "teardown" /\ k.todo = {}
TeardownsDone == \A t \in Tasks : Done(task[t])

\* A join that crosses nothing has the router that it found or made.
JoinsServed ==
  \A t \in Tasks :
    Joins(t) /\ task[t].sock \notin crossed /\ task[t].pc \in {"cached", "save", "enter"} =>
      router[task[t].inst] # 0

\* The owner of a room whose router was closed under a member makes another.
Makes(k, i) ==
  /\ k.op = "join" /\ k.inst = i
  /\ \/ k.pc = "create"
     \/ k.pc = "owned" /\ k.read = i
     \/ k.pc = "claim" /\ k.yes
     \/ k.pc = "reread" /\ k.read \in {i, None}
OwnerMakes ==
  \A i \in Instances, u \in Users : Member(i, u) /\ owner = i /\ router[i] = 0 =>
    \E t \in Tasks : Makes(task[t], i)

MembersServed == JoinsApart /\ MembersKept /\ TeardownsDone /\ JoinsServed /\ OwnerMakes

\* An instance that all connections go to is the only one that may own the room.
Lone(k, i) == k.read \in {i, None} /\ k.pc \notin {"count", "cleared", "wrong", "lookup"}
OnlyKeys(i) == owner \in {i, None} /\ \A t \in Tasks : Lone(task[t], i)

\* There, a join that crosses nothing has the key once it has asked for it,
Keyed(k, i) ==
  \/ k.pc \in {"claim", "reread", "create", "save", "enter"}
  \/ k.pc \in {"cached", "owned"} /\ k.read = i
OnlyJoins(i) ==
  \A t \in Tasks : Joins(t) /\ task[t].sock \notin crossed /\ Keyed(task[t], i) => owner = i

\* and where such a member is every join finds the router, and every transport is on it.
Finds(k, i) == k.pc \in {"unpublish", "save", "enter"} \/ (k.pc = "cached" /\ k.read = i)
OnlyMembers(i) ==
  \A u \in Users : Member(i, u) =>
    /\ owner = i /\ router[i] # 0 /\ transport[present[i][u]] \in {0, router[i]}
    /\ \A t \in Tasks : Joins(t) => Finds(task[t], i)
    /\ \A t \in Tasks : task[t].pc = "make" /\ task[t].held = present[i][u] => task[t].rtr = router[i]

OneRouter == \A i \in Instances : OnlyInstance(i) => OnlyKeys(i) /\ OnlyJoins(i) /\ OnlyMembers(i)

RoomServed == MembersServed /\ OneRouter

\* A step of handler t that lets nobody in.
Steady(t) ==
  /\ OthersSame(t) /\ SessionMoves /\ crossed \subseteq crossed'
  /\ \A s \in Sockets : link[s].inst \in {None, link'[s].inst}

\* What such a step does, for each part of the invariant.
ApartAfter(t) ==
  \/ task'[t].op \notin RemovalOps
  \/ /\ task[t].op \in RemovalOps
     /\ task'[t].op = "join" => Joins(t) /\ task'[t].sock = task[t].sock
  \/ CrossedBy(t, IF task'[t].op = "join" THEN {task'[t].sock} ELSE {}) \subseteq crossed'
Now(i, u) == present'[i][u] # None /\ present'[i][u] \notin crossed'
SparesAfter(t) == \A i \in Instances, u \in Users : Now(i, u) => Spares(task'[t], i, u)
ServedAfter(t) ==
  /\ \A g \in Tasks \ {t} :
       Joins(g) /\ task[g].sock \notin crossed' /\ router[task[g].inst] # 0 =>
         router'[task[g].inst] # 0
  /\ task'[t].op = "join" /\ task'[t].sock \notin crossed' /\ task'[t].pc \in {"cached", "save", "enter"} =>
       router'[task'[t].inst] # 0
MakesAfter(t) ==
  \A i \in Instances : (\E u \in Users : Now(i, u)) /\ owner' = i /\ router'[i] = 0 =>
    Makes(task'[t], i) \/ (owner = i /\ router[i] = 0 /\ ~ Makes(task[t], i))
LoneAfter(t, i) == owner' \in {i, None} /\ Lone(task'[t], i)
KeyedAfter(t, i) ==
  /\ \A g \in Tasks \ {t} : Joins(g) /\ task[g].sock \notin crossed' /\ owner = i => owner' = i
  /\ task'[t].op = "join" /\ task'[t].sock \notin crossed' /\ Keyed(task'[t], i) => owner' = i
FindsAfter(t, i) ==
  \A u \in Users : Now(i, u) =>
    /\ owner' = i /\ router'[i] = router[i]
    /\ transport'[present[i][u]] \in {0, transport[present[i][u]], router[i]}
    /\ task'[t].op = "join" => Finds(task'[t], i)
    /\ task'[t].pc = "make" /\ task'[t].held = present[i][u] => task'[t].rtr = router[i]
OneAfter(t) ==
  \A i \in Instances : OnlyInstance(i) /\ OnlyInstance(i)' =>
    LoneAfter(t, i) /\ KeyedAfter(t, i) /\ FindsAfter(t, i)

\* Whoever is a member after such a step was one before.
LEMMA StillMember ==
  ASSUME MediaShape, NEW t \in Tasks, Steady(t), NEW i \in Instances, NEW u \in Users, Now(i, u)
  PROVE  Member(i, u) /\ present'[i][u] = present[i][u]
BY DEF Steady, SessionMoves, Now, Member

\* A step that lets nobody in keeps the members served, if its handler keeps what is
\* asked of it.
LEMMA SteadyKeeps ==
  ASSUME MediaShape, RoomServed, NEW t \in Tasks, Steady(t), ApartAfter(t), SparesAfter(t),
         Done(task'[t]), ServedAfter(t), MakesAfter(t), OneAfter(t)
  PROVE  RoomServed'
<1>1. OthersSame(t) /\ crossed \subseteq crossed' /\ task'[t].op \in {task'[t].op}
  BY DEF Steady
<1>2. JoinsApart'
  <2> SUFFICES ASSUME NEW g \in Tasks, task'[g].op = "join", task'[g].sock \notin crossed',
                      NEW q \in Tasks \ {g}, task'[q].op \in RemovalOps
               PROVE  FALSE
    BY DEF JoinsApart, Joins
  <2>0. JoinsApart /\ "join" \in RemovalOps
    BY DEF RoomServed, MembersServed, RemovalOps
  <2>1. CASE g # t /\ q # t
    BY <1>1, <2>0, <2>1 DEF OthersSame, JoinsApart, Joins
  <2>2. CASE /\ task[t].op \in RemovalOps
             /\ task'[t].op = "join" => Joins(t) /\ task'[t].sock = task[t].sock
    BY <1>1, <2>0, <2>2 DEF OthersSame, JoinsApart, Joins
  <2>3. CASE /\ CrossedBy(t, IF task'[t].op = "join" THEN {task'[t].sock} ELSE {}) \subseteq crossed'
             /\ g = t \/ q = t
    <3>1. CASE g = t
      <4>1. q \in Tasks \ {t} /\ task[q].op \in RemovalOps
        BY <1>1, <3>1 DEF OthersSame
      <4>2. {task'[t].sock} \subseteq CrossedBy(t, {task'[t].sock})
        BY <4>1 DEF CrossedBy, RemovalOps
      <4> QED
        BY <2>3, <3>1, <4>2
    <3>2. CASE g # t
      <4>1. g \in Tasks \ {t} /\ task[g].op = "join" /\ task'[g].sock = task[g].sock
        BY <1>1, <3>2 DEF OthersSame
      <4>2. \A s : task[g].sock \in CrossedBy(t, s)
        BY <4>1 DEF CrossedBy
      <4> QED
        BY <2>3, <4>1, <4>2
    <3> QED
      BY <3>1, <3>2
  <2>4. CASE task'[t].op \notin RemovalOps
    BY <2>0, <2>1, <2>4
  <2> QED
    BY <2>1, <2>2, <2>3, <2>4 DEF ApartAfter
<1>3. MembersKept'
  <2> SUFFICES ASSUME NEW i \in Instances, NEW u \in Users, Now(i, u), NEW g \in Tasks
               PROVE  Spares(task'[g], i, u)
    BY DEF MembersKept, Member, Now, Spares
  <2>1. Member(i, u)
    BY StillMember
  <2> QED
    BY <1>1, <2>1 DEF OthersSame, SparesAfter, RoomServed, MembersServed, MembersKept
<1>4. TeardownsDone'
  BY <1>1 DEF OthersSame, TeardownsDone, RoomServed, MembersServed, Done
<1>5. JoinsServed'
  BY <1>1 DEF OthersSame, ServedAfter, RoomServed, MembersServed, JoinsServed, Joins
<1>6. OwnerMakes'
  <2> SUFFICES ASSUME NEW i \in Instances, NEW u \in Users, Now(i, u), owner' = i, router'[i] = 0
               PROVE  \E g \in Tasks : Makes(task'[g], i)
    BY DEF OwnerMakes, Member, Now, Makes
  <2>1. Member(i, u)
    BY StillMember
  <2>2. Makes(task'[t], i) \/ (owner = i /\ router[i] = 0 /\ ~ Makes(task[t], i))
    BY DEF MakesAfter
  <2> QED
    BY <1>1, <2>1, <2>2 DEF OthersSame, RoomServed, MembersServed, OwnerMakes
<1>7. OneRouter'
  <2> SUFFICES ASSUME NEW i \in Instances, OnlyInstance(i)'
               PROVE  OnlyKeys(i)' /\ OnlyJoins(i)' /\ OnlyMembers(i)'
    BY DEF OneRouter
  <2>1. OnlyInstance(i)
    BY DEF Steady, OnlyInstance
  <2>2. OnlyKeys(i) /\ OnlyJoins(i) /\ OnlyMembers(i)
    BY <2>1 DEF RoomServed, OneRouter
  <2>3. LoneAfter(t, i) /\ KeyedAfter(t, i) /\ FindsAfter(t, i)
    BY <2>1 DEF OneAfter
  <2>4. OnlyKeys(i)'
    BY <1>1, <2>2, <2>3 DEF OthersSame, OnlyKeys, LoneAfter, Lone
  <2>5. OnlyJoins(i)'
    BY <1>1, <2>2, <2>3 DEF OthersSame, OnlyJoins, KeyedAfter, Keyed, Joins
  <2>6. OnlyMembers(i)'
    <3> SUFFICES ASSUME NEW u \in Users, Now(i, u)
                 PROVE  /\ owner' = i /\ router'[i] # 0
                        /\ transport'[present'[i][u]] \in {0, router'[i]}
                        /\ \A g \in Tasks : task'[g].op = "join" => Finds(task'[g], i)
                        /\ \A g \in Tasks : task'[g].pc = "make" /\ task'[g].held = present'[i][u] =>
                             task'[g].rtr = router'[i]
      BY DEF OnlyMembers, Member, Now, Joins, Finds
    <3>1. Member(i, u) /\ present'[i][u] = present[i][u]
      BY StillMember
    <3> QED
      BY <1>1, <2>2, <2>3, <3>1 DEF OthersSame, OnlyMembers, FindsAfter, Joins
  <2> QED
    BY <2>4, <2>5, <2>6
<1> QED
  BY <1>2, <1>3, <1>4, <1>5, <1>6, <1>7 DEF RoomServed, MembersServed

\* The one instance that all connections go to runs every join,
LEMMA JoinsHere ==
  ASSUME MediaShape, LinksKept, NEW i \in Instances, OnlyInstance(i), NEW t \in Tasks, Joins(t),
         task[t].pc # "free"
  PROVE  task[t].inst = i
<1>1. task[t].sock \in Sockets /\ link[task[t].sock].inst = task[t].inst
  BY DEF LinksKept, JoinLinks
<1>2. task[t].inst \in Instances
  BY DEF MediaShape, TasksShaped, Shaped
<1> QED
  BY <1>1, <1>2, MediaAssumption DEF OnlyInstance

\* and nobody releases the room there under a member.
LEMMA NobodyReleases ==
  ASSUME MediaShape, LinksKept, RoomServed, NEW i \in Instances, NEW u \in Users,
         OnlyInstance(i), Member(i, u), NEW t \in Tasks, task[t].pc \in {"release", "close"}
  PROVE  FALSE
<1>1. /\ task[t].inst # i /\ task[t].op # "teardown" /\ Done(task[t])
  BY DEF RoomServed, MembersServed, MembersKept, TeardownsDone, Spares
<1>2. /\ task[t].op \in {"leave", "kick"} /\ task[t].inst \in Instances
      /\ task[t].held \in Sockets /\ task[t].held # None
  BY <1>1, MediaAssumption DEF MediaShape, TasksShaped, Shaped, Done
<1>3. link[task[t].held].inst = task[t].inst
  BY <1>2 DEF LinksKept, HeldLinks, Of
<1> QED
  BY <1>1, <1>2, <1>3, MediaAssumption DEF OnlyInstance

\* A step of a join that goes on or gives up.
LEMMA JoinKeeps ==
  ASSUME MediaShape, LinksKept, RoomServed, NEW t \in Tasks, Joins(t), Quiet(t), UNCHANGED crossed,
         \/ task'[t] = NoTask
         \/ task'[t].op = "join" /\ task'[t].sock = task[t].sock /\ task'[t].pc \in JoinPcs,
         ServedAfter(t), MakesAfter(t), OneAfter(t)
  PROVE  RoomServed'
<1>1. NoTask.op = "none" /\ NoTask.pc = "free"
  BY DEF NoTask
<1>2. Steady(t)
  <2>1. Moves
    BY QuietMoves
  <2> QED
    BY <2>1 DEF Quiet, Steady, Moves, LinkMoves
<1>3. ApartAfter(t) /\ SparesAfter(t) /\ Done(task'[t])
  BY <1>1 DEF ApartAfter, SparesAfter, Spares, Done, JoinPcs, Joins, RemovalOps
<1> QED
  BY <1>2, <1>3, SteadyKeeps

\* A join that goes on or gives up, and what the invariant says of it before.
JoinOn(t, n) == /\ n.op = "join" /\ n.sock = task[t].sock /\ n.inst = task[t].inst
                /\ n.user = task[t].user

\* The steps of a join before it enters the room keep the members served.
LEMMA JoinStepKeeps ==
  ASSUME MediaShape, LinksKept, RoomServed, NEW t \in Tasks,
         \/ Cached(t) \/ Owned(t) \/ CountPeers(t) \/ Cleared(t) \/ Claimed(t)
         \/ Reread(t) \/ WrongInstance(t) \/ LookupAgain(t) \/ CreateRouter(t) \/ SavePeer(t)
  PROVE  RoomServed'
<1> DEFINE k == task[t]
           j == task[t].inst
           n == task'[t]
<1>1. /\ k \in Task /\ k.pc \in JoinPcs /\ Joins(t) /\ k.op = "join" /\ j \in Instances /\ k.pc # "free"
  BY DEF MediaShape, MediaTypeOK, TasksShaped, Shaped, JoinPcs, Awaits, Joins, Cached, Owned,
         CountPeers, Cleared, Claimed, Reread, WrongInstance, LookupAgain, CreateRouter, SavePeer
<1>2. /\ task \in [Tasks -> Task] /\ owner \in Instances \cup {None} /\ routers \in Nat
      /\ router \in [Instances -> Nat] /\ None \notin Instances
  BY MediaAssumption DEF MediaShape, MediaTypeOK
<1>3. Quiet(t) /\ UNCHANGED <<present, crossed>>
  BY QuietSteps DEF Quiet, Cached, Owned, CountPeers, Cleared, Claimed, Reread, WrongInstance,
     LookupAgain, CreateRouter, SavePeer
<1>4. \A new : task' = [task EXCEPT ![t] = new] => n = new
  BY <1>2
<1>5. ASSUME NEW pc, Goes(t, pc)
      PROVE  n.pc = pc /\ n.read = k.read /\ (n.yes <=> k.yes) /\ JoinOn(t, n)
  BY <1>1, <1>2, <1>5 DEF Goes, Task, JoinOn
<1>6. ASSUME Ends(t) PROVE n = NoTask /\ n.pc = "free" /\ n.op = "none" /\ n.read = None
  BY <1>2, <1>6 DEF Ends, NoTask
<1>7. ASSUME n = NoTask \/ (JoinOn(t, n) /\ n.pc \in JoinPcs), ServedAfter(t), MakesAfter(t),
             OneAfter(t)
      PROVE  RoomServed'
  BY <1>1, <1>3, <1>7, JoinKeeps DEF JoinOn
<1>8. ASSUME NEW i \in Instances, OnlyInstance(i)
      PROVE  /\ j = i /\ OnlyKeys(i) /\ OnlyJoins(i) /\ OnlyMembers(i) /\ Lone(k, i)
             /\ owner \in {i, None}
             /\ k.sock \notin crossed /\ Keyed(k, i) => owner = i
             /\ \A u \in Users : Now(i, u) =>
                  /\ owner = i /\ router[i] # 0 /\ Finds(k, i)
  <2>1. OnlyKeys(i) /\ OnlyJoins(i) /\ OnlyMembers(i)
    BY <1>8 DEF RoomServed, OneRouter
  <2>2. j = i
    BY <1>1, <1>8, JoinsHere
  <2> QED
    BY <1>1, <1>3, <2>1, <2>2 DEF OnlyKeys, OnlyJoins, OnlyMembers, Now, Member
<1>9. k.sock \notin crossed /\ k.pc \in {"cached", "save", "enter"} => router[j] # 0
  BY <1>1 DEF RoomServed, MembersServed, JoinsServed
<1>10. k.sock \notin crossed => \A g \in Tasks \ {t} : ~ Joins(g)
  BY <1>1 DEF RoomServed, MembersServed, JoinsApart, Joins, RemovalOps
<1>11. \A g \in Tasks \ {t} : Joins(g) => task[g].sock \in crossed
  BY <1>1 DEF RoomServed, MembersServed, JoinsApart, Joins, RemovalOps
<1> HIDE DEF k, j, n
<1>24. ASSUME task' = [task EXCEPT ![t] = [k EXCEPT !.pc = "claim", !.yes = owner = None]]
       PROVE  n.pc = "claim" /\ n.read = k.read /\ (n.yes <=> owner = None) /\ JoinOn(t, n)
  <2> DEFINE new == [k EXCEPT !.pc = "claim", !.yes = owner = None]
  <2>1. n = new
    BY <1>4, <1>24
  <2>2. JoinOn(t, new) /\ new.pc = "claim" /\ new.read = k.read /\ (new.yes <=> owner = None)
    BY <1>1 DEF Task, JoinOn, k
  <2> HIDE DEF new
  <2> QED
    BY <2>1, <2>2
<1>12. CASE Cached(t)
  <2>1. k.pc = "cached" /\ UNCHANGED <<owner, present, crossed>>
    BY <1>3, <1>12 DEF Cached, Awaits, redisKeys, k
  <2>2. CASE k.read = j /\ Goes(t, "save") /\ UNCHANGED <<rooms, sessions>>
    <3>1. n.pc = "save" /\ n.read = k.read /\ JoinOn(t, n) /\ UNCHANGED <<router, transport>>
      BY <1>5, <2>2 DEF rooms, sessions
    <3>2. ServedAfter(t)
      BY <1>9, <2>1, <3>1 DEF ServedAfter, JoinOn, k, j, n
    <3>3. MakesAfter(t)
      BY <2>1, <3>1 DEF MakesAfter, Makes, k, n
    <3>4. OneAfter(t)
      BY <1>8, <2>1, <2>2, <3>1 DEF OneAfter, LoneAfter, Lone, KeyedAfter, Keyed, FindsAfter,
         Finds,
         JoinOn, k, n
    <3> QED
      BY <1>7, <3>1, <3>2, <3>3, <3>4 DEF JoinPcs
  <2>3. CASE /\ k.read # j /\ CloseRouter(j)
             /\ task' = [task EXCEPT ![t] = [k EXCEPT !.pc = "owned", !.read = owner]]
    <3>1. n.pc = "owned" /\ n.read = owner /\ JoinOn(t, n)
      BY <1>1, <1>4, <2>3 DEF Task, JoinOn, k, j
    <3>2. /\ \A i \in Instances \ {j} : router'[i] = router[i]
      BY <1>1, <1>2, <2>3 DEF CloseRouter
    <3>3. ServedAfter(t)
      BY <1>11, <2>1, <3>1 DEF ServedAfter, k, j, n
    <3>4. MakesAfter(t)
      BY <1>1, <1>2, <2>1, <3>1, <3>2 DEF MakesAfter, Makes, JoinOn, k, j, n
    <3>5. OneAfter(t)
      BY <1>2, <1>8, <2>1, <2>3, <3>1 DEF OneAfter, LoneAfter, Lone, KeyedAfter, Keyed, FindsAfter,
         Finds, k, j, n
    <3> QED
      BY <1>7, <3>1, <3>3, <3>4, <3>5 DEF JoinPcs
  <2> QED
    BY <1>12, <2>2, <2>3 DEF Cached, k, j
<1>13. CASE Owned(t)
  <2>1. k.pc = "owned" /\ UNCHANGED <<router, transport, present, crossed>>
    BY <1>3, <1>13 DEF Owned, Awaits, rooms, sessions, k
  <2>0. \A i \in Instances : OnlyInstance(i) => \A u \in Users : ~ Now(i, u)
    BY <1>8, <2>1 DEF Finds
  <2>2. CASE k.read = j /\ Goes(t, "create") /\ UNCHANGED owner
    <3>1. n.pc = "create" /\ n.read = k.read /\ JoinOn(t, n)
      BY <1>5, <2>2
    <3>2. ServedAfter(t)
      BY <2>1, <3>1 DEF ServedAfter, n
    <3>3. MakesAfter(t)
      BY <1>1, <2>1, <2>2, <3>1 DEF MakesAfter, Makes, JoinOn, k, j, n
    <3>4. OneAfter(t)
      BY <1>8, <2>0, <2>1, <2>2, <3>1 DEF OneAfter, LoneAfter, Lone, KeyedAfter, Keyed, FindsAfter,
         JoinOn, k, n
    <3> QED
      BY <1>7, <3>1, <3>2, <3>3, <3>4 DEF JoinPcs
  <2>3. CASE /\ k.read = None
             /\ task' = [task EXCEPT ![t] = [k EXCEPT !.pc = "claim", !.yes = owner = None]]
             /\ owner' = IF owner = None THEN j ELSE owner
    <3>1. n.pc = "claim" /\ n.read = k.read /\ (n.yes <=> owner = None) /\ JoinOn(t, n)
      BY <1>24, <2>3
    <3>2. ServedAfter(t)
      BY <2>1, <3>1 DEF ServedAfter, n
    <3>3. MakesAfter(t)
      BY <1>1, <1>2, <2>1, <2>3, <3>1 DEF MakesAfter, Makes, JoinOn, k, j, n
    <3>4. OneAfter(t)
      BY <1>2, <1>8, <2>0, <2>1, <2>3, <3>1 DEF OneAfter, LoneAfter, Lone, KeyedAfter, FindsAfter,
         JoinOn, k, n
    <3> QED
      BY <1>7, <3>1, <3>2, <3>3, <3>4 DEF JoinPcs
  <2>4. CASE /\ k.read \notin {j, None} /\ UNCHANGED owner
             /\ task' = [task EXCEPT ![t] = [k EXCEPT !.pc = "count", !.yes = peers = {}]]
    <3> DEFINE new == [k EXCEPT !.pc = "count", !.yes = peers = {}]
    <3>0. n = new
      BY <1>4, <2>4
    <3>1. n.pc = "count" /\ n.read = k.read /\ JoinOn(t, n)
      BY <1>1, <3>0 DEF Task, JoinOn, k
    <3> HIDE DEF new
    <3>2. ServedAfter(t)
      BY <2>1, <3>1 DEF ServedAfter, n
    <3>3. MakesAfter(t)
      BY <2>1, <2>4 DEF MakesAfter, Makes, k, j
    <3>4. OneAfter(t)
      BY <1>8, <2>4 DEF OneAfter, Lone
    <3> QED
      BY <1>7, <3>1, <3>2, <3>3, <3>4 DEF JoinPcs
  <2> QED
    BY <1>13, <2>2, <2>3, <2>4 DEF Owned, k, j
<1>14. ASSUME NEW pc \in {"count", "cleared", "wrong", "lookup"}, k.pc = pc PROVE OneAfter(t)
  BY <1>8, <1>14 DEF OneAfter, Lone
<1>15. ASSUME Wrong(t, k)
       PROVE  \/ n = NoTask /\ n.op = "none"
              \/ JoinOn(t, n) /\ n.pc = "wrong" /\ n.read = k.read
  <2>1. CASE k.again
    <3>1. Ends(t)
      BY <1>15, <2>1 DEF Wrong, Ends
    <3> QED
      BY <1>6, <3>1
  <2>2. CASE ~ k.again
    <3> DEFINE new == [k EXCEPT !.pc = "wrong", !.yes = peers \subseteq {k.user}]
    <3>1. n = new
      BY <1>4, <1>15, <2>2 DEF Wrong
    <3>2. JoinOn(t, new) /\ new.pc = "wrong" /\ new.read = k.read
      BY <1>1 DEF Task, JoinOn, k
    <3> QED
      BY <3>1, <3>2
  <2> QED
    BY <2>1, <2>2
<1>16. CASE CountPeers(t)
  <2>1. k.pc = "count" /\ UNCHANGED <<router, transport, present, crossed>> /\ owner' \in {owner, None}
    BY <1>3, <1>16 DEF CountPeers, Awaits, rooms, sessions, redisKeys, ClearRedis, k
  <2>2. (n = NoTask /\ n.op = "none") \/ (JoinOn(t, n) /\ n.pc \in {"cleared", "wrong"})
    BY <1>5, <1>15, <1>16 DEF CountPeers, k
  <2>3. ServedAfter(t) /\ MakesAfter(t)
    BY <1>2, <2>1, <2>2 DEF ServedAfter, MakesAfter, Makes, k, n
  <2> QED
    BY <1>7, <1>14, <2>1, <2>2, <2>3 DEF JoinPcs
<1>17. CASE Cleared(t)
  <2>1. k.pc = "cleared" /\ UNCHANGED <<router, transport, present, crossed>>
    BY <1>3, <1>17 DEF Cleared, Awaits, rooms, sessions, k
  <2>2. /\ n.pc = "claim" /\ n.read = k.read /\ (n.yes <=> owner = None) /\ JoinOn(t, n)
        /\ owner' = IF owner = None THEN j ELSE owner
    BY <1>17, <1>24 DEF Cleared, k, j
  <2>3. ServedAfter(t) /\ MakesAfter(t)
    BY <1>1, <1>2, <2>1, <2>2 DEF ServedAfter, MakesAfter, Makes, JoinOn, k, j, n
  <2> QED
    BY <1>7, <1>14, <2>1, <2>2, <2>3 DEF JoinPcs
<1>18. CASE Claimed(t)
  <2>1. k.pc = "claim" /\ UNCHANGED <<owner, router, transport, present, crossed>>
    BY <1>3, <1>18 DEF Claimed, Awaits, redisKeys, rooms, sessions, k
  <2>0. \A i \in Instances : OnlyInstance(i) => \A u \in Users : ~ Now(i, u)
    BY <1>8, <2>1 DEF Finds
  <2>2. /\ JoinOn(t, n)
        /\ \/ k.yes /\ n.pc = "create" /\ n.read = k.read
           \/ ~ k.yes /\ n.pc = "reread" /\ n.read = owner
    BY <1>1, <1>4, <1>18 DEF Claimed, Task, JoinOn, k
  <2>3. ServedAfter(t)
    BY <2>1, <2>2 DEF ServedAfter, n
  <2>4. MakesAfter(t)
    BY <2>1, <2>2 DEF MakesAfter, Makes, JoinOn, k, n
  <2>5. OneAfter(t)
    BY <1>8, <2>0, <2>1, <2>2 DEF OneAfter, LoneAfter, Lone, KeyedAfter, Keyed, FindsAfter,
       JoinOn, k, n
  <2> QED
    BY <1>7, <2>2, <2>3, <2>4, <2>5 DEF JoinPcs
<1>19. CASE Reread(t)
  <2>1. k.pc = "reread" /\ UNCHANGED <<owner, router, transport, present, crossed>>
    BY <1>3, <1>19 DEF Reread, Awaits, redisKeys, rooms, sessions, k
  <2>0. \A i \in Instances : OnlyInstance(i) => \A u \in Users : ~ Now(i, u)
    BY <1>8, <2>1 DEF Finds
  <2>2. \/ k.read \in {j, None} /\ JoinOn(t, n) /\ n.pc = "create" /\ n.read = k.read
        \/ /\ k.read \notin {j, None}
           /\ (n = NoTask /\ n.op = "none") \/ (JoinOn(t, n) /\ n.pc = "wrong")
    BY <1>5, <1>15, <1>19 DEF Reread, k, j
  <2>3. ServedAfter(t)
    BY <2>1, <2>2 DEF ServedAfter, n
  <2>4. MakesAfter(t)
    BY <2>1, <2>2 DEF MakesAfter, Makes, JoinOn, k, j, n
  <2>5. OneAfter(t)
    BY <1>8, <2>0, <2>1, <2>2 DEF OneAfter, LoneAfter, Lone, KeyedAfter, Keyed, FindsAfter,
       JoinOn, k, n
  <2> QED
    BY <1>7, <2>2, <2>3, <2>4, <2>5 DEF JoinPcs
<1>20. CASE WrongInstance(t)
  <2>1. k.pc = "wrong" /\ UNCHANGED <<router, transport, present, crossed>> /\ owner' \in {owner, None}
    BY <1>3, <1>20 DEF WrongInstance, Awaits, rooms, sessions, redisKeys, ClearRedis, k
  <2>2. (n = NoTask /\ n.op = "none") \/ (JoinOn(t, n) /\ n.pc = "lookup")
    <3> DEFINE new == [k EXCEPT !.pc = "lookup", !.again = TRUE]
    <3>1. Ends(t) \/ n = new
      BY <1>4, <1>20 DEF WrongInstance, k
    <3>2. JoinOn(t, new) /\ new.pc = "lookup"
      BY <1>1 DEF Task, JoinOn, k
    <3> HIDE DEF new
    <3> QED
      BY <1>6, <3>1, <3>2
  <2>3. ServedAfter(t) /\ MakesAfter(t)
    BY <1>2, <2>1, <2>2 DEF ServedAfter, MakesAfter, Makes, k, n
  <2> QED
    BY <1>7, <1>14, <2>1, <2>2, <2>3 DEF JoinPcs
<1>21. CASE LookupAgain(t)
  <2>1. k.pc = "lookup" /\ UNCHANGED <<owner, router, transport, present, crossed>>
    BY <1>3, <1>21 DEF LookupAgain, Awaits, redisKeys, rooms, sessions, k
  <2>2. /\ JoinOn(t, n) /\ n.read = owner
        /\ n.pc = IF router[j] # 0 THEN "cached" ELSE "owned"
    <3> DEFINE pc == IF router[j] # 0 THEN "cached" ELSE "owned"
               new == [k EXCEPT !.read = owner, !.rtr = router[j], !.pc = pc]
    <3>1. task' = [task EXCEPT ![t] = new]
      BY <1>1, <1>21 DEF LookupAgain, AfterRemoval, k, j
    <3>2. JoinOn(t, new) /\ new.read = owner /\ new.pc = pc
      BY <1>1 DEF Task, JoinOn, k
    <3> HIDE DEF new
    <3> QED
      BY <1>4, <3>1, <3>2
  <2>3. ServedAfter(t) /\ MakesAfter(t)
    BY <2>1, <2>2 DEF ServedAfter, MakesAfter, Makes, JoinOn, k, j, n
  <2> QED
    BY <1>7, <1>14, <2>1, <2>2, <2>3 DEF JoinPcs
<1>22. CASE CreateRouter(t)
  <2>1. k.pc = "create" /\ UNCHANGED <<owner, transport, present, crossed>>
    BY <1>3, <1>22 DEF CreateRouter, Awaits, redisKeys, sessions, k
  <2>0. \A i \in Instances : OnlyInstance(i) => \A u \in Users : ~ Now(i, u)
    BY <1>8, <2>1 DEF Finds
  <2>2. /\ JoinOn(t, n) /\ n.pc = "save" /\ n.read = k.read
        /\ router'[j] # 0 /\ \A i \in Instances \ {j} : router'[i] = router[i]
    BY <1>1, <1>2, <1>22 DEF CreateRouter, Task, JoinOn, k, j, n
  <2>3. ServedAfter(t) /\ MakesAfter(t)
    BY <1>1, <1>11, <2>1, <2>2 DEF ServedAfter, MakesAfter, Makes, JoinOn, k, j, n
  <2>4. OneAfter(t)
    BY <1>8, <2>0, <2>1, <2>2 DEF OneAfter, LoneAfter, Lone, KeyedAfter, Keyed, FindsAfter,
       JoinOn, k, n
  <2> QED
    BY <1>7, <2>2, <2>3, <2>4 DEF JoinPcs
<1>23. CASE SavePeer(t)
  <2>1. k.pc = "save" /\ UNCHANGED <<owner, router, transport, present, crossed>>
    BY <1>3, <1>23 DEF SavePeer, Awaits, rooms, sessions, k
  <2>2. JoinOn(t, n) /\ n.pc = "enter" /\ n.read = k.read
    BY <1>5, <1>23 DEF SavePeer
  <2>3. ServedAfter(t) /\ MakesAfter(t)
    BY <1>9, <2>1, <2>2 DEF ServedAfter, MakesAfter, Makes, JoinOn, k, j, n
  <2>4. OneAfter(t)
    BY <1>8, <2>1, <2>2 DEF OneAfter, LoneAfter, Lone, KeyedAfter, Keyed, FindsAfter, Finds,
       JoinOn, k, n
  <2> QED
    BY <1>7, <2>2, <2>3, <2>4 DEF JoinPcs
<1> QED
  BY <1>12, <1>13, <1>16, <1>17, <1>18, <1>19, <1>20, <1>21, <1>22, <1>23

\* A removal spares the members: the last one out is alone, and a teardown takes its time.
LEMMA RemovalKeeps ==
  ASSUME MediaShape, MediaShape', LinksKept', RoomServed, NEW t \in Tasks, NEW h, Remover(h),
         Removal(t, h), \A s \in Sockets : link[s].inst \in {None, link'[s].inst},
         crossed \subseteq crossed', UNCHANGED <<owner, router>>,
         task[t].pc \in {"free", "unpublish", "forget", "next"}, ApartAfter(t),
         h.read \in {task[t].read, None}, h.held = None => present[h.inst][h.user] = None,
         h.op \in {"leave", "kick", "teardown"} /\ h.yes => h.op = "teardown" /\ h.todo = {},
         h.op = "teardown" => \A i \in Instances, u \in Users :
           Member(i, u) => i = h.inst /\ (u \in h.todo \/ u = h.user)
  PROVE  RoomServed'
<1> DEFINE n == task'[t]
<1>1. NoTask.op = "none" /\ NoTask.pc = "free" /\ NoTask.read = None
  BY DEF NoTask
<1>2. /\ OthersSame(t) /\ (n = NoTask \/ Serves(n, h))
      /\ n.pc \in {"free", "unpublish", "cached", "owned", "release", "forget", "next"}
      /\ n.read \in {h.read, owner, None}
      /\ \A s \in Sockets : transport'[s] \in {0, transport[s]}
  BY <1>1 DEF Removal, Waits, TakesOut, Follows, Serves, sessions
<1>3. Steady(t)
  <2>1. SessionMoves
    BY DEF SessionMoves, Removal, Waits, TakesOut, sessions
  <2> QED
    BY <1>2, <2>1 DEF Steady
<1>4. h.op \in RemovalOps /\ h.inst \in Instances /\ h.user \in Users
  BY DEF Remover
<1>5. SparesAfter(t)
  <2> SUFFICES ASSUME NEW i \in Instances, NEW u \in Users, Now(i, u) PROVE Spares(n, i, u)
    BY DEF SparesAfter
  <2>1. Member(i, u) /\ present'[i][u] = present[i][u] /\ present[i][u] # None
    BY <1>3, StillMember DEF Member
  <2>2. ~ (i = h.inst /\ n.pc \in {"release", "close"})
    <3> SUFFICES ASSUME i = h.inst, n.pc \in {"release", "close"} PROVE FALSE
      OBVIOUS
    <3>1. TakesOut(t, h) /\ h.held # None /\ members[h.inst] = {h.user}
      BY <1>1 DEF Removal, Waits, TakesOut, Follows
    <3>2. u \in members[h.inst]
      BY <2>1 DEF MediaShape, Listed
    <3>3. present'[i][u] = None
      BY <3>1, <3>2 DEF TakesOut
    <3> QED
      BY <2>1, <3>3
  <2>3. CASE n = NoTask
    BY <1>1, <2>3 DEF Spares
  <2>4. CASE Serves(n, h) /\ h.op # "teardown"
    BY <2>2, <2>4 DEF Spares, Serves
  <2>5. CASE Serves(n, h) /\ h.op = "teardown"
    <3>1. i = h.inst /\ (u \in h.todo \/ u = h.user)
      BY <2>1, <2>5
    <3>2. u = h.user => n.pc = "unpublish"
      BY <2>1, <3>1 DEF Removal, Waits, TakesOut
    <3> QED
      BY <2>2, <2>5, <3>1, <3>2 DEF Spares, Serves
  <2> QED
    BY <1>2, <2>3, <2>4, <2>5
<1>6. Done(n)
  BY <1>1, <1>2 DEF Done, Serves
<1>7. ServedAfter(t)
  BY <1>1, <1>2 DEF ServedAfter, Removal, Waits, TakesOut, Follows, Serves
<1>8. MakesAfter(t)
  BY DEF MakesAfter, Makes
<1>9. OneAfter(t)
  <2> SUFFICES ASSUME NEW i \in Instances, OnlyInstance(i), OnlyInstance(i)'
               PROVE  LoneAfter(t, i) /\ KeyedAfter(t, i) /\ FindsAfter(t, i)
    BY DEF OneAfter
  <2>1. OnlyKeys(i) /\ OnlyMembers(i)
    BY DEF RoomServed, OneRouter
  <2>2. LoneAfter(t, i)
    BY <1>2, <2>1 DEF LoneAfter, OnlyKeys, Lone
  <2>3. ASSUME n.op = "join" PROVE n.inst = i /\ h.op = "join" /\ h.inst = i
    <3>1. Serves(n, h)
      BY <1>1, <1>2, <2>3
    <3>2. n.sock \in Sockets /\ link'[n.sock].inst = n.inst
      BY <2>3 DEF LinksKept, JoinLinks, Joins
    <3> QED
      BY <1>4, <2>3, <3>1, <3>2, MediaAssumption DEF OnlyInstance, Serves
  <2>4. ASSUME n.op = "join"
        PROVE  n.pc = "unpublish" \/ (n.read = owner /\ n.pc = IF router[i] # 0 THEN "cached" ELSE "owned")
    BY <1>1, <2>3, <2>4 DEF Removal, Waits, TakesOut, Follows
  <2>5. KeyedAfter(t, i)
    BY <2>4 DEF KeyedAfter, Keyed
  <2>6. FindsAfter(t, i)
    <3> SUFFICES ASSUME NEW u \in Users, Now(i, u)
                 PROVE  /\ owner = i
                        /\ transport'[present[i][u]] \in {0, transport[present[i][u]]}
                        /\ n.op = "join" => Finds(n, i)
      BY <1>2 DEF FindsAfter
    <3>1. Member(i, u)
      BY <1>3, StillMember
    <3>2. present[i][u] \in Sockets /\ owner = i /\ router[i] # 0
      BY <2>1, <3>1 DEF MediaShape, MediaTypeOK, Member, OnlyMembers
    <3> QED
      BY <1>2, <2>4, <3>2 DEF Finds
  <2> QED
    BY <2>2, <2>5, <2>6
<1> QED
  BY <1>3, <1>5, <1>6, <1>7, <1>8, <1>9, SteadyKeeps

\* A handler that is started, with what it crosses.
LEMMA StartKeeps ==
  ASSUME MediaShape, MediaShape', LinksKept', RoomServed, NEW t \in Tasks, Awaits(t, "free"),
         NEW op \in {"join", "leave", "kick", "move"}, NEW s \in Sockets \cup {None}, op = "join" => s \in Sockets,
         NEW i \in Instances, NEW u \in Users, BeginRemoval(t, Spawn(op, s, i, u)),
         Crosses(t, IF op = "join" THEN {s} ELSE {}), UNCHANGED <<owner, router>>,
         \A r \in Sockets : link[r].inst \in {None, link'[r].inst}
  PROVE  RoomServed'
<1>1. PICK h : Starting(h, op, s, i, u) /\ Removal(t, h)
  BY StartEffect DEF RemovalOps
<1>2. /\ Remover(h) /\ h.held = present[h.inst][h.user] /\ h.read = None /\ h.yes = FALSE
      /\ h.op = op /\ h.sock = s
  BY <1>1 DEF Starting
<1>3. crossed' = crossed \cup CrossedBy(t, IF op = "join" THEN {s} ELSE {})
  BY DEF Crosses
<1>4. ApartAfter(t)
  <2>1. task'[t].op \notin RemovalOps \/ (task'[t].op = op /\ task'[t].sock = s)
    BY <1>1, <1>2 DEF Removal, Waits, TakesOut, Follows, Serves, NoTask, RemovalOps
  <2>2. CASE task'[t].op = op /\ task'[t].sock = s
    BY <1>3, <2>2 DEF ApartAfter
  <2> QED
    BY <2>1, <2>2 DEF ApartAfter
<1>5. crossed \subseteq crossed' /\ task[t].pc = "free" /\ ~ h.yes
  BY <1>2, <1>3 DEF Awaits
<1> QED
  BY <1>1, <1>2, <1>4, <1>5, RemovalKeeps


\* A handler that releases a room, or wipes its keys: no member is where it does.
LEMMA ReleaseKeeps ==
  ASSUME MediaShape, LinksKept, RoomServed, NEW t \in Tasks,
         ReleaseRoom(t) \/ CloseRoom(t) \/ WipeRedis(t)
  PROVE  RoomServed'
<1> DEFINE k == task[t]
           n == task'[t]
<1>1. /\ task \in [Tasks -> Task] /\ k \in Task /\ Shaped(k) /\ owner \in Instances \cup {None}
      /\ router \in [Instances -> Nat] /\ Done(k)
  BY DEF MediaShape, MediaTypeOK, TasksShaped, RoomServed, MembersServed, TeardownsDone
<1>2. /\ k.pc \in {"release", "close", "wipe"} /\ k.op \in {"leave", "kick", "teardown"}
      /\ owner' \in {owner, None} /\ UNCHANGED crossed
      /\ k.pc = "wipe" => k.op = "teardown" /\ k.todo = {} /\ UNCHANGED router
      /\ \A i \in Instances \ {k.inst} : router'[i] = router[i]
  BY <1>1 DEF ReleaseRoom, CloseRoom, WipeRedis, Awaits, Shaped, Done, ClearRedis, CloseRouter,
     redisKeys, rooms
<1>3. Steady(t)
  <2>1. Quiet(t)
    BY QuietSteps
  <2>2. Moves
    BY <2>1, QuietMoves
  <2> QED
    BY <1>2, <2>1, <2>2 DEF Quiet, Steady, Moves, LinkMoves
<1>4. \/ n = NoTask
      \/ /\ Serves(n, k) /\ n.read = k.read
         /\ \/ n.pc = "close" /\ k.pc = "release"
            \/ n.pc = Released(k) /\ k.pc \in {"release", "close"}
  <2>1. ASSUME NEW pc, Goes(t, pc) PROVE Serves(n, k) /\ n.read = k.read /\ n.pc = pc
    BY <1>1, <2>1 DEF Goes, Task, Serves
  <2>2. Ends(t) => n = NoTask
    BY <1>1 DEF Ends
  <2> QED
    BY <2>1, <2>2 DEF ReleaseRoom, CloseRoom, WipeRedis, Awaits
<1>5. NoTask.op = "none" /\ NoTask.pc = "free" /\ NoTask.read = None /\ ~ NoTask.yes
  BY DEF NoTask
<1>6. n.op # "join" /\ n.pc \in {"free", "close", "wipe", "forget"} /\ n.read \in {k.read, None}
  BY <1>2, <1>4, <1>5 DEF Serves, Released
<1>7. \A i \in Instances, u \in Users : Member(i, u) =>
        k.pc # "wipe" /\ i # k.inst /\ k.op # "teardown"
  <2> SUFFICES ASSUME NEW i \in Instances, NEW u \in Users, Member(i, u)
               PROVE  k.pc # "wipe" /\ i # k.inst /\ k.op # "teardown"
    OBVIOUS
  <2>1. Spares(k, i, u)
    BY DEF RoomServed, MembersServed, MembersKept
  <2> QED
    BY <1>2, <2>1 DEF Spares
<1>8. \A i \in Instances, u \in Users : Now(i, u) => Member(i, u)
  BY <1>3, StillMember
<1>9. \A g \in Tasks \ {t} : Joins(g) => task[g].sock \in crossed
  BY <1>2 DEF RoomServed, MembersServed, JoinsApart, RemovalOps
<1> HIDE DEF k, n
<1>10. ApartAfter(t)
  BY <1>2, <1>6 DEF ApartAfter, RemovalOps, k, n
<1>11. SparesAfter(t)
  BY <1>4, <1>5, <1>6, <1>7, <1>8 DEF SparesAfter, Spares, Serves, n
<1>12. Done(n)
  <2>1. CASE n = NoTask
    BY <1>5, <2>1 DEF Done
  <2>2. CASE Serves(n, k) /\ n.pc = Released(k)
    <3>1. n.op = k.op /\ (n.yes <=> k.yes) /\ n.todo = k.todo /\ (n.pc = "wipe" => k.yes)
      BY <2>2 DEF Serves, Released
    <3> QED
      BY <1>1, <1>2, <3>1 DEF Done
  <2>3. CASE Serves(n, k) /\ n.pc = "close"
    BY <1>1, <2>3 DEF Done, Serves
  <2> QED
    BY <1>4, <2>1, <2>2, <2>3
<1>13. ServedAfter(t)
  BY <1>2, <1>6, <1>9 DEF ServedAfter, n
<1>14. MakesAfter(t)
  BY <1>2, <1>7, <1>8, MediaAssumption DEF MakesAfter, Makes, k
<1>15. OneAfter(t)
  <2> SUFFICES ASSUME NEW i \in Instances, OnlyInstance(i)
               PROVE  LoneAfter(t, i) /\ KeyedAfter(t, i) /\ FindsAfter(t, i)
    BY DEF OneAfter
  <2>1. OnlyKeys(i)
    BY DEF RoomServed, OneRouter
  <2>2. LoneAfter(t, i)
    BY <1>2, <1>6, <2>1 DEF LoneAfter, OnlyKeys, Lone, k, n
  <2>3. KeyedAfter(t, i)
    BY <1>2, <1>6, <1>9 DEF KeyedAfter, n
  <2>4. \A u \in Users : ~ Now(i, u)
    BY <1>2, <1>7, <1>8, NobodyReleases DEF k
  <2> QED
    BY <2>2, <2>3, <2>4 DEF FindsAfter
<1> QED
  BY <1>3, <1>10, <1>11, <1>12, <1>13, <1>14, <1>15, SteadyKeeps DEF n

\* A step of a handler that is not about who is in the room. Where there is one router, the
\* transports that it makes are on it.
LEMMA OtherKeeps ==
  ASSUME MediaShape, RoomServed, NEW t \in Tasks, OthersSame(t), Moves,
         UNCHANGED <<owner, router, crossed>>, task[t].pc \in {"free", "make", "produce"},
         task'[t].op \notin RemovalOps,
         task'[t].pc \in {"free", "make", "produce"}, task'[t].read = None,
         \A i \in Instances, u \in Users : OnlyInstance(i) /\ Member(i, u) =>
           /\ transport'[present[i][u]] \in {0, transport[present[i][u]], router[i]}
           /\ task'[t].pc = "make" /\ task'[t].held = present[i][u] => task'[t].rtr = router[i]
  PROVE  RoomServed'
<1>1. Steady(t)
  BY DEF Steady, Moves, LinkMoves
<1>2. \A i \in Instances, u \in Users : Now(i, u) => Member(i, u)
  BY <1>1, StillMember
<1>3. ApartAfter(t) /\ SparesAfter(t) /\ Done(task'[t]) /\ ServedAfter(t) /\ MakesAfter(t)
  BY DEF ApartAfter, SparesAfter, Spares, Done, ServedAfter, MakesAfter, Makes, RemovalOps
<1>4. OneAfter(t)
  <2> SUFFICES ASSUME NEW i \in Instances, OnlyInstance(i)
               PROVE  LoneAfter(t, i) /\ KeyedAfter(t, i) /\ FindsAfter(t, i)
    BY DEF OneAfter
  <2>1. OnlyKeys(i) /\ OnlyMembers(i) /\ task'[t].op # "join"
    BY DEF RoomServed, OneRouter, RemovalOps
  <2> QED
    BY <1>2, <2>1 DEF LoneAfter, OnlyKeys, Lone, KeyedAfter, FindsAfter, OnlyMembers
<1> QED
  BY <1>1, <1>3, <1>4, SteadyKeeps

\* The handlers of transports and producers.
LEMMA SendKeeps ==
  ASSUME MediaShape, LinksKept, RoomServed, NEW t \in Tasks,
         \/ MakeTransport(t) \/ AddProducer(t)
         \/ \E s \in Sockets : CreateTransport(t, s) \/ Produce(t, s)
  PROVE  RoomServed'
<1> DEFINE k == task[t]
           n == task'[t]
<1>1. /\ task \in [Tasks -> Task] /\ k \in Task /\ Shaped(k) /\ transport \in [Sockets -> Nat]
      /\ NoTask.op = "none" /\ NoTask.pc = "free" /\ NoTask.read = None
  BY DEF MediaShape, MediaTypeOK, TasksShaped, NoTask
<1>2. \A new : task' = [task EXCEPT ![t] = new] => n = new /\ OthersSame(t)
  BY <1>1 DEF OthersSame
<1>3. UNCHANGED <<owner, router, crossed>>
  BY DEF MakeTransport, AddProducer, CreateTransport, Produce, redisKeys, rooms
<1>4. k.pc \in {"make", "produce", "free"}
  BY DEF MakeTransport, AddProducer, CreateTransport, Produce, Awaits
<1>5. CASE AddProducer(t)
  <2>1. n = NoTask /\ OthersSame(t) /\ UNCHANGED transport
    BY <1>2, <1>5 DEF AddProducer, Ends
  <2>2. Moves
    BY <1>5, QuietSteps, QuietMoves
  <2> QED
    BY <1>1, <1>3, <1>4, <2>1, <2>2, OtherKeeps DEF RemovalOps
<1>6. CASE MakeTransport(t)
  <2>1. /\ n = NoTask /\ OthersSame(t) /\ k.pc = "make" /\ k.held \in Sockets
        /\ \A s \in Sockets : transport'[s] = transport[s] \/ (s = k.held /\ transport'[s] = k.rtr)
    BY <1>1, <1>2, <1>6 DEF MakeTransport, Ends, Awaits, Shaped
  <2>2. Moves
    BY <1>6, OtherMoves
  <2>3. \A i \in Instances, u \in Users : OnlyInstance(i) /\ Member(i, u) =>
           transport'[present[i][u]] \in {0, transport[present[i][u]], router[i]}
    <3> SUFFICES ASSUME NEW i \in Instances, NEW u \in Users, OnlyInstance(i), Member(i, u)
                 PROVE  transport'[present[i][u]] \in {0, transport[present[i][u]], router[i]}
      OBVIOUS
    <3>1. present[i][u] \in Sockets
      BY DEF MediaShape, MediaTypeOK, Member
    <3>2. k.held = present[i][u] => k.rtr = router[i]
      BY <2>1 DEF RoomServed, OneRouter, OnlyMembers
    <3> QED
      BY <2>1, <3>1, <3>2
  <2> QED
    BY <1>1, <1>3, <1>4, <2>1, <2>2, <2>3, OtherKeeps DEF RemovalOps
<1>7. ASSUME NEW s \in Sockets, CreateTransport(t, s) \/ Produce(t, s) PROVE RoomServed'
  <2> DEFINE l == link[s]
             held == present[l.inst][l.user]
             makes == [Spawn("transport", s, l.inst, l.user) EXCEPT
                         !.pc = "make", !.held = held, !.rtr = router[l.inst]]
             produces == [Spawn("produce", s, l.inst, l.user) EXCEPT !.pc = "produce", !.held = held]
  <2>1. l.inst \in Instances
    BY <1>7 DEF CreateTransport, Produce, MediaShape, LinksShaped
  <2>2. /\ makes.op = "transport" /\ makes.pc = "make" /\ makes.read = None
        /\ makes.rtr = router[l.inst]
        /\ produces.op = "produce" /\ produces.pc = "produce" /\ produces.read = None
    BY DEF Spawn, NoTask
  <2>3. /\ task' = [task EXCEPT ![t] = makes] \/ task' = [task EXCEPT ![t] = produces]
        /\ UNCHANGED transport
    BY <1>7 DEF CreateTransport, Produce, sessions
  <2>4. Moves
    BY <1>7, OtherMoves
  <2>5. \A i \in Instances : OnlyInstance(i) => l.inst = i
    BY <2>1, MediaAssumption DEF OnlyInstance
  <2> HIDE DEF l, makes, produces
  <2>6. /\ n = makes \/ n = produces
        /\ OthersSame(t)
    BY <1>2, <2>3
  <2> QED
    BY <1>3, <1>4, <2>2, <2>3, <2>4, <2>5, <2>6, OtherKeeps DEF RemovalOps
<1> QED
  BY <1>5, <1>6, <1>7

\* A handler that is done with one session, of a teardown or not.
LEMMA NextKeeps ==
  ASSUME MediaShape, RoomServed, NEW t \in Tasks, OthersSame(t), task[t].pc \in {"forget", "next"},
         task[t].op \in {"leave", "kick", "teardown"},
         UNCHANGED <<link, owner, router, present, transport, crossed>>, Done(task'[t]),
         \/ task'[t] = NoTask
         \/ /\ task'[t].op = "teardown" /\ task[t].op = "teardown" /\ task'[t].todo = task[t].todo
            /\ task'[t].inst = task[t].inst
            /\ \/ task'[t].pc = "next"
               \/ task'[t].pc = "release" /\ task[t].todo = {}
            /\ task'[t].read \in {task[t].read, owner}
  PROVE  RoomServed'
<1> DEFINE n == task'[t]
<1>1. NoTask.op = "none" /\ NoTask.pc = "free" /\ NoTask.read = None
  BY DEF NoTask
<1>2. Steady(t)
  BY DEF Steady, SessionMoves
<1>3. \A i \in Instances, u \in Users : Now(i, u) => Spares(task[t], i, u)
  BY <1>2, StillMember DEF RoomServed, MembersServed, MembersKept
<1>4. ApartAfter(t) /\ SparesAfter(t)
  BY <1>1, <1>3 DEF ApartAfter, SparesAfter, Spares, RemovalOps
<1>5. ServedAfter(t) /\ MakesAfter(t)
  BY <1>1 DEF ServedAfter, MakesAfter, Makes
<1>6. OneAfter(t)
  <2> SUFFICES ASSUME NEW i \in Instances, OnlyInstance(i)
               PROVE  LoneAfter(t, i) /\ KeyedAfter(t, i) /\ FindsAfter(t, i)
    BY DEF OneAfter
  <2>1. OnlyKeys(i) /\ OnlyMembers(i)
    BY DEF RoomServed, OneRouter
  <2>2. \A u \in Users : Now(i, u) => Member(i, u)
    BY <1>2, StillMember
  <2>3. n.op # "join" /\ n.pc \in {"free", "next", "release"} /\ n.read \in {task[t].read, owner, None}
    BY <1>1
  <2> QED
    BY <2>1, <2>2, <2>3 DEF LoneAfter, OnlyKeys, Lone, KeyedAfter, FindsAfter, OnlyMembers
<1> QED
  BY <1>2, <1>4, <1>5, <1>6, SteadyKeeps

\* The handlers that take a session out.
LEMMA RemovalsKeep ==
  ASSUME MediaShape, MediaShape', LinksKept', RoomServed, NEW t \in Tasks,
         Unpublish(t) \/ ForgetPeer(t) \/ TeardownNext(t)
  PROVE  RoomServed'
<1> DEFINE k == task[t]
<1>1. /\ task \in [Tasks -> Task] /\ link \in [Sockets -> Link] /\ k \in Task /\ Shaped(k)
      /\ Done(k) /\ \A i \in Instances, u \in Users : Member(i, u) => Spares(k, i, u)
  BY DEF MediaShape, MediaTypeOK, TasksShaped, RoomServed, MembersServed, TeardownsDone,
     MembersKept
<1>2. UNCHANGED <<owner, router, crossed>> /\ NoTask.op = "none" /\ ~ NoTask.yes /\ NoTask.pc = "free"
  BY DEF Unpublish, ForgetPeer, TeardownNext, redisKeys, rooms, NoTask
<1>3. CASE Unpublish(t)
  <2>1. k.pc = "unpublish" /\ Remover(k) /\ TakeOut(t, k) /\ UNCHANGED link /\ k.held \in Sockets
    BY <1>1, <1>3 DEF Unpublish, Awaits, Shaped, Remover
  <2>2. TakesOut(t, k)
    BY <2>1, TakeOutEffect
  <2>3. ApartAfter(t)
    BY <1>2, <2>1, <2>2 DEF TakesOut, Follows, Serves, ApartAfter, Remover, Joins, RemovalOps
  <2>4. /\ k.held # None
        /\ k.op = "teardown" => \A i \in Instances, u \in Users :
             Member(i, u) => i = k.inst /\ (u \in k.todo \/ u = k.user)
    BY <1>1, <2>1, MediaAssumption DEF Spares
  <2> HIDE DEF k
  <2> QED
    BY <1>1, <1>2, <2>1, <2>2, <2>3, <2>4, RemovalKeeps DEF Removal, Done, k
<1>4. CASE ForgetPeer(t)
  <2>1. /\ k.inst \in Instances /\ k.user \in Users /\ k.held \in Sockets /\ k.pc = "forget"
        /\ k.op \in {"leave", "kick", "teardown"}
    BY <1>1, <1>4 DEF ForgetPeer, Awaits, Shaped
  <2>2. CASE /\ link' = [link EXCEPT ![k.held].state = "closed"]
             /\ BeginRemoval(t, Spawn("leave", k.held, k.inst, k.user))
    <3>1. PICK h : Starting(h, "leave", k.held, k.inst, k.user) /\ Removal(t, h)
      BY <2>1, <2>2, StartEffect DEF RemovalOps
    <3>2. /\ Remover(h) /\ h.held = present[h.inst][h.user] /\ h.read = None /\ ~ h.yes
          /\ h.op = "leave"
      BY <3>1 DEF Starting
    <3>3. \A s \in Sockets : link[s].inst \in {None, link'[s].inst}
      BY <1>1, <2>2 DEF Link
    <3>4. ApartAfter(t)
      BY <1>2, <2>1, <3>1, <3>2 DEF Removal, Waits, TakesOut, Follows, Serves, ApartAfter,
         RemovalOps
    <3> QED
      BY <1>2, <2>1, <3>1, <3>2, <3>3, <3>4, RemovalKeeps
  <2>3. CASE /\ (k.op = "teardown" /\ Goes(t, "next")) \/ Ends(t)
             /\ UNCHANGED <<link, sessions>>
    <3>1. OthersSame(t) /\ UNCHANGED <<link, present, transport>>
      BY <1>1, <2>3 DEF Goes, Ends, OthersSame, sessions
    <3>2. \/ task'[t] = NoTask
          \/ /\ task'[t].op = "teardown" /\ k.op = "teardown" /\ task'[t].todo = k.todo
             /\ task'[t].inst = k.inst /\ task'[t].pc = "next" /\ task'[t].read = k.read
             /\ (task'[t].yes <=> k.yes)
      BY <1>1, <2>3 DEF Goes, Ends, Task
    <3>3. Done(task'[t])
      BY <1>1, <1>2, <3>2 DEF Done
    <3> QED
      BY <1>2, <2>1, <3>1, <3>2, <3>3, NextKeeps
  <2> QED
    BY <1>4, <2>2, <2>3 DEF ForgetPeer
<1>5. CASE TeardownNext(t)
  <2>1. k.inst \in Instances /\ k.op = "teardown" /\ k.pc = "next" /\ UNCHANGED link
    BY <1>1, <1>5 DEF TeardownNext, Awaits, Shaped
  <2>2. CASE /\ k.todo = {} /\ UNCHANGED sessions
             /\ task' = [task EXCEPT ![t] = [k EXCEPT !.pc = "release", !.read = owner, !.yes = TRUE]]
    <3> DEFINE new == [k EXCEPT !.pc = "release", !.read = owner, !.yes = TRUE]
    <3>1. OthersSame(t) /\ task'[t] = new /\ UNCHANGED <<present, transport>>
      BY <1>1, <2>2 DEF OthersSame, sessions
    <3>2. new.op = "teardown" /\ new.todo = {} /\ new.inst = k.inst /\ new.pc = "release" /\ new.read = owner
      BY <1>1, <2>1, <2>2 DEF Task
    <3> HIDE DEF new
    <3>3. Done(new)
      BY <3>2 DEF Done
    <3> QED
      BY <1>2, <2>1, <2>2, <3>1, <3>2, <3>3, NextKeeps
  <2>3. ASSUME NEW u \in k.todo, BeginRemoval(t, [k EXCEPT !.user = u, !.todo = @ \ {u}])
        PROVE  RoomServed'
    <3> DEFINE now == [k EXCEPT !.user = u, !.todo = @ \ {u}]
    <3>1. /\ now \in Task /\ now.op = k.op /\ now.inst = k.inst /\ now.user = u /\ u \in Users
          /\ now.todo = k.todo \ {u} /\ (now.yes <=> k.yes) /\ now.read = k.read
      BY <1>1 DEF Task
    <3>2. BeginRemoval(t, now)
      BY <2>3
    <3> HIDE DEF now
    <3>3. Remover(now)
      BY <2>1, <3>1 DEF Remover, RemovalOps
    <3>4. PICK h : Starter(h, now) /\ Removal(t, h)
      BY <3>2, <3>3, BeginRemovalEffect
    <3>5. ~ k.yes
      BY <1>1, <2>1 DEF Done
    <3>6. /\ Remover(h) /\ h.op = "teardown" /\ h.held = present[h.inst][h.user] /\ ~ h.yes
          /\ h.read = k.read /\ h.todo = k.todo \ {u} /\ h.user = u /\ h.inst = k.inst
      BY <2>1, <3>1, <3>4, <3>5 DEF Starter
    <3>7. \A i \in Instances, v \in Users :
             Member(i, v) => i = h.inst /\ (v \in h.todo \/ v = h.user)
      BY <1>1, <2>1, <3>6 DEF Spares
    <3>8. ApartAfter(t)
      BY <1>2, <2>1, <3>4, <3>6 DEF Removal, Waits, TakesOut, Follows, Serves, ApartAfter,
         RemovalOps
    <3> QED
      BY <1>2, <2>1, <3>4, <3>6, <3>7, <3>8, RemovalKeeps
  <2> QED
    BY <1>5, <2>2, <2>3 DEF TeardownNext
<1> QED
  BY <1>3, <1>4, <1>5

\* A session that is lost: whoever has one afterwards had it before.
LEMMA LostKeeps ==
  ASSUME MediaShape, RoomServed, NEW t \in Tasks, Moves,
         UNCHANGED <<link, owner, router, transport, task, crossed>>
  PROVE  RoomServed'
<1>1. Steady(t)
  BY DEF Steady, OthersSame, Moves
<1>2. \A i \in Instances, u \in Users : Now(i, u) => Member(i, u)
  BY <1>1, StillMember
<1>3. ApartAfter(t)
  BY DEF ApartAfter, Joins
<1>4. SparesAfter(t) /\ Done(task'[t])
  BY <1>2 DEF SparesAfter, RoomServed, MembersServed, MembersKept, TeardownsDone
<1>5. ServedAfter(t) /\ MakesAfter(t)
  BY <1>2 DEF ServedAfter, MakesAfter, RoomServed, MembersServed, JoinsServed, Joins
<1>6. OneAfter(t)
  <2> SUFFICES ASSUME NEW i \in Instances, OnlyInstance(i)
               PROVE  LoneAfter(t, i) /\ KeyedAfter(t, i) /\ FindsAfter(t, i)
    BY DEF OneAfter
  <2>1. OnlyKeys(i) /\ OnlyJoins(i) /\ OnlyMembers(i)
    BY DEF RoomServed, OneRouter
  <2>2. LoneAfter(t, i) /\ KeyedAfter(t, i)
    BY <2>1 DEF LoneAfter, OnlyKeys, KeyedAfter, OnlyJoins, Joins
  <2>3. FindsAfter(t, i)
    BY <1>2, <2>1 DEF FindsAfter, OnlyMembers, Joins
  <2> QED
    BY <2>2, <2>3
<1> QED
  BY <1>1, <1>3, <1>4, <1>5, <1>6, SteadyKeeps

\* The handlers that start: a client comes or goes, or a webhook removes a member.
LEMMA StartsKeep ==
  ASSUME MediaShape, MediaShape', LinksKept, LinksKept', RoomServed, NEW t \in Tasks,
         \/ \E s \in Sockets : LeaveRoom(t, s) \/ Disconnect(t, s)
         \/ \E i \in Instances, u \in Users : KickPeer(t, i, u) \/ OtherRoom(t, i, u)
         \/ \E s \in Sockets, i \in Instances, u \in Users : Join(t, s, i, u)
  PROVE  RoomServed'
<1>1. Awaits(t, "free") /\ UNCHANGED <<owner, router>>
  BY DEF LeaveRoom, Disconnect, KickPeer, OtherRoom, Join, redisKeys, rooms
<1>2. ASSUME NEW s \in Sockets, LeaveRoom(t, s) \/ Disconnect(t, s) PROVE RoomServed'
  <2>1. link[s].user \in Users /\ link[s].inst \in Instances
    BY <1>2 DEF LeaveRoom, Disconnect, MediaShape, LinksShaped
  <2>2. \A r \in Sockets : link[r].inst \in {None, link'[r].inst}
    BY <1>2, EventMoves DEF Moves, LinkMoves
  <2>3. BeginRemoval(t, Spawn("leave", s, link[s].inst, link[s].user)) /\ Crosses(t, {})
    BY <1>2 DEF LeaveRoom, Disconnect
  <2> QED
    BY <1>1, <2>1, <2>2, <2>3, StartKeeps
<1>3. ASSUME NEW i \in Instances, NEW u \in Users, KickPeer(t, i, u) PROVE RoomServed'
  <2>1. BeginRemoval(t, Spawn("kick", None, i, u)) /\ Crosses(t, {}) /\ UNCHANGED link
    BY <1>3 DEF KickPeer
  <2> QED
    BY <1>1, <2>1, StartKeeps
<1>4. ASSUME NEW s \in Sockets, NEW i \in Instances, NEW u \in Users, Join(t, s, i, u)
      PROVE  RoomServed'
  <2>1. BeginRemoval(t, Spawn("join", s, i, u)) /\ Crosses(t, {s})
    BY <1>4 DEF Join
  <2>2. \A r \in Sockets : link[r].inst \in {None, link'[r].inst}
    BY <1>4 DEF Join, MediaShape, MediaTypeOK, LinksKept, NewLinks
  <2> QED
    BY <1>1, <2>1, <2>2, StartKeeps
<1>5. ASSUME NEW i \in Instances, NEW u \in Users, OtherRoom(t, i, u) PROVE RoomServed'
  <2>1. UNCHANGED link
    BY <1>5 DEF OtherRoom
  <2>2. ASSUME NEW op \in {"move", "leave"}, BeginRemoval(t, Spawn(op, None, i, u)), Crosses(t, {})
        PROVE  RoomServed'
    BY <1>1, <2>1, <2>2, StartKeeps
  <2>3. CASE UNCHANGED <<transport, task, crossed>>
    <3>1. Moves
      BY <1>5, EventMoves
    <3> QED
      BY <1>1, <2>1, <2>3, <3>1, LostKeeps
  <2> QED
    BY <1>5, <2>2, <2>3 DEF OtherRoom
<1> QED
  BY <1>2, <1>3, <1>4, <1>5

\* A teardown: the members elsewhere are crossed, and those here are yet to be removed.
LEMMA TeardownKeeps ==
  ASSUME MediaShape, LinksKept, RoomServed, NEW t \in Tasks, NEW i \in Instances,
         TeardownRoom(t, i)
  PROVE  RoomServed'
<1> DEFINE new == [Spawn("teardown", None, i, None) EXCEPT !.pc = "next", !.todo = members[i]]
<1>1. /\ new.op = "teardown" /\ new.inst = i /\ new.pc = "next" /\ new.todo = members[i]
      /\ ~ new.yes /\ new.read = None
  BY DEF Spawn, NoTask
<1>2. /\ task' = [task EXCEPT ![t] = new] /\ task[t].pc = "free"
      /\ UNCHANGED <<owner, router, present, transport>>
      /\ crossed' = crossed \cup CrossedBy(t, {}) \cup Elsewhere(i)
  BY DEF TeardownRoom, Awaits, redisKeys, rooms, sessions
<1> HIDE DEF new
<1>3. task'[t] = new /\ OthersSame(t)
  BY <1>2 DEF MediaShape, MediaTypeOK, OthersSame
<1>4. Steady(t)
  <2>1. Moves
    BY OtherMoves
  <2> QED
    BY <1>2, <1>3, <2>1 DEF Steady, Moves, LinkMoves
<1>5. \A j \in Instances, u \in Users : Now(j, u) => Member(j, u)
  BY <1>4, StillMember
<1>6. ApartAfter(t)
  BY <1>1, <1>2, <1>3 DEF ApartAfter
<1>7. SparesAfter(t)
  <2> SUFFICES ASSUME NEW j \in Instances, NEW u \in Users, Now(j, u) PROVE Spares(new, j, u)
    BY <1>3 DEF SparesAfter
  <2>1. present[j][u] \in Sockets \ Elsewhere(i) /\ present[j][u] # None
    BY <1>2 DEF Now, MediaShape, MediaTypeOK
  <2>2. j = i
    BY <2>1 DEF Elsewhere
  <2> QED
    BY <1>1, <2>1, <2>2 DEF Spares, MediaShape, Listed
<1>8. Done(new) /\ ServedAfter(t) /\ MakesAfter(t)
  BY <1>1, <1>2, <1>3 DEF Done, ServedAfter, MakesAfter, Makes
<1>9. OneAfter(t)
  BY <1>1, <1>2, <1>3, <1>5 DEF OneAfter, LoneAfter, Lone, KeyedAfter, FindsAfter, RoomServed,
     OneRouter, OnlyKeys, OnlyMembers
<1> QED
  BY <1>3, <1>4, <1>6, <1>7, <1>8, <1>9, SteadyKeeps

\* A step that is about none of this.
LEMMA RoomServedSame ==
  ASSUME RoomServed, UNCHANGED <<link, owner, router, present, transport, task, crossed>>
  PROVE  RoomServed'
BY DEF RoomServed, MembersServed, JoinsApart, Joins, MembersKept, Member, Spares, TeardownsDone,
   Done, JoinsServed, OwnerMakes, Makes, OneRouter, OnlyInstance, OnlyKeys, Lone, OnlyJoins, Keyed,
   OnlyMembers, Finds

\* A member enters: its join was apart, so nobody releases the room, which has the router.
LEMMA EnterKeeps ==
  ASSUME MediaShape, MediaShape', LinksKept, RoomServed, NEW t \in Tasks, Enter(t)
  PROVE  RoomServed'
<1> DEFINE s == task[t].sock
           i == task[t].inst
           u == task[t].user
<1>1. /\ task[t].pc = "enter" /\ Joins(t) /\ s \in Sockets /\ i \in Instances /\ u \in Users
  BY DEF Enter, Awaits, MediaShape, TasksShaped, Shaped, JoinPcs, Joins
<1>2. Fresh(s) /\ s # None
  BY <1>1, MediaAssumption DEF LinksKept, JoinLinks
<1>3. /\ present \in [Instances -> [Users -> Sockets \cup {None}]] /\ link \in [Sockets -> Link]
      /\ task \in [Tasks -> Task] /\ \A g \in Tasks : Shaped(task[g])
  BY DEF MediaShape, MediaTypeOK, TasksShaped
<1>4. \A j \in Instances, v \in Users :
         present'[j][v] = IF j = i /\ v = u THEN s ELSE present[j][v]
  BY <1>1, <1>3 DEF Enter
<1>5. \A r \in Sockets : link'[r].inst = link[r].inst
  BY <1>1, <1>3 DEF Enter, Link
<1>6. /\ task'[t].op = "none" /\ task'[t].pc = "free" /\ task'[t].read = None /\ ~ task'[t].yes
      /\ \A g \in Tasks \ {t} : task'[g] = task[g]
      /\ UNCHANGED <<owner, router, transport, crossed>>
  BY <1>3 DEF Enter, Ends, NoTask, redisKeys, rooms
<1>7. s \notin crossed => /\ \A g \in Tasks \ {t} : task[g].op \notin RemovalOps
                          /\ router[i] # 0
  BY <1>1 DEF RoomServed, MembersServed, JoinsApart, JoinsServed
<1>8. /\ JoinsApart /\ MembersKept /\ TeardownsDone /\ JoinsServed /\ OwnerMakes /\ OneRouter
  BY DEF RoomServed, MembersServed
<1>9. \A j \in Instances, v \in Users : Now(j, v) =>
        \/ Member(j, v) /\ present'[j][v] = present[j][v]
        \/ j = i /\ v = u /\ s \notin crossed
  BY <1>4, <1>6 DEF Now, Member
<1> HIDE DEF s, i, u
<1>10. JoinsApart'
  BY <1>6, <1>8 DEF JoinsApart, Joins, RemovalOps
<1>11. MembersKept'
  <2> SUFFICES ASSUME NEW j \in Instances, NEW v \in Users, Now(j, v), NEW g \in Tasks
               PROVE  Spares(task'[g], j, v)
    BY DEF MembersKept, Member, Now, Spares
  <2>1. CASE g = t
    BY <1>6, <2>1 DEF Spares
  <2>2. CASE g # t /\ Member(j, v)
    BY <1>6, <1>8, <2>2 DEF MembersKept
  <2>3. CASE g # t /\ s \notin crossed
    BY <1>3, <1>6, <1>7, <2>3 DEF Spares, Shaped, RemovalOps
  <2> QED
    BY <1>9, <2>1, <2>2, <2>3
<1>12. TeardownsDone'
  BY <1>6, <1>8 DEF TeardownsDone, Done
<1>13. JoinsServed'
  BY <1>6, <1>8 DEF JoinsServed, Joins
<1>14. OwnerMakes'
  <2> SUFFICES ASSUME NEW j \in Instances, NEW v \in Users, Now(j, v), owner = j, router[j] = 0
               PROVE  \E g \in Tasks : Makes(task'[g], j)
    BY <1>6 DEF OwnerMakes, Member, Now, Makes
  <2>1. Member(j, v)
    BY <1>7, <1>9
  <2>2. PICK g \in Tasks : Makes(task[g], j)
    BY <1>8, <2>1 DEF OwnerMakes
  <2>3. g # t
    BY <1>1, <2>2 DEF Makes
  <2> QED
    BY <1>6, <2>2, <2>3
<1>15. OneRouter'
  <2> SUFFICES ASSUME NEW j \in Instances, OnlyInstance(j)'
               PROVE  OnlyKeys(j)' /\ OnlyJoins(j)' /\ OnlyMembers(j)'
    BY DEF OneRouter
  <2>1. OnlyInstance(j)
    BY <1>5 DEF OnlyInstance
  <2>2. OnlyKeys(j) /\ OnlyJoins(j) /\ OnlyMembers(j)
    BY <1>8, <2>1 DEF OneRouter
  <2>3. OnlyKeys(j)' /\ OnlyJoins(j)'
    BY <1>6, <2>2 DEF OnlyKeys, Lone, OnlyJoins, Joins, Keyed
  <2>4. OnlyMembers(j)'
    <3> SUFFICES ASSUME NEW v \in Users, Now(j, v)
                 PROVE  /\ owner = j /\ router[j] # 0
                        /\ transport[present'[j][v]] \in {0, router[j]}
                        /\ \A g \in Tasks : task'[g].op = "join" => Finds(task'[g], j)
                        /\ \A g \in Tasks : task'[g].pc = "make" /\ task'[g].held = present'[j][v] =>
                             task'[g].rtr = router[j]
      BY <1>6 DEF OnlyMembers, Member, Now, Joins, Finds
    <3>1. CASE Member(j, v) /\ present'[j][v] = present[j][v]
      BY <1>6, <2>2, <3>1 DEF OnlyMembers, Joins
    <3>2. CASE j = i /\ v = u /\ s \notin crossed
      <4>1. owner = j
        BY <1>1, <2>2, <3>2 DEF OnlyJoins, Keyed, s
      <4>2. present'[j][v] = s /\ transport[s] = 0 /\ \A g \in Tasks : task[g].held # s
        BY <1>1, <1>2, <1>4, <3>2 DEF Fresh
      <4> QED
        BY <1>6, <1>7, <3>2, <4>1, <4>2 DEF RemovalOps
    <3> QED
      BY <1>9, <3>1, <3>2
  <2> QED
    BY <2>3, <2>4
<1> QED
  BY <1>10, <1>11, <1>12, <1>13, <1>14, <1>15 DEF RoomServed, MembersServed

\* A process that dies takes its members, its router and its handlers with it.
LEMMA CrashKeeps ==
  ASSUME MediaShape, RoomServed, NEW i \in Instances, Crash(i) PROVE RoomServed'
<1>1. /\ link \in [Sockets -> Link] /\ router \in [Instances -> Nat] /\ task \in [Tasks -> Task]
      /\ present \in [Instances -> [Users -> Sockets \cup {None}]] /\ transport \in [Sockets -> Nat]
      /\ \A g \in Tasks : Shaped(task[g])
  BY DEF MediaShape, MediaTypeOK, TasksShaped
<1>2. /\ \A s \in Sockets : link'[s].inst = link[s].inst /\ transport'[s] \in {0, transport[s]}
      /\ \A j \in Instances, u \in Users : present'[j][u] = IF j = i THEN None ELSE present[j][u]
      /\ \A j \in Instances : router'[j] = IF j = i THEN 0 ELSE router[j]
      /\ \A g \in Tasks : task'[g] = IF task[g].inst = i THEN NoTask ELSE task[g]
      /\ UNCHANGED <<owner, crossed>>
  BY <1>1 DEF Crash, Link, redisKeys
<1>3. NoTask.op = "none" /\ NoTask.pc = "free" /\ NoTask.read = None /\ ~ NoTask.yes
  BY DEF NoTask
<1>4. JoinsApart /\ MembersKept /\ TeardownsDone /\ JoinsServed /\ OwnerMakes /\ OneRouter
  BY DEF RoomServed, MembersServed
<1>5. \A j \in Instances, v \in Users : Now(j, v) =>
        j # i /\ Member(j, v) /\ present'[j][v] = present[j][v]
  BY <1>2 DEF Now, Member
<1>6. JoinsApart'
  BY <1>2, <1>3, <1>4 DEF JoinsApart, Joins, RemovalOps
<1>7. MembersKept'
  <2> SUFFICES ASSUME NEW j \in Instances, NEW v \in Users, Now(j, v), NEW g \in Tasks
               PROVE  Spares(task'[g], j, v)
    BY DEF MembersKept, Member, Now, Spares
  <2>1. Spares(task[g], j, v)
    BY <1>4, <1>5 DEF MembersKept
  <2>2. Spares(NoTask, j, v)
    BY <1>3 DEF Spares
  <2> QED
    BY <1>2, <2>1, <2>2
<1>8. TeardownsDone'
  <2> SUFFICES ASSUME NEW g \in Tasks PROVE Done(task'[g])
    BY DEF TeardownsDone, Done
  <2>1. Done(task[g]) /\ Done(NoTask)
    BY <1>3, <1>4 DEF TeardownsDone, Done
  <2> QED
    BY <1>2, <2>1
<1>9. JoinsServed'
  <2> SUFFICES ASSUME NEW g \in Tasks, task'[g].op = "join", task'[g].sock \notin crossed,
                      task'[g].pc \in {"cached", "save", "enter"}
               PROVE  router'[task'[g].inst] # 0
    BY <1>2 DEF JoinsServed, Joins
  <2>1. task'[g] = task[g] /\ task[g].inst \in Instances \ {i}
    BY <1>1, <1>2, <1>3 DEF Shaped
  <2> QED
    BY <1>2, <1>4, <2>1 DEF JoinsServed, Joins
<1>10. OwnerMakes'
  <2> SUFFICES ASSUME NEW j \in Instances, NEW v \in Users, Now(j, v), owner = j, router'[j] = 0
               PROVE  \E g \in Tasks : Makes(task'[g], j)
    BY <1>2 DEF OwnerMakes, Member, Now, Makes
  <2>1. PICK g \in Tasks : Makes(task[g], j)
    BY <1>2, <1>4, <1>5 DEF OwnerMakes
  <2> QED
    BY <1>2, <1>5, <2>1 DEF Makes
<1>11. OneRouter'
  <2> SUFFICES ASSUME NEW j \in Instances, OnlyInstance(j)'
               PROVE  OnlyKeys(j)' /\ OnlyJoins(j)' /\ OnlyMembers(j)'
    BY DEF OneRouter
  <2>1. OnlyInstance(j)
    BY <1>2 DEF OnlyInstance
  <2>2. OnlyKeys(j) /\ OnlyJoins(j) /\ OnlyMembers(j)
    BY <1>4, <2>1 DEF OneRouter
  <2>3. OnlyKeys(j)' /\ OnlyJoins(j)'
    BY <1>2, <1>3, <2>2 DEF OnlyKeys, Lone, OnlyJoins, Joins, Keyed
  <2>4. OnlyMembers(j)'
    <3> SUFFICES ASSUME NEW v \in Users, Now(j, v)
                 PROVE  /\ owner = j /\ router'[j] # 0
                        /\ transport'[present'[j][v]] \in {0, router'[j]}
                        /\ \A g \in Tasks : task'[g].op = "join" => Finds(task'[g], j)
                        /\ \A g \in Tasks : task'[g].pc = "make" /\ task'[g].held = present'[j][v] =>
                             task'[g].rtr = router'[j]
      BY <1>2 DEF OnlyMembers, Member, Now, Joins, Finds
    <3>1. j # i /\ Member(j, v) /\ present'[j][v] = present[j][v] /\ present[j][v] \in Sockets
      BY <1>1, <1>5 DEF Member
    <3> QED
      BY <1>2, <1>3, <2>2, <3>1 DEF OnlyMembers, Joins
  <2> QED
    BY <2>3, <2>4
<1> QED
  BY <1>6, <1>7, <1>8, <1>9, <1>10, <1>11 DEF RoomServed, MembersServed

\* Every step keeps the members served and on one router.
LEMMA RoomServedNext ==
  ASSUME MediaShape, MediaShape', LinksKept, LinksKept', RoomServed, [MediaNext]_mediaVars
  PROVE  RoomServed'
<1>1. CASE UNCHANGED mediaVars \/ \E s \in Sockets : CloseProducer(s)
  <2>1. UNCHANGED <<link, owner, router, present, transport, task, crossed>>
    BY <1>1 DEF mediaVars, redisKeys, rooms, sessions, CloseProducer
  <2> QED
    BY <2>1, RoomServedSame
<1>2. ASSUME NEW t \in Tasks, MediaStep(t) PROVE RoomServed'
  BY <1>2, ReleaseKeeps, RemovalsKeep, JoinStepKeeps, EnterKeeps, SendKeeps DEF MediaStep
<1>3. ASSUME NEW t \in Tasks, NEW s \in Sockets, CreateTransport(t, s) \/ Produce(t, s)
      PROVE  RoomServed'
  BY <1>3, SendKeeps
<1>4. ASSUME NEW t \in Tasks,
             \/ \E s \in Sockets : LeaveRoom(t, s) \/ Disconnect(t, s)
             \/ \E i \in Instances, u \in Users : KickPeer(t, i, u) \/ OtherRoom(t, i, u)
             \/ \E s \in Sockets, i \in Instances, u \in Users : Join(t, s, i, u)
      PROVE  RoomServed'
  BY <1>4, StartsKeep
<1> QED
  BY <1>1, <1>2, <1>3, <1>4, TeardownKeeps, CrashKeeps DEF MediaNext

\* At first nobody is a member.
LEMMA RoomServedInit == MediaInit => RoomServed
<1> SUFFICES ASSUME MediaInit PROVE RoomServed
  OBVIOUS
<1>1. \A t \in Tasks : /\ task[t].op = "none" /\ task[t].pc = "free" /\ task[t].read = None
                       /\ ~ task[t].yes
  BY DEF MediaInit, NoTask
<1>2. owner = None /\ \A i \in Instances, u \in Users : present[i][u] = None
  BY DEF MediaInit
<1> QED
  BY <1>1, <1>2 DEF RoomServed, MembersServed, JoinsApart, Joins, MembersKept, Member,
     TeardownsDone,
     Done, JoinsServed, OwnerMakes, OneRouter, OnlyKeys, Lone, OnlyJoins, OnlyMembers

\* Behaviour covered: getOrCreateLocalRoom, releaseRoom and forceTeardownMediasoupRoom of
\* rtc-service. A join that crosses nothing finds or makes a router; nobody releases the room
\* under whoever joined that way; an owner whose router was closed makes another; and where all
\* connections go to one instance, the router stays as long as such a member does.
THEOREM RoomServedHolds == MediaSpec => []RoomServed
<1>1. MediaShape /\ MediaShape' /\ LinksKept /\ LinksKept' /\ RoomServed /\ [MediaNext]_mediaVars
      => RoomServed'
  BY RoomServedNext
<1> QED
  BY <1>1, RoomServedInit, MediaShapeHolds, LinksKeptHolds, PTL DEF MediaSpec

\* Behaviour covered: on the instance that owns the room, or that all connections go to, whoever
\* joined while no other handler joined, left or released has a router once handlers are done.
THEOREM MembersAreServed == MediaSpec => []OwnerServesMembers
<1>1. RoomServed => OwnerServesMembers
  <2> SUFFICES ASSUME RoomServed, NEW i \in Instances, NEW u \in Users, Still, Member(i, u),
                      owner = i \/ OnlyInstance(i)
               PROVE  router[i] # 0
    BY DEF OwnerServesMembers, Member
  <2>1. CASE owner = i
    BY <2>1 DEF RoomServed, MembersServed, OwnerMakes, Makes, Still, Awaits
  <2>2. CASE OnlyInstance(i)
    BY <2>2 DEF RoomServed, OneRouter, OnlyMembers
  <2> QED
    BY <2>1, <2>2
<1> QED
  BY <1>1, RoomServedHolds, PTL

\* Behaviour covered: where all connections go to one instance, members whose joins crossed
\* nothing send and receive on one router, although localRooms is overwritten by whoever creates
\* last.
THEOREM OneRouterForAll == MediaSpec => []SameRouter
<1>1. RoomServed => SameRouter
  BY DEF RoomServed, OneRouter, OnlyMembers, Member, SameRouter
<1> QED
  BY <1>1, RoomServedHolds, PTL

-----------------------------------------------------------------------------
(* Which routers run                                                        *)

\* A join that will make a router without looking for one again.
Claims(k) == k.op = "join" /\ k.pc \in {"owned", "count", "cleared", "claim", "reread", "create"}

\* Where no joins overlapped no router was overwritten, and nobody will make a second one.
Single(i) ==
  /\ 0 \notin running[i] /\ (Overwritten(i) # {} => Overlapped(i))
  /\ \A t \in Tasks : Claims(task[t]) /\ task[t].inst = i => router[i] = 0 \/ Overlapped(i)
RoomsOverwritten == \A i \in Instances : Single(i)

\* What a step may do to the sockets and to the routers.
Stays == crossed \subseteq crossed' /\ \A s \in Sockets : link[s].inst \in {None, link'[s].inst}
OnlyCloses ==
  \A i \in Instances : \/ router'[i] = router[i] /\ running'[i] = running[i]
                       \/ router'[i] = 0 /\ running'[i] \subseteq running[i] \ {router[i]}

\* A handler that claims the room did so before, or finds that there is no router.
ClaimedBy(t) ==
  LET n == task'[t]
  IN  Claims(n) => \/ Claims(task[t]) /\ n.inst = task[t].inst
                   \/ n.inst \in Instances => router'[n.inst] = 0

\* Joins that overlapped have overlapped.
LEMMA OverlappedStays ==
  ASSUME MediaShape, Stays, NEW i \in Instances, Overlapped(i) PROVE Overlapped(i)'
<1>1. PICK s, r \in crossed : s # r /\ link[s].inst = i /\ link[r].inst = i
  BY DEF Overlapped
<1>2. s \in Sockets /\ r \in Sockets /\ s \in crossed' /\ r \in crossed'
  BY DEF MediaShape, MediaTypeOK, Stays
<1>3. link'[s].inst = i /\ link'[r].inst = i
  BY <1>1, <1>2, MediaAssumption DEF Stays
<1> QED
  BY <1>1, <1>2, <1>3 DEF Overlapped

\* A step that makes no router overwrites none.
LEMMA ClaimsStep ==
  ASSUME MediaShape, RoomsOverwritten, Stays, OnlyCloses, \A t \in Tasks : ClaimedBy(t)
  PROVE  RoomsOverwritten'
<1> SUFFICES ASSUME NEW i \in Instances PROVE Single(i)'
  BY DEF RoomsOverwritten, Single, Overwritten, Overlapped
<1>1. Single(i) /\ (Overlapped(i) => Overlapped(i)')
  BY OverlappedStays DEF RoomsOverwritten
<1>2. 0 \notin running'[i] /\ (Overwritten(i)' # {} => Overlapped(i)')
  BY <1>1 DEF Single, OnlyCloses, Overwritten
<1>3. ASSUME NEW t \in Tasks, Claims(task'[t]), task'[t].inst = i
      PROVE  router'[i] = 0 \/ Overlapped(i)'
  <2>1. CASE Claims(task[t]) /\ task[t].inst = i
    BY <1>1, <2>1 DEF Single, OnlyCloses
  <2>2. CASE router'[i] = 0
    BY <2>2
  <2> QED
    BY <1>3, <2>1, <2>2 DEF ClaimedBy
<1> QED
  BY <1>2, <1>3 DEF Single, Claims

\* A handler that takes a session out claims the room only if it has no router.
LEMMA RemovalClaims ==
  ASSUME MediaShape, NEW t \in Tasks, NEW h, Removal(t, h), UNCHANGED rooms
  PROVE  OnlyCloses /\ \A g \in Tasks : ClaimedBy(g)
<1>1. OthersSame(t) /\ UNCHANGED <<router, running>>
  BY DEF Removal, Waits, TakesOut, rooms
<1>2. NoTask.op = "none"
  BY DEF NoTask
<1>3. CASE Waits(t, h)
  BY <1>1, <1>3 DEF Waits, OthersSame, ClaimedBy, Claims, OnlyCloses
<1>4. CASE TakesOut(t, h)
  <2>1. Claims(task'[t]) => router[task'[t].inst] = 0
    BY <1>2, <1>4 DEF TakesOut, Follows, Serves, Claims
  <2> QED
    BY <1>1, <2>1 DEF OthersSame, ClaimedBy, OnlyCloses
<1> QED
  BY <1>3, <1>4 DEF Removal

\* The same of a handler that starts.
LEMMA StartClaims ==
  ASSUME MediaShape, NEW t \in Tasks, NEW op \in RemovalOps, NEW s \in Sockets \cup {None},
         op = "join" => s \in Sockets, NEW i \in Instances, NEW u \in Users,
         BeginRemoval(t, Spawn(op, s, i, u)), UNCHANGED rooms
  PROVE  OnlyCloses /\ \A g \in Tasks : ClaimedBy(g)
BY StartEffect, RemovalClaims

\* The handlers that start: a client comes or goes, or a webhook removes a member.
LEMMA StartsClaim ==
  ASSUME MediaShape, LinksKept, RoomsOverwritten, NEW t \in Tasks,
         \/ \E s \in Sockets : LeaveRoom(t, s) \/ Disconnect(t, s)
         \/ \E i \in Instances, u \in Users : KickPeer(t, i, u) \/ OtherRoom(t, i, u)
         \/ \E s \in Sockets, i \in Instances, u \in Users : Join(t, s, i, u)
  PROVE  RoomsOverwritten'
<1>1. {"leave", "kick", "move", "join"} \subseteq RemovalOps
  BY DEF RemovalOps
<1>2. ASSUME NEW s \in Sockets, LeaveRoom(t, s) \/ Disconnect(t, s) PROVE RoomsOverwritten'
  <2>1. link[s].user \in Users /\ link[s].inst \in Instances
    BY <1>2 DEF LeaveRoom, Disconnect, MediaShape, LinksShaped
  <2>2. Stays
    BY <1>2, EventMoves DEF Moves, LinkMoves, Stays, LeaveRoom, Disconnect, Crosses
  <2>3. BeginRemoval(t, Spawn("leave", s, link[s].inst, link[s].user)) /\ UNCHANGED rooms
    BY <1>2 DEF LeaveRoom, Disconnect
  <2> QED
    BY <1>1, <2>1, <2>2, <2>3, StartClaims, ClaimsStep
<1>3. ASSUME NEW i \in Instances, NEW u \in Users, KickPeer(t, i, u) PROVE RoomsOverwritten'
  <2>1. BeginRemoval(t, Spawn("kick", None, i, u)) /\ UNCHANGED rooms /\ Stays
    BY <1>3 DEF KickPeer, Crosses, Stays
  <2> QED
    BY <1>1, <2>1, StartClaims, ClaimsStep
<1>4. ASSUME NEW s \in Sockets, NEW i \in Instances, NEW u \in Users, Join(t, s, i, u)
      PROVE  RoomsOverwritten'
  <2>1. BeginRemoval(t, Spawn("join", s, i, u)) /\ UNCHANGED rooms
    BY <1>4 DEF Join
  <2>2. Stays
    BY <1>4 DEF Join, MediaShape, MediaTypeOK, LinksKept, NewLinks, Stays, Crosses
  <2> QED
    BY <1>1, <2>1, <2>2, StartClaims, ClaimsStep
<1>5. ASSUME NEW i \in Instances, NEW u \in Users, OtherRoom(t, i, u) PROVE RoomsOverwritten'
  <2>1. UNCHANGED rooms /\ Stays
    BY <1>5 DEF OtherRoom, Crosses, Stays
  <2>2. ASSUME NEW op \in {"move", "leave"}, BeginRemoval(t, Spawn(op, None, i, u))
        PROVE  RoomsOverwritten'
    BY <1>1, <2>1, <2>2, StartClaims, ClaimsStep
  <2>3. CASE UNCHANGED task
    <3>1. OnlyCloses /\ \A g \in Tasks : ClaimedBy(g)
      BY <2>1, <2>3 DEF OnlyCloses, ClaimedBy, rooms
    <3> QED
      BY <2>1, <3>1, ClaimsStep
  <2> QED
    BY <1>5, <2>2, <2>3 DEF OtherRoom
<1> QED
  BY <1>2, <1>3, <1>4, <1>5

\* The handlers that go on with a removal, and those that a member's transports need.
LEMMA RemovalsClaim ==
  ASSUME MediaShape, LinksKept, RoomsOverwritten, NEW t \in Tasks,
         Unpublish(t) \/ ForgetPeer(t) \/ TeardownNext(t)
  PROVE  RoomsOverwritten'
<1> DEFINE k == task[t]
<1>1. task \in [Tasks -> Task] /\ k \in Task /\ Shaped(k) /\ UNCHANGED <<rooms, crossed>>
  BY DEF MediaShape, MediaTypeOK, TasksShaped, Unpublish, ForgetPeer, TeardownNext
<1>2. Stays
  BY <1>1, RemovalSteps DEF Moves, LinkMoves, Stays
<1>3. CASE Unpublish(t)
  <2>1. Remover(k) /\ TakeOut(t, k)
    BY <1>1, <1>3 DEF Unpublish, Awaits, Shaped, Remover
  <2> QED
    BY <1>1, <1>2, <2>1, TakeOutEffect, RemovalClaims, ClaimsStep DEF Removal
<1>4. ASSUME NEW n, task' = [task EXCEPT ![t] = n], ~ Claims(n) PROVE RoomsOverwritten'
  <2>1. OnlyCloses /\ \A g \in Tasks : ClaimedBy(g)
    BY <1>1, <1>4 DEF OnlyCloses, ClaimedBy, rooms
  <2> QED
    BY <1>2, <2>1, ClaimsStep
<1>5. CASE ForgetPeer(t)
  <2>1. k.pc = "forget" /\ k.inst \in Instances /\ k.user \in Users /\ k.held \in Sockets
    BY <1>1, <1>5 DEF ForgetPeer, Awaits, Shaped
  <2>2. CASE BeginRemoval(t, Spawn("leave", k.held, k.inst, k.user))
    BY <1>1, <1>2, <2>1, <2>2, StartClaims, ClaimsStep DEF RemovalOps
  <2>3. CASE Goes(t, "next")
    <3>1. ~ Claims([k EXCEPT !.pc = "next"])
      BY <1>1 DEF Claims, Task
    <3> QED
      BY <1>4, <2>3, <3>1 DEF Goes
  <2>4. CASE Ends(t)
    BY <1>4, <2>4 DEF Ends, Claims, NoTask
  <2> QED
    BY <1>5, <2>2, <2>3, <2>4 DEF ForgetPeer
<1>6. CASE TeardownNext(t)
  <2>1. k.pc = "next" /\ k.op = "teardown" /\ k.inst \in Instances /\ k.todo \in SUBSET Users
    BY <1>1, <1>6 DEF TeardownNext, Awaits, Shaped, Task
  <2>2. ASSUME NEW u \in k.todo, BeginRemoval(t, [k EXCEPT !.user = u, !.todo = @ \ {u}])
        PROVE  RoomsOverwritten'
    <3> DEFINE h == [k EXCEPT !.user = u, !.todo = @ \ {u}]
    <3>1. h \in Task /\ h.op = "teardown" /\ h.inst \in Instances /\ h.user \in Users
      BY <1>1, <2>1 DEF Task
    <3>2. Remover(h) /\ BeginRemoval(t, h)
      BY <2>2, <3>1 DEF Remover, RemovalOps
    <3> HIDE DEF h
    <3> QED
      BY <1>1, <1>2, <3>2, BeginRemovalEffect, RemovalClaims, ClaimsStep
  <2>3. ASSUME task' = [task EXCEPT ![t] = [k EXCEPT !.pc = "release", !.read = owner,
  !.yes = TRUE]]
        PROVE  RoomsOverwritten'
    <3>1. ~ Claims([k EXCEPT !.pc = "release", !.read = owner, !.yes = TRUE])
      BY <1>1 DEF Claims, Task
    <3> QED
      BY <1>4, <2>3, <3>1
  <2> QED
    BY <1>6, <2>2, <2>3 DEF TeardownNext
<1> QED
  BY <1>3, <1>5, <1>6

\* The handlers that neither take a session out nor make a router.
LEMMA OthersClaim ==
  ASSUME MediaShape, LinksKept, RoomsOverwritten, NEW t \in Tasks,
         \/ ReleaseRoom(t) \/ CloseRoom(t) \/ WipeRedis(t) \/ Cached(t) \/ Owned(t)
         \/ CountPeers(t) \/ Cleared(t) \/ Claimed(t) \/ Reread(t) \/ WrongInstance(t)
         \/ LookupAgain(t) \/ SavePeer(t) \/ AddProducer(t)
  PROVE  RoomsOverwritten'
<1> DEFINE k == task[t]
           n == task'[t]
<1>1. /\ task \in [Tasks -> Task] /\ k \in Task /\ Shaped(k) /\ NoTask.op = "none"
      /\ router \in [Instances -> Nat] /\ running \in [Instances -> SUBSET Nat]
  BY DEF MediaShape, MediaTypeOK, TasksShaped, NoTask
<1>2. Quiet(t)
  BY QuietSteps
<1>3. Stays
  BY <1>2 DEF Quiet, Stays, ReleaseRoom, CloseRoom, WipeRedis, Cached, Owned, CountPeers, Cleared,
     Claimed, Reread, WrongInstance, LookupAgain, SavePeer, AddProducer
<1>4. OthersSame(t) /\ (n = NoTask \/ n.inst = k.inst)
  BY <1>2 DEF Quiet, HeldBy
<1>5. ASSUME NEW i, CloseRouter(i) PROVE OnlyCloses
  BY <1>1, <1>5 DEF CloseRouter, OnlyCloses
<1>6. OnlyCloses
  BY <1>5 DEF OnlyCloses, rooms, ReleaseRoom, CloseRoom, WipeRedis, Cached, Owned, CountPeers,
     Cleared, Claimed, Reread, WrongInstance, LookupAgain, SavePeer, AddProducer
<1>7. ASSUME Claims(n), ~ Claims(k), n.inst \in Instances PROVE router'[n.inst] = 0
  <2>1. k.inst = n.inst /\ n # NoTask
    BY <1>1, <1>4, <1>7 DEF Claims
  <2>2. CASE Cached(t) /\ CloseRouter(k.inst)
    BY <1>1, <1>7, <2>1, <2>2 DEF CloseRouter
  <2>3. ASSUME NEW pc, Goes(t, pc), pc \in {"save", "close", "wipe", "forget",
  "enter"} PROVE FALSE
    BY <1>1, <1>7, <2>3 DEF Goes, Claims, Task
  <2>4. CASE LookupAgain(t)
    <3> DEFINE pc == IF router[k.inst] # 0 THEN "cached" ELSE "owned"
               new == [k EXCEPT !.read = owner, !.rtr = router[k.inst], !.pc = pc]
    <3>1. k.op = "join" /\ UNCHANGED router
      BY <1>1, <2>4 DEF LookupAgain, Awaits, Shaped, JoinPcs, rooms
    <3>2. n = new
      BY <1>1, <2>4, <3>1 DEF LookupAgain, AfterRemoval
    <3>3. n.pc = pc
      BY <1>1, <3>2 DEF Task
    <3> QED
      BY <1>7, <2>1, <3>1, <3>3 DEF Claims
  <2>5. CASE Cached(t) /\ Goes(t, "save")
    BY <2>3, <2>5
  <2>6. CASE Owned(t) \/ CountPeers(t) \/ Cleared(t) \/ Claimed(t) \/ Reread(t)
    <3>1. k.pc \in JoinPcs /\ k.pc \in {"owned", "count", "cleared", "claim", "reread"}
      BY <2>6 DEF Owned, CountPeers, Cleared, Claimed, Reread, Awaits, JoinPcs
    <3> QED
      BY <1>1, <1>7, <3>1 DEF Shaped, Claims
  <2>7. CASE WrongInstance(t)
    <3>1. n = [k EXCEPT !.pc = "lookup", !.again = TRUE]
      BY <1>1, <2>1, <2>7 DEF WrongInstance, Ends
    <3> QED
      BY <1>1, <1>7, <3>1 DEF Claims, Task
  <2>8. CASE WipeRedis(t) \/ AddProducer(t)
    BY <1>1, <2>1, <2>8 DEF WipeRedis, AddProducer, Ends
  <2>9. CASE ReleaseRoom(t) \/ CloseRoom(t) \/ SavePeer(t)
    BY <2>3, <2>9 DEF ReleaseRoom, CloseRoom, SavePeer, Released
  <2> QED
    BY <2>2, <2>4, <2>5, <2>6, <2>7, <2>8, <2>9 DEF Cached
<1>8. \A g \in Tasks : ClaimedBy(g)
  BY <1>1, <1>4, <1>7 DEF ClaimedBy, OthersSame, Claims
<1> QED
  BY <1>3, <1>6, <1>8, ClaimsStep

\* A router that is made overwrites another only if the join overlapped one: whoever else is
\* about to make one, or made it since this join looked, joined at the same time.
LEMMA CreateOverwrites ==
  ASSUME MediaShape, LinksKept, RoomServed, RoomsOverwritten, NEW t \in Tasks, CreateRouter(t)
  PROVE  RoomsOverwritten'
<1> DEFINE k == task[t]
           r == routers + 1
<1>0. task[t].inst \in Instances
  BY DEF CreateRouter, Awaits, MediaShape, TasksShaped, Shaped
<1> SUFFICES ASSUME NEW i \in Instances, task[t].inst = i PROVE RoomsOverwritten'
  BY <1>0
<1>1. /\ k \in Task /\ k.pc = "create" /\ k.op = "join" /\ k.sock \in Sockets
      /\ UNCHANGED <<link, crossed>>
  BY DEF CreateRouter, Awaits, MediaShape, MediaTypeOK, TasksShaped, Shaped, JoinPcs
<1>2. r \in Nat /\ r # 0 /\ 0 \notin running[i]
  BY <1>1 DEF MediaShape, MediaTypeOK, RoomsOverwritten, Single
<1>3. /\ router'[i] = r /\ running'[i] = running[i] \cup {r}
      /\ \A j \in Instances \ {i} : router'[j] = router[j] /\ running'[j] = running[j]
      /\ task'[t].pc = "save" /\ \A g \in Tasks \ {t} : task'[g] = task[g]
  BY <1>1 DEF CreateRouter, MediaShape, MediaTypeOK, Task
<1>4. \A j \in Instances : Overlapped(j) <=> Overlapped(j)'
  BY <1>1 DEF Overlapped
<1>5. Claims(k) /\ Single(i)
  BY <1>1 DEF Claims, RoomsOverwritten
<1>6. ASSUME NEW g \in Tasks \ {t}, Claims(task[g]), task[g].inst = i PROVE Overlapped(i)
  <2>1. task[g].op \in RemovalOps /\ k.op \in RemovalOps /\ Joins(g) /\ Joins(t)
    BY <1>1, <1>6 DEF Claims, RemovalOps, Joins
  <2>2. task[g].sock \in crossed /\ k.sock \in crossed
    BY <2>1 DEF RoomServed, MembersServed, JoinsApart
  <2>3. task[g].sock # k.sock
    BY <1>6, <2>1 DEF LinksKept, OneJoin
  <2>4. link[task[g].sock].inst = i /\ link[k.sock].inst = i
    BY <1>6, <2>1 DEF LinksKept, JoinLinks
  <2> QED
    BY <2>2, <2>3, <2>4 DEF Overlapped
<1>7. Overwritten(i)' # {} => Overlapped(i)
  <2>1. CASE router[i] = 0
    BY <1>2, <1>3, <1>5, <2>1 DEF Single, Overwritten
  <2>2. CASE Overlapped(i)
    BY <2>2
  <2> QED
    BY <1>5, <2>1, <2>2 DEF Single
<1> HIDE DEF r, k
<1>8. Single(i)'
  <2> SUFFICES ASSUME NEW g \in Tasks, Claims(task'[g]), task'[g].inst = i PROVE Overlapped(i)
    BY <1>2, <1>3, <1>4, <1>7, <1>1 DEF Single, Claims
  <2>1. g # t
    BY <1>3 DEF Claims
  <2> QED
    BY <1>3, <1>6, <2>1
<1>9. ASSUME NEW j \in Instances \ {i} PROVE Single(j)'
  <2>1. Single(j)
    BY DEF RoomsOverwritten
  <2>2. ASSUME NEW g \in Tasks, Claims(task'[g]), task'[g].inst = j
        PROVE  router[j] = 0 \/ Overlapped(j)
    <3>1. g # t
      BY <1>3, <2>2 DEF Claims
    <3> QED
      BY <1>3, <2>1, <2>2, <3>1 DEF Single
  <2> QED
    BY <1>3, <1>4, <2>1, <2>2 DEF Single, Overwritten, Claims
<1> QED
  BY <1>8, <1>9 DEF RoomsOverwritten, Single, Overwritten, Overlapped

\* A handler that begins or ends something else, and a process that dies.
LEMMA RestClaims ==
  ASSUME MediaShape, LinksKept, RoomsOverwritten,
         \/ \E t \in Tasks : \/ Enter(t) \/ MakeTransport(t)
                             \/ \E s \in Sockets : CreateTransport(t, s) \/ Produce(t, s)
                             \/ \E i \in Instances : TeardownRoom(t, i)
         \/ \E s \in Sockets : CloseProducer(s)
         \/ \E i \in Instances : Crash(i)
         \/ UNCHANGED mediaVars
  PROVE  RoomsOverwritten'
<1>1. /\ task \in [Tasks -> Task] /\ link \in [Sockets -> Link] /\ NoTask.op = "none"
      /\ router \in [Instances -> Nat] /\ running \in [Instances -> SUBSET Nat]
  BY DEF MediaShape, MediaTypeOK, NoTask
<1>2. ASSUME NEW t \in Tasks, NEW n, task' = [task EXCEPT ![t] = n], n.op # "join",
             UNCHANGED rooms, Stays
      PROVE  RoomsOverwritten'
  <2>1. OnlyCloses /\ \A g \in Tasks : ClaimedBy(g)
    BY <1>1, <1>2 DEF OnlyCloses, ClaimedBy, Claims, rooms
  <2> QED
    BY <1>2, <2>1, ClaimsStep
<1>3. CASE UNCHANGED mediaVars \/ \E s \in Sockets : CloseProducer(s)
  <2>1. UNCHANGED <<link, router, running, task, crossed>>
    BY <1>3 DEF mediaVars, rooms, CloseProducer
  <2> QED
    BY <2>1 DEF RoomsOverwritten, Single, Overwritten, Overlapped, Claims
<1>4. ASSUME NEW t \in Tasks, Enter(t) \/ MakeTransport(t) PROVE RoomsOverwritten'
  <2>1. Ends(t) /\ UNCHANGED <<rooms, crossed>>
    BY <1>4 DEF Enter, MakeTransport
  <2>2. Stays
    BY <1>1, <1>4, <2>1 DEF Enter, MakeTransport, Stays, Link
  <2> QED
    BY <1>1, <1>2, <2>1, <2>2 DEF Ends
<1>5. ASSUME NEW t \in Tasks, NEW s \in Sockets, CreateTransport(t, s) \/ Produce(t, s)
      PROVE  RoomsOverwritten'
  <2>1. UNCHANGED rooms /\ Stays
    BY <1>5 DEF CreateTransport, Produce, Stays
  <2> DEFINE i == link[s].inst
             u == link[s].user
             make == [Spawn("transport", s, i, u) EXCEPT
                        !.pc = "make", !.held = present[i][u], !.rtr = router[i]]
             send == [Spawn("produce", s, i, u) EXCEPT !.pc = "produce", !.held = present[i][u]]
  <2>2. make.op = "transport" /\ send.op = "produce"
    BY DEF Spawn, NoTask
  <2>3. task' = [task EXCEPT ![t] = make] \/ task' = [task EXCEPT ![t] = send]
    BY <1>5 DEF CreateTransport, Produce
  <2> HIDE DEF make, send
  <2> QED
    BY <1>2, <2>1, <2>2, <2>3
<1>6. ASSUME NEW t \in Tasks, NEW i \in Instances, TeardownRoom(t, i) PROVE RoomsOverwritten'
  <2>1. UNCHANGED rooms /\ Stays
    BY <1>6 DEF TeardownRoom, Stays
  <2> DEFINE new == [Spawn("teardown", None, i, None) EXCEPT !.pc = "next", !.todo = members[i]]
  <2>2. new.op = "teardown" /\ task' = [task EXCEPT ![t] = new]
    BY <1>6 DEF TeardownRoom, Spawn, NoTask
  <2> HIDE DEF new
  <2> QED
    BY <1>2, <2>1, <2>2
<1>7. ASSUME NEW i \in Instances, Crash(i) PROVE RoomsOverwritten'
  <2>1. Stays
    BY <1>1, <1>7 DEF Crash, Stays, Link
  <2>2. OnlyCloses
    BY <1>1, <1>7 DEF Crash, OnlyCloses
  <2>3. \A g \in Tasks : ClaimedBy(g)
    BY <1>1, <1>7 DEF Crash, ClaimedBy, Claims
  <2> QED
    BY <2>1, <2>2, <2>3, ClaimsStep
<1> QED
  BY <1>3, <1>4, <1>5, <1>6, <1>7

\* No step overwrites a router unless two joins overlapped.
LEMMA RoomsOverwrittenNext ==
  ASSUME MediaShape, LinksKept, RoomServed, RoomsOverwritten, [MediaNext]_mediaVars
  PROVE  RoomsOverwritten'
<1>1. ASSUME NEW t \in Tasks, MediaStep(t) PROVE RoomsOverwritten'
  BY <1>1, RemovalsClaim, OthersClaim, CreateOverwrites, RestClaims DEF MediaStep
<1>2. ASSUME NEW t \in Tasks,
             \/ \E s \in Sockets : LeaveRoom(t, s) \/ Disconnect(t, s)
             \/ \E i \in Instances, u \in Users : KickPeer(t, i, u) \/ OtherRoom(t, i, u)
             \/ \E s \in Sockets, i \in Instances, u \in Users : Join(t, s, i, u)
      PROVE  RoomsOverwritten'
  BY <1>2, StartsClaim
<1> QED
  BY <1>1, <1>2, RestClaims DEF MediaNext

\* The routers that run on an instance: the one in localRooms, kept for somebody, and those
\* that overlapping joins overwrote.
RoutersAccounted == RoomsOverwritten /\ RoomKept

\* Behaviour covered: getOrCreateLocalRoom, removeSession and releaseRoom of rtc-service. Each
\* router that runs on an instance is the one in localRooms, unless two joins of the instance
\* overlapped and one overwrote the other's; and localRooms has one only while a member is
\* listed or a handler is about to enter or close it, or since the last member joined another
\* room.
THEOREM RoutersKept == MediaSpec => []RoutersAccounted
<1>1. MediaInit => RoomsOverwritten
  BY DEF MediaInit, NoTask, RoomsOverwritten, Single, Overwritten, Claims
<1>2. MediaShape /\ LinksKept /\ RoomServed /\ RoomsOverwritten /\ [MediaNext]_mediaVars
      => RoomsOverwritten'
  BY RoomsOverwrittenNext
<1>3. MediaSpec => []RoomsOverwritten
  BY <1>1, <1>2, MediaShapeHolds, LinksKeptHolds, RoomServedHolds, PTL DEF MediaSpec
<1>4. RoomsOverwritten /\ RoomKept => RoutersAccounted
  BY DEF RoutersAccounted
<1> QED
  BY <1>3, <1>4, RoomKeptHolds, PTL

\* Behaviour covered: removeSession and releaseRoom of rtc-service. On an instance that lists
\* nobody and runs no handler, no router runs, except that of a room whose last member joined
\* another one and those that overlapping joins overwrote in localRooms.
THEOREM EmptyRooms == MediaSpec => []EmptyRoomClosed
<1>1. RoutersAccounted => EmptyRoomClosed
  BY DEF RoutersAccounted, RoomsOverwritten, Single, RoomKept, Kept, Keeps, EmptyRoomClosed,
     MediaIdle
<1> QED
  BY <1>1, RoutersKept, PTL

=============================================================================
