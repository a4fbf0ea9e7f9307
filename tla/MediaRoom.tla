----------------------------- MODULE MediaRoom -----------------------------
(***************************************************************************)
(* One call room of the media service, apps/rtc-service: the router and    *)
(* the peer sessions each instance keeps in memory, the owner key and the  *)
(* peer set in Redis, and the handlers of socket events and webhooks.      *)
(*                                                                         *)
(* An instance is a single thread: a step is what a handler does between   *)
(* two awaits, the command it sends to Redis or to mediasoup at its end    *)
(* included. What the command answered is used in the next step, whatever  *)
(* ran in between. A session object is named by the socket it was made     *)
(* for, and has one send transport and one microphone producer. Of other    *)
(* rooms only what they do to this one is modelled: sessions are kept by    *)
(* user, so that a join or a removal there may take out a session here.     *)
(***************************************************************************)
EXTENDS Accounts, Naturals, FiniteSets

CONSTANTS
  Instances,   \* rtc-service processes, by RTC_INSTANCE_ID
  Sockets,     \* Socket.IO connections of the users
  Tasks,       \* slots for handlers that are running
  MaxIncidents, \* bound: webhooks of the API server, users in other rooms, crashes
  MaxCrashes    \* bound: processes that die and are started again, of these

ASSUME MediaAssumption ==
  /\ None \notin Instances \cup Sockets
  /\ MaxIncidents \in Nat /\ MaxCrashes \in Nat

VARIABLES
  link,       \* each socket: its state, user and instance
  owner,      \* rtc:room:{id}:owner
  peers,      \* rtc:room:{id}:peers
  router,     \* localRooms of each instance: the number of its router, or 0
  routers,    \* routers made so far
  running,    \* routers of each instance that are not closed
  present,    \* sessions of each instance: by user, the session object
  members,    \* roomMembers of each instance
  transport,  \* of a session object: the router its transport is on, or 0
  producing,  \* session objects with a live producer
  deserted,   \* history: instances whose last member joined another room, and
              \* where nobody came or released the router since
  task,       \* what the running handlers do
  orphans,    \* history: sockets that closed while their join was running
  crossed,    \* history: sockets whose join overlapped another handler, or
              \* whose room was torn down on another instance
  webhooks, moves, crashes  \* counters for the bounds

redisKeys == <<owner, peers>>
rooms == <<router, routers, running>>
sessions == <<present, members, transport, producing, deserted>>
bounds == <<webhooks, moves, crashes>>
mediaVars == <<link, redisKeys, rooms, sessions, task, orphans, crossed, bounds>>

TaskPcs == {"free", "unpublish", "lookup", "cached", "owned", "count", "cleared", "claim",
            "reread", "wrong", "create", "save", "enter", "make", "produce",
            "release", "close", "forget", "next", "wipe"}
TaskOps == {"join", "leave", "kick", "teardown", "move", "transport", "produce"}
NoTask == [pc |-> "free", op |-> "none", sock |-> None, inst |-> None,
           user |-> None, held |-> None, read |-> None, yes |-> FALSE,
           rtr |-> 0, again |-> FALSE, todo |-> {}]

Link == [state : {"new", "open", "joined", "ready", "left", "closed"},
         user : Users \cup {None}, inst : Instances \cup {None}]
Task == [pc : TaskPcs, op : TaskOps \cup {"none"}, sock : Sockets \cup {None},
         inst : Instances \cup {None}, user : Users \cup {None},
         held : Sockets \cup {None}, read : Instances \cup {None},
         yes : BOOLEAN, rtr : Nat, again : BOOLEAN, todo : SUBSET Users]

MediaTypeOK ==
  /\ link \in [Sockets -> Link]
  /\ owner \in Instances \cup {None}
  /\ peers \in SUBSET Users
  /\ router \in [Instances -> Nat] /\ routers \in Nat
  /\ running \in [Instances -> SUBSET Nat]
  /\ present \in [Instances -> [Users -> Sockets \cup {None}]]
  /\ members \in [Instances -> SUBSET Users]
  /\ transport \in [Sockets -> Nat]
  /\ producing \in SUBSET Sockets /\ deserted \in SUBSET Instances
  /\ task \in [Tasks -> Task]
  /\ orphans \in SUBSET Sockets /\ crossed \in SUBSET Sockets
  /\ webhooks \in Nat /\ moves \in Nat /\ crashes \in Nat

MediaInit ==
  /\ link = [s \in Sockets |-> [state |-> "new", user |-> None, inst |-> None]]
  /\ owner = None /\ peers = {}
  /\ router = [i \in Instances |-> 0] /\ routers = 0
  /\ running = [i \in Instances |-> {}]
  /\ present = [i \in Instances |-> [u \in Users |-> None]]
  /\ members = [i \in Instances |-> {}]
  /\ transport = [s \in Sockets |-> 0]
  /\ producing = {} /\ deserted = {}
  /\ task = [t \in Tasks |-> NoTask]
  /\ orphans = {} /\ crossed = {}
  /\ webhooks = 0 /\ moves = 0 /\ crashes = 0

-----------------------------------------------------------------------------
Awaits(t, pc) == task[t].pc = pc
MediaIdle(i) == \A t \in Tasks : task[t].inst # i
Goes(t, pc) == task' = [task EXCEPT ![t].pc = pc]
Ends(t) == task' = [task EXCEPT ![t] = NoTask]
Spawn(op, s, i, u) ==
  [NoTask EXCEPT !.op = op, !.sock = s, !.inst = i, !.user = u]

\* A router that closes closes its transports, and they their producers.
CloseRouter(i) ==
  LET cut == {s \in Sockets : transport[s] = router[i] /\ router[i] # 0}
  IN  /\ running' = [running EXCEPT ![i] = @ \ {router[i]}]
      /\ router' = [router EXCEPT ![i] = 0]
      /\ transport' = [s \in Sockets |-> IF s \in cut THEN 0 ELSE transport[s]]
      /\ producing' = producing \ cut
      /\ deserted' = deserted \ {i}

ClearRedis == owner' = None /\ peers' = {}

-----------------------------------------------------------------------------
(* removeSession, the part of join, leave, disconnect, kick and teardown    *)
(* that takes a session out. The events of its producers are published      *)
(* first; then it takes out whatever session the user has by then, and the  *)
(* user from roomMembers: last says that nobody else was left there. Whoever *)
(* joins another room is taken out without a release, and forgotten nowhere. *)

\* Fault variant: whoever goes releases the room.
AfterAnyRemoval(t, k, gone, last) ==
  task' = [task EXCEPT ![t] =
    CASE k.op = "join" ->
           [k EXCEPT !.read = owner, !.rtr = router[k.inst],
                     !.pc = IF router[k.inst] # 0 THEN "cached" ELSE "owned"]
      [] k.op = "move" -> NoTask
      [] k.op \in {"leave", "kick", "teardown"} /\ gone ->
           [k EXCEPT !.pc = "release", !.read = owner]
      [] k.op = "teardown" /\ ~ gone -> [k EXCEPT !.pc = "next"]
      [] k.op \in {"leave", "kick"} /\ ~ gone -> NoTask]

\* What follows, each with its first command: a join looks the room up; the
\* others read the owner if they emptied the room, or drop the peer.
AfterRemoval(t, k, gone, last) ==
  task' = [task EXCEPT ![t] =
    CASE k.op = "join" ->
           [k EXCEPT !.read = owner, !.rtr = router[k.inst],
                     !.pc = IF router[k.inst] # 0 THEN "cached" ELSE "owned"]
      [] k.op = "move" -> NoTask
      [] k.op \in {"leave", "kick", "teardown"} /\ gone ->
           IF last THEN [k EXCEPT !.pc = "release", !.read = owner]
                   ELSE [k EXCEPT !.pc = "forget"]
      [] k.op = "teardown" /\ ~ gone -> [k EXCEPT !.pc = "next"]
      [] k.op \in {"leave", "kick"} /\ ~ gone -> NoTask]

TakeOut(t, k) ==
  LET gone == k.held # None
      last == members[k.inst] = {k.user}
      left == gone /\ last /\ k.op = "move" /\ router[k.inst] # 0
  IN  /\ IF gone
           THEN /\ present' = [present EXCEPT ![k.inst][k.user] = None]
                /\ members' = [members EXCEPT ![k.inst] = @ \ {k.user}]
                /\ transport' = [transport EXCEPT ![k.held] = 0]
                /\ producing' = producing \ {k.held}
                /\ deserted' = IF left THEN deserted \cup {k.inst} ELSE deserted
           ELSE UNCHANGED sessions
      /\ AfterRemoval(t, k, gone, last)

\* Without a producer nothing is awaited before the session is taken out.
BeginRemoval(t, k) ==
  LET held == [k EXCEPT !.held = present[k.inst][k.user]]
  IN  \/ /\ held.held \in producing
         /\ task' = [task EXCEPT ![t] = [held EXCEPT !.pc = "unpublish"]]
         /\ UNCHANGED sessions
      \/ held.held \notin producing /\ TakeOut(t, held)

Unpublish(t) ==
  /\ Awaits(t, "unpublish")
  /\ TakeOut(t, task[t])
  /\ UNCHANGED <<link, redisKeys, rooms, orphans, crossed, bounds>>

Released(k) == IF k.yes THEN "wipe" ELSE "forget"

\* Fault variant: an instance that lost the key leaves its room alone.
ReleaseOwnedRoom(t) ==
  LET k == task[t]
  IN  /\ Awaits(t, "release")
      /\ \/ k.read = k.inst /\ ClearRedis /\ Goes(t, "close")
         \/ k.read # k.inst /\ Goes(t, Released(k)) /\ UNCHANGED redisKeys
      /\ UNCHANGED <<link, rooms, sessions, orphans, crossed, bounds>>

\* releaseRoom: the keys are cleared if this instance still owns them.
ReleaseRoom(t) ==
  LET k == task[t]
  IN  /\ Awaits(t, "release")
      /\ \/ k.read = k.inst /\ ClearRedis /\ Goes(t, "close") /\ UNCHANGED <<rooms, sessions>>
         \/ /\ k.read # k.inst
            /\ CloseRouter(k.inst) /\ Goes(t, Released(k))
            /\ UNCHANGED <<redisKeys, routers, present, members>>
      /\ UNCHANGED <<link, orphans, crossed, bounds>>

\* Fault variant: the keys are cleared and the router is kept.
CloseRoomKeys(t) ==
  /\ Awaits(t, "close")
  /\ Goes(t, Released(task[t]))
  /\ UNCHANGED <<link, redisKeys, rooms, sessions, orphans, crossed, bounds>>

CloseRoom(t) ==
  /\ Awaits(t, "close")
  /\ CloseRouter(task[t].inst) /\ Goes(t, Released(task[t]))
  /\ UNCHANGED <<link, redisKeys, routers, present, members, orphans, crossed, bounds>>

\* deletePeer. A kicked socket is then cut, which is a disconnect like others.
ForgetPeer(t) ==
  LET k == task[t]
      cut == k.op = "kick" /\ link[k.held].state # "closed"
  IN  /\ Awaits(t, "forget")
      /\ peers' = peers \ {k.user}
      /\ \/ cut /\ link' = [link EXCEPT ![k.held].state = "closed"]
            /\ BeginRemoval(t, Spawn("leave", k.held, k.inst, k.user))
         \/ k.op = "teardown" /\ Goes(t, "next") /\ UNCHANGED <<link, sessions>>
         \/ ~ cut /\ k.op # "teardown" /\ Ends(t) /\ UNCHANGED <<link, sessions>>
      /\ UNCHANGED <<owner, rooms, orphans, crossed, bounds>>

\* forceTeardownMediasoupRoom: the members it found, one after the other, then
\* the room; yes says that the members are done.
TeardownNext(t) ==
  LET k == task[t]
  IN  /\ Awaits(t, "next")
      /\ \/ /\ k.todo = {}
            /\ task' = [task EXCEPT ![t] = [k EXCEPT !.pc = "release", !.read = owner,
                                                     !.yes = TRUE]]
            /\ UNCHANGED sessions
         \/ \E u \in k.todo : BeginRemoval(t, [k EXCEPT !.user = u, !.todo = @ \ {u}])
      /\ UNCHANGED <<link, redisKeys, rooms, orphans, crossed, bounds>>

WipeRedis(t) ==
  /\ Awaits(t, "wipe")
  /\ ClearRedis /\ Ends(t)
  /\ UNCHANGED <<link, rooms, sessions, orphans, crossed, bounds>>

-----------------------------------------------------------------------------
(* Socket events                                                            *)

\* A handler that starts crosses every join that runs, and a join every handler.
CrossedBy(t, s) ==
  LET others == {g \in Tasks \ {t} : task[g].op \in {"join", "leave", "kick", "teardown", "move"}}
      joins == {task[g].sock : g \in {g \in others : task[g].op = "join"}}
  IN  joins \cup (IF others = {} THEN {} ELSE s)
Crosses(t, s) == crossed' = crossed \cup CrossedBy(t, s)

\* A client connects to an instance, and sends join once it is connected.
Join(t, s, i, u) ==
  /\ Awaits(t, "free") /\ link[s].state = "new"
  /\ link' = [link EXCEPT ![s] = [state |-> "open", user |-> u, inst |-> i]]
  /\ BeginRemoval(t, Spawn("join", s, i, u))
  /\ Crosses(t, {s})
  /\ UNCHANGED <<redisKeys, rooms, orphans, bounds>>

\* leave removes the session of the user; the socket stays.
LeaveRoom(t, s) ==
  /\ Awaits(t, "free") /\ link[s].state \in {"joined", "ready"}
  /\ link' = [link EXCEPT ![s].state = "left"]
  /\ BeginRemoval(t, Spawn("leave", s, link[s].inst, link[s].user))
  /\ Crosses(t, {})
  /\ UNCHANGED <<redisKeys, rooms, orphans, bounds>>

\* Fault variant: only a client with a transport is cleaned up after.
DisconnectReady(t, s) ==
  /\ Awaits(t, "free") /\ link[s].state \notin {"new", "closed"}
  /\ link' = [link EXCEPT ![s].state = "closed"]
  /\ orphans' = IF \E g \in Tasks : task[g].op = "join" /\ task[g].sock = s
                  THEN orphans \cup {s} ELSE orphans
  /\ IF link[s].state = "ready"
       THEN BeginRemoval(t, Spawn("leave", s, link[s].inst, link[s].user))
       ELSE UNCHANGED <<task, sessions>>
  /\ Crosses(t, {})
  /\ UNCHANGED <<redisKeys, rooms, bounds>>

\* The tab is closed, the client gives up, or a lost connection times out: for
\* whichever session the user has by then.
Disconnect(t, s) ==
  /\ Awaits(t, "free") /\ link[s].state \notin {"new", "closed"}
  /\ link' = [link EXCEPT ![s].state = "closed"]
  /\ orphans' = IF \E g \in Tasks : task[g].op = "join" /\ task[g].sock = s
                  THEN orphans \cup {s} ELSE orphans
  /\ BeginRemoval(t, Spawn("leave", s, link[s].inst, link[s].user))
  /\ Crosses(t, {})
  /\ UNCHANGED <<redisKeys, rooms, bounds>>

\* Fault variant: the room that is there is not looked for.
CachedAnew(t) ==
  /\ Awaits(t, "cached")
  /\ Goes(t, "owned")
  /\ UNCHANGED <<link, redisKeys, rooms, sessions, orphans, crossed, bounds>>

\* getOrCreateLocalRoom. A cached room is used if this instance owns the key.
Cached(t) ==
  LET k == task[t]
  IN  /\ Awaits(t, "cached")
      /\ \/ k.read = k.inst /\ Goes(t, "save") /\ UNCHANGED <<rooms, sessions>>
         \/ /\ k.read # k.inst
            /\ CloseRouter(k.inst)
            /\ task' = [task EXCEPT ![t] = [k EXCEPT !.pc = "owned", !.read = owner]]
            /\ UNCHANGED <<routers, present, members>>
      /\ UNCHANGED <<link, redisKeys, orphans, crossed, bounds>>

\* SET NX, or SCARD of the room of another instance.
Owned(t) ==
  LET k == task[t]
      claims == [k EXCEPT !.pc = "claim", !.yes = owner = None]
      counts == [k EXCEPT !.pc = "count", !.yes = peers = {}]
  IN  /\ Awaits(t, "owned")
      /\ \/ k.read = k.inst /\ Goes(t, "create") /\ UNCHANGED owner
         \/ /\ k.read = None
            /\ task' = [task EXCEPT ![t] = claims]
            /\ owner' = IF owner = None THEN k.inst ELSE owner
         \/ /\ k.read \notin {k.inst, None}
            /\ task' = [task EXCEPT ![t] = counts] /\ UNCHANGED owner
      /\ UNCHANGED <<link, peers, rooms, sessions, orphans, crossed, bounds>>

\* WRONG_INSTANCE: the first time, a room with nobody else in it is cleared.
Wrong(t, k) ==
  task' = [task EXCEPT ![t] =
             IF k.again THEN NoTask
                        ELSE [k EXCEPT !.pc = "wrong", !.yes = peers \subseteq {k.user}]]

CountPeers(t) ==
  LET k == task[t]
  IN  /\ Awaits(t, "count")
      /\ \/ k.yes /\ ClearRedis /\ Goes(t, "cleared")
         \/ ~ k.yes /\ Wrong(t, k) /\ UNCHANGED redisKeys
      /\ UNCHANGED <<link, rooms, sessions, orphans, crossed, bounds>>

Cleared(t) ==
  LET k == task[t]
  IN  /\ Awaits(t, "cleared")
      /\ task' = [task EXCEPT ![t] = [k EXCEPT !.pc = "claim", !.yes = owner = None]]
      /\ owner' = IF owner = None THEN k.inst ELSE owner
      /\ UNCHANGED <<link, peers, rooms, sessions, orphans, crossed, bounds>>

Claimed(t) ==
  LET k == task[t]
  IN  /\ Awaits(t, "claim")
      /\ task' = [task EXCEPT ![t] = IF k.yes THEN [k EXCEPT !.pc = "create"]
                                      ELSE [k EXCEPT !.pc = "reread", !.read = owner]]
      /\ UNCHANGED <<link, redisKeys, rooms, sessions, orphans, crossed, bounds>>

Reread(t) ==
  LET k == task[t]
  IN  /\ Awaits(t, "reread")
      /\ \/ k.read \in {k.inst, None} /\ Goes(t, "create")
         \/ k.read \notin {k.inst, None} /\ Wrong(t, k)
      /\ UNCHANGED <<link, redisKeys, rooms, sessions, orphans, crossed, bounds>>

WrongInstance(t) ==
  LET k == task[t]
  IN  /\ Awaits(t, "wrong")
      /\ \/ k.yes /\ ClearRedis
            /\ task' = [task EXCEPT ![t] = [k EXCEPT !.pc = "lookup", !.again = TRUE]]
         \/ ~ k.yes /\ Ends(t) /\ UNCHANGED redisKeys
      /\ UNCHANGED <<link, rooms, sessions, orphans, crossed, bounds>>

LookupAgain(t) ==
  /\ Awaits(t, "lookup")
  /\ AfterRemoval(t, task[t], FALSE, FALSE)
  /\ UNCHANGED <<link, redisKeys, rooms, sessions, orphans, crossed, bounds>>

\* The router is made, and is the local room, whatever that was before.
CreateRouter(t) ==
  LET i == task[t].inst
      r == routers + 1
  IN  /\ Awaits(t, "create")
      /\ routers' = r /\ running' = [running EXCEPT ![i] = @ \cup {r}]
      /\ router' = [router EXCEPT ![i] = r]
      /\ task' = [task EXCEPT ![t].pc = "save", ![t].rtr = r]
      /\ UNCHANGED <<link, redisKeys, sessions, orphans, crossed, bounds>>

\* Fault variant: peers are kept by socket.
SaveSocket(t) ==
  /\ Awaits(t, "save")
  /\ peers' = peers \cup {task[t].sock}
  /\ Goes(t, "enter")
  /\ UNCHANGED <<link, owner, rooms, sessions, orphans, crossed, bounds>>

SavePeer(t) ==
  /\ Awaits(t, "save")
  /\ peers' = peers \cup {task[t].user}
  /\ Goes(t, "enter")
  /\ UNCHANGED <<link, owner, rooms, sessions, orphans, crossed, bounds>>

Enter(t) ==
  LET k == task[t]
  IN  /\ Awaits(t, "enter")
      /\ present' = [present EXCEPT ![k.inst][k.user] = k.sock]
      /\ members' = [members EXCEPT ![k.inst] = @ \cup {k.user}]
      /\ deserted' = deserted \ {k.inst}
      /\ link' = [link EXCEPT ![k.sock].state = IF @ = "open" THEN "joined" ELSE @]
      /\ Ends(t)
      /\ UNCHANGED <<redisKeys, rooms, transport, producing, orphans, crossed, bounds>>

\* createWebRtcTransport and produce, for the session the user has.
CreateTransport(t, s) ==
  LET l == link[s]
      held == present[l.inst][l.user]
  IN  /\ Awaits(t, "free") /\ l.state = "joined"
      /\ held # None /\ router[l.inst] # 0
      /\ task' = [task EXCEPT ![t] = [Spawn("transport", s, l.inst, l.user) EXCEPT
                                        !.pc = "make", !.held = held, !.rtr = router[l.inst]]]
      /\ UNCHANGED <<link, redisKeys, rooms, sessions, orphans, crossed, bounds>>

MakeTransport(t) ==
  LET k == task[t]
  IN  /\ Awaits(t, "make")
      /\ transport' = IF k.rtr \in running[k.inst] THEN [transport EXCEPT ![k.held] = k.rtr]
                                                     ELSE transport
      /\ link' = IF k.rtr \in running[k.inst] /\ link[k.sock].state = "joined"
                   THEN [link EXCEPT ![k.sock].state = "ready"] ELSE link
      /\ Ends(t)
      /\ UNCHANGED <<redisKeys, rooms, present, members, producing, deserted, orphans, crossed,
                     bounds>>

Produce(t, s) ==
  LET l == link[s]
      held == present[l.inst][l.user]
  IN  /\ Awaits(t, "free") /\ l.state = "ready"
      /\ held # None /\ transport[held] # 0 /\ held \notin producing
      /\ task' = [task EXCEPT ![t] = [Spawn("produce", s, l.inst, l.user) EXCEPT
                                        !.pc = "produce", !.held = held]]
      /\ UNCHANGED <<link, redisKeys, rooms, sessions, orphans, crossed, bounds>>

AddProducer(t) ==
  LET k == task[t]
  IN  /\ Awaits(t, "produce")
      /\ producing' = IF transport[k.held] # 0 THEN producing \cup {k.held} ELSE producing
      /\ Ends(t)
      /\ UNCHANGED <<link, redisKeys, rooms, present, members, transport, deserted, orphans,
                     crossed, bounds>>

\* closeProducer
CloseProducer(s) ==
  LET held == present[link[s].inst][link[s].user]
  IN  /\ link[s].state = "ready" /\ held \in producing
      /\ producing' = producing \ {held}
      /\ UNCHANGED <<link, redisKeys, rooms, present, members, transport, deserted, task, orphans,
                     crossed, bounds>>

-----------------------------------------------------------------------------
(* Webhooks of the API server, to one instance, and crashes                 *)

Incident == webhooks + moves + crashes < MaxIncidents
Webhook == Incident /\ webhooks' = webhooks + 1 /\ UNCHANGED <<moves, crashes>>

KickPeer(t, i, u) ==
  /\ Awaits(t, "free") /\ present[i][u] # None /\ Webhook
  /\ BeginRemoval(t, Spawn("kick", None, i, u))
  /\ Crosses(t, {})
  /\ UNCHANGED <<link, redisKeys, rooms, orphans>>

\* The keys go, and the members on the other instances stay.
Elsewhere(i) == {s \in Sockets : \E j \in Instances \ {i}, u \in Users : present[j][u] = s}

TeardownRoom(t, i) ==
  /\ Awaits(t, "free") /\ Webhook
  /\ task' = [task EXCEPT ![t] = [Spawn("teardown", None, i, None) EXCEPT
                                    !.pc = "next", !.todo = members[i]]]
  /\ crossed' = crossed \cup CrossedBy(t, {}) \cup Elsewhere(i)
  /\ UNCHANGED <<link, redisKeys, rooms, sessions, orphans>>

\* A connection of the user to another room: it joins that room; it leaves it or
\* is lost, and takes out this room's session as if it were its own; or what ends
\* there read its own session before and deletes by user whichever is there by
\* now, while roomMembers of this room keeps the user.
OtherRoom(t, i, u) ==
  /\ Awaits(t, "free") /\ present[i][u] # None
  /\ Incident /\ moves' = moves + 1 /\ UNCHANGED <<webhooks, crashes>>
  /\ \/ /\ \E op \in {"move", "leave"} : BeginRemoval(t, Spawn(op, None, i, u))
        /\ Crosses(t, {})
     \/ /\ present' = [present EXCEPT ![i][u] = None]
        /\ UNCHANGED <<members, transport, producing, deserted, task, crossed>>
  /\ UNCHANGED <<link, redisKeys, rooms, orphans>>

\* The process and its sockets are gone; Redis keeps the keys for a day.
Crash(i) ==
  LET here == {s \in Sockets : link[s].inst = i}
  IN  /\ Incident /\ crashes < MaxCrashes /\ crashes' = crashes + 1
      /\ UNCHANGED <<webhooks, moves>>
      /\ router' = [router EXCEPT ![i] = 0]
      /\ running' = [running EXCEPT ![i] = {}]
      /\ present' = [present EXCEPT ![i] = [u \in Users |-> None]]
      /\ members' = [members EXCEPT ![i] = {}]
      /\ transport' = [s \in Sockets |-> IF s \in here THEN 0 ELSE transport[s]]
      /\ producing' = producing \ here
      /\ deserted' = deserted \ {i}
      /\ link' = [s \in Sockets |-> IF s \in here /\ link[s].state # "new"
                                      THEN [link[s] EXCEPT !.state = "closed"] ELSE link[s]]
      /\ task' = [t \in Tasks |-> IF task[t].inst = i THEN NoTask ELSE task[t]]
      /\ UNCHANGED <<redisKeys, routers, orphans, crossed>>

MediaStep(t) ==
  \/ Unpublish(t) \/ ReleaseRoom(t) \/ CloseRoom(t) \/ ForgetPeer(t)
  \/ TeardownNext(t) \/ WipeRedis(t)
  \/ Cached(t) \/ Owned(t) \/ CountPeers(t) \/ Cleared(t) \/ Claimed(t)
  \/ Reread(t) \/ WrongInstance(t) \/ LookupAgain(t) \/ CreateRouter(t)
  \/ SavePeer(t) \/ Enter(t) \/ MakeTransport(t) \/ AddProducer(t)

MediaNext ==
  \/ \E t \in Tasks :
       \/ MediaStep(t)
       \/ \E s \in Sockets : \/ LeaveRoom(t, s) \/ Disconnect(t, s)
                             \/ CreateTransport(t, s) \/ Produce(t, s)
                             \/ \E i \in Instances, u \in Users : Join(t, s, i, u)
       \/ \E i \in Instances : \/ TeardownRoom(t, i)
                               \/ \E u \in Users : KickPeer(t, i, u) \/ OtherRoom(t, i, u)
  \/ \E s \in Sockets : CloseProducer(s)
  \/ \E i \in Instances : Crash(i)

MediaSpec == MediaInit /\ [][MediaNext]_mediaVars

\* Handlers that run go on; a connection that is lost or unused ends.
MediaFairness ==
  /\ \A t \in Tasks : WF_mediaVars(MediaStep(t))
  /\ \A s \in Sockets : SF_mediaVars(\E t \in Tasks : Disconnect(t, s))

MediaFairSpec == MediaSpec /\ MediaFairness

=============================================================================
