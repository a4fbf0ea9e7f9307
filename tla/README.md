# greetup: a verification project

greetup is a social calling application: people search for a partner, both
confirm the proposed match, and a room with audio and video opens for them.
This directory models the part of it where many processes work on shared state
with no transaction around them, checks the models with TLC, and proves the
results that matter most with TLAPS: the matchmaking engine, the direct calls,
the life of a space and the rooms of the media service.

- [The system](#the-system): components, state, operations, interactions
- [The plan](#the-plan): modules, abstract specifications, what is left
- [The matchmaking engine](#the-matchmaking-engine), [Direct calls](#direct-calls),
  [Spaces](#spaces), [The media room](#the-media-room): how the models map to the code
- [Runs](#runs): what each TLC run asks, its bounds, what it shows
- [Findings](#findings): where the code and its documentation disagree
- [Proofs](#proofs): theorems, assumptions, the inductive invariants
- [What is not modelled](#what-is-not-modelled)

## The system

The repository is a monorepo of four services, one client and one shared
package.  State lives in Redis and in PostgreSQL; the services call each other
over HTTP and push events over sockets.

| Component | State it keeps | Operations | Talks to |
|---|---|---|---|
| Matchmaking engine, `apps/matching-service` | Redis: per-user state, pair locks, candidate pool, attempts, last-attempt pointers, start-search locks, job queue, pending proposals with their connect flags, finalize keys | find, status, respond (connect or skip), cancel, leave-room over HTTP; a worker loop per process | called by the API server; asks the API server to make a room; fires webhooks |
| Ranking of candidates, same service | none (pure) | validate a pair, score it, order the pool | used by the worker |
| Matching proxy, `server/modules/matching` | none | forwards the operations with retries and a status pre-check | engine, sockets, guest trial |
| Rooms and sessions, `server/modules/rooms` | PostgreSQL rooms, participants, sessions; Redis session hash | create, join, start, end, reconcile on access, periodic sweep, title, kick, expand | rtc-service, chat, notifications |
| Connection calls, `server/modules/connections/services/connection-call*` | Redis invite hash, pending-for-callee and pending-by-room keys, active call, history dedupe | initiate, respond, cancel, mark missed, ring timer | rooms, chat history, sockets |
| Connections, `server/modules/connections` | PostgreSQL connection rows | request, respond, withdraw, disconnect, list | blocks, engine (matched-peer sync) |
| Guest trial, `server/modules/guest` | PostgreSQL guest session, Redis trial and abuse keys | create session, consume the one trial call, upgrade on signup, abuse limits | matching, rooms |
| Open to connect, `server/modules/open-to-connect` | PostgreSQL status and requests, Redis index | go open or closed, request, accept, feed | rooms, sockets |
| Activities in a room (chess and the others), `server/modules/rooms/services/activity` and `session-activities` | activity state of a room, catalog | start, move, resign, end | sockets |
| Presence, blocks, chat, notifications, profile, spaces, search, user, auth | PostgreSQL rows, Redis presence hashes | reads and single writes | each other |
| Media service, `apps/rtc-service` | in-memory rooms, peers, transports; Redis owner and peer set of each room | join, produce, consume, leave, kick, room type change | mediasoup, API server webhooks |
| Voice scoring, `apps/voiceiq-service` | BullMQ queues, scores | capture, score, webhook | rtc-service, API server |
| Client, `apps/client` | UI state | polls attempts, taps Connect or Skip | everything |

Where the behaviour is hard, and what makes each part correct:

- **Engine.** Every handler is a chain of awaited Redis commands.  Only two
  steps are atomic scripts (`lockPair`, `recordProposalConnect`).  Two tabs of
  one user, both users of a pair, several worker processes, TTLs, a slow room
  service and a process that dies between two awaits all interleave.  It is
  correct if a room opens only for two people who both said yes, once per
  proposal; if both sides read the same outcome; if a torn-down proposal stays
  torn down; if no user is in two proposals unless freed from the first; and if
  every search and every double Connect comes to an answer.
- **Connection calls.** Accept, cancel, missed and the ring timer all read the
  invite's status, await, and then write.  Correct if one outcome is recorded,
  if an accepted call keeps its room, if every call ends and every ring stops,
  and if a callee is held busy only by an invite that can be answered.
- **Room sessions.**  A sweep, a reconcile on access, a host's end and the last
  leave race; the database commits before Redis is provisioned or cleared, and
  the lobby gate lives in the Redis hash.  Correct if the status of a space
  follows one lifecycle, if a live space can be joined, if guests wait for the
  host, if whoever was removed stays out, and if the sweep settles what is due.
- **Matching proxy.** Retries after timeouts: an operation may run twice or late.
- **Guest trial.** Concurrent token requests; correct if one trial is consumed.
- **Open to connect.** Two requesters accepted at once; correct if a user is put
  into one room.
- **Media service.**  Processes claim a room in Redis; joins, leaves, kicks,
  teardowns and disconnects of one room interleave at every await, and a process
  dies with the keys left behind.  Correct if those in a room share one router,
  if an emptied room closes its own, and if a disconnect only removes its own session.

`PROJECT.json` lists the hazards at their lines, with the properties that would
catch each of them, or the reason no property covers it yet.

## The plan

| Module | Is |
|---|---|
| `MatchStore` | the engine's Redis keys, the locals of its handlers, the shared Redis operations |
| `Matching` | its handlers and the worker, one action per Redis command or script |
| `MutualConnect` | abstract: a room only opens for two users who both asked for it |
| `MatchingProperties`, `MCMatching`, `MatchingProofs`, `MatchingLifeProofs` | properties, instances, theorems |
| `Accounts` | the constants the components of the API server and the media service share |
| `ConnectionCall` | the invite, ring keys and timer, room and chat rows of a direct call |
| `ConnectionCallProperties`, `ConnectionCallProofs`, `ConnectionCallLifeProofs` | properties, theorems |
| `SpaceSession` | the row, deadlines, members, session hash and handlers of a space |
| `SpaceLifecycle` | abstract: the status of a space |
| `SpaceSessionProperties`, `MCSpaces`, `SpaceSessionProofs`, `SpaceSessionLifeProofs` | properties, instances, theorems |
| `MediaRoom` | a room of the media service, its routers and sessions on each instance |
| `MediaRoomProperties`, `MediaRoomProofs`, `MediaRoomLifeProofs` | properties, theorems |
| `MCServer` | the instances of calls, spaces and media rooms |

`MCServer` is a sum, not an interleaving.  The three components share accounts
and no variable, each property speaks of one of them, and their calls to each
other are one-way requests that each model takes at any time (the sweep of a
call's room, a kick or a teardown webhook).  A behaviour of all three projects
to a behaviour of each, so interleaving them would multiply the states and
show nothing more; `focus` names the one that moves.

Left for later, most worthwhile first: the deadlines of `SpaceSession` with
minutes (a lower bound than hours); expansion of a direct room into a space; the
invite and game of the chess activity; the race of respond and withdraw on a
connection row; the proxy's retries in front of a cancel; the ranking as
functions against a reference.  Theorems to come: `RoomOutcomeAgreed` and
`LockedCanAnswer` with the second worker, the resent finds and the late teardowns
that break them named in the property, as `OneClaimPerUser` names its exception.

## The matchmaking engine

### State

| Variable | Redis key or local | Written by |
|---|---|---|
| `state` | `mm:state:{user}` | enqueue, lockPair, releasePair, pool.remove, markPairInRoom, TTL |
| `userLock`, `pairLock` | `mm:lock:user:{user}`, `mm:pair:lock:{pair}` | lockPair, releasePair, markPairInRoom, leave-room, TTL |
| `pool` | global pool zset | enqueue, remove, stripFromPoolOnly |
| `attempt`, `lastAttempt` | `mm:attempt:{id}`, `mm:user:last-attempt:{user}` | setSearching, markProposed, markMatched, markNoMatch, TTL |
| `startLock` | start-search lock | startFindMatch |
| `jobs` | `mm:jobs:find` | commitSearchingEnqueue, BRPOP |
| `pending` | pair pending hash: record and connect flags | writePending, recordProposalConnect, deletePending, TTL |
| `finalizing` | finalize key of the pair | recordProposalConnect, deletePending, TTL |
| `rooms` | rooms the API server made | createRoom |
| `call`, `worker` | locals of each handler, with its next await | every step |
| `connected`, `dropped` | history for the properties: the connects that passed, and the proposals torn down while undecided and not proposed again | respond, teardown, writePending |
| `freed`, `overtaken`, `orphaned` | history of what the properties except: pairs with a user freed since they were locked; pairs that may be given another room; attempts whose job was lost or thrown away (`Frees`, `Overtakes`, `Orphans`) | releases, deletePending, writePending, TTL, the worker, deaths |

A request id is `<<user, n>>`; a proposal is a record of the two users, their
attempts and the attempt the room is asked for.  `Owner(a)` is the `userId` field
of an attempt, which never changes.

### Actions

One action is one Redis command, script or pipeline, so every `await` is a point
where another handler can run.  Reads whose result is used later are actions
that copy it into a local (`FindArrive`, `JudgePeer`, `RespondReadPending`,
`CancelReadAttempt`, ...).  The exceptions, each of them a command whose
neighbours cannot change what it sees in a way the properties tell apart:

- `SetStatus`, `SetPaired`: HSET and EXPIRE of the attempt, and SET of the last
  attempt;
- `FindArrive`: the reads of the state and of the last attempt before the wait;
- `FreeStartLock`: GET and DEL if the request still holds the lock;
- `TakeJob`: BRPOP and the reads before the retry loop;
- `Scan`: reading the pool members, their states and block lists;
- `JudgePeer`: the peer's last-attempt pointer and its attempt;
- `Respond`, `Cancel`, `Leave`: the arrival and the first reads;
- `PoolRemove`, `LeaveClear`, `MarkPairInRoom`: the ZREM commands and the DEL or
  pipeline that follows;
- `WritePending`: HSET and EXPIRE.

Calls (`Arrive`, then `CallStep`) and workers (`WorkerStep`) run concurrently.
`Environment` is what goes wrong: a handler dies between two awaits (`CallDies`,
`JobDies`: a Redis error or a killed process), locks and records reach their TTL
(`ProposalLapses`, `PendingLapses`, `FinalizeLapses`, `AttemptLapses`,
`InRoomLapses`, `StartLockLapses`), a find stops waiting for the start-search
lock (`FindWaitExhausted`).  A room request may fail, and a request that timed
out may still have made the room (`CreateRoom`).  A find may be sent again while
its first copy is in flight (`Resends`).

TTLs have no clock; what the constants say about order is in the guards.  The
lock keys of a pair share a deadline of 180 s, and the worker's own steps never
take that long.  The finalize key's 45 s are longer than the room request's 7 s,
so it lapses only after its call is gone.  An attempt's 600 s are longer than any
call, job, lock or proposal.

### Fairness

`FairSpec` adds weak fairness of each call's and each worker's steps: an awaited
Redis command returns or throws, a Node handler then runs on, and
`MatchWorkerService.runLoop` never leaves its loop.  Nothing is assumed of
clients, of TTLs or of faults.  Without a fault a finished handler takes no
further step, so weak fairness is enough.

## Direct calls

`ConnectionCall` models `connection-call.service.ts` and
`connection-call-history.service.ts` with what they call in the rooms module.

| Variable | In the code | Written by |
|---|---|---|
| `dial` | caller and callee of a request id | initiate |
| `invite`, `ttl` | `connection:call:invite:{id}`: status, and whether it has a TTL | initiate, every answer, cleanup, TTL |
| `ringing`, `byRoom` | `connection:call:pending:{user}`, `connection:call:room:{room}` | SET NX of initiate, cleanup, TTL |
| `timers` | the `setTimeout` of each ring in this process | initiate, the timer itself, a restart |
| `announced` | who has been told the request id | initiate |
| `room`, `seated`, `session` | rooms row, participant rows, session hash | room creation, accept, leave, end |
| `active`, `logged`, `recorded` | active key, the two dedupe keys of the history | accept, hang-up, outcome |
| `outcome`, `completed` | chat rows that say how the call went | `publishSystemMessage` |
| `proc` | what a running handler does next, for which request | every step |

A request and its room share one id.  One action is what a handler does up to
its next awaited command.  Accept, decline, cancel, missed and the timer are
`Answer` and `RingTimeout`, which read the invite, and then run the same steps
with their own status; hang-up and the background sweep end the room through the
same `FindRoom`, `EndTx`, `DeleteSession`.  An `hset` on a deleted hash brings it
back with a status and without a TTL: `ghost`, which `readInvite` takes for no
invite.  `publishSystemMessage` may fail before or after it inserts the row.

Time has no clock: handlers take far less than the minute between the ring timer
(60 s) and the TTL of the keys (120 s), so the keys lapse once no handler and no
timer works on the request, and the sweep comes to a room (two hours) after them.
The dedupe key of an outcome (86400 s), that of a completed call (3600 s) and the
active key (four hours) outlive every handler that reads them, so they do not lapse in the model.
Several steps of one handler that only refuse (presence, blocks, a busy peer)
are the choice not to place the call.

Fairness (`CallFairness`): a handler that runs goes on, a timer that was set
fires, keys reach their TTL, the sweep of `room-session-sweep.scheduler.ts` comes
round.  Nothing is asked of the two users.

What the properties except, each because the code does it:

- two handlers that both read the invite pending both go on with their answer
  (`Contested`): the room of an accepted call may then be ended by the other, and
  the second cleanup may delete the ring key of the next caller;
- a publish that failed after its insert is undone only in Redis: one more row;
- a caller who leaves the room without cancelling leaves the phone ringing;
- a restart loses the ring timers, and a crash between `hset` and `expire` leaves
  an invite without a TTL.

## Spaces

`SpaceSession` models one space: the handlers of `modules/rooms/services`
(`session`, `access`, `participation`) and `modules/spaces/services`, the queries
of their repositories, and the deadline arithmetic of `room-expiry.ts`,
`reconcile-room-session-eval.ts` and `roomSessionSweepCandidatesWhere`.

| Variable | In the code |
|---|---|
| `plan` | the options of the space: who opens it, `deleteSpaceAfterCall`, visibility, `spaceExpirationMinutes` |
| `status`, `isExpired` | `rooms.status`, `rooms.is_expired` |
| `due` | `scheduled_start_at`, `scheduled_end_at`, `started_at`, `expires_at`, the last `left_at`, the end of the session hash's TTL |
| `row`, `restricted`, `invited` | participant, restricted-user and friend-invite rows |
| `hash` | `room:{id}`: absent, or its `lobbyGateActive` closed or open |
| `handler` | what each running handler does next, for whom |

Instants are kept as hours from now, which stay the same when nothing happens
and fall by one in `Hour`; far enough in the past they are all equal, so time
itself is not bounded.  `HasCome` is `<=` (`isPastDeadline`) and `IsOver` is `<`
(`computeIsExpired`), as in the code, so the two disagree at the deadline itself.
An update with its `WHERE` clause is one action, and so is a DEL; a handler's reads,
its updates and its DELs are steps of their own, with anything in between.
`reconcileRoomSessionOnAccess` reads the row (`Reconcile`), then the presence
(`CheckPresence`), or expires the slot (`ExpireSlot`); `endLiveRoomSession` reads
the row again (`EndSession`) and commits (`EndSpaceTx`); and each of them, a leave,
a host's end and the list of spaces, deletes the session hash in a later step
(`DropSession`).  `View` is GET room: if it found a session hash it reads the row
once more (`RecheckRoom`) and may delete a second time.  `LeaveLobby` and `ClearGate`
are the writes of a leave and of the host's open that come after their reads.
`leaveAndMaybeEndRoomTx` runs at read committed: it counts in `LeaveTx` and commits
in `LeaveCommit`.

These are still one step each, and leave out what could run in between:

- `GoLive`: the read and the conditional update of `markRoomLive`; what is read is
  the schedule, so a reschedule in between gives an `expires_at` of the old one;
- `RefreshExpiry` and `RestartClock`: the schedule is read with the update;
- `EndSpaceTx`: the slot is given back with the schedule of the moment, not with
  the one `endLiveRoomSession` has read;
- `Admit`, `PassGate`: the queries of one check, before the write that follows;
- `ProvisionSpace`, `ClearGate`: HSET and EXPIRE;
- `Leave`, `CheckPresence`: their two reads.

`Reschedule` leaves options and invites as they are.

`SpaceLifecycle` is what all of this promises about the status: nothing,
scheduled or live at its creation; live only from scheduled; a session's end
gives the booked slot back, or ends the space if there is none or the last one
left a one-shot space; cancelled only from scheduled; ended and cancelled for
good.

Fairness (`SpaceFairness`): a handler goes on, the sweep comes round, time
passes.  `Hour` waits until no handler runs, hence strong fairness: handlers take
milliseconds and do not stop the clock.

What the properties except, each because the code does it:

- two transactions in which the last two leave at once (or a leave and a removal)
  each count the other: a one-shot space stays live;
- a join that passed its check before the removal restricted the user keeps its
  seat;
- a start that comes between another handler's look at the space (or its update)
  and its DEL of the hash loses its new hash to that DEL; `raced` records a start at
  which some handler was about to delete.  The ways there are an access, a view, a
  leave or a host's end that found the space over, the list that expired it, and the
  end of the session before; a reschedule makes it startable meanwhile;
- a crash between the row and the hash leaves a live space without a session hash;
- so does a late deadline write (`NotesRevival`): the restart of the clock and the
  refresh after a join write a new `expires_at` without asking whether the session
  was over, and a session that was over, its hash deleted, is live again;
- the lobby gate is asked for only while the hash exists: not before it is
  provisioned, nor after its TTL of two hours (`ROOM_TTL`), which is shorter than a
  session (three hours), although `session-room-redis.service.ts:14` says that
  non-hosts get no token until the host clears it.

## The media room

`MediaRoom` models one room of `apps/rtc-service` on several instances.

| Variable | In the code |
|---|---|
| `link` | a Socket.IO connection: its state, user and instance |
| `owner`, `peers` | `rtc:room:{id}:owner`, `rtc:room:{id}:peers` |
| `router`, `running`, `routers` | `localRooms` of each instance, the routers not closed, a counter to name them |
| `present` | `sessions` of each instance, by user; a session is named by the socket it was made for |
| `members` | `roomMembers` of each instance |
| `transport`, `producing` | of a session: the router its transport is on, whether it has a live producer |
| `task` | the locals of a running handler and its next await |

An instance is one thread: an action is what a handler does between two awaits,
the command it sends included, and what the command answered is used in the next
one.  The joins of `getOrCreateLocalRoom` are followed command by command
(`Cached`, `Owned`, `CountPeers`, `Cleared`, `Claimed`, `Reread`, `WrongInstance`,
`CreateRouter`), as are the removals (`BeginRemoval`, `Unpublish`, `TakeOut`,
`ReleaseRoom`, `CloseRoom`, `ForgetPeer`) that a join, a leave, a disconnect, a
kick and a teardown share.  A router that closes closes its transports and they
their producers, as mediasoup does.  `Crash` is a process that dies: its sockets
and memory are gone and Redis keeps its keys.

`sessions` is kept by user over all rooms of an instance, so other rooms matter.
`OtherRoom` is what they do to this one: the user joins another room, and `join`
takes the session out here with `skipRedis` and without a release (`move` in
`TakeOut`: the router, the owner key and the peer entry stay, and `deserted` records
that nobody is left to close it); the user leaves another room or loses the
connection there, which removes this room's session by user; or a removal that ends
there had read its own session before and deletes whichever is there by now, while
`roomMembers` of this room keeps the user.

Two removals of one session both go on: the first one to empty `roomMembers`
releases the room, the second finds no members any more and only drops the peer
(`last` in `TakeOut`).

Fairness (`MediaFairness`): a handler goes on, and a connection that is unused or
lost ends (strong, since `Disconnect` needs a free slot of the model).

What the properties promise of the routers is about all that run (`running`), not
only about the one `localRooms` names.  `EmptyRoomClosed`: where nobody is listed and
nothing runs, no router does, except in a deserted room, and except those that
overlapping joins overwrote in `localRooms` (`Overwritten`, `Overlapped`).  `RoomEnds`:
every router is closed in the end, with the same two exceptions and that of a member
who is listed but gone (`Forgotten`).

`orphans` and `crossed` record what the code does not prevent: a socket that
closes during its own join leaves its session behind, since `join` never asks
whether the socket is still there, and two first joins that overlap make two
routers, the second of which replaces the first.  A teardown webhook clears the
keys at whichever instance it reaches, and so crosses the members that are
elsewhere (`Elsewhere`).  `OwnerServesMembers` speaks of the instance that the
owner key names, or that all connections go to (`OnlyInstance`), and `SameRouter`
of the latter: a second instance may count the peers before the first one's
`SADD`, clear the keys and own the room as well, and with three sockets a room
that two instances fight for can lose its router, with four get two.

## Runs

Deadlock is not checked where clients may stop calling and nothing is left to do;
`SpaceDue`, in which time always passes, checks it.  Symmetry is used in runs that
check no liveness.

### The engine

Every instance bounds calls (`MaxCalls`), attempts per user, room failures,
deaths and lapses; `Slots` is the symmetry of call slots and workers (users are
ordered and are not symmetric).

| Run | Instance | Asks |
|---|---|---|
| `MatchingAnswers` | 2 users, 2 calls at once, 5 in all, resent finds, one room failure, one death, one lapse | `TypeOK`, `OneRoomEach`, `NoRoomAfterTeardown`, `RoomsByMutualConnect` while both users connect, skip, cancel and leave |
| `MatchingConnects` | 3 users, 2 attempts, 6 calls, 2 passes per job, one room failure | `MatchedAttemptHasRoom`, `RoomOutcomeAgreed`, `LastSearchHasJob`, `DecidedIsFinal` |
| `MatchingCrowd` | 3 users, 2 workers | `OneClaimPerUser`: the lock script under two workers; `NoSearchForgotten`: their jobs |
| `MatchingFaults` | 3 users, 2 attempts, one death, one lapse, resent finds, leave-room | `OneClaimPerUser`, `OverIsFinal` |
| `MatchingSettles` | 3 users, 2 calls at once, 5 in all, one room failure; fair, no symmetry | `FinalizerAlive`, `LockedCanAnswer`, `SearchSettles`, `MutualConnectSettles` |
| `MatchingExpiry`, `MatchingDoubleTap`, `MatchingStaleTeardown` | smallest that shows it; in the last one user 3 searches once (a constraint of the instance) | the findings |

Why the bounds are enough to be interesting: two attempts per user let a proposal
be decided, searched for again and re-proposed while a late call of the first
round is still running; three users let a stale lock, pool entry or record meet a
third person; five calls are two finds, two answers and one more tap, skip,
cancel or leave, and six leave room for a new search after them.

Limits the runs themselves showed, so that nothing is read into the instances:

- `LockedCanAnswer` is a property of one attempt per user and no cancels.  With a
  second attempt, or with a cancel between `lockPair` and `markProposed`, a user
  can stay locked with nothing to answer (the cause is that of
  `MatchingStaleTeardown`, or a worker that proposes to somebody who is gone).
- `LastSearchHasJob` and `DecidedIsFinal` hold with two attempts, without resent
  finds and skips; with them a refused find moves the last-attempt pointer, and a
  resent find that waited for the start-search lock sets a decided attempt to
  searching again.
- `RoomOutcomeAgreed` and `DecidedIsFinal` hold with one worker, which is the
  deployment (docs/matching/matching-engine.md:38, an in-process worker).  With
  two they fail: a worker that gives up marks the attempt `no_match` after its
  last scan (`orchestrator.ts:268`), when another worker may have locked it,
  proposed it and seen it matched.
- `OneRoomPerProposal`, which knows no exception, holds with two calls at once and
  fails with three: `MatchingDoubleTap`.  `OneRoomEach` holds with any number of
  calls and deaths (`ProposalsGetOneRoom`); `overtaken` says when a pair is
  excepted.  `deletePending` overtakes a pair whose connects have both passed
  `readPending` or whose room is being asked for; the TTL of the finalize key a dead
  finalizer left overtakes its pair; `writePending` does when it writes the record
  under a connect of the pair, or writes a proposal that already has a room (a
  resent finds that commit after the match make the same attempts searchable again).
- `FinalizerAlive` is a property of finalizers that live: after a death the
  finalize key waits for its TTL.
- `NoRoomAfterTeardown` holds with any number of calls (`TeardownIsFinal`), with
  the exception its text states.  `dropped` takes a proposal in only if no room
  is being asked for and the connects that have passed `readPending` are not both
  users' (`Undecided`): `recordProposalConnect` (scripts.ts:57) does not ask
  whether the record is still there, so with a skip and the late connects of both
  users, three calls at once, the skipped proposal does get a room.  It is the
  cause of `MatchingDoubleTap`, met from the other side.  And a new proposal of
  the pair takes the old ones out: a connect that read the old record counts for
  the new one.
- `PairLocksDisjoint` holds with one attempt per user, whoever scans.  With two it
  fails: `MatchingStaleTeardown`.  `OneClaimPerUser` says of any number what the
  code keeps: a user is in two pairs that are locked or have a record only if one
  of the pairs is in `freed`, that is, one of its users was freed by a release, a
  room or a leave-room after `lockPair` granted it.
- `NoSearchForgotten` speaks of every moment and every fault, and excepts what the
  code gives up: a job lost with the process that had it, and a job the worker
  throws away because the state reads locked (`orchestrator.ts:194`).
  `LastSearchHasJob` asks more, at rest and without faults: there the pointer does
  not show a search that was thrown away.
- `OverIsFinal` holds with resent finds and any number of workers, where
  `DecidedIsFinal` does not: it speaks of an attempt that nobody has in hand
  (`TakenUp`), so the resent find that waits for the start-search lock, or the
  second worker that has read the attempt searching, is the exception.

### Calls, spaces, media rooms

| Run | Instance | Asks |
|---|---|---|
| `Server`, calls | 2 users, 2 requests, 2 handlers at once, 4 calls and faults, one of them a failed publish or a restart | `CallTypeOK`, `CalleeNotBlocked`, `OneRingPerCallee`, `RingHasRoom` |
| `Server`, spaces | 4 plans, a host and 2 guests on 2 seats, 2 handlers, 3 calls or crashes, any number of sweeps, lists and hours | `SpaceTypeOK`, `OneShotSpaceEnds`, `RestrictedStayOut`, `LiveSpaceHasHash`, `GuestsWaitForHost`, `KeepsLifecycle` |
| `Server`, media | 2 users, 2 sockets, 2 instances, 2 handlers, one webhook, move to another room or crash | `MediaTypeOK`, `EmptyRoomClosed`, `OnlyOrphansStay`, `OwnerServesMembers`, `SameRouter` |
| `ServerSettles` | the same with 1 request and 4 calls, 1 guest and 1 call, 1 instance and 2 sockets without webhooks, other rooms and crashes; fair, no symmetry | `OutcomeRowsBounded`, `OneCompletedRow`, `AnsweredCallKeepsRoom`, `OutcomeEndsCall`, `CallEnds`, `RingSettles`, `SlotSettles`, `OverdueTornDown`, `RoomEnds` |
| `SpaceDue`, `MediaRejoin` | smallest that shows it | the findings |

Two handlers at once are every pair of racers of the hazards; two requests let a
late cleanup of one meet the ring of the other; four calls are a call, two
answers that race and a hang-up.  The four plans are a private and a public
one-shot space that are live at once, the public one led by its host, a booked
one-shot space that opens by itself at its hour, and a booked one that waits for
its host: each deadline rule and each gate is used by
one of them.  Two sockets of one user or one socket each of two users, on one
instance or on two, are the rejoin, the first joins that cross and the two owners
of the media hazards.  The liveness instances are smaller, and are about what one
call, one slot and one room come to.  That of the room has two sockets, so that two
first joins overlap and one overwrites the router of the other; `deserted` does not
arise there, for want of another room, and is the matter of `Server` and of the
theorems.

The model's names are shared between the three components (`Requests` and
`Sockets`, `Procs`, `Handlers` and `Tasks`), so that one permutation is a symmetry
of each of them: they never meet.

Each property is also run against a changed model (a dropped guard, a missing
reset, a swapped argument: the fault variants next to the definitions they
replace) and fails there.

## Findings

1. `MatchingExpiry` (`ExpiredProposalResets`).  The locks and the record of a
   proposal have TTLs, `mm:state = locked` has none: a user whose proposal
   expires unanswered is refused by every later find until a skip, a cancel or
   leave-room resets the state.
2. `MatchingDoubleTap` (`OneRoomPerProposal`).  `deletePending` drops the finalize
   key together with the record, so late Connect calls of both users set both
   flags again on the deleted hash and one of them becomes a second finalizer.
3. `MatchingStaleTeardown` (`PairLocksDisjoint`).  `releasePair` deletes the locks
   whoever holds them; a teardown that read its record before the pair was torn
   down and re-matched releases a newer proposal's locks.
4. `SpaceDue` (`DueSpaceTornDown`).  The sweep promises a full teardown of rooms
   that are due by the clock.  `endLiveRoomSession` first asks
   `isDbRoomSessionClosed`, which is true of a live row once its `expires_at` is
   over; it deletes the Redis hash and returns `alreadyClosed` without the
   transaction, now and on every later sweep: the row stays live with its
   participants, and a booked slot is not given back.
5. `MediaRejoin` (`RejoinWorks`).  A user whose connection dropped joins on a new
   socket before the server notices the loss of the old one.  Its disconnect then
   removes the session by user id: the new one.

## Proofs

### The engine

`MatchingProofs` and, in the last six rows, `MatchingLifeProofs` prove, for any set
of users, calls, workers, any compatible pairs and any bounds:

| Theorem | States |
|---|---|
| `InductiveHolds` | `Spec => []Inductive` |
| `TypeCorrect` | `Spec => []TypeOK` |
| `MatchedHasRoom` | `Spec => []MatchedAttemptHasRoom` |
| `ConsentImplements` | `Spec => RoomsByMutualConnect`: the engine refines `MutualConnect` |
| `DroppedKeptHolds` | `Spec => []DroppedKept` |
| `TeardownIsFinal` | `Spec => NoRoomAfterTeardown`, an action property |
| `FinalizerIsAlive` | `Spec => []FinalizerAlive` |
| `LocksAreHeld` | `Spec => []LocksHeld` |
| `ClaimsAreExclusive` | `Spec => []OneClaimPerUser` |
| `OverStaysOver` | `Spec => OverIsFinal`, an action property |
| `SearchIsKept` | `Spec => []NoSearchForgotten` |
| `RoomsAreOnce` | `Spec => []RoomsOnce` |
| `ProposalsGetOneRoom` | `Spec => []OneRoomEach` |

Assumptions, all in `MatchStore`: user ids are numbers (only their order is
used), the bounds are naturals, `None` is none of the values it stands in for,
`Compatible` is a set of pairs, `Resends` a Boolean, `Ops` a set of operations.

Neither `MatchedAttemptHasRoom` nor the consent rule is inductive: each speaks of
a finished step, and what makes it true is in the locals of a call that is
half-way.  `Inductive` adds that:

- `KeysOwned`: the last-attempt pointer names an attempt of its user; a proposed
  attempt names somebody else; a pending record belongs to the pair of its key
  and names an attempt of each.
- `CallShape`, `WorkerShape`: what a handler's locals are at each await (the caller
  owns the attempt, the peer is somebody else, the proposal it carries is
  well formed and, at the connect step, is the pair it answers).
- `ConsentKept`: whoever has a connect flag on a pair has asked to connect with the
  other; and so has a call about to set the flag; and a call in any of the
  finalizer's steps has both users' consent.  The flag check of
  `recordProposalConnect` carries the second fact into the third.
- `RoomsKept`: the room a finalizer holds is the one made for its proposal, and
  `MatchedAttemptHasRoom`.

The argument goes by who writes what.  `TriesChange`, `PendingChange`,
`HistoryChange` and `CallChange` each say, for one group of variables, which
handful of actions can change it; the preservation of each part of `Inductive`
then has one case per such action (`KeysOwnedStep`, `CallShapeStep`,
`WorkerShapeStep`, `ConsentKeptStep`, `RoomsKeptStep`), and type correctness one
lemma per group of variables.  For the refinement, a `respond` that passes its
checks is `Agree`, a room that is made is `Open` (enabled by `ConsentKept`), and
every other step stutters.

`NoRoomAfterTeardown` is about one step of a finalizer; `DroppedKept` says why no
call can get there.  For each torn-down proposal it keeps that the pair has no
record, that nobody asks for a room, and that the flags on the hash together with
the connects that have passed `readPending` are not both users'.  `SettledStep`
shows each step keeps this until `writePending`: without a record no call can
newly reach the connect script (`LateChange`), and a call that runs the script
only moves its user from the late ones to the flags.  `FinalizerAlive` is
inductive on `Inductive` by itself while nobody dies: the key is set by the step
that makes its caller the finalizer, and a finalizer leaves its steps only by
deleting the key (`FinalizerGoesOn`); a death leaves the key to its TTL, which the
property excepts.

`MatchingLifeProofs` is about what lasts over the life of a search and of a
proposal; each part is inductive on `Inductive` and on nothing else:

- Locks.  That two claims do not share a user is not inductive: a new lock is only
  refused to a user who has a user lock.  `LocksHeld` says that every claim, and
  every pair a worker has in hand, has its pair lock, and user locks that point at
  each other, unless it is in `freed`.  `lockPair` makes it so and only a step that
  frees a user undoes it (`LocksChange`), and then for pairs that step enters in
  `freed`.  Two claims that share a user would share what its lock points at, and
  be one pair (`PairsShareOne`).
- Outcomes.  Only the commit of a find makes an attempt searching, and only the
  worker that has it makes it proposed (`StatusChange`); a find that arrives takes
  an absent attempt, a worker a searching one (`CommitterChange`,
  `WorkerHandChange`).  So an attempt that is over and in nobody's hands stays so,
  whatever the pool, the state keys, the queue and the pointers say.
- Jobs.  A searching attempt is in the queue, with the call about to push it or
  with a worker, and each step hands it on: `QueuedStep`, `CommitterGoesOn` and
  `WorkerGoesOn` have one holder each.
- Rooms.  Of two rooms for one proposal each step of a finalizer is innocent.
  `RoomsOnce` says, of a pair not overtaken, that at most one call asks for its
  room and has the finalize key, and that a proposal that has a room is
  `Answered`: its key is there with nobody asking, or the pair is settled in the
  sense of `DroppedKept`, or neither a record nor a call leads to it any more.  The
  key is handed over to the settled pair when the record is deleted
  (`FinalizingKept`), the settled pair to a new record (`ProposedAfresh`,
  `DeadStep`), and the call that wins the key again asks for another proposal
  (`WinnerUnsettled`, `NobodyAsksAgain`).

`Inductive`, `DroppedKept`, `LocksHeld`, `NoSearchForgotten` and `RoomsOnce` were
model-checked before they were proved.

### Direct calls

`ConnectionCallProofs`, for any accounts, requests, handler slots and bounds:

| Theorem | States |
|---|---|
| `CallShapeHolds` | `CallSpec => []CallShape` |
| `CallTypeCorrect` | `CallSpec => []CallTypeOK` |
| `CompletedOnce` | `CallSpec => []OneCompletedRow` |
| `OutcomeOnce` | `CallSpec => []OutcomeRowsBounded` |

Types are not inductive alone: a step that reads the callee of its request needs
the request to be dialled, and a handler that gives its id back (`ReadPending`)
must be the only one to have it.  `CallShape` adds that a handler's request was
dialled, that nothing exists of one that was not, and that until the invite is
written its handler is alone with it.  The two counts follow from one invariant
each about the dedupe key: `LoggedOnce` says that the row is counted or under way
only when the key is set, by one handler at a time, and `RecordedOnce` allows one
row more for each publish that failed late, after which the key is free again.

`ConnectionCallLifeProofs` goes on to what the callers see:

| Theorem | States |
|---|---|
| `CallKeptHolds` | `CallSpec => []CallKept` |
| `RingingHasRoom` | `CallSpec => []RingHasRoom` |
| `CalleeIsFree` | `CallSpec => []CalleeNotBlocked` |
| `OneRing` | `CallSpec => []OneRingPerCallee` |
| `AnsweredKeepsRoom` | `CallSpec => []AnsweredCallKeepsRoom` |
| `RecordedOutcomeEnds` | `CallSpec => []OutcomeEndsCall` |

Each of the five speaks of a state of rest or of one key, and what makes it true
is what the handlers under way still owe.  `CallKept` says it in four parts, none
inductive without the others:

- `HandlersKnown`: which operation reaches which place; an initiate handler that
  has not rung is alone with its request; a call has a room before it rings;
  `readers` counts the handlers that answer; and who ends a call without a hang-up
  has seen its ring over.
- `RingKept`: a pending invite has its timer or a handler that sets it or answers;
  the ring key of a callee is that of a call to the callee that rings, or that a
  handler is about to close; and a call that rings has the key, unless two
  handlers closed one ring of that callee.
- `AnswerKept`: a call with one answering handler was accepted by it, and the room
  of a call that rings, or was answered by one handler, ends only by a hang-up or
  the sweep.
- `EndKept`: of a recorded outcome, the room, the session hash and the invite are
  gone or a handler is on its way to them.

The proof has a lemma for each group of steps (`StartKeeps` for initiate up to its
ring, `AnswerKeeps` and `EndKeeps` for the steps that accept, decline, cancel,
missed and the timer share) and one for each event (`SweepKeeps`, `RestartKeeps`,
...), and in each the four parts are kept one by one.

### Spaces

`SpaceSessionProofs`, for any accounts, plans, handler slots, seats and bounds:

| Theorem | States |
|---|---|
| `SpaceShapeHolds` | `SpaceSpec => []SpaceShape` |
| `SpaceTypeCorrect` | `SpaceSpec => []SpaceTypeOK` |
| `LifecycleImplements` | `SpaceSpec => KeepsLifecycle`: refinement of `SpaceLifecycle` |
| `RestrictedOut` | `SpaceSpec => []RestrictedStayOut` |

`SpaceShape` adds to the types that a running handler serves a member (the sweep
nobody), that only guests are removed and that a scheduled space has a slot, which
is what lets a start map to `Start` and an end to `Finish`.  For the refinement a
creation is `Create`, `GoLive` is `Start`, `EndSpaceTx` and the committing leave
are `Finish`, the cancel is `Cancel`, and every other step stutters.
`RestrictedOut` needs to know of the joins that are half-way: `SeatsGuarded` says
that a restricted user who is about to be seated, or is seated, slipped in during
the removal.

`SpaceSessionLifeProofs` is about the session hash, the gate and the last leave:

| Theorem | States |
|---|---|
| `SpaceKeptHolds` | `SpaceSpec => []SpaceKept` |
| `LiveHasHash` | `SpaceSpec => []LiveSpaceHasHash` |
| `GuestsWait` | `SpaceSpec => []GuestsWaitForHost` |
| `OneShotEnds` | `SpaceSpec => []OneShotSpaceEnds` |

`SpaceKept` adds to the three what is true between two awaits: a handler that is
about to drop the hash of a live space was about to when it started (`EndingsNoted`,
which is what makes the start `raced`), or the space is over; a live space lacks its hash only while a
handler is about to provision it (`HashKept`); from then on the gate is closed
until the host opens it (`GateKept`); and of two who leave at once each knows the
other (`LeaveKept`).  `LiveSpaceHasHash` was false as first stated: the proof
stopped at the two deadline writes that do not ask whether the session is over,
and TLC gave the behaviour, one that the instance of `Server` is too small to
reach.  The model now records the revival and the property names it.

### The media room

`MediaRoomProofs`, for any accounts, instances, sockets, handler slots and bounds:

| Theorem | States |
|---|---|
| `MediaShapeHolds` | `MediaSpec => []MediaShape` |
| `MediaTypeCorrect` | `MediaSpec => []MediaTypeOK` |
| `RoomKeptHolds` | `MediaSpec => []RoomKept` |

`MediaShape` says what a handler knows at each of its places (a join has a socket
and a user, a removal that goes on has the session it took out).  `RoomKept` says
what `localRooms` has a router for: a listed member, a handler that is about to
enter, to release the room or to close it, or a room whose last member joined
another one.  Each step that takes one of these away leaves another or closes the
router.

`MediaRoomLifeProofs` is about who stays, what the members get and what is left:

| Theorem | States |
|---|---|
| `LinksKeptHolds` | `MediaSpec => []LinksKept` |
| `Orphans` | `MediaSpec => []OnlyOrphansStay` |
| `RoomServedHolds` | `MediaSpec => []RoomServed` |
| `MembersAreServed` | `MediaSpec => []OwnerServesMembers` |
| `OneRouterForAll` | `MediaSpec => []SameRouter` |
| `RoutersKept` | `MediaSpec => []RoutersAccounted` |
| `EmptyRooms` | `MediaSpec => []EmptyRoomClosed` |

`LinksKept` ties sockets, sessions and handlers together: a session and a handler
are of the user and the instance the socket joined with, a socket has one join at
a time, and the session of a closed socket is an orphan's or a removal's.
`RoomServed` is about a member, somebody whose join crossed nothing.
`MembersServed` says that no removal runs beside such a join, that no handler is
about to release or close the room under a member, that a join at its last places
has a router, and that the owner of a room whose router a stranger's teardown
closed is making another.  `OneRouter` adds, for an instance all connections go to,
that it alone can hold the owner key, that a join that has asked for the key has it,
and that the transports of the members are on the router that is there.  Here the
attempt to prove found `OwnerServesMembers` false for three sockets and
`SameRouter` for four (`Server` has two): a room moves to another instance when a
join there finds the keys cleared.  Both now name the instances they speak of, and
a teardown crosses the members of other instances.

`RoutersAccounted` is `RoomKept` for the router in `localRooms` and
`RoomsOverwritten` for all others that run.  That nothing but an overlap overwrites a
router needs the joins half-way: `Single` says that a join past its look at
`localRooms` (`Claims`: it will make a router without looking again) finds no router
there, or two joins of the instance have overlapped.  When a join makes a router,
every other join that will make one runs beside it (`CreateOverwrites`): both are
`crossed` (`JoinsApart` of `RoomServed`), and their sockets are two and of this
instance (`LinksKept`).  The two together leave an idle instance that lists nobody
with no router but those the property names.

Assumptions: `AccountsAssumption`, `RequestsAssumption`, `CallBoundsAssumption`,
`SpaceAssumption` and `MediaAssumption`: `None` is none of the values it stands in
for, the host is no guest, bounds are naturals, plans are records of the declared
fields within the bounded hours.

### Only model-checked

Liveness under fairness and deadlock freedom are outside the prover's reach:
`SearchSettles`, `MutualConnectSettles`, `CallEnds`, `RingSettles`, `SlotSettles`,
`OverdueTornDown` and `RoomEnds` are checked on the instances above.  Every
safety property of the calls, the spaces and the media rooms that a passing run
checks is proved.  Of the engine, these stay with TLC because they are false for
some values of the constants, or hold only within the limits listed under the
runs, so that there is no theorem for all of them to state:

| Property | Why no theorem |
|---|---|
| `OneRoomPerProposal` | three calls at once break it: `MatchingDoubleTap`; what remains true is `OneRoomEach` |
| `PairLocksDisjoint` | two attempts per user break it: `MatchingStaleTeardown`; what remains true is `OneClaimPerUser` |
| `RoomOutcomeAgreed`, `DecidedIsFinal` | a second worker, or a resent find, writes an attempt after it was decided; `OverIsFinal` says which attempts are out of their reach |
| `LastSearchHasJob`, `LockedCanAnswer` | a refused find, a lost job or a cancel during the pairing breaks them; `NoSearchForgotten` says which searches keep a job |

That a user is in one open proposal only is not a property of the code, and no run
checks it.  Six calls break it: users 1 and 2 find; while the worker has them between
`lockPair` and `markProposed`, user 1 cancels and leaves the room, which frees the
user's lock and state (`orchestrator.ts:594`); user 1 finds again and user 3 finds, and
the next job locks user 1 for the second pair.  What the code does keep is
`OneClaimPerUser`, which names the freed pair.

## What is not modelled

- The engine: the snapshot of a profile is taken to be there when the worker asks
  for it; location buckets, skip lists, matched-peer lists, block lists and scores
  are the constant `Compatible` and any order of candidates; webhooks are fired
  and forgotten.
- Calls: events, pushes and the checks that only refuse; the per-user RTC key.
- Spaces: titles, activities, the expansion of a direct room into a space, options
  and invites changed by a reschedule, reports of a violation except for the
  removal they end in.
- The media service: consumers, pause and resume, dominant speaker, voice capture,
  room-type changes, the hint of a user's active room.
- `GET` operations that change nothing, health checks, metrics and logging.
- The other components of the table: connections between users, the guest trial,
  the activities in a room, open to connect, presence, blocks, chat,
  notifications, search, authentication, the voice scoring service and the
  client.  `PROJECT.json` gives the reason for each.  Most of the repository's
  lines are the client's user interface and the routes, schemas and queries of
  modules without a protocol of their own.
