------------------------------ MODULE Matching ------------------------------
(***************************************************************************)
(* The matchmaking engine of apps/matching-service: HTTP calls (find,      *)
(* respond, cancel, leave-room) and the queue workers interleave on the    *)
(* Redis keys of MatchStore.  Each action is one Redis command, script or  *)
(* pipeline of a handler (the few merges are listed in the README), so     *)
(* every await of the code is a point where another handler can run.       *)
(***************************************************************************)
EXTENDS MatchStore

(* The program counter of a call; a finished call frees its slot.           *)
Goto(c, pc) == call' = [call EXCEPT ![c].pc = pc]
Finish(c) == call' = [call EXCEPT ![c] = NoCall]
Start(c, rec) ==
  /\ call[c].pc = "free"
  /\ made < MaxCalls /\ made' = made + 1
  /\ call' = [call EXCEPT ![c] = rec]

CallPair(c) == {call[c].user, call[c].peer}

-----------------------------------------------------------------------------
(* The histories: what the properties excuse, recorded where it happens.     *)

\* Whose connect has passed readPending and not yet run the script.
Late(p) == {call[c].user : c \in {e \in Calls : call[e].pc = "connect" /\ CallPair(e) = p}}

\* No room is being asked for, and the connects under way are not both users'.
Undecided(p) ==
  /\ Late(p) # p
  /\ \A c \in Calls : call[c].pc = "create_room" => Both(call[c].prop) # p

\* The locks of these users are deleted, whichever pairs they are held for.
Frees(us) == freed' = freed \cup {p \in Pairs : p \cap us # {}}

\* The pair may be given a room again, although its proposal has one.
Overtakes(p, cause) == overtaken' = IF cause THEN overtaken \cup {p} ELSE overtaken

\* No job, call or worker is left to answer these searches.
Orphans(as) == orphaned' = orphaned \cup as

-----------------------------------------------------------------------------
(* startFindMatch.  A request id is fresh or a resend of one in flight; a     *)
(* call that finds a search or a proposal to return changes nothing.        *)

Issued(a) == attempt[a].status # "absent" \/ \E c \in Calls : call[c].att = a

\* The state and the last attempt are read; the call acts on them later.
FindArrive(c, a) ==
  LET u == Owner(a) IN
  /\ "find" \in Ops
  /\ attempt[a].status = "absent" /\ (Resends \/ ~Issued(a))
  /\ \A n \in 1..(a[2] - 1) : Issued(<<u, n>>)
  /\ state[u] \in {"none", "searching"} => ~Coalesces(u)
  /\ state[u] = "locked" =>
       ~(Coalesces(u) /\ attempt[lastAttempt[u]].status = "proposed")
  /\ Start(c, [NoCall EXCEPT !.op = "find", !.user = u, !.att = a, !.pc =
       IF state[u] \in {"none", "searching"} THEN "acquire" ELSE "refuse"])
  /\ UNCHANGED <<redis, history, worker, losses>>

FindRefuse(c) ==
  /\ call[c].pc = "refuse"
  /\ SetStatus(call[c].att, "no_match")
  /\ Finish(c)
  /\ UNCHANGED <<locks, pool, search, offers, history, worker, counters>>

\* The polling loop: coalesce, or take the start-search lock if it is free.
FindAcquire(c) ==
  LET u == call[c].user IN
  /\ call[c].pc = "acquire"
  /\ \/ Coalesces(u) /\ Finish(c) /\ UNCHANGED startLock
     \/ /\ startLock[u] = None
        /\ startLock' = [startLock EXCEPT ![u] = call[c].att]
        /\ Goto(c, "recheck")
  /\ UNCHANGED <<locks, pool, tries, jobs, offers, history, worker, counters>>

\* The wait is over and somebody still holds the lock: go on without it.
FindWaitExhausted(c) ==
  LET u == call[c].user IN
  /\ call[c].pc = "acquire" /\ startLock[u] # None /\ ~Coalesces(u)
  /\ lapses < MaxLapses /\ lapses' = lapses + 1
  /\ call' = [call EXCEPT ![c].pc = "set_searching", ![c].op = "unlocked"]
  /\ UNCHANGED <<redis, history, worker, made, failed, deaths>>

\* The finally block: the lock is freed if this request still holds it.
FreeStartLock(c) ==
  startLock' = [startLock EXCEPT ![call[c].user] =
                  IF call[c].op = "find" /\ @ = call[c].att THEN None ELSE @]

FindRecheck(c) ==
  /\ call[c].pc = "recheck"
  /\ \/ Coalesces(call[c].user) /\ Finish(c) /\ FreeStartLock(c)
     \/ ~Coalesces(call[c].user) /\ Goto(c, "set_searching") /\ UNCHANGED startLock
  /\ UNCHANGED <<locks, pool, tries, jobs, offers, history, worker, counters>>

CommitSetSearching(c) ==
  /\ call[c].pc = "set_searching"
  /\ SetStatus(call[c].att, "searching")
  /\ Goto(c, "enqueue")
  /\ UNCHANGED <<locks, pool, search, offers, history, worker, counters>>

CommitEnqueue(c) ==
  LET u == call[c].user IN
  /\ call[c].pc = "enqueue"
  /\ pool' = pool \cup {u}
  /\ state' = [state EXCEPT ![u] = "searching"]
  /\ Goto(c, "push_job")
  /\ UNCHANGED <<userLock, pairLock, tries, search, offers, history, worker, counters>>

CommitPushJob(c) ==
  /\ call[c].pc = "push_job"
  /\ jobs' = Append(jobs, call[c].att)
  /\ FreeStartLock(c)
  /\ Finish(c)
  /\ UNCHANGED <<locks, pool, tries, offers, history, worker, counters>>

-----------------------------------------------------------------------------
(* The worker: runLoop, processMatchRequest, tryPairWithSortedCandidates.   *)

Pair(w) == {Owner(worker[w].job), worker[w].peer}

\* BRPOP and the reads before the retry loop.
TakeJob(w) ==
  LET a == Head(jobs)
      u == Owner(a) IN
  /\ worker[w].pc = "idle" /\ jobs # << >>
  /\ jobs' = Tail(jobs)
  /\ \/ /\ attempt[a].status # "searching" \/ state[u] = "locked"
        /\ UNCHANGED worker
     \/ /\ attempt[a].status = "searching" /\ state[u] = "in_room"
        /\ worker' = [worker EXCEPT ![w] = [Idle EXCEPT !.pc = "no_match", !.job = a]]
     \/ /\ attempt[a].status = "searching" /\ state[u] \in {"none", "searching"}
        /\ worker' = [worker EXCEPT ![w] = [Idle EXCEPT !.pc = "scan", !.job = a]]
  /\ Orphans(IF attempt[a].status = "searching" /\ state[u] = "locked" THEN {a} ELSE {})
  /\ UNCHANGED <<locks, pool, tries, startLock, offers, answers, freed, overtaken, call,
                 counters>>

\* getCandidates and scoring: the still-searching, compatible pool members.
Candidates(u) == {v \in pool \ {u} : state[v] = "searching" /\ {u, v} \in Compatible}

Scan(w) ==
  /\ worker[w].pc = "scan"
  /\ worker' = [worker EXCEPT ![w].pc = "try",
                              ![w].passes = @ + 1,
                              ![w].cands = Candidates(Owner(worker[w].job))]
  /\ UNCHANGED <<redis, history, call, counters>>

\* Fault variant: the worker gives up without recording no_match.
PassExhaustedSilently(w) ==
  /\ worker[w].pc = "try" /\ worker[w].cands = {}
  /\ worker' = [worker EXCEPT ![w] =
       IF worker[w].passes < MaxPasses THEN [@ EXCEPT !.pc = "scan"] ELSE Idle]
  /\ UNCHANGED <<redis, history, call, counters>>

\* The list is exhausted: back off and scan again, or give up.
PassExhausted(w) ==
  /\ worker[w].pc = "try" /\ worker[w].cands = {}
  /\ worker' = [worker EXCEPT ![w].pc =
                  IF worker[w].passes < MaxPasses THEN "scan" ELSE "no_match"]
  /\ UNCHANGED <<redis, history, call, counters>>

\* tryLockPair on the next candidate; the ranking decides which one that is.
TryLock(w) ==
  \E v \in worker[w].cands :
    LET p == {Owner(worker[w].job), v} IN
    /\ worker[w].pc = "try"
    /\ \/ /\ ~CanLock(p)
          /\ worker' = [worker EXCEPT ![w].cands = @ \ {v}]
          /\ UNCHANGED <<locks, freed>>
       \/ /\ CanLock(p)
          /\ pairLock' = pairLock \cup {p} /\ freed' = freed \ {p}
          /\ userLock' = [userLock EXCEPT ![v] = Owner(worker[w].job),
                                          ![Owner(worker[w].job)] = v]
          /\ state' = [u \in Users |-> IF u \in p THEN "locked" ELSE state[u]]
          /\ worker' = [worker EXCEPT ![w].cands = @ \ {v}, ![w].peer = v,
                                      ![w].pc = "locked"]
    /\ UNCHANGED <<pool, tries, search, offers, answers, overtaken, orphaned, call,
                   counters>>

\* Fault variant: whatever the peer's last attempt reads.
PeerHasAttempt(a, b) == b # None /\ b # a

\* The peer is still searching, under a request of its own.
PeerAvailable(a, b) == b # None /\ b # a /\ attempt[b].status = "searching"

\* The peer's last attempt is read and judged under the lock.
JudgePeer(w) ==
  LET v == worker[w].peer
      b == lastAttempt[v] IN
  /\ worker[w].pc = "locked"
  /\ worker' = [worker EXCEPT ![w].peerAtt = b, ![w].pc =
       IF PeerAvailable(worker[w].job, b) THEN "write_pending" ELSE "release"]
  /\ UNCHANGED <<redis, history, call, counters>>

ReleasePeer(w) ==
  /\ worker[w].pc = "release"
  /\ ReleasePair(Pair(w)) /\ Frees(Pair(w))
  /\ worker' = [worker EXCEPT ![w].pc = IF worker[w].peerAtt = None THEN "evict" ELSE "try",
                              ![w].peer = IF worker[w].peerAtt = None THEN @ ELSE None,
                              ![w].peerAtt = None]
  /\ UNCHANGED <<pool, tries, search, offers, answers, overtaken, orphaned, call, counters>>

EvictPeer(w) ==
  /\ worker[w].pc = "evict"
  /\ pool' = pool \ {worker[w].peer}
  /\ worker' = [worker EXCEPT ![w].pc = "try", ![w].peer = None]
  /\ UNCHANGED <<locks, tries, search, offers, history, call, counters>>

ProposalOf(w) ==
  LET a == worker[w].job
      b == worker[w].peerAtt IN
  IF Owner(a) < Owner(b)
  THEN [low |-> Owner(a), high |-> Owner(b), attLow |-> a, attHigh |-> b, roomAtt |-> a]
  ELSE [low |-> Owner(b), high |-> Owner(a), attLow |-> b, attHigh |-> a, roomAtt |-> a]

WritePending(w) ==
  /\ worker[w].pc = "write_pending"
  /\ pending' = [pending EXCEPT ![Pair(w)] = [rec |-> ProposalOf(w), connects |-> {}]]
  /\ worker' = [worker EXCEPT ![w].pc = "propose_self"]
  /\ dropped' = {d \in dropped : Both(d) # Pair(w)}
  /\ Overtakes(Pair(w), Late(Pair(w)) # {}
                          \/ \E i \in 1..Len(rooms) : rooms[i] = ProposalOf(w))
  /\ UNCHANGED <<locks, pool, tries, search, finalizing, rooms, connected, freed, orphaned,
                 call, counters>>

ProposeSelf(w) ==
  /\ worker[w].pc = "propose_self"
  /\ SetPaired(worker[w].job, "proposed", worker[w].peer, attempt[worker[w].job].room)
  /\ worker' = [worker EXCEPT ![w].pc = "propose_peer"]
  /\ UNCHANGED <<locks, pool, search, offers, history, call, counters>>

ProposePeer(w) ==
  LET b == worker[w].peerAtt IN
  /\ worker[w].pc = "propose_peer"
  /\ SetPaired(b, "proposed", Owner(worker[w].job), attempt[b].room)
  /\ worker' = [worker EXCEPT ![w] = Idle]
  /\ UNCHANGED <<locks, pool, search, offers, history, call, counters>>

GiveUpNoMatch(w) ==
  /\ worker[w].pc = "no_match"
  /\ SetStatus(worker[w].job, "no_match")
  /\ worker' = [worker EXCEPT ![w].pc = "remove"]
  /\ UNCHANGED <<locks, pool, search, offers, history, call, counters>>

GiveUpRemove(w) ==
  /\ worker[w].pc = "remove"
  /\ PoolRemove(Owner(worker[w].job))
  /\ worker' = [worker EXCEPT ![w] = Idle]
  /\ UNCHANGED <<userLock, pairLock, tries, search, offers, history, call, counters>>

-----------------------------------------------------------------------------
(* respondToMatchProposal.                                                   *)

\* The attempt is read and must be the caller's, proposed, with a peer.
Respond(c, a, decision) ==
  /\ decision \in Ops \cap {"connect", "skip"}
  /\ attempt[a].status = "proposed"
  /\ Start(c, [NoCall EXCEPT !.pc = "read_pending", !.op = decision,
                 !.user = Owner(a), !.att = a, !.peer = attempt[a].peer])
  /\ UNCHANGED <<redis, history, worker, losses>>

\* readPending; an absent record ends the call with proposal_expired.
RespondReadPending(c) ==
  LET d == pending[CallPair(c)].rec IN
  /\ call[c].pc = "read_pending"
  /\ \/ /\ d = None
        /\ Finish(c)
        /\ UNCHANGED connected
     \/ /\ d # None /\ call[c].op = "skip"
        /\ call' = [call EXCEPT ![c].prop = d, ![c].pc = "drop_pending"]
        /\ UNCHANGED connected
     \/ /\ d # None /\ call[c].op = "connect"
        /\ call' = [call EXCEPT ![c].prop = d, ![c].pc = "connect"]
        /\ connected' = connected \cup {<<call[c].att, call[c].peer>>}
  /\ UNCHANGED <<redis, rooms, dropped, mishaps, worker, counters>>

\* Fault variants: no NX on the finalize key; one connect is enough.
FinalizesEachTime(p, flags) == flags = p
FinalizesOnEither(p, flags) == p \notin finalizing

\* Both connect flags are set and the finalize key was free (SET NX).
Finalizes(p, flags) == flags = p /\ p \notin finalizing

\* The recordProposalConnect script: rc 2 makes this call the finalizer.
RecordConnect(c) ==
  LET p == CallPair(c)
      flags == pending[p].connects \cup {call[c].user} IN
  /\ call[c].pc = "connect"
  /\ pending' = [pending EXCEPT ![p].connects = flags]
  /\ \/ /\ Finalizes(p, flags)
        /\ finalizing' = finalizing \cup {p}
        /\ Goto(c, "create_room")
     \/ /\ ~Finalizes(p, flags)
        /\ Finish(c)
        /\ UNCHANGED finalizing
  /\ UNCHANGED <<locks, pool, tries, search, history, worker, counters>>

\* Fault variants: a failed room request only ends the call; its result is
\* not looked at.
CreateRoomUnhandled(c) ==
  /\ call[c].pc = "create_room"
  /\ \/ /\ rooms' = Append(rooms, call[c].prop)
        /\ call' = [call EXCEPT ![c].pc = "in_room", ![c].room = Len(rooms) + 1]
        /\ UNCHANGED failed
     \/ /\ failed < MaxRoomFails /\ failed' = failed + 1
        /\ UNCHANGED rooms
        /\ Finish(c)
  /\ UNCHANGED <<redis, connected, dropped, mishaps, worker, made, deaths, lapses>>

\* The room service makes a new room per request; the answer may be an error
\* or a timeout, and a timed-out request may still have made the room.
CreateRoom(c) ==
  /\ call[c].pc = "create_room"
  /\ \/ /\ rooms' = Append(rooms, call[c].prop)
        /\ call' = [call EXCEPT ![c].pc = "in_room", ![c].room = Len(rooms) + 1]
        /\ UNCHANGED failed
     \/ /\ failed < MaxRoomFails /\ failed' = failed + 1
        /\ rooms' \in {rooms, Append(rooms, call[c].prop)}
        /\ Goto(c, "drop_pending")
  /\ UNCHANGED <<redis, connected, dropped, mishaps, worker, made, deaths, lapses>>

MarkPairInRoom(c) ==
  LET p == Both(call[c].prop) IN
  /\ call[c].pc = "in_room"
  /\ pool' = pool \ p
  /\ pairLock' = pairLock \ {p}
  /\ userLock' = [u \in Users |-> IF u \in p THEN None ELSE userLock[u]]
  /\ state' = [u \in Users |-> IF u \in p THEN "in_room" ELSE state[u]]
  /\ Frees(p)
  /\ Goto(c, "matched_low")
  /\ UNCHANGED <<tries, search, offers, answers, overtaken, orphaned, worker, counters>>

\* Fault variants: only the caller is marked; whatever attempt is last now.
MarkCallerMatched(c) ==
  /\ call[c].pc = "matched_low"
  /\ SetPaired(call[c].att, "matched", call[c].peer, call[c].room)
  /\ Goto(c, "clear_pending")
  /\ UNCHANGED <<locks, pool, search, offers, history, worker, counters>>
MarkLastMatched(c) ==
  LET d == call[c].prop IN
  /\ \/ /\ call[c].pc = "matched_low"
        /\ SetPaired(lastAttempt[d.low], "matched", d.high, call[c].room)
        /\ Goto(c, "matched_high")
     \/ /\ call[c].pc = "matched_high"
        /\ SetPaired(lastAttempt[d.high], "matched", d.low, call[c].room)
        /\ Goto(c, "clear_pending")
  /\ UNCHANGED <<locks, pool, search, offers, history, worker, counters>>

MarkMatched(c) ==
  LET d == call[c].prop IN
  /\ \/ /\ call[c].pc = "matched_low"
        /\ SetPaired(d.attLow, "matched", d.high, call[c].room)
        /\ Goto(c, "matched_high")
     \/ /\ call[c].pc = "matched_high"
        /\ SetPaired(d.attHigh, "matched", d.low, call[c].room)
        /\ Goto(c, "clear_pending")
  /\ UNCHANGED <<locks, pool, search, offers, history, worker, counters>>

ClearPending(c) ==
  LET p == Both(call[c].prop) IN
  /\ call[c].pc = "clear_pending"
  /\ DeletePending(p)
  /\ Overtakes(p, ~Undecided(p))
  /\ Finish(c)
  /\ UNCHANGED <<locks, pool, tries, search, answers, freed, orphaned, worker, counters>>

-----------------------------------------------------------------------------
(* teardownProposal: after a skip, a cancel or a failed room creation.      *)

TeardownDropPending(c) ==
  LET p == Both(call[c].prop) IN
  /\ call[c].pc = "drop_pending"
  /\ DeletePending(p)
  /\ Goto(c, "release")
  /\ dropped' = IF Undecided(p) THEN dropped \cup {call[c].prop} ELSE dropped
  /\ Overtakes(p, ~Undecided(p))
  /\ UNCHANGED <<locks, pool, tries, search, rooms, connected, freed, orphaned, worker,
                 counters>>

TeardownRelease(c) ==
  /\ call[c].pc = "release"
  /\ ReleasePair(Both(call[c].prop)) /\ Frees(Both(call[c].prop))
  /\ Goto(c, "no_match_low")
  /\ UNCHANGED <<pool, tries, search, offers, answers, overtaken, orphaned, worker, counters>>

TeardownNoMatch(c) ==
  /\ \/ /\ call[c].pc = "no_match_low"
        /\ SetStatus(call[c].prop.attLow, "no_match")
        /\ Goto(c, "no_match_high")
     \/ /\ call[c].pc = "no_match_high"
        /\ SetStatus(call[c].prop.attHigh, "no_match")
        /\ Finish(c)
  /\ UNCHANGED <<locks, pool, search, offers, history, worker, counters>>

-----------------------------------------------------------------------------
(* cancelMatch and leaveRoom.                                                *)

\* The request to cancel is the attempt that is last when the call arrives.
Cancel(c, u) ==
  /\ "cancel" \in Ops
  /\ Start(c, [NoCall EXCEPT !.pc = "cancel_remove", !.op = "cancel",
                             !.user = u, !.att = lastAttempt[u]])
  /\ UNCHANGED <<redis, history, worker, losses>>

CancelRemove(c) ==
  /\ call[c].pc = "cancel_remove"
  /\ PoolRemove(call[c].user)
  /\ IF call[c].att = None THEN Finish(c) ELSE Goto(c, "cancel_read")
  /\ UNCHANGED <<userLock, pairLock, tries, search, offers, history, worker, counters>>

CancelReadAttempt(c) ==
  LET r == attempt[call[c].att] IN
  /\ call[c].pc = "cancel_read"
  /\ IF r.status = "proposed"
     THEN call' = [call EXCEPT ![c].pc = "cancel_pending", ![c].peer = r.peer]
     ELSE Goto(c, "cancel_mark")
  /\ UNCHANGED <<redis, history, worker, counters>>

CancelReadPending(c) ==
  LET d == pending[CallPair(c)].rec IN
  /\ call[c].pc = "cancel_pending"
  /\ IF d = None THEN Goto(c, "cancel_mark")
     ELSE call' = [call EXCEPT ![c].pc = "drop_pending", ![c].prop = d]
  /\ UNCHANGED <<redis, history, worker, counters>>

CancelMark(c) ==
  /\ call[c].pc = "cancel_mark"
  /\ SetStatus(call[c].att, "no_match")
  /\ Finish(c)
  /\ UNCHANGED <<locks, pool, search, offers, history, worker, counters>>

\* The last attempt and its status are read; only a matched one is marked.
Leave(c, u) ==
  LET a == lastAttempt[u] IN
  /\ "leave" \in Ops
  /\ Start(c, [NoCall EXCEPT !.op = "leave", !.user = u, !.att = a, !.pc =
       IF a # None /\ attempt[a].status = "matched" THEN "leave_mark" ELSE "leave_clear"])
  /\ UNCHANGED <<redis, history, worker, losses>>

LeaveMark(c) ==
  /\ call[c].pc = "leave_mark"
  /\ SetStatus(call[c].att, "no_match")
  /\ Goto(c, "leave_clear")
  /\ UNCHANGED <<locks, pool, search, offers, history, worker, counters>>

LeaveClear(c) ==
  LET u == call[c].user IN
  /\ call[c].pc = "leave_clear"
  /\ PoolRemove(u)
  /\ userLock' = [userLock EXCEPT ![u] = None] /\ Frees({u})
  /\ Finish(c)
  /\ UNCHANGED <<pairLock, tries, search, offers, answers, overtaken, orphaned, worker,
                 counters>>

-----------------------------------------------------------------------------
(* Faults and time.                                                          *)

\* A Redis error or a killed process ends a call between two awaits; the
\* finally block of startFindMatch still frees the start-search lock, or its
\* TTL does.
CallDies(c) ==
  /\ call[c].pc # "free"
  /\ deaths < MaxDeaths /\ deaths' = deaths + 1
  /\ IF call[c].pc \in CommitPcs THEN FreeStartLock(c) ELSE UNCHANGED startLock
  /\ Finish(c)
  /\ Orphans(IF call[c].pc \in {"enqueue", "push_job"} THEN {call[c].att} ELSE {})
  /\ UNCHANGED <<locks, pool, tries, jobs, offers, answers, freed, overtaken, worker, made,
                 failed, lapses>>

\* The same for the worker's job: BRPOP has already removed it.
JobDies(w) ==
  /\ worker[w].pc # "idle"
  /\ deaths < MaxDeaths /\ deaths' = deaths + 1
  /\ worker' = [worker EXCEPT ![w] = Idle]
  /\ Orphans({worker[w].job})
  /\ UNCHANGED <<redis, answers, freed, overtaken, call, made, failed, lapses>>

\* The start-search lock reaches its 10 s under a slow holder.
StartLockLapses(u) ==
  /\ startLock[u] # None
  /\ lapses < MaxLapses /\ lapses' = lapses + 1
  /\ startLock' = [startLock EXCEPT ![u] = None]
  /\ UNCHANGED <<locks, pool, tries, jobs, offers, history, worker, call, made,
                 failed, deaths>>

Pairing(p) == \E w \in Workers :
  worker[w].pc \in {"locked", "release", "write_pending", "propose_self", "propose_peer"}
  /\ Pair(w) = p

\* The pending hash, if a record was written to it, reaches its TTL; a hash
\* that a late connect made has none.
ExpirePending(p) ==
  pending' = [pending EXCEPT ![p] = IF @.rec = None THEN @ ELSE [rec |-> None, connects |-> {}]]

\* The lock keys of one grant share a deadline and the pending hash follows
\* within milliseconds.  The worker's own steps never straddle 180 s.
ProposalLapses(p) ==
  /\ p \in pairLock /\ ~Pairing(p)
  /\ lapses < MaxLapses /\ lapses' = lapses + 1
  /\ pairLock' = pairLock \ {p}
  /\ userLock' = [u \in Users |-> IF u \in p /\ userLock[u] \in p THEN None ELSE userLock[u]]
  /\ ExpirePending(p)
  /\ UNCHANGED <<state, pool, tries, search, finalizing, history, worker, call, made,
                 failed, deaths>>

\* A record whose locks were released under it is left to its own TTL.
PendingLapses(p) ==
  /\ p \notin pairLock /\ pending[p].rec # None /\ ~Pairing(p)
  /\ lapses < MaxLapses /\ lapses' = lapses + 1
  /\ ExpirePending(p)
  /\ UNCHANGED <<locks, pool, tries, search, finalizing, history, worker, call, made,
                 failed, deaths>>

\* The finalize key outlives the room request, which gives up after 7 s of 45.
FinalizeLapses(p) ==
  /\ p \in finalizing
  /\ \A c \in Calls : call[c].pc \in FinishPcs \cup TeardownPcs => Both(call[c].prop) # p
  /\ finalizing' = finalizing \ {p}
  /\ Overtakes(p, TRUE)
  /\ UNCHANGED <<locks, pool, tries, search, pending, answers, freed, orphaned, worker, call,
                 counters>>

\* An attempt and the pointer to it expire 600 s after their last write: no
\* job, call, lock or proposal of the owner is that old.
AttemptLapses(a) ==
  LET u == Owner(a) IN
  /\ attempt[a].status \notin {"absent", "expired"}
  /\ lapses < MaxLapses /\ lapses' = lapses + 1
  /\ \A i \in 1..Len(jobs) : jobs[i] # a
  /\ \A w \in Workers : worker[w].pc = "idle"
  /\ \A c \in Calls : call[c].pc = "free"
  /\ \A p \in Pairs : u \in p => p \notin pairLock /\ pending[p].rec = None
  /\ attempt' = [attempt EXCEPT ![a] = [status |-> "expired", peer |-> None, room |-> 0]]
  /\ lastAttempt' = [lastAttempt EXCEPT ![u] = IF @ = a THEN None ELSE @]
  /\ UNCHANGED <<locks, pool, search, offers, history, worker, call, made, failed,
                 deaths>>

\* The in_room state is a failsafe of 7200 s.
InRoomLapses(u) ==
  /\ state[u] = "in_room"
  /\ lapses < MaxLapses /\ lapses' = lapses + 1
  /\ state' = [state EXCEPT ![u] = "none"]
  /\ UNCHANGED <<userLock, pairLock, pool, tries, search, offers, history, worker, call,
                 made, failed, deaths>>

-----------------------------------------------------------------------------
Arrive(c) ==
  \/ \E a \in Attempts : FindArrive(c, a)
  \/ \E a \in Attempts, decision \in Ops : Respond(c, a, decision)
  \/ \E u \in Users : Cancel(c, u) \/ Leave(c, u)

CallStep(c) ==
  \/ FindRefuse(c) \/ FindAcquire(c) \/ FindRecheck(c)
  \/ CommitSetSearching(c) \/ CommitEnqueue(c) \/ CommitPushJob(c)
  \/ RespondReadPending(c) \/ RecordConnect(c) \/ CreateRoom(c)
  \/ MarkPairInRoom(c) \/ MarkMatched(c) \/ ClearPending(c)
  \/ TeardownDropPending(c) \/ TeardownRelease(c) \/ TeardownNoMatch(c)
  \/ CancelRemove(c) \/ CancelReadAttempt(c) \/ CancelReadPending(c)
  \/ CancelMark(c) \/ LeaveMark(c) \/ LeaveClear(c)

WorkerStep(w) ==
  \/ TakeJob(w) \/ Scan(w) \/ PassExhausted(w) \/ TryLock(w) \/ JudgePeer(w)
  \/ ReleasePeer(w) \/ EvictPeer(w) \/ WritePending(w) \/ ProposeSelf(w)
  \/ ProposePeer(w) \/ GiveUpNoMatch(w) \/ GiveUpRemove(w)

Environment ==
  \/ \E c \in Calls : CallDies(c) \/ FindWaitExhausted(c)
  \/ \E w \in Workers : JobDies(w)
  \/ \E p \in Pairs : ProposalLapses(p) \/ PendingLapses(p) \/ FinalizeLapses(p)
  \/ \E a \in Attempts : AttemptLapses(a)
  \/ \E u \in Users : InRoomLapses(u) \/ StartLockLapses(u)

Next ==
  \/ \E c \in Calls : Arrive(c) \/ CallStep(c)
  \/ \E w \in Workers : WorkerStep(w)
  \/ Environment

Spec == Init /\ [][Next]_vars

\* Handlers run on until they finish, and the worker loop never stops.
FairSpec ==
  /\ Spec
  /\ \A c \in Calls : WF_vars(CallStep(c))
  /\ \A w \in Workers : WF_vars(WorkerStep(w))

=============================================================================
