---------------------------- MODULE MatchingProofs ----------------------------
(***************************************************************************)
(* Proofs that the matchmaking engine keeps its inductive invariant, and   *)
(* what follows from it, for any users, calls, workers and bounds.         *)
(***************************************************************************)
EXTENDS MatchingProperties, SequenceTheorems, TLAPS

\* Owner gives a user, and Pairs are the two-element sets of users.
LEMMA OwnerIsUser == ASSUME NEW a \in Attempts PROVE Owner(a) \in Users
  BY DEF Attempts, Owner

\* Two different users are a pair, the key of a pending record.
LEMMA PairOfTwo ==
  ASSUME NEW u \in Users, NEW v \in Users, u # v PROVE {u, v} \in Pairs
  BY DEF Pairs

\* An absent key is told apart from every user, attempt and proposal.
LEMMA NoneIsNobody == None \notin Users /\ None \notin Attempts /\ None \notin Proposals
  BY NoneAssumption

\* The invariant holds initially.
LEMMA InitInductive == Init => Inductive
<1> SUFFICES ASSUME Init PROVE Inductive
  OBVIOUS
<1> USE NoneIsNobody DEF Init
<1>1. TypeOK
  BY DEF TypeOK, States, Statuses, CallPcs, WorkerPcs, NoCall, Idle, Pairs
<1>2. KeysOwned
  BY DEF KeysOwned, LastOwned, ProposedNamesPeer, PendingKeyed
<1>3. CallShape
  BY DEF CallShape, CallOK, NoCall, AttemptPcs, CommitPcs, PeerPcs, ProposalPcs, TeardownPcs,
     FinishPcs
<1>4. WorkerShape
  BY DEF WorkerShape, WorkerOK, Idle, PairingPcs, ProposingPcs
<1>5. ConsentKept
  BY DEF ConsentKept, NoCall, FinishPcs
<1>6. RoomsKept
  BY DEF RoomsKept, MatchedAttemptHasRoom, NoCall, FinishPcs
<1> QED
  BY <1>1, <1>2, <1>3, <1>4, <1>5, <1>6 DEF Inductive


-----------------------------------------------------------------------------
(* Who writes what: the calls never touch the workers' locals, the workers  *)
(* never touch the calls' locals or the histories.                          *)

\* The HTTP handlers never touch a worker's locals.
LEMMA CallsKeepWorkers ==
  ASSUME NEW c \in Calls, Arrive(c) \/ CallStep(c) PROVE worker' = worker
<1>1. CASE Arrive(c)
  BY <1>1 DEF Arrive, FindArrive, Respond, Cancel, Leave
<1>2. CASE CallStep(c)
  BY <1>2 DEF CallStep, FindRefuse, FindAcquire, FindRecheck, CommitSetSearching,
     CommitEnqueue, CommitPushJob, RespondReadPending, RecordConnect, CreateRoom,
     MarkPairInRoom, MarkMatched, ClearPending, TeardownDropPending, TeardownRelease,
     TeardownNoMatch, CancelRemove, CancelReadAttempt, CancelReadPending, CancelMark,
     LeaveMark, LeaveClear
<1> QED
  BY <1>1, <1>2

\* The workers never touch a call's locals, the rooms or the consents.
LEMMA WorkersKeepCalls ==
  ASSUME NEW w \in Workers, WorkerStep(w)
  PROVE /\ UNCHANGED <<call, rooms, connected, made, failed, deaths, lapses>>
        /\ dropped' \subseteq dropped
<1>1. CASE WritePending(w)
  BY <1>1 DEF WritePending, counters, losses
<1>2. CASE ~ WritePending(w)
  BY <1>2 DEF WorkerStep, TakeJob, Scan, PassExhausted, TryLock, JudgePeer, ReleasePeer,
     EvictPeer, ProposeSelf, ProposePeer, GiveUpNoMatch, GiveUpRemove, history, answers, counters,
     losses
<1> QED
  BY <1>1, <1>2

\* The environment only ends jobs.
LEMMA EnvironmentOnWorkers ==
  ASSUME Environment
  PROVE worker' = worker \/ \E w \in Workers : worker' = [worker EXCEPT ![w] = Idle]
BY DEF Environment, CallDies, JobDies, FindWaitExhausted, ProposalLapses, PendingLapses,
   FinalizeLapses, AttemptLapses, InRoomLapses, StartLockLapses

-----------------------------------------------------------------------------
(* The workers' locals.                                                      *)

\* A worker between two jobs is well shaped.
LEMMA IdleOK == WorkerOK(Idle)
  BY DEF WorkerOK, Idle, PairingPcs, ProposingPcs

\* A step that sets one worker's locals to a well-shaped record.
LEMMA WorkerSet ==
  ASSUME TypeOK, WorkerShape, NEW w \in Workers, NEW r, WorkerOK(r),
         worker' = [worker EXCEPT ![w] = r]
  PROVE  WorkerShape'
BY DEF TypeOK, WorkerShape

\* Every step leaves the workers' locals well shaped: the peer a worker locked
\* is never the user it works for.
LEMMA WorkerShapeStep ==
  ASSUME Inductive, [Next]_vars PROVE WorkerShape'
<1>0. WorkerShape /\ TypeOK /\ KeysOwned
  BY DEF Inductive
<1>1. CASE worker' = worker
  BY <1>0, <1>1 DEF WorkerShape
<1>2. ASSUME NEW w \in Workers, worker' = [worker EXCEPT ![w] = Idle] PROVE WorkerShape'
  BY <1>0, <1>2, IdleOK, WorkerSet
<1>3. ASSUME NEW w \in Workers, WorkerStep(w) PROVE WorkerShape'
  <2>0. WorkerOK(worker[w]) /\ worker[w].cands \subseteq Users
    BY <1>0 DEF WorkerShape, TypeOK
  <2> USE <1>0, <2>0 DEF WorkerOK, PairingPcs, ProposingPcs
  <2>1. CASE TakeJob(w)
    <3>1. Head(jobs) \in Attempts
      BY <2>1 DEF TakeJob, TypeOK
    <3>2. ASSUME NEW pc \in {"no_match", "scan"}
          PROVE  WorkerOK([Idle EXCEPT !.pc = pc, !.job = Head(jobs)])
      BY <3>1 DEF Idle
    <3> QED
      BY <2>1, <1>1, <3>2, WorkerSet DEF TakeJob
  <2>2. CASE Scan(w)
    <3> DEFINE r == [worker[w] EXCEPT !.pc = "try", !.passes = @ + 1,
                                      !.cands = Candidates(Owner(worker[w].job))]
    <3>1. worker' = [worker EXCEPT ![w] = r]
      BY <2>2 DEF Scan, TypeOK
    <3>2. Owner(worker[w].job) \notin Candidates(Owner(worker[w].job))
      BY DEF Candidates
    <3>3. WorkerOK(r)
      BY <2>2, <2>0, <1>0, <3>2 DEF Scan, TypeOK
    <3> HIDE DEF r
    <3> QED
      BY <3>1, <3>3, <1>0, WorkerSet
  <2>3. CASE PassExhausted(w)
    BY <2>3 DEF PassExhausted, TypeOK, WorkerShape
  <2>4. CASE TryLock(w)
    <3>1. PICK v \in worker[w].cands :
            \/ worker' = [worker EXCEPT ![w].cands = @ \ {v}]
            \/ worker' = [worker EXCEPT ![w].cands = @ \ {v}, ![w].peer = v, ![w].pc = "locked"]
      BY <2>4 DEF TryLock
    <3>2. worker[w].pc = "try" /\ v \in Users /\ v # Owner(worker[w].job)
      BY <2>4 DEF TryLock
    <3>3. WorkerOK([worker[w] EXCEPT !.cands = @ \ {v}])
      BY <3>2 DEF TypeOK
    <3>4. WorkerOK([worker[w] EXCEPT !.cands = @ \ {v}, !.peer = v, !.pc = "locked"])
      BY <3>2 DEF TypeOK
    <3>5. \E r : WorkerOK(r) /\ worker' = [worker EXCEPT ![w] = r]
      BY <3>1, <3>3, <3>4, <1>0 DEF TypeOK
    <3> QED
      BY <3>5, <1>0, WorkerSet
  <2>5. CASE JudgePeer(w)
    BY <2>5 DEF JudgePeer, PeerAvailable, KeysOwned, LastOwned, TypeOK, WorkerShape
  <2>6. CASE ReleasePeer(w)
    BY <2>6 DEF ReleasePeer, TypeOK, WorkerShape
  <2>7. CASE EvictPeer(w)
    BY <2>7 DEF EvictPeer, TypeOK, WorkerShape
  <2>8. CASE WritePending(w)
    BY <2>8 DEF WritePending, TypeOK, WorkerShape
  <2>9. CASE ProposeSelf(w)
    BY <2>9 DEF ProposeSelf, TypeOK, WorkerShape
  <2>10. CASE ProposePeer(w) \/ GiveUpRemove(w)
    BY <2>10, <1>2 DEF ProposePeer, GiveUpRemove
  <2>11. CASE GiveUpNoMatch(w)
    BY <2>11 DEF GiveUpNoMatch, TypeOK, WorkerShape
  <2> QED
    BY <1>3, <2>1, <2>2, <2>3, <2>4, <2>5, <2>6, <2>7, <2>8, <2>9, <2>10, <2>11
    DEF WorkerStep
<1>4. CASE UNCHANGED vars
  BY <1>1, <1>4 DEF vars
<1> QED
  BY <1>1, <1>2, <1>3, <1>4, CallsKeepWorkers, EnvironmentOnWorkers DEF Next

-----------------------------------------------------------------------------
(* The calls' locals.                                                        *)

\* A call that has finished is well shaped.
LEMMA FreeOK == CallOK(NoCall)
  BY NoneIsNobody DEF CallOK, NoCall, AttemptPcs, CommitPcs, PeerPcs, ProposalPcs,
     TeardownPcs, FinishPcs

\* A step that sets one call's locals to a well-shaped record.
LEMMA CallSet ==
  ASSUME TypeOK, CallShape, NEW c \in Calls, NEW r, CallOK(r),
         call' = [call EXCEPT ![c] = r]
  PROVE  CallShape'
BY DEF TypeOK, CallShape

\* A step that only moves one call's program counter.
LEMMA CallGoto ==
  ASSUME TypeOK, CallShape, NEW c \in Calls, NEW pc, Goto(c, pc),
         CallOK([call[c] EXCEPT !.pc = pc])
  PROVE  CallShape'
<1>1. call' = [call EXCEPT ![c] = [call[c] EXCEPT !.pc = pc]]
  BY DEF Goto, TypeOK
<1> QED
  BY <1>1, CallSet

\* An arriving call has read an attempt of the caller, and a peer who is not.
LEMMA ArriveShape ==
  ASSUME Inductive, NEW c \in Calls, Arrive(c) PROVE CallShape'
<1>0. TypeOK /\ KeysOwned /\ CallShape
  BY DEF Inductive
<1> SUFFICES \E r : CallOK(r) /\ call' = [call EXCEPT ![c] = r]
  BY <1>0, CallSet
<1> USE NoneIsNobody, OwnerIsUser, <1>0
    DEF CallOK, NoCall, AttemptPcs, CommitPcs, PeerPcs, ProposalPcs, TeardownPcs, FinishPcs
<1>1. ASSUME NEW a \in Attempts, FindArrive(c, a)
      PROVE  \E r : CallOK(r) /\ call' = [call EXCEPT ![c] = r]
  <2> DEFINE r(pc) == [NoCall EXCEPT !.op = "find", !.user = Owner(a), !.att = a, !.pc = pc]
  <2>1. CallOK(r("acquire")) /\ CallOK(r("refuse"))
    OBVIOUS
  <2>2. \E pc \in {"acquire", "refuse"} : call' = [call EXCEPT ![c] = r(pc)]
    BY <1>1 DEF FindArrive, Start
  <2> QED
    BY <2>1, <2>2
<1>2. ASSUME NEW a \in Attempts, NEW decision \in Ops, Respond(c, a, decision)
      PROVE  \E r : CallOK(r) /\ call' = [call EXCEPT ![c] = r]
  <2> DEFINE r == [NoCall EXCEPT !.pc = "read_pending", !.op = decision,
                                 !.user = Owner(a), !.att = a, !.peer = attempt[a].peer]
  <2>1. CallOK(r)
    BY <1>2 DEF Respond, KeysOwned, ProposedNamesPeer
  <2>2. call' = [call EXCEPT ![c] = r]
    BY <1>2 DEF Respond, Start
  <2> QED
    BY <2>1, <2>2
<1>3. ASSUME NEW u \in Users, Cancel(c, u)
      PROVE  \E r : CallOK(r) /\ call' = [call EXCEPT ![c] = r]
  <2> DEFINE r == [NoCall EXCEPT !.pc = "cancel_remove", !.op = "cancel",
                                 !.user = u, !.att = lastAttempt[u]]
  <2>1. CallOK(r)
    BY DEF KeysOwned, LastOwned, TypeOK
  <2>2. call' = [call EXCEPT ![c] = r]
    BY <1>3 DEF Cancel, Start
  <2> QED
    BY <2>1, <2>2
<1>4. ASSUME NEW u \in Users, Leave(c, u)
      PROVE  \E r : CallOK(r) /\ call' = [call EXCEPT ![c] = r]
  <2> DEFINE r(pc) == [NoCall EXCEPT !.op = "leave", !.user = u, !.att = lastAttempt[u], !.pc = pc]
  <2>1. CallOK(r("leave_clear")) /\ (lastAttempt[u] # None => CallOK(r("leave_mark")))
    BY DEF KeysOwned, LastOwned, TypeOK
  <2>2. \/ call' = [call EXCEPT ![c] = r("leave_clear")]
        \/ lastAttempt[u] # None /\ call' = [call EXCEPT ![c] = r("leave_mark")]
    BY <1>4 DEF Leave, Start
  <2> QED
    BY <2>1, <2>2
<1> QED
  BY <1>1, <1>2, <1>3, <1>4 DEF Arrive

\* A handler's own steps keep its locals well shaped: a proposal it carries on
\* is the one the pending record held.
LEMMA CallStepShape ==
  ASSUME Inductive, NEW c \in Calls, CallStep(c) PROVE CallShape'
<1>0. TypeOK /\ KeysOwned /\ CallShape /\ CallOK(call[c])
  BY DEF Inductive, CallShape
<1> USE <1>0
<1> DEFINE MayGoto(pc) == CallOK([call[c] EXCEPT !.pc = pc])
<1>1. CASE Finish(c)
  BY <1>1, FreeOK, CallSet DEF Finish
<1>2. ASSUME NEW pc, Goto(c, pc), MayGoto(pc) PROVE CallShape'
  BY <1>2, CallGoto
<1> HIDE DEF MayGoto
<1> USE <1>1, <1>2
<1>3. CASE FindAcquire(c) \/ FindRecheck(c) \/ CommitSetSearching(c) \/ CommitEnqueue(c)
  <2>1. call[c].pc \in {"acquire", "recheck", "set_searching", "enqueue"}
    BY <1>3 DEF FindAcquire, FindRecheck, CommitSetSearching, CommitEnqueue
  <2>2. \A pc \in CommitPcs : MayGoto(pc)
    BY <2>1 DEF MayGoto, CallOK, TypeOK, AttemptPcs, CommitPcs, PeerPcs, ProposalPcs,
       TeardownPcs, FinishPcs
  <2>3. Finish(c) \/ \E pc \in CommitPcs : Goto(c, pc)
    BY <1>3 DEF FindAcquire, FindRecheck, CommitSetSearching, CommitEnqueue, CommitPcs
  <2> QED
    BY <2>2, <2>3
<1>4. CASE FindRefuse(c) \/ CommitPushJob(c) \/ ClearPending(c) \/ CancelMark(c) \/ LeaveClear(c)
  BY <1>4 DEF FindRefuse, CommitPushJob, ClearPending, CancelMark, LeaveClear
<1>5. CASE RespondReadPending(c)
  <2> DEFINE p == CallPair(c)
             d == pending[p].rec
             r(pc) == [call[c] EXCEPT !.prop = d, !.pc = pc]
  <2>1. call[c].pc = "read_pending" /\ p \in Pairs
    BY <1>5, PairOfTwo DEF RespondReadPending, CallPair, CallOK, PeerPcs
  <2>2. ASSUME d # None PROVE CallOK(r("drop_pending")) /\ CallOK(r("connect"))
    <3>1. WellFormed(d) /\ Both(d) = {call[c].user, call[c].peer}
      BY <2>1, <2>2 DEF KeysOwned, PendingKeyed, CallPair
    <3> QED
      BY <2>1, <3>1 DEF CallOK, TypeOK, AttemptPcs, CommitPcs, PeerPcs, ProposalPcs,
         TeardownPcs, FinishPcs
  <2>3. \/ Finish(c)
        \/ d # None /\ call' = [call EXCEPT ![c].prop = d, ![c].pc = "drop_pending"]
        \/ d # None /\ call' = [call EXCEPT ![c].prop = d, ![c].pc = "connect"]
    BY <1>5 DEF RespondReadPending
  <2>4. \A pc : [call EXCEPT ![c].prop = d, ![c].pc = pc] = [call EXCEPT ![c] = r(pc)]
    <3> HIDE DEF d
    <3> QED
      BY DEF TypeOK
  <2> QED
    BY <2>2, <2>3, <2>4, CallSet
<1>6. CASE RecordConnect(c)
  <2>1. call[c].pc = "connect" /\ (Finish(c) \/ Goto(c, "create_room"))
    BY <1>6 DEF RecordConnect
  <2>2. MayGoto("create_room")
    BY <2>1 DEF MayGoto, CallOK, TypeOK, AttemptPcs, CommitPcs, PeerPcs, ProposalPcs,
       TeardownPcs, FinishPcs
  <2> QED
    BY <2>1, <2>2
<1>7. CASE CreateRoom(c)
  <2> DEFINE r == [call[c] EXCEPT !.pc = "in_room", !.room = Len(rooms) + 1]
  <2>1. call[c].pc = "create_room"
    BY <1>7 DEF CreateRoom
  <2>2. CallOK(r) /\ MayGoto("drop_pending")
    BY <2>1 DEF MayGoto, CallOK, TypeOK, AttemptPcs, CommitPcs, PeerPcs, ProposalPcs,
       TeardownPcs, FinishPcs
  <2>3. call' = [call EXCEPT ![c] = r] \/ Goto(c, "drop_pending")
    BY <1>7 DEF CreateRoom, TypeOK
  <2> QED
    BY <2>2, <2>3, CallSet
<1>8. CASE MarkPairInRoom(c) \/ MarkMatched(c) \/ TeardownDropPending(c) \/ TeardownRelease(c)
           \/ TeardownNoMatch(c)
  <2>1. call[c].pc \in FinishPcs \cup TeardownPcs
    BY <1>8 DEF MarkPairInRoom, MarkMatched, TeardownDropPending, TeardownRelease,
       TeardownNoMatch, FinishPcs, TeardownPcs
  <2>2. \A pc \in FinishPcs \cup TeardownPcs : MayGoto(pc)
    BY <2>1 DEF MayGoto, CallOK, TypeOK, AttemptPcs, CommitPcs, PeerPcs, ProposalPcs,
       TeardownPcs, FinishPcs
  <2>3. Finish(c) \/ \E pc \in FinishPcs \cup TeardownPcs : Goto(c, pc)
    BY <1>8 DEF MarkPairInRoom, MarkMatched, TeardownDropPending, TeardownRelease,
       TeardownNoMatch, FinishPcs, TeardownPcs
  <2> QED
    BY <2>2, <2>3
<1>9. CASE CancelRemove(c) \/ LeaveMark(c)
  <2>1. \/ Finish(c)
        \/ call[c].pc = "cancel_remove" /\ call[c].att # None /\ Goto(c, "cancel_read")
        \/ call[c].pc = "leave_mark" /\ Goto(c, "leave_clear")
    BY <1>9 DEF CancelRemove, LeaveMark
  <2>2. ASSUME call[c].pc = "cancel_remove", call[c].att # None PROVE MayGoto("cancel_read")
    BY <2>2 DEF MayGoto, CallOK, TypeOK, AttemptPcs, CommitPcs, PeerPcs, ProposalPcs,
       TeardownPcs, FinishPcs
  <2>3. ASSUME call[c].pc = "leave_mark" PROVE MayGoto("leave_clear")
    BY <2>3 DEF MayGoto, CallOK, TypeOK, AttemptPcs, CommitPcs, PeerPcs, ProposalPcs,
       TeardownPcs, FinishPcs
  <2> QED
    BY <2>1, <2>2, <2>3
<1>10. CASE CancelReadAttempt(c)
  <2> DEFINE q == attempt[call[c].att]
             r == [call[c] EXCEPT !.pc = "cancel_pending", !.peer = q.peer]
  <2>1. call[c].pc = "cancel_read" /\ call[c].att \in Attempts /\ Owner(call[c].att) = call[c].user
    BY <1>10 DEF CancelReadAttempt, CallOK, AttemptPcs
  <2>2. MayGoto("cancel_mark") /\ (q.status = "proposed" => CallOK(r))
    BY <2>1 DEF MayGoto, CallOK, KeysOwned, ProposedNamesPeer, PendingKeyed, TypeOK,
       AttemptPcs, CommitPcs, PeerPcs, ProposalPcs, TeardownPcs, FinishPcs
  <2>3. \/ Goto(c, "cancel_mark")
        \/ q.status = "proposed" /\ call' = [call EXCEPT ![c] = r]
    BY <1>10 DEF CancelReadAttempt, TypeOK
  <2> QED
    BY <2>2, <2>3, CallSet
<1>11. CASE CancelReadPending(c)
  <2> DEFINE d == pending[CallPair(c)].rec
             r == [call[c] EXCEPT !.pc = "drop_pending", !.prop = d]
  <2>1. call[c].pc = "cancel_pending" /\ CallPair(c) \in Pairs
    BY <1>11, PairOfTwo DEF CancelReadPending, CallPair, CallOK, PeerPcs
  <2>2. MayGoto("cancel_mark") /\ (d # None => CallOK(r))
    BY <2>1 DEF MayGoto, CallOK, KeysOwned, ProposedNamesPeer, PendingKeyed, TypeOK,
       AttemptPcs, CommitPcs, PeerPcs, ProposalPcs, TeardownPcs, FinishPcs
  <2>3. \/ Goto(c, "cancel_mark")
        \/ d # None /\ call' = [call EXCEPT ![c].pc = "drop_pending", ![c].prop = d]
    BY <1>11 DEF CancelReadPending
  <2>4. [call EXCEPT ![c].pc = "drop_pending", ![c].prop = d] = [call EXCEPT ![c] = r]
    <3> HIDE DEF d
    <3> QED
      BY DEF TypeOK
  <2> QED
    BY <2>2, <2>3, <2>4, CallSet
<1> QED
  BY <1>3, <1>4, <1>5, <1>6, <1>7, <1>8, <1>9, <1>10, <1>11 DEF CallStep

\* Every step, of whoever, leaves every call's locals well shaped.
LEMMA CallShapeStep ==
  ASSUME Inductive, [Next]_vars PROVE CallShape'
<1>0. TypeOK /\ CallShape
  BY DEF Inductive
<1>1. CASE call' = call
  BY <1>0, <1>1 DEF CallShape
<1>2. ASSUME NEW c \in Calls, CallDies(c) PROVE CallShape'
  BY <1>0, <1>2, FreeOK, CallSet DEF CallDies, Finish
<1>3. ASSUME NEW c \in Calls, FindWaitExhausted(c) PROVE CallShape'
  <2> DEFINE r == [call[c] EXCEPT !.pc = "set_searching", !.op = "unlocked"]
  <2>1. call' = [call EXCEPT ![c] = r]
    BY <1>0, <1>3 DEF FindWaitExhausted, TypeOK
  <2>2. CallOK(r)
    BY <1>0, <1>3 DEF FindWaitExhausted, CallShape, CallOK, TypeOK, AttemptPcs, CommitPcs,
       PeerPcs, ProposalPcs, TeardownPcs, FinishPcs
  <2> QED
    BY <1>0, <2>1, <2>2, CallSet
<1>4. CASE Environment
  BY <1>1, <1>2, <1>3, <1>4 DEF Environment, JobDies, ProposalLapses, PendingLapses,
     FinalizeLapses, AttemptLapses, InRoomLapses, StartLockLapses
<1>5. CASE UNCHANGED vars
  BY <1>1, <1>5 DEF vars
<1> QED
  BY <1>1, <1>4, <1>5, ArriveShape, CallStepShape, WorkersKeepCalls DEF Next

-----------------------------------------------------------------------------
(* Who writes the attempts and the pending records.                          *)

\* mm:attempt and the last-attempt pointer change only through setSearching,
\* markNoMatch, markProposed, markMatched and their TTL.
LEMMA TriesChange ==
  ASSUME Inductive, [Next]_vars
  PROVE  \/ UNCHANGED tries
         \/ \E a \in Attempts, s \in {"searching", "no_match"} : SetStatus(a, s)
         \/ \E a \in Attempts : \E v \in Users \ {Owner(a)} :
              SetPaired(a, "proposed", v, attempt[a].room)
         \/ \E c \in Calls : MarkMatched(c)
         \/ \E a \in Attempts : AttemptLapses(a)
<1> DEFINE Goal == \/ UNCHANGED tries
                   \/ \E a \in Attempts, s \in {"searching", "no_match"} : SetStatus(a, s)
                   \/ \E a \in Attempts : \E v \in Users \ {Owner(a)} :
                        SetPaired(a, "proposed", v, attempt[a].room)
                   \/ \E c \in Calls : MarkMatched(c)
                   \/ \E a \in Attempts : AttemptLapses(a)
<1>0. \A c \in Calls : CallOK(call[c])
  BY DEF Inductive, CallShape
<1>1. ASSUME NEW c \in Calls, Arrive(c) PROVE UNCHANGED tries
  BY <1>1 DEF Arrive, FindArrive, Respond, Cancel, Leave, redis
<1>2. ASSUME NEW c \in Calls, CallStep(c) PROVE Goal
  <2>1. CASE FindRefuse(c) \/ CommitSetSearching(c) \/ CancelMark(c) \/ LeaveMark(c)
    <3>1. call[c].att \in Attempts
      BY <2>1, <1>0 DEF FindRefuse, CommitSetSearching, CancelMark, LeaveMark, CallOK,
         AttemptPcs, CommitPcs
    <3>2. SetStatus(call[c].att, "searching") \/ SetStatus(call[c].att, "no_match")
      BY <2>1 DEF FindRefuse, CommitSetSearching, CancelMark, LeaveMark
    <3> QED
      BY <3>1, <3>2
  <2>2. CASE TeardownNoMatch(c)
    <3>1. call[c].prop \in Proposals
      BY <2>2, <1>0 DEF TeardownNoMatch, CallOK, ProposalPcs, TeardownPcs, WellFormed
    <3>2. \/ SetStatus(call[c].prop.attLow, "no_match")
          \/ SetStatus(call[c].prop.attHigh, "no_match")
      BY <2>2 DEF TeardownNoMatch
    <3> QED
      BY <3>1, <3>2 DEF Proposals
  <2>3. CASE FindAcquire(c) \/ FindRecheck(c) \/ CommitEnqueue(c) \/ CommitPushJob(c)
             \/ RespondReadPending(c) \/ RecordConnect(c) \/ CreateRoom(c)
             \/ MarkPairInRoom(c) \/ ClearPending(c)
    BY <2>3 DEF FindAcquire, FindRecheck, CommitEnqueue, CommitPushJob,
       RespondReadPending, RecordConnect, CreateRoom, MarkPairInRoom, ClearPending, redis
  <2>4. CASE TeardownDropPending(c) \/ TeardownRelease(c) \/ CancelRemove(c)
             \/ CancelReadAttempt(c) \/ CancelReadPending(c) \/ LeaveClear(c)
    BY <2>4 DEF TeardownDropPending, TeardownRelease, CancelRemove, CancelReadAttempt,
       CancelReadPending, LeaveClear, redis
  <2> QED
    BY <1>2, <2>1, <2>2, <2>3, <2>4 DEF CallStep
<1>3. ASSUME NEW w \in Workers, WorkerStep(w) PROVE Goal
  <2>0. WorkerOK(worker[w])
    BY DEF Inductive, WorkerShape
  <2>1. CASE ProposeSelf(w)
    BY <2>1, <2>0 DEF ProposeSelf, WorkerOK, PairingPcs
  <2>2. CASE ProposePeer(w)
    BY <2>2, <2>0, OwnerIsUser DEF ProposePeer, WorkerOK, PairingPcs, ProposingPcs
  <2>3. CASE GiveUpNoMatch(w)
    BY <2>3, <2>0 DEF GiveUpNoMatch, WorkerOK
  <2> QED
    BY <1>3, <2>1, <2>2, <2>3 DEF WorkerStep, TakeJob, Scan, PassExhausted, TryLock,
       JudgePeer, ReleasePeer, EvictPeer, WritePending, GiveUpRemove, redis
<1>4. CASE Environment
  BY <1>4 DEF Environment, CallDies, JobDies, FindWaitExhausted, ProposalLapses,
     PendingLapses, FinalizeLapses, InRoomLapses, StartLockLapses, redis
<1>5. CASE UNCHANGED vars
  BY <1>5 DEF vars, redis
<1> QED
  BY <1>1, <1>2, <1>3, <1>4, <1>5 DEF Next

\* The pending hash changes only by being deleted or expiring, by writePending
\* and by recordProposalConnect.
LEMMA PendingChange ==
  ASSUME Inductive, [Next]_vars
  PROVE  \/ UNCHANGED pending
         \/ \E p : pending' = [pending EXCEPT ![p] = [rec |-> None, connects |-> {}]]
         \/ \E w \in Workers : WritePending(w)
         \/ \E c \in Calls : RecordConnect(c)
<1> DEFINE Goal == \/ UNCHANGED pending
                   \/ \E p : pending' = [pending EXCEPT ![p] = [rec |-> None, connects |-> {}]]
                   \/ \E w \in Workers : WritePending(w)
                   \/ \E c \in Calls : RecordConnect(c)
<1>1. ASSUME NEW c \in Calls, Arrive(c) PROVE UNCHANGED pending
  BY <1>1 DEF Arrive, FindArrive, Respond, Cancel, Leave, redis, offers
<1>2. ASSUME NEW c \in Calls, CallStep(c) PROVE Goal
  <2>1. CASE ClearPending(c) \/ TeardownDropPending(c)
    BY <2>1 DEF ClearPending, TeardownDropPending, DeletePending
  <2>2. CASE FindRefuse(c) \/ FindAcquire(c) \/ FindRecheck(c) \/ CommitSetSearching(c)
             \/ CommitEnqueue(c) \/ CommitPushJob(c) \/ RespondReadPending(c)
             \/ CreateRoom(c) \/ MarkPairInRoom(c) \/ MarkMatched(c)
    BY <2>2 DEF FindRefuse, FindAcquire, FindRecheck, CommitSetSearching, CommitEnqueue,
       CommitPushJob, RespondReadPending, CreateRoom, MarkPairInRoom, MarkMatched,
       redis, offers
  <2>3. CASE TeardownRelease(c) \/ TeardownNoMatch(c) \/ CancelRemove(c)
             \/ CancelReadAttempt(c) \/ CancelReadPending(c) \/ CancelMark(c)
             \/ LeaveMark(c) \/ LeaveClear(c)
    BY <2>3 DEF TeardownRelease, TeardownNoMatch, CancelRemove, CancelReadAttempt,
       CancelReadPending, CancelMark, LeaveMark, LeaveClear, redis, offers
  <2> QED
    BY <1>2, <2>1, <2>2, <2>3 DEF CallStep
<1>3. ASSUME NEW w \in Workers, WorkerStep(w) PROVE Goal
  BY <1>3 DEF WorkerStep, TakeJob, Scan, PassExhausted, TryLock, JudgePeer, ReleasePeer,
     EvictPeer, ProposeSelf, ProposePeer, GiveUpNoMatch, GiveUpRemove, redis, offers
<1>4. CASE Environment
  <2>1. ASSUME NEW p, ExpirePending(p) PROVE Goal
    <3>1. CASE pending[p].rec = None
      <4>1. pending' = [pending EXCEPT ![p] = pending[p]]
        BY <2>1, <3>1 DEF ExpirePending
      <4> QED
        BY <4>1 DEF Inductive, TypeOK
    <3>2. CASE pending[p].rec # None
      BY <2>1, <3>2 DEF ExpirePending
    <3> QED
      BY <3>1, <3>2
  <2> QED
    BY <1>4, <2>1 DEF Environment, CallDies, JobDies, FindWaitExhausted, ProposalLapses,
       PendingLapses, FinalizeLapses, AttemptLapses, InRoomLapses, StartLockLapses,
       redis, offers
<1>5. CASE UNCHANGED vars
  BY <1>5 DEF vars, redis, offers
<1> QED
  BY <1>1, <1>2, <1>3, <1>4, <1>5 DEF Next

-----------------------------------------------------------------------------
(* Attempts and records name the users they belong to.                       *)

\* The record writePending writes names its pair and an attempt of each user.
LEMMA WrittenWellFormed ==
  ASSUME Inductive, NEW w \in Workers, WritePending(w)
  PROVE  WellFormed(ProposalOf(w)) /\ Both(ProposalOf(w)) = Pair(w) /\ Pair(w) \in Pairs
<1>1. /\ worker[w].job \in Attempts /\ worker[w].peerAtt \in Attempts
      /\ Owner(worker[w].peerAtt) = worker[w].peer
      /\ worker[w].peer \in Users /\ worker[w].peer # Owner(worker[w].job)
  BY DEF Inductive, WorkerShape, WorkerOK, WritePending, PairingPcs, ProposingPcs
<1>2. Pair(w) \in Pairs
  BY <1>1, OwnerIsUser, PairOfTwo DEF Pair
<1> QED
  BY <1>1, <1>2, OwnerIsUser DEF WellFormed, ProposalOf, Proposals, Both, Pair

\* Every step keeps pointers, peers and records with the users they belong to.
LEMMA KeysOwnedStep ==
  ASSUME Inductive, [Next]_vars PROVE KeysOwned'
<1>0. TypeOK /\ LastOwned /\ ProposedNamesPeer /\ PendingKeyed
  BY DEF Inductive, KeysOwned
<1>1. LastOwned' /\ ProposedNamesPeer'
  <2> USE <1>0, NoneIsNobody DEF LastOwned, ProposedNamesPeer, TypeOK
  <2>1. CASE UNCHANGED tries
    BY <2>1 DEF tries
  <2>2. ASSUME NEW a \in Attempts, NEW s \in {"searching", "no_match"}, SetStatus(a, s)
        PROVE  LastOwned' /\ ProposedNamesPeer'
    BY <2>2, OwnerIsUser DEF SetStatus
  <2>3. ASSUME NEW a \in Attempts, NEW v \in Users \ {Owner(a)},
               SetPaired(a, "proposed", v, attempt[a].room)
        PROVE  LastOwned' /\ ProposedNamesPeer'
    BY <2>3, OwnerIsUser DEF SetPaired
  <2>4. ASSUME NEW c \in Calls, MarkMatched(c) PROVE LastOwned' /\ ProposedNamesPeer'
    <3>1. call[c].prop \in Proposals
      BY <2>4 DEF Inductive, CallShape, CallOK, MarkMatched, ProposalPcs, FinishPcs, WellFormed
    <3>2. \E a \in Attempts : \E v : SetPaired(a, "matched", v, call[c].room)
      BY <2>4, <3>1 DEF MarkMatched, Proposals
    <3> QED
      BY <3>2, OwnerIsUser DEF SetPaired
  <2>5. ASSUME NEW a \in Attempts, AttemptLapses(a) PROVE LastOwned' /\ ProposedNamesPeer'
    BY <2>5, OwnerIsUser DEF AttemptLapses
  <2> QED
    BY <2>1, <2>2, <2>3, <2>4, <2>5, TriesChange
<1>2. PendingKeyed'
  <2> USE <1>0 DEF PendingKeyed, TypeOK
  <2>1. CASE UNCHANGED pending
    BY <2>1
  <2>2. ASSUME NEW p, pending' = [pending EXCEPT ![p] = [rec |-> None, connects |-> {}]]
        PROVE  PendingKeyed'
    BY <2>2
  <2>3. ASSUME NEW w \in Workers, WritePending(w) PROVE PendingKeyed'
    <3>1. pending' = [pending EXCEPT ![Pair(w)] = [rec |-> ProposalOf(w), connects |-> {}]]
      BY <2>3 DEF WritePending
    <3> QED
      BY <2>3, <3>1, WrittenWellFormed
  <2>4. ASSUME NEW c \in Calls, RecordConnect(c) PROVE PendingKeyed'
    BY <2>4 DEF RecordConnect
  <2> QED
    BY <2>1, <2>2, <2>3, <2>4, PendingChange
<1> QED
  BY <1>1, <1>2 DEF KeysOwned

-----------------------------------------------------------------------------
(* Who moves a call into and through the finalizer's steps.                  *)

\* A call only reaches the connect and finalize steps through respond, the
\* connect script, the room request and the finalizer's own steps.
LEMMA CallChange ==
  ASSUME Inductive, [Next]_vars, NEW c \in Calls
  PROVE  \/ call'[c] = call[c]
         \/ call'[c].pc \notin {"connect"} \cup FinishPcs
         \/ RespondReadPending(c)
         \/ RecordConnect(c)
         \/ CreateRoom(c)
         \/ MarkPairInRoom(c) \/ MarkMatched(c)
<1> DEFINE Quietly == call'[c] = call[c] \/ call'[c].pc \notin {"connect"} \cup FinishPcs
<1> USE DEF FinishPcs
<1>0. call \in [Calls -> [pc : CallPcs, user : Users \cup {None},
                         att : Attempts \cup {None}, peer : Users \cup {None},
                         op : Ops \cup {"unlocked", None},
                         prop : Proposals \cup {None}, room : Nat]]
  BY DEF Inductive, TypeOK
<1>1. ASSUME NEW b \in Calls, Arrive(b) PROVE Quietly
  <2>1. ASSUME NEW a \in Attempts, FindArrive(b, a) PROVE Quietly
    BY <1>0, <2>1 DEF FindArrive, Start, NoCall
  <2>2. ASSUME NEW a \in Attempts, NEW decision \in Ops, Respond(b, a, decision) PROVE Quietly
    BY <1>0, <2>2 DEF Respond, Start, NoCall
  <2>3. ASSUME NEW u \in Users, Cancel(b, u) PROVE Quietly
    BY <1>0, <2>3 DEF Cancel, Start, NoCall
  <2>4. ASSUME NEW u \in Users, Leave(b, u) PROVE Quietly
    BY <1>0, <2>4 DEF Leave, Start, NoCall
  <2> QED
    BY <1>1, <2>1, <2>2, <2>3, <2>4 DEF Arrive
<1>2. ASSUME NEW b \in Calls, CallStep(b)
      PROVE  Quietly \/ RespondReadPending(c) \/ RecordConnect(c) \/ CreateRoom(c)
             \/ MarkPairInRoom(c) \/ MarkMatched(c)
  <2> USE <1>0 DEF Goto, Finish, NoCall
  <2>1. CASE FindRefuse(b) \/ FindAcquire(b) \/ FindRecheck(b) \/ CommitSetSearching(b)
             \/ CommitEnqueue(b) \/ CommitPushJob(b) \/ ClearPending(b)
    BY <2>1 DEF FindRefuse, FindAcquire, FindRecheck, CommitSetSearching, CommitEnqueue,
       CommitPushJob, ClearPending
  <2>2. CASE TeardownDropPending(b) \/ TeardownRelease(b) \/ TeardownNoMatch(b)
    BY <2>2 DEF TeardownDropPending, TeardownRelease, TeardownNoMatch
  <2>3. CASE CancelRemove(b) \/ CancelReadAttempt(b) \/ CancelReadPending(b)
             \/ CancelMark(b) \/ LeaveMark(b) \/ LeaveClear(b)
    BY <2>3 DEF CancelRemove, CancelReadAttempt, CancelReadPending, CancelMark, LeaveMark,
       LeaveClear
  <2>4. CASE RespondReadPending(b) \/ RecordConnect(b) \/ CreateRoom(b)
             \/ MarkPairInRoom(b) \/ MarkMatched(b)
    <3>1. b # c => call'[c] = call[c]
      BY <2>4 DEF RespondReadPending, RecordConnect, CreateRoom, MarkPairInRoom, MarkMatched
    <3> QED
      BY <2>4, <3>1
  <2> QED
    BY <1>2, <2>1, <2>2, <2>3, <2>4 DEF CallStep
<1>3. CASE Environment
  <2>1. ASSUME NEW b \in Calls, CallDies(b) PROVE Quietly
    BY <1>0, <2>1 DEF CallDies, Finish, NoCall
  <2>2. ASSUME NEW b \in Calls, FindWaitExhausted(b) PROVE Quietly
    BY <1>0, <2>2 DEF FindWaitExhausted
  <2> QED
    BY <1>3, <2>1, <2>2 DEF Environment, JobDies, ProposalLapses, PendingLapses,
       FinalizeLapses, AttemptLapses, InRoomLapses, StartLockLapses
<1>4. CASE UNCHANGED vars
  BY <1>4 DEF vars
<1> QED
  BY <1>1, <1>2, <1>3, <1>4, WorkersKeepCalls DEF Next

\* Consents are only added by respond, rooms only by the room request.
LEMMA HistoryChange ==
  ASSUME Inductive, [Next]_vars
  PROVE  /\ \/ UNCHANGED connected
            \/ \E c \in Calls : RespondReadPending(c)
         /\ \/ UNCHANGED rooms
            \/ \E c \in Calls : CreateRoom(c)
<1>1. ASSUME NEW c \in Calls, Arrive(c) PROVE UNCHANGED <<connected, rooms>>
  BY <1>1 DEF Arrive, FindArrive, Respond, Cancel, Leave, history, answers
<1>2. ASSUME NEW c \in Calls, CallStep(c)
      PROVE  /\ UNCHANGED connected \/ RespondReadPending(c)
             /\ UNCHANGED rooms \/ CreateRoom(c)
  BY <1>2 DEF CallStep, FindRefuse, FindAcquire, FindRecheck, CommitSetSearching,
     CommitEnqueue, CommitPushJob, RespondReadPending, RecordConnect, CreateRoom,
     MarkPairInRoom, MarkMatched, ClearPending, TeardownDropPending, TeardownRelease,
     TeardownNoMatch, CancelRemove, CancelReadAttempt, CancelReadPending, CancelMark,
     LeaveMark, LeaveClear, history, answers
<1>3. CASE Environment
  BY <1>3 DEF Environment, CallDies, JobDies, FindWaitExhausted, ProposalLapses,
     PendingLapses, FinalizeLapses, AttemptLapses, InRoomLapses, StartLockLapses, history, answers
<1>4. CASE UNCHANGED vars
  BY <1>4 DEF vars, history, answers
<1> QED
  BY <1>1, <1>2, <1>3, <1>4, WorkersKeepCalls DEF Next

-----------------------------------------------------------------------------
(* Nobody finalizes a proposal without both users' consent.                  *)

\* Every step keeps it that a connect flag, and a finalizer, stand for consent.
LEMMA ConsentKeptStep ==
  ASSUME Inductive, [Next]_vars PROVE ConsentKept'
<1>0. TypeOK /\ CallShape /\ ConsentKept
  BY DEF Inductive
<1> DEFINE WillAgree(u, v) == \E x \in connected' : Owner(x[1]) = u /\ x[2] = v
<1>1. \A u, v : Agreed(u, v) => WillAgree(u, v)
  <2>1. connected \subseteq connected'
    BY HistoryChange DEF RespondReadPending
  <2> QED
    BY <2>1 DEF Agreed
<1> HIDE DEF WillAgree
<1>2. ASSUME NEW c \in Calls, call[c].pc = "connect"
      PROVE  /\ CallPair(c) \in Pairs /\ WellFormed(call[c].prop)
             /\ Both(call[c].prop) = CallPair(c)
             /\ Agreed(call[c].user, call[c].peer)
    BY <1>0, <1>2, PairOfTwo DEF CallShape, CallOK, PeerPcs, ProposalPcs, CallPair, ConsentKept
<1>3. ASSUME NEW p \in Pairs, NEW u \in pending'[p].connects
      PROVE  u \in p /\ \A v \in p \ {u} : WillAgree(u, v)
  <2> SUFFICES u \in p /\ \A v \in p \ {u} : Agreed(u, v)
    BY <1>1
  <2>1. CASE u \in pending[p].connects
    BY <1>0, <2>1 DEF ConsentKept
  <2>2. CASE u \notin pending[p].connects
    <3>0. pending' # pending
      BY <1>3, <2>2
    <3>a. ASSUME NEW q, pending' = [pending EXCEPT ![q] = [rec |-> None, connects |-> {}]]
          PROVE  FALSE
      BY <1>0, <1>3, <2>2, <3>a DEF TypeOK
    <3>b. ASSUME NEW w \in Workers, WritePending(w) PROVE FALSE
      BY <1>0, <1>3, <2>2, <3>b DEF TypeOK, WritePending
    <3>1. PICK c \in Calls : RecordConnect(c)
      BY <3>0, <3>a, <3>b, PendingChange
    <3>2. p = CallPair(c) /\ u = call[c].user /\ call[c].pc = "connect"
      BY <1>0, <1>3, <2>2, <3>1 DEF RecordConnect, TypeOK
    <3> QED
      BY <1>2, <3>2 DEF CallPair
  <2> QED
    BY <2>1, <2>2
<1>4. ASSUME NEW c \in Calls, call'[c].pc = "connect"
      PROVE  WillAgree(call'[c].user, call'[c].peer)
  <2>1. CASE call'[c] = call[c]
    BY <1>0, <1>1, <1>4, <2>1 DEF ConsentKept
  <2>2. CASE RespondReadPending(c)
    <3>1. /\ call[c].pc = "read_pending"
          /\ call'[c].user = call[c].user /\ call'[c].peer = call[c].peer
          /\ <<call[c].att, call[c].peer>> \in connected'
      BY <1>0, <1>4, <2>2 DEF RespondReadPending, TypeOK, Finish, NoCall
    <3>2. Owner(call[c].att) = call[c].user
      BY <1>0, <3>1 DEF CallShape, CallOK, AttemptPcs
    <3> QED
      BY <3>1, <3>2 DEF WillAgree
  <2>3. CASE RecordConnect(c) \/ CreateRoom(c) \/ MarkPairInRoom(c) \/ MarkMatched(c)
    BY <1>0, <1>4, <2>3 DEF RecordConnect, CreateRoom, MarkPairInRoom, MarkMatched, TypeOK,
       Goto, Finish, NoCall
  <2> QED
    BY <1>4, <2>1, <2>2, <2>3, CallChange
<1>5. ASSUME NEW c \in Calls, call'[c].pc \in FinishPcs
      PROVE  LET d == call'[c].prop IN WillAgree(d.low, d.high) /\ WillAgree(d.high, d.low)
  <2>1. CASE call[c].pc \in FinishPcs /\ call'[c].prop = call[c].prop
    BY <1>0, <1>1, <2>1 DEF ConsentKept
  <2>2. CASE RespondReadPending(c)
    BY <1>0, <1>5, <2>2 DEF RespondReadPending, TypeOK, Finish, NoCall, FinishPcs
  <2>3. CASE RecordConnect(c)
    <3> DEFINE p == CallPair(c)
    <3>1. call[c].pc = "connect" /\ Finalizes(p, pending[p].connects \cup {call[c].user})
      BY <1>0, <1>5, <2>3 DEF RecordConnect, TypeOK, Finish, Goto, NoCall, FinishPcs
    <3>2. call'[c].prop = call[c].prop
      BY <1>0, <1>5, <2>3 DEF RecordConnect, TypeOK, Finish, Goto, NoCall, FinishPcs
    <3>3. \A u \in p : \A v \in p \ {u} : Agreed(u, v)
      BY <1>0, <1>2, <3>1 DEF Finalizes, ConsentKept, CallPair
    <3> QED
      BY <1>1, <1>2, <3>1, <3>2, <3>3 DEF WellFormed, Both
  <2>4. CASE CreateRoom(c) \/ MarkPairInRoom(c) \/ MarkMatched(c)
    <3>1. call[c].pc \in FinishPcs /\ call'[c].prop = call[c].prop
      BY <1>0, <2>4 DEF CreateRoom, MarkPairInRoom, MarkMatched, TypeOK, Goto, FinishPcs
    <3> QED
      BY <2>1, <3>1
  <2>5. CASE call'[c] = call[c]
    BY <1>5, <2>1, <2>5
  <2> QED
    BY <1>5, <2>2, <2>3, <2>4, <2>5, CallChange
<1> QED
  BY <1>3, <1>4, <1>5 DEF ConsentKept, Agreed, WillAgree

-----------------------------------------------------------------------------
(* Rooms are only added, and a matched attempt names the room made for it.   *)

\* A room, once made, keeps its number.
LEMMA RoomsOnlyAdded ==
  ASSUME Inductive, [Next]_vars
  PROVE  \A i \in 1..Len(rooms) : i \in 1..Len(rooms') /\ rooms'[i] = rooms[i]
<1>1. CASE UNCHANGED rooms
  BY <1>1
<1>2. ASSUME NEW c \in Calls, CreateRoom(c)
      PROVE  \A i \in 1..Len(rooms) : i \in 1..Len(rooms') /\ rooms'[i] = rooms[i]
  <2>1. call[c].prop \in Proposals /\ rooms \in Seq(Proposals)
    BY <1>2 DEF Inductive, TypeOK, CallShape, CallOK, CreateRoom, ProposalPcs, FinishPcs,
       WellFormed
  <2>2. rooms' = rooms \/ rooms' = Append(rooms, call[c].prop)
    BY <1>2 DEF CreateRoom
  <2> QED
    BY <2>1, <2>2
<1> QED
  BY <1>1, <1>2, HistoryChange

\* Every step keeps it that a finalizer's room is its proposal's, and that a
\* matched attempt names a room of its own.
LEMMA RoomsKeptStep ==
  ASSUME Inductive, [Next]_vars PROVE RoomsKept'
<1>0. TypeOK /\ CallShape /\ RoomsKept
  BY DEF Inductive
<1>1. ASSUME NEW c \in Calls, call'[c].pc \in FinishPcs \ {"create_room"}
      PROVE  call'[c].room \in 1..Len(rooms') /\ rooms'[call'[c].room] = call'[c].prop
  <2>1. CASE /\ call[c].pc \in FinishPcs \ {"create_room"}
             /\ call'[c].room = call[c].room /\ call'[c].prop = call[c].prop
    BY <1>0, <2>1, RoomsOnlyAdded DEF RoomsKept
  <2>2. CASE call'[c] = call[c]
    BY <1>1, <2>1, <2>2
  <2>3. CASE RespondReadPending(c) \/ RecordConnect(c)
    BY <1>0, <1>1, <2>3 DEF RespondReadPending, RecordConnect, TypeOK, Goto, Finish, NoCall,
       FinishPcs
  <2>4. CASE CreateRoom(c)
    <3>1. call[c].prop \in Proposals /\ rooms \in Seq(Proposals)
      BY <1>0, <2>4 DEF TypeOK, CallShape, CallOK, CreateRoom, ProposalPcs, FinishPcs,
         WellFormed
    <3>2. /\ rooms' = Append(rooms, call[c].prop)
          /\ call'[c].room = Len(rooms) + 1 /\ call'[c].prop = call[c].prop
      BY <1>0, <1>1, <2>4 DEF CreateRoom, TypeOK, Goto, FinishPcs
    <3> QED
      BY <3>1, <3>2
  <2>5. CASE MarkPairInRoom(c) \/ MarkMatched(c)
    <3>1. /\ call[c].pc \in FinishPcs \ {"create_room"}
          /\ call'[c].room = call[c].room /\ call'[c].prop = call[c].prop
      BY <1>0, <2>5 DEF MarkPairInRoom, MarkMatched, TypeOK, Goto, FinishPcs
    <3> QED
      BY <2>1, <3>1
  <2> QED
    BY <1>1, <2>2, <2>3, <2>4, <2>5, CallChange
<1>2. MatchedAttemptHasRoom'
  <2> USE <1>0 DEF RoomsKept, MatchedAttemptHasRoom, TypeOK
  <2>1. CASE UNCHANGED tries
    BY <2>1, RoomsOnlyAdded DEF tries
  <2>2. ASSUME NEW a \in Attempts, NEW s \in {"searching", "no_match"}, SetStatus(a, s)
        PROVE  MatchedAttemptHasRoom'
    <3>1. \A b \in Attempts : attempt'[b].status = "matched" => attempt'[b] = attempt[b]
      BY <2>2 DEF SetStatus
    <3> QED
      BY <3>1, RoomsOnlyAdded
  <2>3. ASSUME NEW a \in Attempts, NEW v \in Users \ {Owner(a)},
               SetPaired(a, "proposed", v, attempt[a].room)
        PROVE  MatchedAttemptHasRoom'
    BY <2>3, RoomsOnlyAdded DEF SetPaired
  <2>4. ASSUME NEW c \in Calls, MarkMatched(c) PROVE MatchedAttemptHasRoom'
    <3>1. /\ call[c].prop \in Proposals
          /\ call[c].room \in 1..Len(rooms) /\ rooms[call[c].room] = call[c].prop
          /\ rooms' = rooms
      BY <2>4 DEF CallShape, CallOK, MarkMatched, ProposalPcs, FinishPcs, WellFormed, history,
         answers
    <3>2. PICK a \in Attempts2(call[c].prop) : \E v : SetPaired(a, "matched", v, call[c].room)
      BY <2>4 DEF MarkMatched, Attempts2
    <3>3. a \in Attempts
      BY <3>1, <3>2 DEF Attempts2, Proposals
    <3> QED
      BY <3>1, <3>2, <3>3 DEF SetPaired
  <2>5. ASSUME NEW a \in Attempts, AttemptLapses(a) PROVE MatchedAttemptHasRoom'
    BY <2>5, RoomsOnlyAdded DEF AttemptLapses
  <2> QED
    BY <2>1, <2>2, <2>3, <2>4, <2>5, TriesChange
<1> QED
  BY <1>1, <1>2 DEF RoomsKept

-----------------------------------------------------------------------------
(* Type correctness, one group of variables at a time.                       *)

CallRecords == [pc : CallPcs, user : Users \cup {None}, att : Attempts \cup {None},
                peer : Users \cup {None}, op : Ops \cup {"unlocked", None},
                prop : Proposals \cup {None}, room : Nat]
WorkerRecords == [pc : WorkerPcs, job : Attempts \cup {None}, cands : SUBSET Users,
                  peer : Users \cup {None}, peerAtt : Attempts \cup {None}, passes : Nat]

\* attempt and lastAttempt keep their types.
LEMMA TriesTyped ==
  ASSUME Inductive, [Next]_vars
  PROVE  /\ attempt' \in [Attempts -> [status : Statuses, peer : Users \cup {None}, room : Nat]]
         /\ lastAttempt' \in [Users -> Attempts \cup {None}]
<1> DEFINE Records == [status : Statuses, peer : Users \cup {None}, room : Nat]
           Goal == /\ attempt' \in [Attempts -> Records]
                   /\ lastAttempt' \in [Users -> Attempts \cup {None}]
<1>0. attempt \in [Attempts -> Records] /\ lastAttempt \in [Users -> Attempts \cup {None}]
  BY DEF Inductive, TypeOK
<1>1. CASE UNCHANGED tries
  BY <1>0, <1>1 DEF tries
<1>2. ASSUME NEW a \in Attempts, NEW s \in {"searching", "no_match"}, SetStatus(a, s) PROVE Goal
  <2>1. [attempt[a] EXCEPT !.status = s] \in Records
    BY <1>0 DEF Statuses
  <2>2. attempt' = [attempt EXCEPT ![a] = [attempt[a] EXCEPT !.status = s]]
    BY <1>0, <1>2 DEF SetStatus
  <2> HIDE DEF Records
  <2> QED
    BY <1>0, <1>2, <2>1, <2>2 DEF SetStatus
<1>3. ASSUME NEW a \in Attempts, NEW s \in {"proposed", "matched"}, NEW v \in Users,
             NEW r \in Nat, SetPaired(a, s, v, r)
      PROVE  Goal
  <2>1. [status |-> s, peer |-> v, room |-> r] \in Records
    BY DEF Statuses
  <2> HIDE DEF Records
  <2> QED
    BY <1>0, <1>3, <2>1 DEF SetPaired
<1>4. ASSUME NEW a \in Attempts, NEW v \in Users \ {Owner(a)},
             SetPaired(a, "proposed", v, attempt[a].room)
      PROVE  Goal
  BY <1>0, <1>3, <1>4
<1>5. ASSUME NEW c \in Calls, MarkMatched(c) PROVE Goal
  <2>1. call[c].prop \in Proposals /\ call[c].room \in Nat
    BY <1>5 DEF Inductive, TypeOK, CallShape, CallOK, MarkMatched, ProposalPcs, FinishPcs,
       WellFormed
  <2>2. \E a \in Attempts, v \in Users : SetPaired(a, "matched", v, call[c].room)
    BY <1>5, <2>1 DEF MarkMatched, Proposals
  <2> QED
    BY <1>3, <2>1, <2>2
<1>6. ASSUME NEW a \in Attempts, AttemptLapses(a) PROVE Goal
  <2>1. [status |-> "expired", peer |-> None, room |-> 0] \in Records
    BY DEF Statuses
  <2> HIDE DEF Records
  <2> QED
    BY <1>0, <1>6, <2>1 DEF AttemptLapses
<1> QED
  BY <1>1, <1>2, <1>4, <1>5, <1>6, TriesChange

\* pending keeps its type.
LEMMA PendingTyped ==
  ASSUME Inductive, [Next]_vars
  PROVE  pending' \in [Pairs -> [rec : Proposals \cup {None}, connects : SUBSET Users]]
<1> DEFINE Records == [rec : Proposals \cup {None}, connects : SUBSET Users]
<1>0. pending \in [Pairs -> Records]
  BY DEF Inductive, TypeOK
<1>1. [rec |-> None, connects |-> {}] \in Records
  OBVIOUS
<1>2. ASSUME NEW w \in Workers, WritePending(w) PROVE pending' \in [Pairs -> Records]
  <2>1. [rec |-> ProposalOf(w), connects |-> {}] \in Records
    BY <1>2, WrittenWellFormed DEF WellFormed
  <2> HIDE DEF Records
  <2> QED
    BY <1>0, <1>2, <2>1 DEF WritePending
<1>3. ASSUME NEW c \in Calls, RecordConnect(c) PROVE pending' \in [Pairs -> Records]
  <2>1. call[c].user \in Users
    BY <1>3 DEF Inductive, CallShape, CallOK, RecordConnect
  <2> QED
    BY <1>0, <1>3, <2>1 DEF RecordConnect
<1> HIDE DEF Records
<1>4. pending' \in [Pairs -> Records]
  BY <1>0, <1>1, <1>2, <1>3, PendingChange
<1> QED
  BY <1>4 DEF Records

\* rooms and connected keep their types.
LEMMA HistoryTyped ==
  ASSUME Inductive, [Next]_vars
  PROVE  rooms' \in Seq(Proposals) /\ connected' \subseteq Attempts \X Users
<1>0. TypeOK /\ \A c \in Calls : CallOK(call[c])
  BY DEF Inductive, CallShape
<1>1. rooms' \in Seq(Proposals)
  <2>1. ASSUME NEW c \in Calls, CreateRoom(c) PROVE rooms' \in Seq(Proposals)
    <3>1. call[c].prop \in Proposals /\ rooms \in Seq(Proposals)
      BY <1>0, <2>1 DEF TypeOK, CallOK, CreateRoom, ProposalPcs, FinishPcs, WellFormed
    <3>2. rooms' = rooms \/ rooms' = Append(rooms, call[c].prop)
      BY <2>1 DEF CreateRoom
    <3> QED
      BY <3>1, <3>2
  <2> QED
    BY <1>0, <2>1, HistoryChange DEF TypeOK
<1>2. connected' \subseteq Attempts \X Users
  <2>1. ASSUME NEW c \in Calls, RespondReadPending(c) PROVE connected' \subseteq Attempts \X Users
    <3>1. call[c].att \in Attempts /\ call[c].peer \in Users
      BY <1>0, <2>1 DEF CallOK, RespondReadPending, AttemptPcs, PeerPcs
    <3>2. connected' \subseteq connected \cup {<<call[c].att, call[c].peer>>}
      BY <2>1 DEF RespondReadPending
    <3> QED
      BY <1>0, <3>1, <3>2 DEF TypeOK
  <2> QED
    BY <1>0, <2>1, HistoryChange DEF TypeOK
<1> QED
  BY <1>1, <1>2

\* Replacing one value of a function by another of its range keeps its type.
LEMMA ExceptTyped ==
  ASSUME NEW S, NEW T, NEW f \in [S -> T], NEW s \in S, NEW t \in T
  PROVE  [f EXCEPT ![s] = t] \in [S -> T]
OBVIOUS

\* A step that sets one call's locals to a record of their type.
LEMMA CallTyped ==
  ASSUME TypeOK, NEW c \in Calls, NEW r \in CallRecords, call' = [call EXCEPT ![c] = r]
  PROVE  call' \in [Calls -> CallRecords]
<1>1. call \in [Calls -> CallRecords]
  BY DEF TypeOK, CallRecords
<1> QED
  BY <1>1, ExceptTyped

\* Updating the fields a handler sets together keeps its locals typed.
LEMMA LocalsTyped ==
  ASSUME NEW r \in CallRecords, NEW pc \in CallPcs, NEW p \in Proposals \cup {None},
         NEW u \in Users \cup {None}
  PROVE  /\ [r EXCEPT !.pc = pc] \in CallRecords
         /\ [r EXCEPT !.pc = pc, !.op = "unlocked"] \in CallRecords
         /\ [r EXCEPT !.prop = p, !.pc = pc] \in CallRecords
         /\ [r EXCEPT !.pc = pc, !.peer = u] \in CallRecords
BY DEF CallRecords

\* Moving a program counter, or finishing, keeps the calls typed.
LEMMA GotoTyped ==
  ASSUME TypeOK, NEW c \in Calls, NEW pc \in CallPcs, Goto(c, pc)
  PROVE  call' \in [Calls -> CallRecords]
<1> DEFINE r == [call[c] EXCEPT !.pc = pc]
<1>1. call \in [Calls -> CallRecords]
  BY DEF TypeOK, CallRecords
<1>2. call[c] \in CallRecords
  BY <1>1
<1>3. r \in CallRecords
  BY <1>2, LocalsTyped
<1>4. call' = [call EXCEPT ![c] = r]
  BY DEF Goto
<1> HIDE DEF r
<1> QED
  BY <1>3, <1>4, CallTyped

\* A call that finishes leaves a typed, free slot.
LEMMA FinishTyped ==
  ASSUME TypeOK, NEW c \in Calls, Finish(c)
  PROVE  call' \in [Calls -> CallRecords]
<1>1. NoCall \in CallRecords
  BY DEF NoCall, CallRecords, CallPcs
<1> QED
  BY <1>1, CallTyped DEF Finish

\* Setting a worker's locals to a record of its type keeps the workers typed.
LEMMA WorkerTyped ==
  ASSUME TypeOK, NEW w \in Workers, NEW r \in WorkerRecords, worker' = [worker EXCEPT ![w] = r]
  PROVE  worker' \in [Workers -> WorkerRecords]
BY DEF TypeOK, WorkerRecords

\* worker keeps its type.
LEMMA WorkersTyped ==
  ASSUME Inductive, [Next]_vars PROVE worker' \in [Workers -> WorkerRecords]
<1> DEFINE Goal == worker' \in [Workers -> WorkerRecords]
<1>0. TypeOK /\ worker \in [Workers -> WorkerRecords]
  BY DEF Inductive, TypeOK, WorkerRecords
<1>1. CASE worker' = worker
  BY <1>0, <1>1
<1>2. Idle \in WorkerRecords
  BY DEF Idle, WorkerRecords, WorkerPcs
<1>3. ASSUME NEW w \in Workers, WorkerStep(w) PROVE Goal
  <2>0. worker[w] \in WorkerRecords /\ WorkerOK(worker[w])
    BY <1>0 DEF Inductive, WorkerShape
  <2>a. CASE worker' = [worker EXCEPT ![w] = Idle]
    BY <1>0, <1>2, <2>a, WorkerTyped
  <2> SUFFICES ASSUME worker' # worker
               PROVE  \E r \in WorkerRecords : worker' = [worker EXCEPT ![w] = r]
    BY <1>0, <1>1, WorkerTyped
  <2>1. CASE TakeJob(w)
    <3>1. Head(jobs) \in Attempts
      BY <1>0, <2>1 DEF TakeJob, TypeOK
    <3>2. \A pc \in WorkerPcs : [Idle EXCEPT !.pc = pc, !.job = Head(jobs)] \in WorkerRecords
      BY <3>1 DEF Idle, WorkerRecords
    <3> QED
      BY <2>1, <3>2 DEF TakeJob, WorkerPcs
  <2>2. CASE Scan(w)
    <3> DEFINE r == [worker[w] EXCEPT !.pc = "try", !.passes = @ + 1,
                                      !.cands = Candidates(Owner(worker[w].job))]
    <3>1. worker' = [worker EXCEPT ![w] = r]
      BY <1>0, <2>2 DEF Scan
    <3>2. Candidates(Owner(worker[w].job)) \subseteq Users
      BY <1>0 DEF Candidates, TypeOK
    <3>3. \A n \in Nat, s \in SUBSET Users :
            [worker[w] EXCEPT !.pc = "try", !.passes = n, !.cands = s] \in WorkerRecords
      BY <2>0 DEF WorkerRecords, WorkerPcs
    <3>4. worker[w].passes + 1 \in Nat
      BY <2>0 DEF WorkerRecords
    <3>5. r \in WorkerRecords
      BY <3>2, <3>3, <3>4
    <3> QED
      BY <3>1, <3>5
  <2>3. CASE PassExhausted(w) \/ WritePending(w) \/ ProposeSelf(w) \/ GiveUpNoMatch(w)
    <3>1. \E pc \in WorkerPcs : worker' = [worker EXCEPT ![w] = [worker[w] EXCEPT !.pc = pc]]
      BY <1>0, <2>3 DEF PassExhausted, WritePending, ProposeSelf, GiveUpNoMatch, WorkerPcs
    <3>2. \A pc \in WorkerPcs : [worker[w] EXCEPT !.pc = pc] \in WorkerRecords
      BY <2>0 DEF WorkerRecords
    <3> QED
      BY <3>1, <3>2
  <2>4. CASE TryLock(w)
    <3>1. PICK v \in worker[w].cands :
            \/ worker' = [worker EXCEPT ![w].cands = @ \ {v}]
            \/ worker' = [worker EXCEPT ![w].cands = @ \ {v}, ![w].peer = v, ![w].pc = "locked"]
      BY <2>4 DEF TryLock
    <3>2. /\ [worker[w] EXCEPT !.cands = @ \ {v}] \in WorkerRecords
          /\ [worker[w] EXCEPT !.cands = @ \ {v}, !.peer = v, !.pc = "locked"] \in WorkerRecords
      BY <2>0 DEF WorkerRecords, WorkerPcs
    <3> QED
      BY <1>0, <3>1, <3>2
  <2>5. CASE JudgePeer(w)
    <3> DEFINE b == lastAttempt[worker[w].peer]
               r(pc) == [worker[w] EXCEPT !.peerAtt = b, !.pc = pc]
    <3>1. worker[w].peer \in Users
      BY <2>0, <2>5 DEF JudgePeer, WorkerOK, PairingPcs
    <3>2. r("write_pending") \in WorkerRecords /\ r("release") \in WorkerRecords
      BY <1>0, <2>0, <3>1 DEF TypeOK, WorkerRecords, WorkerPcs
    <3>3. worker' = [worker EXCEPT ![w] = r("write_pending")]
          \/ worker' = [worker EXCEPT ![w] = r("release")]
      BY <1>0, <2>5 DEF JudgePeer
    <3> QED
      BY <3>2, <3>3
  <2>6. CASE ReleasePeer(w)
    <3> DEFINE r(pc, v) == [worker[w] EXCEPT !.pc = pc, !.peer = v, !.peerAtt = None]
    <3>1. \/ worker' = [worker EXCEPT ![w] = r("evict", worker[w].peer)]
          \/ worker' = [worker EXCEPT ![w] = r("try", None)]
      BY <1>0, <2>6 DEF ReleasePeer
    <3>2. r("evict", worker[w].peer) \in WorkerRecords /\ r("try", None) \in WorkerRecords
      BY <2>0 DEF WorkerRecords, WorkerPcs
    <3> QED
      BY <3>1, <3>2
  <2>7. CASE EvictPeer(w)
    <3> DEFINE r == [worker[w] EXCEPT !.pc = "try", !.peer = None]
    <3>1. r \in WorkerRecords /\ worker' = [worker EXCEPT ![w] = r]
      BY <1>0, <2>0, <2>7 DEF EvictPeer, WorkerRecords, WorkerPcs
    <3> QED
      BY <3>1
  <2>8. CASE ProposePeer(w) \/ GiveUpRemove(w)
    BY <1>2, <2>8 DEF ProposePeer, GiveUpRemove
  <2> QED
    BY <1>3, <2>1, <2>2, <2>3, <2>4, <2>5, <2>6, <2>7, <2>8 DEF WorkerStep
<1>4. CASE UNCHANGED vars
  BY <1>1, <1>4 DEF vars
<1> QED
  BY <1>0, <1>1, <1>2, <1>3, <1>4, WorkerTyped, CallsKeepWorkers, EnvironmentOnWorkers DEF Next

\* call keeps its type.
LEMMA CallsTyped ==
  ASSUME Inductive, [Next]_vars PROVE call' \in [Calls -> CallRecords]
<1> DEFINE Goal == call' \in [Calls -> CallRecords]
<1>0. TypeOK /\ call \in [Calls -> CallRecords]
  BY DEF Inductive, TypeOK, CallRecords
<1>1. CASE call' = call
  BY <1>0, <1>1
<1>2. ASSUME NEW c \in Calls, Arrive(c) PROVE Goal
  <2> SUFFICES \E r \in CallRecords : call' = [call EXCEPT ![c] = r]
    BY <1>0, CallTyped
  <2> USE OwnerIsUser DEF NoCall, CallPcs, CommitPcs, Start
  <2>1. ASSUME NEW a \in Attempts, FindArrive(c, a)
        PROVE  \E r \in CallRecords : call' = [call EXCEPT ![c] = r]
    <3> DEFINE r(pc) == [NoCall EXCEPT !.op = "find", !.user = Owner(a), !.att = a, !.pc = pc]
    <3>1. call' = [call EXCEPT ![c] = r("acquire")] \/ call' = [call EXCEPT ![c] = r("refuse")]
      BY <2>1 DEF FindArrive
    <3>2. r("acquire") \in CallRecords /\ r("refuse") \in CallRecords
      BY <2>1 DEF FindArrive, CallRecords
    <3> QED
      BY <3>1, <3>2
  <2>2. ASSUME NEW a \in Attempts, NEW decision \in Ops, Respond(c, a, decision)
        PROVE  \E r \in CallRecords : call' = [call EXCEPT ![c] = r]
    <3> DEFINE r == [NoCall EXCEPT !.pc = "read_pending", !.op = decision,
                                   !.user = Owner(a), !.att = a, !.peer = attempt[a].peer]
    <3>1. r \in CallRecords
      BY <1>0 DEF CallRecords, TypeOK
    <3>2. call' = [call EXCEPT ![c] = r]
      BY <2>2 DEF Respond
    <3> QED
      BY <3>1, <3>2
  <2>3. ASSUME NEW u \in Users, Cancel(c, u)
        PROVE  \E r \in CallRecords : call' = [call EXCEPT ![c] = r]
    <3> DEFINE r == [NoCall EXCEPT !.pc = "cancel_remove", !.op = "cancel",
                                   !.user = u, !.att = lastAttempt[u]]
    <3>1. r \in CallRecords
      BY <1>0, <2>3 DEF CallRecords, TypeOK, Cancel
    <3>2. call' = [call EXCEPT ![c] = r]
      BY <2>3 DEF Cancel
    <3> QED
      BY <3>1, <3>2
  <2>4. ASSUME NEW u \in Users, Leave(c, u)
        PROVE  \E r \in CallRecords : call' = [call EXCEPT ![c] = r]
    <3> DEFINE r(pc) == [NoCall EXCEPT !.op = "leave", !.user = u, !.att = lastAttempt[u],
                                       !.pc = pc]
    <3>1. r("leave_mark") \in CallRecords /\ r("leave_clear") \in CallRecords
      BY <1>0, <2>4 DEF CallRecords, TypeOK, Leave
    <3>2. \/ call' = [call EXCEPT ![c] = r("leave_mark")]
          \/ call' = [call EXCEPT ![c] = r("leave_clear")]
      BY <2>4 DEF Leave
    <3> QED
      BY <3>1, <3>2
  <2> QED
    BY <1>2, <2>1, <2>2, <2>3, <2>4 DEF Arrive
<1>3. ASSUME NEW c \in Calls, CallStep(c) PROVE Goal
  <2>0. call[c] \in CallRecords /\ CallOK(call[c])
    BY <1>0 DEF Inductive, CallShape
  <2> DEFINE Moves == Finish(c) \/ \E pc \in CallPcs : Goto(c, pc)
  <2>a. CASE Moves
    BY <1>0, <2>a, GotoTyped, FinishTyped
  <2>1. CASE FindRefuse(c) \/ FindAcquire(c) \/ FindRecheck(c) \/ CommitSetSearching(c)
             \/ CommitEnqueue(c) \/ CommitPushJob(c)
    <3>1. Moves
      BY <2>1 DEF FindRefuse, FindAcquire, FindRecheck, CommitSetSearching, CommitEnqueue,
         CommitPushJob, CallPcs, CommitPcs
    <3> QED
      BY <2>a, <3>1
  <2>2. CASE RecordConnect(c) \/ MarkPairInRoom(c) \/ MarkMatched(c) \/ ClearPending(c)
             \/ TeardownDropPending(c) \/ TeardownRelease(c) \/ TeardownNoMatch(c)
    <3>1. Moves
      BY <2>2 DEF RecordConnect, MarkPairInRoom, MarkMatched, ClearPending,
         TeardownDropPending, TeardownRelease, TeardownNoMatch, CallPcs, FinishPcs, TeardownPcs
    <3> QED
      BY <2>a, <3>1
  <2>3. CASE CancelRemove(c) \/ CancelMark(c) \/ LeaveMark(c) \/ LeaveClear(c)
    <3>1. Moves
      BY <2>3 DEF CancelRemove, CancelMark, LeaveMark, LeaveClear, CallPcs
    <3> QED
      BY <2>a, <3>1
  <2>4. ASSUME RespondReadPending(c) \/ CancelReadPending(c), ~Moves PROVE Goal
    <3> DEFINE d == pending[CallPair(c)].rec
    <3>1. CallPair(c) \in Pairs
      BY <2>0, <2>4, PairOfTwo
      DEF RespondReadPending, CancelReadPending, CallPair, CallOK, PeerPcs
    <3>2. d \in Proposals \cup {None}
      BY <1>0, <3>1 DEF TypeOK
    <3>3. \/ call' = [call EXCEPT ![c].prop = d, ![c].pc = "drop_pending"]
          \/ call' = [call EXCEPT ![c].pc = "drop_pending", ![c].prop = d]
          \/ call' = [call EXCEPT ![c].prop = d, ![c].pc = "connect"]
      BY <2>4 DEF RespondReadPending, CancelReadPending, CallPcs
    <3> HIDE DEF d
    <3>4. /\ [call[c] EXCEPT !.prop = d, !.pc = "drop_pending"] \in CallRecords
          /\ [call[c] EXCEPT !.prop = d, !.pc = "connect"] \in CallRecords
      <4>1. "drop_pending" \in CallPcs /\ "connect" \in CallPcs
        BY DEF CallPcs, TeardownPcs
      <4> QED
        BY <2>0, <3>2, <4>1, LocalsTyped
    <3>5. \/ call' = [call EXCEPT ![c] = [call[c] EXCEPT !.prop = d, !.pc = "drop_pending"]]
          \/ call' = [call EXCEPT ![c] = [call[c] EXCEPT !.prop = d, !.pc = "connect"]]
      BY <1>0, <2>0, <3>3 DEF CallRecords
    <3> QED
      BY <1>0, <3>4, <3>5, CallTyped
  <2>5. CASE CreateRoom(c)
    <3> DEFINE r == [call[c] EXCEPT !.pc = "in_room", !.room = Len(rooms) + 1]
    <3>1. Goto(c, "drop_pending") \/ call' = [call EXCEPT ![c] = r]
      BY <1>0, <2>5 DEF CreateRoom
    <3>2. Len(rooms) + 1 \in Nat
      BY <1>0 DEF TypeOK
    <3>3. \A n \in Nat : [call[c] EXCEPT !.pc = "in_room", !.room = n] \in CallRecords
      BY <2>0 DEF CallRecords, CallPcs, FinishPcs
    <3>4. "drop_pending" \in CallPcs
      BY DEF CallPcs, TeardownPcs
    <3> QED
      BY <1>0, <2>a, <3>1, <3>2, <3>3, <3>4, CallTyped
  <2>6. CASE CancelReadAttempt(c)
    <3> DEFINE v == attempt[call[c].att].peer
    <3>1. call[c].att \in Attempts
      BY <2>0, <2>6 DEF CancelReadAttempt, CallOK, AttemptPcs
    <3>2. v \in Users \cup {None}
      BY <1>0, <3>1 DEF TypeOK
    <3>3. Goto(c, "cancel_mark") \/ call' = [call EXCEPT ![c].pc = "cancel_pending",
    ![c].peer = v]
      BY <2>6 DEF CancelReadAttempt
    <3> HIDE DEF v
    <3>4. [call[c] EXCEPT !.pc = "cancel_pending", !.peer = v] \in CallRecords
      <4>1. "cancel_pending" \in CallPcs
        BY DEF CallPcs
      <4> QED
        BY <2>0, <3>2, <4>1, LocalsTyped
    <3>5. "cancel_mark" \in CallPcs
      BY DEF CallPcs
    <3>6. [call EXCEPT ![c].pc = "cancel_pending", ![c].peer = v]
            = [call EXCEPT ![c] = [call[c] EXCEPT !.pc = "cancel_pending", !.peer = v]]
      BY <1>0, <2>0 DEF CallRecords
    <3> QED
      BY <1>0, <2>a, <3>3, <3>4, <3>5, <3>6, CallTyped
  <2> QED
    BY <1>3, <2>a, <2>1, <2>2, <2>3, <2>4, <2>5, <2>6 DEF CallStep
<1>4. CASE Environment
  <2>1. ASSUME NEW c \in Calls, FindWaitExhausted(c) PROVE Goal
    <3>1. [call[c] EXCEPT !.pc = "set_searching", !.op = "unlocked"] \in CallRecords
      <4>1. "set_searching" \in CallPcs
        BY DEF CallPcs, CommitPcs
      <4>2. call[c] \in CallRecords
        BY <1>0
      <4> QED
        BY <4>1, <4>2, LocalsTyped
    <3>2. call' = [call EXCEPT ![c] = [call[c] EXCEPT !.pc = "set_searching", !.op = "unlocked"]]
      BY <1>0, <2>1 DEF FindWaitExhausted, CallRecords
    <3> QED
      BY <1>0, <3>1, <3>2, CallTyped
  <2>2. ASSUME NEW c \in Calls, CallDies(c) PROVE Goal
    BY <1>0, <2>2, FinishTyped DEF CallDies
  <2> QED
    BY <1>1, <1>4, <2>1, <2>2 DEF Environment, JobDies, ProposalLapses, PendingLapses,
       FinalizeLapses, AttemptLapses, InRoomLapses, StartLockLapses
<1>5. CASE UNCHANGED vars
  BY <1>1, <1>5 DEF vars
<1> QED
  BY <1>1, <1>2, <1>3, <1>4, <1>5, WorkersKeepCalls DEF Next

\* state, the locks and the pool keep their types.
LEMMA LocksTyped ==
  ASSUME Inductive, [Next]_vars
  PROVE  /\ state' \in [Users -> States] /\ userLock' \in [Users -> Users \cup {None}]
         /\ pairLock' \subseteq Pairs /\ pool' \subseteq Users
<1> DEFINE Goal == /\ state' \in [Users -> States] /\ userLock' \in [Users -> Users \cup {None}]
                   /\ pairLock' \subseteq Pairs /\ pool' \subseteq Users
<1>0. /\ state \in [Users -> States] /\ userLock \in [Users -> Users \cup {None}]
      /\ pairLock \subseteq Pairs /\ pool \subseteq Users
  BY DEF Inductive, TypeOK
<1>1. CASE UNCHANGED <<locks, pool>>
  BY <1>0, <1>1 DEF locks
<1>2. ASSUME NEW c \in Calls, Arrive(c) PROVE Goal
  BY <1>1, <1>2 DEF Arrive, FindArrive, Respond, Cancel, Leave, redis
<1>3. ASSUME NEW c \in Calls, CallStep(c) PROVE Goal
  <2>0. call[c].pc # "free" => call[c].user \in Users
    BY DEF Inductive, CallShape, CallOK
  <2>1. CASE FindRefuse(c) \/ FindAcquire(c) \/ FindRecheck(c) \/ CommitSetSearching(c)
             \/ CommitPushJob(c) \/ RespondReadPending(c) \/ RecordConnect(c) \/ CreateRoom(c)
    BY <1>1, <2>1 DEF FindRefuse, FindAcquire, FindRecheck, CommitSetSearching,
       CommitPushJob, RespondReadPending, RecordConnect, CreateRoom, redis
  <2>2. CASE MarkMatched(c) \/ ClearPending(c) \/ TeardownDropPending(c) \/ TeardownNoMatch(c)
             \/ CancelReadAttempt(c) \/ CancelReadPending(c) \/ CancelMark(c) \/ LeaveMark(c)
    BY <1>1, <2>2 DEF MarkMatched, ClearPending, TeardownDropPending, TeardownNoMatch,
       CancelReadAttempt, CancelReadPending, CancelMark, LeaveMark, redis
  <2>3. CASE CommitEnqueue(c)
    BY <1>0, <2>0, <2>3 DEF CommitEnqueue, States
  <2>4. CASE MarkPairInRoom(c)
    BY <1>0, <2>4 DEF MarkPairInRoom, States
  <2>5. CASE TeardownRelease(c)
    BY <1>0, <2>5 DEF TeardownRelease, ReleasePair, States
  <2>6. CASE CancelRemove(c)
    BY <1>0, <2>6 DEF CancelRemove, PoolRemove, States
  <2>7. CASE LeaveClear(c)
    BY <1>0, <2>7 DEF LeaveClear, PoolRemove, States
  <2> QED
    BY <1>3, <2>1, <2>2, <2>3, <2>4, <2>5, <2>6, <2>7 DEF CallStep
<1>4. ASSUME NEW w \in Workers, WorkerStep(w) PROVE Goal
  <2>1. CASE TakeJob(w) \/ Scan(w) \/ PassExhausted(w) \/ JudgePeer(w) \/ WritePending(w)
             \/ ProposeSelf(w) \/ ProposePeer(w) \/ GiveUpNoMatch(w)
    BY <1>1, <2>1 DEF TakeJob, Scan, PassExhausted, JudgePeer, WritePending, ProposeSelf,
       ProposePeer, GiveUpNoMatch, redis
  <2>2. CASE TryLock(w)
    <3> DEFINE u == Owner(worker[w].job)
    <3>0. worker[w].pc = "try"
      BY <2>2 DEF TryLock
    <3>1. u \in Users /\ u \notin worker[w].cands /\ worker[w].cands \subseteq Users
      BY <3>0, OwnerIsUser DEF Inductive, WorkerShape, WorkerOK, TypeOK
    <3>2. PICK v \in worker[w].cands :
            \/ UNCHANGED locks
            \/ /\ pairLock' = pairLock \cup {{u, v}}
               /\ userLock' = [userLock EXCEPT ![v] = u, ![u] = v]
               /\ state' = [x \in Users |-> IF x \in {u, v} THEN "locked" ELSE state[x]]
      BY <2>2 DEF TryLock
    <3>3. {u, v} \in Pairs /\ pool' = pool
      BY <2>2, <3>1, PairOfTwo DEF TryLock
    <3> HIDE DEF u
    <3>4. state' \in [Users -> States]
      BY <1>0, <3>2 DEF locks, States
    <3>5. userLock' \in [Users -> Users \cup {None}]
      BY <1>0, <3>1, <3>2 DEF locks
    <3>6. pairLock' \subseteq Pairs
      BY <1>0, <3>2, <3>3 DEF locks
    <3> QED
      BY <1>0, <3>3, <3>4, <3>5, <3>6
  <2>3. CASE ReleasePeer(w)
    BY <1>0, <2>3 DEF ReleasePeer, ReleasePair, States
  <2>4. CASE EvictPeer(w)
    BY <1>0, <2>4 DEF EvictPeer, locks
  <2>5. CASE GiveUpRemove(w)
    BY <1>0, <2>5 DEF GiveUpRemove, PoolRemove, States
  <2> QED
    BY <1>4, <2>1, <2>2, <2>3, <2>4, <2>5 DEF WorkerStep
<1>5. CASE Environment
  <2>1. ASSUME NEW p \in Pairs, ProposalLapses(p) PROVE Goal
    BY <1>0, <2>1 DEF ProposalLapses
  <2>2. ASSUME NEW u \in Users, InRoomLapses(u) PROVE Goal
    BY <1>0, <2>2 DEF InRoomLapses, States
  <2> QED
    BY <1>1, <1>5, <2>1, <2>2 DEF Environment, CallDies, JobDies, FindWaitExhausted,
       PendingLapses, FinalizeLapses, AttemptLapses, StartLockLapses, redis
<1>6. CASE UNCHANGED vars
  BY <1>1, <1>6 DEF vars, redis
<1> QED
  BY <1>2, <1>3, <1>4, <1>5, <1>6 DEF Next

\* The start-search locks, the queue and the finalize keys keep their types.
LEMMA SearchTyped ==
  ASSUME Inductive, [Next]_vars
  PROVE  /\ startLock' \in [Users -> Attempts \cup {None}] /\ jobs' \in Seq(Attempts)
         /\ finalizing' \subseteq Pairs
<1> DEFINE Goal == /\ startLock' \in [Users -> Attempts \cup {None}] /\ jobs' \in Seq(Attempts)
                   /\ finalizing' \subseteq Pairs
<1>0. /\ startLock \in [Users -> Attempts \cup {None}] /\ jobs \in Seq(Attempts)
      /\ finalizing \subseteq Pairs
  BY DEF Inductive, TypeOK
<1>1. CASE UNCHANGED <<search, finalizing>>
  BY <1>0, <1>1 DEF search
<1>2. ASSUME NEW c \in Calls, Arrive(c) PROVE Goal
  BY <1>1, <1>2 DEF Arrive, FindArrive, Respond, Cancel, Leave, redis, offers
<1>3. ASSUME NEW c \in Calls, CallStep(c) PROVE Goal
  <2>0. CallOK(call[c])
    BY DEF Inductive, CallShape
  <2>1. CASE FindRefuse(c) \/ CommitSetSearching(c) \/ CommitEnqueue(c)
             \/ RespondReadPending(c) \/ CreateRoom(c) \/ MarkPairInRoom(c) \/ MarkMatched(c)
    BY <1>1, <2>1 DEF FindRefuse, CommitSetSearching, CommitEnqueue, RespondReadPending,
       CreateRoom, MarkPairInRoom, MarkMatched, redis, offers
  <2>2. CASE TeardownRelease(c) \/ TeardownNoMatch(c) \/ CancelRemove(c)
             \/ CancelReadAttempt(c) \/ CancelReadPending(c) \/ CancelMark(c)
             \/ LeaveMark(c) \/ LeaveClear(c)
    BY <1>1, <2>2 DEF TeardownRelease, TeardownNoMatch, CancelRemove, CancelReadAttempt,
       CancelReadPending, CancelMark, LeaveMark, LeaveClear, redis, offers
  <2>3. CASE FindAcquire(c)
    <3>1. call[c].att \in Attempts
      BY <2>0, <2>3 DEF FindAcquire, CallOK, AttemptPcs
    <3> QED
      BY <1>0, <2>3, <3>1 DEF FindAcquire, offers
  <2>4. CASE FindRecheck(c)
    BY <1>0, <2>4 DEF FindRecheck, FreeStartLock, offers
  <2>5. CASE CommitPushJob(c)
    <3>1. call[c].att \in Attempts
      BY <2>0, <2>5 DEF CommitPushJob, CallOK, AttemptPcs, CommitPcs
    <3>2. jobs' \in Seq(Attempts)
      BY <1>0, <2>5, <3>1 DEF CommitPushJob
    <3>3. startLock' \in [Users -> Attempts \cup {None}] /\ finalizing' = finalizing
      BY <1>0, <2>5 DEF CommitPushJob, FreeStartLock, offers
    <3> QED
      BY <1>0, <3>2, <3>3
  <2>6. CASE RecordConnect(c)
    <3>1. CallPair(c) \in Pairs
      BY <2>0, <2>6, PairOfTwo DEF RecordConnect, CallOK, PeerPcs, CallPair
    <3> QED
      BY <1>0, <2>6, <3>1 DEF RecordConnect, search
  <2>7. CASE ClearPending(c) \/ TeardownDropPending(c)
    BY <1>0, <2>7 DEF ClearPending, TeardownDropPending, DeletePending, search
  <2> QED
    BY <1>3, <2>1, <2>2, <2>3, <2>4, <2>5, <2>6, <2>7 DEF CallStep
<1>4. ASSUME NEW w \in Workers, WorkerStep(w) PROVE Goal
  <2>1. CASE TakeJob(w)
    BY <1>0, <2>1 DEF TakeJob, offers
  <2> QED
    BY <1>1, <1>4, <2>1 DEF WorkerStep, Scan, PassExhausted, TryLock, JudgePeer, ReleasePeer,
       EvictPeer, WritePending, ProposeSelf, ProposePeer, GiveUpNoMatch, GiveUpRemove,
       redis, offers
<1>5. CASE Environment
  <2>1. ASSUME NEW c \in Calls, CallDies(c) PROVE Goal
    BY <1>0, <2>1 DEF CallDies, FreeStartLock, offers
  <2>2. ASSUME NEW p \in Pairs, FinalizeLapses(p) PROVE Goal
    BY <1>0, <2>2 DEF FinalizeLapses, search
  <2>3. ASSUME NEW u \in Users, StartLockLapses(u) PROVE Goal
    BY <1>0, <2>3 DEF StartLockLapses, offers
  <2> QED
    BY <1>1, <1>5, <2>1, <2>2, <2>3 DEF Environment, JobDies, FindWaitExhausted,
       ProposalLapses, PendingLapses, AttemptLapses, InRoomLapses, redis, offers
<1>6. CASE UNCHANGED vars
  BY <1>1, <1>6 DEF vars, redis, offers
<1> QED
  BY <1>2, <1>3, <1>4, <1>5, <1>6 DEF Next

\* dropped and the counters keep their types.
LEMMA CountersTyped ==
  ASSUME Inductive, [Next]_vars
  PROVE  dropped' \subseteq Proposals /\ made' \in Nat /\ failed' \in Nat /\ deaths' \in Nat
         /\ lapses' \in Nat
<1> DEFINE Goal == dropped' \subseteq Proposals /\ made' \in Nat /\ failed' \in Nat
                   /\ deaths' \in Nat /\ lapses' \in Nat
<1>0. dropped \subseteq Proposals /\ made \in Nat /\ failed \in Nat /\ deaths \in Nat
      /\ lapses \in Nat
  BY DEF Inductive, TypeOK
<1>1. CASE UNCHANGED <<dropped, counters>>
  BY <1>0, <1>1 DEF counters, losses
<1>2. ASSUME NEW c \in Calls, Arrive(c) PROVE Goal
  <2>1. made' = made + 1 /\ UNCHANGED <<dropped, losses>>
    BY <1>2 DEF Arrive, FindArrive, Respond, Cancel, Leave, Start, history, answers
  <2> QED
    BY <1>0, <2>1 DEF losses
<1>3. ASSUME NEW c \in Calls, CallStep(c) PROVE Goal
  <2>1. CASE CreateRoom(c)
    BY <1>0, <2>1 DEF CreateRoom
  <2>2. CASE TeardownDropPending(c)
    <3>1. call[c].prop \in Proposals
      BY <2>2 DEF Inductive, CallShape, CallOK, TeardownDropPending, ProposalPcs, TeardownPcs,
         WellFormed
    <3> QED
      BY <1>0, <2>2, <3>1 DEF TeardownDropPending, counters, losses
  <2>3. CASE FindRefuse(c) \/ FindAcquire(c) \/ FindRecheck(c) \/ CommitSetSearching(c)
             \/ CommitEnqueue(c) \/ CommitPushJob(c) \/ RespondReadPending(c)
             \/ RecordConnect(c) \/ MarkPairInRoom(c) \/ MarkMatched(c) \/ ClearPending(c)
    BY <1>1, <2>3 DEF FindRefuse, FindAcquire, FindRecheck, CommitSetSearching,
       CommitEnqueue, CommitPushJob, RespondReadPending, RecordConnect, MarkPairInRoom,
       MarkMatched, ClearPending, history, answers
  <2>4. CASE TeardownRelease(c) \/ TeardownNoMatch(c) \/ CancelRemove(c)
             \/ CancelReadAttempt(c) \/ CancelReadPending(c) \/ CancelMark(c)
             \/ LeaveMark(c) \/ LeaveClear(c)
    BY <1>1, <2>4 DEF TeardownRelease, TeardownNoMatch, CancelRemove, CancelReadAttempt,
       CancelReadPending, CancelMark, LeaveMark, LeaveClear, history, answers
  <2> QED
    BY <1>3, <2>1, <2>2, <2>3, <2>4 DEF CallStep
<1>4. ASSUME NEW w \in Workers, WorkerStep(w) PROVE Goal
  BY <1>0, <1>4, WorkersKeepCalls
<1>5. CASE Environment
  <2>1. UNCHANGED <<dropped, made, failed>>
    BY <1>5 DEF Environment, CallDies, JobDies, FindWaitExhausted, ProposalLapses,
       PendingLapses, FinalizeLapses, AttemptLapses, InRoomLapses, StartLockLapses, history,
       answers,
       counters, losses
  <2>2. deaths' \in {deaths, deaths + 1} /\ lapses' \in {lapses, lapses + 1}
    BY <1>5 DEF Environment, CallDies, JobDies, FindWaitExhausted, ProposalLapses,
       PendingLapses, FinalizeLapses, AttemptLapses, InRoomLapses, StartLockLapses,
       counters, losses
  <2> QED
    BY <1>0, <2>1, <2>2
<1>6. CASE UNCHANGED vars
  BY <1>1, <1>6 DEF vars, history, answers
<1> QED
  BY <1>2, <1>3, <1>4, <1>5, <1>6 DEF Next

\* The histories of what went wrong only grow by pairs and attempts.
LEMMA MishapsTyped ==
  ASSUME Inductive, [Next]_vars
  PROVE  /\ freed' \subseteq Pairs
         /\ overtaken \subseteq overtaken' /\ overtaken' \subseteq Pairs
         /\ orphaned \subseteq orphaned' /\ orphaned' \subseteq Attempts
<1> DEFINE Goal == /\ freed' \subseteq Pairs
                   /\ overtaken \subseteq overtaken' /\ overtaken' \subseteq Pairs
                   /\ orphaned \subseteq orphaned' /\ orphaned' \subseteq Attempts
<1>0. /\ freed \subseteq Pairs /\ overtaken \subseteq Pairs /\ orphaned \subseteq Attempts
      /\ jobs \in Seq(Attempts)
  BY DEF Inductive, TypeOK
<1>1. CASE UNCHANGED mishaps
  BY <1>0, <1>1 DEF mishaps
<1>2. ASSUME NEW c \in Calls, Arrive(c) PROVE Goal
  BY <1>1, <1>2 DEF Arrive, FindArrive, Respond, Cancel, Leave, history
<1>3. ASSUME NEW c \in Calls, CallStep(c) PROVE Goal
  <2>0. call[c].pc \in {"clear_pending", "drop_pending"} => Both(call[c].prop) \in Pairs
    <3>1. call[c].pc \in {"clear_pending", "drop_pending"} => WellFormed(call[c].prop)
      BY DEF Inductive, CallShape, CallOK, ProposalPcs, TeardownPcs, FinishPcs
    <3> QED
      BY <3>1, PairOfTwo DEF WellFormed, Proposals, Both
  <2>1. CASE FindRefuse(c) \/ FindAcquire(c) \/ FindRecheck(c) \/ CommitSetSearching(c)
             \/ CommitEnqueue(c) \/ CommitPushJob(c) \/ RespondReadPending(c)
             \/ RecordConnect(c) \/ CreateRoom(c) \/ MarkMatched(c)
    BY <1>1, <2>1 DEF FindRefuse, FindAcquire, FindRecheck, CommitSetSearching,
       CommitEnqueue, CommitPushJob, RespondReadPending, RecordConnect, CreateRoom,
       MarkMatched, history
  <2>2. CASE TeardownNoMatch(c) \/ CancelRemove(c) \/ CancelReadAttempt(c)
             \/ CancelReadPending(c) \/ CancelMark(c) \/ LeaveMark(c)
    BY <1>1, <2>2 DEF TeardownNoMatch, CancelRemove, CancelReadAttempt, CancelReadPending,
       CancelMark, LeaveMark, history
  <2>3. CASE MarkPairInRoom(c) \/ TeardownRelease(c) \/ LeaveClear(c)
    BY <1>0, <2>3 DEF MarkPairInRoom, TeardownRelease, LeaveClear, Frees
  <2>4. CASE ClearPending(c) \/ TeardownDropPending(c)
    BY <1>0, <2>0, <2>4 DEF ClearPending, TeardownDropPending, Overtakes
  <2> QED
    BY <1>3, <2>1, <2>2, <2>3, <2>4 DEF CallStep
<1>4. ASSUME NEW w \in Workers, WorkerStep(w) PROVE Goal
  <2>1. CASE TakeJob(w)
    <3>1. Head(jobs) \in Attempts
      BY <1>0, <2>1 DEF TakeJob
    <3> QED
      BY <1>0, <2>1, <3>1 DEF TakeJob, Orphans
  <2>2. CASE TryLock(w) \/ ReleasePeer(w)
    BY <1>0, <2>2 DEF TryLock, ReleasePeer, Frees
  <2>3. CASE WritePending(w)
    BY <1>0, <2>3, WrittenWellFormed DEF WritePending, Overtakes
  <2> QED
    BY <1>1, <1>4, <2>1, <2>2, <2>3 DEF WorkerStep, Scan, PassExhausted, JudgePeer, EvictPeer,
       ProposeSelf, ProposePeer, GiveUpNoMatch, GiveUpRemove, history
<1>5. CASE Environment
  <2>1. ASSUME NEW c \in Calls, CallDies(c) PROVE Goal
    <3>1. call[c].pc \in {"enqueue", "push_job"} => call[c].att \in Attempts
      BY DEF Inductive, CallShape, CallOK, AttemptPcs, CommitPcs
    <3> QED
      BY <1>0, <2>1, <3>1 DEF CallDies, Orphans
  <2>2. ASSUME NEW w \in Workers, JobDies(w) PROVE Goal
    <3>1. worker[w].job \in Attempts
      BY <2>2 DEF Inductive, WorkerShape, WorkerOK, JobDies
    <3> QED
      BY <1>0, <2>2, <3>1 DEF JobDies, Orphans
  <2>3. ASSUME NEW p \in Pairs, FinalizeLapses(p) PROVE Goal
    BY <1>0, <2>3 DEF FinalizeLapses, Overtakes
  <2> QED
    BY <1>1, <1>5, <2>1, <2>2, <2>3 DEF Environment, FindWaitExhausted, ProposalLapses,
       PendingLapses, AttemptLapses, InRoomLapses, StartLockLapses, history
<1>6. CASE UNCHANGED vars
  BY <1>1, <1>6 DEF vars, history
<1> QED
  BY <1>2, <1>3, <1>4, <1>5, <1>6 DEF Next

-----------------------------------------------------------------------------
(* The theorems.                                                             *)

\* Every step keeps the inductive invariant.
LEMMA InductiveStep == Inductive /\ [Next]_vars => Inductive'
<1> SUFFICES ASSUME Inductive, [Next]_vars PROVE Inductive'
  OBVIOUS
<1>1. TypeOK'
  BY LocksTyped, TriesTyped, SearchTyped, PendingTyped, HistoryTyped, WorkersTyped,
     CallsTyped, CountersTyped, MishapsTyped
  DEF TypeOK, CallRecords, WorkerRecords
<1> QED
  BY <1>1, KeysOwnedStep, CallShapeStep, WorkerShapeStep, ConsentKeptStep, RoomsKeptStep
  DEF Inductive

\* In every reachable state the inductive invariant holds: between any two
\* awaits, the locals of the handlers, the keys they wrote and the consent and
\* the rooms behind them agree, however the handlers interleave or die.
THEOREM InductiveHolds == Spec => []Inductive
  BY InitInductive, InductiveStep, PTL DEF Spec

\* Every Redis key and every local keeps its type.
THEOREM TypeCorrect == Spec => []TypeOK
<1>1. Inductive => TypeOK
  BY DEF Inductive
<1> QED
  BY <1>1, InductiveHolds, PTL

\* A client that polls an attempt and reads matched is given a room that the
\* room service made for that very attempt: markMatched never publishes a room
\* of another proposal, whatever skips, retries, timeouts and crashes happen.
THEOREM MatchedHasRoom == Spec => []MatchedAttemptHasRoom
<1>1. Inductive => MatchedAttemptHasRoom
  BY DEF Inductive, RoomsKept
<1> QED
  BY <1>1, InductiveHolds, PTL

-----------------------------------------------------------------------------
(* A proposal torn down undecided stays without a room.                      *)

\* Only a connect that has read the record can still set a flag of the pair.
LEMMA LateOfPair ==
  ASSUME Inductive, NEW p \in Pairs
  PROVE  pending[p].connects \cup Late(p) \subseteq p
<1>1. pending[p].connects \subseteq p
  BY DEF Inductive, ConsentKept
<1>2. Late(p) \subseteq p
  BY DEF Late, CallPair
<1> QED
  BY <1>1, <1>2

\* A call at the connect script, or asking for the room, got there by reading
\* the record, or by finding both flags.
LEMMA LateChange ==
  ASSUME Inductive, [Next]_vars, NEW c \in Calls, NEW p \in Pairs
  PROVE  /\ call'[c].pc = "connect" /\ CallPair(c)' = p =>
              \/ call[c].pc = "connect" /\ CallPair(c) = p
              \/ pending[p].rec # None
         /\ call'[c].pc = "create_room" /\ Both(call'[c].prop) = p =>
              \/ call[c].pc = "create_room" /\ Both(call[c].prop) = p
              \/ call[c].pc = "connect" /\ CallPair(c) = p
                   /\ pending[p].connects \cup {call[c].user} = p
<1> DEFINE Goal ==
      /\ call'[c].pc = "connect" /\ CallPair(c)' = p =>
           \/ call[c].pc = "connect" /\ CallPair(c) = p
           \/ pending[p].rec # None
      /\ call'[c].pc = "create_room" /\ Both(call'[c].prop) = p =>
           \/ call[c].pc = "create_room" /\ Both(call[c].prop) = p
           \/ call[c].pc = "connect" /\ CallPair(c) = p
                /\ pending[p].connects \cup {call[c].user} = p
<1>0. TypeOK /\ CallOK(call[c])
  BY DEF Inductive, CallShape
<1>1. CASE call'[c] = call[c]
  BY <1>1 DEF CallPair
<1>2. CASE call'[c].pc \notin {"connect"} \cup FinishPcs
  BY <1>2 DEF FinishPcs
<1>3. CASE RespondReadPending(c)
  <2>1. call' = [call EXCEPT ![c] = call'[c]] /\ call'[c].pc # "create_room"
    BY <1>0, <1>3 DEF RespondReadPending, Finish, NoCall, TypeOK
  <2>2. call'[c].pc = "connect" => CallPair(c)' = CallPair(c) /\ pending[CallPair(c)].rec # None
    BY <1>0, <1>3 DEF RespondReadPending, Finish, NoCall, CallPair, TypeOK
  <2> QED
    BY <2>1, <2>2
<1>4. CASE RecordConnect(c)
  <2>1. call[c].pc = "connect" /\ Both(call[c].prop) = CallPair(c)
    BY <1>0, <1>4 DEF RecordConnect, CallOK, CallPair
  <2>2. \/ call'[c].pc = "free"
        \/ /\ call'[c].pc = "create_room" /\ call'[c].prop = call[c].prop
           /\ pending[CallPair(c)].connects \cup {call[c].user} = CallPair(c)
    BY <1>0, <1>4 DEF RecordConnect, Finalizes, Finish, Goto, NoCall, TypeOK
  <2> QED
    BY <2>1, <2>2
<1>5. CASE CreateRoom(c) \/ MarkPairInRoom(c) \/ MarkMatched(c)
  BY <1>0, <1>5 DEF CreateRoom, MarkPairInRoom, MarkMatched, Goto, TypeOK
<1> QED
  BY <1>1, <1>2, <1>3, <1>4, <1>5, CallChange

\* A settled pair stays settled until it is proposed again.
LEMMA SettledStep ==
  ASSUME Inductive, [Next]_vars, NEW p \in Pairs, Settled(p),
         ~ \E w \in Workers : WritePending(w) /\ Pair(w) = p
  PROVE  Settled(p)'
<1>0. TypeOK
  BY DEF Inductive
<1>1. /\ pending'[p].rec = None
      /\ pending'[p].connects \subseteq pending[p].connects \cup Late(p)
  <2>1. CASE UNCHANGED pending
    BY <2>1 DEF Settled
  <2>2. ASSUME NEW q, pending' = [pending EXCEPT ![q] = [rec |-> None, connects |-> {}]]
        PROVE  <1>1!1 /\ <1>1!2
    BY <1>0, <2>2 DEF Settled, TypeOK
  <2>3. ASSUME NEW w \in Workers, WritePending(w) PROVE <1>1!1 /\ <1>1!2
    <3>1. Pair(w) # p
      BY <2>3
    <3>2. pending'[p] = pending[p]
      BY <1>0, <2>3, <3>1 DEF WritePending, TypeOK
    <3> QED
      BY <3>2 DEF Settled
  <2>4. ASSUME NEW c \in Calls, RecordConnect(c) PROVE <1>1!1 /\ <1>1!2
    <3>1. CASE CallPair(c) = p
      <4>1. call[c].user \in Late(p)
        BY <2>4, <3>1 DEF RecordConnect, Late
      <4>2. pending'[p] = [pending[p] EXCEPT !.connects = pending[p].connects \cup {call[c].user}]
        BY <1>0, <2>4, <3>1 DEF RecordConnect, TypeOK
      <4>3. pending[p] \in [rec : Proposals \cup {None}, connects : SUBSET Users]
        BY <1>0 DEF TypeOK
      <4> QED
        BY <4>1, <4>2, <4>3 DEF Settled
    <3>2. CASE CallPair(c) # p
      <4>1. pending'[p] = pending[p]
        BY <1>0, <2>4, <3>2 DEF RecordConnect, TypeOK
      <4> QED
        BY <4>1 DEF Settled
    <3> QED
      BY <3>1, <3>2
  <2> QED
    BY <2>1, <2>2, <2>3, <2>4, PendingChange
<1>2. Late(p)' \subseteq Late(p)
  <2>1. ASSUME NEW c \in Calls, call'[c].pc = "connect", CallPair(c)' = p
        PROVE  call'[c].user \in Late(p)
    <3>1. call[c].pc = "connect" /\ CallPair(c) = p
      BY <2>1, LateChange DEF Settled
    <3>2. call'[c].user = call[c].user
      <4>1. CASE call'[c] = call[c]
        BY <4>1
      <4>2. CASE RespondReadPending(c) \/ RecordConnect(c) \/ CreateRoom(c)
                 \/ MarkPairInRoom(c) \/ MarkMatched(c)
        BY <1>0, <2>1, <3>1, <4>2 DEF RespondReadPending, RecordConnect, CreateRoom,
           MarkPairInRoom, MarkMatched, Goto, Finish, NoCall, TypeOK
      <4> QED
        BY <2>1, <4>1, <4>2, CallChange
    <3> QED
      BY <3>1, <3>2 DEF Late
  <2> QED
    BY <2>1 DEF Late
<1>3. (pending[p].connects \cup Late(p))' # p
  BY <1>1, <1>2, LateOfPair DEF Settled
<1>4. ASSUME NEW c \in Calls, call'[c].pc = "create_room", Both(call'[c].prop) = p PROVE FALSE
  <2>1. call[c].pc = "connect" /\ CallPair(c) = p
        /\ pending[p].connects \cup {call[c].user} = p
    BY <1>4, LateChange DEF Settled
  <2>2. call[c].user \in Late(p)
    BY <2>1 DEF Late
  <2> QED
    BY <2>1, <2>2, LateOfPair DEF Settled
<1> QED
  BY <1>1, <1>3, <1>4 DEF Settled

\* The history only gains a proposal at a teardown that nobody had overtaken,
\* and a new proposal of a pair takes the pair's old ones out of it.
LEMMA DroppedChange ==
  ASSUME Inductive, [Next]_vars
  PROVE  \/ /\ dropped' \subseteq dropped
            /\ \A w \in Workers : WritePending(w) => \A d \in dropped' : Both(d) # Pair(w)
         \/ \E c \in Calls : /\ TeardownDropPending(c)
                             /\ Undecided(Both(call[c].prop))
                             /\ dropped' = dropped \cup {call[c].prop}
<1> DEFINE Fewer == /\ dropped' \subseteq dropped
                    /\ \A w \in Workers : WritePending(w) => \A d \in dropped' : Both(d) # Pair(w)
<1>1. ASSUME NEW w \in Workers, WritePending(w) PROVE Fewer
  BY <1>1 DEF WritePending
<1>2. ASSUME UNCHANGED dropped, ~ \E w \in Workers : WritePending(w) PROVE Fewer
  BY <1>2
<1>3. ASSUME NEW c \in Calls, TeardownDropPending(c), ~ \E w \in Workers : WritePending(w)
      PROVE  \/ Fewer
             \/ /\ Undecided(Both(call[c].prop))
                /\ dropped' = dropped \cup {call[c].prop}
  BY <1>2, <1>3 DEF TeardownDropPending
<1>4. ASSUME NEW c \in Calls, Arrive(c) PROVE UNCHANGED dropped
  BY <1>4 DEF Arrive, FindArrive, Respond, Cancel, Leave, history, answers
<1>5. ASSUME NEW c \in Calls, CallStep(c), ~ TeardownDropPending(c) PROVE UNCHANGED dropped
  BY <1>5 DEF CallStep, FindRefuse, FindAcquire, FindRecheck, CommitSetSearching,
     CommitEnqueue, CommitPushJob, RespondReadPending, RecordConnect, CreateRoom,
     MarkPairInRoom, MarkMatched, ClearPending, TeardownRelease, TeardownNoMatch,
     CancelRemove, CancelReadAttempt, CancelReadPending, CancelMark, LeaveMark,
     LeaveClear, history, answers
<1>6. ASSUME NEW w \in Workers, WorkerStep(w), ~ WritePending(w) PROVE UNCHANGED dropped
  BY <1>6 DEF WorkerStep, TakeJob, Scan, PassExhausted, TryLock, JudgePeer, ReleasePeer,
     EvictPeer, ProposeSelf, ProposePeer, GiveUpNoMatch, GiveUpRemove, history, answers
<1>7. ASSUME Environment PROVE UNCHANGED dropped
  BY <1>7 DEF Environment, CallDies, JobDies, FindWaitExhausted, ProposalLapses,
     PendingLapses, FinalizeLapses, AttemptLapses, InRoomLapses, StartLockLapses, history, answers
<1>8. ASSUME UNCHANGED vars PROVE UNCHANGED dropped
  BY <1>8 DEF vars, history, answers
<1> HIDE DEF Fewer
<1>9. Fewer \/ \E c \in Calls : /\ TeardownDropPending(c)
                                /\ Undecided(Both(call[c].prop))
                                /\ dropped' = dropped \cup {call[c].prop}
  BY <1>1, <1>2, <1>3, <1>4, <1>5, <1>6, <1>7, <1>8 DEF Next
<1> QED
  BY <1>9 DEF Fewer

\* A record deleted while no room is decided leaves its pair settled.
LEMMA DeletionSettles ==
  ASSUME Inductive, NEW p \in Pairs, DeletePending(p), Undecided(p),
         \A e \in Calls : call'[e] = call[e] \/ call'[e].pc \in {"free", "release"}
  PROVE  Settled(p)'
<1>0. TypeOK
  BY DEF Inductive
<1>1. pending'[p] = [rec |-> None, connects |-> {}]
  BY <1>0 DEF DeletePending, TypeOK
<1>2. Late(p) # p /\ Late(p) \subseteq p
  BY LateOfPair DEF Undecided
<1>3. \A e \in Calls : call[e].pc = "create_room" => Both(call[e].prop) # p
  BY DEF Undecided
<1>4. Late(p)' \subseteq Late(p)
  BY DEF Late, CallPair
<1>5. (pending[p].connects \cup Late(p))' # p
  <2>1. pending'[p].connects = {}
    BY <1>1
  <2> QED
    BY <1>2, <1>4, <2>1
<1> QED
  BY <1>1, <1>3, <1>5 DEF Settled

\* A teardown that nobody had overtaken leaves its pair settled.
LEMMA TeardownSettles ==
  ASSUME Inductive, NEW c \in Calls, TeardownDropPending(c), NEW d, d = call[c].prop,
         Undecided(Both(d))
  PROVE  WellFormed(d) /\ Settled(Both(d))'
<1>0. TypeOK /\ CallOK(call[c])
  BY DEF Inductive, CallShape
<1>1. WellFormed(d) /\ Both(d) \in Pairs
  <2>1. WellFormed(d)
    BY <1>0 DEF CallOK, TeardownDropPending, ProposalPcs, TeardownPcs
  <2> QED
    BY <2>1, PairOfTwo DEF WellFormed, Proposals, Both
<1> SUFFICES ASSUME NEW p \in Pairs, p = Both(d) PROVE Settled(p)'
  BY <1>1 DEF Both
<1>2. \A e \in Calls : call'[e] = call[e] \/ call'[e].pc \in {"free", "release"}
  BY <1>0 DEF TeardownDropPending, Goto, TypeOK
<1>3. DeletePending(p)
  BY DEF TeardownDropPending
<1> QED
  BY <1>2, <1>3, DeletionSettles

\* Nothing has been torn down at first, and every step keeps what was.
LEMMA DroppedKeptStep ==
  ASSUME Inductive, DroppedKept, [Next]_vars PROVE DroppedKept'
<1> SUFFICES ASSUME NEW d \in dropped' PROVE WellFormed(d) /\ Settled(Both(d))'
  BY DEF DroppedKept, WellFormed
<1>1. CASE d \in dropped /\ ~ \E w \in Workers : WritePending(w) /\ Pair(w) = Both(d)
  <2>1. WellFormed(d) /\ Settled(Both(d))
    BY <1>1 DEF DroppedKept
  <2>2. Both(d) \in Pairs
    BY <2>1, PairOfTwo DEF WellFormed, Proposals, Both
  <2>3. ASSUME NEW p \in Pairs, p = Both(d) PROVE Settled(p)'
    BY <1>1, <2>1, <2>3, SettledStep
  <2> QED
    BY <2>1, <2>2, <2>3 DEF Both
<1>2. ASSUME NEW c \in Calls, TeardownDropPending(c), Undecided(Both(call[c].prop)),
             d = call[c].prop
      PROVE  WellFormed(d) /\ Settled(Both(d))'
  BY <1>2, TeardownSettles
<1>3. ASSUME NEW c \in Calls, NEW w \in Workers, TeardownDropPending(c), WritePending(w)
      PROVE  FALSE
  <2>1. call' # call
    BY <1>3 DEF TeardownDropPending, Goto, Inductive, TypeOK
  <2> QED
    BY <1>3, <2>1 DEF WritePending
<1> QED
  BY <1>1, <1>2, <1>3, DroppedChange

\* Between any two awaits, a pair whose proposal was torn down undecided has no
\* record, no room request under way, and never both users' connects to come.
THEOREM DroppedKeptHolds == Spec => []DroppedKept
<1>1. Init => DroppedKept
  BY DEF Init, DroppedKept
<1>2. Inductive /\ DroppedKept /\ [Next]_vars => DroppedKept'
  BY DroppedKeptStep
<1> QED
  BY <1>1, <1>2, InductiveHolds, PTL DEF Spec

\* A skip, a cancel or a failed room request is final for the proposal: the
\* script that counts the connects never starts a room for it afterwards, with
\* any number of taps, calls and workers, unless both users' connects had
\* already passed readPending when the record was deleted.
THEOREM TeardownIsFinal == Spec => NoRoomAfterTeardown
<1>1. ASSUME Inductive, DroppedKept, [Next]_vars
      PROVE  [\A d \in dropped : rooms' # Append(rooms, d)]_vars
  <2> USE <1>1
  <2> SUFFICES ASSUME NEW d \in dropped, rooms' = Append(rooms, d) PROVE FALSE
    OBVIOUS
  <2>0. rooms \in Seq(Proposals) /\ d \in Proposals
    BY DEF Inductive, TypeOK
  <2>1. rooms' # rooms
    BY <2>0
  <2>2. PICK c \in Calls : CreateRoom(c)
    BY <2>1, HistoryChange
  <2>3. call[c].pc = "create_room" /\ rooms' = Append(rooms, call[c].prop)
    BY <2>1, <2>2 DEF CreateRoom
  <2>4. call[c].prop \in Proposals
    BY <2>3 DEF Inductive, CallShape, CallOK, ProposalPcs, FinishPcs, WellFormed
  <2>5. call[c].prop = d
    <3> DEFINE n == Len(rooms) + 1
               e == call[c].prop
    <3>1. Append(rooms, d)[n] = d /\ Append(rooms, e)[n] = e
      <4> HIDE DEF e
      <4> QED
        BY <2>0, <2>4, AppendProperties DEF e
    <3> QED
      BY <2>3, <3>1
  <2> QED
    BY <2>3, <2>5 DEF DroppedKept, Settled
<1> QED
  BY <1>1, InductiveHolds, DroppedKeptHolds, PTL DEF Spec, NoRoomAfterTeardown

-----------------------------------------------------------------------------
(* The finalize key has a finalizer.                                         *)

FinalizerPcs == FinishPcs \cup {"drop_pending"}

\* A finalizer goes on until it has deleted the key, or dies.
LEMMA FinalizerGoesOn ==
  ASSUME Inductive, [Next]_vars, NEW c \in Calls, NEW p,
         call[c].pc \in FinalizerPcs, Both(call[c].prop) = p
  PROVE  \/ call'[c].pc \in FinalizerPcs /\ call'[c].prop = call[c].prop
         \/ p \notin finalizing'
         \/ deaths' # 0
<1> DEFINE Goal == \/ call'[c].pc \in FinalizerPcs /\ call'[c].prop = call[c].prop
                   \/ p \notin finalizing'
                   \/ deaths' # 0
<1>0. TypeOK
  BY DEF Inductive
<1>1. CASE UNCHANGED call
  BY <1>1
<1>2. ASSUME NEW b \in Calls, b # c, Arrive(b) \/ CallStep(b) PROVE call'[c] = call[c]
  BY <1>0, <1>2 DEF Arrive, FindArrive, Respond, Cancel, Leave, Start, CallStep, FindRefuse,
     FindAcquire, FindRecheck, CommitSetSearching, CommitEnqueue, CommitPushJob,
     RespondReadPending, RecordConnect, CreateRoom, MarkPairInRoom, MarkMatched, ClearPending,
     TeardownDropPending, TeardownRelease, TeardownNoMatch, CancelRemove, CancelReadAttempt,
     CancelReadPending, CancelMark, LeaveMark, LeaveClear, Goto, Finish, TypeOK
<1>3. ~ Arrive(c)
  BY DEF Arrive, FindArrive, Respond, Cancel, Leave, Start, FinalizerPcs, FinishPcs
<1>4. CASE CallStep(c)
  <2>1. CASE CreateRoom(c) \/ MarkPairInRoom(c) \/ MarkMatched(c)
    BY <1>0, <2>1 DEF CreateRoom, MarkPairInRoom, MarkMatched, Goto, FinalizerPcs, FinishPcs,
       TypeOK
  <2>2. CASE ClearPending(c) \/ TeardownDropPending(c)
    BY <2>2 DEF ClearPending, TeardownDropPending, DeletePending
  <2> QED
    BY <1>4, <2>1, <2>2 DEF CallStep, FindRefuse, FindAcquire, FindRecheck,
       CommitSetSearching, CommitEnqueue, CommitPushJob, RespondReadPending, RecordConnect,
       TeardownRelease, TeardownNoMatch, CancelRemove, CancelReadAttempt, CancelReadPending,
       CancelMark, LeaveMark, LeaveClear, FinalizerPcs, FinishPcs
<1>5. CASE Environment
  <2>1. ASSUME NEW b \in Calls, CallDies(b) PROVE deaths' # 0
    BY <1>0, <2>1 DEF CallDies, TypeOK
  <2>2. ASSUME NEW b \in Calls, FindWaitExhausted(b) PROVE call'[c] = call[c]
    BY <1>0, <2>2 DEF FindWaitExhausted, FinalizerPcs, FinishPcs, TypeOK
  <2> QED
    BY <1>1, <1>5, <2>1, <2>2 DEF Environment, JobDies, ProposalLapses, PendingLapses,
       FinalizeLapses, AttemptLapses, InRoomLapses, StartLockLapses
<1>6. CASE UNCHANGED vars
  BY <1>1, <1>6 DEF vars
<1> QED
  BY <1>1, <1>2, <1>3, <1>4, <1>5, <1>6, WorkersKeepCalls DEF Next

\* A call or a job that died stays counted.
LEMMA DeathsOnlyCounted ==
  ASSUME Inductive, [Next]_vars, deaths' = 0 PROVE deaths = 0
<1>0. deaths \in Nat
  BY DEF Inductive, TypeOK
<1>1. ASSUME NEW c \in Calls, Arrive(c) PROVE UNCHANGED deaths
  BY <1>1 DEF Arrive, FindArrive, Respond, Cancel, Leave, losses
<1>2. ASSUME NEW c \in Calls, CallStep(c) PROVE UNCHANGED deaths
  BY <1>2 DEF CallStep, FindRefuse, FindAcquire, FindRecheck, CommitSetSearching,
     CommitEnqueue, CommitPushJob, RespondReadPending, RecordConnect, CreateRoom,
     MarkPairInRoom, MarkMatched, ClearPending, TeardownDropPending, TeardownRelease,
     TeardownNoMatch, CancelRemove, CancelReadAttempt, CancelReadPending, CancelMark,
     LeaveMark, LeaveClear, counters, losses
<1>3. ASSUME Environment PROVE deaths' \in {deaths, deaths + 1}
  BY <1>3 DEF Environment, CallDies, JobDies, FindWaitExhausted, ProposalLapses,
     PendingLapses, FinalizeLapses, AttemptLapses, InRoomLapses, StartLockLapses, counters,
     losses
<1>4. ASSUME UNCHANGED vars PROVE UNCHANGED deaths
  BY <1>4 DEF vars, counters, losses
<1> QED
  BY <1>0, <1>1, <1>2, <1>3, <1>4, WorkersKeepCalls DEF Next

\* The finalize key is only set by the connect script.
LEMMA FinalizingChange ==
  ASSUME Inductive, [Next]_vars
  PROVE  \/ finalizing' \subseteq finalizing
         \/ \E c \in Calls : /\ RecordConnect(c)
                             /\ finalizing' = finalizing \cup {CallPair(c)}
                             /\ Goto(c, "create_room")
<1> DEFINE Goal == \/ finalizing' \subseteq finalizing
                   \/ \E c \in Calls : /\ RecordConnect(c)
                                       /\ finalizing' = finalizing \cup {CallPair(c)}
                                       /\ Goto(c, "create_room")
<1>1. ASSUME NEW c \in Calls, Arrive(c) PROVE UNCHANGED finalizing
  BY <1>1 DEF Arrive, FindArrive, Respond, Cancel, Leave, redis, offers
<1>2. ASSUME NEW c \in Calls, RecordConnect(c) PROVE Goal
  BY <1>2 DEF RecordConnect
<1>3. ASSUME NEW c \in Calls, CallStep(c), ~ RecordConnect(c)
      PROVE  finalizing' \subseteq finalizing
  BY <1>3 DEF CallStep, FindRefuse, FindAcquire, FindRecheck, CommitSetSearching,
     CommitEnqueue, CommitPushJob, RespondReadPending, CreateRoom, MarkPairInRoom,
     MarkMatched, ClearPending, TeardownDropPending, DeletePending, TeardownRelease,
     TeardownNoMatch, CancelRemove, CancelReadAttempt, CancelReadPending, CancelMark,
     LeaveMark, LeaveClear, redis, offers
<1>4. ASSUME NEW w \in Workers, WorkerStep(w) PROVE UNCHANGED finalizing
  BY <1>4 DEF WorkerStep, TakeJob, Scan, PassExhausted, TryLock, JudgePeer, ReleasePeer,
     EvictPeer, WritePending, ProposeSelf, ProposePeer, GiveUpNoMatch, GiveUpRemove, redis,
     offers
<1>5. CASE Environment
  BY <1>5 DEF Environment, CallDies, JobDies, FindWaitExhausted, ProposalLapses,
     PendingLapses, FinalizeLapses, AttemptLapses, InRoomLapses, StartLockLapses, redis, offers
<1>6. CASE UNCHANGED vars
  BY <1>6 DEF vars, redis, offers
<1> HIDE DEF Goal
<1>7. finalizing' \subseteq finalizing \/ Goal
  BY <1>1, <1>2, <1>3, <1>4, <1>5, <1>6 DEF Next
<1> QED
  BY <1>7 DEF Goal

\* As long as no call has died, a client told that its peer is finalizing is
\* told the truth: some call holds the pair's finalize key and is creating the
\* room, recording it or tearing the proposal down.
THEOREM FinalizerIsAlive == Spec => []FinalizerAlive
<1>1. Init => FinalizerAlive
  BY DEF Init, FinalizerAlive
<1>2. ASSUME Inductive, FinalizerAlive, [Next]_vars PROVE FinalizerAlive'
  <2> USE <1>2
  <2> SUFFICES ASSUME deaths' = 0, NEW p \in finalizing'
               PROVE  \E c \in Calls : call'[c].pc \in FinalizerPcs /\ Both(call'[c].prop) = p
    BY DEF FinalizerAlive, FinalizerPcs
  <2>1. CASE p \in finalizing
    <3>1. deaths = 0
      BY DeathsOnlyCounted
    <3>2. PICK c \in Calls : call[c].pc \in FinalizerPcs /\ Both(call[c].prop) = p
      BY <2>1, <3>1 DEF FinalizerAlive, FinalizerPcs
    <3>3. call'[c].pc \in FinalizerPcs /\ call'[c].prop = call[c].prop
      BY <3>2, FinalizerGoesOn
    <3> QED
      BY <3>2, <3>3
  <2>2. CASE p \notin finalizing
    <3>1. PICK c \in Calls : /\ RecordConnect(c) /\ p = CallPair(c)
                             /\ Goto(c, "create_room")
      BY <2>2, FinalizingChange
    <3>2. call[c].pc = "connect" /\ Both(call[c].prop) = p
      BY <3>1 DEF RecordConnect, Inductive, CallShape, CallOK, CallPair
    <3>3. call'[c].pc = "create_room" /\ call'[c].prop = call[c].prop
      BY <3>1 DEF Goto, Inductive, TypeOK
    <3> QED
      BY <3>2, <3>3 DEF FinalizerPcs, FinishPcs
  <2> QED
    BY <2>1, <2>2
<1> QED
  BY <1>1, <1>2, InductiveHolds, PTL DEF Spec

-----------------------------------------------------------------------------
(* The engine implements MutualConnect.                                      *)

Consents == {<<Owner(x[1]), x[2]>> : x \in connected}
OpenedPairs == [i \in 1..Len(rooms) |-> Both(rooms[i])]

\* Adding a room adds its pair.
LEMMA OpenedAppend ==
  ASSUME NEW s \in Seq(Proposals), NEW d \in Proposals
  PROVE  [i \in 1..Len(Append(s, d)) |-> Both(Append(s, d)[i])]
           = Append([i \in 1..Len(s) |-> Both(s[i])], Both(d))
<1> DEFINE t == [i \in 1..Len(s) |-> Both(s[i])]
           r == [i \in 1..Len(Append(s, d)) |-> Both(Append(s, d)[i])]
<1>0. \A e \in Proposals : Both(e) \in SUBSET Users
  BY DEF Proposals, Both
<1>1. t \in Seq(SUBSET Users) /\ Len(t) = Len(s) /\ \A i \in 1..Len(s) : t[i] = Both(s[i])
  BY <1>0
<1>2. /\ Append(s, d) \in Seq(Proposals) /\ Len(Append(s, d)) = Len(s) + 1
      /\ \A i \in 1..Len(s) : Append(s, d)[i] = s[i]
      /\ Append(s, d)[Len(s) + 1] = d
  BY AppendProperties
<1>3. r \in Seq(SUBSET Users) /\ Len(r) = Len(s) + 1
  BY <1>0, <1>2
<1>4. \A i \in 1..(Len(s) + 1) : r[i] = IF i = Len(s) + 1 THEN Both(d) ELSE t[i]
  BY <1>2
<1> HIDE DEF t, r
<1>5. /\ Append(t, Both(d)) \in Seq(SUBSET Users) /\ Len(Append(t, Both(d))) = Len(s) + 1
      /\ \A i \in 1..(Len(s) + 1) :
           Append(t, Both(d))[i] = IF i = Len(s) + 1 THEN Both(d) ELSE t[i]
  BY <1>0, <1>1, AppendProperties
<1>6. r = Append(t, Both(d))
  BY <1>3, <1>4, <1>5, SeqEqual
<1> QED
  BY <1>6 DEF t, r

\* No consent and no room at first.
LEMMA InitConsents == Init => Promise!Init
<1> SUFFICES ASSUME Init PROVE Consents = {} /\ OpenedPairs = << >>
  BY DEF Promise!Init, Consents, OpenedPairs
<1>1. Consents = {}
  BY DEF Init, Consents
<1>2. OpenedPairs = << >>
  BY DEF Init, OpenedPairs
<1> QED
  BY <1>1, <1>2

\* Recording a connect is Agree, a room that is made is Open, and every other
\* step leaves both unchanged.
LEMMA StepConsents ==
  ASSUME Inductive, [Next]_vars
  PROVE  [Promise!Next]_<<Consents, OpenedPairs>>
<1>0. TypeOK /\ CallShape /\ ConsentKept
  BY DEF Inductive
<1>1. ASSUME NEW c \in Calls, RespondReadPending(c), ~UNCHANGED connected
      PROVE  [Promise!Next]_<<Consents, OpenedPairs>>
  <2> DEFINE u == call[c].user
             v == call[c].peer
             a == call[c].att
  <2>1. u \in Users /\ v \in Users /\ u # v /\ Owner(a) = u
    BY <1>0, <1>1 DEF CallShape, CallOK, RespondReadPending, AttemptPcs, PeerPcs
  <2>2. connected' = connected \cup {<<a, v>>} /\ rooms' = rooms
    BY <1>1 DEF RespondReadPending
  <2>3. Consents' = Consents \cup {<<u, v>>}
    <3> HIDE DEF u, v, a
    <3>1. Consents' = {<<Owner(x[1]), x[2]>> : x \in connected \cup {<<a, v>>}}
      BY <2>2 DEF Consents
    <3>2. <<a, v>>[1] = a /\ <<a, v>>[2] = v
      OBVIOUS
    <3>3. {<<Owner(x[1]), x[2]>> : x \in connected \cup {<<a, v>>}}
            = Consents \cup {<<Owner(<<a, v>>[1]), <<a, v>>[2]>>}
      BY DEF Consents
    <3> QED
      BY <2>1, <3>1, <3>2, <3>3
  <2>4. OpenedPairs' = OpenedPairs
    BY <2>2 DEF OpenedPairs
  <2>5. Promise!Agree(u, v)
    BY <2>1, <2>3, <2>4 DEF Promise!Agree, Consents, OpenedPairs
  <2> QED
    BY <2>1, <2>5 DEF Promise!Next, Promise!Agree
<1>2. ASSUME NEW c \in Calls, CreateRoom(c), ~UNCHANGED rooms
      PROVE  [Promise!Next]_<<Consents, OpenedPairs>>
  <2> DEFINE d == call[c].prop
  <2>1. WellFormed(d) /\ Agreed(d.low, d.high) /\ Agreed(d.high, d.low)
    BY <1>0, <1>2 DEF CallShape, CallOK, ConsentKept, CreateRoom, ProposalPcs, FinishPcs
  <2>2. connected' = connected /\ rooms' = Append(rooms, d)
    BY <1>2 DEF CreateRoom
  <2>3. Consents' = Consents /\ {<<d.low, d.high>>, <<d.high, d.low>>} \subseteq Consents
    BY <2>1, <2>2 DEF Consents, Agreed
  <2>4. OpenedPairs' = Append(OpenedPairs, {d.low, d.high})
    <3>1. rooms \in Seq(Proposals) /\ d \in Proposals
      BY <1>0, <2>1 DEF TypeOK, WellFormed
    <3> HIDE DEF d
    <3>2. OpenedPairs' = Append(OpenedPairs, Both(d))
      BY <2>2, <3>1, OpenedAppend DEF OpenedPairs
    <3> QED
      BY <3>2 DEF Both
  <2>5. Promise!Open(d.low, d.high)
    BY <2>3, <2>4 DEF Promise!Open, Consents, OpenedPairs
  <2>6. d.low \in Users /\ d.high \in Users
    BY <2>1 DEF WellFormed, Proposals
  <2> QED
    BY <2>5, <2>6 DEF Promise!Next
<1>3. CASE UNCHANGED <<connected, rooms>>
  BY <1>3 DEF Consents, OpenedPairs
<1> QED
  BY <1>1, <1>2, <1>3, HistoryChange DEF RespondReadPending, CreateRoom

\* A room only opens for two users who each asked to connect with the other:
\* the finalize step of recordProposalConnect and createRoom implement the
\* consent rule of MutualConnect, through retries, timeouts and crashes.
THEOREM ConsentImplements == Spec => RoomsByMutualConnect
<1>1. Inductive /\ [Next]_vars => [Promise!Next]_<<Consents, OpenedPairs>>
  BY StepConsents
<1> QED
  BY <1>1, InitConsents, InductiveHolds, PTL
  DEF Spec, RoomsByMutualConnect, Promise!Spec, Consents, OpenedPairs

=============================================================================
