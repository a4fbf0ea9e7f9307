-------------------------- MODULE MatchingLifeProofs --------------------------
(***************************************************************************)
(* What lasts over the life of a search and of a proposal in the           *)
(* matchmaking engine: the locks, the jobs, the outcome and the room.      *)
(***************************************************************************)
EXTENDS MatchingProofs

(* Who moves: a step of one handler or worker leaves the others' locals.     *)

\* A worker's locals only change by its own steps and by the job's death.
LEMMA WorkerMoves ==
  ASSUME Inductive, [Next]_vars, NEW w \in Workers
  PROVE  worker'[w] = worker[w] \/ WorkerStep(w) \/ JobDies(w)
<1>0. TypeOK
  BY DEF Inductive
<1>1. ASSUME NEW x \in Workers, x # w, WorkerStep(x) PROVE worker'[w] = worker[w]
  BY <1>0, <1>1 DEF WorkerStep, TakeJob, Scan, PassExhausted, TryLock, JudgePeer, ReleasePeer,
     EvictPeer, WritePending, ProposeSelf, ProposePeer, GiveUpNoMatch, GiveUpRemove, TypeOK
<1>2. ASSUME Environment, ~ JobDies(w) PROVE worker'[w] = worker[w]
  BY <1>0, <1>2 DEF Environment, CallDies, JobDies, FindWaitExhausted, ProposalLapses,
     PendingLapses, FinalizeLapses, AttemptLapses, InRoomLapses, StartLockLapses, TypeOK
<1>3. ASSUME UNCHANGED vars PROVE worker'[w] = worker[w]
  BY <1>3 DEF vars
<1> QED
  BY <1>1, <1>2, <1>3, CallsKeepWorkers DEF Next

\* A call's locals only change by its own steps, its death and the end of its
\* wait for the start-search lock.
LEMMA CallMoves ==
  ASSUME Inductive, [Next]_vars, NEW c \in Calls
  PROVE  \/ call'[c] = call[c]
         \/ Arrive(c) \/ CallStep(c)
         \/ CallDies(c) \/ FindWaitExhausted(c)
<1>0. TypeOK
  BY DEF Inductive
<1>1. ASSUME NEW b \in Calls, b # c, Arrive(b) \/ CallStep(b) PROVE call'[c] = call[c]
  BY <1>0, <1>1 DEF Arrive, FindArrive, Respond, Cancel, Leave, Start, CallStep, FindRefuse,
     FindAcquire, FindRecheck, CommitSetSearching, CommitEnqueue, CommitPushJob,
     RespondReadPending, RecordConnect, CreateRoom, MarkPairInRoom, MarkMatched, ClearPending,
     TeardownDropPending, TeardownRelease, TeardownNoMatch, CancelRemove, CancelReadAttempt,
     CancelReadPending, CancelMark, LeaveMark, LeaveClear, Goto, Finish, TypeOK
<1>2. ASSUME Environment, ~ CallDies(c), ~ FindWaitExhausted(c) PROVE call'[c] = call[c]
  BY <1>0, <1>2 DEF Environment, CallDies, Finish, JobDies, FindWaitExhausted, ProposalLapses,
     PendingLapses, FinalizeLapses, AttemptLapses, InRoomLapses, StartLockLapses, TypeOK
<1>3. ASSUME UNCHANGED vars PROVE call'[c] = call[c]
  BY <1>3 DEF vars
<1> QED
  BY <1>1, <1>2, <1>3, WorkersKeepCalls DEF Next

-----------------------------------------------------------------------------
(* The locks.                                                                *)

\* A release frees the locks of some users and of their pairs only.
Spares(us) ==
  /\ pairLock' \subseteq pairLock
  /\ \A q \in Pairs : q \cap us = {} /\ q \in pairLock => q \in pairLock'
  /\ \A u \in Users \ us : userLock'[u] = userLock[u]

\* The lock keys change by lockPair, by releases and by their TTL only.
LEMMA LocksChange ==
  ASSUME Inductive, [Next]_vars
  PROVE  \/ UNCHANGED <<userLock, pairLock, freed>>
         \/ \E us \in SUBSET Users : Frees(us) /\ Spares(us)
         \/ \E w \in Workers : TryLock(w)
         \/ \E p \in Pairs : ProposalLapses(p)
<1> DEFINE Same == UNCHANGED <<userLock, pairLock, freed>>
           Freeing == \E us \in SUBSET Users : Frees(us) /\ Spares(us)
<1>0. TypeOK
  BY DEF Inductive
<1>1. ASSUME NEW c \in Calls, Arrive(c) PROVE Same
  BY <1>1 DEF Arrive, FindArrive, Respond, Cancel, Leave, redis, locks, history, mishaps
<1>2. ASSUME NEW c \in Calls, CallStep(c) PROVE Same \/ Freeing
  <2>0. CallOK(call[c])
    BY DEF Inductive, CallShape
  <2>1. CASE FindRefuse(c) \/ FindAcquire(c) \/ FindRecheck(c) \/ CommitSetSearching(c)
             \/ CommitEnqueue(c) \/ CommitPushJob(c) \/ RespondReadPending(c)
             \/ RecordConnect(c) \/ CreateRoom(c) \/ MarkMatched(c)
    BY <2>1 DEF FindRefuse, FindAcquire, FindRecheck, CommitSetSearching, CommitEnqueue,
       CommitPushJob, RespondReadPending, RecordConnect, CreateRoom, MarkMatched, redis, locks,
       history, mishaps
  <2>2. CASE ClearPending(c) \/ TeardownDropPending(c) \/ TeardownNoMatch(c)
             \/ CancelRemove(c) \/ CancelReadAttempt(c) \/ CancelReadPending(c)
             \/ CancelMark(c) \/ LeaveMark(c)
    BY <2>2 DEF ClearPending, TeardownDropPending, TeardownNoMatch, CancelRemove,
       CancelReadAttempt, CancelReadPending, CancelMark, LeaveMark, redis, locks, history,
       mishaps
  <2>3. CASE MarkPairInRoom(c) \/ TeardownRelease(c)
    <3> DEFINE p == Both(call[c].prop)
    <3>1. WellFormed(call[c].prop)
      BY <2>0, <2>3 DEF MarkPairInRoom, TeardownRelease, CallOK, ProposalPcs, TeardownPcs,
         FinishPcs
    <3>2. p \in SUBSET Users /\ p # {}
      BY <3>1 DEF WellFormed, Proposals, Both
    <3>3. /\ Frees(p) /\ pairLock' = pairLock \ {p}
          /\ userLock' = [u \in Users |-> IF u \in p THEN None ELSE userLock[u]]
      BY <2>3 DEF MarkPairInRoom, TeardownRelease, ReleasePair
    <3> HIDE DEF p
    <3>4. Spares(p)
      BY <3>2, <3>3 DEF Spares
    <3> QED
      BY <3>2, <3>3, <3>4
  <2>4. CASE LeaveClear(c)
    <3> DEFINE u == call[c].user
    <3>1. u \in Users
      BY <2>0, <2>4 DEF LeaveClear, CallOK
    <3>2. Frees({u}) /\ Spares({u})
      BY <1>0, <2>4, <3>1 DEF LeaveClear, Spares, TypeOK
    <3> QED
      BY <3>1, <3>2
  <2> QED
    BY <1>2, <2>1, <2>2, <2>3, <2>4 DEF CallStep
<1>3. ASSUME NEW w \in Workers, WorkerStep(w) PROVE Same \/ Freeing \/ TryLock(w)
  <2>1. CASE ReleasePeer(w)
    <3>0. worker[w].pc = "release"
      BY <2>1 DEF ReleasePeer
    <3>1. worker[w].peer \in Users /\ Owner(worker[w].job) \in Users
      BY <3>0, OwnerIsUser DEF Inductive, WorkerShape, WorkerOK, PairingPcs
    <3>2. Pair(w) \in SUBSET Users /\ Pair(w) # {}
      BY <3>1 DEF Pair
    <3>3. Frees(Pair(w)) /\ Spares(Pair(w))
      BY <2>1, <3>2 DEF ReleasePeer, ReleasePair, Spares
    <3> QED
      BY <3>2, <3>3
  <2>2. CASE GiveUpRemove(w)
    BY <2>2 DEF GiveUpRemove, history, mishaps
  <2>3. CASE TakeJob(w) \/ Scan(w) \/ PassExhausted(w) \/ JudgePeer(w) \/ EvictPeer(w)
             \/ WritePending(w) \/ ProposeSelf(w) \/ ProposePeer(w) \/ GiveUpNoMatch(w)
    BY <2>3 DEF TakeJob, Scan, PassExhausted, JudgePeer, EvictPeer, WritePending, ProposeSelf,
       ProposePeer, GiveUpNoMatch, redis, locks, history, mishaps
  <2> QED
    BY <1>3, <2>1, <2>2, <2>3 DEF WorkerStep
<1>4. ASSUME Environment PROVE Same \/ \E p \in Pairs : ProposalLapses(p)
  BY <1>4 DEF Environment, CallDies, JobDies, FindWaitExhausted, PendingLapses,
     FinalizeLapses, AttemptLapses, InRoomLapses, StartLockLapses, redis, locks, history,
     mishaps
<1>5. ASSUME UNCHANGED vars PROVE Same
  BY <1>5 DEF vars, redis, locks, history, mishaps
<1> QED
  BY <1>1, <1>2, <1>3, <1>4, <1>5 DEF Next

\* The pair a worker has in hand was in its hands before, or it locks it now.
LEMMA PairingChange ==
  ASSUME Inductive, [Next]_vars, NEW p \in Pairs, Pairing(p)',
         ~ \E w \in Workers : TryLock(w)
  PROVE  Pairing(p)
<1> DEFINE Pcs == {"locked", "release", "write_pending", "propose_self", "propose_peer"}
<1>0. TypeOK
  BY DEF Inductive
<1>1. PICK w \in Workers :
        /\ worker'[w].pc \in Pcs
        /\ {Owner(worker'[w].job), worker'[w].peer} = p
  BY DEF Pairing, Pair
<1>2. worker[w].pc \in Pcs /\ worker'[w].job = worker[w].job /\ worker'[w].peer = worker[w].peer
  <2>1. CASE worker'[w] = worker[w]
    BY <1>1, <2>1
  <2>2. CASE JobDies(w)
    BY <1>0, <1>1, <2>2 DEF JobDies, Idle, TypeOK
  <2>3. CASE JudgePeer(w) \/ WritePending(w) \/ ProposeSelf(w)
    BY <1>0, <2>3 DEF JudgePeer, WritePending, ProposeSelf, TypeOK
  <2>4. CASE TakeJob(w)
    <3>1. \/ worker' = worker
          \/ \E pc \in {"no_match", "scan"} : \E a :
               worker' = [worker EXCEPT ![w] = [Idle EXCEPT !.pc = pc, !.job = a]]
      BY <2>4 DEF TakeJob
    <3>2. w \in DOMAIN worker
      BY <1>0 DEF TypeOK
    <3>3. worker' = worker \/ worker'[w].pc \in {"no_match", "scan"}
      BY <3>1, <3>2 DEF Idle
    <3> QED
      BY <1>1, <2>1, <3>3
  <2>5. CASE Scan(w) \/ PassExhausted(w) \/ ReleasePeer(w) \/ EvictPeer(w)
    <3>1. worker'[w].pc \in {"scan", "try", "no_match", "evict"}
      BY <1>0, <2>5 DEF Scan, PassExhausted, ReleasePeer, EvictPeer, TypeOK
    <3> QED
      BY <1>1, <3>1
  <2>6. CASE ProposePeer(w) \/ GiveUpNoMatch(w) \/ GiveUpRemove(w)
    <3>1. worker'[w].pc \in {"idle", "remove"}
      BY <1>0, <2>6 DEF ProposePeer, GiveUpNoMatch, GiveUpRemove, Idle, TypeOK
    <3> QED
      BY <1>1, <3>1
  <2> QED
    BY <2>1, <2>2, <2>3, <2>4, <2>5, <2>6, WorkerMoves DEF WorkerStep
<1> QED
  BY <1>1, <1>2 DEF Pairing, Pair

\* A record is only written for a pair that a worker has in hand.
LEMMA RecordChange ==
  ASSUME Inductive, [Next]_vars, NEW p \in Pairs, pending'[p].rec # None
  PROVE  pending[p].rec # None \/ Pairing(p)
<1>0. TypeOK
  BY DEF Inductive
<1>1. ASSUME NEW q, pending' = [pending EXCEPT ![q] = [rec |-> None, connects |-> {}]]
      PROVE  pending[p].rec # None
  BY <1>0, <1>1 DEF TypeOK
<1>2. ASSUME NEW w \in Workers, WritePending(w) PROVE pending[p].rec # None \/ Pairing(p)
  BY <1>0, <1>2 DEF WritePending, Pairing, TypeOK
<1>3. ASSUME NEW c \in Calls, RecordConnect(c) PROVE pending[p].rec # None
  BY <1>0, <1>3 DEF RecordConnect, TypeOK
<1> QED
  BY <1>1, <1>2, <1>3, PendingChange

\* Two pairs that share two users are one pair.
LEMMA PairsShareOne ==
  ASSUME NEW p \in Pairs, NEW q \in Pairs, NEW u \in p \cap q, NEW v \in p \cap q, u # v
  PROVE  p = q
BY DEF Pairs

\* Every step keeps it that the pairs in use hold their locks.
LEMMA LocksHeldStep ==
  ASSUME Inductive, LocksHeld, [Next]_vars PROVE LocksHeld'
<1>0. TypeOK
  BY DEF Inductive
<1> SUFFICES ASSUME NEW p \in Pairs, p \notin freed', p \in Claims' \/ Pairing(p)'
             PROVE  Held(p)'
  BY DEF LocksHeld
<1>1. p \subseteq Users
  BY DEF Pairs
<1>2. ASSUME ~ \E w \in Workers : TryLock(w), pairLock' \subseteq pairLock, p \notin freed
      PROVE  Held(p)
  <2>1. p \in Claims \/ Pairing(p)
    BY <1>2, PairingChange, RecordChange DEF Claims
  <2> QED
    BY <1>2, <2>1 DEF LocksHeld
<1>3. ASSUME NEW w \in Workers, TryLock(w) PROVE Held(p)'
  <2>0. worker[w].pc = "try" /\ UNCHANGED pending
    BY <1>3 DEF TryLock, offers
  <2> DEFINE u == Owner(worker[w].job)
  <2>1. PICK v \in worker[w].cands :
          \/ /\ worker' = [worker EXCEPT ![w].cands = @ \ {v}]
             /\ UNCHANGED <<locks, freed>>
          \/ /\ CanLock({u, v})
             /\ pairLock' = pairLock \cup {{u, v}} /\ freed' = freed \ {{u, v}}
             /\ userLock' = [userLock EXCEPT ![v] = u, ![u] = v]
             /\ worker' = [worker EXCEPT ![w].cands = @ \ {v}, ![w].peer = v, ![w].pc = "locked"]
    BY <1>3 DEF TryLock
  <2>2. u \in Users /\ v \in Users /\ u # v
    BY <2>0, OwnerIsUser, <1>0 DEF Inductive, WorkerShape, WorkerOK, TypeOK
  <2>3. ASSUME p # {u, v} PROVE p \in Claims \/ Pairing(p)
    <3>1. p \in pairLock' => p \in pairLock
      BY <2>1, <2>3 DEF locks
    <3>2. ASSUME NEW x \in Workers, {Owner(worker'[x].job), worker'[x].peer} = p,
                 worker'[x].pc \in {"locked", "release", "write_pending", "propose_self",
                                    "propose_peer"}
          PROVE  Pairing(p)
      <4>1. x # w
        <5>1. CASE worker' = [worker EXCEPT ![w].cands = @ \ {v}]
          BY <1>0, <2>0, <3>2, <5>1 DEF TypeOK
        <5>2. CASE worker' = [worker EXCEPT ![w].cands = @ \ {v}, ![w].peer = v,
                                            ![w].pc = "locked"]
          <6>1. worker'[w].job = worker[w].job /\ worker'[w].peer = v
            BY <1>0, <5>2 DEF TypeOK
          <6> QED
            BY <2>3, <3>2, <6>1
        <5> QED
          BY <2>1, <5>1, <5>2
      <4>2. worker'[x] = worker[x]
        BY <1>0, <2>1, <4>1 DEF TypeOK
      <4> QED
        BY <3>2, <4>2 DEF Pairing, Pair
    <3> HIDE DEF u
    <3> QED
      BY <2>0, <3>1, <3>2 DEF Claims, Pairing, Pair
  <2> HIDE DEF u
  <2>4. CASE UNCHANGED <<locks, freed>> /\ p # {u, v}
    BY <2>3, <2>4 DEF LocksHeld, Held, locks
  <2>5. CASE UNCHANGED <<locks, freed>> /\ p = {u, v}
    <3>1. p \in Claims \/ Pairing(p)
      <4>1. CASE p \in Claims'
        BY <2>0, <2>5, <4>1 DEF Claims, locks
      <4>2. ASSUME NEW x \in Workers, Pair(x)' = p,
                   worker'[x].pc \in {"locked", "release", "write_pending", "propose_self",
                                      "propose_peer"}
            PROVE  Pairing(p)
        <5>1. \/ worker' = [worker EXCEPT ![w].cands = @ \ {v}]
              \/ CanLock({u, v}) /\ pairLock' = pairLock \cup {{u, v}}
          BY <2>1
        <5>2. CASE CanLock({u, v}) /\ pairLock' = pairLock \cup {{u, v}}
          BY <2>5, <5>2 DEF CanLock, locks
        <5>3. CASE worker' = [worker EXCEPT ![w].cands = @ \ {v}]
          <6>1. x # w
            BY <1>0, <2>0, <4>2, <5>3 DEF TypeOK
          <6>2. worker'[x] = worker[x]
            BY <1>0, <5>3, <6>1 DEF TypeOK
          <6> QED
            BY <4>2, <6>2 DEF Pairing, Pair
        <5> QED
          BY <5>1, <5>2, <5>3
      <4> QED
        BY <4>1, <4>2 DEF Pairing
    <3> QED
      BY <2>5, <3>1 DEF LocksHeld, Held, locks
  <2>6. CASE CanLock({u, v}) /\ pairLock' = pairLock \cup {{u, v}} /\ freed' = freed \ {{u, v}}
             /\ userLock' = [userLock EXCEPT ![v] = u, ![u] = v]
    <3>1. CASE p = {u, v}
      BY <1>0, <2>2, <2>6, <3>1 DEF Held, TypeOK
    <3>2. CASE p # {u, v}
      <4>1. Held(p)
        BY <2>3, <2>6, <3>2 DEF LocksHeld
      <4>2. u \notin p /\ v \notin p
        BY <1>1, <2>6, <4>1, NoneIsNobody DEF Held, CanLock
      <4> QED
        BY <1>0, <1>1, <2>6, <4>1, <4>2 DEF Held, TypeOK
    <3> QED
      BY <3>1, <3>2
  <2> QED
    BY <2>1, <2>4, <2>5, <2>6
<1>4. ASSUME NEW us \in SUBSET Users, Frees(us), Spares(us), ~ \E w \in Workers : TryLock(w)
      PROVE  Held(p)'
  <2>1. p \notin freed /\ p \cap us = {}
    BY <1>4 DEF Frees
  <2>2. Held(p)
    BY <1>2, <1>4, <2>1 DEF Spares
  <2> QED
    BY <1>1, <1>4, <2>1, <2>2 DEF Held, Spares
<1>5. ASSUME NEW q \in Pairs, ProposalLapses(q), ~ \E w \in Workers : TryLock(w)
      PROVE  Held(p)'
  <2>1. /\ pairLock' = pairLock \ {q} /\ worker' = worker /\ freed' = freed
        /\ userLock' = [u \in Users |-> IF u \in q /\ userLock[u] \in q THEN None
                                        ELSE userLock[u]]
    BY <1>5 DEF ProposalLapses, history, mishaps
  <2>2. Held(p)
    BY <1>2, <1>5, <2>1
  <2>3. p # q
    <3>1. ASSUME p = q PROVE FALSE
      <4>1. ~ Pairing(p)'
        BY <1>5, <2>1, <3>1 DEF ProposalLapses, Pairing, Pair
      <4>2. pending'[p].rec = None
        BY <1>0, <1>5, <3>1 DEF ProposalLapses, ExpirePending, TypeOK
      <4> QED
        BY <2>1, <3>1, <4>1, <4>2 DEF Claims
    <3> QED
      BY <3>1
  <2>4. ASSUME NEW u \in p PROVE userLock'[u] = userLock[u]
    <3>1. userLock[u] \in p \ {u}
      BY <2>2 DEF Held
    <3>2. ~ (u \in q /\ userLock[u] \in q)
      BY <2>3, <3>1, PairsShareOne
    <3> QED
      BY <1>1, <2>1, <3>2
  <2> QED
    BY <2>1, <2>2, <2>3, <2>4 DEF Held
<1>6. ASSUME UNCHANGED <<userLock, pairLock, freed>>, ~ \E w \in Workers : TryLock(w)
      PROVE  Held(p)'
  BY <1>2, <1>6 DEF Held
<1> QED
  BY <1>3, <1>4, <1>5, <1>6, LocksChange

\* In every reachable state a pair that is locked, proposed or in a worker's
\* hands holds its pair lock and both user locks, unless a release freed one of
\* its users under it: the three keys lockPair sets stand or fall together.
THEOREM LocksAreHeld == Spec => []LocksHeld
<1>1. Init => LocksHeld
  BY DEF Init, LocksHeld, Claims, Pairing, Idle
<1>2. Inductive /\ LocksHeld /\ [Next]_vars => LocksHeld'
  BY LocksHeldStep
<1> QED
  BY <1>1, <1>2, InductiveHolds, PTL DEF Spec

\* No user is under two locked or proposed pairs, with any number of workers,
\* unless a release or a leave-room freed the user under one of them.
THEOREM ClaimsAreExclusive == Spec => []OneClaimPerUser
<1>1. Inductive /\ LocksHeld => OneClaimPerUser
  <2> SUFFICES ASSUME Inductive, LocksHeld, NEW p \in Claims, NEW q \in Claims, NEW u \in p \cap q,
                      p \notin freed, q \notin freed
               PROVE  p = q
    BY DEF OneClaimPerUser
  <2>1. p \in Pairs /\ q \in Pairs
    BY DEF Claims, Inductive, TypeOK
  <2>2. Held(p) /\ Held(q)
    BY <2>1 DEF LocksHeld
  <2>3. userLock[u] \in p \cap q /\ userLock[u] # u
    BY <2>2 DEF Held
  <2> QED
    BY <2>1, <2>3, PairsShareOne
<1> QED
  BY <1>1, InductiveHolds, LocksAreHeld, PTL

-----------------------------------------------------------------------------
(* The outcome of an attempt.                                                *)

OverStatuses == {"matched", "no_match", "expired"}

\* Only a find that commits makes an attempt searching, and only the worker
\* that holds it makes it proposed; every other write of a status is an outcome.
LEMMA StatusChange ==
  ASSUME Inductive, [Next]_vars, NEW a \in Attempts
  PROVE  \/ attempt'[a].status = attempt[a].status
         \/ attempt'[a].status \in OverStatuses
         \/ \E c \in Calls : CommitSetSearching(c) /\ call[c].att = a
         \/ /\ attempt'[a].status = "proposed"
            /\ \E w \in Workers : \/ ProposeSelf(w) /\ worker[w].job = a
                                  \/ ProposePeer(w) /\ worker[w].peerAtt = a
<1> DEFINE Outcome == \/ attempt'[a].status = attempt[a].status
                      \/ attempt'[a].status \in OverStatuses
           Commits == \E c \in Calls : CommitSetSearching(c) /\ call[c].att = a
           Proposes == /\ attempt'[a].status = "proposed"
                       /\ \E w \in Workers : \/ ProposeSelf(w) /\ worker[w].job = a
                                             \/ ProposePeer(w) /\ worker[w].peerAtt = a
<1>0. /\ attempt \in [Attempts -> [status : Statuses, peer : Users \cup {None}, room : Nat]]
      /\ a \in DOMAIN attempt
  BY DEF Inductive, TypeOK
<1>1. ASSUME UNCHANGED tries PROVE Outcome
  BY <1>1 DEF tries
<1>2. ASSUME NEW b, SetStatus(b, "no_match") PROVE Outcome
  <2>1. attempt'[a].status = attempt[a].status \/ attempt'[a].status = "no_match"
    BY <1>0, <1>2 DEF SetStatus
  <2> QED
    BY <2>1 DEF OverStatuses
<1>3. ASSUME NEW b, NEW s, NEW v, NEW r, SetPaired(b, s, v, r)
      PROVE  attempt'[a].status = attempt[a].status \/ (b = a /\ attempt'[a].status = s)
  <2> DEFINE record == [status |-> s, peer |-> v, room |-> r]
  <2>1. attempt' = [attempt EXCEPT ![b] = record]
    BY <1>3 DEF SetPaired
  <2>2. record.status = s
    OBVIOUS
  <2> HIDE DEF record
  <2> QED
    BY <1>0, <2>1, <2>2
<1>4. ASSUME NEW c \in Calls, Arrive(c) PROVE UNCHANGED tries
  BY <1>4 DEF Arrive, FindArrive, Respond, Cancel, Leave, redis
<1>5. ASSUME NEW c \in Calls, CallStep(c) PROVE Outcome \/ Commits
  <2>1. CASE FindRefuse(c) \/ CancelMark(c) \/ LeaveMark(c) \/ TeardownNoMatch(c)
    <3>1. \E b : SetStatus(b, "no_match")
      BY <2>1 DEF FindRefuse, CancelMark, LeaveMark, TeardownNoMatch
    <3> QED
      BY <1>2, <3>1
  <2>2. CASE CommitSetSearching(c)
    <3>1. attempt'[a].status = attempt[a].status \/ call[c].att = a
      BY <1>0, <2>2 DEF CommitSetSearching, SetStatus
    <3> QED
      BY <2>2, <3>1
  <2>3. CASE MarkMatched(c)
    <3>1. \E b, v, r : SetPaired(b, "matched", v, r)
      BY <2>3 DEF MarkMatched
    <3> QED
      BY <1>3, <3>1 DEF OverStatuses
  <2>4. CASE FindAcquire(c) \/ FindRecheck(c) \/ CommitEnqueue(c) \/ CommitPushJob(c)
             \/ RespondReadPending(c) \/ RecordConnect(c) \/ CreateRoom(c)
             \/ MarkPairInRoom(c) \/ ClearPending(c)
    BY <1>1, <2>4 DEF FindAcquire, FindRecheck, CommitEnqueue, CommitPushJob,
       RespondReadPending, RecordConnect, CreateRoom, MarkPairInRoom, ClearPending, redis
  <2>5. CASE TeardownDropPending(c) \/ TeardownRelease(c) \/ CancelRemove(c)
             \/ CancelReadAttempt(c) \/ CancelReadPending(c) \/ LeaveClear(c)
    BY <1>1, <2>5 DEF TeardownDropPending, TeardownRelease, CancelRemove, CancelReadAttempt,
       CancelReadPending, LeaveClear, redis
  <2> QED
    BY <1>5, <2>1, <2>2, <2>3, <2>4, <2>5 DEF CallStep
<1>6. ASSUME NEW w \in Workers, WorkerStep(w) PROVE Outcome \/ Proposes
  <2>1. CASE ProposeSelf(w)
    BY <1>3, <2>1 DEF ProposeSelf
  <2>2. CASE ProposePeer(w)
    BY <1>3, <2>2 DEF ProposePeer
  <2>3. CASE GiveUpNoMatch(w)
    BY <1>2, <2>3 DEF GiveUpNoMatch
  <2>4. CASE ~ ProposeSelf(w) /\ ~ ProposePeer(w) /\ ~ GiveUpNoMatch(w)
    <3>1. UNCHANGED tries
      BY <1>6, <2>4 DEF WorkerStep, TakeJob, Scan, PassExhausted, TryLock, JudgePeer,
         ReleasePeer, EvictPeer, WritePending, GiveUpRemove, redis
    <3> QED
      BY <1>1, <3>1 DEF tries
  <2> QED
    BY <2>1, <2>2, <2>3, <2>4
<1>7. ASSUME Environment PROVE Outcome
  <2>1. ASSUME NEW b \in Attempts, AttemptLapses(b) PROVE Outcome
    <3>1. attempt'[a].status = attempt[a].status \/ attempt'[a].status = "expired"
      BY <1>0, <2>1 DEF AttemptLapses
    <3> QED
      BY <3>1 DEF OverStatuses
  <2>2. ASSUME ~ \E b \in Attempts : AttemptLapses(b) PROVE UNCHANGED tries
    BY <1>7, <2>2 DEF Environment, CallDies, JobDies, FindWaitExhausted, ProposalLapses,
       PendingLapses, FinalizeLapses, InRoomLapses, StartLockLapses, redis
  <2> QED
    BY <2>1, <2>2 DEF tries
<1>8. ASSUME UNCHANGED vars PROVE UNCHANGED tries
  BY <1>8 DEF vars, redis
<1> QED
  BY <1>1, <1>4, <1>5, <1>6, <1>7, <1>8 DEF Next

CommittingPcs == {"acquire", "recheck", "set_searching"}

\* A find only has in hand an attempt that was absent when it arrived.
LEMMA CommitterChange ==
  ASSUME Inductive, [Next]_vars, NEW c \in Calls, call'[c].pc \in CommittingPcs
  PROVE  \/ call[c].pc \in CommittingPcs /\ call'[c].att = call[c].att
         \/ call'[c].att \in Attempts /\ attempt[call'[c].att].status = "absent"
<1>0. call \in [Calls -> CallRecords] /\ c \in DOMAIN call
  BY DEF Inductive, TypeOK, CallRecords
<1> USE DEF CommittingPcs
<1>1. ASSUME NEW pc, Goto(c, pc) PROVE call'[c].pc = pc /\ call'[c].att = call[c].att
  BY <1>0, <1>1 DEF Goto, CallRecords
<1>2. ~ Finish(c)
  BY <1>0 DEF Finish, NoCall
<1>3. CASE Arrive(c)
  <2>1. ASSUME NEW a \in Attempts, FindArrive(c, a)
        PROVE  call'[c].att = a /\ attempt[a].status = "absent"
    BY <1>0, <2>1 DEF FindArrive, Start, NoCall
  <2>2. ASSUME NEW a \in Attempts, NEW decision \in Ops, Respond(c, a, decision) PROVE FALSE
    BY <1>0, <2>2 DEF Respond, Start, NoCall
  <2>3. ASSUME NEW u \in Users, Cancel(c, u) \/ Leave(c, u) PROVE FALSE
    <3>1. call'[c].pc \in {"cancel_remove", "leave_mark", "leave_clear"}
      BY <1>0, <2>3 DEF Cancel, Leave, Start, NoCall
    <3> QED
      BY <3>1
  <2> QED
    BY <1>3, <2>1, <2>2, <2>3 DEF Arrive
<1>4. CASE CallStep(c)
  <2>1. CASE FindAcquire(c) \/ FindRecheck(c)
    <3>1. call[c].pc \in CommittingPcs /\ \E pc : Goto(c, pc)
      BY <1>2, <2>1 DEF FindAcquire, FindRecheck
    <3> QED
      BY <1>1, <3>1
  <2>2. CASE FindRefuse(c) \/ CommitSetSearching(c) \/ CommitEnqueue(c) \/ CommitPushJob(c)
             \/ RecordConnect(c) \/ MarkPairInRoom(c) \/ MarkMatched(c) \/ ClearPending(c)
    <3>1. \E pc \in CallPcs \ CommittingPcs : Goto(c, pc)
      BY <1>2, <2>2 DEF FindRefuse, CommitSetSearching, CommitEnqueue, CommitPushJob,
         RecordConnect, MarkPairInRoom, MarkMatched, ClearPending, CallPcs, CommitPcs, FinishPcs
    <3> QED
      BY <1>1, <3>1
  <2>3. CASE TeardownDropPending(c) \/ TeardownRelease(c) \/ TeardownNoMatch(c)
             \/ CancelRemove(c) \/ CancelMark(c) \/ LeaveMark(c) \/ LeaveClear(c)
    <3>1. \E pc \in CallPcs \ CommittingPcs : Goto(c, pc)
      BY <1>2, <2>3 DEF TeardownDropPending, TeardownRelease, TeardownNoMatch, CancelRemove,
         CancelMark, LeaveMark, LeaveClear, CallPcs, TeardownPcs
    <3> QED
      BY <1>1, <3>1
  <2>4. CASE RespondReadPending(c) \/ CreateRoom(c) \/ CancelReadAttempt(c)
             \/ CancelReadPending(c)
    <3>1. call'[c].pc \in {"drop_pending", "connect", "in_room", "cancel_pending",
                           "cancel_mark"}
      BY <1>0, <1>2, <2>4 DEF RespondReadPending, CreateRoom, CancelReadAttempt,
         CancelReadPending, Goto, CallRecords
    <3> QED
      BY <3>1
  <2> QED
    BY <1>4, <2>1, <2>2, <2>3, <2>4 DEF CallStep
<1>5. CASE CallDies(c)
  BY <1>2, <1>5 DEF CallDies
<1>6. CASE FindWaitExhausted(c)
  BY <1>0, <1>6 DEF FindWaitExhausted, CallRecords
<1> QED
  BY <1>3, <1>4, <1>5, <1>6, CallMoves

SearchingPcs == {"scan", "try", "locked", "release", "evict", "write_pending", "propose_self"}

\* A worker only takes in hand an attempt that reads searching, as its job or
\* as its peer's.
LEMMA WorkerHandChange ==
  ASSUME Inductive, [Next]_vars, NEW w \in Workers
  PROVE  /\ worker'[w].pc \in SearchingPcs =>
              \/ worker[w].pc \in SearchingPcs /\ worker'[w].job = worker[w].job
              \/ TakeJob(w) /\ worker'[w].job = Head(jobs)
                   /\ attempt[Head(jobs)].status = "searching"
         /\ worker'[w].pc \in ProposingPcs =>
              \/ worker[w].pc \in ProposingPcs /\ worker'[w].peerAtt = worker[w].peerAtt
              \/ attempt[worker'[w].peerAtt].status = "searching"
<1>0. worker \in [Workers -> WorkerRecords] /\ w \in DOMAIN worker
  BY DEF Inductive, TypeOK, WorkerRecords
<1> USE DEF SearchingPcs, ProposingPcs
<1>1. CASE worker'[w] = worker[w]
  BY <1>1
<1>2. CASE JobDies(w)
  BY <1>0, <1>2 DEF JobDies, Idle
<1>3. CASE TakeJob(w)
  <2> DEFINE a == Head(jobs)
  <2>1. \/ worker' = worker
        \/ /\ attempt[a].status = "searching"
           /\ \E pc \in {"no_match", "scan"} :
                worker' = [worker EXCEPT ![w] = [Idle EXCEPT !.pc = pc, !.job = a]]
    BY <1>3 DEF TakeJob
  <2>2. \/ worker' = worker
        \/ /\ attempt[a].status = "searching"
           /\ worker'[w].pc \in {"no_match", "scan"} /\ worker'[w].job = a
    BY <1>0, <2>1 DEF Idle
  <2> QED
    BY <1>1, <1>3, <2>2
<1>4. CASE Scan(w) \/ PassExhausted(w) \/ ReleasePeer(w) \/ EvictPeer(w)
  <2>1. /\ worker[w].pc \in SearchingPcs /\ worker'[w].job = worker[w].job
        /\ worker'[w].pc \in {"scan", "try", "no_match", "evict"}
    BY <1>0, <1>4 DEF Scan, PassExhausted, ReleasePeer, EvictPeer, WorkerRecords
  <2> QED
    BY <2>1
<1>5. CASE TryLock(w)
  <2>1. /\ worker[w].pc \in SearchingPcs /\ worker'[w].job = worker[w].job
        /\ worker'[w].pc \in {"try", "locked"}
    BY <1>0, <1>5 DEF TryLock, WorkerRecords
  <2> QED
    BY <2>1
<1>6. CASE JudgePeer(w)
  <2>1. /\ worker[w].pc \in SearchingPcs /\ worker'[w].job = worker[w].job
        /\ worker'[w].peerAtt = lastAttempt[worker[w].peer]
        /\ \/ worker'[w].pc = "release"
           \/ PeerAvailable(worker[w].job, lastAttempt[worker[w].peer])
    BY <1>0, <1>6 DEF JudgePeer, WorkerRecords
  <2> QED
    BY <2>1 DEF PeerAvailable
<1>7. CASE WritePending(w) \/ ProposeSelf(w)
  BY <1>0, <1>7 DEF WritePending, ProposeSelf, WorkerRecords
<1>8. CASE ProposePeer(w) \/ GiveUpNoMatch(w) \/ GiveUpRemove(w)
  <2>1. worker'[w].pc \in {"idle", "remove"}
    BY <1>0, <1>8 DEF ProposePeer, GiveUpNoMatch, GiveUpRemove, Idle, WorkerRecords
  <2> QED
    BY <2>1
<1> QED
  BY <1>1, <1>2, <1>3, <1>4, <1>5, <1>6, <1>7, <1>8, WorkerMoves DEF WorkerStep

\* Every step leaves an attempt over that is over and out of everybody's hands.
LEMMA OverStep ==
  ASSUME Inductive, [Next]_vars, NEW a \in Attempts, Over(a) PROVE Over(a)'
<1>0. TypeOK /\ attempt[a].status \in OverStatuses /\ ~ TakenUp(a)
  BY DEF Over, OverStatuses, Inductive
<1>1. attempt'[a].status \in OverStatuses
  <2>1. ASSUME NEW c \in Calls, CommitSetSearching(c), call[c].att = a PROVE FALSE
    BY <1>0, <2>1 DEF CommitSetSearching, TakenUp
  <2>2. ASSUME NEW w \in Workers, ProposeSelf(w), worker[w].job = a PROVE FALSE
    BY <1>0, <2>2 DEF ProposeSelf, TakenUp
  <2>3. ASSUME NEW w \in Workers, ProposePeer(w), worker[w].peerAtt = a PROVE FALSE
    BY <1>0, <2>3 DEF ProposePeer, TakenUp
  <2> QED
    BY <1>0, <2>1, <2>2, <2>3, StatusChange
<1>2. ASSUME NEW c \in Calls, call'[c].pc \in CommittingPcs, call'[c].att = a PROVE FALSE
  <2>1. ~ (call[c].pc \in CommittingPcs /\ call[c].att = a)
    BY <1>0 DEF TakenUp, CommittingPcs
  <2> QED
    BY <1>0, <1>2, <2>1, CommitterChange DEF OverStatuses
<1>3. ASSUME NEW w \in Workers, worker'[w].pc \in SearchingPcs, worker'[w].job = a PROVE FALSE
  <2>1. ~ (worker[w].pc \in SearchingPcs /\ worker[w].job = a)
    BY <1>0 DEF TakenUp, SearchingPcs
  <2> QED
    BY <1>0, <1>3, <2>1, WorkerHandChange DEF OverStatuses
<1>4. ASSUME NEW w \in Workers, worker'[w].pc \in ProposingPcs, worker'[w].peerAtt = a
      PROVE  FALSE
  <2>1. ~ (worker[w].pc \in ProposingPcs /\ worker[w].peerAtt = a)
    BY <1>0 DEF TakenUp, ProposingPcs
  <2> QED
    BY <1>0, <1>4, <2>1, WorkerHandChange DEF OverStatuses
<1>5. \A w \in Workers : worker'[w].pc \in WorkerPcs
  BY WorkersTyped DEF WorkerRecords
<1>6. ~ TakenUp(a)'
  <2>1. ASSUME NEW w \in Workers,
               worker'[w].pc \notin {"idle", "propose_peer", "no_match", "remove"}
        PROVE  worker'[w].pc \in SearchingPcs
    BY <1>5, <2>1 DEF WorkerPcs, SearchingPcs
  <2> QED
    BY <1>2, <1>3, <1>4, <2>1 DEF TakenUp, CommittingPcs, ProposingPcs
<1> QED
  BY <1>1, <1>6 DEF Over, OverStatuses

\* An attempt that was matched, given up or cancelled, or that expired, and that
\* no handler still has in hand, is final: resent finds, old jobs, stale
\* pointers and pool entries never bring it back, whoever crashes.
THEOREM OverStaysOver == Spec => OverIsFinal
<1>1. ASSUME Inductive, [Next]_vars PROVE [\A a \in Attempts : Over(a) => Over(a)']_vars
  BY <1>1, OverStep
<1> QED
  BY <1>1, InductiveHolds, PTL DEF Spec, OverIsFinal

-----------------------------------------------------------------------------
(* The jobs.                                                                 *)

\* The queue changes by a push at its end and a pop at its head.
LEMMA JobsChange ==
  ASSUME Inductive, [Next]_vars
  PROVE  \/ UNCHANGED jobs
         \/ \E c \in Calls : CommitPushJob(c)
         \/ \E w \in Workers : TakeJob(w)
<1>1. ASSUME NEW c \in Calls, Arrive(c) PROVE UNCHANGED jobs
  BY <1>1 DEF Arrive, FindArrive, Respond, Cancel, Leave, redis, search
<1>2. ASSUME NEW c \in Calls, CallStep(c) PROVE UNCHANGED jobs \/ CommitPushJob(c)
  BY <1>2 DEF CallStep, FindRefuse, FindAcquire, FindRecheck, CommitSetSearching,
     CommitEnqueue, RespondReadPending, RecordConnect, CreateRoom, MarkPairInRoom, MarkMatched,
     ClearPending, TeardownDropPending, TeardownRelease, TeardownNoMatch, CancelRemove,
     CancelReadAttempt, CancelReadPending, CancelMark, LeaveMark, LeaveClear, redis, search
<1>3. ASSUME NEW w \in Workers, WorkerStep(w) PROVE UNCHANGED jobs \/ TakeJob(w)
  BY <1>3 DEF WorkerStep, Scan, PassExhausted, TryLock, JudgePeer, ReleasePeer, EvictPeer,
     WritePending, ProposeSelf, ProposePeer, GiveUpNoMatch, GiveUpRemove, redis, search
<1>4. ASSUME Environment PROVE UNCHANGED jobs
  BY <1>4 DEF Environment, CallDies, JobDies, FindWaitExhausted, ProposalLapses,
     PendingLapses, FinalizeLapses, AttemptLapses, InRoomLapses, StartLockLapses, redis, search
<1>5. ASSUME UNCHANGED vars PROVE UNCHANGED jobs
  BY <1>5 DEF vars, redis, search
<1> QED
  BY <1>1, <1>2, <1>3, <1>4, <1>5 DEF Next

\* A job that is taken goes to its worker, or the worker throws it away.
LEMMA TakenJobInHand ==
  ASSUME Inductive, NEW w \in Workers, TakeJob(w), NEW a, a = Head(jobs),
         attempt[a].status = "searching", a \notin orphaned'
  PROVE  worker'[w].pc \in {"no_match", "scan"} /\ worker'[w].job = a
<1>0. worker \in [Workers -> WorkerRecords] /\ jobs \in Seq(Attempts) /\ state \in [Users -> States]
  BY DEF Inductive, TypeOK, WorkerRecords
<1>1. a \in Attempts /\ state[Owner(a)] \in States
  BY <1>0, OwnerIsUser DEF TakeJob
<1>2. state[Owner(a)] # "locked"
  BY DEF TakeJob, Orphans
<1>3. \E pc \in {"no_match", "scan"} :
        worker' = [worker EXCEPT ![w] = [Idle EXCEPT !.pc = pc, !.job = a]]
  BY <1>1, <1>2 DEF TakeJob, States
<1> QED
  BY <1>0, <1>3 DEF Idle

\* A job in the queue stays there until a worker takes it.
LEMMA QueuedStep ==
  ASSUME Inductive, [Next]_vars, NEW i \in 1..Len(jobs), NEW a, a = jobs[i],
         attempt[a].status = "searching", a \notin orphaned'
  PROVE  InHand(a)'
<1>0. jobs \in Seq(Attempts) /\ a \in Attempts
  BY DEF Inductive, TypeOK
<1>1. CASE UNCHANGED jobs
  BY <1>1 DEF InHand
<1>2. ASSUME NEW c \in Calls, CommitPushJob(c) PROVE InHand(a)'
  <2>1. call[c].att \in Attempts /\ jobs' = Append(jobs, call[c].att)
    BY <1>2 DEF CommitPushJob, Inductive, CallShape, CallOK, AttemptPcs, CommitPcs
  <2>2. i \in 1..Len(jobs') /\ jobs'[i] = a
    BY <1>0, <2>1
  <2> QED
    BY <2>2 DEF InHand
<1>3. ASSUME NEW w \in Workers, TakeJob(w) PROVE InHand(a)'
  <2>1. jobs' = Tail(jobs) /\ jobs # << >>
    BY <1>3 DEF TakeJob
  <2>2. CASE i = 1
    <3>1. a = Head(jobs)
      BY <1>0, <2>1, <2>2
    <3> QED
      BY <1>3, <3>1, TakenJobInHand DEF InHand
  <2>3. CASE i # 1
    <3>1. i - 1 \in 1..Len(jobs') /\ jobs'[i - 1] = a
      BY <1>0, <2>1, <2>3
    <3> QED
      BY <3>1 DEF InHand
  <2> QED
    BY <2>2, <2>3
<1> QED
  BY <1>1, <1>2, <1>3, JobsChange

\* A call that has made an attempt searching goes on to push its job, or dies.
LEMMA CommitterGoesOn ==
  ASSUME Inductive, [Next]_vars, NEW c \in Calls, call[c].pc \in {"enqueue", "push_job"},
         call[c].att \notin orphaned', NEW a, a = call[c].att
  PROVE  InHand(a)'
<1>0. TypeOK /\ a \in Attempts
  BY DEF Inductive, CallShape, CallOK, AttemptPcs, CommitPcs
<1>1. CASE call'[c] = call[c]
  BY <1>1 DEF InHand
<1>2. ~ Arrive(c) /\ ~ CallDies(c) /\ ~ FindWaitExhausted(c)
  BY DEF Arrive, FindArrive, Respond, Cancel, Leave, Start, CallDies, FindWaitExhausted, Orphans
<1>3. CASE CommitEnqueue(c)
  <2>1. call'[c].pc = "push_job" /\ call'[c].att = a
    BY <1>0, <1>3 DEF CommitEnqueue, Goto, TypeOK
  <2> QED
    BY <2>1 DEF InHand
<1>4. CASE CommitPushJob(c)
  <2>1. jobs' = Append(jobs, a) /\ jobs \in Seq(Attempts)
    BY <1>0, <1>4 DEF CommitPushJob, TypeOK
  <2>2. Len(jobs) + 1 \in 1..Len(jobs') /\ jobs'[Len(jobs) + 1] = a
    BY <1>0, <2>1
  <2> QED
    BY <2>2 DEF InHand
<1>5. CallStep(c) => CommitEnqueue(c) \/ CommitPushJob(c)
  BY DEF CallStep, FindRefuse, FindAcquire, FindRecheck, CommitSetSearching,
     RespondReadPending, RecordConnect, CreateRoom, MarkPairInRoom, MarkMatched, ClearPending,
     TeardownDropPending, TeardownRelease, TeardownNoMatch, CancelRemove, CancelReadAttempt,
     CancelReadPending, CancelMark, LeaveMark, LeaveClear
<1> QED
  BY <1>1, <1>2, <1>3, <1>4, <1>5, CallMoves

BusyPcs == SearchingPcs \cup {"no_match"}

\* A worker keeps its job until the attempt reads proposed or no_match, or dies.
LEMMA WorkerGoesOn ==
  ASSUME Inductive, [Next]_vars, NEW w \in Workers, worker[w].pc \in BusyPcs,
         worker[w].job \notin orphaned', attempt'[worker[w].job].status = "searching"
  PROVE  worker'[w].pc \in BusyPcs /\ worker'[w].job = worker[w].job
<1>0. /\ TypeOK /\ worker \in [Workers -> WorkerRecords] /\ w \in DOMAIN worker
      /\ worker[w].job \in Attempts
  BY DEF Inductive, TypeOK, WorkerRecords, WorkerShape, WorkerOK, BusyPcs, SearchingPcs
<1> USE DEF BusyPcs, SearchingPcs
<1>1. CASE worker'[w] = worker[w]
  BY <1>1
<1>2. ~ JobDies(w) /\ ~ TakeJob(w) /\ ~ ProposePeer(w) /\ ~ GiveUpRemove(w)
  BY DEF JobDies, Orphans, TakeJob, ProposePeer, GiveUpRemove
<1>3. ~ ProposeSelf(w) /\ ~ GiveUpNoMatch(w)
  BY <1>0 DEF ProposeSelf, GiveUpNoMatch, SetPaired, SetStatus, TypeOK
<1>4. CASE Scan(w) \/ PassExhausted(w) \/ ReleasePeer(w) \/ EvictPeer(w) \/ WritePending(w)
  <2>1. /\ worker'[w].job = worker[w].job
        /\ worker'[w].pc \in {"scan", "try", "no_match", "evict", "propose_self"}
    BY <1>0, <1>4 DEF Scan, PassExhausted, ReleasePeer, EvictPeer, WritePending, WorkerRecords
  <2> QED
    BY <2>1
<1>5. CASE TryLock(w) \/ JudgePeer(w)
  <2>1. CASE TryLock(w)
    <3>1. PICK v \in worker[w].cands :
            \/ worker' = [worker EXCEPT ![w].cands = @ \ {v}] /\ worker[w].pc = "try"
            \/ worker' = [worker EXCEPT ![w].cands = @ \ {v}, ![w].peer = v,
                                        ![w].pc = "locked"]
      BY <2>1 DEF TryLock
    <3> QED
      BY <1>0, <3>1 DEF WorkerRecords
  <2>2. CASE JudgePeer(w)
    BY <1>0, <2>2 DEF JudgePeer, WorkerRecords
  <2> QED
    BY <1>5, <2>1, <2>2
<1> QED
  BY <1>1, <1>2, <1>3, <1>4, <1>5, WorkerMoves DEF WorkerStep

\* Every step keeps somebody in charge of every search that nobody gave up.
LEMMA SearchKeptStep ==
  ASSUME Inductive, NoSearchForgotten, [Next]_vars PROVE NoSearchForgotten'
<1>0. TypeOK /\ orphaned \subseteq orphaned'
  BY MishapsTyped DEF Inductive
<1> SUFFICES ASSUME NEW a \in Attempts, attempt'[a].status = "searching", a \notin orphaned'
             PROVE  InHand(a)'
  BY DEF NoSearchForgotten
<1>1. ASSUME NEW c \in Calls, CommitSetSearching(c), call[c].att = a PROVE InHand(a)'
  <2>1. call'[c].pc = "enqueue" /\ call'[c].att = a
    BY <1>0, <1>1 DEF CommitSetSearching, Goto, TypeOK
  <2> QED
    BY <2>1 DEF InHand
<1>2. CASE attempt[a].status = "searching"
  <2>1. InHand(a)
    BY <1>0, <1>2 DEF NoSearchForgotten
  <2>2. ASSUME NEW i \in 1..Len(jobs), jobs[i] = a PROVE InHand(a)'
    BY <1>2, <2>2, QueuedStep
  <2>3. ASSUME NEW c \in Calls, call[c].pc \in {"enqueue", "push_job"}, call[c].att = a
        PROVE  InHand(a)'
    BY <2>3, CommitterGoesOn
  <2>4. ASSUME NEW w \in Workers, worker[w].job = a,
               worker[w].pc \notin {"idle", "propose_peer", "remove"}
        PROVE  InHand(a)'
    <3>1. worker[w].pc \in BusyPcs
      BY <1>0, <2>4 DEF TypeOK, WorkerPcs, BusyPcs, SearchingPcs
    <3>2. worker'[w].pc \in BusyPcs /\ worker'[w].job = a
      BY <2>4, <3>1, WorkerGoesOn
    <3> QED
      BY <3>2 DEF InHand, BusyPcs, SearchingPcs
  <2> QED
    BY <2>1, <2>2, <2>3, <2>4 DEF InHand
<1> QED
  BY <1>1, <1>2, StatusChange DEF OverStatuses

\* A client that keeps polling a search is never left waiting for nobody: its
\* job is queued, about to be queued or with a worker, as long as no crash lost
\* it and no worker threw it away on finding the user locked.
THEOREM SearchIsKept == Spec => []NoSearchForgotten
<1>1. Init => NoSearchForgotten
  BY DEF Init, NoSearchForgotten
<1>2. Inductive /\ NoSearchForgotten /\ [Next]_vars => NoSearchForgotten'
  BY SearchKeptStep
<1> QED
  BY <1>1, <1>2, InductiveHolds, PTL DEF Spec

-----------------------------------------------------------------------------
(* The room of a proposal.                                                   *)

\* The finalize script, run by the call that is to make the room.
Wins(c) ==
  /\ RecordConnect(c)
  /\ call[c].pc = "connect" /\ call'[c].prop = call[c].prop
  /\ Both(call[c].prop) = CallPair(c)
  /\ CallPair(c) \notin finalizing /\ CallPair(c) \in finalizing'
  /\ pending[CallPair(c)].connects \cup {call[c].user} = CallPair(c)
  /\ \A e \in Calls \ {c} : call'[e] = call[e]

\* A call asks for a room because it already did or because it just won the key.
LEMMA AskingChange ==
  ASSUME Inductive, [Next]_vars, NEW c \in Calls, call'[c].pc = "create_room"
  PROVE  call'[c] = call[c] \/ Wins(c)
<1>0. TypeOK /\ CallOK(call[c])
  BY DEF Inductive, CallShape
<1>1. ~ RespondReadPending(c) /\ ~ CreateRoom(c) /\ ~ MarkPairInRoom(c) /\ ~ MarkMatched(c)
  BY <1>0 DEF RespondReadPending, CreateRoom, MarkPairInRoom, MarkMatched, Finish, NoCall,
     Goto, TypeOK
<1>2. CASE RecordConnect(c)
  <2>1. call[c].pc = "connect" /\ Both(call[c].prop) = CallPair(c)
    BY <1>0, <1>2 DEF RecordConnect, CallOK, CallPair
  <2>2. Finalizes(CallPair(c), pending[CallPair(c)].connects \cup {call[c].user})
        /\ finalizing' = finalizing \cup {CallPair(c)} /\ Goto(c, "create_room")
    BY <1>0, <1>2 DEF RecordConnect, Finish, NoCall, TypeOK
  <2>3. call'[c].prop = call[c].prop /\ \A e \in Calls \ {c} : call'[e] = call[e]
    BY <1>0, <2>2 DEF Goto, TypeOK
  <2> QED
    BY <1>2, <2>1, <2>2, <2>3 DEF Wins, Finalizes
<1> QED
  BY <1>1, <1>2, CallChange DEF FinishPcs

\* A call that wins the key asks for a pair that was not settled.
LEMMA WinnerUnsettled ==
  ASSUME Inductive, NEW c \in Calls, Wins(c), NEW p \in Pairs, p = CallPair(c)
  PROVE  ~ Settled(p)
<1>1. call[c].user \in Late(p)
  BY DEF Wins, Late
<1>2. pending[p].connects \cup {call[c].user} = p
  BY DEF Wins
<1> QED
  BY <1>1, <1>2, LateOfPair DEF Settled

\* The finalize key goes away with the record; unless that overtakes a connect
\* or a room request, the pair is settled then.
LEMMA FinalizingKept ==
  ASSUME Inductive, [Next]_vars, NEW p \in finalizing, p \notin overtaken'
  PROVE  p \in finalizing' \/ Settled(p)'
<1> DEFINE Goal == p \in finalizing' \/ Settled(p)'
<1>0. TypeOK /\ p \in Pairs
  BY DEF Inductive, TypeOK
<1>1. ASSUME NEW c \in Calls, Arrive(c) PROVE Goal
  BY <1>1 DEF Arrive, FindArrive, Respond, Cancel, Leave, redis, offers
<1>2. ASSUME NEW c \in Calls, ClearPending(c) \/ TeardownDropPending(c),
             Both(call[c].prop) = p
      PROVE  Settled(p)'
  <2>1. DeletePending(p) /\ Undecided(p)
    BY <1>2 DEF ClearPending, TeardownDropPending, Overtakes
  <2>2. \A e \in Calls : call'[e] = call[e] \/ call'[e].pc \in {"free", "release"}
    BY <1>0, <1>2 DEF ClearPending, TeardownDropPending, Goto, Finish, NoCall, TypeOK
  <2> QED
    BY <1>0, <2>1, <2>2, DeletionSettles
<1>3. ASSUME NEW c \in Calls, ClearPending(c) \/ TeardownDropPending(c),
             Both(call[c].prop) # p
      PROVE  Goal
  BY <1>3 DEF ClearPending, TeardownDropPending, DeletePending
<1>4. ASSUME NEW c \in Calls, CallStep(c), ~ ClearPending(c), ~ TeardownDropPending(c)
      PROVE  Goal
  BY <1>4 DEF CallStep, FindRefuse, FindAcquire, FindRecheck, CommitSetSearching,
     CommitEnqueue, CommitPushJob, RespondReadPending, RecordConnect, CreateRoom,
     MarkPairInRoom, MarkMatched, TeardownRelease, TeardownNoMatch, CancelRemove,
     CancelReadAttempt, CancelReadPending, CancelMark, LeaveMark, LeaveClear, redis, offers
<1>5. ASSUME NEW w \in Workers, WorkerStep(w) PROVE Goal
  BY <1>5 DEF WorkerStep, TakeJob, Scan, PassExhausted, TryLock, JudgePeer, ReleasePeer,
     EvictPeer, WritePending, ProposeSelf, ProposePeer, GiveUpNoMatch, GiveUpRemove, redis,
     offers
<1>6. CASE Environment
  BY <1>6 DEF Environment, CallDies, JobDies, FindWaitExhausted, ProposalLapses,
     PendingLapses, FinalizeLapses, AttemptLapses, InRoomLapses, StartLockLapses, Overtakes,
     redis, offers
<1>7. CASE UNCHANGED vars
  BY <1>7 DEF vars, redis, offers
<1> HIDE DEF Goal
<1>8. Goal
  BY <1>1, <1>2, <1>3, <1>4, <1>5, <1>6, <1>7 DEF Next, Goal
<1> QED
  BY <1>8 DEF Goal

\* A pair proposed again, and not overtaken, has no connect under way and no
\* room for the proposal.
LEMMA ProposedAfresh ==
  ASSUME Inductive, NEW w \in Workers, WritePending(w), NEW p, p = Pair(w), p \notin overtaken'
  PROVE  /\ p \in Pairs /\ Late(p) = {}
         /\ pending'[p].rec = ProposalOf(w) /\ UNCHANGED call
         /\ \A i \in 1..Len(rooms) : rooms[i] # ProposalOf(w)
<1>1. p \in Pairs
  BY WrittenWellFormed
<1>2. pending'[p].rec = ProposalOf(w) /\ UNCHANGED call
  BY <1>1 DEF WritePending, Inductive, TypeOK
<1>3. p \in Pairs => Late(p) = {} /\ \A i \in 1..Len(rooms) : rooms[i] # ProposalOf(w)
  BY DEF WritePending, Overtakes
<1> QED
  BY <1>1, <1>2, <1>3

\* The requests for a room of a pair that is not overtaken stay one, and stay
\* under the key.
LEMMA AskingStep ==
  ASSUME Inductive, [Next]_vars, NEW p \in Pairs, p \notin overtaken', RoomOnce(p),
         NEW c \in Asking(p)'
  PROVE  p \in finalizing' /\ Asking(p)' = {c}
<1>0. TypeOK /\ c \in Calls /\ call'[c].pc = "create_room" /\ Both(call'[c].prop) = p
  BY DEF Inductive, Asking, Both
<1>1. ASSUME call'[c] = call[c] PROVE p \in finalizing' /\ Asking(p)' = {c}
  <2>1. c \in Asking(p) /\ p \in finalizing /\ Asking(p) = {c}
    BY <1>0, <1>1 DEF Asking, RoomOnce
  <2>2. ~ Settled(p)'
    BY <1>0 DEF Settled, Both
  <2>3. p \in finalizing'
    BY <2>1, <2>2, FinalizingKept
  <2>4. ASSUME NEW e \in Calls, call'[e].pc = "create_room", Both(call'[e].prop) = p
        PROVE  e = c
    <3>1. ~ Wins(e)
      BY <2>1, <2>4 DEF Wins
    <3>2. e \in Asking(p)
      BY <2>4, <3>1, AskingChange DEF Asking
    <3> QED
      BY <2>1, <3>2
  <2> QED
    BY <1>0, <2>3, <2>4 DEF Asking, Both
<1>2. ASSUME Wins(c) PROVE p \in finalizing' /\ Asking(p)' = {c}
  <2>1. p \notin finalizing /\ p \in finalizing'
    BY <1>0, <1>2 DEF Wins
  <2>2. Asking(p) = {}
    BY <2>1 DEF RoomOnce
  <2>3. ASSUME NEW e \in Calls, e # c, call'[e].pc = "create_room", Both(call'[e].prop) = p
        PROVE  FALSE
    <3>1. call'[e] = call[e]
      BY <1>2, <2>3 DEF Wins
    <3> QED
      BY <2>2, <2>3, <3>1 DEF Asking
  <2> QED
    BY <1>0, <2>1, <2>3 DEF Asking, Both
<1> QED
  BY <1>0, <1>1, <1>2, AskingChange

\* A call asks for a room of a proposal only if it already did, or if the pair
\* was open to it and its connect had read that proposal.
LEMMA NobodyAsksAgain ==
  ASSUME Inductive, [Next]_vars, NEW d, NEW p \in Pairs, p = Both(d), RoomOnce(p),
         NEW i \in 1..Len(rooms), rooms[i] = d, NEW c \in Asking(p)'
  PROVE  call'[c].prop # d
<1>0. c \in Calls /\ call'[c].pc = "create_room" /\ Both(call'[c].prop) = p
  BY DEF Asking, Both
<1>1. ASSUME call'[c] = call[c] PROVE call'[c].prop # d
  BY <1>0, <1>1 DEF Asking, RoomOnce
<1>2. ASSUME Wins(c) PROVE call'[c].prop # d
  <2>1. p = CallPair(c) /\ p \notin finalizing
    BY <1>0, <1>2 DEF Wins
  <2>2. ~ Settled(p)
    BY <1>0, <1>2, <2>1, WinnerUnsettled
  <2>3. Answered(d)
    BY DEF RoomOnce
  <2>4. call[c].prop # d
    BY <1>0, <1>2, <2>1, <2>2, <2>3 DEF Answered, Wins
  <2> QED
    BY <1>2, <2>4 DEF Wins
<1> QED
  BY <1>0, <1>1, <1>2, AskingChange

\* A proposal that nothing leads to stays so: only its own record, or a call
\* that has read it, could.
LEMMA DeadStep ==
  ASSUME Inductive, [Next]_vars, NEW d \in Proposals, NEW p \in Pairs, p = Both(d),
         p \notin overtaken', NEW i \in 1..Len(rooms), rooms[i] = d,
         pending[p].rec # d,
         \A c \in Calls : call[c].pc \in {"connect", "create_room"} => call[c].prop # d
  PROVE  /\ pending'[p].rec # d
         /\ \A c \in Calls : call'[c].pc \in {"connect", "create_room"} => call'[c].prop # d
<1>0. TypeOK /\ d # None
  BY NoneIsNobody DEF Inductive
<1>1. pending'[p].rec # d
  <2>1. ASSUME NEW q, pending' = [pending EXCEPT ![q] = [rec |-> None, connects |-> {}]]
        PROVE  pending'[p].rec # d
    BY <1>0, <2>1 DEF TypeOK
  <2>2. ASSUME NEW w \in Workers, WritePending(w) PROVE pending'[p].rec # d
    <3>1. CASE Pair(w) = p
      BY <2>2, <3>1, ProposedAfresh
    <3>2. CASE Pair(w) # p
      BY <1>0, <2>2, <3>2 DEF WritePending, TypeOK
    <3> QED
      BY <3>1, <3>2
  <2>3. ASSUME NEW c \in Calls, RecordConnect(c) PROVE pending'[p].rec # d
    BY <1>0, <2>3 DEF RecordConnect, TypeOK
  <2> QED
    BY <2>1, <2>2, <2>3, PendingChange
<1>2. ASSUME NEW c \in Calls, call'[c].pc \in {"connect", "create_room"}
      PROVE  call'[c].prop # d
  <2>1. CASE RespondReadPending(c)
    <3>1. CallOK(call[c]) /\ CallPair(c) \in Pairs
      BY <2>1, PairOfTwo DEF Inductive, CallShape, CallOK, PeerPcs, RespondReadPending, CallPair
    <3>2. call'[c].prop = pending[CallPair(c)].rec /\ pending[CallPair(c)].rec # None
      BY <1>0, <1>2, <2>1 DEF RespondReadPending, Finish, NoCall, TypeOK
    <3>3. Both(pending[CallPair(c)].rec) = CallPair(c)
      BY <3>1, <3>2 DEF Inductive, KeysOwned, PendingKeyed
    <3> QED
      BY <3>2, <3>3
  <2>2. CASE RecordConnect(c)
    BY <1>0, <1>2, <2>2 DEF RecordConnect, Finish, Goto, NoCall, TypeOK
  <2>3. ~ CreateRoom(c) /\ ~ MarkPairInRoom(c) /\ ~ MarkMatched(c)
    BY <1>0, <1>2 DEF CreateRoom, MarkPairInRoom, MarkMatched, Goto, TypeOK
  <2>4. CASE call'[c] = call[c]
    BY <1>2, <2>4
  <2> QED
    BY <1>2, <2>1, <2>2, <2>3, <2>4, CallChange DEF FinishPcs
<1> QED
  BY <1>1, <1>2

\* A proposal with a room stays answered while its pair is not overtaken.
LEMMA AnsweredStep ==
  ASSUME Inductive, [Next]_vars, NEW d \in Proposals, NEW p \in Pairs, p = Both(d),
         p \notin overtaken', RoomOnce(p), NEW i \in 1..Len(rooms), rooms[i] = d
  PROVE  Answered(d)'
<1>1. Answered(d)
  BY DEF RoomOnce
<1> SUFFICES \/ p \in finalizing' /\ Asking(p)' = {}
             \/ Settled(p)'
             \/ /\ pending'[p].rec # d
                /\ \A c \in Calls : call'[c].pc \in {"connect", "create_room"} =>
                                      call'[c].prop # d
  BY DEF Answered, Both
<1>2. CASE p \in finalizing /\ Asking(p) = {}
  <2>1. ASSUME NEW c \in Calls, call'[c].pc = "create_room", Both(call'[c].prop) = p
        PROVE  FALSE
    <3>1. ~ Wins(c)
      BY <1>2, <2>1 DEF Wins
    <3> QED
      BY <1>2, <2>1, <3>1, AskingChange DEF Asking
  <2>2. Asking(p)' = {}
    BY <2>1 DEF Asking, Both
  <2> QED
    BY <1>2, <2>2, FinalizingKept
<1>3. CASE Settled(p)
  <2>1. CASE ~ \E w \in Workers : WritePending(w) /\ Pair(w) = p
    BY <1>3, <2>1, SettledStep
  <2>2. ASSUME NEW w \in Workers, WritePending(w), Pair(w) = p
        PROVE  /\ pending'[p].rec # d
               /\ \A c \in Calls : call'[c].pc \in {"connect", "create_room"} =>
                                     call'[c].prop # d
    <3>1. /\ Late(p) = {} /\ pending'[p].rec = ProposalOf(w) /\ UNCHANGED call
          /\ ProposalOf(w) # d
      BY <2>2, ProposedAfresh
    <3>2. ASSUME NEW c \in Calls, call[c].pc = "connect", call[c].prop = d PROVE FALSE
      <4>1. CallPair(c) = p
        BY <3>2 DEF Inductive, CallShape, CallOK, CallPair
      <4> QED
        BY <3>1, <3>2, <4>1 DEF Late
    <3>3. ASSUME NEW c \in Calls, call[c].pc = "create_room", call[c].prop = d PROVE FALSE
      BY <1>3, <3>3 DEF Settled
    <3> QED
      BY <3>1, <3>2, <3>3
  <2> QED
    BY <2>1, <2>2
<1>4. CASE /\ pending[p].rec # d
           /\ \A c \in Calls : call[c].pc \in {"connect", "create_room"} => call[c].prop # d
  BY <1>4, DeadStep
<1> QED
  BY <1>1, <1>2, <1>3, <1>4 DEF Answered

\* The room request: one room more, for the proposal of the call that asked.
LEMMA RoomMade ==
  ASSUME Inductive, [Next]_vars, NEW i \in 1..Len(rooms'), i \notin 1..Len(rooms)
  PROVE  \E c \in Calls :
           /\ CreateRoom(c) /\ c \in Asking(Both(call[c].prop))
           /\ i = Len(rooms) + 1 /\ rooms'[i] = call[c].prop
           /\ call[c].prop \in Proposals /\ Both(call[c].prop) \in Pairs
           /\ UNCHANGED finalizing
           /\ \A e \in Calls : call'[e].pc = "create_room" => e # c /\ call'[e] = call[e]
<1>0. TypeOK /\ rooms \in Seq(Proposals)
  BY DEF Inductive, TypeOK
<1>1. PICK c \in Calls : CreateRoom(c)
  BY HistoryChange
<1>2. rooms' = Append(rooms, call[c].prop)
  BY <1>1 DEF CreateRoom
<1>3. call[c].pc = "create_room" /\ WellFormed(call[c].prop)
  BY <1>1 DEF CreateRoom, Inductive, CallShape, CallOK, ProposalPcs, FinishPcs
<1>4. call[c].prop \in Proposals /\ Both(call[c].prop) \in Pairs
  BY <1>3, PairOfTwo DEF WellFormed, Proposals, Both
<1>5. i = Len(rooms) + 1 /\ rooms'[i] = call[c].prop
  BY <1>0, <1>2, <1>4
<1>6. \A e \in Calls : call'[e].pc = "create_room" => e # c /\ call'[e] = call[e]
  BY <1>0, <1>1 DEF CreateRoom, Goto, TypeOK
<1>7. UNCHANGED finalizing
  BY <1>1 DEF CreateRoom, redis, offers
<1> QED
  BY <1>1, <1>3, <1>4, <1>5, <1>6, <1>7 DEF Asking

\* Every step keeps it that a proposal gets one room, and every pair a key.
LEMMA RoomsOnceStep ==
  ASSUME Inductive, RoomsOnce, [Next]_vars PROVE RoomsOnce'
<1>0. /\ rooms \in Seq(Proposals)
      /\ \A i \in 1..Len(rooms) : i \in 1..Len(rooms') /\ rooms'[i] = rooms[i]
      /\ \A i \in 1..Len(rooms) : rooms[i] \in Proposals
  <2>1. rooms \in Seq(Proposals)
    BY DEF Inductive, TypeOK
  <2> QED
    BY <2>1, RoomsOnlyAdded
<1>1. ASSUME NEW i \in 1..Len(rooms') PROVE Both(rooms'[i]) \in Pairs
  <2>1. CASE i \in 1..Len(rooms)
    BY <1>0, <2>1 DEF RoomsOnce
  <2>2. CASE i \notin 1..Len(rooms)
    BY <2>2, RoomMade
  <2> QED
    BY <2>1, <2>2
<1>2. ASSUME NEW p \in Pairs, p \notin overtaken' PROVE RoomOnce(p)'
  <2>0. RoomOnce(p)
    BY <1>2, MishapsTyped DEF RoomsOnce
  <2>1. \A c \in Asking(p)' : p \in finalizing' /\ Asking(p)' = {c}
    BY <1>2, <2>0, AskingStep
  <2>2. ASSUME NEW i \in 1..Len(rooms'), NEW d, d = rooms'[i], Both(d) = p
        PROVE  Answered(d)' /\ \A c \in Asking(p)' : call'[c].prop # d
    <3>1. CASE i \in 1..Len(rooms)
      <4>1. d \in Proposals /\ rooms[i] = d
        BY <1>0, <2>2, <3>1
      <4> QED
        BY <1>2, <2>0, <2>2, <3>1, <4>1, AnsweredStep, NobodyAsksAgain
    <3>2. CASE i \notin 1..Len(rooms)
      <4>1. PICK c \in Calls :
              /\ c \in Asking(Both(call[c].prop)) /\ rooms'[i] = call[c].prop
              /\ UNCHANGED finalizing
              /\ \A e \in Calls : call'[e].pc = "create_room" => e # c /\ call'[e] = call[e]
        BY <3>2, RoomMade
      <4>2. c \in Asking(p) /\ p \in finalizing' /\ Asking(p) = {c}
        BY <2>0, <2>2, <4>1 DEF RoomOnce
      <4>3. Asking(p)' = {}
        <5>1. ASSUME NEW e \in Calls, call'[e].pc = "create_room", Both(call'[e].prop) = p
              PROVE  FALSE
          BY <4>1, <4>2, <5>1 DEF Asking
        <5> QED
          BY <5>1 DEF Asking, Both
      <4> QED
        BY <2>2, <4>2, <4>3 DEF Answered
    <3> QED
      BY <3>1, <3>2
  <2>3. ASSUME NEW i \in 1..Len(rooms'), NEW j \in 1..Len(rooms'), i # j,
               rooms'[i] = rooms'[j], Both(rooms'[i]) = p
        PROVE  FALSE
    <3>1. CASE i \in 1..Len(rooms) /\ j \in 1..Len(rooms)
      BY <1>0, <2>0, <2>3, <3>1 DEF RoomOnce
    <3>2. ASSUME NEW k \in 1..Len(rooms), NEW m \in 1..Len(rooms'), m \notin 1..Len(rooms),
                 rooms'[m] = rooms'[k], Both(rooms'[k]) = p
          PROVE  FALSE
      <4>1. PICK c \in Calls : c \in Asking(Both(call[c].prop)) /\ rooms'[m] = call[c].prop
        BY <3>2, RoomMade
      <4>2. rooms[k] = call[c].prop /\ c \in Asking(p) /\ Both(rooms[k]) = p
        BY <1>0, <3>2, <4>1
      <4> QED
        BY <2>0, <4>2 DEF RoomOnce
    <3>3. i \in 1..Len(rooms) \/ j \in 1..Len(rooms)
      BY <2>3, RoomMade
    <3> QED
      BY <2>3, <3>1, <3>2, <3>3
  <2> QED
    BY <2>1, <2>2, <2>3 DEF RoomOnce, Answered, Settled, Both
<1> QED
  BY <1>1, <1>2 DEF RoomsOnce, Both

\* In every reachable state, a pair nobody overtook has at most one room request
\* under way, under its finalize key, and what is left of a proposal that has a
\* room leads to no other: the script's NX and the deleted record see to it.
THEOREM RoomsAreOnce == Spec => []RoomsOnce
<1>1. Init => RoomsOnce
  BY DEF Init, RoomsOnce, RoomOnce, Asking, NoCall
<1>2. Inductive /\ RoomsOnce /\ [Next]_vars => RoomsOnce'
  BY RoomsOnceStep
<1> QED
  BY <1>1, <1>2, InductiveHolds, PTL DEF Spec

\* However often both users tap Connect, and whichever calls die, a proposal
\* gets one room, unless the record or the key went away under a connect or a
\* room request, or the pair was proposed again under one.
THEOREM ProposalsGetOneRoom == Spec => []OneRoomEach
<1>1. RoomsOnce => OneRoomEach
  BY DEF RoomsOnce, RoomOnce, OneRoomEach
<1> QED
  BY <1>1, RoomsAreOnce, PTL

=============================================================================
