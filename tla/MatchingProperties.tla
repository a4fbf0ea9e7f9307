-------------------------- MODULE MatchingProperties --------------------------
(***************************************************************************)
(* What the matchmaking engine should guarantee, stated over Matching.     *)
(***************************************************************************)
EXTENDS Matching

Attempts2(d) == {d.attLow, d.attHigh}
Quiet ==
  /\ \A c \in Calls : call[c].pc = "free"
  /\ \A w \in Workers : worker[w].pc = "idle"

\* No user is in two pairs that are locked or have a pending record: what the
\* userLock guard of lockPair is for.  The exception is a pair one of whose
\* users was freed under it: by a release or a room of another of the user's
\* pairs, or by a leave-room.
Claims == pairLock \cup {p \in Pairs : pending[p].rec # None}
OneClaimPerUser ==
  \A p, q \in Claims : p # q /\ p \cap q # {} => {p, q} \cap freed # {}

\* No user is under two pair locks: what lockPair is for.
PairLocksDisjoint == \A p, q \in pairLock : p # q => p \cap q = {}

\* However often both users tap Connect, one proposal makes one room.
OneRoomPerProposal ==
  \A i, j \in 1..Len(rooms) : i # j => rooms[i] # rooms[j]

\* One proposal makes one room, whatever the users tap and whoever dies, unless
\* the record or the finalize key went away under a connect or a room request,
\* or the pair was proposed again under one or with the same two attempts.
OneRoomEach ==
  \A i, j \in 1..Len(rooms) :
    i # j /\ rooms[i] = rooms[j] => Both(rooms[i]) \in overtaken

\* A proposal that was skipped, cancelled or given up while no room was being
\* asked for never gets a room from a connect call already under way, until
\* the pair is proposed again.  The one exception is a teardown that both users'
\* connects have overtaken: each has passed readPending, and the script sets
\* their flags on the deleted hash.
NoRoomAfterTeardown ==
  [][\A d \in dropped : rooms' # Append(rooms, d)]_vars

\* The finalize key is only there while a call is creating the room or
\* recording its outcome, so "1: the peer is finalizing" is true; a call that
\* dies leaves its key to the TTL.
FinalizerAlive ==
  deaths = 0 => \A p \in finalizing : \E c \in Calls :
    call[c].pc \in FinishPcs \cup {"drop_pending"} /\ Both(call[c].prop) = p

\* An attempt that reads matched names a room that was made for it.
MatchedAttemptHasRoom ==
  \A a \in Attempts : attempt[a].status = "matched" =>
    attempt[a].room \in 1..Len(rooms) /\ a \in Attempts2(rooms[attempt[a].room])

\* At rest, a locked user can still act: its last attempt is proposed, and the
\* pending record of that proposal is there to be answered.
LockedCanAnswer ==
  Quiet => \A u \in Users : state[u] = "locked" =>
    LET a == lastAttempt[u] IN
    /\ a # None /\ attempt[a].status = "proposed"
    /\ pending[{u, attempt[a].peer}].rec # None
    /\ a \in Attempts2(pending[{u, attempt[a].peer}].rec)

\* At rest, the search a new find would coalesce onto still has its job in the
\* queue: nobody is sent back to a search that no worker will ever run.
LastSearchHasJob ==
  Quiet => \A u \in Users :
    LET a == lastAttempt[u] IN
    a # None /\ attempt[a].status = "searching" => \E i \in 1..Len(jobs) : jobs[i] = a

\* A search that still reads searching has its job in the queue, a call about to
\* push it or a worker on it, at every moment, unless the job died or the worker
\* that took it found the user locked and threw it away.
InHand(a) ==
  \/ \E i \in 1..Len(jobs) : jobs[i] = a
  \/ \E c \in Calls : call[c].pc \in {"enqueue", "push_job"} /\ call[c].att = a
  \/ \E w \in Workers : worker[w].pc \notin {"idle", "propose_peer", "remove"}
                        /\ worker[w].job = a
NoSearchForgotten ==
  \A a \in Attempts : attempt[a].status = "searching" /\ a \notin orphaned => InHand(a)

\* At rest, both sides of a made room read the same outcome.
RoomOutcomeAgreed ==
  Quiet => \A i \in 1..Len(rooms) :
    attempt[rooms[i].attLow].status = attempt[rooms[i].attHigh].status

\* A decided attempt is never searched for or proposed again.
DecidedIsFinal ==
  [][\A a \in Attempts : attempt[a].status \in {"matched", "no_match"} =>
       attempt'[a].status \notin {"searching", "proposed"}]_vars

\* An attempt that is over while no handler and no worker has it in hand stays
\* over, and nobody takes it in hand again: no find, scan, lock or proposal acts
\* on it, however old the pointers and the jobs are that lead there.
TakenUp(a) ==
  \/ \E c \in Calls : call[c].pc \in {"acquire", "recheck", "set_searching"}
                      /\ call[c].att = a
  \/ \E w \in Workers :
       \/ /\ worker[w].pc \notin {"idle", "propose_peer", "no_match", "remove"}
          /\ worker[w].job = a
       \/ /\ worker[w].pc \in {"write_pending", "propose_self", "propose_peer"}
          /\ worker[w].peerAtt = a
Over(a) == attempt[a].status \in {"matched", "no_match", "expired"} /\ ~TakenUp(a)
OverIsFinal == [][\A a \in Attempts : Over(a) => Over(a)']_vars

\* Every search comes to an answer.
SearchSettles ==
  \A a \in Attempts : attempt[a].status = "searching" ~> attempt[a].status # "searching"

\* Once both users have tapped Connect, the proposal is decided.
MutualConnectSettles ==
  \A p \in Pairs : pending[p].connects = p ~> pending[p].connects # p

\* A proposal that expired leaves its users able to search again.
ExpiredProposalResets ==
  \A p \in Pairs : \A u \in p :
    state[u] = "locked" /\ p \notin pairLock /\ pending[p].rec = None
      ~> state[u] # "locked"

\* The promise of MutualConnect, with attempts and rooms as the state: a room
\* only opens for users who both asked for it, through retries and crashes.
Promise == INSTANCE MutualConnect WITH
  agreed <- {<<Owner(x[1]), x[2]>> : x \in connected},
  opened <- [i \in 1..Len(rooms) |-> Both(rooms[i])]
RoomsByMutualConnect == Promise!Spec

-----------------------------------------------------------------------------
(* The inductive invariant: what the locals of a handler and the keys it    *)
(* has written say about each other between any two awaits.                 *)

\* A record names two users and an attempt of each.
WellFormed(d) ==
  /\ d \in Proposals /\ d.low # d.high
  /\ Owner(d.attLow) = d.low /\ Owner(d.attHigh) = d.high

LastOwned == \A u \in Users : lastAttempt[u] # None => Owner(lastAttempt[u]) = u
ProposedNamesPeer ==
  \A a \in Attempts : attempt[a].status = "proposed" =>
    attempt[a].peer \in Users \ {Owner(a)}
PendingKeyed ==
  \A p \in Pairs : pending[p].rec # None =>
    WellFormed(pending[p].rec) /\ Both(pending[p].rec) = p
KeysOwned == LastOwned /\ ProposedNamesPeer /\ PendingKeyed

AttemptPcs == CommitPcs \cup {"refuse", "acquire", "read_pending", "connect",
  "cancel_read", "cancel_pending", "cancel_mark", "leave_mark"}
PeerPcs == {"read_pending", "connect", "cancel_pending"}
ProposalPcs == {"connect"} \cup TeardownPcs \cup FinishPcs

CallOK(r) ==
  /\ r.pc # "free" => r.user \in Users
  /\ r.att # None => r.att \in Attempts /\ Owner(r.att) = r.user
  /\ r.pc \in AttemptPcs => r.att # None
  /\ r.pc \in PeerPcs => r.peer \in Users \ {r.user}
  /\ r.pc \in ProposalPcs => WellFormed(r.prop)
  /\ r.pc = "connect" => Both(r.prop) = {r.user, r.peer}
CallShape == \A c \in Calls : CallOK(call[c])

PairingPcs == {"locked", "release", "evict", "write_pending", "propose_self",
               "propose_peer"}
ProposingPcs == {"write_pending", "propose_self", "propose_peer"}

WorkerOK(r) ==
  /\ r.pc # "idle" => r.job \in Attempts /\ Owner(r.job) \notin r.cands
  /\ r.pc \in PairingPcs => r.peer \in Users \ {Owner(r.job)}
  /\ r.pc \in ProposingPcs => r.peerAtt \in Attempts /\ Owner(r.peerAtt) = r.peer
WorkerShape == \A w \in Workers : WorkerOK(worker[w])

\* u has asked to connect with v.
Agreed(u, v) == \E x \in connected : Owner(x[1]) = u /\ x[2] = v

ConsentKept ==
  /\ \A p \in Pairs : \A u \in pending[p].connects :
       u \in p /\ \A v \in p \ {u} : Agreed(u, v)
  /\ \A c \in Calls : call[c].pc = "connect" => Agreed(call[c].user, call[c].peer)
  /\ \A c \in Calls : call[c].pc \in FinishPcs =>
       LET d == call[c].prop IN Agreed(d.low, d.high) /\ Agreed(d.high, d.low)

\* The room a finalizer holds was made for its proposal.
RoomsKept ==
  /\ \A c \in Calls : call[c].pc \in FinishPcs \ {"create_room"} =>
       call[c].room \in 1..Len(rooms) /\ rooms[call[c].room] = call[c].prop
  /\ MatchedAttemptHasRoom

Inductive ==
  TypeOK /\ KeysOwned /\ CallShape /\ WorkerShape /\ ConsentKept /\ RoomsKept

\* Nobody has a room for the pair to ask for: no record to answer, no request
\* under way, and the flags with the connects to come are not both users'.
Settled(p) ==
  /\ pending[p].rec = None
  /\ pending[p].connects \cup Late(p) # p
  /\ \A c \in Calls : call[c].pc = "create_room" => Both(call[c].prop) # p
DroppedKept == \A d \in dropped : WellFormed(d) /\ Settled(Both(d))

\* A pair that is locked, has a record or is in a worker's hands has its three
\* lock keys, unless one of its users was freed since.
Held(p) == p \in pairLock /\ \A u \in p : userLock[u] \in p \ {u}
LocksHeld == \A p \in Pairs \ freed : p \in Claims \/ Pairing(p) => Held(p)

\* The calls that are asking for a room of the pair.
Asking(p) == {c \in Calls : call[c].pc = "create_room" /\ Both(call[c].prop) = p}

\* No second room can come of the proposal d: its finalizer is past the request,
\* its pair is settled, or nothing leads to d any more.
Answered(d) ==
  \/ Both(d) \in finalizing /\ Asking(Both(d)) = {}
  \/ Settled(Both(d))
  \/ /\ pending[Both(d)].rec # d
     /\ \A c \in Calls : call[c].pc \in {"connect", "create_room"} => call[c].prop # d

\* At most one call asks for the pair's room, under the finalize key, and for a
\* proposal that has none; a proposal that has one is answered, and has one.
RoomOnce(p) ==
  /\ \A c \in Asking(p) : p \in finalizing /\ Asking(p) = {c}
  /\ \A i \in 1..Len(rooms) : Both(rooms[i]) = p =>
       Answered(rooms[i]) /\ \A c \in Asking(p) : call[c].prop # rooms[i]
  /\ \A i, j \in 1..Len(rooms) : i # j /\ rooms[i] = rooms[j] => Both(rooms[i]) # p
RoomsOnce ==
  /\ \A i \in 1..Len(rooms) : Both(rooms[i]) \in Pairs
  /\ \A p \in Pairs \ overtaken : RoomOnce(p)

=============================================================================
