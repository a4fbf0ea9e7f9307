----------------------------- MODULE MatchStore -----------------------------
(***************************************************************************)
(* The Redis keys the matchmaking engine of apps/matching-service keeps,   *)
(* the locals of the handlers that work on them, and the Redis operations  *)
(* those handlers share.                                                   *)
(***************************************************************************)
EXTENDS Naturals, Sequences

CONSTANTS
  Users,        \* user ids; their order decides userLow and userHigh
  MaxAttempts,  \* bound: request ids issued per user
  Calls,        \* slots for HTTP calls in flight
  Workers,      \* queue consumers, one per engine process
  Compatible,   \* pairs that pass the block list, matchIds and scoring
  MaxPasses,    \* scans of the pool per job (retries and the fallback)
  Ops,          \* the HTTP operations clients use in this instance
  Resends,      \* whether a find is also sent again while it is in flight
  MaxCalls,     \* bound: HTTP calls in a behaviour
  MaxRoomFails, \* bound: room requests that fail or time out
  MaxDeaths,    \* bound: calls and jobs that die between two awaits
  MaxLapses,    \* bound: lock, pending and attempt keys that reach their TTL
  None          \* absent key or field

Attempts == Users \X (1..MaxAttempts)
Owner(a) == a[1]
Pairs == {p \in SUBSET Users : \E u, v \in p : u # v /\ p = {u, v}}

(* PairPendingRecord: the hash written under the pair's pending key. *)
Proposals == [low : Users, high : Users,
              attLow : Attempts, attHigh : Attempts, roomAtt : Attempts]
Both(d) == {d.low, d.high}

ASSUME UsersAssumption == Users \subseteq Nat
ASSUME BoundsAssumption ==
  {MaxAttempts, MaxPasses, MaxCalls, MaxRoomFails, MaxDeaths, MaxLapses} \subseteq Nat
ASSUME NoneAssumption == None \notin Users \cup Attempts \cup Proposals
ASSUME CompatibleAssumption == Compatible \subseteq Pairs
ASSUME ResendsAssumption == Resends \in BOOLEAN
ASSUME OpsAssumption == Ops \subseteq {"find", "connect", "skip", "cancel", "leave"}

VARIABLES
  state,        \* mm:state:{user}
  userLock,     \* mm:lock:user:{user}, by the peer it was locked with
  pairLock,     \* mm:pair:lock:{pair} keys that exist
  pool,         \* members of the global pool zset
  attempt,      \* mm:attempt:{id}
  lastAttempt,  \* mm:user:last-attempt:{user}
  startLock,    \* mm:user:start-search-lock:{user}: the request holding it
  jobs,         \* mm:jobs:find, oldest first
  pending,      \* pair pending hash: the record and the connect flags
  finalizing,   \* pairs whose finalize key exists
  rooms,        \* rooms the room service created, oldest first
  worker,       \* locals of each consumer
  call,         \* locals of each HTTP call
  connected,    \* history: <<attempt, peer>> of the connect calls that passed
  dropped,      \* history: proposals torn down undecided, not proposed again since
  freed,        \* history: pairs with a user freed since the pair was locked
  overtaken,    \* history: pairs that may be given another room, see Matching
  orphaned,     \* history: attempts whose job was thrown away, or died
  made, failed, deaths, lapses  \* counters for the bounds

locks == <<state, userLock, pairLock>>
tries == <<attempt, lastAttempt>>
search == <<startLock, jobs>>
offers == <<pending, finalizing>>
redis == <<locks, pool, tries, search, offers>>
answers == <<rooms, connected, dropped>>
mishaps == <<freed, overtaken, orphaned>>
history == <<answers, mishaps>>
losses == <<failed, deaths, lapses>>
counters == <<made, losses>>
vars == <<redis, history, worker, call, counters>>

States == {"none", "searching", "locked", "in_room"}
Statuses == {"absent", "searching", "proposed", "matched", "no_match", "expired"}
TeardownPcs == {"drop_pending", "release", "no_match_low", "no_match_high"}
FinishPcs == {"create_room", "in_room", "matched_low", "matched_high",
              "clear_pending"}
CommitPcs == {"recheck", "set_searching", "enqueue", "push_job"}
CallPcs == {"free", "refuse", "acquire", "read_pending", "connect",
            "cancel_remove", "cancel_read", "cancel_pending", "cancel_mark",
            "leave_mark", "leave_clear"}
           \cup CommitPcs \cup TeardownPcs \cup FinishPcs
WorkerPcs == {"idle", "scan", "try", "locked", "release", "evict",
              "write_pending", "propose_self", "propose_peer",
              "no_match", "remove"}

NoCall == [pc |-> "free", user |-> None, att |-> None, peer |-> None,
           op |-> None, prop |-> None, room |-> 0]
Idle == [pc |-> "idle", job |-> None, cands |-> {}, peer |-> None,
         peerAtt |-> None, passes |-> 0]

TypeOK ==
  /\ state \in [Users -> States]
  /\ userLock \in [Users -> Users \cup {None}]
  /\ pairLock \subseteq Pairs
  /\ pool \subseteq Users
  /\ attempt \in [Attempts -> [status : Statuses, peer : Users \cup {None},
                               room : Nat]]
  /\ lastAttempt \in [Users -> Attempts \cup {None}]
  /\ startLock \in [Users -> Attempts \cup {None}]
  /\ jobs \in Seq(Attempts)
  /\ pending \in [Pairs -> [rec : Proposals \cup {None}, connects : SUBSET Users]]
  /\ finalizing \subseteq Pairs
  /\ rooms \in Seq(Proposals)
  /\ worker \in [Workers -> [pc : WorkerPcs, job : Attempts \cup {None},
                             cands : SUBSET Users, peer : Users \cup {None},
                             peerAtt : Attempts \cup {None}, passes : Nat]]
  /\ call \in [Calls -> [pc : CallPcs, user : Users \cup {None},
                         att : Attempts \cup {None}, peer : Users \cup {None},
                         op : Ops \cup {"unlocked", None},
                         prop : Proposals \cup {None}, room : Nat]]
  /\ connected \subseteq Attempts \X Users
  /\ dropped \subseteq Proposals
  /\ freed \subseteq Pairs /\ overtaken \subseteq Pairs /\ orphaned \subseteq Attempts
  /\ made \in Nat /\ failed \in Nat /\ deaths \in Nat /\ lapses \in Nat

Init ==
  /\ state = [u \in Users |-> "none"]
  /\ userLock = [u \in Users |-> None]
  /\ pairLock = {}
  /\ pool = {}
  /\ attempt = [a \in Attempts |-> [status |-> "absent", peer |-> None, room |-> 0]]
  /\ lastAttempt = [u \in Users |-> None]
  /\ startLock = [u \in Users |-> None]
  /\ jobs = << >>
  /\ pending = [p \in Pairs |-> [rec |-> None, connects |-> {}]]
  /\ finalizing = {}
  /\ rooms = << >>
  /\ worker = [w \in Workers |-> Idle]
  /\ call = [c \in Calls |-> NoCall]
  /\ connected = {} /\ dropped = {}
  /\ freed = {} /\ overtaken = {} /\ orphaned = {}
  /\ made = 0 /\ failed = 0 /\ deaths = 0 /\ lapses = 0

-----------------------------------------------------------------------------
(* Redis operations the handlers share.                                     *)

\* setSearching, markNoMatch: the hash field, then the last-attempt pointer.
SetStatus(a, s) ==
  /\ attempt' = [attempt EXCEPT ![a].status = s]
  /\ lastAttempt' = [lastAttempt EXCEPT ![Owner(a)] = a]

\* Fault variant: the room and the peer swapped.
SetPairedSwapped(a, s, v, r) ==
  /\ attempt' = [attempt EXCEPT ![a] = [status |-> s, peer |-> r, room |-> v]]
  /\ lastAttempt' = [lastAttempt EXCEPT ![Owner(a)] = a]

\* markProposed, markMatched: the same with the peer and the room.
SetPaired(a, s, v, r) ==
  /\ attempt' = [attempt EXCEPT ![a] = [status |-> s, peer |-> v, room |-> r]]
  /\ lastAttempt' = [lastAttempt EXCEPT ![Owner(a)] = a]

\* Fault variant: only the pair's own key is checked.
CanLockByPairKey(p) == p \notin pairLock

\* The guards of the lockPair script.
CanLock(p) ==
  /\ p \notin pairLock
  /\ \A u \in p : userLock[u] = None /\ state[u] = "searching"

\* Fault variant: the locks go, the states stay.
ReleaseLocksOnly(p) ==
  /\ pairLock' = pairLock \ {p}
  /\ userLock' = [u \in Users |-> IF u \in p THEN None ELSE userLock[u]]
  /\ UNCHANGED state

\* releasePair: unconditional, whoever holds the locks now.
ReleasePair(p) ==
  /\ pairLock' = pairLock \ {p}
  /\ userLock' = [u \in Users |-> IF u \in p THEN None ELSE userLock[u]]
  /\ state' = [u \in Users |-> IF u \in p THEN "searching" ELSE state[u]]

\* pool.remove: out of the zset, then the state key deleted.
PoolRemove(u) ==
  /\ pool' = pool \ {u}
  /\ state' = [state EXCEPT ![u] = "none"]

\* Fault variants: the connect flags, or the finalize key, are forgotten.
DeletePendingKeepFlags(p) ==
  /\ pending' = [pending EXCEPT ![p].rec = None]
  /\ finalizing' = finalizing \ {p}
DeletePendingOnly(p) ==
  /\ pending' = [pending EXCEPT ![p] = [rec |-> None, connects |-> {}]]
  /\ UNCHANGED finalizing

\* deletePending: the pending hash and the finalize key in one DEL.
DeletePending(p) ==
  /\ pending' = [pending EXCEPT ![p] = [rec |-> None, connects |-> {}]]
  /\ finalizing' = finalizing \ {p}

\* coalesceActiveSearchOrProposal finds something to return.
Coalesces(u) ==
  /\ lastAttempt[u] # None
  /\ attempt[lastAttempt[u]].status \in {"searching", "proposed"}

=============================================================================
