---------------------- MODULE ConnectionCallProperties ----------------------
(* What the call handlers of the API server promise.                        *)
EXTENDS ConnectionCall

\* Two handlers found the invite pending: each of them goes on with its own
\* answer, and which one the users see is not decided by the code.
Contested(r) == readers[r] = 2

\* Nobody works on the request and no restart cut a handler short.
AtRest(r) == Quiet(r) /\ ~ restarted

(* However decline, cancel, missed and the ring timer race, and whatever     *)
(* fails, a request gets one outcome row, and one more only for each publish *)
(* that failed after it had inserted its row (recordPendingCallOutcome).     *)
OutcomeRowsBounded == \A r \in Requests : outcome[r] <= 1 + late[r]

(* Both sides hang up, the room is swept, a publish fails: an answered call  *)
(* is logged as completed at most once (finalizeConnectionCallHistory).      *)
OneCompletedRow == \A r \in Requests : completed[r] <= 1

(* A call that was answered while nobody else was answering it keeps its     *)
(* room until somebody hangs up or its time is over: a late cancel, missed   *)
(* or ring timer does not end it.                                            *)
AnsweredCallKeepsRoom ==
  \A r \in active : \/ room[r] = "live"
                    \/ closedBy[r] \in {"hangup", "sweep"}
                    \/ Contested(r)

(* A recorded outcome is carried through: when its handlers are done the     *)
(* room has ended, the session hash is gone and no invite hash is left, not  *)
(* even one that a late hset brought back without a TTL.                     *)
OutcomeEndsCall ==
  \A r \in Requests : outcome[r] > 0 /\ AtRest(r) =>
    room[r] = "ended" /\ r \notin session /\ invite[r] = "absent"

(* A callee is held busy only by an invite that can still be answered: no    *)
(* interleaving of cleanups leaves the key of a finished request behind.     *)
CalleeNotBlocked ==
  \A u \in Users : LET r == ringing[u]
                   IN  r # None /\ AtRest(r) => invite[r] = "pending" /\ Callee(r) = u

(* One phone rings once: two invites of one callee are pending together only *)
(* when two handlers closed the same ring and the second one deleted the key *)
(* of the next caller, or after a restart lost the ring timers.              *)
OneRingPerCallee ==
  \A r, s \in Requests :
    /\ r # s
    /\ invite[r] = "pending" /\ invite[s] = "pending"
    /\ Callee(r) = Callee(s)
    => \/ restarted
       \/ \E q \in Requests : dial[q] # None /\ Callee(q) = Callee(r) /\ Contested(q)

(* The phone does not ring for a call that is over, except when the caller   *)
(* left the room without cancelling, which deletes no invite, or when a      *)
(* crash before expire left an invite without a TTL.                         *)
RingHasRoom ==
  \A r \in Requests : invite[r] = "pending" =>
    room[r] = "live" \/ closedBy[r] = "hangup" \/ restarted

(* Every call comes to an end, whatever the users do and whatever crashes:   *)
(* the handlers that were started, the ring timer or the sweep end it.       *)
CallEnds == \A r \in Requests : room[r] = "live" ~> room[r] = "ended"

(* A phone does not ring for ever: without a restart every invite is         *)
(* answered, cancelled, missed or timed out.                                 *)
RingSettles ==
  \A r \in Requests : invite[r] = "pending" ~> (invite[r] # "pending" \/ restarted)

=============================================================================
