----------------------- MODULE SpaceSessionProperties -----------------------
(* What a space promises the people in it.                                  *)
EXTENDS SpaceSession

SL == INSTANCE SpaceLifecycle WITH booked <- Booked, oneShot <- plan.oneShot

(* Start, lazy start, host end, last leave, sweep and cancel race, each with *)
(* a conditional update: the status goes through one lifecycle, an ended or *)
(* cancelled space stays so, a booked slot is never lost to a session's end. *)
KeepsLifecycle == SL!Lifecycle

(* deleteSpaceAfterCall: when the last one has left, the space is over, unless *)
(* two of them left in one instant, or the last one was removed, or left the  *)
(* lobby by a call that began before the start: those two count nobody.      *)
OneShotSpaceEnds ==
  plan.oneShot /\ status = "live" /\ Active = {} => parted \in {None, "removed", "together"}

(* Whoever may not come back is out, by whatever way in: only a join that was *)
(* under way during the removal keeps its seat (kickSpaceParticipantService). *)
RestrictedStayOut == \A u \in restricted : row[u] = "in" => u \in slipped

(* The host can open a live space: its session hash is there until its TTL is *)
(* over. Whoever finds the space over deletes its hash a moment later, so the *)
(* exceptions are a start that came between such a look and its DEL, a crash  *)
(* between the row and the hash, and a member whose join brought a session    *)
(* back that was over and had lost its hash.                                  *)
LiveSpaceHasHash ==
  status = "live" /\ ~ SessionClosed /\ NoHandler /\ hash = "absent" =>
    HasCome(due.hash) \/ raced

(* Nobody enters a host-led space before its host opens this session of it    *)
(* (openSpaceMeetingService clears the gate, issueRtcTokenService asks for    *)
(* it), from the provisioning of its session hash until the hash lapses: the  *)
(* gate is in the hash, which comes after the row and whose TTL is shorter    *)
(* than a session. A DEL that was under way at the start (LiveSpaceHasHash)   *)
(* ends the gate's life early, which raced excepts here as well.              *)
GuestsWaitForHost ==
  /\ plan.lead = "host" /\ status = "live" /\ ~ SessionClosed
  /\ early # {} /\ \A h \in Handlers : ~ Pc(h, "provision")
  => HasCome(due.hash) \/ raced

(* Every booked slot is started, cancelled or expired by the sweep.          *)
SlotSettles == (status = "scheduled") ~> (status # "scheduled" \/ isExpired)

(* A live space without expires_at that is over its cap, its calendar or its *)
(* empty time is torn down by the sweep.                                     *)
OverdueTornDown ==
  (Overdue /\ due.expiry = None /\ ~ isExpired)
    ~> (status # "live" \/ ~ Overdue \/ due.expiry # None)

(* sweep-due-room-sessions.service.ts promises a full session teardown for    *)
(* wall-clock due rooms, not only is_expired.                                *)
DueSpaceTornDown == Overdue ~> ~ Overdue

=============================================================================
