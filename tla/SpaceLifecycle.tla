--------------------------- MODULE SpaceLifecycle ---------------------------
(* What the status of a space promises its members, whoever starts, leaves,  *)
(* ends, sweeps or cancels it: the abstract specification of SpaceSession.   *)

VARIABLES status, booked, oneShot

Create ==
  /\ status = "none"
  /\ status' = IF booked' THEN "scheduled" ELSE "live"
  /\ booked' \in BOOLEAN /\ oneShot' \in BOOLEAN

\* Only a booked slot is started; it may be started again after each session.
Start == status = "scheduled" /\ status' = "live"

\* The session of a booked slot gives the slot back. It is over for good when
\* there is no slot, or when the last one leaves a one-shot space.
Finish ==
  /\ status = "live"
  /\ \/ booked /\ status' = "scheduled"
     \/ (~ booked \/ oneShot) /\ status' = "ended"

Cancel == status = "scheduled" /\ status' = "cancelled"

Lifecycle ==
  /\ status = "none"
  /\ [][\/ Create
        \/ (Start \/ Finish \/ Cancel) /\ UNCHANGED <<booked, oneShot>>]_<<status, booked, oneShot>>

=============================================================================
