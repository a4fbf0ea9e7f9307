------------------------------ MODULE MCSpaces ------------------------------
(* The spaces that TLC checks.                                              *)
EXTENDS SpaceSessionProperties, TLC

\* A private and a public one-shot space that are live at once, the public one led
\* by its host, a booked one-shot space that opens by itself at its hour, and a
\* booked one that waits for its host.
Space(start, end, window, lead, oneShot, public) ==
  [start |-> start, end |-> end, window |-> window, lead |-> lead,
   oneShot |-> oneShot, public |-> public]
SomePlans ==
  {Space(None, None, None, "none", TRUE, FALSE),
   Space(None, None, None, "host", TRUE, TRUE),
   Space(1, 2, None, "auto", TRUE, FALSE),
   Space(1, None, 2, "host", FALSE, FALSE)}

=============================================================================
