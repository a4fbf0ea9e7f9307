---------------------------- MODULE MutualConnect ----------------------------
(***************************************************************************)
(* What the match proposal phase promises, with no locks, attempts or      *)
(* Redis keys: a room opens for two users only after each of them asked to *)
(* connect with the other.                                                 *)
(***************************************************************************)
EXTENDS Naturals, Sequences

CONSTANT Users

VARIABLES
  agreed,   \* <<u, v>>: u asked to connect with v
  opened    \* the pairs rooms were opened for, oldest first

Init == agreed = {} /\ opened = << >>

Agree(u, v) ==
  /\ u # v
  /\ agreed' = agreed \cup {<<u, v>>}
  /\ UNCHANGED opened

Open(u, v) ==
  /\ {<<u, v>>, <<v, u>>} \subseteq agreed
  /\ opened' = Append(opened, {u, v})
  /\ UNCHANGED agreed

Next == \E u, v \in Users : Agree(u, v) \/ Open(u, v)

Spec == Init /\ [][Next]_<<agreed, opened>>

=============================================================================
