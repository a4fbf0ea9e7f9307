------------------------------ MODULE MCServer ------------------------------
(***************************************************************************)
(* The instances of the API server's calls and spaces and of the media     *)
(* service that TLC checks. They share the accounts and no state, and each *)
(* property is about one of them, so that a behaviour of the whole is      *)
(* judged by its parts: in a behaviour here only one of them moves.        *)
(***************************************************************************)
EXTENDS ConnectionCallProperties, MCSpaces, MediaRoomProperties

VARIABLE focus   \* the component that moves

ServerInit ==
  /\ CallInit /\ SpaceInit /\ MediaInit
  /\ focus \in {"calls", "spaces", "media"}

ServerNext ==
  /\ UNCHANGED focus
  /\ \/ focus = "calls" /\ CallNext /\ UNCHANGED <<spaceVars, mediaVars>>
     \/ focus = "spaces" /\ SpaceNext /\ UNCHANGED <<callVars, mediaVars>>
     \/ focus = "media" /\ MediaNext /\ UNCHANGED <<callVars, spaceVars>>

ServerSpec == ServerInit /\ [][ServerNext]_<<callVars, spaceVars, mediaVars, focus>>

\* Nothing that is asked of a component is enabled before it has moved.
ServerFairSpec == ServerSpec /\ CallFairness /\ SpaceFairness /\ MediaFairness

\* The components never meet, so they may share names, and one permutation of
\* the names serves them all.
Slots == UNION {Permutations(S) : S \in {Users, Requests, Handlers, Instances}}

=============================================================================
