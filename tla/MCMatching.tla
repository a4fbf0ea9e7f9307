----------------------------- MODULE MCMatching -----------------------------
(* Constants of the TLC instances of Matching.                              *)
EXTENDS MatchingProperties, TLC

\* Call slots and workers are interchangeable; user ids are ordered and are not.
Slots == Permutations(Calls) \cup Permutations(Workers)
Everyone == Pairs
WithUser1 == {p \in Pairs : 1 \in p}

\* Bounds the search for the counterexample of MatchingStaleTeardown.
User3SearchesOnce == \A c \in Calls : call[c].att # <<3, 2>>

=============================================================================
