------------------------- MODULE MCMicrosoftSignIn -------------------------
(* Two sessions, one SSO state, two handlers in flight.  A token outlives    *)
(* the age of a session that got it late, and lapses in one that got it at   *)
(* once.                                                                    *)
EXTENDS MicrosoftSignIn, TLC
MCLifetimes == {2}
Symmetry == Permutations(Ids) \cup Permutations(Callers)
=============================================================================
