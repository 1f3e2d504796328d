--------------------------- MODULE MCSessionClaims ---------------------------
(***************************************************************************)
(* SessionClaims for TLC: two sessions at a time, and the names they come  *)
(* to.                                                                     *)
(***************************************************************************)
EXTENDS SessionClaims, TLC

ThreeIds == 1 .. 3
Alike == Permutations(Runs)
=============================================================================
