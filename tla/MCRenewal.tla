----------------------------- MODULE MCRenewal -----------------------------
EXTENDS Renewal, TLC

CONSTANTS p, q, x, y, z, u, v, w

TwoProcesses == {p, q}
(* Two names of one provider, and one of another. *)
ThreeNames == {x, y, z}
TwoOfOne == x :> 1 @@ y :> 1 @@ z :> 2
(* Two credentials of one account in one process, and one in another. *)
Credentials == {u, v, w}
TwoAndOne == u :> <<p, x>> @@ v :> <<p, x>> @@ w :> <<q, x>>
Both == {1, 2}
SameAccount == Permutations({u, v})
=============================================================================
