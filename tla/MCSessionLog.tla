--------------------------- MODULE MCSessionLog ---------------------------
(* Instances of SessionLog for TLC. *)
EXTENDS SessionLog, TLC

CONSTANTS c1, c2

OneCall == {c1}
TwoCalls == {c1, c2}
Interchangeable == Permutations(TwoCalls)

NoFaults == {}
FragmentOnly == {"fragment"}
AllFaults == FaultKinds
=============================================================================
