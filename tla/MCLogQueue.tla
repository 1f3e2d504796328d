----------------------------- MODULE MCLogQueue -----------------------------
(* An instance of LogQueue for TLC. *)
EXTENDS LogQueue

CONSTANTS s1, s2

TwoSenders == {s1, s2}
=============================================================================
