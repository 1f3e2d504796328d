---------------------------- MODULE MCActivation ----------------------------
EXTENDS Activation, TLC

CONSTANTS a, b

Names == {a, b}
Numbers == {1, 2, 3}
AnyOrder == Permutations(Names)
=============================================================================
