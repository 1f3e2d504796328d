---------------------------- MODULE MCNativeTurn ----------------------------
EXTENDS NativeTurn, TLC

CONSTANTS t1, s1, n1, n2, c1, c2

OneTable == {t1}
OneSession == {s1}
TwoNames == {n1, n2}
TwoClients == {c1, c2}
Interchangeable == Permutations({n1, n2}) \cup Permutations({c1, c2})
=============================================================================
