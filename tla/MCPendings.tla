---------------------------- MODULE MCPendings ----------------------------
(* An instance of Pendings for TLC. *)
EXTENDS Pendings, TLC

CONSTANTS t1, t2, s1, n1, n2

TwoTables == {t1, t2}
OneSession == {s1}
TwoNames == {n1, n2}
Interchangeable == Permutations(TwoTables) \union Permutations(TwoNames)
=============================================================================
