---------------------------- MODULE MCTaskGroup ----------------------------
(* A session, a group under it, and a call under the group with a deadline. *)
EXTENDS TaskGroup
CONSTANTS s, g, c, a, b
MCLineage == [t \in Tokens |-> IF t = s THEN <<s>> ELSE IF t = g THEN <<g, s>> ELSE <<c, g, s>>]
MCDue == [t \in Tokens |-> IF t = c THEN {1} ELSE {}]
MCTokenOf == [r \in Racers |-> IF r = a THEN c ELSE g]
=============================================================================
