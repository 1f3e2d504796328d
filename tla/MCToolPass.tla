----------------------------- MODULE MCToolPass -----------------------------
(* Three calls: all free of each other, or two with one key and one that     *)
(* runs on its own.                                                          *)
EXTENDS ToolPass
MCPlans == {<<"parallel", "parallel", "parallel">>, <<"disk", "disk", "sequential">>}
=============================================================================
