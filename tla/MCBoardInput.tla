---------------------------- MODULE MCBoardInput ----------------------------
(* A knob with eight positions.  It turns by one position or two, each to   *)
(* one side, or by more than an event holds.                                *)
EXTENDS BoardInput

MCTurns == {-3, -2, 0, 1, 3}
=============================================================================
