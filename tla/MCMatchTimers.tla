--------------------------- MODULE MCMatchTimers ---------------------------
(* Two players, two ticks of game clock and one or two of grace. *)
EXTENDS MatchTimers, TLC

CONSTANTS p1, p2

MCPlayer == {p1, p2}
===========================================================================
