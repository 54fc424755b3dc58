--------------------------- MODULE MCLocalMatch ---------------------------
(* A small match for TLC: two players, one timer value. *)
EXTENDS LocalMatch, TLC

CONSTANTS p1, p2

MCPlayer == {p1, p2}
PlayerSymmetry == Permutations(MCPlayer)
===========================================================================
