----------------------------- MODULE MCTurnFlow -----------------------------
(* One player with two DON!! cards, a leader and two characters of one     *)
(* card; the other with one DON!! card and a leader alone.                 *)
EXTENDS TurnFlow, TLC

CONSTANTS p1, p2, d1, d2, e1, l1, c1, c2, l2, block1, block2

MCPlayer == {p1, p2}
MCDon == {d1, d2, e1}
MCDonOf == (p1 :> {d1, d2}) @@ (p2 :> {e1})
MCHost == {l1, c1, c2, l2}
MCHostOwner == [h \in MCHost |-> IF h = l2 THEN p2 ELSE p1]
MCLeader == (p1 :> l1) @@ (p2 :> l2)
MCBlock == (l1 :> block1) @@ (c1 :> block2) @@ (c2 :> block2) @@ (l2 :> NoBlock)
MCSymmetry == Permutations({d1, d2}) \cup Permutations({c1, c2})
=============================================================================
