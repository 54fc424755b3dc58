------------------------------ MODULE MCBattle ------------------------------
(* The first player has two DON!! cards, a leader and one character; the   *)
(* other has one DON!! card, a leader and three characters of which two    *)
(* fit its area, so that references to its cards go stale and its area     *)
(* overflows.                                                              *)
EXTENDS HostedTurns, TLC

CONSTANTS p1, p2, d1, d2, e1, l1, c1, l2, b1, b2, b3, block1, block2

MCPlayer == {p1, p2}
MCDon == {d1, d2, e1}
MCDonOf == (p1 :> {d1, d2}) @@ (p2 :> {e1})
MCHost == {l1, c1, l2, b1, b2, b3}
MCHostOwner == [h \in MCHost |-> IF h \in {l1, c1} THEN p1 ELSE p2]
MCLeader == (p1 :> l1) @@ (p2 :> l2)
MCBlock == (l1 :> block1) @@ (c1 :> block2) @@ [h \in {l2, b1, b2, b3} |-> NoBlock]
MCSymmetry == Permutations({d1, d2}) \cup Permutations({b1, b2, b3})

(* The product of DON!! cards and battles is explored from its two sides:  *)
(* every placement of DON!! cards before p2 has characters or an attack is *)
(* declared; and every battle with at most e1 rested or on a character and *)
(* at most three cards rested, the participants of a blocked attack.       *)
BeforeBattles ==
    /\ state.field \cap {b1, b2, b3} = {}
    /\ battle = NoBattle /\ ask = "none"
    /\ rested = {}
    /\ life = [p \in MCPlayer |-> LifeSize]
    /\ e1 \notin state.don.locked  \* locks are followed with the cards of p1

DonAsDealt ==
    /\ state.don.locked = {}
    /\ Cardinality(state.don.donDeck[p1]) = 2 - state.turnCount[p1]
    /\ Cardinality(state.don.donDeck[p2]) = 1 - state.turnCount[p2]
    /\ \A d \in state.don.costArea[p1] : state.don.cardState[d] = "active"
    /\ e1 \notin AttachedTo(state.don, {l2})
FewRested == Cardinality(rested) <= IF battle = NoBattle THEN 2 ELSE 3

TwoSides == BeforeBattles \/ (DonAsDealt /\ FewRested)
=============================================================================
