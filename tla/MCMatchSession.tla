-------------------------- MODULE MCMatchSession --------------------------
(* Two players with two client action ids each. *)
EXTENDS MatchSession, TLC

CONSTANTS p1, p2, a1, a2

MCPlayer == {p1, p2}
MCActionId == {a1, a2}
MCSentRequests ==
    [type : {"submitAction"}, choice : {"play", "advance", "concede", "deny"}]
    \cup [type : {"respondToDecision"}, decision : {0}, choice : {"play"}]
    \cup [type : {"respondToDecision"}, decision : {2}, choice : {"allow"}]
    \cup [type : {"requestRollback"}, point : {1}]
    \cup [type : {"cancelRollback"}]
SessionSymmetry == Permutations(MCPlayer) \cup Permutations(MCActionId)
===========================================================================
