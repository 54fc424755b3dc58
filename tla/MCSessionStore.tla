-------------------------- MODULE MCSessionStore --------------------------
(* Two callers that may overlap, two servers that recover. *)
EXTENDS SessionStore, TLC

CONSTANTS c1, c2, s1, s2

MCCaller == {c1, c2}
MCServer == {s1, s2}
MCKindOf == <<"action", "decision", "action">>
StoreSymmetry == Permutations(MCCaller) \cup Permutations(MCServer)
===========================================================================
