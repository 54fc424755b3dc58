------------------------------ MODULE MCLobby ------------------------------
(* Two accounts, one of which may submit a second deck; two requests that  *)
(* overlap.                                                                *)
EXTENDS Lobby

CONSTANTS acc1, acc2, d1, d2, c1, c2

MCAccount == {acc1, acc2}
MCDeck == {d1, d2}
MCCaller == {c1, c2}
MCPlayerOrder == <<"p1", "p2">>
MCSubmits == [x \in MCAccount |-> IF x = acc1 THEN MCDeck ELSE {d1}]
===========================================================================
