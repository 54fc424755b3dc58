---------------------------- MODULE HostedTurns ----------------------------
(* The turn flow and its battles as the host of the match sees them: one   *)
(* call of the engine is one outcome of LocalMatch, where the rules are    *)
(* left open (EngineOutcomes).                                             *)
EXTENDS Battle

(* Only what LocalMatch says of the engine is used, which does not depend  *)
(* on the host's own state and settings.                                   *)
Hosting == INSTANCE LocalMatch WITH
    RollbackEnabled <- FALSE, MaxPoints <- 0, SeqSteps <- {1}, MaxSeq <- 0,
    Timers <- {0}, InitTimers <- 0, points <- {}, request <- {}, abandoned <- {}

(* state.pendingDecision is set: setup asks for a mulligan, an end phase   *)
(* and a battle ask as their modules say.                                  *)
Waits == state.status = "setup" \/ state.pending # NoDecision \/ ask # "none"

(* Who has an action besides conceding: whose main phase it is can end it. *)
Holders ==
    IF /\ state.status = "active" /\ state.phase = "main"
       /\ ~Waits /\ battle = NoBattle
    THEN {state.turnPlayer}
    ELSE {}

(* What the host reads of the state when it waits for q, if for anyone.    *)
(* Only a completed status has a winner.                                   *)
Winner == IF state.status = "completed" THEN state.winner ELSE Hosting!NoWinner
Outcome(q) ==
    [status |-> state.status, winner |-> Winner, holders |-> Holders,
     pending |-> IF Waits THEN Hosting!EngineDecision(q, 0)
                 ELSE Hosting!NoDecision]

---------------------------------------------------------------------------
(* Properties *)

(* A concession, in whatever question it comes, leaves nothing to answer   *)
(* and is won by the other player.                                         *)
Conceded(p) ==
    [status |-> "completed", winner |-> Hosting!Other(p), holders |-> {},
     pending |-> Hosting!NoDecision]

(* Either the concession of one player, or a call that was none.           *)
Foreseen ==
    \/ \E p, q \in Player : Outcome(q)' = Conceded(p) /\ Concede(p)
    \/ /\ state'.status = "completed" => ~\E p \in Player : Concede(p)
       /\ \E q \in Player :
             Outcome(q)' \in Hosting!EngineOutcomes(
                 [status |-> state.status, winner |-> Winner, seq |-> 0])

(* No call surprises the host, which knows no rules: the mulligans end in  *)
(* a live match, a live match goes on, asks, or ends with a result, and a  *)
(* concession is what the host takes it for.                               *)
CallsForeseen == [][Foreseen]_<<state.status, Winner, Holders, Waits>>
=============================================================================
