------------------------------ MODULE TurnFlow ------------------------------
(* The turn of a hosted match: refresh, draw, DON!!, main and end phase,   *)
(* the [End of Your Turn] effects between the last two, and every way a    *)
(* call moves a DON!! card.                                                *)
(*                                                                         *)
(* One action is one call of the host (local-match.ts): applyAction of the *)
(* engine and then the mandatory phases of autoAdvanceMandatoryTurnFlow.   *)
(* A card effect that asks its player something takes two calls; in the    *)
(* main phase the model takes them as one, at the answer.  In the end      *)
(* phase, where the answer decides who goes on, both calls are modelled.   *)
EXTENDS DonCards

CONSTANTS
    FirstPlayer,
    Leader,       \* the leader of each player
    Block,        \* the id of the [End of Your Turn] effect of a host, or NoBlock
    NoBlock,
    Asks,         \* the ids of the effects that ask for a target
    NoHost,
    DeckSize,     \* cards in a deck after the opening hand and life
    FieldLimit,   \* characters in a character area
    MaxReferences \* bound of the runs on references to one card in one list

ASSUME PlayersAssumption ==
    /\ FirstPlayer \in Player
    /\ \E other \in Player : Player = {FirstPlayer, other} /\ other # FirstPlayer
ASSUME DrawIsNoPlayer == "draw" \notin Player
ASSUME LeaderAssumption ==
    Leader \in [Player -> Host] /\ \A p \in Player : HostOwner[Leader[p]] = p
ASSUME NoHostAssumption == NoHost \notin Host
ASSUME SizesAssumption == DeckSize \in Nat \ {0} /\ FieldLimit \in Nat \ {0}

VARIABLE state

Phases == {"refresh", "draw", "don", "main", "end"}

NoDecision == [type |-> "none", entry |-> NoHost]
Decisions ==
    {NoDecision, [type |-> "chooseTriggerOrder", entry |-> NoHost]}
        \cup [type : {"selectTargets"}, entry : Host]

(* The field holds the characters of both players.  The effect queue holds *)
(* the entries of one end phase, each named by its source.                 *)
GameStates ==
    [status : {"setup", "active", "completed"},
     winner : Player \cup {"none", "draw"},
     phase : Phases,
     turnPlayer : Player,
     globalTurn : Nat,
     turnCount : [Player -> Nat],
     deck : [Player -> Nat],
     don : DonZones,
     field : SUBSET Host,
     pending : Decisions,
     queue : SUBSET Host]

SetupState ==
    [status |-> "setup", winner |-> "none", phase |-> "refresh",
     turnPlayer |-> FirstPlayer, globalTurn |-> 1,
     turnCount |-> [p \in Player |-> IF p = FirstPlayer THEN 1 ELSE 0],
     deck |-> [p \in Player |-> DeckSize],
     don |-> SetupDon, field |-> {}, pending |-> NoDecision, queue |-> {}]

Opponent(p) == CHOOSE q \in Player : q # p
Characters(s, p) == s.field \cap HostsOf(p)
OnField(s, p) == {Leader[p]} \cup Characters(s, p)
Draws(s, p) == [s EXCEPT !.deck[p] = IF @ = 0 THEN 0 ELSE @ - 1]

(* applyRuleProcessingCheckpoint: whoever has an empty deck loses. *)
Losers(s) == {p \in Player : s.deck[p] = 0}
FaultyCheckpoint(s) ==
    IF s.status = "completed" \/ s.deck[s.turnPlayer] > 0 THEN s
    ELSE [s EXCEPT !.status = "completed", !.winner = Opponent(s.turnPlayer)]
Checkpoint(s) ==
    IF s.status = "completed" \/ Losers(s) = {} THEN s
    ELSE [s EXCEPT !.status = "completed",
                   !.winner = IF Losers(s) = Player THEN "draw"
                              ELSE CHOOSE p \in Player : p \notin Losers(s)]

---------------------------------------------------------------------------
(* The effect queue of the end phase *)

(* queueEndOfYourTurnTriggers *)
EndOfTurnEntries(s) == {h \in OnField(s, s.turnPlayer) : Block[h] # NoBlock}

(* An entry leaves the queue by its id, which names the effect, not the    *)
(* card it is printed on.                                                  *)
Unqueued(s, e) == [s EXCEPT !.queue = {x \in @ : Block[x] # Block[e]}]

(* resolveQueueEntriesInOrder for one entry: it asks, or it draws. *)
FaultyResolveEntry(s, e) ==
    [s EXCEPT !.pending = [type |-> "selectTargets", entry |-> Block[e]]]
ResolveEntry(s, e) ==
    IF Block[e] \in Asks
    THEN [s EXCEPT !.pending = [type |-> "selectTargets", entry |-> e]]
    ELSE Checkpoint(Unqueued(Draws(s, s.turnPlayer), e))

(* continueRuntimeUntilIdle over processNoChoiceEffectQueue: the entries   *)
(* of one end phase are one group, and a group of two or more first asks   *)
(* which comes next, so at most one entry resolves before a stop.          *)
RunQueue(s) ==
    IF s.status # "active" \/ s.pending # NoDecision \/ s.queue = {} THEN s
    ELSE IF Cardinality(s.queue) > 1
    THEN [s EXCEPT !.pending = [type |-> "chooseTriggerOrder", entry |-> NoHost]]
    ELSE ResolveEntry(s, CHOOSE e \in s.queue : TRUE)

---------------------------------------------------------------------------
(* The mandatory phases *)

FirstTurn(s) == s.globalTurn = 1 /\ s.turnCount[s.turnPlayer] = 1

AdvanceRefreshPhase(s) ==
    Checkpoint([s EXCEPT !.don = RefreshDon(@, s.turnPlayer), !.phase = "draw"])

AdvanceDrawPhase(s) ==
    Checkpoint([(IF FirstTurn(s) THEN s ELSE Draws(s, s.turnPlayer))
                    EXCEPT !.phase = "don"])

AdvanceDonPhase(s, cards) ==
    Checkpoint([s EXCEPT !.don = PlaceDon(@, s.turnPlayer, cards, "active")])

(* enterMainPhase can also fail, where a continuous effect cannot be       *)
(* materialised; there are none here.                                      *)
EnterMainPhase(s) ==
    IF s.status # "active" THEN s
    ELSE IF s.queue # {} THEN RunQueue(s)
    ELSE Checkpoint([s EXCEPT !.phase = "main"])

(* advanceEndPhase asks neither for a live match nor for an empty queue. *)
AdvanceEndPhase(s) ==
    LET next == Opponent(s.turnPlayer)
    IN  Checkpoint([s EXCEPT !.turnPlayer = next,
                             !.turnCount[next] = @ + 1,
                             !.globalTurn = @ + 1,
                             !.phase = "refresh"])

Stops(s) ==
    s.status # "active" \/ s.pending # NoDecision \/ s.phase \in {"main", "end"}

AdvanceOnce(s, cards) ==
    CASE Stops(s) -> s
      [] ~Stops(s) /\ s.phase = "refresh" -> AdvanceRefreshPhase(s)
      [] ~Stops(s) /\ s.phase = "draw" -> AdvanceDrawPhase(s)
      [] ~Stops(s) /\ s.phase = "don" -> EnterMainPhase(AdvanceDonPhase(s, cards))

FaultyAdvanceToMain(s, cards) == AdvanceOnce(AdvanceOnce(s, cards), cards)
AdvanceToMain(s, cards) ==
    AdvanceOnce(AdvanceOnce(AdvanceOnce(AdvanceOnce(s, cards), cards), cards), cards)

(* The cards that the DON!! phase of this call may place. *)
Placements(s) ==
    IF Stops(s) THEN {{}}
    ELSE TopDon(s.don, s.turnPlayer, IF FirstTurn(s) THEN 1 ELSE 2)

(* The call ends: the engine left s, the host advances it. *)
Hosted(s) == \E cards \in Placements(s) : state' = AdvanceToMain(s, cards)

---------------------------------------------------------------------------
(* Calls *)

(* The second mulligan decision is answered. *)
StartMatch ==
    /\ state.status = "setup"
    /\ Hosted([state EXCEPT !.status = "active"])

(* The question is taken back; the queue stays as it is.                    *)
FaultyConcede(p) ==
    /\ state.status # "completed"
    /\ OneReference(state.don)
    /\ state' = [state EXCEPT !.status = "completed", !.winner = Opponent(p)]
Concede(p) ==
    /\ state.status # "completed"
    /\ OneReference(state.don)
    /\ state' = [state EXCEPT !.status = "completed", !.winner = Opponent(p),
                              !.pending = NoDecision]

InMain ==
    /\ state.status = "active"
    /\ state.phase = "main"
    /\ state.pending = NoDecision
    /\ state.queue = {}

GiveDon(h, d) ==
    /\ InMain
    /\ h \in OnField(state, state.turnPlayer)
    /\ d \in state.don.costArea[state.turnPlayer]
    /\ state.don.cardState[d] = "active"
    /\ OneReference(AttachDon(state.don, h, d))
    /\ state' = Checkpoint([state EXCEPT !.don = AttachDon(@, h, d)])

(* The character h is played for the paid cards; in a full area one        *)
(* character is trashed for it.                                            *)
PlayCharacter(h, paid, overflow) ==
    LET p == state.turnPlayer
        rested == WithState(state.don, paid, "rested")
    IN  /\ InMain
        /\ h \in HostsOf(p) \ OnField(state, p)
        /\ \A d \in paid : d \in state.don.costArea[p] /\ state.don.cardState[d] = "active"
        /\ IF Cardinality(Characters(state, p)) < FieldLimit
           THEN overflow = NoHost
           ELSE overflow \in Characters(state, p)
        /\ OneReference(state.don)
        /\ state' = [state EXCEPT
                       !.field = (@ \ {overflow}) \cup {h},
                       !.don = IF overflow = NoHost THEN rested
                               ELSE HostLeaves(rested, overflow)]

(* A DON!! card is a target of "rest" whatever its state, attached or not. *)
EffectRestsDon(d) ==
    /\ InMain
    /\ \E p \in Player : d \in state.don.costArea[p]
    /\ state' = [state EXCEPT !.don = WithState(@, {d}, "rested")]

(* ... and of "set as active" when its state is rested. *)
EffectActivatesDon(d) ==
    /\ InMain
    /\ \E p \in Player : d \in state.don.costArea[p]
    /\ state.don.cardState[d] = "rested"
    /\ state' = [state EXCEPT !.don = WithState(@, {d}, "active")]

(* "Give 1 rested DON!! card": this path runs no assertion. *)
EffectGivesDon(h, d) ==
    /\ InMain
    /\ h \in OnField(state, HostOwner[h])
    /\ d \in state.don.costArea[HostOwner[h]]
    /\ state.don.cardState[d] = "rested"
    /\ state.don.attachedDon[h][d] < MaxReferences
    /\ state' = [state EXCEPT !.don = AttachDon(@, h, d)]

EffectLocksDon(d) ==
    /\ InMain
    /\ \E p \in Player : d \in state.don.costArea[p]
    /\ state.don.cardState[d] = "rested"
    /\ state' = [state EXCEPT !.don.locked = @ \cup {d}]

EffectAddsDon(p, new) ==
    /\ InMain
    /\ \E cards \in TopDon(state.don, p, 1) :
         state' = [state EXCEPT !.don = PlaceDon(@, p, cards, new)]

EffectReturnsDon(p, d) ==
    /\ InMain
    /\ d \in ReturnableDon(state.don, p)
    /\ state' = [state EXCEPT !.don = ReturnDon(@, p, {d})]

CharacterLeaves(h) ==
    /\ InMain
    /\ h \in state.field
    /\ state' = [state EXCEPT !.field = @ \ {h}, !.don = HostLeaves(@, h)]

CharacterTrashedInstead(h) ==
    /\ InMain
    /\ h \in state.field
    /\ state' = [state EXCEPT !.field = @ \ {h}, !.don = HostTrashedInstead(@, h)]

EffectDraws(p) ==
    /\ InMain
    /\ state' = Checkpoint(Draws(state, p))

(* applyEndMainPhase: the end phase begins, its effects are queued and run *)
(* until they ask; when they ask nothing the turn is handed over.          *)
EndMainPhase ==
    LET ended == Checkpoint([state EXCEPT !.phase = "end"])
        ran == RunQueue([ended EXCEPT !.queue = EndOfTurnEntries(ended)])
    IN  /\ InMain
        /\ OneReference(state.don)
        /\ IF ended.status # "active" THEN state' = ended
           ELSE IF ran.pending # NoDecision THEN Hosted(ran)
           ELSE Hosted(AdvanceEndPhase(ran))

Answering(type) == state.status = "active" /\ state.pending.type = type

DistinctIds(entries) == \A e, f \in entries : Block[e] = Block[f] => e = f

(* The player names the next entry.  An answer is refused as stale when    *)
(* two entries share an id.  The decision was caused by a rule process, so *)
(* continueAfterEffectDecision does not go on to hand the turn over.       *)
ChooseTriggerOrder(e) ==
    /\ Answering("chooseTriggerOrder")
    /\ e \in state.queue
    /\ DistinctIds(state.queue)
    /\ Hosted(RunQueue(ResolveEntry([state EXCEPT !.pending = NoDecision], e)))

(* The player names up to one rested card of the cost area to set active;  *)
(* the queue goes on, and when it is empty the turn is handed over.        *)
SelectTargets(chosen) ==
    LET p == state.turnPlayer
        answered == [state EXCEPT !.pending = NoDecision,
                                  !.don = WithState(@, chosen, "active")]
        ran == RunQueue(Checkpoint(Unqueued(answered, state.pending.entry)))
    IN  /\ Answering("selectTargets")
        /\ Cardinality(chosen) <= 1
        /\ \A d \in chosen : d \in state.don.costArea[p] /\ state.don.cardState[d] = "rested"
        /\ IF ran.pending # NoDecision \/ ran.queue # {} THEN Hosted(ran)
           ELSE OneReference(ran.don) /\ Hosted(AdvanceEndPhase(ran))

---------------------------------------------------------------------------

Init == state = SetupState

Next ==
    \/ StartMatch
    \/ \E p \in Player : Concede(p)
    \/ \E h \in Host, d \in Don : GiveDon(h, d)
    \/ \E h \in Host, paid \in SUBSET Don, overflow \in Host \cup {NoHost} :
         PlayCharacter(h, paid, overflow)
    \/ \E d \in Don : EffectRestsDon(d)
    \/ \E d \in Don : EffectActivatesDon(d)
    \/ \E h \in Host, d \in Don : EffectGivesDon(h, d)
    \/ \E d \in Don : EffectLocksDon(d)
    \/ \E p \in Player, new \in {"active", "rested"} : EffectAddsDon(p, new)
    \/ \E p \in Player, d \in Don : EffectReturnsDon(p, d)
    \/ \E h \in Host : CharacterLeaves(h)
    \/ \E h \in Host : CharacterTrashedInstead(h)
    \/ \E p \in Player : EffectDraws(p)
    \/ EndMainPhase
    \/ \E e \in Host : ChooseTriggerOrder(e)
    \/ \E chosen \in SUBSET Don : SelectTargets(chosen)

Spec == Init /\ [][Next]_state
---------------------------------------------------------------------------
(* Properties *)

(* The state is made of the values its types name. *)
TypeOK == state \in GameStates

(* However cards are placed, paid, given, returned and refreshed, every    *)
(* DON!! card of a player is in that player's DON!! deck or cost area and  *)
(* not in both, and no host refers to a card outside its player's area:    *)
(* the operations that move a card by rewriting three records lose none.   *)
DonConserved == Conserved(state.don)

(* No call leaves a live match between its mandatory phases, where nobody  *)
(* has an action; and effect work is never left over in the main phase,    *)
(* where it would block every action, nor anywhere without a question.     *)
HandedOff ==
    state.status = "active" =>
        /\ state.phase \in {"main", "end"}
        /\ state.phase = "main" => state.queue = {} /\ state.pending = NoDecision
        /\ state.queue # {} => state.pending # NoDecision
        /\ state.pending.type = "selectTargets" => state.pending.entry \in state.queue

(* A deck that runs out ends the match in the same call, whichever phase,  *)
(* effect or player emptied it, and its owner does not win.                *)
EmptyDeckEnds ==
    \A p \in Player : state.deck[p] = 0 =>
        state.status = "completed" /\ state.winner # p

(* A player's turn begins, in the call that ended the other's, with every  *)
(* card ready but the locked ones, none on a host, one or two cards more   *)
(* from the DON!! deck and one card fewer in the deck but on the very      *)
(* first turn: also when a host left its cards without a state or a card   *)
(* was on two hosts before.                                                *)
BeginsTurn ==
    LET p == state'.turnPlayer
        don == state'.don
        first == state.status = "setup"
        before == state.don.donDeck[p]
        placed == before \ don.donDeck[p]
        most == IF first THEN 1 ELSE 2
    IN  /\ state'.phase = "main"
        /\ state'.turnCount[p] = IF first THEN 1 ELSE state.turnCount[p] + 1
        /\ don.donDeck[p] \subseteq before
        /\ Cardinality(placed) = IF Cardinality(before) < most
                                  THEN Cardinality(before) ELSE most
        /\ AttachedTo(don, HostsOf(p)) = {}
        /\ \A d \in don.costArea[p] \ state.don.locked : don.cardState[d] = "active"
        /\ state'.deck[p] = IF first THEN state.deck[p] ELSE state.deck[p] - 1

TurnsBeginWhole ==
    [][state'.status = "active"
         /\ (state.status = "setup" \/ state'.globalTurn # state.globalTurn)
       => BeginsTurn]_state

(* The end phase goes on to the next refresh phase unless it waits for an  *)
(* answer (specs/02-engine-mechanics.md, End Phase, step 5).               *)
EndPhaseProceeds ==
    state.status = "active" /\ state.phase = "end" => state.pending # NoDecision

(* A question about the next effect has an answer that is accepted         *)
(* (assertPendingDecisionHasLegalResponses of the specification).          *)
TriggerOrderAnswerable ==
    state.pending.type = "chooseTriggerOrder" => DistinctIds(state.queue)

(* An attached DON!! card has exactly one host (cards.exactlyOneLocation). *)
AttachedOnce == OneReference(state.don)
===========================================================================
