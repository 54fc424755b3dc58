------------------------------- MODULE Battle -------------------------------
(* The battles of a main phase, over TurnFlow: declaration, block, counter *)
(* and damage, life triggers, and the effects that interrupt them.         *)
(*                                                                         *)
(* A call runs until it must ask; `ask` is what the engine then waits for. *)
(* Power, hands and card texts decide which outcome a step has and are     *)
(* left out: every outcome is possible.  An effect in a battle removes a   *)
(* character, turns a card, draws, or does nothing a battle notices; it    *)
(* may ask first, and again at its answer.  An effect that a counter event *)
(* has besides its power is taken as a call of its own, after the event's. *)
(* Not followed: effects that bring a card into play or move life cards,   *)
(* and answers to a question that is left in a completed match.            *)
EXTENDS TurnFlow

CONSTANTS
    LifeSize,  \* life cards of each player after setup
    Rush,      \* characters that may attack in the turn they are played
    Blocker    \* characters with [Blocker]

ASSUME LifeAssumption == LifeSize \in Nat
ASSUME KeywordsAssumption == Rush \subseteq Host /\ Blocker \subseteq Host

VARIABLES
    battle,  \* state.battle
    ask,     \* the pending decision of a battle or of an effect in it
    life,    \* number of life cards of each player
    rested,  \* leaders and characters that are rested
    fresh,   \* characters played in this turn
    ahead    \* for each character, those before it in its character area

battleVars == <<state, battle, ask, life, rested, fresh, ahead>>

Leaders == {Leader[p] : p \in Player}

(* A card reference names a card and its index in the character area.  A   *)
(* character joins at the end, so its index is the same as long as the     *)
(* same cards are ahead of it.                                             *)
Ref == [card : Host, ahead : SUBSET Host]
RefTo(h) == [card |-> h, ahead |-> ahead[h]]

NoBattle == [step |-> "none"]
Battles ==
    [step : {"attack", "block", "counter"}, attacker : Ref, target : Ref,
     blocked : BOOLEAN,
     damage : {1, 2},   \* damageCount
     owed : BOOLEAN]    \* damageProcess: the second point waits for an answer

Question == {"none", "effect", "block", "counter", "payCost", "replacement", "trigger"}

(* reifyCardRef, in the field that a call finds or leaves *)
Stands(ref, field, places) ==
    ref.card \in field \cup Leaders /\ ref.ahead = places[ref.card]

BothStand(b, field, places) ==
    Stands(b.attacker, field, places) /\ Stands(b.target, field, places)

Defender(b) == HostOwner[b.target.card]

---------------------------------------------------------------------------
(* The field *)

(* The area closes up behind a character that leaves; the refresh phase    *)
(* readies the cards of the player whose turn begins.  `turned` are the    *)
(* rested cards when nobody leaves and no turn begins.                     *)
FieldFollows(turned) ==
    /\ ahead' = [h \in Host |->
           IF h \notin state'.field THEN {}
           ELSE IF h \in state.field THEN ahead[h] \cap state'.field
           ELSE Characters(state', HostOwner[h]) \ {h}]
    /\ rested' = {h \in turned :
           /\ h \in state'.field \cup Leaders
           /\ state'.globalTurn # state.globalTurn => HostOwner[h] # state'.turnPlayer}
    /\ fresh' = IF state'.globalTurn # state.globalTurn THEN {}
                ELSE (fresh \cap state'.field) \cup (state'.field \ state.field)

(* An effect turns at most one card, removes one, or draws. *)
Effect(turned) ==
    \/ /\ UNCHANGED state
       /\ \/ FieldFollows(turned)
          \/ \E h \in state.field \cup Leaders :
               FieldFollows(IF h \in turned THEN turned \ {h} ELSE turned \cup {h})
    \/ /\ \/ \E h \in Host : CharacterLeaves(h) \/ CharacterTrashedInstead(h)
          \/ \E p \in Player : EffectDraws(p)
       /\ FieldFollows(turned)

NoEffect == UNCHANGED state /\ FieldFollows(rested)

---------------------------------------------------------------------------
(* How a battle goes on.  These read the state as the call leaves it.      *)

FaultyEndBattle(what) == UNCHANGED battle /\ ask' = what
EndBattle(what) == battle' = NoBattle /\ ask' = what

EnterCounterStep(b) == battle' = [b EXCEPT !.step = "counter"] /\ ask' = "counter"

EffectAsks(b) == state'.status = "active" /\ battle' = b /\ ask' = "effect"

(* A match that an effect has ended keeps its battle and asks nothing. *)
Ended(b) == state'.status # "active" /\ battle' = b /\ ask' = "none"

BlockersOf(p) == {h \in state'.field \cap Blocker : HostOwner[h] = p /\ h \notin rested'}

OfferBlock(b) ==
    /\ BlockersOf(Defender(b)) # {}
    /\ battle' = [b EXCEPT !.step = "block"]
    /\ ask' = "block"

(* After the attack timing: the battle is dropped when a participant has   *)
(* moved; a block is offered unless it is forbidden.                       *)
FaultyAttackGoesOn(b) ==
    Ended(b) \/ (state'.status = "active" /\ (OfferBlock(b) \/ EnterCounterStep(b)))
AttackGoesOn(b) ==
    \/ Ended(b)
    \/ /\ state'.status = "active"
       /\ IF BothStand(b, state'.field, ahead')
          THEN OfferBlock(b) \/ EnterCounterStep(b)
          ELSE EndBattle("none")

(* After a block or in the counter step the code does not drop the battle: *)
(* it refuses the call that would move a participant.                      *)
BattleGoesOn(b) == BothStand(b, state'.field, ahead') /\ EnterCounterStep(b)

---------------------------------------------------------------------------
(* Damage *)

(* The attacker is weaker: nothing happens. *)
Repelled == UNCHANGED life /\ EndBattle("none")

(* Life is left.  A banishing attacker deals all its damage at once; else  *)
(* the battle ends with the question about the last card taken.            *)
FaultyLeaderHit(b) ==
    /\ b.target.card \in Leaders
    /\ life' = [life EXCEPT ![Defender(b)] = @ - b.damage]
    /\ EndBattle("none")
LeaderHit(b) ==
    LET p == Defender(b)
    IN  /\ b.target.card \in Leaders
        /\ \/ /\ life[p] >= b.damage
              /\ life' = [life EXCEPT ![p] = @ - b.damage]
              /\ EndBattle("none")
           \/ /\ life[p] > 0
              /\ life' = [life EXCEPT ![p] = @ - 1]
              /\ IF b.damage = 1 THEN EndBattle("trigger")
                 ELSE /\ battle' = [b EXCEPT !.damage = 1, !.owed = TRUE]
                      /\ ask' = "trigger"

(* A point of damage finds no life. *)
FaultyLeaderFalls(b) ==
    LET p == Defender(b)
    IN  /\ b.target.card \in Leaders
        /\ life[p] <= b.damage
        /\ life' = [life EXCEPT ![p] = 0]
        /\ Concede(p) /\ FieldFollows(rested)
        /\ EndBattle("none")
LeaderFalls(b) ==
    LET p == Defender(b)
    IN  /\ b.target.card \in Leaders
        /\ life[p] < b.damage
        /\ life' = [life EXCEPT ![p] = 0]
        /\ Concede(p) /\ FieldFollows(rested)
        /\ EndBattle("none")

KnockOut(h) ==
    /\ CharacterLeaves(h) /\ FieldFollows(rested)
    /\ EndBattle("none") \/ EndBattle("effect")
    /\ UNCHANGED life

---------------------------------------------------------------------------
(* Calls *)

Asked(question) == state.status = "active" /\ ask = question

DeclareAttack(a, t, damage) ==
    LET p == state.turnPlayer
        declared == [step |-> "attack", attacker |-> RefTo(a), target |-> RefTo(t),
                     blocked |-> FALSE, damage |-> damage, owed |-> FALSE]
    IN  /\ InMain
        /\ battle = NoBattle /\ ask = "none"
        /\ a \in OnField(state, p) \ rested
        /\ a \in fresh => a \in Rush
        /\ state.turnCount[p] # 1
        /\ t = Leader[Opponent(p)] \/ t \in Characters(state, Opponent(p)) \cap rested
        /\ damage = 2 => t \in Leaders
        /\ OneReference(state.don)
        /\ Effect(rested \cup {a})
        /\ EffectAsks(declared) \/ AttackGoesOn(declared)
        /\ UNCHANGED life

(* A block whose effect asks nothing goes on to the counter step also when *)
(* the effect has ended the match.                                         *)
BlockWith(h) ==
    LET blocked == [battle EXCEPT !.step = "block", !.target = RefTo(h),
                                  !.blocked = TRUE, !.damage = 1]
    IN  /\ Asked("block")
        /\ h \in Characters(state, Defender(battle)) \cap Blocker
        /\ h \notin rested \cup Leaders
        /\ Effect(rested \cup {h})
        /\ EffectAsks(blocked) \/ BattleGoesOn(blocked)
        /\ UNCHANGED life

DeclineBlock ==
    /\ Asked("block")
    /\ NoEffect /\ BattleGoesOn(battle)
    /\ UNCHANGED life

(* A counter is used on a leader or a rested character.  Counters of       *)
(* characters change nothing but power.                                    *)
UseCounterEvent ==
    /\ Asked("counter")
    /\ battle.target.card \in Leaders \cup rested
    /\ \/ NoEffect /\ battle' = battle /\ ask' = "payCost"
       \/ /\ Effect(rested)
          /\ EffectAsks(battle) \/ Ended(battle)
               \/ (state'.status = "active" /\ BattleGoesOn(battle))
    /\ UNCHANGED life

(* The cost is a DON!! card of the defender, or paid from the hand. *)
PayCounter ==
    /\ Asked("payCost")
    /\ \/ UNCHANGED state
       \/ \E d \in state.don.costArea[Defender(battle)] :
            state.don.cardState[d] = "active" /\ EffectRestsDon(d)
    /\ FieldFollows(rested)
    /\ EffectAsks(battle) \/ BattleGoesOn(battle)
    /\ UNCHANGED life

(* The counter step is passed and the damage step runs. *)
Pass ==
    LET t == battle.target.card
    IN  /\ Asked("counter")
        /\ \/ NoEffect /\ (Repelled \/ LeaderHit(battle))
           \/ LeaderFalls(battle)
           \/ t \in rested \ Leaders /\ KnockOut(t)
           \/ /\ t \in rested \ Leaders
              /\ NoEffect /\ battle' = battle /\ ask' = "replacement"
              /\ UNCHANGED life

(* The defender, or an effect, replaces the K.O. or lets it happen. *)
AnswerReplacement ==
    /\ Asked("replacement")
    /\ \/ KnockOut(battle.target.card)
       \/ Effect(rested) /\ EndBattle("none") /\ UNCHANGED life
       \/ NoEffect /\ UNCHANGED <<battle, ask, life>>

(* The card taken is added to the hand; the second point follows. *)
AddToHand ==
    /\ Asked("trigger")
    /\ IF battle = NoBattle
       THEN NoEffect /\ (EndBattle("none") \/ EndBattle("effect")) /\ UNCHANGED life
       ELSE (NoEffect /\ (Repelled \/ LeaderHit(battle))) \/ LeaderFalls(battle)

(* Its trigger is activated.  With a second point to come its effect may   *)
(* neither ask nor move a participant, and the point follows even in a     *)
(* match that the effect has ended.  What else an effect did right before  *)
(* the second point ends the match is not followed.                        *)
ActivateTrigger ==
    /\ Asked("trigger")
    /\ IF battle = NoBattle
       THEN /\ Effect(rested)
            /\ EffectAsks(NoBattle) \/ EndBattle("none")
            /\ UNCHANGED life
       ELSE \/ /\ Effect(rested)
               /\ BothStand(battle, state'.field, ahead')
               /\ \/ Repelled \/ LeaderHit(battle)
                  \/ life[Defender(battle)] = 0 /\ state'.status # "active" /\ Repelled
            \/ LeaderFalls(battle)

(* An effect is answered: it asks again, or what it interrupted goes on.   *)
AnswerEffect ==
    /\ Asked("effect")
    /\ Effect(rested)
    /\ \/ EffectAsks(battle)
       \/ battle = NoBattle /\ EndBattle("none")
       \/ battle.step = "attack" /\ AttackGoesOn(battle)
       \/ /\ battle.step \in {"block", "counter"}
          /\ Ended(battle) \/ (state'.status = "active" /\ BattleGoesOn(battle))
    /\ UNCHANGED life

ConcedeInBattle(p) ==
    /\ battle # NoBattle \/ ask # "none"
    /\ Concede(p) /\ FieldFollows(rested)
    /\ ask' = "none"
    /\ UNCHANGED <<battle, life>>

(* Every other call, when nothing of a battle is open. *)
TurnStep ==
    /\ battle = NoBattle /\ ask = "none"
    /\ Next /\ FieldFollows(rested)
    /\ UNCHANGED <<battle, ask, life>>

---------------------------------------------------------------------------

BattleInit ==
    /\ Init
    /\ battle = NoBattle /\ ask = "none"
    /\ life = [p \in Player |-> LifeSize]
    /\ rested = {} /\ fresh = {}
    /\ ahead = [h \in Host |-> {}]

BattleNext ==
    \/ TurnStep
    \/ \E a, t \in Host, damage \in {1, 2} : DeclareAttack(a, t, damage)
    \/ \E h \in Host : BlockWith(h)
    \/ DeclineBlock
    \/ UseCounterEvent
    \/ PayCounter
    \/ Pass
    \/ AnswerReplacement
    \/ AddToHand
    \/ ActivateTrigger
    \/ AnswerEffect
    \/ \E p \in Player : ConcedeInBattle(p)

BattleSpec == BattleInit /\ [][BattleNext]_battleVars
---------------------------------------------------------------------------
(* Properties *)

(* The variables have their types; what is rested or fresh is in play. *)
BattleTypeOK ==
    /\ battle \in Battles \cup {NoBattle}
    /\ ask \in Question
    /\ life \in [Player -> 0..LifeSize]
    /\ rested \subseteq state.field \cup Leaders
    /\ fresh \subseteq state.field
    /\ ahead \in [Host -> SUBSET Host]

(* The engine asks for a block, a counter, its cost, a replacement or a    *)
(* trigger only while the references of the battle still name the cards    *)
(* that fight: answers read them, so a card removed by an effect at any    *)
(* earlier step must have dropped the battle or been refused.              *)
AskedOfStanding ==
    battle # NoBattle /\ ask \notin {"none", "effect"} =>
        BothStand(battle, state.field, ahead)

(* A battle of a live match is never stranded: something is asked, in the  *)
(* main phase, of a battle between a card of the turn player and one of    *)
(* the opponent, in the step the question belongs to; and no question      *)
(* outlives a match but one whose effect drew the last card.               *)
BattlesAsk ==
    /\ battle # NoBattle =>
         /\ HostOwner[battle.attacker.card] = state.turnPlayer
         /\ Defender(battle) # state.turnPlayer
         /\ state.status = "active" => InMain /\ ask # "none"
         /\ battle.damage = 2 \/ battle.owed =>
              battle.target.card \in Leaders /\ ~battle.blocked
    /\ ask = "block" => battle.step = "block" /\ ~battle.blocked
    /\ ask \in {"counter", "payCost", "replacement"} => battle.step = "counter"
    /\ ask = "trigger" /\ battle # NoBattle => battle.owed /\ battle.damage = 1
    /\ ask # "none" =>
         state.status = "active" \/ \E p \in Player : state.deck[p] = 0

(* Life falls only to the damage of an unblocked attack on its owner's     *)
(* leader, never by more than the points that are left; and a battle ends  *)
(* a match only when those points exceed the life, against its owner.      *)
PaidInLife ==
    LET p == Defender(battle)
        open == battle # NoBattle /\ ask \in {"counter", "trigger"}
    IN  /\ life' # life =>
             /\ open /\ battle.target.card = Leader[p] /\ ~battle.blocked
             /\ life' = [life EXCEPT ![p] = life'[p]]
             /\ life'[p] < life[p] /\ life[p] - life'[p] <= battle.damage
        /\ battle # NoBattle /\ battle' = NoBattle
             /\ state'.status = "completed" /\ Losers(state') = {} =>
             /\ open /\ battle.target.card = Leader[p] /\ ~battle.blocked
             /\ life[p] < battle.damage /\ life'[p] = 0
             /\ state'.winner = HostOwner[battle.attacker.card]

(* Every step of a battle, or outside of one, pays in life as PaidInLife   *)
(* says.                                                                   *)
DamageIsPaidInLife == [][PaidInLife]_battleVars
=============================================================================
