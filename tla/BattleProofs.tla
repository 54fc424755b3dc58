---------------------------- MODULE BattleProofs ----------------------------
(* Proofs about Battle: whatever happens in a battle is a step of the turn *)
(* it belongs to, a question is asked only of cards that still stand, and  *)
(* damage is paid in life.                                                 *)
EXTENDS Battle, TurnFlowProofs

---------------------------------------------------------------------------
(* The invariant *)

Places ==
    \A h \in Host : ahead[h] \subseteq state.field /\ (h \notin state.field => ahead[h] = {})

Fought(b, s) ==
    /\ b \in Battles
    /\ HostOwner[b.attacker.card] = s.turnPlayer
    /\ Defender(b) # s.turnPlayer
    /\ b.step = "attack" => ~b.blocked
    /\ b.step # "counter" => ~b.owed
    /\ b.blocked => b.target.card \notin Leaders
    /\ b.damage = 2 \/ b.owed => b.target.card \in Leaders

QuestionFits(b, question) ==
    /\ question = "block" => b.step = "block" /\ ~b.blocked
    /\ question \in {"counter", "payCost", "replacement"} => b.step = "counter"
    /\ question = "trigger" /\ b # NoBattle => b.owed /\ b.damage = 1

BInv ==
    /\ BattleTypeOK
    /\ Places
    /\ battle # NoBattle => Fought(battle, state)
    /\ battle # NoBattle /\ state.status = "active" => InMain /\ ask # "none"
    /\ AskedOfStanding
    /\ QuestionFits(battle, ask)
    /\ ask # "none" => state.status = "active" \/ Losers(state) # {}

\* What the properties say follows from the invariant.
LEMMA BInvOK ==
  ASSUME BInv
  PROVE  BattleTypeOK /\ AskedOfStanding /\ BattlesAsk
<1>1. ask # "none" => state.status = "active" \/ \E p \in Player : state.deck[p] = 0
  BY DEF BInv, Losers
<1>2. battle # NoBattle /\ (battle.damage = 2 \/ battle.owed) =>
        battle.target.card \in Leaders /\ ~battle.blocked
  BY DEF BInv, Fought, Battles
<1>3. QED
  BY <1>1, <1>2 DEF BInv, BattlesAsk, Fought, QuestionFits

LEMMA LeaderOK ==
  ASSUME NEW b \in Battles, b.target.card \in Leaders
  PROVE  /\ Defender(b) \in Player
         /\ b.target.card = Leader[Defender(b)]
BY LeaderAssumption, HostOwnerAssumption DEF Leaders, Defender, Battles, Ref

---------------------------------------------------------------------------
(* Effects and the field *)

\* The field follows the state whatever was turned.
LEMMA FieldFollowsOK ==
  ASSUME state.field \subseteq Host, state'.field \subseteq Host, Places,
         fresh \subseteq state.field,
         NEW turned, FieldFollows(turned)
  PROVE  /\ rested' \subseteq state'.field \cup Leaders
         /\ fresh' \subseteq state'.field
         /\ ahead' \in [Host -> SUBSET Host]
         /\ Places'
<1>1. ahead' = [h \in Host |->
           IF h \notin state'.field THEN {}
           ELSE IF h \in state.field THEN ahead[h] \cap state'.field
           ELSE Characters(state', HostOwner[h]) \ {h}]
  BY DEF FieldFollows
<1>2. \A h \in Host : ahead'[h] \subseteq state'.field
  BY <1>1 DEF Characters
<1>3. \A h \in Host : h \notin state'.field => ahead'[h] = {}
  BY <1>1
<1>4. ahead' \in [Host -> SUBSET Host]
  BY <1>1, <1>2
<1>5. rested' \subseteq state'.field \cup Leaders /\ fresh' \subseteq state'.field
  BY DEF FieldFollows
<1>6. QED
  BY <1>2, <1>3, <1>4, <1>5 DEF Places

\* Where nothing leaves, no index changes.
LEMMA SameField ==
  ASSUME Places, ahead \in [Host -> SUBSET Host], NEW turned,
         state'.field = state.field, FieldFollows(turned)
  PROVE  ahead' = ahead
<1>1. ahead' = [h \in Host |->
           IF h \notin state'.field THEN {}
           ELSE IF h \in state.field THEN ahead[h] \cap state'.field
           ELSE Characters(state', HostOwner[h]) \ {h}]
  BY DEF FieldFollows
<1>2. \A h \in Host : ahead'[h] = ahead[h]
  BY <1>1 DEF Places
<1>3. QED
  BY <1>1, <1>2

\* A change of the field and the DON!! cards leaves the turn as it is.
LEMMA LeavingKeepsTurn ==
  ASSUME IInv, NEW h \in Host, CharacterLeaves(h) \/ CharacterTrashedInstead(h)
  PROVE  /\ state'.turnPlayer = state.turnPlayer
         /\ state'.status = "active" /\ InMain'
<1>1. state \in GameStates
  BY IInvOK DEF GameOK
<1>2. QED
  BY <1>1 DEF CharacterLeaves, CharacterTrashedInstead, InMain, GameStates

LEMMA DrawingKeepsTurn ==
  ASSUME IInv, NEW p \in Player, EffectDraws(p)
  PROVE  /\ state'.turnPlayer = state.turnPlayer
         /\ state'.field = state.field
         /\ IF state'.status = "active" THEN InMain' ELSE Losers(state') # {}
<1> DEFINE s == Draws(state, p)
<1>1. state \in GameStates /\ InMain
  BY IInvOK DEF GameOK, EffectDraws
<1>2. /\ s \in GameStates /\ s.turnPlayer = state.turnPlayer /\ s.field = state.field
      /\ s.status = "active" /\ s.phase = "main" /\ s.pending = NoDecision /\ s.queue = {}
  BY <1>1 DEF GameStates, Draws, InMain
<1>3. state' = Checkpoint(s)
  BY DEF EffectDraws
<1> HIDE DEF s
<1>4. CASE Losers(s) = {}
  BY <1>2, <1>3, <1>4 DEF Checkpoint, InMain
<1>5. CASE Losers(s) # {}
  <2>1. /\ state'.turnPlayer = s.turnPlayer /\ state'.field = s.field
        /\ state'.status = "completed" /\ state'.deck = s.deck
    BY <1>2, <1>3, <1>5 DEF Checkpoint, GameStates
  <2>2. QED
    BY <1>2, <1>5, <2>1 DEF Losers
<1>6. QED
  BY <1>4, <1>5

\* An effect is a step of the turn, and ends the match only by the deck.
LEMMA EffectOK ==
  ASSUME IInv, BInv, state.status = "active", NEW turned, Effect(turned)
  PROVE  /\ [Next]_state /\ IInv'
         /\ rested' \subseteq state'.field \cup Leaders
         /\ fresh' \subseteq state'.field
         /\ ahead' \in [Host -> SUBSET Host]
         /\ Places'
         /\ state'.turnPlayer = state.turnPlayer
         /\ state'.status = "active" => (InMain => InMain')
         /\ state'.status # "active" => Losers(state') # {}
<1>1. PICK t : FieldFollows(t)
  BY DEF Effect
<1>2. \/ UNCHANGED state
      \/ \E h \in Host : CharacterLeaves(h) \/ CharacterTrashedInstead(h)
      \/ \E p \in Player : EffectDraws(p)
  BY DEF Effect
<1>3. [Next]_state
  BY <1>2 DEF Next
<1>4. IInv'
  BY <1>3, NextOK
<1>5. state.field \subseteq Host /\ state'.field \subseteq Host
  <2>1. state \in GameStates /\ state' \in GameStates
    BY <1>4, SetupOK DEF IInv, Good, GameOK
  <2>2. QED
    BY <2>1 DEF GameStates
<1>6. QED
  BY <1>1, <1>2, <1>3, <1>4, <1>5, FieldFollowsOK, LeavingKeepsTurn, DrawingKeepsTurn
  DEF BInv, BattleTypeOK, InMain

---------------------------------------------------------------------------
(* How a battle goes on *)

\* The field as a call leaves it.
FieldAfter ==
    /\ rested' \subseteq state'.field \cup Leaders
    /\ fresh' \subseteq state'.field
    /\ ahead' \in [Host -> SUBSET Host]
    /\ Places'

\* ... and the turn, when the match ends by a deck alone.
After ==
    /\ FieldAfter
    /\ state'.turnPlayer = state.turnPlayer
    /\ InMain /\ state'.status = "active" => InMain'
    /\ state'.status # "active" => Losers(state') # {}

LEMMA NoBattleIsNone == NoBattle \notin Battles
<1>1. NoBattle.step = "none"
  BY DEF NoBattle
<1>2. \A b \in Battles : b.step # "none"
  BY DEF Battles
<1>3. QED
  BY <1>1, <1>2

\* A call that ends the battle.
LEMMA EndOK ==
  ASSUME After, life' \in [Player -> 0..LifeSize],
         NEW what \in {"none", "effect", "trigger"}, EndBattle(what)
  PROVE  BInv'
<1>1. battle' = NoBattle /\ ask' = what /\ what \in Question
  BY DEF EndBattle, Question
<1>2. BattleTypeOK'
  BY <1>1 DEF BattleTypeOK, After, FieldAfter
<1>3. AskedOfStanding' /\ QuestionFits(battle, ask)'
  BY <1>1 DEF AskedOfStanding, QuestionFits
<1>4. QED
  BY <1>1, <1>2, <1>3 DEF BInv, After, FieldAfter

\* A call that leaves the battle b and a question about it.
LEMMA AskOK ==
  ASSUME InMain, After, life' \in [Player -> 0..LifeSize],
         battle' \in Battles, Fought(battle', state'), ask' \in Question,
         QuestionFits(battle', ask'),
         ask' \in {"none", "effect"} \/ BothStand(battle', state'.field, ahead'),
         state'.status = "active" => ask' # "none"
  PROVE  BInv'
<1>1. BattleTypeOK'
  BY DEF BattleTypeOK, After, FieldAfter
<1>2. AskedOfStanding'
  BY DEF AskedOfStanding
<1>3. Fought(battle, state)' /\ QuestionFits(battle, ask)'
  OBVIOUS
<1>4. QED
  BY <1>1, <1>2, <1>3 DEF BInv, After, FieldAfter

LEMMA EffectAsksOK ==
  ASSUME InMain, After, life' \in [Player -> 0..LifeSize],
         NEW b, Fought(b, state), EffectAsks(b)
  PROVE  BInv'
<1>1. battle' \in Battles /\ Fought(battle', state')
  BY DEF EffectAsks, Fought, After
<1>2. ask' \in Question /\ QuestionFits(battle', ask') /\ ask' = "effect"
  BY DEF EffectAsks, Question, QuestionFits
<1>3. QED
  BY <1>1, <1>2, AskOK

LEMMA EndedOK ==
  ASSUME InMain, After, life' \in [Player -> 0..LifeSize],
         NEW b, Fought(b, state), Ended(b)
  PROVE  BInv'
<1>1. battle' \in Battles /\ Fought(battle', state')
  BY DEF Ended, Fought, After
<1>2. ask' \in Question /\ QuestionFits(battle', ask') /\ ask' = "none"
  BY DEF Ended, Question, QuestionFits
<1>3. QED
  BY <1>1, <1>2, AskOK DEF Ended

\* Entering the counter step with both participants in their places.
LEMMA CounterStepOK ==
  ASSUME InMain, After, life' \in [Player -> 0..LifeSize],
         NEW b, Fought(b, state), BothStand(b, state'.field, ahead'), EnterCounterStep(b)
  PROVE  BInv'
<1>1. battle' = [b EXCEPT !.step = "counter"] /\ ask' = "counter"
  BY DEF EnterCounterStep
<1>2. /\ battle' \in Battles /\ battle'.step = "counter"
      /\ battle'.attacker = b.attacker /\ battle'.target = b.target
      /\ battle'.blocked = b.blocked /\ battle'.damage = b.damage /\ battle'.owed = b.owed
  BY <1>1 DEF Fought, Battles
<1>3. Fought(battle', state')
  BY <1>2 DEF Fought, Defender, After
<1>4. QuestionFits(battle', ask') /\ ask' \in Question
  BY <1>1, <1>2 DEF QuestionFits, Question
<1>5. BothStand(battle', state'.field, ahead')
  BY <1>2 DEF BothStand
<1>6. QED
  BY <1>1, <1>2, <1>3, <1>4, <1>5, AskOK

LEMMA BattleGoesOnOK ==
  ASSUME InMain, After, life' \in [Player -> 0..LifeSize],
         NEW b, Fought(b, state), BattleGoesOn(b)
  PROVE  BInv'
BY CounterStepOK DEF BattleGoesOn

LEMMA AttackGoesOnOK ==
  ASSUME InMain, After, life' \in [Player -> 0..LifeSize],
         NEW b, Fought(b, state), b.step = "attack", AttackGoesOn(b)
  PROVE  BInv'
<1>1. CASE Ended(b)
  BY <1>1, EndedOK
<1>2. CASE EndBattle("none")
  BY <1>2, EndOK
<1>3. CASE BothStand(b, state'.field, ahead') /\ EnterCounterStep(b)
  BY <1>3, CounterStepOK
<1>4. CASE BothStand(b, state'.field, ahead') /\ OfferBlock(b)
  <2>1. battle' = [b EXCEPT !.step = "block"] /\ ask' = "block"
    BY <1>4 DEF OfferBlock
  <2>2. /\ battle' \in Battles /\ battle'.step = "block"
        /\ battle'.attacker = b.attacker /\ battle'.target = b.target
        /\ battle'.blocked = b.blocked /\ battle'.damage = b.damage /\ battle'.owed = b.owed
    BY <2>1 DEF Fought, Battles
  <2>3. Fought(battle', state') /\ ~battle'.blocked
    BY <2>2 DEF Fought, Defender, After
  <2>4. QuestionFits(battle', ask') /\ ask' \in Question
    BY <2>1, <2>2, <2>3 DEF QuestionFits, Question
  <2>5. BothStand(battle', state'.field, ahead')
    BY <1>4, <2>2 DEF BothStand
  <2>6. QED
    BY <2>1, <2>2, <2>3, <2>4, <2>5, AskOK
<1>5. QED
  BY <1>1, <1>2, <1>3, <1>4 DEF AttackGoesOn

\* A call that asks nothing: without a battle, or in a match it has ended.
LEMMA QuietOK ==
  ASSUME FieldAfter, life' \in [Player -> 0..LifeSize], ask' = "none",
         battle' = NoBattle \/ (state'.status # "active" /\ Fought(battle', state'))
  PROVE  BInv'
<1>1. BattleTypeOK'
  BY DEF BattleTypeOK, FieldAfter, Question, Fought
<1>2. AskedOfStanding' /\ QuestionFits(battle, ask)'
  BY DEF AskedOfStanding, QuestionFits
<1>3. battle' # NoBattle => Fought(battle, state)'
  OBVIOUS
<1>4. QED
  BY <1>1, <1>2, <1>3 DEF BInv, FieldAfter

---------------------------------------------------------------------------
(* Effects and damage in a battle *)

LEMMA AfterEffect ==
  ASSUME IInv, BInv, state.status = "active", NEW turned, Effect(turned)
  PROVE  After /\ IInv' /\ [Next]_state
BY EffectOK DEF After, FieldAfter

LEMMA AfterNoEffect ==
  ASSUME IInv, BInv, state.status = "active", NoEffect
  PROVE  /\ After /\ IInv' /\ [Next]_state
         /\ state' = state /\ ahead' = ahead
<1>1. Effect(rested)
  BY DEF NoEffect, Effect
<1>2. ahead' = ahead
  BY SameField DEF NoEffect, BInv, BattleTypeOK
<1>3. QED
  BY <1>1, <1>2, AfterEffect DEF NoEffect

\* Nothing moves: the participants still stand.
LEMMA StillStand ==
  ASSUME BInv, battle # NoBattle, ask \notin {"none", "effect"},
         state' = state, ahead' = ahead
  PROVE  BothStand(battle, state'.field, ahead')
BY DEF BInv, AskedOfStanding

\* Conceding ends the match and leaves the field.
LEMMA AfterConcede ==
  ASSUME IInv, BInv, NEW p \in Player, Concede(p), FieldFollows(rested)
  PROVE  /\ FieldAfter /\ IInv' /\ [Next]_state
         /\ state'.status = "completed" /\ state'.turnPlayer = state.turnPlayer
         /\ state'.winner = Opponent(p)
<1>1. [Next]_state
  BY DEF Next
<1>2. IInv'
  BY <1>1, NextOK
<1>3. state \in GameStates
  BY IInvOK DEF GameOK
<1>4. /\ state'.field = state.field /\ state'.turnPlayer = state.turnPlayer
      /\ state'.status = "completed" /\ state'.winner = Opponent(p)
  BY <1>3 DEF Concede, GameStates
<1>5. FieldAfter
  BY <1>3, <1>4, FieldFollowsOK DEF GameStates, BInv, BattleTypeOK, FieldAfter
<1>6. QED
  BY <1>1, <1>2, <1>4, <1>5

LEMMA LeaderHitOK ==
  ASSUME BInv, InMain, After, battle # NoBattle, ask \in {"counter", "trigger"},
         BothStand(battle, state'.field, ahead'), LeaderHit(battle)
  PROVE  BInv'
<1> DEFINE p == Defender(battle)
<1>1. /\ battle \in Battles /\ battle.target.card \in Leaders
      /\ Fought(battle, state) /\ life \in [Player -> 0..LifeSize]
  BY DEF BInv, Fought, BattleTypeOK, LeaderHit
<1>2. p \in Player /\ battle.damage \in {1, 2} /\ life[p] \in 0..LifeSize
  BY <1>1, LeaderOK DEF Battles
<1> HIDE DEF p
<1>3. CASE /\ life[p] >= battle.damage
           /\ life' = [life EXCEPT ![p] = @ - battle.damage]
           /\ EndBattle("none")
  <2>1. life[p] - battle.damage \in 0..LifeSize
    BY <1>2, <1>3, LifeAssumption
  <2>2. life' \in [Player -> 0..LifeSize]
    BY <1>1, <1>3, <2>1
  <2>3. QED
    BY <1>3, <2>2, EndOK
<1>4. CASE /\ life[p] > 0
           /\ life' = [life EXCEPT ![p] = @ - 1]
           /\ IF battle.damage = 1 THEN EndBattle("trigger")
              ELSE /\ battle' = [battle EXCEPT !.damage = 1, !.owed = TRUE]
                   /\ ask' = "trigger"
  <2>1. life[p] - 1 \in 0..LifeSize
    BY <1>2, <1>4, LifeAssumption
  <2>2. life' \in [Player -> 0..LifeSize]
    BY <1>1, <1>4, <2>1
  <2>3. CASE battle.damage = 1
    BY <1>4, <2>2, <2>3, EndOK
  <2>4. CASE battle.damage = 2
    <3>1. battle' = [battle EXCEPT !.damage = 1, !.owed = TRUE] /\ ask' = "trigger"
      BY <1>4, <2>4
    <3>2. /\ battle' \in Battles /\ battle'.step = battle.step
          /\ battle'.attacker = battle.attacker /\ battle'.target = battle.target
          /\ battle'.blocked = battle.blocked /\ battle'.damage = 1 /\ battle'.owed
      BY <1>1, <3>1 DEF Battles
    <3>3. battle.step = "counter"
      BY <2>4 DEF BInv, QuestionFits
    <3>4. Fought(battle', state')
      BY <1>1, <3>2, <3>3 DEF Fought, Defender, After
    <3>5. ask' \in Question /\ QuestionFits(battle', ask')
      BY <3>1, <3>2 DEF Question, QuestionFits
    <3>6. BothStand(battle', state'.field, ahead')
      BY <3>2 DEF BothStand
    <3>7. QED
      BY <2>2, <3>1, <3>2, <3>4, <3>5, <3>6, AskOK
  <2>5. QED
    BY <1>2, <2>3, <2>4
<1>5. QED
  BY <1>3, <1>4 DEF LeaderHit, p

LEMMA LeaderFallsOK ==
  ASSUME IInv, BInv, battle # NoBattle, LeaderFalls(battle)
  PROVE  BInv' /\ IInv' /\ [Next]_state
<1> DEFINE p == Defender(battle)
<1>1. battle \in Battles /\ battle.target.card \in Leaders /\ life \in [Player -> 0..LifeSize]
  BY DEF BInv, Fought, BattleTypeOK, LeaderFalls
<1>2. p \in Player
  BY <1>1, LeaderOK
<1>3. FieldAfter /\ IInv' /\ [Next]_state
  BY <1>2, AfterConcede DEF LeaderFalls
<1>4. life' \in [Player -> 0..LifeSize]
  BY <1>1, <1>2, LifeAssumption DEF LeaderFalls
<1>5. QED
  BY <1>3, <1>4, QuietOK DEF LeaderFalls, EndBattle

LEMMA KnockOutOK ==
  ASSUME IInv, BInv, state.status = "active", NEW h \in Host, KnockOut(h)
  PROVE  BInv' /\ IInv' /\ [Next]_state
<1>1. Effect(rested)
  BY DEF KnockOut, Effect
<1>2. After /\ IInv' /\ [Next]_state
  BY <1>1, AfterEffect
<1>3. life' \in [Player -> 0..LifeSize]
  BY DEF KnockOut, BInv, BattleTypeOK
<1>4. QED
  BY <1>2, <1>3, EndOK DEF KnockOut

---------------------------------------------------------------------------
(* Calls *)

\* What every call of a battle keeps.
Kept == BInv' /\ IInv' /\ [Next]_state

LEMMA SameLife ==
  ASSUME BInv, UNCHANGED life
  PROVE  life' \in [Player -> 0..LifeSize]
BY DEF BInv, BattleTypeOK

\* An open battle of a live match is one of its main phase.
LEMMA OpenBattle ==
  ASSUME BInv, battle # NoBattle, state.status = "active"
  PROVE  InMain /\ Fought(battle, state) /\ battle \in Battles
BY DEF BInv, Fought

LEMMA DeclareAttackStep ==
  ASSUME IInv, BInv, NEW a \in Host, NEW t \in Host, NEW damage \in {1, 2},
         DeclareAttack(a, t, damage)
  PROVE  Kept
<1> DEFINE p == state.turnPlayer
           b == [step |-> "attack", attacker |-> RefTo(a), target |-> RefTo(t),
                 blocked |-> FALSE, damage |-> damage, owed |-> FALSE]
<1>1. InMain /\ state.status = "active" /\ state \in GameStates
  BY IInvOK DEF DeclareAttack, InMain, GameOK
<1>2. p \in Player /\ Opponent(p) \in Player /\ Opponent(p) # p
  BY <1>1, OpponentOK DEF GameStates
<1>3. HostOwner[a] = p
  BY <1>2, LeaderAssumption DEF DeclareAttack, OnField, Characters, HostsOf
<1>4. HostOwner[t] = Opponent(p)
  BY <1>2, LeaderAssumption DEF DeclareAttack, Characters, HostsOf
<1>5. damage = 2 => t \in Leaders
  BY DEF DeclareAttack
<1>6. RefTo(a) \in Ref /\ RefTo(t) \in Ref /\ RefTo(a).card = a /\ RefTo(t).card = t
  BY DEF RefTo, Ref, BInv, BattleTypeOK
<1>7. Fought(b, state) /\ b.step = "attack"
  BY <1>2, <1>3, <1>4, <1>5, <1>6 DEF Fought, Battles, Defender
<1>8. Effect(rested \cup {a}) /\ (EffectAsks(b) \/ AttackGoesOn(b)) /\ UNCHANGED life
  BY DEF DeclareAttack
<1> HIDE DEF b
<1>9. QED
  BY <1>1, <1>7, <1>8, AfterEffect, SameLife, EffectAsksOK, AttackGoesOnOK DEF Kept

LEMMA BlockWithStep ==
  ASSUME IInv, BInv, NEW h \in Host, BlockWith(h)
  PROVE  Kept
<1> DEFINE b == [battle EXCEPT !.step = "block", !.target = RefTo(h),
                               !.blocked = TRUE, !.damage = 1]
<1>1. state.status = "active" /\ ask = "block" /\ battle # NoBattle /\ ~battle.owed
  BY DEF BlockWith, Asked, BInv, QuestionFits, NoBattle, Fought
<1>2. InMain /\ Fought(battle, state) /\ battle \in Battles
  BY <1>1, OpenBattle
<1>3. RefTo(h) \in Ref /\ RefTo(h).card = h
  BY DEF RefTo, Ref, BInv, BattleTypeOK
<1>4. /\ b \in Battles /\ b.step = "block" /\ b.attacker = battle.attacker
      /\ b.target.card = h /\ b.damage = 1 /\ ~b.owed
  BY <1>1, <1>2, <1>3 DEF Battles
<1>5. HostOwner[h] = Defender(battle) /\ h \notin Leaders
  BY DEF BlockWith, Characters, HostsOf
<1>6. Fought(b, state)
  BY <1>2, <1>4, <1>5 DEF Fought, Defender
<1>7. /\ Effect(rested \cup {h}) /\ UNCHANGED life
      /\ EffectAsks(b) \/ BattleGoesOn(b)
  BY DEF BlockWith
<1> HIDE DEF b
<1>8. QED
  BY <1>1, <1>2, <1>6, <1>7, AfterEffect, SameLife, EffectAsksOK, BattleGoesOnOK DEF Kept

LEMMA DeclineBlockStep ==
  ASSUME IInv, BInv, DeclineBlock
  PROVE  Kept
<1>1. state.status = "active" /\ battle # NoBattle
  BY DEF DeclineBlock, Asked, BInv, QuestionFits, NoBattle
<1>2. QED
  BY <1>1, OpenBattle, AfterNoEffect, SameLife, BattleGoesOnOK DEF DeclineBlock, Kept

\* A question of the counter step is one of a battle.
LEMMA CounterQuestion ==
  ASSUME BInv, Asked("counter") \/ Asked("payCost") \/ Asked("replacement")
  PROVE  /\ state.status = "active" /\ battle # NoBattle /\ battle.step = "counter"
         /\ ask \notin {"none", "effect"}
         /\ InMain /\ Fought(battle, state) /\ battle \in Battles
<1>1. /\ state.status = "active" /\ battle # NoBattle /\ battle.step = "counter"
      /\ ask \notin {"none", "effect"}
  BY DEF Asked, BInv, QuestionFits, NoBattle
<1>2. QED
  BY <1>1, OpenBattle

LEMMA UseCounterEventStep ==
  ASSUME IInv, BInv, UseCounterEvent
  PROVE  Kept
<1>1. /\ state.status = "active" /\ battle # NoBattle /\ battle.step = "counter"
      /\ ask \notin {"none", "effect"}
      /\ InMain /\ Fought(battle, state) /\ battle \in Battles
  BY CounterQuestion DEF UseCounterEvent
<1>2. life' \in [Player -> 0..LifeSize]
  BY SameLife DEF UseCounterEvent
<1>3. CASE NoEffect /\ battle' = battle /\ ask' = "payCost"
  <2>1. After /\ IInv' /\ [Next]_state /\ state' = state /\ ahead' = ahead
    BY <1>1, <1>3, AfterNoEffect
  <2>2. BothStand(battle', state'.field, ahead')
    BY <1>1, <1>3, <2>1, StillStand
  <2>3. ask' \in Question /\ QuestionFits(battle', ask')
    BY <1>1, <1>3 DEF Question, QuestionFits
  <2>4. Fought(battle', state')
    BY <1>1, <1>3, <2>1
  <2>5. QED
    BY <1>1, <1>2, <1>3, <2>1, <2>2, <2>3, <2>4, AskOK DEF Kept
<1>4. CASE /\ Effect(rested)
           /\ EffectAsks(battle) \/ Ended(battle)
                \/ (state'.status = "active" /\ BattleGoesOn(battle))
  BY <1>1, <1>2, <1>4, AfterEffect, EffectAsksOK, EndedOK, BattleGoesOnOK DEF Kept
<1>5. QED
  BY <1>3, <1>4 DEF UseCounterEvent

LEMMA PayCounterStep ==
  ASSUME IInv, BInv, PayCounter
  PROVE  Kept
<1>1. /\ state.status = "active" /\ InMain /\ Fought(battle, state)
      /\ battle \in Battles
  BY CounterQuestion DEF PayCounter
<1>2. state \in GameStates
  BY IInvOK DEF GameOK
<1>3. /\ [Next]_state /\ state'.field = state.field
      /\ state'.turnPlayer = state.turnPlayer /\ state'.status = "active" /\ InMain'
  <2>1. CASE UNCHANGED state
    BY <1>1, <2>1 DEF InMain
  <2>2. CASE \E d \in state.don.costArea[Defender(battle)] : EffectRestsDon(d)
    <3>1. Defender(battle) \in Player
      BY <1>1, HostOwnerAssumption DEF Defender, Battles, Ref
    <3>2. PICK d \in Don : EffectRestsDon(d)
      BY <1>2, <2>2, <3>1 DEF GameStates, DonZones
    <3>3. QED
      BY <1>1, <1>2, <3>2 DEF EffectRestsDon, InMain, GameStates, Next
  <2>3. QED
    BY <2>1, <2>2 DEF PayCounter
<1>4. IInv'
  BY <1>3, NextOK
<1>5. After
  BY <1>2, <1>3, FieldFollowsOK
  DEF PayCounter, GameStates, BInv, BattleTypeOK, After, FieldAfter
<1>6. QED
  BY <1>1, <1>3, <1>4, <1>5, SameLife, EffectAsksOK, BattleGoesOnOK DEF PayCounter, Kept

LEMMA PassStep ==
  ASSUME IInv, BInv, Pass
  PROVE  Kept
<1>1. /\ state.status = "active" /\ battle # NoBattle /\ battle.step = "counter"
      /\ ask = "counter"
      /\ InMain /\ Fought(battle, state) /\ battle \in Battles
  BY CounterQuestion DEF Pass, Asked
<1>2. battle.target.card \in Host
  BY <1>1 DEF Battles, Ref
<1>3. CASE NoEffect /\ (Repelled \/ LeaderHit(battle))
  <2>1. /\ After /\ IInv' /\ [Next]_state
        /\ BothStand(battle, state'.field, ahead')
    BY <1>1, <1>3, AfterNoEffect, StillStand
  <2>2. CASE Repelled
    BY <2>1, <2>2, SameLife, EndOK DEF Repelled, Kept
  <2>3. CASE LeaderHit(battle)
    BY <1>1, <2>1, <2>3, LeaderHitOK DEF Kept
  <2>4. QED
    BY <1>3, <2>2, <2>3
<1>4. CASE LeaderFalls(battle)
  BY <1>1, <1>4, LeaderFallsOK DEF Kept
<1>5. CASE KnockOut(battle.target.card)
  BY <1>1, <1>2, <1>5, KnockOutOK DEF Kept
<1>6. CASE NoEffect /\ battle' = battle /\ ask' = "replacement" /\ UNCHANGED life
  <2>1. After /\ IInv' /\ [Next]_state /\ state' = state /\ ahead' = ahead
    BY <1>1, <1>6, AfterNoEffect
  <2>2. BothStand(battle', state'.field, ahead')
    BY <1>1, <1>6, <2>1, StillStand
  <2>3. ask' \in Question /\ QuestionFits(battle', ask')
    BY <1>1, <1>6 DEF Question, QuestionFits
  <2>4. Fought(battle', state')
    BY <1>1, <1>6, <2>1
  <2>5. QED
    BY <1>1, <1>6, <2>1, <2>2, <2>3, <2>4, SameLife, AskOK DEF Kept
<1>7. QED
  BY <1>3, <1>4, <1>5, <1>6 DEF Pass

LEMMA AnswerReplacementStep ==
  ASSUME IInv, BInv, AnswerReplacement
  PROVE  Kept
<1>1. /\ state.status = "active" /\ battle # NoBattle /\ battle.step = "counter"
      /\ ask = "replacement"
      /\ InMain /\ Fought(battle, state) /\ battle \in Battles
  BY CounterQuestion DEF AnswerReplacement, Asked
<1>2. battle.target.card \in Host
  BY <1>1 DEF Battles, Ref
<1>3. CASE KnockOut(battle.target.card)
  BY <1>1, <1>2, <1>3, KnockOutOK DEF Kept
<1>4. CASE Effect(rested) /\ EndBattle("none") /\ UNCHANGED life
  BY <1>1, <1>4, AfterEffect, SameLife, EndOK DEF Kept
<1>5. CASE NoEffect /\ UNCHANGED <<battle, ask, life>>
  <2>1. After /\ IInv' /\ [Next]_state /\ state' = state /\ ahead' = ahead
    BY <1>1, <1>5, AfterNoEffect
  <2>2. BothStand(battle', state'.field, ahead')
    BY <1>1, <1>5, <2>1, StillStand
  <2>3. ask' \in Question /\ QuestionFits(battle', ask') /\ Fought(battle', state')
    BY <1>1, <1>5, <2>1 DEF Question, QuestionFits
  <2>4. QED
    BY <1>1, <1>5, <2>1, <2>2, <2>3, SameLife, AskOK DEF Kept
<1>6. QED
  BY <1>3, <1>4, <1>5 DEF AnswerReplacement

LEMMA AddToHandStep ==
  ASSUME IInv, BInv, AddToHand
  PROVE  Kept
<1>1. state.status = "active" /\ ask = "trigger"
  BY DEF AddToHand, Asked
<1>2. CASE NoEffect /\ (EndBattle("none") \/ EndBattle("effect")) /\ UNCHANGED life
  BY <1>1, <1>2, AfterNoEffect, SameLife, EndOK DEF Kept
<1>3. CASE battle # NoBattle /\ NoEffect /\ (Repelled \/ LeaderHit(battle))
  <2>1. /\ After /\ IInv' /\ [Next]_state
        /\ BothStand(battle, state'.field, ahead')
    BY <1>1, <1>3, AfterNoEffect, StillStand
  <2>2. CASE Repelled
    BY <2>1, <2>2, SameLife, EndOK DEF Repelled, Kept
  <2>3. CASE LeaderHit(battle)
    BY <1>1, <1>3, <2>1, <2>3, OpenBattle, LeaderHitOK DEF Kept
  <2>4. QED
    BY <1>3, <2>2, <2>3
<1>4. CASE battle # NoBattle /\ LeaderFalls(battle)
  BY <1>4, LeaderFallsOK DEF Kept
<1>5. QED
  BY <1>2, <1>3, <1>4 DEF AddToHand

LEMMA ActivateTriggerStep ==
  ASSUME IInv, BInv, ActivateTrigger
  PROVE  Kept
<1>1. state.status = "active" /\ ask = "trigger"
  BY DEF ActivateTrigger, Asked
<1>2. CASE /\ Effect(rested) /\ UNCHANGED life
           /\ EffectAsks(NoBattle) \/ EndBattle("none")
  <2>1. EndBattle("none") \/ EndBattle("effect")
    BY <1>2 DEF EffectAsks, EndBattle
  <2>2. QED
    BY <1>1, <1>2, <2>1, AfterEffect, SameLife, EndOK DEF Kept
<1>3. CASE /\ battle # NoBattle /\ Effect(rested)
           /\ BothStand(battle, state'.field, ahead')
           /\ Repelled \/ LeaderHit(battle)
  <2>1. After /\ IInv' /\ [Next]_state
    BY <1>1, <1>3, AfterEffect
  <2>2. CASE Repelled
    BY <2>1, <2>2, SameLife, EndOK DEF Repelled, Kept
  <2>3. CASE LeaderHit(battle)
    BY <1>1, <1>3, <2>1, <2>3, OpenBattle, LeaderHitOK DEF Kept
  <2>4. QED
    BY <1>3, <2>2, <2>3
<1>4. CASE battle # NoBattle /\ LeaderFalls(battle)
  BY <1>4, LeaderFallsOK DEF Kept
<1>5. QED
  BY <1>2, <1>3, <1>4 DEF ActivateTrigger

LEMMA AnswerEffectStep ==
  ASSUME IInv, BInv, AnswerEffect
  PROVE  Kept
<1>1. state.status = "active" /\ Effect(rested) /\ UNCHANGED life
  BY DEF AnswerEffect, Asked
<1>2. After /\ IInv' /\ [Next]_state /\ life' \in [Player -> 0..LifeSize]
  BY <1>1, AfterEffect, SameLife
<1>3. CASE battle = NoBattle
  <2>1. EndBattle("none") \/ EndBattle("effect")
    BY <1>3 DEF AnswerEffect, EffectAsks, EndBattle, NoBattle
  <2>2. QED
    BY <1>2, <2>1, EndOK DEF Kept
<1>4. CASE battle # NoBattle
  <2>1. InMain /\ Fought(battle, state)
    BY <1>1, <1>4, OpenBattle
  <2>2. \/ EffectAsks(battle) \/ Ended(battle) \/ BattleGoesOn(battle)
        \/ (battle.step = "attack" /\ AttackGoesOn(battle))
    BY <1>4 DEF AnswerEffect
  <2>3. QED
    BY <1>2, <2>1, <2>2, EffectAsksOK, EndedOK, BattleGoesOnOK, AttackGoesOnOK DEF Kept
<1>5. QED
  BY <1>3, <1>4

LEMMA ConcedeInBattleStep ==
  ASSUME IInv, BInv, NEW p \in Player, ConcedeInBattle(p)
  PROVE  Kept
<1>1. /\ Concede(p) /\ FieldFollows(rested) /\ ask' = "none"
      /\ battle' = battle /\ UNCHANGED life
  BY DEF ConcedeInBattle
<1>2. /\ FieldAfter /\ IInv' /\ [Next]_state
      /\ state'.status = "completed" /\ state'.turnPlayer = state.turnPlayer
  BY <1>1, AfterConcede
<1>3. battle' = NoBattle \/ (state'.status # "active" /\ Fought(battle', state'))
  BY <1>1, <1>2 DEF BInv, Fought
<1>4. QED
  BY <1>1, <1>2, <1>3, SameLife, QuietOK DEF Kept

LEMMA TurnStepStep ==
  ASSUME IInv, BInv, TurnStep
  PROVE  Kept
<1>1. IInv' /\ [Next]_state
  BY NextOK DEF TurnStep
<1>2. state \in GameStates /\ state' \in GameStates
  BY <1>1, SetupOK DEF IInv, Good, GameOK
<1>3. FieldAfter
  BY <1>2, FieldFollowsOK DEF TurnStep, GameStates, BInv, BattleTypeOK, FieldAfter
<1>4. QED
  BY <1>1, <1>3, SameLife, QuietOK DEF TurnStep, Kept

LEMMA BattleNextOK ==
  ASSUME IInv, BInv, [BattleNext]_battleVars
  PROVE  Kept
<1>1. CASE TurnStep
  BY <1>1, TurnStepStep
<1>2. CASE \E a, t \in Host, damage \in {1, 2} : DeclareAttack(a, t, damage)
  BY <1>2, DeclareAttackStep
<1>3. CASE \E h \in Host : BlockWith(h)
  BY <1>3, BlockWithStep
<1>4. CASE DeclineBlock \/ UseCounterEvent \/ PayCounter \/ Pass
  BY <1>4, DeclineBlockStep, UseCounterEventStep, PayCounterStep, PassStep
<1>5. CASE AnswerReplacement \/ AddToHand \/ ActivateTrigger \/ AnswerEffect
  BY <1>5, AnswerReplacementStep, AddToHandStep, ActivateTriggerStep, AnswerEffectStep
<1>6. CASE \E p \in Player : ConcedeInBattle(p)
  BY <1>6, ConcedeInBattleStep
<1>7. CASE UNCHANGED battleVars
  <2>1. IInv' /\ [Next]_state
    BY <1>7, NextOK DEF battleVars
  <2>2. BInv'
    BY <1>7
    DEF battleVars, BInv, BattleTypeOK, Places, InMain, AskedOfStanding, Losers
  <2>3. QED
    BY <2>1, <2>2 DEF Kept
<1>8. QED
  BY <1>1, <1>2, <1>3, <1>4, <1>5, <1>6, <1>7 DEF BattleNext

LEMMA BattleInitOK == BattleInit => IInv /\ BInv
<1> SUFFICES ASSUME BattleInit PROVE IInv /\ BInv
  OBVIOUS
<1>1. IInv
  BY InitOK DEF BattleInit
<1>2. BattleTypeOK /\ Places
  BY LifeAssumption DEF BattleInit, BattleTypeOK, Places, Question
<1>3. AskedOfStanding /\ QuestionFits(battle, ask)
  BY DEF BattleInit, AskedOfStanding, QuestionFits
<1>4. QED
  BY <1>1, <1>2, <1>3 DEF BInv, BattleInit

LEMMA BattleInvHolds == BattleSpec => [](IInv /\ BInv)
<1>1. IInv /\ BInv /\ [BattleNext]_battleVars => (IInv /\ BInv)'
  BY BattleNextOK DEF Kept
<1>2. QED
  BY <1>1, BattleInitOK, PTL DEF BattleSpec

---------------------------------------------------------------------------
(* Theorems *)

\* Everything that happens in a battle is, for the turn, a step of it: a
\* concession, a card leaving, a draw or a rested DON!! card, or no change.
THEOREM BattlesAreTurnSteps == BattleSpec => Spec
<1>1. BattleInit => Init
  BY DEF BattleInit
<1>2. IInv /\ BInv /\ [BattleNext]_battleVars => [Next]_state
  BY BattleNextOK DEF Kept
<1>3. QED
  BY <1>1, <1>2, BattleInvHolds, PTL DEF BattleSpec, Spec

\* Hence battles lose no DON!! card, strand no turn and leave no match
\* running with an empty deck.
THEOREM BattlesKeepTurns ==
  BattleSpec => [](TypeOK /\ DonConserved /\ HandedOff /\ EmptyDeckEnds)
BY BattlesAreTurnSteps, TypeCorrect, NoDonLost, CallsHandOff, EmptyDeckLoses, PTL

\* The battle, its questions and the field have their types.
THEOREM BattleTypeCorrect == BattleSpec => []BattleTypeOK
<1>1. BInv => BattleTypeOK
  BY BInvOK
<1>2. QED
  BY <1>1, BattleInvHolds, PTL

\* Whatever effects remove, a question is asked only while both participants
\* stand where the battle's references say.
THEOREM AskedCardsStand == BattleSpec => []AskedOfStanding
<1>1. BInv => AskedOfStanding
  BY BInvOK
<1>2. QED
  BY <1>1, BattleInvHolds, PTL

\* A battle of a live match always asks something that fits its step.
THEOREM NoBattleStranded == BattleSpec => []BattlesAsk
<1>1. BInv => BattlesAsk
  BY BInvOK
<1>2. QED
  BY <1>1, BattleInvHolds, PTL

---------------------------------------------------------------------------
(* Damage *)

\* A call without damage: it ends no match but by an empty deck, or no battle.
LEMMA PaidWithoutDamage ==
  ASSUME UNCHANGED life, After \/ battle = NoBattle \/ battle' = battle
                          \/ battle' # NoBattle
  PROVE  PaidInLife
BY DEF PaidInLife, After

LEMMA PaidByHit ==
  ASSUME BInv, After, battle # NoBattle, ask \in {"counter", "trigger"}, LeaderHit(battle)
  PROVE  PaidInLife
<1> DEFINE p == Defender(battle)
<1>1. /\ battle \in Battles /\ battle.target.card \in Leaders
      /\ life \in [Player -> 0..LifeSize] /\ ~battle.blocked
  BY DEF BInv, Fought, BattleTypeOK, LeaderHit, Battles
<1>2. /\ p \in Player /\ battle.target.card = Leader[p]
      /\ battle.damage \in {1, 2} /\ life[p] \in Nat
  BY <1>1, LeaderOK, LifeAssumption DEF Battles
<1> HIDE DEF p
<1>3. PICK n \in {1, battle.damage} : life' = [life EXCEPT ![p] = @ - n]
  BY DEF LeaderHit, p
<1>4. life'[p] = life[p] - n /\ n \in {1, 2} /\ n <= battle.damage
  BY <1>1, <1>2, <1>3
<1>5. life' = [life EXCEPT ![p] = life'[p]]
  BY <1>3, <1>4
<1>6. life'[p] < life[p] /\ life[p] - life'[p] <= battle.damage
  BY <1>2, <1>4
<1>7. state'.status = "completed" => Losers(state') # {}
  BY DEF After
<1>8. QED
  BY <1>1, <1>2, <1>5, <1>6, <1>7 DEF PaidInLife, p

LEMMA PaidByFall ==
  ASSUME IInv, BInv, battle # NoBattle, ask \in {"counter", "trigger"}, LeaderFalls(battle)
  PROVE  PaidInLife
<1> DEFINE p == Defender(battle)
<1>1. /\ battle \in Battles /\ battle.target.card \in Leaders
      /\ life \in [Player -> 0..LifeSize] /\ ~battle.blocked
      /\ HostOwner[battle.attacker.card] = state.turnPlayer /\ p # state.turnPlayer
  BY DEF BInv, Fought, BattleTypeOK, LeaderFalls, Battles
<1>2. /\ p \in Player /\ battle.target.card = Leader[p]
      /\ battle.damage \in {1, 2} /\ life[p] \in Nat
  BY <1>1, LeaderOK, LifeAssumption DEF Battles
<1>3. state'.winner = Opponent(p)
  BY <1>2, AfterConcede DEF LeaderFalls
<1>4. state.turnPlayer \in Player
  BY IInvOK DEF GameOK, GameStates
<1>5. Opponent(p) = state.turnPlayer
  BY <1>1, <1>2, <1>4, OpponentOK, PlayersAssumption
<1> HIDE DEF p
<1>6. life' = [life EXCEPT ![p] = 0] /\ life[p] < battle.damage
  BY DEF LeaderFalls, p
<1>7. life'[p] = 0 /\ life' = [life EXCEPT ![p] = life'[p]]
  BY <1>1, <1>2, <1>6
<1>8. life' # life => life'[p] < life[p]
  BY <1>1, <1>2, <1>6, <1>7
<1>9. life[p] - life'[p] <= battle.damage
  BY <1>2, <1>6, <1>7
<1>10. QED
  BY <1>1, <1>2, <1>3, <1>5, <1>6, <1>7, <1>8, <1>9 DEF PaidInLife, p

LEMMA PassPays ==
  ASSUME IInv, BInv, Pass
  PROVE  PaidInLife
<1>1. /\ state.status = "active" /\ battle # NoBattle /\ ask = "counter"
      /\ battle \in Battles
  BY CounterQuestion DEF Pass, Asked
<1>2. CASE NoEffect /\ (Repelled \/ LeaderHit(battle))
  BY <1>1, <1>2, AfterNoEffect, PaidWithoutDamage, PaidByHit DEF Repelled
<1>3. CASE LeaderFalls(battle)
  BY <1>1, <1>3, PaidByFall
<1>4. CASE KnockOut(battle.target.card)
  <2>1. battle.target.card \in Host
    BY <1>1 DEF Battles, Ref
  <2>2. Effect(rested) /\ UNCHANGED life
    BY <1>4, <2>1 DEF KnockOut, Effect
  <2>3. QED
    BY <1>1, <2>2, AfterEffect, PaidWithoutDamage
<1>5. CASE battle' = battle /\ UNCHANGED life
  BY <1>5, PaidWithoutDamage
<1>6. QED
  BY <1>2, <1>3, <1>4, <1>5 DEF Pass

LEMMA AnswerReplacementPays ==
  ASSUME IInv, BInv, AnswerReplacement
  PROVE  PaidInLife
<1>1. state.status = "active" /\ battle \in Battles
  BY CounterQuestion DEF AnswerReplacement
<1>2. battle.target.card \in Host
  BY <1>1 DEF Battles, Ref
<1>3. CASE KnockOut(battle.target.card) \/ (Effect(rested) /\ UNCHANGED life)
  <2>1. Effect(rested) /\ UNCHANGED life
    BY <1>2, <1>3 DEF KnockOut, Effect
  <2>2. QED
    BY <1>1, <2>1, AfterEffect, PaidWithoutDamage
<1>4. CASE UNCHANGED <<battle, ask, life>>
  BY <1>4, PaidWithoutDamage
<1>5. QED
  BY <1>3, <1>4 DEF AnswerReplacement

LEMMA TriggerPays ==
  ASSUME IInv, BInv, AddToHand \/ ActivateTrigger
  PROVE  PaidInLife
<1>1. state.status = "active" /\ ask = "trigger"
  BY DEF AddToHand, ActivateTrigger, Asked
<1>2. CASE battle = NoBattle
  BY <1>2, PaidWithoutDamage DEF AddToHand, ActivateTrigger
<1>3. CASE battle # NoBattle /\ LeaderFalls(battle)
  BY <1>1, <1>3, PaidByFall
<1>4. CASE battle # NoBattle /\ (NoEffect \/ Effect(rested)) /\ (Repelled \/ LeaderHit(battle))
  <2>1. After
    BY <1>1, <1>4, AfterEffect, AfterNoEffect
  <2>2. QED
    BY <1>1, <1>4, <2>1, PaidWithoutDamage, PaidByHit DEF Repelled
<1>5. QED
  BY <1>2, <1>3, <1>4 DEF AddToHand, ActivateTrigger

\* Paying a counter keeps the battle that it counters.
LEMMA PayCounterKeepsBattle ==
  ASSUME IInv, BInv, PayCounter
  PROVE  battle' # NoBattle
<1>1. battle \in Battles
  BY CounterQuestion DEF PayCounter
<1>2. battle' = battle \/ battle' = [battle EXCEPT !.step = "counter"]
  BY DEF PayCounter, EffectAsks, BattleGoesOn, EnterCounterStep
<1>3. battle' \in Battles
  BY <1>1, <1>2 DEF Battles
<1>4. QED
  BY <1>3, NoBattleIsNone

LEMMA BattleNextPays ==
  ASSUME IInv, BInv, [BattleNext]_battleVars
  PROVE  PaidInLife
<1>1. CASE Pass \/ AnswerReplacement \/ AddToHand \/ ActivateTrigger
  BY <1>1, PassPays, AnswerReplacementPays, TriggerPays
<1>2. CASE TurnStep \/ UNCHANGED battleVars
  BY <1>2, PaidWithoutDamage DEF TurnStep, battleVars
<1>3. CASE \E p \in Player : ConcedeInBattle(p)
  BY <1>3, PaidWithoutDamage DEF ConcedeInBattle
<1>4. CASE \E a, t \in Host, damage \in {1, 2} : DeclareAttack(a, t, damage)
  BY <1>4, PaidWithoutDamage DEF DeclareAttack
<1>5. CASE \/ \E h \in Host : BlockWith(h)
           \/ DeclineBlock \/ UseCounterEvent \/ PayCounter \/ AnswerEffect
  <2>1. UNCHANGED life
    BY <1>5 DEF BlockWith, DeclineBlock, UseCounterEvent, PayCounter, AnswerEffect
  <2>2. CASE PayCounter
    BY <2>1, <2>2, PayCounterKeepsBattle, PaidWithoutDamage
  <2>3. CASE \E turned : Effect(turned) /\ state.status = "active"
    BY <2>1, <2>3, AfterEffect, PaidWithoutDamage
  <2>4. CASE NoEffect /\ state.status = "active"
    BY <2>1, <2>4, AfterNoEffect, PaidWithoutDamage
  <2>5. QED
    BY <1>5, <2>2, <2>3, <2>4
    DEF BlockWith, DeclineBlock, UseCounterEvent, AnswerEffect, Asked
<1>6. QED
  BY <1>1, <1>2, <1>3, <1>4, <1>5 DEF BattleNext

\* Life is only paid for unblocked damage to its owner's leader, and a battle
\* ends a match only when the life does not suffice.
THEOREM DamagePaid == BattleSpec => DamageIsPaidInLife
<1>1. IInv /\ BInv /\ [BattleNext]_battleVars => [PaidInLife]_battleVars
  BY BattleNextPays
<1>2. QED
  BY <1>1, BattleInvHolds, PTL DEF BattleSpec, DamageIsPaidInLife
=============================================================================
