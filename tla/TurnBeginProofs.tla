--------------------------- MODULE TurnBeginProofs ---------------------------
(* Proofs about how turns of TurnFlow and Battle follow each other:        *)
(* whatever a turn left behind, the next one begins in the same call with  *)
(* every card ready but the locked ones, with its DON!! cards placed and   *)
(* its card drawn.  Then what can go wrong on the way: the two calls of an *)
(* end phase that nothing continues, and the one effect after which the    *)
(* records of an attached card disagree.  Without these a live match       *)
(* always has a call it accepts.  Last, what the host may expect of a call *)
(* of the engine: LocalMatch foresees all that the turn flow and its       *)
(* battles do.                                                             *)
EXTENDS BattleProofs, HostedTurns

---------------------------------------------------------------------------
(* What the mandatory phases do to DON!! cards *)

\* After a refresh no host of the player refers to a card, and the cards of
\* the cost area that were not locked are active.
LEMMA RefreshReadies ==
  ASSUME NEW z, DonOK(z), NEW p \in Player
  PROVE  LET w == RefreshDon(z, p)
         IN  /\ w.donDeck = z.donDeck /\ w.costArea = z.costArea
             /\ \A h \in HostsOf(p), d \in Don : w.attachedDon[h][d] = 0
             /\ \A d \in z.costArea[p] \ z.locked : w.cardState[d] = "active"
<1> DEFINE attached == AttachedTo(z, HostsOf(p))
           returned == WithState(z, attached \cap z.costArea[p], "rested")
           ready == WithState(returned, z.costArea[p] \ z.locked, "active")
           v == WithoutReferences(ready, HostsOf(p), Don)
           w == RefreshDon(z, p)
<1>1. /\ DonOK(returned) /\ returned.donDeck = z.donDeck
      /\ returned.costArea = z.costArea
  BY WithStateOK DEF CardState
<1> HIDE DEF returned
<1>2. /\ DonOK(ready) /\ ready.donDeck = z.donDeck /\ ready.costArea = z.costArea
  BY <1>1, WithStateOK DEF CardState
<1>3. \A d \in z.costArea[p] \ z.locked : ready.cardState[d] = "active"
  <2>1. z.costArea[p] \subseteq Don
    BY DEF DonOK, DonZones
  <2>2. \A d \in Don : ready.cardState[d]
          = IF d \in z.costArea[p] \ z.locked THEN "active" ELSE returned.cardState[d]
    BY <1>1 DEF WithState, DonOK, DonZones
  <2>3. QED
    BY <2>1, <2>2
<1> HIDE DEF ready
<1>4. /\ DonOK(v) /\ v.donDeck = z.donDeck /\ v.costArea = z.costArea
      /\ \A h \in HostsOf(p), d \in Don : v.attachedDon[h][d] = 0
  BY <1>2, WithoutReferencesOK DEF HostsOf
<1>5. v.cardState = ready.cardState
  BY <1>2 DEF WithoutReferences, DonOK, DonZones
<1>6. w = [v EXCEPT !.locked = @ \ DonOf[p]]
  BY DEF RefreshDon, v, ready, returned
<1> HIDE DEF v, w
<1>7. /\ w.donDeck = v.donDeck /\ w.costArea = v.costArea
      /\ w.attachedDon = v.attachedDon /\ w.cardState = v.cardState
  BY <1>4, <1>6 DEF DonOK, DonZones
<1>8. QED
  BY <1>3, <1>4, <1>5, <1>7 DEF w

\* Placed cards leave the DON!! deck, and are active; no reference changes.
LEMMA PlaceDonPlaces ==
  ASSUME NEW z, DonOK(z), NEW p \in Player, NEW cards \in SUBSET z.donDeck[p]
  PROVE  LET w == PlaceDon(z, p, cards, "active")
         IN  /\ w.donDeck[p] = z.donDeck[p] \ cards
             /\ w.costArea[p] = z.costArea[p] \cup cards
             /\ w.attachedDon = z.attachedDon
             /\ \A d \in Don : w.cardState[d]
                  = IF d \in cards THEN "active" ELSE z.cardState[d]
<1> DEFINE s == WithState(z, cards, "active")
           w == PlaceDon(z, p, cards, "active")
<1>1. /\ DonOK(s) /\ s.donDeck = z.donDeck /\ s.costArea = z.costArea
      /\ s.attachedDon = z.attachedDon
  BY WithStateOK DEF CardState
<1>2. \A d \in Don : s.cardState[d] = IF d \in cards THEN "active" ELSE z.cardState[d]
  BY DEF WithState, DonOK, DonZones
<1>3. w = [s EXCEPT !.donDeck[p] = @ \ cards, !.costArea[p] = @ \cup cards]
  BY DEF PlaceDon
<1> HIDE DEF s, w
<1>4. /\ w.donDeck[p] = s.donDeck[p] \ cards
      /\ w.costArea[p] = s.costArea[p] \cup cards
      /\ w.attachedDon = s.attachedDon /\ w.cardState = s.cardState
  BY <1>1, <1>3 DEF DonOK, DonZones
<1>5. QED
  BY <1>1, <1>2, <1>4 DEF w

---------------------------------------------------------------------------
(* The mandatory phases of a turn that goes on *)

\* A checkpoint changes status and winner, and nothing while the match lives.
LEMMA CheckpointKeeps ==
  ASSUME NEW s, GameOK(s)
  PROVE  /\ Checkpoint(s).turnPlayer = s.turnPlayer
         /\ Checkpoint(s).turnCount = s.turnCount
         /\ Checkpoint(s).globalTurn = s.globalTurn
         /\ Checkpoint(s).don = s.don
         /\ Checkpoint(s).deck = s.deck
         /\ Checkpoint(s).status = "active" => Checkpoint(s) = s
BY DEF Checkpoint, GameOK, GameStates

SameTurn(s, t) ==
    /\ t.turnPlayer = s.turnPlayer
    /\ t.turnCount = s.turnCount
    /\ t.globalTurn = s.globalTurn

\* A round of the loop stays in the turn.
LEMMA AdvanceOnceKeepsTurn ==
  ASSUME NEW s, Good(s), NEW cards, CanPlace(s, cards)
  PROVE  SameTurn(s, AdvanceOnce(s, cards))
<1>1. CASE Stops(s)
  BY <1>1 DEF AdvanceOnce, SameTurn
<1>2. CASE ~Stops(s) /\ s.phase = "refresh"
  <2> DEFINE z == RefreshDon(s.don, s.turnPlayer)
             u == [s EXCEPT !.don = z, !.phase = "draw"]
  <2>1. DonOK(z)
    BY GameDon, RefreshDonOK DEF Good
  <2>2. AdvanceOnce(s, cards) = Checkpoint(u)
    BY <1>2 DEF AdvanceOnce, AdvanceRefreshPhase
  <2> HIDE DEF z
  <2>3. GameOK(u) /\ SameTurn(s, u)
    BY <2>1 DEF Good, GameOK, GameStates, DonOK, Phases, SameTurn
  <2> HIDE DEF u
  <2>4. QED
    BY <2>2, <2>3, CheckpointKeeps DEF SameTurn
<1>3. CASE ~Stops(s) /\ s.phase = "draw"
  <2> DEFINE d == IF FirstTurn(s) THEN s ELSE Draws(s, s.turnPlayer)
             u == [d EXCEPT !.phase = "don"]
  <2>1. GameOK(d) /\ SameTurn(s, d)
    <3>1. GameOK(Draws(s, s.turnPlayer)) /\ SameTurn(s, Draws(s, s.turnPlayer))
      BY DrawsOK, GameDon DEF Good, GameOK, GameStates, Draws, SameTurn
    <3>2. QED
      BY <3>1 DEF Good, SameTurn
  <2>2. AdvanceOnce(s, cards) = Checkpoint(u)
    BY <1>3 DEF AdvanceOnce, AdvanceDrawPhase
  <2> HIDE DEF d
  <2>3. GameOK(u) /\ SameTurn(d, u)
    BY <2>1 DEF GameOK, GameStates, Phases, SameTurn
  <2> HIDE DEF u
  <2>4. QED
    BY <2>1, <2>2, <2>3, CheckpointKeeps DEF SameTurn
<1>4. CASE ~Stops(s) /\ s.phase = "don"
  <2> DEFINE z == PlaceDon(s.don, s.turnPlayer, cards, "active")
             u == [s EXCEPT !.don = z]
             v == AdvanceDonPhase(s, cards)
             w == [v EXCEPT !.phase = "main"]
  <2>1. DonOK(z)
    BY <1>4, GameDon, PlaceDonOK DEF Good, CanPlace, CardState
  <2>2. AdvanceOnce(s, cards) = EnterMainPhase(v) /\ v = Checkpoint(u)
    BY <1>4 DEF AdvanceOnce, AdvanceDonPhase
  <2> HIDE DEF z
  <2>3. GameOK(u) /\ SameTurn(s, u) /\ u.queue = {} /\ u.status = "active" /\ u.pending = NoDecision
    BY <1>4, <2>1 DEF Good, GameOK, GameStates, DonOK, Fit, Stops, SameTurn
  <2> HIDE DEF u, v
  <2>4. Good(v) /\ SameTurn(s, v) /\ v.queue = {}
    BY <2>2, <2>3, QuietCheckpoint, CheckpointKeeps DEF SameTurn, SameFlow
  <2>5. GameOK(w) /\ SameTurn(v, w)
    BY <2>4 DEF Good, GameOK, GameStates, Phases, SameTurn
  <2>6. EnterMainPhase(v) = IF v.status # "active" THEN v ELSE Checkpoint(w)
    BY <2>4 DEF EnterMainPhase
  <2> HIDE DEF w
  <2>7. QED
    BY <2>2, <2>4, <2>5, <2>6, CheckpointKeeps DEF SameTurn
<1>5. QED
  <2>1. ~Stops(s) => s.phase \in {"refresh", "draw", "don"}
    BY DEF Stops, Good, GameOK, GameStates, Phases
  <2>2. QED
    BY <1>1, <1>2, <1>3, <1>4, <2>1

\* The mandatory phases stay in the turn.
LEMMA AdvanceToMainKeepsTurn ==
  ASSUME NEW s, Good(s), NEW cards, CanPlace(s, cards)
  PROVE  SameTurn(s, AdvanceToMain(s, cards))
<1> DEFINE s1 == AdvanceOnce(s, cards)
           s2 == AdvanceOnce(s1, cards)
           s3 == AdvanceOnce(s2, cards)
           s4 == AdvanceOnce(s3, cards)
<1>1. AdvanceToMain(s, cards) = s4
  BY DEF AdvanceToMain
<1>2. Good(s1) /\ CanPlace(s1, cards) /\ SameTurn(s, s1)
  BY AdvanceOnceOK, AdvanceOnceKeepsTurn
<1> HIDE DEF s1
<1>3. Good(s2) /\ CanPlace(s2, cards) /\ SameTurn(s1, s2)
  BY <1>2, AdvanceOnceOK, AdvanceOnceKeepsTurn
<1> HIDE DEF s2
<1>4. Good(s3) /\ CanPlace(s3, cards) /\ SameTurn(s2, s3)
  BY <1>3, AdvanceOnceOK, AdvanceOnceKeepsTurn
<1> HIDE DEF s3
<1>5. SameTurn(s3, s4)
  BY <1>4, AdvanceOnceKeepsTurn
<1>6. QED
  BY <1>1, <1>2, <1>3, <1>4, <1>5 DEF SameTurn

\* A turn that reaches its main phase has refreshed, drawn and placed.
LEMMA MainReached ==
  ASSUME NEW s, Good(s), s.status = "active", s.phase = "refresh",
         NEW cards \in Placements(s), AdvanceToMain(s, cards).status = "active"
  PROVE  LET t == AdvanceToMain(s, cards)
             p == s.turnPlayer
         IN  /\ t.phase = "main"
             /\ t.don = PlaceDon(RefreshDon(s.don, p), p, cards, "active")
             /\ t.deck = IF FirstTurn(s) THEN s.deck ELSE Draws(s, p).deck
<1> DEFINE p == s.turnPlayer
           s1 == AdvanceOnce(s, cards)
           s2 == AdvanceOnce(s1, cards)
           s3 == AdvanceOnce(s2, cards)
           s4 == AdvanceOnce(s3, cards)
           z == RefreshDon(s.don, p)
           y == PlaceDon(z, p, cards, "active")
           e == IF FirstTurn(s) THEN s.deck ELSE Draws(s, p).deck
<1>1. ~Stops(s) /\ s.pending = NoDecision /\ s.queue = {}
  BY DEF Good, Fit, Stops
<1>2. AdvanceToMain(s, cards) = s4
  BY DEF AdvanceToMain
<1>3. \A x : x.status # "active" => AdvanceOnce(x, cards) = x
  BY DEF AdvanceOnce, Stops
<1>4. /\ s1.status = "active" /\ s2.status = "active" /\ s3.status = "active"
      /\ s4.status = "active"
  <2> HIDE DEF s1, s2, s3, s4
  <2>1. s4.status = "active"
    BY <1>2
  <2>2. s3.status = "active"
    BY <1>3, <2>1 DEF s4
  <2>3. s2.status = "active"
    BY <1>3, <2>2 DEF s3
  <2>4. s1.status = "active"
    BY <1>3, <2>3 DEF s2
  <2>5. QED
    BY <2>1, <2>2, <2>3, <2>4
<1>5. CanPlace(s, cards)
  BY <1>1 DEF CanPlace, Placements, TopDon
<1>6. p \in Player /\ DonOK(s.don) /\ DonOK(z) /\ z.donDeck = s.don.donDeck
  BY GameDon, RefreshDonOK DEF Good
<1>7. DonOK(y)
  BY <1>1, <1>5, <1>6, PlaceDonOK DEF CanPlace, CardState
<1>8. e \in [Player -> Nat]
  <2>1. s.deck \in [Player -> Nat]
    BY DEF Good, GameOK, GameStates
  <2>2. Draws(s, p).deck \in [Player -> Nat]
    BY <1>6, DrawsOK DEF Good, GameOK, GameStates
  <2>3. QED
    BY <2>1, <2>2
<1> HIDE DEF z, y
<1>9. s1 = [s EXCEPT !.don = z, !.phase = "draw"]
  <2> DEFINE u == [s EXCEPT !.don = z, !.phase = "draw"]
  <2>1. s1 = Checkpoint(u)
    BY <1>1 DEF AdvanceOnce, AdvanceRefreshPhase, z
  <2>2. GameOK(u)
    BY <1>6 DEF Good, GameOK, GameStates, DonOK, Phases
  <2> HIDE DEF u, s1, s2, s3, s4
  <2>3. s1 = u
    BY <1>4, <2>1, <2>2, CheckpointKeeps
  <2>4. QED
    BY <2>3 DEF u
<1>10. /\ Good(s1) /\ s1.phase = "draw" /\ s1.don = z /\ s1.turnPlayer = p
       /\ s1.deck = s.deck /\ s1.status = "active" /\ s1.pending = NoDecision
       /\ s1.queue = {} /\ FirstTurn(s1) = FirstTurn(s)
       /\ Draws(s1, p).deck = Draws(s, p).deck
  <2>1. Good(s1)
    BY <1>5, AdvanceOnceOK
  <2> HIDE DEF s1, s2, s3, s4, e
  <2>2. QED
    BY <1>1, <1>9, <2>1 DEF Good, GameOK, GameStates, FirstTurn, Draws
<1> HIDE DEF s1
<1>11. s2 = [s1 EXCEPT !.deck = e, !.phase = "don"]
  <2> DEFINE d == IF FirstTurn(s1) THEN s1 ELSE Draws(s1, p)
             u == [d EXCEPT !.phase = "don"]
             w == [s1 EXCEPT !.deck = e, !.phase = "don"]
  <2>1. s2 = Checkpoint(u)
    BY <1>10 DEF AdvanceOnce, AdvanceDrawPhase, Stops
  <2>2. u = w
    <3>1. CASE FirstTurn(s1)
      BY <1>10, <3>1 DEF Good, GameOK, GameStates
    <3>2. CASE ~FirstTurn(s1)
      <4>1. d = [s1 EXCEPT !.deck = Draws(s1, p).deck]
        BY <3>2, <1>10 DEF Draws, Good, GameOK, GameStates
      <4>2. e = Draws(s1, p).deck
        BY <1>10, <3>2
      <4> HIDE DEF d, e
      <4>3. QED
        BY <1>10, <4>1, <4>2 DEF Good, GameOK, GameStates
    <3>3. QED
      BY <3>1, <3>2
  <2>3. GameOK(w)
    <3> HIDE DEF e
    <3>1. QED
      BY <1>8, <1>10 DEF Good, GameOK, GameStates, Phases
  <2> HIDE DEF u, w, s2, s3, s4
  <2>4. s2 = w
    BY <1>4, <2>1, <2>2, <2>3, CheckpointKeeps
  <2>5. QED
    BY <2>4 DEF w
<1> HIDE DEF e
<1>12. /\ s2.phase = "don" /\ s2.don = z /\ s2.turnPlayer = p /\ s2.deck = e
       /\ s2.status = "active" /\ s2.pending = NoDecision /\ s2.queue = {}
       /\ s2 \in GameStates
  BY <1>8, <1>10, <1>11 DEF Good, GameOK, GameStates, Phases
<1> HIDE DEF s2
<1>13. s3 = [s2 EXCEPT !.don = y, !.phase = "main"]
  <2> DEFINE u == [s2 EXCEPT !.don = y]
             v == Checkpoint(u)
             w == [v EXCEPT !.phase = "main"]
             x == [s2 EXCEPT !.don = y, !.phase = "main"]
  <2>1. s3 = EnterMainPhase(v)
    BY <1>12 DEF AdvanceOnce, AdvanceDonPhase, Stops, y
  <2>2. GameOK(u) /\ u.queue = {} /\ u.status = "active"
    BY <1>7, <1>12 DEF GameOK, GameStates, DonOK
  <2>3. v.status = "active" /\ v = u
    <3> HIDE DEF u, s3, s4
    <3>1. GameOK(v) /\ v.status \in {"active", "completed"}
      <4>1. u.status # "completed"
        BY <2>2
      <4>2. QED
        BY <2>2, <4>1, CheckpointOK
    <3>2. v.status = "active"
      BY <1>4, <2>1 DEF EnterMainPhase
    <3>3. QED
      BY <2>2, <3>2, CheckpointKeeps
  <2>4. s3 = Checkpoint([u EXCEPT !.phase = "main"])
    BY <2>1, <2>2, <2>3 DEF EnterMainPhase
  <2>5. [u EXCEPT !.phase = "main"] = x /\ GameOK(x)
    BY <1>7, <1>12 DEF GameOK, GameStates, DonOK, Phases
  <2> HIDE DEF u, v, w, x, s3, s4
  <2>6. s3 = x
    BY <1>4, <2>4, <2>5, CheckpointKeeps
  <2>7. QED
    BY <2>6 DEF x
<1>14. s3.phase = "main" /\ s3.don = y /\ s3.deck = e
  BY <1>12, <1>13 DEF GameStates
<1> HIDE DEF s3
<1>15. s4 = s3
  BY <1>14 DEF AdvanceOnce, Stops
<1>16. QED
  BY <1>2, <1>14, <1>15 DEF y, z, e

---------------------------------------------------------------------------
(* The effects of the end phase *)

\* What they leave alone: the turn, the DON!! decks and locks, and the deck of
\* the player who goes next.
EndKeeps(s, t) ==
    /\ SameTurn(s, t)
    /\ t.don.donDeck = s.don.donDeck /\ t.don.locked = s.don.locked
    /\ \A q \in Player \ {s.turnPlayer} : t.deck[q] = s.deck[q]

LEMMA ResolveEntryKeeps ==
  ASSUME NEW s, GameOK(s), NEW e
  PROVE  EndKeeps(s, ResolveEntry(s, e))
<1>1. CASE Block[e] \in Asks
  BY <1>1 DEF ResolveEntry, EndKeeps, SameTurn, GameOK, GameStates
<1>2. CASE Block[e] \notin Asks
  <2> DEFINE d == Draws(s, s.turnPlayer)
             u == Unqueued(d, e)
  <2>1. GameOK(d) /\ d.don = s.don
    BY DrawsOK, GameDon DEF SameFlow
  <2>2. SameTurn(s, d) /\ \A q \in Player \ {s.turnPlayer} : d.deck[q] = s.deck[q]
    BY DEF Draws, SameTurn, GameOK, GameStates
  <2>3. ResolveEntry(s, e) = Checkpoint(u)
    BY <1>2 DEF ResolveEntry
  <2> HIDE DEF d
  <2>4. GameOK(u) /\ u.deck = d.deck /\ u.don = d.don
    BY <2>1, UnqueuedOK
  <2>5. SameTurn(d, u)
    BY <2>1 DEF Unqueued, SameTurn, GameOK, GameStates
  <2> HIDE DEF u
  <2>6. QED
    BY <2>1, <2>2, <2>3, <2>4, <2>5, CheckpointKeeps DEF EndKeeps, SameTurn
<1>3. QED
  BY <1>1, <1>2

LEMMA RunQueueKeeps ==
  ASSUME NEW s, GameOK(s)
  PROVE  EndKeeps(s, RunQueue(s))
<1>1. CASE s.status # "active" \/ s.pending # NoDecision \/ s.queue = {}
  BY <1>1 DEF RunQueue, EndKeeps, SameTurn
<1>2. CASE /\ ~(s.status # "active" \/ s.pending # NoDecision \/ s.queue = {})
           /\ Cardinality(s.queue) > 1
  BY <1>2 DEF RunQueue, EndKeeps, SameTurn, GameOK, GameStates
<1>3. CASE /\ ~(s.status # "active" \/ s.pending # NoDecision \/ s.queue = {})
           /\ ~(Cardinality(s.queue) > 1)
  <2>1. RunQueue(s) = ResolveEntry(s, CHOOSE e \in s.queue : TRUE)
    BY <1>3 DEF RunQueue
  <2>2. QED
    BY <2>1, ResolveEntryKeeps
<1>4. QED
  BY <1>1, <1>2, <1>3

LEMMA EndKeepsTransitive ==
  ASSUME NEW r, NEW s, NEW t, EndKeeps(r, s), EndKeeps(s, t)
  PROVE  EndKeeps(r, t)
BY DEF EndKeeps, SameTurn

---------------------------------------------------------------------------
(* A turn begins *)

\* A call that ended cannot be advanced to an active state.
LEMMA HostedLive ==
  ASSUME NEW s, NEW cards, AdvanceToMain(s, cards).status = "active"
  PROVE  s.status = "active"
<1>1. \A x : x.status # "active" => AdvanceOnce(x, cards) = x
  BY DEF AdvanceOnce, Stops
<1>2. QED
  BY <1>1 DEF AdvanceToMain

\* A call that ends in the refresh phase of a new turn begins it whole.
LEMMA TurnStarts ==
  ASSUME NEW s, Good(s), s.phase = "refresh", Hosted(s), state'.status = "active",
         FirstTurn(s) <=> state.status = "setup",
         s.turnCount[s.turnPlayer] = IF state.status = "setup" THEN 1
                                     ELSE state.turnCount[s.turnPlayer] + 1,
         s.don.donDeck = state.don.donDeck, s.don.locked = state.don.locked,
         s.deck[s.turnPlayer] = state.deck[s.turnPlayer]
  PROVE  BeginsTurn
<1> DEFINE p == s.turnPlayer
           z == RefreshDon(s.don, p)
<1>1. PICK cards \in Placements(s) : state' = AdvanceToMain(s, cards)
  BY DEF Hosted
<1> DEFINE y == PlaceDon(z, p, cards, "active")
<1>2. s.status = "active"
  BY <1>1, HostedLive
<1>3. ~Stops(s)
  BY <1>2 DEF Stops, Good, Fit
<1>4. CanPlace(s, cards)
  BY <1>1, <1>3 DEF CanPlace, Placements, TopDon
<1>5. /\ state'.phase = "main" /\ state'.don = y
      /\ state'.deck = IF FirstTurn(s) THEN s.deck ELSE Draws(s, p).deck
      /\ SameTurn(s, state')
  BY <1>1, <1>2, <1>4, MainReached, AdvanceToMainKeepsTurn
<1>6. p \in Player /\ DonOK(s.don) /\ DonOK(z)
  BY GameDon, RefreshDonOK DEF Good
<1>7. /\ z.donDeck = s.don.donDeck /\ z.costArea = s.don.costArea
      /\ \A h \in HostsOf(p), d \in Don : z.attachedDon[h][d] = 0
      /\ \A d \in s.don.costArea[p] \ s.don.locked : z.cardState[d] = "active"
  BY <1>6, RefreshReadies
<1> HIDE DEF z
<1>8. cards \in SUBSET z.donDeck[p]
  BY <1>3, <1>4, <1>7 DEF CanPlace
<1>9. /\ y.donDeck[p] = z.donDeck[p] \ cards
      /\ y.costArea[p] = z.costArea[p] \cup cards
      /\ y.attachedDon = z.attachedDon
      /\ \A d \in Don : y.cardState[d]
           = IF d \in cards THEN "active" ELSE z.cardState[d]
  BY <1>6, <1>8, PlaceDonPlaces
<1>10. z.costArea[p] \cup cards \subseteq Don
  BY <1>6, <1>8 DEF DonOK, DonZones
<1> DEFINE before == state.don.donDeck[p]
           most == IF state.status = "setup" THEN 1 ELSE 2
<1>11. Cardinality(cards) = IF Cardinality(before) < most
                            THEN Cardinality(before) ELSE most
  <2>1. Cardinality(before) \in Nat
    <3>1. before \in SUBSET Don
      BY <1>6, <1>7, <1>8 DEF DonOK, DonZones
    <3>2. QED
      BY <3>1, FiniteDonAssumption, FS_Subset, FS_CardinalityType
  <2>2. cards \in TopDon(s.don, p, most)
    BY <1>1, <1>3 DEF Placements
  <2>3. Cardinality(cards) = IF most <= Cardinality(before)
                             THEN most ELSE Cardinality(before)
    BY <2>2 DEF TopDon
  <2> HIDE DEF before
  <2>4. QED
    BY <2>1, <2>3
<1>12. before \ y.donDeck[p] = cards /\ y.donDeck[p] \subseteq before
  BY <1>7, <1>8, <1>9
<1>13. AttachedTo(y, HostsOf(p)) = {}
  BY <1>7, <1>9 DEF AttachedTo
<1>14. \A d \in y.costArea[p] \ state.don.locked : y.cardState[d] = "active"
  BY <1>7, <1>9, <1>10
<1>15. state'.deck[p] = IF state.status = "setup" THEN state.deck[p]
                        ELSE state.deck[p] - 1
  <2>1. CASE FirstTurn(s)
    BY <1>5, <2>1
  <2>2. CASE ~FirstTurn(s)
    <3>1. s.deck[p] \in Nat /\ s.deck[p] # 0
      BY <1>2, <1>6 DEF Good, GameOK, GameStates, EmptyOK
    <3>2. Draws(s, p).deck[p] = s.deck[p] - 1
      BY <1>6, <3>1 DEF Draws, Good, GameOK, GameStates
    <3>3. QED
      BY <1>5, <2>2, <3>2
  <2>3. QED
    BY <2>1, <2>2
<1>16. state'.turnPlayer = p /\ state'.turnCount = s.turnCount
  BY <1>5 DEF SameTurn
<1> HIDE DEF y
<1>17. QED
  BY <1>5, <1>11, <1>12, <1>13, <1>14, <1>15, <1>16 DEF BeginsTurn

---------------------------------------------------------------------------
(* Calls *)

\* Turns are counted from 1, so only the first turn of the match is the first.
TurnsCounted == state.globalTurn >= 1

\* A call stays in the turn, or it begins one, or the match is over.
TurnCall ==
    /\ state'.globalTurn \in {state.globalTurn, state.globalTurn + 1}
    /\ state'.status = "active"
         /\ (state.status = "setup" \/ state'.globalTurn # state.globalTurn)
       => BeginsTurn

\* The two ways on from a state of the end phase.
LEMMA AnswerAwaited ==
  ASSUME GameOK(state), state.status = "active",
         NEW s, Good(s), s.phase = "end", EndKeeps(state, s), Hosted(s)
  PROVE  TurnCall
<1>1. Stops(s)
  BY DEF Stops
<1>2. state' = s
  <2>1. \A cards : AdvanceOnce(s, cards) = s
    BY <1>1 DEF AdvanceOnce
  <2>2. \A cards : AdvanceToMain(s, cards) = s
    BY <2>1 DEF AdvanceToMain
  <2>3. QED
    BY <2>2 DEF Hosted
<1>3. QED
  BY <1>2 DEF TurnCall, EndKeeps, SameTurn

LEMMA HandsOver ==
  ASSUME GameOK(state), state.status = "active", TurnsCounted,
         NEW ran, Running(ran), ran.status = "active" => ran.pending = NoDecision /\ ran.queue = {},
         EndKeeps(state, ran), Hosted(AdvanceEndPhase(ran))
  PROVE  TurnCall
<1> DEFINE next == Opponent(ran.turnPlayer)
           u == [ran EXCEPT !.turnPlayer = next, !.turnCount[next] = @ + 1,
                            !.globalTurn = @ + 1, !.phase = "refresh"]
           s == AdvanceEndPhase(ran)
<1>1. /\ ran \in GameStates /\ ran.turnPlayer \in Player
      /\ next \in Player /\ next # ran.turnPlayer
  BY OpponentOK DEF Running, GameOK, GameStates
<1>2. s = Checkpoint(u)
  BY DEF AdvanceEndPhase
<1>3. Good(s)
  BY AdvanceEndPhaseOK
<1> HIDE DEF next
<1>4. /\ u.turnPlayer = next /\ u.globalTurn = ran.globalTurn + 1
      /\ u.turnCount[next] = ran.turnCount[next] + 1
      /\ u.phase = "refresh" /\ u.don = ran.don /\ u.deck = ran.deck
  BY <1>1 DEF GameStates
<1> HIDE DEF u
<1>5. /\ s.turnPlayer = u.turnPlayer /\ s.globalTurn = u.globalTurn
      /\ s.turnCount = u.turnCount /\ s.phase = u.phase
      /\ s.don = u.don /\ s.deck = u.deck
  BY <1>2 DEF Checkpoint
<1> HIDE DEF s
<1>6. /\ ran.globalTurn = state.globalTurn /\ ran.turnCount = state.turnCount
      /\ ran.turnPlayer = state.turnPlayer
      /\ ran.don.donDeck = state.don.donDeck /\ ran.don.locked = state.don.locked
      /\ ran.deck[next] = state.deck[next] /\ state.globalTurn \in Nat
  BY <1>1 DEF EndKeeps, SameTurn, GameOK, GameStates
<1>7. ~FirstTurn(s)
  BY <1>4, <1>5, <1>6 DEF FirstTurn, TurnsCounted
<1>8. state'.status = "active" => BeginsTurn
  BY <1>3, <1>4, <1>5, <1>6, <1>7, TurnStarts DEF s
<1>9. state'.globalTurn = s.globalTurn
  <2>1. PICK cards \in Placements(s) : state' = AdvanceToMain(s, cards)
    BY DEF Hosted, s
  <2>2. CanPlace(s, cards)
    BY <2>1 DEF CanPlace, Placements, TopDon
  <2>3. QED
    BY <1>3, <2>1, <2>2, AdvanceToMainKeepsTurn DEF SameTurn
<1>10. QED
  BY <1>4, <1>5, <1>6, <1>8, <1>9 DEF TurnCall

LEMMA StartCall ==
  ASSUME IInv, StartMatch
  PROVE  TurnCall
<1> DEFINE s == [state EXCEPT !.status = "active"]
<1>1. state = SetupState
  BY DEF IInv, StartMatch, Good
<1>2. /\ s \in GameStates /\ s.don = state.don /\ s.status = "active"
      /\ s.queue = {} /\ s.pending = NoDecision /\ s.deck = state.deck
      /\ s.phase = "refresh" /\ s.turnPlayer = FirstPlayer /\ s.globalTurn = 1
      /\ s.turnCount[FirstPlayer] = 1
  BY <1>1, SetupOK, PlayersAssumption DEF SetupState, GameOK, GameStates
<1>3. Good(s)
  BY <1>1, <1>2, SetupOK, SizesAssumption
  DEF Good, GameOK, EmptyOK, Fit, NoDecision, SetupState
<1>4. FirstTurn(s) /\ Hosted(s) /\ state.status = "setup" /\ state.globalTurn = 1
  BY <1>1, <1>2 DEF FirstTurn, StartMatch, SetupState
<1> HIDE DEF s
<1>5. state'.status = "active" => BeginsTurn
  BY <1>2, <1>3, <1>4, TurnStarts
<1>6. state'.globalTurn = 1
  <2>1. PICK cards \in Placements(s) : state' = AdvanceToMain(s, cards)
    BY <1>4 DEF Hosted
  <2>2. CanPlace(s, cards)
    BY <2>1 DEF CanPlace, Placements, TopDon
  <2>3. QED
    BY <1>2, <1>3, <2>1, <2>2, AdvanceToMainKeepsTurn DEF SameTurn
<1>7. QED
  BY <1>4, <1>5, <1>6 DEF TurnCall

\* A call of the main phase stays in its turn.
LEMMA MainCallStays ==
  ASSUME Good(state), MainCall
  PROVE  TurnCall
<1>1. state.status = "active" /\ state \in GameStates
  BY DEF MainCall, GiveDon, PlayCharacter, EffectRestsDon, EffectActivatesDon,
         EffectGivesDon, EffectLocksDon, EffectAddsDon, EffectReturnsDon,
         CharacterLeaves, CharacterTrashedInstead, EffectDraws, InMain, Good, GameOK
<1>2. \A x : Checkpoint(x).globalTurn = x.globalTurn
  BY DEF Checkpoint
<1>a. state'.globalTurn = state.globalTurn
  <2>1. ASSUME NEW h \in Host, NEW d \in Don, GiveDon(h, d)
        PROVE  state'.globalTurn = state.globalTurn
    BY <1>1, <1>2, <2>1 DEF GiveDon, GameStates
  <2>2. ASSUME NEW h \in Host, NEW paid \in SUBSET Don,
               NEW overflow \in Host \cup {NoHost}, PlayCharacter(h, paid, overflow)
        PROVE  state'.globalTurn = state.globalTurn
    BY <1>1, <2>2 DEF PlayCharacter, GameStates
  <2>3. ASSUME NEW p \in Player, EffectDraws(p)
        PROVE  state'.globalTurn = state.globalTurn
    BY <1>1, <1>2, <2>3 DEF EffectDraws, Draws, GameStates
  <2>4. QED
    BY <1>1, <2>1, <2>2, <2>3
    DEF MainCall, EffectRestsDon, EffectActivatesDon, EffectGivesDon, EffectLocksDon,
        EffectAddsDon, EffectReturnsDon, CharacterLeaves, CharacterTrashedInstead,
        GameStates
<1>3. QED
  BY <1>1, <1>a DEF TurnCall

LEMMA EndMainPhaseCall ==
  ASSUME Good(state), TurnsCounted, EndMainPhase
  PROVE  TurnCall
<1> DEFINE main == [state EXCEPT !.phase = "end"]
           ended == Checkpoint(main)
           entries == EndOfTurnEntries(ended)
           queued == [ended EXCEPT !.queue = entries]
           ran == RunQueue(queued)
<1>1. /\ GameOK(main) /\ main.phase = "end" /\ main.status = "active"
      /\ main.pending = NoDecision /\ EndKeeps(state, main)
  BY DEF EndMainPhase, InMain, Good, GameOK, GameStates, Phases, EndKeeps, SameTurn
<1>2. state.status = "active" /\ GameOK(state)
  BY DEF EndMainPhase, InMain, Good
<1> HIDE DEF main
<1>3. /\ GameOK(ended) /\ EmptyOK(ended) /\ ended.phase = "end"
      /\ ended.pending = NoDecision /\ ended.status \in {"active", "completed"}
      /\ EndKeeps(main, ended)
  BY <1>1, CheckpointOK, CheckpointKeeps DEF SameFlow, EndKeeps, SameTurn
<1> HIDE DEF ended
<1>4. EndKeeps(state, ended)
  BY <1>1, <1>3, EndKeepsTransitive
<1>5. CASE ended.status # "active"
  <2>1. state' = ended
    BY <1>5 DEF EndMainPhase, ended, main
  <2>2. QED
    BY <1>4, <1>5, <2>1 DEF TurnCall, EndKeeps, SameTurn
<1>6. CASE ended.status = "active"
  <2>1. entries \in SUBSET Host
    BY <1>3, LeaderAssumption, GameDon
    DEF EndOfTurnEntries, OnField, Characters, HostsOf
  <2> HIDE DEF entries
  <2>2. Running(queued) /\ EndKeeps(ended, queued)
    BY <1>3, <2>1 DEF Running, GameOK, GameStates, EmptyOK, NoDecision, EndKeeps, SameTurn
  <2> HIDE DEF queued
  <2>3. Running(ran) /\ Fit(ran) /\ EndKeeps(queued, ran)
    BY <2>2, RunQueueOK, RunQueueKeeps DEF Running
  <2> HIDE DEF ran
  <2>4. EndKeeps(state, ran)
    BY <1>4, <2>2, <2>3, EndKeepsTransitive
  <2>5. CASE ran.pending # NoDecision
    <3>1. Hosted(ran)
      BY <1>6, <2>5 DEF EndMainPhase, ran, queued, entries, ended, main
    <3>2. Good(ran) /\ ran.phase = "end"
      BY <2>3 DEF Good, Running
    <3>3. QED
      BY <1>2, <2>4, <3>1, <3>2, AnswerAwaited
  <2>6. CASE ran.pending = NoDecision
    <3>1. Hosted(AdvanceEndPhase(ran))
      BY <1>6, <2>6 DEF EndMainPhase, ran, queued, entries, ended, main
    <3>2. ran.status = "active" => ran.pending = NoDecision /\ ran.queue = {}
      BY <2>3, <2>6 DEF Fit
    <3>3. QED
      BY <1>2, <2>3, <2>4, <3>1, <3>2, HandsOver
  <2>7. QED
    BY <2>5, <2>6
<1>7. QED
  BY <1>5, <1>6

LEMMA ChooseTriggerOrderCall ==
  ASSUME Good(state), NEW e \in Host, ChooseTriggerOrder(e)
  PROVE  TurnCall
<1> DEFINE s == [state EXCEPT !.pending = NoDecision]
           r == ResolveEntry(s, e)
           ran == RunQueue(r)
<1>1. /\ state.status = "active" /\ state.phase = "end" /\ e \in state.queue
  BY DEF ChooseTriggerOrder, Answering, Good, Fit
<1>2. /\ Running(s) /\ s.status = "active" /\ s.pending = NoDecision /\ e \in s.queue
      /\ EndKeeps(state, s)
  BY <1>1 DEF Good, Running, GameOK, GameStates, EmptyOK, Decisions, NoDecision,
              EndKeeps, SameTurn
<1> HIDE DEF s
<1>3. Running(r) /\ EndKeeps(s, r)
  BY <1>2, ResolveEntryOK, ResolveEntryKeeps DEF Running
<1> HIDE DEF r
<1>4. Running(ran) /\ Fit(ran) /\ EndKeeps(r, ran)
  BY <1>3, RunQueueOK, RunQueueKeeps DEF Running
<1> HIDE DEF ran
<1>5. Hosted(ran)
  BY DEF ChooseTriggerOrder, ran, r, s
<1>6. EndKeeps(state, ran)
  BY <1>2, <1>3, <1>4, EndKeepsTransitive
<1>7. Good(ran) /\ ran.phase = "end"
  BY <1>4 DEF Good, Running
<1>8. QED
  BY <1>1, <1>5, <1>6, <1>7, AnswerAwaited DEF Good

LEMMA SelectTargetsCall ==
  ASSUME Good(state), TurnsCounted, NEW chosen \in SUBSET Don, SelectTargets(chosen)
  PROVE  TurnCall
<1> DEFINE z == WithState(state.don, chosen, "active")
           answered == [state EXCEPT !.pending = NoDecision, !.don = z]
           u == Unqueued(answered, state.pending.entry)
           r == Checkpoint(u)
           ran == RunQueue(r)
<1>1. state.status = "active" /\ state.phase = "end"
  BY DEF SelectTargets, Answering, Good, Fit, NoDecision
<1>2. DonOK(z) /\ z.donDeck = state.don.donDeck /\ z.locked = state.don.locked
  BY StateDonOK, WithStateOK DEF CardState
<1>a. answered = [state EXCEPT !.pending = NoDecision,
                               !.don = WithState(@, chosen, "active")]
  BY DEF Good, GameOK, GameStates
<1> HIDE DEF z
<1>3. /\ GameOK(answered) /\ answered.status = "active" /\ answered.phase = "end"
      /\ answered.pending = NoDecision /\ EndKeeps(state, answered)
  BY <1>1, <1>2 DEF Good, GameOK, GameStates, DonOK, Decisions, EndKeeps, SameTurn
<1> HIDE DEF answered
<1>4. /\ GameOK(u) /\ u.status = "active" /\ u.phase = "end" /\ u.pending = NoDecision
      /\ u.don = answered.don /\ u.deck = answered.deck
  BY <1>3, UnqueuedOK
<1>5. EndKeeps(answered, u)
  BY <1>3, <1>4 DEF EndKeeps, SameTurn, Unqueued, GameOK, GameStates
<1> HIDE DEF u
<1>6. /\ GameOK(r) /\ EmptyOK(r) /\ SameFlow(u, r)
      /\ r.status \in {"active", "completed"}
      /\ EndKeeps(u, r)
  BY <1>4, CheckpointOK, CheckpointKeeps DEF EndKeeps, SameTurn
<1>7. Running(r)
  BY <1>4, <1>6 DEF Running, SameFlow, NoDecision
<1> HIDE DEF r
<1>8. Running(ran) /\ Fit(ran) /\ EndKeeps(r, ran)
  BY <1>7, RunQueueOK, RunQueueKeeps DEF Running
<1> HIDE DEF ran
<1>9. EndKeeps(state, ran)
  BY <1>3, <1>5, <1>6, <1>8, EndKeepsTransitive
<1>10. IF ran.pending # NoDecision \/ ran.queue # {} THEN Hosted(ran)
       ELSE Hosted(AdvanceEndPhase(ran))
  BY <1>a DEF SelectTargets, ran, r, u
<1>11. CASE ran.pending # NoDecision \/ ran.queue # {}
  BY <1>1, <1>8, <1>9, <1>10, <1>11, AnswerAwaited DEF Good, Running
<1>12. CASE ran.pending = NoDecision /\ ran.queue = {}
  BY <1>1, <1>8, <1>9, <1>10, <1>12, HandsOver DEF Good
<1>13. QED
  BY <1>11, <1>12

---------------------------------------------------------------------------
(* Theorems *)

LEMMA NextTurnCall == IInv /\ TurnsCounted /\ [Next]_state => TurnCall \/ UNCHANGED state
<1> SUFFICES ASSUME IInv, TurnsCounted, Next PROVE TurnCall
  OBVIOUS
<1>1. CASE StartMatch
  BY <1>1, StartCall
<1>2. ASSUME NEW p \in Player, Concede(p) PROVE TurnCall
  <2>1. state \in GameStates
    BY IInvOK DEF GameOK
  <2>2. state'.status = "completed" /\ state'.globalTurn = state.globalTurn
    BY <1>2, <2>1 DEF Concede, GameStates
  <2>3. QED
    BY <2>2 DEF TurnCall
<1>3. CASE MainCall
  <2>1. Good(state)
    BY <1>3, IInvOK
    DEF MainCall, GiveDon, PlayCharacter, EffectRestsDon, EffectActivatesDon,
        EffectGivesDon, EffectLocksDon, EffectAddsDon, EffectReturnsDon,
        CharacterLeaves, CharacterTrashedInstead, EffectDraws, InMain
  <2>2. QED
    BY <1>3, <2>1, MainCallStays
<1>4. CASE EndMainPhase
  BY <1>4, IInvOK, EndMainPhaseCall DEF EndMainPhase, InMain
<1>5. ASSUME NEW e \in Host, ChooseTriggerOrder(e) PROVE TurnCall
  BY <1>5, IInvOK, ChooseTriggerOrderCall DEF ChooseTriggerOrder, Answering
<1>6. ASSUME NEW chosen \in SUBSET Don, SelectTargets(chosen) PROVE TurnCall
  BY <1>6, IInvOK, SelectTargetsCall DEF SelectTargets, Answering
<1>7. QED
  BY <1>1, <1>2, <1>3, <1>4, <1>5, <1>6 DEF Next, MainCall

LEMMA TurnsCountedHolds == Spec => []TurnsCounted
<1>1. Init => TurnsCounted
  BY DEF Init, SetupState, TurnsCounted
<1>2. IInv /\ TurnsCounted /\ [Next]_state => TurnsCounted'
  <2> SUFFICES ASSUME IInv, TurnsCounted, [Next]_state PROVE TurnsCounted'
    OBVIOUS
  <2>1. state.globalTurn \in Nat
    BY IInvOK DEF GameOK, GameStates
  <2>2. CASE TurnCall
    BY <2>1, <2>2 DEF TurnCall, TurnsCounted
  <2>3. CASE UNCHANGED state
    BY <2>3 DEF TurnsCounted
  <2>4. QED
    BY <2>2, <2>3, NextTurnCall
<1>3. QED
  BY <1>1, <1>2, IInvHolds, PTL DEF Spec

\* Every turn begins whole: for any cards, hosts, effects and sizes, and
\* whatever the turn before left on hosts, rested or without a state.
THEOREM EveryTurnBeginsWhole == Spec => TurnsBeginWhole
<1>1. IInv /\ TurnsCounted /\ [Next]_state
        => [state'.status = "active"
              /\ (state.status = "setup" \/ state'.globalTurn # state.globalTurn)
            => BeginsTurn]_state
  BY NextTurnCall DEF TurnCall
<1>2. QED
  BY <1>1, IInvHolds, TurnsCountedHolds, PTL DEF Spec, TurnsBeginWhole

\* So it does when the turn before was one of battles.
THEOREM TurnsAfterBattlesBeginWhole == BattleSpec => TurnsBeginWhole
BY BattlesAreTurnSteps, EveryTurnBeginsWhole, PTL

---------------------------------------------------------------------------
(* What the mandatory phases and the effect queue leave alone *)

\* A checkpoint leaves alone what the flow is made of.
LEMMA CheckpointFlow ==
  ASSUME NEW s, GameOK(s)
  PROVE  /\ SameFlow(s, Checkpoint(s))
         /\ Checkpoint(s).status \in {s.status, "completed"}
<1> DEFINE w == IF Losers(s) = Player THEN "draw"
                ELSE CHOOSE p \in Player : p \notin Losers(s)
<1>1. Checkpoint(s) \in {s, [s EXCEPT !.status = "completed", !.winner = w]}
  BY DEF Checkpoint
<1> HIDE DEF w
<1>2. QED
  BY <1>1 DEF SameFlow, GameOK, GameStates

\* A round outside the end phase does not reach it, asks nothing and queues
\* nothing.
LEMMA AdvanceOnceFlow ==
  ASSUME NEW s, Good(s), s.phase # "end", NEW cards, CanPlace(s, cards)
  PROVE  LET t == AdvanceOnce(s, cards)
         IN  t.phase # "end" /\ t.pending = s.pending /\ t.queue = s.queue
<1>1. CASE Stops(s)
  BY <1>1 DEF AdvanceOnce
<1>2. CASE ~Stops(s) /\ s.phase = "refresh"
  <2> DEFINE z == RefreshDon(s.don, s.turnPlayer)
             u == [s EXCEPT !.don = z, !.phase = "draw"]
  <2>1. DonOK(z)
    BY GameDon, RefreshDonOK DEF Good
  <2>2. AdvanceOnce(s, cards) = Checkpoint(u)
    BY <1>2 DEF AdvanceOnce, AdvanceRefreshPhase
  <2> HIDE DEF z
  <2>3. GameOK(u) /\ u.phase = "draw" /\ u.pending = s.pending /\ u.queue = s.queue
    BY <2>1 DEF Good, GameOK, GameStates, DonOK, Phases
  <2> HIDE DEF u
  <2>4. QED
    BY <2>2, <2>3, CheckpointFlow DEF SameFlow
<1>3. CASE ~Stops(s) /\ s.phase = "draw"
  <2> DEFINE d == IF FirstTurn(s) THEN s ELSE Draws(s, s.turnPlayer)
             u == [d EXCEPT !.phase = "don"]
  <2>1. GameOK(d) /\ SameFlow(s, d)
    BY DrawsOK, GameDon DEF Good, SameFlow
  <2>2. AdvanceOnce(s, cards) = Checkpoint(u)
    BY <1>3 DEF AdvanceOnce, AdvanceDrawPhase
  <2> HIDE DEF d
  <2>3. GameOK(u) /\ u.phase = "don" /\ u.pending = d.pending /\ u.queue = d.queue
    BY <2>1 DEF GameOK, GameStates, Phases
  <2> HIDE DEF u
  <2>4. QED
    BY <2>1, <2>2, <2>3, CheckpointFlow DEF SameFlow
<1>4. CASE ~Stops(s) /\ s.phase = "don"
  <2> DEFINE z == PlaceDon(s.don, s.turnPlayer, cards, "active")
             u == [s EXCEPT !.don = z]
             v == AdvanceDonPhase(s, cards)
             w == [v EXCEPT !.phase = "main"]
  <2>1. DonOK(z)
    BY <1>4, GameDon, PlaceDonOK DEF Good, CanPlace, CardState
  <2>2. AdvanceOnce(s, cards) = EnterMainPhase(v) /\ v = Checkpoint(u)
    BY <1>4 DEF AdvanceOnce, AdvanceDonPhase
  <2> HIDE DEF z
  <2>3. /\ GameOK(u) /\ u.phase = "don" /\ u.pending = s.pending /\ u.queue = s.queue
        /\ u.queue = {} /\ u.pending = NoDecision /\ u.status = "active"
    BY <1>4, <2>1 DEF Good, GameOK, GameStates, DonOK, Fit, Stops
  <2> HIDE DEF u, v
  <2>4. Good(v) /\ SameFlow(u, v)
    BY <2>2, <2>3, QuietCheckpoint
  <2>5. GameOK(w) /\ w.phase = "main" /\ w.pending = v.pending /\ w.queue = v.queue
    BY <2>4 DEF Good, GameOK, GameStates, Phases
  <2>6. EnterMainPhase(v) = IF v.status # "active" THEN v ELSE Checkpoint(w)
    BY <2>3, <2>4 DEF EnterMainPhase, SameFlow
  <2> HIDE DEF w
  <2>7. QED
    BY <2>2, <2>3, <2>4, <2>5, <2>6, CheckpointFlow DEF SameFlow
<1>5. QED
  <2>1. ~Stops(s) => s.phase \in {"refresh", "draw", "don"}
    BY DEF Stops, Good, GameOK, GameStates, Phases
  <2>2. QED
    BY <1>1, <1>2, <1>3, <1>4, <2>1

\* A call that the engine leaves outside the end phase ends outside it.
LEMMA HostedFlow ==
  ASSUME NEW s, Good(s), s.phase # "end", Hosted(s)
  PROVE  state'.phase # "end" /\ state'.pending = s.pending /\ state'.queue = s.queue
<1>1. PICK cards \in Placements(s) : state' = AdvanceToMain(s, cards)
  BY DEF Hosted
<1>2. CanPlace(s, cards)
  BY <1>1 DEF CanPlace, Placements, TopDon
<1> DEFINE s1 == AdvanceOnce(s, cards)
           s2 == AdvanceOnce(s1, cards)
           s3 == AdvanceOnce(s2, cards)
           s4 == AdvanceOnce(s3, cards)
<1>3. state' = s4
  BY <1>1 DEF AdvanceToMain
<1>4. /\ Good(s1) /\ CanPlace(s1, cards)
      /\ s1.phase # "end" /\ s1.pending = s.pending /\ s1.queue = s.queue
  BY <1>2, AdvanceOnceOK, AdvanceOnceFlow
<1> HIDE DEF s1
<1>5. /\ Good(s2) /\ CanPlace(s2, cards)
      /\ s2.phase # "end" /\ s2.pending = s.pending /\ s2.queue = s.queue
  BY <1>4, AdvanceOnceOK, AdvanceOnceFlow
<1> HIDE DEF s2
<1>6. /\ Good(s3) /\ CanPlace(s3, cards)
      /\ s3.phase # "end" /\ s3.pending = s.pending /\ s3.queue = s.queue
  BY <1>5, AdvanceOnceOK, AdvanceOnceFlow
<1> HIDE DEF s3
<1>7. s4.phase # "end" /\ s4.pending = s.pending /\ s4.queue = s.queue
  BY <1>6, AdvanceOnceFlow
<1>8. QED
  BY <1>3, <1>7

\* One that the engine leaves in the end phase ends as the engine left it.
LEMMA HostedWaits ==
  ASSUME NEW s, s.phase = "end", Hosted(s)
  PROVE  state' = s
<1>1. \A cards : AdvanceOnce(s, cards) = s
  BY DEF AdvanceOnce, Stops
<1>2. \A cards : AdvanceToMain(s, cards) = s
  BY <1>1 DEF AdvanceToMain
<1>3. QED
  BY <1>2 DEF Hosted

\* The hand-over leaves the end phase and moves no DON!! card.
LEMMA AdvanceEndPhaseFlow ==
  ASSUME NEW s, Running(s)
  PROVE  LET t == AdvanceEndPhase(s)
         IN  t.phase = "refresh" /\ t.pending = s.pending /\ t.don = s.don
<1>1. s \in GameStates
  BY DEF Running, GameOK
<1>2. \A u : /\ Checkpoint(u).phase = u.phase /\ Checkpoint(u).pending = u.pending
             /\ Checkpoint(u).don = u.don
  BY DEF Checkpoint
<1>3. QED
  BY <1>1, <1>2 DEF AdvanceEndPhase, GameStates

\* An effect of the end phase takes entries off the queue only, and moves no
\* DON!! card.
LEMMA ResolveEntryShrinks ==
  ASSUME NEW s, GameOK(s), NEW e
  PROVE  ResolveEntry(s, e).queue \subseteq s.queue /\ ResolveEntry(s, e).don = s.don
<1>1. CASE Block[e] \in Asks
  BY <1>1 DEF ResolveEntry, GameOK, GameStates
<1>2. CASE Block[e] \notin Asks
  <2> DEFINE d == Draws(s, s.turnPlayer)
             u == Unqueued(d, e)
  <2>1. GameOK(d) /\ d.don = s.don /\ d.queue = s.queue
    BY DrawsOK, GameDon DEF SameFlow
  <2>2. ResolveEntry(s, e) = Checkpoint(u)
    BY <1>2 DEF ResolveEntry
  <2> HIDE DEF d
  <2>3. GameOK(u) /\ u.don = d.don /\ u.queue \subseteq d.queue
    BY <2>1, UnqueuedOK
  <2> HIDE DEF u
  <2>4. QED
    BY <2>1, <2>2, <2>3, CheckpointFlow DEF SameFlow
<1>3. QED
  BY <1>1, <1>2

LEMMA RunQueueShrinks ==
  ASSUME NEW s, GameOK(s)
  PROVE  RunQueue(s).queue \subseteq s.queue /\ RunQueue(s).don = s.don
<1>1. CASE s.status # "active" \/ s.pending # NoDecision \/ s.queue = {}
  BY <1>1 DEF RunQueue
<1>2. CASE /\ ~(s.status # "active" \/ s.pending # NoDecision \/ s.queue = {})
           /\ Cardinality(s.queue) > 1
  BY <1>2 DEF RunQueue, GameOK, GameStates
<1>3. CASE /\ ~(s.status # "active" \/ s.pending # NoDecision \/ s.queue = {})
           /\ ~(Cardinality(s.queue) > 1)
  <2>1. RunQueue(s) = ResolveEntry(s, CHOOSE e \in s.queue : TRUE)
    BY <1>3 DEF RunQueue
  <2>2. QED
    BY <2>1, ResolveEntryShrinks
<1>4. QED
  BY <1>1, <1>2, <1>3

---------------------------------------------------------------------------
(* The two end phases that nothing continues *)

\* The turn player's effects of the end phase were ordered to the last and
\* none of them asks.
DrawsOrdered ==
    \E e \in Host : /\ ChooseTriggerOrder(e)
                    /\ \A f \in state.queue : Block[f] \notin Asks

\* The turn ends with two effects of one id.
TwinsQueued == EndMainPhase /\ ~DistinctIds(EndOfTurnEntries(state))

\* Whenever a call stops to ask, its queue has distinct ids.
AskedDistinct(s) == s.pending # NoDecision => DistinctIds(s.queue)

\* Which target is asked of a queue with distinct ids.
TargetsDistinct == state.pending.type = "selectTargets" => DistinctIds(state.queue)

\* Which effect comes next is asked of a queue that has one.
OrderOfSome(s) ==
    s.status = "active" /\ s.pending.type = "chooseTriggerOrder" => s.queue # {}

\* A call that ends in the end phase gave no card to a host, and did not
\* begin the phase with a card on two hosts.
KeepsAttached ==
    state'.phase = "end" =>
        /\ state'.don.attachedDon = state.don.attachedDon
        /\ state.phase = "end" \/ AttachedOnce

\* What a call can do about the end phase: it leaves it, waits in it for an
\* answer, or is one of the two.
EndPhaseCall ==
    /\ EndPhaseProceeds' \/ DrawsOrdered
    /\ AskedDistinct(state) => AskedDistinct(state') \/ TwinsQueued
    /\ TargetsDistinct => TargetsDistinct'
    /\ OrderOfSome(state')
    /\ KeepsAttached

LEMMA FewerDistinct ==
  ASSUME NEW Q, NEW R, R \subseteq Q, DistinctIds(Q)
  PROVE  DistinctIds(R)
BY DEF DistinctIds

\* A call that leaves the end phase behind it, with nothing asked.
LEMMA LeavesEndPhase ==
  ASSUME state'.phase # "end", state'.pending = NoDecision
  PROVE  EndPhaseCall
BY DEF EndPhaseCall, EndPhaseProceeds, AskedDistinct, TargetsDistinct, OrderOfSome,
       KeepsAttached, NoDecision

\* A call that ends where its effects stopped.
LEMMA StopsInEndPhase ==
  ASSUME NEW s, DistinctIds(s.queue), OrderOfSome(s), state' = s,
         s.status = "active" => s.pending # NoDecision \/ DrawsOrdered,
         s.don.attachedDon = state.don.attachedDon,
         state.phase = "end" \/ AttachedOnce
  PROVE  EndPhaseCall
BY DEF EndPhaseCall, EndPhaseProceeds, AskedDistinct, TargetsDistinct, KeepsAttached

\* The queue asks which effect comes next while it has two or more.
LEMMA ResolveEntryOrders ==
  ASSUME NEW s, GameOK(s), s.pending = NoDecision, NEW e
  PROVE  OrderOfSome(ResolveEntry(s, e))
<1>1. CASE Block[e] \in Asks
  BY <1>1 DEF ResolveEntry, OrderOfSome, GameOK, GameStates
<1>2. CASE Block[e] \notin Asks
  <2> DEFINE d == Draws(s, s.turnPlayer)
             u == Unqueued(d, e)
  <2>1. GameOK(d) /\ d.pending = NoDecision
    BY DrawsOK, GameDon DEF SameFlow
  <2>2. ResolveEntry(s, e) = Checkpoint(u)
    BY <1>2 DEF ResolveEntry
  <2> HIDE DEF d
  <2>3. GameOK(u) /\ u.pending = NoDecision
    BY <2>1, UnqueuedOK
  <2> HIDE DEF u
  <2>4. ResolveEntry(s, e).pending = NoDecision
    BY <2>2, <2>3, CheckpointFlow DEF SameFlow
  <2>5. QED
    BY <2>4 DEF OrderOfSome, NoDecision
<1>3. QED
  BY <1>1, <1>2

LEMMA RunQueueOrders ==
  ASSUME NEW s, GameOK(s), OrderOfSome(s)
  PROVE  OrderOfSome(RunQueue(s))
<1>1. CASE s.status # "active" \/ s.pending # NoDecision \/ s.queue = {}
  BY <1>1 DEF RunQueue
<1>2. CASE /\ ~(s.status # "active" \/ s.pending # NoDecision \/ s.queue = {})
           /\ Cardinality(s.queue) > 1
  BY <1>2 DEF RunQueue, OrderOfSome, GameOK, GameStates
<1>3. CASE /\ ~(s.status # "active" \/ s.pending # NoDecision \/ s.queue = {})
           /\ ~(Cardinality(s.queue) > 1)
  <2>1. RunQueue(s) = ResolveEntry(s, CHOOSE e \in s.queue : TRUE)
    BY <1>3 DEF RunQueue
  <2>2. QED
    BY <1>3, <2>1, ResolveEntryOrders
<1>4. QED
  BY <1>1, <1>2, <1>3

\* In the main phase, and before the match, nothing is asked.
LEMMA MainCallFlow ==
  ASSUME Good(state), MainCall
  PROVE  EndPhaseCall
<1>1. InMain /\ state \in GameStates
  BY DEF MainCall, GiveDon, PlayCharacter, EffectRestsDon, EffectActivatesDon,
         EffectGivesDon, EffectLocksDon, EffectAddsDon, EffectReturnsDon,
         CharacterLeaves, CharacterTrashedInstead, EffectDraws, Good, GameOK
<1>2. \A x : Checkpoint(x).phase = x.phase /\ Checkpoint(x).pending = x.pending
  BY DEF Checkpoint
<1>3. state'.phase = state.phase /\ state'.pending = state.pending
  <2>1. ASSUME NEW h \in Host, NEW d \in Don, GiveDon(h, d)
        PROVE  state'.phase = state.phase /\ state'.pending = state.pending
    BY <1>1, <1>2, <2>1 DEF GiveDon, GameStates
  <2>2. ASSUME NEW h \in Host, NEW paid \in SUBSET Don,
               NEW overflow \in Host \cup {NoHost}, PlayCharacter(h, paid, overflow)
        PROVE  state'.phase = state.phase /\ state'.pending = state.pending
    BY <1>1, <2>2 DEF PlayCharacter, GameStates
  <2>3. ASSUME NEW p \in Player, EffectDraws(p)
        PROVE  state'.phase = state.phase /\ state'.pending = state.pending
    BY <1>1, <1>2, <2>3 DEF EffectDraws, Draws, GameStates
  <2>4. QED
    BY <1>1, <2>1, <2>2, <2>3
    DEF MainCall, EffectRestsDon, EffectActivatesDon, EffectGivesDon, EffectLocksDon,
        EffectAddsDon, EffectReturnsDon, CharacterLeaves, CharacterTrashedInstead,
        GameStates
<1>4. QED
  BY <1>1, <1>3, LeavesEndPhase DEF InMain

LEMMA StartFlow ==
  ASSUME IInv, StartMatch
  PROVE  EndPhaseCall
<1> DEFINE s == [state EXCEPT !.status = "active"]
<1>1. state = SetupState
  BY DEF IInv, StartMatch, Good
<1>2. /\ s \in GameStates /\ s.don = state.don /\ s.status = "active"
      /\ s.queue = {} /\ s.pending = NoDecision /\ s.deck = state.deck
      /\ s.phase = "refresh"
  BY <1>1, SetupOK DEF SetupState, GameOK, GameStates
<1>3. Good(s)
  BY <1>1, <1>2, SetupOK, SizesAssumption
  DEF Good, GameOK, EmptyOK, Fit, NoDecision, SetupState
<1>4. Hosted(s)
  BY DEF StartMatch
<1> HIDE DEF s
<1>5. QED
  BY <1>2, <1>3, <1>4, HostedFlow, LeavesEndPhase

\* The turn is handed over after effects that asked nothing.
LEMMA HandOverFlow ==
  ASSUME NEW ran, Running(ran), ran.pending = NoDecision, Fit(ran),
         Hosted(AdvanceEndPhase(ran))
  PROVE  EndPhaseCall
<1> DEFINE s == AdvanceEndPhase(ran)
<1>1. Good(s)
  BY AdvanceEndPhaseOK DEF Fit
<1>2. s.phase = "refresh" /\ s.pending = NoDecision
  BY AdvanceEndPhaseFlow
<1> HIDE DEF s
<1>3. QED
  BY <1>1, <1>2, HostedFlow, LeavesEndPhase DEF s

LEMMA EndMainPhaseFlow ==
  ASSUME Good(state), EndMainPhase
  PROVE  EndPhaseCall
<1> DEFINE main == [state EXCEPT !.phase = "end"]
           ended == Checkpoint(main)
           entries == EndOfTurnEntries(ended)
           queued == [ended EXCEPT !.queue = entries]
           ran == RunQueue(queued)
<1>1. /\ GameOK(main) /\ main.phase = "end" /\ main.status = "active"
      /\ main.pending = NoDecision /\ main.queue = {}
      /\ main.turnPlayer = state.turnPlayer /\ main.field = state.field
      /\ main.don = state.don
  BY DEF EndMainPhase, InMain, Good, GameOK, GameStates, Phases
<1> HIDE DEF main
<1>2. /\ GameOK(ended) /\ EmptyOK(ended) /\ ended.phase = "end"
      /\ ended.pending = NoDecision /\ ended.queue = {}
      /\ ended.status \in {"active", "completed"}
      /\ ended.turnPlayer = state.turnPlayer /\ ended.field = state.field
      /\ ended.don = state.don
  BY <1>1, CheckpointOK DEF SameFlow
<1> HIDE DEF ended
<1>a. AttachedOnce
  BY DEF EndMainPhase, AttachedOnce
<1>3. CASE ended.status # "active"
  <2>1. state' = ended
    BY <1>3 DEF EndMainPhase, ended, main
  <2>2. DistinctIds({}) /\ OrderOfSome(ended)
    BY <1>2 DEF DistinctIds, OrderOfSome, NoDecision
  <2>3. QED
    BY <1>2, <1>3, <1>a, <2>1, <2>2, StopsInEndPhase
<1>4. CASE ended.status = "active"
  <2>1. entries \in SUBSET Host /\ entries = EndOfTurnEntries(state)
    BY <1>2, LeaderAssumption, GameDon
    DEF EndOfTurnEntries, OnField, Characters, HostsOf
  <2> HIDE DEF entries
  <2>2. /\ Running(queued) /\ queued.queue = entries /\ queued.pending = NoDecision
        /\ queued.status = "active" /\ queued.don = state.don
    BY <1>2, <1>4, <2>1 DEF Running, GameOK, GameStates, EmptyOK, NoDecision
  <2> HIDE DEF queued
  <2>3. /\ Running(ran) /\ Fit(ran) /\ ran.queue \subseteq entries
        /\ ran.don = state.don
    BY <2>2, RunQueueOK, RunQueueShrinks DEF Running
  <2>a. OrderOfSome(ran)
    BY <2>2, RunQueueOrders DEF Running, OrderOfSome, NoDecision
  <2>4. ran.pending.type = "selectTargets" => DistinctIds(entries)
    <3>1. Cardinality(entries) > 1 => ran.pending.type = "chooseTriggerOrder"
      <4>1. entries # {} \/ ~(Cardinality(entries) > 1)
        BY FS_EmptySet
      <4>2. queued \in GameStates
        BY <2>2 DEF Running, GameOK
      <4>3. QED
        BY <2>2, <4>1, <4>2 DEF RunQueue, GameStates
    <3>2. Cardinality(entries) \in Nat /\ IsFiniteSet(entries)
      BY <2>1, FiniteDonAssumption, FS_Subset, FS_CardinalityType
    <3>3. Cardinality(entries) = 0 => entries = {}
      BY <3>2, FS_EmptySet
    <3>4. Cardinality(entries) = 1 => \E e : entries = {e}
      BY <3>2, FS_Singleton
    <3>5. ~(Cardinality(entries) > 1) => entries = {} \/ \E e : entries = {e}
      <4>1. Cardinality(entries) > 1 \/ Cardinality(entries) = 0 \/ Cardinality(entries) = 1
        BY <3>2
      <4>2. QED
        BY <3>3, <3>4, <4>1
    <3>6. QED
      BY <3>1, <3>5 DEF DistinctIds
  <2> HIDE DEF ran
  <2>5. CASE ran.pending # NoDecision
    <3>1. Hosted(ran)
      BY <1>4, <2>5 DEF EndMainPhase, ran, queued, entries, ended, main
    <3>2. state' = ran
      BY <2>3, <3>1, HostedWaits DEF Running
    <3>3. DistinctIds(entries) => AskedDistinct(state')
      BY <2>3, <3>2, FewerDistinct DEF AskedDistinct
    <3>4. TargetsDistinct'
      BY <2>3, <2>4, <3>2, FewerDistinct DEF TargetsDistinct
    <3>5. QED
      BY <1>a, <2>1, <2>3, <2>5, <2>a, <3>2, <3>3, <3>4
      DEF EndPhaseCall, EndPhaseProceeds, TwinsQueued, KeepsAttached
  <2>6. CASE ran.pending = NoDecision
    <3>1. Hosted(AdvanceEndPhase(ran))
      BY <1>4, <2>6 DEF EndMainPhase, ran, queued, entries, ended, main
    <3>2. QED
      BY <2>3, <2>6, <3>1, HandOverFlow
  <2>7. QED
    BY <2>5, <2>6
<1>5. QED
  BY <1>3, <1>4

\* Until the last effect is ordered the queue goes on asking.
LEMMA ChooseTriggerOrderFlow ==
  ASSUME Good(state), NEW e \in Host, ChooseTriggerOrder(e)
  PROVE  EndPhaseCall
<1> DEFINE s == [state EXCEPT !.pending = NoDecision]
           d == Draws(s, s.turnPlayer)
           u == Unqueued(d, e)
           r == ResolveEntry(s, e)
           ran == RunQueue(r)
<1>1. /\ state.status = "active" /\ state.phase = "end" /\ e \in state.queue
      /\ DistinctIds(state.queue)
  BY DEF ChooseTriggerOrder, Answering, Good, Fit
<1>2. /\ Running(s) /\ s.status = "active" /\ s.pending = NoDecision
      /\ s.queue = state.queue /\ s.turnPlayer = state.turnPlayer
      /\ s.don = state.don
  BY <1>1 DEF Good, Running, GameOK, GameStates, EmptyOK, Decisions, NoDecision
<1>3. Hosted(ran)
  BY DEF ChooseTriggerOrder, ran, r, s
<1> HIDE DEF s
<1>4. Running(r) /\ r.queue \subseteq state.queue /\ r.don = state.don
  BY <1>1, <1>2, ResolveEntryOK, ResolveEntryShrinks DEF Running
<1>5. /\ Running(ran) /\ Fit(ran) /\ ran.queue \subseteq state.queue
      /\ ran.don = state.don
  BY <1>4, RunQueueOK, RunQueueShrinks DEF Running
<1>6. state' = ran
  BY <1>3, <1>5, HostedWaits DEF Running
<1>7. DistinctIds(ran.queue)
  BY <1>1, <1>5, FewerDistinct
<1>a. OrderOfSome(ran)
  <2>1. OrderOfSome(r)
    BY <1>2, ResolveEntryOrders DEF Running
  <2> HIDE DEF r
  <2>2. QED
    BY <1>4, <2>1, RunQueueOrders DEF Running
<1>8. ASSUME ran.status = "active", ran.pending = NoDecision
      PROVE  DrawsOrdered
  <2>1. r.status = "active"
    BY <1>8 DEF RunQueue
  <2>2. r.pending = NoDecision
    BY <1>8 DEF RunQueue
  <2>3. Block[e] \notin Asks
    <3> SUFFICES ASSUME Block[e] \in Asks PROVE FALSE
      OBVIOUS
    <3>1. r = [s EXCEPT !.pending = [type |-> "selectTargets", entry |-> e]]
      BY DEF ResolveEntry
    <3>2. r.pending = [type |-> "selectTargets", entry |-> e]
      BY <1>2, <3>1 DEF Running, GameOK, GameStates
    <3>3. QED
      BY <2>2, <3>2 DEF NoDecision
  <2>4. r.queue = {x \in state.queue : Block[x] # Block[e]}
    <3>1. GameOK(d) /\ d.queue = s.queue
      BY <1>2, DrawsOK, GameDon DEF SameFlow, Running
    <3>2. r = Checkpoint(u)
      BY <2>3 DEF ResolveEntry
    <3> HIDE DEF d, r
    <3>3. GameOK(u) /\ u.queue = {x \in d.queue : Block[x] # Block[e]}
      BY <3>1, UnqueuedOK
    <3> HIDE DEF u
    <3>4. QED
      BY <1>2, <3>1, <3>2, <3>3, CheckpointFlow DEF SameFlow
  <2> HIDE DEF r
  <2>5. ASSUME NEW f \in state.queue, Block[f] \in Asks
        PROVE  FALSE
    <3>1. f \in r.queue
      BY <2>3, <2>4, <2>5
    <3>2. CASE Cardinality(r.queue) > 1
      <4>1. ran = [r EXCEPT !.pending = [type |-> "chooseTriggerOrder", entry |-> NoHost]]
        BY <2>1, <2>2, <3>1, <3>2 DEF RunQueue, ran
      <4>2. ran.pending.type = "chooseTriggerOrder"
        BY <1>4, <4>1 DEF Running, GameOK, GameStates
      <4>3. QED
        BY <1>8, <4>2 DEF NoDecision
    <3>3. CASE ~(Cardinality(r.queue) > 1)
      <4> DEFINE g == CHOOSE x \in r.queue : TRUE
      <4>1. g \in r.queue /\ ran = ResolveEntry(r, g)
        BY <2>1, <2>2, <3>1, <3>3 DEF RunQueue
      <4>2. IsFiniteSet(r.queue) /\ Cardinality(r.queue) \in Nat /\ Cardinality(r.queue) # 0
        BY <1>4, <3>1, FiniteDonAssumption, FS_Subset, FS_CardinalityType, FS_EmptySet
        DEF Running, GameOK, GameStates
      <4>3. Cardinality(r.queue) = 1
        BY <3>3, <4>2
      <4>4. r.queue = {g}
        BY <4>1, <4>2, <4>3, FS_Singleton
      <4> HIDE DEF g, ran
      <4>5. ran = [r EXCEPT !.pending = [type |-> "selectTargets", entry |-> f]]
        BY <2>5, <3>1, <4>1, <4>4 DEF ResolveEntry
      <4>6. ran.pending.type = "selectTargets"
        BY <1>4, <4>5 DEF Running, GameOK, GameStates
      <4>7. QED
        BY <1>8, <4>6 DEF NoDecision
    <3>4. QED
      BY <3>2, <3>3
  <2>6. QED
    BY <2>5 DEF DrawsOrdered
<1> HIDE DEF ran
<1>9. QED
  BY <1>1, <1>5, <1>6, <1>7, <1>8, <1>a, StopsInEndPhase

\* The entry answered for is gone, and with it what the queue asked about it.
LEMMA SelectTargetsFlow ==
  ASSUME Good(state), TargetsDistinct, NEW chosen \in SUBSET Don, SelectTargets(chosen)
  PROVE  EndPhaseCall
<1> DEFINE z == WithState(state.don, chosen, "active")
           answered == [state EXCEPT !.pending = NoDecision, !.don = z]
           u == Unqueued(answered, state.pending.entry)
           r == Checkpoint(u)
           ran == RunQueue(r)
<1>1. /\ state.status = "active" /\ state.phase = "end"
      /\ DistinctIds(state.queue)
  BY DEF SelectTargets, Answering, Good, Fit, NoDecision, TargetsDistinct
<1>2. DonOK(z) /\ z.attachedDon = state.don.attachedDon
  BY StateDonOK, WithStateOK DEF CardState
<1>a. answered = [state EXCEPT !.pending = NoDecision,
                               !.don = WithState(@, chosen, "active")]
  BY DEF Good, GameOK, GameStates
<1> HIDE DEF z
<1>3. /\ GameOK(answered) /\ answered.status = "active" /\ answered.phase = "end"
      /\ answered.pending = NoDecision /\ answered.queue = state.queue
      /\ answered.don = z
  BY <1>1, <1>2 DEF Good, GameOK, GameStates, DonOK, Decisions
<1> HIDE DEF answered
<1>4. /\ GameOK(u) /\ u.status = "active" /\ u.phase = "end" /\ u.pending = NoDecision
      /\ u.queue \subseteq state.queue /\ u.don = z
  BY <1>3, UnqueuedOK
<1> HIDE DEF u
<1>5. /\ GameOK(r) /\ EmptyOK(r) /\ SameFlow(u, r)
      /\ r.status \in {"active", "completed"}
  BY <1>4, CheckpointOK
<1>6. Running(r) /\ r.queue \subseteq state.queue /\ r.pending = NoDecision /\ r.don = z
  BY <1>4, <1>5 DEF Running, SameFlow, NoDecision
<1> HIDE DEF r
<1>7. Running(ran) /\ Fit(ran) /\ ran.queue \subseteq state.queue /\ ran.don = z
  BY <1>6, RunQueueOK, RunQueueShrinks DEF Running
<1>b. OrderOfSome(ran)
  BY <1>6, RunQueueOrders DEF Running, OrderOfSome, NoDecision
<1> HIDE DEF ran
<1>8. IF ran.pending # NoDecision \/ ran.queue # {} THEN Hosted(ran)
      ELSE Hosted(AdvanceEndPhase(ran))
  BY <1>a DEF SelectTargets, ran, r, u
<1>9. CASE ran.pending # NoDecision \/ ran.queue # {}
  <2>1. state' = ran
    BY <1>7, <1>8, <1>9, HostedWaits DEF Running
  <2>2. DistinctIds(ran.queue)
    BY <1>1, <1>7, FewerDistinct
  <2>3. QED
    BY <1>1, <1>2, <1>7, <1>9, <1>b, <2>1, <2>2, StopsInEndPhase DEF Fit
<1>10. CASE ran.pending = NoDecision /\ ran.queue = {}
  BY <1>7, <1>8, <1>10, HandOverFlow
<1>11. QED
  BY <1>9, <1>10

\* A concession takes back what was asked.
LEMMA ConcedeFlow ==
  ASSUME state \in GameStates, NEW p \in Player, Concede(p)
  PROVE  EndPhaseCall
<1>1. /\ state'.status = "completed" /\ state'.pending = NoDecision
      /\ state'.phase = state.phase /\ state'.don = state.don
  BY DEF Concede, GameStates
<1>2. QED
  BY <1>1 DEF EndPhaseCall, EndPhaseProceeds, AskedDistinct, TargetsDistinct,
              OrderOfSome, KeepsAttached, NoDecision

LEMMA NextEndPhaseCall ==
  IInv /\ TargetsDistinct /\ Next => EndPhaseCall
<1> SUFFICES ASSUME IInv, TargetsDistinct, Next
             PROVE  EndPhaseCall
  OBVIOUS
<1>1. CASE StartMatch
  BY <1>1, StartFlow
<1>2. CASE MainCall
  <2>1. Good(state)
    BY <1>2, IInvOK
    DEF MainCall, GiveDon, PlayCharacter, EffectRestsDon, EffectActivatesDon,
        EffectGivesDon, EffectLocksDon, EffectAddsDon, EffectReturnsDon,
        CharacterLeaves, CharacterTrashedInstead, EffectDraws, InMain
  <2>2. QED
    BY <1>2, <2>1, MainCallFlow
<1>3. CASE EndMainPhase
  BY <1>3, IInvOK, EndMainPhaseFlow DEF EndMainPhase, InMain
<1>4. ASSUME NEW e \in Host, ChooseTriggerOrder(e) PROVE EndPhaseCall
  BY <1>4, IInvOK, ChooseTriggerOrderFlow DEF ChooseTriggerOrder, Answering
<1>5. ASSUME NEW chosen \in SUBSET Don, SelectTargets(chosen) PROVE EndPhaseCall
  BY <1>5, IInvOK, SelectTargetsFlow DEF SelectTargets, Answering
<1>6. ASSUME NEW p \in Player, Concede(p) PROVE EndPhaseCall
  BY <1>6, IInvOK, ConcedeFlow DEF GameOK
<1>7. QED
  BY <1>1, <1>2, <1>3, <1>4, <1>5, <1>6 DEF Next, MainCall

LEMMA TargetsDistinctHolds == Spec => [](TargetsDistinct /\ OrderOfSome(state))
<1>1. Init => TargetsDistinct /\ OrderOfSome(state)
  BY DEF Init, SetupState, TargetsDistinct, OrderOfSome, NoDecision
<1>2. IInv /\ (TargetsDistinct /\ OrderOfSome(state)) /\ [Next]_state
        => (TargetsDistinct /\ OrderOfSome(state))'
  <2> SUFFICES ASSUME IInv, TargetsDistinct, OrderOfSome(state), [Next]_state
               PROVE  TargetsDistinct' /\ OrderOfSome(state')
    OBVIOUS
  <2>1. CASE EndPhaseCall
    BY <2>1 DEF EndPhaseCall
  <2>2. CASE UNCHANGED state
    BY <2>2 DEF TargetsDistinct, OrderOfSome
  <2>3. QED
    BY <2>1, <2>2, NextEndPhaseCall
<1>3. QED
  BY <1>1, <1>2, IInvHolds, PTL DEF Spec

\* A live match is left in the end phase with nothing asked by one call
\* only: the one that orders the last of several effects none of which asks
\* (for any cards, hosts and effects; the specification calls for the next
\* refresh phase there).
THEOREM OnlyOrderedDrawsStrand ==
  Spec => EndPhaseProceeds /\ [][EndPhaseProceeds' \/ DrawsOrdered]_state
<1>1. Init => EndPhaseProceeds
  BY DEF Init, SetupState, EndPhaseProceeds
<1>2. IInv /\ TargetsDistinct /\ [Next]_state
        => [EndPhaseProceeds' \/ DrawsOrdered]_state
  BY NextEndPhaseCall DEF EndPhaseCall
<1>3. QED
  BY <1>1, <1>2, IInvHolds, TargetsDistinctHolds, PTL DEF Spec

\* A question about the next effect that accepts no answer is asked by one
\* call only: the one that ends a turn whose player has two effects with one
\* id.
THEOREM OnlyTwinsCannotBeOrdered ==
  Spec => /\ TriggerOrderAnswerable
          /\ [][TriggerOrderAnswerable => TriggerOrderAnswerable' \/ TwinsQueued]_state
<1>1. Init => TriggerOrderAnswerable
  BY DEF Init, SetupState, TriggerOrderAnswerable, NoDecision
<1>2. IInv /\ TargetsDistinct /\ [Next]_state
        => [TriggerOrderAnswerable => TriggerOrderAnswerable' \/ TwinsQueued]_state
  <2> SUFFICES ASSUME IInv, TargetsDistinct, Next, TriggerOrderAnswerable
               PROVE  TriggerOrderAnswerable' \/ TwinsQueued
    OBVIOUS
  <2>1. state.pending \in Decisions
    BY IInvOK DEF GameOK, GameStates
  <2>2. AskedDistinct(state)
    BY <2>1 DEF AskedDistinct, TargetsDistinct, TriggerOrderAnswerable,
                Decisions, NoDecision
  <2>3. EndPhaseCall
    BY NextEndPhaseCall
  <2>4. QED
    BY <2>2, <2>3 DEF EndPhaseCall, AskedDistinct, TriggerOrderAnswerable, NoDecision
<1>3. QED
  BY <1>1, <1>2, IInvHolds, TargetsDistinctHolds, PTL DEF Spec

\* So every such question can be answered when no player has two cards with
\* one [End of Your Turn] effect: copies of one card are what breaks it.
THEOREM AnswerableWithoutTwins ==
  ASSUME \A p \in Player : DistinctIds({h \in HostsOf(p) : Block[h] # NoBlock})
  PROVE  Spec => []TriggerOrderAnswerable
<1>1. IInv => ~TwinsQueued
  <2> SUFFICES ASSUME IInv PROVE DistinctIds(EndOfTurnEntries(state))
    BY DEF TwinsQueued
  <2>1. state.turnPlayer \in Player
    BY IInvOK DEF GameOK, GameStates
  <2>2. EndOfTurnEntries(state)
          \subseteq {h \in HostsOf(state.turnPlayer) : Block[h] # NoBlock}
    BY <2>1, LeaderAssumption DEF EndOfTurnEntries, OnField, Characters, HostsOf
  <2>3. QED
    BY <2>1, <2>2, FewerDistinct
<1>2. /\ IInv /\ TriggerOrderAnswerable
      /\ [TriggerOrderAnswerable => TriggerOrderAnswerable' \/ TwinsQueued]_state
      => TriggerOrderAnswerable'
  BY <1>1 DEF TriggerOrderAnswerable
<1>3. QED
  BY <1>2, IInvHolds, OnlyTwinsCannotBeOrdered, PTL

\* In both a call can only concede: no player has another way on.
THEOREM StrandedMatchesOnlyEnd ==
  Spec => [][~EndPhaseProceeds \/ ~TriggerOrderAnswerable
               => \E p \in Player : Concede(p)]_state
<1>1. IInv /\ [Next]_state
        => [~EndPhaseProceeds \/ ~TriggerOrderAnswerable
              => \E p \in Player : Concede(p)]_state
  <2> SUFFICES ASSUME IInv, Next, ~EndPhaseProceeds \/ ~TriggerOrderAnswerable
               PROVE  \E p \in Player : Concede(p)
    OBVIOUS
  <2>1. ~InMain
    BY DEF InMain, EndPhaseProceeds, TriggerOrderAnswerable, NoDecision
  <2>2. ~StartMatch
    BY DEF StartMatch, IInv, Good, SetupState, EndPhaseProceeds,
           TriggerOrderAnswerable, NoDecision
  <2>3. ~\E e \in Host : ChooseTriggerOrder(e)
    BY DEF ChooseTriggerOrder, Answering, EndPhaseProceeds, TriggerOrderAnswerable,
           NoDecision
  <2>4. ~\E chosen \in SUBSET Don : SelectTargets(chosen)
    <3>1. \A chosen : SelectTargets(chosen) => Answering("selectTargets")
      BY DEF SelectTargets
    <3>2. ~Answering("selectTargets")
      BY DEF Answering, EndPhaseProceeds, TriggerOrderAnswerable, NoDecision
    <3>3. QED
      BY <3>1, <3>2
  <2>5. ~MainCall /\ ~EndMainPhase
    BY <2>1
    DEF MainCall, GiveDon, PlayCharacter, EffectRestsDon, EffectActivatesDon,
        EffectGivesDon, EffectLocksDon, EffectAddsDon, EffectReturnsDon,
        CharacterLeaves, CharacterTrashedInstead, EffectDraws, EndMainPhase
  <2>6. QED
    BY <2>2, <2>3, <2>4, <2>5 DEF Next, MainCall
<1>2. QED
  BY <1>1, IInvHolds, PTL DEF Spec

---------------------------------------------------------------------------
(* What puts one DON!! card on two hosts *)

\* The records agree: an attached card has one host and no state, so nothing
\* takes it for a card of the cost area that is free.
Tied(z) ==
    /\ OneReference(z)
    /\ \A h \in Host, d \in Don : z.attachedDon[h][d] > 0 => z.cardState[d] = "none"

\* Cards that only lose references, and keep or lose their states where they
\* stay attached, stay tied.
LEMMA FewerReferencesTied ==
  ASSUME NEW z, DonOK(z), OneReference(z), NEW w,
         \A h \in Host, d \in Don : w.attachedDon[h][d] \in {0, z.attachedDon[h][d]},
         \A h \in Host, d \in Don : w.attachedDon[h][d] > 0 => w.cardState[d] = "none"
  PROVE  Tied(w)
<1>1. \A h \in Host, d \in Don : z.attachedDon[h][d] \in Nat
  BY DEF DonOK, DonZones
<1>2. OneReference(w)
  BY <1>1 DEF OneReference
<1>3. QED
  BY <1>2 DEF Tied

\* A card with a state is on no host.
LEMMA FreeCards ==
  ASSUME NEW z, DonOK(z), Tied(z), NEW d \in Don, z.cardState[d] # "none"
  PROVE  \A h \in Host : z.attachedDon[h][d] = 0
<1>1. \A h \in Host : z.attachedDon[h][d] \in Nat
  BY DEF DonOK, DonZones
<1>2. QED
  BY <1>1 DEF Tied

\* Cards of one player are on no host of another.
LEMMA OwnHosts ==
  ASSUME NEW z, DonOK(z), NEW h \in Host, NEW d \in Don, z.attachedDon[h][d] > 0
  PROVE  /\ HostOwner[h] \in Player
         /\ d \in z.costArea[HostOwner[h]]
         /\ \A p \in Player : d \in z.costArea[p] => p = HostOwner[h]
         /\ \A p \in Player : d \notin z.donDeck[p]
<1>1. HostOwner[h] \in Player
  BY HostOwnerAssumption
<1>2. d \in AttachedTo(z, HostsOf(HostOwner[h]))
  BY DEF AttachedTo, HostsOf
<1>3. d \in z.costArea[HostOwner[h]]
  BY <1>1, <1>2 DEF DonOK, Conserved
<1>4. \A p \in Player : /\ z.costArea[p] \subseteq DonOf[p]
                        /\ z.donDeck[p] \subseteq DonOf[p]
                        /\ z.donDeck[p] \cap z.costArea[p] = {}
  BY DEF DonOK, Conserved
<1>5. QED
  BY <1>1, <1>3, <1>4, DonOfAssumption

\* States of cards that are on no host may change.
LEMMA WithStateTied ==
  ASSUME NEW z, DonOK(z), Tied(z), NEW cards, NEW new \in CardState,
         \A d \in cards \cap Don : \A h \in Host : z.attachedDon[h][d] = 0
  PROVE  Tied(WithState(z, cards, new))
<1> DEFINE w == WithState(z, cards, new)
<1>1. w.attachedDon = z.attachedDon
  BY WithStateOK
<1>2. \A d \in Don : w.cardState[d] = IF d \in cards THEN new ELSE z.cardState[d]
  BY DEF WithState, DonOK, DonZones
<1> HIDE DEF w
<1>3. QED
  BY <1>1, <1>2, FewerReferencesTied DEF Tied, w

\* A card on no host may be given to one: the assertion refuses no gift.
LEMMA AttachDonTied ==
  ASSUME NEW z, DonOK(z), Tied(z), NEW h \in Host, NEW d \in z.costArea[HostOwner[h]],
         z.cardState[d] # "none"
  PROVE  Tied(AttachDon(z, h, d))
<1> DEFINE s == WithState(z, {d}, "none")
           w == AttachDon(z, h, d)
<1>1. HostOwner[h] \in Player /\ d \in Don
  BY HostOwnerAssumption DEF DonOK, DonZones
<1>2. \A k \in Host : z.attachedDon[k][d] = 0
  BY <1>1, FreeCards
<1>3. DonOK(s) /\ s.attachedDon = z.attachedDon
  BY WithStateOK DEF CardState
<1>4. \A c \in Don : s.cardState[c] = IF c = d THEN "none" ELSE z.cardState[c]
  BY DEF WithState, DonOK, DonZones
<1>5. w = [s EXCEPT !.attachedDon[h][d] = @ + 1]
  BY DEF AttachDon
<1> HIDE DEF s, w
<1>6. w.cardState = s.cardState
  BY <1>3, <1>5 DEF DonOK, DonZones
<1>7. \A k \in Host, c \in Don :
        w.attachedDon[k][c] = IF k = h /\ c = d THEN 1 ELSE z.attachedDon[k][c]
  BY <1>1, <1>2, <1>3, <1>5 DEF DonOK, DonZones
<1>8. \A k \in Host, c \in Don : z.attachedDon[k][c] \in Nat
  BY DEF DonOK, DonZones
<1>9. OneReference(w)
  BY <1>2, <1>7, <1>8 DEF OneReference, Tied
<1>10. \A k \in Host, c \in Don : w.attachedDon[k][c] > 0 => w.cardState[c] = "none"
  BY <1>4, <1>6, <1>7 DEF Tied
<1>11. QED
  BY <1>9, <1>10 DEF Tied, w

\* Cards of a DON!! deck are on no host, so they may be placed.
LEMMA PlaceDonTied ==
  ASSUME NEW z, DonOK(z), Tied(z), NEW p \in Player,
         NEW cards \in SUBSET z.donDeck[p], NEW new \in CardState
  PROVE  Tied(PlaceDon(z, p, cards, new))
<1> DEFINE s == WithState(z, cards, new)
           w == PlaceDon(z, p, cards, new)
<1>1. \A d \in cards \cap Don : \A h \in Host : z.attachedDon[h][d] = 0
  <2> SUFFICES ASSUME NEW d \in cards, d \in Don, NEW h \in Host, z.attachedDon[h][d] # 0
               PROVE  FALSE
    OBVIOUS
  <2>1. z.attachedDon[h][d] \in Nat
    BY DEF DonOK, DonZones
  <2>2. z.attachedDon[h][d] > 0
    BY <2>1
  <2>3. QED
    BY <2>2, OwnHosts
<1>2. DonOK(s) /\ Tied(s)
  BY <1>1, WithStateOK, WithStateTied
<1>3. w = [s EXCEPT !.donDeck[p] = @ \ cards, !.costArea[p] = @ \cup cards]
  BY DEF PlaceDon
<1> HIDE DEF s, w
<1>4. w.attachedDon = s.attachedDon /\ w.cardState = s.cardState
  BY <1>2, <1>3 DEF DonOK, DonZones
<1>5. QED
  BY <1>2, <1>4 DEF Tied, OneReference, w

\* Only its own cards lie with a host, so they lie free when it leaves.
LEMMA HostLeavesTied ==
  ASSUME NEW z, DonOK(z), Tied(z), NEW h \in Host
  PROVE  Tied(HostLeaves(z, h)) /\ Tied(HostTrashedInstead(z, h))
<1> DEFINE cards == AttachedTo(z, {h}) \cap z.costArea[HostOwner[h]]
           s == WithState(z, cards, "rested")
           w == HostLeaves(z, h)
           v == HostTrashedInstead(z, h)
<1>1. DonOK(s) /\ s.attachedDon = z.attachedDon
  BY WithStateOK DEF CardState
<1>2. \A d \in Don : d \notin cards => s.cardState[d] = z.cardState[d]
  BY DEF WithState, DonOK, DonZones
<1>3. \A d \in cards : z.attachedDon[h][d] > 0
  BY DEF AttachedTo
<1> HIDE DEF cards, s
<1>4. w = WithoutReferences(s, {h}, Don) /\ v = WithoutReferences(z, {h}, Don)
  BY DEF HostLeaves, HostTrashedInstead, s, cards
<1> HIDE DEF w, v
<1>5. /\ \A k \in Host, d \in Don :
           w.attachedDon[k][d] = IF k = h THEN 0 ELSE z.attachedDon[k][d]
      /\ \A k \in Host, d \in Don :
           v.attachedDon[k][d] = IF k = h THEN 0 ELSE z.attachedDon[k][d]
  BY <1>1, <1>4, WithoutReferencesOK
<1>6. w.cardState = s.cardState /\ v.cardState = z.cardState
  BY <1>1, <1>4 DEF WithoutReferences, DonOK, DonZones
<1>7. ASSUME NEW k \in Host, NEW d \in Don, w.attachedDon[k][d] > 0
      PROVE  w.cardState[d] = "none"
  <2>1. k # h /\ z.attachedDon[k][d] > 0
    BY <1>5, <1>7
  <2>2. d \notin cards
    BY <1>3, <2>1 DEF Tied, OneReference
  <2>3. QED
    BY <1>2, <1>6, <2>1, <2>2 DEF Tied
<1>8. Tied(w)
  BY <1>5, <1>7, FewerReferencesTied DEF Tied
<1>9. Tied(v)
  BY <1>5, <1>6, FewerReferencesTied DEF Tied
<1>10. QED
  BY <1>8, <1>9 DEF w, v

LEMMA ReturnDonTied ==
  ASSUME NEW z, DonOK(z), Tied(z), NEW p \in Player, NEW cards \in SUBSET z.costArea[p]
  PROVE  Tied(ReturnDon(z, p, cards))
<1> DEFINE s == WithState(z, cards, "none")
           v == WithoutReferences(s, HostsOf(p), cards)
           w == ReturnDon(z, p, cards)
<1>1. DonOK(s) /\ s.attachedDon = z.attachedDon
  BY WithStateOK DEF CardState
<1>2. \A d \in Don : s.cardState[d] = IF d \in cards THEN "none" ELSE z.cardState[d]
  BY DEF WithState, DonOK, DonZones
<1> HIDE DEF s
<1>3. DonOK(v) /\ \A h \in Host, d \in Don :
        v.attachedDon[h][d] \in {0, z.attachedDon[h][d]}
  BY <1>1, WithoutReferencesOK
<1>4. v.cardState = s.cardState
  BY <1>1 DEF WithoutReferences, DonOK, DonZones
<1>5. w = [v EXCEPT !.donDeck[p] = @ \cup cards, !.costArea[p] = @ \ cards]
  BY DEF ReturnDon, v, s
<1> HIDE DEF v, w
<1>6. w.attachedDon = v.attachedDon /\ w.cardState = v.cardState
  BY <1>3, <1>5 DEF DonOK, DonZones
<1>7. \A h \in Host, d \in Don : w.attachedDon[h][d] > 0 => w.cardState[d] = "none"
  <2> SUFFICES ASSUME NEW h \in Host, NEW d \in Don, w.attachedDon[h][d] > 0
               PROVE  w.cardState[d] = "none"
    OBVIOUS
  <2>1. z.attachedDon[h][d] > 0
    BY <1>3, <1>6
  <2>2. QED
    BY <1>2, <1>4, <1>6, <2>1 DEF Tied
<1>8. QED
  BY <1>3, <1>6, <1>7, FewerReferencesTied DEF Tied, w

\* A refresh frees the cards of one player from every host.
LEMMA RefreshDonTied ==
  ASSUME NEW z, DonOK(z), Tied(z), NEW p \in Player
  PROVE  Tied(RefreshDon(z, p))
<1> DEFINE attached == AttachedTo(z, HostsOf(p))
           returned == WithState(z, attached \cap z.costArea[p], "rested")
           ready == WithState(returned, z.costArea[p] \ z.locked, "active")
           v == WithoutReferences(ready, HostsOf(p), Don)
           w == RefreshDon(z, p)
<1>1. DonOK(returned) /\ returned.attachedDon = z.attachedDon
  BY WithStateOK DEF CardState
<1>2. \A d \in Don : d \notin z.costArea[p] => returned.cardState[d] = z.cardState[d]
  BY DEF WithState, DonOK, DonZones
<1> HIDE DEF returned
<1>3. DonOK(ready) /\ ready.attachedDon = z.attachedDon
  BY <1>1, WithStateOK DEF CardState
<1>4. \A d \in Don : d \notin z.costArea[p] => ready.cardState[d] = z.cardState[d]
  BY <1>1, <1>2 DEF WithState, DonOK, DonZones
<1> HIDE DEF ready
<1>5. DonOK(v) /\ \A h \in Host, d \in Don :
        v.attachedDon[h][d] = IF HostOwner[h] = p THEN 0 ELSE z.attachedDon[h][d]
  BY <1>3, WithoutReferencesOK DEF HostsOf
<1>6. v.cardState = ready.cardState
  BY <1>3 DEF WithoutReferences, DonOK, DonZones
<1>7. w = [v EXCEPT !.locked = @ \ DonOf[p]]
  BY DEF RefreshDon, v, ready, returned
<1> HIDE DEF v, w
<1>8. w.attachedDon = v.attachedDon /\ w.cardState = v.cardState
  BY <1>5, <1>7 DEF DonOK, DonZones
<1>9. ASSUME NEW h \in Host, NEW d \in Don, w.attachedDon[h][d] > 0
      PROVE  w.cardState[d] = "none"
  <2>1. HostOwner[h] # p /\ z.attachedDon[h][d] > 0
    BY <1>5, <1>8, <1>9
  <2>2. d \notin z.costArea[p]
    BY <2>1, OwnHosts
  <2>3. QED
    BY <1>4, <1>6, <1>8, <2>1, <2>2 DEF Tied
<1>10. \A h \in Host, d \in Don : w.attachedDon[h][d] \in {0, z.attachedDon[h][d]}
  BY <1>5, <1>8
<1>11. QED
  BY <1>9, <1>10, FewerReferencesTied DEF Tied, w

\* The mandatory phases of a turn keep the records in step.
LEMMA AdvanceOnceTied ==
  ASSUME NEW s, Good(s), Tied(s.don), NEW cards, CanPlace(s, cards)
  PROVE  Tied(AdvanceOnce(s, cards).don)
<1>a. DonOK(s.don) /\ s.turnPlayer \in Player /\ s \in GameStates
  BY GameDon DEF Good, GameOK
<1>b. \A x : Checkpoint(x).don = x.don
  BY DEF Checkpoint
<1>1. CASE Stops(s)
  BY <1>1 DEF AdvanceOnce
<1>2. CASE ~Stops(s) /\ s.phase = "refresh"
  <2>1. AdvanceOnce(s, cards).don = RefreshDon(s.don, s.turnPlayer)
    BY <1>a, <1>b, <1>2 DEF AdvanceOnce, AdvanceRefreshPhase, GameStates
  <2>2. QED
    BY <1>a, <2>1, RefreshDonTied
<1>3. CASE ~Stops(s) /\ s.phase = "draw"
  <2>1. AdvanceOnce(s, cards) = AdvanceDrawPhase(s)
    BY <1>3 DEF AdvanceOnce
  <2>2. AdvanceDrawPhase(s).don = s.don
    BY <1>3, DrawPhaseOK
  <2>3. QED
    BY <2>1, <2>2
<1>4. CASE ~Stops(s) /\ s.phase = "don"
  <2> DEFINE z == PlaceDon(s.don, s.turnPlayer, cards, "active")
             u == [s EXCEPT !.don = z]
             v == AdvanceDonPhase(s, cards)
  <2>1. DonOK(z) /\ Tied(z)
    BY <1>a, <1>4, PlaceDonOK, PlaceDonTied DEF CanPlace, CardState
  <2>2. AdvanceOnce(s, cards) = EnterMainPhase(v) /\ v = Checkpoint(u)
    BY <1>4 DEF AdvanceOnce, AdvanceDonPhase
  <2> HIDE DEF z
  <2>3. GameOK(u) /\ u.don = z
    BY <2>1 DEF Good, GameOK, GameStates, DonOK
  <2> HIDE DEF u, v
  <2>4. GameOK(v) /\ v.don = z
    BY <2>2, <2>3, CheckpointFlow, CheckpointOK, <1>4, QuietCheckpoint
    DEF SameFlow, Checkpoint, GameOK, GameStates
  <2>5. EnterMainPhase(v).don = v.don
    BY <1>b, <2>4, RunQueueShrinks DEF EnterMainPhase, GameOK, GameStates
  <2>6. QED
    BY <2>1, <2>2, <2>4, <2>5
<1>5. QED
  <2>1. ~Stops(s) => s.phase \in {"refresh", "draw", "don"}
    BY DEF Stops, Good, GameOK, GameStates, Phases
  <2>2. QED
    BY <1>1, <1>2, <1>3, <1>4, <2>1

LEMMA HostedTied ==
  ASSUME NEW s, Good(s), Tied(s.don), Hosted(s)
  PROVE  Tied(state'.don)
<1>1. PICK cards \in Placements(s) : state' = AdvanceToMain(s, cards)
  BY DEF Hosted
<1>2. CanPlace(s, cards)
  BY <1>1 DEF CanPlace, Placements, TopDon
<1> DEFINE s1 == AdvanceOnce(s, cards)
           s2 == AdvanceOnce(s1, cards)
           s3 == AdvanceOnce(s2, cards)
           s4 == AdvanceOnce(s3, cards)
<1>3. state' = s4
  BY <1>1 DEF AdvanceToMain
<1>4. Good(s1) /\ CanPlace(s1, cards) /\ Tied(s1.don)
  BY <1>2, AdvanceOnceOK, AdvanceOnceTied
<1> HIDE DEF s1
<1>5. Good(s2) /\ CanPlace(s2, cards) /\ Tied(s2.don)
  BY <1>4, AdvanceOnceOK, AdvanceOnceTied
<1> HIDE DEF s2
<1>6. Good(s3) /\ CanPlace(s3, cards) /\ Tied(s3.don)
  BY <1>5, AdvanceOnceOK, AdvanceOnceTied
<1> HIDE DEF s3
<1>7. Tied(s4.don)
  BY <1>6, AdvanceOnceTied
<1>8. QED
  BY <1>3, <1>7

\* An effect rests a card that lies attached to a host: it gives the card a
\* state and leaves the reference.
RestsAttached == \E d \in AttachedTo(state.don, Host) : EffectRestsDon(d)

LEMMA MainCallTied ==
  ASSUME Good(state), Tied(state.don), MainCall, ~RestsAttached
  PROVE  Tied(state'.don)
<1>a. DonOK(state.don) /\ state.turnPlayer \in Player /\ state \in GameStates
  BY StateDonOK DEF Good, GameOK
<1>b. \A x : Checkpoint(x).don = x.don
  BY DEF Checkpoint
<1>c. \A d \in Don, h \in Host : state.don.cardState[d] # "none"
                                   => state.don.attachedDon[h][d] = 0
  BY <1>a, FreeCards
<1>1. ASSUME NEW h \in Host, NEW d \in Don, GiveDon(h, d)
      PROVE  Tied(state'.don)
  <2>1. HostOwner[h] = state.turnPlayer
    BY <1>1, LeaderAssumption, <1>a DEF GiveDon, OnField, Characters, HostsOf
  <2>2. d \in state.don.costArea[HostOwner[h]] /\ state.don.cardState[d] # "none"
    BY <1>1, <2>1 DEF GiveDon
  <2>3. state'.don = AttachDon(state.don, h, d)
    BY <1>a, <1>b, <1>1 DEF GiveDon, GameStates
  <2>4. QED
    BY <1>a, <2>2, <2>3, AttachDonTied
<1>2. ASSUME NEW h \in Host, NEW paid \in SUBSET Don, NEW overflow \in Host \cup {NoHost},
             PlayCharacter(h, paid, overflow)
      PROVE  Tied(state'.don)
  <2> DEFINE spent == WithState(state.don, paid, "rested")
             f == (state.field \ {overflow}) \cup {h}
             z == IF overflow = NoHost THEN spent ELSE HostLeaves(spent, overflow)
  <2>1. \A d \in paid : state.don.cardState[d] = "active"
    BY <1>2 DEF PlayCharacter
  <2>2. DonOK(spent) /\ Tied(spent)
    BY <1>a, <1>c, <2>1, WithStateOK, WithStateTied DEF CardState
  <2>3. Tied(z)
    <3> HIDE DEF spent
    <3>1. QED
      BY <2>2, HostLeavesTied
  <2>4. state' = [state EXCEPT !.field = f, !.don = z]
    BY <1>a, <1>2 DEF PlayCharacter, GameStates
  <2> HIDE DEF z, f
  <2>5. QED
    BY <1>a, <2>3, <2>4 DEF GameStates
<1>3. ASSUME NEW d \in Don, EffectRestsDon(d)
      PROVE  Tied(state'.don)
  <2>1. \A h \in Host : state.don.attachedDon[h][d] = 0
    <3>1. d \notin AttachedTo(state.don, Host)
      BY <1>3 DEF RestsAttached
    <3>2. \A h \in Host : state.don.attachedDon[h][d] \in Nat
      BY <1>a DEF DonOK, DonZones
    <3>3. QED
      BY <3>1, <3>2 DEF AttachedTo
  <2>2. state'.don = WithState(state.don, {d}, "rested")
    BY <1>a, <1>3 DEF EffectRestsDon, GameStates
  <2>3. QED
    BY <1>a, <2>1, <2>2, WithStateTied DEF CardState
<1>4. ASSUME NEW d \in Don, EffectActivatesDon(d)
      PROVE  Tied(state'.don)
  <2>1. state'.don = WithState(state.don, {d}, "active") /\ state.don.cardState[d] = "rested"
    BY <1>a, <1>4 DEF EffectActivatesDon, GameStates
  <2>2. QED
    BY <1>a, <1>c, <2>1, WithStateTied DEF CardState
<1>5. ASSUME NEW h \in Host, NEW d \in Don, EffectGivesDon(h, d)
      PROVE  Tied(state'.don)
  <2>1. /\ state'.don = AttachDon(state.don, h, d)
        /\ d \in state.don.costArea[HostOwner[h]] /\ state.don.cardState[d] # "none"
    BY <1>a, <1>5 DEF EffectGivesDon, GameStates
  <2>2. QED
    BY <1>a, <2>1, AttachDonTied
<1>6. ASSUME NEW d \in Don, EffectLocksDon(d)
      PROVE  Tied(state'.don)
  <2>1. /\ state'.don.attachedDon = state.don.attachedDon
        /\ state'.don.cardState = state.don.cardState
    BY <1>a, <1>6 DEF EffectLocksDon, GameStates, DonZones
  <2>2. QED
    BY <2>1 DEF Tied, OneReference
<1>7. ASSUME NEW p \in Player, NEW new \in {"active", "rested"}, EffectAddsDon(p, new)
      PROVE  Tied(state'.don)
  <2>1. PICK cards \in TopDon(state.don, p, 1) :
          state' = [state EXCEPT !.don = PlaceDon(@, p, cards, new)]
    BY <1>7 DEF EffectAddsDon
  <2>2. state'.don = PlaceDon(state.don, p, cards, new)
    BY <1>a, <2>1 DEF GameStates
  <2>3. QED
    BY <1>a, <2>1, <2>2, PlaceDonTied DEF TopDon, CardState
<1>8. ASSUME NEW p \in Player, NEW d \in Don, EffectReturnsDon(p, d)
      PROVE  Tied(state'.don)
  <2>1. {d} \in SUBSET state.don.costArea[p]
    BY <1>8 DEF EffectReturnsDon, ReturnableDon
  <2>2. state'.don = ReturnDon(state.don, p, {d})
    BY <1>a, <1>8 DEF EffectReturnsDon, GameStates
  <2>3. QED
    BY <1>a, <2>1, <2>2, ReturnDonTied
<1>9. ASSUME NEW h \in Host, CharacterLeaves(h) \/ CharacterTrashedInstead(h)
      PROVE  Tied(state'.don)
  <2>1. state'.don \in {HostLeaves(state.don, h), HostTrashedInstead(state.don, h)}
    BY <1>a, <1>9 DEF CharacterLeaves, CharacterTrashedInstead, GameStates
  <2>2. QED
    BY <1>a, <2>1, HostLeavesTied
<1>10. ASSUME NEW p \in Player, EffectDraws(p)
       PROVE  Tied(state'.don)
  <2>1. state'.don = state.don
    BY <1>a, <1>b, <1>10 DEF EffectDraws, Draws, GameStates
  <2>2. QED
    BY <2>1
<1>11. QED
  BY <1>1, <1>2, <1>3, <1>4, <1>5, <1>6, <1>7, <1>8, <1>9, <1>10 DEF MainCall

\* The end of a turn: effects that ask and draw move no card, and a card set
\* active is on no host.
LEMMA EndMainPhaseTied ==
  ASSUME Good(state), Tied(state.don), EndMainPhase
  PROVE  Tied(state'.don)
<1> DEFINE main == [state EXCEPT !.phase = "end"]
           ended == Checkpoint(main)
           entries == EndOfTurnEntries(ended)
           queued == [ended EXCEPT !.queue = entries]
           ran == RunQueue(queued)
<1>1. /\ GameOK(main) /\ main.phase = "end" /\ main.status = "active"
      /\ main.pending = NoDecision /\ main.don = state.don
  BY DEF EndMainPhase, InMain, Good, GameOK, GameStates, Phases
<1> HIDE DEF main
<1>2. /\ GameOK(ended) /\ EmptyOK(ended) /\ ended.phase = "end"
      /\ ended.pending = NoDecision /\ ended.status \in {"active", "completed"}
      /\ ended.don = state.don
  BY <1>1, CheckpointOK DEF SameFlow
<1> HIDE DEF ended
<1>3. CASE ended.status # "active"
  BY <1>2, <1>3 DEF EndMainPhase, ended, main
<1>4. CASE ended.status = "active"
  <2>1. entries \in SUBSET Host
    BY <1>2, LeaderAssumption, GameDon
    DEF EndOfTurnEntries, OnField, Characters, HostsOf
  <2> HIDE DEF entries
  <2>2. Running(queued) /\ queued.don = state.don
    BY <1>2, <2>1 DEF Running, GameOK, GameStates, EmptyOK, NoDecision
  <2> HIDE DEF queued
  <2>3. Running(ran) /\ Fit(ran) /\ ran.don = state.don
    BY <2>2, RunQueueOK, RunQueueShrinks DEF Running
  <2> HIDE DEF ran
  <2>4. CASE ran.pending # NoDecision
    <3>1. Hosted(ran)
      BY <1>4, <2>4 DEF EndMainPhase, ran, queued, entries, ended, main
    <3>2. QED
      BY <2>3, <3>1, HostedTied DEF Good, Running
  <2>5. CASE ran.pending = NoDecision
    <3>1. Hosted(AdvanceEndPhase(ran))
      BY <1>4, <2>5 DEF EndMainPhase, ran, queued, entries, ended, main
    <3>2. Good(AdvanceEndPhase(ran)) /\ AdvanceEndPhase(ran).don = state.don
      BY <2>3, <2>5, AdvanceEndPhaseOK, AdvanceEndPhaseFlow DEF Fit
    <3>3. QED
      BY <3>1, <3>2, HostedTied
  <2>6. QED
    BY <2>4, <2>5
<1>5. QED
  BY <1>3, <1>4

LEMMA ChooseTriggerOrderTied ==
  ASSUME Good(state), Tied(state.don), NEW e \in Host, ChooseTriggerOrder(e)
  PROVE  Tied(state'.don)
<1> DEFINE s == [state EXCEPT !.pending = NoDecision]
           r == ResolveEntry(s, e)
           ran == RunQueue(r)
<1>1. state.status = "active" /\ state.phase = "end" /\ e \in state.queue
  BY DEF ChooseTriggerOrder, Answering, Good, Fit
<1>2. /\ Running(s) /\ s.status = "active" /\ s.pending = NoDecision
      /\ e \in s.queue /\ s.don = state.don
  BY <1>1 DEF Good, Running, GameOK, GameStates, EmptyOK, Decisions, NoDecision
<1> HIDE DEF s
<1>3. Running(r) /\ r.don = state.don
  BY <1>2, ResolveEntryOK, ResolveEntryShrinks DEF Running
<1> HIDE DEF r
<1>4. Running(ran) /\ Fit(ran) /\ ran.don = state.don
  BY <1>3, RunQueueOK, RunQueueShrinks DEF Running
<1> HIDE DEF ran
<1>5. Hosted(ran)
  BY DEF ChooseTriggerOrder, ran, r, s
<1>6. QED
  BY <1>4, <1>5, HostedTied DEF Good, Running

LEMMA SelectTargetsTied ==
  ASSUME Good(state), Tied(state.don), NEW chosen \in SUBSET Don, SelectTargets(chosen)
  PROVE  Tied(state'.don)
<1> DEFINE z == WithState(state.don, chosen, "active")
           answered == [state EXCEPT !.pending = NoDecision, !.don = z]
           u == Unqueued(answered, state.pending.entry)
           r == Checkpoint(u)
           ran == RunQueue(r)
<1>1. state.status = "active" /\ state.phase = "end"
  BY DEF SelectTargets, Answering, Good, Fit, NoDecision
<1>2. DonOK(z) /\ Tied(z)
  <2>1. \A d \in chosen : state.don.cardState[d] = "rested"
    BY DEF SelectTargets
  <2>2. \A d \in chosen \cap Don : \A h \in Host : state.don.attachedDon[h][d] = 0
    BY <2>1, StateDonOK, FreeCards
  <2>3. QED
    BY <2>2, StateDonOK, WithStateOK, WithStateTied DEF CardState
<1>a. answered = [state EXCEPT !.pending = NoDecision,
                               !.don = WithState(@, chosen, "active")]
  BY DEF Good, GameOK, GameStates
<1> HIDE DEF z
<1>3. /\ GameOK(answered) /\ answered.status = "active" /\ answered.phase = "end"
      /\ answered.pending = NoDecision /\ answered.don = z
  BY <1>1, <1>2 DEF Good, GameOK, GameStates, DonOK, Decisions
<1> HIDE DEF answered
<1>4. /\ GameOK(u) /\ u.status = "active" /\ u.phase = "end" /\ u.pending = NoDecision
      /\ u.don = z
  BY <1>3, UnqueuedOK
<1> HIDE DEF u
<1>5. /\ GameOK(r) /\ EmptyOK(r) /\ SameFlow(u, r)
      /\ r.status \in {"active", "completed"}
  BY <1>4, CheckpointOK
<1>6. Running(r) /\ r.don = z
  BY <1>4, <1>5 DEF Running, SameFlow, NoDecision
<1> HIDE DEF r
<1>7. Running(ran) /\ Fit(ran) /\ ran.don = z
  BY <1>6, RunQueueOK, RunQueueShrinks DEF Running
<1> HIDE DEF ran
<1>8. IF ran.pending # NoDecision \/ ran.queue # {} THEN Hosted(ran)
      ELSE Hosted(AdvanceEndPhase(ran))
  BY <1>a DEF SelectTargets, ran, r, u
<1>9. CASE ran.pending # NoDecision \/ ran.queue # {}
  BY <1>2, <1>7, <1>8, <1>9, HostedTied DEF Good, Running
<1>10. CASE ran.pending = NoDecision /\ ran.queue = {}
  <2>1. Good(AdvanceEndPhase(ran)) /\ AdvanceEndPhase(ran).don = z
    BY <1>7, <1>10, AdvanceEndPhaseOK, AdvanceEndPhaseFlow
  <2>2. QED
    BY <1>2, <1>8, <1>10, <2>1, HostedTied
<1>11. QED
  BY <1>9, <1>10

LEMMA NextTied ==
  IInv /\ Tied(state.don) /\ [Next]_state => Tied(state'.don) \/ RestsAttached
<1> SUFFICES ASSUME IInv, Tied(state.don), [Next]_state, ~RestsAttached
             PROVE  Tied(state'.don)
  OBVIOUS
<1>1. CASE StartMatch
  <2> DEFINE s == [state EXCEPT !.status = "active"]
  <2>1. state = SetupState
    BY <1>1 DEF IInv, StartMatch, Good
  <2>2. /\ s \in GameStates /\ s.don = state.don /\ s.status = "active"
        /\ s.queue = {} /\ s.pending = NoDecision /\ s.deck = state.deck
    BY <2>1, SetupOK DEF SetupState, GameOK, GameStates
  <2>3. Good(s)
    BY <2>1, <2>2, SetupOK, SizesAssumption
    DEF Good, GameOK, EmptyOK, Fit, NoDecision, SetupState
  <2>4. Hosted(s)
    BY <1>1 DEF StartMatch
  <2> HIDE DEF s
  <2>5. QED
    BY <2>2, <2>3, <2>4, HostedTied
<1>2. ASSUME NEW p \in Player, Concede(p) PROVE Tied(state'.don)
  <2>1. state'.don = state.don
    BY <1>2, IInvOK DEF Concede, GameOK, GameStates
  <2>2. QED
    BY <2>1
<1>3. CASE MainCall
  <2>1. Good(state)
    BY <1>3, IInvOK
    DEF MainCall, GiveDon, PlayCharacter, EffectRestsDon, EffectActivatesDon,
        EffectGivesDon, EffectLocksDon, EffectAddsDon, EffectReturnsDon,
        CharacterLeaves, CharacterTrashedInstead, EffectDraws, InMain
  <2>2. QED
    BY <1>3, <2>1, MainCallTied
<1>4. CASE EndMainPhase
  BY <1>4, IInvOK, EndMainPhaseTied DEF EndMainPhase, InMain
<1>5. ASSUME NEW e \in Host, ChooseTriggerOrder(e) PROVE Tied(state'.don)
  BY <1>5, IInvOK, ChooseTriggerOrderTied DEF ChooseTriggerOrder, Answering
<1>6. ASSUME NEW chosen \in SUBSET Don, SelectTargets(chosen) PROVE Tied(state'.don)
  BY <1>6, IInvOK, SelectTargetsTied DEF SelectTargets, Answering
<1>7. CASE UNCHANGED state
  BY <1>7
<1>8. QED
  BY <1>1, <1>2, <1>3, <1>4, <1>5, <1>6, <1>7 DEF Next, MainCall

\* The three records of an attached DON!! card agree until an effect rests a
\* card that is attached: no other call, of any match, ever parts them.
THEOREM OnlyRestingUntiesDon ==
  Spec => /\ Tied(state.don)
          /\ [][Tied(state.don) => Tied(state.don)' \/ RestsAttached]_state
<1>1. Init => Tied(state.don)
  BY DEF Init, SetupState, SetupDon, NoReference, Tied, OneReference
<1>2. IInv /\ [Next]_state
        => [Tied(state.don) => Tied(state.don)' \/ RestsAttached]_state
  BY NextTied
<1>3. QED
  BY <1>1, <1>2, IInvHolds, PTL DEF Spec

\* While they agree every attached card has one host, and the assertion that
\* says so refuses no gift of a card that is active: a match in which no
\* effect rests an attached card is never refused a legal call for it.
THEOREM TiedCardsAreAttachedOnce ==
  Spec => [](Tied(state.don) =>
               /\ AttachedOnce
               /\ \A h \in Host : \A d \in state.don.costArea[HostOwner[h]] :
                    state.don.cardState[d] = "active"
                      => OneReference(AttachDon(state.don, h, d)))
<1>1. ASSUME IInv, Tied(state.don)
      PROVE  /\ AttachedOnce
             /\ \A h \in Host : \A d \in state.don.costArea[HostOwner[h]] :
                  state.don.cardState[d] = "active"
                    => OneReference(AttachDon(state.don, h, d))
  <2>1. DonOK(state.don)
    BY <1>1, IInvOK DEF GameOK, GameStates, DonOK
  <2>2. ASSUME NEW h \in Host, NEW d \in state.don.costArea[HostOwner[h]],
               state.don.cardState[d] = "active"
        PROVE  OneReference(AttachDon(state.don, h, d))
    BY <1>1, <2>1, <2>2, AttachDonTied DEF Tied
  <2>3. QED
    BY <1>1, <2>2 DEF AttachedOnce, Tied
<1>2. QED
  BY <1>1, IInvHolds, PTL

\* What two effects and a return may still do while a card is on two hosts:
\* the main phase of one turn goes on and nobody comes into play.
HeldInMain ==
    /\ InMain
    /\ state'.phase = "main" /\ state'.globalTurn = state.globalTurn
    /\ state'.field \subseteq state.field
    /\ state'.status = "completed" => \E p \in Player : EffectDraws(p)

LEMMA MainCallHeld ==
  ASSUME Good(state), ~AttachedOnce, MainCall
  PROVE  HeldInMain
<1>1. InMain /\ state \in GameStates /\ GameOK(state) /\ EmptyOK(state)
  BY DEF MainCall, GiveDon, PlayCharacter, EffectRestsDon, EffectActivatesDon,
         EffectGivesDon, EffectLocksDon, EffectAddsDon, EffectReturnsDon,
         CharacterLeaves, CharacterTrashedInstead, EffectDraws, Good, GameOK
<1>2. \A x : /\ Checkpoint(x).phase = x.phase /\ Checkpoint(x).field = x.field
             /\ Checkpoint(x).globalTurn = x.globalTurn
  BY DEF Checkpoint
<1>3. ASSUME NEW h \in Host, NEW d \in Don, GiveDon(h, d)
      PROVE  HeldInMain
  <2> DEFINE s == [state EXCEPT !.don = AttachDon(@, h, d)]
  <2>1. /\ s.phase = "main" /\ s.field = state.field /\ s.status = "active"
        /\ s.globalTurn = state.globalTurn /\ s.deck = state.deck
    BY <1>1 DEF InMain, GameStates
  <2>2. Losers(s) = {}
    BY <1>1, <2>1 DEF Losers, EmptyOK, InMain
  <2>3. state' = Checkpoint(s)
    BY <1>3 DEF GiveDon
  <2> HIDE DEF s
  <2>4. state' = s
    BY <2>2, <2>3 DEF Checkpoint
  <2>5. QED
    BY <1>1, <2>1, <2>4 DEF HeldInMain
<1>4. ASSUME NEW h \in Host, NEW paid \in SUBSET Don,
             NEW overflow \in Host \cup {NoHost}, PlayCharacter(h, paid, overflow)
      PROVE  HeldInMain
  BY <1>4 DEF PlayCharacter, AttachedOnce
<1>5. ASSUME NEW p \in Player, EffectDraws(p)
      PROVE  HeldInMain
  BY <1>1, <1>2, <1>5 DEF EffectDraws, Draws, GameStates, HeldInMain, InMain
<1>6. QED
  BY <1>1, <1>3, <1>4, <1>5
  DEF MainCall, EffectRestsDon, EffectActivatesDon, EffectGivesDon, EffectLocksDon,
      EffectAddsDon, EffectReturnsDon, CharacterLeaves, CharacterTrashedInstead,
      GameStates, HeldInMain, InMain

\* While a card is on two hosts the turn does not end, no character is
\* played and nobody can concede, not even by an expired clock: only effects
\* act, until one of them undoes it or empties a deck.
THEOREM TwoHostsHoldTheMatch ==
  Spec => [][~AttachedOnce => HeldInMain]_state
<1> DEFINE EndOnce == state.phase = "end" => AttachedOnce
<1>1. Init => EndOnce
  BY DEF Init, SetupState
<1>2. IInv /\ TargetsDistinct /\ EndOnce /\ [Next]_state => EndOnce'
  <2> SUFFICES ASSUME IInv, TargetsDistinct, EndOnce, Next
               PROVE  EndOnce'
    BY DEF AttachedOnce
  <2>1. KeepsAttached
    BY NextEndPhaseCall DEF EndPhaseCall
  <2>2. QED
    BY <2>1 DEF KeepsAttached, AttachedOnce, OneReference
<1>3. IInv /\ EndOnce /\ [Next]_state => [~AttachedOnce => HeldInMain]_state
  <2> SUFFICES ASSUME IInv, EndOnce, Next, ~AttachedOnce
               PROVE  HeldInMain
    OBVIOUS
  <2>1. CASE StartMatch
    <3>1. state = SetupState
      BY <2>1 DEF IInv, StartMatch, Good
    <3>2. AttachedOnce
      BY <3>1 DEF AttachedOnce, SetupState, SetupDon, NoReference, OneReference
    <3>3. QED
      BY <3>2
  <2>2. CASE MainCall
    <3>1. Good(state)
      BY <2>2, IInvOK
      DEF MainCall, GiveDon, PlayCharacter, EffectRestsDon, EffectActivatesDon,
          EffectGivesDon, EffectLocksDon, EffectAddsDon, EffectReturnsDon,
          CharacterLeaves, CharacterTrashedInstead, EffectDraws, InMain
    <3>2. QED
      BY <2>2, <3>1, MainCallHeld
  <2>3. ~EndMainPhase /\ ~\E p \in Player : Concede(p)
    BY DEF EndMainPhase, Concede, AttachedOnce
  <2>4. ASSUME Answering("chooseTriggerOrder") \/ Answering("selectTargets")
        PROVE  FALSE
    <3>1. state.status = "active" /\ state.pending # NoDecision
      BY <2>4 DEF Answering, NoDecision
    <3>2. Fit(state)
      BY <3>1, IInvOK DEF Good
    <3>3. QED
      BY <3>1, <3>2 DEF Fit
  <2>5. /\ ~\E e \in Host : ChooseTriggerOrder(e)
        /\ ~\E chosen \in SUBSET Don : SelectTargets(chosen)
    BY <2>4 DEF ChooseTriggerOrder, SelectTargets
  <2>6. QED
    BY <2>1, <2>2, <2>3, <2>5 DEF Next, MainCall
<1>4. QED
  BY <1>1, <1>2, <1>3, IInvHolds, TargetsDistinctHolds, PTL DEF Spec

\* A live match has a call it accepts: in the main phase the turn can be
\* ended, a question about the next effect names one that is accepted, a
\* question for targets can be answered with none.
AcceptsSome ==
    \/ InMain /\ OneReference(state.don)
    \/ /\ Answering("chooseTriggerOrder")
       /\ state.queue # {} /\ DistinctIds(state.queue)
    \/ /\ Answering("selectTargets")
       /\ OneReference(WithState(state.don, {}, "active"))

\* The three ways on fail in the three ways above only: while none of them
\* has happened no live match is left without a call that moves it.
THEOREM MatchesGoOn ==
  Spec => [](/\ state.status = "active"
             /\ EndPhaseProceeds /\ TriggerOrderAnswerable /\ AttachedOnce
             => AcceptsSome)
<1>1. ASSUME IInv, OrderOfSome(state), state.status = "active",
             EndPhaseProceeds, TriggerOrderAnswerable, AttachedOnce
      PROVE  AcceptsSome
  <2>1. Good(state) /\ HandedOff /\ DonOK(state.don)
    BY <1>1, IInvOK DEF IInv, SetupState, Good, GameOK, GameStates, DonOK
  <2>2. CASE state.phase = "main"
    BY <1>1, <2>1, <2>2 DEF HandedOff, AcceptsSome, InMain, AttachedOnce
  <2>3. CASE state.pending.type = "chooseTriggerOrder"
    BY <1>1, <2>3 DEF AcceptsSome, Answering, OrderOfSome, TriggerOrderAnswerable
  <2>4. CASE state.pending.type = "selectTargets"
    <3>1. WithState(state.don, {}, "active").attachedDon = state.don.attachedDon
      BY <2>1, WithStateOK DEF CardState
    <3>2. OneReference(WithState(state.don, {}, "active"))
      BY <1>1, <3>1 DEF AttachedOnce, OneReference
    <3>3. QED
      BY <1>1, <2>4, <3>2 DEF AcceptsSome, Answering
  <2>5. QED
    <3>1. state.phase = "end" => state.pending # NoDecision
      BY <1>1 DEF EndPhaseProceeds
    <3>2. state.pending \in Decisions
      BY <2>1 DEF Good, GameOK, GameStates
    <3>3. state.pending # NoDecision
            => state.pending.type \in {"chooseTriggerOrder", "selectTargets"}
      BY <3>2 DEF Decisions
    <3>4. state.phase \in {"main", "end"}
      BY <1>1, <2>1 DEF HandedOff
    <3>5. QED
      BY <2>2, <2>3, <2>4, <3>1, <3>3, <3>4
<1>2. QED
  BY <1>1, IInvHolds, TargetsDistinctHolds, PTL

\* Battles are steps of the turn, so in a match of battles too each of the
\* three fails by its one call only.
THEOREM BattlesAddNoCause ==
  BattleSpec =>
      /\ [][EndPhaseProceeds' \/ DrawsOrdered]_state
      /\ [][TriggerOrderAnswerable => TriggerOrderAnswerable' \/ TwinsQueued]_state
      /\ [][Tied(state.don) => Tied(state.don)' \/ RestsAttached]_state
BY BattlesAreTurnSteps, OnlyOrderedDrawsStrand, OnlyTwinsCannotBeOrdered,
   OnlyRestingUntiesDon, PTL

---------------------------------------------------------------------------
(* What the host may expect of a call *)

\* A match that has begun, and has a result once it is over.
Decided(s) ==
    /\ "status" \in DOMAIN s /\ "winner" \in DOMAIN s /\ "phase" \in DOMAIN s
    /\ s.phase \in Phases
    /\ s.status \in {"active", "completed"}
    /\ s.status = "completed" => s.winner \in Player \cup {"draw"}

\* The match before its first main phase: no deck can run out on the way.
Fresh(s) ==
    /\ "phase" \in DOMAIN s /\ s.phase \in {"refresh", "draw", "don", "main"}
    /\ s.status = "active" /\ s.queue = {} /\ FirstTurn(s)
    /\ \A p \in Player : s.deck[p] # 0

LEMMA CheckpointDecides ==
  ASSUME NEW s, Decided(s)
  PROVE  Decided(Checkpoint(s))
<1>1. CASE s.status = "completed" \/ Losers(s) = {}
  BY <1>1 DEF Checkpoint
<1>2. CASE s.status # "completed" /\ Losers(s) # {}
  <2> DEFINE w == IF Losers(s) = Player THEN "draw"
                  ELSE CHOOSE p \in Player : p \notin Losers(s)
  <2>1. w \in Player \cup {"draw"}
    <3>1. Losers(s) # Player => \E p \in Player : p \notin Losers(s)
      BY DEF Losers
    <3>2. QED
      BY <3>1
  <2>2. Checkpoint(s) = [s EXCEPT !.status = "completed", !.winner = w]
    BY <1>2 DEF Checkpoint
  <2> HIDE DEF w
  <2>3. QED
    BY <2>1, <2>2 DEF Decided
<1>3. QED
  BY <1>1, <1>2

\* Nothing else in a call that goes on sets a status or a winner.
LEMMA CallsDecide ==
  ASSUME NEW s, Decided(s)
  PROVE  /\ \A e : Decided(ResolveEntry(s, e))
         /\ Decided(RunQueue(s)) /\ Decided(AdvanceEndPhase(s))
         /\ \A cards : Decided(AdvanceToMain(s, cards))
<1>1. ASSUME NEW x, Decided(x), NEW e
      PROVE  Decided(ResolveEntry(x, e))
  <2>1. Decided(Unqueued(Draws(x, x.turnPlayer), e))
    BY <1>1 DEF Decided, Unqueued, Draws
  <2>2. Block[e] \in Asks => Decided(ResolveEntry(x, e))
    BY <1>1 DEF Decided, ResolveEntry
  <2>3. QED
    BY <2>1, <2>2, CheckpointDecides DEF ResolveEntry
<1>2. ASSUME NEW x, Decided(x)
      PROVE  Decided(RunQueue(x))
  <2>1. \A d : Decided([x EXCEPT !.pending = d])
    BY <1>2 DEF Decided
  <2>2. QED
    BY <1>1, <1>2, <2>1 DEF RunQueue
<1>3. Decided(AdvanceEndPhase(s))
  <2> DEFINE next == Opponent(s.turnPlayer)
             u == [s EXCEPT !.turnPlayer = next, !.turnCount[next] = @ + 1,
                            !.globalTurn = @ + 1, !.phase = "refresh"]
  <2>1. Decided(u)
    BY DEF Decided, Phases
  <2>2. QED
    BY <2>1, CheckpointDecides DEF AdvanceEndPhase
<1>4. ASSUME NEW x, Decided(x), NEW cards
      PROVE  Decided(AdvanceOnce(x, cards))
  <2>1. Decided(AdvanceRefreshPhase(x))
    <3>1. Decided([x EXCEPT !.don = RefreshDon(@, x.turnPlayer), !.phase = "draw"])
      BY <1>4 DEF Decided, Phases
    <3>2. QED
      BY <3>1, CheckpointDecides DEF AdvanceRefreshPhase
  <2>2. Decided(AdvanceDrawPhase(x))
    <3>1. Decided([(IF FirstTurn(x) THEN x ELSE Draws(x, x.turnPlayer))
                      EXCEPT !.phase = "don"])
      BY <1>4 DEF Decided, Draws, Phases
    <3>2. QED
      BY <3>1, CheckpointDecides DEF AdvanceDrawPhase
  <2>3. Decided(AdvanceDonPhase(x, cards))
    <3>1. Decided([x EXCEPT !.don = PlaceDon(@, x.turnPlayer, cards, "active")])
      BY <1>4 DEF Decided, Phases
    <3>2. QED
      BY <3>1, CheckpointDecides DEF AdvanceDonPhase
  <2>4. ASSUME NEW y, Decided(y)
        PROVE  Decided(EnterMainPhase(y))
    <3>1. Decided(Checkpoint([y EXCEPT !.phase = "main"]))
      <4>1. Decided([y EXCEPT !.phase = "main"])
        BY <2>4 DEF Decided, Phases
      <4>2. QED
        BY <4>1, CheckpointDecides
    <3>2. QED
      BY <1>2, <2>4, <3>1 DEF EnterMainPhase
  <2>5. QED
    <3>1. Stops(x) \/ x.phase \in {"refresh", "draw", "don"}
      BY <1>4 DEF Decided, Phases, Stops
    <3>2. QED
      BY <1>4, <2>1, <2>2, <2>3, <2>4, <3>1 DEF AdvanceOnce
<1>5. QED
  BY <1>1, <1>2, <1>3, <1>4 DEF AdvanceToMain

LEMMA HostedDecides ==
  ASSUME NEW s, Decided(s), Hosted(s)
  PROVE  Decided(state')
BY CallsDecide DEF Hosted

LEMMA MainCallDecides ==
  ASSUME Decided(state), MainCall
  PROVE  Decided(state')
<1>1. ASSUME NEW h \in Host, NEW d \in Don, GiveDon(h, d)
      PROVE  Decided(state')
  <2>1. Decided([state EXCEPT !.don = AttachDon(@, h, d)])
    BY DEF Decided
  <2>2. QED
    BY <1>1, <2>1, CheckpointDecides DEF GiveDon
<1>2. ASSUME NEW p \in Player, EffectDraws(p)
      PROVE  Decided(state')
  <2>1. Decided(Draws(state, p))
    BY DEF Decided, Draws
  <2>2. QED
    BY <1>2, <2>1, CheckpointDecides DEF EffectDraws
<1>3. ASSUME NEW h \in Host, NEW paid \in SUBSET Don,
             NEW overflow \in Host \cup {NoHost}, PlayCharacter(h, paid, overflow)
      PROVE  Decided(state')
  BY <1>3 DEF PlayCharacter, Decided
<1>4. QED
  BY <1>1, <1>2, <1>3
  DEF MainCall, EffectRestsDon, EffectActivatesDon, EffectGivesDon, EffectLocksDon,
      EffectAddsDon, EffectReturnsDon, CharacterLeaves, CharacterTrashedInstead,
      Decided

\* A live match stays live or ends with a result.
LEMMA LiveCallDecides ==
  ASSUME IInv, state.status = "active", Next
  PROVE  Decided(state')
<1>1. Decided(state) /\ state \in GameStates
  BY IInvOK DEF Good, GameOK, GameStates, Decided
<1>2. ~StartMatch
  BY DEF StartMatch
<1>3. ASSUME NEW p \in Player, Concede(p)
      PROVE  Decided(state')
  <2>1. Opponent(p) \in Player
    BY OpponentOK
  <2>2. QED
    BY <1>1, <1>3, <2>1 DEF Concede, Decided, GameStates
<1>4. CASE MainCall
  BY <1>1, <1>4, MainCallDecides
<1>5. CASE EndMainPhase
  <2> DEFINE ended == Checkpoint([state EXCEPT !.phase = "end"])
             queued == [ended EXCEPT !.queue = EndOfTurnEntries(ended)]
             ran == RunQueue(queued)
  <2>1. Decided([state EXCEPT !.phase = "end"])
    BY <1>1 DEF Decided, Phases
  <2>2. Decided(ended)
    BY <2>1, CheckpointDecides
  <2>3. \/ state' = ended \/ Hosted(ran) \/ Hosted(AdvanceEndPhase(ran))
    BY <1>5 DEF EndMainPhase
  <2> HIDE DEF ended
  <2>4. Decided(queued)
    BY <2>2 DEF Decided
  <2> HIDE DEF queued
  <2>5. Decided(ran) /\ Decided(AdvanceEndPhase(ran))
    BY <2>4, CallsDecide
  <2> HIDE DEF ran
  <2>6. QED
    BY <2>2, <2>3, <2>5, HostedDecides
<1>6. ASSUME NEW e \in Host, ChooseTriggerOrder(e)
      PROVE  Decided(state')
  <2>1. Decided([state EXCEPT !.pending = NoDecision])
    BY <1>1 DEF Decided
  <2>2. Decided(ResolveEntry([state EXCEPT !.pending = NoDecision], e))
    BY <2>1, CallsDecide
  <2>3. Decided(RunQueue(ResolveEntry([state EXCEPT !.pending = NoDecision], e)))
    BY <2>2, CallsDecide
  <2>4. QED
    BY <1>6, <2>3, HostedDecides DEF ChooseTriggerOrder
<1>7. ASSUME NEW chosen \in SUBSET Don, SelectTargets(chosen)
      PROVE  Decided(state')
  <2> DEFINE answered == [state EXCEPT !.pending = NoDecision,
                                       !.don = WithState(@, chosen, "active")]
             left == Unqueued(answered, state.pending.entry)
             ran == RunQueue(Checkpoint(left))
  <2>1. Decided(left)
    BY <1>1 DEF Decided, Unqueued
  <2>2. Hosted(ran) \/ Hosted(AdvanceEndPhase(ran))
    BY <1>7 DEF SelectTargets
  <2> HIDE DEF left
  <2>3. Decided(ran) /\ Decided(AdvanceEndPhase(ran))
    BY <2>1, CheckpointDecides, CallsDecide
  <2> HIDE DEF ran
  <2>4. QED
    BY <2>2, <2>3, HostedDecides
<1>8. QED
  BY <1>2, <1>3, <1>4, <1>5, <1>6, <1>7 DEF Next, MainCall

\* No deck runs out before the first main phase, where nobody draws.
LEMMA StartStaysLive ==
  ASSUME IInv, StartMatch
  PROVE  state'.status = "active"
<1> DEFINE s == [state EXCEPT !.status = "active"]
<1>1. state = SetupState
  BY DEF IInv, StartMatch, Good
<1>2. Fresh(s)
  BY <1>1, PlayersAssumption, SizesAssumption DEF SetupState, Fresh, FirstTurn
<1>3. ASSUME NEW x, Fresh(x), NEW cards
      PROVE  Fresh(AdvanceOnce(x, cards))
  <2>1. \A y : Fresh(y) => Checkpoint(y) = y
    BY DEF Fresh, Checkpoint, Losers
  <2>2. Fresh(AdvanceRefreshPhase(x))
    <3>1. Fresh([x EXCEPT !.don = RefreshDon(@, x.turnPlayer), !.phase = "draw"])
      BY <1>3 DEF Fresh, FirstTurn
    <3>2. QED
      BY <2>1, <3>1 DEF AdvanceRefreshPhase
  <2>3. Fresh(AdvanceDrawPhase(x))
    <3>1. FirstTurn(x) /\ Fresh([x EXCEPT !.phase = "don"])
      BY <1>3 DEF Fresh, FirstTurn
    <3>2. QED
      BY <2>1, <3>1 DEF AdvanceDrawPhase
  <2>4. Fresh(EnterMainPhase(AdvanceDonPhase(x, cards)))
    <3> DEFINE y == AdvanceDonPhase(x, cards)
    <3>1. Fresh([x EXCEPT !.don = PlaceDon(@, x.turnPlayer, cards, "active")])
      BY <1>3 DEF Fresh, FirstTurn
    <3>2. Fresh(y)
      BY <2>1, <3>1 DEF AdvanceDonPhase
    <3> HIDE DEF y
    <3>3. Fresh([y EXCEPT !.phase = "main"])
      BY <3>2 DEF Fresh, FirstTurn
    <3>4. Fresh(Checkpoint([y EXCEPT !.phase = "main"]))
      BY <2>1, <3>3
    <3>5. Fresh(EnterMainPhase(y))
      BY <3>2, <3>4 DEF EnterMainPhase, Fresh
    <3>6. QED
      BY <3>5 DEF y
  <2>5. Stops(x) \/ x.phase \in {"refresh", "draw", "don"}
    BY <1>3 DEF Fresh, Stops
  <2>6. QED
    BY <1>3, <2>2, <2>3, <2>4, <2>5 DEF AdvanceOnce
<1>4. PICK cards \in Placements(s) : state' = AdvanceToMain(s, cards)
  BY DEF StartMatch, Hosted
<1> HIDE DEF s
<1>5. Fresh(AdvanceToMain(s, cards))
  BY <1>2, <1>3 DEF AdvanceToMain
<1>6. QED
  BY <1>4, <1>5 DEF Fresh

\* What the host may see of a call that is no concession.
Expected(s, w) ==
    Hosting!EngineOutcomes([status |-> s, winner |-> w, seq |-> 0])

LEMMA HostExpects ==
  ASSUME NEW q \in Player
  PROVE  /\ [status |-> "setup", winner |-> Hosting!NoWinner, holders |-> {},
             pending |-> Hosting!EngineDecision(q, 0)] \in Expected("setup", Hosting!NoWinner)
         /\ \A s \in {"setup", "active"} :
              /\ [status |-> "active", winner |-> Hosting!NoWinner, holders |-> {},
                  pending |-> Hosting!EngineDecision(q, 0)] \in Expected(s, Hosting!NoWinner)
              /\ \A h \in SUBSET Player :
                   [status |-> "active", winner |-> Hosting!NoWinner, holders |-> h,
                    pending |-> Hosting!NoDecision] \in Expected(s, Hosting!NoWinner)
         /\ \A d \in {Hosting!EngineDecision(q, 0), Hosting!NoDecision} :
              /\ \A w \in Player \cup {"draw"} :
                   [status |-> "completed", winner |-> w, holders |-> {}, pending |-> d]
                     \in Expected("active", Hosting!NoWinner)
              /\ \A w : [status |-> "completed", winner |-> w, holders |-> {}, pending |-> d]
                          \in Expected("completed", w)
<1> DEFINE asked == {Hosting!EngineDecision(r, 0) : r \in Player}
           decides(status) ==
             [status : {status}, winner : {Hosting!NoWinner}, holders : {{}}, pending : asked]
           plays == [status : {"active"}, winner : {Hosting!NoWinner},
                     holders : SUBSET Player, pending : {Hosting!NoDecision}]
           ends(winners) == [status : {"completed"}, winner : winners,
                             holders : {{}}, pending : asked \cup {Hosting!NoDecision}]
<1>1. Hosting!EngineDecision(q, 0) \in asked
  OBVIOUS
<1>2. ASSUME NEW s, NEW w
      PROVE  LET r == [status |-> s, winner |-> w, seq |-> 0]
             IN  Expected(s, w) =
                 CASE r.status = "setup" -> decides("setup") \cup decides("active") \cup plays
                   [] r.status = "active" -> decides("active") \cup plays \cup ends(Player \cup {"draw"})
                   [] r.status = "completed" -> ends({r.winner})
  BY DEF Expected, Hosting!EngineOutcomes, Hosting!Draw
<1>3. ASSUME NEW w
      PROVE  /\ Expected("setup", w) = decides("setup") \cup decides("active") \cup plays
             /\ Expected("active", w) = decides("active") \cup plays \cup ends(Player \cup {"draw"})
             /\ Expected("completed", w) = ends({w})
  <2> HIDE DEF decides, plays, ends
  <2>1. QED
    BY <1>2
<1> HIDE DEF asked
<1>4. \A status : [status |-> status, winner |-> Hosting!NoWinner, holders |-> {},
                   pending |-> Hosting!EngineDecision(q, 0)] \in decides(status)
  BY <1>1
<1>5. \A h \in SUBSET Player :
         [status |-> "active", winner |-> Hosting!NoWinner, holders |-> h,
          pending |-> Hosting!NoDecision] \in plays
  OBVIOUS
<1>6. ASSUME NEW winners, NEW w \in winners,
             NEW d \in {Hosting!EngineDecision(q, 0), Hosting!NoDecision}
      PROVE  [status |-> "completed", winner |-> w, holders |-> {}, pending |-> d]
               \in ends(winners)
  BY <1>1
<1> HIDE DEF decides, plays, ends
<1>7. QED
  BY <1>3, <1>4, <1>5, <1>6

\* A concession leaves nothing to answer: what a battle asked goes with it.
LEMMA ConcedeForeseen ==
  ASSUME IInv, IInv', BInv', NEW p \in Player, Concede(p)
  PROVE  Outcome(p)' = Conceded(p)
<1>1. state \in GameStates /\ \A r \in Player : state.deck[r] # 0
  BY IInvOK DEF GameOK, EmptyOK, Concede
<1>2. /\ state'.status = "completed" /\ state'.winner = Opponent(p)
      /\ state'.pending = NoDecision /\ state'.deck = state.deck
  BY <1>1 DEF Concede, GameStates
<1>3. ask' = "none"
  <2>1. ask' # "none" => Losers(state)' # {}
    BY <1>2 DEF BInv
  <2>2. QED
    BY <1>1, <1>2, <2>1 DEF Losers
<1>4. ~Waits' /\ Holders' = {} /\ Winner' = Opponent(p)
  BY <1>2, <1>3 DEF Waits, Holders, Winner
<1>5. Hosting!Other(p) = Opponent(p)
  BY DEF Hosting!Other, Opponent
<1>6. QED
  BY <1>2, <1>4, <1>5 DEF Outcome, Conceded

LEMMA CallForeseen ==
  ASSUME IInv, BInv, [BattleNext]_battleVars
  PROVE  Foreseen
<1>1. IInv' /\ BInv' /\ [Next]_state
  BY BattleNextOK DEF Kept
<1>2. CASE state'.status = "completed" /\ \E p \in Player : Concede(p)
  BY <1>1, <1>2, ConcedeForeseen DEF Foreseen
<1>3. CASE ~(state'.status = "completed" /\ \E p \in Player : Concede(p))
  <2> PICK q \in Player : TRUE
    BY PlayersAssumption
  <2> SUFFICES Outcome(q)' \in Expected(state.status, Winner)
    BY <1>3 DEF Foreseen, Expected
  <2>1. /\ state.status \in {"setup", "active", "completed"}
        /\ state'.turnPlayer \in Player
    <3>1. state \in GameStates
      BY IInvOK DEF GameOK
    <3>2. state'.turnPlayer \in Player
      BY <1>1, PlayersAssumption DEF IInv, SetupState, Good, GameOK, GameStates
    <3>3. QED
      BY <3>1, <3>2 DEF GameStates
  <2>2. /\ Holders' \in SUBSET Player
        /\ Waits' \/ state'.status # "active" => Holders' = {}
    BY <2>1 DEF Holders, Waits
  <2>3. Outcome(q)' = [status |-> state'.status, winner |-> Winner', holders |-> Holders',
                       pending |-> IF Waits' THEN Hosting!EngineDecision(q, 0)
                                   ELSE Hosting!NoDecision]
    BY DEF Outcome
  <2>4. state'.status # "completed" => Winner' = Hosting!NoWinner
    BY DEF Winner
  <2>5. state.status # "completed" => Winner = Hosting!NoWinner
    BY DEF Winner
  <2>6. CASE state.status = "setup"
    <3>1. StartMatch \/ UNCHANGED state
      <4>1. ~MainCall /\ ~EndMainPhase
        BY <2>6
        DEF MainCall, GiveDon, PlayCharacter, EffectRestsDon, EffectActivatesDon,
            EffectGivesDon, EffectLocksDon, EffectAddsDon, EffectReturnsDon,
            CharacterLeaves, CharacterTrashedInstead, EffectDraws, EndMainPhase, InMain
      <4>2. /\ ~\E e \in Host : ChooseTriggerOrder(e)
            /\ ~\E chosen \in SUBSET Don : SelectTargets(chosen)
        BY <2>6 DEF ChooseTriggerOrder, SelectTargets, Answering
      <4>3. ~\E p \in Player : Concede(p)
        <5>1. state \in GameStates
          BY IInvOK DEF GameOK
        <5>2. \A p \in Player : Concede(p) => state'.status = "completed"
          BY <5>1 DEF Concede, GameStates
        <5>3. QED
          BY <1>3, <5>2
      <4>4. QED
        BY <1>1, <4>1, <4>2, <4>3 DEF Next, MainCall
    <3>2. CASE StartMatch
      <4>1. state'.status = "active"
        BY <3>2, StartStaysLive
      <4>2. QED
        BY <2>2, <2>3, <2>4, <2>5, <2>6, <4>1, HostExpects
    <3>3. CASE UNCHANGED state
      <4>1. state'.status = "setup" /\ Waits'
        BY <2>6, <3>3 DEF Waits
      <4>2. QED
        BY <2>2, <2>3, <2>4, <2>5, <2>6, <4>1, HostExpects
    <3>4. QED
      BY <3>1, <3>2, <3>3
  <2>7. CASE state.status = "active"
    <3>1. \/ state'.status = "active"
          \/ /\ state'.status = "completed"
             /\ Winner' \in Player \cup {"draw"}
      BY <1>1, <2>7, LiveCallDecides DEF Decided, Winner
    <3>2. CASE state'.status = "active"
      BY <2>2, <2>3, <2>4, <2>5, <2>7, <3>2, HostExpects
    <3>3. CASE state'.status = "completed"
      BY <2>2, <2>3, <2>5, <2>7, <3>1, <3>3, HostExpects
    <3>4. QED
      BY <3>1, <3>2, <3>3
  <2>8. CASE state.status = "completed"
    <3>1. UNCHANGED state
      BY <1>1, <2>8
      DEF Next, StartMatch, Concede, GiveDon, PlayCharacter, EffectRestsDon,
          EffectActivatesDon, EffectGivesDon, EffectLocksDon, EffectAddsDon,
          EffectReturnsDon, CharacterLeaves, CharacterTrashedInstead, EffectDraws,
          EndMainPhase, InMain, ChooseTriggerOrder, SelectTargets, Answering
    <3>2. state'.status = "completed" /\ Winner' = Winner
      BY <2>8, <3>1 DEF Winner
    <3>3. QED
      BY <2>2, <2>3, <2>8, <3>2, HostExpects
  <2>9. QED
    BY <2>1, <2>6, <2>7, <2>8
<1>4. QED
  BY <1>2, <1>3

\* Whatever the turn flow and its battles do in a call, the host, which
\* knows none of the rules, has foreseen it: LocalMatch leaves out nothing
\* that this model of the engine does.
THEOREM CallsAreForeseen == BattleSpec => CallsForeseen
<1>1. IInv /\ BInv /\ [BattleNext]_battleVars
        => [Foreseen]_<<state.status, Winner, Holders, Waits>>
  BY CallForeseen
<1>2. QED
  BY <1>1, BattleInvHolds, PTL DEF BattleSpec, CallsForeseen

\* While no end phase is stranded, a live match waits for an answer or there
\* is a player who has an action: an empty list of holders, which the host
\* allows the engine, comes of EndPhaseProceeds alone.
THEOREM SomebodyMoves ==
  BattleSpec => [](state.status = "active" /\ EndPhaseProceeds
                     => Waits \/ Holders # {})
<1>1. IInv /\ BInv => (state.status = "active" /\ EndPhaseProceeds
                         => Waits \/ Holders # {})
  <2> SUFFICES ASSUME IInv, BInv, state.status = "active", EndPhaseProceeds, ~Waits
               PROVE  Holders # {}
    OBVIOUS
  <2>1. state.phase \in {"main", "end"}
    BY DEF IInv, SetupState, HandedOff
  <2>2. state.phase = "main" /\ battle = NoBattle
    BY <2>1 DEF EndPhaseProceeds, Waits, BInv
  <2>3. QED
    BY <2>2 DEF Holders
<1>2. QED
  BY <1>1, BattleInvHolds, PTL
=============================================================================
