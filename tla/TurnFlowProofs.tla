--------------------------- MODULE TurnFlowProofs ---------------------------
(* Proofs about TurnFlow: for any DON!! cards, hosts, effects and sizes no *)
(* DON!! card is lost, no call stops between the mandatory phases, and an  *)
(* empty deck ends the match.                                              *)
EXTENDS TurnFlow, FiniteSetTheorems, TLAPS

---------------------------------------------------------------------------
(* Moves of DON!! cards *)

DonOK(z) == z \in DonZones /\ Conserved(z)

\* A change of state fields moves no card.
LEMMA WithStateOK ==
  ASSUME NEW z, DonOK(z), NEW cards, NEW new \in CardState
  PROVE  /\ DonOK(WithState(z, cards, new))
         /\ WithState(z, cards, new).donDeck = z.donDeck
         /\ WithState(z, cards, new).costArea = z.costArea
         /\ WithState(z, cards, new).attachedDon = z.attachedDon
         /\ WithState(z, cards, new).locked = z.locked
<1> DEFINE w == WithState(z, cards, new)
<1>1. /\ w \in DonZones /\ w.donDeck = z.donDeck /\ w.costArea = z.costArea
      /\ w.attachedDon = z.attachedDon /\ w.locked = z.locked
  BY DEF DonOK, DonZones, WithState
<1>2. Conserved(w)
  BY <1>1 DEF DonOK, Conserved, AttachedTo
<1>3. QED
  BY <1>1, <1>2 DEF DonOK

\* Dropping references moves no card and leaves the other references.
LEMMA WithoutReferencesOK ==
  ASSUME NEW z, DonOK(z), NEW hosts, NEW cards
  PROVE  /\ DonOK(WithoutReferences(z, hosts, cards))
         /\ WithoutReferences(z, hosts, cards).donDeck = z.donDeck
         /\ WithoutReferences(z, hosts, cards).costArea = z.costArea
         /\ \A h \in Host, d \in Don :
              WithoutReferences(z, hosts, cards).attachedDon[h][d]
                = IF h \in hosts /\ d \in cards THEN 0 ELSE z.attachedDon[h][d]
<1> DEFINE m == [h \in Host |-> [d \in Don |->
                    IF h \in hosts /\ d \in cards THEN 0 ELSE z.attachedDon[h][d]]]
           w == WithoutReferences(z, hosts, cards)
<1>1. m \in [Host -> [Don -> Nat]]
  BY DEF DonOK, DonZones
<1>2. \A h \in Host, d \in Don :
        m[h][d] = IF h \in hosts /\ d \in cards THEN 0 ELSE z.attachedDon[h][d]
  OBVIOUS
<1>3. w = [z EXCEPT !.attachedDon = m]
  BY DEF WithoutReferences
<1> HIDE DEF m, w
<1>4. /\ w \in DonZones /\ w.donDeck = z.donDeck /\ w.costArea = z.costArea
      /\ w.attachedDon = m
  BY <1>1, <1>3 DEF DonOK, DonZones
<1>5. \A p \in Player : AttachedTo(w, HostsOf(p)) \subseteq AttachedTo(z, HostsOf(p))
  BY <1>2, <1>4 DEF AttachedTo, HostsOf
<1>6. Conserved(w)
  BY <1>4, <1>5 DEF DonOK, Conserved
<1>7. QED
  BY <1>2, <1>4, <1>6 DEF DonOK, w

\* A host of a player may be given a card of that player's cost area.
LEMMA AttachDonOK ==
  ASSUME NEW z, DonOK(z), NEW h \in Host, NEW d \in z.costArea[HostOwner[h]]
  PROVE  DonOK(AttachDon(z, h, d))
<1> DEFINE s == WithState(z, {d}, "none")
           w == AttachDon(z, h, d)
           m == [s.attachedDon EXCEPT ![h][d] = @ + 1]
<1>1. DonOK(s) /\ s.donDeck = z.donDeck /\ s.costArea = z.costArea
  BY WithStateOK DEF CardState
<1>a. HostOwner[h] \in Player /\ d \in Don
  BY HostOwnerAssumption DEF DonOK, DonZones
<1>b. w = [s EXCEPT !.attachedDon = m]
  BY DEF AttachDon
<1>c. m \in [Host -> [Don -> Nat]]
  <2> HIDE DEF s
  <2>1. QED
    BY <1>1, <1>a DEF DonOK, DonZones
<1>2. /\ w.donDeck = s.donDeck /\ w.costArea = s.costArea
      /\ w.attachedDon = [s.attachedDon EXCEPT ![h][d] = @ + 1]
      /\ w \in DonZones
  <2> HIDE DEF s, w
  <2>1. w.attachedDon = m /\ w.donDeck = s.donDeck /\ w.costArea = s.costArea
    <3> HIDE DEF m
    <3>1. QED
      BY <1>1, <1>b DEF DonOK, DonZones
  <2>2. w \in DonZones
    <3> HIDE DEF m
    <3>1. QED
      BY <1>1, <1>b, <1>c DEF DonOK, DonZones
  <2>3. QED
    BY <2>1, <2>2
<1>3. ASSUME NEW p \in Player
      PROVE  AttachedTo(w, HostsOf(p)) \subseteq s.costArea[p]
  <2>1. AttachedTo(s, HostsOf(p)) \subseteq s.costArea[p]
    BY <1>1 DEF DonOK, Conserved
  <2>2. ASSUME NEW k \in HostsOf(p), NEW c \in Don, w.attachedDon[k][c] > 0
        PROVE  c \in s.costArea[p]
    <3>1. k \in Host /\ HostOwner[k] = p
      BY DEF HostsOf
    <3>2. CASE k = h /\ c = d
      BY <3>1, <3>2, <1>1
    <3>3. CASE k # h \/ c # d
      <4>1. w.attachedDon[k][c] = s.attachedDon[k][c]
        BY <1>1, <1>2, <3>1, <3>3 DEF DonOK, DonZones
      <4>2. QED
        BY <2>1, <2>2, <4>1 DEF AttachedTo
    <3>4. QED
      BY <3>2, <3>3
  <2>3. QED
    BY <2>2 DEF AttachedTo
<1>4. Conserved(w)
  BY <1>1, <1>2, <1>3 DEF DonOK, Conserved
<1>5. QED
  BY <1>2, <1>4 DEF DonOK

\* Cards go from a player's DON!! deck to that player's cost area.
LEMMA PlaceDonOK ==
  ASSUME NEW z, DonOK(z), NEW p \in Player, NEW cards \in SUBSET z.donDeck[p],
         NEW new \in CardState
  PROVE  DonOK(PlaceDon(z, p, cards, new))
<1> DEFINE s == WithState(z, cards, new)
           w == PlaceDon(z, p, cards, new)
<1>1. /\ DonOK(s) /\ s.donDeck = z.donDeck /\ s.costArea = z.costArea
      /\ s.attachedDon = z.attachedDon
  BY WithStateOK
<1>2. cards \subseteq Don
  BY DEF DonOK, DonZones
<1>3. /\ w.donDeck = [z.donDeck EXCEPT ![p] = @ \ cards]
      /\ w.costArea = [z.costArea EXCEPT ![p] = @ \cup cards]
      /\ w.attachedDon = z.attachedDon
      /\ w \in DonZones
  BY <1>1, <1>2 DEF PlaceDon, DonOK, DonZones
<1>4. ASSUME NEW q \in Player
      PROVE  /\ w.donDeck[q] \cap w.costArea[q] = {}
             /\ w.donDeck[q] \cup w.costArea[q] = DonOf[q]
             /\ z.costArea[q] \subseteq w.costArea[q]
  BY <1>3 DEF DonOK, DonZones, Conserved
<1>5. Conserved(w)
  BY <1>3, <1>4 DEF DonOK, Conserved, AttachedTo
<1>6. QED
  BY <1>3, <1>5 DEF DonOK

\* A host that leaves, with or without resting its cards, loses none.
LEMMA HostLeavesOK ==
  ASSUME NEW z, DonOK(z), NEW h \in Host
  PROVE  DonOK(HostLeaves(z, h)) /\ DonOK(HostTrashedInstead(z, h))
<1>1. DonOK(WithState(z, AttachedTo(z, {h}) \cap z.costArea[HostOwner[h]], "rested"))
  BY WithStateOK DEF CardState
<1>2. QED
  BY <1>1, WithoutReferencesOK DEF HostLeaves, HostTrashedInstead

\* Cards go back to the DON!! deck and no host refers to them any more.
LEMMA ReturnDonOK ==
  ASSUME NEW z, DonOK(z), NEW p \in Player, NEW cards \in SUBSET z.costArea[p]
  PROVE  DonOK(ReturnDon(z, p, cards))
<1> DEFINE s == WithState(z, cards, "none")
           v == WithoutReferences(s, HostsOf(p), cards)
           w == ReturnDon(z, p, cards)
<1>1. /\ DonOK(s) /\ s.donDeck = z.donDeck /\ s.costArea = z.costArea
      /\ s.attachedDon = z.attachedDon
  BY WithStateOK DEF CardState
<1>2. /\ DonOK(v) /\ v.donDeck = z.donDeck /\ v.costArea = z.costArea
      /\ \A h \in Host, d \in Don :
           v.attachedDon[h][d] = IF h \in HostsOf(p) /\ d \in cards
                                 THEN 0 ELSE z.attachedDon[h][d]
  BY <1>1, WithoutReferencesOK
<1>3. cards \subseteq Don
  BY DEF DonOK, DonZones
<1>4. /\ w.donDeck = [z.donDeck EXCEPT ![p] = @ \cup cards]
      /\ w.costArea = [z.costArea EXCEPT ![p] = @ \ cards]
      /\ w.attachedDon = v.attachedDon
      /\ w \in DonZones
  BY <1>2, <1>3 DEF ReturnDon, DonOK, DonZones
<1>5. ASSUME NEW q \in Player
      PROVE  /\ w.donDeck[q] \cap w.costArea[q] = {}
             /\ w.donDeck[q] \cup w.costArea[q] = DonOf[q]
             /\ w.costArea[q] = IF q = p THEN z.costArea[p] \ cards ELSE z.costArea[q]
  BY <1>4 DEF DonOK, DonZones, Conserved
<1>6. ASSUME NEW q \in Player, NEW h \in HostsOf(q), NEW d \in Don,
             w.attachedDon[h][d] > 0
      PROVE  d \in w.costArea[q]
  <2>1. h \in Host
    BY DEF HostsOf
  <2>2. d \in v.costArea[q]
    BY <1>2, <1>4, <1>6 DEF DonOK, Conserved, AttachedTo
  <2>3. CASE q = p
    <3>1. d \notin cards
      BY <1>2, <1>4, <1>6, <2>1, <2>3
    <3>2. QED
      BY <1>2, <1>5, <2>2, <2>3, <3>1
  <2>4. CASE q # p
    BY <1>2, <1>5, <2>2, <2>4
  <2>5. QED
    BY <2>3, <2>4
<1>7. Conserved(w)
  BY <1>5, <1>6 DEF Conserved, AttachedTo
<1>8. QED
  BY <1>4, <1>7 DEF DonOK

\* The refresh phase moves no card, and what the DON!! deck holds stays.
LEMMA RefreshDonOK ==
  ASSUME NEW z, DonOK(z), NEW p \in Player
  PROVE  DonOK(RefreshDon(z, p)) /\ RefreshDon(z, p).donDeck = z.donDeck
<1> DEFINE attached == AttachedTo(z, HostsOf(p))
           returned == WithState(z, attached \cap z.costArea[p], "rested")
           ready == WithState(returned, z.costArea[p] \ z.locked, "active")
           v == WithoutReferences(ready, HostsOf(p), Don)
           w == RefreshDon(z, p)
<1>1. DonOK(returned) /\ returned.donDeck = z.donDeck
  BY WithStateOK DEF CardState
<1>2. DonOK(ready) /\ ready.donDeck = z.donDeck
  <2> HIDE DEF returned
  <2>1. QED
    BY <1>1, WithStateOK DEF CardState
<1>3. DonOK(v) /\ v.donDeck = z.donDeck
  <2> HIDE DEF ready
  <2>1. QED
    BY <1>2, WithoutReferencesOK
<1>4. w = [v EXCEPT !.locked = @ \ DonOf[p]]
  BY DEF RefreshDon
<1> HIDE DEF v, w
<1>5. /\ w \in DonZones /\ w.donDeck = v.donDeck /\ w.costArea = v.costArea
      /\ w.attachedDon = v.attachedDon
  BY <1>3, <1>4 DEF DonOK, DonZones
<1>6. Conserved(w)
  BY <1>3, <1>5 DEF DonOK, Conserved, AttachedTo
<1>7. QED
  BY <1>3, <1>5, <1>6 DEF DonOK, w
---------------------------------------------------------------------------
(* Steps of the engine *)

GameOK(s) == s \in GameStates /\ Conserved(s.don)

EmptyOK(s) ==
    \A p \in Player : s.deck[p] = 0 => s.status = "completed" /\ s.winner # p

\* Effect work is only there in the end phase, and waits for an answer.
Fit(s) ==
    s.status = "active" =>
        /\ s.phase # "end" => s.queue = {} /\ s.pending = NoDecision
        /\ s.queue # {} => s.pending # NoDecision
        /\ s.pending.type = "selectTargets" => s.pending.entry \in s.queue

Good(s) == GameOK(s) /\ EmptyOK(s) /\ Fit(s) /\ s.status # "setup"

SameFlow(s, t) ==
    /\ t.don = s.don /\ t.phase = s.phase /\ t.turnPlayer = s.turnPlayer
    /\ t.pending = s.pending /\ t.queue = s.queue /\ t.field = s.field

LEMMA OpponentOK ==
  ASSUME NEW p \in Player
  PROVE  Opponent(p) \in Player /\ Opponent(p) # p
<1>1. \E q \in Player : q # p
  BY PlayersAssumption
<1>2. QED
  BY <1>1 DEF Opponent

\* The state is typed and its cards are in place.
LEMMA GameDon ==
  ASSUME NEW s, GameOK(s)
  PROVE  DonOK(s.don) /\ s.turnPlayer \in Player
BY DEF GameOK, GameStates, DonOK

\* A state that changes only its DON!! cards and its field stays typed.
LEMMA NewDonOK ==
  ASSUME NEW s, GameOK(s), NEW z, DonOK(z), NEW f \in SUBSET Host
  PROVE  /\ GameOK([s EXCEPT !.don = z])
         /\ GameOK([s EXCEPT !.field = f, !.don = z])
<1>1. [s EXCEPT !.don = z] \in GameStates /\ [s EXCEPT !.don = z].don = z
  BY DEF GameOK, GameStates, DonOK
<1>2. /\ [s EXCEPT !.field = f, !.don = z] \in GameStates
      /\ [s EXCEPT !.field = f, !.don = z].don = z
  BY DEF GameOK, GameStates, DonOK
<1>3. QED
  BY <1>1, <1>2 DEF GameOK, DonOK

\* The checkpoint ends a match with an empty deck and changes nothing else.
LEMMA CheckpointOK ==
  ASSUME NEW s, GameOK(s), s.status = "completed" => EmptyOK(s)
  PROVE  /\ GameOK(Checkpoint(s))
         /\ EmptyOK(Checkpoint(s))
         /\ SameFlow(s, Checkpoint(s))
         /\ Checkpoint(s).status \in {s.status, "completed"}
<1>1. CASE s.status = "completed" \/ Losers(s) = {}
  <2>1. Checkpoint(s) = s
    BY <1>1 DEF Checkpoint
  <2>2. EmptyOK(s)
    BY <1>1 DEF EmptyOK, Losers
  <2>3. QED
    BY <2>1, <2>2 DEF SameFlow
<1>2. CASE s.status # "completed" /\ Losers(s) # {}
  <2> DEFINE w == IF Losers(s) = Player THEN "draw"
                  ELSE CHOOSE p \in Player : p \notin Losers(s)
             t == [s EXCEPT !.status = "completed", !.winner = w]
  <2>1. Checkpoint(s) = t
    BY <1>2 DEF Checkpoint
  <2>2. \/ Losers(s) = Player /\ w = "draw"
        \/ Losers(s) # Player /\ w \in Player /\ w \notin Losers(s)
    <3>1. CASE Losers(s) = Player
      BY <3>1
    <3>2. CASE Losers(s) # Player
      <4>1. \E p \in Player : p \notin Losers(s)
        BY <3>2 DEF Losers
      <4>2. QED
        BY <3>2, <4>1
    <3>3. QED
      BY <3>1, <3>2
  <2> HIDE DEF w
  <2>3. /\ t \in GameStates /\ t.status = "completed" /\ t.winner = w
        /\ t.deck = s.deck /\ SameFlow(s, t)
    BY <2>2 DEF GameOK, GameStates, SameFlow
  <2>4. EmptyOK(t)
    <3> SUFFICES ASSUME NEW p \in Player, t.deck[p] = 0 PROVE w # p
      BY <2>3 DEF EmptyOK
    <3>1. p \in Losers(s)
      BY <2>3 DEF Losers
    <3>2. QED
      BY <2>2, <3>1, DrawIsNoPlayer
  <2>5. QED
    BY <2>1, <2>3, <2>4 DEF GameOK, SameFlow
<1>3. QED
  BY <1>1, <1>2
LEMMA DrawsOK ==
  ASSUME NEW s, GameOK(s), NEW p \in Player
  PROVE  /\ GameOK(Draws(s, p)) /\ SameFlow(s, Draws(s, p))
         /\ Draws(s, p).status = s.status
<1>1. s.deck \in [Player -> Nat]
  BY DEF GameOK, GameStates
<1>2. [s.deck EXCEPT ![p] = IF @ = 0 THEN 0 ELSE @ - 1] \in [Player -> Nat]
  BY <1>1
<1>3. QED
  BY <1>2 DEF Draws, GameOK, GameStates, SameFlow

---------------------------------------------------------------------------
(* The effect queue of the end phase *)

\* A state of the end phase that may be about to wait for an answer.
Running(s) ==
    /\ GameOK(s) /\ EmptyOK(s) /\ s.status # "setup" /\ s.phase = "end"
    /\ s.status = "active" /\ s.pending.type = "selectTargets"
         => s.pending.entry \in s.queue

LEMMA UnqueuedOK ==
  ASSUME NEW s, GameOK(s), NEW e
  PROVE  /\ GameOK(Unqueued(s, e))
         /\ Unqueued(s, e) = [s EXCEPT !.queue = {x \in s.queue : Block[x] # Block[e]}]
         /\ Unqueued(s, e).status = s.status /\ Unqueued(s, e).phase = s.phase
         /\ Unqueued(s, e).pending = s.pending /\ Unqueued(s, e).deck = s.deck
         /\ Unqueued(s, e).winner = s.winner /\ Unqueued(s, e).don = s.don
         /\ Unqueued(s, e).queue = {x \in s.queue : Block[x] # Block[e]}
<1>1. {x \in s.queue : Block[x] # Block[e]} \in SUBSET Host
  BY DEF GameOK, GameStates
<1>2. Unqueued(s, e) = [s EXCEPT !.queue = {x \in s.queue : Block[x] # Block[e]}]
  BY DEF Unqueued, GameOK, GameStates
<1>3. QED
  BY <1>1, <1>2 DEF GameOK, GameStates

\* An entry that resolves asks about itself or leaves the queue.
LEMMA ResolveEntryOK ==
  ASSUME NEW s, Running(s), s.status = "active", s.pending = NoDecision,
         NEW e \in s.queue
  PROVE  /\ Running(ResolveEntry(s, e))
         /\ \/ ResolveEntry(s, e).pending # NoDecision
            \/ ResolveEntry(s, e).queue = {x \in s.queue : Block[x] # Block[e]}
<1> DEFINE r == ResolveEntry(s, e)
<1>1. e \in Host /\ s.turnPlayer \in Player
  BY DEF Running, GameOK, GameStates
<1>2. CASE Block[e] \in Asks
  <2> DEFINE d == [type |-> "selectTargets", entry |-> e]
  <2>1. d \in Decisions /\ d # NoDecision /\ d.entry = e
    BY <1>1 DEF Decisions, NoDecision
  <2>2. r = [s EXCEPT !.pending = d]
    BY <1>2 DEF ResolveEntry
  <2> HIDE DEF d, r
  <2>3. /\ r \in GameStates /\ r.pending = d /\ r.don = s.don /\ r.deck = s.deck
        /\ r.status = s.status /\ r.winner = s.winner /\ r.phase = s.phase
        /\ r.queue = s.queue
    BY <2>1, <2>2 DEF Running, GameOK, GameStates
  <2>4. QED
    BY <2>1, <2>3 DEF Running, GameOK, EmptyOK, r
<1>3. CASE Block[e] \notin Asks
  <2> DEFINE d == Draws(s, s.turnPlayer)
             u == Unqueued(d, e)
  <2>1. GameOK(d) /\ SameFlow(s, d) /\ d.status = "active"
    BY <1>1, DrawsOK DEF Running
  <2> HIDE DEF d
  <2>2. /\ GameOK(u) /\ u.status = "active" /\ u.phase = "end" /\ u.pending = NoDecision
        /\ u.queue = {x \in s.queue : Block[x] # Block[e]}
    BY <2>1, UnqueuedOK DEF SameFlow, Running
  <2>3. r = Checkpoint(u)
    BY <1>3 DEF ResolveEntry, d
  <2> HIDE DEF u, r
  <2>4. GameOK(r) /\ EmptyOK(r) /\ SameFlow(u, r) /\ r.status \in {"active", "completed"}
    BY <2>2, <2>3, CheckpointOK
  <2>5. QED
    BY <2>2, <2>4 DEF Running, SameFlow, NoDecision, r
<1>4. QED
  BY <1>2, <1>3

\* However the queue runs, it stops with a question or with nothing left.
LEMMA RunQueueOK ==
  ASSUME NEW s, Running(s)
  PROVE  Running(RunQueue(s)) /\ Fit(RunQueue(s))
<1> DEFINE r == RunQueue(s)
<1>1. CASE s.status # "active" \/ s.pending # NoDecision \/ s.queue = {}
  BY <1>1 DEF RunQueue, Running, Fit
<1>2. CASE /\ s.status = "active" /\ s.pending = NoDecision /\ s.queue # {}
           /\ Cardinality(s.queue) > 1
  <2> DEFINE d == [type |-> "chooseTriggerOrder", entry |-> NoHost]
  <2>1. d \in Decisions /\ d # NoDecision /\ d.type # "selectTargets"
    BY DEF Decisions, NoDecision
  <2>2. r = [s EXCEPT !.pending = d]
    BY <1>2 DEF RunQueue
  <2> HIDE DEF d, r
  <2>3. /\ r \in GameStates /\ r.pending = d /\ r.don = s.don /\ r.deck = s.deck
        /\ r.status = s.status /\ r.winner = s.winner /\ r.phase = s.phase
    BY <2>1, <2>2 DEF Running, GameOK, GameStates
  <2>4. QED
    BY <2>1, <2>3 DEF Running, GameOK, EmptyOK, Fit, r
<1>3. CASE /\ s.status = "active" /\ s.pending = NoDecision /\ s.queue # {}
           /\ ~(Cardinality(s.queue) > 1)
  <2> DEFINE e == CHOOSE x \in s.queue : TRUE
  <2>1. e \in s.queue
    BY <1>3
  <2>2. r = ResolveEntry(s, e)
    BY <1>3 DEF RunQueue
  <2>3. IsFiniteSet(s.queue)
    BY FiniteDonAssumption, FS_Subset DEF Running, GameOK, GameStates
  <2>4. Cardinality(s.queue) = 1
    <3>1. Cardinality(s.queue) \in Nat /\ Cardinality(s.queue) # 0
      BY <1>3, <2>3, FS_CardinalityType, FS_EmptySet
    <3>2. QED
      BY <1>3, <3>1
  <2>5. s.queue = {e}
    BY <2>1, <2>3, <2>4, FS_Singleton
  <2> HIDE DEF e, r
  <2>6. Running(r) /\ (r.pending # NoDecision \/ r.queue = {})
    BY <1>3, <2>1, <2>2, <2>5, ResolveEntryOK
  <2>7. QED
    BY <2>6 DEF Running, Fit, r
<1>4. QED
  BY <1>1, <1>2, <1>3
---------------------------------------------------------------------------
(* The mandatory phases *)

\* The cards a call is about to place are in the DON!! deck.
CanPlace(s, cards) ==
    ~Stops(s) => cards \subseteq s.don.donDeck[s.turnPlayer]

\* A checkpoint in a phase without effect work.
LEMMA QuietCheckpoint ==
  ASSUME NEW s, GameOK(s), s.status = "active", s.queue = {}, s.pending = NoDecision
  PROVE  /\ Good(Checkpoint(s)) /\ SameFlow(s, Checkpoint(s))
<1>1. /\ GameOK(Checkpoint(s)) /\ EmptyOK(Checkpoint(s)) /\ SameFlow(s, Checkpoint(s))
      /\ Checkpoint(s).status \in {"active", "completed"}
  BY CheckpointOK
<1>2. QED
  BY <1>1 DEF Good, Fit, SameFlow, NoDecision

\* Refresh goes to draw.
LEMMA RefreshOK ==
  ASSUME NEW s, Good(s), ~Stops(s), s.phase = "refresh"
  PROVE  LET t == AdvanceRefreshPhase(s)
         IN  /\ Good(t) /\ t.phase = "draw" /\ t.turnPlayer = s.turnPlayer
             /\ t.don.donDeck = s.don.donDeck
<1> DEFINE z == RefreshDon(s.don, s.turnPlayer)
           u == [s EXCEPT !.don = z, !.phase = "draw"]
<1>1. DonOK(z) /\ z.donDeck = s.don.donDeck
  BY GameDon, RefreshDonOK DEF Good
<1>2. AdvanceRefreshPhase(s) = Checkpoint(u)
  BY DEF AdvanceRefreshPhase
<1> HIDE DEF z
<1>3. /\ u \in GameStates /\ u.don = z /\ u.phase = "draw" /\ u.turnPlayer = s.turnPlayer
      /\ u.status = "active" /\ u.queue = {} /\ u.pending = NoDecision
  BY <1>1 DEF Good, GameOK, GameStates, DonOK, Fit, Stops, Phases
<1> HIDE DEF u
<1>4. Good(Checkpoint(u)) /\ SameFlow(u, Checkpoint(u))
  BY <1>1, <1>3, QuietCheckpoint DEF GameOK, DonOK
<1>5. QED
  BY <1>1, <1>2, <1>3, <1>4 DEF SameFlow

\* Draw goes to DON!!.
LEMMA DrawPhaseOK ==
  ASSUME NEW s, Good(s), ~Stops(s), s.phase = "draw"
  PROVE  LET t == AdvanceDrawPhase(s)
         IN  /\ Good(t) /\ t.phase = "don" /\ t.turnPlayer = s.turnPlayer
             /\ t.don = s.don
<1> DEFINE d == IF FirstTurn(s) THEN s ELSE Draws(s, s.turnPlayer)
           u == [d EXCEPT !.phase = "don"]
<1>1. GameOK(d) /\ SameFlow(s, d) /\ d.status = "active"
  <2>1. s.turnPlayer \in Player /\ s.status = "active"
    BY GameDon DEF Good, Stops
  <2>2. QED
    BY <2>1, DrawsOK DEF Good, SameFlow
<1>2. AdvanceDrawPhase(s) = Checkpoint(u)
  BY DEF AdvanceDrawPhase
<1> HIDE DEF d
<1>3. /\ u \in GameStates /\ u.don = d.don /\ u.phase = "don"
      /\ u.turnPlayer = d.turnPlayer /\ u.status = "active"
      /\ u.queue = d.queue /\ u.pending = d.pending
  BY <1>1 DEF GameOK, GameStates, Phases
<1>4. d.queue = {} /\ d.pending = NoDecision /\ d.don = s.don /\ d.turnPlayer = s.turnPlayer
  BY <1>1 DEF SameFlow, Good, Fit, Stops
<1> HIDE DEF u
<1>5. Good(Checkpoint(u)) /\ SameFlow(u, Checkpoint(u))
  BY <1>1, <1>3, <1>4, QuietCheckpoint DEF GameOK
<1>6. QED
  BY <1>2, <1>3, <1>4, <1>5 DEF SameFlow

\* DON!! goes to main.
LEMMA DonPhaseOK ==
  ASSUME NEW s, Good(s), ~Stops(s), s.phase = "don", NEW cards, CanPlace(s, cards)
  PROVE  LET t == EnterMainPhase(AdvanceDonPhase(s, cards))
         IN  Good(t) /\ Stops(t)
<1> DEFINE z == PlaceDon(s.don, s.turnPlayer, cards, "active")
           u == [s EXCEPT !.don = z]
           v == AdvanceDonPhase(s, cards)
           w == [v EXCEPT !.phase = "main"]
<1>1. DonOK(z)
  BY GameDon, PlaceDonOK DEF Good, CanPlace, CardState
<1>2. v = Checkpoint(u)
  BY DEF AdvanceDonPhase
<1> HIDE DEF z
<1>3. /\ GameOK(u) /\ u.status = "active" /\ u.queue = {} /\ u.pending = NoDecision
  BY <1>1 DEF Good, GameOK, GameStates, DonOK, Fit, Stops
<1> HIDE DEF u, v
<1>4. Good(v) /\ v.queue = {} /\ v.pending = NoDecision
  BY <1>2, <1>3, QuietCheckpoint DEF SameFlow
<1>5. CASE v.status # "active"
  BY <1>4, <1>5 DEF EnterMainPhase, Stops, v
<1>6. CASE v.status = "active"
  <2>1. EnterMainPhase(v) = Checkpoint(w)
    BY <1>4, <1>6 DEF EnterMainPhase
  <2>2. /\ w \in GameStates /\ w.don = v.don /\ w.phase = "main"
        /\ w.status = "active" /\ w.queue = {} /\ w.pending = NoDecision
    BY <1>4, <1>6 DEF Good, GameOK, GameStates, Phases
  <2> HIDE DEF w
  <2>3. Good(Checkpoint(w)) /\ SameFlow(w, Checkpoint(w))
    BY <1>4, <2>2, QuietCheckpoint DEF Good, GameOK
  <2>4. QED
    BY <2>1, <2>2, <2>3 DEF SameFlow, Stops, v
<1>7. QED
  BY <1>5, <1>6

\* One round of the loop of advanceToMainPhase.
LEMMA AdvanceOnceOK ==
  ASSUME NEW s, Good(s), NEW cards, CanPlace(s, cards)
  PROVE  LET t == AdvanceOnce(s, cards)
         IN  /\ Good(t) /\ CanPlace(t, cards)
             /\ Stops(s) => Stops(t)
             /\ ~Stops(s) /\ s.phase = "refresh" => t.phase = "draw"
             /\ ~Stops(s) /\ s.phase = "draw" => t.phase = "don"
             /\ ~Stops(s) /\ s.phase = "don" => Stops(t)
<1>1. CASE Stops(s)
  <2>1. AdvanceOnce(s, cards) = s
    BY <1>1 DEF AdvanceOnce
  <2>2. QED
    BY <1>1, <2>1
<1>2. CASE ~Stops(s) /\ s.phase = "refresh"
  <2>1. AdvanceOnce(s, cards) = AdvanceRefreshPhase(s)
    BY <1>2 DEF AdvanceOnce
  <2>2. QED
    BY <1>2, <2>1, RefreshOK DEF CanPlace
<1>3. CASE ~Stops(s) /\ s.phase = "draw"
  <2>1. AdvanceOnce(s, cards) = AdvanceDrawPhase(s)
    BY <1>3 DEF AdvanceOnce
  <2>2. QED
    BY <1>3, <2>1, DrawPhaseOK DEF CanPlace
<1>4. CASE ~Stops(s) /\ s.phase = "don"
  <2>1. AdvanceOnce(s, cards) = EnterMainPhase(AdvanceDonPhase(s, cards))
    BY <1>4 DEF AdvanceOnce
  <2>2. QED
    BY <1>4, <2>1, DonPhaseOK DEF CanPlace
<1>5. QED
  <2>1. ~Stops(s) => s.phase \in {"refresh", "draw", "don"}
    BY DEF Stops, Good, GameOK, GameStates, Phases
  <2>2. QED
    BY <1>1, <1>2, <1>3, <1>4, <2>1

\* Three rounds reach a stop from any phase; the fourth is idle.
LEMMA AdvanceToMainOK ==
  ASSUME NEW s, Good(s), NEW cards, CanPlace(s, cards)
  PROVE  Good(AdvanceToMain(s, cards)) /\ Stops(AdvanceToMain(s, cards))
<1> DEFINE s1 == AdvanceOnce(s, cards)
           s2 == AdvanceOnce(s1, cards)
           s3 == AdvanceOnce(s2, cards)
           s4 == AdvanceOnce(s3, cards)
<1>1. AdvanceToMain(s, cards) = s4
  BY DEF AdvanceToMain
<1>2. ~Stops(s) => s.phase \in {"refresh", "draw", "don"}
  BY DEF Stops, Good, GameOK, GameStates, Phases
<1>3. /\ Good(s1) /\ CanPlace(s1, cards)
      /\ ~Stops(s1) => s1.phase \in {"draw", "don"}
  BY <1>2, AdvanceOnceOK
<1> HIDE DEF s1
<1>4. /\ Good(s2) /\ CanPlace(s2, cards)
      /\ ~Stops(s2) => s2.phase = "don"
  BY <1>3, AdvanceOnceOK
<1> HIDE DEF s2
<1>5. Good(s3) /\ CanPlace(s3, cards) /\ Stops(s3)
  BY <1>4, AdvanceOnceOK
<1> HIDE DEF s3
<1>6. Good(s4) /\ Stops(s4)
  BY <1>5, AdvanceOnceOK
<1>7. QED
  BY <1>1, <1>6

\* A call that ends where the engine left a good state ends in one.
LEMMA HostedOK ==
  ASSUME NEW s, Good(s), Hosted(s)
  PROVE  Good(state)' /\ HandedOff'
<1>1. PICK cards \in Placements(s) : state' = AdvanceToMain(s, cards)
  BY DEF Hosted
<1>2. CanPlace(s, cards)
  BY <1>1 DEF CanPlace, Placements, TopDon
<1>3. Good(AdvanceToMain(s, cards)) /\ Stops(AdvanceToMain(s, cards))
  BY <1>2, AdvanceToMainOK
<1>4. Good(state') /\ Stops(state')
  BY <1>1, <1>3
<1>5. HandedOff'
  BY <1>4 DEF HandedOff, Good, Fit, Stops
<1>6. QED
  BY <1>4, <1>5 DEF Good, GameOK, EmptyOK, Fit
---------------------------------------------------------------------------
(* Calls *)

\* The hand-over starts the other player's turn, whatever ended before it.
LEMMA AdvanceEndPhaseOK ==
  ASSUME NEW s, Running(s),
         s.status = "active" => s.pending = NoDecision /\ s.queue = {}
  PROVE  Good(AdvanceEndPhase(s))
<1> DEFINE next == Opponent(s.turnPlayer)
           count == [s.turnCount EXCEPT ![next] = @ + 1]
           turn == s.globalTurn + 1
           u == [s EXCEPT !.turnPlayer = next, !.turnCount[next] = @ + 1,
                          !.globalTurn = @ + 1, !.phase = "refresh"]
<1>1. next \in Player
  BY OpponentOK DEF Running, GameOK, GameStates
<1>2. AdvanceEndPhase(s) = Checkpoint(u)
  BY DEF AdvanceEndPhase
<1>3. count \in [Player -> Nat] /\ turn \in Nat
  BY <1>1 DEF Running, GameOK, GameStates
<1>a. u = [s EXCEPT !.turnPlayer = next, !.turnCount = count,
                    !.globalTurn = turn, !.phase = "refresh"]
  BY DEF Running, GameOK, GameStates
<1> HIDE DEF next, count, turn, u
<1>4. /\ u \in GameStates /\ u.don = s.don /\ u.status = s.status
      /\ u.queue = s.queue /\ u.pending = s.pending
      /\ u.deck = s.deck /\ u.winner = s.winner
  BY <1>1, <1>3, <1>a DEF Running, GameOK, GameStates, Phases
<1>5. GameOK(u) /\ EmptyOK(u)
  BY <1>4 DEF Running, GameOK, EmptyOK
<1>6. /\ GameOK(Checkpoint(u)) /\ EmptyOK(Checkpoint(u)) /\ SameFlow(u, Checkpoint(u))
      /\ Checkpoint(u).status \in {u.status, "completed"}
  BY <1>5, CheckpointOK
<1>7. Fit(Checkpoint(u)) /\ Checkpoint(u).status # "setup"
  BY <1>4, <1>6 DEF Running, Fit, SameFlow, NoDecision
<1>8. QED
  BY <1>2, <1>6, <1>7 DEF Good

IInv == state = SetupState \/ (Good(state) /\ HandedOff)

\* A call of the main phase that moves only DON!! cards and characters.
LEMMA MainDonOK ==
  ASSUME Good(state), InMain, NEW z, DonOK(z), NEW f \in SUBSET Host
  PROVE  LET t == [state EXCEPT !.don = z]
             u == [state EXCEPT !.field = f, !.don = z]
         IN  /\ GameOK(t)
             /\ state' = t => Good(state)' /\ HandedOff'
             /\ state' = u => Good(state)' /\ HandedOff'
<1> DEFINE t == [state EXCEPT !.don = z]
           u == [state EXCEPT !.field = f, !.don = z]
<1>1. GameOK(t) /\ GameOK(u)
  BY NewDonOK DEF Good
<1>2. \A x \in {t, u} : /\ x.status = state.status /\ x.phase = state.phase
                        /\ x.pending = state.pending /\ x.queue = state.queue
                        /\ x.deck = state.deck /\ x.winner = state.winner
  BY DEF Good, GameOK, GameStates
<1> HIDE DEF t, u
<1>3. ASSUME NEW x \in {t, u}, state' = x
      PROVE  Good(state)' /\ HandedOff'
  BY <1>1, <1>2, <1>3 DEF Good, GameOK, EmptyOK, Fit, InMain, HandedOff, NoDecision
<1>4. QED
  BY <1>1, <1>3 DEF t, u

\* A call of the main phase that ends with a checkpoint.
LEMMA MainCheckpointOK ==
  ASSUME NEW s, GameOK(s), s.status = "active", s.phase = "main",
         s.queue = {}, s.pending = NoDecision, state' = Checkpoint(s)
  PROVE  Good(state)' /\ HandedOff'
<1>1. Good(Checkpoint(s)) /\ SameFlow(s, Checkpoint(s))
  BY QuietCheckpoint
<1>2. HandedOff'
  BY <1>1 DEF HandedOff, SameFlow, NoDecision
<1>3. QED
  BY <1>1, <1>2 DEF Good, GameOK, EmptyOK, Fit

\* The cards in play belong to the area they are taken from.
LEMMA StateDonOK ==
  ASSUME Good(state)
  PROVE  /\ DonOK(state.don) /\ state.turnPlayer \in Player
         /\ state.field \in SUBSET Host
BY DEF Good, GameOK, GameStates, DonOK

\* Setup puts every card in a DON!! deck and leaves no effect work.
LEMMA SetupOK == GameOK(SetupState) /\ EmptyOK(SetupState) /\ Fit(SetupState)
<1>1. SetupDon \in DonZones
  BY DonOfAssumption DEF SetupDon, DonZones, CardState, NoReference
<1>2. Conserved(SetupDon)
  BY DonOfAssumption DEF SetupDon, Conserved, AttachedTo, HostsOf, NoReference
<1>3. /\ [p \in Player |-> IF p = FirstPlayer THEN 1 ELSE 0] \in [Player -> Nat]
      /\ [p \in Player |-> DeckSize] \in [Player -> Nat]
  BY SizesAssumption
<1>4. SetupState \in GameStates /\ SetupState.don = SetupDon
  BY <1>1, <1>3, PlayersAssumption DEF SetupState, GameStates, Phases, Decisions
<1>5. EmptyOK(SetupState) /\ Fit(SetupState)
  BY SizesAssumption DEF SetupState, EmptyOK, Fit
<1>6. QED
  BY <1>2, <1>4, <1>5 DEF GameOK

\* Between calls the state is typed, with its cards in place, and no deck
\* of a live match is empty.
LEMMA IInvOK ==
  ASSUME IInv
  PROVE  /\ GameOK(state) /\ EmptyOK(state) /\ Fit(state)
         /\ state.status # "setup" => Good(state)
BY SetupOK DEF IInv, Good, SetupState

LEMMA StartMatchStep ==
  ASSUME IInv, StartMatch
  PROVE  Good(state)' /\ HandedOff'
<1> DEFINE s == [state EXCEPT !.status = "active"]
<1>1. state = SetupState
  BY DEF IInv, StartMatch, Good
<1>2. /\ s \in GameStates /\ s.don = state.don /\ s.status = "active"
      /\ s.queue = {} /\ s.pending = NoDecision /\ s.deck = state.deck
  BY <1>1, SetupOK DEF SetupState, GameOK, GameStates
<1>3. Good(s)
  BY <1>1, <1>2, SetupOK, SizesAssumption
  DEF Good, GameOK, EmptyOK, Fit, NoDecision, SetupState
<1>4. QED
  BY <1>3, HostedOK DEF StartMatch

LEMMA ConcedeStep ==
  ASSUME IInv, NEW p \in Player, Concede(p)
  PROVE  Good(state)' /\ HandedOff'
<1> DEFINE s == [state EXCEPT !.status = "completed", !.winner = Opponent(p),
                             !.pending = NoDecision]
<1>1. GameOK(state) /\ EmptyOK(state)
  BY IInvOK
<1>2. s \in GameStates /\ s.don = state.don /\ s.status = "completed" /\ s.deck = state.deck
  BY <1>1, OpponentOK DEF GameOK, GameStates, Decisions
<1>3. \A q \in Player : state.deck[q] # 0
  BY <1>1 DEF EmptyOK, Concede
<1>4. state' = s
  BY DEF Concede
<1>5. QED
  BY <1>1, <1>2, <1>3, <1>4 DEF Good, GameOK, EmptyOK, Fit, HandedOff

\* A call of the main phase that gives, plays, rests, readies, adds or
\* returns DON!! cards, or takes a character off the field.
MainCall ==
  \/ \E h \in Host, d \in Don : GiveDon(h, d)
  \/ \E h \in Host, paid \in SUBSET Don, overflow \in Host \cup {NoHost} :
       PlayCharacter(h, paid, overflow)
  \/ \E d \in Don : EffectRestsDon(d)
  \/ \E d \in Don : EffectActivatesDon(d)
  \/ \E h \in Host, d \in Don : EffectGivesDon(h, d)
  \/ \E d \in Don : EffectLocksDon(d)
  \/ \E p \in Player, new \in {"active", "rested"} : EffectAddsDon(p, new)
  \/ \E p \in Player, d \in Don : EffectReturnsDon(p, d)
  \/ \E h \in Host : CharacterLeaves(h)
  \/ \E h \in Host : CharacterTrashedInstead(h)
  \/ \E p \in Player : EffectDraws(p)

LEMMA MainCallStep ==
  ASSUME Good(state), MainCall
  PROVE  Good(state)' /\ HandedOff'
<1>1. ASSUME NEW h \in Host, NEW d \in Don, GiveDon(h, d)
      PROVE  Good(state)' /\ HandedOff'
  <2> DEFINE z == AttachDon(state.don, h, d)
             s == [state EXCEPT !.don = z]
  <2>1. HostOwner[h] = state.turnPlayer
    BY <1>1, LeaderAssumption, StateDonOK DEF GiveDon, OnField, Characters, HostsOf
  <2>2. DonOK(z)
    BY <1>1, <2>1, StateDonOK, AttachDonOK DEF GiveDon
  <2>3. state' = Checkpoint(s) /\ InMain
    BY <1>1 DEF GiveDon
  <2> HIDE DEF z
  <2>4. GameOK(s)
    BY <2>2, <2>3, MainDonOK, StateDonOK
  <2>5. /\ s.status = "active" /\ s.phase = "main"
        /\ s.queue = {} /\ s.pending = NoDecision
    BY <2>3 DEF InMain, Good, GameOK, GameStates
  <2> HIDE DEF s
  <2>6. QED
    BY <2>3, <2>4, <2>5, MainCheckpointOK
<1>2. ASSUME NEW h \in Host, NEW paid \in SUBSET Don, NEW overflow \in Host \cup {NoHost},
             PlayCharacter(h, paid, overflow)
      PROVE  Good(state)' /\ HandedOff'
  <2> DEFINE rested == WithState(state.don, paid, "rested")
             z == IF overflow = NoHost THEN rested ELSE HostLeaves(rested, overflow)
             f == (state.field \ {overflow}) \cup {h}
  <2>1. DonOK(rested)
    BY StateDonOK, WithStateOK DEF CardState
  <2> HIDE DEF rested
  <2>2. DonOK(z)
    BY <2>1, HostLeavesOK
  <2> HIDE DEF z
  <2>3. f \in SUBSET Host
    BY StateDonOK
  <2>4. state' = [state EXCEPT !.field = f, !.don = z] /\ InMain
    BY <1>2 DEF PlayCharacter, z, rested, Good, GameOK, GameStates
  <2> HIDE DEF f
  <2>5. QED
    BY <2>2, <2>3, <2>4, MainDonOK
<1>3. ASSUME NEW d \in Don, EffectRestsDon(d) \/ EffectActivatesDon(d)
      PROVE  Good(state)' /\ HandedOff'
  <2>1. PICK new \in CardState :
          state' = [state EXCEPT !.don = WithState(state.don, {d}, new)] /\ InMain
    BY <1>3 DEF EffectRestsDon, EffectActivatesDon, CardState, Good, GameOK, GameStates
  <2>2. DonOK(WithState(state.don, {d}, new))
    BY StateDonOK, WithStateOK
  <2>3. QED
    BY <2>1, <2>2, MainDonOK, StateDonOK
<1>4. ASSUME NEW h \in Host, NEW d \in Don, EffectGivesDon(h, d)
      PROVE  Good(state)' /\ HandedOff'
  <2>1. DonOK(AttachDon(state.don, h, d))
    BY <1>4, StateDonOK, AttachDonOK DEF EffectGivesDon
  <2>2. state' = [state EXCEPT !.don = AttachDon(state.don, h, d)] /\ InMain
    BY <1>4 DEF EffectGivesDon, Good, GameOK, GameStates
  <2>3. QED
    BY <2>1, <2>2, MainDonOK, StateDonOK
<1>5. ASSUME NEW d \in Don, EffectLocksDon(d)
      PROVE  Good(state)' /\ HandedOff'
  <2> DEFINE z == [state.don EXCEPT !.locked = @ \cup {d}]
  <2>1. /\ z \in DonZones /\ z.donDeck = state.don.donDeck
        /\ z.costArea = state.don.costArea /\ z.attachedDon = state.don.attachedDon
    BY StateDonOK DEF DonOK, DonZones
  <2>2. state' = [state EXCEPT !.don = z] /\ InMain
    BY <1>5 DEF EffectLocksDon, Good, GameOK, GameStates
  <2> HIDE DEF z
  <2>3. DonOK(z)
    BY <2>1, StateDonOK DEF DonOK, Conserved, AttachedTo
  <2>4. QED
    BY <2>2, <2>3, MainDonOK, StateDonOK
<1>6. ASSUME NEW p \in Player, NEW new \in {"active", "rested"}, EffectAddsDon(p, new)
      PROVE  Good(state)' /\ HandedOff'
  <2>1. PICK cards \in TopDon(state.don, p, 1) :
          state' = [state EXCEPT !.don = PlaceDon(state.don, p, cards, new)] /\ InMain
    BY <1>6 DEF EffectAddsDon, Good, GameOK, GameStates
  <2>2. DonOK(PlaceDon(state.don, p, cards, new))
    BY <2>1, StateDonOK, PlaceDonOK DEF TopDon, CardState
  <2>3. QED
    BY <2>1, <2>2, MainDonOK, StateDonOK
<1>7. ASSUME NEW p \in Player, NEW d \in Don, EffectReturnsDon(p, d)
      PROVE  Good(state)' /\ HandedOff'
  <2>1. {d} \in SUBSET state.don.costArea[p]
    BY <1>7 DEF EffectReturnsDon, ReturnableDon
  <2>2. DonOK(ReturnDon(state.don, p, {d}))
    BY <2>1, StateDonOK, ReturnDonOK
  <2>3. state' = [state EXCEPT !.don = ReturnDon(state.don, p, {d})] /\ InMain
    BY <1>7 DEF EffectReturnsDon, Good, GameOK, GameStates
  <2>4. QED
    BY <2>2, <2>3, MainDonOK, StateDonOK
<1>8. ASSUME NEW h \in Host, CharacterLeaves(h) \/ CharacterTrashedInstead(h)
      PROVE  Good(state)' /\ HandedOff'
  <2>1. PICK z \in {HostLeaves(state.don, h), HostTrashedInstead(state.don, h)} :
          state' = [state EXCEPT !.field = state.field \ {h}, !.don = z] /\ InMain
    BY <1>8 DEF CharacterLeaves, CharacterTrashedInstead, Good, GameOK, GameStates
  <2>2. DonOK(z)
    BY StateDonOK, HostLeavesOK
  <2>3. state.field \ {h} \in SUBSET Host
    BY StateDonOK
  <2>4. QED
    BY <2>1, <2>2, <2>3, MainDonOK
<1>9. ASSUME NEW p \in Player, EffectDraws(p)
      PROVE  Good(state)' /\ HandedOff'
  <2>1. /\ GameOK(Draws(state, p)) /\ SameFlow(state, Draws(state, p))
        /\ Draws(state, p).status = state.status
    BY DrawsOK DEF Good
  <2>2. state' = Checkpoint(Draws(state, p)) /\ InMain
    BY <1>9 DEF EffectDraws
  <2>3. QED
    BY <2>1, <2>2, MainCheckpointOK DEF SameFlow, InMain
<1>10. QED
  BY <1>1, <1>2, <1>3, <1>4, <1>5, <1>6, <1>7, <1>8, <1>9 DEF MainCall

\* The end phase begins, its effects run, and the turn is handed over
\* unless one of them asks.
LEMMA EndMainPhaseStep ==
  ASSUME Good(state), EndMainPhase
  PROVE  Good(state)' /\ HandedOff'
<1> DEFINE main == [state EXCEPT !.phase = "end"]
           ended == Checkpoint(main)
           entries == EndOfTurnEntries(ended)
           queued == [ended EXCEPT !.queue = entries]
           ran == RunQueue(queued)
<1>1. /\ GameOK(main) /\ main.phase = "end" /\ main.status = "active"
      /\ main.pending = NoDecision
  BY DEF EndMainPhase, InMain, Good, GameOK, GameStates, Phases
<1> HIDE DEF main
<1>2. /\ GameOK(ended) /\ EmptyOK(ended) /\ ended.phase = "end"
      /\ ended.pending = NoDecision /\ ended.status \in {"active", "completed"}
  BY <1>1, CheckpointOK DEF SameFlow
<1> HIDE DEF ended
<1>3. CASE ended.status # "active"
  <2>1. state' = ended
    BY <1>3 DEF EndMainPhase, ended, main
  <2>2. Good(ended) /\ ended.status = "completed"
    BY <1>2, <1>3 DEF Good, Fit
  <2>3. QED
    BY <2>1, <2>2 DEF HandedOff, Good, GameOK, EmptyOK, Fit
<1>4. CASE ended.status = "active"
  <2>1. entries \in SUBSET Host
    BY <1>2, LeaderAssumption, GameDon
    DEF EndOfTurnEntries, OnField, Characters, HostsOf
  <2> HIDE DEF entries
  <2>2. Running(queued)
    BY <1>2, <2>1 DEF Running, GameOK, GameStates, EmptyOK, NoDecision
  <2> HIDE DEF queued
  <2>3. Running(ran) /\ Fit(ran)
    BY <2>2, RunQueueOK
  <2> HIDE DEF ran
  <2>4. CASE ran.pending # NoDecision
    <3>1. Hosted(ran)
      BY <1>4, <2>4 DEF EndMainPhase, ran, queued, entries, ended, main
    <3>2. Good(ran)
      BY <2>3 DEF Good, Running
    <3>3. QED
      BY <3>1, <3>2, HostedOK
  <2>5. CASE ran.pending = NoDecision
    <3>1. Hosted(AdvanceEndPhase(ran))
      BY <1>4, <2>5 DEF EndMainPhase, ran, queued, entries, ended, main
    <3>2. Good(AdvanceEndPhase(ran))
      BY <2>3, <2>5, AdvanceEndPhaseOK DEF Fit
    <3>3. QED
      BY <3>1, <3>2, HostedOK
  <2>6. QED
    BY <2>4, <2>5
<1>5. QED
  BY <1>3, <1>4

\* The named entry resolves and the queue goes on.
LEMMA ChooseTriggerOrderStep ==
  ASSUME Good(state), NEW e \in Host, ChooseTriggerOrder(e)
  PROVE  Good(state)' /\ HandedOff'
<1> DEFINE s == [state EXCEPT !.pending = NoDecision]
           r == ResolveEntry(s, e)
           ran == RunQueue(r)
<1>1. /\ state.status = "active" /\ state.phase = "end" /\ e \in state.queue
  BY DEF ChooseTriggerOrder, Answering, Good, Fit
<1>2. /\ Running(s) /\ s.status = "active" /\ s.pending = NoDecision /\ e \in s.queue
  BY <1>1 DEF Good, Running, GameOK, GameStates, EmptyOK, Decisions, NoDecision
<1> HIDE DEF s
<1>3. Running(r)
  BY <1>2, ResolveEntryOK
<1> HIDE DEF r
<1>4. Running(ran) /\ Fit(ran)
  BY <1>3, RunQueueOK
<1> HIDE DEF ran
<1>5. Hosted(ran)
  BY DEF ChooseTriggerOrder, ran, r, s
<1>6. Good(ran)
  BY <1>4 DEF Good, Running
<1>7. QED
  BY <1>5, <1>6, HostedOK

\* The answered effect leaves the queue, which goes on, and the turn is
\* handed over when nothing is left.
LEMMA SelectTargetsStep ==
  ASSUME Good(state), NEW chosen \in SUBSET Don, SelectTargets(chosen)
  PROVE  Good(state)' /\ HandedOff'
<1> DEFINE z == WithState(state.don, chosen, "active")
           answered == [state EXCEPT !.pending = NoDecision, !.don = z]
           u == Unqueued(answered, state.pending.entry)
           r == Checkpoint(u)
           ran == RunQueue(r)
<1>1. state.status = "active" /\ state.phase = "end"
  BY DEF SelectTargets, Answering, Good, Fit, NoDecision
<1>2. DonOK(z)
  BY StateDonOK, WithStateOK DEF CardState
<1>a. answered = [state EXCEPT !.pending = NoDecision,
                               !.don = WithState(@, chosen, "active")]
  BY DEF Good, GameOK, GameStates
<1> HIDE DEF z
<1>3. /\ GameOK(answered) /\ answered.status = "active" /\ answered.phase = "end"
      /\ answered.pending = NoDecision
  BY <1>1, <1>2 DEF Good, GameOK, GameStates, DonOK, Decisions
<1> HIDE DEF answered
<1>4. GameOK(u) /\ u.status = "active" /\ u.phase = "end" /\ u.pending = NoDecision
  BY <1>3, UnqueuedOK
<1> HIDE DEF u
<1>5. /\ GameOK(r) /\ EmptyOK(r) /\ SameFlow(u, r)
      /\ r.status \in {"active", "completed"}
  BY <1>4, CheckpointOK
<1>6. Running(r)
  BY <1>4, <1>5 DEF Running, SameFlow, NoDecision
<1> HIDE DEF r
<1>7. Running(ran) /\ Fit(ran)
  BY <1>6, RunQueueOK
<1> HIDE DEF ran
<1>8. IF ran.pending # NoDecision \/ ran.queue # {} THEN Hosted(ran)
      ELSE Hosted(AdvanceEndPhase(ran))
  BY <1>a DEF SelectTargets, ran, r, u
<1>9. CASE ran.pending # NoDecision \/ ran.queue # {}
  BY <1>7, <1>8, <1>9, HostedOK DEF Good, Running
<1>10. CASE ran.pending = NoDecision /\ ran.queue = {}
  <2>1. Good(AdvanceEndPhase(ran))
    BY <1>7, <1>10, AdvanceEndPhaseOK
  <2>2. QED
    BY <1>8, <1>10, <2>1, HostedOK
<1>11. QED
  BY <1>9, <1>10

---------------------------------------------------------------------------
(* Theorems *)

LEMMA InitOK == Init => IInv
BY DEF Init, IInv

LEMMA NextOK == IInv /\ [Next]_state => IInv'
<1> SUFFICES ASSUME IInv, [Next]_state PROVE IInv'
  OBVIOUS
<1>1. CASE StartMatch
  BY <1>1, StartMatchStep DEF IInv
<1>2. ASSUME NEW p \in Player, Concede(p) PROVE IInv'
  BY <1>2, ConcedeStep DEF IInv
<1>3. CASE MainCall
  <2>1. Good(state)
    BY <1>3, IInvOK
    DEF MainCall, GiveDon, PlayCharacter, EffectRestsDon, EffectActivatesDon,
        EffectGivesDon, EffectLocksDon, EffectAddsDon, EffectReturnsDon,
        CharacterLeaves, CharacterTrashedInstead, EffectDraws, InMain
  <2>2. QED
    BY <1>3, <2>1, MainCallStep DEF IInv
<1>4. CASE EndMainPhase
  BY <1>4, IInvOK, EndMainPhaseStep DEF EndMainPhase, InMain, IInv
<1>5. ASSUME NEW e \in Host, ChooseTriggerOrder(e) PROVE IInv'
  BY <1>5, IInvOK, ChooseTriggerOrderStep DEF ChooseTriggerOrder, Answering, IInv
<1>6. ASSUME NEW chosen \in SUBSET Don, SelectTargets(chosen) PROVE IInv'
  BY <1>6, IInvOK, SelectTargetsStep DEF SelectTargets, Answering, IInv
<1>7. CASE UNCHANGED state
  BY <1>7 DEF IInv, Good, GameOK, EmptyOK, Fit, HandedOff
<1>8. QED
  BY <1>1, <1>2, <1>3, <1>4, <1>5, <1>6, <1>7 DEF Next, MainCall

LEMMA IInvHolds == Spec => []IInv
BY InitOK, NextOK, PTL DEF Spec

\* The state of a hosted match always has its types, whatever is played.
THEOREM TypeCorrect == Spec => []TypeOK
<1>1. IInv => TypeOK
  BY IInvOK DEF TypeOK, GameOK
<1>2. QED
  BY <1>1, IInvHolds, PTL

\* No sequence of placements, payments, gifts, returns, refreshes and
\* removals loses or doubles a DON!! card, for any cards and hosts.
THEOREM NoDonLost == Spec => []DonConserved
<1>1. IInv => DonConserved
  BY IInvOK DEF DonConserved, GameOK
<1>2. QED
  BY <1>1, IInvHolds, PTL

\* No call of a live match stops between its mandatory phases or leaves
\* effect work that asks nothing.
THEOREM CallsHandOff == Spec => []HandedOff
<1>1. IInv => HandedOff
  BY DEF IInv, HandedOff, SetupState
<1>2. QED
  BY <1>1, IInvHolds, PTL

\* An empty deck has ended the match, and its owner has not won it.
THEOREM EmptyDeckLoses == Spec => []EmptyDeckEnds
<1>1. IInv => EmptyDeckEnds
  BY IInvOK DEF EmptyDeckEnds, EmptyOK
<1>2. QED
  BY <1>1, IInvHolds, PTL
=============================================================================
