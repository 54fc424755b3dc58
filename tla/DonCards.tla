------------------------------ MODULE DonCards ------------------------------
(* The DON!! cards of both players, as the engine stores them: a DON!! deck *)
(* and a cost area for each player, a state field on each card, and on each *)
(* leader and character a list of the cards attached to it.  An attached    *)
(* card stays in the cost area and has no state; the code keeps these three *)
(* records of one fact in step by hand, in every operation below.           *)
(*                                                                          *)
(* DON!! cards are interchangeable, so the two lists are sets here and an   *)
(* attachedDon list counts its references: one card may be in it twice.     *)
EXTENDS Naturals, FiniteSets

CONSTANTS
    Player,
    Don,        \* the DON!! cards of both players
    DonOf,      \* the cards of each player
    Host,       \* leaders and characters of both players
    HostOwner   \* the player of each of them

ASSUME DonOfAssumption ==
    /\ DonOf \in [Player -> SUBSET Don]
    /\ \A p, q \in Player : p # q => DonOf[p] \cap DonOf[q] = {}
ASSUME FiniteDonAssumption == IsFiniteSet(Don) /\ IsFiniteSet(Host)
ASSUME HostOwnerAssumption == HostOwner \in [Host -> Player]

CardState == {"active", "rested", "none"}

DonZones == [donDeck : [Player -> SUBSET Don],
             costArea : [Player -> SUBSET Don],
             cardState : [Don -> CardState],
             attachedDon : [Host -> [Don -> Nat]],
             locked : SUBSET Don]   \* cannotBecomeActive until their refresh

NoReference == [d \in Don |-> 0]

SetupDon == [donDeck |-> DonOf,
             costArea |-> [p \in Player |-> {}],
             cardState |-> [d \in Don |-> "none"],
             attachedDon |-> [h \in Host |-> NoReference],
             locked |-> {}]

HostsOf(p) == {h \in Host : HostOwner[h] = p}

AttachedTo(z, hosts) == {d \in Don : \E h \in hosts : z.attachedDon[h][d] > 0}

WithState(z, cards, new) ==
    [z EXCEPT !.cardState = [d \in Don |-> IF d \in cards THEN new ELSE @[d]]]

WithoutReferences(z, hosts, cards) ==
    [z EXCEPT !.attachedDon =
        [h \in Host |-> [d \in Don |->
            IF h \in hosts /\ d \in cards THEN 0 ELSE @[h][d]]]]

---------------------------------------------------------------------------

(* The cards that a move of n from the DON!! deck may take. *)
TopDon(z, p, n) ==
    {cards \in SUBSET z.donDeck[p] :
        Cardinality(cards) = IF n <= Cardinality(z.donDeck[p])
                             THEN n ELSE Cardinality(z.donDeck[p])}

PlaceDon(z, p, cards, new) ==
    [WithState(z, cards, new) EXCEPT !.donDeck[p] = @ \ cards,
                                     !.costArea[p] = @ \cup cards]

(* applyAttachDon, applyAttachDonCostPayment and attachSelectedDon *)
AttachDon(z, h, d) ==
    [WithState(z, {d}, "none") EXCEPT !.attachedDon[h][d] = @ + 1]

(* A host leaves the field and its cards go back rested. *)
HostLeaves(z, h) ==
    WithoutReferences(
        WithState(z, AttachedTo(z, {h}) \cap z.costArea[HostOwner[h]], "rested"),
        {h}, Don)

(* "Trash this Character instead" clears the list and rests nothing. *)
HostTrashedInstead(z, h) == WithoutReferences(z, {h}, Don)

ReturnableDon(z, p) ==
    {d \in z.costArea[p] :
        z.cardState[d] # "none" \/ d \in AttachedTo(z, HostsOf(p))}

FaultyReturnDon(z, p, cards) ==
    [WithState(z, cards, "none") EXCEPT !.donDeck[p] = @ \cup cards,
                                        !.costArea[p] = @ \ cards]
ReturnDon(z, p, cards) ==
    [WithoutReferences(WithState(z, cards, "none"), HostsOf(p), cards)
        EXCEPT !.donDeck[p] = @ \cup cards,
               !.costArea[p] = @ \ cards]

(* Attached cards are rested first and readied with the rest of the area,  *)
(* so a locked one comes back rested; then the lock of this refresh ends.  *)
FaultyRefreshDon(z, p) ==
    LET free == z.costArea[p] \ AttachedTo(z, HostsOf(p))
    IN  [WithoutReferences(WithState(z, free \ z.locked, "active"), HostsOf(p), Don)
            EXCEPT !.locked = @ \ DonOf[p]]
RefreshDon(z, p) ==
    LET attached == AttachedTo(z, HostsOf(p))
        returned == WithState(z, attached \cap z.costArea[p], "rested")
        ready == WithState(returned, z.costArea[p] \ z.locked, "active")
    IN  [WithoutReferences(ready, HostsOf(p), Don)
            EXCEPT !.locked = @ \ DonOf[p]]

---------------------------------------------------------------------------

(* Each player's cards are split between the two lists, and the hosts refer *)
(* only to cards of their player's cost area.                               *)
Conserved(z) ==
    \A p \in Player :
        /\ z.donDeck[p] \cap z.costArea[p] = {}
        /\ z.donDeck[p] \cup z.costArea[p] = DonOf[p]
        /\ AttachedTo(z, HostsOf(p)) \subseteq z.costArea[p]

(* cards.exactlyOneLocation of assertGameStateInvariants: every attached   *)
(* card is referred to once.  A call that runs the assertion on a state    *)
(* where this fails throws, and the match keeps its old state.             *)
OneReference(z) ==
    \A d \in Don : \A h, k \in Host :
        /\ z.attachedDon[h][d] <= 1
        /\ z.attachedDon[h][d] > 0 /\ z.attachedDon[k][d] > 0 => h = k
===========================================================================
