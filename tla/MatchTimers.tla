---------------------------- MODULE MatchTimers ----------------------------
(* match-timers.ts on top of LocalMatch: the game clock of each player,    *)
(* the disconnect grace of each player, the server's periodic tick and the *)
(* sockets that come and go.  Time is counted in ticks of the server's     *)
(* interval.  isRunning and drainingPlayerId are functions of the state    *)
(* written for the clients and are not read back, so they are left out.    *)
EXTENDS LocalMatch

CONSTANTS
    GameTime,   \* policy.gameTimeMs
    Grace,      \* policy.disconnectGraceMs
    FirstSeat   \* the first key of state.players

TimerStates == [clock : [Player -> 0 .. GameTime], grace : [Player -> 0 .. Grace]]

(* initializeLocalDevMatchTimers; a player with no disconnect entry has    *)
(* the whole grace left.                                                   *)
FreshTimers == [clock |-> [p \in Player |-> GameTime],
                grace |-> [p \in Player |-> Grace]]

ASSUME PolicyAssumption == GameTime \in Nat \ {0} /\ Grace \in Nat \ {0}
ASSUME SeatAssumption == FirstSeat \in Player
ASSUME TimersShapeAssumption == Timers = TimerStates /\ InitTimers = FreshTimers

VARIABLE connected  \* players with an open match socket

timerVars == <<state, points, request, abandoned, connected>>

---------------------------------------------------------------------------

(* gameTimerDrainingPlayerIds *)
FaultyDrainingBoth(s) ==
    IF s.status = "completed" THEN {}
    ELSE (IF s.pending # NoDecision THEN {s.pending.player} ELSE {})
         \cup (IF s.status = "active" /\ Cardinality(s.holders) = 1
               THEN s.holders ELSE {})
FaultyDrainingHolder(s) ==
    IF s.pending = NoDecision /\ s.status = "active" /\ Cardinality(s.holders) = 1
    THEN s.holders ELSE {}

Draining(s) ==
    IF s.status = "completed" THEN {}
    ELSE IF s.pending # NoDecision THEN {s.pending.player}
    ELSE IF s.status = "active" /\ Cardinality(s.holders) = 1 THEN s.holders
    ELSE {}

FaultyMinusTick(left) == left - 1
MinusTick(left) == IF left = 0 THEN 0 ELSE left - 1

(* nextGameTimers and nextDisconnectTimers, one tick later *)
FaultyNextTimers(s) ==
    [s.timers EXCEPT !.clock = [p \in Player |-> IF p \in Draining(s)
                                                THEN MinusTick(@[p]) ELSE @[p]]]
NextTimers(s) ==
    [clock |-> [p \in Player |-> IF p \in Draining(s)
                                 THEN MinusTick(s.timers.clock[p])
                                 ELSE s.timers.clock[p]],
     grace |-> [p \in Player |-> IF p \in connected
                                 THEN s.timers.grace[p]
                                 ELSE MinusTick(s.timers.grace[p])]]

(* An expiry is the step of a timer to zero, not its being zero. *)
FaultyGameExpired(s) == {p \in Player : NextTimers(s).clock[p] = 0}
GameExpired(s) ==
    {p \in Player : s.timers.clock[p] > 0 /\ NextTimers(s).clock[p] = 0}
GraceExpired(s) ==
    {p \in Player : s.timers.grace[p] > 0 /\ NextTimers(s).grace[p] = 0}
        \ GameExpired(s)

(* expiries[0]: game expiries come first, players in seat order *)
InSeatOrder(ps) == IF FirstSeat \in ps THEN FirstSeat ELSE CHOOSE p \in ps : TRUE
FirstExpiry(s) ==
    InSeatOrder(IF GameExpired(s) # {} THEN GameExpired(s) ELSE GraceExpired(s))

(* The interval of match-http-server.ts: advanceTimers advances the timers *)
(* and applies the first expiry, which concedes for that player.           *)
Tick ==
    /\ IF GameExpired(state) \cup GraceExpired(state) = {}
       THEN TimersAdvance(NextTimers(state))
       ELSE TimerExpiry(NextTimers(state), FirstExpiry(state))
    /\ UNCHANGED connected

Connect(p) ==
    /\ p \notin connected
    /\ connected' = connected \cup {p}
    /\ UNCHANGED localVars

Disconnect(p) ==
    /\ p \in connected
    /\ connected' = connected \ {p}
    /\ UNCHANGED localVars

TimersInit == LocalInit /\ connected = {}

TimersNext ==
    \/ Tick
    \/ \E p \in Player :
          \/ LocalCall(p) /\ UNCHANGED connected
          \/ Connect(p)
          \/ Disconnect(p)

(* setInterval keeps ticking as long as the server runs; players may stop. *)
TimersSpec == TimersInit /\ [][TimersNext]_timerVars /\ WF_timerVars(Tick)

---------------------------------------------------------------------------
(* Properties                                                              *)

Live(s) == s.status # "completed"
Awaits(p) == state.pending # NoDecision /\ state.pending.player = p

(* The match waits for p alone: for an answer or, when it asks for none,   *)
(* for the only player who has an action.                                  *)
HoldsUp(p) ==
    IF state.pending # NoDecision THEN state.pending.player = p
    ELSE state.holders = {p}

ClockRunsOut(p) == state.timers.clock[p] > 0 /\ state'.timers.clock[p] = 0
GraceRunsOut(p) == state.timers.grace[p] > 0 /\ state'.timers.grace[p] = 0

\* A tick ends the match when a timer runs out in it and only then, and ends
\* it against a player whose own timer that was: the clock of the player the
\* match waited for, or the grace of a player who was away.
ExpiryBlamesItsPlayer ==
    [][Tick =>
          IF Live(state')
          THEN \A p \in Player : ~ClockRunsOut(p) /\ ~GraceRunsOut(p)
          ELSE \E p \in Player :
                  /\ state'.winner = Other(p)
                  /\ \/ ClockRunsOut(p) /\ HoldsUp(p)
                     \/ GraceRunsOut(p) /\ p \notin connected]_timerVars

\* Only the clock of the player the match waits for drains, by one tick a
\* tick, also while a rollback request is open (then it is the player asked
\* for consent and not the one whose turn it is), and time comes back only
\* with the requested rollback point, whose clocks replace both.
ClocksDrainOneAtATime ==
    [][LET clock == state.timers.clock IN
       \/ state'.timers.clock = clock
       \/ Tick /\ \E p \in Player :
             HoldsUp(p) /\ state'.timers.clock = [clock EXCEPT ![p] = @ - 1]
       \/ /\ request.open /\ ~request'.open
          /\ \E pt \in points : pt.seq = request.point
                                /\ state'.timers = pt.timers]_timerVars

\* specs/07-match-server-protocol.md:333: "if a player's game timer reaches
\* 0, that player loses immediately".  A live match has no empty clock.
ClockZeroLoses == Live(state) => \A p \in Player : state.timers.clock[p] > 0

\* A decision cannot hold up the match for ever while the player who must
\* answer it has time left: it is answered or withdrawn, or the match ends.
UnattendedDecisionEnds ==
    \A p \in Player :
        Live(state) /\ Awaits(p) /\ state.timers.clock[p] > 0
            ~> ~Live(state) \/ ~Awaits(p)

\* A player who stays away ends the match: while some grace is left, the
\* player comes back or the match is over.
AbsenceEnds ==
    \A p \in Player :
        Live(state) /\ p \notin connected /\ state.timers.grace[p] > 0
            ~> ~Live(state) \/ p \in connected
===========================================================================
