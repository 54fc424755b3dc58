------------------------- MODULE MatchTimersProofs -------------------------
(* Proofs about MatchTimers: the timers refine the opaque ones of          *)
(* LocalMatch, so everything proved of a match holds of a timed one.       *)
EXTENDS MatchTimers, LocalMatchProofs

\* A tick yields clocks and graces within the policy's limits.
LEMMA NextTimersTyped ==
  ASSUME NEW s \in GameState
  PROVE  NextTimers(s) \in Timers
<1>1. s.timers \in TimerStates
  BY TimersShapeAssumption DEF GameState
<1>2. ASSUME NEW p \in Player
      PROVE  /\ s.timers.clock[p] \in 0 .. GameTime
             /\ s.timers.grace[p] \in 0 .. Grace
  BY <1>1 DEF TimerStates
<1>3. \A left, most \in Nat : left \in 0 .. most => MinusTick(left) \in 0 .. most
  BY DEF MinusTick
<1>4. ASSUME NEW p \in Player
      PROVE  /\ MinusTick(s.timers.clock[p]) \in 0 .. GameTime
             /\ MinusTick(s.timers.grace[p]) \in 0 .. Grace
  BY <1>2, <1>3, PolicyAssumption
<1>5. NextTimers(s) \in TimerStates
  BY <1>2, <1>4 DEF NextTimers, TimerStates
<1>6. QED
  BY <1>5, TimersShapeAssumption

\* The first expiry names a player whose clock or grace ran out in the tick.
LEMMA FirstExpiryExpired ==
  ASSUME NEW s, GameExpired(s) \cup GraceExpired(s) # {}
  PROVE  FirstExpiry(s) \in GameExpired(s) \cup GraceExpired(s)
<1>1. \A ps : ps # {} => InSeatOrder(ps) \in ps
  BY DEF InSeatOrder
<1>2. CASE GameExpired(s) # {}
  BY <1>1, <1>2 DEF FirstExpiry
<1>3. CASE GameExpired(s) = {}
  BY <1>1, <1>3 DEF FirstExpiry
<1>4. QED
  BY <1>2, <1>3

\* Every step of a timed match is a step of a match or leaves it alone.
LEMMA TimedStep ==
  ASSUME IInv, [TimersNext]_timerVars
  PROVE  [LocalNext]_localVars
<1>1. state \in GameState
  BY DEF IInv, TypeOK
<1>2. CASE Tick
  <2>1. NextTimers(state) \in Timers
    BY <1>1, NextTimersTyped
  <2>2. CASE GameExpired(state) \cup GraceExpired(state) = {}
    BY <1>2, <2>1, <2>2 DEF Tick, LocalNext
  <2>3. CASE GameExpired(state) \cup GraceExpired(state) # {}
    <3>1. FirstExpiry(state) \in Player
      BY <2>3, FirstExpiryExpired DEF GameExpired, GraceExpired
    <3>2. TimerExpiry(NextTimers(state), FirstExpiry(state))
      BY <1>2, <2>3 DEF Tick
    <3>3. QED
      BY <2>1, <3>1, <3>2 DEF LocalNext
  <2>4. QED
    BY <2>2, <2>3
<1>3. ASSUME NEW p \in Player, LocalCall(p) PROVE LocalNext
  BY <1>3 DEF LocalNext
<1>4. ASSUME NEW p \in Player, Connect(p) \/ Disconnect(p)
      PROVE  UNCHANGED localVars
  BY <1>4 DEF Connect, Disconnect
<1>5. CASE UNCHANGED timerVars
  BY <1>5 DEF timerVars, localVars
<1>6. QED
  BY <1>2, <1>3, <1>4, <1>5 DEF TimersNext

\* A timed match is a match: match-timers.ts changes state.timers only, and
\* ends a match only by a concession.
THEOREM TimersImplementMatch == TimersSpec => LocalSpec
<1>1. TimersInit => LocalInit
  BY DEF TimersInit
<1>2. TimersInit => IInv
  BY <1>1, InitInductive
<1>3. IInv /\ [TimersNext]_timerVars => IInv' /\ [LocalNext]_localVars
  BY TimedStep, StepInductive
<1>4. QED
  BY <1>1, <1>2, <1>3, PTL DEF TimersSpec, LocalSpec

\* A timed match, too, keeps every open request answerable.
THEOREM TimedRequestsAnswerable == TimersSpec => []RequestAnswerable
BY TimersImplementMatch, RequestsStayAnswerable, PTL

---------------------------------------------------------------------------
(* Ticks                                                                   *)

\* An ongoing match drains the clock of one player or of none.
LEMMA DrainsOneClock ==
  ASSUME NEW s \in GameState
  PROVE  \A p, q \in Draining(s) : p = q
<1>1. CASE s.status = "active" /\ Cardinality(s.holders) = 1
  <2>1. IsFiniteSet(Player)
    <3>1. PICK p, q \in Player : Player = ({} \cup {p}) \cup {q}
      BY PlayerAssumption
    <3>2. IsFiniteSet({} \cup {p})
      BY FS_EmptySet, FS_AddElement
    <3>3. QED
      BY <3>1, <3>2, FS_AddElement
  <2>2. IsFiniteSet(s.holders)
    BY <2>1, FS_Subset DEF GameState
  <2>3. \E p : s.holders = {p}
    BY <1>1, <2>2, FS_Singleton
  <2>4. QED
    BY <1>1, <2>3 DEF Draining
<1>2. CASE ~(s.status = "active" /\ Cardinality(s.holders) = 1)
  BY <1>2 DEF Draining
<1>3. QED
  BY <1>1, <1>2

\* A tick replaces the timers, and that is all a live match lets it do but to
\* concede for the player of the first expiry.
LEMMA TickEffect ==
  ASSUME IInv, Tick
  PROVE  /\ state.status # "completed"
         /\ state'.timers = NextTimers(state)
         /\ \/ state'.status = state.status
            \/ /\ state'.winner = Other(FirstExpiry(state))
               /\ FirstExpiry(state) \in GameExpired(state) \cup GraceExpired(state)
<1> DEFINE t == NextTimers(state)
<1>1. state \in GameState /\ t \in Timers
  BY NextTimersTyped DEF IInv, TypeOK
<1>2. /\ WithTimers(t) \in GameState /\ WithTimers(t).timers = t
      /\ WithTimers(t).status = state.status
  BY <1>1, WithTimersTyped DEF WithTimers, GameState
<1>3. CASE GameExpired(state) \cup GraceExpired(state) = {}
  BY <1>2, <1>3 DEF Tick, TimersAdvance
<1>4. CASE GameExpired(state) \cup GraceExpired(state) # {}
  <2> DEFINE p == FirstExpiry(state)
  <2>1. p \in GameExpired(state) \cup GraceExpired(state)
    BY <1>4, FirstExpiryExpired
  <2>2. p \in Player
    BY <2>1 DEF GameExpired, GraceExpired
  <2>3. state.status # "completed" /\ state' = Concede(WithTimers(t), p)
    BY <1>4 DEF Tick, TimerExpiry
  <2>4. Concede(WithTimers(t), p).winner = Other(p)
    BY <1>2, <2>2, ConcedeTyped
  <2>5. Concede(WithTimers(t), p).timers = t
    BY <1>2 DEF Concede, EngineStep
  <2>6. QED
    BY <2>1, <2>3, <2>4, <2>5
<1>5. QED
  BY <1>3, <1>4

\* The clock of a player who is not draining stands still, and so does the
\* grace of a player who is connected; a timer falls by one and not below zero.
LEMMA TickedTimers ==
  ASSUME NEW s \in GameState, NEW p \in Player
  PROVE  /\ s.timers.clock[p] \in Nat /\ s.timers.grace[p] \in Nat
         /\ NextTimers(s).clock[p] = IF p \in Draining(s)
                                     THEN MinusTick(s.timers.clock[p])
                                     ELSE s.timers.clock[p]
         /\ NextTimers(s).grace[p] = IF p \in connected THEN s.timers.grace[p]
                                     ELSE MinusTick(s.timers.grace[p])
<1>1. s.timers \in TimerStates
  BY TimersShapeAssumption DEF GameState
<1>2. QED
  BY <1>1, PolicyAssumption DEF TimerStates, NextTimers

\* The player whose clock drains is the one the match waits for.
LEMMA DrainingHoldsUp ==
  ASSUME state \in GameState, NEW p \in Draining(state)
  PROVE  HoldsUp(p)
<1>1. CASE state.pending # NoDecision
  BY <1>1 DEF Draining, HoldsUp
<1>2. CASE state.pending = NoDecision
  <2>1. p \in state.holders /\ Draining(state) = state.holders
    BY <1>2 DEF Draining
  <2>2. state.holders = {p}
    BY <2>1, DrainsOneClock
  <2>3. QED
    BY <1>2, <2>2 DEF HoldsUp
<1>3. QED
  BY <1>1, <1>2

\* Who is conceded for had a timer run out in this tick: the game clock of the
\* player the match waited for, or the grace of a player who is away.
LEMMA ExpiryBlames ==
  ASSUME IInv, Tick, state'.status = "completed"
  PROVE  \E p \in Player :
            /\ state'.winner = Other(p)
            /\ \/ ClockRunsOut(p) /\ HoldsUp(p)
               \/ GraceRunsOut(p) /\ p \notin connected
<1> DEFINE p == FirstExpiry(state)
<1>1. state \in GameState
  BY DEF IInv, TypeOK
<1>2. /\ state'.winner = Other(p) /\ p \in GameExpired(state) \cup GraceExpired(state)
      /\ state'.timers = NextTimers(state)
  BY TickEffect
<1>3. p \in Player
  BY <1>2 DEF GameExpired, GraceExpired
<1> HIDE DEF p
<1>4. CASE p \in GameExpired(state)
  <2>1. state.timers.clock[p] > 0 /\ NextTimers(state).clock[p] = 0
    BY <1>4 DEF GameExpired
  <2>2. p \in Draining(state)
    BY <1>1, <1>3, <2>1, TickedTimers
  <2>3. HoldsUp(p)
    BY <1>1, <2>2, DrainingHoldsUp
  <2>4. QED
    BY <1>2, <1>3, <2>1, <2>3 DEF ClockRunsOut
<1>5. CASE p \in GraceExpired(state)
  <2>1. state.timers.grace[p] > 0 /\ NextTimers(state).grace[p] = 0
    BY <1>5 DEF GraceExpired
  <2>2. p \notin connected
    BY <1>1, <1>3, <2>1, TickedTimers
  <2>3. QED
    BY <1>2, <1>3, <2>1, <2>2 DEF GraceRunsOut
<1>6. QED
  BY <1>2, <1>4, <1>5

\* A tick in which a timer runs out ends the match.
LEMMA NoExpiryUnseen ==
  ASSUME IInv, Tick, state'.status # "completed", NEW p \in Player
  PROVE  ~ClockRunsOut(p) /\ ~GraceRunsOut(p)
<1>1. GameExpired(state) \cup GraceExpired(state) = {}
  <2>1. SUFFICES ASSUME GameExpired(state) \cup GraceExpired(state) # {} PROVE FALSE
    OBVIOUS
  <2>2. state' = Concede(WithTimers(NextTimers(state)), FirstExpiry(state))
    BY <2>1 DEF Tick, TimerExpiry
  <2>3. state'.status = "completed"
    BY <2>2 DEF Concede, EngineStep
  <2>4. QED
    BY <2>3
<1>2. state'.timers = NextTimers(state)
  BY TickEffect
<1>3. QED
  BY <1>1, <1>2 DEF ClockRunsOut, GraceRunsOut, GameExpired, GraceExpired

\* A tick ends the match exactly when a timer runs out in it, and blames the
\* player whose timer that was (ExpiryBlamesItsPlayer): the one whom the
\* match waited for, or one who was away.
THEOREM ExpiriesBlameTheirPlayer == TimersSpec => ExpiryBlamesItsPlayer
<1> DEFINE Blamed ==
      Tick =>
          IF Live(state')
          THEN \A p \in Player : ~ClockRunsOut(p) /\ ~GraceRunsOut(p)
          ELSE \E p \in Player :
                  /\ state'.winner = Other(p)
                  /\ \/ ClockRunsOut(p) /\ HoldsUp(p)
                     \/ GraceRunsOut(p) /\ p \notin connected
<1>1. IInv /\ [TimersNext]_timerVars => [Blamed]_timerVars
  BY ExpiryBlames, NoExpiryUnseen DEF Live
<1>2. QED
  BY <1>1, TimersImplementMatch, MatchInvariant, PTL DEF TimersSpec, ExpiryBlamesItsPlayer

\* What moves the timers but a tick is an allowed rollback.
LEMMA OnlyTicksDrain ==
  ASSUME IInv, [TimersNext]_timerVars, ~Tick
  PROVE  state'.timers # state.timers => \E p \in Player : AllowRollback(p)
<1>1. ASSUME NEW p \in Player, LocalCall(p)
      PROVE  state'.timers # state.timers => AllowRollback(p)
  BY <1>1, CallsButAllow
<1>2. ASSUME NEW p \in Player, Connect(p) \/ Disconnect(p) PROVE state' = state
  BY <1>2 DEF Connect, Disconnect, localVars
<1>3. CASE UNCHANGED timerVars
  BY <1>3 DEF timerVars
<1>4. QED
  BY <1>1, <1>2, <1>3 DEF TimersNext

\* A tick takes one from the clock of the player the match waits for, or
\* leaves both clocks as they are.
LEMMA TickDrains ==
  ASSUME IInv, Tick, state'.timers.clock # state.timers.clock
  PROVE  \E p \in Player :
            HoldsUp(p) /\ state'.timers.clock = [state.timers.clock EXCEPT ![p] = @ - 1]
<1> DEFINE clock == state.timers.clock
           next == NextTimers(state).clock
<1>1. state \in GameState /\ state'.timers.clock = next
  BY TickEffect DEF IInv, TypeOK
<1>2. clock \in [Player -> Int] /\ next = [p \in Player |-> next[p]]
  <2>1. state.timers \in TimerStates
    BY <1>1, TimersShapeAssumption DEF GameState
  <2>2. QED
    BY <2>1, PolicyAssumption DEF TimerStates, NextTimers
<1>3. \A q \in Player :
        clock[q] \in Nat
        /\ next[q] = IF q \in Draining(state) THEN MinusTick(clock[q]) ELSE clock[q]
  BY <1>1, TickedTimers
<1> HIDE DEF clock, next
<1>4. PICK p \in Player : next[p] # clock[p]
  BY <1>1, <1>2 DEF clock
<1>5. p \in Draining(state) /\ next[p] = clock[p] - 1
  BY <1>3, <1>4 DEF MinusTick
<1>6. \A q \in Player \ {p} : next[q] = clock[q]
  BY <1>1, <1>3, <1>5, DrainsOneClock
<1>7. next = [clock EXCEPT ![p] = @ - 1]
  BY <1>2, <1>5, <1>6
<1>8. HoldsUp(p)
  BY <1>1, <1>5, DrainingHoldsUp
<1>9. QED
  BY <1>1, <1>7, <1>8 DEF clock

\* Only the clock of the player the match waits for drains, and time comes
\* back only with the requested rollback point (ClocksDrainOneAtATime).
THEOREM ClocksDrainSingly == TimersSpec => ClocksDrainOneAtATime
<1> DEFINE Drained ==
      LET clock == state.timers.clock IN
       \/ state'.timers.clock = clock
       \/ Tick /\ \E p \in Player :
             HoldsUp(p) /\ state'.timers.clock = [clock EXCEPT ![p] = @ - 1]
       \/ /\ request.open /\ ~request'.open
          /\ \E pt \in points : pt.seq = request.point
                                /\ state'.timers = pt.timers
<1>1. ASSUME IInv, [TimersNext]_timerVars PROVE Drained
  <2>1. CASE Tick
    BY <1>1, <2>1, TickDrains
  <2>2. ASSUME NEW p \in Player, AllowRollback(p)
        PROVE  /\ request.open /\ ~request'.open
               /\ \E pt \in points : pt.seq = request.point
                                     /\ state'.timers = pt.timers
    <3>1. PICK pt \in points : pt.seq = request.point /\ state' = Restored(pt)
      BY <2>2 DEF AllowRollback, RequestedPoints
    <3>2. pt \in GameState
      BY <1>1 DEF IInv, TypeOK
    <3>3. state'.timers = pt.timers
      BY <3>1, <3>2 DEF Restored, GameState
    <3>4. QED
      BY <2>2, <3>1, <3>3 DEF AllowRollback, CanResolve, NoRequest
  <2>3. CASE ~Tick /\ ~ \E p \in Player : AllowRollback(p)
    BY <1>1, <2>3, OnlyTicksDrain
  <2>4. QED
    BY <2>1, <2>2, <2>3
<1>2. IInv /\ [TimersNext]_timerVars => [Drained]_timerVars
  BY <1>1
<1>3. QED
  BY <1>2, TimersImplementMatch, MatchInvariant, PTL
     DEF TimersSpec, ClocksDrainOneAtATime

\* An allowed rollback is the only way to a live match with an empty clock
\* (ClockZeroLoses): ticks end the match in which a clock runs out, and every
\* other step keeps the clocks of a live match.
THEOREM OnlyConsentEmptiesClocks ==
  TimersSpec =>
    /\ ClockZeroLoses
    /\ [][ClockZeroLoses =>
            ClockZeroLoses' \/ \E p \in Player : AllowRollback(p)]_timerVars
<1>1. TimersInit => ClockZeroLoses
  <2>1. TimersInit => state.timers = FreshTimers
    BY TimersShapeAssumption DEF TimersInit, LocalInit
  <2>2. QED
    BY <2>1, PolicyAssumption DEF ClockZeroLoses, FreshTimers
<1>2. ASSUME IInv, [TimersNext]_timerVars, ClockZeroLoses,
             ~ \E p \in Player : AllowRollback(p), Live(state')
      PROVE  \A p \in Player : state'.timers.clock[p] > 0
  <2>0. state \in GameState
    BY <1>2 DEF IInv, TypeOK
  <2>1. CASE Tick
    <3>1. state.status # "completed" /\ state'.timers = NextTimers(state)
      BY <1>2, <2>1, TickEffect
    <3>2. \A p \in Player : ~ClockRunsOut(p)
      BY <1>2, <2>1, NoExpiryUnseen DEF Live
    <3>3. ASSUME NEW p \in Player PROVE state'.timers.clock[p] > 0
      <4>1. state.timers.clock[p] > 0
        BY <1>2, <3>1 DEF ClockZeroLoses, Live
      <4>2. NextTimers(state).clock[p] # 0
        BY <3>1, <3>2, <4>1 DEF ClockRunsOut
      <4>3. QED
        BY <2>0, <3>1, <4>1, <4>2, TickedTimers DEF MinusTick
    <3>4. QED
      BY <3>3
  <2>2. CASE ~Tick
    <3>1. state'.timers = state.timers
      BY <1>2, <2>2, OnlyTicksDrain
    <3>2. Live(state)
      <4>1. CASE \E p \in Player : LocalCall(p)
        BY <1>2, <4>1, CallsButAllow DEF Live
      <4>2. CASE state' = state
        BY <1>2, <4>2
      <4>3. QED
        BY <1>2, <2>2, <4>1, <4>2
           DEF TimersNext, Connect, Disconnect, localVars, timerVars
    <3>3. QED
      BY <1>2, <3>1, <3>2 DEF ClockZeroLoses
  <2>3. QED
    BY <2>1, <2>2
<1>3. IInv /\ [TimersNext]_timerVars
        => [ClockZeroLoses =>
              ClockZeroLoses' \/ \E p \in Player : AllowRollback(p)]_timerVars
  BY <1>2 DEF ClockZeroLoses
<1>4. QED
  BY <1>1, <1>3, TimersImplementMatch, MatchInvariant, PTL DEF TimersSpec
===========================================================================
