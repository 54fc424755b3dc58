------------------------- MODULE LocalMatchProofs -------------------------
(* Proofs about LocalMatch for any players, rollback configuration, timer  *)
(* values and bounds.                                                      *)
EXTENDS LocalMatch, TLAPS, FiniteSetTheorems, WellFoundedInduction

---------------------------------------------------------------------------
(* Operators                                                               *)

\* otherPlayerId finds the other one of the two players.
LEMMA OtherPlayer ==
  ASSUME NEW p \in Player
  PROVE  Other(p) \in Player /\ Other(p) # p
<1>1. \E q \in Player : q # p
  BY PlayerAssumption
<1>2. QED
  BY <1>1 DEF Other

\* An engine call with a well-formed outcome leaves a well-formed state whose
\* board is labelled with its own, higher, sequence number.
LEMMA EngineStepTyped ==
  ASSUME NEW s \in GameState, NEW step \in Nat \ {0}, NEW o,
         o.status \in Status, o.winner \in Player \cup {NoWinner, Draw},
         o.pending \in Decision, o.holders \in SUBSET Player
  PROVE  /\ EngineStep(s, step, o) \in GameState
         /\ EngineStep(s, step, o).seq = s.seq + step
         /\ EngineStep(s, step, o).board = s.seq + step
         /\ EngineStep(s, step, o).actionSeq = s.actionSeq + 1
         /\ EngineStep(s, step, o).status = o.status
         /\ EngineStep(s, step, o).pending = o.pending
BY DEF EngineStep, GameState

\* Every outcome of the engine is well formed, asks no rollback consent, and
\* leaves a completed match its result.
LEMMA OutcomesTyped ==
  ASSUME NEW s \in GameState, NEW o \in EngineOutcomes(s)
  PROVE  /\ o.status \in Status /\ o.winner \in Player \cup {NoWinner, Draw}
         /\ o.pending \in Decision /\ o.holders \in SUBSET Player
         /\ o.pending.kind # "rollbackConsent"
         /\ s.status = "completed" => o.status = "completed" /\ o.winner = s.winner
<1> DEFINE asked == {EngineDecision(q, s.seq) : q \in Player}
           decides(status) ==
             [status : {status}, winner : {NoWinner}, holders : {{}}, pending : asked]
           plays == [status : {"active"}, winner : {NoWinner},
                     holders : SUBSET Player, pending : {NoDecision}]
           ends(winners) == [status : {"completed"}, winner : winners,
                             holders : {{}}, pending : asked \cup {NoDecision}]
<1>1. /\ asked \cup {NoDecision} \subseteq Decision
      /\ \A d \in asked \cup {NoDecision} : d.kind # "rollbackConsent"
  BY DEF EngineDecision, NoDecision, Decision, GameState
<1>2. s.status \in Status /\ s.winner \in Player \cup {NoWinner, Draw}
  BY DEF GameState
<1>3. \/ s.status # "completed" /\ o \in decides("setup") \cup decides("active") \cup plays
      \/ s.status # "completed" /\ o \in ends(Player \cup {Draw})
      \/ s.status = "completed" /\ o \in ends({s.winner})
  BY <1>2 DEF EngineOutcomes, Status
<1> HIDE DEF asked
<1>4. CASE s.status # "completed" /\ o \in decides("setup") \cup decides("active") \cup plays
  BY <1>1, <1>4 DEF Status
<1>5. CASE s.status # "completed" /\ o \in ends(Player \cup {Draw})
  BY <1>1, <1>5 DEF Status
<1>6. CASE s.status = "completed" /\ o \in ends({s.winner})
  BY <1>1, <1>2, <1>6 DEF Status
<1>7. QED
  BY <1>3, <1>4, <1>5, <1>6

\* bumpedState raises the seq and nothing else.
LEMMA BumpedTyped ==
  ASSUME NEW s \in GameState
  PROVE  /\ Bumped(s) \in GameState
         /\ Bumped(s).seq = s.seq + 1
         /\ Bumped(s).board = s.board
         /\ Bumped(s).actionSeq = s.actionSeq
         /\ Bumped(s).status = s.status
         /\ Bumped(s).pending = s.pending
<1>1. s.seq \in Nat
  BY DEF GameState
<1>2. s.seq + 1 \in Nat
  BY <1>1
<1>3. QED
  BY <1>2 DEF Bumped, GameState

\* Setting or deleting the pending decision changes nothing else.
LEMMA PendingTyped ==
  ASSUME NEW s \in GameState, NEW d \in Decision
  PROVE  LET t == [s EXCEPT !.pending = d]
         IN  /\ t \in GameState
             /\ t.seq = s.seq /\ t.board = s.board
             /\ t.actionSeq = s.actionSeq /\ t.status = s.status
             /\ t.pending = d
BY DEF GameState

\* Conceding is an engine step of one that completes the match.
LEMMA ConcedeTyped ==
  ASSUME NEW s \in GameState, NEW p \in Player
  PROVE  /\ Concede(s, p) \in GameState
         /\ Concede(s, p).seq = s.seq + 1
         /\ Concede(s, p).board = s.seq + 1
         /\ Concede(s, p).actionSeq = s.actionSeq + 1
         /\ Concede(s, p).status = "completed"
         /\ Concede(s, p).winner = Other(p)
<1> DEFINE o == [status |-> "completed", winner |-> Other(p),
                 pending |-> NoDecision, holders |-> {}]
<1>1. o.winner \in Player
  BY OtherPlayer
<1>2. o.status \in Status /\ o.pending \in Decision /\ o.holders \in SUBSET Player
  BY DEF Status, Decision
<1>3. Concede(s, p) = EngineStep(s, 1, o)
  BY DEF Concede
<1>4. EngineStep(s, 1, o).winner = o.winner
  BY DEF EngineStep, GameState
<1> HIDE DEF o
<1>5. o.status = "completed" /\ o.winner = Other(p)
  BY DEF o
<1>6. QED
  BY <1>1, <1>2, <1>3, <1>4, <1>5, EngineStepTyped

\* recordRollbackPoint adds the previous state and drops nothing but points.
LEMMA RecordPointBounds ==
  ASSUME NEW ps, NEW previous, NEW happened
  PROVE  RecordPoint(ps, previous, happened) \subseteq ps \cup {previous}
BY DEF RecordPoint

---------------------------------------------------------------------------
(* The inductive invariant                                                 *)

\* A committed engine call: the state before it, possibly with new timers,
\* becomes a rollback point and a new board is labelled.
LEMMA CommittedStep ==
  ASSUME IInv, NEW previous \in GameState, NEW happened,
         previous.seq = state.seq, previous.board = state.board,
         state' \in GameState, state'.seq > state.seq,
         state'.board = state'.seq,
         points' = RecordPoint(points, previous, happened), abandoned' = abandoned
  PROVE  /\ points' \in SUBSET GameState
         /\ PointsInOrder' /\ BoardsPast' /\ RewoundFutureStaysUndone'
<1>1. points' \subseteq points \cup {previous}
  BY RecordPointBounds
<1>2. points' \in SUBSET GameState
  BY <1>1 DEF IInv, TypeOK
<1>3. state.seq \in Nat /\ state.board \in Nat /\ state'.seq \in Nat
  BY DEF IInv, TypeOK, GameState
<1>4. \A q \in points : q.seq \in Nat /\ q.board \in Nat
  BY DEF IInv, TypeOK, GameState
<1>5. PointsInOrder'
  <2>1. \A q \in points' : q.seq < state'.seq /\ q.board <= state'.board
    BY <1>1, <1>3, <1>4 DEF IInv, PointsInOrder, BoardsPast
  <2>2. \A q, r \in points' : q.seq = r.seq => q = r
    BY <1>1, <1>3, <1>4 DEF IInv, PointsInOrder
  <2>3. \A q, r \in points' : q.seq <= r.seq => q.board <= r.board
    BY <1>1, <1>3, <1>4 DEF IInv, PointsInOrder
  <2>4. QED
    BY <2>1, <2>2, <2>3 DEF PointsInOrder
<1>6. abandoned \subseteq Nat
  BY DEF IInv, TypeOK
<1>7. BoardsPast'
  BY <1>3, <1>6 DEF IInv, BoardsPast
<1>8. RewoundFutureStaysUndone'
  BY <1>1, <1>3, <1>6 DEF IInv, BoardsPast, RewoundFutureStaysUndone
<1>9. QED
  BY <1>2, <1>5, <1>7, <1>8

\* A step that keeps the board and the rollback points.
LEMMA PatchedStep ==
  ASSUME IInv, state' \in GameState, state'.seq >= state.seq,
         state'.board = state.board, points' = points, abandoned' = abandoned
  PROVE  PointsInOrder' /\ BoardsPast' /\ RewoundFutureStaysUndone'
<1>1. state.seq \in Nat /\ state.board \in Nat /\ state'.seq \in Nat
  BY DEF IInv, TypeOK, GameState
<1>2. \A q \in points : q.seq \in Nat /\ q.board \in Nat
  BY DEF IInv, TypeOK, GameState
<1>3. PointsInOrder'
  BY <1>1, <1>2 DEF IInv, PointsInOrder
<1>4. abandoned \subseteq Nat
  BY DEF IInv, TypeOK
<1>5. BoardsPast'
  BY <1>1, <1>4 DEF IInv, BoardsPast
<1>6. RewoundFutureStaysUndone'
  BY DEF IInv, RewoundFutureStaysUndone
<1>7. QED
  BY <1>3, <1>5, <1>6

\* While a request waits for its answer the engine of a live match cannot
\* move.
LEMMA NoMoveWhileAsked ==
  ASSUME IInv, NEW p \in Player, MayMove(p), state.status # "completed"
  PROVE  ~request.open
<1>1. SUFFICES ASSUME request.open PROVE FALSE
  OBVIOUS
<1>2. state.pending = ConsentDecision(request.approving, state.pending.id,
                                      request.point)
  BY <1>1 DEF IInv, RequestAnswerable
<1>3. state.pending.kind = "rollbackConsent" /\ state.pending # NoDecision
  BY <1>2 DEF ConsentDecision, NoDecision
<1>4. QED
  BY <1>3 DEF MayMove

\* EngineMove: the request stays as it was; in a live match it was not open.
LEMMA EngineMoveInductive ==
  ASSUME IInv, NEW p \in Player, EngineMove(p)
  PROVE  IInv' /\ state'.seq > state.seq /\ state'.actionSeq > state.actionSeq
                /\ state'.board > state.board
<1>1. PICK step \in SeqSteps, o \in EngineOutcomes(state) :
        Commit(EngineStep(state, step, o), TRUE)
  BY DEF EngineMove
<1>2. step \in Nat \ {0} /\ state \in GameState
  BY SeqAssumption DEF IInv, TypeOK
<1>3. /\ state' \in GameState
      /\ state'.seq = state.seq + step /\ state'.board = state'.seq
      /\ state'.actionSeq = state.actionSeq + 1
  <2>1. state' = EngineStep(state, step, o)
    BY <1>1 DEF Commit
  <2>2. QED
    BY <2>1, <1>2, OutcomesTyped, EngineStepTyped
<1>4. /\ points' = RecordPoint(points, state, TRUE)
      /\ request' = request /\ abandoned' = abandoned
  BY <1>1 DEF Commit
<1>5. /\ state.seq \in Nat /\ state.actionSeq \in Nat /\ state.board \in Nat
      /\ state.board <= state.seq
  BY <1>2 DEF GameState, IInv, BoardsPast
<1>6. state'.seq > state.seq /\ state'.actionSeq > state.actionSeq
      /\ state'.board > state.board
  BY <1>2, <1>3, <1>5
<1>7. /\ points' \in SUBSET GameState
      /\ PointsInOrder' /\ BoardsPast' /\ RewoundFutureStaysUndone'
  BY <1>2, <1>3, <1>4, <1>6, CommittedStep
<1>8. RequestAnswerable'
  <2>1. CASE state.status = "completed"
    <3>1. state'.status = "completed"
      BY <1>1, <1>2, <2>1, OutcomesTyped DEF Commit, EngineStep
    <3>2. QED
      BY <3>1 DEF RequestAnswerable
  <2>2. CASE state.status # "completed"
    <3>1. ~request.open
      BY <2>2, NoMoveWhileAsked DEF EngineMove
    <3>2. QED
      BY <1>4, <3>1 DEF RequestAnswerable
  <2>3. QED
    BY <2>1, <2>2
<1>9. QED
  BY <1>3, <1>4, <1>6, <1>7, <1>8 DEF IInv, TypeOK

\* A concession, of the present state or of one with new timers.
LEMMA ConcessionInductive ==
  ASSUME IInv, NEW p \in Player, NEW previous \in GameState,
         previous.seq = state.seq, previous.board = state.board,
         previous.actionSeq = state.actionSeq,
         state' = Concede(previous, p),
         points' = RecordPoint(points, previous, TRUE),
         UNCHANGED <<request, abandoned>>
  PROVE  IInv' /\ state'.seq > state.seq /\ state'.actionSeq > state.actionSeq
                /\ state'.board > state.board
<1>1. /\ state' \in GameState
      /\ state'.seq = state.seq + 1 /\ state'.board = state'.seq
      /\ state'.actionSeq = state.actionSeq + 1
      /\ state'.status = "completed"
  BY ConcedeTyped
<1>2. /\ state.seq \in Nat /\ state.actionSeq \in Nat /\ state.board \in Nat
      /\ state.board <= state.seq
  BY DEF GameState, IInv, TypeOK, BoardsPast
<1>3. state'.seq > state.seq /\ state'.actionSeq > state.actionSeq
      /\ state'.board > state.board
  BY <1>1, <1>2
<1>4. /\ points' \in SUBSET GameState
      /\ PointsInOrder' /\ BoardsPast' /\ RewoundFutureStaysUndone'
  BY <1>1, <1>3, CommittedStep
<1>5. RequestAnswerable'
  BY <1>1 DEF RequestAnswerable
<1>6. QED
  BY <1>1, <1>3, <1>4, <1>5 DEF IInv, TypeOK

\* A concession that a player chose.
LEMMA ConcedeMoveInductive ==
  ASSUME IInv, NEW p \in Player, ConcedeMove(p)
  PROVE  IInv' /\ state'.seq > state.seq /\ state'.actionSeq > state.actionSeq
                /\ state'.board > state.board
<1>1. state \in GameState
  BY DEF IInv, TypeOK
<1>2. /\ state' = Concede(state, p) /\ points' = RecordPoint(points, state, TRUE)
      /\ UNCHANGED <<request, abandoned>>
  BY DEF ConcedeMove, Commit
<1>3. QED
  BY <1>1, <1>2, ConcessionInductive

\* The phase action of a stranded match changes nothing at all.
LEMMA AdvanceStutters ==
  ASSUME NEW p \in Player, AdvancePhase(p)
  PROVE  UNCHANGED localVars
BY DEF AdvancePhase, Commit, RecordPoint, localVars

\* What changes nothing keeps the invariant.
LEMMA StutterInductive ==
  ASSUME IInv, UNCHANGED localVars
  PROVE  IInv' /\ SeqStep /\ ConsentedRewind
<1>1. state.seq \in Nat /\ state.actionSeq \in Nat /\ state.board \in Nat
  BY DEF IInv, TypeOK, GameState
<1>2. IInv'
  BY DEF localVars, IInv, TypeOK, PointsInOrder, BoardsPast,
     RewoundFutureStaysUndone, RequestAnswerable
<1>3. QED
  BY <1>1, <1>2 DEF localVars, SeqStep, ConsentedRewind

\* requestRollbackConsent puts a decision that names an existing point.
LEMMA RequestInductive ==
  ASSUME IInv, NEW p \in Player, NEW pt, RequestRollback(p, pt)
  PROVE  IInv' /\ state'.seq > state.seq /\ state'.actionSeq = state.actionSeq
                /\ state'.board = state.board /\ state'.status = state.status
<1>1. PICK q \in points : q.seq = pt
  BY DEF RequestRollback, CanRequest
<1>2. pt \in Nat /\ state \in GameState /\ state.seq \in Nat
  BY <1>1 DEF IInv, TypeOK, GameState
<1>3. Other(p) \in Player /\ Other(p) # p
  BY OtherPlayer
<1> DEFINE d == ConsentDecision(Other(p), state.seq, pt)
<1>4. d \in Decision
  BY <1>2, <1>3 DEF ConsentDecision, Decision
<1>5. d = ConsentDecision(Other(p), d.id, pt)
  BY DEF ConsentDecision
<1> HIDE DEF d
<1>6. state' = Bumped([state EXCEPT !.pending = d])
  BY DEF RequestRollback, d
<1>7. /\ state' \in GameState /\ state'.seq = state.seq + 1
      /\ state'.board = state.board /\ state'.actionSeq = state.actionSeq
      /\ state'.status = state.status /\ state'.pending = d
  <2> DEFINE t == [state EXCEPT !.pending = d]
  <2>1. /\ t \in GameState /\ t.seq = state.seq /\ t.board = state.board
        /\ t.actionSeq = state.actionSeq /\ t.status = state.status
        /\ t.pending = d
    BY <1>2, <1>4, PendingTyped
  <2> HIDE DEF t
  <2>2. state' = Bumped(t)
    BY <1>6 DEF t
  <2>3. QED
    BY <2>1, <2>2, BumpedTyped
<1>8. /\ request' = RequestFor(p, Other(p), pt)
      /\ points' = points /\ abandoned' = abandoned
  BY DEF RequestRollback
<1>9. request' \in Request
  BY <1>2, <1>3, <1>8 DEF RequestFor, Request
<1>10. /\ request'.approving = Other(p) /\ request'.requestedBy = p
       /\ request'.point = pt
  BY <1>8 DEF RequestFor
<1>11. RequestAnswerable'
  BY <1>1, <1>3, <1>5, <1>7, <1>8, <1>10 DEF RequestAnswerable
<1>12. PointsInOrder' /\ BoardsPast' /\ RewoundFutureStaysUndone'
  BY <1>2, <1>7, <1>8, PatchedStep
<1>13. QED
  BY <1>2, <1>7, <1>8, <1>9, <1>11, <1>12 DEF IInv, TypeOK

\* Denying and cancelling close the request.
LEMMA ClosingInductive ==
  ASSUME IInv, state' = ClearedConsent, request' = NoRequest,
         UNCHANGED <<points, abandoned>>
  PROVE  IInv' /\ state'.seq > state.seq /\ state'.actionSeq = state.actionSeq
                /\ state'.board = state.board
<1>1. state \in GameState /\ state.seq \in Nat /\ NoDecision \in Decision
  BY DEF IInv, TypeOK, GameState, Decision
<1>2. /\ state' \in GameState /\ state'.seq = state.seq + 1
      /\ state'.board = state.board /\ state'.actionSeq = state.actionSeq
  BY <1>1, BumpedTyped, PendingTyped DEF ClearedConsent
<1>3. PointsInOrder' /\ BoardsPast' /\ RewoundFutureStaysUndone'
  BY <1>1, <1>2, PatchedStep
<1>4. request' \in Request /\ ~request'.open
  BY DEF NoRequest, Request
<1>5. QED
  BY <1>1, <1>2, <1>3, <1>4 DEF IInv, TypeOK, RequestAnswerable

\* The other player denies.
LEMMA DenyInductive ==
  ASSUME IInv, NEW p \in Player, DenyRollback(p)
  PROVE  IInv' /\ state'.seq > state.seq /\ state'.actionSeq = state.actionSeq
                /\ state'.board = state.board
BY ClosingInductive DEF DenyRollback

\* The requester cancels, the answer or the end of the match notwithstanding.
LEMMA CancelInductive ==
  ASSUME IInv, NEW p \in Player, CancelRollback(p)
  PROVE  IInv' /\ state'.seq > state.seq /\ state'.actionSeq = state.actionSeq
                /\ state'.board = state.board
BY ClosingInductive DEF CancelRollback

\* Allowing restores the requested point under a new seq, drops the points
\* recorded after it and abandons the boards produced after it.
LEMMA AllowInductive ==
  ASSUME IInv, NEW p \in Player, AllowRollback(p)
  PROVE  /\ IInv' /\ state'.seq > state.seq /\ state'.actionSeq > state.actionSeq
         /\ request.open /\ state.pending.kind = "rollbackConsent"
         /\ ~request'.open
         /\ \E q \in points : q.seq = request.point /\ q.board = state'.board
<1>1. PICK pt \in RequestedPoints :
        /\ state' = Restored(pt)
        /\ points' = PointsUpTo(pt)
        /\ abandoned' = abandoned \cup (pt.board + 1) .. state.seq
  BY DEF AllowRollback
<1>2. pt \in points /\ pt.seq = request.point
  BY DEF RequestedPoints
<1>3. /\ state.seq \in Nat /\ state.actionSeq \in Nat /\ pt \in GameState
      /\ pt.seq \in Nat /\ pt.board \in Nat
  BY <1>2 DEF IInv, TypeOK, GameState
<1>4. /\ state' \in GameState /\ state'.seq = state.seq + 1
      /\ state'.board = pt.board /\ state'.actionSeq = state.actionSeq + 1
  <2> DEFINE t == [pt EXCEPT !.seq = state.seq + 1]
  <2>1. state.seq + 1 \in Nat /\ state.actionSeq + 1 \in Nat
    BY <1>3
  <2>2. t \in GameState /\ t.seq = state.seq + 1 /\ t.board = pt.board
    BY <1>3, <2>1 DEF GameState
  <2> HIDE DEF t
  <2>3. state' = [t EXCEPT !.actionSeq = state.actionSeq + 1]
    BY <1>1 DEF Restored, t
  <2>4. QED
    BY <2>1, <2>2, <2>3 DEF GameState
<1>5. points' \subseteq points /\ \A q \in points' : q.seq <= pt.seq
  BY <1>1 DEF PointsUpTo
<1>6. points' \in SUBSET GameState
  BY <1>5 DEF IInv, TypeOK
<1>7. \A q \in points : q.seq \in Nat /\ q.board \in Nat
  BY DEF IInv, TypeOK, GameState
<1>8. pt.seq < state.seq /\ pt.board <= state.board /\ state.board <= state.seq
      /\ state.board \in Nat
  BY <1>2 DEF IInv, PointsInOrder, BoardsPast, TypeOK, GameState
<1>9. \A q \in points' : q.board <= pt.board
  BY <1>2, <1>5 DEF IInv, PointsInOrder
<1>10. PointsInOrder'
  <2>1. \A q \in points' : q.seq < state'.seq /\ q.board <= state'.board
    BY <1>3, <1>4, <1>5, <1>7, <1>8, <1>9
  <2>2. /\ \A q, r \in points' : q.seq = r.seq => q = r
        /\ \A q, r \in points' : q.seq <= r.seq => q.board <= r.board
    BY <1>5 DEF IInv, PointsInOrder
  <2>3. QED
    BY <2>1, <2>2 DEF PointsInOrder
<1>11. abandoned \subseteq Nat /\ abandoned' \in SUBSET Nat
  <2>1. (pt.board + 1) .. state.seq \subseteq Nat
    BY <1>3
  <2>2. QED
    BY <1>1, <2>1 DEF IInv, TypeOK
<1>12. BoardsPast'
  BY <1>1, <1>3, <1>4, <1>8, <1>11 DEF IInv, BoardsPast
<1>13. RewoundFutureStaysUndone'
  <2>1. \A q \in points' \cup {pt} : q.board \notin abandoned
    BY <1>2, <1>5 DEF IInv, RewoundFutureStaysUndone
  <2>2. \A q \in points' \cup {pt} : q.board \notin (pt.board + 1) .. state.seq
    BY <1>3, <1>5, <1>7, <1>9
  <2>3. QED
    BY <1>1, <1>4, <2>1, <2>2 DEF RewoundFutureStaysUndone
<1>14. request' \in Request /\ ~request'.open
  BY DEF AllowRollback, NoRequest, Request
<1>15. RequestAnswerable'
  BY <1>14 DEF RequestAnswerable
<1>16. request.open /\ state.pending.kind = "rollbackConsent"
  BY DEF AllowRollback, CanResolve
<1>17. IInv'
  BY <1>4, <1>6, <1>10, <1>11, <1>12, <1>13, <1>14, <1>15 DEF IInv, TypeOK
<1>18. QED
  BY <1>2, <1>3, <1>4, <1>14, <1>16, <1>17

\* New timers change nothing that the invariant speaks of.
LEMMA WithTimersTyped ==
  ASSUME state \in GameState, NEW t \in Timers
  PROVE  /\ WithTimers(t) \in GameState
         /\ WithTimers(t).seq = state.seq /\ WithTimers(t).board = state.board
         /\ WithTimers(t).actionSeq = state.actionSeq
         /\ WithTimers(t).status = state.status
         /\ WithTimers(t).pending = state.pending
BY DEF WithTimers, GameState

\* A tick without an expiry.
LEMMA TimersAdvanceInductive ==
  ASSUME IInv, NEW t \in Timers, TimersAdvance(t)
  PROVE  IInv' /\ state'.seq = state.seq /\ state'.actionSeq = state.actionSeq
               /\ state'.board = state.board /\ state'.status = state.status
               /\ state'.pending = state.pending
<1>1. state \in GameState /\ state.seq \in Nat
  BY DEF IInv, TypeOK, GameState
<1>2. /\ state' \in GameState /\ state'.seq = state.seq
      /\ state'.board = state.board /\ state'.actionSeq = state.actionSeq
      /\ state'.status = state.status /\ state'.pending = state.pending
  BY <1>1, WithTimersTyped DEF TimersAdvance
<1>3. UNCHANGED <<points, request, abandoned>>
  BY DEF TimersAdvance
<1>4. PointsInOrder' /\ BoardsPast' /\ RewoundFutureStaysUndone'
  BY <1>1, <1>2, <1>3, PatchedStep
<1>5. RequestAnswerable'
  BY <1>2, <1>3 DEF IInv, RequestAnswerable
<1>6. QED
  BY <1>2, <1>3, <1>4, <1>5 DEF IInv, TypeOK

\* A tick with an expiry concedes for its player.
LEMMA TimerExpiryInductive ==
  ASSUME IInv, NEW t \in Timers, NEW loser \in Player, TimerExpiry(t, loser)
  PROVE  IInv' /\ state'.seq > state.seq /\ state'.actionSeq > state.actionSeq
                /\ state'.board > state.board
<1>1. state \in GameState
  BY DEF IInv, TypeOK
<1>2. /\ WithTimers(t) \in GameState
      /\ WithTimers(t).seq = state.seq /\ WithTimers(t).board = state.board
      /\ WithTimers(t).actionSeq = state.actionSeq
  BY <1>1, WithTimersTyped
<1>3. /\ state' = Concede(WithTimers(t), loser)
      /\ points' = RecordPoint(points, WithTimers(t), TRUE)
      /\ UNCHANGED <<request, abandoned>>
  BY DEF TimerExpiry
<1>4. QED
  BY <1>2, <1>3, ConcessionInductive

---------------------------------------------------------------------------
(* The specification                                                       *)

\* A new match satisfies the invariant.
LEMMA InitInductive == LocalInit => IInv
<1> SUFFICES ASSUME LocalInit PROVE IInv
  OBVIOUS
<1>1. PICK p \in Player :
        state = [status |-> "setup", winner |-> NoWinner,
                 seq |-> 1, actionSeq |-> 0, board |-> 1,
                 pending |-> EngineDecision(p, 0),
                 holders |-> {}, timers |-> InitTimers]
  BY DEF LocalInit
<1>2. points = {} /\ request = NoRequest /\ abandoned = {}
  BY DEF LocalInit
<1>3. EngineDecision(p, 0) \in Decision
  BY DEF EngineDecision, Decision
<1>4. state \in GameState
  BY <1>1, <1>3, TimersAssumption DEF GameState, Status
<1>5. TypeOK
  BY <1>2, <1>4 DEF TypeOK, Request
<1>6. QED
  BY <1>1, <1>2, <1>5 DEF IInv, PointsInOrder, BoardsPast,
     RewoundFutureStaysUndone, RequestAnswerable, NoRequest

\* A step that raises the seq and keeps the board or labels a new one.
LEMMA ForwardStep ==
  ASSUME IInv, IInv', state'.seq > state.seq,
         state'.actionSeq = state.actionSeq \/ state'.actionSeq > state.actionSeq,
         state'.board = state.board \/ state'.board > state.board
  PROVE  SeqStep /\ ConsentedRewind
<1>1. /\ state.seq \in Nat /\ state.actionSeq \in Nat /\ state.board \in Nat
      /\ state'.seq \in Nat /\ state'.actionSeq \in Nat /\ state'.board \in Nat
  BY DEF IInv, TypeOK, GameState
<1>2. SeqStep
  BY <1>1 DEF SeqStep
<1>3. ConsentedRewind
  BY <1>1 DEF ConsentedRewind
<1>4. QED
  BY <1>2, <1>3

\* One call of a player: it raises the seq or changes nothing.
LEMMA CallInductive ==
  ASSUME IInv, NEW p \in Player, LocalCall(p)
  PROVE  /\ IInv' /\ SeqStep /\ ConsentedRewind
         /\ state'.seq > state.seq \/ UNCHANGED localVars
<1>1. CASE EngineMove(p)
  BY <1>1, EngineMoveInductive, ForwardStep
<1>2. CASE ConcedeMove(p)
  BY <1>2, ConcedeMoveInductive, ForwardStep
<1>3. CASE \E pt \in points : RequestRollback(p, pt.seq)
  BY <1>3, RequestInductive, ForwardStep
<1>4. CASE DenyRollback(p)
  BY <1>4, DenyInductive, ForwardStep
<1>5. CASE AllowRollback(p)
  <2>1. /\ IInv' /\ state'.seq > state.seq /\ state'.actionSeq > state.actionSeq
        /\ ConsentedRewind
    BY <1>5, AllowInductive DEF ConsentedRewind
  <2>2. /\ state.seq \in Nat /\ state.actionSeq \in Nat
        /\ state'.seq \in Nat /\ state'.actionSeq \in Nat
    BY <2>1 DEF IInv, TypeOK, GameState
  <2>3. SeqStep
    BY <2>1, <2>2 DEF SeqStep
  <2>4. QED
    BY <2>1, <2>3
<1>6. CASE CancelRollback(p)
  BY <1>6, CancelInductive, ForwardStep
<1>7. CASE AdvancePhase(p)
  BY <1>7, AdvanceStutters, StutterInductive
<1>8. QED
  BY <1>1, <1>2, <1>3, <1>4, <1>5, <1>6, <1>7 DEF LocalCall

\* One step of the match or of its timers.
LEMMA StepInductive ==
  ASSUME IInv, [LocalNext]_localVars
  PROVE  IInv' /\ [SeqStep]_localVars /\ [ConsentedRewind]_localVars
<1>1. state.seq \in Nat /\ state.actionSeq \in Nat /\ state.board \in Nat
  BY DEF IInv, TypeOK, GameState
<1>2. CASE \E p \in Player : LocalCall(p)
  BY <1>2, CallInductive
<1>3. CASE \E t \in Timers : TimersAdvance(t)
  BY <1>1, <1>3, TimersAdvanceInductive DEF SeqStep, ConsentedRewind
<1>4. CASE \E t \in Timers, loser \in Player : TimerExpiry(t, loser)
  BY <1>4, TimerExpiryInductive, ForwardStep
<1>5. CASE UNCHANGED localVars
  BY <1>5, StutterInductive
<1>6. QED
  BY <1>2, <1>3, <1>4, <1>5 DEF LocalNext

\* The inductive invariant holds of every match.
THEOREM MatchInvariant == LocalSpec => []IInv
<1>1. LocalInit => IInv
  BY InitInductive
<1>2. IInv /\ [LocalNext]_localVars => IInv'
  BY StepInductive
<1>3. QED
  BY <1>1, <1>2, PTL DEF LocalSpec

\* Every component of a match stays within its type.
THEOREM MatchTypes == LocalSpec => []TypeOK
<1>1. IInv => TypeOK
  BY DEF IInv
<1>2. QED
  BY <1>1, MatchInvariant, PTL

\* The rollback points are in the order recordRollbackPoint relies on.
THEOREM PointsStayInOrder == LocalSpec => []PointsInOrder
<1>1. IInv => PointsInOrder
  BY DEF IInv
<1>2. QED
  BY <1>1, MatchInvariant, PTL

\* No later rollback brings back a board that a rollback has undone.
THEOREM UndoneStaysUndone == LocalSpec => []RewoundFutureStaysUndone
<1>1. IInv => RewoundFutureStaysUndone
  BY DEF IInv
<1>2. QED
  BY <1>1, MatchInvariant, PTL

\* An open request can always be answered, whatever happened since.
THEOREM RequestsStayAnswerable == LocalSpec => []RequestAnswerable
<1>1. IInv => RequestAnswerable
  BY DEF IInv
<1>2. QED
  BY <1>1, MatchInvariant, PTL

\* state.seq never goes back and names what a client has seen.
THEOREM SeqNames == LocalSpec => SeqNamesTheState
<1>1. IInv /\ [LocalNext]_localVars => [SeqStep]_localVars
  BY StepInductive
<1>2. QED
  BY <1>1, MatchInvariant, PTL DEF LocalSpec, SeqNamesTheState

\* An older board comes back only by a consent that was asked for.
THEOREM RewindsAreConsented == LocalSpec => RewindOnlyByConsent
<1>1. IInv /\ [LocalNext]_localVars => [ConsentedRewind]_localVars
  BY StepInductive
<1>2. QED
  BY <1>1, MatchInvariant, PTL DEF LocalSpec, RewindOnlyByConsent

---------------------------------------------------------------------------
(* The bound on the number of rollback points                              *)

\* The list of points has a head: some point has the least seq.
LEMMA OldestExists ==
  ASSUME NEW ps \in SUBSET GameState, ps # {}
  PROVE  Oldest(ps) # {}
<1> DEFINE seqs == {q.seq : q \in ps}
<1>1. seqs \subseteq Nat /\ seqs # {}
  BY DEF GameState
<1>2. PICK n \in seqs : \A m \in seqs : ~(<<m, n>> \in OpToRel(<, Nat))
  BY <1>1, NatLessThanWellFounded, WFMin
<1>3. \A m \in seqs : m \in Nat /\ n \in Nat /\ ~(m < n)
  BY <1>1, <1>2 DEF OpToRel
<1>4. PICK q \in ps : q.seq = n
  OBVIOUS
<1>5. \A r \in ps : r.seq \in seqs
  OBVIOUS
<1> HIDE DEF seqs
<1>6. \A r \in ps : n <= r.seq
  BY <1>3, <1>5
<1>7. QED
  BY <1>4, <1>6 DEF Oldest

BoundHolds(ps) ==
  IsFiniteSet(ps) /\ (MaxPoints > 0 => Cardinality(ps) <= MaxPoints)

\* recordRollbackPoint keeps the list within maxPoints, or drops nothing
\* when maxPoints is zero.
LEMMA RecordPointBounded ==
  ASSUME NEW ps \in SUBSET GameState, NEW previous \in GameState,
         NEW happened \in BOOLEAN, BoundHolds(ps)
  PROVE  BoundHolds(RecordPoint(ps, previous, happened))
<1> DEFINE longer == ps \cup {previous}
<1>1. /\ IsFiniteSet(longer) /\ Cardinality(ps) \in Nat
      /\ Cardinality(longer) \in Nat /\ MaxPoints \in Nat
      /\ Cardinality(longer) <= Cardinality(ps) + 1
  <2>1. IsFiniteSet(ps) /\ Cardinality(ps) \in Nat
    BY FS_CardinalityType DEF BoundHolds
  <2>2. /\ IsFiniteSet(longer)
        /\ Cardinality(longer) = IF previous \in ps THEN Cardinality(ps)
                                ELSE Cardinality(ps) + 1
    BY <2>1, FS_AddElement
  <2>3. QED
    BY <2>1, <2>2, RollbackConfigAssumption
<1>2. CASE ~RollbackEnabled \/ ~happened
  BY <1>2 DEF RecordPoint
<1>3. CASE /\ RollbackEnabled /\ happened
           /\ MaxPoints = 0 \/ Cardinality(longer) <= MaxPoints
  <2>1. RecordPoint(ps, previous, happened) = longer
    BY <1>3 DEF RecordPoint
  <2>2. MaxPoints = 0 \/ Cardinality(longer) <= MaxPoints
    BY <1>3
  <2>3. QED
    BY <1>1, <2>1, <2>2 DEF BoundHolds
<1>4. CASE /\ RollbackEnabled /\ happened
           /\ MaxPoints # 0 /\ ~(Cardinality(longer) <= MaxPoints)
  <2>1. RecordPoint(ps, previous, happened) = longer \ Oldest(longer)
    BY <1>4 DEF RecordPoint
  <2>2. PICK q \in Oldest(longer) : q \in longer
    <3>1. longer \in SUBSET GameState /\ longer # {}
      OBVIOUS
    <3>2. Oldest(longer) # {}
      BY <3>1, OldestExists
    <3>3. Oldest(longer) \subseteq longer
      BY DEF Oldest
    <3>4. QED
      BY <3>2, <3>3
  <2>3. longer \ Oldest(longer) \in SUBSET (longer \ {q})
    OBVIOUS
  <2>4. /\ IsFiniteSet(longer \ {q})
        /\ Cardinality(longer \ {q}) = Cardinality(longer) - 1
    BY <1>1, <2>2, FS_RemoveElement
  <2>5. /\ IsFiniteSet(longer \ Oldest(longer))
        /\ Cardinality(longer \ Oldest(longer)) <= Cardinality(longer) - 1
    BY <2>3, <2>4, FS_Subset
  <2>6. Cardinality(longer \ Oldest(longer)) \in Nat
    BY <2>5, FS_CardinalityType
  <2>7. Cardinality(ps) <= MaxPoints
    BY <1>1, <1>4 DEF BoundHolds
  <2>8. QED
    BY <1>1, <2>1, <2>5, <2>6, <2>7 DEF BoundHolds
<1>5. QED
  BY <1>2, <1>3, <1>4

\* What a step may do to the points: keep them, record one, or drop some.
LEMMA PointsStep ==
  ASSUME IInv, [LocalNext]_localVars
  PROVE  \/ points' \subseteq points
         \/ \E previous \in GameState :
              points' = RecordPoint(points, previous, TRUE)
<1>1. state \in GameState
  BY DEF IInv, TypeOK
<1>2. ASSUME NEW p \in Player, LocalCall(p)
      PROVE  \/ points' \subseteq points
             \/ \E previous \in GameState :
              points' = RecordPoint(points, previous, TRUE)
  BY <1>1, <1>2, AdvanceStutters DEF LocalCall, localVars, EngineMove,
     ConcedeMove, Commit, RequestRollback, DenyRollback, AllowRollback, PointsUpTo, CancelRollback
<1>3. ASSUME NEW t \in Timers,
             TimersAdvance(t) \/ \E loser \in Player : TimerExpiry(t, loser)
      PROVE  \/ points' \subseteq points
             \/ \E previous \in GameState :
              points' = RecordPoint(points, previous, TRUE)
  BY <1>1, <1>3, WithTimersTyped DEF TimersAdvance, TimerExpiry
<1>4. CASE UNCHANGED localVars
  BY <1>4 DEF localVars
<1>5. QED
  BY <1>2, <1>3, <1>4 DEF LocalNext

\* The rollback points never exceed a positive maxPoints.
THEOREM PointsStayBounded == LocalSpec => []PointsBounded
<1>1. LocalInit => BoundHolds(points)
  BY FS_EmptySet, RollbackConfigAssumption DEF LocalInit, BoundHolds
<1>2. IInv /\ BoundHolds(points) /\ [LocalNext]_localVars => BoundHolds(points')
  <2> SUFFICES ASSUME IInv, BoundHolds(points), [LocalNext]_localVars
               PROVE  BoundHolds(points')
    OBVIOUS
  <2>1. points \in SUBSET GameState
    BY DEF IInv, TypeOK
  <2>2. CASE points' \subseteq points
    <3>1. /\ IsFiniteSet(points') /\ Cardinality(points') <= Cardinality(points)
      BY <2>2, FS_Subset DEF BoundHolds
    <3>2. Cardinality(points) \in Nat /\ Cardinality(points') \in Nat
      BY <3>1, FS_CardinalityType DEF BoundHolds
    <3>3. QED
      BY <3>1, <3>2, RollbackConfigAssumption DEF BoundHolds
  <2>3. CASE \E previous \in GameState :
              points' = RecordPoint(points, previous, TRUE)
    BY <2>1, <2>3, RecordPointBounded
  <2>4. QED
    BY <2>2, <2>3, PointsStep
<1>3. BoundHolds(points) => PointsBounded
  BY DEF BoundHolds, PointsBounded
<1>4. (BoundHolds(points))' <=> BoundHolds(points')
  BY DEF BoundHolds
<1>5. QED
  BY <1>1, <1>2, <1>3, <1>4, MatchInvariant, PTL DEF LocalSpec

---------------------------------------------------------------------------
(* What only an allowed rollback can do                                    *)

\* A call that is not a consent to a rollback keeps the timers; it ends a
\* match or leaves its status a live one, and it never touches the result
\* of a match that has one.
LEMMA CallsButAllow ==
  ASSUME IInv, NEW p \in Player, LocalCall(p), ~AllowRollback(p)
  PROVE  /\ state'.timers = state.timers
         /\ state.status = "completed" =>
              state'.status = "completed" /\ state'.winner = state.winner
<1>1. state \in GameState
  BY DEF IInv, TypeOK
<1>2. CASE EngineMove(p)
  <2>1. PICK step \in SeqSteps, o \in EngineOutcomes(state) :
          state' = EngineStep(state, step, o)
    BY <1>2 DEF EngineMove, Commit
  <2>2. QED
    BY <1>1, <2>1, OutcomesTyped DEF EngineStep
<1>3. CASE ConcedeMove(p)
  BY <1>3 DEF ConcedeMove, Commit, Concede, EngineStep
<1>4. CASE \E pt \in points : RequestRollback(p, pt.seq)
  <2>1. PICK d : state' = Bumped([state EXCEPT !.pending = d])
    BY <1>4 DEF RequestRollback
  <2>2. QED
    BY <1>1, <2>1 DEF Bumped, GameState
<1>5. CASE DenyRollback(p) \/ CancelRollback(p)
  BY <1>1, <1>5 DEF DenyRollback, CancelRollback, ClearedConsent, Bumped, GameState
<1>6. CASE AdvancePhase(p)
  BY <1>6, AdvanceStutters DEF localVars
<1>7. QED
  BY <1>2, <1>3, <1>4, <1>5, <1>6 DEF LocalCall

Reopens ==
  /\ state.status = "completed"
  /\ ~(state'.status = "completed" /\ state'.winner = state.winner)

\* CompletedIsFinal is violated by allowed rollbacks and by nothing else: no
\* move, concession, timer, denial, request or cancellation changes the
\* result of a completed match.
THEOREM OnlyConsentReopens ==
  LocalSpec => [][Reopens => \E p \in Player : AllowRollback(p)]_localVars
<1>1. ASSUME IInv, LocalNext, Reopens PROVE \E p \in Player : AllowRollback(p)
  <2>1. ~ \E t \in Timers : TimersAdvance(t) \/ \E loser \in Player : TimerExpiry(t, loser)
    BY <1>1 DEF Reopens, TimersAdvance, TimerExpiry
  <2>2. PICK p \in Player : LocalCall(p)
    BY <1>1, <2>1 DEF LocalNext
  <2>3. QED
    BY <1>1, <2>2, CallsButAllow DEF Reopens
<1>2. IInv /\ [LocalNext]_localVars
        => [Reopens => \E p \in Player : AllowRollback(p)]_localVars
  BY <1>1
<1>3. QED
  BY <1>2, MatchInvariant, PTL DEF LocalSpec

\* The engine and a concession put no rollback consent to anyone.
LEMMA EngineNeverAsksConsent ==
  ASSUME IInv, NEW p \in Player, EngineMove(p) \/ ConcedeMove(p)
  PROVE  state'.pending.kind # "rollbackConsent"
<1>1. CASE EngineMove(p)
  <2>1. PICK step \in SeqSteps, o \in EngineOutcomes(state) :
          state' = EngineStep(state, step, o)
    BY <1>1 DEF EngineMove, Commit
  <2>2. state'.pending = o.pending
    BY <2>1 DEF EngineStep
  <2>3. QED
    BY <2>1, <2>2, OutcomesTyped DEF IInv, TypeOK
<1>2. CASE ConcedeMove(p)
  <2>1. state'.pending = NoDecision
    BY <1>2 DEF ConcedeMove, Commit, Concede, EngineStep
  <2>2. QED
    BY <2>1 DEF NoDecision
<1>3. QED
  BY <1>1, <1>2

\* A rollback consent is answerable from the start and stays so until an
\* allowed rollback restores a state that was itself waiting for a consent
\* (PendingDecisionHasResponse): such a point is what a concession or an
\* expiry records when it comes while a request is open.
THEOREM OnlyRestoredConsentsAreStale ==
  LocalSpec =>
    /\ PendingDecisionHasResponse
    /\ [][PendingDecisionHasResponse =>
            \/ PendingDecisionHasResponse'
            \/ \E p \in Player, pt \in points :
                 /\ AllowRollback(p)
                 /\ pt.seq = request.point
                 /\ pt.pending.kind = "rollbackConsent"]_localVars
<1> DEFINE Cause == \E p \in Player, pt \in points :
                 /\ AllowRollback(p)
                 /\ pt.seq = request.point
                 /\ pt.pending.kind = "rollbackConsent"
<1>1. LocalInit => PendingDecisionHasResponse
  BY DEF LocalInit, PendingDecisionHasResponse, EngineDecision
<1>2. ASSUME IInv, [LocalNext]_localVars, PendingDecisionHasResponse
      PROVE  PendingDecisionHasResponse' \/ Cause
  <2>0. state \in GameState
    BY <1>2 DEF IInv, TypeOK
  <2>1. ASSUME NEW p \in Player, EngineMove(p) \/ ConcedeMove(p)
        PROVE  PendingDecisionHasResponse'
    BY <1>2, <2>1, EngineNeverAsksConsent DEF PendingDecisionHasResponse
  <2>2. ASSUME NEW p \in Player, NEW pt \in points, RequestRollback(p, pt.seq)
        PROVE  PendingDecisionHasResponse'
    <3> DEFINE d == ConsentDecision(Other(p), state.seq, pt.seq)
    <3>1. /\ state' = Bumped([state EXCEPT !.pending = d])
          /\ request' = RequestFor(p, Other(p), pt.seq)
      BY <2>2 DEF RequestRollback
    <3>2. state'.pending = d
      BY <2>0, <3>1 DEF Bumped, GameState
    <3>3. d.point = pt.seq /\ request'.open /\ request'.point = pt.seq
      BY <3>1 DEF ConsentDecision, RequestFor
    <3>4. QED
      BY <3>2, <3>3 DEF PendingDecisionHasResponse
  <2>3. ASSUME NEW p \in Player, DenyRollback(p) \/ CancelRollback(p)
        PROVE  PendingDecisionHasResponse'
    <3>1. state'.pending = NoDecision
      BY <2>0, <2>3 DEF DenyRollback, CancelRollback, ClearedConsent, Bumped, GameState
    <3>2. QED
      BY <3>1 DEF PendingDecisionHasResponse, NoDecision
  <2>4. ASSUME NEW p \in Player, AllowRollback(p)
        PROVE  PendingDecisionHasResponse' \/ Cause
    <3>1. PICK pt \in points : pt.seq = request.point /\ state' = Restored(pt)
      BY <2>4 DEF AllowRollback, RequestedPoints
    <3>2. pt \in GameState
      BY <1>2 DEF IInv, TypeOK
    <3>3. state'.pending = pt.pending
      BY <3>1, <3>2 DEF Restored, GameState
    <3>4. CASE pt.pending.kind = "rollbackConsent"
      BY <2>4, <3>1, <3>4
    <3>5. CASE pt.pending.kind # "rollbackConsent"
      BY <3>3, <3>5 DEF PendingDecisionHasResponse
    <3>6. QED
      BY <3>4, <3>5
  <2>5. ASSUME NEW t \in Timers, TimersAdvance(t) PROVE PendingDecisionHasResponse'
    <3>1. state'.pending = state.pending /\ request' = request
      BY <2>0, <2>5, WithTimersTyped DEF TimersAdvance
    <3>2. QED
      BY <1>2, <3>1 DEF PendingDecisionHasResponse
  <2>6. ASSUME NEW t \in Timers, NEW loser \in Player, TimerExpiry(t, loser)
        PROVE  PendingDecisionHasResponse'
    <3>1. state'.pending = NoDecision
      BY <2>6 DEF TimerExpiry, Concede, EngineStep
    <3>2. QED
      BY <3>1 DEF PendingDecisionHasResponse, NoDecision
  <2>7. CASE UNCHANGED localVars
    BY <1>2, <2>7 DEF localVars, PendingDecisionHasResponse
  <2>8. ASSUME NEW p \in Player, AdvancePhase(p) PROVE UNCHANGED localVars
    BY <2>8, AdvanceStutters
  <2>9. QED
    BY <1>2, <2>1, <2>2, <2>3, <2>4, <2>5, <2>6, <2>7, <2>8 DEF LocalNext, LocalCall
<1>3. IInv /\ [LocalNext]_localVars
        => [PendingDecisionHasResponse => PendingDecisionHasResponse' \/ Cause]_localVars
  BY <1>2
<1>4. QED
  BY <1>1, <1>3, MatchInvariant, PTL DEF LocalSpec
===========================================================================
