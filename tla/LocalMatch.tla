---------------------------- MODULE LocalMatch ----------------------------
(* One hosted match: the engine state the server holds (`match.state`) and *)
(* its rollback bookkeeping (`match.rollback`), as driven by the four      *)
(* entry points of local-match.ts.  The rules engine behind applyAction is *)
(* abstracted to what this layer can tell apart: whether the match is      *)
(* over, which decision (if any) it waits for, who may act when it waits   *)
(* for none, and a label that names the board.  A board is labelled with   *)
(* the state sequence number it was first produced at, so an older label   *)
(* is an older board.                                                      *)
(*                                                                         *)
(* Operators named Faulty... are not part of the specification: each is a  *)
(* wrong version of the definition after it, which a run must tell from    *)
(* the right one.                                                          *)
EXTENDS Integers, FiniteSets

CONSTANTS
    Player,           \* the two players of the match
    RollbackEnabled,  \* LocalRollbackConfig.enabled
    MaxPoints,        \* LocalRollbackConfig.maxPoints
    SeqSteps,         \* by how much an engine call that does something may
                      \* raise state.seq (AdvancePhase does nothing)
    Timers,           \* values of state.timers, opaque at this layer
    InitTimers,       \* ... as initializeLocalDevMatchTimers leaves them
    MaxSeq            \* bound: the model stops raising state.seq here

ASSUME PlayerAssumption ==
    \E p, q \in Player : p # q /\ Player = {p, q}
ASSUME RollbackConfigAssumption ==
    RollbackEnabled \in BOOLEAN /\ MaxPoints \in Nat
ASSUME SeqAssumption ==
    SeqSteps \subseteq Nat \ {0} /\ MaxSeq \in Nat
ASSUME TimersAssumption == InitTimers \in Timers

VARIABLES
    state,     \* match.state
    points,    \* match.rollback.points: the states to go back to
    request,   \* match.rollback.pendingRequest
    abandoned  \* history: labels of the boards a rollback has undone

localVars == <<state, points, request, abandoned>>

---------------------------------------------------------------------------
(* Decisions, states, rollback points                                      *)

NoDecision == [kind |-> "none"]
EngineDecision(p, n) == [kind |-> "engine", player |-> p, id |-> n]
ConsentDecision(p, n, pt) ==
    [kind |-> "rollbackConsent", player |-> p, id |-> n, point |-> pt]

Decision ==
    {NoDecision}
    \cup [kind : {"engine"}, player : Player, id : Nat]
    \cup [kind : {"rollbackConsent"}, player : Player, id : Nat, point : Nat]

Status == {"setup", "active", "completed"}
NoWinner == "nobody"
Draw == "draw"

GameState ==
    [status : Status, winner : Player \cup {NoWinner, Draw},
     seq : Nat, actionSeq : Nat, board : Nat,
     pending : Decision, holders : SUBSET Player, timers : Timers]

NoRequest == [open |-> FALSE]
RequestFor(p, q, pt) ==
    [open |-> TRUE, requestedBy |-> p, approving |-> q, point |-> pt]
Request ==
    {NoRequest} \cup
    [open : {TRUE}, requestedBy : Player, approving : Player, point : Nat]

FaultyOther(p) == NoWinner
Other(p) == CHOOSE q \in Player : q # p

(* A rollback point is a clone of the state before the accepted call, and  *)
(* its id starts with that state's seq: a point is that state and is named *)
(* by its seq.  The list is in order of seq (PointsInOrder), so dropping   *)
(* its head drops the least seq; slice(-0) is slice(0) and drops nothing.  *)
(* A call that produced no event (happened) is no point to go back to.     *)
Oldest(ps) == {q \in ps : \A r \in ps : q.seq <= r.seq}

FaultyRecordPoint(ps, previous, happened) ==
    IF ~RollbackEnabled \/ ~happened THEN ps ELSE ps \cup {previous}

RecordPoint(ps, previous, happened) ==
    IF ~RollbackEnabled \/ ~happened THEN ps
    ELSE LET longer == ps \cup {previous}
         IN  IF MaxPoints = 0 \/ Cardinality(longer) <= MaxPoints
             THEN longer
             ELSE longer \ Oldest(longer)

---------------------------------------------------------------------------
(* The engine behind applyAction and respondToMulliganDecision             *)

(* What the engine may be waiting for when a call returns: setup always    *)
(* waits for a decision (and cannot end the match: it deals a hand and the *)
(* life out of a full deck), a live match for a decision or for its        *)
(* holders, of whom there may be none (TurnFlow's EndPhaseProceeds).  An   *)
(* effect that ends the match may still ask, and its answer is taken.  A   *)
(* decision id is new when it is made: it carries the seq, or a queue      *)
(* entry, it was made at.                                                  *)
EngineOutcomes(s) ==
    LET asked == {EngineDecision(q, s.seq) : q \in Player}
        decides(status) ==
            [status : {status}, winner : {NoWinner}, holders : {{}}, pending : asked]
        plays == [status : {"active"}, winner : {NoWinner},
                  holders : SUBSET Player, pending : {NoDecision}]
        ends(winners) == [status : {"completed"}, winner : winners,
                          holders : {{}}, pending : asked \cup {NoDecision}]
    IN  CASE s.status = "setup" -> decides("setup") \cup decides("active") \cup plays
          [] s.status = "active" -> decides("active") \cup plays \cup ends(Player \cup {Draw})
          [] s.status = "completed" -> ends({s.winner})

EngineStep(s, step, outcome) ==
    [status |-> outcome.status, winner |-> outcome.winner,
     seq |-> s.seq + step, actionSeq |-> s.actionSeq + 1, board |-> s.seq + step,
     pending |-> outcome.pending, holders |-> outcome.holders, timers |-> s.timers]

(* applyConcede: the pending decision goes, the rollback request stays. *)
Concede(s, loser) ==
    EngineStep(s, 1, [status |-> "completed", winner |-> Other(loser),
                      pending |-> NoDecision, holders |-> {}])

(* Who has a call of the engine that does something. *)
MayMove(p) ==
    IF state.pending = NoDecision
    THEN state.status = "active" /\ p \in state.holders
    ELSE state.pending.kind = "engine" /\ state.pending.player = p

Commit(next, happened) ==
    /\ state' = next
    /\ points' = RecordPoint(points, state, happened)
    /\ UNCHANGED <<request, abandoned>>

(* applyLocalDevAction and applyLocalDevDecision, engine path.             *)
EngineMove(p) ==
    /\ MayMove(p)
    /\ \E step \in SeqSteps, outcome \in EngineOutcomes(state) :
          /\ state.seq + step <= MaxSeq
          /\ Commit(EngineStep(state, step, outcome), TRUE)

(* The listed "Advance to main phase".  A call that starts a turn leaves it *)
(* in its main phase, so the phase is another one only in a match stranded *)
(* in its end phase, where nobody holds an action and no question is open. *)
(* There advanceToMainPhase hands back the state it was given, with no     *)
(* event and no error, and the call is accepted.  Whose turn it is is not  *)
(* kept here: either player may send it.                                   *)
AdvancePhase(p) ==
    /\ p \in Player
    /\ state.status = "active" /\ state.pending = NoDecision /\ state.holders = {}
    /\ Commit(state, FALSE)

(* The listed concede action: offered to both players while the match is   *)
(* active, whatever decision is pending.                                   *)
ConcedeMove(p) ==
    /\ p \in Player
    /\ state.status = "active"
    /\ state.seq < MaxSeq
    /\ Commit(Concede(state, p), TRUE)

---------------------------------------------------------------------------
(* Rollback by consent                                                     *)

Bumped(s) == [s EXCEPT !.seq = @ + 1]

CanRequest(p, pt) ==
    /\ RollbackEnabled
    /\ ~request.open
    /\ state.pending = NoDecision
    /\ \E q \in points : q.seq = pt

FaultyRequestRollback(p, pt) ==
    /\ CanRequest(p, pt)
    /\ state.seq < MaxSeq
    /\ state' = Bumped([state EXCEPT
                  !.pending = ConsentDecision(Other(p), state.seq, pt)])
    /\ points' = RecordPoint(points, state, TRUE)
    /\ request' = RequestFor(p, Other(p), pt)
    /\ UNCHANGED abandoned

RequestRollback(p, pt) ==
    /\ CanRequest(p, pt)
    /\ state.seq < MaxSeq
    /\ state' = Bumped([state EXCEPT
                  !.pending = ConsentDecision(Other(p), state.seq, pt)])
    /\ request' = RequestFor(p, Other(p), pt)
    /\ UNCHANGED <<points, abandoned>>

FaultyClearedConsent == [state EXCEPT !.pending = NoDecision]
ClearedConsent == [Bumped(state) EXCEPT !.pending = NoDecision]

CanResolve(p) ==
    /\ state.pending.kind = "rollbackConsent"
    /\ state.pending.player = p
    /\ request.open
    /\ state.pending.point = request.point

DenyRollback(p) ==
    /\ CanResolve(p)
    /\ state.seq < MaxSeq
    /\ state' = ClearedConsent
    /\ request' = NoRequest
    /\ UNCHANGED <<points, abandoned>>

FaultyRequestedPoints == {q \in points : \A r \in points : r.seq <= q.seq}
RequestedPoints == {q \in points : q.seq = request.point}

FaultyRestored(pt) == pt
Restored(pt) ==
    [[pt EXCEPT !.seq = state.seq + 1] EXCEPT !.actionSeq = state.actionSeq + 1]

FaultyPointsUpTo(pt) == points
PointsUpTo(pt) == {q \in points : q.seq <= pt.seq}

AllowRollback(p) ==
    /\ CanResolve(p)
    /\ state.seq < MaxSeq
    /\ \E pt \in RequestedPoints :
          /\ state' = Restored(pt)
          /\ points' = PointsUpTo(pt)
          /\ abandoned' = abandoned \cup (pt.board + 1) .. state.seq
    /\ request' = NoRequest

CanCancel(p) == request.open /\ request.requestedBy = p

CancelRollback(p) ==
    /\ CanCancel(p)
    /\ state.seq < MaxSeq
    /\ state' = ClearedConsent
    /\ request' = NoRequest
    /\ UNCHANGED <<points, abandoned>>

---------------------------------------------------------------------------
(* The match timers, seen from here: advanceLocalDevMatchTimers replaces   *)
(* state.timers without raising state.seq, and an expiry concedes for its  *)
(* player in the same call, from setup too, and records the state with the *)
(* timers already advanced.  An expiry is not held back by MaxSeq.  The    *)
(* concession is taken to succeed: an error of the engine would leave the  *)
(* match running with an empty timer.                                      *)

WithTimers(t) == [state EXCEPT !.timers = t]

TimersAdvance(t) ==
    /\ state.status # "completed"
    /\ state' = WithTimers(t)
    /\ UNCHANGED <<points, request, abandoned>>

TimerExpiry(t, loser) ==
    /\ state.status # "completed"
    /\ state' = Concede(WithTimers(t), loser)
    /\ points' = RecordPoint(points, WithTimers(t), TRUE)
    /\ UNCHANGED <<request, abandoned>>

---------------------------------------------------------------------------
(* createLocalDevMatch: setup effects or the first mulligan are pending.   *)
LocalInit ==
    /\ \E p \in Player :
          state = [status |-> "setup", winner |-> NoWinner,
                   seq |-> 1, actionSeq |-> 0, board |-> 1,
                   pending |-> EngineDecision(p, 0),
                   holders |-> {}, timers |-> InitTimers]
    /\ points = {}
    /\ request = NoRequest
    /\ abandoned = {}

LocalCall(p) ==
    \/ EngineMove(p)
    \/ AdvancePhase(p)
    \/ ConcedeMove(p)
    \/ \E pt \in points : RequestRollback(p, pt.seq)
    \/ DenyRollback(p)
    \/ AllowRollback(p)
    \/ CancelRollback(p)

LocalNext ==
    \/ \E p \in Player : LocalCall(p)
    \/ \E t \in Timers :
          TimersAdvance(t) \/ \E loser \in Player : TimerExpiry(t, loser)

LocalSpec == LocalInit /\ [][LocalNext]_localVars

---------------------------------------------------------------------------
(* Properties                                                              *)

\* Every component of the match stays within its type.
TypeOK ==
    /\ state \in GameState
    /\ points \in SUBSET GameState
    /\ request \in Request
    /\ abandoned \in SUBSET Nat

\* A stored point is strictly older than the state, two points never share
\* a seq (which is what identifies a point), and an older point never holds
\* a younger board: the list order recordRollbackPoint relies on.
PointsInOrder ==
    /\ \A q \in points : q.seq < state.seq /\ q.board <= state.board
    /\ \A q, r \in points : q.seq = r.seq => q = r
    /\ \A q, r \in points : q.seq <= r.seq => q.board <= r.board

\* A future that a rollback undid stays undone: neither the current board
\* nor any board that a later rollback could restore is one of its boards.
RewoundFutureStaysUndone ==
    /\ state.board \notin abandoned
    /\ \A q \in points : q.board \notin abandoned

\* While a request waits for its answer, the decision put to the other
\* player names the requested point and that point can still be restored,
\* whatever was recorded or sliced off the list since: the branch
\* "Requested rollback point is no longer available." is never reached.
RequestAnswerable ==
    request.open /\ state.status # "completed" =>
        /\ state.pending = ConsentDecision(request.approving,
                                           state.pending.id, request.point)
        /\ request.approving # request.requestedBy
        /\ \E q \in points : q.seq = request.point

\* recordRollbackPoint never keeps more than maxPoints points (maxPoints = 0
\* is the case where slice(-0) keeps everything).
PointsBounded == MaxPoints > 0 => Cardinality(points) <= MaxPoints

\* What the four above need to be inductive: every board, also an
\* undone one, was produced at or before the current seq.
BoardsPast ==
    /\ state.board <= state.seq
    /\ \A n \in abandoned : n <= state.seq

\* The inductive invariant of the proofs.
IInv ==
    /\ TypeOK
    /\ PointsInOrder
    /\ BoardsPast
    /\ RewoundFutureStaysUndone
    /\ RequestAnswerable

\* The board goes back to an older one only through a consent that was
\* asked for: the request is open before the step, it is closed by the step
\* and the restored board is the one the requested point recorded.
ConsentedRewind ==
    state'.board < state.board =>
        /\ request.open
        /\ state.pending.kind = "rollbackConsent"
        /\ ~request'.open
        /\ \E q \in points : q.seq = request.point /\ q.board = state'.board
RewindOnlyByConsent == [][ConsentedRewind]_localVars

\* Sequence numbers never move backwards, a rollback included, and whatever
\* changes the board, the status or the pending decision raises state.seq:
\* a client that saw a seq has seen everything up to it.
SeqStep ==
    /\ state'.seq >= state.seq
    /\ state'.actionSeq >= state.actionSeq
    /\ <<state.status, state.board, state.pending>>
          # <<state'.status, state'.board, state'.pending>>
          => state'.seq > state.seq
SeqNamesTheState == [][SeqStep]_localVars

\* specs/08-replay-rollback-recovery.md:251 lists a match already finalized
\* as not rollbackable: a completed match would keep its result.
CompletedIsFinal ==
    [][state.status = "completed" =>
          state'.status = "completed" /\ state'.winner = state.winner]_localVars

\* specs/03-game-state-events-decisions.md:620 requires that a pending
\* decision has legal responses.  A rollback consent can be answered only
\* while the request it belongs to is open.
PendingDecisionHasResponse ==
    state.pending.kind = "rollbackConsent" =>
        request.open /\ request.point = state.pending.point
===========================================================================
