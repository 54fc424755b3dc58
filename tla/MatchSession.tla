--------------------------- MODULE MatchSession ---------------------------
(* The session runtime of match-session.ts in front of one local match:    *)
(* clients send envelopes, resend them, and send them late or out of       *)
(* order; the runtime answers from its idempotency map, rejects what does  *)
(* not fit the state, and applies the rest.  Any envelope may arrive at    *)
(* any time, so a lossy, reordering, duplicating network is included.      *)
EXTENDS LocalMatch

CONSTANTS
    ActionId,      \* clientActionId values
    SentRequests,  \* bound: the requests that clients send in the model
    MaxRefused     \* bound: refused requests the model lets a match store

VARIABLES
    stored     \* idempotency: (player, clientActionId) -> stored record

sessionVars == <<state, points, request, abandoned, stored>>

Key == Player \X ActionId

(* SessionActionRequest; the player and expectedStateSeq of a request are  *)
(* those of its envelope (an envelope where they differ is turned away     *)
(* before anything is looked at).  A response names its decision, and its  *)
(* envelope names one (answers, the expectedDecisionId) on its own.        *)
(* An action index stands for the executable action it denotes.            *)
Requests ==
    [type : {"submitAction"},
     choice : {"play", "advance", "concede", "allow", "deny"}]
    \cup [type : {"respondToDecision"}, decision : Nat,
          choice : {"play", "allow", "deny"}]
    \cup [type : {"requestRollback"}, point : Nat]
    \cup [type : {"cancelRollback"}]

ASSUME SentAssumption == SentRequests \subseteq Requests
ASSUME RefusalAssumption == MaxRefused \in Nat

Responses == {r \in SentRequests : r.type = "respondToDecision"}
Envelopes ==
    {e \in [player : Player, id : ActionId, expected : 0 .. MaxSeq,
            req : SentRequests, answers : {0} \cup {r.decision : r \in Responses}] :
        e.req.type # "respondToDecision" => e.answers = 0}

NoRecord == [stored |-> FALSE]
Record(e, accepted, seq) ==
    [stored |-> TRUE, req |-> e.req, expected |-> e.expected,
     accepted |-> accepted, stateSeq |-> seq]
StoredRecord ==
    [stored : {TRUE}, req : Requests, expected : Nat, accepted : BOOLEAN,
     stateSeq : Nat]

AcceptedKeys == {k \in Key : stored[k].stored /\ stored[k].accepted}
RefusedKeys == {k \in Key : stored[k].stored /\ ~stored[k].accepted}

---------------------------------------------------------------------------
(* applyEnvelope, in the order of its checks                               *)

EnvelopeKey(e) == <<e.player, e.id>>

(* respondToDecision carries no expectedStateSeq of its own, so the hash   *)
(* of the other requests covers it and the hash of this one does not.      *)
SameHash(e, r) ==
    /\ e.req = r.req
    /\ e.req.type # "respondToDecision" => e.expected = r.expected

FaultyKnown(e) == LET r == stored[EnvelopeKey(e)] IN r.stored /\ r.accepted
Known(e) == stored[EnvelopeKey(e)].stored

FaultyStale(e) == FALSE
Stale(e) == e.expected < state.seq

AnswersPending(e) ==
    e.req.type = "respondToDecision" =>
        state.pending # NoDecision /\ e.answers = state.pending.id

Verdict(e) ==
    CASE Known(e) -> IF SameHash(e, stored[EnvelopeKey(e)])
                     THEN "storedResult" ELSE "idempotencyConflict"
      [] ~Known(e) /\ Stale(e) -> "staleState"
      [] ~Known(e) /\ e.expected > state.seq -> "futureState"
      [] OTHER -> IF AnswersPending(e)
                  THEN "apply" ELSE "pendingDecisionMismatch"

(* applyRequest: the calls of LocalMatch a request may turn into.  The     *)
(* answers to a rollback consent are listed among the executable actions.  *)
Chooses(p, choice) ==
    \/ choice = "play" /\ EngineMove(p)
    \/ choice = "advance" /\ AdvancePhase(p)
    \/ choice = "concede" /\ ConcedeMove(p)
    \/ choice = "allow" /\ AllowRollback(p)
    \/ choice = "deny" /\ DenyRollback(p)

Applies(e) ==
    \/ e.req.type = "submitAction" /\ Chooses(e.player, e.req.choice)
    \/ e.req.type = "respondToDecision" /\ e.req.decision = state.pending.id
       /\ Chooses(e.player, e.req.choice)
    \/ e.req.type = "requestRollback" /\ RequestRollback(e.player, e.req.point)
    \/ e.req.type = "cancelRollback" /\ CancelRollback(e.player)

(* The errors of the local match: not offered, not this player's (whose    *)
(* turn it is is not kept), or an engine error, which an engine move may   *)
(* always meet.                                                            *)
RefusesChoice(p, choice) ==
    \/ choice \in {"play", "advance"}
    \/ choice = "concede" /\ state.status # "active"
    \/ choice \in {"allow", "deny"} /\ ~CanResolve(p)

Refuses(e) ==
    \/ e.req.type = "submitAction" /\ RefusesChoice(e.player, e.req.choice)
    \/ e.req.type = "respondToDecision"
       /\ (e.req.decision # state.pending.id \/ RefusesChoice(e.player, e.req.choice))
    \/ e.req.type = "requestRollback" /\ ~CanRequest(e.player, e.req.point)
    \/ e.req.type = "cancelRollback" /\ ~CanCancel(e.player)

(* storeRecord: an applied request is stored whether it was accepted or    *)
(* refused, with the stateSeq its result reports; the verdicts above are   *)
(* not.                                                                    *)
StoreRecord(e, accepted) ==
    stored' = [stored EXCEPT ![EnvelopeKey(e)] = Record(e, accepted, state'.seq)]

Accept(e) ==
    /\ Verdict(e) = "apply"
    /\ Applies(e)
    /\ StoreRecord(e, TRUE)

Refuse(e) ==
    /\ Verdict(e) = "apply"
    /\ Cardinality(RefusedKeys) < MaxRefused
    /\ Refuses(e)
    /\ UNCHANGED localVars
    /\ StoreRecord(e, FALSE)

ApplyEnvelope(e) == Accept(e) \/ Refuse(e)

(* Any other verdict is an answer that leaves everything as it is: one     *)
(* step stands for all the envelopes that are turned away.                 *)
TurnAway ==
    /\ ~ \A e \in Envelopes : Verdict(e) = "apply"
    /\ UNCHANGED sessionVars

TimerStep ==
    /\ \E t \in Timers :
          TimersAdvance(t) \/ \E loser \in Player : TimerExpiry(t, loser)
    /\ UNCHANGED stored

---------------------------------------------------------------------------
SessionInit == LocalInit /\ stored = [k \in Key |-> NoRecord]

SessionNext == TimerStep \/ TurnAway \/ \E e \in Envelopes : ApplyEnvelope(e)

SessionSpec == SessionInit /\ [][SessionNext]_sessionVars

---------------------------------------------------------------------------
(* Properties                                                              *)

\* The match and the idempotency map stay within their types.
SessionTypeOK == TypeOK /\ stored \in [Key -> {NoRecord} \cup StoredRecord]

\* Two clients racing on the same version of the match cannot both move it
\* on, and no client action is applied to a version it was not sent for: each
\* accepted action took the match from the version it expected to the one its
\* result reports, and these spans never overlap, also when a rollback has
\* brought an old board back.  An action that changes nothing (AdvancePhase)
\* has an empty span, and any number of them may share a version.
VersionsLeftOnce ==
    /\ \A k \in AcceptedKeys :
          stored[k].expected <= stored[k].stateSeq /\ stored[k].stateSeq <= state.seq
    /\ \A j, k \in AcceptedKeys :
          \/ j = k
          \/ stored[j].stateSeq <= stored[k].expected
          \/ stored[k].stateSeq <= stored[j].expected

(* Every part of a match that an answer of the session can show, the clocks *)
(* apart.                                                                   *)
Shown == <<state.status, state.winner, state.board, state.pending, state.holders,
           points, request>>

\* The promise to a client that resends (specs/07-match-server-protocol.md,
\* "Idempotency behavior"): its action took effect at most once, whatever
\* was accepted, refused, rolled back or timed out in between, the answer it
\* was given stands, and whatever the action changed is under a new version,
\* the one the answer reports.
IsAccepted(r) == r.accepted
StateSeq(r) == r.stateSeq
Promise == INSTANCE AtMostOnce WITH
    Result <- StoredRecord, NoResult <- NoRecord, Accepted <- IsAccepted,
    Reported <- StateSeq, version <- state.seq, match <- Shown, result <- stored
AtMostOncePromise == Promise!Spec
===========================================================================
