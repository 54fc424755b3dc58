------------------------ MODULE MatchSessionProofs ------------------------
(* Proofs about MatchSession: behind the session runtime the match is the  *)
(* match of LocalMatch, and in front of it every client action takes       *)
(* effect at most once.                                                    *)
EXTENDS MatchSession, LocalMatchProofs

\* The inductive invariant of the session.
SessionInv == IInv /\ SessionTypeOK /\ VersionsLeftOnce

\* What an envelope contributes to the idempotency map.
LEMMA EnvelopeTyped ==
  ASSUME NEW e \in Envelopes, NEW accepted \in BOOLEAN, NEW seq \in Nat
  PROVE  /\ EnvelopeKey(e) \in Key /\ e.player \in Player
         /\ Record(e, accepted, seq) \in StoredRecord
         /\ Record(e, accepted, seq).stored = TRUE
         /\ Record(e, accepted, seq).expected = e.expected
         /\ Record(e, accepted, seq).accepted = accepted
         /\ Record(e, accepted, seq).stateSeq = seq
<1>1. e.player \in Player /\ e.id \in ActionId /\ e.req \in Requests
  BY SentAssumption DEF Envelopes
<1>2. e.expected \in Nat
  BY SeqAssumption DEF Envelopes
<1>3. QED
  BY <1>1, <1>2 DEF EnvelopeKey, Key, Record, StoredRecord

\* An envelope that is applied is new and was sent for the current version.
LEMMA AppliedIsCurrent ==
  ASSUME IInv, NEW e \in Envelopes, Verdict(e) = "apply"
  PROVE  ~Known(e) /\ e.expected = state.seq
<1>1. state.seq \in Nat /\ e.expected \in Nat
  BY SeqAssumption DEF IInv, TypeOK, GameState, Envelopes
<1>2. ~Known(e) /\ ~Stale(e) /\ ~(e.expected > state.seq)
  BY DEF Verdict
<1>3. QED
  BY <1>1, <1>2 DEF Stale

\* What an accepted envelope does to the match is a call of its player.
LEMMA AppliesIsCall ==
  ASSUME NEW e \in Envelopes, Applies(e)
  PROVE  LocalCall(e.player)
<1>1. CASE \E choice : Chooses(e.player, choice)
  BY <1>1 DEF Chooses, LocalCall
<1>2. CASE RequestRollback(e.player, e.req.point)
  BY <1>2 DEF RequestRollback, CanRequest, LocalCall
<1>3. CASE CancelRollback(e.player)
  BY <1>3 DEF LocalCall
<1>4. QED
  BY <1>1, <1>2, <1>3 DEF Applies

\* Every step of the session is a step of the match or leaves it alone.
LEMMA SessionStep ==
  ASSUME [SessionNext]_sessionVars
  PROVE  [LocalNext]_localVars
<1>1. ASSUME NEW e \in Envelopes, Accept(e) PROVE LocalNext
  <2>1. e.player \in Player
    BY DEF Envelopes
  <2>2. QED
    BY <1>1, <2>1, AppliesIsCall DEF Accept, LocalNext
<1>2. (\E e \in Envelopes : Refuse(e)) \/ TurnAway => UNCHANGED localVars
  BY DEF Refuse, TurnAway, sessionVars, localVars
<1>3. CASE TimerStep
  BY <1>3 DEF TimerStep, LocalNext
<1>4. CASE UNCHANGED sessionVars
  BY <1>4 DEF sessionVars, localVars
<1>5. QED
  BY <1>1, <1>2, <1>3, <1>4 DEF SessionNext, ApplyEnvelope

\* The match behind the session runtime is a match: envelopes and retries
\* make it do nothing that the local match does not do by itself.
THEOREM SessionImplementsMatch == SessionSpec => LocalSpec
<1>1. SessionInit => LocalInit
  BY DEF SessionInit
<1>2. [SessionNext]_sessionVars => [LocalNext]_localVars
  BY SessionStep
<1>3. QED
  BY <1>1, <1>2, PTL DEF SessionSpec, LocalSpec

---------------------------------------------------------------------------
(* At most once                                                            *)

\* Recording an envelope for the first time changes its own key only.
LEMMA StoreTyped ==
  ASSUME SessionTypeOK, NEW e \in Envelopes, ~Known(e),
         NEW accepted \in BOOLEAN, StoreRecord(e, accepted), state'.seq \in Nat
  PROVE  /\ stored' \in [Key -> {NoRecord} \cup StoredRecord]
         /\ stored[EnvelopeKey(e)] = NoRecord
         /\ stored'[EnvelopeKey(e)] = Record(e, accepted, state'.seq)
         /\ \A k \in Key \ {EnvelopeKey(e)} : stored'[k] = stored[k]
<1>1. EnvelopeKey(e) \in Key /\ Record(e, accepted, state'.seq) \in StoredRecord
  BY EnvelopeTyped
<1>2. stored \in [Key -> {NoRecord} \cup StoredRecord]
  BY DEF SessionTypeOK
<1>3. stored[EnvelopeKey(e)] = NoRecord
  BY <1>1, <1>2 DEF Known, StoredRecord
<1>4. QED
  BY <1>1, <1>2, <1>3 DEF StoreRecord

\* An accepted key has a record with its versions.
LEMMA AcceptedTyped ==
  ASSUME SessionTypeOK, NEW k \in AcceptedKeys
  PROVE  stored[k].expected \in Nat /\ stored[k].stateSeq \in Nat
<1>1. stored[k] \in StoredRecord
  BY DEF AcceptedKeys, SessionTypeOK, NoRecord
<1>2. QED
  BY <1>1 DEF StoredRecord

\* A step of the match raises the seq or changes nothing that is shown.
LEMMA ShownStep ==
  ASSUME IInv, [LocalNext]_localVars
  PROVE  IInv' /\ (state'.seq > state.seq \/ (state'.seq = state.seq /\ Shown' = Shown))
<1>1. IInv' /\ state \in GameState
  BY StepInductive DEF IInv, TypeOK
<1>2. CASE \E p \in Player : LocalCall(p)
  <2>1. state'.seq > state.seq \/ UNCHANGED localVars
    BY <1>2, CallInductive
  <2>2. QED
    BY <1>1, <2>1 DEF localVars, Shown
<1>3. CASE \E t \in Timers : TimersAdvance(t)
  BY <1>1, <1>3 DEF TimersAdvance, WithTimers, GameState, Shown
<1>4. CASE \E t \in Timers, loser \in Player : TimerExpiry(t, loser)
  <2>1. state'.seq > state.seq
    BY <1>4, TimerExpiryInductive
  <2>2. QED
    BY <1>1, <2>1 DEF Shown
<1>5. CASE UNCHANGED localVars
  BY <1>1, <1>5 DEF localVars, Shown
<1>6. QED
  BY <1>2, <1>3, <1>4, <1>5 DEF LocalNext

\* An accepted request decides its key; it moves the match on or finds
\* nothing to do.
LEMMA AcceptInductive ==
  ASSUME SessionInv, NEW e \in Envelopes, Accept(e)
  PROVE  SessionInv' /\ Promise!Decide(EnvelopeKey(e))
<1> DEFINE k0 == EnvelopeKey(e)
<1>1. ~Known(e) /\ e.expected = state.seq
  BY AppliedIsCurrent DEF SessionInv, Accept
<1>2. e.player \in Player /\ k0 \in Key
  BY EnvelopeTyped
<1>3. IInv' /\ (state'.seq > state.seq \/ (state'.seq = state.seq /\ Shown' = Shown))
  BY <1>2, AppliesIsCall, ShownStep DEF SessionInv, Accept, LocalNext
<1>6. state.seq \in Nat /\ state'.seq \in Nat
  BY <1>3 DEF SessionInv, IInv, TypeOK, GameState
<1>4. /\ stored' \in [Key -> {NoRecord} \cup StoredRecord]
      /\ stored[k0] = NoRecord /\ stored'[k0] = Record(e, TRUE, state'.seq)
      /\ \A k \in Key \ {k0} : stored'[k] = stored[k]
  BY <1>1, <1>6, StoreTyped DEF SessionInv, Accept
<1>5. /\ stored'[k0].stored = TRUE /\ stored'[k0].accepted = TRUE
      /\ stored'[k0].expected = state.seq /\ stored'[k0].stateSeq = state'.seq
      /\ stored'[k0] \in StoredRecord
  <2> DEFINE r == Record(e, TRUE, state'.seq)
  <2>1. /\ r.stored = TRUE /\ r.accepted = TRUE /\ r.expected = e.expected
        /\ r.stateSeq = state'.seq /\ r \in StoredRecord
    BY <1>6, EnvelopeTyped
  <2> HIDE DEF r
  <2>2. stored'[k0] = r
    BY <1>4 DEF r
  <2>3. QED
    BY <1>1, <2>1, <2>2
<1>7. stored'[k0] # NoRecord
  BY <1>5 DEF NoRecord
<1> HIDE DEF k0
<1>8. \A k \in AcceptedKeys' \ {k0} :
        k \in AcceptedKeys /\ stored'[k] = stored[k]
        /\ stored[k].expected <= stored[k].stateSeq /\ stored[k].stateSeq <= state.seq
        /\ stored[k].expected \in Nat /\ stored[k].stateSeq \in Nat
  <2>1. \A k \in AcceptedKeys' \ {k0} : k \in AcceptedKeys /\ stored'[k] = stored[k]
    BY <1>4 DEF AcceptedKeys
  <2>2. QED
    BY <2>1, AcceptedTyped DEF SessionInv, VersionsLeftOnce
<1>9. VersionsLeftOnce'
  <2>1. \A k \in AcceptedKeys' : stored'[k].expected <= stored'[k].stateSeq
                                 /\ stored'[k].stateSeq <= state'.seq
    BY <1>3, <1>5, <1>6, <1>8
  <2>2. \A j, k \in AcceptedKeys' :
          \/ j = k
          \/ stored'[j].stateSeq <= stored'[k].expected
          \/ stored'[k].stateSeq <= stored'[j].expected
    <3>1. ASSUME NEW j \in AcceptedKeys' \ {k0}, NEW k \in AcceptedKeys' \ {k0}
          PROVE  \/ j = k
                 \/ stored'[j].stateSeq <= stored'[k].expected
                 \/ stored'[k].stateSeq <= stored'[j].expected
      BY <1>8, <3>1 DEF SessionInv, VersionsLeftOnce
    <3>2. \A k \in AcceptedKeys' \ {k0} :
            stored'[k].stateSeq <= stored'[k0].expected
      BY <1>5, <1>6, <1>8
    <3>3. QED
      BY <3>1, <3>2
  <2>3. QED
    BY <2>1, <2>2 DEF VersionsLeftOnce
<1>10. SessionTypeOK'
  BY <1>3, <1>4 DEF SessionTypeOK, IInv
<1>11. Promise!Decide(k0)
  <2>1. state'.seq >= state.seq /\ (state'.seq = state.seq => Shown' = Shown)
    BY <1>3, <1>6
  <2>2. IsAccepted(stored'[k0]) /\ StateSeq(stored'[k0]) = state'.seq
    BY <1>5 DEF IsAccepted, StateSeq
  <2>3. QED
    BY <1>4, <1>6, <1>7, <2>1, <2>2 DEF Promise!Decide
<1>12. QED
  BY <1>3, <1>9, <1>10, <1>11 DEF SessionInv, k0

\* A refused request decides its key and leaves the match alone.
LEMMA RefuseInductive ==
  ASSUME SessionInv, NEW e \in Envelopes, Refuse(e)
  PROVE  SessionInv' /\ Promise!Decide(EnvelopeKey(e))
<1> DEFINE k0 == EnvelopeKey(e)
<1>1. ~Known(e)
  BY AppliedIsCurrent DEF SessionInv, Refuse
<1>2. k0 \in Key
  BY EnvelopeTyped
<1>3. UNCHANGED localVars
  BY DEF Refuse
<1>4. IInv' /\ state' = state /\ Shown' = Shown /\ state.seq \in Nat
  BY <1>3, StepInductive DEF SessionInv, localVars, Shown, IInv, TypeOK, GameState
<1>5. /\ stored' \in [Key -> {NoRecord} \cup StoredRecord]
      /\ stored[k0] = NoRecord /\ stored'[k0] = Record(e, FALSE, state.seq)
      /\ \A k \in Key \ {k0} : stored'[k] = stored[k]
  BY <1>1, <1>4, StoreTyped DEF SessionInv, Refuse
<1>6. /\ stored'[k0].stored = TRUE /\ stored'[k0].accepted = FALSE
      /\ stored'[k0].stateSeq = state.seq
      /\ stored'[k0] \in StoredRecord
  <2> DEFINE r == Record(e, FALSE, state.seq)
  <2>1. /\ r.stored = TRUE /\ r.accepted = FALSE
        /\ r.stateSeq = state.seq /\ r \in StoredRecord
    BY <1>4, EnvelopeTyped
  <2> HIDE DEF r
  <2>2. stored'[k0] = r
    BY <1>5 DEF r
  <2>3. QED
    BY <2>1, <2>2
<1>7. stored'[k0] # NoRecord
  BY <1>6 DEF NoRecord
<1> HIDE DEF k0
<1>8. \A k \in AcceptedKeys' : k \in AcceptedKeys /\ stored'[k] = stored[k]
  BY <1>5, <1>6 DEF AcceptedKeys
<1>9. VersionsLeftOnce'
  BY <1>4, <1>8 DEF SessionInv, VersionsLeftOnce
<1>10. SessionTypeOK'
  BY <1>4, <1>5 DEF SessionTypeOK, IInv
<1>11. Promise!Decide(k0)
  <2>1. state'.seq = state.seq /\ state'.seq >= state.seq /\ state'.seq \in Nat
    BY <1>4
  <2>2. ~IsAccepted(stored'[k0]) /\ StateSeq(stored'[k0]) = state'.seq
    BY <1>6, <2>1 DEF IsAccepted, StateSeq
  <2>3. QED
    BY <1>4, <1>5, <1>7, <2>1, <2>2 DEF Promise!Decide
<1>12. QED
  BY <1>4, <1>9, <1>10, <1>11 DEF SessionInv, k0

\* Any other step keeps the map; if it changes what is shown, a timer
\* expired.
LEMMA QuietInductive ==
  ASSUME SessionInv, [LocalNext]_localVars, stored' = stored
  PROVE  SessionInv' /\ [Promise!Expire]_<<state.seq, Shown, stored>>
<1>1. IInv' /\ (state'.seq > state.seq \/ (state'.seq = state.seq /\ Shown' = Shown))
  BY ShownStep DEF SessionInv
<1>2. state.seq \in Nat /\ state'.seq \in Nat
  BY <1>1 DEF SessionInv, IInv, TypeOK, GameState
<1>3. SessionTypeOK'
  BY <1>1 DEF SessionInv, SessionTypeOK, IInv
<1>4. \A k \in AcceptedKeys : stored[k].expected \in Nat /\ stored[k].stateSeq \in Nat
  BY AcceptedTyped DEF SessionInv
<1>5. AcceptedKeys' = AcceptedKeys
  BY DEF AcceptedKeys
<1>6. VersionsLeftOnce'
  BY <1>1, <1>2, <1>4, <1>5 DEF SessionInv, VersionsLeftOnce
<1>7. [Promise!Expire]_<<state.seq, Shown, stored>>
  BY <1>1, <1>2 DEF Promise!Expire
<1>8. QED
  BY <1>1, <1>3, <1>6, <1>7 DEF SessionInv

\* Every step keeps the invariant and is one of AtMostOnce.
LEMMA SessionInductive ==
  ASSUME SessionInv, [SessionNext]_sessionVars
  PROVE  SessionInv' /\ [Promise!Next]_(Promise!vars)
<1>1. [LocalNext]_localVars
  BY SessionStep
<1>2. ASSUME NEW e \in Envelopes, Accept(e) \/ Refuse(e)
      PROVE  SessionInv' /\ Promise!Next
  BY <1>2, AcceptInductive, RefuseInductive, EnvelopeTyped DEF Promise!Next
<1>3. CASE stored' = stored
  BY <1>1, <1>3, QuietInductive DEF Promise!Next, Promise!vars
<1>4. TimerStep \/ UNCHANGED sessionVars => stored' = stored
  BY DEF TimerStep, sessionVars
<1>5. TurnAway => stored' = stored
  BY DEF TurnAway, sessionVars
<1>6. QED
  BY <1>2, <1>3, <1>4, <1>5 DEF SessionNext, ApplyEnvelope

\* A new session satisfies the invariant and starts AtMostOnce.
LEMMA SessionStart == SessionInit => SessionInv /\ Promise!Init
<1> SUFFICES ASSUME SessionInit PROVE SessionInv /\ Promise!Init
  OBVIOUS
<1>1. IInv
  BY InitInductive DEF SessionInit
<1>2. stored = [k \in Key |-> NoRecord]
  BY DEF SessionInit
<1>3. AcceptedKeys = {}
  BY <1>2 DEF AcceptedKeys, NoRecord
<1>4. QED
  BY <1>1, <1>2, <1>3 DEF SessionInv, SessionTypeOK, VersionsLeftOnce, IInv,
     TypeOK, GameState, Promise!Init

\* The session and its idempotency map stay within their types.
THEOREM SessionTypes == SessionSpec => []SessionTypeOK
<1>1. SessionInv => SessionTypeOK
  BY DEF SessionInv
<1>2. SessionInv /\ [SessionNext]_sessionVars => SessionInv'
  BY SessionInductive
<1>3. QED
  BY <1>1, <1>2, SessionStart, PTL DEF SessionSpec

\* A version of the match is left by at most one client action, sent for that
\* version, also when rollbacks bring old boards back.
THEOREM VersionsAreLeftOnce == SessionSpec => []VersionsLeftOnce
<1>1. SessionInv => VersionsLeftOnce
  BY DEF SessionInv
<1>2. SessionInv /\ [SessionNext]_sessionVars => SessionInv'
  BY SessionInductive
<1>3. QED
  BY <1>1, <1>2, SessionStart, PTL DEF SessionSpec

\* The session implements AtMostOnce: whatever is resent, late or raced, a
\* client action takes effect at most once, its result never changes, and
\* what it changed is under the version that the result reports.
THEOREM SessionKeepsPromise == SessionSpec => AtMostOncePromise
<1>1. SessionInv /\ [SessionNext]_sessionVars
        => SessionInv' /\ [Promise!Next]_(Promise!vars)
  BY SessionInductive
<1>2. QED
  BY <1>1, SessionStart, PTL DEF SessionSpec, AtMostOncePromise, Promise!Spec
===========================================================================
