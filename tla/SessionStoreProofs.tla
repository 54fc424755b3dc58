------------------------ MODULE SessionStoreProofs ------------------------
(* Proofs about SessionStore: servers recover a match one at a time, and   *)
(* the store keeps the promise of DurableLog.                              *)
EXTENDS SessionStore, TLAPS

USE DEF Idle, Flush, Save, AtRest

---------------------------------------------------------------------------
(* Sequences as the sets of their members                                  *)

LEMMA AppendSet ==
  ASSUME NEW S, NEW s \in Seq(S), NEW x \in S
  PROVE  /\ Append(s, x) \in Seq(S) /\ Append(s, x) # <<>>
         /\ ToSet(Append(s, x)) = ToSet(s) \cup {x}
         /\ s # <<>> => Head(Append(s, x)) = Head(s)
<1>1. /\ Append(s, x) \in Seq(S) /\ Len(Append(s, x)) = Len(s) + 1
      /\ \A i \in 1 .. Len(s) : Append(s, x)[i] = s[i]
      /\ Append(s, x)[Len(s) + 1] = x
  OBVIOUS
<1>2. ToSet(Append(s, x)) = ToSet(s) \cup {x}
  BY <1>1 DEF ToSet
<1>3. Append(s, x) # <<>>
  BY <1>1
<1>4. s # <<>> => Head(Append(s, x)) = Head(s)
  <2>1. s # <<>> => Len(s) >= 1 /\ Head(s) = s[1]
    OBVIOUS
  <2>2. Head(Append(s, x)) = Append(s, x)[1]
    BY <1>1
  <2>3. QED
    BY <1>1, <2>1, <2>2
<1>5. QED
  BY <1>1, <1>2, <1>3, <1>4

LEMMA ConcatSet ==
  ASSUME NEW S, NEW s \in Seq(S), NEW t \in Seq(S)
  PROVE  s \o t \in Seq(S) /\ ToSet(s \o t) = ToSet(s) \cup ToSet(t)
<1>1. /\ s \o t \in Seq(S) /\ Len(s \o t) = Len(s) + Len(t)
      /\ \A i \in 1 .. Len(s) : (s \o t)[i] = s[i]
      /\ \A i \in 1 .. Len(t) : (s \o t)[Len(s) + i] = t[i]
  OBVIOUS
<1>2. \A i \in 1 .. Len(s \o t) :
         i \in 1 .. Len(s) \/ \E j \in 1 .. Len(t) : i = Len(s) + j
  <2>1. ASSUME NEW i \in 1 .. Len(s \o t), i > Len(s)
        PROVE  i - Len(s) \in 1 .. Len(t) /\ i = Len(s) + (i - Len(s))
    BY <1>1, <2>1
  <2>2. QED
    BY <1>1, <2>1
<1>3. ToSet(s \o t) \subseteq ToSet(s) \cup ToSet(t)
  BY <1>1, <1>2 DEF ToSet
<1>4. ToSet(s) \cup ToSet(t) \subseteq ToSet(s \o t)
  <2>1. \A i \in 1 .. Len(s) : i \in 1 .. Len(s \o t)
    BY <1>1
  <2>2. \A i \in 1 .. Len(t) : Len(s) + i \in 1 .. Len(s \o t)
    BY <1>1
  <2>3. /\ DOMAIN s = 1 .. Len(s) /\ DOMAIN t = 1 .. Len(t)
        /\ DOMAIN (s \o t) = 1 .. Len(s \o t)
    BY <1>1
  <2>4. ToSet(s) \subseteq ToSet(s \o t)
    BY <1>1, <2>1, <2>3 DEF ToSet
  <2>5. ToSet(t) \subseteq ToSet(s \o t)
    BY <1>1, <2>2, <2>3 DEF ToSet
  <2>6. QED
    BY <2>4, <2>5
<1>5. QED
  BY <1>1, <1>3, <1>4

LEMMA TailSet ==
  ASSUME NEW S, NEW s \in Seq(S), s # <<>>
  PROVE  /\ Tail(s) \in Seq(S) /\ Head(s) \in S
         /\ ToSet(s) = ToSet(Tail(s)) \cup {Head(s)}
<1>1. /\ Tail(s) \in Seq(S) /\ Len(s) \in Nat /\ Len(s) >= 1 /\ Len(Tail(s)) = Len(s) - 1
      /\ Head(s) = s[1] /\ Head(s) \in S
      /\ \A i \in 1 .. Len(Tail(s)) : Tail(s)[i] = s[i + 1]
  OBVIOUS
<1>2. ASSUME NEW i \in 1 .. Len(s) PROVE s[i] \in ToSet(Tail(s)) \cup {Head(s)}
  <2>1. CASE i = 1
    <3>1. s[i] = Head(s)
      BY <1>1, <2>1
    <3>2. QED
      BY <3>1
  <2>2. CASE i > 1
    <3>1. i - 1 \in 1 .. Len(Tail(s)) /\ Tail(s)[i - 1] = s[i]
      BY <1>1, <2>2
    <3>2. DOMAIN Tail(s) = 1 .. Len(Tail(s))
      BY <1>1
    <3>3. Tail(s)[i - 1] \in ToSet(Tail(s))
      BY <3>1, <3>2 DEF ToSet
    <3>4. QED
      BY <3>1, <3>3
  <2>3. i = 1 \/ i > 1
    BY <1>1
  <2>4. QED
    BY <2>1, <2>2, <2>3
<1>3. \A i \in 1 .. Len(Tail(s)) : Tail(s)[i] \in ToSet(s)
  <2>1. \A i \in 1 .. Len(Tail(s)) : i + 1 \in 1 .. Len(s)
    BY <1>1
  <2>2. QED
    BY <1>1, <2>1 DEF ToSet
<1>4. Head(s) \in ToSet(s)
  BY <1>1 DEF ToSet
<1>5. QED
  BY <1>1, <1>2, <1>3, <1>4 DEF ToSet

LEMMA EmptySet == ToSet(<<>>) = {}
BY DEF ToSet

---------------------------------------------------------------------------
(* Servers recover one at a time                                           *)

StageOK ==
  /\ lock \in Server \cup {NoServer}
  /\ recovery \in [Server -> {AtRest} \cup Work]
  /\ lapsed \in BOOLEAN
  /\ OneRecoverer

LEMMA RecoveryRecord ==
  ASSUME NEW w \in Work, NEW stage \in Stages, NEW owed \in SUBSET Request
  PROVE  /\ [w EXCEPT !.at = stage] \in Work
         /\ [w EXCEPT !.at = stage].at = stage
         /\ [w EXCEPT !.at = stage].owed = w.owed
         /\ [w EXCEPT !.at = stage, !.owed = owed] \in Work
         /\ [w EXCEPT !.at = stage, !.owed = owed].at = stage
         /\ [w EXCEPT !.at = stage, !.owed = owed].owed = owed
BY DEF Work

\* A server at work has a record of its work.
LEMMA AtWork ==
  ASSUME recovery \in [Server -> {AtRest} \cup Work], NEW s \in Server, ~At(s, "rest")
  PROVE  recovery[s] \in Work
BY DEF At, Work

\* Moving one server to another stage.
LEMMA GoOK ==
  ASSUME recovery \in [Server -> {AtRest} \cup Work], NEW s \in Server,
         ~At(s, "rest"), NEW stage \in Stages, Go(s, stage)
  PROVE  /\ recovery' \in [Server -> {AtRest} \cup Work]
         /\ recovery'[s].at = stage /\ recovery'[s].owed = recovery[s].owed
         /\ \A t \in Server : t # s => recovery'[t] = recovery[t]
<1>1. recovery' = [recovery EXCEPT ![s] = [recovery[s] EXCEPT !.at = stage]]
  BY DEF Go
<1>2. recovery[s] \in Work
  BY AtWork
<1>3. QED
  BY <1>1, <1>2, RecoveryRecord

LEMMA LeaveOK ==
  ASSUME recovery \in [Server -> {AtRest} \cup Work], NEW s \in Server, Leave(s)
  PROVE  /\ recovery' \in [Server -> {AtRest} \cup Work]
         /\ recovery'[s] = AtRest
         /\ \A t \in Server : t # s => recovery'[t] = recovery[t]
BY DEF Leave

LEMMA ReadsOK ==
  ASSUME recovery \in [Server -> {AtRest} \cup Work], NEW s \in Server,
         ~At(s, "rest"), NEW stage \in Stages, NEW found, Reads(s, stage, found)
  PROVE  /\ recovery' \in [Server -> {AtRest} \cup Work]
         /\ recovery'[s].at = stage /\ recovery'[s].owed = recovery[s].owed \ found
         /\ \A t \in Server : t # s => recovery'[t] = recovery[t]
<1>1. recovery[s] \in Work
  BY AtWork
<1>2. recovery[s].owed \ found \in SUBSET Request
  BY <1>1 DEF Work
<1>3. recovery' = [recovery EXCEPT
          ![s] = [recovery[s] EXCEPT !.at = stage, !.owed = recovery[s].owed \ found]]
  BY DEF Reads
<1>4. recovery'[s] = [recovery[s] EXCEPT !.at = stage, !.owed = recovery[s].owed \ found]
  BY <1>3
<1>5. /\ recovery'[s] \in Work /\ recovery'[s].at = stage
      /\ recovery'[s].owed = recovery[s].owed \ found
  BY <1>1, <1>2, <1>4 DEF Work
<1>6. \A t \in Server : t # s => recovery'[t] = recovery[t]
  BY <1>3
<1>7. QED
  BY <1>3, <1>5, <1>6

\* The session leaves the stages of the servers alone.
LEMMA SessionKeepsStages ==
  ASSUME recovery \in [Server -> {AtRest} \cup Work], SessionStep
  PROVE  /\ recovery' \in [Server -> {AtRest} \cup Work]
         /\ \A s \in Server : recovery'[s].at = recovery[s].at
         /\ lock' = lock /\ lapsed' = lapsed
<1>1. Excused \in [Server -> {AtRest} \cup Work]
      /\ \A s \in Server : Excused[s].at = recovery[s].at
  <2>1. ASSUME NEW s \in Server PROVE Excused[s] \in {AtRest} \cup Work /\ Excused[s].at = recovery[s].at
    <3>1. CASE recovery[s].at = "rest"
      BY <3>1 DEF Excused
    <3>2. CASE recovery[s].at # "rest"
      <4>1. recovery[s] \in Work
        BY <3>2, AtWork DEF At
      <4>2. [recovery[s] EXCEPT !.owed = {}] \in Work
            /\ [recovery[s] EXCEPT !.owed = {}].at = recovery[s].at
        BY <4>1 DEF Work
      <4>3. QED
        BY <3>2, <4>2 DEF Excused
    <3>3. QED
      BY <3>1, <3>2
  <2>2. QED
    BY <2>1 DEF Excused
<1>2. ASSUME NEW c \in Caller, Returns(c) \/ Fails(c)
      PROVE  (recovery' = recovery \/ recovery' = Excused) /\ UNCHANGED <<lock, lapsed>>
  BY <1>2 DEF Returns, Fails, Tears
<1>3. QED
  BY <1>1, <1>2
     DEF SessionStep, Accept, FlushPersistence, SaveSnapshot, Begin, Crash, recoveryVars

LEMMA RecoveryStepOK ==
  ASSUME StageOK, NEW s \in Server, RecoveryStep(s), store \in Stores, stateSeq \in 0 .. MaxAccepted
  PROVE  StageOK'
<1> USE NoServerAssumption DEF StageOK, OneRecoverer, Holding, At
<1>1. CASE Recover(s)
  <2>1. Durable \subseteq Request
    BY BoundAssumption DEF Durable, Kept, Logged, Stores, Request, InLog, ToSet
  <2>2. recovery' \in [Server -> {AtRest} \cup Work] /\ recovery'[s].at = "acquire"
        /\ \A t \in Server : t # s => recovery'[t] = recovery[t]
    BY <1>1, <2>1 DEF Recover, Work, Stages
  <2>3. QED
    BY <1>1, <2>2 DEF Recover
<1>2. CASE Acquire(s)
  <2>1. CASE lock = NoServer
    BY <1>2, <2>1, GoOK DEF Acquire, Stages
  <2>2. CASE lock # NoServer
    BY <1>2, <2>2, GoOK DEF Acquire, Stages
  <2>3. QED
    BY <2>1, <2>2
<1>3. CASE Inspect(s)
  <2>1. CASE lock = s
    BY <1>3, <2>1, GoOK DEF Inspect, Stages
  <2>2. CASE lock # s
    BY <1>3, <2>2, LeaveOK DEF Inspect
  <2>3. QED
    BY <2>1, <2>2
<1>4. CASE Renew(s)
  BY <1>4, GoOK DEF Renew, Stages
<1>5. CASE LoadSnapshot(s)
  <2>1. PICK stage \in {"freeze", "logs", "check"}, found \in SUBSET Nat :
           \/ At(s, "snapshot") /\ Reads(s, stage, found)
           \/ At(s, "logs") /\ Reads(s, stage, found)
    <3>1. Request \subseteq Nat /\ {r \in Request : r <= store.state} \subseteq Nat
      BY BoundAssumption DEF Request
    <3>2. InLog("action") \cup InLog("decision") \subseteq Nat
      BY BoundAssumption DEF InLog, Stores, ToSet, Request, Kind
    <3>3. QED
      BY <1>5, <3>1, <3>2 DEF LoadSnapshot
  <2>2. stage \in Stages /\ ~At(s, "rest") /\ Reads(s, stage, found)
    BY <2>1 DEF Stages
  <2>3. /\ recovery' \in [Server -> {AtRest} \cup Work]
        /\ \A t \in Server : t # s => recovery'[t] = recovery[t]
    BY <2>2, ReadsOK
  <2>4. lapsed' = lapsed /\ lock' = lock /\ (~lapsed => lock = s)
    BY <2>1, <2>2 DEF Reads
  <2>5. QED
    BY <2>3, <2>4
<1>6. CASE FreezeMatch(s) \/ RecoveryFails(s)
  BY <1>6, LeaveOK DEF FreezeMatch, RecoveryFails
<1>7. CASE CheckLock(s)
  <2>1. CASE lock = s
    BY <1>7, <2>1, GoOK DEF CheckLock, Stages
  <2>2. CASE lock # s
    BY <1>7, <2>2, LeaveOK DEF CheckLock
  <2>3. QED
    BY <2>1, <2>2
<1>8. CASE DeleteLock(s)
  BY <1>8, LeaveOK DEF DeleteLock
<1>9. QED
  BY <1>1, <1>2, <1>3, <1>4, <1>5, <1>6, <1>7, <1>8 DEF RecoveryStep

---------------------------------------------------------------------------
(* Types                                                                   *)

LEMMA CallOK ==
  ASSUME NEW call \in CallStates
  PROVE  /\ call.op \in {"idle", "flush", "save"}
         /\ call.op = "idle" <=> call = Idle
         /\ call.op = "flush" =>
              /\ call.kind \in Kind /\ call.head \in Request
              /\ call = Flush(call.kind, call.head)
         /\ call.op = "save" =>
              /\ call.age \in 0 .. MaxAccepted /\ call.next \in Command
              /\ call = Save(call.age, call.next)
<1>1. CASE call = Idle
  BY <1>1
<1>2. CASE \E k \in Kind, r \in Request : call = Flush(k, r)
  BY <1>2
<1>3. CASE \E a \in 0 .. MaxAccepted, n \in Command : call = Save(a, n)
  BY <1>3
<1>4. QED
  BY <1>1, <1>2, <1>3 DEF CallStates

LEMMA MadeCallOK ==
  /\ Idle \in CallStates
  /\ \A k \in Kind, r \in Request : Flush(k, r) \in CallStates
  /\ \A a \in 0 .. MaxAccepted, n \in Command : Save(a, n) \in CallStates
<1>1. Idle \in CallStates
  BY DEF CallStates
<1>2. ASSUME NEW k \in Kind, NEW r \in Request PROVE Flush(k, r) \in CallStates
  BY DEF CallStates
<1>3. ASSUME NEW a \in 0 .. MaxAccepted, NEW n \in Command PROVE Save(a, n) \in CallStates
  BY DEF CallStates
<1>4. QED
  BY <1>1, <1>2, <1>3

LEMMA CommandOK ==
  /\ Command = {"meta", "state", "manifest", "delAction", "delDecision",
                "pushAction", "pushDecision"}
  /\ \A n \in Command : Following[n] \in Command \cup {"end"}
  /\ Following["meta"] = "state" /\ Following["state"] = "manifest"
  /\ Following["manifest"] = "delAction" /\ Following["delAction"] = "delDecision"
  /\ Following["delDecision"] = "pushAction"
  /\ Following["pushAction"] = "pushDecision" /\ Following["pushDecision"] = "end"
BY DEF Command, Following

\* A flush goes on with the head of a queue, or is done.
LEMMA FlushFromOK ==
  ASSUME NEW k \in Kind, NEW queues \in [Kind -> Seq(Request)]
  PROVE  /\ FlushFrom(k, queues) \in CallStates
         /\ FlushFrom(k, queues).op \in {"idle", "flush"}
         /\ FlushFrom(k, queues).op = "flush" =>
              LET j == FlushFrom(k, queues).kind
              IN  queues[j] # <<>> /\ FlushFrom(k, queues).head = Head(queues[j])
<1>0. "action" \in Kind /\ "decision" \in Kind
  BY DEF Kind
<1>1. CASE k = "action" /\ queues["action"] # <<>>
  <2>1. Head(queues["action"]) \in Request
    BY <1>0, <1>1
  <2>2. QED
    BY <1>0, <1>1, <2>1, MadeCallOK DEF FlushFrom
<1>2. CASE ~(k = "action" /\ queues["action"] # <<>>) /\ queues["decision"] # <<>>
  <2>1. Head(queues["decision"]) \in Request
    BY <1>0, <1>2
  <2>2. QED
    BY <1>0, <1>2, <2>1, MadeCallOK DEF FlushFrom
<1>3. CASE ~(k = "action" /\ queues["action"] # <<>>) /\ queues["decision"] = <<>>
  BY <1>3, MadeCallOK DEF FlushFrom
<1>4. QED
  BY <1>1, <1>2, <1>3

\* What a command leaves in the store: its type, the state, and which
\* requests each log gains or loses.
LEMMA EffectOK ==
  ASSUME TypeOK, NEW call \in CallStates, call # Idle
  PROVE  LET e == Effect(call)
         IN  /\ e \in Stores
             /\ call.op = "flush" =>
                  /\ e.state = store.state
                  /\ ToSet(e.log[call.kind]) = InLog(call.kind) \cup {call.head}
                  /\ \A k \in Kind : k # call.kind => e.log[k] = store.log[k]
             /\ call.op = "save" =>
                  /\ e.state = IF call.next = "state" THEN call.age ELSE store.state
                  /\ \A k \in Kind : ToSet(e.log[k]) \subseteq InLog(k) \cup ToSet(accepted[k])
                  /\ call.next \notin {"pushAction", "pushDecision"} =>
                       \A k \in Kind : ToSet(e.log[k]) \subseteq InLog(k)
                  /\ call.next \notin {"delAction", "delDecision"} =>
                       \A k \in Kind : InLog(k) \subseteq ToSet(e.log[k])
<1> DEFINE e == Effect(call)
<1>0. /\ store \in Stores /\ accepted \in [Kind -> Seq(Request)]
      /\ store.log \in [Kind -> Seq(Request)]
      /\ "action" \in Kind /\ "decision" \in Kind
  BY DEF TypeOK, Stores, Kind
<1>1. CASE call.op = "flush"
  <2>1. call.kind \in Kind /\ call.head \in Request
    BY <1>1, CallOK
  <2>2. e = [store EXCEPT !.log[call.kind] = Append(store.log[call.kind], call.head)]
    BY <1>1 DEF Effect
  <2>3. e.log = [store.log EXCEPT ![call.kind] = Append(store.log[call.kind], call.head)]
        /\ e.state = store.state
    BY <1>0, <2>2 DEF Stores
  <2>4. /\ Append(store.log[call.kind], call.head) \in Seq(Request)
        /\ ToSet(Append(store.log[call.kind], call.head)) = InLog(call.kind) \cup {call.head}
    BY <1>0, <2>1, AppendSet DEF InLog
  <2>5. e.log \in [Kind -> Seq(Request)] /\ e \in Stores
    BY <1>0, <2>1, <2>2, <2>3, <2>4 DEF Stores
  <2>6. QED
    BY <1>0, <1>1, <2>1, <2>3, <2>4, <2>5
<1>2. CASE call.op = "save" /\ call.next \in {"meta", "manifest"}
  <2>1. \/ e = [store EXCEPT !.meta = TRUE]
        \/ e = [store EXCEPT !.manifest = TRUE]
    BY <1>2 DEF Effect, SaveEffect
  <2>2. e \in Stores /\ e.log = store.log /\ e.state = store.state
    BY <1>0, <2>1 DEF Stores
  <2>3. QED
    BY <1>2, <2>2 DEF InLog
<1>3. CASE call.op = "save" /\ call.next = "state"
  <2>1. e = [store EXCEPT !.state = call.age] /\ call.age \in 0 .. MaxAccepted
    BY <1>3, CallOK DEF Effect, SaveEffect
  <2>2. e \in Stores /\ e.log = store.log /\ e.state = call.age
    BY <1>0, <2>1 DEF Stores
  <2>3. QED
    BY <1>3, <2>2 DEF InLog
<1>4. CASE call.op = "save" /\ call.next \in {"delAction", "delDecision"}
  <2>1. PICK k \in Kind : e = [store EXCEPT !.log[k] = <<>>]
    BY <1>0, <1>4 DEF Effect, SaveEffect
  <2>2. e.log = [store.log EXCEPT ![k] = <<>>] /\ e.state = store.state
    BY <1>0, <2>1 DEF Stores
  <2>3. e.log \in [Kind -> Seq(Request)] /\ e \in Stores
    <3>1. <<>> \in Seq(Request)
      OBVIOUS
    <3>2. e.log \in [Kind -> Seq(Request)]
      BY <1>0, <2>2, <3>1
    <3>3. QED
      BY <1>0, <2>1, <2>2, <3>2 DEF Stores
  <2>4. \A j \in Kind : ToSet(e.log[j]) \subseteq InLog(j)
    BY <1>0, <2>2, EmptySet DEF InLog
  <2>5. QED
    BY <1>4, <2>2, <2>3, <2>4
<1>5. CASE call.op = "save" /\ call.next \in {"pushAction", "pushDecision"}
  <2>1. PICK k \in Kind : e = [store EXCEPT !.log[k] = store.log[k] \o accepted[k]]
    BY <1>0, <1>5 DEF Effect, SaveEffect
  <2>2. e.log = [store.log EXCEPT ![k] = store.log[k] \o accepted[k]]
        /\ e.state = store.state
    BY <1>0, <2>1 DEF Stores
  <2>3. /\ store.log[k] \o accepted[k] \in Seq(Request)
        /\ ToSet(store.log[k] \o accepted[k]) = InLog(k) \cup ToSet(accepted[k])
    BY <1>0, ConcatSet DEF InLog
  <2>4. e.log \in [Kind -> Seq(Request)] /\ e \in Stores
    BY <1>0, <2>1, <2>2, <2>3 DEF Stores
  <2>5. /\ \A j \in Kind : InLog(j) \subseteq ToSet(e.log[j])
        /\ \A j \in Kind : ToSet(e.log[j]) \subseteq InLog(j) \cup ToSet(accepted[j])
    BY <1>0, <2>2, <2>3 DEF InLog
  <2>6. QED
    BY <1>5, <2>2, <2>4, <2>5
<1>6. QED
  BY <1>1, <1>2, <1>3, <1>4, <1>5, CallOK, CommandOK

---------------------------------------------------------------------------
(* What is released is durable                                             *)

\* Everything that is written anywhere has been accepted.
Known ==
  /\ store.state <= stateSeq
  /\ \A k \in Kind :
        /\ ToSet(accepted[k]) \subseteq 1 .. stateSeq
        /\ ToSet(pending[k]) \subseteq 1 .. stateSeq
        /\ InLog(k) \subseteq 1 .. stateSeq
  /\ \A c \in Caller :
        /\ calls[c].op = "flush" => calls[c].head \in 1 .. stateSeq
        /\ calls[c].op = "save" => calls[c].age <= stateSeq

\* A call that nobody overlaps finds things as it left them: a flush the
\* head of its queue, a save only what its own state has seen.
Sole ==
  exclusive =>
     \A c, d \in Caller : calls[c] # Idle /\ calls[d] # Idle => c = d
InStepFor(call) ==
  /\ call.op = "flush" =>
        pending[call.kind] # <<>> /\ call.head = Head(pending[call.kind])
  /\ call.op = "save" =>
        /\ store.state <= call.age
        /\ call.next \notin {"pushAction", "pushDecision"} =>
             \A k \in Kind : InLog(k) \subseteq 1 .. call.age
        /\ call.next \notin {"meta", "state"} => store.state = call.age
InStep == exclusive => \A c \in Caller : InStepFor(calls[c])

(* A released request is in the stored state or in a log.                  *)
ReleasedIsKept == up /\ exclusive => Released \subseteq Kept

StoreInv == TypeOK /\ Known /\ Sole /\ InStep /\ ReleasedIsKept

\* The part of the types that the session can disturb.
SessionType ==
  /\ stateSeq \in 0 .. MaxAccepted
  /\ accepted \in [Kind -> Seq(Request)]
  /\ pending \in [Kind -> Seq(Request)]
  /\ calls \in [Caller -> CallStates]
  /\ up \in BOOLEAN /\ failures \in 0 .. MaxFailures
  /\ store \in Stores
  /\ exclusive \in BOOLEAN

SessionInv == SessionType /\ Known /\ Sole /\ InStep /\ ReleasedIsKept

LEMMA KeptMembers ==
  ASSUME TypeOK
  PROVE  \A r : r \in Kept <=>
            \/ r \in 1 .. stateSeq /\ r <= store.state
            \/ \E k \in Kind : r \in InLog(k)
BY DEF Kept, Logged

\* A command adds to the logs accepted requests only.
LEMMA EffectKnown ==
  ASSUME StoreInv, NEW c \in Caller, calls[c] # Idle
  PROVE  LET e == Effect(calls[c])
         IN  /\ e \in Stores /\ e.state <= stateSeq
             /\ \A k \in Kind : ToSet(e.log[k]) \subseteq 1 .. stateSeq
<1> DEFINE e == Effect(calls[c])
<1>1. /\ calls[c] \in CallStates /\ TypeOK
      /\ stateSeq \in Nat /\ store.state \in Int /\ store.state <= stateSeq
      /\ \A k \in Kind : InLog(k) \subseteq 1 .. stateSeq /\ ToSet(accepted[k]) \subseteq 1 .. stateSeq
  BY BoundAssumption DEF StoreInv, TypeOK, Known, Stores, NoState
<1>2. CASE calls[c].op = "flush"
  <2>1. calls[c].head \in 1 .. stateSeq /\ calls[c].kind \in Kind
    BY <1>1, <1>2, CallOK DEF StoreInv, Known
  <2>2. /\ e \in Stores /\ e.state = store.state
        /\ ToSet(e.log[calls[c].kind]) = InLog(calls[c].kind) \cup {calls[c].head}
        /\ \A k \in Kind : k # calls[c].kind => e.log[k] = store.log[k]
    BY <1>1, <1>2, EffectOK
  <2>3. ASSUME NEW k \in Kind PROVE ToSet(e.log[k]) \subseteq 1 .. stateSeq
    <3>1. CASE k = calls[c].kind
      BY <1>1, <2>1, <2>2, <3>1
    <3>2. CASE k # calls[c].kind
      BY <1>1, <2>2, <3>2 DEF InLog
    <3>3. QED
      BY <3>1, <3>2
  <2>4. QED
    BY <1>1, <2>2, <2>3
<1>3. CASE calls[c].op = "save"
  <2>1. calls[c].age <= stateSeq
    BY <1>3 DEF StoreInv, Known
  <2>2. /\ e \in Stores
        /\ e.state = IF calls[c].next = "state" THEN calls[c].age ELSE store.state
        /\ \A k \in Kind : ToSet(e.log[k]) \subseteq InLog(k) \cup ToSet(accepted[k])
    BY <1>1, <1>3, EffectOK
  <2>3. ASSUME NEW k \in Kind PROVE ToSet(e.log[k]) \subseteq 1 .. stateSeq
    BY <1>1, <2>2
  <2>4. e.state <= stateSeq
    BY <1>1, <2>1, <2>2
  <2>5. QED
    BY <2>2, <2>3, <2>4
<1>4. QED
  BY <1>1, <1>2, <1>3, CallOK

\* A command of a call that nobody overlaps loses nothing durable.
LEMMA EffectGrows ==
  ASSUME StoreInv, exclusive, NEW c \in Caller, calls[c] # Idle
  PROVE  LET e == Effect(calls[c])
         IN  \A r \in Kept :
               \/ r \in 1 .. stateSeq /\ r <= e.state
               \/ \E k \in Kind : r \in ToSet(e.log[k])
<1> DEFINE e == Effect(calls[c])
<1>1. /\ calls[c] \in CallStates /\ TypeOK /\ InStepFor(calls[c])
      /\ \A k \in Kind : InLog(k) \subseteq 1 .. stateSeq
      /\ stateSeq \in Nat /\ store.state \in Int
  BY BoundAssumption DEF StoreInv, TypeOK, InStep, Known, Stores, NoState
<1>2. CASE calls[c].op = "flush"
  <2>1. e.state = store.state /\ \A k \in Kind : InLog(k) \subseteq ToSet(e.log[k])
    BY <1>1, <1>2, EffectOK DEF InLog
  <2>2. QED
    BY <1>1, <2>1, KeptMembers
<1>3. CASE calls[c].op = "save"
  <2>1. calls[c].age \in Nat /\ store.state <= calls[c].age
    BY <1>1, <1>3, CallOK, BoundAssumption DEF InStepFor
  <2>2. CASE calls[c].next \notin {"delAction", "delDecision"}
    <3>1. store.state <= e.state /\ \A k \in Kind : InLog(k) \subseteq ToSet(e.log[k])
      BY <1>1, <1>3, <2>1, <2>2, EffectOK
    <3>2. e.state \in Int
      BY <1>1, <1>3, <2>1, EffectOK
    <3>3. QED
      BY <1>1, <3>1, <3>2, KeptMembers
  <2>3. CASE calls[c].next \in {"delAction", "delDecision"}
    <3>1. e.state = calls[c].age /\ store.state = calls[c].age
          /\ \A k \in Kind : InLog(k) \subseteq 1 .. calls[c].age
      BY <1>1, <1>3, <2>3, EffectOK DEF InStepFor
    <3>2. QED
      BY <1>1, <2>1, <3>1, KeptMembers
  <2>4. QED
    BY <2>2, <2>3
<1>4. QED
  BY <1>1, <1>2, <1>3, CallOK

LEMMA AcceptKeeps ==
  ASSUME StoreInv, Accept
  PROVE  SessionInv' /\ Kept' = Kept /\ Released' \subseteq Released
<1> USE DEF StoreInv, TypeOK, Accept
<1>0. /\ stateSeq \in Nat /\ stateSeq' = stateSeq + 1 /\ stateSeq' \in Request
      /\ stateSeq' \in 0 .. MaxAccepted
      /\ UNCHANGED <<calls, up, store, failures, exclusive>>
  BY BoundAssumption DEF Request
<1>1. KindOf[stateSeq'] \in Kind
  BY <1>0, KindAssumption
<1>2. /\ accepted' \in [Kind -> Seq(Request)] /\ pending' \in [Kind -> Seq(Request)]
      /\ \A k \in Kind :
            /\ ToSet(accepted'[k]) \subseteq ToSet(accepted[k]) \cup {stateSeq'}
            /\ ToSet(pending'[k]) \subseteq ToSet(pending[k]) \cup {stateSeq'}
            /\ ToSet(pending[k]) \subseteq ToSet(pending'[k])
            /\ pending[k] # <<>> => pending'[k] # <<>> /\ Head(pending'[k]) = Head(pending[k])
      /\ stateSeq' \in ToSet(pending'[KindOf[stateSeq']])
  <2> DEFINE j == KindOf[stateSeq']
             Longer(q) == Append(q, stateSeq')
  <2>1. /\ accepted' = [accepted EXCEPT ![j] = Longer(accepted[j])]
        /\ pending' = [pending EXCEPT ![j] = Longer(pending[j])]
    OBVIOUS
  <2>2. j \in Kind /\ accepted[j] \in Seq(Request) /\ pending[j] \in Seq(Request)
    BY <1>1
  <2>3. /\ Longer(accepted[j]) \in Seq(Request)
        /\ ToSet(Longer(accepted[j])) = ToSet(accepted[j]) \cup {stateSeq'}
    BY <1>0, <2>2, AppendSet
  <2>4. /\ Longer(pending[j]) \in Seq(Request) /\ Longer(pending[j]) # <<>>
        /\ ToSet(Longer(pending[j])) = ToSet(pending[j]) \cup {stateSeq'}
        /\ pending[j] # <<>> => Head(Longer(pending[j])) = Head(pending[j])
    BY <1>0, <2>2, AppendSet
  <2> HIDE DEF j, Longer
  <2>5. /\ accepted' \in [Kind -> Seq(Request)] /\ pending' \in [Kind -> Seq(Request)]
        /\ accepted'[j] = Longer(accepted[j]) /\ pending'[j] = Longer(pending[j])
        /\ \A k \in Kind : k # j => accepted'[k] = accepted[k] /\ pending'[k] = pending[k]
    <3>1. accepted \in [Kind -> Seq(Request)] /\ pending \in [Kind -> Seq(Request)]
      OBVIOUS
    <3>2. \A k \in Kind : accepted'[k] = IF k = j THEN Longer(accepted[j]) ELSE accepted[k]
      BY <2>1, <3>1
    <3>3. \A k \in Kind : pending'[k] = IF k = j THEN Longer(pending[j]) ELSE pending[k]
      BY <2>1, <3>1
    <3>4. accepted' \in [Kind -> Seq(Request)]
      BY <2>1, <2>2, <2>3, <3>1
    <3>5. pending' \in [Kind -> Seq(Request)]
      BY <2>1, <2>2, <2>4, <3>1
    <3>6. QED
      BY <2>2, <3>2, <3>3, <3>4, <3>5
  <2>6. ASSUME NEW k \in Kind
        PROVE  /\ ToSet(accepted'[k]) \subseteq ToSet(accepted[k]) \cup {stateSeq'}
               /\ ToSet(pending'[k]) \subseteq ToSet(pending[k]) \cup {stateSeq'}
               /\ ToSet(pending[k]) \subseteq ToSet(pending'[k])
               /\ pending[k] # <<>> => pending'[k] # <<>> /\ Head(pending'[k]) = Head(pending[k])
    <3>1. CASE k = j
      BY <2>3, <2>4, <2>5, <3>1
    <3>2. CASE k # j
      BY <2>5, <3>2
    <3>3. QED
      BY <3>1, <3>2
  <2>7. stateSeq' \in ToSet(pending'[j])
    BY <2>4, <2>5
  <2>8. QED
    BY <2>5, <2>6, <2>7 DEF j
<1>3. SessionType'
  BY <1>0, <1>2 DEF SessionType
<1>4. Known'
  <2>1. \A k \in Kind : InLog(k)' = InLog(k)
    BY <1>0 DEF InLog
  <2>2. 1 .. stateSeq \subseteq 1 .. stateSeq' /\ stateSeq' \in 1 .. stateSeq'
    BY <1>0
  <2>3. store.state \in Int /\ \A c \in Caller : calls[c].op = "save" => calls[c].age \in Int
    BY CallOK DEF Stores, NoState
  <2>4. QED
    BY <1>0, <1>2, <2>1, <2>2, <2>3 DEF Known
<1>5. Sole' /\ InStep'
  <2>1. Sole'
    BY <1>0 DEF Sole
  <2>2. ASSUME NEW c \in Caller, InStepFor(calls[c]) PROVE InStepFor(calls[c])'
    <3>1. calls[c].op = "flush" => calls[c].kind \in Kind
      BY CallOK
    <3>2. calls'[c] = calls[c] /\ store' = store
      BY <1>0
    <3>3. calls[c].op = "flush" =>
            pending'[calls[c].kind] # <<>> /\ calls[c].head = Head(pending'[calls[c].kind])
      BY <1>2, <2>2, <3>1 DEF InStepFor
    <3>4. QED
      BY <2>2, <3>2, <3>3 DEF InStepFor, InLog
  <2>3. QED
    BY <1>0, <2>1, <2>2 DEF InStep
<1>6. Kept' = Kept
  <2>1. \A r \in 1 .. stateSeq' : r <= store.state => r \in 1 .. stateSeq
    BY <1>0 DEF Known, Stores, NoState
  <2>2. QED
    BY <1>0, <2>1 DEF Kept, Logged, InLog
<1>7. Released' \subseteq Released
  BY <1>0, <1>1, <1>2 DEF Released
<1>8. ReleasedIsKept'
  BY <1>0, <1>6, <1>7 DEF ReleasedIsKept
<1>9. QED
  BY <1>3, <1>4, <1>5, <1>6, <1>7, <1>8 DEF SessionInv

\* A call begins: what it carries is in step with the store and the queues.
LEMMA BeginKeeps ==
  ASSUME StoreInv, NEW c \in Caller, NEW call \in CallStates, Begin(c, call),
         call.op = "flush" =>
            pending[call.kind] # <<>> /\ call.head = Head(pending[call.kind]),
         call.op = "save" => call.age = stateSeq /\ call.next = "meta"
  PROVE  SessionInv' /\ Kept' = Kept /\ stateSeq' = stateSeq
<1> USE DEF StoreInv, TypeOK, Begin
<1>1. SessionType' /\ Kept' = Kept
  BY DEF SessionType, Kept, Logged, InLog
<1>2. ReleasedIsKept'
  BY DEF ReleasedIsKept, Released, Kept, Logged, InLog
<1>3. call.op = "flush" => call.head \in 1 .. stateSeq
  BY CallOK, TailSet DEF Known
<1>4. Known'
  BY <1>3 DEF Known, InLog
<1>5. Sole'
  BY DEF Sole
<1>6. InStepFor(call)
  BY DEF InStepFor, Known
<1>7. InStep'
  BY <1>6 DEF InStep, InStepFor, InLog
<1>8. QED
  BY <1>1, <1>2, <1>4, <1>5, <1>7 DEF SessionInv

\* A call goes on, or ends, after its command has or has not reached the
\* store, and perhaps drops requests from a queue.
LEMMA AnswerKeeps ==
  ASSUME StoreInv, NEW c \in Caller, calls[c] # Idle,
         store' \in {store, Effect(calls[c])},
         NEW next \in CallStates, calls' = [calls EXCEPT ![c] = next],
         next.op = "flush" => next.head \in 1 .. stateSeq,
         next.op = "save" => next.age <= stateSeq,
         pending' \in [Kind -> Seq(Request)],
         \A k \in Kind : ToSet(pending'[k]) \subseteq ToSet(pending[k]),
         failures' \in 0 .. MaxFailures,
         UNCHANGED <<stateSeq, accepted, up, exclusive>>,
         exclusive => InStepFor(next)',
         up /\ exclusive => Released' \subseteq Released \cup Kept'
  PROVE  SessionInv' /\ (exclusive => Kept \subseteq Kept')
<1>0. /\ stateSeq \in Nat /\ calls \in [Caller -> CallStates] /\ store \in Stores
      /\ store.state \in Int /\ store.state <= stateSeq
      /\ \A k \in Kind : InLog(k) \subseteq 1 .. stateSeq
  BY BoundAssumption DEF StoreInv, TypeOK, Known, Stores, NoState
<1>1. /\ store' \in Stores /\ store'.state <= stateSeq
      /\ \A k \in Kind : InLog(k)' \subseteq 1 .. stateSeq
  <2>1. CASE store' = store
    BY <1>0, <2>1 DEF InLog
  <2>2. CASE store' = Effect(calls[c])
    BY <2>2, EffectKnown DEF InLog
  <2>3. QED
    BY <2>1, <2>2
<1>2. /\ calls' \in [Caller -> CallStates] /\ calls'[c] = next
      /\ \A d \in Caller : d # c => calls'[d] = calls[d]
  BY <1>0
<1>3. SessionType'
  BY <1>1, <1>2 DEF StoreInv, TypeOK, SessionType
<1>4. Known'
  <2>1. \A k \in Kind : ToSet(accepted'[k]) \subseteq 1 .. stateSeq'
                        /\ ToSet(pending'[k]) \subseteq 1 .. stateSeq'
    BY DEF StoreInv, Known
  <2>2. ASSUME NEW d \in Caller
        PROVE  /\ calls'[d].op = "flush" => calls'[d].head \in 1 .. stateSeq'
               /\ calls'[d].op = "save" => calls'[d].age <= stateSeq'
    <3>1. CASE d = c
      BY <1>2, <3>1
    <3>2. CASE d # c
      BY <1>2, <3>2 DEF StoreInv, Known
    <3>3. QED
      BY <3>1, <3>2
  <2>3. QED
    BY <1>1, <2>1, <2>2 DEF Known
<1>5. Sole'
  BY <1>2 DEF StoreInv, Sole
<1>6. InStep'
  <2>1. ASSUME exclusive, NEW d \in Caller PROVE InStepFor(calls[d])'
    <3>1. CASE d = c
      BY <1>2, <2>1, <3>1 DEF InStepFor
    <3>2. CASE d # c
      <4>1. calls'[d] = Idle
        BY <1>2, <2>1, <3>2 DEF StoreInv, Sole
      <4>2. QED
        BY <4>1 DEF InStepFor
    <3>3. QED
      BY <3>1, <3>2
  <2>2. QED
    BY <2>1 DEF InStep
<1>7. exclusive => Kept \subseteq Kept'
  <2>1. CASE store' = store
    BY <2>1 DEF Kept, Logged, InLog
  <2>2. CASE store' = Effect(calls[c])
    <3>1. ASSUME exclusive, NEW r \in Kept PROVE r \in Kept'
      BY <2>2, <3>1, EffectGrows DEF Kept, Logged, InLog
    <3>2. QED
      BY <3>1
  <2>3. QED
    BY <2>1, <2>2
<1>8. ReleasedIsKept'
  BY <1>7 DEF StoreInv, ReleasedIsKept
<1>9. QED
  BY <1>3, <1>4, <1>5, <1>6, <1>7, <1>8 DEF SessionInv

\* A call fails: the queues are as they were.
LEMMA FailsKeeps ==
  ASSUME StoreInv, NEW c \in Caller, Fails(c)
  PROVE  SessionInv' /\ (exclusive => Kept \subseteq Kept') /\ stateSeq' = stateSeq
<1>1. /\ calls[c] # Idle /\ store' \in {store, Effect(calls[c])}
      /\ calls' = [calls EXCEPT ![c] = Idle]
      /\ UNCHANGED <<stateSeq, accepted, pending, up, exclusive>>
  BY DEF Fails
<1>2. failures' \in 0 .. MaxFailures /\ pending' \in [Kind -> Seq(Request)]
  BY BoundAssumption DEF Fails, StoreInv, TypeOK
<1>3. Idle \in CallStates /\ InStepFor(Idle)'
  BY MadeCallOK DEF InStepFor
<1>4. Released' = Released
  BY <1>1 DEF Released
<1>5. QED
  BY <1>1, <1>2, <1>3, <1>4, AnswerKeeps

\* A flush returns: it drops the head of its queue, which is in the log when
\* nobody overlaps it.
LEMMA FlushReturnsKeeps ==
  ASSUME StoreInv, NEW c \in Caller, calls[c].op = "flush", Returns(c)
  PROVE  /\ SessionInv' /\ (exclusive => Kept \subseteq Kept') /\ stateSeq' = stateSeq
         /\ exclusive => Released' \subseteq Released \cup Logged'
<1> DEFINE k == calls[c].kind
<1>1. /\ k \in Kind /\ calls[c].head \in Request /\ calls[c] \in CallStates
      /\ pending \in [Kind -> Seq(Request)] /\ TypeOK
  BY CallOK DEF StoreInv, TypeOK
<1>2. /\ calls[c] # Idle /\ store' = Effect(calls[c])
      /\ pending' = Shifted(k) /\ calls' = [calls EXCEPT ![c] = FlushFrom(k, pending')]
      /\ UNCHANGED <<stateSeq, accepted, up, failures, exclusive>>
  BY DEF Returns, Continues
<1>3. /\ \A j \in Kind : j # k => pending'[j] = pending[j]
      /\ pending[k] = <<>> => pending' = pending
      /\ pending[k] # <<>> => pending' = [pending EXCEPT ![k] = Tail(pending[k])]
  BY <1>1, <1>2 DEF Shifted
<1>4. /\ pending' \in [Kind -> Seq(Request)]
      /\ \A j \in Kind : ToSet(pending'[j]) \subseteq ToSet(pending[j])
      /\ pending[k] # <<>> =>
            ToSet(pending[k]) = ToSet(pending'[k]) \cup {Head(pending[k])}
  <2>1. CASE pending[k] = <<>>
    BY <1>1, <1>3, <2>1
  <2>2. CASE pending[k] # <<>>
    <3>1. /\ Tail(pending[k]) \in Seq(Request)
          /\ ToSet(pending[k]) = ToSet(Tail(pending[k])) \cup {Head(pending[k])}
      BY <1>1, <2>2, TailSet
    <3>2. pending' \in [Kind -> Seq(Request)] /\ pending'[k] = Tail(pending[k])
      BY <1>1, <1>3, <2>2, <3>1
    <3>3. QED
      BY <1>3, <2>2, <3>1, <3>2
  <2>3. QED
    BY <2>1, <2>2
<1>5. PICK next \in CallStates :
      /\ next = FlushFrom(k, pending') /\ next.op \in {"idle", "flush"}
      /\ next.op = "flush" => next.kind \in Kind /\ next.head \in Request
      /\ next.op = "flush" => pending'[next.kind] # <<>> /\ next.head = Head(pending'[next.kind])
  BY <1>1, <1>4, FlushFromOK, CallOK
<1>6. next.op = "flush" => next.head \in 1 .. stateSeq
  <2>1. ASSUME next.op = "flush" PROVE next.head \in ToSet(pending'[next.kind])
    <3>1. pending'[next.kind] \in Seq(Request) /\ pending'[next.kind] # <<>>
      BY <1>4, <1>5, <2>1
    <3>2. Head(pending'[next.kind]) \in ToSet(pending'[next.kind])
      BY <3>1, TailSet
    <3>3. QED
      BY <1>5, <2>1, <3>2
  <2>2. QED
    BY <1>4, <1>5, <2>1 DEF StoreInv, Known
<1>7. InStepFor(next)'
  BY <1>5 DEF InStepFor
<1>8. ASSUME exclusive PROVE Released' \subseteq Released \cup Logged'
  <2>1. pending[k] # <<>> /\ calls[c].head = Head(pending[k])
    BY <1>8 DEF StoreInv, InStep, InStepFor
  <2>2. calls[c].head \in ToSet(store'.log[k])
    BY <1>1, <1>2, EffectOK
  <2>3. calls[c].head \in Logged'
    BY <1>1, <2>2 DEF Logged, InLog
  <2>4. ASSUME NEW r \in Released', r \notin Released PROVE r = Head(pending[k])
    <3>1. r \in 1 .. stateSeq /\ \A j \in Kind : r \notin ToSet(pending'[j])
      BY <1>2, <2>4 DEF Released
    <3>2. PICK j \in Kind : r \in ToSet(pending[j])
      BY <2>4, <3>1 DEF Released
    <3>3. j = k
      BY <1>3, <3>1, <3>2
    <3>4. QED
      BY <1>4, <2>1, <3>1, <3>2, <3>3
  <2>5. QED
    BY <2>1, <2>3, <2>4
<1>9. failures' \in 0 .. MaxFailures
  BY <1>2 DEF StoreInv, TypeOK
<1>10. QED
  <2>1. next.op # "save"
    BY <1>5
  <2>2. exclusive => Released' \subseteq Released \cup Kept'
    BY <1>8 DEF Kept
  <2>3. SessionInv' /\ (exclusive => Kept \subseteq Kept')
    BY <1>2, <1>4, <1>5, <1>6, <1>7, <1>9, <2>1, <2>2, AnswerKeeps
  <2>4. QED
    BY <1>2, <1>8, <2>3

\* A save returns and sends its next command, or is done.
LEMMA SaveReturnsKeeps ==
  ASSUME StoreInv, NEW c \in Caller, calls[c].op = "save", Returns(c)
  PROVE  SessionInv' /\ (exclusive => Kept \subseteq Kept') /\ stateSeq' = stateSeq
<1>0. PICK call \in CallStates : call = calls[c] /\ call.op = "save"
  BY DEF StoreInv, TypeOK
<1> DEFINE n == Following[call.next]
           next == IF n = "end" THEN Idle ELSE Save(call.age, n)
<1>1. /\ call.age \in 0 .. MaxAccepted /\ call.next \in Command /\ call \in CallStates
      /\ TypeOK /\ call.age <= stateSeq
  BY <1>0, CallOK DEF StoreInv, TypeOK, Known
<1>2. /\ call # Idle /\ store' = Effect(call)
      /\ calls' = [calls EXCEPT ![c] = next]
      /\ UNCHANGED <<stateSeq, accepted, pending, up, failures, exclusive>>
  BY <1>0 DEF Returns, Continues
<1>3. n \in Command \cup {"end"}
  BY <1>1, CommandOK
<1>4. /\ next \in CallStates /\ next.op \in {"idle", "save"}
      /\ next.op = "save" => next.age = call.age /\ next.next = n /\ n # "end"
  BY <1>1, <1>3, MadeCallOK
<1>5. ASSUME exclusive PROVE InStepFor(next)'
  <2>1. /\ store.state <= call.age
        /\ call.next \notin {"pushAction", "pushDecision"} =>
             \A k \in Kind : InLog(k) \subseteq 1 .. call.age
        /\ call.next \notin {"meta", "state"} => store.state = call.age
    BY <1>0, <1>5 DEF StoreInv, InStep, InStepFor
  <2>2. /\ store'.state = IF call.next = "state" THEN call.age ELSE store.state
        /\ call.next \notin {"pushAction", "pushDecision"} =>
             \A k \in Kind : ToSet(store'.log[k]) \subseteq InLog(k)
    BY <1>0, <1>1, <1>2, EffectOK
  <2>3. store'.state <= call.age
    BY <1>1, <2>1, <2>2
  <2>4. n # "end" /\ n \notin {"pushAction", "pushDecision"} =>
          \A k \in Kind : InLog(k)' \subseteq 1 .. call.age
    <3>1. n # "end" /\ n \notin {"pushAction", "pushDecision"} =>
             call.next \notin {"pushAction", "pushDecision"}
      BY <1>1, CommandOK
    <3>2. QED
      BY <2>1, <2>2, <3>1 DEF InLog
  <2>5. n \notin {"meta", "state"} => store'.state = call.age
    <3>1. n \notin {"meta", "state"} => call.next # "meta"
      BY <1>1, CommandOK
    <3>2. QED
      BY <2>1, <2>2, <3>1
  <2>6. QED
    BY <1>4, <2>3, <2>4, <2>5 DEF InStepFor
<1>6. Released' = Released
  BY <1>2 DEF Released
<1>7. failures' \in 0 .. MaxFailures /\ pending' \in [Kind -> Seq(Request)]
  BY <1>2 DEF StoreInv, TypeOK
<1> HIDE DEF next, n
<1>8. next.op # "flush" /\ (next.op = "save" => next.age <= stateSeq)
  BY <1>1, <1>4
<1>9. QED
  BY <1>0, <1>2, <1>4, <1>5, <1>6, <1>7, <1>8, AnswerKeeps

\* The process dies: what was released is where it was.
LEMMA CrashKeeps ==
  ASSUME StoreInv, Crash
  PROVE  SessionInv' /\ Kept' = Kept /\ stateSeq' = stateSeq
<1>1. <<>> \in Seq(Request)
  OBVIOUS
<1>2. SessionType' /\ Kept' = Kept
  BY <1>1, MadeCallOK DEF StoreInv, TypeOK, Crash, SessionType, Kept, Logged, InLog
<1>3. Known'
  BY EmptySet DEF StoreInv, Known, Crash, InLog
<1>4. Sole' /\ InStep' /\ ReleasedIsKept'
  BY DEF Crash, Sole, InStep, InStepFor, ReleasedIsKept
<1>5. QED
  BY <1>2, <1>3, <1>4 DEF SessionInv, Crash

\* A recovery touches neither the session nor the store.
LEMMA RecoveryKeeps ==
  ASSUME StoreInv, UNCHANGED sessionVars
  PROVE  SessionInv' /\ Kept' = Kept /\ UNCHANGED <<stateSeq, exclusive>>
<1>1. SessionType' /\ Kept' = Kept
  BY DEF StoreInv, TypeOK, SessionType, Kept, Logged, InLog, sessionVars
<1>2. Known' /\ Sole'
  BY DEF StoreInv, Known, Sole, InLog, sessionVars
<1>3. InStep'
  BY DEF StoreInv, InStep, InStepFor, InLog, sessionVars
<1>4. ReleasedIsKept'
  BY <1>1 DEF StoreInv, ReleasedIsKept, Released, sessionVars
<1>5. QED
  BY <1>1, <1>2, <1>3, <1>4 DEF SessionInv, sessionVars

\* Beginning a flush or a save.
LEMMA CallBegins ==
  ASSUME StoreInv, NEW c \in Caller, FlushPersistence(c) \/ SaveSnapshot(c)
  PROVE  SessionInv' /\ Kept' = Kept /\ stateSeq' = stateSeq
<1>1. CASE FlushPersistence(c)
  <2>1. PICK call \in CallStates : call = FlushFrom("action", pending)
    BY FlushFromOK DEF StoreInv, TypeOK, Kind
  <2>2. /\ call.op # "save" /\ Begin(c, call)
        /\ call.op = "flush" =>
              pending[call.kind] # <<>> /\ call.head = Head(pending[call.kind])
    BY <1>1, <2>1, FlushFromOK DEF FlushPersistence, StoreInv, TypeOK, Kind
  <2>3. QED
    BY <2>2, BeginKeeps
<1>2. CASE SaveSnapshot(c)
  <2>1. Save(stateSeq, "meta") \in CallStates
    BY MadeCallOK, CommandOK DEF StoreInv, TypeOK
  <2>2. PICK call \in CallStates : call = Save(stateSeq, "meta")
    BY <2>1
  <2>3. /\ call.op = "save" /\ call.age = stateSeq /\ call.next = "meta" /\ Begin(c, call)
    BY <1>2, <2>2 DEF SaveSnapshot
  <2>4. QED
    BY <2>3, BeginKeeps
<1>3. QED
  BY <1>1, <1>2

\* One step of the system: every part of the invariant is kept.  Kept
\* requests stay durable while calls have not overlapped.
LEMMA StepKeeps ==
  ASSUME StoreInv /\ StageOK, Next
  PROVE  (StoreInv /\ StageOK)' /\ (exclusive => Kept \subseteq Kept')
<1>1. CASE SessionStep
  <2>1. StageOK'
    <3>1. /\ recovery' \in [Server -> {AtRest} \cup Work]
          /\ \A s \in Server : recovery'[s].at = recovery[s].at
          /\ lock' = lock /\ lapsed' = lapsed
      BY <1>1, SessionKeepsStages DEF StageOK
    <3>2. QED
      BY <3>1 DEF StageOK, OneRecoverer, Holding
  <2>2. SessionInv' /\ (exclusive => Kept \subseteq Kept')
    <3>1. ASSUME NEW c \in Caller, Returns(c)
          PROVE  SessionInv' /\ (exclusive => Kept \subseteq Kept')
      <4>1. calls[c] # Idle /\ calls[c] \in CallStates
        BY <3>1 DEF Returns, StoreInv, TypeOK
      <4>2. calls[c].op = "flush" \/ calls[c].op = "save"
        BY <4>1, CallOK
      <4>3. QED
        BY <3>1, <4>2, FlushReturnsKeeps, SaveReturnsKeeps
    <3>2. QED
      BY <1>1, <3>1, AcceptKeeps, CallBegins, FailsKeeps, CrashKeeps DEF SessionStep
  <2>3. QED
    BY <2>1, <2>2 DEF StoreInv, SessionInv, SessionType, StageOK, TypeOK
<1>2. CASE LockExpires \/ \E s \in Server : RecoveryStep(s)
  <2>1. UNCHANGED sessionVars
    BY <1>2 DEF LockExpires, RecoveryStep, Recover, Acquire, Inspect, Renew, LoadSnapshot,
                Reads, FreezeMatch, CheckLock, DeleteLock, RecoveryFails
  <2>2. SessionInv' /\ Kept' = Kept
    BY <2>1, RecoveryKeeps
  <2>3. StageOK'
    <3>1. CASE LockExpires
      BY <3>1 DEF LockExpires, StageOK, OneRecoverer, Holding
    <3>2. ASSUME NEW s \in Server, RecoveryStep(s) PROVE StageOK'
      <4>1. store \in Stores /\ stateSeq \in 0 .. MaxAccepted
        BY DEF StoreInv, TypeOK
      <4>2. QED
        BY <3>2, <4>1, RecoveryStepOK
    <3>3. QED
      BY <1>2, <3>1, <3>2
  <2>4. QED
    BY <2>2, <2>3 DEF StoreInv, SessionInv, SessionType, StageOK, TypeOK
<1>3. QED
  BY <1>1, <1>2 DEF Next

LEMMA InitKeeps == Init => StoreInv /\ StageOK
<1> SUFFICES ASSUME Init PROVE StoreInv /\ StageOK
  OBVIOUS
<1>1. <<>> \in Seq(Request)
  OBVIOUS
<1>2. store \in Stores /\ store.log = [k \in Kind |-> <<>>] /\ store.state = -1
  BY <1>1 DEF Init, Stores, NoState
<1>3. TypeOK
  <2>1. /\ accepted \in [Kind -> Seq(Request)] /\ pending \in [Kind -> Seq(Request)]
        /\ calls \in [Caller -> CallStates]
    BY <1>1, MadeCallOK DEF Init
  <2>2. stateSeq \in 0 .. MaxAccepted /\ failures \in 0 .. MaxFailures
    BY BoundAssumption DEF Init
  <2>3. QED
    BY <1>2, <2>1, <2>2 DEF Init, TypeOK
<1>4. Known /\ Sole /\ InStep
  BY <1>2, EmptySet DEF Init, Known, Sole, InStep, InStepFor, InLog
<1>5. ReleasedIsKept /\ StageOK
  BY <1>3 DEF Init, TypeOK, ReleasedIsKept, Released, StageOK, OneRecoverer, Holding
<1>6. QED
  BY <1>3, <1>4, <1>5 DEF StoreInv

LEMMA StutterKeeps ==
  ASSUME StoreInv /\ StageOK, UNCHANGED vars
  PROVE  (StoreInv /\ StageOK)' /\ Kept' = Kept
<1>1. SessionInv' /\ Kept' = Kept
  BY RecoveryKeeps DEF vars, sessionVars
<1>2. StageOK'
  BY DEF vars, recoveryVars, StageOK, OneRecoverer, Holding
<1>3. QED
  BY <1>1, <1>2 DEF StoreInv, SessionInv, SessionType, StageOK, TypeOK

LEMMA StoreInvariant == Spec => [](StoreInv /\ StageOK)
<1>1. StoreInv /\ StageOK /\ [Next]_vars => (StoreInv /\ StageOK)'
  BY StepKeeps, StutterKeeps
<1>2. QED
  BY InitKeeps, <1>1, PTL DEF Spec

---------------------------------------------------------------------------
(* A recovery is whole                                                     *)

\* What makes a match loadable is never taken from the store.
LEMMA LoadsStay ==
  ASSUME store \in Stores, NEW call \in CallStates, call # Idle,
         store' \in {store, Effect(call)}
  PROVE  /\ store.meta => store'.meta
         /\ store.state # NoState => store'.state # NoState
         /\ store.manifest => store'.manifest
         /\ Loads => Loads'
<1>1. CASE call.op = "flush"
  BY <1>1 DEF Effect, Stores, Loads
<1>2. CASE call.op = "save"
  <2>1. call.age \in Nat
    BY <1>2, CallOK, BoundAssumption
  <2>2. call.age # NoState
    BY <2>1 DEF NoState
  <2>3. QED
    BY <1>2, <2>2, CallOK DEF Effect, SaveEffect, Stores, Loads, Command, Following
<1>3. QED
  BY <1>1, <1>2, CallOK

\* Durable requests stay durable while calls have not overlapped.
LEMMA DurableGrows ==
  ASSUME StoreInv /\ StageOK, Next, exclusive
  PROVE  Durable \subseteq Durable'
<1>1. Kept \subseteq Kept'
  BY StepKeeps
<1>2. Loads => Loads'
  <2>1. ASSUME NEW c \in Caller, Returns(c) \/ Fails(c) PROVE Loads => Loads'
    <3>1. /\ calls[c] # Idle /\ store' \in {store, Effect(calls[c])}
          /\ calls[c] \in CallStates /\ store \in Stores
      BY <2>1 DEF Returns, Fails, StoreInv, TypeOK
    <3>2. QED
      BY <3>1, LoadsStay
  <2>2. CASE store' = store
    BY <2>2 DEF Loads
  <2>3. QED
    BY <2>1, <2>2 DEF Next, SessionStep, Accept, FlushPersistence, SaveSnapshot, Begin,
       Crash, LockExpires, RecoveryStep, Recover, Acquire, Inspect, Renew, LoadSnapshot,
       Reads, FreezeMatch, CheckLock, DeleteLock, RecoveryFails, sessionVars
<1>3. QED
  BY <1>1, <1>2 DEF Durable

\* What keeps the store keeps what is durable.
LEMMA DurableSame ==
  ASSUME store' = store, Kept' = Kept
  PROVE  Durable' = Durable
BY DEF Durable, Loads

\* What a server has not read yet is where it is going to look.
OwedOK(s) ==
  /\ recovery[s].at \in {"acquire", "inspect", "renew", "snapshot"} =>
        recovery[s].owed \subseteq Durable
  /\ At(s, "logs") => recovery[s].owed \subseteq Logged
  /\ recovery[s].at \in {"freeze", "check", "delete"} => recovery[s].owed = {}
Owed ==
  /\ ~exclusive => \A s \in Server : At(s, "rest")
  /\ \A s \in Server : OwedOK(s)

\* While what is durable and what is logged only grows, a server that stays
\* where it is stays whole.
LEMMA OwedStays ==
  ASSUME NEW s \in Server, OwedOK(s), recovery'[s] = recovery[s],
         ~At(s, "rest") => Durable \subseteq Durable' /\ Logged \subseteq Logged'
  PROVE  OwedOK(s)'
BY DEF OwedOK, At

\* The commands of a flush only add to the logs.
LEMMA AnswerLogged ==
  ASSUME StoreInv, NEW c \in Caller, calls[c] # Idle, calls[c].op # "save",
         store' \in {store, Effect(calls[c])}
  PROVE  Logged \subseteq Logged'
<1>1. calls[c] \in CallStates /\ TypeOK /\ calls[c].op = "flush" /\ calls[c].kind \in Kind
  BY CallOK DEF StoreInv, TypeOK
<1>2. CASE store' = store
  BY <1>2 DEF Logged, InLog
<1>3. CASE store' = Effect(calls[c])
  <2>1. \A k \in Kind : InLog(k) \subseteq ToSet(store'.log[k])
    BY <1>1, <1>3, EffectOK DEF InLog
  <2>2. QED
    BY <2>1 DEF Logged, InLog
<1>4. QED
  BY <1>2, <1>3

LEMMA ExcusedOK ==
  ASSUME recovery \in [Server -> {AtRest} \cup Work], recovery' = Excused,
         NEW s \in Server
  PROVE  /\ OwedOK(s)'
         /\ At(s, "rest") => At(s, "rest")'
<1>1. CASE recovery[s].at = "rest"
  <2>1. recovery'[s] = AtRest
    BY <1>1 DEF Excused
  <2>2. QED
    BY <2>1 DEF OwedOK, At
<1>2. CASE recovery[s].at # "rest"
  <2>1. recovery[s] \in Work
    BY <1>2, AtWork DEF At
  <2>2. recovery'[s].owed = {} /\ recovery'[s].at = recovery[s].at
    BY <1>2, <2>1 DEF Excused, Work
  <2>3. QED
    BY <1>2, <2>2 DEF OwedOK, At
<1>3. QED
  BY <1>1, <1>2

LEMMA SessionKeepsOwed ==
  ASSUME StoreInv /\ StageOK /\ Owed, SessionStep
  PROVE  Owed'
<1>1. ASSUME NEW c \in Caller, Returns(c) \/ Fails(c) PROVE Owed'
  <2>1. /\ calls[c] # Idle /\ store' \in {store, Effect(calls[c])}
        /\ Tears(c) /\ exclusive' = exclusive
    BY <1>1 DEF Returns, Fails
  <2>2. exclusive => Durable \subseteq Durable'
    BY <1>1, DurableGrows DEF Next, SessionStep
  <2>3. CASE calls[c].op = "save"
    <3>1. recovery' = Excused
      BY <2>1, <2>3 DEF Tears
    <3>2. QED
      BY <2>1, <3>1, ExcusedOK DEF Owed, StageOK
  <2>4. CASE calls[c].op # "save"
    <3>1. recovery' = recovery
      BY <2>1, <2>4 DEF Tears
    <3>2. Logged \subseteq Logged'
      BY <2>1, <2>4, AnswerLogged
    <3>3. ASSUME NEW s \in Server PROVE OwedOK(s)'
      BY <2>2, <3>1, <3>2, OwedStays DEF Owed
    <3>4. QED
      BY <2>1, <3>1, <3>3 DEF Owed, At
  <2>5. QED
    BY <2>3, <2>4
<1>2. ASSUME Accept \/ Crash \/ \E c \in Caller : FlushPersistence(c) \/ SaveSnapshot(c)
      PROVE  Owed'
  <2>1. store' = store /\ recovery' = recovery
    BY <1>2 DEF Accept, Crash, FlushPersistence, SaveSnapshot, Begin, recoveryVars
  <2>2. Durable' = Durable /\ Logged' = Logged
    BY <1>2, <2>1, AcceptKeeps, CrashKeeps, CallBegins, DurableSame DEF Logged, InLog
  <2>3. \A s \in Server : OwedOK(s)'
    BY <2>1, <2>2, OwedStays DEF Owed
  <2>4. ~exclusive' => \A s \in Server : At(s, "rest")
    <3>1. exclusive' = exclusive \/ exclusive' \/ Undisturbed
      BY <1>2 DEF Accept, Crash, FlushPersistence, SaveSnapshot, Begin
    <3>2. Undisturbed => \A s \in Server : At(s, "rest")
      BY DEF Undisturbed, At
    <3>3. QED
      BY <3>1, <3>2 DEF Owed
  <2>5. QED
    BY <2>1, <2>3, <2>4 DEF Owed, At
<1>3. QED
  BY <1>1, <1>2 DEF SessionStep

\* One step of the server that moves.
LEMMA MoverKeepsOwed ==
  ASSUME StoreInv /\ StageOK /\ Owed, NEW s \in Server, RecoveryStep(s)
  PROVE  OwedOK(s)' /\ \A t \in Server : t # s => recovery'[t] = recovery[t]
<1>0. /\ recovery \in [Server -> {AtRest} \cup Work] /\ OwedOK(s)
      /\ store \in Stores /\ stateSeq \in Nat
      /\ \A k \in Kind : InLog(k) \subseteq 1 .. stateSeq
      /\ Durable \subseteq Request
  <2>1. recovery \in [Server -> {AtRest} \cup Work] /\ OwedOK(s) /\ store \in Stores
        /\ stateSeq \in 0 .. MaxAccepted /\ \A k \in Kind : InLog(k) \subseteq 1 .. stateSeq
    BY DEF StoreInv, TypeOK, StageOK, Owed, Known
  <2>2. stateSeq \in Nat /\ 1 .. stateSeq \subseteq Request
    BY <2>1, BoundAssumption DEF Request
  <2>3. Durable \subseteq 1 .. stateSeq
    BY <2>1 DEF Durable, Kept, Logged
  <2>4. QED
    BY <2>1, <2>2, <2>3
<1>1. UNCHANGED store /\ Durable' = Durable /\ Logged' = Logged
  <2>1. UNCHANGED sessionVars
    BY DEF RecoveryStep, Recover, Acquire, Inspect, Renew, LoadSnapshot,
           Reads, FreezeMatch, CheckLock, DeleteLock, RecoveryFails
  <2>2. QED
    BY <2>1, RecoveryKeeps, DurableSame DEF sessionVars, Logged, InLog
<1>2. CASE Recover(s)
  <2>1. recovery' = [recovery EXCEPT ![s] =
                      [at |-> "acquire",
                       owed |-> IF \A c \in Caller : calls[c].op # "save"
                                THEN Durable ELSE {}]]
    BY <1>2 DEF Recover
  <2>2. recovery'[s].at = "acquire" /\ recovery'[s].owed \subseteq Durable
    BY <1>0, <2>1
  <2>3. QED
    BY <1>0, <1>1, <2>1, <2>2 DEF OwedOK, At
<1>3. CASE Leave(s)
  BY <1>0, <1>3, LeaveOK DEF OwedOK, At
<1>4. ASSUME NEW stage \in Stages, Go(s, stage),
             \/ /\ recovery[s].at \in {"acquire", "inspect", "renew"}
                /\ stage \in {"inspect", "renew", "snapshot"}
             \/ At(s, "check") /\ stage = "delete"
      PROVE  OwedOK(s)' /\ \A t \in Server : t # s => recovery'[t] = recovery[t]
  <2>1. ~At(s, "rest")
    BY <1>4 DEF At
  <2>2. /\ recovery'[s].at = stage /\ recovery'[s].owed = recovery[s].owed
        /\ \A t \in Server : t # s => recovery'[t] = recovery[t]
    BY <1>0, <1>4, <2>1, GoOK
  <2>3. QED
    BY <1>0, <1>1, <1>4, <2>2 DEF OwedOK, At
<1>5. CASE LoadSnapshot(s)
  <2>1. CASE At(s, "snapshot") /\ Reads(s, "freeze", {}) /\ ~Loads
    <3>1. /\ recovery'[s].at = "freeze" /\ recovery'[s].owed = recovery[s].owed \ {}
          /\ \A t \in Server : t # s => recovery'[t] = recovery[t]
      BY <1>0, <2>1, ReadsOK DEF Stages, At
    <3>2. recovery[s].owed \subseteq Durable /\ Durable = {}
      BY <1>0, <2>1 DEF OwedOK, At, Durable
    <3>3. QED
      BY <3>1, <3>2 DEF OwedOK, At
  <2>2. CASE At(s, "snapshot") /\ Reads(s, "logs", {r \in Request : r <= store.state})
    <3>1. /\ recovery'[s].at = "logs"
          /\ recovery'[s].owed = recovery[s].owed \ {r \in Request : r <= store.state}
          /\ \A t \in Server : t # s => recovery'[t] = recovery[t]
      BY <1>0, <2>2, ReadsOK DEF Stages, At
    <3>2. recovery[s].owed \subseteq Durable
      BY <1>0, <2>2 DEF OwedOK, At
    <3>3. Durable \ {r \in Request : r <= store.state} \subseteq Logged
      BY <1>0 DEF Durable, Kept, Logged
    <3>4. recovery'[s].owed \subseteq Logged'
      BY <1>1, <3>1, <3>2, <3>3
    <3>5. QED
      BY <3>1, <3>4 DEF OwedOK, At
  <2>3. CASE At(s, "logs") /\ Reads(s, "check", InLog("action") \cup InLog("decision"))
    <3>1. /\ recovery'[s].at = "check"
          /\ recovery'[s].owed = recovery[s].owed \ (InLog("action") \cup InLog("decision"))
          /\ \A t \in Server : t # s => recovery'[t] = recovery[t]
      BY <1>0, <2>3, ReadsOK DEF Stages, At
    <3>2. recovery[s].owed \subseteq Logged
      BY <1>0, <2>3 DEF OwedOK
    <3>3. Logged = InLog("action") \cup InLog("decision")
      BY DEF Logged, Kind
    <3>4. QED
      BY <3>1, <3>2, <3>3 DEF OwedOK, At
  <2>4. QED
    BY <1>5, <2>1, <2>2, <2>3 DEF LoadSnapshot, Loads
<1>6. CASE Acquire(s) \/ Inspect(s) \/ Renew(s) \/ CheckLock(s)
  <2>1. PICK stage \in {"inspect", "renew", "snapshot", "delete"} :
          \/ Leave(s)
          \/ /\ Go(s, stage)
             /\ \/ /\ recovery[s].at \in {"acquire", "inspect", "renew"}
                   /\ stage \in {"inspect", "renew", "snapshot"}
                \/ At(s, "check") /\ stage = "delete"
    BY <1>6 DEF Acquire, Inspect, Renew, CheckLock, At
  <2>2. stage \in Stages
    BY <2>1 DEF Stages
  <2>3. QED
    BY <1>3, <1>4, <2>1, <2>2
<1>7. CASE FreezeMatch(s) \/ DeleteLock(s) \/ RecoveryFails(s)
  BY <1>3, <1>7 DEF FreezeMatch, DeleteLock, RecoveryFails
<1>8. QED
  BY <1>2, <1>5, <1>6, <1>7 DEF RecoveryStep

LEMMA RecoveryKeepsOwed ==
  ASSUME StoreInv /\ StageOK /\ Owed, NEW s \in Server, RecoveryStep(s)
  PROVE  Owed'
<1>1. UNCHANGED sessionVars /\ (Recover(s) \/ ~At(s, "rest"))
  BY DEF RecoveryStep, Recover, Acquire, Inspect, Renew, LoadSnapshot,
         Reads, FreezeMatch, CheckLock, DeleteLock, RecoveryFails, At
<1>2. Durable' = Durable /\ exclusive' = exclusive /\ Logged' = Logged
  BY <1>1, RecoveryKeeps, DurableSame DEF sessionVars, Logged, InLog
<1>3. exclusive
  BY <1>1 DEF Recover, Owed
<1>4. ASSUME NEW t \in Server PROVE OwedOK(t)'
  <2>1. CASE t = s
    BY <2>1, MoverKeepsOwed
  <2>2. CASE t # s
    BY <1>2, <2>2, MoverKeepsOwed, OwedStays DEF Owed
  <2>3. QED
    BY <2>1, <2>2
<1>5. QED
  BY <1>2, <1>3, <1>4 DEF Owed

LEMMA OwedInvariant == Spec => []Owed
<1>1. Init => Owed
  BY DEF Init, Owed, OwedOK, At
<1>2. StoreInv /\ StageOK /\ Owed /\ [Next]_vars => Owed'
  <2>1. ASSUME StoreInv /\ StageOK /\ Owed, LockExpires \/ UNCHANGED vars PROVE Owed'
    <3>1. UNCHANGED <<sessionVars, recovery>>
      BY <2>1 DEF LockExpires, vars, recoveryVars
    <3>2. Durable' = Durable /\ exclusive' = exclusive /\ Logged' = Logged
      BY <2>1, <3>1, RecoveryKeeps, DurableSame DEF sessionVars, Logged, InLog
    <3>3. QED
      BY <2>1, <3>1, <3>2, OwedStays DEF Owed, At
  <2>2. QED
    BY <2>1, SessionKeepsOwed, RecoveryKeepsOwed DEF Next
<1>3. QED
  BY <1>1, <1>2, StoreInvariant, PTL DEF Spec

---------------------------------------------------------------------------
(* Before the first snapshot                                               *)

\* The keys that make a match loadable are written in order, state after meta
\* and manifest after state, whatever command fails, and until the manifest is
\* there the logs keep every released request.
KeysFor(call) ==
  call.op = "save" =>
    /\ call.next # "meta" => store.meta
    /\ call.next \notin {"meta", "state"} => store.state # NoState
    /\ call.next \notin {"meta", "state", "manifest"} => store.manifest
KeysInOrder ==
  /\ store.manifest => Loads
  /\ \A c \in Caller : KeysFor(calls[c])
ReleasedIsLogged == up /\ exclusive /\ ~store.manifest => Released \subseteq Logged
KeysInv == KeysInOrder /\ ReleasedIsLogged

\* No command writes a key before its turn.
LEMMA AnswerKeepsKeys ==
  ASSUME StoreInv, KeysInOrder, NEW c \in Caller, Returns(c) \/ Fails(c)
  PROVE  KeysInOrder' /\ (store.manifest => store'.manifest)
<1>0. PICK call \in CallStates : call = calls[c]
  BY DEF StoreInv, TypeOK
<1>1. /\ call # Idle /\ store' \in {store, Effect(call)} /\ store \in Stores
      /\ KeysFor(call) /\ (store.manifest => Loads)
      /\ \A d \in Caller : d # c => calls'[d] = calls[d]
      /\ calls \in [Caller -> CallStates]
  BY <1>0 DEF Returns, Fails, Continues, StoreInv, TypeOK, KeysInOrder
<1>2. /\ store.meta => store'.meta
      /\ store.state # NoState => store'.state # NoState
      /\ store.manifest => store'.manifest
      /\ Loads => Loads'
  BY <1>1, LoadsStay
<1>3. store'.manifest => Loads'
  <2>1. CASE store'.manifest = store.manifest
    BY <1>1, <1>2, <2>1
  <2>2. CASE call.op = "save" /\ call.next = "manifest"
    <3>1. store.meta /\ store.state # NoState
      BY <1>1, <2>2 DEF KeysFor
    <3>2. QED
      BY <1>2, <3>1 DEF Loads
  <2>3. CASE call.op = "flush"
    BY <1>1, <2>1, <2>3 DEF Effect, Stores
  <2>4. CASE call.op = "save" /\ call.next # "manifest"
    <3>1. call.next \in Command
      BY <2>4, CallOK
    <3>2. Effect(call).manifest = store.manifest
      BY <1>1, <2>4, <3>1, CommandOK DEF Effect, SaveEffect, Stores
    <3>3. QED
      BY <1>1, <2>1, <3>2
  <2>5. QED
    BY <1>1, <2>2, <2>3, <2>4, CallOK
<1>4. ASSUME NEW d \in Caller PROVE KeysFor(calls[d])'
  <2>1. CASE d # c
    <3>1. KeysFor(calls[d]) /\ calls'[d] = calls[d]
      BY <1>1, <2>1 DEF KeysInOrder
    <3>2. QED
      BY <1>2, <3>1 DEF KeysFor
  <2>2. CASE d = c /\ calls'[c].op # "save"
    BY <2>2 DEF KeysFor
  <2>3. CASE d = c /\ calls'[c].op = "save"
    <3>1. Returns(c)
      BY <1>1, <2>3 DEF Fails
    <3>2. call.op = "save"
      <4>1. call.op = "flush" => calls'[c] = FlushFrom(call.kind, Shifted(call.kind))
        BY <1>0, <1>1, <3>1 DEF Returns, Continues
      <4>2. \A k : FlushFrom(k, Shifted(k)).op # "save"
        BY DEF FlushFrom
      <4>3. QED
        BY <1>1, <2>3, <4>1, <4>2, CallOK
    <3>3. /\ store' = Effect(call) /\ call.next \in Command
          /\ calls'[c] = Save(call.age, Following[call.next]) /\ Following[call.next] # "end"
      BY <1>0, <1>1, <2>3, <3>1, <3>2, CallOK DEF Returns, Continues
    <3>4. CASE call.next = "meta"
      <4>1. store'.meta /\ calls'[c].next = "state"
        BY <1>1, <3>2, <3>3, <3>4, CommandOK DEF Effect, SaveEffect, Stores
      <4>2. QED
        BY <2>3, <4>1 DEF KeysFor
    <3>5. CASE call.next = "state"
      <4>1. store.meta /\ call.age # NoState
        BY <1>1, <3>2, <3>5, CallOK, BoundAssumption DEF KeysFor, NoState
      <4>2. store'.meta /\ store'.state # NoState /\ calls'[c].next = "manifest"
        BY <1>1, <1>2, <3>2, <3>3, <3>5, <4>1, CommandOK DEF Effect, SaveEffect, Stores
      <4>3. QED
        BY <2>3, <4>2 DEF KeysFor
    <3>6. CASE call.next \notin {"meta", "state"}
      <4>1. store.meta /\ store.state # NoState
        BY <1>1, <3>2, <3>6 DEF KeysFor
      <4>2. store'.manifest
        <5>1. CASE call.next = "manifest"
          BY <1>1, <3>2, <3>3, <5>1 DEF Effect, SaveEffect, Stores
        <5>2. CASE call.next # "manifest"
          BY <1>1, <1>2, <3>2, <3>6, <5>2 DEF KeysFor
        <5>3. QED
          BY <5>1, <5>2
      <4>3. QED
        BY <1>2, <2>3, <4>1, <4>2 DEF KeysFor
    <3>7. QED
      BY <3>4, <3>5, <3>6
  <2>4. QED
    BY <2>1, <2>2, <2>3
<1>5. QED
  BY <1>2, <1>3, <1>4 DEF KeysInOrder

\* Until the manifest is there, no command takes a request from a log.
LEMMA AnswerKeepsLogged ==
  ASSUME StoreInv, KeysInv, NEW c \in Caller, Returns(c) \/ Fails(c)
  PROVE  ReleasedIsLogged'
<1> SUFFICES ASSUME up', exclusive', ~store'.manifest PROVE Released' \subseteq Logged'
  BY DEF ReleasedIsLogged
<1>0. PICK call \in CallStates : call = calls[c]
  BY DEF StoreInv, TypeOK
<1>1. /\ call # Idle /\ store' \in {store, Effect(call)} /\ up /\ exclusive /\ TypeOK
      /\ ~store.manifest /\ KeysFor(call) /\ Released \subseteq Logged
  BY <1>0, AnswerKeepsKeys
     DEF Returns, Fails, StoreInv, KeysInv, KeysInOrder, ReleasedIsLogged
<1>2. Logged \subseteq Logged'
  <2>1. CASE call.op = "save"
    <3>1. call.next \notin {"delAction", "delDecision"}
      BY <1>1, <2>1 DEF KeysFor
    <3>2. \A k \in Kind : InLog(k) \subseteq ToSet(Effect(call).log[k])
      BY <1>1, <2>1, <3>1, EffectOK
    <3>3. \A k \in Kind : InLog(k) \subseteq InLog(k)'
      BY <1>1, <3>2 DEF InLog
    <3>4. QED
      BY <3>3 DEF Logged
  <2>2. CASE call.op # "save"
    BY <1>0, <1>1, <2>2, AnswerLogged
  <2>3. QED
    BY <2>1, <2>2
<1>3. Released' \subseteq Released \cup Logged'
  <2>1. CASE Fails(c)
    BY <2>1 DEF Fails, Released
  <2>2. CASE Returns(c) /\ call.op = "flush"
    BY <1>0, <1>1, <2>2, FlushReturnsKeeps
  <2>3. CASE Returns(c) /\ call.op = "save"
    BY <1>0, <2>3 DEF Returns, Continues, Released
  <2>4. QED
    BY <1>1, <2>1, <2>2, <2>3, CallOK
<1>4. QED
  BY <1>1, <1>2, <1>3

LEMMA KeysInvariant == Spec => []KeysInv
<1>1. Init => KeysInv
  BY DEF Init, KeysInv, KeysInOrder, KeysFor, ReleasedIsLogged, Released
<1>2. ASSUME StoreInv /\ StageOK, KeysInv, [Next]_vars PROVE KeysInv'
  <2>1. CASE Accept
    <3>1. Released' \subseteq Released /\ UNCHANGED <<store, calls, up, exclusive>>
      BY <1>2, <2>1, AcceptKeeps DEF Accept
    <3>2. QED
      BY <1>2, <3>1
         DEF KeysInv, KeysInOrder, KeysFor, Loads, ReleasedIsLogged, Logged, InLog
  <2>2. ASSUME NEW c \in Caller, FlushPersistence(c) \/ SaveSnapshot(c) PROVE KeysInv'
    <3>1. PICK call : /\ calls' = [calls EXCEPT ![c] = call]
                      /\ call.op = "save" => call.next = "meta"
      <4>1. CASE FlushPersistence(c)
        <5>1. FlushFrom("action", pending).op # "save"
          BY DEF FlushFrom
        <5>2. calls' = [calls EXCEPT ![c] = FlushFrom("action", pending)]
          BY <4>1 DEF FlushPersistence, Begin
        <5>3. QED
          BY <5>1, <5>2
      <4>2. CASE SaveSnapshot(c)
        <5>1. calls' = [calls EXCEPT ![c] = Save(stateSeq, "meta")]
          BY <4>2 DEF SaveSnapshot, Begin
        <5>2. Save(stateSeq, "meta").next = "meta"
          OBVIOUS
        <5>3. QED
          BY <5>1, <5>2
      <4>3. QED
        BY <2>2, <4>1, <4>2
    <3>2. /\ UNCHANGED <<store, up, stateSeq, pending>> /\ exclusive
          /\ calls \in [Caller -> CallStates]
      BY <1>2, <2>2 DEF FlushPersistence, SaveSnapshot, Begin, StoreInv, TypeOK
    <3>3. ASSUME NEW d \in Caller PROVE KeysFor(calls[d])'
      BY <1>2, <3>1, <3>2 DEF KeysInv, KeysInOrder, KeysFor
    <3>4. QED
      BY <1>2, <3>2, <3>3
         DEF KeysInv, KeysInOrder, Loads, ReleasedIsLogged, Released, Logged, InLog
  <2>3. ASSUME NEW c \in Caller, Returns(c) \/ Fails(c) PROVE KeysInv'
    BY <1>2, <2>3, AnswerKeepsKeys, AnswerKeepsLogged DEF KeysInv
  <2>4. CASE Crash
    <3>1. \A c \in Caller : KeysFor(calls[c])'
      BY <2>4 DEF Crash, KeysFor
    <3>2. QED
      BY <1>2, <2>4, <3>1 DEF Crash, KeysInv, KeysInOrder, Loads, ReleasedIsLogged
  <2>5. CASE UNCHANGED sessionVars
    BY <1>2, <2>5 DEF sessionVars, KeysInv, KeysInOrder, KeysFor, Loads,
                      ReleasedIsLogged, Released, Logged, InLog
  <2>6. LockExpires \/ (\E s \in Server : RecoveryStep(s)) \/ UNCHANGED vars
          => UNCHANGED sessionVars
    BY DEF LockExpires, RecoveryStep, Recover, Acquire, Inspect, Renew, LoadSnapshot,
           Reads, FreezeMatch, CheckLock, DeleteLock, RecoveryFails, vars
  <2>7. QED
    BY <1>2, <2>1, <2>2, <2>3, <2>4, <2>5, <2>6 DEF Next, SessionStep
<1>3. QED
  BY <1>1, <1>2, StoreInvariant, PTL DEF Spec

---------------------------------------------------------------------------
(* Theorems                                                                *)

\* The queues, calls, keys and servers stay within their types (TypeOK).
THEOREM TypeCorrect == Spec => []TypeOK
<1>1. StoreInv /\ StageOK => TypeOK
  BY DEF StoreInv
<1>2. QED
  BY StoreInvariant, <1>1, PTL

\* A request leaves its queue in flushPersistence only when the store has it
\* (ReleasedIsDurable), as long as no two calls overlap: where a recovery finds
\* it once a snapshot has been written with its manifest, and until then in a
\* log, which no recovery reads yet.
THEOREM ReleasedStaysDurable == Spec => []ReleasedIsDurable
<1>1. StoreInv /\ StageOK /\ KeysInv => ReleasedIsDurable
  <2>1. SUFFICES ASSUME StoreInv, KeysInv, up, exclusive
                 PROVE  IF Loads THEN Released \subseteq Durable ELSE Released \subseteq Logged
    BY DEF ReleasedIsDurable
  <2>2. CASE Loads
    BY <2>1, <2>2 DEF StoreInv, ReleasedIsKept, Durable
  <2>3. CASE ~Loads
    BY <2>1, <2>3 DEF KeysInv, KeysInOrder, ReleasedIsLogged
  <2>4. QED
    BY <2>2, <2>3
<1>2. QED
  BY StoreInvariant, KeysInvariant, <1>1, PTL

\* Servers recover a match one at a time (recoverActiveMatches under
\* tryAcquireRecoveryLock) unless a lock has expired under one of them.
THEOREM RecoverersTakeTurns == Spec => []OneRecoverer
<1>1. StoreInv /\ StageOK => OneRecoverer
  BY DEF StageOK
<1>2. QED
  BY StoreInvariant, <1>1, PTL

\* The store keeps the promise of DurableLog (DurableLogPromise): every step
\* of the session, its commands, their failures, a crash and the recoveries
\* is a step of DurableLog or stutters.
THEOREM StoreKeepsPromise == Spec => DurableLogPromise
<1>1. Init => Promise!Init
  <2>1. SUFFICES ASSUME Init PROVE Promise!Init
    OBVIOUS
  <2>2. store.state = -1 /\ store.log = [k \in Kind |-> <<>>]
    BY <2>1 DEF Init, NoState
  <2>3. Durable = {}
    BY <2>1, <2>2 DEF Durable, Loads, NoState
  <2>4. QED
    BY <2>1, <2>3 DEF Init, Promise!Init
<1>2. ASSUME StoreInv /\ StageOK, [Next]_vars PROVE [Promise!Next]_(Promise!vars)
  <2>0. StoreInv' /\ (Next /\ exclusive => Durable \subseteq Durable')
    BY <1>2, StepKeeps, StutterKeeps, DurableGrows
  <2>1. Durable' \in SUBSET (1 .. stateSeq')
    <3>1. ASSUME NEW k \in Kind PROVE InLog(k)' \subseteq 1 .. stateSeq'
      BY <2>0 DEF StoreInv, Known
    <3>2. QED
      BY <3>1 DEF Durable, Kept, Logged
  <2> USE DEF Promise!Next, Promise!vars
  <2>2. CASE Accept
    <3>1. stateSeq' = stateSeq + 1 /\ exclusive' = exclusive
      BY <2>2 DEF Accept
    <3>2. Durable' = Durable
      BY <1>2, <2>2, AcceptKeeps, DurableSame DEF Accept
    <3>3. QED
      BY <3>1, <3>2 DEF Promise!Accept
  <2>3. ASSUME NEW c \in Caller, FlushPersistence(c) \/ SaveSnapshot(c)
        PROVE  [Promise!Next]_(Promise!vars)
    <3>1. stateSeq' = stateSeq /\ Durable' = Durable
      BY <1>2, <2>3, CallBegins, DurableSame DEF FlushPersistence, SaveSnapshot, Begin
    <3>2. exclusive /\ exclusive' \in BOOLEAN
      BY <2>0, <2>3 DEF FlushPersistence, SaveSnapshot, Begin, StoreInv, TypeOK
    <3>3. exclusive' = exclusive \/ exclusive' = FALSE
      BY <3>2
    <3>4. QED
      BY <3>1, <3>3 DEF Promise!Overlap
  <2>4. ASSUME NEW c \in Caller, Returns(c) \/ Fails(c)
        PROVE  [Promise!Next]_(Promise!vars)
    <3>1. stateSeq' = stateSeq /\ exclusive' = exclusive
      BY <2>4 DEF Returns, Fails
    <3>2. CASE exclusive
      <4>1. Durable \subseteq Durable'
        BY <2>0, <2>4, <3>2 DEF Next, SessionStep
      <4>2. QED
        BY <2>1, <3>1, <4>1 DEF Promise!Persist
    <3>3. CASE ~exclusive
      BY <2>1, <3>1, <3>3 DEF Promise!Misplace
    <3>4. QED
      BY <3>2, <3>3
  <2>5. CASE Crash
    <3>1. Durable' = Durable /\ stateSeq' = stateSeq /\ exclusive' = exclusive
      BY <1>2, <2>5, CrashKeeps, DurableSame DEF Crash
    <3>2. QED
      BY <3>1
  <2>6. CASE LockExpires \/ (\E s \in Server : RecoveryStep(s)) \/ UNCHANGED vars
    <3>1. UNCHANGED sessionVars
      BY <2>6 DEF LockExpires, RecoveryStep, Recover, Acquire, Inspect, Renew, LoadSnapshot,
                  Reads, FreezeMatch, CheckLock, DeleteLock, RecoveryFails, vars
    <3>2. Durable' = Durable /\ UNCHANGED <<stateSeq, exclusive>>
      BY <1>2, <3>1, RecoveryKeeps, DurableSame DEF sessionVars
    <3>3. QED
      BY <3>2
  <2>7. QED
    BY <1>2, <2>2, <2>3, <2>4, <2>5, <2>6 DEF Next, SessionStep
<1>3. QED
  BY <1>1, <1>2, StoreInvariant, PTL DEF Spec, DurableLogPromise, Promise!Spec

\* What loadSnapshot has read holds all that was durable when the recovery
\* began, however many requests are appended meanwhile, unless a snapshot is
\* written in between or calls of the living host overlap (RecoveryIsWhole).
THEOREM RecoveriesAreWhole == Spec => []RecoveryIsWhole
<1>1. Owed => RecoveryIsWhole
  BY DEF Owed, OwedOK, RecoveryIsWhole, At
<1>2. QED
  BY OwedInvariant, <1>1, PTL

---------------------------------------------------------------------------
(* The logs continue the state                                             *)

Rising(s) == \A i, j \in DOMAIN s : i < j => s[i] < s[j]

GapFree(log, acc, from) ==
  \A i \in DOMAIN log :
     /\ log[i] \in ToSet(acc)
     /\ \A r \in ToSet(acc) :
           from < r /\ r < log[i] => \E j \in 1 .. i - 1 : log[j] = r

LEMMA RisingAppend ==
  ASSUME NEW s \in Seq(Request), NEW x \in Request, Rising(s),
         \A r \in ToSet(s) : r < x
  PROVE  Rising(Append(s, x))
<1>1. /\ DOMAIN s = 1 .. Len(s) /\ DOMAIN Append(s, x) = 1 .. Len(s) + 1
      /\ Len(s) \in Nat
      /\ \A i \in 1 .. Len(s) : Append(s, x)[i] = s[i]
      /\ Append(s, x)[Len(s) + 1] = x
  OBVIOUS
<1>2. \A i \in 1 .. Len(s) : s[i] < x
  BY <1>1 DEF ToSet
<1>3. QED
  BY <1>1, <1>2 DEF Rising

LEMMA RisingTail ==
  ASSUME NEW s \in Seq(Request), s # <<>>, Rising(s)
  PROVE  /\ Rising(Tail(s))
         /\ \A r \in ToSet(s) : ~(r < Head(s))
<1>1. /\ DOMAIN s = 1 .. Len(s) /\ Len(s) \in Nat /\ Len(s) >= 1
      /\ DOMAIN Tail(s) = 1 .. Len(s) - 1
      /\ Head(s) = s[1]
      /\ \A i \in 1 .. Len(s) - 1 : Tail(s)[i] = s[i + 1]
      /\ \A i \in 1 .. Len(s) : s[i] \in Request
  OBVIOUS
<1>2. Rising(Tail(s))
  BY <1>1 DEF Rising
<1>3. ASSUME NEW i \in 1 .. Len(s) PROVE ~(s[i] < s[1])
  <2>1. i = 1 \/ s[1] < s[i]
    BY <1>1 DEF Rising
  <2>2. s[1] \in Int /\ s[i] \in Int
    BY <1>1, BoundAssumption DEF Request
  <2>3. QED
    BY <2>1, <2>2
<1>4. QED
  BY <1>1, <1>2, <1>3 DEF ToSet

\* A request is appended to a log that holds all that came before it.
LEMMA GapFreeAppend ==
  ASSUME NEW log \in Seq(Request), NEW acc \in Seq(Request), NEW from \in Int,
         GapFree(log, acc, from), NEW h \in ToSet(acc),
         \A r \in ToSet(acc) : from < r /\ r < h => r \in ToSet(log)
  PROVE  GapFree(Append(log, h), acc, from)
<1> DEFINE longer == Append(log, h)
<1>0. h \in Request
  BY DEF ToSet
<1>1. /\ DOMAIN log = 1 .. Len(log) /\ Len(log) \in Nat
      /\ DOMAIN longer = 1 .. Len(log) + 1
      /\ \A i \in 1 .. Len(log) : longer[i] = log[i]
      /\ longer[Len(log) + 1] = h
  BY <1>0
<1> HIDE DEF longer
<1>2. ASSUME NEW i \in DOMAIN longer, NEW r \in ToSet(acc), from < r, r < longer[i]
      PROVE  \E j \in 1 .. i - 1 : longer[j] = r
  <2>1. CASE i = Len(log) + 1
    <3>1. r \in ToSet(log)
      BY <1>1, <1>2, <2>1
    <3>2. PICK j \in 1 .. Len(log) : log[j] = r
      BY <1>1, <3>1 DEF ToSet
    <3>3. j \in 1 .. i - 1 /\ longer[j] = r
      BY <1>1, <2>1, <3>2
    <3>4. QED
      BY <3>3
  <2>2. CASE i \in 1 .. Len(log)
    <3>1. PICK j \in 1 .. i - 1 : log[j] = r
      BY <1>1, <1>2, <2>2 DEF GapFree
    <3>2. longer[j] = r
      BY <1>1, <2>2, <3>1
    <3>3. QED
      BY <3>2
  <2>3. QED
    BY <1>1, <2>1, <2>2
<1>3. \A i \in DOMAIN longer : longer[i] \in ToSet(acc)
  BY <1>1 DEF GapFree
<1>4. QED
  BY <1>2, <1>3 DEF GapFree, longer

\* All accepted requests are appended to a log.
LEMMA GapFreeConcat ==
  ASSUME NEW log \in Seq(Request), NEW acc \in Seq(Request), NEW from \in Int,
         GapFree(log, acc, from), Rising(acc)
  PROVE  GapFree(log \o acc, acc, from)
<1> DEFINE longer == log \o acc
<1>1. /\ DOMAIN log = 1 .. Len(log) /\ Len(log) \in Nat
      /\ DOMAIN acc = 1 .. Len(acc) /\ Len(acc) \in Nat
      /\ DOMAIN longer = 1 .. Len(log) + Len(acc)
      /\ \A i \in 1 .. Len(log) : longer[i] = log[i]
      /\ \A i \in 1 .. Len(acc) : longer[Len(log) + i] = acc[i]
      /\ \A i \in 1 .. Len(acc) : acc[i] \in Request
  OBVIOUS
<1> HIDE DEF longer
<1>2. ASSUME NEW i \in DOMAIN longer
      PROVE  i \in 1 .. Len(log) \/ \E n \in 1 .. Len(acc) : i = Len(log) + n
  <2>1. CASE i <= Len(log)
    BY <1>1, <2>1
  <2>2. CASE ~(i <= Len(log))
    <3>1. i - Len(log) \in 1 .. Len(acc) /\ i = Len(log) + (i - Len(log))
      BY <1>1, <2>2
    <3>2. QED
      BY <3>1
  <2>3. QED
    BY <2>1, <2>2
<1>3. ASSUME NEW i \in DOMAIN longer, NEW r \in ToSet(acc), from < r, r < longer[i]
      PROVE  \E j \in 1 .. i - 1 : longer[j] = r
  <2>1. CASE i \in 1 .. Len(log)
    <3>1. PICK j \in 1 .. i - 1 : log[j] = r
      BY <1>1, <1>3, <2>1 DEF GapFree
    <3>2. longer[j] = r
      BY <1>1, <2>1, <3>1
    <3>3. QED
      BY <3>2
  <2>2. ASSUME NEW n \in 1 .. Len(acc), i = Len(log) + n
        PROVE  \E j \in 1 .. i - 1 : longer[j] = r
    <3>1. PICK m \in 1 .. Len(acc) : acc[m] = r
      BY <1>1 DEF ToSet
    <3>2. acc[m] < acc[n]
      BY <1>1, <1>3, <2>2, <3>1
    <3>3. m < n
      <4>1. n < m => acc[n] < acc[m]
        BY <1>1 DEF Rising
      <4>2. acc[n] \in Int /\ acc[m] \in Int
        BY <1>1, BoundAssumption DEF Request
      <4>3. QED
        BY <3>2, <4>1, <4>2
    <3>4. Len(log) + m \in 1 .. i - 1 /\ longer[Len(log) + m] = r
      BY <1>1, <2>2, <3>1, <3>3
    <3>5. QED
      BY <3>4
  <2>3. QED
    BY <1>2, <2>1, <2>2
<1>4. \A i \in DOMAIN longer : longer[i] \in ToSet(acc)
  <2>1. \A n \in 1 .. Len(acc) : acc[n] \in ToSet(acc)
    BY <1>1 DEF ToSet
  <2>2. QED
    BY <1>1, <1>2, <2>1 DEF GapFree
<1>5. QED
  BY <1>3, <1>4 DEF GapFree, longer

\* A later state needs less of the log, and one more accepted request
\* nothing more.
LEMMA GapFreeLater ==
  ASSUME NEW log \in Seq(Request), NEW acc \in Seq(Request), NEW from \in Int,
         GapFree(log, acc, from)
  PROVE  /\ \A to \in Int : from <= to => GapFree(log, acc, to)
         /\ \A x \in Request :
              (\A r \in ToSet(acc) : r < x) => GapFree(log, Append(acc, x), from)
<1>1. \A r \in ToSet(acc) : r \in Int
  BY BoundAssumption DEF ToSet, Request
<1>2. \A to \in Int : from <= to => GapFree(log, acc, to)
  BY <1>1 DEF GapFree
<1>3. ASSUME NEW x \in Request, \A r \in ToSet(acc) : r < x
      PROVE  GapFree(log, Append(acc, x), from)
  <2>1. ToSet(Append(acc, x)) = ToSet(acc) \cup {x}
    BY AppendSet
  <2>2. x \in Int /\ \A i \in DOMAIN log : log[i] < x /\ log[i] \in Int
    BY <1>1, <1>3, BoundAssumption DEF GapFree, Request
  <2>3. QED
    BY <2>1, <2>2 DEF GapFree
<1>4. QED
  BY <1>2, <1>3

\* The requests are accepted, and wait, in order; each kind has its own.
Ordered ==
  /\ \A k \in Kind :
        /\ Rising(accepted[k]) /\ Rising(pending[k])
        /\ ToSet(pending[k]) \subseteq ToSet(accepted[k])
        /\ \A r \in ToSet(accepted[k]) : KindOf[r] = k
  /\ \A c \in Caller : calls[c] # Idle => up

LogsOrdered == Ordered /\ LogsContinueState

LEMMA LogsAsGapFree ==
  LogsContinueState <=>
    (exclusive => \A k \in Kind : GapFree(store.log[k], accepted[k], store.state))
BY DEF LogsContinueState, GapFree

\* The head of a queue is what its log needs next: all that was accepted
\* before it is durable, and nowhere but in the state or in this log.
LEMMA HeadIsNext ==
  ASSUME StoreInv, LogsOrdered, exclusive, up, NEW k \in Kind, pending[k] # <<>>
  PROVE  /\ Head(pending[k]) \in ToSet(accepted[k])
         /\ \A r \in ToSet(accepted[k]) :
              store.state < r /\ r < Head(pending[k]) => r \in InLog(k)
<1>1. pending[k] \in Seq(Request) /\ store.state \in Int
  BY DEF StoreInv, TypeOK, Stores, NoState
<1>2. Head(pending[k]) \in ToSet(pending[k])
  BY <1>1, TailSet
<1>3. ASSUME NEW r \in ToSet(accepted[k]), store.state < r, r < Head(pending[k])
      PROVE  r \in InLog(k)
  <2>1. r \in 1 .. stateSeq /\ KindOf[r] = k
    BY DEF StoreInv, Known, LogsOrdered, Ordered
  <2>2. r \notin ToSet(pending[k])
    BY <1>1, <1>3, RisingTail DEF LogsOrdered, Ordered
  <2>3. \A j \in Kind : r \notin ToSet(pending[j])
    BY <2>1, <2>2 DEF LogsOrdered, Ordered
  <2>4. r \in Kept
    BY <2>1, <2>3 DEF StoreInv, ReleasedIsKept, Released
  <2>5. PICK j \in Kind : r \in InLog(j)
    <3>1. stateSeq \in Nat
      BY BoundAssumption DEF StoreInv, TypeOK
    <3>2. ~(r <= store.state)
      BY <1>1, <1>3, <2>1, <3>1
    <3>3. QED
      BY <2>4, <3>2 DEF Kept, Logged
  <2>6. r \in ToSet(accepted[j])
    BY <2>5, LogsAsGapFree DEF LogsOrdered, GapFree, InLog, ToSet
  <2>7. QED
    BY <2>1, <2>5, <2>6 DEF LogsOrdered, Ordered
<1>4. QED
  BY <1>2, <1>3 DEF LogsOrdered, Ordered

\* No command of a call that nobody overlaps leaves a gap.
LEMMA EffectGapFree ==
  ASSUME StoreInv, LogsOrdered, exclusive, NEW c \in Caller, calls[c] # Idle
  PROVE  \A k \in Kind :
            GapFree(Effect(calls[c]).log[k], accepted[k], Effect(calls[c]).state)
<1>0. PICK call \in CallStates : call = calls[c] /\ call # Idle
  BY DEF StoreInv, TypeOK
<1> DEFINE e == Effect(call)
<1>1. /\ TypeOK /\ InStepFor(call) /\ up
      /\ store \in Stores /\ store.state \in Int
      /\ store.log \in [Kind -> Seq(Request)] /\ accepted \in [Kind -> Seq(Request)]
      /\ "action" \in Kind /\ "decision" \in Kind
      /\ \A k \in Kind : GapFree(store.log[k], accepted[k], store.state)
      /\ \A k \in Kind : Rising(accepted[k])
  BY <1>0, LogsAsGapFree
     DEF StoreInv, TypeOK, InStep, Stores, NoState, LogsOrdered, Ordered, Kind
<1>2. CASE call.op = "flush"
  <2>1. /\ call.kind \in Kind /\ pending[call.kind] # <<>>
        /\ call.head = Head(pending[call.kind])
    BY <1>1, <1>2, CallOK DEF InStepFor
  <2>2. /\ e.log = [store.log EXCEPT ![call.kind] = Append(store.log[call.kind], call.head)]
        /\ e.state = store.state
    BY <1>1, <1>2 DEF Effect, Stores
  <2>3. /\ call.head \in ToSet(accepted[call.kind])
        /\ \A r \in ToSet(accepted[call.kind]) :
              store.state < r /\ r < call.head => r \in ToSet(store.log[call.kind])
    BY <1>1, <2>1, HeadIsNext DEF InLog
  <2>4. /\ store.log[call.kind] \in Seq(Request) /\ accepted[call.kind] \in Seq(Request)
        /\ GapFree(store.log[call.kind], accepted[call.kind], store.state)
    BY <1>1, <2>1
  <2>5. GapFree(Append(store.log[call.kind], call.head), accepted[call.kind], store.state)
    BY <1>1, <2>3, <2>4, GapFreeAppend
  <2> HIDE DEF e
  <2>6. ASSUME NEW k \in Kind PROVE GapFree(e.log[k], accepted[k], e.state)
    <3>1. CASE k = call.kind
      <4>1. e.log[k] = Append(store.log[call.kind], call.head)
        BY <1>1, <2>2, <3>1
      <4>2. QED
        BY <2>2, <2>5, <3>1, <4>1
    <3>2. CASE k # call.kind
      <4>1. e.log[k] = store.log[k]
        BY <1>1, <2>2, <3>2
      <4>2. QED
        BY <1>1, <2>2, <4>1
    <3>3. QED
      BY <3>1, <3>2
  <2>7. QED
    BY <1>0, <2>6 DEF e
<1>3. CASE call.op = "save" /\ call.next \in {"meta", "manifest", "state"}
  <2>1. /\ e.log = store.log
        /\ e.state \in Int /\ store.state <= e.state
    <3>1. CASE call.next = "state"
      <4>1. e = [store EXCEPT !.state = call.age]
        BY <1>3, <3>1 DEF Effect, SaveEffect
      <4>2. call.age \in Int /\ store.state <= call.age
        BY <1>1, <1>3, CallOK DEF InStepFor
      <4>3. QED
        BY <1>1, <4>1, <4>2 DEF Stores
    <3>2. CASE call.next \in {"meta", "manifest"}
      <4>1. e = [store EXCEPT !.meta = TRUE] \/ e = [store EXCEPT !.manifest = TRUE]
        BY <1>3, <3>2 DEF Effect, SaveEffect
      <4>2. e.log = store.log /\ e.state = store.state
        BY <1>1, <4>1 DEF Stores
      <4>3. QED
        BY <1>1, <4>2
    <3>3. QED
      BY <1>3, <3>1, <3>2
  <2> HIDE DEF e
  <2>2. ASSUME NEW k \in Kind PROVE GapFree(e.log[k], accepted[k], e.state)
    BY <1>1, <2>1, GapFreeLater
  <2>3. QED
    BY <1>0, <2>2 DEF e
<1>4. CASE call.op = "save" /\ call.next \in {"delAction", "delDecision"}
  <2>1. PICK j \in Kind : e = [store EXCEPT !.log[j] = <<>>]
    BY <1>1, <1>4 DEF Effect, SaveEffect
  <2>2. e.log = [store.log EXCEPT ![j] = <<>>] /\ e.state = store.state
    BY <1>1, <2>1 DEF Stores
  <2> HIDE DEF e
  <2>3. ASSUME NEW k \in Kind PROVE GapFree(e.log[k], accepted[k], e.state)
    <3>1. CASE k = j
      <4>1. e.log[k] = <<>>
        BY <1>1, <2>2, <3>1
      <4>2. QED
        BY <4>1 DEF GapFree
    <3>2. CASE k # j
      <4>1. e.log[k] = store.log[k]
        BY <1>1, <2>2, <3>2
      <4>2. QED
        BY <1>1, <2>2, <4>1
    <3>3. QED
      BY <3>1, <3>2
  <2>4. QED
    BY <1>0, <2>3 DEF e
<1>5. CASE call.op = "save" /\ call.next \in {"pushAction", "pushDecision"}
  <2>1. PICK j \in Kind : e = [store EXCEPT !.log[j] = store.log[j] \o accepted[j]]
    BY <1>1, <1>5 DEF Effect, SaveEffect
  <2>2. /\ e.log = [store.log EXCEPT ![j] = store.log[j] \o accepted[j]]
        /\ e.state = store.state
    BY <1>1, <2>1 DEF Stores
  <2>3. GapFree(store.log[j] \o accepted[j], accepted[j], store.state)
    BY <1>1, GapFreeConcat
  <2> HIDE DEF e
  <2>4. ASSUME NEW k \in Kind PROVE GapFree(e.log[k], accepted[k], e.state)
    <3>1. CASE k = j
      <4>1. e.log[k] = store.log[j] \o accepted[j]
        BY <1>1, <2>2, <3>1
      <4>2. QED
        BY <2>2, <2>3, <3>1, <4>1
    <3>2. CASE k # j
      <4>1. e.log[k] = store.log[k]
        BY <1>1, <2>2, <3>2
      <4>2. QED
        BY <1>1, <2>2, <4>1
    <3>3. QED
      BY <3>1, <3>2
  <2>5. QED
    BY <1>0, <2>4 DEF e
<1>6. QED
  BY <1>0, <1>2, <1>3, <1>4, <1>5, CallOK, CommandOK

\* A new request is the last one everywhere.
LEMMA AcceptKeepsLogs ==
  ASSUME StoreInv, LogsOrdered, Accept
  PROVE  LogsOrdered'
<1> DEFINE x == stateSeq'
           j == KindOf[x]
<1>1. /\ x \in Request /\ x = stateSeq + 1 /\ j \in Kind /\ stateSeq \in Nat /\ up
      /\ UNCHANGED <<calls, up, store, exclusive>>
      /\ accepted' = [accepted EXCEPT ![j] = Append(accepted[j], x)]
      /\ pending' = [pending EXCEPT ![j] = Append(pending[j], x)]
      /\ accepted \in [Kind -> Seq(Request)] /\ pending \in [Kind -> Seq(Request)]
      /\ store.log \in [Kind -> Seq(Request)] /\ store.state \in Int
  <2>1. /\ x = stateSeq + 1 /\ stateSeq \in 0 .. MaxAccepted /\ stateSeq < MaxAccepted /\ up
        /\ UNCHANGED <<calls, up, store, exclusive>>
        /\ accepted' = [accepted EXCEPT ![j] = Append(accepted[j], x)]
        /\ pending' = [pending EXCEPT ![j] = Append(pending[j], x)]
    BY DEF Accept, StoreInv, TypeOK
  <2>2. x \in Request /\ stateSeq \in Nat
    BY <2>1, BoundAssumption DEF Request
  <2>3. j \in Kind
    BY <2>2, KindAssumption
  <2>4. /\ accepted \in [Kind -> Seq(Request)] /\ pending \in [Kind -> Seq(Request)]
        /\ store.log \in [Kind -> Seq(Request)] /\ store.state \in Int
    BY DEF StoreInv, TypeOK, Stores, NoState
  <2>5. QED
    BY <2>1, <2>2, <2>3, <2>4
<1> HIDE DEF x
<1>2. \A k \in Kind : \A r \in ToSet(accepted[k]) : r < x
  BY <1>1 DEF StoreInv, Known
<1>3. ASSUME NEW k \in Kind
      PROVE  /\ Rising(accepted'[k]) /\ Rising(pending'[k])
             /\ ToSet(pending'[k]) \subseteq ToSet(accepted'[k])
             /\ \A r \in ToSet(accepted'[k]) : KindOf[r] = k
             /\ exclusive => GapFree(store.log[k], accepted'[k], store.state)
  <2>0. /\ accepted[k] \in Seq(Request) /\ pending[k] \in Seq(Request)
        /\ store.log[k] \in Seq(Request)
        /\ Rising(accepted[k]) /\ Rising(pending[k])
        /\ ToSet(pending[k]) \subseteq ToSet(accepted[k])
        /\ \A r \in ToSet(accepted[k]) : KindOf[r] = k
        /\ exclusive => GapFree(store.log[k], accepted[k], store.state)
    BY <1>1, LogsAsGapFree DEF LogsOrdered, Ordered
  <2>1. CASE k = j
    <3>1. accepted'[k] = Append(accepted[k], x) /\ pending'[k] = Append(pending[k], x)
      BY <1>1, <2>1
    <3>2. /\ ToSet(Append(accepted[k], x)) = ToSet(accepted[k]) \cup {x}
          /\ ToSet(Append(pending[k], x)) = ToSet(pending[k]) \cup {x}
      BY <1>1, <2>0, AppendSet
    <3>3. Rising(Append(accepted[k], x)) /\ Rising(Append(pending[k], x))
      BY <1>1, <1>2, <2>0, RisingAppend
    <3>4. exclusive => GapFree(store.log[k], Append(accepted[k], x), store.state)
      BY <1>1, <1>2, <2>0, GapFreeLater
    <3>5. QED
      BY <2>0, <2>1, <3>1, <3>2, <3>3, <3>4
  <2>2. CASE k # j
    <3>1. accepted'[k] = accepted[k] /\ pending'[k] = pending[k]
      BY <1>1, <2>2
    <3>2. QED
      BY <2>0, <3>1
  <2>3. QED
    BY <2>1, <2>2
<1>4. Ordered'
  BY <1>1, <1>3 DEF LogsOrdered, Ordered
<1>5. LogsContinueState'
  <2>1. exclusive' => \A k \in Kind : GapFree(store'.log[k], accepted'[k], store'.state)
    BY <1>1, <1>3
  <2>2. QED
    BY <2>1 DEF LogsContinueState, GapFree
<1>6. QED
  BY <1>4, <1>5 DEF LogsOrdered

\* A command returns or fails; a flush that returns drops the head of its
\* queue.
LEMMA AnswerKeepsLogs ==
  ASSUME StoreInv, LogsOrdered, NEW c \in Caller, Returns(c) \/ Fails(c)
  PROVE  LogsOrdered'
<1>1. /\ calls[c] # Idle /\ store' \in {store, Effect(calls[c])}
      /\ UNCHANGED <<accepted, up, exclusive>> /\ up
      /\ \A d \in Caller : d # c => calls'[d] = calls[d]
      /\ calls[c] \in CallStates /\ pending \in [Kind -> Seq(Request)]
  BY DEF Returns, Fails, Continues, StoreInv, TypeOK, LogsOrdered, Ordered
<1>2. ASSUME NEW k \in Kind
      PROVE  \/ pending'[k] = pending[k]
             \/ pending[k] # <<>> /\ pending'[k] = Tail(pending[k])
  <2>1. CASE pending' = pending
    BY <2>1
  <2>2. CASE \E j \in Kind : pending' = Shifted(j)
    <3>1. PICK j \in Kind : pending' = Shifted(j)
      BY <2>2
    <3>2. CASE pending[j] = <<>>
      <4>1. pending' = pending
        BY <1>1, <3>1, <3>2 DEF Shifted
      <4>2. QED
        BY <4>1
    <3>3. CASE pending[j] # <<>>
      <4>1. pending' = [pending EXCEPT ![j] = Tail(pending[j])]
        BY <1>1, <3>1, <3>3 DEF Shifted
      <4>2. pending'[k] = IF k = j THEN Tail(pending[j]) ELSE pending[k]
        BY <1>1, <4>1
      <4>3. QED
        BY <3>3, <4>2
    <3>4. QED
      BY <3>2, <3>3
  <2>3. pending' = pending \/ \E j \in Kind : pending' = Shifted(j)
    BY <1>1, CallOK DEF Returns, Fails, Continues
  <2>4. QED
    BY <2>1, <2>2, <2>3
<1>3. ASSUME NEW k \in Kind
      PROVE  Rising(pending'[k]) /\ ToSet(pending'[k]) \subseteq ToSet(pending[k])
  <2>1. CASE pending'[k] = pending[k]
    BY <2>1 DEF LogsOrdered, Ordered
  <2>2. CASE pending[k] # <<>> /\ pending'[k] = Tail(pending[k])
    <3>1. pending[k] \in Seq(Request) /\ Rising(pending[k])
      BY <1>1 DEF LogsOrdered, Ordered
    <3>2. Rising(Tail(pending[k])) /\ ToSet(Tail(pending[k])) \subseteq ToSet(pending[k])
      BY <2>2, <3>1, RisingTail, TailSet
    <3>3. QED
      BY <2>2, <3>2
  <2>3. QED
    BY <1>2, <2>1, <2>2
<1>4. Ordered'
  BY <1>1, <1>3 DEF LogsOrdered, Ordered
<1>5. LogsContinueState'
  <2>1. ASSUME exclusive, NEW k \in Kind
        PROVE  GapFree(store'.log[k], accepted[k], store'.state)
    <3>1. CASE store' = store
      BY <2>1, <3>1, LogsAsGapFree DEF LogsOrdered
    <3>2. CASE store' = Effect(calls[c])
      BY <1>1, <2>1, <3>2, EffectGapFree
    <3>3. QED
      BY <1>1, <3>1, <3>2
  <2>2. QED
    BY <1>1, <2>1 DEF LogsContinueState, GapFree
<1>6. QED
  BY <1>4, <1>5 DEF LogsOrdered

LEMMA LogsInvariant == Spec => []LogsOrdered
<1>1. Init => LogsOrdered
  <2>1. SUFFICES ASSUME Init PROVE LogsOrdered
    OBVIOUS
  <2>2. \A k \in Kind : accepted[k] = <<>> /\ pending[k] = <<>> /\ store.log[k] = <<>>
    BY <2>1 DEF Init
  <2>3. Rising(<<>>)
    BY DEF Rising
  <2>4. Ordered
    BY <2>1, <2>2, <2>3, EmptySet DEF Ordered, Init
  <2>5. LogsContinueState
    BY <2>2 DEF LogsContinueState
  <2>6. QED
    BY <2>4, <2>5 DEF LogsOrdered
<1>2. ASSUME StoreInv /\ StageOK, LogsOrdered, [Next]_vars PROVE LogsOrdered'
  <2>1. ASSUME NEW c \in Caller, FlushPersistence(c) \/ SaveSnapshot(c) PROVE LogsOrdered'
    <3>1. /\ up /\ up' = up /\ exclusive /\ UNCHANGED <<accepted, pending, store>>
      BY <2>1 DEF FlushPersistence, SaveSnapshot, Begin
    <3>2. QED
      BY <1>2, <3>1 DEF LogsOrdered, Ordered, LogsContinueState
  <2>2. CASE Crash
    <3>1. /\ \A k \in Kind : pending'[k] = <<>>
          /\ \A c \in Caller : calls'[c] = Idle
          /\ UNCHANGED <<accepted, store, exclusive>>
      BY <2>2 DEF Crash
    <3>2. Rising(<<>>)
      BY DEF Rising
    <3>3. Ordered'
      BY <1>2, <3>1, <3>2, EmptySet DEF LogsOrdered, Ordered
    <3>4. LogsContinueState'
      BY <1>2, <3>1 DEF LogsOrdered, LogsContinueState
    <3>5. QED
      BY <3>3, <3>4 DEF LogsOrdered
  <2>3. CASE LockExpires \/ (\E s \in Server : RecoveryStep(s)) \/ UNCHANGED vars
    <3>1. UNCHANGED sessionVars
      BY <2>3 DEF LockExpires, RecoveryStep, Recover, Acquire, Inspect, Renew, LoadSnapshot,
                  Reads, FreezeMatch, CheckLock, DeleteLock, RecoveryFails, vars
    <3>2. QED
      BY <1>2, <3>1 DEF sessionVars, LogsOrdered, Ordered, LogsContinueState
  <2>4. QED
    BY <1>2, <2>1, <2>2, <2>3, AcceptKeepsLogs, AnswerKeepsLogs
       DEF StoreInv, Next, SessionStep
<1>3. QED
  BY <1>1, <1>2, StoreInvariant, PTL DEF Spec

\* While no two calls have overlapped, the log of each kind continues the
\* stored state in order and without a gap (LogsContinueState), whatever
\* command failed and was sent again and however long a crash is ago.
THEOREM LogsStayInOrder == Spec => []LogsContinueState
<1>1. LogsOrdered => LogsContinueState
  BY DEF LogsOrdered
<1>2. QED
  BY LogsInvariant, <1>1, PTL
===========================================================================
