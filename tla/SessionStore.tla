--------------------------- MODULE SessionStore ---------------------------
(* One match and its active-match store: the session runtime that queues   *)
(* accepted requests and writes them, and the state, to Redis; and the     *)
(* servers that recover matches from there.  Every await is a step of its  *)
(* own, so calls overlap, fail half way and die with their process.        *)
EXTENDS Integers, Sequences, SequencesExt

CONSTANTS
    Caller,      \* callers of flushPersistence and saveSnapshot
    Server,      \* ownerInstanceId values of the servers that recover
    NoServer,    \* nobody holds the recovery lock
    MaxAccepted, \* bound: accepted requests
    KindOf,      \* the kind of the n-th accepted request
    MaxFailures  \* bound: commands of the runtime that fail

ASSUME BoundAssumption == MaxAccepted \in Nat /\ MaxFailures \in Nat
ASSUME NoServerAssumption == NoServer \notin Server

Kind == {"action", "decision"}
Request == 1 .. MaxAccepted

ASSUME KindAssumption == KindOf \in [Request -> Kind]

VARIABLES
    stateSeq,   \* local.state, told by how many requests it has accepted
    accepted,   \* acceptedActions, acceptedDecisions (after a crash, history)
    pending,    \* pendingActions, pendingDecisions: the requests to append
    calls,      \* what each caller awaits
    up,         \* the process that hosts the match is alive
    store,      \* the keys of the match in Redis but its lock
    lock,       \* the recovery lock: a server, or NoServer
    recovery,   \* where each server is in recoverActiveMatches
    failures,   \* bound: the commands that have failed
    exclusive,  \* history: no two calls of the runtime have overlapped
    lapsed      \* history: the lock has expired under a server at work

sessionVars == <<stateSeq, accepted, pending, calls, up, store, failures, exclusive>>
recoveryVars == <<lock, recovery, lapsed>>
vars == <<sessionVars, recoveryVars>>

Idle == [op |-> "idle"]
Flush(k, r) == [op |-> "flush", kind |-> k, head |-> r]
Save(age, next) == [op |-> "save", age |-> age, next |-> next]

(* The commands of the Redis saveSnapshot, each the one after which it is  *)
(* sent.                                                                   *)
FaultyFollowing ==
    [meta |-> "delAction", delAction |-> "delDecision", delDecision |-> "state",
     state |-> "manifest", manifest |-> "pushAction",
     pushAction |-> "pushDecision", pushDecision |-> "end"]
Following ==
    [meta |-> "state", state |-> "manifest", manifest |-> "delAction",
     delAction |-> "delDecision", delDecision |-> "pushAction",
     pushAction |-> "pushDecision", pushDecision |-> "end"]
Command == DOMAIN Following

CallStates ==
    {Idle} \cup {Flush(k, r) : k \in Kind, r \in Request}
           \cup {Save(a, n) : a \in 0 .. MaxAccepted, n \in Command}

NoState == -1
Stores == [meta : BOOLEAN, state : {NoState} \cup 0 .. MaxAccepted,
           manifest : BOOLEAN, log : [Kind -> Seq(Request)]]

(* A server at work: of what was durable when it began, what it has not    *)
(* read yet (history; nothing is owed once a snapshot is written meanwhile *)
(* or calls have overlapped).                                              *)
AtRest == [at |-> "rest"]
Stages == {"acquire", "inspect", "renew", "snapshot", "logs", "freeze", "check", "delete"}
Work == [at : Stages, owed : SUBSET Request]

---------------------------------------------------------------------------
InLog(k) == ToSet(store.log[k])
Logged == UNION {InLog(k) : k \in Kind}

(* What the keys of the match hold: the requests the stored state has seen *)
(* and those in the logs.                                                  *)
Kept == {r \in 1 .. stateSeq : r <= store.state} \cup Logged

(* What a recovery would find.  A match without its meta key is not listed *)
(* and one without state or manifest is frozen, whatever its logs hold.    *)
Loads == store.meta /\ store.state # NoState /\ store.manifest
Durable == IF Loads THEN Kept ELSE {}
Released == {r \in 1 .. stateSeq : \A k \in Kind : r \notin ToSet(pending[k])}

(* storeRecord for an accepted request.                                    *)
Accept ==
    /\ up /\ exclusive /\ stateSeq < MaxAccepted
    /\ stateSeq' = stateSeq + 1
    /\ accepted' = [accepted EXCEPT ![KindOf[stateSeq']] = Append(@, stateSeq')]
    /\ pending' = [pending EXCEPT ![KindOf[stateSeq']] = Append(@, stateSeq')]
    /\ UNCHANGED <<calls, up, store, failures, exclusive, recoveryVars>>

(* The loops of flushPersistence: first the actions, then the decisions,   *)
(* with no way back to the actions.                                        *)
FlushFrom(k, queues) ==
    IF k = "action" /\ queues["action"] # <<>>
    THEN Flush("action", Head(queues["action"]))
    ELSE IF queues["decision"] # <<>>
         THEN Flush("decision", Head(queues["decision"])) ELSE Idle

(* The model follows a runtime to the end of the first calls that overlap, *)
(* and nobody recovers its match then.                                     *)
Undisturbed == lock = NoServer /\ ~lapsed /\ \A s \in Server : recovery[s] = AtRest
Begin(c, call) ==
    /\ up /\ exclusive /\ calls[c] = Idle
    /\ calls' = [calls EXCEPT ![c] = call]
    /\ exclusive' = \A d \in Caller : calls[d] = Idle
    /\ exclusive' \/ Undisturbed
    /\ UNCHANGED <<stateSeq, accepted, pending, up, store, failures, recoveryVars>>

FlushPersistence(c) ==
    /\ FlushFrom("action", pending) # Idle
    /\ Begin(c, FlushFrom("action", pending))

(* saveSnapshot hands over the state of this moment, and the arrays of all *)
(* accepted requests, which go on growing.                                 *)
SaveSnapshot(c) == Begin(c, Save(stateSeq, "meta"))

(* The effect in Redis of the command that a call awaits.                  *)
SaveEffect(call) ==
    CASE call.next = "meta" -> [store EXCEPT !.meta = TRUE]
      [] call.next = "state" -> [store EXCEPT !.state = call.age]
      [] call.next = "manifest" -> [store EXCEPT !.manifest = TRUE]
      [] call.next = "delAction" -> [store EXCEPT !.log["action"] = <<>>]
      [] call.next = "delDecision" -> [store EXCEPT !.log["decision"] = <<>>]
      [] call.next = "pushAction" ->
            [store EXCEPT !.log["action"] = @ \o accepted["action"]]
      [] call.next = "pushDecision" ->
            [store EXCEPT !.log["decision"] = @ \o accepted["decision"]]
FaultyEffect(call) ==
    IF call.op = "flush"
    THEN [store EXCEPT !.log[call.kind] = <<call.head>> \o @]
    ELSE SaveEffect(call)
Effect(call) ==
    IF call.op = "flush"
    THEN [store EXCEPT !.log[call.kind] = Append(@, call.head)]
    ELSE SaveEffect(call)

(* The await returns.  flushPersistence drops the head of the queue, which *)
(* need not be the request it has appended, and takes the next.            *)
Shifted(k) == [pending EXCEPT ![k] = IF @ = <<>> THEN @ ELSE Tail(@)]
FaultyContinues(c) ==
    LET call == calls[c]
    IN  IF call.op = "flush"
        THEN /\ pending' = Shifted(call.kind)
             /\ calls' = [calls EXCEPT ![c] = FlushFrom(call.kind, Shifted(call.kind))]
        ELSE /\ calls' = [calls EXCEPT ![c] =
                            IF call.next = "end" THEN Idle
                            ELSE Save(call.age, Following[call.next])]
             /\ UNCHANGED pending
Continues(c) ==
    LET call == calls[c]
    IN  IF call.op = "flush"
        THEN /\ pending' = Shifted(call.kind)
             /\ calls' = [calls EXCEPT ![c] = FlushFrom(call.kind, Shifted(call.kind))]
        ELSE /\ calls' = [calls EXCEPT ![c] =
                            IF Following[call.next] = "end" THEN Idle
                            ELSE Save(call.age, Following[call.next])]
             /\ UNCHANGED pending

(* A snapshot under way tears what a server is reading.                    *)
Excused == [s \in Server |-> IF recovery[s].at = "rest" THEN AtRest
                             ELSE [recovery[s] EXCEPT !.owed = {}]]
Tears(c) == recovery' = IF calls[c].op = "save" THEN Excused ELSE recovery

Returns(c) ==
    /\ calls[c] # Idle
    /\ store' = Effect(calls[c])
    /\ Continues(c)
    /\ Tears(c)
    /\ UNCHANGED <<stateSeq, accepted, up, failures, exclusive, lock, lapsed>>

(* The await rejects; the command may have been carried out all the same.  *)
FaultyFails(c) ==
    /\ calls[c] # Idle /\ failures < MaxFailures /\ failures' = failures + 1
    /\ store' \in {store, Effect(calls[c])}
    /\ calls' = [calls EXCEPT ![c] = Idle]
    /\ pending' = IF calls[c].op = "flush" THEN Shifted(calls[c].kind) ELSE pending
    /\ Tears(c)
    /\ UNCHANGED <<stateSeq, accepted, up, exclusive, lock, lapsed>>
Fails(c) ==
    /\ calls[c] # Idle /\ failures < MaxFailures /\ failures' = failures + 1
    /\ store' \in {store, Effect(calls[c])}
    /\ calls' = [calls EXCEPT ![c] = Idle]
    /\ Tears(c)
    /\ UNCHANGED <<stateSeq, accepted, pending, up, exclusive, lock, lapsed>>

Crash ==
    /\ up /\ up' = FALSE
    /\ pending' = [k \in Kind |-> <<>>]
    /\ calls' = [c \in Caller |-> Idle]
    /\ UNCHANGED <<stateSeq, accepted, store, failures, exclusive, recoveryVars>>

---------------------------------------------------------------------------
(* recoverActiveMatches at server s, for this match                        *)

At(s, stage) == recovery[s].at = stage
Go(s, stage) == recovery' = [recovery EXCEPT ![s].at = stage]
Leave(s) == recovery' = [recovery EXCEPT ![s] = AtRest]

(* listActiveMatchIds finds a match by its meta key.                       *)
Recover(s) ==
    /\ At(s, "rest") /\ store.meta /\ exclusive
    /\ recovery' = [recovery EXCEPT ![s] =
                      [at |-> "acquire",
                       owed |-> IF \A c \in Caller : calls[c].op # "save"
                                THEN Durable ELSE {}]]
    /\ UNCHANGED <<sessionVars, lock, lapsed>>

(* tryAcquireRecoveryLock: SET NX, and when that fails, GET, and when the  *)
(* lock is this server's own, SET.                                         *)
FaultyAcquire(s) ==
    /\ At(s, "acquire")
    /\ lock' = s /\ Go(s, "snapshot")
    /\ UNCHANGED <<sessionVars, lapsed>>
Acquire(s) ==
    /\ At(s, "acquire")
    /\ IF lock = NoServer THEN lock' = s /\ Go(s, "snapshot")
       ELSE Go(s, "inspect") /\ UNCHANGED lock
    /\ UNCHANGED <<sessionVars, lapsed>>

Inspect(s) ==
    /\ At(s, "inspect")
    /\ IF lock = s THEN Go(s, "renew") ELSE Leave(s)
    /\ UNCHANGED <<sessionVars, lock, lapsed>>

Renew(s) ==
    /\ At(s, "renew")
    /\ lock' = s
    /\ Go(s, "snapshot")
    /\ UNCHANGED <<sessionVars, lapsed>>

(* loadSnapshot sends its reads together; commands of other connections    *)
(* come between them.  It answers undefined when a key is missing.         *)
Reads(s, next, found) ==
    /\ recovery' = [recovery EXCEPT ![s].at = next, ![s].owed = @ \ found]
    /\ UNCHANGED <<sessionVars, lock, lapsed>>

FaultyLoadSnapshot(s) ==
    \/ At(s, "snapshot") /\ Reads(s, "logs", {r \in Request : r <= store.state})
    \/ At(s, "logs") /\ Reads(s, "check", InLog("action"))
LoadSnapshot(s) ==
    \/ /\ At(s, "snapshot")
       /\ IF store.state = NoState \/ ~store.manifest
          THEN Reads(s, "freeze", {})
          ELSE Reads(s, "logs", {r \in Request : r <= store.state})
    \/ At(s, "logs") /\ Reads(s, "check", InLog("action") \cup InLog("decision"))

(* A match without a snapshot is frozen, and the loop goes on: the lock is *)
(* not released.                                                           *)
FreezeMatch(s) ==
    /\ At(s, "freeze")
    /\ Leave(s)
    /\ UNCHANGED <<sessionVars, lock, lapsed>>

(* The summary is kept, then releaseRecoveryLock: GET, and DEL when the    *)
(* lock is this server's own.                                              *)
CheckLock(s) ==
    /\ At(s, "check")
    /\ IF lock = s THEN Go(s, "delete") ELSE Leave(s)
    /\ UNCHANGED <<sessionVars, lock, lapsed>>

DeleteLock(s) ==
    /\ At(s, "delete")
    /\ lock' = NoServer
    /\ Leave(s)
    /\ UNCHANGED <<sessionVars, lapsed>>

(* An await of the recovery rejects, or the server dies: nothing releases  *)
(* the lock.                                                               *)
RecoveryFails(s) ==
    /\ ~At(s, "rest")
    /\ Leave(s)
    /\ UNCHANGED <<sessionVars, lock, lapsed>>

(* The lock's time to live is over (px).                                   *)
Holding(s) == recovery[s].at \notin {"rest", "acquire", "inspect"}
LockExpires ==
    /\ lock # NoServer
    /\ lock' = NoServer
    /\ lapsed' = (lapsed \/ Holding(lock))
    /\ UNCHANGED <<sessionVars, recovery>>

---------------------------------------------------------------------------
Init ==
    /\ stateSeq = 0
    /\ accepted = [k \in Kind |-> <<>>]
    /\ pending = [k \in Kind |-> <<>>]
    /\ calls = [c \in Caller |-> Idle]
    /\ up = TRUE /\ failures = 0
    /\ store = [meta |-> FALSE, state |-> NoState, manifest |-> FALSE,
                log |-> [k \in Kind |-> <<>>]]
    /\ lock = NoServer
    /\ recovery = [s \in Server |-> AtRest]
    /\ exclusive = TRUE
    /\ lapsed = FALSE

SessionStep ==
    \/ Accept
    \/ \E c \in Caller : FlushPersistence(c) \/ SaveSnapshot(c) \/ Returns(c) \/ Fails(c)
    \/ Crash

RecoveryStep(s) ==
    \/ Recover(s) \/ Acquire(s) \/ Inspect(s) \/ Renew(s) \/ LoadSnapshot(s)
    \/ FreezeMatch(s) \/ CheckLock(s) \/ DeleteLock(s) \/ RecoveryFails(s)

Next == SessionStep \/ LockExpires \/ \E s \in Server : RecoveryStep(s)

Spec == Init /\ [][Next]_vars

---------------------------------------------------------------------------
(* Properties                                                              *)

(* The queues, calls, keys and servers stay within their types.            *)
TypeOK ==
    /\ stateSeq \in 0 .. MaxAccepted
    /\ accepted \in [Kind -> Seq(Request)]
    /\ pending \in [Kind -> Seq(Request)]
    /\ calls \in [Caller -> CallStates]
    /\ up \in BOOLEAN /\ failures \in 0 .. MaxFailures
    /\ store \in Stores
    /\ lock \in Server \cup {NoServer}
    /\ recovery \in [Server -> {AtRest} \cup Work]
    /\ exclusive \in BOOLEAN /\ lapsed \in BOOLEAN

(* The store keeps its promise (DurableLog) through failing commands, a    *)
(* crash between any two of them and requests accepted meanwhile.          *)
Promise == INSTANCE DurableLog WITH
    count <- stateSeq, durable <- Durable, exclusive <- exclusive
DurableLogPromise == Promise!Spec

(* A request leaves its queue only when the store has it                   *)
(* (match-session.test.ts, "keeps accepted records pending when            *)
(* persistence append fails"), as long as no two calls overlap.  Once a    *)
(* snapshot has been written with its manifest, that is when a recovery    *)
(* would find it.  Before that it is in a log and nowhere else: a flush    *)
(* that comes before the first snapshot releases requests of a match that  *)
(* a crash would lose.                                                     *)
ReleasedIsDurable ==
    up /\ exclusive =>
        IF Loads THEN Released \subseteq Durable ELSE Released \subseteq Logged

(* The logs continue the stored state in order and without a gap: whoever  *)
(* replays a log, skipping what has been applied, meets the next request   *)
(* of its kind each time, whatever failed and was written twice.           *)
LogsContinueState ==
    exclusive => \A k \in Kind : \A i \in DOMAIN store.log[k] :
        /\ store.log[k][i] \in ToSet(accepted[k])
        /\ \A r \in ToSet(accepted[k]) :
              store.state < r /\ r < store.log[k][i]
              => \E j \in 1 .. i - 1 : store.log[k][j] = r

(* Servers recover a match one at a time unless a lock has expired under   *)
(* one of them.                                                            *)
OneRecoverer == ~lapsed => \A s \in Server : Holding(s) => lock = s

(* What a recovery loads holds all that was durable when it began, and it  *)
(* freezes no match of which something was durable then, unless a snapshot *)
(* was written in the meantime: the lock keeps other servers away, but not *)
(* a living host.                                                          *)
RecoveryIsWhole ==
    \A s \in Server : At(s, "check") \/ At(s, "freeze") => recovery[s].owed = {}
===========================================================================
