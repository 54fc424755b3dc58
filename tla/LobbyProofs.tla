---------------------------- MODULE LobbyProofs ----------------------------
(* Proofs about a lobby and its match: who sits where and plays which deck *)
(* through overlapping requests, and what is recorded of the result.       *)
EXTENDS Lobby, TLAPS

USE DEF Idle, Saving, Checking, Creating, Become

\* The players are the two seats, and no result is mistaken for "open".
LEMMA PlayersOK ==
  /\ PlayerOrder[1] \in Player /\ PlayerOrder[2] \in Player
  /\ PlayerOrder[1] # PlayerOrder[2]
  /\ \A p \in Player : p = PlayerOrder[1] \/ p = PlayerOrder[2]
  /\ "open" \notin Result /\ "open" \notin Player
BY PlayersAssumption DEF Player, Result

\* What a call that awaits carries with it.
LEMMA CallOK ==
  ASSUME NEW call \in CallStates
  PROVE  /\ call.op = "saving" =>
              /\ call.result \in Result /\ call.stage \in {"sent", "stored"}
              /\ call = Saving(call.result, call.stage)
         /\ call.op = "checking" =>
              /\ call.seat \in Player /\ call.deck \in Submission
              /\ call = Checking(call.seat, call.deck)
         /\ call.op = "creating" =>
              call.decks \in Seats(Submission) /\ call = Creating(call.decks)
         /\ call.op = "idle" => call = Idle
<1>1. CASE call = Idle
  BY <1>1
<1>2. CASE \E r \in Result, s \in {"sent", "stored"} : call = Saving(r, s)
  BY <1>2
<1>3. CASE \E p \in Player, s \in Submission : call = Checking(p, s)
  BY <1>3
<1>4. CASE \E d \in Seats(Submission) : call = Creating(d)
  BY <1>4
<1>5. QED
  BY <1>1, <1>2, <1>3, <1>4 DEF CallStates

LEMMA MadeCallOK ==
  /\ Idle \in CallStates
  /\ \A r \in Result : Saving(r, "sent") \in CallStates /\ Saving(r, "stored") \in CallStates
  /\ \A p \in Player, s \in Submission : Checking(p, s) \in CallStates
  /\ \A d \in Seats(Submission) : Creating(d) \in CallStates
<1>1. Idle \in CallStates
  BY DEF CallStates
<1>2. ASSUME NEW r \in Result, NEW s \in {"sent", "stored"}
      PROVE  Saving(r, s) \in CallStates
  BY DEF CallStates
<1>3. ASSUME NEW p \in Player, NEW s \in Submission
      PROVE  Checking(p, s) \in CallStates
  BY DEF CallStates
<1>4. ASSUME NEW d \in Seats(Submission) PROVE Creating(d) \in CallStates
  BY DEF CallStates
<1>5. QED
  BY <1>1, <1>2, <1>3, <1>4

\* The types of the lobby and of the session, by name.
LobbyType ==
  [owner : Seats(Account \cup {NoAccount}),
   decks : Seats(Submission \cup {NoDeck}), started : BOOLEAN]
SessionType ==
  [status : {"none", "choosing", "active"},
   owner : Seats(Account \cup {NoAccount}),
   decks : Seats(Submission \cup {NoDeck}),
   listed : Seats(Submission \cup {NoDeck}),
   result : Result \cup {"open"}]

\* A ready lobby has an account and its deck in each seat, and what it is
\* about to build a match of are these decks.
LEMMA EnsuredOK ==
  ASSUME NEW l \in LobbyType
  PROVE  /\ Ensured(l) \in CallStates
         /\ Ensured(l).op \in {"idle", "creating"}
         /\ Ensured(l).op = "creating" =>
              /\ ~l.started /\ Ready(l) /\ Ensured(l) = Creating(l.decks)
              /\ l.decks \in Seats(Submission)
              /\ l.owner \in Seats(Account)
<1>1. CASE ~l.started /\ Ready(l)
  <2>1. \A p \in Player : l.owner[p] \in Account /\ l.decks[p] \in Submission
    BY <1>1 DEF Ready, LobbyType, Seats, Submission
  <2>2. l.decks \in Seats(Submission) /\ l.owner \in Seats(Account)
    BY <2>1 DEF LobbyType, Seats
  <2>3. QED
    BY <1>1, <2>2, MadeCallOK DEF Ensured
<1>2. CASE ~(~l.started /\ Ready(l))
  BY <1>2, MadeCallOK DEF Ensured
<1>3. QED
  BY <1>1, <1>2

LEMMA PersistingOK ==
  ASSUME NEW r \in Result \cup {"open"}
  PROVE  /\ Persisting(r) \in CallStates
         /\ Persisting(r).op \in {"idle", "saving"}
         /\ Persisting(r).op = "saving" =>
              /\ ~persisted /\ r # "open" /\ r \in Result
              /\ Persisting(r) = Saving(r, "sent")
<1>1. CASE persisted \/ r = "open"
  BY <1>1, MadeCallOK DEF Persisting
<1>2. CASE ~(persisted \/ r = "open")
  BY <1>2, MadeCallOK DEF Persisting
<1>3. QED
  BY <1>1, <1>2

LEMMA SeatForOK ==
  ASSUME NEW a \in Account, NEW p \in SeatFor(a)
  PROVE  /\ p \in Player
         /\ lobby.owner[p] = a \/ (lobby.owner[p] = NoAccount /\ OwnSeat(a) = {})
BY DEF SeatFor, OwnSeat, OpenSeat, FirstOf

\* An account without a seat of its own sits nowhere in the lobby.
LEMMA OwnSeatOK ==
  ASSUME NEW a \in Account
  PROVE  /\ \A p \in OwnSeat(a) : p \in Player /\ lobby.owner[p] = a
         /\ OwnSeat(a) = {} => \A p \in Player : lobby.owner[p] # a
         /\ PlayerOrder[2] \in OwnSeat(a) => lobby.owner[PlayerOrder[1]] # a
<1>1. ASSUME NEW p \in Player, lobby.owner[p] = a PROVE OwnSeat(a) # {}
  BY <1>1 DEF OwnSeat, FirstOf
<1>2. QED
  BY <1>1, PlayersOK DEF OwnSeat, FirstOf

---------------------------------------------------------------------------
(* Types                                                                   *)

LEMMA InitTyped == Init => TypeOK
<1>1. SUFFICES ASSUME Init PROVE TypeOK
  OBVIOUS
<1>2. Everywhere(NoAccount) \in Seats(Account \cup {NoAccount})
  BY DEF Everywhere, Seats
<1>3. Everywhere(NoDeck) \in Seats(Submission \cup {NoDeck})
  BY DEF Everywhere, Seats
<1>4. \A s \in {"none", "choosing", "active"} : TemplateSession(s) \in SessionType
  BY <1>2, <1>3 DEF TemplateSession, Session, SessionType
<1>5. LobbySeats(Everywhere(NoAccount)) \in LobbyType
  BY <1>2, <1>3 DEF LobbySeats, LobbyType
<1>6. calls \in [Caller -> CallStates]
  BY <1>1, MadeCallOK DEF Init, RegistryInit
<1>7. session \in SessionType /\ lobby \in LobbyType
  BY <1>1, <1>4, <1>5 DEF Init, RegistryInit
<1>8. round \in 0 .. MaxRounds
  BY <1>1, RoundsAssumption DEF Init
<1>9. QED
  BY <1>1, <1>6, <1>7, <1>8 DEF Init, RegistryInit, TypeOK, SessionType, LobbyType

\* The part of the types that the registry's own actions can disturb.
LEMMA RegistryTyped ==
  ASSUME TypeOK, RegistryStep
  PROVE  /\ session' \in SessionType
         /\ calls' \in [Caller -> CallStates]
         /\ sockets' \subseteq Account \X Player
         /\ persisted' \in BOOLEAN /\ up' \in BOOLEAN
         /\ recorded' \in Result \cup {"open"}
         /\ origin' = origin
<1> USE DEF TypeOK
<1>0. session \in SessionType
  BY DEF SessionType
<1>1. CASE ChooseFirstPlayer
  BY <1>0, <1>1 DEF ChooseFirstPlayer, SessionType
<1>2. ASSUME NEW a \in Account, NEW p \in Player, ClaimSeat(a, p)
      PROVE  session' \in SessionType
  BY <1>0, <1>2 DEF ClaimSeat, SessionType, Seats
<1>3. CASE ResetMatch
  <2>1. Everywhere(NoAccount) \in Seats(Account \cup {NoAccount})
    BY DEF Everywhere, Seats
  <2>2. Everywhere(NoDeck) \in Seats(Submission \cup {NoDeck})
    BY DEF Everywhere, Seats
  <2>3. session' \in SessionType
    BY <1>3, <2>1, <2>2 DEF ResetMatch, TemplateSession, Session, SessionType
  <2>4. QED
    BY <1>3, <2>3 DEF ResetMatch
<1>4. ASSUME NEW c \in Caller, ApplyEnvelope(c)
      PROVE  session' \in SessionType /\ calls' \in [Caller -> CallStates]
  <2>1. PICK r \in ResultsAfter(session.result) :
          session' = [session EXCEPT !.result = r] /\ Become(c, Persisting(r))
    BY <1>4 DEF ApplyEnvelope
  <2>2. r \in Result \cup {"open"}
    BY <1>0 DEF ResultsAfter, SessionType
  <2>3. session' \in SessionType
    BY <1>0, <2>1, <2>2 DEF SessionType
  <2>4. QED
    BY <2>1, <2>2, <2>3, PersistingOK
<1>5. ASSUME NEW c \in Caller, SaveCommits(c)
      PROVE  recorded' \in Result /\ calls' \in [Caller -> CallStates]
  BY <1>5, CallOK, MadeCallOK DEF SaveCommits
<1>6. ASSUME NEW c \in Caller, SaveReturns(c)
      PROVE  persisted' \in BOOLEAN /\ calls' \in [Caller -> CallStates]
  BY <1>6, MadeCallOK DEF SaveReturns
<1>7. CASE Tick
  BY <1>0, <1>7 DEF Tick, SessionType, Result
<1>8. ASSUME NEW c \in Caller,
             ApplyEnvelope(c) \/ SaveCommits(c) \/ SaveReturns(c) \/ SaveFails(c)
      PROVE  /\ session' \in SessionType
             /\ calls' \in [Caller -> CallStates]
             /\ persisted' \in BOOLEAN /\ recorded' \in Result \cup {"open"}
             /\ up' \in BOOLEAN
             /\ UNCHANGED <<sockets, origin>>
  BY <1>0, <1>4, <1>5, <1>6, <1>8
     DEF ApplyEnvelope, SaveCommits, SaveReturns, SaveFails
<1>9. ASSUME NEW a \in Account, NEW p \in Player,
             ClaimSeat(a, p) \/ Connect(a, p) \/ Disconnect(a, p)
      PROVE  /\ session' \in SessionType
             /\ sockets' \subseteq Account \X Player
             /\ UNCHANGED <<origin, calls, persisted, recorded, up>>
  BY <1>0, <1>2, <1>9 DEF ClaimSeat, Connect, Disconnect
<1>10. QED
  BY <1>0, <1>1, <1>3, <1>7, <1>8, <1>9
     DEF RegistryStep, ChooseFirstPlayer, ResetMatch, Tick

\* The part of the types that the lobby's own actions can disturb.
LEMMA LobbyTyped ==
  ASSUME TypeOK, LobbyStep
  PROVE  /\ session' \in SessionType /\ lobby' \in LobbyType
         /\ calls' \in [Caller -> CallStates]
         /\ failed' \in BOOLEAN /\ overtaken' \in BOOLEAN
         /\ UNCHANGED <<origin, sockets, persisted, recorded, up, round>>
<1> USE DEF TypeOK, Untouched, Awaiting
<1>0. session \in SessionType /\ lobby \in LobbyType
  BY DEF SessionType, LobbyType
<1>a. \A x \in Account, p \in Player : [lobby EXCEPT !.owner[p] = x] \in LobbyType
  BY <1>0 DEF LobbyType, Seats
<1>1. ASSUME NEW c \in Caller, NEW x \in Account, JoinLobby(c, x)
      PROVE  lobby' \in LobbyType /\ calls' \in [Caller -> CallStates]
  BY <1>1, <1>a, SeatForOK, EnsuredOK DEF JoinLobby
<1>2. ASSUME NEW c \in Caller, NEW x \in Account, NEW d \in Submits[x],
             SubmitDeck(c, x, d)
      PROVE  calls' \in [Caller -> CallStates]
  <2>1. [by |-> x, deck |-> d] \in Submission
    BY SubmitsAssumption DEF Submission
  <2>2. QED
    BY <1>2, <2>1, OwnSeatOK, MadeCallOK DEF SubmitDeck
<1>3. ASSUME NEW c \in Caller, NEW x \in Account, NEW d \in Submits[x],
             SubmitVerifiedLoadout(c, x, d)
      PROVE  lobby' \in LobbyType /\ calls' \in [Caller -> CallStates]
  <2>1. [by |-> x, deck |-> d] \in Submission
    BY SubmitsAssumption DEF Submission
  <2>2. QED
    BY <1>3, <1>a, <2>1, SeatForOK, MadeCallOK DEF SubmitVerifiedLoadout
<1>4. ASSUME NEW c \in Caller, CheckPasses(c)
      PROVE  /\ lobby' \in LobbyType /\ calls' \in [Caller -> CallStates]
             /\ overtaken' \in BOOLEAN
  <2>1. calls[c].seat \in Player /\ calls[c].deck \in Submission
    BY <1>4, CallOK DEF CheckPasses
  <2>2. lobby' \in LobbyType
    BY <1>0, <1>4, <2>1 DEF CheckPasses, LobbyType, Seats
  <2>3. QED
    BY <1>4, <2>2, EnsuredOK DEF CheckPasses, SomeoneCreates
<1>5. ASSUME NEW c \in Caller, CreationReturns(c)
      PROVE  /\ session' \in SessionType /\ lobby' \in LobbyType
             /\ calls' \in [Caller -> CallStates]
  <2>1. calls[c].decks \in Seats(Submission)
    BY <1>5, CallOK DEF CreationReturns
  <2>2. calls[c].decks \in Seats(Submission \cup {NoDeck})
    BY <2>1 DEF Seats
  <2>3. session' \in SessionType
    BY <1>0, <1>5, <2>2 DEF CreationReturns, CreateMatch, Session, SessionType, LobbyType
  <2>4. lobby' \in LobbyType
    BY <1>0, <1>5 DEF CreationReturns, LobbyType
  <2>5. QED
    BY <1>5, <2>3, <2>4, MadeCallOK DEF CreationReturns
<1>6. ASSUME NEW c \in Caller, CheckFails(c) \/ CreationFails(c)
      PROVE  calls' \in [Caller -> CallStates] /\ failed' \in BOOLEAN
  BY <1>6, MadeCallOK DEF CheckFails, CreationFails
<1>7. ASSUME NEW c \in Caller, NEW x \in Account, JoinLobby(c, x)
      PROVE  UNCHANGED <<session, failed, overtaken>> /\ Untouched
  BY <1>7 DEF JoinLobby
<1>8. ASSUME NEW c \in Caller, NEW x \in Account, NEW d \in Submits[x],
             SubmitDeck(c, x, d) \/ SubmitVerifiedLoadout(c, x, d)
      PROVE  /\ lobby' \in LobbyType /\ calls' \in [Caller -> CallStates]
             /\ UNCHANGED <<session, failed, overtaken>> /\ Untouched
  BY <1>0, <1>2, <1>3, <1>8 DEF SubmitDeck, SubmitVerifiedLoadout
<1>9. ASSUME NEW c \in Caller,
             CheckPasses(c) \/ CheckFails(c) \/ CreationReturns(c) \/ CreationFails(c)
      PROVE  /\ session' \in SessionType /\ lobby' \in LobbyType
             /\ calls' \in [Caller -> CallStates]
             /\ failed' \in BOOLEAN /\ overtaken' \in BOOLEAN
             /\ Untouched
  BY <1>0, <1>4, <1>5, <1>6, <1>9
     DEF CheckPasses, CheckFails, CreationReturns, CreationFails
<1>10. QED
  BY <1>0, <1>1, <1>7, <1>8, <1>9 DEF LobbyStep

LEMMA RematchTyped ==
  ASSUME TypeOK, NEW a \in Account, CreateRematchLobby(a)
  PROVE  TypeOK'
<1> USE DEF TypeOK, CreateRematchLobby
<1>1. Everywhere(NoDeck) \in Seats(Submission \cup {NoDeck})
  BY DEF Everywhere, Seats
<1>2. Everywhere(NoAccount) \in Seats(Account \cup {NoAccount})
  BY DEF Everywhere, Seats
<1>3. lobby' \in LobbyType
  BY <1>1 DEF LobbySeats, LobbyType
<1>4. session' \in SessionType
  BY <1>1, <1>2 DEF TemplateSession, Session, SessionType
<1>5. round' \in 0 .. MaxRounds
  BY RoundsAssumption
<1>6. QED
  BY <1>3, <1>4, <1>5 DEF LobbyType, SessionType

LEMMA NextTyped == TypeOK /\ [Next]_vars => TypeOK'
<1>1. SUFFICES ASSUME TypeOK, [Next]_vars PROVE TypeOK'
  OBVIOUS
<1>2. CASE Hosting /\ Remembers
  <2>1. CASE RegistryStep /\ UNCHANGED lobbyVars
    BY <1>1, <1>2, <2>1, RegistryTyped
       DEF TypeOK, lobbyVars, Remembers, SomeoneCreates, TakesBack, SessionType
  <2>2. CASE LobbyStep
    BY <1>1, <1>2, <2>2, LobbyTyped
       DEF TypeOK, Remembers, SomeoneCreates, TakesBack, SessionType, LobbyType
  <2>3. QED
    BY <1>2, <2>1, <2>2 DEF Hosting
<1>3. ASSUME NEW a \in Account, CreateRematchLobby(a) PROVE TypeOK'
  BY <1>1, <1>3, RematchTyped
<1>4. CASE UNCHANGED vars
  BY <1>1, <1>4 DEF vars, matchVars, lobbyVars, TypeOK
<1>5. QED
  BY <1>1, <1>2, <1>3, <1>4 DEF Next

\* The registry and the lobby stay within their types.
THEOREM TypeCorrect == Spec => []TypeOK
<1>1. QED
  BY InitTyped, NextTyped, PTL DEF Spec

---------------------------------------------------------------------------
(* Seats and decks                                                         *)

\* A deck fits a seat when the seat's account submitted it.  In the second
\* seat it also tells that two accounts sit there: an account that holds
\* both seats only ever finds the first.
Fits(l, p, s) ==
  /\ s.by = l.owner[p]
  /\ p = PlayerOrder[2] => l.owner[PlayerOrder[1]] # l.owner[p]
LobbyFits(l) == \A p \in Player : l.decks[p] # NoDeck => Fits(l, p, l.decks[p])
CallFits(l, call) ==
  /\ call.op = "checking" => Fits(l, call.seat, call.deck)
  /\ call.op = "creating" => \A p \in Player : Fits(l, p, call.decks[p])
SessionFits(l, s) ==
  /\ l.started <=> s.status # "none"
  /\ l.started => /\ s.owner = l.owner /\ s.decks \in Seats(Submission)
                  /\ \A p \in Player : Fits(l, p, s.decks[p])
SeatInv ==
  origin = "lobby" =>
     /\ LobbyFits(lobby)
     /\ \A c \in Caller : CallFits(lobby, calls[c])
     /\ SessionFits(lobby, session)

\* Claiming a seat takes nobody's and leaves every deck where it fits.
LEMMA FitsKept ==
  ASSUME lobby \in LobbyType, NEW a \in Account, NEW p \in SeatFor(a),
         NEW q \in Player, NEW s \in Submission, Fits(lobby, q, s)
  PROVE  Fits([lobby EXCEPT !.owner[p] = a], q, s)
<1> DEFINE l == [lobby EXCEPT !.owner[p] = a]
<1>1. p \in Player
  BY SeatForOK
<1>2. /\ l.owner[p] = a
      /\ \A r \in Player : r # p => l.owner[r] = lobby.owner[r]
  BY <1>1 DEF LobbyType, Seats
<1>3. lobby.owner[q] \in Account
  BY DEF Fits, Submission
<1>4. CASE lobby.owner[p] = a
  BY <1>1, <1>2, <1>4, PlayersOK DEF Fits
<1>5. CASE lobby.owner[p] = NoAccount /\ OwnSeat(a) = {}
  <2>1. p # q
    BY <1>3, <1>5, NothingAssumption
  <2>2. lobby.owner[q] # a
    BY <1>5, OwnSeatOK
  <2>3. QED
    BY <1>1, <1>2, <2>1, <2>2, PlayersOK DEF Fits
<1>6. QED
  BY <1>4, <1>5, SeatForOK

\* A claim keeps the whole invariant; in a lobby that has its match every
\* seat is taken, and nothing changes.
LEMMA ClaimKeeps ==
  ASSUME TypeOK, SeatInv, origin = "lobby", NEW a \in Account, NEW p \in SeatFor(a)
  PROVE  LET l == [lobby EXCEPT !.owner[p] = a]
         IN  /\ l \in LobbyType /\ l.started = lobby.started /\ l.decks = lobby.decks
             /\ LobbyFits(l) /\ SessionFits(l, session)
             /\ \A c \in Caller : CallFits(l, calls[c])
             /\ lobby.started => l.owner = lobby.owner
<1> DEFINE l == [lobby EXCEPT !.owner[p] = a]
<1>0. lobby \in LobbyType /\ p \in Player
  BY SeatForOK DEF TypeOK, LobbyType
<1>1. l \in LobbyType /\ l.started = lobby.started /\ l.decks = lobby.decks
  BY <1>0 DEF LobbyType, Seats
<1>2. LobbyFits(l)
  <2>1. \A q \in Player : lobby.decks[q] # NoDeck => lobby.decks[q] \in Submission
    BY <1>0 DEF LobbyType, Seats
  <2>2. QED
    BY <1>0, <1>1, <2>1, FitsKept DEF SeatInv, LobbyFits
<1>3. ASSUME NEW c \in Caller PROVE CallFits(l, calls[c])
  <2>1. calls[c] \in CallStates
    BY DEF TypeOK
  <2>2. /\ calls[c].op = "checking" => calls[c].seat \in Player /\ calls[c].deck \in Submission
        /\ calls[c].op = "creating" => \A q \in Player : calls[c].decks[q] \in Submission
    BY <2>1, CallOK DEF Seats
  <2>3. QED
    BY <1>0, <2>2, FitsKept DEF SeatInv, CallFits
<1>4. lobby.started => l.owner = lobby.owner
  <2>1. SUFFICES ASSUME lobby.started PROVE lobby.owner[p] = a
    BY <1>0 DEF LobbyType, Seats
  <2>2. lobby.owner[p] \in Account
    BY <1>0, <2>1 DEF SeatInv, SessionFits, Fits, Seats, Submission
  <2>3. QED
    BY <2>2, SeatForOK, NothingAssumption
<1>5. SessionFits(l, session)
  BY <1>1, <1>4 DEF SeatInv, SessionFits, Fits
<1>6. QED
  BY <1>1, <1>2, <1>3, <1>4, <1>5

\* What a lobby is about to build a match of fits its seats.
LEMMA EnsuredFits ==
  ASSUME NEW l \in LobbyType, LobbyFits(l)
  PROVE  CallFits(l, Ensured(l))
BY EnsuredOK DEF LobbyFits, CallFits, Ready

LEMMA RegistryKeepsSeats ==
  ASSUME TypeOK, SeatInv, origin = "lobby", RegistryStep, UNCHANGED lobbyVars
  PROVE  /\ session'.owner = session.owner \/ ~lobby.started
         /\ session'.decks = session.decks /\ session'.listed = session.listed
         /\ session'.status # "none" <=> session.status # "none"
         /\ \A c \in Caller :
               calls'[c] = calls[c] \/ calls'[c].op \in {"idle", "saving"}
<1>0. session \in SessionType /\ lobby \in LobbyType
  BY DEF TypeOK, SessionType, LobbyType
<1>1. ASSUME NEW a \in Account, NEW p \in Player, ClaimSeat(a, p)
      PROVE  ~lobby.started /\ session'.status = session.status
             /\ session'.decks = session.decks /\ session'.listed = session.listed
  <2>1. lobby.started => session.owner[p] \in Account
    BY DEF SeatInv, SessionFits, Fits, Seats, Submission
  <2>2. QED
    BY <1>0, <1>1, <2>1, NothingAssumption DEF ClaimSeat, SessionType
<1>2. CASE ChooseFirstPlayer
  BY <1>0, <1>2 DEF ChooseFirstPlayer, SessionType
<1>3. CASE Tick
  BY <1>0, <1>3 DEF Tick, SessionType
<1>4. ASSUME NEW c \in Caller, ApplyEnvelope(c)
      PROVE  /\ session'.owner = session.owner /\ session'.decks = session.decks
             /\ session'.listed = session.listed /\ session'.status = session.status
             /\ \A d \in Caller : calls'[d] = calls[d] \/ calls'[d].op \in {"idle", "saving"}
  <2>1. PICK r \in ResultsAfter(session.result) :
          session' = [session EXCEPT !.result = r] /\ Become(c, Persisting(r))
    BY <1>4 DEF ApplyEnvelope
  <2>2. r \in Result \cup {"open"}
    BY <1>0 DEF ResultsAfter, SessionType
  <2>3. Persisting(r).op \in {"idle", "saving"}
    BY <2>2, PersistingOK
  <2>4. QED
    BY <1>0, <2>1, <2>3 DEF SessionType, TypeOK
<1>5. ASSUME NEW c \in Caller, SaveCommits(c) \/ SaveReturns(c) \/ SaveFails(c)
      PROVE  /\ UNCHANGED session
             /\ \A d \in Caller : calls'[d] = calls[d] \/ calls'[d].op \in {"idle", "saving"}
  BY <1>5 DEF SaveCommits, SaveReturns, SaveFails, TypeOK
<1>6. CASE \E a \in Account, p \in Player : Connect(a, p) \/ Disconnect(a, p)
  BY <1>6 DEF Connect, Disconnect
<1>7. UNCHANGED calls \/ \E c \in Caller :
          ApplyEnvelope(c) \/ SaveCommits(c) \/ SaveReturns(c) \/ SaveFails(c)
  BY DEF RegistryStep, ChooseFirstPlayer, ClaimSeat, Connect, Disconnect, ResetMatch, Tick
<1>8. ~ResetMatch
  BY DEF ResetMatch
<1>9. QED
  BY <1>0, <1>1, <1>2, <1>3, <1>4, <1>5, <1>6, <1>7, <1>8 DEF RegistryStep, ClaimSeat, SessionType

\* The lobby's own actions keep seats, decks and the match together.
LEMMA LobbyKeepsSeats ==
  ASSUME TypeOK, SeatInv, LobbyStep
  PROVE  SeatInv'
<1> USE DEF Awaiting, Untouched
<1>0. /\ lobby \in LobbyType /\ session \in SessionType
      /\ calls \in [Caller -> CallStates] /\ lobby' \in LobbyType
      /\ origin' = origin /\ origin = "lobby"
  BY LobbyTyped
     DEF TypeOK, LobbyType, SessionType, LobbyStep, JoinLobby, SubmitDeck,
         SubmitVerifiedLoadout, CheckPasses, CheckFails, CreationReturns, CreationFails
<1>a. /\ LobbyFits(lobby) /\ SessionFits(lobby, session)
      /\ \A c \in Caller : CallFits(lobby, calls[c])
  BY <1>0 DEF SeatInv
<1>b. SUFFICES /\ LobbyFits(lobby') /\ SessionFits(lobby', session')
               /\ \A c \in Caller : CallFits(lobby', calls'[c])
  BY DEF SeatInv, LobbyFits, Fits, CallFits, SessionFits
<1>c. \A l \in LobbyType : CallFits(l, Idle)
  BY DEF CallFits
<1>1. ASSUME NEW c \in Caller, NEW a \in Account, JoinLobby(c, a)
      PROVE  /\ LobbyFits(lobby') /\ SessionFits(lobby', session')
             /\ \A d \in Caller : CallFits(lobby', calls'[d])
  <2>1. PICK p \in SeatFor(a) : lobby' = [lobby EXCEPT !.owner[p] = a]
    BY <1>1 DEF JoinLobby
  <2>2. /\ LobbyFits(lobby') /\ SessionFits(lobby', session)
        /\ \A d \in Caller : CallFits(lobby', calls[d])
    BY <1>0, <2>1, ClaimKeeps
  <2>3. CallFits(lobby', Ensured(lobby'))
    BY <1>0, <2>2, EnsuredFits
  <2>4. QED
    BY <1>0, <1>1, <2>2, <2>3 DEF JoinLobby
<1>2. ASSUME NEW c \in Caller, NEW a \in Account, NEW d \in Submits[a],
             SubmitDeck(c, a, d)
      PROVE  /\ LobbyFits(lobby') /\ SessionFits(lobby', session')
             /\ \A e \in Caller : CallFits(lobby', calls'[e])
  <2>1. PICK p \in OwnSeat(a) : Become(c, Checking(p, [by |-> a, deck |-> d]))
    BY <1>2 DEF SubmitDeck
  <2>2. CallFits(lobby, Checking(p, [by |-> a, deck |-> d]))
    BY <2>1, OwnSeatOK DEF CallFits, Fits
  <2>3. QED
    BY <1>0, <1>a, <1>2, <2>1, <2>2 DEF SubmitDeck
<1>3. ASSUME NEW c \in Caller, NEW a \in Account, NEW d \in Submits[a],
             SubmitVerifiedLoadout(c, a, d)
      PROVE  /\ LobbyFits(lobby') /\ SessionFits(lobby', session')
             /\ \A e \in Caller : CallFits(lobby', calls'[e])
  <2>1. PICK p \in SeatFor(a) :
           /\ lobby' = [lobby EXCEPT !.owner[p] = a]
           /\ \E call \in {Idle, Checking(p, [by |-> a, deck |-> d])} : Become(c, call)
    BY <1>3 DEF SubmitVerifiedLoadout
  <2>2. /\ LobbyFits(lobby') /\ SessionFits(lobby', session)
        /\ \A e \in Caller : CallFits(lobby', calls[e])
    BY <1>0, <2>1, ClaimKeeps
  <2>3. /\ lobby'.owner[p] = a
        /\ p = PlayerOrder[2] => lobby'.owner[PlayerOrder[1]] # a
    BY <1>0, <2>1, SeatForOK, OwnSeatOK, PlayersOK DEF LobbyType, Seats, SeatFor
  <2>4. CallFits(lobby', Checking(p, [by |-> a, deck |-> d]))
    BY <2>3 DEF CallFits, Fits
  <2>5. QED
    BY <1>0, <1>3, <1>c, <2>1, <2>2, <2>4 DEF SubmitVerifiedLoadout
<1>4. ASSUME NEW c \in Caller, CheckPasses(c)
      PROVE  /\ LobbyFits(lobby') /\ SessionFits(lobby', session')
             /\ \A d \in Caller : CallFits(lobby', calls'[d])
  <2>1. calls[c].seat \in Player /\ calls[c].deck \in Submission
    BY <1>0, <1>4, CallOK DEF CheckPasses
  <2>2. /\ lobby'.owner = lobby.owner /\ lobby'.started = lobby.started
        /\ lobby'.decks = [lobby.decks EXCEPT ![calls[c].seat] = calls[c].deck]
    BY <1>0, <1>4 DEF CheckPasses, LobbyType
  <2>3. \A p \in Player, s \in Submission : Fits(lobby', p, s) <=> Fits(lobby, p, s)
    BY <2>2 DEF Fits
  <2>4. Fits(lobby, calls[c].seat, calls[c].deck)
    BY <1>4, <1>a DEF CallFits, CheckPasses
  <2>5. LobbyFits(lobby')
    BY <1>0, <1>a, <2>1, <2>2, <2>4 DEF LobbyFits, LobbyType, Seats, Fits
  <2>6. SessionFits(lobby', session') /\ \A d \in Caller : CallFits(lobby', calls[d])
    BY <1>4, <1>a, <2>2 DEF SessionFits, CallFits, Fits, CheckPasses
  <2>7. CallFits(lobby', Ensured(lobby'))
    BY <1>0, <2>5, EnsuredFits
  <2>8. QED
    BY <1>0, <1>4, <2>5, <2>6, <2>7 DEF CheckPasses
<1>5. ASSUME NEW c \in Caller, CreationReturns(c)
      PROVE  /\ LobbyFits(lobby') /\ SessionFits(lobby', session')
             /\ \A d \in Caller : CallFits(lobby', calls'[d])
  <2>1. /\ lobby'.owner = lobby.owner /\ lobby'.decks = lobby.decks
        /\ lobby'.started = TRUE
    BY <1>0, <1>5 DEF CreationReturns, LobbyType
  <2>2. /\ session'.status = "choosing" /\ session'.owner = lobby.owner
        /\ session'.decks = calls[c].decks
    BY <1>5 DEF CreationReturns, CreateMatch, Session
  <2>3. /\ calls[c].decks \in Seats(Submission)
        /\ \A p \in Player : Fits(lobby, p, calls[c].decks[p])
    BY <1>0, <1>5, <1>a, CallOK DEF CreationReturns, CallFits
  <2>4. SessionFits(lobby', session')
    BY <2>1, <2>2, <2>3 DEF SessionFits, Fits
  <2>5. LobbyFits(lobby') /\ \A d \in Caller : CallFits(lobby', calls[d])
    BY <1>a, <2>1 DEF LobbyFits, CallFits, Fits
  <2>6. QED
    BY <1>0, <1>5, <1>c, <2>4, <2>5 DEF CreationReturns
<1>6. ASSUME NEW c \in Caller, CheckFails(c) \/ CreationFails(c)
      PROVE  /\ LobbyFits(lobby') /\ SessionFits(lobby', session')
             /\ \A d \in Caller : CallFits(lobby', calls'[d])
  BY <1>0, <1>6, <1>a, <1>c DEF CheckFails, CreationFails
<1>7. QED
  BY <1>1, <1>2, <1>3, <1>4, <1>5, <1>6 DEF LobbyStep

LEMMA SeatsInit == Init => SeatInv
BY DEF Init, RegistryInit, SeatInv, LobbySeats, Everywhere, LobbyFits, CallFits,
       SessionFits, TemplateSession, Session

LEMMA RematchKeepsSeats ==
  ASSUME TypeOK, NEW a \in Account, CreateRematchLobby(a)
  PROVE  SeatInv'
BY DEF CreateRematchLobby, SeatInv, LobbySeats, Everywhere, LobbyFits, CallFits,
       SessionFits, TemplateSession, Session

LEMMA SeatsKept == TypeOK /\ SeatInv /\ [Next]_vars => SeatInv'
<1>1. SUFFICES ASSUME TypeOK, SeatInv, [Next]_vars PROVE SeatInv'
  OBVIOUS
<1>2. CASE RegistryStep /\ UNCHANGED lobbyVars
  <2>1. SUFFICES ASSUME origin = "lobby" PROVE SeatInv'
    BY <1>1, <1>2, RegistryTyped DEF SeatInv
  <2>2. lobby' = lobby
    BY <1>2 DEF lobbyVars
  <2>3. SessionFits(lobby', session')
    BY <1>1, <1>2, <2>1, <2>2, RegistryKeepsSeats DEF SeatInv, SessionFits
  <2>4. \A c \in Caller : CallFits(lobby', calls'[c])
    BY <1>1, <1>2, <2>1, <2>2, RegistryKeepsSeats DEF SeatInv, CallFits
  <2>5. LobbyFits(lobby')
    BY <1>1, <2>1, <2>2 DEF SeatInv
  <2>6. QED
    BY <2>3, <2>4, <2>5 DEF SeatInv, LobbyFits, CallFits, SessionFits, Fits
<1>3. CASE LobbyStep
  BY <1>1, <1>3, LobbyKeepsSeats
<1>4. ASSUME NEW a \in Account, CreateRematchLobby(a) PROVE SeatInv'
  BY <1>1, <1>4, RematchKeepsSeats
<1>5. CASE UNCHANGED vars
  BY <1>1, <1>5 DEF vars, matchVars, lobbyVars, SeatInv, LobbyFits, CallFits, SessionFits, Fits
<1>6. QED
  BY <1>1, <1>2, <1>3, <1>4, <1>5 DEF Next, Hosting

\* Every match made by a lobby is played by two accounts, each in its own
\* seat with a deck of its own.
THEOREM OwnDecksPlayed == Spec => []PlaysOwnDeck
<1>1. TypeOK /\ SeatInv => PlaysOwnDeck
  BY PlayersOK DEF SeatInv, SessionFits, Fits, PlaysOwnDeck
<1>2. QED
  BY <1>1, InitTyped, NextTyped, SeatsInit, SeatsKept, PTL DEF Spec

---------------------------------------------------------------------------
(* Decks listed, sockets, settled matches                                  *)

\* Until a deck overtakes it, what is being built is what the seats hold.
ListInv ==
  /\ origin = "lobby" /\ ~overtaken =>
        \A c \in Caller : calls[c].op = "creating" => calls[c].decks = lobby.decks
  /\ ListsDecksPlayed

\* A match that does not exist has no sockets.
SocketInv == SocketsOwnSeat /\ (session.status = "none" => sockets = {})

SettledInv ==
  /\ lobby.started => origin = "lobby"
  /\ settled => lobby.started /\ ~SomeoneCreates

SettlingInv == TypeOK /\ SeatInv /\ ListInv /\ SocketInv /\ SettledInv

LEMMA SettlingInit == Init => SettlingInv
<1>1. SUFFICES ASSUME Init PROVE ListInv /\ SocketInv /\ SettledInv
  BY InitTyped, SeatsInit DEF SettlingInv
<1>2. QED
  BY <1>1 DEF Init, RegistryInit, ListInv, SocketInv, SettledInv, ListsDecksPlayed,
       SocketsOwnSeat, LobbySeats, TemplateSession, Session, Everywhere

\* No action of the registry but a reset changes a session's decks, makes
\* it less than active or takes a seat from its owner.
LEMMA RegistryKeepsSession ==
  ASSUME TypeOK, RegistryStep
  PROVE  /\ \/ session'.listed = session.listed /\ session'.decks = session.decks
            \/ session'.listed = session'.decks
         /\ origin # "default" =>
               /\ session.status # "none" => session'.status # "none"
               /\ session.status = "active" => session'.status = "active"
               /\ \A p \in Player :
                     session.owner[p] \in Account => session'.owner[p] = session.owner[p]
         /\ session'.status = "none" => session.status = "none" /\ sockets' \subseteq sockets
         /\ \A a \in Account, p \in Player :
               <<a, p>> \in sockets' => <<a, p>> \in sockets \/ session'.owner[p] = a
<1>0. session \in SessionType
  BY DEF TypeOK, SessionType
<1>1. CASE ChooseFirstPlayer
  BY <1>0, <1>1 DEF ChooseFirstPlayer, SessionType
<1>2. ASSUME NEW a \in Account, NEW p \in Player, ClaimSeat(a, p)
      PROVE  /\ session'.listed = session.listed /\ session'.decks = session.decks
             /\ session'.status = session.status /\ session.status # "none"
             /\ sockets' = sockets
             /\ \A q \in Player :
                   session.owner[q] \in Account => session'.owner[q] = session.owner[q]
  BY <1>0, <1>2, NothingAssumption DEF ClaimSeat, SessionType, Seats
<1>3. ASSUME NEW a \in Account, NEW p \in Player, Connect(a, p)
      PROVE  /\ session' = session /\ session.status # "none"
             /\ \A b \in Account, q \in Player :
                   <<b, q>> \in sockets' => <<b, q>> \in sockets \/ session'.owner[q] = b
  BY <1>3 DEF Connect
<1>4. ASSUME NEW a \in Account, NEW p \in Player, Disconnect(a, p)
      PROVE  session' = session /\ sockets' \subseteq sockets
  BY <1>4 DEF Disconnect
<1>5. CASE ResetMatch
  BY <1>5 DEF ResetMatch, TemplateSession, Session
<1>6. ASSUME NEW c \in Caller, ApplyEnvelope(c)
      PROVE  /\ session'.listed = session.listed /\ session'.decks = session.decks
             /\ session'.status = session.status /\ session'.owner = session.owner
             /\ sockets' = sockets
  BY <1>0, <1>6 DEF ApplyEnvelope, SessionType
<1>7. ASSUME NEW c \in Caller, SaveCommits(c) \/ SaveReturns(c) \/ SaveFails(c)
      PROVE  UNCHANGED <<session, sockets>>
  BY <1>7 DEF SaveCommits, SaveReturns, SaveFails
<1>8. CASE Tick
  BY <1>0, <1>8 DEF Tick, SessionType
<1>9. QED
  BY <1>0, <1>1, <1>2, <1>3, <1>4, <1>5, <1>6, <1>7, <1>8 DEF RegistryStep

\* What is built, listed and settled, under an action of the lobby.
LEMMA LobbySettles ==
  ASSUME SettlingInv, LobbyStep, Remembers
  PROVE  ListInv' /\ SocketInv' /\ SettledInv'
<1> USE DEF SettlingInv, Awaiting, Untouched
<1>0. /\ lobby \in LobbyType /\ session \in SessionType /\ lobby' \in LobbyType
      /\ calls \in [Caller -> CallStates]
      /\ origin = "lobby"
      /\ UNCHANGED <<origin, sockets, persisted, recorded, up, round>>
  BY LobbyTyped
     DEF TypeOK, LobbyType, SessionType, LobbyStep, JoinLobby, SubmitDeck,
         SubmitVerifiedLoadout, CheckPasses, CheckFails, CreationReturns, CreationFails
<1>1. ASSUME NEW c \in Caller, NEW a \in Account, JoinLobby(c, a)
      PROVE  /\ session' = session /\ overtaken' = overtaken
             /\ lobby'.decks = lobby.decks /\ lobby'.started = lobby.started
             /\ calls' = [calls EXCEPT ![c] = Ensured(lobby')]
  BY <1>0, <1>1 DEF JoinLobby, LobbyType
<1>2. ASSUME NEW c \in Caller, NEW a \in Account, NEW d \in Submits[a],
             SubmitDeck(c, a, d) \/ SubmitVerifiedLoadout(c, a, d)
      PROVE  /\ session' = session /\ overtaken' = overtaken
             /\ lobby'.decks = lobby.decks /\ lobby'.started = lobby.started
             /\ \A e \in Caller : calls'[e] = calls[e] \/ calls'[e].op # "creating"
  BY <1>0, <1>2 DEF SubmitDeck, SubmitVerifiedLoadout, LobbyType
<1>3. ASSUME NEW c \in Caller, CheckPasses(c)
      PROVE  /\ session' = session /\ lobby'.started = lobby.started
             /\ overtaken' = (overtaken \/ SomeoneCreates)
             /\ calls' = [calls EXCEPT ![c] = Ensured(lobby')]
  BY <1>0, <1>3 DEF CheckPasses, LobbyType
<1>4. ASSUME NEW c \in Caller, CheckFails(c) \/ CreationFails(c)
      PROVE  /\ session' = session /\ overtaken' = overtaken /\ lobby' = lobby
             /\ \A e \in Caller : calls'[e] = calls[e] \/ calls'[e].op # "creating"
  BY <1>0, <1>4 DEF CheckFails, CreationFails
<1>5. ASSUME NEW c \in Caller, CreationReturns(c)
      PROVE  /\ session'.owner = lobby.owner /\ session'.status = "choosing"
             /\ session'.decks = calls[c].decks /\ session'.listed = lobby.decks
             /\ calls[c].op = "creating"
             /\ overtaken' = overtaken /\ lobby'.decks = lobby.decks
             /\ lobby'.started = TRUE
             /\ \A e \in Caller : calls'[e] = calls[e] \/ calls'[e].op # "creating"
  BY <1>0, <1>5 DEF CreationReturns, CreateMatch, Session, LobbyType
<1>6. Ensured(lobby').op = "creating" =>
         ~lobby'.started /\ Ensured(lobby').decks = lobby'.decks
  BY <1>0, EnsuredOK
<1>7. ListInv'
  BY <1>0, <1>1, <1>2, <1>3, <1>4, <1>5, <1>6
     DEF LobbyStep, ListInv, ListsDecksPlayed, SomeoneCreates
<1>8. SocketInv'
  <2>1. CASE UNCHANGED session
    BY <1>0, <2>1 DEF SocketInv, SocketsOwnSeat
  <2>2. ASSUME NEW c \in Caller, CreationReturns(c) PROVE SocketInv'
    <3>1. session.status # "none" => session.owner = lobby.owner
      BY <1>0 DEF SeatInv, SessionFits
    <3>2. QED
      BY <1>0, <1>5, <2>2, <3>1 DEF SocketInv, SocketsOwnSeat
  <2>3. QED
    BY <1>1, <1>2, <1>3, <1>4, <2>1, <2>2 DEF LobbyStep
<1>9. lobby.started => lobby'.started
  BY <1>1, <1>2, <1>3, <1>4, <1>5 DEF LobbyStep
<1>10. settled => ~SomeoneCreates'
  BY <1>0, <1>1, <1>2, <1>3, <1>4, <1>5, <1>6
     DEF LobbyStep, SettledInv, SomeoneCreates
<1>11. QED
  BY <1>0, <1>7, <1>8, <1>9, <1>10 DEF SettledInv, Remembers

LEMMA RegistrySettles ==
  ASSUME SettlingInv, RegistryStep, UNCHANGED lobbyVars, Remembers
  PROVE  ListInv' /\ SocketInv' /\ SettledInv'
<1> USE DEF SettlingInv, lobbyVars
<1>1. ListInv'
  BY RegistryKeepsSession, RegistryKeepsSeats, RegistryTyped DEF ListInv, ListsDecksPlayed
<1>2. SocketInv'
  BY RegistryKeepsSession, RegistryTyped DEF SocketInv, SocketsOwnSeat
<1>3. settled => ~SomeoneCreates'
  BY RegistryKeepsSeats DEF SettledInv, SomeoneCreates
<1>4. QED
  BY <1>1, <1>2, <1>3, RegistryTyped DEF SettledInv, Remembers

LEMMA SettlingKept == SettlingInv /\ [Next]_vars => SettlingInv'
<1>1. SUFFICES ASSUME SettlingInv, [Next]_vars PROVE ListInv' /\ SocketInv' /\ SettledInv'
  BY NextTyped, SeatsKept DEF SettlingInv
<1>2. CASE Hosting /\ Remembers
  BY <1>1, <1>2, RegistrySettles, LobbySettles DEF Hosting
<1>3. ASSUME NEW a \in Account, CreateRematchLobby(a)
      PROVE  ListInv' /\ SocketInv' /\ SettledInv'
  BY <1>3 DEF CreateRematchLobby, ListInv, SocketInv, SettledInv, ListsDecksPlayed,
       SocketsOwnSeat, LobbySeats, TemplateSession, Session, Everywhere
<1>4. CASE UNCHANGED vars
  BY <1>1, <1>4 DEF vars, matchVars, lobbyVars, SettlingInv, ListInv, SocketInv,
       SettledInv, ListsDecksPlayed, SocketsOwnSeat, SomeoneCreates
<1>5. QED
  BY <1>1, <1>2, <1>3, <1>4 DEF Next

\* The record lists the decks played unless a deck overtook the building.
THEOREM DecksListed == Spec => []ListsDecksPlayed
<1>1. SettlingInv => ListsDecksPlayed
  BY DEF SettlingInv, ListInv
<1>2. QED
  BY <1>1, SettlingInit, SettlingKept, PTL DEF Spec

\* A socket let in to a seat goes on playing a seat of its account.
THEOREM SocketsKeepSeat == Spec => []SocketsOwnSeat
<1>1. SettlingInv => SocketsOwnSeat
  BY DEF SettlingInv, SocketInv
<1>2. QED
  BY <1>1, SettlingInit, SettlingKept, PTL DEF Spec

\* Nothing replaces the match of a lobby when nobody was building another.
THEOREM MatchesStand == Spec => SettledMatchStands
<1>1. ASSUME SettlingInv, [Next]_vars, settled, round' = round
      PROVE  /\ session.status = "active" => session'.status = "active"
             /\ session'.decks = session.decks /\ session'.owner = session.owner
  <2>0. origin = "lobby" /\ lobby.started /\ ~SomeoneCreates /\ round \in 0 .. MaxRounds
    BY <1>1 DEF SettlingInv, SettledInv, TypeOK
  <2>1. CASE RegistryStep /\ UNCHANGED lobbyVars
    BY <1>1, <2>0, <2>1, RegistryKeepsSession, RegistryKeepsSeats DEF SettlingInv
  <2>2. CASE LobbyStep
    BY <2>0, <2>2
       DEF LobbyStep, JoinLobby, SubmitDeck, SubmitVerifiedLoadout, CheckPasses,
           CheckFails, CreationReturns, CreationFails, Awaiting, SomeoneCreates
  <2>3. ASSUME NEW a \in Account, CreateRematchLobby(a) PROVE FALSE
    BY <1>1, <2>0, <2>3, RoundsAssumption DEF CreateRematchLobby
  <2>4. CASE UNCHANGED vars
    BY <2>4 DEF vars, matchVars
  <2>5. QED
    BY <1>1, <2>1, <2>2, <2>3, <2>4 DEF Next, Hosting
<1>2. SettlingInv /\ [Next]_vars =>
        [settled /\ round' = round
           => /\ session.status = "active" => session'.status = "active"
              /\ session'.decks = session.decks /\ session'.owner = session.owner]_vars
  BY <1>1
<1>3. QED
  BY <1>2, SettlingInit, SettlingKept, PTL DEF Spec, SettledMatchStands

---------------------------------------------------------------------------
(* Records                                                                 *)

\* Until a result is taken back, every save carries the result that the
\* match has; and what a save has stored or left behind is a result.
RecordInv ==
  /\ RecordedResult
  /\ ~reopened => \A c \in Caller :
        calls[c].op = "saving" => calls[c].result = session.result
  /\ \A c \in Caller :
        calls[c].op = "saving" /\ calls[c].stage = "stored" => recorded # "open"
  /\ persisted => recorded # "open"

LEMMA RecordInit == Init => RecordInv
BY DEF Init, RegistryInit, RecordInv, RecordedResult

\* Calls that do not save leave the records alone, whatever they do to the
\* match, as long as a result that goes is remembered to have gone.
LEMMA OtherCallsKeepRecord ==
  ASSUME TypeOK, RecordInv, Remembers, UNCHANGED <<persisted, recorded>>,
         session'.result = session.result \/ session'.result = "open"
           \/ session.result = "open",
         \A c \in Caller : calls'[c].op = "saving" =>
            \/ calls'[c] = calls[c]
            \/ /\ calls'[c].result = session'.result /\ calls'[c].stage = "sent"
               /\ session'.result \in Result /\ ~persisted
  PROVE  RecordInv'
<1>1. \A c \in Caller : calls[c].op = "saving" => calls[c].result \in Result
  BY CallOK DEF TypeOK
<1>2. CASE session'.result = session.result
  BY <1>1, <1>2 DEF RecordInv, RecordedResult, Remembers
<1>3. CASE session'.result # session.result /\ session.result # "open"
  BY <1>3 DEF RecordInv, RecordedResult, Remembers, TakesBack
<1>4. CASE session'.result # session.result /\ session.result = "open"
  BY <1>1, <1>4, PlayersOK DEF RecordInv, RecordedResult, Remembers
<1>5. QED
  BY <1>2, <1>3, <1>4

LEMMA RegistryKeepsRecord ==
  ASSUME TypeOK, RecordInv, RegistryStep, Remembers
  PROVE  RecordInv'
<1>0. session \in SessionType /\ calls \in [Caller -> CallStates]
  BY DEF TypeOK, SessionType
<1>a. \A c \in Caller : calls[c].op = "saving" => calls[c].result \in Result
  BY <1>0, CallOK
<1>1. ASSUME NEW c \in Caller, ApplyEnvelope(c) PROVE RecordInv'
  <2>1. PICK r \in ResultsAfter(session.result) :
          session' = [session EXCEPT !.result = r] /\ Become(c, Persisting(r))
    BY <1>1 DEF ApplyEnvelope
  <2>2. r \in Result \cup {"open"} /\ session'.result = r
    BY <1>0, <2>1 DEF ResultsAfter, SessionType
  <2>3. r = session.result \/ r = "open" \/ session.result = "open"
    BY <2>1 DEF ResultsAfter
  <2>4. \A d \in Caller : calls'[d].op = "saving" =>
            \/ calls'[d] = calls[d]
            \/ /\ calls'[d].result = r /\ calls'[d].stage = "sent"
               /\ r \in Result /\ ~persisted
    BY <1>0, <2>1, <2>2, PersistingOK
  <2>5. UNCHANGED <<persisted, recorded>>
    BY <1>1 DEF ApplyEnvelope
  <2>6. QED
    BY <2>2, <2>3, <2>4, <2>5, OtherCallsKeepRecord
<1>2. ASSUME NEW c \in Caller, SaveCommits(c) PROVE RecordInv'
  <2>1. /\ recorded' = calls[c].result /\ calls[c].result \in Result
        /\ session' = session /\ persisted' = persisted /\ calls[c].op = "saving"
        /\ \A d \in Caller : calls'[d] = IF d = c THEN Saving(calls[c].result, "stored")
                                                  ELSE calls[d]
    BY <1>0, <1>a, <1>2 DEF SaveCommits
  <2>2. reopened' = reopened
    BY <2>1 DEF Remembers, TakesBack, TypeOK
  <2>3. QED
    BY <2>1, <2>2, PlayersOK DEF RecordInv, RecordedResult
<1>3. ASSUME NEW c \in Caller, SaveReturns(c) PROVE RecordInv'
  <2>1. /\ recorded' = recorded /\ session' = session
        /\ calls[c].op = "saving" /\ calls[c].stage = "stored"
        /\ \A d \in Caller : calls'[d] = IF d = c THEN Idle ELSE calls[d]
    BY <1>0, <1>3 DEF SaveReturns
  <2>2. reopened' = reopened
    BY <2>1 DEF Remembers, TakesBack, TypeOK
  <2>3. QED
    BY <2>1, <2>2 DEF RecordInv, RecordedResult
<1>4. ASSUME UNCHANGED <<calls, persisted, recorded>>,
             session'.result = session.result \/ session'.result = "open"
               \/ session.result = "open"
      PROVE  RecordInv'
  BY <1>4, OtherCallsKeepRecord
<1>5. CASE ChooseFirstPlayer
  BY <1>0, <1>4, <1>5 DEF ChooseFirstPlayer, SessionType
<1>6. ASSUME NEW a \in Account, NEW p \in Player,
             ClaimSeat(a, p) \/ Connect(a, p) \/ Disconnect(a, p)
      PROVE  RecordInv'
  BY <1>0, <1>4, <1>6 DEF ClaimSeat, Connect, Disconnect, SessionType
<1>7. CASE ResetMatch
  BY <1>4, <1>7 DEF ResetMatch, TemplateSession, Session
<1>8. ASSUME NEW c \in Caller, SaveFails(c) PROVE RecordInv'
  BY <1>4, <1>8 DEF SaveFails
<1>9. CASE Tick
  BY <1>4, <1>9 DEF Tick
<1>10. QED
  BY <1>1, <1>2, <1>3, <1>5, <1>6, <1>7, <1>8, <1>9 DEF RegistryStep

\* The lobby's actions neither save nor forget that a result has gone.
LEMMA LobbyKeepsRecord ==
  ASSUME TypeOK, RecordInv, LobbyStep, Remembers
  PROVE  RecordInv'
<1>0. lobby' \in LobbyType /\ UNCHANGED <<persisted, recorded>>
  BY LobbyTyped
<1>1. session'.result = session.result \/ session'.result = "open"
  BY DEF LobbyStep, JoinLobby, SubmitDeck, SubmitVerifiedLoadout, CheckPasses,
         CheckFails, CreationReturns, CreationFails, CreateMatch, Session
<1>2. Ensured(lobby').op # "saving"
  BY <1>0, EnsuredOK
<1>3. \A c \in Caller : calls'[c] = calls[c] \/ calls'[c].op # "saving"
  BY <1>2 DEF LobbyStep, JoinLobby, SubmitDeck, SubmitVerifiedLoadout, CheckPasses,
              CheckFails, CreationReturns, CreationFails, TypeOK
<1>4. QED
  BY <1>0, <1>1, <1>3, OtherCallsKeepRecord

LEMMA RecordKept == TypeOK /\ RecordInv /\ [Next]_vars => RecordInv'
<1>1. SUFFICES ASSUME TypeOK, RecordInv, [Next]_vars PROVE RecordInv'
  OBVIOUS
<1>2. CASE Hosting /\ Remembers
  BY <1>1, <1>2, RegistryKeepsRecord, LobbyKeepsRecord DEF Hosting
<1>3. ASSUME NEW a \in Account, CreateRematchLobby(a) PROVE RecordInv'
  BY <1>3 DEF CreateRematchLobby, RecordInv, RecordedResult
<1>4. CASE UNCHANGED vars
  BY <1>1, <1>4 DEF vars, matchVars, RecordInv, RecordedResult
<1>5. QED
  BY <1>1, <1>2, <1>3, <1>4 DEF Next

\* What is recorded of a match is its result, unless it was taken back.
THEOREM ResultsRecorded == Spec => []RecordedResult
<1>1. RecordInv => RecordedResult
  BY DEF RecordInv
<1>2. QED
  BY <1>1, InitTyped, NextTyped, RecordInit, RecordKept, PTL DEF Spec

\* Once a save has returned and no other is under way, none ever begins.
THEOREM RecordsAreFinal == Spec => RecordIsFinal
<1>1. ASSUME TypeOK, [Next]_vars, persisted, round' = round,
             \A c \in Caller : calls[c].op # "saving"
      PROVE  recorded' = recorded /\ \A c \in Caller : calls'[c].op # "saving"
  <2>0. round \in 0 .. MaxRounds /\ session \in SessionType /\ calls \in [Caller -> CallStates]
    BY <1>1 DEF TypeOK, SessionType
  <2>1. ASSUME NEW c \in Caller, ApplyEnvelope(c)
        PROVE  recorded' = recorded /\ \A d \in Caller : calls'[d].op # "saving"
    <3>1. PICK r \in ResultsAfter(session.result) : Become(c, Persisting(r))
      BY <2>1 DEF ApplyEnvelope
    <3>2. Persisting(r) = Idle
      BY <1>1 DEF Persisting
    <3>3. QED
      BY <1>1, <2>0, <2>1, <3>1, <3>2 DEF ApplyEnvelope
  <2>2. ASSUME NEW c \in Caller, SaveCommits(c) \/ SaveReturns(c) \/ SaveFails(c)
        PROVE  FALSE
    BY <1>1, <2>2 DEF SaveCommits, SaveReturns, SaveFails
  <2>3. CASE RegistryStep
    BY <1>1, <2>1, <2>2, <2>3
       DEF RegistryStep, ChooseFirstPlayer, ClaimSeat, Connect, Disconnect, ResetMatch, Tick
  <2>4. CASE LobbyStep
    <3>1. lobby' \in LobbyType /\ recorded' = recorded
      BY <1>1, <2>4, LobbyTyped
    <3>2. Ensured(lobby').op # "saving"
      BY <3>1, EnsuredOK
    <3>3. \A c \in Caller : calls'[c] = calls[c] \/ calls'[c].op # "saving"
      BY <2>0, <2>4, <3>2
         DEF LobbyStep, JoinLobby, SubmitDeck, SubmitVerifiedLoadout, CheckPasses,
             CheckFails, CreationReturns, CreationFails
    <3>4. QED
      BY <1>1, <3>1, <3>3
  <2>5. ASSUME NEW a \in Account, CreateRematchLobby(a) PROVE FALSE
    BY <1>1, <2>0, <2>5, RoundsAssumption DEF CreateRematchLobby
  <2>6. CASE UNCHANGED vars
    BY <1>1, <2>6 DEF vars, matchVars
  <2>7. QED
    BY <1>1, <2>3, <2>4, <2>5, <2>6 DEF Next, Hosting
<1>2. TypeOK /\ [Next]_vars =>
        [persisted /\ round' = round /\ (\A c \in Caller : calls[c].op # "saving")
           => recorded' = recorded /\ \A c \in Caller : calls'[c].op # "saving"]_vars
  BY <1>1
<1>3. QED
  BY <1>2, InitTyped, NextTyped, PTL DEF Spec, RecordIsFinal
===========================================================================
