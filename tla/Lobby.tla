------------------------------- MODULE Lobby -------------------------------
(* A lobby and the match it makes: seats are claimed, decks are submitted  *)
(* and checked, the match is built, all across awaits of requests that     *)
(* overlap.  When the players agree on a rematch, the model goes on with   *)
(* the lobby and the match of the rematch.                                 *)
EXTENDS MatchRegistry

CONSTANTS
    Submits,    \* bound: the decks each account may submit
    MaxRounds   \* bound: rematches

ASSUME SubmitsAssumption == Submits \in [Account -> SUBSET Deck]
ASSUME RoundsAssumption == MaxRounds \in Nat

VARIABLES
    lobby,      \* the seats with their decks, and whether matchId is set
    round,      \* bound: rematches so far
    failed,     \* history: a setup could not be built
    overtaken,  \* history: a deck was replaced while a match was built of it
    settled     \* history: there was a match, and nobody was building one

lobbyVars == <<lobby, round, failed, overtaken>>
vars == <<matchVars, lobbyVars, reopened, settled>>

Checking(p, s) == [op |-> "checking", seat |-> p, deck |-> s]
Creating(decks) == [op |-> "creating", decks |-> decks]
LobbySeats(owner) ==
    [owner |-> owner, decks |-> Everywhere(NoDeck), started |-> FALSE]

Ready(l) == \A p \in Player : l.owner[p] # NoAccount /\ l.decks[p] # NoDeck
SomeoneCreates == \E c \in Caller : calls[c].op = "creating"

(* ensureMatchWhenReady, up to the await of the setup: the decks are those *)
(* of this moment.                                                         *)
FaultyEnsured(l) == IF Ready(l) THEN Creating(l.decks) ELSE Idle
Ensured(l) == IF ~l.started /\ Ready(l) THEN Creating(l.decks) ELSE Idle

(* findSeatForAuth, and claimOpenSeat: the account's own seat, or else an  *)
(* open one; the first of them if there are two.                           *)
FirstOf(S) == IF PlayerOrder[1] \in S THEN {PlayerOrder[1]} ELSE S
OwnSeat(a) == FirstOf({p \in Player : lobby.owner[p] = a})
OpenSeat == FirstOf({p \in Player : lobby.owner[p] = NoAccount})
FaultySeatFor(a) == OpenSeat \cup OwnSeat(a)
SeatFor(a) == IF OwnSeat(a) # {} THEN OwnSeat(a) ELSE OpenSeat

---------------------------------------------------------------------------
Awaiting(c, op) == origin = "lobby" /\ calls[c].op = op
Untouched == UNCHANGED <<origin, sockets, persisted, recorded, up, round>>

JoinLobby(c, a) ==
    /\ Awaiting(c, "idle")
    /\ \E p \in SeatFor(a) : lobby' = [lobby EXCEPT !.owner[p] = a]
    /\ Become(c, Ensured(lobby'))
    /\ Untouched /\ UNCHANGED <<session, failed, overtaken>>

(* submitDeck, up to the awaits of decoding and validation.                *)
SubmitDeck(c, a, d) ==
    /\ Awaiting(c, "idle")
    /\ \E p \in OwnSeat(a) : Become(c, Checking(p, [by |-> a, deck |-> d]))
    /\ Untouched /\ UNCHANGED <<session, lobby, failed, overtaken>>

(* submitVerifiedLoadout claims a seat before it looks at the lobby and    *)
(* the seat that the handoff was made out for: refused, the seat stays.    *)
SubmitVerifiedLoadout(c, a, d) ==
    /\ Awaiting(c, "idle")
    /\ \E p \in SeatFor(a) :
          /\ lobby' = [lobby EXCEPT !.owner[p] = a]
          /\ \E call \in {Idle, Checking(p, [by |-> a, deck |-> d])} : Become(c, call)
    /\ Untouched /\ UNCHANGED <<session, failed, overtaken>>

FaultyCheckPasses(c) ==
    /\ Awaiting(c, "checking")
    /\ lobby' = [lobby EXCEPT !.decks[calls[c].seat] = calls[c].deck]
    /\ overtaken' = (overtaken \/ SomeoneCreates)
    /\ Become(c, Idle)
    /\ Untouched /\ UNCHANGED <<session, failed>>
CheckPasses(c) ==
    /\ Awaiting(c, "checking")
    /\ lobby' = [lobby EXCEPT !.decks[calls[c].seat] = calls[c].deck]
    /\ overtaken' = (overtaken \/ SomeoneCreates)
    /\ Become(c, Ensured(lobby'))
    /\ Untouched /\ UNCHANGED <<session, failed>>

CheckFails(c) ==
    /\ Awaiting(c, "checking")
    /\ Become(c, Idle)
    /\ Untouched /\ UNCHANGED <<session, lobby, failed, overtaken>>

(* The setup is built: the match plays the decks it was built of, and      *)
(* lists those that the seats have by now.                                 *)
FaultyCreationReturns(c) ==
    /\ Awaiting(c, "creating")
    /\ CreateMatch(lobby.owner,
                   [p \in Player |-> calls[c].decks[CHOOSE q \in Player : q # p]],
                   lobby.decks)
    /\ lobby' = [lobby EXCEPT !.started = TRUE]
    /\ Become(c, Idle)
    /\ Untouched /\ UNCHANGED <<failed, overtaken>>
CreationReturns(c) ==
    /\ Awaiting(c, "creating")
    /\ CreateMatch(lobby.owner, calls[c].decks, lobby.decks)
    /\ lobby' = [lobby EXCEPT !.started = TRUE]
    /\ Become(c, Idle)
    /\ Untouched /\ UNCHANGED <<failed, overtaken>>

(* The setup rejects and with it the request; nothing tries again.         *)
CreationFails(c) ==
    /\ Awaiting(c, "creating")
    /\ Become(c, Idle)
    /\ failed' = TRUE
    /\ Untouched /\ UNCHANGED <<session, lobby, overtaken>>

(* createRematchLobby: the owner of a seat of a match that has a loser     *)
(* opens a lobby with the owners of its seats.  The model goes on to it    *)
(* only when nothing of the match before is under way (the code asks for   *)
(* no such thing): it follows one match at a time.                         *)
CreateRematchLobby(a) ==
    /\ round < MaxRounds /\ round' = round + 1
    /\ session.status = "active" /\ session.result \in Player
    /\ \E p \in Player : session.owner[p] = a
    /\ calls = [c \in Caller |-> Idle]
    /\ origin' = "lobby" /\ session' = TemplateSession("none")
    /\ lobby' = LobbySeats(session.owner)
    /\ sockets' = {} /\ persisted' = FALSE /\ recorded' = "open"
    /\ failed' = FALSE /\ overtaken' = FALSE
    /\ reopened' = FALSE /\ settled' = FALSE
    /\ UNCHANGED <<calls, up>>

---------------------------------------------------------------------------
Init ==
    /\ RegistryInit
    /\ lobby = LobbySeats(Everywhere(NoAccount))
    /\ round = 0 /\ failed = FALSE /\ overtaken = FALSE /\ settled = FALSE

LobbyStep ==
    \/ \E c \in Caller, a \in Account : JoinLobby(c, a)
    \/ \E c \in Caller, a \in Account : \E d \in Submits[a] :
          SubmitDeck(c, a, d) \/ SubmitVerifiedLoadout(c, a, d)
    \/ \E c \in Caller :
          CheckPasses(c) \/ CheckFails(c) \/ CreationReturns(c) \/ CreationFails(c)

Remembers ==
    /\ reopened' = (reopened \/ TakesBack)
    /\ settled' = (lobby'.started /\ (settled \/ ~SomeoneCreates'))
Hosting == (RegistryStep /\ UNCHANGED lobbyVars) \/ LobbyStep

Next ==
    /\ up
    /\ \/ Hosting /\ Remembers
       \/ \E a \in Account : CreateRematchLobby(a)

(* A setup that is being built is answered, one way or the other.          *)
Answers(c) == up /\ (CreationReturns(c) \/ CreationFails(c)) /\ Remembers
Fairness == \A c \in Caller : WF_vars(Answers(c))

Spec == Init /\ [][Next]_vars /\ Fairness

---------------------------------------------------------------------------
(* Properties                                                              *)

CallStates ==
    {Idle}
      \cup {Saving(r, s) : r \in Result, s \in {"sent", "stored"}}
      \cup {Checking(p, s) : p \in Player, s \in Submission}
      \cup {Creating(d) : d \in Seats(Submission)}

(* The registry and the lobby stay within their types.                     *)
TypeOK ==
    /\ origin \in {"default", "http", "lobby"}
    /\ session \in [status : {"none", "choosing", "active"},
                    owner : Seats(Account \cup {NoAccount}),
                    decks : Seats(Submission \cup {NoDeck}),
                    listed : Seats(Submission \cup {NoDeck}),
                    result : Result \cup {"open"}]
    /\ sockets \subseteq Account \X Player
    /\ calls \in [Caller -> CallStates]
    /\ persisted \in BOOLEAN /\ recorded \in Result \cup {"open"}
    /\ up \in BOOLEAN /\ reopened \in BOOLEAN
    /\ lobby \in [owner : Seats(Account \cup {NoAccount}),
                  decks : Seats(Submission \cup {NoDeck}), started : BOOLEAN]
    /\ round \in 0 .. MaxRounds
    /\ failed \in BOOLEAN /\ overtaken \in BOOLEAN /\ settled \in BOOLEAN

(* A match made by a lobby is played by two accounts, each in the seat it  *)
(* holds in the lobby and with a deck of its own, however joins, decks and *)
(* handoffs overlap.                                                       *)
PlaysOwnDeck ==
    origin = "lobby" /\ session.status # "none" =>
        /\ session.owner = lobby.owner
        /\ \A p \in Player : session.decks[p].by = session.owner[p]
        /\ session.owner[PlayerOrder[1]] # session.owner[PlayerOrder[2]]

(* The record lists the decks that the match was played with, unless a     *)
(* deck was submitted again while the match was built.                     *)
ListsDecksPlayed == ~overtaken => session.listed = session.decks

(* A socket is checked once and plays on: its seat remains its account's.  *)
(* Only a reset of the default match empties seats under open sockets.     *)
SocketsOwnSeat ==
    origin # "default" =>
        \A a \in Account, p \in Player : <<a, p>> \in sockets => session.owner[p] = a

(* The result in the rows of the match, and none else, is the result that  *)
(* it has, however envelopes, ticks and saves overlap, unless that was     *)
(* taken back: a match recorded too early would never be recorded again.   *)
RecordedResult ==
    ~reopened /\ (persisted \/ recorded # "open") => session.result = recorded

(* Once a save has returned, the rows change no more but by saves that     *)
(* were under way: not by resending, reopening or resetting the match.     *)
RecordIsFinal ==
    [][persisted /\ round' = round /\ (\A c \in Caller : calls[c].op # "saving")
         => recorded' = recorded /\ \A c \in Caller : calls'[c].op # "saving"]_vars

(* Once a lobby has its match and no request is still building one,        *)
(* nothing puts another in its place, whatever is joined or submitted.     *)
SettledMatchStands ==
    [][settled /\ round' = round
         => /\ session.status = "active" => session'.status = "active"
            /\ session'.decks = session.decks /\ session'.owner = session.owner]_vars

(* A lobby with two decks gets its match, unless building it failed.       *)
LobbyStarts == Ready(lobby) ~> lobby.started \/ failed \/ ~up
===========================================================================
