--------------------------- MODULE MatchRegistry ---------------------------
(* One match id of the match registry: its session from creation or reset  *)
(* to a result, the sockets that play it, and the record of the result,    *)
(* which is saved across an await.  The game itself is the LocalMatch and  *)
(* the MatchSession behind it; here it is its result.                      *)
EXTENDS Integers, Sequences

CONSTANTS
    Account,     \* userId values
    NoAccount,   \* the subject of an unclaimed seat
    PlayerOrder, \* the two players, in the order of their seats
    Deck,        \* contents of decks
    NoDeck,      \* no deck was submitted; a template setup brings its own
    Caller       \* requests that can await something at the same time

ASSUME PlayersAssumption ==
    /\ PlayerOrder \in Seq(STRING) /\ Len(PlayerOrder) = 2
    /\ PlayerOrder[1] # PlayerOrder[2]
    /\ \A p \in {PlayerOrder[1], PlayerOrder[2]} : p \notin {"open", "draw"}
ASSUME NothingAssumption ==
    /\ NoAccount \notin Account
    /\ NoDeck \notin [by : Account, deck : Deck]

Player == {PlayerOrder[1], PlayerOrder[2]}

VARIABLES
    origin,     \* who made the match: "default", "http" or "lobby"
    session,    \* the entry of sessions, with the result of its match
    sockets,    \* who has been let in to which seat
    calls,      \* what each caller awaits
    persisted,  \* the id is in completedPersistedMatchIds
    recorded,   \* the result in the rows of the match
    up,         \* the server is alive
    reopened    \* history: a result was taken back or its match replaced

matchVars == <<origin, session, sockets, calls, persisted, recorded, up>>

TakesBack == session.result # "open" /\ session'.result # session.result

(* A deck, with the account that submitted it.                             *)
Submission == [by : Account, deck : Deck]
Seats(S) == [Player -> S]
Result == Player \cup {"draw"}

Session(status, owner, decks, listed) ==
    [status |-> status, owner |-> owner, decks |-> decks, listed |-> listed,
     result |-> "open"]
Everywhere(x) == [p \in Player |-> x]
TemplateSession(status) ==
    Session(status, Everywhere(NoAccount), Everywhere(NoDeck), Everywhere(NoDeck))

Idle == [op |-> "idle"]
Saving(r, stage) == [op |-> "saving", result |-> r, stage |-> stage]
Become(c, call) == calls' = [calls EXCEPT ![c] = call]

---------------------------------------------------------------------------
(* createMatch enters a session that waits for the choice of the first     *)
(* player, whatever was there: the decks to play are those of the setup,   *)
(* the decks to list in the record are those of the seats.                 *)
CreateMatch(owner, decks, listed) ==
    session' = Session("choosing", owner, decks, listed)

(* chooseFirstPlayer; a new runtime replaces the old one.  Which of the    *)
(* two accounts has the choice is not kept, so neither is the check of it. *)
ChooseFirstPlayer ==
    /\ session.status = "choosing"
    /\ session' = [session EXCEPT !.status = "active"]
    /\ UNCHANGED <<origin, sockets, calls, persisted, recorded, up>>

(* claimSeat; claiming a seat that is taken changes nothing.               *)
FaultyClaimSeat(a, p) ==
    /\ session.status # "none"
    /\ session' = [session EXCEPT !.owner[p] = a]
    /\ UNCHANGED <<origin, sockets, calls, persisted, recorded, up>>
ClaimSeat(a, p) ==
    /\ session.status # "none" /\ session.owner[p] = NoAccount
    /\ session' = [session EXCEPT !.owner[p] = a]
    /\ UNCHANGED <<origin, sockets, calls, persisted, recorded, up>>

(* resetMatch: the server resets the default match only.                   *)
ResetMatch ==
    /\ origin = "default"
    /\ session' = TemplateSession("active")
    /\ UNCHANGED <<origin, sockets, calls, persisted, recorded, up>>

(* A socket passes authorizeSeat once, when it opens.                      *)
Connect(a, p) ==
    /\ session.status # "none" /\ session.owner[p] = a
    /\ sockets' = sockets \cup {<<a, p>>}
    /\ UNCHANGED <<origin, session, calls, persisted, recorded, up>>

Disconnect(a, p) ==
    /\ <<a, p>> \in sockets
    /\ sockets' = sockets \ {<<a, p>>}
    /\ UNCHANGED <<origin, session, calls, persisted, recorded, up>>

(* The results an accepted envelope may leave: a move keeps the match open *)
(* or ends it; a rollback that is asked for, denied or resent changes      *)
(* nothing here; a rollback that is allowed opens the match again.         *)
ResultsAfter(r) == {r, "open"} \cup IF r = "open" THEN Result ELSE {}

(* persistCompletedMatchIfNeeded, up to its await.                         *)
ForgetfulPersisting(r) == IF r = "open" THEN Idle ELSE Saving(r, "sent")
FaultyPersisting(r) == IF persisted THEN Idle ELSE Saving(r, "sent")
Persisting(r) ==
    IF persisted \/ r = "open" THEN Idle ELSE Saving(r, "sent")

ApplyEnvelope(c) ==
    /\ sockets # {} /\ calls[c] = Idle
    /\ session.status = "active"
    /\ \E r \in ResultsAfter(session.result) :
          /\ session' = [session EXCEPT !.result = r]
          /\ Become(c, Persisting(r))
    /\ UNCHANGED <<origin, sockets, persisted, recorded, up>>

(* saveCompletedMatch is one transaction of upserts.                       *)
SaveCommits(c) ==
    /\ calls[c].op = "saving" /\ calls[c].stage = "sent"
    /\ recorded' = calls[c].result
    /\ Become(c, Saving(calls[c].result, "stored"))
    /\ UNCHANGED <<origin, session, sockets, persisted, up>>

SaveReturns(c) ==
    /\ calls[c].op = "saving" /\ calls[c].stage = "stored"
    /\ persisted' = TRUE
    /\ Become(c, Idle)
    /\ UNCHANGED <<origin, session, sockets, recorded, up>>

(* Nobody catches what a socket's envelope throws: the process ends, with  *)
(* every session in it.                                                    *)
SaveFails(c) ==
    /\ calls[c].op = "saving"
    /\ up' = FALSE
    /\ UNCHANGED <<origin, session, sockets, calls, persisted, recorded>>

(* advanceTimers ends a match on time, and saves nothing.                  *)
Tick ==
    /\ session.status = "active" /\ session.result = "open"
    /\ session' \in {[session EXCEPT !.result = p] : p \in Player}
    /\ UNCHANGED <<origin, sockets, calls, persisted, recorded, up>>

---------------------------------------------------------------------------
(* The default match is active from the start; POST /api/matches makes one *)
(* that waits for its first player; a lobby makes its own later.           *)
RegistryInit ==
    /\ \/ origin = "default" /\ session = TemplateSession("active")
       \/ origin = "http" /\ session = TemplateSession("choosing")
       \/ origin = "lobby" /\ session = TemplateSession("none")
    /\ sockets = {}
    /\ calls = [c \in Caller |-> Idle]
    /\ persisted = FALSE /\ recorded = "open"
    /\ up = TRUE /\ reopened = FALSE

RegistryStep ==
    \/ ChooseFirstPlayer
    \/ \E a \in Account, p \in Player : ClaimSeat(a, p) \/ Connect(a, p) \/ Disconnect(a, p)
    \/ ResetMatch
    \/ \E c \in Caller :
          ApplyEnvelope(c) \/ SaveCommits(c) \/ SaveReturns(c) \/ SaveFails(c)
    \/ Tick
===========================================================================
