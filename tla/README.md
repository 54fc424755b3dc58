# Verification of optcg-sim

TLA+ models, TLC runs and TLAPS proofs of the stateful core of this repository:
the match server that hosts a two-player card game, with its registries and its store,
and the turns and battles of the rules engine behind it. Paths are relative to the repository;
`match-server` stands for `packages/match-server/src`, `engine-core` for
`packages/engine-core/src`.

## The system

A match is one value, `match.state` (a `GameState`), that a pure rules engine maps
to the next one, and one process that owns it. Everything that is hard happens
around that value: two clients that act on views of it that may be out of date,
resend what they sent, vanish and return; a periodic tick that may end the match
at any moment; rollbacks that bring old values back; registries and stores that
are updated across awaits.

| Part | State | Operations | What makes it correct |
| --- | --- | --- | --- |
| Session runtime, `match-server/match-session.ts` | idempotency map, accepted logs, queues to persist | `applyEnvelope`, `flushPersistence`, `saveSnapshot` | an action takes effect at most once; no two actions move the match on from one version; what is persisted is what was accepted |
| Local match, `match-server/local-match.ts` | `state`, `rollback` | action, decision, rollback request, cancellation | the engine's result is committed whole or not at all; mandatory phases run by themselves |
| Rollback, `match-server/local-rollback.ts` | points, open request | record, request, allow, deny, cancel | nothing undone returns; nobody is asked what cannot be done; `seq` never goes back |
| Timers, `match-server/match-timers.ts` | clock and grace per player, inside `state.timers` | advance, expire | the player who holds the match up pays; nobody holds it up for ever |
| Match registry, `match-server/dev-local-match-registry.ts` | sessions, seats, persisted ids | create, reset, rematch, choose first, claim seat, apply, tick | one match per id; a seat has one owner; a result is recorded once |
| Lobby registry, `match-server/dev-lobby-registry.ts` | lobbies, seats, readiness, decks | create, join, ready, submit deck, start | a match starts once, with the decks that were validated |
| Persistence and recovery, `match-server/*-persistence.ts`, `match-recovery.ts` | snapshots, logs, locks, freezes | append, save, load, lock, recover | a recovered match is one that was reached; one server recovers it |
| HTTP and WebSocket server, `match-server/match-http-server.ts` | open sockets, the tick | route, broadcast | every client sees committed states in order |
| Engine: turn flow and DON!!, `engine-core/turn`, `rules` | phase, turn player, decks, cost area | phase advance, end of main phase, concede, rule checkpoint | DON!! are conserved and placed once per turn; an empty deck ends the game |
| Engine: battle and life trigger, `engine-core/battle`, `life-trigger` | `state.battle` | declare, block, counter, damage, trigger | steps in order; a battle ends |
| Engine: effect queue and sequences, `engine-core/effect-runtime-*` | queue, deferred triggers, frames, pending decision | enqueue, order, resolve, resume | each queued effect resolves once; a decision resumes what it interrupted |
| Engine: setup and mulligan, `engine-core/setup` | hands, life, start-of-game effects | redraw, finalize | life is dealt after both decide |
| Engine: primitives, view, replay | none of their own | moves of cards, projections, hashes | cards are in exactly one zone |
| Card parser, client, command line, tools | none that matters here | | not modelled |

Calls go client → HTTP/WebSocket server → registry → session service → session
runtime → local match → engine, synchronously from `applyEnvelope` on. The tick
goes server → registry → timers → engine and does not pass the session runtime,
so the idempotency map knows nothing of it. Awaits exist in the registries, the
lobby and persistence; there interleavings matter. `hazards` in `PROJECT.json`
lists what can go wrong at its line.

## Modules

| Module | Models | Checked by |
| --- | --- | --- |
| `LocalMatch` | `local-match.ts`, `local-rollback.ts`; concession and the timers as seen from there | `MCLocalMatch`, runs `local_match`, `stale_consent`, `reopened_match` |
| `MatchTimers` | `match-timers.ts`, the tick, sockets; extends `LocalMatch` | `MCMatchTimers`, runs `match_timers`, `zero_clock` |
| `MatchSession` | `match-session.ts` before `LocalMatch` | `MCMatchSession`, run `match_session` |
| `AtMostOnce` | what a session promises; abstract | refined by `MatchSession` |
| `DonCards` | the DON!! cards of both players and every operation that moves one | as part of `TurnFlow` |
| `TurnFlow` | `turn/`, `rules/`, the end phase's effect queue, `advanceToMainPhase`; extends `DonCards` | as part of `Battle`; `MCTurnFlow`, runs `end_stranded`, `twin_triggers`, `two_hosts` |
| `Battle` | `battle/`, `life-trigger/`, the replacement of a K.O., the field; extends `TurnFlow` | `MCBattle`, run `turn_flow` |
| `HostedTurns` | what the host sees of a call of `Battle`, against what `LocalMatch` foresees; extends `Battle` | `MCBattle`, run `turn_flow` |
| `SessionStore` | the persistence of `match-session.ts`, `redis-match-persistence.ts`, `match-recovery.ts` | `MCSessionStore`, run `session_store` |
| `DurableLog` | what persistence promises; abstract | refined by `SessionStore` |
| `MatchRegistry` | `dev-local-match-registry.ts`, completed match records, sockets and seats | as part of `Lobby` |
| `Lobby` | `dev-lobby-registry.ts`, the rematch; extends `MatchRegistry` | `MCLobby`, run `match_hosting` |
| `LocalMatchProofs`, `MatchTimersProofs`, `MatchSessionProofs`, `SessionStoreProofs`, `LobbyProofs`, `TurnFlowProofs`, `BattleProofs`, `TurnBeginProofs` | theorems | TLAPS |

**LocalMatch.** `state`, `points` and `request` are `match.state`,
`match.rollback.points` and `match.rollback.pendingRequest`. The engine state is cut
down to what this layer reads: status and winner, `seq`, `actionSeq`, the pending
decision, who has an action other than conceding when none is pending (`holders`),
the timers, and a label `board` that stands for everything else. A board is
labelled with the `seq` it was first produced at. The engine is nondeterministic
(`EngineOutcomes`): the model claims nothing about rules, and a property that holds
here holds whatever the rules do. A live match may be left without anybody who has an action, since the engine can
strand it (`end_stranded`); there the host lists "Advance to main phase" to the turn player, which
`advanceToMainPhase` accepts without an event and without a change: `AdvancePhase`, an accepted call that raises no `seq` and, having
no event, records no point (`happened` in `RecordPoint`). Whose turn it is is not kept here, so either player may send it. An effect that ends the match may leave its question behind: the code takes the answer, for
`applyLocalDevDecision` does not ask for the status, and the result stays. Only `HostedTurns` says that the outcomes foreseen
are enough. A concession, a clock's included, is taken to be accepted; `TurnFlow` shows when it is not (`two_hosts`). Points are a set of states because a point *is* the state
before a call and its id begins with that state's `seq`; that this identifies it and
that the set is ordered as the list is are properties (`PointsInOrder`), not
assumptions. One action per entry point and outcome: `EngineMove` is the engine path
of `applyLocalDevAction` and `applyLocalDevDecision` with everything it calls
(`startMulliganAfterSetupIfReady`, `autoAdvanceMandatoryTurnFlow`,
`recordRollbackPoint`); `AllowRollback` is the restoring path of
`resolveRollbackConsent`, and so on. Calls that are refused change nothing and
appear in `MatchSession`. `abandoned` is a history variable: the labels a rollback has
undone.

**MatchTimers** gives `state.timers` its content: ticks left on each clock and each
grace. `Tick` is one run of the server's interval: the clocks and graces advance on the present
state and the first expiry concedes. `Connect` and `Disconnect` change the set that the
interval reads from the open sockets. `ExpiryBlamesItsPlayer` says of every tick that it ends the match if and only if a clock or a
grace runs out *in it*, and against the owner of that timer; `ClocksDrainOneAtATime` says of every step, with a request open or not,
which clock may change and by how much: one tick of the clock of whoever the match waits for, or both as the requested point had them.

**MatchSession** puts the idempotency map before the match. Any envelope (player,
client action id, expected seq, request) may arrive at any time and any number of
times, which covers loss, duplication, reordering and delay. `Verdict` is the chain of
checks of `applyEnvelope` in its order, the envelope's own decision id apart from that of its request (`answers`,
`req.decision`); only what passes all of them is applied and
stored, accepted or refused, with the `seq` that the result reports. An accepted request takes the match from the version it expected to the one
it reports; `VersionsLeftOnce` says that these spans never overlap. `AdvancePhase` has an empty span, as often as it is
sent, so the promise `AtMostOnce` does not say that accepted means a new version: it says that whatever of the match changed is under a new version, and
that the result reports it.

**DonCards** keeps the three records the engine keeps of a DON!! card: the lists `donDeck`
and `costArea` of each player, the card's `state` field, and the `attachedDon` lists of
leaders and characters. In the engine an attached card stays in the cost area and loses its
`state` field (`"none"` here). Cards are interchangeable, so lists are sets and the card moved off a deck is any;
an `attachedDon` list counts its references, because the code can append a card twice.
One operator per operation: placement, attachment, return, refresh, a host that leaves.
`OneReference` is the invariant on attached cards of `state/invariants.ts`; calls that run
`assertGameStateInvariants` have it as a guard, since the code throws and keeps the old state.

**TurnFlow** is a pure function from state to state behind one variable `state`, as the engine is. An
action is one call of the host: `applyAction` and then the mandatory phases
(`Hosted`, `AdvanceToMain`, the loop of `advanceToMainPhase`). Each phase function of `turn/phases.ts` is an
operator with its rule checkpoint (`enterMainPhase` can fail only where a continuous effect cannot be materialised, and the model has
none). In the main phase, what matters is what a call leaves behind: any DON!!
move, draw, play (paid with any set of active cards) or removal may happen there, an effect that asks
something being taken as one call at its answer; hand, costs and card texts only
decide which of these happens, and are left out; battles are `Battle`'s. In the end phase, where the answer decides
who goes on, both calls are modelled: effects queue, are ordered by a decision when there are
several, ask or draw, and the continuation after the answer hands over the turn, or not.

**Battle** adds to `state` the battle, the question that is open in it (`ask`), life totals, what is
rested, what was played this turn, and the index of each character, kept as the set of characters
before it. References of a battle (`Ref`) hold card and index, as the code's do, and are compared as `reifyCardRef`
compares them. An action is a call again: it runs until the engine must ask. An effect
that interrupts (`Effect`) turns a card, removes one, draws or does nothing; it may ask, and ask again at its answer, at
attack timing, after a block, in the counter step, after a K.O. and in a life trigger. Then the battle goes on by one of three
rules that differ in the code: the attack step drops a battle whose participants have moved (`AttackGoesOn`),
block and counter step refuse such an answer (`BattleGoesOn`; `specs/02-engine-mechanics.md:310` would end the battle
there too), and the second point of a double attack
follows in the call that answers the question about the first (`AddToHand`, `ActivateTrigger`). `TurnStep` is every other
call; the readying of leaders and characters by the refresh phase is in `FieldFollows`.

**HostedTurns** looks at `Battle` with the eyes of the host: the status, the result, whether a decision is
pending (`Waits`) and who has an action when none is (`Holders`). `CallsForeseen` says that each call is one of the
`EngineOutcomes` of `LocalMatch`, or a concession as `LocalMatch` has it: the rules that the host leaves open do nothing that it
leaves out. How far a call raises `seq` is a parameter of `LocalMatch` and not compared, nor is whom a decision asks.

**SessionStore** follows one runtime from its queues (`storeRecord`) through every command that
`flushPersistence` and `saveSnapshot` send to Redis. `Fails` is a command that rejects, carried out or
not; `Crash` ends the process between any two commands. Any number of servers run `recoverActiveMatches` for the match:
the lock with its time to live (`LockExpires`), the five reads of `loadSnapshot`, the freeze of what
cannot be loaded, the release in two commands. Requests are their numbers, a state is the number of the last request it has
seen, and keys are per match, so one match stands for all. The code stores every accepted request with
a snapshot, not only those since it (as `specs/08` has it), so logs repeat what the state has seen; a flush
writes actions before decisions, so across kinds a log may have a gap. `LogsContinueState` states
what remains true of each kind. `Durable` is what a recovery would find: nothing while the meta, state or manifest key is missing (`Loads`), since the match is
then not listed or is frozen. A flush that comes before the first snapshot does release requests into logs that no
recovery reads, and a crash in that time loses them; `ReleasedIsDurable` says no more of that time than that they are in those logs.

**MatchRegistry** and **Lobby** follow one match from its making to its record and its rematch.
`origin` says which of three ways made it: the default match, `POST /api/matches`, or a lobby. Every await is a
step: checking a deck, building the setup, saving a result; `calls` is what each overlapping request awaits. A completed match is saved
after an accepted envelope unless it is marked saved; the mark is set after the await, the tick saves nothing, and a rejected save ends
the process, since nobody catches it. Two requests that both find a lobby ready build the match twice, and the
second replaces the first, which is why `SettledMatchStands` waits until nobody is building (`settled`). A deck that is
submitted again while the match is built is recorded but not played (`overtaken`). `ClaimSeat` lets one account take both seats of a
default or HTTP match, whose rematch lobby can then never be ready; two rematch requests make two lobbies, of which the model follows one. Because it follows one match, it begins the rematch only
when nothing of the previous match is under way (`CreateRematchLobby`), which the code does not ask; two matches of the registry share no state. Who makes the choice of the first player
(`ChooseFirstPlayer`) is not kept.

Operators named `Faulty...` are wrong versions of the definition they precede. The
specifications do not use them; they serve to show that a property notices the fault.

## Runs

| Run | Question | Bounds | Result |
| --- | --- | --- | --- |
| `local_match` | Do rollback, concession and expiry leave the match, its points and an open request consistent? | 2 players, 2 points, `seq` to 8, steps of 1 and 2 | holds |
| `match_timers` | Who loses on time, and can the match be held up for ever? | clock 2, grace 1, 2 points, `seq` to 5 | holds |
| `match_session` | Does the session keep the promise `AtMostOnce`? | 2 ids per player, 7 requests, `seq` to 4, steps of 1 and 2, 1 stored refusal | holds |
| `stale_consent` | Can every pending decision be answered? | as `local_match` | violated |
| `reopened_match` | Is a completed match final? | as `local_match` | violated |
| `zero_clock` | Does an empty clock lose? | as `match_timers` | violated |
| `session_store` | Is nothing lost that was durable, and is a recovery whole and alone? | 2 callers, 2 servers, 3 requests, 1 failure | holds |
| `match_hosting` | Who plays which match with which deck, and which result is recorded? | 2 accounts, 2 + 1 decks, 2 overlapping requests, 1 rematch | holds |
| `turn_flow` | Are DON!! cards conserved, turns begun whole, calls ended where somebody can act or is asked about cards that stand, damage paid, empty decks punished, and calls such as the host foresees? | 2 + 1 DON!! cards, 2 leaders, 1 + 3 characters, area of 2, decks of 2, life of 2, 1 reference of a card per list | holds |
| `end_stranded` | Does the end phase go on to the next turn? | 2 + 1 DON!! cards, 2 leaders, 2 characters of one player, decks of 3, area of 1, no effect asks | violated |
| `twin_triggers` | Can a question about the next effect be answered? | as `end_stranded`, decks of 2, area of 2, one effect asks | violated |
| `two_hosts` | Has an attached card exactly one host? | as `end_stranded`, decks of 2, one effect asks | violated |

Bounds. Eight sequence numbers admit a move, a request, an answer, moves after it and a
second rollback, with two recorded points so that the list is cut while a request is
open. Two ticks of clock tell a drained clock from a fresh and from an empty one. Four
versions admit move, request, consent and restoration, with every envelope resent at every
stage; `MaxRefused` bounds how many refusals a match remembers, and the seven requests of
`MCSentRequests` contain one of every kind. An expiry is never held back by `MaxSeq`,
so liveness does not depend on it; players' moves are. Two DON!! cards of one player fill both
placements of a turn and can be on different hosts, the third shows a cost area of the other
player; decks of two give each player a turn, a draw by effect and an empty deck, and both decks can
run out in one call. An area of two overflows at a player's third character. `MaxReferences` stops
one list from naming a card without end; a card on two hosts, which is the other way to exceed one reference, stays
possible. One player alone has end of turn effects, one on the leader and one on the character, of which the
first asks; in `twin_triggers` two characters share an effect, as copies of a card do.

`turn_flow` explores the product of DON!! cards and battles from its two sides (`TwoSides`): every way of placing, paying, giving,
locking and returning DON!! cards (of locks, those on the first player's cards) before the second player has characters or an attack is declared, and
every battle with the DON!! cards as dealt, at most one of them used, and at most as many rested cards as a blocked attack
has. The proofs have no such bound. Nobody attacks in a first turn, so the
attacks are those of the first player's second turn. Three characters of the defender make references stale in both ways, by leaving
and by a card before them leaving; with two points of life an attack hits, a double attack takes both, and one or two points find no life.

Three requests, the second a decision among actions, make a log with a gap and one whose head was
already appended; one failure and two callers suffice to repeat, lose or overtake an append. Two requests and two accounts
overlap at each await of the lobby; one account has two decks, so that one can be replaced, and one rematch repeats all of it.

Deadlock is not checked: a completed match with
no points to go back to has no further step, and the bounds on `seq`, requests, failures and rematches stop the others.
In `turn_flow` a completed match has none.

Fairness. `match_timers` assumes `WF(Tick)` only: `setInterval` fires as long as the
process runs (`match-http-server.ts:936`). `match_hosting` assumes `WF(Answers(c))`: the promise that builds
a setup settles while the process runs, one way or the other (`dev-lobby-registry.ts:214`). Nothing is assumed of players.

The violated properties are statements of `specs/` that the code does not keep;
`findings` in `PROJECT.json` quotes them. `stale_consent`: a concession or an expiry while a consent
is pending records a point that holds the consent. Restore it, and the decision is back
without its request: neither answer is accepted and nothing but conceding is left.
`reopened_match`: `requestRollbackConsent` does not ask whether the match is over.
`zero_clock`: the point an expiry records already has the empty clock, and a clock
that starts a tick at zero does not expire. `end_stranded`: after the decision on the order of two effects that ask
nothing, `continueAfterEffectDecision` does not call `advanceEndPhase`, and nobody has an
action that does anything but conceding: the host still lists "Advance to main phase", which changes nothing, and a rollback can be
requested. `twin_triggers`: a queue entry's id lacks the source, so two copies of a
card make every answer look stale. `two_hosts`: an attached card that an effect rested passes
for a rested card of the cost area; the second attachment is not asserted, and calls that do assert throw from then on: the turn cannot be ended, nobody can concede, and the
concession of an expired clock throws in the timer interval, where nobody catches it. The proofs show that each of these states is
entered by the one call named here and by no other.
A related case is a hazard that a property covers: "Trash this Character instead" rests none of the host's cards, which are out of play until
the next refresh; `TurnsBeginWhole` shows that the refresh repairs it.

## Proofs

TLAPS proves for any two players, any rollback configuration, any timers and any bounds:

- `MatchInvariant`: `LocalSpec => []IInv`. `IInv` is the properties below and one conjunct more; it serves the proofs, and no run checks it besides
  its parts. `PointsInOrder`, `RewoundFutureStaysUndone` and
  `RequestAnswerable` are not inductive on their own. The conjunct `BoardsPast` adds that
  every board, also an undone one, is labelled at or before the present `seq`: this is why a
  new board is no abandoned one and a restored one brings no abandoned one with it.
  `RequestAnswerable` needs that the engine cannot move while a consent is pending
  (`NoMoveWhileAsked`), so that no point is recorded, and none cut, between a request and its answer.
  The proof has a lemma per action; committed calls share `CommittedStep`, calls that keep
  the board share `PatchedStep`.
- `PointsStayBounded`: a separate induction on the number of points; the list has a head by
  well-foundedness of the naturals.
- `SeqNames` and `RewindsAreConsented`: action properties from the same invariant.
- `TimersImplementMatch`, `SessionImplementsMatch`: the timed match and the match behind the
  session refine `LocalSpec`, so everything above holds of them.
- `VersionsAreLeftOnce` and `SessionKeepsPromise`: the session implements `AtMostOnce`; the
  invariant is `IInv` with the types of the map and `VersionsLeftOnce` itself: an accepted request begins its span at the
  present `seq`, where all others have ended, and `Stale` keeps it from beginning earlier. The promise needs that a step of the
  match which keeps `seq` keeps all that clients are shown ((`ShownStep`), `AdvancePhase` included), `AdvancePhase` included.

- `TypeCorrect`, `NoDonLost`, `CallsHandOff`, `EmptyDeckLoses`: the turn flow, for any finite sets of cards and
  hosts, any effects, any deck and area sizes. The inductive invariant says that the match is in its setup state or `Good`
  and handed off. `Good` is `HandedOff` weakened to the states between two phases (`Fit`: effect work only
  in the end phase), since the lemmas go through the phases one by one: each `Advance...` keeps
  `Good`, three rounds of the loop reach a stop from any phase (`AdvanceToMainOK`), and a call
  that leaves a good state ends in a handed off one (`HostedOK`). Conservation comes from one lemma per DON!! operation;
  `AttachDonOK` needs that a card is attached from the cost area of the host's own player, which every caller checks.

- `BattlesAreTurnSteps`: `BattleSpec => Spec`. Whatever happens in a battle is, for the turn, a step of `Spec` or none, so the four
  theorems of the turn flow hold of battles too (`BattlesKeepTurns`).
- `BattleTypeCorrect`, `AskedCardsStand`, `NoBattleStranded`, `DamagePaid`: the inductive invariant `BInv` adds to the properties that a
  battle is `Fought` between a card of the turn player and one of the opponent, is blocked only after the attack step and owes
  damage only in the counter step, that the question fits the step, and that indexes name cards in play. `EffectOK` says what an effect
  keeps; `EndOK`, `AskOK` and `QuietOK` are the three ways a call can end, and every action ends in one of them.
- `EveryTurnBeginsWhole`, and `TurnsAfterBattlesBeginWhole` for `BattleSpec`: `TurnsBeginWhole`. `TurnStarts` is its core: a call
  that ends where the refresh phase of a new turn begins and leaves the match alive went through refresh, draw, DON!! and main
  (`MainReached`: a completed state stays as it is, so none of the four was skipped), and each of the three operations does its part whatever the
  cards were like. `EndKeeps` says what the effects of the end phase leave alone for the next player; `TurnsCounted` (turns are counted from 1) is needed
  for the draw and the second DON!! card, which only the first turn of the match misses.
- `OnlyOrderedDrawsStrand`, `OnlyTwinsCannotBeOrdered`, `OnlyRestingUntiesDon`: the three findings about turns have one cause each,
  for any cards and effects. `EndPhaseCall` is what one call does to the end phase: a match that it leaves there waits, or it was the
  answer about the order after which nothing asks (`DrawsOrdered`); ids stay distinct while effects leave the queue, so an
  order can be asked in vain only for the queue that ending the main phase has made (`TwinsQueued`). `Tied` strengthens `AttachedOnce`
  to what is inductive: one host for each attached card, and no state beside it, which is what "give rested DON!!" asks for. Every operation on DON!! cards keeps it but an effect that rests an
  attached card; `TiedCardsAreAttachedOnce` and `AnswerableWithoutTwins` say that `AttachedOnce` and
  `TriggerOrderAnswerable` hold where the cause does not occur, and `BattlesAddNoCause` that battles bring no other.
- `StrandedMatchesOnlyEnd`, `TwoHostsHoldTheMatch`, `MatchesGoOn`: what follows. A stranded match is changed by a concession only; one with a card
  on two hosts not even that: its main phase goes on, nobody comes into play, and it ends by an empty deck only. Where none of the three holds,
  a live match always has a call that the guards of the model let pass.
- `CallsAreForeseen`: `CallsForeseen` for any cards and effects. It rests on `BInv` (a question outlives a match only with an empty
  deck, so a concession leaves none), on `Decided` (every operator of a call leaves a match live or with a result) and on `Fresh` (no
  deck runs out before the first main phase). `SomebodyMoves`: a live match without holders and without a question is a stranded end phase.
- `OnlyConsentReopens`, `OnlyRestoredConsentsAreStale`, `OnlyConsentEmptiesClocks`: the other three findings come of an allowed rollback
  only, the second of one to a point that was itself waiting for a consent.
- `ExpiriesBlameTheirPlayer`, `ClocksDrainSingly`: the action properties of the timers, for any policy. `TickEffect` is a
  tick as one change of the state (it gives both directions: a timer that runs out ends the match, and nothing else does), `DrainsOneClock` that the pending decision or a single holder names whose clock runs.
- `TypeCorrect`, `ReleasedStaysDurable`, `RecoverersTakeTurns`, `RecoveriesAreWhole`, `StoreKeepsPromise` (`SessionStoreProofs`): the
  store, for any numbers of callers, servers, requests and failures. The inductive invariant says that all that was written had
  been accepted (`Known`), that a call is alone as long as none have overlapped (`Sole`), and that it is in step with the queues
  (`InStep`: a flush holds the head of its queue, a save only what its state has seen); for recovery, that what a server has
  not yet read is where it will look (`Owed`). `RecoveriesAreWhole` also says that a match of which something was durable is not
  frozen. For the time before the first snapshot `KeysInv` says that meta, state and manifest are written in this order, so that
  a store which does not load has no manifest yet, and `ReleasedIsLogged` that the logs hold what was released.
- `LogsStayInOrder`: `LogsContinueState`, inductive together with `Ordered`: what is accepted and what is queued rises in number. `HeadIsNext` is the
  core: all that was accepted before the head of a queue is durable already, so appending the head, once or again,
  leaves no gap (`GapFree`), and neither does a snapshot, whose logs are all that was accepted.
- `TypeCorrect`, `OwnDecksPlayed`, `DecksListed`, `SocketsKeepSeat`, `MatchesStand`, `ResultsRecorded`, `RecordsAreFinal` (`LobbyProofs`):
  registry and lobby, for any accounts, decks and overlapping requests. The invariant carries what a suspended request holds: a match under
  construction has decks that their owners submitted for the seats of the lobby, and a save holds the result that the match has unless it was reopened.

Assumptions are the named ones of the modules: two players, positive steps of calls that do something, a policy with
positive times, requests well formed; each player's own DON!! cards and leader, and decks that are
not empty after setup. Only model-checked: the liveness properties
`UnattendedDecisionEnds`, `AbsenceEnds` and `LobbyStarts` (the prover does not handle fairness). Every other property of a
passing run is stated by a theorem.

## Not modelled

- The effect queue of both players, effect sequences and their frames (`engine-core/effect-runtime-*`): a state machine per
  printed text, with stops in the middle of a text. `TurnFlow` has the queue of one end phase, `Battle` the interruptions as such.
- The card-by-card primitives (search, selection, hand, trash), view, replay and hashing: functions of a state
  of which no model here speaks. Equal requests are taken to have equal hashes and others not.
- Effects in a battle that bring a card into play or move life, effects with a duration, and the moves that are offered (`getLegalActions`).
- Answers in a completed match, by `TurnFlow` and `Battle` (`LocalMatch` has them). A match ended by an effect in the middle of its own
  question keeps the question; `BattlesAsk` shows that only an empty deck leaves one. An effect that wins the game after
  the match is over is left out too.
- Several matches of one process: what ends one process ends them all, and a recovery that throws leaves out the matches after it.
- Authentication, deck validation, JSON and WebSocket framing, snapshots and labels for clients, the card
  parser, the client and the command line: data, formatting or I/O.

With overlapping flushes of a runtime the store does lose requests (both append the same head, and the second
drops a request that was never appended); `ReleasedIsDurable` and `DurableLog` are stated for callers that take turns, and
the model goes on to the end of the calls that first overlap.

## State of the plan

1. `LocalMatch`, `MatchTimers`, `MatchSession` with proofs: done.
2. `DonCards`, `TurnFlow` with proofs of conservation, hand-off and deck-out, that every turn begins whole, and what can go wrong on the way: done.
3. `SessionStore` over `DurableLog`, with proofs: done.
4. `MatchRegistry`, `Lobby`, with proofs: done.
5. `Battle` over `TurnFlow`, with proofs: done. The queues of both players that grow while they resolve are left.
6. `TurnFlow` and `Battle` under `LocalMatch` (`HostedTurns`), with proofs: done for the outcome of a call. A refinement of
   `LocalSpec`, in which rollback restores boards of `TurnFlow`, is left.
