# SolPoker: a TLA+ verification project

SolPoker plays Texas Hold'em in a Solana program. Money lives on the base layer; while a
table is open its accounts are delegated to an ephemeral rollup, where a hand is played by
some twenty instructions, nearly all of them permissionless. There is no server: the browsers
of the players start the table, draw the shuffles, deal, settle, and take the table home. A
transaction is atomic, so in the models of the program a step is one accepted instruction and
a refused one is no step; in the models of the browser a step is what happens between two
awaits. What is hard is not inside a step but between them: any caller, any order, any number
of times, over accounts that were written several steps ago and are seen later still.

## Inventory

| component | source | state | operations | what makes it correct |
|---|---|---|---|---|
| betting engine | `crates/poker-engine/src/betting.rs` | eight fields per seat, six per hand | begin_hand, apply, advance_street, legal_actions | turn order, who may raise, when a street closes, chips stay with their seat |
| pots and rake | `crates/poker-engine/src/pots.rs`, `state.rs` | none (pure) | build_pots, distribute, rake_for, rake loop | every chip has exactly one owner, the right one |
| hand lifecycle | `instructions/{hand,action,timeout,settle}.rs`, `bridge.rs` | Table, Hand, Deck, Seat, HoleCards | start_hand, deal_hole_cards, player_action, force_timeout, advance_street, settle_hand, abandon_hand | chips conserved, each hand settled once, cards gone between hands, no hand stuck |
| shuffle | `instructions/shuffle.rs`, `lib/salts.ts` | salts per seat, request, two draws | commit_salt, reveal_salt, request_shuffle, two callbacks, reset_shuffle | the seed is what the published values give, fixed before anybody can know it |
| custody | `instructions/{table,player}.rs` | Player, Table, Seat, vault | join, leave, sit_down, stand_up, vacate_seat, close_table, buy, sell, sweep_rake | every chip redeemable, nobody paid twice |
| delegation | `instructions/delegation.rs` | owner of each account | delegate/undelegate core and seats | no secret committed, no account stranded |
| privacy | `instructions/privacy.rs` | a permission per hole account | secure_deck, secure_hole, release_hole | only the occupant reads a hole account |
| history | `instructions/history.rs` | last recorded hand | commit_results, record_hand_result | one record per hand, in order, the right hash |
| crank | `lib/crank.ts`, `hooks/use-crank.ts` | a view of the table | tick, maybeCommit | something is always called when it is due, and lands |
| errands | `hooks/use-table-actions.ts`, `api/delegate` | how far each browser is | start, pause, cash out, rebuy, delete | all or nothing, and two of them do not undo each other |
| overlay | `lib/optimistic.ts`, table page | the predicted action | press, retire, refuse | a bet is shown once and the prediction goes away |
| record | `hooks/use-hand-capture.ts`, `lib/history-db.ts`, `lib/report-hand.ts`, `api/hands`, `lib/rake.ts` | what the page saw of a hand, rows of the server | watch, fetch, prove, report, merge | records are of one hand and agree with what was paid |
| sessions and identity | `lib/session.ts`, `hooks/use-tee.ts`, table page | the key the page holds and those it stores, whose connection it has | authorise, sit down, restore, refuse, connect, log out | the page ends up playing and reading as the wallet that is connected |

`instructions/...` is under `programs/solpoker/src`, `lib`, `hooks` and `api` under `app/src`.

The engine is called by the hand lifecycle, which copies accounts into the engine's struct
and back (`bridge.rs`) around every instruction. Settlement calls the pots. The shuffle hands
its two draws to `start_hand` through the deck; privacy gates `start_hand` through the
`secured` flags; custody and delegation may touch a table only while it is `Waiting`; the
history is fed from what settlement leaves on the hand. The crank calls all of these, on what
it saw of the accounts some time ago; errands call custody and delegation while every other
browser's crank goes on. The overlay and the record only read the accounts, each through a
subscription of its own. Sessions decide with which key the crank signs.

## Modules

    Ring --- Betting --- Hand (with Pots) --------- implements --> Purse
      |--- Pots --- Settlement (with RakeBooks)
      |--- Shuffle
      |--- Privacy
      \--- Custody -------------------------------- implements --> Ledger
              \--- Errands ------------------------ its steps are Custody's
    History --- Crank ----------------------------- its steps are History's
    RakeBooks --- Record        Overlay        Sessions
    Sums --- HandProofs (betting, pots and rake, hand, settlement)
      |----- CustodyProofs (custody, its ledger, errands)
      \----- RecordProofs (what is recorded of a hand, and its rake)
    CrankProofs (history, crank)   PrivacyProofs   ShuffleProofs   OverlayProofs

The program:

* **Ring**: the ring of seats. `next_occupied`, `find_next_actor` and the odd-chip loop are
  one walk, `FirstAfter`.
* **Betting**: the engine, one variable per field, one action per `Action`, `AdvanceStreet`.
  `NextToAct` is `find_next_actor` followed by `settle_if_no_action`. The history variable
  `acted` is read by one property and by no guard.
* **Pots**, **RakeBooks**: `build_pots`, `distribute`, `rake_for` and the loop that spreads the
  rake; and `rake.ts`, which works the rake back from what was paid out.
* **Settlement**: the money part of `settle_hand` over every small hand, against a reference
  that builds no band (pots between the stakes of the seats still in, dealt out a chip at a
  time clockwise), and the server's books against the program's rake. It shares no name with
  Hand (`hasFolded`, `dealerButton`, `Blind`), so that HandProofs can extend both.
* **Hand**: the instructions over the accounts. It extends Betting: the seat and hand
  accounts hold the engine's fields. Cards are abstracted to the number of the hand they
  belong to, the deadline to in time / late / abandonable, the arrival of randomness to one
  step.
* **Purse**: what a hand promises a player's money: one deal, then one award that moves chips
  between the players of that hand and the house, or one refund.
* **Shuffle**: the salts, the request, the two callbacks, `reset_shuffle`, and what starting
  and ending a hand and a change of occupant do to them. The oracle is external: a request is
  answered late, in any order or never. A salt is named by who made it and when; exclusive or
  of distinct salts is their set, of equal ones their symmetric difference.
* **Custody**: accounts, money and layers. Balances and the vault stay on the base layer; the
  core accounts and each seat travel to the rollup and back one at a time, and an undelegation
  freezes the account before it lands. A hand is abstracted to chips going to the middle one at
  a time and coming out in any way that adds up, which is what Purse promises of it.
* **Ledger**: what custody promises: a player's wealth changes by trading with the vault and by
  hands it plays in, and by nothing else. Sitting, leaving, sweeping, deleting a table and
  moving accounts are stutters of it.
* **Privacy**: the permission of each hole account and the flag `start_hand` reads instead of
  it. The permission program is external: a private permission is updated by the member it
  names, any other by anybody. The table moves between the layers as a whole here.
* **History**: the rollup's Hand account, the copies of it under way to the base layer, the
  actions under way with them, and the record. A copy is a pair of the hand's number and the
  hash it holds, which during a hand is that of the hand before: `settle_hand` writes it and
  `start_hand` does not clear it.

The browsers:

* **Crank**: one client is followed. A pass of it reads each account as it is or as it was a
  step before, and makes its list of calls; answers, calls, draws and pages are lost. The
  others' clients make any permitted call or none. It extends History and carries as much of
  Betting, Hand and Shuffle as the crank looks at.
* **Errands**: the buttons as rows of sends over Custody's instructions, one row per browser,
  with faults and what is undone; a hand only runs, nobody bets.
* **Overlay**: the player's own action between the press and the two pushes that confirm it.
* **Record**: a page that pieces hands together from accounts it saw at different times, the
  fetch with its tries, the checks, the report, and the server that merges reports.
* **Sessions**: the key the page holds, one stored per wallet, the connection and its busy flag,
  while the wallet is switched, the page reloaded and hours pass between the steps of an errand.

## Runs

| run | instance | states | shows |
|---|---|---|---|
| betting | 4 seats, blinds 1/2, stacks 0, 1, 3, 6 | 837 k | turn order, street closing, raise rights, offered raises |
| settlement | 4 seats, stakes 0..3, two ranks, every fold, button, flop or not | 221 k | side pots, ties, odd chips, rake, the books |
| hand | 3 seats, two hands, two ranks | 89 k | dealing, cleaning, pots with owners, refinement of Purse, every hand ends |
| hand_exclusion | 3 seats, one hand | | finding 1 |
| shuffle | 2 seats, 3 requests, 2 hands, 1 lost salt, 2 changes of occupant | 734 k | the seed, the phases, stragglers, that a stuck shuffle clears |
| custody | 3 seats, 2 players and the house, one chip each, one hand, 4 delegations | 232 k | solvency, the map of seats, refinement of Ledger, everybody gets home |
| privacy | 2 seats, 3 players, no bound | 43 k | the flag against the permission, who reads cards, seats heal |
| errands | 2 seats, both players with a browser, 2 presses, 1 fault, 1 draw, 1 hand | 2.0 M | starts are all or nothing, agree, and errands do what they say |
| crank | 3 seats (one stays, one comes and goes), one hand, 1 fault | 414 k | the record, calls that land, the hand gets through every stage, the base layer catches up |
| overlay | 3 chips, 2 streets, 2 hands, 1 transaction given up | 2.1 M | a bet shown once, no dip, the overlay retires |
| record | 2 seats with 3 chips, 2 hands, 1 account behind, 1 other report | 2.4 M | one hand per record, true payouts, contributions that add up |
| sessions | 2 wallets, 2 faults | 356 k | connected as itself, never without a way back to an accepted key |

Bounds. *Betting*: four seats are the fewest where a short all-in meets seats that have acted and
seats that have not; a stack of 1 cannot pay the big blind, 3 allows a short raise, 6 a full raise
with chips behind. *Hand*: two hands show that nothing of the first leaks into the second. The real
rake of 250 bp takes nothing from pots of a dozen chips, so the rate is a constant and the runs
raise it. *Shuffle*: three requests are a request, the one after its reset and the one after a hand.
*Custody*: four delegations are the core and three seats, so a table is split in every way on the
way out and back; one player has no balance account at first. *Privacy* has no counter. *Errands*:
two presses are one errand against another, or one after another; the fault is a send refused or
lost, an answer lost, a read that fails, a wait that runs out, or a delegation, the core's or a
seat's, that lands after it was given up; everybody is in a chair at the start and the table is
home. *Crank*: the third seat is for a player who commits a salt and vanishes, and one seat needs
securing first; one hand, so that a hand's leftovers in the next are seen by the runs hand and
shuffle and, for the record, by the theorem. *Overlay*: two hands, since a prediction of one may
still be there when the next is dealt. *Record*: the first hand is abandoned before the page opens,
and the hand after the last one only starts; each puts in two chips or three, the big blind is 2 and
the rate half the pot, so that small pots, a tie among them, are raked, and a raked pot and a free
one can net the same; another page's report names a big blind of 2 or of 3, which is enough for a
false breakdown two chips off to be believed. *Sessions*: the faults are a prompt declined or a send
lost, a confirmation not heard, a token that vanishes, a redeployment; nothing else in it counts.

Deadlock is checked only in the run crank, where a table that has played its hands still has
clients looking at it; in the others a table at rest, or one whose bound is used up, may stop.

## Fairness

In **Hand** time passes and each permissionless instruction that stays due is called: every open
client runs the crank, and anybody may. Nothing is assumed of the players, nor of
`abandon_hand`. The `...Due` predicates are the guards, weak fairness with `ENABLED` spelled out.

In **Shuffle** every client's crank commits and reveals its own salt and the cranks share the
requests, resets and the end of a hand; the oracle is not assumed to answer. In **Custody** hands
end, scheduled undelegations land, and a player who wants out keeps asking; nothing is assumed of
the creator, the treasury or an hour of waiting. In **Privacy** each seat's repair is strongly
fair: cranks try between hands, twice a second, and a next hand waits there for a draw.

In **Crank** the client sees the accounts (its subscriptions and its poll), goes on with its pass
and ticks (an interval), and polls the record; the clients in `Present` keep at their salts; the
oracle answers a request it still has; deadlines pass; copies and actions, once sent, arrive. The
other clients and the players who act are not assumed to do anything. Three assumptions are part of
the model: a shuffle's deadline passes only if its draw is stuck (resets by others could otherwise
chase every answer away), a salt of the followed client does not take a whole hand to land
(`KeepsUp`; a laptop that wakes up commits the wrong hand's salt), and delays (`armed`, backoff)
only order the calls. In **Overlay** the two accounts are pushed, a transaction is executed or given
up, and its answer comes; nothing is assumed of the other players or of the timer. In **Sessions**
prompts and sends are answered or time out (`staged`, the fetch deadlines); the signature that
connects a wallet is the exception, no deadline of the page's ends it (`tee-auth.ts:108`, the two
fetches around it have one), so there the player is assumed to answer the wallet's prompt, one way
or the other. The crank of a running table goes on calling, and a player presses the button offered
when the page holds no key or the link is down; nothing is assumed of time or of switching wallets.
**Errands** states no liveness: each property is about the step in which a row ends.

## Proofs

Every theorem is for all values of the constants: any number of seats, players, blinds, stacks,
hands, faults. The assumptions on constants are the named ones of the modules
(`SeatsAssumption`: two seats or more; `BlindsAssumption`: what `create_table` refuses otherwise;
`RakeAssumption`: the rate is below the whole; the bounds are naturals) and those named below.

**Sums** makes sums provable. A sum over seats or players is a fold, a recursive function; the
prover can neither instantiate an induction theorem nor unfold the community module's definition
by itself. `SumUnfolds` shows that a fold over a finite set is given by a function that adds one
chosen element at a time, `AddsAnywhere` that any other order gives the same, and the rest (take
one out, put one in, add pointwise, compare, split) follows. Inductions run over a set `Good` of
subsets instead of a predicate (`SmallerFirst`, `OneByOne`).

**HandProofs**, in four parts. *Betting*: `IInv` is an invariant of `Betting!Spec` and gives
`TypeOK`, `TurnIsPlayable`, `StreetClosesMatched`, `ActiveStakesLead`, `RaiseRights`,
`OfferedRaisesAreLegal`, `ChipsStayWithSeat` and `BetsOnlyGrow`. None of these is inductive alone.
`IInv` adds `Accounts` (what a seat put in on a street is part of what it put in over the hand,
nobody is past the current bet, all-in means no chips behind), `OwingOrMatched` (an active seat
that owes nothing has matched the bet, which is what makes a street close correctly) and
`PriorStakesLead` (before this street seats still active had put in equal amounts and nobody
more, which carries `ActiveStakesLead` over a street). The walk round the ring needs that a
finite non-empty set of seats has a nearest one (`FirstAfterIn`).

*Pots and rake*, for every stakes, folds, ranks, button and rake: what the debug assertions of
`pots.rs` say and the program is trusted with. `PotsHoldTheStakes`: the pots come to what was put
in, and each can be won if anybody who paid is in. `PotsArePaidOut`: payouts and unclaimed chips
come to the pots, odd chips included. `RakeIsTaken`: no rake makes or loses a chip, or takes
everything. Each is an invariant of the fold over levels, pots or seats, taken a step at a time
(`AddBandIs`, `PayPotIs`, `ChargeIs`). `PotsFollowTheStakes` says what the pots are: one for each
stake of a seat still in, holding what lies between it and the stake below, for those who put in
as much. The code goes through the levels of everybody, folded seats included, and merges; the
invariant (`Layered`) says what the pots made so far are after any number of levels.

*Hand*: `HandIInv`, and from it `CleanBetweenHands`, `DealtOnce`, `EveryPotHasAnOwner` and the
engine's own properties hand after hand, and that a hand implements `Purse`. It adds to `IInv` the
life cycle (which stages of table, board and street go together, and that a table with no hand
has no seat in one), the stamps (the hole accounts are stamped with a hand's number all together,
which is what makes a second deal harmless) and `BlindOutlasts`: while a seat still in has paid
nothing, it owes an action, and some seat that has paid comes after it in turn. So a hand never
ends with chips in the middle and nobody left who put any in, which is why settlement is never
refused (`UnclaimedChips`). It follows the turn round the table through folds, exclusions, short
blinds and raises. The steps of `Purse` are then sums: one deal moves chips to the middle, one
award gives all of them back but the rake.

*Settlement*, whose three invariants are proved of `SettlementSpec` itself: `RakeIsFair` and
`BooksAgree`, if `MaxSeats * RakeBps <= 10000` (the program has 6 times 250; the run has 4 times
2500). Then one winner was paid more than the rake (`SomebodyCoversRake`), so the guard on the
remainder in `settle_hand` never bites: the largest payout, though compared with others already
reduced, still covers it (`ChargedUpTo`). The rounded-down shares miss the rake by less than a
chip per winner (`SharesOfRake`). Two winners each pay within a chip of their exact part, before
and after the rake is off, so that program and books are at most two apart (`WithinTwoChips`),
whatever the pot. For any rate and any sets of stakes and ranks, settlement comes off and
`PaysTheReference`: each seat is paid what the reference of the module, which knows nothing of
bands or remainders, would. The pots are numbered by the stakes of the live seats, so sums over
one are sums over the other (`SumNumbered`), and a winner's share with its odd chips is what
dealing the pot out one chip at a time, from the button on, gives it (`DealtInTurn`,
`ShareIsDealt`).

**CustodyProofs**: `TypeOK`, `SeatMapAgrees`, `OneSeatEach`, `NeverSplitMidHand` and
`NothingLeftInTheMiddle` hold together or not at all: `take_seat` reads only the map, so it keeps
one seat per player because the map is right; it is right to empty a seat's stake because between
hands nothing is in the middle; a base-layer instruction cannot meet a hand because a hand needs
everything on the rollup. What has to be added is `Lifecycle`: accounts that do not exist are
empty and on the base layer, and only occupied seats are dealt in. On top of it, for a finite set
of players, `Solvent` (the vault covers every chip, wherever it is) and that Custody implements
`Ledger`: a player's wealth, over balance, seat and middle, moves only by trading and playing. A
browser's rows, however they interleave, fail and are undone, make only Custody's steps
(`StepMoves`, one lemma per step that moves something; `RowsOK`: their loops only name seats), so
the same holds of `ErrandSpec`: no button splits a table while a hand runs or loses a chip. Its
start, where everybody has a chair, is no initial state of Custody, so the invariant is shown to
hold of it.

*Errands*: its three properties are about the step in which a row ends, so the invariant
(`CourseIInv`) says what is true at each step before. An errand that is calm (`calm`: the table
was whole at its press and nobody has done anything since) is followed from press to end, one
lemma for each step: where the core is (`Course`), where the seats are if nothing failed
(`Smooth`) or one thing did (`Rough`), and who sits where with what in the middle of a cash-out, a
rebuy or a deletion (`Seating`). Everybody else's step ends the calm, an account that lands only
helps (`SettlingOn`). That gives `ErrandsSucceed`, for any number of seats, and
`StartIsAllOrNothing` with `MaxFaults <= 1` as a hypothesis, which is what it says of the start:
two faults can leave half a table, one that loses a seat's delegation and one that loses the undo.
After one fault, what is on the rollup is what this errand sent there (`OnlyUp(moved)`), or the
fault came earlier in the errand, and then nothing is on its way back and every missing seat is
still on the list. `StartsAgree` is about starts that do interfere: while start is all that
anybody pressed and nothing failed (`Agreed`), nothing leaves the rollup, and no client gets to
its undo, since every seat on the base layer is on the list of every start that looked
(`OnlyDown(todo)`).

**CrankProofs**: `RecordedIsRecent` of History, whose invariant says of every copy, under way or
landed, that it is of the current hand or an earlier one, that copies are in the order they were
made, and that a copy's hash is its own hand's, the one before's or none; every step of the
cranked table is a step of History or a stutter, so the record is right whatever clients do.
`CallsLand`: a client that saw everything makes no call the program refuses but the knocks of
`start_hand`. It needs `TableGoesOn` (which stages of hand, shuffle and seats can be together) and
`PageKeepsUp` (the page is never ahead of the table, and remembers having dealt only hands that
are dealt).

**PrivacyProofs**: `FlagNamesOccupant`, `OnlyTheOccupantReads` and `HiddenStaysHidden`. The
inductive invariant adds `DealtAreGuarded`: a seat that is dealt in is on the rollup in a hand,
where seats do not change hands, and its permission names its occupant or was released by it.

**ShuffleProofs**: `SaltsReproduceSeed`, `LatestDrawAfterSalts` and `DrawsDealOnce`. Each needs a
part of its own: a seat in the mask stands revealed, so it reveals no second salt
(`MaskIsRevealed`, lost when an occupant changes, see the findings); hand and deck agree on
whether a draw is out, so no salt is added to a request under way (`PhasesAgree`, `SaltsFixed`);
and a draw is still to come, on the deck or dealt, never two of these between hands
(`DrawsMoveOn`), which is what a straggler after a reset could break.

**RecordProofs**: `RecordsAreOfTheirHand`, `PayoutsAreTrue` and `ContributionsAddUp`. What a watcher
holds is of the hand on the table or of an earlier one, and what was paid in a hand that is over
does not change (`HandIsLive`, `TruthIsPast`); a digest is of its own hand's payouts
(`DigestIsOwn`), so late copies and reads can prove nothing else, and made-up numbers no digest.
For the contributions a second invariant (`BooksInv`) says that a settlement pays what was put in
less the rake (`TruthAddsUp`), that whoever knows a digest knows whether there was a flop
(`FlopIsKnown`), and that a hand's contributions are of one report, which agreed with the pot
(`RowsAgree`). That the server's test tells so much is arithmetic: amounts that net the same differ
by a chip at most, unless one of them is free of rake (`SameNetAgree`), and eight rounds from below
end within a chip of the fixed point (`EightRoundsAreEnough`). This needs a rate and a cap under
which the rounds get there: `Converges(q)`, a chip of rake for q of the pot, with q at least 2 and
the cap at most q to the eighth. The program's 250 basis points give q = 40 and ask for a big blind
below 2 * 10^12; at a rate above one half, or with a cap out of reach, the rounds need not arrive.
A report names the big blind its breakdown is checked at. One that names another can be believed
further off; since any blind's rake is within the percentage and the rounds only grow
(`RoundsGrow`), both it and the pot are within the percentage of what was paid
(`BelievedIsWithin`), and the property says of which hands that was tried (`misled`).

**OverlayProofs**: `ShownOnce` and `NeverDips`. What the page shows comes from two accounts pushed
at different times and a prediction, so the invariant says what each can be behind by: pushed
views and late transactions are of the past (`ViewsAreOld`, `MovesAreOld`), and a prediction that
nobody refused and that is not on its way has come true (`PredictionCameTrue`).

Model-checked only: liveness (both properties of Sessions are of that kind), which is out of the
prover's reach. Every safety invariant and action property of a passing run is proved.

## Findings

1. `start_hand` destroys the stack of a seat whose hole account is not secured (run
`hand_exclusion`): it deals such a seat in with a stack of 0 (`hand.rs:127`), and `store_betting`
(`bridge.rs:85`) writes the engine's empty seat over the account. "It is an **exclusion**, not a
refusal ... Sitting the seat out costs that player a hand" (`hand.rs:115-119`).

Seen while modelling and not run, the weightier first:

* A hand folded out before the flop is raked. Its street is complete and not yet the showdown, so
  `advance_street` runs and fills the board (`hand.rs:301-321`), and `settle_hand` finds
  `board[0]` dealt (`settle.rs:140`); the crank always advances before it settles. "No flop, no
  drop: a hand that ended before the flop was dealt is never raked" (`settle.rs:132-133`).
* bob presses start while alice's pause is between his core and his seats: the core goes home and
  the seats stay on the rollup, although "Do not take the table apart unless all of it can leave"
  (`use-table-actions.ts:939`). A rollback is refused while a shuffle is drawn, and a failed
  `secureDeck` throws without one; a player alone at a split table cannot start it again.
* Cashing out and buying back in release the player's cards first; if a hand starts before the
  player is gone, finding 1 takes the stack. Until then any other client's crank secures the seat
  again for the player about to leave, and the chair is stranded for the next one, so "it survives
  us closing the tab" (`use-table-actions.ts:1150`) does not hold either.
* A late answer to a request that was reset is taken for the answer to the next one, so salts can
  be fixed after the draw they are combined with, against "A late callback for a superseded request
  must not overwrite a live deck" (`shuffle.rs:326`). A hand dealt from the answer to the last
  request is not affected (`LatestDrawAfterSalts`).
* A player who leaves after revealing takes its salt off the seat, and the seed cannot be
  recomputed from what is published ("each seat keeps its salt", `shuffle.rs:43-44`). A client that
  lost its salt cannot commit again once another seat has revealed.
* A commit during a hand pairs its number with the hash of the hand before, and the pair matches
  the base layer's copy, so it is recorded, against "the worst they can achieve is writing something
  that was already true" (`history.rs:230-231`); of an abandoned hand a zero hash is recorded, which
  "the history record already skips" (`settle.rs:345-346`).
* The condition for a commit stays true after it succeeded until the client's next poll, up to 30
  seconds later, so every client spends the ten free commits once a second (`crank.ts:463-466`);
  more than `MAX_HAND_ADVANCE` hands later the record is refused for good.
* An authorisation or a sit that ends after the wallet was switched puts the old wallet's key in
  the page, and so does not keep "Switching wallets must not leave the previous wallet's session
  key in place" (`page.tsx:142-144`); the crank's refusal is what gets rid of it (`NoDeadEnd`).
  Without a running table an expired key stays in the page and refuses every sit, although "When
  any of them fails the wallet path below still works" (`use-table-actions.ts:147-148`). A token
  that vanishes under a page reads as a table in transit (`net.ts:93-94`) and the key is never
  handed back.
* A funded key is dropped unswept by a sit with one that is about to expire, by a refusal, by
  logging out, by a token that vanished and by a confirmation not heard in 90 seconds, where
  `docs/STATUS.md:692` says it "is now swept back to the wallet first". Logging out before the
  validator was ever reached clears nothing, though "Disconnecting has to take the credentials
  with it" (`use-tee.ts:64`).
* The books differ from the program by more than "a chip or two per hand" (`rake.ts:104`) with
  three or more nearly tied winners: of 120 split four ways the program takes 3 from one seat and
  the books put it on another. A false breakdown that sums up passes for a true one
  (`api/hands/route.ts:92-93`), and 199 and 200 chips can net the same, so what is reported does
  not pin "the pot exactly" (`report-hand.ts:13`). At the free threshold "the gap is a single chip"
  (`rake.ts:47`) only if the rake there is one: with a big blind of 100 a pot of 101 is raked 2 and
  nets what a pot of 99 does, and a report of 99 is believed. The big blind is the reporter's word
  too, and "only moves the rake-free floor and the cap" (`route.ts:49-51`): a lie about it passes a
  breakdown that is off by up to the rake, so `ContributionsAddUp` allows that of such hands. A
  contribution is filled in once, so the true report that comes later does not mend it.
* The daily cap and the cooldown of the funder are checked before its awaits and recorded after.
* Steps are not all idempotent as `crank.ts:11-12` says: a second `advance_street` in an all-in
  run-out deals the next street. That does no harm.
* The rake's remainder is not always charged to the largest payout (`settle.rs:150` against
  137-139); a seat released between `start_hand` and `deal_hole_cards` is dealt in public
  (`privacy.rs:190-195` against 218-221; `OnlyTheOccupantReads` states the exception);
  `privacy.rs:15-16` says that an empty member list can still be updated, 112-116 that it cannot;
  the last seat able to act is asked to act though it has nothing to call (`betting.rs:309` against
  293-294); a player can win chips it could not have matched when the bigger stacks fold
  (`pots.rs:154` against 3-4); `state.rs:354-363` says that `start_hand` does not gate on
  `cards_secured`, and it does; the lobby's sweep (`lib/sweep.ts`) calls `close_table` and never
  `sweep_rake`, without which a table that took rake cannot be deleted; a stale `hand.deadline`
  lets anybody vacate a newcomer of an old table (`table.rs:608-617`).

## What is abstracted, and what is left

*Errands* leaves out `abandonHand` inside a pause (refused before its hour) and the results of
commits; of its reads those fail that decide what a row does next (the seats of a start and of a
pause, the shuffle, the landing), the rest, which only look again at an account after a failed send,
are taken to succeed; the rebuy with two players resumes the table and the cash-out, which needs
three to, does not, with the same operator. *Crank* leaves out `leavingSeat` (it is in Errands) and
`captureReady`. *Overlay* assumes that the hand's push arrives before the table changes again, and
that no later push of the seat overtakes that of a new street: if one did, the bet would be shown
twice, against `optimistic.ts:33-36`. *Record* leaves out `pending` captures and the pot the page
observed; reports of others come right before the page's own, since reports commute with everything
else, and name every seat. *Sessions* has one chair in view and one errand at a time, a token that
vanishes while no page holds its key, and leaves out what a key is funded with and the degraded link
of a page whose websocket is refused (`use-table-subscriptions.ts:127`), which reads with the same
connection.

Not modelled: cards and hand evaluation (pure, tested exhaustively by the repository) and the
TypeScript ports of the shuffle and the evaluator; the animation of the showdown; layout, sounds
and links; lobby, profiles, rewards, the RPC proxy and the funder, which read, forward or keep a
counter; the generated IDL and the instruction builders; tests and benchmarks.
