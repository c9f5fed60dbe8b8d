------------------------------ MODULE Custody ------------------------------
(***************************************************************************)
(* Where the chips are (instructions/table.rs, player.rs, delegation.rs):  *)
(* one table, its seats, the players' balances and the vault, on two       *)
(* layers. Balances and the vault never leave the base layer; the core     *)
(* (table, hand, deck) and each seat with its hole account move to the     *)
(* rollup and back one transaction at a time, so the table may be half on  *)
(* each. An instruction runs on the layer that holds every account it      *)
(* writes, which is how ownership guards custody in the code.              *)
(*                                                                         *)
(* A hand is what module Purse says of it: chips go to the middle one at a *)
(* time and come out in any way that adds up. A seat and its hole account, *)
(* created and delegated together by the client, are one. Amounts are in   *)
(* chips, the fixed rate of a chip in USDC is 1. A deck that waits idle    *)
(* with a draw on it (module Shuffle) is reset before it is undelegated.   *)
(***************************************************************************)
EXTENDS Ring, FiniteSetsExt

CONSTANTS
    Players,      \* wallets
    Treasury,     \* TREASURY_AUTHORITY
    Registered,   \* wallets that have a Player account at the start
    Creator,      \* of the table
    Nobody,       \* EMPTY_SEAT
    Wallet,       \* USDC each player starts with, in chips
    MinBuyIn, MaxBuyIn,
    MaxHands,     \* bound: hands played while the table exists
    MaxTrips      \* bound: delegations of the core or of a seat

ASSUME CustodyAssumption ==
    /\ Treasury \in Players /\ Creator \in Players /\ Nobody \notin Players
    /\ IsFiniteSet(Players) /\ Registered \subseteq Players
    /\ Wallet \in Nat /\ MaxHands \in Nat /\ MaxTrips \in Nat
    /\ MinBuyIn \in Nat \ {0} /\ MaxBuyIn \in Nat /\ MinBuyIn <= MaxBuyIn

VARIABLES
    \* base layer, never delegated
    usdc,          \* of each wallet
    vault,
    chips,         \* Player accounts: a function on the players that have one
    \* core accounts
    tableExists, seatMap, tableState, handNumber, rakeAccrued, dealtIn,
    emptySince,    \* "no", "recent", "hour": how long nobody has been seated
    stale,         \* the last hand's deadline is an hour past
    \* seat accounts
    seatExists, occupant, stack, committed,
    \* where they are: "base", "rollup" or on the way back, "leaving"
    coreLayer, seatLayer, trips,
    forfeited      \* history: chips start_hand dropped

moneyVars == <<usdc, vault, chips>>
tableVars == <<tableExists, seatMap, tableState, handNumber, rakeAccrued, dealtIn, emptySince,
               stale>>
seatVars == <<seatExists, occupant, stack, committed>>
layerVars == <<coreLayer, seatLayer, trips>>
vars == <<moneyVars, tableVars, seatVars, layerVars, forfeited>>

Waiting == tableState = "Waiting"
CoreOnBase == tableExists /\ coreLayer = "base"
SeatOnBase(i) == seatExists[i] /\ seatLayer[i] = "base"
AllOnRollup == coreLayer = "rollup" /\ \A i \in Seats : seatLayer[i] = "rollup"
Has(p) == p \in DOMAIN chips

-----------------------------------------------------------------------------
(* player.rs *)

InitPlayer(p) ==
    /\ ~Has(p)
    /\ chips' = [q \in DOMAIN chips \cup {p} |-> IF q = p THEN 0 ELSE chips[q]]
    /\ UNCHANGED <<usdc, vault, tableVars, seatVars, layerVars, forfeited>>

BuyChips(p) == \E n \in 1 .. usdc[p] :
    /\ Has(p)
    /\ usdc' = [usdc EXCEPT ![p] = @ - n]
    /\ vault' = vault + n
    /\ chips' = [chips EXCEPT ![p] = @ + n]
    /\ UNCHANGED <<tableVars, seatVars, layerVars, forfeited>>

SellChips(p) == Has(p) /\ \E n \in 1 .. chips[p] :
    /\ vault >= n
    /\ usdc' = [usdc EXCEPT ![p] = @ + n]
    /\ vault' = vault - n
    /\ chips' = [chips EXCEPT ![p] = @ - n]
    /\ UNCHANGED <<tableVars, seatVars, layerVars, forfeited>>

SweepRake ==
    /\ CoreOnBase
    /\ Has(Treasury)
    /\ rakeAccrued > 0
    /\ chips' = [chips EXCEPT ![Treasury] = @ + rakeAccrued]
    /\ rakeAccrued' = 0
    /\ UNCHANGED <<usdc, vault, tableExists, seatMap, tableState, handNumber, dealtIn,
                   emptySince, stale, seatVars, layerVars, forfeited>>

-----------------------------------------------------------------------------
(* table.rs *)

CreateTable ==
    /\ ~tableExists
    /\ tableExists' = TRUE
    /\ seatMap' = [i \in Seats |-> Nobody]
    /\ tableState' = "Waiting" /\ handNumber' = 0 /\ rakeAccrued' = 0 /\ dealtIn' = {}
    /\ emptySince' = "recent" /\ stale' = FALSE
    /\ UNCHANGED <<moneyVars, seatVars, layerVars, forfeited>>

CreateSeat(i) ==
    /\ CoreOnBase
    /\ ~seatExists[i]
    /\ seatExists' = [seatExists EXCEPT ![i] = TRUE]
    /\ occupant' = [occupant EXCEPT ![i] = Nobody]
    /\ stack' = [stack EXCEPT ![i] = 0]
    /\ committed' = [committed EXCEPT ![i] = 0]
    /\ UNCHANGED <<moneyVars, tableVars, layerVars, forfeited>>

SeatOf(p) == {i \in Seats : seatMap[i] = p}

CanPay(p, buyIn) == chips[p] >= buyIn

(* take_seat, by join_table or sit_down. *)
TakeSeat(p, i) == \E buyIn \in MinBuyIn .. MaxBuyIn :
    /\ CoreOnBase /\ SeatOnBase(i) /\ Has(p)
    /\ SeatOf(p) = {}
    /\ seatMap[i] = Nobody
    /\ CanPay(p, buyIn)
    /\ chips' = [chips EXCEPT ![p] = @ - buyIn]
    /\ occupant' = [occupant EXCEPT ![i] = p]
    /\ stack' = [stack EXCEPT ![i] = buyIn]
    /\ committed' = [committed EXCEPT ![i] = 0]
    /\ seatMap' = [seatMap EXCEPT ![i] = p]
    /\ emptySince' = "no"
    /\ UNCHANGED <<usdc, vault, tableExists, tableState, handNumber, rakeAccrued, dealtIn,
                   stale, seatExists, layerVars, forfeited>>

(* Mutant: the table's map of seats is left as it was. *)
KeepTheMap(i) == UNCHANGED <<seatMap, emptySince>>

FreeTheMap(i) ==
    /\ seatMap' = [seatMap EXCEPT ![i] = Nobody]
    /\ emptySince' = IF \A j \in Seats : seatMap'[j] = Nobody THEN "recent" ELSE "no"

(* Mutant: whoever clears the seat is credited. *)
CreatorIsCredited(i) == Creator

Credited(i) == occupant[i]

Empty(i, returned) ==
    /\ Has(occupant[i]) /\ Has(Credited(i))
    /\ chips' = [chips EXCEPT ![Credited(i)] = @ + returned]
    /\ occupant' = [occupant EXCEPT ![i] = Nobody]
    /\ stack' = [stack EXCEPT ![i] = 0]
    /\ committed' = [committed EXCEPT ![i] = 0]
    /\ FreeTheMap(i)
    /\ UNCHANGED <<usdc, vault, tableExists, tableState, handNumber, rakeAccrued, dealtIn,
                   stale, seatExists, layerVars, forfeited>>

(* vacate_own_seat, by leave_table or stand_up: the stack goes home, what  *)
(* is committed is cleared and not returned.                               *)
VacateOwnSeat(i) ==
    /\ CoreOnBase /\ SeatOnBase(i)
    /\ Waiting
    /\ occupant[i] # Nobody
    /\ Empty(i, stack[i])

Abandoned == handNumber > 0 /\ stale

VacateSeat(caller, i) ==
    /\ CoreOnBase /\ SeatOnBase(i)
    /\ Waiting
    /\ seatMap[i] = occupant[i]
    /\ caller = Creator \/ Abandoned
    /\ occupant[i] # Nobody
    /\ Empty(i, stack[i] + committed[i])

(* Mutant: a table is deleted with its rake. *)
EmptiedOfPlayers == \A i \in Seats : seatMap[i] = Nobody

Emptied == (\A i \in Seats : seatMap[i] = Nobody) /\ rakeAccrued = 0

CloseTable(caller) ==
    /\ CoreOnBase
    /\ Emptied
    /\ caller = Creator \/ emptySince = "hour" \/ Abandoned
    /\ \A i \in Seats : seatExists[i] => seatLayer[i] = "base"
    /\ tableExists' = FALSE
    /\ seatExists' = [i \in Seats |-> FALSE]
    /\ occupant' = [i \in Seats |-> Nobody]
    /\ stack' = [i \in Seats |-> 0]
    /\ committed' = [i \in Seats |-> 0]
    /\ rakeAccrued' = 0
    /\ UNCHANGED <<moneyVars, seatMap, tableState, handNumber, dealtIn, emptySince, stale,
                   layerVars, forfeited>>

-----------------------------------------------------------------------------
(* delegation.rs. Scheduling an undelegation freezes the account at once;  *)
(* it is back on the base layer some time later (external).                *)

DelegateCore ==
    /\ CoreOnBase /\ trips < MaxTrips
    /\ coreLayer' = "rollup" /\ trips' = trips + 1
    /\ UNCHANGED <<moneyVars, tableVars, seatVars, seatLayer, forfeited>>

DelegateSeat(i) ==
    /\ SeatOnBase(i) /\ trips < MaxTrips
    /\ seatLayer' = [seatLayer EXCEPT ![i] = "rollup"] /\ trips' = trips + 1
    /\ UNCHANGED <<moneyVars, tableVars, seatVars, coreLayer, forfeited>>

(* Mutant: a table that left the rollup does not read as idle. *)
IdleOnTheRollup == Waiting /\ coreLayer = "rollup"

TableIsIdle == Waiting

UndelegateCore ==
    /\ coreLayer = "rollup"
    /\ TableIsIdle
    /\ coreLayer' = "leaving"
    /\ UNCHANGED <<moneyVars, tableVars, seatVars, seatLayer, trips, forfeited>>

(* Mutant: only the hole account's cards are looked at, and a seat that is *)
(* not dealt in holds none.                                                *)
NoCards(i) == i \notin dealtIn

HandIsClear(i) == TableIsIdle

UndelegateSeat(i) ==
    /\ seatLayer[i] = "rollup"
    /\ HandIsClear(i)
    /\ seatLayer' = [seatLayer EXCEPT ![i] = "leaving"]
    /\ UNCHANGED <<moneyVars, tableVars, seatVars, coreLayer, trips, forfeited>>

LandCore ==
    /\ coreLayer = "leaving"
    /\ coreLayer' = "base"
    /\ UNCHANGED <<moneyVars, tableVars, seatVars, seatLayer, trips, forfeited>>

LandSeat(i) ==
    /\ seatLayer[i] = "leaving"
    /\ seatLayer' = [seatLayer EXCEPT ![i] = "base"]
    /\ UNCHANGED <<moneyVars, tableVars, seatVars, coreLayer, trips, forfeited>>

-----------------------------------------------------------------------------
(* The hand, on the rollup. Every instruction of it writes the core and    *)
(* all the seats.                                                          *)

Held(S) == SumFunctionOnSet(stack, S)
Pot == SumFunctionOnSet(committed, Seats)

(* A seat with chips that is not dealt in, its cards not being secured,    *)
(* loses its stack (README, findings).                                     *)
StartHand == \E players \in SUBSET {i \in Seats : occupant[i] # Nobody /\ stack[i] > 0} :
    /\ AllOnRollup /\ Waiting /\ handNumber < MaxHands
    /\ Cardinality(players) >= 2
    /\ dealtIn' = players
    /\ tableState' = "HandInProgress" /\ handNumber' = handNumber + 1 /\ stale' = FALSE
    /\ stack' = [i \in Seats |-> IF i \in players THEN stack[i] ELSE 0]
    /\ forfeited' = forfeited + Held(Seats \ players)
    /\ UNCHANGED <<moneyVars, tableExists, seatMap, rakeAccrued, emptySince, seatExists,
                   occupant, committed, layerVars>>

Bet(i) ==
    /\ AllOnRollup /\ ~Waiting
    /\ i \in dealtIn /\ stack[i] > 0
    /\ stack' = [stack EXCEPT ![i] = @ - 1]
    /\ committed' = [committed EXCEPT ![i] = @ + 1]
    /\ stale' = FALSE
    /\ UNCHANGED <<moneyVars, tableExists, seatMap, tableState, handNumber, rakeAccrued, dealtIn,
                   emptySince, seatExists, occupant, layerVars, forfeited>>

ClearStakes == committed' = [i \in Seats |-> 0]

HandOver ==
    /\ tableState' = "Waiting" /\ dealtIn' = {}
    /\ ClearStakes
    /\ UNCHANGED <<moneyVars, tableExists, seatMap, handNumber, emptySince, stale, seatExists,
                   occupant, layerVars, forfeited>>

SettleHand == \E rake \in 0 .. Pot : \E payout \in [dealtIn -> 0 .. Pot] :
    /\ AllOnRollup /\ ~Waiting
    /\ SumFunctionOnSet(payout, dealtIn) + rake = Pot
    /\ stack' = [i \in Seats |-> IF i \in dealtIn THEN stack[i] + payout[i] ELSE stack[i]]
    /\ rakeAccrued' = rakeAccrued + rake
    /\ HandOver

AbandonHand ==
    /\ AllOnRollup /\ ~Waiting
    /\ stale
    /\ stack' = [i \in Seats |-> stack[i] + committed[i]]
    /\ UNCHANGED rakeAccrued
    /\ HandOver

(* An hour goes by. *)
Tick ==
    /\ tableExists
    /\ stale' = TRUE
    /\ emptySince' = IF emptySince = "recent" THEN "hour" ELSE emptySince
    /\ UNCHANGED <<moneyVars, tableExists, seatMap, tableState, handNumber, rakeAccrued, dealtIn,
                   seatVars, layerVars, forfeited>>

-----------------------------------------------------------------------------
Init ==
    /\ usdc = [p \in Players |-> Wallet]
    /\ vault = 0 /\ chips = [p \in Registered |-> 0]
    /\ tableExists = FALSE /\ seatMap = [i \in Seats |-> Nobody]
    /\ tableState = "Waiting" /\ handNumber = 0 /\ rakeAccrued = 0 /\ dealtIn = {}
    /\ emptySince = "no" /\ stale = FALSE
    /\ seatExists = [i \in Seats |-> FALSE] /\ occupant = [i \in Seats |-> Nobody]
    /\ stack = [i \in Seats |-> 0] /\ committed = [i \in Seats |-> 0]
    /\ coreLayer = "base" /\ seatLayer = [i \in Seats |-> "base"] /\ trips = 0
    /\ forfeited = 0

Next ==
    \/ SweepRake \/ CreateTable \/ DelegateCore \/ UndelegateCore \/ LandCore
    \/ StartHand \/ SettleHand \/ AbandonHand \/ Tick
    \/ \E p \in Players : InitPlayer(p) \/ BuyChips(p) \/ SellChips(p) \/ CloseTable(p)
    \/ \E i \in Seats :
           \/ CreateSeat(i) \/ VacateOwnSeat(i) \/ DelegateSeat(i) \/ UndelegateSeat(i)
           \/ LandSeat(i) \/ Bet(i)
           \/ \E p \in Players : TakeSeat(p, i) \/ VacateSeat(p, i)

(* Hands end (module Hand), scheduled undelegations land, and a player who *)
(* wants out keeps asking: use-table-actions.ts pauses the table and then  *)
(* leaves. Nothing is assumed of the creator, of the treasury or of time.  *)
Spec ==
    /\ Init /\ [][Next]_vars
    /\ WF_vars(SettleHand) /\ WF_vars(UndelegateCore) /\ WF_vars(LandCore)
    /\ \A i \in Seats : WF_vars(UndelegateSeat(i)) /\ WF_vars(LandSeat(i))
                        /\ WF_vars(VacateOwnSeat(i))

-----------------------------------------------------------------------------
(* Properties.                                                             *)

Layers == {"base", "rollup", "leaving"}

(* Types of the accounts' fields. *)
TypeOK ==
    /\ usdc \in [Players -> Nat] /\ vault \in Nat
    /\ DOMAIN chips \subseteq Players /\ \A p \in DOMAIN chips : chips[p] \in Nat
    /\ tableExists \in BOOLEAN /\ seatMap \in [Seats -> Players \cup {Nobody}]
    /\ tableState \in {"Waiting", "HandInProgress"} /\ handNumber \in 0 .. MaxHands
    /\ rakeAccrued \in Nat /\ dealtIn \subseteq Seats
    /\ emptySince \in {"no", "recent", "hour"} /\ stale \in BOOLEAN
    /\ seatExists \in [Seats -> BOOLEAN] /\ occupant \in [Seats -> Players \cup {Nobody}]
    /\ stack \in [Seats -> Nat] /\ committed \in [Seats -> Nat]
    /\ coreLayer \in Layers /\ seatLayer \in [Seats -> Layers] /\ trips \in 0 .. MaxTrips
    /\ forfeited \in Nat

(* The table's map and the seats name the same players, though map and     *)
(* seats travel between the layers apart and take_seat and close_table     *)
(* look only at the map: nobody sits down on another player's chips, and   *)
(* no table is deleted with chips on a seat.                               *)
SeatMapAgrees ==
    tableExists => \A i \in Seats :
        /\ seatMap[i] = IF seatExists[i] THEN occupant[i] ELSE Nobody
        /\ occupant[i] = Nobody => stack[i] = 0 /\ committed[i] = 0

(* No player holds two seats of a table. *)
OneSeatEach ==
    \A i, j \in Seats : occupant[i] = occupant[j] /\ occupant[i] # Nobody => i = j

(* During a hand the core and every seat are on the rollup: "a table split *)
(* across two layers, unplayable and unrecoverable" (delegation.rs:236)    *)
(* does not happen.                                                        *)
NeverSplitMidHand == ~Waiting => tableExists /\ AllOnRollup

(* Between hands nothing is in the middle, which is why leave_table may    *)
(* clear committed_total without returning it.                             *)
NothingLeftInTheMiddle == Waiting => \A i \in Seats : committed[i] = 0

(* "The vault's USDC balance always covers every outstanding chip" and no  *)
(* more (player.rs:12-14), deleted tables and half-moved ones included;    *)
(* so sell_chips is never refused for the vault's sake.                    *)
Solvent ==
    vault = SumFunction(chips) + Held(Seats) + Pot + rakeAccrued + forfeited

(* A player's chips, in its balance and on its seats, and the house's.     *)
Wealth(p) ==
    (IF Has(p) THEN chips[p] ELSE 0)
    + SumFunctionOnSet([i \in Seats |-> stack[i] + committed[i]],
                       {i \in Seats : occupant[i] = p})
    + (IF p = Treasury THEN rakeAccrued ELSE 0)

L == INSTANCE Ledger WITH
        wealth <- [p \in Players |-> Wealth(p)],
        playing <- {occupant[i] : i \in dealtIn}

(* Only buying, selling and playing a hand change what anybody owns.       *)
ImplementsLedger == L!LedgerSpec

(* A player at a table, half of which may be on either layer, can always   *)
(* get its chips home without the creator: undelegation needs nothing that *)
(* may already be gone (table_is_idle, delegation.rs:117-124).             *)
EveryoneGetsHome == \A i \in Seats : occupant[i] # Nobody ~> occupant[i] = Nobody
=============================================================================
