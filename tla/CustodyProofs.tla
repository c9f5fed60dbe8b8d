--------------------------- MODULE CustodyProofs ---------------------------
(***************************************************************************)
(* Proofs about Custody, for every set of players, number of seats and     *)
(* buy-ins: the accounts' types, that the table, its seats and the layers  *)
(* never disagree, that the vault covers every chip, and that Custody      *)
(* implements Ledger. Then about Errands, whose clients only ever make     *)
(* Custody's steps, and whose buttons do what they say.                    *)
(***************************************************************************)
EXTENDS Errands, Sums

(* Accounts that do not exist are empty and on the base layer, and only    *)
(* occupied seats are dealt in, during a hand. SeatMapAgrees speaks of     *)
(* existing tables only and needs this when one is created or closed. Only *)
(* who is dealt in has chips in the middle.                                *)
Lifecycle ==
    /\ ~tableExists => coreLayer = "base" /\ rakeAccrued = 0 /\ \A i \in Seats : ~seatExists[i]
    /\ \A i \in Seats : ~seatExists[i] =>
           /\ occupant[i] = Nobody /\ stack[i] = 0 /\ committed[i] = 0
           /\ seatLayer[i] = "base"
    /\ \A i \in dealtIn : occupant[i] # Nobody
    /\ Waiting <=> dealtIn = {}
    /\ \A i \in Seats : committed[i] # 0 => i \in dealtIn

IInv ==
    /\ TypeOK
    /\ Lifecycle
    /\ SeatMapAgrees
    /\ OneSeatEach
    /\ NeverSplitMidHand
    /\ NothingLeftInTheMiddle

USE SeatsAssumption, CustodyAssumption

LEMMA SeatsFinite == IsFiniteSet(Seats) /\ \A S \in SUBSET Seats : IsFiniteSet(S)
<1>1. 0 \in Int /\ MaxSeats - 1 \in Int
  OBVIOUS
<1>2. IsFiniteSet(Seats)
  BY <1>1, FS_Interval DEF Seats
<1> QED BY <1>2, FS_Subset

LEMMA InitInv == Init => IInv
<1> SUFFICES ASSUME Init PROVE IInv
  OBVIOUS
<1>1. TypeOK
  <2>1. /\ DOMAIN chips \subseteq Players /\ \A p \in DOMAIN chips : chips[p] \in Nat
        /\ usdc \in [Players -> Nat] /\ vault \in Nat
    BY DEF Init
  <2>2. /\ tableExists \in BOOLEAN /\ stale \in BOOLEAN /\ seatExists \in [Seats -> BOOLEAN]
    BY DEF Init
  <2>3. /\ seatMap \in [Seats -> Players \cup {Nobody}] /\ occupant \in [Seats -> Players \cup {Nobody}]
        /\ stack \in [Seats -> Nat] /\ committed \in [Seats -> Nat]
    BY DEF Init
  <2>4. /\ tableState \in {"Waiting", "HandInProgress"} /\ handNumber \in 0 .. MaxHands
        /\ rakeAccrued \in Nat /\ dealtIn \subseteq Seats
        /\ emptySince \in {"no", "recent", "hour"}
    BY DEF Init
  <2>5. coreLayer \in Layers /\ seatLayer \in [Seats -> Layers] /\ trips \in 0 .. MaxTrips
    BY DEF Init, Layers
  <2>6. forfeited \in Nat
    BY DEF Init
  <2> QED
    BY <2>1, <2>2, <2>3, <2>4, <2>5, <2>6 DEF TypeOK
<1>2. Waiting /\ dealtIn = {}
  BY DEF Init, Waiting
<1> QED
  BY <1>1, <1>2 DEF Init, IInv, Lifecycle, SeatMapAgrees, OneSeatEach, NeverSplitMidHand,
     NothingLeftInTheMiddle

(* The steps that move USDC and balances, and only those. *)
LEMMA MoneySteps ==
    IInv /\ (\E p \in Players : InitPlayer(p) \/ BuyChips(p) \/ SellChips(p)) => IInv'
<1> SUFFICES ASSUME IInv, NEW p \in Players, InitPlayer(p) \/ BuyChips(p) \/ SellChips(p)
             PROVE  IInv'
  OBVIOUS
<1>1. TypeOK'
  <2>1. CASE InitPlayer(p)
    BY <2>1 DEF IInv, TypeOK, InitPlayer, Has, tableVars, seatVars, layerVars
  <2>2. CASE BuyChips(p)
    BY <2>2 DEF IInv, TypeOK, BuyChips, Has, tableVars, seatVars, layerVars
  <2>3. CASE SellChips(p)
    BY <2>3 DEF IInv, TypeOK, SellChips, Has, tableVars, seatVars, layerVars
  <2> QED BY <2>1, <2>2, <2>3
<1>2. UNCHANGED <<tableVars, seatVars, layerVars>>
  BY DEF InitPlayer, BuyChips, SellChips
<1> QED
  BY <1>1, <1>2 DEF IInv, Lifecycle, SeatMapAgrees, OneSeatEach, NeverSplitMidHand,
     NothingLeftInTheMiddle, AllOnRollup, Waiting, tableVars, seatVars, layerVars

LEMMA LayerSteps ==
    IInv /\ (\/ DelegateCore \/ UndelegateCore \/ LandCore
             \/ \E i \in Seats : DelegateSeat(i) \/ UndelegateSeat(i) \/ LandSeat(i))
    => IInv'
<1> SUFFICES ASSUME IInv,
                    \/ DelegateCore \/ UndelegateCore \/ LandCore
                    \/ \E i \in Seats : DelegateSeat(i) \/ UndelegateSeat(i) \/ LandSeat(i)
             PROVE  IInv'
  OBVIOUS
<1>1. UNCHANGED <<moneyVars, tableVars, seatVars>>
  BY DEF DelegateCore, UndelegateCore, LandCore, DelegateSeat, UndelegateSeat, LandSeat
<1>2. TypeOK'
  BY <1>1 DEF IInv, TypeOK, Layers, DelegateCore, UndelegateCore, LandCore, DelegateSeat,
     UndelegateSeat, LandSeat, moneyVars, tableVars, seatVars
<1>3. Lifecycle'
  BY <1>1 DEF IInv, TypeOK, Lifecycle, CoreOnBase, SeatOnBase, DelegateCore, UndelegateCore,
     LandCore, DelegateSeat, UndelegateSeat, LandSeat, Waiting, tableVars, seatVars
<1>4. NeverSplitMidHand'
  BY <1>1 DEF IInv, TypeOK, Layers, NeverSplitMidHand, AllOnRollup, CoreOnBase, SeatOnBase,
     DelegateCore, UndelegateCore, LandCore, DelegateSeat, UndelegateSeat, LandSeat,
     TableIsIdle, HandIsClear, Waiting, tableVars
<1> QED
  BY <1>1, <1>2, <1>3, <1>4 DEF IInv, SeatMapAgrees, OneSeatEach, NothingLeftInTheMiddle,
     Waiting, tableVars, seatVars

(* Creating accounts and sweeping the rake. *)
LEMMA AccountSteps ==
    IInv /\ (SweepRake \/ CreateTable \/ \E i \in Seats : CreateSeat(i)) => IInv'
<1> SUFFICES ASSUME IInv, SweepRake \/ CreateTable \/ \E i \in Seats : CreateSeat(i)
             PROVE  IInv'
  OBVIOUS
<1>1. CASE SweepRake
  <2>1. TypeOK'
    BY <1>1 DEF IInv, TypeOK, SweepRake, Has, CoreOnBase, seatVars, layerVars
  <2> QED
    BY <1>1, <2>1 DEF SweepRake, IInv, Lifecycle, SeatMapAgrees, OneSeatEach, NeverSplitMidHand,
       NothingLeftInTheMiddle, AllOnRollup, Waiting, seatVars, layerVars
<1>2. CASE CreateTable
  <2>1. TypeOK'
    <3>1. /\ UNCHANGED <<usdc, vault, chips, seatExists, occupant, stack, committed, coreLayer,
                         seatLayer, trips, forfeited>>
          /\ tableExists' = TRUE /\ seatMap' = [i \in Seats |-> Nobody]
          /\ tableState' = "Waiting" /\ handNumber' = 0 /\ rakeAccrued' = 0 /\ dealtIn' = {}
          /\ emptySince' = "recent" /\ stale' = FALSE
      BY <1>2 DEF CreateTable, moneyVars, seatVars, layerVars
    <3>2. seatMap' \in [Seats -> Players \cup {Nobody}] /\ handNumber' \in 0 .. MaxHands
      BY <3>1
    <3> QED
      BY <3>1, <3>2 DEF IInv, TypeOK
  <2>2. Lifecycle' /\ NeverSplitMidHand'
    BY <1>2 DEF IInv, Lifecycle, NeverSplitMidHand, CreateTable, Waiting, seatVars, layerVars
  <2>3. SeatMapAgrees' /\ OneSeatEach'
    BY <1>2 DEF IInv, TypeOK, Lifecycle, SeatMapAgrees, OneSeatEach, CreateTable, seatVars
  <2>4. NothingLeftInTheMiddle'
    BY <1>2 DEF IInv, Lifecycle, NothingLeftInTheMiddle, CreateTable, Waiting, seatVars
  <2> QED
    BY <2>1, <2>2, <2>3, <2>4 DEF IInv
<1>3. CASE \E i \in Seats : CreateSeat(i)
  <2>1. PICK i \in Seats : CreateSeat(i)
    BY <1>3
  <2>2. TypeOK'
    BY <2>1 DEF IInv, TypeOK, CreateSeat, moneyVars, tableVars, layerVars
  <2>3. occupant' = occupant /\ stack' = stack /\ committed' = committed
    BY <2>1 DEF IInv, TypeOK, Lifecycle, CreateSeat
  <2>4. Lifecycle' /\ NeverSplitMidHand'
    BY <2>1, <2>3 DEF IInv, TypeOK, Lifecycle, NeverSplitMidHand, CreateSeat, CoreOnBase,
       AllOnRollup, Waiting, tableVars, layerVars
  <2>5. SeatMapAgrees'
    BY <2>1, <2>3 DEF IInv, TypeOK, Lifecycle, SeatMapAgrees, CreateSeat, tableVars
  <2>6. OneSeatEach' /\ NothingLeftInTheMiddle'
    BY <2>1, <2>3 DEF IInv, OneSeatEach, NothingLeftInTheMiddle, CreateSeat, Waiting, tableVars
  <2> QED
    BY <2>2, <2>4, <2>5, <2>6 DEF IInv
<1> QED
  BY <1>1, <1>2, <1>3

(* Sitting down. The map shows the seat free and the player nowhere, and   *)
(* the map is right.                                                       *)
LEMMA TakeSeatStep ==
    ASSUME IInv, NEW p \in Players, NEW i \in Seats, TakeSeat(p, i) PROVE IInv'
<1>1. PICK buyIn \in MinBuyIn .. MaxBuyIn :
        /\ CanPay(p, buyIn)
        /\ chips' = [chips EXCEPT ![p] = @ - buyIn]
        /\ stack' = [stack EXCEPT ![i] = buyIn]
  BY DEF TakeSeat
<1>2. /\ CoreOnBase /\ SeatOnBase(i) /\ Has(p) /\ SeatOf(p) = {} /\ seatMap[i] = Nobody
      /\ occupant' = [occupant EXCEPT ![i] = p]
      /\ committed' = [committed EXCEPT ![i] = 0]
      /\ seatMap' = [seatMap EXCEPT ![i] = p]
      /\ emptySince' = "no"
      /\ UNCHANGED <<usdc, vault, tableExists, tableState, handNumber, rakeAccrued, dealtIn,
                     stale, seatExists, layerVars, forfeited>>
  BY DEF TakeSeat
<1>3. buyIn \in Nat
  OBVIOUS
<1>4. TypeOK'
  <2>1. DOMAIN chips' \subseteq Players /\ \A q \in DOMAIN chips' : chips'[q] \in Nat
    BY <1>1, <1>2, <1>3 DEF IInv, TypeOK, CanPay, Has
  <2>2. stack' \in [Seats -> Nat]
    BY <1>1, <1>3 DEF IInv, TypeOK
  <2>3. /\ occupant' \in [Seats -> Players \cup {Nobody}]
        /\ seatMap' \in [Seats -> Players \cup {Nobody}]
        /\ committed' \in [Seats -> Nat]
    BY <1>2 DEF IInv, TypeOK
  <2> QED
    BY <1>2, <2>1, <2>2, <2>3 DEF IInv, TypeOK, layerVars
<1>5. occupant[i] = Nobody /\ \A j \in Seats : occupant[j] # p
  BY <1>2 DEF IInv, TypeOK, Lifecycle, SeatMapAgrees, SeatOf, CoreOnBase, SeatOnBase
<1>6. Waiting
  BY <1>2 DEF IInv, NeverSplitMidHand, AllOnRollup, CoreOnBase
<1>7. Lifecycle'
  BY <1>1, <1>2, <1>5, <1>6 DEF IInv, TypeOK, Lifecycle, CoreOnBase, SeatOnBase, Waiting, layerVars
<1>8. SeatMapAgrees'
  BY <1>1, <1>2 DEF IInv, TypeOK, SeatMapAgrees, SeatOnBase, CoreOnBase
<1>9. OneSeatEach'
  BY <1>2, <1>5 DEF IInv, TypeOK, OneSeatEach
<1>10. NeverSplitMidHand' /\ NothingLeftInTheMiddle'
  BY <1>2, <1>6 DEF IInv, TypeOK, NeverSplitMidHand, NothingLeftInTheMiddle, Waiting
<1> QED
  BY <1>4, <1>7, <1>8, <1>9, <1>10 DEF IInv

(* Leaving, or being made to: the seat and the map are cleared together,   *)
(* between hands.                                                          *)
LEMMA EmptyStep ==
    ASSUME IInv, NEW i \in Seats, NEW returned \in Nat,
           CoreOnBase, SeatOnBase(i), Waiting, Empty(i, returned)
    PROVE  IInv'
<1>1. /\ Has(Credited(i))
      /\ chips' = [chips EXCEPT ![Credited(i)] = @ + returned]
      /\ occupant' = [occupant EXCEPT ![i] = Nobody]
      /\ stack' = [stack EXCEPT ![i] = 0]
      /\ committed' = [committed EXCEPT ![i] = 0]
      /\ seatMap' = [seatMap EXCEPT ![i] = Nobody]
      /\ emptySince' \in {"no", "recent"}
      /\ UNCHANGED <<usdc, vault, tableExists, tableState, handNumber, rakeAccrued, dealtIn,
                     stale, seatExists, layerVars, forfeited>>
  BY DEF Empty, FreeTheMap
<1>2. TypeOK'
  <2>1. DOMAIN chips' \subseteq Players /\ \A q \in DOMAIN chips' : chips'[q] \in Nat
    BY <1>1 DEF IInv, TypeOK, Has
  <2>2. /\ occupant' \in [Seats -> Players \cup {Nobody}]
        /\ seatMap' \in [Seats -> Players \cup {Nobody}]
        /\ stack' \in [Seats -> Nat] /\ committed' \in [Seats -> Nat]
    BY <1>1 DEF IInv, TypeOK
  <2> QED
    BY <1>1, <2>1, <2>2 DEF IInv, TypeOK, layerVars
<1>3. Lifecycle'
  BY <1>1 DEF IInv, TypeOK, Lifecycle, CoreOnBase, SeatOnBase, Waiting, layerVars
<1>4. SeatMapAgrees'
  BY <1>1 DEF IInv, TypeOK, SeatMapAgrees, SeatOnBase, CoreOnBase
<1>5. OneSeatEach'
  BY <1>1 DEF IInv, TypeOK, OneSeatEach
<1>6. NeverSplitMidHand' /\ NothingLeftInTheMiddle'
  BY <1>1 DEF IInv, TypeOK, NeverSplitMidHand, NothingLeftInTheMiddle, Waiting
<1> QED
  BY <1>2, <1>3, <1>4, <1>5, <1>6 DEF IInv

LEMMA SeatSteps ==
    ASSUME IInv, NEW p \in Players, NEW i \in Seats,
           TakeSeat(p, i) \/ VacateOwnSeat(i) \/ VacateSeat(p, i)
    PROVE  IInv'
<1>1. stack[i] \in Nat /\ stack[i] + committed[i] \in Nat
  BY DEF IInv, TypeOK
<1>2. CASE TakeSeat(p, i)
  BY <1>2, TakeSeatStep
<1>3. CASE VacateOwnSeat(i)
  BY <1>1, <1>3, EmptyStep DEF VacateOwnSeat
<1>4. CASE VacateSeat(p, i)
  BY <1>1, <1>4, EmptyStep DEF VacateSeat
<1> QED
  BY <1>2, <1>3, <1>4

LEMMA CloseTableStep ==
    ASSUME IInv, NEW p \in Players, CloseTable(p) PROVE IInv'
<1>1. /\ CoreOnBase /\ \A i \in Seats : seatExists[i] => seatLayer[i] = "base"
      /\ tableExists' = FALSE /\ rakeAccrued' = 0
      /\ seatExists' = [i \in Seats |-> FALSE] /\ occupant' = [i \in Seats |-> Nobody]
      /\ stack' = [i \in Seats |-> 0] /\ committed' = [i \in Seats |-> 0]
      /\ UNCHANGED <<moneyVars, seatMap, tableState, handNumber, dealtIn, emptySince, stale,
                     layerVars, forfeited>>
  BY DEF CloseTable
<1>2. Waiting
  BY <1>1 DEF IInv, NeverSplitMidHand, AllOnRollup, CoreOnBase
<1>3. TypeOK'
  BY <1>1 DEF IInv, TypeOK, moneyVars, layerVars
<1>4. Lifecycle'
  BY <1>1, <1>2 DEF IInv, TypeOK, Lifecycle, CoreOnBase, Waiting, layerVars
<1> QED
  BY <1>1, <1>2, <1>3, <1>4 DEF IInv, SeatMapAgrees, OneSeatEach, NeverSplitMidHand,
     NothingLeftInTheMiddle, Waiting

(* The hand touches neither map nor occupants and needs every account on   *)
(* the rollup, where an undelegation is refused until the hand is over.    *)
LEMMA HandSteps ==
    IInv /\ (StartHand \/ SettleHand \/ AbandonHand \/ \E i \in Seats : Bet(i)) => IInv'
<1> SUFFICES ASSUME IInv, StartHand \/ SettleHand \/ AbandonHand \/ \E i \in Seats : Bet(i)
             PROVE  IInv'
  OBVIOUS
<1>1. /\ AllOnRollup
      /\ UNCHANGED <<moneyVars, tableExists, seatMap, emptySince, seatExists, occupant, layerVars>>
  BY DEF StartHand, SettleHand, AbandonHand, Bet, HandOver
<1>2. OneSeatEach'
  BY <1>1 DEF IInv, OneSeatEach
<1>3. tableExists
  BY <1>1 DEF IInv, Lifecycle, AllOnRollup
<1>4. AllOnRollup'
  BY <1>1 DEF AllOnRollup, layerVars
<1>5. \A i \in Seats : seatExists[i]
  BY <1>1 DEF IInv, TypeOK, Lifecycle, AllOnRollup
<1>6. CASE StartHand
  <2>1. PICK players \in SUBSET {i \in Seats : occupant[i] # Nobody /\ stack[i] > 0} :
          /\ dealtIn' = players
          /\ stack' = [i \in Seats |-> IF i \in players THEN stack[i] ELSE 0]
          /\ forfeited' = forfeited + Held(Seats \ players)
          /\ Cardinality(players) >= 2
    BY <1>6 DEF StartHand
  <2>2. /\ handNumber < MaxHands /\ handNumber' = handNumber + 1
        /\ tableState' = "HandInProgress" /\ stale' = FALSE
        /\ UNCHANGED <<rakeAccrued, committed>>
    BY <1>6 DEF StartHand
  <2>3. TypeOK'
    <3>1. stack' \in [Seats -> Nat] /\ dealtIn' \subseteq Seats
      BY <2>1 DEF IInv, TypeOK
    <3>2. handNumber' \in 0 .. MaxHands
      BY <2>2 DEF IInv, TypeOK
    <3>3. forfeited' \in Nat
      <4>1. Held(Seats \ players) \in Nat
        BY <2>1, SeatsFinite, SumNat DEF IInv, TypeOK, Held
      <4> QED BY <2>1, <4>1 DEF IInv, TypeOK
    <3> QED
      BY <1>1, <2>2, <3>1, <3>2, <3>3 DEF IInv, TypeOK, moneyVars, layerVars
  <2>4. Lifecycle'
    <3>1. dealtIn' # {}
      <4>1. players = {} => Cardinality(players) = 0
        BY FS_EmptySet
      <4>2. Cardinality(players) >= 2 /\ dealtIn' = players
        BY <2>1
      <4> QED BY <4>1, <4>2
    <3>2. \A i \in Seats : committed'[i] = 0
      BY <1>6, <2>2 DEF StartHand, IInv, NothingLeftInTheMiddle
    <3> QED BY <1>1, <1>3, <1>5, <2>1, <2>2, <3>1, <3>2 DEF Lifecycle, Waiting
  <2>5. SeatMapAgrees'
    BY <1>1, <2>1, <2>2 DEF IInv, TypeOK, SeatMapAgrees
  <2> QED
    BY <1>1, <1>2, <1>3, <1>4, <2>2, <2>3, <2>4, <2>5 DEF IInv, NeverSplitMidHand,
       NothingLeftInTheMiddle, Waiting
<1>7. CASE \E i \in Seats : Bet(i)
  <2>1. PICK i \in Seats : Bet(i)
    BY <1>7
  <2>2. TypeOK'
    <3>1. /\ stack' = [stack EXCEPT ![i] = @ - 1] /\ stack[i] > 0
          /\ committed' = [committed EXCEPT ![i] = @ + 1]
          /\ stale' = FALSE
          /\ UNCHANGED <<tableState, handNumber, rakeAccrued, dealtIn, forfeited>>
      BY <2>1 DEF Bet
    <3>2. stack' \in [Seats -> Nat] /\ committed' \in [Seats -> Nat]
      BY <3>1 DEF IInv, TypeOK
    <3> QED
      BY <1>1, <3>1, <3>2 DEF IInv, TypeOK, moneyVars, layerVars
  <2>3. Lifecycle'
    <3>1. dealtIn' = dealtIn /\ tableState' = tableState /\ i \in dealtIn
      BY <2>1 DEF Bet
    <3>2. \A j \in Seats : committed'[j] # 0 => j \in dealtIn
      BY <2>1, <3>1 DEF IInv, TypeOK, Lifecycle, Bet
    <3> QED
      BY <1>1, <1>3, <1>5, <3>1, <3>2 DEF IInv, Lifecycle, Waiting
  <2>4. occupant[i] # Nobody
    BY <2>1 DEF IInv, Lifecycle, Bet
  <2>5. SeatMapAgrees'
    BY <1>1, <2>1, <2>4 DEF IInv, TypeOK, SeatMapAgrees, Bet
  <2> QED
    BY <1>1, <1>2, <1>3, <1>4, <2>1, <2>2, <2>3, <2>5 DEF IInv, NeverSplitMidHand,
       NothingLeftInTheMiddle, Bet, Waiting
<1>8. ASSUME HandOver, stack' \in [Seats -> Nat], rakeAccrued' \in Nat,
             \A i \in Seats : occupant[i] = Nobody => stack'[i] = 0
      PROVE  IInv'
  <2>1. /\ tableState' = "Waiting" /\ dealtIn' = {}
        /\ committed' = [i \in Seats |-> 0]
        /\ UNCHANGED <<handNumber, stale, forfeited>>
    BY <1>8 DEF HandOver, ClearStakes
  <2>2. TypeOK'
    BY <1>1, <1>8, <2>1 DEF IInv, TypeOK, moneyVars, layerVars
  <2>3. Lifecycle'
    BY <1>1, <1>3, <1>5, <2>1 DEF Lifecycle, Waiting
  <2>4. SeatMapAgrees'
    BY <1>1, <1>8, <2>1 DEF IInv, TypeOK, SeatMapAgrees
  <2> QED
    BY <1>2, <2>1, <2>2, <2>3, <2>4 DEF IInv, NeverSplitMidHand, NothingLeftInTheMiddle, Waiting
<1>9. \A i \in Seats : occupant[i] = Nobody => stack[i] = 0 /\ committed[i] = 0
  BY <1>3 DEF IInv, SeatMapAgrees
<1>10. CASE SettleHand
  <2>1. PICK rake \in 0 .. Pot, payout \in [dealtIn -> 0 .. Pot] :
          /\ stack' = [i \in Seats |-> IF i \in dealtIn THEN stack[i] + payout[i] ELSE stack[i]]
          /\ rakeAccrued' = rakeAccrued + rake
    BY <1>10 DEF SettleHand
  <2>2. rake \in Nat /\ \A i \in dealtIn : payout[i] \in Nat
    OBVIOUS
  <2>3. stack' \in [Seats -> Nat] /\ rakeAccrued' \in Nat
    BY <2>1, <2>2 DEF IInv, TypeOK
  <2>4. \A i \in Seats : occupant[i] = Nobody => stack'[i] = 0
    BY <1>9, <2>1 DEF IInv, Lifecycle
  <2>5. HandOver
    BY <1>10 DEF SettleHand
  <2> QED
    BY <1>8, <2>3, <2>4, <2>5
<1>11. CASE AbandonHand
  <2>1. /\ HandOver
        /\ stack' = [i \in Seats |-> stack[i] + committed[i]] /\ rakeAccrued' = rakeAccrued
    BY <1>11 DEF AbandonHand
  <2>2. stack' \in [Seats -> Nat] /\ rakeAccrued' \in Nat
    BY <2>1 DEF IInv, TypeOK
  <2>3. \A i \in Seats : occupant[i] = Nobody => stack'[i] = 0
    BY <1>9, <2>1
  <2> QED
    BY <1>8, <2>1, <2>2, <2>3
<1> QED
  BY <1>6, <1>7, <1>10, <1>11

LEMMA IdleSteps == IInv /\ (Tick \/ UNCHANGED vars) => IInv'
<1> SUFFICES ASSUME IInv, Tick \/ UNCHANGED vars PROVE IInv'
  OBVIOUS
<1>1. /\ UNCHANGED <<moneyVars, tableExists, seatMap, tableState, handNumber, rakeAccrued,
                     dealtIn, seatVars, layerVars, forfeited>>
      /\ emptySince' \in {"no", "recent", "hour"} /\ stale' \in BOOLEAN
  BY DEF IInv, TypeOK, Tick, vars, tableVars
<1>2. TypeOK'
  BY <1>1 DEF IInv, TypeOK, moneyVars, seatVars, layerVars
<1> QED
  BY <1>1, <1>2 DEF IInv, Lifecycle, SeatMapAgrees, OneSeatEach, NeverSplitMidHand,
     NothingLeftInTheMiddle, AllOnRollup, Waiting, seatVars, layerVars

(* Every step keeps the accounts consistent. *)
LEMMA StepInv == IInv /\ [Next]_vars => IInv'
<1> SUFFICES ASSUME IInv, [Next]_vars PROVE IInv'
  OBVIOUS
<1>1. CASE SweepRake \/ CreateTable \/ \E i \in Seats : CreateSeat(i)
  BY <1>1, AccountSteps
<1>2. CASE \/ DelegateCore \/ UndelegateCore \/ LandCore
           \/ \E i \in Seats : DelegateSeat(i) \/ UndelegateSeat(i) \/ LandSeat(i)
  BY <1>2, LayerSteps
<1>3. CASE StartHand \/ SettleHand \/ AbandonHand \/ \E i \in Seats : Bet(i)
  BY <1>3, HandSteps
<1>4. CASE \E p \in Players : InitPlayer(p) \/ BuyChips(p) \/ SellChips(p)
  BY <1>4, MoneySteps
<1>5. CASE \E p \in Players : CloseTable(p)
  BY <1>5, CloseTableStep
<1>6. CASE \E i \in Seats : VacateOwnSeat(i) \/ \E p \in Players : TakeSeat(p, i) \/ VacateSeat(p, i)
  <2>1. Treasury \in Players
    OBVIOUS
  <2> QED
    BY <1>6, <2>1, SeatSteps
<1>7. CASE Tick \/ UNCHANGED vars
  BY <1>7, IdleSteps
<1> QED
  BY <1>1, <1>2, <1>3, <1>4, <1>5, <1>6, <1>7 DEF Next

THEOREM Invariant == Spec => []IInv
BY InitInv, StepInv, PTL DEF Spec

(* The accounts' fields keep their types: no balance, stack or stake is    *)
(* ever taken below zero.                                                  *)
THEOREM TypeCorrect == Spec => []TypeOK
<1>1. IInv => TypeOK
  BY DEF IInv
<1> QED
  BY <1>1, Invariant, PTL

(* The table's map and the seats name the same players, whatever the order *)
(* of joining, leaving, delegating and closing.                            *)
THEOREM SeatMapCorrect == Spec => []SeatMapAgrees
<1>1. IInv => SeatMapAgrees
  BY DEF IInv
<1> QED
  BY <1>1, Invariant, PTL

(* No player holds two seats. *)
THEOREM OneSeatCorrect == Spec => []OneSeatEach
<1>1. IInv => OneSeatEach
  BY DEF IInv
<1> QED
  BY <1>1, Invariant, PTL

(* No hand is in progress on a table that is split across the layers. *)
THEOREM NeverSplitCorrect == Spec => []NeverSplitMidHand
<1>1. IInv => NeverSplitMidHand
  BY DEF IInv
<1> QED
  BY <1>1, Invariant, PTL

(* Between hands nothing is in the middle. *)
THEOREM NothingLeftCorrect == Spec => []NothingLeftInTheMiddle
<1>1. IInv => NothingLeftInTheMiddle
  BY DEF IInv
<1> QED
  BY <1>1, Invariant, PTL

-----------------------------------------------------------------------------
(* The vault. Every step is one entry in the books: each part of the sum   *)
(* that a step touches changes by what another part, or the vault, does.   *)

LEMMA Totals ==
    ASSUME IInv
    PROVE  /\ IsFiniteSet(DOMAIN chips)
           /\ SumFunction(chips) \in Nat /\ Held(Seats) \in Nat /\ Pot \in Nat
<1>1. IsFiniteSet(DOMAIN chips) /\ \A p \in DOMAIN chips : chips[p] \in Nat
  BY FS_Subset DEF IInv, TypeOK
<1>2. SumFunction(chips) \in Nat
  BY <1>1, SumNat DEF SumFunction
<1>3. \A i \in Seats : stack[i] \in Nat /\ committed[i] \in Nat
  BY DEF IInv, TypeOK
<1>4. Held(Seats) \in Nat /\ Pot \in Nat
  BY <1>3, SeatsFinite, SumNat DEF Held, Pot
<1> QED BY <1>1, <1>2, <1>4

(* A balance changes by an amount; a stack and a stake change. *)
LEMMA Credit ==
    ASSUME IInv, NEW p \in DOMAIN chips, NEW n \in Int,
           DOMAIN chips' = DOMAIN chips, chips'[p] = chips[p] + n,
           \A q \in DOMAIN chips : q # p => chips'[q] = chips[q]
    PROVE  SumFunction(chips') = SumFunction(chips) + n
<1>1. IsFiniteSet(DOMAIN chips)
  BY Totals
<1>2. \A q \in DOMAIN chips : chips[q] \in Int /\ (q # p => chips'[q] = chips[q])
  BY DEF IInv, TypeOK
<1>3. chips'[p] \in Int
  BY <1>2
<1>4. SumFunctionOnSet(chips', DOMAIN chips)
      = SumFunctionOnSet(chips, DOMAIN chips) - chips[p] + chips'[p]
  BY <1>1, <1>2, <1>3, SumChange
<1>5. SumFunctionOnSet(chips, DOMAIN chips) \in Int /\ chips[p] \in Int
  BY <1>1, <1>2, SumInt
<1> QED BY <1>4, <1>5 DEF SumFunction

LEMMA SeatChange ==
    ASSUME IInv, NEW i \in Seats, stack'[i] \in Int, committed'[i] \in Int,
           \A j \in Seats : j # i => stack'[j] = stack[j] /\ committed'[j] = committed[j]
    PROVE  /\ Held(Seats)' = Held(Seats) - stack[i] + stack'[i]
           /\ Pot' = Pot - committed[i] + committed'[i]
<1>1. /\ \A j \in Seats : stack[j] \in Int /\ (j # i => stack'[j] = stack[j])
      /\ \A j \in Seats : committed[j] \in Int /\ (j # i => committed'[j] = committed[j])
  BY DEF IInv, TypeOK
<1>2. SumFunctionOnSet(stack', Seats) = SumFunctionOnSet(stack, Seats) - stack[i] + stack'[i]
  BY <1>1, SeatsFinite, SumChange
<1>3. SumFunctionOnSet(committed', Seats)
      = SumFunctionOnSet(committed, Seats) - committed[i] + committed'[i]
  BY <1>1, SeatsFinite, SumChange
<1> QED BY <1>2, <1>3 DEF Held, Pot

LEMMA MoneySolvent ==
    ASSUME IInv, Solvent,
           SweepRake \/ \E p \in Players : InitPlayer(p) \/ BuyChips(p) \/ SellChips(p)
    PROVE  Solvent'
<1>0. SumFunction(chips) \in Nat /\ Held(Seats) \in Nat /\ Pot \in Nat /\ rakeAccrued \in Nat
      /\ forfeited \in Nat /\ vault \in Nat
  BY Totals DEF IInv, TypeOK
<1>1. UNCHANGED <<stack, committed, forfeited>>
  BY DEF SweepRake, InitPlayer, BuyChips, SellChips, seatVars
<1>2. Held(Seats)' = Held(Seats) /\ Pot' = Pot
  BY <1>1 DEF Held, Pot
<1>3. CASE SweepRake
  <2>1. /\ Treasury \in DOMAIN chips /\ vault' = vault /\ rakeAccrued' = 0
        /\ chips' = [chips EXCEPT ![Treasury] = @ + rakeAccrued]
    BY <1>3 DEF SweepRake, Has
  <2>2. SumFunction(chips') = SumFunction(chips) + rakeAccrued
    <3>1. /\ DOMAIN chips' = DOMAIN chips /\ chips'[Treasury] = chips[Treasury] + rakeAccrued
          /\ \A q \in DOMAIN chips : q # Treasury => chips'[q] = chips[q]
      BY <2>1
    <3>2. Treasury \in DOMAIN chips /\ rakeAccrued \in Int
      BY <1>0, <2>1
    <3> QED BY <3>1, <3>2, Credit
  <2> QED BY <1>0, <1>1, <1>2, <2>1, <2>2 DEF Solvent
<1>4. ASSUME NEW p \in Players, InitPlayer(p) PROVE Solvent'
  <2>1. /\ p \notin DOMAIN chips /\ vault' = vault /\ rakeAccrued' = rakeAccrued
        /\ chips' = [q \in DOMAIN chips \cup {p} |-> IF q = p THEN 0 ELSE chips[q]]
    BY <1>4 DEF InitPlayer, Has, tableVars
  <2>2. IsFiniteSet(DOMAIN chips) /\ \A q \in DOMAIN chips : chips[q] \in Int
    BY Totals DEF IInv, TypeOK
  <2>3. /\ DOMAIN chips' = DOMAIN chips \cup {p} /\ chips'[p] = 0
        /\ \A q \in DOMAIN chips : chips'[q] = chips[q]
        /\ \A q \in DOMAIN chips \cup {p} : chips'[q] \in Int
    BY <2>1, <2>2
  <2>4. SumFunctionOnSet(chips', DOMAIN chips \cup {p})
        = chips'[p] + SumFunctionOnSet(chips', DOMAIN chips)
    BY <2>1, <2>2, <2>3, SumPutIn
  <2>5. SumFunctionOnSet(chips', DOMAIN chips) = SumFunctionOnSet(chips, DOMAIN chips)
    BY <2>2, <2>3, SumSame
  <2>6. SumFunction(chips') = SumFunction(chips)
    BY <1>0, <2>3, <2>4, <2>5 DEF SumFunction
  <2> QED BY <1>1, <1>2, <2>1, <2>6 DEF Solvent
<1>5. ASSUME NEW p \in Players, BuyChips(p) PROVE Solvent'
  <2>1. PICK n \in 1 .. usdc[p] : vault' = vault + n /\ chips' = [chips EXCEPT ![p] = @ + n]
    BY <1>5 DEF BuyChips
  <2>2. p \in DOMAIN chips /\ rakeAccrued' = rakeAccrued
    BY <1>5 DEF BuyChips, Has, tableVars
  <2>3. n \in Int
    OBVIOUS
  <2>4. SumFunction(chips') = SumFunction(chips) + n
    <3>1. /\ DOMAIN chips' = DOMAIN chips /\ chips'[p] = chips[p] + n
          /\ \A q \in DOMAIN chips : q # p => chips'[q] = chips[q]
      BY <2>1, <2>2
    <3> QED BY <2>2, <2>3, <3>1, Credit
  <2> QED BY <1>0, <1>1, <1>2, <2>1, <2>2, <2>3, <2>4 DEF Solvent
<1>6. ASSUME NEW p \in Players, SellChips(p) PROVE Solvent'
  <2>1. PICK n \in 1 .. chips[p] : vault' = vault - n /\ chips' = [chips EXCEPT ![p] = @ - n]
    BY <1>6 DEF SellChips
  <2>2. p \in DOMAIN chips /\ rakeAccrued' = rakeAccrued
    BY <1>6 DEF SellChips, Has, tableVars
  <2>3. n \in Int /\ chips[p] \in Int
    BY <2>2 DEF IInv, TypeOK
  <2>4. SumFunction(chips') = SumFunction(chips) + (0 - n)
    <3>1. /\ DOMAIN chips' = DOMAIN chips /\ chips'[p] = chips[p] + (0 - n) /\ 0 - n \in Int
          /\ \A q \in DOMAIN chips : q # p => chips'[q] = chips[q]
      BY <2>1, <2>2, <2>3
    <3> QED BY <2>2, <3>1, Credit
  <2> QED BY <1>0, <1>1, <1>2, <2>1, <2>2, <2>3, <2>4 DEF Solvent
<1> QED BY <1>3, <1>4, <1>5, <1>6

(* A balance and a seat in one step. *)
LEMMA SeatSolvent ==
    ASSUME IInv, Solvent, NEW i \in Seats, NEW p \in Players,
           TakeSeat(p, i) \/ VacateOwnSeat(i) \/ VacateSeat(p, i)
    PROVE  Solvent'
<1>0. /\ SumFunction(chips) \in Nat /\ Held(Seats) \in Nat /\ Pot \in Nat /\ rakeAccrued \in Nat
      /\ forfeited \in Nat /\ vault \in Nat /\ stack[i] \in Nat /\ committed[i] \in Nat
  BY Totals DEF IInv, TypeOK
<1>1. ASSUME NEW q \in DOMAIN chips, NEW n \in Int, NEW m \in Int,
             chips' = [chips EXCEPT ![q] = @ + n],
             stack' = [stack EXCEPT ![i] = m], committed' = [committed EXCEPT ![i] = 0],
             n = stack[i] + committed[i] - m, UNCHANGED <<vault, rakeAccrued, forfeited>>
      PROVE  Solvent'
  <2>1. /\ DOMAIN chips' = DOMAIN chips /\ chips'[q] = chips[q] + n
        /\ \A r \in DOMAIN chips : r # q => chips'[r] = chips[r]
    BY <1>1
  <2>2. /\ stack'[i] = m /\ committed'[i] = 0
        /\ \A j \in Seats : j # i => stack'[j] = stack[j] /\ committed'[j] = committed[j]
    BY <1>1 DEF IInv, TypeOK
  <2>3. SumFunction(chips') = SumFunction(chips) + n
    BY <2>1, Credit
  <2>4. stack'[i] \in Int /\ committed'[i] \in Int
    BY <2>2
  <2>5. Held(Seats)' = Held(Seats) - stack[i] + m /\ Pot' = Pot - committed[i]
    <3>1. Held(Seats)' = Held(Seats) - stack[i] + stack'[i]
          /\ Pot' = Pot - committed[i] + committed'[i]
      BY <2>2, <2>4, SeatChange
    <3> QED BY <1>0, <2>2, <3>1
  <2>6. n = stack[i] + committed[i] - m /\ UNCHANGED <<vault, rakeAccrued, forfeited>>
    BY <1>1
  <2> QED BY <1>0, <2>3, <2>5, <2>6 DEF Solvent
<1>2. Waiting
  BY DEF TakeSeat, VacateOwnSeat, VacateSeat, IInv, NeverSplitMidHand, AllOnRollup, CoreOnBase
<1>3. committed[i] = 0
  BY <1>2 DEF IInv, NothingLeftInTheMiddle
<1>4. CASE TakeSeat(p, i)
  <2>1. PICK buyIn \in MinBuyIn .. MaxBuyIn :
          /\ chips' = [chips EXCEPT ![p] = @ - buyIn] /\ stack' = [stack EXCEPT ![i] = buyIn]
    BY <1>4 DEF TakeSeat
  <2>2. /\ p \in DOMAIN chips /\ committed' = [committed EXCEPT ![i] = 0]
        /\ UNCHANGED <<vault, rakeAccrued, forfeited>>
        /\ CoreOnBase /\ SeatOnBase(i) /\ seatMap[i] = Nobody
    BY <1>4 DEF TakeSeat, Has
  <2>3. stack[i] = 0
    BY <2>2 DEF IInv, TypeOK, SeatMapAgrees, CoreOnBase, SeatOnBase
  <2>4. buyIn \in Int /\ 0 - buyIn \in Int /\ 0 - buyIn = stack[i] + committed[i] - buyIn
    BY <1>3, <2>3
  <2>5. chips' = [chips EXCEPT ![p] = @ + (0 - buyIn)]
    <3>1. chips[p] \in Int
      BY <2>2 DEF IInv, TypeOK
    <3>2. chips[p] - buyIn = chips[p] + (0 - buyIn)
      BY <2>4, <3>1
    <3> QED BY <2>1, <3>2
  <2> QED BY <1>1, <2>1, <2>2, <2>4, <2>5
<1>5. ASSUME Empty(i, stack[i] + committed[i]) PROVE Solvent'
  <2>1. /\ occupant[i] \in DOMAIN chips
        /\ chips' = [chips EXCEPT ![occupant[i]] = @ + (stack[i] + committed[i])]
        /\ stack' = [stack EXCEPT ![i] = 0] /\ committed' = [committed EXCEPT ![i] = 0]
        /\ UNCHANGED <<vault, rakeAccrued, forfeited>>
    BY <1>5 DEF Empty, Has, Credited
  <2>2. 0 \in Int /\ stack[i] + committed[i] \in Int
        /\ stack[i] + committed[i] = stack[i] + committed[i] - 0
    BY <1>0
  <2> QED BY <1>1, <2>1, <2>2
<1>6. CASE VacateOwnSeat(i)
  <2>1. stack[i] = stack[i] + committed[i]
    BY <1>0, <1>3
  <2>2. Empty(i, stack[i])
    BY <1>6 DEF VacateOwnSeat
  <2> QED BY <1>5, <2>1, <2>2
<1>7. CASE VacateSeat(p, i)
  BY <1>5, <1>7 DEF VacateSeat
<1> QED BY <1>4, <1>6, <1>7

(* A table is deleted when nothing is on it; what is created is empty. *)
LEMMA TableSolvent ==
    ASSUME IInv, Solvent,
           \/ CreateTable \/ \E i \in Seats : CreateSeat(i)
           \/ \E p \in Players : CloseTable(p)
    PROVE  Solvent'
<1>1. UNCHANGED <<chips, vault, forfeited>>
  BY DEF CreateTable, CreateSeat, CloseTable, moneyVars
<1>2. ASSUME stack' = stack, committed' = committed, rakeAccrued' = rakeAccrued PROVE Solvent'
  BY <1>1, <1>2 DEF Solvent, Held, Pot
<1>3. CASE CreateTable
  <2>1. stack' = stack /\ committed' = committed /\ rakeAccrued' = rakeAccrued
    BY <1>3 DEF CreateTable, seatVars, IInv, Lifecycle
  <2> QED BY <1>2, <2>1
<1>4. ASSUME NEW i \in Seats, CreateSeat(i) PROVE Solvent'
  <2>1. stack' = stack /\ committed' = committed /\ rakeAccrued' = rakeAccrued
    BY <1>4 DEF CreateSeat, tableVars, IInv, TypeOK, Lifecycle
  <2> QED BY <1>2, <2>1
<1>5. ASSUME NEW p \in Players, CloseTable(p) PROVE Solvent'
  <2>1. /\ CoreOnBase /\ Emptied /\ rakeAccrued' = 0
        /\ stack' = [i \in Seats |-> 0] /\ committed' = [i \in Seats |-> 0]
    BY <1>5 DEF CloseTable
  <2>2. \A i \in Seats : stack[i] = 0 /\ committed[i] = 0
    BY <2>1 DEF CoreOnBase, Emptied, IInv, Lifecycle, SeatMapAgrees
  <2>3. stack' = stack /\ committed' = committed /\ rakeAccrued' = rakeAccrued
    BY <2>1, <2>2 DEF Emptied, IInv, TypeOK
  <2> QED BY <1>2, <2>3
<1> QED BY <1>3, <1>4, <1>5

(* The hand: what is dropped is counted, a chip bet is a chip committed,   *)
(* and the settlement empties the middle into stacks and rake.             *)
LEMMA HandSolvent ==
    ASSUME IInv, Solvent, StartHand \/ SettleHand \/ AbandonHand \/ \E i \in Seats : Bet(i)
    PROVE  Solvent'
<1>0. /\ SumFunction(chips) \in Nat /\ Held(Seats) \in Nat /\ Pot \in Nat /\ rakeAccrued \in Nat
      /\ forfeited \in Nat /\ vault \in Nat
      /\ \A i \in Seats : /\ stack[i] \in Nat /\ committed[i] \in Nat
                          /\ stack[i] \in Int /\ committed[i] \in Int
  BY Totals DEF IInv, TypeOK
<1>1. vault' = vault /\ chips' = chips
  BY DEF StartHand, SettleHand, AbandonHand, Bet, HandOver, moneyVars
<1>2. CASE StartHand
  <2>1. PICK players \in SUBSET {i \in Seats : occupant[i] # Nobody /\ stack[i] > 0} :
          /\ stack' = [i \in Seats |-> IF i \in players THEN stack[i] ELSE 0]
          /\ forfeited' = forfeited + Held(Seats \ players)
    BY <1>2 DEF StartHand
  <2>2. committed' = committed /\ rakeAccrued' = rakeAccrued
    BY <1>2 DEF StartHand
  <2> DEFINE out == Seats \ players
  <2>3. /\ players \subseteq Seats /\ Seats = players \cup out /\ players \cap out = {}
        /\ IsFiniteSet(players) /\ IsFiniteSet(out)
    BY SeatsFinite
  <2>4. /\ \A i \in players : stack'[i] = stack[i]
        /\ \A i \in out : stack'[i] = 0
        /\ \A i \in Seats : stack'[i] \in Int
    BY <1>0, <2>1, <2>3
  <2> HIDE DEF out
  <2>5. SumFunctionOnSet(stack', players) = SumFunctionOnSet(stack, players)
        /\ SumFunctionOnSet(stack', out) = 0
    BY <1>0, <2>3, <2>4, SumSame, SumZero
  <2>6. /\ SumFunctionOnSet(stack, Seats)
           = SumFunctionOnSet(stack, players) + SumFunctionOnSet(stack, out)
        /\ SumFunctionOnSet(stack', Seats)
           = SumFunctionOnSet(stack', players) + SumFunctionOnSet(stack', out)
    BY <1>0, <2>3, <2>4, SumSplit
  <2>7. /\ SumFunctionOnSet(stack, players) \in Int /\ SumFunctionOnSet(stack, out) \in Int
    BY <1>0, <2>3, SumInt
  <2>8. Held(Seats)' = Held(Seats) - Held(out)
    BY <2>5, <2>6, <2>7 DEF Held
  <2>9. forfeited' = forfeited + Held(out) /\ Held(out) \in Int /\ Pot' = Pot
    BY <2>1, <2>2, <2>7 DEF Held, Pot, out
  <2> QED BY <1>0, <1>1, <2>2, <2>8, <2>9 DEF Solvent
<1>3. ASSUME NEW i \in Seats, Bet(i) PROVE Solvent'
  <2>1. /\ stack' = [stack EXCEPT ![i] = @ - 1] /\ committed' = [committed EXCEPT ![i] = @ + 1]
        /\ rakeAccrued' = rakeAccrued /\ forfeited' = forfeited
    BY <1>3 DEF Bet
  <2>2. /\ stack'[i] = stack[i] - 1 /\ committed'[i] = committed[i] + 1
        /\ \A j \in Seats : j # i => stack'[j] = stack[j] /\ committed'[j] = committed[j]
        /\ stack'[i] \in Int /\ committed'[i] \in Int
    BY <1>0, <2>1 DEF IInv, TypeOK
  <2>3. rakeAccrued' = rakeAccrued /\ forfeited' = forfeited
    BY <2>1
  <2>4. Held(Seats)' = Held(Seats) - stack[i] + stack'[i]
        /\ Pot' = Pot - committed[i] + committed'[i]
    BY <2>2, SeatChange
  <2> QED BY <1>0, <1>1, <2>2, <2>3, <2>4 DEF Solvent
<1>4. ASSUME HandOver PROVE Pot' = 0 /\ forfeited' = forfeited
  <2>1. committed' = [i \in Seats |-> 0] /\ forfeited' = forfeited
    BY <1>4 DEF HandOver, ClearStakes
  <2>2. \A i \in Seats : committed'[i] = 0
    BY <2>1
  <2>3. SumFunctionOnSet(committed', Seats) = 0
    BY <2>2, SeatsFinite, SumZero
  <2> QED BY <2>1, <2>3 DEF Pot
<1>5. CASE SettleHand
  <2>1. PICK rake \in 0 .. Pot, payout \in [dealtIn -> 0 .. Pot] :
          /\ SumFunctionOnSet(payout, dealtIn) + rake = Pot
          /\ stack' = [i \in Seats |-> IF i \in dealtIn THEN stack[i] + payout[i] ELSE stack[i]]
          /\ rakeAccrued' = rakeAccrued + rake
    BY <1>5 DEF SettleHand
  <2>2. Pot' = 0 /\ forfeited' = forfeited
    BY <1>4, <1>5 DEF SettleHand
  <2> DEFINE out == Seats \ dealtIn
  <2>3. /\ dealtIn \subseteq Seats /\ Seats = dealtIn \cup out /\ dealtIn \cap out = {}
        /\ IsFiniteSet(dealtIn) /\ IsFiniteSet(out)
    BY SeatsFinite DEF IInv, TypeOK
  <2>4. rake \in Int /\ \A i \in dealtIn : payout[i] \in Int
    OBVIOUS
  <2>5. /\ \A i \in dealtIn : stack'[i] = stack[i] + payout[i]
        /\ \A i \in out : stack'[i] = stack[i]
        /\ \A i \in Seats : stack'[i] \in Int
    BY <1>0, <2>1, <2>3, <2>4
  <2>6. SumFunctionOnSet(payout, dealtIn) + rake = Pot /\ rakeAccrued' = rakeAccrued + rake
    BY <2>1
  <2> HIDE DEF out
  <2>7. SumFunctionOnSet(stack', dealtIn)
        = SumFunctionOnSet(stack, dealtIn) + SumFunctionOnSet(payout, dealtIn)
    BY <1>0, <2>3, <2>4, <2>5, SumAdd
  <2>8. SumFunctionOnSet(stack', out) = SumFunctionOnSet(stack, out)
    BY <1>0, <2>3, <2>5, SumSame
  <2>9. /\ SumFunctionOnSet(stack, Seats)
           = SumFunctionOnSet(stack, dealtIn) + SumFunctionOnSet(stack, out)
        /\ SumFunctionOnSet(stack', Seats)
           = SumFunctionOnSet(stack', dealtIn) + SumFunctionOnSet(stack', out)
    BY <1>0, <2>3, <2>5, SumSplit
  <2>10. /\ SumFunctionOnSet(stack, dealtIn) \in Int /\ SumFunctionOnSet(stack, out) \in Int
         /\ SumFunctionOnSet(payout, dealtIn) \in Int
    BY <1>0, <2>3, <2>4, SumInt
  <2>11. Held(Seats)' = Held(Seats) + SumFunctionOnSet(payout, dealtIn)
    BY <2>7, <2>8, <2>9, <2>10 DEF Held
  <2> QED BY <1>0, <1>1, <2>2, <2>4, <2>6, <2>10, <2>11 DEF Solvent
<1>6. CASE AbandonHand
  <2>1. /\ stack' = [i \in Seats |-> stack[i] + committed[i]] /\ rakeAccrued' = rakeAccrued
    BY <1>6 DEF AbandonHand
  <2>2. Pot' = 0 /\ forfeited' = forfeited
    BY <1>4, <1>6 DEF AbandonHand
  <2>3. \A i \in Seats : stack'[i] = stack[i] + committed[i]
    BY <2>1
  <2>4. SumFunctionOnSet(stack', Seats)
        = SumFunctionOnSet(stack, Seats) + SumFunctionOnSet(committed, Seats)
    BY <1>0, <2>3, SeatsFinite, SumAdd
  <2>5. Held(Seats)' = Held(Seats) + Pot /\ rakeAccrued' = rakeAccrued
    BY <2>1, <2>4 DEF Held, Pot
  <2> QED BY <1>0, <1>1, <2>2, <2>5 DEF Solvent
<1> QED BY <1>2, <1>3, <1>5, <1>6

LEMMA IdleSolvent ==
    ASSUME IInv, Solvent,
           \/ DelegateCore \/ UndelegateCore \/ LandCore \/ Tick \/ UNCHANGED vars
           \/ \E i \in Seats : DelegateSeat(i) \/ UndelegateSeat(i) \/ LandSeat(i)
    PROVE  Solvent'
<1>1. UNCHANGED <<chips, vault, forfeited, stack, committed, rakeAccrued>>
  BY DEF DelegateCore, UndelegateCore, LandCore, DelegateSeat, UndelegateSeat, LandSeat, Tick,
     vars, moneyVars, tableVars, seatVars
<1> QED BY <1>1 DEF Solvent, Held, Pot

LEMMA InitSolvent == Init => Solvent
<1> SUFFICES ASSUME Init PROVE Solvent
  OBVIOUS
<1>1. IInv
  BY InitInv
<1>2. /\ \A p \in DOMAIN chips : chips[p] = 0
      /\ \A i \in Seats : stack[i] = 0 /\ committed[i] = 0
      /\ vault = 0 /\ rakeAccrued = 0 /\ forfeited = 0
  BY DEF Init
<1>3. SumFunctionOnSet(chips, DOMAIN chips) = 0
  BY <1>1, <1>2, Totals, SumZero
<1>4. SumFunctionOnSet(stack, Seats) = 0 /\ SumFunctionOnSet(committed, Seats) = 0
  BY <1>2, SeatsFinite, SumZero
<1>5. SumFunction(chips) = 0 /\ Held(Seats) = 0 /\ Pot = 0
  BY <1>3, <1>4 DEF SumFunction, Held, Pot
<1> QED BY <1>2, <1>5 DEF Solvent

LEMMA StepSolvent == IInv /\ Solvent /\ [Next]_vars => Solvent'
<1> SUFFICES ASSUME IInv, Solvent, [Next]_vars PROVE Solvent'
  OBVIOUS
<1>1. CASE SweepRake \/ \E p \in Players : InitPlayer(p) \/ BuyChips(p) \/ SellChips(p)
  BY <1>1, MoneySolvent
<1>2. CASE \E i \in Seats : VacateOwnSeat(i) \/ \E p \in Players : TakeSeat(p, i) \/ VacateSeat(p, i)
  <2>1. Treasury \in Players
    OBVIOUS
  <2> QED BY <1>2, <2>1, SeatSolvent
<1>3. CASE \/ CreateTable \/ \E i \in Seats : CreateSeat(i)
           \/ \E p \in Players : CloseTable(p)
  BY <1>3, TableSolvent
<1>4. CASE StartHand \/ SettleHand \/ AbandonHand \/ \E i \in Seats : Bet(i)
  BY <1>4, HandSolvent
<1>5. CASE \/ DelegateCore \/ UndelegateCore \/ LandCore \/ Tick \/ UNCHANGED vars
           \/ \E i \in Seats : DelegateSeat(i) \/ UndelegateSeat(i) \/ LandSeat(i)
  BY <1>5, IdleSolvent
<1> QED BY <1>1, <1>2, <1>3, <1>4, <1>5 DEF Next

(* The vault holds exactly what every balance, stack, stake, the rake and  *)
(* the chips start_hand dropped come to.                                   *)
THEOREM VaultCoversChips == Spec => []Solvent
<1>1. Init => IInv /\ Solvent
  BY InitInv, InitSolvent
<1>2. (IInv /\ Solvent) /\ [Next]_vars => (IInv /\ Solvent)'
  BY StepInv, StepSolvent
<1> QED BY <1>1, <1>2, PTL DEF Spec

-----------------------------------------------------------------------------
(* The ledger. What a player is worth is its balance and what its seats    *)
(* hold; all of it together is what the vault holds, less what was dropped.*)

Mine == [i \in Seats |-> stack[i] + committed[i]]
Balance(p) == IF Has(p) THEN chips[p] ELSE 0
SeatsOf(p) == {i \in Seats : occupant[i] = p}
House(p) == IF p = Treasury THEN rakeAccrued ELSE 0
Worths == [p \in Players |-> Wealth(p)]

Appraised ==
    /\ Mine \in [Seats -> Nat]
    /\ \A p \in Players :
           /\ IsFiniteSet(SeatsOf(p)) /\ SumFunctionOnSet(Mine, SeatsOf(p)) \in Nat
           /\ Balance(p) \in Nat /\ House(p) \in Nat
           /\ Wealth(p) = Balance(p) + SumFunctionOnSet(Mine, SeatsOf(p)) + House(p)
           /\ Wealth(p) \in Nat

LEMMA WealthParts == IInv => Appraised
<1> SUFFICES ASSUME IInv PROVE Appraised
  OBVIOUS
<1>1. Mine \in [Seats -> Nat]
  BY DEF IInv, TypeOK, Mine
<1>2. ASSUME NEW p \in Players
      PROVE  /\ IsFiniteSet(SeatsOf(p)) /\ SumFunctionOnSet(Mine, SeatsOf(p)) \in Nat
             /\ Balance(p) \in Nat /\ House(p) \in Nat
             /\ Wealth(p) = Balance(p) + SumFunctionOnSet(Mine, SeatsOf(p)) + House(p)
  <2>1. IsFiniteSet(SeatsOf(p)) /\ SeatsOf(p) \subseteq Seats
    BY SeatsFinite DEF SeatsOf
  <2>2. \A i \in SeatsOf(p) : Mine[i] \in Nat
    BY <1>1, <2>1
  <2>3. SumFunctionOnSet(Mine, SeatsOf(p)) \in Nat
    BY <2>1, <2>2, SumNat
  <2>4. Balance(p) \in Nat /\ House(p) \in Nat
    BY DEF IInv, TypeOK, Balance, House, Has
  <2>5. Wealth(p) = Balance(p) + SumFunctionOnSet(Mine, SeatsOf(p)) + House(p)
    BY DEF Wealth, Balance, Mine, SeatsOf, House
  <2> QED BY <2>1, <2>3, <2>4, <2>5
<1>3. ASSUME NEW p \in Players PROVE Wealth(p) \in Nat
  BY <1>2
<1> QED BY <1>1, <1>2, <1>3 DEF Appraised

LEMMA LedgerSums ==
    ASSUME NEW S, NEW f PROVE L!Worth(S, f) = SumFunctionOnSet(f, S)
BY DEF L!Worth, L!SumFunctionOnSet, L!FoldFunctionOnSet, L!MapThenFoldSet, SumFunctionOnSet,
   FoldFunctionOnSet, MapThenFoldSet

LEMMA LedgerCounts == ASSUME NEW S PROVE L!Cardinality(S) = Cardinality(S)
BY DEF L!Cardinality, L!IsFiniteSet, Cardinality, IsFiniteSet

LEMMA WorthIsVault == IInv /\ Solvent => L!Worth(Players, Worths) = vault - forfeited
<1> SUFFICES ASSUME IInv, Solvent PROVE L!Worth(Players, Worths) = vault - forfeited
  OBVIOUS
<1> DEFINE A == [p \in Players |-> Balance(p)]
           B == [p \in Players |-> SumFunctionOnSet(Mine, SeatsOf(p))]
           C == [p \in Players |-> House(p)]
           AB == [p \in Players |-> Balance(p) + SumFunctionOnSet(Mine, SeatsOf(p))]
<1>0. /\ IsFiniteSet(Players) /\ DOMAIN chips \subseteq Players /\ rakeAccrued \in Nat
      /\ SumFunction(chips) \in Nat /\ Held(Seats) \in Nat /\ Pot \in Nat
      /\ IsFiniteSet(DOMAIN chips)
  BY Totals DEF IInv, TypeOK
<1>1. \A p \in Players :
         /\ A[p] \in Int /\ B[p] \in Int /\ C[p] \in Int /\ AB[p] \in Int
         /\ AB[p] = A[p] + B[p] /\ Worths[p] = AB[p] + C[p]
  BY WealthParts DEF Appraised, Worths
<1>2. SumFunctionOnSet(A, Players) = SumFunction(chips)
  <2> DEFINE rest == Players \ DOMAIN chips
  <2>1. Players = DOMAIN chips \cup rest /\ DOMAIN chips \cap rest = {} /\ IsFiniteSet(rest)
    BY <1>0, FS_Subset
  <2>2. /\ \A p \in DOMAIN chips : chips[p] \in Int /\ A[p] = chips[p]
        /\ \A p \in rest : A[p] = 0
    BY DEF IInv, TypeOK, Balance, Has
  <2> HIDE DEF A, rest
  <2>3. SumFunctionOnSet(A, DOMAIN chips) = SumFunctionOnSet(chips, DOMAIN chips)
        /\ SumFunctionOnSet(A, rest) = 0
    BY <1>0, <2>1, <2>2, SumSame, SumZero
  <2>4. SumFunctionOnSet(A, Players)
        = SumFunctionOnSet(A, DOMAIN chips) + SumFunctionOnSet(A, rest)
    <3>1. \A p \in DOMAIN chips \cup rest : A[p] \in Int
      BY <1>1, <2>1
    <3>2. SumFunctionOnSet(A, DOMAIN chips \cup rest)
          = SumFunctionOnSet(A, DOMAIN chips) + SumFunctionOnSet(A, rest)
      BY <1>0, <2>1, <3>1, SumSplit
    <3> QED BY <2>1, <3>2
  <2> QED BY <1>0, <2>1, <2>3, <2>4 DEF SumFunction
<1>3. SumFunctionOnSet(C, Players) = rakeAccrued
  <2> DEFINE zero == [p \in Players |-> 0]
  <2>1. SumFunctionOnSet(zero, Players) = 0
    BY SumZero
  <2>2. \A p \in Players : zero[p] \in Int /\ (p # Treasury => C[p] = zero[p])
    BY DEF House
  <2>3. zero[Treasury] = 0 /\ C[Treasury] = rakeAccrued
    BY DEF House
  <2>4. Treasury \in Players /\ C[Treasury] \in Int /\ IsFiniteSet(Players)
    BY <1>0, <2>3
  <2> HIDE DEF zero, C
  <2>5. SumFunctionOnSet(C, Players)
        = SumFunctionOnSet(zero, Players) - zero[Treasury] + C[Treasury]
    BY <2>2, <2>4, SumChange
  <2> QED BY <1>0, <2>1, <2>3, <2>5
<1>4. SumFunctionOnSet(B, Players) = Held(Seats) + Pot
  <2> DEFINE Q == Players \cup {Nobody}
             D == [q \in Q |-> SumFunctionOnSet(Mine, {i \in Seats : occupant[i] = q})]
  <2>1. IsFiniteSet(Q)
    BY FS_AddElement
  <2>2. \A i \in Seats : occupant[i] \in Q /\ Mine[i] \in Int
    BY WealthParts DEF Appraised, IInv, TypeOK
  <2>3. SumFunctionOnSet(D, Q) = SumFunctionOnSet(Mine, Seats)
    <3> HIDE DEF Q
    <3> QED BY <2>1, <2>2, SeatsFinite, SumByClass
  <2>4. SumFunctionOnSet(Mine, Seats) = Held(Seats) + Pot
    <3>1. \A i \in Seats : stack[i] \in Int /\ committed[i] \in Int
                           /\ Mine[i] = stack[i] + committed[i]
      BY DEF IInv, TypeOK, Mine
    <3> QED BY <3>1, SeatsFinite, SumAdd DEF Held, Pot
  <2>5. D[Nobody] = 0
    <3>1. \A i \in Seats : occupant[i] = Nobody => stack[i] = 0 /\ committed[i] = 0
      BY DEF IInv, Lifecycle, SeatMapAgrees
    <3>2. \A i \in {j \in Seats : occupant[j] = Nobody} : Mine[i] = 0
      BY <3>1 DEF Mine
    <3>3. SumFunctionOnSet(Mine, {j \in Seats : occupant[j] = Nobody}) = 0
      BY <3>2, SeatsFinite, SumZero
    <3> QED BY <3>3
  <2>6. \A p \in Players : D[p] = B[p] /\ D[p] \in Int
    <3>1. \A p \in Players : p \in Q
      OBVIOUS
    <3>2. \A p \in Players : {i \in Seats : occupant[i] = p} = SeatsOf(p)
      BY DEF SeatsOf
    <3>3. \A p \in Players : D[p] = SumFunctionOnSet(Mine, SeatsOf(p))
      BY <3>1, <3>2
    <3>4. \A p \in Players : B[p] = SumFunctionOnSet(Mine, SeatsOf(p))
      OBVIOUS
    <3>5. \A p \in Players : B[p] \in Int
      BY <1>1
    <3> HIDE DEF B, D
    <3> QED BY <3>3, <3>4, <3>5
  <2>7. SumFunctionOnSet(D, Q) = D[Nobody] + SumFunctionOnSet(D, Players)
    <3>1. \A q \in Players \cup {Nobody} : D[q] \in Int
      BY <2>5, <2>6
    <3>2. IsFiniteSet(Players) /\ Nobody \notin Players
      OBVIOUS
    <3> HIDE DEF D
    <3> QED BY <3>1, <3>2, SumPutIn
  <2>8. SumFunctionOnSet(D, Players) = SumFunctionOnSet(B, Players)
        /\ SumFunctionOnSet(B, Players) \in Int
    <3>1. \A p \in Players : B[p] \in Int /\ D[p] = B[p]
      BY <1>1, <2>6
    <3> HIDE DEF B, D
    <3> QED BY <1>0, <3>1, SumSame, SumInt
  <2> HIDE DEF B, D, Q
  <2> QED BY <1>0, <2>3, <2>4, <2>5, <2>7, <2>8
<1> HIDE DEF A, B, C, AB
<1>5. SumFunctionOnSet(AB, Players) = SumFunctionOnSet(A, Players) + SumFunctionOnSet(B, Players)
  BY <1>0, <1>1, SumAdd
<1>6. SumFunctionOnSet(Worths, Players)
      = SumFunctionOnSet(AB, Players) + SumFunctionOnSet(C, Players)
  BY <1>0, <1>1, SumAdd
<1>7. forfeited \in Nat
  BY DEF IInv, TypeOK
<1>8. SumFunctionOnSet(Worths, Players) = vault - forfeited
  BY <1>0, <1>2, <1>3, <1>4, <1>5, <1>6, <1>7 DEF Solvent
<1> QED BY <1>8, LedgerSums

LEMMA WorthsSame ==
    ASSUME IInv, IInv',
           chips' = chips, rakeAccrued' = rakeAccrued, occupant' = occupant, Mine' = Mine
    PROVE  Worths' = Worths
<1>1. \A p \in Players : /\ Balance(p)' = Balance(p) /\ House(p)' = House(p)
                         /\ SeatsOf(p)' = SeatsOf(p)
  BY DEF Balance, House, SeatsOf, Has
<1>2. Appraised /\ Appraised'
  BY WealthParts, PTL
<1>3. \A p \in Players : Wealth(p)' = Wealth(p)
  BY <1>1, <1>2 DEF Appraised
<1> QED BY <1>3 DEF Worths

Ledgered == L!LedgerNext \/ UNCHANGED L!ledgerVars

(* Buying and selling. *)
LEMMA TradeStep ==
    ASSUME IInv, IInv', NEW p \in DOMAIN chips, NEW n \in Int, n # 0, vault' = vault + n,
           DOMAIN chips' = DOMAIN chips, chips'[p] = chips[p] + n,
           \A q \in DOMAIN chips : q # p => chips'[q] = chips[q],
           UNCHANGED <<forfeited, rakeAccrued, occupant, stack, committed, dealtIn>>
    PROVE  Ledgered
<1>0. p \in Players /\ vault \in Nat /\ vault' \in Nat
  BY DEF IInv, TypeOK
<1>1. Mine' = Mine /\ \A q \in Players : House(q)' = House(q) /\ SeatsOf(q)' = SeatsOf(q)
  BY DEF Mine, House, SeatsOf
<1>2. /\ Balance(p)' = Balance(p) + n
      /\ \A q \in Players : q # p => Balance(q)' = Balance(q)
  BY DEF Balance, Has
<1>3. Appraised /\ Appraised'
  BY WealthParts, PTL
<1>4. \A q \in Players :
         /\ Wealth(q) \in Nat /\ Wealth(q)' \in Nat /\ Balance(q) \in Nat /\ House(q) \in Nat
         /\ SumFunctionOnSet(Mine, SeatsOf(q)) \in Nat
         /\ Wealth(q) = Balance(q) + SumFunctionOnSet(Mine, SeatsOf(q)) + House(q)
         /\ Wealth(q)' = Balance(q)' + SumFunctionOnSet(Mine, SeatsOf(q)) + House(q)
  BY <1>1, <1>3 DEF Appraised
<1>5. /\ Wealth(p)' = Wealth(p) + vault' - vault
      /\ \A q \in Players : q # p => Wealth(q)' = Wealth(q)
  BY <1>0, <1>2, <1>4
<1>6. Worths' = [Worths EXCEPT ![p] = @ + vault' - vault]
  BY <1>0, <1>5 DEF Worths
<1>7. Worths[p] + vault' - vault >= 0
  BY <1>0, <1>4, <1>5 DEF Worths
<1>8. L!Trade
  <2>1. vault' # vault /\ vault' >= 0 /\ forfeited' = forfeited
    BY <1>0
  <2>2. {occupant[i] : i \in dealtIn}' = {occupant[i] : i \in dealtIn}
    OBVIOUS
  <2> QED BY <1>0, <1>6, <1>7, <2>1, <2>2 DEF L!Trade, Worths
<1> QED BY <1>8 DEF Ledgered, L!LedgerNext

Priced == L!Worth(Players, Worths) = vault - forfeited

LEMMA AllPriced == IInv /\ Solvent => Priced
BY WorthIsVault DEF Priced

(* Dealing: nobody dealt in loses anything, everybody else may. *)
LEMMA DealStep ==
    ASSUME IInv, IInv', Solvent, Solvent', StartHand PROVE Ledgered
<1>1. PICK players \in SUBSET {i \in Seats : occupant[i] # Nobody /\ stack[i] > 0} :
        /\ Cardinality(players) >= 2 /\ dealtIn' = players
        /\ stack' = [i \in Seats |-> IF i \in players THEN stack[i] ELSE 0]
  BY DEF StartHand
<1>2. /\ Waiting /\ UNCHANGED <<vault, chips, rakeAccrued, occupant, committed>>
  BY DEF StartHand, moneyVars
<1>3. players \subseteq Seats /\ dealtIn = {} /\ IsFiniteSet(players)
  BY <1>2, SeatsFinite DEF IInv, Lifecycle
<1>4. Appraised /\ Appraised'
  BY WealthParts, PTL
<1>5. \A p \in Players : /\ Balance(p)' = Balance(p) /\ House(p)' = House(p)
                         /\ SeatsOf(p)' = SeatsOf(p)
  BY <1>2 DEF Balance, House, SeatsOf, Has
<1>6. \A i \in Seats : /\ Mine[i] \in Int /\ Mine'[i] \in Int /\ Mine'[i] <= Mine[i]
                       /\ i \in players => Mine'[i] = Mine[i]
  BY <1>1, <1>2 DEF IInv, TypeOK, Mine
<1>7. \A p \in Players : Wealth(p)' <= Wealth(p)
  <2> SUFFICES ASSUME NEW p \in Players PROVE Wealth(p)' <= Wealth(p)
    OBVIOUS
  <2>1. \A i \in SeatsOf(p) : Mine'[i] \in Int /\ Mine[i] \in Int /\ Mine'[i] <= Mine[i]
    BY <1>6 DEF SeatsOf
  <2>2. IsFiniteSet(SeatsOf(p))
    BY <1>4 DEF Appraised
  <2>3. SumFunctionOnSet(Mine', SeatsOf(p)) <= SumFunctionOnSet(Mine, SeatsOf(p))
    BY <2>1, <2>2, SumAtLeast
  <2>4. SumFunctionOnSet(Mine, SeatsOf(p))' = SumFunctionOnSet(Mine', SeatsOf(p))
    BY <1>5
  <2> QED BY <1>4, <1>5, <2>3, <2>4 DEF Appraised
<1>8. \A p \in Players : (\E i \in players : occupant[i] = p) => Wealth(p)' = Wealth(p)
  <2> SUFFICES ASSUME NEW p \in Players, NEW i \in players, occupant[i] = p
               PROVE  Wealth(p)' = Wealth(p)
    OBVIOUS
  <2>1. \A j \in SeatsOf(p) : j = i
    BY <1>3 DEF SeatsOf, IInv, OneSeatEach
  <2>2. \A j \in SeatsOf(p) : Mine[j] \in Int /\ Mine'[j] = Mine[j]
    BY <1>3, <1>6, <2>1
  <2>3. IsFiniteSet(SeatsOf(p))
    BY <1>4 DEF Appraised
  <2>4. SumFunctionOnSet(Mine', SeatsOf(p)) = SumFunctionOnSet(Mine, SeatsOf(p))
    BY <2>2, <2>3, SumSame
  <2>5. SumFunctionOnSet(Mine, SeatsOf(p))' = SumFunctionOnSet(Mine', SeatsOf(p))
    BY <1>5
  <2> QED BY <1>4, <1>5, <2>4, <2>5 DEF Appraised
<1> DEFINE P == {occupant[i] : i \in players}
<1>9. {occupant[i] : i \in dealtIn} = {} /\ {occupant[i] : i \in dealtIn}' = P
  BY <1>1, <1>2, <1>3
<1>10. Cardinality(P) >= 2
  <2> DEFINE seating == [i \in players |-> occupant[i]]
  <2>1. seating \in Bijection(players, P)
    <3>1. \A i \in players : occupant[i] # Nobody
      BY <1>1
    <3>2. \A i, j \in players : occupant[i] = occupant[j] => i = j
      BY <1>3, <3>1 DEF IInv, OneSeatEach
    <3> QED BY <3>2 DEF Bijection, Injection, Surjection, IsInjective
  <2>2. Cardinality(P) = Cardinality(players)
    <3>1. ExistsBijection(players, P)
      BY <2>1 DEF ExistsBijection
    <3> HIDE DEF P
    <3> QED BY <1>3, <3>1, FS_Bijection
  <2>3. Cardinality(players) \in Nat /\ Cardinality(players) >= 2
    BY <1>1, <1>3, FS_CardinalityType
  <2> HIDE DEF P
  <2> QED BY <2>2, <2>3
<1>11. \A p \in Players : IF p \in P THEN Worths'[p] = Worths[p] ELSE Worths'[p] <= Worths[p]
  BY <1>7, <1>8 DEF Worths
<1>12. forfeited' = forfeited + L!Worth(Players, Worths) - L!Worth(Players, Worths')
  <2>1. Priced /\ Priced'
    BY AllPriced, PTL
  <2>2. vault \in Nat /\ forfeited \in Nat /\ forfeited' \in Nat
    BY DEF IInv, TypeOK
  <2>3. vault - forfeited = L!Worth(Players, Worths)
        /\ vault - forfeited' = L!Worth(Players, Worths')
    BY <1>2, <2>1 DEF Priced
  <2>4. \A f, v, g \in Nat : g = f + (v - f) - (v - g)
    OBVIOUS
  <2>5. forfeited' = forfeited + (vault - forfeited) - (vault - forfeited')
    BY ONLY <2>2, <2>4
  <2> QED BY <2>3, <2>5
<1>13. L!Deal
  <2>1. L!Cardinality(P) >= 2
    BY <1>10, LedgerCounts
  <2> QED BY <1>2, <1>9, <1>11, <1>12, <2>1 DEF L!Deal, Worths
<1> QED BY <1>13 DEF Ledgered, L!LedgerNext

(* Settling, or giving back: only who was dealt in, and the house, are     *)
(* worth more or less than before, and together as much.                   *)
LEMMA CloseStep ==
    ASSUME IInv, IInv', Solvent, Solvent', SettleHand \/ AbandonHand PROVE Ledgered
<1>1. /\ ~Waiting /\ dealtIn' = {} /\ committed' = [i \in Seats |-> 0]
      /\ UNCHANGED <<vault, chips, occupant, forfeited>>
  BY DEF SettleHand, AbandonHand, HandOver, ClearStakes, moneyVars
<1>2. \A i \in Seats \ dealtIn : stack'[i] = stack[i] /\ committed[i] = 0
  <2>1. \A i \in Seats \ dealtIn : committed[i] = 0
    BY DEF IInv, Lifecycle
  <2>2. \A i \in Seats \ dealtIn : stack'[i] = stack[i]
    BY <2>1 DEF SettleHand, AbandonHand, IInv, TypeOK
  <2> QED BY <2>1, <2>2
<1>3. rakeAccrued' >= rakeAccrued
  <2>1. CASE SettleHand
    <3>1. PICK rake \in 0 .. Pot : rakeAccrued' = rakeAccrued + rake
      BY <2>1 DEF SettleHand
    <3> QED BY <3>1 DEF IInv, TypeOK
  <2>2. CASE AbandonHand
    BY <2>2 DEF AbandonHand, IInv, TypeOK
  <2> QED BY <2>1, <2>2
<1>4. Appraised /\ Appraised'
  BY WealthParts, PTL
<1>5. \A p \in Players : /\ Balance(p)' = Balance(p) /\ SeatsOf(p)' = SeatsOf(p)
                         /\ p # Treasury => House(p)' = House(p)
  BY <1>1 DEF Balance, House, SeatsOf, Has
<1>6. House(Treasury)' >= House(Treasury)
  BY <1>3 DEF House
<1>7. \A i \in Seats \ dealtIn : Mine[i] \in Int /\ Mine'[i] = Mine[i]
  BY <1>1, <1>2 DEF IInv, TypeOK, Mine
<1> DEFINE P == {occupant[i] : i \in dealtIn}
<1>8. \A p \in Players \ P :
        SumFunctionOnSet(Mine, SeatsOf(p))' = SumFunctionOnSet(Mine, SeatsOf(p))
  <2> SUFFICES ASSUME NEW p \in Players \ P
               PROVE  SumFunctionOnSet(Mine, SeatsOf(p))' = SumFunctionOnSet(Mine, SeatsOf(p))
    OBVIOUS
  <2>1. \A i \in SeatsOf(p) : Mine[i] \in Int /\ Mine'[i] = Mine[i]
    BY <1>7 DEF SeatsOf
  <2>2. IsFiniteSet(SeatsOf(p))
    BY <1>4 DEF Appraised
  <2>3. SumFunctionOnSet(Mine', SeatsOf(p)) = SumFunctionOnSet(Mine, SeatsOf(p))
    BY <2>1, <2>2, SumSame
  <2> QED BY <1>5, <2>3
<1>9. \A p \in Players \ (P \cup {Treasury}) : Wealth(p)' = Wealth(p)
  BY <1>4, <1>5, <1>8 DEF Appraised
<1>10. Treasury \notin P => Wealth(Treasury)' >= Wealth(Treasury)
  BY <1>4, <1>5, <1>6, <1>8 DEF Appraised
<1>11. P # {} /\ {occupant[i] : i \in dealtIn}' = {}
  BY <1>1 DEF IInv, Lifecycle
<1>12. L!Worth(Players, Worths') = L!Worth(Players, Worths)
  <2>1. Priced /\ Priced'
    BY AllPriced, PTL
  <2> QED BY <1>1, <2>1 DEF Priced
<1>13. \A p \in Players : Worths'[p] >= 0
  BY <1>4 DEF Appraised, Worths
<1>14. L!Close
  <2>1. \A p \in Players \ (P \cup {Treasury}) : Worths'[p] = Worths[p]
    BY <1>9 DEF Worths
  <2>2. Treasury \notin P => Worths'[Treasury] >= Worths[Treasury]
    BY <1>10 DEF Worths
  <2> QED BY <1>1, <1>11, <1>12, <1>13, <2>1, <2>2 DEF L!Close, Worths
<1> QED BY <1>14 DEF Ledgered, L!LedgerNext

(* Everything else moves a player's chips between its own pockets, or none *)
(* at all.                                                                 *)
LEMMA Stutter ==
    ASSUME Worths' = Worths, UNCHANGED <<vault, forfeited>>,
           {occupant[i] : i \in dealtIn}' = {occupant[i] : i \in dealtIn}
    PROVE  Ledgered
BY DEF Ledgered, L!ledgerVars, Worths

LEMMA PocketSteps ==
    ASSUME IInv, IInv', SweepRake \/ \E p \in Players : InitPlayer(p)
    PROVE  Ledgered
<1>1. UNCHANGED <<vault, forfeited, occupant, dealtIn, stack, committed>>
  BY DEF SweepRake, InitPlayer, seatVars, tableVars
<1>2. Appraised /\ Appraised'
  BY WealthParts, PTL
<1>3. \A p \in Players : SumFunctionOnSet(Mine, SeatsOf(p))' = SumFunctionOnSet(Mine, SeatsOf(p))
  <2>1. Mine' = Mine /\ \A p \in Players : SeatsOf(p)' = SeatsOf(p)
    BY <1>1 DEF Mine, SeatsOf
  <2> QED BY <2>1
<1>4. \A p \in Players : Balance(p)' + House(p)' = Balance(p) + House(p)
  <2>1. CASE SweepRake
    <3>1. /\ Treasury \in DOMAIN chips /\ rakeAccrued' = 0
          /\ chips' = [chips EXCEPT ![Treasury] = @ + rakeAccrued]
      BY <2>1 DEF SweepRake, Has
    <3>2. chips[Treasury] \in Nat /\ rakeAccrued \in Nat
      BY <3>1 DEF IInv, TypeOK
    <3>3. chips'[Treasury] = chips[Treasury] + rakeAccrued /\ DOMAIN chips' = DOMAIN chips
          /\ \A p \in DOMAIN chips : p # Treasury => chips'[p] = chips[p]
      BY <3>1
    <3>4. Balance(Treasury)' = Balance(Treasury) + rakeAccrued /\ Balance(Treasury) \in Nat
          /\ \A p \in Players : p # Treasury => Balance(p)' = Balance(p)
      BY <3>1, <3>2, <3>3 DEF Balance, Has
    <3>5. House(Treasury) = rakeAccrued /\ House(Treasury)' = 0
          /\ \A p \in Players : p # Treasury => House(p)' = House(p)
      BY <3>1 DEF House
    <3> QED BY <3>2, <3>4, <3>5
  <2>2. CASE \E p \in Players : InitPlayer(p)
    <3>1. PICK p \in Players : InitPlayer(p)
      BY <2>2
    <3>2. /\ p \notin DOMAIN chips /\ rakeAccrued' = rakeAccrued
          /\ chips' = [q \in DOMAIN chips \cup {p} |-> IF q = p THEN 0 ELSE chips[q]]
      BY <3>1 DEF InitPlayer, Has, tableVars
    <3>3. \A q \in Players : Balance(q)' = Balance(q)
      BY <3>2 DEF Balance, Has
    <3> QED BY <3>2, <3>3 DEF House
  <2> QED BY <2>1, <2>2
<1>5. \A p \in Players : Wealth(p)' = Wealth(p)
  BY <1>2, <1>3, <1>4 DEF Appraised
<1>6. Worths' = Worths
  BY <1>5 DEF Worths
<1> QED BY <1>1, <1>6, Stutter

(* A seat that holds n of p's chips, and its balance, exchange them. *)
LEMMA SeatExchange ==
    ASSUME IInv, IInv', NEW p \in DOMAIN chips, NEW i \in Seats, NEW n \in Int,
           DOMAIN chips' = DOMAIN chips, chips'[p] = chips[p] + n,
           \A q \in DOMAIN chips : q # p => chips'[q] = chips[q],
           Mine'[i] = Mine[i] - n, \A j \in Seats : j # i => Mine'[j] = Mine[j],
           occupant[i] = p \/ Mine[i] = 0, occupant'[i] = p \/ Mine'[i] = 0,
           \A q \in Players : q # p => (occupant[i] = q <=> occupant'[i] = q),
           \A j \in Seats : j # i => occupant'[j] = occupant[j],
           UNCHANGED <<vault, rakeAccrued, forfeited, dealtIn>>, dealtIn = {}
    PROVE  Ledgered
<1>0. p \in Players
  BY DEF IInv, TypeOK
<1>1. Appraised /\ Appraised'
  BY WealthParts, PTL
<1>2. /\ Balance(p)' = Balance(p) + n
      /\ \A q \in Players : q # p => Balance(q)' = Balance(q)
      /\ \A q \in Players : House(q)' = House(q)
  BY DEF Balance, Has, House
<1>3. \A j \in Seats : Mine[j] \in Int /\ Mine'[j] \in Int
  BY <1>1 DEF Appraised
<1> DEFINE mine == SeatsOf(p) \cup {i}
<1>4. IsFiniteSet(mine) /\ mine \subseteq Seats
  BY SeatsFinite DEF SeatsOf
<1>5. SumFunctionOnSet(Mine, SeatsOf(p)) = SumFunctionOnSet(Mine, mine)
  <2>1. CASE i \in SeatsOf(p)
    <3>1. mine = SeatsOf(p)
      BY <2>1
    <3> QED BY <3>1
  <2>2. CASE i \notin SeatsOf(p)
    <3>1. Mine[i] = 0 /\ IsFiniteSet(SeatsOf(p))
      BY <1>0, <1>1, <2>2 DEF SeatsOf, Appraised
    <3>2. \A j \in SeatsOf(p) \cup {i} : Mine[j] \in Int
      BY <1>3 DEF SeatsOf
    <3>3. SumFunctionOnSet(Mine, SeatsOf(p) \cup {i}) = Mine[i] + SumFunctionOnSet(Mine, SeatsOf(p))
      BY <2>2, <3>1, <3>2, SumPutIn
    <3>4. SumFunctionOnSet(Mine, SeatsOf(p)) \in Int
      BY <1>0, <1>1 DEF Appraised
    <3> QED BY <3>1, <3>3, <3>4
  <2> QED BY <2>1, <2>2
<1>6. SumFunctionOnSet(Mine', SeatsOf(p)') = SumFunctionOnSet(Mine', mine)
  <2>1. CASE i \in SeatsOf(p)'
    <3>1. mine = SeatsOf(p)'
      BY <2>1 DEF SeatsOf
    <3> QED BY <3>1
  <2>2. CASE i \notin SeatsOf(p)'
    <3>1. Mine'[i] = 0 /\ IsFiniteSet(SeatsOf(p)') /\ mine = SeatsOf(p)' \cup {i}
      <4>1. IsFiniteSet(SeatsOf(p))'
        BY <1>0, <1>1 DEF Appraised
      <4> QED BY <2>2, <4>1 DEF SeatsOf
    <3>2. \A j \in SeatsOf(p)' \cup {i} : Mine'[j] \in Int
      BY <1>3 DEF SeatsOf
    <3> DEFINE later == SeatsOf(p)'
               worth == Mine'
    <3>3. /\ IsFiniteSet(later) /\ i \notin later /\ worth[i] = 0 /\ mine = later \cup {i}
          /\ \A j \in later \cup {i} : worth[j] \in Int
      BY <2>2, <3>1, <3>2
    <3> HIDE DEF later, worth, mine
    <3>4. SumFunctionOnSet(worth, later \cup {i}) = worth[i] + SumFunctionOnSet(worth, later)
      BY <3>3, SumPutIn
    <3>5. SumFunctionOnSet(worth, later) \in Int
      BY <3>3, SumInt
    <3>6. SumFunctionOnSet(worth, later) = SumFunctionOnSet(worth, mine)
      BY <3>3, <3>4, <3>5
    <3> QED BY <3>6 DEF later, worth
  <2> QED BY <2>1, <2>2
<1>7. SumFunctionOnSet(Mine', mine) = SumFunctionOnSet(Mine, mine) - n
  <2>1. /\ i \in mine /\ Mine'[i] \in Int
        /\ \A j \in mine : Mine[j] \in Int /\ (j # i => Mine'[j] = Mine[j])
    BY <1>3, <1>4
  <2> HIDE DEF mine
  <2>2. SumFunctionOnSet(Mine', mine) = SumFunctionOnSet(Mine, mine) - Mine[i] + Mine'[i]
    BY <1>4, <2>1, SumChange
  <2>3. SumFunctionOnSet(Mine, mine) \in Int
    BY <1>4, <2>1, SumInt
  <2> QED BY <2>1, <2>2, <2>3
<1>8. \A q \in Players : q # p =>
         SumFunctionOnSet(Mine, SeatsOf(q))' = SumFunctionOnSet(Mine, SeatsOf(q))
  <2> SUFFICES ASSUME NEW q \in Players, q # p
               PROVE  SumFunctionOnSet(Mine, SeatsOf(q))' = SumFunctionOnSet(Mine, SeatsOf(q))
    OBVIOUS
  <2>1. SeatsOf(q)' = SeatsOf(q)
    BY DEF SeatsOf
  <2>2. \A j \in SeatsOf(q) : Mine[j] \in Int /\ Mine'[j] = Mine[j]
    BY <1>3 DEF SeatsOf
  <2>3. SumFunctionOnSet(Mine', SeatsOf(q)) = SumFunctionOnSet(Mine, SeatsOf(q))
    <3>1. IsFiniteSet(SeatsOf(q))
      BY <1>1 DEF Appraised
    <3> QED BY <2>2, <3>1, SumSame
  <2> QED BY <2>1, <2>3
<1>9. SumFunctionOnSet(Mine, SeatsOf(p))' = SumFunctionOnSet(Mine, SeatsOf(p)) - n
  BY <1>5, <1>6, <1>7
<1>10. \A q \in Players : Wealth(q)' = Wealth(q)
  <2>1. Wealth(p)' = Wealth(p)
    BY <1>0, <1>1, <1>2, <1>9 DEF Appraised
  <2>2. \A q \in Players : q # p => Wealth(q)' = Wealth(q)
    BY <1>1, <1>2, <1>8 DEF Appraised
  <2> QED BY <2>1, <2>2
<1>11. Worths' = Worths
  BY <1>10 DEF Worths
<1>12. {occupant[j] : j \in dealtIn}' = {occupant[j] : j \in dealtIn}
  OBVIOUS
<1> QED BY <1>11, <1>12, Stutter

LEMMA SeatPocketSteps ==
    ASSUME IInv, IInv', NEW i \in Seats, NEW p \in Players,
           TakeSeat(p, i) \/ VacateOwnSeat(i) \/ VacateSeat(p, i)
    PROVE  Ledgered
<1>1. Waiting /\ dealtIn = {} /\ UNCHANGED <<vault, rakeAccrued, forfeited, dealtIn>>
  BY DEF TakeSeat, VacateOwnSeat, VacateSeat, Empty, IInv, Lifecycle, NeverSplitMidHand, AllOnRollup,
     CoreOnBase
<1>2. committed[i] = 0 /\ stack[i] \in Nat /\ Mine[i] = stack[i]
  BY <1>1 DEF IInv, TypeOK, NothingLeftInTheMiddle, Mine
<1>3. ASSUME NEW m \in Int, stack' = [stack EXCEPT ![i] = m], committed' = [committed EXCEPT ![i] = 0]
      PROVE  Mine'[i] = m /\ \A j \in Seats : j # i => Mine'[j] = Mine[j]
  BY <1>3 DEF IInv, TypeOK, Mine
<1>4. CASE TakeSeat(p, i)
  <2>1. PICK buyIn \in MinBuyIn .. MaxBuyIn :
          /\ chips' = [chips EXCEPT ![p] = @ - buyIn] /\ stack' = [stack EXCEPT ![i] = buyIn]
    BY <1>4 DEF TakeSeat
  <2>2. /\ p \in DOMAIN chips /\ committed' = [committed EXCEPT ![i] = 0]
        /\ occupant' = [occupant EXCEPT ![i] = p]
        /\ CoreOnBase /\ SeatOnBase(i) /\ seatMap[i] = Nobody
    BY <1>4 DEF TakeSeat, Has
  <2>3. occupant[i] = Nobody /\ stack[i] = 0
    BY <2>2 DEF IInv, TypeOK, SeatMapAgrees, CoreOnBase, SeatOnBase
  <2>4. buyIn \in Int /\ 0 - buyIn \in Int /\ chips[p] \in Int
    BY <2>2 DEF IInv, TypeOK
  <2>5. Mine'[i] = buyIn /\ \A j \in Seats : j # i => Mine'[j] = Mine[j]
    BY <1>3, <2>1, <2>2, <2>4
  <2>6. /\ DOMAIN chips' = DOMAIN chips /\ chips'[p] = chips[p] + (0 - buyIn)
        /\ \A q \in DOMAIN chips : q # p => chips'[q] = chips[q]
    BY <2>1, <2>2, <2>4
  <2>7. Mine[i] = 0 /\ Mine'[i] = Mine[i] - (0 - buyIn)
    BY <1>2, <2>3, <2>4, <2>5
  <2>8. /\ occupant'[i] = p /\ \A j \in Seats : j # i => occupant'[j] = occupant[j]
        /\ \A q \in Players : q # p => (occupant[i] = q <=> occupant'[i] = q)
    BY <2>2, <2>3 DEF IInv, TypeOK
  <2>9. p \in DOMAIN chips
    BY <2>2
  <2> QED BY <1>1, <2>4, <2>5, <2>6, <2>7, <2>8, <2>9, SeatExchange
<1>5. ASSUME Empty(i, stack[i]), occupant[i] # Nobody PROVE Ledgered
  <2> DEFINE q == occupant[i]
  <2>1. /\ chips' = [chips EXCEPT ![q] = @ + stack[i]] /\ stack' = [stack EXCEPT ![i] = 0]
        /\ committed' = [committed EXCEPT ![i] = 0] /\ occupant' = [occupant EXCEPT ![i] = Nobody]
    BY <1>5 DEF Empty, Credited
  <2>2. q \in DOMAIN chips
    BY <1>5 DEF Empty, Has
  <2>3. stack[i] \in Int /\ chips[q] \in Int
    BY <1>2, <2>2 DEF IInv, TypeOK
  <2>4. Mine'[i] = 0 /\ \A j \in Seats : j # i => Mine'[j] = Mine[j]
    <3>1. 0 \in Int
      OBVIOUS
    <3> QED BY <1>3, <2>1, <3>1
  <2>5. /\ DOMAIN chips' = DOMAIN chips /\ chips'[q] = chips[q] + stack[i]
        /\ \A r \in DOMAIN chips : r # q => chips'[r] = chips[r]
    BY <2>1, <2>2
  <2>6. Mine'[i] = Mine[i] - stack[i]
    BY <1>2, <2>3, <2>4
  <2>7. /\ \A j \in Seats : j # i => occupant'[j] = occupant[j]
        /\ \A r \in Players : r # q => (occupant[i] = r <=> occupant'[i] = r)
    BY <2>1 DEF IInv, TypeOK
  <2>8. occupant[i] = q
    OBVIOUS
  <2> HIDE DEF q
  <2> QED BY <1>1, <2>2, <2>3, <2>4, <2>5, <2>6, <2>7, <2>8, SeatExchange
<1>6. CASE VacateOwnSeat(i)
  BY <1>5, <1>6 DEF VacateOwnSeat
<1>7. CASE VacateSeat(p, i)
  <2>1. stack[i] + committed[i] = stack[i]
    BY <1>2
  <2> QED BY <1>5, <1>7, <2>1 DEF VacateSeat
<1> QED BY <1>4, <1>6, <1>7

LEMMA QuietSteps ==
    ASSUME IInv, IInv',
           \/ CreateTable \/ DelegateCore \/ UndelegateCore \/ LandCore \/ Tick \/ UNCHANGED vars
           \/ \E p \in Players : CloseTable(p)
           \/ \E i \in Seats : \/ CreateSeat(i) \/ DelegateSeat(i) \/ UndelegateSeat(i)
                               \/ LandSeat(i) \/ Bet(i)
    PROVE  Ledgered
<1>1. ASSUME UNCHANGED <<vault, chips, forfeited, rakeAccrued, occupant, dealtIn, Mine>>
      PROVE  Ledgered
  <2>1. Worths' = Worths
    BY <1>1, WorthsSame
  <2>2. {occupant[j] : j \in dealtIn}' = {occupant[j] : j \in dealtIn}
    BY <1>1
  <2> QED BY <1>1, <2>1, <2>2, Stutter
<1>2. CASE \/ DelegateCore \/ UndelegateCore \/ LandCore \/ Tick \/ UNCHANGED vars
           \/ \E i \in Seats : DelegateSeat(i) \/ UndelegateSeat(i) \/ LandSeat(i)
  <2>1. UNCHANGED <<vault, chips, forfeited, rakeAccrued, occupant, dealtIn, stack, committed>>
    BY <1>2 DEF DelegateCore, UndelegateCore, LandCore, DelegateSeat, UndelegateSeat, LandSeat, Tick,
       vars, moneyVars, tableVars, seatVars
  <2> QED BY <1>1, <2>1 DEF Mine
<1>3. CASE CreateTable
  <2>1. ~tableExists /\ rakeAccrued' = 0 /\ dealtIn' = {}
        /\ UNCHANGED <<vault, chips, forfeited, occupant, stack, committed>>
    BY <1>3 DEF CreateTable, moneyVars, seatVars
  <2>2. rakeAccrued = 0 /\ dealtIn = {}
    BY <2>1 DEF IInv, Lifecycle, NeverSplitMidHand
  <2> QED BY <1>1, <2>1, <2>2 DEF Mine
<1>4. ASSUME NEW i \in Seats, CreateSeat(i) PROVE Ledgered
  <2>1. UNCHANGED <<vault, chips, forfeited, rakeAccrued, occupant, dealtIn, stack, committed>>
    BY <1>4 DEF CreateSeat, moneyVars, tableVars, IInv, TypeOK, Lifecycle
  <2> QED BY <1>1, <2>1 DEF Mine
<1>5. ASSUME NEW p \in Players, CloseTable(p) PROVE Ledgered
  <2>1. /\ CoreOnBase /\ Emptied /\ rakeAccrued' = 0 /\ occupant' = [i \in Seats |-> Nobody]
        /\ stack' = [i \in Seats |-> 0] /\ committed' = [i \in Seats |-> 0]
        /\ UNCHANGED <<vault, chips, forfeited, dealtIn>>
    BY <1>5 DEF CloseTable, moneyVars
  <2>2. \A i \in Seats : occupant[i] = Nobody /\ stack[i] = 0 /\ committed[i] = 0
    BY <2>1 DEF CoreOnBase, Emptied, IInv, Lifecycle, SeatMapAgrees
  <2>3. occupant' = occupant /\ stack' = stack /\ committed' = committed /\ rakeAccrued' = rakeAccrued
    BY <2>1, <2>2 DEF Emptied, IInv, TypeOK
  <2> QED BY <1>1, <2>1, <2>3 DEF Mine
<1>6. ASSUME NEW i \in Seats, Bet(i) PROVE Ledgered
  <2>1. /\ stack' = [stack EXCEPT ![i] = @ - 1] /\ committed' = [committed EXCEPT ![i] = @ + 1]
        /\ UNCHANGED <<vault, chips, forfeited, rakeAccrued, occupant, dealtIn>>
    BY <1>6 DEF Bet, moneyVars
  <2>2. \A j \in Seats : stack'[j] + committed'[j] = stack[j] + committed[j]
    BY <2>1 DEF IInv, TypeOK
  <2>3. Mine' = Mine
    BY <2>2 DEF Mine
  <2> QED BY <1>1, <2>1, <2>3
<1> QED BY <1>2, <1>3, <1>4, <1>5, <1>6

LEMMA LedgerStart == Init => L!LedgerInit
<1> SUFFICES ASSUME Init PROVE L!LedgerInit
  OBVIOUS
<1>1. Appraised
  BY InitInv, WealthParts
<1>2. ASSUME NEW p \in Players PROVE Wealth(p) = 0
  <2>1. Balance(p) = 0 /\ House(p) = 0
    BY DEF Init, Balance, House, Has
  <2>2. \A i \in SeatsOf(p) : Mine[i] = 0
    BY DEF Init, Mine, SeatsOf
  <2>3. SumFunctionOnSet(Mine, SeatsOf(p)) = 0
    BY <1>1, <2>2, SumZero DEF Appraised
  <2> QED BY <1>1, <2>1, <2>3 DEF Appraised
<1>3. [p \in Players |-> Wealth(p)] = [p \in Players |-> 0]
  BY <1>2
<1>4. {occupant[i] : i \in dealtIn} = {} /\ forfeited = 0 /\ vault = 0
  BY DEF Init
<1> QED BY <1>3, <1>4 DEF L!LedgerInit

LEMMA LedgerStep ==
    IInv /\ IInv' /\ Solvent /\ Solvent' /\ [Next]_vars => [L!LedgerNext]_(L!ledgerVars)
<1> SUFFICES ASSUME IInv, IInv', Solvent, Solvent', [Next]_vars PROVE Ledgered
  BY DEF Ledgered
<1>1. CASE SweepRake \/ \E p \in Players : InitPlayer(p)
  BY <1>1, PocketSteps
<1>2. ASSUME NEW p \in Players, BuyChips(p) PROVE Ledgered
  <2>1. PICK n \in 1 .. usdc[p] : vault' = vault + n /\ chips' = [chips EXCEPT ![p] = @ + n]
    BY <1>2 DEF BuyChips
  <2>2. p \in DOMAIN chips
        /\ UNCHANGED <<forfeited, rakeAccrued, occupant, stack, committed, dealtIn>>
    BY <1>2 DEF BuyChips, Has, tableVars, seatVars
  <2>3. n \in Int /\ n # 0 /\ vault' = vault + n
    BY <2>1
  <2>4. /\ DOMAIN chips' = DOMAIN chips /\ chips'[p] = chips[p] + n
        /\ \A q \in DOMAIN chips : q # p => chips'[q] = chips[q]
    BY <2>1, <2>2
  <2> QED BY <2>2, <2>3, <2>4, TradeStep
<1>3. ASSUME NEW p \in Players, SellChips(p) PROVE Ledgered
  <2>1. PICK k \in 1 .. chips[p] : vault' = vault - k /\ chips' = [chips EXCEPT ![p] = @ - k]
    BY <1>3 DEF SellChips
  <2>2. p \in DOMAIN chips
        /\ UNCHANGED <<forfeited, rakeAccrued, occupant, stack, committed, dealtIn>>
    BY <1>3 DEF SellChips, Has, tableVars, seatVars
  <2> DEFINE n == 0 - k
  <2>3. n \in Int /\ n # 0 /\ vault' = vault + n
    BY <2>1 DEF IInv, TypeOK
  <2>4. /\ DOMAIN chips' = DOMAIN chips /\ chips'[p] = chips[p] + n
        /\ \A q \in DOMAIN chips : q # p => chips'[q] = chips[q]
    BY <2>1, <2>2 DEF IInv, TypeOK
  <2> HIDE DEF n
  <2> QED BY <2>2, <2>3, <2>4, TradeStep
<1>4. CASE \E i \in Seats : VacateOwnSeat(i) \/ \E p \in Players : TakeSeat(p, i) \/ VacateSeat(p, i)
  <2>1. Treasury \in Players
    OBVIOUS
  <2> QED BY <1>4, <2>1, SeatPocketSteps
<1>5. CASE StartHand
  BY <1>5, DealStep
<1>6. CASE SettleHand \/ AbandonHand
  BY <1>6, CloseStep
<1>7. CASE \/ CreateTable \/ DelegateCore \/ UndelegateCore \/ LandCore \/ Tick \/ UNCHANGED vars
           \/ \E p \in Players : CloseTable(p)
           \/ \E i \in Seats : \/ CreateSeat(i) \/ DelegateSeat(i) \/ UndelegateSeat(i)
                               \/ LandSeat(i) \/ Bet(i)
  BY <1>7, QuietSteps
<1> QED BY <1>1, <1>2, <1>3, <1>4, <1>5, <1>6, <1>7 DEF Next

(* Custody implements Ledger: whatever the accounts and the layers do, a   *)
(* player's wealth changes only by buying, selling or a hand it plays.     *)
THEOREM LedgerImplemented == Spec => ImplementsLedger
<1>1. Init => L!LedgerInit /\ IInv /\ Solvent
  BY LedgerStart, InitInv, InitSolvent
<1>2. (IInv /\ Solvent) /\ [Next]_vars => (IInv /\ Solvent)'
  BY StepInv, StepSolvent
<1>3. IInv /\ IInv' /\ Solvent /\ Solvent' /\ [Next]_vars => [L!LedgerNext]_(L!ledgerVars)
  BY LedgerStep
<1> QED BY <1>1, <1>2, <1>3, PTL DEF Spec, ImplementsLedger, L!LedgerSpec

-----------------------------------------------------------------------------
(* Whatever the players press, in whatever order their transactions are    *)
(* sent, fail or land, a client only ever moves the accounts the way the   *)
(* program lets it: Errands makes Custody's steps, and what is proved of   *)
(* Custody holds of a table run from browsers.                             *)

USE ErrandAssumption

(* The seats an errand goes through are seats.                             *)
Buttons == {"none", "start", "pause", "cashOut", "rebuy", "delete"}
Places == {"idle", "core", "look", "delegating", "failing", "undoing", "deck", "secure",
           "release", "clear", "read", "unseat", "landing", "sweep", "sitOut", "handEnd",
           "leave", "sweepHome", "sit", "clearing", "closing"}
Rows == [goal : Buttons, step : Places, todo : SUBSET Seats, moved : SUBSET Seats,
         leaving : Seats \cup {NoSeat}]
RowsOK == row \in [Clients -> Rows]

(* An errand takes the seats in order, and finds the first of them.        *)
LEMMA LeastIn ==
    ASSUME NEW S \in SUBSET Seats, S # {}
    PROVE  Least(S) \in S
<1>1. S \in SUBSET Nat
  BY DEF Seats
<1>2. \E m \in S : \A k \in S : m <= k
  BY <1>1, LeastNat
<1> QED BY <1>2 DEF Least

LEMMA RowFields ==
    ASSUME RowsOK, NEW p \in Clients
    PROVE  /\ row[p] \in Rows
           /\ row[p].todo \in SUBSET Seats /\ row[p].moved \in SUBSET Seats
           /\ row[p].leaving \in Seats \cup {NoSeat}
           /\ row[p].todo # {} => Least(row[p].todo) \in Seats
<1>1. row[p] \in Rows
  BY DEF RowsOK
<1>2. row[p].todo \in SUBSET Seats
  BY <1>1 DEF Rows
<1> QED BY <1>1, <1>2, LeastIn DEF Rows

LEMMA BecomesOK ==
    ASSUME RowsOK, NEW p \in Clients, NEW r \in Rows, Becomes(p, r)
    PROVE  RowsOK'
BY DEF RowsOK, Becomes

LEMMA WalksOK ==
    ASSUME RowsOK, NEW p \in Clients
    PROVE  /\ \A step \in Places : To(p, step) => RowsOK'
           /\ \A step \in Places, S \in SUBSET Seats : Loop(p, step, S) => RowsOK'
           /\ End(p) => RowsOK'
<1>1. ASSUME NEW step \in Places, To(p, step) PROVE RowsOK'
  <2>1. [row[p] EXCEPT !.step = step] \in Rows
    BY RowFields DEF Rows
  <2> QED BY <1>1, <2>1, BecomesOK DEF To
<1>2. ASSUME NEW step \in Places, NEW S \in SUBSET Seats, Loop(p, step, S) PROVE RowsOK'
  <2>1. [row[p] EXCEPT !.step = step, !.todo = S] \in Rows
    BY RowFields DEF Rows
  <2> QED BY <1>2, <2>1, BecomesOK DEF Loop
<1>3. ASSUME End(p) PROVE RowsOK'
  <2>1. Resting \in Rows
    BY DEF Resting, Rows, Buttons, Places
  <2> QED BY <1>3, <2>1, BecomesOK DEF End
<1> QED BY <1>1, <1>2, <1>3

LEMMA RowWith ==
    ASSUME NEW r \in Rows, NEW T \in SUBSET Seats, NEW M \in SUBSET Seats, NEW step \in Places
    PROVE  [r EXCEPT !.todo = T, !.moved = M, !.step = step] \in Rows
BY DEF Rows

(* The steps of starting the table, pausing it, leaving and deleting keep  *)
(* to seats.                                                               *)
LEMMA StartRows ==
    ASSUME RowsOK, NEW p \in Clients,
           \/ StartCore(p) \/ StartLook(p) \/ StartWait(p) \/ UndoSeat(p) \/ UndoCore(p)
           \/ SecureDeck(p) \/ SecureSeat(p) \/ \E i \in Seats : StartSeat(p, i)
    PROVE  RowsOK'
<1> USE RowFields, WalksOK DEF Places
<1>1. CASE StartCore(p)
  BY <1>1 DEF StartCore
<1>2. CASE StartLook(p)
  <2>1. {i \in Seats : SeatOnBase(i)} \in SUBSET Seats
    OBVIOUS
  <2> QED BY <1>2, <2>1 DEF StartLook
<1>3. CASE StartWait(p)
  <2>1. CASE Loop(p, "undoing", row[p].moved)
    BY <2>1
  <2> QED BY <1>3, <2>1 DEF StartWait
<1>4. CASE UndoSeat(p)
  <2>1. row[p].todo \ {Least(row[p].todo)} \in SUBSET Seats
    OBVIOUS
  <2> QED BY <1>4, <2>1 DEF UndoSeat
<1>5. CASE UndoCore(p)
  BY <1>5 DEF UndoCore
<1>6. CASE SecureDeck(p)
  <2>1. /\ Seated \in SUBSET Seats /\ Funded \ {row[p].leaving} \in SUBSET Seats
    BY DEF Seated, Funded
  <2> QED BY <1>6, <2>1 DEF SecureDeck
<1>7. CASE SecureSeat(p)
  <2>1. row[p].todo \ {Least(row[p].todo)} \in SUBSET Seats
    OBVIOUS
  <2> QED BY <1>7, <2>1 DEF SecureSeat
<1>8. CASE \E i \in Seats : StartSeat(p, i)
  <2>1. PICK i \in Seats, moved \in SUBSET Seats, step \in Places :
          Becomes(p, [row[p] EXCEPT !.todo = @ \ {i}, !.moved = moved, !.step = step])
    <3>1. PICK i \in Seats : StartSeat(p, i)
      BY <1>8
    <3>2. /\ row[p].moved \in SUBSET Seats /\ row[p].moved \cup {i} \in SUBSET Seats
          /\ row[p].step \in Places
      BY DEF Rows
    <3>3. PICK answer :
            Becomes(p, [row[p] EXCEPT !.todo = @ \ {i},
                                      !.moved = IF WentUp(answer, i) THEN @ \cup {i} ELSE @,
                                      !.step = IF WentUp(answer, i) THEN @ ELSE "failing"])
      BY <3>1 DEF StartSeat
    <3>4. CASE WentUp(answer, i)
      <4>1. Becomes(p, [row[p] EXCEPT !.todo = @ \ {i}, !.moved = row[p].moved \cup {i},
                                      !.step = row[p].step])
        BY <3>3, <3>4
      <4> QED BY <3>2, <4>1
    <3>5. CASE ~WentUp(answer, i)
      <4>1. Becomes(p, [row[p] EXCEPT !.todo = @ \ {i}, !.moved = row[p].moved,
                                      !.step = "failing"])
        BY <3>3, <3>5
      <4>2. "failing" \in Places
        BY DEF Places
      <4> QED BY <3>2, <4>1, <4>2
    <3> QED BY <3>4, <3>5
  <2>2. [row[p] EXCEPT !.todo = @ \ {i}, !.moved = moved, !.step = step] \in Rows
    <3>1. PICK T \in SUBSET Seats : T = row[p].todo \ {i}
      BY DEF Rows
    <3>2. [row[p] EXCEPT !.todo = T, !.moved = moved, !.step = step] \in Rows
      BY ONLY <2>1, row[p] \in Rows, RowWith
    <3> QED BY ONLY <3>1, <3>2
  <2> QED BY <2>1, <2>2, BecomesOK
<1> QED BY <1>1, <1>2, <1>3, <1>4, <1>5, <1>6, <1>7, <1>8

LEMMA PauseRows ==
    ASSUME RowsOK, NEW p \in Clients,
           \/ PauseRelease(p) \/ PauseClear(p) \/ PauseLook(p) \/ PauseSeat(p) \/ PauseCore(p)
           \/ PauseLanding(p) \/ PauseSweep(p) \/ SitOut(p) \/ AwaitHand(p)
    PROVE  RowsOK'
<1> USE RowFields, WalksOK DEF Places
<1>1. PauseOver(p) => RowsOK'
  BY DEF PauseOver
<1>2. CASE PauseRelease(p) \/ PauseClear(p)
  BY <1>1, <1>2 DEF PauseRelease, Release, PauseClear
<1>3. CASE SitOut(p) \/ AwaitHand(p)
  BY <1>3 DEF SitOut, Release, AwaitHand
<1>4. CASE PauseLook(p)
  <2>1. {i \in Seats : seatLayer[i] # "base"} \in SUBSET Seats
    OBVIOUS
  <2> QED BY <1>1, <1>4, <2>1 DEF PauseLook
<1>5. CASE PauseSeat(p)
  <2>1. row[p].todo \ {Least(row[p].todo)} \in SUBSET Seats
    OBVIOUS
  <2> QED BY <1>5, <2>1 DEF PauseSeat
<1>6. CASE PauseCore(p) \/ PauseLanding(p) \/ PauseSweep(p)
  BY <1>1, <1>6 DEF PauseCore, PauseLanding, PauseSweep
<1> QED BY <1>2, <1>3, <1>4, <1>5, <1>6

LEMMA LeaveRows ==
    ASSUME RowsOK, NEW p \in Clients,
           \/ Leave(p) \/ SweepHome(p) \/ SitBack(p) \/ ClearSeat(p) \/ DeleteSweep(p)
           \/ DeleteClose(p)
    PROVE  RowsOK'
<1> USE RowFields, WalksOK DEF Places
<1>1. ASSUME NEW playing, NEW r \in Rows, Resume(p, playing, r)
      PROVE  RowsOK'
  <2>1. [r EXCEPT !.step = "core"] \in Rows
    BY DEF Rows
  <2> QED BY <1>1, <2>1, BecomesOK DEF Resume
<1>2. CASE Leave(p)
  BY <1>2 DEF Leave
<1>3. CASE SweepHome(p)
  BY <1>1, <1>3 DEF SweepHome
<1>4. CASE SitBack(p)
  <2>1. [row[p] EXCEPT !.leaving = NoSeat] \in Rows
    BY DEF Rows
  <2> QED BY <1>1, <1>4, <2>1 DEF SitBack
<1>5. CASE ClearSeat(p)
  <2>1. row[p].todo \ {Least(row[p].todo)} \in SUBSET Seats
    OBVIOUS
  <2> QED BY <1>5, <2>1 DEF ClearSeat
<1>6. CASE DeleteSweep(p) \/ DeleteClose(p)
  BY <1>6 DEF DeleteSweep, DeleteClose
<1> QED BY <1>2, <1>3, <1>4, <1>5, <1>6

LEMMA PressRows ==
    ASSUME RowsOK, NEW p \in Clients,
           \/ PressStart(p) \/ PressPause(p) \/ PressToLeave(p, "cashOut")
           \/ PressToLeave(p, "rebuy") \/ PressDelete(p)
    PROVE  RowsOK'
<1>1. Seated \in SUBSET Seats /\ SeatAt(p) \in Seats \cup {NoSeat}
  BY DEF Seated, SeatAt, SeatOf
<1>2. ASSUME NEW button \in Buttons, NEW first \in Places, Press(p, button, first)
      PROVE  RowsOK'
  <2>1. PICK todo \in SUBSET Seats, leaving \in Seats \cup {NoSeat} :
            row' = [row EXCEPT ![p] = [goal |-> button, step |-> first, todo |-> todo,
                                       moved |-> {}, leaving |-> leaving]]
    BY <1>1, <1>2 DEF Press
  <2>2. [goal |-> button, step |-> first, todo |-> todo, moved |-> {}, leaving |-> leaving]
            \in Rows
    BY DEF Rows
  <2> QED BY <2>1, <2>2 DEF RowsOK
<1> QED BY <1>2 DEF PressStart, PressPause, PressToLeave, PressDelete, Buttons, Places

LEMMA RowsStep == RowsOK /\ [ErrandNext]_errandVars => RowsOK'
<1> SUFFICES ASSUME RowsOK, [ErrandNext]_errandVars PROVE RowsOK'
  OBVIOUS
<1>1. UNCHANGED row => RowsOK'
  BY DEF RowsOK
<1>2. CASE \/ CrankSalts \/ CrankRequest \/ CrankReset \/ CrankDeal \/ CrankSettle
           \/ OracleAnswers \/ DeadlinePasses \/ Lands \/ LateCore
           \/ \E i \in Seats : CrankSecure(i) \/ LateLanding(i)
  BY <1>1, <1>2 DEF CrankSalts, CrankRequest, CrankReset, CrankDeal, CrankSettle, OracleAnswers,
     DeadlinePasses, Lands, LateCore, CrankSecure, LateLanding, Crank
<1>3. ASSUME NEW p \in Clients, GoesOn(p) PROVE RowsOK'
  BY <1>3, StartRows, PauseRows, LeaveRows DEF GoesOn
<1>4. CASE UNCHANGED errandVars
  BY <1>1, <1>4 DEF errandVars
<1> QED BY <1>2, <1>3, <1>4, PressRows DEF ErrandNext

-----------------------------------------------------------------------------
(* What each step does to the accounts.                                    *)

Calls ==
    \/ SweepRake \/ DelegateCore \/ LandCore \/ StartHand \/ SettleHand
    \/ CoreMayLeave /\ UndelegateCore
    \/ \E p \in Players : CloseTable(p)
    \/ \E i \in Seats :
           \/ VacateOwnSeat(i) \/ DelegateSeat(i) \/ UndelegateSeat(i) \/ LandSeat(i)
           \/ \E p \in Players : TakeSeat(p, i) \/ VacateSeat(p, i)

LEMMA TryMoves ==
    ASSUME NEW i \in Seats, TryUndelegate(i) \/ TrySweep
    PROVE  [Calls]_vars
BY DEF TryUndelegate, TrySweep, Attempt, Calls

LEMMA StartMoves ==
    ASSUME RowsOK, NEW p \in Clients,
           \/ StartCore(p) \/ StartLook(p) \/ StartWait(p) \/ UndoSeat(p) \/ UndoCore(p)
           \/ SecureDeck(p) \/ SecureSeat(p) \/ \E i \in Seats : StartSeat(p, i)
    PROVE  [Calls]_vars
<1>1. CASE StartCore(p)
  BY <1>1 DEF StartCore, Calls
<1>2. CASE StartLook(p) \/ StartWait(p) \/ SecureDeck(p) \/ SecureSeat(p)
  BY <1>2 DEF StartLook, StartWait, SecureDeck, SecureSeat
<1>3. CASE UndoCore(p)
  BY <1>3 DEF UndoCore, Attempt, Calls
<1>4. CASE UndoSeat(p)
  BY <1>4, RowFields, TryMoves DEF UndoSeat
<1>5. CASE \E i \in Seats : StartSeat(p, i)
  BY <1>5 DEF StartSeat, Calls
<1> QED BY <1>1, <1>2, <1>3, <1>4, <1>5

LEMMA PauseMoves ==
    ASSUME RowsOK, NEW p \in Clients,
           \/ PauseRelease(p) \/ PauseClear(p) \/ PauseLook(p) \/ PauseSeat(p) \/ PauseCore(p)
           \/ PauseLanding(p) \/ PauseSweep(p) \/ SitOut(p) \/ AwaitHand(p)
    PROVE  [Calls]_vars
<1>1. CASE \/ PauseRelease(p) \/ PauseClear(p) \/ PauseLook(p) \/ PauseLanding(p)
           \/ SitOut(p) \/ AwaitHand(p)
  BY <1>1 DEF PauseRelease, Release, PauseClear, PauseLook, PauseLanding, SitOut, AwaitHand
<1>2. CASE PauseSeat(p)
  BY <1>2, RowFields, TryMoves DEF PauseSeat
<1>3. CASE PauseCore(p)
  BY <1>3 DEF PauseCore, Calls
<1>4. CASE PauseSweep(p)
  BY <1>4 DEF PauseSweep, TrySweep, Attempt, Calls
<1> QED BY <1>1, <1>2, <1>3, <1>4

LEMMA LeaveMoves ==
    ASSUME RowsOK, NEW p \in Clients,
           \/ Leave(p) \/ SweepHome(p) \/ SitBack(p) \/ ClearSeat(p) \/ DeleteSweep(p)
           \/ DeleteClose(p)
    PROVE  [Calls]_vars
<1>1. p \in Players
  OBVIOUS
<1>2. CASE Leave(p)
  BY <1>2 DEF Leave, MayStandUp, Calls
<1>3. CASE SweepHome(p) \/ DeleteSweep(p)
  BY <1>3 DEF SweepHome, DeleteSweep, TrySweep, Attempt, Calls
<1>4. CASE SitBack(p)
  BY <1>1, <1>4 DEF SitBack, MaySit, Calls
<1>5. CASE ClearSeat(p)
  BY <1>1, <1>5, RowFields DEF ClearSeat, Calls
<1>6. CASE DeleteClose(p)
  BY <1>1, <1>6 DEF DeleteClose, Attempt, Calls
<1> QED BY <1>2, <1>3, <1>4, <1>5, <1>6

LEMMA CrankMoves ==
    ASSUME \/ CrankSalts \/ CrankRequest \/ CrankReset \/ CrankDeal \/ CrankSettle
           \/ OracleAnswers \/ DeadlinePasses \/ Lands \/ LateCore
           \/ \E i \in Seats : CrankSecure(i) \/ LateLanding(i)
    PROVE  [Calls]_vars
<1>1. CASE \/ CrankSalts \/ CrankRequest \/ CrankReset \/ OracleAnswers \/ DeadlinePasses
           \/ \E i \in Seats : CrankSecure(i)
  BY <1>1 DEF CrankSalts, CrankRequest, CrankReset, OracleAnswers, DeadlinePasses, CrankSecure
<1>2. CASE CrankDeal \/ CrankSettle \/ Lands
  BY <1>2 DEF CrankDeal, CrankSettle, Lands, Calls
<1>3. CASE LateCore \/ \E i \in Seats : LateLanding(i)
  BY <1>3 DEF LateCore, LateLanding, Calls
<1> QED BY <1>1, <1>2, <1>3

(* A press, a retry, a failed send, an account that lands after it was     *)
(* given up: the accounts move as the program moves them or not at all.    *)
LEMMA StepCalls == RowsOK /\ [ErrandNext]_errandVars => [Calls]_vars
<1> SUFFICES ASSUME RowsOK, [ErrandNext]_errandVars PROVE [Calls]_vars
  OBVIOUS
<1>1. ASSUME NEW p \in Clients,
             \/ PressStart(p) \/ PressPause(p) \/ PressToLeave(p, "cashOut")
             \/ PressToLeave(p, "rebuy") \/ PressDelete(p)
      PROVE  [Calls]_vars
  BY <1>1 DEF PressStart, PressPause, PressToLeave, PressDelete, Press
<1>2. ASSUME NEW p \in Clients, GoesOn(p) PROVE [Calls]_vars
  BY <1>2, StartMoves, PauseMoves, LeaveMoves DEF GoesOn
<1>3. CASE UNCHANGED errandVars
  BY <1>3 DEF errandVars
<1> QED BY <1>1, <1>2, <1>3, CrankMoves DEF ErrandNext

LEMMA StepMoves == RowsOK /\ [ErrandNext]_errandVars => [Next]_vars
BY StepCalls DEF Calls, Next

LEMMA ErrandInitInv == ErrandInit => RowsOK /\ IInv
<1> SUFFICES ASSUME ErrandInit PROVE RowsOK /\ IInv
  OBVIOUS
<1>1. RowsOK
  <2>1. Resting \in Rows
    BY DEF Resting, Rows, Buttons, Places
  <2> QED BY <2>1 DEF ErrandInit, RowsOK
<1> DEFINE Apart(f) == \A i, j \in Seats : f[i] = f[j] => i = j
<1>2. /\ seatMap \in [Seats -> Players] /\ Apart(seatMap)
      /\ occupant = seatMap
  <2>1. \E f \in [Seats -> Players] : Apart(f)
    BY ErrandAssumption
  <2>2. /\ seatMap = CHOOSE f \in [Seats -> Players] : Apart(f)
        /\ occupant = seatMap
    BY DEF ErrandInit
  <2> HIDE DEF Apart
  <2> QED BY <2>1, <2>2
<1>3. \A i \in Seats : seatMap[i] \in Players /\ seatMap[i] # Nobody
  BY <1>2, CustodyAssumption
<1>4. TypeOK
  <2>1. MaxSeats * Wallet + 1 \in Nat
    BY SeatsAssumption, CustodyAssumption
  <2>2. /\ usdc \in [Players -> Nat] /\ vault \in Nat
        /\ DOMAIN chips \subseteq Players /\ \A p \in DOMAIN chips : chips[p] \in Nat
    BY <2>1 DEF ErrandInit
  <2>3. /\ seatMap \in [Seats -> Players \cup {Nobody}]
        /\ occupant \in [Seats -> Players \cup {Nobody}]
    <3> HIDE DEF Apart
    <3> QED BY <1>2
  <2>4. /\ tableExists \in BOOLEAN
        /\ tableState \in {"Waiting", "HandInProgress"} /\ handNumber \in 0 .. MaxHands
        /\ rakeAccrued \in Nat /\ dealtIn \subseteq Seats
        /\ emptySince \in {"no", "recent", "hour"} /\ stale \in BOOLEAN
    <3>1. /\ tableExists = TRUE /\ tableState = "Waiting" /\ handNumber = 0 /\ rakeAccrued = 1
          /\ dealtIn = {} /\ emptySince = "no" /\ stale = FALSE
      BY DEF ErrandInit
    <3>2. tableExists \in BOOLEAN /\ stale \in BOOLEAN
      BY <3>1, Zenon
    <3>3. handNumber \in 0 .. MaxHands /\ rakeAccrued \in Nat
      BY <3>1, CustodyAssumption
    <3> QED BY <3>1, <3>2, <3>3, Zenon
  <2>5. /\ seatExists \in [Seats -> BOOLEAN]
        /\ stack \in [Seats -> Nat] /\ committed \in [Seats -> Nat]
    <3>1. /\ seatExists = [i \in Seats |-> TRUE] /\ stack = [i \in Seats |-> Wallet]
          /\ committed = [i \in Seats |-> 0]
      BY DEF ErrandInit
    <3> QED BY <3>1, CustodyAssumption
  <2>6. coreLayer \in Layers /\ seatLayer \in [Seats -> Layers] /\ trips \in 0 .. MaxTrips
    <3>1. coreLayer = "base" /\ seatLayer = [i \in Seats |-> "base"] /\ trips = 0
      BY DEF ErrandInit
    <3> QED BY <3>1, CustodyAssumption DEF Layers
  <2>7. forfeited \in Nat
    BY DEF ErrandInit
  <2> QED BY <2>2, <2>3, <2>4, <2>5, <2>6, <2>7 DEF TypeOK
<1>5. Lifecycle /\ SeatMapAgrees /\ OneSeatEach /\ NeverSplitMidHand /\ NothingLeftInTheMiddle
  BY <1>2, <1>3 DEF ErrandInit, Lifecycle, SeatMapAgrees, OneSeatEach, NeverSplitMidHand,
     NothingLeftInTheMiddle, Waiting
<1> QED BY <1>1, <1>4, <1>5 DEF IInv

THEOREM ErrandInvariant == ErrandSpec => [](RowsOK /\ IInv)
<1>1. RowsOK /\ IInv /\ [ErrandNext]_errandVars => (RowsOK /\ IInv)'
  BY RowsStep, StepMoves, StepInv
<1> QED BY ErrandInitInv, <1>1, PTL DEF ErrandSpec

(* Whoever starts, pauses, cashes out or deletes, at once, with sends lost *)
(* and accounts landing late: no hand ever runs on a table that is split   *)
(* across the layers (delegation.rs:236), however split it may be between  *)
(* hands.                                                                  *)
THEOREM ErrandsNeverSplitMidHand == ErrandSpec => []NeverSplitMidHand
<1>1. RowsOK /\ IInv => NeverSplitMidHand
  BY DEF IInv
<1> QED BY ErrandInvariant, <1>1, PTL

(* Nor does any such row of transactions leave the table's map and its     *)
(* seats with different players.                                           *)
THEOREM ErrandsSeatMap == ErrandSpec => []SeatMapAgrees
<1>1. RowsOK /\ IInv => SeatMapAgrees
  BY DEF IInv
<1> QED BY ErrandInvariant, <1>1, PTL

LEMMA ErrandInitSolvent == ErrandInit => Solvent
<1> SUFFICES ASSUME ErrandInit PROVE Solvent
  OBVIOUS
<1>1. /\ vault = MaxSeats * Wallet + 1 /\ rakeAccrued = 1 /\ forfeited = 0
      /\ DOMAIN chips = Players /\ \A p \in Players : chips[p] = 0
      /\ \A i \in Seats : stack[i] = Wallet /\ committed[i] = 0
  BY DEF ErrandInit
<1>2. IsFiniteSet(Players) /\ Wallet \in Nat /\ Wallet \in Int /\ MaxSeats \in Nat
  BY CustodyAssumption, SeatsAssumption
<1>3. SumFunctionOnSet(chips, Players) = 0 /\ SumFunctionOnSet(committed, Seats) = 0
  BY <1>1, <1>2, SeatsFinite, SumZero
<1>4. SumFunctionOnSet(stack, Seats) = Cardinality(Seats) * Wallet
  BY <1>1, <1>2, SeatsFinite, SumConstant
<1>5. Cardinality(Seats) = MaxSeats
  <2>1. 0 \in Int /\ MaxSeats - 1 \in Int /\ MaxSeats - 1 >= 0
    BY SeatsAssumption
  <2>2. Cardinality(0 .. MaxSeats - 1) = (MaxSeats - 1) - 0 + 1
    BY <2>1, FS_Interval
  <2> QED BY <1>2, <2>2 DEF Seats
<1>6. SumFunction(chips) = 0 /\ Held(Seats) = MaxSeats * Wallet /\ Pot = 0
  BY <1>1, <1>3, <1>4, <1>5 DEF SumFunction, Held, Pot
<1>7. MaxSeats * Wallet \in Int
  BY <1>2
<1> QED BY <1>1, <1>6, <1>7 DEF Solvent

(* And of every button, in every order and with every fault, the vault     *)
(* goes on covering every chip.                                            *)
THEOREM ErrandsSolvent == ErrandSpec => []Solvent
<1>1. ErrandInit => RowsOK /\ IInv /\ Solvent
  BY ErrandInitInv, ErrandInitSolvent
<1>2. (RowsOK /\ IInv /\ Solvent) /\ [ErrandNext]_errandVars => (RowsOK /\ IInv /\ Solvent)'
  BY RowsStep, StepMoves, StepInv, StepSolvent
<1> QED BY <1>1, <1>2, PTL DEF ErrandSpec

(* No press, retry or fault changes what anybody owns: each step of the    *)
(* table run from browsers is one of the ledger's, or none.                *)
THEOREM ErrandsKeepLedger == ErrandSpec => [][L!LedgerNext]_(L!ledgerVars)
<1>1. ErrandInit => RowsOK /\ IInv /\ Solvent
  BY ErrandInitInv, ErrandInitSolvent
<1>2. (RowsOK /\ IInv /\ Solvent) /\ [ErrandNext]_errandVars => (RowsOK /\ IInv /\ Solvent)'
  BY RowsStep, StepMoves, StepInv, StepSolvent
<1>3. (RowsOK /\ IInv /\ Solvent) /\ (RowsOK /\ IInv /\ Solvent)' /\ [ErrandNext]_errandVars
      => [L!LedgerNext]_(L!ledgerVars)
  BY StepMoves, LedgerStep
<1> QED BY <1>1, <1>2, <1>3, PTL DEF ErrandSpec
-----------------------------------------------------------------------------
(* What the buttons do. An errand nobody interferes with is followed from  *)
(* press to end: where the core and the seats are at each of its steps, as *)
(* long as nothing went wrong and after one fault.                         *)

(* A table that is not on the rollup has no draw on its deck. *)
DeckFits ==
    /\ shuffle \in {"idle", "asked", "drawn"}
    /\ shuffle = "drawn" => coreLayer = "rollup"
    /\ faults \in Nat
    /\ Has(Treasury)

(* A table is whole, or gone with everybody off it. *)
Standing ==
    IF tableExists THEN \A i \in Seats : seatExists[i]
    ELSE \A i \in Seats : seatMap[i] = Nobody

Starting == {"core", "look", "delegating", "failing", "undoing", "deck", "secure"}
Pausing == {"release", "clear", "read", "unseat", "landing", "sweep"}

(* Each button has its steps. *)
Fits(r) ==
    /\ r.goal = "none" => r.step = "idle"
    /\ r.goal = "start" => r.step \in Starting
    /\ r.goal = "pause" => r.step \in Pausing
    /\ r.goal = "cashOut" =>
          r.step \in Starting \cup Pausing \cup {"sitOut", "handEnd", "leave", "sweepHome"}
    /\ r.goal = "rebuy" =>
          r.step \in Starting \cup Pausing \cup {"sitOut", "handEnd", "leave", "sit"}
    /\ r.goal = "delete" => r.step \in {"clearing", "closing"}

InStep == \A p \in Clients :
    /\ Fits(row[p])
    /\ row[p].goal \in pressed \cup {"none"}
    /\ row[p].goal = "delete" => p = Creator

OnlyUp(S) == \A i \in Seats : seatLayer[i] = "rollup" => i \in S
OnlyDown(S) == \A i \in Seats : seatLayer[i] = "base" => i \in S
Landed == \A i \in Seats : seatLayer[i] # "leaving"
SeatsHome == \A i \in Seats : seatLayer[i] = "base"

(* Where the core is, whatever went wrong. *)
Course(p) == calm[p] =>
    /\ tableExists /\ row[p].step # "idle"
    /\ row[p].step \in {"sitOut", "handEnd", "release", "clear", "read", "deck", "secure"} =>
          AllOnRollup
    /\ row[p].step \in {"unseat", "look", "delegating", "failing", "undoing"} =>
          coreLayer = "rollup"
    /\ row[p].step \in {"look", "delegating", "failing", "undoing"} =>
          Waiting /\ shuffle # "drawn"
    /\ row[p].step \in {"landing", "sweep"} => coreLayer # "rollup"
    /\ row[p].step \in {"leave", "sweepHome", "sit", "core", "clearing", "closing"} =>
          coreLayer = "base"

(* Where the seats are when nothing did. *)
Smooth(p) == calm[p] /\ faults = 0 =>
    /\ row[p].step \in {"release", "clear", "read", "unseat"} => Waiting
    /\ row[p].step \in {"read", "unseat"} => shuffle = "idle"
    /\ row[p].step = "unseat" => OnlyUp(row[p].todo)
    /\ row[p].step = "landing" => OnlyUp({})
    /\ row[p].step = "sweep" => coreLayer = "base"
    /\ row[p].step \in {"sweep", "leave", "sweepHome", "sit", "core", "look", "clearing",
                        "closing"} => SeatsHome
    /\ row[p].step = "delegating" =>
          OnlyUp(row[p].moved) /\ OnlyDown(row[p].todo) /\ Landed
    /\ row[p].step \notin {"failing", "undoing"}

(* Where they are after one fault, when no other can follow: what is up is *)
(* what this errand sent up, or all that is missing will come.             *)
Rough(p) == calm[p] /\ faults # 0 /\ MaxFaults <= 1 =>
    /\ row[p].step \in {"sweep", "leave", "sweepHome", "sit", "core", "look"} =>
          Landed \/ OnlyUp({})
    /\ row[p].step = "delegating" =>
          \/ OnlyUp(row[p].moved)
          \/ Landed /\ OnlyDown(row[p].todo)
    /\ row[p].step = "failing" => OnlyUp(row[p].moved)
    /\ row[p].step = "undoing" => OnlyUp(row[p].todo)

(* Where the players and the rake are when nothing went wrong. *)
Seating(p) == calm[p] /\ faults = 0 =>
    /\ /\ row[p].goal \in {"cashOut", "rebuy"}
       /\ row[p].step \in Pausing \cup {"sitOut", "handEnd", "leave"}
       => row[p].leaving \in Seats /\ seatMap[row[p].leaving] = p
    /\ row[p].step \in {"sweepHome", "sit"} =>
          SeatOf(p) = {} /\ row[p].leaving \in Seats /\ seatMap[row[p].leaving] = Nobody
    /\ row[p].goal = "cashOut" /\ row[p].step \in Starting => SeatOf(p) = {} /\ rakeAccrued = 0
    /\ row[p].goal = "rebuy" /\ row[p].step \in Starting => SeatOf(p) # {}
    /\ row[p].goal \in {"cashOut", "rebuy"} /\ row[p].step \in Starting =>
          Cardinality(Funded) >= 2
    /\ row[p].step = "clearing" => Seated = row[p].todo
    /\ row[p].step = "closing" => Seated = {} /\ rakeAccrued = 0

(* Where everything is while all that anybody pressed is start. *)
OnlyStarts == pressed \subseteq {"start"} /\ faults = 0
Upright == tableExists /\ inAir = {} /\ coreLayer # "leaving" /\ Landed
Along(p) ==
    /\ row[p].step \notin {"failing", "undoing"}
    /\ row[p].step \in {"look", "delegating", "deck", "secure"} => coreLayer = "rollup"
    /\ row[p].step = "delegating" => OnlyDown(row[p].todo)
    /\ row[p].step \in {"deck", "secure"} => AllOnRollup

Agreed == OnlyStarts => Upright /\ \A p \in Clients : Along(p)

OnCourse(p) == Course(p) /\ Smooth(p) /\ Rough(p) /\ Seating(p)

Grounds == RowsOK /\ IInv /\ DeckFits /\ Standing /\ InStep
CourseIInv == Grounds /\ (\A p \in Clients : OnCourse(p)) /\ Agreed

(* What an errand that ends has to show. *)
WholeOrNothing(p) == calm[p] /\ MaxFaults <= 1 /\ row[p].step \in {"undoing", "secure"} =>
    \/ AllOnRollup'
    \/ coreLayer' # "rollup" /\ \A i \in Seats : seatLayer'[i] # "rollup"

Succeeds(p) == calm[p] /\ faults' = 0 /\ row[p].step # "clear" => Outcome(p)

Ends(p) == row'[p] = Resting => WholeOrNothing(p) /\ Succeeds(p)

Alone(p) == \A q \in Clients : q # p => row'[q] = row[q] /\ ~calm'[q]
Walked(p, step, todo, moved) ==
    /\ row'[p].step = step /\ row'[p].todo = todo /\ row'[p].moved = moved
    /\ row'[p].goal = row[p].goal /\ row'[p].leaving = row[p].leaving
    /\ calm'[p] => calm[p]
    /\ Alone(p)
Ended(p) == row'[p] = Resting /\ ~calm'[p] /\ Alone(p)

LEMMA Turns ==
    ASSUME RowsOK, NEW p \in Clients, NEW r, Becomes(p, r)
    PROVE  row'[p] = r /\ (calm'[p] => calm[p] /\ r # Resting) /\ Alone(p)
<1>1. p \in DOMAIN row /\ DOMAIN row = Clients
  BY DEF RowsOK
<1>2. row' = [row EXCEPT ![p] = r]
  BY DEF Becomes
<1>3. calm' = [q \in Clients |-> q = p /\ calm[q] /\ r # Resting]
  BY DEF Becomes
<1>4. row'[p] = r /\ \A q \in Clients : q # p => row'[q] = row[q]
  BY <1>1, <1>2
<1>5. \A q \in Clients : calm'[q] <=> (q = p /\ calm[q] /\ r # Resting)
  BY <1>3
<1> QED BY <1>4, <1>5 DEF Alone

LEMMA Walks ==
    ASSUME RowsOK, NEW p \in Clients
    PROVE  /\ \A step : To(p, step) => Walked(p, step, row[p].todo, row[p].moved)
           /\ \A step, S : Loop(p, step, S) => Walked(p, step, S, row[p].moved)
           /\ End(p) => Ended(p)
<1>1. row[p] \in Rows
  BY RowFields
<1>2. ASSUME NEW step, To(p, step) PROVE Walked(p, step, row[p].todo, row[p].moved)
  <2> DEFINE r == [row[p] EXCEPT !.step = step]
  <2>1. /\ r.step = step /\ r.todo = row[p].todo /\ r.moved = row[p].moved
        /\ r.goal = row[p].goal /\ r.leaving = row[p].leaving
    BY <1>1 DEF Rows
  <2>2. Becomes(p, r)
    BY <1>2 DEF To
  <2> HIDE DEF r
  <2> QED BY <2>1, <2>2, Turns DEF Walked
<1>3. ASSUME NEW step, NEW S, Loop(p, step, S) PROVE Walked(p, step, S, row[p].moved)
  <2> DEFINE r == [row[p] EXCEPT !.step = step, !.todo = S]
  <2>1. /\ r.step = step /\ r.todo = S /\ r.moved = row[p].moved
        /\ r.goal = row[p].goal /\ r.leaving = row[p].leaving
    BY <1>1 DEF Rows
  <2>2. Becomes(p, r)
    BY <1>3 DEF Loop
  <2> HIDE DEF r
  <2> QED BY <2>1, <2>2, Turns DEF Walked
<1>4. End(p) => Ended(p)
  BY Turns DEF End, Ended
<1> QED BY <1>2, <1>3, <1>4

(* An errand that ended is nobody's to follow, and so is one that somebody *)
(* got in the way of.                                                      *)
LEMMA Disturbed == ASSUME NEW p, ~calm'[p] PROVE OnCourse(p)'
BY DEF OnCourse, Course, Smooth, Rough, Seating

LEMMA OneCourse ==
    ASSUME NEW p \in Clients, Alone(p), OnCourse(p)'
    PROVE  \A q \in Clients : OnCourse(q)'
BY Disturbed DEF Alone

LEMMA NoEnd == ASSUME NEW p, row'[p].step # "idle" PROVE Ends(p)
BY DEF Ends, Resting

LEMMA FaultIs ==
    ASSUME DeckFits
    PROVE  /\ Fault => faults' # 0 /\ faults' \in Nat /\ (MaxFaults <= 1 => faults = 0)
           /\ NoFault => faults' = faults
BY DEF DeckFits, Fault, NoFault

(* Nothing moves between the layers; nothing changes on the table.         *)
Still == coreLayer' = coreLayer /\ seatLayer' = seatLayer
SameBooks ==
    /\ chips' = chips /\ tableExists' = tableExists /\ seatMap' = seatMap
    /\ tableState' = tableState /\ rakeAccrued' = rakeAccrued
    /\ occupant' = occupant /\ stack' = stack /\ seatExists' = seatExists

LEMMA VarsStay == UNCHANGED vars => Still /\ SameBooks
BY DEF vars, moneyVars, tableVars, seatVars, layerVars, Still, SameBooks

LEMMA StillIs ==
    ASSUME Still
    PROVE  /\ AllOnRollup' <=> AllOnRollup
           /\ Landed' <=> Landed
           /\ SeatsHome' <=> SeatsHome
           /\ \A S : OnlyUp(S)' <=> OnlyUp(S)
           /\ \A S : OnlyDown(S)' <=> OnlyDown(S)
BY DEF Still, AllOnRollup, Landed, SeatsHome, OnlyUp, OnlyDown

LEMMA BooksAre ==
    ASSUME SameBooks
    PROVE  /\ Waiting' <=> Waiting
           /\ Funded' = Funded /\ Seated' = Seated
           /\ \A p : SeatOf(p)' = SeatOf(p)
BY DEF SameBooks, Waiting, Funded, Seated, SeatOf

(* All that is missing has come; nothing is away. *)
LEMMA AllUp == IInv /\ Landed /\ OnlyDown({}) /\ coreLayer = "rollup" => AllOnRollup
BY DEF IInv, TypeOK, Layers, Landed, OnlyDown, AllOnRollup

LEMMA AllDown ==
    /\ IInv /\ Landed /\ OnlyUp({}) => SeatsHome
    /\ SeatsHome => Landed /\ OnlyUp({}) /\ \A S : OnlyUp(S)
BY DEF IInv, TypeOK, Layers, Landed, OnlyUp, SeatsHome

LEMMA OffRollup == IInv /\ coreLayer # "rollup" => Waiting
BY DEF IInv, NeverSplitMidHand, AllOnRollup

(* Walking on from step to step nobody sits down or leaves. *)
LEMMA SeatingKept ==
    ASSUME NEW p \in Clients, NEW step, NEW todo, NEW moved, Walked(p, step, todo, moved),
           SameBooks, faults' = faults \/ faults' # 0, Seating(p),
           \/ row[p].step \in Starting /\ step \in Starting
           \/ /\ row[p].step \in Pausing \cup {"sitOut", "handEnd"}
              /\ step \in Pausing \cup {"sitOut", "handEnd", "leave"}
    PROVE  Seating(p)'
<1>1. Funded' = Funded /\ Seated' = Seated /\ SeatOf(p)' = SeatOf(p)
  BY BooksAre
<1>2. /\ row'[p].step = step /\ row'[p].goal = row[p].goal /\ row'[p].leaving = row[p].leaving
      /\ calm'[p] => calm[p]
  BY DEF Walked
<1>3. seatMap' = seatMap /\ rakeAccrued' = rakeAccrued
  BY DEF SameBooks
<1> QED BY <1>1, <1>2, <1>3 DEF Seating, Starting, Pausing

(* Starting: the core first, then a look at the seats.                     *)
LEMMA StartCoreOn ==
    ASSUME CourseIInv, NEW p \in Clients, StartCore(p)
    PROVE  Alone(p) /\ OnCourse(p)' /\ Ends(p)
<1>1. /\ Grounds /\ RowsOK /\ IInv /\ DeckFits /\ Fits(row[p])
      /\ Course(p) /\ Smooth(p) /\ Rough(p) /\ Seating(p) /\ row[p].step = "core"
  BY DEF CourseIInv, Grounds, InStep, OnCourse, StartCore, At
<1>2. CASE Delegated /\ NoFault /\ To(p, "look")
  <2>1. Walked(p, "look", row[p].todo, row[p].moved)
    BY <1>1, <1>2, Walks
  <2>2. ~calm[p]
    BY <1>1, <1>2 DEF Course, Delegated
  <2> QED BY <2>1, <2>2, Disturbed, NoEnd DEF Walked
<1>3. CASE DelegateCore /\ NoFault /\ To(p, "look")
  <2>1. Walked(p, "look", row[p].todo, row[p].moved)
    BY <1>1, <1>3, Walks
  <2>2. SameBooks /\ seatLayer' = seatLayer /\ coreLayer' = "rollup" /\ coreLayer = "base"
    BY <1>3 DEF DelegateCore, CoreOnBase, moneyVars, tableVars, seatVars, SameBooks
  <2>3. Waiting /\ Waiting' /\ shuffle # "drawn" /\ shuffle' = shuffle /\ faults' = faults
    BY <1>1, <1>3, <2>2, OffRollup, BooksAre, FaultIs DEF DeckFits, StartCore, deckVars
  <2>4. (SeatsHome' <=> SeatsHome) /\ (Landed' <=> Landed) /\ (OnlyUp({})' <=> OnlyUp({}))
    BY <2>2 DEF SeatsHome, Landed, OnlyUp
  <2>5. Seating(p)'
    BY <1>1, <2>1, <2>2, <2>3, SeatingKept DEF Starting
  <2>6. row'[p].step = "look" /\ (calm'[p] => calm[p]) /\ tableExists' = tableExists
    BY <2>1, <2>2 DEF Walked, SameBooks
  <2>7. Course(p)'
    BY <1>1, <2>2, <2>3, <2>6 DEF Course
  <2>8. Smooth(p)' /\ Rough(p)'
    BY <1>1, <2>3, <2>4, <2>6 DEF Smooth, Rough
  <2> QED BY <2>1, <2>5, <2>6, <2>7, <2>8, NoEnd DEF Walked, OnCourse
<1>4. CASE Fault /\ End(p)
  <2>1. Ended(p)
    BY <1>1, <1>4, Walks
  <2>2. faults' # 0
    BY <1>1, <1>4, FaultIs
  <2> QED BY <1>1, <2>1, <2>2, Disturbed DEF Ended, Ends, WholeOrNothing, Succeeds
<1>5. CASE ~tableExists /\ End(p)
  <2>1. Ended(p)
    BY <1>1, <1>5, Walks
  <2>2. ~calm[p]
    BY <1>1, <1>5 DEF Course
  <2> QED BY <2>1, <2>2, Disturbed DEF Ended, Ends, WholeOrNothing, Succeeds
<1> QED BY <1>2, <1>3, <1>4, <1>5 DEF StartCore

(* Without the look nothing has gone up but the core.                      *)
LEMMA StartBlindOn ==
    ASSUME CourseIInv, NEW p \in Clients, row[p].step = "look", Loop(p, "undoing", {}), Fault,
           UNCHANGED vars, shuffle' = shuffle
    PROVE  Alone(p) /\ OnCourse(p)' /\ Ends(p)
<1>1. /\ RowsOK /\ IInv /\ DeckFits /\ Course(p) /\ Smooth(p) /\ Seating(p)
  BY DEF CourseIInv, Grounds, OnCourse
<1>2. Walked(p, "undoing", {}, row[p].moved)
  BY <1>1, Walks
<1>3. row'[p].step = "undoing" /\ row'[p].todo = {} /\ (calm'[p] => calm[p])
  BY <1>2 DEF Walked
<1>4. Still /\ SameBooks /\ (Waiting' <=> Waiting)
  BY VarsStay, BooksAre
<1>5. faults' # 0 /\ (MaxFaults <= 1 => faults = 0)
  BY <1>1, FaultIs
<1>6. Course(p)'
  BY <1>1, <1>3, <1>4 DEF Course, Still, SameBooks
<1>7. Smooth(p)'
  BY <1>5 DEF Smooth
<1>8. Rough(p)'
  <2>1. calm[p] /\ MaxFaults <= 1 => OnlyUp({})
    BY <1>1, <1>5, AllDown DEF Smooth
  <2>2. calm[p] /\ MaxFaults <= 1 => OnlyUp({})'
    BY <1>4, <2>1, StillIs
  <2> QED BY <1>3, <2>2 DEF Rough, OnlyUp
<1>9. Seating(p)'
  BY <1>1, <1>2, <1>4, <1>5, SeatingKept DEF Starting
<1> QED BY <1>2, <1>3, <1>6, <1>7, <1>8, <1>9, NoEnd DEF Walked, OnCourse

LEMMA StartSeenOn ==
    ASSUME CourseIInv, NEW p \in Clients, row[p].step = "look",
           Loop(p, "delegating", {i \in Seats : SeatOnBase(i)}), NoFault,
           UNCHANGED vars, shuffle' = shuffle
    PROVE  Alone(p) /\ OnCourse(p)' /\ Ends(p)
<1> DEFINE todo == {i \in Seats : SeatOnBase(i)}
<1>1. /\ Grounds /\ RowsOK /\ IInv /\ DeckFits /\ Standing
      /\ Course(p) /\ Smooth(p) /\ Rough(p) /\ Seating(p)
  BY DEF CourseIInv, Grounds, OnCourse
<1>2. Walked(p, "delegating", todo, row[p].moved)
  BY <1>1, Walks
<1>3. Still /\ SameBooks /\ shuffle' = shuffle /\ faults' = faults
  BY VarsStay DEF NoFault
<1>4. calm[p] => OnlyDown(todo)
  BY <1>1 DEF Course, Standing, OnlyDown, SeatOnBase
<1>5. OnlyUp({}) => OnlyUp(row[p].moved)
  BY DEF OnlyUp
<1>6. PICK T, M : T = todo /\ M = row[p].moved
  OBVIOUS
<1> HIDE DEF todo
<1>7. /\ row'[p].step = "delegating" /\ row'[p].todo = T /\ row'[p].moved = M
      /\ calm'[p] => calm[p]
  BY <1>2, <1>6 DEF Walked
<1>8. Course(p)'
  <2>1. coreLayer' = coreLayer /\ tableExists' = tableExists /\ (Waiting' <=> Waiting)
    BY <1>3, BooksAre DEF Still, SameBooks
  <2> QED BY <1>1, <1>3, <1>7, <2>1 DEF Course
<1>9. Smooth(p)'
  <2>1. calm[p] /\ faults = 0 => SeatsHome
    BY <1>1 DEF Smooth
  <2>2. calm[p] /\ faults = 0 => OnlyUp(M)' /\ OnlyDown(T)' /\ Landed'
    BY <1>3, <1>4, <1>6, <2>1, AllDown, StillIs
  <2> QED BY <1>3, <1>7, <2>2 DEF Smooth, OnlyUp, OnlyDown
<1>10. Rough(p)'
  <2>1. calm[p] /\ faults # 0 /\ MaxFaults <= 1 => Landed \/ OnlyUp({})
    BY <1>1 DEF Rough
  <2>2. calm[p] /\ faults # 0 /\ MaxFaults <= 1 =>
          OnlyUp(M)' \/ (Landed' /\ OnlyDown(T)')
    BY <1>3, <1>4, <1>5, <1>6, <2>1, StillIs
  <2> QED BY <1>3, <1>7, <2>2 DEF Rough, OnlyUp, OnlyDown
<1>11. Seating(p)'
  BY <1>1, <1>2, <1>3, SeatingKept DEF Starting
<1> QED BY <1>2, <1>7, <1>8, <1>9, <1>10, <1>11, NoEnd DEF Walked, OnCourse

LEMMA StartLookOn ==
    ASSUME CourseIInv, NEW p \in Clients, StartLook(p)
    PROVE  Alone(p) /\ OnCourse(p)' /\ Ends(p)
<1>1. row[p].step = "look" /\ UNCHANGED vars /\ shuffle' = shuffle
  BY DEF StartLook, At, deckVars
<1> QED BY <1>1, StartSeenOn, StartBlindOn DEF StartLook

(* A seat's turn. What went up is on the list of what this errand moved.   *)
LEMMA StartSeatOn ==
    ASSUME CourseIInv, NEW p \in Clients, NEW i \in Seats, StartSeat(p, i)
    PROVE  Alone(p) /\ OnCourse(p)' /\ Ends(p)
<1>1. /\ Grounds /\ RowsOK /\ IInv /\ DeckFits /\ Standing
      /\ Course(p) /\ Smooth(p) /\ Rough(p) /\ Seating(p)
      /\ row[p].step \in {"delegating", "failing"} /\ seatLayer \in [Seats -> Layers]
  BY DEF CourseIInv, Grounds, OnCourse, StartSeat, IInv, TypeOK
<1>2. PICK answer \in {"confirmed", "unheard", "lost", "late"} :
        /\ IF answer \in {"confirmed", "unheard"} /\ ~AlreadyUp(i)
           THEN DelegateSeat(i) ELSE UNCHANGED vars
        /\ IF answer = "confirmed" THEN NoFault ELSE Fault
        /\ Becomes(p, [row[p] EXCEPT !.todo = @ \ {i},
                                     !.moved = IF WentUp(answer, i) THEN @ \cup {i} ELSE @,
                                     !.step = IF WentUp(answer, i) THEN @ ELSE "failing"])
        /\ shuffle' = shuffle
  BY DEF StartSeat, deckVars
<1>3. PICK T, M, N, step :
        /\ T = row[p].todo \ {i} /\ M = row[p].moved
        /\ N = IF WentUp(answer, i) THEN M \cup {i} ELSE M
        /\ step = IF WentUp(answer, i) THEN row[p].step ELSE "failing"
  OBVIOUS
<1>4. Walked(p, step, T, N)
  <2>1. row[p] \in Rows
    BY <1>1, RowFields
  <2> DEFINE r == [row[p] EXCEPT !.todo = T, !.moved = N, !.step = step]
  <2>2. Becomes(p, r)
    BY <1>2, <1>3
  <2>3. r.todo = T /\ r.moved = N /\ r.step = step /\ r.goal = row[p].goal
        /\ r.leaving = row[p].leaving
    BY <2>1 DEF Rows
  <2> HIDE DEF r
  <2> QED BY <1>1, <2>2, <2>3, Turns DEF Walked
<1>5. /\ SameBooks /\ coreLayer' = coreLayer
      /\ \A j \in Seats : j # i => seatLayer'[j] = seatLayer[j]
      /\ seatLayer'[i] = IF answer \in {"confirmed", "unheard"} /\ SeatOnBase(i)
                         THEN "rollup" ELSE seatLayer[i]
  <2>1. CASE answer \in {"confirmed", "unheard"} /\ SeatOnBase(i)
    BY <1>1, <1>2, <2>1
    DEF AlreadyUp, DelegateSeat, moneyVars, tableVars, seatVars, SameBooks
  <2>2. CASE ~(answer \in {"confirmed", "unheard"} /\ SeatOnBase(i))
    <3>1. UNCHANGED vars
      BY <1>2, <2>2 DEF AlreadyUp
    <3>2. Still /\ SameBooks
      BY <3>1, VarsStay
    <3> QED BY <2>2, <3>2 DEF Still
  <2> QED BY <2>1, <2>2
<1>6. WentUp(answer, i) <=> answer = "confirmed" \/ seatLayer'[i] # "base"
  BY DEF WentUp
<1>7. calm[p] => seatExists[i]
  BY <1>1 DEF Course, Standing
<1>8. /\ row'[p].step = step /\ row'[p].todo = T /\ row'[p].moved = N
      /\ calm'[p] => calm[p]
  BY <1>4 DEF Walked
<1>9. /\ answer = "confirmed" => faults' = faults
      /\ answer # "confirmed" => faults' # 0 /\ (MaxFaults <= 1 => faults = 0)
  BY <1>1, <1>2, FaultIs
<1>10. step \in {"delegating", "failing"}
  BY <1>1, <1>3
<1>11. Course(p)'
  <2>1. tableExists' = tableExists /\ (Waiting' <=> Waiting)
    BY <1>5, BooksAre DEF SameBooks
  <2> QED BY <1>1, <1>2, <1>5, <1>8, <1>10, <2>1 DEF Course
<1>12. OnlyUp(M) => OnlyUp(N)' \/ ~WentUp(answer, i)
  BY <1>3, <1>5 DEF OnlyUp
<1>13. OnlyUp(M) /\ ~WentUp(answer, i) => OnlyUp(N)'
  BY <1>3, <1>5, <1>6 DEF OnlyUp
<1>14. Landed => Landed'
  BY <1>5 DEF Landed
<1>15. answer = "confirmed" /\ calm[p] /\ OnlyDown(row[p].todo) => OnlyDown(T)'
  BY <1>3, <1>5, <1>7 DEF OnlyDown, SeatOnBase
<1>16. Smooth(p)'
  <2>1. calm[p] /\ faults = 0 => row[p].step = "delegating" /\ OnlyUp(M) /\ Landed
                                 /\ OnlyDown(row[p].todo)
    BY <1>1, <1>3 DEF Smooth
  <2>2. ASSUME calm[p], faults' = 0
        PROVE  step = "delegating" /\ OnlyUp(N)' /\ OnlyDown(T)' /\ Landed'
    <3>1. faults = 0 /\ answer = "confirmed" /\ WentUp(answer, i)
      BY <1>6, <1>9, <2>2
    <3>2. step = "delegating"
      BY <1>3, <2>1, <2>2, <3>1
    <3> QED BY <1>12, <1>14, <1>15, <2>1, <2>2, <3>1, <3>2
  <2> QED BY <1>8, <2>2 DEF Smooth, OnlyUp, OnlyDown
<1>17. Rough(p)'
  <2>1. ASSUME calm[p], faults' # 0, MaxFaults <= 1
        PROVE  \/ OnlyUp(N)'
               \/ step = "delegating" /\ Landed' /\ OnlyDown(T)'
    <3>1. CASE faults = 0
      <4>1. OnlyUp(M)
        BY <1>1, <1>3, <2>1, <3>1 DEF Smooth
      <4> QED BY <1>12, <1>13, <4>1
    <3>2. CASE faults # 0
      <4>1. answer = "confirmed" /\ WentUp(answer, i) /\ step = row[p].step
        BY <1>3, <1>6, <1>9, <2>1, <3>2
      <4>2. OnlyUp(M) \/ (row[p].step = "delegating" /\ Landed /\ OnlyDown(row[p].todo))
        <5>1. M = row[p].moved
          BY <1>3
        <5>2. \/ OnlyUp(row[p].moved)
              \/ row[p].step = "delegating" /\ Landed /\ OnlyDown(row[p].todo)
          BY <1>1, <2>1, <3>2 DEF Rough
        <5> QED BY <5>1, <5>2
      <4> QED BY <1>12, <1>14, <1>15, <2>1, <4>1, <4>2
    <3> QED BY <3>1, <3>2
  <2> QED BY <1>8, <1>10, <2>1 DEF Rough, OnlyUp, OnlyDown
<1>18. Seating(p)'
  BY <1>1, <1>4, <1>5, <1>9, <1>10, SeatingKept DEF Starting
<1> QED BY <1>4, <1>8, <1>10, <1>11, <1>16, <1>17, <1>18, NoEnd DEF Walked, OnCourse

LEMMA StartWaitOn ==
    ASSUME CourseIInv, NEW p \in Clients, StartWait(p)
    PROVE  Alone(p) /\ OnCourse(p)' /\ Ends(p)
<1>1. /\ Grounds /\ RowsOK /\ IInv /\ DeckFits
      /\ Course(p) /\ Smooth(p) /\ Rough(p) /\ Seating(p)
      /\ row[p].step \in {"delegating", "failing"} /\ row[p].todo = {}
  BY DEF CourseIInv, Grounds, OnCourse, StartWait, At
<1>2. Still /\ SameBooks /\ shuffle' = shuffle
  BY VarsStay DEF StartWait, deckVars
<1>3. /\ coreLayer' = coreLayer /\ tableExists' = tableExists /\ (Waiting' <=> Waiting)
      /\ AllOnRollup' <=> AllOnRollup
  BY <1>2, BooksAre, StillIs DEF Still, SameBooks
<1>4. calm[p] => coreLayer = "rollup" /\ Waiting /\ shuffle # "drawn" /\ tableExists
  BY <1>1 DEF Course
<1>5. calm[p] /\ row[p].step = "delegating" /\ Landed /\ OnlyDown({}) => AllOnRollup
  BY <1>1, <1>4, AllUp
<1>6. PICK M : M = row[p].moved
  OBVIOUS
<1>7. ASSUME Loop(p, "undoing", row[p].moved), faults' = faults \/ faults' # 0,
             calm[p] => faults' # 0 /\ (MaxFaults <= 1 => OnlyUp(M))
      PROVE  Alone(p) /\ OnCourse(p)' /\ Ends(p)
  <2>1. Walked(p, "undoing", M, M)
    BY <1>1, <1>6, <1>7, Walks
  <2>2. row'[p].step = "undoing" /\ row'[p].todo = M /\ (calm'[p] => calm[p])
    BY <2>1 DEF Walked
  <2>3. Course(p)'
    BY <1>2, <1>3, <1>4, <2>2 DEF Course
  <2>4. Smooth(p)'
    BY <1>7, <2>2 DEF Smooth
  <2>5. calm[p] /\ MaxFaults <= 1 => OnlyUp(M)'
    BY <1>2, <1>7, StillIs
  <2>6. Rough(p)'
    BY <2>2, <2>5 DEF Rough, OnlyUp
  <2>7. Seating(p)'
    BY <1>1, <1>2, <1>7, <2>1, SeatingKept DEF Starting
  <2> QED BY <2>1, <2>2, <2>3, <2>4, <2>6, <2>7, NoEnd DEF Walked, OnCourse
<1>8. CASE At(p, "failing") /\ Loop(p, "undoing", row[p].moved) /\ NoFault
  <2>1. faults' = faults
    BY <1>1, <1>8, FaultIs
  <2>2. calm[p] => faults # 0 /\ (MaxFaults <= 1 => OnlyUp(M))
    BY <1>1, <1>6, <1>8 DEF Smooth, Rough, At
  <2> QED BY <1>7, <1>8, <2>1, <2>2
<1>9. CASE /\ At(p, "delegating") /\ Waiting
           /\ IF AllOnRollup THEN Fault ELSE NoFault
           /\ Loop(p, "undoing", row[p].moved)
  <2>1. /\ AllOnRollup => faults' # 0 /\ (MaxFaults <= 1 => faults = 0)
        /\ ~AllOnRollup => faults' = faults
    BY <1>1, <1>9, FaultIs
  <2>2. calm[p] /\ faults = 0 => AllOnRollup /\ OnlyUp(M)
    BY <1>1, <1>5, <1>6, <1>9 DEF Smooth, At
  <2>3. calm[p] /\ faults # 0 /\ MaxFaults <= 1 => OnlyUp(M)
    BY <1>1, <1>5, <1>6, <1>9, <2>1 DEF Rough, At
  <2> QED BY <1>7, <1>9, <2>1, <2>2, <2>3
<1>10. CASE At(p, "delegating") /\ Waiting /\ AllOnRollup /\ NoFault /\ To(p, "deck")
  <2>1. Walked(p, "deck", row[p].todo, row[p].moved) /\ faults' = faults
    BY <1>1, <1>10, Walks, FaultIs
  <2>2. row'[p].step = "deck" /\ (calm'[p] => calm[p])
    BY <2>1 DEF Walked
  <2>3. Course(p)' /\ Smooth(p)' /\ Rough(p)'
    BY <1>3, <1>4, <1>10, <2>2 DEF Course, Smooth, Rough
  <2>4. Seating(p)'
    BY <1>1, <1>2, <2>1, SeatingKept DEF Starting
  <2> QED BY <2>1, <2>2, <2>3, <2>4, NoEnd DEF Walked, OnCourse
<1>11. CASE At(p, "delegating") /\ ~Waiting /\ NoFault /\ End(p)
  <2>1. Ended(p)
    BY <1>1, <1>11, Walks
  <2> QED BY <1>4, <1>11, <2>1, Disturbed DEF Ended, Ends, WholeOrNothing, Succeeds
<1> QED BY <1>8, <1>9, <1>10, <1>11 DEF StartWait

(* A seat is sent back: what is left on the rollup is still on the list,   *)
(* if the send was not lost.                                               *)
LEMMA SentBack ==
    ASSUME IInv, DeckFits, NEW i \in Seats, TryUndelegate(i)
    PROVE  /\ SameBooks /\ coreLayer' = coreLayer
           /\ NoFault \/ Fault
           /\ Waiting /\ NoFault => \A S : OnlyUp(S) => OnlyUp(S \ {i})'
<1>1. seatLayer \in [Seats -> Layers]
  BY DEF IInv, TypeOK
<1>2. CASE Undelegable(i) /\ UndelegateSeat(i) /\ NoFault
  <2>1. SameBooks /\ coreLayer' = coreLayer /\ seatLayer' = [seatLayer EXCEPT ![i] = "leaving"]
    BY <1>2 DEF UndelegateSeat, moneyVars, tableVars, seatVars, SameBooks
  <2> QED BY <1>1, <1>2, <2>1 DEF OnlyUp
<1>3. CASE UNCHANGED vars /\ NoFault /\ ~Undelegable(i)
  <2>1. Still /\ SameBooks
    BY <1>3, VarsStay
  <2> QED BY <1>3, <2>1 DEF OnlyUp, Undelegable, Still
<1>4. CASE UNCHANGED vars /\ Fault
  <2>1. Still /\ SameBooks /\ faults' # faults
    BY <1>4, VarsStay DEF Fault, DeckFits
  <2> QED BY <1>4, <2>1 DEF Still, NoFault
<1> QED BY <1>2, <1>3, <1>4 DEF TryUndelegate, Attempt

LEMMA UndoSeatOn ==
    ASSUME CourseIInv, NEW p \in Clients, UndoSeat(p)
    PROVE  Alone(p) /\ OnCourse(p)' /\ Ends(p)
<1>1. /\ Grounds /\ RowsOK /\ IInv /\ DeckFits
      /\ Course(p) /\ Smooth(p) /\ Rough(p) /\ Seating(p)
      /\ row[p].step = "undoing" /\ row[p].todo # {} /\ shuffle' = shuffle
  BY DEF CourseIInv, Grounds, OnCourse, UndoSeat, At, deckVars
<1>2. PICK i \in Seats : TryUndelegate(i) /\ Loop(p, "undoing", row[p].todo \ {i})
  BY <1>1, RowFields DEF UndoSeat
<1>3. PICK S, T : S = row[p].todo /\ T = S \ {i} /\ TryUndelegate(i) /\ Loop(p, "undoing", T)
  BY <1>2
<1>4. /\ SameBooks /\ coreLayer' = coreLayer /\ (NoFault \/ Fault)
      /\ Waiting /\ NoFault /\ OnlyUp(S) => OnlyUp(T)'
  BY <1>1, <1>3, SentBack
<1>5. Walked(p, "undoing", T, row[p].moved)
  BY <1>1, <1>3, Walks
<1>6. row'[p].step = "undoing" /\ row'[p].todo = T /\ (calm'[p] => calm[p])
  BY <1>5 DEF Walked
<1>7. /\ faults' = faults \/ faults' # 0
      /\ faults # 0 /\ MaxFaults <= 1 => NoFault
  BY <1>1, <1>4, FaultIs
<1>8. Course(p)'
  <2>1. tableExists' = tableExists /\ (Waiting' <=> Waiting)
    BY <1>4, BooksAre DEF SameBooks
  <2> QED BY <1>1, <1>4, <1>6, <2>1 DEF Course
<1>9. calm[p] => faults # 0 /\ Waiting
  BY <1>1 DEF Smooth, Course
<1>10. Smooth(p)'
  BY <1>6, <1>7, <1>9 DEF Smooth
<1>11. Rough(p)'
  <2>1. calm[p] /\ MaxFaults <= 1 => OnlyUp(S)
    BY <1>1, <1>3, <1>9 DEF Rough
  <2>2. calm[p] /\ MaxFaults <= 1 => OnlyUp(T)'
    BY <1>4, <1>7, <1>9, <2>1
  <2> QED BY <1>6, <2>2 DEF Rough, OnlyUp
<1>12. Seating(p)'
  BY <1>1, <1>4, <1>5, <1>7, SeatingKept DEF Starting
<1> QED BY <1>5, <1>6, <1>8, <1>10, <1>11, <1>12, NoEnd DEF Walked, OnCourse

(* The core goes last: nothing of the table is left on the rollup.         *)
LEMMA UndoCoreOn ==
    ASSUME CourseIInv, NEW p \in Clients, UndoCore(p)
    PROVE  Alone(p) /\ OnCourse(p)' /\ Ends(p)
<1>1. /\ Grounds /\ RowsOK /\ DeckFits /\ Course(p) /\ Smooth(p) /\ Rough(p)
      /\ row[p].step = "undoing" /\ row[p].todo = {}
      /\ Attempt(CoreMayLeave, UndelegateCore, vars) /\ End(p)
  BY DEF CourseIInv, Grounds, OnCourse, UndoCore, At
<1>2. Ended(p)
  BY <1>1, Walks
<1>3. calm[p] => faults # 0 /\ coreLayer = "rollup" /\ Waiting /\ shuffle # "drawn"
  BY <1>1 DEF Smooth, Course
<1>4. faults' # 0 \/ faults' = faults
  BY <1>1, FaultIs DEF Attempt
<1>5. Succeeds(p)
  BY <1>3, <1>4 DEF Succeeds
<1>6. ASSUME calm[p], MaxFaults <= 1
      PROVE  coreLayer' # "rollup" /\ \A i \in Seats : seatLayer'[i] # "rollup"
  <2>1. CoreMayLeave /\ ~Fault
    BY <1>1, <1>3, <1>6, FaultIs DEF CoreMayLeave
  <2>2. UndelegateCore
    BY <1>1, <2>1 DEF Attempt
  <2>3. OnlyUp({})
    BY <1>1, <1>3, <1>6 DEF Rough
  <2> QED BY <2>2, <2>3 DEF UndelegateCore, OnlyUp
<1>7. WholeOrNothing(p)
  BY <1>6 DEF WholeOrNothing
<1> QED BY <1>2, <1>5, <1>7, Disturbed DEF Ended, Ends

LEMMA SecureDeckOn ==
    ASSUME CourseIInv, NEW p \in Clients, SecureDeck(p)
    PROVE  Alone(p) /\ OnCourse(p)' /\ Ends(p)
<1>1. /\ Grounds /\ RowsOK /\ DeckFits /\ Course(p) /\ Seating(p)
      /\ row[p].step = "deck"
  BY DEF CourseIInv, Grounds, OnCourse, SecureDeck, At
<1>2. Still /\ SameBooks
  BY VarsStay DEF SecureDeck
<1>3. AllOnRollup' <=> AllOnRollup
  BY <1>2, StillIs
<1>4. calm[p] => tableExists /\ AllOnRollup /\ coreLayer = "rollup"
  BY <1>1 DEF Course, AllOnRollup
<1>5. ASSUME NEW S, Loop(p, "secure", S), NoFault
      PROVE  Alone(p) /\ OnCourse(p)' /\ Ends(p)
  <2>1. Walked(p, "secure", S, row[p].moved) /\ faults' = faults
    BY <1>1, <1>5, Walks, FaultIs
  <2>2. row'[p].step = "secure" /\ (calm'[p] => calm[p]) /\ tableExists' = tableExists
    BY <1>2, <2>1 DEF Walked, SameBooks
  <2>3. Course(p)' /\ Smooth(p)' /\ Rough(p)'
    BY <1>3, <1>4, <2>2 DEF Course, Smooth, Rough
  <2>4. Seating(p)'
    BY <1>1, <1>2, <2>1, SeatingKept DEF Starting
  <2> QED BY <2>1, <2>2, <2>3, <2>4, NoEnd DEF Walked, OnCourse
<1>6. CASE coreLayer # "rollup" /\ NoFault /\ End(p)
  <2>1. Ended(p)
    BY <1>1, <1>6, Walks
  <2> QED BY <1>4, <1>6, <2>1, Disturbed DEF Ended, Ends, WholeOrNothing, Succeeds
<1>7. CASE coreLayer = "rollup" /\ Fault /\ End(p)
  <2>1. Ended(p) /\ faults' # 0
    BY <1>1, <1>7, Walks, FaultIs
  <2> QED BY <1>1, <2>1, Disturbed DEF Ended, Ends, WholeOrNothing, Succeeds
<1> QED BY <1>5, <1>6, <1>7 DEF SecureDeck

(* The last seat is secured, or was tried: the table is up, and what the   *)
(* errand that put it back wanted is done.                                 *)
LEMMA SecureSeatOn ==
    ASSUME CourseIInv, NEW p \in Clients, SecureSeat(p)
    PROVE  Alone(p) /\ OnCourse(p)' /\ Ends(p)
<1>1. /\ Grounds /\ RowsOK /\ DeckFits /\ Course(p) /\ Seating(p) /\ Fits(row[p])
      /\ row[p] \in Rows /\ row[p].step = "secure"
  BY RowFields DEF CourseIInv, Grounds, InStep, OnCourse, SecureSeat, At
<1>2. Still /\ SameBooks
  BY VarsStay DEF SecureSeat
<1>3. AllOnRollup' <=> AllOnRollup
  BY <1>2, StillIs
<1>4. calm[p] => tableExists /\ AllOnRollup /\ AllOnRollup'
  BY <1>1, <1>3 DEF Course
<1>5. ASSUME NEW S, Loop(p, "secure", S), NoFault \/ Fault
      PROVE  Alone(p) /\ OnCourse(p)' /\ Ends(p)
  <2>1. Walked(p, "secure", S, row[p].moved) /\ (faults' = faults \/ faults' # 0)
    BY <1>1, <1>5, Walks, FaultIs
  <2>2. row'[p].step = "secure" /\ (calm'[p] => calm[p]) /\ tableExists' = tableExists
    BY <1>2, <2>1 DEF Walked, SameBooks
  <2>3. Course(p)' /\ Smooth(p)' /\ Rough(p)'
    BY <1>4, <2>2 DEF Course, Smooth, Rough
  <2>4. Seating(p)'
    BY <1>1, <1>2, <2>1, SeatingKept DEF Starting
  <2> QED BY <2>1, <2>2, <2>3, <2>4, NoEnd DEF Walked, OnCourse
<1>6. CASE End(p) /\ NoFault
  <2>1. Ended(p) /\ faults' = faults
    BY <1>1, <1>6, Walks, FaultIs
  <2>2. WholeOrNothing(p)
    BY <1>4 DEF WholeOrNothing
  <2>3. ASSUME calm[p], faults' = 0 PROVE Outcome(p)
    <3>1. row[p].goal \in {"start", "cashOut", "rebuy"}
      BY <1>1 DEF Fits, Rows, Buttons, Pausing
    <3>2. /\ row[p].goal = "cashOut" => SeatOf(p) = {} /\ rakeAccrued = 0
          /\ row[p].goal = "rebuy" => SeatOf(p) # {}
          /\ row[p].goal # "start" => Cardinality(Funded) >= 2
      BY <1>1, <2>1, <2>3, <3>1 DEF Seating, Starting
    <3>3. SeatOf(p)' = SeatOf(p) /\ Funded' = Funded /\ rakeAccrued' = rakeAccrued
      BY <1>2, BooksAre DEF SameBooks
    <3>4. row[p].goal # "start" => TableIsBack
      BY <1>4, <2>3, <3>2, <3>3 DEF TableIsBack
    <3> QED BY <1>4, <2>3, <3>1, <3>2, <3>3, <3>4 DEF Outcome
  <2> QED BY <2>1, <2>2, <2>3, Disturbed DEF Ended, Ends, Succeeds
<1> QED BY <1>5, <1>6 DEF SecureSeat, Attempt

(* Pausing, and the way to it: the table stays up until the shuffle is     *)
(* clear.                                                                  *)
LEMMA WayDownOn ==
    ASSUME CourseIInv, NEW p \in Clients, NEW step, To(p, step), UNCHANGED vars,
           shuffle' = shuffle \/ shuffle' = "idle", NoFault \/ Fault,
           \/ row[p].step = "sitOut" /\ step = "handEnd"
           \/ row[p].step = "handEnd" /\ step = "release" /\ (Waiting \/ Fault)
           \/ row[p].step = "release" /\ step = "clear"
           \/ row[p].step = "clear" /\ step = "clear"
           \/ row[p].step = "clear" /\ step = "read" /\ (shuffle' = "idle" \/ Fault)
    PROVE  Alone(p) /\ OnCourse(p)' /\ Ends(p)
<1>1. /\ RowsOK /\ DeckFits /\ Course(p) /\ Smooth(p) /\ Seating(p)
  BY DEF CourseIInv, Grounds, OnCourse
<1>2. Walked(p, step, row[p].todo, row[p].moved)
  BY <1>1, Walks
<1>3. /\ row'[p].step = step /\ (calm'[p] => calm[p])
      /\ step \in {"handEnd", "release", "clear", "read"}
  BY <1>2 DEF Walked
<1>4. SameBooks /\ (Waiting' <=> Waiting) /\ (AllOnRollup' <=> AllOnRollup)
  BY VarsStay, BooksAre, StillIs
<1>5. /\ faults' = faults \/ faults' # 0
      /\ Fault => faults' # 0
  BY <1>1, FaultIs
<1>6. calm[p] => tableExists /\ AllOnRollup
  BY <1>1 DEF Course
<1>7. Course(p)'
  BY <1>3, <1>4, <1>6 DEF Course, SameBooks
<1>8. Smooth(p)'
  BY <1>1, <1>3, <1>4, <1>5 DEF Smooth
<1>9. Rough(p)'
  BY <1>3 DEF Rough
<1>10. Seating(p)'
  BY <1>1, <1>2, <1>4, <1>5, SeatingKept DEF Pausing
<1> QED BY <1>2, <1>3, <1>7, <1>8, <1>9, <1>10, NoEnd DEF Walked, OnCourse

LEMMA ReleaseOn ==
    ASSUME CourseIInv, NEW p \in Clients, PauseRelease(p) \/ SitOut(p) \/ AwaitHand(p)
    PROVE  Alone(p) /\ OnCourse(p)' /\ Ends(p)
<1>1. CASE PauseRelease(p)
  <2>1. /\ To(p, "clear") /\ UNCHANGED vars /\ shuffle' = shuffle /\ (NoFault \/ Fault)
        /\ row[p].step = "release"
    BY <1>1 DEF PauseRelease, Release, Attempt, At, deckVars
  <2> QED BY <2>1, WayDownOn
<1>2. CASE SitOut(p)
  <2>1. /\ To(p, "handEnd") /\ UNCHANGED vars /\ shuffle' = shuffle /\ (NoFault \/ Fault)
        /\ row[p].step = "sitOut"
    BY <1>2 DEF SitOut, Release, Attempt, At, deckVars
  <2> QED BY <2>1, WayDownOn
<1>3. CASE AwaitHand(p)
  <2>1. /\ To(p, "release") /\ UNCHANGED vars /\ shuffle' = shuffle /\ (NoFault \/ Fault)
        /\ row[p].step = "handEnd" /\ (Waiting \/ Fault)
    BY <1>3 DEF AwaitHand, At, deckVars
  <2> QED BY <2>1, WayDownOn
<1> QED BY <1>1, <1>2, <1>3

(* A pause that gives up leaves the table on the rollup, unless something  *)
(* went wrong.                                                             *)
LEMMA GivesUp ==
    ASSUME CourseIInv, NEW p \in Clients, PauseOver(p),
           row[p].step \in {"clear", "read", "unseat"},
           calm[p] => faults' # 0 \/ row[p].step = "clear"
    PROVE  Alone(p) /\ OnCourse(p)' /\ Ends(p)
<1>1. RowsOK /\ Course(p)
  BY DEF CourseIInv, Grounds, OnCourse
<1>2. calm[p] => coreLayer = "rollup"
  BY <1>1 DEF Course, AllOnRollup
<1>3. CASE row[p].goal # "pause" /\ ~Delegated /\ To(p, "leave")
  <2>1. Walked(p, "leave", row[p].todo, row[p].moved)
    BY <1>1, <1>3, Walks
  <2> QED BY <1>2, <1>3, <2>1, Disturbed, NoEnd DEF Walked, Delegated
<1>4. CASE End(p)
  <2>1. Ended(p)
    BY <1>1, <1>4, Walks
  <2> QED BY <2>1, Disturbed DEF Ended, Ends, WholeOrNothing, Succeeds
<1> QED BY <1>3, <1>4 DEF PauseOver

LEMMA PauseClearOn ==
    ASSUME CourseIInv, NEW p \in Clients, PauseClear(p)
    PROVE  Alone(p) /\ OnCourse(p)' /\ Ends(p)
<1>1. /\ RowsOK /\ Course(p) /\ row[p].step = "clear" /\ UNCHANGED vars
  BY DEF CourseIInv, Grounds, OnCourse, PauseClear, At
<1>2. calm[p] => coreLayer = "rollup"
  BY <1>1 DEF Course, AllOnRollup
<1>3. CASE Stale /\ Reset /\ NoFault /\ To(p, "clear")
  BY <1>1, <1>3, WayDownOn DEF Reset
<1>4. CASE coreLayer # "rollup" /\ To(p, "read")
  <2>1. Walked(p, "read", row[p].todo, row[p].moved)
    BY <1>1, <1>4, Walks
  <2> QED BY <1>2, <1>4, <2>1, Disturbed, NoEnd DEF Walked
<1>5. CASE /\ IF coreLayer = "rollup" /\ shuffle # "idle" THEN Fault ELSE NoFault
           /\ coreLayer = "rollup" /\ To(p, "read") /\ UNCHANGED deckVars
  <2>1. shuffle' = shuffle /\ ((shuffle' = "idle" /\ NoFault) \/ Fault)
    BY <1>5 DEF deckVars
  <2> QED BY <1>1, <1>5, <2>1, WayDownOn
<1>6. CASE PauseOver(p)
  BY <1>1, <1>6, GivesUp
<1> QED BY <1>3, <1>4, <1>5, <1>6 DEF PauseClear

LEMMA PauseLookOn ==
    ASSUME CourseIInv, NEW p \in Clients, PauseLook(p)
    PROVE  Alone(p) /\ OnCourse(p)' /\ Ends(p)
<1>1. /\ RowsOK /\ DeckFits /\ Course(p) /\ Smooth(p) /\ Seating(p) /\ row[p].step = "read"
      /\ UNCHANGED vars /\ shuffle' = shuffle
  BY DEF CourseIInv, Grounds, OnCourse, PauseLook, At, deckVars
<1>2. CASE PauseOver(p) /\ Fault
  BY <1>1, <1>2, FaultIs, GivesUp
<1>3. ASSUME NEW T, T = {i \in Seats : seatLayer[i] # "base"}, Loop(p, "unseat", T), NoFault
      PROVE  Alone(p) /\ OnCourse(p)' /\ Ends(p)
  <2>1. Walked(p, "unseat", T, row[p].moved) /\ faults' = faults
    BY <1>1, <1>3, Walks, FaultIs
  <2>2. row'[p].step = "unseat" /\ row'[p].todo = T /\ (calm'[p] => calm[p])
    BY <2>1 DEF Walked
  <2>3. SameBooks /\ Still /\ (Waiting' <=> Waiting)
    BY <1>1, VarsStay, BooksAre
  <2>4. OnlyUp(T)'
    BY <1>3, <2>3 DEF OnlyUp, Still
  <2>5. calm[p] => tableExists /\ coreLayer = "rollup"
    BY <1>1 DEF Course, AllOnRollup
  <2>6. Course(p)'
    BY <2>2, <2>3, <2>5 DEF Course, SameBooks, Still
  <2>7. Smooth(p)' /\ Rough(p)'
    BY <1>1, <2>1, <2>2, <2>3, <2>4 DEF Smooth, Rough, OnlyUp
  <2>8. Seating(p)'
    BY <1>1, <2>1, <2>3, SeatingKept DEF Pausing
  <2> QED BY <2>1, <2>2, <2>6, <2>7, <2>8, NoEnd DEF Walked, OnCourse
<1> QED BY <1>2, <1>3 DEF PauseLook

LEMMA PauseSeatOn ==
    ASSUME CourseIInv, NEW p \in Clients, PauseSeat(p)
    PROVE  Alone(p) /\ OnCourse(p)' /\ Ends(p)
<1>1. /\ RowsOK /\ IInv /\ DeckFits /\ Course(p) /\ Smooth(p) /\ Seating(p)
      /\ row[p].step = "unseat" /\ row[p].todo # {} /\ shuffle' = shuffle
  BY DEF CourseIInv, Grounds, OnCourse, PauseSeat, At, deckVars
<1>2. PICK i \in Seats : TryUndelegate(i) /\ Loop(p, "unseat", row[p].todo \ {i})
  BY <1>1, RowFields DEF PauseSeat
<1>3. PICK S, T : S = row[p].todo /\ T = S \ {i} /\ TryUndelegate(i) /\ Loop(p, "unseat", T)
  BY <1>2
<1>4. /\ SameBooks /\ coreLayer' = coreLayer /\ (NoFault \/ Fault)
      /\ Waiting /\ NoFault /\ OnlyUp(S) => OnlyUp(T)'
  BY <1>1, <1>3, SentBack
<1>5. Walked(p, "unseat", T, row[p].moved)
  BY <1>1, <1>3, Walks
<1>6. row'[p].step = "unseat" /\ row'[p].todo = T /\ (calm'[p] => calm[p])
  BY <1>5 DEF Walked
<1>7. /\ faults' = faults \/ faults' # 0
      /\ faults' = 0 => NoFault
  BY <1>1, <1>4, FaultIs
<1>8. Waiting' <=> Waiting
  BY <1>4, BooksAre
<1>9. Course(p)'
  BY <1>1, <1>4, <1>6, <1>8 DEF Course, SameBooks
<1>10. Smooth(p)'
  <2>1. calm[p] /\ faults = 0 => Waiting /\ shuffle = "idle" /\ OnlyUp(S)
    BY <1>1, <1>3 DEF Smooth
  <2>2. calm[p] /\ faults' = 0 => Waiting' /\ shuffle' = "idle" /\ OnlyUp(T)'
    BY <1>1, <1>4, <1>7, <1>8, <2>1
  <2> QED BY <1>6, <2>2 DEF Smooth, OnlyUp
<1>11. Rough(p)'
  BY <1>6 DEF Rough
<1>12. Seating(p)'
  BY <1>1, <1>4, <1>5, <1>7, SeatingKept DEF Pausing
<1> QED BY <1>5, <1>6, <1>9, <1>10, <1>11, <1>12, NoEnd DEF Walked, OnCourse

LEMMA PauseCoreOn ==
    ASSUME CourseIInv, NEW p \in Clients, PauseCore(p)
    PROVE  Alone(p) /\ OnCourse(p)' /\ Ends(p)
<1>1. /\ RowsOK /\ IInv /\ DeckFits /\ Course(p) /\ Smooth(p) /\ Seating(p)
      /\ row[p].step = "unseat" /\ row[p].todo = {} /\ shuffle' = shuffle
  BY DEF CourseIInv, Grounds, OnCourse, PauseCore, At, deckVars
<1>2. calm[p] => tableExists /\ coreLayer = "rollup"
  BY <1>1 DEF Course
<1>3. calm[p] /\ faults = 0 => CoreMayLeave /\ OnlyUp({})
  BY <1>1, <1>2 DEF Smooth, CoreMayLeave
<1>4. CASE CoreMayLeave /\ UndelegateCore /\ NoFault /\ To(p, "landing")
  <2>1. Walked(p, "landing", row[p].todo, row[p].moved) /\ faults' = faults
    BY <1>1, <1>4, Walks, FaultIs
  <2>2. row'[p].step = "landing" /\ (calm'[p] => calm[p])
    BY <2>1 DEF Walked
  <2>3. SameBooks /\ coreLayer' = "leaving" /\ seatLayer' = seatLayer
    BY <1>4 DEF UndelegateCore, moneyVars, tableVars, seatVars, SameBooks
  <2>4. OnlyUp({})' <=> OnlyUp({})
    BY <2>3 DEF OnlyUp
  <2>5. Course(p)' /\ Smooth(p)' /\ Rough(p)'
    BY <1>2, <1>3, <2>1, <2>2, <2>3, <2>4 DEF Course, Smooth, Rough, SameBooks
  <2>6. Seating(p)'
    BY <1>1, <2>1, <2>3, SeatingKept DEF Pausing
  <2> QED BY <2>1, <2>2, <2>5, <2>6, NoEnd DEF Walked, OnCourse
<1>5. CASE UNCHANGED vars /\ PauseOver(p) /\ ((~CoreMayLeave /\ NoFault) \/ Fault)
  <2>1. faults' = 0 => faults = 0 /\ ~CoreMayLeave
    BY <1>1, <1>5, FaultIs
  <2> QED BY <1>1, <1>3, <1>5, <2>1, GivesUp
<1> QED BY <1>4, <1>5 DEF PauseCore

(* Whoever gives up waiting had nothing left on the rollup; whoever does   *)
(* not waits until nothing is away.                                        *)
LEMMA PauseLandingOn ==
    ASSUME CourseIInv, NEW p \in Clients, PauseLanding(p)
    PROVE  Alone(p) /\ OnCourse(p)' /\ Ends(p)
<1>1. /\ RowsOK /\ IInv /\ DeckFits /\ Course(p) /\ Smooth(p) /\ Seating(p)
      /\ row[p].step = "landing" /\ shuffle' = shuffle /\ UNCHANGED vars
      /\ coreLayer \in Layers
  BY DEF CourseIInv, Grounds, OnCourse, PauseLanding, At, deckVars, IInv, TypeOK
<1>2. /\ SameBooks /\ Still /\ coreLayer' = coreLayer
      /\ SeatsHome' <=> SeatsHome
      /\ Landed' <=> Landed
      /\ OnlyUp({})' <=> OnlyUp({})
  BY <1>1, VarsStay, StillIs DEF Still
<1>3. /\ Fault => faults' # 0 /\ (MaxFaults <= 1 => faults = 0)
      /\ NoFault => faults' = faults
  BY <1>1, FaultIs
<1>4. ~InTransit => Landed /\ coreLayer # "leaving"
  BY DEF InTransit, Landed
<1>5. ASSUME calm[p], MaxFaults <= 1, Fault PROVE OnlyUp({})
  BY <1>1, <1>3, <1>5 DEF Smooth
<1>6. ASSUME NEW step, To(p, step), Fault \/ (NoFault /\ step = "sweep" /\ ~InTransit),
             step \in {"sweep", "leave"}, step = "leave" => ~Delegated
      PROVE  Alone(p) /\ OnCourse(p)' /\ Ends(p)
  <2>1. Walked(p, step, row[p].todo, row[p].moved) /\ (faults' = faults \/ faults' # 0)
    BY <1>1, <1>3, <1>6, Walks
  <2>2. row'[p].step = step /\ (calm'[p] => calm[p])
    BY <2>1 DEF Walked
  <2>3. Course(p)'
    BY <1>1, <1>2, <1>6, <2>2 DEF Course, SameBooks, Delegated
  <2>4. Smooth(p)'
    <3>1. ASSUME calm[p], faults' = 0 PROVE SeatsHome /\ coreLayer = "base"
      <4>1. Landed /\ coreLayer # "leaving" /\ faults = 0
        BY <1>3, <1>4, <1>6, <3>1
      <4>2. coreLayer # "rollup" /\ OnlyUp({})
        BY <1>1, <3>1, <4>1 DEF Course, Smooth
      <4> QED BY <1>1, <4>1, <4>2, AllDown DEF Layers
    <3> QED BY <1>2, <1>6, <2>2, <3>1 DEF Smooth
  <2>5. Rough(p)'
    <3>1. ASSUME calm[p], faults' # 0, MaxFaults <= 1 PROVE Landed \/ OnlyUp({})
      BY <1>4, <1>5, <1>6, <3>1
    <3> QED BY <1>2, <1>6, <2>2, <3>1 DEF Rough
  <2>6. Seating(p)'
    BY <1>1, <1>2, <1>6, <2>1, SeatingKept DEF Pausing
  <2> QED BY <1>6, <2>1, <2>2, <2>3, <2>4, <2>5, <2>6, NoEnd DEF Walked, OnCourse
<1>7. CASE Fault /\ End(p)
  <2>1. Ended(p) /\ faults' # 0
    BY <1>1, <1>3, <1>7, Walks
  <2> QED BY <1>1, <2>1, Disturbed DEF Ended, Ends, WholeOrNothing, Succeeds
<1> QED BY <1>6, <1>7 DEF PauseLanding, PauseOver

LEMMA SweepIs ==
    ASSUME IInv, DeckFits, TrySweep
    PROVE  /\ Still /\ tableExists' = tableExists /\ seatMap' = seatMap
           /\ tableState' = tableState /\ seatExists' = seatExists
           /\ Funded' = Funded /\ Seated' = Seated /\ \A p : SeatOf(p)' = SeatOf(p)
           /\ NoFault \/ Fault
           /\ faults' = 0 /\ CoreOnBase => rakeAccrued' = 0
<1>1. rakeAccrued \in Nat /\ Has(Treasury)
  BY DEF IInv, TypeOK, DeckFits
<1>2. CASE SweepRake /\ NoFault
  <2>1. /\ Still /\ tableExists' = tableExists /\ seatMap' = seatMap
        /\ tableState' = tableState /\ seatExists' = seatExists
        /\ occupant' = occupant /\ stack' = stack /\ rakeAccrued' = 0
    BY <1>2 DEF SweepRake, seatVars, layerVars, Still
  <2> QED BY <1>2, <2>1 DEF Funded, Seated, SeatOf
<1>3. CASE ~(CoreOnBase /\ rakeAccrued > 0 /\ Has(Treasury)) /\ UNCHANGED vars /\ NoFault
  <2>1. CoreOnBase => rakeAccrued = 0
    BY <1>1, <1>3
  <2> QED BY <1>3, <2>1, VarsStay, BooksAre DEF SameBooks
<1>4. CASE UNCHANGED vars /\ Fault
  <2>1. faults' # 0
    BY <1>4, FaultIs
  <2> QED BY <1>4, <2>1, VarsStay, BooksAre DEF SameBooks
<1> QED BY <1>2, <1>3, <1>4 DEF TrySweep, Attempt

LEMMA PauseSweepOn ==
    ASSUME CourseIInv, NEW p \in Clients, PauseSweep(p)
    PROVE  Alone(p) /\ OnCourse(p)' /\ Ends(p)
<1>1. /\ RowsOK /\ IInv /\ DeckFits /\ Course(p) /\ Smooth(p) /\ Rough(p) /\ Seating(p)
      /\ Fits(row[p]) /\ row[p] \in Rows
      /\ row[p].step = "sweep" /\ shuffle' = shuffle /\ TrySweep /\ PauseOver(p)
  BY RowFields DEF CourseIInv, Grounds, InStep, OnCourse, PauseSweep, At, deckVars
<1>2. /\ Still /\ tableExists' = tableExists /\ seatMap' = seatMap
      /\ tableState' = tableState
      /\ NoFault \/ Fault
      /\ faults' = 0 /\ CoreOnBase => rakeAccrued' = 0
  BY <1>1, SweepIs
<1>3. faults' = faults \/ (faults' # 0 /\ (MaxFaults <= 1 => faults = 0))
  BY <1>1, <1>2, FaultIs
<1>4. /\ coreLayer' = coreLayer
      /\ SeatsHome' <=> SeatsHome
      /\ Landed' <=> Landed
      /\ OnlyUp({})' <=> OnlyUp({})
  BY <1>2, StillIs DEF Still
<1>5. calm[p] => tableExists
  BY <1>1 DEF Course
<1>6. calm[p] /\ faults = 0 => SeatsHome /\ coreLayer = "base"
  BY <1>1 DEF Smooth
<1>7. CASE row[p].goal # "pause" /\ ~Delegated /\ To(p, "leave")
  <2>1. Walked(p, "leave", row[p].todo, row[p].moved)
    BY <1>1, <1>7, Walks
  <2>2. /\ row'[p].step = "leave" /\ row'[p].goal = row[p].goal
        /\ row'[p].leaving = row[p].leaving /\ (calm'[p] => calm[p])
    BY <2>1 DEF Walked
  <2>3. Course(p)'
    BY <1>2, <1>4, <1>5, <1>7, <2>2 DEF Course, Delegated
  <2>4. Smooth(p)'
    BY <1>3, <1>4, <1>6, <2>2 DEF Smooth
  <2>5. calm[p] /\ faults' # 0 /\ MaxFaults <= 1 => Landed \/ OnlyUp({})
    BY <1>1, <1>3, <1>6, AllDown DEF Rough
  <2>6. Rough(p)'
    BY <1>4, <2>2, <2>5 DEF Rough
  <2>7. Seating(p)'
    BY <1>1, <1>2, <1>3, <2>2 DEF Seating, Pausing, Starting
  <2> QED BY <2>1, <2>2, <2>3, <2>4, <2>6, <2>7, NoEnd DEF Walked, OnCourse
<1>8. CASE ~(row[p].goal # "pause" /\ ~Delegated) /\ End(p)
  <2>1. Ended(p)
    BY <1>1, <1>8, Walks
  <2>2. ASSUME calm[p], faults' = 0 PROVE Outcome(p)
    <3>1. SeatsHome /\ coreLayer = "base" /\ CoreOnBase
      BY <1>3, <1>5, <1>6, <2>2 DEF CoreOnBase
    <3>2. row[p].goal = "pause"
      BY <1>8, <3>1 DEF Delegated
    <3>3. AllHome' /\ rakeAccrued' = 0
      BY <1>2, <1>4, <2>2, <3>1 DEF AllHome, SeatsHome
    <3> QED BY <3>2, <3>3 DEF Outcome
  <2> QED BY <1>1, <2>1, <2>2, Disturbed DEF Ended, Ends, WholeOrNothing, Succeeds
<1> QED BY <1>1, <1>7, <1>8 DEF PauseOver

(* Leaving, sitting down again and deleting happen at home.                *)
LEMMA HomeKept ==
    ASSUME NEW p \in Clients, Course(p), Smooth(p), Rough(p),
           Still, tableExists' = tableExists, calm'[p] => calm[p],
           faults' = faults \/ (faults' # 0 /\ (MaxFaults <= 1 => faults = 0)),
           \/ /\ row[p].step \in {"leave", "sweepHome", "sit"}
              /\ row'[p].step \in {"sweepHome", "sit", "core"}
           \/ row[p].step = "clearing" /\ row'[p].step \in {"clearing", "closing"}
    PROVE  Course(p)' /\ Smooth(p)' /\ Rough(p)'
<1>1. /\ coreLayer' = coreLayer
      /\ SeatsHome' <=> SeatsHome
      /\ Landed' <=> Landed
      /\ OnlyUp({})' <=> OnlyUp({})
  BY StillIs DEF Still
<1>2. Course(p)'
  BY <1>1 DEF Course
<1>3. calm[p] /\ faults = 0 => SeatsHome
  BY DEF Smooth
<1>4. Smooth(p)'
  BY <1>1, <1>3 DEF Smooth
<1>5. ASSUME calm'[p], faults' # 0, MaxFaults <= 1, row'[p].step \in {"sweepHome", "sit", "core"}
      PROVE  Landed \/ OnlyUp({})
  BY <1>3, <1>5, AllDown DEF Rough
<1>6. Rough(p)'
  BY <1>1, <1>5 DEF Rough
<1> QED BY <1>2, <1>4, <1>6

(* A seat is emptied. *)
LEMMA EmptiedIs ==
    ASSUME NEW i \in Seats, NEW returned, Empty(i, returned)
    PROVE  /\ Still /\ tableExists' = tableExists /\ tableState' = tableState
           /\ seatExists' = seatExists /\ rakeAccrued' = rakeAccrued
           /\ seatMap' = [seatMap EXCEPT ![i] = Nobody]
BY DEF Empty, FreeTheMap, layerVars, Still

LEMMA OwnSeat ==
    ASSUME IInv, Standing, tableExists, NEW i \in Seats, NEW p \in Players
    PROVE  /\ seatMap[i] = occupant[i]
           /\ seatMap[i] = p => \A j \in Seats : seatMap[j] = p => j = i
BY DEF IInv, SeatMapAgrees, OneSeatEach, Standing

LEMMA LeaveOn ==
    ASSUME CourseIInv, NEW p \in Clients, Leave(p)
    PROVE  Alone(p) /\ OnCourse(p)' /\ Ends(p)
<1> DEFINE i == row[p].leaving
           next == IF row[p].goal = "rebuy" THEN "sit" ELSE "sweepHome"
<1>1. /\ Grounds /\ RowsOK /\ IInv /\ DeckFits /\ Standing
      /\ Course(p) /\ Smooth(p) /\ Rough(p) /\ Seating(p)
      /\ Fits(row[p]) /\ row[p] \in Rows /\ row[p].step = "leave" /\ p \in Players
      /\ seatMap \in [Seats -> Players \cup {Nobody}]
  BY RowFields DEF CourseIInv, Grounds, InStep, OnCourse, Leave, At, IInv, TypeOK
<1>2. row[p].goal \in {"cashOut", "rebuy"}
  BY <1>1 DEF Fits, Rows, Buttons, Starting, Pausing
<1>3. CASE MayStandUp(p, i) /\ VacateOwnSeat(i) /\ NoFault /\ To(p, next)
  <2>1. Walked(p, next, row[p].todo, row[p].moved) /\ faults' = faults
    BY <1>1, <1>3, Walks, FaultIs
  <2>2. /\ row'[p].step = next /\ row'[p].goal = row[p].goal
        /\ row'[p].leaving = row[p].leaving /\ (calm'[p] => calm[p])
    BY <2>1 DEF Walked
  <2>3. i \in Seats /\ occupant[i] = p /\ tableExists
    BY <1>3 DEF MayStandUp, CoreOnBase
  <2>4. /\ Still /\ tableExists' = tableExists /\ seatMap' = [seatMap EXCEPT ![i] = Nobody]
    BY <1>3, <2>3, EmptiedIs DEF VacateOwnSeat
  <2>5. Course(p)' /\ Smooth(p)' /\ Rough(p)'
    BY <1>1, <2>1, <2>2, <2>4, HomeKept
  <2>6. seatMap'[i] = Nobody /\ \A j \in Seats : seatMap'[j] # p
    BY <1>1, <2>3, <2>4, OwnSeat, CustodyAssumption
  <2>7. SeatOf(p)' = {}
    BY <2>6 DEF SeatOf
  <2>8. Seating(p)'
    BY <1>2, <2>2, <2>3, <2>6, <2>7 DEF Seating, Starting, Pausing
  <2> QED BY <2>1, <2>2, <2>5, <2>8, NoEnd DEF Walked, OnCourse
<1>4. CASE /\ UNCHANGED <<vars, secured>>
           /\ IF MayStandUp(p, i) THEN Fault ELSE NoFault
           /\ IF row[p].goal = "rebuy" THEN End(p) ELSE To(p, "sweepHome")
  <2>1. calm[p] /\ faults = 0 => MayStandUp(p, i)
    <3> SUFFICES ASSUME calm[p], faults = 0 PROVE MayStandUp(p, i)
      OBVIOUS
    <3>1. i \in Seats /\ seatMap[i] = p
      BY <1>1, <1>2 DEF Seating, Pausing
    <3>2. tableExists /\ coreLayer = "base" /\ SeatsHome
      BY <1>1 DEF Course, Smooth
    <3>3. occupant[i] = p /\ seatExists[i] /\ seatLayer[i] = "base"
      BY <1>1, <3>1, <3>2, OwnSeat DEF Standing, SeatsHome
    <3> QED BY <1>1, <3>1, <3>2, <3>3, OffRollup DEF MayStandUp, CoreOnBase, SeatOnBase
  <2>2. /\ faults' = faults \/ (faults' # 0 /\ (MaxFaults <= 1 => faults = 0))
        /\ calm[p] => faults' # 0
    BY <1>1, <1>4, <2>1, FaultIs
  <2>3. Still /\ tableExists' = tableExists
    BY <1>4, VarsStay DEF SameBooks
  <2>4. CASE End(p)
    <3>1. Ended(p)
      BY <1>1, <2>4, Walks
    <3> QED BY <1>1, <2>2, <3>1, Disturbed DEF Ended, Ends, WholeOrNothing, Succeeds
  <2>5. CASE To(p, "sweepHome")
    <3>1. Walked(p, "sweepHome", row[p].todo, row[p].moved)
      BY <1>1, <2>5, Walks
    <3>2. row'[p].step = "sweepHome" /\ (calm'[p] => calm[p])
      BY <3>1 DEF Walked
    <3>3. Course(p)' /\ Smooth(p)' /\ Rough(p)'
      BY <1>1, <2>2, <2>3, <3>2, HomeKept
    <3>4. Seating(p)'
      BY <2>2, <3>2 DEF Seating
    <3> QED BY <3>1, <3>2, <3>3, <3>4, NoEnd DEF Walked, OnCourse
  <2> QED BY <1>4, <2>4, <2>5
<1> QED BY <1>1, <1>3, <1>4 DEF Leave

(* An errand that puts the table back up starts it like anybody would. *)
LEMMA Resumes ==
    ASSUME RowsOK, NEW p \in Clients, NEW playing, NEW r \in Rows, Resume(p, playing, r)
    PROVE  \/ /\ Cardinality(playing) >= 2
              /\ row'[p].step = "core" /\ row'[p].goal = r.goal /\ (calm'[p] => calm[p])
              /\ Alone(p)
           \/ ~(Cardinality(playing) >= 2) /\ Ended(p)
<1>1. CASE Cardinality(playing) >= 2
  <2> DEFINE s == [r EXCEPT !.step = "core"]
  <2>1. s.step = "core" /\ s.goal = r.goal
    BY DEF Rows
  <2>2. Becomes(p, s)
    BY <1>1 DEF Resume
  <2> HIDE DEF s
  <2> QED BY <1>1, <2>1, <2>2, Turns
<1>2. CASE ~(Cardinality(playing) >= 2)
  BY <1>2, Walks DEF Resume
<1> QED BY <1>1, <1>2

LEMMA FundedFinite == IsFiniteSet(Funded) /\ Cardinality(Funded) \in Nat
BY SeatsFinite, FS_CardinalityType DEF Funded

LEMMA SweepHomeOn ==
    ASSUME CourseIInv, NEW p \in Clients, SweepHome(p)
    PROVE  Alone(p) /\ OnCourse(p)' /\ Ends(p)
<1>1. /\ RowsOK /\ IInv /\ DeckFits /\ Standing
      /\ Course(p) /\ Smooth(p) /\ Rough(p) /\ Seating(p)
      /\ Fits(row[p]) /\ row[p] \in Rows /\ row[p].step = "sweepHome"
      /\ TrySweep /\ Resume(p, Funded \ {row[p].leaving}, row[p])
  BY RowFields DEF CourseIInv, Grounds, InStep, OnCourse, SweepHome, At
<1>2. row[p].goal = "cashOut"
  BY <1>1 DEF Fits, Rows, Buttons, Starting, Pausing
<1>3. /\ Still /\ tableExists' = tableExists
      /\ Funded' = Funded /\ SeatOf(p)' = SeatOf(p)
      /\ NoFault \/ Fault
      /\ faults' = 0 /\ CoreOnBase => rakeAccrued' = 0
  BY <1>1, SweepIs
<1>4. faults' = faults \/ (faults' # 0 /\ (MaxFaults <= 1 => faults = 0))
  BY <1>1, <1>3, FaultIs
<1>5. calm[p] => CoreOnBase /\ tableExists /\ coreLayer = "base"
  BY <1>1 DEF Course, CoreOnBase
<1>6. ASSUME calm[p], faults = 0
      PROVE  SeatOf(p) = {} /\ SeatsHome /\ Funded \ {row[p].leaving} = Funded
  <2>1. SeatOf(p) = {} /\ SeatsHome /\ row[p].leaving \in Seats /\ seatMap[row[p].leaving] = Nobody
    BY <1>1, <1>6 DEF Seating, Smooth
  <2>2. occupant[row[p].leaving] = Nobody
    BY <1>1, <1>5, <1>6, <2>1, CustodyAssumption, OwnSeat
  <2> QED BY <2>1, <2>2 DEF Funded
<1>7. CASE /\ Cardinality(Funded \ {row[p].leaving}) >= 2
           /\ row'[p].step = "core" /\ row'[p].goal = row[p].goal /\ (calm'[p] => calm[p])
           /\ Alone(p)
  <2>1. Course(p)' /\ Smooth(p)' /\ Rough(p)'
    BY <1>1, <1>3, <1>4, <1>7, HomeKept
  <2>2. calm[p] /\ faults' = 0 =>
          SeatOf(p)' = {} /\ rakeAccrued' = 0 /\ Cardinality(Funded') >= 2
    BY <1>3, <1>4, <1>5, <1>6, <1>7
  <2>3. Seating(p)'
    BY <1>2, <1>7, <2>2 DEF Seating, Starting, Pausing
  <2> QED BY <1>7, <2>1, <2>3, NoEnd DEF OnCourse
<1>8. CASE ~(Cardinality(Funded \ {row[p].leaving}) >= 2) /\ Ended(p)
  <2>1. ASSUME calm[p], faults' = 0 PROVE Outcome(p)
    <3>1. /\ SeatOf(p)' = {} /\ rakeAccrued' = 0 /\ SeatsHome /\ coreLayer = "base"
          /\ ~(Cardinality(Funded') >= 2)
      BY <1>3, <1>4, <1>5, <1>6, <1>8, <2>1
    <3>2. AllHome'
      BY <1>3, <3>1 DEF AllHome, SeatsHome, Still
    <3> QED BY <1>2, <3>1, <3>2 DEF Outcome, TableIsBack
  <2> QED BY <1>1, <1>8, <2>1, Disturbed DEF Ended, Ends, WholeOrNothing, Succeeds
<1> QED BY <1>1, <1>7, <1>8, Resumes

LEMMA SatDown ==
    ASSUME IInv, NEW p \in Players, NEW i \in Seats, TakeSeat(p, i)
    PROVE  /\ Still /\ tableExists' = tableExists
           /\ seatMap' = [seatMap EXCEPT ![i] = p]
           /\ Funded' = Funded \cup {i}
           /\ i \in SeatOf(p)'
<1>1. PICK buyIn \in MinBuyIn .. MaxBuyIn :
        /\ Still /\ tableExists' = tableExists
        /\ seatMap' = [seatMap EXCEPT ![i] = p]
        /\ occupant' = [occupant EXCEPT ![i] = p]
        /\ stack' = [stack EXCEPT ![i] = buyIn]
  BY DEF TakeSeat, layerVars, Still
<1>2. /\ seatMap \in [Seats -> Players \cup {Nobody}]
      /\ occupant \in [Seats -> Players \cup {Nobody}] /\ stack \in [Seats -> Nat]
  BY DEF IInv, TypeOK
<1>3. buyIn > 0 /\ p # Nobody
  BY CustodyAssumption
<1>4. Funded' = Funded \cup {i}
  BY <1>1, <1>2, <1>3 DEF Funded
<1>5. i \in SeatOf(p)'
  BY <1>1, <1>2 DEF SeatOf
<1> QED BY <1>1, <1>4, <1>5

LEMMA SitBackOn ==
    ASSUME CourseIInv, NEW p \in Clients, SitBack(p)
    PROVE  Alone(p) /\ OnCourse(p)' /\ Ends(p)
<1> DEFINE i == row[p].leaving
           r == [row[p] EXCEPT !.leaving = NoSeat]
<1>1. /\ RowsOK /\ IInv /\ DeckFits /\ Standing
      /\ Course(p) /\ Smooth(p) /\ Rough(p) /\ Seating(p)
      /\ Fits(row[p]) /\ row[p] \in Rows /\ row[p].step = "sit" /\ p \in Players
  BY RowFields DEF CourseIInv, Grounds, InStep, OnCourse, SitBack, At
<1>2. row[p].goal = "rebuy"
  BY <1>1 DEF Fits, Rows, Buttons, Starting, Pausing
<1>3. r \in Rows /\ r.goal = "rebuy"
  BY <1>1, <1>2 DEF Rows
<1> HIDE DEF r
<1>4. CASE MaySit(p, i) /\ TakeSeat(p, i) /\ NoFault /\ Resume(p, Funded \cup {i}, r)
  <2>1. i \in Seats /\ tableExists /\ coreLayer = "base"
    BY <1>4 DEF MaySit, CoreOnBase
  <2>2. /\ Still /\ tableExists' = tableExists
        /\ Funded' = Funded \cup {i} /\ i \in SeatOf(p)' /\ faults' = faults
    BY <1>1, <1>4, <2>1, SatDown, FaultIs
  <2>3. calm[p] /\ faults = 0 => SeatsHome
    BY <1>1 DEF Smooth
  <2>4. CASE /\ Cardinality(Funded \cup {i}) >= 2
             /\ row'[p].step = "core" /\ row'[p].goal = r.goal /\ (calm'[p] => calm[p])
             /\ Alone(p)
    <3>1. Course(p)' /\ Smooth(p)' /\ Rough(p)'
      BY <1>1, <2>2, <2>4, HomeKept
    <3>2. Cardinality(Funded') >= 2 /\ SeatOf(p)' # {}
      BY <2>2, <2>4
    <3>3. Seating(p)'
      BY <1>3, <2>4, <3>2 DEF Seating, Starting, Pausing
    <3> QED BY <2>4, <3>1, <3>3, NoEnd DEF OnCourse
  <2>5. CASE ~(Cardinality(Funded \cup {i}) >= 2) /\ Ended(p)
    <3>1. ASSUME calm[p], faults' = 0 PROVE Outcome(p)
      <4>1. SeatsHome /\ ~(Cardinality(Funded') >= 2) /\ SeatOf(p)' # {}
        BY <2>2, <2>3, <2>5, <3>1
      <4>2. AllHome'
        BY <2>1, <2>2, <4>1 DEF AllHome, SeatsHome, Still
      <4> QED BY <1>2, <4>1, <4>2 DEF Outcome, TableIsBack
    <3> QED BY <1>1, <2>5, <3>1, Disturbed DEF Ended, Ends, WholeOrNothing, Succeeds
  <2> QED BY <1>1, <1>3, <1>4, <2>4, <2>5, Resumes
<1>5. CASE UNCHANGED vars /\ End(p) /\ (IF MaySit(p, i) THEN Fault ELSE NoFault)
  <2>1. Ended(p)
    BY <1>1, <1>5, Walks
  <2>2. ASSUME calm[p], faults' = 0 PROVE Outcome(p)
    <3>1. faults = 0 /\ ~MaySit(p, i)
      BY <1>1, <1>5, <2>2, FaultIs
    <3>2. /\ SeatOf(p) = {} /\ i \in Seats /\ seatMap[i] = Nobody
          /\ SeatsHome /\ tableExists /\ coreLayer = "base"
      BY <1>1, <2>2, <3>1 DEF Seating, Smooth, Course
    <3>3. CoreOnBase /\ SeatOnBase(i)
      BY <1>1, <3>2 DEF CoreOnBase, SeatOnBase, Standing, SeatsHome
    <3>4. ~CanPay(p, MinBuyIn)
      BY <3>1, <3>2, <3>3 DEF MaySit
    <3>5. Still /\ SameBooks /\ SeatOf(p)' = SeatOf(p)
      BY <1>5, VarsStay, BooksAre
    <3>6. AllHome' /\ ~CanPay(p, MinBuyIn)'
      BY <3>2, <3>4, <3>5 DEF AllHome, SeatsHome, Still, SameBooks, CanPay
    <3> QED BY <1>2, <3>2, <3>5, <3>6 DEF Outcome
  <2> QED BY <1>1, <2>1, <2>2, Disturbed DEF Ended, Ends, WholeOrNothing, Succeeds
<1> QED BY <1>4, <1>5 DEF SitBack, r

LEMMA ClearSeatOn ==
    ASSUME CourseIInv, NEW p \in Clients, ClearSeat(p)
    PROVE  Alone(p) /\ OnCourse(p)' /\ Ends(p)
<1>1. /\ RowsOK /\ IInv /\ DeckFits /\ Standing
      /\ Course(p) /\ Smooth(p) /\ Rough(p) /\ Seating(p)
      /\ Fits(row[p]) /\ row[p] \in Rows /\ row[p].step = "clearing" /\ row[p].todo # {}
  BY RowFields DEF CourseIInv, Grounds, InStep, OnCourse, ClearSeat, At
<1>2. row[p].goal = "delete"
  BY <1>1 DEF Fits, Rows, Buttons, Starting, Pausing
<1>3. PICK S, i : S = row[p].todo /\ i = Least(S)
  OBVIOUS
<1>4. i \in Seats /\ i \in S
  BY <1>1, <1>3, RowFields, LeastIn
<1>5. CASE VacateSeat(p, i) /\ NoFault /\ Loop(p, "clearing", S \ {i})
  <2>1. Walked(p, "clearing", S \ {i}, row[p].moved) /\ faults' = faults
    BY <1>1, <1>5, Walks, FaultIs
  <2>2. /\ row'[p].step = "clearing" /\ row'[p].todo = S \ {i}
        /\ row'[p].goal = row[p].goal /\ (calm'[p] => calm[p])
    BY <2>1 DEF Walked
  <2>3. /\ Still /\ tableExists' = tableExists /\ seatMap' = [seatMap EXCEPT ![i] = Nobody]
    BY <1>4, <1>5, EmptiedIs DEF VacateSeat
  <2>4. Course(p)' /\ Smooth(p)' /\ Rough(p)'
    BY <1>1, <2>1, <2>2, <2>3, HomeKept
  <2>5. Seated' = Seated \ {i}
    BY <1>1, <1>4, <2>3 DEF Seated, IInv, TypeOK
  <2>6. calm[p] /\ faults = 0 => Seated = S
    BY <1>1, <1>3 DEF Seating
  <2>7. PICK U : U = Seated'
    OBVIOUS
  <2>8. calm[p] /\ faults = 0 => U = row'[p].todo
    BY <2>2, <2>5, <2>6, <2>7
  <2>9. Seating(p)'
    BY <1>2, <2>1, <2>2, <2>7, <2>8 DEF Seating
  <2> QED BY <2>1, <2>2, <2>4, <2>9, NoEnd DEF Walked, OnCourse
<1>6. CASE (IF MayVacate(i) THEN Fault ELSE NoFault) /\ End(p)
  <2>1. Ended(p)
    BY <1>1, <1>6, Walks
  <2>2. ASSUME calm[p], faults = 0 PROVE MayVacate(i)
    <3>1. Seated = S /\ SeatsHome /\ tableExists /\ coreLayer = "base"
      BY <1>1, <1>3, <2>2 DEF Seating, Smooth, Course
    <3>2. seatMap[i] # Nobody
      BY <1>4, <3>1 DEF Seated
    <3>3. occupant[i] # Nobody /\ seatExists[i] /\ seatLayer[i] = "base"
      BY <1>1, <1>4, <3>1, <3>2 DEF IInv, SeatMapAgrees, Standing, SeatsHome
    <3> QED BY <1>1, <3>1, <3>3, OffRollup DEF MayVacate, CoreOnBase, SeatOnBase
  <2>3. calm[p] => faults' # 0
    BY <1>1, <1>6, <2>2, FaultIs
  <2> QED BY <1>1, <2>1, <2>3, Disturbed DEF Ended, Ends, WholeOrNothing, Succeeds
<1> QED BY <1>3, <1>5, <1>6 DEF ClearSeat

LEMMA DeleteSweepOn ==
    ASSUME CourseIInv, NEW p \in Clients, DeleteSweep(p)
    PROVE  Alone(p) /\ OnCourse(p)' /\ Ends(p)
<1>1. /\ RowsOK /\ IInv /\ DeckFits
      /\ Course(p) /\ Smooth(p) /\ Rough(p) /\ Seating(p)
      /\ Fits(row[p]) /\ row[p] \in Rows /\ row[p].step = "clearing" /\ row[p].todo = {}
      /\ TrySweep /\ To(p, "closing")
  BY RowFields DEF CourseIInv, Grounds, InStep, OnCourse, DeleteSweep, At
<1>2. row[p].goal = "delete"
  BY <1>1 DEF Fits, Rows, Buttons, Starting, Pausing
<1>3. /\ Still /\ tableExists' = tableExists /\ Seated' = Seated
      /\ NoFault \/ Fault
      /\ faults' = 0 /\ CoreOnBase => rakeAccrued' = 0
  BY <1>1, SweepIs
<1>4. faults' = faults \/ (faults' # 0 /\ (MaxFaults <= 1 => faults = 0))
  BY <1>1, <1>3, FaultIs
<1>5. Walked(p, "closing", row[p].todo, row[p].moved)
  BY <1>1, Walks
<1>6. row'[p].step = "closing" /\ row'[p].goal = row[p].goal /\ (calm'[p] => calm[p])
  BY <1>5 DEF Walked
<1>7. Course(p)' /\ Smooth(p)' /\ Rough(p)'
  BY <1>1, <1>3, <1>4, <1>6, HomeKept
<1>8. calm[p] /\ faults' = 0 => Seated' = {} /\ rakeAccrued' = 0
  BY <1>1, <1>3, <1>4 DEF Seating, Course, CoreOnBase
<1>9. Seating(p)'
  BY <1>2, <1>6, <1>8 DEF Seating
<1> QED BY <1>5, <1>6, <1>7, <1>9, NoEnd DEF Walked, OnCourse

LEMMA DeleteCloseOn ==
    ASSUME CourseIInv, NEW p \in Clients, DeleteClose(p)
    PROVE  Alone(p) /\ OnCourse(p)' /\ Ends(p)
<1>1. /\ RowsOK /\ IInv /\ DeckFits /\ Standing
      /\ Course(p) /\ Smooth(p) /\ Seating(p)
      /\ Fits(row[p]) /\ row[p] \in Rows /\ row[p].step = "closing" /\ End(p)
      /\ Attempt(CoreOnBase /\ Emptied /\ \A i \in Seats : SeatOnBase(i), CloseTable(p), vars)
  BY RowFields DEF CourseIInv, Grounds, InStep, OnCourse, DeleteClose, At
<1>2. row[p].goal = "delete"
  BY <1>1 DEF Fits, Rows, Buttons, Starting, Pausing
<1>3. Ended(p)
  BY <1>1, Walks
<1>4. ASSUME calm[p], faults' = 0 PROVE Outcome(p)
  <2>1. faults = 0 /\ ~Fault
    BY <1>1, <1>4, FaultIs DEF Attempt
  <2>2. /\ tableExists /\ coreLayer = "base" /\ SeatsHome
        /\ Seated = {} /\ rakeAccrued = 0
    BY <1>1, <1>4, <2>1 DEF Course, Smooth, Seating
  <2>3. CoreOnBase /\ Emptied /\ \A i \in Seats : SeatOnBase(i)
    BY <1>1, <2>2 DEF CoreOnBase, Emptied, Seated, SeatOnBase, SeatsHome, Standing
  <2>4. CloseTable(p)
    BY <1>1, <2>1, <2>3 DEF Attempt
  <2>5. ~tableExists'
    BY <2>4 DEF CloseTable
  <2> QED BY <1>2, <2>5 DEF Outcome
<1> QED BY <1>1, <1>3, <1>4, Disturbed DEF Ended, Ends, WholeOrNothing, Succeeds
LEMMA GoesOnOn ==
    ASSUME CourseIInv, NEW p \in Clients, GoesOn(p)
    PROVE  Alone(p) /\ OnCourse(p)' /\ Ends(p)
BY StartCoreOn, StartLookOn, StartSeatOn, StartWaitOn, UndoSeatOn, UndoCoreOn, SecureDeckOn,
   SecureSeatOn, ReleaseOn, PauseClearOn, PauseLookOn, PauseSeatOn, PauseCoreOn,
   PauseLandingOn, PauseSweepOn, LeaveOn, SweepHomeOn, SitBackOn, ClearSeatOn, DeleteSweepOn,
   DeleteCloseOn DEF GoesOn

(* Nothing ends in a step in which no errand moves. *)
LEMMA StandsStill == ASSUME NEW p, Course(p), row'[p] = row[p] PROVE Ends(p)
BY DEF Course, Ends, Resting, WholeOrNothing, Succeeds

(* A press begins an errand, calm if the table is whole. *)
Presses(p) ==
    \/ PressStart(p) \/ PressPause(p) \/ PressToLeave(p, "cashOut")
    \/ PressToLeave(p, "rebuy") \/ PressDelete(p)

LEMMA PressIs ==
    ASSUME RowsOK, NEW p \in Clients, NEW button, NEW first, Press(p, button, first)
    PROVE  /\ row[p].step = "idle"
           /\ row'[p].goal = button /\ row'[p].step = first
           /\ row'[p].todo = IF button = "delete" THEN Seated ELSE {}
           /\ row'[p].leaving = IF button \in {"cashOut", "rebuy"} THEN SeatAt(p) ELSE NoSeat
           /\ calm'[p] => AllHome \/ AllOnRollup
           /\ Alone(p)
           /\ UNCHANGED vars /\ shuffle' = shuffle /\ inAir' = inAir /\ faults' = faults
           /\ pressed' = pressed \cup {button}
<1> DEFINE r == [goal |-> button, step |-> first,
                 todo |-> IF button = "delete" THEN Seated ELSE {}, moved |-> {},
                 leaving |-> IF button \in {"cashOut", "rebuy"} THEN SeatAt(p) ELSE NoSeat]
<1>1. row' = [row EXCEPT ![p] = r] /\ DOMAIN row = Clients
  BY DEF Press, RowsOK
<1>2. /\ r.goal = button /\ r.step = first
      /\ r.todo = IF button = "delete" THEN Seated ELSE {}
      /\ r.leaving = IF button \in {"cashOut", "rebuy"} THEN SeatAt(p) ELSE NoSeat
  OBVIOUS
<1> HIDE DEF r
<1>3. row'[p] = r /\ \A q \in Clients : q # p => row'[q] = row[q]
  BY <1>1
<1>4. calm' = [q \in Clients |-> q = p /\ (AllHome \/ AllOnRollup)]
  BY DEF Press
<1>5. \A q \in Clients : calm'[q] <=> (q = p /\ (AllHome \/ AllOnRollup))
  BY <1>4
<1>6. /\ UNCHANGED vars /\ shuffle' = shuffle /\ inAir' = inAir /\ faults' = faults
      /\ pressed' = pressed \cup {button} /\ row[p].step = "idle"
  BY DEF Press, deckVars, NoFault, At
<1> QED BY <1>2, <1>3, <1>5, <1>6 DEF Alone

LEMMA Whole ==
    ASSUME IInv, Standing
    PROVE  /\ Delegated => tableExists
           /\ \A p \in Players : SeatOf(p) # {} => tableExists
           /\ AllOnRollup <=> (AllHome \/ AllOnRollup) /\ Delegated
           /\ AllHome => SeatsHome /\ coreLayer = "base"
BY CustodyAssumption
DEF IInv, Lifecycle, Delegated, AllHome, AllOnRollup, SeatsHome, Standing, SeatOf

LEMMA SeatAtIs == ASSUME NEW p, SeatOf(p) # {} PROVE SeatAt(p) \in Seats /\ seatMap[SeatAt(p)] = p
BY DEF SeatAt, SeatOf

LEMMA PressOn ==
    ASSUME CourseIInv, NEW p \in Clients, Presses(p)
    PROVE  Alone(p) /\ OnCourse(p)' /\ row'[p].step # "idle"
<1>1. RowsOK /\ IInv /\ Standing /\ p \in Players
  BY DEF CourseIInv, Grounds
<1>2. ASSUME NEW button, NEW first, Press(p, button, first), first # "idle"
      PROVE  /\ row[p].step = "idle" /\ row'[p].step # "idle"
             /\ row'[p].goal = button /\ row'[p].step = first
             /\ row'[p].todo = IF button = "delete" THEN Seated ELSE {}
             /\ row'[p].leaving = IF button \in {"cashOut", "rebuy"} THEN SeatAt(p) ELSE NoSeat
             /\ calm'[p] => AllHome \/ AllOnRollup
             /\ Alone(p) /\ Still /\ SameBooks /\ shuffle' = shuffle
             /\ AllOnRollup' <=> AllOnRollup
             /\ SeatsHome' <=> SeatsHome
             /\ Landed' <=> Landed
             /\ Waiting' <=> Waiting
             /\ Seated' = Seated
  BY <1>1, <1>2, PressIs, VarsStay, StillIs, BooksAre
<1>3. CASE PressStart(p)
  <2>1. Press(p, "start", "core") /\ ~Delegated /\ SeatOf(p) # {}
    BY <1>3 DEF PressStart
  <2>2. calm'[p] => SeatsHome /\ coreLayer = "base" /\ tableExists
    BY <1>1, <1>2, <2>1, Whole
  <2>3. /\ row'[p].goal = "start" /\ row'[p].step = "core" /\ Still /\ SameBooks
        /\ (SeatsHome' <=> SeatsHome) /\ (Landed' <=> Landed) /\ Alone(p)
    BY <1>2, <2>1
  <2>4. Course(p)'
    BY <2>2, <2>3 DEF Course, Still, SameBooks
  <2>5. Smooth(p)' /\ Rough(p)' /\ Seating(p)'
    BY <2>2, <2>3, AllDown DEF Smooth, Rough, Seating
  <2> QED BY <2>3, <2>4, <2>5 DEF OnCourse
<1>4. CASE PressPause(p)
  <2>1. Press(p, "pause", "release") /\ Delegated /\ Waiting
    BY <1>4 DEF PressPause
  <2>2. calm'[p] => AllOnRollup /\ tableExists
    BY <1>1, <1>2, <2>1, Whole
  <2>3. /\ row'[p].goal = "pause" /\ row'[p].step = "release" /\ SameBooks
        /\ (AllOnRollup' <=> AllOnRollup) /\ (Waiting' <=> Waiting) /\ Alone(p)
    BY <1>2, <2>1
  <2>4. Course(p)'
    BY <2>2, <2>3 DEF Course, SameBooks
  <2>5. Smooth(p)' /\ Rough(p)' /\ Seating(p)'
    BY <2>1, <2>3 DEF Smooth, Rough, Seating
  <2> QED BY <2>3, <2>4, <2>5 DEF OnCourse
<1>5. ASSUME NEW button \in {"cashOut", "rebuy"}, PressToLeave(p, button)
      PROVE  Alone(p) /\ OnCourse(p)' /\ row'[p].step # "idle"
  <2> DEFINE first == IF Delegated THEN "sitOut" ELSE "leave"
  <2>1. Press(p, button, first) /\ SeatOf(p) # {}
    BY <1>5 DEF PressToLeave
  <2>2. /\ row'[p].goal = button /\ row'[p].step = first /\ row'[p].leaving = SeatAt(p)
        /\ Still /\ SameBooks
        /\ (AllOnRollup' <=> AllOnRollup) /\ (SeatsHome' <=> SeatsHome)
        /\ (Landed' <=> Landed) /\ Alone(p)
        /\ calm'[p] => AllHome \/ AllOnRollup
    BY <1>2, <2>1
  <2>3. tableExists /\ SeatAt(p) \in Seats /\ seatMap[SeatAt(p)] = p
    BY <1>1, <2>1, Whole, SeatAtIs
  <2>4. CASE Delegated
    <3>1. calm'[p] => AllOnRollup
      BY <1>1, <2>2, <2>4, Whole
    <3>2. row'[p].step = "sitOut"
      BY <2>2, <2>4
    <3>3. Course(p)' /\ Smooth(p)' /\ Rough(p)'
      BY <2>2, <2>3, <3>1, <3>2 DEF Course, Smooth, Rough, SameBooks
    <3>4. Seating(p)'
      BY <2>2, <2>3, <3>2 DEF Seating, Starting, SameBooks
    <3> QED BY <2>2, <3>2, <3>3, <3>4 DEF OnCourse
  <2>5. CASE ~Delegated
    <3>1. calm'[p] => SeatsHome /\ coreLayer = "base"
      BY <1>1, <2>2, <2>5, Whole
    <3>2. row'[p].step = "leave"
      BY <2>2, <2>5
    <3>3. Course(p)'
      BY <2>2, <2>3, <3>1, <3>2 DEF Course, SameBooks, Still
    <3>4. Smooth(p)' /\ Rough(p)'
      BY <2>2, <3>1, <3>2, AllDown DEF Smooth, Rough
    <3>5. Seating(p)'
      BY <2>2, <2>3, <3>2 DEF Seating, Starting, SameBooks
    <3> QED BY <2>2, <3>2, <3>3, <3>4, <3>5 DEF OnCourse
  <2> QED BY <2>4, <2>5
<1>6. CASE PressDelete(p)
  <2>1. Press(p, "delete", "clearing") /\ ~Delegated /\ tableExists
    BY <1>6 DEF PressDelete
  <2>2. calm'[p] => SeatsHome /\ coreLayer = "base"
    BY <1>1, <1>2, <2>1, Whole
  <2>3. PICK S : S = Seated
    OBVIOUS
  <2>4. /\ row'[p].goal = "delete" /\ row'[p].step = "clearing" /\ row'[p].todo = S
        /\ Still /\ SameBooks /\ (SeatsHome' <=> SeatsHome) /\ Alone(p) /\ Seated' = S
    BY <1>2, <2>1, <2>3
  <2>5. Course(p)'
    BY <2>1, <2>2, <2>4 DEF Course, Still, SameBooks
  <2>6. Smooth(p)' /\ Rough(p)'
    BY <2>2, <2>4 DEF Smooth, Rough
  <2>7. Seating(p)'
    BY <2>4 DEF Seating
  <2> QED BY <2>4, <2>5, <2>6, <2>7 DEF OnCourse
<1> QED BY <1>3, <1>4, <1>5, <1>6 DEF Presses

(* Accounts come to rest: what was on the rollup or on the base layer      *)
(* stays there.                                                            *)
Settling ==
    /\ SameBooks
    /\ coreLayer' # coreLayer => coreLayer = "leaving" /\ coreLayer' = "base"
    /\ \A i \in Seats : seatLayer'[i] # seatLayer[i] =>
           seatLayer[i] = "leaving" /\ seatLayer'[i] = "base"

LEMMA SettlingKeeps ==
    ASSUME Settling
    PROVE  /\ tableExists' = tableExists
           /\ coreLayer' = "rollup" <=> coreLayer = "rollup"
           /\ coreLayer = "base" => coreLayer' = "base"
           /\ AllOnRollup => AllOnRollup'
           /\ SeatsHome => SeatsHome'
           /\ Landed => Landed'
           /\ Waiting' <=> Waiting
           /\ \A S : OnlyUp(S) => OnlyUp(S)'
           /\ \A S : Landed /\ OnlyDown(S) => OnlyDown(S)'
BY BooksAre
DEF Settling, SameBooks, AllOnRollup, SeatsHome, Landed, OnlyUp, OnlyDown

LEMMA LandsIs ==
    ASSUME IInv, Lands
    PROVE  Settling /\ row' = row /\ calm' = calm /\ shuffle' = shuffle /\ faults' = faults
           /\ inAir' = inAir /\ pressed' = pressed
<1>1. row' = row /\ calm' = calm /\ shuffle' = shuffle /\ faults' = faults /\ inAir' = inAir
      /\ pressed' = pressed
  BY DEF Lands, deckVars, boundVars
<1>2. CASE LandCore
  BY <1>1, <1>2 DEF LandCore, Settling, SameBooks, moneyVars, tableVars, seatVars
<1>3. ASSUME NEW i \in Seats, LandSeat(i) PROVE Settling
  <2>1. seatLayer \in [Seats -> Layers]
    BY DEF IInv, TypeOK
  <2>2. SameBooks /\ coreLayer' = coreLayer /\ seatLayer[i] = "leaving"
        /\ seatLayer' = [seatLayer EXCEPT ![i] = "base"]
    BY <1>3 DEF LandSeat, SameBooks, moneyVars, tableVars, seatVars
  <2> QED BY <2>1, <2>2 DEF Settling
<1> QED BY <1>1, <1>2, <1>3 DEF Lands

LEMMA TimeIs ==
    ASSUME DeadlinePasses \/ UNCHANGED errandVars
    PROVE  Settling /\ row' = row /\ calm' = calm /\ shuffle' = shuffle /\ faults' = faults
           /\ inAir' = inAir /\ pressed' = pressed
BY VarsStay DEF DeadlinePasses, errandVars, deckVars, boundVars, Settling, Still

LEMMA SettlingOn ==
    ASSUME Settling, row' = row, calm' = calm, shuffle' = shuffle, faults' = faults,
           NEW p \in Clients, OnCourse(p)
    PROVE  OnCourse(p)'
<1>1. PICK r, T, M : r = row[p] /\ T = row[p].todo /\ M = row[p].moved
  OBVIOUS
<1>2. row'[p] = row[p] /\ calm'[p] = calm[p] /\ row'[p].todo = T /\ row'[p].moved = M
      /\ row'[p].step = row[p].step /\ row'[p].goal = row[p].goal
      /\ row'[p].leaving = row[p].leaving
  BY <1>1
<1>3. /\ tableExists' = tableExists
      /\ coreLayer' = "rollup" <=> coreLayer = "rollup"
      /\ coreLayer = "base" => coreLayer' = "base"
      /\ AllOnRollup => AllOnRollup'
      /\ SeatsHome => SeatsHome'
      /\ Landed => Landed'
      /\ Waiting' <=> Waiting
      /\ OnlyUp(T) => OnlyUp(T)'
      /\ OnlyUp(M) => OnlyUp(M)'
      /\ OnlyUp({}) => OnlyUp({})'
      /\ Landed /\ OnlyDown(T) => OnlyDown(T)'
  BY SettlingKeeps
<1>4. Course(p)'
  BY <1>2, <1>3 DEF OnCourse, Course
<1>5. Smooth(p)'
  <2>1. /\ row[p].step = "unseat" /\ calm[p] /\ faults = 0 => OnlyUp(T)
        /\ row[p].step = "delegating" /\ calm[p] /\ faults = 0 =>
              OnlyUp(M) /\ OnlyDown(T) /\ Landed
    BY <1>1 DEF OnCourse, Smooth
  <2>2. /\ row[p].step = "unseat" /\ calm[p] /\ faults = 0 => OnlyUp(T)'
        /\ row[p].step = "delegating" /\ calm[p] /\ faults = 0 =>
              OnlyUp(M)' /\ OnlyDown(T)' /\ Landed'
    BY <1>3, <2>1
  <2> QED BY <1>2, <1>3, <2>2 DEF OnCourse, Smooth, OnlyUp, OnlyDown
<1>6. Rough(p)'
  <2>1. ASSUME calm[p], faults # 0, MaxFaults <= 1
        PROVE  /\ row[p].step = "delegating" => OnlyUp(M) \/ (Landed /\ OnlyDown(T))
               /\ row[p].step = "failing" => OnlyUp(M)
               /\ row[p].step = "undoing" => OnlyUp(T)
    BY <1>1, <2>1 DEF OnCourse, Rough
  <2>2. ASSUME calm[p], faults # 0, MaxFaults <= 1
        PROVE  /\ row[p].step = "delegating" => OnlyUp(M)' \/ (Landed' /\ OnlyDown(T)')
               /\ row[p].step = "failing" => OnlyUp(M)'
               /\ row[p].step = "undoing" => OnlyUp(T)'
    BY <1>3, <2>1, <2>2
  <2> QED BY <1>2, <1>3, <2>2 DEF OnCourse, Rough, OnlyUp, OnlyDown
<1>7. Seating(p)'
  <2>1. /\ Funded' = Funded /\ Seated' = Seated /\ SeatOf(p)' = SeatOf(p)
        /\ seatMap' = seatMap /\ rakeAccrued' = rakeAccrued
    BY BooksAre DEF Settling, SameBooks
  <2> QED BY <1>2, <2>1 DEF OnCourse, Seating
<1> QED BY <1>4, <1>5, <1>6, <1>7 DEF OnCourse

(* A crank, the oracle or a late landing gets in everybody's way. *)
Cranks ==
    \/ CrankSalts \/ CrankRequest \/ CrankReset \/ CrankDeal \/ CrankSettle \/ OracleAnswers
    \/ LateCore \/ \E i \in Seats : CrankSecure(i) \/ LateLanding(i)

LEMMA CranksDisturb ==
    ASSUME Cranks
    PROVE  row' = row /\ pressed' = pressed /\ faults' = faults
           /\ \A p \in Clients : ~calm'[p]
<1>1. Crank
  BY DEF Cranks, CrankSalts, CrankRequest, CrankReset, CrankDeal, CrankSettle, OracleAnswers,
         LateCore, CrankSecure, LateLanding
<1>2. row' = row /\ pressed' = pressed /\ faults' = faults
  BY <1>1 DEF Crank, boundVars
<1>3. \A p \in Clients : calm'[p] = [q \in Clients |-> FALSE][p]
  BY <1>1 DEF Crank
<1> QED BY <1>2, <1>3

(* Everybody is on course after a step, and whoever ends shows what it has *)
(* to show.                                                                *)
LEMMA CourseStep ==
    CourseIInv /\ [ErrandNext]_errandVars => \A p \in Clients : OnCourse(p)' /\ Ends(p)
<1> SUFFICES ASSUME CourseIInv, [ErrandNext]_errandVars
             PROVE  \A p \in Clients : OnCourse(p)' /\ Ends(p)
  OBVIOUS
<1>1. IInv /\ \A p \in Clients : OnCourse(p) /\ Course(p)
  BY DEF CourseIInv, Grounds, OnCourse
<1>2. ASSUME NEW p \in Clients, GoesOn(p)
      PROVE  \A q \in Clients : OnCourse(q)' /\ Ends(q)
  <2>1. Alone(p) /\ OnCourse(p)' /\ Ends(p)
    BY <1>2, GoesOnOn
  <2>2. \A q \in Clients : q # p => Ends(q)
    BY <1>1, <2>1, StandsStill DEF Alone
  <2> QED BY <2>1, <2>2, OneCourse
<1>3. ASSUME NEW p \in Clients, Presses(p)
      PROVE  \A q \in Clients : OnCourse(q)' /\ Ends(q)
  <2>1. Alone(p) /\ OnCourse(p)' /\ Ends(p)
    BY <1>3, PressOn, NoEnd
  <2>2. \A q \in Clients : q # p => Ends(q)
    BY <1>1, <2>1, StandsStill DEF Alone
  <2> QED BY <2>1, <2>2, OneCourse
<1>4. CASE Cranks
  BY <1>1, <1>4, CranksDisturb, Disturbed, StandsStill
<1>5. CASE Lands \/ DeadlinePasses \/ UNCHANGED errandVars
  BY <1>1, <1>5, LandsIs, TimeIs, SettlingOn, StandsStill
<1> QED BY <1>2, <1>3, <1>4, <1>5 DEF ErrandNext, Cranks, Presses

(* The ground the errands stand on: the table is whole or gone, and what   *)
(* is on the deck is drawn on the rollup.                                  *)
LEMMA StandingStep == IInv /\ Standing /\ [Calls]_vars => Standing' /\ DOMAIN chips' = DOMAIN chips
<1> SUFFICES ASSUME IInv, Standing, [Calls]_vars
             PROVE  Standing' /\ DOMAIN chips' = DOMAIN chips
  OBVIOUS
<1>1. seatMap \in [Seats -> Players \cup {Nobody}]
  BY DEF IInv, TypeOK
<1>2. CASE SweepRake
  BY <1>2 DEF SweepRake, seatVars, Standing
<1>3. CASE DelegateCore \/ LandCore \/ UndelegateCore
  BY <1>3 DEF DelegateCore, LandCore, UndelegateCore, moneyVars, tableVars, seatVars, Standing
<1>4. CASE StartHand \/ SettleHand
  <2>1. chips' = chips /\ tableExists' = tableExists /\ seatMap' = seatMap
        /\ seatExists' = seatExists
    BY <1>4 DEF StartHand, SettleHand, HandOver, moneyVars
  <2> QED BY <2>1 DEF Standing
<1>5. ASSUME NEW p \in Players, CloseTable(p) PROVE Standing' /\ DOMAIN chips' = DOMAIN chips
  BY <1>5 DEF CloseTable, Emptied, moneyVars, Standing
<1>6. ASSUME NEW i \in Seats, DelegateSeat(i) \/ UndelegateSeat(i) \/ LandSeat(i)
      PROVE  Standing' /\ DOMAIN chips' = DOMAIN chips
  BY <1>6 DEF DelegateSeat, UndelegateSeat, LandSeat, moneyVars, tableVars, seatVars, Standing
<1>7. ASSUME NEW i \in Seats, NEW returned, Empty(i, returned), tableExists
      PROVE  Standing' /\ DOMAIN chips' = DOMAIN chips
  BY <1>7 DEF Empty, Standing
<1>8. ASSUME NEW i \in Seats, NEW p \in Players,
             VacateOwnSeat(i) \/ VacateSeat(p, i) \/ TakeSeat(p, i)
      PROVE  Standing' /\ DOMAIN chips' = DOMAIN chips
  <2>1. tableExists
    BY <1>8 DEF VacateOwnSeat, VacateSeat, TakeSeat, CoreOnBase
  <2>2. CASE VacateOwnSeat(i) \/ VacateSeat(p, i)
    BY <1>7, <2>1, <2>2 DEF VacateOwnSeat, VacateSeat
  <2>3. CASE TakeSeat(p, i)
    BY <2>1, <2>3 DEF TakeSeat, Standing
  <2> QED BY <1>8, <2>2, <2>3
<1>9. CASE UNCHANGED vars
  BY <1>9 DEF vars, moneyVars, tableVars, seatVars, Standing
<1> QED BY <1>2, <1>3, <1>4, <1>5, <1>6, <1>8, <1>9 DEF Calls

(* The core leaves the rollup without a draw on its deck. *)
LEMMA CoreStays ==
    ASSUME [Calls]_vars, coreLayer = "rollup", shuffle = "drawn"
    PROVE  coreLayer' = "rollup"
<1>1. CASE SweepRake
  BY <1>1 DEF SweepRake, layerVars
<1>2. CASE DelegateCore \/ LandCore \/ CoreMayLeave
  BY <1>2 DEF DelegateCore, LandCore, CoreMayLeave
<1>3. CASE StartHand \/ SettleHand
  BY <1>3 DEF StartHand, SettleHand, HandOver, layerVars
<1>4. ASSUME NEW p, CloseTable(p) PROVE coreLayer' = "rollup"
  BY <1>4 DEF CloseTable, layerVars
<1>5. ASSUME NEW i, DelegateSeat(i) \/ UndelegateSeat(i) \/ LandSeat(i)
      PROVE  coreLayer' = "rollup"
  BY <1>5 DEF DelegateSeat, UndelegateSeat, LandSeat
<1>6. ASSUME NEW i, NEW p, VacateOwnSeat(i) \/ VacateSeat(p, i) \/ TakeSeat(p, i)
      PROVE  coreLayer' = "rollup"
  BY <1>6 DEF VacateOwnSeat, VacateSeat, TakeSeat, CoreOnBase
<1>7. CASE UNCHANGED vars
  BY <1>7 DEF vars, layerVars
<1> QED BY <1>1, <1>2, <1>3, <1>4, <1>5, <1>6, <1>7 DEF Calls

(* What a step does to the deck and to the counts. *)
Bounds ==
    /\ \/ shuffle' = shuffle
       \/ shuffle' \in {"idle", "asked"}
       \/ shuffle' = "drawn" /\ coreLayer = "rollup" /\ coreLayer' = "rollup"
    /\ faults' = faults \/ Fault
    /\ pressed \subseteq pressed'

LEMMA StartBounds ==
    ASSUME NEW p \in Clients,
           \/ StartCore(p) \/ StartLook(p) \/ StartWait(p) \/ UndoSeat(p) \/ UndoCore(p)
           \/ SecureDeck(p) \/ SecureSeat(p) \/ \E i \in Seats : StartSeat(p, i)
    PROVE  Bounds
<1>1. CASE StartCore(p) \/ StartLook(p) \/ StartWait(p) \/ SecureDeck(p)
  BY <1>1 DEF StartCore, StartLook, StartWait, SecureDeck, deckVars, NoFault, Bounds
<1>2. CASE UndoSeat(p) \/ UndoCore(p) \/ SecureSeat(p)
  BY <1>2 DEF UndoSeat, UndoCore, SecureSeat, TryUndelegate, Attempt, deckVars, NoFault, Bounds
<1>3. CASE \E i \in Seats : StartSeat(p, i)
  BY <1>3 DEF StartSeat, deckVars, NoFault, Bounds
<1> QED BY <1>1, <1>2, <1>3

LEMMA PauseBounds ==
    ASSUME NEW p \in Clients,
           \/ PauseRelease(p) \/ PauseClear(p) \/ PauseLook(p) \/ PauseSeat(p) \/ PauseCore(p)
           \/ PauseLanding(p) \/ PauseSweep(p) \/ SitOut(p) \/ AwaitHand(p)
    PROVE  Bounds
<1>1. CASE PauseRelease(p) \/ SitOut(p)
  BY <1>1 DEF PauseRelease, SitOut, Release, Attempt, deckVars, NoFault, Bounds
<1>2. CASE PauseClear(p)
  BY <1>2 DEF PauseClear, Reset, deckVars, NoFault, Bounds
<1>3. CASE PauseLook(p) \/ PauseLanding(p) \/ AwaitHand(p) \/ PauseCore(p)
  BY <1>3 DEF PauseLook, PauseLanding, AwaitHand, PauseCore, deckVars, NoFault, Bounds
<1>4. CASE PauseSeat(p) \/ PauseSweep(p)
  BY <1>4 DEF PauseSeat, PauseSweep, TryUndelegate, TrySweep, Attempt, deckVars, NoFault, Bounds
<1> QED BY <1>1, <1>2, <1>3, <1>4

LEMMA LeaveBounds ==
    ASSUME NEW p \in Clients,
           \/ Leave(p) \/ SweepHome(p) \/ SitBack(p) \/ ClearSeat(p) \/ DeleteSweep(p)
           \/ DeleteClose(p)
    PROVE  Bounds
<1>1. CASE Leave(p) \/ SitBack(p) \/ ClearSeat(p)
  BY <1>1 DEF Leave, SitBack, ClearSeat, deckVars, NoFault, Bounds
<1>2. CASE SweepHome(p) \/ DeleteSweep(p) \/ DeleteClose(p)
  BY <1>2 DEF SweepHome, DeleteSweep, DeleteClose, TrySweep, Attempt, deckVars, NoFault, Bounds
<1> QED BY <1>1, <1>2

LEMMA StepBounds == RowsOK /\ IInv /\ [ErrandNext]_errandVars => Bounds
<1> SUFFICES ASSUME RowsOK, IInv, [ErrandNext]_errandVars PROVE Bounds
  OBVIOUS
<1>1. ASSUME NEW p \in Clients, GoesOn(p) PROVE Bounds
  BY <1>1, StartBounds, PauseBounds, LeaveBounds DEF GoesOn
<1>2. ASSUME NEW p \in Clients, Presses(p) PROVE Bounds
  BY <1>2, PressIs
  DEF Presses, PressStart, PressPause, PressToLeave, PressDelete, Bounds
<1>3. CASE Cranks
  <2>1. pressed' = pressed /\ faults' = faults
    BY <1>3, CranksDisturb
  <2>2. CASE \/ CrankSalts \/ CrankDeal \/ LateCore
             \/ \E i \in Seats : CrankSecure(i) \/ LateLanding(i)
    BY <2>1, <2>2
    DEF CrankSalts, CrankDeal, LateCore, CrankSecure, LateLanding, deckVars, Bounds
  <2>3. CASE CrankRequest \/ CrankReset \/ CrankSettle
    BY <2>1, <2>3 DEF CrankRequest, CrankReset, Reset, CrankSettle, Bounds
  <2>4. CASE OracleAnswers
    BY <2>1, <2>4, VarsStay DEF OracleAnswers, Still, Bounds
  <2> QED BY <1>3, <2>2, <2>3, <2>4 DEF Cranks
<1>4. CASE Lands \/ DeadlinePasses \/ UNCHANGED errandVars
  BY <1>4, LandsIs, TimeIs DEF Bounds
<1> QED BY <1>1, <1>2, <1>3, <1>4 DEF ErrandNext, Cranks, Presses

LEMMA DeckStep ==
    ASSUME RowsOK, IInv, DeckFits, Standing, [ErrandNext]_errandVars
    PROVE  DeckFits'
<1>1. Bounds /\ [Calls]_vars /\ DOMAIN chips' = DOMAIN chips
  BY StepBounds, StepCalls, StandingStep
<1>2. faults' \in Nat
  BY <1>1, FaultIs DEF Bounds, DeckFits
<1>3. shuffle' \in {"idle", "asked", "drawn"}
  BY <1>1 DEF Bounds, DeckFits
<1>4. shuffle' = "drawn" => coreLayer' = "rollup"
  BY <1>1, CoreStays DEF Bounds, DeckFits
<1>5. Has(Treasury)'
  BY <1>1 DEF DeckFits, Has
<1> QED BY <1>2, <1>3, <1>4, <1>5 DEF DeckFits

(* Each button keeps to its steps. *)
Keeps(p) == Fits(row'[p]) /\ row'[p].goal \in {row[p].goal, "none"}

Follows(p, step) ==
    \/ row[p].step \in Starting /\ step \in Starting
    \/ row[p].step \in Pausing /\ step \in Pausing
    \/ row[p].step \in {"sitOut", "handEnd"} /\ step \in {"handEnd", "release"}
    \/ row[p].step \in Pausing /\ row[p].goal # "pause" /\ step = "leave"
    \/ row[p].step = "leave" /\ row[p].goal = "rebuy" /\ step = "sit"
    \/ row[p].step = "leave" /\ row[p].goal # "rebuy" /\ step = "sweepHome"
    \/ row[p].step \in {"sweepHome", "sit"} /\ step = "core"
    \/ row[p].step = "clearing" /\ step \in {"clearing", "closing"}

LEMMA FollowsFits ==
    ASSUME NEW p, row[p] \in Rows, Fits(row[p]), NEW step, Follows(p, step),
           row'[p].goal = row[p].goal, row'[p].step = step
    PROVE  Keeps(p)
<1>1. row[p].goal \in Buttons
  BY DEF Rows
<1>2. CASE row[p].goal = "start"
  BY <1>2 DEF Fits, Follows, Keeps, Starting, Pausing
<1>3. CASE row[p].goal = "pause"
  BY <1>3 DEF Fits, Follows, Keeps, Starting, Pausing
<1>4. CASE row[p].goal = "cashOut"
  BY <1>4 DEF Fits, Follows, Keeps, Starting, Pausing
<1>5. CASE row[p].goal = "rebuy"
  BY <1>5 DEF Fits, Follows, Keeps, Starting, Pausing
<1>6. CASE row[p].goal = "delete"
  BY <1>6 DEF Fits, Follows, Keeps, Starting, Pausing
<1>7. CASE row[p].goal = "none"
  BY <1>7 DEF Fits, Follows, Starting, Pausing
<1> QED BY <1>1, <1>2, <1>3, <1>4, <1>5, <1>6, <1>7 DEF Buttons

LEMMA Kept ==
    ASSUME RowsOK, NEW p \in Clients, Fits(row[p])
    PROVE  /\ row'[p] = Resting => Keeps(p)
           /\ End(p) => Keeps(p)
           /\ \A step : To(p, step) /\ Follows(p, step) => Keeps(p)
           /\ \A step, S : Loop(p, step, S) /\ Follows(p, step) => Keeps(p)
<1>1. row[p] \in Rows
  BY RowFields
<1>2. row'[p] = Resting => Keeps(p)
  BY DEF Resting, Keeps, Fits
<1>3. \A step, T, M : Walked(p, step, T, M) /\ Follows(p, step) => Keeps(p)
  BY <1>1, FollowsFits DEF Walked
<1> QED BY <1>2, <1>3, Walks DEF Ended

LEMMA StartKeeps ==
    ASSUME RowsOK, NEW p \in Clients, Fits(row[p]),
           \/ StartCore(p) \/ StartLook(p) \/ StartWait(p) \/ UndoSeat(p) \/ UndoCore(p)
           \/ SecureDeck(p) \/ SecureSeat(p) \/ \E i \in Seats : StartSeat(p, i)
    PROVE  Keeps(p)
<1>1. CASE StartCore(p) \/ StartLook(p)
  BY <1>1, Kept DEF StartCore, StartLook, At, Follows, Starting
<1>2. CASE StartWait(p)
  BY <1>2, Kept DEF StartWait, At, Follows, Starting
<1>3. CASE UndoSeat(p) \/ UndoCore(p)
  BY <1>3, Kept DEF UndoSeat, UndoCore, At, Follows, Starting
<1>4. CASE SecureDeck(p) \/ SecureSeat(p)
  BY <1>4, Kept DEF SecureDeck, SecureSeat, At, Follows, Starting
<1>5. ASSUME NEW i \in Seats, StartSeat(p, i) PROVE Keeps(p)
  <2>1. PICK answer :
          Becomes(p, [row[p] EXCEPT !.todo = @ \ {i},
                                    !.moved = IF WentUp(answer, i) THEN @ \cup {i} ELSE @,
                                    !.step = IF WentUp(answer, i) THEN @ ELSE "failing"])
    BY <1>5 DEF StartSeat
  <2>2. row[p] \in Rows /\ row[p].step \in {"delegating", "failing"}
    BY <1>5, RowFields DEF StartSeat
  <2>3. PICK T, M, step :
          /\ T = row[p].todo \ {i}
          /\ M = IF WentUp(answer, i) THEN row[p].moved \cup {i} ELSE row[p].moved
          /\ step = IF WentUp(answer, i) THEN row[p].step ELSE "failing"
    OBVIOUS
  <2> DEFINE r == [row[p] EXCEPT !.todo = T, !.moved = M, !.step = step]
  <2>4. Becomes(p, r)
    BY <2>1, <2>3
  <2>5. r.step = step /\ r.goal = row[p].goal
    BY <2>2 DEF Rows
  <2> HIDE DEF r
  <2>6. row'[p] = r
    BY <2>4, Turns
  <2>7. Follows(p, step)
    BY <2>2, <2>3 DEF Follows, Starting
  <2> QED BY <2>2, <2>5, <2>6, <2>7, FollowsFits
<1> QED BY <1>1, <1>2, <1>3, <1>4, <1>5

LEMMA PauseKeeps ==
    ASSUME RowsOK, NEW p \in Clients, Fits(row[p]),
           \/ PauseRelease(p) \/ PauseClear(p) \/ PauseLook(p) \/ PauseSeat(p) \/ PauseCore(p)
           \/ PauseLanding(p) \/ PauseSweep(p) \/ SitOut(p) \/ AwaitHand(p)
    PROVE  Keeps(p)
<1>1. row[p].step \in Pausing /\ PauseOver(p) => Keeps(p)
  BY Kept DEF PauseOver, Follows, Pausing
<1>2. CASE PauseRelease(p) \/ SitOut(p) \/ AwaitHand(p)
  BY <1>2, Kept DEF PauseRelease, SitOut, AwaitHand, Release, At, Follows, Pausing
<1>3. CASE PauseClear(p) \/ PauseCore(p) \/ PauseSweep(p)
  BY <1>1, <1>3, Kept DEF PauseClear, PauseCore, PauseSweep, At, Follows, Pausing
<1>4. CASE PauseLook(p) \/ PauseSeat(p) \/ PauseLanding(p)
  BY <1>1, <1>4, Kept DEF PauseLook, PauseSeat, PauseLanding, At, Follows, Pausing
<1> QED BY <1>2, <1>3, <1>4

LEMMA LeaveKeeps ==
    ASSUME RowsOK, NEW p \in Clients, Fits(row[p]),
           \/ Leave(p) \/ SweepHome(p) \/ SitBack(p) \/ ClearSeat(p) \/ DeleteSweep(p)
           \/ DeleteClose(p)
    PROVE  Keeps(p)
<1>1. row[p] \in Rows
  BY RowFields
<1>2. ASSUME NEW playing, NEW r \in Rows, r.goal = row[p].goal, Resume(p, playing, r),
             row[p].step \in {"sweepHome", "sit"}
      PROVE  Keeps(p)
  <2>1. \/ row'[p].step = "core" /\ row'[p].goal = row[p].goal
        \/ row'[p] = Resting
    BY <1>2, Resumes DEF Ended
  <2>2. Follows(p, "core")
    BY <1>2 DEF Follows
  <2> QED BY <1>1, <2>1, <2>2, FollowsFits, Kept
<1>3. CASE Leave(p)
  <2>1. \/ To(p, IF row[p].goal = "rebuy" THEN "sit" ELSE "sweepHome")
        \/ row[p].goal # "rebuy" /\ To(p, "sweepHome")
        \/ End(p)
    BY <1>3 DEF Leave
  <2>2. row[p].step = "leave"
    BY <1>3 DEF Leave, At
  <2> QED BY <2>1, <2>2, Kept DEF Follows
<1>4. CASE SweepHome(p)
  BY <1>1, <1>2, <1>4 DEF SweepHome, At
<1>5. CASE SitBack(p)
  <2> DEFINE r == [row[p] EXCEPT !.leaving = NoSeat]
  <2>1. r \in Rows /\ r.goal = row[p].goal
    BY <1>1 DEF Rows
  <2>2. (\E playing : Resume(p, playing, r)) \/ End(p)
    BY <1>5 DEF SitBack
  <2>3. row[p].step = "sit"
    BY <1>5 DEF SitBack, At
  <2> QED BY <1>2, <2>1, <2>2, <2>3, Kept
<1>6. CASE ClearSeat(p) \/ DeleteSweep(p) \/ DeleteClose(p)
  BY <1>6, Kept DEF ClearSeat, DeleteSweep, DeleteClose, At, Follows
<1> QED BY <1>3, <1>4, <1>5, <1>6

LEMMA InStepNext ==
    ASSUME CourseIInv, [ErrandNext]_errandVars
    PROVE  InStep'
<1>1. /\ RowsOK /\ IInv /\ InStep
      /\ \A p \in Clients : row[p].goal \in pressed \cup {"none"}
  BY DEF CourseIInv, Grounds, InStep
<1>2. pressed \subseteq pressed'
  BY <1>1, StepBounds DEF Bounds
<1>3. ASSUME NEW q \in Clients, row'[q] = row[q]
      PROVE  /\ Fits(row'[q]) /\ row'[q].goal \in pressed' \cup {"none"}
             /\ row'[q].goal = "delete" => q = Creator
  BY <1>1, <1>2, <1>3 DEF InStep
<1>4. ASSUME NEW p \in Clients, Alone(p), Fits(row'[p]),
             row'[p].goal \in pressed' \cup {"none"},
             row'[p].goal = "delete" => p = Creator
      PROVE  InStep'
  <2>1. \A q \in Clients : q # p => row'[q] = row[q]
    BY <1>4 DEF Alone
  <2>2. ASSUME NEW q \in Clients
        PROVE  /\ Fits(row'[q]) /\ row'[q].goal \in pressed' \cup {"none"}
               /\ row'[q].goal = "delete" => q = Creator
    BY <1>3, <1>4, <2>1
  <2>3. \A q \in Clients : Fits(row'[q])
    BY <2>2
  <2>4. \A q \in Clients : Fits(row[q])'
    BY <2>3 DEF Fits
  <2> QED BY <2>2, <2>4 DEF InStep
<1>5. ASSUME NEW p \in Clients, GoesOn(p) PROVE InStep'
  <2>1. Fits(row[p]) /\ (row[p].goal = "delete" => p = Creator)
    BY <1>1 DEF InStep
  <2>2. Keeps(p) /\ Alone(p)
    BY <1>1, <1>5, <2>1, StartKeeps, PauseKeeps, LeaveKeeps, GoesOnOn DEF GoesOn
  <2> QED BY <1>1, <1>2, <1>4, <2>1, <2>2 DEF Keeps
<1>6. ASSUME NEW p \in Clients, Presses(p) PROVE InStep'
  <2>1. ASSUME NEW button, NEW first, Press(p, button, first)
        PROVE  /\ row'[p].goal = button /\ row'[p].step = first /\ button \in pressed'
               /\ Alone(p)
    BY <1>1, <2>1, PressIs
  <2>2. CASE PressStart(p)
    BY <1>4, <2>1, <2>2 DEF PressStart, Fits, Starting
  <2>3. CASE PressPause(p)
    BY <1>4, <2>1, <2>3 DEF PressPause, Fits, Pausing
  <2>4. CASE PressToLeave(p, "cashOut") \/ PressToLeave(p, "rebuy")
    BY <1>4, <2>1, <2>4 DEF PressToLeave, Fits
  <2>5. CASE PressDelete(p)
    BY <1>4, <2>1, <2>5 DEF PressDelete, Fits
  <2> QED BY <1>6, <2>2, <2>3, <2>4, <2>5 DEF Presses
<1>7. CASE row' = row
  <2>1. \A q \in Clients : Fits(row[q])'
    BY <1>1, <1>7 DEF InStep, Fits
  <2> QED BY <1>3, <1>7, <2>1 DEF InStep
<1> QED BY <1>1, <1>5, <1>6, <1>7, CranksDisturb, LandsIs, TimeIs DEF ErrandNext, Cranks, Presses

LEMMA GroundsStep ==
    ASSUME CourseIInv, [ErrandNext]_errandVars
    PROVE  Grounds'
<1>1. RowsOK /\ IInv /\ DeckFits /\ Standing
  BY DEF CourseIInv, Grounds
<1>2. RowsOK' /\ IInv'
  BY <1>1, RowsStep, StepMoves, StepInv
<1>3. Standing'
  BY <1>1, StepCalls, StandingStep
<1> QED BY <1>1, <1>2, <1>3, DeckStep, InStepNext DEF Grounds

(* While all that anybody pressed is start and nothing fails, the layers   *)
(* only fill.                                                              *)
Rising ==
    /\ Upright'
    /\ coreLayer = "rollup" => coreLayer' = "rollup"
    /\ \A i \in Seats : seatLayer'[i] # seatLayer[i] => seatLayer'[i] = "rollup"

LEMMA RisingKeeps ==
    ASSUME Rising, NEW p, Along(p), row'[p] = row[p]
    PROVE  Along(p)'
<1>1. PICK T : T = row[p].todo
  OBVIOUS
<1>2. row'[p].step = row[p].step /\ row'[p].todo = T
  BY <1>1
<1>3. /\ AllOnRollup => AllOnRollup'
      /\ OnlyDown(T) => OnlyDown(T)'
  BY DEF Rising, AllOnRollup, OnlyDown
<1>4. row[p].step = "delegating" => OnlyDown(T)'
  BY <1>1, <1>3 DEF Along
<1> QED BY <1>2, <1>3, <1>4 DEF Along, Rising, OnlyDown

LEMMA UprightStays ==
    ASSUME Upright, inAir' = inAir
    PROVE  UNCHANGED vars => Rising
BY VarsStay DEF Upright, Rising, Still, SameBooks, Landed

(* What a start has shown when it goes on or ends. *)
Rises(p) == Rising /\ Along(p)' /\ (row'[p] = Resting => AllOnRollup')

LEMMA RisesTo ==
    ASSUME NEW p, Rising, NEW step, row'[p].step = step,
           \/ step \in {"core", "idle"}
           \/ step = "look" /\ coreLayer' = "rollup"
           \/ step \in {"deck", "secure"} /\ AllOnRollup'
    PROVE  Along(p)' /\ (step # "idle" => Rises(p))
BY DEF Along, Rises, AllOnRollup, Resting

LEMMA EndsUp ==
    ASSUME RowsOK, NEW p \in Clients, Rising, End(p), AllOnRollup'
    PROVE  Rises(p)
<1>1. row'[p].step = "idle"
  BY Walks DEF Ended, Resting
<1> QED BY <1>1, RisesTo DEF Rises

LEMMA StartsRise ==
    ASSUME Grounds, Agreed, OnlyStarts, faults' = 0, NEW p \in Clients,
           StartCore(p) \/ StartLook(p) \/ StartWait(p) \/ SecureDeck(p) \/ SecureSeat(p)
    PROVE  Rises(p)
<1>1. /\ RowsOK /\ IInv /\ DeckFits /\ Standing /\ Upright /\ Along(p) /\ ~Fault
      /\ coreLayer \in Layers
  BY FaultIs DEF Grounds, Agreed, IInv, TypeOK
<1>2. inAir' = inAir
  BY <1>1 DEF StartCore, StartLook, StartWait, SecureDeck, SecureSeat
<1>3. UNCHANGED vars => Rising
  BY <1>1, <1>2, UprightStays
<1>4. UNCHANGED vars => (AllOnRollup' <=> AllOnRollup) /\ coreLayer' = coreLayer
  BY VarsStay, StillIs DEF Still
<1>5. CASE StartCore(p)
  <2>1. CASE Delegated /\ UNCHANGED vars /\ To(p, "look")
    <3>1. row'[p].step = "look"
      BY <1>1, <2>1, Walks DEF Walked
    <3>2. coreLayer' = "rollup"
      BY <1>1, <1>4, <2>1 DEF Delegated, Upright, Layers
    <3> QED BY <1>3, <2>1, <3>1, <3>2, RisesTo
  <2>2. CASE DelegateCore /\ To(p, "look")
    <3>1. row'[p].step = "look"
      BY <1>1, <2>2, Walks DEF Walked
    <3>2. coreLayer' = "rollup" /\ seatLayer' = seatLayer /\ tableExists' = tableExists
      BY <2>2 DEF DelegateCore, tableVars
    <3>3. Rising
      BY <1>1, <1>2, <3>2 DEF Rising, Upright, Landed
    <3> QED BY <3>1, <3>2, <3>3, RisesTo
  <2> QED BY <1>1, <1>5, <2>1, <2>2 DEF StartCore, Upright
<1>6. CASE StartLook(p)
  <2>1. PICK T : T = {i \in Seats : SeatOnBase(i)} /\ Loop(p, "delegating", T)
    BY <1>1, <1>6 DEF StartLook
  <2>2. row'[p].step = "delegating" /\ row'[p].todo = T
    BY <1>1, <2>1, Walks DEF Walked
  <2>3. Rising /\ coreLayer = "rollup" /\ UNCHANGED vars
    BY <1>1, <1>3, <1>6 DEF StartLook, At, Along
  <2>4. OnlyDown(T)
    BY <1>1, <2>1 DEF Upright, Standing, OnlyDown, SeatOnBase
  <2>5. OnlyDown(T)'
    BY <2>3, <2>4, VarsStay, StillIs
  <2> QED BY <1>4, <2>2, <2>3, <2>5 DEF Along, Rises, Resting, OnlyDown
<1>7. CASE StartWait(p)
  <2>1. UNCHANGED vars /\ row[p].todo = {} /\ row[p].step \in {"delegating", "failing"}
    BY <1>7 DEF StartWait, At
  <2>2. AllOnRollup
    BY <1>1, <2>1, AllUp DEF Along, Upright
  <2>3. CASE To(p, "deck")
    <3>1. row'[p].step = "deck"
      BY <1>1, <2>3, Walks DEF Walked
    <3> QED BY <1>3, <1>4, <2>1, <2>2, <3>1, RisesTo
  <2>4. CASE End(p)
    BY <1>1, <1>3, <1>4, <2>1, <2>2, <2>4, EndsUp
  <2> QED BY <1>1, <1>7, <2>2, <2>3, <2>4 DEF StartWait, At, Along
<1>8. CASE SecureDeck(p)
  <2>1. UNCHANGED vars /\ AllOnRollup /\ coreLayer = "rollup"
    BY <1>1, <1>8 DEF SecureDeck, At, Along
  <2>2. PICK T : Loop(p, "secure", T)
    BY <1>1, <1>8, <2>1 DEF SecureDeck
  <2>3. row'[p].step = "secure"
    BY <1>1, <2>2, Walks DEF Walked
  <2> QED BY <1>3, <1>4, <2>1, <2>3, RisesTo
<1>9. CASE SecureSeat(p)
  <2>1. UNCHANGED vars /\ AllOnRollup
    BY <1>1, <1>9 DEF SecureSeat, At, Along
  <2>2. (\E T : Loop(p, "secure", T)) \/ End(p)
    BY <1>9 DEF SecureSeat
  <2>3. CASE \E T : Loop(p, "secure", T)
    <3>1. row'[p].step = "secure"
      BY <1>1, <2>3, Walks DEF Walked
    <3> QED BY <1>3, <1>4, <2>1, <3>1, RisesTo
  <2>4. CASE End(p)
    BY <1>1, <1>3, <1>4, <2>1, <2>4, EndsUp
  <2> QED BY <2>2, <2>3, <2>4
<1> QED BY <1>5, <1>6, <1>7, <1>8, <1>9

LEMMA SeatRises ==
    ASSUME Grounds, Agreed, OnlyStarts, faults' = 0, NEW p \in Clients, NEW i \in Seats,
           StartSeat(p, i)
    PROVE  Rises(p)
<1>1. /\ RowsOK /\ IInv /\ DeckFits /\ Standing /\ Upright /\ Along(p) /\ ~Fault
      /\ seatLayer \in [Seats -> Layers] /\ row[p] \in Rows
  BY FaultIs, RowFields DEF Grounds, Agreed, IInv, TypeOK
<1>2. row[p].step = "delegating" /\ coreLayer = "rollup"
  BY <1>1 DEF StartSeat, Along
<1>3. /\ IF ~AlreadyUp(i) THEN DelegateSeat(i) ELSE UNCHANGED vars
      /\ inAir' = inAir
      /\ \E M : Becomes(p, [row[p] EXCEPT !.todo = @ \ {i}, !.moved = M, !.step = @])
  BY <1>1 DEF StartSeat, WentUp
<1>4. PICK S, T : S = row[p].todo /\ T = S \ {i}
  OBVIOUS
<1>5. row'[p].step = "delegating" /\ row'[p].todo = T
  <2>1. PICK M : Becomes(p, [row[p] EXCEPT !.todo = T, !.moved = M, !.step = @])
    BY <1>3, <1>4
  <2> DEFINE r == [row[p] EXCEPT !.todo = T, !.moved = M, !.step = @]
  <2>2. r.step = "delegating" /\ r.todo = T
    BY <1>1, <1>2 DEF Rows
  <2> HIDE DEF r
  <2>3. row'[p] = r
    BY <1>1, <2>1, Turns DEF r
  <2> QED BY <2>2, <2>3
<1>6. /\ tableExists' = tableExists /\ coreLayer' = coreLayer
      /\ \A j \in Seats : j # i => seatLayer'[j] = seatLayer[j]
      /\ seatLayer'[i] = "rollup"
  <2>1. CASE ~AlreadyUp(i)
    BY <1>1, <1>3, <2>1 DEF DelegateSeat, tableVars
  <2>2. CASE AlreadyUp(i)
    <3>1. Still /\ SameBooks
      BY <1>3, <2>2, VarsStay
    <3>2. seatLayer[i] = "rollup"
      BY <1>1, <2>2 DEF AlreadyUp, SeatOnBase, Standing, Upright, Landed, Layers
    <3> QED BY <3>1, <3>2 DEF Still, SameBooks
  <2> QED BY <2>1, <2>2
<1>7. Rising
  BY <1>1, <1>3, <1>6 DEF Rising, Upright, Landed
<1>8. OnlyDown(S)
  BY <1>1, <1>2, <1>4 DEF Along
<1>9. OnlyDown(T)'
  BY <1>4, <1>6, <1>8 DEF OnlyDown
<1> QED BY <1>2, <1>5, <1>6, <1>7, <1>9 DEF Along, Rises, Resting, OnlyDown

(* The clients that start go up together, whoever comes first.             *)
LEMMA AgreedStep ==
    ASSUME CourseIInv, [ErrandNext]_errandVars, OnlyStarts'
    PROVE  /\ Upright' /\ \A p \in Clients : Along(p)'
           /\ \A p \in Clients : row[p] # Resting /\ row'[p] = Resting => AllOnRollup'
<1>1. /\ Grounds /\ RowsOK /\ IInv /\ DeckFits /\ Standing /\ InStep /\ Agreed
  BY DEF CourseIInv, Grounds
<1>2. OnlyStarts /\ faults' = 0 /\ pressed' \subseteq {"start"}
  BY <1>1, StepBounds, FaultIs DEF Bounds, OnlyStarts
<1>3. Upright /\ \A p \in Clients : Along(p)
  BY <1>1, <1>2 DEF Agreed
<1>4. ASSUME NEW p \in Clients PROVE row[p].step \in Starting \cup {"idle"}
  <2>1. row[p].goal \in {"start", "none"} /\ Fits(row[p])
    BY <1>1, <1>2 DEF InStep, OnlyStarts
  <2> QED BY <2>1 DEF Fits
<1>5. ASSUME NEW p \in Clients, Alone(p), Rises(p)
      PROVE  /\ Upright' /\ \A q \in Clients : Along(q)'
             /\ \A q \in Clients : row[q] # Resting /\ row'[q] = Resting => AllOnRollup'
  BY <1>3, <1>5, RisingKeeps DEF Rises, Rising, Alone
<1>6. ASSUME Rising, row' = row
      PROVE  /\ Upright' /\ \A q \in Clients : Along(q)'
             /\ \A q \in Clients : row[q] # Resting /\ row'[q] = Resting => AllOnRollup'
  BY <1>3, <1>6, RisingKeeps DEF Rising
<1>7. ASSUME NEW p \in Clients, GoesOn(p)
      PROVE  Alone(p) /\ Rises(p)
  <2>1. row[p].step \in Starting /\ row[p].step \notin {"failing", "undoing"}
    BY <1>3, <1>4, <1>7
    DEF Along, GoesOn, At, StartCore, StartLook, StartWait, UndoSeat, UndoCore, SecureDeck,
        SecureSeat, StartSeat, PauseRelease, PauseClear, PauseLook, PauseSeat, PauseCore,
        PauseLanding, PauseSweep, SitOut, AwaitHand, Leave, SweepHome, SitBack, ClearSeat,
        DeleteSweep, DeleteClose
  <2>2. \/ StartCore(p) \/ StartLook(p) \/ StartWait(p) \/ SecureDeck(p) \/ SecureSeat(p)
        \/ \E i \in Seats : StartSeat(p, i)
    BY <1>7, <2>1
    DEF GoesOn, At, UndoSeat, UndoCore, PauseRelease, PauseClear, PauseLook, PauseSeat,
        PauseCore, PauseLanding, PauseSweep, SitOut, AwaitHand, Leave, SweepHome, SitBack,
        ClearSeat, DeleteSweep, DeleteClose, Starting
  <2> QED BY <1>1, <1>2, <1>7, <2>2, StartsRise, SeatRises, GoesOnOn
<1>8. ASSUME NEW p \in Clients, Presses(p)
      PROVE  Alone(p) /\ Rises(p)
  <2>1. ASSUME NEW button, NEW first, Press(p, button, first)
        PROVE  /\ button = "start" /\ row'[p].step = first /\ Alone(p) /\ Rising
    <3>1. /\ row'[p].step = first /\ Alone(p) /\ UNCHANGED vars /\ inAir' = inAir
          /\ pressed' = pressed \cup {button}
      BY <1>1, <2>1, PressIs
    <3> QED BY <1>2, <1>3, <3>1, UprightStays
  <2>2. PressStart(p)
    BY <1>8, <2>1 DEF Presses, PressPause, PressToLeave, PressDelete
  <2>3. row'[p].step = "core" /\ Alone(p) /\ Rising
    BY <2>1, <2>2 DEF PressStart
  <2> QED BY <2>3, RisesTo
<1>9. CASE Cranks
  <2>1. row' = row
    BY <1>9, CranksDisturb
  <2>2. ASSUME \/ CrankSalts \/ CrankRequest \/ CrankReset \/ OracleAnswers
               \/ \E i \in Seats : CrankSecure(i)
        PROVE  Rising
    <3>1. UNCHANGED vars /\ inAir' = inAir
      BY <2>2 DEF CrankSalts, CrankRequest, CrankReset, OracleAnswers, CrankSecure
    <3> QED BY <1>3, <3>1, UprightStays
  <2>3. ASSUME CrankDeal \/ CrankSettle PROVE Rising
    <3>1. tableExists' = tableExists /\ Still /\ inAir' = inAir
      BY <2>3
      DEF CrankDeal, CrankSettle, StartHand, SettleHand, HandOver, layerVars, Still
    <3> QED BY <1>3, <3>1 DEF Rising, Upright, Still, Landed
  <2>4. CASE LateCore \/ \E i \in Seats : LateLanding(i)
    BY <1>3, <2>4 DEF LateCore, LateLanding, Upright
  <2> QED BY <1>6, <1>9, <2>1, <2>2, <2>3, <2>4 DEF Cranks
<1>10. CASE Lands
  BY <1>3, <1>10 DEF Lands, LandCore, LandSeat, Upright, Landed
<1>11. CASE DeadlinePasses \/ UNCHANGED errandVars
  BY <1>3, <1>6, <1>11, UprightStays, TimeIs DEF DeadlinePasses, errandVars
<1> QED BY <1>5, <1>7, <1>8, <1>9, <1>10, <1>11 DEF ErrandNext, Cranks, Presses

LEMMA CourseInit == ErrandInit => CourseIInv
<1> SUFFICES ASSUME ErrandInit PROVE CourseIInv
  OBVIOUS
<1>1. RowsOK /\ IInv
  BY ErrandInitInv
<1>2. /\ row = [p \in Clients |-> Resting] /\ calm = [p \in Clients |-> FALSE]
      /\ chips = [p \in Players |-> 0] /\ tableExists
      /\ seatExists = [i \in Seats |-> TRUE]
      /\ coreLayer = "base" /\ seatLayer = [i \in Seats |-> "base"]
      /\ shuffle = "idle" /\ inAir = {} /\ faults = 0
  BY DEF ErrandInit
<1>3. DeckFits /\ Standing
  BY <1>2 DEF DeckFits, Standing, Has
<1>4. \A p \in Clients : row[p] = Resting /\ ~calm[p]
  BY <1>2
<1>5. InStep
  BY <1>4 DEF InStep, Fits, Resting
<1>6. \A p \in Clients : OnCourse(p)
  BY <1>4 DEF OnCourse, Course, Smooth, Rough, Seating
<1>7. Agreed
  BY <1>2, <1>4 DEF Agreed, Upright, Landed, Along, Resting
<1> QED BY <1>1, <1>3, <1>5, <1>6, <1>7 DEF CourseIInv, Grounds

LEMMA CourseNext == CourseIInv /\ [ErrandNext]_errandVars => CourseIInv'
<1> SUFFICES ASSUME CourseIInv, [ErrandNext]_errandVars PROVE CourseIInv'
  OBVIOUS
<1>1. Grounds'
  BY GroundsStep
<1>2. \A p \in Clients : OnCourse(p)'
  BY CourseStep
<1>3. Agreed'
  BY AgreedStep DEF Agreed
<1> QED BY <1>1, <1>2, <1>3 DEF CourseIInv

(* Where the core, the seats, the players and the rake are at every step   *)
(* of every errand that nobody interfered with.                            *)
THEOREM CourseInvariant == ErrandSpec => []CourseIInv
<1> QED BY CourseInit, CourseNext, PTL DEF ErrandSpec

(* With no more than one fault, a start nobody interferes with has the     *)
(* whole table on the rollup or nothing of what it moved. Two faults can   *)
(* leave half a table: one loses a seat's delegation, the other the undo.  *)
THEOREM StartAllOrNothing ==
    ASSUME MaxFaults <= 1
    PROVE  ErrandSpec => StartIsAllOrNothing
<1>1. CourseIInv /\ [ErrandNext]_errandVars =>
        [\A p \in Clients :
            calm[p] /\ row'[p] = Resting /\ row[p].step \in {"undoing", "secure"} =>
                \/ AllOnRollup'
                \/ coreLayer' # "rollup" /\ \A i \in Seats : seatLayer'[i] # "rollup"]_errandVars
  BY CourseStep DEF Ends, WholeOrNothing
<1> QED BY <1>1, CourseInvariant, PTL DEF ErrandSpec, StartIsAllOrNothing

(* However many players press start, at once or one after the other, with  *)
(* every crank at work: nobody's start takes down what another's sent up.  *)
THEOREM StartsAgreeCorrect == ErrandSpec => StartsAgree
<1>1. CourseIInv /\ [ErrandNext]_errandVars =>
        [\A p \in Clients :
            row[p] # Resting /\ row'[p] = Resting /\ pressed' = {"start"} /\ faults' = 0 =>
                AllOnRollup']_errandVars
  BY AgreedStep DEF OnlyStarts
<1> QED BY <1>1, CourseInvariant, PTL DEF ErrandSpec, StartsAgree

(* An errand nobody interferes with and none of whose sends is lost does   *)
(* what its button says: the table is on the rollup, at home and swept,    *)
(* without the player, with it back on its chair, or gone.                 *)
THEOREM ErrandsSucceedCorrect == ErrandSpec => ErrandsSucceed
<1>1. CourseIInv /\ [ErrandNext]_errandVars =>
        [\A p \in Clients :
            calm[p] /\ faults' = 0 /\ row'[p] = Resting /\ row[p].step # "clear" =>
                Outcome(p)]_errandVars
  BY CourseStep DEF Ends, Succeeds
<1> QED BY <1>1, CourseInvariant, PTL DEF ErrandSpec, ErrandsSucceed
=============================================================================
