----------------------------- MODULE HandProofs -----------------------------
(***************************************************************************)
(* Proofs about the hand, in four parts.                                   *)
(*                                                                         *)
(*   1. Betting, for every table size, every blinds that create_table      *)
(*      accepts and every stacks.                                          *)
(*   2. Where the chips of a pot go, for every number of seats and all     *)
(*      stakes, folds, ranks and rakes: build_pots, distribute and the     *)
(*      rake neither make nor lose one, and a pot has a winner whenever    *)
(*      anybody who paid is still in.                                      *)
(*   3. Hand, on top of both: what a closed hand leaves behind, that its   *)
(*      cards are dealt once, that its pots can always be paid, and that   *)
(*      it is one deal and one award as far as the seats' money can tell.  *)
(*   4. Settlement: who pays how much of the rake, and that the server's   *)
(*      own arithmetic finds it again.                                     *)
(***************************************************************************)
EXTENDS Hand, Settlement, Sums, SequenceTheorems

-----------------------------------------------------------------------------
(***************************************************************************)
(* 1. Betting                                                              *)
(***************************************************************************)

-----------------------------------------------------------------------------
(* Walking round the table.                                                *)

(* The loop of next_occupied and find_next_actor finds a seat whenever     *)
(* there is one to find.                                                   *)
LEMMA FirstAfterIn ==
    ASSUME NEW from \in Seats, NEW S \in SUBSET Seats
    PROVE  /\ S # {} => FirstAfter(from, S) \in S
           /\ S = {} => FirstAfter(from, S) = NoSeat
<1>1. CASE S = {}
  BY <1>1 DEF FirstAfter
<1>2. CASE S # {}
  <2> DEFINE D == {Steps(from, i) : i \in S}
  <2>1. \A i \in Seats : Steps(from, i) \in Nat
    BY SeatsAssumption DEF Steps, Seats
  <2>2. D \in SUBSET Nat /\ D # {}
    BY <1>2, <2>1
  <2>3. PICK m \in D : \A k \in D : m <= k
    BY <2>2, LeastNat
  <2>4. PICK i \in S : m = Steps(from, i)
    BY <2>3
  <2>5. \A j \in S : Steps(from, i) <= Steps(from, j)
    BY <2>3, <2>4
  <2>6. QED
    BY <1>2, <2>5 DEF FirstAfter
<1>3. QED BY <1>1, <1>2

(* What find_next_actor and settle_if_no_action answer: a seat that owes   *)
(* an action, or nobody because the hand is decided or nobody owes one.    *)
LEMMA NextToActInPrime ==
    ASSUME NEW from \in Seats
    PROVE  \/ NextToAct(from)' \in Owing' /\ ~HandIsOver'
           \/ NextToAct(from)' = NoSeat /\ (HandIsOver' \/ Owing' = {})
<1> DEFINE next == FirstAfter(from, Owing)
<1>1. Owing' \in SUBSET Seats
  BY DEF Owing, Active
<1>2. /\ Owing' # {} => next' \in Owing'
      /\ Owing' = {} => next' = NoSeat
  BY <1>1, FirstAfterIn
<1>3. next' \in Owing' => needsAction'[next'] /\ next' # NoSeat
  BY SeatsAssumption DEF Owing, Active, Seats, NoSeat
<1> HIDE DEF next
<1>4. NextToAct(from)' =
        IF HandIsOver' \/ next' = NoSeat THEN NoSeat
        ELSE IF /\ \A i \in Active' : i = next'
                /\ streetCommitted'[next'] >= currentBet'
                /\ ~needsAction'[next']
             THEN NoSeat ELSE next'
  BY DEF NextToAct, next
<1> QED BY <1>2, <1>3, <1>4

-----------------------------------------------------------------------------
(* The inductive invariant.                                                *)

(* Nobody has more in the street than the bet, or more in the street than  *)
(* in the hand; a seat of the hand is all-in exactly when it is broke, and *)
(* a seat outside it has nothing in the middle. The minimum raise of a     *)
(* hand is at least the big blind.                                         *)
Accounts ==
    \A i \in Seats :
        /\ streetCommitted[i] <= currentBet
        /\ streetCommitted[i] <= totalCommitted[i]
        /\ inHand[i] => (allIn[i] <=> stack[i] = 0)
        /\ ~inHand[i] => totalCommitted[i] = 0
        /\ inHand[i] => minRaise >= BigBlind

(* A seat that can still act either owes an action or has acted and        *)
(* matched the bet.                                                        *)
OwingOrMatched ==
    \A i \in Active : ~needsAction[i] => i \in acted /\ streetCommitted[i] = currentBet

(* Over the streets already closed, no seat put in more than a seat that   *)
(* can still act.                                                          *)
PriorStakesLead ==
    \A i \in Active, j \in Seats :
        totalCommitted[j] - streetCommitted[j] <= totalCommitted[i] - streetCommitted[i]

IInv == /\ TypeOK
        /\ Accounts
        /\ OwingOrMatched
        /\ PriorStakesLead
        /\ TurnIsPlayable
        /\ StreetClosesMatched
        /\ RaiseRights

LEMMA InitIInv == Init => IInv
<1> SUFFICES ASSUME Init PROVE IInv
  OBVIOUS
<1>1. Active = {} /\ Owing = {} /\ Contesting = {}
  BY DEF Init, Active, Owing, IsActive, Contesting, IsInHand
<1>2. TypeOK
  <2>1. stack \in [Seats -> Nat]
    BY StacksAssumption DEF Init
  <2>2. 0 \in Seats
    BY SeatsAssumption DEF Seats
  <2> QED BY <2>1, <2>2 DEF Init, TypeOK, PreFlop, Showdown
<1>3. Accounts
  BY DEF Init, Accounts
<1>4. OwingOrMatched /\ PriorStakesLead /\ TurnIsPlayable /\ StreetClosesMatched /\ RaiseRights
  BY <1>1 DEF Init, OwingOrMatched, PriorStakesLead, TurnIsPlayable, StreetClosesMatched,
              RaiseRights
<1> QED BY <1>2, <1>3, <1>4 DEF IInv

(* What the tail of every action establishes. *)
LEMMA TurnAfterAction ==
    ASSUME NEW from \in Seats, toAct' = NextToAct(from)', TypeOK', Accounts', OwingOrMatched'
    PROVE  TurnIsPlayable' /\ StreetClosesMatched'
<1>1. \/ toAct' \in Owing' /\ ~HandIsOver'
      \/ toAct' = NoSeat /\ (HandIsOver' \/ Owing' = {})
  BY NextToActInPrime
<1>2. \A i \in Owing' : i \in Seats /\ stack'[i] > 0
  BY DEF TypeOK, Accounts, Owing, Active, IsActive
<1>3. TurnIsPlayable'
  BY <1>1, <1>2 DEF TurnIsPlayable
<1>4. \A i \in Owing' : i # NoSeat
  BY SeatsAssumption DEF Owing, Active, Seats, NoSeat
<1>5. StreetClosesMatched'
  BY <1>1, <1>4 DEF StreetClosesMatched, StreetIsComplete, OwingOrMatched, Owing
<1> QED BY <1>3, <1>5

-----------------------------------------------------------------------------
(* Each action preserves the invariant.                                    *)

LEMMA FoldIInv ==
    ASSUME NEW i \in Seats, IInv, Fold(i)
    PROVE  IInv'
<1> USE DEF IInv
<1>1. TypeOK'
  <2>1. toAct' \in Seats \cup {NoSeat}
    BY NextToActInPrime DEF Fold, Owing, Active
  <2> QED BY <2>1 DEF TypeOK, Fold
<1>2. Active' = Active \ {i} /\ Owing' = Owing \ {i}
  BY DEF TypeOK, Fold, Active, IsActive, Owing
<1>3. Accounts'
  BY DEF Accounts, Fold
<1>4. OwingOrMatched'
  BY <1>2 DEF OwingOrMatched, Fold, Active, TypeOK
<1>5. PriorStakesLead'
  BY <1>2 DEF PriorStakesLead, Fold
<1>6. TurnIsPlayable' /\ StreetClosesMatched'
  BY <1>1, <1>3, <1>4, TurnAfterAction DEF Fold
<1>7. RaiseRights'
  BY <1>2 DEF RaiseRights, Fold
<1> QED BY <1>1, <1>3, <1>4, <1>5, <1>6, <1>7

LEMMA CheckIInv ==
    ASSUME NEW i \in Seats, IInv, Check(i)
    PROVE  IInv'
<1> USE DEF IInv
<1>1. TypeOK'
  <2>1. toAct' \in Seats \cup {NoSeat}
    BY NextToActInPrime DEF Check, Owing, Active
  <2> QED BY <2>1 DEF TypeOK, Check
<1>2. Active' = Active /\ Owing' = Owing \ {i}
  BY DEF TypeOK, Check, Active, IsActive, Owing
<1>3. Accounts'
  BY DEF Accounts, Check
<1>4. OwingOrMatched'
  BY <1>2 DEF OwingOrMatched, Accounts, Check, Active, TypeOK
<1>5. PriorStakesLead'
  BY <1>2 DEF PriorStakesLead, Check
<1>6. TurnIsPlayable' /\ StreetClosesMatched'
  BY <1>1, <1>3, <1>4, TurnAfterAction DEF Check
<1>7. RaiseRights'
  BY <1>2 DEF RaiseRights, Check
<1> QED BY <1>1, <1>3, <1>4, <1>5, <1>6, <1>7

LEMMA CallIInv ==
    ASSUME NEW i \in Seats, IInv, Call(i)
    PROVE  IInv'
<1> USE DEF IInv
<1> DEFINE paid == CallAmount(i)
<1>1. /\ paid \in Nat /\ paid <= stack[i]
      /\ streetCommitted[i] + paid <= currentBet
      /\ paid # stack[i] => streetCommitted[i] + paid = currentBet
  BY DEF Call, CallAmount, Lesser, Owed, TypeOK, Accounts
<1>2. /\ stack' = [stack EXCEPT ![i] = @ - paid]
      /\ streetCommitted' = [streetCommitted EXCEPT ![i] = @ + paid]
      /\ totalCommitted' = [totalCommitted EXCEPT ![i] = @ + paid]
      /\ allIn' = [allIn EXCEPT ![i] = @ \/ paid = stack[i]]
  BY DEF Call, Pay
<1> HIDE DEF paid
<1>3. TypeOK'
  <2>1. toAct' \in Seats \cup {NoSeat}
    BY NextToActInPrime DEF Call, Owing, Active
  <2> QED BY <1>1, <1>2, <2>1 DEF TypeOK, Call
<1>4. /\ Active' \subseteq Active /\ Owing' = Owing \ {i}
      /\ i \in Active' => paid # stack[i]
  BY <1>2 DEF TypeOK, Call, Active, IsActive, Owing
<1>5. Accounts'
  <2> SUFFICES ASSUME NEW j \in Seats
               PROVE  /\ streetCommitted'[j] <= currentBet'
                      /\ streetCommitted'[j] <= totalCommitted'[j]
                      /\ inHand'[j] => (allIn'[j] <=> stack'[j] = 0)
                      /\ ~inHand'[j] => totalCommitted'[j] = 0
                      /\ inHand'[j] => minRaise' >= BigBlind
    BY DEF Accounts
  <2>1. inHand[i] /\ ~allIn[i]
    BY DEF Call, MayAct, IsActive
  <2> QED BY <1>1, <1>2, <2>1 DEF Accounts, Call, TypeOK
<1>6. OwingOrMatched'
  BY <1>1, <1>2, <1>4 DEF OwingOrMatched, Accounts, Call, Active, TypeOK
<1>7. PriorStakesLead'
  BY <1>1, <1>2, <1>4 DEF PriorStakesLead, Call, TypeOK, Active
<1>8. TurnIsPlayable' /\ StreetClosesMatched'
  BY <1>3, <1>5, <1>6, TurnAfterAction DEF Call
<1>9. RaiseRights'
  BY <1>4 DEF RaiseRights, Call
<1> QED BY <1>3, <1>5, <1>6, <1>7, <1>8, <1>9

LEMMA RaiseToIInv ==
    ASSUME NEW i \in Seats, NEW to \in Nat, IInv, RaiseTo(i, to)
    PROVE  IInv'
<1> USE DEF IInv
<1> DEFINE needed == to - streetCommitted[i]
           full == to - currentBet >= minRaise
<1>1. /\ needed \in Nat /\ needed <= stack[i]
      /\ to > currentBet
      /\ streetCommitted[i] + needed = to
  BY DEF RaiseTo, RaiseAllowed, TypeOK, Accounts
<1>2. /\ stack' = [stack EXCEPT ![i] = @ - needed]
      /\ streetCommitted' = [streetCommitted EXCEPT ![i] = @ + needed]
      /\ totalCommitted' = [totalCommitted EXCEPT ![i] = @ + needed]
      /\ allIn' = [allIn EXCEPT ![i] = @ \/ needed = stack[i]]
  BY DEF RaiseTo, Pay
<1>3. /\ minRaise' = IF full THEN to - currentBet ELSE minRaise
      /\ lastAggressor' = IF full THEN i ELSE lastAggressor
      /\ currentBet' = to
      /\ mayRaise' = [j \in Seats |-> IF j = i \/ ~IsActive(j) THEN mayRaise[j]
                                      ELSE full \/ (needsAction[j] /\ mayRaise[j])]
      /\ needsAction' = [j \in Seats |-> j # i /\ (IsActive(j) \/ needsAction[j])]
      /\ acted' = IF full THEN {i} ELSE acted \cup {i}
      /\ UNCHANGED <<inHand, folded, button, street>>
      /\ toAct' = NextToAct(i)'
  BY DEF RaiseTo, IsFullRaise
<1>4. i \in Active
  BY DEF RaiseTo, MayAct, Active
<1> HIDE DEF needed, full
<1>5. TypeOK'
  <2>1. toAct' \in Seats \cup {NoSeat}
    BY <1>3, NextToActInPrime DEF Owing, Active
  <2>2. /\ stack' \in [Seats -> Nat] /\ streetCommitted' \in [Seats -> Nat]
        /\ totalCommitted' \in [Seats -> Nat] /\ allIn' \in [Seats -> BOOLEAN]
    BY <1>1, <1>2 DEF TypeOK
  <2>3. currentBet' \in Nat /\ minRaise' \in Nat
    BY <1>1, <1>3 DEF TypeOK
  <2>4. mayRaise' \in [Seats -> BOOLEAN] /\ needsAction' \in [Seats -> BOOLEAN]
    BY <1>3 DEF TypeOK, IsActive
  <2> QED BY <1>3, <2>1, <2>2, <2>3, <2>4 DEF TypeOK
<1>6. /\ Active' \subseteq Active
      /\ \A j \in Active : j # i => j \in Active'
      /\ Owing' = Active \ {i}
  <2>1. \A j \in Seats : j # i => allIn'[j] = allIn[j]
    BY <1>2 DEF TypeOK
  <2>2. \A j \in Seats : allIn[j] => allIn'[j]
    BY <1>2 DEF TypeOK
  <2> QED BY <1>3, <2>1, <2>2 DEF Active, IsActive, Owing
<1>7. Accounts'
  <2> SUFFICES ASSUME NEW j \in Seats
               PROVE  /\ streetCommitted'[j] <= currentBet'
                      /\ streetCommitted'[j] <= totalCommitted'[j]
                      /\ inHand'[j] => (allIn'[j] <=> stack'[j] = 0)
                      /\ ~inHand'[j] => totalCommitted'[j] = 0
                      /\ inHand'[j] => minRaise' >= BigBlind
    BY DEF Accounts
  <2>1. inHand[i] /\ ~allIn[i]
    BY <1>4 DEF Active, IsActive
  <2>2. minRaise \in Nat /\ minRaise' \in Nat /\ minRaise' >= minRaise
    BY <1>1, <1>3, <1>5 DEF full, TypeOK
  <2>3. inHand'[j] => minRaise' >= BigBlind
    BY <1>3, <2>2, BlindsAssumption DEF Accounts
  <2>4. /\ streetCommitted[j] \in Nat /\ totalCommitted[j] \in Nat /\ stack[j] \in Nat
        /\ streetCommitted[j] <= currentBet /\ streetCommitted[j] <= totalCommitted[j]
        /\ inHand[j] => (allIn[j] <=> stack[j] = 0)
        /\ ~inHand[j] => totalCommitted[j] = 0
        /\ currentBet \in Nat
    BY DEF Accounts, TypeOK
  <2>5. CASE j = i
    <3>1. /\ streetCommitted'[j] = to /\ totalCommitted'[j] = totalCommitted[j] + needed
          /\ stack'[j] = stack[j] - needed /\ (allIn'[j] <=> allIn[j] \/ needed = stack[j])
      BY <1>1, <1>2, <2>4, <2>5 DEF TypeOK
    <3> QED BY <1>1, <1>3, <2>1, <2>3, <2>4, <2>5, <3>1
  <2>6. CASE j # i
    <3>1. /\ streetCommitted'[j] = streetCommitted[j] /\ totalCommitted'[j] = totalCommitted[j]
          /\ stack'[j] = stack[j] /\ allIn'[j] = allIn[j]
      BY <1>2, <2>6 DEF TypeOK
    <3> QED BY <1>1, <1>3, <2>3, <2>4, <3>1
  <2> QED BY <2>5, <2>6
<1>8. OwingOrMatched'
  <2> SUFFICES ASSUME NEW j \in Active', ~needsAction'[j]
               PROVE  j \in acted' /\ streetCommitted'[j] = currentBet'
    BY DEF OwingOrMatched
  <2>1. j = i
    BY <1>3, <1>6 DEF Active
  <2> QED BY <1>1, <1>2, <1>3, <2>1 DEF TypeOK
<1>9. PriorStakesLead'
  BY <1>1, <1>2, <1>6 DEF PriorStakesLead, TypeOK, Active
<1>10. TurnIsPlayable' /\ StreetClosesMatched'
  BY <1>3, <1>5, <1>7, <1>8, TurnAfterAction
<1>11. RaiseRights'
  <2> SUFFICES ASSUME NEW j \in Active, j # i
               PROVE  mayRaise'[j] <=> j \notin acted'
    BY <1>6 DEF RaiseRights
  <2>1. j \in Seats /\ IsActive(j)
    BY DEF Active
  <2>2. mayRaise'[j] = (full \/ (needsAction[j] /\ mayRaise[j]))
    BY <1>3, <2>1
  <2>3. needsAction[j] => (mayRaise[j] <=> j \notin acted)
    BY DEF RaiseRights, Owing
  <2>4. ~needsAction[j] => j \in acted
    BY DEF OwingOrMatched
  <2>5. CASE full
    BY <1>3, <2>2, <2>5
  <2>6. CASE ~full
    BY <1>3, <2>2, <2>3, <2>4, <2>6
  <2> QED BY <2>5, <2>6
<1> QED BY <1>5, <1>7, <1>8, <1>9, <1>10, <1>11

LEMMA AdvanceStreetIInv ==
    ASSUME IInv, AdvanceStreet
    PROVE  IInv'
<1> USE DEF IInv
<1>1. CASE HandIsOver
  <2>1. /\ street' = Showdown /\ toAct' = NoSeat
        /\ UNCHANGED <<seatVars, button, currentBet, minRaise, lastAggressor, acted>>
    BY <1>1 DEF AdvanceStreet
  <2>2. /\ Active' = Active /\ Owing' = Owing /\ HandIsOver'
    BY <1>1, <2>1
    DEF seatVars, Active, IsActive, Owing, HandIsOver, Contesting, IsInHand
  <2>3. TypeOK'
    BY <2>1 DEF TypeOK, seatVars, PreFlop, Showdown
  <2>4. Accounts' /\ OwingOrMatched' /\ PriorStakesLead' /\ RaiseRights'
    BY <2>1, <2>2 DEF seatVars, Accounts, OwingOrMatched, PriorStakesLead, RaiseRights
  <2>5. TurnIsPlayable' /\ StreetClosesMatched'
    BY <2>1, <2>2 DEF TurnIsPlayable, StreetClosesMatched
  <2> QED BY <2>3, <2>4, <2>5
<1>2. CASE ~HandIsOver
  <2>1. /\ street' = street + 1 /\ street # Showdown
        /\ currentBet' = 0 /\ minRaise' = BigBlind /\ lastAggressor' = NoSeat
        /\ streetCommitted' = [i \in Seats |-> 0]
        /\ needsAction' = [i \in Seats |-> IsActive(i)]
        /\ mayRaise' = [i \in Seats |-> IsActive(i) \/ mayRaise[i]]
        /\ acted' = {}
        /\ UNCHANGED <<inHand, stack, totalCommitted, folded, allIn, button>>
        /\ toAct' = IF street' = Showdown \/ Cardinality(Active) < 2 THEN NoSeat
                    ELSE FirstAfter(button, Owing)'
        /\ StreetIsComplete
    BY <1>2 DEF AdvanceStreet
  <2>2. /\ Active' = Active /\ Owing' = Active /\ HandIsOver' = HandIsOver
        /\ Active \in SUBSET Seats
    BY <2>1 DEF Active, IsActive, Owing, HandIsOver, Contesting, IsInHand
  <2>3. \/ toAct' = NoSeat
        \/ toAct' \in Owing'
    <3>1. CASE toAct' = NoSeat
      BY <3>1
    <3>2. CASE toAct' = FirstAfter(button', Owing') /\ Cardinality(Active) >= 2
      <4>1. Owing' # {}
        BY <2>2, <3>2, FS_EmptySet
      <4> QED BY <2>1, <2>2, <3>2, <4>1, FirstAfterIn DEF TypeOK
    <3>3. Cardinality(Active) < 2 \/ Cardinality(Active) >= 2
      <4>1. IsFiniteSet(Seats)
        BY SeatsAssumption, FS_Interval DEF Seats
      <4>2. Cardinality(Active) \in Nat
        BY <2>2, <4>1, FS_Subset, FS_CardinalityType
      <4> QED BY <4>2
    <3> QED BY <2>1, <3>1, <3>2, <3>3
  <2>4. TypeOK'
    BY <2>1, <2>2, <2>3, BlindsAssumption DEF TypeOK, PreFlop, Showdown, IsActive
  <2>5. \A i \in Active, j \in Seats : totalCommitted[j] <= totalCommitted[i]
    BY <1>2, <2>1, <2>2
    DEF StreetClosesMatched, PriorStakesLead, Accounts, TypeOK
  <2>6. Accounts'
    BY <2>1, BlindsAssumption DEF Accounts, TypeOK
  <2>7. OwingOrMatched' /\ RaiseRights'
    BY <2>1, <2>2 DEF OwingOrMatched, RaiseRights, Owing, Active
  <2>8. PriorStakesLead'
    BY <2>1, <2>2, <2>5 DEF PriorStakesLead, TypeOK
  <2>9. TurnIsPlayable'
    <3>1. \A i \in Active : stack'[i] > 0
      BY <2>1 DEF Active, IsActive, Accounts, TypeOK
    <3> QED BY <1>2, <2>2, <2>3, <3>1 DEF TurnIsPlayable
  <2>10. StreetClosesMatched'
    BY <2>1, <2>2 DEF StreetClosesMatched
  <2> QED BY <2>4, <2>6, <2>7, <2>8, <2>9, <2>10
<1> QED BY <1>1, <1>2

(* Whatever stacks it is given, begin_hand starts from nothing else.       *)
LEMMA BeginHandIInv ==
    ASSUME NEW stacks \in [Seats -> Nat], NEW btn \in Seats, BeginHand(stacks, btn)
    PROVE  IInv'
<1> USE DEF IInv
<1> DEFINE players == {i \in Seats : stacks[i] > 0}
<1>1. PICK sb \in players, bb \in players :
        /\ streetCommitted' =
              [i \in Seats |-> IF i = bb THEN Lesser(BigBlind, stacks[i])
                               ELSE IF i = sb THEN Lesser(SmallBlind, stacks[i])
                               ELSE 0]
        /\ totalCommitted' = streetCommitted'
        /\ stack' = [i \in Seats |-> stacks[i] - streetCommitted'[i]]
        /\ inHand' = [i \in Seats |-> i \in players]
        /\ folded' = [i \in Seats |-> FALSE]
        /\ allIn' = [i \in Seats |-> i \in players /\ stack'[i] = 0]
        /\ needsAction' = [i \in Seats |-> i \in players /\ stack'[i] > 0]
        /\ mayRaise' = [i \in Seats |-> i \in players]
        /\ button' = btn /\ street' = PreFlop
        /\ currentBet' = BigBlind /\ minRaise' = BigBlind
        /\ lastAggressor' = NoSeat /\ acted' = {}
        /\ toAct' = NextToAct(bb)'
  BY DEF BeginHand
<1>2. \A i \in Seats : /\ streetCommitted'[i] \in Nat
                       /\ streetCommitted'[i] <= stacks[i]
                       /\ streetCommitted'[i] <= BigBlind
                       /\ i \notin players => streetCommitted'[i] = 0
  BY <1>1, BlindsAssumption DEF Lesser
<1>3. streetCommitted' \in [Seats -> Nat]
  BY <1>1, <1>2
<1>4. stack' \in [Seats -> Nat]
  BY <1>1, <1>2
<1>5. Active' = {i \in players : stack'[i] > 0} /\ Owing' = Active'
  <2>1. \A i \in Seats : i \in players => inHand'[i] /\ ~folded'[i]
    BY <1>1
  <2>2. \A i \in Seats : allIn'[i] <=> (i \in players /\ stack'[i] = 0)
    BY <1>1
  <2>3. \A i \in Seats : needsAction'[i] <=> (i \in players /\ stack'[i] > 0)
    BY <1>1
  <2>4. \A i \in Seats : inHand'[i] => i \in players
    BY <1>1
  <2>5. \A i \in Seats : stack'[i] > 0 <=> stack'[i] # 0
    BY <1>4
  <2>6. players \subseteq Seats
    OBVIOUS
  <2> HIDE DEF players
  <2> QED BY <2>1, <2>2, <2>3, <2>4, <2>5, <2>6 DEF Active, IsActive, Owing
<1>6. TypeOK'
  <2>1. toAct' \in Seats \cup {NoSeat}
    BY <1>1, NextToActInPrime DEF Owing, Active
  <2>2. /\ totalCommitted' \in [Seats -> Nat]
        /\ allIn' \in [Seats -> BOOLEAN] /\ needsAction' \in [Seats -> BOOLEAN]
    BY <1>1, <1>3, <1>4
  <2> QED BY <1>1, <1>3, <1>4, <2>1, <2>2, BlindsAssumption DEF TypeOK, PreFlop, Showdown
<1>7. Accounts'
  <2> SUFFICES ASSUME NEW j \in Seats
               PROVE  /\ streetCommitted'[j] <= currentBet'
                      /\ streetCommitted'[j] <= totalCommitted'[j]
                      /\ inHand'[j] => (allIn'[j] <=> stack'[j] = 0)
                      /\ ~inHand'[j] => totalCommitted'[j] = 0
                      /\ inHand'[j] => minRaise' >= BigBlind
    BY DEF Accounts
  <2>1. inHand'[j] <=> j \in players
    BY <1>1
  <2>2. allIn'[j] <=> (j \in players /\ stack'[j] = 0)
    BY <1>1
  <2> HIDE DEF players
  <2> QED BY <1>1, <1>2, <2>1, <2>2, BlindsAssumption
<1>8. OwingOrMatched' /\ RaiseRights'
  BY <1>1, <1>5 DEF OwingOrMatched, RaiseRights, Owing
<1>9. PriorStakesLead'
  BY <1>1, <1>2, <1>5 DEF PriorStakesLead
<1>10. TurnIsPlayable' /\ StreetClosesMatched'
  <2>1. bb \in Seats /\ toAct' = NextToAct(bb)'
    BY <1>1
  <2> QED BY <1>6, <1>7, <1>8, <2>1, TurnAfterAction
<1> QED BY <1>6, <1>7, <1>8, <1>9, <1>10

LEMMA StartIInv ==
    ASSUME IInv, Start
    PROVE  IInv'
<1>1. PICK btn \in Seats : BeginHand(stack, btn)
  BY DEF Start
<1>2. stack \in [Seats -> Nat]
  BY DEF IInv, TypeOK
<1> QED BY <1>1, <1>2, BeginHandIInv

-----------------------------------------------------------------------------
(* The theorems.                                                           *)

LEMMA ActIInv ==
    ASSUME NEW i \in Seats, IInv, Act(i)
    PROVE  IInv'
<1>1. CASE Fold(i)
  BY <1>1, FoldIInv
<1>2. CASE Check(i)
  BY <1>2, CheckIInv
<1>3. CASE Call(i)
  BY <1>3, CallIInv
<1>4. CASE \E to \in Nat : RaiseTo(i, to)
  BY <1>4, RaiseToIInv
<1>5. Raise(i) => \E to \in Nat : RaiseTo(i, to)
  <2> SUFFICES ASSUME Raise(i) PROVE \E to \in Nat : RaiseTo(i, to)
    OBVIOUS
  <2>1. PICK to \in currentBet + 1 .. streetCommitted[i] + stack[i] : RaiseTo(i, to)
    BY DEF Raise
  <2>2. to \in Nat
    BY <2>1 DEF IInv, TypeOK
  <2> QED BY <2>1, <2>2
<1>6. AllIn(i) => Call(i) \/ \E to \in Nat : RaiseTo(i, to)
  <2>1. streetCommitted[i] + stack[i] \in Nat
    BY DEF IInv, TypeOK
  <2> QED BY <2>1 DEF AllIn
<1> QED BY <1>1, <1>2, <1>3, <1>4, <1>5, <1>6 DEF Act

LEMMA StutterIInv ==
    ASSUME IInv, UNCHANGED bettingVars
    PROVE  IInv'
BY DEF IInv, TypeOK, Accounts, OwingOrMatched, PriorStakesLead, TurnIsPlayable,
       StreetClosesMatched, StreetIsComplete, RaiseRights, bettingVars, seatVars, roundVars,
       Active, IsActive, Owing, HandIsOver, Contesting, IsInHand

(* The inductive invariant holds of every hand. *)
THEOREM BettingInvariant == Spec => []IInv
<1>1. Init => IInv
  BY InitIInv
<1>2. IInv /\ [Next]_bettingVars => IInv'
  <2> SUFFICES ASSUME IInv, [Next]_bettingVars PROVE IInv'
    OBVIOUS
  <2>1. CASE Start
    BY <2>1, StartIInv
  <2>2. CASE AdvanceStreet
    BY <2>2, AdvanceStreetIInv
  <2>3. CASE \E i \in Seats : Act(i)
    BY <2>3, ActIInv
  <2>4. CASE UNCHANGED bettingVars
    BY <2>4, StutterIInv
  <2> QED BY <2>1, <2>2, <2>3, <2>4 DEF Next
<1> QED BY <1>1, <1>2, PTL DEF Spec

(* The fields keep their types: no stack or commitment goes negative. *)
THEOREM TypeCorrect == Spec => []TypeOK
<1>1. IInv => TypeOK
  BY DEF IInv
<1> QED BY <1>1, BettingInvariant, PTL

(* The engine never waits for a seat that cannot act (apply). *)
THEOREM TurnCorrect == Spec => []TurnIsPlayable
<1>1. IInv => TurnIsPlayable
  BY DEF IInv
<1> QED BY <1>1, BettingInvariant, PTL

(* No street closes over an unmatched bet (find_next_actor). *)
THEOREM ClosingCorrect == Spec => []StreetClosesMatched
<1>1. IInv => StreetClosesMatched
  BY DEF IInv
<1> QED BY <1>1, BettingInvariant, PTL

(* When a street is closed, the seats that can still act have the largest  *)
(* stakes in the middle.                                                   *)
THEOREM StakesCorrect == Spec => []ActiveStakesLead
<1>1. IInv => ActiveStakesLead
  <2> SUFFICES ASSUME IInv, StreetIsComplete, ~HandIsOver,
                      NEW i \in Active, NEW j \in Seats
               PROVE  totalCommitted[j] <= totalCommitted[i]
    BY DEF ActiveStakesLead
  <2>1. i \in Seats /\ streetCommitted[i] = currentBet /\ streetCommitted[j] <= currentBet
    BY DEF IInv, StreetClosesMatched, Accounts, Active
  <2>2. totalCommitted[j] - streetCommitted[j] <= totalCommitted[i] - streetCommitted[i]
    BY DEF IInv, PriorStakesLead
  <2> QED BY <2>1, <2>2 DEF IInv, TypeOK
<1> QED BY <1>1, BettingInvariant, PTL

(* The right to raise follows the full-raise rule (RaiseTo). *)
THEOREM RaiseRightsCorrect == Spec => []RaiseRights
<1>1. IInv => RaiseRights
  BY DEF IInv
<1> QED BY <1>1, BettingInvariant, PTL

(* legal_actions offers exactly the raises apply accepts. *)
THEOREM OfferedRaisesCorrect == Spec => []OfferedRaisesAreLegal
<1>1. IInv => OfferedRaisesAreLegal
  <2> SUFFICES ASSUME IInv, NEW i \in Seats, MayAct(i)
               PROVE  /\ CanRaise(i) => /\ RaiseAllowed(i, MinRaiseTo(i))
                                        /\ RaiseAllowed(i, MaxRaiseTo(i))
                      /\ \A to \in 0 .. MaxRaiseTo(i) :
                            RaiseAllowed(i, to) => CanRaise(i) /\ to >= MinRaiseTo(i)
    BY DEF OfferedRaisesAreLegal
  <2>1. streetCommitted[i] <= currentBet /\ minRaise \in Nat /\ currentBet \in Nat
        /\ streetCommitted[i] \in Nat /\ stack[i] \in Nat
    BY DEF IInv, TypeOK, Accounts
  <2> DEFINE held == streetCommitted[i] + stack[i]
  <2>2. MaxRaiseTo(i) = held /\ held \in Nat /\ held >= streetCommitted[i]
    BY <2>1 DEF MaxRaiseTo
  <2>3. MinRaiseTo(i) = IF currentBet + minRaise <= held THEN currentBet + minRaise ELSE held
    BY <2>2 DEF MinRaiseTo, Lesser
  <2>4. ASSUME CanRaise(i)
        PROVE  RaiseAllowed(i, MinRaiseTo(i)) /\ RaiseAllowed(i, MaxRaiseTo(i))
    <3>1. mayRaise[i] /\ held > currentBet
      BY <2>2, <2>4 DEF CanRaise
    <3>2. minRaise > 0
      BY <2>1, BlindsAssumption DEF IInv, Accounts, MayAct, IsActive
    <3> QED BY <2>1, <2>2, <2>3, <3>1, <3>2 DEF RaiseAllowed
  <2>5. ASSUME NEW to \in 0 .. MaxRaiseTo(i), RaiseAllowed(i, to)
        PROVE  CanRaise(i) /\ to >= MinRaiseTo(i)
    BY <2>1, <2>2, <2>3, <2>5 DEF CanRaise, RaiseAllowed
  <2> QED BY <2>4, <2>5
<1> QED BY <1>1, BettingInvariant, PTL

-----------------------------------------------------------------------------
(* Action properties.                                                      *)

LEMMA PayKeepsChips ==
    ASSUME TypeOK, NEW i \in Seats, NEW chips \in Nat, Pay(i, chips)
    PROVE  /\ \A j \in Seats : stack'[j] + totalCommitted'[j] = stack[j] + totalCommitted[j]
           /\ \A j \in Seats \ {i} : stack'[j] = stack[j]
  BY DEF TypeOK, Pay

(* A step of the hand that is not its start or a street change. *)
LEMMA ActKeepsChips ==
    ASSUME IInv, NEW i \in Seats, Act(i)
    PROVE  /\ \A j \in Seats : stack'[j] + totalCommitted'[j] = stack[j] + totalCommitted[j]
           /\ \A j \in Seats \ {i} : stack'[j] = stack[j]
           /\ toAct = i /\ currentBet' >= currentBet /\ minRaise' >= minRaise
<1> USE DEF IInv
<1>1. CASE Fold(i) \/ Check(i)
  BY <1>1 DEF Fold, Check, MayAct, TypeOK
<1>2. CASE Call(i)
  <2>1. CallAmount(i) \in Nat
    BY DEF CallAmount, Lesser, Owed, TypeOK
  <2>2. Pay(i, CallAmount(i))
    BY <1>2 DEF Call
  <2>3. toAct = i /\ UNCHANGED <<currentBet, minRaise>>
    BY <1>2 DEF Call, MayAct
  <2> QED BY <2>1, <2>2, <2>3, PayKeepsChips DEF TypeOK
<1>3. ASSUME NEW to \in Nat, RaiseTo(i, to)
      PROVE  /\ \A j \in Seats : stack'[j] + totalCommitted'[j] = stack[j] + totalCommitted[j]
             /\ \A j \in Seats \ {i} : stack'[j] = stack[j]
             /\ toAct = i /\ currentBet' >= currentBet /\ minRaise' >= minRaise
  <2>1. /\ toAct = i /\ to > currentBet /\ currentBet' = to
        /\ minRaise' = IF to - currentBet >= minRaise THEN to - currentBet ELSE minRaise
        /\ Pay(i, to - streetCommitted[i])
    BY <1>3 DEF RaiseTo, RaiseAllowed, IsFullRaise, MayAct
  <2>2. to - streetCommitted[i] \in Nat
    BY <2>1 DEF Accounts, TypeOK
  <2>3. currentBet' >= currentBet /\ minRaise' >= minRaise
    BY <2>1 DEF TypeOK
  <2> QED BY <2>1, <2>2, <2>3, PayKeepsChips
<1>4. CASE \E to \in Nat : RaiseTo(i, to)
  BY <1>3, <1>4
<1>5. streetCommitted[i] + stack[i] \in Nat
  BY DEF TypeOK
<1>6. CASE Raise(i)
  <2>1. PICK to \in currentBet + 1 .. streetCommitted[i] + stack[i] : RaiseTo(i, to)
    BY <1>6 DEF Raise
  <2>2. to \in Nat
    BY <2>1 DEF TypeOK
  <2> QED BY <1>3, <2>1, <2>2
<1>7. CASE AllIn(i)
  BY <1>2, <1>3, <1>5, <1>7 DEF AllIn
<1> QED BY <1>1, <1>2, <1>6, <1>7 DEF Act

(* Blinds, calls, raises and street changes only move a seat's own chips   *)
(* between its stack and its commitment.                                   *)
THEOREM ChipsStayCorrect == Spec => ChipsStayWithSeat
<1>1. IInv /\ [Next]_bettingVars =>
        [\A i \in Seats :
            stack'[i] + totalCommitted'[i] = stack[i] + totalCommitted[i]]_bettingVars
  <2> SUFFICES ASSUME IInv, Next
               PROVE  \A i \in Seats :
                         stack'[i] + totalCommitted'[i] = stack[i] + totalCommitted[i]
    OBVIOUS
  <2>1. CASE Start
    <3>1. PICK btn \in Seats : (\A i \in Seats : ~inHand[i]) /\ BeginHand(stack, btn)
      BY <2>1 DEF Start
    <3>2. /\ totalCommitted' = streetCommitted'
          /\ stack' = [i \in Seats |-> stack[i] - streetCommitted'[i]]
      BY <3>1 DEF BeginHand
    <3>3. TypeOK'
      BY <2>1, StartIInv DEF IInv
    <3>4. \A i \in Seats : totalCommitted[i] = 0
      BY <3>1 DEF IInv, Accounts
    <3> QED BY <3>2, <3>3, <3>4 DEF IInv, TypeOK
  <2>2. CASE AdvanceStreet
    BY <2>2 DEF AdvanceStreet, seatVars
  <2>3. CASE \E i \in Seats : Act(i)
    BY <2>3, ActKeepsChips
  <2> QED BY <2>1, <2>2, <2>3 DEF Next
<1> QED BY <1>1, BettingInvariant, PTL DEF Spec, ChipsStayWithSeat

(* While a seat is to act the bet and the minimum raise never shrink and   *)
(* only that seat's stack moves.                                           *)
THEOREM BetsOnlyGrowCorrect == Spec => BetsOnlyGrow
<1>1. IInv /\ [Next]_bettingVars =>
        [street' = street /\ toAct # NoSeat =>
            /\ currentBet' >= currentBet
            /\ minRaise' >= minRaise
            /\ \A j \in Seats \ {toAct} : stack'[j] = stack[j]]_bettingVars
  <2> SUFFICES ASSUME IInv, Next, toAct # NoSeat
               PROVE  /\ currentBet' >= currentBet
                      /\ minRaise' >= minRaise
                      /\ \A j \in Seats \ {toAct} : stack'[j] = stack[j]
    OBVIOUS
  <2>1. CASE Start
    <3>1. \A i \in Seats : ~inHand[i]
      BY <2>1 DEF Start
    <3>2. toAct \in Owing
      BY DEF IInv, TurnIsPlayable
    <3> QED BY <3>1, <3>2 DEF Owing, Active, IsActive
  <2>2. CASE AdvanceStreet
    BY <2>2 DEF AdvanceStreet, StreetIsComplete
  <2>3. CASE \E i \in Seats : Act(i)
    BY <2>3, ActKeepsChips
  <2> QED BY <2>1, <2>2, <2>3 DEF Next
<1> QED BY <1>1, BettingInvariant, PTL DEF Spec, BetsOnlyGrow

-----------------------------------------------------------------------------
(***************************************************************************)
(* 2. Pots and rake                                                        *)
(***************************************************************************)

Pot == [amount : Nat, eligible : SUBSET Seats]

Amounts(pots) == SumFunctionOnSet([k \in 1 .. Len(pots) |-> pots[k].amount], 1 .. Len(pots))

(* The seats that paid something and did not fold. *)
Alive(paidIn, gone) == {i \in Seats : paidIn[i] > 0 /\ ~gone[i]}

LEMMA RingFinite == IsFiniteSet(Seats) /\ \A S \in SUBSET Seats : IsFiniteSet(S)
<1>1. 0 \in Int /\ MaxSeats - 1 \in Int
  BY SeatsAssumption
<1>2. IsFiniteSet(Seats)
  BY <1>1, FS_Interval DEF Seats
<1> QED BY <1>2, FS_Subset

LEMMA TotalNat ==
    ASSUME NEW chips, \A i \in Seats : chips[i] \in Nat
    PROVE  Total(chips) \in Nat
BY RingFinite, SumNat DEF Total

LEMMA TotalSame ==
    ASSUME NEW f, NEW g, \A i \in Seats : f[i] \in Int /\ g[i] = f[i]
    PROVE  Total(g) = Total(f)
BY RingFinite, SumSame DEF Total

LEMMA TotalAdd ==
    ASSUME NEW f, NEW g, NEW h,
           \A i \in Seats : f[i] \in Int /\ g[i] \in Int /\ h[i] = f[i] + g[i]
    PROVE  Total(h) = Total(f) + Total(g)
BY RingFinite, SumAdd DEF Total

LEMMA TotalZero ==
    ASSUME NEW f, \A i \in Seats : f[i] = 0
    PROVE  Total(f) = 0
BY RingFinite, SumZero DEF Total

-----------------------------------------------------------------------------
(* build_pots.                                                             *)

(* A pot more, or chips added to the last one. *)
LEMMA AmountsAppend ==
    ASSUME NEW pots \in Seq(Pot), NEW pot \in Pot
    PROVE  Amounts(Append(pots, pot)) = Amounts(pots) + pot.amount
<1> DEFINE n == Len(pots)
           more == Append(pots, pot)
           f == [k \in 1 .. n |-> pots[k].amount]
           g == [k \in 1 .. n + 1 |-> more[k].amount]
<1>1. n \in Nat /\ Len(more) = n + 1 /\ 1 .. n + 1 = (1 .. n) \cup {n + 1} /\ n + 1 \notin 1 .. n
  OBVIOUS
<1>2. \A k \in 1 .. n : pots[k] \in Pot /\ f[k] = pots[k].amount /\ g[k] = f[k]
  OBVIOUS
<1>3. g[n + 1] = pot.amount
  BY <1>1
<1>4. (\A k \in 1 .. n : f[k] \in Int) /\ pot.amount \in Int
  <2>1. \A q \in Pot : q.amount \in Int
    BY DEF Pot
  <2> HIDE DEF f
  <2> QED BY <1>2, <2>1
<1>5. Amounts(pots) = SumFunctionOnSet(f, 1 .. n) /\ Amounts(more) = SumFunctionOnSet(g, 1 .. n + 1)
  BY <1>1 DEF Amounts
<1> HIDE DEF f, g, more, n
<1>6. IsFiniteSet(1 .. n)
  BY <1>1, FirstOnes
<1>7. \A k \in (1 .. n) \cup {n + 1} : g[k] \in Int
  BY <1>2, <1>3, <1>4
<1>8. SumFunctionOnSet(g, 1 .. n + 1) = g[n + 1] + SumFunctionOnSet(g, 1 .. n)
  <2>1. SumFunctionOnSet(g, (1 .. n) \cup {n + 1}) = g[n + 1] + SumFunctionOnSet(g, 1 .. n)
    BY <1>1, <1>6, <1>7, SumPutIn
  <2> QED BY <1>1, <2>1
<1>9. SumFunctionOnSet(g, 1 .. n) = SumFunctionOnSet(f, 1 .. n)
  BY <1>2, <1>4, <1>6, SumSame
<1>10. SumFunctionOnSet(f, 1 .. n) \in Int
  BY <1>4, <1>6, SumInt
<1>11. Amounts(more) = Amounts(pots) + pot.amount
  BY <1>1, <1>3, <1>4, <1>5, <1>8, <1>9, <1>10
<1> QED BY <1>11 DEF more

Merged(pots, amount) == Front(pots) \o <<[Last(pots) EXCEPT !.amount = @ + amount]>>

LEMMA MergedIs ==
    ASSUME NEW pots \in Seq(Pot), pots # <<>>, NEW amount \in Nat
    PROVE  LET n == Len(pots)
           IN  /\ n \in Nat \ {0}
               /\ Merged(pots, amount) \in Seq(Pot) /\ Len(Merged(pots, amount)) = n
               /\ \A k \in 1 .. n : Merged(pots, amount)[k].eligible = pots[k].eligible
               /\ \A k \in 1 .. n - 1 : Merged(pots, amount)[k].amount = pots[k].amount
               /\ Merged(pots, amount)[n].amount = pots[n].amount + amount
<1> DEFINE n == Len(pots)
           last == [pots[n] EXCEPT !.amount = @ + amount]
<1>1. n \in Nat \ {0} /\ pots[n] \in Pot
  OBVIOUS
<1>2. last \in Pot /\ last.eligible = pots[n].eligible /\ last.amount = pots[n].amount + amount
  BY <1>1 DEF Pot
<1> HIDE DEF last
<1>3. /\ Front(pots) \in Seq(Pot) /\ Len(Front(pots)) = n - 1
      /\ \A k \in 1 .. n - 1 : Front(pots)[k] = pots[k]
  <2>1. Front(pots) = SubSeq(pots, 1, n - 1) /\ 1 \in Int /\ n - 1 \in Int /\ n - 1 - 1 + 1 = n - 1
    BY <1>1 DEF Front
  <2>2. \A k \in 1 .. n - 1 : pots[k] \in Pot /\ 1 + k - 1 = k
    BY <1>1
  <2>3. /\ SubSeq(pots, 1, n - 1) \in Seq(Pot)
        /\ Len(SubSeq(pots, 1, n - 1)) = IF 1 <= n - 1 THEN n - 1 - 1 + 1 ELSE 0
        /\ \A k \in 1 .. n - 1 - 1 + 1 : SubSeq(pots, 1, n - 1)[k] = pots[1 + k - 1]
    BY <2>1, <2>2, SubSeqProperties
  <2> QED BY <1>1, <2>1, <2>2, <2>3
<1>4. Merged(pots, amount) = Front(pots) \o <<last>>
  BY DEF Merged, Last, last
<1>5. /\ Merged(pots, amount) \in Seq(Pot) /\ Len(Merged(pots, amount)) = n
      /\ \A k \in 1 .. n - 1 : Merged(pots, amount)[k] = pots[k]
      /\ Merged(pots, amount)[n] = last
  <2>1. PICK head \in Seq(Pot) : head = Front(pots)
    BY <1>3
  <2>2. Merged(pots, amount) = Append(head, last)
    BY <1>2, <1>4, <2>1
  <2>3. /\ Append(head, last) \in Seq(Pot) /\ Len(Append(head, last)) = Len(head) + 1
        /\ \A k \in 1 .. Len(head) : Append(head, last)[k] = head[k]
        /\ Append(head, last)[Len(head) + 1] = last
    BY <1>2, AppendProperties
  <2>4. n - 1 + 1 = n
    BY <1>1
  <2> QED BY <1>3, <2>1, <2>2, <2>3, <2>4
<1>6. \A k \in 1 .. n : k = n \/ k \in 1 .. n - 1
  BY <1>1
<1> QED BY <1>1, <1>2, <1>5, <1>6

LEMMA AmountsMerged ==
    ASSUME NEW pots \in Seq(Pot), pots # <<>>, NEW amount \in Nat
    PROVE  Amounts(Merged(pots, amount)) = Amounts(pots) + amount
<1> DEFINE n == Len(pots)
           merged == Merged(pots, amount)
           f == [k \in 1 .. n |-> pots[k].amount]
           g == [k \in 1 .. n |-> merged[k].amount]
<1>1. /\ n \in Nat \ {0} /\ Len(merged) = n
      /\ \A k \in 1 .. n - 1 : merged[k].amount = pots[k].amount
      /\ merged[n].amount = pots[n].amount + amount
  BY MergedIs
<1>2. \A k \in 1 .. n : pots[k] \in Pot /\ f[k] = pots[k].amount /\ g[k] = merged[k].amount
  OBVIOUS
<1>3. \A k \in 1 .. n : f[k] \in Int
  BY <1>2 DEF Pot
<1>4. Amounts(pots) = SumFunctionOnSet(f, 1 .. n) /\ Amounts(merged) = SumFunctionOnSet(g, 1 .. n)
  BY <1>1 DEF Amounts
<1> HIDE DEF f, g, merged, n
<1>5. n \in 1 .. n /\ IsFiniteSet(1 .. n)
  BY <1>1, FirstOnes
<1>6. g[n] = f[n] + amount /\ g[n] \in Int
  BY <1>1, <1>2, <1>3, <1>5
<1>7. \A k \in 1 .. n : f[k] \in Int /\ (k # n => g[k] = f[k])
  <2>1. ASSUME NEW k \in 1 .. n, k # n PROVE g[k] = f[k]
    <3>1. k \in 1 .. n - 1
      BY <1>1, <2>1
    <3>2. merged[k].amount = pots[k].amount
      BY <1>1, <3>1
    <3> QED BY <1>2, <3>2
  <2> QED BY <1>3, <2>1
<1>8. SumFunctionOnSet(g, 1 .. n) = SumFunctionOnSet(f, 1 .. n) - f[n] + g[n]
  <2> DEFINE D == 1 .. n
  <2>1. /\ IsFiniteSet(D) /\ n \in D /\ g[n] \in Int
        /\ \A k \in D : f[k] \in Int /\ (k # n => g[k] = f[k])
    BY <1>5, <1>6, <1>7
  <2> HIDE DEF D
  <2>2. SumFunctionOnSet(g, D) = SumFunctionOnSet(f, D) - f[n] + g[n]
    BY <2>1, SumChange
  <2> QED BY <2>2 DEF D
<1>9. SumFunctionOnSet(f, 1 .. n) \in Int /\ f[n] \in Int
  BY <1>3, <1>5, SumInt
<1>10. Amounts(merged) = Amounts(pots) + amount
  BY <1>4, <1>6, <1>8, <1>9
<1> QED BY <1>10 DEF merged

(* The chips of a stake below a level. *)
Below(paidIn, level) == [i \in Seats |-> Lesser(paidIn[i], level)]

Beneath(paidIn, level) == {l \in Levels(paidIn) : l < level} \cup {0}

LEMMA LevelsAre ==
    ASSUME NEW paidIn \in [Seats -> Nat]
    PROVE  /\ Levels(paidIn) \in SUBSET (Nat \ {0}) /\ Levels(paidIn) \in SUBSET Int
           /\ IsFiniteSet(Levels(paidIn))
           /\ \A i \in Seats : paidIn[i] # 0 => paidIn[i] \in Levels(paidIn)
<1>1. IsFiniteSet({paidIn[i] : i \in Seats})
  BY RingFinite, FiniteImage
<1>2. IsFiniteSet(Levels(paidIn))
  <2>1. Levels(paidIn) \in SUBSET {paidIn[i] : i \in Seats}
    BY DEF Levels
  <2> QED BY <1>1, <2>1, FS_Subset
<1> QED BY <1>2 DEF Levels

(* A band is what the stakes have between two levels. *)
LEMMA BandIs ==
    ASSUME NEW paidIn \in [Seats -> Nat], NEW prev \in Nat, NEW level \in Nat, prev <= level
    PROVE  /\ BandAmount(paidIn, prev, level) \in Nat
           /\ Total(Below(paidIn, level))
              = Total(Below(paidIn, prev)) + BandAmount(paidIn, prev, level)
<1> DEFINE band == [i \in Seats |-> Lesser(paidIn[i], level) - Lesser(paidIn[i], prev)]
           low == Below(paidIn, prev)
           high == Below(paidIn, level)
<1>1. \A i \in Seats : /\ low[i] \in Int /\ band[i] \in Nat /\ band[i] \in Int
                       /\ high[i] = low[i] + band[i]
  BY DEF Lesser, Below
<1>2. BandAmount(paidIn, prev, level) = Total(band)
  BY DEF BandAmount
<1> HIDE DEF band, low, high
<1>3. Total(band) \in Nat
  BY <1>1, TotalNat
<1>4. Total(high) = Total(low) + Total(band)
  BY <1>1, TotalAdd
<1> QED BY <1>2, <1>3, <1>4 DEF low, high

LEMMA BeneathIs ==
    ASSUME NEW paidIn \in [Seats -> Nat], NEW level \in Nat \ {0}
    PROVE  LET prev == Max(Beneath(paidIn, level))
           IN  prev \in Nat /\ prev < level
<1> DEFINE B == Beneath(paidIn, level)
<1>1. B \in SUBSET Nat /\ B \in SUBSET Int /\ B # {} /\ \A l \in B : l < level
  BY LevelsAre DEF Beneath
<1>2. IsFiniteSet(B)
  <2>1. IsFiniteSet({l \in Levels(paidIn) : l < level})
    BY LevelsAre, FS_Subset
  <2> QED BY <2>1, FS_AddElement DEF Beneath
<1> HIDE DEF B
<1>3. Max(B) \in B
  BY <1>1, <1>2, MaxIn
<1> QED BY <1>1, <1>3 DEF B

(* What one band does to the pots. *)
Grown(more, pots, eligible, band) ==
    /\ more \in Seq(Pot) /\ more # <<>>
    /\ Amounts(more) = Amounts(pots) + band
    /\ \A k \in 1 .. Len(more) :
          \/ k \in 1 .. Len(pots) /\ more[k].eligible = pots[k].eligible
          \/ more[k].eligible = eligible /\ (eligible # {} \/ pots = <<>>)

LEMMA AddBandIs ==
    ASSUME NEW paidIn \in [Seats -> Nat], NEW gone,
           NEW level \in Nat \ {0}, NEW pots \in Seq(Pot)
    PROVE  Grown(AddBand(paidIn, gone, level, pots), pots,
                 Eligible(paidIn, gone, level),
                 BandAmount(paidIn, Max(Beneath(paidIn, level)), level))
<1> DEFINE eligible == Eligible(paidIn, gone, level)
           more == AddBand(paidIn, gone, level, pots)
           band == BandAmount(paidIn, Max(Beneath(paidIn, level)), level)
           pot == [amount |-> band, eligible |-> eligible]
<1>1. band \in Nat
  <2> DEFINE prev == Max(Beneath(paidIn, level))
  <2>1. prev \in Nat /\ prev < level
    BY BeneathIs
  <2> HIDE DEF prev
  <2>2. prev <= level
    BY <2>1
  <2>3. BandAmount(paidIn, prev, level) \in Nat
    BY <2>1, <2>2, BandIs
  <2> QED BY <2>3 DEF prev
<1>2. eligible \in SUBSET Seats
  BY DEF Eligible
<1>3. more = IF MergesWithLast(pots, eligible) THEN Merged(pots, band) ELSE Append(pots, pot)
  BY DEF AddBand, Beneath, Merged
<1>4. pot \in Pot /\ pot.amount = band /\ pot.eligible = eligible
  BY <1>1, <1>2 DEF Pot
<1> HIDE DEF eligible, more, band, pot
<1> SUFFICES Grown(more, pots, eligible, band)
  BY DEF eligible, more, band
<1>5. CASE MergesWithLast(pots, eligible)
  <2>1. pots # <<>> /\ more = Merged(pots, band)
    BY <1>3, <1>5 DEF MergesWithLast
  <2>2. /\ more \in Seq(Pot) /\ Len(more) = Len(pots) /\ Len(pots) \in Nat \ {0}
        /\ \A k \in 1 .. Len(pots) : more[k].eligible = pots[k].eligible
    BY <1>1, <2>1, MergedIs
  <2>3. Amounts(more) = Amounts(pots) + band
    BY <1>1, <2>1, AmountsMerged
  <2> QED BY <2>2, <2>3 DEF Grown
<1>6. CASE ~MergesWithLast(pots, eligible)
  <2>1. more = Append(pots, pot) /\ (eligible # {} \/ pots = <<>>)
    BY <1>3, <1>6 DEF MergesWithLast
  <2>2. Amounts(more) = Amounts(pots) + band
    BY <1>4, <2>1, AmountsAppend
  <2>3. /\ more \in Seq(Pot) /\ Len(more) = Len(pots) + 1 /\ Len(pots) \in Nat
        /\ \A k \in 1 .. Len(pots) : more[k] = pots[k]
        /\ more[Len(pots) + 1] = pot
    BY <1>4, <2>1
  <2>4. \A k \in 1 .. Len(more) : k \in 1 .. Len(pots) \/ k = Len(pots) + 1
    BY <2>3
  <2>5. more # <<>>
    BY <2>3
  <2> QED BY <1>4, <2>1, <2>2, <2>3, <2>4, <2>5 DEF Grown
<1> QED BY <1>5, <1>6

(* The bands of the first levels, then the next one: build_pots is a run   *)
(* over the levels.                                                        *)
AddsBands(H, paidIn, gone) ==
    /\ BuildPots(paidIn, gone) = H[Levels(paidIn)]
    /\ \A T \in SUBSET Levels(paidIn) :
          H[T] = IF T = {} THEN <<>>
                 ELSE AddBand(paidIn, gone, Max(T), H[T \ {Max(T)}])

LEMMA BandsRun ==
    ASSUME NEW paidIn \in [Seats -> Nat], NEW gone
    PROVE  \E H : AddsBands(H, paidIn, gone)
<1> DEFINE L == Levels(paidIn)
           step == [p \in L \X Seq(Pot) |-> AddBand(paidIn, gone, p[1], p[2])]
           body(G) == [T \in SUBSET L |->
                          IF T = {} THEN <<>>
                          ELSE AddBand(paidIn, gone, Max(T), G[T \ {Max(T)}])]
<1>1. L \in SUBSET (Nat \ {0}) /\ L \in SUBSET Int /\ IsFiniteSet(L)
  BY LevelsAre
<1>2. step \in [L \X Seq(Pot) -> Seq(Pot)]
  <2>1. ASSUME NEW level \in L, NEW pots \in Seq(Pot)
        PROVE  AddBand(paidIn, gone, level, pots) \in Seq(Pot)
    <3>1. level \in Nat \ {0}
      BY <1>1
    <3> QED BY <3>1, AddBandIs DEF Grown
  <2> HIDE DEF L
  <2> QED BY <2>1
<1>3. PICK G \in [SUBSET L -> Seq(Pot)] : FoldsUp(G, L, <<>>, step)
  <2>1. <<>> \in Seq(Pot)
    OBVIOUS
  <2> HIDE DEF L, step
  <2> QED BY <1>1, <1>2, <2>1, FoldHasValue
<1>4. ASSUME NEW T \in SUBSET L, T # {}
      PROVE  G[T] = AddBand(paidIn, gone, Max(T), G[T \ {Max(T)}])
  <2>1. Max(T) \in L
    BY <1>1, <1>4, MaxIn, FS_Subset
  <2>2. <<Max(T), G[T \ {Max(T)}]>> \in L \X Seq(Pot)
    BY <2>1
  <2> QED BY <1>3, <1>4, <2>2 DEF FoldsUp
<1>5. G = body(G)
  BY <1>3, <1>4 DEF FoldsUp
<1> DEFINE H == CHOOSE H : H = body(H)
<1>6. H = body(H)
  BY <1>5
<1>7. BuildPots(paidIn, gone) = H[L]
  BY DEF BuildPots, MapThenFoldSet
<1> HIDE DEF H
<1>8. AddsBands(H, paidIn, gone)
  BY <1>6, <1>7 DEF AddsBands
<1> QED BY <1>8

(* As many levels as there are below one of them. *)
DownTo(paidIn, T) ==
    \A l \in Levels(paidIn), k \in T : l < k => l \in T

(* What the pots of the lowest levels have to be. *)
PotsUpTo(paidIn, gone, T, pots) ==
    /\ pots \in Seq(Pot)
    /\ pots = <<>> <=> T = {}
    /\ Amounts(pots) = Total(Below(paidIn, Max(T \cup {0})))
    /\ \A k \in 1 .. Len(pots) : pots[k].eligible \subseteq Alive(paidIn, gone)
    /\ Alive(paidIn, gone) # {} => \A k \in 1 .. Len(pots) : pots[k].eligible # {}

LEMMA NoPots ==
    ASSUME NEW paidIn \in [Seats -> Nat], NEW gone
    PROVE  PotsUpTo(paidIn, gone, {}, <<>>)
<1>1. Max({} \cup {0}) = 0
  <2>1. {0} \in SUBSET Int /\ {0} # {} /\ {} \cup {0} = {0} /\ IsFiniteSet({} \cup {0})
    BY FS_EmptySet, FS_AddElement
  <2>2. Max({0}) \in {0}
    BY <2>1, MaxIn
  <2> QED BY <2>1, <2>2
<1>2. Amounts(<<>>) = 0
  <2>1. Len(<<>>) = 0 /\ 1 .. Len(<<>>) = {}
    OBVIOUS
  <2> QED BY <2>1, SumEmpty DEF Amounts
<1>3. Total(Below(paidIn, 0)) = 0
  <2>1. \A i \in Seats : Below(paidIn, 0)[i] = 0
    BY DEF Below, Lesser
  <2> QED BY <2>1, TotalZero
<1> QED BY <1>1, <1>2, <1>3 DEF PotsUpTo

(* The next level, when those below it are done. *)
LEMMA NextLevel ==
    ASSUME NEW paidIn \in [Seats -> Nat],
           NEW T \in SUBSET Levels(paidIn), T # {}, DownTo(paidIn, T)
    PROVE  LET level == Max(T)
               prev == Max((T \ {level}) \cup {0})
           IN  /\ level \in T /\ level \in Nat \ {0}
               /\ (T \ {level}) \cup {0} = Beneath(paidIn, level)
               /\ prev \in Nat /\ prev < level
               /\ Max(T \cup {0}) = level
               /\ \A l \in Levels(paidIn) : l < level => l \in T \ {level} /\ l <= prev
<1> DEFINE level == Max(T)
           U == T \ {level}
           prev == Max(U \cup {0})
           top == Max(T \cup {0})
<1>1. /\ Levels(paidIn) \in SUBSET (Nat \ {0}) /\ Levels(paidIn) \in SUBSET Int
      /\ IsFiniteSet(Levels(paidIn)) /\ IsFiniteSet(T)
  BY LevelsAre, FS_Subset
<1>2. level \in T /\ (\A k \in T : k <= level) /\ level \in Nat \ {0}
  BY <1>1, MaxIn
<1> HIDE DEF level
<1>3. \A l \in Levels(paidIn) : l < level => l \in U
  BY <1>1, <1>2 DEF DownTo
<1>4. U \cup {0} = Beneath(paidIn, level)
  <2>1. \A k \in U : k < level /\ k \in Levels(paidIn)
    BY <1>1, <1>2
  <2> QED BY <1>3, <2>1 DEF Beneath
<1>5. prev \in Nat /\ prev < level
  BY <1>2, <1>4, BeneathIs
<1>6. top = level
  <2>1. T \cup {0} \in SUBSET Int /\ IsFiniteSet(T \cup {0}) /\ T \cup {0} # {}
    BY <1>1, FS_AddElement
  <2>2. top \in T \cup {0} /\ \A k \in T \cup {0} : k <= top
    BY <2>1, MaxIn
  <2> HIDE DEF top
  <2> QED BY <1>2, <2>2
<1>7. \A l \in U : l <= prev
  <2>1. U \cup {0} \in SUBSET Int /\ IsFiniteSet(U \cup {0}) /\ U \cup {0} # {}
    <3>1. IsFiniteSet(U)
      BY <1>1, FS_Subset
    <3> QED BY <1>1, <3>1, FS_AddElement
  <2>2. \A k \in U \cup {0} : k <= prev
    BY <2>1, MaxIn
  <2> QED BY <2>2
<1> HIDE DEF top, prev
<1> QED BY <1>2, <1>3, <1>4, <1>5, <1>6, <1>7 DEF level, prev, top

LEMMA OnePotMore ==
    ASSUME NEW paidIn \in [Seats -> Nat], NEW gone \in [Seats -> BOOLEAN],
           NEW T \in SUBSET Levels(paidIn), T # {}, DownTo(paidIn, T), NEW pots,
           PotsUpTo(paidIn, gone, T \ {Max(T)}, pots)
    PROVE  PotsUpTo(paidIn, gone, T, AddBand(paidIn, gone, Max(T), pots))
<1> DEFINE level == Max(T)
           U == T \ {level}
           prev == Max(U \cup {0})
           more == AddBand(paidIn, gone, level, pots)
           eligible == Eligible(paidIn, gone, level)
<1>1. level \in Nat \ {0} /\ prev \in Nat /\ prev < level /\ Max(T \cup {0}) = level
  BY NextLevel
<1>2. level \in T /\ U \cup {0} = Beneath(paidIn, level)
  BY NextLevel
<1>3. \A l \in Levels(paidIn) : l < level => l \in U
  BY NextLevel
<1>4. PotsUpTo(paidIn, gone, U, pots)
  OBVIOUS
<1> HIDE DEF level
<1>5. /\ more \in Seq(Pot) /\ more # <<>>
      /\ Amounts(more) = Amounts(pots) + BandAmount(paidIn, prev, level)
      /\ \A k \in 1 .. Len(more) :
            \/ k \in 1 .. Len(pots) /\ more[k].eligible = pots[k].eligible
            \/ more[k].eligible = eligible /\ (eligible # {} \/ pots = <<>>)
  <2>1. pots \in Seq(Pot)
    BY <1>4 DEF PotsUpTo
  <2>2. Grown(AddBand(paidIn, gone, level, pots), pots,
              Eligible(paidIn, gone, level),
              BandAmount(paidIn, Max(Beneath(paidIn, level)), level))
    BY <1>1, <2>1, AddBandIs
  <2>3. Grown(more, pots, eligible, BandAmount(paidIn, prev, level))
    BY <1>2, <2>2
  <2> HIDE DEF more, eligible
  <2> QED BY <2>3 DEF Grown
<1>6. Amounts(more) = Total(Below(paidIn, level))
  <2>1. Amounts(pots) = Total(Below(paidIn, prev))
    BY <1>4 DEF PotsUpTo
  <2> HIDE DEF prev, more
  <2>2. prev <= level /\ level \in Nat
    BY <1>1
  <2>3. Total(Below(paidIn, level))
        = Total(Below(paidIn, prev)) + BandAmount(paidIn, prev, level)
    BY <1>1, <2>2, BandIs
  <2> QED BY <1>5, <2>1, <2>3
<1>7. eligible \subseteq Alive(paidIn, gone)
  BY <1>1 DEF Eligible, Alive
<1>8. ASSUME Alive(paidIn, gone) # {}, pots = <<>> PROVE eligible # {}
  <2>1. PICK i \in Seats : paidIn[i] > 0 /\ ~gone[i]
    BY <1>8 DEF Alive
  <2>2. U = {}
    BY <1>4, <1>8 DEF PotsUpTo
  <2>3. paidIn[i] \in Levels(paidIn)
    BY <2>1, LevelsAre
  <2>4. paidIn[i] >= level
    <3>1. ~(paidIn[i] < level)
      BY <1>3, <2>2, <2>3
    <3>2. paidIn[i] \in Nat
      OBVIOUS
    <3> QED BY <1>1, <3>1, <3>2
  <2>5. i \in eligible
    BY <2>1, <2>4 DEF Eligible
  <2> QED BY <2>5
<1> HIDE DEF more, eligible, U, prev
<1>9. \A k \in 1 .. Len(more) : more[k].eligible \subseteq Alive(paidIn, gone)
  BY <1>4, <1>5, <1>7 DEF PotsUpTo
<1>10. ASSUME Alive(paidIn, gone) # {}, NEW k \in 1 .. Len(more)
       PROVE  more[k].eligible # {}
  BY <1>4, <1>5, <1>8, <1>10 DEF PotsUpTo
<1>11. PotsUpTo(paidIn, gone, T, more)
  BY <1>1, <1>5, <1>6, <1>9, <1>10 DEF PotsUpTo
<1> QED BY <1>11 DEF more, level

(* The pots hold what was put in, to a chip (the assertion that closes     *)
(* build_pots); only seats that paid and did not fold can win one, and     *)
(* when there is such a seat every pot has one.                            *)
THEOREM PotsHoldTheStakes ==
    ASSUME NEW paidIn \in [Seats -> Nat], NEW gone \in [Seats -> BOOLEAN]
    PROVE  LET pots == BuildPots(paidIn, gone)
               alive == Alive(paidIn, gone)
           IN  /\ pots \in Seq(Pot) /\ Amounts(pots) = Total(paidIn)
               /\ \A k \in 1 .. Len(pots) : pots[k].eligible \subseteq alive
               /\ alive # {} => \A k \in 1 .. Len(pots) : pots[k].eligible # {}
<1>0. PICK H : AddsBands(H, paidIn, gone)
  BY BandsRun
<1>1. /\ BuildPots(paidIn, gone) = H[Levels(paidIn)]
      /\ \A T \in SUBSET Levels(paidIn) :
            H[T] = IF T = {} THEN <<>>
                   ELSE AddBand(paidIn, gone, Max(T), H[T \ {Max(T)}])
  BY <1>0 DEF AddsBands
<1> DEFINE L == Levels(paidIn)
           top == Max(L \cup {0})
<1>2. L \in SUBSET (Nat \ {0}) /\ L \in SUBSET Int /\ IsFiniteSet(L)
  BY LevelsAre
<1> DEFINE Good == {T \in SUBSET L : DownTo(paidIn, T)
                                     => PotsUpTo(paidIn, gone, T, H[T])}
<1>3. ASSUME NEW T \in SUBSET L, \A U \in SUBSET T : U # T => U \in Good
      PROVE  T \in Good
  <2> SUFFICES ASSUME DownTo(paidIn, T)
               PROVE  PotsUpTo(paidIn, gone, T, H[T])
    OBVIOUS
  <2>1. CASE T = {}
    BY <1>1, <2>1, NoPots
  <2>2. CASE T # {}
    <3>1. Max(T) \in T /\ \A k \in T : k <= Max(T)
      BY <1>2, <2>2, MaxIn, FS_Subset
    <3>2. T \ {Max(T)} \in Good
      BY <1>3, <3>1
    <3>3. DownTo(paidIn, T \ {Max(T)})
      <4> SUFFICES ASSUME NEW l \in L, NEW k \in T \ {Max(T)}, l < k
                   PROVE  l \in T \ {Max(T)}
        BY DEF DownTo
      <4>1. l \in T
        BY DEF DownTo
      <4>2. k <= Max(T) /\ l \in Nat /\ k \in Nat /\ Max(T) \in Nat
        BY <1>2, <3>1
      <4> QED BY <4>1, <4>2
    <3>4. PotsUpTo(paidIn, gone, T \ {Max(T)}, H[T \ {Max(T)}])
      BY <3>2, <3>3
    <3>5. H[T] = AddBand(paidIn, gone, Max(T), H[T \ {Max(T)}])
      BY <1>1, <2>2
    <3> HIDE DEF Good, L
    <3> QED BY <2>2, <3>4, <3>5, OnePotMore DEF L
  <2> QED BY <2>1, <2>2
<1>4. L \in Good
  <2> HIDE DEF Good, L
  <2> QED BY <1>2, <1>3, SmallerFirst
<1>5. PotsUpTo(paidIn, gone, L, H[L])
  BY <1>4 DEF DownTo
<1>6. Total(Below(paidIn, top)) = Total(paidIn)
  <2>1. L \cup {0} \in SUBSET Int /\ IsFiniteSet(L \cup {0}) /\ L \cup {0} # {}
    BY <1>2, FS_AddElement
  <2>2. top \in L \cup {0} /\ \A l \in L \cup {0} : l <= top
    <3> HIDE DEF L
    <3> QED BY <2>1, MaxIn
  <2>3. top \in Nat
    BY <1>2, <2>2
  <2>4. \A i \in Seats : paidIn[i] <= top
    BY <2>2, LevelsAre
  <2> HIDE DEF top
  <2>5. \A i \in Seats : paidIn[i] \in Int /\ Below(paidIn, top)[i] = paidIn[i]
    BY <2>3, <2>4 DEF Below, Lesser
  <2> QED BY <2>5, TotalSame
<1> QED BY <1>1, <1>5, <1>6 DEF PotsUpTo

-----------------------------------------------------------------------------
(* The pots are those of the stakes of the seats still in.                 *)

(* The stakes of the seats still in, and the seats that hold one at least. *)
Held(paidIn, gone) == {paidIn[i] : i \in Alive(paidIn, gone)}

Staked(paidIn, gone, x) == {i \in Alive(paidIn, gone) : paidIn[i] >= x}

(* The lowest n of those stakes in order, and the one below the k-th.      *)
Ladder(paidIn, gone, s, n) ==
    /\ s \in [1 .. n -> Held(paidIn, gone)]
    /\ \A j, k \in 1 .. n : j < k => s[j] < s[k]
    /\ \A k \in 1 .. n : \A x \in Held(paidIn, gone) :
          x < s[k] => \E j \in 1 .. n : j < k /\ s[j] = x

Rung(s, k) == IF k = 1 THEN 0 ELSE s[k - 1]

(* There is a pot for each of them, between it and the one below; the last *)
(* holds what has been layered so far, and goes on above its stake only    *)
(* when nobody still in has more.                                          *)
Layered(paidIn, gone, top, pots, s) ==
    LET n == Len(pots)
    IN  /\ pots \in Seq(Pot)
        /\ Ladder(paidIn, gone, s, n)
        /\ \A k \in 1 .. n : pots[k].eligible = Staked(paidIn, gone, s[k])
        /\ \A k \in 1 .. n : pots[k].amount
              = BandAmount(paidIn, Rung(s, k), IF k = n THEN top ELSE s[k])
        /\ n > 0 => Rung(s, n) < top
        /\ n > 0 => (s[n] < top => \A x \in Held(paidIn, gone) : x <= s[n])
        /\ n = 0 => top = 0

LEMMA HeldAre ==
    ASSUME NEW paidIn \in [Seats -> Nat], NEW gone
    PROVE  /\ Held(paidIn, gone) \in SUBSET (Nat \ {0})
           /\ Held(paidIn, gone) \in SUBSET Int
           /\ Held(paidIn, gone) \subseteq Levels(paidIn)
           /\ \A x \in Held(paidIn, gone) : Staked(paidIn, gone, x) # {}
           /\ \A i \in Alive(paidIn, gone) :
                 i \in Seats /\ paidIn[i] \in Held(paidIn, gone)
<1>1. \A i \in Alive(paidIn, gone) : i \in Seats /\ paidIn[i] \in Nat \ {0}
  BY DEF Alive
<1>2. \A x \in Held(paidIn, gone) :
         \E i \in Alive(paidIn, gone) : paidIn[i] = x
  BY DEF Held
<1>3. \A x \in Held(paidIn, gone) : x \in Nat \ {0} /\ x \in Levels(paidIn)
  BY <1>1, <1>2, LevelsAre
<1>4. ASSUME NEW x \in Held(paidIn, gone) PROVE Staked(paidIn, gone, x) # {}
  <2>1. PICK i \in Alive(paidIn, gone) : paidIn[i] = x
    BY <1>2
  <2>2. i \in Staked(paidIn, gone, x)
    BY <1>3, <2>1 DEF Staked
  <2> QED BY <2>2
<1> QED BY <1>1, <1>3, <1>4 DEF Held

LEMMA BandsJoin ==
    ASSUME NEW paidIn \in [Seats -> Nat],
           NEW low \in Nat, NEW mid \in Nat, NEW high \in Nat, low <= mid, mid <= high
    PROVE  BandAmount(paidIn, low, high)
           = BandAmount(paidIn, low, mid) + BandAmount(paidIn, mid, high)
<1>1. low <= high
  OBVIOUS
<1>2. /\ BandAmount(paidIn, low, mid) \in Nat
      /\ Total(Below(paidIn, mid))
         = Total(Below(paidIn, low)) + BandAmount(paidIn, low, mid)
  BY BandIs
<1>3. /\ BandAmount(paidIn, mid, high) \in Nat
      /\ Total(Below(paidIn, high))
         = Total(Below(paidIn, mid)) + BandAmount(paidIn, mid, high)
  BY BandIs
<1>4. /\ BandAmount(paidIn, low, high) \in Nat
      /\ Total(Below(paidIn, high))
         = Total(Below(paidIn, low)) + BandAmount(paidIn, low, high)
  BY <1>1, BandIs
<1>5. Total(Below(paidIn, low)) \in Nat
  <2>1. \A i \in Seats : Below(paidIn, low)[i] \in Nat
    BY DEF Below, Lesser
  <2> QED BY <2>1, TotalNat
<1> QED BY <1>2, <1>3, <1>4, <1>5

LEMMA RungIs ==
    ASSUME NEW paidIn \in [Seats -> Nat], NEW gone, NEW n \in Nat, NEW s,
           Ladder(paidIn, gone, s, n), NEW k \in 1 .. n
    PROVE  /\ Rung(s, k) \in Nat /\ s[k] \in Held(paidIn, gone) /\ s[k] \in Nat \ {0}
           /\ Rung(s, k) < s[k]
           /\ \A j \in 1 .. n : j < k => s[j] <= Rung(s, k)
<1>1. /\ \A j \in 1 .. n : s[j] \in Held(paidIn, gone) /\ s[j] \in Nat \ {0}
      /\ \A i, j \in 1 .. n : i < j => s[i] < s[j]
  BY HeldAre DEF Ladder
<1>2. CASE k = 1
  <2>1. Rung(s, k) = 0 /\ \A j \in 1 .. n : ~(j < k)
    BY <1>2 DEF Rung
  <2> QED BY <1>1, <2>1
<1>3. CASE k # 1
  <2>1. k - 1 \in 1 .. n /\ k - 1 < k /\ Rung(s, k) = s[k - 1]
    BY <1>3 DEF Rung
  <2>2. \A j \in 1 .. n : j < k => j = k - 1 \/ j < k - 1
    OBVIOUS
  <2>3. s[k - 1] \in Nat /\ s[k - 1] < s[k]
    BY <1>1, <2>1
  <2>4. \A j \in 1 .. n : j < k => s[j] <= s[k - 1]
    BY <1>1, <2>1, <2>2
  <2> QED BY <1>1, <2>1, <2>3, <2>4
<1> QED BY <1>2, <1>3

(* A band merged with the last pot. *)
LEMMA LayerGrows ==
    ASSUME NEW paidIn \in [Seats -> Nat], NEW gone,
           NEW prev \in Nat, NEW level \in Nat, prev < level,
           \A x \in Held(paidIn, gone) : x > prev => x >= level,
           NEW pots, NEW s, Layered(paidIn, gone, prev, pots, s),
           MergesWithLast(pots, Staked(paidIn, gone, level))
    PROVE  Layered(paidIn, gone, level,
                   Merged(pots, BandAmount(paidIn, prev, level)), s)
<1> DEFINE n == Len(pots)
           band == BandAmount(paidIn, prev, level)
           more == Merged(pots, band)
           H == Held(paidIn, gone)
<1>1. pots \in Seq(Pot) /\ pots # <<>> /\ n \in Nat \ {0}
  BY DEF Layered, MergesWithLast
<1>2. prev <= level /\ band \in Nat
  BY BandIs
<1>3. /\ more \in Seq(Pot) /\ Len(more) = n
      /\ \A k \in 1 .. n : more[k].eligible = pots[k].eligible
      /\ \A k \in 1 .. n - 1 : more[k].amount = pots[k].amount
      /\ more[n].amount = pots[n].amount + band
  BY <1>1, <1>2, MergedIs
<1>4. /\ Ladder(paidIn, gone, s, n) /\ Rung(s, n) < prev
      /\ s[n] < prev => \A x \in H : x <= s[n]
      /\ \A k \in 1 .. n : pots[k].eligible = Staked(paidIn, gone, s[k])
      /\ \A k \in 1 .. n : pots[k].amount
            = BandAmount(paidIn, Rung(s, k), IF k = n THEN prev ELSE s[k])
  BY <1>1 DEF Layered
<1>5. n \in 1 .. n /\ Rung(s, n) \in Nat /\ s[n] \in H /\ s[n] \in Nat
  <2>1. n \in Nat /\ n \in 1 .. n
    BY <1>1
  <2>2. Ladder(paidIn, gone, s, n)
    BY <1>4
  <2> HIDE DEF n
  <2> QED BY ONLY <2>1, <2>2, RungIs, paidIn \in [Seats -> Nat] DEF H
<1>6. \A x \in H : x \in Nat
  BY HeldAre
<1> HIDE DEF more, H
<1>7. more[n].amount = BandAmount(paidIn, Rung(s, n), level)
  <2>1. pots[n].amount = BandAmount(paidIn, Rung(s, n), prev)
    BY <1>4, <1>5
  <2>2. Rung(s, n) <= prev
    BY <1>4, <1>5
  <2>3. BandAmount(paidIn, Rung(s, n), level)
        = BandAmount(paidIn, Rung(s, n), prev) + BandAmount(paidIn, prev, level)
    BY <1>2, <1>5, <2>2, BandsJoin
  <2> QED BY <1>3, <2>1, <2>3
<1>8. ASSUME NEW k \in 1 .. n
      PROVE  more[k].amount = BandAmount(paidIn, Rung(s, k), IF k = n THEN level ELSE s[k])
  <2>1. CASE k = n
    BY <1>7, <2>1
  <2>2. CASE k # n
    <3>1. k \in 1 .. n - 1
      BY <1>1, <2>2
    <3> QED BY <1>3, <1>4, <2>2, <3>1
  <2> QED BY <2>1, <2>2
<1>9. ASSUME s[n] < level, NEW x \in H PROVE x <= s[n]
  <2>1. CASE Staked(paidIn, gone, level) = {}
    <3>1. ~(x >= level)
      BY <2>1 DEF H, Held, Staked
    <3>2. x <= prev
      BY <1>6, <3>1 DEF H
    <3>3. CASE s[n] < prev
      BY <1>4, <3>3
    <3>4. CASE ~(s[n] < prev)
      BY <1>5, <1>6, <3>2, <3>4
    <3> QED BY <3>3, <3>4
  <2>2. CASE Last(pots).eligible = Staked(paidIn, gone, level)
    <3>1. Staked(paidIn, gone, s[n]) = Staked(paidIn, gone, level)
      BY <1>4, <1>5, <2>2 DEF Last
    <3>2. PICK i \in Alive(paidIn, gone) : paidIn[i] = s[n]
      BY <1>5 DEF H, Held
    <3>3. i \in Staked(paidIn, gone, s[n])
      BY <1>5, <3>2 DEF Staked
    <3>4. s[n] >= level
      BY <3>1, <3>2, <3>3 DEF Staked
    <3> QED BY <1>5, <1>9, <3>4
  <2> QED BY <2>1, <2>2 DEF MergesWithLast
<1>10. Rung(s, n) < level
  BY <1>4, <1>5
<1>11. Layered(paidIn, gone, level, more, s)
  BY <1>1, <1>3, <1>4, <1>8, <1>9, <1>10 DEF Layered, H
<1> QED BY <1>11 DEF more

(* A band that becomes a pot. *)
LEMMA LayerMore ==
    ASSUME NEW paidIn \in [Seats -> Nat], NEW gone,
           NEW prev \in Nat, NEW level \in Nat, prev < level,
           \A x \in Held(paidIn, gone) : x > prev => x >= level,
           NEW pots, NEW s, Layered(paidIn, gone, prev, pots, s),
           ~MergesWithLast(pots, Staked(paidIn, gone, level)),
           Staked(paidIn, gone, level) # {}
    PROVE  \E t : Layered(paidIn, gone, level,
                          Append(pots, [amount |-> BandAmount(paidIn, prev, level),
                                        eligible |-> Staked(paidIn, gone, level)]), t)
<1> DEFINE n == Len(pots)
           band == BandAmount(paidIn, prev, level)
           pot == [amount |-> band, eligible |-> Staked(paidIn, gone, level)]
           more == Append(pots, pot)
           H == Held(paidIn, gone)
<1>1. pots \in Seq(Pot) /\ n \in Nat
  BY DEF Layered
<1>2. band \in Nat /\ pot \in Pot
  <2>1. prev <= level
    OBVIOUS
  <2>2. band \in Nat
    BY <2>1, BandIs
  <2> QED BY <2>2 DEF Pot, Staked, Alive
<1>3. /\ more \in Seq(Pot) /\ Len(more) = n + 1
      /\ \A k \in 1 .. n : more[k] = pots[k]
      /\ more[n + 1] = pot
  BY <1>1, <1>2
<1>4. /\ Ladder(paidIn, gone, s, n)
      /\ n > 0 => Rung(s, n) < prev
      /\ n > 0 => (s[n] < prev => \A x \in H : x <= s[n])
      /\ n = 0 => prev = 0
      /\ \A k \in 1 .. n : pots[k].eligible = Staked(paidIn, gone, s[k])
      /\ \A k \in 1 .. n : pots[k].amount
            = BandAmount(paidIn, Rung(s, k), IF k = n THEN prev ELSE s[k])
  BY DEF Layered
<1>5. \A x \in H : x \in Nat \ {0}
  BY HeldAre
<1>6. PICK x \in H : x >= level /\ \A y \in H : y >= level => x <= y
  <2> DEFINE B == {y \in H : y >= level}
  <2>1. PICK i \in Staked(paidIn, gone, level) : TRUE
    OBVIOUS
  <2>2. paidIn[i] \in B
    BY <2>1 DEF Staked, Held
  <2>3. B \in SUBSET Nat /\ B # {}
    BY <1>5, <2>2
  <2>4. PICK m \in B : \A k \in B : m <= k
    BY <2>3, LeastNat
  <2> QED BY <2>4
<1>7. Staked(paidIn, gone, level) = Staked(paidIn, gone, x)
  <2>1. ASSUME NEW i \in Alive(paidIn, gone)
        PROVE  paidIn[i] >= level <=> paidIn[i] >= x
    <3>1. paidIn[i] \in H /\ paidIn[i] \in Nat /\ x \in Nat
      BY <1>5, HeldAre
    <3> QED BY <1>6, <3>1
  <2> QED BY <2>1 DEF Staked
<1>8. n > 0 => prev = s[n]
  <2> SUFFICES ASSUME n > 0 PROVE prev = s[n]
    OBVIOUS
  <2>1. n \in 1 .. n /\ s[n] \in H /\ s[n] \in Nat /\ Rung(s, n) \in Nat
    BY <1>1, <1>4, RungIs
  <2>2. ~(s[n] < prev)
    BY <1>4, <1>5, <1>6, <2>1
  <2>3. ASSUME s[n] > prev PROVE FALSE
    <3>1. s[n] >= level
      BY <2>1, <2>3
    <3>2. x <= s[n]
      BY <1>6, <2>1, <3>1
    <3>3. ~(x < s[n])
      <4> SUFFICES ASSUME x < s[n] PROVE FALSE
        OBVIOUS
      <4>1. PICK j \in 1 .. n : j < n /\ s[j] = x
        BY <2>1 DEF Ladder, Layered
      <4>2. x <= Rung(s, n)
        BY <1>1, <1>4, <2>1, <4>1, RungIs
      <4>3. Rung(s, n) < prev /\ x \in Nat
        BY <1>4, <1>5
      <4> QED BY <1>6, <2>1, <4>2, <4>3
    <3>4. x = s[n]
      BY <1>5, <2>1, <3>2, <3>3
    <3>5. Last(pots).eligible = Staked(paidIn, gone, level)
      BY <1>4, <1>7, <2>1, <3>4 DEF Last
    <3>6. pots # <<>>
      BY <1>1
    <3> QED BY <3>5, <3>6 DEF MergesWithLast
  <2> QED BY <2>1, <2>2, <2>3
<1> DEFINE t == [k \in 1 .. n + 1 |-> IF k <= n THEN s[k] ELSE x]
<1>9. /\ t[n + 1] = x /\ \A k \in 1 .. n : t[k] = s[k]
      /\ \A k \in 1 .. n + 1 : k = n + 1 \/ k \in 1 .. n
      /\ t \in [1 .. n + 1 -> H]
  <2>1. \A k \in 1 .. n : s[k] \in H
    BY <1>4 DEF Ladder
  <2>2. \A k \in 1 .. n + 1 : k = n + 1 \/ k \in 1 .. n
    BY <1>1
  <2>3. n + 1 \in 1 .. n + 1 /\ ~(n + 1 <= n) /\ \A k \in 1 .. n : k <= n /\ k \in 1 .. n + 1
    BY <1>1
  <2> HIDE DEF H, n
  <2> QED BY <2>1, <2>2, <2>3
<1>10. Rung(t, n + 1) = prev
  <2>1. CASE n = 0
    BY <1>4, <2>1 DEF Rung
  <2>2. CASE n # 0
    <3>1. n \in 1 .. n /\ n + 1 # 1 /\ (n + 1) - 1 = n /\ n > 0
      BY <1>1, <2>2
    <3>2. Rung(t, n + 1) = t[n]
      <4> HIDE DEF t
      <4> QED BY <3>1 DEF Rung
    <3> QED BY <1>8, <1>9, <3>1, <3>2
  <2> QED BY <2>1, <2>2
<1>11. \A k \in 1 .. n : Rung(t, k) = Rung(s, k)
  <2> SUFFICES ASSUME NEW k \in 1 .. n PROVE Rung(t, k) = Rung(s, k)
    OBVIOUS
  <2>1. k # 1 => k - 1 \in 1 .. n
    BY <1>1
  <2> HIDE DEF t
  <2> QED BY <1>9, <2>1 DEF Rung
<1> HIDE DEF t, more, pot, n, H
<1>12. \A j \in 1 .. n : s[j] \in H /\ s[j] <= prev /\ s[j] \in Nat
  <2> SUFFICES ASSUME NEW j \in 1 .. n PROVE s[j] \in H /\ s[j] <= prev /\ s[j] \in Nat
    OBVIOUS
  <2>1. n \in 1 .. n /\ n > 0 /\ (j < n \/ j = n)
    BY <1>1
  <2>2. s[j] \in H /\ s[n] \in H
    BY <1>4, <2>1 DEF Ladder, H
  <2>3. s[j] \in Nat /\ s[n] \in Nat
    BY <1>5, <2>2
  <2>4. j < n => s[j] < s[n]
    BY <1>4, <2>1 DEF Ladder
  <2> QED BY <1>8, <2>1, <2>2, <2>3, <2>4
<1>13. ASSUME NEW j \in 1 .. n + 1, NEW k \in 1 .. n + 1, j < k PROVE t[j] < t[k]
  <2>1. j \in 1 .. n
    BY <1>1, <1>13
  <2>2. CASE k \in 1 .. n
    <3>1. s[j] < s[k]
      BY <1>4, <1>13, <2>1, <2>2 DEF Ladder
    <3> QED BY <1>9, <2>1, <2>2, <3>1
  <2>3. CASE k = n + 1
    <3>1. s[j] <= prev /\ s[j] \in Nat /\ x \in Nat
      BY <1>5, <1>12, <2>1
    <3>2. s[j] < x
      BY <1>6, <3>1
    <3> QED BY <1>9, <2>1, <2>3, <3>2
  <2> QED BY <1>9, <2>2, <2>3
<1>14. ASSUME NEW k \in 1 .. n + 1, NEW y \in H, y < t[k]
       PROVE  \E j \in 1 .. n + 1 : j < k /\ t[j] = y
  <2>0. \A j \in 1 .. n : j \in 1 .. n + 1 /\ j < n + 1
    BY <1>1
  <2>1. CASE k \in 1 .. n
    <3>1. PICK j \in 1 .. n : j < k /\ s[j] = y
      BY <1>4, <1>9, <1>14, <2>1 DEF Ladder, H
    <3> QED BY <1>9, <2>0, <3>1
  <2>2. CASE k = n + 1
    <3>1. y < x /\ y \in Nat \ {0} /\ x \in Nat
      BY <1>5, <1>9, <1>14, <2>2
    <3>2. y <= prev
      BY <1>6, <3>1 DEF H
    <3>3. n > 0
      BY <1>1, <1>4, <3>1, <3>2
    <3>4. n \in 1 .. n /\ s[n] = prev
      BY <1>1, <1>8, <3>3
    <3>5. CASE y = prev
      BY <1>9, <2>0, <2>2, <3>4, <3>5
    <3>6. CASE y # prev
      <4>1. y < s[n]
        BY <3>1, <3>2, <3>4, <3>6
      <4>2. PICK j \in 1 .. n : s[j] = y
        BY <1>4, <3>4, <4>1 DEF Ladder, H
      <4> QED BY <1>9, <2>0, <2>2, <4>2
    <3> QED BY <3>5, <3>6
  <2> QED BY <1>9, <2>1, <2>2
<1>15. Ladder(paidIn, gone, t, n + 1)
  BY <1>9, <1>13, <1>14 DEF Ladder, H
<1>16. ASSUME NEW k \in 1 .. n + 1
       PROVE  /\ more[k].eligible = Staked(paidIn, gone, t[k])
              /\ more[k].amount
                 = BandAmount(paidIn, Rung(t, k), IF k = n + 1 THEN level ELSE t[k])
  <2>1. CASE k = n + 1
    <3>1. more[k].eligible = Staked(paidIn, gone, level) /\ more[k].amount = band
      BY <1>3, <2>1 DEF pot
    <3> QED BY <1>7, <1>9, <1>10, <2>1, <3>1
  <2>2. CASE k # n + 1
    <3>1. k \in 1 .. n
      BY <1>9, <2>2
    <3>2. more[k] = pots[k] /\ t[k] = s[k] /\ Rung(t, k) = Rung(s, k)
      BY <1>3, <1>9, <1>11, <3>1
    <3>3. k = n => prev = s[k]
      BY <1>1, <1>8, <3>1
    <3>4. pots[k].amount = BandAmount(paidIn, Rung(s, k), s[k])
      BY <1>4, <3>1, <3>3
    <3> QED BY <1>4, <2>2, <3>1, <3>2, <3>4
  <2> QED BY <2>1, <2>2
<1>17. /\ n + 1 > 0 => Rung(t, n + 1) < level
       /\ ~(t[n + 1] < level)
       /\ n + 1 # 0
  <2>1. x \in Nat
    BY <1>5
  <2> QED BY <1>1, <1>6, <1>9, <1>10, <2>1
<1>18. Layered(paidIn, gone, level, more, t)
  BY <1>3, <1>15, <1>16, <1>17 DEF Layered
<1> QED BY <1>18 DEF more, pot

LEMMA NextLayer ==
    ASSUME NEW paidIn \in [Seats -> Nat], NEW gone, Alive(paidIn, gone) # {},
           NEW T \in SUBSET Levels(paidIn), T # {}, DownTo(paidIn, T),
           NEW pots, NEW s, Layered(paidIn, gone, Max((T \ {Max(T)}) \cup {0}), pots, s)
    PROVE  \E t : Layered(paidIn, gone, Max(T \cup {0}),
                          AddBand(paidIn, gone, Max(T), pots), t)
<1> DEFINE level == Max(T)
           prev == Max((T \ {level}) \cup {0})
           eligible == Eligible(paidIn, gone, level)
           band == BandAmount(paidIn, Max(Beneath(paidIn, level)), level)
           more == AddBand(paidIn, gone, level, pots)
<1>1. /\ level \in T /\ level \in Nat \ {0}
      /\ prev = Max(Beneath(paidIn, level))
      /\ prev \in Nat /\ prev < level
      /\ Max(T \cup {0}) = level
      /\ \A l \in Levels(paidIn) : l < level => l <= prev
  BY NextLevel
<1>2. Layered(paidIn, gone, prev, pots, s)
  OBVIOUS
<1> HIDE DEF prev
<1> HIDE DEF level
<1>3. eligible = Staked(paidIn, gone, level)
  BY <1>1 DEF Eligible, Staked, Alive
<1>4. \A x \in Held(paidIn, gone) : x > prev => x >= level
  <2> SUFFICES ASSUME NEW x \in Held(paidIn, gone), x > prev PROVE x >= level
    OBVIOUS
  <2>1. x \in Levels(paidIn) /\ x \in Nat
    BY HeldAre
  <2> QED BY <1>1, <2>1
<1>5. more = IF MergesWithLast(pots, eligible) THEN Merged(pots, band)
             ELSE Append(pots, [amount |-> band, eligible |-> eligible])
  BY DEF AddBand, Beneath, Merged
<1>6. band = BandAmount(paidIn, prev, level)
  BY <1>1
<1> HIDE DEF more, band, eligible
<1>7. CASE MergesWithLast(pots, eligible)
  <2>1. more = Merged(pots, BandAmount(paidIn, prev, level))
    BY <1>5, <1>6, <1>7
  <2>2. MergesWithLast(pots, Staked(paidIn, gone, level))
    BY <1>3, <1>7
  <2>3. Layered(paidIn, gone, level, more, s)
    BY <1>1, <1>2, <1>4, <2>1, <2>2, LayerGrows
  <2> QED BY <1>1, <2>3 DEF more, level
<1>8. CASE ~MergesWithLast(pots, eligible)
  <2>1. more = Append(pots, [amount |-> BandAmount(paidIn, prev, level),
                             eligible |-> Staked(paidIn, gone, level)])
    BY <1>3, <1>5, <1>6, <1>8
  <2>2. ~MergesWithLast(pots, Staked(paidIn, gone, level))
    BY <1>3, <1>8
  <2>3. Staked(paidIn, gone, level) # {}
    <3>1. CASE pots = <<>>
      <4>1. prev = 0
        BY <1>2, <3>1 DEF Layered
      <4>2. PICK i \in Alive(paidIn, gone) : TRUE
        OBVIOUS
      <4>3. paidIn[i] \in Held(paidIn, gone) /\ paidIn[i] \in Nat \ {0}
        BY HeldAre
      <4>4. paidIn[i] >= level
        BY <1>4, <4>1, <4>3
      <4> QED BY <4>4 DEF Staked
    <3>2. CASE pots # <<>>
      BY <2>2, <3>2 DEF MergesWithLast
    <3> QED BY <3>1, <3>2
  <2>4. \E t : Layered(paidIn, gone, level, more, t)
    BY <1>1, <1>2, <1>4, <2>1, <2>2, <2>3, LayerMore
  <2> QED BY <1>1, <2>4 DEF more, level
<1> QED BY <1>7, <1>8

(* build_pots makes one pot for every stake of a live seat, the chips      *)
(* above the highest of them in the last.                                  *)
LEMMA PotsAreLayered ==
    ASSUME NEW paidIn \in [Seats -> Nat], NEW gone, Alive(paidIn, gone) # {}
    PROVE  LET pots == BuildPots(paidIn, gone)
           IN  \E s : Layered(paidIn, gone, Max(Levels(paidIn) \cup {0}), pots, s)
<1> DEFINE L == Levels(paidIn)
<1>1. PICK H : AddsBands(H, paidIn, gone)
  BY BandsRun
<1>2. /\ BuildPots(paidIn, gone) = H[L]
      /\ \A T \in SUBSET L :
            H[T] = IF T = {} THEN <<>>
                   ELSE AddBand(paidIn, gone, Max(T), H[T \ {Max(T)}])
  BY <1>1 DEF AddsBands
<1>3. L \in SUBSET (Nat \ {0}) /\ L \in SUBSET Int /\ IsFiniteSet(L)
  BY LevelsAre
<1> DEFINE Good == {T \in SUBSET L : DownTo(paidIn, T)
                       => \E s : Layered(paidIn, gone, Max(T \cup {0}), H[T], s)}
<1>4. ASSUME NEW T \in SUBSET L, \A U \in SUBSET T : U # T => U \in Good
      PROVE  T \in Good
  <2> SUFFICES ASSUME DownTo(paidIn, T)
               PROVE  \E s : Layered(paidIn, gone, Max(T \cup {0}), H[T], s)
    OBVIOUS
  <2>1. CASE T = {}
    <3>1. H[T] = <<>>
      BY <1>2, <2>1
    <3>5. Len(<<>>) = 0 /\ <<>> \in Seq(Pot) /\ 1 .. 0 = {}
      OBVIOUS
    <3>2. Max(T \cup {0}) = 0
      <4>1. {0} \in SUBSET Int /\ {0} # {} /\ {} \cup {0} = {0}
        OBVIOUS
      <4>3. IsFiniteSet({} \cup {0})
        BY ONLY FS_EmptySet, FS_AddElement
      <4>2. Max({0}) \in {0}
        BY <4>1, <4>3, MaxIn
      <4> QED BY <2>1, <4>1, <4>2
    <3> DEFINE s == [k \in 1 .. 0 |-> 0]
    <3>3. Ladder(paidIn, gone, s, 0)
      BY <3>5 DEF Ladder
    <3>4. Layered(paidIn, gone, 0, <<>>, s)
      <4> HIDE DEF s
      <4> QED BY <3>3, <3>5 DEF Layered
    <3> QED BY <3>1, <3>2, <3>4
  <2>2. CASE T # {}
    <3>1. Max(T) \in T /\ \A k \in T : k <= Max(T)
      BY <1>3, <2>2, MaxIn, FS_Subset
    <3>2. T \ {Max(T)} \in Good
      BY <1>4, <3>1
    <3>3. DownTo(paidIn, T \ {Max(T)})
      <4> SUFFICES ASSUME NEW l \in L, NEW k \in T \ {Max(T)}, l < k
                   PROVE  l \in T \ {Max(T)}
        BY DEF DownTo
      <4>1. l \in T
        BY DEF DownTo
      <4>2. k <= Max(T) /\ l \in Nat /\ k \in Nat /\ Max(T) \in Nat
        BY <1>3, <3>1
      <4> QED BY <4>1, <4>2
    <3>4. PICK s : Layered(paidIn, gone, Max((T \ {Max(T)}) \cup {0}), H[T \ {Max(T)}], s)
      BY <3>2, <3>3
    <3>5. H[T] = AddBand(paidIn, gone, Max(T), H[T \ {Max(T)}])
      BY <1>2, <2>2
    <3> HIDE DEF Good, L
    <3> QED BY <2>2, <3>4, <3>5, NextLayer DEF L
  <2> QED BY <2>1, <2>2
<1>5. L \in Good
  <2> HIDE DEF Good, L
  <2> QED BY <1>3, <1>4, SmallerFirst
<1>6. DownTo(paidIn, L)
  BY DEF DownTo
<1> QED BY <1>2, <1>5, <1>6

(* The levels a live stake's pot lies between. *)
Low(paidIn, gone, x) == Max({0} \cup {y \in Held(paidIn, gone) : y < x})

High(paidIn, gone, x) ==
    IF x = Max(Held(paidIn, gone)) THEN Max({paidIn[i] : i \in Seats}) ELSE x

LEMMA HeldFinite ==
    ASSUME NEW paidIn \in [Seats -> Nat], NEW gone
    PROVE  /\ IsFiniteSet(Held(paidIn, gone))
           /\ IsFiniteSet({paidIn[i] : i \in Seats})
           /\ {paidIn[i] : i \in Seats} \in SUBSET Int
<1>1. IsFiniteSet({paidIn[i] : i \in Seats})
  BY RingFinite, FiniteImage
<1>2. Held(paidIn, gone) \in SUBSET {paidIn[i] : i \in Seats}
  BY DEF Held, Alive
<1> QED BY <1>1, <1>2, FS_Subset

PotAt(paidIn, gone, x) ==
    [amount |-> BandAmount(paidIn, Low(paidIn, gone, x), High(paidIn, gone, x)),
     eligible |-> Staked(paidIn, gone, x)]

Numbering(s, n, D) ==
    /\ s \in [1 .. n -> D]
    /\ \A x \in D : \E k \in 1 .. n : s[k] = x
    /\ \A j, k \in 1 .. n : s[j] = s[k] => j = k

(* What build_pots layers band by band is a pot for every stake of a live  *)
(* seat, between it and the one below, for those who put in as much; chips *)
(* above the highest are in the last.                                      *)
THEOREM PotsFollowTheStakes ==
    ASSUME NEW paidIn \in [Seats -> Nat], NEW gone, Alive(paidIn, gone) # {}
    PROVE  LET pots == BuildPots(paidIn, gone)
           IN  \E s : /\ Numbering(s, Len(pots), Held(paidIn, gone))
                      /\ \A k \in 1 .. Len(pots) : pots[k] = PotAt(paidIn, gone, s[k])
<1> DEFINE pots == BuildPots(paidIn, gone)
           n == Len(pots)
           H == Held(paidIn, gone)
           C == {paidIn[i] : i \in Seats}
           top == Max(Levels(paidIn) \cup {0})
<1>1. PICK s : Layered(paidIn, gone, top, pots, s)
  BY PotsAreLayered
<1>2. H # {} /\ H \in SUBSET (Nat \ {0}) /\ H \in SUBSET Int /\ IsFiniteSet(H)
  BY HeldAre, HeldFinite
<1>3. top \in Nat /\ (\A l \in Levels(paidIn) : l <= top)
  <2>1. /\ Levels(paidIn) \cup {0} \in SUBSET Int /\ Levels(paidIn) \cup {0} # {}
        /\ Levels(paidIn) \cup {0} \in SUBSET Nat
        /\ IsFiniteSet(Levels(paidIn) \cup {0})
    BY LevelsAre, FS_AddElement
  <2>2. top \in Levels(paidIn) \cup {0} /\ \A l \in Levels(paidIn) \cup {0} : l <= top
    BY <2>1, MaxIn
  <2> QED BY <2>1, <2>2
<1>4. \A x \in H : x <= top /\ x \in Nat \ {0}
  BY <1>2, <1>3, HeldAre
<1>5. Max(C) = top
  <2>1. C \in SUBSET Int /\ IsFiniteSet(C) /\ C # {}
    <3>1. Seats # {}
      BY DEF Alive
    <3> QED BY <3>1, HeldFinite
  <2>2. Max(C) \in C /\ \A l \in C : l <= Max(C)
    BY <2>1, MaxIn
  <2>3. \A l \in C : l \in Nat /\ (l = 0 \/ l \in Levels(paidIn))
    BY LevelsAre
  <2>4. top \in C
    <3>1. top \in Levels(paidIn) \cup {0}
      <4>1. /\ Levels(paidIn) \cup {0} \in SUBSET Int /\ Levels(paidIn) \cup {0} # {}
            /\ IsFiniteSet(Levels(paidIn) \cup {0})
        BY LevelsAre, FS_AddElement
      <4> QED BY <4>1, MaxIn
    <3>2. top # 0
      <4>1. PICK x \in H : x <= top /\ x \in Nat \ {0}
        BY <1>2, <1>4
      <4> HIDE DEF top
      <4> QED BY <1>3, <4>1
    <3> QED BY <3>1, <3>2 DEF Levels
  <2> DEFINE m == Max(C)
  <2> HIDE DEF top, m
  <2>5. m \in Nat /\ m <= top /\ top <= m
    BY <1>3, <2>2, <2>3, <2>4 DEF m
  <2> QED BY <1>3, <2>5 DEF m
<1> HIDE DEF top, pots, n, C
<1>6. /\ pots \in Seq(Pot) /\ n \in Nat /\ Ladder(paidIn, gone, s, n)
      /\ \A k \in 1 .. n : pots[k].eligible = Staked(paidIn, gone, s[k])
      /\ \A k \in 1 .. n : pots[k].amount
            = BandAmount(paidIn, Rung(s, k), IF k = n THEN top ELSE s[k])
      /\ n > 0 => (s[n] < top => \A x \in H : x <= s[n])
      /\ n = 0 => top = 0
      /\ \A k \in 1 .. n : pots[k] \in Pot
  BY <1>1 DEF Layered, n
<1>7. n > 0 /\ n \in 1 .. n
  BY <1>2, <1>4, <1>6
<1>8. /\ s \in [1 .. n -> H]
      /\ \A j, k \in 1 .. n : j < k => s[j] < s[k]
      /\ \A k \in 1 .. n : \A x \in H : x < s[k] => \E j \in 1 .. n : j < k /\ s[j] = x
  BY <1>6 DEF Ladder
<1>9. \A k \in 1 .. n : s[k] \in H /\ s[k] \in Nat \ {0}
  BY <1>4, <1>8
<1>10. \A x \in H : x <= s[n]
  <2>1. CASE s[n] < top
    BY <1>6, <1>7, <2>1
  <2>2. CASE ~(s[n] < top)
    <3>1. s[n] = top
      BY <1>3, <1>4, <1>7, <1>9, <2>2
    <3> QED BY <1>4, <3>1
  <2> QED BY <2>1, <2>2
<1>11. \A x \in H : \E k \in 1 .. n : s[k] = x
  <2> SUFFICES ASSUME NEW x \in H PROVE \E k \in 1 .. n : s[k] = x
    OBVIOUS
  <2>1. x = s[n] \/ x < s[n]
    BY <1>4, <1>7, <1>9, <1>10
  <2> QED BY <1>7, <1>8, <2>1
<1>12. \A j, k \in 1 .. n : s[j] = s[k] => j = k
  <2> SUFFICES ASSUME NEW j \in 1 .. n, NEW k \in 1 .. n, s[j] = s[k] PROVE j = k
    OBVIOUS
  <2>1. s[j] \in Nat /\ ~(s[j] < s[k]) /\ ~(s[k] < s[j])
    BY <1>9
  <2>2. ~(j < k) /\ ~(k < j)
    BY <1>8, <2>1
  <2> QED BY <2>2
<1>13. Max(H) = s[n]
  <2> DEFINE m == Max(H)
  <2>1. m \in H /\ \A x \in H : x <= m
    BY <1>2, MaxIn
  <2> HIDE DEF m
  <2>2. m \in Nat /\ s[n] \in Nat /\ m <= s[n] /\ s[n] <= m
    BY <1>4, <1>7, <1>9, <1>10, <2>1
  <2> QED BY <2>2 DEF m
<1>14. ASSUME NEW k \in 1 .. n PROVE High(paidIn, gone, s[k]) = IF k = n THEN top ELSE s[k]
  <2>1. s[k] = Max(H) <=> k = n
    BY <1>7, <1>12, <1>13
  <2> QED BY <1>5, <2>1 DEF High, H, C
<1>15. ASSUME NEW k \in 1 .. n PROVE Low(paidIn, gone, s[k]) = Rung(s, k)
  <2> DEFINE B == {0} \cup {y \in H : y < s[k]}
             m == Max(B)
  <2>1. /\ Rung(s, k) \in Nat /\ Rung(s, k) < s[k]
        /\ \A j \in 1 .. n : j < k => s[j] <= Rung(s, k)
    BY <1>6, RungIs
  <2>2. Rung(s, k) \in B
    <3>1. CASE k = 1
      BY <3>1 DEF Rung
    <3>2. CASE k # 1
      <4>1. k - 1 \in 1 .. n /\ Rung(s, k) = s[k - 1]
        BY <1>6, <3>2 DEF Rung
      <4>2. s[k - 1] \in H
        BY <1>9, <4>1
      <4> QED BY <2>1, <4>1, <4>2
    <3> QED BY <3>1, <3>2
  <2>3. \A y \in B : y <= Rung(s, k) /\ y \in Nat
    <3> SUFFICES ASSUME NEW y \in H, y < s[k] PROVE y <= Rung(s, k) /\ y \in Nat
      BY <2>1
    <3>1. PICK j \in 1 .. n : j < k /\ s[j] = y
      BY <1>8
    <3> QED BY <1>4, <2>1, <3>1
  <2>4. m \in B /\ \A y \in B : y <= m
    <3>1. IsFiniteSet({y \in H : y < s[k]})
      BY <1>2, FS_Subset
    <3>2. IsFiniteSet(B) /\ B \in SUBSET Int /\ B # {}
      <4>1. B = {y \in H : y < s[k]} \cup {0}
        OBVIOUS
      <4>2. IsFiniteSet({y \in H : y < s[k]} \cup {0})
        BY <3>1, FS_AddElement
      <4>3. 0 \in B /\ \A y \in B : y \in Int
        BY <1>2
      <4> QED BY <4>1, <4>2, <4>3
    <3> HIDE DEF B
    <3> QED BY <3>2, MaxIn
  <2> HIDE DEF B, m
  <2>5. m \in Nat /\ m <= Rung(s, k) /\ Rung(s, k) <= m
    BY <2>2, <2>3, <2>4
  <2>6. m = Rung(s, k)
    BY <2>1, <2>5
  <2> QED BY <2>6 DEF Low, H, B, m
<1>16. ASSUME NEW k \in 1 .. n PROVE pots[k] = PotAt(paidIn, gone, s[k])
  <2>1. /\ pots[k] \in Pot /\ pots[k].eligible = Staked(paidIn, gone, s[k])
        /\ pots[k].amount = BandAmount(paidIn, Low(paidIn, gone, s[k]),
                                       High(paidIn, gone, s[k]))
    BY <1>6, <1>14, <1>15
  <2> QED BY <2>1 DEF Pot, PotAt
<1>17. Numbering(s, n, H)
  BY <1>8, <1>11, <1>12 DEF Numbering
<1> QED BY <1>16, <1>17 DEF pots, n

-----------------------------------------------------------------------------
(* distribute.                                                             *)

(* In a row of different keys, r places come before place r. *)
Earliest(W, key, r) == {i \in W : Cardinality({j \in W : key[j] < key[i]}) < r}

LEMMA Places ==
    ASSUME NEW W, IsFiniteSet(W), NEW key, \A i \in W : key[i] \in Int,
           \A i, j \in W : key[i] = key[j] => i = j, NEW r \in 0 .. Cardinality(W)
    PROVE  Cardinality(Earliest(W, key, r)) = r
<1> DEFINE place(T, i) == Cardinality({j \in T : key[j] < key[i]})
           early(T, n) == {i \in T : place(T, i) < n}
           Good == {T \in SUBSET W : \A n \in 0 .. Cardinality(T) : Cardinality(early(T, n)) = n}
<1>1. ASSUME NEW T \in SUBSET W, \A U \in SUBSET T : U # T => U \in Good
      PROVE  T \in Good
  <2>1. IsFiniteSet(T) /\ Cardinality(T) \in Nat /\ \A U \in SUBSET T : IsFiniteSet(U)
    BY FS_Subset, FS_CardinalityType
  <2>2. CASE T = {}
    <3>1. Cardinality(T) = 0 /\ \A n : early(T, n) = {}
      BY <2>2, FS_EmptySet
    <3> QED BY <2>2, <3>1, FS_EmptySet
  <2>3. CASE T # {}
    <3>1. PICK m \in T : \A i \in T : key[i] <= key[m]
      <4> DEFINE keys == {key[i] : i \in T}
      <4>1. keys \in SUBSET Int /\ IsFiniteSet(keys) /\ keys # {}
        BY <2>1, <2>3, FiniteImage
      <4> HIDE DEF keys
      <4>2. Max(keys) \in keys /\ \A k \in keys : k <= Max(keys)
        BY <4>1, MaxIn
      <4>3. PICK m \in T : key[m] = Max(keys)
        BY <4>2 DEF keys
      <4> QED BY <4>2, <4>3 DEF keys
    <3> DEFINE U == T \ {m}
    <3>2. U \in Good /\ Cardinality(U) = Cardinality(T) - 1 /\ IsFiniteSet(U)
      BY <1>1, <2>1, OneFewer
    <3>3. \A i \in U : key[i] < key[m]
      BY <3>1
    <3>4. \A i \in U : place(T, i) = place(U, i)
      <4>1. \A i \in U : {j \in T : key[j] < key[i]} = {j \in U : key[j] < key[i]}
        BY <3>3
      <4> QED BY <4>1
    <3>5. place(T, m) = Cardinality(U)
      <4>1. {j \in T : key[j] < key[m]} = U
        BY <3>3
      <4> QED BY <4>1
    <3>6. ASSUME NEW n \in 0 .. Cardinality(T) PROVE Cardinality(early(T, n)) = n
      <4>1. CASE n <= Cardinality(U)
        <5>1. m \notin early(T, n)
          BY <2>1, <3>2, <3>5, <4>1
        <5>2. early(T, n) = early(U, n)
          BY <3>4, <5>1
        <5>3. n \in 0 .. Cardinality(U)
          BY <2>1, <3>2, <4>1
        <5> QED BY <3>2, <5>2, <5>3
      <4>2. CASE n = Cardinality(T)
        <5>1. ASSUME NEW i \in T PROVE place(T, i) < n
          <6> DEFINE before == {j \in T : key[j] < key[i]}
          <6>1. before \in SUBSET (T \ {i}) /\ IsFiniteSet(T \ {i})
            BY <2>1
          <6>2. Cardinality(before) <= Cardinality(T \ {i})
            BY <6>1, FS_Subset
          <6>3. Cardinality(T \ {i}) = Cardinality(T) - 1
            BY <2>1, OneFewer
          <6>4. Cardinality(before) \in Nat
            BY <2>1, <6>1, FS_CardinalityType
          <6> QED BY <2>1, <4>2, <6>2, <6>3, <6>4
        <5>2. early(T, n) = T
          BY <5>1
        <5> QED BY <4>2, <5>2
      <4>3. n <= Cardinality(U) \/ n = Cardinality(T)
        BY <2>1, <3>2
      <4> QED BY <4>1, <4>2, <4>3
    <3> QED BY <3>6
  <2> QED BY <2>2, <2>3
<1>2. W \in Good
  <2> HIDE DEF Good
  <2> QED BY <1>1, SmallerFirst
<1> QED BY <1>2 DEF Earliest

(* Dividing: what every winner gets, and the odd chips. *)
LEMMA Division ==
    ASSUME NEW a \in Nat, NEW n \in Nat \ {0}
    PROVE  a \div n \in Nat /\ a % n \in 0 .. n - 1 /\ a % n = a - n * (a \div n)
OBVIOUS

LEMMA StepsApart ==
    ASSUME NEW from \in Seats
    PROVE  /\ \A i \in Seats : Steps(from, i) \in Int
           /\ \A i, j \in Seats : Steps(from, i) = Steps(from, j) => i = j
<1>1. MaxSeats \in Int /\ from \in Int /\ \A i \in Seats : i \in Int /\ 0 <= i /\ i < MaxSeats
  BY SeatsAssumption DEF Seats
<1>2. 0 <= from /\ from < MaxSeats
  BY <1>1
<1>3. \A i \in Seats : /\ Steps(from, i) \in Int
                       /\ i > from => Steps(from, i) = i - from
                       /\ ~(i > from) => Steps(from, i) = i - from + MaxSeats
  BY <1>1 DEF Steps
<1>4. ASSUME NEW i \in Seats, NEW j \in Seats, Steps(from, i) = Steps(from, j) PROVE i = j
  BY <1>1, <1>2, <1>3, <1>4
<1> QED BY <1>3, <1>4

(* The parts of a pot its winners get, odd chips included, are the pot. *)
LEMMA SharesAddUp ==
    ASSUME NEW amount \in Nat, NEW W \in SUBSET Seats, W # {}, NEW dealer \in Seats
    PROVE  /\ \A i \in W : Share(amount, W, dealer, i) \in Nat
           /\ Total([i \in Seats |-> IF i \in W THEN Share(amount, W, dealer, i) ELSE 0]) = amount
<1> DEFINE n == Cardinality(W)
           q == amount \div n
           r == amount % n
           key == [i \in Seats |-> Steps(dealer, i)]
           E == Earliest(W, key, r)
           even == [i \in W |-> q]
           odd == [i \in W |-> IF i \in E THEN 1 ELSE 0]
           all == [i \in Seats |-> IF i \in W THEN Share(amount, W, dealer, i) ELSE 0]
<1>1. IsFiniteSet(W) /\ n \in Nat \ {0}
  BY RingFinite, FS_EmptySet, FS_CardinalityType
<1>2. q \in Nat /\ r \in 0 .. n - 1 /\ amount = n * q + r
  <2>1. q \in Nat /\ r \in 0 .. n - 1 /\ r = amount - n * q
    <3> HIDE DEF n
    <3> QED BY <1>1, Division
  <2> HIDE DEF n, q, r
  <2> QED BY <1>1, <2>1
<1>3. \A i \in W : Share(amount, W, dealer, i) = even[i] + odd[i]
  <2>1. \A i \in W : {j \in W : key[j] < key[i]} = {j \in W : Steps(dealer, j) < Steps(dealer, i)}
    OBVIOUS
  <2>2. \A i \in W : i \in E <=> Cardinality({j \in W : Steps(dealer, j) < Steps(dealer, i)}) < r
    BY <2>1 DEF Earliest
  <2> HIDE DEF E
  <2> QED BY <2>2 DEF Share
<1>4. Cardinality(E) = r
  <2>1. r \in 0 .. Cardinality(W)
    <3> HIDE DEF r
    <3> QED BY <1>1, <1>2
  <2>2. /\ \A i \in W : key[i] \in Int
        /\ \A i, j \in W : key[i] = key[j] => i = j
    BY StepsApart
  <2> HIDE DEF key, r
  <2> QED BY <1>1, <2>1, <2>2, Places
<1>5. E \in SUBSET W /\ IsFiniteSet(E) /\ IsFiniteSet(W \ E)
  BY <1>1, FS_Subset DEF Earliest
<1>6. \A i \in W : even[i] = q /\ odd[i] = IF i \in E THEN 1 ELSE 0
  OBVIOUS
<1>7. \A i \in Seats : all[i] = IF i \in W THEN even[i] + odd[i] ELSE 0
  BY <1>3
<1> HIDE DEF E, q, r, even, odd, all
<1>8. SumFunctionOnSet(even, W) = n * q
  BY <1>1, <1>2, <1>6, SumConstant
<1>9. SumFunctionOnSet(odd, W) = r
  <2>1. E \cup (W \ E) = W /\ E \cap (W \ E) = {} /\ \A i \in E \cup (W \ E) : odd[i] \in Int
    BY <1>5, <1>6
  <2>2. SumFunctionOnSet(odd, E \cup (W \ E))
        = SumFunctionOnSet(odd, E) + SumFunctionOnSet(odd, W \ E)
    BY <1>5, <2>1, SumSplit
  <2>3. SumFunctionOnSet(odd, E) = r
    <3>1. 1 \in Int /\ \A i \in E : odd[i] = 1
      BY <1>5, <1>6
    <3>2. SumFunctionOnSet(odd, E) = Cardinality(E) * 1
      BY <1>5, <3>1, SumConstant
    <3>3. r \in Int /\ r * 1 = r
      BY <1>2
    <3> QED BY <1>4, <3>2, <3>3
  <2>4. SumFunctionOnSet(odd, W \ E) = 0
    BY <1>5, <1>6, SumZero
  <2>5. r \in Int
    BY <1>2
  <2> QED BY <2>1, <2>2, <2>3, <2>4, <2>5
<1>10. \A i \in W : even[i] \in Nat /\ odd[i] \in Nat
  BY <1>2, <1>6
<1>11. SumFunctionOnSet(all, W) = n * q + r
  <2>1. \A i \in W : even[i] \in Int /\ odd[i] \in Int /\ all[i] = even[i] + odd[i]
    BY <1>7, <1>10
  <2>2. SumFunctionOnSet(all, W) = SumFunctionOnSet(even, W) + SumFunctionOnSet(odd, W)
    BY <1>1, <2>1, SumAdd
  <2> QED BY <1>8, <1>9, <2>2
<1>12. Total(all) = SumFunctionOnSet(all, W)
  <2>1. /\ W \cup (Seats \ W) = Seats /\ W \cap (Seats \ W) = {}
        /\ \A i \in W \cup (Seats \ W) : all[i] \in Int
    BY <1>7, <1>10
  <2>2. IsFiniteSet(Seats \ W)
    BY RingFinite
  <2>3. SumFunctionOnSet(all, W \cup (Seats \ W))
        = SumFunctionOnSet(all, W) + SumFunctionOnSet(all, Seats \ W)
    BY <1>1, <2>1, <2>2, SumSplit
  <2>4. SumFunctionOnSet(all, Seats \ W) = 0
    <3>1. \A i \in Seats \ W : all[i] = 0
      BY <1>7
    <3> QED BY <2>2, <3>1, SumZero
  <2>5. SumFunctionOnSet(all, W) \in Int
    BY <1>2, <1>11
  <2>6. Total(all) = SumFunctionOnSet(all, W \cup (Seats \ W))
    BY <2>1 DEF Total
  <2> QED BY ONLY <2>3, <2>4, <2>5, <2>6
<1>13. \A i \in W : Share(amount, W, dealer, i) \in Nat
  BY <1>3, <1>10
<1>14. Total(all) = amount
  BY <1>2, <1>11, <1>12
<1> QED BY <1>13, <1>14 DEF all

(* A pot somebody may win has a winner, and only such seats win it. *)
LEMMA WinnersAre ==
    ASSUME NEW pot \in Pot, NEW ranks \in [Seats -> Int]
    PROVE  /\ Winners(pot, ranks) \in SUBSET pot.eligible
           /\ Winners(pot, ranks) \in SUBSET Seats
           /\ pot.eligible # {} => Winners(pot, ranks) # {}
<1> DEFINE ranked == {i \in pot.eligible : ranks[i] # NoRank}
<1>1. pot.eligible \in SUBSET Seats
  BY DEF Pot
<1>2. Winners(pot, ranks) \in SUBSET pot.eligible
  BY DEF Winners
<1>3. CASE ranked = {}
  BY <1>1, <1>2, <1>3 DEF Winners
<1>4. CASE ranked # {}
  <2> DEFINE ranksOf == {ranks[i] : i \in ranked}
  <2>1. IsFiniteSet(ranked)
    BY <1>1, RingFinite
  <2>2. ranksOf \in SUBSET Int /\ IsFiniteSet(ranksOf) /\ ranksOf # {}
    <3> DEFINE R == ranked
    <3>1. R \in SUBSET Seats /\ R # {} /\ IsFiniteSet(R)
      BY <1>1, <1>4, <2>1
    <3> HIDE DEF R
    <3>2. IsFiniteSet({ranks[i] : i \in R})
      BY <3>1, FiniteImage
    <3>3. {ranks[i] : i \in R} \in SUBSET Int /\ {ranks[i] : i \in R} # {}
      BY <3>1
    <3> QED BY <3>2, <3>3 DEF R
  <2> HIDE DEF ranksOf
  <2>3. Max(ranksOf) \in ranksOf /\ \A x \in ranksOf : x <= Max(ranksOf)
    BY <2>2, MaxIn
  <2>4. PICK i \in ranked : ranks[i] = Max(ranksOf)
    BY <2>3 DEF ranksOf
  <2>5. \A j \in ranked : ranks[j] <= ranks[i]
    BY <2>3, <2>4 DEF ranksOf
  <2>6. i \in Winners(pot, ranks)
    BY <1>4, <2>4, <2>5 DEF Winners
  <2> QED BY <1>1, <1>2, <2>6
<1> QED BY <1>3, <1>4

Dist == [payouts : [Seats -> Nat], unclaimed : Nat]

NothingYet == [payouts |-> [i \in Seats |-> 0], unclaimed |-> 0]

(* One pot is paid out, or nobody may have it. *)
LEMMA PayPotIs ==
    ASSUME NEW ranks \in [Seats -> Int], NEW dealer \in Seats, NEW given \in Dist, NEW pot \in Pot
    PROVE  LET paid == PayPot(ranks, dealer, given, pot)
           IN  /\ paid \in Dist
               /\ Total(paid.payouts) + paid.unclaimed
                  = Total(given.payouts) + given.unclaimed + pot.amount
               /\ \A i \in Seats : i \notin pot.eligible => paid.payouts[i] = given.payouts[i]
               /\ pot.eligible # {} => paid.unclaimed = given.unclaimed
<1> DEFINE W == Winners(pot, ranks)
           part == [i \in Seats |-> IF i \in W THEN Share(pot.amount, W, dealer, i) ELSE 0]
           paid == PayPot(ranks, dealer, given, pot)
<1>1. /\ given.payouts \in [Seats -> Nat] /\ given.unclaimed \in Nat
      /\ pot.amount \in Nat /\ W \in SUBSET Seats /\ W \in SUBSET pot.eligible
      /\ pot.eligible # {} => W # {}
  BY WinnersAre DEF Dist, Pot
<1>2. Total(given.payouts) \in Nat
  BY <1>1, TotalNat
<1>3. CASE W = {}
  <2>1. paid = [given EXCEPT !.unclaimed = @ + pot.amount]
    BY <1>3 DEF PayPot
  <2>2. /\ paid \in Dist /\ paid.payouts = given.payouts
        /\ paid.unclaimed = given.unclaimed + pot.amount
    BY <1>1, <2>1 DEF Dist
  <2> HIDE DEF paid, W
  <2>3. pot.eligible = {}
    BY <1>1, <1>3
  <2>4. Total(paid.payouts) + paid.unclaimed = Total(given.payouts) + given.unclaimed + pot.amount
    BY <1>1, <1>2, <2>2
  <2> QED BY <2>2, <2>3, <2>4 DEF paid
<1>4. CASE W # {}
  <2>1. paid = [given EXCEPT !.payouts = [i \in Seats |-> @[i] + part[i]]]
    BY <1>4 DEF PayPot
  <2>2. (\A i \in Seats : part[i] \in Nat) /\ Total(part) = pot.amount
    BY <1>1, <1>4, SharesAddUp
  <2>3. \A i \in Seats : i \notin W => part[i] = 0
    OBVIOUS
  <2> HIDE DEF part
  <2>4. /\ paid \in Dist /\ paid.unclaimed = given.unclaimed
        /\ \A i \in Seats : paid.payouts[i] = given.payouts[i] + part[i]
    BY <1>1, <2>1, <2>2 DEF Dist
  <2> HIDE DEF paid, W
  <2>5. Total(paid.payouts) = Total(given.payouts) + Total(part)
    <3>1. \A i \in Seats : /\ given.payouts[i] \in Int /\ part[i] \in Int
                           /\ paid.payouts[i] = given.payouts[i] + part[i]
      BY <1>1, <2>2, <2>4
    <3> QED BY <3>1, TotalAdd
  <2>6. Total(paid.payouts) + paid.unclaimed = Total(given.payouts) + given.unclaimed + pot.amount
    BY <1>1, <1>2, <2>2, <2>4, <2>5
  <2>7. \A i \in Seats : i \notin pot.eligible => paid.payouts[i] = given.payouts[i]
    BY <1>1, <2>3, <2>4
  <2> QED BY <2>4, <2>6, <2>7 DEF paid
<1> QED BY <1>3, <1>4

(* distribute is a run over the pots. *)
PaysPots(H, pots, ranks, dealer) ==
    /\ Distribute(pots, ranks, dealer) = H[1 .. Len(pots)]
    /\ \A T \in SUBSET (1 .. Len(pots)) :
          H[T] = IF T = {} THEN NothingYet
                 ELSE PayPot(ranks, dealer, H[T \ {Max(T)}], pots[Max(T)])

LEMMA PotsAreRun ==
    ASSUME NEW pots \in Seq(Pot), NEW ranks \in [Seats -> Int], NEW dealer \in Seats
    PROVE  \E H : PaysPots(H, pots, ranks, dealer)
<1> DEFINE D == 1 .. Len(pots)
           step == [p \in D \X Dist |-> PayPot(ranks, dealer, p[2], pots[p[1]])]
           body(G) == [T \in SUBSET D |->
                          IF T = {} THEN NothingYet
                          ELSE PayPot(ranks, dealer, G[T \ {Max(T)}], pots[Max(T)])]
<1>1. D \in SUBSET Int /\ IsFiniteSet(D) /\ \A k \in D : pots[k] \in Pot
  <2>1. Len(pots) \in Int /\ 1 \in Int
    OBVIOUS
  <2> QED BY <2>1, FS_Interval
<1>2. step \in [D \X Dist -> Dist]
  BY <1>1, PayPotIs
<1>3. PICK G \in [SUBSET D -> Dist] : FoldsUp(G, D, NothingYet, step)
  <2>1. NothingYet \in Dist
    BY DEF NothingYet, Dist
  <2> HIDE DEF D, step
  <2> QED BY <1>1, <1>2, <2>1, FoldHasValue
<1>4. ASSUME NEW T \in SUBSET D, T # {}
      PROVE  G[T] = PayPot(ranks, dealer, G[T \ {Max(T)}], pots[Max(T)])
  <2>1. Max(T) \in D
    <3> HIDE DEF D
    <3> QED BY <1>1, <1>4, MaxIn, FS_Subset
  <2>2. <<Max(T), G[T \ {Max(T)}]>> \in D \X Dist
    BY <2>1
  <2> QED BY <1>3, <1>4, <2>2 DEF FoldsUp
<1>5. G = body(G)
  BY <1>3, <1>4 DEF FoldsUp
<1> DEFINE H == CHOOSE H : H = body(H)
<1>6. H = body(H)
  BY <1>5
<1>7. Distribute(pots, ranks, dealer) = H[D]
  <2>1. DOMAIN pots = D
    OBVIOUS
  <2> QED BY <2>1 DEF Distribute, FoldLeft, MapThenFoldSet, NothingYet
<1> HIDE DEF H
<1>8. PaysPots(H, pots, ranks, dealer)
  BY <1>6, <1>7 DEF PaysPots
<1> QED BY <1>8

(* What is owed when some of the pots are paid. *)
PaidOut(pots, T, given) ==
    /\ given \in Dist
    /\ Total(given.payouts) + given.unclaimed
       = SumFunctionOnSet([k \in 1 .. Len(pots) |-> pots[k].amount], T)
    /\ \A i \in Seats : (\A k \in T : i \notin pots[k].eligible) => given.payouts[i] = 0
    /\ (\A k \in T : pots[k].eligible # {}) => given.unclaimed = 0

LEMMA OnePotPaid ==
    ASSUME NEW pots \in Seq(Pot), NEW ranks \in [Seats -> Int], NEW dealer \in Seats,
           NEW T \in SUBSET (1 .. Len(pots)), NEW k \in T, NEW given, PaidOut(pots, T \ {k}, given)
    PROVE  PaidOut(pots, T, PayPot(ranks, dealer, given, pots[k]))
<1> DEFINE paid == PayPot(ranks, dealer, given, pots[k])
           amounts == [j \in 1 .. Len(pots) |-> pots[j].amount]
           U == T \ {k}
<1>1. given \in Dist /\ pots[k] \in Pot
  BY DEF PaidOut
<1>2. /\ paid \in Dist
      /\ Total(paid.payouts) + paid.unclaimed
         = Total(given.payouts) + given.unclaimed + pots[k].amount
      /\ \A i \in Seats : i \notin pots[k].eligible => paid.payouts[i] = given.payouts[i]
      /\ pots[k].eligible # {} => paid.unclaimed = given.unclaimed
  BY <1>1, PayPotIs
<1>3. SumFunctionOnSet(amounts, T) = amounts[k] + SumFunctionOnSet(amounts, U)
  <2>1. IsFiniteSet(T)
    <3>1. Len(pots) \in Int /\ 1 \in Int
      OBVIOUS
    <3>2. IsFiniteSet(1 .. Len(pots))
      BY <3>1, FS_Interval
    <3> QED BY <3>2, FS_Subset
  <2>2. \A j \in T : amounts[j] \in Int
    <3>1. \A j \in T : pots[j] \in Pot /\ amounts[j] = pots[j].amount
      OBVIOUS
    <3> HIDE DEF amounts
    <3> QED BY <3>1 DEF Pot
  <2> HIDE DEF amounts
  <2> QED BY <2>1, <2>2, SumTakeOut
<1>4. amounts[k] = pots[k].amount /\ pots[k].amount \in Nat
  BY <1>1 DEF Pot
<1>5. /\ Total(given.payouts) + given.unclaimed = SumFunctionOnSet(amounts, U)
      /\ \A i \in Seats : (\A j \in U : i \notin pots[j].eligible) => given.payouts[i] = 0
      /\ (\A j \in U : pots[j].eligible # {}) => given.unclaimed = 0
  BY DEF PaidOut
<1>6. Total(given.payouts) \in Nat /\ given.unclaimed \in Nat
  BY <1>1, TotalNat DEF Dist
<1> HIDE DEF paid
<1>7. Total(paid.payouts) + paid.unclaimed = SumFunctionOnSet(amounts, T)
  <2> HIDE DEF amounts, U
  <2> QED BY <1>2, <1>3, <1>4, <1>5, <1>6
<1>8. \A i \in Seats : (\A j \in T : i \notin pots[j].eligible) => paid.payouts[i] = 0
  BY <1>2, <1>5
<1>9. (\A j \in T : pots[j].eligible # {}) => paid.unclaimed = 0
  BY <1>2, <1>5
<1>10. PaidOut(pots, T, paid)
  BY <1>2, <1>7, <1>8, <1>9 DEF PaidOut
<1> QED BY <1>10 DEF paid

(* Everything in the pots is paid or unclaimed, to a chip (the assertion   *)
(* that closes distribute); nobody is paid from a pot it may not win, and  *)
(* nothing is unclaimed when every pot has somebody who may.               *)
THEOREM PotsArePaidOut ==
    ASSUME NEW pots \in Seq(Pot), NEW ranks \in [Seats -> Int], NEW dealer \in Seats
    PROVE  LET owed == Distribute(pots, ranks, dealer)
           IN  /\ owed.payouts \in [Seats -> Nat] /\ owed.unclaimed \in Nat
               /\ Total(owed.payouts) + owed.unclaimed = Amounts(pots)
               /\ \A i \in Seats : (\A k \in 1 .. Len(pots) : i \notin pots[k].eligible)
                                      => owed.payouts[i] = 0
               /\ (\A k \in 1 .. Len(pots) : pots[k].eligible # {}) => owed.unclaimed = 0
<1> DEFINE D == 1 .. Len(pots)
<1>1. PICK H : PaysPots(H, pots, ranks, dealer)
  BY PotsAreRun
<1> DEFINE Good == {T \in SUBSET D : PaidOut(pots, T, H[T])}
<1>2. ASSUME NEW T \in SUBSET D, \A U \in SUBSET T : U # T => U \in Good
      PROVE  T \in Good
  <2>1. CASE T = {}
    <3>1. H[T] = NothingYet
      BY <1>1, <2>1 DEF PaysPots
    <3>2. Total(NothingYet.payouts) = 0
      BY TotalZero DEF NothingYet
    <3>3. NothingYet \in Dist /\ NothingYet.unclaimed = 0 /\ \A i \in Seats : NothingYet.payouts[i] = 0
      BY DEF NothingYet, Dist
    <3>4. SumFunctionOnSet([k \in 1 .. Len(pots) |-> pots[k].amount], {}) = 0
      BY SumEmpty
    <3>5. PaidOut(pots, {}, NothingYet)
      BY <3>2, <3>3, <3>4 DEF PaidOut
    <3> QED BY <2>1, <3>1, <3>5
  <2>2. CASE T # {}
    <3>1. Max(T) \in T
      <4>1. Len(pots) \in Int /\ 1 \in Int /\ D \in SUBSET Int
        OBVIOUS
      <4>2. IsFiniteSet(D)
        BY <4>1, FS_Interval
      <4> QED BY <2>2, <4>1, <4>2, MaxIn, FS_Subset
    <3>2. PaidOut(pots, T \ {Max(T)}, H[T \ {Max(T)}])
      <4>1. T \ {Max(T)} \in Good
        BY <1>2, <3>1
      <4> QED BY <4>1
    <3>3. H[T] = PayPot(ranks, dealer, H[T \ {Max(T)}], pots[Max(T)])
      BY <1>1, <2>2 DEF PaysPots
    <3>4. PaidOut(pots, T, H[T])
      BY <3>1, <3>2, <3>3, OnePotPaid
    <3> QED BY <3>4
  <2> QED BY <2>1, <2>2
<1>3. D \in Good
  <2>1. Len(pots) \in Int /\ 1 \in Int
    OBVIOUS
  <2>2. IsFiniteSet(D)
    BY <2>1, FS_Interval
  <2> HIDE DEF Good, D
  <2> QED BY <1>2, <2>2, SmallerFirst
<1>4. PaidOut(pots, D, Distribute(pots, ranks, dealer))
  BY <1>1, <1>3 DEF PaysPots
<1> QED BY <1>4 DEF PaidOut, Dist, Amounts

-----------------------------------------------------------------------------
(* Dealing chips out one at a time.                                        *)

LEMMA NextDivision ==
    ASSUME NEW a \in Nat, NEW n \in Nat \ {0}
    PROVE  /\ a % n = n - 1 => (a + 1) \div n = (a \div n) + 1 /\ (a + 1) % n = 0
           /\ a % n # n - 1 => (a + 1) \div n = a \div n /\ (a + 1) % n = (a % n) + 1
<1>1. PICK q \in Nat, r \in Nat : q = a \div n /\ r = a % n /\ r <= n - 1 /\ r = a - n * q
  <2>1. a \div n \in Nat /\ a % n \in 0 .. n - 1 /\ a % n = a - n * (a \div n)
    BY Division
  <2> QED BY <2>1
<1>2. PICK s \in Nat, t \in Nat : s = (a + 1) \div n /\ t = (a + 1) % n /\ t <= n - 1 /\ t = a + 1 - n * s
  <2>1. PICK c \in Nat : c = a + 1
    OBVIOUS
  <2>2. c \div n \in Nat /\ c % n \in 0 .. n - 1 /\ c % n = c - n * (c \div n)
    BY Division
  <2> QED BY <2>1, <2>2
<1>3. PICK d \in Int : d = s - q
  OBVIOUS
<1>4. n * d = r + 1 - t
  <2>1. n * d = n * s - n * q
    BY <1>3
  <2>2. n * s \in Int /\ n * q \in Int
    OBVIOUS
  <2> QED BY <1>1, <1>2, <2>1, <2>2
<1>5. d = 0 \/ d = 1
  <2>1. ~(d >= 2)
    <3> SUFFICES ASSUME d >= 2 PROVE FALSE
      OBVIOUS
    <3>1. n * d >= n * 2
      BY ONLY d >= 2, d \in Int, n \in Nat \ {0}
    <3> QED BY <1>1, <1>2, <1>4, <3>1
  <2>2. ~(d <= -1)
    <3> SUFFICES ASSUME d <= -1 PROVE FALSE
      OBVIOUS
    <3>1. n * d <= n * (-1)
      BY ONLY d <= -1, d \in Int, n \in Nat \ {0}
    <3> QED BY <1>1, <1>2, <1>4, <3>1
  <2> QED BY <2>1, <2>2
<1>6. CASE d = 0
  <2>1. t = r + 1 /\ s = q
    BY <1>3, <1>4, <1>6
  <2> QED BY <1>1, <1>2, <2>1
<1>7. CASE d = 1
  <2>1. t = 0 /\ r = n - 1 /\ s = q + 1
    BY <1>1, <1>2, <1>3, <1>4, <1>7
  <2> QED BY <1>1, <1>2, <2>1
<1> QED BY <1>5, <1>6, <1>7

(* Of chips dealt round n places the place b gets its even part, and one   *)
(* more if the odd chips reach it.                                         *)
LEMMA DealtInTurn ==
    ASSUME NEW n \in Nat \ {0}, NEW b \in 0 .. n - 1, NEW amount \in Nat
    PROVE  Cardinality({chip \in 1 .. amount : (chip - 1) % n = b})
           = amount \div n + IF b < amount % n THEN 1 ELSE 0
<1> DEFINE mine(m) == {chip \in 1 .. m : (chip - 1) % n = b}
           due(m) == m \div n + IF b < m % n THEN 1 ELSE 0
           Good == {m \in Nat : Cardinality(mine(m)) = due(m)}
<1>1. 0 \in Good
  <2>1. mine(0) = {}
    OBVIOUS
  <2>2. 0 \div n = 0 /\ 0 % n = 0
    OBVIOUS
  <2>3. due(0) = 0
    BY <2>2
  <2>4. Cardinality(mine(0)) = 0
    BY <2>1, FS_EmptySet
  <2> QED BY <2>3, <2>4
<1>2. ASSUME NEW m \in Nat, m \in Good PROVE m + 1 \in Good
  <2>1. /\ IsFiniteSet(mine(m)) /\ Cardinality(mine(m)) = due(m) /\ m + 1 \notin mine(m)
    <3>1. IsFiniteSet(1 .. m)
      BY FirstOnes
    <3> QED BY <1>2, <3>1, FS_Subset
  <2>2. Cardinality(mine(m + 1)) = due(m) + IF m % n = b THEN 1 ELSE 0
    <3>1. 1 .. m + 1 = (1 .. m) \cup {m + 1} /\ m + 1 - 1 = m
      OBVIOUS
    <3>2. CASE m % n = b
      <4>1. mine(m + 1) = mine(m) \cup {m + 1}
        BY <3>1, <3>2
      <4>2. Cardinality(mine(m) \cup {m + 1}) = Cardinality(mine(m)) + 1
        <5> HIDE DEF mine
        <5> QED BY <2>1, FS_AddElement
      <4> QED BY <2>1, <3>2, <4>1, <4>2
    <3>3. CASE m % n # b
      <4>1. mine(m + 1) = mine(m)
        BY <3>1, <3>3
      <4>2. due(m) \in Nat
        <5>1. m \div n \in Nat
          BY Division
        <5> QED BY <5>1
      <4>3. (IF m % n = b THEN 1 ELSE 0) = 0
        BY <3>3
      <4>4. Cardinality(mine(m)) = due(m)
        BY <2>1
      <4> HIDE DEF mine, due
      <4> QED BY ONLY <4>1, <4>2, <4>3, <4>4
    <3> QED BY <3>2, <3>3
  <2>3. due(m + 1) = due(m) + IF m % n = b THEN 1 ELSE 0
    <3>1. PICK q \in Nat, r \in 0 .. n - 1 : q = m \div n /\ r = m % n
      BY Division
    <3>2. CASE r = n - 1
      <4>1. (m + 1) \div n = q + 1 /\ (m + 1) % n = 0
        <5>1. m % n = n - 1 /\ m \div n = q
          BY <3>1, <3>2
        <5> QED BY ONLY <5>1, NextDivision, m \in Nat, n \in Nat \ {0}
      <4> QED BY <3>1, <3>2, <4>1
    <3>3. CASE r # n - 1
      <4>1. (m + 1) \div n = q /\ (m + 1) % n = r + 1
        BY <3>1, <3>3, NextDivision
      <4> QED BY <3>1, <3>3, <4>1
    <3> QED BY <3>2, <3>3
  <2> QED BY <2>2, <2>3
<1>3. amount \in Good
  <2> HIDE DEF Good
  <2> QED BY <1>1, <1>2, CountingUp
<1> QED BY <1>3

(* So a winner's share of a pot is what dealing it out would give it.      *)
LEMMA ShareIsDealt ==
    ASSUME NEW amount \in Nat, NEW W \in SUBSET Seats, NEW dealer \in Seats, NEW i \in W
    PROVE  LET before == Cardinality({j \in W : Steps(dealer, j) < Steps(dealer, i)})
           IN  Share(amount, W, dealer, i)
               = Cardinality({chip \in 1 .. amount : (chip - 1) % Cardinality(W) = before})
<1> DEFINE B == {j \in W : Steps(dealer, j) < Steps(dealer, i)}
           n == Cardinality(W)
           b == Cardinality(B)
<1>1. IsFiniteSet(W) /\ IsFiniteSet(W \ {i}) /\ n \in Nat \ {0}
  BY RingFinite, FS_EmptySet, FS_CardinalityType
<1>2. B \subseteq W \ {i}
  BY StepsApart
<1>3. b \in Nat /\ b <= n - 1
  <2>1. b <= Cardinality(W \ {i}) /\ b \in Nat
    <3> HIDE DEF B
    <3> QED BY <1>1, <1>2, FS_Subset, FS_CardinalityType
  <2>2. Cardinality(W \ {i}) = n - 1
    BY <1>1, OneFewer
  <2> QED BY <2>1, <2>2
<1>4. b \in 0 .. n - 1
  BY <1>1, <1>3
<1>5. Share(amount, W, dealer, i) = amount \div n + IF b < amount % n THEN 1 ELSE 0
  BY DEF Share
<1> HIDE DEF n, b
<1>6. Cardinality({chip \in 1 .. amount : (chip - 1) % n = b})
      = amount \div n + IF b < amount % n THEN 1 ELSE 0
  BY <1>1, <1>4, DealtInTurn
<1> QED BY <1>5, <1>6 DEF n, b

(* What a seat gets of a pot. *)
Part(ranks, dealer, pot, i) ==
    IF i \in Winners(pot, ranks) THEN Share(pot.amount, Winners(pot, ranks), dealer, i) ELSE 0

LEMMA PartIs ==
    ASSUME NEW ranks \in [Seats -> Int], NEW dealer \in Seats, NEW given \in Dist, NEW pot \in Pot,
           NEW i \in Seats
    PROVE  /\ Part(ranks, dealer, pot, i) \in Nat
           /\ PayPot(ranks, dealer, given, pot).payouts[i] = given.payouts[i] + Part(ranks, dealer, pot, i)
<1> DEFINE W == Winners(pot, ranks)
           paid == PayPot(ranks, dealer, given, pot)
<1>1. /\ given.payouts \in [Seats -> Nat] /\ given.unclaimed \in Nat
      /\ pot.amount \in Nat /\ W \in SUBSET Seats
  BY WinnersAre DEF Dist, Pot
<1>2. CASE W = {}
  <2>1. paid = [given EXCEPT !.unclaimed = @ + pot.amount]
    BY <1>2 DEF PayPot
  <2>2. paid.payouts = given.payouts
    BY <1>1, <2>1 DEF Dist
  <2>3. Part(ranks, dealer, pot, i) = 0
    BY <1>2 DEF Part
  <2> QED BY <1>1, <2>2, <2>3
<1>3. CASE W # {}
  <2> DEFINE part == [j \in Seats |-> IF j \in W THEN Share(pot.amount, W, dealer, j) ELSE 0]
  <2>1. paid = [given EXCEPT !.payouts = [j \in Seats |-> @[j] + part[j]]]
    BY <1>3 DEF PayPot
  <2>2. paid.payouts[i] = given.payouts[i] + part[i]
    <3> HIDE DEF part, paid
    <3> QED BY <1>1, <2>1 DEF Dist
  <2>3. part[i] \in Nat
    BY <1>1, <1>3, SharesAddUp
  <2>4. Part(ranks, dealer, pot, i) = part[i]
    BY DEF Part
  <2> QED BY <2>2, <2>3, <2>4
<1> QED BY <1>2, <1>3

(* distribute adds up the parts. *)
LEMMA PartsArePaid ==
    ASSUME NEW pots \in Seq(Pot), NEW ranks \in [Seats -> Int], NEW dealer \in Seats, NEW i \in Seats
    PROVE  Distribute(pots, ranks, dealer).payouts[i]
           = SumFunctionOnSet([k \in 1 .. Len(pots) |-> Part(ranks, dealer, pots[k], i)], 1 .. Len(pots))
<1> DEFINE D == 1 .. Len(pots)
           part == [k \in D |-> Part(ranks, dealer, pots[k], i)]
<1>1. PICK H : PaysPots(H, pots, ranks, dealer)
  BY PotsAreRun
<1>2. D \in SUBSET Int /\ IsFiniteSet(D) /\ \A k \in D : pots[k] \in Pot
  <2>1. Len(pots) \in Nat
    OBVIOUS
  <2> QED BY <2>1, FirstOnes
<1>3. \A k \in D : part[k] \in Nat /\ part[k] = Part(ranks, dealer, pots[k], i)
  <2>1. NothingYet \in Dist
    BY DEF NothingYet, Dist
  <2> QED BY <1>2, <2>1, PartIs
<1> DEFINE Good == {T \in SUBSET D : H[T] \in Dist /\ H[T].payouts[i] = SumFunctionOnSet(part, T)}
<1> HIDE DEF part
<1>4. ASSUME NEW T \in SUBSET D, \A U \in SUBSET T : U # T => U \in Good
      PROVE  T \in Good
  <2>1. CASE T = {}
    <3>1. H[T] = NothingYet
      BY <1>1, <2>1 DEF PaysPots
    <3>2. NothingYet \in Dist /\ NothingYet.payouts[i] = 0
      BY DEF NothingYet, Dist
    <3>3. SumFunctionOnSet(part, T) = 0
      BY <2>1, SumEmpty
    <3> QED BY <3>1, <3>2, <3>3
  <2>2. CASE T # {}
    <3> DEFINE k == Max(T)
               U == T \ {k}
    <3>1. k \in T /\ IsFiniteSet(T)
      <4> HIDE DEF D
      <4> QED BY <1>2, <2>2, MaxIn, FS_Subset
    <3>2. H[U] \in Dist /\ H[U].payouts[i] = SumFunctionOnSet(part, U)
      <4>1. U \in Good
        BY <1>4, <3>1
      <4> QED BY <4>1
    <3>3. H[T] = PayPot(ranks, dealer, H[U], pots[k])
      BY <1>1, <2>2 DEF PaysPots
    <3> HIDE DEF k, U, D
    <3>4. k \in D /\ pots[k] \in Pot
      BY <1>2, <3>1
    <3>5. H[T] \in Dist
      BY <3>2, <3>3, <3>4, PayPotIs
    <3>8. H[T].payouts[i] = H[U].payouts[i] + part[k]
      <4>1. part[k] = Part(ranks, dealer, pots[k], i)
        BY <1>3, <3>4
      <4>2. PayPot(ranks, dealer, H[U], pots[k]).payouts[i]
            = H[U].payouts[i] + Part(ranks, dealer, pots[k], i)
        BY <3>2, <3>4, PartIs
      <4> QED BY <3>3, <4>1, <4>2
    <3>6. SumFunctionOnSet(part, T) = part[k] + SumFunctionOnSet(part, U)
      <4>1. \A x \in T : part[x] \in Int
        BY <1>3
      <4> QED BY <3>1, <4>1, SumTakeOut DEF U
    <3>7. SumFunctionOnSet(part, U) \in Int /\ part[k] \in Int
      <4>1. H[U].payouts[i] \in Nat
        BY <3>2 DEF Dist
      <4> QED BY <1>3, <3>1, <3>2, <4>1
    <3> QED BY <3>2, <3>5, <3>6, <3>7, <3>8
  <2> QED BY <2>1, <2>2
<1>5. D \in Good
  <2> HIDE DEF Good, D
  <2> QED BY <1>2, <1>4, SmallerFirst
<1> QED BY <1>1, <1>5 DEF PaysPots, part

-----------------------------------------------------------------------------
(* The rake.                                                               *)

Raked == [payouts : [Seats -> Nat], taken : Nat, largest : Seats]

(* A share of less than the whole is less than what it is a share of. *)
LEMMA ShareOfRake ==
    ASSUME NEW paid \in Nat, NEW rake \in Nat, rake < paid, NEW x \in Nat, x > 0
    PROVE  (rake * x) \div paid \in Nat /\ (rake * x) \div paid < x
<1> DEFINE share == (rake * x) \div paid
           product == rake * x
<1>1. product \in Nat /\ paid > 0
  OBVIOUS
<1>2. share \in Nat /\ paid * share <= product
  <2> HIDE DEF product
  <2> QED BY <1>1 DEF product
<1>3. rake * x < paid * x
  OBVIOUS
<1> HIDE DEF share
<1>4. ~(share >= x)
  <2> SUFFICES ASSUME share >= x PROVE FALSE
    OBVIOUS
  <2>1. paid * share >= paid * x
    BY <1>1, <1>2
  <2> QED BY <1>1, <1>2, <1>3, <2>1
<1>5. share < x
  BY <1>2, <1>4
<1> QED BY <1>2, <1>5 DEF share

(* Chips go from one seat to the house. *)
LEMMA TotalLess ==
    ASSUME NEW f \in [Seats -> Nat], NEW i \in Seats, NEW c \in Nat, c <= f[i]
    PROVE  /\ [f EXCEPT ![i] = @ - c] \in [Seats -> Nat]
           /\ Total([f EXCEPT ![i] = @ - c]) = Total(f) - c
<1> DEFINE g == [f EXCEPT ![i] = @ - c]
<1>1. g \in [Seats -> Nat] /\ g[i] = f[i] - c /\ \A j \in Seats : j # i => g[j] = f[j]
  OBVIOUS
<1> HIDE DEF g
<1>2. Total(g) = Total(f) - f[i] + g[i]
  <2>1. g[i] \in Int /\ \A j \in Seats : f[j] \in Int /\ (j # i => g[j] = f[j])
    BY <1>1
  <2> QED BY <2>1, RingFinite, SumChange DEF Total
<1>3. Total(f) \in Nat
  BY TotalNat
<1>4. Total(g) = Total(f) - c
  BY <1>1, <1>2, <1>3
<1> QED BY <1>1, <1>4 DEF g

(* Charging one seat. *)
LEMMA ChargeIs ==
    ASSUME NEW rake \in Nat, NEW paid \in Nat, rake < paid, NEW kept \in Raked, NEW i \in Seats
    PROVE  LET charged == Charge(rake, paid, kept, i)
           IN  /\ charged \in Raked
               /\ Total(charged.payouts) + charged.taken = Total(kept.payouts) + kept.taken
               /\ \A j \in Seats : charged.payouts[j] = 0 <=> kept.payouts[j] = 0
<1> DEFINE charged == Charge(rake, paid, kept, i)
           x == kept.payouts[i]
           share == (rake * x) \div paid
<1>1. kept.payouts \in [Seats -> Nat] /\ kept.taken \in Nat /\ kept.largest \in Seats /\ x \in Nat
  BY DEF Raked
<1>2. CASE x = 0
  BY <1>2 DEF Charge
<1>3. CASE x # 0
  <2>1. share \in Nat /\ share < x
    <3> HIDE DEF x
    <3>1. x > 0
      BY <1>1, <1>3
    <3> QED BY <1>1, <3>1, ShareOfRake
  <2>2. PICK l \in Seats :
           charged = [payouts |-> [kept.payouts EXCEPT ![i] = @ - share],
                      taken |-> kept.taken + share, largest |-> l]
    BY <1>1, <1>3 DEF Charge
  <2> HIDE DEF share
  <2>3. /\ [kept.payouts EXCEPT ![i] = @ - share] \in [Seats -> Nat]
        /\ Total([kept.payouts EXCEPT ![i] = @ - share]) = Total(kept.payouts) - share
    BY <1>1, <2>1, TotalLess
  <2>4. Total(kept.payouts) \in Nat
    BY <1>1, TotalNat
  <2>5. charged \in Raked
    BY <1>1, <2>1, <2>2, <2>3 DEF Raked
  <2>6. \A j \in Seats : charged.payouts[j] = 0 <=> kept.payouts[j] = 0
    BY <1>1, <1>3, <2>1, <2>2
  <2>7. Total(charged.payouts) + charged.taken = Total(kept.payouts) + kept.taken
    BY <1>1, <2>1, <2>2, <2>3, <2>4
  <2> HIDE DEF charged
  <2> QED BY <2>5, <2>6, <2>7 DEF charged
<1> QED BY <1>2, <1>3

(* The loop of settle_hand is a run over the seats. *)
Untouched(payouts) == [payouts |-> payouts, taken |-> 0, largest |-> 0]

ChargedInTurn(payouts, rake) ==
    FoldLeft(LAMBDA kept, i : Charge(rake, Total(payouts), kept, i),
             Untouched(payouts), [k \in 1 .. MaxSeats |-> k - 1])

ChargesSeats(H, payouts, rake) ==
    /\ ChargedInTurn(payouts, rake) = H[1 .. MaxSeats]
    /\ \A T \in SUBSET (1 .. MaxSeats) :
          H[T] = IF T = {} THEN Untouched(payouts)
                 ELSE Charge(rake, Total(payouts), H[T \ {Max(T)}], Max(T) - 1)

LEMMA TurnsOfSeats ==
    /\ 1 .. MaxSeats \in SUBSET Int /\ IsFiniteSet(1 .. MaxSeats)
    /\ \A k \in 1 .. MaxSeats : k - 1 \in Seats
    /\ \A T \in SUBSET (1 .. MaxSeats) : T # {} => Max(T) \in T
<1>1. 1 \in Int /\ MaxSeats \in Int
  BY SeatsAssumption
<1>2. 1 .. MaxSeats \in SUBSET Int /\ IsFiniteSet(1 .. MaxSeats)
  BY <1>1, FS_Interval
<1>3. \A k \in 1 .. MaxSeats : k - 1 \in Seats
  BY <1>1 DEF Seats
<1>4. \A T \in SUBSET (1 .. MaxSeats) : T # {} => Max(T) \in T
  BY <1>2, MaxIn, FS_Subset
<1> QED BY <1>2, <1>3, <1>4

LEMMA ChargesAreRun ==
    ASSUME NEW payouts \in [Seats -> Nat], NEW rake \in Nat, rake < Total(payouts)
    PROVE  \E H : ChargesSeats(H, payouts, rake)
<1> DEFINE D == 1 .. MaxSeats
           paid == Total(payouts)
           seq == [k \in 1 .. MaxSeats |-> k - 1]
           step == [p \in D \X Raked |-> Charge(rake, paid, p[2], p[1] - 1)]
           body(G) == [T \in SUBSET D |->
                          IF T = {} THEN Untouched(payouts)
                          ELSE Charge(rake, paid, G[T \ {Max(T)}], seq[Max(T)])]
<1>1. paid \in Nat
  BY TotalNat
<1>2. step \in [D \X Raked -> Raked]
  <2> HIDE DEF paid
  <2>1. \A k \in D, r \in Raked : Charge(rake, paid, r, k - 1) \in Raked
    BY <1>1, TurnsOfSeats, ChargeIs DEF paid
  <2> QED BY <2>1
<1>3. PICK G \in [SUBSET D -> Raked] : FoldsUp(G, D, Untouched(payouts), step)
  <2>1. Untouched(payouts) \in Raked
    BY SeatsAssumption DEF Untouched, Raked, Seats
  <2>2. D \in SUBSET Int /\ IsFiniteSet(D)
    BY TurnsOfSeats
  <2> HIDE DEF D, step
  <2> QED BY <1>2, <2>1, <2>2, FoldHasValue
<1>4. ASSUME NEW T \in SUBSET D, T # {}
      PROVE  G[T] = Charge(rake, paid, G[T \ {Max(T)}], seq[Max(T)])
  <2>1. Max(T) \in D
    BY <1>4, TurnsOfSeats
  <2>2. <<Max(T), G[T \ {Max(T)}]>> \in D \X Raked /\ seq[Max(T)] = Max(T) - 1
    BY <2>1
  <2> QED BY <1>3, <1>4, <2>2 DEF FoldsUp
<1>5. G = body(G)
  BY <1>3, <1>4 DEF FoldsUp
<1> DEFINE H == CHOOSE H : H = body(H)
<1>6. H = body(H)
  BY <1>5
<1>7. ChargedInTurn(payouts, rake) = H[D]
  <2>1. DOMAIN seq = D
    OBVIOUS
  <2> QED BY <2>1 DEF ChargedInTurn, FoldLeft, MapThenFoldSet
<1> HIDE DEF H
<1>8. \A T \in SUBSET D : T # {} => seq[Max(T)] = Max(T) - 1
  BY TurnsOfSeats
<1>9. ChargesSeats(H, payouts, rake)
  BY <1>6, <1>7, <1>8 DEF ChargesSeats
<1> QED BY <1>9

(* Whoever was paid something is left something. *)
ChargedFairly(payouts, kept) ==
    /\ kept \in Raked
    /\ Total(kept.payouts) + kept.taken = Total(payouts)
    /\ \A i \in Seats : kept.payouts[i] = 0 <=> payouts[i] = 0

LEMMA ChargedIs ==
    ASSUME NEW payouts \in [Seats -> Nat], NEW rake \in Nat, rake < Total(payouts)
    PROVE  ChargedFairly(payouts, ChargedInTurn(payouts, rake))
<1> DEFINE D == 1 .. MaxSeats
           paid == Total(payouts)
<1>1. PICK H : ChargesSeats(H, payouts, rake)
  BY ChargesAreRun
<1>2. paid \in Nat
  BY TotalNat
<1> DEFINE Good == {T \in SUBSET D : ChargedFairly(payouts, H[T])}
<1>3. ASSUME NEW T \in SUBSET D, \A U \in SUBSET T : U # T => U \in Good
      PROVE  T \in Good
  <2>1. CASE T = {}
    <3>1. H[T] = Untouched(payouts)
      BY <1>1, <2>1 DEF ChargesSeats
    <3>2. Untouched(payouts) \in Raked
      BY SeatsAssumption DEF Untouched, Raked, Seats
    <3>3. Untouched(payouts).payouts = payouts /\ Untouched(payouts).taken = 0
      BY DEF Untouched
    <3>4. ChargedFairly(payouts, Untouched(payouts))
      BY <1>2, <3>2, <3>3 DEF ChargedFairly
    <3> QED BY <3>1, <3>4
  <2>2. CASE T # {}
    <3> DEFINE before == H[T \ {Max(T)}]
    <3>1. Max(T) \in T /\ Max(T) - 1 \in Seats
      BY <2>2, TurnsOfSeats
    <3>2. ChargedFairly(payouts, before)
      <4>1. T \ {Max(T)} \in Good
        BY <1>3, <3>1
      <4> QED BY <4>1
    <3>3. H[T] = Charge(rake, paid, before, Max(T) - 1)
      BY <1>1, <2>2 DEF ChargesSeats
    <3> HIDE DEF before
    <3>4. before \in Raked
      BY <3>2 DEF ChargedFairly
    <3>5. /\ H[T] \in Raked
          /\ Total(H[T].payouts) + H[T].taken = Total(before.payouts) + before.taken
          /\ \A j \in Seats : H[T].payouts[j] = 0 <=> before.payouts[j] = 0
      <4> DEFINE i == Max(T) - 1
      <4>1. i \in Seats /\ H[T] = Charge(rake, paid, before, i)
        BY <3>1, <3>3
      <4> HIDE DEF i, Good
      <4> QED BY <1>2, <3>4, <4>1, ChargeIs
    <3>6. ChargedFairly(payouts, H[T])
      BY <3>2, <3>5 DEF ChargedFairly
    <3> QED BY <3>6
  <2> QED BY <2>1, <2>2
<1>4. D \in Good
  <2> HIDE DEF Good, D
  <2>1. IsFiniteSet(D)
    BY TurnsOfSeats DEF D
  <2> QED BY <1>3, <2>1, SmallerFirst
<1> QED BY <1>1, <1>4 DEF ChargesSeats

(* The rake takes nothing that was not paid and leaves the winners         *)
(* something: what they keep and what is taken are what they were paid, to *)
(* a chip, and nobody else pays or gets any (the loop of settle_hand).     *)
THEOREM RakeIsTaken ==
    ASSUME NEW payouts \in [Seats -> Nat], NEW rake \in Nat,
           rake < Total(payouts) \/ rake = 0
    PROVE  LET kept == TakeRake(payouts, rake)
           IN  /\ kept.payouts \in [Seats -> Nat] /\ kept.taken \in Nat
               /\ Total(kept.payouts) + kept.taken = Total(payouts)
               /\ \A i \in Seats : payouts[i] = 0 => kept.payouts[i] = 0
               /\ Total(payouts) > 0 => \E i \in Seats : kept.payouts[i] > 0
<1> DEFINE kept == TakeRake(payouts, rake)
           charged == ChargedInTurn(payouts, rake)
           remainder == rake - charged.taken
<1>1. Total(payouts) \in Nat
  BY TotalNat
<1>2. ASSUME NEW f \in [Seats -> Nat], Total(f) > 0 PROVE \E i \in Seats : f[i] > 0
  <2>1. ~\A i \in Seats : f[i] = 0
    BY <1>2, TotalZero
  <2> QED BY <2>1
<1>3. CASE rake = 0
  <2>1. kept.payouts = payouts /\ kept.taken = 0
    BY <1>3 DEF TakeRake
  <2> HIDE DEF kept
  <2>2. Total(kept.payouts) + kept.taken = Total(payouts)
    BY <1>1, <2>1
  <2> QED BY <1>2, <2>1, <2>2 DEF kept
<1>4. CASE rake # 0
  <2>1. rake < Total(payouts) /\ rake > 0 /\ Total(payouts) > 0
    BY <1>1, <1>4
  <2>2. kept = TakeRemainder(charged, remainder)
    BY <2>1 DEF TakeRake, ChargedInTurn, Untouched
  <2>3. ChargedFairly(payouts, charged)
    BY <2>1, ChargedIs
  <2> HIDE DEF charged
  <2>4. /\ charged.payouts \in [Seats -> Nat] /\ charged.taken \in Nat /\ charged.largest \in Seats
        /\ charged \in Raked
        /\ Total(charged.payouts) + charged.taken = Total(payouts)
        /\ \A i \in Seats : charged.payouts[i] = 0 <=> payouts[i] = 0
        /\ Total(charged.payouts) \in Nat
    BY <2>3, TotalNat DEF ChargedFairly, Raked
  <2>5. CASE remainder > 0 /\ charged.payouts[charged.largest] >= remainder
    <3> DEFINE less == [charged.payouts EXCEPT ![charged.largest] = @ - remainder]
    <3>1. kept = [charged EXCEPT !.payouts[charged.largest] = @ - remainder, !.taken = @ + remainder]
      BY <2>2, <2>5 DEF TakeRemainder
    <3>2. kept.payouts = less /\ kept.taken = charged.taken + remainder
      BY <2>4, <3>1 DEF Raked
    <3>3. remainder \in Nat /\ remainder <= charged.payouts[charged.largest]
      BY <2>4, <2>5
    <3> HIDE DEF remainder
    <3>4. less \in [Seats -> Nat] /\ Total(less) = Total(charged.payouts) - remainder
      BY <2>4, <3>3, TotalLess
    <3>5. \A i \in Seats : payouts[i] = 0 => less[i] = 0
      <4> SUFFICES ASSUME NEW i \in Seats, payouts[i] = 0 PROVE less[i] = 0
        OBVIOUS
      <4>1. charged.payouts[i] = 0
        BY <2>4
      <4>2. i # charged.largest
        BY <2>5, <3>3, <4>1
      <4> QED BY <2>4, <4>1, <4>2
    <3> HIDE DEF less, kept
    <3>6. kept.taken = rake
      BY <2>4, <3>2 DEF remainder
    <3>7. Total(kept.payouts) + kept.taken = Total(payouts)
      BY <2>4, <3>2, <3>3, <3>4
    <3>8. Total(kept.payouts) > 0
      <4>1. Total(kept.payouts) \in Nat
        BY <3>2, <3>4, TotalNat
      <4> QED BY <1>1, <2>1, <3>6, <3>7, <4>1
    <3>9. \E i \in Seats : kept.payouts[i] > 0
      BY <1>2, <3>2, <3>4, <3>8
    <3> QED BY <2>4, <3>2, <3>3, <3>4, <3>5, <3>7, <3>9 DEF kept
  <2>6. CASE ~(remainder > 0 /\ charged.payouts[charged.largest] >= remainder)
    <3>1. kept = charged
      BY <2>2, <2>6 DEF TakeRemainder
    <3> HIDE DEF kept
    <3>2. PICK i \in Seats : payouts[i] > 0
      BY <1>2, <2>1
    <3>3. charged.payouts[i] > 0
      BY <2>4, <3>2
    <3> QED BY <2>4, <3>1, <3>3 DEF kept
  <2> QED BY <2>5, <2>6
<1> QED BY <1>3, <1>4

(* rake_for never asks for the whole pot. *)
LEMMA RakeForIs ==
    ASSUME NEW pot \in Nat, NEW bigBlind \in Nat, NEW flop
    PROVE  /\ RakeFor(pot, bigBlind, flop) \in Nat
           /\ RakeFor(pot, bigBlind, flop) < pot \/ RakeFor(pot, bigBlind, flop) = 0
<1> DEFINE part == (pot * RakeBps) \div 10000
           cap == bigBlind * RakeCapBB
           product == pot * RakeBps
<1>1. RakeBps \in Nat /\ RakeBps < 10000 /\ RakeCapBB \in Nat /\ RakeFreeBB \in Nat
  BY RakeAssumption
<1>2. product \in Nat /\ cap \in Nat
  BY <1>1
<1>3. part \in Nat /\ 10000 * part <= product
  <2> HIDE DEF product
  <2> QED BY <1>2 DEF product
<1>4. pot > 0 => product < 10000 * pot
  BY <1>1
<1>5. pot = 0 => product = 0
  BY <1>1
<1> HIDE DEF product
<1>6. part < pot \/ part = 0
  <2> HIDE DEF part
  <2> QED BY <1>2, <1>3, <1>4, <1>5
<1> HIDE DEF part, cap
<1>7. RakeFor(pot, bigBlind, flop) \in {0, Lesser(Lesser(part, cap), pot)}
  BY DEF RakeFor, part, cap
<1> QED BY <1>2, <1>3, <1>6, <1>7 DEF Lesser

-----------------------------------------------------------------------------
(***************************************************************************)
(* 3. The hand                                                             *)
(***************************************************************************)

-----------------------------------------------------------------------------
(* The inductive invariant.                                                *)

HandTypes ==
    /\ tableState \in {"Waiting", "HandInProgress"}
    /\ handNumber \in Nat
    /\ dealtIn \subseteq Seats
    /\ deckCards \in Nat
    /\ nextIndex \in Nat
    /\ holeHand \in [Seats -> Nat]
    /\ holeCards \in [Seats -> Nat]
    /\ secured \in [Seats -> BOOLEAN]
    /\ rakeAccrued \in Nat

(* Between hands nothing moves: no turn, no street that can be closed (the *)
(* first hand finds no board and no deck to show one from), nobody dealt   *)
(* in. In a hand the seats dealt in are the seats of the engine, somebody  *)
(* is left to win, and the deck is ordered for this hand.                  *)
Lifecycle ==
    /\ ~InProgress => /\ dealtIn = {} /\ CleanBetweenHands
                      /\ street = Showdown \/ boardLen = 0
    /\ InProgress => /\ dealtIn = {i \in Seats : inHand[i]}
                     /\ Contesting # {}
                     /\ deckCards = handNumber

(* Seats that show cards. *)
Holders == {i \in Seats : holeCards[i] # NoCard}

(* The hole accounts are stamped all together: either every one carries    *)
(* this hand's number, or none does yet and nothing has been dealt.        *)
Stamps ==
    \/ \A i \in Seats : holeHand[i] = handNumber
    \/ /\ \A i \in Seats : holeHand[i] < handNumber
       /\ Holders = {} /\ nextIndex = 0

(* Seats still contesting that have put nothing in. *)
Unpaid == {i \in Contesting : totalCommitted[i] = 0}

(* While somebody has paid nothing there is a bet for it to match, it owes *)
(* an action, and a seat that has paid has its turn after it: the one big  *)
(* blind cannot fold before everybody in front of it has paid or folded.   *)
BlindOutlasts ==
    Unpaid # {} =>
        /\ currentBet > 0
        /\ toAct # NoSeat
        /\ Unpaid \subseteq Owing
        /\ \E b \in Contesting \ Unpaid : \A i \in Unpaid : Steps(b, toAct) <= Steps(b, i)

HandIInv == /\ IInv
            /\ HandTypes
            /\ Lifecycle
            /\ Stamps
            /\ DealtOnce
            /\ BlindOutlasts

-----------------------------------------------------------------------------
(* The betting inside a hand.                                              *)

(* Going on round the table from i, nobody before z is nearer to b than z. *)
LEMMA OnTheWay ==
    ASSUME NEW b \in Seats, NEW i \in Seats, NEW z \in Seats, NEW next \in Seats,
           b # z, i # z, i # b, Steps(b, i) <= Steps(b, z), Steps(i, next) <= Steps(i, z)
    PROVE  Steps(b, next) <= Steps(b, z)
BY SeatsAssumption DEF Steps, Seats

(* FirstAfter finds a nearest seat. *)
LEMMA FirstAfterNearest ==
    ASSUME NEW from \in Seats, NEW S \in SUBSET Seats, NEW i \in S
    PROVE  Steps(from, FirstAfter(from, S)) <= Steps(from, i)
<1> DEFINE D == {Steps(from, j) : j \in S}
<1>1. D \in SUBSET Nat /\ D # {}
  BY SeatsAssumption DEF Steps, Seats
<1>2. PICK m \in D : \A k \in D : m <= k
  BY <1>1, LeastNat
<1>3. PICK j \in S : m = Steps(from, j)
  BY <1>2
<1>4. \A k \in S : Steps(from, j) <= Steps(from, k)
  BY <1>2, <1>3
<1> QED BY <1>4 DEF FirstAfter

(* While the hand goes on and somebody owes an action, the turn is his who *)
(* comes first.                                                            *)
LEMMA TurnOfFirst ==
    ASSUME NEW from \in Seats, Owing' # {}, ~HandIsOver'
    PROVE  NextToAct(from)' = FirstAfter(from, Owing')
<1> DEFINE next == FirstAfter(from, Owing)
<1>1. Owing' \in SUBSET Seats
  BY DEF Owing, Active
<1>2. next' \in Owing'
  BY <1>1, FirstAfterIn
<1>3. needsAction'[next'] /\ next' # NoSeat
  BY <1>2, SeatsAssumption DEF Owing, Active, Seats, NoSeat
<1> HIDE DEF next
<1>4. NextToAct(from)' =
        IF HandIsOver' \/ next' = NoSeat THEN NoSeat
        ELSE IF /\ \A i \in Active' : i = next'
                /\ streetCommitted'[next'] >= currentBet'
                /\ ~needsAction'[next']
             THEN NoSeat ELSE next'
  BY DEF NextToAct, next
<1> QED BY <1>3, <1>4 DEF next

(* begin_hand deals in the seats with chips, and the big blind has paid. *)
LEMMA BeginHandOutlasts ==
    ASSUME NEW stacks \in [Seats -> Nat], NEW btn \in Seats, BeginHand(stacks, btn)
    PROVE  /\ {i \in Seats : inHand[i]}' = {i \in Seats : stacks[i] > 0}
           /\ Contesting' # {}
           /\ BlindOutlasts'
<1> DEFINE players == {i \in Seats : stacks[i] > 0}
<1>1. PICK sb \in players, bb \in players :
        /\ Cardinality(players) >= 2
        /\ streetCommitted' =
              [i \in Seats |-> IF i = bb THEN Lesser(BigBlind, stacks[i])
                               ELSE IF i = sb THEN Lesser(SmallBlind, stacks[i])
                               ELSE 0]
        /\ totalCommitted' = streetCommitted'
        /\ stack' = [i \in Seats |-> stacks[i] - streetCommitted'[i]]
        /\ inHand' = [i \in Seats |-> i \in players]
        /\ folded' = [i \in Seats |-> FALSE]
        /\ allIn' = [i \in Seats |-> i \in players /\ stack'[i] = 0]
        /\ needsAction' = [i \in Seats |-> i \in players /\ stack'[i] > 0]
        /\ currentBet' = BigBlind
        /\ toAct' = NextToAct(bb)'
  BY DEF BeginHand
<1>2. players \subseteq Seats /\ \A i \in players : i \in Seats /\ stacks[i] > 0
  OBVIOUS
<1> HIDE DEF players
<1>3. Contesting' = players
  BY <1>1, <1>2 DEF Contesting, IsInHand
<1>4. {i \in Seats : inHand[i]}' = players
  BY <1>1, <1>2
<1>5. totalCommitted'[bb] > 0
  BY <1>1, <1>2, BlindsAssumption DEF Lesser
<1>6. ASSUME NEW i \in Unpaid' PROVE i \in Owing' /\ i \in players /\ i # bb
  <2>1. i \in players /\ totalCommitted'[i] = 0
    BY <1>3 DEF Unpaid
  <2>2. stack'[i] > 0
    <3>1. streetCommitted'[i] = 0 /\ stack'[i] = stacks[i] - streetCommitted'[i]
      BY <1>1, <1>2, <2>1
    <3> QED BY <1>2, <2>1, <3>1
  <2>3. inHand'[i] /\ ~folded'[i] /\ ~allIn'[i] /\ needsAction'[i]
    <3>1. i \in Seats /\ ~(stack'[i] = 0)
      BY <1>2, <2>1, <2>2
    <3>2. allIn'[i] = (i \in players /\ stack'[i] = 0)
      BY <1>1, <3>1
    <3>3. needsAction'[i] = (i \in players /\ stack'[i] > 0)
      BY <1>1, <3>1
    <3>4. inHand'[i] /\ ~folded'[i]
      BY <1>1, <2>1, <3>1
    <3> QED BY <2>1, <2>2, <3>1, <3>2, <3>3, <3>4
  <2> QED BY <1>2, <1>5, <2>1, <2>3 DEF Owing, Active, IsActive
<1>7. BlindOutlasts'
  <2> SUFFICES ASSUME Unpaid' # {}
               PROVE  /\ currentBet' > 0 /\ toAct' # NoSeat /\ Unpaid' \subseteq Owing'
                      /\ \E b \in Contesting' \ Unpaid' :
                            \A i \in Unpaid' : Steps(b, toAct') <= Steps(b, i)
    BY DEF BlindOutlasts
  <2>1. PICK z \in Unpaid' : TRUE
    OBVIOUS
  <2>2. ~HandIsOver' /\ Owing' # {} /\ Owing' \in SUBSET Seats
    BY <1>3, <1>6, <2>1 DEF HandIsOver, Owing, Active
  <2>3. toAct' = FirstAfter(bb, Owing')
    BY <1>1, <1>2, <2>2, TurnOfFirst
  <2>4. toAct' \in Owing'
    BY <1>2, <2>2, <2>3, FirstAfterIn
  <2>5. \A i \in Unpaid' : Steps(bb, toAct') <= Steps(bb, i)
    BY <1>2, <1>6, <2>2, <2>3, FirstAfterNearest
  <2>6. bb \in Contesting' \ Unpaid'
    BY <1>3, <1>5 DEF Unpaid
  <2>7. toAct' # NoSeat
    BY <2>4, SeatsAssumption DEF Owing, Active, Seats, NoSeat
  <2> QED BY <1>1, <1>6, <2>5, <2>6, <2>7, BlindsAssumption
<1>8. Contesting' # {}
  BY <1>1, <1>3
<1> QED BY <1>4, <1>7, <1>8 DEF players

(* What the five actions of a seat have in common: the seat's own entry    *)
(* moves, it folds or has matched something, others keep what they owe.    *)
Moves(i) ==
    /\ toAct = i /\ toAct' = NextToAct(i)' /\ i \in Active
    /\ UNCHANGED <<inHand, street, button>>
    /\ currentBet' >= currentBet
    /\ \A j \in Seats : totalCommitted'[j] >= totalCommitted[j]
    /\ \A j \in Seats : j # i => /\ folded'[j] = folded[j]
                                 /\ allIn'[j] = allIn[j]
                                 /\ j \in Owing => needsAction'[j]
    /\ currentBet > 0 => folded'[i] \/ totalCommitted'[i] > 0

LEMMA CallMoves ==
    ASSUME IInv, NEW i \in Seats, Call(i)
    PROVE  Moves(i)
<1> USE DEF IInv
<1> DEFINE paid == CallAmount(i)
<1>1. /\ toAct = i /\ IsActive(i) /\ Owed(i) > 0 /\ Pay(i, paid)
      /\ needsAction' = [needsAction EXCEPT ![i] = FALSE]
      /\ UNCHANGED <<inHand, folded, button, street, currentBet>>
      /\ toAct' = NextToAct(i)'
  BY DEF Call, MayAct
<1>2. stack[i] > 0
  BY <1>1 DEF IsActive, Accounts, TypeOK
<1>3. paid \in Nat /\ paid > 0
  BY <1>1, <1>2 DEF CallAmount, Lesser, Owed, TypeOK
<1> HIDE DEF paid
<1>4. /\ \A j \in Seats : totalCommitted'[j] >= totalCommitted[j]
      /\ \A j \in Seats : j # i => allIn'[j] = allIn[j]
      /\ totalCommitted'[i] > 0
  BY <1>1, <1>3 DEF Pay, TypeOK
<1>5. \A j \in Seats : j # i /\ j \in Owing => needsAction'[j]
  BY <1>1 DEF Owing, TypeOK
<1>6. currentBet \in Nat
  BY DEF TypeOK
<1> QED BY <1>1, <1>4, <1>5, <1>6 DEF Moves, Active

LEMMA RaiseToMoves ==
    ASSUME IInv, NEW i \in Seats, NEW to \in Nat, RaiseTo(i, to)
    PROVE  Moves(i)
<1> USE DEF IInv
<1> DEFINE paid == to - streetCommitted[i]
<1>1. /\ toAct = i /\ IsActive(i) /\ to > currentBet /\ Pay(i, paid) /\ currentBet' = to
      /\ needsAction' = [j \in Seats |-> j # i /\ (IsActive(j) \/ needsAction[j])]
      /\ UNCHANGED <<inHand, folded, button, street>>
      /\ toAct' = NextToAct(i)'
  BY DEF RaiseTo, RaiseAllowed, MayAct
<1>2. paid \in Nat /\ paid > 0 /\ currentBet \in Nat
  BY <1>1 DEF TypeOK, Accounts
<1> HIDE DEF paid
<1>3. /\ \A j \in Seats : totalCommitted'[j] >= totalCommitted[j]
      /\ \A j \in Seats : j # i => allIn'[j] = allIn[j]
      /\ totalCommitted'[i] > 0
  BY <1>1, <1>2 DEF Pay, TypeOK
<1>4. \A j \in Seats : j # i /\ j \in Owing => needsAction'[j]
  BY <1>1 DEF Owing
<1>5. currentBet' >= currentBet
  BY <1>1, <1>2
<1> QED BY <1>1, <1>3, <1>4, <1>5 DEF Moves, Active

LEMMA ActMoves ==
    ASSUME IInv, NEW i \in Seats, Act(i)
    PROVE  Moves(i)
<1> USE DEF IInv
<1>1. currentBet \in Nat /\ \A j \in Seats : totalCommitted[j] \in Nat
  BY DEF TypeOK
<1>2. CASE Fold(i)
  <2>1. /\ toAct = i /\ IsActive(i)
        /\ folded' = [folded EXCEPT ![i] = TRUE]
        /\ needsAction' = [needsAction EXCEPT ![i] = FALSE]
        /\ UNCHANGED <<inHand, totalCommitted, allIn, button, street, currentBet>>
        /\ toAct' = NextToAct(i)'
    BY <1>2 DEF Fold, MayAct
  <2>2. folded'[i] /\ \A j \in Seats : j # i => folded'[j] = folded[j]
    BY <2>1 DEF TypeOK
  <2>3. \A j \in Seats : j # i /\ j \in Owing => needsAction'[j]
    BY <2>1 DEF Owing, TypeOK
  <2> QED BY <1>1, <2>1, <2>2, <2>3 DEF Moves, Active
<1>3. CASE Check(i)
  <2>1. /\ toAct = i /\ IsActive(i) /\ streetCommitted[i] >= currentBet
        /\ needsAction' = [needsAction EXCEPT ![i] = FALSE]
        /\ UNCHANGED <<inHand, folded, totalCommitted, allIn, button, street, currentBet>>
        /\ toAct' = NextToAct(i)'
    BY <1>3 DEF Check, MayAct
  <2>2. currentBet > 0 => totalCommitted'[i] > 0
    BY <1>1, <2>1 DEF Accounts, TypeOK
  <2>3. \A j \in Seats : j # i /\ j \in Owing => needsAction'[j]
    BY <2>1 DEF Owing, TypeOK
  <2> QED BY <1>1, <2>1, <2>2, <2>3 DEF Moves, Active
<1>4. CASE Call(i)
  BY <1>4, CallMoves
<1>5. CASE Raise(i)
  <2>1. PICK to \in currentBet + 1 .. streetCommitted[i] + stack[i] : RaiseTo(i, to)
    BY <1>5 DEF Raise
  <2>2. to \in Nat
    BY <2>1 DEF TypeOK
  <2> QED BY <2>1, <2>2, RaiseToMoves
<1>6. CASE AllIn(i)
  <2>1. streetCommitted[i] + stack[i] \in Nat
    BY DEF TypeOK
  <2> QED BY <1>4, <1>6, <2>1, RaiseToMoves DEF AllIn
<1> QED BY <1>2, <1>3, <1>4, <1>5, <1>6 DEF Act

(* An action leaves somebody to win the hand, and somebody who has paid    *)
(* behind everybody who has not.                                           *)
LEMMA ActOutlasts ==
    ASSUME IInv, IInv', BlindOutlasts, NEW i \in Seats, Act(i)
    PROVE  Contesting' # {} /\ BlindOutlasts'
<1>1. Moves(i)
  BY ActMoves
<1>2. /\ toAct = i /\ inHand' = inHand /\ i \in Contesting /\ ~HandIsOver
      /\ toAct' = NextToAct(i)'
  <2>1. i # NoSeat
    BY SeatsAssumption DEF Seats, NoSeat
  <2> QED BY <1>1, <2>1 DEF Moves, IInv, TurnIsPlayable, Active, IsActive, Contesting, IsInHand
<1>3. \A j \in Contesting : j # i => j \in Contesting'
  BY <1>1 DEF Moves, Contesting, IsInHand
<1>4. Contesting' # {}
  BY <1>2, <1>3 DEF HandIsOver
<1>5. ASSUME Unpaid' # {}
      PROVE  /\ currentBet' > 0 /\ toAct' # NoSeat /\ Unpaid' \subseteq Owing'
             /\ \E b \in Contesting' \ Unpaid' :
                   \A j \in Unpaid' : Steps(b, toAct') <= Steps(b, j)
  <2>1. \A j \in Unpaid' : j \in Unpaid /\ j \in Seats /\ (j # i => j \in Owing)
    <3>1. ASSUME NEW j \in Unpaid' PROVE j \in Unpaid
      <4>1. j \in Seats /\ inHand'[j] /\ ~folded'[j] /\ totalCommitted'[j] = 0
        BY DEF Unpaid, Contesting, IsInHand
      <4>2. totalCommitted[j] = 0
        BY <1>1, <4>1 DEF Moves, IInv, TypeOK
      <4>3. j # i => folded'[j] = folded[j]
        BY <1>1, <4>1 DEF Moves
      <4> QED BY <1>2, <4>1, <4>2, <4>3 DEF Unpaid, Contesting, IsInHand
    <3> QED BY <3>1 DEF BlindOutlasts, Unpaid, Contesting
  <2>2. PICK b \in Contesting \ Unpaid : \A j \in Unpaid : Steps(b, i) <= Steps(b, j)
    BY <1>2, <1>5, <2>1 DEF BlindOutlasts
  <2>3. currentBet > 0 /\ currentBet' > 0
    BY <1>1, <1>5, <2>1 DEF BlindOutlasts, Moves, IInv, TypeOK
  <2>4. i \notin Unpaid'
    BY <1>1, <2>3 DEF Moves, Unpaid, Contesting, IsInHand
  <2>5. b \in Seats /\ totalCommitted[b] > 0
    BY DEF Unpaid, Contesting, IInv, TypeOK
  <2>6. PICK z \in Unpaid' : TRUE
    BY <1>5
  <2>7. b # z /\ z # i /\ b # i
    <3>1. b # z
      BY <2>1, <2>6
    <3>2. Steps(b, i) <= Steps(b, z) /\ z \in Seats
      BY <2>1, <2>2, <2>6
    <3> QED BY <2>4, <2>5, <2>6, <3>1, <3>2, SeatsAssumption DEF Steps, Seats
  <2>8. b \in Contesting' \ Unpaid'
    <3>1. totalCommitted'[b] >= totalCommitted[b]
      BY <1>1, <2>5 DEF Moves
    <3>2. totalCommitted'[b] # 0
      BY <2>5, <3>1 DEF IInv, TypeOK
    <3> QED BY <1>3, <2>7, <3>2 DEF Unpaid
  <2>9. \A j \in Unpaid' : j \in Owing'
    <3> SUFFICES ASSUME NEW j \in Unpaid' PROVE j \in Owing'
      OBVIOUS
    <3>1. j \in Owing /\ j # i /\ j \in Seats
      BY <2>1, <2>4
    <3>2. needsAction'[j] /\ allIn'[j] = allIn[j] /\ folded'[j] = folded[j]
      BY <1>1, <3>1 DEF Moves
    <3> QED BY <1>2, <3>1, <3>2 DEF Owing, Active, IsActive
  <2>10. ~HandIsOver'
    <3>1. z \in Contesting'
      BY <2>6 DEF Unpaid
    <3> QED BY <2>7, <2>8, <3>1 DEF HandIsOver
  <2>11. Owing' \in SUBSET Seats /\ Owing' # {}
    BY <2>6, <2>9 DEF Owing, Active
  <2>12. toAct' = FirstAfter(i, Owing')
    BY <1>2, <2>10, <2>11, TurnOfFirst
  <2>13. toAct' \in Owing' /\ toAct' \in Seats /\ toAct' # NoSeat
    <3>1. toAct' \in Owing'
      BY <2>11, <2>12, FirstAfterIn
    <3> QED BY <2>11, <3>1, SeatsAssumption DEF Seats, NoSeat
  <2>14. \A j \in Unpaid' : Steps(b, toAct') <= Steps(b, j)
    <3> SUFFICES ASSUME NEW j \in Unpaid' PROVE Steps(b, toAct') <= Steps(b, j)
      OBVIOUS
    <3>1. /\ j \in Seats /\ j # i /\ j # b
          /\ Steps(b, i) <= Steps(b, j)
      BY <2>1, <2>2, <2>4, <2>8
    <3>2. Steps(i, toAct') <= Steps(i, j)
      BY <2>9, <2>11, <2>12, FirstAfterNearest
    <3> QED BY <2>5, <2>7, <2>13, <3>1, <3>2, OnTheWay
  <2> QED BY <2>3, <2>8, <2>9, <2>13, <2>14
<1> QED BY <1>4, <1>5 DEF BlindOutlasts

(* A street closes only after everybody still in has paid. *)
LEMMA AdvanceOutlasts ==
    ASSUME IInv, BlindOutlasts, AdvanceStreet
    PROVE  /\ Contesting' = Contesting /\ BlindOutlasts'
           /\ UNCHANGED <<inHand, stack, totalCommitted>>
<1>1. toAct = NoSeat /\ UNCHANGED <<inHand, stack, folded, totalCommitted>>
  BY DEF AdvanceStreet, StreetIsComplete, seatVars
<1>2. Contesting' = Contesting /\ Unpaid' = Unpaid
  BY <1>1 DEF Contesting, IsInHand, Unpaid
<1>3. Unpaid = {}
  BY <1>1 DEF BlindOutlasts
<1> QED BY <1>1, <1>2, <1>3 DEF BlindOutlasts

-----------------------------------------------------------------------------
(* Each instruction preserves the invariant.                               *)

(* What the betting instructions and the clock leave alone. *)
tableVars == <<tableState, handNumber, dealtIn, deckCards, nextIndex, holeHand, holeCards,
               rakeAccrued>>

LEMMA HandInitIInv == HandInit => HandIInv
<1> SUFFICES ASSUME HandInit PROVE HandIInv
  OBVIOUS
<1>1. Init /\ ~InProgress
  BY DEF HandInit, InProgress
<1>2. IInv
  BY <1>1, InitIInv
<1>3. HandTypes
  BY DEF HandInit, HandTypes, NoCard
<1>4. Lifecycle
  BY <1>1 DEF HandInit, Init, Lifecycle, CleanBetweenHands, NoCard
<1>5. Holders = {} /\ Cardinality(Holders) = 0
  <2>1. Holders = {}
    BY DEF HandInit, Holders, NoCard
  <2> QED BY <2>1, FS_EmptySet
<1>6. Stamps /\ DealtOnce
  BY <1>1, <1>5 DEF HandInit, Stamps, DealtOnce, Holders
<1>7. BlindOutlasts
  BY <1>1 DEF Init, BlindOutlasts, Unpaid, Contesting, IsInHand
<1> QED BY <1>2, <1>3, <1>4, <1>6, <1>7 DEF HandIInv

(* Randomness arriving, a hole account secured, time: nothing moves. *)
LEMMA QuietIInv ==
    ASSUME HandIInv, UNCHANGED bettingVars, UNCHANGED tableVars, UNCHANGED boardLen,
           secured' \in [Seats -> BOOLEAN]
    PROVE  HandIInv'
<1> USE DEF HandIInv
<1>1. IInv'
  BY StutterIInv
<1>2. HandTypes'
  BY DEF HandTypes, tableVars
<1>3. InProgress' = InProgress /\ Contesting' = Contesting /\ Unpaid' = Unpaid
      /\ Owing' = Owing /\ Holders' = Holders
  BY DEF InProgress, Contesting, IsInHand, Unpaid, Owing, Active, IsActive, Holders,
         bettingVars, seatVars, roundVars, tableVars
<1>4. Lifecycle'
  BY <1>3 DEF Lifecycle, CleanBetweenHands, bettingVars, seatVars, roundVars, tableVars
<1>5. Stamps' /\ DealtOnce'
  BY <1>3 DEF Stamps, DealtOnce, Holders, tableVars
<1>6. BlindOutlasts'
  BY <1>3 DEF BlindOutlasts, bettingVars, roundVars
<1> QED BY <1>1, <1>2, <1>4, <1>5, <1>6

(* An action of a seat, or a street closed. *)
LEMMA MoveIInv ==
    ASSUME HandIInv, UNCHANGED tableVars, UNCHANGED secured,
           (AdvanceStreet /\ ShowStreet) \/ \E i \in Seats : Act(i)
    PROVE  HandIInv' /\ InProgress /\ UNCHANGED inHand
<1> USE DEF HandIInv
<1>1. InProgress
  <2> SUFFICES ASSUME ~InProgress PROVE FALSE
    OBVIOUS
  <2>1. toAct = NoSeat /\ deckCards = NoCard /\ (street = Showdown \/ boardLen = 0)
    BY DEF Lifecycle, CleanBetweenHands
  <2>2. ~(AdvanceStreet /\ ShowStreet)
    <3> SUFFICES ASSUME AdvanceStreet, ShowStreet PROVE FALSE
      OBVIOUS
    <3>1. street # Showdown /\ street' \in {Showdown, street + 1} /\ street \in PreFlop .. Showdown
      BY DEF AdvanceStreet, IInv, TypeOK
    <3>2. boardLen = 0 /\ BoardLen(street') > 0
      BY <2>1, <3>1 DEF BoardLen, PreFlop, Flop, Turn, Showdown
    <3> QED BY <2>1, <3>2 DEF ShowStreet
  <2>3. PICK i \in Seats : Act(i)
    BY <2>2
  <2>4. toAct = i
    BY <2>3, ActMoves DEF Moves
  <2> QED BY <2>1, <2>4, SeatsAssumption DEF Seats, NoSeat
<1>2. IInv'
  BY AdvanceStreetIInv, ActIInv
<1>3. Contesting' # {} /\ BlindOutlasts' /\ UNCHANGED inHand
  <2>1. CASE AdvanceStreet
    BY <1>1, <2>1, AdvanceOutlasts DEF Lifecycle
  <2>2. CASE \E i \in Seats : Act(i)
    BY <1>2, <2>2, ActOutlasts, ActMoves DEF Moves
  <2> QED BY <2>1, <2>2
<1>4. HandTypes'
  BY DEF HandTypes, tableVars
<1>5. InProgress' /\ Holders' = Holders
  BY <1>1 DEF InProgress, Holders, tableVars
<1>6. Lifecycle'
  BY <1>1, <1>3, <1>5 DEF Lifecycle, tableVars
<1>7. Stamps' /\ DealtOnce'
  BY <1>1, <1>5 DEF Stamps, DealtOnce, Holders, tableVars
<1> QED BY <1>1, <1>2, <1>3, <1>4, <1>6, <1>7

LEMMA StartHandIInv ==
    ASSUME HandIInv, StartHand
    PROVE  HandIInv'
<1> USE DEF HandIInv
<1> DEFINE stacks == [i \in Seats |-> IF secured[i] THEN stack[i] ELSE 0]
           players == {i \in Seats : stacks[i] > 0}
           btn == FirstAfter(button, players)
<1>1. /\ ~InProgress /\ Cardinality(players) >= 2
      /\ BeginHand(stacks, btn)
      /\ tableState' = "HandInProgress" /\ handNumber' = handNumber + 1
      /\ dealtIn' = players /\ deckCards' = handNumber + 1 /\ nextIndex' = 0
      /\ UNCHANGED <<holeHand, holeCards, secured, rakeAccrued>>
  BY DEF StartHand
<1>2. stacks \in [Seats -> Nat]
  BY DEF IInv, TypeOK
<1>3. players \in SUBSET Seats
  OBVIOUS
<1>4. btn \in Seats
  <2>1. players # {}
    <3>1. players = {} => Cardinality(players) = 0
      BY FS_EmptySet
    <3> HIDE DEF players
    <3> QED BY <1>1, <3>1
  <2>2. button \in Seats
    BY DEF IInv, TypeOK
  <2> HIDE DEF players
  <2> QED BY <1>3, <2>1, <2>2, FirstAfterIn
<1> HIDE DEF btn, stacks
<1>5. IInv'
  BY <1>1, <1>2, <1>4, BeginHandIInv
<1>6. /\ {i \in Seats : inHand[i]}' = players
      /\ Contesting' # {}
      /\ BlindOutlasts'
  BY <1>1, <1>2, <1>4, BeginHandOutlasts
<1>7. InProgress' /\ handNumber \in Nat
  BY <1>1 DEF InProgress, HandTypes
<1> HIDE DEF players
<1>8. HandTypes'
  BY <1>1, <1>3, <1>7 DEF HandTypes
<1>9. Lifecycle'
  BY <1>1, <1>6, <1>7 DEF Lifecycle
<1>10. Holders = {} /\ Holders' = {}
  BY <1>1 DEF Lifecycle, CleanBetweenHands, Holders
<1>11. \A i \in Seats : holeHand'[i] < handNumber'
  BY <1>1, <1>7 DEF Stamps, HandTypes
<1>12. Stamps'
  BY <1>1, <1>10, <1>11 DEF Stamps
<1>13. DealtOnce'
  <2>1. Cardinality(Holders') = 0
    BY <1>10, FS_EmptySet
  <2> QED BY <1>1, <1>10, <2>1 DEF DealtOnce, Holders
<1> QED BY <1>5, <1>6, <1>8, <1>9, <1>12, <1>13

(* Dealing again changes nothing; the first time every seat of the hand    *)
(* gets one pair, and outside a hand nobody gets any.                      *)
LEMMA DealIInv ==
    ASSUME HandIInv, DealHoleCards
    PROVE  HandIInv'
<1> USE DEF HandIInv
<1>1. /\ handNumber > 0
      /\ holeHand' = [i \in Seats |-> handNumber]
      /\ holeCards' = [i \in Seats |-> IF i \notin Undealt THEN holeCards[i]
                                       ELSE IF i \in dealtIn THEN deckCards ELSE NoCard]
      /\ nextIndex' = nextIndex + 2 * Cardinality(Undealt \cap dealtIn)
      /\ UNCHANGED bettingVars
      /\ UNCHANGED <<tableState, handNumber, boardLen, dealtIn, deckCards, secured,
                     rakeAccrued>>
  BY DEF DealHoleCards, moneyVars
<1>2. /\ handNumber \in Nat /\ dealtIn \subseteq Seats /\ IsFiniteSet(dealtIn)
      /\ Cardinality(dealtIn) \in Nat /\ nextIndex \in Nat
  BY RingFinite, FS_CardinalityType DEF HandTypes
<1>3. IInv'
  BY <1>1, StutterIInv
<1>4. InProgress' = InProgress /\ Contesting' = Contesting /\ Unpaid' = Unpaid /\ Owing' = Owing
  BY <1>1 DEF InProgress, Contesting, IsInHand, Unpaid, Owing, Active, IsActive,
              bettingVars, seatVars, roundVars
<1>5. BlindOutlasts'
  BY <1>1, <1>4 DEF BlindOutlasts, bettingVars, roundVars
<1>6. \/ Undealt = {} /\ holeCards' = holeCards /\ nextIndex' = nextIndex
      \/ /\ Undealt = Seats /\ Holders = {} /\ nextIndex' = 2 * Cardinality(dealtIn)
         /\ holeCards' = [i \in Seats |-> IF i \in dealtIn THEN deckCards ELSE NoCard]
  <2>1. CASE \A i \in Seats : holeHand[i] = handNumber
    <3>1. Undealt = {}
      BY <2>1 DEF Undealt
    <3>2. holeCards' = holeCards
      BY <1>1, <3>1 DEF HandTypes
    <3>3. Cardinality(Undealt \cap dealtIn) = 0
      BY <3>1, FS_EmptySet
    <3> QED BY <1>1, <1>2, <3>1, <3>2, <3>3
  <2>2. CASE /\ \A i \in Seats : holeHand[i] < handNumber
             /\ Holders = {} /\ nextIndex = 0
    <3>1. Undealt = Seats
      BY <1>2, <2>2 DEF Undealt, HandTypes
    <3>2. Undealt \cap dealtIn = dealtIn
      BY <1>2, <3>1
    <3> QED BY <1>1, <1>2, <2>2, <3>1, <3>2
  <2> QED BY <2>1, <2>2 DEF Stamps
<1>7. Holders' = Holders \/ (InProgress /\ Holders' = dealtIn /\ nextIndex' = 2 * Cardinality(dealtIn))
  <2>1. CASE holeCards' = holeCards
    BY <2>1 DEF Holders
  <2>2. CASE /\ holeCards' = [i \in Seats |-> IF i \in dealtIn THEN deckCards ELSE NoCard]
             /\ Holders = {} /\ nextIndex' = 2 * Cardinality(dealtIn)
    <3>1. CASE InProgress
      <4>1. deckCards # NoCard
        BY <1>1, <1>2, <3>1 DEF Lifecycle, NoCard
      <4> QED BY <1>2, <2>2, <3>1, <4>1 DEF Holders
    <3>2. CASE ~InProgress
      BY <2>2, <3>2 DEF Holders, Lifecycle
    <3> QED BY <3>1, <3>2
  <2> QED BY <1>6, <2>1, <2>2
<1>8. HandTypes'
  <2>1. holeCards' \in [Seats -> Nat]
    BY <1>6 DEF HandTypes, NoCard
  <2>2. nextIndex' \in Nat
    BY <1>2, <1>6
  <2> QED BY <1>1, <1>2, <2>1, <2>2 DEF HandTypes
<1>9. Lifecycle'
  <2>1. CASE InProgress
    BY <1>1, <1>4, <2>1 DEF Lifecycle, bettingVars, seatVars
  <2>2. CASE ~InProgress
    <3>1. \A i \in Seats : holeCards'[i] = NoCard
      BY <1>6, <2>2 DEF Lifecycle, CleanBetweenHands
    <3> QED BY <1>1, <1>4, <2>2, <3>1
            DEF Lifecycle, CleanBetweenHands, bettingVars, seatVars, roundVars
  <2> QED BY <2>1, <2>2
<1>10. Stamps'
  BY <1>1 DEF Stamps
<1>11. DealtOnce'
  <2>1. nextIndex = 2 * Cardinality(Holders) /\ (InProgress => Holders \in {{}, dealtIn})
        /\ \A i \in Holders : holeCards[i] = handNumber
    BY DEF DealtOnce, Holders
  <2>2. nextIndex' = 2 * Cardinality(Holders')
    <3>1. CASE Undealt = {} /\ holeCards' = holeCards /\ nextIndex' = nextIndex
      BY <2>1, <3>1 DEF Holders
    <3>2. CASE Holders' = dealtIn /\ nextIndex' = 2 * Cardinality(dealtIn)
      BY <3>2
    <3>3. CASE ~InProgress /\ Holders' = Holders /\ nextIndex' = 2 * Cardinality(dealtIn)
      <4>1. dealtIn = {} /\ Holders = {}
        BY <3>3 DEF Lifecycle, CleanBetweenHands, Holders
      <4> QED BY <3>3, <4>1
    <3>4. CASE InProgress /\ Undealt = Seats /\ Holders = {} /\ Holders' = Holders
               /\ nextIndex' = 2 * Cardinality(dealtIn)
      <4>1. deckCards # NoCard
        BY <1>1, <1>2, <3>4 DEF Lifecycle, NoCard
      <4>2. \A i \in dealtIn : holeCards'[i] = deckCards
        BY <1>1, <1>2, <3>4
      <4>3. dealtIn = {}
        BY <1>2, <3>4, <4>1, <4>2 DEF Holders
      <4> QED BY <3>4, <4>3
    <3> QED BY <1>6, <1>7, <3>1, <3>2, <3>3, <3>4
  <2>3. InProgress' => Holders' \in {{}, dealtIn'}
    BY <1>1, <1>4, <1>7, <2>1
  <2>4. \A i \in Holders' : holeCards'[i] = handNumber'
    <3> SUFFICES ASSUME NEW i \in Holders' PROVE holeCards'[i] = handNumber'
      OBVIOUS
    <3>1. i \in Seats /\ holeCards'[i] # NoCard
      BY DEF Holders
    <3>2. CASE holeCards' = holeCards
      BY <1>1, <2>1, <3>1, <3>2 DEF Holders
    <3>3. CASE holeCards' = [j \in Seats |-> IF j \in dealtIn THEN deckCards ELSE NoCard]
      <4>1. i \in dealtIn /\ holeCards'[i] = deckCards
        BY <3>1, <3>3
      <4> QED BY <1>1, <4>1 DEF Lifecycle
    <3> QED BY <1>6, <3>2, <3>3
  <2> QED BY <2>2, <2>3, <2>4 DEF DealtOnce, Holders
<1> QED BY <1>3, <1>5, <1>8, <1>9, <1>10, <1>11

(* Settling and abandoning both leave nothing behind. *)
LEMMA CloseIInv ==
    ASSUME HandIInv, CloseHand, stack' \in [Seats -> Nat], rakeAccrued' \in Nat
    PROVE  HandIInv' /\ ~InProgress'
<1> USE DEF HandIInv
<1>1. /\ inHand' = [i \in Seats |-> FALSE]
      /\ streetCommitted' = [i \in Seats |-> 0] /\ totalCommitted' = [i \in Seats |-> 0]
      /\ folded' = [i \in Seats |-> FALSE] /\ allIn' = [i \in Seats |-> FALSE]
      /\ needsAction' = [i \in Seats |-> FALSE] /\ mayRaise' = [i \in Seats |-> FALSE]
      /\ street' = Showdown /\ toAct' = NoSeat /\ currentBet' = 0 /\ minRaise' = 0
      /\ lastAggressor' = NoSeat /\ acted' = {}
      /\ tableState' = "Waiting" /\ deckCards' = NoCard /\ nextIndex' = 0
      /\ dealtIn' = {} /\ holeCards' = [i \in Seats |-> NoCard]
      /\ UNCHANGED <<button, handNumber, holeHand, secured>>
  BY DEF CloseHand, Wipe
<1>2. /\ ~InProgress' /\ Active' = {} /\ Owing' = {} /\ Contesting' = {} /\ Unpaid' = {}
      /\ Holders' = {}
  BY <1>1 DEF InProgress, Active, Owing, IsActive, Contesting, IsInHand, Unpaid, Holders
<1>3. IInv'
  <2>1. TypeOK'
    BY <1>1 DEF IInv, TypeOK, PreFlop, Showdown
  <2>2. Accounts'
    BY <1>1 DEF Accounts
  <2>3. OwingOrMatched' /\ PriorStakesLead' /\ TurnIsPlayable' /\ StreetClosesMatched' /\ RaiseRights'
    BY <1>1, <1>2 DEF OwingOrMatched, PriorStakesLead, TurnIsPlayable, StreetClosesMatched,
                      RaiseRights
  <2> QED BY <2>1, <2>2, <2>3 DEF IInv
<1>4. HandTypes'
  BY <1>1 DEF HandTypes, NoCard
<1>5. Lifecycle'
  BY <1>1, <1>2 DEF Lifecycle, CleanBetweenHands
<1>6. Stamps'
  BY <1>1, <1>2 DEF Stamps, HandTypes
<1>7. DealtOnce'
  <2>1. Cardinality(Holders') = 0
    BY <1>2, FS_EmptySet
  <2> QED BY <1>1, <1>2, <2>1 DEF DealtOnce, Holders
<1>8. BlindOutlasts'
  BY <1>2 DEF BlindOutlasts
<1> QED BY <1>2, <1>3, <1>4, <1>5, <1>6, <1>7, <1>8

-----------------------------------------------------------------------------
(* Settlement.                                                             *)

(* When a hand may be settled somebody who has paid is still in it, and    *)
(* whoever has paid and is not folded is in it.                            *)
LEMMA SomebodyAlive ==
    ASSUME HandIInv
    PROVE  /\ Alive(totalCommitted, folded) \subseteq Contesting
           /\ InProgress /\ MaySettle => Alive(totalCommitted, folded) # {}
<1> USE DEF HandIInv
<1>1. \A i \in Seats : totalCommitted[i] \in Nat /\ (~inHand[i] => totalCommitted[i] = 0)
  BY DEF IInv, TypeOK, Accounts
<1>2. Alive(totalCommitted, folded) \subseteq Contesting
  BY <1>1 DEF Alive, Contesting, IsInHand
<1>3. ASSUME InProgress, MaySettle PROVE \E i \in Contesting : totalCommitted[i] > 0
  <2>1. PICK c \in Contesting : TRUE
    BY <1>3 DEF Lifecycle
  <2>2. CASE c \notin Unpaid
    BY <1>1, <2>2 DEF Unpaid, Contesting
  <2>3. CASE c \in Unpaid
    <3>1. PICK b \in Contesting : b \notin Unpaid
      BY <2>3 DEF BlindOutlasts
    <3> QED BY <1>1, <3>1 DEF Unpaid, Contesting
  <2> QED BY <2>2, <2>3
<1>4. InProgress /\ MaySettle => Alive(totalCommitted, folded) # {}
  BY <1>3 DEF Alive, Contesting, IsInHand
<1> QED BY <1>2, <1>4

(* What a settlement does to the seats: won and taken are all the chips in *)
(* the middle, and only seats of the hand win.                             *)
Settles(won, taken) ==
    /\ won \in [Seats -> Nat] /\ taken \in Nat
    /\ stack' = [i \in Seats |-> stack[i] + won[i]]
    /\ rakeAccrued' = rakeAccrued + taken
    /\ Total(won) + taken = Total(totalCommitted)
    /\ \A i \in Seats : i \notin dealtIn => won[i] = 0
    /\ \E i \in dealtIn : won[i] > 0

LEMMA RanksAre ==
    ASSUME NEW C, NEW ranksOf \in [C -> Ranks]
    PROVE  [i \in Seats |-> IF i \in C THEN ranksOf[i] ELSE NoRank] \in [Seats -> Int]
<1>1. \A r \in Ranks : r \in Int
  BY HandAssumption
<1>2. NoRank \in Int
  BY DEF NoRank
<1>3. \A i \in C : ranksOf[i] \in Int
  BY <1>1
<1> QED BY <1>2, <1>3

LEMMA SettleIs ==
    ASSUME HandIInv, SettleHand
    PROVE  \E won, taken : Settles(won, taken)
<1> USE DEF HandIInv
<1>1. InProgress /\ MaySettle
  BY DEF SettleHand
<1>2. PICK ranksOf \in [Contesting -> Ranks] :
        LET ranks == [i \in Seats |-> IF i \in Contesting THEN ranksOf[i] ELSE NoRank]
            owed == Distribute(BuildPots(totalCommitted, folded), ranks, button)
            rake == RakeFor(Total(owed.payouts), BigBlind, boardLen > 0)
            kept == TakeRake(owed.payouts, rake)
        IN  /\ owed.unclaimed = 0
            /\ stack' = [i \in Seats |-> stack[i] + kept.payouts[i]]
            /\ rakeAccrued' = rakeAccrued + kept.taken
  BY DEF SettleHand
<1> DEFINE ranks == [i \in Seats |-> IF i \in Contesting THEN ranksOf[i] ELSE NoRank]
           pots == BuildPots(totalCommitted, folded)
           alive == Alive(totalCommitted, folded)
           owed == Distribute(pots, ranks, button)
           rake == RakeFor(Total(owed.payouts), BigBlind, boardLen > 0)
           kept == TakeRake(owed.payouts, rake)
<1>3. /\ owed.unclaimed = 0
      /\ stack' = [i \in Seats |-> stack[i] + kept.payouts[i]]
      /\ rakeAccrued' = rakeAccrued + kept.taken
  BY <1>2
<1>4. totalCommitted \in [Seats -> Nat] /\ folded \in [Seats -> BOOLEAN] /\ button \in Seats
  BY DEF IInv, TypeOK
<1>5. /\ pots \in Seq(Pot) /\ Amounts(pots) = Total(totalCommitted)
      /\ \A k \in 1 .. Len(pots) : pots[k].eligible \subseteq alive
  BY <1>4, PotsHoldTheStakes
<1>6. ranks \in [Seats -> Int]
  BY RanksAre
<1>7. alive \subseteq Contesting /\ alive # {}
  BY <1>1, SomebodyAlive
<1>8. dealtIn \subseteq Seats /\ alive \subseteq dealtIn
  BY <1>1, <1>7 DEF Lifecycle, HandTypes, Contesting, IsInHand
<1> HIDE DEF pots, ranks, alive
<1>9. /\ owed.payouts \in [Seats -> Nat] /\ owed.unclaimed \in Nat
      /\ Total(owed.payouts) + owed.unclaimed = Amounts(pots)
      /\ \A i \in Seats : (\A k \in 1 .. Len(pots) : i \notin pots[k].eligible)
                             => owed.payouts[i] = 0
  BY <1>4, <1>5, <1>6, PotsArePaidOut
<1>10. \A i \in Seats : i \notin alive => owed.payouts[i] = 0
  BY <1>5, <1>9
<1> DEFINE paid == owed.payouts
<1>11. paid \in [Seats -> Nat] /\ Total(paid) \in Nat /\ Total(paid) = Total(totalCommitted)
  <2>1. paid \in [Seats -> Nat]
    BY <1>9
  <2>2. Total(paid) \in Nat
    BY <2>1, TotalNat
  <2> QED BY <1>3, <1>5, <1>9, <2>1, <2>2
<1>12. Total(totalCommitted) > 0
  <2>1. PICK i \in Seats : totalCommitted[i] > 0
    BY <1>7 DEF alive, Alive
  <2> DEFINE c == totalCommitted[i]
             rest == [totalCommitted EXCEPT ![i] = @ - c]
  <2>2. c \in Nat /\ c <= totalCommitted[i]
    BY <1>4
  <2>3. rest \in [Seats -> Nat] /\ Total(rest) = Total(totalCommitted) - c
    <3> HIDE DEF c
    <3> QED BY <1>4, <2>2, TotalLess
  <2> HIDE DEF rest
  <2>4. Total(rest) \in Nat /\ Total(totalCommitted) \in Nat
    BY <1>4, <2>3, TotalNat
  <2> QED BY <2>1, <2>2, <2>3, <2>4
<1>13. rake \in Nat /\ (rake < Total(paid) \/ rake = 0)
  <2>1. BigBlind \in Nat
    BY BlindsAssumption
  <2> QED BY <1>11, <2>1, RakeForIs
<1>14. kept = TakeRake(paid, rake)
  OBVIOUS
<1> HIDE DEF owed, paid, rake, kept
<1>15. /\ kept.payouts \in [Seats -> Nat] /\ kept.taken \in Nat
       /\ Total(kept.payouts) + kept.taken = Total(paid)
       /\ \A i \in Seats : paid[i] = 0 => kept.payouts[i] = 0
       /\ Total(paid) > 0 => \E i \in Seats : kept.payouts[i] > 0
  BY <1>11, <1>13, <1>14, RakeIsTaken
<1>16. \A i \in Seats : i \notin dealtIn => kept.payouts[i] = 0
  BY <1>8, <1>10, <1>15 DEF paid
<1>17. \E i \in dealtIn : kept.payouts[i] > 0
  <2>1. PICK i \in Seats : kept.payouts[i] > 0
    BY <1>11, <1>12, <1>15
  <2> QED BY <1>16, <2>1
<1>18. Settles(kept.payouts, kept.taken)
  BY <1>3, <1>11, <1>15, <1>16, <1>17 DEF Settles
<1> QED BY <1>18

LEMMA SettleIInv ==
    ASSUME HandIInv, SettleHand
    PROVE  HandIInv' /\ ~InProgress'
<1>1. PICK won, taken : Settles(won, taken)
  BY SettleIs
<1>2. stack' \in [Seats -> Nat] /\ rakeAccrued' \in Nat
  BY <1>1 DEF Settles, HandIInv, IInv, TypeOK, HandTypes
<1> QED BY <1>2, CloseIInv DEF SettleHand

LEMMA AbandonIInv ==
    ASSUME HandIInv, AbandonHand
    PROVE  HandIInv' /\ ~InProgress'
<1>1. stack' \in [Seats -> Nat] /\ rakeAccrued' \in Nat
  BY DEF AbandonHand, Refund, HandIInv, IInv, TypeOK, HandTypes
<1> QED BY <1>1, CloseIInv DEF AbandonHand

-----------------------------------------------------------------------------
(* The theorems.                                                           *)

LEMMA HandStepIInv == HandIInv /\ [HandNext]_vars => HandIInv'
<1> SUFFICES ASSUME HandIInv, [HandNext]_vars PROVE HandIInv'
  OBVIOUS
<1>1. CASE ShuffleFulfilled \/ Tick \/ UNCHANGED vars
  BY <1>1, QuietIInv
  DEF ShuffleFulfilled, Tick, vars, cardVars, moneyVars, tableVars, HandIInv, HandTypes
<1>2. ASSUME NEW i \in Seats, SecureHole(i) PROVE HandIInv'
  BY <1>2, QuietIInv DEF SecureHole, cardVars, moneyVars, tableVars, HandIInv, HandTypes
<1>3. CASE StartHand
  BY <1>3, StartHandIInv
<1>4. CASE DealHoleCards
  BY <1>4, DealIInv
<1>5. ASSUME NEW i \in Seats, PlayerAction(i) PROVE HandIInv'
  BY <1>5, MoveIInv DEF PlayerAction, cardVars, moneyVars, tableVars
<1>6. CASE ForceTimeout
  <2>1. \E i \in Seats : Act(i)
    BY <1>6 DEF ForceTimeout, Act
  <2> QED BY <1>6, <2>1, MoveIInv DEF ForceTimeout, cardVars, moneyVars, tableVars
<1>7. CASE CloseStreet
  BY <1>7, MoveIInv DEF CloseStreet, moneyVars, tableVars
<1>8. CASE SettleHand
  BY <1>8, SettleIInv
<1>9. CASE AbandonHand
  BY <1>9, AbandonIInv
<1> QED BY <1>1, <1>2, <1>3, <1>4, <1>5, <1>6, <1>7, <1>8, <1>9 DEF HandNext

THEOREM HandInvariant == HandSpec => []HandIInv
<1> QED BY HandInitIInv, HandStepIInv, PTL DEF HandSpec

(* A closed hand leaves nothing behind, and no late call of a              *)
(* permissionless instruction brings anything back (settle_hand,           *)
(* abandon_hand, deal_hole_cards).                                         *)
THEOREM CleanCorrect == HandSpec => []CleanBetweenHands
<1>1. HandIInv => CleanBetweenHands
  BY DEF HandIInv, Lifecycle, CleanBetweenHands
<1> QED BY <1>1, HandInvariant, PTL

(* However often deal_hole_cards is called, a seat gets one pair.          *)
THEOREM DealtOnceCorrect == HandSpec => []DealtOnce
<1>1. HandIInv => DealtOnce
  BY DEF HandIInv
<1> QED BY <1>1, HandInvariant, PTL

(* The engine's own properties survive hand after hand, whatever is called *)
(* in between (bridge.rs writes the engine back after every instruction).  *)
THEOREM HandTurnCorrect == HandSpec => [](TypeOK /\ TurnIsPlayable /\ StreetClosesMatched /\ RaiseRights)
<1>1. HandIInv => TypeOK /\ TurnIsPlayable /\ StreetClosesMatched /\ RaiseRights
  BY DEF HandIInv, IInv
<1> QED BY <1>1, HandInvariant, PTL

(* settle_hand never finds a pot nobody can win.                           *)
THEOREM OwnersCorrect == HandSpec => []EveryPotHasAnOwner
<1>1. HandIInv => EveryPotHasAnOwner
  <2> SUFFICES ASSUME HandIInv, InProgress, MaySettle PROVE EveryPotHasAnOwner
    BY DEF EveryPotHasAnOwner
  <2> DEFINE pots == BuildPots(totalCommitted, folded)
             alive == Alive(totalCommitted, folded)
  <2>1. totalCommitted \in [Seats -> Nat] /\ folded \in [Seats -> BOOLEAN]
    BY DEF HandIInv, IInv, TypeOK
  <2>2. alive \subseteq Contesting /\ alive # {}
    BY SomebodyAlive
  <2>3. /\ pots \in Seq(Pot)
        /\ \A k \in 1 .. Len(pots) : pots[k].eligible \subseteq alive
        /\ alive # {} => \A k \in 1 .. Len(pots) : pots[k].eligible # {}
    BY <2>1, PotsHoldTheStakes
  <2> HIDE DEF pots, alive
  <2>4. DOMAIN pots = 1 .. Len(pots)
    BY <2>3
  <2>5. \A k \in DOMAIN pots : pots[k].eligible \cap Contesting # {}
    BY <2>2, <2>3, <2>4
  <2> QED BY <2>5 DEF EveryPotHasAnOwner, pots
<1> QED BY <1>1, HandInvariant, PTL

-----------------------------------------------------------------------------
(* The hand implements the purse.                                          *)

LEMMA PurseSums == ASSUME NEW f PROVE P!Sum(f) = Total(f)
BY DEF P!Sum, P!SumFunctionOnSet, P!FoldFunctionOnSet, P!MapThenFoldSet, P!Seats, Total,
   SumFunctionOnSet, FoldFunctionOnSet, MapThenFoldSet, Seats

LEMMA PurseCounts == ASSUME NEW S PROVE P!Cardinality(S) = Cardinality(S)
BY DEF P!Cardinality, P!IsFiniteSet, Cardinality, IsFiniteSet

Wealth == [i \in Seats |-> stack[i] + totalCommitted[i]]
Playing == IF InProgress THEN dealtIn ELSE {}

Pursed == P!PurseNext \/ UNCHANGED P!purseVars

LEMMA PurseStutter ==
    ASSUME UNCHANGED <<Wealth, Playing, rakeAccrued>>
    PROVE  Pursed
BY DEF Pursed, P!purseVars, Wealth, Playing

(* Starting a hand is a deal; the seats left out are the ones whose cards  *)
(* are not secured, and they lose what they hold.                          *)
LEMMA PurseDeals ==
    ASSUME HandIInv, HandIInv', StartHand
    PROVE  Pursed
<1> DEFINE stacks == [i \in Seats |-> IF secured[i] THEN stack[i] ELSE 0]
           players == {i \in Seats : stacks[i] > 0}
           out == {i \in Seats : ~secured[i]}
<1>1. /\ ~InProgress /\ InProgress' /\ Cardinality(players) >= 2
      /\ BeginHand(stacks, FirstAfter(button, players))
      /\ dealtIn' = players /\ rakeAccrued' = rakeAccrued
  BY DEF StartHand, InProgress
<1>2. \A i \in Seats : /\ stack[i] \in Nat /\ totalCommitted[i] = 0
                       /\ stack'[i] \in Nat /\ totalCommitted'[i] \in Nat
  BY <1>1 DEF HandIInv, IInv, TypeOK, Lifecycle, CleanBetweenHands
<1>3. \A i \in Seats : stack'[i] + totalCommitted'[i] = stacks[i]
  <2>1. /\ totalCommitted' = streetCommitted'
        /\ stack' = [i \in Seats |-> stacks[i] - streetCommitted'[i]]
    BY <1>1 DEF BeginHand
  <2>2. \A i \in Seats : stacks[i] \in Nat
    BY <1>2
  <2> HIDE DEF stacks
  <2> QED BY <1>2, <2>1, <2>2
<1>4. \A i \in Seats : Wealth'[i] = IF i \in out THEN 0 ELSE Wealth[i]
  BY <1>2, <1>3 DEF Wealth
<1>5. Wealth' = [i \in Seats |-> IF i \in out THEN 0 ELSE Wealth[i]]
  BY <1>4 DEF Wealth
<1>6. players \cap out = {} /\ \A i \in players : Wealth[i] > 0
  BY <1>2 DEF Wealth
<1>7. Playing = {} /\ Playing' = players
  BY <1>1 DEF Playing
<1>8. players \in SUBSET P!Seats /\ out \in SUBSET P!Seats /\ P!Seats = Seats
  BY DEF P!Seats, Seats
<1>9. P!Cardinality(players) >= 2
  BY <1>1, PurseCounts
<1> HIDE DEF players, out
<1>10. PICK ps, os \in SUBSET P!Seats : ps = players /\ os = out
  BY <1>8
<1>11. P!Deal(ps, os)
  BY <1>1, <1>5, <1>6, <1>7, <1>8, <1>9, <1>10 DEF P!Deal, Wealth, Playing
<1> QED BY <1>11 DEF Pursed, P!PurseNext

(* Settling is one award: what was in the middle goes to seats of the hand *)
(* and to the house, and somebody gets something.                          *)
LEMMA PurseAwards ==
    ASSUME HandIInv, HandIInv', SettleHand
    PROVE  Pursed
<1>1. PICK won, taken : Settles(won, taken)
  BY SettleIs
<1>2. /\ won \in [Seats -> Nat] /\ taken \in Nat /\ rakeAccrued \in Nat
      /\ stack' = [i \in Seats |-> stack[i] + won[i]]
      /\ rakeAccrued' = rakeAccrued + taken
      /\ Total(won) + taken = Total(totalCommitted)
      /\ \A i \in Seats : i \notin dealtIn => won[i] = 0
      /\ \E i \in dealtIn : won[i] > 0
  BY <1>1 DEF Settles, HandIInv, HandTypes
<1>3. InProgress /\ ~InProgress' /\ totalCommitted' = [i \in Seats |-> 0]
  <2>1. CloseHand /\ InProgress
    BY DEF SettleHand
  <2> QED BY <2>1 DEF CloseHand, InProgress
<1>4. dealtIn # {} /\ dealtIn \subseteq Seats
      /\ \A i \in Seats : i \notin dealtIn => totalCommitted[i] = 0
  <2>1. dealtIn = {i \in Seats : inHand[i]} /\ dealtIn # {}
    BY <1>2, <1>3 DEF HandIInv, Lifecycle
  <2> QED BY <2>1 DEF HandIInv, IInv, Accounts
<1>5. \A i \in Seats : /\ stack[i] \in Int /\ totalCommitted[i] \in Int /\ stack[i] >= 0
                       /\ Wealth[i] = stack[i] + totalCommitted[i]
                       /\ Wealth'[i] = stack[i] + won[i]
                       /\ won[i] \in Int /\ won[i] >= 0
  BY <1>2, <1>3 DEF HandIInv, IInv, TypeOK, Wealth
<1>6. Total(Wealth) = Total(stack) + Total(totalCommitted)
  BY <1>5, TotalAdd
<1>7. Total(Wealth') = Total(stack) + Total(won)
  BY <1>5, TotalAdd
<1>8. Total(Wealth') + rakeAccrued' = Total(Wealth) + rakeAccrued
  <2>1. Total(stack) \in Nat /\ Total(won) \in Nat /\ Total(totalCommitted) \in Nat
    BY <1>2, TotalNat DEF HandIInv, IInv, TypeOK
  <2> QED BY <1>2, <1>6, <1>7, <2>1
<1>9. P!Sum(Wealth') + rakeAccrued' = P!Sum(Wealth) + rakeAccrued
  BY <1>8, PurseSums
<1>10. Playing = dealtIn /\ Playing' = {} /\ P!Seats = Seats
  BY <1>3 DEF Playing, P!Seats, Seats
<1>11. /\ \A i \in Seats \ dealtIn : Wealth'[i] = Wealth[i]
       /\ \A i \in Seats : Wealth'[i] >= 0
       /\ \E i \in dealtIn : Wealth'[i] > 0
  BY <1>2, <1>4, <1>5
<1>12. rakeAccrued' >= rakeAccrued
  BY <1>2
<1>13. P!Award
  BY <1>4, <1>9, <1>10, <1>11, <1>12 DEF P!Award, Wealth, Playing
<1> QED BY <1>13 DEF Pursed, P!PurseNext

(* Abandoning gives every chip back to the seat it came from. *)
LEMMA PurseGivesBack ==
    ASSUME HandIInv, AbandonHand
    PROVE  Pursed
<1>1. /\ InProgress /\ ~InProgress' /\ rakeAccrued' = rakeAccrued
      /\ stack' = [i \in Seats |-> Refund(i)] /\ totalCommitted' = [i \in Seats |-> 0]
  <2>1. CloseHand /\ InProgress
    BY DEF AbandonHand
  <2> QED BY <2>1 DEF AbandonHand, CloseHand, InProgress
<1>2. \A i \in Seats : stack'[i] + totalCommitted'[i] = stack[i] + totalCommitted[i]
  BY <1>1 DEF Refund, HandIInv, IInv, TypeOK
<1>3. Wealth' = Wealth
  BY <1>2 DEF Wealth
<1>4. Playing # {} /\ Playing' = {}
  BY <1>1 DEF Playing, HandIInv, Lifecycle, Contesting, IsInHand
<1>5. P!GiveBack
  BY <1>1, <1>3, <1>4 DEF P!GiveBack, Wealth, Playing
<1> QED BY <1>5 DEF Pursed, P!PurseNext

(* Everything else is invisible. *)
LEMMA PurseSleeps ==
    ASSUME HandIInv, UNCHANGED tableVars,
           \/ UNCHANGED bettingVars
           \/ AdvanceStreet
           \/ \E i \in Seats : Act(i)
    PROVE  Pursed
<1>1. \A i \in Seats : stack'[i] + totalCommitted'[i] = stack[i] + totalCommitted[i]
  <2>1. CASE UNCHANGED bettingVars
    BY <2>1 DEF bettingVars, seatVars
  <2>2. CASE AdvanceStreet
    BY <2>2, AdvanceOutlasts DEF HandIInv
  <2>3. CASE \E i \in Seats : Act(i)
    BY <2>3, ActKeepsChips DEF HandIInv
  <2> QED BY <2>1, <2>2, <2>3
<1>2. Wealth' = Wealth
  BY <1>1 DEF Wealth
<1>3. Playing' = Playing /\ rakeAccrued' = rakeAccrued
  BY DEF Playing, InProgress, tableVars
<1> QED BY <1>2, <1>3, PurseStutter

LEMMA PurseStart == HandInit => P!PurseInit
<1> SUFFICES ASSUME HandInit PROVE P!PurseInit
  OBVIOUS
<1>1. Wealth \in [Seats -> Nat]
  BY HandInitIInv DEF HandIInv, IInv, TypeOK, Wealth
<1>2. Playing = {} /\ rakeAccrued = 0 /\ P!Seats = Seats
  BY DEF HandInit, Playing, InProgress, P!Seats, Seats
<1> QED BY <1>1, <1>2 DEF P!PurseInit, Wealth, Playing

LEMMA PurseStep ==
    HandIInv /\ HandIInv' /\ [HandNext]_vars => [P!PurseNext]_(P!purseVars)
<1> SUFFICES ASSUME HandIInv, HandIInv', [HandNext]_vars PROVE Pursed
  BY DEF Pursed
<1>1. CASE \/ ShuffleFulfilled \/ DealHoleCards \/ Tick \/ UNCHANGED vars
           \/ \E i \in Seats : SecureHole(i)
  <2>1. UNCHANGED bettingVars /\ UNCHANGED <<tableState, dealtIn, rakeAccrued>>
    BY <1>1 DEF ShuffleFulfilled, DealHoleCards, Tick, SecureHole, vars, cardVars, moneyVars
  <2>2. Wealth' = Wealth /\ Playing' = Playing
    BY <2>1 DEF Wealth, Playing, InProgress, bettingVars, seatVars
  <2> QED BY <2>1, <2>2, PurseStutter
<1>2. ASSUME NEW i \in Seats, PlayerAction(i) PROVE Pursed
  BY <1>2, PurseSleeps DEF PlayerAction, cardVars, moneyVars, tableVars
<1>3. CASE ForceTimeout
  <2>1. \E i \in Seats : Act(i)
    BY <1>3 DEF ForceTimeout, Act
  <2> QED BY <1>3, <2>1, PurseSleeps DEF ForceTimeout, cardVars, moneyVars, tableVars
<1>4. CASE CloseStreet
  BY <1>4, PurseSleeps DEF CloseStreet, moneyVars, tableVars
<1>5. CASE StartHand
  BY <1>5, PurseDeals
<1>6. CASE SettleHand
  BY <1>6, PurseAwards
<1>7. CASE AbandonHand
  BY <1>7, PurseGivesBack
<1> QED BY <1>1, <1>2, <1>3, <1>4, <1>5, <1>6, <1>7 DEF HandNext

(* As far as a player's money can tell, a hand is one deal, then one award *)
(* or one refund: no interleaving of the instructions makes or loses a     *)
(* chip, pays a seat that is not in the hand, or pays nobody.              *)
THEOREM PurseImplemented == HandSpec => ImplementsPurse
<1>1. HandInit => P!PurseInit /\ HandIInv
  BY PurseStart, HandInitIInv
<1>2. HandIInv /\ [HandNext]_vars => HandIInv'
  BY HandStepIInv
<1>3. HandIInv /\ HandIInv' /\ [HandNext]_vars => [P!PurseNext]_(P!purseVars)
  BY PurseStep
<1> QED BY <1>1, <1>2, <1>3, PTL DEF HandSpec, ImplementsPurse, P!PurseSpec

-----------------------------------------------------------------------------
(***************************************************************************)
(* 4. Settlement                                                           *)
(***************************************************************************)

-----------------------------------------------------------------------------
(* How the rake is spread.                                                 *)

(* A winner's share of the rake, rounded down. *)
RakeShare(payouts, rake, i) == (rake * payouts[i]) \div Total(payouts)

(* The turns k in T are behind: those seats have been charged their share, *)
(* and the largest is a seat that has left more than any of them was paid, *)
(* but for what has been taken. (Of a seat with no payout the share is 0.) *)
ChargedUpTo(payouts, rake, T, kept) ==
    /\ kept \in Raked
    /\ \A i \in Seats : kept.payouts[i] =
           IF i + 1 \in T THEN payouts[i] - RakeShare(payouts, rake, i) ELSE payouts[i]
    /\ \A i \in Seats : i + 1 \in T => payouts[i] <= kept.payouts[kept.largest] + kept.taken

LEMMA ShareBelow ==
    ASSUME NEW payouts \in [Seats -> Nat], NEW rake \in Nat, rake < Total(payouts), NEW i \in Seats
    PROVE  /\ RakeShare(payouts, rake, i) \in Nat /\ RakeShare(payouts, rake, i) <= payouts[i]
           /\ payouts[i] = 0 => RakeShare(payouts, rake, i) = 0
<1>1. Total(payouts) \in Nat /\ payouts[i] \in Nat
  BY TotalNat
<1>2. CASE payouts[i] = 0
  <2>1. rake * payouts[i] = 0
    BY <1>2
  <2>2. 0 \div Total(payouts) = 0
    BY <1>1
  <2> QED BY <1>2, <2>1, <2>2 DEF RakeShare
<1>3. CASE payouts[i] > 0
  <2>1. PICK paid \in Nat, x \in Nat : paid = Total(payouts) /\ x = payouts[i]
    BY <1>1
  <2>2. (rake * x) \div paid \in Nat /\ (rake * x) \div paid < x
    BY <1>3, <2>1, ShareOfRake
  <2>3. RakeShare(payouts, rake, i) = (rake * x) \div paid
    BY <2>1 DEF RakeShare
  <2> QED BY ONLY <1>3, <2>1, <2>2, <2>3
<1> QED BY <1>1, <1>2, <1>3

LEMMA OneMoreCharged ==
    ASSUME NEW payouts \in [Seats -> Nat], NEW rake \in Nat, rake < Total(payouts),
           NEW T \in SUBSET (1 .. MaxSeats), NEW k \in T, NEW before,
           ChargedUpTo(payouts, rake, T \ {k}, before)
    PROVE  ChargedUpTo(payouts, rake, T, Charge(rake, Total(payouts), before, k - 1))
<1> DEFINE i == k - 1
           share == RakeShare(payouts, rake, i)
           after == Charge(rake, Total(payouts), before, i)
<1>1. /\ i \in Seats /\ i + 1 = k /\ i + 1 \notin T \ {k}
      /\ \A j \in Seats : j # i => (j + 1 \in T <=> j + 1 \in T \ {k})
  BY SeatsAssumption DEF Seats
<1>2. /\ before \in Raked
      /\ before.payouts \in [Seats -> Nat] /\ before.taken \in Nat /\ before.largest \in Seats
      /\ before.payouts[i] = payouts[i]
  BY <1>1 DEF ChargedUpTo, Raked
<1>3. share \in Nat /\ share <= payouts[i] /\ (payouts[i] = 0 => share = 0)
  BY <1>1, ShareBelow
<1>4. \A j \in Seats : payouts[j] \in Nat /\ before.payouts[j] \in Nat
  BY <1>2
<1>5. after \in Raked
  <2>1. Total(payouts) \in Nat
    BY TotalNat
  <2> HIDE DEF i
  <2> QED BY <1>1, <1>2, <2>1, ChargeIs
<1>6. CASE payouts[i] = 0
  <2>1. after = before
    BY <1>2, <1>6 DEF Charge
  <2> HIDE DEF after, share, i
  <2>2. \A j \in Seats : after.payouts[j] =
           IF j + 1 \in T THEN payouts[j] - RakeShare(payouts, rake, j) ELSE payouts[j]
    <3> SUFFICES ASSUME NEW j \in Seats
                 PROVE  after.payouts[j] = IF j + 1 \in T THEN payouts[j] - RakeShare(payouts, rake, j)
                                           ELSE payouts[j]
      OBVIOUS
    <3>1. CASE j = i
      BY <1>1, <1>2, <1>3, <1>6, <2>1, <3>1 DEF share
    <3>2. CASE j # i
      BY <1>1, <2>1, <3>2 DEF ChargedUpTo
    <3> QED BY <3>1, <3>2
  <2>3. \A j \in Seats : j + 1 \in T => payouts[j] <= after.payouts[after.largest] + after.taken
    <3> SUFFICES ASSUME NEW j \in Seats, j + 1 \in T
                 PROVE  payouts[j] <= before.payouts[before.largest] + before.taken
      BY <2>1
    <3>1. CASE j = i
      BY <1>2, <1>4, <1>6, <3>1
    <3>2. CASE j # i
      BY <1>1, <3>2 DEF ChargedUpTo
    <3> QED BY <3>1, <3>2
  <2> QED BY <1>5, <2>2, <2>3 DEF ChargedUpTo, after, i
<1>7. CASE payouts[i] # 0
  <2> DEFINE l == IF before.payouts[i] > before.payouts[before.largest] THEN i ELSE before.largest
             left == [before.payouts EXCEPT ![i] = @ - share]
  <2>1. after = [payouts |-> left, taken |-> before.taken + share, largest |-> l]
    BY <1>2, <1>7 DEF Charge, RakeShare
  <2>2. /\ after.payouts = left /\ after.taken = before.taken + share /\ after.largest = l
        /\ l \in Seats
    BY <1>1, <1>2, <2>1
  <2>3. left[i] = payouts[i] - share /\ \A j \in Seats : j # i => left[j] = before.payouts[j]
    BY <1>1, <1>2
  <2>4. \/ l = i /\ payouts[i] > before.payouts[before.largest]
        \/ l = before.largest /\ payouts[i] <= before.payouts[before.largest]
    BY <1>2, <1>4, <1>1
  <2> HIDE DEF after, share, l, left
  <2>5. \A j \in Seats : after.payouts[j] =
           IF j + 1 \in T THEN payouts[j] - RakeShare(payouts, rake, j) ELSE payouts[j]
    <3> SUFFICES ASSUME NEW j \in Seats
                 PROVE  left[j] = IF j + 1 \in T THEN payouts[j] - RakeShare(payouts, rake, j)
                                  ELSE payouts[j]
      BY <2>2
    <3>1. CASE j = i
      BY <1>1, <2>3, <3>1 DEF share
    <3>2. CASE j # i
      BY <1>1, <2>3, <3>2 DEF ChargedUpTo
    <3> QED BY <3>1, <3>2
  <2> HIDE DEF i
  <2>6. ASSUME NEW j \in Seats, j + 1 \in T
        PROVE  payouts[j] <= left[l] + before.taken + share
    <3>1. /\ left[l] \in Nat
          /\ l = i => left[l] = payouts[i] - share
          /\ l # i => left[l] = before.payouts[l]
          /\ before.payouts[before.largest] \in Nat /\ payouts[j] \in Nat /\ payouts[i] \in Nat
          /\ before.taken \in Nat /\ share \in Nat
          /\ before.largest = i => before.payouts[before.largest] = payouts[i]
      <4>1. left[l] \in Nat
        BY <1>3, <1>4, <2>2, <2>3, <1>1
      <4> QED BY <1>1, <1>2, <1>3, <1>4, <2>2, <2>3, <4>1
    <3>2. left[l] + share >= before.payouts[before.largest] /\ left[l] + share >= payouts[i]
      BY <2>4, <3>1
    <3>3. CASE j = i
      BY <3>1, <3>2, <3>3
    <3>4. CASE j # i
      <4>1. payouts[j] <= before.payouts[before.largest] + before.taken
        BY <1>1, <2>6, <3>4 DEF ChargedUpTo
      <4> QED BY <3>1, <3>2, <4>1
    <3> QED BY <3>3, <3>4
  <2>7. \A j \in Seats : j + 1 \in T => payouts[j] <= after.payouts[after.largest] + after.taken
    <3>1. left[l] \in Nat /\ before.taken \in Nat /\ share \in Nat
      BY <1>2, <1>3, <2>2, <1>5 DEF Raked
    <3> QED BY <2>2, <2>6, <3>1
  <2> QED BY <1>5, <2>5, <2>7 DEF ChargedUpTo, after, i
<1> QED BY <1>6, <1>7

LEMMA AllCharged ==
    ASSUME NEW payouts \in [Seats -> Nat], NEW rake \in Nat, rake < Total(payouts)
    PROVE  ChargedUpTo(payouts, rake, 1 .. MaxSeats, ChargedInTurn(payouts, rake))
<1> DEFINE D == 1 .. MaxSeats
<1>1. PICK H : ChargesSeats(H, payouts, rake)
  BY ChargesAreRun
<1> DEFINE Good == {T \in SUBSET D : ChargedUpTo(payouts, rake, T, H[T])}
<1>2. ASSUME NEW T \in SUBSET D, \A U \in SUBSET T : U # T => U \in Good
      PROVE  T \in Good
  <2>1. CASE T = {}
    <3>1. H[T] = Untouched(payouts)
      BY <1>1, <2>1 DEF ChargesSeats
    <3>2. Untouched(payouts) \in Raked
      BY SeatsAssumption DEF Untouched, Raked, Seats
    <3>3. Untouched(payouts).payouts = payouts
      BY DEF Untouched
    <3>4. ChargedUpTo(payouts, rake, {}, Untouched(payouts))
      BY <3>2, <3>3 DEF ChargedUpTo
    <3> QED BY <2>1, <3>1, <3>4
  <2>2. CASE T # {}
    <3>1. Max(T) \in T
      BY <2>2, TurnsOfSeats
    <3>2. ChargedUpTo(payouts, rake, T \ {Max(T)}, H[T \ {Max(T)}])
      <4>1. T \ {Max(T)} \in Good
        BY <1>2, <3>1
      <4> QED BY <4>1
    <3>3. H[T] = Charge(rake, Total(payouts), H[T \ {Max(T)}], Max(T) - 1)
      BY <1>1, <2>2 DEF ChargesSeats
    <3>4. ChargedUpTo(payouts, rake, T, H[T])
      <4> HIDE DEF Good
      <4> QED BY <3>1, <3>2, <3>3, OneMoreCharged
    <3> QED BY <3>4
  <2> QED BY <2>1, <2>2
<1>3. D \in Good
  <2> HIDE DEF Good, D
  <2>1. IsFiniteSet(D)
    BY TurnsOfSeats DEF D
  <2> QED BY <1>2, <2>1, SmallerFirst
<1> QED BY <1>1, <1>3 DEF ChargesSeats

LEMMA TotalScaled ==
    ASSUME NEW c \in Int, NEW f, NEW g, \A i \in Seats : f[i] \in Int /\ g[i] = c * f[i]
    PROVE  Total(g) = c * Total(f)
<1> DEFINE Good == {T \in SUBSET Seats : SumFunctionOnSet(g, T) = c * SumFunctionOnSet(f, T)}
<1>1. IsFiniteSet(Seats) /\ \A T \in SUBSET Seats : IsFiniteSet(T)
  BY RingFinite
<1>2. {} \in Good
  BY SumEmpty
<1>3. ASSUME NEW T \in SUBSET Seats, NEW x \in Seats \ T, T \in Good PROVE T \cup {x} \in Good
  <2>1. \A y \in T \cup {x} : f[y] \in Int /\ g[y] = c * f[y] /\ c * f[y] \in Int
    OBVIOUS
  <2>2. SumFunctionOnSet(f, T \cup {x}) = f[x] + SumFunctionOnSet(f, T)
    BY <1>1, <2>1, SumPutIn
  <2>3. SumFunctionOnSet(g, T \cup {x}) = g[x] + SumFunctionOnSet(g, T)
    BY <1>1, <2>1, SumPutIn
  <2>4. SumFunctionOnSet(f, T) \in Int
    BY <1>1, SumInt
  <2>5. PICK a \in Int, b \in Int : a = f[x] /\ b = SumFunctionOnSet(f, T)
    BY <2>4
  <2>6. c * (a + b) = c * a + c * b
    BY ONLY c \in Int, a \in Int, b \in Int
  <2> QED BY <1>3, <2>2, <2>3, <2>5, <2>6
<1>4. Seats \in Good
  <2> HIDE DEF Good
  <2> QED BY <1>1, <1>2, <1>3, OneByOne
<1> QED BY <1>4 DEF Total

(* Who is paid anything. *)
Paid(payouts) == {i \in Seats : payouts[i] > 0}

(* The shares come to the rake, but for less than a chip per winner.       *)
LEMMA SharesOfRake ==
    ASSUME NEW payouts \in [Seats -> Nat], NEW rake \in Nat, Total(payouts) > 0
    PROVE  LET shares == Total([i \in Seats |-> RakeShare(payouts, rake, i)])
           IN  /\ shares \in Nat /\ shares <= rake
               /\ rake - shares < Cardinality(Paid(payouts))
<1> DEFINE paid == Total(payouts)
           share == [i \in Seats |-> RakeShare(payouts, rake, i)]
           product == [i \in Seats |-> rake * payouts[i]]
           whole == [i \in Seats |-> paid * share[i]]
           rest == [i \in Seats |-> product[i] % paid]
           W == Paid(payouts)
           n == Cardinality(W)
<1>1. paid \in Nat /\ paid > 0
  BY TotalNat
<1>2. \A i \in Seats : payouts[i] \in Nat /\ product[i] \in Nat /\ product[i] = rake * payouts[i]
  OBVIOUS
<1>3. \A i \in Seats : share[i] = product[i] \div paid
  BY DEF RakeShare
<1> HIDE DEF paid, product
<1>4. \A i \in Seats : /\ share[i] \in Nat /\ rest[i] \in Nat /\ rest[i] <= paid - 1
                       /\ product[i] = whole[i] + rest[i] /\ whole[i] = paid * share[i]
                       /\ payouts[i] = 0 => rest[i] = 0
  <2> SUFFICES ASSUME NEW i \in Seats
               PROVE  /\ share[i] \in Nat /\ rest[i] \in Nat /\ rest[i] <= paid - 1
                      /\ product[i] = whole[i] + rest[i] /\ whole[i] = paid * share[i]
                      /\ payouts[i] = 0 => rest[i] = 0
    OBVIOUS
  <2>1. PICK p \in Nat : p = product[i]
    BY <1>2
  <2>2. /\ p \div paid \in Nat /\ p % paid \in 0 .. paid - 1
        /\ p % paid = p - paid * (p \div paid)
    BY <1>1, Division, paid \in Nat \ {0}
  <2>3. share[i] = p \div paid /\ rest[i] = p % paid /\ whole[i] = paid * share[i]
    BY <1>3, <2>1
  <2>4. payouts[i] = 0 => p = 0
    BY <1>2, <2>1
  <2>5. 0 % paid = 0
    BY <1>1
  <2> HIDE DEF share, rest, whole
  <2>6. rest[i] \in Nat /\ rest[i] <= paid - 1 /\ share[i] \in Nat
    BY <1>1, <2>2, <2>3
  <2>7. product[i] = whole[i] + rest[i]
    <3>1. PICK a : a = paid * (p \div paid) /\ a \in Int
      BY <1>1, <2>2
    <3> QED BY <2>1, <2>2, <2>3, <3>1
  <2>8. payouts[i] = 0 => rest[i] = 0
    BY ONLY <2>3, <2>4, <2>5
  <2> QED BY <2>3, <2>6, <2>7, <2>8
<1>5. Total(product) = rake * paid
  BY <1>2, TotalScaled DEF paid
<1> HIDE DEF share, rest, whole
<1>6. Total(whole) = paid * Total(share)
  BY <1>1, <1>4, TotalScaled
<1>7. Total(share) \in Nat /\ Total(rest) \in Nat
  BY <1>4, TotalNat
<1>8. Total(product) = Total(whole) + Total(rest)
  <2>1. \A i \in Seats : whole[i] \in Int /\ rest[i] \in Int /\ product[i] = whole[i] + rest[i]
    BY <1>1, <1>4
  <2> QED BY <2>1, TotalAdd
<1>9. IsFiniteSet(W) /\ n \in Nat /\ n > 0
  <2>1. IsFiniteSet(W)
    BY RingFinite DEF Paid
  <2>2. W # {}
    <3>1. ~\A i \in Seats : payouts[i] = 0
      BY <1>1, TotalZero DEF paid
    <3> QED BY <1>2, <3>1 DEF Paid
  <2>3. n \in Nat /\ n # 0
    BY <2>1, <2>2, FS_CardinalityType, FS_EmptySet
  <2> QED BY <2>1, <2>3
<1>10. Total(rest) <= n * (paid - 1)
  <2> DEFINE top == [i \in W |-> paid - 1]
  <2>1. W \cup (Seats \ W) = Seats /\ W \cap (Seats \ W) = {}
    BY DEF Paid
  <2>2. \A i \in W \cup (Seats \ W) : rest[i] \in Int
    BY <1>4, <2>1
  <2>3. IsFiniteSet(Seats \ W)
    BY RingFinite
  <2>4. SumFunctionOnSet(rest, W \cup (Seats \ W))
        = SumFunctionOnSet(rest, W) + SumFunctionOnSet(rest, Seats \ W)
    BY <1>9, <2>1, <2>2, <2>3, SumSplit
  <2>5. SumFunctionOnSet(rest, Seats \ W) = 0
    <3>1. \A i \in Seats \ W : rest[i] = 0
      BY <1>2, <1>4 DEF Paid
    <3> QED BY <2>3, <3>1, SumZero
  <2>6. SumFunctionOnSet(rest, W) <= SumFunctionOnSet(top, W)
    <3>1. \A i \in W : rest[i] \in Int /\ top[i] \in Int /\ rest[i] <= top[i]
      BY <1>1, <1>4 DEF Paid
    <3> QED BY <1>9, <3>1, SumAtLeast
  <2>7. SumFunctionOnSet(top, W) = n * (paid - 1)
    <3>1. \A i \in W : top[i] = paid - 1
      OBVIOUS
    <3>2. paid - 1 \in Int
      BY <1>1
    <3> HIDE DEF top
    <3> QED BY <1>9, <3>1, <3>2, SumConstant
  <2>8. SumFunctionOnSet(rest, W) \in Int
    BY <1>9, <2>2, SumInt
  <2>9. Total(rest) = SumFunctionOnSet(rest, W \cup (Seats \ W))
    BY <2>1 DEF Total
  <2>10. PICK a, b : a = SumFunctionOnSet(rest, W) /\ b = SumFunctionOnSet(top, W)
    OBVIOUS
  <2>11. a \in Int /\ a <= b /\ b = n * (paid - 1) /\ Total(rest) = a + 0
    BY <2>4, <2>5, <2>6, <2>7, <2>8, <2>9, <2>10
  <2> QED BY ONLY <2>11
<1>11. ASSUME NEW t \in Nat, t > 0, NEW S \in Nat, NEW R \in Nat, NEW r \in Nat, NEW m \in Nat, m > 0,
              R * t = t * S + r, r <= m * (t - 1)
       PROVE  S <= R /\ R - S < m
  <2>1. t * (R - S) = r
    BY <1>11
  <2>2. R - S >= 0
    <3> SUFFICES ASSUME R - S <= -1 PROVE FALSE
      OBVIOUS
    <3>1. t * (R - S) <= t * (-1)
      BY <1>11
    <3> QED BY <1>11, <2>1, <3>1
  <2>3. R - S < m
    <3> SUFFICES ASSUME R - S >= m PROVE FALSE
      OBVIOUS
    <3>1. t * (R - S) >= t * m
      BY <1>11
    <3>2. m * (t - 1) = t * m - m
      BY <1>11
    <3>3. t * m \in Nat
      BY <1>11
    <3> QED BY <1>11, <2>1, <3>1, <3>2, <3>3
  <2> QED BY <2>2, <2>3
<1>12. Total(share) <= rake /\ rake - Total(share) < n
  <2>1. rake * paid = paid * Total(share) + Total(rest)
    BY <1>5, <1>6, <1>8
  <2> HIDE DEF n
  <2> QED BY <1>1, <1>7, <1>9, <1>10, <1>11, <2>1
<1> QED BY <1>7, <1>12 DEF share

(* Nothing is put in when nobody puts anything in. *)
LEMMA TotalOfNone ==
    ASSUME NEW f \in [Seats -> Nat], Total(f) = 0
    PROVE  \A i \in Seats : f[i] = 0
<1> SUFFICES ASSUME NEW i \in Seats PROVE f[i] = 0
  OBVIOUS
<1>1. IsFiniteSet(Seats) /\ \A j \in Seats : f[j] \in Int
  BY RingFinite
<1>2. SumFunctionOnSet(f, Seats) = f[i] + SumFunctionOnSet(f, Seats \ {i})
  BY <1>1, SumTakeOut
<1>3. SumFunctionOnSet(f, Seats \ {i}) \in Nat
  <2>1. IsFiniteSet(Seats \ {i}) /\ \A j \in Seats \ {i} : f[j] \in Nat
    BY RingFinite
  <2> QED BY <2>1, SumNat
<1> QED BY <1>2, <1>3 DEF Total

(* Everybody who was paid pays its share, and one of them what the         *)
(* division left over, less than a chip per winner.                        *)
SpreadOver(payouts, rake, kept, l, rest) ==
    /\ l \in Seats /\ rest \in Nat /\ rest < Cardinality(Paid(payouts))
    /\ rest > 0 => l \in Paid(payouts)
    /\ Total([i \in Seats |-> RakeShare(payouts, rake, i)]) + rest = rake
    /\ \A i \in Seats : kept.payouts[i] =
           payouts[i] - RakeShare(payouts, rake, i) - (IF i = l THEN rest ELSE 0)

(* If one payout covers the rake, nothing of it goes uncollected.          *)
LEMMA RakeIsWhole ==
    ASSUME NEW payouts \in [Seats -> Nat], NEW rake \in Nat, rake < Total(payouts),
           \E i \in Seats : payouts[i] >= rake
    PROVE  LET kept == TakeRake(payouts, rake)
           IN  /\ kept.payouts \in [Seats -> Nat] /\ kept.taken = rake
               /\ \E l \in Seats, rest \in Nat : SpreadOver(payouts, rake, kept, l, rest)
<1> DEFINE kept == TakeRake(payouts, rake)
           charged == ChargedInTurn(payouts, rake)
           share == [i \in Seats |-> RakeShare(payouts, rake, i)]
           remainder == rake - charged.taken
           n == Cardinality(Paid(payouts))
<1>1. Total(payouts) \in Nat /\ Total(payouts) > 0
  BY TotalNat
<1>2. /\ Total(share) \in Nat /\ Total(share) <= rake /\ rake - Total(share) < n
  BY <1>1, SharesOfRake
<1>3. \A i \in Seats : share[i] \in Nat /\ share[i] <= payouts[i] /\ payouts[i] \in Nat
                       /\ (payouts[i] = 0 => share[i] = 0)
  BY ShareBelow
<1>4. /\ charged \in Raked /\ Total(charged.payouts) + charged.taken = Total(payouts)
      /\ \A i \in Seats : charged.payouts[i] = 0 <=> payouts[i] = 0
  BY ChargedIs DEF ChargedFairly
<1>5. /\ \A i \in Seats : charged.payouts[i] = payouts[i] - share[i]
      /\ \A i \in Seats : payouts[i] <= charged.payouts[charged.largest] + charged.taken
  <2>1. \A i \in Seats : i + 1 \in 1 .. MaxSeats
    BY SeatsAssumption DEF Seats
  <2>2. ChargedUpTo(payouts, rake, 1 .. MaxSeats, charged)
    BY AllCharged
  <2> HIDE DEF charged
  <2> QED BY <2>1, <2>2 DEF ChargedUpTo
<1>6. CASE rake = 0
  <2>1. kept = Untouched(payouts)
    BY <1>6 DEF TakeRake, Untouched
  <2>2. kept.payouts = payouts /\ kept.taken = rake
    BY <1>6, <2>1 DEF Untouched
  <2>3. \A i \in Seats : RakeShare(payouts, rake, i) = 0
    <3>1. 0 \div Total(payouts) = 0
      BY <1>1
    <3>2. \A i \in Seats : rake * payouts[i] = 0
      BY <1>6
    <3> QED BY <3>1, <3>2 DEF RakeShare
  <2>4. n > 0 /\ 0 \in Seats
    <3>1. 0 \in Seats
      BY SeatsAssumption DEF Seats
    <3>2. n \in Nat
      BY RingFinite, FS_CardinalityType DEF Paid
    <3> HIDE DEF n, share
    <3> QED BY <1>2, <1>6, <3>1, <3>2
  <2>5. SpreadOver(payouts, rake, kept, 0, 0)
    <3>1. Total(share) + 0 = rake
      BY <1>2, <1>6
    <3> HIDE DEF kept
    <3> QED BY <1>3, <2>2, <2>3, <2>4, <3>1 DEF SpreadOver
  <2> QED BY <2>2, <2>4, <2>5
<1>7. CASE rake # 0
  <2>1. kept = TakeRemainder(charged, remainder)
    <3>1. rake > 0 /\ Total(payouts) > 0
      BY <1>1, <1>7
    <3> HIDE DEF share, n
    <3> QED BY ONLY <3>1 DEF TakeRake, ChargedInTurn, Untouched
  <2> HIDE DEF kept, charged, share, n
  <2>2. /\ charged.payouts \in [Seats -> Nat] /\ charged.taken \in Nat /\ charged.largest \in Seats
        /\ Total(charged.payouts) \in Nat
    BY <1>4, TotalNat DEF Raked
  <2>3. charged.taken = Total(share)
    <3>1. \A i \in Seats : /\ charged.payouts[i] \in Int /\ share[i] \in Int
                           /\ payouts[i] = charged.payouts[i] + share[i]
      BY <1>3, <1>5, <2>2
    <3>2. Total(payouts) = Total(charged.payouts) + Total(share)
      BY <3>1, TotalAdd
    <3>3. Total(share) \in Nat /\ Total(charged.payouts) + charged.taken = Total(payouts)
      BY <1>2, <1>4
    <3> QED BY ONLY <2>2, <3>2, <3>3
  <2>4. remainder \in Nat /\ remainder < n /\ charged.taken + remainder = rake
    BY <1>2, <2>3
  <2>5. charged.payouts[charged.largest] >= remainder
    <3>1. PICK i \in Seats : payouts[i] >= rake
      OBVIOUS
    <3>2. payouts[i] <= charged.payouts[charged.largest] + charged.taken
      BY <1>5
    <3>3. charged.payouts[charged.largest] \in Nat /\ payouts[i] \in Nat
      BY <2>2
    <3> QED BY <2>2, <2>4, <3>1, <3>2, <3>3
  <2> DEFINE l == charged.largest
             less == [charged.payouts EXCEPT ![l] = @ - remainder]
  <2>6. kept.payouts = (IF remainder > 0 THEN less ELSE charged.payouts) /\ kept.taken = rake
    <3>1. CASE remainder > 0
      <4>1. kept = [charged EXCEPT !.payouts[l] = @ - remainder, !.taken = @ + remainder]
        BY <2>1, <2>5, <3>1 DEF TakeRemainder
      <4> HIDE DEF remainder
      <4> QED BY <1>4, <2>4, <3>1, <4>1 DEF Raked
    <3>2. CASE ~(remainder > 0)
      <4>1. kept = charged
        BY <2>1, <3>2 DEF TakeRemainder
      <4>2. remainder = 0
        BY <2>4, <3>2
      <4> HIDE DEF remainder
      <4> QED BY <2>2, <2>4, <3>2, <4>1, <4>2
    <3> QED BY <3>1, <3>2
  <2> HIDE DEF remainder
  <2>7. \A i \in Seats : kept.payouts[i] =
           payouts[i] - share[i] - (IF i = l THEN remainder ELSE 0)
    <3> SUFFICES ASSUME NEW i \in Seats
                 PROVE  kept.payouts[i] = payouts[i] - share[i] - (IF i = l THEN remainder ELSE 0)
      OBVIOUS
    <3>1. charged.payouts[i] = payouts[i] - share[i] /\ charged.payouts[i] \in Nat
      BY <1>5, <2>2
    <3>2. kept.payouts[i] = charged.payouts[i] - (IF i = l THEN remainder ELSE 0)
      BY <2>2, <2>4, <2>6, <3>1
    <3> QED BY <3>1, <3>2
  <2>8. kept.payouts \in [Seats -> Nat]
    <3>1. \A i \in Seats : less[i] \in Nat
      BY <2>2, <2>4, <2>5
    <3> QED BY <2>2, <2>6, <3>1
  <2>9. remainder > 0 => l \in Paid(payouts)
    <3>1. remainder > 0 => charged.payouts[l] # 0
      BY <2>2, <2>4, <2>5
    <3> QED BY <1>3, <1>4, <2>2, <3>1 DEF Paid
  <2>10. SpreadOver(payouts, rake, kept, l, remainder)
    <3>1. Total(share) + remainder = rake
      BY <2>3, <2>4
    <3> QED BY <2>2, <2>4, <2>7, <2>9, <3>1 DEF SpreadOver, share, n
  <2> QED BY <2>2, <2>4, <2>6, <2>8, <2>10 DEF kept
<1> QED BY <1>6, <1>7

(* The rake is no more than its rate allows. *)
LEMMA RakeAtRate ==
    ASSUME NEW pot \in Nat, NEW bigBlind \in Nat, NEW flop
    PROVE  10000 * RakeFor(pot, bigBlind, flop) <= pot * RakeBps
<1> DEFINE R == RakeFor(pot, bigBlind, flop)
<1>1. RakeBps \in Nat /\ R \in Nat
  BY RakeAssumption, RakeForIs
<1>2. PICK q \in Nat : q = pot * RakeBps
  BY <1>1
<1>3. CASE R = 0
  <2> HIDE DEF R
  <2> QED BY <1>2, <1>3 DEF R
<1>4. CASE R # 0
  <2>1. R <= q \div 10000
    <3>1. bigBlind * RakeCapBB \in Nat /\ q \div 10000 \in Nat
      <4>1. RakeCapBB \in Nat
        BY RakeAssumption
      <4>2. bigBlind * RakeCapBB \in Nat
        BY <4>1
      <4>3. q \div 10000 \in Nat
        BY <1>2
      <4> QED BY <4>2, <4>3
    <3>2. R = Lesser(Lesser((pot * RakeBps) \div 10000, bigBlind * RakeCapBB), pot)
      BY <1>4 DEF RakeFor
    <3> HIDE DEF R
    <3> QED BY <1>1, <1>2, <3>1, <3>2 DEF Lesser
  <2> HIDE DEF R
  <2> QED BY <1>1, <1>2, <2>1 DEF R
<1> QED BY <1>3, <1>4

(* With so many seats and such a rate somebody is paid more than the rake. *)
LEMMA SomebodyCoversRake ==
    ASSUME MaxSeats * RakeBps <= 10000,
           NEW payouts \in [Seats -> Nat], NEW bigBlind \in Nat, NEW flop
    PROVE  \E i \in Seats : payouts[i] >= RakeFor(Total(payouts), bigBlind, flop)
<1> DEFINE paid == Total(payouts)
           R == RakeFor(paid, bigBlind, flop)
<1>1. paid \in Nat /\ R \in Nat
  BY TotalNat, RakeForIs
<1>2. 0 \in Seats /\ MaxSeats \in Nat /\ RakeBps \in Nat
  BY SeatsAssumption, RakeAssumption DEF Seats
<1>3. CASE R = 0
  BY <1>1, <1>2, <1>3
<1>4. CASE R # 0
  <2>1. 10000 * R <= paid * RakeBps
    BY <1>1, RakeAtRate
  <2> SUFFICES ASSUME \A i \in Seats : payouts[i] <= R - 1 PROVE FALSE
    BY <1>1
  <2> HIDE DEF R, paid
  <2>2. paid <= MaxSeats * (R - 1)
    <3> DEFINE top == [i \in Seats |-> R - 1]
    <3>1. \A i \in Seats : payouts[i] \in Int /\ top[i] \in Int /\ payouts[i] <= top[i]
      BY <1>1
    <3>2. Total(payouts) <= Total(top)
      BY <3>1, RingFinite, SumAtLeast DEF Total
    <3>3. Cardinality(Seats) = MaxSeats
      <4>1. 0 \in Int /\ MaxSeats - 1 \in Int /\ MaxSeats - 1 >= 0
        BY SeatsAssumption
      <4>2. Cardinality(0 .. MaxSeats - 1) = (MaxSeats - 1) - 0 + 1
        BY <4>1, FS_Interval
      <4> QED BY <1>2, <4>2 DEF Seats
    <3>4. \A i \in Seats : top[i] = R - 1
      OBVIOUS
    <3>5. R - 1 \in Int
      BY <1>1
    <3> HIDE DEF top
    <3>6. Total(top) = MaxSeats * (R - 1)
      BY <3>3, <3>4, <3>5, RingFinite, SumConstant DEF Total
    <3> QED BY <3>2, <3>6 DEF paid
  <2>3. ASSUME NEW M \in Nat, NEW B \in Nat, NEW t \in Nat, NEW r \in Nat, r > 0,
               M * B <= 10000, t <= M * (r - 1), 10000 * r <= t * B
        PROVE  FALSE
    <3>1. t * B <= (M * (r - 1)) * B
      BY <2>3
    <3>2. (M * (r - 1)) * B = (M * B) * (r - 1)
      BY <2>3
    <3>3. (M * B) * (r - 1) <= 10000 * (r - 1)
      BY <2>3
    <3> QED BY <2>3, <3>1, <3>2, <3>3
  <2> QED BY <1>1, <1>2, <1>4, <2>1, <2>2, <2>3
<1> QED BY <1>3, <1>4

-----------------------------------------------------------------------------
(* One hand's money by itself: module Settlement.                          *)

(* What a hand leaves in the seat accounts, and the rank given to everybody. *)
HandOK ==
    /\ contributions \in [Seats -> Nat] /\ hasFolded \in [Seats -> BOOLEAN]
    /\ Alive(contributions, hasFolded) # {}
    /\ RanksShown \in [Seats -> Int]
    /\ \A i \in Alive(contributions, hasFolded) : RanksShown[i] # NoRank
    /\ dealerButton \in Seats /\ sawFlop \in BOOLEAN

Award == Distribute(BuildPots(contributions, hasFolded), RanksShown, dealerButton)
RakeOf(payouts) == RakeFor(Total(payouts), Blind, sawFlop)

MoneyIInv ==
    /\ HandOK
    /\ outcome # "open" =>
           /\ outcome = "settled" /\ dist = Award
           /\ raked = TakeRake(Award.payouts, RakeOf(Award.payouts))

(* Everything that was put in is owed to those still in.                   *)
LEMMA AwardIs ==
    ASSUME HandOK
    PROVE  /\ Award.payouts \in [Seats -> Nat] /\ Award.unclaimed = 0
           /\ Total(Award.payouts) = Total(contributions) /\ Total(contributions) > 0
           /\ Paid(Award.payouts) \subseteq Alive(contributions, hasFolded)
           /\ RakeOf(Award.payouts) \in Nat /\ RakeOf(Award.payouts) < Total(Award.payouts)
<1> DEFINE pots == BuildPots(contributions, hasFolded)
           alive == Alive(contributions, hasFolded)
           ranks == RanksShown
<1>1. /\ pots \in Seq(Pot) /\ Amounts(pots) = Total(contributions)
      /\ \A k \in 1 .. Len(pots) : pots[k].eligible \subseteq alive
      /\ \A k \in 1 .. Len(pots) : pots[k].eligible # {}
  BY PotsHoldTheStakes DEF HandOK
<1>2. ranks \in [Seats -> Int] /\ dealerButton \in Seats
  BY DEF HandOK
<1> HIDE DEF pots, ranks, alive
<1> DEFINE owed == Distribute(pots, ranks, dealerButton)
<1>3. /\ owed.payouts \in [Seats -> Nat] /\ owed.unclaimed \in Nat
      /\ Total(owed.payouts) + owed.unclaimed = Amounts(pots)
      /\ \A i \in Seats : (\A k \in 1 .. Len(pots) : i \notin pots[k].eligible)
                             => owed.payouts[i] = 0
      /\ (\A k \in 1 .. Len(pots) : pots[k].eligible # {}) => owed.unclaimed = 0
  BY <1>1, <1>2, PotsArePaidOut
<1>4. Award = owed
  BY DEF Award, pots, ranks
<1> HIDE DEF owed
<1>5. owed.unclaimed = 0 /\ Total(owed.payouts) = Total(contributions)
  <2>1. Total(owed.payouts) \in Nat
    BY <1>3, TotalNat
  <2> QED BY <1>1, <1>3, <2>1
<1>6. Total(contributions) > 0
  <2>1. contributions \in [Seats -> Nat] /\ \E i \in Seats : contributions[i] # 0
    BY DEF HandOK, Alive
  <2>2. Total(contributions) # 0
    BY <2>1, TotalOfNone
  <2>3. Total(contributions) \in Nat
    BY <2>1, TotalNat
  <2> QED BY <2>2, <2>3
<1>7. Paid(owed.payouts) \subseteq alive
  BY <1>1, <1>3 DEF Paid
<1>8. RakeOf(owed.payouts) \in Nat /\ RakeOf(owed.payouts) < Total(owed.payouts)
  <2>1. Blind \in Nat /\ Total(owed.payouts) \in Nat
    BY <1>3, TotalNat, InputsAssumption
  <2> QED BY <1>5, <1>6, <2>1, RakeForIs DEF RakeOf
<1> QED BY <1>3, <1>4, <1>5, <1>6, <1>7, <1>8 DEF alive

LEMMA MoneyStarts == SettlementInit => MoneyIInv
<1> SUFFICES ASSUME SettlementInit PROVE MoneyIInv
  OBVIOUS
<1>1. /\ contributions \in [Seats -> Nat] /\ hasFolded \in [Seats -> BOOLEAN]
      /\ dealerButton \in Seats /\ sawFlop \in BOOLEAN
  BY InputsAssumption DEF SettlementInit
<1>2. Live = Alive(contributions, hasFolded)
  BY <1>1 DEF Live, Alive
<1>3. Alive(contributions, hasFolded) # {}
  BY <1>2 DEF SettlementInit
<1>4. /\ RanksShown \in [Seats -> Int]
      /\ \A i \in Live : RanksShown[i] # NoRank
  <2>1. shown \in [Live -> ShowdownRanks] /\ ShowdownRanks \subseteq Nat
    BY InputsAssumption DEF SettlementInit
  <2>2. NoRank \in Int /\ NoRank = -1 /\ \A i \in Live : i \in Seats
    BY DEF NoRank, Live
  <2>3. \A i \in Live : shown[i] \in Nat
    <3>1. ASSUME NEW D, NEW R \in SUBSET Nat, NEW f \in [D -> R], NEW i \in D PROVE f[i] \in Nat
      <4>1. f[i] \in R
        OBVIOUS
      <4> QED BY <4>1
    <3> QED BY <2>1, <3>1
  <2> QED BY <2>2, <2>3 DEF RanksShown
<1>5. outcome = "open"
  BY DEF SettlementInit
<1> QED BY <1>1, <1>2, <1>3, <1>4, <1>5 DEF MoneyIInv, HandOK

(* What SettleMoney reads stays put, so everything said of it does. *)
LEMMA MoneyMoves ==
    ASSUME MoneyIInv, [SettlementNext]_settlementVars
    PROVE  MoneyIInv'
<1>1. UNCHANGED <<contributions, hasFolded, shown, dealerButton, sawFlop>>
  BY DEF SettlementNext, SettleMoney, settlementVars, handVars
<1>2. /\ HandOK' = HandOK /\ Award' = Award /\ RanksShown' = RanksShown
      /\ RakeOf(Award.payouts)' = RakeOf(Award.payouts)
  BY <1>1 DEF HandOK, Award, RakeOf, RanksShown, Live
<1>3. HandOK /\ HandOK'
  BY <1>2 DEF MoneyIInv
<1>4. CASE SettleMoney
  <2>1. Distribute(BuildPots(contributions, hasFolded), RanksShown, dealerButton) = Award
    BY DEF Award
  <2>2. RakeFor(Total(Award.payouts), Blind, sawFlop) = RakeOf(Award.payouts)
    BY DEF RakeOf
  <2>3. TakeRake(Award.payouts, RakeOf(Award.payouts))
        = TakeRake(Award.payouts, RakeOf(Award.payouts))
    OBVIOUS
  <2>4. Award.unclaimed = 0
    BY <1>3, AwardIs
  <2>5. /\ outcome' = "settled" /\ dist' = Award
        /\ raked' = TakeRake(Award.payouts, RakeOf(Award.payouts))
    BY <1>4, <2>1, <2>2, <2>3, <2>4 DEF SettleMoney
  <2>6. TakeRake(Award.payouts, RakeOf(Award.payouts))' = TakeRake(Award.payouts, RakeOf(Award.payouts))
    BY <1>1 DEF Award, RakeOf, RanksShown, Live
  <2> QED BY <1>2, <1>3, <2>5, <2>6 DEF MoneyIInv
<1>5. CASE UNCHANGED settlementVars
  <2>1. outcome' = outcome /\ dist' = dist /\ raked' = raked
    BY <1>5 DEF settlementVars
  <2>2. TakeRake(Award.payouts, RakeOf(Award.payouts))' = TakeRake(Award.payouts, RakeOf(Award.payouts))
    BY <1>1 DEF Award, RakeOf, RanksShown, Live
  <2> QED BY <1>2, <1>3, <2>1, <2>2 DEF MoneyIInv
<1> QED BY <1>4, <1>5 DEF SettlementNext

(* What the winners pay, once the hand is settled. *)
LEMMA MoneyPaid ==
    ASSUME MaxSeats * RakeBps <= 10000, MoneyIInv, outcome = "settled"
    PROVE  /\ dist.payouts \in [Seats -> Nat] /\ Total(dist.payouts) = Total(contributions)
           /\ Paid(dist.payouts) \subseteq Alive(contributions, hasFolded)
           /\ raked.payouts \in [Seats -> Nat] /\ raked.taken \in Nat
           /\ raked.taken = RakeFor(Total(contributions), Blind, sawFlop)
           /\ raked.taken < Total(contributions)
           /\ Total(raked.payouts) + raked.taken = Total(contributions)
           /\ \E l \in Seats, rest \in Nat : SpreadOver(dist.payouts, raked.taken, raked, l, rest)
<1>1. /\ HandOK /\ dist = Award /\ raked = TakeRake(Award.payouts, RakeOf(Award.payouts))
  BY DEF MoneyIInv
<1> DEFINE payouts == Award.payouts
           rake == RakeOf(payouts)
<1>2. /\ payouts \in [Seats -> Nat] /\ Total(payouts) = Total(contributions)
      /\ Paid(payouts) \subseteq Alive(contributions, hasFolded)
      /\ rake \in Nat /\ rake < Total(payouts)
  BY <1>1, AwardIs
<1>3. rake = RakeFor(Total(contributions), Blind, sawFlop)
  BY <1>2 DEF RakeOf
<1>4. \E i \in Seats : payouts[i] >= rake
  <2>1. Blind \in Nat
    BY InputsAssumption
  <2> HIDE DEF payouts
  <2> QED BY <1>2, <1>3, <2>1, SomebodyCoversRake
<1> HIDE DEF payouts, rake
<1>5. raked = TakeRake(payouts, rake) /\ dist.payouts = payouts
  BY <1>1 DEF payouts, rake
<1>6. /\ TakeRake(payouts, rake).payouts \in [Seats -> Nat] /\ TakeRake(payouts, rake).taken = rake
      /\ \E l \in Seats, rest \in Nat : SpreadOver(payouts, rake, TakeRake(payouts, rake), l, rest)
  BY <1>2, <1>4, RakeIsWhole
<1>7. Total(TakeRake(payouts, rake).payouts) + TakeRake(payouts, rake).taken = Total(payouts)
  BY <1>2, RakeIsTaken
<1> QED BY <1>2, <1>3, <1>5, <1>6, <1>7

(* Every seat is charged its share, one of them what is left over. *)
LEMMA ChargesAre ==
    ASSUME MaxSeats * RakeBps <= 10000, MoneyIInv, outcome = "settled",
           NEW l \in Seats, NEW rest \in Nat,
           SpreadOver(dist.payouts, raked.taken, raked, l, rest), NEW i \in Seats
    PROVE  /\ FairCharge(i) \in Nat
           /\ ChargedTo(i) = FairCharge(i) + (IF i = l THEN rest ELSE 0)
<1>1. /\ dist.payouts \in [Seats -> Nat] /\ raked.taken \in Nat
      /\ raked.taken < Total(dist.payouts)
  BY MoneyPaid
<1>2. FairCharge(i) = RakeShare(dist.payouts, raked.taken, i)
  BY DEF FairCharge, RakeShare
<1>3. RakeShare(dist.payouts, raked.taken, i) \in Nat
  BY <1>1, ShareBelow
<1>4. raked.payouts[i] = dist.payouts[i] - RakeShare(dist.payouts, raked.taken, i)
                                         - (IF i = l THEN rest ELSE 0)
  BY DEF SpreadOver
<1>5. dist.payouts[i] \in Nat
  BY <1>1
<1> QED BY <1>2, <1>3, <1>4, <1>5 DEF ChargedTo

LEMMA MoneyIsFair ==
    ASSUME MaxSeats * RakeBps <= 10000, MoneyIInv, outcome = "settled"
    PROVE  RakeIsFair
<1>1. PICK l \in Seats, rest \in Nat : SpreadOver(dist.payouts, raked.taken, raked, l, rest)
  BY MoneyPaid
<1>2. Total(raked.payouts) + raked.taken = Total(contributions)
  BY MoneyPaid
<1>3. raked.taken = IF sawFlop THEN RakeFor(Total(contributions), Blind, TRUE) ELSE 0
  <2>1. raked.taken = RakeFor(Total(contributions), Blind, sawFlop)
    BY MoneyPaid
  <2> QED BY ONLY <2>1 DEF RakeFor, Lesser
<1>4. ASSUME NEW i \in Seats
      PROVE  /\ FairCharge(i) \in Nat
             /\ ChargedTo(i) = FairCharge(i) + (IF i = l THEN rest ELSE 0)
  BY <1>1, ChargesAre
<1>5. rest < Cardinality(Live) /\ Cardinality(Live) \in Nat
  <2>1. Live = Alive(contributions, hasFolded)
    <3>1. contributions \in [Seats -> Nat]
      BY DEF MoneyIInv, HandOK
    <3> QED BY <3>1 DEF Live, Alive
  <2>2. Paid(dist.payouts) \subseteq Alive(contributions, hasFolded) /\ IsFiniteSet(Alive(contributions, hasFolded))
    BY MoneyPaid, RingFinite DEF Alive
  <2>3. Cardinality(Paid(dist.payouts)) <= Cardinality(Alive(contributions, hasFolded))
    BY <2>2, FS_Subset
  <2>4. /\ Cardinality(Paid(dist.payouts)) \in Nat /\ Cardinality(Alive(contributions, hasFolded)) \in Nat
    BY <2>2, FS_Subset, FS_CardinalityType
  <2>5. rest < Cardinality(Paid(dist.payouts))
    BY <1>1 DEF SpreadOver
  <2> QED BY <2>1, <2>3, <2>4, <2>5
<1> DEFINE charged(i) == ChargedTo(i)
           fair(i) == FairCharge(i)
           live == Cardinality(Live)
<1>6. \A i \in Seats : charged(i) >= fair(i) /\ charged(i) < fair(i) + live
  BY <1>4, <1>5
<1>7. \A i, j \in Seats : charged(i) > fair(i) /\ charged(j) > fair(j) => i = j
  <2>1. ASSUME NEW i \in Seats, charged(i) > fair(i) PROVE i = l
    BY <1>4, <2>1
  <2> HIDE DEF charged, fair
  <2> QED BY <2>1
<1>8. /\ \A i \in Seats : ChargedTo(i) >= FairCharge(i)
      /\ \A i, j \in Seats : ChargedTo(i) > FairCharge(i) /\ ChargedTo(j) > FairCharge(j) => i = j
      /\ \A i \in Seats : ChargedTo(i) < FairCharge(i) + Cardinality(Live)
  BY <1>6, <1>7
<1> QED BY ONLY <1>2, <1>3, <1>8 DEF RakeIsFair

(* The rake is taken whole and spread over the winners in proportion, the  *)
(* last chips of it charged to one of them, whatever was put in, folded    *)
(* and shown, at every number of seats and every rate that leave some      *)
(* winner more than the rake (the program's: 6 seats, 250 in 10000).       *)
THEOREM RakeFairCorrect ==
    ASSUME MaxSeats * RakeBps <= 10000
    PROVE  SettlementSpec => []RakeIsFair
<1>1. SettlementInit => MoneyIInv
  BY MoneyStarts
<1>2. MoneyIInv /\ [SettlementNext]_settlementVars => MoneyIInv'
  BY MoneyMoves
<1>3. MoneyIInv => RakeIsFair
  <2>1. CASE outcome = "settled"
    BY <2>1, MoneyIsFair
  <2>2. CASE outcome # "settled"
    BY <2>2 DEF RakeIsFair
  <2> QED BY <2>1, <2>2
<1> QED BY <1>1, <1>2, <1>3, PTL DEF SettlementSpec

-----------------------------------------------------------------------------
(* The reference payout: the module's folds are sums.                      *)

(* Terms numbered without repetition. *)
LEMMA SumNumbered ==
    ASSUME NEW n \in Nat, NEW D, IsFiniteSet(D), NEW s, Numbering(s, n, D),
           NEW f, NEW g, \A x \in D : f[x] \in Int, \A k \in 1 .. n : g[k] = f[s[k]]
    PROVE  SumFunctionOnSet(g, 1 .. n) = SumFunctionOnSet(f, D)
<1> DEFINE S == 1 .. n
           by == [x \in D |-> SumFunctionOnSet(g, {k \in S : s[k] = x})]
<1>0. /\ \A k \in S : s[k] \in D
      /\ \A x \in D : \E k \in S : s[k] = x
      /\ \A j, k \in S : s[j] = s[k] => j = k
  BY DEF Numbering
<1>1. IsFiniteSet(S) /\ (\A k \in S : s[k] \in D) /\ \A k \in S : g[k] \in Int
  BY <1>0, FirstOnes
<1>2. SumFunctionOnSet(by, D) = SumFunctionOnSet(g, S)
  <2>1. IsFiniteSet(D)
    OBVIOUS
  <2> HIDE DEF S
  <2> QED BY ONLY <1>1, <2>1, SumByClass
<1>3. ASSUME NEW x \in D PROVE by[x] = f[x]
  <2>1. PICK k \in S : s[k] = x
    BY <1>0
  <2>2. {j \in S : s[j] = x} = {} \cup {k}
    BY <1>0, <2>1
  <2>3. g[k] = f[x] /\ g[k] \in Int
    BY <2>1
  <2>4. SumFunctionOnSet(g, {} \cup {k}) = g[k] + SumFunctionOnSet(g, {})
    <3>1. IsFiniteSet({}) /\ k \notin {} /\ \A y \in {} \cup {k} : g[y] \in Int
      BY <2>3, FS_EmptySet
    <3> QED BY <3>1, SumPutIn
  <2>5. SumFunctionOnSet(g, {}) = 0
    BY SumEmpty
  <2>6. by[x] = SumFunctionOnSet(g, {} \cup {k})
    BY <2>2
  <2> HIDE DEF S, by
  <2> QED BY <2>3, <2>4, <2>5, <2>6
<1> HIDE DEF by, S
<1>4. SumFunctionOnSet(by, D) = SumFunctionOnSet(f, D)
  BY <1>3, SumSame
<1> QED BY <1>2, <1>4 DEF S

LEMMA LiveIs ==
    ASSUME HandOK
    PROVE  /\ Live = Alive(contributions, hasFolded)
           /\ LiveStakes = Held(contributions, hasFolded)
<1>1. contributions \in [Seats -> Nat]
  BY DEF HandOK
<1>2. Live = Alive(contributions, hasFolded)
  BY <1>1 DEF Live, Alive
<1> QED BY <1>2 DEF LiveStakes, Stake, Held

(* What a stake has between two levels, counted and subtracted.            *)
LEMMA BetweenIs ==
    ASSUME NEW j, contributions[j] \in Nat, NEW low \in Nat, NEW high \in Nat, low <= high
    PROVE  Between(j, low, high) = Lesser(contributions[j], high) - Lesser(contributions[j], low)
<1> DEFINE c == contributions[j]
           a == low + 1
           b == Lesser(c, high)
           S == {chip \in 1 .. c : low < chip /\ chip <= high}
<1>1. a \in Int /\ b \in Nat /\ b \in Int
  BY DEF Lesser
<1>2. S = a .. b
  <2>1. \A chip \in Int : chip \in S <=> chip \in a .. b
    BY DEF Lesser
  <2>2. \A chip : (chip \in S => chip \in Int) /\ (chip \in a .. b => chip \in Int)
    BY <1>1
  <2> HIDE DEF S, a, b
  <2> QED BY <2>1, <2>2
<1>3. Cardinality(a .. b) = IF a > b THEN 0 ELSE b - a + 1
  <2> HIDE DEF a, b
  <2> QED BY <1>1, FS_Interval
<1>4. Between(j, low, high) = Cardinality(S)
  BY DEF Between, Stake
<1>5. Cardinality(S) = Cardinality(a .. b)
  BY <1>2
<1> QED BY <1>1, <1>3, <1>4, <1>5 DEF Lesser

LEMMA LowAndHigh ==
    ASSUME HandOK, NEW x \in Held(contributions, hasFolded)
    PROVE  LET low == Low(contributions, hasFolded, x)
               high == High(contributions, hasFolded, x)
           IN  low \in Nat /\ high \in Nat /\ low <= high
<1> DEFINE H == Held(contributions, hasFolded)
           B == {0} \cup {y \in H : y < x}
           C == {contributions[i] : i \in Seats}
<1>1. /\ contributions \in [Seats -> Nat]
      /\ H \in SUBSET (Nat \ {0}) /\ H \in SUBSET Int /\ IsFiniteSet(H)
      /\ C \in SUBSET Int /\ IsFiniteSet(C)
  BY HeldAre, HeldFinite DEF HandOK
<1>2. x \in Nat /\ x \in C /\ \A y \in C : y \in Nat
  BY <1>1 DEF Held, Alive
<1>3. Low(contributions, hasFolded, x) \in Nat /\ Low(contributions, hasFolded, x) < x
  <2>1. IsFiniteSet({y \in H : y < x})
    BY <1>1, FS_Subset
  <2>2. B = {y \in H : y < x} \cup {0}
    OBVIOUS
  <2>3. IsFiniteSet({y \in H : y < x} \cup {0})
    BY <2>1, FS_AddElement
  <2>4. \A y \in B : y \in Nat /\ y < x
    BY <1>1
  <2>5. B \in SUBSET Int /\ IsFiniteSet(B) /\ B # {}
    <3>1. 0 \in B
      OBVIOUS
    <3>2. IsFiniteSet(B)
      BY <2>2, <2>3
    <3> HIDE DEF B
    <3> QED BY <2>4, <3>1, <3>2
  <2>6. Max(B) \in B
    <3> HIDE DEF B
    <3> QED BY <2>5, MaxIn
  <2>7. Low(contributions, hasFolded, x) = Max(B)
    BY DEF Low
  <2> HIDE DEF B
  <2> QED BY <2>4, <2>6, <2>7
<1>4. High(contributions, hasFolded, x) \in Nat /\ x <= High(contributions, hasFolded, x)
  <2>1. C # {}
    BY <1>2
  <2>2. Max(C) \in C /\ \A y \in C : y <= Max(C)
    <3> HIDE DEF C
    <3> QED BY <1>1, <2>1, MaxIn
  <2>3. High(contributions, hasFolded, x) = IF x = Max(H) THEN Max(C) ELSE x
    BY DEF High
  <2>4. Max(C) \in Nat /\ x <= Max(C)
    BY <1>2, <2>2
  <2>5. x <= x
    BY <1>2
  <2> HIDE DEF H, C
  <2> QED BY <1>2, <2>3, <2>4, <2>5
<1> QED BY <1>2, <1>3, <1>4

LEMMA RefPotIs ==
    ASSUME HandOK, NEW x \in Held(contributions, hasFolded)
    PROVE  RefPot(x) = BandAmount(contributions, Low(contributions, hasFolded, x),
                                         High(contributions, hasFolded, x))
<1> DEFINE low == Max({0} \cup {y \in LiveStakes : y < x})
           high == IF x = Max(LiveStakes)
                   THEN Max({Stake(i) : i \in Seats}) ELSE x
           body(F) == [T \in SUBSET Seats |->
                          IF T = {} THEN 0
                          ELSE Between(CHOOSE i \in T : TRUE, low, high)
                               + F[T \ {CHOOSE i \in T : TRUE}]]
           F == CHOOSE F : F = body(F)
           f == [i \in Seats |-> Lesser(contributions[i], high) - Lesser(contributions[i], low)]
<1>1. RefPot(x) = F[Seats]
  BY DEF RefPot, MapThenSumSet, MapThenFoldSet
<1>2. low = Low(contributions, hasFolded, x) /\ high = High(contributions, hasFolded, x)
  <2>1. /\ LiveStakes = Held(contributions, hasFolded)
        /\ {Stake(i) : i \in Seats} = {contributions[i] : i \in Seats}
    BY LiveIs DEF Stake
  <2> QED BY <2>1 DEF Low, High
<1>3. contributions \in [Seats -> Nat] /\ low \in Nat /\ high \in Nat /\ low <= high
  BY <1>2, LowAndHigh DEF HandOK
<1> HIDE DEF low, high
<1>4. IsFiniteSet(Seats) /\ \A i \in Seats : /\ f[i] \in Int
                                             /\ Between(i, low, high) = f[i]
  <2>1. ASSUME NEW i \in Seats
        PROVE  f[i] \in Int /\ Between(i, low, high) = f[i]
    <3>1. contributions[i] \in Nat
      BY <1>3
    <3>2. f[i] \in Int
      BY <1>3, <3>1 DEF Lesser
    <3> QED BY <1>3, <3>1, <3>2, BetweenIs
  <2> QED BY <2>1, RingFinite
<1> HIDE DEF f
<1>5. PICK G \in [SUBSET Seats -> Int] : Adds(G, Seats, f) /\ SumFunctionOnSet(f, Seats) = G[Seats]
  BY <1>4, SumUnfolds
<1>6. \A T \in SUBSET Seats : T # {} => (CHOOSE i \in T : TRUE) \in Seats
  OBVIOUS
<1>7. G = body(G)
  BY <1>4, <1>5, <1>6 DEF Adds
<1>8. F = body(F)
  BY <1>7
<1> HIDE DEF F
<1>9. Adds(F, Seats, f)
  BY <1>4, <1>6, <1>8 DEF Adds
<1>10. SumFunctionOnSet(f, Seats) = F[Seats]
  BY <1>4, <1>9, AddsIsSum
<1>11. BandAmount(contributions, low, high) = SumFunctionOnSet(f, Seats)
  BY DEF BandAmount, Total, f
<1> QED BY <1>1, <1>2, <1>2, <1>10, <1>11

(* The pot of a stake, and who wins it. *)
PotOf(x) == PotAt(contributions, hasFolded, x)

LEMMA PotOfIs ==
    ASSUME HandOK, NEW x \in Held(contributions, hasFolded)
    PROVE  /\ PotOf(x) \in Pot
           /\ RefPot(x) = PotOf(x).amount
           /\ RefWinners(x) = Winners(PotOf(x), RanksShown)
<1>1. PotOf(x).amount \in Nat /\ PotOf(x).eligible = Staked(contributions, hasFolded, x)
  BY LowAndHigh, BandIs DEF PotOf, PotAt, HandOK
<1>2. PotOf(x) \in Pot
  BY <1>1 DEF PotOf, PotAt, Pot, Staked, Alive
<1>3. RefPot(x) = PotOf(x).amount
  BY RefPotIs DEF PotOf, PotAt
<1>4. Staked(contributions, hasFolded, x) # {}
  BY HeldAre DEF HandOK
<1>5. \A i \in Staked(contributions, hasFolded, x) : RanksShown[i] # NoRank
  BY DEF HandOK, Staked
<1>6. RefWinners(x) = {i \in Staked(contributions, hasFolded, x) :
          \A j \in Staked(contributions, hasFolded, x) : RanksShown[j] <= RanksShown[i]}
  BY LiveIs DEF RefWinners, Stake, Staked
<1>7. Winners(PotOf(x), RanksShown) = {i \in Staked(contributions, hasFolded, x) :
          \A j \in Staked(contributions, hasFolded, x) : RanksShown[j] <= RanksShown[i]}
  BY <1>1, <1>4, <1>5 DEF Winners
<1> QED BY <1>2, <1>3, <1>6, <1>7

(* Dealt out chip by chip it gives everybody the part distribute does.     *)
LEMMA RefShareIs ==
    ASSUME HandOK, NEW x \in Held(contributions, hasFolded), NEW i \in Seats
    PROVE  /\ RefShare(x, i) = Part(RanksShown, dealerButton, PotOf(x), i)
           /\ RefShare(x, i) \in Int
<1> DEFINE W == Winners(PotOf(x), RanksShown)
           amount == PotOf(x).amount
           before == Cardinality({j \in W : Steps(dealerButton, j) < Steps(dealerButton, i)})
<1>1. /\ PotOf(x) \in Pot /\ RefPot(x) = amount /\ RefWinners(x) = W
      /\ RanksShown \in [Seats -> Int] /\ dealerButton \in Seats
  BY PotOfIs DEF HandOK
<1>2. W \in SUBSET Seats /\ amount \in Nat
  BY <1>1, WinnersAre DEF Pot
<1>3. RefShare(x, i) = IF i \notin W THEN 0
                       ELSE Cardinality({chip \in 1 .. amount : (chip - 1) % Cardinality(W) = before})
  <2> HIDE DEF W, amount
  <2> QED BY <1>1 DEF RefShare
<1>4. Part(RanksShown, dealerButton, PotOf(x), i) = IF i \in W THEN Share(amount, W, dealerButton, i) ELSE 0
  BY DEF Part
<1>5. Part(RanksShown, dealerButton, PotOf(x), i) \in Nat
  <2>1. NothingYet \in Dist
    BY DEF NothingYet, Dist
  <2> QED BY <1>1, <2>1, PartIs
<1> HIDE DEF W, amount
<1>6. i \in W => Share(amount, W, dealerButton, i)
                 = Cardinality({chip \in 1 .. amount : (chip - 1) % Cardinality(W) = before})
  BY <1>1, <1>2, ShareIsDealt
<1> QED BY <1>3, <1>4, <1>5, <1>6

LEMMA RefPayoutIs ==
    ASSUME HandOK, NEW i \in Seats
    PROVE  LET share == [x \in Held(contributions, hasFolded) |-> RefShare(x, i)]
           IN  RefPayout(i) = SumFunctionOnSet(share, Held(contributions, hasFolded))
<1> DEFINE H == Held(contributions, hasFolded)
           f == [x \in H |-> RefShare(x, i)]
           body(F) == [T \in SUBSET H |->
                          IF T = {} THEN 0
                          ELSE RefShare(CHOOSE x \in T : TRUE, i)
                               + F[T \ {CHOOSE x \in T : TRUE}]]
<1>1. IsFiniteSet(H) /\ \A x \in H : f[x] \in Int /\ f[x] = RefShare(x, i)
  BY HeldFinite, RefShareIs DEF HandOK
<1>2. LiveStakes = H
  BY LiveIs
<1> HIDE DEF f, H
<1>3. PICK G \in [SUBSET H -> Int] : Adds(G, H, f) /\ SumFunctionOnSet(f, H) = G[H]
  BY <1>1, SumUnfolds
<1>4. \A T \in SUBSET H : T # {} => (CHOOSE x \in T : TRUE) \in H
  OBVIOUS
<1>5. G = body(G)
  BY <1>1, <1>3, <1>4 DEF Adds
<1> DEFINE F == CHOOSE F : F = body(F)
<1>6. F = body(F)
  BY <1>5
<1>7. RefPayout(i) = F[H]
  BY <1>2 DEF RefPayout, MapThenSumSet, MapThenFoldSet
<1> HIDE DEF F
<1>8. Adds(F, H, f)
  BY <1>1, <1>4, <1>6 DEF Adds
<1>9. SumFunctionOnSet(f, H) = F[H]
  BY <1>1, <1>8, AddsIsSum
<1> QED BY <1>7, <1>9 DEF f, H

LEMMA AwardIsReference ==
    ASSUME HandOK, NEW i \in Seats
    PROVE  Award.payouts[i] = RefPayout(i)
<1> DEFINE pots == BuildPots(contributions, hasFolded)
           n == Len(pots)
           H == Held(contributions, hasFolded)
           part == [k \in 1 .. n |-> Part(RanksShown, dealerButton, pots[k], i)]
           share == [x \in H |-> RefShare(x, i)]
<1>1. /\ contributions \in [Seats -> Nat] /\ hasFolded \in [Seats -> BOOLEAN]
      /\ Alive(contributions, hasFolded) # {}
      /\ RanksShown \in [Seats -> Int] /\ dealerButton \in Seats
  BY DEF HandOK
<1>2. pots \in Seq(Pot) /\ n \in Nat
  <2>1. pots \in Seq(Pot)
    BY <1>1, PotsHoldTheStakes
  <2> QED BY <2>1
<1>3. PICK s : Numbering(s, n, H) /\ \A k \in 1 .. n : pots[k] = PotOf(s[k])
  BY <1>1, PotsFollowTheStakes DEF PotOf
<1>4. Award.payouts[i] = SumFunctionOnSet(part, 1 .. n)
  <2> HIDE DEF pots
  <2>1. Distribute(pots, RanksShown, dealerButton).payouts[i] = SumFunctionOnSet(part, 1 .. n)
    BY <1>1, <1>2, PartsArePaid
  <2> QED BY <2>1 DEF Award, pots
<1>5. RefPayout(i) = SumFunctionOnSet(share, H)
  BY RefPayoutIs
<1>6. \A x \in H : share[x] \in Int /\ share[x] = Part(RanksShown, dealerButton, PotOf(x), i)
  BY RefShareIs
<1>7. \A k \in 1 .. n : part[k] = share[s[k]]
  <2> SUFFICES ASSUME NEW k \in 1 .. n PROVE part[k] = share[s[k]]
    OBVIOUS
  <2>1. s[k] \in H /\ pots[k] = PotOf(s[k])
    BY <1>3 DEF Numbering
  <2> HIDE DEF share, pots, n
  <2> QED BY <1>6, <2>1
<1>8. IsFiniteSet(H)
  BY <1>1, HeldFinite
<1> HIDE DEF part, share, H, n
<1>9. SumFunctionOnSet(part, 1 .. n) = SumFunctionOnSet(share, H)
  <2>1. \A x \in H : share[x] \in Int
    BY <1>6
  <2> QED BY <1>2, <1>3, <1>7, <1>8, <2>1, SumNumbered
<1> QED BY <1>4, <1>5, <1>9

(* Settlement always comes off, and pays every seat what the reference     *)
(* does: side pots, ties and odd chips (build_pots and distribute).        *)
THEOREM PaysCorrect ==
    ASSUME Stakes \subseteq Nat
    PROVE  SettlementSpec => []PaysTheReference
<1>1. SettlementInit => MoneyIInv
  BY MoneyStarts
<1>2. MoneyIInv /\ [SettlementNext]_settlementVars => MoneyIInv'
  BY MoneyMoves
<1>3. MoneyIInv => PaysTheReference
  BY AwardIsReference DEF MoneyIInv, PaysTheReference
<1> QED BY <1>1, <1>2, <1>3, PTL DEF SettlementSpec

-----------------------------------------------------------------------------
(* The books kept off chain.                                               *)

(* Sums of what is nothing but at one seat, or but at two. *)
LEMMA TotalSingle ==
    ASSUME NEW f, NEW w \in Seats, f[w] \in Int, \A i \in Seats : i # w => f[i] = 0
    PROVE  Total(f) = f[w]
<1>1. IsFiniteSet(Seats) /\ IsFiniteSet(Seats \ {w}) /\ \A i \in Seats : f[i] \in Int
  BY RingFinite
<1>2. SumFunctionOnSet(f, Seats) = f[w] + SumFunctionOnSet(f, Seats \ {w})
  BY <1>1, SumTakeOut
<1>3. SumFunctionOnSet(f, Seats \ {w}) = 0
  BY <1>1, SumZero
<1> QED BY <1>2, <1>3 DEF Total

LEMMA TotalPair ==
    ASSUME NEW f, NEW v \in Seats, NEW w \in Seats, v # w, f[v] \in Int, f[w] \in Int,
           \A i \in Seats : i \notin {v, w} => f[i] = 0
    PROVE  Total(f) = f[v] + f[w]
<1>1. /\ IsFiniteSet(Seats) /\ IsFiniteSet(Seats \ {w}) /\ IsFiniteSet((Seats \ {w}) \ {v})
      /\ \A i \in Seats : f[i] \in Int
  BY RingFinite
<1>2. SumFunctionOnSet(f, Seats) = f[w] + SumFunctionOnSet(f, Seats \ {w})
  BY <1>1, SumTakeOut
<1>3. SumFunctionOnSet(f, Seats \ {w}) = f[v] + SumFunctionOnSet(f, (Seats \ {w}) \ {v})
  <2>1. v \in Seats \ {w} /\ \A i \in Seats \ {w} : f[i] \in Int
    BY <1>1
  <2> QED BY <1>1, <2>1, SumTakeOut
<1>4. SumFunctionOnSet(f, (Seats \ {w}) \ {v}) = 0
  BY <1>1, SumZero
<1> QED BY <1>2, <1>3, <1>4 DEF Total

LEMMA BooksTotal ==
    ASSUME NEW f, DOMAIN f = Seats
    PROVE  Books!SumFunction(f) = Total(f)
BY DEF Books!SumFunction, Books!SumFunctionOnSet, Books!FoldFunctionOnSet,
       Books!MapThenFoldSet, Total, SumFunctionOnSet, FoldFunctionOnSet, MapThenFoldSet

LEMMA BooksRate ==
    ASSUME NEW pot \in Nat
    PROVE  Books!RakeFor(pot, Blind, sawFlop) = RakeFor(pot, Blind, sawFlop)
<1>1. ASSUME NEW a \in Nat, NEW b \in Nat
      PROVE  Books!Smaller(a, b) = Lesser(a, b) /\ Lesser(a, b) \in Nat
  BY DEF Books!Smaller, Lesser
<1>2. PICK p \in Nat, cap \in Nat : p = pot * RakeBps /\ cap = Blind * RakeCapBB
  BY RakeAssumption, InputsAssumption
<1>3. p \div 10000 \in Nat
  BY <1>2
<1>4. Books!Smaller(p \div 10000, cap) = Lesser(p \div 10000, cap)
      /\ Lesser(p \div 10000, cap) \in Nat
  BY <1>1, <1>2, <1>3
<1>5. Books!Smaller(Lesser(p \div 10000, cap), pot) = Lesser(Lesser(p \div 10000, cap), pot)
  BY <1>1, <1>4
<1> QED BY <1>2, <1>4, <1>5 DEF Books!RakeFor, RakeFor

LEMMA BooksPot ==
    ASSUME NEW net \in Nat, NEW pot \in Nat, net <= pot, pot - RakeFor(pot, Blind, sawFlop) = net
    PROVE  Books!PotBehind(net, Blind, sawFlop, pot) = pot
BY BooksRate DEF Books!PotBehind

(* Among the largest payouts one is the first. *)
LEMMA FirstOfLargest ==
    ASSUME NEW f \in [Seats -> Nat]
    PROVE  \E s \in Seats : \A t \in Seats : f[t] < f[s] \/ (f[t] = f[s] /\ s <= t)
<1> DEFINE Leads(s, T) == \A t \in T : f[t] < f[s] \/ (f[t] = f[s] /\ s <= t)
           Good == {T \in SUBSET Seats : T # {} => \E s \in T : Leads(s, T)}
<1>1. \A s \in Seats : s \in Int /\ f[s] \in Nat
  BY DEF Seats
<1>2. {} \in Good
  OBVIOUS
<1>3. ASSUME NEW T \in SUBSET Seats, NEW x \in Seats \ T, T \in Good PROVE T \cup {x} \in Good
  <2>1. CASE T = {}
    <3>1. Leads(x, T \cup {x})
      BY <1>1, <2>1
    <3> QED BY <3>1
  <2>2. CASE T # {}
    <3>1. PICK s \in T : Leads(s, T)
      BY <1>3, <2>2
    <3>2. CASE f[x] < f[s] \/ (f[x] = f[s] /\ s <= x)
      <4>1. Leads(s, T \cup {x})
        BY <3>1, <3>2
      <4> QED BY <4>1
    <3>3. CASE ~(f[x] < f[s] \/ (f[x] = f[s] /\ s <= x))
      <4>1. Leads(x, T \cup {x})
        <5> SUFFICES ASSUME NEW t \in T \cup {x} PROVE f[t] < f[x] \/ (f[t] = f[x] /\ x <= t)
          OBVIOUS
        <5>1. CASE t = x
          BY <1>1, <5>1
        <5>2. CASE t \in T
          <6>1. f[t] < f[s] \/ (f[t] = f[s] /\ s <= t)
            BY <3>1, <5>2
          <6> QED BY <1>1, <3>3, <5>2, <6>1
        <5> QED BY <5>1, <5>2
      <4> QED BY <4>1
    <3> QED BY <3>2, <3>3
  <2> QED BY <2>1, <2>2
<1>4. Seats \in Good /\ Seats # {}
  <2>1. Seats # {}
    BY SeatsAssumption DEF Seats
  <2> HIDE DEF Good
  <2> QED BY <1>2, <1>3, <2>1, RingFinite, OneByOne
<1> QED BY <1>4

(* What the books attribute: everybody its share at least, everything that *)
(* was taken, and nothing to a seat that was paid nothing.                 *)
LEMMA BooksSpread ==
    ASSUME NEW net \in [Seats -> Nat], NEW rake \in Nat, rake > 0, Total(net) > 0
    PROVE  LET b == Books!AttributeRake(net, rake)
           IN  /\ b \in [Seats -> Nat] /\ Total(b) = rake
               /\ \A i \in Seats : /\ b[i] >= RakeShare(net, rake, i)
                                   /\ net[i] = 0 => b[i] = 0
<1> DEFINE share == [i \in Seats |-> RakeShare(net, rake, i)]
           first == CHOOSE s \in Seats : \A t \in Seats : net[t] < net[s] \/ (net[t] = net[s] /\ s <= t)
           b == Books!AttributeRake(net, rake)
           rest == rake - Total(share)
<1>1. Books!SumFunction(net) = Total(net) /\ Books!SumFunction(share) = Total(share)
  BY BooksTotal
<1>2. Total(net) \in Nat
  BY TotalNat
<1>3. b = [share EXCEPT ![first] = @ + rake - Total(share)]
  <2> DEFINE theirs == [s \in Seats |-> (rake * net[s]) \div Books!SumFunction(net)]
             their == CHOOSE s \in Seats : \A t \in Seats :
                          net[t] < net[s] \/ (net[t] = net[s] /\ s <= t)
  <2>1. theirs = share /\ their = first
    BY <1>1 DEF RakeShare
  <2>2. ~(rake <= 0 \/ Books!SumFunction(net) <= 0)
    BY <1>1, <1>2
  <2>3. b = [theirs EXCEPT ![their] = theirs[their] + rake - Books!SumFunction(theirs)]
    BY Zenon, <2>2 DEF Books!AttributeRake
  <2> HIDE DEF theirs, their, share, first, b
  <2> QED BY <1>1, <2>1, <2>3
<1>4. first \in Seats /\ \A t \in Seats : net[t] <= net[first]
  <2>1. first \in Seats /\ \A t \in Seats : net[t] < net[first] \/ net[t] = net[first]
    BY FirstOfLargest
  <2> HIDE DEF first
  <2> QED BY <2>1
<1>5. Total(share) \in Nat /\ rest \in Nat
  BY SharesOfRake
<1>6. \A i \in Seats : share[i] \in Nat /\ (net[i] = 0 => share[i] = 0)
  <2> SUFFICES ASSUME NEW i \in Seats
               PROVE  RakeShare(net, rake, i) \in Nat /\ (net[i] = 0 => RakeShare(net, rake, i) = 0)
    OBVIOUS
  <2>1. PICK paid \in Nat, p \in Nat : paid = Total(net) /\ p = rake * net[i] /\ (net[i] = 0 => p = 0)
    BY <1>2
  <2>2. p \div paid \in Nat /\ 0 \div paid = 0
    <3>1. paid \in Nat \ {0}
      BY <2>1
    <3>2. p \div paid \in Nat
      BY <3>1, Division
    <3>3. 0 \div paid = 0
      BY <3>1
    <3> QED BY <3>2, <3>3
  <2> QED BY <2>1, <2>2 DEF RakeShare
<1>7. net[first] > 0
  <2>1. \E i \in Seats : net[i] # 0
    BY TotalZero
  <2> HIDE DEF first
  <2> QED BY <1>4, <2>1
<1> HIDE DEF share, first, b, rest
<1>8. share \in [Seats -> Nat]
  BY <1>6 DEF share
<1>9. /\ b \in [Seats -> Nat]
      /\ \A i \in Seats : b[i] = share[i] + (IF i = first THEN rest ELSE 0)
  <2>1. /\ DOMAIN b = Seats
        /\ \A i \in Seats : b[i] = share[i] + (IF i = first THEN rest ELSE 0)
    BY <1>3, <1>4, <1>5, <1>8 DEF rest
  <2>2. b = [i \in Seats |-> b[i]]
    BY <1>3, <1>8
  <2> QED BY <1>4, <1>5, <1>6, <2>1, <2>2
<1>10. Total(b) = rake
  <2> DEFINE extra == [i \in Seats |-> IF i = first THEN rest ELSE 0]
  <2>1. Total(extra) = rest
    <3>1. \A i \in Seats : extra[i] = IF i = first THEN rest ELSE 0
      OBVIOUS
    <3> HIDE DEF extra
    <3> QED BY <1>4, <1>5, <3>1, TotalSingle
  <2>2. \A i \in Seats : b[i] \in Int /\ share[i] \in Int /\ extra[i] \in Int /\ b[i] = share[i] + extra[i]
    BY <1>5, <1>6, <1>9
  <2> HIDE DEF extra
  <2>3. Total(b) = Total(share) + Total(extra)
    BY <2>2, TotalAdd
  <2> QED BY <1>5, <2>1, <2>3 DEF rest
<1>11. \A i \in Seats : b[i] >= share[i] /\ (net[i] = 0 => b[i] = 0)
  BY <1>5, <1>6, <1>7, <1>9
<1> QED BY <1>9, <1>10, <1>11 DEF b, share

(* Two who share a rake in proportion each pay its exact part within a chip. *)
LEMMA NearTheirPart ==
    ASSUME NEW p1 \in Nat, NEW p2 \in Nat, NEW R \in Nat, NEW c1 \in Nat, NEW c2 \in Nat,
           NEW t \in Nat, t > 0, t = p1 + p2, c1 + c2 = R,
           c1 >= (R * p1) \div t, c2 >= (R * p2) \div t
    PROVE  c1 * t - R * p1 < t /\ R * p1 - c1 * t < t
<1>1. ASSUME NEW p \in Nat, NEW c \in Nat, c >= (R * p) \div t
      PROVE  R * p - c * t < t
  <2>1. PICK x \in Nat : x = R * p
    OBVIOUS
  <2>2. PICK q \in Nat, r \in Nat : q = x \div t /\ r = x % t /\ r < t /\ r = x - t * q
    <3>1. t \in Nat \ {0}
      OBVIOUS
    <3>2. x \div t \in Nat /\ x % t \in 0 .. t - 1 /\ x % t = x - t * (x \div t)
      BY <3>1, Division
    <3> QED BY <3>2
  <2>3. c * t >= t * q
    <3>1. c >= q
      BY <1>1, <2>1, <2>2
    <3> QED BY ONLY <3>1, c \in Nat, q \in Nat, t \in Nat
  <2>4. c * t \in Int /\ t * q \in Int
    BY <2>2
  <2> QED BY <2>1, <2>2, <2>3, <2>4
<1>2. R * p1 - c1 * t < t /\ R * p2 - c2 * t < t
  BY <1>1
<1>3. R * p1 + R * p2 = c1 * t + c2 * t
  <2>1. R * (p1 + p2) = R * p1 + R * p2
    OBVIOUS
  <2>2. (c1 + c2) * t = c1 * t + c2 * t
    OBVIOUS
  <2> QED BY <2>1, <2>2
<1>4. R * p1 \in Int /\ R * p2 \in Int /\ c1 * t \in Int /\ c2 * t \in Int
  OBVIOUS
<1> QED BY <1>2, <1>3, <1>4

(* r split over p and q, neither charged less than its share rounded down. *)
SplitInTwo(p, q, r, a, b) ==
    a + b = r /\ a >= (r * p) \div (p + q) /\ b >= (r * q) \div (p + q)

(* What they are attributed from what is left of their payouts is within   *)
(* two chips of what they paid, if at most half was taken.                 *)
LEMMA WithinTwoChips ==
    ASSUME NEW p1 \in Nat, NEW p2 \in Nat, NEW R \in Nat, 2 * R <= p1 + p2, p1 + p2 > 0,
           NEW c1 \in Nat, NEW c2 \in Nat, SplitInTwo(p1, p2, R, c1, c2),
           NEW n1 \in Nat, NEW n2 \in Nat, n1 = p1 - c1, n2 = p2 - c2,
           NEW b1 \in Nat, NEW b2 \in Nat, SplitInTwo(n1, n2, R, b1, b2)
    PROVE  b1 - c1 \in -2 .. 2
<1>0. /\ c1 + c2 = R /\ c1 >= (R * p1) \div (p1 + p2) /\ c2 >= (R * p2) \div (p1 + p2)
      /\ b1 + b2 = R /\ b1 >= (R * n1) \div (n1 + n2) /\ b2 >= (R * n2) \div (n1 + n2)
  BY DEF SplitInTwo
<1> DEFINE t == p1 + p2
           n == n1 + n2
           d == b1 - c1
<1>1. t \in Nat /\ t > 0 /\ n \in Nat /\ n > 0 /\ n = t - R /\ t <= 2 * n
  BY <1>0
<1>2. PICK e \in Int : e = c1 * t - R * p1 /\ e < t /\ e > -t
  <2>1. c1 * t - R * p1 < t /\ R * p1 - c1 * t < t
    <3> HIDE DEF t
    <3>1. t = p1 + p2
      BY DEF t
    <3> QED BY <1>0, <1>1, <3>1, NearTheirPart
  <2>2. c1 * t \in Int /\ R * p1 \in Int /\ t \in Int
    OBVIOUS
  <2> HIDE DEF t
  <2> QED BY <2>1, <2>2
<1>3. PICK f \in Int : f = b1 * n - R * n1 /\ f < n /\ f > -n
  <2>1. b1 * n - R * n1 < n /\ R * n1 - b1 * n < n
    <3> HIDE DEF n
    <3>1. n = n1 + n2
      BY DEF n
    <3> QED BY <1>0, <1>1, <3>1, NearTheirPart
  <2>2. b1 * n \in Int /\ R * n1 \in Int /\ n \in Int
    OBVIOUS
  <2> HIDE DEF n
  <2> QED BY <2>1, <2>2
<1> HIDE DEF t, n
<1>4. d * n = f - e
  <2>1. d * n = b1 * n - c1 * n
    BY <1>1
  <2>2. c1 * n = c1 * t - c1 * R
    BY <1>1
  <2>3. R * n1 = R * p1 - R * c1
    OBVIOUS
  <2>4. c1 * R = R * c1
    OBVIOUS
  <2>6. e \in Int /\ f \in Int /\ d \in Int
    OBVIOUS
  <2>5. b1 * n \in Int /\ c1 * n \in Int /\ c1 * t \in Int /\ c1 * R \in Int /\ R * p1 \in Int /\ R * n1 \in Int
    BY <1>1
  <2> HIDE DEF d
  <2>7. PICK bn, cn, ct, cr, rp, rn : /\ bn = b1 * n /\ cn = c1 * n /\ ct = c1 * t /\ cr = c1 * R
                                       /\ rp = R * p1 /\ rn = R * n1
    OBVIOUS
  <2>8. /\ bn \in Int /\ cn \in Int /\ ct \in Int /\ cr \in Int /\ rp \in Int /\ rn \in Int
        /\ e = ct - rp /\ f = bn - rn /\ d * n = bn - cn /\ cn = ct - cr /\ rn = rp - cr
    BY <1>2, <1>3, <2>1, <2>2, <2>3, <2>4, <2>5, <2>7
  <2> QED BY ONLY <2>6, <2>8
<1>5. d * n < 3 * n /\ d * n > -(3 * n)
  <2> HIDE DEF d
  <2> QED BY <1>1, <1>2, <1>3, <1>4
<1>6. d \in Int
  OBVIOUS
<1> HIDE DEF d
<1>7. d < 3
  <2> SUFFICES ASSUME d >= 3 PROVE FALSE
    BY <1>6
  <2>1. d * n >= 3 * n
    BY ONLY d >= 3, <1>1, <1>6
  <2> QED BY <1>1, <1>5, <1>6, <2>1
<1>8. d > -3
  <2> SUFFICES ASSUME d <= -3 PROVE FALSE
    BY <1>6
  <2>1. d * n <= (-3) * n
    BY ONLY d <= -3, <1>1, <1>6
  <2> QED BY <1>1, <1>5, <1>6, <2>1
<1> QED BY <1>6, <1>7, <1>8 DEF d

LEMMA OneElement ==
    ASSUME NEW S, IsFiniteSet(S), Cardinality(S) = 1
    PROVE  \E x \in S : \A y \in S : y = x
<1>1. PICK x \in S : TRUE
  BY FS_EmptySet
<1>2. IsFiniteSet(S \ {x}) /\ Cardinality(S \ {x}) = 0
  BY FS_RemoveElement
<1>3. S \ {x} = {}
  BY <1>2, FS_EmptySet
<1> QED BY <1>1, <1>3

LEMMA BooksMatch ==
    ASSUME MaxSeats * RakeBps <= 10000, MoneyIInv, outcome = "settled"
    PROVE  BooksAgree
<1> DEFINE paid == dist.payouts
           net == raked.payouts
           rake == raked.taken
           pot == Total(contributions)
           c == [i \in Seats |-> paid[i] - net[i]]
           b == Books!AttributeRake(net, rake)
<1>1. /\ paid \in [Seats -> Nat] /\ Total(paid) = pot
      /\ net \in [Seats -> Nat] /\ rake \in Nat /\ rake < pot
      /\ rake = RakeFor(pot, Blind, sawFlop)
      /\ Total(net) + rake = pot
  BY MoneyPaid
<1>2. Total(net) \in Nat /\ pot \in Nat /\ Total(net) > 0
  <2>1. Total(net) \in Nat /\ Total(paid) \in Nat
    BY <1>1, TotalNat
  <2> HIDE DEF pot, net, paid, rake
  <2> QED BY <1>1, <2>1
<1>3. PICK l \in Seats, rest \in Nat : SpreadOver(paid, rake, raked, l, rest)
  BY MoneyPaid
<1>4. \A i \in Seats : /\ RakeShare(paid, rake, i) \in Nat
                       /\ paid[i] = 0 => net[i] = 0
                       /\ c[i] \in Nat /\ c[i] >= RakeShare(paid, rake, i)
  <2> SUFFICES ASSUME NEW i \in Seats
               PROVE  /\ RakeShare(paid, rake, i) \in Nat
                      /\ paid[i] = 0 => net[i] = 0
                      /\ paid[i] - net[i] \in Nat /\ paid[i] - net[i] >= RakeShare(paid, rake, i)
    OBVIOUS
  <2>1. RakeShare(paid, rake, i) \in Nat
    <3> HIDE DEF paid, rake
    <3> QED BY <1>1, ShareBelow
  <2>2. net[i] = paid[i] - RakeShare(paid, rake, i) - (IF i = l THEN rest ELSE 0)
    BY <1>3 DEF SpreadOver
  <2>3. paid[i] \in Nat /\ net[i] \in Nat
    BY <1>1
  <2> HIDE DEF paid, rake, net
  <2> QED BY <2>1, <2>2, <2>3
<1> HIDE DEF pot, rake
<1>5. Total(c) = rake /\ c \in [Seats -> Nat]
  <2>1. \A i \in Seats : paid[i] \in Int /\ net[i] \in Int /\ c[i] \in Int /\ paid[i] = net[i] + c[i]
    BY <1>1, <1>4
  <2>2. Total(paid) = Total(net) + Total(c)
    <3> HIDE DEF paid, net, c
    <3> QED BY <2>1, TotalAdd
  <2>3. c \in [Seats -> Nat]
    BY <1>4
  <2>4. Total(c) \in Nat
    <3> HIDE DEF c
    <3> QED BY <2>3, TotalNat
  <2> HIDE DEF paid, net, c
  <2> QED BY <1>1, <1>2, <2>2, <2>3, <2>4
<1> HIDE DEF paid, net, c
<1>6. /\ b \in [Seats -> Nat] /\ Total(b) = rake
      /\ rake > 0 => \A i \in Seats : b[i] >= RakeShare(net, rake, i)
      /\ \A i \in Seats : net[i] = 0 => b[i] = 0
  <2>1. CASE rake > 0
    <3> HIDE DEF b
    <3> QED BY <1>1, <1>2, <2>1, BooksSpread DEF b
  <2>2. CASE rake = 0
    <3>1. b = [i \in Seats |-> 0]
      BY <2>2 DEF Books!AttributeRake
    <3> HIDE DEF b
    <3>2. Total(b) = 0
      BY <3>1, TotalZero
    <3> QED BY <2>2, <3>1, <3>2
  <2> QED BY <1>1, <2>1, <2>2
<1> HIDE DEF b
<1>7. 2 * rake <= pot
  <2>1. 10000 * rake <= pot * RakeBps
    BY <1>1, <1>2, RakeAtRate, InputsAssumption
  <2>2. 2 * RakeBps <= 10000 /\ RakeBps \in Nat
    <3>1. MaxSeats \in Nat /\ MaxSeats >= 2 /\ RakeBps \in Nat
      BY SeatsAssumption, RakeAssumption
    <3>2. 2 * RakeBps <= MaxSeats * RakeBps
      BY <3>1
    <3> QED BY <3>1, <3>2
  <2>3. pot * (2 * RakeBps) <= pot * 10000
    BY ONLY <1>2, <2>2
  <2>4. PICK x \in Int : x = pot * RakeBps
    BY <1>2, <2>2
  <2>5. pot * (2 * RakeBps) = 2 * x
    BY <1>2, <2>2, <2>4
  <2> QED BY <1>1, <1>2, <2>1, <2>3, <2>4, <2>5
<1>8. Books!PotBehind(Total(net), Blind, sawFlop, pot) = pot /\ pot - Total(net) = rake
  <2>1. Total(net) <= pot /\ pot - rake = Total(net) /\ pot - Total(net) = rake
    BY <1>1, <1>2
  <2>2. pot - RakeFor(pot, Blind, sawFlop) = Total(net)
    BY <1>1, <2>1
  <2> HIDE DEF net
  <2> QED BY <1>2, <2>1, <2>2, BooksPot
<1> DEFINE winners == Paid(paid)
<1>9. IsFiniteSet(winners) /\ winners \subseteq Seats
      /\ \A i \in Seats \ winners : paid[i] = 0 /\ net[i] = 0 /\ c[i] = 0 /\ b[i] = 0
  <2>1. IsFiniteSet(winners) /\ winners \subseteq Seats
    BY RingFinite DEF Paid
  <2>2. \A i \in Seats \ winners : paid[i] = 0
    BY <1>1 DEF Paid
  <2> QED BY <1>4, <1>6, <2>1, <2>2 DEF c
<1>10. ASSUME Cardinality(winners) = 1, NEW i \in Seats PROVE b[i] = c[i]
  <2>1. PICK w \in winners : \A j \in winners : j = w
    BY <1>9, <1>10, OneElement
  <2>2. w \in Seats /\ \A j \in Seats : j # w => c[j] = 0 /\ b[j] = 0
    BY <1>9, <2>1
  <2>3. Total(c) = c[w] /\ Total(b) = b[w]
    BY <1>5, <1>6, <2>2, TotalSingle
  <2>4. CASE i = w
    BY <1>5, <1>6, <2>3, <2>4
  <2>5. CASE i # w
    BY <2>2, <2>5
  <2> QED BY <2>4, <2>5
<1>11. ASSUME Cardinality(winners) = 2, NEW i \in Seats PROVE b[i] - c[i] \in -2 .. 2
  <2>1. CASE i \notin winners
    BY <1>9, <2>1
  <2>2. CASE i \in winners
    <3>1. PICK j \in winners \ {i} : \A k \in winners \ {i} : k = j
      <4>1. IsFiniteSet(winners \ {i}) /\ Cardinality(winners \ {i}) = 1
        BY <1>9, <1>11, <2>2, FS_RemoveElement
      <4> QED BY <4>1, OneElement
    <3>2. j \in Seats /\ i # j /\ winners = {i, j}
      BY <1>9, <2>2, <3>1
    <3>3. \A k \in Seats : k \notin {i, j} => paid[k] = 0 /\ net[k] = 0 /\ c[k] = 0 /\ b[k] = 0
      BY <1>9, <3>2
    <3>4. /\ paid[i] \in Nat /\ paid[j] \in Nat /\ net[i] \in Nat /\ net[j] \in Nat
          /\ c[i] \in Nat /\ c[j] \in Nat /\ b[i] \in Nat /\ b[j] \in Nat
      BY <1>1, <1>5, <1>6, <3>2
    <3>5. /\ paid[i] + paid[j] = pot /\ net[i] + net[j] = Total(net)
          /\ c[i] + c[j] = rake /\ b[i] + b[j] = rake
      <4>1. Total(paid) = paid[i] + paid[j]
        BY <3>2, <3>3, <3>4, TotalPair
      <4>2. Total(net) = net[i] + net[j]
        BY <3>2, <3>3, <3>4, TotalPair
      <4>3. Total(c) = c[i] + c[j]
        BY <3>2, <3>3, <3>4, TotalPair
      <4>4. Total(b) = b[i] + b[j]
        BY <3>2, <3>3, <3>4, TotalPair
      <4> QED BY <1>1, <1>5, <1>6, <4>1, <4>2, <4>3, <4>4
    <3>6. CASE rake = 0
      BY <3>4, <3>5, <3>6
    <3>7. CASE rake > 0
      <4>1. /\ c[i] >= (rake * paid[i]) \div (paid[i] + paid[j])
            /\ c[j] >= (rake * paid[j]) \div (paid[i] + paid[j])
        BY <1>1, <1>4, <3>2, <3>5 DEF RakeShare
      <4>2. /\ b[i] >= (rake * net[i]) \div (net[i] + net[j])
            /\ b[j] >= (rake * net[j]) \div (net[i] + net[j])
        BY <1>6, <3>2, <3>5, <3>7 DEF RakeShare
      <4>3. net[i] = paid[i] - c[i] /\ net[j] = paid[j] - c[j]
        BY <3>2, <3>4 DEF c
      <4>4. 2 * rake <= paid[i] + paid[j] /\ paid[i] + paid[j] > 0
        BY <1>1, <1>2, <1>7, <3>5
      <4>5. rake \in Nat
        BY <1>1
      <4>6. SplitInTwo(paid[i], paid[j], rake, c[i], c[j]) /\ SplitInTwo(net[i], net[j], rake, b[i], b[j])
        BY <3>5, <4>1, <4>2 DEF SplitInTwo
      <4> QED BY ONLY <3>4, <4>3, <4>4, <4>5, <4>6, WithinTwoChips
    <3> QED BY <1>1, <3>6, <3>7
  <2> QED BY <2>1, <2>2
<1>12. Total(raked.payouts) = Total(net) /\ Total(contributions) = pot
  BY DEF net, pot
<1>13. {i \in Seats : dist.payouts[i] > 0} = winners
  BY DEF Paid, paid
<1>14. b = Books!AttributeRake(raked.payouts, pot - Total(net))
  BY <1>8 DEF b, net
<1>15. \A i \in Seats : ChargedTo(i) = c[i]
  BY DEF ChargedTo, c, paid, net
<1>16. rake = raked.taken
  BY DEF rake
<1> DEFINE total == Total(raked.payouts)
           known == Books!PotBehind(total, Blind, sawFlop, Total(contributions))
           shares == Books!AttributeRake(raked.payouts, known - total)
           W == {i \in Seats : dist.payouts[i] > 0}
<1>17. known - total = raked.taken
  BY <1>8, <1>12, <1>16
<1>18. shares = b
  BY <1>8, <1>12, <1>14
<1>19. W = winners
  BY <1>13
<1> HIDE DEF winners, total, known, shares, W, b, c, rake, pot, net, paid
<1>20. Total(shares) = raked.taken
  BY <1>6, <1>16, <1>18
<1>21. /\ Cardinality(W) = 1 => \A i \in Seats : shares[i] = ChargedTo(i)
       /\ Cardinality(W) = 2 => \A i \in Seats : shares[i] - ChargedTo(i) \in -2 .. 2
  BY <1>10, <1>11, <1>15, <1>18, <1>19
<1> QED BY <1>17, <1>20, <1>21 DEF BooksAgree, total, known, shares, W

(* The server's books come to the very rake the program took, attribute it *)
(* exactly to a lone winner and within two chips to each of two.           *)
THEOREM BooksCorrect ==
    ASSUME MaxSeats * RakeBps <= 10000
    PROVE  SettlementSpec => []BooksAgree
<1>1. SettlementInit => MoneyIInv
  BY MoneyStarts
<1>2. MoneyIInv /\ [SettlementNext]_settlementVars => MoneyIInv'
  BY MoneyMoves
<1>3. MoneyIInv => BooksAgree
  <2>1. CASE outcome = "settled"
    BY <2>1, BooksMatch
  <2>2. CASE outcome # "settled"
    BY <2>2 DEF BooksAgree
  <2> QED BY <2>1, <2>2
<1> QED BY <1>1, <1>2, <1>3, PTL DEF SettlementSpec

=============================================================================
