------------------------------ MODULE Betting ------------------------------
(***************************************************************************)
(* One hand of betting, as the poker-engine crate plays it                 *)
(* (crates/poker-engine/src/betting.rs): blinds, turn order, the legal     *)
(* actions, minimum raises, all-ins and the street changes.                *)
(*                                                                         *)
(* The engine's struct and the seat and hand accounts of the program hold  *)
(* the same fields (programs/solpoker/src/bridge.rs copies one into the    *)
(* other around every instruction), so the fields are variables here and   *)
(* the on-chain lifecycle (module Hand) extends this module.               *)
(***************************************************************************)
EXTENDS Ring

CONSTANTS
    SmallBlind,   \* TableConfig::small_blind
    BigBlind      \* TableConfig::big_blind

(* What create_table accepts (instructions/table.rs). *)
ASSUME BlindsAssumption == /\ SmallBlind \in Nat /\ BigBlind \in Nat
                           /\ 0 < SmallBlind /\ SmallBlind <= BigBlind

PreFlop  == 0
Flop     == 1
Turn     == 2
River    == 3
Showdown == 4

VARIABLES
    \* per seat
    inHand,           \* SeatState::occupied, Seat::in_hand
    stack,            \* chips behind
    streetCommitted,  \* chips pushed forward on this street
    totalCommitted,   \* chips pushed forward in this hand
    folded, allIn,
    needsAction,      \* still owes an action this street
    mayRaise,         \* cleared by an all-in for less than a full raise
    \* per hand
    button, street,
    toAct,            \* seat to act, or NoSeat
    currentBet,       \* what every seat has to match on this street
    minRaise,         \* smallest full raise, as an increment
    lastAggressor,
    \* history: seats that acted since the street began or since the last
    \* full raise by somebody else (not in the code; read by RaiseRights only)
    acted

seatVars == <<inHand, stack, streetCommitted, totalCommitted, folded, allIn,
              needsAction, mayRaise>>
roundVars == <<button, street, toAct, currentBet, minRaise, lastAggressor>>
bettingVars == <<seatVars, roundVars, acted>>

-----------------------------------------------------------------------------
(* Who is in, who can act, who owes an action.                             *)

IsActive(i)   == inHand[i] /\ ~folded[i] /\ ~allIn[i]
IsInHand(i)   == inHand[i] /\ ~folded[i]
Contesting    == {i \in Seats : IsInHand(i)}
Active        == {i \in Seats : IsActive(i)}
Owing         == {i \in Active : needsAction[i]}
HandIsOver    == \A i, j \in Contesting : i = j
StreetIsComplete == toAct = NoSeat

(* Mutants of NextToAct: the hand going on after everybody folded, a lone  *)
(* seat skipped with the bet unmatched.                                    *)
NextToActAfterTheEnd(from) == FirstAfter(from, Owing)

NextToActSkippingLone(from) ==
    IF HandIsOver \/ Cardinality(Active) < 2 THEN NoSeat ELSE FirstAfter(from, Owing)

(* find_next_actor followed by settle_if_no_action, the common tail of     *)
(* begin_hand and apply.                                                   *)
NextToAct(from) ==
    LET next == FirstAfter(from, Owing)
        alone == \A i \in Active : i = next
        matched == streetCommitted[next] >= currentBet
    IN  IF HandIsOver \/ next = NoSeat THEN NoSeat
        ELSE IF alone /\ matched /\ ~needsAction[next] THEN NoSeat
        ELSE next

-----------------------------------------------------------------------------
(* begin_hand: seats with chips are in, the blinds are posted (all-in when *)
(* the stack is short) and the first seat to act is left of the big blind. *)
BeginHand(stacks, btn) ==
    LET players == {i \in Seats : stacks[i] > 0}
    IN  \E sb, bb \in players :
        /\ Cardinality(players) >= 2
        /\ sb = IF Cardinality(players) = 2 THEN btn ELSE FirstAfter(btn, players)
        /\ bb = FirstAfter(sb, players)
        /\ streetCommitted' = [i \in Seats |-> IF i = bb THEN Lesser(BigBlind, stacks[i])
                                               ELSE IF i = sb THEN Lesser(SmallBlind, stacks[i])
                                               ELSE 0]
        /\ totalCommitted' = streetCommitted'
        /\ stack' = [i \in Seats |-> stacks[i] - streetCommitted'[i]]
        /\ inHand' = [i \in Seats |-> i \in players]
        /\ folded' = [i \in Seats |-> FALSE]
        /\ allIn' = [i \in Seats |-> i \in players /\ stack'[i] = 0]
        /\ needsAction' = [i \in Seats |-> i \in players /\ stack'[i] > 0]
        /\ mayRaise' = [i \in Seats |-> i \in players]
        /\ button' = btn
        /\ street' = PreFlop
        /\ currentBet' = BigBlind
        /\ minRaise' = BigBlind
        /\ lastAggressor' = NoSeat
        /\ acted' = {}
        /\ toAct' = NextToAct(bb)'

-----------------------------------------------------------------------------
(* apply, one action per Action. The turn check and is_active are MayAct.  *)
MayAct(i) == toAct = i /\ IsActive(i)

Owed(i) == IF currentBet > streetCommitted[i] THEN currentBet - streetCommitted[i] ELSE 0

CallAmount(i) == Lesser(Owed(i), stack[i])

(* Mutant: every raise, even an all-in for less, counts as a full raise. *)
AnyRaiseIsFull(to) == TRUE

IsFullRaise(to) == to - currentBet >= minRaise

(* What apply requires of RaiseTo(to); only an all-in may be short.        *)
RaiseAllowed(i, to) ==
    LET needed == to - streetCommitted[i]
    IN  /\ mayRaise[i]
        /\ to > currentBet
        /\ needed <= stack[i]
        /\ to - currentBet >= minRaise \/ needed = stack[i]

(* Move chips from behind to the middle. *)
Pay(i, chips) ==
    /\ stack' = [stack EXCEPT ![i] = @ - chips]
    /\ streetCommitted' = [streetCommitted EXCEPT ![i] = @ + chips]
    /\ totalCommitted' = [totalCommitted EXCEPT ![i] = @ + chips]
    /\ allIn' = [allIn EXCEPT ![i] = @ \/ chips = stack[i]]

Fold(i) ==
    /\ MayAct(i)
    /\ folded' = [folded EXCEPT ![i] = TRUE]
    /\ needsAction' = [needsAction EXCEPT ![i] = FALSE]
    /\ acted' = acted \cup {i}
    /\ UNCHANGED <<inHand, stack, streetCommitted, totalCommitted, allIn, mayRaise,
                   button, street, currentBet, minRaise, lastAggressor>>
    /\ toAct' = NextToAct(i)'

Check(i) ==
    /\ MayAct(i)
    /\ streetCommitted[i] >= currentBet
    /\ needsAction' = [needsAction EXCEPT ![i] = FALSE]
    /\ acted' = acted \cup {i}
    /\ UNCHANGED <<inHand, stack, streetCommitted, totalCommitted, folded, allIn,
                   mayRaise, button, street, currentBet, minRaise, lastAggressor>>
    /\ toAct' = NextToAct(i)'

(* A call is capped at the stack. *)
Call(i) ==
    /\ MayAct(i)
    /\ Owed(i) > 0
    /\ Pay(i, CallAmount(i))
    /\ needsAction' = [needsAction EXCEPT ![i] = FALSE]
    /\ acted' = acted \cup {i}
    /\ UNCHANGED <<inHand, folded, mayRaise, button, street, currentBet, minRaise,
                   lastAggressor>>
    /\ toAct' = NextToAct(i)'

(* RaiseTo(to): a full raise reopens the betting for everybody; an all-in  *)
(* for less caps the seats that had already acted.                         *)
RaiseTo(i, to) ==
    /\ MayAct(i)
    /\ RaiseAllowed(i, to)
    /\ Pay(i, to - streetCommitted[i])
    /\ minRaise' = IF IsFullRaise(to) THEN to - currentBet ELSE minRaise
    /\ lastAggressor' = IF IsFullRaise(to) THEN i ELSE lastAggressor
    /\ currentBet' = to
    /\ mayRaise' = [j \in Seats |->
                       IF j = i \/ ~IsActive(j) THEN mayRaise[j]
                       ELSE IsFullRaise(to) \/ (needsAction[j] /\ mayRaise[j])]
    /\ needsAction' = [j \in Seats |-> j # i /\ (IsActive(j) \/ needsAction[j])]
    /\ acted' = IF to - currentBet >= minRaise THEN {i} ELSE acted \cup {i}
    /\ UNCHANGED <<inHand, folded, button, street>>
    /\ toAct' = NextToAct(i)'

(* AllIn is a raise to everything, or a call when that does not exceed the *)
(* bet.                                                                    *)
AllIn(i) ==
    \/ /\ streetCommitted[i] + stack[i] > currentBet
       /\ RaiseTo(i, streetCommitted[i] + stack[i])
    \/ /\ streetCommitted[i] + stack[i] <= currentBet
       /\ Call(i)

(* advance_street; the caller, instructions/hand.rs::advance_street,       *)
(* refuses unless the street is complete and not yet the showdown.         *)
AdvanceStreet ==
    /\ StreetIsComplete
    /\ street # Showdown
    /\ \/ /\ HandIsOver
          /\ street' = Showdown
          /\ toAct' = NoSeat
          /\ UNCHANGED <<seatVars, button, currentBet, minRaise, lastAggressor, acted>>
       \/ /\ ~HandIsOver
          /\ street' = street + 1
          /\ currentBet' = 0
          /\ minRaise' = BigBlind
          /\ lastAggressor' = NoSeat
          /\ streetCommitted' = [i \in Seats |-> 0]
          /\ needsAction' = [i \in Seats |-> IsActive(i)]
          /\ mayRaise' = [i \in Seats |-> IsActive(i) \/ mayRaise[i]]
          /\ acted' = {}
          /\ UNCHANGED <<inHand, stack, totalCommitted, folded, allIn, button>>
          /\ toAct' = IF street' = Showdown \/ Cardinality(Active) < 2 THEN NoSeat
                      ELSE FirstAfter(button, Owing)'

-----------------------------------------------------------------------------
(* legal_actions, what the client shows the seat whose turn it is.         *)
MaxRaiseTo(i) == streetCommitted[i] + stack[i]

CanRaise(i) == mayRaise[i] /\ MaxRaiseTo(i) > currentBet

(* Mutant: the minimum is not capped for a stack too short to raise fully. *)
MinRaiseToUncapped(i) == currentBet + minRaise

MinRaiseTo(i) == Lesser(currentBet + minRaise, MaxRaiseTo(i))

-----------------------------------------------------------------------------
(* The engine by itself: any stacks, one hand.                             *)

CONSTANT StackSizes  \* the stacks a seat may bring to the hand, 0 for an empty seat
ASSUME StacksAssumption == StackSizes \subseteq Nat

Init ==
    /\ stack \in [Seats -> StackSizes]
    /\ inHand = [i \in Seats |-> FALSE]
    /\ streetCommitted = [i \in Seats |-> 0]
    /\ totalCommitted = [i \in Seats |-> 0]
    /\ folded = [i \in Seats |-> FALSE]
    /\ allIn = [i \in Seats |-> FALSE]
    /\ needsAction = [i \in Seats |-> FALSE]
    /\ mayRaise = [i \in Seats |-> FALSE]
    /\ button = 0
    /\ street = PreFlop
    /\ toAct = NoSeat
    /\ currentBet = 0
    /\ minRaise = 0
    /\ lastAggressor = NoSeat
    /\ acted = {}

(* start_hand always hands begin_hand a button that is in the hand. *)
Start == \E btn \in Seats :
    /\ \A i \in Seats : ~inHand[i]
    /\ stack[btn] > 0
    /\ BeginHand(stack, btn)

(* Raise targets worth trying: nobody can raise past what a seat holds.    *)
Raise(i) == \E to \in currentBet + 1 .. streetCommitted[i] + stack[i] : RaiseTo(i, to)

Act(i) == Fold(i) \/ Check(i) \/ Call(i) \/ Raise(i) \/ AllIn(i)

Next == Start \/ AdvanceStreet \/ \E i \in Seats : Act(i)

Spec == Init /\ [][Next]_bettingVars

-----------------------------------------------------------------------------
(* Properties.                                                             *)

(* Types of the engine's fields. *)
TypeOK ==
    /\ inHand \in [Seats -> BOOLEAN]
    /\ stack \in [Seats -> Nat]
    /\ streetCommitted \in [Seats -> Nat]
    /\ totalCommitted \in [Seats -> Nat]
    /\ folded \in [Seats -> BOOLEAN]
    /\ allIn \in [Seats -> BOOLEAN]
    /\ needsAction \in [Seats -> BOOLEAN]
    /\ mayRaise \in [Seats -> BOOLEAN]
    /\ button \in Seats
    /\ street \in PreFlop .. Showdown
    /\ toAct \in Seats \cup {NoSeat}
    /\ currentBet \in Nat
    /\ minRaise \in Nat
    /\ lastAggressor \in Seats \cup {NoSeat}
    /\ acted \subseteq Seats

(* The turn belongs to a seat that can still act and still owes an action, *)
(* with somebody left to play against: apply never has to refuse the seat  *)
(* the table is waiting for.                                               *)
TurnIsPlayable ==
    toAct # NoSeat => toAct \in Owing /\ ~HandIsOver /\ stack[toAct] > 0

(* A street closes only when every seat that can still bet has matched the *)
(* bet: nobody is skipped by an all-in, a fold or a wrap round the table.  *)
StreetClosesMatched ==
    StreetIsComplete /\ ~HandIsOver =>
        \A i \in Active : streetCommitted[i] = currentBet

(* Seats still able to act at the same point have put in the same amount   *)
(* over the hand, and no seat, folded or all-in, has put in more: the top  *)
(* of the pot is always theirs to contest.                                 *)
ActiveStakesLead ==
    StreetIsComplete /\ ~HandIsOver =>
        \A i \in Active, j \in Seats : totalCommitted[j] <= totalCommitted[i]

(* A seat asked to act may raise exactly when it has not acted since the   *)
(* street began or since the last full raise: an all-in for less never     *)
(* reopens the betting to a seat that already acted, and never takes the   *)
(* right from one that had not (betting.rs module comment).                *)
RaiseRights == \A i \in Owing : mayRaise[i] <=> i \notin acted

(* What legal_actions offers is what apply accepts: a raise is offered     *)
(* exactly when one is legal, and the two ends of the offered range are    *)
(* the smallest and the largest raise apply takes.                         *)
OfferedRaisesAreLegal ==
    \A i \in Seats : MayAct(i) =>
        /\ CanRaise(i) => /\ RaiseAllowed(i, MinRaiseTo(i))
                          /\ RaiseAllowed(i, MaxRaiseTo(i))
        /\ \A to \in 0 .. MaxRaiseTo(i) :
               RaiseAllowed(i, to) => CanRaise(i) /\ to >= MinRaiseTo(i)

(* Chips only move between a seat's stack and the same seat's commitment:  *)
(* no blind, call, raise or street change makes or loses one.              *)
ChipsStayWithSeat ==
    [][\A i \in Seats :
          stack'[i] + totalCommitted'[i] = stack[i] + totalCommitted[i]]_bettingVars

(* Within a street the bet only grows, the minimum raise never shrinks     *)
(* below the big blind, and no action touches another seat's chips.        *)
BetsOnlyGrow ==
    [][street' = street /\ toAct # NoSeat =>
          /\ currentBet' >= currentBet
          /\ minRaise' >= minRaise
          /\ \A j \in Seats \ {toAct} : stack'[j] = stack[j]]_bettingVars
=============================================================================
