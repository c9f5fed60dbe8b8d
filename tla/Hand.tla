-------------------------------- MODULE Hand --------------------------------
(***************************************************************************)
(* The life of a hand on the table's accounts: the instructions of         *)
(* programs/solpoker/src/instructions/{hand,action,timeout,settle}.rs      *)
(* around the engine (module Betting) and its settlement (module Pots).    *)
(* Every instruction but player_action is permissionless, so any of them   *)
(* may be called at any moment, in any order and more than once; a         *)
(* transaction is atomic, so a refused one is no step at all.              *)
(*                                                                         *)
(* Seats keep their occupants here (custody is base-layer business), and   *)
(* the arrival of the randomness is one step. Cards are abstracted to the  *)
(* number of the hand they were dealt for.                                 *)
(***************************************************************************)
EXTENDS Betting, Pots

CONSTANTS
    Ranks,       \* showdown ranks, naturals: the deal decides which
    MaxHands     \* bound: hands played

ASSUME HandAssumption == Ranks \subseteq Nat /\ MaxHands \in Nat

NoCard == 0

VARIABLES
    tableState,     \* Table::state
    handNumber,     \* Table::hand_number, copied to Hand::hand_number
    boardLen,       \* how many cards Hand::board shows
    dealtIn,        \* Hand::dealt_in
    deckReady,      \* Deck::shuffle_state is FULFILLED and Deck::secured
    deckCards,      \* hand the deck is ordered for, or NoCard
    nextIndex,      \* Deck::next_index
    holeHand,       \* HoleCards::hand_number
    holeCards,      \* HoleCards::cards: hand they were dealt for, or NoCard
    secured,        \* Seat::cards_secured
    clock,          \* now against Hand::deadline
    rakeAccrued     \* Table::rake_accrued

cardVars == <<boardLen, dealtIn, deckReady, deckCards, nextIndex, holeHand, holeCards>>
moneyVars == <<rakeAccrued>>
vars == <<bettingVars, tableState, handNumber, cardVars, secured, clock, moneyVars>>

InProgress == tableState = "HandInProgress"

(* Street::board_len *)
BoardLen(s) == CASE s = PreFlop -> 0 [] s = Flop -> 3 [] s = Turn -> 4 [] OTHER -> 5

-----------------------------------------------------------------------------
(* Before the hand. The VRF callbacks and secure_hole belong to other      *)
(* components; here is all a hand sees of them.                            *)

ShuffleFulfilled ==
    /\ ~InProgress /\ ~deckReady
    /\ deckReady' = TRUE
    /\ UNCHANGED <<bettingVars, tableState, handNumber, boardLen, dealtIn, deckCards,
                   nextIndex, holeHand, holeCards, secured, clock, moneyVars>>

SecureHole(i) ==
    /\ ~secured[i]
    /\ secured' = [secured EXCEPT ![i] = TRUE]
    /\ UNCHANGED <<bettingVars, tableState, handNumber, cardVars, clock, moneyVars>>

(* start_hand. A seat whose hole account is not secured is left out, and   *)
(* store_betting writes the engine's empty seat over it: its stack is gone. *)
StartHand ==
    LET stacks == [i \in Seats |-> IF secured[i] THEN stack[i] ELSE 0]
        players == {i \in Seats : stacks[i] > 0}
    IN  /\ handNumber < MaxHands
        /\ ~InProgress
        /\ deckReady
        /\ Cardinality(players) >= 2
        /\ BeginHand(stacks, FirstAfter(button, players))
        /\ tableState' = "HandInProgress"
        /\ handNumber' = handNumber + 1
        /\ boardLen' = 0
        /\ dealtIn' = players
        /\ deckCards' = handNumber + 1
        /\ nextIndex' = 0
        /\ clock' = "inTime"
        /\ UNCHANGED <<deckReady, holeHand, holeCards, secured, rakeAccrued>>

-----------------------------------------------------------------------------
(* deal_hole_cards: every account already stamped with this hand is left   *)
(* alone, so a retry is harmless. It does not look at the table's state.   *)

(* Mutant: the stamp is not consulted. *)
UndealtIgnoringStamp == Seats

Undealt == {i \in Seats : holeHand[i] # handNumber}

DealHoleCards ==
    /\ handNumber > 0
    /\ holeHand' = [i \in Seats |-> handNumber]
    /\ holeCards' = [i \in Seats |-> IF i \notin Undealt THEN holeCards[i]
                                     ELSE IF i \in dealtIn THEN deckCards ELSE NoCard]
    /\ nextIndex' = nextIndex + 2 * Cardinality(Undealt \cap dealtIn)
    /\ UNCHANGED <<bettingVars, tableState, handNumber, boardLen, dealtIn, deckReady,
                   deckCards, secured, clock, moneyVars>>

-----------------------------------------------------------------------------
(* player_action, force_timeout, advance_street                            *)

(* An action arriving after the deadline is still accepted. *)
PlayerAction(i) ==
    /\ Act(i)
    /\ clock' = "inTime"
    /\ UNCHANGED <<tableState, handNumber, cardVars, secured, moneyVars>>

(* Mutant: the absent player is checked down even when it owes. *)
TimeoutMoveChecks(i) == "check"

(* Checked when nothing is owed, folded otherwise. *)
TimeoutMove(i) == IF Owed(i) = 0 THEN "check" ELSE "fold"

ForceTimeout ==
    /\ clock # "inTime"
    /\ \E i \in Seats : \/ TimeoutMove(i) = "check" /\ Check(i)
                        \/ TimeoutMove(i) = "fold" /\ Fold(i)
    /\ clock' = "inTime"
    /\ UNCHANGED <<tableState, handNumber, cardVars, secured, moneyVars>>

(* Fill the board up to what the new street shows, from the deck's board.  *)
ShowStreet ==
    /\ BoardLen(street') > boardLen => deckCards # NoCard
    /\ boardLen' = IF BoardLen(street') > boardLen THEN BoardLen(street') ELSE boardLen

CloseStreet ==
    /\ AdvanceStreet
    /\ ShowStreet
    /\ clock' = "inTime"
    /\ UNCHANGED <<tableState, handNumber, dealtIn, deckReady, deckCards, nextIndex,
                   holeHand, holeCards, secured, moneyVars>>

-----------------------------------------------------------------------------
(* settle_hand and abandon_hand                                            *)

(* Mutant: the hole accounts are not wiped.                                *)
WipeDeckOnly == dealtIn' = {} /\ holeCards' = holeCards

Wipe == dealtIn' = {} /\ holeCards' = [i \in Seats |-> NoCard]

(* What settling and abandoning have in common: seats cleared, deck and    *)
(* hole accounts zeroized, the hand closed, the table waiting.             *)
CloseHand ==
    /\ inHand' = [i \in Seats |-> FALSE]
    /\ streetCommitted' = [i \in Seats |-> 0]
    /\ totalCommitted' = [i \in Seats |-> 0]
    /\ folded' = [i \in Seats |-> FALSE]
    /\ allIn' = [i \in Seats |-> FALSE]
    /\ needsAction' = [i \in Seats |-> FALSE]
    /\ mayRaise' = [i \in Seats |-> FALSE]
    /\ street' = Showdown
    /\ toAct' = NoSeat
    /\ currentBet' = 0
    /\ minRaise' = 0
    /\ lastAggressor' = NoSeat
    /\ acted' = {}
    /\ tableState' = "Waiting"
    /\ deckReady' = FALSE
    /\ deckCards' = NoCard
    /\ nextIndex' = 0
    /\ Wipe
    /\ UNCHANGED <<button, handNumber, holeHand, secured, clock>>

Contested == ~HandIsOver

MaySettle == HandIsOver \/ (street = Showdown /\ StreetIsComplete)

(* Cards are compared only when contested; then the board has to be        *)
(* complete and every live hole account stamped with this hand.            *)
Evaluable ==
    Contested => boardLen = 5 /\ \A i \in Contesting : holeHand[i] = handNumber

SettleHand ==
    /\ InProgress
    /\ MaySettle
    /\ Evaluable
    /\ \E shown \in [Contesting -> Ranks] :
           LET ranks == [i \in Seats |-> IF i \in Contesting THEN shown[i] ELSE NoRank]
               owed == Distribute(BuildPots(totalCommitted, folded), ranks, button)
               rake == RakeFor(Total(owed.payouts), BigBlind, boardLen > 0)
               raked == TakeRake(owed.payouts, rake)
           IN  /\ owed.unclaimed = 0
               /\ stack' = [i \in Seats |-> stack[i] + raked.payouts[i]]
               /\ rakeAccrued' = rakeAccrued + raked.taken
    /\ boardLen' = boardLen
    /\ CloseHand

Refund(i) == stack[i] + totalCommitted[i]

AbandonHand ==
    /\ InProgress
    /\ clock = "abandonable"
    /\ stack' = [i \in Seats |-> Refund(i)]
    /\ boardLen' = 0
    /\ CloseHand
    /\ UNCHANGED rakeAccrued

-----------------------------------------------------------------------------
(* Time passes the deadline, then ABANDON_HAND_SECS more. Outside a hand   *)
(* no instruction reads the clock.                                         *)
Tick ==
    /\ InProgress
    /\ clock # "abandonable"
    /\ clock' = IF clock = "inTime" THEN "late" ELSE "abandonable"
    /\ UNCHANGED <<bettingVars, tableState, handNumber, cardVars, secured, moneyVars>>

HandInit ==
    /\ Init
    /\ tableState = "Waiting"
    /\ handNumber = 0
    /\ boardLen = 0
    /\ dealtIn = {}
    /\ deckReady = FALSE
    /\ deckCards = NoCard
    /\ nextIndex = 0
    /\ holeHand = [i \in Seats |-> 0]
    /\ holeCards = [i \in Seats |-> NoCard]
    /\ secured \in [Seats -> BOOLEAN]
    /\ clock = "inTime"
    /\ rakeAccrued = 0

HandNext ==
    \/ ShuffleFulfilled \/ StartHand \/ DealHoleCards \/ ForceTimeout \/ CloseStreet
    \/ SettleHand \/ AbandonHand \/ Tick
    \/ \E i \in Seats : SecureHole(i) \/ PlayerAction(i)

HandSpec == HandInit /\ [][HandNext]_vars

(* When each permissionless instruction is due: exactly the states in which *)
(* a call of it would be accepted and change something.                    *)
TickDue == InProgress /\ clock # "abandonable"
DealDue == handNumber > 0 /\ Undealt # {}
TimeoutDue ==
    /\ clock # "inTime"
    /\ \E i \in Seats : /\ MayAct(i)
                        /\ TimeoutMove(i) = "check" => streetCommitted[i] >= currentBet
StreetDue == StreetIsComplete /\ street # Showdown /\ (boardLen < 5 => deckCards # NoCard)
SettleDue ==
    /\ InProgress /\ MaySettle /\ Evaluable
    /\ LET pots == BuildPots(totalCommitted, folded)
       IN  \A k \in DOMAIN pots : pots[k].eligible # {}

(* Time passes, and every client's crank (app/src/lib/crank.ts) keeps      *)
(* calling what is due: weak fairness, with the guards above for ENABLED.  *)
FairHandSpec ==
    /\ HandSpec
    /\ []<>~TickDue \/ []<><<Tick>>_vars
    /\ []<>~DealDue \/ []<><<DealHoleCards>>_vars
    /\ []<>~TimeoutDue \/ []<><<ForceTimeout>>_vars
    /\ []<>~StreetDue \/ []<><<CloseStreet>>_vars
    /\ []<>~SettleDue \/ []<><<SettleHand>>_vars

-----------------------------------------------------------------------------
(* Properties.                                                             *)

(* Between hands nothing is left of the last one: no card on the deck or   *)
(* on a hole account (what makes undelegating them safe, settle.rs:3-11),  *)
(* no chip in the middle, nobody to act. Late calls of the permissionless  *)
(* instructions included.                                                  *)
CleanBetweenHands ==
    ~InProgress =>
        /\ deckCards = NoCard
        /\ toAct = NoSeat
        /\ \A i \in Seats : holeCards[i] = NoCard /\ totalCommitted[i] = 0 /\ ~inHand[i]

(* However often deal_hole_cards is called, and whenever, a seat of the    *)
(* hand gets one pair of this hand's cards and nobody else gets any.       *)
DealtOnce ==
    LET holders == {i \in Seats : holeCards[i] # NoCard}
    IN  /\ nextIndex = 2 * Cardinality(holders)
        /\ InProgress => holders \in {{}, dealtIn}
        /\ \A i \in holders : holeCards[i] = handNumber

(* Whatever was folded and bet, every pot of a hand that may be settled    *)
(* has a seat that can win it: settle_hand is never refused for unclaimed  *)
(* chips, whatever the cards.                                              *)
EveryPotHasAnOwner ==
    InProgress /\ MaySettle =>
        LET pots == BuildPots(totalCommitted, folded)
        IN  \A k \in DOMAIN pots : pots[k].eligible \cap Contesting # {}

(* Whoever walks away, and with nobody calling abandon_hand, a hand that   *)
(* started is settled: the clock, the street and the settlement need no    *)
(* particular client (timeout.rs:3-12).                                    *)
HandsFinish == InProgress ~> ~InProgress

(* "It is an **exclusion**, not a refusal ... Sitting the seat out costs   *)
(* that player a hand" (instructions/hand.rs:115-119). It costs the stack. *)
ExclusionCostsOnlyAHand ==
    [][\A i \in Seats : ~InProgress /\ InProgress' /\ i \notin dealtIn' =>
          stack'[i] = stack[i]]_vars

(* Betting is invisible from the outside: what happens to the seats' money *)
(* is one deal and one award, or one deal and one refund (module Purse).   *)
P == INSTANCE Purse WITH
        wealth <- [i \in Seats |-> stack[i] + totalCommitted[i]],
        playing <- IF InProgress THEN dealtIn ELSE {},
        house <- rakeAccrued

ImplementsPurse == P!PurseSpec
=============================================================================
