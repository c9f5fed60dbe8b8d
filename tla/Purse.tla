------------------------------- MODULE Purse --------------------------------
(***************************************************************************)
(* What a hand promises a player's money, with no streets, bets or cards   *)
(* in sight: a hand is dealt to some seats, and later closes in one step   *)
(* that either hands every chip back or moves chips between those seats    *)
(* and the house, none made and none lost. Module Hand implements it.      *)
(***************************************************************************)
EXTENDS Ring, FiniteSetsExt

VARIABLES
    wealth,    \* chips of each seat, behind or in the middle
    playing,   \* seats of the running hand, {} between hands
    house      \* the rake

purseVars == <<wealth, playing, house>>

Sum(chips) == SumFunctionOnSet(chips, Seats)

PurseInit == wealth \in [Seats -> Nat] /\ playing = {} /\ house = 0

(* Seats without a secured hole account (out) lose what they hold: this is *)
(* what the code does, against its own comment (README, findings).         *)
Deal(players, out) ==
    /\ playing = {}
    /\ Cardinality(players) >= 2
    /\ players \cap out = {}
    /\ \A i \in players : wealth[i] > 0
    /\ playing' = players
    /\ wealth' = [i \in Seats |-> IF i \in out THEN 0 ELSE wealth[i]]
    /\ UNCHANGED house

(* Somebody gains, or everybody loses to the house at most the rake.       *)
Award ==
    /\ playing # {}
    /\ playing' = {}
    /\ house' >= house
    /\ \A i \in Seats \ playing : wealth'[i] = wealth[i]
    /\ \A i \in Seats : wealth'[i] >= 0
    /\ Sum(wealth') + house' = Sum(wealth) + house
    /\ \E i \in playing : wealth'[i] > 0

GiveBack ==
    /\ playing # {}
    /\ playing' = {}
    /\ UNCHANGED <<wealth, house>>

PurseNext ==
    \/ \E players, out \in SUBSET Seats : Deal(players, out)
    \/ Award
    \/ GiveBack

PurseSpec == PurseInit /\ [][PurseNext]_purseVars
=============================================================================
