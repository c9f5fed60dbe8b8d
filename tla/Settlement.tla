----------------------------- MODULE Settlement -----------------------------
(***************************************************************************)
(* The money part of settle_hand                                           *)
(* (programs/solpoker/src/instructions/settle.rs) over every small hand:   *)
(* whatever was contributed, folded, shown and dealt, what does each seat  *)
(* get? Checked against a reference that never builds a band: pots between *)
(* the stakes of the seats still in, chips dealt out one at a time. Its    *)
(* names are none of module Hand's, so that HandProofs can extend both.    *)
(***************************************************************************)
EXTENDS Pots

CONSTANTS
    Blind,         \* TableConfig::big_blind
    Stakes,        \* contributions tried for every seat
    ShowdownRanks  \* hand ranks tried for every seat, naturals

ASSUME InputsAssumption == Blind \in Nat /\ Stakes \subseteq Nat /\ ShowdownRanks \subseteq Nat

VARIABLES
    contributions, hasFolded, \* what the hand left in the seat accounts
    shown,                    \* the rank each live seat would show down
    dealerButton, sawFlop,
    outcome,                  \* "open", "settled" or "refused" (UnclaimedChips)
    dist,                     \* the engine's distribution
    raked                     \* the payouts after the rake, and the rake taken

handVars == <<contributions, hasFolded, shown, dealerButton, sawFlop>>
settlementVars == <<handVars, outcome, dist, raked>>

Books == INSTANCE RakeBooks

Live == {i \in Seats : ~hasFolded[i] /\ contributions[i] > 0}

(* Two blinds were posted and somebody who paid is still in (module        *)
(* Hand, EveryPotHasAnOwner).                                              *)
SettlementInit ==
    /\ contributions \in [Seats -> Stakes]
    /\ hasFolded \in [Seats -> BOOLEAN]
    /\ Cardinality({i \in Seats : contributions[i] > 0}) >= 2
    /\ Live # {}
    /\ shown \in [Live -> ShowdownRanks]
    /\ dealerButton \in Seats
    /\ sawFlop \in BOOLEAN
    /\ outcome = "open"
    /\ dist = [payouts |-> [i \in Seats |-> 0], unclaimed |-> 0]
    /\ raked = [payouts |-> [i \in Seats |-> 0], taken |-> 0, largest |-> 0]

(* A fold-out winner is given the worst rank; alone, it wins with any.     *)
RanksShown == [i \in Seats |-> IF i \in Live THEN shown[i] ELSE NoRank]

SettleMoney ==
    LET owed == Distribute(BuildPots(contributions, hasFolded), RanksShown, dealerButton)
        rake == RakeFor(Total(owed.payouts), Blind, sawFlop)
    IN  /\ outcome = "open"
        /\ outcome' = IF owed.unclaimed = 0 THEN "settled" ELSE "refused"
        /\ dist' = owed
        /\ raked' = IF owed.unclaimed = 0 THEN TakeRake(owed.payouts, rake) ELSE raked
        /\ UNCHANGED handVars

SettlementNext == SettleMoney

SettlementSpec == SettlementInit /\ [][SettlementNext]_settlementVars

-----------------------------------------------------------------------------
(* The reference payout.                                                   *)

Stake(i) == contributions[i]

(* What seat j put in above one level and up to another. *)
Between(j, low, high) ==
    Cardinality({chip \in 1 .. Stake(j) : low < chip /\ chip <= high})

(* A pot for every distinct stake of a live seat; chips above the highest  *)
(* of them belong to the last pot.                                         *)
LiveStakes == {Stake(i) : i \in Live}

RefPot(stake) ==
    LET low == Max({0} \cup {s \in LiveStakes : s < stake})
        high == IF stake = Max(LiveStakes) THEN Max({Stake(i) : i \in Seats}) ELSE stake
    IN  MapThenSumSet(LAMBDA j : Between(j, low, high), Seats)

RefWinners(stake) ==
    LET contenders == {i \in Live : Stake(i) >= stake}
    IN  {i \in contenders : \A j \in contenders : RanksShown[j] <= RanksShown[i]}

(* The pot dealt out one chip at a time, clockwise from the button. *)
RefShare(stake, i) ==
    LET winners == RefWinners(stake)
        before == Cardinality({j \in winners : Steps(dealerButton, j) < Steps(dealerButton, i)})
    IN  IF i \notin winners THEN 0
        ELSE Cardinality({chip \in 1 .. RefPot(stake) :
                             (chip - 1) % Cardinality(winners) = before})

RefPayout(i) == MapThenSumSet(LAMBDA stake : RefShare(stake, i), LiveStakes)

-----------------------------------------------------------------------------
(* Properties.                                                             *)

(* Settlement is never refused for chips without an owner                  *)
(* (PokerError::UnclaimedChips), whoever folded, and side pots, ties and   *)
(* odd chips pay exactly the reference amounts (build_pots and distribute  *)
(* together).                                                              *)
PaysTheReference ==
    outcome # "open" =>
        /\ outcome = "settled"
        /\ \A i \in Seats : dist.payouts[i] = RefPayout(i)

(* What a seat pays in rake, and what its exact share would be, rounded    *)
(* down.                                                                   *)
ChargedTo(i) == dist.payouts[i] - raked.payouts[i]
FairCharge(i) == (raked.taken * dist.payouts[i]) \div Total(dist.payouts)

(* The rake is taken whole (the guard on the remainder in settle_hand      *)
(* never leaves part of it uncollected), a hand that saw no flop pays none *)
(* ("no flop, no drop", state.rs:86), every other chip is paid out, and    *)
(* winners pay in proportion: nobody less than the rounded-down share and  *)
(* at most one seat more, by less than one chip per winner ("spread across *)
(* the winners in proportion", settle.rs:135-137).                         *)
RakeIsFair ==
    outcome = "settled" =>
        /\ Total(raked.payouts) + raked.taken = Total(contributions)
        /\ raked.taken = IF sawFlop THEN RakeFor(Total(contributions), Blind, TRUE) ELSE 0
        /\ \A i \in Seats : ChargedTo(i) >= FairCharge(i)
        /\ \A i, j \in Seats : ChargedTo(i) > FairCharge(i) /\ ChargedTo(j) > FairCharge(j) => i = j
        /\ \A i \in Seats : ChargedTo(i) < FairCharge(i) + Cardinality(Live)

(* The books the server keeps agree with the program (lib/rake.ts, 91-102):*)
(* with the pot it observed it finds the very rake that was taken, the     *)
(* shares it attributes add up to it, a lone winner is attributed what it  *)
(* paid, and of two neither is off by more than "a chip or two". (Of three *)
(* tied winners one may be off by three.)                                  *)
BooksAgree ==
    outcome = "settled" =>
        LET net == Total(raked.payouts)
            pot == Books!PotBehind(net, Blind, sawFlop, Total(contributions))
            shares == Books!AttributeRake(raked.payouts, pot - net)
            winners == {i \in Seats : dist.payouts[i] > 0}
        IN  /\ pot - net = raked.taken
            /\ Total(shares) = raked.taken
            /\ Cardinality(winners) = 1 => \A i \in Seats : shares[i] = ChargedTo(i)
            /\ Cardinality(winners) = 2 => \A i \in Seats : shares[i] - ChargedTo(i) \in -2 .. 2
=============================================================================
