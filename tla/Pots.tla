-------------------------------- MODULE Pots --------------------------------
(***************************************************************************)
(* Pot layering, payout and rake: crates/poker-engine/src/pots.rs, and the *)
(* arithmetic of programs/solpoker/src/{state,instructions/settle}.rs.     *)
(* Pure operators; module Settlement runs them over every small hand and   *)
(* module Hand uses them to settle the hands it plays.                     *)
(*                                                                         *)
(* A hand rank only matters by comparison, so a rank is a natural (higher  *)
(* wins) and NoRank a seat that did not reach the showdown.                *)
(***************************************************************************)
EXTENDS Ring, SequencesExt

CONSTANTS
    RakeBps,       \* RAKE_BPS, out of 10 000
    RakeCapBB,     \* RAKE_CAP_BIG_BLINDS
    RakeFreeBB     \* RAKE_FREE_BIG_BLINDS

ASSUME RakeAssumption == RakeBps \in 0 .. 9999 /\ RakeCapBB \in Nat /\ RakeFreeBB \in Nat

NoRank == -1

Total(chips) == SumFunctionOnSet(chips, Seats)

-----------------------------------------------------------------------------
(* build_pots: one band per distinct contribution, the lowest first, merged *)
(* with the band below when nobody new drops out or nobody can win it.     *)

BandAmount(contributions, prev, level) ==
    Total([i \in Seats |-> Lesser(contributions[i], level) - Lesser(contributions[i], prev)])

Eligible(contributions, folded, level) ==
    {i \in Seats : contributions[i] >= level /\ ~folded[i]}

(* Mutant: a band nobody can win becomes a pot of its own. *)
MergesOnlyEqual(pots, eligible) ==
    pots # <<>> /\ Last(pots).eligible = eligible

MergesWithLast(pots, eligible) ==
    pots # <<>> /\ (Last(pots).eligible = eligible \/ eligible = {})

Levels(contributions) == {contributions[i] : i \in Seats} \ {0}

AddBand(contributions, folded, level, pots) ==
    LET below == {l \in Levels(contributions) : l < level} \cup {0}
        amount == BandAmount(contributions, Max(below), level)
        eligible == Eligible(contributions, folded, level)
    IN  IF MergesWithLast(pots, eligible)
        THEN Front(pots) \o <<[Last(pots) EXCEPT !.amount = @ + amount]>>
        ELSE Append(pots, [amount |-> amount, eligible |-> eligible])

BuildPots(contributions, folded) ==
    MapThenFoldSet(LAMBDA level, pots : AddBand(contributions, folded, level, pots), <<>>,
                   LAMBDA level : level, Max, Levels(contributions))

-----------------------------------------------------------------------------
(* distribute: the best eligible rank takes the pot, ties split it, and    *)
(* odd chips go clockwise from the button.                                 *)

Winners(pot, ranks) ==
    LET ranked == {i \in pot.eligible : ranks[i] # NoRank}
    IN  IF ranked = {} THEN pot.eligible
        ELSE {i \in ranked : \A j \in ranked : ranks[j] <= ranks[i]}

(* Mutant: every tied winner is given the odd chip. *)
ShareRoundedUp(amount, winners, button, i) ==
    (amount + Cardinality(winners) - 1) \div Cardinality(winners)

(* Mutant: the odd chips are counted from seat 0, not from the button. *)
ShareFromSeatZero(amount, winners, button, i) ==
    LET n == Cardinality(winners)
        place == Cardinality({j \in winners : j < i})
    IN  amount \div n + IF place < amount % n THEN 1 ELSE 0

Share(amount, winners, button, i) ==
    LET n == Cardinality(winners)
        place == Cardinality({j \in winners : Steps(button, j) < Steps(button, i)})
    IN  amount \div n + IF place < amount % n THEN 1 ELSE 0

PayPot(ranks, button, dist, pot) ==
    LET winners == Winners(pot, ranks)
        part(i) == IF i \in winners THEN Share(pot.amount, winners, button, i) ELSE 0
    IN  IF winners = {}
        THEN [dist EXCEPT !.unclaimed = @ + pot.amount]
        ELSE [dist EXCEPT !.payouts = [i \in Seats |-> @[i] + part(i)]]

Distribute(pots, ranks, button) ==
    FoldLeft(LAMBDA dist, pot : PayPot(ranks, button, dist, pot),
             [payouts |-> [i \in Seats |-> 0], unclaimed |-> 0], pots)

-----------------------------------------------------------------------------
(* rake_for, and the way settle_hand spreads the rake over the payouts.    *)

RakeFor(pot, bigBlind, sawFlop) ==
    IF ~sawFlop \/ bigBlind = 0 \/ pot <= bigBlind * RakeFreeBB THEN 0
    ELSE Lesser(Lesser((pot * RakeBps) \div 10000, bigBlind * RakeCapBB), pot)

(* Mutant: the part the division leaves over is never taken.               *)
TakeRemainderNowhere(raked, remainder) == raked

TakeRemainder(raked, remainder) ==
    IF remainder > 0 /\ raked.payouts[raked.largest] >= remainder
    THEN [raked EXCEPT !.payouts[raked.largest] = @ - remainder, !.taken = @ + remainder]
    ELSE raked

(* The loop reduces payouts[i] in the same pass that looks for the largest *)
(* payout, so a seat is compared with payouts that are already reduced.    *)
Charge(rake, paid, raked, i) ==
    LET largest == IF raked.payouts[i] > raked.payouts[raked.largest] THEN i ELSE raked.largest
        share == (rake * raked.payouts[i]) \div paid
    IN  IF raked.payouts[i] = 0 THEN raked
        ELSE [payouts |-> [raked.payouts EXCEPT ![i] = @ - share],
              taken |-> raked.taken + share,
              largest |-> largest]

TakeRake(payouts, rake) ==
    LET untouched == [payouts |-> payouts, taken |-> 0, largest |-> 0]
        charged == FoldLeft(LAMBDA raked, i : Charge(rake, Total(payouts), raked, i),
                            untouched, [k \in 1 .. MaxSeats |-> k - 1])
    IN  IF rake > 0 /\ Total(payouts) > 0
        THEN TakeRemainder(charged, rake - charged.taken)
        ELSE untouched
=============================================================================
