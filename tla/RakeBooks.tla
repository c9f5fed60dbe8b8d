----------------------------- MODULE RakeBooks ------------------------------
(***************************************************************************)
(* The rake recomputed off chain from what a hand can be proven to have    *)
(* paid: app/src/lib/rake.ts. It shares no code with the program: module   *)
(* Settlement compares the two, module Record uses it as the server does.  *)
(***************************************************************************)
EXTENDS Integers, Functions

CONSTANTS
    Seats,
    RakeBps, RakeCapBB, RakeFreeBB  \* the port's own copies of the program's

Smaller(a, b) == IF a < b THEN a ELSE b

(* rakeFor *)
RakeFor(pot, blind, sawFlop) ==
    IF ~sawFlop \/ blind = 0 \/ pot <= blind * RakeFreeBB THEN 0
    ELSE Smaller(Smaller((pot * RakeBps) \div 10000, blind * RakeCapBB), pot)

(* rakeFromNetPayouts: the pot behind a sum of payouts. The observed pot,  *)
(* if raking it leaves that sum, else eight rounds towards a fixed point.  *)
PotBehind(netSum, blind, sawFlop, observed) ==
    LET rake[i \in 0 .. 8] == IF i = 0 THEN 0 ELSE RakeFor(netSum + rake[i - 1], blind, sawFlop)
    IN  IF observed >= netSum /\ observed - RakeFor(observed, blind, sawFlop) = netSum THEN observed
        ELSE netSum + rake[8]

(* Mutant: every seat keeps its rounded-down share and the rest is lost. *)
AttributeNoRemainder(payouts, rake) ==
    LET netSum == SumFunction(payouts)
    IN  [s \in Seats |-> IF netSum = 0 THEN 0 ELSE (rake * payouts[s]) \div netSum]

(* attributeRake: in proportion to the net payouts, and what the division  *)
(* leaves over to the first of the largest.                                *)
AttributeRake(payouts, rake) ==
    LET netSum == SumFunction(payouts)
        share == [s \in Seats |-> (rake * payouts[s]) \div netSum]
        largest == CHOOSE s \in Seats : \A t \in Seats :
                       payouts[t] < payouts[s] \/ (payouts[t] = payouts[s] /\ s <= t)
    IN  IF rake <= 0 \/ netSum <= 0 THEN [s \in Seats |-> 0]
        ELSE [share EXCEPT ![largest] = @ + rake - SumFunction(share)]
=============================================================================
