------------------------------- MODULE Record -------------------------------
(***************************************************************************)
(* Writing a finished hand down (app/src/hooks/use-hand-capture.ts,        *)
(* lib/history-db.ts, lib/report-hand.ts) and what the server makes of the *)
(* reports (app/api/hands/route.ts, lib/rake.ts). The chain forgets a hand *)
(* when the next one starts. A page watches it through accounts each of    *)
(* which it has seen as they once were, fetches the settled hand, and      *)
(* reports what it can prove; other pages report whatever they made of it. *)
(*                                                                         *)
(* A salt and a seed are known by the number of the hand they belong to,   *)
(* and a digest by what was hashed. Seats keep their occupants.            *)
(***************************************************************************)
EXTENDS RakeBooks, FiniteSets, FiniteSetsExt

CONSTANTS
    BigBlind,   \* the table's
    Told,       \* the big blinds a report may name
    BuyIn,      \* chips each sits down with
    Ante,       \* chips each puts in as a hand starts
    MaxBet,     \* bound: chips a seat puts into a hand
    MaxHands,   \* bound: hands played out, the first of them before the page opens
    Tries,      \* FETCH_TRIES
    MaxBehind,  \* bound: accounts the page is behind with when the table moves on
    Guesses     \* bound: reports of other pages

ASSUME RecordAssumption ==
    /\ IsFiniteSet(Seats) /\ Seats \subseteq Nat /\ Cardinality(Seats) >= 2
    /\ MaxHands \in Nat \ {0} /\ {BigBlind, Ante} \cup Told \subseteq Nat \ {0}
    /\ {BuyIn, MaxBet, Tries, MaxBehind, Guesses} \subseteq Nat
    /\ {RakeBps, RakeCapBB, RakeFreeBB} \subseteq Nat

VARIABLES
    hand,     \* the Hand account: its number, dealt_in, whether it is over, its digest
    live,     \* Table::state is HandInProgress
    seats,    \* the Seat accounts: the salt, the stack, committed_total
    truth,    \* what each hand's settlement took and paid
    view,     \* what the page has of hand, live and each seat
    buffer,   \* HandBuffer of each hand
    chase,    \* the pursuit of each settled hand: "idle", tries left, "proving" or "over"
    saved,    \* the page's own records
    rows,     \* hand_players
    guesses,
    misled    \* the hands of which another page's report named another big blind

chainVars == <<hand, live, seats, truth>>
pageVars == <<view, buffer, chase, saved>>
vars == <<chainVars, pageVars, rows, guesses, misled>>

Hands == 1 .. MaxHands
Null == -1
NoRow == [payout |-> Null, rake |-> Null, contributed |-> Null]
Larger(a, b) == IF a > b THEN a ELSE b

-----------------------------------------------------------------------------
(* The digest, as the pages and the server compute it.                     *)

(* Mutant: the payouts are not part of it. *)
DigestOfTheDeal(number, payouts) == [number |-> number, payouts |-> [s \in Seats |-> 0]]

(* What settlement hashes: computeResultHash. The seed and the board are   *)
(* the hand's own.                                                         *)
Digest(number, payouts) == [number |-> number, payouts |-> payouts]
NoDigest == [number |-> 0, payouts |-> [s \in Seats |-> 0]]

(* Mutant: any salts will do. *)
TakesAnySalts(record) == Cardinality({s \in Seats : record.salts[s] # 0}) >= 2

(* The published seed is the oracle's output with every salt of its draw.  *)
Verifies(record) == \A s \in Seats : record.salts[s] = record.seed

-----------------------------------------------------------------------------
(* The chain.                                                              *)

(* In an order of which Shuffle has the details. *)
RevealSalts ==
    /\ ~live /\ hand.number <= MaxHands
    /\ seats' = [s \in Seats |-> [seats[s] EXCEPT !.salt = hand.number + 1]]
    /\ UNCHANGED <<hand, live, truth>>

(* The hand after the last one played out starts and goes no further. *)
StartHand ==
    /\ ~live /\ \A s \in Seats : seats[s].salt # 0 /\ seats[s].stack > 0
    /\ hand' = [hand EXCEPT !.number = @ + 1, !.seed = 0, !.dealt = TRUE, !.over = FALSE]
    /\ live' = TRUE
    /\ seats' = [s \in Seats |-> LET ante == Smaller(Ante, seats[s].stack)
                              IN  [seats[s] EXCEPT !.stack = @ - ante, !.total = ante]]
    /\ UNCHANGED truth

Bet(s) ==
    /\ live /\ hand.number \in Hands /\ ~hand.over /\ seats[s].total < MaxBet /\ seats[s].stack > 0
    /\ seats' = [seats EXCEPT ![s].stack = @ - 1, ![s].total = @ + 1]
    /\ UNCHANGED <<hand, live, truth>>

(* No betting is left, with a board or without. *)
Showdown ==
    /\ live /\ hand.number \in Hands /\ ~hand.over
    /\ \E sawFlop \in BOOLEAN : hand' = [hand EXCEPT !.over = TRUE, !.sawFlop = sawFlop]
    /\ UNCHANGED <<live, seats, truth>>

(* A pot goes to one seat, or is split, the odd chip to the lowest. *)
Splits(amount) ==
    LET part == amount \div Cardinality(Seats)
    IN  {[s \in Seats |-> IF s = w THEN amount ELSE 0] : w \in Seats}
        \cup {[s \in Seats |-> IF \A t \in Seats : s <= t
                               THEN amount - (Cardinality(Seats) - 1) * part ELSE part]}

CloseHand(payouts, digest, seed) ==
    /\ hand' = [hand EXCEPT !.dealt = FALSE, !.over = TRUE, !.digest = digest, !.seed = seed]
    /\ live' = FALSE
    /\ seats' = [s \in Seats |-> [salt |-> 0, stack |-> seats[s].stack + payouts[s], total |-> 0]]

SettleHand ==
    /\ live /\ hand.over
    /\ LET put == [s \in Seats |-> seats[s].total]
           rake == RakeFor(SumFunction(put), BigBlind, hand.sawFlop)
       IN  \E payouts \in Splits(SumFunction(put) - rake) :
               /\ CloseHand(payouts, Digest(hand.number, payouts), hand.number)
               /\ truth' = [truth EXCEPT ![hand.number] =
                                {[put |-> put, payouts |-> payouts, sawFlop |-> hand.sawFlop]}]

AbandonHand ==
    /\ live /\ hand.number \in Hands
    /\ CloseHand([s \in Seats |-> seats[s].total], NoDigest, 0)
    /\ UNCHANGED truth

HandSeen == [number |-> hand.number, over |-> hand.over, dealt |-> hand.dealt]

Behind ==
    Cardinality({s \in Seats : view.seats[s] # seats[s]})
    + (IF view.hand = HandSeen THEN 0 ELSE 1) + (IF view.live = live THEN 0 ELSE 1)

Chain ==
    /\ Behind <= MaxBehind
    /\ \/ RevealSalts \/ StartHand \/ Showdown \/ SettleHand \/ AbandonHand
       \/ \E s \in Seats : Bet(s)
    /\ UNCHANGED <<pageVars, rows, guesses, misled>>

-----------------------------------------------------------------------------
(* The page: watching.                                                     *)

NoBuffer ==
    [salts |-> [s \in Seats |-> 0], dealt |-> FALSE, pot |-> 0,
     stack |-> [s \in Seats |-> 0], contributed |-> [s \in Seats |-> 0]]

(* The first salt, the last stack, the most that was put in. *)
Look(v, seen) ==
    [salts |-> [s \in Seats |-> IF seen.salts[s] # 0 THEN seen.salts[s] ELSE v.seats[s].salt],
     dealt |-> seen.dealt \/ v.hand.dealt,
     pot |-> Larger(seen.pot, SumFunction([s \in Seats |-> v.seats[s].total])),
     stack |-> [s \in Seats |-> v.seats[s].stack],
     contributed |-> [s \in Seats |-> Larger(seen.contributed[s], v.seats[s].total)]]

(* The buffer of a hand that has been chased is not looked at again. *)
Buffered(v) ==
    IF v.live /\ v.hand.number \in Hands /\ chase[v.hand.number].state # "over"
    THEN [buffer EXCEPT ![v.hand.number] = Look(v, @)] ELSE buffer

Capturable(seen) == seen.dealt /\ Cardinality({s \in Seats : seen.salts[s] # 0}) >= 2

Chased(v, seen) ==
    IF v.hand.number \in Hands /\ v.hand.over /\ chase[v.hand.number].state = "idle"
       /\ Capturable(seen[v.hand.number])
    THEN [chase EXCEPT ![v.hand.number] = [state |-> "fetching", left |-> Tries]] ELSE chase

(* An account's push or the poll's answer, and the two effects after it.   *)
Sees(v) ==
    /\ v # view /\ view' = v
    /\ buffer' = Buffered(v) /\ chase' = Chased(v, buffer')
    /\ UNCHANGED <<chainVars, saved, rows, guesses, misled>>

See ==
    \/ Sees([view EXCEPT !.hand = HandSeen])
    \/ Sees([view EXCEPT !.live = live])
    \/ \E s \in Seats : Sees([view EXCEPT !.seats[s] = seats[s]])

-----------------------------------------------------------------------------
(* The page: chasing a hand that looks over.                               *)

Over == [state |-> "over", left |-> 0]

End(n) == chase' = [chase EXCEPT ![n] = Over] /\ buffer' = [buffer EXCEPT ![n] = NoBuffer]
Again(n) == chase' = [chase EXCEPT ![n].left = @ - 1] /\ UNCHANGED buffer

Settled == ~hand.dealt /\ hand.over /\ hand.digest # NoDigest

Captured(n) == [seed |-> hand.seed, salts |-> buffer[n].salts, digest |-> hand.digest,
                sawFlop |-> hand.sawFlop]

(* The fetch fails, the hand is not settled, or what is there does not     *)
(* verify yet; or the next one has started.                                *)
FetchInVain(n) ==
    /\ chase[n].state = "fetching"
    /\ IF hand.number = n /\ chase[n].left > 1 THEN Again(n) ELSE End(n)
    /\ UNCHANGED <<chainVars, view, saved, rows, guesses, misled>>

(* saveHand: the first good capture wins. *)
Fetch(n) ==
    /\ chase[n].state = "fetching" /\ hand.number = n /\ Settled /\ Verifies(Captured(n))
    /\ saved' = [saved EXCEPT ![n] = IF @ = {} THEN {Captured(n)} ELSE @]
    /\ chase' = [chase EXCEPT ![n] = [state |-> "proving", left |-> 0]]
    /\ UNCHANGED <<chainVars, view, buffer, rows, guesses, misled>>

(* The payouts that reproduce the digest: what the stacks grew by since    *)
(* they were last seen, or the whole pot to one seat.                      *)
ProvenPayouts(n, record) ==
    LET seen == buffer[n]
        deltas == [s \in Seats |-> Larger(0, seats[s].stack - seen.stack[s])]
        net == seen.pot - RakeFor(seen.pot, BigBlind, record.sawFlop)
        soleWinner == {[s \in Seats |-> IF s = w THEN net ELSE 0] : w \in Seats}
    IN  {p \in {deltas} \cup soleWinner : Digest(n, p) = record.digest}

Results(n, record) ==
    {[payouts |-> p, blind |-> BigBlind, contributed |-> buffer[n].contributed] :
        p \in ProvenPayouts(n, record)}

-----------------------------------------------------------------------------
(* The server.                                                             *)

(* Mutant: a breakdown is believed as it comes. *)
AsReported(contributed, netSum, blind, sawFlop) == TRUE

(* A breakdown is believed if raking its sum, at the big blind the report *)
(* names, leaves what was paid.                                            *)
ContributionsProven(contributed, netSum, blind, sawFlop) ==
    LET claimed == SumFunction(contributed) IN PotBehind(netSum, blind, sawFlop, claimed) = claimed

ResultRows(record, r) ==
    LET netSum == SumFunction(r.payouts)
        claimed == SumFunction(r.contributed)
        paid == PotBehind(netSum, r.blind, record.sawFlop, claimed)
        shares == AttributeRake(r.payouts, paid - netSum)
        proven == ContributionsProven(r.contributed, netSum, r.blind, record.sawFlop)
    IN  [s \in Seats |->
            [payout |-> r.payouts[s], rake |-> shares[s],
             contributed |-> IF proven THEN r.contributed[s] ELSE Null]]

(* A row is inserted once; a contribution nobody had yet is filled in. Here *)
(* every report names every seat.                                          *)
Merged(old, new) ==
    IF old = NoRow THEN new
    ELSE IF old.contributed = Null
         THEN [old EXCEPT !.contributed = new.contributed] ELSE old

Post(n, record, r) ==
    rows' = IF Verifies(record) /\ Digest(n, r.payouts) = record.digest /\ SumFunction(r.payouts) > 0
            THEN LET new == ResultRows(record, r)
                 IN  [rows EXCEPT ![n] = [s \in Seats |-> Merged(@[s], new[s])]]
            ELSE rows

(* The seats are read, the results proved or not, and the report sent; it  *)
(* may not arrive.                                                         *)
Report(n) ==
    /\ chase[n].state = "proving" /\ End(n)
    /\ \/ \E record \in saved[n] : \E r \in Results(n, record) : Post(n, record, r)
       \/ UNCHANGED rows
    /\ UNCHANGED <<chainVars, view, saved, guesses, misled>>

(* Another page's report: the hand's record, and a reading of its money.   *)
(* It matters to nothing but the reports after it, of which the page's own *)
(* might be any, so it comes when the page is about to report.             *)
OtherReport ==
    /\ guesses < Guesses /\ guesses' = guesses + 1
    /\ \E n \in Hands : \E t \in truth[n] :
           /\ chase[n].state = "proving"
           /\ \E payouts \in Splits(SumFunction(t.payouts)), contributed \in [Seats -> 0 .. MaxBet],
                 blind \in Told :
               Post(n, [seed |-> n, salts |-> [s \in Seats |-> n], sawFlop |-> t.sawFlop,
                        digest |-> Digest(n, t.payouts)],
                    [payouts |-> payouts, blind |-> blind, contributed |-> contributed])
               /\ misled' = IF blind = BigBlind THEN misled ELSE misled \cup {n}
           /\ rows' # rows
    /\ UNCHANGED <<chainVars, pageVars>>

(* The first hand was abandoned; the page may not have seen a seat since it *)
(* was being played.                                                       *)
Init ==
    /\ hand = [number |-> 1, seed |-> 0, dealt |-> FALSE, over |-> TRUE, sawFlop |-> FALSE,
               digest |-> NoDigest]
    /\ live = FALSE
    /\ seats = [s \in Seats |-> [salt |-> 0, stack |-> BuyIn, total |-> 0]]
    /\ truth = [n \in Hands |-> {}]
    /\ \E old \in SUBSET Seats :
           LET ante == Smaller(Ante, BuyIn)
           IN  view = [hand |-> HandSeen, live |-> live, seats |-> [s \in Seats |->
                   IF s \in old THEN [salt |-> 1, stack |-> BuyIn - ante, total |-> ante]
                   ELSE seats[s]]]
    /\ buffer = [n \in Hands |-> NoBuffer]
    /\ chase = [n \in Hands |-> [state |-> "idle", left |-> 0]]
    /\ saved = [n \in Hands |-> {}]
    /\ rows = [n \in Hands |-> [s \in Seats |-> NoRow]]
    /\ guesses = 0
    /\ misled = {}

Next ==
    \/ Chain \/ See
    \/ \E n \in Hands : FetchInVain(n) \/ Fetch(n) \/ Report(n)
    \/ OtherReport

Spec == Init /\ [][Next]_vars

-----------------------------------------------------------------------------
(* Properties.                                                             *)

(* A record that is kept is of the hand it is filed under, with the salts  *)
(* of its own draw, however late the page saw each account: what is stored *)
(* never accuses an honest hand (use-hand-capture.ts:347-351).             *)
RecordsAreOfTheirHand ==
    \A n \in Hands : \A record \in saved[n] :
        /\ record.seed = n /\ \A s \in Seats : record.salts[s] = n
        /\ \E t \in truth[n] : record.digest = Digest(n, t.payouts)

(* What the server says a seat was paid is what it was paid. *)
PayoutsAreTrue ==
    \A n \in Hands, s \in Seats : rows[n][s] # NoRow =>
        \E t \in truth[n] : rows[n][s].payout = t.payouts[s]

(* What the seats of a hand are said to have put in comes to its pot, but  *)
(* for the chip a rounded rake hides (rake.ts:44-47), whoever reported     *)
(* which of them; or only one of the two is small enough to go free of     *)
(* rake, and nothing tells it from the other, which is larger by its rake. *)
(* A report that named another big blind can be believed further off, by   *)
(* no more than the percentage of the pot (api/hands/route.ts:49-51).      *)
ContributionsAddUp ==
    \A n \in Hands : (\A s \in Seats : rows[n][s].contributed # Null) =>
        \E t \in truth[n] :
            LET sum == SumFunction([s \in Seats |-> rows[n][s].contributed])
                pot == SumFunction(t.put)
                larger == Larger(sum, pot)
                smaller == Smaller(sum, pot)
            IN  \/ larger - smaller <= 1
                \/ /\ smaller <= BigBlind * RakeFreeBB
                   /\ larger - smaller = RakeFor(larger, BigBlind, t.sawFlop)
                \/ n \in misled /\ larger - smaller <= (larger * RakeBps) \div 10000
=============================================================================
