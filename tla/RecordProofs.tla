---------------------------- MODULE RecordProofs ----------------------------
(***************************************************************************)
(* What is written down of a hand is that hand's, and adds up: proofs      *)
(* about module Record, for any number of seats, hands, accounts the page  *)
(* is behind with, and reports of other pages.                             *)
(***************************************************************************)
EXTENDS Record, Sums

-----------------------------------------------------------------------------
(* The inductive invariant.                                                *)

(* What is needed of the types: the accounts and the rows have their       *)
(* fields, and the hand its number.                                        *)
Shapes ==
    /\ hand = [number |-> hand.number, seed |-> hand.seed, dealt |-> hand.dealt,
               over |-> hand.over, sawFlop |-> hand.sawFlop, digest |-> hand.digest]
    /\ hand.number \in Nat \ {0}
    /\ DOMAIN truth = Hands /\ DOMAIN saved = Hands /\ DOMAIN rows = Hands
    /\ \A n \in Hands : DOMAIN rows[n] = Seats
    /\ \A n \in Hands, s \in Seats :
           rows[n][s] = [payout |-> rows[n][s].payout, rake |-> rows[n][s].rake,
                         contributed |-> rows[n][s].contributed]

(* The table and the hand agree on whether one is being played, and only a *)
(* hand that is played out reaches its end.                                *)
HandIsLive ==
    /\ live <=> hand.dealt
    /\ live /\ hand.over => hand.number \in Hands

(* A hand is settled once: what it paid is there only when it is behind.   *)
TruthIsPast ==
    \A n \in Hands : truth[n] # {} => n <= hand.number /\ (n = hand.number => ~live)

(* A digest on the account of a hand that is not under way is its own.     *)
DigestIsOwn ==
    ~hand.dealt /\ hand.digest # NoDigest =>
        /\ hand.number \in Hands /\ hand.seed = hand.number
        /\ \E t \in truth[hand.number] : hand.digest = Digest(hand.number, t.payouts)

IInv ==
    /\ Shapes /\ HandIsLive /\ TruthIsPast /\ DigestIsOwn
    /\ RecordsAreOfTheirHand /\ PayoutsAreTrue

-----------------------------------------------------------------------------
(* The chain: the accounts change, what is written down does not.          *)

LEMMA InitIInv == Init => IInv
<1> SUFFICES ASSUME Init PROVE IInv
  OBVIOUS
<1> USE DEF Init
<1>1. 1 \in Nat \ {0}
  OBVIOUS
<1>2. Shapes
  BY <1>1 DEF Shapes, NoRow
<1>3. \A n \in Hands, s \in Seats : rows[n][s] = NoRow
  OBVIOUS
<1> QED
  BY <1>2, <1>3 DEF IInv, HandIsLive, TruthIsPast, DigestIsOwn, RecordsAreOfTheirHand,
                    PayoutsAreTrue

(* Cards are dealt of a new hand, which nothing is known of. *)
LEMMA StartHandIInv ==
    ASSUME IInv, StartHand, UNCHANGED <<pageVars, rows>> PROVE IInv'
<1>1. /\ hand'.number = hand.number + 1 /\ hand'.dealt = TRUE /\ hand'.over = FALSE
      /\ hand' = [number |-> hand'.number, seed |-> hand'.seed, dealt |-> hand'.dealt,
                  over |-> hand'.over, sawFlop |-> hand'.sawFlop, digest |-> hand'.digest]
      /\ live' = TRUE /\ ~live /\ UNCHANGED truth
  BY DEF IInv, Shapes, StartHand
<1>2. saved' = saved /\ rows' = rows
  BY DEF pageVars
<1>3. hand.number \in Nat /\ hand'.number \in Nat \ {0}
  BY <1>1 DEF IInv, Shapes
<1>4. Shapes'
  BY <1>1, <1>2, <1>3 DEF IInv, Shapes
<1>5. HandIsLive'
  BY <1>1 DEF HandIsLive
<1>6. TruthIsPast'
  <2>1. ASSUME NEW n \in Hands, truth'[n] # {} PROVE n <= hand.number /\ n \in Int
    BY <1>1, <2>1, RecordAssumption DEF IInv, TruthIsPast, Hands
  <2> QED BY <1>1, <1>3, <2>1 DEF TruthIsPast
<1>7. DigestIsOwn'
  BY <1>1 DEF DigestIsOwn
<1>8. RecordsAreOfTheirHand'
  BY <1>1, <1>2 DEF IInv, RecordsAreOfTheirHand
<1>9. PayoutsAreTrue'
  BY <1>1, <1>2 DEF IInv, PayoutsAreTrue
<1> QED BY <1>4, <1>5, <1>6, <1>7, <1>8, <1>9 DEF IInv

(* Nothing but the stakes changes, or the hand comes to its end. *)
LEMMA GoesOnIInv ==
    ASSUME IInv, RevealSalts \/ Showdown \/ \E s \in Seats : Bet(s), UNCHANGED <<pageVars, rows>>
    PROVE  IInv'
<1> USE DEF IInv, Shapes
<1>1. /\ UNCHANGED <<live, truth, saved, rows>>
      /\ hand'.number = hand.number /\ hand'.dealt = hand.dealt
      /\ hand'.digest = hand.digest /\ hand'.seed = hand.seed
      /\ hand'.over = hand.over \/ hand.number \in Hands
  BY DEF RevealSalts, Showdown, Bet, pageVars
<1>2. hand' = [number |-> hand'.number, seed |-> hand'.seed, dealt |-> hand'.dealt,
               over |-> hand'.over, sawFlop |-> hand'.sawFlop, digest |-> hand'.digest]
  BY DEF RevealSalts, Showdown, Bet
<1>3. Shapes'
  BY <1>1, <1>2
<1>4. HandIsLive' /\ TruthIsPast' /\ DigestIsOwn'
  BY <1>1 DEF HandIsLive, TruthIsPast, DigestIsOwn
<1>5. RecordsAreOfTheirHand' /\ PayoutsAreTrue'
  BY <1>1 DEF RecordsAreOfTheirHand, PayoutsAreTrue
<1> QED BY <1>3, <1>4, <1>5

(* A hand that is settled has no record yet, by anyone. *)
LEMMA SettleHandIInv ==
    ASSUME IInv, SettleHand, UNCHANGED <<pageVars, rows>> PROVE IInv'
<1> USE DEF IInv, Shapes
<1> DEFINE N == hand.number
<1>1. live /\ hand.over /\ N \in Hands /\ N \in Nat \ {0}
  BY DEF SettleHand, HandIsLive
<1>2. PICK payouts, t :
        /\ CloseHand(payouts, Digest(N, payouts), N)
        /\ truth' = [truth EXCEPT ![N] = {t}] /\ t.payouts = payouts
  <2>1. PICK put, paid :
          /\ CloseHand(paid, Digest(N, paid), N)
          /\ truth' = [truth EXCEPT ![N] =
                           {[put |-> put, payouts |-> paid, sawFlop |-> hand.sawFlop]}]
    BY DEF SettleHand
  <2>2. [put |-> put, payouts |-> paid, sawFlop |-> hand.sawFlop].payouts = paid
    OBVIOUS
  <2> QED BY ONLY <2>1, <2>2
<1>3. /\ hand'.number = N /\ hand'.dealt = FALSE /\ hand'.digest = Digest(N, payouts)
      /\ hand'.seed = N /\ live' = FALSE
      /\ hand' = [number |-> hand'.number, seed |-> hand'.seed, dealt |-> hand'.dealt,
                  over |-> hand'.over, sawFlop |-> hand'.sawFlop, digest |-> hand'.digest]
  BY <1>2 DEF CloseHand
<1>4. UNCHANGED <<saved, rows>>
  BY DEF pageVars
<1>5. truth[N] = {} /\ truth'[N] = {t} /\ DOMAIN truth' = Hands
      /\ \A n \in Hands \ {N} : truth'[n] = truth[n]
  BY <1>1, <1>2 DEF TruthIsPast
<1>6. Shapes'
  BY <1>1, <1>3, <1>4, <1>5
<1>7. HandIsLive' /\ DigestIsOwn'
  BY <1>1, <1>2, <1>3, <1>5 DEF HandIsLive, DigestIsOwn
<1>8. TruthIsPast'
  BY <1>1, <1>3, <1>5 DEF TruthIsPast
<1>9. RecordsAreOfTheirHand'
  BY <1>4, <1>5 DEF RecordsAreOfTheirHand
<1>10. PayoutsAreTrue'
  BY <1>4, <1>5 DEF PayoutsAreTrue
<1> QED BY <1>6, <1>7, <1>8, <1>9, <1>10

(* A hand that is given back leaves no digest. *)
LEMMA AbandonHandIInv ==
    ASSUME IInv, AbandonHand, UNCHANGED <<pageVars, rows>> PROVE IInv'
<1> USE DEF IInv, Shapes
<1>1. /\ hand'.number = hand.number /\ hand'.dealt = FALSE /\ hand'.digest = NoDigest
      /\ live' = FALSE
      /\ hand' = [number |-> hand'.number, seed |-> hand'.seed, dealt |-> hand'.dealt,
                  over |-> hand'.over, sawFlop |-> hand'.sawFlop, digest |-> hand'.digest]
  BY DEF AbandonHand, CloseHand
<1>2. UNCHANGED <<truth, saved, rows>>
  BY DEF AbandonHand, pageVars
<1>3. Shapes'
  BY <1>1, <1>2
<1>4. HandIsLive' /\ TruthIsPast' /\ DigestIsOwn'
  BY <1>1, <1>2 DEF HandIsLive, TruthIsPast, DigestIsOwn
<1>5. RecordsAreOfTheirHand' /\ PayoutsAreTrue'
  BY <1>2 DEF RecordsAreOfTheirHand, PayoutsAreTrue
<1> QED BY <1>3, <1>4, <1>5

-----------------------------------------------------------------------------
(* The page and the server: the accounts stay, what is written down grows. *)

(* Whatever else the page does, it writes nothing down. *)
LEMMA NothingWrittenIInv ==
    ASSUME IInv, UNCHANGED <<chainVars, saved, rows>> PROVE IInv'
BY DEF IInv, Shapes, HandIsLive, TruthIsPast, DigestIsOwn, RecordsAreOfTheirHand,
       PayoutsAreTrue, chainVars

(* A capture that verifies is of the hand on the account. *)
LEMMA FetchIInv ==
    ASSUME IInv, NEW n \in Hands, Fetch(n) PROVE IInv'
<1> USE DEF IInv, Shapes
<1>1. /\ hand.number = n /\ ~hand.dealt /\ hand.digest # NoDigest
      /\ UNCHANGED <<hand, live, truth, rows>>
      /\ saved' = [saved EXCEPT ![n] = IF @ = {} THEN {Captured(n)} ELSE @]
  BY DEF Fetch, Settled, chainVars
<1>2. /\ hand.seed = n /\ \E t \in truth[n] : hand.digest = Digest(n, t.payouts)
  BY <1>1 DEF DigestIsOwn
<1>3. /\ Captured(n).seed = n /\ Captured(n).digest = hand.digest
      /\ \A s \in Seats : Captured(n).salts[s] = n
  BY <1>2 DEF Fetch, Verifies, Captured
<1>4. DOMAIN saved' = Hands /\ saved'[n] \subseteq saved[n] \cup {Captured(n)}
      /\ \A m \in Hands \ {n} : saved'[m] = saved[m]
  BY <1>1
<1>5. RecordsAreOfTheirHand'
  BY <1>1, <1>2, <1>3, <1>4 DEF RecordsAreOfTheirHand
<1>6. Shapes' /\ HandIsLive' /\ TruthIsPast' /\ DigestIsOwn' /\ PayoutsAreTrue'
  BY <1>1, <1>4 DEF HandIsLive, TruthIsPast, DigestIsOwn, PayoutsAreTrue
<1> QED BY <1>5, <1>6

(* A report that hashes to a true digest pays what was paid. *)
LEMMA PostIInv ==
    ASSUME IInv, UNCHANGED <<chainVars, saved>>, NEW n \in Hands, NEW record, NEW r,
           \E t \in truth[n] : record.digest = Digest(n, t.payouts),
           Post(n, record, r)
    PROVE  IInv'
<1> USE DEF IInv, Shapes
<1>1. UNCHANGED <<hand, live, truth, saved>>
  BY DEF chainVars
<1>2. CASE rows' = rows
  BY <1>2, NothingWrittenIInv
<1>3. CASE rows' # rows
  <2> DEFINE new == ResultRows(record, r)
  <2>1. PICK t \in truth[n] : Digest(n, r.payouts) = Digest(n, t.payouts)
    BY <1>3 DEF Post
  <2>2. r.payouts = t.payouts
    BY <2>1 DEF Digest
  <2>3. rows' = [rows EXCEPT ![n] = [s \in Seats |-> Merged(rows[n][s], new[s])]]
    BY <1>3 DEF Post
  <2>4. \A s \in Seats :
          /\ new[s].payout = t.payouts[s]
          /\ new[s] = [payout |-> new[s].payout, rake |-> new[s].rake,
                       contributed |-> new[s].contributed]
    BY <2>2 DEF ResultRows
  <2> HIDE DEF new
  <2>5. DOMAIN rows' = Hands /\ DOMAIN rows'[n] = Seats
        /\ \A m \in Hands \ {n} : rows'[m] = rows[m]
    BY <2>3
  <2>6. \A s \in Seats : rows'[n][s] = Merged(rows[n][s], new[s])
    BY <2>3
  <2>7. \A s \in Seats : rows[n][s] = [payout |-> rows[n][s].payout, rake |-> rows[n][s].rake,
                                      contributed |-> rows[n][s].contributed]
    OBVIOUS
  <2>8. ASSUME NEW s \in Seats
        PROVE  /\ rows'[n][s] = [payout |-> rows'[n][s].payout, rake |-> rows'[n][s].rake,
                                 contributed |-> rows'[n][s].contributed]
               /\ rows'[n][s].payout = t.payouts[s]
                  \/ (rows[n][s] # NoRow /\ rows'[n][s].payout = rows[n][s].payout)
    <3>1. s \in Seats
      OBVIOUS
    <3>2. rows'[n][s] = Merged(rows[n][s], new[s])
      BY ONLY <2>6, <3>1
    <3>3. CASE rows[n][s] = NoRow
      <4>1. rows'[n][s] = new[s]
        BY ONLY <3>2, <3>3 DEF Merged
      <4> QED BY <2>4, <4>1
    <3>4. CASE rows[n][s] # NoRow
      <4>1. \/ rows'[n][s] = rows[n][s]
            \/ rows'[n][s] = [rows[n][s] EXCEPT !.contributed = new[s].contributed]
        BY ONLY <3>2, <3>4 DEF Merged
      <4>2. PICK a, b, c : rows[n][s] = [payout |-> a, rake |-> b, contributed |-> c]
        BY ONLY <2>7, <3>1
      <4>3. \A x : [rows[n][s] EXCEPT !.contributed = x]
                   = [payout |-> a, rake |-> b, contributed |-> x]
        BY ONLY <4>2
      <4>4. PICK x : rows'[n][s] = [payout |-> a, rake |-> b, contributed |-> x]
        BY ONLY <4>1, <4>2, <4>3
      <4>5. rows'[n][s].payout = rows[n][s].payout
        BY ONLY <4>2, <4>4
      <4> QED BY ONLY <3>4, <4>4, <4>5
    <3> QED BY <3>3, <3>4
  <2>9. Shapes'
    BY <1>1, <2>5, <2>8
  <2>10. PayoutsAreTrue'
    BY <1>1, <2>5, <2>8 DEF PayoutsAreTrue
  <2>11. HandIsLive' /\ TruthIsPast' /\ DigestIsOwn' /\ RecordsAreOfTheirHand'
    BY <1>1 DEF HandIsLive, TruthIsPast, DigestIsOwn, RecordsAreOfTheirHand
  <2> QED BY <2>9, <2>10, <2>11
<1> QED BY <1>2, <1>3

LEMMA ReportIInv ==
    ASSUME IInv, NEW n \in Hands, Report(n) PROVE IInv'
<1>1. UNCHANGED <<chainVars, saved>>
  BY DEF Report
<1>2. CASE rows' = rows
  BY <1>1, <1>2, NothingWrittenIInv
<1>3. CASE rows' # rows
  <2>1. PICK record \in saved[n] : \E r \in Results(n, record) : Post(n, record, r)
    BY <1>3 DEF Report
  <2>2. PICK r : Post(n, record, r)
    BY <2>1
  <2>3. \E t \in truth[n] : record.digest = Digest(n, t.payouts)
    BY <2>1 DEF IInv, RecordsAreOfTheirHand
  <2> QED BY <1>1, <2>2, <2>3, PostIInv
<1> QED BY <1>2, <1>3

LEMMA OtherReportIInv ==
    ASSUME IInv, OtherReport PROVE IInv'
<1>1. UNCHANGED <<chainVars, saved>>
  BY DEF OtherReport, pageVars
<1>2. PICK n, t, payouts, blind, contributed :
        n \in Hands /\ t \in truth[n] /\
        Post(n, [seed |-> n, salts |-> [s \in Seats |-> n], sawFlop |-> t.sawFlop,
                 digest |-> Digest(n, t.payouts)],
             [payouts |-> payouts, blind |-> blind, contributed |-> contributed])
  BY DEF OtherReport
<1> DEFINE record == [seed |-> n, salts |-> [s \in Seats |-> n], sawFlop |-> t.sawFlop,
                      digest |-> Digest(n, t.payouts)]
           r == [payouts |-> payouts, blind |-> blind, contributed |-> contributed]
<1>3. record.digest = Digest(n, t.payouts) /\ Post(n, record, r)
  BY <1>2
<1>4. n \in Hands /\ t \in truth[n]
  BY <1>2
<1> HIDE DEF record, r
<1> QED BY <1>1, <1>3, <1>4, PostIInv

-----------------------------------------------------------------------------
(* The theorems.                                                           *)

LEMMA NextIInv == IInv /\ [Next]_vars => IInv'
<1> SUFFICES ASSUME IInv, [Next]_vars PROVE IInv'
  OBVIOUS
<1>1. CASE Chain
  BY <1>1, StartHandIInv, GoesOnIInv, SettleHandIInv, AbandonHandIInv DEF Chain
<1>2. CASE See
  BY <1>2, NothingWrittenIInv DEF See, Sees
<1>3. ASSUME NEW n \in Hands, FetchInVain(n) \/ Fetch(n) \/ Report(n) PROVE IInv'
  BY <1>3, NothingWrittenIInv, FetchIInv, ReportIInv DEF FetchInVain
<1>4. CASE OtherReport
  BY <1>4, OtherReportIInv
<1>5. CASE UNCHANGED vars
  BY <1>5, NothingWrittenIInv DEF vars, pageVars
<1> QED BY <1>1, <1>2, <1>3, <1>4, <1>5 DEF Next

(* The inductive invariant the next two follow from. *)
THEOREM RecordInvariant == Spec => []IInv
BY InitIInv, NextIInv, PTL DEF Spec

(* A record that is kept is of its own hand: its seed, the salts of that   *)
(* draw and the digest of what that hand paid, whatever mixture of old and *)
(* new accounts the page made it of (use-hand-capture.ts:347-351).         *)
THEOREM RecordsCorrect == Spec => []RecordsAreOfTheirHand
<1>1. IInv => RecordsAreOfTheirHand
  BY DEF IInv
<1> QED BY <1>1, RecordInvariant, PTL

(* The server says of nobody that it was paid what it was not, whatever    *)
(* is reported, by whom and in which order (api/hands/route.ts).           *)
THEOREM PayoutsCorrect == Spec => []PayoutsAreTrue
<1>1. IInv => PayoutsAreTrue
  BY DEF IInv
<1> QED BY <1>1, RecordInvariant, PTL

-----------------------------------------------------------------------------
(***************************************************************************)
(* What was put in (rake.ts). The server takes the sum of a reported       *)
(* breakdown for the pot if the rake, read backwards from what was paid,   *)
(* ends there; so a fixed point it finds, or stops short of after eight    *)
(* rounds, must be near the pot that was raked.                            *)
(***************************************************************************)

(* Eight rounds are enough: a chip of rake takes q of the pot at least, so *)
(* every round is q times nearer, and the first is within q to the eighth. *)
(* At the program's 250 basis points q is 40, in run record 2.             *)
Converges(q) ==
    /\ q \in Nat /\ q >= 2 /\ q * RakeBps <= 10000
    /\ BigBlind * RakeCapBB <= q * q * q * q * q * q * q * q

Free == BigBlind * RakeFreeBB
Cap == BigBlind * RakeCapBB
Part(x) == (x * RakeBps) \div 10000

LEMMA Amounts == Free \in Nat /\ Cap \in Nat /\ RakeBps \in Nat /\ BigBlind # 0
<1>1. BigBlind \in Nat /\ RakeCapBB \in Nat /\ RakeFreeBB \in Nat /\ RakeBps \in Nat /\ BigBlind # 0
  BY RecordAssumption
<1> QED BY <1>1 DEF Free, Cap

(* The percentage of an amount, and how much more it is of a larger one.   *)
LEMMA PartIs ==
    ASSUME NEW q, Converges(q), NEW x \in Nat
    PROVE  Part(x) \in Nat /\ Part(x) <= x
<1>1. RakeBps \in Nat /\ q \in Nat /\ q >= 2 /\ q * RakeBps <= 10000
  BY Amounts DEF Converges
<1>2. RakeBps <= 10000
  BY <1>1
<1>3. x * RakeBps \in Nat
  BY <1>1
<1>4. x * RakeBps <= x * 10000
  BY <1>1, <1>2
<1> DEFINE a == x * RakeBps
<1>5. a \in Nat /\ a <= x * 10000
  BY <1>3, <1>4
<1> HIDE DEF a
<1>6. a \div 10000 \in Nat /\ a \div 10000 <= x
  BY <1>5
<1> QED BY <1>6 DEF Part, a

LEMMA PartGrows ==
    ASSUME NEW q, Converges(q), NEW x \in Nat, NEW y \in Nat, y <= x
    PROVE  Part(y) <= Part(x) /\ q * (Part(x) - Part(y) - 1) <= x - y - 1
<1>1. RakeBps \in Nat /\ q \in Nat /\ q >= 2 /\ q * RakeBps <= 10000
  BY Amounts DEF Converges
<1>2. PICK a \in Nat : a = x * RakeBps
  BY <1>1
<1>3. PICK b \in Nat : b = y * RakeBps
  BY <1>1
<1>4. PICK d \in Nat : d = x - y
  OBVIOUS
<1>5. a - b = d * RakeBps /\ d * RakeBps \in Nat
  BY <1>1, <1>2, <1>3, <1>4
<1>6. b <= a
  BY <1>5
<1>7. /\ a \div 10000 \in Nat /\ 10000 * (a \div 10000) <= a /\ a <= 10000 * (a \div 10000) + 9999
      /\ b \div 10000 \in Nat /\ 10000 * (b \div 10000) <= b /\ b <= 10000 * (b \div 10000) + 9999
  OBVIOUS
<1>8. Part(x) = a \div 10000 /\ Part(y) = b \div 10000
  BY <1>2, <1>3 DEF Part
<1>9. PICK e \in Int : e = Part(x) - Part(y)
  BY <1>7, <1>8
<1>10. 10000 * e <= d * RakeBps + 9999 /\ Part(y) <= Part(x)
  BY <1>5, <1>6, <1>7, <1>8, <1>9
<1>11. 10000 * (e - 1) + 1 <= d * RakeBps
  BY <1>5, <1>9, <1>10
<1>12. q * (10000 * (e - 1) + 1) <= q * (d * RakeBps)
  BY <1>1, <1>5, <1>11
<1>13. q * (d * RakeBps) = d * (q * RakeBps)
  BY <1>1
<1>14. d * (q * RakeBps) <= d * 10000
  <2>1. PICK k \in Nat : k = q * RakeBps
    BY <1>1
  <2> QED BY <1>1, <2>1
<1>15. q * (10000 * (e - 1) + 1) = 10000 * (q * (e - 1)) + q
  BY <1>1
<1>16. PICK f \in Int : f = q * (e - 1)
  BY <1>1
<1>17. 10000 * f + q <= d * 10000
  BY <1>1, <1>5, <1>12, <1>13, <1>14, <1>15, <1>16
<1>18. f <= d - 1
  BY <1>1, <1>17
<1> QED BY <1>4, <1>9, <1>10, <1>16, <1>18

(* What is taken of an amount that is not free, and how it grows.          *)
LEMMA RakeIs ==
    ASSUME NEW x \in Nat, NEW flop \in BOOLEAN
    PROVE  /\ RakeFor(x, BigBlind, flop) \in Nat /\ RakeFor(x, BigBlind, flop) <= x
           /\ RakeFor(x, BigBlind, flop) <= Cap
           /\ x <= Free => RakeFor(x, BigBlind, flop) = 0
           /\ ~flop => RakeFor(x, BigBlind, flop) = 0
           /\ flop /\ x > Free => RakeFor(x, BigBlind, flop) = Smaller(Smaller(Part(x), Cap), x)
<1>1. Part(x) \in Nat
  <2>1. PICK a \in Nat : a = x * RakeBps
    BY Amounts
  <2>2. a \div 10000 \in Nat
    OBVIOUS
  <2> QED BY <2>1, <2>2 DEF Part
<1>2. RakeFor(x, BigBlind, flop) = IF ~flop \/ BigBlind = 0 \/ x <= Free THEN 0
                         ELSE Smaller(Smaller(Part(x), Cap), x)
  BY DEF RakeFor, Part, Cap, Free
<1>3. /\ Smaller(Smaller(Part(x), Cap), x) \in Nat /\ Smaller(Smaller(Part(x), Cap), x) <= x
      /\ Smaller(Smaller(Part(x), Cap), x) <= Cap
  BY <1>1, Amounts DEF Smaller
<1> QED BY <1>2, <1>3, Amounts

LEMMA RakeGrows ==
    ASSUME NEW q, Converges(q), NEW x \in Nat, NEW y \in Nat, y <= x, Free < y,
           NEW flop \in BOOLEAN
    PROVE  /\ RakeFor(y, BigBlind, flop) <= RakeFor(x, BigBlind, flop)
           /\ q * (RakeFor(x, BigBlind, flop) - RakeFor(y, BigBlind, flop) - 1) <= x - y - 1
<1>1. q \in Nat /\ q >= 2
  BY DEF Converges
<1>2. CASE ~flop
  <2>1. RakeFor(x, BigBlind, flop) = 0 /\ RakeFor(y, BigBlind, flop) = 0
    BY <1>2, RakeIs
  <2>2. q * (0 - 0 - 1) <= x - y - 1
    BY <1>1
  <2> QED BY <2>1, <2>2
<1>3. CASE flop
  <2>1. /\ RakeFor(x, BigBlind, flop) = Smaller(Part(x), Cap)
        /\ RakeFor(y, BigBlind, flop) = Smaller(Part(y), Cap)
        /\ RakeFor(x, BigBlind, flop) \in Nat /\ RakeFor(y, BigBlind, flop) \in Nat
    <3>1. x > Free
      BY Amounts
    <3>2. \A z \in Nat : Part(z) \in Nat /\ Part(z) <= z
      BY PartIs
    <3>3. \A z \in Nat : Smaller(Smaller(Part(z), Cap), z) = Smaller(Part(z), Cap)
      BY <3>2, Amounts DEF Smaller
    <3>4. RakeFor(x, BigBlind, flop) = Smaller(Part(x), Cap) /\ RakeFor(x, BigBlind, flop) \in Nat
      BY <1>3, <3>1, <3>3, RakeIs
    <3>5. RakeFor(y, BigBlind, flop) = Smaller(Part(y), Cap) /\ RakeFor(y, BigBlind, flop) \in Nat
      BY <1>3, <3>3, RakeIs
    <3> QED BY <3>4, <3>5
  <2>2. /\ Part(x) \in Nat /\ Part(y) \in Nat /\ Part(y) <= Part(x)
        /\ q * (Part(x) - Part(y) - 1) <= x - y - 1
    BY PartIs, PartGrows
  <2>3. PICK e \in Int : e = Part(x) - Part(y) - 1
    BY <2>2
  <2>4. PICK f \in Int : f = RakeFor(x, BigBlind, flop) - RakeFor(y, BigBlind, flop) - 1
    BY <2>1
  <2>5. f <= e /\ RakeFor(y, BigBlind, flop) <= RakeFor(x, BigBlind, flop)
    BY <2>1, <2>2, <2>3, <2>4, Amounts DEF Smaller
  <2>6. q * f <= q * e
    BY <1>1, <2>5
  <2> QED BY <1>1, <2>2, <2>3, <2>4, <2>5, <2>6
<1> QED BY <1>2, <1>3

-----------------------------------------------------------------------------
(* The rake read backwards.                                                *)

(* The rounds are a function of their number, and each is the next rake.   *)
LEMMA RoundsAre ==
    ASSUME NEW net, NEW blind, NEW flop
    PROVE  \E r : /\ r[0] = 0 /\ \A i \in 1 .. 8 : r[i] = RakeFor(net + r[i - 1], blind, flop)
                  /\ \A observed : PotBehind(net, blind, flop, observed) =
                         IF observed >= net /\ observed - RakeFor(observed, blind, flop) = net
                         THEN observed ELSE net + r[8]
<1> DEFINE body(r) == [i \in 0 .. 8 |-> IF i = 0 THEN 0 ELSE RakeFor(net + r[i - 1], blind, flop)]
           r1 == RakeFor(net + 0, blind, flop)
           r2 == RakeFor(net + r1, blind, flop)
           r3 == RakeFor(net + r2, blind, flop)
           r4 == RakeFor(net + r3, blind, flop)
           r5 == RakeFor(net + r4, blind, flop)
           r6 == RakeFor(net + r5, blind, flop)
           r7 == RakeFor(net + r6, blind, flop)
           r8 == RakeFor(net + r7, blind, flop)
           w == [i \in 0 .. 8 |-> IF i = 0 THEN 0 ELSE IF i = 1 THEN r1 ELSE IF i = 2 THEN r2
                    ELSE IF i = 3 THEN r3 ELSE IF i = 4 THEN r4 ELSE IF i = 5 THEN r5
                    ELSE IF i = 6 THEN r6 ELSE IF i = 7 THEN r7 ELSE r8]
<1>1. w = body(w)
  <2>1. /\ w[0] = 0 /\ w[1] = r1 /\ w[2] = r2 /\ w[3] = r3 /\ w[4] = r4 /\ w[5] = r5
        /\ w[6] = r6 /\ w[7] = r7 /\ w[8] = r8 /\ DOMAIN w = 0 .. 8
    OBVIOUS
  <2> HIDE DEF w
  <2>2. \A i \in 0 .. 8 : w[i] = IF i = 0 THEN 0 ELSE RakeFor(net + w[i - 1], blind, flop)
    <3> SUFFICES ASSUME NEW i \in 0 .. 8
                 PROVE  w[i] = IF i = 0 THEN 0 ELSE RakeFor(net + w[i - 1], blind, flop)
      OBVIOUS
    <3>1. i \in {0, 1, 2, 3, 4, 5, 6, 7, 8}
      OBVIOUS
    <3>2. CASE i = 0  BY <2>1, <3>2
    <3>3. CASE i = 1  BY <2>1, <3>3
    <3>4. CASE i = 2  BY <2>1, <3>4
    <3>5. CASE i = 3  BY <2>1, <3>5
    <3>6. CASE i = 4  BY <2>1, <3>6
    <3>7. CASE i = 5  BY <2>1, <3>7
    <3>8. CASE i = 6  BY <2>1, <3>8
    <3>9. CASE i = 7  BY <2>1, <3>9
    <3>10. CASE i = 8  BY <2>1, <3>10
    <3> QED BY <3>1, <3>2, <3>3, <3>4, <3>5, <3>6, <3>7, <3>8, <3>9, <3>10
  <2>3. w = [i \in 0 .. 8 |-> w[i]]
    BY DEF w
  <2> QED BY <2>2, <2>3
<1> HIDE DEF w
<1> DEFINE rake == CHOOSE r : r = body(r)
<1>2. rake = body(rake)
  <2>1. \E r : r = body(r)
    BY <1>1
  <2> HIDE DEF body
  <2> QED BY <2>1
<1>3. \A observed : PotBehind(net, blind, flop, observed) =
                         IF observed >= net /\ observed - RakeFor(observed, blind, flop) = net
                         THEN observed ELSE net + rake[8]
  BY DEF PotBehind
<1> HIDE DEF rake
<1>4. rake[0] = 0
  BY <1>2
<1>5. \A i \in 1 .. 8 : rake[i] = RakeFor(net + rake[i - 1], blind, flop)
  BY <1>2
<1> QED BY <1>3, <1>4, <1>5

(* A round closes in on the rake from below: what it lacks shrinks by q.   *)
LEMMA RoundClosesIn ==
    ASSUME NEW q, Converges(q), NEW net \in Nat, net > Free, NEW flop \in BOOLEAN,
           NEW goal \in Nat, RakeFor(net + goal, BigBlind, flop) = goal,
           NEW rake \in Nat, rake <= goal, NEW next, next = RakeFor(net + rake, BigBlind, flop),
           NEW gap \in Nat, goal - rake <= gap * q
    PROVE  next \in Nat /\ next <= goal /\ (goal - next <= gap \/ goal - next <= 1)
<1>1. net + goal \in Nat /\ net + rake \in Nat /\ net + rake <= net + goal /\ Free < net + rake
  BY Amounts
<1>2. next \in Nat
  BY <1>1, RakeIs
<1>3. next <= goal /\ q * (goal - next - 1) <= (net + goal) - (net + rake) - 1
  BY <1>1, RakeGrows
<1>4. PICK e \in Int : e = goal - next - 1
  BY <1>2
<1>5. q \in Nat /\ q >= 2 /\ gap * q \in Int
  BY DEF Converges
<1>6. q * e <= gap * q - 1
  BY <1>3, <1>4, <1>5
<1>7. e < gap
  <2> SUFFICES ASSUME gap <= e PROVE FALSE
    BY <1>4
  <2>1. q * gap <= q * e
    BY <1>4, <1>5
  <2> QED BY <1>4, <1>5, <1>6, <2>1
<1> QED BY <1>2, <1>3, <1>4, <1>7

(* After eight rounds it lacks a chip at most. *)
LEMMA EightRoundsAreEnough ==
    ASSUME NEW q, Converges(q), NEW net \in Nat, net > Free, NEW flop \in BOOLEAN,
           NEW goal \in Nat, RakeFor(net + goal, BigBlind, flop) = goal, NEW r, r[0] = 0,
           \A i \in 1 .. 8 : r[i] = RakeFor(net + r[i - 1], BigBlind, flop)
    PROVE  r[8] \in Nat /\ r[8] <= goal /\ goal - r[8] <= 1
<1>1. q \in Nat /\ q >= 2 /\ Cap <= q * q * q * q * q * q * q * q
  BY DEF Converges, Cap
<1>2. goal <= Cap
  BY RakeIs
<1> DEFINE g2 == q * q
           g3 == g2 * q
           g4 == g3 * q
           g5 == g4 * q
           g6 == g5 * q
           g7 == g6 * q
           g8 == g7 * q
<1>3. /\ g2 \in Nat /\ g3 \in Nat /\ g4 \in Nat /\ g5 \in Nat /\ g6 \in Nat
      /\ g7 \in Nat /\ g8 \in Nat
  BY <1>1
<1>4. goal <= g8
  BY <1>1, <1>2, <1>3, Amounts
<1> DEFINE Near(i, gap) == r[i] \in Nat /\ r[i] <= goal /\ goal - r[i] <= gap
<1>5. ASSUME NEW i \in 0 .. 7, NEW gap \in Nat, gap >= 1, Near(i, gap * q) PROVE Near(i + 1, gap)
  <2>1. r[i + 1] = RakeFor(net + r[i], BigBlind, flop)
    <3>1. i + 1 \in 1 .. 8 /\ (i + 1) - 1 = i
      OBVIOUS
    <3> QED BY <3>1
  <2>2. /\ r[i + 1] \in Nat /\ r[i + 1] <= goal
        /\ goal - r[i + 1] <= gap \/ goal - r[i + 1] <= 1
    <3>1. r[i] \in Nat /\ r[i] <= goal /\ goal - r[i] <= gap * q
      BY <1>5
    <3> DEFINE before == r[i]
               next == r[i + 1]
    <3>2. /\ before \in Nat /\ before <= goal /\ goal - before <= gap * q
          /\ next = RakeFor(net + before, BigBlind, flop)
      BY <2>1, <3>1
    <3> HIDE DEF before, next, Near
    <3>3. next \in Nat /\ next <= goal /\ (goal - next <= gap \/ goal - next <= 1)
      BY <3>2, RoundClosesIn
    <3> QED BY <3>3 DEF next
  <2> QED BY <1>5, <2>2
<1>6. Near(0, g8)
  BY <1>4
<1>7. /\ g2 >= 1 /\ g3 >= 1 /\ g4 >= 1 /\ g5 >= 1 /\ g6 >= 1 /\ g7 >= 1
  <2>1. \A g \in Nat : g >= 1 => g * q >= 1
    BY <1>1
  <2> QED BY <1>1, <1>3, <2>1
<1> HIDE DEF Near
<1>8. \A i \in 0 .. 7 : \A gap \in Nat : gap >= 1 /\ Near(i, gap * q) => Near(i + 1, gap)
  BY <1>5
<1>9. Near(1, g7)   BY <1>3, <1>6, <1>7, <1>8
<1>10. Near(2, g6)  BY <1>3, <1>7, <1>8, <1>9
<1>11. Near(3, g5)  BY <1>3, <1>7, <1>8, <1>10
<1>12. Near(4, g4)  BY <1>3, <1>7, <1>8, <1>11
<1>13. Near(5, g3)  BY <1>3, <1>7, <1>8, <1>12
<1>14. Near(6, g2)  BY <1>3, <1>7, <1>8, <1>13
<1>15. Near(7, q)   BY <1>1, <1>3, <1>7, <1>8, <1>14
<1>16. Near(7, 1 * q)
  BY <1>1, <1>15
<1>17. Near(8, 1)   BY <1>8, <1>16
<1> QED BY <1>17 DEF Near

(* Two amounts the server cannot tell apart: they differ by a chip, or the *)
(* smaller is free and the larger raked down to it.                        *)
Agree(sum, pot, sawFlop) ==
    LET larger == Larger(sum, pot)
        smaller == Smaller(sum, pot)
    IN  \/ larger - smaller <= 1
        \/ smaller <= BigBlind * RakeFreeBB /\ larger - smaller = RakeFor(larger, BigBlind, sawFlop)

(* Amounts that net the same are such. *)
LEMMA SameNetAgree ==
    ASSUME NEW q, Converges(q), NEW flop \in BOOLEAN, NEW x \in Nat, NEW y \in Nat, y <= x,
           x - RakeFor(x, BigBlind, flop) = y - RakeFor(y, BigBlind, flop)
    PROVE  Agree(x, y, flop) /\ Agree(y, x, flop)
<1> DEFINE rx == RakeFor(x, BigBlind, flop)
           ry == RakeFor(y, BigBlind, flop)
<1>1. rx \in Nat /\ ry \in Nat /\ (y <= Free => ry = 0)
  BY RakeIs
<1>2. x - rx = y - ry
  OBVIOUS
<1>3. y > Free => q * (rx - ry - 1) <= x - y - 1
  BY RakeGrows, Amounts
<1>4. Larger(x, y) = x /\ Larger(y, x) = x /\ Smaller(x, y) = y /\ Smaller(y, x) = y
  BY DEF Larger, Smaller
<1>5. q \in Nat /\ q >= 2
  BY DEF Converges
<1>6. x - y <= 1 \/ (y <= Free /\ x - y = rx)
  <2> HIDE DEF rx, ry
  <2>1. CASE y <= Free
    BY <1>1, <1>2, <2>1
  <2>2. CASE y > Free
    <3>1. PICK d \in Nat : d = x - y
      OBVIOUS
    <3>2. q * (d - 1) <= d - 1
      BY <1>1, <1>2, <1>3, <2>2, <3>1
    <3>3. d <= 1
      <4> SUFFICES ASSUME d >= 2 PROVE FALSE
        BY <3>1
      <4>1. 2 * (d - 1) <= q * (d - 1)
        BY <1>5
      <4>2. q * (d - 1) \in Int
        BY <1>5
      <4> QED BY <3>2, <4>1, <4>2
    <3> QED BY <3>1, <3>3
  <2> QED BY <2>1, <2>2, Amounts
<1> QED BY <1>4, <1>6 DEF Agree, Free

(* A sum the server takes for the pot agrees with the pot that was raked.  *)
LEMMA BelievedAgrees ==
    ASSUME NEW q, Converges(q), NEW flop \in BOOLEAN, NEW pot \in Nat, NEW claimed \in Nat,
           NEW net, net = pot - RakeFor(pot, BigBlind, flop),
           PotBehind(net, BigBlind, flop, claimed) = claimed
    PROVE  Agree(claimed, pot, flop)
<1>1. RakeFor(pot, BigBlind, flop) \in Nat /\ RakeFor(pot, BigBlind, flop) <= pot /\ net \in Nat
  BY RakeIs
<1>2. PICK r : /\ r[0] = 0 /\ \A i \in 1 .. 8 : r[i] = RakeFor(net + r[i - 1], BigBlind, flop)
               /\ \A observed : PotBehind(net, BigBlind, flop, observed) =
                      IF observed >= net /\ observed - RakeFor(observed, BigBlind, flop) = net
                      THEN observed ELSE net + r[8]
  BY RoundsAre
<1>3. CASE claimed - RakeFor(claimed, BigBlind, flop) = net
  <2>1. claimed - RakeFor(claimed, BigBlind, flop) = pot - RakeFor(pot, BigBlind, flop)
    BY <1>3
  <2>2. pot <= claimed \/ claimed <= pot
    OBVIOUS
  <2> QED BY <2>1, <2>2, SameNetAgree
<1>4. CASE claimed - RakeFor(claimed, BigBlind, flop) # net
  <2>1. claimed = net + r[8]
    BY <1>2, <1>4
  <2>2. CASE net > Free
    <3> DEFINE goal == RakeFor(pot, BigBlind, flop)
    <3>1. goal \in Nat /\ net + goal = pot
      BY <1>1
    <3>2. RakeFor(net + goal, BigBlind, flop) = goal
      BY <3>1
    <3>3. r[8] \in Nat /\ r[8] <= goal /\ goal - r[8] <= 1
      <4> HIDE DEF goal
      <4> QED BY <1>1, <1>2, <2>2, <3>1, <3>2, EightRoundsAreEnough
    <3>4. claimed <= pot /\ pot - claimed <= 1
      <4> HIDE DEF goal
      <4> QED BY <1>1, <2>1, <3>1, <3>3
    <3> QED BY <3>4 DEF Agree, Larger, Smaller
  <2>3. CASE net <= Free
    <3>1. RakeFor(net, BigBlind, flop) = 0
      BY <1>1, <2>3, RakeIs
    <3>2. \A i \in 0 .. 7 : r[i] = 0 => r[i + 1] = 0
      <4> SUFFICES ASSUME NEW i \in 0 .. 7, r[i] = 0 PROVE r[i + 1] = 0
        OBVIOUS
      <4>1. i + 1 \in 1 .. 8 /\ (i + 1) - 1 = i /\ net + 0 = net
        BY <1>1
      <4>2. r[i + 1] = RakeFor(net + r[i], BigBlind, flop)
        BY <1>2, <4>1
      <4> QED BY <3>1, <4>1, <4>2
    <3>3. r[8] = 0
      BY <1>2, <3>2
    <3>4. claimed = net
      BY <1>1, <2>1, <3>3
    <3> QED BY <1>1, <1>4, <3>1, <3>4
  <2> QED BY <1>1, <2>2, <2>3, Amounts
<1> QED BY <1>3, <1>4

-----------------------------------------------------------------------------
(* A report that names another big blind (api/hands/route.ts:49-51): it    *)
(* only moves the free amount and the cap, so that what it is taken for is *)
(* off by no more than the percentage.                                     *)

Within(sum, pot) == Larger(sum, pot) - Smaller(sum, pot) <= Part(Larger(sum, pot))

LEMMA AnyRakeIs ==
    ASSUME NEW q, Converges(q), NEW blind \in Nat \ {0}, NEW x \in Nat, NEW flop \in BOOLEAN
    PROVE  RakeFor(x, blind, flop) \in Nat /\ RakeFor(x, blind, flop) <= Part(x)
<1>1. PICK free \in Nat : free = blind * RakeFreeBB
  BY RecordAssumption
<1>2. PICK cap \in Nat : cap = blind * RakeCapBB
  BY RecordAssumption
<1>3. Part(x) \in Nat
  BY PartIs
<1>4. RakeFor(x, blind, flop) = IF ~flop \/ blind = 0 \/ x <= free THEN 0
                                ELSE Smaller(Smaller(Part(x), cap), x)
  BY <1>1, <1>2 DEF RakeFor, Part
<1> QED BY <1>2, <1>3, <1>4 DEF Smaller

LEMMA AnyRakeGrows ==
    ASSUME NEW q, Converges(q), NEW blind \in Nat \ {0}, NEW x \in Nat, NEW y \in Nat, y <= x,
           NEW flop \in BOOLEAN
    PROVE  RakeFor(y, blind, flop) <= RakeFor(x, blind, flop)
<1>1. PICK free \in Nat : free = blind * RakeFreeBB
  BY RecordAssumption
<1>2. PICK cap \in Nat : cap = blind * RakeCapBB
  BY RecordAssumption
<1>3. Part(x) \in Nat /\ Part(y) \in Nat /\ Part(y) <= Part(x)
  BY PartIs, PartGrows
<1>4. /\ RakeFor(x, blind, flop) = IF ~flop \/ blind = 0 \/ x <= free THEN 0
                                   ELSE Smaller(Smaller(Part(x), cap), x)
      /\ RakeFor(y, blind, flop) = IF ~flop \/ blind = 0 \/ y <= free THEN 0
                                   ELSE Smaller(Smaller(Part(y), cap), y)
  BY <1>1, <1>2 DEF RakeFor, Part
<1> QED BY <1>1, <1>2, <1>3, <1>4 DEF Smaller

(* The rounds only grow. *)
LEMMA RoundsGrow ==
    ASSUME NEW q, Converges(q), NEW blind \in Nat \ {0}, NEW net \in Nat, NEW flop \in BOOLEAN,
           NEW r, r[0] = 0, \A i \in 1 .. 8 : r[i] = RakeFor(net + r[i - 1], blind, flop)
    PROVE  r[7] \in Nat /\ r[8] \in Nat /\ r[7] <= r[8]
<1> DEFINE Grows(i) == r[i] \in Nat /\ r[i + 1] \in Nat /\ r[i] <= r[i + 1]
<1>1. ASSUME NEW i \in 0 .. 7, NEW a \in Nat, a = r[i]
      PROVE  r[i + 1] \in Nat /\ r[i + 1] = RakeFor(net + a, blind, flop)
  <2>1. i + 1 \in 1 .. 8 /\ (i + 1) - 1 = i
    OBVIOUS
  <2>2. r[i + 1] = RakeFor(net + a, blind, flop)
    BY <1>1, <2>1
  <2>3. RakeFor(net + a, blind, flop) \in Nat
    <3>1. PICK b \in Nat : b = net + a
      BY <1>1
    <3> QED BY <3>1, AnyRakeIs
  <2> QED BY <2>2, <2>3
<1>2. Grows(0)
  <2>1. r[0] \in Nat /\ r[0 + 1] \in Nat
    BY <1>1
  <2> QED BY <2>1
<1>3. ASSUME NEW i \in 0 .. 6, Grows(i) PROVE Grows(i + 1)
  <2>1. PICK a \in Nat : a = r[i]
    BY <1>3
  <2>2. PICK b \in Nat : b = r[i + 1]
    BY <1>3
  <2>3. a <= b /\ i + 1 \in 0 .. 7
    BY <1>3, <2>1, <2>2
  <2>4. b = RakeFor(net + a, blind, flop)
    BY <1>1, <2>1, <2>2
  <2>5. r[(i + 1) + 1] \in Nat /\ r[(i + 1) + 1] = RakeFor(net + b, blind, flop)
    BY <1>1, <2>2, <2>3
  <2>6. RakeFor(net + a, blind, flop) <= RakeFor(net + b, blind, flop)
    BY <2>3, AnyRakeGrows
  <2> QED BY <2>2, <2>4, <2>5, <2>6
<1> HIDE DEF Grows
<1>4. \A i \in 0 .. 6 : Grows(i) => Grows(i + 1)
  BY <1>3
<1>5. Grows(1)  BY <1>2, <1>4
<1>6. Grows(2)  BY <1>4, <1>5
<1>7. Grows(3)  BY <1>4, <1>6
<1>8. Grows(4)  BY <1>4, <1>7
<1>9. Grows(5)  BY <1>4, <1>8
<1>10. Grows(6) BY <1>4, <1>9
<1>11. Grows(7) BY <1>4, <1>10
<1> QED BY <1>11 DEF Grows

(* Whatever blind it is read at, what nets an amount is within the         *)
(* percentage of it.                                                       *)
LEMMA BelievedIsWithin ==
    ASSUME NEW q, Converges(q), NEW blind \in Nat \ {0}, NEW flop \in BOOLEAN,
           NEW pot \in Nat, NEW claimed \in Nat,
           NEW net, net = pot - RakeFor(pot, BigBlind, flop),
           PotBehind(net, blind, flop, claimed) = claimed
    PROVE  Within(claimed, pot)
<1>1. /\ RakeFor(pot, BigBlind, flop) \in Nat /\ RakeFor(pot, BigBlind, flop) <= pot
      /\ net \in Nat /\ net <= pot /\ pot - net <= Part(pot)
  <2>1. BigBlind \in Nat \ {0}
    BY RecordAssumption
  <2> QED BY <2>1, RakeIs, AnyRakeIs
<1>2. PICK r : /\ r[0] = 0 /\ \A i \in 1 .. 8 : r[i] = RakeFor(net + r[i - 1], blind, flop)
               /\ \A observed : PotBehind(net, blind, flop, observed) =
                      IF observed >= net /\ observed - RakeFor(observed, blind, flop) = net
                      THEN observed ELSE net + r[8]
  BY RoundsAre
<1>3. net <= claimed /\ claimed - net <= Part(claimed)
  <2>1. CASE claimed - RakeFor(claimed, blind, flop) = net
    <3>1. RakeFor(claimed, blind, flop) \in Nat /\ RakeFor(claimed, blind, flop) <= Part(claimed)
      BY AnyRakeIs
    <3> QED BY <1>1, <2>1, <3>1
  <2>2. CASE claimed - RakeFor(claimed, blind, flop) # net
    <3>1. claimed = net + r[8]
      BY <1>2, <2>2
    <3>2. r[7] \in Nat /\ r[8] \in Nat /\ r[7] <= r[8]
      BY <1>1, <1>2, RoundsGrow
    <3>3. PICK a \in Nat : a = r[7]
      BY <3>2
    <3>4. r[8] = RakeFor(net + a, blind, flop)
      <4>1. 8 \in 1 .. 8 /\ 8 - 1 = 7
        OBVIOUS
      <4> QED BY <1>2, <3>3, <4>1
    <3>5. RakeFor(net + a, blind, flop) <= Part(net + a)
      BY <1>1, AnyRakeIs
    <3>6. net + a \in Nat /\ net + a <= claimed
      BY <1>1, <3>1, <3>2, <3>3
    <3>7. Part(net + a) <= Part(claimed) /\ Part(net + a) \in Nat /\ Part(claimed) \in Nat
      BY <3>6, PartGrows, PartIs
    <3> QED BY <1>1, <3>1, <3>2, <3>4, <3>5, <3>7
  <2> QED BY <2>1, <2>2
<1>4. Part(pot) \in Nat /\ Part(claimed) \in Nat
  BY PartIs
<1> QED BY <1>1, <1>3, <1>4 DEF Within, Larger, Smaller

-----------------------------------------------------------------------------
(* What the rows add up to: the second inductive invariant, on top of the  *)
(* first.                                                                  *)

(* What is on the accounts, and on the page's copies of them, is counted.  *)
SeatsCount ==
    /\ DOMAIN seats = Seats
    /\ \A s \in Seats :
           /\ seats[s] = [salt |-> seats[s].salt, stack |-> seats[s].stack,
                          total |-> seats[s].total]
           /\ seats[s].total \in Nat /\ seats[s].stack \in Int

ViewCounts(v) ==
    /\ v = [hand |-> v.hand, live |-> v.live, seats |-> v.seats]
    /\ DOMAIN v.seats = Seats
    /\ \A s \in Seats : v.seats[s].total \in Nat

BuffersCount ==
    /\ DOMAIN buffer = Hands
    /\ \A n \in Hands : buffer[n].contributed \in [Seats -> Nat]

(* A settled hand paid what was put in but for its rake.                   *)
AddsUp(t) ==
    /\ t.sawFlop \in BOOLEAN /\ t.put \in [Seats -> Nat]
    /\ SumFunction(t.payouts)
       = SumFunction(t.put) - RakeFor(SumFunction(t.put), BigBlind, t.sawFlop)

TruthAddsUp == \A n \in Hands : \A t \in truth[n] : AddsUp(t)

(* Who knows a hand's digest knows whether it was raked. *)
Knows(n, digest, sawFlop) ==
    \E t \in truth[n] : digest = Digest(n, t.payouts) /\ sawFlop = t.sawFlop

FlopIsKnown ==
    /\ hand.sawFlop \in BOOLEAN
    /\ ~hand.dealt /\ hand.digest # NoDigest => Knows(hand.number, hand.digest, hand.sawFlop)
    /\ \A n \in Hands : \A record \in saved[n] : Knows(n, record.digest, record.sawFlop)

(* The contributions of a hand are those of one report that was believed.  *)
RowAgrees(n) ==
    \E t \in truth[n] :
        LET sum == SumFunction([s \in Seats |-> rows[n][s].contributed])
            pot == SumFunction(t.put)
        IN  Agree(sum, pot, t.sawFlop) \/ (n \in misled /\ Within(sum, pot))

RowsAgree ==
    \A n \in Hands : \/ \A s \in Seats : rows[n][s].contributed = Null
                     \/ (\A s \in Seats : rows[n][s].contributed \in Nat) /\ RowAgrees(n)

BooksInv ==
    /\ SeatsCount /\ ViewCounts(view) /\ BuffersCount /\ TruthAddsUp /\ FlopIsKnown /\ RowsAgree

-----------------------------------------------------------------------------
(* A pot that is split is paid out whole. *)
LEMMA SumButOne ==
    ASSUME NEW f, NEW w \in Seats, NEW c \in Int, NEW part \in Int,
           f[w] = c - (Cardinality(Seats) - 1) * part, \A s \in Seats \ {w} : f[s] = part
    PROVE  SumFunctionOnSet(f, Seats) = c
<1>1. IsFiniteSet(Seats) /\ Cardinality(Seats) \in Nat
  BY RecordAssumption, FS_CardinalityType
<1>2. PICK n \in Int : n = Cardinality(Seats) - 1
  BY <1>1
<1>3. IsFiniteSet(Seats \ {w}) /\ Cardinality(Seats \ {w}) = n
  BY <1>1, <1>2, OneFewer
<1>4. SumFunctionOnSet(f, Seats \ {w}) = n * part
  BY <1>3, SumConstant
<1>5. PICK k \in Int : k = n * part
  OBVIOUS
<1>6. f[w] = c - k
  BY <1>2, <1>5
<1>7. \A s \in Seats : f[s] \in Int
  BY <1>6
<1>8. SumFunctionOnSet(f, Seats) = f[w] + SumFunctionOnSet(f, Seats \ {w})
  BY <1>1, <1>7, SumTakeOut
<1> QED BY <1>4, <1>5, <1>6, <1>8

LEMMA SplitsAddUp ==
    ASSUME NEW amount \in Int, NEW p, p \in Splits(amount)
    PROVE  SumFunction(p) = amount
<1>1. Seats \subseteq Nat /\ Seats # {} /\ Cardinality(Seats) \in Nat \ {0}
  BY RecordAssumption, FS_CardinalityType, FS_EmptySet
<1>2. SumFunction(p) = SumFunctionOnSet(p, DOMAIN p)
  BY DEF SumFunction
<1>3. CASE \E w \in Seats : p = [s \in Seats |-> IF s = w THEN amount ELSE 0]
  <2>1. PICK w \in Seats : p = [s \in Seats |-> IF s = w THEN amount ELSE 0]
    BY <1>3
  <2>2. DOMAIN p = Seats /\ p[w] = amount /\ \A s \in Seats \ {w} : p[s] = 0
    BY <2>1
  <2>3. (Cardinality(Seats) - 1) * 0 = 0
    BY <1>1
  <2>4. p[w] = amount - (Cardinality(Seats) - 1) * 0
    BY <2>2, <2>3
  <2>5. SumFunctionOnSet(p, Seats) = amount
    BY <2>2, <2>4, SumButOne
  <2> QED BY <1>2, <2>2, <2>5
<1>4. CASE p = [s \in Seats |-> IF \A t \in Seats : s <= t
                THEN amount - (Cardinality(Seats) - 1) * (amount \div Cardinality(Seats))
                ELSE amount \div Cardinality(Seats)]
  <2>1. PICK part \in Int : part = amount \div Cardinality(Seats)
    BY <1>1
  <2>2. PICK m \in Seats : \A t \in Seats : m <= t
    BY <1>1, LeastNat
  <2>3. \A s \in Seats : (\A t \in Seats : s <= t) <=> s = m
    BY <1>1, <2>2
  <2>4. /\ DOMAIN p = Seats /\ p[m] = amount - (Cardinality(Seats) - 1) * part
        /\ \A s \in Seats \ {m} : p[s] = part
    BY <1>4, <2>1, <2>3
  <2>5. SumFunctionOnSet(p, Seats) = amount
    BY <2>4, SumButOne
  <2> QED BY <1>2, <2>4, <2>5
<1> QED BY <1>3, <1>4 DEF Splits

LEMMA SplitsAreChips ==
    ASSUME NEW amount \in Int, NEW p \in Splits(amount), NEW s \in Seats
    PROVE  p[s] \in Int
<1>1. PICK c \in Nat \ {0} : c = Cardinality(Seats)
  BY RecordAssumption, FS_CardinalityType
<1>2. PICK part \in Int : part = amount \div c
  BY <1>1
<1>3. PICK most \in Int : most = amount - (c - 1) * part
  BY <1>1, <1>2
<1>4. \/ \E w \in Seats : p = [t \in Seats |-> IF t = w THEN amount ELSE 0]
      \/ p = [t \in Seats |-> IF \A u \in Seats : t <= u THEN most ELSE part]
  BY <1>1, <1>2, <1>3 DEF Splits
<1> QED BY <1>2, <1>3, <1>4

LEMMA SumOfNats ==
    ASSUME NEW f, DOMAIN f = Seats, \A s \in Seats : f[s] \in Nat PROVE SumFunction(f) \in Nat
BY SumNat, RecordAssumption DEF SumFunction

-----------------------------------------------------------------------------
(* The steps of the chain.                                                 *)

LEMMA InitBooks == Init => BooksInv
<1> SUFFICES ASSUME Init PROVE BooksInv
  OBVIOUS
<1> USE DEF Init
<1>1. SeatsCount
  BY RecordAssumption DEF SeatsCount
<1>2. PICK old \in SUBSET Seats :
        LET ante == Smaller(Ante, BuyIn)
        IN  view = [hand |-> HandSeen, live |-> live, seats |-> [s \in Seats |->
                        IF s \in old THEN [salt |-> 1, stack |-> BuyIn - ante, total |-> ante]
                        ELSE seats[s]]]
  OBVIOUS
<1>3. ViewCounts(view)
  <2>1. Smaller(Ante, BuyIn) \in Nat
    BY RecordAssumption DEF Smaller
  <2> QED BY <1>1, <1>2, <2>1 DEF ViewCounts, SeatsCount
<1>4. BuffersCount
  BY DEF BuffersCount, NoBuffer
<1>5. TruthAddsUp /\ FlopIsKnown /\ RowsAgree
  BY DEF TruthAddsUp, FlopIsKnown, RowsAgree, NoRow
<1> QED BY <1>1, <1>3, <1>4, <1>5 DEF BooksInv

(* Settling apart, nothing that was paid or written down changes. *)
LEMMA PlayBooks ==
    ASSUME IInv, BooksInv, UNCHANGED <<pageVars, rows, misled>>,
           \/ RevealSalts \/ StartHand \/ Showdown \/ AbandonHand \/ \E s \in Seats : Bet(s)
    PROVE  BooksInv'
<1>1. UNCHANGED <<view, buffer, saved, rows, misled, truth>>
  BY DEF pageVars, RevealSalts, StartHand, Showdown, AbandonHand, Bet
<1>2. ViewCounts(view)' /\ BuffersCount' /\ TruthAddsUp' /\ RowsAgree'
  <2>1. ViewCounts(view)'
    BY <1>1 DEF BooksInv, ViewCounts
  <2>2. BuffersCount'
    BY <1>1 DEF BooksInv, BuffersCount
  <2>3. TruthAddsUp'
    BY <1>1 DEF BooksInv, TruthAddsUp
  <2>4. RowsAgree'
    BY <1>1 DEF BooksInv, RowsAgree, RowAgrees
  <2> QED BY <2>1, <2>2, <2>3, <2>4
<1>3. SeatsCount'
  <2>1. DOMAIN seats = Seats
        /\ \A s \in Seats :
             /\ seats[s] = [salt |-> seats[s].salt, stack |-> seats[s].stack,
                            total |-> seats[s].total]
             /\ seats[s].total \in Nat /\ seats[s].stack \in Int
    BY DEF BooksInv, SeatsCount
  <2>2. CASE Showdown
    BY <2>1, <2>2 DEF Showdown, SeatsCount
  <2>3. CASE RevealSalts
    BY <2>1, <2>3 DEF RevealSalts, SeatsCount
  <2>4. CASE StartHand
    <3>1. /\ \A s \in Seats : seats[s].stack > 0
          /\ seats' = [s \in Seats |-> LET ante == Smaller(Ante, seats[s].stack)
                                       IN  [seats[s] EXCEPT !.stack = @ - ante, !.total = ante]]
      BY <2>4 DEF StartHand
    <3>2. ASSUME NEW s \in Seats
          PROVE  \E a : \E b \in Int : \E c \in Nat :
                     seats'[s] = [salt |-> a, stack |-> b, total |-> c]
      <4>1. PICK a, b, c : seats[s] = [salt |-> a, stack |-> b, total |-> c]
        BY <2>1
      <4>2. PICK z : z = Smaller(Ante, seats[s].stack)
        OBVIOUS
      <4>3. PICK x : x = seats[s].stack - z
        OBVIOUS
      <4>4. z \in Nat /\ x \in Int
        <5>1. Ante \in Nat /\ seats[s].stack \in Int /\ seats[s].stack > 0
          BY <2>1, <3>1, RecordAssumption
        <5> QED BY <4>2, <4>3, <5>1 DEF Smaller
      <4>5. PICK y : y = [seats[s] EXCEPT !.stack = x]
        OBVIOUS
      <4>6. y = [salt |-> a, stack |-> x, total |-> c]
        BY ONLY <4>1, <4>5
      <4>7. [y EXCEPT !.total = z] = [salt |-> a, stack |-> x, total |-> z]
        BY ONLY <4>6
      <4>8. seats'[s] = [[seats[s] EXCEPT !.stack = seats[s].stack - Smaller(Ante, seats[s].stack)]
                            EXCEPT !.total = Smaller(Ante, seats[s].stack)]
        BY <3>1
      <4>9. seats'[s] = [salt |-> a, stack |-> x, total |-> z]
        BY ONLY <4>2, <4>3, <4>5, <4>7, <4>8, Zenon
      <4> QED BY ONLY <4>4, <4>9
    <3> QED BY <3>1, <3>2 DEF SeatsCount
  <2>5. CASE AbandonHand
    BY <2>1, <2>5 DEF AbandonHand, CloseHand, SeatsCount
  <2>6. ASSUME NEW s \in Seats, Bet(s) PROVE SeatsCount'
    BY <2>1, <2>6 DEF Bet, SeatsCount
  <2> QED BY <2>2, <2>3, <2>4, <2>5, <2>6
<1>4. hand = [number |-> hand.number, seed |-> hand.seed, dealt |-> hand.dealt,
              over |-> hand.over, sawFlop |-> hand.sawFlop, digest |-> hand.digest]
  BY DEF IInv, Shapes
<1>5. hand.sawFlop \in BOOLEAN /\ (live <=> hand.dealt)
  BY DEF IInv, BooksInv, HandIsLive, FlopIsKnown
<1>6. /\ hand'.sawFlop \in BOOLEAN
      /\ \/ hand'.dealt \/ hand'.digest = NoDigest
         \/ hand' = hand
  <2>1. CASE RevealSalts \/ \E s \in Seats : Bet(s)
    BY <1>5, <2>1 DEF RevealSalts, Bet
  <2>2. CASE StartHand
    BY <1>4, <1>5, <2>2 DEF StartHand
  <2>3. CASE Showdown
    <3>1. PICK sawFlop \in BOOLEAN : hand' = [hand EXCEPT !.over = TRUE, !.sawFlop = sawFlop]
      BY <2>3 DEF Showdown
    <3>2. hand'.sawFlop = sawFlop /\ hand'.dealt = hand.dealt
      BY <1>4, <3>1
    <3> QED BY <1>5, <2>3, <3>2 DEF Showdown
  <2>4. CASE AbandonHand
    BY <1>4, <1>5, <2>4 DEF AbandonHand, CloseHand
  <2> QED BY <2>1, <2>2, <2>3, <2>4
<1>7. FlopIsKnown'
  BY <1>1, <1>6 DEF BooksInv, FlopIsKnown, Knows
<1> QED BY <1>2, <1>3, <1>7 DEF BooksInv

(* A settlement pays out what was put in, less the rake. *)
LEMMA SettleBooks ==
    ASSUME IInv, BooksInv, UNCHANGED <<pageVars, rows, misled>>, SettleHand PROVE BooksInv'
<1> DEFINE N == hand.number
           put == [s \in Seats |-> seats[s].total]
           pot == SumFunction(put)
           rake == RakeFor(pot, BigBlind, hand.sawFlop)
<1>1. PICK payouts \in Splits(pot - rake) :
        /\ CloseHand(payouts, Digest(N, payouts), N)
        /\ truth' = [truth EXCEPT ![N] =
                         {[put |-> put, payouts |-> payouts, sawFlop |-> hand.sawFlop]}]
  BY DEF SettleHand
<1>2. hand.sawFlop \in BOOLEAN
  BY DEF BooksInv, FlopIsKnown
<1>3. put \in [Seats -> Nat] /\ pot \in Nat
  <2>1. DOMAIN put = Seats /\ \A s \in Seats : put[s] \in Nat
    BY DEF BooksInv, SeatsCount
  <2>2. put \in [Seats -> Nat]
    BY <2>1
  <2> HIDE DEF put
  <2>3. SumFunction(put) \in Nat
    BY <2>1, SumOfNats
  <2> QED BY <2>2, <2>3
<1>4. rake \in Nat
  <2> HIDE DEF pot
  <2> QED BY <1>2, <1>3, RakeIs
<1>5. SumFunction(payouts) = pot - rake
  <2> HIDE DEF pot, rake
  <2> QED BY <1>1, <1>3, <1>4, SplitsAddUp
<1>6. PICK t : /\ t = [put |-> put, payouts |-> payouts, sawFlop |-> hand.sawFlop]
               /\ truth' = [truth EXCEPT ![N] = {t}]
  BY <1>1
<1>7. t.put = put /\ t.payouts = payouts /\ t.sawFlop = hand.sawFlop
  BY <1>6
<1>8. AddsUp(t)
  BY <1>2, <1>3, <1>5, <1>7 DEF AddsUp
<1>9. /\ N \in Hands /\ truth[N] = {} /\ DOMAIN truth = Hands
      /\ hand = [number |-> N, seed |-> hand.seed, dealt |-> hand.dealt,
                 over |-> hand.over, sawFlop |-> hand.sawFlop, digest |-> hand.digest]
  BY DEF IInv, Shapes, HandIsLive, TruthIsPast, SettleHand
<1>10. /\ hand'.number = N /\ hand'.digest = Digest(N, payouts) /\ hand'.sawFlop = hand.sawFlop
       /\ seats' = [s \in Seats |->
                        [salt |-> 0, stack |-> seats[s].stack + payouts[s], total |-> 0]]
  BY <1>1, <1>9 DEF CloseHand
<1>11. UNCHANGED <<view, buffer, saved, rows, misled>>
  BY DEF pageVars
<1> HIDE DEF N, put, pot, rake
<1>12. truth'[N] = {t} /\ \A n \in Hands \ {N} : truth'[n] = truth[n]
  BY <1>6, <1>9
<1>13. \A n \in Hands : truth[n] \subseteq truth'[n]
  BY <1>9, <1>12
<1>14. SeatsCount'
  <2>1. ASSUME NEW s \in Seats PROVE payouts[s] \in Int /\ seats[s].stack \in Int
    <3>1. seats[s].stack \in Int
      BY DEF BooksInv, SeatsCount
    <3>2. payouts[s] \in Int
      <4>1. PICK amount \in Int : amount = pot - rake
        BY <1>3, <1>4
      <4>2. payouts \in Splits(amount)
        BY <1>1, <4>1 DEF N, put, pot, rake
      <4> QED BY <4>2, SplitsAreChips
    <3> QED BY <3>1, <3>2
  <2> QED BY <1>10, <2>1 DEF SeatsCount
<1>15. ViewCounts(view)'
  BY <1>11 DEF BooksInv, ViewCounts
<1>16. BuffersCount'
  BY <1>11 DEF BooksInv, BuffersCount
<1>17. TruthAddsUp'
  <2>1. \A n \in Hands : \A u \in truth'[n] : AddsUp(u)
    BY <1>8, <1>12 DEF BooksInv, TruthAddsUp
  <2> QED BY <2>1 DEF TruthAddsUp, AddsUp
<1>18. FlopIsKnown'
  <2>1. Knows(hand.number, hand.digest, hand.sawFlop)'
    BY <1>7, <1>10, <1>12 DEF Knows, N
  <2>2. ASSUME NEW n \in Hands, NEW record \in saved[n]
        PROVE  Knows(n, record.digest, record.sawFlop)'
    <3>1. Knows(n, record.digest, record.sawFlop)
      BY DEF BooksInv, FlopIsKnown
    <3> QED BY <1>13, <3>1 DEF Knows
  <2>3. hand'.sawFlop \in BOOLEAN
    BY <1>2, <1>10
  <2> QED BY <1>11, <2>1, <2>2, <2>3 DEF FlopIsKnown
<1>19. RowsAgree'
  <2>1. ASSUME NEW n \in Hands, RowAgrees(n) PROVE RowAgrees(n)'
    BY <1>11, <1>13, <2>1 DEF RowAgrees
  <2> QED BY <1>11, <2>1 DEF BooksInv, RowsAgree
<1> QED BY <1>14, <1>15, <1>16, <1>17, <1>18, <1>19 DEF BooksInv

-----------------------------------------------------------------------------
(* The steps of the page.                                                  *)

LEMMA LargerIsNat == ASSUME NEW a \in Nat, NEW b \in Nat PROVE Larger(a, b) \in Nat
BY DEF Larger

LEMMA SeeBooks ==
    ASSUME BooksInv, See PROVE BooksInv'
<1>1. PICK v : Sees(v) /\ ViewCounts(v)
  <2>1. /\ view = [hand |-> view.hand, live |-> view.live, seats |-> view.seats]
        /\ DOMAIN view.seats = Seats /\ \A s \in Seats : view.seats[s].total \in Nat
    BY DEF BooksInv, ViewCounts
  <2>2. PICK a, b, c : view = [hand |-> a, live |-> b, seats |-> c]
    BY <2>1
  <2>3. DOMAIN c = Seats /\ \A s \in Seats : c[s].total \in Nat
    BY <2>1, <2>2
  <2>4. CASE Sees([view EXCEPT !.hand = HandSeen])
    <3>1. [view EXCEPT !.hand = HandSeen] = [hand |-> HandSeen, live |-> b, seats |-> c]
      BY ONLY <2>2
    <3>2. ViewCounts([view EXCEPT !.hand = HandSeen])
      BY <2>3, <3>1 DEF ViewCounts
    <3> QED BY <2>4, <3>2
  <2>5. CASE Sees([view EXCEPT !.live = live])
    <3>1. [view EXCEPT !.live = live] = [hand |-> a, live |-> live, seats |-> c]
      BY ONLY <2>2
    <3>2. ViewCounts([view EXCEPT !.live = live])
      BY <2>3, <3>1 DEF ViewCounts
    <3> QED BY <2>5, <3>2
  <2>6. ASSUME NEW s \in Seats, Sees([view EXCEPT !.seats[s] = seats[s]])
        PROVE  \E v : Sees(v) /\ ViewCounts(v)
    <3>1. [view EXCEPT !.seats[s] = seats[s]]
          = [hand |-> a, live |-> b, seats |-> [c EXCEPT ![s] = seats[s]]]
      BY ONLY <2>2
    <3>2. seats[s].total \in Nat
      BY DEF BooksInv, SeatsCount
    <3>3. ViewCounts([view EXCEPT !.seats[s] = seats[s]])
      BY <2>3, <3>1, <3>2 DEF ViewCounts
    <3> QED BY <2>6, <3>3
  <2> QED BY <2>4, <2>5, <2>6 DEF See
<1>2. /\ UNCHANGED <<hand, live, seats, truth, saved, rows, misled>>
      /\ view' = v /\ buffer' = Buffered(v)
  BY <1>1 DEF Sees, chainVars
<1>3. BuffersCount'
  <2>1. DOMAIN buffer = Hands /\ \A n \in Hands : buffer[n].contributed \in [Seats -> Nat]
    BY DEF BooksInv, BuffersCount
  <2>2. CASE Buffered(v) = buffer
    BY <1>2, <2>1, <2>2 DEF BuffersCount
  <2>3. CASE Buffered(v) # buffer
    <3>1. /\ v.hand.number \in Hands
          /\ Buffered(v) = [buffer EXCEPT ![v.hand.number] = Look(v, buffer[v.hand.number])]
      BY <2>3 DEF Buffered
    <3>2. Look(v, buffer[v.hand.number]).contributed
          = [s \in Seats |-> Larger(buffer[v.hand.number].contributed[s], v.seats[s].total)]
      BY DEF Look
    <3>3. \A s \in Seats : Larger(buffer[v.hand.number].contributed[s], v.seats[s].total) \in Nat
      BY <1>1, <2>1, <3>1, LargerIsNat DEF ViewCounts
    <3>4. Look(v, buffer[v.hand.number]).contributed \in [Seats -> Nat]
      BY <3>2, <3>3
    <3> QED BY <1>2, <2>1, <3>1, <3>4 DEF BuffersCount
  <2> QED BY <2>2, <2>3
<1>4. SeatsCount'
  BY <1>2 DEF BooksInv, SeatsCount
<1>5. ViewCounts(view)'
  BY <1>1, <1>2 DEF ViewCounts
<1>6. TruthAddsUp'
  BY <1>2 DEF BooksInv, TruthAddsUp
<1>7. FlopIsKnown'
  BY <1>2 DEF BooksInv, FlopIsKnown, Knows
<1>8. RowsAgree'
  BY <1>2 DEF BooksInv, RowsAgree, RowAgrees
<1> QED BY <1>3, <1>4, <1>5, <1>6, <1>7, <1>8 DEF BooksInv

LEMMA EndBooks ==
    ASSUME BuffersCount, NEW n \in Hands, End(n) PROVE BuffersCount'
<1>1. buffer' = [buffer EXCEPT ![n] = NoBuffer]
  BY DEF End
<1>2. NoBuffer.contributed \in [Seats -> Nat]
  BY DEF NoBuffer
<1> HIDE DEF NoBuffer
<1> QED BY <1>1, <1>2 DEF BuffersCount

(* Whatever else the page does. *)
LEMMA NothingNewBooks ==
    ASSUME BooksInv, UNCHANGED <<chainVars, view, saved, rows>>, misled \subseteq misled',
           BuffersCount'
    PROVE  BooksInv'
<1>1. UNCHANGED <<hand, live, seats, truth, view, saved, rows>>
  BY DEF chainVars
<1>2. SeatsCount'
  BY <1>1 DEF BooksInv, SeatsCount
<1>3. ViewCounts(view)'
  BY <1>1 DEF BooksInv, ViewCounts
<1>4. TruthAddsUp'
  BY <1>1 DEF BooksInv, TruthAddsUp
<1>5. FlopIsKnown'
  BY <1>1 DEF BooksInv, FlopIsKnown, Knows
<1>6. RowsAgree'
  BY <1>1 DEF BooksInv, RowsAgree, RowAgrees
<1> QED BY <1>2, <1>3, <1>4, <1>5, <1>6 DEF BooksInv

LEMMA FetchInVainBooks ==
    ASSUME BooksInv, NEW n \in Hands, FetchInVain(n) PROVE BooksInv'
<1>1. BuffersCount
  BY DEF BooksInv
<1>2. BuffersCount'
  <2>1. CASE End(n)
    BY <1>1, <2>1, EndBooks
  <2>2. CASE buffer' = buffer
    BY <1>1, <2>2 DEF BuffersCount
  <2> QED BY <2>1, <2>2 DEF FetchInVain, Again
<1> QED BY <1>2, NothingNewBooks DEF FetchInVain

(* The record of a settled hand knows what the account does. *)
LEMMA FetchBooks ==
    ASSUME IInv, BooksInv, NEW n \in Hands, Fetch(n) PROVE BooksInv'
<1>1. /\ hand.number = n /\ ~hand.dealt /\ hand.digest # NoDigest
      /\ UNCHANGED <<hand, live, seats, truth, view, buffer, rows, misled>>
      /\ saved' = [saved EXCEPT ![n] = IF @ = {} THEN {Captured(n)} ELSE @]
  BY DEF Fetch, Settled, chainVars
<1>2. Captured(n).digest = hand.digest /\ Captured(n).sawFlop = hand.sawFlop
  BY DEF Captured
<1>3. DOMAIN saved = Hands
  BY DEF IInv, Shapes
<1> HIDE DEF Captured
<1>4. saved'[n] \subseteq saved[n] \cup {Captured(n)}
      /\ \A m \in Hands \ {n} : saved'[m] = saved[m]
  BY <1>1, <1>3
<1>5. FlopIsKnown'
  <2>1. Knows(n, hand.digest, hand.sawFlop)
    BY <1>1 DEF BooksInv, FlopIsKnown
  <2>2. ASSUME NEW m \in Hands, NEW record \in saved'[m]
        PROVE  Knows(m, record.digest, record.sawFlop)
    BY <1>2, <1>4, <2>1 DEF BooksInv, FlopIsKnown
  <2>3. /\ hand.sawFlop \in BOOLEAN
        /\ ~hand.dealt /\ hand.digest # NoDigest => Knows(hand.number, hand.digest, hand.sawFlop)
    BY DEF BooksInv, FlopIsKnown
  <2> QED BY <1>1, <2>2, <2>3 DEF FlopIsKnown, Knows
<1>6. SeatsCount'
  BY <1>1 DEF BooksInv, SeatsCount
<1>7. ViewCounts(view)'
  BY <1>1 DEF BooksInv, ViewCounts
<1>8. BuffersCount'
  BY <1>1 DEF BooksInv, BuffersCount
<1>9. TruthAddsUp'
  BY <1>1 DEF BooksInv, TruthAddsUp
<1>10. RowsAgree'
  BY <1>1 DEF BooksInv, RowsAgree, RowAgrees
<1> QED BY <1>5, <1>6, <1>7, <1>8, <1>9, <1>10 DEF BooksInv

-----------------------------------------------------------------------------
(* The reports.                                                            *)

(* A breakdown is written down for every seat or for none, and only one    *)
(* that is believed: its rows agree with the pot.                          *)
LEMMA RowsOfReport ==
    ASSUME NEW q, Converges(q), NEW t, AddsUp(t), NEW record, record.sawFlop = t.sawFlop,
           NEW r, r.payouts = t.payouts, r.contributed \in [Seats -> Nat],
           r.blind \in Nat \ {0}
    PROVE  \/ \A s \in Seats : ResultRows(record, r)[s].contributed = Null
           \/ /\ \A s \in Seats : ResultRows(record, r)[s].contributed = r.contributed[s]
              /\ Within(SumFunction(r.contributed), SumFunction(t.put))
              /\ r.blind = BigBlind =>
                     Agree(SumFunction(r.contributed), SumFunction(t.put), t.sawFlop)
<1> DEFINE net == SumFunction(r.payouts)
           claimed == SumFunction(r.contributed)
           pot == SumFunction(t.put)
           flop == t.sawFlop
           proven == ContributionsProven(r.contributed, net, r.blind, record.sawFlop)
<1>1. \A s \in Seats : ResultRows(record, r)[s].contributed
                       = IF proven THEN r.contributed[s] ELSE Null
  BY DEF ResultRows
<1>2. CASE ~proven
  <2> HIDE DEF proven
  <2> QED BY <1>1, <1>2
<1>3. CASE proven
  <2>1. PotBehind(net, r.blind, flop, claimed) = claimed
    BY <1>3 DEF ContributionsProven
  <2>2. claimed \in Nat
    BY SumOfNats
  <2>3. pot \in Nat /\ flop \in BOOLEAN /\ net = pot - RakeFor(pot, BigBlind, flop)
    <3>1. DOMAIN t.put = Seats /\ \A s \in Seats : t.put[s] \in Nat
      BY DEF AddsUp
    <3> QED BY <3>1, SumOfNats DEF AddsUp
  <2>4. Within(claimed, pot) /\ (r.blind = BigBlind => Agree(claimed, pot, flop))
    <3> HIDE DEF net, claimed, pot, flop
    <3>1. Within(claimed, pot)
      BY <2>1, <2>2, <2>3, BelievedIsWithin
    <3>2. r.blind = BigBlind => Agree(claimed, pot, flop)
      BY <2>1, <2>2, <2>3, BelievedAgrees
    <3> QED BY <3>1, <3>2
  <2>5. \A s \in Seats : ResultRows(record, r)[s].contributed = r.contributed[s]
    <3> HIDE DEF proven
    <3> QED BY <1>1, <1>3
  <2> QED BY <2>4, <2>5
<1> QED BY <1>2, <1>3

LEMMA PostBooks ==
    ASSUME NEW q, Converges(q), IInv, BooksInv, BuffersCount',
           UNCHANGED <<chainVars, view, saved>>, NEW n \in Hands, NEW record, NEW r,
           Knows(n, record.digest, record.sawFlop), r.contributed \in [Seats -> Nat],
           r.blind \in Nat \ {0}, misled \subseteq misled', r.blind = BigBlind \/ n \in misled',
           Post(n, record, r)
    PROVE  BooksInv'
<1>1. UNCHANGED <<hand, live, seats, truth, view, saved>>
  BY DEF chainVars
<1>2. CASE rows' = rows
  BY <1>2, NothingNewBooks
<1>3. CASE rows' # rows
  <2> DEFINE new == ResultRows(record, r)
  <2>1. /\ Digest(n, r.payouts) = record.digest
        /\ rows' = [rows EXCEPT ![n] = [s \in Seats |-> Merged(rows[n][s], new[s])]]
    BY <1>3 DEF Post
  <2>2. PICK t \in truth[n] : record.digest = Digest(n, t.payouts) /\ record.sawFlop = t.sawFlop
    BY DEF Knows
  <2>3. r.payouts = t.payouts
    BY <2>1, <2>2 DEF Digest
  <2>4. AddsUp(t)
    BY DEF BooksInv, TruthAddsUp
  <2>5. \/ \A s \in Seats : new[s].contributed = Null
        \/ /\ \A s \in Seats : new[s].contributed = r.contributed[s]
           /\ \/ Agree(SumFunction(r.contributed), SumFunction(t.put), t.sawFlop)
              \/ n \in misled' /\ Within(SumFunction(r.contributed), SumFunction(t.put))
    BY <2>2, <2>3, <2>4, RowsOfReport
  <2> HIDE DEF new
  <2>6. DOMAIN rows = Hands /\ \A s \in Seats :
          rows[n][s] = [payout |-> rows[n][s].payout, rake |-> rows[n][s].rake,
                        contributed |-> rows[n][s].contributed]
    BY DEF IInv, Shapes
  <2>7. /\ \A m \in Hands \ {n} : rows'[m] = rows[m]
        /\ \A s \in Seats : rows'[n][s] = Merged(rows[n][s], new[s])
    BY <2>1, <2>6
  <2>8. ASSUME NEW s \in Seats
        PROVE  rows'[n][s].contributed = IF rows[n][s].contributed = Null
                                         THEN new[s].contributed ELSE rows[n][s].contributed
    <3>1. rows'[n][s] = Merged(rows[n][s], new[s])
      BY <2>7
    <3>2. CASE rows[n][s] = NoRow
      <4>1. rows'[n][s] = new[s]
        BY ONLY <3>1, <3>2 DEF Merged
      <4>2. rows[n][s].contributed = Null
        BY ONLY <3>2 DEF NoRow
      <4> QED BY ONLY <4>1, <4>2
    <3>3. CASE rows[n][s] # NoRow /\ rows[n][s].contributed = Null
      <4>1. rows'[n][s] = [rows[n][s] EXCEPT !.contributed = new[s].contributed]
        BY ONLY <3>1, <3>3 DEF Merged
      <4>2. PICK a, b, c : rows[n][s] = [payout |-> a, rake |-> b, contributed |-> c]
        BY ONLY <2>6, s \in Seats
      <4>3. \A x : [rows[n][s] EXCEPT !.contributed = x]
                   = [payout |-> a, rake |-> b, contributed |-> x]
        BY ONLY <4>2
      <4>4. rows'[n][s] = [payout |-> a, rake |-> b, contributed |-> new[s].contributed]
        BY ONLY <4>1, <4>3
      <4>5. rows'[n][s].contributed = new[s].contributed
        BY ONLY <4>4
      <4> QED BY ONLY <3>3, <4>5
    <3>4. CASE rows[n][s] # NoRow /\ rows[n][s].contributed # Null
      <4>1. rows'[n][s] = rows[n][s]
        BY ONLY <3>1, <3>4 DEF Merged
      <4> QED BY ONLY <3>4, <4>1
    <3> QED BY <3>2, <3>3, <3>4
  <2>9. RowsAgree'
    <3>1. ASSUME NEW m \in Hands \ {n}
          PROVE  \/ \A s \in Seats : rows'[m][s].contributed = Null
                 \/ (\A s \in Seats : rows'[m][s].contributed \in Nat) /\ RowAgrees(m)'
      <4>1. \/ \A s \in Seats : rows[m][s].contributed = Null
            \/ (\A s \in Seats : rows[m][s].contributed \in Nat) /\ RowAgrees(m)
        BY DEF BooksInv, RowsAgree
      <4>2. rows'[m] = rows[m] /\ truth' = truth /\ misled \subseteq misled'
        BY <1>1, <2>7
      <4> QED BY ONLY <4>1, <4>2 DEF RowAgrees
    <3>2. CASE (\A s \in Seats : rows[n][s].contributed \in Nat) /\ RowAgrees(n)
      <4>1. \A s \in Seats : rows'[n][s].contributed = rows[n][s].contributed
        BY <2>8, <3>2 DEF Null
      <4>2. [s \in Seats |-> rows'[n][s].contributed] = [s \in Seats |-> rows[n][s].contributed]
        BY <4>1
      <4>3. RowAgrees(n)'
        <5>1. PICK u \in truth[n] :
                \/ Agree(SumFunction([s \in Seats |-> rows[n][s].contributed]),
                         SumFunction(u.put), u.sawFlop)
                \/ /\ n \in misled
                   /\ Within(SumFunction([s \in Seats |-> rows[n][s].contributed]),
                             SumFunction(u.put))
          BY <3>2 DEF RowAgrees
        <5>2. \/ Agree(SumFunction([s \in Seats |-> rows'[n][s].contributed]),
                       SumFunction(u.put), u.sawFlop)
              \/ /\ n \in misled'
                 /\ Within(SumFunction([s \in Seats |-> rows'[n][s].contributed]),
                           SumFunction(u.put))
          BY ONLY <4>2, <5>1, misled \subseteq misled'
        <5> QED BY <1>1, <5>2 DEF RowAgrees
      <4> QED BY <3>1, <3>2, <4>1, <4>3 DEF RowsAgree
    <3>3. CASE \A s \in Seats : rows[n][s].contributed = Null
      <4>1. \A s \in Seats : rows'[n][s].contributed = new[s].contributed
        BY <2>8, <3>3
      <4>2. CASE \A s \in Seats : new[s].contributed = Null
        BY <3>1, <4>1, <4>2 DEF RowsAgree
      <4>3. CASE /\ \A s \in Seats : new[s].contributed = r.contributed[s]
                 /\ \/ Agree(SumFunction(r.contributed), SumFunction(t.put), t.sawFlop)
                    \/ n \in misled' /\ Within(SumFunction(r.contributed), SumFunction(t.put))
        <5>1. \A s \in Seats : rows'[n][s].contributed = r.contributed[s]
          BY <4>1, <4>3
        <5>2. [s \in Seats |-> rows'[n][s].contributed] = r.contributed
          BY <5>1
        <5>3. \/ Agree(SumFunction([s \in Seats |-> rows'[n][s].contributed]),
                       SumFunction(t.put), t.sawFlop)
              \/ /\ n \in misled'
                 /\ Within(SumFunction([s \in Seats |-> rows'[n][s].contributed]),
                           SumFunction(t.put))
          BY ONLY <4>3, <5>2
        <5>4. RowAgrees(n)'
          BY <1>1, <5>3 DEF RowAgrees
        <5>5. \A s \in Seats : rows'[n][s].contributed \in Nat
          BY <5>1
        <5> QED BY <3>1, <5>4, <5>5 DEF RowsAgree
      <4> QED BY <2>5, <4>2, <4>3
    <3> QED BY <3>2, <3>3 DEF BooksInv, RowsAgree
  <2>10. SeatsCount'
    BY <1>1 DEF BooksInv, SeatsCount
  <2>11. ViewCounts(view)'
    BY <1>1 DEF BooksInv, ViewCounts
  <2>12. TruthAddsUp'
    BY <1>1 DEF BooksInv, TruthAddsUp
  <2>13. FlopIsKnown'
    BY <1>1 DEF BooksInv, FlopIsKnown, Knows
  <2> QED BY <2>9, <2>10, <2>11, <2>12, <2>13 DEF BooksInv
<1> QED BY <1>2, <1>3

LEMMA ReportBooks ==
    ASSUME NEW q, Converges(q), IInv, BooksInv, NEW n \in Hands, Report(n) PROVE BooksInv'
<1>1. UNCHANGED <<chainVars, view, saved, misled>>
  BY DEF Report
<1>2. BuffersCount'
  BY EndBooks DEF Report, BooksInv
<1>3. CASE rows' = rows
  BY <1>1, <1>2, <1>3, NothingNewBooks
<1>4. CASE rows' # rows
  <2>1. PICK record \in saved[n] : \E r \in Results(n, record) : Post(n, record, r)
    BY <1>4 DEF Report
  <2>2. PICK r \in Results(n, record) : Post(n, record, r)
    BY <2>1
  <2>3. Knows(n, record.digest, record.sawFlop)
    BY DEF BooksInv, FlopIsKnown
  <2>4. r.contributed \in [Seats -> Nat]
    <3>1. r.contributed = buffer[n].contributed
      BY <2>2 DEF Results
    <3> QED BY <3>1 DEF BooksInv, BuffersCount
  <2>5. r.blind = BigBlind /\ r.blind \in Nat \ {0}
    BY <2>2, RecordAssumption DEF Results
  <2> QED BY <1>1, <1>2, <2>2, <2>3, <2>4, <2>5, PostBooks
<1> QED BY <1>3, <1>4

LEMMA OtherReportBooks ==
    ASSUME NEW q, Converges(q), IInv, BooksInv, OtherReport PROVE BooksInv'
<1>1. UNCHANGED <<chainVars, view, saved, buffer>>
  BY DEF OtherReport, pageVars
<1>2. BuffersCount'
  BY <1>1 DEF BooksInv, BuffersCount
<1>3. PICK n \in Hands : \E t \in truth[n] :
        \E payouts, contributed, blind :
          /\ contributed \in [Seats -> 0 .. MaxBet] /\ blind \in Told
          /\ Post(n, [seed |-> n, salts |-> [s \in Seats |-> n], sawFlop |-> t.sawFlop,
                      digest |-> Digest(n, t.payouts)],
                  [payouts |-> payouts, blind |-> blind, contributed |-> contributed])
          /\ misled' = IF blind = BigBlind THEN misled ELSE misled \cup {n}
  BY DEF OtherReport
<1>4. PICK t \in truth[n] : \E payouts, contributed, blind :
          /\ contributed \in [Seats -> 0 .. MaxBet] /\ blind \in Told
          /\ Post(n, [seed |-> n, salts |-> [s \in Seats |-> n], sawFlop |-> t.sawFlop,
                      digest |-> Digest(n, t.payouts)],
                  [payouts |-> payouts, blind |-> blind, contributed |-> contributed])
          /\ misled' = IF blind = BigBlind THEN misled ELSE misled \cup {n}
  BY <1>3
<1>5. PICK payouts, contributed, blind :
          /\ contributed \in [Seats -> 0 .. MaxBet] /\ blind \in Told
          /\ Post(n, [seed |-> n, salts |-> [s \in Seats |-> n], sawFlop |-> t.sawFlop,
                      digest |-> Digest(n, t.payouts)],
                  [payouts |-> payouts, blind |-> blind, contributed |-> contributed])
          /\ misled' = IF blind = BigBlind THEN misled ELSE misled \cup {n}
  BY <1>4
<1> DEFINE record == [seed |-> n, salts |-> [s \in Seats |-> n], sawFlop |-> t.sawFlop,
                      digest |-> Digest(n, t.payouts)]
           r == [payouts |-> payouts, blind |-> blind, contributed |-> contributed]
<1>6. record.digest = Digest(n, t.payouts) /\ record.sawFlop = t.sawFlop /\ Post(n, record, r)
  BY <1>5
<1>7. r.contributed \in [Seats -> Nat]
  <2>1. \A k \in 0 .. MaxBet : k \in Nat
    OBVIOUS
  <2> QED BY <1>5, <2>1
<1>8. /\ r.blind \in Nat \ {0} /\ misled \subseteq misled'
      /\ r.blind = BigBlind \/ n \in misled'
  BY <1>5, RecordAssumption
<1> HIDE DEF record, r
<1>9. Knows(n, record.digest, record.sawFlop)
  BY <1>6 DEF Knows
<1> QED BY <1>1, <1>2, <1>6, <1>7, <1>8, <1>9, PostBooks

LEMMA NextBooks ==
    ASSUME NEW q, Converges(q), IInv, BooksInv, [Next]_vars PROVE BooksInv'
<1>1. CASE Chain
  BY <1>1, PlayBooks, SettleBooks DEF Chain
<1>2. CASE See
  BY <1>2, SeeBooks
<1>3. ASSUME NEW n \in Hands, FetchInVain(n) \/ Fetch(n) \/ Report(n) PROVE BooksInv'
  BY <1>3, FetchInVainBooks, FetchBooks, ReportBooks
<1>4. CASE OtherReport
  BY <1>4, OtherReportBooks
<1>5. CASE UNCHANGED vars
  <2>1. BuffersCount'
    BY <1>5 DEF BooksInv, BuffersCount, vars, pageVars
  <2> QED BY <1>5, <2>1, NothingNewBooks DEF vars, pageVars
<1> QED BY <1>1, <1>2, <1>3, <1>4, <1>5 DEF Next

(* Where eight rounds are enough, as they are at 250 basis points (q = 40) *)
(* while the cap is below 40^8 chips: what the seats of a hand are said to *)
(* have put in comes to its pot, but for the chip a rounded rake hides or  *)
(* the rake of a pot that nets an amount free of it, whoever reported what *)
(* and in which order (api/hands/route.ts, rake.ts:44-47); and, where a    *)
(* report named another big blind, within the percentage of the pot (:51). *)
THEOREM ContributionsCorrect ==
    ASSUME NEW q, Converges(q) PROVE Spec => []ContributionsAddUp
<1>1. BooksInv => ContributionsAddUp
  <2> SUFFICES ASSUME BooksInv, NEW n \in Hands, \A s \in Seats : rows[n][s].contributed # Null
               PROVE  \E t \in truth[n] :
                        LET sum == SumFunction([s \in Seats |-> rows[n][s].contributed])
                            pot == SumFunction(t.put)
                            larger == Larger(sum, pot)
                            smaller == Smaller(sum, pot)
                        IN  \/ larger - smaller <= 1
                            \/ /\ smaller <= BigBlind * RakeFreeBB
                               /\ larger - smaller = RakeFor(larger, BigBlind, t.sawFlop)
                            \/ n \in misled /\ larger - smaller <= (larger * RakeBps) \div 10000
    BY DEF ContributionsAddUp
  <2>1. Seats # {}
    BY RecordAssumption, FS_EmptySet
  <2>2. RowAgrees(n)
    BY <2>1 DEF BooksInv, RowsAgree
  <2> QED BY <2>2 DEF RowAgrees, Agree, Within, Part
<1>2. IInv /\ BooksInv /\ [Next]_vars => BooksInv'
  BY NextBooks
<1> QED BY <1>1, <1>2, InitBooks, RecordInvariant, PTL DEF Spec
=============================================================================
