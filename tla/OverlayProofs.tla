--------------------------- MODULE OverlayProofs ---------------------------
(***************************************************************************)
(* A bet is shown once and never dips: proofs about module Overlay, for    *)
(* any stacks, bets, streets, hands and transactions given up.             *)
(***************************************************************************)
EXTENDS Overlay, TLAPS

-----------------------------------------------------------------------------
(* The inductive invariant.                                                *)

Money == {"call", "allin", "raise"}
Moves == [kind : {"fold", "check"} \cup Money, to : Nat, number : Nat,
          street : 0 .. Showdown - 1]
HandAccounts == [number : Nat, street : 0 .. Showdown, dealt : BOOLEAN,
                 toAct : {"me", "other", "none"}, bet : Nat]
SeatAccounts == [stack : Nat, street : Nat, total : Nat, folded : BOOLEAN]

TypeOK ==
    /\ hand \in HandAccounts /\ handView \in HandAccounts
    /\ seat \in SeatAccounts /\ seatView \in SeatAccounts
    /\ acted \in BOOLEAN
    /\ pending \in Moves \cup {Nothing}
    /\ call \in [status : {"none", "sent", "done", "refused"}, move : Moves \cup {Nothing}]
    /\ call.status # "none" => call.move \in Moves
    /\ late \subseteq Moves

(* What the player put in before this street. *)
Base(s) == s.total - s.street

(* Nobody is to act at the showdown or between hands, when nothing is in.  *)
NobodyAtRest ==
    /\ hand.street = Showdown => hand.toAct = "none"
    /\ handView.street = Showdown => handView.toAct = "none"
    /\ ~hand.dealt => hand.toAct = "none" /\ seat.total = 0

(* The chips behind and those in the hand are the stack of its start.      *)
Kept(s) == s.stack + s.total = Stack /\ s.street <= s.total
ChipsAreKept == Kept(seat) /\ Kept(seatView)

(* A view is of the account as it was: a street, a bet, a stake does not   *)
(* go back, but that a hand's last bet is cleared when it is settled.      *)
ViewsAreOld ==
    /\ handView.number <= hand.number
    /\ handView.number = hand.number =>
           /\ handView.street <= hand.street
           /\ handView.street = hand.street /\ hand.street # Showdown =>
                  handView.bet <= hand.bet
    /\ hand.dealt => seatView.total <= seat.total /\ Base(seatView) <= Base(seat)

(* A move was made on a street the table has reached, and a call for what  *)
(* was to be matched there.                                                *)
Past(m) ==
    m # Nothing => m.number <= hand.number /\ (m.number = hand.number => m.street <= hand.street)

MovesAreOld ==
    /\ Past(pending) /\ Past(call.move)
    /\ (/\ call.status = "sent" /\ call.move.kind = "call"
        /\ call.move.number = hand.number /\ call.move.street = hand.street)
           => call.move.to <= hand.bet
    /\ pending # Nothing /\ call.status \in {"sent", "refused"} => pending = call.move

(* A prediction that is neither under way nor refused has come true, on    *)
(* the street it was made for or, if the page is a street behind, before   *)
(* that street ended.                                                      *)
Predicted == pending # Nothing /\ pending.kind \in Money /\ call.status \in {"none", "done"}
             /\ hand.dealt /\ pending.number = hand.number

PredictionCameTrue ==
    /\ Predicted /\ pending.street = hand.street => seat.stack = 0 \/ seat.street >= pending.to
    /\ Predicted /\ pending.number = handView.number /\ pending.street = handView.street =>
           seat.stack = 0 \/ Base(seatView) + pending.to <= seat.total

IInv == TypeOK /\ NobodyAtRest /\ ChipsAreKept /\ ViewsAreOld /\ MovesAreOld /\ PredictionCameTrue

-----------------------------------------------------------------------------
(* What moves do to a seat, and an overlay to what is shown of it.         *)

LEMMA CommitIs ==
    ASSUME NEW s \in SeatAccounts, Kept(s), NEW to \in Nat
    PROVE  LET c == Commit(s, to)
           IN  /\ c \in SeatAccounts /\ Kept(c) /\ Base(c) = Base(s)
               /\ c.total >= s.total /\ c.street >= s.street /\ c.stack <= s.stack
               /\ c.stack = 0 \/ c.street >= to
               /\ \/ c.total = s.total \/ c.total <= Base(s) + to
               /\ c.total >= s.total + s.stack \/ c.total >= Base(s) + to
<1> DEFINE added == Smaller(NonNegative(to - s.street), s.stack)
           c == Commit(s, to)
<1>1. PICK stack \in Nat, street \in Nat, total \in Nat, folded \in BOOLEAN :
        s = [stack |-> stack, street |-> street, total |-> total, folded |-> folded]
  BY DEF SeatAccounts
<1>2. /\ s.stack \in Nat /\ s.street \in Nat /\ s.total \in Nat /\ s.folded \in BOOLEAN
      /\ s.stack + s.total = Stack /\ s.street <= s.total
  BY DEF SeatAccounts, Kept
<1>3. /\ added \in Nat /\ added <= s.stack
      /\ added = s.stack \/ s.street + added >= to
      /\ added = 0 \/ s.street + added <= to
  BY <1>2 DEF Smaller, NonNegative
<1>4. c = [stack |-> s.stack - added, street |-> s.street + added, total |-> s.total + added,
           folded |-> s.folded]
  <2>1. c = [s EXCEPT !.stack = s.stack - added, !.street = s.street + added,
                      !.total = s.total + added]
    BY DEF Commit
  <2> HIDE DEF added, c
  <2> QED BY <1>1, <2>1
<1> HIDE DEF added
<1>5. /\ c.stack = s.stack - added /\ c.street = s.street + added /\ c.total = s.total + added
      /\ c \in SeatAccounts
  <2>1. s.stack - added \in Nat /\ s.street + added \in Nat /\ s.total + added \in Nat
    BY <1>2, <1>3
  <2> QED BY <1>2, <1>4, <2>1 DEF SeatAccounts
<1> HIDE DEF c
<1>6. c \in SeatAccounts /\ Kept(c) /\ Base(c) = Base(s)
  BY <1>2, <1>3, <1>5, OverlayAssumption DEF Kept, Base
<1>7. /\ c.total >= s.total /\ c.street >= s.street /\ c.stack <= s.stack
      /\ c.stack = 0 \/ c.street >= to
      /\ \/ c.total = s.total \/ c.total <= Base(s) + to
      /\ c.total >= s.total + s.stack \/ c.total >= Base(s) + to
  BY <1>2, <1>3, <1>5 DEF Base
<1> QED BY <1>6, <1>7 DEF c

(* Whatever a move does, the seat gains in the hand what it loses behind.  *)
Plays(s, after) ==
    /\ after \in SeatAccounts /\ Kept(after) /\ Base(after) = Base(s)
    /\ after.total >= s.total /\ after.street >= s.street /\ after.stack <= s.stack

LEMMA MoveIs ==
    ASSUME TypeOK, ChipsAreKept, NEW move \in Moves, Accepts(move)
    PROVE  /\ Plays(seat, MovedSeat(move))
           /\ (/\ move.kind \in Money
               /\ move.kind = "call" => move.to <= hand.bet)
                => MovedSeat(move).stack = 0 \/ MovedSeat(move).street >= move.to
<1>1. /\ seat \in SeatAccounts /\ Kept(seat) /\ hand.bet \in Nat /\ move.to \in Nat
      /\ move.kind \in {"fold", "check"} \cup Money
      /\ seat.stack \in Nat /\ seat.street \in Nat /\ seat.total \in Nat
  BY DEF TypeOK, ChipsAreKept, HandAccounts, SeatAccounts, Moves
<1>2. CASE move.kind = "fold"
  <2>1. MovedSeat(move) = [seat EXCEPT !.folded = TRUE]
    BY <1>2 DEF MovedSeat
  <2>2. PICK stack \in Nat, street \in Nat, total \in Nat, folded \in BOOLEAN :
          seat = [stack |-> stack, street |-> street, total |-> total, folded |-> folded]
    BY <1>1 DEF SeatAccounts
  <2>3. MovedSeat(move) = [stack |-> stack, street |-> street, total |-> total, folded |-> TRUE]
    BY <2>1, <2>2
  <2>4. Plays(seat, MovedSeat(move))
    BY <1>1, <2>2, <2>3 DEF Plays, Kept, Base, SeatAccounts
  <2> QED BY <1>2, <2>4 DEF Money
<1>3. CASE move.kind = "check"
  <2>1. Plays(seat, MovedSeat(move))
    BY <1>1, <1>3 DEF MovedSeat, Plays, Base
  <2> QED BY <1>3, <2>1 DEF Money
<1>4. CASE move.kind \in Money
  <2>1. PICK to \in Nat :
          /\ MovedSeat(move) = Commit(seat, to)
          /\ \/ move.kind = "call" /\ to = hand.bet
             \/ move.kind = "allin" /\ to = seat.street + seat.stack
             \/ move.kind = "raise" /\ to = move.to
    BY <1>1, <1>4 DEF MovedSeat, Money
  <2> DEFINE c == Commit(seat, to)
  <2>2. /\ c \in SeatAccounts /\ Kept(c) /\ Base(c) = Base(seat)
        /\ c.total >= seat.total /\ c.street >= seat.street /\ c.stack <= seat.stack
        /\ c.stack = 0 \/ c.street >= to
    BY <1>1, CommitIs
  <2>3. c.stack \in Nat /\ c.street \in Nat /\ c.total \in Nat
    BY <2>2 DEF SeatAccounts
  <2> HIDE DEF c
  <2>4. to = seat.street + seat.stack => c.stack = 0
    BY <1>1, <2>2, <2>3, OverlayAssumption DEF Kept, Base
  <2> QED BY <1>1, <1>4, <2>1, <2>2, <2>3, <2>4 DEF Plays, c
<1> QED BY <1>1, <1>2, <1>3, <1>4

(* What is shown of a seat: at most what the prediction comes to.          *)
Shown(p, h, s) == IF PendingApplies(p, h, s) THEN ApplyPending(s, p) ELSE s

LEMMA ShownIs ==
    ASSUME NEW s \in SeatAccounts, Kept(s), NEW p \in Moves \cup {Nothing}, NEW h \in HandAccounts
    PROVE  /\ Shown(p, h, s) \in SeatAccounts /\ Kept(Shown(p, h, s))
           /\ Shown(p, h, s).total >= s.total
           /\ \/ Shown(p, h, s).total = s.total
              \/ /\ p # Nothing /\ p.kind \in Money /\ p.number = h.number /\ p.street = h.street
                 /\ Shown(p, h, s).total <= Base(s) + p.to
<1>1. CASE ~PendingApplies(p, h, s)
  BY <1>1 DEF Shown, SeatAccounts
<1>2. CASE PendingApplies(p, h, s)
  <2>1. p \in Moves /\ p # Nothing /\ p.number = h.number /\ p.street = h.street
    BY <1>2 DEF PendingApplies
  <2>2. Shown(p, h, s) = ApplyPending(s, p)
    BY <1>2 DEF Shown
  <2>3. CASE p.kind = "fold"
    <3>1. PICK stack \in Nat, street \in Nat, total \in Nat, folded \in BOOLEAN :
            s = [stack |-> stack, street |-> street, total |-> total, folded |-> folded]
      BY DEF SeatAccounts
    <3>2. Shown(p, h, s) = [stack |-> stack, street |-> street, total |-> total, folded |-> TRUE]
      BY <2>2, <2>3, <3>1 DEF ApplyPending
    <3>3. Shown(p, h, s) \in SeatAccounts
      BY <3>2 DEF SeatAccounts
    <3>4. /\ s.stack = stack /\ s.street = street /\ s.total = total
          /\ Shown(p, h, s).stack = stack /\ Shown(p, h, s).street = street
          /\ Shown(p, h, s).total = total
      BY <3>1, <3>2
    <3> QED BY <3>3, <3>4 DEF Kept
  <2>4. CASE p.kind = "check"
    BY <2>2, <2>4 DEF ApplyPending, SeatAccounts
  <2>5. CASE p.kind \in Money
    <3>1. Shown(p, h, s) = Commit(s, p.to)
      BY <2>2, <2>5 DEF ApplyPending, Money
    <3>2. p.to \in Nat
      BY <2>1 DEF Moves
    <3> QED BY <2>1, <2>5, <3>1, <3>2, CommitIs
  <2> QED BY <2>1, <2>3, <2>4, <2>5 DEF Moves
<1> QED BY <1>1, <1>2

-----------------------------------------------------------------------------
(* The table.                                                              *)

(* An action on a street: the hand stays on it, its bet does not shrink.   *)
Played ==
    /\ hand' \in HandAccounts /\ hand.dealt /\ hand.street # Showdown /\ acted' \in BOOLEAN
    /\ UNCHANGED <<hand.number, hand.street, hand.dealt>>
    /\ hand'.bet >= hand.bet
    /\ Plays(seat, seat')

LEMMA HandParts ==
    ASSUME TypeOK
    PROVE  /\ hand = [number |-> hand.number, street |-> hand.street, dealt |-> hand.dealt,
                      toAct |-> hand.toAct, bet |-> hand.bet]
           /\ hand.number \in Nat /\ hand.street \in 0 .. Showdown /\ hand.dealt \in BOOLEAN
           /\ hand.bet \in Nat
BY DEF TypeOK, HandAccounts

LEMMA OthersPlay ==
    ASSUME TypeOK, NobodyAtRest, ChipsAreKept, OthersAct PROVE Played
<1>1. PICK bet \in hand.bet .. MaxBet, turn \in {"me", "other", "none"} :
        hand' = [hand EXCEPT !.bet = bet, !.toAct = turn]
  BY DEF OthersAct
<1>2. hand' = [number |-> hand.number, street |-> hand.street, dealt |-> hand.dealt,
               toAct |-> turn, bet |-> bet]
  BY <1>1, HandParts
<1>3. bet \in Nat /\ bet >= hand.bet
  BY HandParts, OverlayAssumption
<1>4. hand.dealt /\ hand.street # Showdown /\ UNCHANGED <<seat, acted>>
  BY HandParts DEF OthersAct, NobodyAtRest
<1>5. Plays(seat, seat')
  BY <1>4 DEF Plays, TypeOK, ChipsAreKept, SeatAccounts, Base
<1>6. acted' \in BOOLEAN
  BY <1>4 DEF TypeOK
<1> QED BY <1>2, <1>3, <1>4, <1>5, <1>6, HandParts DEF Played, HandAccounts

(* The player's seat acts, in whichever way. *)
LEMMA ActsPlay ==
    ASSUME TypeOK, NobodyAtRest, NEW after, NEW bet \in Nat, Acts(after, bet),
           hand.toAct = "me", bet >= hand.bet, Plays(seat, after)
    PROVE  Played /\ hand'.toAct # "me" /\ seat' = after
<1>1. PICK turn \in {"other", "none"} : hand' = [hand EXCEPT !.bet = bet, !.toAct = turn]
  BY DEF Acts, ToActNext
<1>2. hand' = [number |-> hand.number, street |-> hand.street, dealt |-> hand.dealt,
               toAct |-> turn, bet |-> bet]
  BY <1>1, HandParts
<1>3. hand.dealt /\ hand.street # Showdown
  BY HandParts DEF NobodyAtRest
<1>4. seat' = after /\ acted' \in BOOLEAN
  BY DEF Acts
<1> QED BY <1>2, <1>3, <1>4, HandParts DEF Played, HandAccounts

LEMMA TimesOutPlays ==
    ASSUME TypeOK, NobodyAtRest, ChipsAreKept, TimesOut PROVE Played
<1> DEFINE after == IF seat.street = hand.bet THEN seat ELSE [seat EXCEPT !.folded = TRUE]
<1>1. Plays(seat, after)
  <2>1. PICK stack \in Nat, street \in Nat, total \in Nat, folded \in BOOLEAN :
          seat = [stack |-> stack, street |-> street, total |-> total, folded |-> folded]
    BY DEF TypeOK, SeatAccounts
  <2>2. \E f \in BOOLEAN :
          after = [stack |-> stack, street |-> street, total |-> total, folded |-> f]
    BY <2>1
  <2> HIDE DEF after
  <2> QED BY <2>1, <2>2 DEF Plays, Kept, Base, SeatAccounts, ChipsAreKept
<1>2. Acts(after, hand.bet) /\ hand.toAct = "me"
  BY DEF TimesOut
<1> HIDE DEF after
<1> QED BY <1>1, <1>2, ActsPlay, HandParts

(* A move lands: one of the page, or one it gave up. *)
LEMMA TakesPlays ==
    ASSUME TypeOK, NobodyAtRest, ChipsAreKept, NEW move \in Moves, Accepts(move), Takes(move)
    PROVE  Played /\ hand' # hand /\ seat' = MovedSeat(move)
<1> DEFINE after == MovedSeat(move)
           bet == IF after.street > hand.bet THEN after.street ELSE hand.bet
<1>1. Plays(seat, after)
  BY MoveIs
<1>2. Acts(after, bet) /\ hand.toAct = "me"
  BY DEF Takes, Accepts
<1> HIDE DEF after
<1>3. bet \in Nat /\ bet >= hand.bet
  BY <1>1, HandParts DEF Plays, SeatAccounts
<1> HIDE DEF bet
<1>4. Played /\ hand'.toAct # "me" /\ seat' = after
  BY <1>1, <1>2, <1>3, ActsPlay
<1> QED BY <1>2, <1>4 DEF after

(* While a street is played the views stay old and what came true is true. *)
LEMMA PlayedKeeps ==
    ASSUME IInv, Played, UNCHANGED viewVars
    PROVE  /\ NobodyAtRest' /\ ChipsAreKept' /\ ViewsAreOld'
           /\ \A m \in Moves \cup {Nothing} : Past(m) => Past(m)'
           /\ seat.stack = 0 => seat'.stack = 0
           /\ \A to \in Nat : /\ seat.street >= to => seat'.street >= to
                              /\ \A b \in Int : b + to <= seat.total => b + to <= seat'.total
<1>1. /\ seat'.stack \in Nat /\ seat.stack \in Nat /\ seat'.street \in Nat /\ seat.street \in Nat
      /\ seat'.total \in Nat /\ seat.total \in Nat
      /\ seatView.total \in Nat /\ seatView.street \in Nat
      /\ hand'.bet \in Nat /\ hand.bet \in Nat /\ handView.bet \in Nat
  BY DEF IInv, TypeOK, SeatAccounts, HandAccounts, Played, Plays
<1>2. NobodyAtRest'
  BY DEF Played, NobodyAtRest, IInv, viewVars
<1>3. ChipsAreKept'
  BY DEF Played, Plays, ChipsAreKept, IInv, viewVars, Kept
<1>4. ViewsAreOld'
  BY <1>1 DEF Played, Plays, ViewsAreOld, IInv, viewVars, Base
<1>5. \A m \in Moves \cup {Nothing} : Past(m) => Past(m)'
  BY DEF Played, Past
<1> QED BY <1>1, <1>2, <1>3, <1>4, <1>5 DEF Played, Plays

LEMMA PlayedIInv ==
    ASSUME IInv, Played, UNCHANGED <<viewVars, pending, call, late>> PROVE IInv'
<1>1. UNCHANGED <<handView, seatView, pending, call, late>>
  BY DEF viewVars
<1>2. TypeOK'
  BY <1>1 DEF IInv, TypeOK, Played, Plays
<1>3. NobodyAtRest' /\ ChipsAreKept' /\ ViewsAreOld'
  BY PlayedKeeps
<1>4. hand'.bet \in Nat /\ hand.bet \in Nat /\ \A m \in Moves : m.to \in Nat
  BY DEF IInv, TypeOK, HandAccounts, Played, Moves
<1>5. MovesAreOld'
  <2>1. Past(pending)' /\ Past(call.move)'
    <3>1. pending \in Moves \cup {Nothing} /\ call.move \in Moves \cup {Nothing}
      BY DEF IInv, TypeOK
    <3>2. Past(pending) /\ Past(call.move)
      BY DEF IInv, MovesAreOld
    <3> QED BY <1>1, <3>1, <3>2 DEF Past, Played
  <2>2. call.status = "sent" => call.move.to \in Nat
    BY <1>4 DEF IInv, TypeOK
  <2> QED BY <1>1, <1>4, <2>1, <2>2 DEF IInv, MovesAreOld, Played
<1>6. PredictionCameTrue'
  <2>1. Predicted' => Predicted /\ pending.to \in Nat
    BY <1>1, <1>4 DEF Predicted, Played, IInv, TypeOK
  <2>2. Base(seatView) \in Int /\ Base(seatView)' = Base(seatView)
    BY <1>1 DEF Base, IInv, TypeOK, SeatAccounts
  <2>3. hand'.street = hand.street
    BY DEF Played
  <2> QED BY <1>1, <2>1, <2>2, <2>3, PlayedKeeps DEF PredictionCameTrue, IInv
<1> QED BY <1>2, <1>3, <1>5, <1>6 DEF IInv

(* A move that lands late changes no more than what the table does. *)
LEMMA LateIInv ==
    ASSUME IInv, LateLands PROVE IInv'
<1>1. PICK move \in late : Accepts(move) /\ Takes(move)
  BY DEF LateLands
<1>2. move \in Moves
  BY DEF IInv, TypeOK
<1>3. Played
  BY <1>1, <1>2, TakesPlays DEF IInv
<1> QED BY <1>3, PlayedIInv DEF LateLands

(* A new street: what was put in on the last one is behind the player. *)
LEMMA AdvanceIInv ==
    ASSUME IInv, AdvanceStreet, InOrder, UNCHANGED <<viewVars, pending, call, late>> PROVE IInv'
<1>1. UNCHANGED <<handView, seatView, pending, call, late>>
  BY DEF viewVars
<1>2. PICK street \in {hand.street + 1, Showdown}, turn \in {"me", "other", "none"}, bet \in Nat :
        /\ hand' = [hand EXCEPT !.street = street, !.bet = bet, !.toAct = turn]
        /\ street = Showdown => turn = "none"
  <2>1. CASE NextStreet
    BY <2>1 DEF NextStreet
  <2>2. CASE ToShowdown
    <3>1. hand' = [hand EXCEPT !.street = Showdown] /\ hand.toAct = "none"
      BY <2>2 DEF ToShowdown, AdvanceStreet
    <3>2. hand' = [hand EXCEPT !.street = Showdown, !.bet = hand.bet, !.toAct = "none"]
      BY <3>1, HandParts DEF IInv
    <3> QED BY <3>2, HandParts DEF IInv
  <2> QED BY <2>1, <2>2 DEF AdvanceStreet
<1>3. hand' = [number |-> hand.number, street |-> street, dealt |-> hand.dealt,
               toAct |-> turn, bet |-> bet]
  BY <1>2, HandParts DEF IInv
<1>4. hand.dealt /\ hand.street < Showdown /\ hand.street \in Nat /\ street \in Nat
      /\ street > hand.street /\ street \in 0 .. Showdown /\ acted' \in BOOLEAN
  <2>1. /\ hand.dealt /\ hand.street < Showdown /\ hand.street \in 0 .. Showdown
        /\ acted' \in {FALSE, acted} /\ acted \in BOOLEAN
    BY HandParts DEF AdvanceStreet, NextStreet, ToShowdown, IInv, TypeOK
  <2>2. Showdown \in Nat /\ hand.street \in Nat /\ hand.street + 1 \in 0 .. Showdown
    BY <2>1, OverlayAssumption
  <2>3. street = hand.street + 1 \/ street = Showdown
    BY <1>2
  <2>4. street \in Nat /\ street > hand.street /\ street \in 0 .. Showdown
    BY ONLY <2>1, <2>2, <2>3, SMT
  <2>5. acted' \in BOOLEAN
    BY ONLY <2>1
  <2> QED BY <2>1, <2>2, <2>4, <2>5
<1>5. handView = hand
  <2>1. hand' # hand
    BY <1>3, <1>4
  <2> QED BY <2>1 DEF InOrder, chainVars
<1>6. PICK stack \in Nat, put \in Nat, total \in Nat, folded \in BOOLEAN :
        seat = [stack |-> stack, street |-> put, total |-> total, folded |-> folded]
  BY DEF IInv, TypeOK, SeatAccounts
<1>7. PICK left \in {0, put} :
        seat' = [stack |-> stack, street |-> left, total |-> total, folded |-> folded]
  BY <1>6 DEF AdvanceStreet, NextStreet, ToShowdown
<1>8. /\ seat.stack \in Nat /\ seat.street \in Nat /\ seat.total \in Nat
      /\ seat'.stack = seat.stack /\ seat'.total = seat.total
      /\ seat'.street \in {0, seat.street}
      /\ seatView.total \in Nat /\ seatView.street \in Nat
      /\ seat.street <= seat.total
  BY <1>6, <1>7 DEF IInv, TypeOK, SeatAccounts, ChipsAreKept, Kept
<1>9. TypeOK'
  BY <1>1, <1>3, <1>4, <1>7, HandParts DEF IInv, TypeOK, HandAccounts, SeatAccounts
<1>10. /\ hand'.number = hand.number /\ hand'.street = street /\ hand'.dealt = TRUE
       /\ hand'.toAct = turn /\ hand.number \in Nat
  BY <1>3, <1>4, HandParts DEF IInv
<1>11. NobodyAtRest' /\ ChipsAreKept'
  BY <1>1, <1>2, <1>8, <1>10 DEF IInv, NobodyAtRest, ChipsAreKept, Kept
<1>12. ViewsAreOld'
  BY <1>1, <1>4, <1>5, <1>8, <1>10 DEF IInv, ViewsAreOld, Base
<1>13. MovesAreOld'
  <2>1. ASSUME NEW m \in Moves \cup {Nothing}, Past(m)
        PROVE  Past(m)' /\ (m # Nothing => ~(m.number = hand'.number /\ m.street = hand'.street))
    BY <1>4, <1>10, <2>1 DEF Past, Moves
  <2>2. pending \in Moves \cup {Nothing} /\ call.move \in Moves \cup {Nothing}
        /\ (call.move = Nothing => call.move.kind # "call")
    BY DEF IInv, TypeOK, Nothing
  <2>3. Past(pending) /\ Past(call.move)
    BY DEF IInv, MovesAreOld
  <2>4. Past(pending)' /\ Past(call.move)'
    BY <1>1, <2>1, <2>2, <2>3 DEF Past
  <2> QED BY <1>1, <2>1, <2>2, <2>3, <2>4 DEF IInv, MovesAreOld
<1>14. PredictionCameTrue'
  <2>1. Predicted' => Predicted /\ pending.street \in Nat /\ pending.to \in Nat
                      /\ pending.street <= hand.street
    BY <1>1, <1>4, <1>10 DEF Predicted, IInv, TypeOK, Moves, MovesAreOld, Past
  <2>2. Predicted /\ pending.street = hand.street => seat.stack = 0 \/ seat.street >= pending.to
    BY DEF IInv, PredictionCameTrue
  <2>3. Base(seatView) <= Base(seat)
    BY <1>4 DEF IInv, ViewsAreOld
  <2> QED BY <1>1, <1>4, <1>5, <1>8, <1>10, <2>1, <2>2, <2>3 DEF PredictionCameTrue, Base
<1> QED BY <1>9, <1>11, <1>12, <1>13, <1>14 DEF IInv

(* The hand ends, and nothing is predicted of the time between two. *)
LEMMA SettleIInv ==
    ASSUME IInv, SettleHand, UNCHANGED <<viewVars, pending, call, late>> PROVE IInv'
<1>1. UNCHANGED <<handView, seatView, pending, call, late>>
  BY DEF viewVars
<1>2. hand' = [number |-> hand.number, street |-> Showdown, dealt |-> FALSE,
               toAct |-> hand.toAct, bet |-> 0]
  BY HandParts DEF SettleHand, IInv
<1>3. /\ seat' = [stack |-> Stack, street |-> 0, total |-> 0, folded |-> FALSE]
      /\ hand.toAct = "none" /\ acted' = FALSE /\ Stack \in Nat /\ Showdown \in 0 .. Showdown
  BY OverlayAssumption DEF SettleHand
<1>4. /\ hand'.number = hand.number /\ hand'.street = Showdown /\ hand'.dealt = FALSE
      /\ hand'.toAct = hand.toAct
  BY <1>2
<1>5. TypeOK'
  BY <1>1, <1>2, <1>3 DEF IInv, TypeOK, HandAccounts, SeatAccounts
<1>6. NobodyAtRest' /\ ChipsAreKept'
  BY <1>1, <1>3, <1>4 DEF IInv, NobodyAtRest, ChipsAreKept, Kept
<1>7. ViewsAreOld'
  <2>1. handView.street \in 0 .. Showdown
    BY DEF IInv, TypeOK, HandAccounts
  <2> QED BY <1>1, <1>4, <2>1, OverlayAssumption DEF IInv, ViewsAreOld
<1>8. MovesAreOld'
  <2>1. \A m \in Moves : m.street <= Showdown /\ m.street # Showdown
    BY OverlayAssumption DEF Moves
  <2>2. /\ pending \in Moves \cup {Nothing} /\ call.move \in Moves \cup {Nothing}
        /\ call.status # "none" => call.move \in Moves
    BY DEF IInv, TypeOK
  <2>3. Past(pending)' /\ Past(call.move)'
    BY <1>1, <1>4, <2>1, <2>2 DEF IInv, MovesAreOld, Past
  <2> QED BY <1>1, <1>4, <2>1, <2>2, <2>3 DEF IInv, MovesAreOld
<1>9. PredictionCameTrue'
  BY <1>4 DEF PredictionCameTrue, Predicted
<1> QED BY <1>5, <1>6, <1>7, <1>8, <1>9 DEF IInv

(* The next hand starts when the page has seen the last one end. *)
LEMMA StartIInv ==
    ASSUME IInv, StartHand, UNCHANGED <<viewVars, pending, call, late>> PROVE IInv'
<1>1. UNCHANGED <<handView, seatView, pending, call, late>>
  BY DEF viewVars
<1>2. PICK blind \in 0 .. 1, turn \in {"me", "other", "none"} :
        /\ seat' = [stack |-> Stack - blind, street |-> blind, total |-> blind, folded |-> FALSE]
        /\ hand' = [number |-> hand.number + 1, street |-> 0, dealt |-> TRUE,
                    toAct |-> turn, bet |-> 1]
  BY DEF StartHand, ToActNext
<1>3. /\ ~hand.dealt /\ handView = hand /\ seatView = seat /\ acted' = FALSE
      /\ hand.number \in Nat
  BY HandParts DEF StartHand, IInv
<1>4. blind \in Nat /\ Stack - blind \in Nat /\ 0 \in 0 .. Showdown /\ Showdown # 0
  BY OverlayAssumption
<1>5. /\ hand'.number = hand.number + 1 /\ hand'.street = 0 /\ hand'.dealt = TRUE
      /\ seat'.stack = Stack - blind /\ seat'.street = blind /\ seat'.total = blind
  BY <1>2
<1>6. TypeOK'
  <2>1. hand' \in HandAccounts
    BY <1>2, <1>3, <1>4 DEF HandAccounts
  <2>2. seat' \in SeatAccounts
    BY <1>2, <1>4 DEF SeatAccounts
  <2> QED BY <1>1, <1>3, <2>1, <2>2 DEF IInv, TypeOK
<1>7. NobodyAtRest' /\ ChipsAreKept'
  BY <1>1, <1>4, <1>5, OverlayAssumption DEF IInv, NobodyAtRest, ChipsAreKept, Kept
<1>8. ViewsAreOld'
  <2>1. seatView.total = 0 /\ seatView.street = 0
    BY <1>3 DEF IInv, NobodyAtRest, ChipsAreKept, Kept, TypeOK, SeatAccounts
  <2> QED BY <1>1, <1>3, <1>4, <1>5, <2>1 DEF ViewsAreOld, Base
<1>9. ASSUME NEW m \in Moves \cup {Nothing}, Past(m)
      PROVE  Past(m)' /\ (m # Nothing => m.number # hand'.number)
  BY <1>3, <1>5, <1>9 DEF Past, Moves
<1>10. pending \in Moves \cup {Nothing} /\ call.move \in Moves \cup {Nothing}
       /\ (call.move = Nothing => call.move.kind # "call") /\ Past(pending) /\ Past(call.move)
  BY DEF IInv, TypeOK, Nothing, MovesAreOld
<1>11. MovesAreOld'
  <2>1. Past(pending)' /\ Past(call.move)'
    BY <1>1, <1>9, <1>10 DEF Past
  <2> QED BY <1>1, <1>9, <1>10, <2>1 DEF IInv, MovesAreOld
<1>12. PredictionCameTrue'
  BY <1>1, <1>9, <1>10 DEF PredictionCameTrue, Predicted
<1> QED BY <1>6, <1>7, <1>8, <1>11, <1>12 DEF IInv

LEMMA TableIInv ==
    ASSUME IInv, Table PROVE IInv'
<1>1. UNCHANGED <<viewVars, pending, call, late>> /\ InOrder
  BY DEF Table
<1>2. CASE OthersAct \/ TimesOut
  BY <1>1, <1>2, OthersPlay, TimesOutPlays, PlayedIInv DEF IInv
<1> QED BY <1>1, <1>2, AdvanceIInv, SettleIInv, StartIInv DEF Table

-----------------------------------------------------------------------------
(* The page.                                                               *)

(* The move is executed: what was predicted comes true, unless the table   *)
(* has gone on without it, and then it is shown no longer.                 *)
LEMMA ExecuteIInv ==
    ASSUME IInv, Execute PROVE IInv'
<1>1. /\ call.status = "sent" /\ call.move \in Moves /\ UNCHANGED <<viewVars, pending, late>>
      /\ UNCHANGED <<handView, seatView>>
  BY DEF Execute, IInv, TypeOK, viewVars
<1>2. PICK status \in {"done", "refused"} : call' = [call EXCEPT !.status = status]
  BY DEF Execute
<1>3. call' = [status |-> status, move |-> call.move]
  BY <1>1, <1>2 DEF IInv, TypeOK
<1>4. CASE Accepts(call.move)
  <2>1. Takes(call.move) /\ InOrder /\ status = "done"
    BY <1>2, <1>3, <1>4 DEF Execute
  <2>2. Played /\ hand' # hand /\ seat' = MovedSeat(call.move)
    BY <1>1, <1>4, <2>1, TakesPlays DEF IInv
  <2>3. handView = hand
    BY <2>1, <2>2 DEF InOrder, chainVars
  <2>4. NobodyAtRest' /\ ChipsAreKept' /\ ViewsAreOld'
    BY <1>1, <2>2, PlayedKeeps
  <2>5. TypeOK'
    BY <1>1, <1>3, <2>1, <2>2 DEF IInv, TypeOK, Played, Plays
  <2>6. MovesAreOld'
    <3>1. Past(pending) /\ Past(call.move)
      BY DEF IInv, MovesAreOld
    <3>2. Past(pending)' /\ Past(call.move)'
      BY <1>1, <1>3, <2>2, <3>1 DEF Past, Played
    <3> QED BY <1>1, <1>3, <2>1, <3>2 DEF MovesAreOld
  <2>7. ASSUME Predicted', pending.street = hand'.street
        PROVE  /\ seat'.stack = 0 \/ seat'.street >= pending.to
               /\ seat'.stack = 0 \/ Base(seatView) + pending.to <= seat'.total
    <3>1. pending = call.move /\ pending \in Moves /\ pending.kind \in Money /\ pending.to \in Nat
          /\ pending.number = hand.number /\ pending.street = hand.street
      BY <1>1, <2>2, <2>7 DEF IInv, MovesAreOld, Predicted, Played, Moves
    <3>2. pending.kind = "call" => pending.to <= hand.bet
      BY <1>1, <3>1 DEF IInv, MovesAreOld
    <3>3. seat'.stack = 0 \/ seat'.street >= pending.to
      BY <1>4, <2>2, <3>1, <3>2, MoveIs DEF IInv
    <3>4. Base(seatView) <= Base(seat) /\ Base(seat') = Base(seat)
      BY <2>2 DEF IInv, ViewsAreOld, Played, Plays
    <3>5. /\ seat'.street \in Nat /\ seat'.total \in Nat /\ seat.street \in Nat
          /\ seat.total \in Nat /\ seatView.street \in Nat /\ seatView.total \in Nat
      BY <2>2 DEF IInv, TypeOK, SeatAccounts, Played, Plays
    <3> QED BY <3>1, <3>3, <3>4, <3>5 DEF Base
  <2>8. PredictionCameTrue'
    BY <1>1, <2>2, <2>3, <2>7 DEF PredictionCameTrue, Played, Base
  <2> QED BY <2>4, <2>5, <2>6, <2>8 DEF IInv
<1>5. CASE ~Accepts(call.move)
  <2>1. UNCHANGED <<hand, seat, acted>> /\ status = "refused"
    BY <1>2, <1>3, <1>5 DEF Execute, chainVars
  <2>2. TypeOK'
    BY <1>1, <1>3, <2>1 DEF IInv, TypeOK
  <2>3. NobodyAtRest' /\ ChipsAreKept' /\ ViewsAreOld'
    BY <1>1, <2>1 DEF IInv, NobodyAtRest, ChipsAreKept, ViewsAreOld, Kept, Base
  <2>4. MovesAreOld' /\ PredictionCameTrue'
    BY <1>1, <1>3, <2>1 DEF IInv, MovesAreOld, PredictionCameTrue, Predicted, Past
  <2> QED BY <2>2, <2>3, <2>4 DEF IInv
<1> QED BY <1>4, <1>5

(* A move made on what is shown. *)
LEMMA PressIInv ==
    ASSUME IInv, Press PROVE IInv'
<1>1. UNCHANGED <<hand, seat, acted, handView, seatView, late>>
  BY DEF Press, chainVars, viewVars
<1>2. PICK move \in LegalActions(handView, ShownSeat) :
        pending' = move /\ call' = [status |-> "sent", move |-> move]
  BY DEF Press
<1>3. ShownSeat \in SeatAccounts /\ Kept(ShownSeat)
  BY ShownIs DEF IInv, TypeOK, ChipsAreKept, ShownSeat, ShowPending, Shown
<1>4. /\ handView.bet \in Nat /\ handView.number \in Nat /\ handView.street \in Nat
      /\ ShownSeat.stack \in Nat /\ ShownSeat.street \in Nat
      /\ hand.bet \in Nat
  BY <1>3, OverlayAssumption DEF IInv, TypeOK, HandAccounts, SeatAccounts
<1>5. /\ move \in Moves /\ move # Nothing
      /\ move.number = handView.number /\ move.street = handView.street
      /\ move.kind = "call" => move.to <= handView.bet
  <2> DEFINE h == handView
             s == ShownSeat
             owed == NonNegative(h.bet - s.street)
  <2>1. PICK kind, to :
          /\ move = [kind |-> kind, to |-> to, number |-> h.number, street |-> h.street]
          /\ \/ kind = "fold" /\ to = 0
             \/ kind = "check" /\ to = s.street
             \/ kind = "call" /\ owed # 0 /\ to = s.street + Smaller(owed, s.stack)
             \/ kind \in {"allin", "raise"} /\ to \in h.bet + 1 .. s.street + s.stack
    BY DEF LegalActions
  <2>2. to \in Nat /\ kind \in {"fold", "check"} \cup Money
        /\ (kind = "call" => to <= h.bet)
    BY <1>4, <2>1 DEF NonNegative, Smaller, Money
  <2>3. /\ move.kind = kind /\ move.to = to /\ move.number = h.number /\ move.street = h.street
    BY <2>1
  <2>4. move \in Moves
    <3>1. h.street \in 0 .. Showdown /\ h.street # Showdown
      BY DEF Press, MyTurnIsShown, IInv, NobodyAtRest, TypeOK, HandAccounts
    <3>2. h.street \in 0 .. Showdown - 1
      BY <3>1, OverlayAssumption
    <3> QED BY <1>4, <2>1, <2>2, <3>2 DEF Moves
  <2>5. move # Nothing
    BY <2>2, <2>3 DEF Nothing, Money
  <2> QED BY <2>2, <2>3, <2>4, <2>5
<1>6. call'.status = "sent" /\ call'.move = move
  BY <1>2
<1>7. TypeOK'
  BY <1>1, <1>2, <1>5 DEF IInv, TypeOK
<1>8. NobodyAtRest' /\ ChipsAreKept' /\ ViewsAreOld'
  BY <1>1 DEF IInv, NobodyAtRest, ChipsAreKept, ViewsAreOld, Kept, Base
<1>9. MovesAreOld'
  <2>1. Past(pending)' /\ Past(call.move)'
    BY <1>1, <1>2, <1>5, <1>6 DEF Past, IInv, ViewsAreOld
  <2>2. move.to \in Nat
    BY <1>5 DEF Moves
  <2>3. (move.number = hand.number /\ move.street = hand.street) => handView.bet <= hand.bet
    BY <1>5, OverlayAssumption DEF IInv, ViewsAreOld, Moves
  <2>4. (move.kind = "call" /\ move.number = hand.number /\ move.street = hand.street)
           => move.to <= hand.bet
    BY <1>4, <1>5, <2>2, <2>3
  <2> QED BY <1>1, <1>2, <1>6, <2>1, <2>4 DEF MovesAreOld
<1>10. PredictionCameTrue'
  BY <1>6 DEF PredictionCameTrue, Predicted
<1> QED BY <1>7, <1>8, <1>9, <1>10 DEF IInv

(* An answer, none, and the timer. *)
LEMMA ForgetIInv ==
    ASSUME IInv, Answered \/ GiveUp \/ Expire PROVE IInv'
<1>1. UNCHANGED <<hand, seat, acted, handView, seatView>>
  BY DEF Answered, GiveUp, Expire, chainVars, viewVars
<1>2. /\ pending' = Nothing \/ pending' = pending
      /\ \/ call' = NoCall
         \/ call' = call /\ pending' = Nothing
      /\ pending' = pending => call.status \notin {"sent", "refused"} \/ pending = Nothing
      /\ late' \subseteq late \cup {call.move} /\ (late' # late => call.status = "sent")
  BY DEF Answered, GiveUp, Expire
<1>3. NoCall = [status |-> "none", move |-> Nothing] /\ NoCall.status = "none"
      /\ NoCall.move = Nothing
  BY DEF NoCall
<1>4. TypeOK'
  BY <1>1, <1>2, <1>3 DEF IInv, TypeOK
<1>5. NobodyAtRest' /\ ChipsAreKept' /\ ViewsAreOld'
  BY <1>1 DEF IInv, NobodyAtRest, ChipsAreKept, ViewsAreOld, Kept, Base
<1>6. MovesAreOld'
  BY <1>1, <1>2, <1>3 DEF IInv, MovesAreOld, Past
<1>7. PredictionCameTrue'
  <2>1. Predicted' => Predicted /\ pending' = pending
    BY <1>1, <1>2, <1>3 DEF Predicted, IInv, TypeOK
  <2> QED BY <1>1, <2>1 DEF IInv, PredictionCameTrue, Base
<1> QED BY <1>4, <1>5, <1>6, <1>7 DEF IInv

(* A push: the view is what the account is. *)
LEMMA SeeIInv ==
    ASSUME IInv, SeeHand \/ SeeSeat PROVE IInv'
<1>1. /\ UNCHANGED <<hand, seat, acted, call, late>> /\ pending' \in {pending, Nothing}
      /\ \/ handView' = hand /\ seatView' = seatView
         \/ handView' = handView /\ seatView' = seat /\ handView.street = hand.street
  BY DEF SeeHand, SeeSeat, Retire, chainVars
<1>2. /\ seat.street \in Nat /\ seat.total \in Nat /\ seatView.street \in Nat
      /\ seatView.total \in Nat /\ hand.bet \in Nat /\ hand.street \in Nat /\ hand.number \in Nat
  BY OverlayAssumption DEF IInv, TypeOK, SeatAccounts, HandAccounts
<1>3. TypeOK'
  BY <1>1 DEF IInv, TypeOK
<1>4. NobodyAtRest' /\ ChipsAreKept'
  BY <1>1 DEF IInv, NobodyAtRest, ChipsAreKept, Kept
<1>5. ViewsAreOld'
  BY <1>1, <1>2 DEF IInv, ViewsAreOld, Base
<1>6. MovesAreOld'
  BY <1>1 DEF IInv, MovesAreOld, Past
<1>7. PredictionCameTrue'
  <2>1. Predicted' => Predicted /\ pending' = pending /\ pending.to \in Nat
    BY <1>1 DEF Predicted, IInv, TypeOK, Moves
  <2>2. ASSUME Predicted PROVE Base(seatView) <= Base(seat)
    BY <2>2 DEF Predicted, IInv, ViewsAreOld
  <2>3. CASE handView' = hand /\ seatView' = seatView
    BY <1>1, <1>2, <2>1, <2>2, <2>3 DEF IInv, PredictionCameTrue, Base
  <2>4. CASE handView' = handView /\ seatView' = seat /\ handView.street = hand.street
    BY <1>1, <1>2, <2>1, <2>2, <2>4 DEF IInv, PredictionCameTrue, Base
  <2> QED BY <1>1, <2>3, <2>4
<1> QED BY <1>3, <1>4, <1>5, <1>6, <1>7 DEF IInv

-----------------------------------------------------------------------------
(* The theorems.                                                           *)

LEMMA InitIInv == Init => IInv
<1> SUFFICES ASSUME Init PROVE IInv
  OBVIOUS
<1>1. Stack \in Nat /\ Showdown \in 0 .. Showdown /\ Showdown \in Nat
  BY OverlayAssumption
<1>2. hand \in HandAccounts /\ seat \in SeatAccounts
  BY <1>1 DEF Init, HandAccounts, SeatAccounts
<1>3. TypeOK
  BY <1>2 DEF Init, TypeOK, NoCall
<1>4. NobodyAtRest /\ ChipsAreKept /\ ViewsAreOld
  BY <1>1 DEF Init, NobodyAtRest, ChipsAreKept, Kept, ViewsAreOld, Base
<1>5. MovesAreOld /\ PredictionCameTrue
  BY DEF Init, MovesAreOld, Past, NoCall, PredictionCameTrue, Predicted
<1> QED BY <1>3, <1>4, <1>5 DEF IInv

LEMMA NextIInv == IInv /\ [Next]_vars => IInv'
<1> SUFFICES ASSUME IInv, [Next]_vars PROVE IInv'
  OBVIOUS
<1>1. CASE UNCHANGED vars
  BY <1>1 DEF vars, chainVars, viewVars, IInv, TypeOK, NobodyAtRest, ChipsAreKept, Kept,
              ViewsAreOld, Base, MovesAreOld, Past, PredictionCameTrue, Predicted
<1> QED BY <1>1, TableIInv, LateIInv, PressIInv, ExecuteIInv, ForgetIInv, SeeIInv DEF Next

(* The invariant: whatever is out of date is of the past, and a prediction *)
(* nobody has refused is true.                                             *)
THEOREM OverlayInvariant == Spec => []IInv
BY InitIInv, NextIInv, PTL DEF Spec

(* The page never shows more chips in front of the player than are in the  *)
(* hand, but while the transaction is on its way or refused: no bet counts *)
(* twice, whichever account is pushed first (optimistic.ts:32-36).         *)
THEOREM ShownOnceCorrect == Spec => []ShownOnce
<1>1. IInv => ShownOnce
  <2> SUFFICES ASSUME IInv, hand.dealt, handView.number = hand.number,
                      call.status \notin {"sent", "refused"}
               PROVE  ShownSeat.total <= seat.total
    BY DEF ShownOnce
  <2>1. ShownSeat = Shown(pending, handView, seatView)
    BY DEF ShownSeat, ShowPending, Shown
  <2>2. /\ ShownSeat \in SeatAccounts /\ Kept(ShownSeat)
        /\ \/ ShownSeat.total = seatView.total
           \/ /\ pending # Nothing /\ pending.kind \in Money
              /\ pending.number = handView.number /\ pending.street = handView.street
              /\ ShownSeat.total <= Base(seatView) + pending.to
    <3>1. /\ seatView \in SeatAccounts /\ handView \in HandAccounts
          /\ pending \in Moves \cup {Nothing} /\ Kept(seatView)
      BY DEF IInv, TypeOK, ChipsAreKept
    <3> QED BY <2>1, <3>1, ShownIs
  <2>3. /\ ShownSeat.total \in Nat /\ ShownSeat.stack \in Nat /\ seat.stack \in Nat
        /\ seat.total \in Nat /\ seatView.total \in Nat /\ seatView.street \in Nat
        /\ ShownSeat.stack + ShownSeat.total = Stack /\ seat.stack + seat.total = Stack
        /\ seatView.total <= seat.total /\ Stack \in Nat
    BY <2>2, OverlayAssumption DEF IInv, TypeOK, SeatAccounts, ChipsAreKept, Kept, ViewsAreOld
  <2>4. CASE ShownSeat.total = seatView.total
    BY <2>3, <2>4
  <2>5. CASE ShownSeat.total # seatView.total
    <3>1. Predicted /\ pending.to \in Nat
      BY <2>2, <2>5 DEF Predicted, IInv, TypeOK, Moves
    <3>2. seat.stack = 0 \/ Base(seatView) + pending.to <= seat.total
      BY <2>2, <2>5, <3>1 DEF IInv, PredictionCameTrue
    <3> QED BY <2>2, <2>3, <2>5, <3>1, <3>2 DEF Base
  <2> QED BY <2>4, <2>5
<1> QED BY <1>1, OverlayInvariant, PTL

(* A push never takes chips back that are really in: the two accounts may  *)
(* arrive in either order (optimistic.ts:23-29).                           *)
THEOREM NeverDipsCorrect == Spec => NeverDips
<1>1. ASSUME IInv, IInv', [Next]_vars,
             viewVars' # viewVars, handView'.street = handView.street,
             hand.dealt, handView.number = hand.number, ShownSeat.total <= seat.total
      PROVE  ShownSeat'.total >= ShownSeat.total
  <2>1. /\ ShownSeat = Shown(pending, handView, seatView)
        /\ ShownSeat' = Shown(pending', handView', seatView')
    BY DEF ShownSeat, ShowPending, Shown
  <2>2. SeeHand \/ SeeSeat
    BY <1>1 DEF Next, Table, LateLands, Press, Execute, Answered, GiveUp, Expire, vars
  <2>3. /\ seatView \in SeatAccounts /\ Kept(seatView) /\ seat \in SeatAccounts /\ Kept(seat)
        /\ pending \in Moves \cup {Nothing} /\ pending' \in Moves \cup {Nothing}
        /\ handView \in HandAccounts /\ hand \in HandAccounts
    BY <1>1 DEF IInv, TypeOK, ChipsAreKept
  <2>4. ShownSeat \in SeatAccounts /\ ShownSeat.total \in Nat
    BY <2>1, <2>3, ShownIs DEF SeatAccounts
  <2>5. CASE SeeSeat
    <3>1. ShownSeat' \in SeatAccounts /\ ShownSeat'.total >= seat.total
      BY <2>1, <2>3, <2>5, ShownIs DEF SeeSeat
    <3>2. ShownSeat'.total \in Nat /\ seat.total \in Nat
      BY <2>3, <3>1 DEF SeatAccounts
    <3> QED BY <1>1, <2>4, <3>1, <3>2
  <2>6. CASE SeeHand
    <3>1. /\ handView' = hand /\ seatView' = seatView
          /\ hand.street = handView.street /\ hand.number = handView.number
      BY <1>1, <2>6 DEF SeeHand
    <3>2. CASE pending.kind \in Money /\ pending # Nothing
      <4>1. PendingApplies(pending, handView, seatView) <=> PendingApplies(pending, hand, seatView)
        BY <3>1, <3>2 DEF PendingApplies, Money
      <4>2. pending' = IF PendingApplies(pending, hand, seatView) THEN pending ELSE Nothing
        BY <2>6 DEF SeeHand, Retire
      <4>3. Shown(pending', hand, seatView) = Shown(pending, handView, seatView)
        BY <4>1, <4>2 DEF Shown, PendingApplies
      <4> QED BY <2>1, <2>4, <3>1, <4>3
    <3>3. CASE ~(pending.kind \in Money /\ pending # Nothing)
      <4>1. ShownSeat.total = seatView.total
        BY <2>1, <2>3, <3>3, ShownIs
      <4>2. ShownSeat'.total >= seatView.total
        BY <2>1, <2>3, <3>1, ShownIs
      <4> QED BY <4>1, <4>2
    <3> QED BY <3>2, <3>3
  <2> QED BY <2>2, <2>5, <2>6
<1>2. IInv /\ IInv' /\ [Next]_vars
        => [(/\ viewVars' # viewVars /\ handView'.street = handView.street
             /\ hand.dealt /\ handView.number = hand.number
             /\ ShownSeat.total <= seat.total)
                => ShownSeat'.total >= ShownSeat.total]_vars
  BY <1>1
<1> QED BY <1>2, OverlayInvariant, PTL DEF Spec, NeverDips
=============================================================================
