------------------------------ MODULE Overlay ------------------------------
(***************************************************************************)
(* A player's own action, shown before the chain confirms it               *)
(* (app/src/lib/optimistic.ts, the table page that presses and retires it, *)
(* the action bar that offers it). Of the table there is what the hand     *)
(* account and the player's own seat account say; each reaches the page on *)
(* a subscription of its own. What the other players do is any of what     *)
(* module Betting lets them do.                                            *)
(*                                                                         *)
(* Assumed: the hand's push arrives before the table changes again, and no  *)
(* later push of the seat overtakes that of a new street; the seat's may   *)
(* stay out for as long, up to the next hand, which a shuffle separates.   *)
(***************************************************************************)
EXTENDS Integers, FiniteSets

CONSTANTS
    Stack,      \* chips the player starts a hand with
    MaxBet,     \* bound: what the others bet
    Showdown,   \* the street after the last one with betting
    MaxHands,   \* bound: hands played
    MaxLate     \* bound: transactions that are given up

ASSUME OverlayAssumption ==
    /\ {Stack, MaxBet, Showdown} \subseteq Nat \ {0}
    /\ {MaxHands, MaxLate} \subseteq Nat

VARIABLES
    hand,       \* the Hand account
    seat,       \* the player's Seat account
    acted,      \* the player has acted on this street
    handView,   \* what the page has of the two
    seatView,
    pending,    \* the action that is shown, or Nothing
    call,       \* the transaction under way: its move and "none", "sent", "done" or "refused"
    late        \* moves given up by the page that may still land

chainVars == <<hand, seat, acted>>
viewVars == <<handView, seatView>>
vars == <<chainVars, viewVars, pending, call, late>>

Nothing == [kind |-> "nothing", to |-> 0, number |-> 0, street |-> 0]
Smaller(a, b) == IF a < b THEN a ELSE b
NoCall == [status |-> "none", move |-> Nothing]
NonNegative(n) == IF n > 0 THEN n ELSE 0

-----------------------------------------------------------------------------
(* The table: what others do, and the player's transactions.               *)

InPlay(s) == ~s.folded /\ s.stack > 0

(* Who may be to act next, given the player's seat and the bet to match.   *)
ToActNext(s, bet, hasActed) ==
    {turn \in {"me", "other", "none"} :
        /\ turn = "me" => InPlay(s) /\ (s.street < bet \/ ~hasActed)
        /\ turn = "none" => ~InPlay(s) \/ (s.street = bet /\ hasActed)}

StartHand ==
    /\ ~hand.dealt /\ hand.number < MaxHands /\ handView = hand /\ seatView = seat
    /\ \E blind \in 0 .. 1 :
           /\ seat' = [stack |-> Stack - blind, street |-> blind, total |-> blind, folded |-> FALSE]
           /\ \E turn \in ToActNext(seat', 1, FALSE) :
                  hand' = [number |-> hand.number + 1, street |-> 0, dealt |-> TRUE,
                           toAct |-> turn, bet |-> 1]
    /\ acted' = FALSE

(* Nobody is to act, too, when the last of the others folds.               *)
OthersAct ==
    /\ hand.toAct = "other"
    /\ \E bet \in hand.bet .. MaxBet, turn \in {"me", "other", "none"} :
           /\ turn \in ToActNext(seat, bet, acted) \/ (turn = "none" /\ bet = hand.bet)
           /\ hand' = [hand EXCEPT !.bet = bet, !.toAct = turn]
    /\ UNCHANGED <<seat, acted>>

(* Puts chips in, up to a street total. *)
Commit(s, to) ==
    LET added == Smaller(NonNegative(to - s.street), s.stack)
    IN  [s EXCEPT !.stack = @ - added, !.street = @ + added, !.total = @ + added]

(* The player's seat acts: by its own transaction or by a timeout. *)
Acts(after, bet) ==
    /\ seat' = after /\ acted' = TRUE
    /\ \E turn \in ToActNext(after, bet, TRUE) \ {"me"} :
           hand' = [hand EXCEPT !.bet = bet, !.toAct = turn]

TimesOut ==
    /\ hand.toAct = "me"
    /\ Acts(IF seat.street = hand.bet THEN seat ELSE [seat EXCEPT !.folded = TRUE], hand.bet)

(* A new street, on which nobody is to act when fewer than two can.        *)
NextStreet ==
    /\ seat.street = hand.bet \/ ~InPlay(seat)
    /\ seat' = [seat EXCEPT !.street = 0] /\ acted' = FALSE
    /\ \E turn \in {"me", "other", "none"} :
           /\ turn = "me" => InPlay(seat)
           /\ hand.street + 1 = Showdown => turn = "none"
           /\ hand' = [hand EXCEPT !.street = @ + 1, !.bet = 0, !.toAct = turn]

(* The showdown of a hand that is over leaves the bets where they are.     *)
ToShowdown == hand' = [hand EXCEPT !.street = Showdown] /\ UNCHANGED <<seat, acted>>

AdvanceStreet ==
    /\ hand.dealt /\ hand.toAct = "none" /\ hand.street < Showdown
    /\ NextStreet \/ ToShowdown

(* A hand that is over is settled on any street. *)
SettleHand ==
    /\ hand.dealt /\ hand.toAct = "none"
    /\ hand' = [hand EXCEPT !.dealt = FALSE, !.street = Showdown, !.bet = 0]
    /\ seat' = [stack |-> Stack, street |-> 0, total |-> 0, folded |-> FALSE]
    /\ acted' = FALSE

(* The program takes a move for whatever turn it finds.                    *)
Accepts(move) ==
    /\ hand.toAct = "me"
    /\ CASE move.kind = "fold" -> TRUE
         [] move.kind = "check" -> seat.street = hand.bet
         [] move.kind = "call" -> seat.street < hand.bet
         [] move.kind = "allin" -> TRUE
         [] move.kind = "raise" -> move.to > hand.bet /\ move.to - seat.street <= seat.stack

MovedSeat(move) ==
    CASE move.kind = "fold" -> [seat EXCEPT !.folded = TRUE]
      [] move.kind = "check" -> seat
      [] move.kind = "call" -> Commit(seat, hand.bet)
      [] move.kind = "allin" -> Commit(seat, seat.street + seat.stack)
      [] move.kind = "raise" -> Commit(seat, move.to)

Takes(move) ==
    LET after == MovedSeat(move)
    IN  Acts(after, IF after.street > hand.bet THEN after.street ELSE hand.bet)

(* Nothing changes before the page has seen the hand's last change.        *)
InOrder == chainVars' # chainVars => handView = hand

Table ==
    /\ StartHand \/ OthersAct \/ TimesOut \/ AdvanceStreet \/ SettleHand
    /\ InOrder /\ UNCHANGED <<viewVars, pending, call, late>>

-----------------------------------------------------------------------------
(* The page.                                                               *)

(* Mutant: the overlay outlives its street. *)
AppliesOnAnyStreet(p, h, s) ==
    /\ p # Nothing /\ p.number = h.number
    /\ CASE p.kind = "fold" -> ~s.folded
         [] p.kind = "check" -> h.toAct = "me"
         [] OTHER -> s.street < p.to /\ s.stack > 0

(* Mutant: the overlay retires when the turn moves on. *)
AppliesWhileToAct(p, h, s) ==
    p # Nothing /\ p.number = h.number /\ p.street = h.street /\ h.toAct = "me"

(* Mutant: a fold is waited for like a check. *)
AppliesOnItsOwn(p, h, s) ==
    /\ p # Nothing /\ p.number = h.number /\ p.street = h.street
    /\ p.kind \in {"fold", "check"} \/ (s.street < p.to /\ s.stack > 0)

PendingApplies(p, h, s) ==
    /\ p # Nothing /\ p.number = h.number /\ p.street = h.street
    /\ CASE p.kind = "fold" -> ~s.folded
         [] p.kind = "check" -> h.toAct = "me"
         [] OTHER -> s.street < p.to /\ s.stack > 0

ApplyPending(s, p) ==
    CASE p.kind = "fold" -> [s EXCEPT !.folded = TRUE]
      [] p.kind = "check" -> s
      [] OTHER -> Commit(s, p.to)

ShowPending == PendingApplies(pending, handView, seatView)
ShownSeat == IF ShowPending THEN ApplyPending(seatView, pending) ELSE seatView
MyTurnIsShown == handView.toAct = "me" /\ ~ShowPending

(* What the action bar offers on a turn; the smallest raise is by one.     *)
LegalActions(h, s) ==
    LET maxRaiseTo == s.street + s.stack
        owed == NonNegative(h.bet - s.street)
        Move(kind, to) == [kind |-> kind, to |-> to, number |-> h.number, street |-> h.street]
    IN  {Move("fold", 0)}
        \cup (IF owed = 0 THEN {Move("check", s.street)}
              ELSE {Move("call", s.street + Smaller(owed, s.stack))})
        \cup {Move(IF to = maxRaiseTo THEN "allin" ELSE "raise", to) : to \in h.bet + 1 .. maxRaiseTo}

Init ==
    /\ hand = [number |-> 0, street |-> 0, dealt |-> FALSE, toAct |-> "none", bet |-> 0]
    /\ seat = [stack |-> Stack, street |-> 0, total |-> 0, folded |-> FALSE]
    /\ acted = FALSE
    /\ handView = hand /\ seatView = seat
    /\ pending = Nothing /\ call = NoCall /\ late = {}

(* onAct: the bar is locked while a transaction is under way. *)
Press ==
    /\ call = NoCall /\ MyTurnIsShown /\ InPlay(ShownSeat)
    /\ \E move \in LegalActions(handView, ShownSeat) :
           pending' = move /\ call' = [status |-> "sent", move |-> move]
    /\ UNCHANGED <<chainVars, viewVars, late>>

(* The rollup executes the transaction. *)
Execute ==
    /\ call.status = "sent"
    /\ IF Accepts(call.move)
       THEN Takes(call.move) /\ InOrder /\ call' = [call EXCEPT !.status = "done"]
       ELSE call' = [call EXCEPT !.status = "refused"] /\ UNCHANGED chainVars
    /\ UNCHANGED <<viewVars, pending, late>>

(* Its answer: a refusal shows the truth at once, a success waits for it. *)
Answered ==
    /\ call.status \in {"done", "refused"}
    /\ call' = NoCall
    /\ pending' = IF call.status = "refused" THEN Nothing ELSE pending
    /\ UNCHANGED <<chainVars, viewVars, late>>

(* No answer comes: for the page it failed, and it may still land. *)
GiveUp ==
    /\ call.status = "sent" /\ Cardinality(late) < MaxLate
    /\ late' = late \cup {call.move}
    /\ call' = NoCall /\ pending' = Nothing
    /\ UNCHANGED <<chainVars, viewVars>>

LateLands ==
    /\ \E move \in late : Accepts(move) /\ Takes(move)
    /\ InOrder
    /\ UNCHANGED <<viewVars, pending, call, late>>

(* The effect that runs on every change of what it depends on. *)
Retire(h, s) == pending' = IF PendingApplies(pending, h, s) THEN pending ELSE Nothing

SeeHand ==
    /\ handView # hand
    /\ handView' = hand /\ Retire(hand, seatView)
    /\ UNCHANGED <<chainVars, seatView, call, late>>

SeeSeat ==
    /\ seatView # seat /\ handView.street = hand.street
    /\ seatView' = seat /\ Retire(handView, seat)
    /\ UNCHANGED <<chainVars, handView, call, late>>

(* Eight seconds after the press. *)
Expire ==
    /\ pending # Nothing
    /\ pending' = Nothing
    /\ UNCHANGED <<chainVars, viewVars, call, late>>

Next ==
    \/ Table \/ LateLands
    \/ Press \/ Execute \/ Answered \/ GiveUp
    \/ SeeHand \/ SeeSeat \/ Expire

(* Pushes arrive, and a transaction is executed or refused and answered.   *)
(* Nobody has to act, and the timer is not counted on.                     *)
Fairness ==
    /\ WF_vars(SeeHand) /\ WF_vars(SeeSeat)
    /\ WF_vars(Execute) /\ WF_vars(Answered)

Spec == Init /\ [][Next]_vars /\ Fairness

-----------------------------------------------------------------------------
(* Properties.                                                             *)

(* A bet is shown once: what the page shows in front of the player is never *)
(* more than the player has in the hand, unless the transaction is on its   *)
(* way or has been refused without the page knowing (optimistic.ts:32-36).  *)
ShownOnce ==
    (hand.dealt /\ handView.number = hand.number /\ call.status \notin {"sent", "refused"})
        => ShownSeat.total <= seat.total

(* The chips shown never go back down when a push arrives, in whichever     *)
(* order the hand's and the seat's of one street come, once they are really *)
(* in (optimistic.ts:23-29).                                                *)
NeverDips ==
    [][ (/\ viewVars' # viewVars /\ handView'.street = handView.street
         /\ hand.dealt /\ handView.number = hand.number
         /\ ShownSeat.total <= seat.total)
            => ShownSeat'.total >= ShownSeat.total ]_vars

(* The overlay goes away by itself, without its timer: nothing the page     *)
(* shows stays a prediction (optimistic.ts:31-33).                          *)
RetiresItself == pending # Nothing ~> pending = Nothing
=============================================================================
