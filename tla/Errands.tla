------------------------------ MODULE Errands ------------------------------
(***************************************************************************)
(* What a player presses (app/src/hooks/use-table-actions.ts): starting    *)
(* and pausing the table, cashing out, buying back in, deleting it. Each   *)
(* is a row of transactions, most of them instructions of module Custody,  *)
(* any of which may fail, and every browser runs its own row; meanwhile    *)
(* the cranks of all of them secure seats, draw shuffles and deal, and     *)
(* accounts land. Salts are in or they are not, and of a hand there is     *)
(* only that it runs: nobody bets.                                         *)
(***************************************************************************)
EXTENDS Custody

CONSTANTS
    Clients,      \* players with a browser open at the table
    MaxErrands,   \* bound: presses
    MaxFaults,    \* bound: sends and reads that fail, waits that run out
    MaxDraws      \* bound: shuffles

(* Everybody can have a chair of its own at the start. *)
ASSUME ErrandAssumption ==
    /\ Clients \subseteq Players
    /\ \E f \in [Seats -> Players] : \A i, j \in Seats : f[i] = f[j] => i = j
    /\ MaxErrands \in Nat /\ MaxFaults \in Nat /\ MaxDraws \in Nat

VARIABLES
    saltsIn, shuffle, late, draws, \* Hand: two salts in, shuffle_state, deadline past
    secured,      \* seats with cards_secured
    inAir,        \* delegations given up that may still land: seats, NoSeat for the core
    row,          \* where each client stands in its errand
    calm,         \* history: the table was whole at the press, nobody else did anything since
    pressed,      \* history: the buttons pressed so far
    errands, faults

deckVars == <<saltsIn, shuffle, late, draws>>
boundVars == <<pressed, errands, faults>>
errandVars == <<vars, deckVars, secured, inAir, row, calm, boundVars>>

(* The button pressed, the step it is at, the seats the present loop has   *)
(* to go, startTable's delegatedNow, the store's leavingSeat.              *)
Resting == [goal |-> "none", step |-> "idle", todo |-> {}, moved |-> {}, leaving |-> NoSeat]

Delegated == coreLayer # "base"
SeatAt(p) == IF SeatOf(p) = {} THEN NoSeat ELSE CHOOSE i \in SeatOf(p) : TRUE
Seated == {i \in Seats : seatMap[i] # Nobody}
Funded == {i \in Seats : occupant[i] # Nobody /\ stack[i] > 0}
AllHome == coreLayer = "base" /\ \A i \in Seats : seatLayer[i] = "base"
Least(S) == CHOOSE i \in S : \A j \in S : i <= j

-----------------------------------------------------------------------------
At(p, step) == row[p].step = step

(* p goes on, and the calm of the others is over. *)
Becomes(p, r) ==
    /\ row' = [row EXCEPT ![p] = r]
    /\ calm' = [q \in Clients |-> q = p /\ calm[q] /\ r # Resting]

To(p, step) == Becomes(p, [row[p] EXCEPT !.step = step])
Loop(p, step, seats) == Becomes(p, [row[p] EXCEPT !.step = step, !.todo = seats])
End(p) == Becomes(p, Resting)

Fault == faults < MaxFaults /\ faults' = faults + 1
NoFault == UNCHANGED faults

(* A send inside try and catch: it lands, the program refuses it, or it is *)
(* lost on the way.                                                        *)
Attempt(allowed, Send, unchanged) ==
    \/ allowed /\ Send /\ NoFault
    \/ ~allowed /\ UNCHANGED unchanged /\ NoFault
    \/ allowed /\ UNCHANGED unchanged /\ Fault

TrySweep == Attempt(CoreOnBase /\ rakeAccrued > 0 /\ Has(Treasury), SweepRake, vars)

Undelegable(i) == seatLayer[i] = "rollup" /\ Waiting
TryUndelegate(i) == Attempt(Undelegable(i), UndelegateSeat(i), vars)

(* assert_deck_publishable (module Shuffle): a draw keeps the core. *)
CoreMayLeave == coreLayer = "rollup" /\ Waiting /\ shuffle # "drawn"

Press(p, button, first) ==
    /\ At(p, "idle")
    /\ errands < MaxErrands /\ errands' = errands + 1
    /\ pressed' = pressed \cup {button}
    /\ row' = [row EXCEPT ![p] =
                  [goal |-> button, step |-> first,
                   todo |-> IF button = "delete" THEN Seated ELSE {}, moved |-> {},
                   leaving |-> IF button \in {"cashOut", "rebuy"} THEN SeatAt(p) ELSE NoSeat]]
    /\ calm' = [q \in Clients |-> q = p /\ (AllHome \/ AllOnRollup)]
    /\ NoFault /\ UNCHANGED <<vars, deckVars, secured, inAir>>

-----------------------------------------------------------------------------
(* startTable *)

PressStart(p) ==
    /\ ~Delegated /\ SeatOf(p) # {} /\ Cardinality(Seated) >= 2
    /\ Press(p, "start", "core")

(* The core goes first. Without it nothing has moved and there is nothing  *)
(* to undo, though a send that was given up may still land.                *)
StartCore(p) ==
    /\ At(p, "core")
    /\ \/ Delegated /\ UNCHANGED <<vars, inAir>> /\ NoFault /\ To(p, "look")
       \/ DelegateCore /\ UNCHANGED inAir /\ NoFault /\ To(p, "look")
       \/ /\ inAir' = inAir \/ (~Delegated /\ inAir' = inAir \cup {NoSeat})
          /\ UNCHANGED vars /\ Fault /\ End(p)
       \/ ~Delegated /\ ~tableExists /\ UNCHANGED <<vars, inAir>> /\ NoFault /\ End(p)
    /\ UNCHANGED <<deckVars, secured, pressed, errands>>

(* One batched read says which seats are still to go; if it fails, the     *)
(* core comes down again.                                                  *)
StartLook(p) ==
    /\ At(p, "look")
    /\ \/ Loop(p, "delegating", {i \in Seats : SeatOnBase(i)}) /\ NoFault
       \/ Loop(p, "undoing", {}) /\ Fault
    /\ UNCHANGED <<vars, deckVars, secured, inAir, pressed, errands>>

(* Mutant: a send the program refuses has failed, whatever refused it. *)
OnlyAsSent(answer, i) == answer # "lost" /\ SeatOnBase(i)

(* Mutant: what the sender heard is taken for what happened. *)
AsReported(answer, i) == answer = "confirmed"

(* A failed send is followed by a look at the account. *)
WentUp(answer, i) == answer = "confirmed" \/ seatLayer'[i] # "base"

AlreadyUp(i) == ~SeatOnBase(i)

(* The seats go together and all are waited for. The answer to a send may  *)
(* be lost, or the send; or sendSolana stops waiting, after 45 seconds,    *)
(* for one that may still land.                                            *)
StartSeat(p, i) == \E answer \in {"confirmed", "unheard", "lost", "late"} :
    /\ row[p].step \in {"delegating", "failing"}
    /\ i \in row[p].todo
    /\ IF answer \in {"confirmed", "unheard"} /\ ~AlreadyUp(i)
       THEN DelegateSeat(i) ELSE UNCHANGED vars
    /\ IF answer = "confirmed" THEN NoFault ELSE Fault
    /\ inAir' = IF answer = "late" THEN inAir \cup {i} ELSE inAir
    /\ Becomes(p, [row[p] EXCEPT !.todo = @ \ {i},
                                 !.moved = IF WentUp(answer, i) THEN @ \cup {i} ELSE @,
                                 !.step = IF WentUp(answer, i) THEN @ ELSE "failing"])
    /\ UNCHANGED <<deckVars, secured, pressed, errands>>

(* With all seats up, the rollup is asked until it serves them, or a hand  *)
(* runs, or forty times; with one missing, what went up comes down.        *)
StartWait(p) ==
    /\ row[p].todo = {}
    /\ \/ At(p, "failing") /\ Loop(p, "undoing", row[p].moved) /\ NoFault
       \/ /\ At(p, "delegating") /\ Waiting
          /\ IF AllOnRollup THEN Fault ELSE NoFault
          /\ Loop(p, "undoing", row[p].moved)
       \/ At(p, "delegating") /\ Waiting /\ AllOnRollup /\ NoFault /\ To(p, "deck")
       \/ At(p, "delegating") /\ ~Waiting /\ NoFault /\ End(p)
    /\ UNCHANGED <<vars, deckVars, secured, inAir, pressed, errands>>

(* rollBack: the seats in order, then the core. *)
UndoSeat(p) ==
    /\ At(p, "undoing") /\ row[p].todo # {}
    /\ LET i == Least(row[p].todo) IN
           TryUndelegate(i) /\ Loop(p, "undoing", row[p].todo \ {i})
    /\ UNCHANGED <<deckVars, secured, inAir, pressed, errands>>

UndoCore(p) ==
    /\ At(p, "undoing") /\ row[p].todo = {}
    /\ Attempt(CoreMayLeave, UndelegateCore, vars)
    /\ End(p)
    /\ UNCHANGED <<deckVars, secured, inAir, pressed, errands>>

(* secure_deck, tried four times. Its failure ends the start, with the     *)
(* table as it is.                                                         *)
SecureDeck(p) ==
    /\ At(p, "deck")
    /\ \/ /\ coreLayer = "rollup" /\ NoFault
          /\ Loop(p, "secure", IF row[p].goal = "start" THEN Seated
                               ELSE Funded \ {row[p].leaving})
       \/ coreLayer # "rollup" /\ NoFault /\ End(p)
       \/ coreLayer = "rollup" /\ Fault /\ End(p)
    /\ UNCHANGED <<vars, deckVars, secured, inAir, pressed, errands>>

Securable(i) == seatLayer[i] = "rollup" /\ occupant[i] # Nobody

SecureSeat(p) ==
    /\ At(p, "secure")
    /\ \/ /\ row[p].todo = {}
          /\ End(p) /\ NoFault /\ UNCHANGED secured
       \/ /\ row[p].todo # {}
          /\ LET i == Least(row[p].todo) IN
                 /\ Attempt(Securable(i), secured' = secured \cup {i}, secured)
                 /\ Loop(p, "secure", row[p].todo \ {i})
    /\ UNCHANGED <<vars, deckVars, inAir, pressed, errands>>

-----------------------------------------------------------------------------
(* pauseTable, by the creator or inside a cash-out or a rebuy *)

PressPause(p) == p = Creator /\ Delegated /\ Waiting /\ Press(p, "pause", "release")

(* release_hole on the player's own seat. *)
Release(p, i, to) ==
    /\ Attempt(i \in Seats /\ seatLayer[i] = "rollup" /\ i \notin dealtIn,
               secured' = secured \ {i}, secured)
    /\ To(p, to)
    /\ UNCHANGED <<vars, deckVars, inAir, pressed, errands>>

PauseRelease(p) == At(p, "release") /\ Release(p, SeatAt(p), "clear")

(* reset_shuffle *)
Stale == coreLayer = "rollup" /\ Waiting /\ shuffle # "idle" /\ late

Reset == shuffle' = "idle" /\ late' = FALSE /\ UNCHANGED <<saltsIn, draws>>

(* Where a pause that is over leads: a cash-out and a rebuy look whether   *)
(* the table is home.                                                      *)
PauseOver(p) ==
    IF row[p].goal # "pause" /\ ~Delegated THEN To(p, "leave") ELSE End(p)

(* A shuffle must be cleared before anything moves: reset when its         *)
(* deadline is past, and waited for, forty times. A hand that cannot be    *)
(* read has none.                                                          *)
PauseClear(p) ==
    /\ At(p, "clear")
    /\ \/ Stale /\ Reset /\ NoFault /\ To(p, "clear")
       \/ /\ IF coreLayer = "rollup" /\ shuffle # "idle" THEN Fault ELSE NoFault
          /\ To(p, "read") /\ UNCHANGED deckVars
       \/ shuffle # "idle" /\ NoFault /\ PauseOver(p) /\ UNCHANGED deckVars
    /\ UNCHANGED <<vars, secured, inAir, pressed, errands>>

(* One look at the base layer says which seats are to come back; without   *)
(* it the pause is over.                                                   *)
PauseLook(p) ==
    /\ At(p, "read")
    /\ \/ Loop(p, "unseat", {i \in Seats : seatLayer[i] # "base"}) /\ NoFault
       \/ PauseOver(p) /\ Fault
    /\ UNCHANGED <<vars, deckVars, secured, inAir, pressed, errands>>

PauseSeat(p) ==
    /\ At(p, "unseat") /\ row[p].todo # {}
    /\ LET i == Least(row[p].todo) IN
           TryUndelegate(i) /\ Loop(p, "unseat", row[p].todo \ {i})
    /\ UNCHANGED <<deckVars, secured, inAir, pressed, errands>>

PauseCore(p) ==
    /\ At(p, "unseat") /\ row[p].todo = {}
    /\ \/ CoreMayLeave /\ UndelegateCore /\ NoFault /\ To(p, "landing")
       \/ ~CoreMayLeave /\ UNCHANGED vars /\ NoFault /\ PauseOver(p)
       \/ CoreMayLeave /\ UNCHANGED vars /\ Fault /\ PauseOver(p)
    /\ UNCHANGED <<deckVars, secured, inAir, pressed, errands>>

(* Mutant: the table is home, so everything is. *)
TableInTransit == coreLayer = "leaving"

InTransit == coreLayer = "leaving" \/ \E i \in Seats : seatLayer[i] = "leaving"

(* Sixty looks; then on, whatever has not come. One that fails ends it. *)
PauseLanding(p) ==
    /\ At(p, "landing")
    /\ \/ (IF InTransit THEN Fault ELSE NoFault) /\ To(p, "sweep")
       \/ Fault /\ PauseOver(p)
    /\ UNCHANGED <<vars, deckVars, secured, inAir, pressed, errands>>

PauseSweep(p) ==
    /\ At(p, "sweep")
    /\ TrySweep
    /\ PauseOver(p)
    /\ UNCHANGED <<deckVars, secured, inAir, pressed, errands>>

-----------------------------------------------------------------------------
(* cashOut and rebuy *)

PressToLeave(p, button) ==
    /\ SeatOf(p) # {}
    /\ Press(p, button, IF Delegated THEN "sitOut" ELSE "leave")

SitOut(p) == At(p, "sitOut") /\ Release(p, row[p].leaving, "handEnd")

(* Until the hand has ended, or three minutes. *)
AwaitHand(p) ==
    /\ At(p, "handEnd")
    /\ (Waiting /\ NoFault) \/ (~Waiting /\ Fault)
    /\ To(p, "release")
    /\ UNCHANGED <<vars, deckVars, secured, inAir, pressed, errands>>

MayStandUp(p, i) == i \in Seats /\ CoreOnBase /\ SeatOnBase(i) /\ Waiting /\ occupant[i] = p

(* A rebuy stops when leaving fails; a cash-out goes on. *)
Leave(p) ==
    LET i == row[p].leaving IN
    /\ At(p, "leave")
    /\ \/ /\ MayStandUp(p, i) /\ VacateOwnSeat(i) /\ secured' = secured \ {i} /\ NoFault
          /\ To(p, IF row[p].goal = "rebuy" THEN "sit" ELSE "sweepHome")
       \/ /\ UNCHANGED <<vars, secured>>
          /\ IF MayStandUp(p, i) THEN Fault ELSE NoFault
          /\ IF row[p].goal = "rebuy" THEN End(p) ELSE To(p, "sweepHome")
    /\ UNCHANGED <<deckVars, inAir, pressed, errands>>

(* The table goes back up for two players that remain. *)
Resume(p, playing, r) ==
    IF Cardinality(playing) >= 2 THEN Becomes(p, [r EXCEPT !.step = "core"]) ELSE End(p)

SweepHome(p) ==
    /\ At(p, "sweepHome")
    /\ TrySweep
    /\ Resume(p, Funded \ {row[p].leaving}, row[p])
    /\ UNCHANGED <<deckVars, secured, inAir, pressed, errands>>

MaySit(p, i) ==
    /\ i \in Seats /\ CoreOnBase /\ SeatOnBase(i)
    /\ seatMap[i] = Nobody /\ SeatOf(p) = {} /\ CanPay(p, MinBuyIn)

(* The flag is dropped before the table is resumed, for this seat plays. *)
SitBack(p) ==
    LET i == row[p].leaving IN
    /\ At(p, "sit")
    /\ \/ /\ MaySit(p, i) /\ TakeSeat(p, i) /\ secured' = secured \ {i} /\ NoFault
          /\ Resume(p, Funded \cup {i}, [row[p] EXCEPT !.leaving = NoSeat])
       \/ /\ UNCHANGED <<vars, secured>>
          /\ IF MaySit(p, i) THEN Fault ELSE NoFault
          /\ End(p)
    /\ UNCHANGED <<deckVars, inAir, pressed, errands>>

-----------------------------------------------------------------------------
(* deleteTable: everybody the page shows is sent home, the rake goes to    *)
(* the house, the accounts are closed. The first seat that fails ends it.  *)

PressDelete(p) ==
    /\ p = Creator /\ ~Delegated /\ tableExists
    /\ Press(p, "delete", "clearing")

MayVacate(i) == CoreOnBase /\ SeatOnBase(i) /\ Waiting /\ occupant[i] # Nobody

ClearSeat(p) ==
    /\ At(p, "clearing") /\ row[p].todo # {}
    /\ LET i == Least(row[p].todo) IN
           \/ /\ MayVacate(i) /\ VacateSeat(p, i) /\ secured' = secured \ {i} /\ NoFault
              /\ Loop(p, "clearing", row[p].todo \ {i})
           \/ /\ UNCHANGED <<vars, secured>>
              /\ IF MayVacate(i) THEN Fault ELSE NoFault
              /\ End(p)
    /\ UNCHANGED <<deckVars, inAir, pressed, errands>>

DeleteSweep(p) ==
    /\ At(p, "clearing") /\ row[p].todo = {}
    /\ TrySweep
    /\ To(p, "closing")
    /\ UNCHANGED <<deckVars, secured, inAir, pressed, errands>>

DeleteClose(p) ==
    /\ At(p, "closing")
    /\ Attempt(CoreOnBase /\ Emptied /\ \A i \in Seats : SeatOnBase(i), CloseTable(p), vars)
    /\ End(p)
    /\ UNCHANGED <<deckVars, secured, inAir, pressed, errands>>

-----------------------------------------------------------------------------
(* Everybody's cranks, the oracle and the layers.                          *)

Crank == calm' = [q \in Clients |-> FALSE] /\ UNCHANGED <<row, boundVars>>

(* Any client secures any seat but the one it is leaving itself. *)
CrankSecure(i) == \E p \in Clients :
    /\ SeatOf(p) # {} /\ row[p].leaving # i
    /\ Waiting /\ Securable(i) /\ i \notin secured
    /\ secured' = secured \cup {i}
    /\ Crank /\ UNCHANGED <<vars, deckVars, inAir>>

(* Two seats commit and reveal. *)
CrankSalts ==
    /\ Waiting /\ coreLayer = "rollup" /\ shuffle = "idle" /\ ~saltsIn
    /\ Cardinality({i \in Seated : seatLayer[i] = "rollup"}) >= 2
    /\ saltsIn' = TRUE
    /\ Crank /\ UNCHANGED <<vars, shuffle, late, draws, secured, inAir>>

(* request_shuffle names only core accounts. *)
CrankRequest ==
    /\ Waiting /\ coreLayer = "rollup" /\ shuffle = "idle" /\ saltsIn
    /\ Cardinality(Funded) >= 2
    /\ draws < MaxDraws /\ draws' = draws + 1
    /\ shuffle' = "asked" /\ late' = FALSE
    /\ Crank /\ UNCHANGED <<vars, saltsIn, secured, inAir>>

CrankReset == Stale /\ Reset /\ Crank /\ UNCHANGED <<vars, secured, inAir>>

CrankDeal ==
    /\ shuffle = "drawn"
    /\ dealtIn' = Funded \cap secured /\ StartHand
    /\ Crank /\ UNCHANGED <<deckVars, secured, inAir>>

CrankSettle ==
    /\ SettleHand
    /\ shuffle' = "idle" /\ late' = FALSE /\ saltsIn' = FALSE
    /\ Crank /\ UNCHANGED <<draws, secured, inAir>>

OracleAnswers ==
    /\ coreLayer = "rollup" /\ shuffle = "asked"
    /\ shuffle' = "drawn"
    /\ Crank /\ UNCHANGED <<vars, saltsIn, late, draws, secured, inAir>>

DeadlinePasses ==
    /\ Waiting /\ shuffle # "idle" /\ ~late /\ late' = TRUE
    /\ UNCHANGED <<vars, saltsIn, shuffle, draws, secured, inAir, row, calm, boundVars>>

Lands ==
    /\ LandCore \/ \E i \in Seats : LandSeat(i)
    /\ UNCHANGED <<deckVars, secured, inAir, row, calm, boundVars>>

LateLanding(i) ==
    /\ i \in inAir /\ inAir' = inAir \ {i}
    /\ IF SeatOnBase(i) THEN DelegateSeat(i) ELSE UNCHANGED vars
    /\ Crank /\ UNCHANGED <<deckVars, secured>>

LateCore ==
    /\ NoSeat \in inAir /\ inAir' = inAir \ {NoSeat}
    /\ IF CoreOnBase THEN DelegateCore ELSE UNCHANGED vars
    /\ Crank /\ UNCHANGED <<deckVars, secured>>

-----------------------------------------------------------------------------
(* Everybody is in a chair, with rake from earlier hands, and the table is *)
(* home.                                                                   *)
ErrandInit ==
    /\ usdc = [p \in Players |-> 0]
    /\ vault = MaxSeats * Wallet + 1 /\ chips = [p \in Players |-> 0]
    /\ tableExists = TRUE
    /\ seatMap = CHOOSE f \in [Seats -> Players] : \A i, j \in Seats : f[i] = f[j] => i = j
    /\ tableState = "Waiting" /\ handNumber = 0 /\ rakeAccrued = 1 /\ dealtIn = {}
    /\ emptySince = "no" /\ stale = FALSE
    /\ seatExists = [i \in Seats |-> TRUE] /\ occupant = seatMap
    /\ stack = [i \in Seats |-> Wallet] /\ committed = [i \in Seats |-> 0]
    /\ coreLayer = "base" /\ seatLayer = [i \in Seats |-> "base"] /\ trips = 0
    /\ forfeited = 0
    /\ saltsIn = FALSE /\ shuffle = "idle" /\ late = FALSE /\ draws = 0
    /\ secured = {} /\ inAir = {}
    /\ row = [p \in Clients |-> Resting] /\ calm = [p \in Clients |-> FALSE]
    /\ pressed = {} /\ errands = 0 /\ faults = 0

GoesOn(p) ==
    \/ StartCore(p) \/ StartLook(p) \/ StartWait(p) \/ UndoSeat(p) \/ UndoCore(p)
    \/ SecureDeck(p) \/ SecureSeat(p) \/ \E i \in Seats : StartSeat(p, i)
    \/ PauseRelease(p) \/ PauseClear(p) \/ PauseLook(p) \/ PauseSeat(p) \/ PauseCore(p)
    \/ PauseLanding(p) \/ PauseSweep(p)
    \/ SitOut(p) \/ AwaitHand(p) \/ Leave(p) \/ SweepHome(p) \/ SitBack(p)
    \/ ClearSeat(p) \/ DeleteSweep(p) \/ DeleteClose(p)

ErrandNext ==
    \/ CrankSalts \/ CrankRequest \/ CrankReset \/ CrankDeal \/ CrankSettle \/ OracleAnswers
    \/ DeadlinePasses \/ Lands \/ LateCore
    \/ \E i \in Seats : CrankSecure(i) \/ LateLanding(i)
    \/ \E p \in Clients :
           \/ PressStart(p) \/ PressPause(p) \/ PressToLeave(p, "cashOut")
           \/ PressToLeave(p, "rebuy") \/ PressDelete(p)
           \/ GoesOn(p)

ErrandSpec == ErrandInit /\ [][ErrandNext]_errandVars

-----------------------------------------------------------------------------
(* Properties.                                                             *)

(* A start nobody interferes with, one of whose sends or answers is lost,  *)
(* has the whole table on the rollup or nothing of what it moved:          *)
(* "On any failure every account that made it to the rollup is sent        *)
(* straight back" (use-table-actions.ts:544).                              *)
StartIsAllOrNothing == [][
    \A p \in Clients : calm[p] /\ row'[p] = Resting /\ row[p].step \in {"undoing", "secure"} =>
        \/ AllOnRollup'
        \/ coreLayer' # "rollup" /\ \A i \in Seats : seatLayer'[i] # "rollup"]_errandVars

(* Starts do not undo each other: with no other button pressed and no      *)
(* fault, everybody who starts the table, at once or one after the other   *)
(* and with all cranks at work, ends with the whole table on the rollup.   *)
StartsAgree == [][
    \A p \in Clients : row[p] # Resting /\ row'[p] = Resting /\ pressed' = {"start"} /\ faults' = 0 =>
        AllOnRollup']_errandVars

(* Without faults, an errand nobody interferes with does what its button   *)
(* says, unless a shuffle made it give up before it moved anything: the    *)
(* table comes home whole, the rake is swept, the player is out or has its *)
(* chair back (unless it cannot pay for it, which leaves the table home),  *)
(* and two that remain with chips have their table back.                   *)
TableIsBack == IF Cardinality(Funded') >= 2 THEN AllOnRollup' ELSE AllHome'

Outcome(p) ==
    CASE row[p].goal = "start"   -> AllOnRollup'
      [] row[p].goal = "pause"   -> AllHome' /\ rakeAccrued' = 0
      [] row[p].goal = "cashOut" -> SeatOf(p)' = {} /\ rakeAccrued' = 0 /\ TableIsBack
      [] row[p].goal = "rebuy"   -> IF SeatOf(p)' # {} THEN TableIsBack
                                    ELSE AllHome' /\ ~CanPay(p, MinBuyIn)'
      [] row[p].goal = "delete"  -> ~tableExists'

ErrandsSucceed == [][
    \A p \in Clients :
        calm[p] /\ faults' = 0 /\ row'[p] = Resting /\ row[p].step # "clear" => Outcome(p)
    ]_errandVars
=============================================================================
