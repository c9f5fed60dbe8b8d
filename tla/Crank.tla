------------------------------- MODULE Crank -------------------------------
(***************************************************************************)
(* The clients that keep a table moving (app/src/lib/crank.ts, run by      *)
(* hooks/use-crank.ts): there is no server, every seated client watches    *)
(* the accounts and sends whatever is next. One client is followed, Me: a  *)
(* pass of it reads each account as it is or as it was a step earlier, and *)
(* sends its calls while others move the table on. The others' clients may *)
(* make any call that is permitted, at any time, or none; those in Present *)
(* keep at their own salts.                                                *)
(*                                                                         *)
(* The program is here as far as the crank looks at it: Betting and Hand   *)
(* have what a street and a settlement do, Shuffle what the salts and the  *)
(* oracle do, and History, extended here, what is recorded.                *)
(*                                                                         *)
(* Assumed: no salt of Me is under way for a whole hand (KeepsUp), and the *)
(* salt it committed is the one it reveals; Shuffle is about the rest.     *)
(***************************************************************************)
EXTENDS History

CONSTANTS
    NumSeats,     \* occupied seats, 1 .. NumSeats
    Me,           \* the seat whose client is followed
    Present,      \* the seats whose clients stay
    Unsecured,    \* the seats whose hole account names somebody else at first
    Showdown,     \* the street after the last one with betting
    CommitEvery,  \* COMMIT_EVERY
    MaxTurns,     \* bound: actions a street takes
    MaxFaults     \* bound: answers, calls and pages lost

Seats == 1 .. NumSeats

ASSUME CrankAssumption ==
    /\ NumSeats \in Nat /\ Me \in Seats /\ Present \subseteq Seats \ {Me}
    /\ Showdown \in Nat \ {0} /\ CommitEvery \in Nat \ {0} /\ MaxTurns \in Nat /\ MaxFaults \in Nat

VARIABLES
    shuffle,   \* Hand::shuffle_state: "idle" or "requested"
    draw,      \* the oracle's answer: "none", "asked", "lost" or "here" on the deck
    salt,      \* Seat::salt_state
    secured,   \* seats whose hole account names their occupant
    funded,    \* seats with chips
    dealtIn,   \* Hand::dealt_in
    street,    \* Hand::street
    owing,     \* actions the street still waits for; none: to_act is NO_SEAT
    alone,     \* all but one have folded
    stamp,     \* the hand number on the hole accounts
    late,      \* Hand::deadline has passed
    before,    \* the accounts as they were before the last step
    me,        \* Me's page: the calls left of its pass and what it remembers
    faults

dealVars == <<shuffle, draw, salt, secured, funded, dealtIn, stamp>>
betVars == <<street, owing, alone>>
tableVars == <<handVars, dealVars, betVars, late>>
vars == <<tableVars, recordVars, before, me, faults>>

Revealed == {s \in Seats : salt[s] = "revealed"}
SomeoneToAct == owing > 0

(* The accounts a page subscribes to.                                      *)
HandAccount == [number |-> number, shuffle |-> shuffle, mask |-> Cardinality(Revealed),
                street |-> street, turn |-> SomeoneToAct, dealt |-> dealtIn # {},
                in |-> Me \in dealtIn]
SeatAccounts == [salt |-> salt, secured |-> secured, funded |-> Cardinality(funded)]
Now == [table |-> tableState, hand |-> HandAccount, seats |-> SeatAccounts, hole |-> stamp]

-----------------------------------------------------------------------------
(* The program: what a call needs, and what it does.                       *)

MayCommitSalt(s) ==
    number < MaxHands /\ shuffle = "idle" /\ (Revealed = {} \/ salt[s] = "none")
MayRevealSalt(s) == shuffle = "idle" /\ salt[s] = "committed"
MayReset == Waiting /\ shuffle = "requested" /\ late
MayRequest == shuffle = "idle" /\ Cardinality(Revealed) >= 2
MayStart == Waiting /\ draw = "here" /\ Cardinality(funded \cap secured) >= 2
MayDeal == number > 0
MayAdvance == ~Waiting /\ ~SomeoneToAct /\ street < Showdown
MaySettle == ~Waiting /\ ~SomeoneToAct /\ (alone \/ (street = Showdown /\ stamp = number))
MayTimeOut == ~Waiting /\ SomeoneToAct /\ late
MayAbandon == ~Waiting /\ late

(* A salt under way is for the next hand. *)
KeepsUp == \A k \in 1 .. Len(me.calls) :
    me.calls[k].name \in {"commit_salt", "reveal_salt"} => me.calls[k].hand = number

SetSalt(s, state) ==
    /\ salt' = [salt EXCEPT ![s] = state]
    /\ UNCHANGED <<historyVars, shuffle, draw, secured, funded, dealtIn, stamp, betVars, late>>

SetDraw(answer) ==
    /\ draw' = answer
    /\ UNCHANGED <<historyVars, shuffle, salt, secured, funded, dealtIn, stamp, betVars, late>>

SecureHole(s) ==
    /\ secured' = secured \cup {s}
    /\ UNCHANGED <<historyVars, shuffle, draw, salt, funded, dealtIn, stamp, betVars, late>>

ResetShuffle ==
    /\ shuffle' = "idle" /\ draw' = "none"
    /\ UNCHANGED <<historyVars, salt, secured, funded, dealtIn, stamp, betVars, late>>

RequestShuffle ==
    /\ shuffle' = "requested" /\ draw' = "asked" /\ late' = FALSE
    /\ UNCHANGED <<historyVars, salt, secured, funded, dealtIn, stamp, betVars>>

(* A seat whose permission is not its own sits out, and loses its chips.   *)
Start ==
    /\ StartHand
    /\ funded' = funded \cap secured /\ dealtIn' = funded'
    /\ street' = 0 /\ owing' = MaxTurns /\ alone' = FALSE /\ late' = FALSE
    /\ UNCHANGED <<shuffle, draw, salt, secured, stamp>>

DealHoleCards ==
    /\ stamp' = number
    /\ UNCHANGED <<historyVars, shuffle, draw, salt, secured, funded, dealtIn, betVars, late>>

(* A player acts, or is acted for: the street goes on, closes, or the hand *)
(* is over.                                                                *)
Turn ==
    /\ \/ owing' = owing - 1 /\ UNCHANGED alone
       \/ owing' = 0 /\ alone' = TRUE
    /\ late' = FALSE
    /\ UNCHANGED <<historyVars, dealVars, street>>

(* The next street waits for its players, or for none in a run-out; a hand *)
(* only one is left in goes to the showdown.                               *)
AdvanceStreet ==
    /\ street' = IF alone THEN Showdown ELSE street + 1
    /\ owing' \in IF street' < Showdown THEN {0, MaxTurns} ELSE {0}
    /\ late' = FALSE
    /\ UNCHANGED <<historyVars, dealVars, alone>>

(* What settling and abandoning have in common.                            *)
CloseHand ==
    /\ shuffle' = "idle" /\ draw' = "none" /\ salt' = [s \in Seats |-> "none"]
    /\ dealtIn' = {} /\ street' = Showdown /\ owing' = 0 /\ alone' = FALSE
    /\ UNCHANGED <<secured, stamp, late>>

Abandon == KeepsUp /\ AbandonHand /\ CloseHand /\ UNCHANGED funded

(* Players who lost everything are out.                                    *)
Settle ==
    /\ KeepsUp /\ SettleHand /\ CloseHand
    /\ \E busted \in SUBSET dealtIn : busted # dealtIn /\ funded' = funded \ busted

-----------------------------------------------------------------------------
(* Me's pass over what it has seen: v the view.                            *)

Call(v, name, s) == [name |-> name, seat |-> s, hand |-> v.hand.number]
If(condition, calls) == IF condition THEN calls ELSE <<>>

(* A seat that is not dealt in cannot see the stamp and remembers.         *)
NeedsDeal(v) ==
    /\ v.hand.dealt
    /\ IF v.hand.in THEN v.hole # v.hand.number ELSE v.hand.number \notin me.dealt

AllRevealersDone(v) == \A s \in Seats : v.seats.salt[s] # "committed"

(* Mutant: a committed salt is waited for, however long it takes. *)
WaitForAll(v) == AllRevealersDone(v) /\ me.quiet # "no"

(* Wait for a committed salt, though not forever. *)
SaltsAreIn(v) == me.quiet = "abandoned" \/ (me.quiet = "yes" /\ AllRevealersDone(v))

MySalt(v) ==
    IF v.table # "Waiting" \/ v.hand.shuffle # "idle" THEN <<>>
    ELSE If(v.seats.salt[Me] = "none", <<Call(v, "commit_salt", Me)>>)
         \o If(v.seats.salt[Me] = "committed", <<Call(v, "reveal_salt", Me)>>)

Secures(v) ==
    LET missing == IF v.table = "Waiting" THEN Seats \ v.seats.secured ELSE {}
        Place(s) == Cardinality({t \in missing : t <= s})
    IN  [k \in 1 .. Cardinality(missing) |->
            Call(v, "secure_hole", CHOOSE s \in missing : Place(s) = k)]

(* Mutant: the deadline is not looked at. *)
AnyTime(v) == TRUE

(* A deadline of an earlier hand or street has passed as well.             *)
LooksLate(v) == late \/ v.hand # HandAccount

(* The first of these that applies. *)
BetweenHands(v) ==
    IF v.hand.shuffle # "idle" /\ LooksLate(v) THEN <<Call(v, "reset_shuffle", Me)>>
    ELSE IF v.hand.shuffle = "idle"
         THEN If(v.seats.funded >= 2 /\ v.hand.mask >= 2 /\ SaltsAreIn(v),
                 <<Call(v, "request_shuffle", Me)>>)
         ELSE <<Call(v, "start_hand", Me)>>

DuringHand(v) ==
    IF NeedsDeal(v) THEN <<Call(v, "deal_hole_cards", Me)>>
    ELSE IF ~v.hand.turn
         THEN <<Call(v, IF v.hand.street < Showdown THEN "advance_street" ELSE "settle_hand", Me)>>
    ELSE If(LooksLate(v), <<Call(v, "force_timeout", Me)>>)

(* Mutant: a batch is one hand more. *)
AfterTheBatch(v) ==
    If(v.table = "Waiting" /\ v.hand.number - me.polled > CommitEvery,
       <<Call(v, "commit_results", Me)>>)

(* maybeCommit, on the view of the same pass. *)
Results(v) ==
    If(v.table = "Waiting" /\ v.hand.number > 0 /\ v.hand.number - me.polled >= CommitEvery,
       <<Call(v, "commit_results", Me)>>)

Pass(v) ==
    (IF MySalt(v) # <<>> THEN MySalt(v)
     ELSE Secures(v) \o (IF v.table = "Waiting" THEN BetweenHands(v) ELSE DuringHand(v)))
    \o Results(v)

-----------------------------------------------------------------------------
(* The steps of the table, whoever makes them.                             *)

Permits(c) ==
    CASE c.name = "commit_salt" -> MayCommitSalt(c.seat)
      [] c.name = "reveal_salt" -> MayRevealSalt(c.seat)
      [] c.name = "reset_shuffle" -> MayReset
      [] c.name = "request_shuffle" -> MayRequest
      [] c.name = "start_hand" -> MayStart
      [] c.name = "deal_hole_cards" -> MayDeal
      [] c.name = "advance_street" -> MayAdvance
      [] c.name = "settle_hand" -> MaySettle
      [] c.name = "force_timeout" -> MayTimeOut
      [] OTHER -> TRUE

Shared ==
    \/ MayReset /\ ResetShuffle
    \/ MayRequest /\ RequestShuffle
    \/ MayStart /\ Start
    \/ MayDeal /\ DealHoleCards
    \/ MayAdvance /\ AdvanceStreet
    \/ MaySettle /\ Settle
    \/ MayTimeOut /\ Turn

Does(c) ==
    CASE c.name = "commit_salt" -> SetSalt(c.seat, "committed")
      [] c.name = "reveal_salt" -> SetSalt(c.seat, "revealed")
      [] c.name = "secure_hole" -> SecureHole(c.seat)
      [] c.name = "reset_shuffle" -> ResetShuffle
      [] c.name = "request_shuffle" -> RequestShuffle
      [] c.name = "start_hand" -> Start
      [] c.name = "deal_hole_cards" -> DealHoleCards
      [] c.name = "advance_street" -> AdvanceStreet
      [] c.name = "settle_hand" -> Settle
      [] c.name = "force_timeout" -> Turn
      [] OTHER -> CommitResults /\ UNCHANGED <<dealVars, betVars, late>>

(* The rest of the table: its players, the other clients, the oracle, the  *)
(* clock. A step of it restarts the wait for salts if it moves them.       *)

Fingerprint == <<Cardinality(Revealed), salt>>
Noticed == IF Fingerprint' = Fingerprint THEN me ELSE [me EXCEPT !.quiet = "no"]
Moves == before' = Now
Aside == Moves /\ me' = Noticed /\ UNCHANGED faults

OtherSalt(s) ==
    /\ s # Me
    /\ \/ MayCommitSalt(s) /\ salt[s] = "none" /\ SetSalt(s, "committed")
       \/ MayRevealSalt(s) /\ SetSalt(s, "revealed")
    /\ Aside

Somebody ==
    /\ \/ Shared
       \/ \E s \in Seats \ secured : SecureHole(s)
       \/ MayAbandon /\ Abandon
    /\ Aside

PlayerActs == ~Waiting /\ SomeoneToAct /\ Turn /\ Aside

OracleAnswers == draw = "asked" /\ SetDraw("here") /\ Aside

(* SHUFFLE_TIMEOUT_SECS are long enough for an answer that comes and a     *)
(* hand that can start.                                                    *)
DrawIsStuck == draw = "lost" \/ (draw = "here" /\ ~MayStart)

DeadlinePasses ==
    /\ ~late /\ late' = TRUE
    /\ ~Waiting \/ DrawIsStuck
    /\ UNCHANGED <<historyVars, dealVars, betVars>> /\ Aside

Arrival == CommitLands /\ UNCHANGED <<tableVars, before, me, faults>>

ActionRuns ==
    /\ \E a \in actions : RunAction(a)
    /\ UNCHANGED <<tableVars, before, me, faults>>

-----------------------------------------------------------------------------
(* Me's client.                                                            *)

(* What it may have seen: of each account, what it is or what it was.      *)
Views ==
    LET moved == {a \in {"table", "hand", "seats", "hole"} : before[a] # Now[a]}
    IN  {[a \in DOMAIN before |-> IF a \in old THEN before[a] ELSE Now[a]] : old \in SUBSET moved}

(* The last update of every account has arrived. *)
See == before # Now /\ before' = Now /\ UNCHANGED <<tableVars, recordVars, me, faults>>

(* SALT_QUIET_MS, then SALT_ABANDON_MS, since the salts last moved. *)
Quieten ==
    /\ me.quiet # "abandoned" /\ Waiting /\ shuffle = "idle" /\ Cardinality(Revealed) >= 2
    /\ me' = [me EXCEPT !.quiet = IF @ = "no" THEN "yes" ELSE "abandoned"]
    /\ UNCHANGED <<tableVars, recordVars, before, faults>>

Tick ==
    /\ me.calls = <<>>
    /\ \E calls \in {Pass(v) : v \in Views} \ {<<>>} : me' = [me EXCEPT !.calls = calls]
    /\ UNCHANGED <<tableVars, recordVars, before, faults>>

Remembers(c) == IF c.name = "deal_hole_cards" THEN {c.hand} ELSE {}

Answered(c) == me' = [Noticed EXCEPT !.calls = Tail(@), !.dealt = @ \cup Remembers(c)]
Failed == me' = [Noticed EXCEPT !.calls = Tail(@)]

(* The next call of the pass is executed, or refused.                      *)
Send ==
    /\ me.calls # <<>>
    /\ LET c == Head(me.calls)
       IN  IF Permits(c) THEN Does(c) /\ Answered(c) /\ Moves
           ELSE UNCHANGED <<tableVars, recordVars, before>> /\ Failed
    /\ UNCHANGED faults

(* It is lost on its way, or its answer is.                                *)
LoseCall ==
    /\ me.calls # <<>> /\ faults < MaxFaults /\ faults' = faults + 1
    /\ LET c == Head(me.calls)
       IN  \/ Permits(c) /\ Does(c) /\ Moves
           \/ UNCHANGED <<tableVars, recordVars, before>>
    /\ Failed

(* What the base layer has recorded, as of the last poll.                  *)
Poll ==
    /\ me.polled # recorded.last
    /\ me' = [me EXCEPT !.polled = recorded.last]
    /\ UNCHANGED <<tableVars, recordVars, before, faults>>

Opened == [calls |-> <<>>, dealt |-> {}, polled |-> 0, quiet |-> "no"]

Reload ==
    /\ faults < MaxFaults /\ faults' = faults + 1
    /\ me' = Opened /\ before' = Now
    /\ UNCHANGED <<tableVars, recordVars>>

Init ==
    /\ HistoryInit
    /\ shuffle = "idle" /\ draw = "none" /\ salt = [s \in Seats |-> "none"]
    /\ secured = Seats \ Unsecured /\ funded = Seats /\ dealtIn = {} /\ stamp = 0
    /\ street = 0 /\ owing = 0 /\ alone = FALSE /\ late = FALSE
    /\ before = Now /\ me = Opened /\ faults = 0

Table ==
    \/ \E s \in Seats : OtherSalt(s)
    \/ Somebody \/ PlayerActs \/ OracleAnswers \/ DeadlinePasses \/ Arrival \/ ActionRuns

OracleLost ==
    /\ faults < MaxFaults /\ faults' = faults + 1
    /\ draw = "asked" /\ SetDraw("lost") /\ Moves /\ UNCHANGED me

Client == See \/ Quieten \/ Tick \/ Send \/ Poll

Next == Table \/ Client \/ OracleLost \/ LoseCall \/ Reload

(* The page is open and its connection works; the other players that stay  *)
(* send their salts; the oracle and the base layer answer; time passes.    *)
(* Nothing is asked of the other clients' cranks or of the players.        *)
Fairness ==
    /\ WF_vars(See) /\ WF_vars(Quieten) /\ WF_vars(Tick) /\ WF_vars(Send) /\ WF_vars(Poll)
    /\ \A s \in Present : WF_vars(OtherSalt(s))
    /\ WF_vars(OracleAnswers) /\ WF_vars(DeadlinePasses)
    /\ WF_vars(Arrival) /\ WF_vars(ActionRuns)

Spec == Init /\ [][Next]_vars
FairSpec == Spec /\ Fairness

-----------------------------------------------------------------------------
(* Properties.                                                             *)

(* Of a client that has seen everything, no call bounces except the knocks *)
(* of start_hand: it settles nothing before the cards are dealt and the    *)
(* street is closed, draws nothing before two salts are in.                *)
CallsLand == number < MaxHands =>
    \A k \in 1 .. Len(Pass(Now)) : Permits(Pass(Now)[k]) \/ Pass(Now)[k].name = "start_hand"

(* One client and one more player who reveals are enough: whatever calls,  *)
(* answers and pages are lost, whoever else commits and vanishes, hands    *)
(* are dealt, played and settled for as long as two have chips.            *)
HandsGoOn == <>[](Waiting /\ (number = MaxHands \/ Cardinality(funded) < 2))

(* The base layer's record catches up with the table, to within a batch.   *)
HistoryCatchesUp == <>[](number - recorded.last < CommitEvery)
=============================================================================
