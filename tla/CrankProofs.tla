---------------------------- MODULE CrankProofs ----------------------------
(***************************************************************************)
(* What the base layer records, for any number of hands and any            *)
(* interleaving of commits, their arrivals and their actions (History);    *)
(* and that whatever the clients send, read or lose, what the table and    *)
(* the base layer do about results is what History describes, so that the  *)
(* same holds of a table run by cranks.                                    *)
(***************************************************************************)
EXTENDS Crank, FiniteSetTheorems, TLAPS

-----------------------------------------------------------------------------
(* The history.                                                            *)

(* A hash the account can carry beside a number. *)
Fresh(c) == c.result \in {NoHash, c.number, c.number - 1}

Copies == [number : Nat, result : Nat]

HistoryTypeOK ==
    /\ tableState \in {"Waiting", "HandInProgress"}
    /\ number \in Nat /\ result \in Nat
    /\ transit \in Seq(Copies) /\ base \in Copies
    /\ actions \subseteq Copies
    /\ recorded \in [last : Nat, result : Nat, count : Nat]

(* Between hands the hash is that of the last hand or of none; during one  *)
(* it may still be that of the hand before.                                *)
HashFollows ==
    /\ Waiting => result \in {NoHash, number}
    /\ result \in {NoHash, number, number - 1}

(* Whatever was copied was on the account together. *)
CopiesFresh ==
    /\ Fresh(base)
    /\ \A i \in 1 .. Len(transit) : Fresh(transit[i])
    /\ \A a \in actions : Fresh(a)

(* Copies arrive in the order they were sent, so the base layer's copy     *)
(* never goes back to an earlier hand.                                     *)
CopiesOrdered ==
    /\ base.number <= number
    /\ \A i \in 1 .. Len(transit) :
           base.number <= transit[i].number /\ transit[i].number <= number
    /\ \A i, j \in 1 .. Len(transit) : i <= j => transit[i].number <= transit[j].number

IInv == HistoryTypeOK /\ HashFollows /\ CopiesFresh /\ CopiesOrdered /\ RecordedIsRecent

LEMMA Initially == HistoryInit => IInv
BY DEF HistoryInit, IInv, HistoryTypeOK, HashFollows, CopiesFresh, CopiesOrdered,
       RecordedIsRecent, Copies, Fresh, NoHash, Waiting

LEMMA CopyNumbers ==
    ASSUME HistoryTypeOK
    PROVE  /\ \A i \in 1 .. Len(transit) : transit[i].number \in Nat
           /\ base.number \in Nat
<1>1. /\ \A i \in 1 .. Len(transit) : transit[i] \in Copies
      /\ base \in Copies
  BY DEF HistoryTypeOK
<1> QED BY <1>1 DEF Copies

(* The three instructions of a hand leave the copies alone: only the       *)
(* number may grow.                                                        *)
LEMMA HandStep ==
    ASSUME IInv, StartHand \/ SettleHand \/ AbandonHand
    PROVE  IInv'
<1> USE DEF NoHash, Waiting, Fresh
<1>1. UNCHANGED recordVars /\ number' \in Nat /\ number' >= number
  BY DEF IInv, HistoryTypeOK, StartHand, SettleHand, AbandonHand
<1>2. HistoryTypeOK'
  BY <1>1 DEF IInv, HistoryTypeOK, StartHand, SettleHand, AbandonHand, recordVars
<1>3. HashFollows'
  BY DEF IInv, HistoryTypeOK, HashFollows, StartHand, SettleHand, AbandonHand
<1>4. CopiesFresh'
  BY <1>1 DEF IInv, CopiesFresh, recordVars
<1>5. CopiesOrdered'
  <2>1. number \in Nat /\ base' = base /\ transit' = transit
    BY <1>1 DEF IInv, HistoryTypeOK, recordVars
  <2> QED BY <1>1, <2>1, CopyNumbers DEF IInv, CopiesOrdered
<1>6. RecordedIsRecent'
  BY <1>1 DEF IInv, RecordedIsRecent, recordVars
<1> QED BY <1>2, <1>3, <1>4, <1>5, <1>6 DEF IInv

(* What is sent is what the account holds, after whatever was sent before. *)
LEMMA CommitStep ==
    ASSUME IInv, CommitResults
    PROVE  IInv'
<1>1. Copy \in Copies /\ Fresh(Copy) /\ Copy.number = number
  BY DEF IInv, HistoryTypeOK, HashFollows, Copy, Copies, Fresh
<1>2. transit' = transit \/ transit' = Append(transit, Copy)
  BY DEF CommitResults
<1>3. HistoryTypeOK'
  BY <1>1, <1>2 DEF IInv, HistoryTypeOK, CommitResults, handVars
<1>4. HashFollows'
  BY DEF IInv, HashFollows, CommitResults, handVars, Waiting
<1>5. \A i \in 1 .. Len(transit') :
         \/ i \in 1 .. Len(transit) /\ transit'[i] = transit[i]
         \/ i = Len(transit') /\ transit'[i] = Copy /\ transit' # transit
  BY <1>1, <1>2 DEF IInv, HistoryTypeOK
<1>6. CopiesFresh'
  <2>1. \A i \in 1 .. Len(transit') : Fresh(transit'[i])
    BY <1>1, <1>5 DEF IInv, CopiesFresh
  <2>2. \A a \in actions' : Fresh(a)
    BY <1>1 DEF IInv, CopiesFresh, CommitResults
  <2> QED BY <2>1, <2>2 DEF IInv, CopiesFresh, CommitResults, Fresh
<1>7. CopiesOrdered'
  <2>1. \A i \in 1 .. Len(transit) : transit[i].number \in Nat
    BY CopyNumbers DEF IInv
  <2>2. number' = number /\ base' = base
    BY DEF CommitResults, handVars
  <2>3. \A i \in 1 .. Len(transit') :
            base'.number <= transit'[i].number /\ transit'[i].number <= number'
    BY <1>1, <1>5, <2>2 DEF IInv, CopiesOrdered, HistoryTypeOK
  <2>4. ASSUME NEW i \in 1 .. Len(transit'), NEW j \in 1 .. Len(transit'), i <= j
        PROVE  transit'[i].number <= transit'[j].number
    <3>1. CASE transit'[j] = Copy
      BY <1>1, <2>2, <2>3, <3>1
    <3>2. CASE j \in 1 .. Len(transit) /\ transit'[j] = transit[j]
      <4>1. i \in 1 .. Len(transit) /\ i \in 1 .. Len(transit')
        BY <2>4, <3>2 DEF IInv, HistoryTypeOK
      <4>2. transit'[i] = transit[i]
        BY <1>2, <4>1 DEF IInv, HistoryTypeOK
      <4> QED BY <2>4, <3>2, <4>1, <4>2 DEF IInv, CopiesOrdered
    <3> QED BY <1>5, <3>1, <3>2
  <2> QED BY <2>2, <2>3, <2>4 DEF IInv, CopiesOrdered
<1>8. RecordedIsRecent'
  BY DEF IInv, RecordedIsRecent, CommitResults
<1> QED BY <1>3, <1>4, <1>6, <1>7, <1>8 DEF IInv

(* The copy that arrives is the oldest on its way. *)
LEMMA LandStep ==
    ASSUME IInv, CommitLands
    PROVE  IInv'
<1>1. /\ transit # <<>> /\ base' = transit[1] /\ Len(transit) >= 1
      /\ Len(transit') = Len(transit) - 1
      /\ \A i \in 1 .. Len(transit') : transit'[i] = transit[i + 1] /\ i + 1 \in 1 .. Len(transit)
  BY DEF CommitLands, IInv, HistoryTypeOK
<1>2. HistoryTypeOK'
  BY DEF CommitLands, IInv, HistoryTypeOK, handVars
<1>3. HashFollows'
  BY DEF CommitLands, IInv, HashFollows, handVars, Waiting
<1>4. CopiesFresh'
  <2>1. Fresh(base')
    BY <1>1 DEF IInv, CopiesFresh, HistoryTypeOK
  <2>2. \A i \in 1 .. Len(transit') : Fresh(transit'[i])
    BY <1>1 DEF IInv, CopiesFresh
  <2> QED BY <2>1, <2>2 DEF IInv, CopiesFresh, CommitLands, Fresh
<1>5. CopiesOrdered'
  <2>1. Len(transit) \in Nat /\ 1 \in 1 .. Len(transit)
    BY <1>1 DEF IInv, HistoryTypeOK
  <2>2. number' = number /\ base'.number <= number
    BY <1>1, <2>1 DEF CommitLands, handVars, IInv, CopiesOrdered
  <2>3. \A i \in 1 .. Len(transit') :
            base'.number <= transit'[i].number /\ transit'[i].number <= number
    BY <1>1, <2>1 DEF IInv, CopiesOrdered
  <2>4. ASSUME NEW i \in 1 .. Len(transit'), NEW j \in 1 .. Len(transit'), i <= j
        PROVE  transit'[i].number <= transit'[j].number
    BY <1>1, <2>1, <2>4 DEF IInv, CopiesOrdered
  <2> QED BY <2>2, <2>3, <2>4 DEF CopiesOrdered
<1>6. RecordedIsRecent'
  <2>1. base.number <= base'.number
    BY <1>1 DEF IInv, CopiesOrdered, HistoryTypeOK
  <2>2. base.number \in Nat /\ base'.number \in Nat
    BY <1>2 DEF IInv, HistoryTypeOK, Copies
  <2> QED BY <2>1, <2>2 DEF IInv, HistoryTypeOK, RecordedIsRecent, CommitLands
<1> QED BY <1>2, <1>3, <1>4, <1>5, <1>6 DEF IInv

(* An action records the base layer's own copy, of a later hand, or        *)
(* nothing.                                                                *)
LEMMA ActionStep ==
    ASSUME IInv, NEW a \in actions, RunAction(a) \/ DropAction(a)
    PROVE  IInv'
<1>1. /\ UNCHANGED <<handVars, transit, base>> /\ actions' \subseteq actions
      /\ a \in Copies /\ Fresh(a)
  BY DEF RunAction, DropAction, IInv, HistoryTypeOK, CopiesFresh
<1>2. \/ recorded' = recorded
      \/ /\ base = a /\ a.number > recorded.last
         /\ recorded' = [last |-> a.number, result |-> a.result, count |-> recorded.count + 1]
  BY DEF RunAction, DropAction, RecordHandResult, MatchesTheCopy, Plausible
<1>3. HistoryTypeOK'
  BY <1>1, <1>2 DEF IInv, HistoryTypeOK, Copies, handVars
<1>4. HashFollows' /\ CopiesFresh' /\ CopiesOrdered'
  BY <1>1 DEF IInv, HashFollows, CopiesFresh, CopiesOrdered, handVars, Waiting, Fresh
<1>5. RecordedIsRecent'
  BY <1>1, <1>2 DEF IInv, HistoryTypeOK, RecordedIsRecent, Copies, Fresh
<1> QED BY <1>3, <1>4, <1>5 DEF IInv

(* The invariant: the record is right because the copies that arrive are   *)
(* in order and each of them was on the account at one moment.             *)
THEOREM Invariant == HistorySpec => []IInv
<1>1. IInv /\ [HistoryNext]_historyVars => IInv'
  <2> SUFFICES ASSUME IInv, [HistoryNext]_historyVars PROVE IInv'
    OBVIOUS
  <2>1. CASE StartHand \/ SettleHand \/ AbandonHand
    BY <2>1, HandStep
  <2>2. CASE CommitResults
    BY <2>2, CommitStep
  <2>3. CASE CommitLands
    BY <2>3, LandStep
  <2>4. CASE \E a \in actions : RunAction(a) \/ DropAction(a)
    BY <2>4, ActionStep
  <2>5. CASE UNCHANGED historyVars
    BY <2>5 DEF IInv, HistoryTypeOK, HashFollows, CopiesFresh, CopiesOrdered, RecordedIsRecent,
                historyVars, handVars, recordVars, Waiting, Fresh
  <2> QED BY <2>1, <2>2, <2>3, <2>4, <2>5 DEF HistoryNext
<1> QED BY Initially, <1>1, PTL DEF HistorySpec

(* However commits, arrivals and actions interleave with the hands, each   *)
(* hand is recorded at most once and in order (TableHistory,               *)
(* record_hand_result), and beside its number stands its own hash, that of *)
(* the hand before, or none.                                               *)
THEOREM RecordedCorrect == HistorySpec => []RecordedIsRecent
<1>1. IInv => RecordedIsRecent
  BY DEF IInv
<1> QED BY Invariant, <1>1, PTL

-----------------------------------------------------------------------------
(* The crank.                                                              *)

(* A call that is executed starts, settles or commits, or touches nothing  *)
(* that History has.                                                       *)
LEMMA CallsMakeHistory ==
    ASSUME NEW c, Does(c)
    PROVE  [HistoryNext]_historyVars
<1>1. CASE c.name \in {"commit_salt", "reveal_salt", "secure_hole", "reset_shuffle",
                       "request_shuffle", "deal_hole_cards", "advance_street", "force_timeout"}
  BY <1>1 DEF Does, SetSalt, SecureHole, ResetShuffle, RequestShuffle, DealHoleCards,
              AdvanceStreet, Turn
<1>2. CASE c.name = "start_hand"
  BY <1>2 DEF Does, Start, HistoryNext
<1>3. CASE c.name = "settle_hand"
  BY <1>3 DEF Does, Settle, HistoryNext
<1>4. CASE c.name \notin {"commit_salt", "reveal_salt", "secure_hole", "reset_shuffle",
                          "request_shuffle", "deal_hole_cards", "advance_street",
                          "force_timeout", "start_hand", "settle_hand"}
  BY <1>4 DEF Does, HistoryNext
<1> QED BY <1>1, <1>2, <1>3, <1>4

LEMMA SharedMakesHistory == Shared => [HistoryNext]_historyVars
BY DEF Shared, ResetShuffle, RequestShuffle, Start, DealHoleCards, AdvanceStreet, Settle, Turn,
       HistoryNext

(* The table's own steps: players, other clients, the oracle, the base     *)
(* layer.                                                                  *)
LEMMA TableMakesHistory == Table => [HistoryNext]_historyVars
<1> SUFFICES ASSUME Table PROVE [HistoryNext]_historyVars
  OBVIOUS
<1>1. CASE \E s \in Seats : OtherSalt(s)
  BY <1>1 DEF OtherSalt, SetSalt
<1>2. CASE Somebody
  <2>1. CASE Shared
    BY <2>1, SharedMakesHistory
  <2>2. CASE \E s \in Seats \ secured : SecureHole(s)
    BY <2>2 DEF SecureHole
  <2>3. CASE Abandon
    BY <2>3 DEF Abandon, HistoryNext
  <2> QED BY <1>2, <2>1, <2>2, <2>3 DEF Somebody
<1>3. CASE PlayerActs \/ OracleAnswers \/ DeadlinePasses
  BY <1>3 DEF PlayerActs, Turn, OracleAnswers, SetDraw, DeadlinePasses
<1>4. CASE Arrival
  BY <1>4 DEF Arrival, HistoryNext
<1>5. CASE ActionRuns
  BY <1>5 DEF ActionRuns, HistoryNext
<1> QED BY <1>1, <1>2, <1>3, <1>4, <1>5 DEF Table

(* One step of the table or of the followed client.                        *)
LEMMA StepMakesHistory == [Next]_vars => [HistoryNext]_historyVars
<1> SUFFICES ASSUME [Next]_vars PROVE [HistoryNext]_historyVars
  OBVIOUS
<1> USE DEF historyVars, tableVars
<1>1. CASE Table
  BY <1>1, TableMakesHistory
<1>2. CASE See \/ Quieten \/ Tick \/ Poll \/ Reload
  BY <1>2 DEF See, Quieten, Tick, Poll, Reload
<1>3. CASE Send
  <2>1. CASE Permits(Head(me.calls))
    BY <1>3, <2>1, CallsMakeHistory DEF Send
  <2>2. CASE ~Permits(Head(me.calls))
    BY <1>3, <2>2 DEF Send
  <2> QED BY <2>1, <2>2
<1>4. CASE OracleLost
  BY <1>4 DEF OracleLost, SetDraw
<1>5. CASE LoseCall
  BY <1>5, CallsMakeHistory DEF LoseCall
<1>6. CASE UNCHANGED vars
  BY <1>6 DEF vars
<1> QED BY <1>1, <1>2, <1>3, <1>4, <1>5, <1>6 DEF Next, Client

(* The crank's table implements the history of hands and records.          *)
THEOREM ImplementsHistory == FairSpec => HistorySpec
BY StepMakesHistory, PTL DEF FairSpec, Spec, Init, HistorySpec

(* However the calls of several clients, lost answers, reloads and late    *)
(* commits interleave, the base layer's record never names a hand twice or *)
(* out of order (record_hand_result), nor a hash older than the hand       *)
(* before.                                                                 *)
THEOREM CrankRecordedCorrect == FairSpec => []RecordedIsRecent
BY ImplementsHistory, RecordedCorrect, PTL

-----------------------------------------------------------------------------
(* What the crank of a page that has seen everything sends is permitted.   *)

(* The table: a hand that runs has a number and somebody in it. *)
TableGoesOn ==
    /\ number \in Nat /\ stamp \in Nat /\ street \in 0 .. Showdown
    /\ shuffle \in {"idle", "requested"}
    /\ ~Waiting => number > 0 /\ dealtIn # {}

(* The page: whatever it saw, sends or remembers is of this hand or of an  *)
(* earlier one, and a hand it remembers having dealt is dealt. Calls are   *)
(* the calls of the row it sends.                                          *)
Calls(f) == {f[x] : x \in DOMAIN f}

PageKeepsUp ==
    /\ me = [calls |-> me.calls, dealt |-> me.dealt, polled |-> me.polled, quiet |-> me.quiet]
    /\ before = [table |-> before.table, hand |-> before.hand, seats |-> before.seats,
                 hole |-> before.hole]
    /\ before.hand.number \in 0 .. number
    /\ me.calls \in Seq(Calls(me.calls))
    /\ \A c \in Calls(me.calls) : c.hand \in 0 .. number
    /\ me.dealt \subseteq 0 .. number
    /\ number \in me.dealt => stamp = number

CrankIInv == TableGoesOn /\ PageKeepsUp

(* What a step does to the table, as far as a page depends on it: the      *)
(* number only grows, and the stamp of the hole accounts is renewed only   *)
(* by that of the hand.                                                    *)
TableStep ==
    /\ TableGoesOn'
    /\ number' \in {number, number + 1}
    /\ number' = number => stamp' \in {stamp, number}

LEMMA CrankInit == Init => CrankIInv
<1> SUFFICES ASSUME Init PROVE CrankIInv
  OBVIOUS
<1>1. TableGoesOn
  BY CrankAssumption DEF Init, HistoryInit, TableGoesOn, Waiting
<1>2. me.calls = <<>> /\ me.dealt = {} /\ number = 0 /\ before.hand.number = 0
  BY DEF Init, HistoryInit, Opened, Now, HandAccount
<1>3. me.calls \in Seq(Calls(me.calls)) /\ Calls(me.calls) = {}
  BY <1>2 DEF Calls
<1>4. PageKeepsUp
  BY <1>2, <1>3 DEF PageKeepsUp, Init, Opened, Now
<1> QED BY <1>1, <1>4 DEF CrankIInv

(* Instructions that leave the hand and its street alone. *)
LEMMA SmallSteps ==
    ASSUME CrankIInv,
           \/ \E s, x : SetSalt(s, x)
           \/ \E x : SetDraw(x)
           \/ \E s : SecureHole(s)
           \/ ResetShuffle \/ RequestShuffle \/ DealHoleCards \/ Turn
           \/ CommitResults /\ UNCHANGED <<dealVars, betVars, late>>
           \/ UNCHANGED tableVars
           \/ UNCHANGED <<handVars, dealVars, betVars>>
    PROVE  TableStep
<1>1. /\ UNCHANGED <<tableState, number, dealtIn, street>>
      /\ stamp' \in {stamp, number} /\ shuffle' \in {shuffle, "idle", "requested"}
  BY DEF SetSalt, SetDraw, SecureHole, ResetShuffle, RequestShuffle, DealHoleCards, Turn,
         CommitResults, tableVars, dealVars, betVars, handVars, historyVars
<1> QED BY <1>1 DEF TableStep, TableGoesOn, CrankIInv, Waiting

LEMMA StartSteps ==
    ASSUME CrankIInv, MayStart, Start PROVE TableStep
<1>1. funded \cap secured # {}
  <2>1. funded \cap secured = {} => Cardinality(funded \cap secured) = 0
    BY FS_EmptySet
  <2> QED BY <2>1 DEF MayStart
<1>2. /\ number' = number + 1 /\ stamp' = stamp /\ street' = 0 /\ shuffle' = shuffle
      /\ dealtIn' = funded \cap secured /\ number < MaxHands
  BY DEF Start, StartHand
<1>3. 0 \in 0 .. Showdown
  BY CrankAssumption
<1> QED BY <1>1, <1>2, <1>3 DEF TableStep, TableGoesOn, CrankIInv

LEMMA AdvanceSteps ==
    ASSUME CrankIInv, MayAdvance, AdvanceStreet PROVE TableStep
<1>1. /\ UNCHANGED <<tableState, number, stamp, shuffle, dealtIn>>
      /\ street' \in 0 .. Showdown
  BY CrankAssumption DEF MayAdvance, AdvanceStreet, historyVars, handVars, dealVars, CrankIInv,
                         TableGoesOn
<1> QED BY <1>1 DEF TableStep, TableGoesOn, CrankIInv, Waiting

LEMMA CloseSteps ==
    ASSUME CrankIInv, Settle \/ Abandon PROVE TableStep
<1>1. /\ tableState' = "Waiting" /\ UNCHANGED <<number, stamp>>
      /\ shuffle' = "idle" /\ dealtIn' = {} /\ street' = Showdown
  BY DEF Settle, Abandon, CloseHand, SettleHand, AbandonHand
<1>2. Showdown \in 0 .. Showdown
  BY CrankAssumption
<1> QED BY <1>1, <1>2 DEF TableStep, TableGoesOn, CrankIInv, Waiting

(* A call that is permitted, whoever makes it. *)
LEMMA CallSteps ==
    ASSUME CrankIInv, NEW c, Permits(c), Does(c)
    PROVE  /\ TableStep
           /\ c.name = "deal_hole_cards" => stamp' = number /\ number' = number
<1>1. CASE c.name = "start_hand"
  BY <1>1, StartSteps DEF Permits, Does
<1>2. CASE c.name = "advance_street"
  BY <1>2, AdvanceSteps DEF Permits, Does
<1>3. CASE c.name = "settle_hand"
  BY <1>3, CloseSteps DEF Does
<1>4. CASE c.name \notin {"start_hand", "advance_street", "settle_hand"}
  <2>1. TableStep
    BY <1>4, SmallSteps DEF Does
  <2>2. c.name = "deal_hole_cards" => DealHoleCards
    BY DEF Does
  <2> QED BY <2>1, <2>2 DEF DealHoleCards, historyVars, handVars
<1> QED BY <1>1, <1>2, <1>3, <1>4

LEMMA SharedSteps ==
    ASSUME CrankIInv, Shared PROVE TableStep
BY SmallSteps, StartSteps, AdvanceSteps, CloseSteps DEF Shared

LEMMA TableSteps ==
    ASSUME CrankIInv, Table \/ OracleLost PROVE TableStep
<1>1. CASE \E s \in Seats : OtherSalt(s)
  BY <1>1, SmallSteps DEF OtherSalt
<1>2. CASE Somebody
  BY <1>2, SharedSteps, SmallSteps, CloseSteps DEF Somebody
<1>3. CASE PlayerActs \/ OracleAnswers \/ OracleLost
  BY <1>3, SmallSteps DEF PlayerActs, OracleAnswers, OracleLost
<1>4. CASE Arrival \/ ActionRuns
  <2>1. UNCHANGED tableVars
    BY <1>4 DEF Arrival, ActionRuns
  <2> QED BY <2>1, SmallSteps
<1>5. CASE DeadlinePasses
  <2>1. UNCHANGED <<handVars, dealVars, betVars>>
    BY <1>5 DEF DeadlinePasses, historyVars
  <2> QED BY <2>1, SmallSteps
<1> QED BY <1>1, <1>2, <1>3, <1>4, <1>5 DEF Table

-----------------------------------------------------------------------------
(* The page of the followed client.                                        *)

(* The instructions a tick sends, secure_hole apart, which goes to a seat. *)
Names == {"commit_salt", "reveal_salt", "reset_shuffle", "request_shuffle", "start_hand",
          "deal_hole_cards", "advance_street", "settle_hand", "force_timeout", "commit_results"}

(* The seats to be secured are a sequence of calls of the view's hand.     *)
LEMMA SecuresIs ==
    ASSUME NEW v
    PROVE  /\ Secures(v) \in Seq(Calls(Secures(v)))
           /\ \A c \in Calls(Secures(v)) : c.hand = v.hand.number /\ c.name = "secure_hole"
<1> DEFINE missing == IF v.table = "Waiting" THEN Seats \ v.seats.secured ELSE {}
           n == Cardinality(missing)
           f(k) == Call(v, "secure_hole",
                        CHOOSE s \in missing : Cardinality({t \in missing : t <= s}) = k)
<1>1. Secures(v) = [k \in 1 .. n |-> f(k)]
  BY DEF Secures
<1>2. n \in Nat
  <2>1. IsFiniteSet(Seats)
    BY CrankAssumption, FS_Interval DEF Seats
  <2>2. missing \subseteq Seats
    OBVIOUS
  <2> HIDE DEF missing
  <2> QED BY <2>1, <2>2, FS_Subset, FS_CardinalityType
<1>3. \A k \in 1 .. n : f(k).hand = v.hand.number /\ f(k).name = "secure_hole"
  BY DEF Call
<1> HIDE DEF n, f
<1> QED BY <1>1, <1>2, <1>3 DEF Calls

(* A pass is made of the calls its conditions allow, and of nothing else.  *)
LEMMA PassIs ==
    ASSUME NEW v, NEW S, Calls(Secures(v)) \subseteq S,
           (/\ v.table = "Waiting" /\ v.hand.shuffle = "idle"
            /\ v.seats.salt[Me] = "none") => Call(v, "commit_salt", Me) \in S,
           (/\ v.table = "Waiting" /\ v.hand.shuffle = "idle"
            /\ v.seats.salt[Me] = "committed") => Call(v, "reveal_salt", Me) \in S,
           (/\ v.table = "Waiting" /\ v.hand.shuffle # "idle"
            /\ LooksLate(v)) => Call(v, "reset_shuffle", Me) \in S,
           (/\ v.table = "Waiting" /\ v.hand.shuffle = "idle"
            /\ v.hand.mask >= 2) => Call(v, "request_shuffle", Me) \in S,
           Call(v, "start_hand", Me) \in S,
           v.table # "Waiting" /\ NeedsDeal(v) => Call(v, "deal_hole_cards", Me) \in S,
           (/\ v.table # "Waiting" /\ ~NeedsDeal(v) /\ ~v.hand.turn
            /\ v.hand.street < Showdown) => Call(v, "advance_street", Me) \in S,
           (/\ v.table # "Waiting" /\ ~NeedsDeal(v) /\ ~v.hand.turn
            /\ ~(v.hand.street < Showdown)) => Call(v, "settle_hand", Me) \in S,
           (/\ v.table # "Waiting" /\ v.hand.turn
            /\ LooksLate(v)) => Call(v, "force_timeout", Me) \in S,
           Call(v, "commit_results", Me) \in S
    PROVE  Pass(v) \in Seq(S)
<1>1. \A q, r \in Seq(S) : q \o r \in Seq(S)
  OBVIOUS
<1>2. <<>> \in Seq(S) /\ \A c \in S : <<c>> \in Seq(S)
  OBVIOUS
<1>3. MySalt(v) \in Seq(S)
  <2>1. If(v.seats.salt[Me] = "none", <<Call(v, "commit_salt", Me)>>) \in Seq(S)
        \/ ~(v.table = "Waiting" /\ v.hand.shuffle = "idle")
    BY <1>2 DEF If
  <2>2. If(v.seats.salt[Me] = "committed", <<Call(v, "reveal_salt", Me)>>) \in Seq(S)
        \/ ~(v.table = "Waiting" /\ v.hand.shuffle = "idle")
    BY <1>2 DEF If
  <2> QED BY <1>1, <1>2, <2>1, <2>2 DEF MySalt
<1>4. Secures(v) \in Seq(S)
  <2>1. Secures(v) \in Seq(Calls(Secures(v)))
    BY SecuresIs
  <2>2. \A T \in SUBSET S : \A q \in Seq(T) : q \in Seq(S)
    OBVIOUS
  <2> QED BY <2>1, <2>2
<1>5. v.table = "Waiting" => BetweenHands(v) \in Seq(S)
  BY <1>2 DEF BetweenHands, If
<1>6. v.table # "Waiting" => DuringHand(v) \in Seq(S)
  BY <1>2 DEF DuringHand, If
<1>7. Results(v) \in Seq(S)
  BY <1>2 DEF Results, If
<1>8. (IF v.table = "Waiting" THEN BetweenHands(v) ELSE DuringHand(v)) \in Seq(S)
  BY <1>5, <1>6
<1>9. (IF MySalt(v) # <<>> THEN MySalt(v)
       ELSE Secures(v) \o (IF v.table = "Waiting" THEN BetweenHands(v) ELSE DuringHand(v)))
        \in Seq(S)
  BY <1>1, <1>3, <1>4, <1>8
<1> QED BY <1>1, <1>7, <1>9 DEF Pass

(* Every call of a pass names the hand of the view.                        *)
LEMMA PassIsOfItsHand ==
    ASSUME NEW v
    PROVE  /\ Pass(v) \in Seq(Calls(Pass(v)))
           /\ \A c \in Calls(Pass(v)) : c.hand = v.hand.number
<1> DEFINE S == Calls(Secures(v)) \cup {Call(v, name, Me) : name \in Names}
<1>1. \A name \in Names : Call(v, name, Me) \in S
  OBVIOUS
<1>2. \A c \in S : c.hand = v.hand.number
  <2>1. \A c \in Calls(Secures(v)) : c.hand = v.hand.number
    BY SecuresIs
  <2>2. \A name \in Names : Call(v, name, Me).hand = v.hand.number
    BY DEF Call
  <2> QED BY <2>1, <2>2
<1>3. Calls(Secures(v)) \subseteq S
  OBVIOUS
<1> HIDE DEF S
<1>4. Pass(v) \in Seq(S)
  BY <1>1, <1>3, PassIs DEF Names
<1>5. \A q \in Seq(S) : q \in Seq(Calls(q)) /\ Calls(q) \subseteq S
  BY DEF Calls
<1> QED BY <1>2, <1>4, <1>5

(* Of a view of the accounts as they are, every call is permitted.         *)
LEMMA PassLands == CrankIInv => CallsLand
<1> SUFFICES ASSUME CrankIInv, number < MaxHands,
                    NEW k \in 1 .. Len(Pass(Now))
             PROVE  Permits(Pass(Now)[k]) \/ Pass(Now)[k].name = "start_hand"
  BY DEF CallsLand
<1> DEFINE All == Calls(Secures(Now)) \cup {Call(Now, name, Me) : name \in Names}
           S == {c \in All : Permits(c) \/ c.name = "start_hand"}
<1>1. \A name \in Names :
        /\ Call(Now, name, Me).name = name /\ Call(Now, name, Me).seat = Me
        /\ Permits(Call(Now, name, Me)) \/ name = "start_hand" => Call(Now, name, Me) \in S
  <2>1. \A name \in Names :
          Call(Now, name, Me) \in All
          /\ Call(Now, name, Me).name = name /\ Call(Now, name, Me).seat = Me
    BY DEF Call
  <2> HIDE DEF All
  <2> QED BY <2>1
<1>2. /\ Now.table = tableState /\ Now.hand = HandAccount /\ Now.hole = stamp
      /\ Now.seats = SeatAccounts /\ Now.seats.salt = salt
      /\ HandAccount.number = number /\ HandAccount.shuffle = shuffle
      /\ HandAccount.mask = Cardinality(Revealed) /\ HandAccount.street = street
      /\ HandAccount.turn = SomeoneToAct /\ HandAccount.dealt = (dealtIn # {})
      /\ HandAccount.in = (Me \in dealtIn)
  BY DEF Now, HandAccount, SeatAccounts
<1>3. LooksLate(Now) => late
  BY <1>2 DEF LooksLate
<1>4. ~Waiting /\ ~NeedsDeal(Now) => stamp = number
  BY <1>2 DEF NeedsDeal, CrankIInv, TableGoesOn, PageKeepsUp
<1>5. Calls(Secures(Now)) \subseteq S
  BY SecuresIs DEF Permits
<1> HIDE DEF S, All
<1>6. Pass(Now) \in Seq(S)
  <2>1. (Waiting /\ shuffle = "idle" /\ salt[Me] = "none") => Call(Now, "commit_salt", Me) \in S
    BY <1>1 DEF Names, Permits, MayCommitSalt
  <2>2. (Waiting /\ shuffle = "idle" /\ salt[Me] = "committed")
           => Call(Now, "reveal_salt", Me) \in S
    BY <1>1 DEF Names, Permits, MayRevealSalt
  <2>3. (Waiting /\ shuffle # "idle" /\ late) => Call(Now, "reset_shuffle", Me) \in S
    BY <1>1 DEF Names, Permits, MayReset, CrankIInv, TableGoesOn
  <2>4. (shuffle = "idle" /\ Cardinality(Revealed) >= 2) => Call(Now, "request_shuffle", Me) \in S
    BY <1>1 DEF Names, Permits, MayRequest
  <2>5. Call(Now, "start_hand", Me) \in S
    BY <1>1 DEF Names
  <2>6. ~Waiting => Call(Now, "deal_hole_cards", Me) \in S
    BY <1>1 DEF Names, Permits, MayDeal, CrankIInv, TableGoesOn
  <2>7. (~Waiting /\ ~SomeoneToAct /\ street < Showdown) => Call(Now, "advance_street", Me) \in S
    BY <1>1 DEF Names, Permits, MayAdvance
  <2>8. (~Waiting /\ ~NeedsDeal(Now) /\ ~SomeoneToAct /\ ~(street < Showdown))
           => Call(Now, "settle_hand", Me) \in S
    <3>1. ~(street < Showdown) => street = Showdown
      BY CrankAssumption DEF CrankIInv, TableGoesOn
    <3> QED BY <1>1, <1>4, <3>1 DEF Names, Permits, MaySettle
  <2>9. (~Waiting /\ SomeoneToAct /\ late) => Call(Now, "force_timeout", Me) \in S
    BY <1>1 DEF Names, Permits, MayTimeOut
  <2>10. Call(Now, "commit_results", Me) \in S
    BY <1>1 DEF Names, Permits
  <2> QED BY <1>2, <1>3, <1>5, <2>1, <2>2, <2>3, <2>4, <2>5, <2>6, <2>7, <2>8, <2>9, <2>10,
             PassIs DEF Waiting
<1>7. Pass(Now)[k] \in S
  BY <1>6
<1> QED BY <1>7 DEF S

-----------------------------------------------------------------------------
(* The page stays behind the table, never ahead of it.                     *)

(* The page after a step: it knows the calls it had and no other, or those *)
(* of a pass, and remembers what it did or a hand dealt just now.          *)
PageStep ==
    /\ me' = [calls |-> me'.calls, dealt |-> me'.dealt, polled |-> me'.polled,
              quiet |-> me'.quiet]
    /\ me'.calls \in Seq(Calls(me'.calls))
    /\ \A c \in Calls(me'.calls) : c.hand \in 0 .. number
    /\ \A d \in me'.dealt \ me.dealt : d \in 0 .. number /\ stamp' = number /\ number' = number
    /\ before' = before \/ before' = Now

LEMMA PageStays ==
    ASSUME CrankIInv, TableStep, PageStep PROVE CrankIInv'
<1>1. number \in Nat /\ number' \in Nat /\ \A n \in 0 .. number : n \in 0 .. number'
  BY DEF CrankIInv, TableGoesOn, TableStep
<1>2. /\ Now = [table |-> Now.table, hand |-> Now.hand, seats |-> Now.seats, hole |-> Now.hole]
      /\ Now.hand.number = number
  BY DEF Now, HandAccount
<1>3. before'.hand.number \in 0 .. number'
  BY <1>1, <1>2 DEF PageStep, CrankIInv, PageKeepsUp
<1>4. before' = [table |-> before'.table, hand |-> before'.hand, seats |-> before'.seats,
                 hole |-> before'.hole]
  BY <1>2 DEF PageStep, CrankIInv, PageKeepsUp
<1>5. me'.dealt \subseteq 0 .. number'
  BY <1>1 DEF PageStep, CrankIInv, PageKeepsUp
<1>6. number' \in me'.dealt => stamp' = number'
  BY <1>1 DEF PageStep, TableStep, CrankIInv, PageKeepsUp
<1>7. \A c \in Calls(me'.calls) : c.hand \in 0 .. number'
  BY <1>1 DEF PageStep
<1> QED BY <1>3, <1>4, <1>5, <1>6, <1>7 DEF PageStep, PageKeepsUp, CrankIInv, TableStep

(* The salts moving, or not, leaves the calls and the memory alone.        *)
LEMMA NoticedIs ==
    ASSUME PageKeepsUp
    PROVE  \E quiet : Noticed = [calls |-> me.calls, dealt |-> me.dealt, polled |-> me.polled,
                                 quiet |-> quiet]
<1>1. PICK a, b, c, d : me = [calls |-> a, dealt |-> b, polled |-> c, quiet |-> d]
  BY DEF PageKeepsUp
<1>2. Noticed = me \/ Noticed = [me EXCEPT !.quiet = "no"]
  BY DEF Noticed
<1> QED BY ONLY <1>1, <1>2

LEMMA RestOfCalls ==
    ASSUME PageKeepsUp, me.calls # <<>>
    PROVE  /\ Head(me.calls).hand \in 0 .. number
           /\ Tail(me.calls) \in Seq(Calls(Tail(me.calls)))
           /\ \A c \in Calls(Tail(me.calls)) : c.hand \in 0 .. number
<1>1. \A S : \A q \in Seq(S) : q # <<>> =>
        /\ Head(q) \in Calls(q) /\ Tail(q) \in Seq(Calls(Tail(q)))
        /\ Calls(Tail(q)) \subseteq Calls(q)
  <2> SUFFICES ASSUME NEW S, NEW q \in Seq(S), q # <<>>
               PROVE  /\ Head(q) \in Calls(q) /\ Tail(q) \in Seq(Calls(Tail(q)))
                      /\ Calls(Tail(q)) \subseteq Calls(q)
    OBVIOUS
  <2>1. /\ Len(q) \in Nat /\ Len(q) >= 1 /\ DOMAIN q = 1 .. Len(q)
        /\ Tail(q) \in Seq(S) /\ Len(Tail(q)) = Len(q) - 1
        /\ DOMAIN Tail(q) = 1 .. Len(Tail(q))
        /\ \A k \in 1 .. Len(Tail(q)) : Tail(q)[k] = q[k + 1] /\ k + 1 \in 1 .. Len(q)
        /\ Head(q) = q[1]
    OBVIOUS
  <2>2. \A r \in Seq(S) : r \in Seq(Calls(r))
    BY DEF Calls
  <2>3. Head(q) \in Calls(q)
    BY <2>1 DEF Calls
  <2>4. ASSUME NEW x \in Calls(Tail(q)) PROVE x \in Calls(q)
    <3>1. PICK k \in 1 .. Len(Tail(q)) : x = Tail(q)[k]
      BY <2>1 DEF Calls
    <3>2. x = q[k + 1] /\ k + 1 \in DOMAIN q
      BY <2>1, <3>1
    <3> QED BY <3>2 DEF Calls
  <2> QED BY <2>1, <2>2, <2>3, <2>4
<1> QED BY <1>1 DEF PageKeepsUp

LEMMA TableKeepsUp ==
    ASSUME CrankIInv, Table \/ OracleLost PROVE CrankIInv'
<1>1. \/ me' = Noticed \/ me' = me
  BY DEF Table, OtherSalt, Somebody, PlayerActs, OracleAnswers, DeadlinePasses, Aside,
         Arrival, ActionRuns, OracleLost
<1>2. before' = before \/ before' = Now
  BY DEF Table, OtherSalt, Somebody, PlayerActs, OracleAnswers, DeadlinePasses, Aside, Moves,
         Arrival, ActionRuns, OracleLost
<1>3. /\ me' = [calls |-> me'.calls, dealt |-> me'.dealt, polled |-> me'.polled,
                quiet |-> me'.quiet]
      /\ me'.calls = me.calls /\ me'.dealt = me.dealt
  BY <1>1, NoticedIs DEF CrankIInv, PageKeepsUp
<1>4. PageStep
  BY <1>2, <1>3 DEF PageStep, CrankIInv, PageKeepsUp
<1> QED BY <1>4, TableSteps, PageStays

(* The next call is executed, refused or lost. *)
LEMMA SendKeepsUp ==
    ASSUME CrankIInv, Send \/ LoseCall PROVE CrankIInv'
<1> DEFINE c == Head(me.calls)
<1>1. me.calls # <<>> /\ (Answered(c) \/ Failed)
  BY DEF Send, LoseCall
<1>2. PICK quiet : Noticed = [calls |-> me.calls, dealt |-> me.dealt, polled |-> me.polled,
                              quiet |-> quiet]
  BY NoticedIs DEF CrankIInv
<1>3. /\ me' = [calls |-> me'.calls, dealt |-> me'.dealt, polled |-> me'.polled,
                quiet |-> me'.quiet]
      /\ me'.calls = Tail(me.calls)
      /\ me'.dealt = me.dealt \/ (Answered(c) /\ me'.dealt = me.dealt \cup Remembers(c))
  BY <1>1, <1>2 DEF Answered, Failed
<1>4. CASE Permits(c) /\ Does(c) /\ Moves
  <2>1. TableStep /\ (c.name = "deal_hole_cards" => stamp' = number /\ number' = number)
    BY <1>4, CallSteps
  <2>2. \A d \in me'.dealt \ me.dealt : d \in 0 .. number /\ stamp' = number /\ number' = number
    BY <1>1, <1>3, <2>1, RestOfCalls DEF Remembers, CrankIInv
  <2>3. PageStep
    BY <1>1, <1>3, <1>4, <2>2, RestOfCalls DEF PageStep, Moves, CrankIInv
  <2> QED BY <2>1, <2>3, PageStays
<1>5. CASE UNCHANGED <<tableVars, recordVars, before>> /\ Failed
  <2>1. TableStep
    BY <1>5, SmallSteps
  <2>2. me'.dealt = me.dealt
    BY <1>2, <1>5 DEF Failed
  <2>3. PageStep
    BY <1>1, <1>3, <1>5, <2>2, RestOfCalls DEF PageStep, CrankIInv
  <2> QED BY <2>1, <2>3, PageStays
<1> QED BY <1>4, <1>5 DEF Send, LoseCall

(* A pass is made on a view, each account of which is old or new.          *)
LEMMA TickKeepsUp ==
    ASSUME CrankIInv, Tick PROVE CrankIInv'
<1>1. PICK v \in Views : me' = [me EXCEPT !.calls = Pass(v)]
  BY DEF Tick
<1>2. PICK old : v = [a \in DOMAIN before |-> IF a \in old THEN before[a] ELSE Now[a]]
  BY DEF Views
<1>3. "hand" \in DOMAIN before
  BY DEF CrankIInv, PageKeepsUp
<1>4. v.hand = before.hand \/ v.hand = Now.hand
  BY <1>2, <1>3
<1>5. v.hand.number \in 0 .. number
  BY <1>4 DEF CrankIInv, PageKeepsUp, TableGoesOn, Now, HandAccount
<1>6. PICK a, b, p, q : me = [calls |-> a, dealt |-> b, polled |-> p, quiet |-> q]
  BY DEF CrankIInv, PageKeepsUp
<1>7. /\ me' = [calls |-> me'.calls, dealt |-> me'.dealt, polled |-> me'.polled,
                quiet |-> me'.quiet]
      /\ me'.calls = Pass(v) /\ me'.dealt = me.dealt
  BY <1>1, <1>6
<1>8. PageStep
  BY <1>5, <1>7, PassIsOfItsHand DEF PageStep, Tick
<1>9. TableStep
  BY SmallSteps DEF Tick
<1> QED BY <1>8, <1>9, PageStays

LEMMA OthersKeepUp ==
    ASSUME CrankIInv, See \/ Quieten \/ Poll \/ Reload \/ UNCHANGED vars PROVE CrankIInv'
<1>1. PICK a, b, p, q : me = [calls |-> a, dealt |-> b, polled |-> p, quiet |-> q]
  BY DEF CrankIInv, PageKeepsUp
<1>2. UNCHANGED tableVars
  BY DEF See, Quieten, Poll, Reload, vars
<1>3. before' = before \/ before' = Now
  BY DEF See, Quieten, Poll, Reload, vars
<1>4. CASE me' = Opened
  <2>1. <<>> \in Seq(Calls(<<>>)) /\ Calls(<<>>) = {}
    BY DEF Calls
  <2>2. me'.calls = <<>> /\ me'.dealt = {}
    BY <1>4 DEF Opened
  <2>3. PageStep
    BY <1>3, <1>4, <2>1, <2>2 DEF PageStep, Opened
  <2> QED BY <1>2, <2>3, SmallSteps, PageStays
<1>5. CASE me' # Opened
  <2>1. \E x, y : me' = [calls |-> a, dealt |-> b, polled |-> x, quiet |-> y]
    BY <1>1, <1>5 DEF See, Quieten, Poll, Reload, vars
  <2>2. /\ me' = [calls |-> me'.calls, dealt |-> me'.dealt, polled |-> me'.polled,
                  quiet |-> me'.quiet]
        /\ me'.calls = me.calls /\ me'.dealt = me.dealt
    BY <1>1, <2>1
  <2>3. PageStep
    BY <1>3, <2>2 DEF PageStep, CrankIInv, PageKeepsUp
  <2> QED BY <1>2, <2>3, SmallSteps, PageStays
<1> QED BY <1>4, <1>5

(* The invariant: what the page remembers to have dealt is dealt, because  *)
(* nothing it saw, sends or remembers is of a hand to come.                *)
THEOREM CrankInvariant == FairSpec => []CrankIInv
<1>1. CrankIInv /\ [Next]_vars => CrankIInv'
  BY TableKeepsUp, SendKeepsUp, TickKeepsUp, OthersKeepUp DEF Next, Client
<1> QED BY CrankInit, <1>1, PTL DEF FairSpec, Spec

(* A client that has seen everything knocks in vain only at start_hand:    *)
(* crank.ts draws, deals, advances and settles when the program lets it,   *)
(* though it cannot see a stamp it is not dealt in to, and only remembers. *)
THEOREM CallsLandCorrect == FairSpec => []CallsLand
BY CrankInvariant, PassLands, PTL
=============================================================================
