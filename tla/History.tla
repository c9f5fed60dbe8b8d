------------------------------ MODULE History ------------------------------
(***************************************************************************)
(* What the base layer learns of the hands played on the rollup            *)
(* (programs/solpoker/src/instructions/history.rs). commit_results sends a *)
(* copy of the hand account home and schedules an action that records its  *)
(* number and its hash; copies arrive in the order they were sent (two of  *)
(* the same are one), actions at any time, or never.                       *)
(*                                                                         *)
(* Of a hand there is its number and whose hash the account carries:       *)
(* hashes are as different as the hands they are of.                       *)
(***************************************************************************)
EXTENDS Naturals, Sequences, FiniteSets

CONSTANTS
    MaxHands,         \* bound: hands played
    MaxHandAdvance    \* MAX_HAND_ADVANCE

ASSUME HistoryAssumption == MaxHands \in Nat /\ MaxHandAdvance \in Nat \ {0}

VARIABLES
    tableState,  \* Table::state
    number,      \* Hand::hand_number
    result,      \* Hand::result_hash: the hand it is of, NoHash of none
    transit,     \* copies of the hand account on their way home
    base,        \* the copy the base layer has
    actions,     \* scheduled calls of record_hand_result
    recorded     \* TableHistory

handVars == <<tableState, number, result>>
recordVars == <<transit, base, actions, recorded>>
historyVars == <<handVars, recordVars>>

NoHash == 0
Waiting == tableState = "Waiting"
Copy == [number |-> number, result |-> result]

-----------------------------------------------------------------------------
(* What start_hand, settle_hand and abandon_hand do to the fields above.   *)

StartHand ==
    /\ Waiting /\ number < MaxHands
    /\ tableState' = "HandInProgress"
    /\ number' = number + 1
    /\ UNCHANGED <<result, recordVars>>

SettleHand ==
    /\ ~Waiting
    /\ tableState' = "Waiting"
    /\ result' = number
    /\ UNCHANGED <<number, recordVars>>

AbandonHand ==
    /\ ~Waiting
    /\ tableState' = "Waiting"
    /\ result' = NoHash
    /\ UNCHANGED <<number, recordVars>>

-----------------------------------------------------------------------------
CommitResults ==
    /\ transit' = IF transit # <<>> /\ transit[Len(transit)] = Copy THEN transit
                  ELSE Append(transit, Copy)
    /\ actions' = actions \cup {Copy}
    /\ UNCHANGED <<handVars, base, recorded>>

CommitLands ==
    /\ transit # <<>>
    /\ base' = Head(transit) /\ transit' = Tail(transit)
    /\ UNCHANGED <<handVars, actions, recorded>>

(* Nothing is recorded but what the base layer's own copy says. *)
MatchesTheCopy(a) == base = a

(* Mutant: a number that was recorded may be recorded again. *)
AnyOld(a) == a.number <= recorded.last + MaxHandAdvance

(* Neither a replay nor implausibly far ahead. *)
Plausible(a) == a.number > recorded.last /\ a.number <= recorded.last + MaxHandAdvance

RecordHandResult(a) ==
    recorded' = IF MatchesTheCopy(a) /\ Plausible(a)
                THEN [last |-> a.number, result |-> a.result, count |-> recorded.count + 1]
                ELSE recorded

RunAction(a) ==
    /\ a \in actions /\ actions' = actions \ {a}
    /\ RecordHandResult(a)
    /\ UNCHANGED <<handVars, transit, base>>

(* A failing action is stripped and the commit goes on without it. *)
DropAction(a) ==
    /\ a \in actions /\ actions' = actions \ {a}
    /\ UNCHANGED <<handVars, transit, base, recorded>>

HistoryInit ==
    /\ tableState = "Waiting" /\ number = 0 /\ result = NoHash
    /\ transit = <<>> /\ actions = {} /\ base = [number |-> 0, result |-> NoHash]
    /\ recorded = [last |-> 0, result |-> NoHash, count |-> 0]

HistoryNext ==
    \/ StartHand \/ SettleHand \/ AbandonHand \/ CommitResults \/ CommitLands
    \/ \E a \in actions : RunAction(a) \/ DropAction(a)

HistorySpec == HistoryInit /\ [][HistoryNext]_historyVars

-----------------------------------------------------------------------------
(* Properties.                                                             *)

(* However commits, their arrivals and their actions interleave with the   *)
(* hands, each hand is recorded at most once and in order, never one the   *)
(* base layer has no copy of, and the hash is that of the hand or of the   *)
(* one before it: nothing older, nothing made up.                          *)
RecordedIsRecent ==
    /\ recorded.count <= recorded.last /\ recorded.last <= base.number
    /\ recorded.result \in {NoHash, recorded.last, recorded.last - 1}
=============================================================================
