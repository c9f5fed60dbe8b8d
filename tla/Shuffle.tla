------------------------------ MODULE Shuffle ------------------------------
(***************************************************************************)
(* The verifiable shuffle                                                  *)
(* (programs/solpoker/src/instructions/shuffle.rs): players commit and     *)
(* reveal salts, two draws of randomness are requested and arrive          *)
(* separately, late or never, a stale request is reset, and start_hand     *)
(* combines what is there into the seed.                                   *)
(*                                                                         *)
(* A salt is the token <<seat, n>> for the n-th salt drawn at a seat, so   *)
(* the XOR of several is their symmetric difference and the zero salt the  *)
(* empty set. A draw is named by the                                       *)
(* number of the request it answers. The oracle is external: it may answer *)
(* any request once, at any later time. Betting and settlement are one     *)
(* step (module Hand), and seats change hands only on the base layer,      *)
(* which the accounts reach when the deck is publishable. secure_deck, run *)
(* once before the first request and never undone, is taken as done.       *)
(***************************************************************************)
EXTENDS Ring, Sequences

CONSTANTS
    MaxRequests,   \* bound: requests for randomness
    MaxHands,      \* bound: hands played
    MaxLosses,     \* bound: times a client loses the salt it stored
    MaxMoves       \* bound: times a seat changes hands

ASSUME ShuffleAssumption ==
    /\ MaxRequests \in Nat /\ MaxHands \in Nat
    /\ MaxLosses \in Nat /\ MaxMoves \in Nat

None == 0          \* SALT_NONE, SHUFFLE_IDLE: also no draw
Committed == 1
Revealed == 2
Idle == 0
Requested == 1
Fulfilled == 2

VARIABLES
    \* clients
    held,          \* number of the salt the client at a seat has in storage
    losses,        \* salts lost so far
    moves,         \* seat changes so far
    \* seat accounts
    occupied, saltCommit, salt, saltState,
    \* hand account
    saltXor, saltMask, handShuffle,
    late,          \* now against Hand::deadline, as request_shuffle stamps it
    \* deck account
    boardDraw, holeDraw, deckShuffle,
    \* table account
    tableState, handNumber,
    \* the oracle
    requests,      \* requests made so far
    pending,       \* answers still to come: <<request, kind>>
    \* history
    saltsAt,       \* what saltXor was when each request was made
    used,          \* draws that dealt a hand
    moved          \* a seat changed hands since the salts were last cleared

seatVars == <<occupied, saltCommit, salt, saltState>>
deckVars == <<boardDraw, holeDraw, deckShuffle>>
oracleVars == <<requests, pending, saltsAt>>
clientVars == <<held, losses, moves>>
vars == <<clientVars, seatVars, saltXor, saltMask, handShuffle, late, deckVars, tableState,
          handNumber, oracleVars, used, moved>>

Xor(a, b) == (a \ b) \cup (b \ a)

SaltOf(i) == {<<i, held[i]>>}

Waiting == tableState = "Waiting"

-----------------------------------------------------------------------------
(* A client's storage is cleared: getOrCreateSalt draws another salt.      *)
LoseSalt(i) ==
    /\ losses < MaxLosses
    /\ held' = [held EXCEPT ![i] = @ + 1]
    /\ losses' = losses + 1
    /\ UNCHANGED <<moves, seatVars, saltXor, saltMask, handShuffle, late, deckVars,
                   tableState, handNumber, oracleVars, used, moved>>

(* Mutant: a commitment may be replaced at any time. *)
AnyTimeCommit(i) == TRUE

MayCommit(i) == saltMask = {} \/ saltState[i] = None

CommitSalt(i) ==
    /\ occupied[i]
    /\ handShuffle = Idle
    /\ MayCommit(i)
    /\ saltCommit' = [saltCommit EXCEPT ![i] = SaltOf(i)]
    /\ salt' = [salt EXCEPT ![i] = {}]
    /\ saltState' = [saltState EXCEPT ![i] = Committed]
    /\ UNCHANGED <<clientVars, occupied, saltXor, saltMask, handShuffle, late, deckVars,
                   tableState, handNumber, oracleVars, used, moved>>

(* Mutant: salts may still be revealed while the draw is on its way. *)
RevealsNeverClose == TRUE

RevealsOpen == handShuffle = Idle

RevealSalt(i) ==
    /\ occupied[i]
    /\ RevealsOpen
    /\ saltState[i] = Committed
    /\ saltCommit[i] = SaltOf(i)
    /\ salt' = [salt EXCEPT ![i] = SaltOf(i)]
    /\ saltState' = [saltState EXCEPT ![i] = Revealed]
    /\ saltXor' = Xor(saltXor, SaltOf(i))
    /\ saltMask' = saltMask \cup {i}
    /\ UNCHANGED <<clientVars, occupied, saltCommit, handShuffle, late, deckVars, tableState,
                   handNumber, oracleVars, used, moved>>

(* Two draws are asked for at once, and the wait for them is stamped.      *)
RequestShuffle ==
    /\ requests < MaxRequests
    /\ handShuffle = Idle
    /\ Cardinality(saltMask) >= 2
    /\ deckShuffle' = Requested
    /\ handShuffle' = Requested
    /\ late' = FALSE
    /\ requests' = requests + 1
    /\ pending' = pending \cup {<<requests + 1, "board">>, <<requests + 1, "hole">>}
    /\ saltsAt' = Append(saltsAt, saltXor)
    /\ UNCHANGED <<clientVars, seatVars, saltXor, saltMask, boardDraw, holeDraw, tableState,
                   handNumber, used, moved>>

-----------------------------------------------------------------------------
(* The two callbacks. They know neither the request nor the hand they      *)
(* answer: any draw still pending is taken while the deck waits for one.   *)

BothArrived(board, hole) == board # None /\ hole # None

ShuffleCallback == \E k \in 1 .. requests :
    /\ <<k, "board">> \in pending
    /\ pending' = pending \ {<<k, "board">>}
    /\ deckShuffle = Requested
    /\ boardDraw' = k
    /\ deckShuffle' = IF BothArrived(k, holeDraw) THEN Fulfilled ELSE Requested
    /\ UNCHANGED <<clientVars, seatVars, saltXor, saltMask, handShuffle, late, holeDraw,
                   tableState, handNumber, requests, saltsAt, used, moved>>

HoleCallback == \E k \in 1 .. requests :
    /\ <<k, "hole">> \in pending
    /\ pending' = pending \ {<<k, "hole">>}
    /\ deckShuffle = Requested
    /\ holeDraw' = k
    /\ deckShuffle' = IF BothArrived(boardDraw, k) THEN Fulfilled ELSE Requested
    /\ UNCHANGED <<clientVars, seatVars, saltXor, saltMask, handShuffle, late, boardDraw,
                   tableState, handNumber, requests, saltsAt, used, moved>>

(* An answer is lost, or refused because the deck does not wait for it.    *)
LoseAnswer == \E answer \in pending :
    /\ pending' = pending \ {answer}
    /\ UNCHANGED <<clientVars, seatVars, saltXor, saltMask, handShuffle, late, deckVars,
                   tableState, handNumber, requests, saltsAt, used, moved>>

(* Mutant: the draws stay on the deck. *)
KeepDraws == UNCHANGED <<boardDraw, holeDraw>> /\ deckShuffle' = Idle

(* Deck::zeroize *)
Zeroize == boardDraw' = None /\ holeDraw' = None /\ deckShuffle' = Idle

(* Mutant: only a request without an answer is reset. *)
StaleUnanswered == handShuffle = Requested /\ late /\ deckShuffle = Requested

Stale == handShuffle = Requested /\ late

(* reset_shuffle keeps the salts. *)
ResetShuffle ==
    /\ Waiting
    /\ Stale
    /\ Zeroize
    /\ handShuffle' = Idle
    /\ UNCHANGED <<clientVars, seatVars, saltXor, saltMask, late, tableState, handNumber,
                   oracleVars, used, moved>>

Tick ==
    /\ Waiting /\ handShuffle = Requested /\ ~late
    /\ late' = TRUE
    /\ UNCHANGED <<clientVars, seatVars, saltXor, saltMask, handShuffle, deckVars, tableState,
                   handNumber, oracleVars, used, moved>>

-----------------------------------------------------------------------------
(* What the rest of the program does to this state.                        *)

(* start_hand: the seed is the board draw XOR saltXor, kept on the deck.   *)
StartHand ==
    /\ handNumber < MaxHands
    /\ Waiting
    /\ deckShuffle = Fulfilled
    /\ Cardinality({i \in Seats : occupied[i]}) >= 2
    /\ tableState' = "HandInProgress"
    /\ handNumber' = handNumber + 1
    /\ used' = used \cup {<<boardDraw, "board">>, <<holeDraw, "hole">>}
    /\ UNCHANGED <<clientVars, seatVars, saltXor, saltMask, handShuffle, late, deckVars,
                   oracleVars, moved>>

(* settle_hand and abandon_hand: the salts themselves stay on the seats,   *)
(* for the verifier. Clients draw a new salt for the next hand number.     *)
EndHand ==
    /\ ~Waiting
    /\ tableState' = "Waiting"
    /\ Zeroize
    /\ handShuffle' = Idle
    /\ saltXor' = {}
    /\ saltMask' = {}
    /\ saltState' = [i \in Seats |-> None]
    /\ moved' = FALSE
    /\ held' = [i \in Seats |-> held[i] + 1]
    /\ UNCHANGED <<losses, moves, occupied, saltCommit, salt, late, handNumber, oracleVars, used>>

(* undelegate_core refuses a deck that holds a draw, but not one that      *)
(* waits for one (assert_deck_publishable).                                *)
Publishable == Waiting /\ boardDraw = None /\ holeDraw = None

(* leave_table and join_table: reset_for_new_hand clears the seat's salt,  *)
(* while the hand keeps what it already counted.                           *)
ChangeSeat(i) ==
    /\ moves < MaxMoves
    /\ moves' = moves + 1
    /\ Publishable
    /\ held' = [held EXCEPT ![i] = @ + 1]
    /\ occupied' = [occupied EXCEPT ![i] = ~@]
    /\ saltCommit' = [saltCommit EXCEPT ![i] = {}]
    /\ salt' = [salt EXCEPT ![i] = {}]
    /\ saltState' = [saltState EXCEPT ![i] = None]
    /\ moved' = (moved \/ saltMask # {})
    /\ UNCHANGED <<losses, saltXor, saltMask, handShuffle, late, deckVars, tableState,
                   handNumber, oracleVars, used>>

-----------------------------------------------------------------------------
Init ==
    /\ held = [i \in Seats |-> 1] /\ losses = 0 /\ moves = 0
    /\ occupied = [i \in Seats |-> TRUE]
    /\ saltCommit = [i \in Seats |-> {}]
    /\ salt = [i \in Seats |-> {}]
    /\ saltState = [i \in Seats |-> None]
    /\ saltXor = {} /\ saltMask = {}
    /\ handShuffle = Idle /\ late = FALSE
    /\ boardDraw = None /\ holeDraw = None /\ deckShuffle = Idle
    /\ tableState = "Waiting" /\ handNumber = 0
    /\ requests = 0 /\ pending = {} /\ saltsAt = <<>>
    /\ used = {} /\ moved = FALSE

Next ==
    \/ RequestShuffle \/ ShuffleCallback \/ HoleCallback \/ LoseAnswer
    \/ ResetShuffle \/ Tick \/ StartHand \/ EndHand
    \/ \E i \in Seats : LoseSalt(i) \/ CommitSalt(i) \/ RevealSalt(i) \/ ChangeSeat(i)

Spec == Init /\ [][Next]_vars

(* Time passes, clients' cranks look after their own salts and share the   *)
(* permissionless calls, and a hand that started ends (module Hand).       *)
FairSpec ==
    /\ Spec
    /\ WF_vars(Tick) /\ WF_vars(ResetShuffle)
    /\ WF_vars(RequestShuffle) /\ WF_vars(EndHand)
    /\ \A i \in Seats : WF_vars(CommitSalt(i)) /\ WF_vars(RevealSalt(i))

-----------------------------------------------------------------------------
(* Properties.                                                             *)

(* XOR of the salts the seats publish (no two seats hold the same one).    *)
PublishedXor == UNION {salt[i] : i \in saltMask}

(* As long as nobody leaves, the salts on the seats XOR to what the seed   *)
(* was made with: no salt is counted twice, replaced or dropped, however   *)
(* commits, reveals, resets and hands interleave.                          *)
SaltsReproduceSeed == ~moved => saltXor = PublishedXor

(* No draw deals two hands ("Without this a table would reuse one deck     *)
(* order forever", settle.rs:223-224), stragglers included.                *)
DrawsDealOnce ==
    [][Waiting /\ ~Waiting' =>
          <<boardDraw, "board">> \notin used /\ <<holeDraw, "hole">> \notin used]_vars

(* The salts of a hand dealt from the answer to the last request are those *)
(* that were fixed when the request was made.                              *)
LatestDrawAfterSalts ==
    deckShuffle = Fulfilled /\ boardDraw = requests => saltsAt[requests] = saltXor

(* A request never sticks: answered or not, usable or not, the shuffle is  *)
(* played or cleared (the reason for reset_shuffle, shuffle.rs:278-290).   *)
ShuffleClears == handShuffle = Requested ~> handShuffle = Idle
=============================================================================
