--------------------------- MODULE ShuffleProofs ---------------------------
(***************************************************************************)
(* The seed is what the seats publish, it is fixed before it can be known, *)
(* and no draw deals twice: for any number of seats, requests, hands, lost *)
(* salts and changes of occupant.                                          *)
(***************************************************************************)
EXTENDS Shuffle, TLAPS

Salts(i) == {i} \X Nat

Draws == (1 .. requests) \X {"board", "hole"}

ShuffleTypeOK ==
    /\ held \in [Seats -> Nat]
    /\ occupied \in [Seats -> BOOLEAN]
    /\ salt \in [Seats -> SUBSET (Seats \X Nat)]
    /\ \A i \in Seats : salt[i] \subseteq Salts(i)
    /\ saltState \in [Seats -> {None, Committed, Revealed}]
    /\ saltMask \subseteq Seats
    /\ handShuffle \in {Idle, Requested}
    /\ deckShuffle \in {Idle, Requested, Fulfilled}
    /\ tableState \in {"Waiting", "HandInProgress"}
    /\ requests \in Nat
    /\ boardDraw \in 0 .. requests /\ holeDraw \in 0 .. requests
    /\ pending \subseteq Draws /\ used \subseteq Draws
    /\ saltsAt \in Seq(SUBSET (Seats \X Nat)) /\ Len(saltsAt) = requests
    /\ saltXor \subseteq Seats \X Nat
    /\ moved \in BOOLEAN

(* The two accounts agree on whether a draw is out, and a deck is full     *)
(* only when both draws are on it.                                         *)
PhasesAgree ==
    /\ deckShuffle = Idle <=> handShuffle = Idle
    /\ deckShuffle = Idle => boardDraw = None /\ holeDraw = None
    /\ deckShuffle = Fulfilled => boardDraw # None /\ holeDraw # None

(* Unless an occupant changed, a seat in the mask is one whose salt stands *)
(* revealed, so it reveals no second one.                                  *)
MaskIsRevealed == ~moved => \A i \in saltMask : saltState[i] = Revealed

(* While a request is out the salts are those it was made with.            *)
SaltsFixed == handShuffle = Requested => requests > 0 /\ saltsAt[requests] = saltXor

(* A draw is in one place: still to come, on the deck, or dealt; the deck  *)
(* holds a dealt one only while its hand runs.                             *)
DrawsMoveOn ==
    /\ pending \cap used = {}
    /\ <<boardDraw, "board">> \notin pending /\ <<holeDraw, "hole">> \notin pending
    /\ Waiting => <<boardDraw, "board">> \notin used /\ <<holeDraw, "hole">> \notin used

IInv == /\ ShuffleTypeOK /\ PhasesAgree /\ MaskIsRevealed /\ SaltsReproduceSeed
        /\ SaltsFixed /\ DrawsMoveOn

LEMMA Initially == Init => IInv
<1> SUFFICES ASSUME Init PROVE IInv
  OBVIOUS
<1> USE DEF None, Committed, Revealed, Idle, Requested, Fulfilled, Waiting
<1>1. ShuffleTypeOK
  <2>1. /\ held \in [Seats -> Nat] /\ occupied \in [Seats -> BOOLEAN]
        /\ saltState \in [Seats -> {None, Committed, Revealed}]
    BY DEF Init
  <2>2. /\ salt \in [Seats -> SUBSET (Seats \X Nat)]
        /\ \A i \in Seats : salt[i] \subseteq Salts(i)
    BY DEF Init
  <2>3. saltsAt \in Seq(SUBSET (Seats \X Nat)) /\ Len(saltsAt) = requests
    BY DEF Init
  <2>4. /\ saltXor = {} /\ saltMask = {} /\ pending = {} /\ used = {} /\ moved \in BOOLEAN
        /\ handShuffle = Idle /\ deckShuffle = Idle /\ tableState = "Waiting"
        /\ boardDraw = 0 /\ holeDraw = 0 /\ requests = 0
    BY DEF Init
  <2> QED BY <2>1, <2>2, <2>3, <2>4 DEF ShuffleTypeOK
<1>2. PublishedXor = {}
  BY DEF Init, PublishedXor
<1>3. SaltsReproduceSeed
  BY <1>2 DEF Init, SaltsReproduceSeed
<1>4. PhasesAgree /\ MaskIsRevealed /\ SaltsFixed /\ DrawsMoveOn
  BY DEF Init, PhasesAgree, MaskIsRevealed, SaltsFixed, DrawsMoveOn
<1> QED BY <1>1, <1>3, <1>4 DEF IInv

-----------------------------------------------------------------------------
(* The clients' and the seats' steps.                                      *)

(* What the salts, the mask and the seats' phases are made of.             *)
saltVars == <<salt, saltState, saltXor, saltMask, moved>>

(* What a draw and a request are made of.                                  *)
drawVars == <<handShuffle, deckVars, tableState, oracleVars, used>>

LEMMA SaltsStay ==
    ASSUME IInv, UNCHANGED saltVars
    PROVE  MaskIsRevealed' /\ SaltsReproduceSeed'
BY DEF IInv, MaskIsRevealed, SaltsReproduceSeed, PublishedXor, saltVars

LEMMA DrawsStay ==
    ASSUME IInv, UNCHANGED drawVars, handShuffle = Requested => saltXor' = saltXor
    PROVE  PhasesAgree' /\ SaltsFixed' /\ DrawsMoveOn'
BY DEF IInv, PhasesAgree, SaltsFixed, DrawsMoveOn, Waiting, drawVars, deckVars, oracleVars

LEMMA LoseSaltStep ==
    ASSUME IInv, NEW i \in Seats, LoseSalt(i)
    PROVE  IInv'
<1>1. ShuffleTypeOK'
  BY DEF IInv, ShuffleTypeOK, LoseSalt, seatVars, deckVars, oracleVars, Draws
<1>2. UNCHANGED saltVars /\ UNCHANGED drawVars
  BY DEF LoseSalt, saltVars, drawVars, seatVars
<1> QED BY <1>1, <1>2, SaltsStay, DrawsStay DEF IInv, saltVars

(* A commitment clears the seat's salt: it is not counted yet, unless the  *)
(* occupant changed.                                                       *)
LEMMA CommitStep ==
    ASSUME IInv, NEW i \in Seats, CommitSalt(i)
    PROVE  IInv'
<1> USE DEF None, Committed, Revealed
<1>1. ShuffleTypeOK'
  BY DEF IInv, ShuffleTypeOK, CommitSalt, clientVars, deckVars, oracleVars, Draws
<1>2. ~moved => i \notin saltMask
  BY DEF IInv, MaskIsRevealed, CommitSalt, MayCommit
<1>3. saltMask \subseteq Seats /\ salt \in [Seats -> SUBSET (Seats \X Nat)]
      /\ saltState \in [Seats -> {None, Committed, Revealed}]
  BY DEF IInv, ShuffleTypeOK
<1>4. \A j \in Seats : j # i => salt'[j] = salt[j] /\ saltState'[j] = saltState[j]
  BY <1>3 DEF CommitSalt
<1>5. saltMask' = saltMask /\ saltXor' = saltXor /\ moved' = moved
  BY DEF CommitSalt
<1>6. MaskIsRevealed'
  BY <1>2, <1>3, <1>4, <1>5 DEF IInv, MaskIsRevealed
<1>7. SaltsReproduceSeed'
  <2> SUFFICES ASSUME ~moved' PROVE saltXor' = PublishedXor'
    BY DEF SaltsReproduceSeed
  <2>1. \A j \in saltMask : salt'[j] = salt[j]
    BY <1>2, <1>3, <1>4, <1>5
  <2>2. PublishedXor' = PublishedXor
    BY <2>1, <1>5 DEF PublishedXor
  <2> QED BY <2>2, <1>5 DEF IInv, SaltsReproduceSeed
<1>8. PhasesAgree' /\ SaltsFixed' /\ DrawsMoveOn'
  BY DrawsStay DEF CommitSalt, drawVars
<1> QED BY <1>1, <1>6, <1>7, <1>8 DEF IInv

(* A seat that reveals was not counted, so its salt is new to the XOR.     *)
LEMMA RevealStep ==
    ASSUME IInv, NEW i \in Seats, RevealSalt(i)
    PROVE  IInv'
<1> USE DEF None, Committed, Revealed, Idle, Requested
<1>1. SaltOf(i) \subseteq Salts(i) /\ SaltOf(i) \subseteq Seats \X Nat
  BY DEF IInv, ShuffleTypeOK, SaltOf, Salts
<1>2. /\ saltMask \subseteq Seats /\ salt \in [Seats -> SUBSET (Seats \X Nat)]
      /\ saltState \in [Seats -> {None, Committed, Revealed}]
      /\ \A j \in Seats : salt[j] \subseteq Salts(j)
  BY DEF IInv, ShuffleTypeOK
<1>3. /\ \A j \in Seats : j # i => salt'[j] = salt[j] /\ saltState'[j] = saltState[j]
      /\ salt'[i] = SaltOf(i) /\ saltState'[i] = Revealed
  BY <1>2 DEF RevealSalt
<1>4. saltMask' = saltMask \cup {i} /\ moved' = moved /\ saltXor' = Xor(saltXor, SaltOf(i))
  BY DEF RevealSalt
<1>5. ShuffleTypeOK'
  <2>1. /\ salt' \in [Seats -> SUBSET (Seats \X Nat)]
        /\ saltState' \in [Seats -> {None, Committed, Revealed}]
    BY <1>1, <1>2 DEF RevealSalt
  <2>2. \A j \in Seats : salt'[j] \subseteq Salts(j)
    BY <1>1, <1>2, <1>3
  <2>3. saltXor' \subseteq Seats \X Nat /\ saltMask' \subseteq Seats
    BY <1>1, <1>4 DEF IInv, ShuffleTypeOK, Xor
  <2> QED BY <2>1, <2>2, <2>3 DEF IInv, ShuffleTypeOK, RevealSalt, clientVars, deckVars,
                                  oracleVars, Draws
<1>6. MaskIsRevealed'
  BY <1>2, <1>3, <1>4 DEF IInv, MaskIsRevealed
<1>7. SaltsReproduceSeed'
  <2> SUFFICES ASSUME ~moved' PROVE saltXor' = PublishedXor'
    BY DEF SaltsReproduceSeed
  <2>1. i \notin saltMask
    BY <1>4 DEF IInv, MaskIsRevealed, RevealSalt
  <2>2. \A j \in saltMask : salt'[j] = salt[j]
    BY <2>1, <1>2, <1>3
  <2>3. PublishedXor' = PublishedXor \cup SaltOf(i)
    BY <2>2, <1>3, <1>4 DEF PublishedXor
  <2>4. PublishedXor \cap SaltOf(i) = {}
    BY <2>1, <1>2 DEF PublishedXor, SaltOf, Salts
  <2>5. saltXor = PublishedXor
    BY <1>4 DEF IInv, SaltsReproduceSeed
  <2> QED BY <2>3, <2>4, <2>5, <1>4 DEF Xor
<1>8. PhasesAgree' /\ SaltsFixed' /\ DrawsMoveOn'
  BY DrawsStay DEF RevealSalt, RevealsOpen, drawVars
<1> QED BY <1>5, <1>6, <1>7, <1>8 DEF IInv

(* A change of occupant is either remembered or happened with no salt      *)
(* counted.                                                                *)
LEMMA ChangeStep ==
    ASSUME IInv, NEW i \in Seats, ChangeSeat(i)
    PROVE  IInv'
<1> USE DEF None, Committed, Revealed
<1>1. ShuffleTypeOK'
  BY DEF IInv, ShuffleTypeOK, ChangeSeat, deckVars, oracleVars, Draws
<1>2. ~moved' => saltMask' = {} /\ saltXor' = {}
  <2>1. saltMask = {} => PublishedXor = {}
    BY DEF PublishedXor
  <2> QED BY <2>1 DEF IInv, SaltsReproduceSeed, ChangeSeat
<1>3. saltMask' = {} => PublishedXor' = {}
  BY DEF PublishedXor
<1>4. MaskIsRevealed' /\ SaltsReproduceSeed'
  BY <1>2, <1>3 DEF MaskIsRevealed, SaltsReproduceSeed
<1>5. PhasesAgree' /\ SaltsFixed' /\ DrawsMoveOn'
  BY DrawsStay DEF ChangeSeat, drawVars
<1> QED BY <1>1, <1>4, <1>5 DEF IInv

-----------------------------------------------------------------------------
(* The request, its answers and its reset.                                 *)

(* The request is numbered after every draw there is.                      *)
LEMMA RequestStep ==
    ASSUME IInv, RequestShuffle
    PROVE  IInv'
<1> USE DEF None, Idle, Requested, Fulfilled
<1>1. /\ requests \in Nat /\ requests' = requests + 1
      /\ pending \subseteq Draws /\ used \subseteq Draws
      /\ boardDraw = None /\ holeDraw = None
  BY DEF IInv, ShuffleTypeOK, PhasesAgree, RequestShuffle
<1>2. Draws \subseteq Draws' /\ {<<requests + 1, "board">>, <<requests + 1, "hole">>} \subseteq Draws'
  BY <1>1 DEF Draws
<1>3. ShuffleTypeOK'
  <2>1. /\ saltsAt' \in Seq(SUBSET (Seats \X Nat)) /\ Len(saltsAt') = requests'
    BY DEF IInv, ShuffleTypeOK, RequestShuffle
  <2>2. pending' \subseteq Draws' /\ used' \subseteq Draws'
    BY <1>1, <1>2 DEF RequestShuffle
  <2>3. boardDraw' \in 0 .. requests' /\ holeDraw' \in 0 .. requests'
    BY <1>1 DEF RequestShuffle
  <2> QED BY <1>1, <2>1, <2>2, <2>3 DEF IInv, ShuffleTypeOK, RequestShuffle, clientVars, seatVars
<1>4. MaskIsRevealed' /\ SaltsReproduceSeed'
  BY SaltsStay DEF RequestShuffle, saltVars, seatVars
<1>5. PhasesAgree'
  BY DEF IInv, PhasesAgree, RequestShuffle
<1>6. SaltsFixed'
  <2>1. saltsAt \in Seq(SUBSET (Seats \X Nat)) /\ Len(saltsAt) = requests
        /\ saltXor \in SUBSET (Seats \X Nat)
    BY DEF IInv, ShuffleTypeOK
  <2>2. saltsAt'[requests + 1] = saltXor
    BY <1>1, <2>1 DEF RequestShuffle
  <2> QED BY <1>1, <2>2 DEF SaltsFixed, RequestShuffle
<1>7. DrawsMoveOn'
  <2>1. \A kind \in {"board", "hole"} : <<requests + 1, kind>> \notin used
    BY <1>1 DEF Draws
  <2>2. \A kind \in {"board", "hole"} : <<0, kind>> \notin pending'
    BY <1>1 DEF Draws, RequestShuffle
  <2> QED BY <1>1, <2>1, <2>2 DEF IInv, DrawsMoveOn, RequestShuffle, Waiting
<1> QED BY <1>3, <1>4, <1>5, <1>6, <1>7 DEF IInv

(* An answer goes from what is pending to the deck, once.                  *)
LEMMA AnswerStep ==
    ASSUME IInv, ShuffleCallback \/ HoleCallback
    PROVE  IInv'
<1> USE DEF None, Idle, Requested, Fulfilled
<1>1. UNCHANGED saltVars /\ UNCHANGED <<held, occupied, saltCommit>>
      /\ UNCHANGED <<handShuffle, tableState, requests, saltsAt, used>>
  BY DEF ShuffleCallback, HoleCallback, saltVars, clientVars, seatVars
<1>2. MaskIsRevealed' /\ SaltsReproduceSeed'
  BY <1>1, SaltsStay
<1>3. SaltsFixed'
  BY <1>1 DEF IInv, SaltsFixed, saltVars
<1>4. CASE ShuffleCallback
  <2> PICK k \in 1 .. requests :
        /\ <<k, "board">> \in pending /\ pending' = pending \ {<<k, "board">>}
        /\ deckShuffle = Requested
        /\ boardDraw' = k /\ holeDraw' = holeDraw
        /\ deckShuffle' = IF BothArrived(k, holeDraw) THEN Fulfilled ELSE Requested
    BY <1>4 DEF ShuffleCallback
  <2>1. ShuffleTypeOK'
    BY <1>1 DEF IInv, ShuffleTypeOK, saltVars, Draws
  <2>2. PhasesAgree'
    BY <1>1 DEF IInv, ShuffleTypeOK, PhasesAgree, BothArrived
  <2>3. DrawsMoveOn'
    BY <1>1 DEF IInv, DrawsMoveOn, Waiting
  <2> QED BY <1>2, <1>3, <2>1, <2>2, <2>3 DEF IInv
<1>5. CASE HoleCallback
  <2> PICK k \in 1 .. requests :
        /\ <<k, "hole">> \in pending /\ pending' = pending \ {<<k, "hole">>}
        /\ deckShuffle = Requested
        /\ holeDraw' = k /\ boardDraw' = boardDraw
        /\ deckShuffle' = IF BothArrived(boardDraw, k) THEN Fulfilled ELSE Requested
    BY <1>5 DEF HoleCallback
  <2>1. ShuffleTypeOK'
    BY <1>1 DEF IInv, ShuffleTypeOK, saltVars, Draws
  <2>2. PhasesAgree'
    BY <1>1 DEF IInv, ShuffleTypeOK, PhasesAgree, BothArrived
  <2>3. DrawsMoveOn'
    BY <1>1 DEF IInv, DrawsMoveOn, Waiting
  <2> QED BY <1>2, <1>3, <2>1, <2>2, <2>3 DEF IInv
<1> QED BY <1>4, <1>5

LEMMA LoseAnswerStep ==
    ASSUME IInv, LoseAnswer
    PROVE  IInv'
<1>1. UNCHANGED saltVars /\ pending' \subseteq pending
      /\ UNCHANGED <<held, occupied, handShuffle, deckVars, tableState, requests, saltsAt, used>>
  BY DEF LoseAnswer, saltVars, clientVars, seatVars
<1>2. ShuffleTypeOK'
  BY <1>1 DEF IInv, ShuffleTypeOK, saltVars, deckVars, Draws
<1>3. PhasesAgree' /\ SaltsFixed' /\ DrawsMoveOn'
  BY <1>1 DEF IInv, PhasesAgree, SaltsFixed, DrawsMoveOn, Waiting, deckVars, saltVars
<1> QED BY <1>1, <1>2, <1>3, SaltsStay DEF IInv

(* A reset leaves the salts and takes the draws off the deck.              *)
LEMMA ResetStep ==
    ASSUME IInv, ResetShuffle
    PROVE  IInv'
<1> USE DEF None, Idle, Requested, Fulfilled
<1>1. ShuffleTypeOK'
  BY DEF IInv, ShuffleTypeOK, ResetShuffle, Zeroize, clientVars, seatVars, oracleVars, Draws
<1>2. MaskIsRevealed' /\ SaltsReproduceSeed'
  BY SaltsStay DEF ResetShuffle, saltVars, seatVars
<1>3. PhasesAgree' /\ SaltsFixed'
  BY DEF PhasesAgree, SaltsFixed, ResetShuffle, Zeroize
<1>4. DrawsMoveOn'
  BY DEF IInv, ShuffleTypeOK, DrawsMoveOn, ResetShuffle, Zeroize, oracleVars, Draws
<1> QED BY <1>1, <1>2, <1>3, <1>4 DEF IInv

LEMMA TickStep ==
    ASSUME IInv, Tick
    PROVE  IInv'
<1>1. ShuffleTypeOK'
  BY DEF IInv, ShuffleTypeOK, Tick, clientVars, seatVars, deckVars, oracleVars, Draws
<1>2. UNCHANGED saltVars /\ UNCHANGED drawVars
  BY DEF Tick, saltVars, drawVars, seatVars
<1> QED BY <1>1, <1>2, SaltsStay, DrawsStay DEF IInv, saltVars

-----------------------------------------------------------------------------
(* The hand.                                                               *)

(* The two draws on the deck become dealt ones as the hand starts.         *)
LEMMA StartStep ==
    ASSUME IInv, StartHand
    PROVE  IInv'
<1> USE DEF None, Idle, Requested, Fulfilled
<1>1. /\ boardDraw \in 1 .. requests /\ holeDraw \in 1 .. requests
  BY DEF IInv, ShuffleTypeOK, PhasesAgree, StartHand
<1>2. used' \subseteq Draws'
  BY <1>1 DEF IInv, ShuffleTypeOK, StartHand, oracleVars, Draws
<1>3. ShuffleTypeOK'
  BY <1>2 DEF IInv, ShuffleTypeOK, StartHand, clientVars, seatVars, deckVars, oracleVars, Draws
<1>4. MaskIsRevealed' /\ SaltsReproduceSeed'
  BY SaltsStay DEF StartHand, saltVars, seatVars
<1>5. PhasesAgree' /\ SaltsFixed'
  BY DEF IInv, PhasesAgree, SaltsFixed, StartHand, deckVars, oracleVars
<1>6. DrawsMoveOn'
  BY DEF IInv, DrawsMoveOn, StartHand, deckVars, oracleVars, Waiting
<1> QED BY <1>3, <1>4, <1>5, <1>6 DEF IInv

(* The end of a hand clears the salts' count and the deck together.        *)
LEMMA EndStep ==
    ASSUME IInv, EndHand
    PROVE  IInv'
<1> USE DEF None, Idle, Requested, Fulfilled
<1>1. ShuffleTypeOK'
  <2>1. held' \in [Seats -> Nat]
    BY DEF IInv, ShuffleTypeOK, EndHand
  <2>2. saltState' \in [Seats -> {None, Committed, Revealed}]
    BY DEF EndHand
  <2>3. /\ UNCHANGED <<occupied, salt, requests, pending, saltsAt, used>>
        /\ tableState' = "Waiting" /\ handShuffle' = Idle /\ saltXor' = {} /\ saltMask' = {}
        /\ boardDraw' = None /\ holeDraw' = None /\ deckShuffle' = Idle /\ moved' \in BOOLEAN
    BY DEF EndHand, Zeroize, oracleVars
  <2> QED BY <2>1, <2>2, <2>3 DEF IInv, ShuffleTypeOK, Draws
<1>2. MaskIsRevealed'
  BY DEF MaskIsRevealed, EndHand
<1>3. SaltsReproduceSeed'
  BY DEF SaltsReproduceSeed, PublishedXor, EndHand
<1>4. PhasesAgree' /\ SaltsFixed'
  BY DEF PhasesAgree, SaltsFixed, EndHand, Zeroize
<1>5. DrawsMoveOn'
  BY DEF IInv, ShuffleTypeOK, DrawsMoveOn, EndHand, Zeroize, oracleVars, Draws
<1> QED BY <1>1, <1>2, <1>3, <1>4, <1>5 DEF IInv

-----------------------------------------------------------------------------
LEMMA Preserved == IInv /\ [Next]_vars => IInv'
<1> SUFFICES ASSUME IInv, [Next]_vars PROVE IInv'
  OBVIOUS
<1>1. CASE Next
  BY <1>1, LoseSaltStep, CommitStep, RevealStep, ChangeStep, RequestStep, AnswerStep,
     LoseAnswerStep, ResetStep, TickStep, StartStep, EndStep DEF Next
<1>2. CASE UNCHANGED vars
  <2>1. ShuffleTypeOK'
    BY <1>2 DEF IInv, ShuffleTypeOK, vars, clientVars, seatVars, deckVars, oracleVars, Draws
  <2>2. UNCHANGED saltVars /\ UNCHANGED drawVars
    BY <1>2 DEF vars, saltVars, drawVars, seatVars
  <2> QED BY <2>1, <2>2, SaltsStay, DrawsStay DEF IInv, saltVars
<1> QED BY <1>1, <1>2

(* Types, phases, the mask, the request's salts and the life of a draw.    *)
THEOREM Invariant == Spec => []IInv
BY Initially, Preserved, PTL DEF Spec

(* The salts on the seats give the seed however commits, reveals, resets   *)
(* and hands interleave, as long as no occupant changed in between.        *)
THEOREM SeedCorrect == Spec => []SaltsReproduceSeed
<1>1. IInv => SaltsReproduceSeed
  BY DEF IInv
<1> QED BY <1>1, Invariant, PTL

(* A hand dealt from the answer to the last request uses the salts that    *)
(* were fixed when that request was made.                                  *)
THEOREM LatestDrawCorrect == Spec => []LatestDrawAfterSalts
<1>1. IInv => LatestDrawAfterSalts
  BY DEF IInv, ShuffleTypeOK, PhasesAgree, SaltsFixed, LatestDrawAfterSalts, Idle, Requested,
         Fulfilled
<1> QED BY <1>1, Invariant, PTL

(* No draw deals two hands, answers that come after a reset included.      *)
THEOREM DrawsDealOnceCorrect == Spec => DrawsDealOnce
<1>1. IInv => (Waiting /\ ~Waiting' =>
          <<boardDraw, "board">> \notin used /\ <<holeDraw, "hole">> \notin used)
  BY DEF IInv, DrawsMoveOn
<1> QED BY <1>1, Invariant, PTL DEF DrawsDealOnce
=============================================================================
