--------------------------- MODULE PrivacyProofs ---------------------------
(***************************************************************************)
(* Proofs about Privacy, for every number of seats and set of players: the *)
(* flag tells the truth, and cards are only ever dealt to an account its   *)
(* occupant alone can read or chose to open.                               *)
(***************************************************************************)
EXTENDS Privacy, TLAPS

(* An account holds or is owed cards only during a hand, on the rollup,    *)
(* where no seat changes hands, and from the moment start_hand counted it  *)
(* in its permission names the occupant or was released by it.             *)
Guarded(i) ==
    /\ Occupied(i)
    /\ perm[i] = occupant[i] \/ (perm[i] = Public /\ gaveUp[i] = occupant[i])

DealtAreGuarded ==
    /\ ~Waiting => onRollup
    /\ \A i \in cards \cup dealtIn : ~Waiting /\ Guarded(i)

IInv == TypeOK /\ FlagNamesOccupant /\ DealtAreGuarded

USE SeatsAssumption, PrivacyAssumption

LEMMA InitInv == Init => IInv
BY DEF Init, IInv, TypeOK, FlagNamesOccupant, DealtAreGuarded, Waiting

(* secure_hole makes the three agree, release_hole clears the flag with    *)
(* the permission and leaves the occupant's name behind.                   *)
LEMMA PermissionSteps ==
    ASSUME IInv, NEW p \in Players, NEW i \in Seats, SecureHole(p, i) \/ ReleaseHole(i)
    PROVE  IInv'
<1>1. CASE SecureHole(p, i)
  <2>1. /\ perm' = [perm EXCEPT ![i] = occupant[i]]
        /\ cardsSecured' = [cardsSecured EXCEPT ![i] = TRUE]
        /\ Occupied(i) /\ UNCHANGED <<onRollup, occupant, cards, dealt, tableState, dealtIn, deck>>
        /\ gaveUp' \in [Seats -> Players \cup {Nobody}]
        /\ \A j \in Seats \ {i} : gaveUp'[j] = gaveUp[j]
    BY <1>1 DEF SecureHole, MayBeSecured, handVars, IInv, TypeOK
  <2>2. TypeOK'
    BY <2>1 DEF IInv, TypeOK, Occupied
  <2>3. FlagNamesOccupant'
    BY <2>1 DEF IInv, TypeOK, FlagNamesOccupant, Occupied
  <2>4. DealtAreGuarded'
    BY <2>1 DEF IInv, TypeOK, DealtAreGuarded, Guarded, Occupied, Waiting
  <2> QED
    BY <2>2, <2>3, <2>4 DEF IInv
<1>2. CASE ReleaseHole(i)
  <2>1. /\ perm' = IF perm[i] = Absent THEN perm ELSE [perm EXCEPT ![i] = Public]
        /\ cardsSecured' = [cardsSecured EXCEPT ![i] = FALSE]
        /\ gaveUp' = [gaveUp EXCEPT ![i] = occupant[i]]
        /\ UNCHANGED <<onRollup, occupant, cards, dealt, tableState, dealtIn, deck>>
    BY <1>2 DEF ReleaseHole, handVars
  <2>2. TypeOK'
    BY <2>1 DEF IInv, TypeOK
  <2>3. FlagNamesOccupant'
    BY <2>1 DEF IInv, TypeOK, FlagNamesOccupant, Occupied
  <2>4. DealtAreGuarded'
    BY <2>1 DEF IInv, TypeOK, DealtAreGuarded, Guarded, Occupied, Waiting
  <2> QED
    BY <2>2, <2>3, <2>4 DEF IInv
<1> QED
  BY <1>1, <1>2

(* A seat changes hands on the base layer, where no cards are.             *)
LEMMA SeatSteps ==
    ASSUME IInv, NEW p \in Players, NEW i \in Seats, TakeSeat(p, i) \/ VacateSeat(i)
    PROVE  IInv'
<1>1. /\ ~onRollup
      /\ \E q \in Players \cup {Nobody} : occupant' = [occupant EXCEPT ![i] = q]
      /\ cardsSecured' = [cardsSecured EXCEPT ![i] = FALSE]
      /\ UNCHANGED <<onRollup, perm, cards, dealt, tableState, dealtIn, deck, gaveUp>>
  BY DEF TakeSeat, VacateSeat, FlagOfTheOccupant, handVars
<1>2. TypeOK'
  BY <1>1 DEF IInv, TypeOK
<1>3. FlagNamesOccupant'
  BY <1>1 DEF IInv, TypeOK, FlagNamesOccupant, Occupied
<1>4. DealtAreGuarded'
  BY <1>1 DEF IInv, TypeOK, DealtAreGuarded, Waiting
<1> QED
  BY <1>2, <1>3, <1>4 DEF IInv

LEMMA TableSteps ==
    ASSUME IInv,
           \/ SecureDeck \/ Delegate \/ Undelegate \/ Draw \/ ResetShuffle
           \/ StartHand \/ DealHoleCards \/ EndHand \/ UNCHANGED vars
    PROVE  IInv'
<1>1. UNCHANGED <<occupant, perm, cardsSecured, gaveUp>>
  BY DEF SecureDeck, Delegate, Undelegate, Draw, ResetShuffle, StartHand, DealHoleCards, EndHand,
     vars
<1>2. FlagNamesOccupant'
  BY <1>1 DEF IInv, FlagNamesOccupant, Occupied
<1>3. CASE SecureDeck \/ Delegate \/ Undelegate \/ Draw \/ ResetShuffle \/ UNCHANGED vars
  <2>1. TypeOK'
    BY <1>1, <1>3 DEF IInv, TypeOK, SecureDeck, Delegate, Undelegate, Draw, ResetShuffle, vars,
       handVars
  <2>2. DealtAreGuarded'
    BY <1>1, <1>3 DEF IInv, TypeOK, DealtAreGuarded, Guarded, Occupied, Waiting, SecureDeck,
       Delegate, Undelegate, Draw, ResetShuffle, vars, handVars
  <2> QED
    BY <1>2, <2>1, <2>2 DEF IInv
<1>4. CASE StartHand
  <2>1. PICK players \in SUBSET Dealable :
          /\ onRollup /\ Waiting /\ dealtIn' = players
          /\ dealt' = {} /\ tableState' = "HandInProgress"
          /\ UNCHANGED <<onRollup, cards, deck>>
    BY <1>4 DEF StartHand
  <2>2. TypeOK'
    BY <1>1, <2>1 DEF IInv, TypeOK, Dealable
  <2>3. DealtAreGuarded'
    BY <1>1, <2>1 DEF IInv, TypeOK, FlagNamesOccupant, DealtAreGuarded, Guarded, Dealable,
       Occupied, Waiting
  <2> QED
    BY <1>2, <2>2, <2>3 DEF IInv
<1>5. CASE DealHoleCards
  <2>1. /\ UNCHANGED <<onRollup, tableState, dealtIn, deck>>
        /\ cards' = (cards \cap dealt) \cup (dealtIn \ dealt) /\ dealt' = Seats
    BY <1>5 DEF DealHoleCards
  <2>2. TypeOK'
    BY <1>1, <2>1 DEF IInv, TypeOK
  <2>3. cards' \cup dealtIn' \subseteq cards \cup dealtIn
    BY <2>1
  <2>4. ~Waiting' <=> ~Waiting
    BY <2>1 DEF Waiting
  <2>5. DealtAreGuarded'
    BY <1>1, <2>1, <2>3, <2>4 DEF IInv, DealtAreGuarded, Guarded, Occupied
  <2> QED
    BY <1>2, <2>2, <2>5 DEF IInv
<1>6. CASE EndHand
  <2>1. TypeOK' /\ DealtAreGuarded'
    BY <1>1, <1>6 DEF IInv, TypeOK, DealtAreGuarded, Waiting, EndHand
  <2> QED
    BY <1>2, <2>1 DEF IInv
<1> QED
  BY <1>3, <1>4, <1>5, <1>6

(* Permission, flag and cards agree in every order of securing, releasing, *)
(* dealing, pausing and changing seats.                                    *)
THEOREM Invariant == Init /\ [][Next]_vars => []IInv
<1>1. IInv /\ [Next]_vars => IInv'
  <2> SUFFICES ASSUME IInv, [Next]_vars PROVE IInv'
    OBVIOUS
  <2>1. CASE \E p \in Players, i \in Seats : SecureHole(p, i) \/ TakeSeat(p, i)
    BY <2>1, PermissionSteps, SeatSteps
  <2>2. ASSUME NEW i \in Seats, ReleaseHole(i) \/ VacateSeat(i) PROVE IInv'
    <3>1. occupant[i] \in Players
      BY <2>2 DEF IInv, TypeOK, ReleaseHole, VacateSeat, Occupied
    <3> QED
      BY <2>2, <3>1, PermissionSteps, SeatSteps
  <2> QED
    BY <2>1, <2>2, TableSteps DEF Next
<1> QED
  BY <1>1, InitInv, PTL

(* The accounts' fields keep their types; no permission is ever private    *)
(* with no member, which nobody could update again.                        *)
THEOREM TypeCorrect == FairSpec => []TypeOK
<1>1. IInv => TypeOK
  BY DEF IInv
<1> QED
  BY <1>1, Invariant, PTL DEF FairSpec

(* The flag start_hand reads names the occupant the permission names.      *)
THEOREM FlagCorrect == FairSpec => []FlagNamesOccupant
<1>1. IInv => FlagNamesOccupant
  BY DEF IInv
<1> QED
  BY <1>1, Invariant, PTL DEF FairSpec

(* Cards lie only where their owner alone reads them or chose otherwise.   *)
THEOREM ReadersCorrect == FairSpec => []OnlyTheOccupantReads
<1>1. IInv => OnlyTheOccupantReads
  BY DEF IInv, DealtAreGuarded, Guarded, OnlyTheOccupantReads
<1> QED
  BY <1>1, Invariant, PTL DEF FairSpec

(* Cards that are hidden stay hidden until the hand ends. *)
THEOREM HiddenCorrect == FairSpec => HiddenStaysHidden
<1>1. IInv /\ [Next]_vars =>
        [\A i \in cards \cap cards' : perm[i] = occupant[i] => perm'[i] = occupant'[i]]_vars
  <2> SUFFICES ASSUME IInv, [Next]_vars, NEW i \in cards \cap cards', perm[i] = occupant[i]
               PROVE  perm'[i] = occupant'[i]
    OBVIOUS
  <2>1. onRollup
    BY DEF IInv, DealtAreGuarded
  <2>2. CASE \E p \in Players, j \in Seats : SecureHole(p, j) \/ TakeSeat(p, j)
    BY <2>1, <2>2 DEF IInv, TypeOK, SecureHole, TakeSeat
  <2>3. CASE \E j \in Seats : ReleaseHole(j) \/ VacateSeat(j)
    BY <2>1, <2>3 DEF IInv, TypeOK, ReleaseHole, HoldsNoCards, VacateSeat
  <2>4. CASE \/ SecureDeck \/ Delegate \/ Undelegate \/ Draw \/ ResetShuffle
             \/ StartHand \/ DealHoleCards \/ EndHand \/ UNCHANGED vars
    BY <2>4 DEF SecureDeck, Delegate, Undelegate, Draw, ResetShuffle, StartHand, DealHoleCards,
       EndHand, vars
  <2> QED
    BY <2>2, <2>3, <2>4 DEF Next
<1> QED
  BY <1>1, Invariant, PTL DEF FairSpec, HiddenStaysHidden
=============================================================================
