------------------------------ MODULE Privacy ------------------------------
(***************************************************************************)
(* Who may read a hole account (instructions/privacy.rs), from sitting     *)
(* down to being dealt in (hand.rs), through hands, pauses and changes of  *)
(* occupant. Each seat has two records of it that are written apart: the   *)
(* permission account, which lives on the rollup and outlasts the trips    *)
(* off it, and the flag cards_secured on the seat, which start_hand reads. *)
(*                                                                         *)
(* The permission program is external: only the member a private           *)
(* permission names can update it, as privacy.rs:112-116 and 181-188 say   *)
(* of the enclave; a public or absent one anybody can. The table moves     *)
(* between the layers as a whole here: on a half-moved one (module         *)
(* Custody) no instruction of this module runs that could not run before   *)
(* or after the move.                                                      *)
(***************************************************************************)
EXTENDS Ring

CONSTANTS
    Players,   \* wallets
    Nobody,    \* EMPTY_SEAT
    Absent,    \* a permission account without data
    Public     \* a permission with is_private = false

ASSUME PrivacyAssumption ==
    /\ Nobody \notin Players /\ {Absent, Public} \cap (Players \cup {Nobody}) = {}
    /\ Absent # Public

VARIABLES
    onRollup,
    occupant,
    perm,          \* of the hole account: absent, public, or private with one member
    cardsSecured,
    cards,         \* seats whose hole account holds cards
    dealt,         \* seats with hole.hand_number = hand.hand_number
    tableState,
    dealtIn,
    deck,          \* "open", "secured" (secure_deck ran), "drawn" (SHUFFLE_FULFILLED)
    gaveUp         \* history: the player that released the seat's permission and has not
                   \* secured the seat itself since

handVars == <<cards, dealt, tableState, dealtIn, deck>>
vars == <<onRollup, occupant, perm, cardsSecured, handVars, gaveUp>>

Waiting == tableState = "Waiting"
Occupied(i) == occupant[i] # Nobody

-----------------------------------------------------------------------------
(* privacy.rs, on the rollup *)

SecureDeck ==
    /\ onRollup
    /\ deck = "open" /\ deck' = "secured"
    /\ UNCHANGED <<onRollup, occupant, perm, cardsSecured, cards, dealt, tableState, dealtIn,
                   gaveUp>>

(* Mutant: a permission that is already there is created again, and that   *)
(* fails (what happened after a pause, privacy.rs:43-53).                  *)
CreatedOnce(i) == Occupied(i) /\ perm[i] = Absent

MayBeSecured(i) == Occupied(i)

MayUpdate(p, i) == perm[i] \in {Absent, Public, p}

SecureHole(p, i) ==
    /\ onRollup
    /\ MayBeSecured(i)
    /\ MayUpdate(p, i)
    /\ perm' = [perm EXCEPT ![i] = occupant[i]]
    /\ cardsSecured' = [cardsSecured EXCEPT ![i] = TRUE]
    /\ gaveUp' = IF gaveUp[i] = p THEN [gaveUp EXCEPT ![i] = Nobody] ELSE gaveUp
    /\ UNCHANGED <<onRollup, occupant, handVars>>

HoldsNoCards(i) == i \notin cards

ReleaseHole(i) ==
    /\ onRollup
    /\ Occupied(i) /\ HoldsNoCards(i)
    /\ MayUpdate(occupant[i], i)
    /\ perm' = IF perm[i] = Absent THEN perm ELSE [perm EXCEPT ![i] = Public]
    /\ cardsSecured' = [cardsSecured EXCEPT ![i] = FALSE]
    /\ gaveUp' = [gaveUp EXCEPT ![i] = occupant[i]]
    /\ UNCHANGED <<onRollup, occupant, handVars>>

-----------------------------------------------------------------------------
(* table.rs and delegation.rs. Seats change hands on the base layer only;  *)
(* the permission stays as it was.                                         *)

(* Mutant: the flag stays with the chair. *)
FlagOfTheChair(i) == cardsSecured' = cardsSecured

FlagOfTheOccupant(i) == cardsSecured' = [cardsSecured EXCEPT ![i] = FALSE]

TakeSeat(p, i) ==
    /\ ~onRollup
    /\ ~Occupied(i) /\ \A j \in Seats : occupant[j] # p
    /\ occupant' = [occupant EXCEPT ![i] = p]
    /\ FlagOfTheOccupant(i)
    /\ UNCHANGED <<onRollup, perm, handVars, gaveUp>>

(* leave_table, stand_up and vacate_seat. *)
VacateSeat(i) ==
    /\ ~onRollup
    /\ Occupied(i)
    /\ occupant' = [occupant EXCEPT ![i] = Nobody]
    /\ FlagOfTheOccupant(i)
    /\ UNCHANGED <<onRollup, perm, handVars, gaveUp>>

Delegate ==
    /\ ~onRollup /\ onRollup' = TRUE
    /\ UNCHANGED <<occupant, perm, cardsSecured, handVars, gaveUp>>

Undelegate ==
    /\ onRollup /\ Waiting
    /\ deck # "drawn" /\ cards = {}
    /\ onRollup' = FALSE
    /\ UNCHANGED <<occupant, perm, cardsSecured, handVars, gaveUp>>

-----------------------------------------------------------------------------
(* hand.rs, settle.rs and shuffle.rs *)

(* Both callbacks of a request (module Shuffle). *)
Draw ==
    /\ onRollup /\ Waiting /\ deck = "secured"
    /\ deck' = "drawn"
    /\ UNCHANGED <<onRollup, occupant, perm, cardsSecured, cards, dealt, tableState, dealtIn,
                   gaveUp>>

ResetShuffle ==
    /\ onRollup /\ Waiting /\ deck = "drawn"
    /\ deck' = "secured"
    /\ UNCHANGED <<onRollup, occupant, perm, cardsSecured, cards, dealt, tableState, dealtIn,
                   gaveUp>>

(* Mutant: no gate, as the comment at state.rs:354-363 has it. *)
AnyoneSeated == {i \in Seats : Occupied(i)}

Dealable == {i \in Seats : Occupied(i) /\ cardsSecured[i]}

(* Those of the dealable seats that have chips are dealt in. *)
StartHand == \E players \in SUBSET Dealable :
    /\ onRollup /\ Waiting /\ deck = "drawn"
    /\ Cardinality(players) >= 2
    /\ dealtIn' = players
    /\ dealt' = {}
    /\ tableState' = "HandInProgress"
    /\ UNCHANGED <<onRollup, occupant, perm, cardsSecured, cards, deck, gaveUp>>

DealHoleCards ==
    /\ onRollup
    /\ dealt # Seats
    /\ cards' = (cards \cap dealt) \cup (dealtIn \ dealt)
    /\ dealt' = Seats
    /\ UNCHANGED <<onRollup, occupant, perm, cardsSecured, tableState, dealtIn, deck, gaveUp>>

(* settle_hand, of a hand folded out before it was dealt too, and          *)
(* abandon_hand.                                                           *)
EndHand ==
    /\ onRollup /\ ~Waiting
    /\ tableState' = "Waiting" /\ dealtIn' = {} /\ deck' = "secured"
    /\ cards' = {}
    /\ UNCHANGED <<onRollup, occupant, perm, cardsSecured, dealt, gaveUp>>

-----------------------------------------------------------------------------
Init ==
    /\ onRollup = FALSE
    /\ occupant = [i \in Seats |-> Nobody] /\ perm = [i \in Seats |-> Absent]
    /\ cardsSecured = [i \in Seats |-> FALSE] /\ cards = {} /\ dealt = Seats
    /\ tableState = "Waiting" /\ dealtIn = {} /\ deck = "open"
    /\ gaveUp = [i \in Seats |-> Nobody]

Next ==
    \/ SecureDeck \/ Delegate \/ Undelegate \/ Draw \/ ResetShuffle
    \/ StartHand \/ DealHoleCards \/ EndHand
    \/ \E i \in Seats :
           \/ ReleaseHole(i) \/ VacateSeat(i)
           \/ \E p \in Players : SecureHole(p, i) \/ TakeSeat(p, i)

(* What every client's crank tries between hands: crank.ts:286-324.        *)
Repair(i) == Waiting /\ ~cardsSecured[i] /\ \E p \in Players : SecureHole(p, i)

(* Hands end. Cranks try each seat twice a second between hands, where a   *)
(* next hand waits for a request and its answer: a seat that can be        *)
(* secured between hand after hand is secured in the end.                  *)
FairSpec ==
    /\ Init /\ [][Next]_vars
    /\ WF_vars(EndHand)
    /\ \A i \in Seats : SF_vars(Repair(i))

-----------------------------------------------------------------------------
(* Properties.                                                             *)

(* Types of the accounts' fields. *)
TypeOK ==
    /\ onRollup \in BOOLEAN
    /\ occupant \in [Seats -> Players \cup {Nobody}]
    /\ perm \in [Seats -> Players \cup {Absent, Public}]
    /\ cardsSecured \in [Seats -> BOOLEAN] /\ cards \subseteq Seats /\ dealt \subseteq Seats
    /\ tableState \in {"Waiting", "HandInProgress"} /\ dealtIn \subseteq Seats
    /\ deck \in {"open", "secured", "drawn"}
    /\ gaveUp \in [Seats -> Players \cup {Nobody}]

(* The flag start_hand reads tells the truth about a permission it cannot  *)
(* see, across pauses and changes of occupant: "it can never vouch for a   *)
(* stale member" (privacy.rs:171-172).                                     *)
FlagNamesOccupant ==
    \A i \in Seats : cardsSecured[i] => Occupied(i) /\ perm[i] = occupant[i]

(* Cards lie on an account only its occupant can read, unless that         *)
(* occupant gave up its read right between the start and the deal of the   *)
(* hand: no other player ever reads them by what somebody else did.        *)
OnlyTheOccupantReads ==
    \A i \in cards :
        /\ Occupied(i)
        /\ perm[i] = occupant[i] \/ (perm[i] = Public /\ gaveUp[i] = occupant[i])

(* Cards on an account do not lose their secrecy: a permission that hides  *)
(* them hides them until the hand ends.                                    *)
HiddenStaysHidden ==
    [][\A i \in cards \cap cards' : perm[i] = occupant[i] => perm'[i] = occupant'[i]]_vars

(* The permission still names a player that left the seat.                 *)
Stranded(i) == perm[i] \in Players \ {occupant[i]}

(* "secure_hole can now always succeed for an occupied seat, so the seat   *)
(* heals on the next deal" (hand.rs:120-121), of seats that changed hands  *)
(* while their permission was public or not yet there.                     *)
SeatHeals ==
    \A i \in Seats :
        onRollup /\ Occupied(i) /\ ~Stranded(i) ~> cardsSecured[i] \/ ~onRollup
=============================================================================
