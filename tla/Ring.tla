-------------------------------- MODULE Ring --------------------------------
(***************************************************************************)
(* The ring of seats every component walks round. Both loops of the engine *)
(* (next_occupied and find_next_actor in betting.rs) and the odd-chip walk *)
(* of pots.rs are the same walk: clockwise, strictly after a seat, wrapping *)
(* round to that seat itself.                                              *)
(***************************************************************************)
EXTENDS Integers, FiniteSets

CONSTANT MaxSeats     \* MAX_SEATS, 6 in the code

ASSUME SeatsAssumption == MaxSeats \in Nat /\ MaxSeats >= 2

Seats == 0 .. MaxSeats - 1

(* Option::None of the engine, NO_SEAT of the accounts. *)
NoSeat == MaxSeats

Lesser(a, b) == IF a <= b THEN a ELSE b

(* Steps clockwise from one seat to another, a full circle to itself. *)
Steps(from, i) == IF i > from THEN i - from ELSE i - from + MaxSeats

(* First seat of S strictly after from, wrapping round to from itself. *)
FirstAfter(from, S) ==
    IF S = {} THEN NoSeat
    ELSE CHOOSE i \in S : \A j \in S : Steps(from, i) <= Steps(from, j)
=============================================================================
