------------------------------- MODULE Ledger -------------------------------
(***************************************************************************)
(* What the program promises about money, with no tables, seats or layers  *)
(* in sight (player.rs:5-16): a player's wealth changes only by buying, by *)
(* selling, or by a hand it plays, and the vault covers every chip. Module *)
(* Custody implements it: sitting, leaving, clearing seats, sweeping,      *)
(* closing tables and moving accounts between the layers change nothing.   *)
(***************************************************************************)
EXTENDS Integers, FiniteSetsExt

CONSTANTS Players, Treasury

VARIABLES
    wealth,    \* chips of each player, wherever they are
    playing,   \* players of the running hand, {} between hands
    forfeited, \* chips start_hand dropped (README, findings)
    vault      \* USDC in the vault, in chips

ledgerVars == <<wealth, playing, forfeited, vault>>

Worth(S, of) == SumFunctionOnSet(of, S)

LedgerInit ==
    /\ wealth = [p \in Players |-> 0]
    /\ playing = {} /\ forfeited = 0 /\ vault = 0

(* One player's chips change by what the vault gains or loses. *)
Trade ==
    /\ vault' # vault
    /\ vault' >= 0
    /\ UNCHANGED <<playing, forfeited>>
    /\ \E p \in Players :
           /\ wealth[p] + vault' - vault >= 0
           /\ wealth' = [wealth EXCEPT ![p] = @ + vault' - vault]

Deal ==
    /\ playing = {}
    /\ Cardinality(playing') >= 2
    /\ UNCHANGED vault
    /\ \A p \in Players :
           IF p \in playing' THEN wealth'[p] = wealth[p] ELSE wealth'[p] <= wealth[p]
    /\ forfeited' = forfeited + Worth(Players, wealth) - Worth(Players, wealth')

(* A hand moves chips between its players and to the house. *)
Close ==
    /\ playing # {}
    /\ playing' = {}
    /\ UNCHANGED <<forfeited, vault>>
    /\ \A p \in Players \ (playing \cup {Treasury}) : wealth'[p] = wealth[p]
    /\ \A p \in Players : wealth'[p] >= 0
    /\ Treasury \notin playing => wealth'[Treasury] >= wealth[Treasury]
    /\ Worth(Players, wealth') = Worth(Players, wealth)

LedgerNext == Trade \/ Deal \/ Close

LedgerSpec == LedgerInit /\ [][LedgerNext]_ledgerVars
=============================================================================
