------------------------------ MODULE Sessions ------------------------------
(***************************************************************************)
(* Who a page plays for: the session keys it makes, keeps and loads        *)
(* (app/src/lib/session.ts, join of hooks/use-table-actions.ts, the table  *)
(* page), the crank that hands a refused key back (hooks/use-crank.ts) and *)
(* the connection that reads a player's cards (hooks/use-tee.ts). The      *)
(* wallet may be switched or disconnected, or the page reloaded, between   *)
(* any two steps of an errand, which goes on for the wallet it began for.  *)
(*                                                                         *)
(* External: the session program, and the adapter, which signs for the     *)
(* wallet that is connected. A key is a value: a token that vanishes does  *)
(* so while no page holds its key, so no two copies come to differ. The    *)
(* page has one chair of one table in view, and one errand at a time.      *)
(***************************************************************************)
EXTENDS Integers

CONSTANTS
    Wallets,
    Nobody,
    MaxFaults   \* bound: sends lost, prompts declined, answers never heard, tokens gone, redeployments

ASSUME SessionsAssumption == Nobody \notin Wallets /\ MaxFaults \in Nat

VARIABLES
    wallet,     \* useWallet's publicKey
    session,    \* the key the page holds
    doubt,      \* a restored key's token is being looked for, and is not there
    errand,     \* what is being done, for which wallet, with which key
    identity,   \* whose token the connection to the rollup carries
    connecting, \* connect's busy flag, and whom it connects
    link,       \* what the page shows of the connection
    stored,     \* the session record of each wallet: localStorage, or memorySessions
    refused,    \* whose crank has a call under way that the program refuses
    sitting, running,   \* who has the chair, and whether the table is on the rollup
    faults

teeVars == <<identity, connecting, link>>
pageVars == <<wallet, session, doubt, errand, teeVars, refused>>
tableVars == <<sitting, running>>
vars == <<pageVars, stored, tableVars, faults>>

Somebody == Wallets \cup {Nobody}

(* A key: its SessionToken ("none", "live" or "gone") and its authority;   *)
(* its age, 1 in the renewal window and 2 past validUntil; whether the     *)
(* program it was made for has been replaced.                              *)
NoKey == [token |-> "none", owner |-> Nobody, age |-> 0, outdated |-> FALSE]
Fresh(w) == [NoKey EXCEPT !.owner = w]

Idle == [step |-> "idle", for |-> Nobody, key |-> NoKey]

Fault == faults < MaxFaults /\ faults' = faults + 1
NoFault == UNCHANGED faults

-----------------------------------------------------------------------------
(* Keys.                                                                   *)

(* What the session program accepts for an authority. *)
Accepted(k, w) == k.token = "live" /\ k.owner = w /\ k.age < 2 /\ ~k.outdated

(* loadSession: nothing that is about to expire, and nothing made for      *)
(* another program, which is thrown away.                                  *)
Loaded(w) == IF stored[w].age = 0 /\ ~stored[w].outdated THEN stored[w] ELSE NoKey

Purged(w) ==
    IF stored[w].age = 0 /\ stored[w].outdated THEN [stored EXCEPT ![w] = NoKey] ELSE stored

ClearSession(w) == stored' = [stored EXCEPT ![w] = NoKey]

-----------------------------------------------------------------------------
(* The connection.                                                         *)

(* Mutant: any connection will do. *)
HasConnection(w, who) == who # Nobody

IsMine(w, who) == who = w

(* useTee's effect: it runs after the wallet or the connection changes,    *)
(* and connects unless connect is busy.                                    *)
TeeEffect(w, who, busy, shown) ==
    LET connects == w # Nobody /\ ~IsMine(w, who) /\ busy = Nobody IN
    /\ identity' = IF w = Nobody THEN Nobody ELSE who
    /\ connecting' = IF connects THEN w ELSE busy
    /\ link' = CASE w = Nobody -> "offline" [] connects -> "connecting" [] OTHER -> shown

(* Logging out takes the key of whoever is connected with it. *)
LogOut(who) == stored' = IF who = Nobody THEN stored ELSE [stored EXCEPT ![who] = NoKey]

Connected ==
    /\ connecting # Nobody
    /\ TeeEffect(wallet, connecting, Nobody, "live")
    /\ IF wallet = Nobody THEN LogOut(connecting) ELSE UNCHANGED stored
    /\ UNCHANGED <<wallet, session, doubt, errand, refused, tableVars, faults>>

(* The player dismisses the prompt, or the validator does not answer. *)
ConnectFails ==
    /\ connecting # Nobody /\ Fault
    /\ connecting' = Nobody /\ link' = "offline"
    /\ UNCHANGED <<wallet, session, doubt, errand, identity, refused, stored, tableVars>>

(* The button is there when the link is down (page.tsx:820-824). *)
Retry ==
    /\ wallet # Nobody /\ connecting = Nobody /\ link = "offline"
    /\ connecting' = wallet /\ link' = "connecting"
    /\ UNCHANGED <<wallet, session, doubt, errand, identity, refused, stored, tableVars, faults>>

-----------------------------------------------------------------------------
(* The wallet, the page and time.                                          *)

(* The page restores what it finds, and asks whether its token exists.     *)
Switch(w) ==
    /\ w # wallet
    /\ wallet' = w
    /\ TeeEffect(w, identity, connecting, link)
    /\ IF w = Nobody
       THEN session' = NoKey /\ LogOut(identity) /\ UNCHANGED doubt
       ELSE /\ session' = Loaded(w) /\ stored' = Purged(w)
            /\ doubt' = (doubt \/ Loaded(w).token = "gone")
    /\ UNCHANGED <<errand, refused, tableVars, faults>>

Checked ==
    /\ doubt /\ doubt' = FALSE
    /\ session' = NoKey
    /\ UNCHANGED <<wallet, errand, teeVars, refused, stored, tableVars, faults>>

(* Only what is in localStorage is left, if it took anything; the program  *)
(* may be a new one.                                                       *)
Reload ==
    /\ wallet' = Nobody /\ session' = NoKey /\ doubt' = FALSE /\ errand' = Idle
    /\ identity' = Nobody /\ connecting' = Nobody /\ link' = "offline" /\ refused' = Nobody
    /\ \/ stored' = stored /\ NoFault
       \/ stored' = [w \in Wallets |-> NoKey] /\ NoFault
       \/ /\ Fault
          /\ stored' = [w \in Wallets |->
                IF stored[w] = NoKey THEN NoKey ELSE [stored[w] EXCEPT !.outdated = TRUE]]
    /\ UNCHANGED tableVars

Older(k) == IF k = NoKey \/ k.age = 2 THEN k ELSE [k EXCEPT !.age = @ + 1]

(* Hours pass; no errand takes that long, no check and no call. *)
Tick ==
    /\ errand = Idle /\ ~doubt /\ refused = Nobody
    /\ session' = Older(session)
    /\ stored' = [w \in Wallets |-> Older(stored[w])]
    /\ UNCHANGED <<wallet, doubt, errand, teeVars, refused, tableVars, faults>>

Vanishes(w) ==
    /\ stored[w].token = "live" /\ stored[w] \notin {session, errand.key} /\ Fault
    /\ stored' = [stored EXCEPT ![w].token = "gone"]
    /\ UNCHANGED <<pageVars, tableVars>>

(* The table starts and stops, and its player leaves it. *)
Table ==
    /\ sitting # Nobody
    /\ \/ running' = ~running /\ UNCHANGED sitting
       \/ ~running /\ UNCHANGED running /\ sitting' = Nobody
    /\ UNCHANGED <<pageVars, stored, faults>>

-----------------------------------------------------------------------------
(* A new key.                                                              *)

(* It is made and put before the wallet.                                   *)
Prepare(step, w) == errand' = [step |-> step, for |-> w, key |-> Fresh(w)]

(* Authorise: the button is there when the page holds no key.              *)
PressAuthorise ==
    /\ wallet # Nobody /\ session = NoKey /\ errand = Idle
    /\ stored' = Purged(wallet)
    /\ IF Loaded(wallet) # NoKey
       THEN errand' = [step |-> "checking", for |-> wallet, key |-> Loaded(wallet)]
       ELSE Prepare("authorise", wallet)
    /\ UNCHANGED <<wallet, session, doubt, teeVars, refused, tableVars, faults>>

(* A key that was stored is used if its token exists, and replaced if not. *)
CheckExisting ==
    /\ errand.step = "checking"
    /\ IF errand.key.token = "live"
       THEN session' = errand.key /\ errand' = Idle /\ UNCHANGED stored
       ELSE ClearSession(errand.for) /\ Prepare("authorise", errand.for) /\ UNCHANGED session
    /\ UNCHANGED <<wallet, doubt, teeVars, refused, tableVars, faults>>

(* Sitting down. A page with a key signs with it, whatever has become of   *)
(* the key; without one the wallet signs, and makes a key too unless one   *)
(* is stored whose token exists (hasLiveSession).                          *)
PressSit ==
    /\ wallet # Nobody /\ sitting = Nobody /\ errand = Idle
    /\ IF session # NoKey
       THEN /\ sitting' = IF Accepted(session, wallet) THEN wallet ELSE sitting
            /\ UNCHANGED <<errand, stored>>
       ELSE /\ stored' = Purged(wallet)
            /\ IF Loaded(wallet).token = "live"
               THEN sitting' = wallet /\ UNCHANGED errand
               ELSE UNCHANGED sitting /\ Prepare("sit", wallet)
    /\ UNCHANGED <<wallet, session, doubt, teeVars, refused, running, faults>>

(* The wallet approves, and the transaction lands: the token exists.       *)
Lands ==
    /\ errand.step \in {"authorise", "sit"} /\ wallet = errand.for
    /\ errand' = [errand EXCEPT !.step = "landed", !.key.token = "live"]
    /\ sitting' = IF errand.step = "sit" THEN errand.for ELSE sitting
    /\ UNCHANGED <<wallet, session, doubt, teeVars, refused, stored, running, faults>>

(* The player declines, a send or a look is lost, or the wallet is another *)
(* by now.                                                                 *)
Fails ==
    /\ errand.step \in {"checking", "authorise", "sit"}
    /\ IF errand.step # "checking" /\ wallet # errand.for THEN NoFault ELSE Fault
    /\ errand' = Idle
    /\ UNCHANGED <<wallet, session, doubt, teeVars, refused, stored, tableVars>>

(* Its confirmation is heard: the key is stored and the page has it.       *)
Confirmed ==
    /\ errand.step = "landed"
    /\ stored' = [stored EXCEPT ![errand.for] = errand.key]
    /\ session' = errand.key
    /\ errand' = Idle
    /\ UNCHANGED <<wallet, doubt, teeVars, refused, tableVars, faults>>

(* It is never heard, and the key is gone with what was put on it.         *)
Unheard ==
    /\ errand.step = "landed" /\ Fault
    /\ errand' = Idle
    /\ UNCHANGED <<wallet, session, doubt, teeVars, refused, stored, tableVars>>

(* Mutant: the error is known by its number, which is another error's too. *)
NotEnoughChips(k, w) == FALSE

(* InvalidToken. A missing token is taken for a table in transit. *)
SessionError(k, w) == k.token = "live" /\ ~Accepted(k, w)

(* The crank of a player at a table that is running calls with the key.    *)
Call ==
    /\ wallet # Nobody /\ wallet = sitting /\ running /\ identity # Nobody
    /\ SessionError(session, wallet)
    /\ refused = Nobody /\ refused' = wallet
    /\ UNCHANGED <<wallet, session, doubt, errand, teeVars, stored, tableVars, faults>>

(* onSessionInvalid: the key the page has by now is dropped, and what is   *)
(* stored for the wallet that called.                                      *)
Refused ==
    /\ refused # Nobody /\ refused' = Nobody
    /\ ClearSession(refused) /\ session' = NoKey
    /\ UNCHANGED <<wallet, doubt, errand, teeVars, tableVars, faults>>

Init ==
    /\ wallet = Nobody /\ session = NoKey /\ doubt = FALSE /\ errand = Idle
    /\ identity = Nobody /\ connecting = Nobody /\ link = "offline" /\ refused = Nobody
    /\ stored = [w \in Wallets |-> NoKey]
    /\ sitting = Nobody /\ running = FALSE
    /\ faults = 0

Next ==
    \/ Connected \/ ConnectFails \/ Retry
    \/ \E w \in Somebody : Switch(w)
    \/ \E w \in Wallets : Vanishes(w)
    \/ Checked \/ Reload \/ Tick \/ Table
    \/ PressAuthorise \/ CheckExisting \/ PressSit
    \/ Lands \/ Fails \/ Confirmed \/ Unheard
    \/ Call \/ Refused

(* What was asked is answered, the wallet's prompts by the player, since   *)
(* tee-auth.ts:108 gives the signature no deadline; a player who cannot    *)
(* play presses what is offered; the crank of a running table goes on.     *)
Fairness ==
    /\ WF_vars(Connected) /\ WF_vars(Retry) /\ WF_vars(Checked)
    /\ WF_vars(PressAuthorise) /\ WF_vars(CheckExisting)
    /\ WF_vars(Lands \/ Fails) /\ WF_vars(Confirmed) /\ WF_vars(Call) /\ WF_vars(Refused)

Spec == Init /\ [][Next]_vars /\ Fairness

-----------------------------------------------------------------------------
(* Properties.                                                             *)

(* A wallet that stays connected ends up reading with its own connection   *)
(* (use-tee.ts:17-20), whatever was under way for another when it came.    *)
ReadsAsItself == \A w \in Wallets : <>[](wallet = w) => <>[](identity = w /\ link = "live")

Playing(w) == wallet = w /\ sitting = w /\ running

(* A seated player whose table is running can always get back to a key the *)
(* program accepts: no dead end (page.tsx:409-411, use-crank.ts:81-84).    *)
NoDeadEnd == \A w \in Wallets : <>[]Playing(w) => []<>Accepted(session, w)
=============================================================================
