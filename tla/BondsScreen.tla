------------------------------ MODULE BondsScreen ------------------------------
(***************************************************************************)
(* The bonds screen (bonds.tsx): settling a bond from its card, over the   *)
(* bond list of BondStore and the hook.                                    *)
(*                                                                         *)
(* An attempt is the closure of one press of SETTLE BOND.  It outlives the *)
(* component that began it: when the user leaves the screen its later      *)
(* setState calls go nowhere, but the transaction, the receipt and what    *)
(* the receipt tells the store do not stop.  The transaction lives on the  *)
(* chain, where anyone else may settle first.                              *)
(***************************************************************************)
EXTENDS BondStore

CONSTANT Attempts   \* bound: presses of SETTLE BOND in a behaviour

VARIABLES
    attempts,       \* the attempts made: where each stands, and its transaction
    screen          \* the mounted component: SettleState, attempt, note

screenVars == <<attempts, screen>>
allVars == <<vars, screenVars>>

NoAttempt == [phase |-> "none", bond |-> CHOOSE b \in Bonds : TRUE, mounted |-> FALSE, tx |-> "none"]
Busy == screen.state \in {"preflight", "submitted"}

ScreenInit ==
    /\ Init
    /\ attempts = [t \in Attempts |-> NoAttempt]
    /\ screen = [state |-> "idle", shown |-> {}, note |-> "none"]

(* setState of attempt t reaches the screen while its component is mounted. *)
ScreenShows(t, state, note) ==
    screen' = IF attempts[t].mounted
              THEN [state |-> state, shown |-> {t}, note |-> note] ELSE screen

Goes(t, phase) == attempts' = [attempts EXCEPT ![t].phase = phase]

(* settlementPreflight *)
Preflight(b) ==
    CASE chain[b].state = Settled -> "alreadySettled"
      [] Mature(b)                -> "ok"
      [] OTHER                    -> "refused"

(* resolveSettlementOutcome, after a successful receipt. *)
OutcomeNote(storageState, postReceiptFailed) ==
    IF storageState = Settled \/ ~ (postReceiptFailed \/ storageState = Absent)
    THEN "none" ELSE "confirming"

-----------------------------------------------------------------------------
(* SETTLE BOND is enabled: the row is finalized and mature, and no attempt *)
(* of this screen is under way.                                            *)
Offered(b) == account # NoAccount /\ CanOfferSettlement(b, block) /\ ~ Busy

Press(t, b) ==
    /\ attempts[t].phase = "none"
    /\ Offered(b)
    /\ attempts' = [attempts EXCEPT ![t] =
                      [phase |-> "preflight", bond |-> b, mounted |-> TRUE, tx |-> "none"]]
    /\ screen' = [state |-> "preflight", shown |-> {t}, note |-> "none"]
    /\ UNCHANGED vars

(* The read-only preflight answers from storage. *)
PreflightAnswers(t) ==
    LET check == Preflight(attempts[t].bond) IN
    /\ attempts[t].phase = "preflight"
    /\ \/ /\ check = "ok"
          /\ Goes(t, "estimate")
          /\ UNCHANGED <<vars, screen>>
       \/ /\ check # "ok"
          /\ Goes(t, "done")
          /\ ScreenShows(t, IF check = "alreadySettled" THEN "success" ELSE "error",
                            IF check = "alreadySettled" THEN "already" ELSE "none")
          /\ ShowAndReload(records)
          /\ UNCHANGED <<chainVars, account, index, awaited, historyFailures, refreshes>>

(* The preflight or the estimate fails, or the wallet refuses: before      *)
(* anything was sent, the screen shows an error.                           *)
FailsBeforeSending(t) ==
    /\ attempts[t].phase \in {"preflight", "estimate", "signing"}
    /\ Goes(t, "done")
    /\ ScreenShows(t, "error", "none")
    /\ UNCHANGED vars

(* submitWithBoundedGas: the exact call is simulated, then signed. *)
Estimate(t) ==
    /\ attempts[t].phase = "estimate"
    /\ Mature(attempts[t].bond)
    /\ Goes(t, "signing")
    /\ UNCHANGED <<vars, screen>>

Sign(t) ==
    /\ attempts[t].phase = "signing"
    /\ account # NoAccount
    /\ attempts' = [attempts EXCEPT ![t].phase = "submitted", ![t].tx = "pending"]
    /\ ScreenShows(t, "submitted", "none")
    /\ UNCHANGED vars

(* The chain includes the transaction; a bond settles once. *)
Mine(t) ==
    /\ attempts[t].tx = "pending"
    /\ IF Mature(attempts[t].bond)
       THEN /\ SettleOnChain(attempts[t].bond)
            /\ attempts' = [attempts EXCEPT ![t].tx = "succeeded"]
       ELSE /\ attempts' = [attempts EXCEPT ![t].tx = "reverted"]
            /\ UNCHANGED chain
    /\ UNCHANGED <<block, storeVars, screen>>

(* Mutant: any mined receipt counts. *)
ReceiptMined(t) == attempts[t].tx \in {"succeeded", "reverted"}

(* assertReceiptSucceeded: a mined receipt is not a successful one. *)
ReceiptSucceeded(t) == attempts[t].tx = "succeeded"

ReceiptArrives(t) ==
    /\ attempts[t].phase = "submitted"
    /\ attempts[t].tx \in {"succeeded", "reverted"}
    /\ IF ReceiptSucceeded(t)
       THEN /\ Goes(t, "readback")
            /\ ScreenShows(t, "success", "none")
            /\ MarkSettledFromReceipt(attempts[t].bond, FALSE)
            /\ UNCHANGED <<chainVars, account, index, awaited, historyFailures, refreshes>>
       ELSE /\ Goes(t, "done")
            /\ ScreenShows(t, "error", "none")
            /\ UNCHANGED vars

(* Mutant: no receipt is taken for a failure. *)
StateWithoutReceiptFailed == "error"

(* What the screen says when waiting for the receipt fails. *)
StateWithoutReceipt == "submitted"

ReceiptUnavailable(t) ==
    /\ attempts[t].phase = "submitted"
    /\ Goes(t, "done")
    /\ ScreenShows(t, StateWithoutReceipt, "unread")
    /\ UNCHANGED vars

(* After the receipt: decode the event, read the bond back, tell the store. *)
(* A failure here only changes the note.                                    *)
ReadBack(t, answered) ==
    LET b == attempts[t].bond IN
    /\ attempts[t].phase = "readback"
    /\ Goes(t, "done")
    /\ screen' = IF attempts[t].mounted
                 THEN [screen EXCEPT !.note = OutcomeNote(IF answered THEN chain[b].state ELSE Absent,
                                                          ~ answered)]
                 ELSE screen
    /\ IF answered THEN MarkSettledFromReceipt(b, TRUE) ELSE ShowAndReload(records)
    /\ UNCHANGED <<chainVars, account, index, awaited, historyFailures, refreshes>>

(* The user goes to another screen and comes back: a new component. *)
LeaveScreen ==
    /\ screen.state # "idle"
    /\ screen' = [state |-> "idle", shown |-> {}, note |-> "none"]
    /\ attempts' = [t \in Attempts |-> [attempts[t] EXCEPT !.mounted = FALSE]]
    /\ UNCHANGED vars

(* A reload of the page ends every attempt; what was sent stays sent. *)
ReloadScreen ==
    /\ ReloadPage
    /\ UNCHANGED chainVars
    /\ screen' = [state |-> "idle", shown |-> {}, note |-> "none"]
    /\ attempts' = [t \in Attempts |->
                      [attempts[t] EXCEPT !.mounted = FALSE,
                                          !.phase = IF @ = "none" THEN @ ELSE "done"]]

AttemptStep(t) ==
    \/ \E b \in Bonds : Press(t, b)
    \/ PreflightAnswers(t)
    \/ FailsBeforeSending(t)
    \/ Estimate(t)
    \/ Sign(t)
    \/ Mine(t)
    \/ ReceiptArrives(t)
    \/ ReceiptUnavailable(t)
    \/ \E answered \in BOOLEAN : ReadBack(t, answered)

ScreenNext ==
    \/ (ChainStep \/ StoreStep) /\ UNCHANGED screenVars
    \/ \E t \in Attempts : AttemptStep(t)
    \/ LeaveScreen
    \/ ReloadScreen

ScreenSpec == ScreenInit /\ [][ScreenNext]_allVars /\ Fairness

-----------------------------------------------------------------------------
ScreenTypeOK ==
    /\ TypeOK
    /\ attempts \in [Attempts ->
          [phase : {"none", "preflight", "estimate", "signing", "submitted", "readback", "done"},
           bond : Bonds, mounted : BOOLEAN,
           tx : {"none", "pending", "succeeded", "reverted"}]]
    /\ screen \in [state : {"idle", "preflight", "submitted", "success", "error"},
                   shown : SUBSET Attempts,
                   note : {"none", "already", "confirming", "unread"}]

(* The screen never contradicts the chain: an error is shown only for an   *)
(* attempt whose transaction was never sent or was reverted, whatever      *)
(* failed after it was sent, and success only for a bond the hook has      *)
(* settled (settlement.ts:8-10 "a successful receipt is final";            *)
(* bonds.tsx:213 "do not claim failure").                                  *)
ScreenHonest ==
    \A t \in screen.shown :
        /\ screen.state = "error" => attempts[t].tx \in {"none", "reverted"}
        /\ screen.state = "success" => chain[attempts[t].bond].state = Settled

(* What the screen may never do, whatever is left of the attempts of       *)
(* earlier components: be in a state it has no text for, or contradict     *)
(* the chain (bonds.tsx settle).                                           *)
ScreenSafe == ScreenTypeOK /\ ScreenHonest

(* useBonds.ts:91-92: an account change invalidates every row at once, "so *)
(* a stale list is never shown under a new address".  Every row held is a  *)
(* bond of the connected account.                                          *)
OwnBondsOnly == \A b \in Held(records) : chain[b].owner = account

(* useBonds.ts:146-147: once a settlement receipt was seen, "nothing read  *)
(* afterwards may put it back to FINALIZED, so the settle button           *)
(* disappears at once and stays gone".                                     *)
ReceiptIsFinal ==
    \A t \in Attempts :
        attempts[t].phase = "readback" => records[attempts[t].bond].state # Finalized
=============================================================================
