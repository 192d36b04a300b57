-------------------------------- MODULE SwapFlow --------------------------------
(***************************************************************************)
(* The swap screen (swap.tsx): quoting the form, preparing the wallet's    *)
(* two grants, and sending the swap.                                       *)
(*                                                                         *)
(* An attempt is the closure of one press of a button.  It holds the form, *)
(* the account and the quote of the render it began in, and goes on with   *)
(* them whatever happens to the screen: an edit of the form, a switch of   *)
(* account or of network resets the screen's flow but stops no attempt.    *)
(* Everything an attempt sends goes through submitWithBoundedGas, so it    *)
(* waits for an estimate, for the wallet and for a receipt.                *)
(***************************************************************************)
EXTENDS Naturals, FiniteSets

CONSTANTS
    Forms,          \* what the form can ask: kind, direction, amount, tolerance
    Requirement,    \* what each form must be allowed to spend; 0: limits refused
    Accounts,
    NoAccount,      \* the wallet is not connected
    SESSION_SWAP_MULTIPLE,
    UINT160_MAX,
    QUOTE_RETRIES,
    Attempts,       \* bound: presses of a button in a behaviour
    MAX_CHANGES     \* bound: edits, switches, outages and lapses in a behaviour

ASSUME RequirementAssumption == Requirement \in [Forms -> Nat]
ASSUME BoundsAssumption ==
    SESSION_SWAP_MULTIPLE \in Nat \ {0} /\ QUOTE_RETRIES \in Nat /\ MAX_CHANGES \in Nat

VARIABLES
    form,           \* what the form shows
    wallet,         \* the live account, and whether its network is the deployment's
    trading,        \* protocol.canTrade and the RPC answers
    quotes,         \* the query cache: one quote per form and recipient
    grants,         \* both allowances of each account, on the chain
    known,          \* the allowances last read of each account (the query cache)
    attempts,       \* the closures: where each stands, and its transaction
    screen,         \* FlowState, the attempt it comes from, the outcome
    changes         \* edits, switches, outages and lapses so far (bound)

vars == <<form, wallet, trading, quotes, grants, known, attempts, screen, changes>>

Key == <<form, wallet.account>>
Keys == Forms \X (Accounts \union {NoAccount})

NoQuote == [data |-> FALSE, failures |-> 0, error |-> FALSE]
NoGrant == [token |-> 0, permit2 |-> 0, live |-> FALSE]
Idle == [flow |-> "idle", shown |-> {}, outcome |-> "none"]

NoAttempt(f) ==
    [phase |-> "none", call |-> "swap", form |-> f, account |-> NoAccount,
     bound |-> <<f, NoAccount>>, permit2Ready |-> FALSE,
     tx |-> "none", confirmed |-> FALSE, reset |-> FALSE]

UnderWay == {t \in Attempts : attempts[t].phase \notin {"none", "done"}}

(* sessionAllowanceFor: the grant covers a session of such swaps, or is    *)
(* refused.                                                                *)
SessionAllowanceFor(requirement) == requirement * SESSION_SWAP_MULTIPLE
SessionTooLarge(requirement) == SessionAllowanceFor(requirement) >= UINT160_MAX

(* The screen is mounted over whatever wallet is connected; an account may *)
(* hold the grants of an earlier session.                                  *)
Sessions == {SessionAllowanceFor(Requirement[f]) :
                f \in {g \in Forms : ~ SessionTooLarge(Requirement[g])}}
EarlierGrants == {NoGrant} \union
    {[token |-> s, permit2 |-> s, live |-> live] : s \in Sessions, live \in BOOLEAN}

Init ==
    /\ form \in Forms
    /\ wallet \in [account : Accounts \union {NoAccount}, home : {TRUE}]
    /\ trading = TRUE
    /\ quotes = [k \in Keys |-> NoQuote]
    /\ grants \in [Accounts -> EarlierGrants]
    /\ known = [a \in Accounts |-> NoGrant]
    /\ attempts = [t \in Attempts |-> NoAttempt(form)]
    /\ screen = Idle
    /\ changes = 0

-----------------------------------------------------------------------------
(* Mutant: the previous form's answer is kept while the new one loads. *)
ShownQuotePrevious == IF quotes[Key].data THEN Key ELSE CHOOSE k \in Keys : quotes[k].data \/ k = Key

(* The quote of the current form.  While a refetch is retried the query    *)
(* keeps its data and its success status; isError turns true only when the *)
(* retries are used up.                                                    *)
ShownQuote == Key

Quote == quotes[ShownQuote]
QuoteEnabled == trading
QuoteErrored == QuoteEnabled /\ Quote.error
QuoteReady == QuoteEnabled /\ ~ QuoteErrored /\ Quote.data

QuoteAnswers ==
    /\ QuoteEnabled
    /\ quotes' = [quotes EXCEPT ![Key] = [data |-> TRUE, failures |-> 0, error |-> FALSE]]
    /\ UNCHANGED <<form, wallet, trading, grants, known, attempts, screen, changes>>

QuoteFails ==
    LET quote == quotes[Key] IN
    /\ QuoteEnabled
    /\ quotes' = [quotes EXCEPT ![Key] =
          IF quote.failures < QUOTE_RETRIES
          THEN [quote EXCEPT !.failures = quote.failures + 1]
          ELSE [quote EXCEPT !.failures = 0, !.error = TRUE]]
    /\ UNCHANGED <<form, wallet, trading, grants, known, attempts, screen, changes>>

-----------------------------------------------------------------------------
(* Limits and spend: present when a quote is, and when the limits of the   *)
(* form can be prepared.                                                   *)
Spend == IF QuoteReady THEN Requirement[form] ELSE 0

(* allowanceStatus: sufficiency is judged against this swap. *)
Known == IF wallet.account = NoAccount THEN NoGrant ELSE known[wallet.account]
TokenReady == Known.token >= Spend
Permit2Ready == Known.permit2 >= Spend /\ Known.live
SpendingReady == Spend > 0 /\ TokenReady /\ Permit2Ready

Busy == screen.flow \in {"approving", "sending"}

CanSubmit ==
    /\ wallet.account # NoAccount
    /\ wallet.home
    /\ trading
    /\ SpendingReady
    /\ ~ Busy

NeedsWalletSetup ==
    wallet.account # NoAccount /\ wallet.home /\ Spend > 0 /\ ~ SpendingReady /\ ~ Busy

-----------------------------------------------------------------------------
Changing == changes < MAX_CHANGES /\ changes' = changes + 1

(* The effect on kind, direction, amount, tolerance, account and network:  *)
(* a finished result is dropped.  Attempts go on.                          *)
ResetScreen ==
    /\ screen' = Idle
    /\ attempts' = [t \in Attempts |->
                      [attempts[t] EXCEPT !.reset = @ \/ t \in UnderWay]]

EditForm(f) ==
    /\ Changing
    /\ f # form
    /\ form' = f
    /\ ResetScreen
    /\ UNCHANGED <<wallet, trading, quotes, grants, known>>

SwitchAccount(a) ==
    /\ Changing
    /\ a # wallet.account
    /\ wallet' = [wallet EXCEPT !.account = a]
    /\ ResetScreen
    /\ UNCHANGED <<form, trading, quotes, grants, known>>

SwitchNetwork ==
    /\ Changing
    /\ wallet' = [wallet EXCEPT !.home = ~ @]
    /\ ResetScreen
    /\ UNCHANGED <<form, trading, quotes, grants, known>>

TradingChanges ==
    /\ Changing
    /\ trading' = ~ trading
    /\ UNCHANGED <<form, wallet, quotes, grants, known, attempts, screen>>

(* The allowance queries answer. *)
ReadAllowances ==
    /\ wallet.account # NoAccount
    /\ Known # grants[wallet.account]
    /\ known' = [known EXCEPT ![wallet.account] = grants[wallet.account]]
    /\ UNCHANGED <<form, wallet, trading, quotes, grants, attempts, screen, changes>>

(* A Permit2 grant lapses; the screen knows its timestamp. *)
GrantLapses(a) ==
    /\ Changing
    /\ grants[a].live
    /\ grants' = [grants EXCEPT ![a].live = FALSE]
    /\ known' = [known EXCEPT ![a].live = FALSE]
    /\ UNCHANGED <<form, wallet, trading, quotes, attempts, screen>>

-----------------------------------------------------------------------------
(* checkContext: the wallet is connected, to the account and on the        *)
(* network the flow was started with.                                      *)
CheckContext(intended, live) == live.account # NoAccount /\ live = intended

(* What a press captures, always on the deployment's network, and what its *)
(* closure takes for the live wallet ever after: account and walletChainId *)
(* are those of the render it belongs to.                                  *)
Intended(t) == [account |-> attempts[t].account, home |-> TRUE]
SeenByClosure(t) == Intended(t)

Flow(t, flow, outcome) == screen' = [flow |-> flow, shown |-> {t}, outcome |-> outcome]

(* The context is captured and asserted in the press, before any await. *)
Begins(t, call) ==
    /\ CheckContext(wallet, wallet)
    /\ attempts' = [attempts EXCEPT ![t] =
          [NoAttempt(form) EXCEPT
              !.phase = "estimate", !.call = call, !.account = wallet.account,
              !.bound = ShownQuote, !.permit2Ready = Permit2Ready]]

Ends(t) == attempts' = [attempts EXCEPT ![t].phase = "done"]

(* prepareWallet: the ERC20 grant if it is short, then the Permit2 grant.  *)
PressPrepare(t) ==
    /\ attempts[t].phase = "none"
    /\ NeedsWalletSetup
    /\ IF SessionTooLarge(Spend)
       THEN Ends(t) /\ Flow(t, "error", "none")
       ELSE Begins(t, IF TokenReady THEN "permit2" ELSE "token") /\ Flow(t, "approving", "none")
    /\ UNCHANGED <<form, wallet, trading, quotes, grants, known, changes>>

(* submitSwap: the plan, the deadline and the summary are frozen. *)
PressSwap(t) ==
    /\ attempts[t].phase = "none"
    /\ CanSubmit
    /\ Begins(t, "swap")
    /\ Flow(t, "sending", "none")
    /\ UNCHANGED <<form, wallet, trading, quotes, grants, known, changes>>

Covered(t) ==
    LET grant == grants[attempts[t].account]
        need == Requirement[attempts[t].form]
    IN grant.token >= need /\ grant.permit2 >= need /\ grant.live

(* submitWithBoundedGas: the exact call is simulated, and the wallet asked *)
(* to sign it for the account the call names, the one of the press.        *)
Estimate(t) ==
    /\ attempts[t].phase = "estimate"
    /\ attempts[t].call = "swap" => Covered(t)
    /\ attempts' = [attempts EXCEPT ![t].phase = "signing"]
    /\ UNCHANGED <<form, wallet, trading, quotes, grants, known, screen, changes>>

(* The user signs.  The request names its account and its chain, and the   *)
(* wallet serves it only on that chain.                                    *)
Sign(t) ==
    /\ attempts[t].phase = "signing"
    /\ wallet.account # NoAccount
    /\ wallet.home
    /\ attempts' = [attempts EXCEPT ![t].phase = "waiting", ![t].tx = "pending"]
    /\ UNCHANGED <<form, wallet, trading, quotes, grants, known, screen, changes>>

(* The chain includes the transaction.  A swap executes only while both    *)
(* grants cover it and the pool meets its bounds.                          *)
Mine(t, boundsMet) ==
    LET a == attempts[t].account
        need == Requirement[attempts[t].form]
        session == SessionAllowanceFor(need)
    IN
    /\ attempts[t].tx = "pending"
    /\ \/ /\ attempts[t].call = "token"
          /\ grants' = [grants EXCEPT ![a].token = session]
          /\ attempts' = [attempts EXCEPT ![t].tx = "succeeded"]
       \/ /\ attempts[t].call = "permit2"
          /\ grants' = [grants EXCEPT ![a].permit2 = session, ![a].live = TRUE]
          /\ attempts' = [attempts EXCEPT ![t].tx = "succeeded"]
       \/ /\ attempts[t].call = "swap"
          /\ boundsMet /\ Covered(t)
          /\ grants' = [grants EXCEPT ![a].token = @ - need, ![a].permit2 = @ - need]
          /\ attempts' = [attempts EXCEPT ![t].tx = "succeeded"]
       \/ /\ attempts[t].call = "swap"
          /\ ~ (boundsMet /\ Covered(t))
          /\ attempts' = [attempts EXCEPT ![t].tx = "reverted"]
          /\ UNCHANGED grants
    /\ UNCHANGED <<form, wallet, trading, quotes, known, screen, changes>>

(* Mutant: any mined receipt counts. *)
ReceiptMined(t) == attempts[t].tx \in {"succeeded", "reverted"}

(* assertReceiptSucceeded: a mined receipt is not a successful one. *)
ReceiptSucceeded(t) == attempts[t].tx = "succeeded"

(* Mutant: one grant is taken for both. *)
NextPhaseRefetch(t) == "refetch"

(* After the receipt of a grant: the next grant, or the allowances read    *)
(* again and the flow idle.                                                *)
NextPhase(t) == IF attempts[t].call = "token" /\ ~ attempts[t].permit2Ready
                THEN "estimate" ELSE "refetch"

(* The receipt of a grant.  The context is asserted again before the next  *)
(* grant is requested.                                                     *)
GrantConfirmed(t) ==
    /\ attempts[t].phase = "waiting"
    /\ attempts[t].call # "swap"
    /\ ReceiptSucceeded(t)
    /\ attempts[t].call = "token" => CheckContext(Intended(t), SeenByClosure(t))
    /\ attempts' = [attempts EXCEPT
          ![t].phase = NextPhase(t),
          ![t].call = "permit2",
          ![t].tx = "none"]
    /\ UNCHANGED <<form, wallet, trading, quotes, grants, known, screen, changes>>

GrantsRead(t) ==
    /\ attempts[t].phase = "refetch"
    /\ known' = IF wallet.account = NoAccount THEN known
                 ELSE [known EXCEPT ![wallet.account] = grants[wallet.account]]
    /\ Ends(t)
    /\ Flow(t, "idle", "none")
    /\ UNCHANGED <<form, wallet, trading, quotes, grants, changes>>

(* What the screen shows of a confirmed swap: its logs tell whether it     *)
(* opened a bond, and when they cannot be decoded the swap has happened    *)
(* all the same.                                                           *)
FlowAfterReceipt(decoded) == "success"

SwapConfirmed(t, outcome) ==
    /\ attempts[t].phase = "waiting"
    /\ attempts[t].call = "swap"
    /\ ReceiptSucceeded(t)
    /\ attempts' = [attempts EXCEPT ![t].phase = "done", ![t].confirmed = TRUE]
    /\ Flow(t, FlowAfterReceipt(outcome # "none"), outcome)
    /\ UNCHANGED <<form, wallet, trading, quotes, grants, known, changes>>

(* Mutant: the catch reports the error and leaves the flow. *)
FlowOfFailureStuck == screen.flow

(* The estimate, the wallet, the wait for a receipt or the receipt itself  *)
(* fails: describeError, whatever was sent.                                *)
FlowOfFailure == "error"

Fails(t) ==
    /\ attempts[t].phase \in {"estimate", "signing", "waiting", "refetch"}
    /\ Ends(t)
    /\ Flow(t, FlowOfFailure, "none")
    /\ UNCHANGED <<form, wallet, trading, quotes, grants, known, changes>>

-----------------------------------------------------------------------------
Answered(t) ==
    \/ Estimate(t)
    \/ Sign(t)
    \/ GrantConfirmed(t)
    \/ GrantsRead(t)
    \/ \E outcome \in {"bonded", "unbonded", "none"} : SwapConfirmed(t, outcome)
    \/ Fails(t)

AttemptStep(t) ==
    \/ PressPrepare(t)
    \/ PressSwap(t)
    \/ Answered(t)
    \/ \E boundsMet \in BOOLEAN : Mine(t, boundsMet)

UserStep ==
    \/ \E f \in Forms : EditForm(f)
    \/ \E a \in Accounts \union {NoAccount} : SwitchAccount(a)
    \/ SwitchNetwork

Next ==
    \/ \E t \in Attempts : AttemptStep(t)
    \/ UserStep
    \/ TradingChanges
    \/ QuoteAnswers
    \/ QuoteFails
    \/ ReadAllowances
    \/ \E a \in Accounts : GrantLapses(a)

(* Every await of an attempt settles: the estimate and the receipt have    *)
(* timeouts, and the user answers the wallet.                              *)
Fairness == \A t \in Attempts : WF_vars(Answered(t))

Spec == Init /\ [][Next]_vars /\ Fairness

-----------------------------------------------------------------------------
Grant == [token : Nat, permit2 : Nat, live : BOOLEAN]

Attempt ==
    [phase : {"none", "estimate", "signing", "waiting", "refetch", "done"},
     call : {"token", "permit2", "swap"}, form : Forms,
     account : Accounts \union {NoAccount}, bound : Keys, permit2Ready : BOOLEAN,
     tx : {"none", "pending", "succeeded", "reverted"},
     confirmed : BOOLEAN, reset : BOOLEAN]

TypeOK ==
    /\ form \in Forms
    /\ wallet \in [account : Accounts \union {NoAccount}, home : BOOLEAN]
    /\ trading \in BOOLEAN
    /\ changes \in 0..MAX_CHANGES
    /\ quotes \in [Keys -> [data : BOOLEAN, failures : 0..QUOTE_RETRIES,
                            error : BOOLEAN]]
    /\ grants \in [Accounts -> Grant]
    /\ known \in [Accounts -> Grant]
    /\ attempts \in [Attempts -> Attempt]
    /\ screen \in [flow : {"idle", "approving", "sending", "success", "error"},
                   shown : SUBSET Attempts, outcome : {"bonded", "unbonded", "none"}]

(* The bounds of every swap signed come from a quote of the very request   *)
(* and recipient it is signed for, never from one the form showed before   *)
(* (swap.tsx: quoteArgs key the query, and limits follow from its data).   *)
BoundsBelongToForm ==
    \A t \in Attempts :
        attempts[t].phase # "none" /\ attempts[t].account # NoAccount
            => attempts[t].bound = <<attempts[t].form, attempts[t].account>>

(* As long as nothing was edited or switched under an attempt, at most one *)
(* is under way, so no double press sends two transactions (busy).         *)
OneFlowUnlessEdited ==
    (\A t \in Attempts : ~ attempts[t].reset) => Cardinality(UnderWay) <= 1

(* What no interleaving of presses, edits and switches breaks: one flow at *)
(* a time, and a swap bounded by the quote of its own request (swap.tsx    *)
(* busy, quoteArgs).                                                       *)
FlowSafe == TypeOK /\ OneFlowUnlessEdited /\ BoundsBelongToForm

(* Success is claimed only for a swap the chain executed, and a swap whose *)
(* successful receipt was seen is never presented as a failure (swap.tsx:  *)
(* "Nothing below may present it as a failure").                           *)
SwapShownHonest ==
    \A t \in screen.shown :
        /\ screen.flow = "success" => attempts[t].call = "swap" /\ attempts[t].tx = "succeeded"
        /\ screen.flow = "error" => ~ attempts[t].confirmed

(* One press of Prepare wallet is enough: with nothing else under way and  *)
(* nothing lapsing, when its last receipt is in both grants cover the      *)
(* trade, whichever was short (allowance.ts: sufficiency is judged against *)
(* the swap, the grant covers a session).                                  *)
PreparationSuffices ==
    \A t \in Attempts :
        /\ attempts[t].phase = "refetch"
        /\ changes = 0
        /\ \A u \in Attempts \ {t} : attempts[u].phase = "none"
        => Covered(t)

(* The screen does not stay busy: whatever fails, a flow that began ends,  *)
(* and the buttons come back.                                              *)
BusyEnds == Busy ~> ~ Busy

(* swap.tsx:265-266: "a success line must never describe a request the     *)
(* form no longer shows".                                                  *)
StatusDescribesForm ==
    screen.flow = "success" => \A t \in screen.shown : attempts[t].form = form

(* swap.tsx:315-316: "Re-verify before EVERY wallet request, including     *)
(* between the two grants: the user can switch account or network while    *)
(* the first receipt is being awaited".                                    *)
EveryRequestInContext ==
    [][\A t \in Attempts :
          attempts[t].phase # "estimate" /\ attempts'[t].phase = "estimate"
              => CheckContext(Intended(t)', wallet)]_vars

(* swap.tsx:148-150: "While a refetch is failing, the previous figure is   *)
(* withheld rather than shown".                                            *)
DoubtfulQuoteWithheld == QuoteReady => Quote.failures = 0
=============================================================================
