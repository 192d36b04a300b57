------------------------------- MODULE RouterPlan -------------------------------
(***************************************************************************)
(* The plan a swap is sent as (swapPlan.ts), executed: the client encodes  *)
(* three router actions before it knows what the hook will take, and the   *)
(* router runs them one after the other over its debts and credits with    *)
(* the PoolManager.  The router, Permit2 and the pool are modelled from    *)
(* what the plan relies on; the hook's thresholds are abstracted to a rate *)
(* of zero, for SwapLimits has them.                                       *)
(***************************************************************************)
EXTENDS Limits, Sequences

CONSTANTS
    Amounts,        \* amounts typed: the input, or the exact output
    Quotes,         \* what the quoter answered
    Tolerances,
    Legs,           \* variable legs the pool may ask for or give
    Rates,          \* collateral rates, at most the cap
    Spare           \* what the wallet holds and grants beyond the requirement

VARIABLES
    request,        \* what submitSwap holds: the form and its limits
    wallet,         \* what the router may still pull, in each currency
    actions,        \* the actions still to be executed
    delta,          \* the router's credit (or debt, if negative) in each currency
    spent,          \* pulled from the wallet
    received,       \* delivered to the recipient
    status          \* form, running, executed, or why it reverted

vars == <<request, wallet, actions, delta, spent, received, status>>

Currencies == {"currency0", "currency1"}
InputCurrency(zeroForOne) == IF zeroForOne THEN "currency0" ELSE "currency1"
OutputCurrency(zeroForOne) == IF zeroForOne THEN "currency1" ELSE "currency0"
Nothing == [c \in Currencies |-> 0]

OPEN_DELTA == 0

Action(name, currency, amount, bound) ==
    [name |-> name, currency |-> currency, amount |-> amount, bound |-> bound]

-----------------------------------------------------------------------------
BuildExactInputPlan(zeroForOne, amountIn, amountOutMinimum) ==
    <<Action("SWAP_EXACT_IN_SINGLE", InputCurrency(zeroForOne), amountIn, amountOutMinimum),
      Action("SETTLE", InputCurrency(zeroForOne), OPEN_DELTA, 0),
      Action("TAKE", OutputCurrency(zeroForOne), OPEN_DELTA, 0)>>

BuildExactOutputPlan(zeroForOne, amountOut, amountInMaximum) ==
    <<Action("SWAP_EXACT_OUT_SINGLE", InputCurrency(zeroForOne), amountOut, amountInMaximum),
      Action("SETTLE", InputCurrency(zeroForOne), OPEN_DELTA, 0),
      Action("TAKE", OutputCurrency(zeroForOne), OPEN_DELTA, 0)>>

(* Mutant: the amount typed is what must be covered, for either kind. *)
SpendRequirementTyped(kind, zeroForOne, amount, amountInMaximum) ==
    [Nothing EXCEPT ![InputCurrency(zeroForOne)] = amount]

SpendRequirement(kind, zeroForOne, amount, amountInMaximum) ==
    [Nothing EXCEPT ![InputCurrency(zeroForOne)] =
        IF kind = "exactInput" THEN amount ELSE amountInMaximum]

-----------------------------------------------------------------------------
(* The limits of the form, with a configuration read that bonds. *)
LimitsOf(kind, quoted, toleranceBps) ==
    IF kind = "exactInput" THEN ExactInputLimits(quoted, toleranceBps)
                           ELSE ExactOutputLimits(quoted, toleranceBps, {}, TRUE)

Requests == [kind : {"exactInput", "exactOutput"}, zeroForOne : BOOLEAN,
             amount : Amounts, quoted : Quotes, toleranceBps : Tolerances]

Init ==
    /\ request \in Requests
    /\ wallet = Nothing
    /\ actions = <<>>
    /\ delta = Nothing
    /\ spent = Nothing
    /\ received = Nothing
    /\ status = "form"

Limit == LimitsOf(request.kind, request.quoted, request.toleranceBps)
Debit == InputCurrency(request.zeroForOne)
Credit == OutputCurrency(request.zeroForOne)
ExactInput == request.kind = "exactInput"

(* The wallet can cover the requirement (canSubmit), and it is sent. *)
SubmitSwap(spare) ==
    LET required == SpendRequirement(request.kind, request.zeroForOne, request.amount, Limit.bound)
    IN
    /\ status = "form"
    /\ Limit.signed /\ required[Debit] > 0
    /\ wallet' = [c \in Currencies |-> IF required[c] = 0 THEN 0 ELSE required[c] + spare]
    /\ actions' = IF ExactInput
                  THEN BuildExactInputPlan(request.zeroForOne, request.amount, Limit.bound)
                  ELSE BuildExactOutputPlan(request.zeroForOne, request.amount, Limit.bound)
    /\ status' = "running"
    /\ UNCHANGED <<request, delta, spent, received>>

(* A revert undoes the transaction. *)
Revert(reason) ==
    /\ status' = reason
    /\ actions' = <<>>
    /\ delta' = Nothing /\ spent' = Nothing /\ received' = Nothing
    /\ UNCHANGED <<request, wallet>>

Runs(name) == status = "running" /\ actions # <<>> /\ Head(actions).name = name

(* An exact input may be filled in part, where the liquidity ends.  The    *)
(* hook withholds its collateral from the output.                          *)
SwapExactIn(consumed, leg, rate) ==
    LET bond == (leg * rate) \div bps IN
    /\ Runs("SWAP_EXACT_IN_SINGLE")
    /\ consumed <= Head(actions).amount
    /\ IF leg - bond < Head(actions).bound THEN Revert("tooLittleReceived")
       ELSE /\ delta' = [delta EXCEPT ![Debit] = @ - consumed, ![Credit] = @ + leg - bond]
            /\ actions' = Tail(actions)
            /\ UNCHANGED <<request, wallet, spent, received, status>>

(* An exact output is filled whole or refused.  The hook adds its          *)
(* collateral to the input.                                                *)
SwapExactOut(leg, rate) ==
    LET bond == (leg * rate) \div bps IN
    /\ Runs("SWAP_EXACT_OUT_SINGLE")
    /\ IF bond > Limit.maxBondAmount THEN Revert("bondExceedsTraderMax")
       ELSE IF leg + bond > Head(actions).bound THEN Revert("tooMuchRequested")
       ELSE /\ delta' = [delta EXCEPT ![Debit] = @ - leg - bond,
                                      ![Credit] = @ + Head(actions).amount]
            /\ actions' = Tail(actions)
            /\ UNCHANGED <<request, wallet, spent, received, status>>

(* SETTLE pays the whole debt, or the amount it names, from the wallet. *)
SettleDebt ==
    LET c == Head(actions).currency
        amount == IF Head(actions).amount = OPEN_DELTA THEN - delta[c] ELSE Head(actions).amount
    IN
    /\ Runs("SETTLE")
    /\ IF amount < 0 THEN Revert("deltaNotNegative")
       ELSE IF wallet[c] < amount THEN Revert("insufficientAllowance")
       ELSE /\ delta' = [delta EXCEPT ![c] = @ + amount]
            /\ wallet' = [wallet EXCEPT ![c] = @ - amount]
            /\ spent' = [spent EXCEPT ![c] = @ + amount]
            /\ actions' = Tail(actions)
            /\ UNCHANGED <<request, received, status>>

(* TAKE delivers the whole credit, or the amount it names. *)
TakeCredit ==
    LET c == Head(actions).currency
        amount == IF Head(actions).amount = OPEN_DELTA THEN delta[c] ELSE Head(actions).amount
    IN
    /\ Runs("TAKE")
    /\ IF amount < 0 THEN Revert("deltaNotPositive")
       ELSE /\ delta' = [delta EXCEPT ![c] = @ - amount]
            /\ received' = [received EXCEPT ![c] = @ + amount]
            /\ actions' = Tail(actions)
            /\ UNCHANGED <<request, wallet, spent, status>>

(* The PoolManager's lock closes only on settled books. *)
Close ==
    /\ status = "running" /\ actions = <<>>
    /\ IF delta = Nothing
       THEN /\ status' = "executed"
            /\ UNCHANGED <<request, wallet, actions, delta, spent, received>>
       ELSE Revert("currencyNotSettled")

Next ==
    \/ \E spare \in Spare : SubmitSwap(spare)
    \/ \E leg \in Legs, rate \in Rates :
          \/ SwapExactOut(leg, rate)
          \/ \E consumed \in Amounts : SwapExactIn(consumed, leg, rate)
    \/ SettleDebt
    \/ TakeCredit
    \/ Close

Spec == Init /\ [][Next]_vars

-----------------------------------------------------------------------------
Refusals == {"tooLittleReceived", "tooMuchRequested", "bondExceedsTraderMax"}
Faults == {"deltaNotNegative", "deltaNotPositive", "insufficientAllowance", "currencyNotSettled"}

(* The input currency is only ever owed, the output only ever due. *)
TypeOK ==
    /\ request \in Requests
    /\ {wallet, spent, received} \subseteq [Currencies -> Nat]
    /\ Len(actions) <= 3
    /\ delta \in [Currencies -> Int] /\ delta[Debit] <= 0 /\ delta[Credit] >= 0
    /\ status \in {"form", "running", "executed"} \union Refusals \union Faults

(* A plan fails only for a limit the trader signed: whatever the hook      *)
(* takes, and however much of the input the pool fills, its settle and     *)
(* take close the books, and a wallet that covers spendRequirement is      *)
(* never short (swapPlan.ts: "the exact figures are not known until the    *)
(* hook has taken its collateral").                                        *)
PlanCloses == status \notin Faults

(* What was executed is within what the form showed: no more was pulled    *)
(* from the wallet than the requirement, of the input token alone, and no  *)
(* less delivered than the minimum, net of collateral (swapPlan.ts:        *)
(* amountOutMinimum "is checked against the NET receipt").                 *)
TraderWithinLimits ==
    status = "executed" =>
        /\ spent[Debit] <= (IF ExactInput THEN request.amount ELSE Limit.bound)
        /\ received[Credit] >= (IF ExactInput THEN Limit.bound ELSE request.amount)
        /\ spent[Credit] = 0 /\ received[Debit] = 0

(* The plan executes within what was signed, or is refused for it: its     *)
(* books close, and the trader is within the limits (swapPlan.ts).         *)
PlanSafe == TypeOK /\ PlanCloses /\ TraderWithinLimits
=============================================================================
