-------------------------------- MODULE SwapLimits --------------------------------
(***************************************************************************)
(* The life of one swap's limits, from the quote to its execution by the   *)
(* hook and the router (INTEGRATION.md section 2; swap.tsx 177-203).       *)
(*                                                                         *)
(* The client reads the configuration and quotes at one time, signs at     *)
(* another and is executed at a third.  In between the owner may change    *)
(* the configuration, the price may move, and the collateral rate, which   *)
(* depends on where the block of inclusion started, may be anything up to  *)
(* the cap.  Amounts are those of the variable leg before collateral: the  *)
(* pool's input for exact output, the pool's output for exact input.       *)
(***************************************************************************)
EXTENDS Limits

CONSTANTS
    Configs,        \* configurations the owner tries
    Legs,           \* variable legs the pool may ask for or give
    Inputs,         \* inputs of an exact-input swap
    Tolerances,
    Rates           \* collateral rates of a block, at most the cap

ASSUME RatesAssumption == Rates \subseteq 0..maxBondBps
ASSUME LegsAssumption == Legs \subseteq 0..UINT128_MAX
ASSUME TypesAssumption ==
    Configs \subseteq PoolConfig /\ Inputs \subseteq Nat /\ Tolerances \subseteq Nat

VARIABLES
    stage,          \* form, signed, refused, done
    trade,          \* what the form asks
    poolConfig,     \* the pool's configuration in the hook
    configRead,     \* what the client read of it; empty until it did
    quote,          \* the leg the quote was simulated at, and what it returned
    limits,         \* what was signed
    execution       \* the leg, the bond and the outcome of the execution

vars == <<stage, trade, poolConfig, configRead, quote, limits, execution>>

Disabled == [minBonded0 |-> 0, minBonded1 |-> 0, minLeg0 |-> 0, minLeg1 |-> 0,
             bondingEnabled |-> FALSE]

Trade == [kind : {"exactInput", "exactOutput"}, zeroForOne : BOOLEAN,
          toleranceBps : Tolerances, input : Inputs]

NoQuote == [taken |-> FALSE, leg |-> 0, result |-> 0]
NotExecuted == [leg |-> 0, bond |-> 0, outcome |-> "none"]

Init ==
    /\ stage = "form"
    /\ trade \in Trade
    /\ poolConfig = Disabled
    /\ configRead = {}
    /\ quote = NoQuote
    /\ limits = Refused
    /\ execution = NotExecuted

-----------------------------------------------------------------------------
(* The hook.  setPoolConfig refuses what its own checks refuse; disabling  *)
(* clears the thresholds.                                                  *)
HookAccepts(cfg) ==
    cfg.bondingEnabled =>
        /\ cfg.minBonded0 # 0 /\ cfg.minBonded1 # 0
        /\ cfg.minLeg0 >= bps /\ cfg.minLeg1 >= bps

Stored(cfg) == IF cfg.bondingEnabled THEN cfg ELSE Disabled

(* The consumed input: the leg itself for exact output. *)
Consumed(leg) == IF trade.kind = "exactInput" THEN trade.input ELSE leg

(* What afterSwap withholds or adds at a leg and a rate. *)
BondTaken(leg, rate) ==
    IF /\ poolConfig.bondingEnabled
       /\ Consumed(leg) > 0
       /\ Consumed(leg) >= ConsumedInputMinimum(poolConfig, trade.zeroForOne)
       /\ leg >= VariableLegMinimum(poolConfig, trade.kind, trade.zeroForOne)
    THEN (leg * rate) \div bps
    ELSE 0

(* beforeSwap decodes hookData, unless bonding is off or an exact input is *)
(* too small to bond.                                                      *)
DecodesHookData(leg) ==
    /\ poolConfig.bondingEnabled
    /\ trade.kind = "exactInput" =>
          trade.input >= ConsumedInputMinimum(poolConfig, trade.zeroForOne)

(* The trader's side of the leg once the collateral is taken: total input, *)
(* or net output.                                                          *)
TraderAmount(leg, bond) == IF trade.kind = "exactInput" THEN leg - bond ELSE leg + bond

(* The router's own check. *)
RouterRefuses(leg, bond) ==
    IF trade.kind = "exactInput"
    THEN TraderAmount(leg, bond) < limits.bound
    ELSE TraderAmount(leg, bond) > limits.bound

Outcome(leg, bond) ==
    IF DecodesHookData(leg) /\ limits.maxBondAmount = 0 THEN "invalidHookData"
    ELSE IF bond > limits.maxBondAmount THEN "bondExceedsTraderMax"
    ELSE IF RouterRefuses(leg, bond) THEN "beyondBound"
    ELSE "executed"

-----------------------------------------------------------------------------
SetPoolConfig(cfg) ==
    /\ HookAccepts(cfg)
    /\ poolConfig' = Stored(cfg)
    /\ UNCHANGED <<stage, trade, configRead, quote, limits, execution>>

ReadConfig ==
    /\ stage = "form"
    /\ configRead' = {poolConfig}
    /\ UNCHANGED <<stage, trade, poolConfig, quote, limits, execution>>

(* The quoter runs the hook: its answer already has the collateral of the  *)
(* rate it simulated.                                                      *)
TakeQuote(leg, rate) ==
    /\ stage = "form"
    /\ quote' = [taken |-> TRUE, leg |-> leg, result |-> TraderAmount(leg, BondTaken(leg, rate))]
    /\ UNCHANGED <<stage, trade, poolConfig, configRead, limits, execution>>

LimitsOfForm ==
    IF trade.kind = "exactInput"
    THEN ExactInputLimits(quote.result, trade.toleranceBps)
    ELSE ExactOutputLimits(quote.result, trade.toleranceBps, configRead, trade.zeroForOne)

Sign ==
    /\ stage = "form"
    /\ quote.taken /\ quote.result > 0
    /\ limits' = LimitsOfForm
    /\ stage' = IF LimitsOfForm.signed /\ Encodes(LimitsOfForm.maxBondAmount)
                THEN "signed" ELSE "refused"
    /\ UNCHANGED <<trade, poolConfig, configRead, quote, execution>>

Execute(leg, rate) ==
    LET bond == BondTaken(leg, rate) IN
    /\ stage = "signed"
    /\ stage' = "done"
    /\ execution' = [leg |-> leg, bond |-> bond, outcome |-> Outcome(leg, bond)]
    /\ UNCHANGED <<trade, poolConfig, configRead, quote, limits>>

Next ==
    \/ \E cfg \in Configs : SetPoolConfig(cfg)
    \/ ReadConfig
    \/ \E leg \in Legs, rate \in Rates : TakeQuote(leg, rate) \/ Execute(leg, rate)
    \/ Sign

Spec == Init /\ [][Next]_vars

-----------------------------------------------------------------------------
Amounts == [leg : Nat, bond : Nat,
            outcome : {"none", "executed", "invalidHookData", "bondExceedsTraderMax", "beyondBound"}]

TypeOK ==
    /\ stage \in {"form", "signed", "refused", "done"}
    /\ trade \in Trade
    /\ poolConfig \in PoolConfig
    /\ configRead \subseteq PoolConfig
    /\ quote \in [taken : BOOLEAN, leg : Nat, result : Nat]
    /\ limits \in [signed : BOOLEAN, bound : Nat, maxBondAmount : Nat,
                   ceilingIsProvenUnbonded : BOOLEAN]
    /\ execution \in Amounts

(* The collateral ceiling is never what stops a swap: the hook refuses a   *)
(* bond only where the router would have refused the total input anyway,   *)
(* whatever was read of the configuration and however it changed since     *)
(* (limits.ts: "the two bounds bind at the same moment", and a ceiling of  *)
(* one is carried only where the trade cannot bond).                       *)
CeilingNeverBindsAlone ==
    execution.outcome = "bondExceedsTraderMax"
        => /\ trade.kind = "exactOutput"
           /\ execution.leg + execution.bond > limits.bound

(* Limits that were prepared can be sent: their ceiling always encodes,    *)
(* whatever the quote rounds to, and what was encoded decodes in the hook  *)
(* (hookData.ts refuses what the contract would refuse).                   *)
LimitsEncode ==
    /\ limits.signed => Encodes(limits.maxBondAmount)
    /\ execution.outcome # "invalidHookData"

(* A tolerance of at least the collateral cap makes a swap immune to the   *)
(* order of its block: at the price it was quoted at, it executes whatever *)
(* the rate turns out to be and whatever the owner configured meanwhile    *)
(* (limits.ts: toleranceCoversCollateralCap).                              *)
OrderingAloneNeverReverts ==
    /\ stage = "done"
    /\ ToleranceCoversCollateralCap(trade.toleranceBps)
    /\ execution.leg = quote.leg
    => execution.outcome = "executed"

(* The limits protect the trader and do not get in the way: the ceiling    *)
(* stops nothing the bound would let through, it is always accepted by the *)
(* codec, and a sufficient tolerance makes the order of the block          *)
(* irrelevant (limits.ts).                                                 *)
LimitsSafe == TypeOK /\ CeilingNeverBindsAlone /\ LimitsEncode /\ OrderingAloneNeverReverts

(* limits.ts:156-157: without the pool configuration "no proof is          *)
(* available and a zero-derived ceiling fails closed".                     *)
ZeroCeilingFailsClosed ==
    stage = "signed" /\ configRead = {} => ~ limits.ceilingIsProvenUnbonded
=============================================================================
