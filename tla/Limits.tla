--------------------------------- MODULE Limits ---------------------------------
(***************************************************************************)
(* The web client's arithmetic (limits.ts, poolConfig.ts, hookData.ts):    *)
(* what it signs for a swap, and how it reads the pool's configuration.    *)
(* bps and maxBondBps are read from the hook; an operator that throws a    *)
(* LimitError returns Refused.                                             *)
(***************************************************************************)
EXTENDS Integers

CONSTANTS
    bps,            \* hook.BPS()
    maxBondBps,     \* hook.MAX_BOND_BPS()
    UINT96_MAX,
    UINT128_MAX

(* assertConstants: with other constants nothing is ever signed. *)
ASSUME HookConstants ==
    /\ bps \in Nat /\ maxBondBps \in Nat
    /\ 0 < maxBondBps /\ maxBondBps <= bps

ASSUME WidthAssumption ==
    /\ UINT96_MAX \in Nat /\ UINT128_MAX \in Nat
    /\ 0 < UINT96_MAX /\ UINT96_MAX <= UINT128_MAX

Larger(a, b) == IF a > b THEN a ELSE b

-----------------------------------------------------------------------------
(* The pool's configuration. *)
PoolConfig == [minBonded0 : Nat, minBonded1 : Nat, minLeg0 : Nat, minLeg1 : Nat,
               bondingEnabled : BOOLEAN]

(* The getter returns bondingEnabled third, the setter takes it last. *)
PoolConfigFromGetter(tuple) ==
    [minBonded0 |-> tuple[1], minBonded1 |-> tuple[2], bondingEnabled |-> tuple[3],
     minLeg0 |-> tuple[4], minLeg1 |-> tuple[5]]

PoolConfigSetterArgs(cfg) ==
    <<cfg.minBonded0, cfg.minBonded1, cfg.minLeg0, cfg.minLeg1, cfg.bondingEnabled>>

(* The widths of the setter's arguments. *)
FitsSetter(cfg) ==
    /\ cfg.minBonded0 <= UINT128_MAX
    /\ cfg.minBonded1 <= UINT96_MAX
    /\ cfg.minLeg0 <= UINT128_MAX
    /\ cfg.minLeg1 <= UINT128_MAX

(* Mutant: the floor under the variable-leg minimums is left out. *)
ValidPoolConfigWithoutFloor(cfg) ==
    FitsSetter(cfg) /\ (cfg.bondingEnabled => cfg.minBonded0 > 0 /\ cfg.minBonded1 > 0)

(* validatePoolConfig finds no problem. *)
ValidPoolConfig(cfg) ==
    /\ FitsSetter(cfg)
    /\ cfg.bondingEnabled =>
          /\ cfg.minBonded0 # 0 /\ cfg.minBonded1 # 0
          /\ cfg.minLeg0 >= bps /\ cfg.minLeg1 >= bps

CollateralIsCurrency0(kind, zeroForOne) ==
    IF kind = "exactInput" THEN ~ zeroForOne ELSE zeroForOne

(* thresholdsFor: the consumed-input minimum follows the direction, the    *)
(* variable-leg minimum the currency of the collateral.                    *)
ConsumedInputMinimum(cfg, zeroForOne) ==
    IF zeroForOne THEN cfg.minBonded0 ELSE cfg.minBonded1

VariableLegMinimum(cfg, kind, zeroForOne) ==
    IF CollateralIsCurrency0(kind, zeroForOne) THEN cfg.minLeg0 ELSE cfg.minLeg1

-----------------------------------------------------------------------------
(* The limits of a swap: the bound the router checks (the least net        *)
(* output, or the most total input), and the collateral ceiling carried in *)
(* hookData.                                                               *)
Refused == [signed |-> FALSE, bound |-> 0, maxBondAmount |-> 0, ceilingIsProvenUnbonded |-> FALSE]
Signed(bound, ceiling, proven) ==
    [signed |-> TRUE, bound |-> bound, maxBondAmount |-> ceiling, ceilingIsProvenUnbonded |-> proven]

EXACT_INPUT_MAX_BOND_AMOUNT == UINT128_MAX

ToleranceCoversCollateralCap(toleranceBps) == toleranceBps >= maxBondBps

ExactInputBound(quotedNetOutput, toleranceBps) ==
    (quotedNetOutput * (bps - toleranceBps)) \div bps

ExactInputLimits(quotedNetOutput, toleranceBps) ==
    IF toleranceBps \notin 0..bps THEN Refused
    ELSE Signed(ExactInputBound(quotedNetOutput, toleranceBps), EXACT_INPUT_MAX_BOND_AMOUNT, FALSE)

(* Rounds up. *)
ExactOutputAmountInMaximum(quotedTotalInput, toleranceBps) ==
    (quotedTotalInput * (bps + toleranceBps) + bps - 1) \div bps

(* Mutant: the cap is taken of the pool input alone, one raw unit short.    *)
MaxBondAmountShort(amountInMaximum) ==
    (amountInMaximum * maxBondBps) \div (bps + maxBondBps + maxBondBps)

(* Rounds down. *)
ExactOutputMaxBondAmount(amountInMaximum) ==
    (amountInMaximum * maxBondBps) \div (bps + maxBondBps)

(* A zero ceiling is not a valid payload.  One is carried where the trade  *)
(* cannot bond: the pool takes no collateral, or the most it can consume   *)
(* is below the minimums it was read with.                                 *)
CannotBond(amountInMaximum, configRead, zeroForOne) ==
    \/ \A cfg \in configRead : ~ cfg.bondingEnabled
    \/ \E cfg \in configRead :
          amountInMaximum < Larger(ConsumedInputMinimum(cfg, zeroForOne),
                                   VariableLegMinimum(cfg, "exactOutput", zeroForOne))

(* configRead is empty while the configuration has not been read:          *)
(* bondingEnabled is then Boolean(undefined).                              *)
ExactOutputLimits(quotedTotalInput, toleranceBps, configRead, zeroForOne) ==
    LET amountInMaximum == ExactOutputAmountInMaximum(quotedTotalInput, toleranceBps)
        ceiling == ExactOutputMaxBondAmount(amountInMaximum)
    IN  IF \/ quotedTotalInput > UINT128_MAX
           \/ toleranceBps \notin 0..bps
           \/ amountInMaximum > UINT128_MAX THEN Refused
        ELSE IF ceiling > 0 THEN Signed(amountInMaximum, ceiling, FALSE)
        ELSE IF CannotBond(amountInMaximum, configRead, zeroForOne)
             THEN Signed(amountInMaximum, 1, TRUE)
        ELSE Refused

(* encodeHookData throws on anything the contract would refuse. *)
Encodes(ceiling) == ceiling > 0 /\ ceiling <= UINT128_MAX

-----------------------------------------------------------------------------
(* The estimate of the collateral a trade would post. *)
COLLATERAL_SCALE == 25
COLLATERAL_SCALE_DENOMINATOR == 100

AbsDelta(a, b) == IF a - b < 0 THEN b - a ELSE a - b

EffectiveImpactTicks(tickBefore, tickAfter, blockStartTick) ==
    Larger(AbsDelta(tickAfter, tickBefore), AbsDelta(tickAfter, blockStartTick))

CollateralBpsForImpact(effectiveImpact) ==
    LET raw == (effectiveImpact * COLLATERAL_SCALE + COLLATERAL_SCALE_DENOMINATOR - 1)
                   \div COLLATERAL_SCALE_DENOMINATOR
    IN  IF effectiveImpact <= 0 THEN 0
        ELSE IF raw > maxBondBps THEN maxBondBps ELSE raw

CollateralFromVariableLeg(variableLeg, collateralBps) ==
    IF variableLeg <= 0 \/ collateralBps <= 0 THEN 0 ELSE (variableLeg * collateralBps) \div bps
=============================================================================
