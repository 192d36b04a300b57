------------------------------ MODULE Client_proofs ------------------------------
(***************************************************************************)
(* What the parts of the client promise, for any values of the constants:  *)
(* the limits a swap is signed with, the router plan, the tokens'          *)
(* metadata, the deployment's configuration, the activity feed and the     *)
(* history of bonds.  Each part has an invariant of its own, and the step  *)
(* of one leaves the others alone.                                         *)
(***************************************************************************)
EXTENDS Client, FiniteSetTheorems, SequenceTheorems, NaturalsInduction, TLAPS

-----------------------------------------------------------------------------
(***************************************************************************)
(* The limits of a swap.                                                   *)
(***************************************************************************)
H == INSTANCE SettlementMath WITH LATE_WINDOW_BLOCKS <- 2

-----------------------------------------------------------------------------
(* Division: the quotient times the divisor misses less than one divisor.  *)
LEMMA Division ==
    ASSUME NEW n \in Nat, NEW d \in Nat \ {0}
    PROVE  /\ n \div d \in Nat
           /\ (n \div d) * d <= n
           /\ n < (n \div d) * d + d
  OBVIOUS

(* A product keeps the order of its factors. *)
LEMMA ProductMonotone ==
    ASSUME NEW a \in Nat, NEW b \in Nat, NEW c \in Nat, a <= b
    PROVE  /\ a * c \in Nat /\ b * c \in Nat
           /\ a * c <= b * c
  OBVIOUS

(* What is strictly larger stays so divided by the same number. *)
LEMMA QuotientAtLeast ==
    ASSUME NEW n \in Nat, NEW d \in Nat \ {0}, NEW q \in Nat, q * d <= n
    PROVE  q <= n \div d
<1>1. n < (n \div d) * d + d /\ n \div d \in Nat
  BY Division
<1> DEFINE p == n \div d
<1>2. SUFFICES ASSUME p + 1 <= q PROVE FALSE
  BY <1>1
<1>3. p \in Nat
  BY <1>1
<1>4. (p + 1) * d <= q * d
  BY <1>2, <1>3, ProductMonotone
<1>5. (p + 1) * d = p * d + d
  BY <1>3
<1> HIDE DEF p
<1>6. p * d \in Nat /\ q * d \in Nat
  BY <1>3
<1> QED
  BY <1>1, <1>4, <1>5, <1>6 DEF p

(* Multiplying by a positive number reflects the order. *)
LEMMA Cancellation ==
    ASSUME NEW a \in Nat, NEW b \in Nat, NEW d \in Nat \ {0}, a * d <= b * d
    PROVE  a <= b
<1>1. SUFFICES ASSUME b + 1 <= a PROVE FALSE
  OBVIOUS
<1>2. (b + 1) * d <= a * d
  BY <1>1, ProductMonotone
<1>3. (b + 1) * d = b * d + d
  OBVIOUS
<1>4. a * d \in Nat /\ b * d \in Nat
  OBVIOUS
<1> QED
  BY <1>2, <1>3, <1>4

(* A bond at a rate of at most c, times bps, is at most c times its leg. *)
LEMMA BondShare ==
    ASSUME NEW leg \in Nat, NEW rate \in Nat, NEW c \in Nat, rate <= c
    PROVE  /\ (leg * rate) \div bps \in Nat
           /\ ((leg * rate) \div bps) * bps <= leg * c
<1>1. leg * rate \in Nat
  OBVIOUS
<1>2. bps \in Nat \ {0}
  BY HookConstants
<1>3. /\ (leg * rate) \div bps \in Nat
      /\ ((leg * rate) \div bps) * bps <= leg * rate
  BY <1>1, <1>2, Division
<1>4. rate * leg <= c * leg /\ rate * leg = leg * rate /\ c * leg = leg * c
  BY ProductMonotone
<1>5. leg * c \in Nat /\ ((leg * rate) \div bps) * bps \in Nat
  BY <1>2, <1>3
<1> QED
  BY <1>1, <1>3, <1>4, <1>5

(* The two bounds of an exact-output swap bind together: a bond that fits  *)
(* under the total maximum fits under the ceiling derived from it          *)
(* (limits.ts: exactOutputMaxBondAmount).                                  *)
THEOREM BondWithinCeiling ==
    ASSUME NEW leg \in Nat, NEW rate \in 0..maxBondBps, NEW maximum \in Nat,
           leg + (leg * rate) \div bps <= maximum
    PROVE  (leg * rate) \div bps <= ExactOutputMaxBondAmount(maximum)
<1> DEFINE bond == (leg * rate) \div bps
<1>1. /\ maxBondBps \in Nat /\ bps \in Nat
      /\ bps + maxBondBps \in Nat \ {0}
  BY HookConstants
<1>2. bond \in Nat /\ bond * bps <= leg * maxBondBps
  BY <1>1, BondShare
<1> HIDE DEF bond
<1>3. (leg + bond) * maxBondBps <= maximum * maxBondBps
  BY <1>1, <1>2, ProductMonotone DEF bond
<1>4. (leg + bond) * maxBondBps = leg * maxBondBps + bond * maxBondBps
  BY <1>1, <1>2
<1>5. bond * (bps + maxBondBps) = bond * bps + bond * maxBondBps
  BY <1>1, <1>2
<1>6. /\ bond * bps \in Nat /\ bond * maxBondBps \in Nat /\ leg * maxBondBps \in Nat
      /\ maximum * maxBondBps \in Nat
  BY <1>1, <1>2
<1>7. bond * (bps + maxBondBps) <= maximum * maxBondBps
  BY <1>2, <1>3, <1>4, <1>5, <1>6
<1>8. bond <= (maximum * maxBondBps) \div (bps + maxBondBps)
  BY <1>1, <1>2, <1>6, <1>7, QuotientAtLeast
<1> QED
  BY <1>8 DEF ExactOutputMaxBondAmount, bond

(* Exact output at the quoted price: whatever the rate, the total input    *)
(* stays within a maximum whose tolerance covers the collateral cap.       *)
THEOREM TotalWithinMaximum ==
    ASSUME NEW leg \in Nat, NEW rate \in 0..maxBondBps,
           NEW total \in Nat, leg <= total,
           NEW tolerance \in Nat, ToleranceCoversCollateralCap(tolerance)
    PROVE  leg + (leg * rate) \div bps <= ExactOutputAmountInMaximum(total, tolerance)
<1> DEFINE bond == (leg * rate) \div bps
<1>1. maxBondBps \in Nat /\ bps \in Nat \ {0} /\ rate <= tolerance
  BY HookConstants DEF ToleranceCoversCollateralCap
<1>2. bond \in Nat /\ bond * bps <= leg * tolerance
  BY <1>1, BondShare
<1> HIDE DEF bond
<1>3. (leg + bond) * bps = leg * bps + bond * bps
  BY <1>1, <1>2
<1>4. leg * (bps + tolerance) = leg * bps + leg * tolerance
  BY <1>1
<1>5. leg * (bps + tolerance) <= total * (bps + tolerance)
  BY <1>1, ProductMonotone
<1>6. /\ leg * bps \in Nat /\ bond * bps \in Nat /\ leg * tolerance \in Nat
      /\ total * (bps + tolerance) \in Nat
  BY <1>1, <1>2
<1>7. (leg + bond) * bps <= total * (bps + tolerance) + bps - 1
  BY <1>1, <1>2, <1>3, <1>4, <1>5, <1>6
<1>8. total * (bps + tolerance) + bps - 1 \in Nat
  BY <1>1, <1>6
<1>9. leg + bond <= (total * (bps + tolerance) + bps - 1) \div bps
  BY <1>1, <1>2, <1>7, <1>8, QuotientAtLeast
<1> QED
  BY <1>9 DEF ExactOutputAmountInMaximum, bond

(* Exact input at the quoted price: the net output never falls below a     *)
(* minimum whose tolerance covers the collateral cap.                      *)
THEOREM NetWithinMinimum ==
    ASSUME NEW leg \in Nat, NEW rate \in 0..maxBondBps,
           NEW net \in Nat, net <= leg,
           NEW tolerance \in 0..bps, ToleranceCoversCollateralCap(tolerance)
    PROVE  ExactInputBound(net, tolerance) <= leg - (leg * rate) \div bps
<1> DEFINE bond == (leg * rate) \div bps
           least == (net * (bps - tolerance)) \div bps
<1>1. /\ maxBondBps \in Nat /\ bps \in Nat \ {0} /\ tolerance \in Nat
      /\ rate <= tolerance /\ bps - tolerance \in Nat
  BY HookConstants DEF ToleranceCoversCollateralCap
<1>2. bond \in Nat /\ bond * bps <= leg * tolerance
  BY <1>1, BondShare
<1>3. net * (bps - tolerance) \in Nat
  BY <1>1
<1>4. least \in Nat /\ least * bps <= net * (bps - tolerance)
  BY <1>1, <1>3, Division
<1> HIDE DEF bond, least
<1>5. net * (bps - tolerance) <= leg * (bps - tolerance)
  BY <1>1, ProductMonotone
<1>6. leg * (bps - tolerance) + leg * tolerance = leg * bps
  BY <1>1
<1>7. (least + bond) * bps = least * bps + bond * bps
  BY <1>1, <1>2, <1>4
<1>8. /\ leg * (bps - tolerance) \in Nat /\ leg * tolerance \in Nat /\ leg * bps \in Nat
      /\ least * bps \in Nat /\ bond * bps \in Nat
  BY <1>1, <1>2, <1>4
<1>9. (least + bond) * bps <= leg * bps
  BY <1>2, <1>3, <1>4, <1>5, <1>6, <1>7, <1>8
<1>10. least + bond <= leg
  BY <1>1, <1>2, <1>4, <1>9, Cancellation
<1> QED
  BY <1>2, <1>4, <1>10 DEF ExactInputBound, bond, least

(* The client's estimate of a trade's collateral rate is the hook's own    *)
(* rate, at any three ticks, when the constants it read are the hook's     *)
(* (limits.ts: effectiveImpactTicks and collateralBpsForImpact against     *)
(* BondMeBro._effectiveCollateralBps).                                     *)
THEOREM EstimateIsTheHooksRate ==
    ASSUME NEW before \in Int, NEW after \in Int, NEW start \in Int,
           maxBondBps = H!MAX_BOND_BPS
    PROVE  CollateralBpsForImpact(EffectiveImpactTicks(before, after, start))
               = H!EffectiveCollateralBps(before, after, start)
<1> DEFINE own == H!Abs(after - before)
           block == H!Abs(after - start)
           impact == H!Largest(own, block)
<1>1. own \in Nat /\ block \in Nat
  BY DEF H!Abs
<1>2. AbsDelta(after, before) = own /\ AbsDelta(after, start) = block
  BY DEF AbsDelta, H!Abs
<1>3. EffectiveImpactTicks(before, after, start) = impact
  BY <1>1, <1>2 DEF EffectiveImpactTicks, Larger, H!Largest
<1>4. impact \in Nat
  BY <1>1 DEF H!Largest
<1> HIDE DEF impact
<1>5. CollateralBpsForImpact(impact) = H!Least(H!TickRate(impact), H!MAX_BOND_BPS)
  BY <1>4 DEF CollateralBpsForImpact, H!Least, H!TickRate, H!MAX_BOND_BPS, H!SCALE,
              H!SCALE_DENOMINATOR, COLLATERAL_SCALE, COLLATERAL_SCALE_DENOMINATOR
<1> QED
  BY <1>3, <1>5 DEF H!EffectiveCollateralBps, impact

-----------------------------------------------------------------------------
(* What the hook may store. *)
ConfigSound == poolConfig \in PoolConfig /\ configRead \subseteq PoolConfig

(* A quote is of a leg of the pool, with some collateral in it. *)
QuoteSound ==
    /\ quote.leg \in Nat /\ quote.result \in Nat
    /\ trade.kind = "exactInput" => quote.result <= quote.leg
    /\ trade.kind = "exactOutput" => quote.leg <= quote.result

(* What is signed follows from the quote. *)
SignedFromQuote ==
    /\ trade.toleranceBps \in 0..bps
    /\ limits.maxBondAmount \in 1..UINT128_MAX
    /\ trade.kind = "exactInput" =>
          /\ limits.bound = ExactInputBound(quote.result, trade.toleranceBps)
          /\ limits.maxBondAmount = UINT128_MAX
    /\ trade.kind = "exactOutput" =>
          /\ limits.bound = ExactOutputAmountInMaximum(quote.result, trade.toleranceBps)
          /\ limits.maxBondAmount >= ExactOutputMaxBondAmount(limits.bound)

(* An execution that was refused was refused for its bound. *)
ExecutionSound ==
    /\ CeilingNeverBindsAlone
    /\ execution.outcome # "invalidHookData"
    /\ OrderingAloneNeverReverts

Inv ==
    /\ stage \in {"form", "signed", "refused", "done"}
    /\ trade \in Trade
    /\ ConfigSound
    /\ QuoteSound
    /\ stage = "signed" => SignedFromQuote
    /\ stage # "done" => execution.outcome = "none"
    /\ limits.signed => Encodes(limits.maxBondAmount)
    /\ ExecutionSound

LEMMA InitInv == Init => Inv
<1> SUFFICES ASSUME Init PROVE Inv
  OBVIOUS
<1>1. ConfigSound
  BY DEF Init, ConfigSound, Disabled, PoolConfig
<1>2. QuoteSound
  BY DEF Init, QuoteSound, NoQuote
<1>3. ExecutionSound
  BY DEF Init, ExecutionSound, CeilingNeverBindsAlone, OrderingAloneNeverReverts, NotExecuted
<1> QED
  BY <1>1, <1>2, <1>3 DEF Init, Inv, NotExecuted, Refused

(* A bond the hook takes is either nothing or the leg's share at the rate. *)
LEMMA BondTakenIs ==
    ASSUME NEW leg \in Legs, NEW rate \in Rates
    PROVE  /\ leg \in Nat /\ leg <= UINT128_MAX /\ rate \in 0..maxBondBps
           /\ BondTaken(leg, rate) \in Nat
           /\ BondTaken(leg, rate) <= leg
           /\ \E r \in 0..maxBondBps : BondTaken(leg, rate) = (leg * r) \div bps
<1>1. /\ leg \in Nat /\ leg <= UINT128_MAX
      /\ rate \in 0..maxBondBps /\ rate \in Nat /\ rate <= bps
      /\ maxBondBps \in Nat /\ bps \in Nat \ {0}
  BY HookConstants, RatesAssumption, LegsAssumption, WidthAssumption
<1> DEFINE share == (leg * rate) \div bps
<1>2. share \in Nat /\ share * bps <= leg * bps
  BY <1>1, BondShare
<1>3. share <= leg
  <2> HIDE DEF share
  <2> QED BY <1>1, <1>2, Cancellation
<1>4. (leg * 0) \div bps = 0
  BY <1>1
<1>5. BondTaken(leg, rate) \in {0, share}
  BY DEF BondTaken
<1>6. CASE BondTaken(leg, rate) = 0
  <2>1. 0 \in 0..maxBondBps
    BY <1>1
  <2> QED BY <1>1, <1>4, <1>6, <2>1
<1>7. CASE BondTaken(leg, rate) = share
  BY <1>1, <1>2, <1>3, <1>7
<1> QED
  BY <1>5, <1>6, <1>7

(* The client signs a total of its own quote, and a ceiling at least the   *)
(* derived one, or nothing.                                                *)
LEMMA SignStep == ASSUME Inv, Sign PROVE Inv'
<1>1. /\ stage' \in {"form", "signed", "refused", "done"} /\ trade' \in Trade
      /\ ConfigSound' /\ QuoteSound' /\ stage' # "done"
  BY DEF Inv, Sign, ConfigSound, QuoteSound
<1>2. ExecutionSound'
  BY <1>1 DEF Inv, Sign, ExecutionSound, CeilingNeverBindsAlone, OrderingAloneNeverReverts
<1>3. ASSUME limits'.signed PROVE SignedFromQuote'
  <2>1. limits' = LimitsOfForm /\ LimitsOfForm.signed
    BY <1>3 DEF Sign
  <2>2. trade' = trade /\ quote' = quote
    BY DEF Sign
  <2>3. ~ Refused.signed
    BY DEF Refused
  <2>4. bps \in Nat /\ UINT128_MAX \in Nat /\ maxBondBps \in Nat /\ bps > 0 /\ UINT128_MAX > 0
    BY HookConstants, WidthAssumption
  <2>5. quote.result \in Nat /\ trade.toleranceBps \in Nat
    BY TypesAssumption DEF Inv, QuoteSound, Trade
  <2>6. CASE trade.kind = "exactInput"
    <3>1. LimitsOfForm = ExactInputLimits(quote.result, trade.toleranceBps)
      BY <2>6 DEF LimitsOfForm
    <3>2. /\ trade.toleranceBps \in 0..bps
          /\ LimitsOfForm = Signed(ExactInputBound(quote.result, trade.toleranceBps),
                                   EXACT_INPUT_MAX_BOND_AMOUNT, FALSE)
      BY <2>1, <2>3, <3>1 DEF ExactInputLimits
    <3>3. /\ LimitsOfForm.bound = ExactInputBound(quote.result, trade.toleranceBps)
          /\ LimitsOfForm.maxBondAmount = UINT128_MAX
      BY <3>2 DEF Signed, EXACT_INPUT_MAX_BOND_AMOUNT
    <3>4. UINT128_MAX \in 1..UINT128_MAX
      BY WidthAssumption
    <3> QED
      BY <2>1, <2>2, <2>6, <3>2, <3>3, <3>4 DEF SignedFromQuote
  <2>7. CASE trade.kind = "exactOutput"
    <3> DEFINE most == ExactOutputAmountInMaximum(quote.result, trade.toleranceBps)
               ceiling == ExactOutputMaxBondAmount(most)
    <3>1. LimitsOfForm = ExactOutputLimits(quote.result, trade.toleranceBps,
                                           configRead, trade.zeroForOne)
      BY <2>7 DEF LimitsOfForm
    <3>2. /\ trade.toleranceBps \in 0..bps
          /\ ~ (most > UINT128_MAX)
          /\ \/ LimitsOfForm = Signed(most, ceiling, FALSE) /\ ceiling > 0
             \/ LimitsOfForm = Signed(most, 1, TRUE) /\ ~ (ceiling > 0)
      BY <2>1, <2>3, <3>1 DEF ExactOutputLimits
    <3>3. most \in Nat
      <4>1. quote.result * (bps + trade.toleranceBps) + bps - 1 \in Nat
        BY <2>4, <2>5
      <4> QED BY <2>4, <4>1, Division DEF ExactOutputAmountInMaximum
    <3> HIDE DEF most
    <3>4. ceiling \in Nat /\ ceiling <= most
      <4>1. /\ most * maxBondBps \in Nat /\ bps + maxBondBps \in Nat \ {0}
            /\ maxBondBps * most <= (bps + maxBondBps) * most
        BY <2>4, <3>3, ProductMonotone
      <4>2. ceiling \in Nat /\ ceiling * (bps + maxBondBps) <= most * maxBondBps
        BY <4>1, Division DEF ExactOutputMaxBondAmount
      <4> HIDE DEF ceiling
      <4>3. maxBondBps * most = most * maxBondBps
        BY <2>4, <3>3
      <4>4. (bps + maxBondBps) * most = most * (bps + maxBondBps)
        BY <2>4, <3>3
      <4>5. ceiling * (bps + maxBondBps) \in Nat /\ most * (bps + maxBondBps) \in Nat
        BY <2>4, <3>3, <4>2
      <4>6. ceiling * (bps + maxBondBps) <= most * (bps + maxBondBps)
        BY <4>1, <4>2, <4>3, <4>4, <4>5
      <4> QED BY <3>3, <4>1, <4>2, <4>6, Cancellation
    <3> HIDE DEF ceiling
    <3>5. /\ LimitsOfForm.bound = most
          /\ LimitsOfForm.maxBondAmount >= ceiling
          /\ LimitsOfForm.maxBondAmount \in Nat
      BY <3>2, <3>3, <3>4 DEF Signed
    <3>6. LimitsOfForm.maxBondAmount \in 1..UINT128_MAX
      <4>1. ceiling <= UINT128_MAX /\ 1 <= UINT128_MAX
        BY <2>4, <3>2, <3>3, <3>4
      <4>2. CASE LimitsOfForm = Signed(most, ceiling, FALSE) /\ ceiling > 0
        BY <2>4, <3>4, <4>1, <4>2 DEF Signed
      <4>3. CASE LimitsOfForm = Signed(most, 1, TRUE)
        <5>1. LimitsOfForm.maxBondAmount = 1
          BY <4>3 DEF Signed
        <5> QED BY <2>4, <4>1, <5>1
      <4> QED BY <3>2, <4>2, <4>3
    <3> QED
      BY <2>1, <2>2, <2>7, <3>2, <3>5, <3>6 DEF SignedFromQuote, most, ceiling
  <2> QED
    BY <2>6, <2>7 DEF Inv, Trade
<1>4. stage' # "done" => execution'.outcome = "none"
  BY DEF Inv, Sign
<1>5. stage' = "signed" => limits'.signed
  BY DEF Sign
<1>6. limits'.signed => Encodes(limits'.maxBondAmount)
  <2>1. SUFFICES ASSUME limits'.signed PROVE Encodes(limits'.maxBondAmount)
    OBVIOUS
  <2>2. limits'.maxBondAmount \in 1..UINT128_MAX /\ UINT128_MAX \in Nat
    BY <1>3, <2>1, WidthAssumption DEF SignedFromQuote
  <2> QED
    BY <2>2 DEF Encodes
<1> QED
  BY <1>1, <1>2, <1>3, <1>4, <1>5, <1>6 DEF Inv

(* The execution of an exact-input swap.  No ceiling can stop it: the      *)
(* ceiling is the widest amount there is.                                  *)
LEMMA ExactInputExecution ==
    ASSUME Inv, stage = "signed", trade.kind = "exactInput",
           NEW leg \in Legs, NEW rate \in Rates
    PROVE  /\ Outcome(leg, BondTaken(leg, rate)) \in {"executed", "beyondBound"}
           /\ ToleranceCoversCollateralCap(trade.toleranceBps) /\ leg = quote.leg
                 => Outcome(leg, BondTaken(leg, rate)) = "executed"
<1> DEFINE bond == BondTaken(leg, rate)
<1>1. /\ leg \in Nat /\ leg <= UINT128_MAX /\ bond \in Nat /\ bond <= leg
      /\ \E r \in 0..maxBondBps : bond = (leg * r) \div bps
  BY BondTakenIs
<1> HIDE DEF bond
<1>2. /\ limits.bound = ExactInputBound(quote.result, trade.toleranceBps)
      /\ limits.maxBondAmount = UINT128_MAX /\ UINT128_MAX \in Nat /\ UINT128_MAX > 0
      /\ trade.toleranceBps \in 0..bps
      /\ quote.result \in Nat /\ quote.result <= quote.leg
  BY WidthAssumption DEF Inv, SignedFromQuote, QuoteSound
<1>3. ~ (bond > limits.maxBondAmount) /\ limits.maxBondAmount # 0
  BY <1>1, <1>2
<1>4. ASSUME ToleranceCoversCollateralCap(trade.toleranceBps), leg = quote.leg
      PROVE  ~ RouterRefuses(leg, bond)
  <2>1. PICK r \in 0..maxBondBps : bond = (leg * r) \div bps
    BY <1>1
  <2>2. limits.bound <= leg - bond
    BY <1>1, <1>2, <1>4, <2>1, NetWithinMinimum
  <2>3. ExactInputBound(quote.result, trade.toleranceBps) \in Nat
    <3>1. quote.result * (bps - trade.toleranceBps) \in Nat /\ bps \in Nat \ {0}
      BY <1>2, HookConstants
    <3> QED BY <3>1, Division DEF ExactInputBound
  <2> QED
    BY <1>1, <1>2, <2>2, <2>3 DEF RouterRefuses, TraderAmount
<1> QED
  BY <1>3, <1>4 DEF Outcome, bond

(* The execution of an exact-output swap. *)
LEMMA ExactOutputExecution ==
    ASSUME Inv, stage = "signed", trade.kind = "exactOutput",
           NEW leg \in Legs, NEW rate \in Rates
    PROVE  /\ Outcome(leg, BondTaken(leg, rate)) # "invalidHookData"
           /\ Outcome(leg, BondTaken(leg, rate)) = "bondExceedsTraderMax"
                 => leg + BondTaken(leg, rate) > limits.bound
           /\ ToleranceCoversCollateralCap(trade.toleranceBps) /\ leg = quote.leg
                 => Outcome(leg, BondTaken(leg, rate)) = "executed"
<1> DEFINE bond == BondTaken(leg, rate)
           most == ExactOutputAmountInMaximum(quote.result, trade.toleranceBps)
<1>1. /\ leg \in Nat /\ bond \in Nat
      /\ \E r \in 0..maxBondBps : bond = (leg * r) \div bps
  BY BondTakenIs
<1> HIDE DEF bond
<1>2. PICK r \in 0..maxBondBps : bond = (leg * r) \div bps
  BY <1>1
<1>3. /\ limits.bound = most
      /\ limits.maxBondAmount >= ExactOutputMaxBondAmount(most)
      /\ limits.maxBondAmount \in 1..UINT128_MAX
      /\ trade.toleranceBps \in 0..bps
      /\ quote.result \in Nat /\ quote.leg <= quote.result
      /\ bps \in Nat \ {0} /\ maxBondBps \in Nat /\ UINT128_MAX \in Nat
  BY HookConstants, WidthAssumption DEF Inv, SignedFromQuote, QuoteSound
<1>4. most \in Nat
  <2>1. quote.result * (bps + trade.toleranceBps) + bps - 1 \in Nat
    BY <1>3
  <2> QED BY <1>3, <2>1, Division DEF ExactOutputAmountInMaximum
<1> HIDE DEF most
<1>5. ExactOutputMaxBondAmount(most) \in Nat
  <2>1. most * maxBondBps \in Nat /\ bps + maxBondBps \in Nat \ {0}
    BY <1>3, <1>4
  <2> QED BY <2>1, Division DEF ExactOutputMaxBondAmount
<1>6. leg + bond <= most => bond <= limits.maxBondAmount
  <2>1. leg + bond <= most => bond <= ExactOutputMaxBondAmount(most)
    BY <1>1, <1>2, <1>4, BondWithinCeiling
  <2> QED BY <1>1, <1>3, <1>4, <1>5, <2>1
<1>7. ToleranceCoversCollateralCap(trade.toleranceBps) /\ leg = quote.leg => leg + bond <= most
  BY <1>1, <1>2, <1>3, TotalWithinMaximum DEF most
<1>8. limits.maxBondAmount # 0
  BY <1>3
<1>9. RouterRefuses(leg, bond) <=> leg + bond > most
  BY <1>3 DEF RouterRefuses, TraderAmount
<1>10. bond > limits.maxBondAmount => leg + bond > most
  BY <1>1, <1>3, <1>4, <1>6
<1>11. leg + bond <= most => ~ (leg + bond > most) /\ ~ (bond > limits.maxBondAmount)
  BY <1>1, <1>3, <1>4, <1>6
<1> QED
  BY <1>3, <1>7, <1>8, <1>9, <1>10, <1>11 DEF Outcome, bond

LEMMA ExecuteStep ==
    ASSUME Inv, NEW leg \in Legs, NEW rate \in Rates, Execute(leg, rate)
    PROVE  Inv'
<1> DEFINE bond == BondTaken(leg, rate)
<1>1. /\ stage = "signed" /\ stage' = "done" /\ trade' = trade /\ quote' = quote
      /\ limits' = limits /\ configRead' = configRead /\ poolConfig' = poolConfig
      /\ execution' = [leg |-> leg, bond |-> bond, outcome |-> Outcome(leg, bond)]
  BY DEF Execute
<1>2. trade' \in Trade /\ ConfigSound' /\ QuoteSound'
  BY <1>1 DEF Inv, ConfigSound, QuoteSound
<1>3. execution'.leg = leg /\ execution'.bond = bond /\ execution'.outcome = Outcome(leg, bond)
  BY <1>1
<1> HIDE DEF bond
<1>4. CASE trade.kind = "exactInput"
  <2>1. /\ Outcome(leg, bond) \in {"executed", "beyondBound"}
        /\ ToleranceCoversCollateralCap(trade.toleranceBps) /\ leg = quote.leg
              => Outcome(leg, bond) = "executed"
    BY <1>1, <1>4, ExactInputExecution DEF bond
  <2>2. CeilingNeverBindsAlone'
    BY <1>3, <2>1 DEF CeilingNeverBindsAlone
  <2>3. OrderingAloneNeverReverts'
    BY <1>1, <1>3, <2>1 DEF OrderingAloneNeverReverts
  <2> QED
    BY <1>1, <1>2, <1>3, <2>1, <2>2, <2>3 DEF Inv, ExecutionSound
<1>5. CASE trade.kind = "exactOutput"
  <2>1. /\ Outcome(leg, bond) # "invalidHookData"
        /\ Outcome(leg, bond) = "bondExceedsTraderMax" => leg + bond > limits.bound
        /\ ToleranceCoversCollateralCap(trade.toleranceBps) /\ leg = quote.leg
              => Outcome(leg, bond) = "executed"
    BY <1>1, <1>5, ExactOutputExecution DEF bond
  <2>2. CeilingNeverBindsAlone'
    BY <1>1, <1>3, <1>5, <2>1 DEF CeilingNeverBindsAlone
  <2>3. OrderingAloneNeverReverts'
    BY <1>1, <1>3, <2>1 DEF OrderingAloneNeverReverts
  <2> QED
    BY <1>1, <1>2, <1>3, <2>1, <2>2, <2>3 DEF Inv, ExecutionSound
<1> QED
  BY <1>4, <1>5 DEF Inv, Trade

(* A quote carries between nothing and the whole leg as collateral. *)
LEMMA TakeQuoteStep ==
    ASSUME Inv, NEW leg \in Legs, NEW rate \in Rates, TakeQuote(leg, rate)
    PROVE  Inv'
<1> DEFINE bond == BondTaken(leg, rate)
<1>1. leg \in Nat /\ bond \in Nat /\ bond <= leg
  BY BondTakenIs
<1> HIDE DEF bond
<1>2. /\ stage = "form" /\ stage' = stage /\ trade' = trade /\ limits' = limits
      /\ configRead' = configRead /\ poolConfig' = poolConfig /\ execution' = execution
      /\ quote' = [taken |-> TRUE, leg |-> leg, result |-> TraderAmount(leg, bond)]
  BY DEF TakeQuote, bond
<1>3. quote'.leg = leg /\ quote'.result = TraderAmount(leg, bond)
  BY <1>2
<1>4. QuoteSound'
  BY <1>1, <1>2, <1>3 DEF QuoteSound, TraderAmount
<1>5. trade' \in Trade /\ ConfigSound'
  BY <1>2 DEF Inv, ConfigSound
<1>6. ExecutionSound'
  BY <1>2 DEF Inv, ExecutionSound, CeilingNeverBindsAlone, OrderingAloneNeverReverts
<1> QED
  BY <1>2, <1>4, <1>5, <1>6 DEF Inv

LEMMA NextInv == Inv /\ [Next]_vars => Inv'
<1> SUFFICES ASSUME Inv, [Next]_vars PROVE Inv'
  OBVIOUS
<1>1. ASSUME NEW cfg \in Configs, SetPoolConfig(cfg) PROVE Inv'
  <2>1. Stored(cfg) \in PoolConfig
    BY TypesAssumption DEF Stored, Disabled, PoolConfig
  <2>2. ConfigSound'
    BY <1>1, <2>1 DEF SetPoolConfig, Inv, ConfigSound
  <2>3. QuoteSound' /\ (stage' = "signed" => SignedFromQuote')
    BY <1>1 DEF SetPoolConfig, Inv, QuoteSound, SignedFromQuote
  <2>4. ExecutionSound'
    BY <1>1 DEF SetPoolConfig, Inv, ExecutionSound, CeilingNeverBindsAlone, OrderingAloneNeverReverts
  <2> QED
    BY <1>1, <2>2, <2>3, <2>4 DEF SetPoolConfig, Inv
<1>2. ASSUME ReadConfig PROVE Inv'
  <2>1. ConfigSound'
    BY <1>2 DEF ReadConfig, Inv, ConfigSound
  <2>2. QuoteSound' /\ stage' # "signed"
    BY <1>2 DEF ReadConfig, Inv, QuoteSound
  <2>3. ExecutionSound'
    BY <1>2 DEF ReadConfig, Inv, ExecutionSound, CeilingNeverBindsAlone, OrderingAloneNeverReverts
  <2> QED
    BY <1>2, <2>1, <2>2, <2>3 DEF ReadConfig, Inv
<1>3. ASSUME UNCHANGED vars PROVE Inv'
  BY <1>3 DEF vars, Inv, ConfigSound, QuoteSound, SignedFromQuote, ExecutionSound,
              CeilingNeverBindsAlone, OrderingAloneNeverReverts
<1> QED
  BY <1>1, <1>2, <1>3, TakeQuoteStep, ExecuteStep, SignStep DEF Next

THEOREM Invariance == Spec => []Inv
  BY InitInv, NextInv, PTL DEF Spec

(* The collateral ceiling is never what stops a swap (exactOutputLimits,   *)
(* the ceiling of one included).                                           *)
THEOREM CeilingTheorem == Spec => []CeilingNeverBindsAlone
<1>1. Inv => CeilingNeverBindsAlone
  BY DEF Inv, ExecutionSound
<1> QED
  BY <1>1, Invariance, PTL

(* Limits that were prepared encode, and decode in the hook                *)
(* (encodeHookData).                                                       *)
THEOREM PayloadTheorem == Spec => []LimitsEncode
<1>1. Inv => LimitsEncode
  BY DEF Inv, ExecutionSound, LimitsEncode
<1> QED
  BY <1>1, Invariance, PTL

(* Above the cap, no order of the block makes a swap revert at the price   *)
(* it was quoted at (toleranceCoversCollateralCap).                        *)
THEOREM OrderingTheorem == Spec => []OrderingAloneNeverReverts
<1>1. Inv => OrderingAloneNeverReverts
  BY DEF Inv, ExecutionSound
<1> QED
  BY <1>1, Invariance, PTL

-----------------------------------------------------------------------------
(* Types. *)

LimitsType == [signed : BOOLEAN, bound : Nat, maxBondAmount : Nat,
               ceilingIsProvenUnbonded : BOOLEAN]

LEMMA SignedTyped ==
    ASSUME NEW bound \in Nat, NEW ceiling \in Nat, NEW proven \in BOOLEAN
    PROVE  Signed(bound, ceiling, proven) \in LimitsType /\ Refused \in LimitsType
  BY DEF Signed, Refused, LimitsType

LEMMA LimitsTyped ==
    ASSUME quote.result \in Nat, trade \in Trade
    PROVE  LimitsOfForm \in LimitsType
<1> DEFINE q == quote.result
           tol == trade.toleranceBps
           low == ExactInputBound(q, tol)
           most == ExactOutputAmountInMaximum(q, tol)
           ceiling == ExactOutputMaxBondAmount(most)
<1>1. tol \in Nat /\ bps \in Nat \ {0} /\ maxBondBps \in Nat /\ UINT128_MAX \in Nat
  <2>1. tol \in Tolerances /\ Tolerances \subseteq Nat
    BY TypesAssumption DEF Trade
  <2>2. tol \in Nat
    BY <2>1
  <2> QED BY <2>2, HookConstants, WidthAssumption
<1>2. ASSUME tol \in 0..bps PROVE low \in Nat
  <2>1. q * (bps - tol) \in Nat
    BY <1>1, <1>2
  <2> QED BY <1>1, <2>1, Division DEF ExactInputBound
<1>3. most \in Nat
  <2>1. q * (bps + tol) + bps - 1 \in Nat
    <3>1. q * (bps + tol) \in Nat
      BY <1>1
    <3> QED BY <1>1, <3>1
  <2> QED BY <1>1, <2>1, Division DEF ExactOutputAmountInMaximum
<1> HIDE DEF most
<1>4. ceiling \in Nat
  <2>1. most * maxBondBps \in Nat /\ bps + maxBondBps \in Nat \ {0}
    BY <1>1, <1>3
  <2> QED BY <2>1, Division DEF ExactOutputMaxBondAmount
<1> HIDE DEF low, ceiling
<1>5. ExactInputLimits(q, tol) \in LimitsType
  <2>1. CASE tol \in 0..bps
    BY <1>1, <1>2, <2>1, SignedTyped DEF ExactInputLimits, EXACT_INPUT_MAX_BOND_AMOUNT, low
  <2>2. CASE tol \notin 0..bps
    BY <2>2, SignedTyped DEF ExactInputLimits
  <2> QED BY <2>1, <2>2
<1>6. ExactOutputLimits(q, tol, configRead, trade.zeroForOne) \in LimitsType
  <2>1. ExactOutputLimits(q, tol, configRead, trade.zeroForOne)
            \in {Refused, Signed(most, ceiling, FALSE), Signed(most, 1, TRUE)}
    BY DEF ExactOutputLimits, most, ceiling
  <2> QED BY <1>3, <1>4, <2>1, SignedTyped
<1> QED
  BY <1>5, <1>6 DEF LimitsOfForm

LEMMA NextTypes ==
    ASSUME Inv, Inv', TypeOK, [Next]_vars
    PROVE  TypeOK'
<1>1. /\ stage' \in {"form", "signed", "refused", "done"} /\ trade' \in Trade
      /\ poolConfig' \in PoolConfig /\ configRead' \subseteq PoolConfig
      /\ quote'.leg \in Nat /\ quote'.result \in Nat
  BY DEF Inv, ConfigSound, QuoteSound
<1>2. /\ quote \in [taken : BOOLEAN, leg : Nat, result : Nat]
      /\ limits \in LimitsType /\ execution \in Amounts
      /\ quote.result \in Nat /\ trade \in Trade
  BY DEF Inv, QuoteSound, TypeOK, LimitsType
<1>3. ASSUME NEW leg \in Legs, NEW rate \in Rates, TakeQuote(leg, rate)
      PROVE  TypeOK'
  <2>1. /\ limits' = limits /\ execution' = execution
        /\ \E result : quote' = [taken |-> TRUE, leg |-> leg, result |-> result]
    BY <1>3 DEF TakeQuote
  <2>2. quote' \in [taken : BOOLEAN, leg : Nat, result : Nat]
    BY <1>1, <2>1
  <2> QED BY <1>1, <1>2, <2>1, <2>2 DEF TypeOK, LimitsType
<1>4. ASSUME NEW leg \in Legs, NEW rate \in Rates, Execute(leg, rate)
      PROVE  TypeOK'
  <2> DEFINE bond == BondTaken(leg, rate)
  <2>1. leg \in Nat /\ bond \in Nat
    BY BondTakenIs
  <2> HIDE DEF bond
  <2>2. Outcome(leg, bond) \in {"executed", "invalidHookData", "bondExceedsTraderMax", "beyondBound"}
    BY DEF Outcome
  <2>3. /\ limits' = limits /\ quote' = quote
        /\ execution' = [leg |-> leg, bond |-> bond, outcome |-> Outcome(leg, bond)]
    BY <1>4 DEF Execute, bond
  <2>4. execution' \in Amounts
    BY <2>1, <2>2, <2>3 DEF Amounts
  <2> QED BY <1>1, <1>2, <2>3, <2>4 DEF TypeOK, LimitsType
<1>5. CASE Sign
  <2>1. limits' = LimitsOfForm /\ quote' = quote /\ execution' = execution
    BY <1>5 DEF Sign
  <2>2. limits' \in LimitsType
    BY <1>2, <2>1, LimitsTyped
  <2> QED BY <1>1, <1>2, <2>1, <2>2 DEF TypeOK, LimitsType
<1>6. ASSUME UNCHANGED <<quote, limits, execution>>
      PROVE  TypeOK'
  BY <1>1, <1>2, <1>6 DEF TypeOK, LimitsType
<1> QED
  BY <1>3, <1>4, <1>5, <1>6 DEF Next, vars, SetPoolConfig, ReadConfig

(* Type correctness: no amount the client derives or the hook takes is     *)
(* negative or left undefined by a division (limits.ts).                   *)
THEOREM TypesKept == Spec => []TypeOK
<1>1. Init => TypeOK
  <2>1. Refused \in LimitsType
    BY SignedTyped
  <2> QED BY <2>1 DEF Init, TypeOK, LimitsType, Disabled, PoolConfig, NoQuote, NotExecuted, Amounts
<1>2. Inv /\ Inv' /\ TypeOK /\ [Next]_vars => TypeOK'
  BY NextTypes
<1> QED
  BY <1>1, <1>2, Invariance, PTL DEF Spec

(* Together: the ceiling stops nothing the bound would let through, limits *)
(* that were prepared encode, and the order of the block makes no swap     *)
(* within its tolerance revert (limits.ts).                                *)
THEOREM LimitsAreSafe == Spec => []LimitsSafe
<1>1. TypeOK /\ CeilingNeverBindsAlone /\ LimitsEncode /\ OrderingAloneNeverReverts => LimitsSafe
  BY DEF LimitsSafe
<1> QED
  BY <1>1, TypesKept, CeilingTheorem, PayloadTheorem, OrderingTheorem, PTL

-----------------------------------------------------------------------------
(***************************************************************************)
(* The parts side by side: a step of the client is, for every part, a step *)
(* of that part or none.                                                   *)
(***************************************************************************)
LEMMA PartsMove ==
    [ClientNext]_clientVars =>
        /\ [Next]_vars /\ [Plan!Next]_planVars /\ [Tokens!Next]_tokenVars
        /\ [Deployment!Next]_deploymentVars /\ [Feed!Next]_feedVars /\ [History!Next]_historyVars
  BY DEF ClientNext, clientVars

(* The limits' part of the client behaves as the limits alone. *)
LEMMA LimitsBehave == ClientSpec => Spec
<1>1. ClientInit => Init
  BY DEF ClientInit
<1>2. [ClientNext]_clientVars => [Next]_vars
  BY PartsMove
<1> QED
  BY <1>1, <1>2, PTL DEF ClientSpec, Spec

(* The limits are safe in the client (limits.ts, swap.tsx): the ceiling    *)
(* stops nothing the bound would let through, the payload decodes, and the *)
(* order of the block reverts no swap within its tolerance.                *)
THEOREM ClientLimitsAreSafe == ClientSpec => []LimitsSafe
  BY LimitsBehave, LimitsAreSafe, PTL

-----------------------------------------------------------------------------
(***************************************************************************)
(* The router plan.                                                        *)
(***************************************************************************)
LEMMA Triples ==
    ASSUME NEW a, NEW b, NEW c
    PROVE  /\ Head(<<a, b, c>>) = a /\ Tail(<<a, b, c>>) = <<b, c>>
           /\ Head(<<b, c>>) = b /\ Tail(<<b, c>>) = <<c>>
           /\ Head(<<c>>) = c /\ Tail(<<c>>) = <<>>
           /\ <<a, b, c>> # <<>> /\ <<b, c>> # <<>> /\ <<c>> # <<>>
           /\ Len(<<a, b, c>>) = 3 /\ Len(<<b, c>>) = 2 /\ Len(<<c>>) = 1 /\ Len(<<>>) = 0
  OBVIOUS

(* The sides of a plan. *)
LEMMA Sides ==
    ASSUME request \in Plan!Requests
    PROVE  /\ Plan!Currencies = {Plan!Debit, Plan!Credit} /\ Plan!Debit # Plan!Credit
           /\ \A c \in Plan!Currencies : Plan!Nothing[c] = 0
           /\ Plan!Nothing \in [Plan!Currencies -> Nat]
           /\ \A f \in [Plan!Currencies -> Int] :
                 f[Plan!Debit] = 0 /\ f[Plan!Credit] = 0 => f = Plan!Nothing
<1>1. request.zeroForOne \in BOOLEAN
  BY DEF Plan!Requests
<1>2. Plan!Currencies = {Plan!Debit, Plan!Credit} /\ Plan!Debit # Plan!Credit
  BY <1>1 DEF Plan!Currencies, Plan!Debit, Plan!Credit, Plan!InputCurrency, Plan!OutputCurrency
<1> QED
  BY <1>2 DEF Plan!Nothing

(* The most the wallet pays and the least the recipient gets. *)
MostPaid == IF Plan!ExactInput THEN request.amount ELSE Plan!Limit.bound
LeastGot == IF Plan!ExactInput THEN Plan!Limit.bound ELSE request.amount

LEMMA LimitIsNatural ==
    ASSUME request \in Plan!Requests
    PROVE  /\ Plan!Limit.bound \in Nat /\ request.amount \in Nat
           /\ MostPaid \in Nat /\ LeastGot \in Nat
<1>1. /\ request.quoted \in Nat /\ request.amount \in Nat /\ request.toleranceBps \in Nat
      /\ request.kind \in {"exactInput", "exactOutput"}
  BY PlanAssumption, TypesAssumption DEF Plan!Requests
<1>2. bps \in Nat \ {0}
  BY HookConstants
<1> DEFINE q == request.quoted
           t == request.toleranceBps
<1>3. t \in 0..bps => Plan!ExactInputBound(q, t) \in Nat
  <2> SUFFICES ASSUME t \in 0..bps PROVE Plan!ExactInputBound(q, t) \in Nat
    OBVIOUS
  <2>1. bps - t \in Nat
    BY <1>1, <1>2
  <2>2. q * (bps - t) \in Nat
    BY <1>1, <2>1
  <2> QED
    BY <1>2, <2>2, Division DEF Plan!ExactInputBound
<1>4. Plan!ExactOutputAmountInMaximum(q, t) \in Nat
  <2>1. q * (bps + t) \in Nat
    BY <1>1, <1>2
  <2>2. q * (bps + t) + bps - 1 \in Nat
    BY <1>2, <2>1
  <2> QED
    BY <1>2, <2>2, Division DEF Plan!ExactOutputAmountInMaximum
<1>5. Plan!Limit.bound \in Nat
  <2>1. CASE request.kind = "exactInput"
    BY <1>3, <2>1 DEF Plan!Limit, Plan!LimitsOf, Plan!ExactInputLimits, Plan!Refused, Plan!Signed
  <2>2. CASE request.kind = "exactOutput"
    <3>1. Plan!Limit = Plan!ExactOutputLimits(q, t, {}, TRUE)
      BY <2>2 DEF Plan!Limit, Plan!LimitsOf
    <3> HIDE DEF q, t
    <3> QED
      BY <1>4, <3>1 DEF Plan!ExactOutputLimits, Plan!Refused, Plan!Signed
  <2> QED
    BY <1>1, <2>1, <2>2
<1> QED
  BY <1>1, <1>5 DEF MostPaid, LeastGot

(* The three actions of a plan, and the books after each of them. *)
SwapAction == Plan!Action(IF Plan!ExactInput THEN "SWAP_EXACT_IN_SINGLE" ELSE "SWAP_EXACT_OUT_SINGLE",
                          Plan!Debit, request.amount, Plan!Limit.bound)
SettleAction == Plan!Action("SETTLE", Plan!Debit, Plan!OPEN_DELTA, 0)
TakeAction == Plan!Action("TAKE", Plan!Credit, Plan!OPEN_DELTA, 0)

Untouched == spent = Plan!Nothing /\ received = Plan!Nothing
Paid == spent[Plan!Debit] <= MostPaid /\ spent[Plan!Credit] = 0

ToSwap ==
    /\ actions = <<SwapAction, SettleAction, TakeAction>>
    /\ delta = Plan!Nothing /\ Untouched /\ wallet[Plan!Debit] >= MostPaid
ToSettle ==
    /\ actions = <<SettleAction, TakeAction>>
    /\ delta[Plan!Debit] <= 0 /\ - delta[Plan!Debit] <= MostPaid /\ delta[Plan!Credit] >= LeastGot
    /\ Untouched /\ wallet[Plan!Debit] >= MostPaid
ToTake ==
    /\ actions = <<TakeAction>>
    /\ delta[Plan!Debit] = 0 /\ delta[Plan!Credit] >= LeastGot
    /\ Paid /\ received = Plan!Nothing
Settled ==
    /\ actions = <<>>
    /\ delta = Plan!Nothing
    /\ Paid /\ received[Plan!Credit] >= LeastGot /\ received[Plan!Debit] = 0

PlanTyped ==
    /\ request \in Plan!Requests
    /\ wallet \in [Plan!Currencies -> Nat]
    /\ spent \in [Plan!Currencies -> Nat] /\ received \in [Plan!Currencies -> Nat]
    /\ delta \in [Plan!Currencies -> Int]
    /\ status \in {"form", "running", "executed"} \union Plan!Refusals

(* What is left of a plan says where its books stand. *)
PlanInv ==
    /\ PlanTyped
    /\ status = "running" => Plan!Limit.signed /\ (ToSwap \/ ToSettle \/ ToTake \/ Settled)
    /\ status = "executed" => Settled
    /\ status \notin {"running", "executed"} =>
          actions = <<>> /\ delta = Plan!Nothing /\ Untouched

LEMMA PlanInit == Plan!Init => PlanInv
<1> SUFFICES ASSUME Plan!Init PROVE PlanInv
  OBVIOUS
<1>1. /\ request \in Plan!Requests /\ wallet = Plan!Nothing /\ actions = <<>>
      /\ delta = Plan!Nothing /\ spent = Plan!Nothing /\ received = Plan!Nothing /\ status = "form"
  BY DEF Plan!Init
<1>2. PlanTyped
  BY <1>1, Sides DEF PlanTyped
<1> QED
  BY <1>1, <1>2 DEF PlanInv, Untouched

(* A bond is a natural number, and an exact-input bond is within its leg. *)
LEMMA BondIsNatural ==
    ASSUME NEW leg \in Legs, NEW rate \in Rates
    PROVE  /\ leg \in Nat /\ (leg * rate) \div bps \in Nat
<1>1. leg \in Nat /\ rate \in Nat /\ bps \in Nat
  BY HookConstants, WidthAssumption, RatesAssumption, LegsAssumption
<1> QED
  BY <1>1, BondShare

(* A refusal ends a plan with nothing moved. *)
LEMMA RefusalStep ==
    ASSUME PlanInv, NEW reason \in Plan!Refusals, Plan!Revert(reason)
    PROVE  PlanInv'
<1>1. /\ status' = reason /\ actions' = <<>> /\ delta' = Plan!Nothing
      /\ spent' = Plan!Nothing /\ received' = Plan!Nothing /\ request' = request /\ wallet' = wallet
  BY DEF Plan!Revert
<1>2. PlanTyped'
  BY <1>1, Sides DEF PlanInv, PlanTyped
<1>3. status' \notin {"running", "executed"}
  BY <1>1 DEF Plan!Refusals
<1>4. Plan!Nothing' = Plan!Nothing
  BY DEF Plan!Nothing, Plan!Currencies
<1> QED
  BY <1>1, <1>2, <1>3, <1>4 DEF PlanInv, Untouched

(* What depends on the request alone keeps its value. *)
LEMMA SameRequest ==
    ASSUME request' = request
    PROVE  /\ Plan!Limit' = Plan!Limit /\ Plan!Debit' = Plan!Debit /\ Plan!Credit' = Plan!Credit
           /\ Plan!ExactInput' = Plan!ExactInput /\ MostPaid' = MostPaid /\ LeastGot' = LeastGot
           /\ SwapAction' = SwapAction /\ SettleAction' = SettleAction /\ TakeAction' = TakeAction
  BY DEF Plan!Limit, Plan!Debit, Plan!Credit, Plan!ExactInput, MostPaid, LeastGot, SwapAction,
         SettleAction, TakeAction

(* The first action left is the one that runs. *)
LEMMA Running ==
    ASSUME PlanInv, NEW name, Plan!Runs(name)
    PROVE  /\ status = "running" /\ Plan!Limit.signed
           /\ \/ ToSwap /\ Head(actions) = SwapAction /\ Tail(actions) = <<SettleAction, TakeAction>>
                 /\ name \in {"SWAP_EXACT_IN_SINGLE", "SWAP_EXACT_OUT_SINGLE"}
                 /\ (name = "SWAP_EXACT_IN_SINGLE" <=> Plan!ExactInput)
              \/ ToSettle /\ Head(actions) = SettleAction /\ Tail(actions) = <<TakeAction>>
                 /\ name = "SETTLE"
              \/ ToTake /\ Head(actions) = TakeAction /\ Tail(actions) = <<>> /\ name = "TAKE"
<1>1. /\ SwapAction.name = IF Plan!ExactInput THEN "SWAP_EXACT_IN_SINGLE" ELSE "SWAP_EXACT_OUT_SINGLE"
      /\ SettleAction.name = "SETTLE" /\ TakeAction.name = "TAKE"
  BY DEF SwapAction, SettleAction, TakeAction, Plan!Action
<1>2. status = "running" /\ actions # <<>> /\ Head(actions).name = name
  BY DEF Plan!Runs
<1>3. ToSwap \/ ToSettle \/ ToTake
  BY <1>2 DEF PlanInv, Settled
<1>4. CASE ToSwap
  <2>1. Head(actions) = SwapAction /\ Tail(actions) = <<SettleAction, TakeAction>>
    BY <1>4, Triples DEF ToSwap
  <2> QED
    BY <1>1, <1>2, <1>4, <2>1 DEF PlanInv
<1>5. CASE ToSettle
  <2>1. Head(actions) = SettleAction /\ Tail(actions) = <<TakeAction>>
    BY <1>5, Triples DEF ToSettle
  <2> QED
    BY <1>1, <1>2, <1>5, <2>1 DEF PlanInv
<1>6. CASE ToTake
  <2>1. Head(actions) = TakeAction /\ Tail(actions) = <<>>
    BY <1>6, Triples DEF ToTake
  <2> QED
    BY <1>1, <1>2, <1>6, <2>1 DEF PlanInv
<1> QED
  BY <1>3, <1>4, <1>5, <1>6

LEMMA SubmitStep ==
    ASSUME PlanInv, NEW spare \in Spare, Plan!SubmitSwap(spare)
    PROVE  PlanInv'
<1> DEFINE required == Plan!SpendRequirement(request.kind, request.zeroForOne, request.amount,
                                             Plan!Limit.bound)
<1>1. /\ status = "form" /\ Plan!Limit.signed /\ required[Plan!Debit] > 0
      /\ wallet' = [c \in Plan!Currencies |-> IF required[c] = 0 THEN 0 ELSE required[c] + spare]
      /\ actions' = IF Plan!ExactInput
                    THEN Plan!BuildExactInputPlan(request.zeroForOne, request.amount, Plan!Limit.bound)
                    ELSE Plan!BuildExactOutputPlan(request.zeroForOne, request.amount, Plan!Limit.bound)
      /\ status' = "running"
      /\ request' = request /\ delta' = delta /\ spent' = spent /\ received' = received
  BY DEF Plan!SubmitSwap
<1>2. request \in Plan!Requests /\ delta = Plan!Nothing /\ Untouched
  BY <1>1 DEF PlanInv, PlanTyped
<1>3. /\ required[Plan!Debit] = MostPaid /\ required[Plan!Credit] = 0
      /\ MostPaid \in Nat
  <2>1. required = [Plan!Nothing EXCEPT ![Plan!Debit] = MostPaid]
    BY DEF Plan!SpendRequirement, MostPaid, Plan!ExactInput, Plan!Debit
  <2> QED
    BY <1>2, <2>1, Sides, LimitIsNatural
<1> HIDE DEF required
<1>4. spare \in Nat
  BY PlanAssumption
<1>5. wallet' \in [Plan!Currencies -> Nat] /\ wallet'[Plan!Debit] >= MostPaid
  BY <1>1, <1>2, <1>3, <1>4, Sides
<1>6. actions' = <<SwapAction, SettleAction, TakeAction>>
  BY <1>1 DEF Plan!BuildExactInputPlan, Plan!BuildExactOutputPlan, SwapAction, SettleAction,
              TakeAction, Plan!Debit, Plan!Credit
<1>7. PlanTyped'
  BY <1>1, <1>5 DEF PlanInv, PlanTyped
<1>8. ToSwap'
  BY <1>1, <1>2, <1>5, <1>6, SameRequest DEF ToSwap, Untouched, Plan!Nothing
<1> QED
  BY <1>1, <1>7, <1>8, SameRequest DEF PlanInv

LEMMA SwapExactInStep ==
    ASSUME PlanInv, NEW consumed \in Inputs, NEW leg \in Legs, NEW rate \in Rates,
           Plan!SwapExactIn(consumed, leg, rate)
    PROVE  PlanInv'
<1> DEFINE bond == (leg * rate) \div bps
<1>1. /\ Plan!Runs("SWAP_EXACT_IN_SINGLE") /\ consumed <= Head(actions).amount
      /\ IF leg - bond < Head(actions).bound THEN Plan!Revert("tooLittleReceived")
         ELSE /\ delta' = [delta EXCEPT ![Plan!Debit] = @ - consumed, ![Plan!Credit] = @ + leg - bond]
              /\ actions' = Tail(actions)
              /\ UNCHANGED <<request, wallet, spent, received, status>>
  BY DEF Plan!SwapExactIn
<1>2. leg \in Nat /\ bond \in Nat /\ consumed \in Nat
  BY BondIsNatural, TypesAssumption
<1> HIDE DEF bond
<1>3. /\ status = "running" /\ Plan!Limit.signed /\ ToSwap /\ Plan!ExactInput
      /\ Head(actions) = SwapAction /\ Tail(actions) = <<SettleAction, TakeAction>>
  BY <1>1, Running
<1>4. /\ Head(actions).amount = MostPaid /\ Head(actions).bound = LeastGot
      /\ MostPaid \in Nat /\ LeastGot \in Nat /\ request \in Plan!Requests
  BY <1>3, LimitIsNatural DEF SwapAction, Plan!Action, MostPaid, LeastGot, PlanInv, PlanTyped
<1>5. CASE leg - bond < LeastGot
  BY <1>1, <1>4, <1>5, RefusalStep DEF Plan!Refusals
<1>6. CASE ~ (leg - bond < LeastGot)
  <2>1. /\ delta' = [delta EXCEPT ![Plan!Debit] = @ - consumed, ![Plan!Credit] = @ + leg - bond]
        /\ actions' = <<SettleAction, TakeAction>>
        /\ UNCHANGED <<request, wallet, spent, received, status>>
    BY <1>1, <1>3, <1>4, <1>6
  <2>2. /\ delta \in [Plan!Currencies -> Int] /\ delta[Plan!Debit] = 0 /\ delta[Plan!Credit] = 0
    BY <1>3, <1>4, Sides DEF ToSwap, PlanInv, PlanTyped
  <2>3. /\ delta' \in [Plan!Currencies -> Int]
        /\ delta'[Plan!Debit] = 0 - consumed /\ delta'[Plan!Credit] = 0 + leg - bond
    BY <1>2, <1>4, <2>1, <2>2, Sides
  <2>4. PlanTyped'
    BY <2>1, <2>3 DEF PlanInv, PlanTyped
  <2>5. ToSettle'
    BY <1>1, <1>2, <1>3, <1>4, <1>6, <2>1, <2>3, SameRequest
       DEF ToSwap, ToSettle, Untouched, Plan!Nothing
  <2> QED
    BY <1>3, <2>1, <2>4, <2>5, SameRequest DEF PlanInv
<1> QED
  BY <1>2, <1>4, <1>5, <1>6

LEMMA SwapExactOutStep ==
    ASSUME PlanInv, NEW leg \in Legs, NEW rate \in Rates, Plan!SwapExactOut(leg, rate)
    PROVE  PlanInv'
<1> DEFINE bond == (leg * rate) \div bps
<1>1. /\ Plan!Runs("SWAP_EXACT_OUT_SINGLE")
      /\ IF bond > Plan!Limit.maxBondAmount THEN Plan!Revert("bondExceedsTraderMax")
         ELSE IF leg + bond > Head(actions).bound THEN Plan!Revert("tooMuchRequested")
         ELSE /\ delta' = [delta EXCEPT ![Plan!Debit] = @ - leg - bond,
                                        ![Plan!Credit] = @ + Head(actions).amount]
              /\ actions' = Tail(actions)
              /\ UNCHANGED <<request, wallet, spent, received, status>>
  BY DEF Plan!SwapExactOut
<1>2. leg \in Nat /\ bond \in Nat
  BY BondIsNatural
<1> HIDE DEF bond
<1>3. /\ status = "running" /\ Plan!Limit.signed /\ ToSwap /\ ~ Plan!ExactInput
      /\ Head(actions) = SwapAction /\ Tail(actions) = <<SettleAction, TakeAction>>
  BY <1>1, Running
<1>4. /\ Head(actions).amount = LeastGot /\ Head(actions).bound = MostPaid
      /\ MostPaid \in Nat /\ LeastGot \in Nat /\ request \in Plan!Requests
  BY <1>3, LimitIsNatural DEF SwapAction, Plan!Action, MostPaid, LeastGot, PlanInv, PlanTyped
<1>5. CASE bond > Plan!Limit.maxBondAmount
  BY <1>1, <1>5, RefusalStep DEF Plan!Refusals
<1>6. CASE ~ (bond > Plan!Limit.maxBondAmount) /\ leg + bond > MostPaid
  BY <1>1, <1>4, <1>6, RefusalStep DEF Plan!Refusals
<1>7. CASE ~ (bond > Plan!Limit.maxBondAmount) /\ ~ (leg + bond > MostPaid)
  <2>1. /\ delta' = [delta EXCEPT ![Plan!Debit] = @ - leg - bond, ![Plan!Credit] = @ + LeastGot]
        /\ actions' = <<SettleAction, TakeAction>>
        /\ UNCHANGED <<request, wallet, spent, received, status>>
    BY <1>1, <1>3, <1>4, <1>7
  <2>2. /\ delta \in [Plan!Currencies -> Int] /\ delta[Plan!Debit] = 0 /\ delta[Plan!Credit] = 0
    BY <1>3, <1>4, Sides DEF ToSwap, PlanInv, PlanTyped
  <2>3. /\ delta' \in [Plan!Currencies -> Int]
        /\ delta'[Plan!Debit] = 0 - leg - bond /\ delta'[Plan!Credit] = 0 + LeastGot
    BY <1>2, <1>4, <2>1, <2>2, Sides
  <2>4. PlanTyped'
    BY <2>1, <2>3 DEF PlanInv, PlanTyped
  <2>5. ToSettle'
    BY <1>2, <1>3, <1>4, <1>7, <2>1, <2>3, SameRequest
       DEF ToSwap, ToSettle, Untouched, Plan!Nothing
  <2> QED
    BY <1>3, <2>1, <2>4, <2>5, SameRequest DEF PlanInv
<1> QED
  BY <1>5, <1>6, <1>7

LEMMA SettleDebtStep == PlanInv /\ Plan!SettleDebt => PlanInv'
<1> SUFFICES ASSUME PlanInv, Plan!SettleDebt PROVE PlanInv'
  OBVIOUS
<1>1. Plan!Runs("SETTLE")
  BY DEF Plan!SettleDebt
<1>2. /\ status = "running" /\ Plan!Limit.signed /\ ToSettle
      /\ Head(actions) = SettleAction /\ Tail(actions) = <<TakeAction>>
  BY <1>1, Running
<1>3. /\ Head(actions).currency = Plan!Debit /\ Head(actions).amount = Plan!OPEN_DELTA
  BY <1>2 DEF SettleAction, Plan!Action
<1>4. PlanTyped /\ request \in Plan!Requests /\ MostPaid \in Nat /\ LeastGot \in Nat
  BY LimitIsNatural DEF PlanInv, PlanTyped
<1> DEFINE debt == - delta[Plan!Debit]
<1>5. /\ delta[Plan!Debit] \in Int /\ delta[Plan!Credit] \in Int /\ debt \in Nat /\ debt <= MostPaid
      /\ wallet[Plan!Debit] \in Nat /\ debt <= wallet[Plan!Debit]
  BY <1>2, <1>4, Sides DEF PlanTyped, ToSettle
<1> DEFINE Pay == /\ delta' = [delta EXCEPT ![Plan!Debit] = @ + debt]
                  /\ wallet' = [wallet EXCEPT ![Plan!Debit] = @ - debt]
                  /\ spent' = [spent EXCEPT ![Plan!Debit] = @ + debt]
                  /\ actions' = Tail(actions)
                  /\ UNCHANGED <<request, received, status>>
<1>a. ~ (debt < 0) /\ ~ (wallet[Plan!Debit] < debt)
  BY <1>5
<1>b. IF debt < 0 THEN Plan!Revert("deltaNotNegative")
      ELSE IF wallet[Plan!Debit] < debt THEN Plan!Revert("insufficientAllowance") ELSE Pay
  BY <1>3 DEF Plan!SettleDebt
<1>6. /\ delta' = [delta EXCEPT ![Plan!Debit] = @ + debt]
      /\ wallet' = [wallet EXCEPT ![Plan!Debit] = @ - debt]
      /\ spent' = [spent EXCEPT ![Plan!Debit] = @ + debt]
      /\ actions' = <<TakeAction>>
      /\ UNCHANGED <<request, received, status>>
  BY <1>2, <1>a, <1>b
<1>7. /\ spent[Plan!Debit] = 0 /\ spent[Plan!Credit] = 0
  BY <1>2, <1>4, Sides DEF ToSettle, Untouched
<1>8. /\ delta' \in [Plan!Currencies -> Int] /\ delta'[Plan!Debit] = delta[Plan!Debit] + debt
      /\ delta'[Plan!Credit] = delta[Plan!Credit]
  BY <1>4, <1>5, <1>6, Sides DEF PlanTyped
<1>9. wallet' \in [Plan!Currencies -> Nat]
  BY <1>4, <1>5, <1>6, Sides DEF PlanTyped
<1>10. /\ spent' \in [Plan!Currencies -> Nat] /\ spent'[Plan!Debit] = debt
       /\ spent'[Plan!Credit] = 0
  <2> HIDE DEF debt
  <2>1. spent' = [spent EXCEPT ![Plan!Debit] = debt]
    BY <1>5, <1>6, <1>7
  <2> QED
    BY <1>4, <1>5, <1>7, <2>1, Sides DEF PlanTyped
<1>11. PlanTyped'
  BY <1>4, <1>6, <1>8, <1>9, <1>10 DEF PlanTyped
<1>12. ToTake'
  BY <1>2, <1>4, <1>5, <1>6, <1>8, <1>10, SameRequest
     DEF ToSettle, ToTake, Untouched, Paid, Plan!Nothing
<1> QED
  BY <1>2, <1>6, <1>11, <1>12, SameRequest DEF PlanInv

LEMMA TakeCreditStep == PlanInv /\ Plan!TakeCredit => PlanInv'
<1> SUFFICES ASSUME PlanInv, Plan!TakeCredit PROVE PlanInv'
  OBVIOUS
<1>1. Plan!Runs("TAKE")
  BY DEF Plan!TakeCredit
<1>2. /\ status = "running" /\ Plan!Limit.signed /\ ToTake
      /\ Head(actions) = TakeAction /\ Tail(actions) = <<>>
  BY <1>1, Running
<1>3. /\ Head(actions).currency = Plan!Credit /\ Head(actions).amount = Plan!OPEN_DELTA
  BY <1>2 DEF TakeAction, Plan!Action
<1>4. PlanTyped /\ request \in Plan!Requests /\ MostPaid \in Nat /\ LeastGot \in Nat
  BY LimitIsNatural DEF PlanInv, PlanTyped
<1> DEFINE due == delta[Plan!Credit]
<1>5. due \in Nat /\ due >= LeastGot
  BY <1>2, <1>4, Sides DEF PlanTyped, ToTake
<1> DEFINE Deliver == /\ delta' = [delta EXCEPT ![Plan!Credit] = @ - due]
                      /\ received' = [received EXCEPT ![Plan!Credit] = @ + due]
                      /\ actions' = Tail(actions)
                      /\ UNCHANGED <<request, wallet, spent, status>>
<1>a. ~ (due < 0)
  BY <1>5
<1>b. IF due < 0 THEN Plan!Revert("deltaNotPositive") ELSE Deliver
  BY <1>3 DEF Plan!TakeCredit
<1>6. /\ delta' = [delta EXCEPT ![Plan!Credit] = @ - due]
      /\ received' = [received EXCEPT ![Plan!Credit] = @ + due]
      /\ actions' = <<>>
      /\ UNCHANGED <<request, wallet, spent, status>>
  BY <1>2, <1>a, <1>b
<1>7. delta' \in [Plan!Currencies -> Int] /\ delta' = Plan!Nothing
  <2>1. /\ delta' \in [Plan!Currencies -> Int]
        /\ delta'[Plan!Debit] = 0 /\ delta'[Plan!Credit] = 0
    BY <1>2, <1>4, <1>5, <1>6, Sides DEF PlanTyped, ToTake
  <2> QED
    BY <1>4, <2>1, Sides
<1>8. /\ received' \in [Plan!Currencies -> Nat] /\ received'[Plan!Credit] = due
      /\ received'[Plan!Debit] = 0
  <2>1. received[Plan!Credit] = 0 /\ received[Plan!Debit] = 0
    BY <1>2, <1>4, Sides DEF ToTake
  <2> QED
    BY <1>4, <1>5, <1>6, <2>1, Sides DEF PlanTyped
<1>9. PlanTyped'
  BY <1>4, <1>6, <1>7, <1>8 DEF PlanTyped
<1>10. Settled'
  BY <1>2, <1>5, <1>6, <1>7, <1>8, SameRequest DEF ToTake, Settled, Paid, Plan!Nothing
<1> QED
  BY <1>2, <1>6, <1>9, <1>10, SameRequest DEF PlanInv

LEMMA CloseStep == PlanInv /\ Plan!Close => PlanInv'
<1> SUFFICES ASSUME PlanInv, Plan!Close PROVE PlanInv'
  OBVIOUS
<1>1. status = "running" /\ actions = <<>>
  BY DEF Plan!Close
<1>2. Settled
  BY <1>1, Triples DEF PlanInv, ToSwap, ToSettle, ToTake
<1>3. status' = "executed" /\ UNCHANGED <<request, wallet, actions, delta, spent, received>>
  BY <1>2 DEF Plan!Close, Settled
<1>4. PlanTyped'
  BY <1>3 DEF PlanInv, PlanTyped
<1>5. Settled'
  BY <1>2, <1>3, SameRequest DEF Settled, Paid, Plan!Nothing
<1> QED
  BY <1>3, <1>4, <1>5 DEF PlanInv

LEMMA PlanNext == PlanInv /\ [Plan!Next]_planVars => PlanInv'
<1> SUFFICES ASSUME PlanInv, [Plan!Next]_planVars PROVE PlanInv'
  OBVIOUS
<1>1. CASE UNCHANGED planVars
  <2>1. UNCHANGED <<request, wallet, actions, delta, spent, received, status>>
    BY <1>1 DEF planVars
  <2> QED
    BY <2>1, SameRequest
       DEF PlanInv, PlanTyped, ToSwap, ToSettle, ToTake, Settled, Untouched, Paid, Plan!Nothing
<1>2. CASE Plan!Next
  BY <1>2, SubmitStep, SwapExactInStep, SwapExactOutStep, SettleDebtStep, TakeCreditStep, CloseStep
     DEF Plan!Next
<1> QED
  BY <1>1, <1>2

(* The invariant says what is promised of a plan. *)
LEMMA PlanKeepsItsWord == PlanInv => Plan!PlanSafe
<1> SUFFICES ASSUME PlanInv PROVE Plan!PlanSafe
  OBVIOUS
<1>1. PlanTyped /\ request \in Plan!Requests /\ MostPaid \in Nat /\ LeastGot \in Nat
  BY LimitIsNatural DEF PlanInv, PlanTyped
<1>2. /\ delta[Plan!Debit] \in Int /\ delta[Plan!Credit] \in Int
      /\ spent[Plan!Debit] \in Nat /\ received[Plan!Credit] \in Nat
  BY <1>1, Sides DEF PlanTyped
<1>3. delta[Plan!Debit] <= 0 /\ delta[Plan!Credit] >= 0 /\ Len(actions) <= 3
  <2>1. CASE ToSwap
    BY <1>1, <2>1, Sides, Triples DEF ToSwap
  <2>2. CASE ToSettle
    BY <1>1, <1>2, <2>2, Triples DEF ToSettle
  <2>3. CASE ToTake
    BY <1>1, <1>2, <2>3, Triples DEF ToTake
  <2>4. CASE actions = <<>> /\ delta = Plan!Nothing
    BY <1>1, <2>4, Sides, Triples
  <2> QED
    BY <2>1, <2>2, <2>3, <2>4 DEF PlanInv, Settled
<1>4. Plan!TypeOK
  BY <1>1, <1>3 DEF PlanTyped, Plan!TypeOK
<1>5. Plan!PlanCloses
  BY <1>1 DEF PlanTyped, Plan!PlanCloses, Plan!Refusals, Plan!Faults
<1>6. Plan!TraderWithinLimits
  BY DEF PlanInv, Settled, Paid, MostPaid, LeastGot, Plan!TraderWithinLimits
<1> QED
  BY <1>4, <1>5, <1>6 DEF Plan!PlanSafe

(* A plan leaves no debt and no credit behind, takes no more from the      *)
(* wallet and gives the recipient no less than the form showed, and fails  *)
(* only for a limit the trader signed (swapPlan.ts buildExactInputPlan,    *)
(* buildExactOutputPlan, spendRequirement).                                *)
THEOREM PlanIsSafe == ClientSpec => []PlanSafe
<1>1. ClientInit => PlanInv
  BY PlanInit DEF ClientInit
<1>2. [ClientNext]_clientVars => [Plan!Next]_planVars
  BY PartsMove
<1>3. PlanInv /\ [ClientNext]_clientVars => PlanInv'
  BY <1>2, PlanNext
<1>4. PlanInv => PlanSafe
  BY PlanKeepsItsWord DEF PlanSafe, In
<1> QED
  BY <1>1, <1>3, <1>4, PTL DEF ClientSpec

-----------------------------------------------------------------------------
(***************************************************************************)
(* The tokens' metadata.                                                   *)
(***************************************************************************)
(* What is held of a token is unknown, or the token's own. *)
Genuine(meta) ==
    /\ meta \in [PoolTokens -> Tokens!Meta]
    /\ \A c \in PoolTokens : \/ meta[c] = Tokens!Unknown
                             \/ meta[c].known /\ meta[c].decimals = decimals[c]

Complete(meta) == \A c \in PoolTokens : meta[c].known

(* The cache forgets nothing, one load at most is live, and once the tokens *)
(* were shown that load knows both from its start.                          *)
TokensInv ==
    /\ Tokens!TypeOK /\ Tokens!FailsClosed
    /\ Genuine(cache)
    /\ \A l \in Loads : Genuine(loads[l].meta)
    /\ \A l \in Loads, c \in PoolTokens : loads[l].meta[c].known => cache[c].known
    /\ \A k, l \in Loads : loads[k].live /\ loads[l].live => k = l
    /\ tokens.status = "ready" =>
          Complete(cache) /\ \A l \in Loads : loads[l].live => Complete(loads[l].meta)

Shown == [status : {"loading", "ready", "error"}, meta : [PoolTokens -> Tokens!Meta]]

(* What is shown when nothing is known. *)
LEMMA NothingKnown ==
    /\ Tokens!Unknown \in Tokens!Meta /\ ~ Tokens!Unknown.known
    /\ Tokens!Loading \in Shown
    /\ \A c \in PoolTokens : Tokens!Loading.meta[c] = Tokens!Unknown
    /\ Tokens!Loading.status = "loading"
<1>1. Tokens!Unknown \in Tokens!Meta /\ ~ Tokens!Unknown.known
  BY DecimalsAssumption DEF Tokens!Unknown, Tokens!Meta
<1> QED
  BY <1>1 DEF Tokens!Loading, Shown

LEMMA ErrorShown ==
    LET error == [Tokens!Loading EXCEPT !.status = "error"] IN
    /\ error \in Shown /\ error.status = "error"
    /\ \A c \in PoolTokens : error.meta[c] = Tokens!Unknown
<1>1. [Tokens!Loading EXCEPT !.status = "error"]
          = [status |-> "error", meta |-> Tokens!Loading.meta]
  BY DEF Tokens!Loading
<1> QED
  BY <1>1, NothingKnown DEF Shown

LEMMA TokensInit == Tokens!Init => TokensInv
<1> SUFFICES ASSUME Tokens!Init PROVE TokensInv
  OBVIOUS
<1>1. Genuine(cache)
  BY NothingKnown DEF Tokens!Init, Genuine
<1>2. \A l \in Loads : /\ loads[l] = Tokens!NoLoad /\ ~ loads[l].live /\ loads[l].phase = "none"
                       /\ Genuine(loads[l].meta)
                       /\ \A c \in PoolTokens : loads[l].meta[c] = Tokens!Unknown
  BY NothingKnown DEF Tokens!Init, Tokens!NoLoad, Genuine
<1>3. Tokens!TypeOK
  <2> DEFINE load == [phase : {"none", "reading", "rejected", "done"}, live : BOOLEAN,
                      meta : [PoolTokens -> Tokens!Meta]]
  <2>1. Tokens!NoLoad \in load
    BY NothingKnown DEF Tokens!NoLoad
  <2>2. loads \in [Loads -> load]
    BY <2>1 DEF Tokens!Init
  <2>3. tokens \in Shown
    BY NothingKnown DEF Tokens!Init
  <2>4. decimals \in [PoolTokens -> Reported]
    BY DEF Tokens!Init
  <2> QED
    BY <1>1, <2>2, <2>3, <2>4 DEF Genuine, Shown, Tokens!TypeOK
<1>4. Tokens!FailsClosed
  BY NothingKnown DEF Tokens!Init, Tokens!FailsClosed
<1> QED
  BY <1>1, <1>2, <1>3, <1>4, NothingKnown DEF TokensInv, Tokens!Init

(* Decimals that were read are the token's, and can be used. *)
LEMMA ReadIsGenuine ==
    ASSUME NEW c \in PoolTokens, NEW answered \in BOOLEAN, NEW symbol \in {"own", "fromAddress"},
           NEW read \in Tokens!DecimalsRead(c, answered)
    PROVE  /\ Tokens!Known(read, symbol) \in Tokens!Meta
           /\ Tokens!Known(read, symbol).known
           /\ Tokens!Known(read, symbol).decimals = decimals[c]
BY DEF Tokens!Known, Tokens!DecimalsRead, Tokens!Meta

(* Knowing one more token, for certain. *)
LEMMA GenuineKept ==
    ASSUME NEW meta, Genuine(meta), NEW c \in PoolTokens, NEW m \in Tokens!Meta,
           m.known, m.decimals = decimals[c]
    PROVE  /\ Genuine([meta EXCEPT ![c] = m])
           /\ [meta EXCEPT ![c] = m][c].known
           /\ \A d \in PoolTokens : meta[d].known => [meta EXCEPT ![c] = m][d].known
BY DEF Genuine

LEMMA BeginStep ==
    ASSUME TokensInv, NEW l \in Loads, Tokens!Begin(l)
    PROVE  TokensInv' /\ Tokens!StaysReady
<1>1. /\ loads' = [k \in Loads |-> IF k = l
                                   THEN [phase |-> "reading", live |-> TRUE, meta |-> cache]
                                   ELSE Tokens!Cancelled(loads[k])]
      /\ UNCHANGED <<decimals, cache, tokens>>
  BY DEF Tokens!Begin
<1>2. \A k \in Loads : /\ k # l => /\ loads'[k].meta = loads[k].meta /\ ~ loads'[k].live
                                   /\ loads'[k].phase = loads[k].phase
                                   /\ loads'[k] \in [phase : {"none", "reading", "rejected", "done"},
                                                     live : BOOLEAN, meta : [PoolTokens -> Tokens!Meta]]
                       /\ k = l => /\ loads'[k].meta = cache /\ loads'[k].phase = "reading"
                                   /\ loads'[k] \in [phase : {"none", "reading", "rejected", "done"},
                                                     live : BOOLEAN, meta : [PoolTokens -> Tokens!Meta]]
  BY <1>1 DEF Tokens!Cancelled, TokensInv, Tokens!TypeOK
<1>3. Tokens!TypeOK'
  BY <1>1, <1>2 DEF TokensInv, Tokens!TypeOK
<1>4. Tokens!FailsClosed' /\ Genuine(cache)'
  BY <1>1 DEF TokensInv, Tokens!FailsClosed, Genuine
<1>5. \A k \in Loads : Genuine(loads[k].meta)'
  BY <1>1, <1>2 DEF TokensInv, Genuine
<1>6. \A k \in Loads, c \in PoolTokens : loads'[k].meta[c].known => cache'[c].known
  BY <1>1, <1>2 DEF TokensInv
<1>7. \A k \in Loads : loads'[k].live => k = l
  BY <1>2
<1>8. tokens.status = "ready" => Complete(cache)' /\ \A k \in Loads : loads'[k].live => Complete(loads[k].meta)'
  BY <1>1, <1>2, <1>7 DEF TokensInv, Complete
<1> QED
  BY <1>1, <1>3, <1>4, <1>5, <1>6, <1>7, <1>8 DEF TokensInv, Tokens!StaysReady

LEMMA ReadStep ==
    ASSUME TokensInv, NEW l \in Loads, NEW c \in PoolTokens, NEW answered \in BOOLEAN,
           NEW symbol \in {"own", "fromAddress"}, Tokens!TokenRead(l, c, answered, symbol)
    PROVE  TokensInv' /\ Tokens!StaysReady
<1>1. PICK read \in Tokens!DecimalsRead(c, answered) :
          /\ loads' = [loads EXCEPT ![l].meta[c] = Tokens!Known(read, symbol)]
          /\ cache' = [cache EXCEPT ![c] = Tokens!Known(read, symbol)]
          /\ UNCHANGED <<decimals, tokens>>
  BY DEF Tokens!TokenRead, Tokens!Cached
<1> DEFINE m == Tokens!Known(read, symbol)
<1>2. m \in Tokens!Meta /\ m.known /\ m.decimals = decimals[c]
  BY ReadIsGenuine
<1> HIDE DEF m
<1>3. /\ Genuine(cache') /\ cache'[c].known
      /\ \A d \in PoolTokens : cache[d].known => cache'[d].known
  BY <1>1, <1>2, GenuineKept DEF m, TokensInv
<1>4. /\ \A k \in Loads : k # l => loads'[k] = loads[k]
      /\ loads'[l].phase = loads[l].phase /\ loads'[l].live = loads[l].live
      /\ loads'[l].meta = [loads[l].meta EXCEPT ![c] = m]
      /\ DOMAIN loads' = Loads
  BY <1>1 DEF m, TokensInv, Tokens!TypeOK
<1>5. /\ Genuine(loads'[l].meta) /\ loads'[l].meta[c].known
      /\ \A d \in PoolTokens : loads[l].meta[d].known => loads'[l].meta[d].known
      /\ \A d \in PoolTokens : d # c => loads'[l].meta[d] = loads[l].meta[d]
  BY <1>2, <1>4, GenuineKept DEF TokensInv, Genuine
<1>6. Tokens!TypeOK'
  <2>1. loads' \in [Loads -> [phase : {"none", "reading", "rejected", "done"}, live : BOOLEAN,
                              meta : [PoolTokens -> Tokens!Meta]]]
    <3>1. loads'[l].meta \in [PoolTokens -> Tokens!Meta]
      BY <1>5 DEF Genuine
    <3>2. loads \in [Loads -> [phase : {"none", "reading", "rejected", "done"}, live : BOOLEAN,
                               meta : [PoolTokens -> Tokens!Meta]]]
      BY DEF TokensInv, Tokens!TypeOK
    <3>3. loads' = [loads EXCEPT ![l] = [loads[l] EXCEPT !.meta = loads'[l].meta]]
      BY <1>1, <3>2
    <3> QED
      BY <3>1, <3>2, <3>3
  <2>2. cache' \in [PoolTokens -> Tokens!Meta]
    BY <1>3 DEF Genuine
  <2>3. decimals' = decimals /\ tokens' = tokens
    BY <1>1
  <2> QED
    BY <2>1, <2>2, <2>3 DEF TokensInv, Tokens!TypeOK
<1>7. Tokens!FailsClosed' /\ Genuine(cache)' /\ \A k \in Loads : Genuine(loads[k].meta)'
  BY <1>1, <1>3, <1>4, <1>5 DEF TokensInv, Tokens!FailsClosed, Genuine
<1>8. \A k \in Loads, d \in PoolTokens : loads'[k].meta[d].known => cache'[d].known
  <2> SUFFICES ASSUME NEW k \in Loads, NEW d \in PoolTokens, loads'[k].meta[d].known
               PROVE  cache'[d].known
    OBVIOUS
  <2>1. CASE k # l
    BY <1>3, <1>4, <2>1 DEF TokensInv
  <2>2. CASE k = l
    BY <1>3, <1>5, <2>2 DEF TokensInv
  <2> QED
    BY <2>1, <2>2
<1>9. \A k \in Loads : loads'[k].live = loads[k].live
  BY <1>4
<1>10. tokens.status = "ready" => Complete(cache)' /\ \A k \in Loads : loads'[k].live => Complete(loads[k].meta)'
  BY <1>3, <1>4, <1>5 DEF TokensInv, Complete
<1> QED
  BY <1>1, <1>6, <1>7, <1>8, <1>9, <1>10 DEF TokensInv, Tokens!StaysReady

(* Failing and resolving leave what is known alone. *)
LEMMA PhaseStep ==
    ASSUME TokensInv, NEW l \in Loads, NEW phase \in {"rejected", "done"},
           loads' = [loads EXCEPT ![l].phase = phase],
           UNCHANGED <<decimals, cache>>, tokens' \in Shown, Tokens!FailsClosed',
           tokens'.status = "ready" => tokens.status = "ready" \/ (loads[l].live /\ Complete(loads[l].meta))
    PROVE  TokensInv'
<1>1. \A k \in Loads : loads'[k].meta = loads[k].meta /\ loads'[k].live = loads[k].live
  BY DEF TokensInv, Tokens!TypeOK
<1>2. Tokens!TypeOK'
  BY DEF TokensInv, Tokens!TypeOK, Shown
<1>3. Genuine(cache)' /\ \A k \in Loads : Genuine(loads[k].meta)'
  BY <1>1 DEF TokensInv, Genuine
<1>4. tokens'.status = "ready" =>
          Complete(cache)' /\ \A k \in Loads : loads'[k].live => Complete(loads[k].meta)'
  BY <1>1 DEF TokensInv, Complete
<1> QED
  BY <1>1, <1>2, <1>3, <1>4 DEF TokensInv

LEMMA FailStep ==
    ASSUME TokensInv, NEW l \in Loads, NEW c \in PoolTokens, NEW answered \in BOOLEAN,
           Tokens!TokenFails(l, c, answered)
    PROVE  TokensInv' /\ Tokens!StaysReady
<1>1. /\ ~ loads[l].meta[c].known
      /\ loads' = [loads EXCEPT ![l].phase = "rejected"]
      /\ tokens' = IF loads[l].live THEN [Tokens!Loading EXCEPT !.status = "error"] ELSE tokens
      /\ UNCHANGED <<decimals, cache>>
  BY DEF Tokens!TokenFails
<1>2. tokens' \in Shown /\ Tokens!FailsClosed'
  BY <1>1, ErrorShown DEF TokensInv, Tokens!TypeOK, Tokens!FailsClosed, Shown
<1>3. tokens'.status = "ready" => tokens.status = "ready"
  <2>1. CASE loads[l].live
    BY <1>1, <2>1, ErrorShown
  <2>2. CASE ~ loads[l].live
    BY <1>1, <2>2
  <2> QED
    BY <2>1, <2>2
<1>4. Tokens!StaysReady
  BY <1>1 DEF TokensInv, Tokens!StaysReady, Complete
<1>5. TokensInv'
  BY <1>1, <1>2, <1>3, PhaseStep
<1> QED
  BY <1>4, <1>5

LEMMA ResolveStep ==
    ASSUME TokensInv, NEW l \in Loads, Tokens!Resolve(l)
    PROVE  TokensInv' /\ Tokens!StaysReady
<1>1. /\ Complete(loads[l].meta)
      /\ loads' = [loads EXCEPT ![l].phase = "done"]
      /\ tokens' = IF loads[l].live THEN [status |-> "ready", meta |-> loads[l].meta] ELSE tokens
      /\ UNCHANGED <<decimals, cache>>
  BY DEF Tokens!Resolve, Complete
<1>2. Genuine(loads[l].meta)
  BY DEF TokensInv
<1>3. tokens' \in Shown
  BY <1>1, <1>2 DEF TokensInv, Tokens!TypeOK, Shown, Genuine
<1>4. Tokens!FailsClosed'
  <2>1. \A c \in PoolTokens : loads[l].meta[c].known /\ loads[l].meta[c].decimals = decimals[c]
    BY <1>1, <1>2, NothingKnown DEF Complete, Genuine
  <2> QED
    BY <1>1, <2>1 DEF TokensInv, Tokens!FailsClosed
<1> QED
  BY <1>1, <1>3, <1>4, PhaseStep DEF Tokens!StaysReady

LEMMA TokensNext == TokensInv /\ [Tokens!Next]_tokenVars => TokensInv' /\ Tokens!StaysReady
<1> SUFFICES ASSUME TokensInv, [Tokens!Next]_tokenVars PROVE TokensInv' /\ Tokens!StaysReady
  OBVIOUS
<1>1. CASE UNCHANGED tokenVars
  BY <1>1 DEF tokenVars, TokensInv, Tokens!TypeOK, Tokens!FailsClosed, Tokens!StaysReady, Genuine,
              Complete
<1>2. ASSUME NEW l \in Loads, Tokens!Begin(l) \/ Tokens!LoadStep(l)
      PROVE  TokensInv' /\ Tokens!StaysReady
  BY <1>2, BeginStep, ReadStep, FailStep, ResolveStep DEF Tokens!LoadStep
<1> QED
  BY <1>1, <1>2 DEF Tokens!Next

(* Whatever loads overlap, are cancelled, fail or answer late, no amount    *)
(* is parsed or shown with decimals that are not the token's own, and a    *)
(* refresh never loses what was shown: a token whose decimals do not read  *)
(* fails closed (tokenMetadata.ts loadTokenMeta, useProtocol.ts).          *)
THEOREM MetadataIsSound == ClientSpec => MetadataSound
<1>1. ClientInit => TokensInv
  BY TokensInit DEF ClientInit
<1>2. [ClientNext]_clientVars => [Tokens!Next]_tokenVars
  BY PartsMove
<1>3. TokensInv /\ [ClientNext]_clientVars => TokensInv'
  BY <1>2, TokensNext
<1>4. TokensInv /\ [ClientNext]_clientVars
          => [In("tokens", Tokens!TypeOK' /\ Tokens!FailsClosed' /\ Tokens!StaysReady)]_tokenVars
  BY <1>2, TokensNext DEF TokensInv, In
<1> QED
  BY <1>1, <1>3, <1>4, PTL DEF ClientSpec, MetadataSound

-----------------------------------------------------------------------------
(***************************************************************************)
(* The deployment's configuration.                                         *)
(***************************************************************************)
(* Every field holds text of its own form, or none. *)
DeploymentInv ==
    /\ raw \in [Deployment!Fields -> Int]
    /\ \A f \in Deployment!Fields : raw[f] \in Deployment!TextsOf(f)
    /\ \A id \in declared : DOMAIN id = Deployment!KeyFields
    /\ edits \in 0..MAX_EDITS

LEMMA FieldNames ==
    /\ Deployment!Addresses \subseteq Deployment!Fields
    /\ Deployment!KeyFields \subseteq Deployment!Fields
    /\ \A f \in Deployment!Fields :
          \/ f \in Deployment!Addresses
          \/ f \in {"chainId", "fee", "tickSpacing", "deploymentBlock", "networkName", "explorerUrl"}
  BY DEF Deployment!Addresses, Deployment!KeyFields, Deployment!Fields

LEMMA TextsAreNumbers ==
    \A f : /\ Deployment!TextsOf(f) \subseteq Int
           /\ f \in Deployment!Addresses =>
                 \A text \in Deployment!TextsOf(f) : Deployment!ReadAddress(text) <=> text > 0
  BY DEF Deployment!TextsOf, Deployment!Missing, Deployment!Malformed, Deployment!ReadAddress

LEMMA DeploymentInit == Deployment!Init => DeploymentInv
<1> SUFFICES ASSUME Deployment!Init PROVE DeploymentInv
  OBVIOUS
<1>1. raw = Proper /\ edits = 0 /\ declared \subseteq {Deployment!ComputePoolId(Proper)}
  BY DEF Deployment!Init
<1>2. \A id \in declared : DOMAIN id = Deployment!KeyFields
  BY <1>1 DEF Deployment!ComputePoolId
<1> QED
  BY <1>1, <1>2, DeploymentAssumption DEF DeploymentInv

LEMMA DeploymentNext == DeploymentInv /\ [Deployment!Next]_deploymentVars => DeploymentInv'
<1> SUFFICES ASSUME DeploymentInv, [Deployment!Next]_deploymentVars PROVE DeploymentInv'
  OBVIOUS
<1>1. CASE UNCHANGED deploymentVars
  BY <1>1 DEF deploymentVars, DeploymentInv
<1>2. ASSUME NEW f \in DOMAIN Edits, NEW text \in Edits[f], Deployment!EditField(f, text)
      PROVE  DeploymentInv'
  <2>1. f \in Deployment!Fields /\ text \in Deployment!TextsOf(f) /\ text \in Int
    BY DeploymentAssumption, TextsAreNumbers
  <2>2. /\ raw' = [raw EXCEPT ![f] = text] /\ edits < MAX_EDITS /\ edits' = edits + 1
        /\ declared' = declared
    BY <1>2 DEF Deployment!EditField
  <2> QED
    BY <2>1, <2>2, DeploymentAssumption DEF DeploymentInv
<1>3. CASE Deployment!DeclarePoolId
  <2>1. /\ raw' = raw /\ edits < MAX_EDITS /\ edits' = edits + 1
        /\ declared' \subseteq {Deployment!ComputePoolId(raw)}
    BY <1>3 DEF Deployment!DeclarePoolId
  <2>2. \A id \in declared' : DOMAIN id = Deployment!KeyFields
    BY <2>1 DEF Deployment!ComputePoolId
  <2> QED
    BY <2>1, <2>2, DeploymentAssumption DEF DeploymentInv
<1> QED
  BY <1>1, <1>2, <1>3 DEF Deployment!Next

(* What is resolved: each problem, or the mismatch when there is none. *)
LEMMA ProblemCases ==
    ASSUME NEW problem \in Deployment!ResolveDeployment
    PROVE  \/ \E f \in Deployment!Unread : problem = {f}
           \/ /\ problem = {"hook"} /\ "hook" \notin Deployment!Unread
              /\ ~ Deployment!HasRequiredHookPermissions(raw["hook"])
           \/ problem = {"currency0", "currency1"} /\ Deployment!SidesWrong
           \/ problem = {"poolId"} \union Deployment!KeyFields /\ Deployment!Mismatches
<1>1. CASE Deployment!Problems # {}
  BY <1>1 DEF Deployment!ResolveDeployment, Deployment!Problems, Deployment!Label
<1>2. CASE Deployment!Problems = {}
  BY <1>2 DEF Deployment!ResolveDeployment
<1> QED
  BY <1>1, <1>2

(* Ready is: every field reads, the hook has its permissions, the sides    *)
(* are in order and the ID declared is the key's.                          *)
ReadsSoundly ==
    /\ Deployment!Unread = {}
    /\ Deployment!HasRequiredHookPermissions(raw["hook"])
    /\ ~ (raw.currency0 >= raw.currency1)
    /\ ~ Deployment!Mismatches

LEMMA ReadyIs == Deployment!Ready <=> ReadsSoundly
<1>1. Deployment!Problems = {} <=>
        /\ Deployment!Unread = {}
        /\ Deployment!HasRequiredHookPermissions(raw["hook"])
        /\ ~ (raw.currency0 >= raw.currency1)
  <2>1. ASSUME Deployment!Problems = {}
        PROVE  /\ Deployment!Unread = {}
               /\ Deployment!HasRequiredHookPermissions(raw["hook"])
               /\ ~ (raw.currency0 >= raw.currency1)
    <3>1. Deployment!Unread = {}
      <4> SUFFICES ASSUME NEW f \in Deployment!Unread PROVE FALSE
        OBVIOUS
      <4>1. {f} \in Deployment!Problems
        BY DEF Deployment!Problems, Deployment!Label
      <4> QED
        BY <2>1, <4>1
    <3>2. Deployment!HasRequiredHookPermissions(raw["hook"])
      <4> SUFFICES ASSUME ~ Deployment!HasRequiredHookPermissions(raw["hook"]) PROVE FALSE
        OBVIOUS
      <4>1. {"hook"} \in Deployment!Problems
        BY <3>1 DEF Deployment!Problems
      <4> QED
        BY <2>1, <4>1
    <3>3. ~ Deployment!SidesWrong
      <4> SUFFICES ASSUME Deployment!SidesWrong PROVE FALSE
        OBVIOUS
      <4>1. {"currency0", "currency1"} \in Deployment!Problems
        BY DEF Deployment!Problems
      <4> QED
        BY <2>1, <4>1
    <3> QED
      BY <3>1, <3>2, <3>3 DEF Deployment!SidesWrong
  <2>2. ASSUME Deployment!Unread = {}, Deployment!HasRequiredHookPermissions(raw["hook"]),
               ~ (raw.currency0 >= raw.currency1)
        PROVE  Deployment!Problems = {}
    BY <2>2 DEF Deployment!Problems, Deployment!SidesWrong
  <2> QED
    BY <2>1, <2>2
<1> QED
  BY <1>1 DEF Deployment!Ready, Deployment!ResolveDeployment, ReadsSoundly

LEMMA ReadyIsThen == Deployment!Ready' <=> ReadsSoundly'
  BY ReadyIs, PTL

LEMMA DeploymentTyped == DeploymentInv => Deployment!TypeOK
<1> SUFFICES ASSUME DeploymentInv PROVE Deployment!TypeOK
  OBVIOUS
<1>1. \A problem \in Deployment!ResolveDeployment :
          problem \subseteq Deployment!Fields \union {"poolId"}
  <2> SUFFICES ASSUME NEW problem \in Deployment!ResolveDeployment
               PROVE  problem \subseteq Deployment!Fields \union {"poolId"}
    OBVIOUS
  <2>1. {"hook", "currency0", "currency1"} \subseteq Deployment!Fields
    BY DEF Deployment!Fields, Deployment!Addresses
  <2>2. Deployment!Unread \subseteq Deployment!Fields
    BY DEF Deployment!Unread
  <2> QED
    BY <2>1, <2>2, ProblemCases, FieldNames
<1> QED
  BY <1>1 DEF DeploymentInv, Deployment!TypeOK

LEMMA ReadyIsSound == DeploymentInv => Deployment!ReadySound
<1> SUFFICES ASSUME DeploymentInv PROVE Deployment!ReadySound
  OBVIOUS
<1> DEFINE key == Deployment!ComputePoolId(raw)
<1>1. /\ key.currency0 = raw.currency0 /\ key.currency1 = raw.currency1 /\ key.fee = raw.fee
      /\ key.tickSpacing = raw.tickSpacing /\ key.hook = raw.hook
  BY DEF Deployment!ComputePoolId, Deployment!KeyFields
<1>2. \A f \in Deployment!Fields :
          f \notin Deployment!Unread <=> Deployment!ReadField(f)
  BY DEF Deployment!Unread
<1>3. /\ raw.currency0 \in Int /\ raw.currency1 \in Int /\ raw.hook \in Int /\ raw.fee \in Int
      /\ raw.tickSpacing \in Int
      /\ {"currency0", "currency1", "hook", "fee", "tickSpacing"} \subseteq Deployment!Fields
      /\ {"currency0", "currency1", "hook"} \subseteq Deployment!Addresses
      /\ {"fee", "tickSpacing"} \intersect Deployment!Addresses = {}
  BY DEF DeploymentInv, Deployment!Fields, Deployment!Addresses
<1>4. \A f \in Deployment!Addresses : Deployment!ReadField(f) <=> raw[f] > 0
  BY TextsAreNumbers, FieldNames DEF DeploymentInv, Deployment!ReadField
<1>5. /\ Deployment!ReadField("fee") <=> raw.fee >= 0 /\ raw.fee <= MAX_FEE
      /\ Deployment!ReadField("tickSpacing") <=> raw.tickSpacing >= 1 /\ raw.tickSpacing <= MAX_TICK_SPACING
  BY <1>3 DEF Deployment!ReadField, Deployment!ReadInteger
<1>6. Deployment!Mismatches <=> ~ (declared \subseteq {key})
  BY DEF Deployment!Mismatches
<1> HIDE DEF key
<1>7. Deployment!PoolCanExist(key) /\ Deployment!Supported(key) <=>
          /\ 0 < raw.currency0 /\ raw.currency0 < raw.currency1
          /\ raw.fee \in 0..MAX_FEE /\ raw.tickSpacing \in 1..MAX_TICK_SPACING
          /\ raw.hook > 0 /\ Deployment!HasRequiredHookPermissions(raw["hook"])
  <2>1. raw.currency0 \in Int /\ raw.currency1 \in Int /\ raw.fee \in Int
    BY <1>3
  <2>2. 0 <= raw.currency0 /\ raw.currency0 # 0 <=> 0 < raw.currency0
    BY <2>1
  <2>3. raw.fee \in 0..MAX_FEE \union {DYNAMIC_FEE_FLAG} /\ raw.fee # DYNAMIC_FEE_FLAG
            <=> raw.fee \in 0..MAX_FEE
    BY DeploymentAssumption
  <2> QED
    BY <1>1, <2>2, <2>3
    DEF Deployment!PoolCanExist, Deployment!Supported, Deployment!HasRequiredHookPermissions
<1>8. Deployment!ReadyPoolCanExist
  <2> SUFFICES ASSUME Deployment!Ready
               PROVE  /\ Deployment!PoolCanExist(key) /\ Deployment!Supported(key)
                      /\ declared \subseteq {key}
    BY DEF Deployment!ReadyPoolCanExist, key
  <2>1. /\ Deployment!Unread = {} /\ Deployment!HasRequiredHookPermissions(raw["hook"])
        /\ ~ (raw.currency0 >= raw.currency1) /\ ~ Deployment!Mismatches
    BY ReadyIs DEF ReadsSoundly
  <2>2. /\ raw.currency0 > 0 /\ raw.hook > 0 /\ raw.fee \in 0..MAX_FEE
        /\ raw.tickSpacing \in 1..MAX_TICK_SPACING
    BY <1>2, <1>3, <1>4, <1>5, <2>1, DeploymentAssumption
  <2> QED
    BY <1>3, <1>6, <1>7, <2>1, <2>2
<1>9. Deployment!SupportedPoolCanBeNamed
  <2> SUFFICES ASSUME Deployment!PoolCanExist(key), Deployment!Supported(key),
                      \A f \in Deployment!Fields \ Deployment!KeyFields : raw[f] = Proper[f],
                      declared \subseteq {key}
               PROVE  Deployment!Ready
    BY DEF Deployment!SupportedPoolCanBeNamed, key
  <2>1. \A f \in Deployment!Fields : Deployment!ReadField(f)
    <3> SUFFICES ASSUME NEW f \in Deployment!Fields PROVE Deployment!ReadField(f)
      OBVIOUS
    <3>1. CASE f \in {"currency0", "currency1", "hook"}
      BY <1>3, <1>4, <1>7, <3>1
    <3>2. CASE f \in {"fee", "tickSpacing"}
      BY <1>3, <1>5, <1>7, <3>2, DeploymentAssumption
    <3>3. CASE f \in Deployment!Addresses \ {"currency0", "currency1", "hook"}
      <4>1. f \notin Deployment!KeyFields
        BY <3>3 DEF Deployment!KeyFields, Deployment!Addresses
      <4> QED
        BY <1>4, <3>3, <4>1, ProperAssumption
    <3>4. CASE f \in {"chainId", "deploymentBlock", "networkName", "explorerUrl"}
      <4>1. f \notin Deployment!KeyFields /\ f \notin Deployment!Addresses
        BY <3>4 DEF Deployment!KeyFields, Deployment!Addresses
      <4>2. raw[f] = Proper[f] /\ raw[f] \in Int
        BY <4>1 DEF DeploymentInv
      <4>3. IF f = "chainId" THEN raw[f] >= 1 ELSE raw[f] >= 0
        BY <3>4, <4>2, ProperAssumption
      <4> QED
        BY <3>4, <4>1, <4>2, <4>3 DEF Deployment!ReadField, Deployment!Missing, Deployment!Malformed
    <3> QED
      BY <3>1, <3>2, <3>3, <3>4, FieldNames
  <2> QED
    BY <1>2, <1>3, <1>6, <1>7, <2>1, ReadyIs DEF Deployment!Unread, ReadsSoundly
<1>10. Deployment!ReadyCanTrade
  BY <1>3, ReadyIs DEF ReadsSoundly, Deployment!ReadyCanTrade, Deployment!CanTrade
<1> QED
  BY <1>8, <1>9, <1>10, DeploymentTyped DEF Deployment!ReadySound

(* A problem of which nothing changed is still there. *)
LEMMA ProblemsReal == Deployment!ProblemsAreReal
<1> SUFFICES ASSUME Deployment!Ready', NEW problem \in Deployment!ResolveDeployment,
                    problem \intersect Deployment!Changed = {}
             PROVE  FALSE
  BY DEF Deployment!ProblemsAreReal
<1>1. /\ Deployment!Unread' = {} /\ Deployment!HasRequiredHookPermissions(raw'["hook"])
      /\ ~ (raw'.currency0 >= raw'.currency1) /\ ~ Deployment!Mismatches'
  BY ReadyIsThen DEF ReadsSoundly
<1>2. /\ \A f \in problem \intersect Deployment!Fields : raw'[f] = raw[f]
      /\ "poolId" \in problem => declared' = declared
  BY DEF Deployment!Changed
<1>3. \A f \in Deployment!Unread : problem # {f}
  <2> SUFFICES ASSUME NEW f \in Deployment!Unread, problem = {f} PROVE FALSE
    OBVIOUS
  <2>1. f \in Deployment!Fields /\ ~ Deployment!ReadField(f)
    BY DEF Deployment!Unread
  <2>2. raw'[f] = raw[f]
    BY <1>2, <2>1
  <2>3. ~ Deployment!ReadField(f)'
    BY <2>1, <2>2 DEF Deployment!ReadField
  <2> QED
    BY <1>1, <2>1, <2>3 DEF Deployment!Unread
<1>4. {"hook", "currency0", "currency1"} \subseteq Deployment!Fields
  BY DEF Deployment!Fields, Deployment!Addresses
<1>5. ~ (problem = {"hook"} /\ ~ Deployment!HasRequiredHookPermissions(raw["hook"]))
  BY <1>1, <1>2, <1>4
<1>6. ~ (problem = {"currency0", "currency1"} /\ Deployment!SidesWrong)
  BY <1>1, <1>2, <1>4 DEF Deployment!SidesWrong
<1>7. ~ (problem = {"poolId"} \union Deployment!KeyFields /\ Deployment!Mismatches)
  <2> SUFFICES ASSUME problem = {"poolId"} \union Deployment!KeyFields, Deployment!Mismatches
               PROVE  FALSE
    OBVIOUS
  <2>1. declared' = declared /\ \A f \in Deployment!KeyFields : raw'[f] = raw[f]
    BY <1>2, FieldNames
  <2>2. Deployment!ComputePoolId(raw') = Deployment!ComputePoolId(raw)
    BY <2>1 DEF Deployment!ComputePoolId
  <2> QED
    BY <1>1, <2>1, <2>2 DEF Deployment!Mismatches
<1> QED
  BY <1>3, <1>5, <1>6, <1>7, ProblemCases

(* The client opens, once the rest is in order, exactly on the pools that  *)
(* can exist with two tokens and a static fee, and no edit repairs a       *)
(* deployment without touching a field that a message named (deployment.ts *)
(* resolveDeployment, guards.ts tradingReadiness).                         *)
THEOREM DeploymentIsSound == ClientSpec => DeploymentSound
<1>1. ClientInit => DeploymentInv
  BY DeploymentInit DEF ClientInit
<1>2. [ClientNext]_clientVars => [Deployment!Next]_deploymentVars
  BY PartsMove
<1>3. DeploymentInv /\ [ClientNext]_clientVars => DeploymentInv'
  BY <1>2, DeploymentNext
<1>4. DeploymentInv' => Deployment!ReadySound'
  BY ReadyIsSound, PTL
<1>5. DeploymentInv /\ [ClientNext]_clientVars
          => [In("deployment", Deployment!ReadySound' /\ Deployment!ProblemsAreReal)]_deploymentVars
  BY <1>3, <1>4, ProblemsReal DEF In
<1> QED
  BY <1>1, <1>3, <1>5, PTL DEF ClientSpec, DeploymentSound

-----------------------------------------------------------------------------
(***************************************************************************)
(* The activity feed.                                                      *)
(***************************************************************************)
(* The instance's operators are the library's. *)
LEMMA FeedOperators ==
    ASSUME NEW S
    PROVE  /\ Feed!Cardinality(S) = Cardinality(S)
           /\ Feed!Range(S) = {S[i] : i \in DOMAIN S}
           /\ Feed!IsInjective(S) <=> \A a, b \in DOMAIN S : S[a] = S[b] => a = b
  BY DEF Cardinality, Feed!Cardinality, IsFiniteSet, Feed!IsFiniteSet, Feed!Range, Feed!IsInjective

LEMMA FeedFacts ==
    ASSUME NEW items, Feed!Feed(items)
    PROVE  /\ items \in Seq(Items) /\ Len(items) \in Nat /\ Len(items) <= MAX_ACTIVITY_ITEMS
           /\ DOMAIN items = 1..Len(items)
           /\ Feed!Range(items) \subseteq Items
           /\ \A i \in 1..Len(items) : items[i] \in Feed!Range(items)
           /\ \A x \in Feed!Range(items) : \E i \in 1..Len(items) : items[i] = x
           /\ IsFiniteSet(Feed!Range(items)) /\ Cardinality(Feed!Range(items)) = Len(items)
<1>1. /\ items \in Seq(Items) /\ Len(items) \in Nat /\ Len(items) <= MAX_ACTIVITY_ITEMS
      /\ DOMAIN items = 1..Len(items)
      /\ \A a, b \in 1..Len(items) : items[a] = items[b] => a = b
  BY FeedOperators DEF Feed!Feed
<1> DEFINE D == 1..Len(items)
           R == Feed!Range(items)
<1>2. R = {items[i] : i \in D}
  BY <1>1, FeedOperators
<1>3. items \in [D -> R] /\ R \subseteq Items
  BY <1>1, <1>2
<1>4. items \in Surjection(D, R) /\ items \in Injection(D, R)
  BY <1>1, <1>2, <1>3 DEF Surjection, Injection, IsInjective
<1>5. IsFiniteSet(D) /\ Cardinality(D) = Len(items)
  BY <1>1, FS_Interval
<1>6. IsFiniteSet(R) /\ Cardinality(R) = Cardinality(D)
  BY <1>4, <1>5, FS_Surjection
<1> QED
  BY <1>1, <1>2, <1>3, <1>5, <1>6

(* Newer is the order of a pair of naturals. *)
LEMMA NewerIsTransitive ==
    ASSUME NEW a \in Items, NEW b \in Items, NEW c \in Items,
           ~ Feed!Newer(a, b), ~ Feed!Newer(b, c)
    PROVE  ~ Feed!Newer(a, c)
<1>1. /\ a.block \in Nat /\ b.block \in Nat /\ c.block \in Nat
      /\ a.logIndex \in Nat /\ b.logIndex \in Nat /\ c.logIndex \in Nat
  BY ItemsAssumption
<1> QED
  BY <1>1 DEF Feed!Newer

(* The first entries of a set in order: a feed, and the newest of the set. *)
LEMMA CutOrder ==
    ASSUME NEW S \in SUBSET Items, IsFiniteSet(S), NEW order \in Feed!NewestFirst(S)
    PROVE  /\ Feed!Feed(Feed!Cut(order)) /\ Feed!NewestOf(Feed!Cut(order), S)
           /\ Len(Feed!Cut(order)) = IF Cardinality(S) < MAX_ACTIVITY_ITEMS THEN Cardinality(S)
                                     ELSE MAX_ACTIVITY_ITEMS
<1> DEFINE n == Cardinality(S)
           items == Feed!Cut(order)
           m == IF n < MAX_ACTIVITY_ITEMS THEN n ELSE MAX_ACTIVITY_ITEMS
<1>1. n \in Nat /\ MAX_ACTIVITY_ITEMS \in Nat
  BY FS_CardinalityType, ItemsAssumption
<1>2. /\ order \in [1..n -> S]
      /\ \A i, j \in 1..n : i # j => order[i] # order[j]
      /\ \A i, j \in DOMAIN order : i < j => ~ Feed!Newer(order[j], order[i])
  BY FeedOperators DEF Feed!NewestFirst, Feed!SetToSeqs
<1>3. order \in Surjection(1..n, S)
  <2>1. order \in Injection(1..n, S)
    BY <1>2 DEF Injection, IsInjective
  <2>2. IsFiniteSet(1..n) /\ Cardinality(1..n) = n
    BY <1>1, FS_Interval
  <2> QED
    BY <2>1, <2>2, FS_Injection
<1>4. order \in Seq(Items) /\ Len(order) = n
  BY <1>1, <1>2
<1>5. m \in Nat /\ m <= n /\ m <= MAX_ACTIVITY_ITEMS
  BY <1>1
<1>6. items = SubSeq(order, 1, m)
  BY <1>4 DEF Feed!Cut
<1> HIDE DEF items, n
<1>7. /\ items \in Seq(Items) /\ Len(items) = m
      /\ \A i \in 1..m : items[i] = order[i]
  <2> HIDE DEF m
  <2> QED
    BY <1>4, <1>5, <1>6
<1> HIDE DEF m
<1>8. DOMAIN items = 1..m
  BY <1>7
<1>9. Feed!Range(items) = {order[i] : i \in 1..m}
  BY <1>7, <1>8, FeedOperators
<1>10. \A i \in 1..m : i \in 1..n
  BY <1>1, <1>5
<1>11. Feed!IsInjective(items)
  BY <1>2, <1>7, <1>8, <1>10, FeedOperators
<1>12. Feed!Range(items) \subseteq S
  BY <1>2, <1>9, <1>10
<1>13. ASSUME NEW left \in S \ Feed!Range(items)
       PROVE  /\ Len(items) = MAX_ACTIVITY_ITEMS
              /\ \A item \in Feed!Range(items) : ~ Feed!Newer(left, item)
  <2>1. PICK j \in 1..n : order[j] = left
    BY <1>3 DEF Surjection
  <2>2. ~ (j \in 1..m)
    BY <1>9, <1>13, <2>1
  <2>3. j > m /\ m < n
    BY <1>1, <1>5, <2>1, <2>2
  <2>4. m = MAX_ACTIVITY_ITEMS
    BY <1>1, <2>3 DEF m
  <2>5. \A i \in 1..m : ~ Feed!Newer(order[j], order[i])
    <3> SUFFICES ASSUME NEW i \in 1..m PROVE ~ Feed!Newer(order[j], order[i])
      OBVIOUS
    <3>1. i < j /\ i \in DOMAIN order /\ j \in DOMAIN order
      BY <1>1, <1>2, <1>5, <1>10, <2>1, <2>3
    <3> QED
      BY <1>2, <3>1
  <2> QED
    BY <1>7, <1>9, <2>1, <2>4, <2>5
<1> QED
  BY <1>5, <1>7, <1>11, <1>12, <1>13 DEF Feed!Feed, Feed!NewestOf, m, n, items

(* Entries added to the newest of a set: their first entries are the       *)
(* newest of the set and the entries added, whatever the feed had cut.     *)
LEMMA MergeKeepsNewest ==
    ASSUME NEW previous, Feed!Feed(previous), NEW all \in SUBSET Items,
           Feed!NewestOf(previous, all), NEW added \in SUBSET Items, IsFiniteSet(added),
           NEW order \in Feed!NewestFirst(Feed!Range(previous) \union added)
    PROVE  /\ Feed!Feed(Feed!Cut(order)) /\ Feed!NewestOf(Feed!Cut(order), all \union added)
<1> DEFINE P == Feed!Range(previous)
           S == P \union added
           items == Feed!Cut(order)
           K == Feed!Range(items)
           M == MAX_ACTIVITY_ITEMS
<1>1. /\ P \subseteq Items /\ IsFiniteSet(P) /\ Cardinality(P) = Len(previous)
      /\ Len(previous) \in Nat /\ P \subseteq all /\ M \in Nat
  BY FeedFacts, ItemsAssumption DEF Feed!NewestOf
<1>2. S \subseteq Items /\ IsFiniteSet(S)
  BY <1>1, FS_Union
<1>3. /\ Feed!Feed(items) /\ Feed!NewestOf(items, S)
      /\ Len(items) = IF Cardinality(S) < M THEN Cardinality(S) ELSE M
  BY <1>2, CutOrder
<1>4. K \subseteq S /\ IsFiniteSet(K) /\ Cardinality(K) = Len(items)
  BY <1>3, FeedFacts DEF Feed!NewestOf
<1>5. ASSUME NEW left \in (all \union added) \ K
      PROVE  Len(items) = M /\ \A item \in K : ~ Feed!Newer(left, item)
  <2>1. CASE left \in S
    BY <1>3, <1>5, <2>1 DEF Feed!NewestOf
  <2>2. CASE left \notin S
    <3>1. /\ left \in all \ P /\ Len(previous) = M
          /\ \A item \in P : ~ Feed!Newer(left, item)
      BY <1>5, <2>2 DEF Feed!NewestOf
    <3>2. Cardinality(S) \in Nat /\ Cardinality(S) >= M
      BY <1>1, <1>2, <3>1, FS_CardinalityType, FS_Subset
    <3>3. Len(items) = M
      BY <1>1, <1>3, <3>2
    <3>4. ASSUME NEW item \in K PROVE ~ Feed!Newer(left, item)
      <4>1. CASE item \in P
        BY <3>1, <4>1
      <4>2. CASE item \notin P
        <5>1. PICK p \in P : p \notin K
          <6> SUFFICES ASSUME P \subseteq K PROVE FALSE
            OBVIOUS
          <6>1. Cardinality(P) = Cardinality(K)
            BY <1>1, <1>4, <3>1, <3>3
          <6>2. P = K
            BY <1>4, <6>1, FS_Subset
          <6> QED
            BY <4>2, <6>2, <3>4
        <5>2. ~ Feed!Newer(p, item)
          BY <1>3, <3>4, <5>1 DEF Feed!NewestOf
        <5>3. ~ Feed!Newer(left, p)
          BY <3>1, <5>1
        <5>4. left \in Items /\ p \in Items /\ item \in Items
          BY <1>1, <1>2, <1>4, <3>1, <3>4, <5>1
        <5> HIDE DEF P, K
        <5> QED
          BY <5>2, <5>3, <5>4, NewerIsTransitive
      <4> QED
        BY <4>1, <4>2
    <3> QED
      BY <3>3, <3>4
  <2> QED
    BY <2>1, <2>2
<1>6. K \subseteq all \union added
  BY <1>1, <1>4
<1> QED
  BY <1>3, <1>5, <1>6 DEF Feed!NewestOf

(* A feed is not cut. *)
LEMMA FeedIsCut ==
    ASSUME NEW items, Feed!Feed(items)
    PROVE  Feed!Cut(items) = items
<1>1. items \in Seq(Items) /\ Len(items) \in Nat /\ Len(items) <= MAX_ACTIVITY_ITEMS
  BY FeedFacts
<1>2. Feed!Cut(items) = SubSeq(items, 1, Len(items))
  BY <1>1, ItemsAssumption DEF Feed!Cut
<1> QED
  BY <1>1, <1>2

(* The empty feed is the newest of nothing. *)
LEMMA EmptyFeed ==
    Feed!Feed(<<>>) /\ Feed!Range(<<>>) = {} /\ Feed!NewestOf(<<>>, {})
<1>1. Feed!Range(<<>>) = {}
  BY FeedOperators
<1> QED
  BY <1>1, FeedOperators, ItemsAssumption DEF Feed!Feed, Feed!NewestOf

TabRecord == [open : BOOLEAN, items : Seq(Items), unsaved : BOOLEAN]

(* Every tab holds the newest of what it knows.  While one tab at a time   *)
(* is open, it also holds the newest of all that was saved, so that its    *)
(* next save loses nothing, and so does the storage that the next tab      *)
(* will read.                                                              *)
FeedInv ==
    /\ Feed!TypeOK /\ tabs \in [Tabs -> TabRecord]
    /\ Feed!Range(storage) \subseteq saved
    /\ \A t \in Tabs : tabs[t].open => Feed!NewestOf(tabs[t].items, known[t])
    /\ ~ overlapped =>
          /\ Feed!NewestOf(storage, saved)
          /\ \A t, u \in Tabs : tabs[t].open /\ tabs[u].open => t = u
          /\ \A t \in Tabs : tabs[t].open => Feed!NewestOf(tabs[t].items, saved \union known[t])

LEMMA FeedInit == Feed!Init => FeedInv
<1> SUFFICES ASSUME Feed!Init PROVE FeedInv
  OBVIOUS
<1>1. /\ storage = <<>> /\ recorded = {} /\ saved = {} /\ overlapped = FALSE
      /\ tabs = [t \in Tabs |-> Feed!Closed] /\ known = [t \in Tabs |-> {}]
  BY DEF Feed!Init
<1>2. Feed!Closed = [open |-> FALSE, items |-> <<>>, unsaved |-> FALSE]
  BY DEF Feed!Closed
<1>3. tabs \in [Tabs -> TabRecord] /\ known \in [Tabs -> SUBSET Items]
  BY <1>1, <1>2 DEF TabRecord
<1>4. \A t \in Tabs : /\ Feed!Feed(tabs[t].items) /\ ~ tabs[t].open
                      /\ {tabs[t].open, tabs[t].unsaved} \subseteq BOOLEAN
  BY <1>1, <1>2, EmptyFeed
<1>5. Feed!TypeOK
  BY <1>1, <1>3, <1>4, EmptyFeed DEF Feed!TypeOK
<1> QED
  BY <1>1, <1>3, <1>4, <1>5, EmptyFeed DEF FeedInv

(* A tab whose feed is merged with more entries. *)
LEMMA MergeStep ==
    ASSUME FeedInv, NEW t \in Tabs, NEW added \in SUBSET Items, IsFiniteSet(added),
           NEW previous, Feed!Feed(previous), NEW old \in SUBSET Items, Feed!NewestOf(previous, old),
           NEW items \in {Feed!Cut(order) : order \in Feed!NewestFirst(Feed!Range(previous) \union added)},
           known' = [known EXCEPT ![t] = old \union added],
           DOMAIN tabs' = Tabs, \A u \in Tabs : u # t => tabs'[u] = tabs[u],
           tabs'[t] = [open |-> TRUE, items |-> items, unsaved |-> TRUE],
           recorded' \subseteq Items, storage' = storage, saved' = saved, overlapped' \in BOOLEAN,
           ~ overlapped' =>
              /\ ~ overlapped /\ \A u \in Tabs : tabs[u].open => u = t
              /\ Feed!NewestOf(items, saved \union (old \union added)),
           tabs' \in [Tabs -> TabRecord]
    PROVE  FeedInv'
<1>1. Feed!Feed(items) /\ Feed!NewestOf(items, old \union added)
  BY MergeKeepsNewest
<1>2. known \in [Tabs -> SUBSET Items]
  BY DEF FeedInv, Feed!TypeOK
<1>3. /\ known' \in [Tabs -> SUBSET Items] /\ known'[t] = old \union added
      /\ \A u \in Tabs : u # t => known'[u] = known[u]
  BY <1>2
<1>4. Feed!TypeOK'
  <2>1. \A u \in Tabs : Feed!Feed(tabs'[u].items)
    <3> SUFFICES ASSUME NEW u \in Tabs PROVE Feed!Feed(tabs'[u].items)
      OBVIOUS
    <3>1. CASE u = t
      BY <1>1, <3>1
    <3>2. CASE u # t
      BY <3>2 DEF FeedInv, Feed!TypeOK
    <3> QED
      BY <3>1, <3>2
  <2>2. \A u \in Tabs : {tabs'[u].open, tabs'[u].unsaved} \subseteq BOOLEAN
    BY DEF TabRecord
  <2>3. Feed!Feed(storage') /\ recorded' \subseteq Items /\ saved' \subseteq Items
    BY DEF FeedInv, Feed!TypeOK
  <2> QED
    BY <1>3, <2>1, <2>2, <2>3 DEF Feed!TypeOK, Feed!Feed
<1>5. \A u \in Tabs : tabs'[u].open => Feed!NewestOf(tabs'[u].items, known'[u])
  BY <1>1, <1>3 DEF FeedInv
<1>6. ASSUME ~ overlapped'
      PROVE  /\ Feed!NewestOf(storage, saved)
             /\ \A u, w \in Tabs : tabs'[u].open /\ tabs'[w].open => u = w
             /\ \A u \in Tabs : tabs'[u].open => Feed!NewestOf(tabs'[u].items, saved \union known'[u])
  <2>1. \A u \in Tabs : tabs'[u].open => u = t
    BY <1>6
  <2>2. Feed!NewestOf(tabs'[t].items, saved \union known'[t])
    BY <1>3, <1>6
  <2> QED
    BY <1>6, <2>1, <2>2 DEF FeedInv
<1> QED
  BY <1>4, <1>5, <1>6 DEF FeedInv, Feed!NewestOf, Feed!Newer, Feed!Range

LEMMA OpenStep ==
    ASSUME FeedInv, NEW t \in Tabs, Feed!Open(t)
    PROVE  FeedInv'
<1> DEFINE R == Feed!Range(storage)
<1>1. /\ Feed!Feed(storage) /\ R \in SUBSET Items /\ IsFiniteSet(R) /\ Feed!Cut(storage) = storage
      /\ R \subseteq saved /\ saved \in SUBSET Items
  BY FeedFacts, FeedIsCut DEF FeedInv, Feed!TypeOK
<1>2. PICK items \in Feed!MergeActivity(<<>>, storage) :
          tabs' = [tabs EXCEPT ![t] = [open |-> TRUE, items |-> items, unsaved |-> TRUE]]
  BY <1>1 DEF Feed!Open
<1>3. /\ storage' = storage /\ recorded' = recorded /\ saved' = saved
      /\ known' = [known EXCEPT ![t] = R]
      /\ overlapped' = (overlapped \/ \E u \in Tabs : tabs[u].open)
  BY DEF Feed!Open, Feed!FirstCommit
<1> HIDE DEF R
<1>4. PICK order \in Feed!NewestFirst(R) : items = Feed!Cut(order)
  <2>1. Feed!Range(<<>>) \union R = R
    BY EmptyFeed
  <2> QED
    BY <1>2, <2>1 DEF Feed!MergeActivity, R
<1>5. items \in {Feed!Cut(o) : o \in Feed!NewestFirst(Feed!Range(<<>>) \union R)}
  BY <1>2 DEF Feed!MergeActivity, R
<1>6. ASSUME ~ overlapped'
      PROVE  /\ ~ overlapped /\ \A u \in Tabs : tabs[u].open => u = t
             /\ Feed!NewestOf(items, saved \union ({} \union R))
  <2>1. ~ overlapped /\ \A u \in Tabs : ~ tabs[u].open
    BY <1>3, <1>6
  <2>2. Feed!NewestOf(storage, saved)
    BY <2>1 DEF FeedInv
  <2>3. order \in Feed!NewestFirst(Feed!Range(storage) \union {}) /\ IsFiniteSet({}) /\ {} \in SUBSET Items
    <3>1. Feed!Range(storage) \union {} = R
      BY DEF R
    <3> QED
      BY <1>4, <3>1, FS_EmptySet
  <2>4. Feed!NewestOf(Feed!Cut(order), saved \union {})
    BY <1>1, <2>2, <2>3, MergeKeepsNewest
  <2>5. saved \union {} = saved \union ({} \union R)
    BY <1>1
  <2> QED
    BY <1>4, <2>1, <2>4, <2>5
<1>7. items \in Seq(Items)
  <2>1. Feed!Feed(items)
    BY <1>1, <1>5, EmptyFeed, MergeKeepsNewest
  <2> QED
    BY <2>1, FeedFacts
<1>8. /\ DOMAIN tabs' = Tabs /\ \A u \in Tabs : u # t => tabs'[u] = tabs[u]
      /\ tabs'[t] = [open |-> TRUE, items |-> items, unsaved |-> TRUE]
      /\ tabs' \in [Tabs -> TabRecord]
  BY <1>2, <1>7 DEF FeedInv, TabRecord
<1>9. recorded' \subseteq Items /\ overlapped' \in BOOLEAN /\ {} \in SUBSET Items
  BY <1>3 DEF FeedInv, Feed!TypeOK
<1>10. known' = [known EXCEPT ![t] = {} \union R]
  <2>1. {} \union R = R
    OBVIOUS
  <2> QED
    BY <1>3, <2>1
<1> QED
  BY <1>1, <1>3, <1>5, <1>6, <1>8, <1>9, <1>10, EmptyFeed, MergeStep

LEMMA ReadSavedStep ==
    ASSUME FeedInv, NEW t \in Tabs, Feed!ReadSaved(t)
    PROVE  FeedInv'
<1> DEFINE R == Feed!Range(storage)
           previous == tabs[t].items
           old == known[t]
<1>1. /\ Feed!Feed(storage) /\ R \in SUBSET Items /\ IsFiniteSet(R) /\ Feed!Cut(storage) = storage
      /\ R \subseteq saved /\ saved \in SUBSET Items
      /\ Feed!Feed(previous) /\ old \in SUBSET Items
  BY FeedFacts, FeedIsCut DEF FeedInv, Feed!TypeOK
<1>2. PICK items \in Feed!MergeActivity(previous, storage) :
          tabs' = [tabs EXCEPT ![t].items = items, ![t].unsaved = TRUE]
  BY <1>1 DEF Feed!ReadSaved
<1>3. /\ tabs[t].open
      /\ storage' = storage /\ recorded' = recorded /\ saved' = saved /\ overlapped' = overlapped
      /\ known' = [known EXCEPT ![t] = old \union R]
  BY DEF Feed!ReadSaved
<1>4. items \in {Feed!Cut(o) : o \in Feed!NewestFirst(Feed!Range(previous) \union R)}
  BY <1>2 DEF Feed!MergeActivity
<1>5. tabs[t] \in TabRecord /\ tabs \in [Tabs -> TabRecord]
  BY DEF FeedInv
<1>6. Feed!NewestOf(previous, old)
  BY <1>3 DEF FeedInv
<1> HIDE DEF R, previous, old
<1>7. ASSUME ~ overlapped'
      PROVE  /\ ~ overlapped /\ \A u \in Tabs : tabs[u].open => u = t
             /\ Feed!NewestOf(items, saved \union (old \union R))
  <2>1. ~ overlapped /\ \A u \in Tabs : tabs[u].open => u = t
    BY <1>3, <1>7 DEF FeedInv
  <2>2. Feed!NewestOf(previous, saved \union old) /\ saved \union old \in SUBSET Items
    BY <1>1, <1>3, <2>1 DEF FeedInv, previous, old
  <2>3. Feed!NewestOf(items, (saved \union old) \union R)
    BY <1>1, <1>4, <2>2, MergeKeepsNewest
  <2>4. (saved \union old) \union R = saved \union (old \union R)
    OBVIOUS
  <2> QED
    BY <2>1, <2>3, <2>4
<1>8. items \in Seq(Items)
  <2>1. Feed!Feed(items)
    BY <1>1, <1>4, <1>6, MergeKeepsNewest
  <2> QED
    BY <2>1, FeedFacts
<1>9. tabs'[t] = [open |-> TRUE, items |-> items, unsaved |-> TRUE]
  BY <1>2, <1>3, <1>5 DEF TabRecord
<1>10. /\ DOMAIN tabs' = Tabs /\ \A u \in Tabs : u # t => tabs'[u] = tabs[u]
       /\ tabs' \in [Tabs -> TabRecord]
  BY <1>2, <1>5, <1>8 DEF TabRecord
<1>11. recorded' \subseteq Items /\ overlapped' \in BOOLEAN
  BY <1>3 DEF FeedInv, Feed!TypeOK
<1> QED
  BY <1>1, <1>3, <1>4, <1>6, <1>7, <1>9, <1>10, <1>11, MergeStep

LEMMA RecordStep ==
    ASSUME FeedInv, NEW t \in Tabs, NEW item \in Items, Feed!Record(t, item)
    PROVE  FeedInv'
<1> DEFINE R == {item}
           previous == tabs[t].items
           old == known[t]
<1>1. /\ R \in SUBSET Items /\ IsFiniteSet(R) /\ saved \in SUBSET Items
      /\ Feed!Feed(previous) /\ old \in SUBSET Items
  BY FS_Singleton DEF FeedInv, Feed!TypeOK
<1>2. PICK items \in Feed!MergeActivity(previous, <<item>>) :
          tabs' = [tabs EXCEPT ![t].items = items, ![t].unsaved = TRUE]
  BY DEF Feed!Record
<1>3. /\ tabs[t].open
      /\ storage' = storage /\ recorded' = recorded \union R /\ saved' = saved
      /\ overlapped' = overlapped /\ known' = [known EXCEPT ![t] = old \union R]
  BY DEF Feed!Record
<1>4. items \in {Feed!Cut(o) : o \in Feed!NewestFirst(Feed!Range(previous) \union R)}
  <2>1. Feed!Range(<<item>>) = R
    BY FeedOperators
  <2> QED
    BY <1>2, <2>1 DEF Feed!MergeActivity
<1>5. tabs[t] \in TabRecord /\ tabs \in [Tabs -> TabRecord]
  BY DEF FeedInv
<1>6. Feed!NewestOf(previous, old)
  BY <1>3 DEF FeedInv
<1> HIDE DEF R, previous, old
<1>7. ASSUME ~ overlapped'
      PROVE  /\ ~ overlapped /\ \A u \in Tabs : tabs[u].open => u = t
             /\ Feed!NewestOf(items, saved \union (old \union R))
  <2>1. ~ overlapped /\ \A u \in Tabs : tabs[u].open => u = t
    BY <1>3, <1>7 DEF FeedInv
  <2>2. Feed!NewestOf(previous, saved \union old) /\ saved \union old \in SUBSET Items
    BY <1>1, <1>3, <2>1 DEF FeedInv, previous, old
  <2>3. Feed!NewestOf(items, (saved \union old) \union R)
    BY <1>1, <1>4, <2>2, MergeKeepsNewest
  <2>4. (saved \union old) \union R = saved \union (old \union R)
    OBVIOUS
  <2> QED
    BY <2>1, <2>3, <2>4
<1>8. items \in Seq(Items)
  <2>1. Feed!Feed(items)
    BY <1>1, <1>4, <1>6, MergeKeepsNewest
  <2> QED
    BY <2>1, FeedFacts
<1>9. tabs'[t] = [open |-> TRUE, items |-> items, unsaved |-> TRUE]
  BY <1>2, <1>3, <1>5 DEF TabRecord
<1>10. /\ DOMAIN tabs' = Tabs /\ \A u \in Tabs : u # t => tabs'[u] = tabs[u]
       /\ tabs' \in [Tabs -> TabRecord]
  BY <1>2, <1>5, <1>8 DEF TabRecord
<1>11. recorded' \subseteq Items /\ overlapped' \in BOOLEAN
  BY <1>1, <1>3 DEF FeedInv, Feed!TypeOK
<1> QED
  BY <1>1, <1>3, <1>4, <1>6, <1>7, <1>9, <1>10, <1>11, MergeStep

(* A save leaves the storage the newest of all saved. *)
LEMMA SaveStep ==
    ASSUME FeedInv, NEW t \in Tabs, NEW works \in BOOLEAN, Feed!Save(t, works)
    PROVE  FeedInv'
<1> DEFINE items == tabs[t].items
<1>1. /\ tabs[t].open /\ tabs' = [tabs EXCEPT ![t].unsaved = FALSE]
      /\ recorded' = recorded /\ known' = known /\ overlapped' = overlapped
      /\ IF works THEN storage' = Feed!Cut(items) /\ saved' = saved \union Feed!Range(items)
         ELSE storage' = storage /\ saved' = saved
  BY DEF Feed!Save
<1>2. Feed!Feed(items) /\ Feed!Range(items) \subseteq known[t] /\ Feed!Range(items) \subseteq Items
  BY <1>1, FeedFacts DEF FeedInv, Feed!TypeOK, Feed!NewestOf
<1>3. Feed!Cut(items) = items
  BY <1>2, FeedIsCut
<1>4. \A u \in Tabs : /\ tabs'[u].open = tabs[u].open /\ tabs'[u].items = tabs[u].items
                      /\ tabs'[u] \in TabRecord
  BY <1>1 DEF FeedInv, TabRecord
<1>5. tabs' \in [Tabs -> TabRecord]
  BY <1>1, <1>4 DEF FeedInv
<1>6. /\ Feed!Feed(storage') /\ saved' \subseteq Items /\ Feed!Range(storage') \subseteq saved'
  <2>1. CASE works
    BY <1>1, <1>2, <1>3, <2>1 DEF FeedInv, Feed!TypeOK
  <2>2. CASE ~ works
    BY <1>1, <2>2 DEF FeedInv, Feed!TypeOK
  <2> QED
    BY <2>1, <2>2
<1>7. Feed!TypeOK'
  <2>1. \A u \in Tabs : /\ Feed!Feed(tabs'[u].items)
                        /\ {tabs'[u].open, tabs'[u].unsaved} \subseteq BOOLEAN
    BY <1>4 DEF FeedInv, Feed!TypeOK, TabRecord
  <2>2. recorded' \subseteq Items /\ known' \in [Tabs -> SUBSET Items] /\ overlapped' \in BOOLEAN
    BY <1>1 DEF FeedInv, Feed!TypeOK
  <2> QED
    BY <1>6, <2>1, <2>2 DEF Feed!TypeOK, Feed!Feed
<1>8. \A u \in Tabs : tabs'[u].open => Feed!NewestOf(tabs'[u].items, known'[u])
  BY <1>1, <1>4 DEF FeedInv
<1>9. ASSUME ~ overlapped'
      PROVE  /\ Feed!NewestOf(storage', saved')
             /\ \A u, w \in Tabs : tabs'[u].open /\ tabs'[w].open => u = w
             /\ \A u \in Tabs : tabs'[u].open => Feed!NewestOf(tabs'[u].items, saved' \union known'[u])
  <2>1. /\ Feed!NewestOf(storage, saved) /\ Feed!NewestOf(items, saved \union known[t])
        /\ \A u, w \in Tabs : tabs[u].open /\ tabs[w].open => u = w
        /\ \A u \in Tabs : tabs[u].open => u = t
    BY <1>1, <1>9 DEF FeedInv
  <2>2. saved' \union known[t] = saved \union known[t]
    <3>1. CASE works
      BY <1>1, <1>2, <3>1
    <3>2. CASE ~ works
      BY <1>1, <3>2
    <3> QED
      BY <3>1, <3>2
  <2>3. Feed!NewestOf(storage', saved')
    <3>1. CASE works
      <4>1. storage' = items /\ saved' = saved \union Feed!Range(items)
        BY <1>1, <1>3, <3>1
      <4>2. Feed!NewestOf(items, saved \union Feed!Range(items))
        BY <1>2, <2>1 DEF Feed!NewestOf
      <4> QED
        BY <4>1, <4>2
    <3>2. CASE ~ works
      BY <1>1, <2>1, <3>2
    <3> QED
      BY <3>1, <3>2
  <2>4. \A u \in Tabs : tabs'[u].open => Feed!NewestOf(tabs'[u].items, saved' \union known'[u])
    <3> SUFFICES ASSUME NEW u \in Tabs, tabs'[u].open
                 PROVE  Feed!NewestOf(tabs'[u].items, saved' \union known'[u])
      OBVIOUS
    <3>1. u = t /\ tabs'[u].items = items /\ saved' \union known'[u] = saved \union known[t]
      BY <1>1, <1>4, <2>1, <2>2
    <3> QED
      BY <2>1, <3>1
  <2> QED
    BY <1>4, <2>1, <2>3, <2>4
<1> QED
  BY <1>5, <1>6, <1>7, <1>8, <1>9 DEF FeedInv, Feed!NewestOf, Feed!Newer, Feed!Range

LEMMA CloseTabStep ==
    ASSUME FeedInv, NEW t \in Tabs, Feed!Close(t)
    PROVE  FeedInv'
<1>1. /\ tabs' = [tabs EXCEPT ![t] = Feed!Closed] /\ known' = [known EXCEPT ![t] = {}]
      /\ storage' = storage /\ recorded' = recorded /\ saved' = saved /\ overlapped' = overlapped
  BY DEF Feed!Close
<1>2. /\ Feed!Closed = [open |-> FALSE, items |-> <<>>, unsaved |-> FALSE]
      /\ Feed!Closed \in TabRecord
  BY DEF Feed!Closed, TabRecord
<1>3. /\ tabs \in [Tabs -> TabRecord] /\ known \in [Tabs -> SUBSET Items]
  BY DEF FeedInv, Feed!TypeOK
<1>4. /\ tabs' \in [Tabs -> TabRecord] /\ known' \in [Tabs -> SUBSET Items]
      /\ tabs'[t] = Feed!Closed /\ ~ tabs'[t].open /\ tabs'[t].items = <<>>
      /\ \A u \in Tabs : u # t => tabs'[u] = tabs[u] /\ known'[u] = known[u]
  BY <1>1, <1>2, <1>3
<1>5. Feed!TypeOK'
  <2>1. \A u \in Tabs : Feed!Feed(tabs'[u].items)
    <3> SUFFICES ASSUME NEW u \in Tabs PROVE Feed!Feed(tabs'[u].items)
      OBVIOUS
    <3>1. CASE u = t
      BY <1>4, <3>1, EmptyFeed
    <3>2. CASE u # t
      BY <1>4, <3>2 DEF FeedInv, Feed!TypeOK
    <3> QED
      BY <3>1, <3>2
  <2>2. \A u \in Tabs : {tabs'[u].open, tabs'[u].unsaved} \subseteq BOOLEAN
    BY <1>4 DEF TabRecord
  <2>3. Feed!Feed(storage') /\ recorded' \subseteq Items /\ saved' \subseteq Items /\ overlapped' \in BOOLEAN
    BY <1>1 DEF FeedInv, Feed!TypeOK
  <2> QED
    BY <1>4, <2>1, <2>2, <2>3 DEF Feed!TypeOK, Feed!Feed
<1>6. \A u \in Tabs : tabs'[u].open => u # t /\ Feed!NewestOf(tabs'[u].items, known'[u])
  BY <1>4 DEF FeedInv
<1>7. ~ overlapped' =>
          /\ Feed!NewestOf(storage', saved')
          /\ \A u, w \in Tabs : tabs'[u].open /\ tabs'[w].open => u = w
          /\ \A u \in Tabs : tabs'[u].open => Feed!NewestOf(tabs'[u].items, saved' \union known'[u])
  BY <1>1, <1>4, <1>6 DEF FeedInv
<1>8. Feed!Range(storage') \subseteq saved'
  BY <1>1 DEF FeedInv
<1> QED
  BY <1>4, <1>5, <1>6, <1>7, <1>8 DEF FeedInv, Feed!NewestOf, Feed!Newer, Feed!Range

LEMMA FeedNext == FeedInv /\ [Feed!Next]_feedVars => FeedInv'
<1> SUFFICES ASSUME FeedInv, [Feed!Next]_feedVars PROVE FeedInv'
  OBVIOUS
<1>1. CASE UNCHANGED feedVars
  BY <1>1 DEF feedVars, FeedInv, Feed!TypeOK
<1>2. CASE Feed!Next
  BY <1>2, OpenStep, ReadSavedStep, RecordStep, SaveStep, CloseTabStep DEF Feed!Next
<1> QED
  BY <1>1, <1>2

(* The feed on screen is the newest of what its tab has read and recorded, *)
(* and of everything saved while one tab at a time is open, in spite of    *)
(* the cut at every merge and save (activity.ts mergeActivity,             *)
(* saveActivity, dashboard.tsx).                                           *)
THEOREM FeedIsSafe == ClientSpec => []FeedSafe
<1>1. ClientInit => FeedInv
  BY FeedInit DEF ClientInit
<1>2. [ClientNext]_clientVars => [Feed!Next]_feedVars
  BY PartsMove
<1>3. FeedInv /\ [ClientNext]_clientVars => FeedInv'
  BY <1>2, FeedNext
<1>4. FeedInv => FeedSafe
  BY DEF FeedInv, FeedSafe, Feed!FeedSafe, Feed!TabHoldsNewest, Feed!SavedSurvives
<1> QED
  BY <1>1, <1>3, <1>4, PTL DEF ClientSpec

-----------------------------------------------------------------------------
(***************************************************************************)
(* Receipts and history.                                                   *)
(***************************************************************************)
(* A set of places that is not empty has a first. *)
LEMMA FirstPlace ==
    ASSUME NEW places \in SUBSET Nat
    PROVE  /\ places # {} => \E i \in places : History!First(places) = {i}
           /\ \A i \in History!First(places) : i \in places /\ \A j \in places : i <= j
<1>1. ASSUME NEW i \in places, NEW j \in places, ~ (<<j, i>> \in OpToRel(<, Nat))
      PROVE  i <= j
  <2>1. i \in Nat /\ j \in Nat
    OBVIOUS
  <2> QED
    BY <1>1, <2>1 DEF OpToRel
<1>2. ASSUME places # {}
      PROVE  \E i \in places : \A j \in places : i <= j
  <2>1. PICK i \in places : \A j \in places : ~ (<<j, i>> \in OpToRel(<, Nat))
    BY <1>2, WFMin, NatLessThanWellFounded
  <2> QED
    BY <1>1, <2>1
<1>3. ASSUME NEW i \in places, \A j \in places : i <= j
      PROVE  History!First(places) = {i}
  <2>1. \A k \in places : (\A j \in places : k <= j) => k = i
    BY <1>3
  <2> QED
    BY <1>3, <2>1 DEF History!First
<1> QED
  BY <1>2, <1>3 DEF History!First

Events == {"BondTaken", "BondOpened", "BondSettled"}

BondRecord == [pool : Pools, recipient : Accounts, leg : BondLegs, currency : History!Currencies,
               amount : Collaterals, settled : BOOLEAN]
LogRecord == [address : {"hook", "olderHook"}, event : Events, bondId : Nat, pool : Pools,
              recipient : Accounts, currency : History!Currencies, leg : BondLegs,
              amount : Collaterals, tx : Nat]

(* A log is of the bond it names, or of the bond opened right after it.    *)
OfItsBond(i) ==
    LET log == logs[i] IN
    /\ log.tx \in 1..transactions
    /\ log.event # "BondTaken" =>
          log.bondId \in 1..Len(bonds) /\ log = History!Log(log.event, log.bondId, bonds[log.bondId], log.tx)
    /\ log.event = "BondOpened" =>
          i > 1 /\ logs[i - 1] = History!Log("BondTaken", History!NoId, bonds[log.bondId], log.tx)
    /\ log.event = "BondTaken" =>
          /\ i < Len(logs) /\ logs[i + 1].event = "BondOpened"
          /\ log = History!Log("BondTaken", History!NoId, bonds[logs[i + 1].bondId], logs[i + 1].tx)

HistoryInv ==
    /\ bonds \in Seq(BondRecord) /\ Len(bonds) <= MAX_BONDS
    /\ transactions \in 0..MAX_TRANSACTIONS
    /\ logs \in Seq(LogRecord)
    /\ \A i \in 1..Len(logs) : OfItsBond(i)
    /\ \A id \in 1..Len(bonds) :
          /\ \E i \in 1..Len(logs) : logs[i].event = "BondOpened" /\ logs[i].bondId = id
          /\ bonds[id].settled <=>
                \E i \in 1..Len(logs) : logs[i].event = "BondSettled" /\ logs[i].bondId = id

LEMMA LogFacts ==
    ASSUME NEW event \in Events, NEW id \in Nat, NEW bond \in BondRecord, NEW tx \in Nat
    PROVE  LET log == History!Log(event, id, bond, tx) IN
           /\ log \in LogRecord
           /\ log.event = event /\ log.bondId = id /\ log.pool = bond.pool
           /\ log.recipient = bond.recipient /\ log.currency = bond.currency /\ log.leg = bond.leg
           /\ log.amount = bond.amount /\ log.tx = tx
           /\ bond.pool = "configured" => log.address = "hook"
           /\ \A settled : History!Log(event, id, [bond EXCEPT !.settled = settled], tx) = log
  BY DEF History!Log, History!HookOf, LogRecord, BondRecord

LEMMA HistoryInit == History!Init => HistoryInv
<1> SUFFICES ASSUME History!Init PROVE HistoryInv
  OBVIOUS
<1>1. bonds = <<>> /\ transactions = 0 /\ logs = <<>>
  BY DEF History!Init
<1>2. bonds \in Seq(BondRecord) /\ logs \in Seq(LogRecord) /\ Len(bonds) = 0 /\ Len(logs) = 0
  BY <1>1
<1> QED
  BY <1>1, <1>2, BoundsAssumption DEF HistoryInv

LEMMA BeginTransactionStep == HistoryInv /\ History!BeginTransaction => HistoryInv'
<1> SUFFICES ASSUME HistoryInv, History!BeginTransaction PROVE HistoryInv'
  OBVIOUS
<1>1. /\ transactions' = transactions + 1 /\ transactions < MAX_TRANSACTIONS
      /\ bonds' = bonds /\ logs' = logs /\ transactions \in Nat
  BY DEF History!BeginTransaction, HistoryInv
<1>2. transactions' \in 0..MAX_TRANSACTIONS
  BY <1>1, BoundsAssumption
<1>3. \A i \in 1..Len(logs) : OfItsBond(i)'
  <2> SUFFICES ASSUME NEW i \in 1..Len(logs) PROVE OfItsBond(i)'
    OBVIOUS
  <2>1. OfItsBond(i)
    BY DEF HistoryInv
  <2>2. 1..transactions \subseteq 1..transactions'
    BY <1>1
  <2> QED
    BY <1>1, <2>1, <2>2 DEF OfItsBond
<1> QED
  BY <1>1, <1>2, <1>3 DEF HistoryInv

(* A swap appends its bond, and its two logs. *)
LEMMA SwapStep ==
    ASSUME HistoryInv, NEW bond \in History!Swaps, History!Swap(bond)
    PROVE  HistoryInv'
<1> DEFINE n == Len(logs)
           id == Len(bonds) + 1
           taken == History!Log("BondTaken", History!NoId, bond, transactions)
           opened == History!Log("BondOpened", id, bond, transactions)
<1>1. /\ transactions # 0 /\ Len(bonds) < MAX_BONDS /\ transactions' = transactions
      /\ bonds' = Append(bonds, bond) /\ logs' = logs \o <<taken, opened>>
  BY DEF History!Swap, History!SwapLogs
<1>2. /\ bonds \in Seq(BondRecord) /\ logs \in Seq(LogRecord) /\ transactions \in Nat \ {0}
      /\ n \in Nat /\ Len(bonds) \in Nat /\ id \in Nat \ {0}
  BY <1>1 DEF HistoryInv
<1>3. bond \in BondRecord /\ bond.settled = FALSE
  BY DEF History!Swaps, BondRecord
<1>4. History!NoId = 0
  BY DEF History!NoId
<1>5. /\ taken \in LogRecord /\ opened \in LogRecord
      /\ taken.event = "BondTaken" /\ taken.tx = transactions
      /\ opened.event = "BondOpened" /\ opened.bondId = id /\ opened.tx = transactions
  <2>1. /\ "BondTaken" \in Events /\ "BondOpened" \in Events /\ History!NoId \in Nat /\ id \in Nat
        /\ transactions \in Nat
    BY <1>2, <1>4 DEF Events
  <2> HIDE DEF id
  <2>2. /\ taken \in LogRecord /\ taken.event = "BondTaken" /\ taken.tx = transactions
    BY <1>3, <2>1, LogFacts
  <2>3. /\ opened \in LogRecord /\ opened.event = "BondOpened" /\ opened.bondId = id
        /\ opened.tx = transactions
    BY <1>3, <2>1, LogFacts
  <2> QED
    BY <2>2, <2>3
<1> HIDE DEF taken, opened, id, n
<1>6. /\ bonds' \in Seq(BondRecord) /\ Len(bonds') = id
      /\ \A b \in 1..Len(bonds) : bonds'[b] = bonds[b]
      /\ bonds'[id] = bond
  BY <1>1, <1>2, <1>3 DEF id
<1>7. /\ logs' \in Seq(LogRecord) /\ Len(logs') = n + 2
      /\ \A i \in 1..n : logs'[i] = logs[i]
      /\ logs'[n + 1] = taken /\ logs'[n + 2] = opened
  <2>1. <<taken, opened>> \in Seq(LogRecord) /\ Len(<<taken, opened>>) = 2
    BY <1>5
  <2>2. /\ logs' \in Seq(LogRecord) /\ Len(logs') = n + 2
        /\ \A i \in 1..(n + 2) : logs'[i] = IF i <= n THEN logs[i] ELSE <<taken, opened>>[i - n]
    BY <1>1, <1>2, <2>1, ConcatProperties DEF n
  <2>3. /\ n + 1 \in 1..(n + 2) /\ ~ (n + 1 <= n) /\ (n + 1) - n = 1
        /\ n + 2 \in 1..(n + 2) /\ ~ (n + 2 <= n) /\ (n + 2) - n = 2
        /\ \A i \in 1..n : i \in 1..(n + 2) /\ i <= n
    BY <1>2
  <2>4. logs'[n + 1] = taken /\ logs'[n + 2] = opened
    BY <2>2, <2>3
  <2> QED
    BY <2>2, <2>3, <2>4
<1>8. \A i \in 1..(n + 2) : i \in 1..n \/ i = n + 1 \/ i = n + 2
  BY <1>2
<1>9. \A b \in 1..id : b \in 1..Len(bonds) \/ b = id
  BY <1>2 DEF id
<1>10. ASSUME NEW i \in 1..n PROVE OfItsBond(i)'
  <2>1. OfItsBond(i)
    BY DEF HistoryInv, n
  <2>2. logs'[i] = logs[i]
    BY <1>7
  <2>3. i > 1 => logs'[i - 1] = logs[i - 1]
    <3> SUFFICES ASSUME i > 1 PROVE logs'[i - 1] = logs[i - 1]
      OBVIOUS
    <3>1. i - 1 \in 1..n
      BY <1>2
    <3> QED
      BY <1>7, <3>1
  <2>4. i < n => logs'[i + 1] = logs[i + 1] /\ i < Len(logs')
    <3> SUFFICES ASSUME i < n PROVE logs'[i + 1] = logs[i + 1] /\ i < Len(logs')
      OBVIOUS
    <3>1. i + 1 \in 1..n
      BY <1>2
    <3> QED
      BY <1>2, <1>7, <3>1
  <2>5. \A b \in 1..Len(bonds) : bonds'[b] = bonds[b] /\ b \in 1..Len(bonds')
    BY <1>2, <1>6 DEF id
  <2>6. i < n => /\ OfItsBond(i + 1)
                 /\ logs[i + 1].event = "BondOpened" => logs[i + 1].bondId \in 1..Len(bonds)
    <3> SUFFICES ASSUME i < n
                 PROVE  /\ OfItsBond(i + 1)
                        /\ logs[i + 1].event = "BondOpened" => logs[i + 1].bondId \in 1..Len(bonds)
      OBVIOUS
    <3>1. i + 1 \in 1..n
      BY <1>2
    <3>2. OfItsBond(i + 1)
      BY <3>1 DEF HistoryInv, n
    <3> QED
      BY <3>2 DEF OfItsBond
  <2> QED
    BY <1>1, <2>1, <2>2, <2>3, <2>4, <2>5, <2>6 DEF OfItsBond, n
<1>11. ASSUME NEW i \in 1..(n + 2), i = n + 1 PROVE OfItsBond(i)'
  <2>1. i < Len(logs') /\ i + 1 = n + 2 /\ transactions' \in 1..transactions'
    BY <1>1, <1>2, <1>7, <1>11
  <2>2. logs'[i] = taken /\ logs'[i + 1] = opened
    BY <1>7, <1>11, <2>1
  <2>3. taken = History!Log("BondTaken", History!NoId, bonds'[id], transactions)
    BY <1>6 DEF taken
  <2>4. /\ taken.tx \in 1..transactions' /\ taken.event = "BondTaken"
        /\ opened.event = "BondOpened" /\ opened.bondId = id /\ opened.tx = transactions
    BY <1>1, <1>5, <2>1
  <2> QED
    BY <2>1, <2>2, <2>3, <2>4 DEF OfItsBond
<1>12. ASSUME NEW i \in 1..(n + 2), i = n + 2 PROVE OfItsBond(i)'
  <2>1. i > 1 /\ i - 1 = n + 1 /\ transactions' \in 1..transactions' /\ id \in 1..Len(bonds')
    BY <1>1, <1>2, <1>6, <1>12
  <2>2. logs'[i] = opened /\ logs'[i - 1] = taken
    BY <1>7, <1>12, <2>1
  <2>3. /\ taken = History!Log("BondTaken", History!NoId, bonds'[id], transactions)
        /\ opened = History!Log("BondOpened", id, bonds'[id], transactions)
    BY <1>6 DEF taken, opened
  <2>4. /\ opened.tx \in 1..transactions'
        /\ opened.event = "BondOpened" /\ opened.bondId = id /\ opened.tx = transactions
    BY <1>1, <1>5, <2>1
  <2> QED
    BY <2>1, <2>2, <2>3, <2>4 DEF OfItsBond
<1>13. ASSUME NEW b \in 1..id
       PROVE  /\ \E i \in 1..(n + 2) : logs'[i].event = "BondOpened" /\ logs'[i].bondId = b
              /\ bonds'[b].settled <=>
                    \E i \in 1..(n + 2) : logs'[i].event = "BondSettled" /\ logs'[i].bondId = b
  <2>1. n + 2 \in 1..(n + 2) /\ 1..n \subseteq 1..(n + 2)
    BY <1>2
  <2>2. CASE b \in 1..Len(bonds)
    <3>1. /\ \E i \in 1..n : logs[i].event = "BondOpened" /\ logs[i].bondId = b
          /\ bonds[b].settled <=>
                \E i \in 1..n : logs[i].event = "BondSettled" /\ logs[i].bondId = b
      BY <2>2 DEF HistoryInv, n
    <3>2. \E i \in 1..(n + 2) : logs'[i].event = "BondOpened" /\ logs'[i].bondId = b
      BY <1>7, <2>1, <3>1
    <3>3. (\E i \in 1..n : logs[i].event = "BondSettled" /\ logs[i].bondId = b)
             <=> \E i \in 1..(n + 2) : logs'[i].event = "BondSettled" /\ logs'[i].bondId = b
      BY <1>5, <1>7, <1>8, <2>1
    <3> QED
      BY <1>6, <2>2, <3>1, <3>2, <3>3
  <2>3. CASE b = id
    <3>1. \A i \in 1..n : logs[i].event = "BondSettled" => logs[i].bondId # id
      <4> SUFFICES ASSUME NEW i \in 1..n, logs[i].event = "BondSettled" PROVE logs[i].bondId # id
        OBVIOUS
      <4>1. logs[i].bondId \in 1..Len(bonds)
        BY DEF HistoryInv, OfItsBond, n
      <4> QED
        BY <1>2, <4>1 DEF id
    <3> QED
      BY <1>3, <1>5, <1>6, <1>7, <1>8, <2>1, <2>3, <3>1
  <2> QED
    BY <1>9, <2>2, <2>3
<1>14. id <= MAX_BONDS
  BY <1>1, <1>2, BoundsAssumption DEF id
<1>15. \A i \in 1..(n + 2) : OfItsBond(i)'
  BY <1>8, <1>10, <1>11, <1>12
<1>16. transactions' \in 0..MAX_TRANSACTIONS
  BY <1>1 DEF HistoryInv
<1> QED
  BY <1>6, <1>7, <1>13, <1>14, <1>15, <1>16 DEF HistoryInv

(* A settlement appends its log, and marks the bond that it names. *)
LEMMA SettleStep ==
    ASSUME HistoryInv, NEW id \in DOMAIN bonds, History!Settle(id)
    PROVE  HistoryInv'
<1> DEFINE n == Len(logs)
           settled == History!Log("BondSettled", id, bonds[id], transactions)
<1>1. /\ transactions # 0 /\ transactions' = transactions
      /\ bonds' = [bonds EXCEPT ![id].settled = TRUE] /\ logs' = Append(logs, settled)
  BY DEF History!Settle
<1>2. /\ bonds \in Seq(BondRecord) /\ logs \in Seq(LogRecord) /\ transactions \in Nat \ {0}
      /\ n \in Nat /\ Len(bonds) \in Nat /\ id \in 1..Len(bonds) /\ id \in Nat
  BY <1>1 DEF HistoryInv
<1>3. bonds[id] \in BondRecord
  BY <1>2
<1>4. /\ settled \in LogRecord /\ settled.event = "BondSettled" /\ settled.bondId = id
      /\ settled.tx = transactions
  <2>1. "BondSettled" \in Events /\ transactions \in Nat
    BY <1>2 DEF Events
  <2> QED
    BY <1>2, <1>3, <2>1, LogFacts
<1> HIDE DEF settled, n
<1>5. /\ bonds' \in Seq(BondRecord) /\ Len(bonds') = Len(bonds)
      /\ bonds'[id] = [bonds[id] EXCEPT !.settled = TRUE] /\ bonds'[id].settled
      /\ \A b \in 1..Len(bonds) : b # id => bonds'[b] = bonds[b]
  <2>1. [bonds[id] EXCEPT !.settled = TRUE] \in BondRecord /\ [bonds[id] EXCEPT !.settled = TRUE].settled
    BY <1>3 DEF BondRecord
  <2> DEFINE marked == [bonds[id] EXCEPT !.settled = TRUE]
  <2>2. bonds' = [bonds EXCEPT ![id] = marked]
    BY <1>1
  <2> HIDE DEF marked
  <2>3. marked \in BondRecord /\ marked.settled
    BY <2>1 DEF marked
  <2>4. /\ bonds' \in Seq(BondRecord) /\ Len(bonds') = Len(bonds)
        /\ \A b \in 1..Len(bonds) : bonds'[b] = IF b = id THEN marked ELSE bonds[b]
    BY <1>2, <2>2, <2>3, ExceptSeq
  <2> QED
    BY <1>2, <2>3, <2>4 DEF marked
<1>6. ASSUME NEW event \in Events, NEW k \in Nat, NEW b \in 1..Len(bonds), NEW tx \in Nat
      PROVE  History!Log(event, k, bonds'[b], tx) = History!Log(event, k, bonds[b], tx)
  <2>1. CASE b = id
    <3>1. History!Log(event, k, [bonds[id] EXCEPT !.settled = TRUE], tx)
              = History!Log(event, k, bonds[id], tx)
      BY <1>3, LogFacts
    <3> QED
      BY <1>5, <2>1, <3>1
  <2>2. CASE b # id
    BY <1>5, <2>2
  <2> QED
    BY <2>1, <2>2
<1>7. /\ logs' \in Seq(LogRecord) /\ Len(logs') = n + 1
      /\ \A i \in 1..n : logs'[i] = logs[i]
      /\ logs'[n + 1] = settled
  BY <1>1, <1>2, <1>4 DEF n
<1>8. \A i \in 1..(n + 1) : i \in 1..n \/ i = n + 1
  BY <1>2
<1>9. ASSUME NEW i \in 1..n PROVE OfItsBond(i)'
  <2>1. OfItsBond(i)
    BY DEF HistoryInv, n
  <2>2. logs'[i] = logs[i] /\ logs[i] \in LogRecord
    BY <1>2, <1>7 DEF n
  <2>3. logs[i].event \in Events /\ logs[i].bondId \in Nat /\ logs[i].tx \in Nat
    BY <2>2 DEF LogRecord
  <2>4. ASSUME i > 1 PROVE logs'[i - 1] = logs[i - 1]
    <3>1. i - 1 \in 1..n
      BY <1>2, <2>4
    <3> QED
      BY <1>7, <3>1
  <2>5. ASSUME i < n
        PROVE  /\ logs'[i + 1] = logs[i + 1] /\ i < Len(logs') /\ logs[i + 1].tx \in Nat
               /\ logs[i + 1].event = "BondOpened" => logs[i + 1].bondId \in 1..Len(bonds)
    <3>1. i + 1 \in 1..n
      BY <1>2, <2>5
    <3>2. OfItsBond(i + 1) /\ logs[i + 1] \in LogRecord
      BY <1>2, <3>1 DEF HistoryInv, n
    <3> QED
      BY <1>2, <1>7, <2>5, <3>1, <3>2 DEF OfItsBond, LogRecord
  <2>6. "BondTaken" \in Events /\ History!NoId \in Nat
    BY DEF Events, History!NoId
  <2>7. logs[i].event # "BondTaken" =>
            /\ logs[i].bondId \in 1..Len(bonds)
            /\ logs[i] = History!Log(logs[i].event, logs[i].bondId, bonds'[logs[i].bondId], logs[i].tx)
    BY <1>6, <2>1, <2>3 DEF OfItsBond
  <2>8. logs[i].event = "BondOpened" =>
            i > 1 /\ logs[i - 1] = History!Log("BondTaken", History!NoId, bonds'[logs[i].bondId], logs[i].tx)
    BY <1>6, <2>1, <2>3, <2>6, <2>7 DEF OfItsBond
  <2>9. logs[i].event = "BondTaken" =>
            /\ i < n /\ logs[i + 1].event = "BondOpened"
            /\ logs[i] = History!Log("BondTaken", History!NoId, bonds'[logs[i + 1].bondId], logs[i + 1].tx)
    <3> SUFFICES ASSUME logs[i].event = "BondTaken"
                 PROVE  /\ i < n /\ logs[i + 1].event = "BondOpened"
                        /\ logs[i] = History!Log("BondTaken", History!NoId, bonds'[logs[i + 1].bondId],
                                                 logs[i + 1].tx)
      OBVIOUS
    <3>1. /\ i < n /\ logs[i + 1].event = "BondOpened"
          /\ logs[i] = History!Log("BondTaken", History!NoId, bonds[logs[i + 1].bondId], logs[i + 1].tx)
      BY <2>1 DEF OfItsBond, n
    <3>2. logs[i + 1].bondId \in 1..Len(bonds) /\ logs[i + 1].tx \in Nat
      BY <2>5, <3>1
    <3> QED
      BY <1>6, <2>6, <3>1, <3>2
  <2>10. logs[i].tx \in 1..transactions'
    BY <1>1, <2>1 DEF OfItsBond
  <2> QED
    BY <1>5, <2>2, <2>4, <2>5, <2>7, <2>8, <2>9, <2>10 DEF OfItsBond
<1>10. ASSUME NEW i \in 1..(n + 1), i = n + 1 PROVE OfItsBond(i)'
  <2>1. /\ logs'[i] = settled /\ settled.tx \in 1..transactions' /\ settled.event = "BondSettled"
        /\ settled.bondId = id /\ id \in 1..Len(bonds')
    BY <1>1, <1>2, <1>4, <1>5, <1>7, <1>10
  <2>2. settled = History!Log("BondSettled", id, bonds'[id], settled.tx)
    <3>1. "BondSettled" \in Events /\ transactions \in Nat
      BY <1>2 DEF Events
    <3> QED
      BY <1>2, <1>4, <1>6, <3>1 DEF settled
  <2> QED
    BY <2>1, <2>2 DEF OfItsBond
<1>11. ASSUME NEW b \in 1..Len(bonds)
       PROVE  /\ \E i \in 1..(n + 1) : logs'[i].event = "BondOpened" /\ logs'[i].bondId = b
              /\ bonds'[b].settled <=>
                    \E i \in 1..(n + 1) : logs'[i].event = "BondSettled" /\ logs'[i].bondId = b
  <2>1. n + 1 \in 1..(n + 1) /\ 1..n \subseteq 1..(n + 1)
    BY <1>2
  <2>2. /\ \E i \in 1..n : logs[i].event = "BondOpened" /\ logs[i].bondId = b
        /\ bonds[b].settled <=> \E i \in 1..n : logs[i].event = "BondSettled" /\ logs[i].bondId = b
    BY DEF HistoryInv, n
  <2>3. \E i \in 1..(n + 1) : logs'[i].event = "BondOpened" /\ logs'[i].bondId = b
    BY <1>7, <2>1, <2>2
  <2>4. CASE b = id
    BY <1>4, <1>5, <1>7, <2>1, <2>3, <2>4
  <2>5. CASE b # id
    <3>1. (\E i \in 1..n : logs[i].event = "BondSettled" /\ logs[i].bondId = b)
             <=> \E i \in 1..(n + 1) : logs'[i].event = "BondSettled" /\ logs'[i].bondId = b
      BY <1>4, <1>7, <1>8, <2>1, <2>5
    <3> QED
      BY <1>5, <2>2, <2>3, <2>5, <3>1
  <2> QED
    BY <2>4, <2>5
<1>12. \A i \in 1..(n + 1) : OfItsBond(i)'
  BY <1>8, <1>9, <1>10
<1>13. transactions' \in 0..MAX_TRANSACTIONS /\ Len(bonds') <= MAX_BONDS
  BY <1>1, <1>5 DEF HistoryInv
<1>14. /\ \A i \in 1..Len(logs') : OfItsBond(i)'
       /\ \A b \in 1..Len(bonds') :
             /\ \E i \in 1..Len(logs') : logs'[i].event = "BondOpened" /\ logs'[i].bondId = b
             /\ bonds'[b].settled <=>
                   \E i \in 1..Len(logs') : logs'[i].event = "BondSettled" /\ logs'[i].bondId = b
  BY <1>5, <1>7, <1>11, <1>12
<1> QED
  BY <1>5, <1>7, <1>13, <1>14 DEF HistoryInv

LEMMA HistoryNext == HistoryInv /\ [History!Next]_historyVars => HistoryInv'
<1> SUFFICES ASSUME HistoryInv, [History!Next]_historyVars PROVE HistoryInv'
  OBVIOUS
<1>1. CASE UNCHANGED historyVars
  BY <1>1 DEF historyVars, HistoryInv, OfItsBond
<1>2. CASE History!Next
  BY <1>2, BeginTransactionStep, SwapStep, SettleStep DEF History!Next
<1> QED
  BY <1>1, <1>2

(* What is read of the logs. *)

LEMMA LogsOfBonds ==
    ASSUME HistoryInv
    PROVE  /\ DOMAIN logs = 1..Len(logs) /\ Len(logs) \in Nat /\ DOMAIN bonds = 1..Len(bonds)
           /\ Len(bonds) \in Nat
           /\ \A id \in 1..Len(bonds) : bonds[id] \in BondRecord
           /\ \A i \in 1..Len(logs) : /\ logs[i].event \in Events /\ logs[i].bondId \in Nat
                                      /\ logs[i].tx \in 1..transactions
           /\ \A i \in 1..Len(logs) : logs[i].event # "BondTaken" =>
                 /\ logs[i].bondId \in 1..Len(bonds)
                 /\ logs[i].pool = bonds[logs[i].bondId].pool
                 /\ logs[i].recipient = bonds[logs[i].bondId].recipient
                 /\ logs[i].leg = bonds[logs[i].bondId].leg
                 /\ logs[i].amount = bonds[logs[i].bondId].amount
                 /\ logs[i].pool = "configured" => logs[i].address = "hook"
<1>1. /\ bonds \in Seq(BondRecord) /\ logs \in Seq(LogRecord)
  BY DEF HistoryInv
<1>2. \A i \in 1..Len(logs) : logs[i] \in LogRecord
  BY <1>1
<1>3. \A id \in 1..Len(bonds) : bonds[id] \in BondRecord
  BY <1>1
<1>4. \A i \in 1..Len(logs) : /\ logs[i].event \in Events /\ logs[i].bondId \in Nat
                              /\ logs[i].tx \in Nat /\ logs[i].tx \in 1..transactions
  BY <1>2 DEF LogRecord, HistoryInv, OfItsBond
<1>5. ASSUME NEW i \in 1..Len(logs), logs[i].event # "BondTaken"
      PROVE  /\ logs[i].bondId \in 1..Len(bonds)
             /\ logs[i].pool = bonds[logs[i].bondId].pool
             /\ logs[i].recipient = bonds[logs[i].bondId].recipient
             /\ logs[i].leg = bonds[logs[i].bondId].leg
             /\ logs[i].amount = bonds[logs[i].bondId].amount
             /\ logs[i].pool = "configured" => logs[i].address = "hook"
  <2>1. /\ logs[i].bondId \in 1..Len(bonds)
        /\ logs[i] = History!Log(logs[i].event, logs[i].bondId, bonds[logs[i].bondId], logs[i].tx)
    BY <1>5 DEF HistoryInv, OfItsBond
  <2> QED
    BY <1>3, <1>4, <2>1, LogFacts
<1> QED
  BY <1>1, <1>3, <1>4, <1>5

(* A BondTaken log is of the bond that the next log opens, in the same     *)
(* transaction, and a BondOpened log has its own before it.                *)
LEMMA TakenThenOpened ==
    ASSUME HistoryInv
    PROVE  /\ \A i \in 1..Len(logs) : logs[i].event = "BondTaken" =>
                 LET o == logs[i + 1] IN
                 /\ i + 1 \in 1..Len(logs) /\ o.event = "BondOpened" /\ o.tx = logs[i].tx
                 /\ logs[i].bondId = History!NoId /\ o.bondId \in 1..Len(bonds)
                 /\ logs[i].pool = bonds[o.bondId].pool
                 /\ logs[i].recipient = bonds[o.bondId].recipient
                 /\ logs[i].leg = bonds[o.bondId].leg
                 /\ logs[i].amount = bonds[o.bondId].amount
                 /\ logs[i].currency = bonds[o.bondId].currency
           /\ \A i \in 1..Len(logs) : logs[i].event = "BondOpened" =>
                 LET t == logs[i - 1] IN
                 /\ i - 1 \in 1..Len(logs) /\ t.event = "BondTaken" /\ t.tx = logs[i].tx
                 /\ t.pool = bonds[logs[i].bondId].pool
                 /\ t.recipient = bonds[logs[i].bondId].recipient
                 /\ t.leg = bonds[logs[i].bondId].leg
                 /\ t.pool = "configured" => t.address = "hook"
<1>1. "BondTaken" \in Events /\ History!NoId \in Nat
  BY DEF Events, History!NoId
<1>2. ASSUME NEW i \in 1..Len(logs), logs[i].event = "BondTaken"
      PROVE  LET o == logs[i + 1] IN
             /\ i + 1 \in 1..Len(logs) /\ o.event = "BondOpened" /\ o.tx = logs[i].tx
             /\ logs[i].bondId = History!NoId /\ o.bondId \in 1..Len(bonds)
             /\ logs[i].pool = bonds[o.bondId].pool
             /\ logs[i].recipient = bonds[o.bondId].recipient
             /\ logs[i].leg = bonds[o.bondId].leg
             /\ logs[i].amount = bonds[o.bondId].amount
             /\ logs[i].currency = bonds[o.bondId].currency
  <2> DEFINE o == logs[i + 1]
  <2>1. /\ i < Len(logs) /\ o.event = "BondOpened"
        /\ logs[i] = History!Log("BondTaken", History!NoId, bonds[o.bondId], o.tx)
    BY <1>2 DEF HistoryInv, OfItsBond
  <2>2. i + 1 \in 1..Len(logs)
    BY <2>1, LogsOfBonds
  <2>3. o.bondId \in 1..Len(bonds) /\ o.tx \in 1..transactions /\ transactions \in Nat
    BY <2>1, <2>2, LogsOfBonds DEF HistoryInv
  <2>4. bonds[o.bondId] \in BondRecord /\ o.tx \in Nat
    BY <2>3, LogsOfBonds
  <2> HIDE DEF o
  <2>5. /\ logs[i].bondId = History!NoId /\ logs[i].tx = o.tx /\ logs[i].pool = bonds[o.bondId].pool
        /\ logs[i].recipient = bonds[o.bondId].recipient /\ logs[i].leg = bonds[o.bondId].leg
        /\ logs[i].amount = bonds[o.bondId].amount /\ logs[i].currency = bonds[o.bondId].currency
    BY <1>1, <2>1, <2>4, LogFacts
  <2> QED
    BY <2>1, <2>2, <2>3, <2>5 DEF o
<1>3. ASSUME NEW i \in 1..Len(logs), logs[i].event = "BondOpened"
      PROVE  LET t == logs[i - 1] IN
             /\ i - 1 \in 1..Len(logs) /\ t.event = "BondTaken" /\ t.tx = logs[i].tx
             /\ t.pool = bonds[logs[i].bondId].pool
             /\ t.recipient = bonds[logs[i].bondId].recipient
             /\ t.leg = bonds[logs[i].bondId].leg
             /\ t.pool = "configured" => t.address = "hook"
  <2> DEFINE b == bonds[logs[i].bondId]
             tx == logs[i].tx
  <2>1. i > 1 /\ logs[i - 1] = History!Log("BondTaken", History!NoId, b, tx)
    BY <1>3 DEF HistoryInv, OfItsBond
  <2>2. i - 1 \in 1..Len(logs)
    BY <2>1, LogsOfBonds
  <2>3. b \in BondRecord /\ tx \in Nat
    <3>1. logs[i].bondId \in 1..Len(bonds) /\ tx \in 1..transactions /\ transactions \in Nat
      BY <1>3, LogsOfBonds DEF HistoryInv
    <3> QED
      BY <3>1, LogsOfBonds
  <2> HIDE DEF b, tx
  <2>4. /\ logs[i - 1].event = "BondTaken" /\ logs[i - 1].tx = tx /\ logs[i - 1].pool = b.pool
        /\ logs[i - 1].recipient = b.recipient /\ logs[i - 1].leg = b.leg
        /\ b.pool = "configured" => logs[i - 1].address = "hook"
    BY <1>1, <2>1, <2>3, LogFacts
  <2> QED
    BY <2>2, <2>4 DEF b, tx
<1> QED
  BY <1>2, <1>3

LEMMA HistoryTyped == HistoryInv => History!TypeOK
<1> SUFFICES ASSUME HistoryInv PROVE History!TypeOK
  OBVIOUS
<1>1. ASSUME NEW i \in DOMAIN logs
      PROVE  /\ logs[i].bondId \in 0..Len(bonds)
             /\ logs[i].bondId = History!NoId <=> logs[i].event = "BondTaken"
             /\ logs[i].tx \in 1..transactions
  <2>1. i \in 1..Len(logs) /\ Len(bonds) \in Nat /\ logs[i].tx \in 1..transactions
    BY LogsOfBonds
  <2>2. CASE logs[i].event = "BondTaken"
    <3>1. logs[i].bondId = History!NoId
      BY <2>1, <2>2, TakenThenOpened
    <3> QED
      BY <2>1, <2>2, <3>1 DEF History!NoId
  <2>3. CASE logs[i].event # "BondTaken"
    <3>1. logs[i].bondId \in 1..Len(bonds)
      BY <2>1, <2>3, LogsOfBonds
    <3> QED
      BY <2>1, <2>3, <3>1 DEF History!NoId
  <2> QED
    BY <2>2, <2>3
<1> QED
  BY <1>1 DEF HistoryInv, History!TypeOK, BondRecord

(* The events of the configured pool, among some places of the logs. *)
LEMMA EventPlaces ==
    ASSUME HistoryInv, NEW places \in SUBSET DOMAIN logs
    PROVE  /\ History!CollectBondEvents(places).opened
                  = {i \in places : logs[i].event = "BondOpened" /\ logs[i].pool = "configured"}
           /\ History!CollectBondEvents(places).settled
                  = {i \in places : logs[i].event = "BondSettled" /\ logs[i].pool = "configured"}
           /\ History!CollectBondEvents(places).taken
                  = {i \in places : logs[i].event = "BondTaken" /\ logs[i].pool = "configured"
                                    /\ logs[i].address = "hook"}
<1>1. \A i \in places : logs[i].event # "BondTaken" /\ logs[i].pool = "configured"
                            => logs[i].address = "hook"
  BY LogsOfBonds
<1> QED
  BY <1>1 DEF History!CollectBondEvents, History!Events, History!DecodeHookLog

(* The receipt of a transaction: the first BondTaken that matches the bond *)
(* chosen is that bond's own.  A BondTaken before it would be followed by  *)
(* the BondOpened of a bond of the same recipient, chosen instead.         *)
LEMMA OutcomesAreOwn == HistoryInv => History!OutcomeIsOwn
<1> SUFFICES ASSUME HistoryInv, NEW tx \in 1..transactions,
                    NEW recipients \in {{a} : a \in Accounts} \union {Accounts}
             PROVE  LET outcome == History!InterpretSwapReceipt(History!Receipt(tx), recipients)
                        own == {i \in History!Receipt(tx) :
                                   /\ logs[i].event = "BondOpened" /\ logs[i].pool = "configured"
                                   /\ logs[i].recipient \in recipients}
                    IN
                    /\ outcome.kind = "unbonded" <=> own = {}
                    /\ outcome.kind = "bonded" =>
                          \E e \in outcome.opened, t \in outcome.taken :
                              /\ e \in own
                              /\ logs[t].amount = bonds[logs[e].bondId].amount
                              /\ logs[t].currency = bonds[logs[e].bondId].currency
  BY DEF History!OutcomeIsOwn
<1> DEFINE places == History!Receipt(tx)
           events == History!CollectBondEvents(places)
           mine == {i \in events.opened : logs[i].recipient \in recipients}
           chosen == History!First(mine)
           candidates == {i \in events.taken : \E c \in chosen : /\ logs[i].recipient = logs[c].recipient
                                                                 /\ logs[i].leg = logs[c].leg}
           own == {i \in places : /\ logs[i].event = "BondOpened" /\ logs[i].pool = "configured"
                                  /\ logs[i].recipient \in recipients}
           outcome == History!InterpretSwapReceipt(places, recipients)
<1>1. outcome = [kind |-> IF mine = {} THEN "unbonded" ELSE "bonded", opened |-> chosen,
                 taken |-> History!First(candidates)]
  BY DEF History!InterpretSwapReceipt
<1>2. places = {i \in 1..Len(logs) : logs[i].tx = tx} /\ Len(logs) \in Nat
  BY LogsOfBonds DEF History!Receipt
<1> HIDE DEF places
<1>3. /\ events.opened = {i \in places : logs[i].event = "BondOpened" /\ logs[i].pool = "configured"}
      /\ events.taken = {i \in places : logs[i].event = "BondTaken" /\ logs[i].pool = "configured"
                                         /\ logs[i].address = "hook"}
  BY <1>2, EventPlaces, LogsOfBonds
<1> HIDE DEF events
<1>4. mine = own /\ mine \subseteq Nat
  BY <1>2, <1>3
<1>5. outcome.kind = "unbonded" <=> own = {}
  BY <1>1, <1>4
<1>6. ASSUME mine # {}
      PROVE  \E e \in chosen, t \in History!First(candidates) :
                 /\ e \in own
                 /\ logs[t].amount = bonds[logs[e].bondId].amount
                 /\ logs[t].currency = bonds[logs[e].bondId].currency
  <2>1. PICK e \in mine : chosen = {e}
    BY <1>4, <1>6, FirstPlace
  <2>2. \A o \in mine : e <= o
    BY <1>4, <2>1, FirstPlace
  <2> HIDE DEF mine, chosen
  <2>3. /\ e \in own /\ e \in 1..Len(logs) /\ logs[e].event = "BondOpened" /\ logs[e].tx = tx
        /\ logs[e].pool = "configured" /\ logs[e].recipient \in recipients
    BY <1>2, <1>4
  <2>4. /\ logs[e].pool = bonds[logs[e].bondId].pool /\ logs[e].leg = bonds[logs[e].bondId].leg
        /\ logs[e].recipient = bonds[logs[e].bondId].recipient
    BY <2>3, LogsOfBonds
  <2>5. candidates = {i \in events.taken : /\ logs[i].recipient = logs[e].recipient
                                           /\ logs[i].leg = logs[e].leg}
    BY <2>1
  <2>6. e - 1 \in candidates
    BY <1>2, <1>3, <2>3, <2>4, <2>5, TakenThenOpened
  <2> HIDE DEF candidates
  <2>7. candidates \subseteq 1..Len(logs) /\ candidates \subseteq Nat
    BY <1>2, <1>3, <2>5
  <2>8. PICK t \in candidates : History!First(candidates) = {t}
    BY <2>6, <2>7, FirstPlace
  <2>9. t <= e - 1
    BY <2>6, <2>7, <2>8, FirstPlace
  <2>10. /\ t \in 1..Len(logs) /\ logs[t].event = "BondTaken" /\ logs[t].tx = tx
         /\ logs[t].pool = "configured" /\ logs[t].recipient = logs[e].recipient
    BY <1>2, <1>3, <2>5, <2>8
  <2>11. /\ t + 1 \in 1..Len(logs) /\ logs[t + 1].event = "BondOpened" /\ logs[t + 1].tx = tx
         /\ logs[t].pool = bonds[logs[t + 1].bondId].pool
         /\ logs[t].recipient = bonds[logs[t + 1].bondId].recipient
         /\ logs[t].amount = bonds[logs[t + 1].bondId].amount
         /\ logs[t].currency = bonds[logs[t + 1].bondId].currency
    BY <2>10, TakenThenOpened
  <2>12. /\ logs[t + 1].pool = "configured" /\ logs[t + 1].recipient \in recipients
    BY <2>3, <2>10, <2>11, LogsOfBonds
  <2>13. t + 1 \in mine
    BY <1>2, <1>4, <2>11, <2>12
  <2>14. e = t + 1
    BY <2>2, <2>3, <2>9, <2>10, <2>13
  <2> QED
    BY <2>1, <2>3, <2>8, <2>11, <2>14
<1>7. /\ outcome.opened = chosen /\ outcome.taken = History!First(candidates)
      /\ outcome.kind = "bonded" => mine # {}
  BY <1>1
<1> HIDE DEF outcome, mine, chosen, candidates
<1>8. outcome.kind = "bonded" =>
          \E e \in outcome.opened, t \in outcome.taken :
              /\ e \in own
              /\ logs[t].amount = bonds[logs[e].bondId].amount
              /\ logs[t].currency = bonds[logs[e].bondId].currency
  BY <1>6, <1>7
<1> QED
  BY <1>5, <1>8 DEF outcome, places

(* The rows of an account. *)
LEMMA RowsOfAccount ==
    ASSUME HistoryInv, NEW a \in Accounts
    PROVE  History!RowIds(a)
               = {id \in 1..Len(bonds) : bonds[id].recipient = a /\ bonds[id].pool = "configured"}
<1> DEFINE opened == {i \in 1..Len(logs) : logs[i].event = "BondOpened" /\ logs[i].pool = "configured"
                                            /\ logs[i].recipient = a}
<1>1. History!RowIds(a) = {logs[i].bondId : i \in opened}
  BY EventPlaces, LogsOfBonds
     DEF History!RowIds, History!MineFromLogs, History!History, History!Window
<1>2. ASSUME NEW i \in opened
      PROVE  /\ logs[i].bondId \in 1..Len(bonds) /\ bonds[logs[i].bondId].recipient = a
             /\ bonds[logs[i].bondId].pool = "configured"
  BY LogsOfBonds
<1>3. ASSUME NEW id \in 1..Len(bonds), bonds[id].recipient = a, bonds[id].pool = "configured"
      PROVE  \E i \in opened : logs[i].bondId = id
  <2>1. PICK i \in 1..Len(logs) : logs[i].event = "BondOpened" /\ logs[i].bondId = id
    BY DEF HistoryInv
  <2> QED
    BY <1>3, <2>1, LogsOfBonds
<1> HIDE DEF opened
<1> QED
  BY <1>1, <1>2, <1>3

LEMMA RowsOwn == HistoryInv => History!RowsAreOwn
<1> SUFFICES ASSUME HistoryInv, NEW a \in Accounts
             PROVE  /\ History!RowIds(a) = {id \in DOMAIN bonds : bonds[id].recipient = a
                                                                 /\ bonds[id].pool = "configured"}
                    /\ \A id \in History!RowIds(a) :
                          /\ bonds[id].settled <=> History!SettlementOf(id) # {}
                          /\ \A i \in History!SettlementOf(id) :
                                logs[i].bondId = id /\ logs[i].amount = bonds[id].amount
  BY DEF History!RowsAreOwn
<1>1. DOMAIN bonds = 1..Len(bonds) /\ DOMAIN logs = 1..Len(logs) /\ Len(logs) \in Nat
  BY LogsOfBonds
<1>2. ASSUME NEW id \in History!RowIds(a)
      PROVE  /\ bonds[id].settled <=> History!SettlementOf(id) # {}
             /\ \A i \in History!SettlementOf(id) :
                   logs[i].bondId = id /\ logs[i].amount = bonds[id].amount
  <2> DEFINE places == {i \in 1..Len(logs) : /\ logs[i].event = "BondSettled"
                                             /\ logs[i].pool = "configured" /\ logs[i].bondId = id}
  <2>1. id \in 1..Len(bonds) /\ bonds[id].pool = "configured"
    BY RowsOfAccount
  <2>2. History!SettlementOf(id) = History!First(places)
    <3>1. History!SettlementOf(id) = History!First({i \in History!History.settled : logs[i].bondId = id})
      BY DEF History!SettlementOf
    <3>2. History!History.settled
              = {i \in 1..Len(logs) : logs[i].event = "BondSettled" /\ logs[i].pool = "configured"}
      BY <1>1, EventPlaces DEF History!History, History!Window
    <3>3. {i \in History!History.settled : logs[i].bondId = id} = places
      BY <3>2
    <3> QED
      BY <3>1, <3>3
  <2>3. bonds[id].settled <=> places # {}
    <3>1. bonds[id].settled <=> \E i \in 1..Len(logs) : logs[i].event = "BondSettled" /\ logs[i].bondId = id
      BY <2>1 DEF HistoryInv
    <3>2. \A i \in 1..Len(logs) : logs[i].event = "BondSettled" /\ logs[i].bondId = id
                                      => logs[i].pool = "configured"
      BY <2>1, LogsOfBonds
    <3> QED
      BY <3>1, <3>2
  <2>4. \A i \in places : logs[i].bondId = id /\ logs[i].amount = bonds[id].amount
    BY LogsOfBonds
  <2>5. places \in SUBSET Nat
    BY <1>1
  <2> HIDE DEF places
  <2> QED
    BY <2>2, <2>3, <2>4, <2>5, FirstPlace
<1> QED
  BY <1>1, <1>2, RowsOfAccount

(* The BondTaken that a row takes its currency from has the row's leg: it  *)
(* is followed by the BondOpened of a row of the account with that leg.    *)
LEMMA CurrencyOwn == HistoryInv => History!CurrencyUnlessLegsMeet
<1> SUFFICES ASSUME HistoryInv, NEW a \in Accounts, NEW id \in History!RowIds(a),
                    \A other \in History!RowIds(a) : bonds[other].leg = bonds[id].leg => other = id
             PROVE  History!CollateralCurrency(a, id) = bonds[id].currency
  BY DEF History!CurrencyUnlessLegsMeet
<1> DEFINE places == {i \in History!History.taken : logs[i].recipient = a /\ logs[i].leg = bonds[id].leg}
<1>1. DOMAIN logs = 1..Len(logs) /\ Len(logs) \in Nat
  BY LogsOfBonds
<1>2. places = {i \in 1..Len(logs) : /\ logs[i].event = "BondTaken" /\ logs[i].pool = "configured"
                                     /\ logs[i].address = "hook"
                                     /\ logs[i].recipient = a /\ logs[i].leg = bonds[id].leg}
  BY <1>1, EventPlaces DEF History!History, History!Window
<1>3. History!TakenEvent(a, id) = History!First(places)
  BY DEF History!TakenEvent
<1> HIDE DEF places
<1>4. places \in SUBSET Nat
  BY <1>1, <1>2
<1>5. CASE History!TakenEvent(a, id) = {}
  BY <1>5 DEF History!CollateralCurrency
<1>6. CASE History!TakenEvent(a, id) # {}
  <2> DEFINE t == CHOOSE i \in History!TakenEvent(a, id) : TRUE
  <2>1. t \in places
    BY <1>3, <1>4, <1>6, FirstPlace
  <2>2. History!CollateralCurrency(a, id) = logs[t].currency
    BY <1>6 DEF History!CollateralCurrency
  <2> HIDE DEF t
  <2>3. /\ t \in 1..Len(logs) /\ logs[t].event = "BondTaken" /\ logs[t].pool = "configured"
        /\ logs[t].recipient = a /\ logs[t].leg = bonds[id].leg
    BY <1>2, <2>1
  <2> DEFINE other == logs[t + 1].bondId
  <2>4. /\ other \in 1..Len(bonds) /\ bonds[other].pool = "configured" /\ bonds[other].recipient = a
        /\ bonds[other].leg = bonds[id].leg /\ logs[t].currency = bonds[other].currency
    BY <2>3, TakenThenOpened
  <2>5. other \in History!RowIds(a)
    BY <2>4, RowsOfAccount
  <2> QED
    BY <2>2, <2>4, <2>5
<1> QED
  BY <1>5, <1>6

(* What the client tells of a swap, a row or a settlement is of the very   *)
(* bond it is told of, though BondTaken carries no identifier and one      *)
(* transaction may carry any swaps and settlements of any recipients       *)
(* (bond.ts interpretSwapReceipt, useBonds.ts load).                       *)
THEOREM HistoryIsSafe == ClientSpec => []HistorySafe
<1>1. ClientInit => HistoryInv
  BY HistoryInit DEF ClientInit
<1>2. [ClientNext]_clientVars => [History!Next]_historyVars
  BY PartsMove
<1>3. HistoryInv /\ [ClientNext]_clientVars => HistoryInv'
  BY <1>2, HistoryNext
<1>4. HistoryInv => HistorySafe
  BY HistoryTyped, OutcomesAreOwn, RowsOwn, CurrencyOwn DEF HistorySafe, In, History!HistorySafe
<1> QED
  BY <1>1, <1>3, <1>4, PTL DEF ClientSpec
=============================================================================
