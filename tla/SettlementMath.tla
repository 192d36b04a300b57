---------------------------- MODULE SettlementMath ----------------------------
(***************************************************************************)
(* The arithmetic of a bond: the collateral curve of src/BondMeBro.sol and *)
(* the settlement of src/libraries/ModelL2SettlementLib.sol.  Rates are    *)
(* basis points of the variable leg, ticks are integers, and every         *)
(* division rounds the way the EVM does: toward zero.                      *)
(***************************************************************************)
EXTENDS Integers

CONSTANT LATE_WINDOW_BLOCKS  \* length of each late window: 2 in the code

ASSUME LateWindowAssumption == LATE_WINDOW_BLOCKS \in Nat \ {0}

BPS                 == 10000
MAX_BOND_BPS        == 100
SCALE               == 25    \* COLLATERAL_SCALE and SLASH_SCALE
SCALE_DENOMINATOR   == 100
DEAD_ZONE_TICKS     == 5

Abs(n)        == IF n < 0 THEN -n ELSE n
Least(a, b)   == IF a < b THEN a ELSE b
Largest(a, b) == IF a > b THEN a ELSE b

\* Solidity's signed division: toward zero, where \div rounds down.
TruncDiv(n, d) == IF n < 0 THEN -((-n) \div d) ELSE n \div d

\* A quarter of a basis point per tick, rounded up.
TickRate(ticks) == (ticks * SCALE + (SCALE_DENOMINATOR - 1)) \div SCALE_DENOMINATOR

-------------------------------------------------------------------------------
(* Opening: what a swap posts. *)

\* Mutant: only the swap's own movement is charged.
OwnImpactBps(tickBefore, tickAfter, blockStartTick) ==
    Least(TickRate(Abs(tickAfter - tickBefore)), MAX_BOND_BPS)

\* The larger of the swap's own movement and the block's displacement.
EffectiveCollateralBps(tickBefore, tickAfter, blockStartTick) ==
    Least(TickRate(Largest(Abs(tickAfter - tickBefore),
                           Abs(tickAfter - blockStartTick))),
          MAX_BOND_BPS)

CollateralOf(leg, bps) == (leg * bps) \div BPS

-------------------------------------------------------------------------------
(* Settlement: what of it is kept. *)

\* Mutant: the average is rounded down before its sign is taken.
AlignedRoundedFirst(cumStart, cumEnd, tickBefore, tickAfter) ==
    (IF tickAfter > tickBefore THEN 1 ELSE -1)
        * (((cumEnd - cumStart) - LATE_WINDOW_BLOCKS * tickBefore) \div LATE_WINDOW_BLOCKS)

\* Average displacement over one late window, in the swap's own direction.
\* The baseline is subtracted before the division.
AlignedLateWindow(cumStart, cumEnd, tickBefore, tickAfter) ==
    LET numerator == (cumEnd - cumStart) - LATE_WINDOW_BLOCKS * tickBefore
        sign      == IF tickAfter > tickBefore THEN 1 ELSE -1
    IN  TruncDiv(sign * numerator, LATE_WINDOW_BLOCKS)

\* Mutant: the windows are averaged, so that a negative one can cancel.
ResidualAverage(c6, c8, c10, tickBefore, tickAfter) ==
    Largest(0, TruncDiv(AlignedLateWindow(c6, c8, tickBefore, tickAfter)
                        + AlignedLateWindow(c8, c10, tickBefore, tickAfter), 2))

Residual(c6, c8, c10, tickBefore, tickAfter) ==
    Largest(0, Largest(AlignedLateWindow(c6, c8, tickBefore, tickAfter),
                       AlignedLateWindow(c8, c10, tickBefore, tickAfter)))

\* Mutant: there is no dead zone.
ChargeableFromFirstTick(r) == r

\* Mutant: the catch-up region is left out, so the charge jumps at the edge.
ChargeableWithoutCatchUp(r) == IF r <= DEAD_ZONE_TICKS THEN 0 ELSE r

\* Nothing up to five ticks, everything from ten, twice the excess between.
ChargeableResidual(r) ==
    CASE r <= DEAD_ZONE_TICKS    -> 0
      [] r >= 2 * DEAD_ZONE_TICKS -> r
      [] OTHER                   -> 2 * (r - DEAD_ZONE_TICKS)

SlashBpsFor(collateralBps, residual) ==
    Least(TickRate(ChargeableResidual(residual)), collateralBps)

\* Mutant: the slash is taken as a share of the rounded collateral.
SplitByRatio(leg, collateralBps, slashBps) ==
    LET collateral == CollateralOf(leg, collateralBps)
        slash      == (collateral * slashBps) \div collateralBps
    IN  [collateral |-> collateral, slash |-> slash, refund |-> collateral - slash]

\* Both amounts from the leg itself; the refund is what remains.
Split(leg, collateralBps, slashBps) ==
    LET collateral == CollateralOf(leg, collateralBps)
        slash      == Least(CollateralOf(leg, slashBps), collateral)
    IN  [collateral |-> collateral, slash |-> slash, refund |-> collateral - slash]

\* ModelL2SettlementLib.settle
Settlement(leg, collateralBps, tickBefore, tickAfter, c6, c8, c10) ==
    Split(leg, collateralBps,
          SlashBpsFor(collateralBps, Residual(c6, c8, c10, tickBefore, tickAfter)))
===============================================================================
