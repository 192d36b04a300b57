--------------------------- MODULE SettlementMathMC ---------------------------
(***************************************************************************)
(* The arithmetic of one bond, over every small price history: the swap is *)
(* chosen at the start, and the blocks of its two late windows then close  *)
(* one after the other.                                                    *)
(***************************************************************************)
EXTENDS SettlementMath, Sequences, FiniteSetsExt

CONSTANTS Legs, Rates, OpeningTicks, BlockStarts, ClosingTicks

ASSUME ValuesAssumption ==
    /\ Legs \subseteq Nat /\ Rates \subseteq Nat
    /\ OpeningTicks \subseteq Int /\ BlockStarts \subseteq Int /\ ClosingTicks \subseteq Int

VARIABLES
    leg, collateralBps,      \* the bond's variable leg and rate
    tickBefore, tickAfter,   \* prices around its swap
    blockStart,              \* price its block opened at
    closing                  \* closing ticks of its late windows so far

vars == <<leg, collateralBps, tickBefore, tickAfter, blockStart, closing>>

Init ==
    /\ leg \in Legs /\ collateralBps \in Rates
    /\ tickBefore \in OpeningTicks /\ tickAfter \in OpeningTicks
    /\ blockStart \in BlockStarts
    /\ closing = << >>

CloseBlock ==
    /\ Len(closing) < 2 * LATE_WINDOW_BLOCKS
    /\ \E t \in ClosingTicks : closing' = Append(closing, t)
    /\ UNCHANGED <<leg, collateralBps, tickBefore, tickAfter, blockStart>>

Spec == Init /\ [][CloseBlock]_vars

-------------------------------------------------------------------------------

Matured == Len(closing) = 2 * LATE_WINDOW_BLOCKS

\* The blocks of the w-th late window, and the sum of their closing ticks.
Window(w)       == (w - 1) * LATE_WINDOW_BLOCKS + 1 .. w * LATE_WINDOW_BLOCKS
WindowSum(s, w) == SumFunctionOnSet(s, Window(w))

\* Settlement of a bond at rate bps on prices s, scaled by sign: mirrored
\* prices are those the market shows with its two tokens swapped.
Settled(s, bps, sign) ==
    LET c8  == WindowSum(s, 1)
        c10 == c8 + WindowSum(s, 2)
    IN  Settlement(leg, bps, sign * tickBefore, sign * tickAfter, 0, sign * c8, sign * c10)

\* How far a tick lies beyond the opening price, in the swap's direction.
Beyond(t) == IF tickAfter > tickBefore THEN t - tickBefore ELSE tickBefore - t

\* A price that came back is refunded in full: if no late block closed more
\* than the dead zone beyond the opening price, nothing is kept, whatever
\* happened on the other side (residual, chargeableResidual).
ReturnedPriceRefunded ==
    Matured /\ (\A i \in DOMAIN closing : Beyond(closing[i]) <= DEAD_ZONE_TICKS)
        => Settled(closing, collateralBps, 1).slash = 0

\* A price that stayed is charged in full: if every block of one window closed
\* at least ten ticks beyond the opening price, the bond loses at least the
\* rate of that many ticks (or all of it), whatever the other window did.
PersistentMoveCharged ==
    Matured => \A n \in {2 * DEAD_ZONE_TICKS, 41} : \A w \in {0, LATE_WINDOW_BLOCKS} :
        (\A i \in 1 .. LATE_WINDOW_BLOCKS : Beyond(closing[w + i]) >= n)
            => Settled(closing, collateralBps, 1).slash >=
                   CollateralOf(leg, Least(TickRate(n), collateralBps))

\* Posting more collateral never makes the slash smaller, although both are
\* rounded (the comment on split gives the case a ratio would get wrong).
SlashMonotoneInRate ==
    Matured => Settled(closing, collateralBps, 1).slash
                   <= Settled(closing, collateralBps + 1, 1).slash

\* One more tick of lasting displacement never costs more than one basis
\* point of the leg: the charge has no cliff at the end of the dead zone.
NoCliff ==
    Matured =>
        LET worse == [i \in DOMAIN closing |->
                        closing[i] + IF tickAfter > tickBefore THEN 1 ELSE -1]
            extra == Settled(worse, collateralBps, 1).slash
                     - Settled(closing, collateralBps, 1).slash
        IN  extra \in 0 .. CollateralOf(leg, 1) + 1

\* Settlement does not depend on which token is called currency0: mirrored
\* prices settle the same bond the same way, rounding included, if its swap
\* moved the price.  A swap that did not is settled as one that moved it down,
\* mirrored or not, and is left out.
MirrorSymmetric ==
    Matured /\ tickAfter # tickBefore =>
        Settled(closing, collateralBps, 1) = Settled(closing, collateralBps, -1)

\* The last piece of a trade split within a block pays at least the rate of
\* the whole move, and never less than its own.
SplitTradePaysForTheBlock ==
    LET bps == EffectiveCollateralBps(tickBefore, tickAfter, blockStart)
    IN  /\ bps >= Least(TickRate(Abs(tickAfter - blockStart)), MAX_BOND_BPS)
        /\ bps >= Least(TickRate(Abs(tickAfter - tickBefore)), MAX_BOND_BPS)
        /\ bps \in 0 .. MAX_BOND_BPS
        /\ bps = 0 <=> tickAfter = tickBefore /\ tickAfter = blockStart

-------------------------------------------------------------------------------
(* Values for TLC: on and around the edges of the dead zone and of the cap. *)
TwoBlockStarts  == {-1, 401}
SixClosingTicks == {-14, 0, 5, 8, 9, 44}
===============================================================================
