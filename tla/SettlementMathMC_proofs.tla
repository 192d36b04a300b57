------------------------ MODULE SettlementMathMC_proofs ------------------------
(***************************************************************************)
(* What the settlement of a bond promises its owner and the pool, for      *)
(* every leg, rate and price history, and any length of the late windows.  *)
(***************************************************************************)
EXTENDS SettlementMathMC, SettlementMath_proofs

-------------------------------------------------------------------------------
(* Rates and amounts. *)

\* A larger share of a leg is no smaller amount.
LEMMA CollateralMonotone ==
    ASSUME NEW n \in Nat, NEW j \in Nat, NEW k \in Nat, j <= k
    PROVE  /\ CollateralOf(n, j) \in Nat /\ CollateralOf(n, k) \in Nat
           /\ CollateralOf(n, j) <= CollateralOf(n, k)
<1>1. PICK d \in Nat : k = j + d
  <2>1. k - j \in Nat /\ k = j + (k - j)
    OBVIOUS
  <2> QED
    BY <2>1
<1>2. /\ n * j \in Nat /\ n * d \in Nat
      /\ n * k = n * j + n * d
  BY <1>1
<1> QED
  BY <1>2 DEF CollateralOf, BPS

\* One more basis point costs one basis point of the leg, give or take the
\* unit that rounding may add.
LEMMA CollateralStep ==
    ASSUME NEW n \in Nat, NEW k \in Nat
    PROVE  CollateralOf(n, k + 1) - CollateralOf(n, k) \in 0 .. CollateralOf(n, 1) + 1
<1>1. n * k \in Nat /\ n * (k + 1) = n * k + n /\ n * 1 = n
  OBVIOUS
<1> QED
  BY <1>1 DEF CollateralOf, BPS

\* A share within the rate is what the split takes.
LEMMA SplitTakes ==
    ASSUME NEW n \in Nat, NEW bps \in Nat, NEW k \in 0 .. bps
    PROVE  Split(n, bps, k).slash = CollateralOf(n, k)
<1>1. k \in Nat /\ k <= bps
  OBVIOUS
<1>2. /\ CollateralOf(n, k) \in Nat /\ CollateralOf(n, bps) \in Nat
      /\ CollateralOf(n, k) <= CollateralOf(n, bps)
  BY <1>1, CollateralMonotone
<1> QED
  BY <1>2 DEF Split, Least

\* The charge between the dead zone and twice its width catches up, two ticks
\* per tick, and never falls.
LEMMA ChargeableSteps ==
    ASSUME NEW r \in Nat
    PROVE  /\ ChargeableResidual(r) \in Nat
           /\ r <= DEAD_ZONE_TICKS => ChargeableResidual(r) = 0
           /\ r >= 2 * DEAD_ZONE_TICKS => ChargeableResidual(r) = r
           /\ ChargeableResidual(r + 1) - ChargeableResidual(r) \in 0 .. 2
BY DEF ChargeableResidual, DEAD_ZONE_TICKS

\* One more tick of residual adds at most one basis point.
LEMMA SlashBpsSteps ==
    ASSUME NEW bps \in Nat, NEW r \in Nat
    PROVE  SlashBpsFor(bps, r + 1) - SlashBpsFor(bps, r) \in 0 .. 1
<1>1. PICK a \in Nat, b \in Nat : a = ChargeableResidual(r) /\ b = ChargeableResidual(r + 1)
  BY ChargeableSteps
<1>2. b - a \in 0 .. 2
  BY <1>1, ChargeableSteps
<1>3. TickRate(a) \in Nat /\ TickRate(b) \in Nat /\ TickRate(b) - TickRate(a) \in 0 .. 1
  BY <1>2 DEF TickRate, SCALE, SCALE_DENOMINATOR
<1> QED
  BY <1>1, <1>3 DEF SlashBpsFor, Least

-------------------------------------------------------------------------------
(* Windows. *)

\* How far the price lay beyond the opening price, block by block.
Beyonds(s) == [i \in 1 .. 2 * LATE_WINDOW_BLOCKS |-> Beyond(s[i])]

\* Its truncated average over the w-th late window, and the larger of the two
\* if it is positive.
Average(s, w) == TruncDiv(SumFunctionOnSet(Beyonds(s), Window(w)), LATE_WINDOW_BLOCKS)
Worst(s)      == Largest(0, Largest(Average(s, 1), Average(s, 2)))

\* The two windows, and how many blocks they have.
LEMMA WindowFacts ==
    ASSUME NEW w \in {1, 2}
    PROVE  /\ LATE_WINDOW_BLOCKS \in Nat \ {0}
           /\ Window(w) \subseteq 1 .. 2 * LATE_WINDOW_BLOCKS
           /\ IsFiniteSet(Window(w))
           /\ Cardinality(Window(w)) = LATE_WINDOW_BLOCKS
<1>1. PICK L \in Nat \ {0} : L = LATE_WINDOW_BLOCKS
  BY LateWindowAssumption
<1>2. CASE w = 1
  <2>1. Window(w) = 1 .. L
    BY <1>1, <1>2 DEF Window
  <2>2. IsFiniteSet(1 .. L) /\ Cardinality(1 .. L) = L
    BY FS_Interval
  <2> QED
    BY <1>1, <2>1, <2>2
<1>3. CASE w = 2
  <2>1. Window(w) = L + 1 .. 2 * L
    BY <1>1, <1>3 DEF Window
  <2>2. IsFiniteSet(L + 1 .. 2 * L) /\ Cardinality(L + 1 .. 2 * L) = L
    BY FS_Interval
  <2> QED
    BY <1>1, <2>1, <2>2
<1> QED
  BY <1>2, <1>3

Typed ==
    /\ leg \in Nat /\ collateralBps \in Nat
    /\ tickBefore \in Int /\ tickAfter \in Int /\ blockStart \in Int
    /\ closing \in Seq(Int)

\* A price history, complete.
History(s) == \A i \in 1 .. 2 * LATE_WINDOW_BLOCKS : s[i] \in Int

LEMMA BeyondsType ==
    ASSUME Typed, NEW s, History(s), NEW w \in {1, 2}
    PROVE  /\ \A i \in Window(w) : /\ s[i] \in Int
                                   /\ Beyonds(s)[i] = Beyond(s[i])
                                   /\ Beyond(s[i]) \in Int
           /\ WindowSum(s, w) \in Int
           /\ SumFunctionOnSet(Beyonds(s), Window(w)) \in Int
<1>1. /\ IsFiniteSet(Window(w))
      /\ Window(w) \subseteq 1 .. 2 * LATE_WINDOW_BLOCKS
  BY WindowFacts
<1>2. \A i \in Window(w) : s[i] \in Int
  BY <1>1 DEF History
<1>3. \A i \in Window(w) : Beyond(s[i]) \in Int /\ Beyonds(s)[i] = Beyond(s[i])
  BY <1>1, <1>2 DEF Beyond, Beyonds, Typed
<1>4. \A i \in Window(w) : Beyonds(s)[i] \in Int
  BY <1>3
<1> QED
  BY <1>1, <1>2, <1>3, <1>4, SumType DEF WindowSum

\* Subtracting the baseline from the sum, and then taking the sign, is summing
\* what lies beyond the opening price.
LEMMA WindowAligned ==
    ASSUME Typed, NEW s, History(s), NEW w \in {1, 2}, NEW c \in Int
    PROVE  /\ Average(s, w) \in Int
           /\ AlignedLateWindow(c, c + WindowSum(s, w), tickBefore, tickAfter) = Average(s, w)
<1>1. PICK L \in Nat \ {0} : L = LATE_WINDOW_BLOCKS
  BY LateWindowAssumption
<1> DEFINE W == Window(w)
           base == [i \in W |-> tickBefore]
           A == SumFunctionOnSet(s, W)
           B == SumFunctionOnSet(Beyonds(s), W)
           C == SumFunctionOnSet(base, W)
<1>2. IsFiniteSet(W) /\ Cardinality(W) = L
  BY <1>1, WindowFacts
<1>3. /\ \A i \in W : /\ s[i] \in Int /\ Beyonds(s)[i] = Beyond(s[i]) /\ Beyond(s[i]) \in Int
      /\ A \in Int /\ B \in Int
  BY BeyondsType DEF WindowSum
<1>4. \A i \in W : base[i] = tickBefore
  OBVIOUS
<1>5. tickBefore \in Int /\ tickAfter \in Int
  BY DEF Typed
<1> HIDE DEF W, base
<1>6. C = L * tickBefore /\ C \in Int
  BY <1>2, <1>4, <1>5, SumOfConstant
<1>7. CASE tickAfter > tickBefore
  <2>1. \A i \in W : base[i] \in Int /\ Beyonds(s)[i] \in Int /\ s[i] = base[i] + Beyonds(s)[i]
    BY <1>3, <1>4, <1>5, <1>7 DEF Beyond
  <2>2. A = C + B
    BY <1>2, <2>1, SumOfSums
  <2> HIDE DEF A, B, C
  <2>3. 1 * (((c + A) - c) - L * tickBefore) = B
    BY <1>3, <1>6, <2>2
  <2> QED
    BY <1>1, <1>3, <1>7, <2>3, TruncDivBounds DEF AlignedLateWindow, Average, WindowSum, A, B, W
<1>8. CASE ~(tickAfter > tickBefore)
  <2>1. \A i \in W : s[i] \in Int /\ Beyonds(s)[i] \in Int /\ base[i] = s[i] + Beyonds(s)[i]
    BY <1>3, <1>4, <1>5, <1>8 DEF Beyond
  <2>2. C = A + B
    BY <1>2, <2>1, SumOfSums
  <2> HIDE DEF A, B, C
  <2>3. (-1) * (((c + A) - c) - L * tickBefore) = B
    BY <1>3, <1>6, <2>2
  <2> QED
    BY <1>1, <1>3, <1>8, <2>3, TruncDivBounds DEF AlignedLateWindow, Average, WindowSum, A, B, W
<1> QED
  BY <1>7, <1>8

\* A settlement, in terms of what lies beyond the opening price.
LEMMA SettledReads ==
    ASSUME Typed, NEW s, History(s), NEW bps \in Nat
    PROVE  /\ Worst(s) \in Nat
           /\ SlashBpsFor(bps, Worst(s)) \in 0 .. bps
           /\ Settled(s, bps, 1).slash = CollateralOf(leg, SlashBpsFor(bps, Worst(s)))
<1>1. PICK a \in Int, b \in Int : a = WindowSum(s, 1) /\ b = WindowSum(s, 2)
  BY BeyondsType
<1>2. /\ Average(s, 1) \in Int /\ Average(s, 2) \in Int
      /\ AlignedLateWindow(0, 0 + a, tickBefore, tickAfter) = Average(s, 1)
      /\ AlignedLateWindow(a, a + b, tickBefore, tickAfter) = Average(s, 2)
  BY <1>1, WindowAligned
<1>3. Worst(s) \in Nat
  BY <1>2 DEF Worst, Largest
<1>4. SlashBpsFor(bps, Worst(s)) \in 0 .. bps
  BY <1>3, SlashBpsWithinRate
<1>5. Residual(0, a, a + b, tickBefore, tickAfter) = Worst(s)
  BY <1>2 DEF Residual, Worst
<1>6. Settled(s, bps, 1) = Settlement(leg, bps, tickBefore, tickAfter, 0, a, a + b)
  BY <1>1 DEF Settled, Typed
<1>7. Settled(s, bps, 1) = Split(leg, bps, SlashBpsFor(bps, Worst(s)))
  BY <1>5, <1>6 DEF Settlement
<1> QED
  BY <1>3, <1>4, <1>7, SplitTakes DEF Typed

\* An average lies within the bounds of what it averages.
LEMMA AverageAtMost ==
    ASSUME Typed, NEW s, History(s), NEW w \in {1, 2}, NEW k \in Nat,
           \A i \in Window(w) : Beyond(s[i]) <= k
    PROVE  Average(s, w) <= k
<1> DEFINE W == Window(w)
           f == [i \in W |-> k]
<1>1. \A i \in W : f[i] = k
  OBVIOUS
<1>2. /\ IsFiniteSet(W) /\ Cardinality(W) = LATE_WINDOW_BLOCKS
      /\ LATE_WINDOW_BLOCKS \in Nat \ {0}
  BY WindowFacts
<1>3. /\ \A i \in W : Beyonds(s)[i] \in Int /\ Beyonds(s)[i] <= k
      /\ SumFunctionOnSet(Beyonds(s), W) \in Int
  BY BeyondsType
<1> HIDE DEF f
<1>4. SumFunctionOnSet(Beyonds(s), W) <= SumFunctionOnSet(f, W)
  BY <1>1, <1>2, <1>3, SumMonotone
<1>5. SumFunctionOnSet(f, W) = LATE_WINDOW_BLOCKS * k
  BY <1>1, <1>2, SumOfConstant
<1>6. LATE_WINDOW_BLOCKS * k = k * LATE_WINDOW_BLOCKS
  BY <1>2
<1> QED
  BY <1>2, <1>3, <1>4, <1>5, <1>6, TruncDivAtMost DEF Average

LEMMA AverageAtLeast ==
    ASSUME Typed, NEW s, History(s), NEW w \in {1, 2}, NEW k \in Nat,
           \A i \in Window(w) : Beyond(s[i]) >= k
    PROVE  Average(s, w) >= k
<1> DEFINE W == Window(w)
           f == [i \in W |-> k]
<1>1. \A i \in W : f[i] = k
  OBVIOUS
<1>2. /\ IsFiniteSet(W) /\ Cardinality(W) = LATE_WINDOW_BLOCKS
      /\ LATE_WINDOW_BLOCKS \in Nat \ {0}
  BY WindowFacts
<1>3. /\ \A i \in W : Beyonds(s)[i] \in Int /\ k <= Beyonds(s)[i]
      /\ SumFunctionOnSet(Beyonds(s), W) \in Int
  BY BeyondsType
<1> HIDE DEF f
<1>4. SumFunctionOnSet(f, W) <= SumFunctionOnSet(Beyonds(s), W)
  BY <1>1, <1>2, <1>3, SumMonotone
<1>5. SumFunctionOnSet(f, W) = LATE_WINDOW_BLOCKS * k
  BY <1>1, <1>2, SumOfConstant
<1>6. LATE_WINDOW_BLOCKS * k = k * LATE_WINDOW_BLOCKS
  BY <1>2
<1> QED
  BY <1>2, <1>3, <1>4, <1>5, <1>6, TruncDivAtLeast DEF Average

\* Prices one tick further from the opening price raise each average, and the
\* worse of the two, by one tick at most.
LEMMA AverageShift ==
    ASSUME Typed, NEW s, History(s), NEW t, History(t),
           \A i \in 1 .. 2 * LATE_WINDOW_BLOCKS : Beyond(t[i]) = Beyond(s[i]) + 1,
           NEW w \in {1, 2}
    PROVE  Average(t, w) - Average(s, w) \in 0 .. 1
<1> DEFINE W == Window(w)
           one == [i \in W |-> 1]
<1>1. \A i \in W : one[i] = 1
  OBVIOUS
<1>2. /\ IsFiniteSet(W) /\ Cardinality(W) = LATE_WINDOW_BLOCKS
      /\ W \subseteq 1 .. 2 * LATE_WINDOW_BLOCKS
      /\ LATE_WINDOW_BLOCKS \in Nat \ {0}
  BY WindowFacts
<1>3. /\ \A i \in W : Beyonds(s)[i] = Beyond(s[i]) /\ Beyond(s[i]) \in Int
      /\ SumFunctionOnSet(Beyonds(s), W) \in Int
  BY BeyondsType
<1>4. \A i \in W : Beyonds(t)[i] = Beyond(t[i])
  BY BeyondsType
<1>5. \A i \in W : Beyonds(t)[i] = Beyonds(s)[i] + 1
  BY <1>2, <1>3, <1>4
<1> HIDE DEF one, W
<1>6. \A i \in W : /\ Beyonds(s)[i] \in Int /\ one[i] \in Int
                   /\ Beyonds(t)[i] = Beyonds(s)[i] + one[i]
  BY <1>1, <1>3, <1>5
<1>7. SumFunctionOnSet(Beyonds(t), W)
        = SumFunctionOnSet(Beyonds(s), W) + SumFunctionOnSet(one, W)
  <2>1. PICK f : f = Beyonds(s)
    OBVIOUS
  <2>2. PICK g : g = one
    OBVIOUS
  <2>3. PICK h : h = Beyonds(t)
    OBVIOUS
  <2>4. \A i \in W : f[i] \in Int /\ g[i] \in Int /\ h[i] = f[i] + g[i]
    BY <1>6, <2>1, <2>2, <2>3
  <2>5. IsFiniteSet(W)
    BY <1>2
  <2>6. SumFunctionOnSet(h, W) = SumFunctionOnSet(f, W) + SumFunctionOnSet(g, W)
    BY <2>4, <2>5, SumOfSums
  <2> QED
    BY <2>1, <2>2, <2>3, <2>6
<1>8. SumFunctionOnSet(one, W) = LATE_WINDOW_BLOCKS
  <2>1. SumFunctionOnSet(one, W) = Cardinality(W) * 1
    BY <1>1, <1>2, 1 \in Int, SumOfConstant
  <2> QED
    BY <1>2, <2>1
<1> QED
  BY <1>2, <1>3, <1>7, <1>8, TruncDivShift DEF Average, W

LEMMA WorstShift ==
    ASSUME Typed, NEW s, History(s), NEW t, History(t),
           \A i \in 1 .. 2 * LATE_WINDOW_BLOCKS : Beyond(t[i]) = Beyond(s[i]) + 1
    PROVE  Worst(t) = Worst(s) \/ Worst(t) = Worst(s) + 1
<1>1. \A w \in {1, 2} : Average(t, w) - Average(s, w) \in 0 .. 1
  BY AverageShift
<1>2. \A w \in {1, 2} : Average(s, w) \in Int /\ Average(t, w) \in Int
  BY 0 \in Int, WindowAligned
<1>3. PICK a \in Int, b \in Int, c \in Int, d \in Int :
          a = Average(s, 1) /\ b = Average(s, 2) /\ c = Average(t, 1) /\ d = Average(t, 2)
  BY <1>2
<1>4. c - a \in 0 .. 1 /\ d - b \in 0 .. 1
  BY <1>1, <1>3
<1> QED
  BY <1>3, <1>4 DEF Worst, Largest

-------------------------------------------------------------------------------
(* Every state reached. *)

Run == Typed /\ Len(closing) <= 2 * LATE_WINDOW_BLOCKS

LEMMA Running == Spec => []Run
<1>1. Init => Run
  <2> SUFFICES ASSUME Init PROVE Run
    OBVIOUS
  <2>1. closing = << >> /\ Len(closing) = 0 /\ closing \in Seq(Int)
    BY DEF Init
  <2> QED
    BY <2>1, ValuesAssumption, LateWindowAssumption DEF Init, Run, Typed
<1>2. Run /\ [CloseBlock]_vars => Run'
  <2> SUFFICES ASSUME Run, [CloseBlock]_vars PROVE Run'
    OBVIOUS
  <2>1. CASE CloseBlock
    <3>1. PICK t \in ClosingTicks : closing' = Append(closing, t)
      BY <2>1 DEF CloseBlock
    <3>2. t \in Int
      BY ValuesAssumption
    <3>3. closing' \in Seq(Int) /\ Len(closing') = Len(closing) + 1
      BY <3>1, <3>2 DEF Run, Typed
    <3> QED
      BY <2>1, <3>3, LateWindowAssumption DEF CloseBlock, Run, Typed
  <2>2. CASE UNCHANGED vars
    BY <2>2 DEF vars, Run, Typed
  <2> QED
    BY <2>1, <2>2
<1> QED
  BY <1>1, <1>2, PTL DEF Spec

LEMMA MaturedHistory ==
    ASSUME Run, Matured
    PROVE  /\ Typed
           /\ DOMAIN closing = 1 .. 2 * LATE_WINDOW_BLOCKS
           /\ History(closing)
<1>1. closing \in Seq(Int) /\ Len(closing) = 2 * LATE_WINDOW_BLOCKS
  BY DEF Run, Typed, Matured
<1>2. /\ DOMAIN closing = 1 .. Len(closing)
      /\ \A i \in 1 .. Len(closing) : closing[i] \in Int
  BY <1>1
<1> QED
  BY <1>1, <1>2 DEF Run, History

-------------------------------------------------------------------------------
(* What settlement promises. *)

\* A price that came back is refunded in full (residual, chargeableResidual).
THEOREM ReturnIsRefunded == Spec => []ReturnedPriceRefunded
<1>1. Run => ReturnedPriceRefunded
  <2> SUFFICES ASSUME Run, Matured,
                      \A i \in DOMAIN closing : Beyond(closing[i]) <= DEAD_ZONE_TICKS
               PROVE  Settled(closing, collateralBps, 1).slash = 0
    BY DEF ReturnedPriceRefunded
  <2>1. Typed /\ History(closing) /\ DOMAIN closing = 1 .. 2 * LATE_WINDOW_BLOCKS
    BY MaturedHistory
  <2>2. DEAD_ZONE_TICKS \in Nat
    BY DEF DEAD_ZONE_TICKS
  <2>3. \A w \in {1, 2} : \A i \in Window(w) : Beyond(closing[i]) <= DEAD_ZONE_TICKS
    BY <2>1, WindowFacts
  <2>4. \A w \in {1, 2} : Average(closing, w) <= DEAD_ZONE_TICKS
    BY <2>1, <2>2, <2>3, AverageAtMost
  <2>5. \A w \in {1, 2} : Average(closing, w) \in Int
    BY <2>1, 0 \in Int, WindowAligned
  <2>6. collateralBps \in Nat /\ leg \in Nat
    BY <2>1 DEF Typed
  <2>7. /\ Worst(closing) \in Nat
        /\ Settled(closing, collateralBps, 1).slash
             = CollateralOf(leg, SlashBpsFor(collateralBps, Worst(closing)))
    BY <2>1, <2>6, SettledReads
  <2>8. Worst(closing) <= DEAD_ZONE_TICKS
    BY <2>2, <2>4, <2>5 DEF Worst, Largest
  <2>9. ChargeableResidual(Worst(closing)) = 0
    BY <2>7, <2>8, ChargeableSteps
  <2>10. SlashBpsFor(collateralBps, Worst(closing)) = 0
    BY <2>6, <2>9, TickRateType DEF SlashBpsFor, Least
  <2>11. CollateralOf(leg, 0) = 0
    BY <2>6 DEF CollateralOf, BPS
  <2> QED
    BY <2>7, <2>10, <2>11
<1> QED
  BY <1>1, Running, PTL

\* A price that stayed through one of the windows is charged in full.
THEOREM PersistenceIsCharged == Spec => []PersistentMoveCharged
<1>1. Run => PersistentMoveCharged
  <2> SUFFICES ASSUME Run, Matured,
                      NEW n \in {2 * DEAD_ZONE_TICKS, 41}, NEW start \in {0, LATE_WINDOW_BLOCKS},
                      \A i \in 1 .. LATE_WINDOW_BLOCKS : Beyond(closing[start + i]) >= n
               PROVE  Settled(closing, collateralBps, 1).slash >=
                          CollateralOf(leg, Least(TickRate(n), collateralBps))
    BY DEF PersistentMoveCharged
  <2>1. Typed /\ History(closing)
    BY MaturedHistory
  <2>2. n \in Nat /\ n >= 2 * DEAD_ZONE_TICKS
    BY DEF DEAD_ZONE_TICKS
  <2>3. PICK L \in Nat \ {0} : L = LATE_WINDOW_BLOCKS
    BY LateWindowAssumption
  <2>4. PICK w \in {1, 2} : Window(w) = start + 1 .. start + L
    <3>1. Window(1) = 0 + 1 .. 0 + L /\ Window(2) = L + 1 .. L + L
      BY <2>3 DEF Window
    <3> QED
      BY <2>3, <3>1
  <2>5. \A i \in Window(w) : Beyond(closing[i]) >= n
    <3> TAKE i \in Window(w)
    <3>1. i - start \in 1 .. L /\ start + (i - start) = i
      BY <2>3, <2>4
    <3> QED
      BY <2>3, <3>1
  <2>6. Average(closing, w) >= n
    BY <2>1, <2>2, <2>5, AverageAtLeast
  <2>7. Average(closing, 1) \in Int /\ Average(closing, 2) \in Int
    BY <2>1, 0 \in Int, WindowAligned
  <2>8. collateralBps \in Nat /\ leg \in Nat
    BY <2>1 DEF Typed
  <2>9. PICK r \in Nat : r = Worst(closing)
    BY <2>1, <2>8, SettledReads
  <2>10. r >= n
    <3>1. w = 1 \/ w = 2
      OBVIOUS
    <3> QED
      BY <2>2, <2>6, <2>7, <2>9, <3>1 DEF Worst, Largest
  <2>11. ChargeableResidual(r) = r
    <3>1. 2 * DEAD_ZONE_TICKS = 10
      BY DEF DEAD_ZONE_TICKS
    <3> QED
      BY <2>2, <2>10, <3>1, ChargeableSteps
  <2>12. TickRate(n) \in Nat /\ TickRate(r) \in Nat /\ TickRate(n) <= TickRate(r)
    BY <2>2, <2>10, TickRateType, TickRateMonotone
  <2>13. /\ Least(TickRate(n), collateralBps) \in Nat
         /\ SlashBpsFor(collateralBps, r) \in Nat
         /\ Least(TickRate(n), collateralBps) <= SlashBpsFor(collateralBps, r)
    BY <2>8, <2>11, <2>12 DEF SlashBpsFor, Least
  <2>14. /\ CollateralOf(leg, Least(TickRate(n), collateralBps)) \in Nat
         /\ CollateralOf(leg, SlashBpsFor(collateralBps, r)) \in Nat
         /\ CollateralOf(leg, Least(TickRate(n), collateralBps))
             <= CollateralOf(leg, SlashBpsFor(collateralBps, r))
    BY <2>8, <2>13, CollateralMonotone
  <2>15. Settled(closing, collateralBps, 1).slash = CollateralOf(leg, SlashBpsFor(collateralBps, r))
    BY <2>1, <2>8, <2>9, SettledReads
  <2> QED
    BY <2>14, <2>15
<1> QED
  BY <1>1, Running, PTL

\* Posting more collateral never makes the slash smaller (the comment on split).
THEOREM SlashIsMonotone == Spec => []SlashMonotoneInRate
<1>1. Run => SlashMonotoneInRate
  <2> SUFFICES ASSUME Run, Matured
               PROVE  Settled(closing, collateralBps, 1).slash
                          <= Settled(closing, collateralBps + 1, 1).slash
    BY DEF SlashMonotoneInRate
  <2>1. Typed /\ History(closing)
    BY MaturedHistory
  <2>2. collateralBps \in Nat /\ collateralBps + 1 \in Nat /\ leg \in Nat
    BY <2>1 DEF Typed
  <2>3. PICK r \in Nat : r = Worst(closing)
    BY <2>1, <2>2, SettledReads
  <2>4. TickRate(ChargeableResidual(r)) \in Nat
    BY ChargeableSteps, TickRateType
  <2>5. /\ SlashBpsFor(collateralBps, r) \in Nat /\ SlashBpsFor(collateralBps + 1, r) \in Nat
        /\ SlashBpsFor(collateralBps, r) <= SlashBpsFor(collateralBps + 1, r)
    BY <2>2, <2>4 DEF SlashBpsFor, Least
  <2>6. CollateralOf(leg, SlashBpsFor(collateralBps, r))
          <= CollateralOf(leg, SlashBpsFor(collateralBps + 1, r))
    BY <2>2, <2>5, CollateralMonotone
  <2> QED
    BY <2>1, <2>2, <2>3, <2>6, SettledReads
<1> QED
  BY <1>1, Running, PTL

\* One more tick of lasting displacement costs at most one basis point, and
\* never less than nothing (the catch-up of chargeableResidual).
THEOREM ChargeHasNoCliff == Spec => []NoCliff
<1>1. Run => NoCliff
  <2> DEFINE worse == [i \in DOMAIN closing |->
                         closing[i] + IF tickAfter > tickBefore THEN 1 ELSE -1]
  <2> SUFFICES ASSUME Run, Matured
               PROVE  Settled(worse, collateralBps, 1).slash
                        - Settled(closing, collateralBps, 1).slash
                          \in 0 .. CollateralOf(leg, 1) + 1
    BY DEF NoCliff
  <2>1. Typed /\ History(closing) /\ DOMAIN closing = 1 .. 2 * LATE_WINDOW_BLOCKS
    BY MaturedHistory
  <2>2. /\ collateralBps \in Nat /\ leg \in Nat
        /\ tickBefore \in Int /\ tickAfter \in Int
    BY <2>1 DEF Typed
  <2>3. \A i \in 1 .. 2 * LATE_WINDOW_BLOCKS :
            worse[i] = closing[i] + IF tickAfter > tickBefore THEN 1 ELSE -1
    BY <2>1
  <2>4. \A i \in 1 .. 2 * LATE_WINDOW_BLOCKS :
            worse[i] \in Int /\ Beyond(worse[i]) = Beyond(closing[i]) + 1
    BY <2>1, <2>2, <2>3 DEF History, Beyond
  <2>5. PICK t : t = worse
    OBVIOUS
  <2>6. History(t) /\ \A i \in 1 .. 2 * LATE_WINDOW_BLOCKS : Beyond(t[i]) = Beyond(closing[i]) + 1
    BY <2>4, <2>5 DEF History
  <2> HIDE DEF worse
  <2>7. PICK r \in Nat, q \in Nat : r = Worst(closing) /\ q = Worst(t)
    BY <2>1, <2>2, <2>6, SettledReads
  <2>8. q = r \/ q = r + 1
    <3>1. Worst(t) = Worst(closing) \/ Worst(t) = Worst(closing) + 1
      <4>1. PICK s : s = closing
        OBVIOUS
      <4>2. /\ History(s) /\ History(t)
            /\ \A i \in 1 .. 2 * LATE_WINDOW_BLOCKS : Beyond(t[i]) = Beyond(s[i]) + 1
        BY <2>1, <2>6, <4>1
      <4>3. Worst(t) = Worst(s) \/ Worst(t) = Worst(s) + 1
        BY <2>1, <4>2, WorstShift
      <4> QED
        BY <4>1, <4>3
    <3>2. CASE Worst(t) = Worst(closing)
      BY <2>7, <3>2, Zenon
    <3>3. CASE Worst(t) = Worst(closing) + 1
      BY <2>7, <3>3, Zenon
    <3> QED
      BY <3>1, <3>2, <3>3
  <2>9. PICK j \in Nat, k \in Nat : j = SlashBpsFor(collateralBps, r) /\ k = SlashBpsFor(collateralBps, q)
    <3>1. \A n \in Nat : SlashBpsFor(collateralBps, n) \in Nat
      BY <2>2, SlashBpsWithinRate
    <3> QED
      BY <3>1
  <2>10. k = j \/ k = j + 1
    <3>1. CASE q = r
      BY <2>9, <3>1
    <3>2. CASE q = r + 1
      <4>1. k - j \in 0 .. 1
        BY <2>2, <2>9, <3>2, SlashBpsSteps
      <4> QED
        BY <4>1
    <3> QED
      BY <2>8, <3>1, <3>2
  <2>11. /\ CollateralOf(leg, j) \in Nat /\ CollateralOf(leg, k) \in Nat
         /\ CollateralOf(leg, 1) \in Nat
    <3>1. \A n \in Nat : CollateralOf(leg, n) \in Nat
      BY <2>2, CollateralMonotone
    <3> QED
      BY <3>1
  <2>12. CollateralOf(leg, k) - CollateralOf(leg, j) \in 0 .. CollateralOf(leg, 1) + 1
    <3>1. CASE k = j
      BY <2>11, <3>1
    <3>2. CASE k = j + 1
      BY <2>2, <3>2, CollateralStep
    <3> QED
      BY <2>10, <3>1, <3>2
  <2>13. /\ Settled(closing, collateralBps, 1).slash = CollateralOf(leg, j)
         /\ Settled(t, collateralBps, 1).slash = CollateralOf(leg, k)
    BY <2>1, <2>2, <2>6, <2>7, <2>9, SettledReads
  <2> QED
    BY <2>5, <2>12, <2>13
<1> QED
  BY <1>1, Running, PTL

\* Mirrored prices give the same averages: the sign is taken before the
\* division, which truncates.
LEMMA MirroredWindow ==
    ASSUME NEW c \in Int, NEW d \in Int, NEW before \in Int, NEW after \in Int, before # after,
           NEW e \in Int, NEW f \in Int, c + e = 0, d + f = 0
    PROVE  AlignedLateWindow(e, f, -before, -after) = AlignedLateWindow(c, d, before, after)
<1>1. PICK L \in Nat \ {0} : L = LATE_WINDOW_BLOCKS
  BY LateWindowAssumption
<1>2. L * before \in Int /\ L * (-before) = -(L * before)
  OBVIOUS
<1>3. PICK n \in Int : n = (d - c) - L * before
  BY <1>2
<1>4. (f - e) - L * (-before) = -n
  BY <1>2, <1>3
<1>5. -after > -before <=> ~(after > before)
  OBVIOUS
<1>6. 1 * n = (-1) * (-n) /\ 1 * (-n) = (-1) * n
  OBVIOUS
<1> QED
  BY <1>1, <1>3, <1>4, <1>5, <1>6 DEF AlignedLateWindow

\* Settlement does not depend on which token is called currency0.
THEOREM SettlementIsSymmetric == Spec => []MirrorSymmetric
<1>1. Run => MirrorSymmetric
  <2> SUFFICES ASSUME Run, Matured, tickAfter # tickBefore
               PROVE  Settled(closing, collateralBps, 1) = Settled(closing, collateralBps, -1)
    BY DEF MirrorSymmetric
  <2>1. Typed /\ History(closing)
    BY MaturedHistory
  <2>2. PICK a \in Int, b \in Int : a = WindowSum(closing, 1) /\ b = WindowSum(closing, 2)
    BY <2>1, BeyondsType
  <2>3. tickBefore \in Int /\ tickAfter \in Int
    BY <2>1 DEF Typed
  <2>4. PICK c \in Int : c = a + b
    OBVIOUS
  <2>5. /\ 1 * tickBefore = tickBefore /\ 1 * tickAfter = tickAfter /\ 1 * a = a /\ 1 * c = c
        /\ (-1) * tickBefore = -tickBefore /\ (-1) * tickAfter = -tickAfter
        /\ (-1) * a = -a /\ (-1) * c = -c
    <3>1. 1 * tickBefore = tickBefore /\ (-1) * tickBefore = -tickBefore
      BY <2>3
    <3>2. 1 * tickAfter = tickAfter /\ (-1) * tickAfter = -tickAfter
      BY <2>3
    <3>3. 1 * a = a /\ (-1) * a = -a /\ 1 * c = c /\ (-1) * c = -c
      OBVIOUS
    <3> QED
      BY <3>1, <3>2, <3>3
  <2>6. /\ AlignedLateWindow(0, -a, -tickBefore, -tickAfter)
             = AlignedLateWindow(0, a, tickBefore, tickAfter)
        /\ AlignedLateWindow(-a, -c, -tickBefore, -tickAfter)
             = AlignedLateWindow(a, c, tickBefore, tickAfter)
    <3>1. 0 + 0 = 0 /\ a + (-a) = 0 /\ c + (-c) = 0 /\ -a \in Int /\ -c \in Int
      OBVIOUS
    <3> QED
      BY <2>3, <3>1, MirroredWindow
  <2>7. Residual(0, -a, -c, -tickBefore, -tickAfter) = Residual(0, a, c, tickBefore, tickAfter)
    BY <2>6 DEF Residual
  <2>8. /\ Settled(closing, collateralBps, 1)
             = Settlement(leg, collateralBps, tickBefore, tickAfter, 0, a, c)
        /\ Settled(closing, collateralBps, -1)
             = Settlement(leg, collateralBps, -tickBefore, -tickAfter, 0, -a, -c)
    BY <2>2, <2>4, <2>5 DEF Settled
  <2> QED
    BY <2>7, <2>8 DEF Settlement
<1> QED
  BY <1>1, Running, PTL

\* The last piece of a split trade pays for the whole move of the block, and
\* never less than its own (effectiveCollateralBps).
THEOREM SplitTradePays == Spec => []SplitTradePaysForTheBlock
<1>1. Run => SplitTradePaysForTheBlock
  <2> SUFFICES ASSUME Run PROVE SplitTradePaysForTheBlock
    OBVIOUS
  <2>1. tickBefore \in Int /\ tickAfter \in Int /\ blockStart \in Int
    BY DEF Run, Typed
  <2>2. PICK own \in Nat : own = Abs(tickAfter - tickBefore)
    <3>1. Abs(tickAfter - tickBefore) \in Nat
      BY <2>1 DEF Abs
    <3> QED
      BY <3>1
  <2>3. PICK whole \in Nat : whole = Abs(tickAfter - blockStart)
    <3>1. Abs(tickAfter - blockStart) \in Nat
      BY <2>1 DEF Abs
    <3> QED
      BY <3>1
  <2>4. /\ own = 0 <=> tickAfter = tickBefore
        /\ whole = 0 <=> tickAfter = blockStart
    BY <2>1, <2>2, <2>3 DEF Abs
  <2>5. PICK m \in Nat : m = Largest(own, whole)
    BY DEF Largest
  <2>6. own <= m /\ whole <= m /\ (m = own \/ m = whole)
    BY <2>5 DEF Largest
  <2>7. /\ TickRate(own) \in Nat /\ TickRate(whole) \in Nat /\ TickRate(m) \in Nat
        /\ TickRate(own) <= TickRate(m) /\ TickRate(whole) <= TickRate(m)
        /\ TickRate(m) = 0 <=> m = 0
    BY <2>6, TickRateType, TickRateMonotone
  <2>8. EffectiveCollateralBps(tickBefore, tickAfter, blockStart) = Least(TickRate(m), MAX_BOND_BPS)
    BY <2>2, <2>3, <2>5 DEF EffectiveCollateralBps
  <2>9. m = 0 <=> tickAfter = tickBefore /\ tickAfter = blockStart
    BY <2>4, <2>6
  <2>10. /\ Least(TickRate(m), MAX_BOND_BPS) >= Least(TickRate(whole), MAX_BOND_BPS)
         /\ Least(TickRate(m), MAX_BOND_BPS) >= Least(TickRate(own), MAX_BOND_BPS)
         /\ Least(TickRate(m), MAX_BOND_BPS) \in 0 .. MAX_BOND_BPS
         /\ Least(TickRate(m), MAX_BOND_BPS) = 0 <=> m = 0
    BY <2>7 DEF Least, MAX_BOND_BPS
  <2> QED
    BY <2>2, <2>3, <2>8, <2>9, <2>10 DEF SplitTradePaysForTheBlock
<1> QED
  BY <1>1, Running, PTL

================================================================================
