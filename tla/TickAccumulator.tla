--------------------------- MODULE TickAccumulator ---------------------------
(***************************************************************************)
(* src/libraries/TickAccumulatorLib.sol: a pool's price history, kept as   *)
(* one running sum.  tickCumulative is the sum of (tick * blocks) up to    *)
(* lastUpdate; lastTick has been the pool's tick ever since.  The library  *)
(* is pure given the current block, so it is a set of operators here; its  *)
(* caller (module BondMeBro) owns the record and the clock.                *)
(***************************************************************************)
EXTENDS Integers

\* The packed storage slot.  lastUpdate = 0 marks a pool never seen.
Accumulator == [lastTick : Int, lastUpdate : Nat,
                blockStartTick : Int, tickCumulative : Int]

NoHistory == [lastTick |-> 0, lastUpdate |-> 0,
              blockStartTick |-> 0, tickCumulative |-> 0]

\* The sum at block `at`, carrying lastTick over the quiet blocks since
\* lastUpdate.
Extended(a, at) == a.tickCumulative + a.lastTick * (at - a.lastUpdate)

\* The first swap of a block fixes the block's opening tick; later swaps of
\* the same block leave it alone.
BeginBlock(a, now, currentTick) ==
    IF a.lastUpdate = 0        THEN [a EXCEPT !.blockStartTick = currentTick]
    ELSE IF a.lastUpdate < now THEN [a EXCEPT !.blockStartTick = a.lastTick]
    ELSE a

\* Charge the elapsed interval at the old tick, then record the new one.
\* First use seeds the record: no history is invented.
Update(a, now, newTick) ==
    [a EXCEPT !.tickCumulative = IF a.lastUpdate = 0 THEN @ ELSE Extended(a, now),
              !.lastTick = newTick,
              !.lastUpdate = now]

\* The blocks cumulativeAt answers for; it reverts (BlockOutOfDomain) outside.
InDomain(a, at, now) == at \in a.lastUpdate .. now

CumulativeAt(a, at) == Extended(a, at)
==============================================================================
