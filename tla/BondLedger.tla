------------------------------ MODULE BondLedger ------------------------------
(***************************************************************************)
(* What the hook promises, with none of its machinery: no accumulator, no  *)
(* buckets, no frozen readings, no batches.  There is a price history, and *)
(* a bond is settled once, at any time from its maturity on, for what that *)
(* history says of the blocks before its maturity: whoever settles, and    *)
(* whenever, the trader gets the same refund.                              *)
(***************************************************************************)
EXTENDS SettlementMath

CONSTANTS Pools, Currencies, Recipients, Ticks,
          OBSERVATION_BLOCKS   \* blocks from opening to maturity

VARIABLES
    block,      \* block number
    tick,       \* [Pools -> tick now]
    index,      \* index[p][b]: sum of p's closing ticks before block b
    terms,      \* what each bond was opened for
    open,       \* the bonds not settled yet
    retained,   \* what each pool has kept of each currency
    refunded    \* what each recipient has got back

vars == <<block, tick, index, terms, open, retained, refunded>>

Terms == [refundRecipient : Recipients, pool : Pools, openBlock : Nat,
          variableLeg : Nat, tickBefore : Ticks, tickAfter : Ticks,
          collateralBps : 1 .. MAX_BOND_BPS, currency : Currencies]

Init ==
    /\ block = 1
    /\ tick = [p \in Pools |-> 0]
    /\ index = [p \in Pools |-> [b \in 0 .. 1 |-> 0]]
    /\ terms = [b \in {} |-> {}]
    /\ open = {}
    /\ retained = [p \in Pools |-> [c \in Currencies |-> 0]]
    /\ refunded = [r \in Recipients |-> [c \in Currencies |-> 0]]

NextBlock ==
    /\ block' = block + 1
    /\ index' = [p \in Pools |-> [b \in 0 .. block + 1 |->
                    IF b = block + 1 THEN index[p][block] + tick[p] ELSE index[p][b]]]
    /\ UNCHANGED <<tick, terms, open, retained, refunded>>

\* A price moves, and no bond is opened for it.
Trade(p) ==
    /\ tick' \in {[tick EXCEPT ![p] = t] : t \in Ticks}
    /\ UNCHANGED <<block, index, terms, open, retained, refunded>>

\* A price moves, and a bond not seen before is opened for it, on the
\* prices just before and just after.
Open(p) ==
    /\ tick' \in {[tick EXCEPT ![p] = t] : t \in Ticks}
    /\ \E b \in DOMAIN terms' \ DOMAIN terms :
          /\ DOMAIN terms' = DOMAIN terms \cup {b}
          /\ \A c \in DOMAIN terms : terms'[c] = terms[c]
          /\ terms'[b] \in Terms
          /\ terms'[b].pool = p
          /\ terms'[b].openBlock = block
          /\ terms'[b].tickBefore = tick[p]
          /\ terms'[b].tickAfter = tick'[p]
          /\ open' = open \cup {b}
    /\ UNCHANGED <<block, index, retained, refunded>>

\* What the price history says of a bond.
Outcome(b) ==
    LET r == terms[b]
        maturity == r.openBlock + OBSERVATION_BLOCKS
    IN  Settlement(r.variableLeg, r.collateralBps, r.tickBefore, r.tickAfter,
                   index[r.pool][maturity - 2 * LATE_WINDOW_BLOCKS],
                   index[r.pool][maturity - LATE_WINDOW_BLOCKS],
                   index[r.pool][maturity])

Settle(b) ==
    /\ b \in open
    /\ block >= terms[b].openBlock + OBSERVATION_BLOCKS
    /\ open' = open \ {b}
    /\ retained' = [retained EXCEPT ![terms[b].pool][terms[b].currency] = @ + Outcome(b).slash]
    /\ refunded' = [refunded EXCEPT ![terms[b].refundRecipient][terms[b].currency] =
                        @ + Outcome(b).refund]
    /\ UNCHANGED <<block, tick, index, terms>>

Next ==
    \/ NextBlock
    \/ \E p \in Pools : Trade(p) \/ Open(p)
    \/ \E b \in open : Settle(b)

Spec == Init /\ [][Next]_vars
===============================================================================
