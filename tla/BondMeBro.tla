------------------------------- MODULE BondMeBro -------------------------------
(***************************************************************************)
(* The hook contract src/BondMeBro.sol, with the parts of Uniswap's        *)
(* PoolManager, of the chain and of the collateral tokens it relies on.    *)
(*                                                                         *)
(* A step is one transaction, or one block passing.  A transaction that    *)
(* would revert changes nothing, so it is not a step: each revert of the   *)
(* code is a guard.  A swap is a whole transaction, because PoolManager    *)
(* calls beforeSwap, moves the price and calls afterSwap with nothing of   *)
(* the hook in between; a settleMany batch is taken one bond at a time     *)
(* with every other transaction held off until it ends.                    *)
(***************************************************************************)
EXTENDS TickAccumulator, SettlementMath, Sequences, FiniteSets

CONSTANTS
    Pools,                   \* pools created with this hook
    Currencies,              \* tokens
    Currency0, Currency1,    \* [Pools -> Currencies], the two tokens of a pool
    Recipients,              \* refund addresses a trader may name
    Rejecting,               \* those whose token transfers fail
    ZeroAddress,             \* what a hookData without a recipient decodes to
    Ticks,                   \* prices a pool can be at
    Executions,              \* what a swap asks for and consumes
    HookData,                \* payloads a swap may carry
    Configs,                 \* arguments of setPoolConfig
    OBSERVATION_BLOCKS,      \* 10: blocks from opening to maturity
    C6_OFFSET_FROM_MATURITY, \* 4
    C8_OFFSET_FROM_MATURITY, \* 2
    MAX_SETTLE_BATCH,        \* 32
    BLOCK_MODULUS,           \* 2^32: block numbers are stored as uint32
    MaxBlock,                \* bound: the last block explored
    MaxBonds                 \* bound: bonds ever opened

ASSUME HorizonAssumption ==
    /\ C8_OFFSET_FROM_MATURITY = LATE_WINDOW_BLOCKS
    /\ C6_OFFSET_FROM_MATURITY = 2 * LATE_WINDOW_BLOCKS
    /\ OBSERVATION_BLOCKS \in Nat
    /\ C6_OFFSET_FROM_MATURITY < OBSERVATION_BLOCKS
    /\ MaxBlock \in Nat \ {0}
    /\ BLOCK_MODULUS \in Nat
    /\ MaxBlock < BLOCK_MODULUS

ASSUME PoolsAssumption ==
    /\ Currency0 \in [Pools -> Currencies]
    /\ Currency1 \in [Pools -> Currencies]
    /\ Ticks \subseteq Int
    /\ 0 \in Ticks
    /\ Rejecting \subseteq Recipients
    /\ ZeroAddress \notin Recipients
    /\ MAX_SETTLE_BATCH \in Nat

\* The chain has created finitely many pools.
ASSUME FinitePoolsAssumption == IsFiniteSet(Pools)

\* An exact-input swap never consumes more than it names (it may consume
\* less, at a price limit); an exact-output swap never yields more.
ASSUME InputsAssumption ==
    /\ \A x \in Executions :
          /\ x \in [zeroForOne : BOOLEAN, exactInput : BOOLEAN,
                    requested : Nat, input : Nat, output : Nat]
          /\ (IF x.exactInput THEN x.input ELSE x.output) <= x.requested
    /\ HookData \subseteq [recipient : Recipients \cup {ZeroAddress}, maxBond : Nat]
    /\ Configs \subseteq [bondingEnabled : BOOLEAN, minBonded0 : Nat, minBonded1 : Nat,
                          minLeg0 : Nat, minLeg1 : Nat]

VARIABLES
    block,         \* block.number
    poolTick,      \* PoolManager: each pool's current tick (slot0)
    initBlock,     \* PoolManager: block a pool was initialized in, 0 if it was not
    index,         \* history: index[p][b] is the sum of p's closing ticks before b
    acc,           \* accumulator
    poolConfig,    \* poolConfig
    maturity,      \* maturity: the buckets written so far, by <<pool, block>>
    bonds,         \* bonds: the records that are not NONE, by identifier
    insurancePot,  \* insurancePot
    balance,       \* tokens: what the hook holds of each currency
    refunded,      \* tokens: what each recipient has been sent
    batch          \* the bonds a settleMany in progress has still to settle

environment == <<block, poolTick, initBlock, index>>
contract    == <<acc, poolConfig, maturity, bonds, insurancePot>>
tokens      == <<balance, refunded>>
vars        == <<environment, contract, tokens, batch>>

-------------------------------------------------------------------------------
(* Records and lookups.  A Solidity mapping reads as zero where nothing    *)
(* was written; here it is a function on the keys written so far.          *)

Endpoint == {"c6", "c8", "c10"}

\* Blocks before maturity at which each endpoint is observed.
Offset == [c6  |-> C6_OFFSET_FROM_MATURITY,
           c8  |-> C8_OFFSET_FROM_MATURITY,
           c10 |-> 0]

\* MaturityCheckpoint; frozen is the set of bits of frozenMask.
Bucket      == [cumulative : [Endpoint -> Int], pending : Nat, frozen : SUBSET Endpoint]
EmptyBucket == [cumulative |-> [e \in Endpoint |-> 0], pending |-> 0, frozen |-> {}]

\* keccak256(pool, maturity, index in bucket), as the triple it is injective on.
BondId == Pools \X Nat \X Nat

\* Bond; the pool stands for poolIndex, which is given out once per pool.
Bond == [refundRecipient : Recipients, pool : Pools,
         openBlock : Nat, maturityBlock : Nat, variableLeg : Nat,
         tickBefore : Ticks, tickAfter : Ticks,
         collateralBps : Nat, collateralIsCurrency0 : BOOLEAN,
         state : {"PROVISIONAL", "FINALIZED", "SETTLED"}]

PoolConfig == [bondingEnabled : BOOLEAN, minBonded0 : Nat, minBonded1 : Nat,
               minLeg0 : Nat, minLeg1 : Nat]
Unconfigured == [bondingEnabled |-> FALSE, minBonded0 |-> 0, minBonded1 |-> 0,
                 minLeg0 |-> 0, minLeg1 |-> 0]

Unwritten     == [k \in {} |-> k]
Put(f, k, v)  == [x \in DOMAIN f \cup {k} |-> IF x = k THEN v ELSE f[x]]
Delete(f, k)  == [x \in DOMAIN f \ {k} |-> f[x]]

BucketOf(p, m) == IF <<p, m>> \in DOMAIN maturity THEN maturity[<<p, m>>] ELSE EmptyBucket

Currency(p, isCurrency0) == IF isCurrency0 THEN Currency0[p] ELSE Currency1[p]

Finalized == {b \in DOMAIN bonds : bonds[b].state = "FINALIZED"}
Settled   == {b \in DOMAIN bonds : bonds[b].state = "SETTLED"}

CollateralOfBond(b) == CollateralOf(bonds[b].variableLeg, bonds[b].collateralBps)

Initialized == {p \in Pools : initBlock[p] # 0}
Idle        == batch = << >>
Uint32(n)   == n % BLOCK_MODULUS        \* a truncating cast
FitsUint32(n) == n < BLOCK_MODULUS      \* a checked one

-------------------------------------------------------------------------------
(* Checkpoints. *)

\* Mutant: the occupancy bound is one bucket short.
ScannedBucketsShort(last, now) ==
    last + 1 .. Least(now + C6_OFFSET_FROM_MATURITY, last + OBSERVATION_BLOCKS - 1)

\* The maturities _advanceAndCheckpoint visits: from the block after the last
\* update to the nearer of "an endpoint can be due" and "a bond can exist".
ScannedBuckets(last, now) ==
    last + 1 .. Least(now + C6_OFFSET_FROM_MATURITY, last + OBSERVATION_BLOCKS)

\* Mutant: the upper end of the quiet interval is not checked.
DueUnbounded(bucket, m, last, now) ==
    {e \in Endpoint \ bucket.frozen : m - Offset[e] > last}

\* Mutant: what is already frozen is not left alone.
DueAgain(bucket, m, last, now) ==
    {e \in Endpoint : m - Offset[e] <= now}

\* The endpoints of a bucket that fell due in (last, now] and are not frozen.
Due(bucket, m, last, now) ==
    {e \in Endpoint \ bucket.frozen : m - Offset[e] > last /\ m - Offset[e] <= now}

Freeze(bucket, m, a, due) ==
    [bucket EXCEPT !.cumulative = [e \in Endpoint |->
                       IF e \in due THEN CumulativeAt(a, m - Offset[e]) ELSE @[e]],
                   !.frozen = @ \cup due]

FreezeDueEndpoints(bucket, m, a, now) ==
    IF bucket.pending = 0 \/ m < C6_OFFSET_FROM_MATURITY
    THEN bucket
    ELSE Freeze(bucket, m, a, Due(bucket, m, a.lastUpdate, now))

\* maturity after beforeSwap's scan of pool p.
Checkpointed(p) ==
    LET a    == acc[p]
        scan == IF a.lastUpdate = 0 \/ block <= a.lastUpdate
                THEN {} ELSE ScannedBuckets(a.lastUpdate, block)
    IN  [k \in DOMAIN maturity |->
            IF k[1] = p /\ k[2] \in scan
            THEN FreezeDueEndpoints(maturity[k], k[2], a, block)
            ELSE maturity[k]]

\* Mutant: lastUpdate moves first, so that no block ever looks new.
AdvancedBeforeBegun(p) ==
    LET a == acc[p]
    IN  BeginBlock(Update(a, Uint32(block), IF a.lastUpdate = 0 THEN poolTick[p] ELSE a.lastTick),
                   Uint32(block), poolTick[p])

\* acc[p] after beforeSwap: the block's opening tick is fixed before
\* lastUpdate moves, and the elapsed blocks are charged at the old tick.
Advanced(p) ==
    LET a == BeginBlock(acc[p], Uint32(block), poolTick[p])
    IN  Update(a, Uint32(block), IF a.lastUpdate = 0 THEN poolTick[p] ELSE a.lastTick)

\* Neither the block number nor the scan overflows uint32: its two bounds are
\* computed, and its counter is stepped once past the nearer one.
AdvanceFits(p) ==
    LET occupancyEnd == acc[p].lastUpdate + OBSERVATION_BLOCKS
        dueEnd       == block + C6_OFFSET_FROM_MATURITY
    IN  acc[p].lastUpdate # 0 =>
            /\ FitsUint32(block)
            /\ block > acc[p].lastUpdate =>
                  /\ FitsUint32(occupancyEnd)
                  /\ FitsUint32(dueEnd)
                  /\ FitsUint32(Least(occupancyEnd, dueEnd) + 1)

\* _resolveEndpoint answers: the endpoint is frozen, or the accumulator has
\* not passed it (MaturityCheckpointMissing) and it is not in the future.
Resolvable(p, m, e) ==
    \/ e \in BucketOf(p, m).frozen
    \/ m - Offset[e] >= 0 /\ InDomain(acc[p], m - Offset[e], block)

\* Mutant: an endpoint not yet frozen is read at the settlement block.
ResolvedLate(p, m) ==
    LET bucket == BucketOf(p, m)
    IN  [bucket EXCEPT
            !.cumulative = [e \in Endpoint |-> IF e \in bucket.frozen THEN @[e]
                                               ELSE CumulativeAt(acc[p], block)],
            !.frozen = Endpoint]

\* The bucket once resolveEndpoints has read and frozen all three.
Resolved(p, m) ==
    LET bucket == BucketOf(p, m)
    IN  Freeze(bucket, m, acc[p], Endpoint \ bucket.frozen)

-------------------------------------------------------------------------------
(* Initialization and configuration. *)

\* _afterInitialize, called once by PoolManager when the pool is created.
AfterInitialize(p, tick) ==
    /\ Idle
    /\ initBlock[p] = 0
    /\ poolTick'  = [poolTick EXCEPT ![p] = tick]
    /\ initBlock' = [initBlock EXCEPT ![p] = block]
    /\ acc' = [acc EXCEPT ![p] = Update(BeginBlock(@, Uint32(block), tick),
                                        Uint32(block), tick)]
    /\ UNCHANGED <<block, index, poolConfig, maturity, bonds, insurancePot, tokens, batch>>

\* Mutant: the floor under the variable-leg minimums is missing.
AcceptedWithoutFloor(cfg) ==
    cfg.bondingEnabled => cfg.minBonded0 # 0 /\ cfg.minBonded1 # 0

\* What setPoolConfig does not refuse.
Accepted(cfg) ==
    cfg.bondingEnabled =>
        /\ cfg.minBonded0 # 0 /\ cfg.minBonded1 # 0
        /\ cfg.minLeg0 >= BPS /\ cfg.minLeg1 >= BPS

\* setPoolConfig, by the owner, at any time, for any pool.
SetPoolConfig(p, cfg) ==
    /\ Idle
    /\ Accepted(cfg)
    /\ poolConfig' = [poolConfig EXCEPT ![p] =
                        IF cfg.bondingEnabled THEN cfg ELSE Unconfigured]
    /\ UNCHANGED <<environment, acc, maturity, bonds, insurancePot, tokens, batch>>

-------------------------------------------------------------------------------
(* A swap.  x is its execution, t the tick it leaves, h its hookData. *)

Decodes(h) == h.recipient # ZeroAddress /\ h.maxBond # 0

MinInput(cfg, x) == IF x.zeroForOne THEN cfg.minBonded0 ELSE cfg.minBonded1

\* The collateral comes out of the leg the trader left open: the output of an
\* exact-input swap, the input of an exact-output one.
CollateralIsCurrency0(x) == IF x.exactInput THEN ~x.zeroForOne ELSE x.zeroForOne
VariableLeg(x)           == IF x.exactInput THEN x.output ELSE x.input
MinVariableLeg(cfg, x)   == IF CollateralIsCurrency0(x) THEN cfg.minLeg0 ELSE cfg.minLeg1

\* beforeSwap opens a provisional record.  An exact-output swap always gets
\* one: what it will consume is not known yet.
Prepares(cfg, x) ==
    /\ cfg.bondingEnabled
    /\ x.exactInput => x.requested >= MinInput(cfg, x)

\* Rate afterSwap computes for pool p moving to tick t.
SwapBps(p, t) == EffectiveCollateralBps(Advanced(p).lastTick, t, Advanced(p).blockStartTick)

\* afterSwap takes collateral.
Qualifies(cfg, x, bps) ==
    /\ cfg.bondingEnabled
    /\ x.input > 0
    /\ x.input >= MinInput(cfg, x)
    /\ VariableLeg(x) >= MinVariableLeg(cfg, x)
    /\ bps # 0

\* BondViolatesNoOpVLBound is not raised.
WithinLeg(x, bps) == CollateralOf(VariableLeg(x), bps) \in 1 .. VariableLeg(x) - 1

\* Mutant: every bond of a bucket gets the same index.
NextBondIdReused(p) == <<p, block + OBSERVATION_BLOCKS, 0>>

\* The identifier the next bond of pool p gets: its place in its bucket.
NextBondId(p) ==
    LET m == block + OBSERVATION_BLOCKS
    IN  <<p, m, BucketOf(p, m).pending>>

\* bonds after beforeSwap.
Prepared(p, x, h) ==
    IF Prepares(poolConfig[p], x)
    THEN Put(bonds, NextBondId(p),
             [refundRecipient |-> h.recipient, pool |-> p,
              openBlock |-> block, maturityBlock |-> block + OBSERVATION_BLOCKS,
              variableLeg |-> 0, tickBefore |-> Advanced(p).lastTick, tickAfter |-> 0,
              collateralBps |-> 0, collateralIsCurrency0 |-> x.zeroForOne,
              state |-> "PROVISIONAL"])
    ELSE bonds

\* Mutant: a swap that does not qualify leaves its provisional record behind.
ClearedNever(p, x, h) == Prepared(p, x, h)

\* bonds after afterSwap took nothing.
Cleared(p, x, h) ==
    IF poolConfig[p].bondingEnabled THEN Delete(Prepared(p, x, h), NextBondId(p))
                                    ELSE bonds

\* bonds after afterSwap took collateral at rate bps.
Finalize(p, x, t, h, bps) ==
    LET id == NextBondId(p)
    IN  Put(bonds, id, [Prepared(p, x, h)[id] EXCEPT
                            !.variableLeg = VariableLeg(x), !.tickAfter = t,
                            !.collateralBps = bps,
                            !.collateralIsCurrency0 = CollateralIsCurrency0(x),
                            !.state = "FINALIZED"])

\* Mutant: the new bond is not counted in its bucket.
RegisteredNever(p) == Checkpointed(p)

\* maturity after the swap of a bond: the checkpoints due, and one more bond.
Registered(p) ==
    LET m == block + OBSERVATION_BLOCKS
    IN  Put(Checkpointed(p), <<p, m>>, [BucketOf(p, m) EXCEPT !.pending = @ + 1])

\* What any swap of pool p needs and does: PoolManager moves the price, the
\* way the direction says, and the accumulator follows on every swap.
MovePrice(p, x, t, h) ==
    /\ Idle
    /\ p \in Initialized
    /\ IF x.zeroForOne THEN t <= poolTick[p] ELSE t >= poolTick[p]
    /\ AdvanceFits(p)
    /\ poolConfig[p].bondingEnabled => FitsUint32(block + OBSERVATION_BLOCKS)
    /\ Prepares(poolConfig[p], x) => Decodes(h)
    /\ poolTick' = [poolTick EXCEPT ![p] = t]
    /\ acc' = [acc EXCEPT ![p] = Update(Advanced(p), Uint32(block), t)]
    /\ UNCHANGED <<block, initBlock, index, poolConfig, insurancePot, refunded, batch>>

\* beforeSwap and afterSwap of a swap that posts nothing: bonding is off, the
\* trade is too small on either leg, or it moved the price by nothing.
SwapWithoutBond(p, x, t, h) ==
    /\ MovePrice(p, x, t, h)
    /\ ~Qualifies(poolConfig[p], x, SwapBps(p, t))
    /\ maturity' = Checkpointed(p)
    /\ bonds' = Cleared(p, x, h)
    /\ UNCHANGED balance

\* beforeSwap and afterSwap of a swap that posts collateral.
SwapWithBond(p, x, t, h) ==
    LET bps  == SwapBps(p, t)
        bond == CollateralOf(VariableLeg(x), bps)
    IN  /\ Cardinality(DOMAIN bonds) < MaxBonds
        /\ MovePrice(p, x, t, h)
        /\ Qualifies(poolConfig[p], x, bps)
        /\ WithinLeg(x, bps)
        /\ bond <= h.maxBond
        /\ maturity' = Registered(p)
        /\ bonds' = Finalize(p, x, t, h, bps)
        /\ balance' = [balance EXCEPT ![Currency(p, CollateralIsCurrency0(x))] = @ + bond]

-------------------------------------------------------------------------------
(* Settlement. *)

SettlementFrom(b, cumulative) ==
    Settlement(bonds[b].variableLeg, bonds[b].collateralBps,
               bonds[b].tickBefore, bonds[b].tickAfter,
               cumulative["c6"], cumulative["c8"], cumulative["c10"])

\* The lifecycle check of _settleBond.
Payable(b) == bonds[b].state = "FINALIZED"

\* The transfer of the refund does not fail.
Transfers(recipient, amount, currency) ==
    amount > 0 => recipient \notin Rejecting /\ balance[currency] >= amount

\* Mutant: settlement asks whether the pool still takes bonds.
SettleableWhileEnabled(b) ==
    LET r == bonds[b]
    IN  /\ Payable(b)
        /\ poolConfig[r.pool].bondingEnabled
        /\ block >= r.maturityBlock
        /\ \A e \in Endpoint : Resolvable(r.pool, r.maturityBlock, e)

\* _settleBond does not revert.
Settleable(b) ==
    LET r == bonds[b]
    IN  /\ Payable(b)
        /\ block >= r.maturityBlock
        /\ \A e \in Endpoint : Resolvable(r.pool, r.maturityBlock, e)
        /\ Transfers(r.refundRecipient,
                     SettlementFrom(b, Resolved(r.pool, r.maturityBlock).cumulative).refund,
                     Currency(r.pool, r.collateralIsCurrency0))

\* Mutant: the retained part is not credited to the reserve.
RetainedNothing(p, c, slash) == insurancePot

Retained(p, c, slash) == [insurancePot EXCEPT ![p][c] = @ + slash]

\* _settleBond: freeze what is missing, mark, account, then pay.
Settle(b) ==
    LET r      == bonds[b]
        bucket == Resolved(r.pool, r.maturityBlock)
        s      == SettlementFrom(b, bucket.cumulative)
        c      == Currency(r.pool, r.collateralIsCurrency0)
    IN  /\ Settleable(b)
        /\ bonds' = [bonds EXCEPT ![b].state = "SETTLED"]
        /\ maturity' = Put(maturity, <<r.pool, r.maturityBlock>>,
                           [bucket EXCEPT !.pending = @ - 1])
        /\ insurancePot' = Retained(r.pool, c, s.slash)
        /\ balance'  = [balance EXCEPT ![c] = @ - s.refund]
        /\ refunded' = [refunded EXCEPT ![r.refundRecipient][c] = @ + s.refund]
        /\ UNCHANGED <<environment, acc, poolConfig>>

\* settleBond, by anyone.
SettleBond(b) ==
    /\ Idle
    /\ Settle(b)
    /\ UNCHANGED batch

\* settleMany, by anyone.  A batch with an entry that cannot be settled, or
\* with the same entry twice, reverts whole; a batch that goes through
\* settles its entries in order (SettleNext).
SettleMany(ids) ==
    /\ Idle
    /\ \A i \in DOMAIN ids : Settleable(ids[i])
    /\ \A i, j \in DOMAIN ids : i # j => ids[i] # ids[j]
    /\ batch' = ids
    /\ UNCHANGED <<environment, contract, tokens>>

SettleNext ==
    /\ ~Idle
    /\ Settle(Head(batch))
    /\ batch' = Tail(batch)

\* resolveEndpoints, by anyone, for any pool and any block.
ResolveEndpoints(p, m) ==
    /\ Idle
    /\ \A e \in Endpoint : Resolvable(p, m, e)
    /\ maturity' = Put(maturity, <<p, m>>, Resolved(p, m))
    /\ UNCHANGED <<environment, acc, poolConfig, bonds, insurancePot, tokens, batch>>

-------------------------------------------------------------------------------

NextBlock ==
    /\ Idle
    /\ block < MaxBlock
    /\ block' = block + 1
    /\ index' = [p \in Pools |-> Put(index[p], block + 1, index[p][block] + poolTick[p])]
    /\ UNCHANGED <<poolTick, initBlock, contract, tokens, batch>>

Init ==
    /\ block = 1
    /\ poolTick = [p \in Pools |-> 0]
    /\ initBlock = [p \in Pools |-> 0]
    /\ index = [p \in Pools |-> [b \in 0 .. 1 |-> 0]]
    /\ acc = [p \in Pools |-> NoHistory]
    /\ poolConfig = [p \in Pools |-> Unconfigured]
    /\ maturity = Unwritten
    /\ bonds = Unwritten
    /\ insurancePot = [p \in Pools |-> [c \in Currencies |-> 0]]
    /\ balance = [c \in Currencies |-> 0]
    /\ refunded = [r \in Recipients |-> [c \in Currencies |-> 0]]
    /\ batch = << >>

Next ==
    \/ \E p \in Pools, t \in Ticks : AfterInitialize(p, t)
    \/ \E p \in Pools, cfg \in Configs : SetPoolConfig(p, cfg)
    \/ \E p \in Pools, x \in Executions, t \in Ticks, h \in HookData :
          SwapWithoutBond(p, x, t, h) \/ SwapWithBond(p, x, t, h)
    \/ \E b \in DOMAIN bonds : SettleBond(b)
    \/ \E n \in 1 .. MAX_SETTLE_BATCH : \E ids \in [1 .. n -> DOMAIN bonds] : SettleMany(ids)
    \/ SettleNext
    \/ \E p \in Pools, m \in 0 .. block : ResolveEndpoints(p, m)
    \/ NextBlock

Spec == Init /\ [][Next]_vars

\* The identifiers whose bonds mature before the last block explored.
MaturingBonds ==
    Pools \X (OBSERVATION_BLOCKS + 1 .. MaxBlock) \X (0 .. MaxBonds - 1)

\* Blocks keep coming, a batch is one transaction, and someone settles what
\* can be settled: nobody in particular has to (settleBond is open to all),
\* but the recipient of a refund has every reason to.  Fairness is asked of
\* settling some bond, never of settling one given bond.
Fairness ==
    /\ WF_vars(NextBlock)
    /\ WF_vars(SettleNext)
    /\ WF_vars(\E b \in Finalized : SettleBond(b))

FairSpec == Spec /\ Fairness
================================================================================
