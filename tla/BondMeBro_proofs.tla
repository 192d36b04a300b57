--------------------------- MODULE BondMeBro_proofs ---------------------------
(***************************************************************************)
(* The hook, for every number of pools, tokens, ticks, bonds and blocks,   *)
(* and every horizon: counts are exact, every frozen reading is exact, and *)
(* none that a bond will need is lost; what a step may never do to a bond  *)
(* or a reading, on which terms it may open one, that it can always pay,   *)
(* and that it implements the ledger of module BondLedger.                 *)
(***************************************************************************)
EXTENDS BondMeBroProperties, SettlementMath_proofs, FiniteSetTheorems, TLAPS

-------------------------------------------------------------------------------
(* Operators. *)

\* A stored block number is the block number: the truncation is harmless.
LEMMA Uint32Exact ==
    ASSUME NEW n \in 0 .. MaxBlock
    PROVE  Uint32(n) = n
BY HorizonAssumption DEF Uint32

LEMMA OffsetType ==
    /\ Offset \in [Endpoint -> Nat]
    /\ \A e \in Endpoint : Offset[e] <= C6_OFFSET_FROM_MATURITY
    /\ C6_OFFSET_FROM_MATURITY \in Nat
BY HorizonAssumption, LateWindowAssumption DEF Offset, Endpoint

LEMMA AccumulatorSteps ==
    ASSUME NEW a \in Accumulator, NEW now \in Nat, NEW t \in Int
    PROVE  /\ BeginBlock(a, now, t) \in Accumulator
           /\ BeginBlock(a, now, t).lastTick = a.lastTick
           /\ BeginBlock(a, now, t).lastUpdate = a.lastUpdate
           /\ BeginBlock(a, now, t).tickCumulative = a.tickCumulative
           /\ Update(a, now, t) \in Accumulator
           /\ Update(a, now, t).lastTick = t
           /\ Update(a, now, t).lastUpdate = now
           /\ Update(a, now, t).tickCumulative =
                 IF a.lastUpdate = 0 THEN a.tickCumulative ELSE Extended(a, now)
<1>1. Extended(a, now) \in Int
  BY DEF Extended, Accumulator
<1>2. /\ BeginBlock(a, now, t) \in Accumulator
      /\ BeginBlock(a, now, t).lastTick = a.lastTick
      /\ BeginBlock(a, now, t).lastUpdate = a.lastUpdate
      /\ BeginBlock(a, now, t).tickCumulative = a.tickCumulative
  BY DEF BeginBlock, Accumulator
<1>3. Update(a, now, t) \in Accumulator
  BY <1>1 DEF Update, Accumulator
<1>4. /\ Update(a, now, t).lastTick = t
      /\ Update(a, now, t).lastUpdate = now
      /\ Update(a, now, t).tickCumulative =
            IF a.lastUpdate = 0 THEN a.tickCumulative ELSE Extended(a, now)
  BY DEF Update, Accumulator
<1> QED
  BY <1>2, <1>3, <1>4

LEMMA CumulativeAtType ==
    ASSUME NEW a \in Accumulator, NEW at \in Int
    PROVE  CumulativeAt(a, at) \in Int
BY DEF CumulativeAt, Extended, Accumulator

LEMMA FreezeType ==
    ASSUME NEW bucket \in Bucket, NEW m \in Nat, NEW a \in Accumulator,
           NEW due \in SUBSET Endpoint
    PROVE  /\ Freeze(bucket, m, a, due) \in Bucket
           /\ Freeze(bucket, m, a, due).pending = bucket.pending
           /\ Freeze(bucket, m, a, due).frozen = bucket.frozen \cup due
           /\ \A e \in Endpoint : Freeze(bucket, m, a, due).cumulative[e] =
                 IF e \in due THEN CumulativeAt(a, m - Offset[e]) ELSE bucket.cumulative[e]
<1>1. \A e \in Endpoint : CumulativeAt(a, m - Offset[e]) \in Int
  BY OffsetType, CumulativeAtType
<1> QED
  BY <1>1 DEF Freeze, Bucket

LEMMA FreezeDueType ==
    ASSUME NEW bucket \in Bucket, NEW m \in Nat, NEW a \in Accumulator, NEW now \in Nat
    PROVE  /\ FreezeDueEndpoints(bucket, m, a, now) \in Bucket
           /\ FreezeDueEndpoints(bucket, m, a, now).pending = bucket.pending
BY FreezeType DEF FreezeDueEndpoints, Due

LEMMA EmptyBucketType == EmptyBucket \in Bucket
BY DEF EmptyBucket, Bucket

-------------------------------------------------------------------------------
(* The inductive invariant.  TypeOK alone is not inductive: a settlement     *)
(* lowers a bucket's count, which stays a natural number only because the    *)
(* count is that of the bucket's unsettled bonds; and that in turn needs     *)
(* every new identifier to be fresh, which the indices of unmatured bonds    *)
(* guarantee: all of them lie below the count.                               *)

Unsettled(p, m) == {b \in Finalized : bonds[b].pool = p /\ bonds[b].maturityBlock = m}

\* The count of a bucket in a given state of the buckets.
PendingIn(buckets, p, m) ==
    IF <<p, m>> \in DOMAIN buckets THEN buckets[<<p, m>>].pending ELSE 0

WellFormed(b) ==
    /\ bonds[b].state # "PROVISIONAL"
    /\ b[1] = bonds[b].pool /\ b[2] = bonds[b].maturityBlock
    /\ bonds[b].maturityBlock = bonds[b].openBlock + OBSERVATION_BLOCKS
    /\ bonds[b].openBlock \in 1 .. block
    /\ bonds[b].state = "SETTLED" => bonds[b].maturityBlock <= block
    /\ block < bonds[b].maturityBlock => b[3] < PendingIn(maturity, b[1], b[2])

Bookkeeping ==
    /\ TypeOK
    /\ IsFiniteSet(DOMAIN bonds)
    /\ batch \in Seq(DOMAIN bonds)
    /\ \A p \in Pools : acc[p].lastTick = poolTick[p]
    /\ \A b \in DOMAIN bonds : WellFormed(b)
    /\ BucketsCountBonds

LEMMA BucketOfType ==
    ASSUME TypeOK, NEW p, NEW m
    PROVE  BucketOf(p, m) \in Bucket
BY EmptyBucketType DEF TypeOK, BucketOf

LEMMA BasicTypes ==
    ASSUME TypeOK
    PROVE  /\ block \in Nat /\ block \in 0 .. MaxBlock
           /\ \A p \in Pools : /\ acc[p] \in Accumulator
                               /\ poolTick[p] \in Ticks
                               /\ poolTick[p] \in Int
<1>1. block \in Nat /\ block \in 0 .. MaxBlock
  BY HorizonAssumption DEF TypeOK
<1>2. ASSUME NEW p \in Pools
      PROVE  acc[p] \in Accumulator /\ poolTick[p] \in Ticks
  BY DEF TypeOK
<1> QED
  BY <1>1, <1>2, PoolsAssumption

LEMMA HorizonFacts ==
    /\ OBSERVATION_BLOCKS \in Nat /\ OBSERVATION_BLOCKS > 0
    /\ MaxBlock \in Nat
BY HorizonAssumption, LateWindowAssumption

\* No later bond draws an identifier already in use.
LEMMA FreshIdentifier ==
    ASSUME Bookkeeping, NEW p \in Pools
    PROVE  NextBondId(p) \in BondId \ DOMAIN bonds
<1> DEFINE m == block + OBSERVATION_BLOCKS
<1>1. block \in Nat /\ m \in Nat /\ block < m
  BY HorizonFacts DEF Bookkeeping, TypeOK
<1>2. BucketOf(p, m).pending \in Nat
  BY BucketOfType DEF Bookkeeping, Bucket
<1>3. NextBondId(p) = <<p, m, BucketOf(p, m).pending>>
  BY DEF NextBondId
<1> HIDE DEF m
<1>4. NextBondId(p) \in BondId
  BY <1>1, <1>2, <1>3 DEF BondId
<1>5. ASSUME NextBondId(p) \in DOMAIN bonds
      PROVE  FALSE
  <2> DEFINE id == NextBondId(p)
  <2>1. id[1] = p /\ id[2] = m /\ id[3] = BucketOf(p, m).pending
    BY <1>3
  <2>2. WellFormed(id)
    BY <1>5 DEF Bookkeeping
  <2>3. id[3] < BucketOf(p, m).pending
    BY <2>1, <2>2, <1>1 DEF WellFormed, PendingIn, BucketOf, EmptyBucket
  <2> QED
    BY <2>1, <2>3, <1>2
<1> QED
  BY <1>4, <1>5

LEMMA CheckpointedFacts ==
    ASSUME TypeOK, NEW p \in Pools
    PROVE  /\ DOMAIN Checkpointed(p) = DOMAIN maturity
           /\ \A k \in DOMAIN maturity :
                 /\ Checkpointed(p)[k] \in Bucket
                 /\ Checkpointed(p)[k].pending = maturity[k].pending
<1>1. acc[p] \in Accumulator /\ block \in Nat
  BY DEF TypeOK
<1>2. ASSUME NEW k \in DOMAIN maturity
      PROVE  /\ FreezeDueEndpoints(maturity[k], k[2], acc[p], block) \in Bucket
             /\ FreezeDueEndpoints(maturity[k], k[2], acc[p], block).pending = maturity[k].pending
  <2>1. maturity[k] \in Bucket /\ k[2] \in Nat
    BY DEF TypeOK
  <2> QED
    BY <2>1, <1>1, FreezeDueType
<1> QED
  BY <1>2 DEF Checkpointed, TypeOK

LEMMA AdvancedFacts ==
    ASSUME Bookkeeping, NEW p \in Pools
    PROVE  /\ Advanced(p) \in Accumulator
           /\ Advanced(p).lastTick = poolTick[p]
           /\ Advanced(p).lastUpdate = block
<1>1. acc[p] \in Accumulator /\ block \in Nat /\ poolTick[p] \in Int
  BY BasicTypes DEF Bookkeeping
<1>2. Uint32(block) = block
  BY BasicTypes, Uint32Exact DEF Bookkeeping
<1>3. acc[p].lastTick = poolTick[p]
  BY DEF Bookkeeping
<1> DEFINE a == BeginBlock(acc[p], block, poolTick[p])
<1>4. /\ a \in Accumulator /\ a.lastTick = acc[p].lastTick
  BY <1>1, AccumulatorSteps
<1>5. Advanced(p) = Update(a, block, poolTick[p])
  BY <1>2, <1>3, <1>4 DEF Advanced
<1>6. a \in Accumulator
  BY <1>4
<1> HIDE DEF a
<1>7. /\ Update(a, block, poolTick[p]) \in Accumulator
      /\ Update(a, block, poolTick[p]).lastTick = poolTick[p]
      /\ Update(a, block, poolTick[p]).lastUpdate = block
  BY <1>1, <1>6, AccumulatorSteps
<1> QED
  BY <1>5, <1>7

LEMMA ResolvedFacts ==
    ASSUME TypeOK, NEW p \in Pools, NEW m \in Nat
    PROVE  /\ Resolved(p, m) \in Bucket
           /\ Resolved(p, m).pending = BucketOf(p, m).pending
           /\ Resolved(p, m).frozen = Endpoint
           /\ \A e \in Endpoint : Resolved(p, m).cumulative[e] =
                 IF e \in BucketOf(p, m).frozen THEN BucketOf(p, m).cumulative[e]
                                                ELSE CumulativeAt(acc[p], m - Offset[e])
<1>1. BucketOf(p, m) \in Bucket /\ acc[p] \in Accumulator
  BY BucketOfType DEF TypeOK
<1> DEFINE bucket == BucketOf(p, m)
           due    == Endpoint \ bucket.frozen
<1>2. bucket.frozen \in SUBSET Endpoint /\ due \in SUBSET Endpoint
  BY <1>1 DEF Bucket
<1>3. Resolved(p, m) = Freeze(bucket, m, acc[p], due)
  BY DEF Resolved
<1>4. bucket.frozen \cup due = Endpoint
  BY <1>2
<1>5. \A e \in Endpoint : e \in due <=> e \notin bucket.frozen
  OBVIOUS
<1>6. bucket \in Bucket
  BY <1>1
<1> HIDE DEF bucket, due
<1>7. /\ Freeze(bucket, m, acc[p], due) \in Bucket
      /\ Freeze(bucket, m, acc[p], due).pending = bucket.pending
      /\ Freeze(bucket, m, acc[p], due).frozen = bucket.frozen \cup due
      /\ \A e \in Endpoint : Freeze(bucket, m, acc[p], due).cumulative[e] =
            IF e \in due THEN CumulativeAt(acc[p], m - Offset[e]) ELSE bucket.cumulative[e]
  BY <1>1, <1>2, <1>6, FreezeType
<1>8. /\ Resolved(p, m) \in Bucket
      /\ Resolved(p, m).pending = bucket.pending
      /\ Resolved(p, m).frozen = Endpoint
      /\ \A e \in Endpoint : Resolved(p, m).cumulative[e] =
            IF e \in bucket.frozen THEN bucket.cumulative[e]
                                   ELSE CumulativeAt(acc[p], m - Offset[e])
  BY <1>3, <1>4, <1>5, <1>7
<1> QED
  BY <1>8 DEF bucket

LEMMA CurrencyType ==
    ASSUME NEW p \in Pools, NEW z \in BOOLEAN
    PROVE  Currency(p, z) \in Currencies
BY PoolsAssumption DEF Currency

-------------------------------------------------------------------------------
(* Settlement. *)

LEMMA UnsettledFinite ==
    ASSUME Bookkeeping, NEW p, NEW m
    PROVE  IsFiniteSet(Unsettled(p, m))
<1>1. Unsettled(p, m) \in SUBSET DOMAIN bonds
  BY DEF Unsettled, Finalized
<1> QED
  BY <1>1, FS_Subset DEF Bookkeeping

\* The count of a bucket, for any bucket a bond can be in.
LEMMA PendingCounts ==
    ASSUME Bookkeeping, NEW b \in DOMAIN bonds
    PROVE  /\ bonds[b].pool \in Pools
           /\ bonds[b].maturityBlock \in 0 .. MaxBlock + OBSERVATION_BLOCKS
           /\ BucketOf(bonds[b].pool, bonds[b].maturityBlock).pending =
                 Cardinality(Unsettled(bonds[b].pool, bonds[b].maturityBlock))
<1>1. bonds[b] \in Bond /\ WellFormed(b) /\ block \in 1 .. MaxBlock
  BY DEF Bookkeeping, TypeOK
<1>2. bonds[b].pool \in Pools /\ bonds[b].openBlock \in 1 .. block
  BY <1>1 DEF Bond, WellFormed
<1>3. bonds[b].maturityBlock \in 0 .. MaxBlock + OBSERVATION_BLOCKS
  BY <1>1, <1>2, HorizonFacts DEF WellFormed
<1> QED
  BY <1>2, <1>3 DEF Bookkeeping, BucketsCountBonds, Unsettled

\* A bucket with an unsettled bond has a positive count.
LEMMA PendingPositive ==
    ASSUME Bookkeeping, NEW b \in Finalized
    PROVE  BucketOf(bonds[b].pool, bonds[b].maturityBlock).pending > 0
<1> DEFINE S == Unsettled(bonds[b].pool, bonds[b].maturityBlock)
<1>1. b \in DOMAIN bonds /\ b \in S
  BY DEF Finalized, Unsettled
<1>2. IsFiniteSet(S)
  BY UnsettledFinite
<1> HIDE DEF S
<1>3. Cardinality(S) \in Nat /\ Cardinality(S) # 0
  BY <1>1, <1>2, FS_CardinalityType, FS_EmptySet
<1> QED
  BY <1>1, <1>3, PendingCounts DEF S

\* What a settlement is worth, in numbers.
LEMMA SettlementAmounts ==
    ASSUME TypeOK, NEW b \in DOMAIN bonds, NEW bucket \in Bucket
    PROVE  /\ SettlementFrom(b, bucket.cumulative).slash \in Nat
           /\ SettlementFrom(b, bucket.cumulative).refund \in Nat
<1>1. bonds[b] \in Bond
  BY DEF TypeOK
<1>2. /\ bonds[b].variableLeg \in Nat /\ bonds[b].collateralBps \in Nat
      /\ bonds[b].tickBefore \in Int /\ bonds[b].tickAfter \in Int
  BY <1>1, PoolsAssumption DEF Bond
<1>3. /\ bucket.cumulative["c6"] \in Int
      /\ bucket.cumulative["c8"] \in Int
      /\ bucket.cumulative["c10"] \in Int
  BY DEF Bucket, Endpoint
<1> QED
  BY <1>2, <1>3, SettlementConserves DEF SettlementFrom

\* The records a settlement leaves behind.
LEMMA SettleRecords ==
    ASSUME Bookkeeping, NEW b \in DOMAIN bonds, Settle(b)
    PROVE  /\ b \in Finalized
           /\ bonds[b].maturityBlock <= block
           /\ DOMAIN bonds' = DOMAIN bonds
           /\ \A x \in DOMAIN bonds : x # b => bonds'[x] = bonds[x]
           /\ bonds'[b] = [bonds[b] EXCEPT !.state = "SETTLED"]
           /\ bonds'[b] \in Bond
<1>1. bonds[b] \in Bond
  BY DEF Bookkeeping, TypeOK
<1>2. bonds' = [bonds EXCEPT ![b].state = "SETTLED"]
  BY DEF Settle
<1>3. bonds[b].state = "FINALIZED" /\ block >= bonds[b].maturityBlock
  BY DEF Settle, Settleable, Payable
<1>4. bonds[b].maturityBlock \in Nat /\ block \in Nat
  BY <1>1, BasicTypes DEF Bond, Bookkeeping
<1> QED
  BY <1>1, <1>2, <1>3, <1>4 DEF Finalized, Bond

\* The buckets a settlement leaves behind.
LEMMA SettleBuckets ==
    ASSUME Bookkeeping, NEW b \in DOMAIN bonds, Settle(b),
           NEW p \in Pools, NEW m \in Nat,
           p = bonds[b].pool, m = bonds[b].maturityBlock
    PROVE  /\ DOMAIN maturity' = DOMAIN maturity \cup {<<p, m>>}
           /\ maturity'[<<p, m>>] = [Resolved(p, m) EXCEPT !.pending = @ - 1]
           /\ \A k \in DOMAIN maturity : k # <<p, m>> => maturity'[k] = maturity[k]
           /\ DOMAIN maturity' \subseteq Pools \X Nat
           /\ \A k \in DOMAIN maturity' : maturity'[k] \in Bucket
           /\ PendingIn(maturity', p, m) = PendingIn(maturity, p, m) - 1
           /\ \A q \in Pools, n \in Nat : q # p \/ n # m =>
                 PendingIn(maturity', q, n) = PendingIn(maturity, q, n)
<1> DEFINE new == [Resolved(p, m) EXCEPT !.pending = @ - 1]
           key == <<p, m>>
<1>1. p \in Pools /\ m \in Nat
  BY DEF Bookkeeping, TypeOK, Bond
<1>2. maturity' = Put(maturity, key, new)
  BY DEF Settle
<1>3. b \in Finalized
  BY SettleRecords
<1>4. BucketOf(p, m).pending > 0 /\ BucketOf(p, m).pending \in Nat
  BY <1>3, PendingPositive, BucketOfType DEF Bookkeeping, Bucket
<1>5. Resolved(p, m) \in Bucket /\ Resolved(p, m).pending = BucketOf(p, m).pending
  BY <1>1, ResolvedFacts DEF Bookkeeping
<1>6. new \in Bucket /\ new.pending = BucketOf(p, m).pending - 1
  BY <1>4, <1>5 DEF Bucket
<1>7. key \in Pools \X Nat
  BY <1>1
<1> HIDE DEF new
<1>8. /\ DOMAIN maturity' = DOMAIN maturity \cup {key}
      /\ maturity'[key] = new
      /\ \A k \in DOMAIN maturity : k # key => maturity'[k] = maturity[k]
  BY <1>2 DEF Put
<1>9. DOMAIN maturity' \subseteq Pools \X Nat
  BY <1>7, <1>8 DEF Bookkeeping, TypeOK
<1>10. \A k \in DOMAIN maturity' : maturity'[k] \in Bucket
  BY <1>6, <1>8 DEF Bookkeeping, TypeOK
<1>11. PendingIn(maturity', p, m) = PendingIn(maturity, p, m) - 1
  BY <1>6, <1>8 DEF BucketOf, EmptyBucket, PendingIn
<1>12. \A q \in Pools, n \in Nat : q # p \/ n # m =>
          PendingIn(maturity', q, n) = PendingIn(maturity, q, n)
  BY <1>8 DEF PendingIn
<1> QED
  BY <1>8, <1>9, <1>10, <1>11, <1>12 DEF new

\* The tokens a settlement leaves behind.
LEMMA SettleTokens ==
    ASSUME Bookkeeping, NEW b \in DOMAIN bonds, Settle(b)
    PROVE  /\ insurancePot' \in [Pools -> [Currencies -> Nat]]
           /\ balance' \in [Currencies -> Nat]
           /\ refunded' \in [Recipients -> [Currencies -> Nat]]
<1> DEFINE r == bonds[b]
           s == SettlementFrom(b, Resolved(r.pool, r.maturityBlock).cumulative)
           c == Currency(r.pool, r.collateralIsCurrency0)
<1>1. /\ r \in Bond /\ TypeOK
      /\ r.pool \in Pools /\ r.maturityBlock \in Nat /\ r.refundRecipient \in Recipients
      /\ c \in Currencies
  BY CurrencyType DEF Bookkeeping, TypeOK, Bond
<1>2. Resolved(r.pool, r.maturityBlock) \in Bucket
  BY <1>1, ResolvedFacts
<1>3. s.slash \in Nat /\ s.refund \in Nat
  BY <1>1, <1>2, SettlementAmounts
<1>4. s.refund > 0 => balance[c] >= s.refund
  BY DEF Settle, Settleable, Transfers
<1>5. /\ insurancePot' = [insurancePot EXCEPT ![r.pool][c] = @ + s.slash]
      /\ balance' = [balance EXCEPT ![c] = @ - s.refund]
      /\ refunded' = [refunded EXCEPT ![r.refundRecipient][c] = @ + s.refund]
  BY DEF Settle, Retained
<1>6. /\ insurancePot \in [Pools -> [Currencies -> Nat]]
      /\ balance \in [Currencies -> Nat]
      /\ refunded \in [Recipients -> [Currencies -> Nat]]
  BY <1>1 DEF TypeOK
<1> HIDE DEF r, s, c
<1>7. balance[c] \in Nat /\ balance[c] - s.refund \in Nat
  BY <1>1, <1>3, <1>4, <1>6
<1> QED
  BY <1>1, <1>3, <1>5, <1>6, <1>7

\* The count of every bucket after a settlement.
LEMMA SettleCounts ==
    ASSUME Bookkeeping, NEW b \in DOMAIN bonds, Settle(b)
    PROVE  BucketsCountBonds'
<1> SUFFICES ASSUME NEW q \in Pools, NEW n \in 0 .. MaxBlock + OBSERVATION_BLOCKS
             PROVE  PendingIn(maturity', q, n) = Cardinality(Unsettled(q, n)')
  BY DEF BucketsCountBonds, Unsettled, BucketOf, EmptyBucket, PendingIn
<1>1. /\ b \in Finalized
      /\ DOMAIN bonds' = DOMAIN bonds
      /\ \A x \in DOMAIN bonds : x # b => bonds'[x] = bonds[x]
      /\ bonds'[b] = [bonds[b] EXCEPT !.state = "SETTLED"]
      /\ bonds[b] \in Bond
  BY SettleRecords DEF Bookkeeping, TypeOK
<1>2. bonds'[b].state = "SETTLED"
  BY <1>1 DEF Bond
<1>3. Unsettled(q, n)' = Unsettled(q, n) \ {b}
  BY <1>1, <1>2 DEF Unsettled, Finalized
<1>4. PendingIn(maturity, q, n) = Cardinality(Unsettled(q, n))
  BY DEF Bookkeeping, BucketsCountBonds, Unsettled, BucketOf, EmptyBucket, PendingIn
<1>5. IsFiniteSet(Unsettled(q, n))
  BY UnsettledFinite
<1>6. PICK p \in Pools, m \in Nat : p = bonds[b].pool /\ m = bonds[b].maturityBlock
  BY <1>1 DEF Bond
<1>7. n \in Nat
  BY HorizonFacts
<1>8. CASE q = p /\ n = m
  <2>1. b \in Unsettled(q, n)
    BY <1>1, <1>6, <1>8 DEF Unsettled
  <2>2. Cardinality(Unsettled(q, n) \ {b}) = Cardinality(Unsettled(q, n)) - 1
    BY <2>1, <1>5, FS_RemoveElement
  <2>3. PendingIn(maturity', q, n) = PendingIn(maturity, q, n) - 1
    BY <1>6, <1>8, SettleBuckets
  <2> QED
    BY <2>2, <2>3, <1>3, <1>4
<1>9. CASE q # p \/ n # m
  <2>1. b \notin Unsettled(q, n)
    BY <1>6, <1>9 DEF Unsettled
  <2>2. Unsettled(q, n) \ {b} = Unsettled(q, n)
    BY <2>1
  <2>3. \A r \in Pools, k \in Nat : r # p \/ k # m =>
            PendingIn(maturity', r, k) = PendingIn(maturity, r, k)
    BY <1>6, SettleBuckets
  <2>4. PendingIn(maturity', q, n) = PendingIn(maturity, q, n)
    BY <1>7, <1>9, <2>3
  <2> QED
    BY <2>2, <2>4, <1>3, <1>4
<1> QED
  BY <1>8, <1>9

LEMMA SettleWellFormed ==
    ASSUME Bookkeeping, NEW b \in DOMAIN bonds, Settle(b)
    PROVE  \A x \in DOMAIN bonds' : WellFormed(x)'
<1> SUFFICES ASSUME NEW x \in DOMAIN bonds
             PROVE  WellFormed(x)'
  BY SettleRecords
<1>1. /\ bonds[b].maturityBlock <= block
      /\ \A y \in DOMAIN bonds : y # b => bonds'[y] = bonds[y]
      /\ bonds'[b] = [bonds[b] EXCEPT !.state = "SETTLED"]
      /\ block' = block
  BY SettleRecords DEF Settle, environment
<1>2. WellFormed(x) /\ x \in BondId /\ bonds[x] \in Bond /\ bonds[b] \in Bond /\ block \in Nat
  BY BasicTypes DEF Bookkeeping, TypeOK
<1>3. CASE x = b
  BY <1>1, <1>2, <1>3 DEF WellFormed, Bond
<1>4. CASE x # b
  <2>1. PICK p \in Pools, m \in Nat : p = bonds[b].pool /\ m = bonds[b].maturityBlock
    BY <1>2 DEF Bond
  <2>2. \A r \in Pools, k \in Nat : r # p \/ k # m =>
            PendingIn(maturity', r, k) = PendingIn(maturity, r, k)
    BY <2>1, SettleBuckets
  <2>3. ASSUME block < bonds[x].maturityBlock
        PROVE  PendingIn(maturity', x[1], x[2]) = PendingIn(maturity, x[1], x[2])
    <3>1. x[1] \in Pools /\ x[2] \in Nat /\ x[2] # m
      BY <1>1, <1>2, <2>1, <2>3 DEF WellFormed, BondId, Bond
    <3> QED
      BY <2>2, <3>1
  <2> QED
    BY <1>1, <1>2, <1>4, <2>3 DEF WellFormed
<1> QED
  BY <1>3, <1>4

\* Both ways to settle keep the books.
LEMMA SettleKeeps ==
    ASSUME Bookkeeping, NEW b \in DOMAIN bonds, Settle(b), batch' \in Seq(DOMAIN bonds)
    PROVE  Bookkeeping'
<1>1. TypeOK'
  <2>1. UNCHANGED <<block, poolTick, initBlock, index, acc, poolConfig>>
    BY DEF Settle, environment
  <2>2. DOMAIN bonds' \subseteq BondId /\ \A x \in DOMAIN bonds' : bonds'[x] \in Bond
    BY SettleRecords DEF Bookkeeping, TypeOK
  <2>3. PICK p \in Pools, m \in Nat : p = bonds[b].pool /\ m = bonds[b].maturityBlock
    BY DEF Bookkeeping, TypeOK, Bond
  <2>4. DOMAIN maturity' \subseteq Pools \X Nat /\ \A k \in DOMAIN maturity' : maturity'[k] \in Bucket
    BY <2>3, SettleBuckets
  <2>5. batch' \in Seq(BondId)
    BY DEF Bookkeeping, TypeOK
  <2> QED
    BY <2>1, <2>2, <2>4, <2>5, SettleTokens DEF Bookkeeping, TypeOK
<1>2. IsFiniteSet(DOMAIN bonds') /\ batch' \in Seq(DOMAIN bonds')
  BY SettleRecords DEF Bookkeeping
<1>3. \A p \in Pools : acc'[p].lastTick = poolTick'[p]
  BY DEF Settle, environment, Bookkeeping
<1>4. BucketsCountBonds'
  BY SettleCounts
<1> QED
  BY <1>1, <1>2, <1>3, <1>4, SettleWellFormed DEF Bookkeeping

-------------------------------------------------------------------------------
(* Steps that leave the records and the counts alone. *)

LEMMA BooksUntouched ==
    ASSUME Bookkeeping, TypeOK',
           DOMAIN bonds' = DOMAIN bonds,
           \A b \in DOMAIN bonds : bonds'[b] = bonds[b],
           block' \in {block, block + 1},
           \A q \in Pools, n \in Nat : PendingIn(maturity', q, n) = PendingIn(maturity, q, n),
           batch' \in Seq(DOMAIN bonds),
           \A p \in Pools : acc'[p].lastTick = poolTick'[p]
    PROVE  Bookkeeping'
<1>1. IsFiniteSet(DOMAIN bonds') /\ batch' \in Seq(DOMAIN bonds')
  BY DEF Bookkeeping
<1>2. \A b \in DOMAIN bonds' : WellFormed(b)'
  <2> SUFFICES ASSUME NEW b \in DOMAIN bonds
               PROVE  WellFormed(b)'
    OBVIOUS
  <2>1. WellFormed(b) /\ b \in BondId /\ bonds[b] \in Bond /\ block \in Nat
    BY BasicTypes DEF Bookkeeping, TypeOK
  <2>2. PendingIn(maturity', b[1], b[2]) = PendingIn(maturity, b[1], b[2])
    BY <2>1 DEF BondId
  <2> QED
    BY <2>1, <2>2 DEF WellFormed, Bond
<1>3. BucketsCountBonds'
  <2> SUFFICES ASSUME NEW q \in Pools, NEW n \in 0 .. MaxBlock + OBSERVATION_BLOCKS
               PROVE  PendingIn(maturity', q, n) = Cardinality(Unsettled(q, n)')
    BY DEF BucketsCountBonds, Unsettled, BucketOf, EmptyBucket, PendingIn
  <2>1. PendingIn(maturity, q, n) = Cardinality(Unsettled(q, n))
    BY DEF Bookkeeping, BucketsCountBonds, Unsettled, BucketOf, EmptyBucket, PendingIn
  <2>2. Unsettled(q, n)' = Unsettled(q, n)
    BY DEF Unsettled, Finalized
  <2>3. n \in Nat
    BY HorizonFacts
  <2> QED
    BY <2>1, <2>2, <2>3
<1> QED
  BY <1>1, <1>2, <1>3 DEF Bookkeeping

LEMMA AfterInitializeKeeps ==
    ASSUME Bookkeeping, NEW p \in Pools, NEW t \in Ticks, AfterInitialize(p, t)
    PROVE  Bookkeeping'
<1>1. /\ UNCHANGED <<block, index, poolConfig, maturity, bonds, insurancePot, balance, refunded, batch>>
      /\ poolTick'  = [poolTick EXCEPT ![p] = t]
      /\ initBlock' = [initBlock EXCEPT ![p] = block]
      /\ acc' = [acc EXCEPT ![p] = Update(BeginBlock(@, Uint32(block), t), Uint32(block), t)]
  BY DEF AfterInitialize, tokens
<1>2. Uint32(block) = block /\ block \in Nat /\ acc[p] \in Accumulator /\ t \in Int
  BY BasicTypes, Uint32Exact, PoolsAssumption DEF Bookkeeping
<1> DEFINE a == BeginBlock(acc[p], block, t)
<1>3. a \in Accumulator
  BY <1>2, AccumulatorSteps
<1>4. acc' = [acc EXCEPT ![p] = Update(a, block, t)]
  BY <1>1, <1>2
<1> HIDE DEF a
<1>5. Update(a, block, t) \in Accumulator /\ Update(a, block, t).lastTick = t
  BY <1>2, <1>3, AccumulatorSteps
<1>6. TypeOK'
  BY <1>1, <1>2, <1>4, <1>5 DEF Bookkeeping, TypeOK
<1>7. \A q \in Pools : acc'[q].lastTick = poolTick'[q]
  BY <1>1, <1>4, <1>5 DEF Bookkeeping, TypeOK
<1>8. batch' \in Seq(DOMAIN bonds)
  BY <1>1 DEF Bookkeeping
<1> QED
  BY <1>1, <1>6, <1>7, <1>8, BooksUntouched

LEMMA SetPoolConfigKeeps ==
    ASSUME Bookkeeping, NEW p \in Pools, NEW cfg \in Configs, SetPoolConfig(p, cfg)
    PROVE  Bookkeeping'
<1>1. /\ UNCHANGED <<block, poolTick, initBlock, index, acc, maturity, bonds, insurancePot,
                     balance, refunded, batch>>
      /\ poolConfig' = [poolConfig EXCEPT ![p] =
                          IF cfg.bondingEnabled THEN cfg ELSE Unconfigured]
  BY DEF SetPoolConfig, environment, tokens
<1>2. cfg \in PoolConfig /\ Unconfigured \in PoolConfig
  BY InputsAssumption DEF PoolConfig, Unconfigured
<1>3. TypeOK'
  BY <1>1, <1>2 DEF Bookkeeping, TypeOK
<1>4. \A q \in Pools : acc'[q].lastTick = poolTick'[q]
  BY <1>1 DEF Bookkeeping
<1>5. batch' \in Seq(DOMAIN bonds)
  BY <1>1 DEF Bookkeeping
<1> QED
  BY <1>1, <1>3, <1>4, <1>5, BooksUntouched

LEMMA ResolveEndpointsKeeps ==
    ASSUME Bookkeeping, NEW p \in Pools, NEW m \in 0 .. block, ResolveEndpoints(p, m)
    PROVE  Bookkeeping'
<1>1. /\ UNCHANGED <<block, poolTick, initBlock, index, acc, poolConfig, bonds, insurancePot,
                     balance, refunded, batch>>
      /\ maturity' = Put(maturity, <<p, m>>, Resolved(p, m))
  BY DEF ResolveEndpoints, environment, tokens
<1>2. m \in Nat
  BY BasicTypes DEF Bookkeeping
<1>3. Resolved(p, m) \in Bucket /\ Resolved(p, m).pending = BucketOf(p, m).pending
  BY <1>2, ResolvedFacts DEF Bookkeeping
<1>4. TypeOK'
  BY <1>1, <1>2, <1>3 DEF Bookkeeping, TypeOK, Put
<1>5. \A q \in Pools, n \in Nat : PendingIn(maturity', q, n) = PendingIn(maturity, q, n)
  BY <1>1, <1>2, <1>3 DEF PendingIn, Put, BucketOf, EmptyBucket
<1>6. \A q \in Pools : acc'[q].lastTick = poolTick'[q]
  BY <1>1 DEF Bookkeeping
<1>7. batch' \in Seq(DOMAIN bonds)
  BY <1>1 DEF Bookkeeping
<1> QED
  BY <1>1, <1>4, <1>5, <1>6, <1>7, BooksUntouched

LEMMA SettleManyKeeps ==
    ASSUME Bookkeeping, NEW n \in 1 .. MAX_SETTLE_BATCH,
           NEW ids \in [1 .. n -> DOMAIN bonds], SettleMany(ids)
    PROVE  Bookkeeping'
<1>1. /\ UNCHANGED <<block, poolTick, initBlock, index, acc, poolConfig, maturity, bonds,
                     insurancePot, balance, refunded>>
      /\ batch' = ids
  BY DEF SettleMany, environment, contract, tokens
<1>2. n \in Nat
  BY PoolsAssumption
<1>3. ids \in Seq(DOMAIN bonds)
  BY <1>2
<1>4. ids \in Seq(BondId)
  BY <1>3 DEF Bookkeeping, TypeOK
<1>5. TypeOK'
  BY <1>1, <1>4 DEF Bookkeeping, TypeOK
<1>6. \A q \in Pools : acc'[q].lastTick = poolTick'[q]
  BY <1>1 DEF Bookkeeping
<1> QED
  BY <1>1, <1>3, <1>5, <1>6, BooksUntouched

LEMMA NextBlockKeeps ==
    ASSUME Bookkeeping, NextBlock
    PROVE  Bookkeeping'
<1>1. /\ UNCHANGED <<poolTick, initBlock, acc, poolConfig, maturity, bonds, insurancePot,
                     balance, refunded, batch>>
      /\ block < MaxBlock /\ block' = block + 1
      /\ index' = [p \in Pools |-> Put(index[p], block + 1, index[p][block] + poolTick[p])]
  BY DEF NextBlock, contract, tokens
<1>2. block \in Nat /\ block' \in 1 .. MaxBlock
  BY <1>1, HorizonFacts DEF Bookkeeping, TypeOK
<1>3. index' \in [Pools -> [0 .. block' -> Int]]
  <2> SUFFICES ASSUME NEW p \in Pools
               PROVE  Put(index[p], block + 1, index[p][block] + poolTick[p]) \in [0 .. block + 1 -> Int]
    BY <1>1
  <2>1. index[p] \in [0 .. block -> Int] /\ poolTick[p] \in Int
    BY BasicTypes DEF Bookkeeping, TypeOK
  <2>2. index[p][block] + poolTick[p] \in Int
    BY <2>1, <1>2
  <2>3. (0 .. block) \cup {block + 1} = 0 .. block + 1
    BY <1>2
  <2> QED
    BY <2>1, <2>2, <2>3 DEF Put
<1>4. initBlock' \in [Pools -> 0 .. block']
  BY <1>1, <1>2 DEF Bookkeeping, TypeOK
<1>5. TypeOK'
  BY <1>1, <1>2, <1>3, <1>4 DEF Bookkeeping, TypeOK
<1>6. \A q \in Pools : acc'[q].lastTick = poolTick'[q]
  BY <1>1 DEF Bookkeeping
<1>7. batch' \in Seq(DOMAIN bonds)
  BY <1>1 DEF Bookkeeping
<1> QED
  BY <1>1, <1>5, <1>6, <1>7, BooksUntouched

-------------------------------------------------------------------------------
(* Swaps. *)

\* What both kinds of swap do to the price and the accumulator.
LEMMA MovePriceEffect ==
    ASSUME Bookkeeping, NEW p \in Pools, NEW x \in Executions, NEW t \in Ticks,
           NEW h \in HookData, MovePrice(p, x, t, h)
    PROVE  /\ UNCHANGED <<block, initBlock, index, poolConfig, insurancePot, refunded, batch>>
           /\ batch = << >>
           /\ poolTick' \in [Pools -> Ticks]
           /\ acc' \in [Pools -> Accumulator]
           /\ acc' = [acc EXCEPT ![p] = Update(Advanced(p), block, t)]
           /\ poolTick' = [poolTick EXCEPT ![p] = t]
           /\ \A q \in Pools : acc'[q].lastTick = poolTick'[q]
<1>1. /\ UNCHANGED <<block, initBlock, index, poolConfig, insurancePot, refunded, batch>>
      /\ batch = << >>
      /\ poolTick' = [poolTick EXCEPT ![p] = t]
      /\ acc' = [acc EXCEPT ![p] = Update(Advanced(p), Uint32(block), t)]
  BY DEF MovePrice, Idle
<1>2. Uint32(block) = block /\ block \in Nat /\ t \in Int
  BY BasicTypes, Uint32Exact, PoolsAssumption DEF Bookkeeping
<1>3. Advanced(p) \in Accumulator
  BY AdvancedFacts
<1>4. Update(Advanced(p), block, t) \in Accumulator /\ Update(Advanced(p), block, t).lastTick = t
  BY <1>2, <1>3, AccumulatorSteps
<1>5. acc \in [Pools -> Accumulator] /\ poolTick \in [Pools -> Ticks]
  BY DEF Bookkeeping, TypeOK
<1>6. acc' = [acc EXCEPT ![p] = Update(Advanced(p), block, t)]
  BY <1>1, <1>2
<1>7. acc' \in [Pools -> Accumulator] /\ poolTick' \in [Pools -> Ticks]
  BY <1>1, <1>4, <1>5, <1>6
<1>8. \A q \in Pools : acc'[q].lastTick = poolTick'[q]
  BY <1>1, <1>4, <1>5, <1>6 DEF Bookkeeping
<1> QED
  BY <1>1, <1>6, <1>7, <1>8

\* A swap that posts nothing leaves no record behind: the provisional one had
\* a fresh identifier, and goes.
LEMMA ClearedIsNothing ==
    ASSUME Bookkeeping, NEW p \in Pools, NEW x \in Executions, NEW h \in HookData
    PROVE  /\ DOMAIN Cleared(p, x, h) = DOMAIN bonds
           /\ \A b \in DOMAIN bonds : Cleared(p, x, h)[b] = bonds[b]
<1>1. NextBondId(p) \notin DOMAIN bonds
  BY FreshIdentifier
<1> QED
  BY <1>1 DEF Cleared, Prepared, Put, Delete

LEMMA SwapWithoutBondKeeps ==
    ASSUME Bookkeeping, NEW p \in Pools, NEW x \in Executions, NEW t \in Ticks,
           NEW h \in HookData, SwapWithoutBond(p, x, t, h)
    PROVE  Bookkeeping'
<1>1. /\ MovePrice(p, x, t, h)
      /\ maturity' = Checkpointed(p)
      /\ bonds' = Cleared(p, x, h)
      /\ balance' = balance
  BY DEF SwapWithoutBond
<1>2. /\ UNCHANGED <<block, initBlock, index, poolConfig, insurancePot, refunded, batch>>
      /\ poolTick' \in [Pools -> Ticks]
      /\ acc' \in [Pools -> Accumulator]
      /\ \A q \in Pools : acc'[q].lastTick = poolTick'[q]
  BY <1>1, MovePriceEffect
<1>3. DOMAIN bonds' = DOMAIN bonds /\ \A b \in DOMAIN bonds : bonds'[b] = bonds[b]
  BY <1>1, ClearedIsNothing
<1>4. /\ DOMAIN maturity' = DOMAIN maturity
      /\ \A k \in DOMAIN maturity : maturity'[k] \in Bucket /\ maturity'[k].pending = maturity[k].pending
  BY <1>1, CheckpointedFacts DEF Bookkeeping
<1>5. TypeOK'
  BY <1>1, <1>2, <1>3, <1>4 DEF Bookkeeping, TypeOK
<1>6. \A q \in Pools, n \in Nat : PendingIn(maturity', q, n) = PendingIn(maturity, q, n)
  BY <1>4 DEF PendingIn
<1>7. batch' \in Seq(DOMAIN bonds)
  BY <1>2 DEF Bookkeeping
<1> QED
  BY <1>2, <1>3, <1>5, <1>6, <1>7, BooksUntouched

\* A swap that qualifies was prepared: an exact-input swap consumed no more
\* than it asked for, and an exact-output one is always prepared.
LEMMA QualifiesPrepares ==
    ASSUME TypeOK, NEW p \in Pools, NEW x \in Executions, NEW bps,
           Qualifies(poolConfig[p], x, bps)
    PROVE  Prepares(poolConfig[p], x)
<1>1. poolConfig[p] \in PoolConfig
  BY DEF TypeOK
<1>2. MinInput(poolConfig[p], x) \in Nat
  BY <1>1 DEF MinInput, PoolConfig
<1>3. /\ x.requested \in Nat /\ x.input \in Nat
      /\ x.exactInput => x.input <= x.requested
  BY InputsAssumption
<1> QED
  BY <1>2, <1>3 DEF Qualifies, Prepares

\* The record a bonding swap writes.
LEMMA SwapWithBondRecord ==
    ASSUME Bookkeeping, NEW p \in Pools, NEW x \in Executions, NEW t \in Ticks,
           NEW h \in HookData, SwapWithBond(p, x, t, h)
    PROVE  /\ DOMAIN bonds' = DOMAIN bonds \cup {NextBondId(p)}
           /\ \A b \in DOMAIN bonds : bonds'[b] = bonds[b]
           /\ bonds'[NextBondId(p)] =
                 [refundRecipient |-> h.recipient, pool |-> p,
                  openBlock |-> block,
                  maturityBlock |-> block + OBSERVATION_BLOCKS,
                  variableLeg |-> VariableLeg(x),
                  tickBefore |-> poolTick[p], tickAfter |-> t,
                  collateralBps |-> SwapBps(p, t),
                  collateralIsCurrency0 |-> CollateralIsCurrency0(x),
                  state |-> "FINALIZED"]
<1> DEFINE id == NextBondId(p)
           r  == [refundRecipient |-> h.recipient, pool |-> p,
                  openBlock |-> block, maturityBlock |-> block + OBSERVATION_BLOCKS,
                  variableLeg |-> 0, tickBefore |-> Advanced(p).lastTick, tickAfter |-> 0,
                  collateralBps |-> 0, collateralIsCurrency0 |-> x.zeroForOne,
                  state |-> "PROVISIONAL"]
<1>1. Qualifies(poolConfig[p], x, SwapBps(p, t)) /\ bonds' = Finalize(p, x, t, h, SwapBps(p, t))
  BY DEF SwapWithBond
<1>2. Prepares(poolConfig[p], x)
  BY <1>1, QualifiesPrepares DEF Bookkeeping
<1>3. Prepared(p, x, h) = Put(bonds, id, r)
  BY <1>2 DEF Prepared
<1>4. Prepared(p, x, h)[id] = r
  BY <1>3 DEF Put
<1>5. bonds' = Put(bonds, id, [r EXCEPT !.variableLeg = VariableLeg(x), !.tickAfter = t,
                                       !.collateralBps = SwapBps(p, t),
                                       !.collateralIsCurrency0 = CollateralIsCurrency0(x),
                                       !.state = "FINALIZED"])
  BY <1>1, <1>4 DEF Finalize
<1>6. id \notin DOMAIN bonds
  BY FreshIdentifier
<1>7. Advanced(p).lastTick = poolTick[p]
  BY AdvancedFacts
<1> QED
  BY <1>5, <1>6, <1>7 DEF Put

LEMMA SwapBpsType ==
    ASSUME Bookkeeping, NEW p \in Pools, NEW t \in Ticks
    PROVE  SwapBps(p, t) \in 0 .. MAX_BOND_BPS
<1>1. Advanced(p) \in Accumulator /\ t \in Int
  BY AdvancedFacts, PoolsAssumption
<1>2. Advanced(p).lastTick \in Int /\ Advanced(p).blockStartTick \in Int
  BY <1>1 DEF Accumulator
<1> QED
  BY <1>1, <1>2, EffectiveCollateralBpsType DEF SwapBps

LEMMA ExecutionType ==
    ASSUME NEW x \in Executions
    PROVE  VariableLeg(x) \in Nat /\ CollateralIsCurrency0(x) \in BOOLEAN
<1>1. x \in [zeroForOne : BOOLEAN, exactInput : BOOLEAN,
             requested : Nat, input : Nat, output : Nat]
  BY InputsAssumption
<1> QED
  BY <1>1 DEF VariableLeg, CollateralIsCurrency0

\* The same, as facts about a named identifier and a named maturity.
LEMMA SwapWithBondSummary ==
    ASSUME Bookkeeping, NEW p \in Pools, NEW x \in Executions, NEW t \in Ticks,
           NEW h \in HookData, SwapWithBond(p, x, t, h),
           NEW id \in BondId, id = NextBondId(p),
           NEW m \in Nat, m = block + OBSERVATION_BLOCKS
    PROVE  /\ id \notin DOMAIN bonds
           /\ DOMAIN bonds' = DOMAIN bonds \cup {id}
           /\ \A b \in DOMAIN bonds : bonds'[b] = bonds[b]
           /\ bonds'[id].pool = p /\ bonds'[id].maturityBlock = m
           /\ bonds'[id].openBlock = block /\ bonds'[id].state = "FINALIZED"
           /\ block' = block
<1>1. id \notin DOMAIN bonds
  BY FreshIdentifier
<1>2. MovePrice(p, x, t, h)
  BY DEF SwapWithBond
<1>3. block' = block
  BY <1>2, MovePriceEffect
<1>4. /\ DOMAIN bonds' = DOMAIN bonds \cup {NextBondId(p)}
      /\ \A b \in DOMAIN bonds : bonds'[b] = bonds[b]
      /\ bonds'[NextBondId(p)] =
            [refundRecipient |-> h.recipient, pool |-> p,
             openBlock |-> block,
             maturityBlock |-> block + OBSERVATION_BLOCKS,
             variableLeg |-> VariableLeg(x),
             tickBefore |-> poolTick[p], tickAfter |-> t,
             collateralBps |-> SwapBps(p, t),
             collateralIsCurrency0 |-> CollateralIsCurrency0(x),
             state |-> "FINALIZED"]
  BY SwapWithBondRecord
<1> QED
  BY <1>1, <1>3, <1>4

LEMMA SwapWithBondType ==
    ASSUME Bookkeeping, NEW p \in Pools, NEW x \in Executions, NEW t \in Ticks,
           NEW h \in HookData, SwapWithBond(p, x, t, h)
    PROVE  bonds'[NextBondId(p)] \in Bond
<1>1. Qualifies(poolConfig[p], x, SwapBps(p, t)) /\ MovePrice(p, x, t, h)
  BY DEF SwapWithBond
<1>2. Prepares(poolConfig[p], x)
  BY <1>1, QualifiesPrepares DEF Bookkeeping
<1>3. h.recipient # ZeroAddress
  BY <1>1, <1>2 DEF MovePrice, Decodes
<1>4. h.recipient \in Recipients
  BY <1>3, InputsAssumption
<1>5. SwapBps(p, t) \in Nat
  BY SwapBpsType DEF MAX_BOND_BPS
<1>6. block \in Nat /\ block + OBSERVATION_BLOCKS \in Nat /\ poolTick[p] \in Ticks
  BY BasicTypes, HorizonFacts DEF Bookkeeping
<1>7. VariableLeg(x) \in Nat /\ CollateralIsCurrency0(x) \in BOOLEAN
  BY ExecutionType
<1>8. bonds'[NextBondId(p)] = [refundRecipient |-> h.recipient, pool |-> p,
                               openBlock |-> block,
                               maturityBlock |-> block + OBSERVATION_BLOCKS,
                               variableLeg |-> VariableLeg(x),
                               tickBefore |-> poolTick[p], tickAfter |-> t,
                               collateralBps |-> SwapBps(p, t),
                               collateralIsCurrency0 |-> CollateralIsCurrency0(x),
                               state |-> "FINALIZED"]
  BY SwapWithBondRecord
<1> QED
  BY <1>4, <1>5, <1>6, <1>7, <1>8 DEF Bond

\* The buckets after a bonding swap: checkpointed, and one count higher.
LEMMA SwapWithBondBuckets ==
    ASSUME Bookkeeping, NEW p \in Pools, NEW x \in Executions, NEW t \in Ticks,
           NEW h \in HookData, SwapWithBond(p, x, t, h),
           NEW m \in Nat, m = block + OBSERVATION_BLOCKS
    PROVE  /\ DOMAIN maturity' \subseteq Pools \X Nat
           /\ \A k \in DOMAIN maturity' : maturity'[k] \in Bucket
           /\ PendingIn(maturity', p, m) = PendingIn(maturity, p, m) + 1
           /\ \A q \in Pools, n \in Nat : q # p \/ n # m =>
                 PendingIn(maturity', q, n) = PendingIn(maturity, q, n)
<1> DEFINE new == [BucketOf(p, m) EXCEPT !.pending = @ + 1]
           key == <<p, m>>
<1>1. BucketOf(p, m) \in Bucket
  BY BucketOfType DEF Bookkeeping
<1>2. new \in Bucket /\ new.pending = BucketOf(p, m).pending + 1
  BY <1>1 DEF Bucket
<1>3. key \in Pools \X Nat
  OBVIOUS
<1>4. maturity' = Put(Checkpointed(p), key, new)
  BY DEF SwapWithBond, Registered
<1> HIDE DEF new
<1>5. /\ DOMAIN Checkpointed(p) = DOMAIN maturity
      /\ \A k \in DOMAIN maturity : /\ Checkpointed(p)[k] \in Bucket
                                    /\ Checkpointed(p)[k].pending = maturity[k].pending
  BY CheckpointedFacts DEF Bookkeeping
<1>6. /\ DOMAIN maturity' = DOMAIN maturity \cup {key}
      /\ maturity'[key] = new
      /\ \A k \in DOMAIN maturity : k # key =>
            maturity'[k] \in Bucket /\ maturity'[k].pending = maturity[k].pending
  BY <1>4, <1>5 DEF Put
<1>7. DOMAIN maturity' \subseteq Pools \X Nat
  BY <1>3, <1>6 DEF Bookkeeping, TypeOK
<1>8. \A k \in DOMAIN maturity' : maturity'[k] \in Bucket
  BY <1>2, <1>6
<1>9. PendingIn(maturity', p, m) = PendingIn(maturity, p, m) + 1
  BY <1>2, <1>6 DEF PendingIn, BucketOf, EmptyBucket
<1>10. \A q \in Pools, n \in Nat : q # p \/ n # m =>
          PendingIn(maturity', q, n) = PendingIn(maturity, q, n)
  BY <1>6 DEF PendingIn
<1> QED
  BY <1>7, <1>8, <1>9, <1>10

LEMMA SwapWithBondCounts ==
    ASSUME Bookkeeping, NEW p \in Pools, NEW x \in Executions, NEW t \in Ticks,
           NEW h \in HookData, SwapWithBond(p, x, t, h)
    PROVE  BucketsCountBonds'
<1> SUFFICES ASSUME NEW q \in Pools, NEW n \in 0 .. MaxBlock + OBSERVATION_BLOCKS
             PROVE  PendingIn(maturity', q, n) = Cardinality(Unsettled(q, n)')
  BY DEF BucketsCountBonds, Unsettled, BucketOf, EmptyBucket, PendingIn
<1>1. PICK m \in Nat : m = block + OBSERVATION_BLOCKS
  BY BasicTypes, HorizonFacts DEF Bookkeeping
<1>2. PICK id \in BondId : id = NextBondId(p)
  BY FreshIdentifier
<1>3. id \notin DOMAIN bonds
  BY <1>1, <1>2, SwapWithBondSummary
<1>4. /\ DOMAIN bonds' = DOMAIN bonds \cup {id}
      /\ \A b \in DOMAIN bonds : bonds'[b] = bonds[b]
      /\ bonds'[id].pool = p /\ bonds'[id].maturityBlock = m
      /\ bonds'[id].state = "FINALIZED"
  BY <1>1, <1>2, SwapWithBondSummary
<1>5. PendingIn(maturity, q, n) = Cardinality(Unsettled(q, n))
  BY DEF Bookkeeping, BucketsCountBonds, Unsettled, BucketOf, EmptyBucket, PendingIn
<1>6. IsFiniteSet(Unsettled(q, n))
  BY UnsettledFinite
<1>7. n \in Nat
  BY HorizonFacts
<1>8. CASE q = p /\ n = m
  <2>1. Unsettled(q, n)' = Unsettled(q, n) \cup {id} /\ id \notin Unsettled(q, n)
    BY <1>3, <1>4, <1>8 DEF Unsettled, Finalized
  <2>2. Cardinality(Unsettled(q, n) \cup {id}) = Cardinality(Unsettled(q, n)) + 1
    BY <2>1, <1>6, FS_AddElement
  <2>3. PendingIn(maturity', q, n) = PendingIn(maturity, q, n) + 1
    BY <1>1, <1>8, SwapWithBondBuckets
  <2> QED
    BY <2>1, <2>2, <2>3, <1>5
<1>9. CASE q # p \/ n # m
  <2>1. Unsettled(q, n)' = Unsettled(q, n)
    BY <1>3, <1>4, <1>9 DEF Unsettled, Finalized
  <2>2. \A r \in Pools, k \in Nat : r # p \/ k # m =>
            PendingIn(maturity', r, k) = PendingIn(maturity, r, k)
    BY <1>1, SwapWithBondBuckets
  <2>3. PendingIn(maturity', q, n) = PendingIn(maturity, q, n)
    BY <1>7, <1>9, <2>2
  <2> QED
    BY <2>1, <2>3, <1>5
<1> QED
  BY <1>8, <1>9

LEMMA SwapWithBondWellFormed ==
    ASSUME Bookkeeping, NEW p \in Pools, NEW x \in Executions, NEW t \in Ticks,
           NEW h \in HookData, SwapWithBond(p, x, t, h)
    PROVE  \A b \in DOMAIN bonds' : WellFormed(b)'
<1>1. PICK m \in Nat : m = block + OBSERVATION_BLOCKS
  BY BasicTypes, HorizonFacts DEF Bookkeeping
<1>2. PICK id \in BondId : id = NextBondId(p)
  BY FreshIdentifier
<1>3. /\ DOMAIN bonds' = DOMAIN bonds \cup {id}
      /\ \A b \in DOMAIN bonds : bonds'[b] = bonds[b]
      /\ bonds'[id].pool = p /\ bonds'[id].maturityBlock = m
      /\ bonds'[id].openBlock = block /\ bonds'[id].state = "FINALIZED"
  BY <1>1, <1>2, SwapWithBondSummary
<1>4. block' = block /\ block \in Nat /\ block \in 1 .. block
  <2>1. block' = block
    BY <1>1, <1>2, SwapWithBondSummary
  <2> QED
    BY <2>1, BasicTypes DEF Bookkeeping, TypeOK
<1>5. \A r \in Pools, k \in Nat : r # p \/ k # m =>
          PendingIn(maturity', r, k) = PendingIn(maturity, r, k)
  BY <1>1, SwapWithBondBuckets
<1>6. PendingIn(maturity', p, m) = PendingIn(maturity, p, m) + 1
  BY <1>1, SwapWithBondBuckets
<1>7. ASSUME NEW r \in Pools, NEW k \in Nat
      PROVE  PendingIn(maturity, r, k) \in Nat
  BY DEF PendingIn, Bookkeeping, TypeOK, Bucket
<1>8. id[1] = p /\ id[2] = m /\ id[3] = PendingIn(maturity, p, m)
  BY <1>1, <1>2 DEF NextBondId, BucketOf, EmptyBucket, PendingIn
<1>9. WellFormed(id)'
  <2>1. id[3] < PendingIn(maturity', id[1], id[2])
    BY <1>6, <1>7, <1>8
  <2> QED
    BY <2>1, <1>1, <1>3, <1>4, <1>8 DEF WellFormed
<1>10. ASSUME NEW b \in DOMAIN bonds
       PROVE  WellFormed(b)'
  <2>1. WellFormed(b) /\ b[1] \in Pools /\ b[2] \in Nat /\ bonds'[b] = bonds[b]
    BY <1>3 DEF Bookkeeping, TypeOK, BondId
  <2>2. PendingIn(maturity', b[1], b[2]) >= PendingIn(maturity, b[1], b[2])
    <3>1. CASE b[1] = p /\ b[2] = m
      BY <3>1, <1>6, <1>7
    <3>2. CASE b[1] # p \/ b[2] # m
      BY <3>2, <2>1, <1>5, <1>7
    <3> QED
      BY <3>1, <3>2
  <2>3. /\ PendingIn(maturity, b[1], b[2]) \in Nat
        /\ PendingIn(maturity', b[1], b[2]) \in Nat
        /\ b[3] \in Nat
    <3>1. PendingIn(maturity', b[1], b[2]) \in Nat
      <4>1. CASE b[1] = p /\ b[2] = m
        BY <4>1, <1>6, <1>7
      <4>2. CASE b[1] # p \/ b[2] # m
        BY <4>2, <2>1, <1>5, <1>7
      <4> QED
        BY <4>1, <4>2
    <3>2. b[3] \in Nat
      BY DEF Bookkeeping, TypeOK, BondId
    <3> QED
      BY <2>1, <1>7, <3>1, <3>2
  <2> QED
    BY <2>1, <2>2, <2>3, <1>4 DEF WellFormed
<1> QED
  BY <1>3, <1>9, <1>10

LEMMA SwapWithBondBalance ==
    ASSUME Bookkeeping, NEW p \in Pools, NEW x \in Executions, NEW t \in Ticks,
           NEW h \in HookData, SwapWithBond(p, x, t, h)
    PROVE  balance' \in [Currencies -> Nat]
<1> DEFINE bond == CollateralOf(VariableLeg(x), SwapBps(p, t))
           c    == Currency(p, CollateralIsCurrency0(x))
<1>1. bond \in Nat
  BY ExecutionType, SwapBpsType, CollateralOfBounds
<1>2. c \in Currencies
  BY ExecutionType, CurrencyType
<1>3. balance' = [balance EXCEPT ![c] = @ + bond]
  BY DEF SwapWithBond
<1>4. balance \in [Currencies -> Nat]
  BY DEF Bookkeeping, TypeOK
<1> HIDE DEF bond, c
<1> QED
  BY <1>1, <1>2, <1>3, <1>4

LEMMA SwapWithBondKeeps ==
    ASSUME Bookkeeping, NEW p \in Pools, NEW x \in Executions, NEW t \in Ticks,
           NEW h \in HookData, SwapWithBond(p, x, t, h)
    PROVE  Bookkeeping'
<1>1. PICK m \in Nat : m = block + OBSERVATION_BLOCKS
  BY BasicTypes, HorizonFacts DEF Bookkeeping
<1>2. PICK id \in BondId : id = NextBondId(p)
  BY FreshIdentifier
<1>3. DOMAIN bonds' = DOMAIN bonds \cup {id} /\ \A b \in DOMAIN bonds : bonds'[b] = bonds[b]
  BY <1>1, <1>2, SwapWithBondSummary
<1>4. MovePrice(p, x, t, h)
  BY DEF SwapWithBond
<1>5. /\ UNCHANGED <<block, initBlock, index, poolConfig, insurancePot, refunded, batch>>
      /\ batch = << >>
      /\ poolTick' \in [Pools -> Ticks]
      /\ acc' \in [Pools -> Accumulator]
      /\ \A q \in Pools : acc'[q].lastTick = poolTick'[q]
  BY <1>4, MovePriceEffect
<1>6. DOMAIN maturity' \subseteq Pools \X Nat /\ \A k \in DOMAIN maturity' : maturity'[k] \in Bucket
  BY <1>1, SwapWithBondBuckets
<1>7. bonds'[id] \in Bond
  BY <1>2, SwapWithBondType
<1>8. DOMAIN bonds' \subseteq BondId /\ \A b \in DOMAIN bonds' : bonds'[b] \in Bond
  BY <1>3, <1>7 DEF Bookkeeping, TypeOK
<1>9. TypeOK'
  BY <1>5, <1>6, <1>8, SwapWithBondBalance DEF Bookkeeping, TypeOK
<1>10. IsFiniteSet(DOMAIN bonds')
  BY <1>3, FS_AddElement DEF Bookkeeping
<1>11. batch' \in Seq(DOMAIN bonds')
  BY <1>5
<1> QED
  BY <1>5, <1>9, <1>10, <1>11, SwapWithBondWellFormed, SwapWithBondCounts DEF Bookkeeping

-------------------------------------------------------------------------------
(* The theorems. *)

LEMMA InitBookkeeping == Init => Bookkeeping
<1> SUFFICES ASSUME Init PROVE Bookkeeping
  OBVIOUS
<1>1. NoHistory \in Accumulator /\ NoHistory.lastTick = 0
  BY DEF NoHistory, Accumulator
<1>2. Unconfigured \in PoolConfig
  BY DEF Unconfigured, PoolConfig
<1>3. DOMAIN bonds = {} /\ DOMAIN maturity = {}
  BY DEF Init, Unwritten
<1>4. TypeOK
  <2>1. block \in 1 .. MaxBlock /\ 1 \in 0 .. block
    BY HorizonAssumption DEF Init
  <2>2. batch \in Seq(BondId)
    BY DEF Init
  <2> QED
    BY <1>1, <1>2, <1>3, <2>1, <2>2, PoolsAssumption DEF Init, TypeOK
<1>5. IsFiniteSet(DOMAIN bonds) /\ batch \in Seq(DOMAIN bonds)
  BY <1>3, FS_EmptySet DEF Init
<1>6. \A p \in Pools : acc[p].lastTick = poolTick[p]
  BY <1>1 DEF Init
<1>7. BucketsCountBonds
  <2> SUFFICES ASSUME NEW p \in Pools, NEW m \in 0 .. MaxBlock + OBSERVATION_BLOCKS
               PROVE  BucketOf(p, m).pending = Cardinality(Unsettled(p, m))
    BY DEF BucketsCountBonds, Unsettled
  <2>1. BucketOf(p, m).pending = 0
    BY <1>3 DEF BucketOf, EmptyBucket
  <2>2. Unsettled(p, m) = {}
    BY <1>3 DEF Unsettled, Finalized
  <2> QED
    BY <2>1, <2>2, FS_EmptySet
<1> QED
  BY <1>3, <1>4, <1>5, <1>6, <1>7 DEF Bookkeeping

LEMMA NextBookkeeping == Bookkeeping /\ [Next]_vars => Bookkeeping'
<1> SUFFICES ASSUME Bookkeeping, [Next]_vars PROVE Bookkeeping'
  OBVIOUS
<1>1. CASE \E p \in Pools, t \in Ticks : AfterInitialize(p, t)
  BY <1>1, AfterInitializeKeeps
<1>2. CASE \E p \in Pools, cfg \in Configs : SetPoolConfig(p, cfg)
  BY <1>2, SetPoolConfigKeeps
<1>3. CASE \E p \in Pools, x \in Executions, t \in Ticks, h \in HookData : SwapWithoutBond(p, x, t, h)
  BY <1>3, SwapWithoutBondKeeps
<1>4. CASE \E p \in Pools, x \in Executions, t \in Ticks, h \in HookData : SwapWithBond(p, x, t, h)
  BY <1>4, SwapWithBondKeeps
<1>5. CASE \E b \in DOMAIN bonds : SettleBond(b)
  <2>1. PICK b \in DOMAIN bonds : SettleBond(b)
    BY <1>5
  <2>2. Settle(b) /\ batch' \in Seq(DOMAIN bonds)
    BY <2>1 DEF SettleBond, Bookkeeping
  <2> QED
    BY <2>2, SettleKeeps
<1>6. CASE \E n \in 1 .. MAX_SETTLE_BATCH : \E ids \in [1 .. n -> DOMAIN bonds] : SettleMany(ids)
  BY <1>6, SettleManyKeeps
<1>7. CASE SettleNext
  <2>1. batch \in Seq(DOMAIN bonds) /\ batch # << >>
    BY <1>7 DEF SettleNext, Idle, Bookkeeping
  <2>2. Head(batch) \in DOMAIN bonds /\ Tail(batch) \in Seq(DOMAIN bonds)
    BY <2>1
  <2>3. Settle(Head(batch)) /\ batch' = Tail(batch)
    BY <1>7 DEF SettleNext
  <2>4. PICK b \in DOMAIN bonds : b = Head(batch)
    BY <2>2
  <2>5. Settle(b) /\ batch' \in Seq(DOMAIN bonds)
    BY <2>2, <2>3, <2>4
  <2> QED
    BY <2>5, SettleKeeps
<1>8. CASE \E p \in Pools, m \in 0 .. block : ResolveEndpoints(p, m)
  BY <1>8, ResolveEndpointsKeeps
<1>9. CASE NextBlock
  BY <1>9, NextBlockKeeps
<1>10. CASE UNCHANGED vars
  <2>1. UNCHANGED <<block, poolTick, initBlock, index, acc, poolConfig, maturity, bonds,
                    insurancePot, balance, refunded, batch>>
    BY <1>10 DEF vars, environment, contract, tokens
  <2>2. TypeOK'
    BY <2>1 DEF Bookkeeping, TypeOK
  <2>3. batch' \in Seq(DOMAIN bonds)
    BY <2>1 DEF Bookkeeping
  <2>4. \A p \in Pools : acc'[p].lastTick = poolTick'[p]
    BY <2>1 DEF Bookkeeping
  <2> QED
    BY <2>1, <2>2, <2>3, <2>4, BooksUntouched
<1> QED
  BY <1>1, <1>2, <1>3, <1>4, <1>5, <1>6, <1>7, <1>8, <1>9, <1>10 DEF Next

\* The strengthened invariant holds of every behaviour.
THEOREM BooksKept == Spec => []Bookkeeping
BY InitBookkeeping, NextBookkeeping, PTL DEF Spec

\* Every variable has its type; in particular no count, balance or reserve
\* ever falls below zero (settleMany and settleBond subtract from both).
THEOREM TypesCorrect == Spec => []TypeOK
<1>1. Bookkeeping => TypeOK
  BY DEF Bookkeeping
<1> QED
  BY <1>1, BooksKept, PTL

\* A bucket counts exactly its unsettled bonds (_finalizeBond, _settleBond).
THEOREM CountsExact == Spec => []BucketsCountBonds
<1>1. Bookkeeping => BucketsCountBonds
  BY DEF Bookkeeping
<1> QED
  BY <1>1, BooksKept, PTL

\* No half-open record survives a transaction (_takeVariableLegBond).
THEOREM NoProvisionalRecord == Spec => []NothingProvisional
<1>1. Bookkeeping => NothingProvisional
  BY DEF Bookkeeping, NothingProvisional, WellFormed
<1> QED
  BY <1>1, BooksKept, PTL

-------------------------------------------------------------------------------
(* The inductive invariant: the accumulator extends to the true price      *)
(* history, and a bucket with unsettled bonds was opened no later than the *)
(* last update and has no endpoint at or before it unfrozen, so that the   *)
(* next scan, which starts after it, will meet every one that falls due.   *)

History(a, h, now, born) ==
    /\ a.lastUpdate <= now
    /\ a.lastUpdate = 0 => a = NoHistory
    /\ born # 0 <=> a.lastUpdate # 0
    /\ \A b \in a.lastUpdate .. now : h[b] = Extended(a, b)

Exact(bucket, h, m, now) ==
    \A e \in bucket.frozen :
        /\ m - Offset[e] \in 0 .. now
        /\ bucket.cumulative[e] = h[m - Offset[e]]

Covered(bucket, last, m) ==
    bucket.pending > 0 =>
        /\ m - OBSERVATION_BLOCKS \in 1 .. last
        /\ \A e \in Endpoint \ bucket.frozen : m - Offset[e] > last

Priced ==
    /\ Bookkeeping
    /\ \A p \in Pools : History(acc[p], index[p], block, initBlock[p])
    /\ \A k \in DOMAIN maturity :
          /\ Exact(maturity[k], index[k[1]], k[2], block)
          /\ Covered(maturity[k], acc[k[1]].lastUpdate, k[2])

-------------------------------------------------------------------------------
(* One bucket, one accumulator. *)

LEMMA ExtendedSteps ==
    ASSUME NEW a \in Accumulator, NEW n \in Nat
    PROVE  /\ Extended(a, n) \in Int
           /\ Extended(a, n + 1) = Extended(a, n) + a.lastTick
           /\ a.lastUpdate = n => Extended(a, n) = a.tickCumulative
<1> DEFINE l == a.lastTick
           d == n - a.lastUpdate
<1>1. l \in Int /\ d \in Int /\ a.tickCumulative \in Int /\ a.lastUpdate \in Nat
  BY DEF Accumulator
<1>2. Extended(a, n) = a.tickCumulative + l * d
  BY DEF Extended
<1>3. Extended(a, n + 1) = a.tickCumulative + l * (d + 1)
  <2>1. (n + 1) - a.lastUpdate = d + 1
    BY <1>1
  <2>2. Extended(a, n + 1) = a.tickCumulative + a.lastTick * ((n + 1) - a.lastUpdate)
    BY DEF Extended
  <2> QED
    BY <2>1, <2>2
<1>4. a.lastUpdate = n => d = 0
  BY <1>1
<1> HIDE DEF l, d
<1>5. l * (d + 1) = l * d + l /\ l * d \in Int /\ l * 0 = 0
  BY <1>1
<1> QED
  BY <1>1, <1>2, <1>3, <1>4, <1>5 DEF l

LEMMA FreezeExact ==
    ASSUME NEW bucket \in Bucket, NEW m \in Nat, NEW a \in Accumulator, NEW now \in Nat,
           NEW h \in [0 .. now -> Int], NEW due \in SUBSET Endpoint,
           \A b \in a.lastUpdate .. now : h[b] = Extended(a, b),
           \A e \in due : m - Offset[e] \in a.lastUpdate .. now,
           Exact(bucket, h, m, now)
    PROVE  Exact(Freeze(bucket, m, a, due), h, m, now)
<1> DEFINE new == Freeze(bucket, m, a, due)
<1>1. /\ new.frozen = bucket.frozen \cup due
      /\ \A e \in Endpoint : new.cumulative[e] =
            IF e \in due THEN CumulativeAt(a, m - Offset[e]) ELSE bucket.cumulative[e]
  <2>1. /\ Freeze(bucket, m, a, due).frozen = bucket.frozen \cup due
        /\ \A e \in Endpoint : Freeze(bucket, m, a, due).cumulative[e] =
              IF e \in due THEN CumulativeAt(a, m - Offset[e]) ELSE bucket.cumulative[e]
    BY FreezeType
  <2> QED
    BY <2>1
<1> HIDE DEF new
<1>2. bucket.frozen \subseteq Endpoint /\ a.lastUpdate \in Nat
  BY DEF Bucket, Accumulator
<1>3. ASSUME NEW e \in due
      PROVE  m - Offset[e] \in 0 .. now /\ h[m - Offset[e]] = CumulativeAt(a, m - Offset[e])
  <2>1. m - Offset[e] \in a.lastUpdate .. now
    OBVIOUS
  <2> QED
    BY <2>1, <1>2 DEF CumulativeAt
<1>4. Exact(new, h, m, now)
  BY <1>1, <1>2, <1>3 DEF Exact
<1> QED
  BY <1>4 DEF new

\* What a scan freezes is exact: each reading lies after the last update.
LEMMA ScanExact ==
    ASSUME NEW bucket \in Bucket, NEW m \in Nat, NEW a \in Accumulator, NEW now \in Nat,
           NEW h \in [0 .. now -> Int],
           \A b \in a.lastUpdate .. now : h[b] = Extended(a, b),
           Exact(bucket, h, m, now)
    PROVE  Exact(FreezeDueEndpoints(bucket, m, a, now), h, m, now)
<1> DEFINE due == Due(bucket, m, a.lastUpdate, now)
<1>1. due \in SUBSET Endpoint
  BY DEF Due
<1>2. \A e \in due : m - Offset[e] \in a.lastUpdate .. now
  BY OffsetType DEF Due, Accumulator
<1> HIDE DEF due
<1>3. Exact(Freeze(bucket, m, a, due), h, m, now)
  BY <1>1, <1>2, FreezeExact
<1> QED
  BY <1>3 DEF FreezeDueEndpoints, due

\* The heart of the matter: whichever bucket the scan leaves out, none of its
\* endpoints fell due; whichever it visits, it freezes all that did.
LEMMA ScanCovers ==
    ASSUME NEW bucket \in Bucket, NEW m \in Nat, NEW a \in Accumulator, NEW now \in Nat,
           a.lastUpdate <= now, Covered(bucket, a.lastUpdate, m),
           NEW scan, scan = IF a.lastUpdate = 0 \/ now <= a.lastUpdate
                            THEN {} ELSE ScannedBuckets(a.lastUpdate, now)
    PROVE  Covered(IF m \in scan THEN FreezeDueEndpoints(bucket, m, a, now) ELSE bucket, now, m)
<1> DEFINE last == a.lastUpdate
           due  == Due(bucket, m, last, now)
           new  == IF m \in scan THEN FreezeDueEndpoints(bucket, m, a, now) ELSE bucket
<1>1. last \in Nat /\ bucket.pending \in Nat /\ bucket.frozen \subseteq Endpoint
  BY DEF Accumulator, Bucket
<1>2. new.pending = bucket.pending
  BY FreezeDueType
<1> SUFFICES ASSUME bucket.pending > 0
             PROVE  /\ m - OBSERVATION_BLOCKS \in 1 .. now
                    /\ \A e \in Endpoint \ new.frozen : m - Offset[e] > now
  BY <1>2 DEF Covered
<1>3. /\ m - OBSERVATION_BLOCKS \in 1 .. last
      /\ \A e \in Endpoint \ bucket.frozen : m - Offset[e] > last
  BY DEF Covered
<1>4. m - OBSERVATION_BLOCKS \in 1 .. now
  BY <1>1, <1>3, HorizonFacts
<1>5. ASSUME NEW e \in Endpoint \ new.frozen, m - Offset[e] <= now
      PROVE  FALSE
  <2>1. Offset[e] \in Nat /\ Offset[e] <= C6_OFFSET_FROM_MATURITY /\ C6_OFFSET_FROM_MATURITY \in Nat
    BY OffsetType
  <2>2. bucket.frozen \subseteq new.frozen
    <3>1. due \in SUBSET Endpoint
      BY DEF Due
    <3> HIDE DEF due
    <3>2. Freeze(bucket, m, a, due).frozen = bucket.frozen \cup due
      BY <3>1, FreezeType
    <3> QED
      BY <3>2 DEF FreezeDueEndpoints, due
  <2>3. m - Offset[e] > last
    BY <1>3, <2>2
  <2>4. now > last /\ last # 0
    BY <1>1, <1>3, <1>5, <2>1, <2>3, HorizonFacts
  <2>5. /\ m >= last + 1
        /\ m <= now + C6_OFFSET_FROM_MATURITY
        /\ m <= last + OBSERVATION_BLOCKS
    BY <1>1, <1>3, <1>5, <2>1, <2>3, HorizonFacts
  <2>6. m \in ScannedBuckets(last, now)
    BY <1>1, <2>1, <2>5, HorizonFacts DEF ScannedBuckets, Least
  <2>7. m \in scan
    BY <1>1, <2>4, <2>6
  <2>8. m >= C6_OFFSET_FROM_MATURITY
    BY <1>3, <2>1, HorizonAssumption
  <2>9. new = Freeze(bucket, m, a, due)
    BY <1>1, <2>1, <2>7, <2>8 DEF FreezeDueEndpoints
  <2>10. e \in due \/ e \in bucket.frozen
    BY <1>5, <2>3 DEF Due
  <2>11. due \in SUBSET Endpoint
    BY DEF Due
  <2> HIDE DEF due
  <2>12. Freeze(bucket, m, a, due).frozen = bucket.frozen \cup due
    BY <2>11, FreezeType
  <2> QED
    BY <1>5, <2>9, <2>10, <2>12
<1>6. ASSUME NEW e \in Endpoint \ new.frozen
      PROVE  m - Offset[e] > now
  BY <1>5, OffsetType
<1> QED
  BY <1>4, <1>6

-------------------------------------------------------------------------------
(* One step. *)

LEMMA PricedFacts ==
    ASSUME Priced, NEW p \in Pools
    PROVE  /\ acc[p] \in Accumulator
           /\ index[p] \in [0 .. block -> Int]
           /\ block \in Nat
           /\ acc[p].lastUpdate \in Nat /\ acc[p].lastUpdate <= block
           /\ \A b \in acc[p].lastUpdate .. block : index[p][b] = Extended(acc[p], b)
<1>1. TypeOK
  BY DEF Priced, Bookkeeping
<1>2. acc[p] \in Accumulator /\ index[p] \in [0 .. block -> Int] /\ block \in Nat
  BY <1>1, BasicTypes DEF TypeOK
<1> QED
  BY <1>2 DEF Priced, History, Accumulator

\* The buckets after the scan of pool p: exact, and good until the new update.
LEMMA CheckpointedPriced ==
    ASSUME Priced, NEW p \in Pools, NEW k \in DOMAIN maturity
    PROVE  /\ Exact(Checkpointed(p)[k], index[k[1]], k[2], block)
           /\ Covered(Checkpointed(p)[k], IF k[1] = p THEN block ELSE acc[k[1]].lastUpdate, k[2])
<1>1. TypeOK /\ k \in Pools \X Nat /\ maturity[k] \in Bucket
  BY DEF Priced, Bookkeeping, TypeOK
<1>2. PICK m \in Nat : m = k[2]
  BY <1>1
<1>3. Exact(maturity[k], index[k[1]], m, block) /\ Covered(maturity[k], acc[k[1]].lastUpdate, m)
  BY <1>2 DEF Priced
<1>4. CASE k[1] # p
  <2>1. Checkpointed(p)[k] = maturity[k]
    BY <1>4 DEF Checkpointed
  <2> QED
    BY <1>2, <1>3, <1>4, <2>1
<1>5. CASE k[1] = p
  <2> DEFINE a    == acc[p]
             scan == IF a.lastUpdate = 0 \/ block <= a.lastUpdate
                     THEN {} ELSE ScannedBuckets(a.lastUpdate, block)
             new  == FreezeDueEndpoints(maturity[k], m, a, block)
  <2>1. Checkpointed(p)[k] = IF m \in scan THEN new ELSE maturity[k]
    BY <1>2, <1>5 DEF Checkpointed
  <2>2. /\ a \in Accumulator /\ index[p] \in [0 .. block -> Int] /\ block \in Nat
        /\ a.lastUpdate <= block
        /\ \A b \in a.lastUpdate .. block : index[p][b] = Extended(a, b)
    BY PricedFacts
  <2>3. Exact(maturity[k], index[p], m, block) /\ Covered(maturity[k], a.lastUpdate, m)
    BY <1>3, <1>5
  <2> HIDE DEF a
  <2>4. Exact(new, index[p], m, block)
    BY <1>1, <2>2, <2>3, ScanExact
  <2>5. Covered(IF m \in scan THEN new ELSE maturity[k], block, m)
    BY <1>1, <2>2, <2>3, ScanCovers
  <2> HIDE DEF scan, new
  <2> QED
    BY <1>2, <1>5, <2>1, <2>3, <2>4, <2>5
<1> QED
  BY <1>4, <1>5

\* A swap brings the accumulator up to date without leaving the history.
LEMMA MovePriceHistory ==
    ASSUME Priced, NEW p \in Pools, NEW x \in Executions, NEW t \in Ticks,
           NEW h \in HookData, MovePrice(p, x, t, h)
    PROVE  /\ block' = block /\ index' = index
           /\ \A q \in Pools : History(acc'[q], index[q], block, initBlock'[q])
           /\ \A q \in Pools : acc'[q].lastUpdate = IF q = p THEN block ELSE acc[q].lastUpdate
<1> DEFINE a   == acc[p]
           b   == BeginBlock(a, block, poolTick[p])
           mid == Update(b, block, poolTick[p])
           new == Update(mid, block, t)
<1>1. Bookkeeping /\ TypeOK
  BY DEF Priced, Bookkeeping
<1>2. /\ UNCHANGED <<block, initBlock, index>>
      /\ acc' = [acc EXCEPT ![p] = Update(Advanced(p), block, t)]
      /\ acc \in [Pools -> Accumulator]
  BY <1>1, MovePriceEffect DEF TypeOK
<1>3. /\ a \in Accumulator /\ block \in Nat /\ block # 0 /\ index[p] \in [0 .. block -> Int]
      /\ poolTick[p] \in Int /\ t \in Int /\ a.lastTick = poolTick[p]
  <2>1. block \in 1 .. MaxBlock /\ index[p] \in [0 .. block -> Int]
    BY <1>1 DEF TypeOK
  <2>2. acc[p] \in Accumulator /\ poolTick[p] \in Int /\ acc[p].lastTick = poolTick[p]
    BY <1>1, BasicTypes DEF Bookkeeping
  <2> QED
    BY <2>1, <2>2, PoolsAssumption, HorizonFacts
<1>4. /\ a.lastUpdate \in Nat /\ a.lastUpdate <= block /\ a.lastUpdate # 0
      /\ initBlock[p] # 0
      /\ \A i \in a.lastUpdate .. block : index[p][i] = Extended(a, i)
  BY <1>3 DEF Priced, History, Accumulator, MovePrice, Initialized
<1>5. Advanced(p) = mid
  <2>1. Uint32(block) = block
    BY <1>1, BasicTypes, Uint32Exact
  <2>2. b.lastTick = poolTick[p]
    BY <1>3, AccumulatorSteps
  <2> QED
    BY <1>3, <2>1, <2>2 DEF Advanced
<1> HIDE DEF a
<1>6. /\ b \in Accumulator /\ b.lastTick = a.lastTick /\ b.lastUpdate = a.lastUpdate
      /\ b.tickCumulative = a.tickCumulative
  BY <1>3, AccumulatorSteps
<1>7. Extended(b, block) = Extended(a, block)
  BY <1>6 DEF Extended
<1> HIDE DEF b
<1>8. /\ mid \in Accumulator /\ mid.lastUpdate = block
      /\ mid.tickCumulative = Extended(a, block)
  BY <1>3, <1>4, <1>6, <1>7, AccumulatorSteps
<1> HIDE DEF mid
<1>9. /\ new \in Accumulator /\ new.lastUpdate = block
      /\ new.tickCumulative = Extended(mid, block)
  BY <1>3, <1>8, AccumulatorSteps
<1>10. Extended(mid, block) = mid.tickCumulative
  BY <1>3, <1>8, ExtendedSteps
<1> HIDE DEF new
<1>11. Extended(new, block) = index[p][block]
  <2>1. Extended(new, block) = new.tickCumulative
    BY <1>3, <1>9, ExtendedSteps
  <2>2. index[p][block] = Extended(a, block)
    BY <1>3, <1>4
  <2> QED
    BY <1>8, <1>9, <1>10, <2>1, <2>2
<1>12. acc' = [acc EXCEPT ![p] = new]
  BY <1>2, <1>5 DEF new
<1>13. History(new, index[p], block, initBlock[p])
  BY <1>3, <1>4, <1>9, <1>11 DEF History
<1>14. \A q \in Pools : History(acc[q], index[q], block, initBlock[q])
  BY DEF Priced
<1> QED
  BY <1>2, <1>9, <1>12, <1>13, <1>14 DEF a

\* What a settlement or a stranger resolves is exact.
LEMMA ResolvedExact ==
    ASSUME Priced, NEW p \in Pools, NEW m \in Nat,
           \A e \in Endpoint : Resolvable(p, m, e)
    PROVE  Exact(Resolved(p, m), index[p], m, block)
<1> DEFINE bucket == BucketOf(p, m)
           due    == Endpoint \ bucket.frozen
<1>1. /\ acc[p] \in Accumulator /\ index[p] \in [0 .. block -> Int] /\ block \in Nat
      /\ \A b \in acc[p].lastUpdate .. block : index[p][b] = Extended(acc[p], b)
  BY PricedFacts
<1>2. bucket \in Bucket
  BY BucketOfType DEF Priced, Bookkeeping
<1>3. \A e \in due : m - Offset[e] \in acc[p].lastUpdate .. block
  BY DEF Resolvable, InDomain
<1>4. Exact(bucket, index[p], m, block)
  BY DEF Exact, BucketOf, EmptyBucket, Priced
<1>5. due \in SUBSET Endpoint
  OBVIOUS
<1>6. Resolved(p, m) = Freeze(bucket, m, acc[p], due)
  BY DEF Resolved
<1> HIDE DEF due, bucket
<1> QED
  BY <1>1, <1>2, <1>3, <1>4, <1>5, <1>6, FreezeExact

-------------------------------------------------------------------------------
(* The steps of Next. *)

\* Any step that leaves the clock, the history and the accumulators alone.
LEMMA BucketsStep ==
    ASSUME Priced, Bookkeeping',
           UNCHANGED <<block, initBlock, index, acc>>,
           \A k \in DOMAIN maturity' :
               /\ Exact(maturity'[k], index[k[1]], k[2], block)
               /\ Covered(maturity'[k], acc[k[1]].lastUpdate, k[2])
    PROVE  Priced'
BY DEF Priced

LEMMA AfterInitializePriced ==
    ASSUME Priced, Bookkeeping', NEW p \in Pools, NEW t \in Ticks, AfterInitialize(p, t)
    PROVE  Priced'
<1> DEFINE new == Update(BeginBlock(NoHistory, block, t), block, t)
<1>1. Bookkeeping /\ TypeOK /\ block \in Nat /\ block # 0
  <2>1. Bookkeeping /\ TypeOK
    BY DEF Priced, Bookkeeping
  <2>2. block \in 1 .. MaxBlock
    BY <2>1 DEF TypeOK
  <2> QED
    BY <2>1, <2>2, HorizonFacts
<1>2. acc[p] = NoHistory
  BY DEF AfterInitialize, Priced, History
<1>3. /\ UNCHANGED <<block, index, maturity>>
      /\ initBlock' = [initBlock EXCEPT ![p] = block]
      /\ acc' = [acc EXCEPT ![p] = new]
      /\ acc \in [Pools -> Accumulator] /\ initBlock \in [Pools -> 0 .. block]
  <2>1. Uint32(block) = block
    BY <1>1, BasicTypes, Uint32Exact
  <2>2. /\ UNCHANGED <<block, index, maturity>>
        /\ initBlock' = [initBlock EXCEPT ![p] = block]
        /\ acc' = [acc EXCEPT ![p] = Update(BeginBlock(@, Uint32(block), t), Uint32(block), t)]
    BY DEF AfterInitialize
  <2> QED
    BY <1>1, <1>2, <2>1, <2>2 DEF TypeOK
<1>4. new.lastUpdate = block /\ Extended(new, block) = 0
  <2>1. t \in Int
    BY PoolsAssumption
  <2>2. new.lastUpdate = block /\ new.lastTick = t /\ new.tickCumulative = 0
    BY DEF Update, BeginBlock, NoHistory
  <2>3. t * 0 = 0
    BY <2>1
  <2> QED
    BY <1>1, <2>2, <2>3 DEF Extended
<1>5. index[p][block] = 0
  <2>1. \A b \in 0 .. block : index[p][b] = Extended(NoHistory, b)
    BY <1>2 DEF Priced, History, NoHistory
  <2>2. Extended(NoHistory, block) = 0
    BY <1>1 DEF Extended, NoHistory
  <2> QED
    BY <1>1, <2>1, <2>2
<1> HIDE DEF new
<1>6. History(new, index[p], block, block)
  BY <1>1, <1>4, <1>5 DEF History
<1>7. \A q \in Pools : History(acc'[q], index'[q], block', initBlock'[q])
  BY <1>3, <1>6 DEF Priced
<1>8. ASSUME NEW k \in DOMAIN maturity
      PROVE  /\ Exact(maturity[k], index[k[1]], k[2], block)
             /\ Covered(maturity[k], acc'[k[1]].lastUpdate, k[2])
  <2>1. /\ Exact(maturity[k], index[k[1]], k[2], block)
        /\ Covered(maturity[k], acc[k[1]].lastUpdate, k[2])
        /\ k \in Pools \X Nat
    BY <1>1 DEF Priced, TypeOK
  <2>2. CASE k[1] # p
    BY <1>3, <2>1, <2>2
  <2>3. CASE k[1] = p
    <3>1. acc[k[1]].lastUpdate = 0
      BY <1>2, <2>3 DEF NoHistory
    <3>2. ~(maturity[k].pending > 0)
      BY <2>1, <3>1 DEF Covered
    <3> QED
      BY <2>1, <3>2 DEF Covered
  <2> QED
    BY <2>2, <2>3
<1> QED
  BY <1>3, <1>7, <1>8 DEF Priced

LEMMA NextBlockPriced ==
    ASSUME Priced, Bookkeeping', NextBlock
    PROVE  Priced'
<1>1. /\ UNCHANGED <<poolTick, initBlock, acc, maturity>>
      /\ block' = block + 1
      /\ index' = [p \in Pools |-> Put(index[p], block + 1, index[p][block] + poolTick[p])]
  BY DEF NextBlock, contract
<1>2. Bookkeeping /\ TypeOK /\ block \in Nat
  BY BasicTypes DEF Priced, Bookkeeping
<1>3. ASSUME NEW p \in Pools
      PROVE  /\ \A b \in 0 .. block : index'[p][b] = index[p][b]
             /\ History(acc[p], index'[p], block + 1, initBlock[p])
  <2>1. /\ acc[p] \in Accumulator /\ index[p] \in [0 .. block -> Int]
        /\ acc[p].lastUpdate \in Nat /\ acc[p].lastUpdate <= block
        /\ \A b \in acc[p].lastUpdate .. block : index[p][b] = Extended(acc[p], b)
    BY PricedFacts
  <2>2. /\ \A b \in 0 .. block : index'[p][b] = index[p][b]
        /\ index'[p][block + 1] = index[p][block] + poolTick[p]
    BY <1>1, <1>2, <2>1 DEF Put
  <2>3. Extended(acc[p], block + 1) = Extended(acc[p], block) + acc[p].lastTick
    BY <1>2, <2>1, ExtendedSteps
  <2>4. acc[p].lastTick = poolTick[p]
    BY <1>2 DEF Bookkeeping
  <2>5. index[p][block] = Extended(acc[p], block)
    BY <1>2, <2>1
  <2>6. \A b \in acc[p].lastUpdate .. block + 1 : index'[p][b] = Extended(acc[p], b)
    BY <1>2, <2>1, <2>2, <2>3, <2>4, <2>5
  <2>7. History(acc[p], index[p], block, initBlock[p])
    BY DEF Priced
  <2> QED
    BY <1>2, <2>1, <2>2, <2>6, <2>7 DEF History
<1>4. ASSUME NEW k \in DOMAIN maturity
      PROVE  Exact(maturity[k], index'[k[1]], k[2], block + 1)
  <2>1. k[1] \in Pools
    BY <1>2 DEF TypeOK
  <2>2. Exact(maturity[k], index[k[1]], k[2], block)
    BY DEF Priced
  <2>3. \A b \in 0 .. block : index'[k[1]][b] = index[k[1]][b]
    BY <1>3, <2>1
  <2> QED
    BY <1>2, <2>2, <2>3 DEF Exact
<1> QED
  BY <1>1, <1>3, <1>4 DEF Priced

LEMMA ResolveEndpointsPriced ==
    ASSUME Priced, Bookkeeping', NEW p \in Pools, NEW m \in 0 .. block, ResolveEndpoints(p, m)
    PROVE  Priced'
<1>1. /\ UNCHANGED <<block, initBlock, index, acc>>
      /\ maturity' = Put(maturity, <<p, m>>, Resolved(p, m))
      /\ \A e \in Endpoint : Resolvable(p, m, e)
  BY DEF ResolveEndpoints, environment
<1>2. TypeOK /\ m \in Nat
  BY BasicTypes DEF Priced, Bookkeeping
<1>3. Exact(Resolved(p, m), index[p], m, block)
  BY <1>1, <1>2, ResolvedExact
<1>4. Covered(Resolved(p, m), acc[p].lastUpdate, m)
  <2>1. Resolved(p, m).frozen = Endpoint /\ Resolved(p, m).pending = BucketOf(p, m).pending
    BY <1>2, ResolvedFacts
  <2>2. <<p, m>> \in DOMAIN maturity => Covered(maturity[<<p, m>>], acc[p].lastUpdate, m)
    BY DEF Priced
  <2> QED
    BY <2>1, <2>2 DEF Covered, BucketOf, EmptyBucket
<1>5. \A k \in DOMAIN maturity' : /\ Exact(maturity'[k], index[k[1]], k[2], block)
                                  /\ Covered(maturity'[k], acc[k[1]].lastUpdate, k[2])
  BY <1>1, <1>3, <1>4 DEF Put, Priced
<1> QED
  BY <1>1, <1>5, BucketsStep

LEMMA SettlePriced ==
    ASSUME Priced, Bookkeeping', NEW b \in DOMAIN bonds, Settle(b)
    PROVE  Priced'
<1>1. Bookkeeping /\ TypeOK /\ bonds[b] \in Bond
  BY DEF Priced, Bookkeeping, TypeOK
<1>2. PICK p \in Pools, m \in Nat : p = bonds[b].pool /\ m = bonds[b].maturityBlock
  BY <1>1 DEF Bond
<1>3. UNCHANGED <<block, initBlock, index, acc>> /\ \A e \in Endpoint : Resolvable(p, m, e)
  BY <1>2 DEF Settle, environment, Settleable
<1>4. /\ DOMAIN maturity' = DOMAIN maturity \cup {<<p, m>>}
      /\ maturity'[<<p, m>>] = [Resolved(p, m) EXCEPT !.pending = @ - 1]
      /\ \A k \in DOMAIN maturity : k # <<p, m>> => maturity'[k] = maturity[k]
  BY <1>1, <1>2, SettleBuckets
<1>5. Exact(Resolved(p, m), index[p], m, block)
  BY <1>3, ResolvedExact
<1>6. /\ Resolved(p, m) \in Bucket /\ Resolved(p, m).frozen = Endpoint
      /\ Resolved(p, m).pending = BucketOf(p, m).pending
  BY <1>1, ResolvedFacts
<1>7. /\ maturity'[<<p, m>>].frozen = Endpoint
      /\ maturity'[<<p, m>>].cumulative = Resolved(p, m).cumulative
      /\ maturity'[<<p, m>>].pending = BucketOf(p, m).pending - 1
      /\ BucketOf(p, m).pending \in Nat
  BY <1>4, <1>6 DEF Bucket
<1>8. Exact(maturity'[<<p, m>>], index[p], m, block)
  BY <1>5, <1>6, <1>7 DEF Exact
<1>9. Covered(maturity'[<<p, m>>], acc[p].lastUpdate, m)
  <2>1. <<p, m>> \in DOMAIN maturity => Covered(maturity[<<p, m>>], acc[p].lastUpdate, m)
    BY DEF Priced
  <2> QED
    BY <1>7, <2>1 DEF Covered, BucketOf, EmptyBucket
<1>10. \A k \in DOMAIN maturity' : /\ Exact(maturity'[k], index[k[1]], k[2], block)
                                   /\ Covered(maturity'[k], acc[k[1]].lastUpdate, k[2])
  BY <1>4, <1>8, <1>9 DEF Priced
<1> QED
  BY <1>3, <1>10, BucketsStep

LEMMA SwapWithoutBondPriced ==
    ASSUME Priced, Bookkeeping', NEW p \in Pools, NEW x \in Executions, NEW t \in Ticks,
           NEW h \in HookData, SwapWithoutBond(p, x, t, h)
    PROVE  Priced'
<1>1. MovePrice(p, x, t, h) /\ maturity' = Checkpointed(p)
  BY DEF SwapWithoutBond
<1>2. /\ block' = block /\ index' = index
      /\ \A q \in Pools : History(acc'[q], index[q], block, initBlock'[q])
      /\ \A q \in Pools : acc'[q].lastUpdate = IF q = p THEN block ELSE acc[q].lastUpdate
  BY <1>1, MovePriceHistory
<1>3. DOMAIN maturity' = DOMAIN maturity /\ DOMAIN maturity \subseteq Pools \X Nat
  BY <1>1, CheckpointedFacts DEF Priced, Bookkeeping, TypeOK
<1>4. ASSUME NEW k \in DOMAIN maturity
      PROVE  /\ Exact(maturity'[k], index[k[1]], k[2], block)
             /\ Covered(maturity'[k], acc'[k[1]].lastUpdate, k[2])
  <2>1. k[1] \in Pools
    BY <1>3
  <2> QED
    BY <1>1, <1>2, <2>1, CheckpointedPriced
<1> QED
  BY <1>2, <1>3, <1>4 DEF Priced

LEMMA SwapWithBondPriced ==
    ASSUME Priced, Bookkeeping', NEW p \in Pools, NEW x \in Executions, NEW t \in Ticks,
           NEW h \in HookData, SwapWithBond(p, x, t, h)
    PROVE  Priced'
<1>1. Bookkeeping /\ TypeOK
  BY DEF Priced, Bookkeeping
<1>2. PICK m \in Nat : m = block + OBSERVATION_BLOCKS
  BY <1>1, BasicTypes, HorizonFacts
<1> DEFINE old == BucketOf(p, m)
           new == [old EXCEPT !.pending = @ + 1]
<1>3. MovePrice(p, x, t, h) /\ maturity' = Put(Checkpointed(p), <<p, m>>, new)
  BY <1>2 DEF SwapWithBond, Registered
<1>4. /\ block' = block /\ index' = index
      /\ \A q \in Pools : History(acc'[q], index[q], block, initBlock'[q])
      /\ \A q \in Pools : acc'[q].lastUpdate = IF q = p THEN block ELSE acc[q].lastUpdate
  BY <1>3, MovePriceHistory
<1>5. DOMAIN Checkpointed(p) = DOMAIN maturity /\ DOMAIN maturity \subseteq Pools \X Nat
  BY <1>1, CheckpointedFacts DEF TypeOK
<1>6. old \in Bucket
  BY <1>1, BucketOfType
<1>7. new.frozen = old.frozen /\ new.cumulative = old.cumulative
  BY <1>6 DEF Bucket
<1>8. Exact(new, index[p], m, block)
  <2>1. Exact(old, index[p], m, block)
    BY DEF Exact, BucketOf, EmptyBucket, Priced
  <2> HIDE DEF new, old
  <2> QED
    BY <1>7, <2>1 DEF Exact
<1>9. Covered(new, block, m)
  <2>1. block \in 1 .. MaxBlock
    BY <1>1 DEF TypeOK
  <2>2. m - OBSERVATION_BLOCKS \in 1 .. block
    BY <1>2, <2>1, HorizonFacts
  <2>3. \A e \in Endpoint : m - Offset[e] > block
    BY <1>2, <2>1, OffsetType, HorizonAssumption
  <2> HIDE DEF new
  <2> QED
    BY <2>2, <2>3 DEF Covered
<1> HIDE DEF new, old
<1>10. ASSUME NEW k \in DOMAIN maturity
       PROVE  /\ Exact(Checkpointed(p)[k], index[k[1]], k[2], block)
              /\ Covered(Checkpointed(p)[k], acc'[k[1]].lastUpdate, k[2])
  <2>1. k[1] \in Pools
    BY <1>5
  <2> QED
    BY <1>4, <2>1, CheckpointedPriced
<1>11. ASSUME NEW k \in DOMAIN maturity'
       PROVE  /\ Exact(maturity'[k], index[k[1]], k[2], block)
              /\ Covered(maturity'[k], acc'[k[1]].lastUpdate, k[2])
  <2>1. CASE k = <<p, m>>
    BY <1>3, <1>4, <1>8, <1>9, <2>1 DEF Put
  <2>2. CASE k # <<p, m>>
    <3>1. k \in DOMAIN maturity /\ maturity'[k] = Checkpointed(p)[k]
      BY <1>3, <1>5, <2>2 DEF Put
    <3> QED
      BY <1>10, <3>1
  <2> QED
    BY <2>1, <2>2
<1> QED
  BY <1>4, <1>11 DEF Priced

-------------------------------------------------------------------------------
(* The theorems. *)

LEMMA InitPriced == Init => Priced
<1> SUFFICES ASSUME Init PROVE Priced
  OBVIOUS
<1>1. Bookkeeping
  BY InitBookkeeping
<1>2. DOMAIN maturity = {}
  BY DEF Init, Unwritten
<1>3. ASSUME NEW p \in Pools
      PROVE  History(acc[p], index[p], block, initBlock[p])
  <2>1. acc[p] = NoHistory /\ index[p] = [b \in 0 .. 1 |-> 0] /\ block = 1 /\ initBlock[p] = 0
    BY DEF Init
  <2>2. \A b \in 0 .. 1 : Extended(NoHistory, b) = 0
    BY DEF Extended, NoHistory
  <2> QED
    BY <2>1, <2>2 DEF History, NoHistory
<1> QED
  BY <1>1, <1>2, <1>3 DEF Priced

LEMMA NextPriced == Priced /\ [Next]_vars => Priced'
<1> SUFFICES ASSUME Priced, [Next]_vars PROVE Priced'
  OBVIOUS
<1>1. Bookkeeping /\ Bookkeeping'
  BY NextBookkeeping DEF Priced
<1>2. CASE \E p \in Pools, t \in Ticks : AfterInitialize(p, t)
  BY <1>1, <1>2, AfterInitializePriced
<1>3. CASE \E p \in Pools, x \in Executions, t \in Ticks, h \in HookData : SwapWithoutBond(p, x, t, h)
  BY <1>1, <1>3, SwapWithoutBondPriced
<1>4. CASE \E p \in Pools, x \in Executions, t \in Ticks, h \in HookData : SwapWithBond(p, x, t, h)
  BY <1>1, <1>4, SwapWithBondPriced
<1>5. CASE \E b \in DOMAIN bonds : SettleBond(b)
  <2>1. PICK b \in DOMAIN bonds : Settle(b)
    BY <1>5 DEF SettleBond
  <2> QED
    BY <1>1, <2>1, SettlePriced
<1>6. CASE SettleNext
  <2>1. batch \in Seq(DOMAIN bonds) /\ batch # << >> /\ Settle(Head(batch))
    BY <1>1, <1>6 DEF SettleNext, Idle, Bookkeeping
  <2>2. PICK b \in DOMAIN bonds : b = Head(batch)
    BY <2>1
  <2>3. Settle(b)
    BY <2>1, <2>2
  <2> QED
    BY <1>1, <2>3, SettlePriced
<1>7. CASE \E p \in Pools, m \in 0 .. block : ResolveEndpoints(p, m)
  BY <1>1, <1>7, ResolveEndpointsPriced
<1>8. CASE NextBlock
  BY <1>1, <1>8, NextBlockPriced
<1>9. CASE UNCHANGED <<block, initBlock, index, acc, maturity>>
  BY <1>1, <1>9 DEF Priced
<1>10. (\E p \in Pools, cfg \in Configs : SetPoolConfig(p, cfg))
          => UNCHANGED <<block, initBlock, index, acc, maturity>>
  BY DEF SetPoolConfig, environment
<1>11. (\E n \in 1 .. MAX_SETTLE_BATCH : \E ids \in [1 .. n -> DOMAIN bonds] : SettleMany(ids))
          => UNCHANGED <<block, initBlock, index, acc, maturity>>
  BY DEF SettleMany, environment, contract
<1>12. UNCHANGED vars => UNCHANGED <<block, initBlock, index, acc, maturity>>
  BY DEF vars, environment, contract
<1> QED
  BY <1>2, <1>3, <1>4, <1>5, <1>6, <1>7, <1>8, <1>9, <1>10, <1>11, <1>12 DEF Next

\* Every reachable state is priced.
THEOREM HistoryKept == Spec => []Priced
BY InitPriced, NextPriced, PTL DEF Spec

\* A frozen reading is the true cumulative price of its block, whoever froze
\* it (_freezeDueEndpoints, _resolveEndpoint).
THEOREM ReadingsExact == Spec => []CheckpointsExact
<1>1. Priced => CheckpointsExact
  BY DEF Priced, CheckpointsExact, Exact
<1> QED
  BY <1>1, HistoryKept, PTL

\* The bounded scan of _advanceAndCheckpoint loses no reading: an unsettled
\* bond's due endpoint is frozen, or the accumulator still answers for it.
THEOREM NoReadingLost == Spec => []NoCheckpointLost
<1>1. Priced => NoCheckpointLost
  <2> SUFFICES ASSUME Priced, NEW b \in Finalized, NEW e \in Endpoint,
                      bonds[b].maturityBlock - Offset[e] <= block
               PROVE  Resolvable(bonds[b].pool, bonds[b].maturityBlock, e)
    BY DEF NoCheckpointLost
  <2>1. Bookkeeping /\ TypeOK /\ bonds[b] \in Bond
    BY DEF Priced, Bookkeeping, TypeOK, Finalized
  <2>2. PICK p \in Pools, m \in Nat : p = bonds[b].pool /\ m = bonds[b].maturityBlock
    BY <2>1 DEF Bond
  <2>3. BucketOf(p, m).pending > 0
    BY <2>1, <2>2, PendingPositive
  <2>4. <<p, m>> \in DOMAIN maturity
    BY <2>3 DEF BucketOf, EmptyBucket
  <2>5. Covered(maturity[<<p, m>>], acc[p].lastUpdate, m)
    BY <2>4 DEF Priced
  <2>6. e \in BucketOf(p, m).frozen \/ m - Offset[e] > acc[p].lastUpdate
    BY <2>3, <2>4, <2>5 DEF Covered, BucketOf
  <2>7. acc[p].lastUpdate \in Nat /\ block \in Nat
    BY PricedFacts
  <2> QED
    BY <2>2, <2>6, <2>7, OffsetType DEF Resolvable, InDomain
<1> QED
  BY <1>1, HistoryKept, PTL

-------------------------------------------------------------------------------
(* Frozen readings. *)

Keeps(old, new) ==
    \A e \in old.frozen : e \in new.frozen /\ new.cumulative[e] = old.cumulative[e]

ReadingsKept ==
    \A k \in DOMAIN maturity :
        /\ k \in DOMAIN maturity'
        /\ \A e \in maturity[k].frozen :
              /\ e \in maturity'[k].frozen
              /\ maturity'[k].cumulative[e] = maturity[k].cumulative[e]

LEMMA FreezeKeeps ==
    ASSUME NEW bucket \in Bucket, NEW m \in Nat, NEW a \in Accumulator,
           NEW due \in SUBSET (Endpoint \ bucket.frozen)
    PROVE  Keeps(bucket, Freeze(bucket, m, a, due))
<1>1. due \in SUBSET Endpoint /\ bucket.frozen \subseteq Endpoint
  BY DEF Bucket
<1>2. /\ Freeze(bucket, m, a, due).frozen = bucket.frozen \cup due
      /\ \A e \in Endpoint : Freeze(bucket, m, a, due).cumulative[e] =
            IF e \in due THEN CumulativeAt(a, m - Offset[e]) ELSE bucket.cumulative[e]
  BY <1>1, FreezeType
<1> QED
  BY <1>1, <1>2 DEF Keeps

LEMMA CheckpointedKeeps ==
    ASSUME TypeOK, NEW p \in Pools, NEW k \in DOMAIN maturity
    PROVE  Keeps(maturity[k], Checkpointed(p)[k])
<1>1. k[2] \in Nat /\ maturity[k] \in Bucket /\ acc[p] \in Accumulator
  BY DEF TypeOK
<1> DEFINE due == Due(maturity[k], k[2], acc[p].lastUpdate, block)
<1>2. due \in SUBSET (Endpoint \ maturity[k].frozen)
  BY DEF Due
<1> HIDE DEF due
<1>3. Keeps(maturity[k], Freeze(maturity[k], k[2], acc[p], due))
  BY <1>1, <1>2, FreezeKeeps
<1>4. Keeps(maturity[k], maturity[k])
  BY DEF Keeps
<1>5. Checkpointed(p)[k] \in {maturity[k], Freeze(maturity[k], k[2], acc[p], due)}
  BY DEF Checkpointed, FreezeDueEndpoints, due
<1> QED
  BY <1>3, <1>4, <1>5

LEMMA ResolvedKeeps ==
    ASSUME TypeOK, NEW p \in Pools, NEW m \in Nat
    PROVE  Keeps(BucketOf(p, m), Resolved(p, m))
BY BucketOfType, FreezeKeeps DEF Resolved, TypeOK

LEMMA SettleKeepsReadings ==
    ASSUME Bookkeeping, NEW b \in DOMAIN bonds, Settle(b)
    PROVE  ReadingsKept
<1>1. PICK p \in Pools, m \in Nat : p = bonds[b].pool /\ m = bonds[b].maturityBlock
  BY DEF Bookkeeping, TypeOK, Bond
<1> DEFINE new == [Resolved(p, m) EXCEPT !.pending = @ - 1]
<1>2. maturity' = Put(maturity, <<p, m>>, new)
  BY <1>1 DEF Settle
<1>3. Resolved(p, m) \in Bucket /\ Keeps(BucketOf(p, m), Resolved(p, m))
  BY ResolvedFacts, ResolvedKeeps DEF Bookkeeping
<1>4. new.frozen = Resolved(p, m).frozen /\ new.cumulative = Resolved(p, m).cumulative
  BY <1>3 DEF Bucket
<1> HIDE DEF new
<1>5. <<p, m>> \in DOMAIN maturity => Keeps(maturity[<<p, m>>], new)
  BY <1>3, <1>4 DEF Keeps, BucketOf
<1>6. \A k \in DOMAIN maturity : k \in DOMAIN maturity' /\ Keeps(maturity[k], maturity'[k])
  BY <1>2, <1>5 DEF Keeps, Put
<1> QED
  BY <1>6 DEF ReadingsKept, Keeps

LEMMA StepKeepsReadings == Bookkeeping /\ [Next]_vars => ReadingsKept
<1> SUFFICES ASSUME Bookkeeping, [Next]_vars PROVE ReadingsKept
  OBVIOUS
<1>1. TypeOK
  BY DEF Bookkeeping
<1>2. ASSUME NEW p \in Pools, NEW x \in Executions, NEW t \in Ticks, NEW h \in HookData,
             SwapWithoutBond(p, x, t, h)
      PROVE  ReadingsKept
  <2>1. maturity' = Checkpointed(p)
    BY <1>2 DEF SwapWithoutBond
  <2>2. DOMAIN maturity' = DOMAIN maturity
    BY <1>1, <2>1, CheckpointedFacts
  <2>3. \A k \in DOMAIN maturity : Keeps(maturity[k], maturity'[k])
    BY <1>1, <2>1, CheckpointedKeeps
  <2> QED
    BY <2>2, <2>3 DEF ReadingsKept, Keeps
<1>3. ASSUME NEW p \in Pools, NEW x \in Executions, NEW t \in Ticks, NEW h \in HookData,
             SwapWithBond(p, x, t, h)
      PROVE  ReadingsKept
  <2>1. PICK m \in Nat : m = block + OBSERVATION_BLOCKS
    BY <1>1, BasicTypes, HorizonFacts
  <2> DEFINE new == [BucketOf(p, m) EXCEPT !.pending = @ + 1]
  <2>2. maturity' = Put(Checkpointed(p), <<p, m>>, new)
    BY <1>3, <2>1 DEF SwapWithBond, Registered
  <2>3. BucketOf(p, m) \in Bucket
    BY <1>1, BucketOfType
  <2>4. new.frozen = BucketOf(p, m).frozen /\ new.cumulative = BucketOf(p, m).cumulative
    BY <2>3 DEF Bucket
  <2> HIDE DEF new
  <2>5. DOMAIN Checkpointed(p) = DOMAIN maturity
    BY <1>1, CheckpointedFacts
  <2>6. \A k \in DOMAIN maturity : Keeps(maturity[k], Checkpointed(p)[k])
    BY <1>1, CheckpointedKeeps
  <2>7. \A k \in DOMAIN maturity : k \in DOMAIN maturity' /\ Keeps(maturity[k], maturity'[k])
    BY <2>2, <2>4, <2>5, <2>6 DEF Put, Keeps, BucketOf
  <2> QED
    BY <2>7 DEF ReadingsKept, Keeps
<1>4. ASSUME NEW b \in DOMAIN bonds, Settle(b)
      PROVE  ReadingsKept
  BY <1>4, SettleKeepsReadings
<1>5. ASSUME NEW p \in Pools, NEW m \in 0 .. block, ResolveEndpoints(p, m)
      PROVE  ReadingsKept
  <2>1. maturity' = Put(maturity, <<p, m>>, Resolved(p, m))
    BY <1>5 DEF ResolveEndpoints
  <2>2. m \in Nat
    BY <1>1, BasicTypes
  <2>3. Keeps(BucketOf(p, m), Resolved(p, m))
    BY <1>1, <2>2, ResolvedKeeps
  <2>4. \A k \in DOMAIN maturity : k \in DOMAIN maturity' /\ Keeps(maturity[k], maturity'[k])
    BY <2>1, <2>3 DEF Put, Keeps, BucketOf
  <2> QED
    BY <2>4 DEF ReadingsKept, Keeps
<1>6. CASE maturity' = maturity
  BY <1>6 DEF ReadingsKept
<1>7. CASE \E b \in DOMAIN bonds : SettleBond(b)
  BY <1>4, <1>7 DEF SettleBond
<1>8. CASE SettleNext
  <2>1. batch \in Seq(DOMAIN bonds) /\ batch # << >> /\ Settle(Head(batch))
    BY <1>8 DEF SettleNext, Idle, Bookkeeping
  <2>2. Head(batch) \in DOMAIN bonds
    BY <2>1
  <2> QED
    BY <1>4, <2>1, <2>2
<1>9. CASE \/ \E p \in Pools, t \in Ticks : AfterInitialize(p, t)
           \/ \E p \in Pools, cfg \in Configs : SetPoolConfig(p, cfg)
           \/ \E n \in 1 .. MAX_SETTLE_BATCH : \E ids \in [1 .. n -> DOMAIN bonds] : SettleMany(ids)
           \/ NextBlock
           \/ UNCHANGED vars
  BY <1>6, <1>9 DEF AfterInitialize, SetPoolConfig, SettleMany, NextBlock, vars, contract
<1> QED
  BY <1>2, <1>3, <1>5, <1>7, <1>8, <1>9 DEF Next

\* No swap, settlement or stranger's call thaws or rewrites a frozen reading.
THEOREM ReadingsFinal == Spec => FrozenForGood
<1>1. Bookkeeping /\ [Next]_vars => [ReadingsKept]_vars
  BY StepKeepsReadings
<1> QED
  BY <1>1, BooksKept, PTL DEF Spec, FrozenForGood, ReadingsKept

-------------------------------------------------------------------------------
(* Bonds. *)

BondsKept ==
    \A b \in Finalized \cup Settled :
        /\ b \in DOMAIN bonds'
        /\ \/ bonds'[b] = bonds[b]
           \/ bonds[b].state = "FINALIZED"
              /\ bonds'[b] = [bonds[b] EXCEPT !.state = "SETTLED"]

LEMMA StepKeepsBonds == Bookkeeping /\ [Next]_vars => BondsKept
<1> SUFFICES ASSUME Bookkeeping, [Next]_vars PROVE BondsKept
  OBVIOUS
<1>1. ASSUME NEW b \in DOMAIN bonds, Settle(b)
      PROVE  BondsKept
  <2>1. /\ bonds[b].state = "FINALIZED"
        /\ DOMAIN bonds' = DOMAIN bonds
        /\ \A x \in DOMAIN bonds : x # b => bonds'[x] = bonds[x]
        /\ bonds'[b] = [bonds[b] EXCEPT !.state = "SETTLED"]
    BY <1>1, SettleRecords DEF Finalized
  <2> QED
    BY <2>1 DEF BondsKept, Finalized, Settled
<1>2. ASSUME DOMAIN bonds \subseteq DOMAIN bonds',
             \A b \in DOMAIN bonds : bonds'[b] = bonds[b]
      PROVE  BondsKept
  BY <1>2 DEF BondsKept, Finalized, Settled
<1>3. CASE \E p \in Pools, x \in Executions, t \in Ticks, h \in HookData : SwapWithoutBond(p, x, t, h)
  <2>1. PICK p \in Pools, x \in Executions, h \in HookData : bonds' = Cleared(p, x, h)
    BY <1>3 DEF SwapWithoutBond
  <2>2. /\ DOMAIN Cleared(p, x, h) = DOMAIN bonds
        /\ \A b \in DOMAIN bonds : Cleared(p, x, h)[b] = bonds[b]
    BY ClearedIsNothing
  <2> QED
    BY <1>2, <2>1, <2>2
<1>4. CASE \E p \in Pools, x \in Executions, t \in Ticks, h \in HookData : SwapWithBond(p, x, t, h)
  <2>1. PICK p \in Pools, x \in Executions, t \in Ticks, h \in HookData : SwapWithBond(p, x, t, h)
    BY <1>4
  <2>2. /\ DOMAIN bonds' = DOMAIN bonds \cup {NextBondId(p)}
        /\ \A b \in DOMAIN bonds : bonds'[b] = bonds[b]
    BY <2>1, SwapWithBondRecord
  <2> QED
    BY <1>2, <2>2
<1>5. CASE \E b \in DOMAIN bonds : SettleBond(b)
  BY <1>1, <1>5 DEF SettleBond
<1>6. CASE SettleNext
  <2>1. batch \in Seq(DOMAIN bonds) /\ batch # << >> /\ Settle(Head(batch))
    BY <1>6 DEF SettleNext, Idle, Bookkeeping
  <2>2. Head(batch) \in DOMAIN bonds
    BY <2>1
  <2> QED
    BY <1>1, <2>1, <2>2
<1>7. CASE \/ \E p \in Pools, t \in Ticks : AfterInitialize(p, t)
           \/ \E p \in Pools, cfg \in Configs : SetPoolConfig(p, cfg)
           \/ \E n \in 1 .. MAX_SETTLE_BATCH : \E ids \in [1 .. n -> DOMAIN bonds] : SettleMany(ids)
           \/ \E p \in Pools, m \in 0 .. block : ResolveEndpoints(p, m)
           \/ NextBlock
           \/ UNCHANGED vars
  <2>1. bonds' = bonds
    BY <1>7 DEF AfterInitialize, SetPoolConfig, SettleMany, ResolveEndpoints, NextBlock,
                vars, contract
  <2> QED
    BY <1>2, <2>1
<1> QED
  BY <1>3, <1>4, <1>5, <1>6, <1>7 DEF Next

\* A bond's only change, ever, is to be settled: no later bond takes its
\* identifier, although identifiers come from a count that falls (_bondId).
THEOREM BondsNeverLost == Spec => BondsPermanent
<1>1. Bookkeeping /\ [Next]_vars => [BondsKept]_vars
  BY StepKeepsBonds
<1> QED
  BY <1>1, BooksKept, PTL DEF Spec, BondsPermanent, BondsKept

-------------------------------------------------------------------------------
(* Terms.  Two more invariants: the minimums in force are those that         *)
(* setPoolConfig accepts, and once a pool has been touched in a block its    *)
(* baseline is the price the previous block closed at.                       *)

Floored ==
    \A p \in Pools : poolConfig[p].bondingEnabled =>
        poolConfig[p].minLeg0 >= BPS /\ poolConfig[p].minLeg1 >= BPS

Baselined ==
    \A p \in Pools : acc[p].lastUpdate = block /\ initBlock[p] < block =>
        acc[p].blockStartTick = ClosingTick(p, block - 1)

Grounded == Priced /\ Floored /\ Baselined

LEMMA BeginBlockBaseline ==
    ASSUME NEW a \in Accumulator, NEW now \in Nat, NEW t \in Int, a.lastUpdate # 0
    PROVE  BeginBlock(a, now, t).blockStartTick =
               IF a.lastUpdate < now THEN a.lastTick ELSE a.blockStartTick
BY DEF BeginBlock, Accumulator

LEMMA UpdateBaseline ==
    ASSUME NEW a \in Accumulator, NEW now \in Nat, NEW t \in Int
    PROVE  Update(a, now, t).blockStartTick = a.blockStartTick
BY DEF Update, Accumulator

\* The baseline a swap is charged against.
LEMMA AdvancedBaseline ==
    ASSUME Grounded, NEW p \in Pools, p \in Initialized, initBlock[p] < block
    PROVE  Advanced(p).blockStartTick = ClosingTick(p, block - 1)
<1> DEFINE a == acc[p]
           b == BeginBlock(a, block, poolTick[p])
<1>1. Priced /\ Bookkeeping /\ TypeOK
  BY DEF Grounded, Priced, Bookkeeping
<1>2. /\ a \in Accumulator /\ block \in Nat /\ index[p] \in [0 .. block -> Int]
      /\ a.lastUpdate \in Nat /\ a.lastUpdate <= block
      /\ \A i \in a.lastUpdate .. block : index[p][i] = Extended(a, i)
  BY <1>1, PricedFacts
<1>3. a.lastUpdate # 0
  BY <1>1 DEF Priced, History, Initialized
<1>4. a.lastTick = poolTick[p] /\ poolTick[p] \in Int /\ Uint32(block) = block
  BY <1>1, BasicTypes, Uint32Exact DEF Bookkeeping
<1>5. a.lastUpdate = block => a.blockStartTick = ClosingTick(p, block - 1)
  BY DEF Grounded, Baselined
<1>6. a.lastUpdate < block => a.lastTick = ClosingTick(p, block - 1)
  <2> SUFFICES ASSUME a.lastUpdate < block PROVE a.lastTick = ClosingTick(p, block - 1)
    OBVIOUS
  <2> HIDE DEF a
  <2>1. PICK n \in Nat : n = block - 1
    BY <1>2, <1>3
  <2>2. n \in a.lastUpdate .. block /\ n + 1 \in a.lastUpdate .. block
    BY <1>2, <2>1
  <2>3. /\ index[p][n] = Extended(a, n) /\ index[p][n + 1] = Extended(a, n + 1)
        /\ Extended(a, n) \in Int /\ Extended(a, n + 1) = Extended(a, n) + a.lastTick
    BY <1>2, <2>2, ExtendedSteps
  <2>4. a.lastTick \in Int
    BY <1>2 DEF Accumulator
  <2>5. ClosingTick(p, n) = a.lastTick
    BY <2>3, <2>4 DEF ClosingTick
  <2> QED
    BY <2>1, <2>5
<1> HIDE DEF a
<1>7. b.blockStartTick = IF a.lastUpdate < block THEN a.lastTick ELSE a.blockStartTick
  BY <1>2, <1>3, <1>4, BeginBlockBaseline
<1>8. b \in Accumulator /\ b.lastTick = a.lastTick
  BY <1>2, <1>4, AccumulatorSteps
<1> HIDE DEF b
<1>9. Advanced(p) = Update(b, block, poolTick[p])
  BY <1>3, <1>4, <1>8 DEF Advanced, a, b
<1>10. Advanced(p).blockStartTick = b.blockStartTick
  BY <1>2, <1>4, <1>8, <1>9, UpdateBaseline
<1> QED
  BY <1>2, <1>5, <1>6, <1>7, <1>10

LEMMA MovePriceBaseline ==
    ASSUME Grounded, NEW p \in Pools, NEW x \in Executions, NEW t \in Ticks,
           NEW h \in HookData, MovePrice(p, x, t, h)
    PROVE  Floored' /\ Baselined'
<1>1. Bookkeeping
  BY DEF Grounded, Priced
<1>2. /\ UNCHANGED <<block, initBlock, index, poolConfig>>
      /\ acc' = [acc EXCEPT ![p] = Update(Advanced(p), block, t)]
  BY <1>1, MovePriceEffect
<1>3. Floored'
  BY <1>2 DEF Grounded, Floored
<1>4. acc \in [Pools -> Accumulator] /\ block \in Nat /\ t \in Int /\ p \in Initialized
  BY <1>1, BasicTypes, PoolsAssumption DEF Bookkeeping, TypeOK, MovePrice
<1>5. Advanced(p) \in Accumulator
  BY <1>1, AdvancedFacts
<1>6. acc'[p].blockStartTick = Advanced(p).blockStartTick
  BY <1>2, <1>4, <1>5, UpdateBaseline
<1>7. initBlock[p] < block => acc'[p].blockStartTick = ClosingTick(p, block - 1)
  BY <1>4, <1>6, AdvancedBaseline
<1>8. ASSUME NEW q \in Pools, q # p
      PROVE  acc'[q] = acc[q]
  BY <1>2, <1>4, <1>8
<1>9. \A q \in Pools : acc[q].lastUpdate = block /\ initBlock[q] < block =>
          acc[q].blockStartTick = ClosingTick(q, block - 1)
  BY DEF Grounded, Baselined
<1>10. \A q \in Pools : acc'[q].lastUpdate = block /\ initBlock[q] < block =>
          acc'[q].blockStartTick = ClosingTick(q, block - 1)
  BY <1>7, <1>8, <1>9
<1> QED
  BY <1>2, <1>3, <1>10 DEF Baselined, ClosingTick

LEMMA InitGrounded == Init => Grounded
<1> SUFFICES ASSUME Init PROVE Grounded
  OBVIOUS
<1>1. Floored
  BY DEF Init, Floored, Unconfigured
<1>2. Baselined
  BY DEF Init, Baselined, NoHistory
<1> QED
  BY <1>1, <1>2, InitPriced DEF Grounded

LEMMA NextGrounded == Grounded /\ [Next]_vars => Grounded'
<1> SUFFICES ASSUME Grounded, [Next]_vars PROVE Grounded'
  OBVIOUS
<1>1. Priced /\ Priced' /\ Bookkeeping /\ TypeOK
  BY NextPriced DEF Grounded, Priced, Bookkeeping
<1>2. SUFFICES Floored' /\ Baselined'
  BY <1>1 DEF Grounded
<1>3. CASE \E p \in Pools, t \in Ticks : AfterInitialize(p, t)
  <2>1. PICK p \in Pools, t \in Ticks : AfterInitialize(p, t)
    BY <1>3
  <2> DEFINE new == Update(BeginBlock(acc[p], Uint32(block), t), Uint32(block), t)
  <2>2. /\ UNCHANGED <<block, index, poolConfig>>
        /\ initBlock' = [initBlock EXCEPT ![p] = block]
        /\ acc' = [acc EXCEPT ![p] = new]
        /\ initBlock \in [Pools -> 0 .. block] /\ acc \in [Pools -> Accumulator] /\ block \in Nat
    BY <1>1, <2>1, BasicTypes DEF AfterInitialize, TypeOK
  <2> HIDE DEF new
  <2>3. ~(initBlock'[p] < block)
    BY <2>2
  <2>4. \A q \in Pools : q # p => acc'[q] = acc[q] /\ initBlock'[q] = initBlock[q]
    BY <2>2
  <2>5. Baselined'
    BY <2>2, <2>3, <2>4 DEF Grounded, Baselined, ClosingTick
  <2> QED
    BY <2>2, <2>5 DEF Grounded, Floored
<1>4. CASE \E p \in Pools, cfg \in Configs : SetPoolConfig(p, cfg)
  <2>1. PICK p \in Pools, cfg \in Configs : SetPoolConfig(p, cfg)
    BY <1>4
  <2>2. /\ UNCHANGED <<block, initBlock, index, acc>>
        /\ poolConfig' = [poolConfig EXCEPT ![p] =
                             IF cfg.bondingEnabled THEN cfg ELSE Unconfigured]
        /\ cfg.bondingEnabled => cfg.minLeg0 >= BPS /\ cfg.minLeg1 >= BPS
    BY <2>1 DEF SetPoolConfig, Accepted, environment
  <2>3. DOMAIN poolConfig = Pools /\ ~Unconfigured.bondingEnabled
    BY <1>1 DEF TypeOK, Unconfigured
  <2>4. Floored'
    BY <2>2, <2>3 DEF Grounded, Floored
  <2> QED
    BY <2>2, <2>4 DEF Grounded, Baselined, ClosingTick
<1>5. CASE \E p \in Pools, x \in Executions, t \in Ticks, h \in HookData :
              SwapWithoutBond(p, x, t, h) \/ SwapWithBond(p, x, t, h)
  BY <1>5, MovePriceBaseline DEF SwapWithoutBond, SwapWithBond
<1>6. CASE NextBlock
  <2>1. UNCHANGED <<initBlock, acc, poolConfig>> /\ block' = block + 1
    BY <1>6 DEF NextBlock, contract
  <2>2. \A p \in Pools : acc[p].lastUpdate # block + 1
    BY <1>1, PricedFacts
  <2> QED
    BY <2>1, <2>2 DEF Grounded, Floored, Baselined
<1>7. CASE UNCHANGED <<block, initBlock, index, acc, poolConfig>>
  BY <1>7 DEF Grounded, Floored, Baselined, ClosingTick
<1>8. CASE \/ \E b \in DOMAIN bonds : SettleBond(b)
           \/ \E n \in 1 .. MAX_SETTLE_BATCH : \E ids \in [1 .. n -> DOMAIN bonds] : SettleMany(ids)
           \/ SettleNext
           \/ \E p \in Pools, m \in 0 .. block : ResolveEndpoints(p, m)
           \/ UNCHANGED vars
  BY <1>7, <1>8 DEF SettleBond, SettleNext, Settle, SettleMany, ResolveEndpoints, vars,
                    environment, contract
<1> QED
  BY <1>3, <1>4, <1>5, <1>6, <1>8 DEF Next

\* Every reachable state is grounded.
THEOREM GroundKept == Spec => []Grounded
BY InitGrounded, NextGrounded, PTL DEF Spec

\* The last-resort bound of _takeVariableLegBond never turns a trade away,
\* whatever the owner configured and whatever the trader asks for.
THEOREM BondBoundUnreachable == Spec => []BondBoundNeverFires
<1>1. Grounded => BondBoundNeverFires
  <2> SUFFICES ASSUME Grounded, NEW p \in Pools, NEW x \in Executions, NEW t \in Ticks,
                      Qualifies(poolConfig[p], x, SwapBps(p, t))
               PROVE  WithinLeg(x, SwapBps(p, t))
    BY DEF BondBoundNeverFires, Initialized
  <2>1. Bookkeeping /\ poolConfig[p] \in PoolConfig
    BY DEF Grounded, Priced, Bookkeeping, TypeOK
  <2>2. PICK bps \in 0 .. MAX_BOND_BPS : bps = SwapBps(p, t)
    BY <2>1, SwapBpsType
  <2>3. PICK leg \in Nat : leg = VariableLeg(x)
    BY ExecutionType
  <2>4. bps # 0 /\ poolConfig[p].bondingEnabled /\ leg >= MinVariableLeg(poolConfig[p], x)
    BY <2>2, <2>3 DEF Qualifies
  <2>5. MinVariableLeg(poolConfig[p], x) >= BPS /\ MinVariableLeg(poolConfig[p], x) \in Nat
    BY <2>1, <2>4 DEF Grounded, Floored, MinVariableLeg, PoolConfig
  <2>6. leg >= BPS /\ bps \in 1 .. MAX_BOND_BPS
    BY <2>4, <2>5 DEF BPS, MAX_BOND_BPS
  <2>7. CollateralOf(leg, bps) \in 1 .. leg - 1
    BY <2>6, CollateralWithinLeg
  <2> QED
    BY <2>2, <2>3, <2>7 DEF WithinLeg
<1> QED
  BY <1>1, GroundKept, PTL

TermsKept ==
    \A b \in DOMAIN bonds' \ DOMAIN bonds :
        LET r == bonds'[b]
            p == r.pool
            c == Currency(p, r.collateralIsCurrency0)
        IN  /\ r.tickBefore = poolTick[p] /\ r.tickAfter = poolTick'[p]
            /\ initBlock[p] < block =>
                  r.collateralBps = EffectiveCollateralBps(
                      poolTick[p], poolTick'[p], ClosingTick(p, block - 1))
            /\ balance'[c] - balance[c] = CollateralOf(r.variableLeg, r.collateralBps)

LEMMA SwapWithBondTerms ==
    ASSUME Grounded, NEW p \in Pools, NEW x \in Executions, NEW t \in Ticks,
           NEW h \in HookData, SwapWithBond(p, x, t, h)
    PROVE  TermsKept
<1>1. Bookkeeping /\ TypeOK
  BY DEF Grounded, Priced, Bookkeeping
<1>2. PICK bps \in 0 .. MAX_BOND_BPS : bps = SwapBps(p, t)
  BY <1>1, SwapBpsType
<1>3. PICK leg \in Nat : leg = VariableLeg(x)
  BY ExecutionType
<1>4. PICK z \in BOOLEAN : z = CollateralIsCurrency0(x)
  BY ExecutionType
<1>5. PICK c \in Currencies : c = Currency(p, z)
  BY CurrencyType
<1>6. /\ DOMAIN bonds' = DOMAIN bonds \cup {NextBondId(p)}
      /\ bonds'[NextBondId(p)] =
            [refundRecipient |-> h.recipient, pool |-> p,
             openBlock |-> block, maturityBlock |-> block + OBSERVATION_BLOCKS,
             variableLeg |-> leg, tickBefore |-> poolTick[p], tickAfter |-> t,
             collateralBps |-> bps, collateralIsCurrency0 |-> z, state |-> "FINALIZED"]
  BY <1>1, <1>2, <1>3, <1>4, SwapWithBondRecord
<1>7. MovePrice(p, x, t, h) /\ balance' = [balance EXCEPT ![c] = @ + CollateralOf(leg, bps)]
  BY <1>2, <1>3, <1>4, <1>5 DEF SwapWithBond
<1>8. poolTick'[p] = t
  BY <1>1, <1>7, MovePriceEffect DEF TypeOK
<1>9. balance'[c] - balance[c] = CollateralOf(leg, bps)
  <2>1. balance \in [Currencies -> Nat]
    BY <1>1 DEF TypeOK
  <2>2. CollateralOf(leg, bps) \in Nat
    BY CollateralOfBounds
  <2> QED
    BY <1>7, <2>1, <2>2
<1>10. initBlock[p] < block => bps = EffectiveCollateralBps(poolTick[p], t, ClosingTick(p, block - 1))
  <2>1. Advanced(p).lastTick = poolTick[p] /\ p \in Initialized
    BY <1>1, <1>7, AdvancedFacts DEF MovePrice
  <2> QED
    BY <1>2, <2>1, AdvancedBaseline DEF SwapBps
<1> QED
  BY <1>5, <1>6, <1>8, <1>9, <1>10 DEF TermsKept

\* A bond opens on the prices the market showed, at a rate that covers the
\* whole block's displacement, and the hook gets what those terms give.
THEOREM TermsAlwaysHonest == Spec => TermsHonest
<1>1. Grounded /\ [Next]_vars => [TermsKept]_vars
  <2> SUFFICES ASSUME Grounded, [Next]_vars PROVE TermsKept
    OBVIOUS
  <2>1. Bookkeeping
    BY DEF Grounded, Priced
  <2>2. CASE DOMAIN bonds' \subseteq DOMAIN bonds
    BY <2>2 DEF TermsKept
  <2>3. CASE \E p \in Pools, x \in Executions, t \in Ticks, h \in HookData : SwapWithBond(p, x, t, h)
    BY <2>3, SwapWithBondTerms
  <2>4. CASE \E p \in Pools, x \in Executions, t \in Ticks, h \in HookData : SwapWithoutBond(p, x, t, h)
    BY <2>1, <2>2, <2>4, ClearedIsNothing DEF SwapWithoutBond
  <2>5. CASE bonds' = bonds
    BY <2>2, <2>5
  <2>6. CASE \E b \in DOMAIN bonds : Settle(b)
    BY <2>1, <2>2, <2>6, SettleRecords
  <2>7. SettleNext => \E b \in DOMAIN bonds : Settle(b)
    <3> SUFFICES ASSUME SettleNext PROVE \E b \in DOMAIN bonds : Settle(b)
      OBVIOUS
    <3>1. batch \in Seq(DOMAIN bonds) /\ batch # << >> /\ Settle(Head(batch))
      BY <2>1 DEF SettleNext, Idle, Bookkeeping
    <3>2. Head(batch) \in DOMAIN bonds
      BY <3>1
    <3> QED
      BY <3>1, <3>2
  <2>8. CASE \/ \E p \in Pools, t \in Ticks : AfterInitialize(p, t)
             \/ \E p \in Pools, cfg \in Configs : SetPoolConfig(p, cfg)
             \/ \E n \in 1 .. MAX_SETTLE_BATCH : \E ids \in [1 .. n -> DOMAIN bonds] : SettleMany(ids)
             \/ \E p \in Pools, m \in 0 .. block : ResolveEndpoints(p, m)
             \/ NextBlock
             \/ UNCHANGED vars
    BY <2>5, <2>8 DEF AfterInitialize, SetPoolConfig, SettleMany, ResolveEndpoints, NextBlock,
                      vars, contract
  <2> QED
    BY <2>3, <2>4, <2>6, <2>7, <2>8 DEF Next, SettleBond
<1> QED
  BY <1>1, GroundKept, PTL DEF Spec, TermsHonest, TermsKept

\* The money of one settlement: what leaves the hook's balance and what joins
\* the reserve are together the collateral taken at the swap, no more and no
\* less, although settlement recomputes both from the leg (_settleBond).
THEOREM SettlePaysCollateral ==
    ASSUME Bookkeeping, NEW b \in DOMAIN bonds, Settle(b),
           NEW p \in Pools, p = bonds[b].pool,
           NEW c \in Currencies, c = Currency(p, bonds[b].collateralIsCurrency0)
    PROVE  /\ (balance[c] - balance'[c]) + (insurancePot'[p][c] - insurancePot[p][c])
                 = CollateralOfBond(b)
           /\ \A d \in Currencies : d # c => balance'[d] = balance[d]
<1>1. /\ TypeOK /\ bonds[b] \in Bond
      /\ balance \in [Currencies -> Nat] /\ insurancePot \in [Pools -> [Currencies -> Nat]]
  BY DEF Bookkeeping, TypeOK
<1>2. PICK m \in Nat : m = bonds[b].maturityBlock
  BY <1>1 DEF Bond
<1> DEFINE paid == SettlementFrom(b, Resolved(p, m).cumulative)
<1>3. Resolved(p, m) \in Bucket
  BY <1>1, ResolvedFacts
<1>4. paid.slash \in Nat /\ paid.refund \in Nat /\ paid.slash + paid.refund = CollateralOfBond(b)
  <2>1. PICK leg \in Nat, bps \in Nat, before \in Int, after \in Int :
            /\ leg = bonds[b].variableLeg /\ bps = bonds[b].collateralBps
            /\ before = bonds[b].tickBefore /\ after = bonds[b].tickAfter
    BY <1>1, PoolsAssumption DEF Bond
  <2>2. PICK c6 \in Int, c8 \in Int, c10 \in Int :
            /\ c6 = Resolved(p, m).cumulative["c6"]
            /\ c8 = Resolved(p, m).cumulative["c8"]
            /\ c10 = Resolved(p, m).cumulative["c10"]
    BY <1>3 DEF Bucket, Endpoint
  <2>3. paid = Settlement(leg, bps, before, after, c6, c8, c10)
    BY <2>1, <2>2 DEF SettlementFrom
  <2>4. CollateralOfBond(b) = CollateralOf(leg, bps)
    BY <2>1 DEF CollateralOfBond
  <2>5. Residual(c6, c8, c10, before, after) \in Nat
    BY ResidualType
  <2>6. PICK k \in Nat : k = SlashBpsFor(bps, Residual(c6, c8, c10, before, after))
    BY <2>5, SlashBpsWithinRate
  <2>7. paid = Split(leg, bps, k)
    BY <2>3, <2>6 DEF Settlement
  <2> HIDE DEF paid
  <2>8. /\ paid.slash \in Nat /\ paid.refund \in Nat
        /\ paid.slash + paid.refund = paid.collateral
    BY <2>7, SplitConserves
  <2>9. paid.collateral = CollateralOf(leg, bps)
    BY <2>7 DEF Split
  <2> QED
    BY <2>4, <2>8, <2>9
<1>5. /\ balance' = [balance EXCEPT ![c] = @ - paid.refund]
      /\ insurancePot' = [insurancePot EXCEPT ![p][c] = @ + paid.slash]
  BY <1>2 DEF Settle, Retained
<1> HIDE DEF paid
<1>6. balance'[c] = balance[c] - paid.refund /\ insurancePot'[p][c] = insurancePot[p][c] + paid.slash
  BY <1>1, <1>5
<1>7. balance[c] \in Nat /\ insurancePot[p][c] \in Nat
  BY <1>1
<1>8. \A d \in Currencies : d # c => balance'[d] = balance[d]
  BY <1>1, <1>5
<1> QED
  BY <1>4, <1>6, <1>7, <1>8

-------------------------------------------------------------------------------
(* Solvency.  The sums of Solvent, as functions of the records and of the  *)
(* reserves alone, and what one bond more, one bond less and one credit    *)
(* do to them.                                                             *)

Worth(r) == CollateralOf(r.variableLeg, r.collateralBps)

InToken(records, c) ==
    {b \in DOMAIN records :
        /\ records[b].state = "FINALIZED"
        /\ Currency(records[b].pool, records[b].collateralIsCurrency0) = c}

Owed(records, c) == SumFunction([b \in InToken(records, c) |-> Worth(records[b])])
Reserve(pot, c)  == SumFunction([p \in Pools |-> pot[p][c]])

\* Solvent, in these terms.
LEMMA SolventReads ==
    Solvent <=> \A c \in Currencies : balance[c] = Owed(bonds, c) + Reserve(insurancePot, c)
<1>1. ASSUME NEW c
      PROVE  [b \in OpenIn(c) |-> CollateralOfBond(b)] =
                [b \in InToken(bonds, c) |-> Worth(bonds[b])]
  BY DEF OpenIn, Finalized, InToken, CollateralOfBond, Worth
<1> QED
  BY <1>1 DEF Solvent, Owed, Reserve

LEMMA SolventReadsNext ==
    Solvent' <=> \A c \in Currencies : balance'[c] = Owed(bonds', c) + Reserve(insurancePot', c)
<1>1. ASSUME NEW CONSTANT c
      PROVE  ([b \in OpenIn(c) |-> CollateralOfBond(b)])' =
                [b \in InToken(bonds', c) |-> Worth(bonds'[b])]
  BY DEF OpenIn, Finalized, InToken, CollateralOfBond, Worth, Currency
<1> QED
  BY <1>1 DEF Solvent, Owed, Reserve

LEMMA WorthType ==
    ASSUME NEW r \in Bond
    PROVE  Worth(r) \in Nat
<1>1. r.variableLeg * r.collateralBps \in Nat
  BY DEF Bond
<1> QED
  BY <1>1 DEF Worth, CollateralOf, BPS

\* What is owed is the sum of the bonds' worth, over any function giving it.
LEMMA OwedIsSum ==
    ASSUME NEW records, IsFiniteSet(DOMAIN records),
           \A b \in DOMAIN records : records[b] \in Bond,
           NEW c
    PROVE  /\ IsFiniteSet(InToken(records, c))
           /\ \A b \in InToken(records, c) : Worth(records[b]) \in Int
           /\ Owed(records, c) \in Int
           /\ \A f : (\A b \in InToken(records, c) : f[b] = Worth(records[b])) =>
                  Owed(records, c) = SumFunctionOnSet(f, InToken(records, c))
<1> DEFINE S == InToken(records, c)
           w == [b \in S |-> Worth(records[b])]
<1>1. S \in SUBSET DOMAIN records
  BY DEF InToken
<1>2. IsFiniteSet(S)
  BY <1>1, FS_Subset
<1>3. \A b \in S : Worth(records[b]) \in Int
  BY <1>1, WorthType
<1>4. Owed(records, c) = SumFunctionOnSet(w, S)
  BY DEF Owed, SumFunction
<1>5. \A b \in S : w[b] = Worth(records[b])
  OBVIOUS
<1> HIDE DEF S, w
<1>6. SumFunctionOnSet(w, S) \in Int
  BY <1>2, <1>3, <1>5, SumType
<1>7. ASSUME NEW f, \A b \in S : f[b] = Worth(records[b])
      PROVE  SumFunctionOnSet(w, S) = SumFunctionOnSet(f, S)
  BY <1>2, <1>5, <1>7, SumCongruent
<1> QED
  BY <1>2, <1>3, <1>4, <1>6, <1>7 DEF S

\* A new bond is owed its worth in its own token, and nothing in another.
LEMMA OwedForNewBond ==
    ASSUME NEW old, NEW new, NEW id, NEW c,
           IsFiniteSet(DOMAIN old), id \notin DOMAIN old,
           DOMAIN new = DOMAIN old \cup {id},
           \A b \in DOMAIN old : old[b] \in Bond /\ new[b] = old[b],
           new[id] \in Bond, new[id].state = "FINALIZED"
    PROVE  Owed(new, c) = Owed(old, c) +
               (IF Currency(new[id].pool, new[id].collateralIsCurrency0) = c
                THEN Worth(new[id]) ELSE 0)
<1> DEFINE S == InToken(old, c)
           T == InToken(new, c)
           f == [b \in DOMAIN new |-> Worth(new[b])]
<1>1. IsFiniteSet(DOMAIN new) /\ \A b \in DOMAIN new : new[b] \in Bond
  BY FS_AddElement
<1>2. S \subseteq DOMAIN old /\ T \subseteq DOMAIN new
  BY DEF InToken
<1>3. \A b \in DOMAIN new : f[b] = Worth(new[b]) /\ f[b] \in Int
  BY <1>1, WorthType
<1>4. \A b \in S : f[b] = Worth(old[b])
  BY <1>2, <1>3
<1> HIDE DEF f
<1>5. /\ IsFiniteSet(S) /\ Owed(old, c) \in Int
      /\ Owed(old, c) = SumFunctionOnSet(f, S)
  BY <1>4, OwedIsSum
<1>6. Owed(new, c) = SumFunctionOnSet(f, T)
  BY <1>1, <1>2, <1>3, OwedIsSum
<1>7. CASE Currency(new[id].pool, new[id].collateralIsCurrency0) = c
  <2>1. T = S \cup {id} /\ id \notin S
    BY <1>7 DEF InToken
  <2>2. SumFunctionOnSet(f, S \cup {id}) = f[id] + SumFunctionOnSet(f, S)
    <3>1. \A b \in S \cup {id} : f[b] \in Int
      BY <1>2, <1>3, <2>1
    <3> HIDE DEF S
    <3> QED
      BY <1>5, <2>1, <3>1, SumWithOneMore
  <2>3. f[id] = Worth(new[id]) /\ f[id] \in Int
    BY <1>3
  <2> HIDE DEF S, T
  <2> QED
    BY <1>5, <1>6, <1>7, <2>1, <2>2, <2>3
<1>8. CASE Currency(new[id].pool, new[id].collateralIsCurrency0) # c
  <2>1. T = S
    BY <1>8 DEF InToken
  <2> HIDE DEF S, T
  <2> QED
    BY <1>5, <1>6, <1>8, <2>1
<1> QED
  BY <1>7, <1>8

\* A settled bond is owed nothing any more.
LEMMA OwedForSettledBond ==
    ASSUME NEW old, NEW new, NEW id \in DOMAIN old, NEW c,
           IsFiniteSet(DOMAIN old), DOMAIN new = DOMAIN old,
           \A b \in DOMAIN old : old[b] \in Bond,
           \A b \in DOMAIN old : b # id => new[b] = old[b],
           old[id].state = "FINALIZED",
           new[id] = [old[id] EXCEPT !.state = "SETTLED"]
    PROVE  Owed(new, c) = Owed(old, c) -
               (IF Currency(old[id].pool, old[id].collateralIsCurrency0) = c
                THEN Worth(old[id]) ELSE 0)
<1> DEFINE S == InToken(old, c)
           T == InToken(new, c)
           f == [b \in DOMAIN old |-> Worth(old[b])]
<1>1. new[id] \in Bond /\ new[id].state # "FINALIZED"
  BY DEF Bond
<1>2. S \subseteq DOMAIN old /\ T \subseteq DOMAIN old /\ id \notin T
  BY <1>1 DEF InToken
<1>3. \A b \in DOMAIN new : new[b] \in Bond
  BY <1>1
<1>4. \A b \in DOMAIN old : f[b] = Worth(old[b]) /\ f[b] \in Int
  BY WorthType
<1>5. \A b \in T : f[b] = Worth(new[b])
  BY <1>2, <1>4
<1> HIDE DEF f
<1>6. /\ IsFiniteSet(S) /\ Owed(old, c) \in Int
      /\ Owed(old, c) = SumFunctionOnSet(f, S)
  BY <1>2, <1>4, OwedIsSum
<1>7. Owed(new, c) = SumFunctionOnSet(f, T) /\ Owed(new, c) \in Int
  BY <1>3, <1>5, OwedIsSum
<1>8. CASE Currency(old[id].pool, old[id].collateralIsCurrency0) = c
  <2>1. T = S \ {id} /\ id \in S
    BY <1>1, <1>8 DEF InToken
  <2>2. SumFunctionOnSet(f, S) = f[id] + SumFunctionOnSet(f, S \ {id})
    <3>1. \A b \in S : f[b] \in Int
      BY <1>2, <1>4
    <3> HIDE DEF S
    <3> QED
      BY <1>6, <2>1, <3>1, SumTakesAny
  <2>3. f[id] = Worth(old[id]) /\ f[id] \in Int
    BY <1>4
  <2> HIDE DEF S, T
  <2> QED
    BY <1>6, <1>7, <1>8, <2>1, <2>2, <2>3
<1>9. CASE Currency(old[id].pool, old[id].collateralIsCurrency0) # c
  <2>1. T = S
    BY <1>1, <1>9 DEF InToken
  <2> HIDE DEF S, T
  <2> QED
    BY <1>6, <1>7, <1>9, <2>1
<1> QED
  BY <1>8, <1>9

LEMMA ReserveType ==
    ASSUME NEW pot \in [Pools -> [Currencies -> Nat]], NEW c \in Currencies
    PROVE  Reserve(pot, c) \in Int
<1> DEFINE f == [q \in Pools |-> pot[q][c]]
<1>1. Reserve(pot, c) = SumFunctionOnSet(f, Pools)
  BY DEF Reserve, SumFunction
<1>2. \A q \in Pools : f[q] \in Int
  OBVIOUS
<1> HIDE DEF f
<1> QED
  BY <1>1, <1>2, FinitePoolsAssumption, SumType

\* A credit to one pool's reserve is a credit to the reserves.
LEMMA ReserveCredited ==
    ASSUME NEW old \in [Pools -> [Currencies -> Nat]], NEW p \in Pools,
           NEW c \in Currencies, NEW k \in Nat, NEW new, new[p][c] = old[p][c] + k,
           \A q \in Pools \ {p} : new[q][c] = old[q][c]
    PROVE  Reserve(new, c) = Reserve(old, c) + k
<1> DEFINE f == [q \in Pools |-> old[q][c]]
           g == [q \in Pools |-> new[q][c]]
<1>1. \A q \in Pools : old[q][c] \in Int
  OBVIOUS
<1>2. /\ Reserve(old, c) = SumFunctionOnSet(f, Pools)
      /\ Reserve(new, c) = SumFunctionOnSet(g, Pools)
  BY DEF Reserve, SumFunction
<1>3. /\ \A q \in Pools : f[q] \in Int /\ g[q] \in Int
      /\ \A q \in Pools \ {p} : g[q] = f[q]
      /\ g[p] = f[p] + k
  BY <1>1
<1> HIDE DEF f, g
<1>4. SumFunctionOnSet(g, Pools) = SumFunctionOnSet(f, Pools) - f[p] + g[p]
  BY <1>3, FinitePoolsAssumption, SumWithOneChanged
<1>5. SumFunctionOnSet(f, Pools) \in Int /\ f[p] \in Int
  BY <1>3, FinitePoolsAssumption, SumType
<1> QED
  BY <1>2, <1>3, <1>4, <1>5

\* Steps that leave the records, the reserves and the balance as they were.
LEMMA SolventUntouched ==
    ASSUME Solvent, UNCHANGED <<balance, insurancePot>>,
           DOMAIN bonds' = DOMAIN bonds,
           \A b \in DOMAIN bonds : bonds'[b] = bonds[b]
    PROVE  Solvent'
BY DEF Solvent, OpenIn, Finalized, CollateralOfBond, Currency

LEMMA SwapWithBondSolvent ==
    ASSUME Grounded, Solvent, NEW p \in Pools, NEW x \in Executions, NEW t \in Ticks,
           NEW h \in HookData, SwapWithBond(p, x, t, h)
    PROVE  Solvent'
<1>1. Bookkeeping /\ TypeOK /\ MovePrice(p, x, t, h)
  BY DEF Grounded, Priced, Bookkeeping, SwapWithBond
<1>2. PICK id \in BondId : id = NextBondId(p) /\ id \notin DOMAIN bonds
  BY <1>1, FreshIdentifier
<1>3. PICK new : new = bonds'
  OBVIOUS
<1>4. /\ DOMAIN new = DOMAIN bonds \cup {id}
      /\ \A b \in DOMAIN bonds : bonds[b] \in Bond /\ new[b] = bonds[b]
      /\ new[id] \in Bond
  BY <1>1, <1>2, <1>3, SwapWithBondRecord, SwapWithBondType DEF TypeOK
<1>5. PICK bps \in 0 .. MAX_BOND_BPS : bps = SwapBps(p, t)
  BY <1>1, SwapBpsType
<1>6. PICK leg \in Nat, z \in BOOLEAN : leg = VariableLeg(x) /\ z = CollateralIsCurrency0(x)
  BY ExecutionType
<1>7. PICK d \in Currencies : d = Currency(p, z)
  BY CurrencyType
<1>8. /\ new[id].state = "FINALIZED" /\ new[id].pool = p
      /\ new[id].collateralIsCurrency0 = z
      /\ new[id].variableLeg = leg /\ new[id].collateralBps = bps
  <2>1. bonds'[NextBondId(p)] =
           [refundRecipient |-> h.recipient, pool |-> p,
            openBlock |-> block, maturityBlock |-> block + OBSERVATION_BLOCKS,
            variableLeg |-> VariableLeg(x), tickBefore |-> poolTick[p], tickAfter |-> t,
            collateralBps |-> SwapBps(p, t),
            collateralIsCurrency0 |-> CollateralIsCurrency0(x), state |-> "FINALIZED"]
    BY <1>1, SwapWithBondRecord
  <2> QED
    BY <1>2, <1>3, <1>5, <1>6, <2>1
<1> DEFINE k == CollateralOf(leg, bps)
<1>9. k \in Nat /\ Worth(new[id]) = k
  BY <1>8, CollateralOfBounds DEF Worth
<1>10. /\ balance' = [balance EXCEPT ![d] = @ + k]
       /\ insurancePot' = insurancePot
  BY <1>1, <1>5, <1>6, <1>7, MovePriceEffect DEF SwapWithBond, MovePrice
<1> HIDE DEF k
<1>11. ASSUME NEW c \in Currencies
       PROVE  balance'[c] = Owed(bonds', c) + Reserve(insurancePot', c)
  <2>1. Owed(new, c) = Owed(bonds, c) + (IF d = c THEN k ELSE 0)
    <3>1. IsFiniteSet(DOMAIN bonds)
      BY <1>1 DEF Bookkeeping
    <3>2. Owed(new, c) = Owed(bonds, c) +
               (IF Currency(new[id].pool, new[id].collateralIsCurrency0) = c
                THEN Worth(new[id]) ELSE 0)
      BY <1>2, <1>4, <1>8, <3>1, OwedForNewBond
    <3> QED
      BY <1>7, <1>8, <1>9, <3>2
  <2>2. balance[c] = Owed(bonds, c) + Reserve(insurancePot, c)
    BY SolventReads
  <2>3. balance \in [Currencies -> Nat]
    BY <1>1 DEF TypeOK
  <2>4. balance'[c] = balance[c] + (IF d = c THEN k ELSE 0)
    BY <1>9, <1>10, <2>3
  <2>5. Owed(bonds, c) \in Int /\ Reserve(insurancePot, c) \in Int
    <3>1. Owed(bonds, c) \in Int
      BY <1>1, OwedIsSum DEF Bookkeeping, TypeOK
    <3>2. Reserve(insurancePot, c) \in Int
      <4>1. insurancePot \in [Pools -> [Currencies -> Nat]]
        BY <1>1 DEF TypeOK
      <4> QED
        BY <4>1, ReserveType
    <3> QED
      BY <3>1, <3>2
  <2> QED
    BY <1>3, <1>9, <1>10, <2>1, <2>2, <2>4, <2>5
<1> QED
  BY <1>11, SolventReadsNext

LEMMA SettleSolvent ==
    ASSUME Bookkeeping, Solvent, NEW b \in DOMAIN bonds, Settle(b)
    PROVE  Solvent'
<1>1. TypeOK /\ bonds[b] \in Bond /\ IsFiniteSet(DOMAIN bonds)
  BY DEF Bookkeeping, TypeOK
<1>2. PICK p \in Pools, z \in BOOLEAN :
          p = bonds[b].pool /\ z = bonds[b].collateralIsCurrency0
  BY <1>1 DEF Bond
<1>3. PICK d \in Currencies : d = Currency(p, z)
  BY CurrencyType
<1>4. PICK new : new = bonds'
  OBVIOUS
<1>5. /\ bonds[b].state = "FINALIZED"
      /\ DOMAIN new = DOMAIN bonds
      /\ \A x \in DOMAIN bonds : x # b => new[x] = bonds[x]
      /\ new[b] = [bonds[b] EXCEPT !.state = "SETTLED"]
  BY <1>4, SettleRecords DEF Finalized
<1>6. PICK m \in Nat : m = bonds[b].maturityBlock
  BY <1>1 DEF Bond
<1> DEFINE paid == SettlementFrom(b, Resolved(p, m).cumulative)
<1>7. paid.slash \in Nat /\ paid.refund \in Nat
  BY <1>1, ResolvedFacts, SettlementAmounts
<1>8. /\ balance' = [balance EXCEPT ![d] = @ - paid.refund]
      /\ insurancePot' = [insurancePot EXCEPT ![p][d] = @ + paid.slash]
  BY <1>2, <1>3, <1>6 DEF Settle, Retained
<1>9. PICK slash \in Nat, refund \in Nat : slash = paid.slash /\ refund = paid.refund
  BY <1>7
<1> HIDE DEF paid
<1>10. balance \in [Currencies -> Nat] /\ insurancePot \in [Pools -> [Currencies -> Nat]]
  BY <1>1 DEF TypeOK
<1>11. /\ balance'[d] = balance[d] - refund
       /\ insurancePot'[p][d] = insurancePot[p][d] + slash
       /\ \A c \in Currencies : c # d => balance'[c] = balance[c]
  BY <1>8, <1>9, <1>10
<1>12. slash + refund = Worth(bonds[b])
  <2>1. (balance[d] - balance'[d]) + (insurancePot'[p][d] - insurancePot[p][d])
            = CollateralOfBond(b)
    BY <1>2, <1>3, SettlePaysCollateral
  <2>2. balance[d] \in Nat /\ insurancePot[p][d] \in Nat
    BY <1>10
  <2> QED
    BY <1>11, <2>1, <2>2 DEF CollateralOfBond, Worth
<1>13. ASSUME NEW c \in Currencies
       PROVE  balance'[c] = Owed(bonds', c) + Reserve(insurancePot', c)
  <2>1. Owed(new, c) = Owed(bonds, c) - (IF d = c THEN Worth(bonds[b]) ELSE 0)
    <3>1. \A x \in DOMAIN bonds : bonds[x] \in Bond
      BY <1>1 DEF TypeOK
    <3> QED
      BY <1>1, <1>2, <1>3, <1>5, <3>1, OwedForSettledBond
  <2>2. /\ Reserve(insurancePot, c) \in Int
        /\ Reserve(insurancePot', c) =
               Reserve(insurancePot, c) + (IF c = d THEN slash ELSE 0)
    <3>1. PICK pot : pot = insurancePot'
      OBVIOUS
    <3>2. PICK k \in Nat : k = IF c = d THEN slash ELSE 0
      OBVIOUS
    <3>3. /\ pot[p][c] = insurancePot[p][c] + k
          /\ \A q \in Pools \ {p} : pot[q][c] = insurancePot[q][c]
      BY <1>8, <1>9, <1>10, <3>1, <3>2
    <3>4. Reserve(pot, c) = Reserve(insurancePot, c) + k
      BY <1>10, <3>3, ReserveCredited
    <3> QED
      BY <1>10, <3>1, <3>2, <3>4, ReserveType
  <2>3. Owed(bonds', c) = Owed(new, c)
    BY <1>4
  <2>4. Owed(bonds, c) \in Int
    BY <1>1, OwedIsSum DEF TypeOK
  <2>5. balance[c] = Owed(bonds, c) + Reserve(insurancePot, c) /\ balance[c] \in Nat
    BY <1>10, SolventReads
  <2>6. balance'[c] = balance[c] - (IF d = c THEN refund ELSE 0)
    BY <1>11, <2>5
  <2> QED
    BY <1>4, <1>12, <2>1, <2>2, <2>3, <2>4, <2>5, <2>6
<1> QED
  BY <1>13, SolventReadsNext

LEMMA InitSolvent == Init => Solvent
<1> SUFFICES ASSUME Init, NEW c \in Currencies
             PROVE  balance[c] = Owed(bonds, c) + Reserve(insurancePot, c)
  BY SolventReads
<1>1. InToken(bonds, c) = {}
  BY DEF Init, Unwritten, InToken
<1>2. Owed(bonds, c) = 0
  <2> DEFINE w == [b \in InToken(bonds, c) |-> Worth(bonds[b])]
  <2>1. Owed(bonds, c) = SumFunctionOnSet(w, {})
    BY <1>1 DEF Owed, SumFunction
  <2> HIDE DEF w
  <2> QED
    BY <2>1, SumOfNothing
<1>3. Reserve(insurancePot, c) = 0
  <2> DEFINE f == [p \in Pools |-> insurancePot[p][c]]
  <2>1. Reserve(insurancePot, c) = SumFunctionOnSet(f, Pools)
    BY DEF Reserve, SumFunction
  <2>2. \A p \in Pools : f[p] = 0
    BY DEF Init
  <2> HIDE DEF f
  <2>3. SumFunctionOnSet(f, Pools) = Cardinality(Pools) * 0
    BY <2>2, FinitePoolsAssumption, SumOfConstant
  <2>4. Cardinality(Pools) \in Nat
    BY FinitePoolsAssumption, FS_CardinalityType
  <2> QED
    BY <2>1, <2>3, <2>4
<1>4. balance[c] = 0
  BY DEF Init
<1> QED
  BY <1>2, <1>3, <1>4

LEMMA NextSolvent == Grounded /\ Solvent /\ [Next]_vars => Solvent'
<1> SUFFICES ASSUME Grounded, Solvent, [Next]_vars PROVE Solvent'
  OBVIOUS
<1>1. Bookkeeping
  BY DEF Grounded, Priced
<1>2. CASE \E p \in Pools, x \in Executions, t \in Ticks, h \in HookData : SwapWithBond(p, x, t, h)
  BY <1>2, SwapWithBondSolvent
<1>3. CASE \E p \in Pools, x \in Executions, t \in Ticks, h \in HookData : SwapWithoutBond(p, x, t, h)
  <2>1. PICK p \in Pools, x \in Executions, t \in Ticks, h \in HookData : SwapWithoutBond(p, x, t, h)
    BY <1>3
  <2>2. /\ bonds' = Cleared(p, x, h)
        /\ UNCHANGED <<balance, insurancePot>>
    BY <1>1, <2>1, MovePriceEffect DEF SwapWithoutBond, MovePrice
  <2> QED
    BY <1>1, <2>2, ClearedIsNothing, SolventUntouched
<1>4. CASE \E b \in DOMAIN bonds : Settle(b)
  BY <1>1, <1>4, SettleSolvent
<1>5. SettleNext => \E b \in DOMAIN bonds : Settle(b)
  <2> SUFFICES ASSUME SettleNext PROVE \E b \in DOMAIN bonds : Settle(b)
    OBVIOUS
  <2>1. batch \in Seq(DOMAIN bonds) /\ batch # << >> /\ Settle(Head(batch))
    BY <1>1 DEF SettleNext, Idle, Bookkeeping
  <2>2. Head(batch) \in DOMAIN bonds
    BY <2>1
  <2> QED
    BY <2>1, <2>2
<1>6. CASE \/ \E p \in Pools, t \in Ticks : AfterInitialize(p, t)
           \/ \E p \in Pools, cfg \in Configs : SetPoolConfig(p, cfg)
           \/ \E n \in 1 .. MAX_SETTLE_BATCH : \E ids \in [1 .. n -> DOMAIN bonds] : SettleMany(ids)
           \/ \E p \in Pools, m \in 0 .. block : ResolveEndpoints(p, m)
           \/ NextBlock
           \/ UNCHANGED vars
  <2>1. UNCHANGED <<bonds, balance, insurancePot>>
    BY <1>6 DEF AfterInitialize, SetPoolConfig, SettleMany, ResolveEndpoints, NextBlock,
                vars, contract, tokens
  <2> QED
    BY <2>1, SolventUntouched
<1> QED
  BY <1>2, <1>3, <1>4, <1>5, <1>6 DEF Next, SettleBond

\* In every token, in every reachable state and between any two entries of a
\* batch, the hook holds exactly the collateral of its unsettled bonds and
\* the reserves of its pools, over any number of both (poolManager.take in
\* _takeVariableLegBond, the transfer and insurancePot in _settleBond).
THEOREM AlwaysSolvent == Spec => []Solvent
<1>1. Init => Grounded /\ Solvent
  BY InitGrounded, InitSolvent
<1>2. (Grounded /\ Solvent) /\ [Next]_vars => (Grounded /\ Solvent)'
  BY NextGrounded, NextSolvent
<1> QED
  BY <1>1, <1>2, PTL DEF Spec

-------------------------------------------------------------------------------
(* The hook implements BondLedger: every transaction is a transaction of   *)
(* the ledger, or nothing that the ledger can see.                         *)

LEMMA InitRefines == Init => Ledger!Init
<1> SUFFICES ASSUME Init PROVE Ledger!Init
  OBVIOUS
<1>1. DOMAIN bonds = {}
  BY DEF Init, Unwritten
<1>2. OpenedFor = [b \in {} |-> {}]
  BY <1>1 DEF OpenedFor
<1>3. Finalized = {}
  BY <1>1 DEF Finalized
<1> QED
  BY <1>2, <1>3 DEF Init, Ledger!Init

\* Records that only changed their state are the same terms.
LEMMA SameTerms ==
    ASSUME DOMAIN bonds' = DOMAIN bonds,
           \A b \in DOMAIN bonds : bonds'[b] = bonds[b]
    PROVE  OpenedFor' = OpenedFor /\ Finalized' = Finalized
BY DEF OpenedFor, Finalized, Currency

LEMMA NextBlockRefines ==
    ASSUME Grounded, NextBlock
    PROVE  Ledger!NextBlock
<1>1. TypeOK /\ block \in Nat
  BY BasicTypes DEF Grounded, Priced, Bookkeeping
<1>2. /\ block' = block + 1 /\ UNCHANGED <<poolTick, bonds, insurancePot, refunded>>
      /\ index' = [p \in Pools |-> Put(index[p], block + 1, index[p][block] + poolTick[p])]
  BY DEF NextBlock, contract, tokens
<1>3. ASSUME NEW p \in Pools
      PROVE  Put(index[p], block + 1, index[p][block] + poolTick[p]) =
                [b \in 0 .. block + 1 |->
                    IF b = block + 1 THEN index[p][block] + poolTick[p] ELSE index[p][b]]
  <2>1. DOMAIN index[p] = 0 .. block
    BY <1>1 DEF TypeOK
  <2>2. (0 .. block) \cup {block + 1} = 0 .. block + 1
    BY <1>1
  <2> QED
    BY <2>1, <2>2 DEF Put
<1>4. index' = [p \in Pools |-> [b \in 0 .. block + 1 |->
                   IF b = block + 1 THEN index[p][block] + poolTick[p] ELSE index[p][b]]]
  BY <1>2, <1>3
<1>5. OpenedFor' = OpenedFor /\ Finalized' = Finalized
  BY <1>2, SameTerms
<1> QED
  BY <1>2, <1>4, <1>5 DEF Ledger!NextBlock

LEMMA AfterInitializeRefines ==
    ASSUME NEW p \in Pools, NEW t \in Ticks, AfterInitialize(p, t)
    PROVE  Ledger!Trade(p)
<1>1. /\ poolTick' = [poolTick EXCEPT ![p] = t]
      /\ UNCHANGED <<block, index, bonds, insurancePot, refunded>>
  BY DEF AfterInitialize, tokens
<1>2. OpenedFor' = OpenedFor /\ Finalized' = Finalized
  BY <1>1, SameTerms
<1> QED
  BY <1>1, <1>2 DEF Ledger!Trade

LEMMA SwapWithoutBondRefines ==
    ASSUME Grounded, NEW p \in Pools, NEW x \in Executions, NEW t \in Ticks,
           NEW h \in HookData, SwapWithoutBond(p, x, t, h)
    PROVE  Ledger!Trade(p)
<1>1. Bookkeeping /\ MovePrice(p, x, t, h) /\ bonds' = Cleared(p, x, h)
  BY DEF Grounded, Priced, SwapWithoutBond
<1>2. /\ poolTick' = [poolTick EXCEPT ![p] = t]
      /\ UNCHANGED <<block, index, insurancePot, refunded>>
  BY <1>1, MovePriceEffect
<1>3. OpenedFor' = OpenedFor /\ Finalized' = Finalized
  BY <1>1, ClearedIsNothing, SameTerms
<1> QED
  BY <1>2, <1>3 DEF Ledger!Trade

LEMMA SwapWithBondRefines ==
    ASSUME Grounded, NEW p \in Pools, NEW x \in Executions, NEW t \in Ticks,
           NEW h \in HookData, SwapWithBond(p, x, t, h)
    PROVE  Ledger!Open(p)
<1>1. Bookkeeping /\ TypeOK /\ MovePrice(p, x, t, h)
  BY DEF Grounded, Priced, Bookkeeping, SwapWithBond
<1>2. /\ poolTick' = [poolTick EXCEPT ![p] = t] /\ poolTick'[p] = t
      /\ UNCHANGED <<block, index, insurancePot, refunded>>
  BY <1>1, MovePriceEffect DEF TypeOK
<1>3. PICK bps \in 1 .. MAX_BOND_BPS : bps = SwapBps(p, t)
  BY <1>1, SwapBpsType DEF SwapWithBond, Qualifies, MAX_BOND_BPS
<1>4. PICK id \in BondId : id = NextBondId(p)
  BY <1>1, FreshIdentifier
<1>5. /\ id \notin DOMAIN bonds
      /\ DOMAIN bonds' = DOMAIN bonds \cup {id}
      /\ \A b \in DOMAIN bonds : bonds'[b] = bonds[b]
      /\ bonds'[id] \in Bond
  BY <1>1, <1>4, FreshIdentifier, SwapWithBondRecord, SwapWithBondType
<1>6. PICK r \in Bond : r = bonds'[id]
  BY <1>5
<1>7. /\ r.pool = p /\ r.openBlock = block
      /\ r.tickBefore = poolTick[p] /\ r.tickAfter = t
      /\ r.collateralBps = bps /\ r.state = "FINALIZED"
  <2>1. bonds'[NextBondId(p)] =
           [refundRecipient |-> h.recipient, pool |-> p,
            openBlock |-> block, maturityBlock |-> block + OBSERVATION_BLOCKS,
            variableLeg |-> VariableLeg(x), tickBefore |-> poolTick[p], tickAfter |-> t,
            collateralBps |-> SwapBps(p, t),
            collateralIsCurrency0 |-> CollateralIsCurrency0(x), state |-> "FINALIZED"]
    BY <1>1, SwapWithBondRecord
  <2> QED
    BY <1>3, <1>4, <1>6, <2>1
<1>8. PICK c \in Currencies : c = Currency(p, r.collateralIsCurrency0)
  BY CurrencyType DEF Bond
<1>9. /\ DOMAIN OpenedFor' = DOMAIN OpenedFor \cup {id} /\ id \notin DOMAIN OpenedFor
      /\ \A b \in DOMAIN OpenedFor : OpenedFor'[b] = OpenedFor[b]
  BY <1>5 DEF OpenedFor, Currency
<1>10. OpenedFor'[id] =
          [refundRecipient |-> r.refundRecipient, pool |-> p, openBlock |-> block,
           variableLeg |-> r.variableLeg, tickBefore |-> poolTick[p], tickAfter |-> t,
           collateralBps |-> bps, currency |-> c]
  BY <1>5, <1>6, <1>7, <1>8 DEF OpenedFor, Currency
<1>11. OpenedFor'[id] \in Ledger!Terms
  <2>1. block \in Nat /\ poolTick[p] \in Ticks
    BY <1>1, BasicTypes
  <2> QED
    BY <1>3, <1>10, <2>1 DEF Ledger!Terms, Bond, MAX_BOND_BPS, Ledger!MAX_BOND_BPS
<1>12. Finalized' = Finalized \cup {id}
  BY <1>5, <1>6, <1>7 DEF Finalized
<1>13. poolTick' \in {[poolTick EXCEPT ![p] = u] : u \in Ticks}
  BY <1>2
<1>14. /\ id \in DOMAIN OpenedFor' \ DOMAIN OpenedFor
       /\ OpenedFor'[id].pool = p /\ OpenedFor'[id].openBlock = block
       /\ OpenedFor'[id].tickBefore = poolTick[p] /\ OpenedFor'[id].tickAfter = poolTick'[p]
  BY <1>2, <1>9, <1>10
<1> QED
  BY <1>2, <1>9, <1>11, <1>12, <1>13, <1>14 DEF Ledger!Open

\* The ledger settles with the same arithmetic.
LEMMA SameSettlement ==
    ASSUME NEW leg, NEW bps, NEW before, NEW after, NEW c6, NEW c8, NEW c10
    PROVE  Ledger!Settlement(leg, bps, before, after, c6, c8, c10) =
               Settlement(leg, bps, before, after, c6, c8, c10)
BY DEF Settlement, Split, SlashBpsFor, ChargeableResidual, Residual, AlignedLateWindow,
       CollateralOf, TickRate, TruncDiv, Largest, Least,
       BPS, SCALE, SCALE_DENOMINATOR, DEAD_ZONE_TICKS,
       Ledger!Settlement, Ledger!Split, Ledger!SlashBpsFor, Ledger!ChargeableResidual,
       Ledger!Residual, Ledger!AlignedLateWindow, Ledger!CollateralOf, Ledger!TickRate,
       Ledger!TruncDiv, Ledger!Largest, Ledger!Least,
       Ledger!BPS, Ledger!SCALE, Ledger!SCALE_DENOMINATOR, Ledger!DEAD_ZONE_TICKS

LEMMA SettleRefines ==
    ASSUME Grounded, NEW b \in DOMAIN bonds, Settle(b)
    PROVE  b \in Finalized /\ Ledger!Settle(b)
<1>1. Bookkeeping /\ TypeOK /\ Priced /\ bonds[b] \in Bond /\ WellFormed(b)
  BY DEF Grounded, Priced, Bookkeeping, TypeOK
<1>2. PICK p \in Pools, m \in Nat : p = bonds[b].pool /\ m = bonds[b].maturityBlock
  BY <1>1 DEF Bond
<1>3. PICK c \in Currencies : c = Currency(p, bonds[b].collateralIsCurrency0)
  BY <1>1, CurrencyType DEF Bond
<1> DEFINE s == SettlementFrom(b, Resolved(p, m).cumulative)
<1>4. /\ b \in Finalized /\ m <= block
      /\ DOMAIN bonds' = DOMAIN bonds
      /\ \A x \in DOMAIN bonds : x # b => bonds'[x] = bonds[x]
      /\ bonds'[b] = [bonds[b] EXCEPT !.state = "SETTLED"]
  BY <1>1, <1>2, SettleRecords
<1>5. /\ insurancePot' = [insurancePot EXCEPT ![p][c] = @ + s.slash]
      /\ refunded' = [refunded EXCEPT ![bonds[b].refundRecipient][c] = @ + s.refund]
      /\ UNCHANGED <<block, poolTick, index>>
      /\ \A e \in Endpoint : Resolvable(p, m, e)
  BY <1>2, <1>3 DEF Settle, Settleable, Retained, environment
<1>6. Exact(Resolved(p, m), index[p], m, block) /\ Resolved(p, m).frozen = Endpoint
  BY <1>1, <1>5, ResolvedExact, ResolvedFacts
<1>7. /\ OpenedFor' = OpenedFor
      /\ Finalized' = Finalized \ {b}
  BY <1>1, <1>4 DEF OpenedFor, Finalized, Bond, Currency
<1>8. Ledger!Outcome(b) = s
  <2>1. /\ Resolved(p, m).cumulative["c6"] = index[p][m - C6_OFFSET_FROM_MATURITY]
        /\ Resolved(p, m).cumulative["c8"] = index[p][m - C8_OFFSET_FROM_MATURITY]
        /\ Resolved(p, m).cumulative["c10"] = index[p][m]
    BY <1>6 DEF Exact, Endpoint, Offset
  <2>2. bonds[b].openBlock + OBSERVATION_BLOCKS = m
    BY <1>1, <1>2 DEF WellFormed
  <2>3. /\ OpenedFor[b].pool = p /\ OpenedFor[b].openBlock = bonds[b].openBlock
        /\ OpenedFor[b].variableLeg = bonds[b].variableLeg
        /\ OpenedFor[b].collateralBps = bonds[b].collateralBps
        /\ OpenedFor[b].tickBefore = bonds[b].tickBefore
        /\ OpenedFor[b].tickAfter = bonds[b].tickAfter
    BY <1>2 DEF OpenedFor
  <2>4. /\ m - 2 * LATE_WINDOW_BLOCKS = m - C6_OFFSET_FROM_MATURITY
        /\ m - LATE_WINDOW_BLOCKS = m - C8_OFFSET_FROM_MATURITY
    BY HorizonAssumption
  <2>5. Ledger!Outcome(b) =
           Ledger!Settlement(bonds[b].variableLeg, bonds[b].collateralBps,
                             bonds[b].tickBefore, bonds[b].tickAfter,
                             Resolved(p, m).cumulative["c6"],
                             Resolved(p, m).cumulative["c8"],
                             Resolved(p, m).cumulative["c10"])
    BY <2>1, <2>2, <2>3, <2>4 DEF Ledger!Outcome
  <2> QED
    BY <2>5, SameSettlement DEF SettlementFrom
<1> HIDE DEF s
<1>9. /\ OpenedFor[b].pool = p /\ OpenedFor[b].currency = c
      /\ OpenedFor[b].refundRecipient = bonds[b].refundRecipient
      /\ OpenedFor[b].openBlock + OBSERVATION_BLOCKS = m
  BY <1>1, <1>2, <1>3 DEF OpenedFor, WellFormed
<1> QED
  BY <1>4, <1>5, <1>7, <1>8, <1>9 DEF Ledger!Settle

LEMMA NextRefines == Grounded /\ [Next]_vars => [Ledger!Next]_(Ledger!vars)
<1> SUFFICES ASSUME Grounded, [Next]_vars PROVE [Ledger!Next]_(Ledger!vars)
  OBVIOUS
<1>1. CASE \E p \in Pools, t \in Ticks : AfterInitialize(p, t)
  BY <1>1, AfterInitializeRefines DEF Ledger!Next
<1>2. CASE \E p \in Pools, x \in Executions, t \in Ticks, h \in HookData : SwapWithoutBond(p, x, t, h)
  BY <1>2, SwapWithoutBondRefines DEF Ledger!Next
<1>3. CASE \E p \in Pools, x \in Executions, t \in Ticks, h \in HookData : SwapWithBond(p, x, t, h)
  BY <1>3, SwapWithBondRefines DEF Ledger!Next
<1>4. CASE NextBlock
  BY <1>4, NextBlockRefines DEF Ledger!Next
<1>5. CASE \E b \in DOMAIN bonds : Settle(b)
  BY <1>5, SettleRefines DEF Ledger!Next
<1>6. SettleNext => \E b \in DOMAIN bonds : Settle(b)
  <2> SUFFICES ASSUME SettleNext PROVE \E b \in DOMAIN bonds : Settle(b)
    OBVIOUS
  <2>1. batch \in Seq(DOMAIN bonds) /\ batch # << >> /\ Settle(Head(batch))
    BY DEF SettleNext, Idle, Grounded, Priced, Bookkeeping
  <2>2. Head(batch) \in DOMAIN bonds
    BY <2>1
  <2> QED
    BY <2>1, <2>2
<1>7. CASE UNCHANGED <<block, poolTick, index, bonds, insurancePot, refunded>>
  <2>1. OpenedFor' = OpenedFor /\ Finalized' = Finalized
    BY <1>7, SameTerms
  <2> QED
    BY <1>7, <2>1 DEF Ledger!vars
<1>8. CASE \/ \E p \in Pools, cfg \in Configs : SetPoolConfig(p, cfg)
           \/ \E n \in 1 .. MAX_SETTLE_BATCH : \E ids \in [1 .. n -> DOMAIN bonds] : SettleMany(ids)
           \/ \E p \in Pools, m \in 0 .. block : ResolveEndpoints(p, m)
           \/ UNCHANGED vars
  BY <1>7, <1>8 DEF SetPoolConfig, SettleMany, ResolveEndpoints, vars, environment, contract, tokens
<1> QED
  BY <1>1, <1>2, <1>3, <1>4, <1>5, <1>6, <1>8 DEF Next, SettleBond

\* Whoever settles a bond, when, and whatever was swapped, switched off or
\* resolved since, its outcome is what the price history before its maturity
\* determines (_settleBond, _resolveEndpoint).
THEOREM LedgerImplemented == Spec => ImplementsLedger
BY InitRefines, NextRefines, GroundKept, PTL DEF Spec, ImplementsLedger, Ledger!Spec
===============================================================================
