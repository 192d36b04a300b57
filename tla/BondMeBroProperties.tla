------------------------- MODULE BondMeBroProperties -------------------------
(***************************************************************************)
(* What module BondMeBro is to satisfy.                                    *)
(***************************************************************************)
EXTENDS BondMeBro, FiniteSetsExt

\* Every variable has its type.
TypeOK ==
    /\ block \in 1 .. MaxBlock
    /\ poolTick \in [Pools -> Ticks]
    /\ initBlock \in [Pools -> 0 .. block]
    /\ index \in [Pools -> [0 .. block -> Int]]
    /\ acc \in [Pools -> Accumulator]
    /\ poolConfig \in [Pools -> PoolConfig]
    /\ DOMAIN maturity \subseteq Pools \X Nat
    /\ \A k \in DOMAIN maturity : maturity[k] \in Bucket
    /\ DOMAIN bonds \subseteq BondId
    /\ \A b \in DOMAIN bonds : bonds[b] \in Bond
    /\ insurancePot \in [Pools -> [Currencies -> Nat]]
    /\ balance \in [Currencies -> Nat]
    /\ refunded \in [Recipients -> [Currencies -> Nat]]
    /\ batch \in Seq(BondId)

-------------------------------------------------------------------------------
(* Checkpoints. *)

\* A frozen reading is the true cumulative price of its own block, whichever
\* of a later swap, a settlement or a stranger's resolveEndpoints froze it and
\* however long the pool had been quiet (_freezeDueEndpoints, _resolveEndpoint).
CheckpointsExact ==
    \A k \in DOMAIN maturity : \A e \in maturity[k].frozen :
        /\ k[2] - Offset[e] \in 0 .. block
        /\ maturity[k].cumulative[e] = index[k[1]][k[2] - Offset[e]]

\* No reading a bond will need is ever lost: from the block an endpoint falls
\* due, an unsettled bond's reading is either frozen or still exact in the
\* accumulator, so settlement never meets MaturityCheckpointMissing.  This is
\* what the bounded scan of _advanceAndCheckpoint must achieve.
NoCheckpointLost ==
    \A b \in Finalized : \A e \in Endpoint :
        bonds[b].maturityBlock - Offset[e] <= block =>
            Resolvable(bonds[b].pool, bonds[b].maturityBlock, e)

\* A frozen reading is never thawed or rewritten, by any later swap or call.
FrozenForGood ==
    [][\A k \in DOMAIN maturity :
          /\ k \in DOMAIN maturity'
          /\ \A e \in maturity[k].frozen :
                /\ e \in maturity'[k].frozen
                /\ maturity'[k].cumulative[e] = maturity[k].cumulative[e]]_vars

-------------------------------------------------------------------------------
(* Bonds. *)

\* A bond, once taken, is never overwritten, altered or dropped: its only
\* change is to be settled, once.  In particular no later swap draws its
\* identifier again, although identifiers are built from a count that falls
\* when bonds are settled (_bondId).
BondsPermanent ==
    [][\A b \in Finalized \cup Settled :
          /\ b \in DOMAIN bonds'
          /\ \/ bonds'[b] = bonds[b]
             \/ bonds[b].state = "FINALIZED"
                /\ bonds'[b] = [bonds[b] EXCEPT !.state = "SETTLED"]]_vars

\* A bucket counts exactly its unsettled bonds: neither an early zero, which
\* would stop its checkpoints, nor a count left over after the last settlement.
BucketsCountBonds ==
    \A p \in Pools, m \in 0 .. MaxBlock + OBSERVATION_BLOCKS :
        BucketOf(p, m).pending =
            Cardinality({b \in Finalized : bonds[b].pool = p /\ bonds[b].maturityBlock = m})

\* Between transactions no record is half open: every swap's provisional
\* record was finalized or cleared (_takeVariableLegBond's three early
\* returns), under the identifier it was opened with.
NothingProvisional ==
    \A b \in DOMAIN bonds :
        /\ bonds[b].state # "PROVISIONAL"
        /\ b[1] = bonds[b].pool /\ b[2] = bonds[b].maturityBlock
        /\ bonds[b].maturityBlock = bonds[b].openBlock + OBSERVATION_BLOCKS

ClosingTick(p, b) == index[p][b + 1] - index[p][b]

\* A bond's terms are the prices the market showed: the tick before and after
\* its own swap, and a rate that covers the whole block's displacement from
\* the price the previous block closed at, whether the earlier swaps of the
\* block were bonded, unbonded or made while bonding was off.  The hook gets
\* exactly the collateral those terms give.
TermsHonest ==
    [][\A b \in DOMAIN bonds' \ DOMAIN bonds :
          LET r == bonds'[b]
              p == r.pool
              c == Currency(p, r.collateralIsCurrency0)
          IN  /\ r.tickBefore = poolTick[p] /\ r.tickAfter = poolTick'[p]
              /\ initBlock[p] < block =>
                    r.collateralBps = EffectiveCollateralBps(
                        poolTick[p], poolTick'[p], ClosingTick(p, block - 1))
              /\ balance'[c] - balance[c] = CollateralOf(r.variableLeg, r.collateralBps)]_vars

\* The last-resort guard of _takeVariableLegBond never turns a trade away:
\* with the minimums setPoolConfig insists on, collateral is always at least
\* one unit and less than the leg.
BondBoundNeverFires ==
    \A p \in Initialized, x \in Executions, t \in Ticks :
        Qualifies(poolConfig[p], x, SwapBps(p, t)) => WithinLeg(x, SwapBps(p, t))

-------------------------------------------------------------------------------
(* Money. *)

\* The unsettled bonds whose collateral is in token c.
OpenIn(c) == {b \in Finalized : Currency(bonds[b].pool, bonds[b].collateralIsCurrency0) = c}

\* In each token the hook holds exactly what it owes: the collateral of every
\* unsettled bond plus every pool's reserve, over all pools that share the
\* token, also halfway through a settleMany.
Solvent ==
    \A c \in Currencies :
        balance[c] = SumFunction([b \in OpenIn(c) |-> CollateralOfBond(b)])
                     + SumFunction([p \in Pools |-> insurancePot[p][c]])

\* What a bond was opened for, settled or not.
OpenedFor ==
    [b \in DOMAIN bonds |->
        [refundRecipient |-> bonds[b].refundRecipient, pool |-> bonds[b].pool,
         openBlock |-> bonds[b].openBlock, variableLeg |-> bonds[b].variableLeg,
         tickBefore |-> bonds[b].tickBefore, tickAfter |-> bonds[b].tickAfter,
         collateralBps |-> bonds[b].collateralBps,
         currency |-> Currency(bonds[b].pool, bonds[b].collateralIsCurrency0)]]

\* The contract does what the ledger promises: swaps, configuration changes,
\* checkpoints and calls by strangers are at most price moves there, and each
\* settlement pays what the price history alone determines.
Ledger == INSTANCE BondLedger WITH
    tick     <- poolTick,
    terms    <- OpenedFor,
    open     <- Finalized,
    retained <- insurancePot

ImplementsLedger == Ledger!Spec

\* Every bond whose recipient can be paid is settled in the end: nothing
\* anyone can do (swap, resolve endpoints, disable bonding, fail a batch)
\* takes the possibility away once the bond has matured.
EveryBondSettles ==
    \A b \in MaturingBonds :
        (b \in Finalized /\ bonds[b].refundRecipient \notin Rejecting)
            ~> (b \in Settled)
===============================================================================
