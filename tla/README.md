# A formal model of BondMeBro

BondMeBro is a Uniswap v4 hook. A swap that moves the price posts a small
collateral, taken from the leg the trader left open; ten blocks later anyone may
settle the bond. If the price move persisted during two late windows, part of
the collateral stays in the pool's reserve; if the price returned, all of it
goes back to the recipient named at the swap. A web client lists the bonds of an account, sends
swaps and settlements, and reads the chain through a proxy of its own. This
directory holds TLA+ modules for the contract and the client, the TLC runs that check them on small instances and the
theorems TLAPS proves about them for every value of the constants.

## 1. Inventory

| Part | State | Operations | Interacts with |
|---|---|---|---|
| Hook, swaps (`src/BondMeBro.sol`) | `poolConfig`, `bonds`, token balance | `_afterInitialize`, `setPoolConfig`, `_beforeSwap`, `_afterSwap` | called by PoolManager around every swap; decodes hookData; takes tokens from PoolManager |
| Hook, checkpoints | `maturity` buckets (three readings, a mask, a count) | `_advanceAndCheckpoint`, `_freezeDueEndpoints`, `resolveEndpoints` | reads the accumulator before it advances; written by swaps, settlements and strangers |
| Hook, settlement | `bonds`, `insurancePot`, token balance | `settleBond`, `settleMany` | reads the buckets; pays recipients |
| Tick accumulator (`TickAccumulatorLib.sol`) | one record per pool | `beginBlock`, `update`, `cumulativeAt` | owned by the hook, driven by the block number |
| Settlement arithmetic (`ModelL2SettlementLib.sol`) | none | `alignedLateWindow` ... `settle` | called by settlement |
| Payload codec (`HookDataCodec.sol`) | none | `decode` | called by both halves of a swap |
| Client: bond list (`useBonds.ts`, `bondStore.ts`) | rows in memory, an index in local storage, requests in flight | discover by receipt and by log, poll, mark settled | wallet account, receipts, the proxy |
| Client: receipts and history (`bond.ts`, `useBonds.ts`) | none | which event belongs to which swap and row | logs of the hook |
| Client: settle screen (`bonds.tsx`, `settlement.ts`) | one flow, its outcome | preflight, estimate, sign, wait, read back | the bond list, the wallet, other settlers |
| Client: swap screen (`swap.tsx`, `allowance.ts`, `guards.ts`) | form, quote, flow, grants known | quote, approve twice, simulate, sign, wait | the wallet, the quoter |
| Client: limits (`limits.ts`, `hookData.ts`) | none | derive the bounds of a swap | hook constants, pool configuration |
| Client: router plan (`swapPlan.ts`) | none | encode the router's actions | Universal Router, Permit2 |
| Client: RPC proxy (`route.ts`, `rpcProxy.ts`) | per-client windows, verified chains | rate-limit, validate, choose, fan out, recombine | upstream nodes |
| Client: pool configuration (`pools.tsx`, `poolConfig.ts`, `useProtocol.ts`) | draft, flow, the shared read | edit, apply, re-read | the hook's owner |
| Client: activity feed (`activity.ts`, `dashboard.tsx`) | a feed per tab, one saved feed | load, merge, save | local storage shared by tabs |
| Client: token metadata (`tokenMetadata.ts`) | decimals and symbols, a cache | load, cancel | the tokens |
| Client: deployment configuration (`deployment.ts`, `guards.ts`) | none | check the settings, decide readiness | the operator |
| Deployment and demo scripts | none that lasts | deploy, configure, replay a refund | contract |

What is hard, and what makes each part correct:

* **Checkpoints.** A reading is only available while the accumulator has not
  passed its block. Each swap must save exactly the readings that fall due in
  the interval it closes, from a scan bounded in two ways, before it moves the
  accumulator. A reading lost strands collateral for good; a reading taken at
  the wrong price settles wrongly. Swaps, settlements and strangers write the
  same bucket in any order. *Correct:* readings are exact, none is lost, none
  changes.
* **Records.** `beforeSwap` opens a record on the requested amount, `afterSwap`
  finalizes or clears it on the executed one, under an identifier computed
  twice from a count that settlement lowers. *Correct:* no half-open record
  survives a swap, no identifier is used twice, terms are those of the swap.
* **Money.** One token balance backs every pool; the collateral is recomputed at
  settlement from a stored leg and rate. *Correct:* the balance is always the
  unsettled collateral plus the reserves.
* **Settlement.** Anyone, at any later block, alone or in a batch that reverts
  whole. *Correct:* the outcome depends on the price history before maturity
  and nothing else, and every bond that can be paid is settled in the end.
* **Arithmetic.** Truncating divisions, a dead zone with a catch-up region, a
  cap. *Correct:* a returned price costs nothing, a lasting one costs its rate,
  no cliffs, no direction favoured.
* **Bond list.** Four sources answer at one time and are applied at another.
  *Correct:* a row is never ahead of the hook, never goes back, and comes to show
  what happened; the stored index forgets nothing.
* **Flows.** A press of a button runs on with the values its render captured,
  whatever happens to the screen, the wallet and the chain meanwhile. *Correct:*
  one transaction at a time, bounds that belong to the form they are sent with, an
  outcome that agrees with the chain, and a button that becomes free again.
* **Proxy.** Handlers share tables of bounded size and a cache of verified
  upstreams; workers share a cursor. *Correct:* each answer in its request's
  place, nothing sent twice, nobody refused below the limit.
* **Arithmetic of the client.** It repeats the hook's with roundings of its own.
  *Correct:* what it signs never stops a swap that the hook would take.

`PROJECT.json` lists every hazard at the line where it bites, with the
properties that would catch it.

## 2. Modules

| Module | Models | Used by |
|---|---|---|
| `TickAccumulator` | `TickAccumulatorLib.sol` as operators on the packed record | `BondMeBro` |
| `SettlementMath` | the collateral curve and `ModelL2SettlementLib.sol` with EVM rounding | `BondMeBro`, `BondLedger`, `SettlementMathMC` |
| `BondMeBro` | the hook, PoolManager's price, the clock and the tokens: one action per transaction | properties, proofs |
| `BondLedger` | what the hook promises, with no accumulator, bucket or batch | refined by `BondMeBro` |
| `BondMeBroProperties` | invariants, action properties, liveness and the refinement mapping | runs, proofs |
| `BondMeBroMC`, `SettlementMathMC` | values of the constants, narrowed next-state relations, the price-history driver for the arithmetic | TLC |
| `SettlementMath_proofs` | lemmas on sums over finite sets and on truncating division; theorems: bounds of the arithmetic, conservation | TLAPS |
| `SettlementMathMC_proofs` | theorems: what settlement promises, for every price history | TLAPS |
| `BondMeBro_proofs` | theorems: types, identifiers and bucket counts; readings are exact and none is lost; what no step does to a reading or a bond, terms, the money of a settlement, solvency, and that `BondMeBro` implements `BondLedger` | TLAPS |
| `BondStore` | the bond list: the chain as far as it matters, one browser, its requests and its storage | `BondsScreen` |
| `BondsScreen` | the settle screen, composed with `BondStore` (which it extends) and other settlers | runs, proofs |
| `BondHistory` | logs of transactions with any swaps and settlements on several pools; outcomes of receipts, rows of an account | `Client` |
| `SwapFlow` | the swap screen: quote, grants, wallet, attempts, edits | `SwapFlowMC`, proofs |
| `Limits` | `limits.ts`, `poolConfig.ts`, `hookData.ts` as operators | `SwapLimits`, `RouterPlan`, `PoolsScreen` |
| `SwapLimits` | one swap from quote to execution: `Limits` against the collateral arithmetic of `SettlementMath` | `Client` |
| `RouterPlan` | the router plan, executed by the router over its debts and credits | `Client` |
| `RpcProxy` | the proxy's handlers, windows, verified upstreams and fan-out | `RpcProxyMC`, proofs |
| `PoolsScreen` | the owner's form, the hook's configuration, the shared read that polls it | `PoolsScreenMC`, proofs |
| `ActivityFeed` | tabs and the saved feed | `Client` |
| `TokenMetadata` | loads of the tokens' metadata | `Client` |
| `Deployment` | the operator's settings, `resolveDeployment`, `tradingReadiness` | `Client` |
| `Client` | composes the six parts of the client that share no state, with the assumptions on their constants | `ClientMC`, proofs |
| `ClientMC`, `SwapFlowMC`, `RpcProxyMC`, `PoolsScreenMC` | values of the constants | TLC |
| `Client_proofs` | theorems: the client's limits against the hook, plans within what was signed, genuine decimals, sound deployments, feeds that lose nothing, receipts and rows of one's own bonds | TLAPS |
| `BondsScreen_proofs` | theorems: rows never ahead, never back, the index forgets nothing, the settle screen agrees with the chain | TLAPS |
| `SwapFlow_proofs` | theorems: types, one flow, bounds of the swap's own form, honest outcomes, one preparation is enough | TLAPS |
| `PoolsScreen_proofs` | theorems: types, one transaction, no refusal for content, honest success, a re-read that is fresh | TLAPS |
| `RpcProxy_proofs` | theorems: a batch is answered in place and sent once, the table stays bounded, no stale entry decides | TLAPS |

### From the code to the model

A step is one transaction or one block. A revert is not a step: every `revert`
and every checked overflow of the code is a guard of the action.

| Code | Model |
|---|---|
| `_afterInitialize` | `AfterInitialize`; a pool stands for its `poolIndex`, given out once |
| `setPoolConfig` | `SetPoolConfig`, guarded by `Accepted`; disabling clears the thresholds |
| `_beforeSwap` + swap + `_afterSwap` | `SwapWithoutBond` or `SwapWithBond`. `Checkpointed` and `Advanced` are `_advanceAndCheckpoint`, `Prepares`/`Prepared` the provisional record, `Qualifies` the four early returns of `_takeVariableLegBond`, `Cleared`, `Finalize` and `Registered` what each way out writes |
| `settleBond` | `SettleBond`; `Settle` is `_settleBond` with the endpoints it freezes |
| `settleMany` | `SettleMany` admits a batch none of whose entries would revert; `SettleNext` then settles its entries one by one, every other action waiting. This is the transaction's own order, with its intermediate states visible to the invariants |
| `resolveEndpoints` | `ResolveEndpoints`, for any pool and any block up to now |
| PoolManager's tick, `block.number`, ERC-20 balances | `poolTick`, `block`, `balance`, `refunded` (external) |

`index` is a history variable: `index[p][b]` is the true sum of pool `p`'s
closing ticks before block `b`. No action reads it; properties compare the
contract's readings with it.

Two parts of a swap's data are chosen from small sets: its execution (direction,
kind, requested and executed amounts) and its payload. Prices move freely in the
trade's direction. hookData is what it decodes to; a payload that does not
decode is one with no recipient. Native currency, fee-on-transfer, rebasing and
callback tokens are outside the contract's scope (`README.md`), so a transfer
either happens in full or fails, and makes no call back.

### The client

JavaScript runs to the next `await` without interruption, so a step is one
handler or one stretch between two awaits. What a closure captured is a field of
the attempt or request that carries it; what it reads through a ref or from
storage is read from the state. Effects, queries and timers are actions.

| Code | Model |
|---|---|
| `useBonds.load` | `StartLoad` (the block number answers; the logs are of the window that ends there), `EndScan` (the index is read again and written), `ReadCandidate` once per bond in any order, since reads are sent together, `ApplyLoad`; `FailLoad` |
| `reconcile` | `StartPoll`, `PollRead` per row at a time of its own, `ApplyPoll` |
| `addDiscoveredBond`, `markSettledFromReceipt`, `refresh`, the account effect | `AddDiscoveredBond`, `MarkSettledFromReceipt`, `Refresh`, `SwitchAccount`; cleaning an effect up cancels its requests (`Cancelled`, `Show`) |
| `mergeBondRecord(s)` | `MergeBondRecord`, `MergeBondRecords`, `Newer` |
| `BondCard.settle` | an attempt of `BondsScreen`: preflight, estimate, signature, receipt, read-back; `mounted` says whether its `setState` still reaches a screen |
| `swap.tsx` approve and swap handlers | an attempt of `SwapFlow`: `estimate`, `signing`, `waiting` and `refetch` for each call it makes |
| `useQuery` of the quote | `QuoteAnswers`, `QuoteFails`, with its retries and the data kept meanwhile |
| `POST` of the proxy | `Receive`, then `HandlerStep` to the next await; the buckets are a sequence in the `Map`'s insertion order (a client that starts a new window keeps its place) |
| `AdminCard.apply` | an attempt of `PoolsScreen`; configurations are numbered by their place in the hook's history, so that an answer says how old it is |
| `refetch` of a query | `Refetched`: cancels the fetch in flight and starts another, except before the first answer, when it joins it |

## 3. Runs

Bounds: `MaxBlock` (last block), `MaxBonds` (bonds ever opened), `Ticks` (two
prices 40 apart: a rate of ten basis points, outside the dead zone), batches of at
most two. Unless stated, the horizon is three blocks with endpoints at the last
three (`LATE_WINDOW_BLOCKS = 1`), the smallest in which the two bounds of the
scan, the three endpoints and the block of opening are all different.

* **checkpoints** - the full next-state relation on one pool, five blocks, two
  bonds. Two bonds in one bucket, in different buckets, one settled while the
  other is pending, quiet intervals of every length, strangers resolving buckets
  that are empty or half frozen. `CheckpointsExact`, `NoCheckpointLost`,
  `FrozenForGood`, `BucketsCountBonds`, `TermsHonest`, `TypeOK`.
* **real_horizon** - the code's own 10/4/2 and twelve blocks, so a bond opens,
  matures and is settled late. Initialization and configuration happen in the
  first block and strangers resolve only buckets that hold a bond. The scan
  loses nothing, and the contract implements `BondLedger`: no matter who
  settles, when, and what was swapped since, the refund is what the history
  before maturity determines.
* **custody** - swaps of every kind and configurations the code must refuse.
  `NothingProvisional`, `BondsPermanent`, `BondBoundNeverFires`.
* **shared_token** - two pools with a token in common, three bonds, batches
  across pools and one recipient whose transfers fail. The executions take collateral
  in the shared token whichever way the price goes, or in the pool's own. Both pools leave
  the first block with bonding on, one at each tick, and each is traded at most once a block (the
  other runs have no such limits). Bonds of block 2 mature in block 5, the last: in
  it both pools settle bonds in the shared token, one of them alone or both in one batch,
  each with a part kept in its reserve or none, while a third bond in that token is still
  immature or its recipient cannot be paid. `Solvent`, also between two entries of a batch.
* **liveness** - fair behaviours up to the last block number the stored width can
  hold (`BLOCK_MODULUS = MaxBlock + 1`), so that the swaps of the last blocks
  revert on overflow. `EveryBondSettles`: a bond whose recipient can be paid is
  settled, whatever else is settled, switched off or failing around it.
* **settlement_math** - the arithmetic with the code's own constants over every
  sequence of late-window prices drawn from six ticks on and around the edges at
  5 and 10 ticks. The run ends when the windows are full, so it stops
  (`CHECK_DEADLOCK FALSE`).

The client's properties are conjunctions of named parts; the parts are stated and
explained one by one in the modules. A run may stop where the instance's presses,
edits or requests are used up (`CHECK_DEADLOCK FALSE`); the bond list never does.

* **bonds** - the bond list with the settle button, one account, one bond, one sweep, one poll and
  one press, a refresh by the user, while the wallet disconnects and comes back, the
  page is reloaded, the screen is left and reopened, sweeps, reads and receipts fail, and somebody
  else settles first. One bond is enough for the rows, which are merged one by one
  and never look at each other; an entry of the index is at risk from a sweep that
  began before it was stored, which one bond and one sweep already give.
  `ScreenSafe` (`ScreenHonest`: an error or a success on screen agrees with the chain),
  `NeverAhead`, `NoRegression`, `IndexRemembers`, and under fairness `ListCatchesUp`
  (`OwnBondListed`, `SettlementShown`). `SPAN = 0` and bonds opened in either block make some
  bonds fall out of the window of a sweep. The count of failures saturates at one
  (three in the code): only a message depends on it.
* **swap_flow** - two presses, two forms of different size, the grants of an
  earlier session or none, one retry of a quote (three in the code), and one change between any
  two steps: an edit, a switch of account or network, an outage or a lapsed
  grant. `FlowSafe` (`OneFlowUnlessEdited`, `BoundsBelongToForm`), `SwapShownHonest`,
  `PreparationSuffices`, `BusyEnds`. A second press is what a double click is, and what a press after an edit
  meets.
* **client_parts** - the parts of the client that share no state. A behaviour
  picks one part and moves it alone, the others resting in an initial state, so the
  states are the sum of the parts and not their product, and each part runs through
  all of its own.
  * Limits: the code's `BPS` and cap, the widths brought down to amounts around
    them; configurations, legs and tolerances on both sides of each edge.
    `LimitsSafe` (`CeilingNeverBindsAlone`, `LimitsEncode`, `OrderingAloneNeverReverts`). A
    ceiling that rounds to zero already means that no bond fits under the maximum,
    so the ceiling of one it is replaced by is harmless whatever the configuration.
  * Router plan: the legs, rates, tolerances and the hook's constants of the limits;
    quotes of both sizes, so that a bound is met and missed, exact input filled in
    part, and an allowance with and without something to spare. `PlanSafe`
    (`PlanCloses`, `TraderWithinLimits`).
  * Token metadata: two tokens, two loads, decimals that cannot be used. `MetadataSound`
    (`FailsClosed`, and `StaysReady` of every step).
  * Deployment: three edits from a proper configuration, addresses and numbers on both
    sides of each bound, and the flag of a dynamic fee. `DeploymentSound` (`ReadyPoolCanExist`, `SupportedPoolCanBeNamed`, `ReadyCanTrade`,
    and `ProblemsAreReal` of every step). Three edits break two fields and mend
    one, and no check looks at more than two.
  * Activity feed: two tabs, four entries, feeds of two. `FeedSafe` (`TabHoldsNewest`,
    `SavedSurvives`). The merge is told by what it returns, an order of the entries with the
    newest first, cut; entries of one block and log index may come in either order.
  * Receipts and history: three bonds of two accounts on two pools with two legs, in two
    transactions, two of them settled. A transaction begins, and then swaps and settlements
    are added to it one by one, so that its logs are those of any sequence of them. Three
    bonds give a receipt with a bond of somebody else, or of the other pool, before and after one's own.
    `HistorySafe` (`OutcomeIsOwn`, `RowsAreOwn`, `CurrencyUnlessLegsMeet`).
* **rpc_proxy** - two requests of one client or of two, a rate of one and a table of one bucket
  (so that the second client evicts the first), two upstreams one of which may move to another
  chain once, verifications that live one tick, two workers. Bodies: unparsable, one
  entry above the bound of four, every kind of refused entry, and a refused entry
  between two that are forwarded. `BatchSafe` (`AnswersInPlace`, `SentOnce`,
  `BucketsBounded`), `DecisionsSound` (`ChosenWasVerified` and `RefusedOnlyOverLimit` of every step: an eviction
  only makes limiting more lenient), `EveryRequestAnswered`.
* **pool_config** - two presses, another session of the owner, a form that is edited, left and reopened,
  one draft the hook accepts and one below its floor: `FormSafe` (`FormNeverRefusedForContent`,
  `SuccessWasApplied`, `OneAtATime`), `ReReadShowsApplied`, `AppliedIsShown`.

### Where the code and its text part

**requests_in_context** states what `swap.tsx:315-316` says, that every wallet request is
verified again in the live context, also between the two grants. TLC refutes it: a quote
arrives, Prepare wallet is pressed, the first grant is estimated, signed and mined, the
wallet is switched while its receipt is awaited, and with the receipt the second grant
is requested. The check at the press is made before any await and is right; the one after the
receipt (`swap.tsx:344`) compares two captures of one render, so it cannot fail.
The request names the account of the press, so the wallet is not asked to
sign for another; what it does with it is the wallet's.

The modules state seven more sentences of comments and documents that the code
does not keep. No run lists them; adding the name to the configuration given
shows the behaviour.

| Statement (module) | Says | Does | Seen with |
|---|---|---|---|
| `OwnBondsOnly` (`BondsScreen`) | `useBonds.ts:91`: no stale list under a new address | a receipt that arrives after the switch lists the old account's bond | `BondsScreen.cfg`, two accounts |
| `ReceiptIsFinal` (`BondsScreen`) | `useBonds.ts:146`: nothing read afterwards puts a settled bond back | a row not read yet keeps no mark of its receipt, and an earlier read is applied after it | `BondsScreen.cfg` |
| `DoubtfulQuoteWithheld` (`SwapFlow`) | `swap.tsx:148`: a quote whose refetch fails is withheld | until the retries are used up it can be submitted | `SwapFlow.cfg` |
| `StatusDescribesForm` (`SwapFlow`) | `swap.tsx:265`: a success line never describes another form | a swap that ends after an edit writes its outcome over the reset | `SwapFlow.cfg` |
| `ZeroCeilingFailsClosed` (`SwapLimits`) | `limits.ts:156`: fails closed when the configuration is unread | the caller passes "disabled", which passes; harmless, since `LimitsSafe` holds whatever was read | `Client.cfg` |
| `ReReadBeforeSuccess` (`PoolsScreen`) | `pools.tsx:414`: "applied and re-read" | success is shown while the read is still in flight | `PoolsScreen.cfg` |
| `CurrencyIsTheBonds` (`BondHistory`) | `INTEGRATION.md:277`: the currency of the bond's own event | the first event with the same recipient and leg | `Client.cfg`, as `History!CurrencyIsTheBonds` |

Every property has a mutant of the code that breaks it: a scan one bucket short,
a freeze that reads past its block, a baseline taken after the update, an identifier that
ignores the count, a refund without its reserve entry, and so on
(`PROJECT.json`). The mutated operators stand before the definitions they vary
and are marked `Mutant` in the modules.

**Fairness.** Blocks keep coming. A batch is one transaction, so it finishes.
Someone settles some bond when one can be settled: `settleBond` is open to
everyone and the recipient is paid by it. Fairness is not asked of any given
bond, of swaps, of the owner, or of `resolveEndpoints`.

In the client: every await of an attempt or a handler ends, because estimates,
receipts and fetches have timeouts and the user answers the wallet (weak
fairness). Of the proxy's handlers it is asked only that some handler that can go on does: each takes
finitely many steps. The timers of the list and of the configuration go off (weak). A
sweep, a poll or a read that is tried again and again gets through (strong,
because a cancellation or a failure disables it in between). Fairness is not asked of users, edits,
other settlers, or of the upstreams.

**Overflow.** `HorizonAssumption` keeps the explored blocks below `BLOCK_MODULUS`.
Past 2^32 the library truncates where the hook reverts; no swap and no bond
exists there, and the model does not go there.

## 4. Proofs

Every theorem is checked by TLAPS for any number of pools, tokens, recipients,
bonds and blocks, any ticks, and any horizon: a window may have any length
`w >= 1` and the horizon any length above `2w`.

**Assumptions.** `HorizonAssumption`: the two inner endpoints lie one and two
windows before maturity, the horizon is longer than both windows, and the clock
stays below `BLOCK_MODULUS`. `LateWindowAssumption`: a window has a block.
`PoolsAssumption`: ticks are integers, the zero address is nobody's.
`FinitePoolsAssumption`: the chain has created finitely many pools.
`InputsAssumption`: amounts are naturals, and a swap never executes more than
was requested. Those of a client module are named with its proof. TLC evaluates
them all on the runs of the modules that declare or extend them.

**Sums and division** (`SettlementMath_proofs`). The balance and the windows are sums
over finite sets, taken with the community modules' `SumFunctionOnSet`, whose definition
recurses over subsets. Its laws (a sum splits off any one index, adds up, is
monotone, is congruent) are proved by looking at a smallest subset for which they
fail, which the library's well-foundedness of the strict-subset order provides. Truncating division
is monotone, odd and moves by one when its numerator moves by the divisor.

**Arithmetic of a bond** (`SettlementMathMC_proofs`). All reduces to what lies beyond the
opening price: the sign and the baseline go into each block's closing tick
(`WindowAligned`), so a settlement reads only the larger of two truncated averages of
`Beyond` (`SettledReads`). An average lies within the bounds of what it averages, which gives
`ReturnIsRefunded` and `PersistenceIsCharged`; it moves by one tick when every tick
does, the charge then by at most two ticks, and the rate by at most one basis point
(`ChargeHasNoCliff`). `SettlementIsSymmetric` is that the sign is applied before the
division. Any length of the windows, any legs, rates and prices: `ValuesAssumption` says only
that they are numbers.

**Bookkeeping** (`BondMeBro_proofs`). `TypeOK` is not inductive: `settleBond`
subtracts one from a bucket's count, and the result is a natural number only
because the count is that of the bucket's unsettled bonds. That in turn needs a
new bond never to take an existing identifier, although an identifier is built
from a count that settlements lower. It does not, because nothing settles before
maturity and no bond opens into a bucket that has matured: until then the count
only rises, and each bond of the bucket was numbered below it. `Bookkeeping` adds
exactly this to `TypeOK`: exact counts (`BucketsCountBonds`), `WellFormed`
records, finitely many of them, a batch of known bonds, and an accumulator whose
last tick is the market's.

**Prices** (`BondMeBro_proofs`). `Priced` adds three facts. `History`: from the
last update on, the accumulator extends to the true sum of closing ticks.
`Exact`: every frozen reading is that sum at its block. `Covered`: a bucket with
unsettled bonds was opened no later than the last update, and every endpoint it
still misses lies after it. The last is what makes a bounded scan sufficient: the
scan starts behind the last update and ends one horizon on, and no unsettled
bucket lies outside (lemma `ScanCovers`). From it follow `ReadingsExact` and
`NoReadingLost`.

**Bonds** (`BondMeBro_proofs`). `ReadingsFinal` and `BondsNeverLost` are action
properties, from the two invariants and one step per action. Terms need two more
facts: the minimums in force are those `setPoolConfig` accepts (`Floored`), and the
baseline of a pool touched in this block is the price the block before closed at
(`Baselined`). With them `Grounded` is inductive, and `TermsAlwaysHonest` and
`BondBoundUnreachable` follow.

**Solvency** (`BondMeBro_proofs`). `Solvent` is inductive relative to `Grounded`. The sum over
the open bonds of a currency gains one term when a swap opens a bond and loses one when a bond settles; by
`BondsKept` nothing else in it changes, and the sum of the reserves changes at one pool. That one
settlement takes from the balance what it does not add to the reserve
(`SettlePaysCollateral`) is where it could go wrong: slash and refund are
recomputed from the leg, and are together what the swap took. `AlwaysSolvent`
holds between two entries of a batch as well.

**Refinement** (`BondMeBro_proofs`). `BondLedger` knows the price history and the
terms of each bond. The mapping gives it `index` for the history and the records
for the terms. A block, a swap, the opening of a bond and its settlement map to
its actions, everything else to a stutter; that a settlement pays what the
ledger pays is `Exact` and `SettlementFrom` read at the same three blocks.

**Limits of a swap** (`Client_proofs`). Two facts on truncating division carry
it: a bond with its leg under the maximum is under the maximum's own ceiling
(`BondWithinCeiling`), and a tolerance of at least the cap leaves room for any rate
(`TotalWithinMaximum`, `NetWithinMinimum`). The invariant `Inv` ties the limits signed to
the quote and the configuration read, and the execution to the limits; the
parts of `LimitsSafe` follow, and with the types `LimitsAreSafe`, for every cap up to `BPS`, every width,
configuration and amount. `TypesKept` is by the same division facts: no bound is negative
or left undefined. `EstimateIsTheHooksRate` relates the client's estimate to the
contract's curve. Assumptions: `HookConstants`, `WidthAssumption` and the types of the amounts
(`TypesAssumption`, `LegsAssumption`, `RatesAssumption`). `ClientLimitsAreSafe` carries `LimitsSafe` over to
`ClientSpec`, where the limits are one part of six.

**Parts of the client** (`Client_proofs`). A step of `ClientSpec` is, for each part, a step
of that part or none (`PartsMove`), so each invariant below is a matter of its own part.

* *Router plan.* `PlanSafe` speaks of the end of a plan; `PlanInv` says of every
  stage how its books stand, and the stages are told apart by what is left of the plan
  (`ToSwap`, `ToSettle`, `ToTake`, `Settled`). Before the debt is settled the wallet must still cover
  it: the swap leaves at most `MostPaid` owed, which is what the spend requirement granted. So an insufficient
  allowance or an open delta never ends a plan. `PlanAssumption`: quotes and
  spare allowances are naturals.
* *Token metadata.* `TokensInv`: what the cache or any load knows is genuine; a load knows no
  more than the cache; one load at most is live; and once the tokens were shown, the live load
  knows both from its start. The last is why no refresh loses them: a new load starts from the
  cache, so it has nothing left that can fail. Any number of tokens and loads.
  `DecimalsAssumption`: the largest usable number of decimals is a natural.
* *Deployment.* `Ready` is unfolded into what every field must read (`ReadyIs`), and compared with what
  PoolManager and BaseHook let exist (`PoolCanExist`) and the client is made for (`Supported`). Pools of the native
  currency and of a dynamic fee can exist with this hook (`_afterInitialize` refuses
  neither), and the client opens on none of them (`deployment.ts:85`, `:133`): that too is
  part of what is proved. `ProblemsAreReal` compares a step's two ends: a problem of whose
  fields none changed is still one (`ProblemCases`). `DeploymentAssumption`: bounds
  are naturals, the dynamic-fee flag is above the largest static fee, and what may be typed into an address is no negative number; `ProperAssumption`: the deployment
  edited has readable values.
* *Activity feed.* The first `MAX_ACTIVITY_ITEMS` of an order are the newest of its
  set (`CutOrder`), and merging keeps them so although the feed had dropped older
  entries before (`MergeKeepsNewest`): whatever was dropped is older than a full feed, which the merged
  feed is then too. `FeedInv` says that each open tab holds the newest of what it knows and, unless two tabs were
  open at once, of what was saved. `ItemsAssumption`: block and log index are naturals.
* *Receipts and history.* `HistoryInv` says of each log which bond it is of: a `BondTaken`
  stands right before the `BondOpened` of its bond (`TakenThenOpened`). The
  client finds the `BondTaken` of a bond by recipient and leg, and that it is that bond's own needs an argument:
  an earlier match would be followed by an earlier `BondOpened` of the same
  recipient, and the receipt would have named that one (`OutcomesAreOwn`). Rows find theirs among
  all logs of the account, where this fails when two legs are equal: `CurrencyUnlessLegsMeet` is all that is true
  there (`CurrencyOwn`). Any accounts, pools, legs and numbers of transactions. `BoundsAssumption`: the bounds are naturals.

**Swap screen** (`SwapFlow_proofs`). Three properties over one invariant. `Sound` says of
each attempt what its phase implies: nothing is sent before the wallet signs, its
bounds are those of its own request and recipient. `Displayed` says of the attempt on
screen that it is over and ended so. `BusyWith` is why a second press does nothing: until something
is edited, whatever is under way is what the screen shows, and the screen is
busy. For `PreparationSuffices` the grants already given have to be followed from
phase to phase (`Prepared`), and what the screen knew of them before the first press has to
be true (`KnownIsTrue`): a preparation skips a grant it believes to be there.
`BoundsAssumption` says that the bounds and the session's multiple are naturals,
the latter not zero; any forms, accounts and presses.

**Bond list and settle screen** (`BondsScreen_proofs`). `NeverAhead` is nearly inductive, because
the chain only moves on and a merge takes each value from one of its sides
(`MergeKeeps`). It needs that nothing is held or in flight without an account,
which also makes `NoRegression` true of `addDiscoveredBond`: that one empties the list
instead of merging when no wallet is connected. The two modules are proved
together since neither invariant stands alone: a receipt marks a row settled, and
that is true of the hook because the attempt's transaction had succeeded, which
only the screen's invariant says; and an attempt may claim success on the strength of
what the list read back. `IndexKeeps` is about a sequence cut at `MAX_INDEX`: the sweep
puts new bonds in front and the stored ones after, so what was stored
is lost only past the cut. It is proved for every admissible order of the
answers (`MergedIndexes`: newest log first, ties open). Any number of bonds, accounts, sweeps,
polls and attempts. `BondsAssumption`: the hook has finitely many bonds, and one;
`IndexAssumption`: the cut is a natural; `NoAccountAssumption`, `HorizonAssumption`.

**Configuration form** (`PoolsScreen_proofs`). A press carries one draft that the
form let through (`Pressed`), which the hook's setter then accepts
(`FormImpliesHook`) because getter, setter and form orders agree (`SetterOrder`,
`GetterOrder`). `Alone` is the reason for one transaction at a time: a press in flight
whose form is still on screen keeps that form in `sending`, and a form that comes
back is another instance. `TypesKept` adds that no read, fetch or press names a configuration the
hook never stored, and `FormIsSafe` puts the parts together. `BoundAssumption`: the
bound on other sessions is a natural. `DraftsAssumption`: numbers typed are naturals (the
parser yields no others). `ReReadIsFresh` is proved over a second invariant (`Fresh`): from
the success on, every fetch in flight began no earlier than what was applied, because
the re-read cancelled the older one, and once none is in flight the read shown is that
new.

**Proxy** (`RpcProxy_proofs`). The invariant says of every handler what its phase implies (`Sound`).
While it forwards, the cursor separates the positions that have been sent once from those never sent
(`Shared`), and the workers hold different positions behind it, so that
a position behind the cursor that no worker holds has its answer (`Answered`). Once the
cursor is past the end and no worker holds anything, every entry has been sent and answered.
That the answer taken for an entry is its own is a fact on positions (`NthPosition`): the k-th forwarded entry
is the one with k forwarded entries up to it. It is proved by counting, with
the library's facts on injections between finite sets of one size, since
the code's running index is not recursive in the model. For the rate table, `Table` keeps one bucket per client
within the bound, and `Backed` is why a refusal is just: what a bucket counts are arrivals since it was started,
so evicting or restarting one only forgets some. Any upstreams, bodies, batch sizes, workers and bounds.
`LimitsAssumption`: the limits are naturals, the table holds a bucket and a verification
lives for some time; with `UpstreamsAssumption` and `BodiesAssumption` (a sequence of endpoints, and bodies
of the normalizer's kinds of entry) nothing more is needed: safety holds even without a worker.

**What stays with TLC.** Liveness: `EveryBondSettles`, `ListCatchesUp`, `BusyEnds`,
`EveryRequestAnswered` and `AppliedIsShown` hold under fairness, which is out of the
prover's reach. `EveryRequestInContext`, of the run that expects a violation, is refuted
by a trace. Every invariant and every action property of the passing runs is
stated by a theorem.

## 5. Not modelled

Views and events of the contract change no state. `observe` and
`twaTick` of the accumulator library have no caller in the contract. Gas and
the width of amounts and cumulatives are left out: at the largest tick, 2^32
blocks stay far inside `int56`, and amounts are bounded by PoolManager's own
`int128` deltas.

Of the client, presentation (`misc.tsx`, `ui.tsx`, `providers.tsx`, pages, `format.ts`,
the wording of `errors.ts`) and the generated ABI have no behaviour worth a
model; helpers that no screen calls (`bondEligibility`, `decodeHookData`,
`maturityProgress`) are left out. Deployment scripts run once; the live demo is
a sequence of calls that the runs of `BondMeBro` include in every order.

Abstractions of the modules, and why they lose nothing the properties need:

* `BondStore`: a sweep's logs are those of the block its first answer named, which
  is what its chunks cover; a bond's row is not re-sorted while a poll runs; a
  change of network is a change of account, which resets the same state. A load
  cut off by a disconnect leaves the spinner on; nothing but the spinner reads that.
* `BondsScreen`: a lost receipt leaves "submitted" on screen until the user leaves,
  which `ScreenHonest` allows and no liveness is claimed of.
* `SwapFlow`: all forms spend one token, so one grant serves every form; balances and
  the wording of the button are left out. A lost receipt shows an error although
  the transaction may succeed; `SwapShownHonest` is about what is shown of outcomes known.
* `SwapLimits` has no pool price; the leg and the rate executed are chosen freely,
  within what the hook computes. `RouterPlan` folds the hook's thresholds into a
  rate of zero.
* `RpcProxy`: answers given when no chain or endpoint is configured are constant and
  left out, as is parsing of bodies; a body is a sequence of kinds of entry.
* `PoolsScreen`: the hook's owner is fixed, as in the contract; the wallet's chain is
  checked with its account and not modelled apart. Gas estimated over storage that another session
  then changes may not suffice (`Mine`).
* `TokenMetadata`: nothing retries a failed load until the page asks again, so no
  liveness is stated.
* `Deployment`: pool identifiers do not collide; an address is a number whose
  remainder stands for its permission bits.

## 6. What is left

1. A swap that spends a different token per direction in `SwapFlow`, with balances.
2. The demo's scripted sequence as a behaviour of `BondMeBro`, step by step.
