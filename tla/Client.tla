--------------------------------- MODULE Client ---------------------------------
(***************************************************************************)
(* The parts of the client that share no state, side by side.  Every       *)
(* behaviour moves one part, chosen at its start, so that the states are   *)
(* those of each part in turn.  The limits of a swap are extended, the     *)
(* others instantiated.                                                    *)
(***************************************************************************)
EXTENDS SwapLimits, Sequences, FiniteSets

CONSTANTS
    Quotes, Spare,                              \* the router plan
    PoolTokens, Reported, MAX_DECIMALS, Loads,  \* token metadata
    Proper, Edits, MAX_EDITS, MASK_BITS, REQUIRED_HOOK_PERMISSION_MASK,
    MAX_FEE, DYNAMIC_FEE_FLAG, MAX_TICK_SPACING, \* the deployment's configuration
    Tabs, Items, MAX_ACTIVITY_ITEMS,            \* the activity feed
    Accounts, Pools, BondLegs, Collaterals,     \* receipts and history
    MAX_BONDS, MAX_TRANSACTIONS, MAX_SETTLEMENTS

VARIABLES
    part,                                       \* the part that moves
    request, wallet, actions, delta, spent, received, status,
    decimals, cache, loads, tokens,
    raw, declared, edits,
    storage, tabs, recorded, known, saved, overlapped,
    bonds, transactions, logs

planVars == <<request, wallet, actions, delta, spent, received, status>>
tokenVars == <<decimals, cache, loads, tokens>>
deploymentVars == <<raw, declared, edits>>
feedVars == <<storage, tabs, recorded, known, saved, overlapped>>
historyVars == <<bonds, transactions, logs>>
clientVars == <<part, vars, planVars, tokenVars, deploymentVars, feedVars, historyVars>>

Plan == INSTANCE RouterPlan WITH Amounts <- Inputs
Tokens == INSTANCE TokenMetadata WITH Tokens <- PoolTokens
Deployment == INSTANCE Deployment
Feed == INSTANCE ActivityFeed
History == INSTANCE BondHistory WITH Legs <- BondLegs, Amounts <- Collaterals

-----------------------------------------------------------------------------
(* Amounts are naturals, and are typed with the token's decimals. *)
ASSUME PlanAssumption == Quotes \subseteq Nat /\ Spare \subseteq Nat
ASSUME DecimalsAssumption == MAX_DECIMALS \in Nat

(* An address typed is a number or no address at all; the operator starts  *)
(* from a deployment in which every variable can be read.                  *)
ASSUME DeploymentAssumption ==
    /\ MAX_EDITS \in Nat /\ MAX_FEE \in Nat /\ MAX_TICK_SPACING \in Nat
    /\ DYNAMIC_FEE_FLAG \in Nat /\ DYNAMIC_FEE_FLAG > MAX_FEE
    /\ MASK_BITS \in Nat \ {0} /\ REQUIRED_HOOK_PERMISSION_MASK \in Nat
    /\ DOMAIN Edits \subseteq Deployment!Fields
    /\ \A f \in DOMAIN Edits : Edits[f] \subseteq Deployment!TextsOf(f)
    /\ Proper \in [Deployment!Fields -> Int]
    /\ \A f \in Deployment!Fields : Proper[f] \in Deployment!TextsOf(f)
ASSUME ProperAssumption ==
    /\ \A f \in Deployment!Addresses : Proper[f] > 0
    /\ Proper.chainId >= 1 /\ Proper.deploymentBlock >= 0
    /\ Proper.networkName >= 0 /\ Proper.explorerUrl >= 0

ASSUME ItemsAssumption ==
    /\ MAX_ACTIVITY_ITEMS \in Nat
    /\ \A item \in Items : item.block \in Nat /\ item.logIndex \in Nat
ASSUME BoundsAssumption == MAX_BONDS \in Nat /\ MAX_TRANSACTIONS \in Nat /\ MAX_SETTLEMENTS \in Nat

-----------------------------------------------------------------------------
Parts == {"limits", "plan", "tokens", "deployment", "feed", "history"}

(* A part that does not move rests in one of its initial states. *)
Rests(p, x, InitialValues) == part # p => x = CHOOSE v \in InitialValues : TRUE

ClientInit ==
    /\ part \in Parts
    /\ Init /\ Rests("limits", trade, Trade)
    /\ Plan!Init /\ Rests("plan", request, Plan!Requests)
    /\ Tokens!Init /\ Rests("tokens", decimals, [PoolTokens -> Reported])
    /\ Deployment!Init /\ Rests("deployment", declared, {{}})
    /\ Feed!Init
    /\ History!Init

ClientNext ==
    /\ UNCHANGED part
    /\ \/ /\ part = "limits" /\ Next
          /\ UNCHANGED <<planVars, tokenVars, deploymentVars, feedVars, historyVars>>
       \/ /\ part = "plan" /\ Plan!Next
          /\ UNCHANGED <<vars, tokenVars, deploymentVars, feedVars, historyVars>>
       \/ /\ part = "tokens" /\ Tokens!Next
          /\ UNCHANGED <<vars, planVars, deploymentVars, feedVars, historyVars>>
       \/ /\ part = "deployment" /\ Deployment!Next
          /\ UNCHANGED <<vars, planVars, tokenVars, feedVars, historyVars>>
       \/ /\ part = "feed" /\ Feed!Next
          /\ UNCHANGED <<vars, planVars, tokenVars, deploymentVars, historyVars>>
       \/ /\ part = "history" /\ History!Next
          /\ UNCHANGED <<vars, planVars, tokenVars, deploymentVars, feedVars>>

ClientSpec == ClientInit /\ [][ClientNext]_clientVars

-----------------------------------------------------------------------------
(* Of the part that moves: the others are in an initial state. *)
In(p, property) == part = p => property

(* A plan fails only for a limit the trader signed, and what it executed   *)
(* is within what the form showed (swapPlan.ts).                           *)
PlanSafe == In("plan", Plan!PlanSafe)

(* No amount is parsed or shown with decimals that are not the token's     *)
(* own, and once both tokens were shown no refresh loses them              *)
(* (tokenMetadata.ts, useProtocol.ts).                                     *)
MetadataSound ==
    [][In("tokens", Tokens!TypeOK' /\ Tokens!FailsClosed' /\ Tokens!StaysReady)]_tokenVars

(* The client opens on a pool that can exist, on every such pool of two    *)
(* tokens and a static fee and on no other, and each message about a       *)
(* configuration names a field that is wrong (deployment.ts                *)
(* resolveDeployment, guards.ts tradingReadiness).                         *)
DeploymentSound ==
    [][In("deployment", Deployment!ReadySound' /\ Deployment!ProblemsAreReal)]_deploymentVars

(* A tab's feed is the newest of all it has read and recorded, and while   *)
(* one tab at a time is open nothing saved is lost but by newer entries    *)
(* (activity.ts mergeActivity, dashboard.tsx).                             *)
FeedSafe == Feed!FeedSafe

(* What is told of a swap, a row or a settlement is about the recipient's  *)
(* own bond (bond.ts interpretSwapReceipt, useBonds.ts load).              *)
HistorySafe == In("history", History!HistorySafe)
=============================================================================
