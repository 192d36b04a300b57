------------------------------- MODULE BondHistory -------------------------------
(***************************************************************************)
(* What the client makes of the hook's events (bond.ts, and the last part  *)
(* of load in useBonds.ts): the outcome of a swap from its receipt, and    *)
(* the rows of an account from the logs of the whole window.  The chain is *)
(* a history of transactions, each with the logs its swaps and settlements *)
(* emitted; the interleavings of sweeps with it are BondStore's, here a    *)
(* sweep reads the history as it stands.                                   *)
(***************************************************************************)
EXTENDS Naturals, Sequences, FiniteSets, Functions

CONSTANTS
    Accounts,
    Legs,           \* variable-leg amounts, in raw units
    Amounts,        \* collateral amounts
    Pools,          \* "configured", "sibling" of the same hook, or "elsewhere"
    MAX_BONDS,      \* bound
    MAX_TRANSACTIONS, \* bound
    MAX_SETTLEMENTS \* bound: bonds settled

(* "elsewhere" is a pool of an older deployment of the hook. *)
HookOf(pool) == IF pool = "elsewhere" THEN "olderHook" ELSE "hook"
Currencies == {"currency0", "currency1"}

VARIABLES
    bonds,          \* the bonds of every pool; an identifier is an index
    transactions,   \* how many transactions have begun; the last may go on
    logs            \* the logs of all of them, oldest first

vars == <<bonds, transactions, logs>>

Log(event, id, bond, tx) ==
    [address |-> HookOf(bond.pool), event |-> event, bondId |-> id, pool |-> bond.pool,
     recipient |-> bond.recipient, currency |-> bond.currency, leg |-> bond.leg,
     amount |-> bond.amount, tx |-> tx]

Init == bonds = <<>> /\ transactions = 0 /\ logs = <<>>

-----------------------------------------------------------------------------
NoId == 0

(* A bonded swap emits BondTaken, which names no identifier, and then      *)
(* BondOpened, which names no amount.  An unbonded one emits neither.      *)
SwapLogs(id, bond, tx) == <<Log("BondTaken", NoId, bond, tx), Log("BondOpened", id, bond, tx)>>

Swaps == [pool : Pools, recipient : Accounts, leg : Legs, currency : Currencies,
          amount : Amounts, settled : {FALSE}]

(* A transaction may carry several swaps, of several recipients, and       *)
(* several settlements; none of its swaps need be bonded.                  *)
BeginTransaction ==
    /\ transactions < MAX_TRANSACTIONS
    /\ transactions' = transactions + 1
    /\ UNCHANGED <<bonds, logs>>

Swap(bond) ==
    /\ transactions # 0 /\ Len(bonds) < MAX_BONDS
    /\ bonds' = Append(bonds, bond)
    /\ logs' = logs \o SwapLogs(Len(bonds) + 1, bond, transactions)
    /\ UNCHANGED transactions

(* settleBond, or one entry of settleMany: anyone, in any order. *)
Settle(id) ==
    /\ transactions # 0
    /\ Cardinality({b \in DOMAIN bonds : bonds[b].settled}) < MAX_SETTLEMENTS
    /\ ~ bonds[id].settled
    /\ bonds' = [bonds EXCEPT ![id].settled = TRUE]
    /\ logs' = Append(logs, Log("BondSettled", id, bonds[id], transactions))
    /\ UNCHANGED transactions

Next ==
    \/ BeginTransaction
    \/ \E bond \in Swaps : Swap(bond)
    \/ \E id \in DOMAIN bonds : Settle(id)

Spec == Init /\ [][Next]_vars

-----------------------------------------------------------------------------
(* What is read is a set of places in the logs: those of a receipt, or of  *)
(* the whole window.                                                       *)
Receipt(tx) == {i \in DOMAIN logs : logs[i].tx = tx}
Window == DOMAIN logs

(* Array.find: the first, if any. *)
First(places) == {i \in places : \A j \in places : i <= j}

(* decodeHookLog and collectBondEvents: the configured hook's events of    *)
(* the configured pool, in the order of the logs.                          *)
DecodeHookLog(log) == log.address = "hook"

(* Mutant: the pool of an event is not looked at. *)
EventsOfHook(places, event) ==
    {i \in places : DecodeHookLog(logs[i]) /\ logs[i].event = event}

Events(places, event) ==
    {i \in places : /\ DecodeHookLog(logs[i])
                    /\ logs[i].event = event /\ logs[i].pool = "configured"}

CollectBondEvents(places) ==
    [opened  |-> Events(places, "BondOpened"),
     taken   |-> Events(places, "BondTaken"),
     settled |-> Events(places, "BondSettled")]

(* interpretSwapReceipt; recipients is the refund recipient, or everyone   *)
(* when none is supplied.                                                  *)
InterpretSwapReceipt(places, recipients) ==
    LET events == CollectBondEvents(places)
        mine   == {i \in events.opened : logs[i].recipient \in recipients}
        chosen == First(mine)
    IN  [kind   |-> IF mine = {} THEN "unbonded" ELSE "bonded",
         opened |-> chosen,
         taken  |-> First({i \in events.taken : \E c \in chosen :
                                /\ logs[i].recipient = logs[c].recipient
                                /\ logs[i].leg = logs[c].leg})]

-----------------------------------------------------------------------------
(* load, for one account: the bonds of its BondOpened logs, each with its  *)
(* settlement, and the currency its collateral is shown in -- the          *)
(* record's, and then that of the first BondTaken of this account that has *)
(* the same variable leg.                                                  *)
History == CollectBondEvents(Window)

MineFromLogs(account) == {i \in History.opened : logs[i].recipient = account}

RowIds(account) == {logs[i].bondId : i \in MineFromLogs(account)}

TakenEvent(account, id) ==
    First({i \in History.taken : logs[i].recipient = account /\ logs[i].leg = bonds[id].leg})

CollateralCurrency(account, id) ==
    IF TakenEvent(account, id) = {} THEN bonds[id].currency
    ELSE logs[CHOOSE i \in TakenEvent(account, id) : TRUE].currency

SettlementOf(id) == First({i \in History.settled : logs[i].bondId = id})

-----------------------------------------------------------------------------
TypeOK ==
    /\ bonds \in Seq([pool : Pools, recipient : Accounts, leg : Legs, currency : Currencies,
                      amount : Amounts, settled : BOOLEAN])
    /\ Len(bonds) <= MAX_BONDS
    /\ transactions \in 0..MAX_TRANSACTIONS
    /\ \A i \in DOMAIN logs : /\ logs[i].bondId \in 0..Len(bonds)
                              /\ logs[i].bondId = NoId <=> logs[i].event = "BondTaken"
                              /\ logs[i].tx \in 1..transactions

(* A receipt is unbonded exactly when it opened no bond of the configured  *)
(* pool for the recipient.  Otherwise the bond it names is one it opened   *)
(* for them, and the collateral and the currency it gives are that very    *)
(* bond's -- though BondTaken carries no identifier, and other swaps of    *)
(* the transaction may have the same recipient and the same amount         *)
(* (bond.ts: bond identifiers are "never guessed").                        *)
OutcomeIsOwn ==
    \A tx \in 1..transactions : \A recipients \in {{a} : a \in Accounts} \union {Accounts} :
        LET outcome == InterpretSwapReceipt(Receipt(tx), recipients)
            own == {i \in Receipt(tx) : /\ logs[i].event = "BondOpened"
                                        /\ logs[i].pool = "configured"
                                        /\ logs[i].recipient \in recipients}
        IN
        /\ outcome.kind = "unbonded" <=> own = {}
        /\ outcome.kind = "bonded" =>
              \E e \in outcome.opened, t \in outcome.taken :
                  /\ e \in own
                  /\ logs[t].amount = bonds[logs[e].bondId].amount
                  /\ logs[t].currency = bonds[logs[e].bondId].currency

(* The rows of an account are its bonds of the configured pool, and a row  *)
(* shows a settlement exactly when its own bond was settled, with its own  *)
(* amounts, whatever was settled in the same batch.                        *)
RowsAreOwn ==
    \A a \in Accounts :
        /\ RowIds(a) = {id \in DOMAIN bonds : bonds[id].recipient = a /\ bonds[id].pool = "configured"}
        /\ \A id \in RowIds(a) :
              /\ bonds[id].settled <=> SettlementOf(id) # {}
              /\ \A i \in SettlementOf(id) : logs[i].bondId = id /\ logs[i].amount = bonds[id].amount

(* A row's collateral is shown in its own currency as long as no other     *)
(* bond of the account has the same variable leg.                          *)
CurrencyUnlessLegsMeet ==
    \A a \in Accounts : \A id \in RowIds(a) :
        (\A other \in RowIds(a) : bonds[other].leg = bonds[id].leg => other = id)
        => CollateralCurrency(a, id) = bonds[id].currency

(* Receipts and logs are read for the recipient, the pool and the bond     *)
(* they are about (bond.ts, useBonds.ts).                                  *)
HistorySafe == TypeOK /\ OutcomeIsOwn /\ RowsAreOwn /\ CurrencyUnlessLegsMeet

(* INTEGRATION.md, section 8: the collateral currency of a bond is         *)
(* "BondTaken.currency, or getBond(...).collateralIsCurrency0" -- its own. *)
CurrencyIsTheBonds ==
    \A a \in Accounts : \A id \in RowIds(a) : CollateralCurrency(a, id) = bonds[id].currency
=============================================================================
