------------------------------- MODULE BondStore -------------------------------
(***************************************************************************)
(* The bond list of the web client (useBonds.ts over bondStore.ts): what    *)
(* one browser knows of the bonds of the connected account.                *)
(*                                                                         *)
(* The hook is the authority.  The client learns from four sources that    *)
(* race: the receipt of a swap it sent, the receipt of a settlement it     *)
(* sent, a sweep of the logs followed by one read per bond (a load), and a *)
(* read of every row on screen (a poll).  A load or a poll is a request    *)
(* whose answers are taken at one time and applied at a later one; between *)
(* the two the account may change, receipts may arrive, and other loads    *)
(* and polls may be applied.  Bonds survive a reload of the page through   *)
(* an index kept in localStorage.                                          *)
(***************************************************************************)
EXTENDS Naturals, Sequences, SequencesExt, FiniteSets

CONSTANTS
    Bonds,          \* identifiers of the bonds that may be opened
    Accounts,       \* refund recipients; the browser connects one at a time
    NoAccount,      \* the wallet is not connected
    MATURITY,       \* blocks between the opening of a bond and its maturity
    SPAN,           \* MAX_LOG_CHUNK * MAX_CHUNKS, the blocks a sweep looks back
    MAX_INDEX,      \* entries the stored index keeps (200)
    HISTORY_FAILURES_BEFORE_WARNING,    \* failed sweeps before the screen says so (3)
    MAX_BLOCK,      \* bound: the last block of the instance
    MAX_REFRESHES,  \* bound: times the user presses Refresh
    Loads,          \* bound: loads in flight, cancelled ones included
    Polls           \* bound: polls in flight

ASSUME BondsAssumption == IsFiniteSet(Bonds) /\ Bonds # {}
ASSUME NoAccountAssumption == NoAccount \notin Accounts
ASSUME HorizonAssumption == MATURITY \in Nat /\ SPAN \in Nat
ASSUME IndexAssumption == MAX_INDEX \in Nat

VARIABLES
    block,          \* the chain's head
    chain,          \* each bond as the hook stores it
    account,        \* the connected account
    records,        \* the rows held in memory
    index,          \* the bonds remembered in localStorage, newest first
    awaited,        \* bonds of swaps this page sent, receipt not yet seen
    due,            \* a load has been asked for and has not begun
    loads,          \* loads in flight
    polls,          \* polls in flight
    historyFailures,\* failed sweeps since the last good one
    refreshes       \* times the user pressed Refresh (bounds the instance)

chainVars == <<block, chain>>
storeVars == <<account, records, index, awaited, due, loads, polls, historyFailures, refreshes>>
vars == <<chainVars, storeVars>>

(***************************************************************************)
(* BondState.  A provisional bond exists only inside its swap, and getBond *)
(* refuses it, so no read ever returns one.                                *)
(***************************************************************************)
Absent    == 0
Finalized == 2
Settled   == 3

(* BondSource, ranked.  A row whose source is None is not held at all. *)
None         == 0
LogScan      == 2
ReceiptEvent == 3
Storage      == 4
Receipt      == 5

(* A row: the state last accepted (Absent while the bond was never read),  *)
(* what produced it, whether the settlement's amounts are known.           *)
BondRecord == [source : 0..5, state : {Absent, Finalized, Settled},
               settlement : BOOLEAN, readError : BOOLEAN]

Seen(source, state, settlement, readError) ==
    [source |-> source, state |-> state, settlement |-> settlement, readError |-> readError]

NoRecord == Seen(None, Absent, FALSE, FALSE)
NoRecords == [b \in Bonds |-> NoRecord]
Held(rows) == {b \in Bonds : rows[b].source # None}

historyStatus == CASE historyFailures = 0 -> "ok"
                   [] historyFailures \in 1..(HISTORY_FAILURES_BEFORE_WARNING - 1) -> "syncing"
                   [] OTHER -> "unavailable"

-----------------------------------------------------------------------------
(* Mutant: the last observation wins, as a plain upsert would have it. *)
NewerAlways(held, seen) == seen.state # Absent

(* mergeBondRecord: an observation is taken when it moves the lifecycle    *)
(* forward, or confirms it from a source at least as good.  Enrichments    *)
(* are only ever added.                                                    *)
Newer(held, seen) ==
    /\ seen.state # Absent
    /\ \/ seen.state > held.state
       \/ seen.state = held.state /\ seen.source >= held.source

MergeBondRecord(held, seen) ==
    LET state == IF Newer(held, seen) THEN seen.state ELSE held.state IN
    IF held.source = None THEN seen ELSE
    Seen(IF Newer(held, seen) THEN seen.source ELSE held.source,
         state,
         held.settlement \/ seen.settlement,
         state = Absent /\ (held.readError \/ seen.readError))

(* mergeBondRecords: a union, never a replacement. *)
MergeBondRecords(rows, seen) ==
    [b \in Bonds |-> IF seen[b].source = None THEN rows[b] ELSE MergeBondRecord(rows[b], seen[b])]

Only(b, record) == [NoRecords EXCEPT ![b] = record]

CanOfferSettlement(b, currentBlock) ==
    /\ records[b].state = Finalized
    /\ currentBlock >= chain[b].openBlock + MATURITY

SettledFromReceipt(previous, settlement) ==
    Seen(Receipt, IF previous.state = Absent THEN Absent ELSE Settled, settlement, FALSE)

(* writeStoredIndex keeps the newest entries. *)
Stored(entries) == SubSeq(entries, 1, IF Len(entries) < MAX_INDEX THEN Len(entries) ELSE MAX_INDEX)

-----------------------------------------------------------------------------
(* Requests in flight.  A load carries the account of the effect that      *)
(* began it, and is live until that effect is cleaned up.                  *)
NoLoad == [phase |-> "idle", live |-> FALSE, account |-> NoAccount,
           opened |-> {}, settled |-> {}, todo |-> {}, found |-> NoRecords]

NoPoll == [busy |-> FALSE, ids |-> {}, got |-> NoRecords]
NoPolls == [p \in Polls |-> NoPoll]

(* A cancelled load goes on to the end of its sweep, where it still writes *)
(* the index; past that point nothing it does is kept.                     *)
Cancelled(load) == IF load.phase = "scanning" THEN [load EXCEPT !.live = FALSE] ELSE NoLoad
CancelLoads == [l \in Loads |-> Cancelled(loads[l])]

(* setRecords.  A poll belongs to the list of identifiers it was started   *)
(* for: when that list changes, its answers are dropped.                   *)
Show(rows, running) ==
    /\ records' = rows
    /\ polls' = IF Held(rows) = Held(records) THEN running ELSE NoPolls

(* A new nonce: loads in flight are cancelled and another is asked for.    *)
(* Without an account the effect empties the list instead.                 *)
ShowAndReload(rows) ==
    /\ Show(IF account = NoAccount THEN NoRecords ELSE rows, polls)
    /\ loads' = CancelLoads
    /\ due' = (account # NoAccount)

Init ==
    /\ block = 0
    /\ chain = [b \in Bonds |-> [state |-> Absent, owner |-> NoAccount, openBlock |-> 0]]
    /\ account = NoAccount
    /\ records = NoRecords
    /\ index = <<>>
    /\ awaited = {}
    /\ due = FALSE
    /\ loads = [l \in Loads |-> NoLoad]
    /\ polls = NoPolls
    /\ historyFailures = 0
    /\ refreshes = 0

-----------------------------------------------------------------------------
(* The chain. *)
NextBlock ==
    /\ block < MAX_BLOCK
    /\ block' = block + 1
    /\ UNCHANGED <<chain, storeVars>>

(* A swap opens a bond for its refund recipient: one this page sent, whose *)
(* receipt it awaits, or one of another browser.                           *)
OpenBond(b, a, ours) ==
    /\ chain[b].state = Absent
    /\ ours => account = a
    /\ chain' = [chain EXCEPT ![b] = [state |-> Finalized, owner |-> a, openBlock |-> block]]
    /\ awaited' = IF ours THEN awaited \union {b} ELSE awaited
    /\ UNCHANGED <<block, account, records, index, due, loads, polls, historyFailures, refreshes>>

Mature(b) == chain[b].state = Finalized /\ block >= chain[b].openBlock + MATURITY
SettleOnChain(b) == chain' = [chain EXCEPT ![b].state = Settled]

(* Settlement is permissionless. *)
StrangerSettles(b) ==
    /\ Mature(b)
    /\ SettleOnChain(b)
    /\ UNCHANGED <<block, storeVars>>

-----------------------------------------------------------------------------
(* The wallet and the page. *)
SwitchAccount(a) ==
    /\ a # account
    /\ account' = a
    /\ records' = NoRecords
    /\ historyFailures' = 0
    /\ loads' = CancelLoads
    /\ polls' = NoPolls
    /\ due' = (a # NoAccount)
    /\ UNCHANGED <<index, awaited, refreshes>>

(* The page is reloaded: memory is lost, the stored index is not, and the  *)
(* wallet reconnects afterwards.                                           *)
ReloadPage ==
    /\ account # NoAccount
    /\ account' = NoAccount
    /\ records' = NoRecords
    /\ awaited' = {}
    /\ due' = FALSE
    /\ loads' = [l \in Loads |-> NoLoad]
    /\ polls' = NoPolls
    /\ historyFailures' = 0
    /\ UNCHANGED <<index, refreshes>>

(* addDiscoveredBond, called with the receipt of a swap this page sent. *)
AddDiscoveredBond(b) ==
    /\ b \in awaited
    /\ awaited' = awaited \ {b}
    /\ index' = IF b \in Range(index) THEN index ELSE Stored(<<b>> \o index)
    /\ ShowAndReload(MergeBondRecords(records, Only(b, Seen(ReceiptEvent, Absent, FALSE, FALSE))))
    /\ UNCHANGED <<account, historyFailures, refreshes>>

(* markSettledFromReceipt. *)
MarkSettledFromReceipt(b, settlement) ==
    ShowAndReload(MergeBondRecords(records, Only(b, SettledFromReceipt(records[b], settlement))))

(* refresh, from the button or after a flow that ended. *)
Refresh ==
    /\ account # NoAccount
    /\ refreshes < MAX_REFRESHES
    /\ refreshes' = refreshes + 1
    /\ ShowAndReload(records)
    /\ UNCHANGED <<account, index, awaited, historyFailures>>

-----------------------------------------------------------------------------
(* load: the 30 second timer asks for one more, whatever is in flight. *)
LoadTimer ==
    /\ account # NoAccount
    /\ ~ due
    /\ due' = TRUE
    /\ UNCHANGED <<account, records, index, awaited, loads, polls, historyFailures, refreshes>>

(* Mutant: the window begins one block late. *)
ScanFromLate == IF block > SPAN THEN block - SPAN + 1 ELSE 0

(* The block number answers; the logs fetched chunk by chunk after it are  *)
(* those of the window that ends at that block.                            *)
ScanFrom == IF block > SPAN THEN block - SPAN ELSE 0

StartLoad(l) ==
    /\ due
    /\ loads[l].phase = "idle"
    /\ due' = FALSE
    /\ loads' = [loads EXCEPT ![l] = [NoLoad EXCEPT
                    !.phase = "scanning", !.live = TRUE, !.account = account,
                    !.opened = {b \in Bonds : chain[b].state # Absent
                                              /\ chain[b].openBlock \in ScanFrom..block},
                    !.settled = {b \in Bonds : chain[b].state = Settled}]]
    /\ UNCHANGED <<account, records, index, awaited, polls, historyFailures, refreshes>>

(* The log order of the bonds a sweep found, the last one first.           *)
NewestFirst(found) ==
    {order \in SetToSeqs(found) :
        \A i, j \in DOMAIN order : i < j => chain[order[i]].openBlock >= chain[order[j]].openBlock}

(* Mutant: the index as it was when the sweep began; what was added since  *)
(* is overwritten.                                                         *)
MergedIndexesStale(load, entries) ==
    NewestFirst({b \in load.opened : chain[b].owner = load.account})

(* The sweep is over: the index is read again, whatever the awaits let     *)
(* through is kept behind the bonds new to it, and the account's bonds in  *)
(* it are the candidates.                                                  *)
MergedIndexes(load, entries) ==
    LET mine == {b \in load.opened : chain[b].owner = load.account} IN
    {fresh \o entries : fresh \in NewestFirst(mine \ Range(entries))}

EndScan(l) ==
    LET load == loads[l] IN
    /\ load.phase = "scanning"
    /\ historyFailures' = 0
    /\ \E merged \in MergedIndexes(load, index) :
          /\ index' = Stored(merged)
          /\ loads' = [loads EXCEPT ![l] =
                IF load.live
                THEN [load EXCEPT !.phase = "reading",
                                  !.todo = {b \in Range(merged) : chain[b].owner = load.account}]
                ELSE NoLoad]
    /\ UNCHANGED <<account, records, awaited, due, polls, refreshes>>

(* Mutant: a bond that cannot be read is taken for one that is over. *)
ReadAnswerFabricated(b, answered) == IF answered THEN chain[b].state ELSE Settled

(* getBond and collateralAmountOf, answered together or not at all; what   *)
(* cannot be read is reported, no state is made up for it.                 *)
ReadAnswer(b, answered) == IF answered THEN chain[b].state ELSE Absent

(* The candidates are read one after the other (in which order is left     *)
(* open: no property is about it).                                         *)
ReadCandidate(l, b, answered) ==
    LET load == loads[l]
        read == Seen(LogScan, ReadAnswer(b, answered), b \in load.settled, ~ answered)
    IN
    /\ load.phase = "reading"
    /\ b \in load.todo
    /\ loads' = [loads EXCEPT ![l] = [load EXCEPT !.todo = load.todo \ {b},
                                                 !.found = [load.found EXCEPT ![b] = read]]]
    /\ UNCHANGED <<account, records, index, awaited, due, polls, historyFailures, refreshes>>

ApplyLoad(l) ==
    /\ loads[l].phase = "reading"
    /\ loads[l].todo = {}
    /\ Show(MergeBondRecords(records, loads[l].found), polls)
    /\ loads' = [loads EXCEPT ![l] = NoLoad]
    /\ UNCHANGED <<account, index, awaited, due, historyFailures, refreshes>>

(* A sweep fails.  Nothing held is lost; a live one is counted (the count  *)
(* is capped where the message no longer changes).                         *)
FailLoad(l) ==
    /\ loads[l].phase = "scanning"
    /\ loads' = [loads EXCEPT ![l] = NoLoad]
    /\ historyFailures' = IF loads[l].live /\ historyFailures < HISTORY_FAILURES_BEFORE_WARNING
                          THEN historyFailures + 1 ELSE historyFailures
    /\ UNCHANGED <<account, records, index, awaited, due, polls, refreshes>>

-----------------------------------------------------------------------------
(* reconcile: every row on screen is read at once; each read answers at a  *)
(* time of its own, and the answers are applied together.                  *)
StartPoll(p) ==
    /\ account # NoAccount
    /\ Held(records) # {}
    /\ ~ polls[p].busy
    /\ polls' = [polls EXCEPT ![p] = [NoPoll EXCEPT !.busy = TRUE, !.ids = Held(records)]]
    /\ UNCHANGED <<account, records, index, awaited, due, loads, historyFailures, refreshes>>

PollRead(p, b, answered) ==
    /\ b \in polls[p].ids
    /\ polls' = [polls EXCEPT ![p].ids = @ \ {b},
                              ![p].got[b] = IF answered THEN Seen(Storage, chain[b].state, FALSE, FALSE)
                                                        ELSE NoRecord]
    /\ UNCHANGED <<account, records, index, awaited, due, loads, historyFailures, refreshes>>

ApplyPoll(p) ==
    /\ polls[p].busy
    /\ polls[p].ids = {}
    /\ Show(MergeBondRecords(records, polls[p].got), [polls EXCEPT ![p] = NoPoll])
    /\ UNCHANGED <<account, index, awaited, due, loads, historyFailures, refreshes>>

-----------------------------------------------------------------------------
ChainStep ==
    \/ NextBlock
    \/ \E b \in Bonds, a \in Accounts, ours \in BOOLEAN : OpenBond(b, a, ours)
    \/ \E b \in Bonds : StrangerSettles(b)

StoreStep ==
    /\ \/ \E a \in Accounts \union {NoAccount} : SwitchAccount(a)
       \/ \E b \in Bonds : AddDiscoveredBond(b)
       \/ Refresh
       \/ LoadTimer
       \/ \E l \in Loads : \/ StartLoad(l) \/ EndScan(l) \/ ApplyLoad(l) \/ FailLoad(l)
                           \/ \E b \in Bonds, answered \in BOOLEAN : ReadCandidate(l, b, answered)
       \/ \E p \in Polls : \/ StartPoll(p) \/ ApplyPoll(p)
                           \/ \E b \in Bonds, answered \in BOOLEAN : PollRead(p, b, answered)
    /\ UNCHANGED chainVars

(* The timers fire; a sweep that keeps being tried gets through, and so    *)
(* does a read; a receipt is delivered.                                    *)
Fairness ==
    /\ WF_vars(LoadTimer /\ UNCHANGED chainVars)
    /\ \A b \in Bonds : WF_vars(AddDiscoveredBond(b) /\ UNCHANGED chainVars)
    /\ \A l \in Loads :
          /\ WF_vars(StartLoad(l) /\ UNCHANGED chainVars)
          /\ SF_vars(EndScan(l) /\ UNCHANGED chainVars)
          /\ SF_vars((\E b \in Bonds : ReadCandidate(l, b, TRUE)) /\ UNCHANGED chainVars)
          /\ SF_vars(ApplyLoad(l) /\ UNCHANGED chainVars)
    /\ \A p \in Polls :
          /\ WF_vars(StartPoll(p) /\ UNCHANGED chainVars)
          /\ SF_vars(ApplyPoll(p) /\ UNCHANGED chainVars)
          /\ \A b \in Bonds : SF_vars(PollRead(p, b, TRUE) /\ UNCHANGED chainVars)

-----------------------------------------------------------------------------
TypeOK ==
    /\ block \in Nat
    /\ chain \in [Bonds -> [state : {Absent, Finalized, Settled},
                            owner : Accounts \union {NoAccount}, openBlock : Nat]]
    /\ account \in Accounts \union {NoAccount}
    /\ records \in [Bonds -> BondRecord]
    /\ index \in Seq(Bonds) /\ IsInjective(index) /\ Len(index) <= MAX_INDEX
    /\ awaited \subseteq Bonds
    /\ due \in BOOLEAN
    /\ loads \in [Loads -> [phase : {"idle", "scanning", "reading"}, live : BOOLEAN,
                            account : Accounts \union {NoAccount},
                            opened : SUBSET Bonds, settled : SUBSET Bonds,
                            todo : SUBSET Bonds, found : [Bonds -> BondRecord]]]
    /\ polls \in [Polls -> [busy : BOOLEAN, ids : SUBSET Bonds, got : [Bonds -> BondRecord]]]
    /\ historyFailures \in Nat
    /\ refreshes \in Nat

(* What is shown, and what any answer still to be applied would show, is   *)
(* never ahead of the hook: no row says SETTLED, and no settlement amount  *)
(* is shown, before the hook has settled the bond (bondStore.ts: storage   *)
(* is the authority).                                                      *)
BacksUp(rows) ==
    \A b \in Bonds : /\ rows[b].state <= chain[b].state
                     /\ rows[b].settlement => chain[b].state = Settled

NeverAhead ==
    /\ BacksUp(records)
    /\ \A l \in Loads : BacksUp(loads[l].found)
                       /\ \A b \in loads[l].settled : chain[b].state = Settled
    /\ \A p \in Polls : BacksUp(polls[p].got)

(* No step takes a row back, whichever of the racing answers it applies:   *)
(* the lifecycle shown only moves forward, amounts once shown stay, and a  *)
(* row leaves the list only because the account changed (mergeBondRecord   *)
(* and mergeBondRecords; useBonds.ts:96 "Only an ACCOUNT CHANGE clears     *)
(* the store").                                                            *)
NoRegression ==
    [][account' = account =>
          \A b \in Held(records) : /\ b \in Held(records')
                                   /\ records'[b].state >= records[b].state
                                   /\ records[b].settlement => records'[b].settlement]_vars

(* A bond once remembered in the stored index is not forgotten by a later  *)
(* sweep, receipt, account change or page reload, unless the index is full *)
(* (useBonds.ts reads the index again after its awaits).                   *)
IndexRemembers ==
    [][\A b \in Range(index) : b \in Range(index') \/ Len(index') = MAX_INDEX]_vars

(* An account that stays connected comes to see each of its bonds that is  *)
(* in the stored index or in the blocks a sweep covers, through any        *)
(* failures of sweeps and reads.                                           *)
Discoverable(b, a) ==
    /\ chain[b].owner = a
    /\ b \in Range(index) \/ MAX_BLOCK <= SPAN + chain[b].openBlock

OwnBondListed ==
    \A a \in Accounts, b \in Bonds :
        [](Discoverable(b, a) => <>(b \in Held(records) \/ account # a))

(* A settlement, whoever sent it, comes to be shown on every row still     *)
(* listed.                                                                 *)
SettlementShown ==
    \A b \in Bonds :
        [](b \in Held(records) /\ chain[b].state = Settled
              => <>(b \notin Held(records) \/ records[b].state = Settled))

(* The list catches up: bonds and settlements come to be shown, though     *)
(* sweeps and reads fail again and again (the timers of useBonds.ts).      *)
ListCatchesUp == OwnBondListed /\ SettlementShown
=============================================================================
