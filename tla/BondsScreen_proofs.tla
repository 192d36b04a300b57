--------------------------- MODULE BondsScreen_proofs ---------------------------
(***************************************************************************)
(* The bond list and the screen that settles bonds, for any number of      *)
(* bonds, accounts, loads, polls and attempts: the list is never ahead of  *)
(* the hook, no answer takes it back, the stored index forgets nothing,    *)
(* and the screen never contradicts the chain.                             *)
(***************************************************************************)
EXTENDS BondsScreen, FiniteSetTheorems, SequenceTheorems, TLAPS

-------------------------------------------------------------------------------
(* Merging. *)

States == {Absent, Finalized, Settled}
Rows == [Bonds -> BondRecord]

Backed(rows, ch) ==
    \A b \in Bonds : /\ rows[b].state <= ch[b].state
                     /\ rows[b].settlement => ch[b].state = Settled

LEMMA NoRecordsTyped == NoRecords \in Rows
BY DEF NoRecords, NoRecord, Seen, Rows, BondRecord, None, Absent

(* What a merge keeps of the row, and what it can take of the observation. *)
LEMMA MergeKeeps ==
    ASSUME NEW held \in BondRecord, NEW seen \in BondRecord, seen.source # None
    PROVE  LET merged == MergeBondRecord(held, seen) IN
           /\ merged \in BondRecord
           /\ merged.source # None
           /\ merged.state \in {held.state, seen.state}
           /\ merged.settlement => held.settlement \/ seen.settlement
           /\ held.source # None => /\ merged.state >= held.state
                                    /\ held.settlement => merged.settlement
<1>1. /\ held.source \in 0..5 /\ seen.source \in 0..5
      /\ held.state \in States /\ seen.state \in States
      /\ held.settlement \in BOOLEAN /\ seen.settlement \in BOOLEAN
      /\ held.readError \in BOOLEAN /\ seen.readError \in BOOLEAN
  BY DEF BondRecord, States
<1>2. CASE held.source = None
  BY <1>1, <1>2 DEF MergeBondRecord
<1>3. CASE held.source # None /\ Newer(held, seen)
  <2>1. MergeBondRecord(held, seen) =
           Seen(seen.source, seen.state, held.settlement \/ seen.settlement,
                seen.state = Absent /\ (held.readError \/ seen.readError))
    BY <1>3 DEF MergeBondRecord
  <2>2. seen.state >= held.state
    BY <1>1, <1>3 DEF Newer, States, Absent, Finalized, Settled
  <2> QED BY <1>1, <1>3, <2>1, <2>2 DEF Seen, BondRecord, States
<1>4. CASE held.source # None /\ ~ Newer(held, seen)
  <2>1. MergeBondRecord(held, seen) =
           Seen(held.source, held.state, held.settlement \/ seen.settlement,
                held.state = Absent /\ (held.readError \/ seen.readError))
    BY <1>4 DEF MergeBondRecord
  <2>2. held.state >= held.state
    BY <1>1 DEF States, Absent, Finalized, Settled
  <2> QED BY <1>1, <1>4, <2>1, <2>2 DEF Seen, BondRecord, States
<1> QED BY <1>2, <1>3, <1>4

(* The same of a whole list. *)
LEMMA RowsMerge ==
    ASSUME NEW rows \in Rows, NEW seen \in Rows
    PROVE  LET merged == MergeBondRecords(rows, seen) IN
           /\ merged \in Rows
           /\ \A ch : Backed(rows, ch) /\ Backed(seen, ch) => Backed(merged, ch)
           /\ \A b \in Held(rows) : /\ b \in Held(merged)
                                    /\ merged[b].state >= rows[b].state
                                    /\ rows[b].settlement => merged[b].settlement
<1> DEFINE merged == MergeBondRecords(rows, seen)
<1>1. \A b \in Bonds : rows[b] \in BondRecord /\ seen[b] \in BondRecord
  BY DEF Rows
<1>2. \A b \in Bonds : merged[b] = IF seen[b].source = None THEN rows[b]
                                   ELSE MergeBondRecord(rows[b], seen[b])
  BY DEF MergeBondRecords
<1>3. ASSUME NEW b \in Bonds
      PROVE  /\ merged[b] \in BondRecord
             /\ merged[b].state \in {rows[b].state, seen[b].state}
             /\ merged[b].settlement => rows[b].settlement \/ seen[b].settlement
             /\ rows[b].source # None => /\ merged[b].source # None
                                         /\ merged[b].state >= rows[b].state
                                         /\ rows[b].settlement => merged[b].settlement
  <2>1. rows[b].state >= rows[b].state
    BY <1>1 DEF BondRecord, Absent, Finalized, Settled
  <2>2. CASE seen[b].source = None
    BY <1>1, <1>2, <2>1, <2>2
  <2>3. CASE seen[b].source # None
    BY <1>1, <1>2, <2>3, MergeKeeps
  <2> QED BY <2>2, <2>3
<1>4. merged \in Rows
  BY <1>3 DEF MergeBondRecords, Rows
<1>5. \A ch : Backed(rows, ch) /\ Backed(seen, ch) => Backed(merged, ch)
  BY <1>3 DEF Backed
<1> QED BY <1>3, <1>4, <1>5 DEF Held

-------------------------------------------------------------------------------
(* The invariant of the list: the shapes of the state, what is shown and   *)
(* what is in flight backed by the hook, and requests kept only for a      *)
(* connected account.                                                      *)

Load ==
    [phase : {"idle", "scanning", "reading"}, live : BOOLEAN,
     account : Accounts \union {NoAccount}, opened : SUBSET Bonds, settled : SUBSET Bonds,
     todo : SUBSET Bonds, found : Rows]

LoadTyped(load) == load \in Load

PollTyped(poll) == poll \in [busy : BOOLEAN, ids : SUBSET Bonds, got : Rows]

Chain == [Bonds -> [state : States, owner : Accounts \union {NoAccount}, openBlock : Nat]]

Typed ==
    /\ block \in Nat
    /\ account \in Accounts \union {NoAccount}
    /\ chain \in Chain
    /\ records \in Rows
    /\ loads = [l \in Loads |-> loads[l]]
    /\ polls = [p \in Polls |-> polls[p]]
    /\ \A l \in Loads : LoadTyped(loads[l])
    /\ \A p \in Polls : PollTyped(polls[p])

LoadBacked(load, ch) ==
    /\ Backed(load.found, ch)
    /\ \A b \in load.settled : ch[b].state = Settled

AllBacked ==
    /\ Backed(records, chain)
    /\ \A l \in Loads : LoadBacked(loads[l], chain)
    /\ \A p \in Polls : Backed(polls[p].got, chain)

Connected ==
    account = NoAccount =>
        /\ Held(records) = {}
        /\ ~ due
        /\ \A l \in Loads : ~ loads[l].live
        /\ \A p \in Polls : ~ polls[p].busy

ReadingIsLive == \A l \in Loads : loads[l].phase = "reading" => loads[l].live

ListInv == Typed /\ AllBacked /\ Connected /\ ReadingIsLive

LEMMA Empties ==
    ASSUME NEW ch \in Chain
    PROVE  /\ NoRecords \in Rows /\ Backed(NoRecords, ch) /\ Held(NoRecords) = {}
           /\ LoadTyped(NoLoad) /\ LoadBacked(NoLoad, ch)
           /\ ~ NoLoad.live /\ NoLoad.phase = "idle"
           /\ PollTyped(NoPoll) /\ Backed(NoPoll.got, ch) /\ ~ NoPoll.busy
<1>1. Backed(NoRecords, ch)
  BY DEF Backed, NoRecords, NoRecord, Seen, Absent, Chain, States, Finalized, Settled
<1>2. Held(NoRecords) = {}
  BY DEF Held, NoRecords, NoRecord, Seen
<1>3. LoadTyped(NoLoad)
  BY NoRecordsTyped DEF NoLoad, Load, LoadTyped
<1>4. PollTyped(NoPoll)
  BY NoRecordsTyped DEF PollTyped, NoPoll
<1> QED
  BY <1>1, <1>2, <1>3, <1>4, NoRecordsTyped DEF LoadBacked, NoLoad, NoPoll

(* What the type of a load gives, and what the updates of one keep. *)
LEMMA LoadFacts ==
    ASSUME NEW load, LoadTyped(load)
    PROVE  load.found \in Rows /\ load.settled \in SUBSET Bonds /\ load.live \in BOOLEAN
BY DEF LoadTyped, Load

LEMMA ReadingBegins ==
    ASSUME NEW load, LoadTyped(load), NEW todo \in SUBSET Bonds
    PROVE  LET next == [load EXCEPT !.phase = "reading", !.todo = todo] IN
           /\ LoadTyped(next)
           /\ next.found = load.found /\ next.settled = load.settled /\ next.live = load.live
BY DEF LoadTyped, Load

(* Cancelling keeps what the invariant says of a load. *)
LEMMA CancelKeeps ==
    ASSUME NEW load, LoadTyped(load), NEW ch \in Chain, LoadBacked(load, ch)
    PROVE  /\ LoadTyped(Cancelled(load)) /\ LoadBacked(Cancelled(load), ch)
           /\ ~ Cancelled(load).live /\ Cancelled(load).phase # "reading"
<1>1. CASE load.phase = "scanning"
  <2>1. Cancelled(load) = [load EXCEPT !.live = FALSE]
    BY <1>1 DEF Cancelled
  <2>2. LoadTyped([load EXCEPT !.live = FALSE])
    BY DEF LoadTyped, Load
  <2>3. /\ [load EXCEPT !.live = FALSE].phase = load.phase
        /\ [load EXCEPT !.live = FALSE].found = load.found
        /\ [load EXCEPT !.live = FALSE].settled = load.settled
        /\ [load EXCEPT !.live = FALSE].live = FALSE
    BY DEF LoadTyped, Load
  <2> QED BY <1>1, <2>1, <2>2, <2>3 DEF LoadBacked
<1>2. CASE load.phase # "scanning"
  BY <1>2, Empties DEF Cancelled
<1> QED BY <1>1, <1>2

(* The hook only moves on. *)
Grows == \A b \in Bonds : /\ chain'[b].state >= chain[b].state
                          /\ chain[b].state = Settled => chain'[b].state = Settled

LEMMA BackedStays ==
    ASSUME NEW rows \in Rows, chain \in Chain, chain' \in Chain, Grows, Backed(rows, chain)
    PROVE  Backed(rows, chain')
<1>1. ASSUME NEW b \in Bonds
      PROVE  /\ rows[b].state \in Nat /\ chain[b].state \in Nat /\ chain'[b].state \in Nat
  BY DEF Rows, BondRecord, Chain, States, Absent, Finalized, Settled
<1> QED BY <1>1 DEF Backed, Grows

-------------------------------------------------------------------------------
(* The stored index. *)

Remembered == index \in Seq(Bonds) /\ IsInjective(index) /\ Len(index) <= MAX_INDEX

(* A sweep puts what it found in front of the index, once.                 *)
LEMMA MergedFacts ==
    ASSUME Remembered, NEW load, load.opened \in SUBSET Bonds,
           NEW merged \in MergedIndexes(load, index)
    PROVE  /\ merged \in Seq(Bonds) /\ IsInjective(merged)
           /\ \A b \in Range(index) : b \in Range(merged)
<1> DEFINE new == {b \in load.opened : chain[b].owner = load.account} \ Range(index)
           n == Cardinality(new)
<1>1. PICK fresh \in NewestFirst(new) : merged = fresh \o index
  BY DEF MergedIndexes
<1>2. IsFiniteSet(new) /\ n \in Nat
  BY BondsAssumption, FS_Subset, FS_CardinalityType
<1>3. new \in SUBSET Bonds /\ \A b \in new : b \notin Range(index)
  OBVIOUS
<1> HIDE DEF new, n
<1>4. /\ fresh \in [1..n -> new]
      /\ \A i, j \in 1..n : i # j => fresh[i] # fresh[j]
  BY <1>1 DEF NewestFirst, SetToSeqs, n
<1>5. /\ fresh \in Seq(Bonds) /\ Len(fresh) = n
      /\ \A i \in 1..n : fresh[i] \notin Range(index)
  BY <1>2, <1>3, <1>4
<1> DEFINE m == Len(index)
<1>6. /\ index \in Seq(Bonds) /\ m \in Nat
      /\ \A i, j \in 1..m : index[i] = index[j] => i = j
      /\ \A i \in 1..m : index[i] \in Range(index)
  BY DEF Remembered, IsInjective, Range
<1>7. /\ merged \in Seq(Bonds) /\ Len(merged) = n + m
      /\ \A i \in 1..(n + m) : merged[i] = IF i <= n THEN fresh[i] ELSE index[i - n]
  <2>1. /\ merged \in Seq(Bonds) /\ Len(merged) = Len(fresh) + Len(index)
        /\ \A i \in 1..(Len(fresh) + Len(index)) :
              merged[i] = IF i <= Len(fresh) THEN fresh[i] ELSE index[i - Len(fresh)]
    BY <1>1, <1>5, <1>6, ConcatProperties
  <2> QED BY <1>5, <2>1
<1> HIDE DEF m
<1>11. ASSUME NEW i \in 1..m
       PROVE  merged[n + i] = index[i]
  <2>1. n + i \in 1..(n + m) /\ ~ (n + i <= n) /\ (n + i) - n = i
    BY <1>2, <1>6
  <2>2. merged[n + i] = index[(n + i) - n]
    BY <1>7, <2>1
  <2> QED BY <2>1, <2>2
<1>8. ASSUME NEW i \in 1..(n + m), NEW j \in 1..(n + m), merged[i] = merged[j]
      PROVE  i = j
  <2>1. CASE i <= n /\ j <= n
    <3>1. i \in 1..n /\ j \in 1..n /\ fresh[i] = fresh[j]
      BY <1>2, <1>6, <1>7, <1>8, <2>1
    <3> QED BY <1>4, <3>1
  <2>2. CASE i > n /\ j > n
    <3>1. i - n \in 1..m /\ j - n \in 1..m /\ index[i - n] = index[j - n]
      BY <1>2, <1>6, <1>7, <1>8, <2>2
    <3>2. i - n = j - n
      BY <1>6, <3>1
    <3> QED BY <1>2, <1>6, <3>2
  <2>3. CASE i <= n /\ j > n
    <3>1. i \in 1..n /\ j - n \in 1..m /\ fresh[i] = index[j - n]
      BY <1>2, <1>6, <1>7, <1>8, <2>3
    <3> QED BY <1>5, <1>6, <3>1
  <2>4. CASE i > n /\ j <= n
    <3>1. j \in 1..n /\ i - n \in 1..m /\ fresh[j] = index[i - n]
      BY <1>2, <1>6, <1>7, <1>8, <2>4
    <3> QED BY <1>5, <1>6, <3>1
  <2> QED BY <1>2, <1>6, <2>1, <2>2, <2>3, <2>4
<1>9. IsInjective(merged)
  BY <1>2, <1>6, <1>7, <1>8 DEF IsInjective
<1>10. ASSUME NEW b \in Range(index)
       PROVE  b \in Range(merged)
  <2>1. PICK i \in 1..m : index[i] = b
    BY <1>6 DEF Range, m
  <2>2. n + i \in 1..(n + m) /\ merged[n + i] = b
    BY <1>2, <1>6, <1>11, <2>1
  <2>3. 1..(n + m) = DOMAIN merged
    BY <1>2, <1>6, <1>7
  <2> QED BY <2>2, <2>3 DEF Range
<1> QED BY <1>7, <1>9, <1>10

(* Writing the index keeps its newest entries, all of them if they fit.    *)
LEMMA StoredFacts ==
    ASSUME NEW entries \in Seq(Bonds), IsInjective(entries)
    PROVE  LET kept == Stored(entries) IN
           /\ kept \in Seq(Bonds) /\ IsInjective(kept) /\ Len(kept) <= MAX_INDEX
           /\ \A b \in Range(entries) : b \in Range(kept) \/ Len(kept) = MAX_INDEX
<1> DEFINE kept == Stored(entries)
           n == IF Len(entries) < MAX_INDEX THEN Len(entries) ELSE MAX_INDEX
<1>1. /\ n \in 0..Len(entries) /\ n \in Nat /\ n <= MAX_INDEX
      /\ n = MAX_INDEX \/ n = Len(entries)
  BY IndexAssumption
<1>2. kept = SubSeq(entries, 1, n)
  BY DEF Stored
<1>3. /\ kept \in Seq(Bonds) /\ Len(kept) = n
      /\ \A i \in 1..n : kept[i] = entries[i]
  <2> HIDE DEF n, kept
  <2> QED BY <1>1, <1>2
<1> HIDE DEF n, kept
<1>4. 1..n \subseteq 1..Len(entries)
  BY <1>1
<1>5. IsInjective(kept)
  BY <1>3, <1>4 DEF IsInjective
<1>6. n = Len(entries) => \A b \in Range(entries) : b \in Range(kept)
  BY <1>3 DEF Range
<1>7. Len(kept) <= MAX_INDEX /\ (n = Len(entries) \/ Len(kept) = MAX_INDEX)
  BY <1>1, <1>3
<1>8. \A b \in Range(entries) : b \in Range(kept) \/ Len(kept) = MAX_INDEX
  BY <1>6, <1>7
<1> QED BY <1>3, <1>5, <1>7, <1>8 DEF kept

-------------------------------------------------------------------------------
(* Steps. *)

(* What AddDiscoveredBond and Refresh have in common. *)
LEMMA ShowAndReloadKeeps ==
    ASSUME ListInv, NEW rows \in Rows, Backed(rows, chain), ShowAndReload(rows),
           UNCHANGED <<chainVars, account>>
    PROVE  ListInv'
<1>1. /\ Typed /\ AllBacked /\ chain \in Chain
      /\ chain' = chain /\ block' = block /\ account' = account
  BY DEF ListInv, Typed, chainVars
<1>2. /\ records' \in Rows /\ Backed(records', chain)
      /\ account = NoAccount => Held(records') = {}
  BY <1>1, Empties DEF ShowAndReload, Show
<1>3. \/ polls' = polls
      \/ polls' = NoPolls
  BY DEF ShowAndReload, Show
<1>4. /\ polls' = [p \in Polls |-> polls'[p]]
      /\ \A p \in Polls : polls'[p] = polls[p] \/ polls'[p] = NoPoll
  BY <1>1, <1>3 DEF Typed, NoPolls
<1>5. \A p \in Polls : /\ PollTyped(polls'[p]) /\ Backed(polls'[p].got, chain)
                       /\ account = NoAccount => ~ polls'[p].busy
  BY <1>1, <1>4, Empties DEF ListInv, Typed, AllBacked, Connected
<1>6. /\ loads' = [l \in Loads |-> loads'[l]]
      /\ \A l \in Loads : loads'[l] = Cancelled(loads[l])
  BY DEF ShowAndReload, CancelLoads
<1>7. \A l \in Loads : /\ LoadTyped(loads'[l]) /\ LoadBacked(loads'[l], chain)
                       /\ ~ loads'[l].live /\ loads'[l].phase # "reading"
  BY <1>1, <1>6, CancelKeeps DEF Typed, AllBacked
<1>8. account = NoAccount => ~ due'
  BY DEF ShowAndReload
<1>9. Typed'
  BY <1>1, <1>2, <1>4, <1>5, <1>6, <1>7 DEF Typed
<1>10. AllBacked'
  BY <1>1, <1>2, <1>5, <1>7 DEF AllBacked
<1>11. Connected' /\ ReadingIsLive'
  BY <1>1, <1>2, <1>5, <1>7, <1>8 DEF Connected, ReadingIsLive
<1> QED BY <1>9, <1>10, <1>11 DEF ListInv

(* A step of one load: the list may be shown anew, the others are kept. *)
LEMMA LoadStepKeeps ==
    ASSUME ListInv, NEW l \in Loads, NEW load, loads' = [loads EXCEPT ![l] = load],
           LoadTyped(load), LoadBacked(load, chain),
           load.live => account # NoAccount, load.phase = "reading" => load.live,
           due' => due, UNCHANGED <<chainVars, account, records, polls>>
    PROVE  ListInv'
<1>1. /\ Typed /\ AllBacked /\ Connected /\ ReadingIsLive
      /\ chain' = chain /\ block' = block /\ account' = account
      /\ records' = records /\ polls' = polls
  BY DEF ListInv, chainVars
<1>2. /\ loads' = [k \in Loads |-> loads'[k]]
      /\ \A k \in Loads : loads'[k] = IF k = l THEN load ELSE loads[k]
  BY <1>1 DEF Typed
<1>3. Typed'
  BY <1>1, <1>2 DEF Typed
<1>4. AllBacked'
  BY <1>1, <1>2 DEF AllBacked
<1>5. Connected' /\ ReadingIsLive'
  BY <1>1, <1>2 DEF Connected, ReadingIsLive
<1> QED BY <1>3, <1>4, <1>5 DEF ListInv

LEMMA PollStepKeeps ==
    ASSUME ListInv, NEW p \in Polls, NEW poll, polls' = [polls EXCEPT ![p] = poll],
           PollTyped(poll), Backed(poll.got, chain), poll.busy => account # NoAccount,
           UNCHANGED <<chainVars, account, records, loads, due>>
    PROVE  ListInv'
<1>1. /\ Typed /\ AllBacked /\ Connected /\ ReadingIsLive
      /\ chain' = chain /\ block' = block /\ account' = account /\ due' = due
      /\ records' = records /\ loads' = loads
  BY DEF ListInv, chainVars
<1>2. /\ polls' = [k \in Polls |-> polls'[k]]
      /\ \A k \in Polls : polls'[k] = IF k = p THEN poll ELSE polls[k]
  BY <1>1 DEF Typed
<1>3. Typed'
  BY <1>1, <1>2 DEF Typed
<1>4. AllBacked'
  BY <1>1, <1>2 DEF AllBacked
<1>5. Connected' /\ ReadingIsLive'
  BY <1>1, <1>2 DEF Connected, ReadingIsLive
<1> QED BY <1>3, <1>4, <1>5 DEF ListInv

(* The answers of a load or a poll are shown, and the request forgotten. *)
LEMMA ShownKeeps ==
    ASSUME ListInv, account # NoAccount, NEW seen \in Rows, Backed(seen, chain),
           NEW running, Show(MergeBondRecords(records, seen), running),
           running = [p \in Polls |-> running[p]],
           \A p \in Polls : running[p] = polls[p] \/ running[p] = NoPoll,
           loads' = [l \in Loads |-> loads'[l]],
           \A l \in Loads : loads'[l] = loads[l] \/ loads'[l] = NoLoad,
           UNCHANGED <<chainVars, account, due>>
    PROVE  ListInv'
<1>1. /\ Typed /\ AllBacked /\ ReadingIsLive /\ chain \in Chain
      /\ chain' = chain /\ block' = block /\ account' = account
  BY DEF ListInv, Typed, chainVars
<1>2. records' \in Rows /\ Backed(records', chain)
  BY <1>1, RowsMerge DEF Show, Typed, AllBacked
<1>3. \/ polls' = running
      \/ polls' = NoPolls
  BY DEF Show
<1>4. /\ polls' = [p \in Polls |-> polls'[p]]
      /\ \A p \in Polls : polls'[p] = polls[p] \/ polls'[p] = NoPoll
  BY <1>3 DEF NoPolls
<1>5. Typed'
  BY <1>1, <1>2, <1>4, Empties DEF Typed
<1>6. AllBacked'
  BY <1>1, <1>2, <1>4, Empties DEF AllBacked
<1>7. ReadingIsLive'
  BY <1>1, Empties DEF ReadingIsLive
<1>8. Connected'
  BY <1>1 DEF Connected
<1> QED BY <1>5, <1>6, <1>7, <1>8 DEF ListInv

-------------------------------------------------------------------------------
(* The actions. *)

LEMMA GrowthKeeps ==
    ASSUME ListInv, UNCHANGED <<account, records, due, loads, polls>>,
           block' \in Nat, chain' \in Chain, Grows
    PROVE  ListInv'
<1>1. Typed /\ AllBacked /\ Connected /\ ReadingIsLive /\ chain \in Chain
  BY DEF ListInv, Typed
<1>3. Typed'
  BY <1>1 DEF Typed
<1>4. Backed(records, chain')
  BY <1>1, BackedStays DEF Typed, AllBacked
<1>5. \A l \in Loads : LoadBacked(loads[l], chain')
  <2> TAKE l \in Loads
  <2>1. LoadTyped(loads[l]) /\ LoadBacked(loads[l], chain)
    BY <1>1 DEF Typed, AllBacked
  <2>2. \A b \in Bonds : chain[b].state = Settled => chain'[b].state = Settled
    BY DEF Grows
  <2>3. Backed(loads[l].found, chain')
    BY <1>1, <2>1, LoadFacts, BackedStays DEF LoadBacked
  <2>4. \A b \in loads[l].settled : b \in Bonds
    BY <2>1, LoadFacts
  <2> QED BY <2>1, <2>2, <2>3, <2>4 DEF LoadBacked
<1>6. \A p \in Polls : Backed(polls[p].got, chain')
  BY <1>1, BackedStays DEF Typed, PollTyped, AllBacked
<1>7. AllBacked'
  BY <1>4, <1>5, <1>6 DEF AllBacked
<1>8. Connected' /\ ReadingIsLive'
  BY <1>1 DEF Connected, ReadingIsLive
<1> QED BY <1>3, <1>7, <1>8 DEF ListInv

LEMMA SettlingGrows ==
    ASSUME chain \in Chain, NEW b \in Bonds, SettleOnChain(b)
    PROVE  chain' \in Chain /\ Grows /\ chain'[b].state = Settled
<1>1. chain' = [chain EXCEPT ![b].state = Settled]
  BY DEF SettleOnChain
<1>2. chain' \in Chain /\ chain'[b].state = Settled
  BY <1>1 DEF Chain, States
<1>3. Grows
  BY <1>1 DEF Grows, Chain, States, Absent, Finalized, Settled
<1> QED BY <1>2, <1>3

LEMMA ChainStepGrows ==
    ASSUME Typed, ChainStep
    PROVE  /\ UNCHANGED <<account, records, index, due, loads, polls, historyFailures, refreshes>>
           /\ block' \in Nat /\ chain' \in Chain /\ Grows
<1>1. chain \in Chain /\ block \in Nat
  BY DEF Typed
<1>2. CASE NextBlock
  <2>1. chain' = chain /\ UNCHANGED storeVars /\ block' = block + 1
    BY <1>2 DEF NextBlock
  <2>2. \A b \in Bonds : chain[b].state >= chain[b].state
    BY <1>1 DEF Chain, States, Absent, Finalized, Settled
  <2> QED BY <1>1, <2>1, <2>2 DEF storeVars, Grows
<1>3. CASE \E b \in Bonds, a \in Accounts, ours \in BOOLEAN : OpenBond(b, a, ours)
  <2>1. PICK b \in Bonds, a \in Accounts, ours \in BOOLEAN : OpenBond(b, a, ours)
    BY <1>3
  <2>2. /\ chain[b].state = Absent /\ block' = block
        /\ chain' = [chain EXCEPT ![b] = [state |-> Finalized, owner |-> a, openBlock |-> block]]
        /\ UNCHANGED <<account, records, index, due, loads, polls, historyFailures, refreshes>>
    BY <2>1 DEF OpenBond
  <2>3. chain' \in Chain
    BY <1>1, <2>2 DEF Chain, States
  <2>4. Grows
    BY <1>1, <2>2 DEF Grows, Chain, States, Absent, Finalized, Settled
  <2> QED BY <1>1, <2>2, <2>3, <2>4
<1>4. CASE \E b \in Bonds : StrangerSettles(b)
  <2>1. PICK b \in Bonds : StrangerSettles(b)
    BY <1>4
  <2>2. SettleOnChain(b) /\ block' = block /\ UNCHANGED storeVars
    BY <2>1 DEF StrangerSettles
  <2> QED BY <1>1, <2>2, SettlingGrows DEF storeVars
<1> QED BY <1>2, <1>3, <1>4 DEF ChainStep

LEMMA ChainStepKeeps ==
    ASSUME ListInv, ChainStep
    PROVE  ListInv'
<1>1. Typed
  BY DEF ListInv
<1> QED BY <1>1, ChainStepGrows, GrowthKeeps

(* The account changes, or the page is reloaded: the list is emptied. *)
LEMMA EmptiedKeeps ==
    ASSUME ListInv, UNCHANGED chainVars, records' = NoRecords, polls' = NoPolls,
           account' \in Accounts \union {NoAccount},
           \/ loads' = CancelLoads /\ due' = (account' # NoAccount)
           \/ loads' = [l \in Loads |-> NoLoad] /\ due' = FALSE
    PROVE  ListInv'
<1>1. /\ Typed /\ AllBacked /\ chain \in Chain /\ chain' = chain /\ block' = block
  BY DEF ListInv, Typed, chainVars
<1>2. /\ polls' = [p \in Polls |-> polls'[p]]
      /\ \A p \in Polls : polls'[p] = NoPoll
  BY DEF NoPolls
<1>3. /\ loads' = [l \in Loads |-> loads'[l]]
      /\ \A l \in Loads : loads'[l] = Cancelled(loads[l]) \/ loads'[l] = NoLoad
  BY DEF CancelLoads
<1>4. \A l \in Loads : /\ LoadTyped(loads'[l]) /\ LoadBacked(loads'[l], chain)
                       /\ ~ loads'[l].live /\ loads'[l].phase # "reading"
  BY <1>1, <1>3, CancelKeeps, Empties DEF Typed, AllBacked
<1>5. Typed'
  BY <1>1, <1>2, <1>3, <1>4, Empties DEF Typed
<1>6. AllBacked'
  BY <1>1, <1>2, <1>4, Empties DEF AllBacked
<1>7. Connected' /\ ReadingIsLive'
  BY <1>1, <1>2, <1>4, Empties DEF Connected, ReadingIsLive
<1> QED BY <1>5, <1>6, <1>7 DEF ListInv

LEMMA DiscoveryKeeps ==
    ASSUME ListInv, NEW b \in Bonds, AddDiscoveredBond(b), UNCHANGED chainVars
    PROVE  ListInv'
<1> DEFINE seen == Only(b, Seen(ReceiptEvent, Absent, FALSE, FALSE))
<1>1. Typed /\ AllBacked /\ chain \in Chain
  BY DEF ListInv, Typed
<1>2. seen \in Rows /\ Backed(seen, chain)
  <2>1. Seen(ReceiptEvent, Absent, FALSE, FALSE) \in BondRecord
    BY DEF Seen, BondRecord, ReceiptEvent, Absent
  <2>2. seen \in Rows
    BY <2>1, NoRecordsTyped DEF Only, Rows
  <2>3. \A c \in Bonds : seen[c].state = Absent /\ seen[c].settlement = FALSE
    BY NoRecordsTyped DEF Only, Rows, Seen, NoRecords, NoRecord
  <2> HIDE DEF seen
  <2>4. \A c \in Bonds : Absent <= chain[c].state
    BY <1>1 DEF Chain, States, Absent, Finalized, Settled
  <2> QED BY <2>2, <2>3, <2>4 DEF Backed
<1>3. /\ ShowAndReload(MergeBondRecords(records, seen))
      /\ account' = account
  BY DEF AddDiscoveredBond
<1>4. MergeBondRecords(records, seen) \in Rows /\ Backed(MergeBondRecords(records, seen), chain)
  BY <1>1, <1>2, RowsMerge DEF Typed, AllBacked
<1> HIDE DEF seen
<1> QED BY <1>3, <1>4, ShowAndReloadKeeps

LEMMA LoadActionKeeps ==
    ASSUME ListInv, Remembered, UNCHANGED chainVars, NEW l \in Loads,
           \/ StartLoad(l) \/ EndScan(l) \/ ApplyLoad(l) \/ FailLoad(l)
           \/ \E b \in Bonds, answered \in BOOLEAN : ReadCandidate(l, b, answered)
    PROVE  ListInv'
<1> DEFINE load == loads[l]
<1>1. /\ Typed /\ AllBacked /\ Connected /\ ReadingIsLive /\ chain \in Chain
      /\ LoadTyped(load) /\ LoadBacked(load, chain)
      /\ load.live => account # NoAccount
      /\ load.phase = "reading" => load.live
  BY DEF ListInv, Typed, AllBacked, Connected, ReadingIsLive
<1>2. CASE StartLoad(l)
  <2> DEFINE begun == [NoLoad EXCEPT
                 !.phase = "scanning", !.live = TRUE, !.account = account,
                 !.opened = {b \in Bonds : chain[b].state # Absent
                                           /\ chain[b].openBlock \in ScanFrom..block},
                 !.settled = {b \in Bonds : chain[b].state = Settled}]
  <2>1. /\ loads' = [loads EXCEPT ![l] = begun] /\ due /\ due' = FALSE
        /\ UNCHANGED <<account, records, polls>>
    BY <1>2 DEF StartLoad
  <2> DEFINE opened == {b \in Bonds : chain[b].state # Absent
                                      /\ chain[b].openBlock \in ScanFrom..block}
             settled == {b \in Bonds : chain[b].state = Settled}
  <2>2. opened \in SUBSET Bonds /\ settled \in SUBSET Bonds /\ account \in Accounts \union {NoAccount}
    BY <1>1 DEF Typed
  <2>5. begun = [NoLoad EXCEPT !.phase = "scanning", !.live = TRUE, !.account = account,
                               !.opened = opened, !.settled = settled]
    OBVIOUS
  <2>6. NoLoad \in Load /\ NoLoad.found = NoRecords
    BY <1>1, Empties DEF NoLoad, LoadTyped
  <2> HIDE DEF begun, opened, settled
  <2>7. /\ begun \in Load /\ begun.phase = "scanning"
        /\ begun.settled = settled /\ begun.found = NoRecords
    BY <2>2, <2>5, <2>6 DEF Load
  <2>8. LoadTyped(begun)
    BY <2>7 DEF LoadTyped
  <2>3. LoadBacked(begun, chain) /\ begun.phase # "reading"
    BY <1>1, <2>7, Empties DEF LoadBacked, settled
  <2>4. account # NoAccount
    BY <1>1, <2>1 DEF Connected
  <2> QED BY <2>1, <2>3, <2>4, <2>8, LoadStepKeeps
<1>3. CASE EndScan(l)
  <2>0. PICK merged \in MergedIndexes(load, index) :
           loads' = [loads EXCEPT ![l] =
              IF load.live
              THEN [load EXCEPT !.phase = "reading",
                                !.todo = {b \in Range(merged) : chain[b].owner = load.account}]
              ELSE NoLoad]
    BY <1>3 DEF EndScan
  <2> DEFINE todo == {b \in Range(merged) : chain[b].owner = load.account}
             read == [load EXCEPT !.phase = "reading", !.todo = todo]
             next == IF load.live THEN read ELSE NoLoad
  <2>1. /\ loads' = [loads EXCEPT ![l] = next]
        /\ UNCHANGED <<account, records, due, polls>>
    BY <1>3, <2>0 DEF EndScan
  <2>2. todo \in SUBSET Bonds
    <3>1. merged \in Seq(Bonds)
      BY <1>1, MergedFacts DEF LoadTyped, Load
    <3> QED BY <3>1 DEF Range
  <2> HIDE DEF todo
  <2>3. LoadTyped(read) /\ LoadBacked(read, chain) /\ read.live = load.live
    BY <1>1, <2>2, ReadingBegins DEF LoadBacked
  <2> HIDE DEF read
  <2>4. /\ LoadTyped(next) /\ LoadBacked(next, chain)
        /\ next.live => account # NoAccount
        /\ next.phase = "reading" => next.live
    BY <1>1, <2>3, Empties
  <2> HIDE DEF next
  <2> QED BY <2>1, <2>4, LoadStepKeeps
<1>4. CASE ApplyLoad(l)
  <2>1. /\ load.phase = "reading"
        /\ Show(MergeBondRecords(records, load.found), polls)
        /\ loads' = [loads EXCEPT ![l] = NoLoad]
        /\ UNCHANGED <<account, due>>
    BY <1>4 DEF ApplyLoad
  <2>2. /\ loads' = [k \in Loads |-> loads'[k]]
        /\ \A k \in Loads : loads'[k] = loads[k] \/ loads'[k] = NoLoad
    BY <1>1, <2>1 DEF Typed
  <2>3. load.found \in Rows /\ Backed(load.found, chain) /\ account # NoAccount
    BY <1>1, <2>1, LoadFacts DEF LoadBacked
  <2>4. polls = [p \in Polls |-> polls[p]]
    BY <1>1 DEF Typed
  <2> HIDE DEF load
  <2> QED BY <2>1, <2>2, <2>3, <2>4, ShownKeeps
<1>5. CASE FailLoad(l)
  <2>1. loads' = [loads EXCEPT ![l] = NoLoad] /\ UNCHANGED <<account, records, due, polls>>
    BY <1>5 DEF FailLoad
  <2> QED BY <1>1, <2>1, Empties, LoadStepKeeps
<1>6. CASE \E b \in Bonds, answered \in BOOLEAN : ReadCandidate(l, b, answered)
  <2>1. PICK b \in Bonds, answered \in BOOLEAN : ReadCandidate(l, b, answered)
    BY <1>6
  <2> DEFINE answer == ReadAnswer(b, answered)
             settled == b \in load.settled
             unread == ~ answered
             got == Seen(LogScan, answer, settled, unread)
             rest == load.todo \ {b}
             next == [load EXCEPT !.todo = rest, !.found = [load.found EXCEPT ![b] = got]]
  <2>2. /\ loads' = [loads EXCEPT ![l] = next] /\ load.phase = "reading"
        /\ UNCHANGED <<account, records, due, polls>>
    BY <2>1 DEF ReadCandidate
  <2>3. /\ got \in BondRecord
        /\ got.state <= chain[b].state
        /\ got.settlement => chain[b].state = Settled
    <3>1. answer \in States /\ answer <= chain[b].state
      BY <1>1 DEF ReadAnswer, Chain, States, Absent, Finalized, Settled
    <3>2. settled => chain[b].state = Settled
      BY <1>1 DEF LoadBacked
    <3>3. settled \in BOOLEAN /\ unread \in BOOLEAN
      OBVIOUS
    <3> HIDE DEF answer, settled, unread
    <3>4. got \in BondRecord /\ got.state = answer /\ got.settlement = settled
      BY <3>1, <3>3 DEF Seen, BondRecord, States, LogScan
    <3> QED BY <3>1, <3>2, <3>4
  <2>4. rest \in SUBSET Bonds
    BY <1>1 DEF LoadTyped, Load
  <2> HIDE DEF got, rest
  <2>6. /\ LoadTyped(next) /\ next.settled = load.settled
        /\ next.live = load.live /\ next.phase = load.phase
        /\ \A c \in Bonds : next.found[c] = IF c = b THEN got ELSE load.found[c]
    <3>1. LoadTyped(load)
      BY <1>1
    <3> HIDE DEF load
    <3> QED BY <2>3, <2>4, <3>1 DEF LoadTyped, Load, Rows
  <2> HIDE DEF next
  <2>7. LoadBacked(next, chain)
    BY <1>1, <2>3, <2>6 DEF LoadBacked, Backed
  <2> QED BY <1>1, <2>2, <2>6, <2>7, LoadStepKeeps
<1> QED BY <1>2, <1>3, <1>4, <1>5, <1>6

LEMMA PollActionKeeps ==
    ASSUME ListInv, UNCHANGED chainVars, NEW p \in Polls,
           \/ StartPoll(p) \/ ApplyPoll(p)
           \/ \E b \in Bonds, answered \in BOOLEAN : PollRead(p, b, answered)
    PROVE  ListInv'
<1> DEFINE poll == polls[p]
<1>1. /\ Typed /\ AllBacked /\ Connected /\ chain \in Chain
      /\ PollTyped(poll) /\ Backed(poll.got, chain)
      /\ poll.busy => account # NoAccount
      /\ loads = [l \in Loads |-> loads[l]] /\ polls = [q \in Polls |-> polls[q]]
  BY DEF ListInv, Typed, AllBacked, Connected
<1>2. CASE StartPoll(p)
  <2> DEFINE ids == Held(records)
             begun == [NoPoll EXCEPT !.busy = TRUE, !.ids = ids]
  <2>1. /\ polls' = [polls EXCEPT ![p] = begun] /\ account # NoAccount
        /\ UNCHANGED <<account, records, loads, due>>
    BY <1>2 DEF StartPoll
  <2>2. ids \in SUBSET Bonds
    BY DEF Held
  <2> HIDE DEF ids
  <2>3. PollTyped(begun) /\ begun.got = NoRecords
    BY <2>2, NoRecordsTyped DEF PollTyped, NoPoll
  <2>4. Backed(begun.got, chain)
    BY <1>1, <2>3, Empties
  <2> HIDE DEF begun
  <2> QED BY <2>1, <2>3, <2>4, PollStepKeeps
<1>3. CASE ApplyPoll(p)
  <2> DEFINE running == [polls EXCEPT ![p] = NoPoll]
  <2>1. /\ poll.busy /\ Show(MergeBondRecords(records, poll.got), running)
        /\ UNCHANGED <<account, loads, due>>
    BY <1>3 DEF ApplyPoll
  <2>2. /\ running = [q \in Polls |-> running[q]]
        /\ \A q \in Polls : running[q] = polls[q] \/ running[q] = NoPoll
    BY <1>1
  <2>3. /\ loads' = [l \in Loads |-> loads'[l]]
        /\ \A l \in Loads : loads'[l] = loads[l]
    BY <1>1, <2>1
  <2>4. poll.got \in Rows /\ account # NoAccount
    BY <1>1, <2>1 DEF PollTyped
  <2> HIDE DEF running, poll
  <2> QED BY <1>1, <2>1, <2>2, <2>3, <2>4, ShownKeeps
<1>4. CASE \E b \in Bonds, answered \in BOOLEAN : PollRead(p, b, answered)
  <2>1. PICK b \in Bonds, answered \in BOOLEAN : PollRead(p, b, answered)
    BY <1>4
  <2> DEFINE got == IF answered THEN Seen(Storage, chain[b].state, FALSE, FALSE) ELSE NoRecord
             rest == poll.ids \ {b}
             next == [poll EXCEPT !.ids = rest, !.got[b] = got]
  <2>2. UNCHANGED <<account, records, loads, due>>
    BY <2>1 DEF PollRead
  <2>3. polls' = [polls EXCEPT ![p] = next]
    <3>1. polls' = [polls EXCEPT ![p].ids = @ \ {b}, ![p].got[b] = got]
      BY <2>1 DEF PollRead
    <3> HIDE DEF got
    <3> QED BY <1>1, <3>1
  <2>4. /\ got \in BondRecord /\ got.settlement = FALSE
        /\ got.state <= chain[b].state
    BY <1>1 DEF Seen, NoRecord, None, Storage, BondRecord, Chain, States, Absent, Finalized, Settled
  <2> HIDE DEF got
  <2>5. /\ PollTyped(next) /\ next.busy = poll.busy
        /\ \A c \in Bonds : next.got[c] = IF c = b THEN got ELSE poll.got[c]
    BY <1>1, <2>4 DEF PollTyped, Rows
  <2> HIDE DEF next, poll
  <2>6. Backed(next.got, chain)
    BY <1>1, <2>4, <2>5 DEF Backed
  <2> QED BY <1>1, <2>2, <2>3, <2>5, <2>6, PollStepKeeps
<1> QED BY <1>2, <1>3, <1>4

LEMMA InitList == Init => ListInv
<1> SUFFICES ASSUME Init PROVE ListInv
  OBVIOUS
<1>1. block = 0 /\ account = NoAccount /\ ~ due /\ records = NoRecords
  BY DEF Init
<1>2. chain \in Chain
  BY DEF Init, Chain, States
<1>3. /\ loads = [l \in Loads |-> loads[l]] /\ polls = [p \in Polls |-> polls[p]]
      /\ \A l \in Loads : loads[l] = NoLoad
      /\ \A p \in Polls : polls[p] = NoPoll
  BY DEF Init, NoPolls
<1>4. Typed
  BY <1>1, <1>2, <1>3, Empties DEF Typed
<1>5. AllBacked
  BY <1>1, <1>2, <1>3, Empties DEF AllBacked
<1>6. Connected /\ ReadingIsLive
  BY <1>1, <1>2, <1>3, Empties DEF Connected, ReadingIsLive
<1> QED BY <1>4, <1>5, <1>6 DEF ListInv

LEMMA StoreStepKeeps ==
    ASSUME ListInv, Remembered, StoreStep
    PROVE  ListInv'
<1>1. UNCHANGED chainVars /\ Typed /\ AllBacked
  BY DEF StoreStep, ListInv
<1>2. ASSUME NEW a \in Accounts \union {NoAccount}, SwitchAccount(a)
      PROVE  ListInv'
  BY <1>1, <1>2, EmptiedKeeps DEF SwitchAccount
<1>3. ASSUME NEW b \in Bonds, AddDiscoveredBond(b)
      PROVE  ListInv'
  BY <1>1, <1>3, DiscoveryKeeps
<1>4. CASE Refresh
  <2>1. records \in Rows /\ Backed(records, chain)
    BY <1>1 DEF Typed, AllBacked
  <2> QED BY <1>1, <1>4, <2>1, ShowAndReloadKeeps DEF Refresh
<1>5. CASE LoadTimer
  <2>1. /\ account # NoAccount /\ UNCHANGED <<account, records, loads, polls, block, chain>>
    BY <1>1, <1>5 DEF LoadTimer, chainVars
  <2> QED BY <1>1, <2>1 DEF ListInv, Typed, AllBacked, Connected, ReadingIsLive
<1>6. ASSUME NEW l \in Loads,
             \/ StartLoad(l) \/ EndScan(l) \/ ApplyLoad(l) \/ FailLoad(l)
             \/ \E b \in Bonds, answered \in BOOLEAN : ReadCandidate(l, b, answered)
      PROVE  ListInv'
  BY <1>1, <1>6, LoadActionKeeps
<1>7. ASSUME NEW p \in Polls,
             \/ StartPoll(p) \/ ApplyPoll(p)
             \/ \E b \in Bonds, answered \in BOOLEAN : PollRead(p, b, answered)
      PROVE  ListInv'
  BY <1>1, <1>7, PollActionKeeps
<1> QED BY <1>2, <1>3, <1>4, <1>5, <1>6, <1>7 DEF StoreStep

(* A settlement receipt is told to the list: the hook settled the bond.    *)
LEMMA OnlyFacts ==
    ASSUME chain \in Chain, NEW b \in Bonds, NEW seen \in BondRecord,
           seen.state <= chain[b].state, seen.settlement => chain[b].state = Settled
    PROVE  Only(b, seen) \in Rows /\ Backed(Only(b, seen), chain)
<1>1. Only(b, seen) \in Rows
  BY NoRecordsTyped DEF Only, Rows
<1>2. \A c \in Bonds : Only(b, seen)[c] = IF c = b THEN seen ELSE NoRecord
  BY DEF Only, NoRecords
<1>3. \A c \in Bonds : Absent <= chain[c].state
  BY DEF Chain, States, Absent, Finalized, Settled
<1>4. NoRecord.state = Absent /\ NoRecord.settlement = FALSE
  BY DEF NoRecord, Seen
<1> QED BY <1>1, <1>2, <1>3, <1>4 DEF Backed

LEMMA ReceiptRecord ==
    ASSUME ListInv, NEW b \in Bonds, NEW settlement \in BOOLEAN, chain[b].state = Settled
    PROVE  /\ Only(b, SettledFromReceipt(records[b], settlement)) \in Rows
           /\ Backed(Only(b, SettledFromReceipt(records[b], settlement)), chain)
<1> DEFINE seen == SettledFromReceipt(records[b], settlement)
<1>1. seen \in BondRecord /\ seen.state <= chain[b].state
  BY DEF SettledFromReceipt, Seen, BondRecord, Receipt, Absent, Finalized, Settled
<1>2. chain \in Chain
  BY DEF ListInv, Typed
<1> HIDE DEF seen
<1>3. Only(b, seen) \in Rows /\ Backed(Only(b, seen), chain)
  BY <1>1, <1>2, OnlyFacts
<1> QED BY <1>3 DEF seen

LEMMA ReceiptKeeps ==
    ASSUME ListInv, NEW b \in Bonds, NEW settlement \in BOOLEAN, chain[b].state = Settled,
           MarkSettledFromReceipt(b, settlement), UNCHANGED <<chainVars, account>>
    PROVE  ListInv'
<1> DEFINE seen == Only(b, SettledFromReceipt(records[b], settlement))
<1>1. seen \in Rows /\ Backed(seen, chain)
  BY ReceiptRecord
<1>2. ShowAndReload(MergeBondRecords(records, seen))
  BY DEF MarkSettledFromReceipt
<1>3. records \in Rows /\ Backed(records, chain)
  BY DEF ListInv, Typed, AllBacked
<1> HIDE DEF seen
<1>4. MergeBondRecords(records, seen) \in Rows /\ Backed(MergeBondRecords(records, seen), chain)
  BY <1>1, <1>3, RowsMerge
<1> QED BY <1>2, <1>4, ShowAndReloadKeeps

LEMMA AgainKeeps ==
    ASSUME ListInv, ShowAndReload(records), UNCHANGED <<chainVars, account>>
    PROVE  ListInv'
<1>1. records \in Rows /\ Backed(records, chain)
  BY DEF ListInv, Typed, AllBacked
<1> QED BY <1>1, ShowAndReloadKeeps

-------------------------------------------------------------------------------
(* The rest of the store: its shapes, and the index, which forgets nothing *)
(* it has room for.                                                        *)

Shapes ==
    /\ Remembered
    /\ awaited \subseteq Bonds
    /\ due \in BOOLEAN
    /\ historyFailures \in Nat
    /\ refreshes \in Nat

Recalled == \A b \in Range(index) : b \in Range(index') \/ Len(index') = MAX_INDEX

LEMMA DiscoveryRemembers ==
    ASSUME Remembered, NEW b \in Bonds, b \notin Range(index), index' = Stored(<<b>> \o index)
    PROVE  Remembered' /\ Recalled
<1> DEFINE entries == <<b>> \o index
           n == Len(index)
<1>1. /\ index \in Seq(Bonds) /\ n \in Nat
      /\ \A i, j \in 1..n : index[i] = index[j] => i = j
      /\ \A i \in 1..n : index[i] # b
  BY DEF Remembered, IsInjective, Range
<1>2. <<b>> \in Seq(Bonds) /\ Len(<<b>>) = 1 /\ <<b>>[1] = b
  OBVIOUS
<1>3. /\ entries \in Seq(Bonds) /\ Len(entries) = 1 + n
      /\ \A i \in 1..(1 + n) : entries[i] = IF i <= 1 THEN <<b>>[i] ELSE index[i - 1]
  BY <1>1, <1>2, ConcatProperties
<1> HIDE DEF entries, n
<1>4. entries[1] = b
  BY <1>1, <1>2, <1>3
<1>5. ASSUME NEW i \in 1..(1 + n), i # 1
      PROVE  i - 1 \in 1..n /\ entries[i] = index[i - 1]
  <2>1. i - 1 \in 1..n /\ ~ (i <= 1)
    BY <1>1, <1>5
  <2> QED BY <1>3, <2>1
<1>6. ASSUME NEW i \in 1..(1 + n), NEW j \in 1..(1 + n), entries[i] = entries[j]
      PROVE  i = j
  <2>1. CASE i = 1 \/ j = 1
    BY <1>1, <1>4, <1>5, <1>6, <2>1
  <2>2. CASE i # 1 /\ j # 1
    <3>1. i - 1 = j - 1
      BY <1>1, <1>5, <1>6, <2>2
    <3> QED BY <1>1, <3>1
  <2> QED BY <2>1, <2>2
<1>7. IsInjective(entries)
  BY <1>1, <1>3, <1>6 DEF IsInjective
<1>8. ASSUME NEW c \in Range(index)
      PROVE  c \in Range(entries)
  <2>1. PICK i \in 1..n : index[i] = c
    BY <1>1 DEF Range, n
  <2>2. 1 + i \in 1..(1 + n) /\ 1 + i # 1 /\ (1 + i) - 1 = i
    BY <1>1
  <2>3. entries[1 + i] = index[(1 + i) - 1]
    BY <1>5, <2>2
  <2>4. 1..(1 + n) = DOMAIN entries
    BY <1>1, <1>3
  <2> QED BY <2>1, <2>2, <2>3, <2>4 DEF Range
<1>9. index' = Stored(entries)
  BY DEF entries
<1> QED BY <1>3, <1>7, <1>8, <1>9, StoredFacts DEF Remembered, Recalled

LEMMA SweepRemembers ==
    ASSUME ListInv, Remembered, NEW l \in Loads, EndScan(l)
    PROVE  Remembered' /\ Recalled
<1>1. PICK merged \in MergedIndexes(loads[l], index) : index' = Stored(merged)
  BY DEF EndScan
<1>2. loads[l].opened \in SUBSET Bonds
  BY DEF ListInv, Typed, LoadTyped, Load
<1> DEFINE load == loads[l]
<1> HIDE DEF load
<1>3. load.opened \in SUBSET Bonds /\ merged \in MergedIndexes(load, index)
  BY <1>1, <1>2 DEF load
<1>4. /\ merged \in Seq(Bonds) /\ IsInjective(merged)
      /\ \A b \in Range(index) : b \in Range(merged)
  BY <1>3, MergedFacts
<1> QED BY <1>1, <1>4, StoredFacts DEF Remembered, Recalled

LEMMA SameRemembered ==
    ASSUME Remembered, index' = index
    PROVE  Remembered' /\ Recalled
BY DEF Remembered, Recalled, Range

LEMMA StoreStepShapes ==
    ASSUME ListInv, Shapes, StoreStep
    PROVE  Shapes' /\ Recalled
<1>1. Remembered /\ account \in Accounts \union {NoAccount}
  BY DEF Shapes, ListInv, Typed
<1>2. ASSUME NEW a \in Accounts \union {NoAccount}, SwitchAccount(a)
      PROVE  Shapes' /\ Recalled
  BY <1>1, <1>2, SameRemembered DEF SwitchAccount, Shapes
<1>3. ASSUME NEW b \in Bonds, AddDiscoveredBond(b)
      PROVE  Shapes' /\ Recalled
  <2>1. index' = index \/ (b \notin Range(index) /\ index' = Stored(<<b>> \o index))
    BY <1>3 DEF AddDiscoveredBond
  <2>2. Remembered' /\ Recalled
    BY <1>1, <2>1, SameRemembered, DiscoveryRemembers
  <2> QED BY <1>3, <2>2 DEF AddDiscoveredBond, ShowAndReload, Shapes
<1>4. CASE Refresh
  BY <1>1, <1>4, SameRemembered DEF Refresh, ShowAndReload, Shapes
<1>5. CASE LoadTimer
  BY <1>1, <1>5, SameRemembered DEF LoadTimer, Shapes
<1>6. ASSUME NEW l \in Loads, EndScan(l)
      PROVE  Shapes' /\ Recalled
  BY <1>1, <1>6, SweepRemembers DEF EndScan, Shapes
<1>7. ASSUME NEW l \in Loads,
             \/ StartLoad(l) \/ ApplyLoad(l) \/ FailLoad(l)
             \/ \E b \in Bonds, answered \in BOOLEAN : ReadCandidate(l, b, answered)
      PROVE  Shapes' /\ Recalled
  <2>1. index' = index /\ awaited' = awaited /\ refreshes' = refreshes
    BY <1>7 DEF StartLoad, ApplyLoad, FailLoad, ReadCandidate
  <2>2. due' \in BOOLEAN /\ historyFailures' \in Nat
    <3>1. CASE FailLoad(l)
      BY <3>1 DEF FailLoad, Shapes
    <3>2. CASE StartLoad(l)
      BY <3>2 DEF StartLoad, Shapes
    <3>3. CASE ApplyLoad(l)
      BY <3>3 DEF ApplyLoad, Shapes
    <3>4. CASE \E b \in Bonds, answered \in BOOLEAN : ReadCandidate(l, b, answered)
      BY <3>4 DEF ReadCandidate, Shapes
    <3> QED BY <1>7, <3>1, <3>2, <3>3, <3>4
  <2> QED BY <1>1, <2>1, <2>2, SameRemembered DEF Shapes
<1>8. ASSUME NEW p \in Polls,
             \/ StartPoll(p) \/ ApplyPoll(p)
             \/ \E b \in Bonds, answered \in BOOLEAN : PollRead(p, b, answered)
      PROVE  Shapes' /\ Recalled
  <2>1. UNCHANGED <<index, awaited, refreshes, due, historyFailures>>
    BY <1>8 DEF StartPoll, ApplyPoll, PollRead
  <2> QED BY <1>1, <2>1, SameRemembered DEF Shapes
<1> QED BY <1>2, <1>3, <1>4, <1>5, <1>6, <1>7, <1>8 DEF StoreStep

-------------------------------------------------------------------------------
(* The screen: nothing is shown of an attempt but what its transaction and *)
(* the hook bear out.                                                      *)

Attempt ==
    [phase : {"none", "preflight", "estimate", "signing", "submitted", "readback", "done"},
     bond : Bonds, mounted : BOOLEAN, tx : {"none", "pending", "succeeded", "reverted"}]

Screen ==
    [state : {"idle", "preflight", "submitted", "success", "error"},
     shown : SUBSET Attempts, note : {"none", "already", "confirming", "unread"}]

Failed(r) == r.phase = "done" /\ r.tx \in {"none", "reverted"}

(* A transaction is sent after the wallet signed, its receipt is read only *)
(* when it succeeded, and one that succeeded settled its bond.             *)
AttemptOK(r, ch) ==
    /\ r.phase \in {"none", "preflight", "estimate", "signing"} => r.tx = "none"
    /\ r.phase = "readback" => r.tx = "succeeded"
    /\ r.tx = "succeeded" => ch[r.bond].state = Settled

Borne(state, r, ch) ==
    /\ state = "error" => Failed(r)
    /\ state = "success" => ch[r.bond].state = Settled

ScreenInv ==
    /\ attempts \in [Attempts -> Attempt]
    /\ screen \in Screen
    /\ \A t \in Attempts : AttemptOK(attempts[t], chain)
    /\ \A t \in screen.shown : Borne(screen.state, attempts[t], chain)

IInv == ListInv /\ Shapes /\ ScreenInv

HookKeeps == \A b \in Bonds : chain[b].state = Settled => chain'[b].state = Settled

(* The hook moves on, the screen and its attempts do not. *)
LEMMA ScreenWaits ==
    ASSUME ScreenInv, UNCHANGED screenVars, HookKeeps
    PROVE  ScreenInv'
<1>1. attempts' = attempts /\ screen' = screen
  BY DEF screenVars
<1>2. \A t \in Attempts : attempts[t].bond \in Bonds
  BY DEF ScreenInv, Attempt
<1>3. screen.shown \in SUBSET Attempts
  BY DEF ScreenInv, Screen
<1>4. \A t \in Attempts : AttemptOK(attempts[t], chain')
  BY <1>2 DEF ScreenInv, AttemptOK, HookKeeps
<1>5. \A t \in screen.shown : Borne(screen.state, attempts[t], chain')
  BY <1>2, <1>3 DEF ScreenInv, Borne, HookKeeps
<1> QED BY <1>1, <1>4, <1>5 DEF ScreenInv

(* One attempt moves on; the screen stays as it is, or shows that one.     *)
LEMMA AttemptMoves ==
    ASSUME ScreenInv, NEW t \in Attempts, NEW r \in Attempt,
           attempts' = [attempts EXCEPT ![t] = r], AttemptOK(r, chain'), HookKeeps,
           screen' \in Screen,
           \/ /\ screen'.state = screen.state /\ screen'.shown = screen.shown
              /\ r.bond = attempts[t].bond
              /\ Failed(attempts[t]) => Failed(r)
           \/ /\ screen'.shown = {t} /\ Borne(screen'.state, r, chain')
    PROVE  ScreenInv'
<1>1. /\ attempts \in [Attempts -> Attempt] /\ attempts' \in [Attempts -> Attempt]
      /\ attempts'[t] = r
      /\ \A u \in Attempts : u # t => attempts'[u] = attempts[u]
  BY DEF ScreenInv
<1>2. \A u \in Attempts : attempts[u].bond \in Bonds
  BY <1>1 DEF Attempt
<1>3. \A u \in Attempts : AttemptOK(attempts'[u], chain')
  BY <1>1, <1>2 DEF ScreenInv, AttemptOK, HookKeeps
<1>4. ASSUME NEW u \in screen'.shown
      PROVE  Borne(screen'.state, attempts'[u], chain')
  <2>1. CASE screen'.shown = {t} /\ Borne(screen'.state, r, chain')
    BY <1>1, <1>4, <2>1
  <2>2. CASE /\ screen'.state = screen.state /\ screen'.shown = screen.shown
             /\ r.bond = attempts[t].bond
             /\ Failed(attempts[t]) => Failed(r)
    <3>1. u \in Attempts /\ Borne(screen.state, attempts[u], chain)
      BY <1>4, <2>2 DEF ScreenInv, Screen
    <3>2. attempts'[u].bond = attempts[u].bond /\ (Failed(attempts[u]) => Failed(attempts'[u]))
      BY <1>1, <2>2, <3>1
    <3> QED BY <1>2, <2>2, <3>1, <3>2 DEF Borne, HookKeeps
  <2> QED BY <2>1, <2>2
<1> QED BY <1>1, <1>3, <1>4 DEF ScreenInv

(* The usual step of an attempt: its phase and its transaction.            *)
Moved(t, phase, tx) ==
    attempts' = [attempts EXCEPT ![t] = [attempts[t] EXCEPT !.phase = phase, !.tx = tx]]

(* What an attempt may leave on the screen. *)
Displayed(t, phase, tx) ==
    \/ screen' = screen
    \/ /\ screen' \in Screen /\ screen'.shown = {t}
       /\ screen'.state = "error" => phase = "done" /\ tx \in {"none", "reverted"}
       /\ screen'.state = "success" => chain'[attempts[t].bond].state = Settled
    \/ screen' \in Screen /\ screen'.state = screen.state /\ screen'.shown = screen.shown

LEMMA AttemptGoes ==
    ASSUME ScreenInv, NEW t \in Attempts, NEW phase, NEW tx,
           phase \in {"preflight", "estimate", "signing", "submitted", "readback", "done"},
           tx \in {"none", "pending", "succeeded", "reverted"},
           Moved(t, phase, tx),
           phase \in {"preflight", "estimate", "signing"} => tx = "none",
           phase = "readback" => tx = "succeeded",
           tx = "succeeded" => chain'[attempts[t].bond].state = Settled,
           Failed(attempts[t]) => phase = "done" /\ tx \in {"none", "reverted"},
           HookKeeps, Displayed(t, phase, tx)
    PROVE  ScreenInv'
<1> DEFINE here == attempts[t]
           r == [here EXCEPT !.phase = phase, !.tx = tx]
<1>1. here \in Attempt /\ screen \in Screen
  BY DEF ScreenInv
<1>2. attempts' = [attempts EXCEPT ![t] = r]
  BY DEF Moved
<1> HIDE DEF here
<1>3. r \in Attempt /\ r.bond = here.bond /\ r.phase = phase /\ r.tx = tx
  BY <1>1 DEF Attempt
<1> HIDE DEF r
<1>4. AttemptOK(r, chain')
  BY <1>3 DEF AttemptOK, here
<1>5. Failed(here) => Failed(r)
  BY <1>3 DEF Failed, here
<1>6. \/ /\ screen'.state = screen.state /\ screen'.shown = screen.shown /\ screen' \in Screen
         /\ r.bond = here.bond
         /\ Failed(here) => Failed(r)
      \/ /\ screen'.shown = {t} /\ Borne(screen'.state, r, chain') /\ screen' \in Screen
  BY <1>1, <1>3, <1>5 DEF Borne, Failed, here, Displayed
<1> QED BY <1>2, <1>3, <1>4, <1>6, AttemptMoves DEF here

LEMMA Moves ==
    ASSUME ScreenInv, NEW t \in Attempts
    PROVE  /\ \A phase : Goes(t, phase) => Moved(t, phase, attempts[t].tx)
           /\ \A phase, tx : attempts' = [attempts EXCEPT ![t].phase = phase, ![t].tx = tx]
                                => Moved(t, phase, tx)
           /\ \A tx : attempts' = [attempts EXCEPT ![t].tx = tx]
                         => Moved(t, attempts[t].phase, tx)
<1>1. attempts \in [Attempts -> Attempt] /\ attempts[t] \in Attempt
  BY DEF ScreenInv
<1>2. \A phase : [attempts[t] EXCEPT !.phase = phase] =
                 [attempts[t] EXCEPT !.phase = phase, !.tx = attempts[t].tx]
  BY <1>1 DEF Attempt
<1>3. \A tx : [attempts[t] EXCEPT !.tx = tx] =
              [attempts[t] EXCEPT !.phase = attempts[t].phase, !.tx = tx]
  BY <1>1 DEF Attempt
<1>4. \A phase, tx : [attempts EXCEPT ![t].phase = phase, ![t].tx = tx] =
                     [attempts EXCEPT ![t] = [attempts[t] EXCEPT !.phase = phase, !.tx = tx]]
  BY <1>1
<1> QED BY <1>1, <1>2, <1>3, <1>4 DEF Goes, Moved

(* What a setState of an attempt leaves on the screen. *)
LEMMA Shows ==
    ASSUME ScreenInv, NEW t \in Attempts, NEW state, NEW note,
           state \in {"idle", "preflight", "submitted", "success", "error"},
           note \in {"none", "already", "confirming", "unread"},
           ScreenShows(t, state, note)
    PROVE  \/ screen' = screen
           \/ screen' \in Screen /\ screen'.shown = {t} /\ screen'.state = state
BY DEF ScreenShows, Screen

LEMMA Stays ==
    ASSUME UNCHANGED chain
    PROVE  HookKeeps
BY DEF HookKeeps

LEMMA Here ==
    ASSUME ScreenInv, NEW t \in Attempts
    PROVE  /\ attempts[t] \in Attempt /\ attempts[t].bond \in Bonds
           /\ attempts[t].tx \in {"none", "pending", "succeeded", "reverted"}
           /\ attempts[t].phase \in {"none", "preflight", "estimate", "signing", "submitted",
                                     "readback", "done"}
           /\ attempts[t].phase \in {"none", "preflight", "estimate", "signing"}
                 => attempts[t].tx = "none"
           /\ attempts[t].phase = "readback" => attempts[t].tx = "succeeded"
           /\ attempts[t].tx = "succeeded" => chain[attempts[t].bond].state = Settled
BY DEF ScreenInv, AttemptOK, Attempt

LEMMA PressKeeps ==
    ASSUME ScreenInv, NEW t \in Attempts, NEW b \in Bonds, Press(t, b)
    PROVE  ScreenInv'
<1> DEFINE r == [phase |-> "preflight", bond |-> b, mounted |-> TRUE, tx |-> "none"]
<1>1. attempts' = [attempts EXCEPT ![t] = r] /\ UNCHANGED chain
      /\ screen' = [state |-> "preflight", shown |-> {t}, note |-> "none"]
  BY DEF Press, vars, chainVars
<1>2. r \in Attempt /\ AttemptOK(r, chain') /\ Borne("preflight", r, chain')
  BY DEF Attempt, AttemptOK, Borne
<1>3. screen' \in Screen /\ screen'.shown = {t} /\ screen'.state = "preflight"
  BY <1>1 DEF Screen
<1> HIDE DEF r
<1> QED BY <1>1, <1>2, <1>3, Stays, AttemptMoves

LEMMA PreflightKeeps ==
    ASSUME ScreenInv, NEW t \in Attempts, PreflightAnswers(t)
    PROVE  ScreenInv'
<1> DEFINE check == Preflight(attempts[t].bond)
<1>1. attempts[t].phase = "preflight" /\ attempts[t].tx = "none" /\ UNCHANGED chain
  BY Here DEF PreflightAnswers, vars, chainVars
<1>2. ~ Failed(attempts[t])
  BY <1>1 DEF Failed
<1>3. CASE check = "ok"
  <2>1. Moved(t, "estimate", "none") /\ screen' = screen
    BY <1>1, <1>3, Moves DEF PreflightAnswers
  <2> QED BY <1>1, <1>2, <2>1, Stays, AttemptGoes DEF Displayed
<1>4. CASE check = "alreadySettled"
  <2>1. Moved(t, "done", "none") /\ ScreenShows(t, "success", "already")
    BY <1>1, <1>4, Moves DEF PreflightAnswers
  <2>2. chain[attempts[t].bond].state = Settled
    BY <1>4 DEF Preflight
  <2>3. \/ screen' = screen
        \/ screen' \in Screen /\ screen'.shown = {t} /\ screen'.state = "success"
    BY <2>1, Shows
  <2> QED BY <1>1, <1>2, <2>1, <2>2, <2>3, Stays, AttemptGoes DEF Displayed
<1>5. CASE check \notin {"ok", "alreadySettled"}
  <2>1. Moved(t, "done", "none") /\ ScreenShows(t, "error", "none")
    BY <1>1, <1>5, Moves DEF PreflightAnswers
  <2>2. \/ screen' = screen
        \/ screen' \in Screen /\ screen'.shown = {t} /\ screen'.state = "error"
    BY <2>1, Shows
  <2> QED BY <1>1, <1>2, <2>1, <2>2, Stays, AttemptGoes DEF Displayed
<1> QED BY <1>3, <1>4, <1>5

LEMMA BeforeSendingKeeps ==
    ASSUME ScreenInv, NEW t \in Attempts, FailsBeforeSending(t) \/ Estimate(t) \/ Sign(t)
    PROVE  ScreenInv'
<1>1. /\ attempts[t].phase \in {"preflight", "estimate", "signing"} /\ attempts[t].tx = "none"
      /\ UNCHANGED chain
  BY Here DEF FailsBeforeSending, Estimate, Sign, vars, chainVars
<1>2. ~ Failed(attempts[t])
  BY <1>1 DEF Failed
<1>3. CASE FailsBeforeSending(t)
  <2>1. Moved(t, "done", "none") /\ ScreenShows(t, "error", "none")
    BY <1>1, <1>3, Moves DEF FailsBeforeSending
  <2>2. \/ screen' = screen
        \/ screen' \in Screen /\ screen'.shown = {t} /\ screen'.state = "error"
    BY <2>1, Shows
  <2> QED BY <1>1, <1>2, <2>1, <2>2, Stays, AttemptGoes DEF Displayed
<1>4. CASE Estimate(t)
  <2>1. Moved(t, "signing", "none") /\ screen' = screen
    BY <1>1, <1>4, Moves DEF Estimate
  <2> QED BY <1>1, <1>2, <2>1, Stays, AttemptGoes DEF Displayed
<1>5. CASE Sign(t)
  <2>1. Moved(t, "submitted", "pending") /\ ScreenShows(t, "submitted", "none")
    BY <1>5, Moves DEF Sign
  <2>2. \/ screen' = screen
        \/ screen' \in Screen /\ screen'.shown = {t} /\ screen'.state = "submitted"
    BY <2>1, Shows
  <2> QED BY <1>1, <1>2, <2>1, <2>2, Stays, AttemptGoes DEF Displayed
<1> QED BY <1>3, <1>4, <1>5

LEMMA MiningKeeps ==
    ASSUME ListInv, ScreenInv, NEW t \in Attempts, Mine(t)
    PROVE  /\ ScreenInv'
           /\ UNCHANGED <<account, records, due, loads, polls>>
           /\ block' \in Nat /\ chain' \in Chain /\ Grows
<1> DEFINE b == attempts[t].bond
<1>1. /\ attempts[t].tx = "pending" /\ b \in Bonds
      /\ attempts[t].phase \in {"submitted", "done"}
      /\ UNCHANGED <<block, storeVars, screen>>
  BY Here DEF Mine
<1>2. ~ Failed(attempts[t]) /\ chain \in Chain /\ block \in Nat
  BY <1>1 DEF Failed, ListInv, Typed
<1>3. CASE Mature(b)
  <2>1. SettleOnChain(b) /\ Moved(t, attempts[t].phase, "succeeded")
    BY <1>3, Moves DEF Mine
  <2>2. chain' \in Chain /\ Grows /\ chain'[b].state = Settled
    BY <1>1, <1>2, <2>1, SettlingGrows
  <2>3. ScreenInv'
    BY <1>1, <1>2, <2>1, <2>2, AttemptGoes DEF Displayed, Grows, HookKeeps
  <2> QED BY <1>1, <1>2, <2>2, <2>3 DEF storeVars
<1>4. CASE ~ Mature(b)
  <2>1. UNCHANGED chain /\ Moved(t, attempts[t].phase, "reverted")
    BY <1>4, Moves DEF Mine
  <2>2. \A c \in Bonds : chain[c].state >= chain[c].state
    BY <1>2 DEF Chain, States, Absent, Finalized, Settled
  <2>3. Grows
    BY <2>1, <2>2 DEF Grows
  <2>4. ScreenInv'
    BY <1>1, <1>2, <2>1, Stays, AttemptGoes DEF Displayed
  <2> QED BY <1>1, <1>2, <2>1, <2>3, <2>4 DEF storeVars
<1> QED BY <1>3, <1>4

LEMMA ReceiptScreenKeeps ==
    ASSUME ScreenInv, NEW t \in Attempts,
           ReceiptArrives(t) \/ ReceiptUnavailable(t)
    PROVE  ScreenInv'
<1>1. attempts[t].phase = "submitted" /\ UNCHANGED chain
  BY DEF ReceiptArrives, ReceiptUnavailable, vars, chainVars
<1>2. ~ Failed(attempts[t])
  BY <1>1 DEF Failed
<1>3. CASE ReceiptArrives(t) /\ ReceiptSucceeded(t)
  <2>1. /\ attempts[t].tx = "succeeded" /\ chain[attempts[t].bond].state = Settled
        /\ Moved(t, "readback", "succeeded") /\ ScreenShows(t, "success", "none")
    BY <1>3, Moves, Here DEF ReceiptArrives, ReceiptSucceeded
  <2>2. \/ screen' = screen
        \/ screen' \in Screen /\ screen'.shown = {t} /\ screen'.state = "success"
    BY <2>1, Shows
  <2> QED BY <1>1, <1>2, <2>1, <2>2, Stays, AttemptGoes DEF Displayed
<1>4. CASE ReceiptArrives(t) /\ ~ ReceiptSucceeded(t)
  <2>1. Moved(t, "done", "reverted") /\ ScreenShows(t, "error", "none")
    BY <1>4, Moves DEF ReceiptArrives, ReceiptSucceeded
  <2>2. \/ screen' = screen
        \/ screen' \in Screen /\ screen'.shown = {t} /\ screen'.state = "error"
    BY <2>1, Shows
  <2> QED BY <1>1, <1>2, <2>1, <2>2, Stays, AttemptGoes DEF Displayed
<1>5. CASE ReceiptUnavailable(t)
  <2>1. Moved(t, "done", attempts[t].tx) /\ ScreenShows(t, "submitted", "unread")
    BY <1>5, Moves DEF ReceiptUnavailable, StateWithoutReceipt
  <2>2. \/ screen' = screen
        \/ screen' \in Screen /\ screen'.shown = {t} /\ screen'.state = "submitted"
    BY <2>1, Shows
  <2> QED BY <1>1, <1>2, <2>1, <2>2, Stays, Here, AttemptGoes DEF Displayed
<1> QED BY <1>3, <1>4, <1>5

LEMMA ReadBackScreenKeeps ==
    ASSUME ScreenInv, NEW t \in Attempts, NEW answered \in BOOLEAN, ReadBack(t, answered)
    PROVE  ScreenInv'
<1>1. /\ attempts[t].phase = "readback" /\ attempts[t].tx = "succeeded" /\ UNCHANGED chain
      /\ chain[attempts[t].bond].state = Settled /\ screen \in Screen
  BY Here DEF ReadBack, chainVars, ScreenInv
<1>2. ~ Failed(attempts[t])
  BY <1>1 DEF Failed
<1>3. Moved(t, "done", "succeeded")
  BY <1>1, Moves DEF ReadBack
<1>4. screen' \in Screen /\ screen'.state = screen.state /\ screen'.shown = screen.shown
  <2>1. \A state, unread : OutcomeNote(state, unread) \in {"none", "confirming"}
    BY DEF OutcomeNote
  <2> DEFINE note == OutcomeNote(IF answered THEN chain[attempts[t].bond].state ELSE Absent,
                                 ~ answered)
  <2>2. note \in {"none", "confirming"}
    BY <2>1
  <2>3. screen' = screen \/ screen' = [screen EXCEPT !.note = note]
    BY DEF ReadBack
  <2> HIDE DEF note
  <2> QED BY <1>1, <2>2, <2>3 DEF Screen
<1> QED BY <1>1, <1>2, <1>3, <1>4, Stays, AttemptGoes DEF Displayed

(* Leaving the screen, and reloading the page, end what is displayed. *)
LEMMA EndedKeeps ==
    ASSUME ScreenInv, UNCHANGED chain,
           screen' = [state |-> "idle", shown |-> {}, note |-> "none"],
           \/ attempts' = [t \in Attempts |-> [attempts[t] EXCEPT !.mounted = FALSE]]
           \/ attempts' = [t \in Attempts |->
                 [attempts[t] EXCEPT !.mounted = FALSE,
                                     !.phase = IF @ = "none" THEN @ ELSE "done"]]
    PROVE  ScreenInv'
<1>1. \A t \in Attempts : attempts[t] \in Attempt /\ AttemptOK(attempts[t], chain)
  BY DEF ScreenInv
<1>2. ASSUME NEW t \in Attempts
      PROVE  attempts'[t] \in Attempt /\ AttemptOK(attempts'[t], chain)
  <2>1. PICK r : r = attempts[t]
    OBVIOUS
  <2>2. \/ attempts'[t] = [r EXCEPT !.mounted = FALSE]
        \/ attempts'[t] = [r EXCEPT !.mounted = FALSE,
                                    !.phase = IF r.phase = "none" THEN r.phase ELSE "done"]
    BY <1>1, <2>1 DEF Attempt
  <2>3. r \in Attempt /\ AttemptOK(r, chain)
    BY <1>1, <2>1
  <2>4. CASE attempts'[t] = [r EXCEPT !.mounted = FALSE]
    BY <2>3, <2>4 DEF Attempt, AttemptOK
  <2>5. CASE attempts'[t] = [r EXCEPT !.mounted = FALSE,
                                      !.phase = IF r.phase = "none" THEN r.phase ELSE "done"]
    BY <2>3, <2>5 DEF Attempt, AttemptOK
  <2> QED BY <2>2, <2>4, <2>5
<1>3. attempts' \in [Attempts -> Attempt]
  <2>1. attempts' = [t \in Attempts |-> attempts'[t]]
    OBVIOUS
  <2> QED BY <1>2, <2>1
<1>4. screen' \in Screen /\ screen'.shown = {}
  BY DEF Screen
<1> QED BY <1>2, <1>3, <1>4 DEF ScreenInv

-------------------------------------------------------------------------------
(* The steps of the screen. *)

LEMMA InitIInv == ScreenInit => IInv
<1> SUFFICES ASSUME ScreenInit PROVE IInv
  OBVIOUS
<1>1. ListInv
  BY InitList DEF ScreenInit
<1>2. Shapes
  <2>1. index = <<>> /\ awaited = {} /\ due = FALSE /\ historyFailures = 0 /\ refreshes = 0
    BY DEF ScreenInit, Init
  <2>2. <<>> \in Seq(Bonds) /\ IsInjective(<<>>) /\ Len(<<>>) <= MAX_INDEX
    BY IndexAssumption DEF IsInjective
  <2> QED BY <2>1, <2>2 DEF Shapes, Remembered
<1>3. ScreenInv
  <2>1. NoAttempt \in Attempt /\ NoAttempt.phase = "none" /\ NoAttempt.tx = "none"
    BY BondsAssumption DEF NoAttempt, Attempt
  <2>2. /\ attempts = [t \in Attempts |-> NoAttempt]
        /\ screen = [state |-> "idle", shown |-> {}, note |-> "none"]
    BY DEF ScreenInit
  <2>3. screen \in Screen /\ screen.shown = {}
    BY <2>2 DEF Screen
  <2>4. AttemptOK(NoAttempt, chain)
    BY <2>1 DEF AttemptOK
  <2> QED BY <2>1, <2>2, <2>3, <2>4 DEF ScreenInv
<1> QED BY <1>1, <1>2, <1>3 DEF IInv

(* An attempt touches the store only by telling it of a receipt, or by     *)
(* asking for the list again.                                              *)
Told(t) ==
    \/ ShowAndReload(records)
    \/ /\ chain[attempts[t].bond].state = Settled
       /\ \E settlement \in BOOLEAN : MarkSettledFromReceipt(attempts[t].bond, settlement)

LEMMA AttemptStepCases ==
    ASSUME ListInv, ScreenInv, NEW t \in Attempts, AttemptStep(t)
    PROVE  /\ ScreenInv'
           /\ \/ UNCHANGED vars
              \/ /\ UNCHANGED <<chainVars, account, index, awaited, historyFailures, refreshes>>
                 /\ Told(t)
              \/ /\ UNCHANGED storeVars
                 /\ block' \in Nat /\ chain' \in Chain /\ Grows
<1>1. CASE \E b \in Bonds : Press(t, b)
  <2>1. PICK b \in Bonds : Press(t, b)
    BY <1>1
  <2> QED BY <2>1, PressKeeps DEF Press
<1>2. CASE PreflightAnswers(t)
  BY <1>2, PreflightKeeps DEF PreflightAnswers, Told
<1>3. CASE FailsBeforeSending(t) \/ Estimate(t) \/ Sign(t)
  BY <1>3, BeforeSendingKeeps DEF FailsBeforeSending, Estimate, Sign
<1>4. CASE Mine(t)
  BY <1>4, MiningKeeps DEF Mine
<1>5. CASE ReceiptArrives(t)
  <2>1. ScreenInv'
    BY <1>5, ReceiptScreenKeeps
  <2>2. CASE ReceiptSucceeded(t)
    <3>1. /\ MarkSettledFromReceipt(attempts[t].bond, FALSE)
          /\ UNCHANGED <<chainVars, account, index, awaited, historyFailures, refreshes>>
      BY <1>5, <2>2 DEF ReceiptArrives
    <3>2. chain[attempts[t].bond].state = Settled
      BY <2>2, Here DEF ReceiptSucceeded
    <3> QED BY <2>1, <3>1, <3>2 DEF Told
  <2>3. CASE ~ ReceiptSucceeded(t)
    BY <1>5, <2>1, <2>3 DEF ReceiptArrives
  <2> QED BY <2>2, <2>3
<1>6. CASE ReceiptUnavailable(t)
  BY <1>6, ReceiptScreenKeeps DEF ReceiptUnavailable
<1>7. CASE \E answered \in BOOLEAN : ReadBack(t, answered)
  <2>1. PICK answered \in BOOLEAN : ReadBack(t, answered)
    BY <1>7
  <2>2. ScreenInv' /\ attempts[t].phase = "readback"
    BY <2>1, ReadBackScreenKeeps DEF ReadBack
  <2>3. chain[attempts[t].bond].state = Settled
    BY <2>2, Here
  <2>4. /\ MarkSettledFromReceipt(attempts[t].bond, TRUE) \/ ShowAndReload(records)
        /\ UNCHANGED <<chainVars, account, index, awaited, historyFailures, refreshes>>
    BY <2>1 DEF ReadBack
  <2> QED BY <2>2, <2>3, <2>4 DEF Told
<1> QED BY <1>1, <1>2, <1>3, <1>4, <1>5, <1>6, <1>7 DEF AttemptStep

LEMMA AttemptStepKeeps ==
    ASSUME IInv, NEW t \in Attempts, AttemptStep(t)
    PROVE  IInv' /\ Recalled
<1>1. ListInv /\ Shapes /\ ScreenInv /\ Remembered
  BY DEF IInv, Shapes
<1>2. ScreenInv'
  BY <1>1, AttemptStepCases
<1>3. CASE UNCHANGED vars
  <2>1. UNCHANGED <<block, chain, account, records, index, awaited, due, loads, polls,
                    historyFailures, refreshes>>
    BY <1>3 DEF vars, chainVars, storeVars
  <2>2. ListInv'
    BY <1>1, <2>1 DEF ListInv, Typed, AllBacked, Connected, ReadingIsLive
  <2>3. Shapes' /\ Recalled
    BY <1>1, <2>1, SameRemembered DEF Shapes
  <2> QED BY <1>2, <2>2, <2>3 DEF IInv
<1>4. CASE /\ UNCHANGED <<chainVars, account, index, awaited, historyFailures, refreshes>>
           /\ Told(t)
  <2>1. attempts[t].bond \in Bonds
    BY <1>1, Here
  <2>2. ListInv'
    BY <1>1, <1>4, <2>1, AgainKeeps, ReceiptKeeps DEF Told
  <2>3. due' \in BOOLEAN
    BY <1>4 DEF Told, MarkSettledFromReceipt, ShowAndReload
  <2>4. Shapes' /\ Recalled
    BY <1>1, <1>4, <2>3, SameRemembered DEF Shapes
  <2> QED BY <1>2, <2>2, <2>4 DEF IInv
<1>5. CASE UNCHANGED storeVars /\ block' \in Nat /\ chain' \in Chain /\ Grows
  <2>1. UNCHANGED <<account, records, index, awaited, due, loads, polls, historyFailures, refreshes>>
    BY <1>5 DEF storeVars
  <2>2. ListInv'
    BY <1>1, <1>5, <2>1, GrowthKeeps
  <2>3. Shapes' /\ Recalled
    BY <1>1, <2>1, SameRemembered DEF Shapes
  <2> QED BY <1>2, <2>2, <2>3 DEF IInv
<1> QED BY <1>1, <1>3, <1>4, <1>5, AttemptStepCases

LEMMA ScreenNextKeeps ==
    ASSUME IInv, ScreenNext
    PROVE  IInv' /\ Recalled
<1>1. ListInv /\ Shapes /\ ScreenInv /\ Remembered /\ Typed
  BY DEF IInv, Shapes, ListInv
<1>2. CASE ChainStep /\ UNCHANGED screenVars
  <2>1. ListInv'
    BY <1>1, <1>2, ChainStepKeeps
  <2>2. /\ UNCHANGED <<account, records, index, due, loads, polls, historyFailures, refreshes>>
        /\ Grows
    BY <1>1, <1>2, ChainStepGrows
  <2>3. awaited' \subseteq Bonds
    BY <1>1, <1>2 DEF ChainStep, NextBlock, OpenBond, StrangerSettles, storeVars, Shapes
  <2>4. Shapes' /\ Recalled
    BY <1>1, <2>2, <2>3, SameRemembered DEF Shapes
  <2>5. ScreenInv'
    BY <1>1, <1>2, <2>2, ScreenWaits DEF Grows, HookKeeps
  <2> QED BY <2>1, <2>4, <2>5 DEF IInv
<1>3. CASE StoreStep /\ UNCHANGED screenVars
  <2>1. ListInv' /\ Shapes' /\ Recalled
    BY <1>1, <1>3, StoreStepKeeps, StoreStepShapes
  <2>2. UNCHANGED chain
    BY <1>3 DEF StoreStep, chainVars
  <2>3. ScreenInv'
    BY <1>1, <1>3, <2>2, Stays, ScreenWaits
  <2> QED BY <2>1, <2>3 DEF IInv
<1>4. CASE \E t \in Attempts : AttemptStep(t)
  BY <1>4, AttemptStepKeeps
<1>5. CASE LeaveScreen
  <2>1. /\ UNCHANGED <<block, chain, account, records, index, awaited, due, loads, polls,
                       historyFailures, refreshes>>
        /\ screen' = [state |-> "idle", shown |-> {}, note |-> "none"]
        /\ attempts' = [t \in Attempts |-> [attempts[t] EXCEPT !.mounted = FALSE]]
    BY <1>5 DEF LeaveScreen, vars, chainVars, storeVars
  <2>2. ListInv'
    BY <1>1, <2>1 DEF ListInv, Typed, AllBacked, Connected, ReadingIsLive
  <2>3. Shapes' /\ Recalled
    BY <1>1, <2>1, SameRemembered DEF Shapes
  <2>4. ScreenInv'
    BY <1>1, <2>1, EndedKeeps
  <2> QED BY <2>2, <2>3, <2>4 DEF IInv
<1>6. CASE ReloadScreen
  <2>1. ReloadPage /\ UNCHANGED chainVars /\ UNCHANGED chain
    BY <1>6 DEF ReloadScreen, chainVars
  <2>2. ListInv'
    BY <1>1, <2>1, EmptiedKeeps DEF ReloadPage
  <2>3. Shapes' /\ Recalled
    BY <1>1, <2>1, SameRemembered DEF ReloadPage, Shapes
  <2>4. ScreenInv'
    BY <1>1, <1>6, <2>1, EndedKeeps DEF ReloadScreen
  <2> QED BY <2>2, <2>3, <2>4 DEF IInv
<1> QED BY <1>2, <1>3, <1>4, <1>5, <1>6 DEF ScreenNext

LEMMA SameIInv ==
    ASSUME IInv, UNCHANGED allVars
    PROVE  IInv'
<1>1. UNCHANGED <<block, chain, account, records, index, awaited, due, loads, polls,
                  historyFailures, refreshes, attempts, screen>>
  BY DEF allVars, vars, chainVars, storeVars, screenVars
<1>2. ListInv'
  BY <1>1 DEF IInv, ListInv, Typed, AllBacked, Connected, ReadingIsLive
<1>3. Shapes'
  BY <1>1 DEF IInv, Shapes, Remembered
<1>4. ScreenInv'
  BY <1>1 DEF IInv, ScreenInv
<1> QED BY <1>2, <1>3, <1>4 DEF IInv

(* The invariant of list and screen together: one is not inductive without *)
(* the other, since what a receipt tells the list is backed by the hook    *)
(* only because the attempt's transaction succeeded.                       *)
THEOREM ScreenInductive == ScreenSpec => []IInv
<1>1. ASSUME IInv, [ScreenNext]_allVars
      PROVE  IInv'
  BY <1>1, ScreenNextKeeps, SameIInv
<1> QED BY <1>1, InitIInv, PTL DEF ScreenSpec

-------------------------------------------------------------------------------
(* Rows shown do not go back when a list is merged into them, nor when they *)
(* are shown again.                                                         *)
Kept == account' = account =>
          \A b \in Held(records) : /\ b \in Held(records')
                                   /\ records'[b].state >= records[b].state
                                   /\ records[b].settlement => records'[b].settlement

LEMMA SameKept ==
    ASSUME records \in Rows, records' = records
    PROVE  Kept
<1>1. \A b \in Bonds : records[b].state >= records[b].state
  BY DEF Rows, BondRecord, Absent, Finalized, Settled
<1>2. Held(records) \in SUBSET Bonds
  BY DEF Held
<1> QED BY <1>1, <1>2 DEF Kept, Held

LEMMA StoreStepKept ==
    ASSUME ListInv, StoreStep
    PROVE  Kept
<1>1. records \in Rows /\ Typed /\ Connected
  BY DEF ListInv, Typed
<1>2. ASSUME NEW seen \in Rows, records' = MergeBondRecords(records, seen)
      PROVE  Kept
  BY <1>1, <1>2, RowsMerge DEF Kept
<1>3. ASSUME account' # account
      PROVE  Kept
  BY <1>3 DEF Kept
<1>6. ASSUME NEW a, SwitchAccount(a)
      PROVE  Kept
  BY <1>3, <1>6 DEF SwitchAccount
<1>7. ASSUME NEW b \in Bonds, AddDiscoveredBond(b)
      PROVE  Kept
  <2> DEFINE seen == Only(b, Seen(ReceiptEvent, Absent, FALSE, FALSE))
  <2>1. seen \in Rows
    BY NoRecordsTyped DEF Only, Seen, Rows, BondRecord, ReceiptEvent, Absent
  <2>2. CASE account = NoAccount
    BY <1>1, <2>2 DEF Connected, Kept
  <2>3. CASE account # NoAccount
    <3>1. records' = MergeBondRecords(records, seen)
      BY <1>7, <2>3 DEF AddDiscoveredBond, ShowAndReload, Show
    <3> HIDE DEF seen
    <3> QED BY <1>2, <2>1, <3>1
  <2> QED BY <2>2, <2>3
<1>8. CASE Refresh
  <2>1. records' = records
    BY <1>8 DEF Refresh, ShowAndReload, Show
  <2> QED BY <1>1, <2>1, SameKept
<1>9. CASE LoadTimer
  BY <1>1, <1>9, SameKept DEF LoadTimer
<1>10. ASSUME NEW l \in Loads, ApplyLoad(l)
       PROVE  Kept
  <2>1. loads[l].found \in Rows
    BY <1>1, LoadFacts DEF Typed
  <2>2. records' = MergeBondRecords(records, loads[l].found)
    BY <1>10 DEF ApplyLoad, Show
  <2> QED BY <1>2, <2>1, <2>2
<1>11. ASSUME NEW l \in Loads,
              \/ StartLoad(l) \/ EndScan(l) \/ FailLoad(l)
              \/ \E b \in Bonds, answered \in BOOLEAN : ReadCandidate(l, b, answered)
       PROVE  Kept
  <2>1. records' = records
    BY <1>11 DEF StartLoad, EndScan, FailLoad, ReadCandidate
  <2> QED BY <1>1, <2>1, SameKept
<1>12. ASSUME NEW p \in Polls, ApplyPoll(p)
       PROVE  Kept
  <2>1. polls[p].got \in Rows
    BY <1>1 DEF Typed, PollTyped
  <2>2. records' = MergeBondRecords(records, polls[p].got)
    BY <1>12 DEF ApplyPoll, Show
  <2> QED BY <1>2, <2>1, <2>2
<1>13. ASSUME NEW p \in Polls,
              \/ StartPoll(p)
              \/ \E b \in Bonds, answered \in BOOLEAN : PollRead(p, b, answered)
       PROVE  Kept
  <2>1. records' = records
    BY <1>13 DEF StartPoll, PollRead
  <2> QED BY <1>1, <2>1, SameKept
<1> QED BY <1>6, <1>7, <1>8, <1>9, <1>10, <1>11, <1>12, <1>13 DEF StoreStep

(* A row stays when the list is asked for again, and when a receipt is     *)
(* merged into it; without an account there is none to lose.               *)
LEMMA ToldKept ==
    ASSUME ListInv, NEW t \in Attempts, attempts[t].bond \in Bonds, Told(t)
    PROVE  Kept
<1>1. records \in Rows /\ Connected
  BY DEF ListInv, Typed
<1>2. CASE account = NoAccount
  BY <1>1, <1>2 DEF Connected, Kept
<1>3. CASE account # NoAccount /\ ShowAndReload(records)
  <2>1. records' = records
    BY <1>3 DEF ShowAndReload, Show
  <2> QED BY <1>1, <2>1, SameKept
<1>4. CASE account # NoAccount /\ ~ ShowAndReload(records)
  <2>1. PICK settlement \in BOOLEAN :
           /\ chain[attempts[t].bond].state = Settled
           /\ MarkSettledFromReceipt(attempts[t].bond, settlement)
    BY <1>4 DEF Told
  <2> DEFINE b == attempts[t].bond
             seen == Only(b, SettledFromReceipt(records[b], settlement))
  <2>2. seen \in Rows
    BY <2>1, ReceiptRecord
  <2>3. records' = MergeBondRecords(records, seen)
    BY <1>4, <2>1 DEF MarkSettledFromReceipt, ShowAndReload, Show
  <2> HIDE DEF seen
  <2> QED BY <1>1, <2>2, <2>3, RowsMerge DEF Kept
<1> QED BY <1>2, <1>3, <1>4

LEMMA ScreenNextKept ==
    ASSUME IInv, ScreenNext
    PROVE  Kept
<1>1. ListInv /\ ScreenInv /\ records \in Rows /\ Typed
  BY DEF IInv, ListInv, Typed
<1>2. CASE ChainStep
  <2>1. records' = records
    BY <1>1, <1>2, ChainStepGrows
  <2> QED BY <1>1, <2>1, SameKept
<1>3. CASE StoreStep
  BY <1>1, <1>3, StoreStepKept
<1>4. ASSUME NEW t \in Attempts, AttemptStep(t)
      PROVE  Kept
  <2>1. records' = records \/ Told(t)
    BY <1>1, <1>4, AttemptStepCases DEF vars, storeVars
  <2>2. attempts[t].bond \in Bonds
    BY <1>1, Here
  <2> QED BY <1>1, <2>1, <2>2, SameKept, ToldKept
<1>5. CASE LeaveScreen
  <2>1. records' = records
    BY <1>5 DEF LeaveScreen, vars, storeVars
  <2> QED BY <1>1, <2>1, SameKept
<1>6. CASE ReloadScreen
  BY <1>6 DEF ReloadScreen, ReloadPage, Kept
<1> QED BY <1>2, <1>3, <1>4, <1>5, <1>6 DEF ScreenNext

-------------------------------------------------------------------------------
(* What list and screen promise. *)

(* No row, and no answer still to be applied, is ahead of the hook: nothing *)
(* is shown as settled, and no amount is shown, before the hook settled it  *)
(* (useBonds.ts takes states from storage and from receipts only).          *)
THEOREM ListBacked == ScreenSpec => []NeverAhead
<1>1. IInv => NeverAhead
  BY DEF IInv, ListInv, AllBacked, LoadBacked, Backed, NeverAhead, BacksUp
<1> QED BY <1>1, ScreenInductive, PTL

(* Whichever of the racing answers a step applies, and whatever receipt    *)
(* arrives, no row of the connected account disappears or goes back        *)
(* (mergeBondRecord and mergeBondRecords of bondStore.ts).                 *)
THEOREM NeverBack == ScreenSpec => NoRegression
<1>1. ASSUME IInv, [ScreenNext]_allVars
      PROVE  [Kept]_vars
  BY <1>1, ScreenNextKept DEF allVars
<1> QED BY <1>1, ScreenInductive, PTL DEF ScreenSpec, NoRegression, Kept

(* What the stored index remembers it keeps through every sweep, receipt,  *)
(* account change and reload, unless it is full, whatever its size (the    *)
(* index is read again after the awaits of load, useBonds.ts).             *)
THEOREM IndexKeeps == ScreenSpec => IndexRemembers
<1>1. ASSUME IInv, [ScreenNext]_allVars
      PROVE  [Recalled]_vars
  BY <1>1, ScreenNextKeeps DEF allVars
<1> QED BY <1>1, ScreenInductive, PTL DEF ScreenSpec, IndexRemembers, Recalled

(* The screen shows an error only for an attempt that was never sent or    *)
(* was reverted, and success only for a bond the hook has settled,         *)
(* whatever other attempts, strangers and reloads do meanwhile             *)
(* (bonds.tsx settle); every variable keeps its shape.                     *)
THEOREM ScreenIsSafe == ScreenSpec => []ScreenSafe
<1>1. ASSUME IInv
      PROVE  ScreenSafe
  <2>1. ListInv /\ Shapes /\ ScreenInv /\ Typed
    BY <1>1 DEF IInv, ListInv
  <2>2. loads \in [Loads -> Load]
    BY <2>1 DEF Typed, LoadTyped
  <2>3. polls \in [Polls -> [busy : BOOLEAN, ids : SUBSET Bonds, got : Rows]]
    BY <2>1 DEF Typed, PollTyped
  <2>4. TypeOK
    BY <2>1, <2>2, <2>3 DEF TypeOK, Typed, Shapes, Remembered, Chain, States, Load, Rows
  <2>5. ScreenTypeOK
    BY <2>1, <2>4 DEF ScreenTypeOK, ScreenInv, Attempt, Screen
  <2>6. ScreenHonest
    BY <2>1 DEF ScreenHonest, ScreenInv, Borne, Failed
  <2> QED BY <2>5, <2>6 DEF ScreenSafe
<1> QED BY <1>1, ScreenInductive, PTL
===============================================================================
