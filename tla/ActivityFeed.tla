------------------------------ MODULE ActivityFeed ------------------------------
(***************************************************************************)
(* The local activity feed (activity.ts over dashboard.tsx): each tab      *)
(* holds a feed in memory, merges what was saved when it mounts, and saves *)
(* the whole feed after each change, in storage that the tabs share.       *)
(***************************************************************************)
EXTENDS Naturals, Sequences, FiniteSets, SequencesExt

CONSTANTS
    Tabs,
    Items,              \* entries: [block, logIndex, hash]
    MAX_ACTIVITY_ITEMS  \* 50 in the code

VARIABLES
    storage,        \* the saved feed
    tabs,           \* each tab: on screen or not, its feed, a save to come
    recorded,       \* the entries whose receipt some tab has had
    known,          \* history: what each open tab has read or recorded
    saved,          \* history: every entry ever saved
    overlapped      \* history: whether two tabs were ever open at once

vars == <<storage, tabs, recorded, known, saved, overlapped>>

Closed == [open |-> FALSE, items |-> <<>>, unsaved |-> FALSE]

Init ==
    /\ storage = <<>>
    /\ tabs = [t \in Tabs |-> Closed]
    /\ recorded = {}
    /\ known = [t \in Tabs |-> {}]
    /\ saved = {}
    /\ overlapped = FALSE

-----------------------------------------------------------------------------
Newer(a, b) == a.block > b.block \/ (a.block = b.block /\ a.logIndex > b.logIndex)

Cut(items) ==
    SubSeq(items, 1, IF Len(items) < MAX_ACTIVITY_ITEMS THEN Len(items) ELSE MAX_ACTIVITY_ITEMS)

(* The orders of a set of entries with the newest first; entries of one    *)
(* block and log index may come in either order.                           *)
NewestFirst(items) ==
    {order \in SetToSeqs(items) :
        \A i, j \in DOMAIN order : i < j => ~ Newer(order[j], order[i])}

(* Mutant: cut before it is sorted. *)
MergeCutFirst(previous, incoming) ==
    LET rest == SelectSeq(previous, LAMBDA item : item \notin Range(incoming)) IN
    NewestFirst(Range(Cut(incoming \o rest)))

(* mergeActivity: an incoming entry replaces one of the same key, the      *)
(* newest come first, and the rest is cut.                                 *)
MergeActivity(previous, incoming) ==
    {Cut(order) : order \in NewestFirst(Range(previous) \union Range(incoming))}

(* The first commit of a tab does not save: activityReady is false. *)
FirstCommit(feed) == feed

-----------------------------------------------------------------------------
(* The Dashboard mounts: saved entries are read before the first save. *)
Open(t) ==
    /\ ~ tabs[t].open
    /\ storage' = FirstCommit(storage)
    /\ \E items \in MergeActivity(<<>>, Cut(storage)) :
          tabs' = [tabs EXCEPT ![t] = [open |-> TRUE, items |-> items, unsaved |-> TRUE]]
    /\ known' = [known EXCEPT ![t] = Range(storage)]
    /\ overlapped' = (overlapped \/ \E u \in Tabs : tabs[u].open)
    /\ UNCHANGED <<recorded, saved>>

(* The effect that reads runs again for a new deployment object. *)
ReadSaved(t) ==
    /\ tabs[t].open
    /\ \E items \in MergeActivity(tabs[t].items, Cut(storage)) :
          tabs' = [tabs EXCEPT ![t].items = items, ![t].unsaved = TRUE]
    /\ known' = [known EXCEPT ![t] = @ \union Range(storage)]
    /\ UNCHANGED <<storage, recorded, saved, overlapped>>

(* recordActivity, from the receipt of a transaction this tab sent: of any *)
(* block, for receipts come in any order.                                  *)
Record(t, item) ==
    /\ tabs[t].open
    /\ item \notin recorded
    /\ recorded' = recorded \union {item}
    /\ \E items \in MergeActivity(tabs[t].items, <<item>>) :
          tabs' = [tabs EXCEPT ![t].items = items, ![t].unsaved = TRUE]
    /\ known' = [known EXCEPT ![t] = @ \union {item}]
    /\ UNCHANGED <<storage, saved, overlapped>>

(* saveActivity, after the commit that changed the feed.  Storage that is  *)
(* disabled or full keeps what it held.                                    *)
Save(t, works) ==
    /\ tabs[t].open /\ tabs[t].unsaved
    /\ tabs' = [tabs EXCEPT ![t].unsaved = FALSE]
    /\ IF works
       THEN storage' = Cut(tabs[t].items) /\ saved' = saved \union Range(tabs[t].items)
       ELSE UNCHANGED <<storage, saved>>
    /\ UNCHANGED <<recorded, known, overlapped>>

(* The tab is closed, or crashes, at any moment. *)
Close(t) ==
    /\ tabs[t].open
    /\ tabs' = [tabs EXCEPT ![t] = Closed]
    /\ known' = [known EXCEPT ![t] = {}]
    /\ UNCHANGED <<storage, recorded, saved, overlapped>>

Next ==
    \E t \in Tabs :
        \/ Open(t)
        \/ ReadSaved(t)
        \/ \E item \in Items : Record(t, item)
        \/ \E works \in BOOLEAN : Save(t, works)
        \/ Close(t)

Spec == Init /\ [][Next]_vars

-----------------------------------------------------------------------------
Feed(items) ==
    /\ items \in Seq(Items)
    /\ Len(items) <= MAX_ACTIVITY_ITEMS
    /\ IsInjective(items)

TypeOK ==
    /\ Feed(storage)
    /\ \A t \in Tabs : Feed(tabs[t].items) /\ {tabs[t].open, tabs[t].unsaved} \subseteq BOOLEAN
    /\ recorded \subseteq Items /\ saved \subseteq Items
    /\ known \in [Tabs -> SUBSET Items]
    /\ overlapped \in BOOLEAN

(* The newest of a set: nothing is left out unless the feed is full, and   *)
(* nothing left out is newer than something kept.                          *)
NewestOf(items, all) ==
    /\ Range(items) \subseteq all
    /\ \A left \in all \ Range(items) :
          /\ Len(items) = MAX_ACTIVITY_ITEMS
          /\ \A item \in Range(items) : ~ Newer(left, item)

(* A tab's feed is the newest of all it has read and recorded, in whatever *)
(* order the receipts came and however often entries were cut on the way   *)
(* (activity.ts mergeActivity).                                            *)
TabHoldsNewest == \A t \in Tabs : tabs[t].open => NewestOf(tabs[t].items, known[t])

(* While one tab at a time is open, nothing that was saved is lost but by  *)
(* newer entries, wherever a tab is closed: mounting never saves before it *)
(* has read (dashboard.tsx, the two effects).  Tabs that are open together *)
(* overwrite each other's entries.                                         *)
SavedSurvives == ~ overlapped => NewestOf(storage, saved)

(* What is in memory and what is saved hold the newest entries             *)
(* (activity.ts, dashboard.tsx).                                           *)
FeedSafe == TypeOK /\ TabHoldsNewest /\ SavedSurvives
=============================================================================
