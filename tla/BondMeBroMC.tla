------------------------------ MODULE BondMeBroMC ------------------------------
(***************************************************************************)
(* Values of BondMeBro's constants for TLC.                                *)
(***************************************************************************)
EXTENDS BondMeBroProperties

OnePool   == {"AB"}
TwoPools  == {"AB", "CB"}      \* both trade token B
AllTokens == {"A", "B", "C"}
Token0    == [p \in {"AB", "CB"} |-> IF p = "AB" THEN "A" ELSE "C"]
Token1    == [p \in {"AB", "CB"} |-> "B"]
OneToken0 == [p \in OnePool |-> "A"]
OneToken1 == [p \in OnePool |-> "B"]

Exec(zeroForOne, exactInput, requested, input, output) ==
    [zeroForOne |-> zeroForOne, exactInput |-> exactInput,
     requested |-> requested, input |-> input, output |-> output]

\* One trade each way, both big enough to bond when bonding is on.
EachWay == {Exec(TRUE, TRUE, 20000, 20000, 20000), Exec(FALSE, TRUE, 20000, 20000, 20000)}

\* Collateral in token 1 whichever way the price goes: the output of an exact
\* input down, the input of an exact output up.  An exact input up is taken in
\* token 0.
SharedAndOwn == {Exec(TRUE, TRUE, 20000, 20000, 20000),
                 Exec(FALSE, FALSE, 30000, 30000, 30000),
                 Exec(FALSE, TRUE, 20000, 20000, 20000)}

OneWay  == {Exec(TRUE, TRUE, 20000, 20000, 20000)}

\* Bonded on either side, cut short at a price limit, too small on either
\* leg, and (exact output) too small although it was prepared.
Assorted == {Exec(TRUE, TRUE, 20000, 20000, 30000),
             Exec(FALSE, FALSE, 20000, 30001, 20000),
             Exec(FALSE, TRUE, 20000, 500, 600),
             Exec(TRUE, TRUE, 20000, 20000, 999),
             Exec(TRUE, FALSE, 100, 90, 100)}

Payload(r, max) == [recipient |-> r, maxBond |-> max]
AlicePays == {Payload("alice", 1000)}
AliceOrBob == {Payload("alice", 1000), Payload("bob", 1000)}
Payloads  == {Payload("alice", 1000), Payload("bob", 25), Payload("none", 0)}

On(minBonded, minLeg) == [bondingEnabled |-> TRUE,
                          minBonded0 |-> minBonded, minBonded1 |-> minBonded,
                          minLeg0 |-> minLeg, minLeg1 |-> minLeg]
Off     == [On(7, 7) EXCEPT !.bondingEnabled = FALSE]
OnOrOff == {On(1000, 10000), Off}
\* The last one is refused: its legs could round to no collateral at all.
Tried   == {On(1000, 10000), Off, On(1000, 50)}

\* Fewer histories: pools are initialized in the first block, and strangers
\* resolve only buckets that hold a bond (an empty one is a record nobody
\* reads).  The runs under Spec have neither restriction.
CalmNext ==
    /\ Next
    /\ block > 1 => UNCHANGED initBlock
    /\ \A k \in DOMAIN maturity' : \E b \in DOMAIN bonds' : k = <<b[1], b[2]>>

\* Fewer still: configuration, too, is done in the first block.
NarrowNext == CalmNext /\ (block > 1 => UNCHANGED poolConfig)

NarrowSpec == Init /\ [][NarrowNext]_vars

\* Two pools have two price histories: they start in the first block at
\* different ticks, so that the first trade of one goes up and of the other
\* down; they leave it with bonding on, and are traded at most once a block from
\* the second on (several trades a block, and bonding off, are in the one-pool
\* runs).  Bonds of the second block mature in the last one, those of the third
\* stay open in it.
StartTick == [p \in TwoPools |-> IF p = "AB" THEN 0 ELSE 40]

SparseNext ==
    /\ NarrowNext
    /\ block' # block => \A p \in Pools : initBlock[p] # 0 /\ poolConfig[p].bondingEnabled
    /\ \A p \in Pools :
          acc'[p] # acc[p] =>
              IF initBlock[p] = 0 THEN poolTick'[p] = StartTick[p] ELSE acc[p].lastUpdate < block

SparseSpec == Init /\ [][SparseNext]_vars
================================================================================
