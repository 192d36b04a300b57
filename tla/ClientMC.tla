-------------------------------- MODULE ClientMC --------------------------------
(* Amounts on both sides of each threshold of the client's parts.          *)
EXTENDS Client

(* The hook's real constants: the ceiling turns zero at 100 raw units, the *)
(* smallest variable leg that bonds is 10,000.                             *)
MCConfigs ==
    {Disabled} \union
    [minBonded0 : {1, 10050}, minBonded1 : {1}, minLeg0 : {1, 10000}, minLeg1 : {10000},
     bondingEnabled : {TRUE}]
MCLegs == {0, 1, 99, 100, 101, 9999, 10000, 10101, 19999}
MCInputs == {1, 10050}
MCTolerances == {0, 99, 100, 150, 10001}
MCRates == {0, 1, 50, 100}
MCQuotes == {1, 100, 10101}

(* Two permission bits (the hook's mask 2 of 4), fees to 2 and the flag 8,  *)
(* spacings to 3.                                                          *)
MCProper ==
    [hook |-> 6, poolManager |-> 9, universalRouter |-> 9, quoter |-> 9, permit2 |-> 9,
     currency0 |-> 3, currency1 |-> 5, chainId |-> 1, fee |-> 1, tickSpacing |-> 1,
     deploymentBlock |-> 0, networkName |-> 1, explorerUrl |-> 1]

(* Nothing, and what cannot be parsed, as Deployment numbers them. *)
Texts == {-2, -3}
MCEdits ==
    [f \in DOMAIN MCProper |->
        CASE f = "hook" -> Texts \union {0, 2, 6, 7}
          [] f \in {"currency0", "currency1"} -> Texts \union {0, 3, 4, 5}
          [] f = "fee" -> Texts \union {-1, 0, 1, 2, 3, 8}
          [] f = "tickSpacing" -> Texts \union {0, 1, 3, 4}
          [] f = "chainId" -> Texts \union {0, 1}
          [] f = "networkName" -> {-2, 1}
          [] f \in {"deploymentBlock", "explorerUrl"} -> Texts \union {MCProper[f]}
          [] OTHER -> Texts \union {0, 9}]

(* Four entries, two of one block; the feed holds two. *)
MCItems ==
    {[block |-> 1, logIndex |-> 0, hash |-> "tx1"], [block |-> 2, logIndex |-> 1, hash |-> "tx2"],
     [block |-> 2, logIndex |-> 3, hash |-> "tx3"], [block |-> 3, logIndex |-> 0, hash |-> "tx4"]}
=============================================================================
