------------------------------ MODULE PoolsScreenMC ------------------------------
(* BPS = 2 stands for 10,000.  One draft the hook accepts, with four       *)
(* different fields, and one whose leg is below its floor; disabling is    *)
(* loaded from the hook.                                                   *)
EXTENDS PoolsScreen

Config(in0, in1, leg0, leg1, enabled) ==
    [minBonded0 |-> in0, minBonded1 |-> in1, minLeg0 |-> leg0, minLeg1 |-> leg1,
     bondingEnabled |-> enabled]

MCDrafts == {Config(1, 4, 2, 3, TRUE), Config(2, 1, 1, 2, TRUE)}
=============================================================================
