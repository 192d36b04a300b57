------------------------------- MODULE Deployment -------------------------------
(***************************************************************************)
(* What the operator configures and what the client makes of it:           *)
(* resolveDeployment (deployment.ts) and tradingReadiness (guards.ts),     *)
(* against the pools that can exist.  The operator starts from one proper  *)
(* deployment and edits one field at a time.                               *)
(*                                                                         *)
(* An address is a number, zero the zero address, and its remainder by     *)
(* MASK_BITS are the permission bits it carries.                           *)
(***************************************************************************)
EXTENDS Integers

CONSTANTS
    Proper,         \* the deployment the operator starts from
    Edits,          \* what the operator may type, by field
    MAX_EDITS,      \* bound
    MASK_BITS,      \* HOOK_PERMISSION_MASK_BITS + 1
    REQUIRED_HOOK_PERMISSION_MASK,
    MAX_FEE,        \* 1,000,000
    DYNAMIC_FEE_FLAG, \* 0x800000: the fee is the hook's to set at each swap
    MAX_TICK_SPACING

Missing == -2       \* an unset or empty variable
Malformed == -3     \* text of the wrong form

Addresses == {"hook", "poolManager", "universalRouter", "quoter", "permit2",
              "currency0", "currency1"}
KeyFields == {"currency0", "currency1", "fee", "tickSpacing", "hook"}
Fields == Addresses \union
          {"chainId", "fee", "tickSpacing", "deploymentBlock", "networkName", "explorerUrl"}

(* What may stand in a field: an address, or a number of either sign, or   *)
(* what is neither.                                                        *)
TextsOf(f) == {Missing, Malformed} \union (IF f \in Addresses THEN Nat ELSE Int)

VARIABLES
    raw,            \* the variables of the build, but for the pool ID
    declared,       \* the pool ID given: the key it is of, if any
    edits           \* how many edits were made (bound)

vars == <<raw, declared, edits>>

(* The ID is a hash of the key: two keys have different IDs. *)
ComputePoolId(values) == [f \in KeyFields |-> values[f]]

Init ==
    /\ raw = Proper
    /\ declared \in {{}, {ComputePoolId(Proper)}}
    /\ edits = 0

-----------------------------------------------------------------------------
HasRequiredHookPermissions(hook) == hook % MASK_BITS = REQUIRED_HOOK_PERMISSION_MASK

ReadAddress(text) == text \notin {Missing, Malformed, 0}

(* Mutant: the largest fee is refused. *)
ReadIntegerExclusive(text, least, most) == text >= least /\ text < most

(* Missing and Malformed are below every range. *)
ReadInteger(text, least, most) == text >= least /\ text <= most

ReadField(f) ==
    IF f \in Addresses THEN ReadAddress(raw[f])
    ELSE CASE f = "chainId" -> raw[f] >= 1
           [] f = "fee" -> ReadInteger(raw[f], 0, MAX_FEE)
           [] f = "tickSpacing" -> ReadInteger(raw[f], 1, MAX_TICK_SPACING)
           [] OTHER -> raw[f] \notin {Missing, Malformed}

Unread == {f \in Fields : ~ ReadField(f)}

SidesWrong == {"currency0", "currency1"} \intersect Unread = {} /\ raw.currency0 >= raw.currency1

Label(f) == f

(* Each problem is the set of fields its message names. *)
Problems ==
    {{Label(f)} : f \in Unread}
        \union {{f} : f \in {g \in {"hook"} \ Unread : ~ HasRequiredHookPermissions(raw[g])}}
        \union {s \in {{"currency0", "currency1"}} : SidesWrong}

(* A declared pool ID is compared once there is a key to compare it with. *)
Mismatches == \E id \in declared : id # ComputePoolId(raw)

ResolveDeployment ==
    IF Problems # {} THEN Problems
    ELSE IF Mismatches THEN {{"poolId"} \union KeyFields} ELSE {}

Ready == ResolveDeployment = {}

(* The check before a transaction is offered. *)
CanTrade == HasRequiredHookPermissions(raw.hook) /\ raw.currency0 # raw.currency1

-----------------------------------------------------------------------------
EditField(f, text) ==
    /\ edits < MAX_EDITS
    /\ raw[f] # text
    /\ raw' = [raw EXCEPT ![f] = text]
    /\ edits' = edits + 1
    /\ UNCHANGED declared

(* The ID printed by the deployment of the pool now configured, or none. *)
DeclarePoolId ==
    /\ edits < MAX_EDITS
    /\ declared' \in {{}, {ComputePoolId(raw)}} \ {declared}
    /\ edits' = edits + 1
    /\ UNCHANGED raw

Next == (\E f \in DOMAIN Edits : \E text \in Edits[f] : EditField(f, text)) \/ DeclarePoolId

Spec == Init /\ [][Next]_vars

-----------------------------------------------------------------------------
(* What Uniswap v4 lets exist: PoolManager.initialize, and the address the *)
(* hook's constructor accepts.  The fee is a static one, or the flag of a  *)
(* dynamic one; _afterInitialize refuses neither.                          *)
PoolCanExist(key) ==
    /\ 0 <= key.currency0 /\ key.currency0 < key.currency1
    /\ key.fee \in 0..MAX_FEE \union {DYNAMIC_FEE_FLAG}
    /\ key.tickSpacing \in 1..MAX_TICK_SPACING
    /\ key.hook > 0
    /\ key.hook % MASK_BITS = REQUIRED_HOOK_PERMISSION_MASK

TypeOK ==
    /\ raw \in [Fields -> Int]
    /\ \A id \in declared : DOMAIN id = KeyFields
    /\ UNION ResolveDeployment \subseteq Fields \union {"poolId"}
    /\ edits \in 0..MAX_EDITS

(* The pools the client is made for.  It leaves out two kinds that can     *)
(* exist with this hook: those with native currency on a side, and those   *)
(* of a dynamic fee (readAddress; readInteger of the pool fee, at most     *)
(* 1,000,000).                                                             *)
Supported(key) == key.currency0 # 0 /\ key.fee # DYNAMIC_FEE_FLAG

(* The client never opens on a pool that cannot exist, on one of the two   *)
(* kinds it leaves out, or on another pool than the one declared           *)
(* (deployment.ts: "Builds one coherent deployment context").              *)
ReadyPoolCanExist ==
    Ready => /\ PoolCanExist(ComputePoolId(raw))
             /\ Supported(ComputePoolId(raw))
             /\ declared \subseteq {ComputePoolId(raw)}

(* And it opens on every other pool that can exist: up to the largest      *)
(* static fee and tick spacing, whatever was wrong before (deployment.ts   *)
(* resolveDeployment).                                                     *)
SupportedPoolCanBeNamed ==
    /\ PoolCanExist(ComputePoolId(raw)) /\ Supported(ComputePoolId(raw))
    /\ \A f \in Fields \ KeyFields : raw[f] = Proper[f]
    /\ declared \subseteq {ComputePoolId(raw)}
    => Ready

(* A deployment that opens can trade: the second check, of the client's    *)
(* guards, is never the one that stops it (guards.ts tradingReadiness).    *)
ReadyCanTrade == Ready => CanTrade

(* With the other settings in order, a configuration is ready exactly when *)
(* it names a pool that can exist, of two tokens and a static fee, and is  *)
(* then traded on (deployment.ts resolveDeployment, guards.ts).            *)
ReadySound == TypeOK /\ ReadyPoolCanExist /\ SupportedPoolCanBeNamed /\ ReadyCanTrade

(* Each message names a field that is wrong: the client does not open      *)
(* before something that each of them names was changed (deployment.ts:    *)
(* "explains exactly what is missing").                                    *)
Changed == {f \in Fields : raw'[f] # raw[f]}
                \union {f \in {"poolId"} : declared' # declared}
ProblemsAreReal == Ready' => \A problem \in ResolveDeployment : problem \intersect Changed # {}
=============================================================================
