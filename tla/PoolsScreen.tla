------------------------------- MODULE PoolsScreen -------------------------------
(***************************************************************************)
(* The owner's configuration form (pools.tsx, AdminCard) over the reads    *)
(* that every screen shares (useProtocol.ts): the pool's configuration on  *)
(* the hook, the query that polls it, the form's draft, and the            *)
(* transactions the form has sent.  Configurations are numbered by their   *)
(* place in the hook's history, so that an answer says how old it is.      *)
(***************************************************************************)
EXTENDS Limits, Sequences, FiniteSets, Functions

CONSTANTS
    Accounts,
    Owner,          \* the hook's owner, fixed at deployment
    Drafts,         \* what can be typed into the form
    Attempts,       \* presses of "Apply configuration"
    MAX_CHANGES     \* bound: configurations set by the owner's other sessions

ASSUME DraftsAssumption == Drafts \subseteq PoolConfig
ASSUME BoundAssumption == MAX_CHANGES \in Nat

NoAccount == "noAccount"
NoDraft == {}       \* a number that cannot be read

VARIABLES
    history,        \* the configurations the hook has stored, oldest first
    changes,        \* configurations set by other sessions (bound)
    read,           \* poolConfigRead: the version shown (0 before the first), isError
    fetch,          \* the version at the start of the fetch in flight, if any
    ownerRead,      \* protocol.owner
    account,
    mount,          \* the instance of the form on screen
    draft,          \* the configuration typed, as a set of at most one
    state,          \* idle, sending, success, error
    attempts

hookVars == <<history, changes>>
readVars == <<read, fetch, ownerRead>>
formVars == <<account, mount, draft, state>>
vars == <<hookVars, readVars, formVars, attempts>>

Version == Len(history)

NoAttempt == [phase |-> "none", mount |-> 0, sender |-> NoAccount, draft |-> NoDraft,
              applied |-> 0, refused |-> "none", joined |-> FALSE]

(* The mounted form is the owner's: dashboard.tsx shows the screen to no   *)
(* other account.                                                          *)
IsOwner == account # NoAccount /\ account = ownerRead

-----------------------------------------------------------------------------
(* setPoolConfig of the hook: its parameters, and the order in which the   *)
(* getter returns what it stores.                                          *)
Parameters(args) ==
    [minBonded0 |-> args[1], minBonded1 |-> args[2], minLeg0 |-> args[3], minLeg1 |-> args[4],
     bondingEnabled |-> args[5]]

Getter(cfg) ==
    <<cfg.minBonded0, cfg.minBonded1, cfg.bondingEnabled, cfg.minLeg0, cfg.minLeg1>>

HookAccepts(cfg) ==
    cfg.bondingEnabled =>
        /\ cfg.minBonded0 > 0 /\ cfg.minBonded1 > 0
        /\ ~ cfg.minLeg0 < bps /\ ~ cfg.minLeg1 < bps

Disabled == [minBonded0 |-> 0, minBonded1 |-> 0, minLeg0 |-> 0, minLeg1 |-> 0,
             bondingEnabled |-> FALSE]
StoredConfig(cfg) == IF cfg.bondingEnabled THEN cfg ELSE Disabled

(* Why the hook, called by sender, would revert. *)
RevertOf(sender, args) ==
    IF sender # Owner THEN "notOwner"
    ELSE IF ~ HookAccepts(Parameters(args)) THEN "config" ELSE "none"

Init ==
    /\ history = <<Disabled>>
    /\ changes = 0
    /\ read = [version |-> 0, isError |-> FALSE]
    /\ fetch = {1}
    /\ ownerRead = NoAccount
    /\ account = NoAccount
    /\ mount = 0
    /\ draft = NoDraft
    /\ state = "idle"
    /\ attempts = [t \in Attempts |-> NoAttempt]

-----------------------------------------------------------------------------
(* Another session of the owner. *)
ConfiguredElsewhere(cfg) ==
    /\ changes < MAX_CHANGES
    /\ HookAccepts(cfg)
    /\ history' = Append(history, StoredConfig(cfg))
    /\ changes' = changes + 1
    /\ UNCHANGED <<readVars, formVars, attempts>>

-----------------------------------------------------------------------------
(* The form leaves the screen when its account is not the owner's, and a   *)
(* new instance starts afresh.                                             *)
Mounted(a, owner) == a # NoAccount /\ a = owner

Remount(a, owner) ==
    /\ account' = a
    /\ ownerRead' = owner
    /\ IF Mounted(account, ownerRead) /\ Mounted(a, owner)
       THEN UNCHANGED <<mount, draft, state>>
       ELSE /\ mount' = IF Mounted(a, owner) THEN mount + 1 ELSE mount
            /\ draft' = NoDraft
            /\ state' = "idle"

(* Bounded by the number of instances. *)
SwitchAccount(a) ==
    /\ a # account
    /\ mount < MAX_CHANGES + 1
    /\ Remount(a, ownerRead)
    /\ UNCHANGED <<hookVars, read, fetch, attempts>>

(* ownerRead, polled on its own: until it answers, the form is not shown. *)
PollOwner ==
    /\ ownerRead # Owner
    /\ Remount(account, Owner)
    /\ UNCHANGED <<hookVars, read, fetch, attempts>>

-----------------------------------------------------------------------------
(* Mutant: the configuration is read once, as the constants are. *)
PollConfigOnce ==
    /\ fetch = {}
    /\ read.version = 0
    /\ fetch' = {Version}
    /\ UNCHANGED <<hookVars, read, ownerRead, formVars, attempts>>

(* poolConfigRead.  The 15 second timer starts a fetch unless one is in    *)
(* flight.                                                                 *)
PollConfig ==
    /\ fetch = {}
    /\ fetch' = {Version}
    /\ UNCHANGED <<hookVars, read, ownerRead, formVars, attempts>>

(* Mutant: a refetch always joins the fetch in flight. *)
RefetchedJoins == IF fetch = {} THEN {Version} ELSE fetch

(* refetch cancels the fetch in flight and starts another -- except before *)
(* the first answer, when it joins it.                                     *)
Refetched == IF fetch = {} \/ read.version # 0 THEN {Version} ELSE fetch

(* The answer is what the hook held at some time since the fetch began. *)
ConfigAnswers(v) ==
    /\ \E started \in fetch : v \in started..Version
    /\ read' = [version |-> v, isError |-> FALSE]
    /\ fetch' = {}
    /\ UNCHANGED <<hookVars, ownerRead, formVars, attempts>>

ConfigUnanswered ==
    /\ fetch # {}
    /\ read' = [read EXCEPT !.isError = TRUE]
    /\ fetch' = {}
    /\ UNCHANGED <<hookVars, ownerRead, formVars, attempts>>

-----------------------------------------------------------------------------
(* The form.  "state" does not stop an edit. *)
EditDraft(d) ==
    /\ IsOwner
    /\ draft' = d
    /\ UNCHANGED <<hookVars, readVars, account, mount, state, attempts>>

LoadCurrent ==
    /\ IsOwner
    /\ read.version # 0
    /\ draft' = {PoolConfigFromGetter(Getter(history[read.version]))}
    /\ UNCHANGED <<hookVars, readVars, account, mount, state, attempts>>

(* The button, and the first part of apply. *)
CanApply ==
    /\ IsOwner
    /\ \E cfg \in draft : ValidPoolConfig(cfg)
    /\ state # "sending"

Apply(t) ==
    /\ CanApply
    /\ attempts[t].phase = "none"
    /\ state' = "sending"
    /\ attempts' = [attempts EXCEPT ![t] =
           [NoAttempt EXCEPT !.phase = "estimating", !.mount = mount, !.sender = account,
                             !.draft = draft]]
    /\ UNCHANGED <<hookVars, readVars, account, mount, draft>>

(* What a press has captured, and the call it makes. *)
Sent(t) == CHOOSE cfg \in attempts[t].draft : TRUE
Call(t) == PoolConfigSetterArgs(Sent(t))

Moves(t, phase) == attempts' = [attempts EXCEPT ![t].phase = phase]

(* setState of an instance that has left the screen does nothing. *)
Shows(t, s) == state' = IF attempts[t].mount = mount /\ IsOwner THEN s ELSE state

(* submitWithBoundedGas. *)
EstimateAnswers(t) ==
    LET revert == RevertOf(attempts[t].sender, Call(t)) IN
    /\ attempts[t].phase = "estimating"
    /\ IF revert = "none"
       THEN Moves(t, "signing") /\ UNCHANGED state
       ELSE /\ attempts' = [attempts EXCEPT ![t].phase = "failed", ![t].refused = revert]
            /\ Shows(t, "error")
    /\ UNCHANGED <<hookVars, readVars, account, mount, draft>>

(* The wallet signs for the account that pressed, if it still can. *)
WalletSigns(t) ==
    /\ attempts[t].phase = "signing"
    /\ Moves(t, "submitted")
    /\ UNCHANGED <<hookVars, readVars, formVars>>

(* A read, the wallet or the receipt fails; a submitted transaction may    *)
(* yet be mined.                                                           *)
StepFails(t) ==
    /\ attempts[t].phase \in {"estimating", "signing", "submitted", "mined", "reverted"}
    /\ Moves(t, IF attempts[t].phase = "submitted" THEN "abandoned" ELSE "failed")
    /\ Shows(t, "error")
    /\ UNCHANGED <<hookVars, readVars, account, mount, draft>>

(* The transaction is mined.  The storage it was estimated over may have   *)
(* been changed by another session, and the gas not be enough.             *)
Mine(t, enoughGas) ==
    LET revert == IF enoughGas THEN RevertOf(attempts[t].sender, Call(t)) ELSE "gas" IN
    /\ attempts[t].phase \in {"submitted", "abandoned"}
    /\ history' = IF revert = "none" THEN Append(history, StoredConfig(Parameters(Call(t))))
                                     ELSE history
    /\ attempts' = [attempts EXCEPT
           ![t].phase = IF attempts[t].phase = "abandoned" THEN "failed"
                        ELSE IF revert = "none" THEN "mined" ELSE "reverted",
           ![t].refused = revert,
           ![t].applied = IF revert = "none" THEN Len(history) + 1 ELSE 0]
    /\ UNCHANGED <<changes, readVars, formVars>>

(* assertReceiptSucceeded. *)
ReceiptSucceeded(attempt) == attempt.phase = "mined"

(* The receipt: the shared reads are asked again, and the form is told. *)
ReceiptArrives(t) ==
    /\ attempts[t].phase \in {"mined", "reverted"}
    /\ IF ReceiptSucceeded(attempts[t])
       THEN /\ attempts' = [attempts EXCEPT ![t].phase = "success",
                                            ![t].joined = (fetch # {} /\ read.version = 0)]
            /\ fetch' = Refetched
            /\ Shows(t, "success")
       ELSE /\ Moves(t, "failed")
            /\ Shows(t, "error")
            /\ UNCHANGED fetch
    /\ UNCHANGED <<hookVars, read, ownerRead, account, mount, draft>>

-----------------------------------------------------------------------------
AttemptStep(t) ==
    \/ EstimateAnswers(t)
    \/ WalletSigns(t)
    \/ StepFails(t)
    \/ \E enoughGas \in BOOLEAN : Mine(t, enoughGas)
    \/ ReceiptArrives(t)

ReadStep ==
    \/ PollConfig
    \/ \E v \in DOMAIN history : ConfigAnswers(v)
    \/ ConfigUnanswered

Next ==
    \/ \E cfg \in Drafts : ConfiguredElsewhere(cfg)
    \/ \E a \in Accounts \union {NoAccount} : SwitchAccount(a)
    \/ PollOwner
    \/ ReadStep
    \/ \E d \in {{cfg} : cfg \in Drafts} \union {NoDraft} : EditDraft(d)
    \/ LoadCurrent
    \/ \E t \in Attempts : Apply(t) \/ AttemptStep(t)

(* Requests settle, the timers go off, and an endpoint asked again and     *)
(* again answers in the end.                                               *)
Fairness ==
    /\ WF_vars(PollConfig)
    /\ SF_vars(\E v \in DOMAIN history : ConfigAnswers(v))
    /\ \A t \in Attempts : WF_vars(AttemptStep(t))

Spec == Init /\ [][Next]_vars /\ Fairness

-----------------------------------------------------------------------------
Phases == {"none", "estimating", "signing", "submitted", "mined", "reverted", "abandoned",
           "success", "failed"}

AtMostOneOf(S) == {{}} \union {{x} : x \in S}

TypeOK ==
    /\ history \in Seq(PoolConfig) /\ history # <<>>
    /\ changes \in 0..MAX_CHANGES
    /\ read \in [version : 0..Version, isError : BOOLEAN]
    /\ fetch \in AtMostOneOf(1..Version)
    /\ ownerRead \in {Owner, NoAccount}
    /\ account \in Accounts \union {NoAccount}
    /\ mount \in Nat
    /\ draft \in AtMostOneOf(Drafts \union Range(history))
    /\ state \in {"idle", "sending", "success", "error"}
    /\ \A t \in Attempts : attempts[t].phase \in Phases /\ attempts[t].applied \in 0..Version

(* A configuration the form lets through is never refused by the hook for  *)
(* what it contains, neither by the estimate nor when it is mined          *)
(* (validatePoolConfig: "Validates a configuration the way setPoolConfig   *)
(* does").                                                                 *)
FormNeverRefusedForContent == \A t \in Attempts : attempts[t].refused # "config"

(* The form reports a success only of a transaction of its own that the    *)
(* hook executed, and what was stored is the draft as the hook stores it,  *)
(* whatever was typed meanwhile (pools.tsx apply).                         *)
SuccessWasApplied ==
    /\ state = "success" => \E t \in Attempts : attempts[t].phase = "success" /\ attempts[t].mount = mount
    /\ \A t \in Attempts :
          attempts[t].phase = "success" =>
              /\ attempts[t].applied \in DOMAIN history
              /\ history[attempts[t].applied] = StoredConfig(Sent(t))

(* Once the read that a success asked for has been answered, the           *)
(* configuration on screen is at least as new as the one applied: an older *)
(* fetch cannot come after it.  A first fetch that was still in flight is  *)
(* the exception; a later poll shows it (useProtocol.ts refresh).          *)
ReReadShowsApplied ==
    \A t \in Attempts :
        attempts[t].phase = "success" /\ ~ attempts[t].joined /\ fetch = {} /\ ~ read.isError
        => read.version >= attempts[t].applied

(* Only one transaction of an instance of the form is in flight. *)
InFlight(t) == attempts[t].phase \in {"estimating", "signing", "submitted", "mined", "reverted"}
OneAtATime ==
    \A t, u \in Attempts :
        t # u /\ InFlight(t) /\ InFlight(u) => attempts[t].mount # attempts[u].mount

(* The form and the hook agree: on what is accepted, on what a success     *)
(* stands for, and that one transaction of an instance is in flight        *)
(* (pools.tsx AdminCard, poolConfig.ts).                                   *)
FormSafe == TypeOK /\ FormNeverRefusedForContent /\ SuccessWasApplied /\ OneAtATime

(* What was applied is shown in the end, even if the first read was        *)
(* joined.                                                                 *)
AppliedIsShown ==
    \A t \in Attempts : attempts[t].phase = "success" ~> read.version >= attempts[t].applied

(* Claimed by the text the form shows on success, "Configuration applied   *)
(* and re-read from the hook." (pools.tsx).                                *)
ReReadBeforeSuccess ==
    \A t \in Attempts :
        state = "success" /\ attempts[t].mount = mount /\ attempts[t].phase = "success"
        => read.version >= attempts[t].applied
=============================================================================
