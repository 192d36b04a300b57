--------------------------- MODULE PoolsScreen_proofs ---------------------------
(***************************************************************************)
(* The configuration form for any number of accounts, drafts and presses:  *)
(* one transaction of a form at a time, none refused for what it contains, *)
(* success reported only of what the hook stored, and the read made after  *)
(* it never older than what it stored.                                     *)
(***************************************************************************)
EXTENDS PoolsScreen, TLAPS

-------------------------------------------------------------------------------
(* The three orders of the five values. *)

LEMMA SetterOrder ==
    ASSUME NEW cfg \in PoolConfig
    PROVE  Parameters(PoolConfigSetterArgs(cfg)) = cfg
BY DEF Parameters, PoolConfigSetterArgs, PoolConfig

LEMMA GetterOrder ==
    ASSUME NEW cfg \in PoolConfig
    PROVE  PoolConfigFromGetter(Getter(cfg)) = cfg
BY DEF PoolConfigFromGetter, Getter, PoolConfig

LEMMA StoredTyped ==
    ASSUME NEW cfg \in PoolConfig
    PROVE  StoredConfig(cfg) \in PoolConfig
BY DEF StoredConfig, Disabled, PoolConfig

(* What the form lets through, the hook accepts. *)
LEMMA FormImpliesHook ==
    ASSUME NEW cfg \in PoolConfig, ValidPoolConfig(cfg)
    PROVE  HookAccepts(cfg)
<1>1. /\ cfg.minBonded0 \in Nat /\ cfg.minBonded1 \in Nat
      /\ cfg.minLeg0 \in Nat /\ cfg.minLeg1 \in Nat /\ bps \in Nat
  BY HookConstants DEF PoolConfig
<1> QED BY <1>1 DEF ValidPoolConfig, HookAccepts

-------------------------------------------------------------------------------
(* The inductive invariant. *)

Attempt ==
    [phase : Phases, mount : Nat, sender : Accounts \union {NoAccount},
     draft : SUBSET PoolConfig, applied : Nat,
     refused : {"none", "notOwner", "config", "gas"}, joined : BOOLEAN]

Flying(a) == a.phase \in {"estimating", "signing", "submitted", "mined", "reverted"}

Content(a) == CHOOSE cfg \in a.draft : TRUE

AppliedIn(a, h) ==
    a.phase \in {"mined", "success"} =>
        a.applied \in 1..Len(h) /\ h[a.applied] = StoredConfig(Content(a))

Typed ==
    /\ history \in Seq(PoolConfig)
    /\ read.version \in 0..Len(history)
    /\ account \in Accounts \union {NoAccount}
    /\ mount \in Nat
    /\ draft \in SUBSET PoolConfig
    /\ \A c, d \in draft : c = d
    /\ attempts = [t \in Attempts |-> attempts[t]]
    /\ \A t \in Attempts : attempts[t] \in Attempt

(* A press has captured one configuration that the form lets through, and  *)
(* is never refused for it.                                                *)
Carries(a) ==
    /\ a.phase # "none" => \E cfg \in PoolConfig : a.draft = {cfg} /\ ValidPoolConfig(cfg)
    /\ a.refused # "config"

Pressed == \A t \in Attempts : Carries(attempts[t]) /\ AppliedIn(attempts[t], history)

(* The form knows of its own transaction in flight. *)
Alone ==
    /\ \A t \in Attempts : attempts[t].mount <= mount
    /\ \A t \in Attempts :
          Flying(attempts[t]) /\ attempts[t].mount = mount /\ IsOwner => state = "sending"
    /\ \A t, u \in Attempts :
          t # u /\ Flying(attempts[t]) /\ Flying(attempts[u])
              => attempts[t].mount # attempts[u].mount

Reported ==
    state = "success" =>
        \E t \in Attempts : attempts[t].phase = "success" /\ attempts[t].mount = mount

IInv == Typed /\ Pressed /\ Alone /\ Reported

(* The hook's history is only added to. *)
Extends(h, g) ==
    /\ g \in Seq(PoolConfig)
    /\ Len(h) <= Len(g)
    /\ \A i \in 1..Len(h) : g[i] = h[i]

LEMMA Appending ==
    ASSUME NEW h \in Seq(PoolConfig), NEW cfg \in PoolConfig
    PROVE  /\ Extends(h, Append(h, cfg))
           /\ Len(h) + 1 \in 1..Len(Append(h, cfg))
           /\ Append(h, cfg)[Len(h) + 1] = cfg
BY DEF Extends

LEMMA Same ==
    ASSUME NEW h \in Seq(PoolConfig)
    PROVE  Extends(h, h)
BY DEF Extends

LEMMA AppliedStays ==
    ASSUME NEW h \in Seq(PoolConfig), NEW g, Extends(h, g), NEW a \in Attempt, AppliedIn(a, h)
    PROVE  AppliedIn(a, g)
BY DEF Extends, AppliedIn, Attempt

-------------------------------------------------------------------------------
(* Steps. *)

(* Steps of the hook, of the reads and of the draft. *)
LEMMA ElsewhereKeeps ==
    ASSUME IInv, Extends(history, history'), read'.version \in 0..Len(history'),
           draft' \in SUBSET PoolConfig, \A c, d \in draft' : c = d,
           UNCHANGED <<account, ownerRead, mount, state, attempts>>
    PROVE  IInv'
<1>1. Typed /\ Pressed /\ Alone /\ Reported
  BY DEF IInv
<1>2. Typed'
  BY <1>1 DEF Typed, Extends
<1>3. Pressed'
  BY <1>1, AppliedStays DEF Typed, Pressed
<1>4. Alone' /\ Reported'
  BY <1>1 DEF Alone, Reported, IsOwner
<1> QED BY <1>2, <1>3, <1>4 DEF IInv

(* The form leaves the screen, or comes back. *)
LEMMA RemountKeeps ==
    ASSUME IInv, NEW a \in Accounts \union {NoAccount}, NEW owner, Remount(a, owner),
           UNCHANGED <<hookVars, read, attempts>>
    PROVE  IInv'
<1>1. /\ Typed /\ Pressed /\ Alone /\ Reported /\ mount \in Nat
      /\ \A t \in Attempts : attempts[t] \in Attempt
  BY DEF IInv, Typed
<1>2. history' = history /\ read' = read /\ attempts' = attempts
  BY DEF hookVars
<1>3. /\ account' = a
      /\ \/ UNCHANGED <<mount, draft, state>> /\ IsOwner
         \/ /\ state' = "idle" /\ draft' = {}
            /\ IsOwner' => mount' = mount + 1
            /\ mount' \in {mount, mount + 1}
  BY DEF Remount, Mounted, IsOwner, NoDraft
<1>4. Typed'
  BY <1>1, <1>2, <1>3 DEF Typed
<1>5. Pressed'
  BY <1>1, <1>2 DEF Pressed
<1>6. \A t \in Attempts : attempts[t].mount \in Nat /\ attempts[t].mount <= mount
  BY <1>1 DEF Alone, Attempt
<1>7. Alone'
  <2>1. \A t \in Attempts : attempts'[t].mount <= mount'
    BY <1>1, <1>2, <1>3, <1>6
  <2>2. \A t \in Attempts :
           Flying(attempts'[t]) /\ attempts'[t].mount = mount' /\ IsOwner' => state' = "sending"
    <3>1. CASE UNCHANGED <<mount, draft, state>> /\ IsOwner
      BY <1>1, <1>2, <3>1 DEF Alone
    <3>2. CASE IsOwner' => mount' = mount + 1
      BY <1>1, <1>2, <1>6, <3>2
    <3> QED BY <1>3, <3>1, <3>2
  <2> QED BY <1>1, <1>2, <2>1, <2>2 DEF Alone
<1>8. Reported'
  BY <1>1, <1>2, <1>3 DEF Reported
<1> QED BY <1>4, <1>5, <1>7, <1>8 DEF IInv

(* A press. *)
LEMMA ApplyKeeps ==
    ASSUME IInv, NEW t \in Attempts, Apply(t)
    PROVE  IInv'
<1> DEFINE a == [NoAttempt EXCEPT !.phase = "estimating", !.mount = mount,
                                  !.sender = account, !.draft = draft]
<1>1. /\ Typed /\ Pressed /\ Alone /\ Reported /\ mount \in Nat
      /\ \A u \in Attempts : attempts[u] \in Attempt
  BY DEF IInv, Typed
<1>2. /\ IsOwner /\ state # "sending" /\ state' = "sending"
      /\ \E cfg \in draft : ValidPoolConfig(cfg)
      /\ attempts[t].phase = "none"
      /\ UNCHANGED <<history, read, ownerRead, account, mount, draft>>
  BY DEF Apply, CanApply, hookVars, readVars
<1>3. attempts' = [attempts EXCEPT ![t] = a]
  BY DEF Apply
<1>4. /\ a \in Attempt /\ a.phase = "estimating" /\ a.mount = mount
      /\ a.draft = draft /\ a.refused = "none"
  <2>1. NoAttempt \in Attempt /\ NoAttempt.refused = "none"
    BY DEF NoAttempt, Attempt, Phases, NoDraft
  <2>2. account \in Accounts \union {NoAccount} /\ draft \in SUBSET PoolConfig
    BY <1>1 DEF Typed
  <2> QED BY <1>1, <2>1, <2>2 DEF Attempt, Phases
<1> HIDE DEF a
<1>5. Carries(a)
  BY <1>1, <1>2, <1>4 DEF Carries, Typed
<1>6. Flying(a) /\ AppliedIn(a, history)
  BY <1>4 DEF Flying, AppliedIn
<1>7. /\ attempts' = [u \in Attempts |-> attempts'[u]]
      /\ \A u \in Attempts : attempts'[u] = IF u = t THEN a ELSE attempts[u]
  BY <1>1, <1>3 DEF Typed
<1>8. Typed'
  BY <1>1, <1>2, <1>4, <1>7 DEF Typed
<1>9. Pressed'
  BY <1>1, <1>2, <1>5, <1>6, <1>7 DEF Pressed
<1>10. Alone'
  <2>1. \A u \in Attempts : Flying(attempts[u]) => attempts[u].mount # mount
    BY <1>1, <1>2 DEF Alone
  <2>2. \A u \in Attempts : attempts'[u].mount <= mount'
    BY <1>1, <1>2, <1>4, <1>6, <1>7 DEF Alone
  <2> QED BY <1>1, <1>2, <1>4, <1>6, <1>7, <2>1, <2>2 DEF Alone
<1>11. Reported'
  BY <1>2 DEF Reported
<1> QED BY <1>8, <1>9, <1>10, <1>11 DEF IInv

(* A press goes on: what it carries stays, and the form hears of its end   *)
(* only from itself.                                                       *)
LEMMA PressKeeps ==
    ASSUME IInv, NEW t \in Attempts, NEW a \in Attempt, attempts' = [attempts EXCEPT ![t] = a],
           attempts[t].phase \notin {"none", "success"}, a.phase # "none",
           a.mount = attempts[t].mount, a.draft = attempts[t].draft, a.refused # "config",
           Extends(history, history'), AppliedIn(a, history'),
           Flying(a) => Flying(attempts[t]) /\ state' = state,
           \/ state' = state
           \/ /\ state' \in {"success", "error"}
              /\ Flying(attempts[t]) /\ a.mount = mount
              /\ state' = "success" => a.phase = "success",
           UNCHANGED <<read, account, ownerRead, mount, draft>>
    PROVE  IInv'
<1>1. /\ Typed /\ Pressed /\ Alone /\ Reported /\ mount \in Nat
      /\ history \in Seq(PoolConfig)
      /\ \A u \in Attempts : attempts[u] \in Attempt
  BY DEF IInv, Typed
<1>2. /\ attempts' = [u \in Attempts |-> attempts'[u]]
      /\ \A u \in Attempts : attempts'[u] = IF u = t THEN a ELSE attempts[u]
  BY <1>1 DEF Typed
<1>3. read.version \in 0..Len(history')
  BY <1>1 DEF Typed, Extends
<1>4. Typed'
  BY <1>1, <1>2, <1>3 DEF Typed, Extends
<1>5. Carries(a)
  BY <1>1 DEF Pressed, Carries
<1>6. Pressed'
  BY <1>1, <1>2, <1>5, AppliedStays DEF Pressed
<1>7. Alone'
  <2>1. \A u \in Attempts : attempts'[u].mount = attempts[u].mount
    BY <1>2
  <2>2. \A u \in Attempts : Flying(attempts'[u]) => Flying(attempts[u])
    BY <1>2
  <2>3. ASSUME NEW u \in Attempts, Flying(attempts'[u]), attempts'[u].mount = mount, IsOwner
        PROVE  state' = "sending"
    <3>1. state = "sending"
      BY <1>1, <2>1, <2>2, <2>3 DEF Alone
    <3>2. CASE u = t
      BY <1>2, <2>3, <3>1, <3>2
    <3>3. CASE u # t /\ state' # state
      BY <1>1, <1>2, <2>1, <2>2, <2>3, <3>3 DEF Alone
    <3> QED BY <3>1, <3>2, <3>3
  <2>4. IsOwner' = IsOwner /\ mount' = mount
    BY DEF IsOwner
  <2> QED BY <1>1, <2>1, <2>2, <2>3, <2>4 DEF Alone
<1>8. Reported'
  <2>1. CASE state' = state
    <3>1. \A u \in Attempts : attempts[u].phase = "success" => attempts'[u] = attempts[u]
      BY <1>2
    <3> QED BY <1>1, <2>1, <3>1 DEF Reported
  <2>2. CASE state' # state
    BY <1>2, <2>2 DEF Reported
  <2> QED BY <2>1, <2>2
<1> QED BY <1>4, <1>6, <1>7, <1>8 DEF IInv
-------------------------------------------------------------------------------
(* The actions of a press. *)

In(a, phase) == [a EXCEPT !.phase = phase]
Answered(a, phase, refused) == [a EXCEPT !.phase = phase, !.refused = refused]
Mined(a, phase, refused, applied) ==
    [a EXCEPT !.phase = phase, !.refused = refused, !.applied = applied]
Done(a, joined) == [a EXCEPT !.phase = "success", !.joined = joined]

(* The updates of a press keep its type and all that they do not name. *)
LEMMA InField ==
    ASSUME NEW a \in Attempt, NEW phase \in Phases
    PROVE  LET b == In(a, phase) IN
           /\ b \in Attempt /\ b.phase = phase /\ b.refused = a.refused
           /\ b.mount = a.mount /\ b.draft = a.draft
BY DEF In, Attempt

LEMMA AnsweredField ==
    ASSUME NEW a \in Attempt, NEW phase \in Phases, NEW refused \in {"none", "notOwner", "config", "gas"}
    PROVE  LET b == Answered(a, phase, refused) IN
           /\ b \in Attempt /\ b.phase = phase /\ b.refused = refused
           /\ b.mount = a.mount /\ b.draft = a.draft
BY DEF Answered, Attempt

LEMMA MinedField ==
    ASSUME NEW a \in Attempt, NEW phase \in Phases, NEW refused \in {"none", "notOwner", "config", "gas"},
           NEW applied \in Nat
    PROVE  LET b == Mined(a, phase, refused, applied) IN
           /\ b \in Attempt /\ b.phase = phase /\ b.refused = refused /\ b.applied = applied
           /\ b.mount = a.mount /\ b.draft = a.draft
BY DEF Mined, Attempt

LEMMA DoneField ==
    ASSUME NEW a \in Attempt, NEW joined \in BOOLEAN
    PROVE  LET b == Done(a, joined) IN
           /\ b \in Attempt /\ b.phase = "success" /\ b.refused = a.refused
           /\ b.applied = a.applied /\ b.mount = a.mount /\ b.draft = a.draft
BY DEF Done, Attempt, Phases

(* What a press carries decides the call, and the hook's answer to it. *)
LEMMA CallAccepted ==
    ASSUME IInv, NEW t \in Attempts, attempts[t].phase # "none"
    PROVE  /\ Sent(t) = Content(attempts[t]) /\ Sent(t) \in PoolConfig
           /\ Parameters(Call(t)) = Sent(t)
           /\ RevertOf(attempts[t].sender, Call(t)) \in {"none", "notOwner"}
<1>1. PICK cfg \in PoolConfig : attempts[t].draft = {cfg} /\ ValidPoolConfig(cfg)
  BY DEF IInv, Pressed, Carries
<1>2. Sent(t) = cfg /\ Content(attempts[t]) = cfg
  BY <1>1 DEF Sent, Content
<1>3. Parameters(Call(t)) = cfg
  BY <1>2, SetterOrder DEF Call
<1>4. HookAccepts(cfg)
  BY <1>1, FormImpliesHook
<1> QED BY <1>1, <1>2, <1>3, <1>4 DEF RevertOf

LEMMA AttemptKeeps ==
    ASSUME IInv, NEW t \in Attempts, AttemptStep(t)
    PROVE  IInv'
<1> DEFINE old == attempts[t]
<1>1. /\ Typed /\ history \in Seq(PoolConfig) /\ old \in Attempt /\ AppliedIn(old, history)
      /\ old.refused # "config"
      /\ attempts = [u \in Attempts |-> attempts[u]]
  BY DEF IInv, Typed, Pressed, Carries
<1>2. Extends(history, history)
  BY <1>1, Same
<1>3. CASE EstimateAnswers(t)
  <2> DEFINE revert == RevertOf(old.sender, Call(t))
             signing == In(old, "signing")
             failed == Answered(old, "failed", revert)
  <2>1. /\ old.phase = "estimating"
        /\ UNCHANGED <<history, read, account, ownerRead, mount, draft>>
        /\ \/ /\ attempts' = [attempts EXCEPT ![t].phase = "signing"]
              /\ state' = state
           \/ /\ attempts' = [attempts EXCEPT ![t].phase = "failed", ![t].refused = revert]
              /\ Shows(t, "error")
    BY <1>3 DEF EstimateAnswers, Moves, hookVars, readVars
  <2>2. revert \in {"none", "notOwner"}
    BY <2>1, CallAccepted
  <2> HIDE DEF revert
  <2>3. /\ signing \in Attempt /\ signing.phase = "signing" /\ signing.refused = old.refused
        /\ failed \in Attempt /\ failed.phase = "failed" /\ failed.refused = revert
        /\ signing.mount = old.mount /\ signing.draft = old.draft
        /\ failed.mount = old.mount /\ failed.draft = old.draft
    BY <1>1, <2>2, InField, AnsweredField DEF Phases
  <2>4. \/ attempts' = [attempts EXCEPT ![t] = signing] /\ state' = state
        \/ attempts' = [attempts EXCEPT ![t] = failed] /\ Shows(t, "error")
    BY <1>1, <2>1 DEF In, Answered
  <2> HIDE DEF signing, failed
  <2>5. CASE attempts' = [attempts EXCEPT ![t] = signing] /\ state' = state
    <3>1. Flying(old) /\ AppliedIn(signing, history)
      BY <2>1, <2>3 DEF Flying, AppliedIn
    <3> QED BY <1>1, <1>2, <2>1, <2>3, <2>5, <3>1, PressKeeps
  <2>6. CASE attempts' = [attempts EXCEPT ![t] = failed] /\ Shows(t, "error")
    <3>1. Flying(old) /\ ~ Flying(failed) /\ AppliedIn(failed, history)
      BY <2>1, <2>3 DEF Flying, AppliedIn
    <3>2. \/ state' = state
          \/ state' = "error" /\ old.mount = mount
      BY <2>6 DEF Shows
    <3> QED BY <1>1, <1>2, <2>1, <2>2, <2>3, <2>6, <3>1, <3>2, PressKeeps
  <2> QED BY <2>4, <2>5, <2>6
<1>4. CASE WalletSigns(t)
  <2> DEFINE submitted == In(old, "submitted")
  <2>1. /\ old.phase = "signing" /\ attempts' = [attempts EXCEPT ![t].phase = "submitted"]
        /\ UNCHANGED <<history, read, account, ownerRead, mount, draft, state>>
    BY <1>4 DEF WalletSigns, Moves, hookVars, readVars, formVars
  <2>2. /\ submitted \in Attempt /\ submitted.phase = "submitted"
        /\ submitted.refused = old.refused
        /\ submitted.mount = old.mount /\ submitted.draft = old.draft
    BY <1>1, InField DEF Phases
  <2>3. attempts' = [attempts EXCEPT ![t] = submitted]
    BY <1>1, <2>1 DEF In
  <2> HIDE DEF submitted
  <2>4. Flying(old) /\ AppliedIn(submitted, history)
    BY <2>1, <2>2 DEF Flying, AppliedIn
  <2> QED BY <1>1, <1>2, <2>1, <2>2, <2>3, <2>4, PressKeeps
<1>5. CASE StepFails(t)
  <2> DEFINE phase == IF old.phase = "submitted" THEN "abandoned" ELSE "failed"
             failed == In(old, phase)
  <2>1. /\ Flying(old) /\ attempts' = [attempts EXCEPT ![t].phase = phase]
        /\ UNCHANGED <<history, read, account, ownerRead, mount, draft>>
        /\ Shows(t, "error")
    BY <1>5 DEF StepFails, Moves, Flying, hookVars, readVars
  <2>2. phase \in {"abandoned", "failed"}
    OBVIOUS
  <2> HIDE DEF phase
  <2>3. /\ failed \in Attempt /\ failed.phase = phase /\ failed.refused = old.refused
        /\ failed.mount = old.mount /\ failed.draft = old.draft
    BY <1>1, <2>2, InField DEF Phases
  <2>4. attempts' = [attempts EXCEPT ![t] = failed]
    BY <1>1, <2>1 DEF In
  <2> HIDE DEF failed
  <2>5. ~ Flying(failed) /\ AppliedIn(failed, history) /\ old.phase \notin {"none", "success"}
        /\ failed.phase # "none"
    BY <2>1, <2>2, <2>3 DEF Flying, AppliedIn
  <2>6. \/ state' = state
        \/ state' = "error" /\ old.mount = mount
    BY <2>1 DEF Shows
  <2> QED BY <1>1, <1>2, <2>1, <2>3, <2>4, <2>5, <2>6, PressKeeps
<1>6. CASE \E enoughGas \in BOOLEAN : Mine(t, enoughGas)
  <2>1. PICK enoughGas \in BOOLEAN : Mine(t, enoughGas)
    BY <1>6
  <2> DEFINE revert == IF enoughGas THEN RevertOf(old.sender, Call(t)) ELSE "gas"
             phase == IF old.phase = "abandoned" THEN "failed"
                      ELSE IF revert = "none" THEN "mined" ELSE "reverted"
             applied == IF revert = "none" THEN Len(history) + 1 ELSE 0
             stored == StoredConfig(Parameters(Call(t)))
             mined == Mined(old, phase, revert, applied)
  <2>2. /\ old.phase \in {"submitted", "abandoned"}
        /\ history' = IF revert = "none" THEN Append(history, stored) ELSE history
        /\ attempts' = [attempts EXCEPT ![t].phase = phase, ![t].refused = revert,
                                        ![t].applied = applied]
        /\ UNCHANGED <<read, account, ownerRead, mount, draft, state>>
    BY <2>1 DEF Mine, readVars, formVars
  <2>3. /\ Sent(t) = Content(old) /\ Sent(t) \in PoolConfig
        /\ stored = StoredConfig(Content(old)) /\ stored \in PoolConfig
        /\ revert \in {"none", "notOwner", "gas"}
    BY <2>2, CallAccepted, StoredTyped
  <2>4. /\ phase \in {"failed", "mined", "reverted"}
        /\ phase = "mined" => revert = "none" /\ old.phase = "submitted"
        /\ old.phase = "abandoned" => phase = "failed"
        /\ applied \in Nat /\ (revert = "none" => applied = Len(history) + 1)
    BY <1>1, <2>2
  <2> HIDE DEF revert, phase, applied, stored
  <2>5. /\ mined \in Attempt /\ mined.phase = phase /\ mined.refused = revert
        /\ mined.applied = applied
        /\ mined.mount = old.mount /\ mined.draft = old.draft
    <3>1. phase \in Phases /\ revert \in {"none", "notOwner", "config", "gas"} /\ applied \in Nat
      BY <2>3, <2>4 DEF Phases
    <3> HIDE DEF old
    <3> QED BY <1>1, <3>1, MinedField
  <2>6. attempts' = [attempts EXCEPT ![t] = mined]
    BY <1>1, <2>2 DEF Mined
  <2> HIDE DEF mined
  <2>7. Extends(history, history')
    BY <1>1, <1>2, <2>2, <2>3, Appending
  <2>8. AppliedIn(mined, history')
    BY <1>1, <2>2, <2>3, <2>4, <2>5, Appending DEF AppliedIn, Content
  <2>9. /\ Flying(mined) => Flying(old)
        /\ old.phase \notin {"none", "success"} /\ mined.phase # "none"
        /\ mined.refused # "config"
    BY <2>2, <2>3, <2>4, <2>5 DEF Flying
  <2> QED BY <1>1, <2>2, <2>5, <2>6, <2>7, <2>8, <2>9, PressKeeps
<1>7. CASE ReceiptArrives(t)
  <2> DEFINE joined == fetch # {} /\ read.version = 0
             done == Done(old, joined)
             failed == In(old, "failed")
  <2>1. /\ old.phase \in {"mined", "reverted"}
        /\ UNCHANGED <<history, read, account, ownerRead, mount, draft>>
        /\ \/ /\ old.phase = "mined"
              /\ attempts' = [attempts EXCEPT ![t].phase = "success", ![t].joined = joined]
              /\ Shows(t, "success")
           \/ /\ attempts' = [attempts EXCEPT ![t].phase = "failed"]
              /\ Shows(t, "error")
    BY <1>7 DEF ReceiptArrives, ReceiptSucceeded, Moves, hookVars
  <2>2. joined \in BOOLEAN
    OBVIOUS
  <2> HIDE DEF joined
  <2>3. /\ done \in Attempt /\ done.phase = "success" /\ done.refused = old.refused
        /\ done.mount = old.mount /\ done.draft = old.draft /\ done.applied = old.applied
        /\ failed \in Attempt /\ failed.phase = "failed" /\ failed.refused = old.refused
        /\ failed.mount = old.mount /\ failed.draft = old.draft
    BY <1>1, <2>2, InField, DoneField DEF Phases
  <2>4. \/ /\ old.phase = "mined" /\ attempts' = [attempts EXCEPT ![t] = done]
           /\ Shows(t, "success")
        \/ attempts' = [attempts EXCEPT ![t] = failed] /\ Shows(t, "error")
    BY <1>1, <2>1 DEF In, Done
  <2> HIDE DEF done, failed
  <2>5. Flying(old) /\ ~ Flying(done) /\ ~ Flying(failed)
    BY <2>1, <2>3 DEF Flying
  <2>6. CASE /\ old.phase = "mined" /\ attempts' = [attempts EXCEPT ![t] = done]
             /\ Shows(t, "success")
    <3>1. AppliedIn(done, history)
      BY <1>1, <2>3, <2>6 DEF AppliedIn, Content
    <3>2. \/ state' = state
          \/ state' = "success" /\ old.mount = mount
      BY <2>6 DEF Shows
    <3> QED BY <1>1, <1>2, <2>1, <2>3, <2>5, <2>6, <3>1, <3>2, PressKeeps
  <2>7. CASE attempts' = [attempts EXCEPT ![t] = failed] /\ Shows(t, "error")
    <3>1. AppliedIn(failed, history)
      BY <2>3 DEF AppliedIn
    <3>2. \/ state' = state
          \/ state' = "error" /\ old.mount = mount
      BY <2>7 DEF Shows
    <3> QED BY <1>1, <1>2, <2>1, <2>3, <2>5, <2>7, <3>1, <3>2, PressKeeps
  <2> QED BY <2>4, <2>6, <2>7
<1> QED BY <1>3, <1>4, <1>5, <1>6, <1>7 DEF AttemptStep

-------------------------------------------------------------------------------
LEMMA InitIInv == Init => IInv
<1> SUFFICES ASSUME Init PROVE IInv
  OBVIOUS
<1>1. /\ history = <<Disabled>> /\ Disabled \in PoolConfig
      /\ read.version = 0 /\ account = NoAccount /\ mount = 0 /\ draft = {} /\ state = "idle"
      /\ attempts = [t \in Attempts |-> attempts[t]]
      /\ \A t \in Attempts : attempts[t] = NoAttempt
  BY DEF Init, NoDraft, Disabled, PoolConfig
<1>2. /\ NoAttempt \in Attempt /\ NoAttempt.phase = "none" /\ NoAttempt.refused = "none"
      /\ NoAttempt.mount = 0
  BY DEF NoAttempt, Attempt, Phases, NoDraft
<1>3. Typed
  BY <1>1, <1>2 DEF Typed
<1>4. Pressed
  BY <1>1, <1>2 DEF Pressed, Carries, AppliedIn
<1>5. Alone /\ Reported
  BY <1>1, <1>2 DEF Alone, Reported, Flying
<1> QED BY <1>3, <1>4, <1>5 DEF IInv

LEMMA NextIInv ==
    ASSUME IInv, [Next]_vars
    PROVE  IInv'
<1>1. /\ Typed /\ history \in Seq(PoolConfig) /\ Extends(history, history)
      /\ read.version \in 0..Len(history) /\ draft \in SUBSET PoolConfig
      /\ \A c, d \in draft : c = d
  BY Same DEF IInv, Typed
<1>2. ASSUME NEW cfg \in Drafts, ConfiguredElsewhere(cfg)
      PROVE  IInv'
  <2>1. /\ history' = Append(history, StoredConfig(cfg))
        /\ UNCHANGED <<read, account, ownerRead, mount, draft, state, attempts>>
    BY <1>2 DEF ConfiguredElsewhere, readVars, formVars
  <2>2. Extends(history, history')
    BY <1>1, <2>1, DraftsAssumption, StoredTyped, Appending
  <2>3. read'.version \in 0..Len(history')
    BY <1>1, <2>1, <2>2 DEF Extends
  <2> QED BY <1>1, <2>1, <2>2, <2>3, ElsewhereKeeps
<1>3. ASSUME NEW a \in Accounts \union {NoAccount}, SwitchAccount(a)
      PROVE  IInv'
  BY <1>3, RemountKeeps DEF SwitchAccount
<1>4. CASE PollOwner
  <2>1. account \in Accounts \union {NoAccount}
    BY <1>1 DEF Typed
  <2> QED BY <1>4, <2>1, RemountKeeps DEF PollOwner
<1>5. CASE ReadStep
  <2>1. /\ history' = history
        /\ UNCHANGED <<account, ownerRead, mount, draft, state, attempts>>
    BY <1>5 DEF ReadStep, PollConfig, ConfigAnswers, ConfigUnanswered, hookVars, formVars
  <2>2. read'.version \in 0..Len(history)
    <3>1. CASE PollConfig
      BY <1>1, <3>1 DEF PollConfig
    <3>2. ASSUME NEW v \in DOMAIN history, ConfigAnswers(v)
          PROVE  read'.version \in 0..Len(history)
      BY <1>1, <3>2 DEF ConfigAnswers
    <3>3. CASE ConfigUnanswered
      <4>1. \/ read' = read
            \/ read'.version = read.version
        BY <3>3 DEF ConfigUnanswered
      <4> QED BY <1>1, <4>1
    <3> QED BY <1>5, <3>1, <3>2, <3>3 DEF ReadStep
  <2> QED BY <1>1, <2>1, <2>2, ElsewhereKeeps
<1>6. ASSUME NEW d \in {{cfg} : cfg \in Drafts} \union {NoDraft}, EditDraft(d)
      PROVE  IInv'
  <2>1. d \in SUBSET PoolConfig /\ \A c, e \in d : c = e
    BY DraftsAssumption DEF NoDraft
  <2>2. /\ draft' = d
        /\ UNCHANGED <<history, read, account, ownerRead, mount, state, attempts>>
    BY <1>6 DEF EditDraft, hookVars, readVars
  <2> QED BY <1>1, <2>1, <2>2, ElsewhereKeeps
<1>7. CASE LoadCurrent
  <2>1. /\ read.version # 0
        /\ draft' = {PoolConfigFromGetter(Getter(history[read.version]))}
        /\ UNCHANGED <<history, read, account, ownerRead, mount, state, attempts>>
    BY <1>7 DEF LoadCurrent, hookVars, readVars
  <2>2. history[read.version] \in PoolConfig
    BY <1>1, <2>1
  <2>3. draft' = {history[read.version]}
    BY <2>1, <2>2, GetterOrder
  <2> QED BY <1>1, <2>1, <2>2, <2>3, ElsewhereKeeps
<1>8. ASSUME NEW t \in Attempts, Apply(t) \/ AttemptStep(t)
      PROVE  IInv'
  BY <1>8, ApplyKeeps, AttemptKeeps
<1>9. CASE UNCHANGED vars
  <2>1. UNCHANGED <<history, read, account, ownerRead, mount, draft, state, attempts>>
    BY <1>9 DEF vars, hookVars, readVars, formVars
  <2> QED BY <1>1, <2>1, ElsewhereKeeps
<1> QED BY <1>2, <1>3, <1>4, <1>5, <1>6, <1>7, <1>8, <1>9 DEF Next

THEOREM Inductive == Spec => []IInv
BY InitIInv, NextIInv, PTL DEF Spec

(* A configuration the form lets through is never refused by the hook for  *)
(* what it contains (poolConfig.ts: validatePoolConfig).                   *)
THEOREM NeverRefusedForContent == Spec => []FormNeverRefusedForContent
<1>1. IInv => FormNeverRefusedForContent
  BY DEF IInv, Pressed, Carries, FormNeverRefusedForContent
<1> QED BY <1>1, Inductive, PTL

(* Two transactions of one form are never in flight together, however the  *)
(* form is edited, left and reopened (pools.tsx: the disabled button).     *)
THEOREM OneTransaction == Spec => []OneAtATime
<1>1. IInv => OneAtATime
  BY DEF IInv, Alone, Flying, InFlight, OneAtATime
<1> QED BY <1>1, Inductive, PTL

(* A success is of a transaction of the form on screen, and the hook       *)
(* stored what was sent (pools.tsx: apply).                                *)
THEOREM SuccessIsReal == Spec => []SuccessWasApplied
<1>1. ASSUME IInv PROVE SuccessWasApplied
  <2>1. ASSUME NEW t \in Attempts, attempts[t].phase = "success"
        PROVE  /\ attempts[t].applied \in DOMAIN history
               /\ history[attempts[t].applied] = StoredConfig(Sent(t))
    <3>1. AppliedIn(attempts[t], history) /\ history \in Seq(PoolConfig)
      BY <1>1 DEF IInv, Pressed, Typed
    <3> QED BY <2>1, <3>1 DEF AppliedIn, Content, Sent
  <2> QED BY <1>1, <2>1 DEF IInv, Reported, SuccessWasApplied
<1> QED BY <1>1, Inductive, PTL

-------------------------------------------------------------------------------
(* Types. *)

(* What was typed stays so while the history grows. *)
LEMMA StillTyped ==
    ASSUME TypeOK, Extends(history, history')
    PROVE  /\ history' # <<>> /\ Version' \in Nat /\ Version <= Version'
           /\ read \in [version : 0..Version', isError : BOOLEAN]
           /\ fetch \in AtMostOneOf(1..Version')
           /\ draft \in AtMostOneOf(Drafts \union Range(history'))
           /\ \A t \in Attempts : attempts[t].phase \in Phases /\ attempts[t].applied \in 0..Version'
<1>1. /\ history \in Seq(PoolConfig) /\ history # <<>> /\ history' \in Seq(PoolConfig)
      /\ Len(history) \in Nat /\ Len(history') \in Nat /\ Len(history) <= Len(history')
      /\ \A n \in 1..Len(history) : history'[n] = history[n]
      /\ Version = Len(history) /\ Version' = Len(history')
  BY DEF TypeOK, Extends, Version
<1>2. 0..Version \subseteq 0..Version' /\ 1..Version \subseteq 1..Version' /\ history' # <<>>
  BY <1>1
<1>3. Range(history) \subseteq Range(history')
  BY <1>1, <1>2 DEF Range
<1>4. fetch \in AtMostOneOf(1..Version')
  BY <1>2 DEF TypeOK, AtMostOneOf
<1>5. draft \in AtMostOneOf(Drafts \union Range(history'))
  BY <1>3 DEF TypeOK, AtMostOneOf
<1> QED BY <1>1, <1>2, <1>4, <1>5 DEF TypeOK

LEMMA StepTypes ==
    ASSUME IInv, IInv', TypeOK, Extends(history, history'),
           changes' \in 0..MAX_CHANGES,
           read' \in [version : 0..Version', isError : BOOLEAN],
           fetch' \in AtMostOneOf(1..Version'),
           ownerRead' \in {Owner, NoAccount},
           draft' \in AtMostOneOf(Drafts \union Range(history')),
           state' \in {"idle", "sending", "success", "error"},
           \A t \in Attempts : attempts'[t].phase \in Phases /\ attempts'[t].applied \in 0..Version'
    PROVE  TypeOK'
<1>1. history' \in Seq(PoolConfig) /\ account' \in Accounts \union {NoAccount} /\ mount' \in Nat
  BY DEF IInv, Typed
<1>2. history' # <<>>
  BY StillTyped
<1> QED BY <1>1, <1>2 DEF TypeOK

(* A press changes its own record, and the history at most grows by one. *)
LEMMA AttemptTypes ==
    ASSUME IInv, IInv', TypeOK, NEW t \in Attempts, Apply(t) \/ AttemptStep(t)
    PROVE  TypeOK'
<1> DEFINE old == attempts[t]
<1>1. /\ history \in Seq(PoolConfig) /\ Extends(history, history) /\ old \in Attempt
      /\ attempts = [u \in Attempts |-> attempts[u]]
      /\ old.phase \in Phases /\ old.applied \in 0..Version /\ Version \in Nat
      /\ Version = Len(history) /\ history # <<>>
      /\ changes \in 0..MAX_CHANGES /\ ownerRead \in {Owner, NoAccount}
      /\ state \in {"idle", "sending", "success", "error"}
  BY Same DEF IInv, Typed, TypeOK, Version
<1>2. ASSUME NEW a, attempts' = [attempts EXCEPT ![t] = a], a.phase \in Phases,
             Extends(history, history'), a.applied \in 0..Version',
             fetch' \in AtMostOneOf(1..Version'), state' \in {"idle", "sending", "success", "error"},
             UNCHANGED <<changes, read, ownerRead, draft>>
      PROVE  TypeOK'
  <2>1. \A u \in Attempts : attempts'[u] = IF u = t THEN a ELSE attempts[u]
    BY <1>1, <1>2
  <2>2. \A u \in Attempts : attempts'[u].phase \in Phases /\ attempts'[u].applied \in 0..Version'
    BY <1>2, <2>1, StillTyped
  <2>3. /\ read' \in [version : 0..Version', isError : BOOLEAN]
        /\ draft' \in AtMostOneOf(Drafts \union Range(history'))
    BY <1>2, StillTyped
  <2> QED BY <1>1, <1>2, <2>2, <2>3, StepTypes
<1>3. ASSUME NEW a, attempts' = [attempts EXCEPT ![t] = a], a.phase \in Phases,
             history' = history, a.applied \in 0..Version,
             fetch' = fetch, state' \in {"idle", "sending", "success", "error"},
             UNCHANGED <<changes, read, ownerRead, draft>>
      PROVE  TypeOK'
  <2>1. Extends(history, history') /\ Version' = Version
    BY <1>1, <1>3 DEF Version
  <2>2. fetch' \in AtMostOneOf(1..Version')
    BY <1>3, <2>1 DEF TypeOK
  <2> QED BY <1>2, <1>3, <2>1, <2>2
<1>4. CASE Apply(t)
  <2> DEFINE a == [NoAttempt EXCEPT !.phase = "estimating", !.mount = mount,
                                    !.sender = account, !.draft = draft]
  <2>1. /\ attempts' = [attempts EXCEPT ![t] = a] /\ state' = "sending"
        /\ UNCHANGED <<history, changes, read, fetch, ownerRead, draft>>
    BY <1>4 DEF Apply, hookVars, readVars
  <2>2. a.phase \in Phases /\ a.applied = 0
    BY DEF NoAttempt, Phases
  <2>3. a.applied \in 0..Version
    BY <1>1, <2>2
  <2> HIDE DEF a
  <2> QED BY <1>3, <2>1, <2>2, <2>3
<1>5. CASE EstimateAnswers(t)
  <2> DEFINE revert == RevertOf(old.sender, Call(t))
  <2>1. PICK a \in {In(old, "signing"), Answered(old, "failed", revert)} :
              attempts' = [attempts EXCEPT ![t] = a]
    BY <1>1, <1>5 DEF EstimateAnswers, Moves, In, Answered
  <2>2. a.phase \in Phases /\ a.applied = old.applied
    BY <1>1, <2>1 DEF In, Answered, Attempt, Phases
  <2>3. /\ state' \in {state, "error"}
        /\ UNCHANGED <<history, changes, read, fetch, ownerRead, draft>>
    BY <1>5 DEF EstimateAnswers, Shows, hookVars, readVars
  <2> QED BY <1>1, <1>3, <2>1, <2>2, <2>3
<1>6. ASSUME NEW phase \in Phases, Moves(t, phase),
             state' \in {state, "error"},
             UNCHANGED <<history, changes, read, fetch, ownerRead, draft>>
      PROVE  TypeOK'
  <2> DEFINE a == In(old, phase)
  <2>1. attempts' = [attempts EXCEPT ![t] = a]
    BY <1>1, <1>6 DEF Moves, In
  <2>2. a.phase = phase /\ a.applied = old.applied
    BY <1>1 DEF In, Attempt
  <2> QED BY <1>1, <1>3, <1>6, <2>1, <2>2
<1>7. CASE WalletSigns(t)
  <2>1. "submitted" \in Phases /\ Moves(t, "submitted") /\ state' = state
        /\ UNCHANGED <<history, changes, read, fetch, ownerRead, draft>>
    BY <1>7 DEF WalletSigns, hookVars, readVars, formVars, Phases
  <2> QED BY <1>6, <2>1
<1>8. CASE StepFails(t)
  <2>1. /\ \E phase \in Phases : Moves(t, phase)
        /\ state' \in {state, "error"}
        /\ UNCHANGED <<history, changes, read, fetch, ownerRead, draft>>
    BY <1>8 DEF StepFails, Shows, hookVars, readVars, Phases
  <2> QED BY <1>6, <2>1
<1>9. ASSUME NEW enoughGas \in BOOLEAN, Mine(t, enoughGas)
      PROVE  TypeOK'
  <2> DEFINE revert == IF enoughGas THEN RevertOf(old.sender, Call(t)) ELSE "gas"
             phase == IF old.phase = "abandoned" THEN "failed"
                      ELSE IF revert = "none" THEN "mined" ELSE "reverted"
             applied == IF revert = "none" THEN Len(history) + 1 ELSE 0
             stored == StoredConfig(Parameters(Call(t)))
             a == Mined(old, phase, revert, applied)
  <2>1. /\ old.phase \in {"submitted", "abandoned"}
        /\ history' = IF revert = "none" THEN Append(history, stored) ELSE history
        /\ attempts' = [attempts EXCEPT ![t].phase = phase, ![t].refused = revert,
                                        ![t].applied = applied]
        /\ UNCHANGED <<changes, read, fetch, ownerRead, draft, state>>
    BY <1>9 DEF Mine, readVars, formVars
  <2>2. stored \in PoolConfig
    BY <2>1, CallAccepted, StoredTyped
  <2>3. phase \in Phases
    BY DEF Phases
  <2> HIDE DEF phase, stored
  <2>4. a.phase = phase /\ a.applied = applied
    BY <1>1 DEF Mined, Attempt
  <2>5. attempts' = [attempts EXCEPT ![t] = a]
    BY <1>1, <2>1 DEF Mined
  <2>6. Extends(history, history')
    BY <1>1, <2>1, <2>2, Appending
  <2>7. applied \in 0..Version'
    BY <1>1, <2>1, <2>2, Appending DEF Version
  <2>8. fetch' \in AtMostOneOf(1..Version')
    BY <2>1, <2>6, StillTyped
  <2> HIDE DEF a, applied
  <2> QED BY <1>1, <1>2, <2>1, <2>3, <2>4, <2>5, <2>6, <2>7, <2>8
<1>10. CASE ReceiptArrives(t)
  <2>1. /\ UNCHANGED <<history, changes, read, ownerRead, draft>>
        /\ state' \in {state, "success", "error"}
    BY <1>10 DEF ReceiptArrives, Shows, hookVars
  <2>2. CASE ReceiptSucceeded(old)
    <3>1. /\ attempts' = [attempts EXCEPT ![t] = Done(old, fetch # {} /\ read.version = 0)]
          /\ fetch' \in {{Version}, fetch}
      BY <1>1, <1>10, <2>2 DEF ReceiptArrives, Done, Refetched
    <3> DEFINE a == Done(old, fetch # {} /\ read.version = 0)
    <3>2. a.phase = "success" /\ a.applied = old.applied
      BY <1>1 DEF Done, Attempt
    <3>3. Version' = Version /\ Version \in 1..Version /\ Extends(history, history')
      BY <1>1, <2>1 DEF Version
    <3>4. fetch' \in AtMostOneOf(1..Version')
      BY <3>1, <3>3 DEF TypeOK, AtMostOneOf
    <3> QED BY <1>1, <1>2, <2>1, <3>1, <3>2, <3>3, <3>4 DEF Phases
  <2>3. CASE ~ ReceiptSucceeded(old)
    <3>1. "failed" \in Phases /\ Moves(t, "failed") /\ fetch' = fetch /\ state' \in {state, "error"}
      BY <1>10, <2>3 DEF ReceiptArrives, Shows, Phases
    <3> QED BY <1>6, <2>1, <3>1
  <2> QED BY <2>2, <2>3
<1> QED BY <1>4, <1>5, <1>7, <1>8, <1>9, <1>10 DEF AttemptStep

LEMMA NextTypes ==
    ASSUME IInv, IInv', TypeOK, [Next]_vars
    PROVE  TypeOK'
<1>1. /\ history \in Seq(PoolConfig) /\ Extends(history, history)
      /\ changes \in 0..MAX_CHANGES /\ ownerRead \in {Owner, NoAccount}
      /\ state \in {"idle", "sending", "success", "error"}
      /\ Version = Len(history) /\ Version \in Nat
  BY Same DEF IInv, Typed, TypeOK, Version
<1>2. ASSUME history' = history, changes' = changes, attempts' = attempts,
             read' \in [version : 0..Version, isError : BOOLEAN],
             fetch' \in AtMostOneOf(1..Version),
             ownerRead' \in {Owner, NoAccount},
             draft' \in AtMostOneOf(Drafts \union Range(history)),
             state' \in {state, "idle"}
      PROVE  TypeOK'
  <2>1. Extends(history, history') /\ Version' = Version
    BY <1>1, <1>2 DEF Version
  <2> QED BY <1>1, <1>2, <2>1, StepTypes, StillTyped
<1>3. /\ read \in [version : 0..Version, isError : BOOLEAN]
      /\ fetch \in AtMostOneOf(1..Version) /\ draft \in AtMostOneOf(Drafts \union Range(history))
      /\ history # <<>>
  BY DEF TypeOK
<1>4. ASSUME NEW cfg \in Drafts, ConfiguredElsewhere(cfg)
      PROVE  TypeOK'
  <2>1. /\ history' = Append(history, StoredConfig(cfg)) /\ changes < MAX_CHANGES
        /\ changes' = changes + 1
        /\ UNCHANGED <<read, fetch, ownerRead, draft, state, attempts>>
    BY <1>4 DEF ConfiguredElsewhere, readVars, formVars
  <2>2. Extends(history, history')
    BY <1>1, <2>1, DraftsAssumption, StoredTyped, Appending
  <2>3. changes' \in 0..MAX_CHANGES
    BY <1>1, <2>1, BoundAssumption
  <2> QED BY <1>1, <2>1, <2>2, <2>3, StepTypes, StillTyped
<1>5. ASSUME NEW a, NEW owner \in {Owner, NoAccount}, Remount(a, owner),
             UNCHANGED <<hookVars, read, fetch, attempts>>
      PROVE  TypeOK'
  <2>1. /\ ownerRead' = owner /\ draft' \in {draft, {}} /\ state' \in {state, "idle"}
        /\ UNCHANGED <<history, changes, read, fetch, attempts>>
    BY <1>5 DEF Remount, NoDraft, hookVars
  <2>2. draft' \in AtMostOneOf(Drafts \union Range(history))
    BY <1>3, <2>1 DEF AtMostOneOf
  <2> QED BY <1>2, <1>3, <2>1, <2>2
<1>6. ASSUME NEW a \in Accounts \union {NoAccount}, SwitchAccount(a)
      PROVE  TypeOK'
  BY <1>1, <1>5, <1>6 DEF SwitchAccount
<1>7. CASE PollOwner
  BY <1>5, <1>7 DEF PollOwner
<1>8. CASE PollConfig
  <2>1. Version \in 1..Version
    BY <1>1, <1>3
  <2>2. fetch' \in AtMostOneOf(1..Version)
    BY <1>8, <2>1 DEF PollConfig, AtMostOneOf
  <2> QED BY <1>2, <1>3, <1>8, <2>2, <1>1 DEF PollConfig, hookVars, formVars
<1>9. ASSUME NEW v \in DOMAIN history, ConfigAnswers(v)
      PROVE  TypeOK'
  <2>1. /\ read' \in [version : 0..Version, isError : BOOLEAN]
        /\ fetch' \in AtMostOneOf(1..Version)
    BY <1>1, <1>9 DEF ConfigAnswers, AtMostOneOf
  <2> QED BY <1>1, <1>2, <1>3, <1>9, <2>1 DEF ConfigAnswers, hookVars, formVars
<1>10. CASE ConfigUnanswered
  <2>1. /\ read' \in [version : 0..Version, isError : BOOLEAN]
        /\ fetch' \in AtMostOneOf(1..Version)
    BY <1>3, <1>10 DEF ConfigUnanswered, AtMostOneOf
  <2> QED BY <1>1, <1>2, <1>3, <1>10, <2>1 DEF ConfigUnanswered, hookVars, formVars
<1>11. ASSUME NEW d \in {{cfg} : cfg \in Drafts} \union {NoDraft}, EditDraft(d)
       PROVE  TypeOK'
  <2>1. draft' \in AtMostOneOf(Drafts \union Range(history))
    BY <1>11 DEF EditDraft, AtMostOneOf, NoDraft
  <2> QED BY <1>1, <1>2, <1>3, <1>11, <2>1 DEF EditDraft, hookVars, readVars
<1>12. CASE LoadCurrent
  <2>1. read.version \in 1..Len(history) /\ history[read.version] \in PoolConfig
    BY <1>1, <1>3, <1>12 DEF LoadCurrent
  <2>2. draft' = {history[read.version]}
    BY <1>12, <2>1, GetterOrder DEF LoadCurrent
  <2>3. history[read.version] \in Range(history)
    BY <1>1, <2>1 DEF Range
  <2>4. draft' \in AtMostOneOf(Drafts \union Range(history))
    BY <2>2, <2>3 DEF AtMostOneOf
  <2> QED BY <1>1, <1>2, <1>3, <1>12, <2>4 DEF LoadCurrent, hookVars, readVars
<1>13. ASSUME NEW t \in Attempts, Apply(t) \/ AttemptStep(t)
       PROVE  TypeOK'
  BY <1>13, AttemptTypes
<1>14. CASE UNCHANGED vars
  BY <1>1, <1>2, <1>3, <1>14 DEF vars, hookVars, readVars, formVars
<1> QED
  BY <1>4, <1>6, <1>7, <1>8, <1>9, <1>10, <1>11, <1>12, <1>13, <1>14 DEF Next, ReadStep

(* Type correctness: in particular no read, fetch or press names a         *)
(* configuration the hook never stored (useProtocol.ts, pools.tsx).        *)
THEOREM TypesKept == Spec => []TypeOK
<1>1. Init => TypeOK
  <2>1. <<Disabled>> \in Seq(PoolConfig) /\ Len(<<Disabled>>) = 1 /\ <<Disabled>> # <<>>
    BY DEF Disabled, PoolConfig
  <2>2. 0 \in 0..MAX_CHANGES
    BY BoundAssumption
  <2>3. {1} \in AtMostOneOf(1..1) /\ \A S : {} \in AtMostOneOf(S)
    BY DEF AtMostOneOf
  <2>4. NoAttempt.phase \in Phases /\ NoAttempt.applied = 0
    BY DEF NoAttempt, Phases
  <2> QED BY <2>1, <2>2, <2>3, <2>4 DEF Init, TypeOK, Version, NoDraft
<1>2. IInv /\ IInv' /\ TypeOK /\ [Next]_vars => TypeOK'
  BY NextTypes
<1> QED BY <1>1, <1>2, Inductive, PTL DEF Spec

(* Together: what the form lets through the hook accepts, a success is of  *)
(* what was sent, and one transaction of an instance is in flight          *)
(* (pools.tsx, poolConfig.ts).                                             *)
THEOREM FormIsSafe == Spec => []FormSafe
<1>1. TypeOK /\ FormNeverRefusedForContent /\ SuccessWasApplied /\ OneAtATime => FormSafe
  BY DEF FormSafe
<1> QED BY <1>1, TypesKept, NeverRefusedForContent, SuccessIsReal, OneTransaction, PTL

-------------------------------------------------------------------------------
(* The read that follows a success. *)

(* Whatever read or fetch is the last one, it began after configuration n  *)
(* was stored, or it failed.                                               *)
Covered(n, fetching, shown) ==
    /\ \A started \in fetching : started >= n
    /\ fetching = {} => shown.isError \/ shown.version >= n

Asked(a) == a.phase = "success" /\ ~ a.joined

Fresh == \A t \in Attempts : Asked(attempts[t]) => Covered(attempts[t].applied, fetch, read)

(* The reads change, the attempts do not. *)
LEMMA ReadsKeepFresh ==
    ASSUME IInv, TypeOK, Fresh, ReadStep
    PROVE  Fresh'
<1>1. attempts' = attempts /\ Version \in Nat
  BY DEF ReadStep, PollConfig, ConfigAnswers, ConfigUnanswered, Version, TypeOK
<1> SUFFICES ASSUME NEW t \in Attempts, Asked(attempts[t])
             PROVE  Covered(attempts[t].applied, fetch', read')
  BY <1>1 DEF Fresh
<1> DEFINE n == attempts[t].applied
<1>2. n \in 1..Version /\ Covered(n, fetch, read)
  BY DEF IInv, Pressed, AppliedIn, Asked, Fresh, Version
<1>3. /\ read \in [version : 0..Version, isError : BOOLEAN]
      /\ fetch \in AtMostOneOf(1..Version)
  BY DEF TypeOK
<1> HIDE DEF n
<1>4. CASE PollConfig
  <2>1. fetch' = {Version}
    BY <1>4 DEF PollConfig
  <2> QED BY <1>1, <1>2, <2>1 DEF Covered, n
<1>5. ASSUME NEW v \in DOMAIN history, ConfigAnswers(v)
      PROVE  Covered(n, fetch', read')
  <2>1. PICK started \in fetch : v \in started..Version
    BY <1>5 DEF ConfigAnswers
  <2>2. started \in 1..Version /\ started >= n
    BY <1>2, <1>3, <2>1 DEF Covered, AtMostOneOf
  <2>3. v \in Nat /\ v >= started
    BY <1>1, <2>1, <2>2
  <2>4. v >= n
    BY <1>1, <1>2, <2>2, <2>3
  <2>5. fetch' = {} /\ read'.version = v
    BY <1>5 DEF ConfigAnswers
  <2> QED BY <2>4, <2>5 DEF Covered
<1>6. CASE ConfigUnanswered
  <2>1. fetch' = {} /\ read'.isError = TRUE
    BY <1>3, <1>6 DEF ConfigUnanswered
  <2> QED BY <2>1 DEF Covered, n
<1> QED BY <1>4, <1>5, <1>6 DEF ReadStep, n

(* A press goes on, and is not the success of a receipt. *)
LEMMA OnwardKeepsFresh ==
    ASSUME Fresh, NEW t \in Attempts, NEW a, attempts' = [attempts EXCEPT ![t] = a],
           attempts = [u \in Attempts |-> attempts[u]], a.phase # "success",
           UNCHANGED <<read, fetch>>
    PROVE  Fresh'
<1>1. \A u \in Attempts : attempts'[u] = IF u = t THEN a ELSE attempts[u]
  OBVIOUS
<1> QED BY <1>1 DEF Fresh, Asked

LEMMA ReceiptKeepsFresh ==
    ASSUME IInv, TypeOK, Fresh, NEW t \in Attempts, ReceiptArrives(t),
           ReceiptSucceeded(attempts[t])
    PROVE  Fresh'
<1> DEFINE old == attempts[t]
           joined == fetch # {} /\ read.version = 0
<1>1. /\ Typed /\ old \in Attempt /\ Version \in Nat
      /\ attempts = [u \in Attempts |-> attempts[u]]
  BY DEF IInv, Typed, TypeOK, Version
<1>2. old.phase = "mined" /\ read' = read /\ fetch' = Refetched
  BY DEF ReceiptArrives, ReceiptSucceeded
<1>3. attempts' = [attempts EXCEPT ![t] = Done(old, joined)]
  BY <1>1 DEF ReceiptArrives, Done
<1>4. \A u \in Attempts : attempts'[u] = IF u = t THEN Done(old, joined) ELSE attempts[u]
  BY <1>1, <1>3
<1>5. /\ Done(old, joined).applied = old.applied
      /\ Done(old, joined).joined = joined
  BY <1>1 DEF Done, Attempt
<1>6. \A u \in Attempts : attempts[u].phase \in {"mined", "success"}
                             => attempts[u].applied \in 1..Version
  BY DEF IInv, Pressed, AppliedIn, Version
<1>7. CASE joined
  <2>1. fetch' = fetch
    BY <1>2, <1>7 DEF Refetched
  <2> QED BY <1>2, <1>4, <1>5, <1>7, <2>1 DEF Fresh, Asked
<1>8. CASE ~ joined
  <2>1. fetch' = {Version}
    BY <1>2, <1>8 DEF Refetched
  <2>2. ASSUME NEW u \in Attempts, Asked(attempts'[u])
        PROVE  attempts'[u].applied \in 1..Version
    BY <1>2, <1>4, <1>5, <1>6, <2>2 DEF Asked
  <2>3. \A n \in 1..Version : Version >= n
    BY <1>1
  <2> QED BY <2>1, <2>2, <2>3 DEF Fresh, Covered
<1> QED BY <1>7, <1>8

LEMMA PressKeepsFresh ==
    ASSUME IInv, TypeOK, Fresh, NEW t \in Attempts, Apply(t) \/ AttemptStep(t)
    PROVE  Fresh'
<1> DEFINE old == attempts[t]
<1>1. old \in Attempt /\ attempts = [u \in Attempts |-> attempts[u]]
  BY DEF IInv, Typed
<1>2. CASE Apply(t)
  <2> DEFINE a == [NoAttempt EXCEPT !.phase = "estimating", !.mount = mount,
                                    !.sender = account, !.draft = draft]
  <2>1. attempts' = [attempts EXCEPT ![t] = a] /\ UNCHANGED <<read, fetch>>
    BY <1>2 DEF Apply, readVars
  <2>2. a.phase # "success"
    BY DEF NoAttempt
  <2> HIDE DEF a
  <2> QED BY <1>1, <2>1, <2>2, OnwardKeepsFresh
<1>3. ASSUME NEW phase, phase # "success", Moves(t, phase), UNCHANGED <<read, fetch>>
      PROVE  Fresh'
  <2>1. attempts' = [attempts EXCEPT ![t] = In(old, phase)] /\ In(old, phase).phase = phase
    BY <1>1, <1>3 DEF Moves, In, Attempt
  <2> QED BY <1>1, <1>3, <2>1, OnwardKeepsFresh
<1>4. CASE EstimateAnswers(t)
  <2> DEFINE revert == RevertOf(old.sender, Call(t))
             a == Answered(old, "failed", revert)
  <2>1. UNCHANGED <<read, fetch>>
    BY <1>4 DEF EstimateAnswers, readVars
  <2>2. CASE Moves(t, "signing")
    BY <1>3, <2>1, <2>2
  <2>3. CASE ~ Moves(t, "signing")
    <3>1. attempts' = [attempts EXCEPT ![t].phase = "failed", ![t].refused = revert]
      BY <1>4, <2>3 DEF EstimateAnswers
    <3>2. attempts' = [attempts EXCEPT ![t] = a] /\ a.phase = "failed"
      BY <1>1, <3>1 DEF Answered, Attempt
    <3> HIDE DEF a
    <3> QED BY <1>1, <2>1, <3>2, OnwardKeepsFresh
  <2> QED BY <2>2, <2>3
<1>5. CASE WalletSigns(t)
  <2>1. Moves(t, "submitted") /\ UNCHANGED <<read, fetch>>
    BY <1>5 DEF WalletSigns, readVars
  <2> QED BY <1>3, <2>1
<1>6. CASE StepFails(t)
  <2>1. /\ Moves(t, "abandoned") \/ Moves(t, "failed")
        /\ UNCHANGED <<read, fetch>>
    BY <1>6 DEF StepFails, readVars
  <2> QED BY <1>3, <2>1
<1>7. ASSUME NEW enoughGas \in BOOLEAN, Mine(t, enoughGas)
      PROVE  Fresh'
  <2> DEFINE revert == IF enoughGas THEN RevertOf(old.sender, Call(t)) ELSE "gas"
             phase == IF old.phase = "abandoned" THEN "failed"
                      ELSE IF revert = "none" THEN "mined" ELSE "reverted"
             applied == IF revert = "none" THEN Len(history) + 1 ELSE 0
             a == Mined(old, phase, revert, applied)
  <2>1. /\ attempts' = [attempts EXCEPT ![t].phase = phase, ![t].refused = revert,
                                        ![t].applied = applied]
        /\ UNCHANGED <<read, fetch>>
    BY <1>7 DEF Mine, readVars
  <2>2. phase # "success"
    OBVIOUS
  <2> HIDE DEF revert, phase, applied
  <2>3. attempts' = [attempts EXCEPT ![t] = a] /\ a.phase = phase
    BY <1>1, <2>1 DEF Mined, Attempt
  <2> HIDE DEF a
  <2> QED BY <1>1, <2>1, <2>2, <2>3, OnwardKeepsFresh
<1>8. CASE ReceiptArrives(t)
  <2>1. CASE ReceiptSucceeded(old)
    BY <1>8, <2>1, ReceiptKeepsFresh
  <2>2. CASE ~ ReceiptSucceeded(old)
    <3>1. Moves(t, "failed") /\ UNCHANGED <<read, fetch>>
      BY <1>8, <2>2 DEF ReceiptArrives
    <3> QED BY <1>3, <3>1
  <2> QED BY <2>1, <2>2
<1> QED BY <1>2, <1>4, <1>5, <1>6, <1>7, <1>8 DEF AttemptStep

LEMMA NextFresh ==
    ASSUME IInv, TypeOK, Fresh, [Next]_vars
    PROVE  Fresh'
<1>1. ASSUME UNCHANGED <<read, fetch, attempts>>
      PROVE  Fresh'
  BY <1>1 DEF Fresh
<1>2. ASSUME NEW cfg \in Drafts, ConfiguredElsewhere(cfg)
      PROVE  Fresh'
  BY <1>1, <1>2 DEF ConfiguredElsewhere, readVars
<1>3. ASSUME NEW a \in Accounts \union {NoAccount}, SwitchAccount(a)
      PROVE  Fresh'
  BY <1>1, <1>3 DEF SwitchAccount
<1>4. CASE PollOwner
  BY <1>1, <1>4 DEF PollOwner
<1>5. CASE ReadStep
  BY <1>5, ReadsKeepFresh
<1>6. ASSUME NEW d, EditDraft(d)
      PROVE  Fresh'
  BY <1>1, <1>6 DEF EditDraft, readVars
<1>7. CASE LoadCurrent
  BY <1>1, <1>7 DEF LoadCurrent, readVars
<1>8. ASSUME NEW t \in Attempts, Apply(t) \/ AttemptStep(t)
      PROVE  Fresh'
  BY <1>8, PressKeepsFresh
<1>9. CASE UNCHANGED vars
  BY <1>1, <1>9 DEF vars, readVars
<1> QED BY <1>2, <1>3, <1>4, <1>5, <1>6, <1>7, <1>8, <1>9 DEF Next

(* Whatever fetches were in flight and however many presses succeed, once  *)
(* the read a success asked for has been answered, the configuration shown *)
(* is at least as new as the one applied -- unless that read was joined to *)
(* the first one (useProtocol.ts refresh).                                 *)
THEOREM ReReadIsFresh == Spec => []ReReadShowsApplied
<1>1. Init => Fresh
  BY DEF Init, NoAttempt, Fresh, Asked
<1>2. IInv /\ TypeOK /\ Fresh /\ [Next]_vars => Fresh'
  BY NextFresh
<1>3. Fresh => ReReadShowsApplied
  BY DEF Fresh, Asked, Covered, ReReadShowsApplied
<1> QED BY <1>1, <1>2, <1>3, Inductive, TypesKept, PTL DEF Spec
===============================================================================
