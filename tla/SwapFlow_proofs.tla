---------------------------- MODULE SwapFlow_proofs ----------------------------
(***************************************************************************)
(* The swap screen for any number of forms, accounts and presses, whatever *)
(* is edited or switched in between.                                       *)
(***************************************************************************)
EXTENDS SwapFlow, FiniteSetTheorems, TLAPS

-------------------------------------------------------------------------------
(* The inductive invariant. *)

(* What is true of an attempt by itself: nothing is sent before the wallet *)
(* signs, and what it began with it keeps.                                 *)
Sound(r) ==
    /\ r.phase \in {"none", "estimate", "signing", "refetch"} => r.tx = "none"
    /\ r.phase = "none" => ~ r.reset /\ r.account = NoAccount
    /\ r.confirmed => r.phase = "done"
    /\ r.phase \notin {"none", "done"} => r.account \in Accounts
    /\ r.tx # "none" => r.account \in Accounts
    /\ r.phase # "none" /\ r.account # NoAccount => r.bound = <<r.form, r.account>>

(* What the screen says of an attempt that is over. *)
Displayed(r, flow) ==
    /\ flow = "success" => r.phase = "done" /\ r.call = "swap" /\ r.tx = "succeeded"
    /\ flow = "error" => r.phase = "done" /\ ~ r.confirmed

(* Until something is edited, the screen is busy with whatever is under way. *)
BusyWith ==
    (\A t \in Attempts : ~ attempts[t].reset)
        => \A t \in UnderWay : screen.shown = {t} /\ Busy

Alone(t) == changes = 0 /\ \A u \in Attempts \ {t} : attempts[u].phase = "none"

(* Before the first press, what the screen knows of a grant is what it is. *)
KnownIsTrue ==
    changes = 0 /\ (\A t \in Attempts : attempts[t].phase = "none")
        => \A a \in Accounts : known[a] = NoGrant \/ known[a] = grants[a]

TokenCovers(r, g)   == g[r.account].token >= Requirement[r.form]
Permit2Covers(r, g) == g[r.account].permit2 >= Requirement[r.form] /\ g[r.account].live

(* What a preparation has granted already, and what it need not grant. *)
Prepared(r, g) ==
    /\ r.phase \in {"estimate", "signing", "waiting"} /\ r.call = "permit2" => TokenCovers(r, g)
    /\ r.phase \in {"estimate", "signing", "waiting"} /\ r.call = "token" /\ r.permit2Ready
           => Permit2Covers(r, g)
    /\ r.tx = "succeeded" /\ r.phase = "waiting" /\ r.call = "token" => TokenCovers(r, g)
    /\ r.tx = "succeeded" /\ r.phase = "waiting" /\ r.call = "permit2" => Permit2Covers(r, g)
    /\ r.phase = "refetch" => TokenCovers(r, g) /\ Permit2Covers(r, g)

IInv ==
    /\ TypeOK
    /\ \A t \in Attempts : Sound(attempts[t])
    /\ \A t \in screen.shown : Displayed(attempts[t], screen.flow)
    /\ BusyWith
    /\ KnownIsTrue
    /\ \A t \in Attempts : Alone(t) => Prepared(attempts[t], grants)

-------------------------------------------------------------------------------
(* Steps of one attempt. *)

LEMMA AttemptReplaced ==
    ASSUME attempts \in [Attempts -> Attempt], NEW t \in Attempts, NEW r \in Attempt,
           attempts' = [attempts EXCEPT ![t] = r]
    PROVE  /\ attempts' \in [Attempts -> Attempt]
           /\ attempts'[t] = r
           /\ \A u \in Attempts : u # t => attempts'[u] = attempts[u]
OBVIOUS

(* An attempt that goes on leaves the screen as it is; one that begins or  *)
(* ends takes it, and nothing else was under way.                          *)
LEMMA BusyWithKept ==
    ASSUME BusyWith, attempts \in [Attempts -> Attempt], NEW t \in Attempts, NEW r \in Attempt,
           attempts' = [attempts EXCEPT ![t] = r], r.reset = attempts[t].reset,
           \/ screen' = screen /\ (r.phase \notin {"none", "done"} => t \in UnderWay)
           \/ /\ t \in UnderWay \/ ~ Busy
              /\ screen'.shown = {t}
              /\ r.phase \in {"none", "done"} \/ Busy'
    PROVE  BusyWith'
<1>1. /\ attempts'[t] = r
      /\ \A u \in Attempts : u # t => attempts'[u] = attempts[u]
  BY AttemptReplaced
<1> SUFFICES ASSUME \A u \in Attempts : ~ attempts'[u].reset, NEW u \in UnderWay'
             PROVE  screen'.shown = {u} /\ Busy'
  BY DEF BusyWith
<1>2. \A v \in UnderWay : screen.shown = {v} /\ Busy
  BY <1>1 DEF BusyWith
<1>3. u \in Attempts /\ attempts'[u].phase \notin {"none", "done"}
  BY DEF UnderWay
<1>4. u # t => u \in UnderWay
  BY <1>1, <1>3 DEF UnderWay
<1>5. u = t => r.phase \notin {"none", "done"}
  BY <1>1, <1>3
<1>6. CASE screen' = screen /\ (r.phase \notin {"none", "done"} => t \in UnderWay)
  <2>1. u \in UnderWay
    BY <1>4, <1>5, <1>6
  <2> QED
    BY <1>2, <1>6, <2>1 DEF Busy
<1>7. CASE /\ t \in UnderWay \/ ~ Busy
           /\ screen'.shown = {t}
           /\ r.phase \in {"none", "done"} \/ Busy'
  <2>1. u = t
    BY <1>2, <1>4, <1>7
  <2> QED
    BY <1>5, <1>7, <2>1
<1> QED
  BY <1>6, <1>7

(* What a step of attempt t owes the invariant. *)
LEMMA AttemptStepKeeps ==
    ASSUME IInv, NEW t \in Attempts, NEW r \in Attempt,
           attempts' = [attempts EXCEPT ![t] = r],
           Sound(r), r.phase # "none", r.reset = attempts[t].reset,
           UNCHANGED <<form, wallet, trading, quotes, changes>>,
           grants' \in [Accounts -> Grant], known' \in [Accounts -> Grant],
           \/ /\ screen' = screen
              /\ r.phase \notin {"none", "done"} => t \in UnderWay
              /\ Displayed(attempts[t], screen.flow) => Displayed(r, screen.flow)
           \/ /\ t \in UnderWay \/ ~ Busy
              /\ \E flow \in {"idle", "approving", "sending", "success", "error"},
                    outcome \in {"bonded", "unbonded", "none"} :
                    /\ Flow(t, flow, outcome)
                    /\ Displayed(r, flow)
                    /\ r.phase = "done" \/ flow \in {"approving", "sending"},
           Alone(t) => Prepared(r, grants')
    PROVE  IInv'
<1>1. /\ attempts \in [Attempts -> Attempt]
      /\ TypeOK /\ BusyWith
      /\ \A u \in Attempts : Sound(attempts[u])
      /\ \A u \in screen.shown : Displayed(attempts[u], screen.flow)
      /\ screen.shown \in SUBSET Attempts
  BY DEF IInv, TypeOK
<1>2. /\ attempts' \in [Attempts -> Attempt]
      /\ attempts'[t] = r
      /\ \A u \in Attempts : u # t => attempts'[u] = attempts[u]
  BY <1>1, AttemptReplaced
<1> DEFINE Shown == TypeOK' /\ BusyWith' /\ \A u \in screen'.shown : Displayed(attempts'[u], screen'.flow)
<1>3. ASSUME /\ screen' = screen
             /\ r.phase \notin {"none", "done"} => t \in UnderWay
             /\ Displayed(attempts[t], screen.flow) => Displayed(r, screen.flow)
      PROVE  Shown
  <2>1. BusyWith'
    BY <1>1, <1>3, BusyWithKept
  <2>2. \A u \in screen'.shown : Displayed(attempts'[u], screen'.flow)
    BY <1>1, <1>2, <1>3
  <2>3. TypeOK'
    BY <1>1, <1>2, <1>3 DEF TypeOK
  <2> QED
    BY <2>1, <2>2, <2>3
<1>4. ASSUME /\ t \in UnderWay \/ ~ Busy
             /\ \E flow \in {"idle", "approving", "sending", "success", "error"},
                   outcome \in {"bonded", "unbonded", "none"} :
                   /\ Flow(t, flow, outcome)
                   /\ Displayed(r, flow)
                   /\ r.phase = "done" \/ flow \in {"approving", "sending"}
      PROVE  Shown
  <2>1. PICK flow \in {"idle", "approving", "sending", "success", "error"},
             outcome \in {"bonded", "unbonded", "none"} :
                 /\ screen' = [flow |-> flow, shown |-> {t}, outcome |-> outcome]
                 /\ Displayed(r, flow)
                 /\ r.phase = "done" \/ flow \in {"approving", "sending"}
    BY <1>4 DEF Flow
  <2>2. screen'.shown = {t} /\ screen'.flow = flow
    BY <2>1
  <2>3. r.phase \in {"none", "done"} \/ Busy'
    BY <2>1, <2>2 DEF Busy
  <2>4. BusyWith'
    BY <1>1, <1>4, <2>2, <2>3, BusyWithKept
  <2>5. \A u \in screen'.shown : Displayed(attempts'[u], screen'.flow)
    BY <1>2, <2>1, <2>2
  <2>6. TypeOK'
    BY <1>1, <1>2, <2>1 DEF TypeOK
  <2> QED
    BY <2>4, <2>5, <2>6
<1>5. \A u \in Attempts : Sound(attempts'[u])
  BY <1>1, <1>2
<1>6. KnownIsTrue'
  BY <1>2 DEF KnownIsTrue
<1>7. \A u \in Attempts : Alone(u)' => Prepared(attempts'[u], grants')
  <2> SUFFICES ASSUME NEW u \in Attempts, Alone(u)'
               PROVE  Prepared(attempts'[u], grants')
    OBVIOUS
  <2>1. u = t
    BY <1>2 DEF Alone
  <2>2. Alone(t)
    BY <1>2, <2>1 DEF Alone
  <2> QED
    BY <1>2, <2>1, <2>2
<1>8. Shown
  BY <1>3, <1>4
<1> QED
  BY <1>5, <1>6, <1>7, <1>8 DEF IInv

-------------------------------------------------------------------------------
(* The presses. *)

LEMMA SessionCovers ==
    ASSUME NEW need \in Nat
    PROVE  SessionAllowanceFor(need) \in Nat /\ SessionAllowanceFor(need) >= need
<1>1. PICK m \in Nat : SESSION_SWAP_MULTIPLE = m + 1
  <2>1. SESSION_SWAP_MULTIPLE - 1 \in Nat
    BY BoundsAssumption
  <2> QED
    BY <2>1, BoundsAssumption
<1>2. need * m \in Nat /\ need * (m + 1) = need * m + need
  BY <1>1
<1> QED
  BY <1>1, <1>2 DEF SessionAllowanceFor

LEMMA Begun ==
    ASSUME TypeOK, wallet.account # NoAccount, NEW t \in Attempts,
           NEW call \in {"token", "permit2", "swap"}, Begins(t, call)
    PROVE  \E r \in Attempt :
              /\ attempts' = [attempts EXCEPT ![t] = r]
              /\ r.phase = "estimate" /\ r.call = call /\ r.form = form
              /\ r.account = wallet.account /\ r.account \in Accounts
              /\ r.bound = <<form, wallet.account>> /\ r.permit2Ready = Permit2Ready
              /\ r.tx = "none" /\ ~ r.confirmed /\ ~ r.reset
<1> DEFINE r == [NoAttempt(form) EXCEPT
                   !.phase = "estimate", !.call = call, !.account = wallet.account,
                   !.bound = ShownQuote, !.permit2Ready = Permit2Ready]
<1>1. /\ form \in Forms /\ wallet.account \in Accounts
      /\ wallet.account \in Accounts \union {NoAccount} /\ NoAccount \in Accounts \union {NoAccount}
  BY DEF TypeOK
<1>2. ShownQuote = <<form, wallet.account>> /\ ShownQuote \in Keys
  BY <1>1 DEF ShownQuote, Key, Keys
<1>3. Permit2Ready \in BOOLEAN
  BY DEF TypeOK, Grant, Permit2Ready, Known, NoGrant
<1>4. PICK base \in Attempt : base = NoAttempt(form) /\ base.tx = "none"
                                /\ ~ base.confirmed /\ ~ base.reset /\ base.form = form
  <2>1. <<form, NoAccount>> \in Keys
    BY <1>1 DEF Keys
  <2>2. PICK k \in Keys : k = <<form, NoAccount>>
    BY <2>1
  <2>3. NoAttempt(form) = [phase |-> "none", call |-> "swap", form |-> form,
                           account |-> NoAccount, bound |-> k, permit2Ready |-> FALSE,
                           tx |-> "none", confirmed |-> FALSE, reset |-> FALSE]
    BY <2>2 DEF NoAttempt
  <2>4. NoAttempt(form) \in Attempt
    BY <1>1, <2>3 DEF Attempt
  <2> QED
    BY <2>3, <2>4
<1>5. r = [base EXCEPT !.phase = "estimate", !.call = call, !.account = wallet.account,
                       !.bound = ShownQuote, !.permit2Ready = Permit2Ready]
  BY <1>4
<1>6. attempts' = [attempts EXCEPT ![t] = r]
  BY DEF Begins
<1> HIDE DEF r
<1>7. r \in Attempt
  BY <1>1, <1>2, <1>3, <1>5 DEF Attempt
<1>8. /\ r.phase = "estimate" /\ r.call = call /\ r.form = form
      /\ r.account = wallet.account /\ r.bound = ShownQuote /\ r.permit2Ready = Permit2Ready
      /\ r.tx = "none" /\ ~ r.confirmed /\ ~ r.reset
  BY <1>4, <1>5 DEF Attempt
<1> QED
  BY <1>1, <1>2, <1>6, <1>7, <1>8

LEMMA PressSwapKeeps ==
    ASSUME IInv, NEW t \in Attempts, PressSwap(t)
    PROVE  IInv'
<1>1. /\ TypeOK /\ wallet.account # NoAccount /\ ~ Busy
      /\ Begins(t, "swap") /\ Flow(t, "sending", "none")
      /\ attempts[t].phase = "none" /\ Sound(attempts[t])
      /\ UNCHANGED <<form, wallet, trading, quotes, grants, known, changes>>
  BY DEF IInv, PressSwap, CanSubmit
<1>2. PICK r \in Attempt :
         /\ attempts' = [attempts EXCEPT ![t] = r]
         /\ r.phase = "estimate" /\ r.call = "swap" /\ r.form = form
         /\ r.account = wallet.account /\ r.account \in Accounts
         /\ r.bound = <<form, wallet.account>> /\ r.permit2Ready = Permit2Ready
         /\ r.tx = "none" /\ ~ r.confirmed /\ ~ r.reset
  BY <1>1, Begun
<1>3. Sound(r) /\ Prepared(r, grants') /\ Displayed(r, "sending")
  BY <1>2 DEF Sound, Prepared, Displayed
<1>4. r.reset = attempts[t].reset
  BY <1>1, <1>2 DEF Sound, IInv, TypeOK, Attempt
<1>5. grants' \in [Accounts -> Grant] /\ known' \in [Accounts -> Grant]
  BY <1>1 DEF TypeOK
<1> QED
  BY <1>1, <1>2, <1>3, <1>4, <1>5, AttemptStepKeeps

LEMMA PressPrepareKeeps ==
    ASSUME IInv, NEW t \in Attempts, PressPrepare(t)
    PROVE  IInv'
<1>1. /\ TypeOK /\ wallet.account # NoAccount /\ ~ Busy /\ Spend > 0
      /\ attempts[t].phase = "none" /\ Sound(attempts[t]) /\ attempts[t] \in Attempt
      /\ UNCHANGED <<form, wallet, trading, quotes, grants, known, changes>>
  BY DEF IInv, TypeOK, PressPrepare, NeedsWalletSetup
<1>2. grants' \in [Accounts -> Grant] /\ known' \in [Accounts -> Grant]
  BY <1>1 DEF TypeOK
<1>3. CASE SessionTooLarge(Spend)
  <2>1. Ends(t) /\ Flow(t, "error", "none")
    BY <1>3 DEF PressPrepare
  <2>2. PICK r \in Attempt : r = [attempts[t] EXCEPT !.phase = "done"]
    BY <1>1 DEF Attempt
  <2>3. attempts' = [attempts EXCEPT ![t] = r]
    BY <2>1, <2>2 DEF Ends
  <2>4. /\ r.phase = "done" /\ r.reset = attempts[t].reset /\ ~ r.confirmed
        /\ r.account = NoAccount /\ r.tx = "none"
    BY <1>1, <2>2 DEF Attempt, Sound
  <2>5. Sound(r) /\ Prepared(r, grants') /\ Displayed(r, "error")
    BY <2>4 DEF Sound, Prepared, Displayed
  <2> QED
    BY <1>1, <1>2, <2>1, <2>3, <2>4, <2>5, AttemptStepKeeps
<1>4. CASE ~ SessionTooLarge(Spend)
  <2> DEFINE call == IF TokenReady THEN "permit2" ELSE "token"
  <2>1. Begins(t, call) /\ Flow(t, "approving", "none")
    BY <1>4 DEF PressPrepare
  <2>2. call \in {"token", "permit2", "swap"}
    OBVIOUS
  <2>3. PICK r \in Attempt :
           /\ attempts' = [attempts EXCEPT ![t] = r]
           /\ r.phase = "estimate" /\ r.call = call /\ r.form = form
           /\ r.account = wallet.account /\ r.account \in Accounts
           /\ r.bound = <<form, wallet.account>> /\ r.permit2Ready = Permit2Ready
           /\ r.tx = "none" /\ ~ r.confirmed /\ ~ r.reset
    <3> HIDE DEF call
    <3> QED
      BY <1>1, <2>1, <2>2, Begun
  <2>4. Sound(r) /\ Displayed(r, "approving")
    BY <2>3 DEF Sound, Displayed
  <2>5. r.reset = attempts[t].reset
    BY <1>1, <2>3 DEF Sound, Attempt
  <2>6. Alone(t) => Prepared(r, grants')
    <3> SUFFICES ASSUME Alone(t) PROVE Prepared(r, grants)
      BY <1>1
    <3>1. \A u \in Attempts : attempts[u].phase = "none"
      BY <1>1 DEF Alone
    <3>2. known[r.account] = NoGrant \/ known[r.account] = grants[r.account]
      BY <2>3, <3>1 DEF Alone, IInv, KnownIsTrue
    <3>3. Spend = Requirement[r.form] /\ Requirement[r.form] \in Nat
      BY <1>1, <2>3, RequirementAssumption DEF Spend, TypeOK
    <3>4. Known = known[r.account]
      BY <1>1, <2>3 DEF Known
    <3>5. TokenReady => TokenCovers(r, grants)
      BY <1>1, <3>2, <3>3, <3>4 DEF TokenReady, TokenCovers, NoGrant
    <3>6. Permit2Ready => Permit2Covers(r, grants)
      BY <1>1, <3>2, <3>3, <3>4 DEF Permit2Ready, Permit2Covers, NoGrant
    <3> QED
      BY <2>3, <3>5, <3>6 DEF Prepared
  <2> HIDE DEF call
  <2> QED
    BY <1>1, <1>2, <2>1, <2>3, <2>4, <2>5, <2>6, AttemptStepKeeps
<1> QED
  BY <1>3, <1>4

-------------------------------------------------------------------------------
(* What an attempt does between its press and its end. *)

(* What every such step finds. *)
LEMMA UnderWayFacts ==
    ASSUME IInv, NEW t \in Attempts
    PROVE  /\ TypeOK /\ attempts[t] \in Attempt /\ Sound(attempts[t])
           /\ Alone(t) => Prepared(attempts[t], grants)
           /\ grants \in [Accounts -> Grant] /\ known \in [Accounts -> Grant]
           /\ attempts[t].phase \in {"estimate", "signing", "waiting", "refetch"}
                 => /\ t \in UnderWay
                    /\ attempts[t].account \in Accounts
                    /\ ~ attempts[t].confirmed
BY DEF IInv, TypeOK, UnderWay, Sound

LEMMA EstimateKeeps ==
    ASSUME IInv, NEW t \in Attempts, Estimate(t)
    PROVE  IInv'
<1>1. /\ attempts[t].phase = "estimate"
      /\ attempts' = [attempts EXCEPT ![t].phase = "signing"]
      /\ UNCHANGED <<form, wallet, trading, quotes, grants, known, screen, changes>>
  BY DEF Estimate
<1>2. PICK r \in Attempt : r = [attempts[t] EXCEPT !.phase = "signing"]
  BY UnderWayFacts DEF TypeOK, Attempt
<1>3. attempts' = [attempts EXCEPT ![t] = r]
  BY <1>1, <1>2 DEF IInv, TypeOK
<1>4. /\ r.phase = "signing" /\ r.reset = attempts[t].reset /\ r.confirmed = attempts[t].confirmed
      /\ r.call = attempts[t].call /\ r.form = attempts[t].form /\ r.tx = attempts[t].tx
      /\ r.account = attempts[t].account /\ r.bound = attempts[t].bound
      /\ r.permit2Ready = attempts[t].permit2Ready
  BY <1>2, UnderWayFacts DEF Attempt
<1>5. Sound(r) /\ (Prepared(attempts[t], grants) => Prepared(r, grants'))
  BY <1>1, <1>4, UnderWayFacts DEF Sound, Prepared, TokenCovers, Permit2Covers
<1>6. Displayed(attempts[t], screen.flow) => Displayed(r, screen.flow)
  BY <1>1, <1>4 DEF Displayed
<1> QED
  BY <1>1, <1>3, <1>4, <1>5, <1>6, UnderWayFacts, AttemptStepKeeps

LEMMA SignKeeps ==
    ASSUME IInv, NEW t \in Attempts, Sign(t)
    PROVE  IInv'
<1>1. /\ attempts[t].phase = "signing"
      /\ attempts' = [attempts EXCEPT ![t].phase = "waiting", ![t].tx = "pending"]
      /\ UNCHANGED <<form, wallet, trading, quotes, grants, known, screen, changes>>
  BY DEF Sign
<1>2. PICK r \in Attempt : r = [attempts[t] EXCEPT !.phase = "waiting", !.tx = "pending"]
  BY UnderWayFacts DEF Attempt
<1>3. attempts' = [attempts EXCEPT ![t] = r]
  BY <1>1, <1>2 DEF IInv, TypeOK
<1>4. /\ r.phase = "waiting" /\ r.reset = attempts[t].reset /\ r.confirmed = attempts[t].confirmed
      /\ r.call = attempts[t].call /\ r.form = attempts[t].form /\ r.tx = "pending"
      /\ r.account = attempts[t].account /\ r.bound = attempts[t].bound
      /\ r.permit2Ready = attempts[t].permit2Ready
  BY <1>2, UnderWayFacts DEF Attempt
<1>5. Sound(r) /\ (Prepared(attempts[t], grants) => Prepared(r, grants'))
  BY <1>1, <1>4, UnderWayFacts DEF Sound, Prepared, TokenCovers, Permit2Covers
<1>6. Displayed(attempts[t], screen.flow) => Displayed(r, screen.flow)
  BY <1>1, <1>4 DEF Displayed
<1> QED
  BY <1>1, <1>3, <1>4, <1>5, <1>6, UnderWayFacts, AttemptStepKeeps

LEMMA GrantConfirmedKeeps ==
    ASSUME IInv, NEW t \in Attempts, GrantConfirmed(t)
    PROVE  IInv'
<1>1. /\ attempts[t].phase = "waiting" /\ attempts[t].call # "swap" /\ attempts[t].tx = "succeeded"
      /\ attempts' = [attempts EXCEPT ![t].phase = NextPhase(t), ![t].call = "permit2", ![t].tx = "none"]
      /\ UNCHANGED <<form, wallet, trading, quotes, grants, known, screen, changes>>
  BY DEF GrantConfirmed, ReceiptSucceeded
<1>2. PICK phase \in {"estimate", "refetch"} : phase = NextPhase(t)
  BY DEF NextPhase
<1>3. PICK r \in Attempt : r = [attempts[t] EXCEPT !.phase = phase, !.call = "permit2", !.tx = "none"]
  BY UnderWayFacts DEF Attempt
<1>4. attempts' = [attempts EXCEPT ![t] = r]
  BY <1>1, <1>2, <1>3 DEF IInv, TypeOK
<1>5. /\ r.phase = phase /\ r.reset = attempts[t].reset /\ r.confirmed = attempts[t].confirmed
      /\ r.call = "permit2" /\ r.form = attempts[t].form /\ r.tx = "none"
      /\ r.account = attempts[t].account /\ r.bound = attempts[t].bound
  BY <1>3, UnderWayFacts DEF Attempt
<1>6. Sound(r)
  BY <1>1, <1>5, UnderWayFacts DEF Sound
<1>7. Prepared(attempts[t], grants) => Prepared(r, grants')
  <2> SUFFICES ASSUME Prepared(attempts[t], grants) PROVE Prepared(r, grants)
    BY <1>1
  <2>1. attempts[t].call \in {"token", "permit2"}
    BY <1>1, UnderWayFacts DEF Attempt
  <2>2. TokenCovers(attempts[t], grants)
    BY <1>1, <2>1 DEF Prepared
  <2>3. phase = "refetch" => Permit2Covers(attempts[t], grants)
    BY <1>1, <1>2, <2>1 DEF Prepared, NextPhase
  <2> QED
    BY <1>5, <2>2, <2>3 DEF Prepared, TokenCovers, Permit2Covers
<1>8. Displayed(attempts[t], screen.flow) => Displayed(r, screen.flow)
  BY <1>1, <1>5 DEF Displayed
<1> QED
  BY <1>1, <1>2, <1>4, <1>5, <1>6, <1>7, <1>8, UnderWayFacts, AttemptStepKeeps

(* An attempt ends: with the allowances read, with its swap shown, or in   *)
(* an error.                                                               *)
LEMMA EndKeeps ==
    ASSUME IInv, NEW t \in Attempts, GrantsRead(t) \/ Fails(t)
    PROVE  IInv'
<1>1. /\ attempts[t].phase \in {"estimate", "signing", "waiting", "refetch"}
      /\ attempts' = [attempts EXCEPT ![t].phase = "done"]
      /\ UNCHANGED <<form, wallet, trading, quotes, grants, changes>>
  BY DEF GrantsRead, Fails, Ends
<1>2. PICK r \in Attempt : r = [attempts[t] EXCEPT !.phase = "done"]
  BY UnderWayFacts DEF Attempt
<1>3. attempts' = [attempts EXCEPT ![t] = r]
  BY <1>1, <1>2 DEF IInv, TypeOK
<1>4. /\ r.phase = "done" /\ r.reset = attempts[t].reset /\ r.confirmed = attempts[t].confirmed
      /\ r.form = attempts[t].form /\ r.tx = attempts[t].tx
      /\ r.account = attempts[t].account /\ r.bound = attempts[t].bound
  BY <1>2, UnderWayFacts DEF Attempt
<1>5. Sound(r) /\ Prepared(r, grants')
  BY <1>1, <1>4, UnderWayFacts DEF Sound, Prepared
<1>6. PICK flow \in {"idle", "error"} : Flow(t, flow, "none")
  BY DEF GrantsRead, Fails, FlowOfFailure
<1>7. Displayed(r, flow)
  BY <1>1, <1>4, UnderWayFacts DEF Displayed
<1>8. known' \in [Accounts -> Grant]
  BY UnderWayFacts DEF GrantsRead, Fails
<1>9. grants' \in [Accounts -> Grant]
  BY <1>1, UnderWayFacts
<1> QED
  BY <1>1, <1>3, <1>4, <1>5, <1>6, <1>7, <1>8, <1>9, UnderWayFacts, AttemptStepKeeps

LEMMA SwapConfirmedKeeps ==
    ASSUME IInv, NEW t \in Attempts, NEW outcome \in {"bonded", "unbonded", "none"},
           SwapConfirmed(t, outcome)
    PROVE  IInv'
<1>1. /\ attempts[t].phase = "waiting" /\ attempts[t].call = "swap" /\ attempts[t].tx = "succeeded"
      /\ attempts' = [attempts EXCEPT ![t].phase = "done", ![t].confirmed = TRUE]
      /\ Flow(t, "success", outcome)
      /\ UNCHANGED <<form, wallet, trading, quotes, grants, known, changes>>
  BY DEF SwapConfirmed, ReceiptSucceeded, FlowAfterReceipt
<1>2. PICK r \in Attempt : r = [attempts[t] EXCEPT !.phase = "done", !.confirmed = TRUE]
  BY UnderWayFacts DEF Attempt
<1>3. attempts' = [attempts EXCEPT ![t] = r]
  BY <1>1, <1>2 DEF IInv, TypeOK
<1>4. /\ r.phase = "done" /\ r.reset = attempts[t].reset
      /\ r.form = attempts[t].form /\ r.tx = attempts[t].tx /\ r.call = attempts[t].call
      /\ r.account = attempts[t].account /\ r.bound = attempts[t].bound
  BY <1>2, UnderWayFacts DEF Attempt
<1>5. Sound(r) /\ Prepared(r, grants') /\ Displayed(r, "success")
  BY <1>1, <1>4, UnderWayFacts DEF Sound, Prepared, Displayed
<1> QED
  BY <1>1, <1>3, <1>4, <1>5, UnderWayFacts, AttemptStepKeeps

(* The chain: a grant sets an allowance to the session's, a swap spends.   *)
LEMMA MineKeeps ==
    ASSUME IInv, NEW t \in Attempts, NEW boundsMet \in BOOLEAN, Mine(t, boundsMet)
    PROVE  IInv'
<1> DEFINE a == attempts[t].account
           need == Requirement[attempts[t].form]
           session == SessionAllowanceFor(need)
<1>1. /\ attempts[t].tx = "pending"
      /\ UNCHANGED <<form, wallet, trading, quotes, known, screen, changes>>
  BY DEF Mine
<1>2. /\ a \in Accounts /\ need \in Nat /\ session \in Nat /\ session >= need
      /\ attempts[t].phase \in {"waiting", "done"}
      /\ t \in UnderWay \/ attempts[t].phase = "done"
      /\ grants[a] \in Grant
  BY <1>1, UnderWayFacts, RequirementAssumption, SessionCovers DEF Sound, Attempt
<1>3. \E tx \in {"succeeded", "reverted"} :
         /\ attempts' = [attempts EXCEPT ![t].tx = tx]
         /\ grants' \in [Accounts -> Grant]
         /\ tx = "succeeded" /\ attempts[t].call = "token" =>
                /\ grants'[a].token >= need
                /\ grants'[a].permit2 = grants[a].permit2 /\ grants'[a].live = grants[a].live
         /\ tx = "succeeded" /\ attempts[t].call = "permit2" =>
                /\ grants'[a].permit2 >= need /\ grants'[a].live
                /\ grants'[a].token = grants[a].token
         /\ tx = "reverted" => attempts[t].call = "swap"
  <2> HIDE DEF need, session
  <2>1. CASE /\ attempts[t].call = "token"
             /\ grants' = [grants EXCEPT ![a].token = session]
             /\ attempts' = [attempts EXCEPT ![t].tx = "succeeded"]
    <3>1. grants' \in [Accounts -> Grant]
      BY <1>2, <2>1, UnderWayFacts DEF Grant
    <3>2. /\ grants'[a].token = session
          /\ grants'[a].permit2 = grants[a].permit2 /\ grants'[a].live = grants[a].live
      BY <1>2, <2>1, UnderWayFacts DEF Grant
    <3> QED
      BY <1>2, <2>1, <3>1, <3>2
  <2>2. CASE /\ attempts[t].call = "permit2"
             /\ grants' = [grants EXCEPT ![a].permit2 = session, ![a].live = TRUE]
             /\ attempts' = [attempts EXCEPT ![t].tx = "succeeded"]
    <3>1. grants' \in [Accounts -> Grant]
      BY <1>2, <2>2, UnderWayFacts DEF Grant
    <3>2. /\ grants'[a].permit2 = session /\ grants'[a].live
          /\ grants'[a].token = grants[a].token
      BY <1>2, <2>2, UnderWayFacts DEF Grant
    <3> QED
      BY <1>2, <2>2, <3>1, <3>2
  <2>3. CASE /\ attempts[t].call = "swap"
             /\ boundsMet /\ Covered(t)
             /\ grants' = [grants EXCEPT ![a].token = @ - need, ![a].permit2 = @ - need]
             /\ attempts' = [attempts EXCEPT ![t].tx = "succeeded"]
    <3>1. grants[a].token >= need /\ grants[a].permit2 >= need
      BY <2>3 DEF Covered, need
    <3>2. grants[a].token - need \in Nat /\ grants[a].permit2 - need \in Nat
      BY <1>2, <3>1 DEF Grant
    <3>3. grants' \in [Accounts -> Grant]
      BY <1>2, <2>3, <3>2, UnderWayFacts DEF Grant
    <3> QED
      BY <2>3, <3>3
  <2>4. CASE /\ attempts[t].call = "swap"
             /\ attempts' = [attempts EXCEPT ![t].tx = "reverted"]
             /\ UNCHANGED grants
    BY <2>4, UnderWayFacts
  <2> QED
    BY <2>1, <2>2, <2>3, <2>4 DEF Mine, need, session
<1>4. PICK tx \in {"succeeded", "reverted"} :
         /\ attempts' = [attempts EXCEPT ![t].tx = tx]
         /\ grants' \in [Accounts -> Grant]
         /\ tx = "succeeded" /\ attempts[t].call = "token" =>
                /\ grants'[a].token >= need
                /\ grants'[a].permit2 = grants[a].permit2 /\ grants'[a].live = grants[a].live
         /\ tx = "succeeded" /\ attempts[t].call = "permit2" =>
                /\ grants'[a].permit2 >= need /\ grants'[a].live
                /\ grants'[a].token = grants[a].token
         /\ tx = "reverted" => attempts[t].call = "swap"
  BY <1>3
<1>5. PICK r \in Attempt : r = [attempts[t] EXCEPT !.tx = tx]
  BY UnderWayFacts DEF Attempt
<1>6. attempts' = [attempts EXCEPT ![t] = r]
  BY <1>4, <1>5 DEF IInv, TypeOK
<1>7. /\ r.phase = attempts[t].phase /\ r.reset = attempts[t].reset
      /\ r.confirmed = attempts[t].confirmed
      /\ r.call = attempts[t].call /\ r.form = attempts[t].form /\ r.tx = tx
      /\ r.account = attempts[t].account /\ r.bound = attempts[t].bound
      /\ r.permit2Ready = attempts[t].permit2Ready
  BY <1>5, UnderWayFacts DEF Attempt
<1>8. Sound(r)
  BY <1>2, <1>7, UnderWayFacts DEF Sound
<1>9. Prepared(attempts[t], grants) => Prepared(r, grants')
  <2> SUFFICES ASSUME Prepared(attempts[t], grants) PROVE Prepared(r, grants')
    OBVIOUS
  <2>1. attempts[t].call \in {"token", "permit2", "swap"}
    BY UnderWayFacts DEF Attempt
  <2>2. CASE attempts[t].call = "token"
    BY <1>2, <1>4, <1>7, <2>2 DEF Prepared, TokenCovers, Permit2Covers
  <2>3. CASE attempts[t].call = "permit2"
    BY <1>2, <1>4, <1>7, <2>3 DEF Prepared, TokenCovers, Permit2Covers
  <2>4. CASE attempts[t].call = "swap"
    BY <1>2, <1>7, <2>4 DEF Prepared
  <2> QED
    BY <2>1, <2>2, <2>3, <2>4
<1>10. Displayed(attempts[t], screen.flow) => Displayed(r, screen.flow)
  BY <1>1, <1>7 DEF Displayed
<1>11. r.phase # "none" /\ (r.phase \notin {"none", "done"} => t \in UnderWay)
  BY <1>2, <1>7
<1> HIDE DEF a, need, session
<1> QED
  BY <1>1, <1>4, <1>6, <1>7, <1>8, <1>9, <1>10, <1>11, UnderWayFacts, AttemptStepKeeps

-------------------------------------------------------------------------------
(* The user and the network. *)

(* An edit or a switch: what was under way is marked, and the screen is    *)
(* idle again.                                                             *)
LEMMA ResetKeeps ==
    ASSUME IInv, Changing, ResetScreen,
           form' \in Forms, wallet' \in [account : Accounts \union {NoAccount}, home : BOOLEAN],
           UNCHANGED <<trading, quotes, grants, known>>
    PROVE  IInv'
<1>1. /\ TypeOK /\ attempts \in [Attempts -> Attempt]
      /\ changes' \in 0 .. MAX_CHANGES /\ changes' # 0
      /\ screen' = Idle
  BY BoundsAssumption DEF IInv, TypeOK, Changing, ResetScreen
<1>2. attempts' \in [Attempts -> Attempt]
  <2>1. \A t \in Attempts : (attempts[t].reset \/ t \in UnderWay) \in BOOLEAN
    OBVIOUS
  <2>2. \A r \in Attempt, mark \in BOOLEAN : [r EXCEPT !.reset = mark] \in Attempt
    BY DEF Attempt
  <2>3. attempts' = [t \in Attempts |->
                       [attempts[t] EXCEPT !.reset = attempts[t].reset \/ t \in UnderWay]]
    BY DEF ResetScreen
  <2>4. ASSUME NEW t \in Attempts
        PROVE  [attempts[t] EXCEPT !.reset = attempts[t].reset \/ t \in UnderWay] \in Attempt
    <3>1. PICK mark \in BOOLEAN : mark = (attempts[t].reset \/ t \in UnderWay)
      OBVIOUS
    <3> QED
      BY <1>1, <2>2, <3>1
  <2> QED
    BY <2>3, <2>4
<1>3. ASSUME NEW t \in Attempts
      PROVE  /\ attempts'[t].phase = attempts[t].phase
             /\ attempts'[t].reset = (attempts[t].reset \/ t \in UnderWay)
             /\ Sound(attempts'[t])
  <2>1. attempts'[t] = [attempts[t] EXCEPT !.reset = @ \/ t \in UnderWay]
    BY DEF ResetScreen
  <2>2. PICK mark \in BOOLEAN : mark = (attempts[t].reset \/ t \in UnderWay)
    OBVIOUS
  <2>3. attempts'[t] = [attempts[t] EXCEPT !.reset = mark]
    BY <2>1, <2>2
  <2>4. /\ attempts'[t].phase = attempts[t].phase /\ attempts'[t].reset = mark
        /\ attempts'[t].tx = attempts[t].tx /\ attempts'[t].confirmed = attempts[t].confirmed
        /\ attempts'[t].account = attempts[t].account /\ attempts'[t].bound = attempts[t].bound
        /\ attempts'[t].form = attempts[t].form
    BY <1>1, <2>3 DEF Attempt
  <2>5. attempts[t].phase = "none" => ~ mark
    BY <2>2, UnderWayFacts DEF UnderWay, Sound
  <2>6. Sound(attempts'[t])
    BY <2>4, <2>5, UnderWayFacts DEF Sound
  <2> QED
    BY <2>2, <2>4, <2>6
<1>4. TypeOK'
  BY <1>1, <1>2 DEF TypeOK, Idle
<1>5. BusyWith'
  BY <1>3 DEF BusyWith, UnderWay
<1>6. screen'.shown = {}
  BY <1>1 DEF Idle
<1> QED
  BY <1>1, <1>3, <1>4, <1>5, <1>6 DEF IInv, KnownIsTrue, Alone

LEMMA UserStepKeeps ==
    ASSUME IInv, UserStep
    PROVE  IInv'
<1>1. form \in Forms /\ wallet \in [account : Accounts \union {NoAccount}, home : BOOLEAN]
  BY DEF IInv, TypeOK
<1>2. ASSUME NEW f \in Forms, EditForm(f)
      PROVE  IInv'
  BY <1>1, <1>2, ResetKeeps DEF EditForm
<1>3. ASSUME NEW a \in Accounts \union {NoAccount}, SwitchAccount(a)
      PROVE  IInv'
  <2>1. wallet' = [wallet EXCEPT !.account = a] /\ form' = form
    BY <1>3 DEF SwitchAccount
  <2>2. wallet' \in [account : Accounts \union {NoAccount}, home : BOOLEAN]
    BY <1>1, <2>1
  <2> QED
    BY <1>1, <1>3, <2>1, <2>2, ResetKeeps DEF SwitchAccount
<1>4. ASSUME SwitchNetwork
      PROVE  IInv'
  <2>1. wallet' = [wallet EXCEPT !.home = ~ @] /\ form' = form
    BY <1>4 DEF SwitchNetwork
  <2>2. wallet' \in [account : Accounts \union {NoAccount}, home : BOOLEAN]
    BY <1>1, <2>1
  <2> QED
    BY <1>1, <1>4, <2>1, <2>2, ResetKeeps DEF SwitchNetwork
<1> QED
  BY <1>2, <1>3, <1>4 DEF UserStep

(* A step of the network changes no attempt and not the screen. *)
LEMMA OutsideKeeps ==
    ASSUME IInv, TypeOK', UNCHANGED <<attempts, screen>>, KnownIsTrue',
           changes' = 0 => changes = 0 /\ grants' = grants
    PROVE  IInv'
<1>1. attempts' = attempts /\ screen' = screen
  OBVIOUS
<1>2. BusyWith'
  BY <1>1 DEF IInv, BusyWith, UnderWay, Busy
<1>3. \A t \in Attempts : Alone(t)' => Prepared(attempts'[t], grants')
  BY <1>1 DEF IInv, Alone
<1> QED
  BY <1>1, <1>2, <1>3 DEF IInv

LEMMA NetworkKeeps ==
    ASSUME IInv,
           \/ TradingChanges \/ QuoteAnswers \/ QuoteFails \/ ReadAllowances
           \/ \E a \in Accounts : GrantLapses(a)
    PROVE  IInv'
<1>1. TypeOK /\ KnownIsTrue /\ Key \in Keys
  BY DEF IInv, TypeOK, Key, Keys
<1>2. CASE TradingChanges
  <2>1. /\ changes' \in 0 .. MAX_CHANGES /\ changes' # 0
        /\ trading' \in BOOLEAN
        /\ UNCHANGED <<form, wallet, quotes, grants, known, attempts, screen>>
    BY <1>1, <1>2, BoundsAssumption DEF TradingChanges, Changing, TypeOK
  <2> QED
    BY <1>1, <2>1, OutsideKeeps DEF TypeOK, KnownIsTrue
<1>3. CASE QuoteAnswers \/ QuoteFails
  <2>1. UNCHANGED <<form, wallet, trading, grants, known, attempts, screen, changes>>
    BY <1>3 DEF QuoteAnswers, QuoteFails
  <2>2. QUOTE_RETRIES \in Nat
    BY BoundsAssumption
  <2>3. quotes' \in [Keys -> [data : BOOLEAN, failures : 0..QUOTE_RETRIES, error : BOOLEAN]]
    <3>1. CASE QuoteAnswers
      BY <1>1, <2>2, <3>1 DEF TypeOK, QuoteAnswers
    <3>2. CASE QuoteFails
      <4>1. PICK q \in [data : BOOLEAN, failures : 0..QUOTE_RETRIES, error : BOOLEAN] :
                 q = quotes[Key]
        BY <1>1 DEF TypeOK
      <4> DEFINE next == IF q.failures < QUOTE_RETRIES
                         THEN [q EXCEPT !.failures = q.failures + 1]
                         ELSE [q EXCEPT !.failures = 0, !.error = TRUE]
      <4>2. next \in [data : BOOLEAN, failures : 0..QUOTE_RETRIES, error : BOOLEAN]
        <5>1. 0 \in 0..QUOTE_RETRIES /\ (q.failures < QUOTE_RETRIES => q.failures + 1 \in 0..QUOTE_RETRIES)
          BY <2>2
        <5>2. CASE q.failures < QUOTE_RETRIES
          BY <5>1, <5>2
        <5>3. CASE ~ (q.failures < QUOTE_RETRIES)
          BY <5>1, <5>3
        <5> QED
          BY <5>2, <5>3
      <4>3. quotes' = [quotes EXCEPT ![Key] = next]
        BY <3>2, <4>1 DEF QuoteFails
      <4> HIDE DEF next
      <4> QED
        BY <1>1, <4>2, <4>3 DEF TypeOK
    <3> QED
      BY <1>3, <3>1, <3>2
  <2> QED
    BY <1>1, <2>1, <2>3, OutsideKeeps DEF TypeOK, KnownIsTrue
<1>4. CASE ReadAllowances
  <2>1. /\ known' = [known EXCEPT ![wallet.account] = grants[wallet.account]]
        /\ wallet.account \in Accounts
        /\ UNCHANGED <<form, wallet, trading, quotes, grants, attempts, screen, changes>>
    BY <1>1, <1>4 DEF ReadAllowances, TypeOK
  <2>2. TypeOK'
    BY <1>1, <2>1 DEF TypeOK
  <2>3. KnownIsTrue'
    BY <1>1, <2>1 DEF TypeOK, KnownIsTrue
  <2> QED
    BY <2>1, <2>2, <2>3, OutsideKeeps
<1>5. ASSUME NEW a \in Accounts, GrantLapses(a)
      PROVE  IInv'
  <2>1. /\ changes' \in 0 .. MAX_CHANGES /\ changes' # 0
        /\ grants' = [grants EXCEPT ![a].live = FALSE]
        /\ known' = [known EXCEPT ![a].live = FALSE]
        /\ UNCHANGED <<form, wallet, trading, quotes, attempts, screen>>
    BY <1>1, <1>5, BoundsAssumption DEF GrantLapses, Changing, TypeOK
  <2>2. grants' \in [Accounts -> Grant] /\ known' \in [Accounts -> Grant]
    BY <1>1, <2>1 DEF TypeOK, Grant
  <2> QED
    BY <1>1, <2>1, <2>2, OutsideKeeps DEF TypeOK, KnownIsTrue
<1> QED
  BY <1>2, <1>3, <1>4, <1>5

-------------------------------------------------------------------------------
(* What the screen promises. *)

LEMMA InitIInv == Init => IInv
<1> SUFFICES ASSUME Init PROVE IInv
  OBVIOUS
<1>1. form \in Forms /\ NoAccount \in Accounts \union {NoAccount}
  BY DEF Init
<1>2. \A t \in Attempts : attempts[t] = NoAttempt(form)
  BY DEF Init
<1>3. PICK k \in Keys : k = <<form, NoAccount>>
  BY <1>1 DEF Keys
<1>4. NoAttempt(form) = [phase |-> "none", call |-> "swap", form |-> form,
                         account |-> NoAccount, bound |-> k, permit2Ready |-> FALSE,
                         tx |-> "none", confirmed |-> FALSE, reset |-> FALSE]
  BY <1>3 DEF NoAttempt
<1>5. NoAttempt(form) \in Attempt
  BY <1>1, <1>4 DEF Attempt
<1>6. attempts \in [Attempts -> Attempt]
  BY <1>5 DEF Init
<1>7. Sessions \in SUBSET Nat
  BY RequirementAssumption, SessionCovers DEF Sessions
<1>8. NoGrant \in Grant /\ EarlierGrants \in SUBSET Grant
  <2>1. NoGrant \in Grant
    BY DEF NoGrant, Grant
  <2>2. \A s \in Sessions, live \in BOOLEAN :
            [token |-> s, permit2 |-> s, live |-> live] \in Grant
    BY <1>7 DEF Grant
  <2> QED
    BY <2>1, <2>2 DEF EarlierGrants
<1>9. /\ grants \in [Accounts -> Grant] /\ known \in [Accounts -> Grant]
      /\ \A a \in Accounts : known[a] = NoGrant
  BY <1>8 DEF Init
<1>10. TypeOK
  <2>1. quotes \in [Keys -> [data : BOOLEAN, failures : 0..QUOTE_RETRIES, error : BOOLEAN]]
    BY BoundsAssumption DEF Init, NoQuote
  <2>2. screen \in [flow : {"idle", "approving", "sending", "success", "error"},
                    shown : SUBSET Attempts, outcome : {"bonded", "unbonded", "none"}]
    BY DEF Init, Idle
  <2>3. /\ wallet \in [account : Accounts \union {NoAccount}, home : BOOLEAN]
        /\ trading \in BOOLEAN /\ changes \in 0 .. MAX_CHANGES
    <3>1. wallet \in [account : Accounts \union {NoAccount}, home : {TRUE}]
      BY DEF Init
    <3>2. trading = TRUE /\ changes = 0
      BY DEF Init
    <3>3. wallet \in [account : Accounts \union {NoAccount}, home : BOOLEAN]
      <4>1. TRUE \in BOOLEAN /\ {TRUE} \in SUBSET BOOLEAN
        OBVIOUS
      <4> QED
        BY <3>1, <4>1
    <3>4. 0 \in 0 .. MAX_CHANGES
      BY BoundsAssumption
    <3> QED
      BY <3>2, <3>3, <3>4
  <2> QED
    BY <1>1, <1>6, <1>9, <2>1, <2>2, <2>3 DEF TypeOK
<1>11. \A t \in Attempts : Sound(attempts[t]) /\ Prepared(attempts[t], grants)
                            /\ attempts[t].phase = "none"
  BY <1>2, <1>4 DEF Sound, Prepared
<1>12. BusyWith /\ KnownIsTrue /\ screen.shown = {}
  BY <1>9, <1>11 DEF BusyWith, UnderWay, KnownIsTrue, Init, Idle
<1> QED
  BY <1>10, <1>11, <1>12 DEF IInv

LEMMA NextIInv ==
    ASSUME IInv, [Next]_vars
    PROVE  IInv'
<1>1. CASE UserStep
  BY <1>1, UserStepKeeps
<1>2. CASE \/ TradingChanges \/ QuoteAnswers \/ QuoteFails \/ ReadAllowances
           \/ \E a \in Accounts : GrantLapses(a)
  BY <1>2, NetworkKeeps
<1>3. ASSUME NEW t \in Attempts, AttemptStep(t)
      PROVE  IInv'
  <2>1. CASE PressPrepare(t) \/ PressSwap(t)
    BY <2>1, PressPrepareKeeps, PressSwapKeeps
  <2>2. CASE Answered(t)
    BY <2>2, EstimateKeeps, SignKeeps, GrantConfirmedKeeps, EndKeeps, SwapConfirmedKeeps DEF Answered
  <2>3. CASE \E boundsMet \in BOOLEAN : Mine(t, boundsMet)
    BY <2>3, MineKeeps
  <2> QED
    BY <1>3, <2>1, <2>2, <2>3 DEF AttemptStep
<1>4. CASE UNCHANGED vars
  BY <1>4 DEF vars, IInv, TypeOK, BusyWith, KnownIsTrue, Alone, UnderWay, Busy
<1> QED
  BY <1>1, <1>2, <1>3, <1>4 DEF Next

THEOREM FlowInductive == Spec => []IInv
BY InitIInv, NextIInv, PTL DEF Spec

(* One flow at a time until something is edited, and every swap bounded by *)
(* the quote of the very request it is signed for (busy, quoteArgs).       *)
THEOREM FlowIsSafe == Spec => []FlowSafe
<1>1. IInv => FlowSafe
  <2> SUFFICES ASSUME IInv PROVE FlowSafe
    OBVIOUS
  <2>1. BoundsBelongToForm
    BY DEF IInv, BoundsBelongToForm, Sound
  <2>2. ASSUME \A t \in Attempts : ~ attempts[t].reset
        PROVE  Cardinality(UnderWay) <= 1
    <3>1. \A t \in UnderWay : screen.shown = {t}
      BY <2>2 DEF IInv, BusyWith
    <3>2. CASE UnderWay = {}
      BY <3>2, FS_EmptySet
    <3>3. CASE UnderWay # {}
      <4>1. PICK t \in UnderWay : TRUE
        BY <3>3
      <4>2. UnderWay = {t}
        BY <3>1, <4>1
      <4> QED
        BY <4>2, FS_Singleton
    <3> QED
      BY <3>2, <3>3
  <2> QED
    BY <2>1, <2>2 DEF FlowSafe, OneFlowUnlessEdited, IInv
<1> QED
  BY <1>1, FlowInductive, PTL

(* A success is the chain's, and a swap seen to succeed is never shown as  *)
(* a failure (submitSwap, after the receipt).                              *)
THEOREM ShownHonestly == Spec => []SwapShownHonest
<1>1. IInv => SwapShownHonest
  BY DEF IInv, TypeOK, SwapShownHonest, Displayed
<1> QED
  BY <1>1, FlowInductive, PTL

(* One press of Prepare wallet grants what the trade needs (prepareWallet, *)
(* allowanceStatus).                                                       *)
THEOREM PreparedOnce == Spec => []PreparationSuffices
<1>1. IInv => PreparationSuffices
  BY DEF IInv, PreparationSuffices, Alone, Prepared, TokenCovers, Permit2Covers, Covered
<1> QED
  BY <1>1, FlowInductive, PTL
================================================================================
