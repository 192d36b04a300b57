----------------------------- MODULE TokenMetadata -----------------------------
(***************************************************************************)
(* The metadata of the pool's tokens (tokenMetadata.ts, and the effect of  *)
(* useProtocol.ts that loads it): every amount is parsed and shown with    *)
(* the decimals this module ends up with, so it must never guess, and      *)
(* never lose what it has.  A load reads the tokens that are not cached,   *)
(* each with two requests; a refresh cancels it and starts another.        *)
(***************************************************************************)
EXTENDS Naturals

CONSTANTS
    Tokens,         \* the pool's currencies
    Reported,       \* what a token's decimals() may return
    MAX_DECIMALS,   \* 36 in the code
    Loads           \* bound: refreshes of the page

VARIABLES
    decimals,       \* what each token's decimals() returns, when it is answered
    cache,          \* the module's cache: what is known of each token
    loads,          \* the loads begun: live or cancelled, and what they read
    tokens          \* the state of the hook: what is shown, if anything

vars == <<decimals, cache, loads, tokens>>

(* What can be known of a token: its decimals, and its own symbol or one   *)
(* made of its address.                                                    *)
Unknown == [known |-> FALSE, decimals |-> 0, symbol |-> "none"]
Known(read, symbol) == [known |-> TRUE, decimals |-> read, symbol |-> symbol]

Loading == [status |-> "loading", meta |-> [c \in Tokens |-> Unknown]]

NoLoad == [phase |-> "none", live |-> FALSE, meta |-> [c \in Tokens |-> Unknown]]

Init ==
    /\ decimals \in [Tokens -> Reported]
    /\ cache = [c \in Tokens |-> Unknown]
    /\ loads = [l \in Loads |-> NoLoad]
    /\ tokens = Loading

-----------------------------------------------------------------------------
(* Mutant: a load goes on after a refresh, as if it were the last. *)
CancelledNever(load) == load

(* The clean-up of the effect. *)
Cancelled(load) == [load EXCEPT !.live = FALSE]

(* The effect runs, for the first render or for a refresh (a new nonce).   *)
(* What is cached is taken at once.                                        *)
Begin(l) ==
    /\ loads[l].phase = "none"
    /\ loads' = [k \in Loads |-> IF k = l THEN [phase |-> "reading", live |-> TRUE, meta |-> cache]
                                 ELSE Cancelled(loads[k])]
    /\ UNCHANGED <<decimals, cache, tokens>>

(* The decimals of a token, if they are answered and can be used. *)
DecimalsRead(c, answered) == IF answered THEN {decimals[c]} \intersect 0..MAX_DECIMALS ELSE {}

Cached(c, meta) == [cache EXCEPT ![c] = meta]

(* Both requests of a token are settled: a symbol that cannot be read is   *)
(* made up of the address.  The cache is filled even by a load that is     *)
(* cancelled, or has failed for the other token.                           *)
TokenRead(l, c, answered, symbol) ==
    /\ loads[l].phase \in {"reading", "rejected"}
    /\ ~ loads[l].meta[c].known
    /\ \E read \in DecimalsRead(c, answered) :
          /\ loads' = [loads EXCEPT ![l].meta[c] = Known(read, symbol)]
          /\ cache' = Cached(c, Known(read, symbol))
    /\ UNCHANGED <<decimals, tokens>>

(* Promise.all rejects with the first failure. *)
TokenFails(l, c, answered) ==
    /\ loads[l].phase = "reading"
    /\ ~ loads[l].meta[c].known
    /\ DecimalsRead(c, answered) = {}
    /\ loads' = [loads EXCEPT ![l].phase = "rejected"]
    /\ tokens' = IF loads[l].live THEN [Loading EXCEPT !.status = "error"] ELSE tokens
    /\ UNCHANGED <<decimals, cache>>

(* Both tokens are known. *)
Resolve(l) ==
    /\ loads[l].phase = "reading"
    /\ \A c \in Tokens : loads[l].meta[c].known
    /\ loads' = [loads EXCEPT ![l].phase = "done"]
    /\ tokens' = IF loads[l].live THEN [status |-> "ready", meta |-> loads[l].meta] ELSE tokens
    /\ UNCHANGED <<decimals, cache>>

LoadStep(l) ==
    \/ \E c \in Tokens, answered \in BOOLEAN :
          \/ \E symbol \in {"own", "fromAddress"} : TokenRead(l, c, answered, symbol)
          \/ TokenFails(l, c, answered)
    \/ Resolve(l)

Next == \E l \in Loads : Begin(l) \/ LoadStep(l)

Spec == Init /\ [][Next]_vars

-----------------------------------------------------------------------------
Meta == [known : BOOLEAN, decimals : 0..MAX_DECIMALS, symbol : {"none", "own", "fromAddress"}]

TypeOK ==
    /\ decimals \in [Tokens -> Reported]
    /\ cache \in [Tokens -> Meta]
    /\ loads \in [Loads -> [phase : {"none", "reading", "rejected", "done"}, live : BOOLEAN,
                            meta : [Tokens -> Meta]]]
    /\ tokens \in [status : {"loading", "ready", "error"}, meta : [Tokens -> Meta]]

(* Amounts are never parsed or shown with decimals that are not the        *)
(* token's own: both tokens are known or neither is, whichever loads       *)
(* raced, and a pool with an unusable token never gets that far            *)
(* (tokenMetadata.ts: "nothing is assumed").                               *)
FailsClosed ==
    \A c \in Tokens :
        IF tokens.status = "ready"
        THEN tokens.meta[c].known /\ tokens.meta[c].decimals = decimals[c]
        ELSE tokens.meta[c] = Unknown

(* Once both tokens were shown, no refresh loses them again: neither a     *)
(* late failure of a load it cancelled, nor an endpoint that has stopped   *)
(* answering since (useProtocol.ts, the cancelled flag and the cache).     *)
StaysReady == tokens.status = "ready" => tokens'.status = "ready"
=============================================================================
