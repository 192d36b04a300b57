-------------------------------- MODULE RpcProxy --------------------------------
(***************************************************************************)
(* The read-only JSON-RPC proxy (route.ts over rpcProxy.ts).               *)
(*                                                                         *)
(* Each incoming HTTP request is a handler of its own on one event loop:   *)
(* it counts the client against a fixed window, normalizes its body, picks *)
(* an upstream that serves the configured chain, fans its entries out to   *)
(* concurrent workers that share a cursor, and recombines the answers in   *)
(* the caller's order.  Handlers interleave at every await, and share the  *)
(* rate buckets and the cache of verified upstreams.                       *)
(***************************************************************************)
EXTENDS Naturals, Sequences, FiniteSets, Functions

CONSTANTS
    Requests,       \* incoming HTTP requests
    Clients,
    Upstreams,      \* the candidate endpoints, a sequence
    Bodies,         \* bodies a caller may send: sequences of entry kinds
    RATE_LIMIT,
    RATE_WINDOW,
    MAX_BUCKETS,    \* 1,000 in the code
    CHAIN_VERIFY_TTL,
    FANOUT_CONCURRENCY,
    MAX_BATCH_REQUESTS,
    MAX_CLOCK,      \* bound: the last tick of the instance
    MAX_MOVES       \* bound: times an upstream changes its chain

ASSUME FanoutAssumption == FANOUT_CONCURRENCY \in Nat \ {0}
ASSUME LimitsAssumption ==
    /\ RATE_LIMIT \in Nat /\ RATE_WINDOW \in Nat /\ MAX_BATCH_REQUESTS \in Nat
    /\ MAX_BUCKETS \in Nat \ {0} /\ CHAIN_VERIFY_TTL \in Nat \ {0}
    /\ MAX_CLOCK \in Nat /\ MAX_MOVES \in Nat

VARIABLES
    clock,
    served,         \* whether each upstream serves the configured chain
    moves,          \* times an upstream changed chain (bound)
    buckets,        \* rateBuckets, in the order of the Map
    verified,       \* verifiedChains: what each upstream answered, and when
    handlers,       \* where each HTTP request stands
    arrivals        \* history: when each client's requests arrived

vars == <<clock, served, moves, buckets, verified, handlers, arrivals>>

UpstreamIds == Range(Upstreams)

ASSUME UpstreamsAssumption == Upstreams \in Seq(UpstreamIds)

(* Positions: those of S up to i, the k-th of S, and the elements of s at  *)
(* positions S, in order.                                                  *)
Upto(S, i)    == {j \in S : j <= i}
Nth(S, k)     == CHOOSE i \in S : Cardinality(Upto(S, i)) = k
InOrder(s, S) == [k \in 1..Cardinality(S) |-> s[Nth(S, k)]]

(* The kinds of entry normalizeItem tells apart, and the code each gets:   *)
(* "malformed" stands for a wrong version, method or params, "badFilter"   *)
(* for a log filter that is refused; "ok" is forwarded.                    *)
CodeOf(kind) == CASE kind = "notAnObject"   -> "INVALID_REQUEST"
                  [] kind = "malformed"     -> "INVALID_REQUEST"
                  [] kind = "unknownMethod" -> "METHOD_NOT_FOUND"
                  [] kind = "badFilter"     -> "INVALID_PARAMS"

EntryKinds == {"ok", "notAnObject", "malformed", "unknownMethod", "badFilter"}

(* The body is one object, or a batch; TooLarge is longer than             *)
(* MAX_RPC_BODY_BYTES, and Unparsable is not JSON.                         *)
Unparsable == [isBatch |-> FALSE, entries |-> <<>>]
TooLarge == [isBatch |-> FALSE, entries |-> <<"tooLarge">>]

ASSUME BodiesAssumption ==
    Bodies \subseteq {TooLarge, Unparsable} \cup [isBatch : BOOLEAN, entries : Seq(EntryKinds)]

Fatal(body) ==
    CASE body = TooLarge                                      -> "INVALID_REQUEST"
      [] body = Unparsable                                    -> "PARSE_ERROR"
      [] body.isBatch /\ body.entries = <<>>                  -> "INVALID_REQUEST"
      [] body.isBatch /\ Len(body.entries) > MAX_BATCH_REQUESTS -> "INVALID_REQUEST"
      [] OTHER                                                -> "none"

(* A response: the id it carries, and a code, or the answer to an entry.   *)
(* The id of the entry at position i is i; an entry that is not an object  *)
(* has none.                                                               *)
NoId == 0
IdAt(body, i) == IF body.entries[i] = "notAnObject" THEN NoId ELSE i
Error(id, code) == [id |-> id, code |-> code, answers |-> NoId]
Answer(id, i) == [id |-> id, code |-> "none", answers |-> i]

(* The positions that are forwarded, in order. *)
Accepted(body)    == {i \in DOMAIN body.entries : body.entries[i] = "ok"}
Forwardable(body) == [k \in 1..Cardinality(Accepted(body)) |-> Nth(Accepted(body), k)]

Unanswered == Error(NoId, "unanswered")

Workers == 1..FANOUT_CONCURRENCY

NewHandler == [phase |-> "none", client |-> CHOOSE c \in Clients : TRUE, body |-> Unparsable,
               candidate |-> 0, cursor |-> 1, holds |-> [w \in Workers |-> 0],
               results |-> <<>>, sent |-> <<>>, responses |-> <<>>]

Init ==
    /\ clock = 0
    /\ served \in [UpstreamIds -> BOOLEAN]
    /\ moves = 0
    /\ buckets = <<>>
    /\ verified = [u \in UpstreamIds |-> {}]
    /\ handlers = [r \in Requests |-> NewHandler]
    /\ arrivals = [c \in Clients |-> <<>>]

Sets(r, h) == handlers' = [handlers EXCEPT ![r] = h]
Replies(h, responses) == [h EXCEPT !.phase = "done", !.responses = responses]

-----------------------------------------------------------------------------
(* isRateLimited. *)
BucketOf(c) == {i \in DOMAIN buckets : buckets[i].client = c}

Expired(bucket) == clock - bucket.startedAt >= RATE_WINDOW

NewBucket(c) == [client |-> c, startedAt |-> clock, count |-> 1]

(* A full map drops its expired buckets, and then its first one if it is   *)
(* still full.                                                             *)
RoomMade(bs) ==
    LET live == InOrder(bs, {i \in DOMAIN bs : ~ Expired(bs[i])}) IN
    IF Len(bs) < MAX_BUCKETS THEN bs
    ELSE IF Len(live) < MAX_BUCKETS THEN live ELSE Tail(live)

(* Setting a key the map still holds keeps its place. *)
Restarted(c, bs) ==
    IF \E i \in DOMAIN bs : bs[i].client = c
    THEN [i \in DOMAIN bs |-> IF bs[i].client = c THEN NewBucket(c) ELSE bs[i]]
    ELSE Append(bs, NewBucket(c))

Counted(c) ==
    IF \E i \in BucketOf(c) : ~ Expired(buckets[i])
    THEN [i \in DOMAIN buckets |->
             IF i \in BucketOf(c) THEN [buckets[i] EXCEPT !.count = @ + 1] ELSE buckets[i]]
    ELSE Restarted(c, RoomMade(buckets))

Limited(c) == \E i \in BucketOf(c) : ~ Expired(buckets[i]) /\ buckets[i].count + 1 > RATE_LIMIT

(* POST, up to the choice of an upstream: the client is counted, then the  *)
(* body read and normalized, which touches nothing handlers share.         *)
Receive(r, c, body) ==
    LET h == [NewHandler EXCEPT !.client = c, !.body = body] IN
    /\ handlers[r].phase = "none"
    /\ buckets' = Counted(c)
    /\ arrivals' = [arrivals EXCEPT ![c] = Append(@, clock)]
    /\ Sets(r, IF Limited(c) THEN Replies(h, <<Error(NoId, "LIMIT_EXCEEDED")>>)
               ELSE IF Fatal(body) # "none" THEN Replies(h, <<Error(NoId, Fatal(body))>>)
               ELSE [h EXCEPT !.phase = "choosing", !.candidate = 1])
    /\ UNCHANGED <<clock, served, moves, verified>>

-----------------------------------------------------------------------------
(* upstreamChainMatches, for the current candidate. *)
Current(r) == Upstreams[handlers[r].candidate]

(* Mutant: a verification never goes stale. *)
FreshForever(check) == TRUE

Fresh(check) == clock - check.at < CHAIN_VERIFY_TTL

Chosen(h) ==
    LET n == Len(Forwardable(h.body)) IN
    [h EXCEPT !.phase = "forwarding",
              !.results = [i \in 1..n |-> Unanswered],
              !.sent = [i \in 1..n |-> 0]]

(* Mutant: the same endpoint is tried again. *)
NextCandidateSame(h) == [h EXCEPT !.phase = "choosing"]

NextCandidate(h) == [h EXCEPT !.phase = "choosing", !.candidate = @ + 1]

(* The cached verification decides without a request. *)
UseCachedChain(r) ==
    /\ handlers[r].phase = "choosing"
    /\ Forwardable(handlers[r].body) # <<>>
    /\ handlers[r].candidate <= Len(Upstreams)
    /\ \E check \in verified[Current(r)] :
          /\ Fresh(check)
          /\ Sets(r, IF check.matches THEN Chosen(handlers[r]) ELSE NextCandidate(handlers[r]))
    /\ UNCHANGED <<clock, served, moves, buckets, verified, arrivals>>

(* Otherwise eth_chainId is asked: handlers that find no fresh             *)
(* verification ask at the same time.                                      *)
AskChain(r) ==
    /\ handlers[r].phase = "choosing"
    /\ Forwardable(handlers[r].body) # <<>>
    /\ handlers[r].candidate <= Len(Upstreams)
    /\ ~ \E check \in verified[Current(r)] : Fresh(check)
    /\ Sets(r, [handlers[r] EXCEPT !.phase = "verifying"])
    /\ UNCHANGED <<clock, served, moves, buckets, verified, arrivals>>

(* It answers, or fails; a failure leaves the cache alone.                 *)
ChainAnswered(r) ==
    LET u == Current(r) IN
    /\ handlers[r].phase = "verifying"
    /\ verified' = [verified EXCEPT ![u] = {[matches |-> served[u], at |-> clock]}]
    /\ Sets(r, IF served[u] THEN Chosen(handlers[r]) ELSE NextCandidate(handlers[r]))
    /\ UNCHANGED <<clock, served, moves, buckets, arrivals>>

ChainUnanswered(r) ==
    /\ handlers[r].phase = "verifying"
    /\ Sets(r, NextCandidate(handlers[r]))
    /\ UNCHANGED <<clock, served, moves, buckets, verified, arrivals>>

-----------------------------------------------------------------------------
(* Mutant: answers are taken by position. *)
RecombinedByPosition(body, answers) ==
    [i \in 1..Len(body.entries) |->
        IF body.entries[i] = "ok" /\ i \in DOMAIN answers THEN answers[i]
        ELSE IF body.entries[i] = "ok" THEN Unanswered
        ELSE Error(IdAt(body, i), CodeOf(body.entries[i]))]

(* Recombine: answers are taken in order by the entries that were          *)
(* forwarded; the others keep their own error.                             *)
Recombined(body, answers) ==
    [i \in 1..Len(body.entries) |->
        IF body.entries[i] = "ok"
        THEN answers[Cardinality(Upto(Accepted(body), i))]
        ELSE Error(IdAt(body, i), CodeOf(body.entries[i]))]

(* Nothing to forward, or no candidate left. *)
AnswerLocally(r) ==
    LET h == handlers[r]
        todo == Forwardable(h.body)
    IN
    /\ h.phase = "choosing"
    /\ todo = <<>> \/ h.candidate > Len(Upstreams)
    /\ Sets(r, Replies(h, Recombined(h.body,
                   [k \in 1..Len(todo) |-> Error(todo[k], "INTERNAL")])))
    /\ UNCHANGED <<clock, served, moves, buckets, verified, arrivals>>

(* worker: the cursor moves before the await. *)
CursorAfter(h) == h.cursor + 1

WorkerTakes(r, w) ==
    LET h == handlers[r] IN
    /\ h.phase = "forwarding"
    /\ h.holds[w] = 0
    /\ h.cursor <= Len(h.results)
    /\ w <= Len(h.results)
    /\ Sets(r, [h EXCEPT !.holds = [h.holds EXCEPT ![w] = h.cursor], !.cursor = CursorAfter(h),
                         !.sent = [h.sent EXCEPT ![h.cursor] = @ + 1]])
    /\ UNCHANGED <<clock, served, moves, buckets, verified, arrivals>>

(* forwardOne returns: an answer under the caller's own id, whatever id    *)
(* the upstream echoed, or an internal error.                              *)
Forwarded(i, answered, echoed) ==
    IF answered THEN Answer(i, i) ELSE Error(i, "INTERNAL")

WorkerReturns(r, w, answered, echoed) ==
    LET h == handlers[r]
        k == h.holds[w]
    IN
    /\ h.phase = "forwarding"
    /\ k # 0
    /\ Sets(r, [h EXCEPT !.holds = [h.holds EXCEPT ![w] = 0],
                         !.results = [h.results EXCEPT ![k] =
                             Forwarded(Forwardable(h.body)[k], answered, echoed)]])
    /\ UNCHANGED <<clock, served, moves, buckets, verified, arrivals>>

(* Promise.all: every worker has run out. *)
Reply(r) ==
    LET h == handlers[r] IN
    /\ h.phase = "forwarding"
    /\ h.cursor > Len(h.results)
    /\ \A w \in DOMAIN h.holds : h.holds[w] = 0
    /\ Sets(r, Replies(h, Recombined(h.body, h.results)))
    /\ UNCHANGED <<clock, served, moves, buckets, verified, arrivals>>

-----------------------------------------------------------------------------
Tick ==
    /\ clock < MAX_CLOCK
    /\ clock' = clock + 1
    /\ UNCHANGED <<served, moves, buckets, verified, handlers, arrivals>>

(* An endpoint is repointed, or recovers. *)
UpstreamMoves(u) ==
    /\ moves < MAX_MOVES
    /\ moves' = moves + 1
    /\ served' = [served EXCEPT ![u] = ~ @]
    /\ UNCHANGED <<clock, buckets, verified, handlers, arrivals>>

HandlerStep(r) ==
    \/ UseCachedChain(r)
    \/ AskChain(r)
    \/ ChainAnswered(r)
    \/ ChainUnanswered(r)
    \/ AnswerLocally(r)
    \/ \E w \in Workers :
          \/ WorkerTakes(r, w)
          \/ \E answered \in BOOLEAN, echoed \in {NoId, 1} : WorkerReturns(r, w, answered, echoed)
    \/ Reply(r)

Next ==
    \/ \E r \in Requests : \/ \E c \in Clients, body \in Bodies : Receive(r, c, body)
                           \/ HandlerStep(r)
    \/ Tick
    \/ \E u \in UpstreamIds : UpstreamMoves(u)

(* Every fetch has a timeout, so every await settles.  A handler takes     *)
(* finitely many steps, so it is enough that some handler goes on.         *)
Fairness == WF_vars(\E r \in Requests : HandlerStep(r))

Spec == Init /\ [][Next]_vars /\ Fairness

-----------------------------------------------------------------------------
Codes == {"none", "unanswered", "INTERNAL", "LIMIT_EXCEEDED", "PARSE_ERROR",
          "INVALID_REQUEST", "METHOD_NOT_FOUND", "INVALID_PARAMS"}
Response == [id : Nat, code : Codes, answers : Nat]

TypeOK ==
    /\ clock \in 0..MAX_CLOCK /\ moves \in 0..MAX_MOVES
    /\ served \in [UpstreamIds -> BOOLEAN]
    /\ buckets \in Seq([client : Clients, startedAt : Nat, count : Nat \ {0}])
    /\ verified \in [UpstreamIds -> SUBSET [matches : BOOLEAN, at : Nat]]
    /\ \A r \in Requests :
          LET h == handlers[r] IN
          /\ h.phase \in {"none", "choosing", "verifying", "forwarding", "done"}
          /\ h.results \in Seq(Response) /\ h.responses \in Seq(Response)
          /\ h.cursor \in 1..(Len(h.results) + 1)
    /\ arrivals \in [Clients -> Seq(Nat)]

(* Each caller gets one response per entry, in its own order, under the    *)
(* entry's own id: the answer to that very entry, or an error that is the  *)
(* entry's own or says the upstream failed -- whatever order the workers   *)
(* finish in and whatever ids the upstream echoes (route.ts: "IDS MUST     *)
(* SURVIVE", "recombined in order").                                       *)
AnswersInPlace ==
    \A r \in Requests :
        LET h == handlers[r] IN
        h.phase = "done" /\ (\A i \in DOMAIN h.responses :
                               h.responses[i].code \notin {"LIMIT_EXCEEDED", "PARSE_ERROR"})
                         /\ Fatal(h.body) = "none"
        => /\ Len(h.responses) = Len(h.body.entries)
           /\ \A i \in DOMAIN h.responses :
                 /\ h.responses[i].id = IdAt(h.body, i)
                 /\ IF h.body.entries[i] = "ok"
                    THEN h.responses[i].code = "INTERNAL" \/ h.responses[i].answers = i
                    ELSE h.responses[i].code = CodeOf(h.body.entries[i])

(* No entry is sent upstream twice, by whichever workers, and no more than *)
(* FANOUT_CONCURRENCY are in flight; every entry is sent before the reply  *)
(* (the shared cursor of forwardAll).                                      *)
SentOnce ==
    \A r \in Requests :
        LET h == handlers[r] IN
        /\ \A k \in DOMAIN h.sent : h.sent[k] <= 1
        /\ \A v, w \in DOMAIN h.holds : v # w /\ h.holds[v] # 0 => h.holds[v] # h.holds[w]
        /\ h.phase = "done" => \A k \in DOMAIN h.sent : h.sent[k] = 1

(* The map of buckets stays bounded, one bucket per client. *)
BucketsBounded ==
    /\ Len(buckets) <= MAX_BUCKETS
    /\ \A i, j \in DOMAIN buckets : buckets[i].client = buckets[j].client => i = j

(* Whatever arrives, and however it interleaves: a batch is answered in    *)
(* place, sent once, and the rate table does not grow (route.ts).          *)
BatchSafe == TypeOK /\ AnswersInPlace /\ SentOnce /\ BucketsBounded

(* Nothing is forwarded to an endpoint unless it answered, at most         *)
(* CHAIN_VERIFY_TTL before it was chosen, that it serves the configured    *)
(* chain, whichever handler asked it (upstreamChainMatches).               *)
ChosenWasVerified(r) ==
    handlers[r].phase # "forwarding" /\ handlers'[r].phase = "forwarding"
    => \E check \in verified'[Current(r)] :
          check.matches /\ clock - check.at < CHAIN_VERIFY_TTL

(* A client is refused only when it really made more than RATE_LIMIT       *)
(* requests within the last window, whatever buckets were evicted          *)
(* meanwhile.                                                              *)
Recent(c) == Cardinality({i \in DOMAIN arrivals[c] : clock - arrivals[c][i] < RATE_WINDOW})

RefusedOnlyOverLimit(r, c) ==
    /\ handlers[r].phase = "none" /\ handlers'[r].phase = "done"
    /\ handlers'[r].client = c
    /\ handlers'[r].responses[1].code = "LIMIT_EXCEEDED"
    => Recent(c)' > RATE_LIMIT

(* Both caches, of verifications and of buckets, decide as the facts they  *)
(* stand for would: no stale entry forwards or refuses a request           *)
(* (route.ts chainCache, rateBuckets).                                     *)
DecisionsSound ==
    [][\A r \in Requests : /\ ChosenWasVerified(r)
                           /\ \A c \in Clients : RefusedOnlyOverLimit(r, c)]_vars

(* Every request is answered, whatever its upstreams do. *)
EveryRequestAnswered ==
    \A r \in Requests : handlers[r].phase # "none" ~> handlers[r].phase = "done"
=============================================================================
