---------------------------- MODULE RpcProxy_proofs ----------------------------
(***************************************************************************)
(* The proxy for any number of requests, clients, upstreams and workers,   *)
(* and bodies of any length: each answer in its entry's place, nothing     *)
(* sent twice, a table that does not grow, and decisions no stale entry of *)
(* a cache can make.                                                       *)
(***************************************************************************)
EXTENDS RpcProxy, FiniteSetTheorems, SequenceTheorems, TLAPS

-------------------------------------------------------------------------------
(* Positions taken in order. *)

LEMMA UptoFinite ==
    ASSUME NEW n \in Nat, NEW S \in SUBSET (1..n), NEW i \in S
    PROVE  /\ IsFiniteSet(S) /\ IsFiniteSet(Upto(S, i))
           /\ Cardinality(S) \in Nat
           /\ Cardinality(Upto(S, i)) \in 1..Cardinality(S)
<1>1. IsFiniteSet(1..n)
  BY FS_Interval
<1>2. IsFiniteSet(S)
  BY <1>1, FS_Subset
<1>3. Upto(S, i) \in SUBSET S /\ i \in Upto(S, i)
  BY DEF Upto
<1>4. /\ IsFiniteSet(Upto(S, i))
      /\ Cardinality(Upto(S, i)) <= Cardinality(S)
  BY <1>2, <1>3, FS_Subset
<1>5. Cardinality(S) \in Nat /\ Cardinality(Upto(S, i)) \in Nat
  BY <1>2, <1>4, FS_CardinalityType
<1>6. Cardinality(Upto(S, i)) # 0
  BY <1>3, <1>4, FS_EmptySet
<1> QED
  BY <1>2, <1>4, <1>5, <1>6

\* A later position has more positions up to it.
LEMMA UptoStrict ==
    ASSUME NEW n \in Nat, NEW S \in SUBSET (1..n), NEW i \in S, NEW j \in S, i < j
    PROVE  Cardinality(Upto(S, i)) < Cardinality(Upto(S, j))
<1>1. \A k \in S : k \in Nat
  OBVIOUS
<1>2. Upto(S, i) \in SUBSET Upto(S, j) /\ j \notin Upto(S, i) /\ j \in Upto(S, j)
  <2>1. i \in Nat /\ j \in Nat
    BY <1>1
  <2>2. ~ j <= i /\ j <= j /\ \A k \in S : k <= i => k <= j
    BY <1>1, <2>1
  <2> QED
    BY <2>2 DEF Upto
<1>3. IsFiniteSet(Upto(S, j))
  BY UptoFinite
<1>4. /\ Cardinality(Upto(S, i)) <= Cardinality(Upto(S, j))
      /\ Cardinality(Upto(S, i)) # Cardinality(Upto(S, j))
  BY <1>2, <1>3, FS_Subset
<1> QED
  BY <1>4, UptoFinite

\* Each position has a place of its own, and each place its position.
LEMMA NthPosition ==
    ASSUME NEW n \in Nat, NEW S \in SUBSET (1..n)
    PROVE  /\ IsFiniteSet(S) /\ Cardinality(S) \in Nat /\ Cardinality(S) <= n
           /\ \A i \in S : /\ Cardinality(Upto(S, i)) \in 1..Cardinality(S)
                           /\ Nth(S, Cardinality(Upto(S, i))) = i
           /\ \A k \in 1..Cardinality(S) : /\ Nth(S, k) \in S
                                           /\ Cardinality(Upto(S, Nth(S, k))) = k
<1> DEFINE Place == [i \in S |-> Cardinality(Upto(S, i))]
           m     == Cardinality(S)
<1>1. IsFiniteSet(1..n) /\ Cardinality(1..n) = n
  BY FS_Interval
<1>2. IsFiniteSet(S) /\ m \in Nat /\ m <= n
  BY <1>1, FS_Subset, FS_CardinalityType
<1> HIDE DEF m, Place
<1>0. \A i \in S : i \in Nat /\ Cardinality(Upto(S, i)) \in Nat
  <2>1. \A i \in S : Cardinality(Upto(S, i)) \in 1..m
    BY UptoFinite DEF m
  <2>2. \A i \in S : i \in Nat
    OBVIOUS
  <2> QED
    BY <1>2, <2>1, <2>2
<1>3. \A i, j \in S : i # j => Cardinality(Upto(S, i)) # Cardinality(Upto(S, j))
  <2> SUFFICES ASSUME NEW i \in S, NEW j \in S, i # j
               PROVE  Cardinality(Upto(S, i)) # Cardinality(Upto(S, j))
    OBVIOUS
  <2>1. /\ i \in Nat /\ j \in Nat
        /\ Cardinality(Upto(S, i)) \in Nat /\ Cardinality(Upto(S, j)) \in Nat
    BY <1>0
  <2>2. CASE i < j
    <3>1. Cardinality(Upto(S, i)) < Cardinality(Upto(S, j))
      BY <2>2, UptoStrict
    <3> QED
      BY <2>1, <3>1
  <2>3. CASE j < i
    <3>1. Cardinality(Upto(S, j)) < Cardinality(Upto(S, i))
      BY <2>3, UptoStrict
    <3> QED
      BY <2>1, <3>1
  <2> QED
    BY <2>1, <2>2, <2>3
<1>4. \A i \in S : Cardinality(Upto(S, i)) \in 1..m
  BY UptoFinite DEF m
<1>5. Place \in Injection(S, 1..m)
  BY <1>3, <1>4 DEF Injection, IsInjective, Place
<1>6. IsFiniteSet(1..m) /\ Cardinality(1..m) = m
  BY <1>2, FS_Interval
<1>7. Place \in Surjection(S, 1..m)
  <2>1. Cardinality(S) = Cardinality(1..m)
    BY <1>6 DEF m
  <2> QED
    BY <1>5, <1>6, <2>1, FS_Injection
<1>8. \A k \in 1..m : \E i \in S : Cardinality(Upto(S, i)) = k
  BY <1>7 DEF Surjection, Place
<1>9. ASSUME NEW k \in 1..m
      PROVE  Nth(S, k) \in S /\ Cardinality(Upto(S, Nth(S, k))) = k
  <2>1. \E i : i \in S /\ Cardinality(Upto(S, i)) = k
    BY <1>8
  <2> QED
    BY <2>1, Zenon DEF Nth
<1>10. ASSUME NEW i \in S
       PROVE  Nth(S, Cardinality(Upto(S, i))) = i
  <2>1. PICK k \in 1..m : k = Cardinality(Upto(S, i))
    BY <1>4
  <2>2. Nth(S, k) \in S /\ Cardinality(Upto(S, Nth(S, k))) = k
    BY <1>9
  <2> QED
    BY <1>3, <2>1, <2>2
<1> QED
  BY <1>2, <1>4, <1>9, <1>10 DEF m

\* What is taken of a sequence is a sequence, no longer, of its elements, each
\* from a place of its own.
LEMMA InOrderTakes ==
    ASSUME NEW A, NEW s \in Seq(A), NEW S \in SUBSET (DOMAIN s)
    PROVE  /\ InOrder(s, S) \in Seq(A)
           /\ Len(InOrder(s, S)) <= Len(s)
           /\ \A k \in DOMAIN InOrder(s, S) : /\ Nth(S, k) \in DOMAIN s
                                              /\ InOrder(s, S)[k] = s[Nth(S, k)]
           /\ \A k, l \in DOMAIN InOrder(s, S) : Nth(S, k) = Nth(S, l) => k = l
<1>1. PICK n \in Nat : n = Len(s) /\ DOMAIN s = 1..n
  BY LenProperties
<1>2. PICK m \in Nat : m = Cardinality(S) /\ m <= n
  BY <1>1, NthPosition
<1>3. \A k \in 1..m : Nth(S, k) \in DOMAIN s /\ Cardinality(Upto(S, Nth(S, k))) = k
  BY <1>1, <1>2, NthPosition
<1>4. InOrder(s, S) = [k \in 1..m |-> s[Nth(S, k)]]
  BY <1>2 DEF InOrder
<1>5. \A k \in 1..m : s[Nth(S, k)] \in A
  BY <1>3, ElementOfSeq, LenProperties
<1>6. InOrder(s, S) \in Seq(A) /\ Len(InOrder(s, S)) = m /\ DOMAIN InOrder(s, S) = 1..m
  BY <1>2, <1>4, <1>5, IsASeq
<1> QED
  BY <1>1, <1>2, <1>3, <1>4, <1>6

-------------------------------------------------------------------------------
(* The inductive invariant: each handler. *)

Phases  == {"none", "choosing", "verifying", "forwarding", "done"}
Handler == [phase : Phases, client : Clients \cup {NewHandler.client},
            body : Bodies \cup {Unparsable}, candidate : Nat, cursor : Nat,
            holds : [Workers -> Nat], results : Seq(Response),
            sent : Seq(Nat), responses : Seq(Response)]

(* The answer to the entry at position i, or the failure of its upstream. *)
Answers(response, i) ==
    response.id = i /\ (response.code = "INTERNAL" \/ response.answers = i)

(* One response per entry, each the entry's own. *)
Placed(body, responses) ==
    /\ Len(responses) = Len(body.entries)
    /\ \A i \in DOMAIN responses :
          IF body.entries[i] = "ok" THEN Answers(responses[i], i)
          ELSE /\ responses[i].id = IdAt(body, i)
               /\ responses[i].code = CodeOf(body.entries[i])

Refused(responses) ==
    \E i \in DOMAIN responses : responses[i].code \in {"LIMIT_EXCEEDED", "PARSE_ERROR"}

(* The cursor separates what was sent from what was not, and the workers   *)
(* hold different entries behind it.                                       *)
Shared(h) ==
    /\ h.cursor \in 1..Len(h.results) + 1
    /\ Len(h.sent) = Len(h.results)
    /\ \A k \in 1..Len(h.results) : h.sent[k] = IF k < h.cursor THEN 1 ELSE 0
    /\ \A w \in Workers : h.holds[w] < h.cursor
    /\ \A v, w \in Workers : v # w /\ h.holds[v] # 0 => h.holds[v] # h.holds[w]

(* What was sent and is with no worker has its answer. *)
Answered(h) ==
    LET todo == Forwardable(h.body) IN
    /\ Len(h.results) = Cardinality(Accepted(h.body))
    /\ \A k \in 1..Len(h.results) :
          k < h.cursor => \/ \E w \in Workers : h.holds[w] = k
                          \/ Answers(h.results[k], todo[k])

Sound(h) ==
    /\ h \in Handler
    /\ Shared(h)
    /\ h.phase \in {"choosing", "verifying", "forwarding"} => Fatal(h.body) = "none"
    /\ h.phase \in {"choosing", "verifying"} => h.results = <<>> /\ h.sent = <<>>
    /\ h.phase = "choosing" => h.candidate # 0
    /\ h.phase = "verifying" => h.candidate \in DOMAIN Upstreams
    /\ h.phase = "forwarding" => Answered(h)
    /\ h.phase = "done" => /\ h.cursor = Len(h.results) + 1
                           /\ \/ Fatal(h.body) # "none"
                              \/ Refused(h.responses)
                              \/ Placed(h.body, h.responses)

-------------------------------------------------------------------------------
(* Bodies and responses. *)

(* A body that is not refused whole has entries of the kinds told apart. *)
LEMMA BodyIsRead ==
    ASSUME NEW body \in Bodies \cup {Unparsable}, Fatal(body) = "none"
    PROVE  body.entries \in Seq(EntryKinds)
<1>1. body # TooLarge /\ body # Unparsable
  BY DEF Fatal
<1> QED
  BY <1>1, BodiesAssumption

LEMMA ResponseTypes ==
    /\ \A i \in Nat : Answer(i, i) \in Response /\ Answers(Answer(i, i), i)
    /\ \A i \in Nat, code \in Codes : /\ Error(i, code) \in Response
                                      /\ Error(i, code).id = i
                                      /\ Error(i, code).code = code
    /\ Unanswered \in Response
    /\ \A kind \in EntryKinds \ {"ok"} : CodeOf(kind) \in Codes
BY DEF Answer, Answers, Error, Unanswered, Response, Codes, NoId, CodeOf, EntryKinds

(* The positions forwarded, and the answer each one takes. *)
LEMMA ForwardableIs ==
    ASSUME NEW body, body.entries \in Seq(EntryKinds)
    PROVE  LET todo == Forwardable(body)
               m    == Cardinality(Accepted(body))
           IN  /\ m \in Nat
               /\ todo \in Seq(Nat) /\ Len(todo) = m
               /\ \A i \in Accepted(body) : /\ Cardinality(Upto(Accepted(body), i)) \in 1..m
                                            /\ todo[Cardinality(Upto(Accepted(body), i))] = i
<1> DEFINE S == Accepted(body)
           m == Cardinality(S)
<1>1. PICK n \in Nat : n = Len(body.entries) /\ DOMAIN body.entries = 1..n
  BY LenProperties
<1>2. S \in SUBSET (1..n)
  BY <1>1 DEF Accepted
<1>3. Forwardable(body) = [k \in 1..m |-> Nth(S, k)]
  BY DEF Forwardable
<1> HIDE DEF S
<1>4. /\ m \in Nat
      /\ \A i \in S : Cardinality(Upto(S, i)) \in 1..m /\ Nth(S, Cardinality(Upto(S, i))) = i
      /\ \A k \in 1..m : Nth(S, k) \in S
  BY <1>1, <1>2, NthPosition
<1> HIDE DEF m
<1>5. \A k \in 1..m : Nth(S, k) \in Nat
  <2>1. \A i \in S : i \in Nat
    BY <1>2
  <2> QED
    BY <1>4, <2>1
<1>6. Forwardable(body) \in Seq(Nat) /\ Len(Forwardable(body)) = m
  BY <1>3, <1>4, <1>5, IsASeq
<1>7. \A i \in S : Forwardable(body)[Cardinality(Upto(S, i))] = i
  BY <1>3, <1>4
<1> QED
  BY <1>4, <1>6, <1>7 DEF m, S

(* Recombining answers puts each one in the place of its entry. *)
LEMMA RecombinedIsPlaced ==
    ASSUME NEW body, body.entries \in Seq(EntryKinds), NEW answers \in Seq(Response),
           Len(answers) = Cardinality(Accepted(body)),
           \A k \in 1..Len(answers) : Answers(answers[k], Forwardable(body)[k])
    PROVE  /\ Recombined(body, answers) \in Seq(Response)
           /\ Placed(body, Recombined(body, answers))
<1> DEFINE Out == Recombined(body, answers)
<1>1. PICK n \in Nat : n = Len(body.entries) /\ DOMAIN body.entries = 1..n
  BY LenProperties
<1>2. \A i \in 1..n : body.entries[i] \in EntryKinds /\ i \in Nat
  BY <1>1, ElementOfSeq
<1>3. Out = [i \in 1..n |-> IF body.entries[i] = "ok"
                            THEN answers[Cardinality(Upto(Accepted(body), i))]
                            ELSE Error(IdAt(body, i), CodeOf(body.entries[i]))]
  BY <1>1 DEF Recombined
<1> HIDE DEF Out
<1>4. ASSUME NEW i \in 1..n, body.entries[i] = "ok"
      PROVE  Out[i] \in Response /\ Answers(Out[i], i)
  <2>1. i \in Accepted(body)
    BY <1>1, <1>4 DEF Accepted
  <2>2. PICK k \in 1..Len(answers) : /\ k = Cardinality(Upto(Accepted(body), i))
                                     /\ Forwardable(body)[k] = i
    BY <2>1, ForwardableIs
  <2>3. Out[i] = answers[k]
    BY <1>3, <1>4, <2>2
  <2>4. answers[k] \in Response
    BY <2>2, ElementOfSeq
  <2> QED
    BY <2>2, <2>3, <2>4
<1>5. ASSUME NEW i \in 1..n, body.entries[i] # "ok"
      PROVE  /\ Out[i] \in Response
             /\ Out[i].id = IdAt(body, i) /\ Out[i].code = CodeOf(body.entries[i])
  <2>1. Out[i] = Error(IdAt(body, i), CodeOf(body.entries[i]))
    BY <1>3, <1>5
  <2>2. IdAt(body, i) \in Nat
    BY <1>2 DEF IdAt, NoId
  <2>3. CodeOf(body.entries[i]) \in Codes
    BY <1>2, <1>5, ResponseTypes
  <2> QED
    BY <2>1, <2>2, <2>3, ResponseTypes
<1>6. Out \in Seq(Response) /\ Len(Out) = n /\ DOMAIN Out = 1..n
  <2>1. \A i \in 1..n : Out[i] \in Response
    BY <1>4, <1>5
  <2>2. Out = [i \in 1..n |-> Out[i]]
    BY <1>3
  <2> QED
    BY <2>1, <2>2, IsASeq
<1>7. Placed(body, Out)
  BY <1>1, <1>4, <1>5, <1>6 DEF Placed
<1> QED
  BY <1>6, <1>7 DEF Out

-------------------------------------------------------------------------------
(* Steps of one handler. *)

LEMMA HandlerUpdated ==
    ASSUME NEW h \in Handler, NEW holds \in [Workers -> Nat]
    PROVE  /\ \A cursor \in Nat, sent \in Seq(Nat) :
                 [h EXCEPT !.holds = holds, !.cursor = cursor, !.sent = sent] \in Handler
           /\ \A results \in Seq(Response) :
                 [h EXCEPT !.holds = holds, !.results = results] \in Handler
BY DEF Handler

(* A worker takes the entry at the cursor. *)
LEMMA TakesSound ==
    ASSUME NEW h, Sound(h), h.phase = "forwarding", NEW w \in Workers,
           h.holds[w] = 0, h.cursor <= Len(h.results)
    PROVE  Sound([h EXCEPT !.holds = [h.holds EXCEPT ![w] = h.cursor], !.cursor = CursorAfter(h),
                           !.sent = [h.sent EXCEPT ![h.cursor] = @ + 1]])
<1> DEFINE holds == [h.holds EXCEPT ![w] = h.cursor]
           sent  == [h.sent EXCEPT ![h.cursor] = @ + 1]
           next  == [h EXCEPT !.holds = holds, !.cursor = CursorAfter(h), !.sent = sent]
<1>1. h \in Handler /\ Shared(h) /\ Answered(h) /\ Fatal(h.body) = "none"
  BY DEF Sound
<1>2. PICK c \in Nat \ {0} : c = h.cursor
  BY <1>1 DEF Handler, Shared
<1>3. PICK n \in Nat : n = Len(h.results) /\ n = Len(h.sent)
  BY <1>1, LenProperties DEF Handler, Shared
<1>4. h.holds \in [Workers -> Nat] /\ h.sent \in Seq(Nat)
  BY <1>1 DEF Handler
<1>5. c \in 1..n /\ h.sent[c] = 0
  BY <1>1, <1>2, <1>3 DEF Shared
<1>6. /\ sent \in Seq(Nat) /\ Len(sent) = n
      /\ \A k \in 1..n : sent[k] = IF k = c THEN 1 ELSE h.sent[k]
  <2>1. sent = [h.sent EXCEPT ![c] = 1]
    BY <1>2, <1>3, <1>4, <1>5
  <2> QED
    BY <1>3, <1>4, <1>5, <2>1, ExceptSeq
<1>7. /\ holds \in [Workers -> Nat]
      /\ holds[w] = c
      /\ \A v \in Workers : v # w => holds[v] = h.holds[v]
  BY <1>2, <1>4
<1> HIDE DEF holds, sent
<1>8. /\ next.phase = "forwarding" /\ next.body = h.body
      /\ next.results = h.results /\ next.responses = h.responses
      /\ next.cursor = c + 1 /\ next.holds = holds /\ next.sent = sent
      /\ next.client = h.client /\ next.candidate = h.candidate
  BY <1>1, <1>2 DEF Handler, CursorAfter
<1>9. next \in Handler
  <2>1. CursorAfter(h) \in Nat
    BY <1>2 DEF CursorAfter
  <2> QED
    BY <1>1, <1>6, <1>7, <2>1, HandlerUpdated
<1> HIDE DEF next
<1>10. Shared(next)
  <2>1. c + 1 \in 1..n + 1
    BY <1>5
  <2>2. \A k \in 1..n : sent[k] = IF k < c + 1 THEN 1 ELSE 0
    BY <1>1, <1>2, <1>3, <1>5, <1>6 DEF Shared
  <2>3. \A v \in Workers : h.holds[v] < c /\ holds[v] < c + 1
    BY <1>1, <1>2, <1>4, <1>7 DEF Shared
  <2>4. \A u, v \in Workers : u # v /\ holds[u] # 0 => holds[u] # holds[v]
    BY <1>1, <1>4, <1>7, <2>3 DEF Shared
  <2> QED
    <3>1. next.cursor \in 1..Len(next.results) + 1 /\ Len(next.sent) = Len(next.results)
      BY <1>3, <1>6, <1>8, <2>1
    <3>2. \A k \in 1..Len(next.results) : next.sent[k] = IF k < next.cursor THEN 1 ELSE 0
      BY <1>3, <1>8, <2>2
    <3>3. \A v \in Workers : next.holds[v] < next.cursor
      BY <1>8, <2>3
    <3>4. \A u, v \in Workers : u # v /\ next.holds[u] # 0 => next.holds[u] # next.holds[v]
      BY <1>8, <2>4
    <3> QED
      BY <3>1, <3>2, <3>3, <3>4 DEF Shared
<1>11. Answered(next)
  <2> SUFFICES ASSUME NEW k \in 1..n, k < c + 1
               PROVE  \/ \E v \in Workers : holds[v] = k
                      \/ Answers(h.results[k], Forwardable(h.body)[k])
    BY <1>1, <1>3, <1>8 DEF Answered
  <2>1. CASE k = c
    BY <1>7, <2>1
  <2>2. CASE k < c
    <3>1. \/ \E v \in Workers : h.holds[v] = k
          \/ Answers(h.results[k], Forwardable(h.body)[k])
      BY <1>1, <1>2, <1>3, <2>2 DEF Answered
    <3> QED
      BY <1>7, <3>1
  <2> QED
    BY <1>5, <2>1, <2>2
<1>12. Sound(next)
  BY <1>1, <1>8, <1>9, <1>10, <1>11 DEF Sound
<1> QED
  BY <1>12 DEF next, holds, sent

(* Its answer comes, whatever identifier the upstream echoed. *)
LEMMA ReturnsSound ==
    ASSUME NEW h, Sound(h), h.phase = "forwarding", NEW w \in Workers,
           NEW answered \in BOOLEAN, NEW echoed, h.holds[w] # 0
    PROVE  Sound([h EXCEPT !.holds = [h.holds EXCEPT ![w] = 0],
                           !.results = [h.results EXCEPT ![h.holds[w]] =
                               Forwarded(Forwardable(h.body)[h.holds[w]], answered, echoed)]])
<1> DEFINE q       == h.holds[w]
           answer  == Forwarded(Forwardable(h.body)[q], answered, echoed)
           holds   == [h.holds EXCEPT ![w] = 0]
           results == [h.results EXCEPT ![q] = answer]
           next    == [h EXCEPT !.holds = holds, !.results = results]
<1>1. h \in Handler /\ Shared(h) /\ Answered(h) /\ Fatal(h.body) = "none"
  BY DEF Sound
<1>2. PICK n \in Nat : n = Len(h.results) /\ n = Len(h.sent)
  BY <1>1, LenProperties DEF Handler, Shared
<1>3. /\ h.holds \in [Workers -> Nat] /\ h.results \in Seq(Response)
      /\ h.cursor \in Nat
  BY <1>1 DEF Handler
<1>4. q \in 1..n
  <2>1. q \in Nat /\ q # 0
    BY <1>3
  <2>2. q < h.cursor /\ h.cursor <= n + 1
    BY <1>1, <1>2 DEF Shared
  <2> QED
    BY <1>2, <1>3, <2>1, <2>2
<1>5. answer \in Response /\ Answers(answer, Forwardable(h.body)[q])
  <2>1. h.body.entries \in Seq(EntryKinds)
    BY <1>1, BodyIsRead DEF Handler
  <2>2. Forwardable(h.body) \in Seq(Nat) /\ Len(Forwardable(h.body)) = n
    BY <1>1, <1>2, <2>1, ForwardableIs DEF Answered
  <2>3. Forwardable(h.body)[q] \in Nat
    BY <1>4, <2>2, ElementOfSeq
  <2> QED
    BY <2>3, ResponseTypes DEF Forwarded, Answers, Codes
<1> HIDE DEF q, answer
<1>6. /\ results \in Seq(Response) /\ Len(results) = n
      /\ \A k \in 1..n : results[k] = IF k = q THEN answer ELSE h.results[k]
  <2>1. q \in 1..Len(h.results)
    BY <1>2, <1>4
  <2>2. h.results \in Seq(Response) /\ answer \in Response
    BY <1>3, <1>5
  <2>3. /\ results \in Seq(Response) /\ Len(results) = Len(h.results)
        /\ \A k \in 1..Len(h.results) : results[k] = IF k = q THEN answer ELSE h.results[k]
    BY <2>1, <2>2, ExceptSeq
  <2> QED
    BY <1>2, <2>3
<1>7. /\ holds \in [Workers -> Nat]
      /\ holds[w] = 0
      /\ \A v \in Workers : v # w => holds[v] = h.holds[v]
  BY <1>3
<1> HIDE DEF holds, results
<1>8. /\ next.phase = "forwarding" /\ next.body = h.body
      /\ next.results = results /\ next.responses = h.responses
      /\ next.cursor = h.cursor /\ next.holds = holds /\ next.sent = h.sent
      /\ next.client = h.client /\ next.candidate = h.candidate
      /\ next \in Handler
  BY <1>1, <1>6, <1>7 DEF Handler
<1> HIDE DEF next
<1>9. Shared(next)
  <2>1. 0 < h.cursor
    BY <1>1, <1>2 DEF Shared
  <2>2. \A v \in Workers : holds[v] < h.cursor
    BY <1>1, <1>7, <2>1 DEF Shared
  <2>3. \A u, v \in Workers : u # v /\ holds[u] # 0 => holds[u] # holds[v]
    BY <1>1, <1>7 DEF Shared
  <2> QED
    BY <1>1, <1>2, <1>6, <1>8, <2>2, <2>3 DEF Shared
<1>10. Answered(next)
  <2> SUFFICES ASSUME NEW k \in 1..n, k < h.cursor
               PROVE  \/ \E v \in Workers : holds[v] = k
                      \/ Answers(results[k], Forwardable(h.body)[k])
    BY <1>1, <1>2, <1>6, <1>8 DEF Answered
  <2>1. CASE k = q
    BY <1>5, <1>6, <2>1
  <2>2. CASE k # q
    <3>1. \/ \E v \in Workers : h.holds[v] = k
          \/ Answers(h.results[k], Forwardable(h.body)[k])
      BY <1>1, <1>2, <2>2 DEF Answered
    <3> QED
      BY <1>6, <1>7, <2>2, <3>1 DEF q
  <2> QED
    BY <2>1, <2>2
<1>11. Sound(next)
  BY <1>1, <1>8, <1>9, <1>10 DEF Sound
<1> QED
  BY <1>11 DEF next, answer, q, holds, results

(* Every worker has run out, so every entry has its answer. *)
LEMMA ReplySound ==
    ASSUME NEW h, Sound(h), h.phase = "forwarding", h.cursor > Len(h.results),
           \A w \in DOMAIN h.holds : h.holds[w] = 0
    PROVE  Sound(Replies(h, Recombined(h.body, h.results)))
<1> DEFINE out  == Recombined(h.body, h.results)
           next == Replies(h, out)
<1>1. h \in Handler /\ Shared(h) /\ Answered(h) /\ Fatal(h.body) = "none"
  BY DEF Sound
<1>2. PICK n \in Nat : n = Len(h.results)
  BY <1>1, LenProperties DEF Handler
<1>3. h.results \in Seq(Response) /\ h.body.entries \in Seq(EntryKinds)
  BY <1>1, BodyIsRead DEF Handler
<1>4. h.cursor = n + 1
  BY <1>1, <1>2 DEF Shared
<1>5. \A w \in Workers : h.holds[w] = 0
  BY <1>1 DEF Handler
<1>6. ASSUME NEW k \in 1..n
      PROVE  Answers(h.results[k], Forwardable(h.body)[k])
  <2>1. k < h.cursor /\ k # 0
    BY <1>4
  <2> QED
    BY <1>1, <1>2, <1>5, <2>1 DEF Answered
<1>7. out \in Seq(Response) /\ Placed(h.body, out)
  BY <1>1, <1>2, <1>3, <1>6, RecombinedIsPlaced DEF Answered
<1> HIDE DEF out
<1>8. /\ next \in Handler
      /\ next.phase = "done" /\ next.body = h.body /\ next.responses = out
      /\ next.results = h.results /\ next.cursor = h.cursor
      /\ next.sent = h.sent /\ next.holds = h.holds
  BY <1>1, <1>7 DEF Replies, Handler, Phases
<1> HIDE DEF next
<1>9. Shared(next)
  BY <1>1, <1>8 DEF Shared
<1>10. Sound(next)
  BY <1>2, <1>4, <1>7, <1>8, <1>9 DEF Sound
<1> QED
  BY <1>10 DEF next, out

(* A handler that has sent nothing is at its start. *)
LEMMA NothingSent ==
    ASSUME NEW h, Sound(h), h.phase \in {"choosing", "verifying"}
    PROVE  /\ h \in Handler /\ h.cursor = 1 /\ Len(h.results) = 0
           /\ h.results = <<>> /\ h.sent = <<>>
           /\ \A w \in Workers : h.holds[w] = 0
           /\ Fatal(h.body) = "none" /\ h.body.entries \in Seq(EntryKinds)
<1>1. h \in Handler /\ Shared(h) /\ h.results = <<>> /\ h.sent = <<>> /\ Fatal(h.body) = "none"
  BY DEF Sound
<1>2. h.cursor = 1 /\ Len(h.results) = 0
  BY <1>1 DEF Shared
<1>3. \A w \in Workers : h.holds[w] \in Nat /\ h.holds[w] < 1
  BY <1>1, <1>2 DEF Handler, Shared
<1> QED
  BY <1>1, <1>2, <1>3, BodyIsRead DEF Handler

(* Nothing to forward, or nobody to forward it to: entries that could have *)
(* been forwarded fail.                                                    *)
LEMMA LocalReplySound ==
    ASSUME NEW h, Sound(h), h.phase = "choosing"
    PROVE  Sound(Replies(h, Recombined(h.body,
                     [k \in 1..Len(Forwardable(h.body)) |-> Error(Forwardable(h.body)[k], "INTERNAL")])))
<1> DEFINE todo   == Forwardable(h.body)
           failed == [k \in 1..Len(todo) |-> Error(todo[k], "INTERNAL")]
           out    == Recombined(h.body, failed)
           next   == Replies(h, out)
<1>1. /\ h \in Handler /\ h.cursor = 1 /\ Len(h.results) = 0
      /\ h.body.entries \in Seq(EntryKinds)
  BY NothingSent
<1>2. PICK m \in Nat : m = Cardinality(Accepted(h.body)) /\ todo \in Seq(Nat) /\ Len(todo) = m
  BY <1>1, ForwardableIs
<1>3. \A k \in 1..m : todo[k] \in Nat
  BY <1>2, ElementOfSeq
<1>4. "INTERNAL" \in Codes
  BY DEF Codes
<1> HIDE DEF todo
<1>5. \A k \in 1..m : /\ Error(todo[k], "INTERNAL") \in Response
                      /\ Answers(Error(todo[k], "INTERNAL"), todo[k])
  BY <1>3, <1>4, ResponseTypes DEF Answers
<1>6. failed \in Seq(Response) /\ Len(failed) = m
  BY <1>2, <1>5, IsASeq
<1>7. \A k \in 1..m : Answers(failed[k], todo[k])
  BY <1>2, <1>5
<1> HIDE DEF failed
<1>8. out \in Seq(Response) /\ Placed(h.body, out)
  BY <1>1, <1>2, <1>6, <1>7, RecombinedIsPlaced DEF todo
<1> HIDE DEF out
<1>9. /\ next \in Handler
      /\ next.phase = "done" /\ next.body = h.body /\ next.responses = out
      /\ next.results = h.results /\ next.cursor = h.cursor
      /\ next.sent = h.sent /\ next.holds = h.holds
  BY <1>1, <1>8 DEF Replies, Handler, Phases
<1> HIDE DEF next
<1>10. Shared(next)
  BY <1>9 DEF Sound, Shared
<1>11. Sound(next)
  BY <1>1, <1>8, <1>9, <1>10 DEF Sound
<1> QED
  BY <1>11 DEF next, out, failed, todo

(* The next upstream, or a question to this one. *)
LEMMA ChoosingSound ==
    ASSUME NEW h, Sound(h), h.phase \in {"choosing", "verifying"}
    PROVE  /\ Sound(NextCandidate(h))
           /\ h.candidate \in DOMAIN Upstreams => Sound([h EXCEPT !.phase = "verifying"])
<1>1. h \in Handler /\ Shared(h) /\ h.results = <<>> /\ h.sent = <<>> /\ Fatal(h.body) = "none"
  BY DEF Sound
<1>2. ASSUME NEW next \in Handler,
             /\ next.phase \in {"choosing", "verifying"} /\ next.body = h.body
             /\ next.results = h.results /\ next.cursor = h.cursor
             /\ next.sent = h.sent /\ next.holds = h.holds,
             next.phase = "choosing" => next.candidate # 0,
             next.phase = "verifying" => next.candidate \in DOMAIN Upstreams
      PROVE  Sound(next)
  <2>1. Shared(next)
    BY <1>1, <1>2 DEF Shared
  <2> QED
    BY <1>1, <1>2, <2>1 DEF Sound
<1>3. /\ NextCandidate(h) \in Handler
      /\ [h EXCEPT !.phase = "verifying"] \in Handler
  <2>1. h.candidate + 1 \in Nat
    BY <1>1 DEF Handler
  <2>2. \A k \in Nat : [h EXCEPT !.phase = "choosing", !.candidate = k] \in Handler
    BY <1>1 DEF Handler, Phases
  <2>3. [h EXCEPT !.phase = "verifying"] \in Handler
    BY <1>1 DEF Handler, Phases
  <2> QED
    BY <2>1, <2>2, <2>3 DEF NextCandidate
<1>4. Sound(NextCandidate(h))
  <2>1. h.candidate \in Nat /\ h.candidate + 1 # 0
    BY <1>1 DEF Handler
  <2> QED
    BY <1>1, <1>2, <1>3, <2>1 DEF NextCandidate, Handler
<1>5. ASSUME h.candidate \in DOMAIN Upstreams
      PROVE  Sound([h EXCEPT !.phase = "verifying"])
  BY <1>1, <1>2, <1>3, <1>5 DEF Handler
<1> QED
  BY <1>4, <1>5

(* An upstream is chosen. *)
LEMMA ChosenSound ==
    ASSUME NEW h, Sound(h), h.phase \in {"choosing", "verifying"}
    PROVE  Sound(Chosen(h))
<1> DEFINE results == [i \in 1..Len(Forwardable(h.body)) |-> Unanswered]
           sent    == [i \in 1..Len(Forwardable(h.body)) |-> 0]
           next    == [h EXCEPT !.phase = "forwarding", !.results = results, !.sent = sent]
<1>1. /\ h \in Handler /\ h.cursor = 1
      /\ \A w \in Workers : h.holds[w] = 0
      /\ Fatal(h.body) = "none" /\ h.body.entries \in Seq(EntryKinds)
  BY NothingSent
<1>2. PICK m \in Nat : m = Cardinality(Accepted(h.body)) /\ Len(Forwardable(h.body)) = m
  BY <1>1, ForwardableIs
<1>3. results \in Seq(Response) /\ Len(results) = m
  BY <1>2, ResponseTypes, IsASeq
<1>4. sent \in Seq(Nat) /\ Len(sent) = m /\ \A k \in 1..m : sent[k] = 0
  BY <1>2, IsASeq
<1>5. Chosen(h) = next
  BY DEF Chosen
<1> HIDE DEF results, sent
<1>6. /\ next \in Handler
      /\ next.phase = "forwarding" /\ next.body = h.body
      /\ next.results = results /\ next.cursor = 1
      /\ next.sent = sent /\ next.holds = h.holds
  BY <1>1, <1>3, <1>4 DEF Handler, Phases
<1> HIDE DEF next
<1>7. Shared(next)
  BY <1>1, <1>3, <1>4, <1>6 DEF Shared
<1>8. Answered(next)
  <2>1. \A k \in 1..m : ~ k < 1
    OBVIOUS
  <2> QED
    BY <1>2, <1>3, <1>6, <2>1 DEF Answered
<1> QED
  BY <1>1, <1>5, <1>6, <1>7, <1>8 DEF Sound

(* Before a request arrives. *)
LEMMA IdleSound == Sound(NewHandler)
<1> DEFINE rest == [w \in Workers |-> 0]
<1>1. NewHandler = [phase |-> "none", client |-> NewHandler.client, body |-> Unparsable,
                    candidate |-> 0, cursor |-> 1, holds |-> rest,
                    results |-> <<>>, sent |-> <<>>, responses |-> <<>>]
  BY DEF NewHandler
<1>2. rest \in [Workers -> Nat] /\ \A w \in Workers : rest[w] = 0
  OBVIOUS
<1>3. <<>> \in Seq(Response) /\ <<>> \in Seq(Nat)
  OBVIOUS
<1> HIDE DEF rest
<1>4. NewHandler \in Handler
  <2>1. PICK nobody : nobody = NewHandler.client
    OBVIOUS
  <2>2. [phase |-> "none", client |-> nobody, body |-> Unparsable,
         candidate |-> 0, cursor |-> 1, holds |-> rest,
         results |-> <<>>, sent |-> <<>>, responses |-> <<>>] \in Handler
    BY <1>2, <1>3, <2>1 DEF Handler, Phases
  <2> QED
    BY <1>1, <2>1, <2>2
<1>5. Shared(NewHandler)
  BY <1>1, <1>2 DEF Shared
<1> QED
  BY <1>1, <1>4, <1>5 DEF Sound

(* A request arrives. *)
LEMMA NewHandlerSound ==
    ASSUME NEW c \in Clients, NEW body \in Bodies
    PROVE  LET h == [NewHandler EXCEPT !.client = c, !.body = body] IN
           /\ Sound(Replies(h, <<Error(NoId, "LIMIT_EXCEEDED")>>))
           /\ Fatal(body) # "none" => Sound(Replies(h, <<Error(NoId, Fatal(body))>>))
           /\ Fatal(body) = "none" => Sound([h EXCEPT !.phase = "choosing", !.candidate = 1])
<1> DEFINE h == [NewHandler EXCEPT !.client = c, !.body = body]
<1>1. /\ h \in Handler /\ h.body = body
      /\ h.cursor = 1 /\ h.results = <<>> /\ h.sent = <<>>
      /\ \A w \in Workers : h.holds[w] = 0
  <2>1. NewHandler \in Handler
    BY IdleSound DEF Sound
  <2>2. h \in Handler
    BY <2>1 DEF Handler
  <2>3. /\ NewHandler.cursor = 1 /\ NewHandler.results = <<>> /\ NewHandler.sent = <<>>
        /\ \A w \in Workers : NewHandler.holds[w] = 0
    BY DEF NewHandler
  <2> QED
    BY <2>1, <2>2, <2>3 DEF Handler
<1>2. ASSUME NEW x, x.cursor = 1, x.results = <<>>, x.sent = <<>>, \A w \in Workers : x.holds[w] = 0
      PROVE  Shared(x)
  BY <1>2 DEF Shared
<1> HIDE DEF h
<1>3. ASSUME NEW code \in Codes, code = "LIMIT_EXCEEDED" \/ Fatal(body) # "none"
      PROVE  Sound(Replies(h, <<Error(NoId, code)>>))
  <2> DEFINE out  == <<Error(NoId, code)>>
             next == Replies(h, out)
  <2>1. Error(NoId, code) \in Response /\ Error(NoId, code).code = code
    BY ResponseTypes DEF NoId
  <2>2. out \in Seq(Response) /\ DOMAIN out = {1} /\ out[1].code = code
    BY <2>1
  <2> HIDE DEF out
  <2>3. /\ next \in Handler /\ next.phase = "done" /\ next.body = body /\ next.responses = out
        /\ next.cursor = 1 /\ next.results = <<>> /\ next.sent = <<>>
        /\ \A w \in Workers : next.holds[w] = 0
    BY <1>1, <2>2 DEF Replies, Handler, Phases
  <2> HIDE DEF next
  <2>4. Shared(next)
    BY <1>2, <2>3
  <2>5. Refused(out) \/ Fatal(body) # "none"
    BY <1>3, <2>2 DEF Refused
  <2>6. Sound(next)
    BY <2>3, <2>4, <2>5 DEF Sound
  <2> QED
    BY <2>6 DEF next, out
<1>4. Fatal(body) \in Codes
  BY DEF Fatal, Codes
<1>5. ASSUME Fatal(body) = "none"
      PROVE  Sound([h EXCEPT !.phase = "choosing", !.candidate = 1])
  <2> DEFINE next == [h EXCEPT !.phase = "choosing", !.candidate = 1]
  <2>1. /\ next \in Handler /\ next.phase = "choosing" /\ next.body = body
        /\ next.candidate = 1
        /\ next.cursor = 1 /\ next.results = <<>> /\ next.sent = <<>>
        /\ \A w \in Workers : next.holds[w] = 0
    BY <1>1 DEF Handler, Phases
  <2> HIDE DEF next
  <2>2. Shared(next)
    BY <1>2, <2>1
  <2>3. Sound(next)
    BY <1>5, <2>1, <2>2 DEF Sound
  <2> QED
    BY <2>3 DEF next
<1>6. "LIMIT_EXCEEDED" \in Codes
  BY DEF Codes
<1> QED
  BY <1>3, <1>4, <1>5, <1>6 DEF h

-------------------------------------------------------------------------------
(* The table of rate buckets. *)

Bucket == [client : Clients, startedAt : Nat, count : Nat \ {0}]

(* Which of a client's arrivals came at t or later. *)
Since(times, t) == {j \in DOMAIN times : times[j] >= t}

(* A bucket counts no more than arrived since it was started. *)
Backed(bucket, came, now) ==
    /\ bucket.startedAt <= now
    /\ bucket.count <= Cardinality(Since(came[bucket.client], bucket.startedAt))

Table(bs, came, now) ==
    /\ bs \in Seq(Bucket)
    /\ \A i, j \in DOMAIN bs : bs[i].client = bs[j].client => i = j
    /\ \A i \in DOMAIN bs : Backed(bs[i], came, now)

LEMMA SinceFinite ==
    ASSUME NEW times \in Seq(Nat), NEW t \in Nat
    PROVE  IsFiniteSet(Since(times, t)) /\ Cardinality(Since(times, t)) \in Nat
<1>1. PICK n \in Nat : DOMAIN times = 1..n
  BY LenProperties
<1>2. IsFiniteSet(1..n) /\ Since(times, t) \in SUBSET (1..n)
  BY <1>1, FS_Interval DEF Since
<1> QED
  BY <1>2, FS_Subset, FS_CardinalityType

(* One more arrival, now. *)
LEMMA SinceArrival ==
    ASSUME NEW times \in Seq(Nat), NEW t \in Nat, NEW now \in Nat, t <= now
    PROVE  Cardinality(Since(Append(times, now), t)) = Cardinality(Since(times, t)) + 1
<1> DEFINE more == Append(times, now)
<1>1. PICK n \in Nat : n = Len(times) /\ DOMAIN times = 1..n
  BY LenProperties
<1>2. /\ DOMAIN more = 1..n + 1 /\ more[n + 1] = now
      /\ \A j \in 1..n : more[j] = times[j] /\ j # n + 1
  BY <1>1, AppendProperties
<1>3. /\ \A j : j \in 1..n + 1 <=> j \in 1..n \/ j = n + 1
      /\ n + 1 \notin 1..n
  BY <1>1
<1> HIDE DEF more
<1>4. Since(more, t) = Since(times, t) \cup {n + 1} /\ n + 1 \notin Since(times, t)
  BY <1>1, <1>2, <1>3 DEF Since
<1> QED
  BY <1>4, SinceFinite, FS_AddElement DEF more

(* Arrivals and the clock only add to what a bucket may have counted. *)
LEMMA TableKeeps ==
    ASSUME NEW bs, NEW came \in [Clients -> Seq(Nat)], NEW now \in Nat, Table(bs, came, now)
    PROVE  /\ Table(bs, came, now + 1)
           /\ \A c \in Clients :
                 Table(bs, [came EXCEPT ![c] = Append(came[c], now)], now)
<1>1. \A i \in DOMAIN bs : bs[i] \in Bucket
  BY ElementOfSeq, LenProperties DEF Table
<1>2. Table(bs, came, now + 1)
  BY <1>1 DEF Table, Backed, Bucket
<1>3. ASSUME NEW c \in Clients, NEW i \in DOMAIN bs
      PROVE  Backed(bs[i], [came EXCEPT ![c] = Append(came[c], now)], now)
  <2>1. PICK b \in Bucket : b = bs[i]
    BY <1>1
  <2>2. /\ b.client \in Clients /\ b.startedAt \in Nat /\ b.count \in Nat
        /\ b.startedAt <= now /\ came[b.client] \in Seq(Nat)
        /\ b.count <= Cardinality(Since(came[b.client], b.startedAt))
    BY <2>1 DEF Bucket, Table, Backed
  <2>3. Cardinality(Since(came[b.client], b.startedAt)) \in Nat
    BY <2>2, SinceFinite
  <2>4. CASE b.client = c
    <3>1. Cardinality(Since(Append(came[c], now), b.startedAt))
              = Cardinality(Since(came[c], b.startedAt)) + 1
      BY <2>2, <2>4, SinceArrival
    <3> QED
      BY <2>1, <2>2, <2>3, <2>4, <3>1 DEF Backed
  <2>5. CASE b.client # c
    BY <2>1, <2>2, <2>5 DEF Backed
  <2> QED
    BY <2>4, <2>5
<1> QED
  BY <1>2, <1>3 DEF Table

(* What is drawn from a table, each bucket from a place of its own, is one. *)
LEMMA TableDrawn ==
    ASSUME NEW bs, NEW came, NEW now, Table(bs, came, now), NEW cs \in Seq(Bucket), NEW f,
           \A k \in DOMAIN cs : f[k] \in DOMAIN bs /\ cs[k] = bs[f[k]],
           \A k, l \in DOMAIN cs : f[k] = f[l] => k = l
    PROVE  Table(cs, came, now)
<1>1. /\ \A i, j \in DOMAIN bs : bs[i].client = bs[j].client => i = j
      /\ \A i \in DOMAIN bs : Backed(bs[i], came, now)
  BY DEF Table
<1>2. ASSUME NEW k \in DOMAIN cs, NEW l \in DOMAIN cs, cs[k].client = cs[l].client
      PROVE  k = l
  <2>1. /\ f[k] \in DOMAIN bs /\ cs[k] = bs[f[k]]
        /\ f[l] \in DOMAIN bs /\ cs[l] = bs[f[l]]
    OBVIOUS
  <2>2. f[k] = f[l]
    BY <1>1, <1>2, <2>1
  <2> QED
    BY <2>2
<1>3. \A k \in DOMAIN cs : Backed(cs[k], came, now)
  BY <1>1
<1> QED
  BY <1>2, <1>3 DEF Table

(* Room is made for one more. *)
LEMMA RoomIsMade ==
    ASSUME NEW bs, NEW came, NEW now, Table(bs, came, now), Len(bs) <= MAX_BUCKETS
    PROVE  Table(RoomMade(bs), came, now) /\ Len(RoomMade(bs)) < MAX_BUCKETS
<1> DEFINE S    == {i \in DOMAIN bs : ~ Expired(bs[i])}
           live == InOrder(bs, S)
<1>1. bs \in Seq(Bucket) /\ MAX_BUCKETS \in Nat \ {0} /\ Len(bs) \in Nat
  BY LimitsAssumption, LenProperties DEF Table
<1>2. S \in SUBSET (DOMAIN bs)
  OBVIOUS
<1> HIDE DEF S
<1>3. /\ live \in Seq(Bucket) /\ Len(live) <= Len(bs)
      /\ \A k \in DOMAIN live : Nth(S, k) \in DOMAIN bs /\ live[k] = bs[Nth(S, k)]
      /\ \A k, l \in DOMAIN live : Nth(S, k) = Nth(S, l) => k = l
  BY <1>1, <1>2, InOrderTakes
<1> HIDE DEF live
<1>4. Table(live, came, now)
  <2> DEFINE f == [k \in DOMAIN live |-> Nth(S, k)]
  <2>1. /\ \A k \in DOMAIN live : f[k] \in DOMAIN bs /\ live[k] = bs[f[k]]
        /\ \A k, l \in DOMAIN live : f[k] = f[l] => k = l
    BY <1>3
  <2> HIDE DEF f
  <2> QED
    BY <1>3, <2>1, TableDrawn
<1>5. Len(live) \in Nat /\ DOMAIN live = 1..Len(live)
  BY <1>3, LenProperties
<1>6. CASE Len(bs) < MAX_BUCKETS
  BY <1>6 DEF RoomMade
<1>7. CASE ~ Len(bs) < MAX_BUCKETS /\ Len(live) < MAX_BUCKETS
  BY <1>4, <1>7 DEF RoomMade, live, S
<1>8. CASE ~ Len(bs) < MAX_BUCKETS /\ ~ Len(live) < MAX_BUCKETS
  <2>1. RoomMade(bs) = Tail(live)
    BY <1>8 DEF RoomMade, live, S
  <2>2. live # <<>>
    BY <1>1, <1>5, <1>8
  <2>3. PICK n \in Nat : n + 1 = Len(live)
    <3>1. Len(live) - 1 \in Nat /\ (Len(live) - 1) + 1 = Len(live)
      BY <1>1, <1>5, <1>8
    <3> QED
      BY <3>1
  <2>4. /\ Tail(live) \in Seq(Bucket) /\ Len(Tail(live)) = n /\ DOMAIN Tail(live) = 1..n
        /\ \A k \in 1..n : Tail(live)[k] = live[k + 1]
    BY <1>3, <2>2, <2>3, HeadTailProperties
  <2> DEFINE f == [k \in 1..n |-> k + 1]
  <2>5. \A k \in 1..n : f[k] = k + 1 /\ f[k] \in DOMAIN live
    BY <1>5, <2>3
  <2>6. PICK rest : rest = Tail(live)
    OBVIOUS
  <2> HIDE DEF f
  <2>7. /\ rest \in Seq(Bucket)
        /\ \A k \in DOMAIN rest : f[k] \in DOMAIN live /\ rest[k] = live[f[k]]
    BY <2>4, <2>5, <2>6
  <2>8. \A k, l \in DOMAIN rest : f[k] = f[l] => k = l
    BY <2>4, <2>5, <2>6
  <2>9. Table(rest, came, now)
    BY <1>4, <2>7, <2>8, TableDrawn
  <2> QED
    BY <1>1, <1>3, <2>1, <2>3, <2>4, <2>6, <2>9
<1> QED
  BY <1>6, <1>7, <1>8

(* A request is counted: in the bucket of its client, or in one started    *)
(* now.                                                                    *)
LEMMA CountedIsBacked ==
    ASSUME NEW c \in Clients, arrivals \in [Clients -> Seq(Nat)], clock \in Nat,
           Table(buckets, arrivals, clock), Len(buckets) <= MAX_BUCKETS
    PROVE  /\ Table(Counted(c), [arrivals EXCEPT ![c] = Append(arrivals[c], clock)], clock)
           /\ Len(Counted(c)) <= MAX_BUCKETS
<1> DEFINE came == [arrivals EXCEPT ![c] = Append(arrivals[c], clock)]
<1>1. \A bs : Table(bs, arrivals, clock) => Table(bs, came, clock)
  BY TableKeeps
<1>2. came[c] = Append(arrivals[c], clock) /\ arrivals[c] \in Seq(Nat)
  OBVIOUS
<1> HIDE DEF came
<1>3. CASE \E i \in BucketOf(c) : ~ Expired(buckets[i])
  <2> DEFINE out == [i \in DOMAIN buckets |->
                        IF i \in BucketOf(c) THEN [buckets[i] EXCEPT !.count = @ + 1] ELSE buckets[i]]
  <2>1. Counted(c) = out
    BY <1>3 DEF Counted
  <2>2. PICK n \in Nat : n = Len(buckets) /\ DOMAIN buckets = 1..n
    BY LenProperties DEF Table
  <2>3. ASSUME NEW i \in 1..n
        PROVE  /\ out[i] \in Bucket /\ out[i].client = buckets[i].client
               /\ Backed(out[i], came, clock)
    <3>1. PICK b \in Bucket : b = buckets[i]
      BY <2>2, ElementOfSeq DEF Table
    <3>2. Backed(b, arrivals, clock) /\ Backed(b, came, clock)
      BY <1>1, <2>2, <3>1 DEF Table
    <3>3. CASE i \in BucketOf(c)
      <4>1. b.client = c
        BY <3>1, <3>3 DEF BucketOf
      <4>2. out[i] = [b EXCEPT !.count = b.count + 1]
        BY <2>2, <3>1, <3>3
      <4>3. /\ b.startedAt \in Nat /\ b.count \in Nat \ {0} /\ b.startedAt <= clock
            /\ b.count <= Cardinality(Since(arrivals[c], b.startedAt))
        BY <3>2, <4>1 DEF Backed, Bucket
      <4>4. /\ Cardinality(Since(came[c], b.startedAt))
                   = Cardinality(Since(arrivals[c], b.startedAt)) + 1
            /\ Cardinality(Since(arrivals[c], b.startedAt)) \in Nat
        <5>1. Cardinality(Since(Append(arrivals[c], clock), b.startedAt))
                  = Cardinality(Since(arrivals[c], b.startedAt)) + 1
          BY <1>2, <4>3, SinceArrival
        <5>2. Cardinality(Since(arrivals[c], b.startedAt)) \in Nat
          BY <1>2, <4>3, SinceFinite
        <5> QED
          BY <1>2, <5>1, <5>2
      <4>5. /\ out[i] \in Bucket /\ out[i].client = c
            /\ out[i].startedAt = b.startedAt /\ out[i].count = b.count + 1
        BY <4>1, <4>2, <4>3 DEF Bucket
      <4> QED
        BY <3>1, <4>1, <4>3, <4>4, <4>5 DEF Backed
    <3>4. CASE i \notin BucketOf(c)
      <4>1. out[i] = b
        BY <2>2, <3>1, <3>4
      <4> QED
        BY <3>1, <3>2, <4>1
    <3> QED
      BY <3>3, <3>4
  <2>4. DOMAIN out = 1..n /\ out = [i \in 1..n |-> out[i]]
    BY <2>2
  <2> HIDE DEF out
  <2>5. out \in Seq(Bucket) /\ Len(out) = n
    BY <2>3, <2>4, IsASeq
  <2>6. \A i, j \in 1..n : out[i].client = out[j].client => i = j
    BY <2>2, <2>3 DEF Table
  <2> QED
    BY <2>1, <2>2, <2>3, <2>4, <2>5, <2>6 DEF Table, came
<1>4. CASE ~ \E i \in BucketOf(c) : ~ Expired(buckets[i])
  <2>1. PICK bs : bs = RoomMade(buckets) /\ Table(bs, came, clock) /\ Len(bs) < MAX_BUCKETS
    BY <1>1, RoomIsMade
  <2>2. Counted(c) = Restarted(c, bs)
    BY <1>4, <2>1 DEF Counted
  <2>3. PICK n \in Nat : n = Len(bs) /\ DOMAIN bs = 1..n
    BY <2>1, LenProperties DEF Table
  <2>4. NewBucket(c) \in Bucket /\ NewBucket(c).client = c /\ Backed(NewBucket(c), came, clock)
    <3>1. Cardinality(Since(came[c], clock)) = Cardinality(Since(arrivals[c], clock)) + 1
      BY <1>2, SinceArrival
    <3>2. Cardinality(Since(arrivals[c], clock)) \in Nat
      BY <1>2, SinceFinite
    <3> QED
      BY <3>1, <3>2 DEF NewBucket, Bucket, Backed
  <2>5. CASE \E i \in 1..n : bs[i].client = c
    <3> DEFINE out == [i \in 1..n |-> IF bs[i].client = c THEN NewBucket(c) ELSE bs[i]]
    <3>1. Counted(c) = out
      BY <2>2, <2>3, <2>5 DEF Restarted
    <3>2. \A i \in 1..n : /\ out[i] \in Bucket /\ out[i].client = bs[i].client
                          /\ Backed(out[i], came, clock)
      <4>1. \A i \in 1..n : bs[i] \in Bucket /\ Backed(bs[i], came, clock)
        BY <2>1, <2>3, ElementOfSeq DEF Table
      <4> QED
        BY <2>4, <4>1
    <3>3. out \in Seq(Bucket) /\ Len(out) = n /\ DOMAIN out = 1..n
      BY <3>2, IsASeq
    <3> HIDE DEF out
    <3>4. \A i, j \in 1..n : out[i].client = out[j].client => i = j
      <4>1. \A i, j \in 1..n : bs[i].client = bs[j].client => i = j
        BY <2>1, <2>3 DEF Table
      <4>2. \A i \in 1..n : out[i].client = bs[i].client
        BY <3>2
      <4> QED
        BY <4>1, <4>2
    <3>5. Table(out, came, clock)
      BY <3>2, <3>3, <3>4 DEF Table
    <3>6. Len(out) <= MAX_BUCKETS
      BY <2>1, <2>3, <3>3, LimitsAssumption
    <3> QED
      BY <3>1, <3>5, <3>6 DEF came
  <2>6. CASE ~ \E i \in 1..n : bs[i].client = c
    <3> DEFINE out == Append(bs, NewBucket(c))
    <3>1. Counted(c) = out
      BY <2>2, <2>3, <2>6 DEF Restarted
    <3>2. /\ out \in Seq(Bucket) /\ Len(out) = n + 1 /\ DOMAIN out = 1..n + 1
          /\ out[n + 1] = NewBucket(c)
          /\ \A i \in 1..n : out[i] = bs[i]
      BY <2>1, <2>3, <2>4, AppendProperties DEF Table
    <3> HIDE DEF out
    <3>3. \A i : i \in 1..n + 1 <=> i \in 1..n \/ i = n + 1
      OBVIOUS
    <3>4. \A i, j \in 1..n + 1 : out[i].client = out[j].client => i = j
      <4>1. \A i, j \in 1..n : bs[i].client = bs[j].client => i = j
        BY <2>1, <2>3 DEF Table
      <4>2. \A i \in 1..n : bs[i].client # c /\ out[i].client = bs[i].client
        BY <2>6, <3>2
      <4>3. out[n + 1].client = c
        BY <2>4, <3>2
      <4> QED
        BY <3>3, <4>1, <4>2, <4>3
    <3>5. \A i \in 1..n + 1 : Backed(out[i], came, clock)
      BY <2>1, <2>3, <2>4, <3>2, <3>3 DEF Table
    <3>6. n + 1 <= MAX_BUCKETS
      BY <2>1, <2>3, LimitsAssumption
    <3> QED
      BY <3>1, <3>2, <3>4, <3>5, <3>6 DEF Table, came
  <2> QED
    BY <2>3, <2>5, <2>6
<1> QED
  BY <1>3, <1>4

-------------------------------------------------------------------------------
(* The inductive invariant: everything. *)

Verification == [matches : BOOLEAN, at : Nat]

IInv ==
    /\ clock \in 0..MAX_CLOCK /\ moves \in 0..MAX_MOVES
    /\ served \in [UpstreamIds -> BOOLEAN]
    /\ verified \in [UpstreamIds -> SUBSET Verification]
    /\ arrivals \in [Clients -> Seq(Nat)]
    /\ handlers \in [Requests -> Handler]
    /\ \A r \in Requests : Sound(handlers[r])
    /\ Table(buckets, arrivals, clock)
    /\ Len(buckets) <= MAX_BUCKETS

(* A handler moves: what it becomes, and what the step leaves alone. *)
Becomes(r, h) ==
    /\ Sets(r, h)
    /\ UNCHANGED <<clock, served, moves, buckets, arrivals>>
    /\ verified' \in [UpstreamIds -> SUBSET Verification]

LEMMA HandlerSet ==
    ASSUME IInv, NEW r \in Requests, NEW h, Sound(h), Sets(r, h)
    PROVE  /\ handlers' \in [Requests -> Handler]
           /\ \A q \in Requests : Sound(handlers'[q])
<1>1. h \in Handler
  BY DEF Sound
<1>2. handlers' = [handlers EXCEPT ![r] = h] /\ handlers \in [Requests -> Handler]
  BY DEF Sets, IInv
<1>3. \A q \in Requests : handlers'[q] = IF q = r THEN h ELSE handlers[q]
  BY <1>2
<1> QED
  BY <1>1, <1>2, <1>3 DEF IInv

LEMMA StepsAreSound ==
    ASSUME IInv, NEW r \in Requests, HandlerStep(r)
    PROVE  \E h : Sound(h) /\ Becomes(r, h)
<1> DEFINE h == handlers[r]
<1>1. /\ Sound(h) /\ h.candidate \in Nat /\ clock \in Nat
      /\ verified \in [UpstreamIds -> SUBSET Verification]
      /\ served \in [UpstreamIds -> BOOLEAN]
  BY LimitsAssumption DEF IInv, Handler
<1>2. PICK n \in Nat : n = Len(Upstreams) /\ DOMAIN Upstreams = 1..n
  BY UpstreamsAssumption, LenProperties
<1>3. CASE UseCachedChain(r)
  <2>1. h.phase = "choosing"
    BY <1>3 DEF UseCachedChain
  <2>2. Sound(Chosen(h)) /\ Sound(NextCandidate(h))
    BY <1>1, <2>1, ChosenSound, ChoosingSound
  <2>3. Becomes(r, Chosen(h)) \/ Becomes(r, NextCandidate(h))
    BY <1>1, <1>3 DEF UseCachedChain, Becomes
  <2> QED
    BY <2>2, <2>3
<1>4. CASE AskChain(r)
  <2>1. h.phase = "choosing" /\ h.candidate <= n /\ h.candidate # 0
    BY <1>1, <1>2, <1>4 DEF AskChain, Sound
  <2>2. h.candidate \in DOMAIN Upstreams
    BY <1>1, <1>2, <2>1
  <2>3. Sound([h EXCEPT !.phase = "verifying"])
    BY <1>1, <2>1, <2>2, ChoosingSound
  <2> QED
    BY <1>1, <1>4, <2>3 DEF AskChain, Becomes
<1>5. CASE ChainAnswered(r)
  <2>1. h.phase = "verifying" /\ h.candidate \in DOMAIN Upstreams
    BY <1>1, <1>5 DEF ChainAnswered, Sound
  <2>2. Sound(Chosen(h)) /\ Sound(NextCandidate(h))
    BY <1>1, <2>1, ChosenSound, ChoosingSound
  <2>3. Current(r) \in UpstreamIds
    BY <2>1 DEF Current, UpstreamIds, Range
  <2>4. verified' \in [UpstreamIds -> SUBSET Verification]
    <3>1. {[matches |-> served[Current(r)], at |-> clock]} \in SUBSET Verification
      BY <1>1, <2>3 DEF Verification
    <3> QED
      BY <1>1, <1>5, <3>1 DEF ChainAnswered
  <2>5. Becomes(r, Chosen(h)) \/ Becomes(r, NextCandidate(h))
    BY <1>5, <2>4 DEF ChainAnswered, Becomes
  <2> QED
    BY <2>2, <2>5
<1>6. CASE ChainUnanswered(r)
  <2>1. Sound(NextCandidate(h))
    BY <1>1, <1>6, ChoosingSound DEF ChainUnanswered
  <2> QED
    BY <1>1, <1>6, <2>1 DEF ChainUnanswered, Becomes
<1>7. CASE AnswerLocally(r)
  <2> DEFINE out == Recombined(h.body, [k \in 1..Len(Forwardable(h.body)) |->
                                           Error(Forwardable(h.body)[k], "INTERNAL")])
  <2>1. h.phase = "choosing" /\ Becomes(r, Replies(h, out))
    BY <1>1, <1>7 DEF AnswerLocally, Becomes
  <2>2. Sound(Replies(h, out))
    BY <1>1, <2>1, LocalReplySound
  <2> QED
    BY <2>1, <2>2
<1>8. ASSUME NEW w \in Workers, WorkerTakes(r, w)
      PROVE  \E x : Sound(x) /\ Becomes(r, x)
  <2> DEFINE x == [h EXCEPT !.holds = [h.holds EXCEPT ![w] = h.cursor], !.cursor = CursorAfter(h),
                            !.sent = [h.sent EXCEPT ![h.cursor] = @ + 1]]
  <2>1. /\ h.phase = "forwarding" /\ h.holds[w] = 0 /\ h.cursor <= Len(h.results)
        /\ Becomes(r, x)
    BY <1>1, <1>8 DEF WorkerTakes, Becomes
  <2>2. Sound(x)
    BY <1>1, <2>1, TakesSound
  <2> QED
    BY <2>1, <2>2
<1>9. ASSUME NEW w \in Workers, NEW answered \in BOOLEAN, NEW echoed \in {NoId, 1},
             WorkerReturns(r, w, answered, echoed)
      PROVE  \E x : Sound(x) /\ Becomes(r, x)
  <2> DEFINE x == [h EXCEPT !.holds = [h.holds EXCEPT ![w] = 0],
                            !.results = [h.results EXCEPT ![h.holds[w]] =
                                Forwarded(Forwardable(h.body)[h.holds[w]], answered, echoed)]]
  <2>1. h.phase = "forwarding" /\ h.holds[w] # 0 /\ Becomes(r, x)
    BY <1>1, <1>9 DEF WorkerReturns, Becomes
  <2>2. Sound(x)
    BY <1>1, <2>1, ReturnsSound
  <2> QED
    BY <2>1, <2>2
<1>10. CASE Reply(r)
  <2>1. /\ h.phase = "forwarding" /\ h.cursor > Len(h.results)
        /\ \A w \in DOMAIN h.holds : h.holds[w] = 0
        /\ Becomes(r, Replies(h, Recombined(h.body, h.results)))
    BY <1>1, <1>10 DEF Reply, Becomes
  <2>2. Sound(Replies(h, Recombined(h.body, h.results)))
    BY <1>1, <2>1, ReplySound
  <2> QED
    BY <2>1, <2>2
<1> QED
  BY <1>3, <1>4, <1>5, <1>6, <1>7, <1>8, <1>9, <1>10 DEF HandlerStep

LEMMA Initially == Init => IInv
<1> SUFFICES ASSUME Init PROVE IInv
  OBVIOUS
<1>1. Sound(NewHandler) /\ NewHandler \in Handler
  BY IdleSound DEF Sound
<1>2. handlers \in [Requests -> Handler] /\ \A r \in Requests : Sound(handlers[r])
  BY <1>1 DEF Init
<1>3. verified \in [UpstreamIds -> SUBSET Verification] /\ arrivals \in [Clients -> Seq(Nat)]
  BY DEF Init
<1>4. Table(buckets, arrivals, clock) /\ Len(buckets) <= MAX_BUCKETS
  BY LimitsAssumption DEF Init, Table
<1> QED
  BY <1>2, <1>3, <1>4, LimitsAssumption DEF Init, IInv

LEMMA Inductive ==
    ASSUME IInv, [Next]_vars
    PROVE  IInv'
<1>1. clock \in Nat /\ arrivals \in [Clients -> Seq(Nat)]
  BY LimitsAssumption DEF IInv
<1>2. ASSUME NEW r \in Requests, NEW c \in Clients, NEW body \in Bodies, Receive(r, c, body)
      PROVE  IInv'
  <2> DEFINE h == [NewHandler EXCEPT !.client = c, !.body = body]
  <2>1. PICK x : Sound(x) /\ Sets(r, x)
    <3>1. CASE Limited(c)
      BY <1>2, <3>1, NewHandlerSound DEF Receive
    <3>2. CASE ~ Limited(c) /\ Fatal(body) # "none"
      BY <1>2, <3>2, NewHandlerSound DEF Receive
    <3>3. CASE ~ Limited(c) /\ Fatal(body) = "none"
      BY <1>2, <3>3, NewHandlerSound DEF Receive
    <3> QED
      BY <3>1, <3>2, <3>3
  <2>2. /\ handlers' \in [Requests -> Handler]
        /\ \A q \in Requests : Sound(handlers'[q])
    BY <2>1, HandlerSet
  <2>3. /\ buckets' = Counted(c)
        /\ arrivals' = [arrivals EXCEPT ![c] = Append(arrivals[c], clock)]
        /\ UNCHANGED <<clock, served, moves, verified>>
    BY <1>2 DEF Receive
  <2>4. Table(buckets', arrivals', clock) /\ Len(buckets') <= MAX_BUCKETS
    BY <1>1, <2>3, CountedIsBacked DEF IInv
  <2>5. arrivals' \in [Clients -> Seq(Nat)]
    <3>1. Append(arrivals[c], clock) \in Seq(Nat)
      BY <1>1, AppendProperties
    <3> QED
      BY <1>1, <2>3, <3>1
  <2> QED
    BY <2>2, <2>3, <2>4, <2>5 DEF IInv
<1>3. ASSUME NEW r \in Requests, HandlerStep(r)
      PROVE  IInv'
  <2>1. PICK h : Sound(h) /\ Becomes(r, h)
    BY <1>3, StepsAreSound
  <2>2. /\ handlers' \in [Requests -> Handler]
        /\ \A q \in Requests : Sound(handlers'[q])
    BY <2>1, HandlerSet DEF Becomes
  <2> QED
    BY <2>1, <2>2 DEF Becomes, IInv
<1>4. CASE Tick
  <2>1. Table(buckets, arrivals, clock + 1)
    BY <1>1, TableKeeps DEF IInv
  <2>2. clock + 1 \in 0..MAX_CLOCK
    BY <1>1, <1>4, LimitsAssumption DEF Tick
  <2> QED
    BY <1>4, <2>1, <2>2 DEF Tick, IInv
<1>5. ASSUME NEW u \in UpstreamIds, UpstreamMoves(u)
      PROVE  IInv'
  <2>1. moves + 1 \in 0..MAX_MOVES
    BY <1>5, LimitsAssumption DEF UpstreamMoves, IInv
  <2>2. served' \in [UpstreamIds -> BOOLEAN]
    BY <1>5 DEF UpstreamMoves, IInv
  <2> QED
    BY <1>5, <2>1, <2>2 DEF UpstreamMoves, IInv
<1>6. CASE UNCHANGED vars
  BY <1>6 DEF vars, IInv
<1> QED
  BY <1>2, <1>3, <1>4, <1>5, <1>6 DEF Next

-------------------------------------------------------------------------------
(* What every state satisfies. *)

\* A handler's sound state gives each response its place, and no entry twice.
THEOREM BatchesAreSafe == Spec => []BatchSafe
<1>1. Spec => []IInv
  BY Initially, Inductive, PTL DEF Spec
<1>2. IInv => BatchSafe
  <2> SUFFICES ASSUME IInv PROVE BatchSafe
    OBVIOUS
  <2>1. TypeOK
    <3>1. buckets \in Seq([client : Clients, startedAt : Nat, count : Nat \ {0}])
      BY DEF IInv, Table, Bucket
    <3>2. ASSUME NEW r \in Requests
          PROVE  /\ handlers[r].phase \in {"none", "choosing", "verifying", "forwarding", "done"}
                 /\ handlers[r].results \in Seq(Response) /\ handlers[r].responses \in Seq(Response)
                 /\ handlers[r].cursor \in 1..(Len(handlers[r].results) + 1)
      BY DEF IInv, Sound, Handler, Shared, Phases
    <3> QED
      BY <3>1, <3>2 DEF TypeOK, IInv, Verification
  <2>2. AnswersInPlace
    <3> SUFFICES ASSUME NEW r \in Requests, handlers[r].phase = "done",
                        \A i \in DOMAIN handlers[r].responses :
                           handlers[r].responses[i].code \notin {"LIMIT_EXCEEDED", "PARSE_ERROR"},
                        Fatal(handlers[r].body) = "none"
                 PROVE  LET h == handlers[r] IN
                        /\ Len(h.responses) = Len(h.body.entries)
                        /\ \A i \in DOMAIN h.responses :
                              /\ h.responses[i].id = IdAt(h.body, i)
                              /\ IF h.body.entries[i] = "ok"
                                 THEN h.responses[i].code = "INTERNAL" \/ h.responses[i].answers = i
                                 ELSE h.responses[i].code = CodeOf(h.body.entries[i])
      BY DEF AnswersInPlace
    <3>1. Placed(handlers[r].body, handlers[r].responses)
      BY DEF IInv, Sound, Refused
    <3>2. \A i : handlers[r].body.entries[i] = "ok" => IdAt(handlers[r].body, i) = i
      BY DEF IdAt
    <3> QED
      BY <3>1, <3>2 DEF Placed, Answers
  <2>3. SentOnce
    <3> SUFFICES ASSUME NEW r \in Requests
                 PROVE  LET h == handlers[r] IN
                        /\ \A k \in DOMAIN h.sent : h.sent[k] <= 1
                        /\ \A v, w \in DOMAIN h.holds : v # w /\ h.holds[v] # 0 => h.holds[v] # h.holds[w]
                        /\ h.phase = "done" => \A k \in DOMAIN h.sent : h.sent[k] = 1
      BY DEF SentOnce
    <3>1. PICK h : h = handlers[r] /\ Sound(h)
      BY DEF IInv
    <3>2. h \in Handler /\ Shared(h)
      BY <3>1 DEF Sound
    <3>3. PICK n \in Nat : n = Len(h.results) /\ n = Len(h.sent) /\ DOMAIN h.sent = 1..n
      BY <3>2, LenProperties DEF Handler, Shared
    <3>4. DOMAIN h.holds = Workers
      BY <3>2 DEF Handler
    <3>5. \A k \in 1..n : h.sent[k] = IF k < h.cursor THEN 1 ELSE 0
      BY <3>2, <3>3 DEF Shared
    <3>6. h.phase = "done" => h.cursor = n + 1
      BY <3>1, <3>3 DEF Sound
    <3>7. \A k \in 1..n : h.sent[k] <= 1 /\ (h.phase = "done" => h.sent[k] = 1)
      BY <3>5, <3>6
    <3>8. \A v, w \in Workers : v # w /\ h.holds[v] # 0 => h.holds[v] # h.holds[w]
      BY <3>2 DEF Shared
    <3> QED
      BY <3>1, <3>3, <3>4, <3>7, <3>8
  <2>4. BucketsBounded
    BY DEF BucketsBounded, IInv, Table
  <2> QED
    BY <2>1, <2>2, <2>3, <2>4 DEF BatchSafe
<1> QED
  BY <1>1, <1>2, PTL

-------------------------------------------------------------------------------
(* What no step does. *)

(* A handler begins to forward only by way of a verification that is fresh *)
(* and matches.                                                            *)
LEMMA ForwardsVerified ==
    ASSUME IInv, NEW r \in Requests, HandlerStep(r)
    PROVE  ChosenWasVerified(r)
<1> SUFFICES ASSUME handlers[r].phase # "forwarding", handlers'[r].phase = "forwarding"
             PROVE  \E check \in verified'[Current(r)] :
                       check.matches /\ clock - check.at < CHAIN_VERIFY_TTL
  BY DEF ChosenWasVerified
<1> DEFINE h == handlers[r]
<1>1. /\ handlers \in [Requests -> Handler] /\ h \in Handler /\ Sound(h)
      /\ verified \in [UpstreamIds -> SUBSET Verification] /\ clock \in Nat
  BY LimitsAssumption DEF IInv
<1>2. \A x : Sets(r, x) => handlers'[r] = x
  BY <1>1 DEF Sets
<1>3. NextCandidate(h).phase = "choosing" /\ \A out : Replies(h, out).phase = "done"
  BY <1>1 DEF NextCandidate, Replies, Handler
<1>4. CASE UseCachedChain(r)
  <2>1. PICK check \in verified[Current(r)] :
           /\ Fresh(check)
           /\ Sets(r, IF check.matches THEN Chosen(h) ELSE NextCandidate(h))
    BY <1>4 DEF UseCachedChain
  <2>2. check.matches
    BY <1>2, <1>3, <2>1
  <2> QED
    BY <1>4, <2>1, <2>2 DEF UseCachedChain, Fresh
<1>5. CASE AskChain(r)
  <2>1. [h EXCEPT !.phase = "verifying"].phase = "verifying"
    BY <1>1 DEF Handler
  <2> QED
    BY <1>2, <1>5, <2>1 DEF AskChain
<1>6. CASE ChainAnswered(r)
  <2>1. served[Current(r)]
    BY <1>2, <1>3, <1>6 DEF ChainAnswered
  <2>2. Current(r) \in UpstreamIds
    BY <1>1, <1>6 DEF ChainAnswered, Sound, Current, UpstreamIds, Range
  <2>3. verified'[Current(r)] = {[matches |-> served[Current(r)], at |-> clock]}
    BY <1>1, <1>6, <2>2 DEF ChainAnswered
  <2>4. clock - clock < CHAIN_VERIFY_TTL
    BY <1>1, LimitsAssumption
  <2> QED
    BY <2>1, <2>3, <2>4
<1>7. CASE ChainUnanswered(r)
  BY <1>2, <1>3, <1>7 DEF ChainUnanswered
<1>8. CASE AnswerLocally(r)
  BY <1>2, <1>3, <1>8 DEF AnswerLocally
<1>9. ~ \E w \in Workers : \/ WorkerTakes(r, w)
                           \/ \E answered \in BOOLEAN, echoed \in {NoId, 1} :
                                 WorkerReturns(r, w, answered, echoed)
  BY DEF WorkerTakes, WorkerReturns
<1>10. ~ Reply(r)
  BY DEF Reply
<1> QED
  BY <1>4, <1>5, <1>6, <1>7, <1>8, <1>9, <1>10 DEF HandlerStep

(* A client is refused only when its bucket is live and full, and what the *)
(* bucket counts has arrived within the window.                            *)
LEMMA RefusesOverLimit ==
    ASSUME IInv, NEW q \in Requests, NEW d \in Clients, NEW body \in Bodies, Receive(q, d, body),
           NEW r \in Requests, NEW c \in Clients
    PROVE  RefusedOnlyOverLimit(r, c)
<1> SUFFICES ASSUME handlers[r].phase = "none", handlers'[r].phase = "done",
                    handlers'[r].client = c,
                    handlers'[r].responses[1].code = "LIMIT_EXCEEDED"
             PROVE  Recent(c)' > RATE_LIMIT
  BY DEF RefusedOnlyOverLimit
<1> DEFINE h == [NewHandler EXCEPT !.client = d, !.body = body]
<1>1. handlers \in [Requests -> Handler] /\ arrivals \in [Clients -> Seq(Nat)] /\ clock \in Nat
  BY LimitsAssumption DEF IInv
<1>2. r = q
  BY <1>1 DEF Receive, Sets
<1>3. h.client = d /\ \A out : Replies(h, out).client = d /\ Replies(h, out).responses = out
  BY DEF NewHandler, Replies
<1>4. c = d /\ Limited(c)
  <2>1. \A code : <<Error(NoId, code)>>[1].code = code
    BY DEF Error
  <2>2. Fatal(body) # "LIMIT_EXCEEDED"
    BY DEF Fatal
  <2>3. \A x : Sets(q, x) => handlers'[r] = x
    BY <1>1, <1>2 DEF Sets
  <2>4. CASE Limited(d)
    <3>1. Sets(q, Replies(h, <<Error(NoId, "LIMIT_EXCEEDED")>>))
      BY <2>4 DEF Receive
    <3> QED
      BY <1>3, <2>3, <2>4, <3>1
  <2>5. CASE ~ Limited(d) /\ Fatal(body) # "none"
    <3>1. Sets(q, Replies(h, <<Error(NoId, Fatal(body))>>))
      BY <2>5 DEF Receive
    <3> QED
      BY <1>3, <2>1, <2>2, <2>3, <3>1
  <2>6. CASE ~ Limited(d) /\ Fatal(body) = "none"
    <3>1. Sets(q, [h EXCEPT !.phase = "choosing", !.candidate = 1])
      BY <2>6 DEF Receive
    <3>2. [h EXCEPT !.phase = "choosing", !.candidate = 1].phase = "choosing"
      BY DEF NewHandler
    <3> QED
      BY <2>3, <3>1, <3>2
  <2> QED
    BY <2>4, <2>5, <2>6
<1>5. PICK i \in BucketOf(c) : ~ Expired(buckets[i]) /\ buckets[i].count + 1 > RATE_LIMIT
  BY <1>4 DEF Limited
<1>6. PICK b \in Bucket : b = buckets[i] /\ b.client = c
  BY <1>5, ElementOfSeq, LenProperties DEF BucketOf, IInv, Table
<1>7. /\ b.startedAt \in Nat /\ b.count \in Nat /\ b.startedAt <= clock
      /\ b.count <= Cardinality(Since(arrivals[c], b.startedAt))
      /\ clock - b.startedAt < RATE_WINDOW
  BY <1>1, <1>5, <1>6, LimitsAssumption DEF IInv, Table, Backed, BucketOf, Bucket, Expired
<1>8. PICK came \in Seq(Nat) : came = arrivals'[c] /\ came = Append(arrivals[c], clock)
  BY <1>1, <1>4, AppendProperties DEF Receive
<1>9. /\ Cardinality(Since(came, b.startedAt)) = Cardinality(Since(arrivals[c], b.startedAt)) + 1
      /\ Cardinality(Since(arrivals[c], b.startedAt)) \in Nat
  <2>1. arrivals[c] \in Seq(Nat) /\ clock \in Nat
    BY <1>1 DEF IInv
  <2>2. Cardinality(Since(arrivals[c], b.startedAt)) \in Nat
    BY <1>7, <2>1, SinceFinite
  <2>3. Cardinality(Since(Append(arrivals[c], clock), b.startedAt))
            = Cardinality(Since(arrivals[c], b.startedAt)) + 1
    BY <1>7, <2>1, SinceArrival
  <2> QED
    BY <1>8, <2>2, <2>3
<1> DEFINE within == {j \in DOMAIN came : clock - came[j] < RATE_WINDOW}
<1>10. Recent(c)' = Cardinality(within)
  BY <1>8 DEF Recent, Receive
<1>11. PICK n \in Nat : n = Len(came) /\ DOMAIN came = 1..n
  BY <1>8, LenProperties
<1>12. \A j \in DOMAIN came : came[j] \in Nat
  BY <1>8, <1>11, ElementOfSeq
<1>13. Since(came, b.startedAt) \in SUBSET within /\ within \in SUBSET (1..n)
  <2>1. \A j \in DOMAIN came : came[j] >= b.startedAt => clock - came[j] < RATE_WINDOW
    BY <1>1, <1>7, <1>12, LimitsAssumption
  <2> QED
    BY <1>11, <2>1 DEF Since
<1> HIDE DEF within
<1>14. /\ Cardinality(Since(came, b.startedAt)) <= Cardinality(within)
       /\ Cardinality(within) \in Nat
  <2>0. IsFiniteSet(1..n)
    BY FS_Interval
  <2>1. IsFiniteSet(within)
    BY <1>13, <2>0, FS_Subset
  <2> QED
    BY <1>13, <2>1, FS_Subset, FS_CardinalityType
<1> QED
  BY <1>5, <1>6, <1>7, <1>9, <1>10, <1>14, LimitsAssumption

\* Neither cache decides on a stale entry: an upstream forwarded to was verified
\* within CHAIN_VERIFY_TTL (upstreamChainMatches), and a refused client is over
\* its limit (isRateLimited).
THEOREM DecisionsAreSound == Spec => DecisionsSound
<1> DEFINE Decides == \A r \in Requests : /\ ChosenWasVerified(r)
                                          /\ \A c \in Clients : RefusedOnlyOverLimit(r, c)
<1>1. ASSUME IInv, Next
      PROVE  Decides
  <2>1. handlers \in [Requests -> Handler] /\ \A r \in Requests : Sound(handlers[r])
    BY <1>1 DEF IInv
  <2>2. ASSUME NEW q \in Requests, NEW d \in Clients, NEW body \in Bodies, Receive(q, d, body)
        PROVE  Decides
    <3>1. \A r \in Requests : handlers'[r].phase = "forwarding" => handlers[r].phase = "forwarding"
      <4>1. \A x : Sets(q, x) => \A r \in Requests : handlers'[r] = IF r = q THEN x ELSE handlers[r]
        BY <2>1 DEF Sets
      <4>2. \E x : Sets(q, x) /\ x.phase \in {"done", "choosing"}
        <5> DEFINE h == [NewHandler EXCEPT !.client = d, !.body = body]
        <5>1. /\ \A rs : Replies(h, rs).phase = "done"
              /\ [h EXCEPT !.phase = "choosing", !.candidate = 1].phase = "choosing"
          BY DEF Replies, NewHandler
        <5>2. \/ Sets(q, Replies(h, <<Error(NoId, "LIMIT_EXCEEDED")>>))
              \/ Sets(q, Replies(h, <<Error(NoId, Fatal(body))>>))
              \/ Sets(q, [h EXCEPT !.phase = "choosing", !.candidate = 1])
          BY <2>2 DEF Receive
        <5> HIDE DEF h
        <5> QED
          BY <5>1, <5>2
      <4> QED
        BY <4>1, <4>2
    <3>2. \A r \in Requests : ChosenWasVerified(r)
      BY <3>1 DEF ChosenWasVerified
    <3>3. \A r \in Requests, c \in Clients : RefusedOnlyOverLimit(r, c)
      BY <1>1, <2>2, RefusesOverLimit
    <3> QED
      BY <3>2, <3>3
  <2>3. ASSUME NEW q \in Requests, HandlerStep(q)
        PROVE  Decides
    <3>1. handlers[q].phase # "none"
      BY <2>3 DEF HandlerStep, UseCachedChain, AskChain, ChainAnswered, ChainUnanswered,
                  AnswerLocally, WorkerTakes, WorkerReturns, Reply
    <3>2. \A r \in Requests : r # q => handlers'[r] = handlers[r]
      <4>1. PICK h : Sets(q, h)
        BY <1>1, <2>3, StepsAreSound DEF Becomes
      <4> QED
        BY <2>1, <4>1 DEF Sets
    <3>3. \A r \in Requests : ChosenWasVerified(r)
      <4>1. ChosenWasVerified(q)
        BY <1>1, <2>3, ForwardsVerified
      <4> QED
        BY <3>2, <4>1 DEF ChosenWasVerified
    <3>4. \A r \in Requests, c \in Clients : RefusedOnlyOverLimit(r, c)
      BY <3>1, <3>2 DEF RefusedOnlyOverLimit
    <3> QED
      BY <3>3, <3>4
  <2>4. ASSUME handlers' = handlers
        PROVE  Decides
    BY <2>4 DEF ChosenWasVerified, RefusedOnlyOverLimit
  <2> QED
    BY <1>1, <2>2, <2>3, <2>4 DEF Next, Tick, UpstreamMoves
<1>2. IInv /\ [Next]_vars => [Decides]_vars
  BY <1>1
<1> QED
  BY <1>2, Initially, Inductive, PTL DEF Spec, DecisionsSound

===============================================================================
