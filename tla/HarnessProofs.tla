------------------------------ MODULE HarnessProofs ------------------------------
(* Proofs about the two ends of a sample, the call and the score.  ChatClient: the *)
(* client with its replicas, budgets and kills does what Completion promises, step *)
(* by step, and of a prompt that was cut it caches a reply only where the cut is   *)
(* too slight for prompt_truncated.  ScoreCase: for any rows of the                *)
(* engine and of the program, what the pairings of a score leave over.             *)
(* ReplayMeasures: how the levels of a replay and the pass of a score go together. *)
EXTENDS ChatClient, ReplayMeasures, FiniteSetTheorems, SequenceTheorems,
        WellFoundedInduction, TLAPS

\* The request of a call is the one complete was given, and is not answered yet.
CallInv ==
    /\ pc \in {"idle", "cache", "post", "store", "return"}
    /\ pc = "idle" <=> call = {}
    /\ call = {} \/ \E q \in Requests : call = {q}
    /\ pc # "return" => completion = Promise!NoAnswer

\* The provider is asked only for what the cache has not, and its text is what gets there.
CacheInv ==
    /\ cache \in [Requests -> Texts \cup {Missing, Torn}]
    /\ pc = "post" => \A q \in call : cache[q] = Missing
    /\ pc = "store" => text \in Texts /\ \A q \in call : cache[q] \in {Missing, text}

\* A window that cuts this prompt, which the replica's count does not show
Unnoticed(q, w) == w \in Nat \ {0} /\ w < Tokens[q] /\ ~PromptTruncated(w, Chars[q])

\* Cut or not, the last answer is one that prompt_truncated accepted.
AnswerInv ==
    /\ pc = "store" =>
          \A q \in call : last.counted # 0 /\ last.read < Tokens[q] => Unnoticed(q, last.read)
    /\ \A c \in cutShort : c.request \in Requests /\ Unnoticed(c.request, c.read)

CInv == CallInv /\ CacheInv /\ AnswerInv

(***************************************************************************)
(* The answer                                                              *)
(***************************************************************************)

\* What a provider counts of a prompt it has cut is the window of the replica.
LEMMA CutIsUnnoticed ==
    ASSUME NEW q \in Requests, NEW a \in Answers(q), a.counted * a.read # 0,
           a.read < Tokens[q], ~PromptTruncated(a.counted * a.read, Chars[q])
    PROVE  Unnoticed(q, a.read)
<1>1. PICK t \in Texts \cup {Missing}, r \in {"stop", "length"}, w \in Windows, c \in {0, 1} :
          a = [text |-> t, reason |-> r, read |-> Least(Tokens[q], w), counted |-> c]
    BY DEF Answers
<1>2. Tokens[q] \in Nat /\ w \in Nat
    BY LengthAssumption
<1>3. a.read = w /\ w < Tokens[q]
    BY <1>1, <1>2 DEF Least
<1>4. a.counted = 1
    BY <1>1, <1>2, <1>3
<1>5. a.counted * a.read = w
    BY <1>2, <1>3, <1>4
<1>6. a.read \in Nat \ {0} /\ ~PromptTruncated(a.read, Chars[q])
    BY <1>2, <1>3, <1>5
<1> QED
    BY <1>6 DEF Unnoticed

(***************************************************************************)
(* The invariant                                                           *)
(***************************************************************************)

LEMMA CInit == ASSUME Init PROVE CInv
BY DEF Init, CInv, CallInv, CacheInv, AnswerInv, Promise!ServiceInit, Missing, Promise!Missing

\* What an answer of any kind leaves of a call
LEMMA FinishStep ==
    ASSUME NEW kind, NEW t, CInv, pc # "idle", Finish(kind, t)
    PROVE  CallInv' /\ CacheInv'
BY DEF Finish, CInv, CallInv, CacheInv

LEMMA CNext == ASSUME CInv, [Next]_vars PROVE CInv'
<1> USE DEF CInv
<1>1. ASSUME NEW q \in Requests, Ask(q) PROVE CInv'
    <2>1. pc = "idle" /\ pc' = "cache" /\ call' = {q} /\ completion' = Promise!NoAnswer
          /\ cache' = cache /\ cutShort' = cutShort
        BY <1>1 DEF Ask, Promise!Ask
    <2> QED
        BY <2>1 DEF CallInv, CacheInv, AnswerInv
<1>2. ASSUME NEW q \in Requests, Lookup(q) PROVE CInv'
    <2>1. pc = "cache" /\ q \in call /\ cutShort' = cutShort /\ last' = last
        BY <1>2 DEF Lookup, history
    <2>2. call = {q}
        BY <2>1 DEF CallInv
    <2>3. CASE cache[q] = Missing
        <3>1. pc' = "post" /\ UNCHANGED <<cache, call, completion, text>>
            BY <1>2, <2>3 DEF Lookup, Torn, Missing, Promise!Torn, Promise!Missing
        <3> QED
            BY <2>1, <2>2, <2>3, <3>1 DEF CallInv, CacheInv, AnswerInv
    <2>4. CASE cache[q] # Missing
        <3>1. \E kind, t : Finish(kind, t)
            BY <1>2, <2>4 DEF Lookup
        <3>2. pc' = "return"
            BY <3>1 DEF Finish
        <3> QED
            BY <2>1, <3>1, <3>2, FinishStep DEF AnswerInv
    <2> QED
        BY <2>3, <2>4
<1>3. ASSUME NEW kind, NEW t, pc # "idle", Finish(kind, t), UNCHANGED cutShort PROVE CInv'
    <2>1. pc' = "return"
        BY <1>3 DEF Finish
    <2> QED
        BY <1>3, <2>1, FinishStep DEF AnswerInv
<1>4. ASSUME NoKey \/ OutOfBudget \/ Refused \/ Garbled PROVE CInv'
    <2>1. pc # "idle" /\ (\E kind, t : Finish(kind, t)) /\ UNCHANGED cutShort
        BY <1>4 DEF NoKey, OutOfBudget, Refused, Garbled, Post, history
    <2> QED
        BY <2>1, <1>3
<1>5. ASSUME pc = "post", UNCHANGED <<cache, call, completion, pc, text, cutShort>> PROVE CInv'
    BY <1>5 DEF CallInv, CacheInv, AnswerInv
<1>6. ASSUME NEW asked \in RetryAfters, Busy(asked) PROVE CInv'
    <2>1. pc = "post" /\ UNCHANGED cutShort
        BY <1>6 DEF Busy, Post
    <2>2. CASE waited + Pause(asked) > BusyWait
        BY <1>3, <1>6, <2>1, <2>2 DEF Busy
    <2>3. CASE ~(waited + Pause(asked) > BusyWait)
        BY <1>5, <1>6, <2>1, <2>3 DEF Busy
    <2> QED
        BY <2>2, <2>3
<1>7. ASSUME Disturbed PROVE CInv'
    BY <1>5, <1>7 DEF Disturbed, Post
<1>8. ASSUME NEW q \in Requests, Receive(q) PROVE CInv'
    <2>1. pc = "post" /\ q \in call /\ UNCHANGED cutShort
        BY <1>8 DEF Receive, Post
    <2>2. call = {q}
        BY <2>1 DEF CallInv
    <2>3. PICK a \in Answers(q) :
              LET counted == a.counted * a.read
              IN  /\ last' = [a EXCEPT !.counted = counted]
                  /\ CASE PromptTruncated(counted, Chars[q]) -> Again
                       [] ~PromptTruncated(counted, Chars[q]) /\ a.text = Missing ->
                             Finish(Blame(a.reason), Missing) /\ UNCHANGED truncations
                       [] OTHER ->
                             /\ text' = a.text
                             /\ pc' = "store"
                             /\ UNCHANGED <<cache, call, completion, truncations>>
        BY <1>8 DEF Receive
    <2> DEFINE counted == a.counted * a.read
    <2>4. CASE PromptTruncated(counted, Chars[q])
        <3>1. Again
            BY <2>3, <2>4
        <3> QED
            BY <1>5, <2>1, <3>1 DEF Again
    <2>5. CASE ~PromptTruncated(counted, Chars[q]) /\ a.text = Missing
        <3>1. Finish(Blame(a.reason), Missing)
            BY <2>3, <2>5
        <3> QED
            BY <1>3, <2>1, <3>1
    <2>6. CASE ~PromptTruncated(counted, Chars[q]) /\ a.text # Missing
        <3>1. /\ text' = a.text /\ pc' = "store"
              /\ UNCHANGED <<cache, call, completion, truncations>>
              /\ last' = [a EXCEPT !.counted = counted]
            BY <2>3, <2>6
        <3>2. a.text \in Texts
            BY <2>6 DEF Answers
        <3>3. last'.counted = counted /\ last'.read = a.read
            BY <3>1 DEF Answers
        <3>4. last'.counted # 0 /\ last'.read < Tokens[q] => Unnoticed(q, last'.read)
            BY <2>6, <3>3, CutIsUnnoticed
        <3> QED
            BY <2>1, <2>2, <3>1, <3>2, <3>4 DEF CallInv, CacheInv, AnswerInv
    <2> QED
        BY <2>4, <2>5, <2>6
<1>9. ASSUME NEW q \in Requests, StoreReply(q) PROVE CInv'
    <2>1. pc = "store" /\ q \in call /\ cache' = [cache EXCEPT ![q] = text]
          /\ UNCHANGED <<call, completion, pc, text, last>>
          /\ cutShort' = IF last.counted # 0 /\ last.read < Tokens[q]
                         THEN cutShort \cup {[request |-> q, read |-> last.read]} ELSE cutShort
        BY <1>9 DEF StoreReply
    <2>2. CallInv'
        BY <2>1 DEF CallInv
    <2>3. CacheInv'
        BY <2>1 DEF CallInv, CacheInv
    <2>4. AnswerInv'
        BY <2>1 DEF AnswerInv
    <2> QED
        BY <2>2, <2>3, <2>4
<1>10. ASSUME NEW q \in Requests, ReturnReply(q) PROVE CInv'
    BY <1>3, <1>10 DEF ReturnReply, history
<1>11. ASSUME Taken PROVE CInv'
    BY <1>11 DEF Taken, Promise!Release, history, CallInv, CacheInv, AnswerInv
<1>12. ASSUME Kill PROVE CInv'
    BY <1>12 DEF Kill, Promise!Release, history, CallInv, CacheInv, AnswerInv
<1>13. ASSUME UNCHANGED vars PROVE CInv'
    BY <1>13 DEF vars, history, CallInv, CacheInv, AnswerInv
<1> QED
    BY <1>1, <1>2, <1>4, <1>6, <1>7, <1>8, <1>9, <1>10, <1>11, <1>12, <1>13 DEF Next, Step

\* At every step of complete: one call at a time, unanswered until it returns; asked for only
\* what is not cached; and no answer stored that prompt_truncated would have sent back.
THEOREM CallsInvariant == Spec => []CInv
BY CInit, CNext, PTL DEF Spec

(***************************************************************************)
(* What is cached of a prompt that was cut                                 *)
(***************************************************************************)

\* At three characters per token, a prompt cut to less than two thirds is always noticed;
\* at a common window size, one cut to less than three quarters.
LEMMA CutsNoticed ==
    ASSUME NEW tokens \in Nat, NEW chars \in Nat, NEW w \in Nat,
           chars >= 3 * tokens, w > 0,
           3 * w < 2 * tokens \/ (w \in WindowSizes /\ 4 * w < 3 * tokens)
    PROVE  PromptTruncated(w, chars)
BY DEF PromptTruncated

\* What prompt_truncated is worth, for any windows and prompts, any retries and replicas: a
\* cached reply to a prompt of at least three characters per token answers two thirds of it,
\* or three quarters of one cut to a common window size.  That it answers the whole of it, as
\* client.py says, is what run client_near_window refutes.
THEOREM OnlySlightCutsCached == Spec => []CutsCachedAreSlight
<1>1. CInv => CutsCachedAreSlight
    <2> SUFFICES ASSUME CInv, NEW c \in cutShort, Chars[c.request] >= 3 * Tokens[c.request]
                 PROVE  /\ 3 * c.read >= 2 * Tokens[c.request]
                        /\ c.read \in WindowSizes => 4 * c.read >= 3 * Tokens[c.request]
        BY DEF CutsCachedAreSlight
    <2> DEFINE q == c.request
    <2>1. q \in Requests /\ Unnoticed(q, c.read)
        BY DEF CInv, AnswerInv
    <2>2. Tokens[q] \in Nat /\ Chars[q] \in Nat
        BY <2>1, LengthAssumption
    <2>3. c.read \in Nat /\ c.read > 0 /\ ~PromptTruncated(c.read, Chars[q])
        BY <2>1 DEF Unnoticed
    <2>4. ~(3 * c.read < 2 * Tokens[q] \/ (c.read \in WindowSizes /\ 4 * c.read < 3 * Tokens[q]))
        BY <2>2, <2>3, CutsNoticed
    <2> QED
        BY <2>2, <2>3, <2>4
<1> QED
    BY <1>1, CallsInvariant, PTL

(***************************************************************************)
(* The promise: each step of the client is one of Completion, or none of   *)
(* its concern                                                             *)
(***************************************************************************)

LEMMA PromisedInit == ASSUME Init PROVE Promise!ServiceInit
BY DEF Init

\* A call with nothing cached may end without a text.
LEMMA NoReplyStep ==
    ASSUME CInv, NEW kind \in {"exhausted", "provider", "raised"},
           pc \in {"cache", "post"}, \A q \in call : cache[q] = Missing,
           Finish(kind, Missing)
    PROVE  Promise!ServiceNext
<1>1. PICK q \in Requests : call = {q}
    BY DEF CInv, CallInv
<1>2. Promise!NoReply(q, kind)
    BY <1>1 DEF CInv, CallInv, Finish, Promise!NoReply, Promise!Pending, Missing
<1> QED
    BY <1>2 DEF Promise!ServiceNext, Promise!Serve

LEMMA PromisedStep ==
    ASSUME CInv, [Next]_vars
    PROVE  [Promise!ServiceNext]_(Promise!service)
<1> USE DEF CInv
<1>1. ASSUME NEW q \in Requests, Ask(q) PROVE Promise!ServiceNext
    BY <1>1 DEF Ask, Promise!ServiceNext
<1>2. ASSUME NEW q \in Requests, Lookup(q) PROVE [Promise!ServiceNext]_(Promise!service)
    <2>1. pc = "cache" /\ Promise!Pending(q)
        BY <1>2 DEF Lookup, CallInv, Promise!Pending
    <2>2. CASE cache[q] = Missing
        BY <1>2, <2>2 DEF Lookup, Promise!service, Torn, Missing, Promise!Torn, Promise!Missing
    <2>3. CASE cache[q] = Torn
        <3>1. Finish("raised", Missing)
            BY <1>2, <2>3 DEF Lookup, Torn, Missing, Promise!Torn, Promise!Missing
        <3>2. Promise!Unreadable(q)
            BY <2>1, <2>3, <3>1 DEF Finish, Promise!Unreadable, Torn, Missing
        <3> QED
            BY <3>2 DEF Promise!ServiceNext, Promise!Serve
    <2>4. CASE cache[q] # Missing /\ cache[q] # Torn
        <3>1. Finish("text", cache[q])
            BY <1>2, <2>4 DEF Lookup
        <3>2. cache[q] \in Texts
            BY <2>4 DEF CacheInv
        <3>3. Promise!Reply(q)
            BY <2>1, <3>1, <3>2 DEF Finish, Promise!Reply
        <3> QED
            BY <3>3 DEF Promise!ServiceNext, Promise!Serve
    <2> QED
        BY <2>2, <2>3, <2>4
<1>3. ASSUME NoKey \/ OutOfBudget \/ Refused \/ Garbled PROVE Promise!ServiceNext
    <2>1. /\ pc \in {"cache", "post"} /\ \A q \in call : cache[q] = Missing
          /\ \E kind \in {"provider", "raised"} : Finish(kind, Missing)
        BY <1>3 DEF NoKey, OutOfBudget, Refused, Garbled, Post, CacheInv
    <2> QED
        BY <2>1, NoReplyStep
<1>4. ASSUME NEW asked \in RetryAfters, Busy(asked)
      PROVE  [Promise!ServiceNext]_(Promise!service)
    <2>1. pc = "post" /\ \A q \in call : cache[q] = Missing
        BY <1>4 DEF Busy, Post, CacheInv
    <2>2. Finish("provider", Missing) \/ UNCHANGED <<cache, call, completion>>
        BY <1>4 DEF Busy
    <2> QED
        BY <2>1, <2>2, NoReplyStep DEF Promise!service
<1>5. ASSUME Disturbed PROVE UNCHANGED Promise!service
    BY <1>5 DEF Disturbed, Promise!service
<1>6. ASSUME NEW q \in Requests, Receive(q) PROVE [Promise!ServiceNext]_(Promise!service)
    <2>1. pc = "post" /\ \A r \in call : cache[r] = Missing
        BY <1>6 DEF Receive, Post, CacheInv
    <2>2. \/ UNCHANGED <<cache, call, completion>>
          \/ \E a \in Answers(q) : Finish(Blame(a.reason), Missing)
        BY <1>6 DEF Receive, Again
    <2> QED
        BY <2>1, <2>2, NoReplyStep DEF Promise!service, Blame
<1>7. ASSUME NEW q \in Requests, StoreReply(q) PROVE Promise!ServiceNext
    <2>1. text \in Texts /\ Promise!Store(q, text)
        BY <1>7 DEF StoreReply, CallInv, CacheInv, Promise!Store, Promise!Pending, Missing
    <2> QED
        BY <2>1 DEF Promise!ServiceNext, Promise!Serve
<1>8. ASSUME NEW q \in Requests, ReturnReply(q) PROVE Promise!ServiceNext
    <2>1. Promise!Reply(q)
        BY <1>8 DEF ReturnReply, Finish, CallInv, CacheInv, Promise!Reply, Promise!Pending
    <2> QED
        BY <2>1 DEF Promise!ServiceNext, Promise!Serve
<1>9. ASSUME Taken PROVE Promise!ServiceNext
    BY <1>9 DEF Taken, Promise!ServiceNext
<1>10. ASSUME Kill PROVE Promise!ServiceNext
    <2>1. call # {} /\ (pc = "store" => completion = Promise!NoAnswer)
        BY <1>10 DEF Kill, CallInv
    <2>2. Promise!Die
        BY <1>10, <2>1 DEF Kill, Promise!Die, Promise!Pending, Missing, Torn
    <2> QED
        BY <2>2 DEF Promise!ServiceNext
<1>11. ASSUME UNCHANGED vars PROVE UNCHANGED Promise!service
    BY <1>11 DEF vars, Promise!service
<1> QED
    BY <1>1, <1>2, <1>3, <1>4, <1>5, <1>6, <1>7, <1>8, <1>9, <1>10, <1>11 DEF Next, Step

\* The client implements Completion, whatever its budgets and whatever the provider does: one
\* draw per request, cached before it is used and never replaced, nothing cached for a failure.
THEOREM PromiseKept == Spec => KeepsPromise
BY CallsInvariant, PromisedInit, PromisedStep, PTL DEF Spec, KeepsPromise, Promise!ServiceSpec

(***************************************************************************)
(* The score (ScoreCase)                                                   *)
(***************************************************************************)

\* A set of numbers has a smallest one.
LEMMA Smallest ==
    ASSUME NEW S, S \subseteq Nat, S # {}
    PROVE  \E n \in S : \A m \in S : n <= m
<1> DEFINE R == OpToRel(<, Nat)
<1>1. IsWellFoundedOn(R, Nat)
  BY NatLessThanWellFounded
<1>2. \A x, y \in Nat : <<x, y>> \in R <=> x < y
  BY DEF OpToRel
<1> HIDE DEF R
<1>3. PICK x \in S : \A y \in S : ~(<<y, x>> \in R)
  BY <1>1, WFMin
<1>4. ASSUME NEW y \in S  PROVE x <= y
  <2>1. x \in Nat /\ y \in Nat
    OBVIOUS
  <2>2. ~(y < x)
    BY <1>2, <1>3, <2>1, Zenon
  <2>3. QED  BY <2>1, <2>2
<1>5. QED  BY <1>4

(***************************************************************************)
(* How many rows of a sequence are in a set                                *)
(***************************************************************************)

PlacesIn(A, s) == {i \in DOMAIN s : s[i] \in A}
Count(A, s) == Cardinality(PlacesIn(A, s))

LEMMA CountType ==
    ASSUME NEW A, NEW S, NEW s \in Seq(S)
    PROVE  /\ IsFiniteSet(PlacesIn(A, s))
           /\ Count(A, s) \in Nat
           /\ Count(A, s) <= Len(s)
           /\ Count(A, s) = 0 <=> \A i \in DOMAIN s : s[i] \notin A
<1>1. IsFiniteSet(1 .. Len(s)) /\ Cardinality(1 .. Len(s)) = Len(s)
  <2>1. Len(s) \in Nat /\ 1 \in Int /\ Len(s) \in Int
    BY LenProperties
  <2>2. /\ IsFiniteSet(1 .. Len(s))
        /\ Cardinality(1 .. Len(s)) = IF 1 > Len(s) THEN 0 ELSE Len(s) - 1 + 1
    BY <2>1, FS_Interval
  <2>3. QED  BY <2>1, <2>2
<1>2. PlacesIn(A, s) \subseteq 1 .. Len(s)
  BY DEF PlacesIn
<1>3. IsFiniteSet(PlacesIn(A, s)) /\ Count(A, s) <= Len(s)
  BY <1>1, <1>2, FS_Subset DEF Count
<1>4. Count(A, s) \in Nat
  BY <1>3, FS_CardinalityType DEF Count
<1>5. Count(A, s) = 0 <=> PlacesIn(A, s) = {}
  BY <1>3, FS_EmptySet DEF Count
<1>6. PlacesIn(A, s) = {} <=> \A i \in DOMAIN s : s[i] \notin A
  BY DEF PlacesIn
<1>7. QED  BY <1>3, <1>4, <1>5, <1>6

LEMMA CountNone == ASSUME NEW A  PROVE Count(A, << >>) = 0
<1>1. PlacesIn(A, << >>) = {}
  BY DEF PlacesIn
<1>2. QED  BY <1>1, FS_EmptySet DEF Count

LEMMA CountOne ==
    ASSUME NEW A, NEW e
    PROVE  Count(A, <<e>>) = (IF e \in A THEN 1 ELSE 0)
<1>1. CASE e \in A
  <2>1. PlacesIn(A, <<e>>) = {1}
    BY <1>1 DEF PlacesIn
  <2>2. QED  BY <1>1, <2>1, FS_Singleton DEF Count
<1>2. CASE e \notin A
  <2>1. PlacesIn(A, <<e>>) = {}
    BY <1>2 DEF PlacesIn
  <2>2. QED  BY <1>2, <2>1, FS_EmptySet DEF Count
<1>3. QED  BY <1>1, <1>2

LEMMA CountTogether ==
    ASSUME NEW A, NEW S, NEW s \in Seq(S), NEW t \in Seq(S)
    PROVE  Count(A, s \o t) = Count(A, s) + Count(A, t)
<1> DEFINE moved == {i \in Len(s) + 1 .. Len(s) + Len(t) : t[i - Len(s)] \in A}
           move == [i \in PlacesIn(A, t) |-> i + Len(s)]
<1>1. PlacesIn(A, s \o t) = PlacesIn(A, s) \cup moved
  <2>1. DOMAIN (s \o t) = 1 .. Len(s) + Len(t)
    OBVIOUS
  <2>2. \A i \in 1 .. Len(s) : (s \o t)[i] = s[i]
    OBVIOUS
  <2>3. \A i \in Len(s) + 1 .. Len(s) + Len(t) : (s \o t)[i] = t[i - Len(s)]
    OBVIOUS
  <2>4. DOMAIN s = 1 .. Len(s) /\ Len(s) \in Nat /\ Len(t) \in Nat
    OBVIOUS
  <2>5. QED  BY <2>1, <2>2, <2>3, <2>4 DEF PlacesIn
<1>2. PlacesIn(A, s) \cap moved = {}
  BY DEF PlacesIn
<1>3. move \in Bijection(PlacesIn(A, t), moved)
  <2>1. move \in [PlacesIn(A, t) -> moved]
    BY DEF PlacesIn
  <2>2. \A i, j \in PlacesIn(A, t) : move[i] = move[j] => i = j
    BY DEF PlacesIn
  <2>3. \A k \in moved : \E i \in PlacesIn(A, t) : move[i] = k
    <3> SUFFICES ASSUME NEW k \in moved  PROVE \E i \in PlacesIn(A, t) : move[i] = k
      OBVIOUS
    <3>1. k - Len(s) \in PlacesIn(A, t)
      BY DEF PlacesIn
    <3>2. move[k - Len(s)] = k
      BY <3>1
    <3>3. QED  BY <3>1, <3>2
  <2>4. DOMAIN move = PlacesIn(A, t)
    OBVIOUS
  <2> HIDE DEF move, moved
  <2>5. QED  BY <2>1, <2>2, <2>3, <2>4 DEF Bijection, Injection, IsInjective, Surjection
<1> HIDE DEF move, moved
<1>4. IsFiniteSet(moved) /\ Cardinality(moved) = Cardinality(PlacesIn(A, t))
  BY <1>3, CountType, FS_Bijection DEF ExistsBijection
<1>5. Cardinality(PlacesIn(A, s) \cup moved) = Cardinality(PlacesIn(A, s)) + Cardinality(moved)
  <2>1. IsFiniteSet(PlacesIn(A, s)) /\ Cardinality(PlacesIn(A, s)) \in Nat /\ Cardinality(moved) \in Nat
    BY <1>4, CountType DEF Count
  <2>2. Cardinality(PlacesIn(A, s) \cap moved) = 0
    BY <1>2, FS_EmptySet
  <2>3. Cardinality(PlacesIn(A, s) \cup moved)
            = Cardinality(PlacesIn(A, s)) + Cardinality(moved) - Cardinality(PlacesIn(A, s) \cap moved)
    BY <1>4, <2>1, FS_Union
  <2>4. QED  BY <2>1, <2>2, <2>3
<1>6. QED  BY <1>1, <1>4, <1>5 DEF Count

LEMMA CountAppend ==
    ASSUME NEW A, NEW S, NEW s \in Seq(S), NEW e \in S
    PROVE  Count(A, Append(s, e)) = Count(A, s) + (IF e \in A THEN 1 ELSE 0)
<1>1. Append(s, e) = s \o <<e>> /\ <<e>> \in Seq(S)
  OBVIOUS
<1>2. Count(A, s \o <<e>>) = Count(A, s) + Count(A, <<e>>)
  BY <1>1, CountTogether
<1>3. QED  BY <1>1, <1>2, CountOne

LEMMA CountTail ==
    ASSUME NEW A, NEW S, NEW s \in Seq(S), s # << >>
    PROVE  /\ Head(s) \in S /\ Tail(s) \in Seq(S) /\ Len(Tail(s)) = Len(s) - 1
           /\ Count(A, s) = (IF Head(s) \in A THEN 1 ELSE 0) + Count(A, Tail(s))
<1>1. s = <<Head(s)>> \o Tail(s) /\ <<Head(s)>> \in Seq(S) /\ Tail(s) \in Seq(S) /\ Head(s) \in S
  OBVIOUS
<1>2. Count(A, s) = (IF Head(s) \in A THEN 1 ELSE 0) + Count(A, Tail(s))
  <2>1. Count(A, <<Head(s)>> \o Tail(s)) = Count(A, <<Head(s)>>) + Count(A, Tail(s))
    BY <1>1, CountTogether
  <2>2. QED  BY <1>1, <2>1, CountOne
<1>3. QED  BY <1>1, <1>2

LEMMA CountRemoved ==
    ASSUME NEW A, NEW S, NEW s \in Seq(S), NEW i \in 1 .. Len(s)
    PROVE  /\ RemoveAt(s, i) \in Seq(S)
           /\ Len(RemoveAt(s, i)) = Len(s) - 1
           /\ Count(A, s) = (IF s[i] \in A THEN 1 ELSE 0) + Count(A, RemoveAt(s, i))
<1> DEFINE before == SubSeq(s, 1, i - 1)
           after == SubSeq(s, i + 1, Len(s))
<1>0. /\ Len(s) \in Nat /\ DOMAIN s = 1 .. Len(s) /\ \A j \in 1 .. Len(s) : s[j] \in S
      /\ 1 \in Int /\ i - 1 \in Int /\ i + 1 \in Int /\ Len(s) \in Int
  BY LenProperties, ElementOfSeq
<1>1. /\ before \in Seq(S) /\ Len(before) = i - 1
      /\ after \in Seq(S) /\ Len(after) = Len(s) - i
      /\ <<s[i]>> \in Seq(S)
      /\ \A j \in 1 .. Len(before) : before[j] = s[j]
      /\ \A j \in 1 .. Len(after) : after[j] = s[j + i]
  <2>1. /\ before \in Seq(S)
        /\ Len(before) = IF 1 <= i - 1 THEN (i - 1) - 1 + 1 ELSE 0
        /\ \A j \in 1 .. (i - 1) - 1 + 1 : before[j] = s[1 + j - 1]
    <3>1. \A j \in 1 .. i - 1 : s[j] \in S
      BY <1>0
    <3>2. QED  BY <1>0, <3>1, SubSeqProperties
  <2>2. /\ after \in Seq(S)
        /\ Len(after) = IF i + 1 <= Len(s) THEN Len(s) - (i + 1) + 1 ELSE 0
        /\ \A j \in 1 .. Len(s) - (i + 1) + 1 : after[j] = s[(i + 1) + j - 1]
    <3>1. \A j \in i + 1 .. Len(s) : s[j] \in S
      BY <1>0
    <3>2. QED  BY <1>0, <3>1, SubSeqProperties
  <2>3. <<s[i]>> \in Seq(S)
    BY <1>0
  <2> HIDE DEF before, after
  <2>4. Len(before) = i - 1 /\ \A j \in 1 .. Len(before) : before[j] = s[j]
    BY <1>0, <2>1
  <2>5. Len(after) = Len(s) - i
    <3>1. CASE i + 1 <= Len(s)
      BY <1>0, <2>2, <3>1
    <3>2. CASE ~(i + 1 <= Len(s))
      <4>1. i = Len(s)
        <5>1. i \in Int /\ Len(s) \in Int /\ i <= Len(s)
          BY <1>0
        <5>2. QED  BY <3>2, <5>1
      <4>2. after = << >>
        BY <1>0, <3>2, SubSeqEmpty DEF after
      <4>3. QED  BY <1>0, <4>1, <4>2
    <3>3. QED  BY <3>1, <3>2
  <2>6. \A j \in 1 .. Len(after) : after[j] = s[j + i]
    <3> SUFFICES ASSUME NEW j \in 1 .. Len(after)  PROVE after[j] = s[j + i]
      OBVIOUS
    <3>1. j \in 1 .. Len(s) - (i + 1) + 1 /\ (i + 1) + j - 1 = j + i
      BY <1>0, <2>5
    <3>2. after[j] = s[(i + 1) + j - 1]
      BY <2>2, <3>1
    <3>3. QED  BY <3>1, <3>2
  <2>7. QED  BY <2>1, <2>2, <2>3, <2>4, <2>5, <2>6
<1>2. /\ \A j \in 1 .. Len(before) : before[j] = s[j]
      /\ \A j \in 1 .. Len(after) : after[j] = s[j + i]
  BY <1>1
<1>3. s = (before \o <<s[i]>>) \o after
  <2> DEFINE b1 == before \o <<s[i]>>
  <2> HIDE DEF before, after
  <2>1. b1 \in Seq(S) /\ Len(b1) = i /\ b1[i] = s[i] /\ \A j \in 1 .. i - 1 : b1[j] = s[j]
    BY <1>1, <1>2
  <2> HIDE DEF b1
  <2>2. b1 \o after \in Seq(S) /\ Len(b1 \o after) = Len(s)
    <3>1. b1 \o after \in Seq(S) /\ Len(b1 \o after) = Len(b1) + Len(after)
      BY <1>1, <2>1, ConcatProperties
    <3>2. QED  BY <1>0, <1>1, <2>1, <3>1
  <2>3. \A j \in 1 .. Len(s) : (b1 \o after)[j] = s[j]
    <3> SUFFICES ASSUME NEW j \in 1 .. Len(s)  PROVE (b1 \o after)[j] = s[j]
      OBVIOUS
    <3>1. CASE j <= i
      BY <1>0, <1>1, <2>1, <3>1
    <3>2. CASE ~(j <= i)
      <4>1. (b1 \o after)[j] = after[j - i] /\ j - i \in 1 .. Len(after)
        BY <1>0, <1>1, <2>1, <3>2
      <4>2. after[j - i] = s[(j - i) + i]
        BY <1>2, <4>1
      <4>3. QED  BY <4>1, <4>2
    <3>3. QED  BY <3>1, <3>2
  <2>4. b1 \o after = s
    BY <2>2, <2>3, SeqEqual
  <2>5. QED  BY <2>4 DEF b1
<1>4. RemoveAt(s, i) = before \o after
  BY DEF RemoveAt
<1> HIDE DEF before, after
<1>5. before \o after \in Seq(S) /\ Len(before \o after) = Len(s) - 1
  BY <1>1
<1>6. Count(A, s) = (Count(A, before) + (IF s[i] \in A THEN 1 ELSE 0)) + Count(A, after)
  <2>1. before \o <<s[i]>> \in Seq(S)
    BY <1>1
  <2>2. Count(A, (before \o <<s[i]>>) \o after) = Count(A, before \o <<s[i]>>) + Count(A, after)
    BY <1>1, <2>1, CountTogether
  <2>3. Count(A, before \o <<s[i]>>) = Count(A, before) + Count(A, <<s[i]>>)
    BY <1>1, CountTogether
  <2>4. QED  BY <1>3, <2>2, <2>3, CountOne
<1>7. Count(A, before \o after) = Count(A, before) + Count(A, after)
  BY <1>1, CountTogether
<1>8. QED
  <2>1. Count(A, before) \in Nat /\ Count(A, after) \in Nat
    BY <1>1, CountType
  <2>2. QED  BY <1>4, <1>5, <1>6, <1>7, <2>1

(***************************************************************************)
(* Recursion over 0 .. N                                                   *)
(***************************************************************************)

\* A step in V for each number, and where it begins, make a function.
LEMMA Recursion ==
    ASSUME NEW V, NEW base \in V, NEW N \in Nat, NEW step \in [1 .. N -> [V -> V]]
    PROVE  \E f \in [0 .. N -> V] : f[0] = base /\ \A n \in 1 .. N : f[n] = step[n][f[n - 1]]
<1> DEFINE Reaches(n) == \E f \in [0 .. n -> V] :
                            f[0] = base /\ \A m \in 1 .. n : f[m] = step[m][f[m - 1]]
           bad == {n \in 0 .. N : ~Reaches(n)}
<1>1. Reaches(0)
  <2> DEFINE f == [m \in 0 .. 0 |-> base]
  <2>1. f \in [0 .. 0 -> V] /\ f[0] = base
    OBVIOUS
  <2>2. \A m \in 1 .. 0 : f[m] = step[m][f[m - 1]]
    OBVIOUS
  <2> HIDE DEF f
  <2>3. QED  BY <2>1, <2>2
<1>2. ASSUME NEW n \in 1 .. N, Reaches(n - 1)  PROVE Reaches(n)
  <2>1. PICK f \in [0 .. n - 1 -> V] :
               f[0] = base /\ \A m \in 1 .. n - 1 : f[m] = step[m][f[m - 1]]
    BY <1>2
  <2>2. f[n - 1] \in V /\ step[n] \in [V -> V] /\ step[n][f[n - 1]] \in V
    BY <2>1
  <2> DEFINE g == [m \in 0 .. n |-> IF m = n THEN step[n][f[n - 1]] ELSE f[m]]
  <2>3. g \in [0 .. n -> V]
    BY <2>1, <2>2
  <2>4. g[0] = base /\ g[n] = step[n][f[n - 1]] /\ \A m \in 0 .. n - 1 : g[m] = f[m]
    BY <2>1
  <2> HIDE DEF g
  <2>5. \A m \in 1 .. n : g[m] = step[m][g[m - 1]]
    BY <2>1, <2>4
  <2>6. QED  BY <2>3, <2>4, <2>5
<1>3. bad = {}
  <2> SUFFICES ASSUME bad # {}  PROVE FALSE
    OBVIOUS
  <2> HIDE DEF Reaches
  <2>0. bad \subseteq Nat
    OBVIOUS
  <2>1. PICK n \in bad : \A m \in bad : n <= m
    <3> HIDE DEF bad
    <3>1. QED  BY <2>0, Smallest
  <2>2. n # 0
    BY <1>1
  <2>3. n - 1 \in 0 .. N /\ n \in 1 .. N /\ ~(n <= n - 1)
    BY <2>2
  <2>4. Reaches(n - 1)
    BY <2>1, <2>3
  <2>5. QED  BY <1>2, <2>3, <2>4
<1>4. Reaches(N)
  <2> HIDE DEF Reaches
  <2>1. QED  BY <1>3
<1>5. QED  BY <1>4

\* What begins in V and steps from V into V stays in V.
LEMMA RecursionStays ==
    ASSUME NEW V, NEW N \in Nat, NEW g, g[0] \in V,
           \A n \in 1 .. N : g[n - 1] \in V => g[n] \in V
    PROVE  \A n \in 0 .. N : g[n] \in V
<1> DEFINE bad == {n \in 0 .. N : g[n] \notin V}
<1> SUFFICES ASSUME bad # {}  PROVE FALSE
  OBVIOUS
<1>0. bad \subseteq Nat
  OBVIOUS
<1>1. PICK n \in bad : \A m \in bad : n <= m
  <2> HIDE DEF bad
  <2>1. QED  BY <1>0, Smallest
<1>2. n - 1 \in 0 .. N /\ n \in 1 .. N /\ ~(n <= n - 1)
  OBVIOUS
<1>3. g[n - 1] \in V
  BY <1>1, <1>2
<1>4. QED  BY <1>2, <1>3

(***************************************************************************)
(* Rows and their kinds                                                    *)
(***************************************************************************)

ProperRows == [key : Keys, value : Nat, id : BOOLEAN]

LEMMA RowsAreProper ==
    /\ OracleRows \subseteq ProperRows
    /\ OutputRows \ {Malformed} \subseteq ProperRows
    /\ \A r \in OracleRows : r.value # 0
BY RowsAssumption DEF ProperRows, NotNumeric

\* The rows kept of each prefix: one more, unless it is malformed
LEMMA WellFormedSteps ==
    ASSUME NEW s \in Seq(OutputRows)
    PROVE  \E kept : /\ kept[0] = << >> /\ WellFormed(s) = kept[Len(s)]
                     /\ \A n \in 0 .. Len(s) : kept[n] \in Seq(ProperRows)
                     /\ \A n \in 1 .. Len(s) :
                           kept[n] = IF s[n] = Malformed THEN kept[n - 1] ELSE Append(kept[n - 1], s[n])
<1> DEFINE V == Seq(ProperRows)
           kept[n \in 0 .. Len(s)] ==
              IF n = 0 THEN << >>
              ELSE IF s[n] = Malformed THEN kept[n - 1] ELSE Append(kept[n - 1], s[n])
           step == [n \in 1 .. Len(s) |->
                      [v \in V |-> IF s[n] = Malformed THEN v ELSE Append(v, s[n])]]
<1>0. Len(s) \in Nat
  OBVIOUS
<1>1. \A n \in 1 .. Len(s) : s[n] = Malformed \/ s[n] \in ProperRows
  BY RowsAreProper
<1>2. \A n \in 1 .. Len(s) : \A v \in V :
         (IF s[n] = Malformed THEN v ELSE Append(v, s[n])) \in V
  BY <1>1
<1>3. step \in [1 .. Len(s) -> [V -> V]]
  BY <1>2
<1>4. << >> \in V
  OBVIOUS
<1>5. PICK f \in [0 .. Len(s) -> V] :
             f[0] = << >> /\ \A n \in 1 .. Len(s) : f[n] = step[n][f[n - 1]]
  <2> DEFINE base == << >>
           N == Len(s)
  <2>1. base \in V /\ N \in Nat /\ step \in [1 .. N -> [V -> V]]
    BY <1>0, <1>3, <1>4
  <2> HIDE DEF V, step, base, kept, N
  <2>2. \E f \in [0 .. N -> V] :
           f[0] = base /\ \A n \in 1 .. N : f[n] = step[n][f[n - 1]]
    BY <2>1, Recursion
  <2>3. QED  BY <2>2 DEF base, N
<1>6. \A n \in 1 .. Len(s) :
         f[n] = IF s[n] = Malformed THEN f[n - 1] ELSE Append(f[n - 1], s[n])
  <2> SUFFICES ASSUME NEW n \in 1 .. Len(s)
               PROVE  f[n] = IF s[n] = Malformed THEN f[n - 1] ELSE Append(f[n - 1], s[n])
    OBVIOUS
  <2>1. n - 1 \in 0 .. Len(s)
    BY <1>0
  <2>2. f[n - 1] \in V
    BY <2>1
  <2>3. QED  BY <1>5, <2>2
<1>7. f = [n \in 0 .. Len(s) |->
             IF n = 0 THEN << >>
             ELSE IF s[n] = Malformed THEN f[n - 1] ELSE Append(f[n - 1], s[n])]
  <2> DEFINE h == [n \in 0 .. Len(s) |->
             IF n = 0 THEN << >>
             ELSE IF s[n] = Malformed THEN f[n - 1] ELSE Append(f[n - 1], s[n])]
  <2>1. ASSUME NEW n \in 0 .. Len(s)  PROVE f[n] = h[n]
    <3>1. CASE n = 0
      BY <1>0, <1>5, <3>1
    <3>2. CASE n # 0
      <4>1. n \in 1 .. Len(s)
        BY <1>0, <3>2
      <4>2. QED  BY <1>6, <3>2, <4>1
    <3>3. QED  BY <3>1, <3>2
  <2>2. QED  BY <2>1
<1>8. kept = [n \in 0 .. Len(s) |->
             IF n = 0 THEN << >>
             ELSE IF s[n] = Malformed THEN kept[n - 1] ELSE Append(kept[n - 1], s[n])]
  BY <1>7, Zenon
<1>9. WellFormed(s) = kept[Len(s)]
  BY Zenon DEF WellFormed
<1> HIDE DEF kept
<1>10. kept[0] \in V
  BY <1>0, <1>4, <1>8
<1>11. \A n \in 1 .. Len(s) : kept[n - 1] \in V => kept[n] \in V
  <2> SUFFICES ASSUME NEW n \in 1 .. Len(s), kept[n - 1] \in V  PROVE kept[n] \in V
    OBVIOUS
  <2>1. n \in 0 .. Len(s) /\ n # 0
    BY <1>0
  <2>2. kept[n] = IF s[n] = Malformed THEN kept[n - 1] ELSE Append(kept[n - 1], s[n])
    BY <1>8, <2>1
  <2>3. QED  BY <1>2, <2>2
<1>12. \A n \in 0 .. Len(s) : kept[n] \in V
  <2> HIDE DEF V
  <2>1. QED  BY <1>0, <1>10, <1>11, RecursionStays
<1>13. \A n \in 1 .. Len(s) :
          kept[n] = IF s[n] = Malformed THEN kept[n - 1] ELSE Append(kept[n - 1], s[n])
  <2> SUFFICES ASSUME NEW n \in 1 .. Len(s)
               PROVE  kept[n] = IF s[n] = Malformed THEN kept[n - 1] ELSE Append(kept[n - 1], s[n])
    OBVIOUS
  <2>1. n \in 0 .. Len(s) /\ n # 0
    BY <1>0
  <2>2. QED  BY <1>8, <2>1
<1>14. kept[0] = << >>
  BY <1>0, <1>8
<1>15. QED  BY <1>9, <1>12, <1>13, <1>14

LEMMA WellFormedType ==
    ASSUME NEW s \in Seq(OutputRows)
    PROVE  WellFormed(s) \in Seq(ProperRows)
<1>1. Len(s) \in 0 .. Len(s)
  BY LenProperties
<1>2. QED  BY <1>1, WellFormedSteps

\* Setting malformed rows aside loses no other: whatever well-formed rows are counted, the
\* rows that are scored have as many as the program's output.
THEOREM WellFormedLosesNone ==
    ASSUME NEW s \in Seq(OutputRows), NEW A, Malformed \notin A
    PROVE  Count(A, WellFormed(s)) = Count(A, s)
<1> DEFINE first(n) == SubSeq(s, 1, n)
<1>1. PICK kept : /\ kept[0] = << >> /\ WellFormed(s) = kept[Len(s)]
                  /\ \A n \in 0 .. Len(s) : kept[n] \in Seq(ProperRows)
                  /\ \A n \in 1 .. Len(s) :
                        kept[n] = IF s[n] = Malformed THEN kept[n - 1] ELSE Append(kept[n - 1], s[n])
  BY WellFormedSteps
<1>2. Len(s) \in Nat /\ \A n \in 1 .. Len(s) : s[n] \in OutputRows
  BY LenProperties, ElementOfSeq
<1>3. first(0) = << >> /\ first(Len(s)) = s
  BY SubSeqEmpty, SubSeqFull
<1>4. ASSUME NEW n \in 1 .. Len(s)
      PROVE  /\ first(n - 1) \in Seq(OutputRows)
             /\ first(n) = first(n - 1) \o <<s[n]>>
  <2>1. 1 \in 1 .. Len(s) /\ n \in 1 .. Len(s) /\ n - 1 \in Int /\ 1 \in Int
    BY <1>2
  <2>2. \A j \in 1 .. n - 1 : s[j] \in OutputRows
    BY <1>2
  <2>3. first(n - 1) \in Seq(OutputRows)
    BY <2>1, <2>2, SubSeqProperties
  <2>4. first(n) = first(n - 1) \o <<s[n]>>
    BY <2>1, SubSeqRecursiveSecond
  <2>5. QED  BY <2>3, <2>4
<1> HIDE DEF first
<1> DEFINE even == [n \in 0 .. Len(s) |-> Count(A, kept[n]) = Count(A, first(n))]
<1>5. even[0] \in {TRUE}
  <2>1. 0 \in 0 .. Len(s) /\ Count(A, kept[0]) = Count(A, first(0))
    BY <1>1, <1>2, <1>3
  <2>2. QED  BY <2>1
<1>6. ASSUME NEW n \in 1 .. Len(s), even[n - 1] \in {TRUE}  PROVE even[n] \in {TRUE}
  <2>1. n \in 0 .. Len(s) /\ n - 1 \in 0 .. Len(s)
    BY <1>2
  <2>2. Count(A, kept[n - 1]) = Count(A, first(n - 1))
    BY <1>6, <2>1
  <2>3. s[n] \in OutputRows /\ <<s[n]>> \in Seq(OutputRows)
    BY <1>2
  <2>4. Count(A, first(n)) = Count(A, first(n - 1)) + (IF s[n] \in A THEN 1 ELSE 0)
    <3>1. Count(A, first(n - 1) \o <<s[n]>>) = Count(A, first(n - 1)) + Count(A, <<s[n]>>)
      BY <1>4, <2>3, CountTogether
    <3>2. QED  BY <1>4, <3>1, CountOne
  <2>5. Count(A, kept[n]) = Count(A, kept[n - 1]) + (IF s[n] \in A THEN 1 ELSE 0)
    <3>1. kept[n - 1] \in Seq(ProperRows) /\ Count(A, kept[n - 1]) \in Nat
      BY <1>1, <2>1, CountType
    <3>2. CASE s[n] = Malformed
      <4>1. kept[n] = kept[n - 1] /\ ~(s[n] \in A)
        BY <1>1, <3>2
      <4>2. QED  BY <3>1, <4>1
    <3>3. CASE s[n] # Malformed
      <4>1. kept[n] = Append(kept[n - 1], s[n])
        BY <1>1, <3>3
      <4>2. s[n] \in ProperRows
        BY <2>3, <3>3, RowsAreProper
      <4>3. QED  BY <3>1, <4>1, <4>2, CountAppend
    <3>4. QED  BY <3>2, <3>3
  <2>6. Count(A, kept[n]) = Count(A, first(n))
    BY <2>2, <2>4, <2>5
  <2>7. QED  BY <2>1, <2>6
<1> HIDE DEF even
<1>7. Len(s) \in 0 .. Len(s) /\ even[Len(s)] \in {TRUE}
  <2> DEFINE V == {TRUE}
             N == Len(s)
  <2>1. N \in Nat /\ even[0] \in V /\ \A n \in 1 .. N : even[n - 1] \in V => even[n] \in V
    BY <1>2, <1>5, <1>6
  <2> HIDE DEF V, N
  <2>2. \A n \in 0 .. N : even[n] \in V
    BY <2>1, RecursionStays
  <2>3. N \in 0 .. N
    BY <2>1
  <2>4. QED  BY <2>2, <2>3 DEF V, N
<1>8. Count(A, kept[Len(s)]) = Count(A, first(Len(s)))
  BY <1>7 DEF even
<1>9. QED  BY <1>1, <1>3, <1>8

OfKind(k) == {r \in ProperRows : r.key = k}
Kind(identity, r) ==
    {s \in ProperRows : identity[s.key] = identity[r.key] /\ Close(r.value, s.value)}

LEMMA OfKeyIsCount ==
    ASSUME NEW k, NEW s \in Seq(ProperRows)
    PROVE  OfKey(k, s) = Count(OfKind(k), s)
<1>1. \A i \in DOMAIN s : s[i] \in ProperRows
  BY ElementOfSeq, LenProperties
<1>2. {i \in DOMAIN s : s[i].key = k} = PlacesIn(OfKind(k), s)
  BY <1>1 DEF PlacesIn, OfKind
<1>3. QED  BY <1>2 DEF OfKey, Count

LEMMA AsGoodAsIsCount ==
    ASSUME NEW r \in ProperRows, NEW s \in Seq(ProperRows)
    PROVE  AsGoodAs(r, s) = Count(Kind(AsWritten, r), s)
<1>1. \A i \in DOMAIN s : s[i] \in ProperRows
  BY ElementOfSeq, LenProperties
<1>2. \A t \in ProperRows : AsWritten[t.key] = t.key
  BY DEF AsWritten, ProperRows
<1>3. {i \in DOMAIN s : s[i].key = r.key /\ Close(r.value, s[i].value)}
         = PlacesIn(Kind(AsWritten, r), s)
  BY <1>1, <1>2 DEF PlacesIn, Kind
<1>4. QED  BY <1>3 DEF AsGoodAs, Count

\* Where values cluster, a row of the engine is of a kind if and only if a row of the
\* program that it could be paired with is.
LEMMA SameKind ==
    ASSUME NEW identity, Clustered(identity),
           ToSet(oracle) \subseteq OracleRows, ToSet(rows) \subseteq ProperRows,
           NEW r \in ToSet(oracle), NEW e \in ToSet(oracle), NEW b \in ToSet(rows),
           b \in Kind(identity, e)
    PROVE  e \in Kind(identity, r) <=> b \in Kind(identity, r)
<1> DEFINE Alike(x, y) == identity[x.key] = identity[y.key] /\ Close(x.value, y.value)
           written == {x \in ToSet(oracle) \cup ToSet(rows) : x.value # NotNumeric}
<1>1. \A x, y, z \in written : Alike(x, y) /\ Alike(y, z) => Alike(x, z)
  BY DEF Clustered
<1>2. /\ r \in ProperRows /\ e \in ProperRows /\ b \in ProperRows
      /\ r.value # 0 /\ e.value # 0
      /\ r.value \in Nat /\ e.value \in Nat /\ b.value \in Nat
  BY RowsAreProper DEF ProperRows
<1>3. Alike(e, b) /\ b.value # 0
  BY DEF Kind, Close, NotNumeric
<1>4. r \in written /\ e \in written /\ b \in written
  BY <1>2, <1>3 DEF NotNumeric
<1>5. Alike(b, e)
  BY <1>2, <1>3 DEF Close, NotNumeric
<1>6. (e \in Kind(identity, r) <=> Alike(r, e)) /\ (b \in Kind(identity, r) <=> Alike(r, b))
  BY <1>2 DEF Kind
<1> HIDE DEF Alike, written
<1>7. QED  BY <1>1, <1>3, <1>4, <1>5, <1>6

\* and two rows of the engine of which one is of the other's kind are of the same kinds
LEMMA SameKindOfEngine ==
    ASSUME NEW identity, Clustered(identity), ToSet(oracle) \subseteq OracleRows,
           NEW r \in ToSet(oracle), NEW e \in ToSet(oracle), NEW d \in ToSet(oracle),
           e \in Kind(identity, d)
    PROVE  e \in Kind(identity, r) <=> d \in Kind(identity, r)
<1> DEFINE Alike(x, y) == identity[x.key] = identity[y.key] /\ Close(x.value, y.value)
           written == {x \in ToSet(oracle) \cup ToSet(rows) : x.value # NotNumeric}
<1>1. \A x, y, z \in written : Alike(x, y) /\ Alike(y, z) => Alike(x, z)
  BY DEF Clustered
<1>2. /\ r \in ProperRows /\ e \in ProperRows /\ d \in ProperRows
      /\ r.value # 0 /\ e.value # 0 /\ d.value # 0
      /\ r.value \in Nat /\ e.value \in Nat /\ d.value \in Nat
  BY RowsAreProper DEF ProperRows
<1>3. Alike(d, e)
  BY DEF Kind
<1>4. r \in written /\ e \in written /\ d \in written
  BY <1>2 DEF NotNumeric
<1>5. Alike(e, d)
  BY <1>2, <1>3 DEF Close, NotNumeric
<1>6. (e \in Kind(identity, r) <=> Alike(r, e)) /\ (d \in Kind(identity, r) <=> Alike(r, d))
  BY <1>2 DEF Kind
<1> HIDE DEF Alike, written
<1>7. QED  BY <1>1, <1>3, <1>4, <1>5, <1>6

\* Every row of the engine is of its own kind.
LEMMA OwnKind ==
    ASSUME NEW identity, NEW r \in OracleRows
    PROVE  r \in Kind(identity, r)
<1>1. r \in ProperRows /\ r.value # 0 /\ r.value \in Nat
  BY RowsAreProper DEF ProperRows
<1>2. Close(r.value, r.value)
  BY <1>1 DEF Close, NotNumeric
<1>3. QED  BY <1>1, <1>2 DEF Kind

(***************************************************************************)
(* One step of a pairing                                                   *)
(***************************************************************************)

\* A row that finds no partner goes from the rows still to be seen to those left over.
LEMMA StepLeaves ==
    ASSUME NEW A, NEW S, NEW left \in Seq(S), NEW rest \in Seq(S), rest # << >>
    PROVE  /\ Append(left, Head(rest)) \in Seq(S)
           /\ Len(Append(left, Head(rest))) = Len(left) + 1
           /\ Count(A, Append(left, Head(rest))) + Count(A, Tail(rest))
                 = Count(A, left) + Count(A, rest)
<1>1. Head(rest) \in S /\ Tail(rest) \in Seq(S)
      /\ Count(A, rest) = (IF Head(rest) \in A THEN 1 ELSE 0) + Count(A, Tail(rest))
  BY CountTail
<1>2. Count(A, Append(left, Head(rest))) = Count(A, left) + (IF Head(rest) \in A THEN 1 ELSE 0)
  BY <1>1, CountAppend
<1>3. Count(A, left) \in Nat /\ Count(A, Tail(rest)) \in Nat
  BY <1>1, CountType
<1>4. QED  BY <1>1, <1>2, <1>3, AppendProperties

\* A row that finds one takes it out of the pool: of a set that has both or neither, as
\* many go from the rest as from the pool.
LEMMA StepPairs ==
    ASSUME NEW A, NEW S, NEW rest \in Seq(S), rest # << >>,
           NEW P, NEW pool \in Seq(P), NEW i \in 1 .. Len(pool)
    PROVE  /\ Count(A, RemoveAt(pool, i)) <= Count(A, pool)
           /\ (Head(rest) \in A <=> pool[i] \in A) =>
                 Count(A, Tail(rest)) - Count(A, RemoveAt(pool, i)) = Count(A, rest) - Count(A, pool)
<1>1. Tail(rest) \in Seq(S)
      /\ Count(A, rest) = (IF Head(rest) \in A THEN 1 ELSE 0) + Count(A, Tail(rest))
  BY CountTail
<1>2. RemoveAt(pool, i) \in Seq(P)
      /\ Count(A, pool) = (IF pool[i] \in A THEN 1 ELSE 0) + Count(A, RemoveAt(pool, i))
  BY CountRemoved
<1>3. Count(A, Tail(rest)) \in Nat /\ Count(A, RemoveAt(pool, i)) \in Nat
  BY <1>1, <1>2, CountType
<1>4. QED  BY <1>1, <1>2, <1>3

\* Of two sequences of the engine's rows, the one with no more of any kind is no longer.
LEMMA FewerOfEachKind ==
    ASSUME NEW identity, Clustered(identity), ToSet(oracle) \subseteq OracleRows,
           NEW u \in Seq(ToSet(oracle)), NEW v \in Seq(ToSet(oracle)),
           \A r \in ToSet(oracle) : Count(Kind(identity, r), u) <= Count(Kind(identity, r), v)
    PROVE  Len(u) <= Len(v)
<1> DEFINE W == ToSet(oracle)
           K(r) == Kind(identity, r)
           Exceeds(a, b) == /\ \A r \in W : Count(K(r), a) <= Count(K(r), b)
                            /\ ~(Len(a) <= Len(b))
           bad == {n \in Nat : \E a, b \in Seq(W) : Len(a) = n /\ Exceeds(a, b)}
<1>1. ASSUME NEW a \in Seq(W), NEW b \in Seq(W), Exceeds(a, b)
      PROVE  \E c, d \in Seq(W) : Len(c) = Len(a) - 1 /\ Exceeds(c, d)
  <2>1. Len(a) \in Nat /\ Len(b) \in Nat
    BY LenProperties
  <2>2. a # << >>
    BY <1>1, <2>1
  <2> DEFINE e == Head(a)
  <2>3. e \in W /\ e \in K(e)
    BY <2>2, CountTail, OwnKind
  <2>4. \A A : /\ Tail(a) \in Seq(W) /\ Len(Tail(a)) = Len(a) - 1
               /\ Count(A, a) = (IF e \in A THEN 1 ELSE 0) + Count(A, Tail(a))
               /\ Count(A, Tail(a)) \in Nat
    BY <2>2, CountTail, CountType
  <2> HIDE DEF e
  <2>5. Count(K(e), b) # 0
    <3>1. Count(K(e), a) <= Count(K(e), b)
      BY <1>1, <2>3
    <3>2. Count(K(e), a) = 1 + Count(K(e), Tail(a)) /\ Count(K(e), Tail(a)) \in Nat
      BY <2>3, <2>4
    <3>3. QED  BY <3>1, <3>2
  <2>6. PICK j \in DOMAIN b : b[j] \in K(e)
    BY <2>5, CountType
  <2>7. j \in 1 .. Len(b) /\ b[j] \in W
    BY ElementOfSeq, LenProperties
  <2>8. \A A : /\ RemoveAt(b, j) \in Seq(W) /\ Len(RemoveAt(b, j)) = Len(b) - 1
               /\ Count(A, b) = (IF b[j] \in A THEN 1 ELSE 0) + Count(A, RemoveAt(b, j))
               /\ Count(A, RemoveAt(b, j)) \in Nat
    <3> SUFFICES ASSUME NEW A
                 PROVE  /\ RemoveAt(b, j) \in Seq(W) /\ Len(RemoveAt(b, j)) = Len(b) - 1
                        /\ Count(A, b) = (IF b[j] \in A THEN 1 ELSE 0) + Count(A, RemoveAt(b, j))
                        /\ Count(A, RemoveAt(b, j)) \in Nat
      OBVIOUS
    <3> HIDE DEF W
    <3>1. /\ RemoveAt(b, j) \in Seq(W) /\ Len(RemoveAt(b, j)) = Len(b) - 1
          /\ Count(A, b) = (IF b[j] \in A THEN 1 ELSE 0) + Count(A, RemoveAt(b, j))
      BY <2>7, CountRemoved
    <3>2. Count(A, RemoveAt(b, j)) \in Nat
      BY <3>1, CountType
    <3>3. QED  BY <3>1, <3>2
  <2>9. \A r \in W : b[j] \in K(r) <=> e \in K(r)
    BY <2>3, <2>6, <2>7, SameKindOfEngine
  <2>10. ASSUME NEW r \in W
         PROVE  Count(K(r), Tail(a)) <= Count(K(r), RemoveAt(b, j))
    <3>1. Count(K(r), a) <= Count(K(r), b)
      BY <1>1
    <3>2. Count(K(r), a) = (IF e \in K(r) THEN 1 ELSE 0) + Count(K(r), Tail(a))
          /\ Count(K(r), Tail(a)) \in Nat
      BY <2>4
    <3>3. Count(K(r), b) = (IF e \in K(r) THEN 1 ELSE 0) + Count(K(r), RemoveAt(b, j))
          /\ Count(K(r), RemoveAt(b, j)) \in Nat
      BY <2>8, <2>9
    <3>4. QED  BY <3>1, <3>2, <3>3
  <2>11. ~(Len(Tail(a)) <= Len(RemoveAt(b, j)))
    BY <1>1, <2>1, <2>4, <2>8
  <2>12. QED  BY <2>4, <2>8, <2>10, <2>11
<1> HIDE DEF Exceeds
<1>2. bad = {}
  <2> SUFFICES ASSUME bad # {}  PROVE FALSE
    OBVIOUS
  <2>0. bad \subseteq Nat
    OBVIOUS
  <2>1. PICK n \in bad : \A m \in bad : n <= m
    <3> HIDE DEF bad
    <3>1. QED  BY <2>0, Smallest
  <2>2. PICK a, b \in Seq(W) : Len(a) = n /\ Exceeds(a, b)
    OBVIOUS
  <2>3. Len(a) \in Nat /\ Len(b) \in Nat
    BY LenProperties
  <2>4. n - 1 \in Nat /\ ~(n <= n - 1)
    <3>1. ~(Len(a) <= Len(b))
      BY <2>2 DEF Exceeds
    <3>2. QED  BY <2>2, <2>3, <3>1
  <2>5. \E c, d \in Seq(W) : Len(c) = n - 1 /\ Exceeds(c, d)
    BY <1>1, <2>2
  <2>6. n - 1 \in bad
    BY <2>4, <2>5
  <2>7. QED  BY <2>1, <2>4, <2>6
<1>3. QED
  <2> SUFFICES ASSUME ~(Len(u) <= Len(v))  PROVE FALSE
    OBVIOUS
  <2>1. Exceeds(u, v)
    BY DEF Exceeds
  <2>2. Len(u) \in Nat
    BY LenProperties
  <2>3. Len(u) \in bad
    BY <2>1, <2>2
  <2>4. QED  BY <1>2, <2>3

(***************************************************************************)
(* The inductive invariant                                                 *)
(***************************************************************************)

Identities == {AsWritten, InstantOf}
EngineKinds(identity) == {Kind(identity, r) : r \in ToSet(oracle)}
KeyKinds == {OfKind(k) : k \in Keys}

\* Nothing of the kind got lost: what is left over and still to be seen, less what the
\* program still has, is what the engine has, less what the program has.
Balanced(A, left, rest, pool) ==
    Count(A, left) + Count(A, rest) - Count(A, pool) = Count(A, oracle) - Count(A, rows)

\* A row is left over only when the pool has none of its kind.
Exhausts(A, left, pool) == Count(A, left) = 0 \/ Count(A, pool) = 0

Shortage(A) ==
    IF Count(A, oracle) > Count(A, rows) THEN Count(A, oracle) - Count(A, rows) ELSE 0

ScoreType ==
    /\ oracle \in Seq(OracleRows)
    /\ output \in Seq(OutputRows)
    /\ stage \in {"split", "exact", "mismatch", "near", "lenient", "end"}
    /\ rows \in Seq(ProperRows)
    /\ {todo, leftover, missing} \subseteq Seq(ToSet(oracle))
    /\ {buckets, mismatched} \subseteq Seq(ToSet(rows))
    /\ exact \in Seq({b.id : b \in ProperRows})
    /\ malformed \in Int
    /\ lenient \in Nat

SplitInv ==
    /\ stage = "split" => leftover = << >> /\ exact = << >>
    /\ stage \in {"split", "exact"} => mismatched = << >> /\ missing = << >>
    /\ stage \in {"split", "exact", "mismatch", "near"} => lenient = 0
    /\ stage # "split" => malformed = Len(output) - Len(rows)

ExactInv ==
    stage = "exact" =>
        /\ Len(exact) + Len(leftover) + Len(todo) = Len(oracle)
        /\ Len(exact) + Len(buckets) = Len(rows)
        /\ \A A \in KeyKinds : Balanced(A, leftover, todo, buckets)
        /\ \A identity \in Identities : Clustered(identity) =>
              \A A \in EngineKinds(identity) : Balanced(A, leftover, todo, buckets)
        /\ Clustered(AsWritten) =>
              \A A \in EngineKinds(AsWritten) : Exhausts(A, leftover, buckets)

AfterExact ==
    stage \notin {"split", "exact"} =>
        /\ Len(exact) + Len(leftover) = Len(oracle)
        /\ Clustered(AsWritten) =>
              \A A \in EngineKinds(AsWritten) : Count(A, leftover) = Shortage(A)
        /\ Clustered(InstantOf) =>
              \A A \in EngineKinds(InstantOf) : Shortage(A) <= Count(A, leftover)

MismatchInv ==
    stage = "mismatch" =>
        /\ Len(mismatched) + Len(missing) + Len(todo) = Len(leftover)
        /\ Len(exact) + Len(mismatched) + Len(buckets) = Len(rows)
        /\ \A A \in KeyKinds :
              Balanced(A, missing, todo, buckets) /\ Exhausts(A, missing, buckets)

AfterMismatch ==
    stage \in {"near", "lenient", "end"} =>
        /\ \A A \in KeyKinds : Count(A, missing) = Shortage(A)
        /\ extra = Len(output) - (Len(oracle) - Len(missing))

\* The rows the lenient pairing finds no partner for are not kept; u stands for them.
LenientInv ==
    stage = "lenient" =>
        \E u \in Seq(ToSet(oracle)) :
            /\ Len(u) + lenient + Len(todo) = Len(oracle)
            /\ Clustered(InstantOf) =>
                  \A A \in EngineKinds(InstantOf) :
                      Balanced(A, u, todo, buckets) /\ Exhausts(A, u, buckets)

ScoreInv ==
    /\ ScoreType /\ SplitInv /\ ExactInv /\ AfterExact
    /\ MismatchInv /\ AfterMismatch /\ LenientInv /\ LenientForgives

(***************************************************************************)
(* The steps                                                               *)
(***************************************************************************)

\* The first place that is looked for, or none
LEMMA FirstPlace ==
    ASSUME NEW n \in Nat, NEW I, I \subseteq 1 .. n
    PROVE  /\ I = {} => (IF I # {} THEN Min(I) ELSE 0) = 0
           /\ I # {} => (IF I # {} THEN Min(I) ELSE 0) \in I
<1>1. ASSUME I # {}  PROVE Min(I) \in I
  <2>1. I \subseteq Nat
    OBVIOUS
  <2>2. \E i \in I : \A j \in I : i <= j
    BY <1>1, <2>1, Smallest
  <2>3. QED  BY <2>2 DEF Min
<1>2. QED  BY <1>1

LEMMA FirstExactFinds ==
    ASSUME NEW e, NEW P, buckets \in Seq(P)
    PROVE  LET alike(b) == b.key = e.key /\ Close(e.value, b.value)
           IN  IF FirstExact(e) = 0
               THEN \A j \in 1 .. Len(buckets) : ~alike(buckets[j])
               ELSE FirstExact(e) \in 1 .. Len(buckets) /\ alike(buckets[FirstExact(e)])
<1> DEFINE I == {j \in 1 .. Len(buckets) :
                    buckets[j].key = e.key /\ Close(e.value, buckets[j].value)}
<1>1. FirstExact(e) = IF I # {} THEN Min(I) ELSE 0
  BY DEF FirstExact, SelectInSeq
<1>2. Len(buckets) \in Nat
  BY LenProperties
<1>3. IF I = {} THEN FirstExact(e) = 0 ELSE FirstExact(e) \in I
  <2> HIDE DEF I
  <2>1. I \subseteq 1 .. Len(buckets)
    BY DEF I
  <2>2. QED  BY <1>1, <1>2, <2>1, FirstPlace
<1>4. QED  BY <1>3

LEMMA FirstOfKeyFinds ==
    ASSUME NEW e, NEW P, buckets \in Seq(P)
    PROVE  IF FirstOfKey(e) = 0
           THEN \A j \in 1 .. Len(buckets) : buckets[j].key # e.key
           ELSE FirstOfKey(e) \in 1 .. Len(buckets) /\ buckets[FirstOfKey(e)].key = e.key
<1> DEFINE I == {j \in 1 .. Len(buckets) : buckets[j].key = e.key}
<1>1. FirstOfKey(e) = IF I # {} THEN Min(I) ELSE 0
  BY DEF FirstOfKey, SelectInSeq
<1>2. Len(buckets) \in Nat
  BY LenProperties
<1>3. IF I = {} THEN FirstOfKey(e) = 0 ELSE FirstOfKey(e) \in I
  <2> HIDE DEF I
  <2>1. I \subseteq 1 .. Len(buckets)
    BY DEF I
  <2>2. QED  BY <1>1, <1>2, <2>1, FirstPlace
<1>4. QED  BY <1>3

LEMMA FirstLenientFinds ==
    ASSUME NEW e, NEW P, buckets \in Seq(P)
    PROVE  LET alike(b) == InstantOf[b.key] = InstantOf[e.key] /\ Close(e.value, b.value)
           IN  IF FirstLenient(e) = 0
               THEN \A j \in 1 .. Len(buckets) : ~alike(buckets[j])
               ELSE FirstLenient(e) \in 1 .. Len(buckets) /\ alike(buckets[FirstLenient(e)])
<1> DEFINE I == {j \in 1 .. Len(buckets) :
                    InstantOf[buckets[j].key] = InstantOf[e.key] /\ Close(e.value, buckets[j].value)}
<1>1. FirstLenient(e) = IF I # {} THEN Min(I) ELSE 0
  BY DEF FirstLenient, SelectInSeq
<1>2. Len(buckets) \in Nat
  BY LenProperties
<1>3. IF I = {} THEN FirstLenient(e) = 0 ELSE FirstLenient(e) \in I
  <2> HIDE DEF I
  <2>1. I \subseteq 1 .. Len(buckets)
    BY DEF I
  <2>2. QED  BY <1>1, <1>2, <2>1, FirstPlace
<1>4. QED  BY <1>3

LEMMA FirstOfReadingFinds ==
    ASSUME NEW e, NEW P, buckets \in Seq(P), FirstOfReading(e) # 0
    PROVE  FirstOfReading(e) \in 1 .. Len(buckets)
<1> DEFINE I == {j \in 1 .. Len(buckets) :
                    ReadingOf[buckets[j].key] = ReadingOf[e.key] /\ Close(e.value, buckets[j].value)}
<1>1. FirstOfReading(e) = IF I # {} THEN Min(I) ELSE 0
  BY DEF FirstOfReading, SelectInSeq
<1>2. Len(buckets) \in Nat
  BY LenProperties
<1>3. FirstOfReading(e) \in I
  <2> HIDE DEF I
  <2>1. I \subseteq 1 .. Len(buckets)
    BY DEF I
  <2>2. QED  BY <1>1, <1>2, <2>1, FirstPlace
<1>4. QED  BY <1>3

\* What a step of a pairing keeps, of a set that has a row that is left over only when the
\* pool has none of it, and that has both rows of a pair or neither
LEMMA LeavesBalanced ==
    ASSUME NEW A, NEW S, NEW left \in Seq(S), NEW rest \in Seq(S), rest # << >>,
           NEW P, NEW pool \in Seq(P),
           Balanced(A, left, rest, pool),
           oracle \in Seq(S), rows \in Seq(P)
    PROVE  /\ Balanced(A, Append(left, Head(rest)), Tail(rest), pool)
           /\ Exhausts(A, left, pool) /\ (Head(rest) \in A => \A j \in 1 .. Len(pool) : pool[j] \notin A) =>
                 Exhausts(A, Append(left, Head(rest)), pool)
<1>1. /\ Append(left, Head(rest)) \in Seq(S) /\ Tail(rest) \in Seq(S)
      /\ Count(A, Append(left, Head(rest))) + Count(A, Tail(rest)) = Count(A, left) + Count(A, rest)
  BY StepLeaves, CountTail
<1>2. /\ Count(A, Append(left, Head(rest))) \in Nat /\ Count(A, Tail(rest)) \in Nat
      /\ Count(A, left) \in Nat /\ Count(A, rest) \in Nat /\ Count(A, pool) \in Nat
  BY <1>1, CountType
<1>3. Balanced(A, Append(left, Head(rest)), Tail(rest), pool)
  <2>1. Count(A, left) + Count(A, rest) - Count(A, pool) = Count(A, oracle) - Count(A, rows)
    BY DEF Balanced
  <2> DEFINE a == Count(A, Append(left, Head(rest)))
             b == Count(A, Tail(rest))
             c == Count(A, left)
             d == Count(A, rest)
             p == Count(A, pool)
             x == Count(A, oracle) - Count(A, rows)
  <2>2. a + b - p = x
    <3>1. a + b = c + d /\ a \in Nat /\ b \in Nat /\ c \in Nat /\ d \in Nat /\ p \in Nat
      BY <1>1, <1>2
    <3>2. c + d - p = x
      BY <2>1
    <3> HIDE DEF a, b, c, d, p, x
    <3>3. a + b - p = c + d - p
      BY <3>1
    <3>4. QED  BY <3>2, <3>3
  <2>3. QED  BY <2>2 DEF Balanced
<1>4. ASSUME Exhausts(A, left, pool), Head(rest) \in A => \A j \in 1 .. Len(pool) : pool[j] \notin A
      PROVE  Exhausts(A, Append(left, Head(rest)), pool)
  <2>1. CASE Head(rest) \in A
    <3>1. DOMAIN pool = 1 .. Len(pool)
      BY LenProperties
    <3>2. Count(A, pool) = 0
      BY <1>4, <2>1, <3>1, CountType
    <3>3. QED  BY <3>2 DEF Exhausts
  <2>2. CASE Head(rest) \notin A
    <3>1. Head(rest) \in S
      BY CountTail
    <3>2. Count(A, Append(left, Head(rest))) = Count(A, left) + 0
      BY <2>2, <3>1, CountAppend
    <3>3. QED  BY <1>2, <1>4, <3>2 DEF Exhausts
  <2>3. QED  BY <2>1, <2>2
<1>5. QED  BY <1>3, <1>4

LEMMA PairsBalanced ==
    ASSUME NEW A, NEW S, NEW left \in Seq(S), NEW rest \in Seq(S), rest # << >>,
           NEW P, NEW pool \in Seq(P), NEW i \in 1 .. Len(pool),
           Head(rest) \in A <=> pool[i] \in A,
           Balanced(A, left, rest, pool),
           oracle \in Seq(S), rows \in Seq(P)
    PROVE  /\ Balanced(A, left, Tail(rest), RemoveAt(pool, i))
           /\ Exhausts(A, left, pool) => Exhausts(A, left, RemoveAt(pool, i))
<1>1. /\ Count(A, RemoveAt(pool, i)) <= Count(A, pool)
      /\ Count(A, Tail(rest)) - Count(A, RemoveAt(pool, i)) = Count(A, rest) - Count(A, pool)
      /\ RemoveAt(pool, i) \in Seq(P) /\ Tail(rest) \in Seq(S)
  <2>1. /\ Count(A, RemoveAt(pool, i)) <= Count(A, pool)
        /\ Count(A, Tail(rest)) - Count(A, RemoveAt(pool, i)) = Count(A, rest) - Count(A, pool)
    BY StepPairs
  <2>2. RemoveAt(pool, i) \in Seq(P)
    BY CountRemoved
  <2>3. Tail(rest) \in Seq(S)
    BY CountTail
  <2>4. QED  BY <2>1, <2>2, <2>3
<1>2. /\ Count(A, RemoveAt(pool, i)) \in Nat /\ Count(A, Tail(rest)) \in Nat
      /\ Count(A, left) \in Nat /\ Count(A, rest) \in Nat /\ Count(A, pool) \in Nat
      /\ Count(A, oracle) \in Nat /\ Count(A, rows) \in Nat
  BY <1>1, CountType
<1>3. Balanced(A, left, Tail(rest), RemoveAt(pool, i))
  <2>1. Count(A, left) + Count(A, rest) - Count(A, pool) = Count(A, oracle) - Count(A, rows)
    BY DEF Balanced
  <2>2. Count(A, left) + Count(A, Tail(rest)) - Count(A, RemoveAt(pool, i))
           = Count(A, left) + Count(A, rest) - Count(A, pool)
    BY <1>1, <1>2
  <2>3. QED  BY <2>1, <2>2 DEF Balanced
<1>4. ASSUME Exhausts(A, left, pool)  PROVE Exhausts(A, left, RemoveAt(pool, i))
  <2>1. Count(A, pool) = 0 => Count(A, RemoveAt(pool, i)) = 0
    BY <1>1, <1>2
  <2>2. QED  BY <1>4, <2>1 DEF Exhausts
<1>5. QED  BY <1>3, <1>4

LEMMA OwnRows ==
    ASSUME NEW S, NEW s \in Seq(S)
    PROVE  ToSet(s) \subseteq S /\ s \in Seq(ToSet(s))
<1>1. Len(s) \in Nat /\ DOMAIN s = 1 .. Len(s) /\ \A i \in 1 .. Len(s) : s[i] \in S
  BY LenProperties, ElementOfSeq
<1>2. ToSet(s) \subseteq S /\ \A i \in 1 .. Len(s) : s[i] \in ToSet(s)
  BY <1>1 DEF ToSet
<1>3. QED  BY <1>1, <1>2

LEMMA InputTypes ==
    ASSUME ScoreType
    PROVE  /\ ToSet(oracle) \subseteq OracleRows /\ oracle \in Seq(ToSet(oracle))
           /\ ToSet(rows) \subseteq ProperRows /\ rows \in Seq(ToSet(rows))
BY OwnRows DEF ScoreType

\* If a row of the engine finds none of its kind, its kinds are all used up.
LEMMA NoneLeft ==
    ASSUME NEW identity, Clustered(identity), NEW A \in EngineKinds(identity),
           ToSet(oracle) \subseteq OracleRows, ToSet(rows) \subseteq ProperRows,
           NEW e \in ToSet(oracle), e \in A, NEW b \in ToSet(rows), b \notin Kind(identity, e)
    PROVE  b \notin A
<1> SUFFICES ASSUME b \in A  PROVE FALSE
  OBVIOUS
<1>1. PICK r \in ToSet(oracle) : A = Kind(identity, r)
  BY DEF EngineKinds
<1> DEFINE Alike(x, y) == identity[x.key] = identity[y.key] /\ Close(x.value, y.value)
           written == {x \in ToSet(oracle) \cup ToSet(rows) : x.value # NotNumeric}
<1>2. \A x, y, z \in written : Alike(x, y) /\ Alike(y, z) => Alike(x, z)
  BY DEF Clustered
<1>3. /\ r \in ProperRows /\ e \in ProperRows /\ b \in ProperRows
      /\ r.value # 0 /\ e.value # 0
      /\ r.value \in Nat /\ e.value \in Nat /\ b.value \in Nat
  BY RowsAreProper DEF ProperRows
<1>4. Alike(r, e) /\ Alike(r, b) /\ b.value # 0
  BY <1>1 DEF Kind, Close, NotNumeric
<1>5. r \in written /\ e \in written /\ b \in written
  BY <1>3, <1>4 DEF NotNumeric
<1>6. Alike(e, r)
  BY <1>3, <1>4 DEF Close, NotNumeric
<1>7. ~Alike(e, b)
  BY <1>3 DEF Kind
<1> HIDE DEF Alike, written
<1>8. QED  BY <1>2, <1>4, <1>5, <1>6, <1>7

LEMMA BothOrNeither ==
    ASSUME NEW identity, Clustered(identity), NEW A \in EngineKinds(identity),
           ToSet(oracle) \subseteq OracleRows, ToSet(rows) \subseteq ProperRows,
           NEW e \in ToSet(oracle), NEW b \in ToSet(rows), b \in Kind(identity, e)
    PROVE  e \in A <=> b \in A
BY SameKind DEF EngineKinds

LEMMA KeyKind ==
    ASSUME NEW A \in KeyKinds, NEW e \in ProperRows, NEW b \in ProperRows
    PROVE  /\ b.key = e.key => (e \in A <=> b \in A)
           /\ e \in A /\ b.key # e.key => b \notin A
BY DEF KeyKinds, OfKind

LEMMA InitInv == ScoreInit => ScoreInv
<1> SUFFICES ASSUME ScoreInit  PROVE ScoreInv
  OBVIOUS
<1>1. oracle \in Seq(OracleRows) /\ output \in Seq(OutputRows)
  BY DEF ScoreInit
<1>2. ScoreType
  BY <1>1 DEF ScoreInit, ScoreType
<1>3. QED
  BY <1>2 DEF ScoreInit, ScoreInv, SplitInv, ExactInv, AfterExact, MismatchInv, AfterMismatch,
              LenientInv, LenientForgives

LEMMA SplitKeeps == ScoreInv /\ Split => ScoreInv'
<1> SUFFICES ASSUME ScoreInv, Split  PROVE ScoreInv'
  OBVIOUS
<1> USE DEF Split, inputs
<1>1. ScoreType /\ SplitInv /\ stage = "split" /\ stage' = "exact"
  BY DEF ScoreInv
<1>2. rows' \in Seq(ProperRows)
  BY <1>1, WellFormedType DEF ScoreType
<1>3. rows' \in Seq(ToSet(rows'))
  BY <1>2, OwnRows
<1>4. oracle \in Seq(ToSet(oracle))
  BY <1>1, InputTypes
<1>5. leftover = << >> /\ exact = << >> /\ mismatched = << >> /\ missing = << >> /\ lenient = 0
  BY <1>1 DEF SplitInv
<1>6. Len(oracle) \in Nat /\ Len(rows') \in Nat /\ Len(output) \in Nat
  BY <1>1, <1>2, LenProperties DEF ScoreType
<1>7. ScoreType'
  BY <1>1, <1>2, <1>3, <1>4, <1>5, <1>6 DEF ScoreType
<1>8. SplitInv'
  BY <1>1, <1>5 DEF SplitInv
<1>9. \A A : Balanced(A, leftover, todo, buckets)' /\ Exhausts(A, leftover, buckets)'
  <2> SUFFICES ASSUME NEW A
               PROVE  Balanced(A, leftover, todo, buckets)' /\ Exhausts(A, leftover, buckets)'
    OBVIOUS
  <2>1. Count(A, leftover') = 0
    BY <1>5, CountNone
  <2>2. Count(A, oracle) \in Nat /\ Count(A, rows') \in Nat
    BY <1>1, <1>2, CountType DEF ScoreType
  <2>3. QED  BY <2>1, <2>2 DEF Balanced, Exhausts
<1>10. ExactInv'
  <2>1. Len(leftover') = 0 /\ Len(exact') = 0
    BY <1>5
  <2>2. QED  BY <1>6, <1>9, <2>1 DEF ExactInv
<1>11. QED
  BY <1>1, <1>7, <1>8, <1>10
     DEF ScoreInv, AfterExact, MismatchInv, AfterMismatch, LenientInv, LenientForgives

\* The properties' conditions are about the inputs alone.
LEMMA InputsStay ==
    ASSUME oracle' = oracle, rows' = rows
    PROVE  /\ \A identity : Clustered(identity)' <=> Clustered(identity)
           /\ \A identity : EngineKinds(identity)' = EngineKinds(identity)
           /\ \A A : Shortage(A)' = Shortage(A)
BY DEF Clustered, EngineKinds, Shortage

LEMMA PairExactKeeps == ScoreInv /\ PairExact => ScoreInv'
<1> SUFFICES ASSUME ScoreInv, PairExact  PROVE ScoreInv'
  OBVIOUS
<1> DEFINE e == Head(todo)
           i == FirstExact(e)
           W == ToSet(oracle)
           P == ToSet(rows)
<1>1. /\ ScoreType /\ SplitInv /\ ExactInv /\ stage = "exact" /\ stage' = "exact"
      /\ oracle' = oracle /\ rows' = rows /\ output' = output /\ todo # << >> /\ todo' = Tail(todo)
      /\ UNCHANGED <<malformed, mismatched, missing, extra, near, lenient>>
  BY DEF ScoreInv, PairExact, inputs
<1>2. /\ W \subseteq OracleRows /\ oracle \in Seq(W)
      /\ P \subseteq ProperRows /\ rows \in Seq(P)
  BY <1>1, InputTypes
<1>3. /\ todo \in Seq(W) /\ leftover \in Seq(W) /\ buckets \in Seq(P)
      /\ exact \in Seq({b.id : b \in ProperRows})
  BY <1>1 DEF ScoreType
<1>4. e \in W /\ Tail(todo) \in Seq(W) /\ Len(Tail(todo)) = Len(todo) - 1
  BY <1>1, <1>3, CountTail
<1>5. e \in ProperRows /\ e \in OracleRows
  BY <1>2, <1>4, RowsAreProper
<1>6. \A j \in 1 .. Len(buckets) : buckets[j] \in P /\ buckets[j] \in ProperRows
  BY <1>2, <1>3, ElementOfSeq
<1>7. /\ Len(todo) \in Nat /\ Len(leftover) \in Nat /\ Len(buckets) \in Nat /\ Len(exact) \in Nat
      /\ Len(oracle) \in Nat /\ Len(rows) \in Nat
      /\ Len(exact) + Len(leftover) + Len(todo) = Len(oracle)
      /\ Len(exact) + Len(buckets) = Len(rows)
  BY <1>1, <1>2, <1>3, LenProperties DEF ExactInv
<1>8. /\ \A A \in KeyKinds : Balanced(A, leftover, todo, buckets)
      /\ \A identity \in Identities : Clustered(identity) =>
            \A A \in EngineKinds(identity) : Balanced(A, leftover, todo, buckets)
      /\ Clustered(AsWritten) =>
            \A A \in EngineKinds(AsWritten) : Exhausts(A, leftover, buckets)
  BY <1>1 DEF ExactInv
<1>9. ASSUME NEW b \in ProperRows
      PROVE  /\ b.key = e.key /\ Close(e.value, b.value) <=> b \in Kind(AsWritten, e)
             /\ b.key = e.key /\ Close(e.value, b.value) => b \in Kind(InstantOf, e)
  BY <1>5 DEF Kind, AsWritten, ProperRows
<1>10. SplitInv'
  BY <1>1 DEF SplitInv
<1>11. /\ AfterExact' /\ MismatchInv' /\ AfterMismatch' /\ LenientInv' /\ LenientForgives'
  BY <1>1 DEF AfterExact, MismatchInv, AfterMismatch, LenientInv, LenientForgives
<1>12. CASE i = 0
  <2>1. leftover' = Append(leftover, e) /\ buckets' = buckets /\ exact' = exact
    BY <1>12 DEF PairExact
  <2>2. leftover' \in Seq(W) /\ Len(leftover') = Len(leftover) + 1
    BY <1>3, <1>4, <2>1, AppendProperties
  <2>3. ScoreType'
    BY <1>1, <1>4, <2>1, <2>2 DEF ScoreType
  <2>4. ASSUME NEW A, Balanced(A, leftover, todo, buckets)
        PROVE  Balanced(A, leftover, todo, buckets)'
    <3>1. Balanced(A, Append(leftover, e), Tail(todo), buckets)
      BY <1>1, <1>2, <1>3, <2>4, LeavesBalanced
    <3>2. QED  BY <1>1, <2>1, <3>1 DEF Balanced
  <2>5. ASSUME Clustered(AsWritten), NEW A \in EngineKinds(AsWritten)
        PROVE  Exhausts(A, leftover, buckets)'
    <3>1. \A j \in 1 .. Len(buckets) : buckets[j] \notin Kind(AsWritten, e)
      BY <1>3, <1>6, <1>9, <1>12, FirstExactFinds
    <3>2. ASSUME e \in A, NEW j \in 1 .. Len(buckets)  PROVE buckets[j] \notin A
      BY <1>2, <1>4, <1>6, <2>5, <3>1, <3>2, NoneLeft
    <3>3. Balanced(A, leftover, todo, buckets) /\ Exhausts(A, leftover, buckets)
      BY <1>8, <2>5 DEF Identities
    <3>4. Exhausts(A, Append(leftover, e), buckets)
      BY <1>1, <1>2, <1>3, <3>2, <3>3, LeavesBalanced
    <3>5. QED  BY <2>1, <3>4 DEF Exhausts
  <2>6. /\ Len(exact') + Len(leftover') + Len(todo') = Len(oracle')
        /\ Len(exact') + Len(buckets') = Len(rows')
    BY <1>1, <1>4, <1>7, <2>1, <2>2
  <2>7. ExactInv'
    BY <1>1, <1>8, <2>4, <2>5, <2>6, InputsStay DEF ExactInv
  <2>8. QED  BY <1>10, <1>11, <2>3, <2>7 DEF ScoreInv
<1>13. CASE i # 0
  <2>1. i \in 1 .. Len(buckets) /\ buckets[i].key = e.key /\ Close(e.value, buckets[i].value)
    BY <1>3, <1>13, FirstExactFinds
  <2>2. leftover' = leftover /\ buckets' = RemoveAt(buckets, i) /\ exact' = Append(exact, buckets[i].id)
    BY <1>13 DEF PairExact, Pop
  <2> HIDE DEF i
  <2>3. buckets' \in Seq(P) /\ Len(buckets') = Len(buckets) - 1
    BY <1>3, <2>1, <2>2, CountRemoved
  <2>4. exact' \in Seq({b.id : b \in ProperRows}) /\ Len(exact') = Len(exact) + 1
    BY <1>3, <1>6, <2>1, <2>2, AppendProperties
  <2>5. ScoreType'
    BY <1>1, <1>3, <1>4, <2>2, <2>3, <2>4 DEF ScoreType
  <2>6. ASSUME NEW A, Balanced(A, leftover, todo, buckets), e \in A <=> buckets[i] \in A
        PROVE  /\ Balanced(A, leftover, todo, buckets)'
               /\ Exhausts(A, leftover, buckets) => Exhausts(A, leftover, buckets)'
    <3>1. /\ Balanced(A, leftover, Tail(todo), RemoveAt(buckets, i))
          /\ Exhausts(A, leftover, buckets) => Exhausts(A, leftover, RemoveAt(buckets, i))
      BY <1>1, <1>2, <1>3, <2>1, <2>6, PairsBalanced
    <3>2. QED  BY <1>1, <2>2, <3>1 DEF Balanced, Exhausts
  <2>7. buckets[i] \in P /\ buckets[i] \in ProperRows
    BY <1>6, <2>1
  <2>8. ASSUME NEW A \in KeyKinds  PROVE e \in A <=> buckets[i] \in A
    BY <1>5, <2>1, <2>7, KeyKind
  <2>9. ASSUME NEW identity \in Identities, Clustered(identity), NEW A \in EngineKinds(identity)
        PROVE  e \in A <=> buckets[i] \in A
    <3>1. buckets[i] \in Kind(identity, e)
      BY <1>9, <2>1, <2>7 DEF Identities
    <3>2. QED  BY <1>2, <1>4, <2>7, <2>9, <3>1, BothOrNeither
  <2>10. /\ Len(exact') + Len(leftover') + Len(todo') = Len(oracle')
         /\ Len(exact') + Len(buckets') = Len(rows')
    <3>1. (Len(exact) + 1) + Len(leftover) + (Len(todo) - 1) = Len(oracle)
      BY <1>7
    <3>2. (Len(exact) + 1) + (Len(buckets) - 1) = Len(rows)
      BY <1>7
    <3>3. Len(exact') = Len(exact) + 1 /\ Len(buckets') = Len(buckets) - 1
          /\ Len(todo') = Len(todo) - 1 /\ Len(leftover') = Len(leftover)
          /\ Len(oracle') = Len(oracle) /\ Len(rows') = Len(rows)
      BY <1>1, <1>4, <2>2, <2>3, <2>4
    <3>4. QED  BY <3>1, <3>2, <3>3
  <2>11. \A A \in KeyKinds : Balanced(A, leftover, todo, buckets)'
    BY <1>8, <2>6, <2>8
  <2>12. \A identity \in Identities : Clustered(identity) =>
            \A A \in EngineKinds(identity) : Balanced(A, leftover, todo, buckets)'
    BY <1>8, <2>6, <2>9
  <2>13. Clustered(AsWritten) =>
            \A A \in EngineKinds(AsWritten) : Exhausts(A, leftover, buckets)'
    BY <1>8, <2>6, <2>9 DEF Identities
  <2>14. ExactInv'
    BY <1>1, <2>10, <2>11, <2>12, <2>13, InputsStay DEF ExactInv
  <2>15. QED  BY <1>10, <1>11, <2>5, <2>14 DEF ScoreInv
<1>14. QED  BY <1>12, <1>13

\* What a pairing has left over when all rows are seen
LEMMA NoRestLeft ==
    ASSUME NEW A, NEW S, NEW left \in Seq(S), NEW P, NEW pool \in Seq(P),
           oracle \in Seq(S), rows \in Seq(P), Balanced(A, left, << >>, pool)
    PROVE  /\ Shortage(A) <= Count(A, left)
           /\ Exhausts(A, left, pool) => Count(A, left) = Shortage(A)
<1> DEFINE l == Count(A, left)
           p == Count(A, pool)
           o == Count(A, oracle)
           r == Count(A, rows)
<1>1. l \in Nat /\ p \in Nat /\ o \in Nat /\ r \in Nat
  BY CountType
<1>2. l + 0 - p = o - r
  BY CountNone DEF Balanced
<1>3. Shortage(A) = IF o > r THEN o - r ELSE 0
  BY DEF Shortage
<1>4. Exhausts(A, left, pool) => l = 0 \/ p = 0
  BY DEF Exhausts
<1> HIDE DEF l, p, o, r
<1>5. (IF o > r THEN o - r ELSE 0) <= l
  BY <1>1, <1>2
<1>6. l = 0 \/ p = 0 => l = IF o > r THEN o - r ELSE 0
  BY <1>1, <1>2
<1>7. QED  BY <1>3, <1>4, <1>5, <1>6 DEF l

LEMMA EndExactKeeps == ScoreInv /\ EndExact => ScoreInv'
<1> SUFFICES ASSUME ScoreInv, EndExact  PROVE ScoreInv'
  OBVIOUS
<1> DEFINE W == ToSet(oracle)
           P == ToSet(rows)
<1>1. /\ ScoreType /\ SplitInv /\ ExactInv /\ stage = "exact" /\ stage' = "mismatch"
      /\ oracle' = oracle /\ rows' = rows /\ output' = output /\ todo = << >> /\ todo' = leftover
      /\ UNCHANGED <<malformed, buckets, leftover, exact, mismatched, missing, extra, near, lenient>>
  BY DEF ScoreInv, EndExact, inputs, score
<1>2. /\ W \subseteq OracleRows /\ oracle \in Seq(W)
      /\ P \subseteq ProperRows /\ rows \in Seq(P)
  BY <1>1, InputTypes
<1>3. /\ leftover \in Seq(W) /\ buckets \in Seq(P) /\ exact \in Seq({b.id : b \in ProperRows})
      /\ mismatched = << >> /\ missing = << >>
  BY <1>1 DEF ScoreType, SplitInv
<1>4. ScoreType'
  BY <1>1, <1>3 DEF ScoreType
<1>5. SplitInv' /\ ExactInv' /\ AfterMismatch' /\ LenientInv' /\ LenientForgives'
  BY <1>1 DEF SplitInv, ExactInv, AfterMismatch, LenientInv, LenientForgives
<1>6. /\ Len(exact) \in Nat /\ Len(leftover) \in Nat /\ Len(buckets) \in Nat
      /\ Len(exact) + Len(leftover) + Len(todo) = Len(oracle) /\ Len(exact) + Len(buckets) = Len(rows)
      /\ Len(todo) = 0 /\ Len(mismatched) = 0 /\ Len(missing) = 0
  BY <1>1, <1>3, LenProperties DEF ExactInv
<1>7. Len(exact) + Len(leftover) = Len(oracle)
  BY <1>6
<1>8. AfterExact'
  <2>1. ASSUME Clustered(AsWritten), NEW A \in EngineKinds(AsWritten)
        PROVE  Count(A, leftover) = Shortage(A)
    <3>1. Balanced(A, leftover, << >>, buckets) /\ Exhausts(A, leftover, buckets)
      BY <1>1, <2>1 DEF ExactInv, Identities
    <3>2. QED  BY <1>2, <1>3, <3>1, NoRestLeft
  <2>2. ASSUME Clustered(InstantOf), NEW A \in EngineKinds(InstantOf)
        PROVE  Shortage(A) <= Count(A, leftover)
    <3>1. Balanced(A, leftover, << >>, buckets)
      BY <1>1, <2>2 DEF ExactInv, Identities
    <3>2. QED  BY <1>2, <1>3, <3>1, NoRestLeft
  <2>3. QED  BY <1>1, <1>7, <2>1, <2>2, InputsStay DEF AfterExact
<1>9. MismatchInv'
  <2>1. ASSUME NEW A \in KeyKinds
        PROVE  Balanced(A, missing, todo, buckets)' /\ Exhausts(A, missing, buckets)'
    <3>1. Balanced(A, leftover, << >>, buckets)
      BY <1>1, <2>1 DEF ExactInv
    <3>2. Count(A, missing) = 0 /\ Count(A, << >>) = 0
      BY <1>3, CountNone
    <3>3. Count(A, leftover) \in Nat /\ Count(A, buckets) \in Nat
      BY <1>2, <1>3, CountType
    <3>4. Balanced(A, missing, leftover, buckets)
      <4> DEFINE l == Count(A, leftover)
                 p == Count(A, buckets)
                 x == Count(A, oracle) - Count(A, rows)
      <4>1. l + 0 - p = x
        BY <3>1, <3>2 DEF Balanced
      <4>2. l \in Nat /\ p \in Nat
        BY <3>3
      <4> HIDE DEF l, p, x
      <4>3. 0 + l - p = x
        BY <4>1, <4>2
      <4>4. QED  BY <3>2, <4>3 DEF Balanced, l, p, x
    <3>5. QED  BY <1>1, <3>2, <3>4 DEF Balanced, Exhausts
  <2>2. /\ Len(mismatched') + Len(missing') + Len(todo') = Len(leftover')
        /\ Len(exact') + Len(mismatched') + Len(buckets') = Len(rows')
    <3>1. 0 + 0 + Len(leftover) = Len(leftover) /\ Len(exact) + 0 + Len(buckets) = Len(rows)
      BY <1>6
    <3>2. QED  BY <1>1, <1>6, <3>1
  <2>3. QED  BY <2>1, <2>2 DEF MismatchInv
<1>10. QED  BY <1>4, <1>5, <1>8, <1>9 DEF ScoreInv

LEMMA PairMismatchedKeeps == ScoreInv /\ PairMismatched => ScoreInv'
<1> SUFFICES ASSUME ScoreInv, PairMismatched  PROVE ScoreInv'
  OBVIOUS
<1> DEFINE e == Head(todo)
           i == FirstOfKey(e)
           W == ToSet(oracle)
           P == ToSet(rows)
<1>1. /\ ScoreType /\ SplitInv /\ AfterExact /\ MismatchInv
      /\ stage = "mismatch" /\ stage' = "mismatch"
      /\ oracle' = oracle /\ rows' = rows /\ output' = output /\ todo # << >> /\ todo' = Tail(todo)
      /\ UNCHANGED <<malformed, exact, leftover, extra, near, lenient>>
  BY DEF ScoreInv, PairMismatched, inputs
<1>2. /\ W \subseteq OracleRows /\ oracle \in Seq(W)
      /\ P \subseteq ProperRows /\ rows \in Seq(P)
  BY <1>1, InputTypes
<1>3. /\ todo \in Seq(W) /\ missing \in Seq(W) /\ leftover \in Seq(W)
      /\ buckets \in Seq(P) /\ mismatched \in Seq(P)
      /\ exact \in Seq({b.id : b \in ProperRows})
  BY <1>1 DEF ScoreType
<1>4. e \in W /\ Tail(todo) \in Seq(W) /\ Len(Tail(todo)) = Len(todo) - 1
  BY <1>1, <1>3, CountTail
<1>5. e \in ProperRows
  BY <1>2, <1>4, RowsAreProper
<1>6. \A j \in 1 .. Len(buckets) : buckets[j] \in P /\ buckets[j] \in ProperRows
  BY <1>2, <1>3, ElementOfSeq
<1>7. /\ Len(todo) \in Nat /\ Len(missing) \in Nat /\ Len(buckets) \in Nat
      /\ Len(mismatched) \in Nat /\ Len(exact) \in Nat
  BY <1>3, LenProperties
<1>8. /\ Len(mismatched) + Len(missing) + Len(todo) = Len(leftover)
      /\ Len(exact) + Len(mismatched) + Len(buckets) = Len(rows)
  BY <1>1 DEF MismatchInv
<1>9. \A A \in KeyKinds : Balanced(A, missing, todo, buckets) /\ Exhausts(A, missing, buckets)
  BY <1>1 DEF MismatchInv
<1>10. SplitInv' /\ ExactInv' /\ AfterMismatch' /\ LenientInv' /\ LenientForgives'
  BY <1>1 DEF SplitInv, ExactInv, AfterMismatch, LenientInv, LenientForgives
<1>11. AfterExact'
  BY <1>1, InputsStay DEF AfterExact
<1>12. CASE i = 0
  <2>1. missing' = Append(missing, e) /\ buckets' = buckets /\ mismatched' = mismatched
    BY <1>12 DEF PairMismatched
  <2>2. missing' \in Seq(W) /\ Len(missing') = Len(missing) + 1
    BY <1>3, <1>4, <2>1, AppendProperties
  <2>3. ScoreType'
    BY <1>1, <1>4, <2>1, <2>2 DEF ScoreType
  <2>4. ASSUME NEW A \in KeyKinds
        PROVE  Balanced(A, missing, todo, buckets)' /\ Exhausts(A, missing, buckets)'
    <3>1. \A j \in 1 .. Len(buckets) : buckets[j].key # e.key
      BY <1>3, <1>12, FirstOfKeyFinds
    <3>2. e \in A => \A j \in 1 .. Len(buckets) : buckets[j] \notin A
      BY <1>5, <1>6, <3>1, KeyKind
    <3>3. Balanced(A, missing, todo, buckets) /\ Exhausts(A, missing, buckets)
      BY <1>9
    <3>4. /\ Balanced(A, Append(missing, e), Tail(todo), buckets)
          /\ Exhausts(A, Append(missing, e), buckets)
      BY <1>1, <1>2, <1>3, <3>2, <3>3, LeavesBalanced
    <3>5. QED  BY <1>1, <2>1, <3>4 DEF Balanced, Exhausts
  <2>5. /\ Len(mismatched') + Len(missing') + Len(todo') = Len(leftover')
        /\ Len(exact') + Len(mismatched') + Len(buckets') = Len(rows')
    <3>1. Len(mismatched) + (Len(missing) + 1) + (Len(todo) - 1) = Len(leftover)
      BY <1>7, <1>8
    <3>2. QED  BY <1>1, <1>4, <1>8, <2>1, <2>2, <3>1
  <2>6. MismatchInv'
    BY <2>4, <2>5 DEF MismatchInv, KeyKinds
  <2>7. QED  BY <1>10, <1>11, <2>3, <2>6 DEF ScoreInv
<1>13. CASE i # 0
  <2>1. i \in 1 .. Len(buckets) /\ buckets[i].key = e.key
    BY <1>3, <1>13, FirstOfKeyFinds
  <2>2. /\ missing' = missing /\ buckets' = RemoveAt(buckets, i)
        /\ mismatched' = Append(mismatched, buckets[i])
    BY <1>13 DEF PairMismatched, Pop
  <2> HIDE DEF i
  <2>3. buckets[i] \in P /\ buckets[i] \in ProperRows
    BY <1>6, <2>1
  <2>4. buckets' \in Seq(P) /\ Len(buckets') = Len(buckets) - 1
    BY <1>3, <2>1, <2>2, CountRemoved
  <2>5. mismatched' \in Seq(P) /\ Len(mismatched') = Len(mismatched) + 1
    BY <1>3, <2>2, <2>3, AppendProperties
  <2>6. ScoreType'
    BY <1>1, <1>3, <1>4, <2>2, <2>4, <2>5 DEF ScoreType
  <2>7. ASSUME NEW A \in KeyKinds
        PROVE  Balanced(A, missing, todo, buckets)' /\ Exhausts(A, missing, buckets)'
    <3>1. e \in A <=> buckets[i] \in A
      BY <1>5, <2>1, <2>3, KeyKind
    <3>2. Balanced(A, missing, todo, buckets) /\ Exhausts(A, missing, buckets)
      BY <1>9
    <3>3. /\ Balanced(A, missing, Tail(todo), RemoveAt(buckets, i))
          /\ Exhausts(A, missing, RemoveAt(buckets, i))
      BY <1>1, <1>2, <1>3, <2>1, <3>1, <3>2, PairsBalanced
    <3>4. QED  BY <1>1, <2>2, <3>3 DEF Balanced, Exhausts
  <2>8. /\ Len(mismatched') + Len(missing') + Len(todo') = Len(leftover')
        /\ Len(exact') + Len(mismatched') + Len(buckets') = Len(rows')
    <3>1. (Len(mismatched) + 1) + Len(missing) + (Len(todo) - 1) = Len(leftover)
      BY <1>7, <1>8
    <3>2. Len(exact) + (Len(mismatched) + 1) + (Len(buckets) - 1) = Len(rows)
      BY <1>7, <1>8
    <3>3. /\ Len(mismatched') = Len(mismatched) + 1 /\ Len(missing') = Len(missing)
          /\ Len(todo') = Len(todo) - 1 /\ Len(leftover') = Len(leftover)
          /\ Len(exact') = Len(exact) /\ Len(buckets') = Len(buckets) - 1 /\ Len(rows') = Len(rows)
      BY <1>1, <1>4, <2>2, <2>4, <2>5
    <3>4. QED  BY <3>1, <3>2, <3>3
  <2>9. MismatchInv'
    BY <2>7, <2>8 DEF MismatchInv, KeyKinds
  <2>10. QED  BY <1>10, <1>11, <2>6, <2>9 DEF ScoreInv
<1>14. QED  BY <1>12, <1>13

LEMMA EndMismatchedKeeps == ScoreInv /\ EndMismatched => ScoreInv'
<1> SUFFICES ASSUME ScoreInv, EndMismatched  PROVE ScoreInv'
  OBVIOUS
<1> DEFINE W == ToSet(oracle)
           P == ToSet(rows)
<1>1. /\ ScoreType /\ SplitInv /\ AfterExact /\ MismatchInv
      /\ stage = "mismatch" /\ stage' = "near" /\ todo = << >> /\ todo' = missing
      /\ extra' = Len(buckets) + malformed /\ buckets' = buckets \o mismatched
      /\ oracle' = oracle /\ rows' = rows /\ output' = output
      /\ UNCHANGED <<malformed, exact, leftover, missing, mismatched, near, lenient>>
  BY DEF ScoreInv, EndMismatched, inputs
<1>2. /\ W \subseteq OracleRows /\ oracle \in Seq(W)
      /\ P \subseteq ProperRows /\ rows \in Seq(P)
  BY <1>1, InputTypes
<1>3. /\ missing \in Seq(W) /\ leftover \in Seq(W)
      /\ buckets \in Seq(P) /\ mismatched \in Seq(P) /\ output \in Seq(OutputRows)
      /\ exact \in Seq({b.id : b \in ProperRows}) /\ malformed \in Int
  BY <1>1 DEF ScoreType
<1>4. /\ Len(missing) \in Nat /\ Len(buckets) \in Nat /\ Len(mismatched) \in Nat
      /\ Len(exact) \in Nat /\ Len(leftover) \in Nat /\ Len(oracle) \in Nat
      /\ Len(rows) \in Nat /\ Len(output) \in Nat
  BY <1>2, <1>3, LenProperties
<1>5. buckets \o mismatched \in Seq(P)
  BY <1>3, ConcatProperties
<1>6. ScoreType'
  BY <1>1, <1>3, <1>5 DEF ScoreType
<1>7. SplitInv' /\ ExactInv' /\ MismatchInv' /\ LenientInv' /\ LenientForgives'
  BY <1>1 DEF SplitInv, ExactInv, MismatchInv, LenientInv, LenientForgives
<1>8. AfterExact'
  BY <1>1, InputsStay DEF AfterExact
<1>9. AfterMismatch'
  <2>1. ASSUME NEW A \in KeyKinds  PROVE Count(A, missing) = Shortage(A)
    <3>1. Balanced(A, missing, << >>, buckets) /\ Exhausts(A, missing, buckets)
      BY <1>1, <2>1 DEF MismatchInv
    <3>2. QED  BY <1>2, <1>3, <3>1, NoRestLeft
  <2>2. Len(buckets) + malformed = Len(output) - (Len(oracle) - Len(missing))
    <3>1. Len(mismatched) + Len(missing) + 0 = Len(leftover)
      BY <1>1 DEF MismatchInv
    <3>2. Len(exact) + Len(mismatched) + Len(buckets) = Len(rows)
      BY <1>1 DEF MismatchInv
    <3>3. Len(exact) + Len(leftover) = Len(oracle) /\ malformed = Len(output) - Len(rows)
      BY <1>1 DEF AfterExact, SplitInv
    <3> DEFINE m == Len(mismatched)
               s == Len(missing)
               b == Len(buckets)
               x == Len(exact)
               l == Len(leftover)
               o == Len(oracle)
               r == Len(rows)
               n == Len(output)
    <3>4. /\ m \in Nat /\ s \in Nat /\ b \in Nat /\ x \in Nat
          /\ l \in Nat /\ o \in Nat /\ r \in Nat /\ n \in Nat
      BY <1>4
    <3> HIDE DEF m, s, b, x, l, o, r, n
    <3>5. b + malformed = n - (o - s)
      BY <3>1, <3>2, <3>3, <3>4 DEF m, s, b, x, l, o, r, n
    <3>6. QED  BY <3>5 DEF s, b, o, n
  <2>3. QED  BY <1>1, <2>1, <2>2, InputsStay DEF AfterMismatch, KeyKinds
<1>10. QED  BY <1>6, <1>7, <1>8, <1>9 DEF ScoreInv

LEMMA PairNearKeeps == ScoreInv /\ PairNear => ScoreInv'
<1> SUFFICES ASSUME ScoreInv, PairNear  PROVE ScoreInv'
  OBVIOUS
<1> DEFINE W == ToSet(oracle)
           P == ToSet(rows)
           i == FirstOfReading(Head(todo))
<1>1. /\ ScoreType /\ SplitInv /\ AfterExact /\ AfterMismatch
      /\ stage = "near" /\ stage' = "near" /\ todo # << >> /\ todo' = Tail(todo)
      /\ oracle' = oracle /\ rows' = rows /\ output' = output
      /\ UNCHANGED <<malformed, exact, leftover, missing, mismatched, extra, lenient>>
  BY DEF ScoreInv, PairNear, inputs
<1>2. todo \in Seq(W) /\ buckets \in Seq(P)
  BY <1>1 DEF ScoreType
<1>3. Tail(todo) \in Seq(W)
  BY <1>1, <1>2, CountTail
<1>4. buckets' \in Seq(P)
  <2>1. CASE i = 0
    BY <1>2, <2>1 DEF PairNear
  <2>2. CASE i # 0
    <3>1. buckets' = RemoveAt(buckets, i)
      BY <2>2 DEF PairNear, Pop
    <3>2. i \in 1 .. Len(buckets)
      BY <1>2, <2>2, FirstOfReadingFinds
    <3>3. QED  BY <1>2, <3>1, <3>2, CountRemoved
  <2>3. QED  BY <2>1, <2>2
<1>5. ScoreType'
  BY <1>1, <1>3, <1>4 DEF ScoreType
<1>6. SplitInv' /\ ExactInv' /\ MismatchInv' /\ LenientInv' /\ LenientForgives'
  BY <1>1 DEF SplitInv, ExactInv, MismatchInv, LenientInv, LenientForgives
<1>7. AfterExact' /\ AfterMismatch'
  BY <1>1, InputsStay DEF AfterExact, AfterMismatch, KeyKinds
<1>8. QED  BY <1>5, <1>6, <1>7 DEF ScoreInv

\* The lenient pairing starts with all of the engine's rows and all of the program's.
LEMMA EndNearKeeps == ScoreInv /\ EndNear => ScoreInv'
<1> SUFFICES ASSUME ScoreInv, EndNear  PROVE ScoreInv'
  OBVIOUS
<1>1. /\ ScoreType /\ SplitInv /\ AfterExact /\ AfterMismatch
      /\ stage = "near" /\ stage' = "lenient" /\ todo' = oracle /\ buckets' = rows
      /\ oracle' = oracle /\ rows' = rows /\ output' = output
      /\ UNCHANGED <<malformed, exact, leftover, missing, mismatched, extra, near, lenient>>
  BY DEF ScoreInv, EndNear, inputs, score
<1>2. oracle \in Seq(ToSet(oracle)) /\ rows \in Seq(ToSet(rows))
  BY <1>1, InputTypes
<1>3. ScoreType'
  BY <1>1, <1>2 DEF ScoreType
<1>4. SplitInv' /\ ExactInv' /\ MismatchInv' /\ LenientForgives'
  BY <1>1 DEF SplitInv, ExactInv, MismatchInv, LenientForgives
<1>5. AfterExact' /\ AfterMismatch'
  BY <1>1, InputsStay DEF AfterExact, AfterMismatch, KeyKinds
<1>6. \A A : Balanced(A, << >>, oracle, rows) /\ Exhausts(A, << >>, rows)
  <2> SUFFICES ASSUME NEW A
               PROVE  Balanced(A, << >>, oracle, rows) /\ Exhausts(A, << >>, rows)
    OBVIOUS
  <2>1. Count(A, << >>) = 0
    BY CountNone
  <2>2. Count(A, oracle) \in Nat /\ Count(A, rows) \in Nat
    BY <1>2, CountType
  <2>3. QED  BY <2>1, <2>2 DEF Balanced, Exhausts
<1>7. \A A : (Balanced(A, << >>, todo, buckets) /\ Exhausts(A, << >>, buckets))'
  BY <1>1, <1>6 DEF Balanced, Exhausts
<1>8. (Len(<< >>) + lenient + Len(todo) = Len(oracle))'
  <2>1. lenient = 0 /\ Len(<< >>) = 0 /\ Len(oracle) \in Nat
    BY <1>1, <1>2, LenProperties DEF SplitInv
  <2>2. 0 + 0 + Len(oracle) = Len(oracle)
    BY <2>1
  <2>3. QED  BY <1>1, <2>1, <2>2
<1>9. LenientInv'
  <2>1. << >> \in Seq(ToSet(oracle))'
    OBVIOUS
  <2>2. QED  BY <1>7, <1>8, <2>1 DEF LenientInv
<1>10. QED  BY <1>3, <1>4, <1>5, <1>9 DEF ScoreInv

\* What u stands for is left over when it finds no partner, and goes on with the rest.
LEMMA PairLenientKeeps == ScoreInv /\ PairLenient => ScoreInv'
<1> SUFFICES ASSUME ScoreInv, PairLenient  PROVE ScoreInv'
  OBVIOUS
<1> DEFINE e == Head(todo)
           i == FirstLenient(e)
           W == ToSet(oracle)
           P == ToSet(rows)
<1>1. /\ ScoreType /\ SplitInv /\ AfterExact /\ AfterMismatch /\ LenientInv
      /\ stage = "lenient" /\ stage' = "lenient"
      /\ oracle' = oracle /\ rows' = rows /\ output' = output /\ todo # << >> /\ todo' = Tail(todo)
      /\ UNCHANGED <<malformed, exact, leftover, missing, mismatched, extra, near>>
  BY DEF ScoreInv, PairLenient, inputs
<1>2. /\ W \subseteq OracleRows /\ oracle \in Seq(W)
      /\ P \subseteq ProperRows /\ rows \in Seq(P)
  BY <1>1, InputTypes
<1>3. todo \in Seq(W) /\ buckets \in Seq(P) /\ lenient \in Nat
  BY <1>1 DEF ScoreType
<1>4. e \in W /\ Tail(todo) \in Seq(W) /\ Len(Tail(todo)) = Len(todo) - 1 /\ Len(todo) \in Nat
  BY <1>1, <1>3, CountTail, LenProperties
<1>5. \A j \in 1 .. Len(buckets) : buckets[j] \in P /\ buckets[j] \in ProperRows
  BY <1>2, <1>3, ElementOfSeq
<1>6. PICK u \in Seq(W) :
        /\ Len(u) + lenient + Len(todo) = Len(oracle)
        /\ Clustered(InstantOf) =>
              \A A \in EngineKinds(InstantOf) :
                  Balanced(A, u, todo, buckets) /\ Exhausts(A, u, buckets)
  BY <1>1 DEF LenientInv
<1>7. Len(u) \in Nat
  BY LenProperties
<1>8. SplitInv' /\ ExactInv' /\ MismatchInv' /\ LenientForgives'
  BY <1>1 DEF SplitInv, ExactInv, MismatchInv, LenientForgives
<1>9. AfterExact' /\ AfterMismatch'
  BY <1>1, InputsStay DEF AfterExact, AfterMismatch, KeyKinds
<1>10. ASSUME NEW b \in ProperRows
       PROVE  InstantOf[b.key] = InstantOf[e.key] /\ Close(e.value, b.value)
                 <=> b \in Kind(InstantOf, e)
  BY DEF Kind
<1>11. CASE i = 0
  <2>1. buckets' = buckets /\ lenient' = lenient
    BY <1>11 DEF PairLenient
  <2>2. ScoreType'
    BY <1>1, <1>4, <2>1 DEF ScoreType
  <2>3. Append(u, e) \in Seq(W) /\ Len(Append(u, e)) = Len(u) + 1
    BY <1>4, AppendProperties
  <2>4. \A j \in 1 .. Len(buckets) : buckets[j] \notin Kind(InstantOf, e)
    BY <1>3, <1>5, <1>10, <1>11, FirstLenientFinds
  <2>5. ASSUME Clustered(InstantOf), NEW A \in EngineKinds(InstantOf)
        PROVE  Balanced(A, Append(u, e), Tail(todo), buckets) /\ Exhausts(A, Append(u, e), buckets)
    <3>1. ASSUME e \in A, NEW j \in 1 .. Len(buckets)  PROVE buckets[j] \notin A
      BY <1>2, <1>4, <1>5, <2>4, <2>5, <3>1, NoneLeft
    <3>2. Balanced(A, u, todo, buckets) /\ Exhausts(A, u, buckets)
      BY <1>6, <2>5
    <3>3. QED  BY <1>1, <1>2, <1>3, <3>1, <3>2, LeavesBalanced
  <2>6. Len(Append(u, e)) + lenient + Len(Tail(todo)) = Len(oracle)
    <3>1. (Len(u) + 1) + lenient + (Len(todo) - 1) = Len(oracle)
      BY <1>3, <1>4, <1>6, <1>7
    <3>2. QED  BY <1>4, <2>3, <3>1
  <2>7. LenientInv'
    <3>0. PICK v : v = Append(u, e)
      OBVIOUS
    <3>1. /\ v \in Seq(W) /\ Len(v) + lenient' + Len(todo') = Len(oracle')
          /\ Clustered(InstantOf) => \A A \in EngineKinds(InstantOf) :
                Balanced(A, v, Tail(todo), buckets) /\ Exhausts(A, v, buckets)
      BY <1>1, <2>1, <2>3, <2>5, <2>6, <3>0
    <3>2. \A A : /\ Balanced(A, v, Tail(todo), buckets) <=> Balanced(A, v, todo, buckets)'
                 /\ Exhausts(A, v, buckets) <=> Exhausts(A, v, buckets)'
      BY <1>1, <2>1 DEF Balanced, Exhausts
    <3>3. (Clustered(InstantOf) => \A A \in EngineKinds(InstantOf) :
              Balanced(A, v, todo, buckets) /\ Exhausts(A, v, buckets))'
      BY <1>1, <3>1, <3>2, InputsStay
    <3>4. QED  BY <1>1, <3>1, <3>3 DEF LenientInv
  <2>8. QED  BY <1>8, <1>9, <2>2, <2>7 DEF ScoreInv
<1>12. CASE i # 0
  <2>1. /\ i \in 1 .. Len(buckets)
        /\ InstantOf[buckets[i].key] = InstantOf[e.key] /\ Close(e.value, buckets[i].value)
    BY <1>3, <1>12, FirstLenientFinds
  <2>2. lenient' = lenient + 1 /\ buckets' = RemoveAt(buckets, i)
    BY <1>12 DEF PairLenient, Pop
  <2> HIDE DEF i
  <2>3. RemoveAt(buckets, i) \in Seq(P)
    BY <1>3, <2>1, CountRemoved
  <2>4. ScoreType'
    BY <1>1, <1>3, <1>4, <2>2, <2>3 DEF ScoreType
  <2>5. buckets[i] \in P /\ buckets[i] \in Kind(InstantOf, e)
    BY <1>5, <1>10, <2>1
  <2>6. ASSUME Clustered(InstantOf), NEW A \in EngineKinds(InstantOf)
        PROVE  /\ Balanced(A, u, Tail(todo), RemoveAt(buckets, i))
               /\ Exhausts(A, u, RemoveAt(buckets, i))
    <3>1. e \in A <=> buckets[i] \in A
      BY <1>2, <1>4, <2>5, <2>6, BothOrNeither
    <3>2. Balanced(A, u, todo, buckets) /\ Exhausts(A, u, buckets)
      BY <1>6, <2>6
    <3>3. QED  BY <1>1, <1>2, <1>3, <2>1, <3>1, <3>2, PairsBalanced
  <2>7. Len(u) + lenient' + Len(todo') = Len(oracle')
    <3>1. Len(u) + (lenient + 1) + (Len(todo) - 1) = Len(oracle)
      BY <1>3, <1>4, <1>6, <1>7
    <3>2. QED  BY <1>1, <1>4, <2>2, <3>1
  <2>8. LenientInv'
    <3>1. u \in Seq(W)
      OBVIOUS
    <3> HIDE DEF e
    <3>2. \A A : /\ Balanced(A, u, Tail(todo), RemoveAt(buckets, i))
                       <=> Balanced(A, u, todo, buckets)'
                 /\ Exhausts(A, u, RemoveAt(buckets, i)) <=> Exhausts(A, u, buckets)'
      BY <1>1, <2>2 DEF Balanced, Exhausts
    <3>3. (Clustered(InstantOf) => \A A \in EngineKinds(InstantOf) :
              Balanced(A, u, todo, buckets) /\ Exhausts(A, u, buckets))'
      BY <1>1, <2>6, <3>2, InputsStay
    <3>4. QED  BY <1>1, <2>7, <3>1, <3>3 DEF LenientInv
  <2>9. QED  BY <1>8, <1>9, <2>4, <2>8 DEF ScoreInv
<1>13. QED  BY <1>11, <1>12

\* The lenient pairing leaves no more of any kind than the strict one, so no more in all.
LEMMA EndLenientKeeps == ScoreInv /\ EndLenient => ScoreInv'
<1> SUFFICES ASSUME ScoreInv, EndLenient  PROVE ScoreInv'
  OBVIOUS
<1> DEFINE W == ToSet(oracle)
           P == ToSet(rows)
<1>1. /\ ScoreType /\ SplitInv /\ AfterExact /\ AfterMismatch /\ LenientInv
      /\ stage = "lenient" /\ stage' = "end" /\ todo = << >>
      /\ oracle' = oracle /\ rows' = rows /\ output' = output /\ todo' = todo
      /\ UNCHANGED <<buckets, malformed, exact, leftover, missing, mismatched, extra, near, lenient>>
  BY DEF ScoreInv, EndLenient, inputs, score
<1>2. /\ W \subseteq OracleRows /\ oracle \in Seq(W)
      /\ P \subseteq ProperRows /\ rows \in Seq(P)
  BY <1>1, InputTypes
<1>3. buckets \in Seq(P) /\ leftover \in Seq(W) /\ lenient \in Nat
      /\ exact \in Seq({b.id : b \in ProperRows})
  BY <1>1 DEF ScoreType
<1>4. ScoreType'
  BY <1>1 DEF ScoreType
<1>5. SplitInv' /\ ExactInv' /\ MismatchInv' /\ LenientInv'
  BY <1>1 DEF SplitInv, ExactInv, MismatchInv, LenientInv
<1>6. AfterExact' /\ AfterMismatch'
  BY <1>1, InputsStay DEF AfterExact, AfterMismatch, KeyKinds
<1>7. ASSUME Clustered(InstantOf)  PROVE lenient >= Len(exact)
  <2>1. PICK u \in Seq(W) :
          /\ Len(u) + lenient + Len(todo) = Len(oracle)
          /\ \A A \in EngineKinds(InstantOf) :
                Balanced(A, u, todo, buckets) /\ Exhausts(A, u, buckets)
    BY <1>1, <1>7 DEF LenientInv
  <2>2. ASSUME NEW r \in W
        PROVE  Count(Kind(InstantOf, r), u) <= Count(Kind(InstantOf, r), leftover)
    <3> DEFINE A == Kind(InstantOf, r)
    <3>1. A \in EngineKinds(InstantOf)
      BY DEF EngineKinds
    <3> HIDE DEF A
    <3>2. Balanced(A, u, << >>, buckets) /\ Exhausts(A, u, buckets)
      BY <1>1, <2>1, <3>1
    <3>3. Count(A, u) = Shortage(A)
      BY <1>2, <1>3, <3>2, NoRestLeft
    <3>4. Shortage(A) <= Count(A, leftover)
      BY <1>1, <1>7, <3>1 DEF AfterExact
    <3>5. QED  BY <3>3, <3>4 DEF A
  <2>3. Len(u) <= Len(leftover)
    BY <1>2, <1>3, <1>7, <2>2, FewerOfEachKind
  <2>4. Len(exact) + Len(leftover) = Len(oracle) /\ Len(u) + lenient + 0 = Len(oracle)
    BY <1>1, <2>1 DEF AfterExact
  <2>5. Len(u) \in Nat /\ Len(leftover) \in Nat /\ Len(exact) \in Nat
    BY <1>3, LenProperties
  <2>6. QED
    <3> DEFINE a == Len(u)
               l == Len(leftover)
               x == Len(exact)
               o == Len(oracle)
    <3>1. a <= l /\ x + l = o /\ a + lenient + 0 = o /\ a \in Nat /\ l \in Nat /\ x \in Nat
      BY <2>3, <2>4, <2>5
    <3> HIDE DEF a, l, x, o
    <3>2. lenient >= x
      BY <1>3, <3>1
    <3>3. QED  BY <3>2 DEF x
<1>8. LenientForgives'
  BY <1>1, <1>7, InputsStay DEF LenientForgives
<1>9. QED  BY <1>4, <1>5, <1>6, <1>8 DEF ScoreInv

(***************************************************************************)
(* The theorems                                                            *)
(***************************************************************************)

\* The inductive invariant holds of every run of the scoring: what each pairing has left over
\* and still to see is balanced, kind by kind, with what the program still has.
THEOREM ScoreInvariant == ScoreSpec => []ScoreInv
<1>1. ScoreInv /\ [ScoreNext]_scoreVars => ScoreInv'
  <2> SUFFICES ASSUME ScoreInv, [ScoreNext]_scoreVars  PROVE ScoreInv'
    OBVIOUS
  <2>1. CASE UNCHANGED scoreVars
    <3>1. /\ oracle' = oracle /\ rows' = rows /\ output' = output /\ stage' = stage /\ todo' = todo
          /\ UNCHANGED <<buckets, malformed, exact, leftover, missing, mismatched, extra, near, lenient>>
      BY <2>1 DEF scoreVars, inputs, score
    <3>2. ScoreType'
      BY <3>1 DEF ScoreInv, ScoreType
    <3>3. SplitInv' /\ LenientForgives'
      BY <3>1, InputsStay DEF ScoreInv, SplitInv, LenientForgives
    <3>4. ExactInv'
      BY <3>1, InputsStay DEF ScoreInv, ExactInv, KeyKinds, Balanced, Exhausts
    <3>5. AfterExact' /\ AfterMismatch'
      BY <3>1, InputsStay DEF ScoreInv, AfterExact, AfterMismatch, KeyKinds
    <3>6. MismatchInv'
      BY <3>1 DEF ScoreInv, MismatchInv, KeyKinds, Balanced, Exhausts
    <3>7. LenientInv'
      BY <3>1, InputsStay DEF ScoreInv, LenientInv, Balanced, Exhausts
    <3>8. QED  BY <3>2, <3>3, <3>4, <3>5, <3>6, <3>7 DEF ScoreInv
  <2>2. CASE ScoreNext
    BY <2>2, SplitKeeps, PairExactKeeps, EndExactKeeps, PairMismatchedKeeps, EndMismatchedKeeps,
       PairNearKeeps, EndNearKeeps, PairLenientKeeps, EndLenientKeeps DEF ScoreNext
  <2>3. QED  BY <2>1, <2>2
<1>2. QED  BY <1>1, InitInv, PTL DEF ScoreSpec

\* What a shortage is in the words of the properties
LEMMA ShortageIsMax ==
    ASSUME NEW A, NEW o \in Nat, NEW r \in Nat, o = Count(A, oracle), r = Count(A, rows)
    PROVE  Shortage(A) = Max({0, o - r})
<1>1. CASE o > r
  <2>1. o - r \in Nat /\ o - r >= 0
    BY <1>1
  <2>2. Max({0, o - r}) = o - r
    BY <2>1 DEF Max
  <2>3. QED  BY <1>1, <2>2 DEF Shortage
<1>2. CASE ~(o > r)
  <2>1. o - r \in Int /\ o - r <= 0
    BY <1>2
  <2>2. Max({0, o - r}) = 0
    BY <2>1 DEF Max
  <2>3. QED  BY <1>2, <2>2 DEF Shortage
<1>3. QED  BY <1>1, <1>2

\* When the scoring ends, the missing rows of every identity are as many as the engine has more
\* of it than the program, and the extra ones are all of the program's that have no partner.
THEOREM MissingIsShortfall == ScoreSpec => []MissingIsTheShortfall
<1>1. ScoreInv => MissingIsTheShortfall
  <2> SUFFICES ASSUME ScoreInv, stage = "end"
               PROVE  /\ \A k \in Keys :
                            OfKey(k, missing) = Max({0, OfKey(k, oracle) - OfKey(k, rows)})
                      /\ extra = Len(output) - (Len(oracle) - Len(missing))
    BY DEF MissingIsTheShortfall
  <2>1. ScoreType /\ AfterMismatch
    BY DEF ScoreInv
  <2>2. /\ oracle \in Seq(ProperRows) /\ rows \in Seq(ProperRows) /\ missing \in Seq(ProperRows)
    <3>1. ToSet(oracle) \subseteq ProperRows /\ missing \in Seq(ToSet(oracle))
          /\ oracle \in Seq(ToSet(oracle)) /\ rows \in Seq(ProperRows)
      BY <2>1, InputTypes, RowsAreProper DEF ScoreType
    <3>2. QED  BY <3>1
  <2>3. ASSUME NEW k \in Keys
        PROVE  OfKey(k, missing) = Max({0, OfKey(k, oracle) - OfKey(k, rows)})
    <3>1. /\ OfKey(k, missing) = Count(OfKind(k), missing)
          /\ OfKey(k, oracle) = Count(OfKind(k), oracle)
          /\ OfKey(k, rows) = Count(OfKind(k), rows)
      BY <2>2, OfKeyIsCount
    <3>2. Count(OfKind(k), oracle) \in Nat /\ Count(OfKind(k), rows) \in Nat
      BY <2>2, CountType
    <3>3. Count(OfKind(k), missing) = Shortage(OfKind(k))
      BY <2>1 DEF AfterMismatch, KeyKinds
    <3>4. Shortage(OfKind(k)) = Max({0, OfKey(k, oracle) - OfKey(k, rows)})
      BY <3>1, <3>2, ShortageIsMax
    <3>5. QED  BY <3>1, <3>3, <3>4
  <2>4. QED  BY <2>1, <2>3 DEF AfterMismatch
<1>2. QED  BY <1>1, ScoreInvariant, PTL

\* Where values cluster, pairing first come, first served finds the whole intersection: of the
\* rows as good as one of the engine's, it leaves over as many as the program has too few.
THEOREM ExactIsIntersection == ScoreSpec => []ExactIsTheIntersection
<1>1. ScoreInv => ExactIsTheIntersection
  <2> SUFFICES ASSUME ScoreInv, stage = "end", Clustered(AsWritten)
               PROVE  /\ Len(exact) = Len(oracle) - Len(leftover)
                      /\ \A r \in ToSet(oracle) :
                            AsGoodAs(r, leftover)
                              = Max({0, AsGoodAs(r, oracle) - AsGoodAs(r, rows)})
    BY DEF ExactIsTheIntersection
  <2>1. ScoreType /\ AfterExact
    BY DEF ScoreInv
  <2>2. /\ oracle \in Seq(ProperRows) /\ rows \in Seq(ProperRows) /\ leftover \in Seq(ProperRows)
        /\ ToSet(oracle) \subseteq ProperRows /\ exact \in Seq({b.id : b \in ProperRows})
    <3>1. ToSet(oracle) \subseteq ProperRows /\ leftover \in Seq(ToSet(oracle))
          /\ oracle \in Seq(ToSet(oracle)) /\ rows \in Seq(ProperRows)
      BY <2>1, InputTypes, RowsAreProper DEF ScoreType
    <3>2. exact \in Seq({b.id : b \in ProperRows})
      BY <2>1 DEF ScoreType
    <3>3. QED  BY <3>1, <3>2
  <2>3. ASSUME NEW r \in ToSet(oracle)
        PROVE  AsGoodAs(r, leftover) = Max({0, AsGoodAs(r, oracle) - AsGoodAs(r, rows)})
    <3> DEFINE A == Kind(AsWritten, r)
    <3>1. A \in EngineKinds(AsWritten)
      BY DEF EngineKinds
    <3>2. r \in ProperRows
      BY <2>2
    <3>3. /\ AsGoodAs(r, leftover) = Count(A, leftover)
          /\ AsGoodAs(r, oracle) = Count(A, oracle)
          /\ AsGoodAs(r, rows) = Count(A, rows)
      BY <2>2, <3>2, AsGoodAsIsCount
    <3> HIDE DEF A
    <3>4. Count(A, oracle) \in Nat /\ Count(A, rows) \in Nat
      BY <2>2, CountType
    <3>5. Count(A, leftover) = Shortage(A)
      BY <2>1, <3>1 DEF AfterExact
    <3>6. Shortage(A) = Max({0, AsGoodAs(r, oracle) - AsGoodAs(r, rows)})
      BY <3>3, <3>4, ShortageIsMax
    <3>7. QED  BY <3>3, <3>5, <3>6
  <2>4. Len(exact) = Len(oracle) - Len(leftover)
    <3>1. Len(exact) + Len(leftover) = Len(oracle)
      BY <2>1 DEF AfterExact
    <3>2. Len(exact) \in Nat /\ Len(leftover) \in Nat
      BY <2>2, LenProperties
    <3>3. QED  BY <3>1, <3>2
  <2>5. QED  BY <2>3, <2>4
<1>2. QED  BY <1>1, ScoreInvariant, PTL

\* Reading timestamps as instants never loses a pair that the strict tier found.
THEOREM LenientKeepsPairs == ScoreSpec => []LenientForgives
<1>1. ScoreInv => LenientForgives
  BY DEF ScoreInv
<1>2. QED  BY <1>1, ScoreInvariant, PTL

(***************************************************************************)
(* Numbers in order (ReplayMeasures)                                       *)
(***************************************************************************)

\* The values of a bucket: finitely many numbers
Numbers(f) == IsFiniteSet(DOMAIN f) /\ \A i \in DOMAIN f : f[i] \in Nat

LEMMA UpToType ==
    ASSUME NEW f, Numbers(f), NEW v \in Int, NEW w \in Int, v <= w
    PROVE  /\ UpTo(v, f) \in Nat /\ UpTo(w, f) \in Nat
           /\ UpTo(v, f) <= UpTo(w, f) /\ UpTo(w, f) <= Cardinality(DOMAIN f)
<1> DEFINE I == {i \in DOMAIN f : f[i] <= v}
           J == {i \in DOMAIN f : f[i] <= w}
<1>1. I \subseteq J /\ J \subseteq DOMAIN f
  BY DEF Numbers
<1>2. IsFiniteSet(DOMAIN f)
  BY DEF Numbers
<1>3. UpTo(v, f) = Cardinality(I) /\ UpTo(w, f) = Cardinality(J)
  BY DEF UpTo
<1> HIDE DEF I, J
<1>4. IsFiniteSet(J) /\ Cardinality(J) <= Cardinality(DOMAIN f)
  BY <1>1, <1>2, FS_Subset
<1>5. IsFiniteSet(I) /\ Cardinality(I) <= Cardinality(J)
  BY <1>1, <1>4, FS_Subset
<1>6. QED  BY <1>3, <1>4, <1>5, FS_CardinalityType

\* Finitely many numbers have a bound.
LEMMA Bounded ==
    ASSUME NEW f, Numbers(f)
    PROVE  \E b \in Nat : \A i \in DOMAIN f : f[i] <= b
<1> DEFINE N == Cardinality(DOMAIN f)
<1>1. N \in Nat /\ ExistsBijection(1 .. N, DOMAIN f)
  BY FS_CardinalityType DEF Numbers
<1> HIDE DEF N
<1>2. PICK e : e \in Bijection(1 .. N, DOMAIN f)
  BY <1>1 DEF ExistsBijection
<1>3. /\ \A m \in 1 .. N : e[m] \in DOMAIN f /\ f[e[m]] \in Nat
      /\ \A i \in DOMAIN f : \E m \in 1 .. N : e[m] = i
  BY <1>2 DEF Bijection, Injection, Surjection, Numbers
<1> DEFINE Has(n) == \E b \in Nat : \A m \in 1 .. n : f[e[m]] <= b
           has == [n \in 0 .. N |-> IF Has(n) THEN 1 ELSE 0]
           V == {1}
<1>4. Has(0)
  OBVIOUS
<1>5. ASSUME NEW n \in 1 .. N, Has(n - 1)  PROVE Has(n)
  <2>1. PICK b \in Nat : \A m \in 1 .. n - 1 : f[e[m]] <= b
    BY <1>5
  <2>2. f[e[n]] \in Nat /\ \A m \in 1 .. N : f[e[m]] \in Nat
    BY <1>3
  <2> DEFINE c == b + f[e[n]]
  <2>3. c \in Nat /\ \A m \in 1 .. n : f[e[m]] <= c
    BY <1>1, <2>1, <2>2
  <2>4. QED  BY <2>3
<1> HIDE DEF Has
<1>6. has[0] \in V /\ \A n \in 1 .. N : has[n - 1] \in V => has[n] \in V
  BY <1>1, <1>4, <1>5
<1> HIDE DEF has, V
<1>7. \A n \in 0 .. N : has[n] \in V
  BY <1>1, <1>6, RecursionStays
<1>8. Has(N)
  BY <1>1, <1>7 DEF has, V
<1>9. QED  BY <1>3, <1>8 DEF Has

\* The n-th of the sorted numbers is the least that n of them are up to.
LEMMA SortedIsLeast ==
    ASSUME NEW f, Numbers(f), NEW n \in 1 .. Cardinality(DOMAIN f)
    PROVE  /\ Sorted(f)[n] \in Nat /\ Sorted(f)[n] \in Range(f)
           /\ UpTo(Sorted(f)[n], f) >= n
           /\ \A v \in Int : UpTo(v, f) >= n => Sorted(f)[n] <= v
<1> DEFINE enough == {v \in Nat : UpTo(v, f) >= n}
           taken == {v \in Range(f) : UpTo(v, f) >= n}
<1>0. Cardinality(DOMAIN f) \in Nat /\ n \in Nat /\ n >= 1
  BY FS_CardinalityType DEF Numbers
<1>1. PICK b \in Nat : \A i \in DOMAIN f : f[i] <= b
  BY Bounded
<1>2. UpTo(b, f) = Cardinality(DOMAIN f)
  <2>1. {i \in DOMAIN f : f[i] <= b} = DOMAIN f
    BY <1>1
  <2>2. QED  BY <2>1 DEF UpTo
<1>3. b \in enough
  BY <1>0, <1>1, <1>2
<1>4. PICK m \in enough : \A v \in enough : m <= v
  <2>1. enough \subseteq Nat /\ enough # {}
    BY <1>3
  <2> HIDE DEF enough
  <2>2. QED  BY <2>1, Smallest
<1>5. m \in Nat /\ UpTo(m, f) >= n
  BY <1>4
<1>6. ASSUME NEW v \in Int, UpTo(v, f) >= n  PROVE m <= v
  <2>1. CASE v \in Nat
    BY <1>4, <1>6, <2>1
  <2>2. CASE v \notin Nat
    <3>1. \A i \in DOMAIN f : ~(f[i] <= v)
      BY <2>2 DEF Numbers
    <3>2. {i \in DOMAIN f : f[i] <= v} = {}
      BY <3>1
    <3>3. UpTo(v, f) = 0
      BY <3>2, FS_EmptySet DEF UpTo
    <3>4. QED  BY <1>0, <1>6, <3>3
  <2>3. QED  BY <2>1, <2>2
<1>7. m \in Range(f)
  <2> SUFFICES ASSUME m \notin Range(f)  PROVE FALSE
    OBVIOUS
  <2>1. \A i \in DOMAIN f : f[i] # m
    BY DEF Range
  <2>2. \A i \in DOMAIN f : f[i] <= m <=> f[i] <= m - 1
    BY <1>5, <2>1 DEF Numbers
  <2>3. UpTo(m - 1, f) = UpTo(m, f)
    BY <2>2 DEF UpTo
  <2>4. m <= m - 1
    BY <1>5, <1>6, <2>3
  <2>5. QED  BY <1>5, <2>4
<1>8. m \in taken /\ \A v \in taken : v \in Int /\ m <= v
  BY <1>5, <1>6, <1>7 DEF Range, Numbers
<1>9. Min(taken) = m
  <2> HIDE DEF taken
  <2>1. Min(taken) \in taken /\ \A v \in taken : Min(taken) <= v
    BY <1>8 DEF Min
  <2>2. Min(taken) \in Int /\ Min(taken) <= m /\ m <= Min(taken)
    BY <1>8, <2>1
  <2>3. QED  BY <1>5, <2>2
<1>10. Sorted(f)[n] = m
  BY <1>9 DEF Sorted
<1>11. QED  BY <1>5, <1>6, <1>7, <1>10

\* Each number of f has one of g that is at most one more, if both are counted from below.
Covers(f, g) == \A v \in Int : UpTo(v, f) <= UpTo(v + 1, g)

LEMMA SortedCovers ==
    ASSUME NEW f, NEW g, Numbers(f), Numbers(g), Cardinality(DOMAIN f) = Cardinality(DOMAIN g)
    PROVE  (\A n \in 1 .. Cardinality(DOMAIN f) : Sorted(g)[n] <= Sorted(f)[n] + 1) <=> Covers(f, g)
<1> DEFINE N == Cardinality(DOMAIN f)
<1>0. N \in Nat /\ N = Cardinality(DOMAIN g)
  BY FS_CardinalityType DEF Numbers
<1> HIDE DEF N
<1>1. ASSUME \A n \in 1 .. N : Sorted(g)[n] <= Sorted(f)[n] + 1, NEW v \in Int
      PROVE  UpTo(v, f) <= UpTo(v + 1, g)
  <2> DEFINE n == UpTo(v, f)
  <2>1. n \in Nat /\ n <= N /\ v + 1 \in Int /\ UpTo(v + 1, g) \in Nat
    BY UpToType DEF N
  <2>2. CASE n = 0
    BY <2>1, <2>2
  <2>3. CASE n # 0
    <3>1. n \in 1 .. N
      BY <1>0, <2>1, <2>3
    <3> HIDE DEF n
    <3>2. Sorted(f)[n] \in Nat /\ Sorted(f)[n] <= v
      <4>1. UpTo(v, f) >= n
        BY <2>1 DEF n
      <4>2. QED  BY <3>1, <4>1, SortedIsLeast DEF N
    <3>3. Sorted(g)[n] \in Nat /\ UpTo(Sorted(g)[n], g) >= n
      BY <1>0, <3>1, SortedIsLeast
    <3>4. Sorted(g)[n] <= Sorted(f)[n] + 1
      BY <1>1, <3>1
    <3>5. Sorted(g)[n] <= v + 1 /\ Sorted(g)[n] \in Int
      BY <3>2, <3>3, <3>4
    <3>6. UpTo(Sorted(g)[n], g) \in Nat /\ UpTo(Sorted(g)[n], g) <= UpTo(v + 1, g)
      BY <2>1, <3>5, UpToType
    <3>7. n <= UpTo(v + 1, g)
      BY <2>1, <3>3, <3>6
    <3>8. QED  BY <3>7 DEF n
  <2>4. QED  BY <2>2, <2>3
<1>2. ASSUME Covers(f, g), NEW n \in 1 .. N
      PROVE  Sorted(g)[n] <= Sorted(f)[n] + 1
  <2>1. Sorted(f)[n] \in Nat /\ UpTo(Sorted(f)[n], f) >= n
    BY SortedIsLeast DEF N
  <2> DEFINE v == Sorted(f)[n]
  <2>2. v \in Int /\ v + 1 \in Int /\ UpTo(v, f) \in Nat /\ UpTo(v + 1, g) \in Nat
    BY <2>1, UpToType
  <2>3. UpTo(v, f) <= UpTo(v + 1, g)
    BY <1>2, <2>2 DEF Covers
  <2>4. UpTo(v + 1, g) >= n /\ n \in Nat
    BY <1>0, <2>1, <2>2, <2>3
  <2>5. QED
    <3> HIDE DEF v
    <3>1. Sorted(g)[n] <= v + 1
      BY <1>0, <2>2, <2>4, SortedIsLeast
    <3>2. QED  BY <3>1 DEF v
<1>3. QED  BY <1>1, <1>2 DEF Covers, N

(***************************************************************************)
(* Buckets                                                                 *)
(***************************************************************************)

InBucket(level, left) == {r \in ProperRows : Left(level, r) = left}
Under(level, left, v) == {r \in ProperRows : Left(level, r) = left /\ r.value <= v}

LEMMA BucketCounts ==
    ASSUME NEW level, NEW left, NEW s \in Seq(ProperRows)
    PROVE  /\ Numbers(Bucket(level, left, s))
           /\ DOMAIN Bucket(level, left, s) = PlacesIn(InBucket(level, left), s)
           /\ \A i \in PlacesIn(InBucket(level, left), s) : Bucket(level, left, s)[i] = s[i].value
           /\ \A v \in Int : UpTo(v, Bucket(level, left, s)) = Count(Under(level, left, v), s)
<1> DEFINE f == Bucket(level, left, s)
           I == PlacesIn(InBucket(level, left), s)
<1>1. \A i \in DOMAIN s : s[i] \in ProperRows /\ s[i].value \in Nat
  <2>1. \A i \in DOMAIN s : s[i] \in ProperRows
    BY ElementOfSeq, LenProperties
  <2>2. QED  BY <2>1 DEF ProperRows
<1>2. DOMAIN f = I /\ \A i \in I : f[i] = s[i].value
  BY <1>1 DEF Bucket, PlacesIn, InBucket
<1>3. IsFiniteSet(I)
  BY CountType
<1>4. I \subseteq DOMAIN s
  BY DEF PlacesIn
<1>5. ASSUME NEW v \in Int  PROVE UpTo(v, f) = Count(Under(level, left, v), s)
  <2>1. {i \in DOMAIN f : f[i] <= v} = PlacesIn(Under(level, left, v), s)
    BY <1>1, <1>2 DEF PlacesIn, Under, InBucket
  <2> HIDE DEF f
  <2>2. QED  BY <2>1 DEF UpTo, Count
<1> HIDE DEF f, I
<1>6. Numbers(f)
  BY <1>1, <1>2, <1>3, <1>4 DEF Numbers
<1>7. QED  BY <1>2, <1>5, <1>6 DEF f, I

\* What two buckets that agree have in common, without the order of their values: as many
\* rows, all of them numbers, and each value of one side has a close one on the other.
Spread(level, left) ==
    /\ Count(InBucket(level, left), output) = Count(InBucket(level, left), oracle)
    /\ \A r \in ToSet(output) : Left(level, r) = left => r.value # 0
    /\ \A v \in Int :
          /\ Count(Under(level, left, v), oracle) <= Count(Under(level, left, v + 1), output)
          /\ Count(Under(level, left, v), output) <= Count(Under(level, left, v + 1), oracle)

LEMMA AgreeSpread ==
    ASSUME NEW level, NEW left, oracle \in Seq(ProperRows), output \in Seq(ProperRows)
    PROVE  BucketsAgree(level, left) <=> Spread(level, left)
<1> DEFINE f == Bucket(level, left, oracle)
           g == Bucket(level, left, output)
           B == InBucket(level, left)
           I == PlacesIn(B, output)
           N == Cardinality(DOMAIN f)
           numeric == \A i \in DOMAIN g : g[i] # NotNumeric
           zipped == \A n \in 1 .. N : Close(Sorted(f)[n], Sorted(g)[n])
<1>1. /\ Numbers(f) /\ Numbers(g)
      /\ N = Count(B, oracle) /\ Cardinality(DOMAIN g) = Count(B, output)
      /\ DOMAIN g = I /\ \A i \in I : g[i] = output[i].value
      /\ \A v \in Int : UpTo(v, f) = Count(Under(level, left, v), oracle)
      /\ \A v \in Int : UpTo(v, g) = Count(Under(level, left, v), output)
  BY BucketCounts DEF Count
<1>2. numeric <=> \A r \in ToSet(output) : Left(level, r) = left => r.value # 0
  <2>1. \A i \in DOMAIN output : output[i] \in ProperRows
    BY ElementOfSeq, LenProperties
  <2>2. I = {i \in DOMAIN output : Left(level, output[i]) = left}
    BY <2>1 DEF PlacesIn, InBucket
  <2>3. numeric <=> \A i \in DOMAIN output : Left(level, output[i]) = left => output[i].value # 0
    BY <1>1, <2>2 DEF NotNumeric
  <2>4. QED  BY <2>3 DEF ToSet
<1>3. BucketsAgree(level, left) <=> Cardinality(DOMAIN g) = N /\ numeric /\ zipped
  BY DEF BucketsAgree
<1>4. ASSUME Cardinality(DOMAIN g) = N, numeric
      PROVE  zipped <=> Covers(f, g) /\ Covers(g, f)
  <2>1. ASSUME NEW n \in 1 .. N
        PROVE  Close(Sorted(f)[n], Sorted(g)[n])
                  <=> Sorted(g)[n] <= Sorted(f)[n] + 1 /\ Sorted(f)[n] <= Sorted(g)[n] + 1
    <3>1. Sorted(f)[n] \in Nat /\ Sorted(g)[n] \in Nat /\ Sorted(g)[n] \in Range(g)
      BY <1>1, <1>4, SortedIsLeast
    <3>2. Sorted(g)[n] # NotNumeric
      BY <1>4, <3>1 DEF Range
    <3>3. QED  BY <3>1, <3>2 DEF Close
  <2>2. (\A n \in 1 .. N : Sorted(g)[n] <= Sorted(f)[n] + 1) <=> Covers(f, g)
    BY <1>1, <1>4, SortedCovers
  <2>3. (\A n \in 1 .. N : Sorted(f)[n] <= Sorted(g)[n] + 1) <=> Covers(g, f)
    BY <1>1, <1>4, SortedCovers
  <2> HIDE DEF f, g, N
  <2>4. zipped <=> \A n \in 1 .. N :
                      Sorted(g)[n] <= Sorted(f)[n] + 1 /\ Sorted(f)[n] <= Sorted(g)[n] + 1
    BY <2>1
  <2> HIDE DEF zipped
  <2>5. QED  BY <2>2, <2>3, <2>4
<1>5. Covers(f, g) /\ Covers(g, f)
         <=> \A v \in Int :
               /\ Count(Under(level, left, v), oracle) <= Count(Under(level, left, v + 1), output)
               /\ Count(Under(level, left, v), output) <= Count(Under(level, left, v + 1), oracle)
  <2>1. \A v \in Int : v + 1 \in Int
    OBVIOUS
  <2> HIDE DEF f, g
  <2>2. QED  BY <1>1, <2>1 DEF Covers
<1>6. Cardinality(DOMAIN g) = N <=> Count(B, output) = Count(B, oracle)
  BY <1>1
<1> HIDE DEF numeric, zipped, N, f, g
<1>7. QED  BY <1>2, <1>3, <1>4, <1>5, <1>6 DEF Spread

(***************************************************************************)
(* Several buckets together                                                *)
(***************************************************************************)

\* A set with no more than another has a one-to-one function into it.
LEMMA FitsInto ==
    ASSUME NEW S, IsFiniteSet(S), NEW T, IsFiniteSet(T), Cardinality(S) <= Cardinality(T)
    PROVE  \E h \in [S -> T] : \A i, j \in S : h[i] = h[j] => i = j
<1> DEFINE a == Cardinality(S)
           b == Cardinality(T)
<1>1. a \in Nat /\ b \in Nat /\ a <= b /\ ExistsBijection(1 .. a, S) /\ ExistsBijection(1 .. b, T)
  BY FS_CardinalityType
<1> HIDE DEF a, b
<1>2. PICK f \in Bijection(1 .. a, S) : TRUE
  BY <1>1 DEF ExistsBijection
<1>3. PICK g \in Bijection(1 .. b, T) : TRUE
  BY <1>1 DEF ExistsBijection
<1>4. /\ \A n \in 1 .. a : f[n] \in S
      /\ \A i \in S : \E n \in 1 .. a : f[n] = i
  BY <1>2 DEF Bijection, Injection, Surjection
<1>5. /\ \A n \in 1 .. b : g[n] \in T
      /\ \A m, n \in 1 .. b : g[m] = g[n] => m = n
  BY <1>3 DEF Bijection, Injection, IsInjective
<1> DEFINE at == [i \in S |-> CHOOSE n \in 1 .. a : f[n] = i]
           h == [i \in S |-> g[at[i]]]
<1>6. \A i \in S : at[i] \in 1 .. a /\ f[at[i]] = i
  BY <1>4
<1> HIDE DEF at
<1>7. \A i \in S : at[i] \in 1 .. b
  BY <1>1, <1>6
<1>8. h \in [S -> T]
  BY <1>5, <1>7
<1>9. \A i, j \in S : h[i] = h[j] => i = j
  BY <1>5, <1>6, <1>7
<1> HIDE DEF h
<1>10. QED  BY <1>8, <1>9

InClass(P, f, c) == {j \in P : f[j] = c}

\* If each class of P has no more elements than the same class of Q, P has no more than Q.
LEMMA ClassByClass ==
    ASSUME NEW P, IsFiniteSet(P), NEW Q, IsFiniteSet(Q), NEW f, NEW g,
           \A i \in P : Cardinality(InClass(P, f, f[i])) <= Cardinality(InClass(Q, g, f[i]))
    PROVE  Cardinality(P) <= Cardinality(Q)
<1> DEFINE PC(c) == {j \in P : f[j] = c}
           QC(c) == {j \in Q : g[j] = c}
           Fits(c, h) == h \in [PC(c) -> QC(c)] /\ \A i, j \in PC(c) : h[i] = h[j] => i = j
           hs == [i \in P |-> CHOOSE h : Fits(f[i], h)]
           all == [i \in P |-> hs[i][i]]
<1>1. ASSUME NEW i \in P  PROVE Fits(f[i], hs[i])
  <2> DEFINE c == f[i]
  <2>1. IsFiniteSet(PC(c)) /\ IsFiniteSet(QC(c))
    BY FS_Subset
  <2>2. Cardinality(PC(c)) <= Cardinality(QC(c))
    BY DEF InClass
  <2> HIDE DEF PC, QC, c
  <2>3. \E h : Fits(c, h)
    BY <2>1, <2>2, FitsInto
  <2> HIDE DEF Fits
  <2>4. Fits(c, CHOOSE h : Fits(c, h))
    BY <2>3
  <2>5. QED  BY <2>4 DEF c
<1>2. \A i \in P : i \in PC(f[i])
  OBVIOUS
<1>3. \A i, j \in P : f[i] = f[j] => hs[i] = hs[j]
  <2> HIDE DEF Fits
  <2>1. QED  OBVIOUS
<1> HIDE DEF hs
<1>4. \A i \in P : all[i] \in QC(f[i])
  <2> HIDE DEF PC, QC
  <2>1. QED  BY <1>1, <1>2
<1>5. \A i \in P : all[i] \in Q /\ g[all[i]] = f[i]
  BY <1>4
<1>6. ASSUME NEW i \in P, NEW j \in P, all[i] = all[j]  PROVE i = j
  <2>1. f[i] = f[j]
    BY <1>5, <1>6
  <2>2. hs[i] = hs[j] /\ hs[i][i] = hs[i][j] /\ j \in PC(f[i])
    BY <1>3, <1>6, <2>1
  <2>3. i \in PC(f[i])
    BY <1>2
  <2>4. Fits(f[i], hs[i])
    BY <1>1
  <2> HIDE DEF PC, QC, all
  <2>5. QED  BY <2>2, <2>3, <2>4
<1>7. all \in Injection(P, Q)
  <2>1. all \in [P -> Q]
    BY <1>5
  <2> HIDE DEF all
  <2>2. QED  BY <1>6, <2>1 DEF Injection, IsInjective
<1> HIDE DEF all
<1>8. QED  BY <1>7, FS_Injection

\* A level with fewer fields puts whole buckets of the finer one together.
LEMMA PutTogether ==
    ASSUME NEW s \in Seq(ProperRows), NEW t \in Seq(ProperRows),
           NEW fine, NEW coarse, NEW left, NEW X, NEW Y,
           \A r, q \in ProperRows : Left(fine, r) = Left(fine, q) => Left(coarse, r) = Left(coarse, q),
           \A r \in ToSet(s) : Count(InBucket(fine, Left(fine, r)) \cap X, s)
                                  <= Count(InBucket(fine, Left(fine, r)) \cap Y, t)
    PROVE  Count(InBucket(coarse, left) \cap X, s) <= Count(InBucket(coarse, left) \cap Y, t)
<1> DEFINE P == PlacesIn(InBucket(coarse, left) \cap X, s)
           Q == PlacesIn(InBucket(coarse, left) \cap Y, t)
           f == [i \in DOMAIN s |-> Left(fine, s[i])]
           g == [j \in DOMAIN t |-> Left(fine, t[j])]
<1>1. /\ \A i \in DOMAIN s : s[i] \in ProperRows
      /\ \A j \in DOMAIN t : t[j] \in ProperRows
  BY ElementOfSeq, LenProperties
<1>2. IsFiniteSet(P) /\ IsFiniteSet(Q)
  BY CountType
<1>3. ASSUME NEW i \in P
      PROVE  Cardinality(InClass(P, f, f[i])) <= Cardinality(InClass(Q, g, f[i]))
  <2> DEFINE c == Left(fine, s[i])
  <2>1. i \in DOMAIN s /\ s[i] \in ProperRows /\ Left(coarse, s[i]) = left
    BY <1>1 DEF PlacesIn, InBucket
  <2>2. \A r \in ProperRows : Left(fine, r) = c => Left(coarse, r) = left
    BY <2>1
  <2>3. InClass(P, f, f[i]) = PlacesIn(InBucket(fine, c) \cap X, s)
    BY <1>1, <2>1, <2>2 DEF InClass, PlacesIn, InBucket
  <2>4. InClass(Q, g, f[i]) = PlacesIn(InBucket(fine, c) \cap Y, t)
    BY <1>1, <2>1, <2>2 DEF InClass, PlacesIn, InBucket
  <2>5. Count(InBucket(fine, c) \cap X, s) <= Count(InBucket(fine, c) \cap Y, t)
    BY <2>1 DEF ToSet
  <2> HIDE DEF P, Q, f, g, c
  <2>6. QED  BY <2>3, <2>4, <2>5 DEF Count
<1>4. /\ Count(InBucket(coarse, left) \cap X, s) = Cardinality(P)
      /\ Count(InBucket(coarse, left) \cap Y, t) = Cardinality(Q)
  BY DEF Count
<1> HIDE DEF P, Q, f, g
<1>5. Cardinality(P) <= Cardinality(Q)
  BY <1>2, <1>3, ClassByClass
<1>6. QED  BY <1>4, <1>5

LEMMA SpreadNests ==
    ASSUME oracle \in Seq(ProperRows), output \in Seq(ProperRows), NEW fine, NEW coarse, NEW left,
           \A r, q \in ProperRows : Left(fine, r) = Left(fine, q) => Left(coarse, r) = Left(coarse, q),
           \A r \in ToSet(oracle) \cup ToSet(output) : Spread(fine, Left(fine, r))
    PROVE  Spread(coarse, left)
<1> DEFINE UpToV(v) == {r \in ProperRows : r.value <= v}
<1>1. ASSUME NEW level, NEW c
      PROVE  /\ InBucket(level, c) = InBucket(level, c) \cap ProperRows
             /\ \A v : Under(level, c, v) = InBucket(level, c) \cap UpToV(v)
  BY DEF InBucket, Under
<1>2. ASSUME NEW r \in ToSet(oracle) \cup ToSet(output)
      PROVE  /\ Count(InBucket(fine, Left(fine, r)), output) = Count(InBucket(fine, Left(fine, r)), oracle)
             /\ Count(InBucket(fine, Left(fine, r)), oracle) \in Nat
             /\ \A v \in Int :
                   /\ Count(Under(fine, Left(fine, r), v), oracle)
                         <= Count(Under(fine, Left(fine, r), v + 1), output)
                   /\ Count(Under(fine, Left(fine, r), v), output)
                         <= Count(Under(fine, Left(fine, r), v + 1), oracle)
  BY <1>2, CountType DEF Spread
<1>3. ASSUME NEW v \in Int
      PROVE  /\ Count(Under(coarse, left, v), oracle) <= Count(Under(coarse, left, v + 1), output)
             /\ Count(Under(coarse, left, v), output) <= Count(Under(coarse, left, v + 1), oracle)
  <2> DEFINE X == UpToV(v)
             Y == UpToV(v + 1)
  <2>1. \A level, c : /\ Under(level, c, v) = InBucket(level, c) \cap X
                      /\ Under(level, c, v + 1) = InBucket(level, c) \cap Y
    BY <1>1
  <2> HIDE DEF X, Y
  <2>2. ASSUME NEW r \in ToSet(oracle)
        PROVE  Count(InBucket(fine, Left(fine, r)) \cap X, oracle)
                  <= Count(InBucket(fine, Left(fine, r)) \cap Y, output)
    <3>1. Count(Under(fine, Left(fine, r), v), oracle) <= Count(Under(fine, Left(fine, r), v + 1), output)
      BY <1>2
    <3>2. QED  BY <2>1, <3>1
  <2>3. ASSUME NEW r \in ToSet(output)
        PROVE  Count(InBucket(fine, Left(fine, r)) \cap X, output)
                  <= Count(InBucket(fine, Left(fine, r)) \cap Y, oracle)
    <3>1. Count(Under(fine, Left(fine, r), v), output) <= Count(Under(fine, Left(fine, r), v + 1), oracle)
      BY <1>2
    <3>2. QED  BY <2>1, <3>1
  <2>4. Count(InBucket(coarse, left) \cap X, oracle) <= Count(InBucket(coarse, left) \cap Y, output)
    BY <2>2, PutTogether
  <2>5. Count(InBucket(coarse, left) \cap X, output) <= Count(InBucket(coarse, left) \cap Y, oracle)
    BY <2>3, PutTogether
  <2>6. QED  BY <2>1, <2>4, <2>5
<1>4. Count(InBucket(coarse, left), output) = Count(InBucket(coarse, left), oracle)
  <2>1. ASSUME NEW r \in ToSet(oracle) \cup ToSet(output)
        PROVE  /\ Count(InBucket(fine, Left(fine, r)) \cap ProperRows, oracle)
                     <= Count(InBucket(fine, Left(fine, r)) \cap ProperRows, output)
               /\ Count(InBucket(fine, Left(fine, r)) \cap ProperRows, output)
                     <= Count(InBucket(fine, Left(fine, r)) \cap ProperRows, oracle)
    <3> DEFINE A == InBucket(fine, Left(fine, r))
    <3>1. A \cap ProperRows = A
      BY <1>1
    <3>2. Count(A, output) = Count(A, oracle) /\ Count(A, oracle) \in Nat
      <4>1. Spread(fine, Left(fine, r))
        BY <2>1
      <4>2. Count(A, output) = Count(A, oracle)
        BY <4>1 DEF Spread
      <4> HIDE DEF A
      <4>3. QED  BY <4>2, CountType
    <3> HIDE DEF A
    <3>3. /\ Count(A \cap ProperRows, oracle) <= Count(A \cap ProperRows, output)
          /\ Count(A \cap ProperRows, output) <= Count(A \cap ProperRows, oracle)
      <4>1. /\ Count(A \cap ProperRows, output) = Count(A, output)
            /\ Count(A \cap ProperRows, oracle) = Count(A, oracle)
        BY <3>1, Zenon
      <4>2. QED  BY <3>2, <4>1
    <3>4. QED  BY <3>3 DEF A
  <2>2. Count(InBucket(coarse, left) \cap ProperRows, oracle)
           <= Count(InBucket(coarse, left) \cap ProperRows, output)
    BY <2>1, PutTogether
  <2>3. Count(InBucket(coarse, left) \cap ProperRows, output)
           <= Count(InBucket(coarse, left) \cap ProperRows, oracle)
    BY <2>1, PutTogether
  <2>4. Count(InBucket(coarse, left), oracle) \in Nat /\ Count(InBucket(coarse, left), output) \in Nat
    BY CountType
  <2> DEFINE A == InBucket(coarse, left)
  <2>5. A \cap ProperRows = A
    BY <1>1
  <2> HIDE DEF A
  <2>6. Count(A, output) = Count(A, oracle)
    <3>1. Count(A, oracle) <= Count(A, output) /\ Count(A, output) <= Count(A, oracle)
      BY <2>2, <2>3, <2>5 DEF A
    <3>2. Count(A, oracle) \in Nat /\ Count(A, output) \in Nat
      BY <2>4 DEF A
    <3>3. QED  BY <3>1, <3>2
  <2>7. QED  BY <2>6 DEF A
<1>5. ASSUME NEW r \in ToSet(output)  PROVE r.value # 0
  <2>1. Spread(fine, Left(fine, r))
    OBVIOUS
  <2>2. QED  BY <2>1 DEF Spread
<1>6. QED  BY <1>3, <1>4, <1>5 DEF Spread

\* A match is the same rows in number, and buckets that are spread alike.
LEMMA MatchSpread ==
    ASSUME ScoreType, NEW level
    PROVE  ProjectedMatch(level) <=>
              /\ Malformed \notin ToSet(output)
              /\ Len(output) = Len(oracle)
              /\ \A r \in ToSet(oracle) \cup ToSet(output) : Spread(level, Left(level, r))
<1>1. oracle \in Seq(ProperRows)
  BY RowsAreProper DEF ScoreType
<1>2. Malformed \notin ToSet(output) => output \in Seq(ProperRows)
  BY RowsAreProper DEF ScoreType, ToSet
<1>3. QED  BY <1>1, <1>2, AgreeSpread DEF ProjectedMatch

\* Leaving out more fields never parts rows that agreed without them.
LEMMA FewerFields ==
    ASSUME NEW r, NEW q
    PROVE  /\ Left(1, r) = Left(1, q) => Left(2, r) = Left(2, q)
           /\ Left(2, r) = Left(2, q) => Left(3, r) = Left(3, q)
<1>1. ASSUME NEW x
      PROVE  /\ Left(1, x) = <<x.key, x.id>>
             /\ Left(2, x) = RowIdAside[x.key]
             /\ Left(3, x) = AggregationAside[RowIdAside[x.key]]
  BY DEF Left
<1>2. QED  BY <1>1

\* PROTOCOL.md's nesting of the levels: a program that matches the engine at a level matches
\* it at every level with fewer fields, although sorting may pair other values there.
THEOREM EachLevelHasTheNext == ScoreSpec => []LevelsNest
<1>1. ScoreInv => LevelsNest
  <2> SUFFICES ASSUME ScoreInv
               PROVE  /\ ProjectedMatch(1) => ProjectedMatch(2)
                      /\ ProjectedMatch(2) => ProjectedMatch(3)
    BY DEF LevelsNest
  <2>1. ScoreType
    BY DEF ScoreInv
  <2>2. oracle \in Seq(ProperRows)
    BY <2>1, RowsAreProper DEF ScoreType
  <2>3. ASSUME NEW fine, NEW coarse, ProjectedMatch(fine),
               \A r, q \in ProperRows : Left(fine, r) = Left(fine, q) => Left(coarse, r) = Left(coarse, q)
        PROVE  ProjectedMatch(coarse)
    <3>1. /\ Malformed \notin ToSet(output) /\ Len(output) = Len(oracle)
          /\ \A r \in ToSet(oracle) \cup ToSet(output) : Spread(fine, Left(fine, r))
      BY <2>1, <2>3, MatchSpread
    <3>2. output \in Seq(ProperRows)
      BY <2>1, <3>1, RowsAreProper DEF ScoreType, ToSet
    <3>3. \A left : Spread(coarse, left)
      BY <2>2, <2>3, <3>1, <3>2, SpreadNests
    <3>4. QED  BY <2>1, <3>1, <3>3, MatchSpread
  <2>4. QED  BY <2>3, FewerFields
<1>2. QED  BY <1>1, ScoreInvariant, PTL

(***************************************************************************)
(* What the exact pairs keep, value by value                               *)
(***************************************************************************)

KeyUpTo(k, v) == {r \in ProperRows : r.key = k /\ r.value <= v}
NoNumber == {r \in ProperRows : r.value = 0}
WrongId == {r \in ProperRows : ~r.id}

\* Of the rows of a key, as many of the engine's have been paired up to v as of the program's
\* up to v + 1 at most, and the other way round.
PairedUpTo(k, v) ==
    /\ Count(KeyUpTo(k, v), oracle) - (Count(KeyUpTo(k, v), leftover) + Count(KeyUpTo(k, v), todo))
          <= Count(KeyUpTo(k, v + 1), rows) - Count(KeyUpTo(k, v + 1), buckets)
    /\ Count(KeyUpTo(k, v), rows) - Count(KeyUpTo(k, v), buckets)
          <= Count(KeyUpTo(k, v + 1), oracle)
                - (Count(KeyUpTo(k, v + 1), leftover) + Count(KeyUpTo(k, v + 1), todo))

ExactPairs ==
    stage = "exact" =>
        /\ \A k : \A v \in Int : PairedUpTo(k, v)
        /\ Count(NoNumber, buckets) = Count(NoNumber, rows)
        /\ Count({FALSE}, exact) + Count(WrongId, buckets) = Count(WrongId, rows)

\* All rows are paired, each with a close one of its key: how they are spread
AllPaired ==
    /\ \A k : \A v \in Int :
          /\ Count(KeyUpTo(k, v), oracle) <= Count(KeyUpTo(k, v + 1), rows)
          /\ Count(KeyUpTo(k, v), rows) <= Count(KeyUpTo(k, v + 1), oracle)
    /\ \A k \in Keys : Count(OfKind(k), oracle) = Count(OfKind(k), rows)
    /\ Count(NoNumber, rows) = 0
    /\ Count({FALSE}, exact) = Count(WrongId, rows)

AfterPairs ==
    stage \notin {"split", "exact"} =>
        /\ Count({FALSE}, exact) <= Count(WrongId, rows)
        /\ Len(exact) = Len(oracle) /\ Len(exact) = Len(rows) => AllPaired

\* Rows without an ordered difference are paired in order, each with its own.
Alongside(left, pool) ==
    /\ Len(left) = Len(pool)
    /\ \A i \in 1 .. Len(left) :
          left[i].key = pool[i].key /\ Close(left[i].value, pool[i].value) /\ pool[i].id
AllTrue(s) == \A i \in 1 .. Len(s) : s[i] = TRUE

InOrder ==
    NoOrderedDifferences =>
        /\ stage # "split" => Len(rows) = Len(output)
        /\ stage = "exact" => leftover = << >> /\ AllTrue(exact) /\ Alongside(todo, buckets)
        /\ stage \notin {"split", "exact"} => AllTrue(exact) /\ Len(exact) = Len(oracle)

KeepsRows == stage # "split" => rows = WellFormed(output)

MeasuresInv == ScoreInv /\ KeepsRows /\ ExactPairs /\ AfterPairs /\ InOrder

LEMMA PairedLeaves ==
    ASSUME ScoreType, NEW k, NEW v \in Int, PairedUpTo(k, v), todo # << >>,
           oracle' = oracle, rows' = rows, buckets' = buckets,
           leftover' = Append(leftover, Head(todo)), todo' = Tail(todo)
    PROVE  PairedUpTo(k, v)'
<1> DEFINE W == ToSet(oracle)
<1>1. todo \in Seq(W) /\ leftover \in Seq(W)
  BY DEF ScoreType
<1>2. ASSUME NEW A
      PROVE  Count(A, leftover') + Count(A, todo') = Count(A, leftover) + Count(A, todo)
  BY <1>1, StepLeaves
<1> DEFINE A == KeyUpTo(k, v)
           B == KeyUpTo(k, v + 1)
<1>3. /\ Count(A, oracle) - (Count(A, leftover) + Count(A, todo)) <= Count(B, rows) - Count(B, buckets)
      /\ Count(A, rows) - Count(A, buckets) <= Count(B, oracle) - (Count(B, leftover) + Count(B, todo))
  BY DEF PairedUpTo
<1>4. A' = A /\ B' = B
  OBVIOUS
<1> HIDE DEF A, B
<1>5. /\ Count(A, oracle') - (Count(A, leftover') + Count(A, todo')) <= Count(B, rows') - Count(B, buckets')
      /\ Count(A, rows') - Count(A, buckets') <= Count(B, oracle') - (Count(B, leftover') + Count(B, todo'))
  <2>1. /\ Count(A, leftover') + Count(A, todo') = Count(A, leftover) + Count(A, todo)
        /\ Count(B, leftover') + Count(B, todo') = Count(B, leftover) + Count(B, todo)
    BY <1>2
  <2>2. QED  BY <1>3, <2>1, Zenon
<1>6. QED  BY <1>5 DEF A, B, PairedUpTo

LEMMA PairedPairs ==
    ASSUME ScoreType, NEW k, NEW v \in Int, PairedUpTo(k, v), todo # << >>,
           NEW i \in 1 .. Len(buckets),
           buckets[i].key = Head(todo).key, Close(Head(todo).value, buckets[i].value),
           oracle' = oracle, rows' = rows, buckets' = RemoveAt(buckets, i),
           leftover' = leftover, todo' = Tail(todo)
    PROVE  PairedUpTo(k, v)'
<1> DEFINE e == Head(todo)
           b == buckets[i]
           one(x, A) == IF x \in A THEN 1 ELSE 0
           A == KeyUpTo(k, v)
           B == KeyUpTo(k, v + 1)
<1>1. /\ todo \in Seq(ProperRows) /\ leftover \in Seq(ProperRows)
      /\ buckets \in Seq(ProperRows) /\ rows \in Seq(ProperRows) /\ oracle \in Seq(ProperRows)
  <2>1. ToSet(oracle) \subseteq ProperRows /\ ToSet(rows) \subseteq ProperRows
    BY InputTypes, RowsAreProper
  <2>2. QED  BY <2>1, RowsAreProper DEF ScoreType
<1>2. e \in ProperRows /\ b \in ProperRows /\ Tail(todo) \in Seq(ProperRows)
  BY <1>1, CountTail, ElementOfSeq
<1>3. e.value \in Nat /\ b.value \in Nat
  BY <1>2 DEF ProperRows
<1>4. (e \in A => b \in B) /\ (b \in A => e \in B)
  BY <1>2, <1>3 DEF KeyUpTo, Close
<1>5. ASSUME NEW C
      PROVE  /\ Count(C, todo) = one(e, C) + Count(C, todo')
             /\ Count(C, buckets) = one(b, C) + Count(C, buckets')
             /\ Count(C, todo') \in Nat /\ Count(C, buckets') \in Nat
             /\ Count(C, leftover) \in Nat /\ Count(C, oracle) \in Nat /\ Count(C, rows) \in Nat
  <2>1. todo' \in Seq(ProperRows) /\ Count(C, todo) = one(e, C) + Count(C, todo')
    BY <1>1, CountTail
  <2>2. buckets' \in Seq(ProperRows) /\ Count(C, buckets) = one(b, C) + Count(C, buckets')
    BY <1>1, CountRemoved
  <2>3. QED  BY <1>1, <2>1, <2>2, CountType
<1>6. /\ Count(A, oracle) - (Count(A, leftover) + Count(A, todo)) <= Count(B, rows) - Count(B, buckets)
      /\ Count(A, rows) - Count(A, buckets) <= Count(B, oracle) - (Count(B, leftover) + Count(B, todo))
  BY DEF PairedUpTo
<1>7. one(e, A) <= one(b, B) /\ one(b, A) <= one(e, B)
      /\ one(e, A) \in Nat /\ one(b, A) \in Nat /\ one(e, B) \in Nat /\ one(b, B) \in Nat
  BY <1>4
<1> HIDE DEF one, A, B, e, b
<1>8. /\ Count(A, oracle) - (Count(A, leftover) + Count(A, todo')) <= Count(B, rows) - Count(B, buckets')
      /\ Count(A, rows) - Count(A, buckets') <= Count(B, oracle) - (Count(B, leftover) + Count(B, todo'))
  <2>1. /\ Count(A, todo) = one(e, A) + Count(A, todo') /\ Count(A, buckets) = one(b, A) + Count(A, buckets')
        /\ Count(A, todo') \in Nat /\ Count(A, buckets') \in Nat
        /\ Count(A, leftover) \in Nat /\ Count(A, oracle) \in Nat /\ Count(A, rows) \in Nat
    BY <1>5
  <2>2. /\ Count(B, todo) = one(e, B) + Count(B, todo') /\ Count(B, buckets) = one(b, B) + Count(B, buckets')
        /\ Count(B, todo') \in Nat /\ Count(B, buckets') \in Nat
        /\ Count(B, leftover) \in Nat /\ Count(B, oracle) \in Nat /\ Count(B, rows) \in Nat
    BY <1>5
  <2> DEFINE ao == Count(A, oracle)
             al == Count(A, leftover)
             at == Count(A, todo)
             ah == Count(A, todo')
             ar == Count(A, rows)
             ab == Count(A, buckets)
             ac == Count(A, buckets')
             bo == Count(B, oracle)
             bl == Count(B, leftover)
             bt == Count(B, todo)
             bh == Count(B, todo')
             br == Count(B, rows)
             bb == Count(B, buckets)
             bc == Count(B, buckets')
             ea == one(e, A)
             ba == one(b, A)
             eb == one(e, B)
             bx == one(b, B)
  <2>3. /\ ao \in Nat /\ al \in Nat /\ ah \in Nat /\ ar \in Nat /\ ac \in Nat
        /\ bo \in Nat /\ bl \in Nat /\ bh \in Nat /\ br \in Nat /\ bc \in Nat
        /\ ea \in Nat /\ ba \in Nat /\ eb \in Nat /\ bx \in Nat /\ ea <= bx /\ ba <= eb
        /\ at = ea + ah /\ ab = ba + ac /\ bt = eb + bh /\ bb = bx + bc
        /\ ao - (al + at) <= br - bb /\ ar - ab <= bo - (bl + bt)
    BY <1>6, <1>7, <2>1, <2>2
  <2> HIDE DEF ao, al, at, ah, ar, ab, ac, bo, bl, bt, bh, br, bb, bc, ea, ba, eb, bx
  <2>4. ao - (al + ah) <= br - bc /\ ar - ac <= bo - (bl + bh)
    BY <2>3
  <2>5. QED  BY <2>4 DEF ao, al, ah, ar, ac, bo, bl, bh, br, bc
<1>9. QED  BY <1>8 DEF A, B, PairedUpTo

\* Without malformed rows the rows that are scored are the output, in its order.
LEMMA AllWellFormed ==
    ASSUME NEW s \in Seq(OutputRows), Malformed \notin ToSet(s)
    PROVE  WellFormed(s) = s
<1> DEFINE first(n) == SubSeq(s, 1, n)
           N == Len(s)
<1>1. PICK kept : /\ kept[0] = << >> /\ WellFormed(s) = kept[N]
                  /\ \A n \in 0 .. N : kept[n] \in Seq(ProperRows)
                  /\ \A n \in 1 .. N :
                        kept[n] = IF s[n] = Malformed THEN kept[n - 1] ELSE Append(kept[n - 1], s[n])
  BY WellFormedSteps
<1>2. N \in Nat /\ \A n \in 1 .. N : s[n] \in OutputRows /\ s[n] # Malformed
  BY LenProperties, ElementOfSeq DEF ToSet
<1>3. first(0) = << >> /\ first(N) = s
  BY SubSeqEmpty, SubSeqFull
<1>4. \A n \in 1 .. N : first(n) = Append(first(n - 1), s[n])
  <2> SUFFICES ASSUME NEW n \in 1 .. N  PROVE first(n) = Append(first(n - 1), s[n])
    OBVIOUS
  <2>1. first(n) = first(n - 1) \o <<s[n]>>
    <3>1. 1 \in 1 .. N /\ n \in 1 .. N /\ n - 1 \in Int /\ 1 \in Int
      BY <1>2
    <3>2. QED  BY <3>1, SubSeqRecursiveSecond
  <2>2. first(n - 1) \in Seq(OutputRows) /\ s[n] \in OutputRows
    <3>1. n - 1 \in Int /\ 1 \in Int /\ \A j \in 1 .. n - 1 : s[j] \in OutputRows
      BY <1>2
    <3>2. QED  BY <1>2, <3>1, SubSeqProperties
  <2> HIDE DEF first
  <2>3. first(n - 1) \o <<s[n]>> = Append(first(n - 1), s[n])
    BY <2>2
  <2>4. QED  BY <2>1, <2>3
<1> HIDE DEF first, N
<1> DEFINE same == [n \in 0 .. N |-> IF kept[n] = first(n) THEN 1 ELSE 0]
           V == {1}
<1>5. same[0] \in V
  BY <1>1, <1>2, <1>3
<1>6. ASSUME NEW n \in 1 .. N, same[n - 1] \in V  PROVE same[n] \in V
  <2>1. n \in 0 .. N /\ n - 1 \in 0 .. N
    BY <1>2
  <2>2. kept[n - 1] = first(n - 1)
    BY <1>6, <2>1
  <2>3. kept[n] = Append(kept[n - 1], s[n])
    BY <1>1, <1>2
  <2>4. kept[n] = first(n)
    BY <1>4, <2>2, <2>3, Zenon
  <2>5. QED  BY <2>1, <2>4
<1> HIDE DEF same, V
<1>7. \A n \in 0 .. N : same[n] \in V
  BY <1>2, <1>5, <1>6, RecursionStays
<1>8. kept[N] = first(N)
  BY <1>2, <1>7 DEF same, V
<1>9. QED  BY <1>1, <1>3, <1>8

LEMMA FirstRemoved ==
    ASSUME NEW S, NEW s \in Seq(S), s # << >>
    PROVE  /\ Len(RemoveAt(s, 1)) = Len(s) - 1 /\ 1 \in 1 .. Len(s)
           /\ \A i \in 1 .. Len(s) - 1 : RemoveAt(s, 1)[i] = s[i + 1]
<1>1. Len(s) \in Nat /\ 1 \in 1 .. Len(s) /\ Len(s) \in Int
  OBVIOUS
<1> DEFINE rest == SubSeq(s, 2, Len(s))
<1>2. /\ rest \in Seq(S) /\ Len(rest) = Len(s) - 1
      /\ \A i \in 1 .. Len(s) - 1 : rest[i] = s[i + 1]
  <2>1. \A j \in 2 .. Len(s) : s[j] \in S
    BY <1>1, ElementOfSeq
  <2>2. /\ rest \in Seq(S)
        /\ Len(rest) = IF 2 <= Len(s) THEN Len(s) - 2 + 1 ELSE 0
        /\ \A j \in 1 .. Len(s) - 2 + 1 : rest[j] = s[2 + j - 1]
    BY <1>1, <2>1, SubSeqProperties
  <2> HIDE DEF rest
  <2>3. Len(s) >= 1 /\ Len(s) - 2 + 1 = Len(s) - 1
    BY <1>1
  <2>4. Len(rest) = Len(s) - 1
    <3>1. Len(rest) = IF 2 <= Len(s) THEN Len(s) - 2 + 1 ELSE 0
      BY <2>2
    <3> DEFINE n == Len(s)
               m == Len(rest)
    <3>2. m = (IF 2 <= n THEN n - 2 + 1 ELSE 0) /\ n \in Nat /\ n >= 1
      BY <1>1, <2>3, <3>1
    <3> HIDE DEF n, m
    <3>3. m = n - 1
      BY <3>2
    <3>4. QED  BY <3>3 DEF n, m
  <2>5. ASSUME NEW i \in 1 .. Len(s) - 1  PROVE rest[i] = s[i + 1]
    <3>1. i \in 1 .. Len(s) - 2 + 1 /\ 2 + i - 1 = i + 1
      BY <2>3
    <3>2. rest[i] = s[2 + i - 1]
      BY <2>2, <3>1
    <3>3. QED  BY <3>1, <3>2, Zenon
  <2>6. QED  BY <2>2, <2>4, <2>5
<1>3. SubSeq(s, 1, 0) = << >>
  BY SubSeqEmpty
<1>4. RemoveAt(s, 1) = SubSeq(s, 1, 1 - 1) \o SubSeq(s, 1 + 1, Len(s))
  BY DEF RemoveAt
<1>5. 1 - 1 = 0 /\ 1 + 1 = 2
  OBVIOUS
<1>6. RemoveAt(s, 1) = << >> \o rest
  BY <1>3, <1>4, <1>5, Zenon
<1> HIDE DEF rest
<1>7. << >> \o rest = rest
  BY <1>2
<1>8. RemoveAt(s, 1) = rest
  BY <1>6, <1>7, Zenon
<1>9. QED  BY <1>1, <1>2, <1>8, Zenon

\* Whose row is the head of the program's finds it.
LEMMA FirstExactIsFirst ==
    ASSUME NEW e, NEW P, buckets \in Seq(P), buckets # << >>,
           e.key = buckets[1].key, Close(e.value, buckets[1].value)
    PROVE  FirstExact(e) = 1
<1> DEFINE I == {j \in 1 .. Len(buckets) :
                    buckets[j].key = e.key /\ Close(e.value, buckets[j].value)}
<1>1. FirstExact(e) = IF I # {} THEN Min(I) ELSE 0
  BY DEF FirstExact, SelectInSeq
<1>2. 1 \in 1 .. Len(buckets)
  OBVIOUS
<1>3. 1 \in I /\ \A j \in I : j \in Nat /\ 1 <= j
  BY <1>2
<1> HIDE DEF I
<1>4. Min(I) \in I /\ Min(I) <= 1
  BY <1>3 DEF Min
<1>5. QED  BY <1>1, <1>3, <1>4

LEMMA MeasuresInit == ScoreInit => MeasuresInv
BY InitInv DEF ScoreInit, MeasuresInv, KeepsRows, ExactPairs, AfterPairs, InOrder

LEMMA DifferencesStay ==
    ASSUME oracle' = oracle, output' = output
    PROVE  NoOrderedDifferences' <=> NoOrderedDifferences
BY DEF NoOrderedDifferences

LEMMA MeasuresSplit == MeasuresInv /\ Split => MeasuresInv'
<1> SUFFICES ASSUME MeasuresInv, Split  PROVE MeasuresInv'
  OBVIOUS
<1> USE DEF Split, inputs
<1>1. ScoreInv /\ ScoreInv' /\ stage = "split" /\ stage' = "exact"
  BY SplitKeeps DEF MeasuresInv
<1>2. /\ ScoreType /\ ScoreType'
      /\ oracle' = oracle /\ output' = output /\ todo' = oracle /\ buckets' = rows'
      /\ leftover' = << >> /\ exact' = << >> /\ rows' = WellFormed(output)
  BY <1>1 DEF ScoreInv, SplitInv
<1>3. oracle \in Seq(OracleRows) /\ rows' \in Seq(ProperRows) /\ output \in Seq(OutputRows)
  BY <1>2 DEF ScoreType
<1>4. \A A : /\ Count(A, oracle) \in Nat /\ Count(A, rows') \in Nat
             /\ Count(A, << >>) = 0
  BY <1>3, CountType, CountNone
<1>5. ExactPairs'
  <2>1. ASSUME NEW k, NEW v \in Int  PROVE PairedUpTo(k, v)'
    <3> DEFINE A == KeyUpTo(k, v)
               B == KeyUpTo(k, v + 1)
    <3>1. /\ Count(A, oracle) \in Nat /\ Count(A, rows') \in Nat /\ Count(A, << >>) = 0
          /\ Count(B, oracle) \in Nat /\ Count(B, rows') \in Nat /\ Count(B, << >>) = 0
      BY <1>4
    <3> HIDE DEF A, B
    <3>2. /\ Count(A, oracle) - (Count(A, << >>) + Count(A, oracle)) <= Count(B, rows') - Count(B, rows')
          /\ Count(A, rows') - Count(A, rows') <= Count(B, oracle) - (Count(B, << >>) + Count(B, oracle))
      BY <3>1
    <3>3. QED  BY <1>2, <3>2 DEF A, B, PairedUpTo
  <2>2. Count({FALSE}, exact') + Count(WrongId, buckets') = Count(WrongId, rows')
    BY <1>2, <1>4
  <2>3. Count(NoNumber, buckets') = Count(NoNumber, rows')
    BY <1>2
  <2>4. QED  BY <2>1, <2>2, <2>3 DEF ExactPairs
<1>6. InOrder'
  <2> SUFFICES ASSUME NoOrderedDifferences'
               PROVE  /\ Len(rows') = Len(output')
                      /\ leftover' = << >> /\ AllTrue(exact') /\ Alongside(todo', buckets')
    BY <1>1 DEF InOrder
  <2>1. NoOrderedDifferences
    BY <1>2, DifferencesStay
  <2>2. rows' = output
    BY <1>2, <1>3, <2>1, AllWellFormed DEF NoOrderedDifferences
  <2>3. Alongside(oracle, output)
    <3>1. DOMAIN output = 1 .. Len(output)
      BY <1>3, LenProperties
    <3>2. QED  BY <2>1, <3>1 DEF NoOrderedDifferences, Alongside
  <2>4. AllTrue(<< >>)
    BY DEF AllTrue
  <2>5. QED  BY <1>2, <2>2, <2>3, <2>4
<1>7. AfterPairs'
  BY <1>1 DEF AfterPairs
<1>8. QED  BY <1>1, <1>2, <1>5, <1>6, <1>7 DEF MeasuresInv, KeepsRows

LEMMA MeasuresPairExact == MeasuresInv /\ PairExact => MeasuresInv'
<1> SUFFICES ASSUME MeasuresInv, PairExact  PROVE MeasuresInv'
  OBVIOUS
<1> DEFINE e == Head(todo)
           i == FirstExact(e)
<1>1. /\ ScoreInv /\ ScoreInv' /\ ScoreType /\ ScoreType' /\ stage = "exact" /\ stage' = "exact"
      /\ oracle' = oracle /\ rows' = rows /\ output' = output /\ todo # << >> /\ todo' = Tail(todo)
  BY PairExactKeeps DEF MeasuresInv, ScoreInv, PairExact, inputs
<1>2. /\ todo \in Seq(ToSet(oracle)) /\ buckets \in Seq(ToSet(rows))
      /\ ToSet(rows) \subseteq ProperRows /\ buckets \in Seq(ProperRows)
      /\ exact \in Seq(BOOLEAN)
  <2>1. ToSet(rows) \subseteq ProperRows
    BY <1>1, InputTypes
  <2>2. {b.id : b \in ProperRows} \subseteq BOOLEAN
    BY DEF ProperRows
  <2>3. exact \in Seq({b.id : b \in ProperRows})
    BY <1>1 DEF ScoreType
  <2>4. exact \in Seq(BOOLEAN)
    BY <2>2, <2>3
  <2>5. QED  BY <1>1, <2>1, <2>4 DEF ScoreType
<1>3. /\ \A k : \A v \in Int : PairedUpTo(k, v)
      /\ Count(NoNumber, buckets) = Count(NoNumber, rows)
      /\ Count({FALSE}, exact) + Count(WrongId, buckets) = Count(WrongId, rows)
  BY <1>1 DEF MeasuresInv, ExactPairs
<1>4. NoOrderedDifferences' =>
         /\ NoOrderedDifferences /\ Len(rows) = Len(output)
         /\ leftover = << >> /\ AllTrue(exact) /\ Alongside(todo, buckets)
  BY <1>1, DifferencesStay DEF MeasuresInv, InOrder
<1>5. AfterPairs'
  BY <1>1 DEF AfterPairs
<1>6. /\ i = 0 => /\ leftover' = Append(leftover, e) /\ buckets' = buckets /\ exact' = exact
      /\ i # 0 => /\ leftover' = leftover /\ buckets' = RemoveAt(buckets, i)
                  /\ exact' = Append(exact, buckets[i].id)
  BY DEF PairExact, Pop
<1>7. i # 0 => i \in 1 .. Len(buckets) /\ buckets[i].key = e.key /\ Close(e.value, buckets[i].value)
  BY <1>2, FirstExactFinds
<1>8. Alongside(todo, buckets) => i = 1 /\ buckets # << >>
  <2> SUFFICES ASSUME Alongside(todo, buckets)  PROVE i = 1 /\ buckets # << >>
    OBVIOUS
  <2>1. Len(todo) \in Nat /\ 1 \in 1 .. Len(todo) /\ e = todo[1]
    BY <1>1, <1>2
  <2>2. /\ Len(todo) = Len(buckets) /\ e.key = buckets[1].key /\ Close(e.value, buckets[1].value)
    BY <2>1 DEF Alongside
  <2>3. buckets # << >>
    BY <2>1, <2>2
  <2>4. QED  BY <1>2, <2>2, <2>3, FirstExactIsFirst
<1> HIDE DEF e, i
<1>9. ExactPairs'
  <2>1. CASE i = 0
    <3>1. ASSUME NEW k, NEW v \in Int  PROVE PairedUpTo(k, v)'
      BY <1>1, <1>3, <1>6, <2>1, <3>1, PairedLeaves DEF e
    <3>2. QED  BY <1>1, <1>3, <1>6, <2>1, <3>1 DEF ExactPairs
  <2>2. CASE i # 0
    <3>1. ASSUME NEW k, NEW v \in Int  PROVE PairedUpTo(k, v)'
      BY <1>1, <1>3, <1>6, <1>7, <2>2, <3>1, PairedPairs DEF e
    <3>2. buckets[i] \in ProperRows /\ buckets[i].id \in BOOLEAN
      <4>1. buckets[i] \in ProperRows
        BY <1>2, <1>7, <2>2, ElementOfSeq
      <4>2. QED  BY <4>1 DEF ProperRows
    <3>3. ASSUME NEW A
          PROVE  /\ Count(A, buckets) = (IF buckets[i] \in A THEN 1 ELSE 0) + Count(A, buckets')
                 /\ Count(A, buckets') \in Nat
      <4>1. /\ Count(A, buckets) = (IF buckets[i] \in A THEN 1 ELSE 0) + Count(A, RemoveAt(buckets, i))
            /\ RemoveAt(buckets, i) \in Seq(ProperRows)
        BY <1>2, <1>7, <2>2, CountRemoved
      <4>2. QED  BY <1>6, <2>2, <4>1, CountType
    <3>4. Count(NoNumber, buckets') = Count(NoNumber, rows')
      <4>1. buckets[i] \notin NoNumber
        BY <1>7, <2>2 DEF NoNumber, Close, NotNumeric
      <4>2. QED  BY <1>1, <1>3, <3>3, <4>1
    <3>5. Count({FALSE}, exact') + Count(WrongId, buckets') = Count(WrongId, rows')
      <4> DEFINE one == IF buckets[i].id THEN 0 ELSE 1
      <4>1. Count({FALSE}, exact') = Count({FALSE}, exact) + one
        <5>1. Count({FALSE}, Append(exact, buckets[i].id))
                 = Count({FALSE}, exact) + (IF buckets[i].id \in {FALSE} THEN 1 ELSE 0)
          BY <1>2, <3>2, CountAppend
        <5>2. QED  BY <1>6, <2>2, <3>2, <5>1
      <4>2. Count(WrongId, buckets) = one + Count(WrongId, buckets')
        <5>1. buckets[i] \in WrongId <=> ~buckets[i].id
          BY <3>2 DEF WrongId
        <5>2. (IF buckets[i] \in WrongId THEN 1 ELSE 0) = one
          BY <5>1
        <5> HIDE DEF one
        <5>3. QED  BY <3>3, <5>2
      <4>3. one \in Nat /\ Count({FALSE}, exact) \in Nat /\ Count(WrongId, buckets') \in Nat
        BY <1>2, <3>3, CountType
      <4> HIDE DEF one
      <4>4. Count({FALSE}, exact) + one + Count(WrongId, buckets') = Count(WrongId, rows)
        BY <1>3, <4>2, <4>3
      <4>5. QED  BY <1>1, <4>1, <4>4
    <3>6. QED  BY <3>1, <3>4, <3>5 DEF ExactPairs
  <2>3. QED  BY <2>1, <2>2
<1>10. InOrder'
  <2> SUFFICES ASSUME NoOrderedDifferences'
               PROVE  /\ Len(rows') = Len(output')
                      /\ leftover' = << >> /\ AllTrue(exact') /\ Alongside(todo', buckets')
    BY <1>1 DEF InOrder
  <2>1. /\ Len(rows) = Len(output) /\ leftover = << >> /\ AllTrue(exact)
        /\ Alongside(todo, buckets) /\ i = 1 /\ buckets # << >>
    BY <1>4, <1>8
  <2>2. leftover' = << >> /\ buckets' = RemoveAt(buckets, 1) /\ exact' = Append(exact, buckets[1].id)
    BY <1>6, <2>1
  <2>3. /\ Len(todo) = Len(buckets) /\ Len(todo) \in Nat /\ 1 \in 1 .. Len(todo)
        /\ \A j \in 1 .. Len(todo) :
              /\ todo[j].key = buckets[j].key /\ Close(todo[j].value, buckets[j].value)
              /\ buckets[j].id
    BY <1>1, <1>2, <2>1 DEF Alongside
  <2>4. AllTrue(exact')
    <3>1. buckets[1].id = TRUE
      <4>1. buckets[1] \in ProperRows
        BY <1>2, <2>3, ElementOfSeq
      <4>2. buckets[1].id \in BOOLEAN
        BY <4>1 DEF ProperRows
      <4>3. QED  BY <2>3, <4>2
    <3>2. exact' = Append(exact, TRUE)
      BY <2>2, <3>1
    <3>3. QED  BY <1>2, <2>1, <3>2 DEF AllTrue
  <2>5. /\ Len(buckets') = Len(buckets) - 1
        /\ \A j \in 1 .. Len(buckets) - 1 : buckets'[j] = buckets[j + 1]
    BY <1>2, <2>1, <2>2, FirstRemoved
  <2>6. /\ Len(todo') = Len(todo) - 1
        /\ \A j \in 1 .. Len(todo) - 1 : todo'[j] = todo[j + 1]
    BY <1>1, <1>2
  <2>7. Alongside(todo', buckets')
    <3>1. \A j \in 1 .. Len(todo) - 1 : j + 1 \in 1 .. Len(todo)
      BY <2>3
    <3>2. QED  BY <2>3, <2>5, <2>6, <3>1 DEF Alongside
  <2>8. QED  BY <1>1, <2>1, <2>2, <2>4, <2>7
<1>11. KeepsRows'
  BY <1>1 DEF MeasuresInv, KeepsRows
<1>12. QED  BY <1>1, <1>5, <1>9, <1>10, <1>11 DEF MeasuresInv

LEMMA MeasuresEndExact == MeasuresInv /\ EndExact => MeasuresInv'
<1> SUFFICES ASSUME MeasuresInv, EndExact  PROVE MeasuresInv'
  OBVIOUS
<1>1. /\ ScoreInv /\ ScoreInv' /\ ScoreType /\ ExactInv /\ stage = "exact" /\ stage' = "mismatch"
      /\ oracle' = oracle /\ rows' = rows /\ output' = output /\ todo = << >> /\ exact' = exact
  BY EndExactKeeps DEF MeasuresInv, ScoreInv, EndExact, inputs, score
<1>2. /\ leftover \in Seq(ToSet(oracle)) /\ buckets \in Seq(ToSet(rows))
      /\ rows \in Seq(ProperRows) /\ exact \in Seq({b.id : b \in ProperRows})
      /\ oracle \in Seq(OracleRows)
  BY <1>1 DEF ScoreType
<1>3. /\ \A k : \A v \in Int : PairedUpTo(k, v)
      /\ Count(NoNumber, buckets) = Count(NoNumber, rows)
      /\ Count({FALSE}, exact) + Count(WrongId, buckets) = Count(WrongId, rows)
  BY <1>1 DEF MeasuresInv, ExactPairs
<1>4. /\ Len(exact) + Len(leftover) + Len(todo) = Len(oracle) /\ Len(exact) + Len(buckets) = Len(rows)
      /\ Len(exact) \in Nat /\ Len(leftover) \in Nat /\ Len(buckets) \in Nat /\ Len(todo) = 0
  BY <1>1, <1>2, LenProperties DEF ExactInv
<1>5. Count({FALSE}, exact) <= Count(WrongId, rows)
  <2>1. Count({FALSE}, exact) \in Nat /\ Count(WrongId, buckets) \in Nat
    BY <1>2, CountType
  <2>2. QED  BY <1>3, <2>1
<1>6. ASSUME Len(exact) = Len(oracle), Len(exact) = Len(rows)  PROVE AllPaired
  <2>1. Len(leftover) = 0 /\ Len(buckets) = 0
    BY <1>4, <1>6
  <2>2. leftover = << >> /\ buckets = << >>
    BY <1>2, <2>1, EmptySeq
  <2>3. ASSUME NEW A
        PROVE  /\ Count(A, leftover) = 0 /\ Count(A, todo) = 0 /\ Count(A, buckets) = 0
               /\ Count(A, oracle) \in Nat /\ Count(A, rows) \in Nat /\ Count(A, exact) \in Nat
    BY <1>1, <1>2, <2>2, CountNone, CountType
  <2>4. ASSUME NEW k, NEW v \in Int
        PROVE  /\ Count(KeyUpTo(k, v), oracle) <= Count(KeyUpTo(k, v + 1), rows)
               /\ Count(KeyUpTo(k, v), rows) <= Count(KeyUpTo(k, v + 1), oracle)
    <3>1. PairedUpTo(k, v)
      BY <1>3
    <3> DEFINE A == KeyUpTo(k, v)
               B == KeyUpTo(k, v + 1)
    <3>2. /\ Count(A, oracle) - (Count(A, leftover) + Count(A, todo)) <= Count(B, rows) - Count(B, buckets)
          /\ Count(A, rows) - Count(A, buckets) <= Count(B, oracle) - (Count(B, leftover) + Count(B, todo))
      BY <3>1 DEF PairedUpTo
    <3> HIDE DEF A, B
    <3>3. Count(A, oracle) <= Count(B, rows) /\ Count(A, rows) <= Count(B, oracle)
      BY <2>3, <3>2
    <3>4. QED  BY <3>3 DEF A, B
  <2>5. ASSUME NEW k \in Keys  PROVE Count(OfKind(k), oracle) = Count(OfKind(k), rows)
    <3> DEFINE A == OfKind(k)
    <3>1. Balanced(A, leftover, todo, buckets)
      BY <1>1 DEF ExactInv, KeyKinds
    <3> HIDE DEF A
    <3>2. Count(A, leftover) + Count(A, todo) - Count(A, buckets) = Count(A, oracle) - Count(A, rows)
      BY <3>1 DEF Balanced
    <3>3. /\ Count(A, leftover) = 0 /\ Count(A, todo) = 0 /\ Count(A, buckets) = 0
          /\ Count(A, oracle) \in Nat /\ Count(A, rows) \in Nat
      BY <2>3
    <3>4. 0 + 0 - 0 = Count(A, oracle) - Count(A, rows)
      BY <3>2, <3>3
    <3>5. Count(A, oracle) = Count(A, rows)
      BY <3>3, <3>4
    <3>6. QED  BY <3>5 DEF A
  <2>6. Count(NoNumber, rows) = 0 /\ Count({FALSE}, exact) = Count(WrongId, rows)
    BY <1>3, <2>3
  <2>7. QED  BY <2>4, <2>5, <2>6 DEF AllPaired
<1>7. AfterPairs'
  <2>1. AllPaired => AllPaired'
    BY <1>1 DEF AllPaired
  <2>2. QED  BY <1>1, <1>5, <1>6, <2>1 DEF AfterPairs
<1>8. InOrder'
  <2> SUFFICES ASSUME NoOrderedDifferences'
               PROVE  Len(rows') = Len(output') /\ AllTrue(exact') /\ Len(exact') = Len(oracle')
    BY <1>1 DEF InOrder
  <2>1. Len(rows) = Len(output) /\ leftover = << >> /\ AllTrue(exact)
    BY <1>1, DifferencesStay DEF MeasuresInv, InOrder
  <2>2. Len(exact) = Len(oracle)
    BY <1>4, <2>1
  <2>3. QED  BY <1>1, <2>1, <2>2
<1>9. KeepsRows'
  BY <1>1 DEF MeasuresInv, KeepsRows
<1>10. QED  BY <1>1, <1>7, <1>8, <1>9 DEF MeasuresInv, ExactPairs

\* No later step changes the exact pairs.
LEMMA MeasuresLater ==
    ASSUME MeasuresInv, ScoreInv', stage \notin {"split", "exact"}, stage' \notin {"split", "exact"},
           UNCHANGED <<oracle, output, rows, exact>>
    PROVE  MeasuresInv'
<1>1. ExactPairs'
  BY DEF ExactPairs
<1>2. AfterPairs'
  BY DEF MeasuresInv, AfterPairs, AllPaired
<1>3. InOrder'
  BY DifferencesStay DEF MeasuresInv, InOrder
<1>4. KeepsRows'
  BY DEF MeasuresInv, KeepsRows
<1>5. QED  BY <1>1, <1>2, <1>3, <1>4 DEF MeasuresInv

LEMMA MeasuresStay ==
    ASSUME MeasuresInv, ScoreInv', UNCHANGED scoreVars
    PROVE  MeasuresInv'
<1>1. /\ oracle' = oracle /\ rows' = rows /\ output' = output /\ stage' = stage /\ todo' = todo
      /\ UNCHANGED <<buckets, exact, leftover>>
  BY DEF scoreVars, inputs, score
<1>2. ExactPairs'
  BY <1>1 DEF MeasuresInv, ExactPairs, PairedUpTo
<1>3. AfterPairs'
  BY <1>1 DEF MeasuresInv, AfterPairs, AllPaired
<1>4. InOrder'
  BY <1>1, DifferencesStay DEF MeasuresInv, InOrder
<1>5. KeepsRows'
  BY <1>1 DEF MeasuresInv, KeepsRows
<1>6. QED  BY <1>2, <1>3, <1>4, <1>5 DEF MeasuresInv

\* What the exact pairing keeps of every value and key holds of every run of the scoring, and
\* what it comes to when all rows are paired, or are paired in order, holds from then on.
THEOREM MeasuresInvariant == ScoreSpec => []MeasuresInv
<1>1. ScoreInv /\ ScoreInv' /\ MeasuresInv /\ [ScoreNext]_scoreVars => MeasuresInv'
  <2> SUFFICES ASSUME ScoreInv', MeasuresInv, [ScoreNext]_scoreVars  PROVE MeasuresInv'
    OBVIOUS
  <2>1. CASE UNCHANGED scoreVars
    BY <2>1, MeasuresStay
  <2>2. CASE Split
    BY <2>2, MeasuresSplit
  <2>3. CASE PairExact
    BY <2>3, MeasuresPairExact
  <2>4. CASE EndExact
    BY <2>4, MeasuresEndExact
  <2>5. CASE PairMismatched \/ EndMismatched \/ PairNear \/ EndNear \/ PairLenient \/ EndLenient
    <3>1. /\ stage \notin {"split", "exact"} /\ stage' \notin {"split", "exact"}
          /\ UNCHANGED <<oracle, output, rows, exact>>
      BY <2>5 DEF PairMismatched, EndMismatched, PairNear, EndNear, PairLenient, EndLenient,
                  inputs, score
    <3>2. QED  BY <3>1, MeasuresLater
  <2>6. QED  BY <2>1, <2>2, <2>3, <2>4, <2>5 DEF ScoreNext
<1>2. QED  BY <1>1, MeasuresInit, ScoreInvariant, PTL DEF ScoreSpec

(***************************************************************************)
(* The first level and the pass                                            *)
(***************************************************************************)

\* As many rows are scored as the program wrote only when none was malformed.
LEMMA WellFormedShorter ==
    ASSUME NEW s \in Seq(OutputRows), Len(WellFormed(s)) = Len(s)
    PROVE  Malformed \notin ToSet(s)
<1> DEFINE N == Len(s)
<1>1. PICK kept : /\ kept[0] = << >> /\ WellFormed(s) = kept[N]
                  /\ \A n \in 0 .. N : kept[n] \in Seq(ProperRows)
                  /\ \A n \in 1 .. N :
                        kept[n] = IF s[n] = Malformed THEN kept[n - 1] ELSE Append(kept[n - 1], s[n])
  BY WellFormedSteps
<1>2. N \in Nat /\ DOMAIN s = 1 .. N /\ \A n \in 1 .. N : s[n] \in OutputRows
  BY LenProperties, ElementOfSeq
<1>3. Len(kept[N]) = N
  BY <1>1
<1> HIDE DEF N
<1> DEFINE Fits(n) == /\ Len(kept[n]) <= n
                      /\ (\E m \in 1 .. n : s[m] = Malformed) => Len(kept[n]) < n
           fits == [n \in 0 .. N |-> IF Fits(n) THEN 1 ELSE 0]
           V == {1}
<1>4. Fits(0)
  BY <1>1
<1>5. ASSUME NEW n \in 1 .. N, Fits(n - 1)  PROVE Fits(n)
  <2>1. /\ n \in Nat /\ n - 1 \in 0 .. N /\ kept[n - 1] \in Seq(ProperRows)
        /\ Len(kept[n - 1]) \in Nat
    BY <1>1, <1>2, LenProperties
  <2>2. /\ Len(kept[n - 1]) <= n - 1
        /\ (\E m \in 1 .. n - 1 : s[m] = Malformed) => Len(kept[n - 1]) < n - 1
    BY <1>5
  <2>3. CASE s[n] = Malformed
    <3>1. kept[n] = kept[n - 1]
      BY <1>1, <2>3
    <3>2. Len(kept[n]) < n
      BY <2>1, <2>2, <3>1
    <3>3. QED  BY <2>1, <3>1, <3>2
  <2>4. CASE s[n] # Malformed
    <3>1. s[n] \in ProperRows
      BY <1>2, <2>4, RowsAreProper
    <3>2. kept[n] = Append(kept[n - 1], s[n])
      BY <1>1, <2>4
    <3>3. Len(kept[n]) = Len(kept[n - 1]) + 1
      BY <2>1, <3>1, <3>2, AppendProperties
    <3>4. (\E m \in 1 .. n : s[m] = Malformed) => \E m \in 1 .. n - 1 : s[m] = Malformed
      BY <2>1, <2>4
    <3>5. QED  BY <2>1, <2>2, <3>3, <3>4
  <2>5. QED  BY <2>3, <2>4
<1> HIDE DEF Fits
<1>6. fits[0] \in V /\ \A n \in 1 .. N : fits[n - 1] \in V => fits[n] \in V
  BY <1>2, <1>4, <1>5
<1> HIDE DEF fits, V
<1>7. \A n \in 0 .. N : fits[n] \in V
  BY <1>2, <1>6, RecursionStays
<1>8. Fits(N)
  BY <1>2, <1>7 DEF fits, V
<1>9. ~\E m \in 1 .. N : s[m] = Malformed
  BY <1>2, <1>3, <1>8 DEF Fits
<1>10. QED  BY <1>2, <1>9 DEF ToSet

\* All identity hashes match when no exact pair has a wrong one.
LEMMA IdsMatch ==
    ASSUME ScoreType
    PROVE  IdMatches = Len(exact) <=> Count({FALSE}, exact) = 0
<1> DEFINE good == {i \in DOMAIN exact : exact[i]}
<1>1. exact \in Seq(BOOLEAN)
  <2>1. {b.id : b \in ProperRows} \subseteq BOOLEAN /\ exact \in Seq({b.id : b \in ProperRows})
    BY DEF ProperRows, ScoreType
  <2>2. QED  BY <2>1
<1>2. DOMAIN exact = 1 .. Len(exact) /\ Len(exact) \in Nat /\ \A i \in DOMAIN exact : exact[i] \in BOOLEAN
  BY <1>1, LenProperties, ElementOfSeq
<1>3. IsFiniteSet(1 .. Len(exact)) /\ Cardinality(1 .. Len(exact)) = Len(exact)
  <2> DEFINE n == Len(exact)
  <2>1. n \in Nat /\ 1 \in Int /\ n \in Int
    BY <1>2
  <2> HIDE DEF n
  <2>2. IsFiniteSet(1 .. n) /\ Cardinality(1 .. n) = IF 1 > n THEN 0 ELSE n - 1 + 1
    BY <2>1, FS_Interval
  <2>3. IsFiniteSet(1 .. n) /\ Cardinality(1 .. n) = n
    BY <2>1, <2>2
  <2>4. QED  BY <2>3 DEF n
<1>4. good \subseteq 1 .. Len(exact)
  BY <1>2
<1>5. Count({FALSE}, exact) = 0 <=> \A i \in DOMAIN exact : exact[i] # FALSE
  <2>1. Count({FALSE}, exact) = 0 <=> \A i \in DOMAIN exact : exact[i] \notin {FALSE}
    BY <1>1, CountType
  <2>2. QED  BY <2>1
<1>6. (\A i \in DOMAIN exact : exact[i] # FALSE) <=> good = 1 .. Len(exact)
  <2>1. \A i \in DOMAIN exact : exact[i] # FALSE <=> exact[i]
    BY <1>2
  <2>2. QED  BY <1>2, <2>1
<1>7. IdMatches = Cardinality(good)
  BY DEF IdMatches
<1> HIDE DEF good
<1>8. Cardinality(good) = Len(exact) <=> good = 1 .. Len(exact)
  <2>1. Cardinality(1 .. Len(exact)) = Cardinality(good) => 1 .. Len(exact) = good
    BY <1>3, <1>4, FS_Subset
  <2>2. QED  BY <1>3, <2>1
<1>9. QED  BY <1>5, <1>6, <1>7, <1>8

\* A bucket of the first level is the rows of a key, where all identity hashes are right.
LEMMA KeyBucket ==
    ASSUME NEW s \in Seq(ProperRows), \A i \in DOMAIN s : s[i].id = TRUE, NEW k
    PROVE  /\ Count(InBucket(1, <<k, TRUE>>), s) = Count(OfKind(k), s)
           /\ \A v : Count(Under(1, <<k, TRUE>>, v), s) = Count(KeyUpTo(k, v), s)
<1>1. \A i \in DOMAIN s : s[i] \in ProperRows
  BY ElementOfSeq, LenProperties
<1>2. \A i \in DOMAIN s : Left(1, s[i]) = <<k, TRUE>> <=> s[i].key = k
  <2> SUFFICES ASSUME NEW i \in DOMAIN s  PROVE Left(1, s[i]) = <<k, TRUE>> <=> s[i].key = k
    OBVIOUS
  <2>1. \A r : Left(1, r) = <<r.key, r.id>>
    BY DEF Left
  <2>2. \A key, id : <<key, id>> = <<k, TRUE>> <=> key = k /\ id = TRUE
    OBVIOUS
  <2>3. Left(1, s[i]) = <<s[i].key, s[i].id>>
    BY <2>1
  <2>4. QED  BY <2>2, <2>3, Zenon
<1>3. PlacesIn(InBucket(1, <<k, TRUE>>), s) = PlacesIn(OfKind(k), s)
  BY <1>1, <1>2 DEF PlacesIn, InBucket, OfKind
<1>4. \A v : PlacesIn(Under(1, <<k, TRUE>>, v), s) = PlacesIn(KeyUpTo(k, v), s)
  BY <1>1, <1>2 DEF PlacesIn, Under, KeyUpTo
<1>5. QED  BY <1>3, <1>4 DEF Count

\* Rows without an ordered difference are spread alike, each place with itself.
LEMMA OrderedSpread ==
    ASSUME NoOrderedDifferences, oracle \in Seq(OracleRows), output \in Seq(ProperRows), NEW left
    PROVE  Spread(1, left)
<1>1. /\ DOMAIN oracle = DOMAIN output
      /\ \A i \in DOMAIN output :
            /\ oracle[i] \in ProperRows /\ output[i] \in ProperRows
            /\ oracle[i].key = output[i].key /\ oracle[i].id = TRUE /\ output[i].id = TRUE
            /\ Close(oracle[i].value, output[i].value)
  <2>1. DOMAIN oracle = 1 .. Len(oracle) /\ DOMAIN output = 1 .. Len(output)
    BY LenProperties
  <2>2. \A i \in DOMAIN oracle : oracle[i] \in OracleRows
    BY <2>1, ElementOfSeq
  <2>3. \A i \in DOMAIN output : output[i] \in ProperRows
    BY <2>1, ElementOfSeq
  <2>4. Len(output) = Len(oracle)
    BY DEF NoOrderedDifferences
  <2>5. \A r \in OracleRows : r \in ProperRows /\ r.id = TRUE
    BY RowsAreProper, RowsAssumption
  <2>6. \A r \in ProperRows : r.id \in BOOLEAN
    BY DEF ProperRows
  <2>7. ASSUME NEW i \in DOMAIN output
        PROVE  output[i].key = oracle[i].key /\ output[i].id /\ Close(oracle[i].value, output[i].value)
    BY DEF NoOrderedDifferences
  <2>8. QED  BY <2>1, <2>2, <2>3, <2>4, <2>5, <2>6, <2>7
<1>2. \A i \in DOMAIN output : Left(1, oracle[i]) = Left(1, output[i])
  BY <1>1 DEF Left
<1>3. \A i \in DOMAIN output :
         /\ oracle[i].value \in Nat /\ output[i].value \in Nat /\ output[i].value # 0
         /\ oracle[i].value <= output[i].value + 1 /\ output[i].value <= oracle[i].value + 1
  <2> SUFFICES ASSUME NEW i \in DOMAIN output
               PROVE  /\ oracle[i].value \in Nat /\ output[i].value \in Nat /\ output[i].value # 0
                      /\ oracle[i].value <= output[i].value + 1
                      /\ output[i].value <= oracle[i].value + 1
    OBVIOUS
  <2>1. \A r \in ProperRows : r.value \in Nat
    BY DEF ProperRows
  <2>2. oracle[i].value \in Nat /\ output[i].value \in Nat
    BY <1>1, <2>1
  <2>3. Close(oracle[i].value, output[i].value)
    BY <1>1
  <2>4. QED  BY <2>2, <2>3 DEF Close, NotNumeric
<1>4. PlacesIn(InBucket(1, left), oracle) = PlacesIn(InBucket(1, left), output)
  BY <1>1, <1>2 DEF PlacesIn, InBucket
<1>5. ASSUME NEW v \in Int
      PROVE  /\ PlacesIn(Under(1, left, v), oracle) \subseteq PlacesIn(Under(1, left, v + 1), output)
             /\ PlacesIn(Under(1, left, v), output) \subseteq PlacesIn(Under(1, left, v + 1), oracle)
  BY <1>1, <1>2, <1>3 DEF PlacesIn, Under
<1>6. oracle \in Seq(ProperRows)
  BY RowsAreProper
<1>7. ASSUME NEW v \in Int
      PROVE  /\ Count(Under(1, left, v), oracle) <= Count(Under(1, left, v + 1), output)
             /\ Count(Under(1, left, v), output) <= Count(Under(1, left, v + 1), oracle)
  <2>1. /\ IsFiniteSet(PlacesIn(Under(1, left, v + 1), output))
        /\ IsFiniteSet(PlacesIn(Under(1, left, v + 1), oracle))
    BY <1>6, CountType
  <2>2. QED  BY <1>5, <2>1, FS_Subset DEF Count
<1>8. \A r \in ToSet(output) : r.value # 0
  BY <1>3 DEF ToSet
<1>9. QED  BY <1>4, <1>7, <1>8 DEF Spread, Count

\* P2 of PROTOCOL.md: rows without an ordered difference pass with every identity hash, and
\* match the engine's at the first level.
THEOREM UndifferingPass == ScoreSpec => []NoDifferencePasses
<1>1. MeasuresInv => NoDifferencePasses
  <2> SUFFICES ASSUME MeasuresInv, stage = "end", NoOrderedDifferences
               PROVE  EngineIdentity /\ ProjectedMatch(1)
    BY DEF NoDifferencePasses
  <2>1. ScoreType /\ malformed = Len(output) - Len(rows)
    BY DEF MeasuresInv, ScoreInv, SplitInv
  <2>2. Len(rows) = Len(output) /\ AllTrue(exact) /\ Len(exact) = Len(oracle)
    BY DEF MeasuresInv, InOrder
  <2>3. Malformed \notin ToSet(output) /\ Len(output) = Len(oracle)
    BY DEF NoOrderedDifferences
  <2>4. /\ oracle \in Seq(OracleRows) /\ output \in Seq(OutputRows) /\ Len(output) \in Nat
        /\ exact \in Seq({b.id : b \in ProperRows})
    BY <2>1, LenProperties DEF ScoreType
  <2>5. Passed
    BY <2>1, <2>2, <2>3, <2>4 DEF Passed
  <2>6. \A i \in DOMAIN exact : exact[i] \notin {FALSE}
    <3>1. DOMAIN exact = 1 .. Len(exact)
      BY <2>4, LenProperties
    <3>2. QED  BY <2>2, <3>1 DEF AllTrue
  <2>7. Count({FALSE}, exact) = 0
    BY <2>4, <2>6, CountType
  <2>8. EngineIdentity
    BY <2>1, <2>5, <2>7, IdsMatch DEF EngineIdentity
  <2>9. output \in Seq(ProperRows)
    BY <2>3, <2>4, RowsAreProper DEF ToSet
  <2>10. \A left : Spread(1, left)
    BY <2>4, <2>9, OrderedSpread
  <2>11. QED  BY <2>1, <2>3, <2>8, <2>10, MatchSpread
<1>2. QED  BY <1>1, MeasuresInvariant, PTL

\* Where values cluster, a row of the engine is one of a bunch of close values between lo and hi
\* with a gap on either side: closeness does not reach from one bunch into another.
LEMMA Bunch ==
    ASSUME Clustered(AsWritten), ToSet(oracle) \subseteq OracleRows, ToSet(rows) \subseteq ProperRows,
           \A b \in ToSet(rows) : b.value # 0, NEW r \in ToSet(oracle)
    PROVE  \E lo, hi \in Int :
              /\ lo <= hi
              /\ \A t \in ToSet(oracle) \cup ToSet(rows) :
                    t.key = r.key =>
                       /\ t.value # lo - 1 /\ t.value # hi + 1
                       /\ t \in Kind(AsWritten, r) <=> lo <= t.value /\ t.value <= hi
<1> DEFINE all == ToSet(oracle) \cup ToSet(rows)
           x == r.value
           has(v) == \E t \in all : t.key = r.key /\ t.value = v
           lo == IF has(x - 1) THEN x - 1 ELSE x
           hi == IF has(x + 1) THEN x + 1 ELSE x
<1>1. \A t \in all : t \in ProperRows /\ t.value # NotNumeric /\ t.value \in Nat /\ t.key \in Keys
  <2>1. \A t \in all : t \in ProperRows /\ t.value # 0
    BY RowsAreProper
  <2>2. QED  BY <2>1 DEF ProperRows, NotNumeric
<1>2. ASSUME NEW s \in all, NEW t \in all, NEW u \in all, s.key = t.key, t.key = u.key,
             Close(s.value, t.value), Close(t.value, u.value)
      PROVE  Close(s.value, u.value)
  <2> DEFINE written == {b \in all : b.value # NotNumeric}
  <2>1. s \in written /\ t \in written /\ u \in written
    BY <1>1
  <2>2. \A k \in Keys : AsWritten[k] = k
    BY DEF AsWritten
  <2>3. AsWritten[s.key] = AsWritten[t.key] /\ AsWritten[t.key] = AsWritten[u.key]
    BY <1>2
  <2>4. QED  BY <1>2, <2>1, <2>3 DEF Clustered
<1>3. r \in all /\ x \in Nat /\ x \in Int
  BY <1>1
<1>4. ~(has(x - 1) /\ has(x + 1))
  <2> SUFFICES ASSUME has(x - 1), has(x + 1)  PROVE FALSE
    OBVIOUS
  <2>1. PICK s \in all : s.key = r.key /\ s.value = x - 1
    OBVIOUS
  <2>2. PICK u \in all : u.key = r.key /\ u.value = x + 1
    OBVIOUS
  <2>3. Close(s.value, r.value) /\ Close(r.value, u.value)
    BY <1>1, <1>3, <2>1, <2>2 DEF Close
  <2>4. Close(s.value, u.value)
    BY <1>2, <1>3, <2>1, <2>2, <2>3
  <2>5. QED  BY <1>3, <2>1, <2>2, <2>4 DEF Close
<1>5. ~(has(x - 1) /\ has(x - 2))
  <2> SUFFICES ASSUME has(x - 1), has(x - 2)  PROVE FALSE
    OBVIOUS
  <2>1. PICK s \in all : s.key = r.key /\ s.value = x - 1
    OBVIOUS
  <2>2. PICK u \in all : u.key = r.key /\ u.value = x - 2
    OBVIOUS
  <2>3. Close(u.value, s.value) /\ Close(s.value, r.value)
    BY <1>1, <1>3, <2>1, <2>2 DEF Close
  <2>4. Close(u.value, r.value)
    BY <1>2, <1>3, <2>1, <2>2, <2>3
  <2>5. QED  BY <1>3, <2>2, <2>4 DEF Close
<1>6. ~(has(x + 1) /\ has(x + 2))
  <2> SUFFICES ASSUME has(x + 1), has(x + 2)  PROVE FALSE
    OBVIOUS
  <2>1. PICK s \in all : s.key = r.key /\ s.value = x + 1
    OBVIOUS
  <2>2. PICK u \in all : u.key = r.key /\ u.value = x + 2
    OBVIOUS
  <2>3. Close(u.value, s.value) /\ Close(s.value, r.value)
    BY <1>1, <1>3, <2>1, <2>2 DEF Close
  <2>4. Close(u.value, r.value)
    BY <1>2, <1>3, <2>1, <2>2, <2>3
  <2>5. QED  BY <1>3, <2>2, <2>4 DEF Close
<1>7. lo \in Int /\ hi \in Int /\ lo <= hi
  BY <1>3
<1>8. ASSUME NEW t \in all, t.key = r.key
      PROVE  /\ t.value # lo - 1 /\ t.value # hi + 1
             /\ t \in Kind(AsWritten, r) <=> lo <= t.value /\ t.value <= hi
  <2> DEFINE v == t.value
  <2>1. v \in Nat /\ has(v) /\ t \in ProperRows /\ v # NotNumeric
    BY <1>1, <1>8
  <2>2. t \in Kind(AsWritten, r) <=> x - v \in -1 .. 1
    BY <1>8, <2>1 DEF Kind, Close
  <2>3. v = x - 2 => has(x - 2)
    BY <2>1
  <2>4. v = x + 2 => has(x + 2)
    BY <2>1
  <2>5. v = x - 1 => has(x - 1)
    BY <2>1
  <2>6. v = x + 1 => has(x + 1)
    BY <2>1
  <2> HIDE DEF has, v, x
  <2>7. /\ v # lo - 1 /\ v # hi + 1
        /\ x - v \in -1 .. 1 <=> lo <= v /\ v <= hi
    BY <1>3, <1>4, <1>5, <1>6, <2>1, <2>3, <2>4, <2>5, <2>6
  <2>8. QED  BY <2>2, <2>7 DEF v
<1> HIDE DEF lo, hi
<1>9. QED  BY <1>7, <1>8

LEMMA KeyUpToGrows ==
    ASSUME NEW s \in Seq(ProperRows), NEW k, NEW v \in Int, NEW w \in Int, v <= w
    PROVE  /\ Count(KeyUpTo(k, v), s) \in Nat /\ Count(KeyUpTo(k, w), s) \in Nat
           /\ Count(KeyUpTo(k, w), s)
                 = Count(KeyUpTo(k, v), s) + Count(KeyUpTo(k, w) \ KeyUpTo(k, v), s)
<1> DEFINE A == KeyUpTo(k, v)
           B == KeyUpTo(k, w)
           I == PlacesIn(A, s)
           J == PlacesIn(B \ A, s)
<1>1. A \subseteq B
  <2>1. \A r \in ProperRows : r.value \in Nat
    BY DEF ProperRows
  <2>2. QED  BY <2>1 DEF KeyUpTo
<1> HIDE DEF A, B
<1>2. PlacesIn(B, s) = I \cup J /\ I \cap J = {}
  BY <1>1 DEF PlacesIn
<1>3. IsFiniteSet(I) /\ IsFiniteSet(J) /\ Cardinality(I) \in Nat /\ Cardinality(J) \in Nat
  BY CountType DEF Count
<1> HIDE DEF I, J
<1>4. Cardinality(I \cup J) = Cardinality(I) + Cardinality(J) - Cardinality(I \cap J)
  BY <1>3, FS_Union
<1>5. Cardinality(I \cap J) = 0
  BY <1>2, FS_EmptySet
<1>6. Cardinality(I \cup J) = Cardinality(I) + Cardinality(J)
  BY <1>3, <1>4, <1>5
<1>7. Count(B, s) = Count(A, s) + Count(B \ A, s)
  BY <1>2, <1>6 DEF I, J, Count
<1>8. Count(A, s) \in Nat /\ Count(B, s) \in Nat
  BY CountType
<1>9. QED  BY <1>7, <1>8 DEF A, B

\* A bunch is the rows up to its highest value less those below its lowest.
LEMMA BunchCount ==
    ASSUME NEW s \in Seq(ProperRows), NEW r, r.key \in Keys, NEW lo \in Int, NEW hi \in Int, lo <= hi,
           \A t \in ToSet(s) :
              t.key = r.key =>
                 /\ t.value # lo - 1 /\ t.value # hi + 1
                 /\ t \in Kind(AsWritten, r) <=> lo <= t.value /\ t.value <= hi
    PROVE  /\ Count(KeyUpTo(r.key, hi), s)
                 = Count(KeyUpTo(r.key, lo - 1), s) + Count(Kind(AsWritten, r), s)
           /\ Count(KeyUpTo(r.key, hi + 1), s) = Count(KeyUpTo(r.key, hi), s)
           /\ Count(KeyUpTo(r.key, lo - 1), s) = Count(KeyUpTo(r.key, lo - 2), s)
<1> DEFINE k == r.key
<1>1. \A i \in DOMAIN s : s[i] \in ProperRows /\ s[i] \in ToSet(s)
  BY ElementOfSeq, LenProperties DEF ToSet
<1>2. \A i \in DOMAIN s : s[i].value \in Nat /\ s[i].key \in Keys
  BY <1>1 DEF ProperRows
<1>3. \A q \in Keys : AsWritten[q] = q
  BY DEF AsWritten
<1>4. \A i \in DOMAIN s : s[i] \in Kind(AsWritten, r) => s[i].key = k
  BY <1>2, <1>3 DEF Kind
<1>5. PlacesIn(KeyUpTo(k, hi) \ KeyUpTo(k, lo - 1), s) = PlacesIn(Kind(AsWritten, r), s)
  <2>1. ASSUME NEW i \in DOMAIN s
        PROVE  s[i] \in KeyUpTo(k, hi) \ KeyUpTo(k, lo - 1) <=> s[i] \in Kind(AsWritten, r)
    <3>1. s[i] \in KeyUpTo(k, hi) \ KeyUpTo(k, lo - 1)
             <=> s[i].key = k /\ lo <= s[i].value /\ s[i].value <= hi
      BY <1>1, <1>2 DEF KeyUpTo
    <3>2. s[i].key = k => (s[i] \in Kind(AsWritten, r) <=> lo <= s[i].value /\ s[i].value <= hi)
      BY <1>1
    <3>3. QED  BY <1>4, <3>1, <3>2
  <2>2. QED  BY <2>1 DEF PlacesIn
<1>6. PlacesIn(KeyUpTo(k, hi + 1), s) = PlacesIn(KeyUpTo(k, hi), s)
  <2>1. \A i \in DOMAIN s : s[i] \in KeyUpTo(k, hi + 1) <=> s[i] \in KeyUpTo(k, hi)
    BY <1>1, <1>2 DEF KeyUpTo
  <2>2. QED  BY <2>1 DEF PlacesIn
<1>7. PlacesIn(KeyUpTo(k, lo - 1), s) = PlacesIn(KeyUpTo(k, lo - 2), s)
  <2>1. \A i \in DOMAIN s : s[i] \in KeyUpTo(k, lo - 1) <=> s[i] \in KeyUpTo(k, lo - 2)
    BY <1>1, <1>2 DEF KeyUpTo
  <2>2. QED  BY <2>1 DEF PlacesIn
<1>8. Count(KeyUpTo(k, hi), s)
         = Count(KeyUpTo(k, lo - 1), s) + Count(KeyUpTo(k, hi) \ KeyUpTo(k, lo - 1), s)
  <2>1. lo - 1 \in Int /\ lo - 1 <= hi
    OBVIOUS
  <2>2. QED  BY <2>1, KeyUpToGrows
<1>9. QED  BY <1>5, <1>6, <1>7, <1>8 DEF Count

\* Where values cluster and are spread alike, the program has as many rows as good as one of
\* the engine's as the engine has.
LEMMA EnoughAsGood ==
    ASSUME Clustered(AsWritten), oracle \in Seq(OracleRows), rows \in Seq(ProperRows),
           \A b \in ToSet(rows) : b.value # 0, NEW r \in ToSet(oracle),
           \A v \in Int :
              /\ Count(KeyUpTo(r.key, v), oracle) <= Count(KeyUpTo(r.key, v + 1), rows)
              /\ Count(KeyUpTo(r.key, v), rows) <= Count(KeyUpTo(r.key, v + 1), oracle)
    PROVE  Shortage(Kind(AsWritten, r)) = 0
<1>1. /\ ToSet(oracle) \subseteq OracleRows /\ ToSet(rows) \subseteq ProperRows
      /\ oracle \in Seq(ProperRows)
  BY OwnRows, RowsAreProper
<1>2. r.key \in Keys
  BY <1>1, RowsAreProper DEF ProperRows
<1>3. PICK lo \in Int, hi \in Int :
         /\ lo <= hi
         /\ \A t \in ToSet(oracle) \cup ToSet(rows) :
               t.key = r.key =>
                  /\ t.value # lo - 1 /\ t.value # hi + 1
                  /\ t \in Kind(AsWritten, r) <=> lo <= t.value /\ t.value <= hi
  BY <1>1, Bunch
<1> DEFINE K == Kind(AsWritten, r)
           O(v) == Count(KeyUpTo(r.key, v), oracle)
           R(v) == Count(KeyUpTo(r.key, v), rows)
<1>4. /\ O(hi) = O(lo - 1) + Count(K, oracle)
      /\ O(lo - 1) = O(lo - 2)
  BY <1>1, <1>2, <1>3, BunchCount
<1>5. /\ R(hi) = R(lo - 1) + Count(K, rows)
      /\ R(hi + 1) = R(hi) /\ R(lo - 1) = R(lo - 2)
  BY <1>2, <1>3, BunchCount
<1>6. O(hi) <= R(hi + 1) /\ R(lo - 2) <= O(lo - 1)
  <2>1. hi \in Int /\ lo - 2 \in Int /\ (lo - 2) + 1 = lo - 1
    OBVIOUS
  <2>2. O(hi) <= R(hi + 1) /\ R(lo - 2) <= O((lo - 2) + 1)
    BY <2>1
  <2>3. QED  BY <2>1, <2>2
<1>7. /\ O(hi) \in Nat /\ O(lo - 1) \in Nat /\ R(hi) \in Nat /\ R(lo - 1) \in Nat
      /\ Count(K, oracle) \in Nat /\ Count(K, rows) \in Nat
  BY <1>1, CountType
<1> HIDE DEF O, R, K
<1>8. Count(K, oracle) <= Count(K, rows)
  <2> DEFINE above == O(hi)
             below == O(lo - 1)
             aboveR == R(hi)
             belowR == R(lo - 1)
             mine == Count(K, oracle)
             its == Count(K, rows)
  <2>1. /\ above = below + mine /\ aboveR = belowR + its /\ above <= aboveR /\ belowR <= below
        /\ above \in Nat /\ below \in Nat /\ aboveR \in Nat /\ belowR \in Nat
        /\ mine \in Nat /\ its \in Nat
    <3>1. R(hi + 1) = R(hi) /\ R(lo - 1) = R(lo - 2)
      BY <1>5
    <3>2. O(hi) <= R(hi) /\ R(lo - 1) <= O(lo - 1)
      BY <1>6, <3>1, Zenon
    <3>3. QED  BY <1>4, <1>5, <1>7, <3>2
  <2> HIDE DEF above, below, aboveR, belowR, mine, its
  <2>2. mine <= its
    BY <2>1
  <2>3. QED  BY <2>2 DEF mine, its
<1>9. QED  BY <1>7, <1>8 DEF Shortage, K

\* What the program has passed, level by level: the sorted comparison of PROTOCOL.md's first
\* level refuses nothing that the greedy pairing passes, and where values cluster the pairing
\* passes all that the level accepts.
THEOREM FirstLevelIsThePass == ScoreSpec => []LevelOneIsThePass
<1>1. MeasuresInv => LevelOneIsThePass
  <2> SUFFICES ASSUME MeasuresInv, stage = "end"
               PROVE  /\ EngineIdentity => ProjectedMatch(1)
                      /\ Clustered(AsWritten) /\ ProjectedMatch(1) => EngineIdentity
    BY DEF LevelOneIsThePass
  <2>1. /\ ScoreType /\ malformed = Len(output) - Len(rows) /\ rows = WellFormed(output)
        /\ Count({FALSE}, exact) <= Count(WrongId, rows)
        /\ Len(exact) = Len(oracle) /\ Len(exact) = Len(rows) => AllPaired
    BY DEF MeasuresInv, ScoreInv, SplitInv, KeepsRows, AfterPairs
  <2>2. /\ oracle \in Seq(OracleRows) /\ output \in Seq(OutputRows) /\ rows \in Seq(ProperRows)
        /\ exact \in Seq({b.id : b \in ProperRows})
        /\ Len(output) \in Nat /\ Len(rows) \in Nat /\ Len(exact) \in Nat
    BY <2>1, LenProperties DEF ScoreType
  <2>3. oracle \in Seq(ProperRows) /\ \A i \in DOMAIN oracle : oracle[i].id = TRUE
    <3>1. oracle \in Seq(ProperRows)
      BY <2>2, RowsAreProper
    <3>2. \A i \in DOMAIN oracle : oracle[i] \in OracleRows
      BY <2>2, ElementOfSeq, LenProperties
    <3>3. \A r \in OracleRows : r.id = TRUE
      BY RowsAssumption
    <3>4. QED  BY <3>1, <3>2, <3>3
  <2>4. ASSUME Malformed \notin ToSet(output)
        PROVE  output \in Seq(ProperRows) /\ rows = output /\ malformed = 0
    <3>1. output \in Seq(ProperRows)
      BY <2>2, <2>4, RowsAreProper DEF ToSet
    <3>2. rows = output
      BY <2>1, <2>2, <2>4, AllWellFormed
    <3>3. QED  BY <2>1, <2>2, <3>1, <3>2
  <2>5. /\ Count({FALSE}, exact) \in Nat
        /\ \A A : Count(A, rows) \in Nat
        /\ Count(WrongId, rows) = 0 <=> \A i \in DOMAIN rows : rows[i].id = TRUE
    <3>1. Count(WrongId, rows) = 0 <=> \A i \in DOMAIN rows : rows[i] \notin WrongId
      BY <2>2, CountType
    <3>2. \A i \in DOMAIN rows : rows[i] \in ProperRows
      BY <2>2, ElementOfSeq, LenProperties
    <3>3. \A r \in ProperRows : r \notin WrongId <=> r.id = TRUE
      BY DEF WrongId, ProperRows
    <3>4. QED  BY <2>2, <3>1, <3>2, <3>3, CountType
  <2>6. ASSUME EngineIdentity  PROVE ProjectedMatch(1)
    <3>1. malformed = 0 /\ Len(exact) = Len(oracle) /\ Len(exact) = Len(output) /\ IdMatches = Len(exact)
      BY <2>6 DEF EngineIdentity, Passed
    <3>2. Len(rows) = Len(output)
      BY <2>1, <2>2, <3>1
    <3>3. Malformed \notin ToSet(output)
      BY <2>1, <2>2, <3>2, WellFormedShorter
    <3>4. rows = output /\ output \in Seq(ProperRows)
      BY <2>4, <3>3
    <3>5. AllPaired
      BY <2>1, <3>1, <3>2
    <3>6. \A i \in DOMAIN output : output[i].id = TRUE
      <4>1. Count(WrongId, rows) = 0
        BY <2>1, <3>1, <3>5, IdsMatch DEF AllPaired
      <4>2. QED  BY <2>5, <3>4, <4>1
    <3>7. \A r \in ToSet(output) : r.value # 0
      <4>1. \A i \in DOMAIN output : output[i] \notin NoNumber
        BY <3>4, <3>5, CountType DEF AllPaired
      <4>2. \A i \in DOMAIN output : output[i] \in ProperRows
        BY <3>4, ElementOfSeq, LenProperties
      <4>3. QED  BY <4>1, <4>2 DEF NoNumber, ToSet
    <3>8. ASSUME NEW r \in ToSet(oracle) \cup ToSet(output)  PROVE Spread(1, Left(1, r))
      <4>1. r \in ProperRows /\ r.id = TRUE
        <5>1. \A i \in DOMAIN oracle : oracle[i] \in ProperRows
          BY <2>3, ElementOfSeq, LenProperties
        <5>2. \A i \in DOMAIN output : output[i] \in ProperRows
          BY <3>4, ElementOfSeq, LenProperties
        <5>3. QED  BY <2>3, <3>6, <3>8, <5>1, <5>2 DEF ToSet
      <4>2. r.key \in Keys
        BY <4>1 DEF ProperRows
      <4> DEFINE k == r.key
      <4>3. Left(1, r) = <<k, TRUE>>
        <5>1. Left(1, r) = <<r.key, r.id>>
          BY DEF Left
        <5>2. QED  BY <4>1, <5>1, Zenon
      <4>4. /\ Count(InBucket(1, <<k, TRUE>>), oracle) = Count(OfKind(k), oracle)
            /\ \A v : Count(Under(1, <<k, TRUE>>, v), oracle) = Count(KeyUpTo(k, v), oracle)
        BY <2>3, KeyBucket
      <4>5. /\ Count(InBucket(1, <<k, TRUE>>), output) = Count(OfKind(k), output)
            /\ \A v : Count(Under(1, <<k, TRUE>>, v), output) = Count(KeyUpTo(k, v), output)
        BY <3>4, <3>6, KeyBucket
      <4>6. /\ Count(OfKind(k), oracle) = Count(OfKind(k), output)
            /\ \A v \in Int :
                  /\ Count(KeyUpTo(k, v), oracle) <= Count(KeyUpTo(k, v + 1), output)
                  /\ Count(KeyUpTo(k, v), output) <= Count(KeyUpTo(k, v + 1), oracle)
        BY <3>4, <3>5, <4>2 DEF AllPaired
      <4> HIDE DEF k
      <4>7. Spread(1, <<k, TRUE>>)
        BY <3>7, <4>4, <4>5, <4>6 DEF Spread
      <4>8. QED  BY <4>3, <4>7, Zenon
    <3>9. QED  BY <2>1, <3>1, <3>3, <3>8, MatchSpread
  <2>7. ASSUME Clustered(AsWritten), ProjectedMatch(1)  PROVE EngineIdentity
    <3>1. /\ Malformed \notin ToSet(output) /\ Len(output) = Len(oracle)
          /\ \A r \in ToSet(oracle) \cup ToSet(output) : Spread(1, Left(1, r))
      BY <2>1, <2>7, MatchSpread
    <3>2. output \in Seq(ProperRows) /\ rows = output /\ malformed = 0
      BY <2>4, <3>1
    <3>3. ASSUME NEW i \in DOMAIN output  PROVE output[i].id = TRUE
      <4> SUFFICES ASSUME output[i].id # TRUE  PROVE FALSE
        OBVIOUS
      <4> DEFINE A == InBucket(1, Left(1, output[i]))
      <4>1. output[i] \in ProperRows /\ output[i] \in ToSet(output)
        BY <3>2, ElementOfSeq, LenProperties DEF ToSet
      <4>2. Count(A, output) = Count(A, oracle)
        BY <3>1, <4>1 DEF Spread
      <4>3. ASSUME NEW j \in DOMAIN oracle  PROVE oracle[j] \notin A
        <5>1. Left(1, oracle[j]) = <<oracle[j].key, oracle[j].id>>
              /\ Left(1, output[i]) = <<output[i].key, output[i].id>>
          BY DEF Left
        <5>2. oracle[j].id # output[i].id
          BY <2>3
        <5>3. QED  BY <5>1, <5>2 DEF InBucket
      <4>4. Count(A, oracle) = 0
        BY <2>3, <4>3, CountType
      <4>5. output[i] \in A
        BY <4>1 DEF InBucket
      <4> HIDE DEF A
      <4>6. QED  BY <3>2, <4>2, <4>4, <4>5, CountType
    <3>4. Count({FALSE}, exact) = 0
      <4>1. Count(WrongId, rows) = 0
        BY <2>5, <3>2, <3>3
      <4>2. QED  BY <2>1, <2>5, <4>1
    <3>5. \A b \in ToSet(rows) : b.value # 0
      <4> SUFFICES ASSUME NEW b \in ToSet(output)  PROVE b.value # 0
        BY <3>2
      <4>1. Spread(1, Left(1, b))
        BY <3>1
      <4>2. QED  BY <4>1 DEF Spread
    <3>6. ASSUME NEW r \in ToSet(oracle)  PROVE Count(Kind(AsWritten, r), leftover) = 0
      <4> DEFINE k == r.key
      <4>1. Spread(1, <<k, TRUE>>)
        <5>1. r.id = TRUE
          BY <2>3 DEF ToSet
        <5>2. Left(1, r) = <<r.key, r.id>>
          BY DEF Left
        <5>3. Spread(1, Left(1, r))
          BY <3>1
        <5>4. QED  BY <5>1, <5>2, <5>3, Zenon
      <4>2. \A v : Count(Under(1, <<k, TRUE>>, v), oracle) = Count(KeyUpTo(k, v), oracle)
        BY <2>3, KeyBucket
      <4>3. \A v : Count(Under(1, <<k, TRUE>>, v), output) = Count(KeyUpTo(k, v), output)
        BY <3>2, <3>3, KeyBucket
      <4>4. \A v \in Int :
               /\ Count(KeyUpTo(k, v), oracle) <= Count(KeyUpTo(k, v + 1), rows)
               /\ Count(KeyUpTo(k, v), rows) <= Count(KeyUpTo(k, v + 1), oracle)
        BY <3>2, <4>1, <4>2, <4>3 DEF Spread
      <4>5. Shortage(Kind(AsWritten, r)) = 0
        BY <2>2, <2>7, <3>5, <4>4, EnoughAsGood
      <4>6. Count(Kind(AsWritten, r), leftover) = Shortage(Kind(AsWritten, r))
        BY <2>7 DEF MeasuresInv, ScoreInv, AfterExact, EngineKinds
      <4>7. QED  BY <4>5, <4>6
    <3>7. Len(leftover) = 0
      <4>1. leftover \in Seq(ToSet(oracle)) /\ ToSet(oracle) \subseteq OracleRows
        BY <2>1, InputTypes DEF ScoreType
      <4>2. ASSUME NEW i \in DOMAIN leftover  PROVE FALSE
        <5>1. leftover[i] \in ToSet(oracle)
          BY <4>1, ElementOfSeq, LenProperties
        <5>2. leftover[i] \in Kind(AsWritten, leftover[i])
          BY <4>1, <5>1, OwnKind
        <5>3. Count(Kind(AsWritten, leftover[i]), leftover) = 0
          BY <3>6, <5>1
        <5>4. QED  BY <4>1, <5>2, <5>3, CountType
      <4>3. DOMAIN leftover = 1 .. Len(leftover) /\ Len(leftover) \in Nat
        BY <4>1, LenProperties
      <4>4. QED  BY <4>2, <4>3
    <3>8. Len(exact) = Len(oracle)
      <4>1. Len(exact) + Len(leftover) = Len(oracle)
        BY DEF MeasuresInv, ScoreInv, AfterExact
      <4>2. QED  BY <2>2, <3>7, <4>1
    <3>9. QED  BY <2>1, <3>1, <3>2, <3>4, <3>8, IdsMatch DEF EngineIdentity, Passed
  <2>8. QED  BY <2>6, <2>7
<1>2. QED  BY <1>1, MeasuresInvariant, PTL
=============================================================================
