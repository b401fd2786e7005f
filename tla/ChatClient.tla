------------------------------- MODULE ChatClient -------------------------------
(***************************************************************************)
(* ChatClient.complete: one chat completion, from the cache or from a      *)
(* provider that is busy, fails, cuts its answer off, or reads only part   *)
(* of the prompt.  Each kind of trouble has a budget of its own.           *)
(*                                                                         *)
(* The provider is external: a request goes to any of its replicas, each   *)
(* with a context window of its own, and gets any of the answers below.    *)
(***************************************************************************)
EXTENDS Integers, FiniteSets

CONSTANTS
    Requests,
    Tokens,             \* request -> the length of its prompt in tokens
    Chars,              \* request -> its length in characters
    Texts,
    Windows,            \* the replicas' context windows
    RetryAfters,        \* the pauses a busy provider asks for, in seconds; 0: it asks for none
    Retries,            \* retries
    TruncationRetries,  \* truncation_retries
    BusyWait            \* busy_wait_s

VARIABLES
    cache, call, completion,   \* as in Completion
    pc,           \* "idle", "cache", "post", "store", "return"
    failures, truncations, busy,
    waited,       \* waited_s
    text,         \* the reply to be stored
    last,         \* the provider's last answer (history)
    cutShort      \* the requests whose cached reply answers a prompt the provider cut, and said
                  \* so, with the tokens it read (history)

budgets == <<failures, truncations, busy, waited>>
history == <<last, cutShort>>
vars == <<cache, call, completion, pc, budgets, text, history>>

Promise == INSTANCE Completion

Missing == Promise!Missing
Torn == Promise!Torn

ASSUME ReplyAssumption == Texts \cap {Missing, Torn} = {}
ASSUME LengthAssumption ==
    /\ Windows \subseteq Nat
    /\ \A q \in Requests : Tokens[q] \in Nat /\ Chars[q] \in Nat

\* _WINDOW_SIZES
WindowSizes == {2048, 4096, 8192}

\* prompt_truncated without its second rule, and the whole of it: fewer than one token per
\* 4.5 characters, or exactly a common window size for a prompt clearly longer than that.
\* A provider that reports no count cannot be checked.
DensityOnly(counted, chars) == counted > 0 /\ 9 * counted < 2 * chars
PromptTruncated(counted, chars) ==
    /\ counted > 0
    /\ 9 * counted < 2 * chars \/ (counted \in WindowSizes /\ 4 * counted < chars)

Least(a, b) == IF a < b THEN a ELSE b

\* The pause before the next try: what the provider asks for, else 15 s, 30 s, ... 300 s.
Pause(asked) == IF asked # 0 THEN asked ELSE Least(15 * 2 ^ busy, 300)

NoReply == [text |-> Missing, reason |-> "", read |-> 0, counted |-> 0]

Init ==
    /\ Promise!ServiceInit
    /\ pc = "idle"
    /\ failures = 0 /\ truncations = 0 /\ busy = 0 /\ waited = 0
    /\ text = Missing
    /\ last = NoReply
    /\ cutShort = {}

Finish(kind, t) ==
    /\ completion' = Promise!Answered(kind, t)
    /\ pc' = "return"
    /\ UNCHANGED <<cache, call, text>>

----------------------------------------------------------------------------

Ask(q) ==
    /\ pc = "idle"
    /\ Promise!Ask(q)
    /\ pc' = "cache"
    /\ failures' = 0 /\ truncations' = 0 /\ busy' = 0 /\ waited' = 0
    /\ last' = NoReply
    /\ UNCHANGED <<text, cutShort>>

\* The cache file, if there is one; it may not parse.
Lookup(q) ==
    /\ pc = "cache"
    /\ q \in call
    /\ CASE cache[q] = Missing -> pc' = "post" /\ UNCHANGED <<cache, call, completion, text>>
         [] cache[q] = Torn -> Finish("raised", Missing)
         [] OTHER -> Finish("text", cache[q])
    /\ UNCHANGED <<budgets, history>>

\* There is no key for this provider.
NoKey ==
    /\ pc = "cache"
    /\ \A q \in call : cache[q] = Missing
    /\ Finish("provider", Missing)
    /\ UNCHANGED <<budgets, history>>

\* The loop's condition
InBudget == failures < Retries /\ truncations <= TruncationRetries

OutOfBudget ==
    /\ pc = "post"
    /\ ~InBudget
    /\ Finish("provider", Missing)
    /\ UNCHANGED <<budgets, history>>

Post == pc = "post" /\ InBudget

\* 429, 502, 503 or 504: wait, unless that would exceed the budget for waiting.
Busy(asked) ==
    /\ Post
    /\ IF waited + Pause(asked) > BusyWait
       THEN Finish("provider", Missing) /\ UNCHANGED <<busy, waited>>
       ELSE /\ busy' = busy + 1
            /\ waited' = waited + Pause(asked)
            /\ UNCHANGED <<cache, call, completion, pc, text>>
    /\ last' = NoReply
    /\ UNCHANGED <<failures, truncations, cutShort>>

\* Another server error, no connection, a connection or stream cut off, a timeout
Disturbed ==
    /\ Post
    /\ failures' = failures + 1
    /\ last' = NoReply
    /\ UNCHANGED <<cache, call, completion, pc, truncations, busy, waited, text, cutShort>>

\* Any other HTTP status
Refused ==
    /\ Post
    /\ failures' = failures + 1
    /\ Finish("provider", Missing)
    /\ last' = NoReply
    /\ UNCHANGED <<truncations, busy, waited, cutShort>>

\* A body that is not JSON, or shorter than announced: neither is an OSError.
Garbled ==
    /\ Post
    /\ Finish("raised", Missing)
    /\ last' = NoReply
    /\ UNCHANGED <<budgets, cutShort>>

Answers(q) ==
    {[text |-> t, reason |-> r, read |-> Least(Tokens[q], w), counted |-> c] :
        t \in Texts \cup {Missing}, r \in {"stop", "length"}, w \in Windows, c \in {0, 1}}

\* Whose failure an empty reply is
Blame(reason) == IF reason = "length" THEN "exhausted" ELSE "provider"

\* A truncated reply is asked for again, on a budget or without end.
AgainUncounted == UNCHANGED <<truncations, cache, call, completion, pc, text>>
Again ==
    /\ truncations' = truncations + 1
    /\ UNCHANGED <<cache, call, completion, pc, text>>

\* A reply: what the provider counted, if it counts, is what its replica read.  It is sent
\* back as truncated, ends the call as empty, or is accepted, in this order.
Receive(q) ==
    /\ Post
    /\ q \in call
    /\ \E a \in Answers(q) :
          LET counted == a.counted * a.read
          IN  /\ last' = [a EXCEPT !.counted = counted]
              /\ CASE PromptTruncated(counted, Chars[q]) -> Again
                   [] ~PromptTruncated(counted, Chars[q]) /\ a.text = Missing ->
                         Finish(Blame(a.reason), Missing) /\ UNCHANGED truncations
                   [] OTHER ->
                         /\ text' = a.text
                         /\ pc' = "store"
                         /\ UNCHANGED <<cache, call, completion, truncations>>
    /\ UNCHANGED <<failures, busy, waited, cutShort>>

\* The reply is written to the cache file and then returned, not before.
StoreReply(q) ==
    /\ pc = "store"
    /\ q \in call
    /\ cache[q] = Missing
    /\ cache' = [cache EXCEPT ![q] = text]
    /\ cutShort' = IF last.counted # 0 /\ last.read < Tokens[q]
                   THEN cutShort \cup {[request |-> q, read |-> last.read]} ELSE cutShort
    /\ UNCHANGED <<call, completion, pc, budgets, text, last>>

ReturnUnstored(q) ==
    /\ pc = "store"
    /\ q \in call
    /\ Finish("text", text)
    /\ UNCHANGED <<budgets, history>>
ReturnReply(q) ==
    /\ pc = "store"
    /\ q \in call
    /\ cache[q] = text
    /\ Finish("text", text)
    /\ UNCHANGED <<budgets, history>>

\* The caller takes the completion.
Taken ==
    /\ pc = "return"
    /\ pc' = "idle"
    /\ text' = Missing
    /\ Promise!Release
    /\ UNCHANGED <<cache, budgets, history>>

\* The process is killed; a cache file it had opened stays torn.
Kill ==
    /\ pc # "idle"
    /\ pc' = "idle"
    /\ text' = Missing
    /\ Promise!Release
    /\ \/ UNCHANGED cache
       \/ /\ pc = "store"
          /\ \E q \in call : cache[q] = Missing /\ cache' = [cache EXCEPT ![q] = Torn]
    /\ UNCHANGED <<budgets, history>>

Step ==
    \/ \E q \in Requests : Lookup(q) \/ Receive(q) \/ StoreReply(q) \/ ReturnReply(q)
    \/ \E asked \in RetryAfters : Busy(asked)
    \/ NoKey \/ OutOfBudget \/ Disturbed \/ Refused \/ Garbled

Next == (\E q \in Requests : Ask(q)) \/ Step \/ Taken \/ Kill

Spec == Init /\ [][Next]_vars

\* The client does not stop inside complete: each post ends.  urllib's timeout ends one to
\* which nothing comes; that a response which keeps coming ends too is assumed of the provider.
FairSpec == Spec /\ WF_vars(Step)

----------------------------------------------------------------------------
(* Properties *)

\* The client keeps what its docstring promises the harness: one draw per request, cached
\* before it is used and never replaced, and nothing cached for a failure of any kind.
KeepsPromise == Promise!ServiceSpec

\* client.py: "a truncated reply is never cached".  No cached reply answers a prompt of
\* which the provider says that it has read only a part.
NeverCachesTruncated == cutShort = {}

\* What prompt_truncated is worth to specification prompts, "at about three characters per
\* token": however the replicas' windows and the retries fall, a cached reply answers at
\* least two thirds of its prompt, and three quarters of one cut to a common window size.
CutsCachedAreSlight ==
    \A c \in cutShort : Chars[c.request] >= 3 * Tokens[c.request] =>
        /\ 3 * c.read >= 2 * Tokens[c.request]
        /\ c.read \in WindowSizes => 4 * c.read >= 3 * Tokens[c.request]

\* "When that budget runs out ...": every call returns, whatever mixture of busy, failing,
\* truncating and cut-off answers the provider gives.
CallsEnd == \A q \in Requests : q \in call ~> (q \notin call \/ completion # Promise!NoAnswer)
=============================================================================
