------------------------------- MODULE Completion -------------------------------
(***************************************************************************)
(* What ChatClient.complete promises its caller, the experiment: a request *)
(* (prompt and sample index) is answered with the text its cache file      *)
(* holds, the same text for ever; or with no text, and then the reason     *)
(* says whether the model failed or the provider, and nothing is cached.   *)
(* A process killed while it writes a cache file leaves that file torn.    *)
(***************************************************************************)
EXTENDS FiniteSets

CONSTANTS Requests, Texts

VARIABLES
    cache,       \* request -> the text of its cache file, Missing or Torn
    call,        \* the request being completed, a set of one; {} when there is none
    completion   \* the answer to it, [kind, text]

service == <<cache, call, completion>>

Missing == "missing"
Torn == "torn"

Kinds ==
    {"none",       \* no answer yet
     "text",       \* a reply
     "exhausted",  \* the model spent its token budget: its failure
     "provider",   \* the provider failed: provider_failure
     "raised"}     \* an exception no handler catches

Answered(kind, text) == [kind |-> kind, text |-> text]
NoAnswer == Answered("none", Missing)

ServiceInit ==
    /\ cache = [q \in Requests |-> Missing]
    /\ call = {}
    /\ completion = NoAnswer

Pending(q) == q \in call /\ completion = NoAnswer

Ask(q) ==
    /\ call = {}
    /\ call' = {q}
    /\ completion' = NoAnswer
    /\ UNCHANGED cache

\* A new reply is cached before it is returned.
Store(q, t) ==
    /\ Pending(q)
    /\ cache[q] = Missing
    /\ cache' = [cache EXCEPT ![q] = t]
    /\ UNCHANGED <<call, completion>>

\* The cached reply is the answer.
Reply(q) ==
    /\ Pending(q)
    /\ cache[q] \in Texts
    /\ completion' = Answered("text", cache[q])
    /\ UNCHANGED <<cache, call>>

\* There is no reply, and none is cached.
NoReply(q, kind) ==
    /\ Pending(q)
    /\ cache[q] = Missing
    /\ completion' = Answered(kind, Missing)
    /\ UNCHANGED <<cache, call>>

\* A torn cache file does not parse.
Unreadable(q) ==
    /\ Pending(q)
    /\ cache[q] = Torn
    /\ completion' = Answered("raised", Missing)
    /\ UNCHANGED <<cache, call>>

Serve(q) ==
    \/ \E t \in Texts : Store(q, t)
    \/ Reply(q)
    \/ \E kind \in {"exhausted", "provider", "raised"} : NoReply(q, kind)
    \/ Unreadable(q)

\* The caller has used the answer, or its process ends.
Release ==
    /\ call' = {}
    /\ completion' = NoAnswer

Die ==
    /\ call # {}
    /\ Release
    /\ \/ UNCHANGED cache
       \/ \E q \in call :
             /\ Pending(q)
             /\ cache[q] = Missing
             /\ cache' = [cache EXCEPT ![q] = Torn]

ServiceNext ==
    \/ \E q \in Requests : Ask(q) \/ Serve(q)
    \/ Release /\ UNCHANGED cache
    \/ Die

ServiceSpec == ServiceInit /\ [][ServiceNext]_service
=============================================================================
