--------------------------- MODULE ExperimentRunProofs ---------------------------
(* Proofs about ExperimentRun: for any cells, replies, verdicts and number of       *)
(* repairs, directories and kills, a cell is recorded once, what is recorded was    *)
(* scored from the cache, no recorded draw is made again, and pinned programs stay. *)
(* And about ReplayRun, the replay of those programs, for any number of runs.       *)
EXTENDS ExperimentRun, ReplayRun, SequenceTheorems, FiniteSetTheorems, TLAPS

Missing == Client!Missing
TornReply == Client!Torn

\* Replies with what became of their programs, from which the feedback follows
Replies ==
    {a \in [text : Texts, verdict : UNION Range(Verdicts), trace : {"program.py", "none"}] :
        a.verdict \in Verdicts[a.text] /\ a.trace \in Traces(a.verdict)}
Outcome == Replies \cup {Exhausted}

\* The attempts of a sample: no more after one that passed or had no text
Dialogue ==
    {d \in Seq(Outcome) :
        /\ Len(d) <= Repair + 1
        /\ \A i \in 1 .. Len(d) - 1 : d[i].verdict \notin {"pass", "exhausted"}}

\* A dialogue that asks for another attempt
Open(tries) ==
    /\ Len(tries) <= Repair
    /\ \A i \in 1 .. Len(tries) : tries[i].verdict \notin {"pass", "exhausted"}

SampleRecord == [cell : Range(Cells), attempts : Dialogue \ {<< >>}]

\* The replies and scripts behind the attempts of a cell
Scored(o, cell, tries) ==
    \A n \in 1 .. Len(tries) : tries[n] # Exhausted =>
        /\ cache[[cell |-> cell, dialogue |-> SubSeq(tries, 1, n - 1)]] = tries[n].text
        /\ HasProgram(tries[n].text) => scripts[o][ScriptPath(cell, n)] = tries[n].text

StoreInv ==
    /\ cache \in [Requests -> Texts \cup {Missing, TornReply}]
    /\ scripts \in [Outs -> [Paths -> Texts \cup {Missing, TornReply}]]
    /\ DOMAIN raw = Outs

SamplesInv ==
    \A o \in Outs :
        /\ raw[o].samples \in Seq(SampleRecord)
        /\ \A s \in SamplesIn(o) : Scored(o, s.cell, s.attempts)

\* A cell in hand is not recorded yet, and its attempts so far have all failed.
CellInv ==
    /\ pc \in {"idle", "cells", "attempt", "reply", "execute", "write", "rewrite"}
    /\ out \in Outs
    /\ next \in Nat \ {0}
    /\ pc \notin {"idle", "cells"} =>
          /\ next <= Len(Cells)
          /\ Cell \notin Recorded(raw[out].samples)
          /\ attempts \in Dialogue
          /\ Scored(out, Cell, attempts)
    /\ pc \in {"attempt", "reply", "execute"} => Open(attempts)
    /\ pc \in {"write", "rewrite"} => attempts # << >>

\* The request in hand is the cell's, and its answer is what the cache holds.
CallInv ==
    /\ pc \in {"reply", "execute"} => call = {Request}
    /\ pc \notin {"reply", "execute"} => call = {} /\ completion = Client!NoAnswer
    /\ completion.kind = "text" =>
          completion.text \in Texts /\ completion.text = cache[Request]
    /\ pc = "execute" =>
          /\ completion.kind = "text"
          /\ HasProgram(completion.text) => scripts[out][Script] = completion.text

\* What the process has in memory is what its raw.json says, and that only of cells it found
\* there or has passed.
MemoryInv ==
    /\ pc \notin {"idle", "rewrite"} => samples = raw[out].samples
    /\ pc = "rewrite" => samples = Append(raw[out].samples, Sample)
    /\ pc # "idle" =>
          Recorded(raw[out].samples) \subseteq done \cup {Cells[i] : i \in 1 .. next - 1}

EInv == StoreInv /\ SamplesInv /\ CellInv /\ CallInv /\ MemoryInv /\ RecordedOnce

(***************************************************************************)
(* Dialogues                                                               *)
(***************************************************************************)

LEMMA Prefix ==
    ASSUME NEW S, NEW s \in Seq(S), NEW m \in 0 .. Len(s)
    PROVE  /\ SubSeq(s, 1, m) \in Seq(S) /\ Len(SubSeq(s, 1, m)) = m
           /\ \A i \in 1 .. m : SubSeq(s, 1, m)[i] = s[i]
<1>1. \A i \in 1 .. m : s[i] \in S
    BY ElementOfSeq
<1>2. /\ SubSeq(s, 1, m) \in Seq(S)
      /\ Len(SubSeq(s, 1, m)) = IF 1 <= m THEN m - 1 + 1 ELSE 0
      /\ \A i \in 1 .. m - 1 + 1 : SubSeq(s, 1, m)[i] = s[1 + i - 1]
    <2>1. m \in Int /\ 1 \in Int
        OBVIOUS
    <2> QED
        BY <1>1, <2>1, SubSeqProperties
<1> QED
    BY <1>2

LEMMA PrefixOfAppend ==
    ASSUME NEW S, NEW s \in Seq(S), NEW e \in S, NEW m \in 0 .. Len(s)
    PROVE  SubSeq(Append(s, e), 1, m) = SubSeq(s, 1, m)
<1>1. /\ Append(s, e) \in Seq(S) /\ Len(Append(s, e)) = Len(s) + 1 /\ Len(s) \in Nat
      /\ \A i \in 1 .. Len(s) : Append(s, e)[i] = s[i]
    BY AppendProperties, LenProperties
<1>2. m \in 0 .. Len(Append(s, e))
    BY <1>1
<1> DEFINE t == SubSeq(Append(s, e), 1, m)
           u == SubSeq(s, 1, m)
<1>3. t \in Seq(S) /\ Len(t) = m /\ \A i \in 1 .. m : t[i] = s[i]
    BY <1>1, <1>2, Prefix
<1>4. u \in Seq(S) /\ Len(u) = m /\ \A i \in 1 .. m : u[i] = s[i]
    BY Prefix
<1> HIDE DEF t, u
<1>5. t = u
    BY <1>3, <1>4, SeqEqual
<1> QED
    BY <1>5 DEF t, u

\* An attempt that is followed by another is one a prompt may go on from.
LEMMA OutcomeFails ==
    ASSUME NEW a \in Outcome, a.verdict \notin {"pass", "exhausted"}
    PROVE  a \in Failures
<1>1. a \in Replies
    BY DEF Outcome, Exhausted, Attempt
<1>2. /\ a \in [text : Texts, verdict : UNION Range(Verdicts), trace : {"program.py", "none"}]
      /\ a.verdict \in Verdicts[a.text] \ {"pass"}
    BY <1>1 DEF Replies
<1>3. a.trace \in RawTraces(a.verdict)
    BY <1>1 DEF Replies, Traces, RawTraces
<1>4. {"program.py", "none"} \subseteq RawTraces("crashed") \cup RawTraces("failed")
    BY DEF RawTraces
<1> QED
    BY <1>2, <1>3, <1>4 DEF Failures

\* The request behind each attempt of a cell, and behind one more while it is open
LEMMA AskedIsRequest ==
    ASSUME NEW cell \in Range(Cells), NEW tries \in Dialogue, NEW n \in 1 .. Len(tries)
    PROVE  /\ [cell |-> cell, dialogue |-> SubSeq(tries, 1, n - 1)] \in Requests
           /\ ScriptPath(cell, n) \in Paths
<1>1. /\ tries \in Seq(Outcome) /\ Len(tries) \in Nat /\ n - 1 \in 0 .. Len(tries)
      /\ Len(tries) <= Repair + 1 /\ Repair \in Nat
    BY RepairAssumption DEF Dialogue
<1> DEFINE p == SubSeq(tries, 1, n - 1)
<1>2. p \in Seq(Outcome) /\ Len(p) = n - 1 /\ \A i \in 1 .. n - 1 : p[i] = tries[i]
    BY <1>1, Prefix
<1> HIDE DEF p
<1>3. \A i \in 1 .. n - 1 : p[i] \in Failures
    BY <1>1, <1>2, OutcomeFails DEF Dialogue
<1>4. p \in [1 .. n - 1 -> Failures]
    BY <1>2, <1>3
<1>5. n - 1 \in 0 .. Repair /\ n \in 1 .. Repair + 1
    BY <1>1
<1>6. p \in Dialogues
    BY <1>4, <1>5 DEF Dialogues
<1> QED
    BY <1>5, <1>6 DEF Requests, ScriptPath, Paths, p

LEMMA OpenIsRequest ==
    ASSUME NEW cell \in Range(Cells), NEW tries \in Dialogue, Open(tries)
    PROVE  /\ [cell |-> cell, dialogue |-> tries] \in Requests
           /\ ScriptPath(cell, Len(tries) + 1) \in Paths
<1>1. tries \in Seq(Outcome) /\ Len(tries) \in 0 .. Repair /\ Repair \in Nat
    BY RepairAssumption DEF Dialogue, Open
<1>2. \A i \in 1 .. Len(tries) : tries[i] \in Failures
    BY <1>1, OutcomeFails DEF Open
<1>3. tries \in [1 .. Len(tries) -> Failures]
    BY <1>1, <1>2
<1>4. tries \in Dialogues
    BY <1>1, <1>3 DEF Dialogues
<1> QED
    BY <1>1, <1>4 DEF Requests, ScriptPath, Paths

(***************************************************************************)
(* What is recorded, while files change                                    *)
(***************************************************************************)

\* What is cached stays: only a missing reply is written, or torn.
CacheGrows ==
    /\ cache' \in [Requests -> Texts \cup {Missing, TornReply}]
    /\ \A q \in Requests : cache[q] \in Texts => cache'[q] = cache[q]

\* Scripts change only for the cell in hand.
ScriptsOfCell ==
    /\ scripts' \in [Outs -> [Paths -> Texts \cup {Missing, TornReply}]]
    /\ \A o \in Outs : \A f \in Paths :
          scripts'[o][f] # scripts[o][f] => o = out /\ f[1] = Cell /\ pc = "reply"

LEMMA ReplyIs ==
    ASSUME NEW a \in Outcome, a # Exhausted
    PROVE  a \in Replies /\ a.text \in Texts
BY DEF Outcome, Replies

LEMMA ScoredStays ==
    ASSUME NEW o, NEW cell \in Range(Cells), NEW tries \in Dialogue,
           Scored(o, cell, tries), CacheGrows,
           \A n \in 1 .. Len(tries) :
               scripts'[o][ScriptPath(cell, n)] = scripts[o][ScriptPath(cell, n)]
    PROVE  Scored(o, cell, tries)'
<1> SUFFICES ASSUME NEW n \in 1 .. Len(tries), tries[n] # Exhausted
             PROVE  /\ cache'[[cell |-> cell, dialogue |-> SubSeq(tries, 1, n - 1)]]
                          = tries[n].text
                    /\ HasProgram(tries[n].text)
                          => scripts'[o][ScriptPath(cell, n)] = tries[n].text
    BY DEF Scored
<1>1. [cell |-> cell, dialogue |-> SubSeq(tries, 1, n - 1)] \in Requests
    BY AskedIsRequest
<1>2. tries[n] \in Outcome
    BY DEF Dialogue
<1>3. tries[n].text \in Texts
    BY <1>2, ReplyIs
<1>4. /\ cache[[cell |-> cell, dialogue |-> SubSeq(tries, 1, n - 1)]] = tries[n].text
      /\ HasProgram(tries[n].text) => scripts[o][ScriptPath(cell, n)] = tries[n].text
    BY DEF Scored
<1> QED
    BY <1>1, <1>3, <1>4 DEF CacheGrows

LEMMA SampleIs ==
    ASSUME SamplesInv, NEW o \in Outs, NEW s \in SamplesIn(o)
    PROVE  /\ s \in SampleRecord
           /\ s.cell \in Range(Cells) /\ s.cell \in Recorded(raw[o].samples)
           /\ s.attempts \in Dialogue /\ s.attempts # << >>
           /\ Scored(o, s.cell, s.attempts)
<1>1. PICK i \in 1 .. Len(raw[o].samples) : s = raw[o].samples[i]
    BY DEF SamplesIn
<1>2. s \in SampleRecord
    BY <1>1 DEF SamplesInv
<1> QED
    BY <1>1, <1>2 DEF SamplesInv, SampleRecord, Recorded

\* A recorded sample stays scored, as neither its replies nor its scripts are touched.
LEMMA SampleStays ==
    ASSUME StoreInv, SamplesInv, CellInv, CacheGrows, ScriptsOfCell,
           NEW o \in Outs, NEW s \in SamplesIn(o)
    PROVE  Scored(o, s.cell, s.attempts)'
<1>1. /\ s.cell \in Range(Cells) /\ s.attempts \in Dialogue /\ Scored(o, s.cell, s.attempts)
      /\ s.cell \in Recorded(raw[o].samples)
    BY SampleIs
<1>2. ASSUME NEW n \in 1 .. Len(s.attempts)
      PROVE  scripts'[o][ScriptPath(s.cell, n)] = scripts[o][ScriptPath(s.cell, n)]
    <2>1. ScriptPath(s.cell, n) \in Paths /\ ScriptPath(s.cell, n)[1] = s.cell
        BY <1>1, AskedIsRequest DEF ScriptPath
    <2>2. o = out /\ pc = "reply" => s.cell # Cell
        BY <1>1 DEF CellInv
    <2> QED
        BY <2>1, <2>2 DEF ScriptsOfCell
<1> QED
    BY <1>1, <1>2, ScoredStays

\* Whatever is not the writing of a sample leaves the recorded ones as they are.
LEMMA SamplesKept ==
    ASSUME StoreInv, SamplesInv, CellInv, RecordedOnce, CacheGrows, ScriptsOfCell,
           DOMAIN raw' = Outs,
           \A o \in Outs : raw'[o].samples \in {raw[o].samples, << >>}
    PROVE  StoreInv' /\ SamplesInv' /\ RecordedOnce'
<1>1. StoreInv'
    BY DEF StoreInv, CacheGrows, ScriptsOfCell
<1>2. SamplesInv'
    <2> SUFFICES ASSUME NEW o \in Outs
                 PROVE  /\ raw'[o].samples \in Seq(SampleRecord)
                        /\ \A s \in SamplesIn(o)' : Scored(o, s.cell, s.attempts)'
        BY DEF SamplesInv
    <2>1. CASE raw'[o].samples = raw[o].samples
        BY <2>1, SampleStays DEF SamplesInv, SamplesIn
    <2>2. CASE raw'[o].samples = << >>
        BY <2>2 DEF SamplesIn
    <2> QED
        BY <2>1, <2>2
<1>3. RecordedOnce'
    BY DEF RecordedOnce
<1> QED
    BY <1>1, <1>2, <1>3

(***************************************************************************)
(* The steps                                                               *)
(***************************************************************************)

\* The constants' and the cell's own facts, once a cell is in hand
LEMMA InHand ==
    ASSUME EInv, pc \notin {"idle", "cells"}
    PROVE  /\ Cell \in Range(Cells) /\ attempts \in Dialogue /\ out \in Outs
           /\ next \in 1 .. Len(Cells) /\ Len(Cells) \in Nat
           /\ attempts \in Seq(Outcome) /\ Len(attempts) \in Nat
           /\ Open(attempts) => Request \in Requests /\ Script \in Paths
<1>1. /\ next \in 1 .. Len(Cells) /\ Len(Cells) \in Nat /\ DOMAIN Cells = 1 .. Len(Cells)
      /\ attempts \in Dialogue /\ out \in Outs
    BY CellsAssumption DEF EInv, CellInv
<1>2. Cell \in Range(Cells)
    BY <1>1 DEF Cell, Range
<1>3. attempts \in Seq(Outcome) /\ Len(attempts) \in Nat
    BY <1>1 DEF Dialogue
<1>4. Open(attempts) => Request \in Requests /\ Script \in Paths
    BY <1>1, <1>2, OpenIsRequest DEF Request, Script
<1> QED
    BY <1>1, <1>2, <1>3, <1>4

LEMMA EInit == ASSUME Init PROVE EInv
<1>1. StoreInv
    BY DEF Init, StoreInv, Client!ServiceInit, Missing
<1>2. SamplesInv /\ RecordedOnce
    <2>1. \A o \in Outs : raw[o].samples = << >>
        BY DEF Init, File
    <2>2. \A o \in Outs : SamplesIn(o) = {}
        BY <2>1 DEF SamplesIn
    <2>3. << >> \in Seq(SampleRecord)
        BY EmptySeq
    <2>4. SamplesInv
        BY <2>1, <2>2, <2>3 DEF SamplesInv
    <2>5. RecordedOnce
        BY <2>1 DEF RecordedOnce
    <2> QED
        BY <2>4, <2>5
<1>3. CellInv /\ MemoryInv
    BY DEF Init, CellInv, MemoryInv
<1>4. CallInv
    BY DEF Init, CallInv, Client!ServiceInit, Client!NoAnswer, Client!Answered
<1> QED
    BY <1>1, <1>2, <1>3, <1>4 DEF EInv

LEMMA Unchanged ==
    ASSUME EInv, UNCHANGED <<cache, scripts>>
    PROVE  CacheGrows /\ ScriptsOfCell
BY DEF EInv, StoreInv, CacheGrows, ScriptsOfCell

\* A run finds what it has recorded; it passes over that, and takes up the next cell.
LEMMA LoopNext ==
    ASSUME EInv, Skip \/ Enter \/ \E o \in Outs : Start(o)
    PROVE  EInv'
<1> USE DEF EInv
<1>1. UNCHANGED <<cache, call, completion, raw, scripts, report>>
    BY DEF Skip, Enter, Start, client, files
<1>2. StoreInv' /\ SamplesInv' /\ RecordedOnce'
    BY <1>1, Unchanged, SamplesKept DEF StoreInv
<1>3. CASE \E o \in Outs : Start(o)
    <2>1. PICK o \in Outs : Start(o)
        BY <1>3
    <2>2. pc = "idle" /\ pc' = "cells" /\ out' = o /\ next' = 1 /\ samples' = raw[o].samples
          /\ done' = Recorded(raw[o].samples)
        BY <2>1 DEF Start
    <2>3. CellInv' /\ MemoryInv'
        BY <1>1, <2>2 DEF CellInv, MemoryInv, Recorded
    <2>4. CallInv'
        BY <1>1, <2>2 DEF CallInv, Client!NoAnswer, Client!Answered
    <2> QED
        BY <1>2, <2>3, <2>4
<1>4. CASE Skip
    <2>1. /\ pc = "cells" /\ pc' = "cells" /\ Cell \in done /\ next' = next + 1
          /\ UNCHANGED <<out, samples, done, attempts>>
        BY <1>4 DEF Skip
    <2>2. CellInv' /\ MemoryInv'
        BY <1>1, <2>1 DEF CellInv, MemoryInv, Recorded
    <2>3. CallInv'
        BY <1>1, <2>1 DEF CallInv, Client!NoAnswer, Client!Answered
    <2> QED
        BY <1>2, <2>2, <2>3
<1>5. CASE Enter
    <2>1. /\ pc = "cells" /\ pc' = "attempt" /\ Cell \notin done /\ attempts' = << >>
          /\ next <= Len(Cells) /\ UNCHANGED <<out, samples, done, next>>
        BY <1>5 DEF Enter
    <2>2. Cell \notin Recorded(raw[out].samples)
        <3>1. next \in 1 .. Len(Cells) /\ next \in Nat
            BY <2>1, CellsAssumption DEF CellInv
        <3>2. \A i \in 1 .. next - 1 : Cells[i] # Cell
            BY <3>1, CellsAssumption DEF Cell
        <3> QED
            BY <2>1, <3>2 DEF MemoryInv
    <2>3. << >> \in Dialogue /\ Open(<< >>)
        BY RepairAssumption DEF Dialogue, Open
    <2>4. CellInv'
        BY <1>1, <2>1, <2>2, <2>3 DEF CellInv, Scored, Cell
    <2>5. MemoryInv'
        BY <1>1, <2>1 DEF MemoryInv, Recorded
    <2>6. CallInv'
        BY <1>1, <2>1 DEF CallInv, Client!NoAnswer, Client!Answered
    <2> QED
        BY <1>2, <2>4, <2>5, <2>6
<1> QED
    BY <1>3, <1>4, <1>5

\* The client is asked, and answers from its cache, which it may fill before.
LEMMA CallNext ==
    ASSUME EInv, Complete \/ \E q \in Requests : Serve(q)
    PROVE  EInv' /\ CacheGrows
<1> USE DEF EInv
<1>1. /\ pc \in {"attempt", "reply"} /\ pc' = "reply"
      /\ UNCHANGED <<out, samples, done, next, attempts, raw, scripts>>
    BY DEF Complete, Serve, process, files
<1>2. Request \in Requests /\ Open(attempts)
    BY <1>1, InHand DEF CellInv
<1>3. /\ CacheGrows /\ call' = {Request}
      /\ completion'.kind = "text" =>
            completion'.text \in Texts /\ completion'.text = cache'[Request]
    <2>1. CASE Complete
        <3>1. call' = {Request} /\ cache' = cache /\ completion' = Client!NoAnswer
            BY <2>1 DEF Complete, Client!Ask
        <3> QED
            BY <3>1 DEF StoreInv, CacheGrows, Client!NoAnswer, Client!Answered
    <2>2. CASE \E q \in Requests : Serve(q)
        <3>1. PICK q \in Requests : Serve(q)
            BY <2>2
        <3>2. Client!Serve(q) /\ call = {Request} /\ pc = "reply"
            BY <3>1 DEF Serve, CallInv
        <3>3. CASE \E t \in Texts : Client!Store(q, t)
            <4>1. PICK t \in Texts : Client!Store(q, t)
                BY <3>3
            <4>2. /\ q \in call /\ completion = Client!NoAnswer /\ cache[q] = Missing
                  /\ cache' = [cache EXCEPT ![q] = t] /\ UNCHANGED <<call, completion>>
                BY <4>1 DEF Client!Store, Client!Pending, Missing
            <4>3. Missing \notin Texts
                BY RepliesAssumption DEF Missing
            <4>4. CacheGrows
                BY <4>2, <4>3 DEF CacheGrows, StoreInv
            <4> QED
                BY <3>2, <4>2, <4>4 DEF Client!NoAnswer, Client!Answered
        <3>4. CASE Client!Reply(q)
            <4>1. /\ q \in call /\ cache[q] \in Texts /\ UNCHANGED <<cache, call>>
                  /\ completion' = [kind |-> "text", text |-> cache[q]]
                BY <3>4 DEF Client!Reply, Client!Pending, Client!Answered
            <4> QED
                BY <3>2, <4>1 DEF CacheGrows, StoreInv
        <3>5. CASE \/ \E kind \in {"exhausted", "provider", "raised"} : Client!NoReply(q, kind)
                   \/ Client!Unreadable(q)
            <4>1. UNCHANGED <<cache, call>> /\ completion'.kind # "text"
                BY <3>5 DEF Client!NoReply, Client!Unreadable, Client!Answered
            <4> QED
                BY <3>2, <4>1 DEF CacheGrows, StoreInv
        <3> QED
            BY <3>2, <3>3, <3>4, <3>5 DEF Client!Serve
    <2> QED
        BY <2>1, <2>2
<1>4. ScriptsOfCell
    BY <1>1 DEF ScriptsOfCell, StoreInv
<1>5. StoreInv' /\ SamplesInv' /\ RecordedOnce'
    BY <1>1, <1>3, <1>4, SamplesKept DEF StoreInv
<1>6. Scored(out, Cell, attempts)'
    <2>1. Cell \in Range(Cells) /\ attempts \in Dialogue /\ Scored(out, Cell, attempts)
        BY <1>1, InHand DEF CellInv
    <2>2. PICK o, cell, tries : o = out /\ cell = Cell /\ tries = attempts
        OBVIOUS
    <2>3. Scored(o, cell, tries)'
        BY <1>1, <1>3, <2>1, <2>2, ScoredStays
    <2>4. o = out' /\ cell = Cell' /\ tries = attempts'
        BY <1>1, <2>2 DEF Cell
    <2> QED
        BY <2>3, <2>4 DEF Scored
<1>7. CellInv'
    BY <1>1, <1>6 DEF CellInv, Recorded, Cell
<1>8. CallInv'
    BY <1>1, <1>3 DEF CallInv, Request, Cell
<1>9. MemoryInv'
    BY <1>1 DEF MemoryInv, Recorded
<1> QED
    BY <1>3, <1>5, <1>7, <1>8, <1>9

\* The program of the reply is written before it is judged.
LEMMA ExtractNext == ASSUME EInv, Extract PROVE EInv' /\ ScriptsOfCell
<1> USE DEF EInv
<1>1. /\ pc = "reply" /\ pc' = "execute" /\ completion.kind = "text"
      /\ scripts' = IF HasProgram(completion.text)
                    THEN [scripts EXCEPT ![out][Script] = completion.text] ELSE scripts
      /\ UNCHANGED <<cache, call, completion, out, samples, done, next, attempts, raw>>
    BY DEF Extract, client
<1>2. /\ Script \in Paths /\ out \in Outs /\ completion.text \in Texts
      /\ Script[1] = Cell /\ Script[2] = Len(attempts) + 1 /\ Open(attempts)
    BY <1>1, InHand DEF CellInv, CallInv, Script, ScriptPath
<1>3. /\ scripts' \in [Outs -> [Paths -> Texts \cup {Missing, TornReply}]]
      /\ \A o \in Outs : \A f \in Paths :
            scripts'[o][f] # scripts[o][f] => o = out /\ f = Script
      /\ HasProgram(completion.text) => scripts'[out][Script] = completion.text
    BY <1>1, <1>2 DEF StoreInv
<1>4. ScriptsOfCell /\ CacheGrows
    BY <1>1, <1>2, <1>3 DEF ScriptsOfCell, CacheGrows, StoreInv
<1>5. StoreInv' /\ SamplesInv' /\ RecordedOnce'
    BY <1>1, <1>4, SamplesKept DEF StoreInv
<1>6. Scored(out, Cell, attempts)'
    <2>1. /\ Cell \in Range(Cells) /\ attempts \in Dialogue /\ Scored(out, Cell, attempts)
          /\ Len(attempts) \in Nat
        BY <1>1, InHand DEF CellInv
    <2>2. PICK o, cell, tries : o = out /\ cell = Cell /\ tries = attempts
        OBVIOUS
    <2>3. ASSUME NEW n \in 1 .. Len(tries)
          PROVE  scripts'[o][ScriptPath(cell, n)] = scripts[o][ScriptPath(cell, n)]
        <3>1. ScriptPath(cell, n) \in Paths /\ ScriptPath(cell, n)[2] = n
            BY <2>1, <2>2, AskedIsRequest DEF ScriptPath
        <3>2. ScriptPath(cell, n) # Script
            BY <1>2, <2>1, <2>2, <3>1
        <3> QED
            BY <1>2, <1>3, <2>2, <3>1, <3>2
    <2>4. Scored(o, cell, tries)'
        BY <1>4, <2>1, <2>2, <2>3, ScoredStays
    <2>5. o = out' /\ cell = Cell' /\ tries = attempts'
        BY <1>1, <2>2 DEF Cell
    <2> QED
        BY <2>4, <2>5 DEF Scored
<1>7. CellInv'
    BY <1>1, <1>6 DEF CellInv, Recorded, Cell
<1>8. CallInv'
    BY <1>1, <1>3 DEF CallInv, Request, Script, Cell
<1>9. MemoryInv'
    BY <1>1 DEF MemoryInv, Recorded
<1> QED
    BY <1>4, <1>5, <1>7, <1>8, <1>9

\* An attempt joins the dialogue: the reply in the cache, with its program in its script.
LEMMA JudgeNext ==
    ASSUME EInv, pc \in {"reply", "execute"}, NEW a \in Outcome, Judge(a),
           a = Exhausted \/ (a # Exhausted /\ pc = "execute" /\ a.text = completion.text)
    PROVE  EInv'
<1> USE DEF EInv
<1>1. /\ attempts' = Append(attempts, a) /\ call' = {} /\ completion' = Client!NoAnswer
      /\ pc' = IF LastAttempt(a.verdict) THEN "write" ELSE "attempt"
      /\ UNCHANGED <<cache, out, samples, done, next, raw, scripts>>
    BY DEF Judge, Client!Release, files
<1>2. StoreInv' /\ SamplesInv' /\ RecordedOnce'
    BY <1>1, Unchanged, SamplesKept DEF StoreInv
<1>3. /\ attempts \in Seq(Outcome) /\ Len(attempts) \in Nat /\ Open(attempts)
      /\ Scored(out, Cell, attempts) /\ Repair \in Nat
    BY InHand, RepairAssumption DEF CellInv
<1>4. /\ attempts' \in Seq(Outcome) /\ Len(attempts') = Len(attempts) + 1
      /\ attempts' # << >>
      /\ \A i \in 1 .. Len(attempts) : attempts'[i] = attempts[i]
      /\ attempts'[Len(attempts) + 1] = a
    BY <1>1, <1>3, AppendProperties
<1>5. attempts' \in Dialogue
    BY <1>3, <1>4 DEF Dialogue, Open
<1>6. pc' = "attempt" => Open(attempts')
    BY <1>1, <1>3, <1>4 DEF Open, LastAttempt
<1>7. Scored(out, Cell, attempts)'
    <2> SUFFICES ASSUME NEW n \in 1 .. Len(attempts'), attempts'[n] # Exhausted
                 PROVE  /\ cache[[cell |-> Cell, dialogue |-> SubSeq(attempts', 1, n - 1)]]
                              = attempts'[n].text
                        /\ HasProgram(attempts'[n].text)
                              => scripts[out][ScriptPath(Cell, n)] = attempts'[n].text
        BY <1>1 DEF Scored, Cell
    <2>1. n - 1 \in 0 .. Len(attempts)
        BY <1>3, <1>4
    <2>2. SubSeq(attempts', 1, n - 1) = SubSeq(attempts, 1, n - 1)
        BY <1>1, <1>3, <2>1, PrefixOfAppend
    <2>3. CASE n \in 1 .. Len(attempts)
        BY <1>3, <1>4, <2>2, <2>3 DEF Scored
    <2>4. CASE n = Len(attempts) + 1
        <3>1. attempts'[n] = a /\ a # Exhausted /\ pc = "execute" /\ a.text = completion.text
            BY <1>4, <2>4
        <3>2. SubSeq(attempts, 1, n - 1) = attempts
            BY <1>3, <2>4, SubSeqFull
        <3>3. cache[Request] = a.text
            BY <3>1 DEF CallInv
        <3>4. HasProgram(a.text) => scripts[out][Script] = a.text
            BY <3>1 DEF CallInv
        <3> QED
            BY <2>2, <2>4, <3>1, <3>2, <3>3, <3>4 DEF Request, Script
    <2> QED
        BY <1>3, <1>4, <2>3, <2>4
<1>8. CellInv'
    BY <1>1, <1>4, <1>5, <1>6, <1>7 DEF CellInv, Recorded, Cell
<1>9. CallInv'
    BY <1>1 DEF CallInv, Client!NoAnswer, Client!Answered
<1>10. MemoryInv'
    BY <1>1 DEF MemoryInv, Recorded
<1> QED
    BY <1>2, <1>8, <1>9, <1>10

LEMMA AttemptNext == ASSUME EInv, Execute \/ NoText PROVE EInv'
<1> USE DEF EInv
<1>1. CASE NoText
    BY <1>1, JudgeNext DEF NoText, Outcome
<1>2. CASE Execute
    <2>1. PICK v \in Verdicts[completion.text] : \E trace \in Traces(v) :
              Judge(Attempt(completion.text, v, trace))
        BY <1>2 DEF Execute
    <2>2. PICK trace \in Traces(v) : Judge(Attempt(completion.text, v, trace))
        BY <2>1
    <2> DEFINE a == Attempt(completion.text, v, trace)
    <2>3. pc = "execute" /\ completion.text \in Texts /\ completion.text # Missing
        BY <1>2, RepliesAssumption DEF Execute, CallInv, Missing
    <2>4. v \in UNION Range(Verdicts)
        BY <2>3, RepliesAssumption DEF Range
    <2>5. trace \in {"program.py", "none"}
        BY DEF Traces
    <2>6. a \in Replies /\ a.text = completion.text
        BY <2>3, <2>4, <2>5 DEF Replies, Attempt
    <2>7. a # Exhausted
        BY <2>3, <2>6 DEF Exhausted, Attempt, Missing
    <2> HIDE DEF a
    <2> QED
        BY <2>2, <2>3, <2>6, <2>7, JudgeNext DEF Outcome, a
<1> QED
    BY <1>1, <1>2

\* The sample in memory is the dialogue of the cell in hand; written, it is one more record.
LEMMA RecordNext == ASSUME EInv, Record PROVE EInv'
<1> USE DEF EInv
<1>1. /\ pc = "write" /\ pc' = "rewrite" /\ samples' = Append(samples, Sample)
      /\ UNCHANGED <<cache, call, completion, out, done, next, attempts, raw, scripts>>
    BY DEF Record, client, files
<1>2. StoreInv' /\ SamplesInv' /\ RecordedOnce'
    BY <1>1, Unchanged, SamplesKept DEF StoreInv
<1>3. CellInv'
    BY <1>1 DEF CellInv, Recorded, Cell, Scored
<1>4. CallInv'
    BY <1>1 DEF CallInv, Client!NoAnswer, Client!Answered
<1>5. MemoryInv'
    BY <1>1 DEF MemoryInv, Recorded, Sample, Cell
<1> QED
    BY <1>2, <1>3, <1>4, <1>5

LEMMA RewriteNext ==
    ASSUME EInv, Rewrite
    PROVE  /\ EInv'
           /\ \A o \in Outs : SamplesIn(o) \subseteq SamplesIn(o)'
<1> USE DEF EInv
<1>1. /\ pc = "rewrite" /\ pc' = "cells" /\ next' = next + 1
      /\ raw' = [raw EXCEPT ![out] = [state |-> "whole", samples |-> samples]]
      /\ UNCHANGED <<cache, call, completion, out, samples, done, attempts, scripts>>
    BY DEF Rewrite, client, File
<1> DEFINE old == raw[out].samples
<1>2. /\ out \in Outs /\ DOMAIN raw = Outs /\ samples = Append(old, Sample)
      /\ old \in Seq(SampleRecord) /\ Len(old) \in Nat
      /\ Cell \notin Recorded(old) /\ Scored(out, Cell, attempts)
    BY <1>1 DEF StoreInv, CellInv, MemoryInv, SamplesInv
<1>3. Sample \in SampleRecord /\ Sample.cell = Cell /\ Sample.attempts = attempts
    BY <1>1, InHand DEF CellInv, Sample, SampleRecord
<1>4. /\ raw'[out].samples = samples
      /\ \A o \in Outs \ {out} : raw'[o] = raw[o]
      /\ DOMAIN raw' = Outs
    BY <1>1, <1>2
<1>5. /\ samples \in Seq(SampleRecord) /\ Len(samples) = Len(old) + 1
      /\ \A i \in 1 .. Len(old) : samples[i] = old[i]
      /\ samples[Len(old) + 1] = Sample
    BY <1>2, <1>3, AppendProperties
<1>6. \A o \in Outs : SamplesIn(o)' = IF o = out THEN SamplesIn(o) \cup {Sample} ELSE SamplesIn(o)
    <2> TAKE o \in Outs
    <2>1. SamplesIn(o)' = {raw'[o].samples[i] : i \in 1 .. Len(raw'[o].samples)}
        BY DEF SamplesIn
    <2>2. CASE o = out
        <3>1. SamplesIn(o)' = {samples[i] : i \in 1 .. Len(old) + 1}
            BY <1>4, <1>5, <2>1, <2>2
        <3>2. SamplesIn(o) = {old[i] : i \in 1 .. Len(old)}
            BY <2>2 DEF SamplesIn
        <3> QED
            BY <1>2, <1>5, <2>2, <3>1, <3>2
    <2>3. CASE o # out
        BY <1>4, <2>3 DEF SamplesIn
    <2> QED
        BY <2>2, <2>3
<1>7. StoreInv'
    BY <1>1, <1>4 DEF StoreInv
<1>8. SamplesInv'
    <2> SUFFICES ASSUME NEW o \in Outs
                 PROVE  /\ raw'[o].samples \in Seq(SampleRecord)
                        /\ \A s \in SamplesIn(o)' : Scored(o, s.cell, s.attempts)'
        BY DEF SamplesInv
    <2>1. ASSUME NEW s \in SamplesIn(o) PROVE Scored(o, s.cell, s.attempts)'
        BY <1>1 DEF SamplesInv, Scored
    <2>2. CASE o = out
        <3>1. ASSUME NEW s, s = Sample PROVE Scored(o, s.cell, s.attempts)'
            BY <1>1, <1>2, <1>3, <2>2, <3>1 DEF Scored
        <3>2. raw'[o].samples \in Seq(SampleRecord)
            BY <1>4, <1>5, <2>2
        <3>3. ASSUME NEW s \in SamplesIn(o)' PROVE Scored(o, s.cell, s.attempts)'
            <4>1. s \in SamplesIn(o) \/ s = Sample
                BY <1>6, <2>2
            <4> QED
                BY <2>1, <3>1, <4>1
        <3> QED
            BY <3>2, <3>3
    <2>3. CASE o # out
        BY <1>4, <1>6, <2>1, <2>3 DEF SamplesInv
    <2> QED
        BY <2>2, <2>3
<1>9. RecordedOnce'
    <2> SUFFICES ASSUME NEW o \in Outs,
                        NEW i \in 1 .. Len(raw'[o].samples), NEW j \in 1 .. Len(raw'[o].samples),
                        raw'[o].samples[i].cell = raw'[o].samples[j].cell
                 PROVE  i = j
        BY DEF RecordedOnce
    <2>1. CASE o # out
        BY <1>4, <2>1 DEF RecordedOnce
    <2>2. CASE o = out
        <3>1. \A k \in 1 .. Len(old) : samples[k].cell # Cell
            BY <1>2, <1>5 DEF Recorded
        <3>2. samples[Len(old) + 1].cell = Cell
            BY <1>3, <1>5
        <3>3. /\ i \in 1 .. Len(old) \/ i = Len(old) + 1
              /\ j \in 1 .. Len(old) \/ j = Len(old) + 1
              /\ samples[i].cell = samples[j].cell
            <4>1. raw'[o].samples = samples
                BY <1>4, <2>2
            <4>2. i \in 1 .. Len(old) + 1 /\ j \in 1 .. Len(old) + 1
                BY <1>5, <4>1
            <4> QED
                BY <1>2, <4>1, <4>2
        <3>4. CASE i \in 1 .. Len(old) /\ j \in 1 .. Len(old)
            BY <1>2, <1>5, <3>3, <3>4 DEF RecordedOnce
        <3> QED
            BY <3>1, <3>2, <3>3, <3>4
    <2> QED
        BY <2>1, <2>2
<1>10. CellInv' /\ CallInv'
    BY <1>1 DEF CellInv, CallInv, Client!NoAnswer, Client!Answered
<1>11. MemoryInv'
    <2>1. Recorded(samples) = Recorded(old) \cup {Cell}
        <3>1. Recorded(samples) = {samples[i].cell : i \in 1 .. Len(old) + 1}
            BY <1>5 DEF Recorded
        <3>2. Recorded(old) = {old[i].cell : i \in 1 .. Len(old)}
            BY DEF Recorded
        <3> QED
            BY <1>2, <1>3, <1>5, <3>1, <3>2
    <2>2. next \in Nat \ {0} /\ Recorded(old) \subseteq done \cup {Cells[i] : i \in 1 .. next - 1}
        BY <1>1 DEF MemoryInv, CellInv
    <2>3. Recorded(samples) \subseteq done \cup {Cells[i] : i \in 1 .. next' - 1}
        BY <1>1, <2>1, <2>2 DEF Cell
    <2>4. Recorded(raw'[out'].samples) = Recorded(samples)
        BY <1>1, <1>4
    <2> QED
        BY <1>1, <1>4, <2>3, <2>4 DEF MemoryInv, Recorded
<1>12. \A o \in Outs : SamplesIn(o) \subseteq SamplesIn(o)'
    BY <1>6
<1>13. EInv'
    BY <1>7, <1>8, <1>9, <1>10, <1>11
<1> QED
    BY <1>12, <1>13

\* A run that ends leaves nothing half done but a torn file, and that is of no record or is
\* all of raw.json.
LEMMA OverNext ==
    ASSUME EInv, Report \/ StopUnrecorded \/ Kill
    PROVE  /\ EInv' /\ CacheGrows
           /\ \A q \in Requests : cache'[q] # cache[q] => cache'[q] = TornReply
           /\ \A o \in Outs : raw'[o] = raw[o] \/ raw'[o].state = "torn"
<1> USE DEF EInv
<1>1. Over /\ pc # "idle"
    BY DEF Report, StopUnrecorded, Kill
<1>2. pc' = "idle" /\ next' = 1 /\ UNCHANGED out
    BY <1>1 DEF Over
<1>3. /\ CacheGrows /\ call' = {} /\ completion' = Client!NoAnswer
      /\ \A q \in Requests : cache'[q] # cache[q] => cache'[q] = TornReply
    <2>1. CASE cache' = cache
        <3>1. call' = {} /\ completion' = Client!NoAnswer
            BY <2>1 DEF Report, StopUnrecorded, Kill, Client!Release, Client!Die, client, CallInv
        <3> QED
            BY <2>1, <3>1 DEF CacheGrows, StoreInv
    <2>2. CASE cache' # cache
        <3>1. Kill /\ call # {} /\ Client!Die
            BY <2>2 DEF Report, StopUnrecorded, Kill, client
        <3>2. PICK q \in call : cache[q] = Missing /\ cache' = [cache EXCEPT ![q] = TornReply]
            BY <2>2, <3>1 DEF Client!Die, Missing, TornReply
        <3>3. pc \in {"reply", "execute"} /\ call = {Request} /\ q \in Requests
            BY <3>1, <1>1, InHand DEF CallInv, CellInv
        <3>4. Missing \notin Texts
            BY RepliesAssumption DEF Missing
        <3>5. CacheGrows /\ \A r \in Requests : cache'[r] # cache[r] => cache'[r] = TornReply
            BY <3>2, <3>3, <3>4 DEF CacheGrows, StoreInv
        <3>6. call' = {} /\ completion' = Client!NoAnswer
            BY <3>1 DEF Client!Die, Client!Release
        <3> QED
            BY <3>5, <3>6
    <2> QED
        BY <2>1, <2>2
<1>4. ScriptsOfCell
    <2>1. CASE scripts' = scripts
        BY <2>1 DEF ScriptsOfCell, StoreInv
    <2>2. CASE scripts' # scripts
        <3>1. pc = "reply" /\ scripts' = [scripts EXCEPT ![out][Script] = Client!Torn]
            BY <2>2 DEF Report, StopUnrecorded, Kill, files
        <3>2. Script \in Paths /\ Script[1] = Cell /\ out \in Outs
            BY <3>1, InHand DEF CellInv, Script, ScriptPath
        <3> QED
            BY <3>1, <3>2 DEF ScriptsOfCell, StoreInv, TornReply
    <2> QED
        BY <2>1, <2>2
<1>5. /\ DOMAIN raw' = Outs
      /\ \A o \in Outs : raw'[o].samples \in {raw[o].samples, << >>}
      /\ \A o \in Outs : raw'[o] = raw[o] \/ raw'[o].state = "torn"
    <2>1. raw' = raw \/ raw' = [raw EXCEPT ![out] = [state |-> "torn", samples |-> << >>]]
        BY DEF Report, StopUnrecorded, Kill, files, File
    <2> QED
        BY <2>1 DEF StoreInv
<1>6. StoreInv' /\ SamplesInv' /\ RecordedOnce'
    BY <1>3, <1>4, <1>5, SamplesKept
<1>7. CellInv' /\ MemoryInv'
    BY <1>2 DEF CellInv, MemoryInv
<1>8. CallInv'
    BY <1>2, <1>3 DEF CallInv, Client!NoAnswer, Client!Answered
<1> QED
    BY <1>3, <1>5, <1>6, <1>7, <1>8

LEMMA StutterNext == ASSUME EInv, UNCHANGED vars PROVE EInv'
<1> USE DEF EInv
<1>1. UNCHANGED <<cache, call, completion, pc, out, samples, done, next, attempts, raw, scripts>>
    BY DEF vars, client, process, files
<1>2. StoreInv' /\ SamplesInv' /\ RecordedOnce'
    BY <1>1, Unchanged, SamplesKept DEF StoreInv
<1>3. CellInv' /\ MemoryInv'
    BY <1>1 DEF CellInv, MemoryInv, Recorded, Cell, Scored, Sample
<1>4. CallInv'
    BY <1>1 DEF CallInv, Request, Cell, Script
<1> QED
    BY <1>2, <1>3, <1>4

LEMMA ENext == ASSUME EInv, [Next]_vars PROVE EInv'
<1>1. CASE Skip \/ Enter \/ \E o \in Outs : Start(o)
    BY <1>1, LoopNext
<1>2. CASE Complete \/ \E q \in Requests : Serve(q)
    BY <1>2, CallNext
<1>3. CASE Extract
    BY <1>3, ExtractNext
<1>4. CASE Execute \/ NoText
    BY <1>4, AttemptNext
<1>5. CASE Record
    BY <1>5, RecordNext
<1>6. CASE Rewrite
    BY <1>6, RewriteNext
<1>7. CASE Report \/ StopUnrecorded \/ Kill
    BY <1>7, OverNext
<1>8. CASE UNCHANGED vars
    BY <1>8, StutterNext
<1> QED
    BY <1>1, <1>2, <1>3, <1>4, <1>5, <1>6, <1>7, <1>8 DEF Next, Step

THEOREM ExperimentInvariant == Spec => []EInv
BY EInit, ENext, PTL DEF Spec

\* A cell is recorded at most once in a results directory, for any number of cells, however
\* often the run is killed and given again.
THEOREM CellsRecordedOnce == Spec => []RecordedOnce
<1>1. EInv => RecordedOnce
    BY DEF EInv
<1> QED
    BY <1>1, ExperimentInvariant, PTL

\* What is scored is the draw in the cache, and the program in the script is that draw's.
THEOREM SamplesScoredFromCache == Spec => []ScoredFromCache
<1>1. ASSUME EInv PROVE ScoredFromCache
    <2> SUFFICES ASSUME NEW o \in Outs, NEW s \in SamplesIn(o), NEW n \in 1 .. Len(s.attempts),
                        s.attempts[n] # Exhausted
                 PROVE  /\ s.attempts[n].text \in Texts
                        /\ cache[Asked(s, n)] = s.attempts[n].text
                        /\ HasProgram(s.attempts[n].text)
                              => scripts[o][ScriptPath(s.cell, n)] = s.attempts[n].text
        BY DEF ScoredFromCache
    <2>1. s.attempts \in Seq(Outcome) /\ Scored(o, s.cell, s.attempts)
        BY <1>1, SampleIs DEF EInv, Dialogue
    <2>2. s.attempts[n] \in Outcome
        BY <2>1, ElementOfSeq
    <2>3. s.attempts[n].text \in Texts
        BY <2>2, ReplyIs
    <2> QED
        BY <2>1, <2>3 DEF Scored, Asked
<1> QED
    BY <1>1, ExperimentInvariant, PTL

(***************************************************************************)
(* Draws and pinned programs                                               *)
(***************************************************************************)

\* Only the client writes a reply, and only for the request in hand.
LEMMA DrawIsForRequest ==
    ASSUME EInv, [Next]_vars, NEW q \in Requests, cache[q] = Missing, cache'[q] \in Texts
    PROVE  pc = "reply" /\ q = Request
<1> USE DEF EInv
<1>1. cache'[q] # cache[q] /\ cache'[q] # TornReply
    BY RepliesAssumption DEF Missing, TornReply
<1>2. cache' # cache
    BY <1>1
<1>3. \E r \in Requests : Serve(r)
    <2>1. ~(Report \/ StopUnrecorded \/ Kill)
        BY <1>1, OverNext
    <2> QED
        BY <1>2, <2>1 DEF Next, Step, vars, client, Skip, Enter, Complete, Client!Ask, Extract, Execute,
           NoText, Judge, Record, Rewrite, Start
<1>4. PICK r \in Requests : Serve(r)
    BY <1>3
<1>5. pc = "reply" /\ call = {Request} /\ Client!Serve(r)
    BY <1>4 DEF Serve, CallInv
<1>6. r \in call /\ \A p \in Requests : p # r => cache'[p] = cache[p]
    BY <1>5 DEF Client!Serve, Client!Store, Client!Reply, Client!NoReply, Client!Unreadable,
       Client!Pending, StoreInv
<1> QED
    BY <1>1, <1>5, <1>6

\* Two dialogues with the same outcomes are the same: the feedback follows from them.
LEMMA SameDialogue ==
    ASSUME NEW d \in Seq(Replies), NEW e \in Seq(Replies), Outcomes(d) = Outcomes(e)
    PROVE  d = e
<1>1. /\ Len(d) \in Nat /\ Len(e) \in Nat
      /\ DOMAIN d = 1 .. Len(d) /\ DOMAIN e = 1 .. Len(e)
    OBVIOUS
<1>2. DOMAIN d = DOMAIN e
    BY DEF Outcomes
<1>3. Len(d) = Len(e)
    <2>1. Len(d) = 0 \/ Len(d) \in 1 .. Len(e)
        BY <1>1, <1>2
    <2>2. Len(e) = 0 \/ Len(e) \in 1 .. Len(d)
        BY <1>1, <1>2
    <2>3. \A m, n \in Nat : (m = 0 \/ m \in 1 .. n) /\ (n = 0 \/ n \in 1 .. m) => m = n
        OBVIOUS
    <2> QED
        BY <1>1, <2>1, <2>2, <2>3
<1>4. ASSUME NEW i \in 1 .. Len(d) PROVE d[i] = e[i]
    <2>1. Outcomes(d)[i] = <<d[i].text, d[i].verdict>> /\ Outcomes(e)[i] = <<e[i].text, e[i].verdict>>
        BY <1>1, <1>3 DEF Outcomes
    <2>2. d[i].text = e[i].text /\ d[i].verdict = e[i].verdict
        BY <2>1
    <2>3. d[i] \in Replies /\ e[i] \in Replies
        BY <1>3, ElementOfSeq
    <2>4. d[i].trace = e[i].trace
        BY <2>2, <2>3 DEF Replies, Traces
    <2> QED
        BY <2>2, <2>3, <2>4 DEF Replies
<1> QED
    BY <1>3, <1>4, SeqEqual

\* A dialogue of which each attempt has failed holds replies only.
LEMMA FailedAreReplies ==
    ASSUME NEW d \in Seq(Outcome), \A i \in 1 .. Len(d) : d[i].verdict \notin {"pass", "exhausted"}
    PROVE  d \in Seq(Replies)
<1>1. ASSUME NEW i \in 1 .. Len(d) PROVE d[i] \in Replies
    <2>1. d[i] \in Outcome /\ d[i].verdict # "exhausted"
        BY ElementOfSeq
    <2> QED
        BY <2>1 DEF Outcome, Exhausted, Attempt
<1> QED
    BY <1>1

LEMMA DrawIsNew ==
    ASSUME EInv, [Next]_vars, NEW q \in Requests, cache[q] = Missing, cache'[q] \in Texts
    PROVE  ~Known(q)
<1> SUFFICES ASSUME NEW o \in Outs, NEW s \in SamplesIn(o),
                    s.cell = q.cell, Len(s.attempts) >= Len(q.dialogue) + 1,
                    s.attempts[Len(q.dialogue) + 1].text \in Texts,
                    Outcomes(SubSeq(s.attempts, 1, Len(q.dialogue))) = Outcomes(q.dialogue)
             PROVE  FALSE
    <2>1. \A n \in Nat : n + 1 - 1 = n
        OBVIOUS
    <2>2. Len(q.dialogue) \in Nat
        BY DrawIsForRequest, InHand DEF Request
    <2> QED
        BY <2>1, <2>2 DEF Known
<1> DEFINE n == Len(attempts) + 1
           p == SubSeq(s.attempts, 1, Len(attempts))
<1>1. /\ pc = "reply" /\ q = Request /\ q.dialogue = attempts /\ q.cell = Cell
    BY DrawIsForRequest DEF Request
<1>2. /\ attempts \in Seq(Outcome) /\ Open(attempts) /\ Len(attempts) \in Nat
    BY <1>1, InHand DEF EInv, CellInv
<1>3. /\ s.attempts \in Dialogue /\ s.attempts \in Seq(Outcome) /\ Len(s.attempts) \in Nat
      /\ Scored(o, s.cell, s.attempts)
    BY SampleIs DEF EInv, Dialogue
<1>4. /\ Len(attempts) \in 0 .. Len(s.attempts) /\ n \in 1 .. Len(s.attempts)
      /\ \A i \in 1 .. Len(attempts) : i \in 1 .. Len(s.attempts) - 1
    BY <1>1, <1>2, <1>3
<1>5. /\ p \in Seq(Outcome) /\ Len(p) = Len(attempts)
      /\ \A i \in 1 .. Len(attempts) : p[i] = s.attempts[i]
    BY <1>3, <1>4, Prefix
<1>6. p \in Seq(Replies)
    <2>1. \A i \in 1 .. Len(p) : p[i].verdict \notin {"pass", "exhausted"}
        BY <1>3, <1>4, <1>5 DEF Dialogue
    <2> HIDE DEF p
    <2> QED
        BY <1>5, <2>1, FailedAreReplies
<1>7. attempts \in Seq(Replies)
    BY <1>2, FailedAreReplies DEF Open
<1>8. p = attempts
    <2>1. Outcomes(p) = Outcomes(attempts)
        BY <1>1
    <2> HIDE DEF p
    <2> QED
        BY <1>6, <1>7, <2>1, SameDialogue
<1>9. s.attempts[n].text \in Texts /\ s.attempts[n] # Exhausted
    BY <1>1, RepliesAssumption DEF Exhausted, Attempt
<1>10. n - 1 = Len(attempts)
    BY <1>2
<1>11. cache[[cell |-> s.cell, dialogue |-> p]] = s.attempts[n].text
    BY <1>3, <1>4, <1>9, <1>10 DEF Scored
<1>12. cache[q] = s.attempts[n].text
    BY <1>1, <1>8, <1>11 DEF Request
<1> QED
    BY <1>9, <1>12, RepliesAssumption DEF Missing

\* No draw is paid for again: where a recorded sample has a reply after the same outcomes, the
\* same cell asks for that very request, which is in the cache.
THEOREM RecordedDrawsAreReused == Spec => RescoreDrawsNothing
<1>1. ASSUME EInv, [Next]_vars
      PROVE  [\A q \in Requests :
                 (cache[q] = Client!Missing /\ cache'[q] \in Texts) => ~Known(q)]_vars
    BY <1>1, DrawIsNew DEF Missing
<1> QED
    BY <1>1, ExperimentInvariant, PTL DEF Spec, RescoreDrawsNothing

\* The program of a sample's last attempt, if it has one
Final(s) ==
    LET t == s.attempts[Len(s.attempts)].text
    IN  IF t \in Texts /\ HasProgram(t) THEN t ELSE Missing

\* What the inventory finds in a script is the program of the reply that was scored.
Pins ==
    \A o \in Outs : \A s \in SamplesIn(o) :
        /\ Entry(o, s) = [out |-> o, cell |-> s.cell, attempt |-> Len(s.attempts),
                          script |-> Final(s)]
        /\ Final(s) \in Programs \cup {Missing}

LEMMA PinsHold == EInv => Pins
<1> SUFFICES ASSUME EInv, NEW o \in Outs, NEW s \in SamplesIn(o)
             PROVE  /\ Entry(o, s) = [out |-> o, cell |-> s.cell, attempt |-> Len(s.attempts),
                                      script |-> Final(s)]
                    /\ Final(s) \in Programs \cup {Missing}
    BY DEF Pins
<1> DEFINE n == Len(s.attempts)
           t == s.attempts[n].text
<1>1. /\ s.cell \in Range(Cells) /\ s.attempts \in Dialogue /\ s.attempts # << >>
      /\ s.attempts \in Seq(Outcome) /\ Scored(o, s.cell, s.attempts)
    BY SampleIs DEF EInv, Dialogue
<1>2. n \in 1 .. Len(s.attempts)
    BY <1>1, LenProperties, EmptySeq
<1>3. CASE t \in Texts /\ HasProgram(t)
    <2>1. s.attempts[n] # Exhausted
        BY <1>3, RepliesAssumption DEF Exhausted, Attempt
    <2>2. /\ cache[[cell |-> s.cell, dialogue |-> SubSeq(s.attempts, 1, n - 1)]] = t
          /\ scripts[o][ScriptPath(s.cell, n)] = t
        BY <1>2, <1>3, <1>1, <2>1 DEF Scored
    <2>3. t \in Programs
        BY <1>1, <1>2, <1>3, <2>2, AskedIsRequest DEF Programs
    <2> QED
        BY <1>3, <2>2, <2>3 DEF Entry, Final, Last
<1>4. CASE ~(t \in Texts /\ HasProgram(t))
    BY <1>4 DEF Entry, Final, Last, Missing
<1> QED
    BY <1>3, <1>4

\* Records only become more, unless a kill tears raw.json.
LEMMA SamplesGrow ==
    ASSUME EInv, [Next]_vars, NEW o \in Outs, raw'[o].state # "torn"
    PROVE  SamplesIn(o) \subseteq SamplesIn(o)'
<1>1. CASE Rewrite
    BY <1>1, RewriteNext
<1>2. CASE Report \/ StopUnrecorded \/ Kill
    <2>1. raw'[o] = raw[o]
        BY <1>2, OverNext
    <2> QED
        BY <2>1 DEF SamplesIn
<1>3. CASE UNCHANGED raw
    BY <1>3 DEF SamplesIn
<1> QED
    BY <1>1, <1>2, <1>3 DEF Next, Step, vars, files, Skip, Enter, Complete, Serve, Extract, Execute,
       NoText, Judge, Record, Start

\* What the inventory pins stays the final program of its sample, and no record is refused: in
\* any directory, and whatever is killed, resumed or scored again after.
THEOREM PinnedStands == Spec => PinnedProgramsStand
<1>1. ASSUME EInv, [Next]_vars, Pins, Pins', NEW o \in Outs, raw'[o].state # "torn"
      PROVE  Entries(o) \subseteq Entries(o)' /\ Refused(o)' = {}
    <2>1. Entries(o) = {Entry(o, s) : s \in SamplesIn(o)}
        BY DEF Entries, SamplesIn
    <2>2. Entries(o)' = {Entry(o, s)' : s \in SamplesIn(o)'}
        BY DEF Entries, SamplesIn
    <2>3. \A s \in SamplesIn(o) : s \in SamplesIn(o)' /\ Entry(o, s)' = Entry(o, s)
        BY <1>1, SamplesGrow DEF Pins
    <2>4. Entries(o) \subseteq Entries(o)'
        BY <2>1, <2>2, <2>3
    <2>5. \A e \in Entries(o)' : e.script \in (Programs \cup {Missing})'
        BY <1>1, <2>2 DEF Pins
    <2> QED
        BY <2>4, <2>5 DEF Refused, Missing
<1>2. ASSUME EInv, [Next]_vars, Pins, Pins'
      PROVE  [\A o \in Outs :
                 \/ raw'[o].state = "torn"
                 \/ Entries(o) \subseteq Entries(o)' /\ Refused(o)' = {}]_vars
    BY <1>1, <1>2
<1> QED
    BY <1>2, PinsHold, ExperimentInvariant, PTL DEF Spec, PinnedProgramsStand

(***************************************************************************)
(* The replay command (ReplayRun): however often it runs and wherever it   *)
(* is stopped, what earlier runs wrote is kept.                            *)
(***************************************************************************)

DiskType ==
    /\ current \in [Names -> Int]
    /\ archive \in [Numbers -> [Names -> Int]]

\* Only finished runs that no interrupted renaming has scattered need be whole.
Due == finished \ scattered

\* Before a run begins to rename or to write, the files in place of one such run are
\* together; in the middle of the renaming those already renamed are gone; what a run
\* overwrites is of none.
PlaceInv ==
    /\ phase \in {"idle", "gates", "replay", "rename", "write"}
    /\ at \in 1 .. 3
    /\ phase \in {"idle", "gates", "replay"} \/ (phase = "rename" /\ at = 1) =>
          \A f \in Names : current[f] \in Due => current[f] = current[RecordFile]
    /\ phase = "rename" /\ at = 1 => current[RecordFile] # None
    /\ phase = "rename" => \A j \in 1 .. at - 1 : current[Files[j]] = None
    /\ phase = "write" =>
          /\ at = 1 => current[RecordFile] = None
          /\ \A f \in Names : current[f] \notin Due
          /\ \A j \in 1 .. at - 1 : current[Files[j]] = runs

RunsInv ==
    /\ runs \in 0 .. MaxRuns
    /\ whole \subseteq 1 .. runs
    /\ finished \subseteq 1 .. runs
    /\ phase # "idle" => runs # 0 /\ runs \notin finished

Archived == {k \in Numbers : archive[k][RecordFile] # None}

\* A run that has not written its record yet
Unwritten == phase \in {"gates", "replay", "rename"} \/ (phase = "write" /\ at = 1)

\* The numbers given are 1, 2, ... and leave one for every run to come; a number without a
\* record has no file at all.
NumbersInv ==
    /\ \E c \in Nat :
          /\ Archived = 1 .. c
          /\ c + (IF current[RecordFile] # None THEN 1 ELSE 0)
                 + (IF Unwritten THEN 1 ELSE 0) <= runs
    /\ \A k \in Numbers, f \in Names : archive[k][f] # None => k \in Archived
    /\ phase = "rename" =>
          /\ earlier \in Numbers
          /\ \A j \in at .. 3 : archive[earlier][Files[j]] = None
          /\ IF at = 1 THEN Archived = 1 .. (earlier - 1) ELSE earlier \in Archived

ReplayInv ==
    /\ DiskType /\ PlaceInv /\ RunsInv /\ NumbersInv
    /\ KeepsEveryFile

LEMMA FilesAre ==
    /\ Names = {Files[i] : i \in 1 .. 3}
    /\ \A i, j \in 1 .. 3 : Files[i] = Files[j] => i = j
    /\ RecordFile = Files[1] /\ RecordFile \in Names
<1>1. /\ Files[1] = "replay.json" /\ Files[2] = "outputs.json.gz"
      /\ Files[3] = "report.md"
  BY DEF Files
<1>2. RecordFile = "replay.json"
  BY DEF RecordFile
<1>3. Names = {Files[i] : i \in 1 .. 3}
  BY DEF Names
<1>4. QED  BY <1>1, <1>2, <1>3

LEMMA ReplayBegins == ASSUME ReplayInit PROVE ReplayInv
<1> USE DEF ReplayInit, Empty, None, Names, Numbers
<1>1. DiskType
  BY DEF DiskType
<1>2. PlaceInv
  BY DEF PlaceInv, Due
<1>3. RunsInv
  BY RunsAssumption DEF RunsInv
<1>4. NumbersInv
  <2>1. Archived = 1 .. 0 /\ current[RecordFile] = 0
    BY FilesAre DEF Archived
  <2>2. phase = "idle" /\ runs = 0 /\ \A k \in Numbers, f \in Names : archive[k][f] = 0
    OBVIOUS
  <2>3. 0 + (IF current[RecordFile] # None THEN 1 ELSE 0) + (IF Unwritten THEN 1 ELSE 0) <= runs
    BY <2>1, <2>2 DEF Unwritten
  <2>4. QED  BY <2>1, <2>2, <2>3 DEF NumbersInv
<1>5. KeepsEveryFile
  BY DEF KeepsEveryFile
<1>6. QED  BY <1>1, <1>2, <1>3, <1>4, <1>5 DEF ReplayInv

\* The steps that leave the files alone
LEMMA IdleNext ==
    ASSUME ReplayInv,
           \/ \E r, g \in BOOLEAN : StartReplay(r, g)
           \/ Gates \/ Edit \/ Differs \/ UNCHANGED replayVars
    PROVE  ReplayInv'
<1> USE DEF None
<1>1. /\ UNCHANGED <<current, archive, earlier, at, whole, finished, scattered>>
      /\ \/ UNCHANGED <<phase, runs>>
         \/ phase = "idle" /\ phase' = "gates" /\ runs < MaxRuns /\ runs' = runs + 1
         \/ phase = "gates" /\ phase' \in {"idle", "replay"} /\ runs' = runs
         \/ phase = "replay" /\ phase' = "idle" /\ runs' = runs
  BY DEF StartReplay, Gates, Edit, Differs, replayVars, disk,
         replaying, history
<1>2. DiskType' /\ KeepsEveryFile'
  BY <1>1 DEF ReplayInv, DiskType, KeepsEveryFile, Kept
<1>3. PlaceInv'
  BY <1>1 DEF ReplayInv, PlaceInv, Due, RunsInv
<1>4. RunsInv'
  <2>1. /\ runs' \in 0 .. MaxRuns /\ 1 .. runs \subseteq 1 .. runs'
        /\ phase = "idle" /\ phase' = "gates" => runs' # 0 /\ runs' \notin 1 .. runs
    BY <1>1, RunsAssumption DEF ReplayInv, RunsInv
  <2>2. QED  BY <1>1, <2>1 DEF ReplayInv, RunsInv
<1>5. NumbersInv'
  <2>1. Archived' = Archived
    BY <1>1 DEF Archived
  <2>2. phase' = "rename" => phase = "rename"
    BY <1>1
  <2>3. PICK c \in Nat : /\ Archived = 1 .. c
                         /\ c + (IF current[RecordFile] # None THEN 1 ELSE 0)
                              + (IF Unwritten THEN 1 ELSE 0) <= runs
    BY DEF ReplayInv, NumbersInv
  <2>4. c + (IF current[RecordFile] # None THEN 1 ELSE 0)
          + (IF Unwritten' THEN 1 ELSE 0) <= runs'
    BY <1>1, <2>3 DEF Unwritten, ReplayInv, RunsInv
  <2>5. QED  BY <1>1, <2>1, <2>2, <2>3, <2>4 DEF ReplayInv, NumbersInv
<1>6. QED  BY <1>2, <1>3, <1>4, <1>5 DEF ReplayInv

\* The number of the earlier run is free.
LEMMA NumberIs ==
    ASSUME ReplayInv, NEW c \in Nat, Archived = 1 .. c
    PROVE  NextNumber = c + 1
<1>1. NextNumber = Cardinality(Archived) + 1
  BY Zenon DEF NextNumber, Archived, Numbers, RecordFile, None
<1>2. Cardinality(1 .. c) = c
  BY FS_Interval
<1>3. QED  BY <1>1, <1>2

LEMMA MeasuredNext == ASSUME ReplayInv, Replay PROVE ReplayInv'
<1> USE DEF None
<1>1. /\ phase = "replay" /\ at' = 1 /\ earlier' = NextNumber
      /\ phase' = IF current[RecordFile] # None THEN "rename" ELSE "write"
      /\ UNCHANGED <<current, archive, runs, whole, finished, scattered>>
  BY DEF Replay, disk, history, RecordFile
<1>2. DiskType' /\ KeepsEveryFile'
  BY <1>1 DEF ReplayInv, DiskType, KeepsEveryFile, Kept
<1>3. PlaceInv'
  <2>1. ASSUME current[RecordFile] = None, NEW f \in Names  PROVE current[f] \notin Due
    BY <1>1, <2>1 DEF ReplayInv, PlaceInv, RunsInv, Due
  <2>2. QED  BY <1>1, <2>1 DEF ReplayInv, PlaceInv, Due
<1>4. RunsInv'
  BY <1>1 DEF ReplayInv, RunsInv
<1>5. NumbersInv'
  <2>1. PICK c \in Nat : /\ Archived = 1 .. c
                         /\ c + (IF current[RecordFile] # None THEN 1 ELSE 0)
                              + (IF Unwritten THEN 1 ELSE 0) <= runs
    BY DEF ReplayInv, NumbersInv
  <2>2. earlier' = c + 1
    BY <1>1, <2>1, NumberIs
  <2>3. Unwritten /\ Unwritten' /\ Archived' = Archived
    BY <1>1 DEF Unwritten, Archived
  <2>4. runs \in 0 .. MaxRuns
    BY DEF ReplayInv, RunsInv
  <2>5. phase' = "rename" => c + 1 \in Numbers
    BY <1>1, <2>1, <2>3, <2>4, RunsAssumption DEF Numbers
  <2>6. c + 1 \notin Archived
    BY <2>1
  <2>7. phase' = "rename" => \A j \in 1 .. 3 : archive[c + 1][Files[j]] = None
    BY <2>5, <2>6, FilesAre DEF ReplayInv, NumbersInv
  <2>8. \A k \in Numbers, f \in Names : archive[k][f] # None => k \in Archived
    BY DEF ReplayInv, NumbersInv
  <2>9. QED  BY <1>1, <2>1, <2>2, <2>3, <2>5, <2>7, <2>8 DEF NumbersInv
<1>6. QED  BY <1>2, <1>3, <1>4, <1>5 DEF ReplayInv

LEMMA RenameNext == ASSUME ReplayInv, Rename PROVE ReplayInv'
<1> USE DEF None
<1> DEFINE f == Files[at]
<1>1. /\ phase = "rename"
      /\ IF current[f] = 0 THEN UNCHANGED <<current, archive>>
         ELSE /\ archive' = [archive EXCEPT ![earlier][f] = current[f]]
              /\ current' = [current EXCEPT ![f] = 0]
      /\ IF at < 3 THEN at' = at + 1 /\ phase' = "rename" ELSE at' = 1 /\ phase' = "write"
      /\ UNCHANGED <<runs, earlier, whole, finished, scattered>>
  BY DEF Rename, history
<1>2. /\ at \in 1 .. 3 /\ f \in Names /\ earlier \in Numbers
      /\ archive[earlier][f] = 0
      /\ \A j \in at .. 3 : archive[earlier][Files[j]] = 0
      /\ \A j \in 1 .. at - 1 : current[Files[j]] = 0
      /\ f = RecordFile <=> at = 1
  BY <1>1, FilesAre DEF ReplayInv, PlaceInv, NumbersInv
<1> HIDE DEF f
<1>3. DiskType'
  BY <1>1, <1>2 DEF ReplayInv, DiskType
<1>4. /\ \A g \in Names : current'[g] = IF g = f THEN 0 ELSE current[g]
      /\ \A k \in Numbers, g \in Names :
            archive'[k][g] = IF k = earlier /\ g = f THEN current[f] ELSE archive[k][g]
  BY <1>1, <1>2 DEF ReplayInv, DiskType
<1>5. RunsInv'
  BY <1>1 DEF ReplayInv, RunsInv
<1>6. KeepsEveryFile'
  <2>1. ASSUME NEW g \in Names, NEW r \in Kept(g), r # 0
        PROVE  r \in Kept(g)'
    <3>1. CASE r = current[g]
      BY <1>2, <1>4, <2>1, <3>1 DEF Kept, Numbers
    <3>2. CASE \E k \in Numbers : r = archive[k][g]
      BY <1>2, <1>4, <2>1, <3>2 DEF Kept, Numbers
    <3>3. QED  BY <2>1, <3>1, <3>2 DEF Kept, Numbers
  <2>2. 0 \notin whole /\ 0 \notin finished
    BY DEF ReplayInv, RunsInv
  <2>3. RecordFile \in Names
    BY FilesAre DEF RecordFile
  <2>4. QED  BY <1>1, <2>1, <2>2, <2>3 DEF ReplayInv, KeepsEveryFile, Names
<1>7. PlaceInv'
  <2>1. \A j \in 1 .. at : current'[Files[j]] = 0
    BY <1>2, <1>4, FilesAre DEF f
  <2>2. CASE at < 3
    BY <1>1, <1>2, <2>1, <2>2 DEF PlaceInv
  <2>3. CASE at = 3
    <3>1. \A g \in Names : current'[g] = 0
      BY <2>1, <2>3, FilesAre
    <3>2. 0 \notin finished'
      BY <1>5 DEF RunsInv
    <3>3. QED  BY <1>1, <2>3, <3>1, <3>2, FilesAre DEF PlaceInv, Due
  <2>4. QED  BY <1>2, <2>2, <2>3
<1>8. NumbersInv'
  <2>1. PICK c \in Nat : /\ Archived = 1 .. c
                         /\ c + (IF current[RecordFile] # None THEN 1 ELSE 0)
                              + (IF Unwritten THEN 1 ELSE 0) <= runs
    BY DEF ReplayInv, NumbersInv
  <2>2. Unwritten /\ Unwritten'
    BY <1>1 DEF Unwritten
  <2>3. CASE at = 1
    <3>1. current[f] # 0 /\ f = RecordFile
      BY <1>1, <1>2, <2>3 DEF ReplayInv, PlaceInv
    <3>2. earlier = c + 1
      <4>1. 1 .. c = 1 .. (earlier - 1) /\ earlier \in Nat \ {0}
        BY <1>1, <2>1, <2>3 DEF ReplayInv, NumbersInv, Numbers
      <4>2. c \in 1 .. c \/ c = 0
        OBVIOUS
      <4>3. earlier - 1 \in 1 .. (earlier - 1) \/ earlier = 1
        BY <4>1
      <4>4. QED  BY <4>1, <4>2, <4>3
    <3>3. \A k \in Numbers : archive'[k][RecordFile] # 0 <=> k = earlier \/ archive[k][RecordFile] # 0
      BY <1>2, <1>4, <3>1
    <3>4. Archived' = Archived \cup {earlier}
      BY <1>2, <3>3 DEF Archived
    <3>5. Archived' = 1 .. (c + 1)
      BY <2>1, <3>2, <3>4
    <3>6. current'[RecordFile] = 0 /\ at' = 2 /\ phase' = "rename"
      BY <1>1, <1>2, <1>4, <2>3, <3>1
    <3>7. \A k \in Numbers, g \in Names : archive'[k][g] # 0 => k \in Archived'
      BY <1>4, <3>4 DEF ReplayInv, NumbersInv
    <3>8. \A j \in 2 .. 3 : archive'[earlier][Files[j]] = 0
      BY <1>2, <1>4, <2>3, <3>1, FilesAre
    <3>9. c + 1 + 1 <= runs /\ runs \in Nat
      BY <2>1, <2>2, <3>1 DEF ReplayInv, RunsInv
    <3>10. /\ c + 1 \in Nat
           /\ (c + 1) + (IF current'[RecordFile] # 0 THEN 1 ELSE 0)
                      + (IF Unwritten' THEN 1 ELSE 0) <= runs'
      BY <1>1, <2>2, <3>6, <3>9
    <3>11. earlier' \in Numbers' /\ earlier' \in Archived'
      BY <1>1, <1>2, <3>4 DEF Numbers
    <3>12. QED
      BY <1>1, <3>5, <3>6, <3>7, <3>8, <3>10, <3>11 DEF NumbersInv, Numbers, Names
  <2>4. CASE at # 1
    <3>1. \A k \in Numbers : archive'[k][RecordFile] = archive[k][RecordFile]
      BY <1>2, <1>4, <2>4, FilesAre
    <3>2. Archived' = Archived /\ earlier \in Archived
      BY <1>1, <2>4, <3>1 DEF Archived, ReplayInv, NumbersInv
    <3>3. current'[RecordFile] = current[RecordFile]
      BY <1>2, <1>4, <2>4, FilesAre
    <3>4. \A k \in Numbers, g \in Names : archive'[k][g] # 0 => k \in Archived'
      BY <1>4, <3>2 DEF ReplayInv, NumbersInv
    <3>5. \A j \in at + 1 .. 3 : archive'[earlier][Files[j]] = 0
      BY <1>2, <1>4, FilesAre DEF f
    <3>6. at < 3 => at' = at + 1
      BY <1>1
    <3>7. QED  BY <1>1, <1>2, <2>1, <2>2, <2>4, <3>2, <3>3, <3>4, <3>5 DEF NumbersInv
  <2>5. QED  BY <2>3, <2>4
<1>9. QED  BY <1>3, <1>5, <1>6, <1>7, <1>8 DEF ReplayInv

\* What a step keeps that gives no number and overwrites nothing but what is due to no run
KeptSoFar ==
    /\ DiskType' /\ Archived' = Archived
    /\ \A g \in Names : Kept(g) \cap Due \subseteq Kept(g)'
    /\ Kept(RecordFile) \cap whole \subseteq Kept(RecordFile)'
    /\ \E c \in Nat :
          /\ Archived = 1 .. c
          /\ c + (IF current'[RecordFile] # None THEN 1 ELSE 0) <= runs

\* A file is written, whole or not.
LEMMA OverwriteKeeps ==
    ASSUME ReplayInv, phase = "write", NEW v \in Int, v # None, archive' = archive,
           current' = [current EXCEPT ![Files[at]] = v], at \in 1 .. 3
    PROVE  /\ KeptSoFar
           /\ \A g \in Names : current'[g] = IF g = Files[at] THEN v ELSE current[g]
<1> USE DEF None
<1> DEFINE f == Files[at]
<1>1. f \in Names /\ (f = RecordFile <=> at = 1) /\ RecordFile \in Names
  BY FilesAre
<1>2. \A g \in Names : current'[g] = IF g = f THEN v ELSE current[g]
  BY <1>1 DEF ReplayInv, DiskType
<1>3. DiskType' /\ Archived' = Archived
  BY <1>1 DEF ReplayInv, DiskType, Archived
<1>4. current[f] \notin Due /\ (at = 1 => current[f] = 0)
  BY <1>1 DEF ReplayInv, PlaceInv
<1>5. 0 \notin whole
  BY DEF ReplayInv, RunsInv
<1> HIDE DEF f
<1>6. \A g \in Names : Kept(g) \cap Due \subseteq Kept(g)'
  BY <1>2, <1>4 DEF Kept
<1>7. Kept(RecordFile) \cap whole \subseteq Kept(RecordFile)'
  BY <1>1, <1>2, <1>4, <1>5 DEF Kept
<1>8. PICK c \in Nat : /\ Archived = 1 .. c
                       /\ c + (IF current[RecordFile] # None THEN 1 ELSE 0)
                            + (IF Unwritten THEN 1 ELSE 0) <= runs
  BY DEF ReplayInv, NumbersInv
<1>9. c + (IF current'[RecordFile] # None THEN 1 ELSE 0) <= runs
  <2>1. runs \in Nat
    BY DEF ReplayInv, RunsInv
  <2>2. CASE at = 1
    BY <1>1, <1>4, <1>8, <2>1, <2>2 DEF Unwritten
  <2>3. CASE at # 1
    BY <1>1, <1>2, <1>8, <2>1, <2>3
  <2>4. QED  BY <2>2, <2>3
<1>10. KeptSoFar
  BY <1>3, <1>6, <1>7, <1>8, <1>9 DEF KeptSoFar
<1>11. QED  BY <1>2, <1>10 DEF f

LEMMA WriteNext == ASSUME ReplayInv, Write PROVE ReplayInv'
<1> USE DEF None
<1> DEFINE f == Files[at]
<1>1. /\ phase = "write" /\ current' = [current EXCEPT ![f] = runs]
      /\ whole' = IF f = RecordFile THEN whole \cup {runs} ELSE whole
      /\ IF at < 3 THEN at' = at + 1 /\ UNCHANGED <<phase, finished>>
         ELSE at' = 1 /\ phase' = "idle" /\ finished' = finished \cup {runs}
      /\ UNCHANGED <<archive, runs, scattered>>
  BY DEF Write, RecordFile
<1>2. at \in 1 .. 3 /\ f \in Names /\ (f = RecordFile <=> at = 1) /\ RecordFile \in Names
  BY FilesAre DEF ReplayInv, PlaceInv
<1>3. runs \in 1 .. MaxRuns
  BY <1>1 DEF ReplayInv, RunsInv
<1>4. KeptSoFar /\ \A g \in Names : current'[g] = IF g = f THEN runs ELSE current[g]
  <2>1. runs \in Int /\ runs # None /\ archive' = archive
    BY <1>1, <1>3
  <2>2. QED  BY <1>1, <1>2, <2>1, OverwriteKeeps
<1>5. \A j \in 1 .. at : current'[Files[j]] = runs
  BY <1>1, <1>2, <1>4, FilesAre DEF KeptSoFar, ReplayInv, PlaceInv
<1> HIDE DEF f
<1>6. CASE at < 3
  <2>1. RunsInv'
    <3>1. runs \in 0 .. MaxRuns /\ runs \in 1 .. runs /\ runs \notin finished
      BY <1>1, <1>3 DEF ReplayInv, RunsInv
    <3>2. QED  BY <1>1, <1>6, <3>1 DEF ReplayInv, RunsInv
  <2>2. \A g \in Names : current'[g] \notin Due
    BY <1>1, <1>4 DEF KeptSoFar, ReplayInv, RunsInv, PlaceInv, Due
  <2>3. PlaceInv'
    BY <1>1, <1>2, <1>5, <1>6, <2>2 DEF PlaceInv, Due
  <2>4. NumbersInv'
    BY <1>1, <1>2, <1>4, <1>6 DEF KeptSoFar, ReplayInv, NumbersInv, Unwritten
  <2>5. whole' \subseteq Kept(RecordFile)'
    BY <1>1, <1>2, <1>4 DEF KeptSoFar, ReplayInv, KeepsEveryFile, Kept, RecordFile
  <2>6. \A g \in Names : Due \subseteq Kept(g)'
    BY <1>4 DEF KeptSoFar, ReplayInv, KeepsEveryFile, Names, Due
  <2>7. KeepsEveryFile'
    BY <1>1, <1>6, <2>5, <2>6 DEF KeepsEveryFile, Names, Due, RecordFile
  <2>8. QED  BY <1>4, <2>1, <2>3, <2>4, <2>7 DEF KeptSoFar, ReplayInv
<1>7. CASE at = 3
  <2>1. RunsInv'
    <3>1. runs \in 0 .. MaxRuns /\ runs \in 1 .. runs
      BY <1>1, <1>3 DEF ReplayInv, RunsInv
    <3>2. QED  BY <1>1, <1>2, <1>7, <3>1 DEF ReplayInv, RunsInv
  <2>2. \A g \in Names : current'[g] = runs
    BY <1>5, <1>7, FilesAre
  <2>3. PlaceInv'
    BY <1>1, <1>2, <1>7, <2>2 DEF PlaceInv, Due
  <2>4. NumbersInv'
    BY <1>1, <1>2, <1>4, <1>7 DEF KeptSoFar, ReplayInv, NumbersInv, Unwritten
  <2>5. whole' \subseteq Kept(RecordFile)'
    BY <1>1, <1>2, <1>4, <1>7 DEF KeptSoFar, ReplayInv, KeepsEveryFile, RecordFile
  <2>6. ASSUME NEW g \in Names  PROVE Due' \subseteq Kept(g)'
    <3>1. Due \subseteq Kept(g)'
      BY <1>4 DEF KeptSoFar, ReplayInv, KeepsEveryFile, Names, Due
    <3>2. runs \in Kept(g)'
      BY <2>2 DEF Kept
    <3>3. Due' \subseteq Due \cup {runs}
      BY <1>1, <1>7 DEF Due
    <3>4. QED  BY <3>1, <3>2, <3>3
  <2>7. KeepsEveryFile'
    BY <2>5, <2>6 DEF KeepsEveryFile, Names, Due, RecordFile
  <2>8. QED  BY <1>4, <2>1, <2>3, <2>4, <2>7 DEF KeptSoFar, ReplayInv
<1>8. QED  BY <1>2, <1>6, <1>7

LEMMA StopNext == ASSUME ReplayInv, Stop PROVE ReplayInv'
<1> USE DEF None
<1> DEFINE f == Files[at]
<1>1. /\ phase # "idle" /\ phase' = "idle"
      /\ \/ current' = current
         \/ phase = "write" /\ current' = [current EXCEPT ![f] = -1]
      /\ scattered' = IF phase = "rename" /\ at > 1
                      THEN scattered \cup ({current[g] : g \in Names} \ {0, -1})
                      ELSE scattered
      /\ UNCHANGED <<archive, runs, at, whole, finished>>
  BY DEF Stop, Torn, Names
<1>2. at \in 1 .. 3 /\ f \in Names /\ RecordFile \in Names
  BY FilesAre DEF ReplayInv, PlaceInv
<1>3. RunsInv'
  BY <1>1 DEF ReplayInv, RunsInv
<1>4. Due' \subseteq Due /\ 0 \notin Due /\ -1 \notin Due
  BY <1>1 DEF ReplayInv, RunsInv, Due
<1>5. KeptSoFar
  <2>1. CASE current' = current
    <3>1. DiskType' /\ Archived' = Archived
      BY <1>1, <2>1 DEF ReplayInv, DiskType, Archived
    <3>2. \A g \in Names : Kept(g)' = Kept(g)
      BY <1>1, <2>1 DEF Kept
    <3>3. PICK c \in Nat : /\ Archived = 1 .. c
                           /\ c + (IF current[RecordFile] # None THEN 1 ELSE 0)
                                + (IF Unwritten THEN 1 ELSE 0) <= runs
      BY DEF ReplayInv, NumbersInv
    <3>4. runs \in Nat
      BY DEF ReplayInv, RunsInv
    <3>5. c + (IF current'[RecordFile] # None THEN 1 ELSE 0) <= runs
      BY <2>1, <3>3, <3>4
    <3>6. QED  BY <1>2, <3>1, <3>2, <3>3, <3>5 DEF KeptSoFar
  <2>2. CASE phase = "write" /\ current' = [current EXCEPT ![f] = -1]
    <3>1. -1 \in Int /\ -1 # None /\ archive' = archive
      BY <1>1
    <3>2. QED  BY <1>2, <2>2, <3>1, OverwriteKeeps
  <2>3. QED  BY <1>1, <2>1, <2>2
<1>6. PlaceInv'
  <2>1. ASSUME NEW g \in Names, current'[g] \in Due'  PROVE current'[g] = current'[RecordFile]
    <3>1. CASE phase = "write"
      <4>1. current'[g] \in {current[g], -1}
        BY <1>1, <1>2, <3>1 DEF ReplayInv, DiskType
      <4>2. QED  BY <1>4, <2>1, <3>1, <4>1 DEF ReplayInv, PlaceInv
    <3>2. CASE phase = "rename" /\ at > 1
      BY <1>1, <1>4, <2>1, <3>2 DEF Due
    <3>3. CASE phase # "write" /\ ~(phase = "rename" /\ at > 1)
      BY <1>1, <1>2, <1>4, <2>1, <3>3 DEF ReplayInv, PlaceInv
    <3>4. QED  BY <3>1, <3>2, <3>3
  <2>2. QED  BY <1>1, <1>2, <2>1 DEF PlaceInv
<1>7. NumbersInv'
  BY <1>1, <1>5 DEF KeptSoFar, ReplayInv, NumbersInv, Unwritten
<1>8. KeepsEveryFile'
  <2>1. whole' \subseteq Kept(RecordFile)'
    BY <1>1, <1>5 DEF KeptSoFar, ReplayInv, KeepsEveryFile, RecordFile
  <2>2. \A g \in Names : Due' \subseteq Kept(g)'
    <3>1. \A g \in Names : Due \subseteq Kept(g)
      BY DEF ReplayInv, KeepsEveryFile, Names, Due
    <3>2. QED  BY <1>4, <1>5, <3>1 DEF KeptSoFar
  <2>3. QED  BY <2>1, <2>2 DEF KeepsEveryFile, Names, Due, RecordFile
<1>9. QED  BY <1>3, <1>5, <1>6, <1>7, <1>8 DEF ReplayInv, KeptSoFar

\* However the replay was run before and wherever it was stopped, every record written
\* whole is kept, and with it the two other files of a run that finished, unless a later
\* run was stopped between two of its renames.
THEOREM FilesAreKept == ReplaySpec => []KeepsEveryFile
<1>1. ReplayInv /\ [ReplayNext]_replayVars => ReplayInv'
  BY IdleNext, MeasuredNext, RenameNext, WriteNext, StopNext DEF ReplayNext
<1>2. ReplayInv => KeepsEveryFile
  BY DEF ReplayInv
<1>3. QED  BY ReplayBegins, <1>1, <1>2, PTL DEF ReplaySpec
=============================================================================
