------------------------------ MODULE ExperimentRun ------------------------------
(***************************************************************************)
(* harness.py run: draw and score every sample of every cell, each with    *)
(* its repair attempts, and write raw.json after each of them, so that an  *)
(* interrupted run can be resumed by giving the same command again.  The   *)
(* replies come through ChatClient, here by what it promises (Completion). *)
(* A reply's program is written to a file, executed (sandbox.py), and what *)
(* became of it goes into the prompt for the repair.                       *)
(*                                                                         *)
(* A run writes into one results directory; another directory may be given *)
(* to score the same draws again.  The process may be killed at any point, *)
(* also while it writes a file, which is then left torn.  harness.py       *)
(* inventory pins the final programs for the replay.                       *)
(***************************************************************************)
EXTENDS Integers, Sequences, SequencesExt

CONSTANTS
    Cells,      \* (mode, vendor, model, sample), in the order of the loops, a sequence
    Texts,      \* the replies a model may give
    Verdicts,   \* reply -> what may become of its program on the development case;
                \* a program that is slow or draws random numbers has several verdicts
    Repair,     \* --repair
    Outs,       \* results directories
    MaxKills    \* bound: kills

\* extract_code finds nothing in this reply.
HasProgram(t) == "no_code" \notin Verdicts[t]

\* The tracebacks of a crash: with the path the program was run at, in a directory of a
\* random name, and with the path replaced
RawTraces(v) == IF v = "crashed" THEN {"program.py", "elsewhere/program.py"} ELSE {"none"}
Traces(v) == IF v = "crashed" THEN {"program.py"} ELSE {"none"}

\* An attempt is the reply and what its feedback says.
Attempt(t, v, trace) == [text |-> t, verdict |-> v, trace |-> trace]

\* The attempts a dialogue may hold before a prompt
Failures ==
    {a \in [text : Texts, verdict : UNION Range(Verdicts),
            trace : RawTraces("crashed") \cup RawTraces("failed")] :
        a.verdict \in Verdicts[a.text] \ {"pass"} /\ a.trace \in RawTraces(a.verdict)}
Dialogues == UNION {[1 .. n -> Failures] : n \in 0 .. Repair}
Requests == [cell : Range(Cells), dialogue : Dialogues]

VARIABLES
    cache, call, completion,   \* as in Completion
    raw,        \* results directory -> raw.json, [state, samples]
    scripts,    \* results directory -> path -> the reply whose program the file holds
    report,     \* results directory -> how many samples its comparison.md covers, or 0
    pc,         \* "idle", "cells", "attempt", "reply", "execute", "write", "rewrite"
    out,        \* the results directory of this run
    samples,    \* raw["samples"] in the process
    done,       \* the cells that were recorded when the run started
    next,       \* the place of the next cell
    attempts,   \* the outcomes of this cell's attempts
    kills

client == <<cache, call, completion>>
process == <<pc, out, samples, done, next, attempts>>
files == <<raw, scripts, report>>
vars == <<client, process, files, kills>>

Client == INSTANCE Completion

\* No mode, vendor or model is named twice on the command line: its cells would come twice.
ASSUME CellsAssumption ==
    /\ Cells \in Seq(Range(Cells))
    /\ \A i, j \in 1 .. Len(Cells) : Cells[i] = Cells[j] => i = j
ASSUME RepliesAssumption == DOMAIN Verdicts = Texts /\ Texts \cap {Client!Missing, Client!Torn} = {}
ASSUME RepairAssumption == Repair \in Nat

\* The attempt of a model that replies with nothing
Exhausted == Attempt(Client!Missing, "exhausted", "none")

Cell == Cells[next]

\* A prompt is the cell's own, or continues the dialogue with the attempts so far: only a
\* program that did not pass is followed by another attempt.
RequestOfCell == [cell |-> Cell, dialogue |-> << >>]
Request == [cell |-> Cell, dialogue |-> attempts]

\* scripts/.../s<sample>_a<attempt>.py, without the sample and as it is
AttemptPath(cell, n) == <<Cells[1], n>>
ScriptPath(cell, n) == <<cell, n>>
Paths == Range(Cells) \X (1 .. Repair + 1)

Recorded(ss) == {ss[i].cell : i \in 1 .. Len(ss)}

File(state, ss) == [state |-> state, samples |-> ss]

Init ==
    /\ Client!ServiceInit
    /\ raw = [o \in Outs |-> File("missing", << >>)]
    /\ scripts = [o \in Outs |-> [f \in Paths |-> Client!Missing]]
    /\ report = [o \in Outs |-> 0]
    /\ pc = "idle"
    /\ out \in Outs
    /\ samples = << >>
    /\ done = {}
    /\ next = 1
    /\ attempts = << >>
    /\ kills = 0

----------------------------------------------------------------------------
(* The run *)

\* A run that does not look at what raw.json holds, though it keeps it
StartUnaware(o) ==
    /\ pc = "idle"
    /\ raw[o].state # "torn"
    /\ out' = o
    /\ samples' = raw[o].samples
    /\ done' = {}
    /\ next' = 1
    /\ pc' = "cells"
    /\ UNCHANGED <<client, attempts, files, kills>>

\* raw.json is read back, if there is one; a torn one does not parse and nothing starts.
Start(o) ==
    /\ pc = "idle"
    /\ raw[o].state # "torn"
    /\ out' = o
    /\ samples' = raw[o].samples
    /\ done' = Recorded(raw[o].samples)
    /\ next' = 1
    /\ pc' = "cells"
    /\ UNCHANGED <<client, attempts, files, kills>>

\* A recorded cell ends the loop, or is passed over.
BreakOff ==
    /\ pc = "cells"
    /\ next <= Len(Cells)
    /\ Cell \in done
    /\ next' = Len(Cells) + 1
    /\ UNCHANGED <<client, pc, out, samples, done, attempts, files, kills>>
Skip ==
    /\ pc = "cells"
    /\ next <= Len(Cells)
    /\ Cell \in done
    /\ next' = next + 1
    /\ UNCHANGED <<client, pc, out, samples, done, attempts, files, kills>>

Enter ==
    /\ pc = "cells"
    /\ next <= Len(Cells)
    /\ Cell \notin done
    /\ attempts' = << >>
    /\ pc' = "attempt"
    /\ UNCHANGED <<client, out, samples, done, next, files, kills>>

Complete ==
    /\ pc = "attempt"
    /\ Client!Ask(Request)
    /\ pc' = "reply"
    /\ UNCHANGED <<out, samples, done, next, attempts, files, kills>>

\* ChatClient at work
Serve(q) ==
    /\ pc = "reply"
    /\ Client!Serve(q)
    /\ UNCHANGED <<process, files, kills>>

Script == ScriptPath(Cell, Len(attempts) + 1)

\* The reply's program, if it has one, is written before it is run.
Extract ==
    /\ pc = "reply"
    /\ completion.kind = "text"
    /\ scripts' = IF HasProgram(completion.text)
                  THEN [scripts EXCEPT ![out][Script] = completion.text] ELSE scripts
    /\ pc' = "execute"
    /\ UNCHANGED <<client, out, samples, done, next, attempts, raw, report, kills>>

\* No text, a program that passed or no repair left: the sample is finished.
LastAttempt(verdict) == verdict \in {"pass", "exhausted"} \/ Len(attempts) = Repair

\* Execute and score the program, and decide whether to ask for a repair.
Judge(attempt) ==
    /\ attempts' = Append(attempts, attempt)
    /\ pc' = IF LastAttempt(attempt.verdict) THEN "write" ELSE "attempt"
    /\ Client!Release
    /\ UNCHANGED <<cache, out, samples, done, next, files, kills>>

Execute ==
    /\ pc = "execute"
    /\ \E v \in Verdicts[completion.text] : \E trace \in Traces(v) :
          Judge(Attempt(completion.text, v, trace))

\* An empty reply is scored as one without a program.
NoText ==
    /\ pc = "reply"
    /\ completion.kind = "exhausted"
    /\ Judge(Exhausted)

\* The process is over, and what it had in memory is gone.
Over ==
    /\ pc' = "idle"
    /\ samples' = << >>
    /\ done' = {}
    /\ next' = 1
    /\ attempts' = << >>
    /\ UNCHANGED out

\* provider_failure: nothing is recorded, exit status 3; or the exception ends the run.
StopUnrecorded ==
    /\ pc = "reply"
    /\ completion.kind \in {"provider", "raised"}
    /\ Over
    /\ Client!Release
    /\ UNCHANGED <<cache, files, kills>>

Sample == [cell |-> Cell, attempts |-> attempts]

\* The sample is appended in memory.
Record ==
    /\ pc = "write"
    /\ samples' = Append(samples, Sample)
    /\ pc' = "rewrite"
    /\ UNCHANGED <<client, out, done, next, attempts, files, kills>>

\* raw.json is written anew, from its first byte.
Rewrite ==
    /\ pc = "rewrite"
    /\ raw' = [raw EXCEPT ![out] = File("whole", samples)]
    /\ next' = next + 1
    /\ pc' = "cells"
    /\ UNCHANGED <<client, out, samples, done, attempts, scripts, report, kills>>

\* All cells are done: comparison.md, exit status 0.
Report ==
    /\ pc = "cells"
    /\ next > Len(Cells)
    /\ report' = [report EXCEPT ![out] = Len(samples)]
    /\ Over
    /\ UNCHANGED <<client, raw, scripts, kills>>

\* A kill may tear the file being written: the script, raw.json, or the client's cache file.
Kill ==
    /\ pc # "idle"
    /\ kills < MaxKills
    /\ kills' = kills + 1
    /\ Over
    /\ IF call # {} THEN Client!Die ELSE Client!Release /\ UNCHANGED cache
    /\ \/ UNCHANGED <<raw, scripts>>
       \/ /\ pc = "rewrite"
          /\ raw' = [raw EXCEPT ![out] = File("torn", << >>)]
          /\ UNCHANGED scripts
       \/ /\ pc = "reply"
          /\ completion.kind = "text"
          /\ HasProgram(completion.text)
          /\ scripts' = [scripts EXCEPT ![out][Script] = Client!Torn]
          /\ UNCHANGED raw
    /\ UNCHANGED report

----------------------------------------------------------------------------
(* The inventory *)

Programs == {cache[q] : q \in Requests} \cap {t \in Texts : HasProgram(t)}

\* The program of a sample is that of its last attempt, if there is one.
Entry(o, s) ==
    [out |-> o, cell |-> s.cell, attempt |-> Len(s.attempts),
     script |-> LET t == Last(s.attempts).text
                IN  IF t \in Texts /\ HasProgram(t)
                    THEN scripts[o][ScriptPath(s.cell, Len(s.attempts))] ELSE Client!Missing]
Entries(o) == {Entry(o, raw[o].samples[i]) : i \in 1 .. Len(raw[o].samples)}

\* inventory --write pins the entries, and refuses a script that is not the program of any
\* cached reply.
Refused(o) == {e \in Entries(o) : e.script \notin Programs \cup {Client!Missing}}

Step ==
    \/ Skip \/ Enter \/ Complete \/ Extract \/ Execute \/ NoText \/ StopUnrecorded
    \/ Record \/ Rewrite \/ Report
    \/ \E q \in Requests : Serve(q)

Next == Step \/ Kill \/ \E o \in Outs : Start(o)

Spec == Init /\ [][Next]_vars

\* The command is given again whenever it has stopped, and a provider that is asked again
\* and again replies at some time.
FairSpec ==
    /\ Spec
    /\ WF_vars(Step)
    /\ \A o \in Outs : SF_vars(Start(o))
    /\ SF_vars(\E q \in Requests, t \in Texts : pc = "reply" /\ Client!Store(q, t) /\ Serve(q))

----------------------------------------------------------------------------
(* Properties *)

\* However often a run is stopped and resumed, a cell is recorded at most once in a results
\* directory: the tables divide by the number of samples.
RecordedOnce ==
    \A o \in Outs : \A i, j \in 1 .. Len(raw[o].samples) :
        raw[o].samples[i].cell = raw[o].samples[j].cell => i = j

SamplesIn(o) == {raw[o].samples[i] : i \in 1 .. Len(raw[o].samples)}

\* The request behind the n-th attempt of a sample
Asked(s, n) == [cell |-> s.cell, dialogue |-> SubSeq(s.attempts, 1, n - 1)]

\* "Re-scoring must reuse that draw": what was scored, unless the model was exhausted, is the
\* reply in the cache for the very dialogue it was given in, and its program is the one in
\* the script of this attempt, in whatever directory and after whatever restart.
ScoredFromCache ==
    \A o \in Outs : \A s \in SamplesIn(o) : \A n \in 1 .. Len(s.attempts) :
        LET a == s.attempts[n]
        IN  a # Exhausted =>
                /\ a.text \in Texts
                /\ cache[Asked(s, n)] = a.text
                /\ HasProgram(a.text) => scripts[o][ScriptPath(s.cell, n)] = a.text

Outcomes(tries) == [i \in DOMAIN tries |-> <<tries[i].text, tries[i].verdict>>]

\* A sample recorded somewhere has a reply where q asks for one, after the same outcomes.
Known(q) ==
    \E o \in Outs : \E s \in SamplesIn(o) :
        LET n == Len(q.dialogue) + 1
        IN  /\ s.cell = q.cell
            /\ Len(s.attempts) >= n
            /\ s.attempts[n].text \in Texts
            /\ Outcomes(SubSeq(s.attempts, 1, n - 1)) = Outcomes(q.dialogue)

\* The same failure gives the same repair prompt, whatever directory the program ran in: no
\* new reply is drawn, and paid for, where a recorded sample has one after the same outcomes.
RescoreDrawsNothing ==
    [][\A q \in Requests :
          (cache[q] = Client!Missing /\ cache'[q] \in Texts) => ~Known(q)]_vars

\* "A program edited after its run can never be replayed as the model's": what the inventory
\* pins is the program of a cached reply, and stays the final program of its sample,
\* whatever runs are killed, resumed or scored again after, unless a kill tears raw.json.
PinnedProgramsStand ==
    [][\A o \in Outs :
          \/ raw'[o].state = "torn"
          \/ Entries(o) \subseteq Entries(o)' /\ Refused(o)' = {}]_vars

\* A file that a kill has torn is never written again: it does not parse.
Stuck(o) == raw[o].state = "torn" \/ \E q \in Requests : cache[q] = Client!Torn

\* "Run the same command again to resume": run again and again, the command ends with
\* every cell recorded and reported, whatever failed before and wherever it was killed,
\* unless a kill has torn a file.
Finishes ==
    \A o \in Outs :
        <>[](\/ Stuck(o)
             \/ Recorded(raw[o].samples) = Range(Cells) /\ report[o] = Len(Cells))
=============================================================================
