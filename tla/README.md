# Formal verification of secha-transform

TLA+ models of the secha-transform program, model-checked with TLC on small instances and,
for its core, proved with TLAPS for every value of the constants. Paths below are relative to
the repository's root, which is the directory `src/` here.

- `PROJECT.json` lists every component, run, property, mutant, hazard and theorem, and for
  every definition of a model the source lines it stands for.
- `tlc -config <cfg> <MC module>` repeats a run; `tlapm <module>` repeats a proof.

## 1. Inventory

secha-transform turns raw landing-zone records of charging stations and meters into canonical
measurement rows, writes them as Parquet, and loads them into Delta tables. Beside it lives an
experiment that asks language models to write such a transform and scores their programs
against the engine.

```
 ingestion (external)
     | payloads + sidecars
     v
 landing reader --> engine --> canonical writer --> load_kempower.sh --> Delta sink: MERGE
   LandingReader   TransformRecords    RunVendor       LoadKempower        DeltaMerge
        \________________  mx-electrix: MxElectrix (several at once)  ________/
                                                                              |
                              rulebook (metadata) --> delta-views: dimensions, serving objects
                                                                   ServingPublish
 experiment:  harness run  --> chat client --> provider (external)
             ExperimentRun     ChatClient (Completion)
              |  scripts, raw.json          compare.score_case (ScoreCase)
              v                                 levels, identity (ReplayMeasures)
             harness inventory --> harness replay (ReplayRun)
```

| component | state it keeps | operations | hard behaviour | what makes it correct |
|---|---|---|---|---|
| engine `engine/transform.py` | rows, sessions, seven counters; per record: the buffered rows and a suspect flag | `transform_records`: rules on raw fields, unpivot, factor, rules on values, commit or reject | five early exits, each with its own counters; a late rejection takes back what was buffered and counted; exceptions | all of a record's rows or none; exact counters; a session is opened by its first *surviving* record |
| writer and `run` `io/writer.py`, `cli.py` | part files on disk; per partition: batch number, sessions seen | partitions in order, batches, a file per date, a session file | kills between and inside files; re-runs over new snapshots or other batch sizes; memory across batches | a completed pass is on disk as a whole; a re-run is identical; rows find their session |
| landing reader `io/reader.py` | the zone, shared with ingestion | list partitions, list payloads, look up sidecars, read | ingestion writes concurrently, is killed, re-fetches old content | reads the latest complete snapshot, never an older one than before |
| Delta sink, MERGE `io/delta_sink.py` | the table; staged directories; loads under way | stage, count, MERGE, count | concurrent loads, lazy staged views, lost connections, ties in the ranking | one row per key; each commit one whole load; idempotent; counts that add up |
| `mx-electrix` `cli.py` | part files of a scope (one meter or all); the canonical root it shares with every scope | device factors, records, files per date, MERGE of the whole root | several commands at once, kills, lost clients whose MERGE commits later, stale files of other scopes | what an undisturbed run made is what the table has; runs of one scope do not undo each other |
| Delta sink, views `io/delta_sink.py` | catalog objects | drop/create/insert per object, or one view | failure between statements; facts and rulebook move meanwhile | what was passed is fresh; only a gap; joined to its own bundle |
| `scripts/phase3/load_kempower.sh` | files staged on the cluster, accumulating | check, stage, MERGE per part, sessions last | `scp` and MERGE fail half way, `set -e` and pipes, re-runs | exit 0 means loaded; no half part; sessions never ahead of rows |
| chat client `codegen/client.py` | cache files; four budgets per call | `complete` | busy, failing, truncating, empty replies mixed; a kill in a cache write | of cut prompts only slight cuts pass; a reply is used only as cached; every call ends |
| experiment `harness.py` run | `raw.json`, scripts, done cells | loop over cells, attempts, scripts, record, rewrite | stop and resume at any point; programs with more than one outcome; tracebacks with random paths | a cell is recorded once, from the cached draw of its dialogue; re-scoring draws nothing twice |
| inventory `codegen/replay.py` | none: reads results and cache | pin the final program of every sample | scripts of killed and resumed runs | a pinned program is a cached reply's and stays its sample's |
| replay `harness.py` replay | three result files and their archive | gates, replay, rename, write | stops between renames and writes | every file of an earlier run is kept |
| reference interpreter `reference/interpreter.py` | none: a function of its input | `transform` | a second program for the engine's contract, with other scans and counts | the same readings and statistics wherever the engine completes; with the two patches of the positive control, the same rows |
| scoring `codegen/compare.py` | buckets of unpaired rows | strict, identity, near and lenient pairing | duplicates, rows that nearly match, greedy order, values within a tolerance | pairing computes the multiset intersection; missing and extra are exact |
| replay measures `codegen/replay_run.py` | none: functions of two row lists | levels 1 to 3, ordered differences, engine identity | sorted pairing beside a greedy one | the measures agree with each other as PROTOCOL.md says |

Components without a model (section 7): the experiment's cases and oracle, its metrics and
reports, the harness's self-check and probe commands, the platform handshake and token scripts,
the sample script, and the loading of metadata, settings and logging. Of the sandbox only what
the experiment sees is modelled: an outcome and a traceback.

How they interact. The reader and the writer run in one process (`run`), but each is exposed to
a different neighbour: the reader to ingestion, which writes the landing zone at any time; the
writer to its own earlier runs, whose files it shares a directory with. The load script stages
the writer's files and calls the sink once per directory; the sink is called by several people
against one table. `delta-views` reads three things at three moments: the bundle when it starts,
the SQL from the checkout for each definition, and the fact table when an INSERT runs. The
harness calls the chat client and relies on one thing only: a reply is cached before it is used.

## 2. Modules and the code

**TransformRecords** (`engine/transform.py`, `models.py`, `validation.py`, `identity.py`).
The record loop at the grain of one value: `StartRecord` (count the record, run the record
rules), `BadRecord` (an identity, epoch or offset that raises), `Unmapped`, `UnpivotCell`
(null skip, factor, number), `EndUnpivot`, then `KeepValue`, `DropValue` or `RejectRecord`
for every value in order, `CommitRecord` and `Finish`. `Verdict` is the rule scan with its
first-failure rule; `ResolveFactor` the lookup of `uk`, of `ik` or of both; `ApplyTransform` what it
does to a cell. A row in the loop is the record, the mapping entry, the value and the quality;
`Canonical` adds the columns that follow from these, the entry's `aggregation` or the default and
the `source_row_id`, which is the record's own or, where the source identifies rows by position,
the position the reader has stamped. Timestamps, labels and the identity hash over all of it are
left out. Numbers are integers, a rule's bounds a set of them; `Junk` is text that `float()` rejects. Two cases are folded: `records_in` is the loop index, and the wide and long shape are
a field of the records (the same for all of one call).

**ReferenceInterpreter** (`experiments/llm_codegen/reference/interpreter.py`). The experiment's
own implementation of the contract. It keeps nothing between calls, so its model is an operator,
`Totalled`, built of the interpreter's loops, each a function of the turns it has made:
`Scanning` over rules (`Judge`), `Reading` over cells (`TakeCell`), `Screening` over candidates
(`TakeCandidate`), `Outputs` over records (`OneRecord`). `Transform` gives each row the columns that
the contract describes (`Written`: a wide column's aggregation is the default, the row id is the
record's), `PositiveControl` those of the program as gate G4 patches it (`Patched`). It is written from the interpreter and shares with
TransformRecords the data only (mapping, rules, records), none of the definitions of what is
done with them. The run compares the two at the end of every call the engine completes, as the
harness's self-check does with its cases: the interpreter column by column as far as they agree,
and saying where they do not; the positive control in all columns.

**RunVendor** (`cli.py` `run`, `io/writer.py`). `Land`, `StartCommand`, `OpenPartition`,
`TransformBatch` or `AbortCommand`, `WriteDay` per event date in any order (pyarrow's), then
`WriteSessions`, `ClosePartition`, `EndCommand`; `Crash` at any point, with any of the files
under way torn. A record is reduced to its date, its session and its fate in the engine. The
file name is computed as the code does, by replacing each run of unsafe characters by a dash.

**LandingReader** (`io/reader.py`; ingestion external). Ingestion's `Fetch`, `RenamePayload`,
`WriteSidecar`, `EndFetch` in either order, killed anywhere; the command's `Start`,
`ListPayloads`, one `LookUp` per sidecar, `ReadPayload`, `End`, `Quit`.

**MergedTable, StagedMerge, DeltaMerge** (`io/delta_sink.py` `merge_entity`; Spark and Delta
external). `StagedMerge` holds what the two SQL statements mean, for every module that merges.
`MergedTable` is the promise: a mapping of keys, what was loaded last, and a load that takes the
best copy of every key it offers, whatever the table held. `DeltaMerge` keeps `last`, the copies
the last committed MERGE has read, as a history variable, so that the promise is about *those*
copies, and has the loads as processes: `ListStaging`, `CountStaged`, `CountMerged`, `CountBefore`,
`StartMerge`, `CommitMerge`/`FailMerge`/`LoseFile`, `CountAfter`, `EndLoad`, with `Restage` and `Drop` (the
client is gone, the server may still commit) around them. A second history variable, `rewritten`,
says whose path was rewritten between its listing and its MERGE. `Dedupe` returns the *set* of results
`row_number()` may give, one for each way of breaking ties.

**MxElectrix** (`cli.py` `mx_electrix`, over StagedMerge) composes the reader, the engine, the
writer and the sink for one command, with several commands at once: `Begin` (the device factors
are read first), `StartTransform` (the stamp; the meters are listed), `ReadMeter`, `WritePart`,
`StartMerge`, `CommitMerge`/`FailMerge`, `EndLoad`, and `Kill` and `Land` at any point. The parts
shown correct elsewhere appear by what was shown: a payload read is the newest, a MERGE is one
step from its reading to its commit. A row carries the snapshots its value comes from, which is
all that tells two runs apart. `quiet` is a history variable: the stamps of the runs during which
no other command was about. A client that is killed leaves its MERGE with the server (`orphan`).

**ServingPublish** (`io/delta_sink.py` `publish_*`, `cli.py` `delta_views`). One action per SQL
statement; `Load` and `Revise` move the fact table and the metadata checkout. Table or view mode
is a function of the bundle's revision, as in `serving_mode`.

**LoadKempower** (`scripts/phase3/load_kempower.sh`). `Start` with any arguments, `Check`,
`StageAll` or `StageSome` (partial copies, one file torn), `Merge`, `MergeFails` (committed or
not), `NoSessions`, `Kill`, and `Transform`, which writes the local files anew between runs.

**Completion, ChatClient** (`codegen/client.py` `complete`; providers external). `Completion` is
the promise to a caller; `ChatClient` the loop with its budgets. Providers answer from any
replica, each with a context window; `PromptTruncated` is the code's two thresholds in integers.

**ExperimentRun** (`harness.py` `cmd_run`, `codegen/sandbox.py`, `codegen/prompts.py`,
`codegen/replay.py`) runs *over* `Completion`, by `INSTANCE`, and not over the client's code: what
is shown of it holds for any client that keeps the promise, and `ChatClient` is shown to keep it.
A reply has a set of outcomes on the development case, since a program may be slow or random;
`Execute` takes one of them. An `Attempt` is the reply and what its feedback says; a prompt is a
cell and the attempts before it, which is the key of the cache. `Extract` writes the script of an
attempt, `Record` and `Rewrite` the sample; `Entries` is what `harness inventory` pins of a
`raw.json`, and `Refused` what it refuses. A process that has ended forgets its variables (`Over`).

**ReplayRun** (`harness.py` `cmd_replay`) has the three files, renamed and written one by one.

**ScoreCase, ReplayMeasures** (`codegen/compare.py` `score_case`; `codegen/replay_run.py`).
ScoreCase is the pairing as a sequence of loops, one action per row of a loop. A row is its
identity, its value and whether its identity hash is right; values are close within one unit, so
closeness is not transitive, and `NotNumeric` is close to nothing. `WellFormed` is the loop that
sets rows without a field aside, as a recursive function of the output. ReplayMeasures adds the
operators of the replay over the same two lists: `ProjectedMatch` for the three levels,
`NoOrderedDifferences`, `EngineIdentity`. A bucket is a function of the places of its rows, and
`Sorted` says of a bucket what `sorted()` returns: its *n*-th value is the smallest that *n* of the
values are up to.

An `MC` module gives a model the values of its run. `MCRunVendor` and `MCReplayRun` check the two
halves of one command in one run (LandingReader and RunVendor, ReplayRun and ReplayMeasures): the
variable `half` chooses one of them at the beginning, and the other stays in its initial state, so
that the run's states are those of both halves and not of their product.

In each module some operators stand next to the definition they alter (`DiscardsRecordOnlyIfRejected`
beside `DiscardsRecord`). They are plausible bugs; `PROJECT.json` says which property each
breaks. No specification uses them.

## 3. Runs

| run | instance | distinct states | what it shows |
|---|---|---|---|
| `transform_sources` | every sequence of at most 3 of 14 wide, or of 11 long, records; of at most 2 that are identified by position | 57 thousand | `TypeOK`, `AllOrNothing`, `SessionsOfFirstSurvivor`, `SuspectsCounted`, `CountersExact`, `OnlyUnscaledAreLost`, `AgreesWithReference`, `ControlIsExact` |
| `readings_unscaled` | the same | violation | `NeverDroppedInvisibly` fails (section 5) |
| `run_partitions` | reading: 2 partitions, 2 payload names, 4 fetches, any number of commands; writing: 2 partitions (2 and 1 snapshots), batch sizes 1 and 2, any number of commands and crashes | 6.2 million (5.1 reading, 1.1 writing) | `ReadsTheLatest`, `NeverBackwards`; `CompletedPassStands`, `RerunsAreIdentical`, `RowsJoinSessions` |
| `merge_revised` | 2 loaders, 2 paths, 2 keys with revised copies | 610 thousand | `UniqueKeys`, `ReportsAddUp`, `KeepsPromise` (refines `MergedTable`), `RerunChangesNothing` |
| `merge_duplicates` | two copies of one key with equal `ingested_at` | violation | `RerunChangesNothing` fails (section 5) |
| `mx_scopes` | 2 meters (2 and 1 snapshots), 1 snapshot of the devices, 2 commands at once, 3 runs, any scope | 3.6 million | `QuietRunStands`, `OlderRowsAreOfOtherScopes` |
| `serving_revised` | 2 dimensions, 2 definitions, 3 revisions (tables, views, empty vocabulary), 2 loads, 3 publishes | 65 thousand | `OnlyAGap`, `RefreshedSoFar`, `JoinedToItsBundle` |
| `load_parts` | 3 parts (one without sessions), 2 per command line, 3 runs, 2 versions of the files | 710 thousand | `SuccessLoadsAll`, `WholeParts`, `RowsBeforeSessions` |
| `client_promise` | prompts of 5200 and 6000 tokens at 3 characters each, windows of 3900, 4096 and 32768 tokens, 2 retries, 1 truncation retry, 60 s of waiting | 72 thousand | `CutsCachedAreSlight`, `KeepsPromise` (refines `Completion`), `CallsEnd` |
| `client_near_window` | the same prompts, windows of 4096 and 32768 | violation | `NeverCachesTruncated` fails (section 5) |
| `experiment_resumed` | 2 cells, 1 repair, a reply that passes or crashes and one without a program, 2 results directories, 1 kill, any number of starts | 590 thousand | `RecordedOnce`, `ScoredFromCache`, `RescoreDrawsNothing`, `PinnedProgramsStand`, `Finishes` |
| `replay_stopped` | files: 4 runs, with and without a reason and `--gates-only`, stopped anywhere; scores: all pairs of at most 3 engine rows and 3 program rows over 4 identities (two of one instant, two of one reading, one with another row id), 3 values within two tolerances, ids right or wrong, values that are no number, malformed rows | 9.2 million | `KeepsEveryFile`; `MissingIsTheShortfall`, `ExactIsTheIntersection`, `LenientForgives`, `LevelOneIsThePass`, `LevelsNest`, `NoDifferencePasses` |

Why the bounds are enough, where it is not plain:

- *transform_sources.* The engine carries from one record to the next only rows, sessions and
  counters. The interesting cases need at most three records: one rejected that would have opened
  a session, one that opens it, one that comes too late; and the record list has each early exit,
  a value flagged before it is dropped, a value dropped before its record is poisoned, and every
  way to raise. One wide column and one long key declare an aggregation that is not the default, one
  key the default; a meter has both factors or one of them. Where rows are identified by position
  nothing else changes, so that two records are enough. What does not depend on an instance is proved (section 4).
- *run_partitions, writing.* Bounds lie in the data alone: the number of commands, crashes and landings is
  unlimited. The first partition's snapshots begin on different days, so batch 0 of two passes
  writes different files; one record raises in its second batch; sessions span batches.
- *run_partitions, reading.* Two names in both orders of landing, the old one fetched again, give every
  order of two recencies; a fourth fetch lets ingestion overtake a command twice.
- *merge_revised.* Two paths, each rewritten at any time, let a load be the one whose files changed
  under it or the one whose files did not. Two loads are what an optimistic commit can tell apart: one that was
  overtaken, one that overtook. Loaders and paths are symmetric. The run checks no liveness.
- *mx_scopes.* The hazards need a run of all meters and one of a single meter, which share a key,
  before and after a snapshot that adds and one that loses a reading, and a MERGE left behind by
  a third. Three runs give these in every order; two at once are what one command can meet.
- *load_parts.* Three runs: one that leaves torn or stale files, one that follows it, and a last one
  after the transform has written new files.
- *client_promise.* Budgets of 2, 1 and 60 s let each run out first and every two interact. Of the
  cuts the two prompts can meet, 6000 to 3900 is seen by the density rule alone and 6000 to 4096 by
  the rule of the common windows; 5200 to either window is seen by neither.
- *experiment_resumed.* One kill at every point of a run, in each of two directories, and provider
  failures without bound, each of which stops a run. The second directory scores the draws of the
  first again; the program with two outcomes lets its dialogue part from the first one's, and
  return to it.
- *replay_stopped, scores.* Three rows on each side are the fewest with which a greedy and a sorted pairing
  of values 1, 2, 3 differ, one row of a bucket being left over.
- *replay_stopped, files.* A third run is the first that can meet an archive; the fourth shows the number
  it would get being taken or not.

Deadlock is checked where the system runs for ever. It is not where it may stop: a call that
returns (`transform_sources`, `readings_unscaled`), bounded runs of a command (`serving_revised`,
`load_parts`, `replay_stopped`, `mx_scopes`), and directories whose `raw.json` is torn
(`experiment_resumed`).

### Fairness

Two properties need it.

- `CallsEnd` (ChatClient) assumes `WF(Step)`: a process inside `complete` goes on. The
  code gives each request a timeout (`client.py:232`), which bounds every operation on the socket and
  so ends a post to which nothing comes, and sleeps for the pauses; that a response which keeps
  coming in pieces ends too is assumed of the provider. The action `Kill` stays outside. No fairness is asked of the provider, which may answer badly for ever; the
  property holds because the three budgets end the loop.
- `Finishes` (ExperimentRun) assumes `WF(Step)`; `SF(Start(o))`, because the documentation
  tells the user to give an interrupted command again; and `SF` of a stored reply, because a
  provider that never answers can never complete an experiment. It claims the report of every
  directory unless a torn file stands in the way, and says which (`Stuck`).

Everything else is checked under no fairness at all.

## 4. Proofs

Eight modules hold proofs; between them they state every invariant, every action property and every
refinement that a passing run checks. The theorems about
LandingReader stand in RunVendorProofs, those about ReplayRun in ExperimentRunProofs, those about
ScoreCase and ReplayMeasures with ChatClient's in HarnessProofs; such a module extends both of its models, and their
variables and specifications have names of their own (`ReaderSpec`, `ReplaySpec`, `ScoreSpec`).
All assume only the named `ASSUME`s of the modules they are about, which TLC evaluates in the
runs, and where a theorem needs more it says so in its statement. The assumptions are facts about
data: rules, mappings and inputs are what the data models validate; markers such as `Null` or a
torn file differ from what they mark (`ValuesAssumption`, `ReplyAssumption`, `TornAssumption`); a
staging is finite; session files of two parts have different names, since they carry the part's
number (`PartsAssumption`); names of dimensions and of serving files differ (`NamesAssumption`);
a command line names a cell once (`CellsAssumption`: the harness runs a cell it is given twice
twice, and would record it twice).

**TransformRecordsProofs**

- `TypeCorrect`: `Spec => []TypeOK`, inductive by itself, one step per action.
- `SuspectCountExact`: `[]SuspectsCounted`. The invariant `SuspectInv` adds that while a
  record is not being screened its buffer contributes nothing; without it `RejectRecord` and
  `StartRecord` could lose a count. The argument rests on what `SuspectIn` does to `Append`
  and to `\o`, proved as lemmas by a bijection between sets of indices.
- `LostAreUnscaled`: `[]OnlyUnscaledAreLost`. The counters add up only between records; in
  the middle of one, exactly one reading is on its way. `LongInv` says so: the counted readings, the
  unscaled ones and the one that is `Pending` are the records taken. A long record has at most one
  entry (`LongEntries`), and the set of unscaled readings grows by at most one (`UnscaledUpToGrows`).
- `NothingLostWithFactors`: `[]NeverDroppedInvisibly`, the sentence that `readings_unscaled` refutes,
  under the condition that every meter has every factor.

- `RowsTogether`, `SessionsFromSurvivors`, `CountersTrue`: `[]AllOrNothing`,
  `[]SessionsOfFirstSurvivor`, `[]CountersExact`, all from one invariant of the loop, `LoopInv`.
  Between records it says the three properties of the positions dealt with (`RowsUpTo`,
  `SessionsUpTo`, `Counted`). With a record in hand it says where in the record the loop stands:
  while it is unpivoted, the values waiting are those of the cells read, in their order, and each
  null cell is counted (`Unpivoted`); while it is screened there is a cell *n* such that the values
  waiting are those of the cells after *n*, no value up to *n* is poison, the buffer has one row for
  each value kept, and each value dropped is counted (`Screened`). "In their order" needs `Listed`,
  an enumeration of a set of cells, and what `Append` and `Tail` do to it. `CountersExact` fixes
  which dropped values count in a record that is rejected; that is `PoisonedDrops`.
- `EnginesAgree`: `[]AgreesWithReference`, a simulation between the two programs. The invariant
  `ReferenceInv` (`InStepWithReference`) follows the engine's actions through the interpreter's
  loops. Between records, the rows and the five counters that both keep as they go are those of
  `Outputs`; the two the interpreter fills in at the end are still zero in it. While record *k* is
  unpivoted, the values waiting are the candidates of `Reading` before `cell`, and the statistics
  are those of `Outputs` at *k - 1* with this record's null cells (`SameCells`). While it is
  screened, there is an *n* such that the buffer is the rows of `Screening` after *n* candidates
  and the values waiting are the others (`SameBuffer`). Two lemmas say why the programs may differ
  as they do: `ScanIsVerdict`, the interpreter's running mark is the engine's verdict, which looks
  for the first rule that ends the scan; and `RejectedStays`, once a candidate rejects its record
  nothing after it counts, so that the engine may stop where the interpreter loops on. The counters
  of the end agree by `SuspectInv` (`SameReadings`). The columns then follow row by row: the
  aggregations differ *if and only if* a wide column has one of its own that is not the default.
- `ControlAgrees`: `[]ControlIsExact`, from the same invariants: all columns, the positional row id
  and a column's own aggregation among them.

  In both the loops are recursive functions: that they have values at all
  is `Recursion` and that these have their types is `Unfolded`, proved by the smallest
  counterexample (`Upwards`), since the library's induction takes an operator.

**RunVendorProofs**

- `TypeCorrect`: `[]TypeOK`, for every number of partitions, dates, sessions and batch sizes.
- `PassesStand`: `TagsDiffer => (Spec => []CompletedPassStands)`. `CompletedPassStands` is
  not inductive: it says nothing of a pass under way. `RunInv` adds that every batch already
  written stands (`Progress`), that of the batch in hand the dates not in `toWrite` stand, and
  that `seen` is exactly the sessions opened by the records of earlier batches (`Opened`), from
  which the session files of a batch are those of the *partition's* first survivors. `TagsDiffer`
  is needed: two partitions whose identities become one file name overwrite each other.
  Batch arithmetic (`Products`, `ProductsGrow`, `BatchBound`) shows that batches leave nothing
  out and end.

- `RerunsIdentical`, `SessionsJoin`: `TagsDiffer => (Spec => []RerunsAreIdentical)` and the same
  of `RowsJoinSessions`. `PassesStand` says what is there; for "and nothing else" the invariant
  `Begun` says that every file was written by some attempt that was opened, with the content that
  attempt would give it, or is torn. With one snapshot (and for the first theorem one batch size)
  among the attempts, the completed pass has overwritten all of them.

- `LatestIsRead`, `NeverAnOlderOne`: `[]ReadsTheLatest` and the action property `NeverBackwards` of
  the landing reader, from `LandingInv`. What is in the zone only grows and its sidecars only get
  newer (`DiskGrows`; a payload in hand was fetched after all that have a sidecar), so what a
  command could have read at its beginning it can still read (`HoldsSince`). `Served` says where a
  snapshot as new as that is while the payloads are looked up one by one: not listed yet, listed,
  or already behind the payload ahead. No partition is read from before the last command's
  snapshot because that snapshot was complete when this command began.

**DeltaMergeProofs**

- `KeysStayUnique`: `[]UniqueKeys`, from `MergeInv`: the table is unique, and every offer is
  made of known copies. `MergeUnique` and `DedupeUnique` are the two facts about SQL.
- `PromiseKept`: `Spec => KeepsPromise`. Every `CommitMerge` is one `Load` of the abstract table
  under the mapping `Content`, every other step a stutter (`OnlyCommits`). It holds for every
  `Order`: for entities without `ingested_at` too ("first"), which no run instantiates.

- `RerunsAreIdle`: `Decided => (Spec => RerunChangesNothing)`. `Decided` says that no two copies
  of one key rank alike and yet make different rows. Without it the property is false, which is
  what run `merge_duplicates` shows; with it `Dedupe` has one result (`DedupeDecided`), so section
  5's disagreement is the only way in which a re-run may change anything.
- `ReportsTrue`: `[]ReportsAddUp`. `CountInv` follows a load from its first count: until another
  load commits, what it counted is what the table has, and a MERGE adds at most the keys it offers.
  `StagedInv` follows its path: until it is rewritten the files listed hold what was counted, and
  what the MERGE has read is that. That a MERGE leaves every key of its offer in the table, and takes
  none away that others have put there, is `MergeKeys`.

**MxElectrixProofs**

- `QuietRunsStand`: `Spec => []QuietRunStands`, for every number of meters, snapshots and
  concurrent commands. The property is not inductive: it speaks of the moment after the commit.
  The invariant is `IInv`, of three parts. `TypeInv` are the types. `StampsInv` says that stamps
  are times: no file and no run has one that has not been given yet. `QuietInv` follows an
  undisturbed run: it took the last stamp, nobody else is running, every copy in the root with its
  stamp is one of its rows, and the files it has written are there (`Undisturbed`); what its MERGE
  reads has these rows, and no copy newer than them (`Offered`); after the commit they are in the
  table, and a MERGE still with the server has been overtaken (`Stands`). That a
  newest copy wins is a fact about `Dedupe` and `MergeInto`, and rests on rows of one run having
  different keys.

- `ScopesStayInOrder`: `Spec => OlderRowsAreOfOtherScopes`, an action property, again for any
  constants. It needs an invariant of its own, `SInv`. `OrderInv` is the heart: in the root, in
  the table and in every MERGE that may still commit, no copy is older than a copy or row of an
  undisturbed run of the same scope and key (`NoOlder`). A write keeps it because a scope has one
  file for a day, so that the run's file replaces every older copy (`FilesInv`), and because
  nobody writes with a stamp older than an undisturbed run's (`TurnsInv`); a commit keeps it
  because it overtakes every MERGE that read the root earlier (`OvertakenStays`). `TableInv`, one
  row per key, is what makes "replaced" well defined.

**HarnessProofs**

Of the chat client:

- `PromiseKept`: `Spec => KeepsPromise`, the refinement of `Completion`, from the invariant `CInv`
  (`CallsInvariant`): one call at a time, unanswered until it returns, and the provider is asked
  only for what the cache has not. Storing a reply is the abstract draw, returning it the abstract
  answer; every other step is a stutter. ExperimentRun, which runs over `Completion`, is thereby
  shown of the client.
- `OnlySlightCutsCached`: `[]CutsCachedAreSlight`, for any windows and prompts, with nothing assumed of
  them. `CInv` says that a cached reply to a prompt of which the provider has read a part is one
  whose cut `prompt_truncated` does not see (`Unnoticed`); `CutsNoticed` says in numbers which cuts
  its two rules see, at three characters a token: those to less than two thirds, and those to a
  common window size of less than three quarters.

Of the scoring, for any rows and identities:

- `MissingIsShortfall`, `ExactIsIntersection`: `[]MissingIsTheShortfall` and
  `[]ExactIsTheIntersection`, from one inductive invariant of all loops, `ScoreInv`
  (`ScoreInvariant`). For a set of rows *A* that a pairing respects (it takes a partner from *A*
  for a row of *A* and for no other) `Balanced` says that every step removes as many rows of *A*
  from the rest of the oracle as from the pool, and `Exhausts` that a row of *A* is left over only
  when the pool has none of *A* any more. At the end of a loop the two give the number left over:
  the shortfall, and never less than none (`Shortage`, `ShortageIsMax`). Of the mismatch pass *A* is all rows of a key;
  of the strict pass, all rows close to one of the engine's, and that the pairing respects this set
  is what `Clustered` says (`SameKind`). `Clustered` is part of the properties: where values do not
  cluster the greedy pairing may miss a pair (section 5).
- `LenientKeepsPairs`: `[]LenientForgives`. The lenient pairing leaves over no more rows of any of
  its kinds than the strict one did, and of two sequences of rows the one with no more of any kind
  is no longer (`FewerOfEachKind`).
- `WellFormedLosesNone`: what `WellFormed` keeps has as many rows of any set without the malformed
  one as the output has.

Of the replay's measures, for any rows, identities and fields left out:

- `EachLevelHasTheNext`: `[]LevelsNest`. Sorting may pair other values when buckets are put
  together, so the proof goes by counting: two buckets of one size, compared value by value in
  their order, agree if and only if for every *v* each side has no more values up to *v* than the
  other has up to *v* + 1 (`SortedCovers`, `AgreeSpread`). Such counts add up over the buckets that
  a coarser level puts together (`ClassByClass`, `SpreadNests`).
- `FirstLevelIsThePass`: `[]LevelOneIsThePass`, both ways. The pairing of `score_case` takes rows as
  they come, so nothing is sorted until it has ended; `MeasuresInv` (`MeasuresInvariant`) keeps the
  same counts of the pairs found so far (`PairedUpTo`), whatever their order, beside how many of the
  identity hashes were wrong. When every row is paired they are the counts of the level. The other
  way round the values must cluster: then the rows as good as one of the engine's have a gap below
  and above (`Bunch`), the counts on both sides of it show that the program has as many of them
  (`EnoughAsGood`), and by `ExactIsIntersection`'s argument none is left over.
- `UndifferingPass`: `[]NoDifferencePasses`. Where no place differs the first candidate is always
  the row's own (`FirstExactIsFirst`), although values close to it may stand at other places.

Of these lemmas and of `WellFormedLosesNone` some are inductions over data. The library's induction
theorems cannot be used, so they are proved from a smallest counterexample: a nonempty set of
numbers has a least element (`Smallest`, from `WFMin`), and a counterexample of length *n* gives
one of length *n* - 1. `Recursion` obtains a recursive function over `0 .. n` in the same way, and
every fact about a recursive function that the proofs here use comes from it.

**ServingPublishProofs**

- `GapIsAll`, `RefreshedInOrder`, `JoinsItsBundle`: `[]OnlyAGap`, `[]RefreshedSoFar` and
  `[]JoinedToItsBundle`, for one publisher (`Alone`; two may undo each other, see below). The
  invariant `PInv` says of each stage what the statements before it have achieved (`StageInv`: the
  object is away, or there and empty) and of every place passed that it is `Published`. That a
  definition finds its own bundle's dimensions (`JoinsBundle`) rests on the order: all dimensions
  are passed before the first definition.

**LoadKempowerProofs**

- `PartsAreWhole`, `SessionsFollowRows`, `SuccessIsTrue`: `[]WholeParts`, `[]RowsBeforeSessions`,
  `[]SuccessLoadsAll`, together inductive with `LInv`: no copy is of a writing yet to come, what a
  run has staged and passed is what was last written, and no session file on the cluster, from
  whatever run, is newer than the loaded rows of its part (`BehindInv`).

**ExperimentRunProofs**

- `CellsRecordedOnce`, `SamplesScoredFromCache`: `[]RecordedOnce`, `[]ScoredFromCache`, from `EInv`:
  what is recorded is among the cells done or passed, the script of each attempt is its reply's, and
  each attempt's reply is cached under the prompt that the attempts before it make.
- `RecordedDrawsAreReused`, `PinnedStands`: the action properties `RescoreDrawsNothing` and
  `PinnedProgramsStand`, from the same invariant. They hold for any number of cells, repairs,
  directories and kills, and whatever verdicts a program may get.
- `FilesAreKept`: `[]KeepsEveryFile` of the replay. `NumbersInv` says that the archive's numbers are
  1, 2, ..., one for each record but the current one, so that counting them gives a number with no
  file of any kind; `PlaceInv` says that the files in place of a run that is still whole are all
  there or all gone before anything is written, so that a write never meets one of them.

Only model-checked, and why.

- *Liveness* (`CallsEnd`, `Finishes`): fairness and `ENABLED` are beyond the prover.

## 5. Where the code and what it says differ

Three disagreements are shown by runs that TLC refutes.

1. `merge_duplicates`. `delta_sink.py:10-11` says "re-running the same load is idempotent".
   Copies of one key are ranked by `ingested_at` alone (`delta_sink.py:167`), and all rows of one
   run have the same `ingested_at`. If one run yields two rows with one key, either may win, and a
   re-run may replace the one by the other.
2. `readings_unscaled`. `README.md:79-80` says that skipped or unmapped data is counted in the run
   stats, "never dropped invisibly", and the docstring of the statistics (`models.py:51`) agrees. A
   reading whose factor is unknown is neither a row nor in any counter (`transform.py:234`, and
   `transform.py:253` for a wide cell). `OnlyUnscaledAreLost` gives the extent: these are the only
   readings lost, one by one; `NothingLostWithFactors` the condition under which there are none.
3. `client_near_window`. `client.py:11-12` says "a truncated reply is never cached". The two rules of
   `prompt_truncated` (`client.py:107`) accept a count of 4096 for a prompt of 5200 tokens, 15600
   characters, and the reply is cached. `CutsCachedAreSlight` gives the extent for prompts of three
   characters a token: a prompt up to a third longer than a window of a common size may pass, up to
   half longer than another.

### Known limits

These were met while modelling. They are divergences or limits of the code for which there is no
run, because the property would only restate what the code plainly does; hazards refer to them.

- A wide column may declare an `aggregation` of its own to the engine (`transform.py:263`); to the
  reference interpreter (`interpreter.py:204`) and to `CONTRACT.md:147` it may not, they use the
  source's default. So a program that follows the contract does not write the engine's rows there.
  `AgreesWithReference` says that it is there and nowhere else that the aggregations differ, and
  `ControlIsExact` that the patches of gate G4 close this gap and that of the positional row ids.
- The counts of a load whose staging path was rewritten between listing and MERGE may be those of
  other copies than it merged (`delta_sink.py:369-373`). `ReportsAddUp` relates the
  counts to the MERGE for the other loads, and says of all that the keys read are in the table.
- A definition may come from a newer checkout than the bundle whose dimensions it is joined to
  (`delta_sink.py:420`). ServingPublish has this; no property forbids it, as nothing promises otherwise.
- An empty reply is the model's or the provider's fault by what the provider says of its end
  (`client.py:330`). Were the two mixed up, no property would be broken.
- A MERGE never deletes: rows that the newest snapshot no longer yields stay in the table, and a
  stale file of another scope may even bring an older row back (`cli.py:146` merges the whole
  root). `OlderRowsAreOfOtherScopes` says that nothing worse happens.
- Of two `mx-electrix` commands at once the one with the later stamp may have read the older
  snapshot, and its row wins. `QuietRunStands` speaks of runs that had no other command about.
- A part file torn by a kill makes every MERGE of the root fail until a run of its own scope
  writes that date again (`StartMerge` waits for `torn = {}`).
- A meter that is literally named `all` would share its files with the scope of all meters
  (`cli.py`, the tag of `mx-electrix`); meters have numbers here.
- Stamps come from the clock. It is assumed to advance between two runs; a clock set back would
  let an older run win.
- `PROTOCOL.md` takes level 1 to be measure A's pass with every identity hash equal. With three
  values within two tolerances of each other the greedy pairing of `score_case` may fail where
  the sorted one of the level succeeds (`compare.py:56`, `replay_run.py:137`).
  `LevelOneIsThePass` claims this direction for clustered values only.
- A re-run over a changed snapshot overwrites the files it writes again and no others: part files
  of the older snapshot with a higher batch number, or another date, stay
  (`writer.py:22`, `writer.py:77`). `RerunsAreIdentical` therefore compares passes over one
  snapshot and batch size.
- Two identities that differ only in unsafe characters become one file name (`writer.py:80`), and
  the second partition overwrites the first. `writer.py:19-20` promises a file per partition;
  the identities in use stay different.
- Two `delta-views` at once may both find no table, create it and fill it twice, or drop what
  the other fills (`delta_sink.py:431`; line 212 describes the gap for one). The run has a single
  publisher, as the documentation has.
- A session file that was cut off stays on the cluster and makes the session MERGE fail for *any*
  later command line (`load_kempower.sh:84`), until its own part is staged again; the header
  (lines 13-14) says that any part can be re-run.
- After a failure in the middle, running only the remaining parts never merges the sessions of the
  parts already loaded (`load_kempower.sh:77`).
- `raw.json` is rewritten in place (`harness.py:462-463`). A kill inside the write leaves a file
  that does not parse, and all samples of that directory are lost; the drawn replies are still in
  the cache. The comment (line 462) speaks of at most one sample, which holds when the write
  was not cut.
- An empty reply that ran out of tokens is scored but not cached (`client.py:330`), so a re-score
  draws it again; the docstring (lines 4-5) speaks of reusing the draw. `ScoredFromCache` covers
  replies with a text.
- A replay stopped between two renames leaves later files of the earlier run in place; the next run
  finds no record, archives nothing and overwrites them (`harness.py:676-682`). `KeepsEveryFile`
  excludes exactly these (`scattered`).

## 6. Hazards

`PROJECT.json` lists what is hard to test, each at its line, with the properties that would
catch it. A hazard without a property says why: it is a limit above, or belongs to a model that
is planned.

## 7. What is not modelled

- *Outside the source.* Ingestion writes a sidecar in one step: a torn one, on which the reader would
  raise (`reader.py:92`), does not occur. In LoadKempower a MERGE whose client is killed has committed
  by then or never does; DeltaMerge and MxElectrix have the ones that commit later.
- *Data conversions.* Parsing of JSON, CSV and Parquet, timestamps and units. A record is what
  rules, mapping and files can tell apart. The positional row ids of `io/reader.py:194` are left
  out of LandingReader.
- *`procem`* is `run` over one partition without sessions, followed by the MERGE of
  `mx-electrix`; RunVendor, DeltaMerge and MxElectrix show what there is to show. Options and
  printed summaries are left out of every command.
- *The sandbox* (`codegen/sandbox.py`): `guard` is a walk over a syntax tree; the subprocess
  is external, its outcome a choice in ExperimentRun. *Cases and oracle*: straight-line
  construction of data. *Which text is the program* (`extract_code`): a choice of regular
  expressions; a reply has a program or not.
- *Metrics, reports, the wording of prompts; the self-check and probe commands; handshake and token
  scripts; the sample script; metadata, settings, logging*: arithmetic, formatting and I/O
  without state of their own that could go wrong in an order.

## 8. Plan

Done, in this order: TransformRecords, RunVendor, DeltaMerge, LandingReader, ServingPublish,
LoadKempower, ChatClient, ExperimentRun, ReplayRun, ScoreCase, ReferenceInterpreter, StagedMerge,
MxElectrix, ReplayMeasures, the scripts and the inventory in ExperimentRun, and the proofs of
section 4.

Next, in the order of what they would show:

1. Positional row ids (`io/reader.py:194`) in RunVendor: a changed snapshot, its re-run, its stale
   files, and what the table holds in the end.
2. Two concurrent `run` commands over one partition, of different batch sizes.
3. The handshake's write-and-read-back round trip (`scripts/phase3/handshake.py:203-229`).
