# Flow temperature controller: a TLA+ verification project

The program under `src/` rewrites sliced G-code so that the hotend's temperature
follows the flow of the print, and slows a move down where the hotend cannot
deliver. This directory models its core in TLA+, model-checks it with TLC on small
instances, and proves with TLAPS what matters most for every instance.

```
tlc -workers 2 -config Pipeline.cfg MCPipeline     # one run
tlapm Estimators_proofs.tla                             # one module of proofs
```

`PROJECT.json` lists the runs, the mutants that show each property can fail, the lines
behind every definition, the hazards and the findings.

## 1. The system

One print goes through one pipeline, driven by the command line (`runProcess`,
`src/cli/main.cpp`) or by a request to the web UI (`runToPlan` and the `/api/process`
handler, `src/cli/WebUI.cpp`):

```
file --scan--> body --external estimator--> dump --parse--> moves --analyse--> timeline
 |                      (SubprocessRunner)                                        |
 |                                                                              plan
 +--------------------------- rewrite, line by line <-----------------------------+
                                   |
                              scratch directory --copy--> output (or the input itself)
```

Its components only meet in values handed on, except at three places: the files of a
directory, which concurrent jobs share unlocked; the handles of the process, which
concurrent estimator children inherit; and the file of profiles, which outlives the
process. The value that holds everything together is
the **filament coordinate**: estimator, scanner, planner and rewriter each count the
filament laid down on their own, and a plan drawn over one count is looked up at
another.

| Component (source) | State | Operations | What is hard | What makes it correct |
| --- | --- | --- | --- | --- |
| Text layer (`GcodeText.cpp`) | none | words, extruding move, number format | rounding, words in comments | one rule for what extrudes |
| Scanner (`GcodeScanner.cpp`) | body bounds, layers, filament, identities | one pass, then the report | marker order, modes, off-by-one bounds | measures exactly the body; accepts only printable files |
| Rewriter (`GcodeRewriter.cpp`) | line number, modal pictures of the printer, filament | one branch per kind of line | stale pictures of a modal machine | same path, never faster, the target follows the plan |
| Planner (`TemperaturePlanner.cpp`) | curve through its stages, layer cursor | blend, smooth, map, cool, slew | empty buckets and layers, order of the stages | in the calibrated band, within the hotend's rates, each layer cooled for its own time |
| Calibration (`TemperaturePlanner.cpp`, `Profiles.hpp`) | none | flow to temperature and back | plateaus | the two maps are inverse |
| Plan lookup (`Model.cpp`) | none | bisection by filament | ends, equal keys | needs a sorted timeline |
| Move dump parser (`FlowAnalysis.cpp`) | pending flow, retract flag | one line each | lines out of place | no move gets another's flow |
| Flow timeline (`FlowAnalysis.cpp`) | bucket, totals | split, emit, trailing bucket | moves across buckets | nothing lost, edge to edge, sorted |
| In-process estimator (`Kinematics.cpp`) | position, feedrate, mode; three passes | extract, plan, suppress | passes in opposite directions | velocity continuous, reachable, fastest; one coordinate |
| Estimator runner (`SubprocessRunner.cpp`) | handles, pipes, drain threads | run | full pipes, inherited handles, hanging children | whole output, returns |
| Processing jobs (`main.cpp`, `WebUI.cpp`) | directory, scratch directory | `process` with and without `--out`, `/api/analyze`, `/api/process`: read three times, name, stage, copy | interleaved jobs, failing copies, crashes | the input is kept, nothing is processed twice, no output is clobbered |
| HTTP server (`HttpServer.cpp`) | one connection per thread | accept, read, assemble, respond | requests in pieces, clients that stop | a handler sees whole requests; everyone is answered |
| Web UI (`WebUI.cpp`) | none | form fields, settings, printer limits over `config.json` | keys that occur twice | each limit goes where it belongs |
| Profile store (`ProfileStore.cpp`) | JSON file, its `.tmp` | upsert, remove, load, save | failure or crash between write and rename; hand-written scanning of text | a save replaces the file in one step or not at all |
| Curve comparison (`CurveCompare.cpp`) | none | extract, look up, compare on a grid | several commands at one position | reads back what the rewriter wrote; only shape counts |
| Timing cross-check, other commands, legacy sources, tools | none | formatting, parsing | - | - |

## 2. The modules

Data is abstract (a line is a record of a kind, some integer words and a text), control
is not: every branch, early return and error path of a modelled function is there, in
its order. Units are integers; `GcodeText` counts in halves of the last printed digit,
so that rounding, ties included, is what the program does. One axis stands for the plane.

| Module | Models | State and actions |
| --- | --- | --- |
| `GcodeText` | the text layer | operators over lines |
| `GcodeScanner` | `GcodeScanner::scan` | `scan` is `ScanResult`; `ReadLine` is the loop body, `FinishScan` the report. `file` and `trail` record what was read and the filament behind each line |
| `Firmware` | the printer (external) | `Execute`: modal feedrate, position, target, advance |
| `TemperaturePlan`, `FilamentCurve` | lookup and calibration | operators |
| `GcodeRewriter` | `rewriteGcode` | the function's locals; one action per branch (`StampHeader`, `ReadMarker`, `Retract`, `ReduceFeedrate`, `Extrude`, ...); `written` holds the lines of the last step's output. Two machines run along, `sliced` over the input and `printed` over the output |
| `ScanThenRewrite` | both passes over one file | `GcodeScanner` composed with an instance of `GcodeRewriter` |
| `CurveCompare` | `extractTemperatureCurve`, `compareCurves` | operators |
| `RewriteThenCompare` | the `compare` command on the output | `GcodeRewriter`, and each line it writes extracted in the same step |
| `FlowSeconds` | `FlowSecond`, the type both sides of the plan share | the record |
| `TemperaturePlanner` | `planTemperature` | one action per stage; one per bucket where a loop carries state |
| `Suppression` | the retraction rule of `estimateMoves` | operators; the parser is compared with them |
| `MoveDump` | `MoveDumpParser::parse` | one action per kind of line |
| `FlowTimeline` | `analyseFlow` | `TakeMove`, `FillBucket`, `EmitBucket`, `Return`; `given` sums what arrived |
| `FlowAnalysis` | parser, then analyser | composition of the two; the abstract specification it implements is `FlowTimeline`'s |
| `AnalysisThenPlan` | `runProcess` from dump to plan | `FlowAnalysis`, `HandOver` of its timeline, `TemperaturePlanner`; also the planner called with a timeline of its caller's. Implements `FlowTimeline` as well |
| `MoveExtractor` | `extractMoves` | one action per kind of line |
| `MotionPlanner` | `planMoves` | the three passes, one move per step; velocities are kept squared |
| `InProcessEstimator` | `estimateMoves` | composition of the two; `Prepared` is what `planMoves` makes of a move before its passes |
| `SubprocessRunner` | `SubprocessRunner::run` | caller and drain thread of each run, one handle table, children as external processes |
| `ProcessJobs` | `runProcess`, `/api/analyze`, `/api/process` | jobs as processes over one directory, with failures, crashes and hard links. A command with `--out` starts with that name as its `number` |
| `ProfileText` | `toJson`, `profilesFromJson` and the scanners under it | operators over tokens: a string is a token, and the quote behind a backslash is the one thing told apart inside it. The strings hold no characters below 0x20 but newline, return and tab: `quote` drops the others |
| `ProfileRegister` | what `ProfileStore.hpp` promises (abstract) | a register: `Save` replaces what is kept in one step |
| `OneSaveRegister` | what the code keeps of that (abstract) | the register, but `SaveBadly`, where the file system lets a save down, may cut off what is kept |
| `ProfileStore` | `upsert`, `remove`, `save`, `load` | one action per step of `save` (temporary file, write, close, rename, copy, clean up), any of which may fail or be the last; `kept` of the register is what a load would read |
| `WebUI` | form fields, settings, `overrideConfigValue`, `overrideNestedValue`, statuses | operators |
| `HttpServer` | `serve`, `handleConnection` | `Accept`, `ReadHead`, `ReadBody`, `Assemble`, `Handle`, `Send` of each connection's thread; clients that go quiet or away at any point |
| `SetSums` | - | lemmas about the sums the models take over sets and the sequences they flatten, and induction over the naturals |
| `*_proofs` | - | theorems of the module named before the underscore; `GcodeRewriter_proofs` also those of `RewriteThenCompare`, `ScanThenRewrite_proofs` of `GcodeScanner`, `AnalysisThenPlan_proofs` of parser, analyser and planner, `Estimators_proofs` of `MotionPlanner`, `MoveExtractor` and `SubprocessRunner` |
| `MC*` | - | constants of the runs. `MCPipeline`, `MCEstimators` and `MCRewriterAndStore` hold two parts each, of which one moves and the other is at rest |

## 3. The runs

Everything is checked without a deadlock check, because calls return, jobs end and the
models then stop; what must not stop early is stated as a property.

A run holds one part of the system or two, side by side: which of them moves is chosen at the start
and stays so, since the parts of these runs share no state.

**`pipeline`**, the file (four alphabets, files of up to six lines). Every file is scanned
and, if accepted, rewritten. `MeasuresTheBody` and `LayersMarkTheBody` compare the
incremental pass with a definition over the whole file; `AcceptedIsPrintable` says what a
clean report means. `CoordinatesAgree` and `LayersReachedInPlace` say that the two passes
share one coordinate. Six lines hold a mode, two layers, a bead, a retraction and its
unretraction, or two end markers with something between and behind them.

**`pipeline`**, the moves. Dumps of up to five lines in any order or of three pairs (`FewerDumps`), or
`MaxMoves` free moves, over buckets of five ticks: `ParsesPairs` compares the parser with a reading of
the whole dump; `PathsPartAtZero` says where it puts other flows than `estimateMoves` would, and that
it puts the same everywhere else; `NothingLost`, `BucketsOnGrid`,
`AveragesAccountForFilament` and `TimelineSorted` are about the timeline. Three pairs are
a retraction, a zero and an unretraction. Moves last less than, exactly and more than one and
two buckets. A dump of more than `MaxMoves` moves is parsed and not analysed. The timelines of
dumps that are `WellFormed` or short are planned over one list of layers (`FewerPlans`).
The planner is also called with timelines of three seconds and three layers anywhere:
`CurveInBand`, `SlewRespected`, `CoolsTheLayerItIsIn`, `LayerTimesAddUp`, and `BudgetRecoversFlow`,
which makes the calibration's two maps inverse. Three seconds have two ends and a middle; layers
may share a bucket, lie outside or be empty.

**`rewriter_and_store`**, the rewriter (bodies of six or seven lines, three jobs, and the compare command reading what
is written). `NeverFaster` is the program's core safety
property: without an explicit ceiling the printer behind the output is never at a higher
modal feedrate than the one behind the input, half a mm/min of rounding aside. `SamePath`:
both make the same motions. `CommandsFollowPlan`: what the nozzle and the extruder have been told
when a bead is laid is what the plan says of that place, in files that have not told them anything
themselves (and for the first bead in any file). `CapHoldsWhenTracked`:
the per-move cap where the rewriter's picture of the printer is right. `CurveReadsBack`: looking
up the extracted curve where the file has come to gives the target the printer has.
`OnlyTheShapeCounts`: a shifted calibration differs by the offset alone, an inverted one
is fully anti-correlated. Plans rise and fall
over three buckets, the calibration is not exactly printable, and options span floor, ceiling,
echo and a coarse temperature step.

**`rewriter_and_store`**, the store (up to two printers with up to two filaments, names and macros with
braces, empty names). `SavedIsReadBack`: what a save that was not let down has written is what a
load gives, but for what the text cannot hold (nameless profiles, digits that are not printed).
`KeepsOneSave`: the store implements `OneSaveRegister`, with the program killed between
any two steps, a full disk, a rename that fails and the copy in its place. A killed save is harmless;
one that is let down by the file system leaves the first printers of that save, perhaps none. The
header promises more, and `profiles_interrupted` shows that it is not so.

**`estimators`**, in the process (prints of up to three free moves of any kind and of four fast ones; bodies
of up to four lines, an extruding arc among them). `VelocityIsContinuous`, `ChangeIsReachable` and, the strongest,
`PlanIsFastest`: the passes' result is the closed form, the tightest corner before or behind.
`CountersAgree`: the estimator's filament coordinate is the rewriter's, on bodies that
retract in pairs and do not extrude on arcs. The free prints are wider than what extraction makes:
any corner and cap. An arc is two chords; a full circle has no place on one axis.

**`estimators`**, external (two runs, pipes of one chunk). `ReturnsWholeOutput`: a run with an exit code has
captured every chunk the child wrote; and the liveness property
`EveryRunReturns`. One chunk makes every pipe full at once; two runs are what it takes to
inherit each other's handles. Chunks are counted, so their order is not modelled.

**`process_jobs`** (a command, onto the input or onto the first output name, and two requests on
one file, each to analyse or to process; three output names; the file has a header block or not).
`ScratchRemoved`, `StampedRunsOnce`, `SecondRunIsNumbered`, `WebKeepsInput`. Three names
let the numbering run out, which the program does at 1000. The stamp is behind one header line, so
`StampedRunsOnce` is about files that have it; `jobs_process_twice` is about the others.

**`http_server`** (two connections; a receive of at most three units, a body of at most ten).
One client posts a form whose length is right, too large or missing, the other asks for a page
behind a header that is short or too long. `RequestIsWhole`: the handler gets the announced body,
and a part of it only from a client that stopped. `LimitsGoWhereTheyBelong`: of a whole form every
limit is written where it belongs in `config.json`, although keys of the same names stand in
`move_checkers`. `EveryRequestIsAnswered` and `QuietConnectionsEnd` are liveness. Two
connections are what it takes for one to keep the other waiting; the bounds let a header end
at, before and behind the edge of a piece, and an announced length exceed the maximum (no body
that is sent does).

**Findings.** Seven runs are expected to find a violation of what the source says of itself:
- `paths_differ`: a `Some(0)` in the dump disarms the parser's retract flag, a zero flow does not
  disarm the one of `estimateMoves`, although "both paths produce identical input to the flow
  analyser". `PathsPartAtZero` says that nothing else parts them.
- `rewriter_stale_cap`: the per-move cap compares with a feedrate that travels do not
  update, so a bead behind a fast travel exceeds the "hard flow limit".
- `subprocess_timeout`: the timeout is measured from the end of the child's output, so a
  child that hangs with its streams open is never timed out.
- `jobs_process_twice`: the rewriter stamps a file "so it cannot be processed twice", but only behind
  a `; HEADER_BLOCK_START` line, which nothing asks for. The output of a file without one (or with
  a BOM in front of it, which the scanner strips and the rewriter does not) is accepted again.
- `jobs_clobber`: two requests find the same name free and the second overwrites the
  first one's output, although the code says "Never clobber a previous run".
- `profiles_interrupted`: a save onto a full disk moves a truncated file over the good one, and a
  copy in the place of a failed move truncates it itself, although "an interrupted save cannot
  destroy existing profiles".
- `profiles_names`: a name that ends in a backslash makes the scanner of the profile file
  take strings for the outside and the outside for strings: the printer and those behind it are
  gone at the next start.

**Bounds and symmetry.** Every bound is a constant or is named in an MC module: `MaxLines`,
`OneFamily`, `FewerDumps`, `FewerPlans`, `MaxDump`, `MaxMoves`, `MaxBody` (of the estimator's lines, and of the server's
bytes, 1 MiB there), `BufferSize`, `Samples` (400 positions of the grid), `Chords`, `PollPeriod`
(16384 lines between two looks at the cancel flag, 4 here), `Limit` (1000). No symmetry is used: the sets are small.

**Fairness.** `SubprocessRunner` and `HttpServer` have some; no other component waits for another,
so no other liveness property says more than that loops end.
- The threads of the runner are weakly fair: they are operating system threads in blocking
  calls that return. `LiveChildSpec` adds that a child which can write or exit does so in the
  end; nothing is assumed of one that closes its streams early or crashes. `subprocess_timeout` is
  checked without that addition, because its claim is about children that hang.
- `ServerSpec` makes each connection's thread weakly fair while it has something to do: a piece to
  receive, a request to handle, an answer to send. Giving up on a silent client is not fair:
  `EveryRequestIsAnswered` holds although the silence of the others lasts for ever. That
  silences end is the premise of `QuietConnectionsEnd`, and `SO_RCVTIMEO` is why.

## 4. The proofs

Every safety property of a run that is expected to pass is also a theorem. In each case the
invariant the run checks is too weak to be kept by a step, and the proof finds what else the code
maintains.

| Theorem | For every | Argument |
| --- | --- | --- |
| `DumpIsPaired`, `DumpAndEstimatorPart` | dump | `DumpInv`: flag and pending flow are what a look at the whole dump says of its end (`Retracting`, `FlowAt`), and a move's number is the count of the time lines up to its own. On `WellFormed` dumps the parser's flag is set by the last `Some` in front of a pair and that of `estimateMoves` by the last flow that is not zero; where the two differ, the last `Some` holds zero |
| `TimelineTypeCorrect`, `TimelineConserves`, `TimelineOnGrid`, `TimelineFlowsOrdered`, `TimelineIsSorted` | bucket width, moves | typing with the bucket's balance (`bucketRemaining + bucketElapsed = BucketWidth`, flow time below the maximum) is inductive; the grid needs that the current bucket starts where the last one ended |
| `TimelineAccounts` | bucket width, moves | `OpenBucketHoldsTheRest`: what the totals are ahead of the last bucket is in the open one, so each average is a quotient of what its bucket has used |
| `AnalysisImplementsTimeline`, `PipelineImplementsTimeline`, `AnalysisConserves`, `AnalysisIsSorted`, `AnalysisAccounts` | dump | every step of parser, analyser and planner is a step of the analyser or a stutter, so its theorems carry over |
| `PlanIsOfTheAnalysis`, `PlannersTimelineIsSorted` | dump | once handed over, neither the analysed timeline nor the planner's copy changes; with the refinement, what the planner bisects is sorted |
| `PipelineIsTyped`, `PlanStaysInBand`, `PlanIsSlewable` | dump, timeline, layers, profiles | `PlannerInv`: what each stage leaves for the next. The wanted curve is in the band from the blend on, the drop is floored, and the planned one moves from bucket to bucket by `Slew`, which stays between what it comes from and what it goes to |
| `CursorNeverLags`, `LayersShareThePrint`, `BudgetIsTheFlow` | dump, timeline, layers, profiles | with `SortedInv`: the cursor's layer has begun before the bucket and the next has not, which only a sorted timeline keeps; the layers' durations telescope; the calibration's two maps are inverse on each of its segments |
| `ScannerTypeCorrect`, `ScannerMarksFollow`, `ScannerClosesForGood` | file | `ScannerInv`: bounds of the scan result, every mark on the trail, and the trail as a running sum over the body |
| `BodyIsMeasuredByOnePass`, `LayersAreThoseOfTheBody`, `AcceptedFilesArePrintable`, `ScanIsReadOnly`, `BodyOfBothPasses` | file | `BodyInv`: what the pass has found so far is read off the part of the file it has read. The sum over the body is the trail's last entry, by induction; the rewriter leaves all of it alone |
| `CountsAgree`, `LayersInPlace`, `BodyRewritten` | file, plan, options | `ScannerInv /\ RewriteInv`. Agreement alone is not inductive: it needs that the scanner's trail grows exactly by the lines `Within` the scanned bounds, and that a rewrite starts only from a finished scan |
| `RewriterNeverFaster`, `RewriterKeepsPath` | file, plan, calibration, options | `RewriterInv`: the two printers stand at the same place in the same mode, and the feedrate of the one behind the output is at most that of the other, half a unit aside. Each branch of the loop keeps it, the clamped feedrate because no recommended speed exceeds what is asked for. The lookups return the least index with a property; that it exists is `MinNat`, from the well-founded order of the numbers |
| `PrinterFollowsPlan` | plan, calibration, options; file up to its first own temperature or advance, and the first bead of any | `CommandInv`: while the file sets no target of its own, the printer's is the rounded `lastEmittedTemp`, through every branch that writes or passes a command; the same for the advance. The first bead of all follows the plan whatever the file has set before it |
| `CapIsExact` | file, plan, calibration, options | `FeedsInv`, and the bound on a rounded quotient: the capped feedrate times what the move pushes per length is at most the budget, half a mm/min aside |
| `OutputReadsBack` | file, plan, calibration, options | `CurveInv`: the extracted points are ordered by filament, and the last one has the printer's target. It holds where the profile names its start macro or no macro heats (`MacrosAreKnown`): extraction does not read macros |
| `ShapeIsWhatCounts` | number of samples and of commands | two curves with commands at the same places are read at the same points of the grid, so readings differ as the commands do; the sums then follow from `SumsAddUp`, `SumNegates` and `SumConstant` |
| `MotionTypeCorrect`, `MotionContinuous`, `MotionWithinLimits`, `MotionReachable` | print, look-ahead scale | `MotionInv`. Continuity needs `CanBrake` (each entry the backward pass set is at most the next one plus the move's gain) to survive the forward pass lowering entries behind the index |
| `PlanIsTheFastest` | print, look-ahead scale | `FastInv`: the backward pass leaves the tightest of the corners ahead (a bound, and a corner that meets it), the forward pass the tightest of all; gains between corners are differences of sums |
| `CountersStayTogether` | body | `CountInv`: behind every line the two sums are equal, and the two rules to tell a retraction before it agree. It extends `EstimatorInv`, which carries `MotionInv` and `FastInv` over to the composition |
| `StreamsEnd`, `OutputIsWhole` | number of runs, capacity, chunks | `RunnerInv`: what a child has written is what is captured and what is in the pipe (`NothingIsLost`); who may hold a write end at all, and that an end once seen is final: nothing is left in the pipe, and neither the child nor another run's child can write to it |
| `RequestsArriveWhole` | connections, requests, sizes of buffer and body | `ServerInv`: what has been received and what is still on the wire make up the request, in each stage of each connection's thread |
| `ConfigIsAmended`, `LimitsGoHome` | configuration, settings; connections, requests | the text is cut into what stands before the looked-for entry, the entry, and what stands behind (`Joined`), and an edit of the entry leaves both sides alone (`EditInPart`). The top-level search ends at the first match or at `move_checkers` (`TopLevelIsWritten`); the nested one brackets one checker, wherever it stands in the flattened list (`AxisIsWritten`, `RunsSplit`). `HeardInv`: from `Assemble` to `Handle` the fields are those of the query, over those of the body that was taken |
| `PrintedTwice` | number, digits printed | every number has a unit, a power of ten, and what is printed is rounded to it. A rounded number is a multiple of its unit and has the same one, or is the next power of ten (`UnitFits`), which is printed whole |
| `CutIsReadToTheLastWhole` | profiles, place of the cut | `toJson` lays tokens out at offsets that add up (`Layout`). In a text without the excepted strings a bracket's counterpart is the last of the pairs between (`Matched`), or cut off; so the objects found are the links of a chain (`ObjectsAre`) and each key is found where it stands (`HeadKeys`, `FilamentRead`). The brace of a printer that is cut off is never closed, so reading ends in front of it |
| `RoundTrip`, `SavedIsRead` | profiles, digits, block size | the same with nothing cut off. What is kept has names only, and rounded numbers, so it is kept as it is (`StorableTwice`); by `StoreInv` a save that returned true and was not let down has left the whole text of one list |
| `StoreKeepsOneSave` | profiles, digits, block size | `StoreInv`: each file is some number of the tokens of one list, and the temporary file of a save that is under way and has met no trouble is that of the list in memory; every step is then a step of `OneSaveRegister` or a stutter, a save that was let down one of the first printers (`FirstOfStorable`). The register of the header is not implemented (`profiles_interrupted`). Premise: no list in memory has one of the excepted strings (`PlainMemories`), which `profiles_names` shows to be needed |
| `JobsCleanUp`, `StampStopsSecondRun`, `OriginalIsKept` | set of jobs, number of names | `JobsInv`: a scratch directory exists only where a return that removes it is still to come; a job that goes on has read a content without a stamp, which with a header block nobody has rewritten; what it is about to copy is its own rewrite, once more than that if what it read was one content; and a web job's name is the input's, by a link, only where the last name is taken without a look |
| `SecondRunGetsItsOwnName` | set of jobs, number of names | `NumberInv`: who is in `before` has succeeded and takes no further step, and a name a job settles on below the last has no file behind it, so it is not that of an output that stands |

Sums and inductions are in `SetSums`: that a set of naturals with zero and every successor is all of
them (`Successors`) is an induction over a set instead of a predicate, so it needs no rule that takes
an operator. With it, the sum over a set is shown to exist, to be a number, to let any element go
first, and to telescope; and a sequence that is flattened (a text put together of its parts) to be those
parts, each at its place.

The assumptions are the `ASSUME`s of the modules, which TLC evaluates. Most say that bounds are natural
numbers, that bucket width, buffer, pipes and look-ahead scale are positive, and that inputs are of the
types the program declares. The others: `OrderOfThePrint` (a timeline and its layers are sorted;
of an analysed timeline that is `TimelineIsSorted`), `UnitsOfACurve` (a temperature's unit is no coarser
than a flow's, so that the integer maps lose nothing), `SettingsAreNotNegative` (no command asks for a
negative temperature or advance, which are the program's marks for "none"), `RequestsAreText` (requests
are finite), `ConfigsAreWritten` (limits are natural numbers, and no checker is listed twice), `JobsAssumption` (jobs are finitely many; there is a name besides the first and the last), and `StoreAssumption`
(memory holds lists of printers, and what is read of their text it holds as well). `LimitsGoHome` has a premise besides, `AskedIsSaid`: what a client is said to ask for is
what its whole form reads as. That is what `asked` means; the requests of `http_server` are
written out with it by hand, so there the run also checks `Fields` and `Settings`, which the theorem
takes as they are.

Only model-checked:
- That `Fields` and `Settings` read a form as its client means it (see `AskedIsSaid`): splitting a
  text is an induction over it.
- `EveryRunReturns`, `EveryRequestIsAnswered`, `QuietConnectionsEnd`: liveness is beyond the prover.
- The findings: there TLC's counterexample is the result.

## 5. Met while modelling

Behaviour that reads like a defect and is not kept as a run: it is a variant of one that is, or no
line of the source promises otherwise, or the promise is quoted here and one look at the code beside
it shows that it is not kept (these are marked *promised*).

- With an explicit ceiling a bead may run *faster* than sliced: the cap compares with
  `slicerFeedrate` and writes its own feedrate where the modal one was lower
  (`GcodeRewriter.cpp:360`). And a cap's F word stays modal for what follows.
- A capped line without an F word gets one appended (`GcodeRewriter.cpp:383-385`): behind a trailing comment,
  where the printer does not read it, while the statistics count the move as reduced.
- A retraction without an F word behind a clamped feedrate runs at the clamped one, though
  the comment at line 220 says "restore the slicer's own feedrate" (*promised*).
- An M82 behind the first M83 is not seen; E words are then summed as if relative.
- PrusaSlicer's `; Z_HEIGHT:` opens a body for the scanner; the rewriter takes no
  height from it and clamps nothing.
- A prime, filament pushed without travel and without a retraction before it, is laid down
  to the estimator and not to the rewriter; so is a vertical extrusion. `RetractsInPairs`
  is the premise that excludes both.
- A helical arc climbs `dz`, then `2 dz`, then `3 dz`: the offset is added to a position that has
  moved (`Kinematics.cpp:302`). `ArcPoint` is as written.
- `startsWith(cmd, "G2")` also matches G20, G21, G28 and G29, and `"G1"` G10 to G19.
- Scanner and rewriter count the filament of G0 and G1, the estimator that of G2 and G3 as well
  (`isExtrudingMove`, `GcodeText.hpp:31-33`, against `extractMoves`): the two coordinates drift
  apart from the first extruding arc, which `CountersAgree` excludes.
- A full disk truncates the staged output and the run reports success; the staged file is copied
  straight onto the input (`main.cpp:699`), so a copy that fails half way leaves a truncated file
  there, which the comment at lines 673-674 says must never be (*promised*); `remove_all` overwrites
  the error code of a failed copy, so the answer to such a request is a success
  (`WebUI.cpp:1038`).
- The second and the third reading of the input open it again and do not ask whether it opened.
- A job whose input another job replaces between scan and rewrite rewrites a rewritten
  file; `StampedRunsOnce` and `NeverProcessedTwice` are about jobs that read one content.
- A slicer's own temperature or advance in the body goes unnoticed: the rewriter compares with what it
  wrote last (`GcodeRewriter.cpp:316`), so the printer stays at the slicer's value until the plan moves on.
- A layer marker directly before the end marker is a body that extrudes nothing, and is accepted.
- Layers that lie within the first bucket have no time and get the full cooling drop.
- At the very first command's position the compared curve gives the first of several commands,
  elsewhere the last (`CurveCompare.hpp`: "most recent", *promised*); a start macro's temperature is not in it.
- `save` reports success whatever became of the copy behind a failed rename, and has removed the
  temporary file, then the only whole one: the other half of `profiles_interrupted`.
- The server sends neither 413 nor 405: a body beyond `kMaxBody` is cut off silently and handled, as
  is one whose client stopped in the middle; nothing bounds the time an answer takes to
  send. The comment that calls it single-threaded (`HttpServer.hpp:7`) is older than its threads.
- A `config.json` whose `move_checkers` stand before the limits is not amended at all
  (`WebUI.cpp`, `overrideConfigValue`); the estimator writes them last.

## 6. Not modelled

- The timing cross-check (`checkTimingAgainstSlicer`): one ratio against two bounds, a warning.
- Other commands, diagnostics and ports: parsing of arguments and printing over operations that
  are modelled; value types and texts.
- The web pages, their script and charts, and the formatting of JSON answers: no state.
- Below the line: BOM, carriage returns, number syntax, percent decoding, quoting of command lines,
  progress reports; the set-up of sockets.
- Of the estimator: the limits file and overrides of it, durations (the branch of `trapezoidTime`
  is there, the time is not), the centre of an arc, and corners other than straight, square and reversed.
- Of the curve comparison: the square roots (their arguments are there) and the printed summary.
- Of the profiles: the scalars that differ from the modelled ones in name alone.
- The legacy Delphi sources, which this program replaces, the tools, the tests and the data.

## 7. Plan

What exists came in this order: the coordinate (`GcodeText`, `GcodeScanner`, `GcodeRewriter`,
`ScanThenRewrite`), what the plan is made from (`MoveDump`, `FlowTimeline`, `FlowAnalysis`,
`TemperaturePlanner`, `AnalysisThenPlan`, `MoveExtractor`, `MotionPlanner`, `InProcessEstimator`), what runs
concurrently (`SubprocessRunner`, `ProcessJobs`, `HttpServer`), what outlives a run (`ProfileStore`), and
what checks the result (`RewriteThenCompare`). Next, in this order:

1. The pipeline as a whole, from the dump to the rewritten body: `PrinterFollowsPlan` end to end, which joins
   `AnalysisThenPlan` and `ScanThenRewrite`.
2. The timing cross-check behind durations, once times of moves are modelled.
