# Formal models of the small language model and its agent

TLA+ specifications of the program under `src/`: a language model of its own that goes on
learning while it is used, and an agent that answers questions with it, with a larger model,
or with a debate between both. Each module models one part of the program, TLC checks it on
small instances, and TLAPS proves the main safety properties for every value of the
constants. Paths below are relative to `src/src/` of the repository.

Contents: 1 the system, 2 the modules, 3 the runs and their bounds, 4 fairness, 5 the proofs,
6 findings, 7 what is not modelled, 8 plan, 9 how to run everything.


## 1 The system

### Parts, their state and how they interact

| part | source | state it keeps | operations | talks to |
|---|---|---|---|---|
| Weight registry | `coordinator.h/.cpp` (`WeightRegistry`) | the published weights, a version | `publish`, `current` | written by coordinator and dashboard, read by trainers, chat and SPT backend |
| Coordinator | `coordinator.h/.cpp` | queue of proposals, baseline result, best result and snapshot, rate bucket, backups | `submit`, `round` (gather, merge, search, gates, commit, backup, Fisher), `restore_best` | trainers submit, dashboard restores |
| Trainers | `trainer.*`, `train_continual.*`, `train_feedback.*`, `train_selfgen.*` | a replica and the version it came from; text buffer; rating bank; samples of their own | sync, wait for data, train, submit a delta | hub, registry, coordinator |
| Chat and hub | `chat.*`, `interaction.h` | question queue, history, texts and ratings for the trainers | `ask`, `rate`, answering worker, `push_*`, `drain_*` | dashboard and autopilot call it, trainers drain it |
| Autopilot, `main` | `app.cpp` | the loop's locals | ask, wait for the answer, rate; start and stop of all threads | chat |
| Agent | `gui_agent.*`, `agent/runtime.*`, `agent/tools.*` | busy and cancel flags, tool policy, pending approvals, approvals for good | ask, plan, tool loop, invoke, approval request and decision, cancel | dashboard, tools, backends, debate |
| Debate | `debate/*` | actors, sessions, rounds of answers, transcript | resolve, draft, score, critique, select, synthesise | backends |
| Memory store | `memory.*` | items, next id, the JSONL file | open, add, forget, rewrite | dashboard, command line, chat retrieval |
| Backends | `backend/*` | sessions with a prefix cache, sequences of the llama.cpp context, a weights version | load, resync, open/close session, generate one or many, score | registry, agent, debate |
| Codebase index | `agent/codebase.*`, `agent/tool_codebase.cpp` | chunks, rows of embeddings, postings, places, the list of files; a cache file | scan, refresh, cancel, search, look up a symbol, context block, save, load | agent and dashboard call it, tools change the files it describes |
| Tools and HTTP | `agent/tools.*`, `agent/tool_*`, `agent/http.*` | child processes and their pipes | parse the calls of a reply, run a command, search and read the web | agent calls them, they use the host |
| Model and its files | `model.*`, `qmodel.*`, `core/params.*`, `core/serialize.*`, `core/quant.*` | parameters, their order in the merge space, checkpoints, packed files | build, grow, freeze, gather and scatter, save, load, pack, map | everyone above |
| Tokenizer and text | `tokenizer.*`, `core/text.*` | merges, pieces, ranks | normalise, train, encode, decode, save, load | data, chat, backends |
| Data | `core/dataset.*` | token files, hold-outs, the mixture and its weights | write, map, draw windows, hold-out batches, batches of sequences | trainers, coordinator |
| Dashboards | `gui*.cpp` | pictures of text, drawing state | user commands, drawing | everyone above |
| Telemetry | `telemetry.*` | stop switch, switches of self-training, gauges | set and read | everyone |
| Kernels, command line | `core/tensor*`, `core/gemm*`, `main.cpp` | - | forward, backward; drive the parts | everyone above |

### What is hard here

* *Two writers of the weights.* The header calls the coordinator the single writer, but
  `restore_best()` publishes from the dashboard thread, measures on the coordinator's one
  evaluation model and writes its baseline, without excluding `round()`.
* *A publish in two halves.* The pointer is swapped under a lock, the version bumped after
  it. Readers that skip a reload by version must not get stuck on old weights.
* *Tolerances that add up.* Every commit may lose a little. Over a session the sum must stay
  in one budget, for the mean and for each language.
* *A merge in place.* Each projection changes a vector that others were compared with before.
* *Approvals between two threads.* A tool waits on a dialog; the answer, its timeout, a
  cancel, a policy change and the end of the program can come in any order.
* *Votes that must not vanish or multiply.* Participants of a debate sit rounds out, fall
  silent, write several drafts or are cut off by a cancel.
* *Caches that outlive what they were made with.* A session's prefix cache against reloads of
  the weights, and against prefills that fail half way; the sequences of one context shared by
  sessions and requests without one.
* *Data handed from thread to thread.* A text passes hub, buffer and round, each with a cap,
  each able to fail; ratings replace earlier ones and are evicted.
* *Files written in place.* The memory, checkpoints, packs, token files, the tokenizer and the
  index cache; each may be torn at any point and is read by the next start.
* *Parallel lists.* Chunks, rows, postings and places of the index go by position, and files
  change while they are read.
* *Arithmetic at edges.* Windows of a decode loop, of a training batch and of a hold-out;
  16-bit lanes that saturate; a prefix sum that must agree with a layout.
* *Text of a model taken apart.* Calls that are unclosed, nested or cut off; braces in strings;
  scripts that are never closed.
* *Processes.* Helpers that keep a pipe open or leave the group, timeouts and cancels.
* *Shutdown.* Threads that wait for each other are stopped and joined one after the other.

`PROJECT.json` lists each hazard at its line with the properties that cover it.

### What makes each part correct

| part | it is correct when |
|---|---|
| registry | a skipped reload never hides a finished publish; readers catch up |
| coordinator | published weights stay within the session's budget on every count; the baseline and the rollback snapshot describe what they say; committed steps stay within burst plus refill; a stop lets at most one commit through; rounds end and proposals are judged; no two merged proposals work against each other, whatever order they came in |
| chat, hub, trainers | questions are answered once and in order; a text is trained on at most once and does not wait for ever; the bank agrees with its count and with the latest ratings; the best new samples are kept; shutdown ends |
| agent | no tool runs without consent to that very call, or one for good to its key; an answer given in time counts; nobody waits on a request that is gone; after a cancel at most one tool starts; every question comes back |
| debate | everyone who answered stays represented, with one voice; turns follow the multiplier; the winner is not rewritten by a much worse writer; sessions are closed; it ends |
| backends | what is sampled from was computed with the weights now loaded, from the tokens now asked about; sequences are owned by one; nothing is written behind the context |
| memory | memory and file agree between operations; nothing is held twice; the file changes by one whole entry at a time |
| codebase index | definitions are chunks under their names; what the index says of a file is what the file said; the rules decide what is in it; an exact name is found; what is put before the model fits |
| tools | the calls that run are those the text spells; a command is killed in time, with all of its group, and answered for as it ended; a page is read without its scripts |
| model files | a model comes back as it was saved or not at all; frozen tensors stay; a pack mirrors its model, and both kernels read the same numbers in it |
| tokenizer, data | tokens in use are those of training; training never reads the hold-out |
| dashboards | a run of text reads in its own direction; a texture is not deleted before its frame is drawn |


## 2 The modules

One action is what one thread does between two points at which another thread can see or
change what it uses. Operators named `Mut...` are wrong versions of the operator after them,
the way a plausible slip in the code would be wrong; each property, and each part of a property
that speaks of several modules, is known to fail under one. They are part of no specification.

```
RatchetedWeights  <--refines--  Coordinator  --refines-->  WeightRegistry  <--extends--  SptBackend
                                   ^      ^                     ^
                     CoordinatorHistory  CoordinatorProofs      BackendProofs
                                          (extends CoordinatorHistory, too)
Remembered  <--refines--  Memory
Memory, ModelFiles  <-- FileProofs
Chat  <--extends--  Learning  <-- LearningProofs
Agent <-- AgentProofs          Debate <-- DebateProofs
SptBackend, GgufBackend, DecodeWindow  <-- BackendProofs
ToolProcesses, ShapedText, TrainingData  <-- SupportProofs
CodebaseIndex, QuantKernels, SelfGen  <-- ArchiveProofs

MCServing:  Debate, SptBackend, GgufBackend, DecodeWindow
MCSupport:  Memory | Chunker, CodebaseIndex, IgnoreRules, Retrieval | ModelFiles, QuantKernels,
            MergePipeline | ToolCalls, ToolProcesses, WebText | Tokenizer, TrainingData, SelfGen,
            ShapedText
```

MCServing and MCSupport put parts side by side that share no state. `part` says which of them a
behaviour follows.
The other MC modules give one module its values for TLC: `MCCoordinator` (runs `ratchet`,
`progress`, `restore_stale`) and `MCCoordinatorHistory` (`session`) over the snapshots of
`MCHoldout`, `MCAgent`, `MCDebate` (`debate_cut`), `MCGguf` (`first_token`) and `MCLearning`.

### Learning while in use

**WeightRegistry** is the RCU holder with its two kinds of reader. `Swap` and `Bump` are the
two halves of `publish`; `publishing` holds the writers in between, several at once. `Sync` is
a trainer's unconditional load, `Resync` the load of chat and SPT backend, guarded by the
version noted last.

**Coordinator** composes trainers, the coordinator thread and the dashboard's restore and stop.
`phase` is the position in `round()`: `Collect` (refill, gather window, take all), `DropForStop`,
`ReadBase`, `DropMisfits` (no delta has the model's size) or `OpenGate` (merge and rate limit),
then per alpha `SkipAlpha` (drift guard) or `TryAlpha` and one of `AcceptCandidate`,
`RefuseCandidate`; `CommitSwap`, `CommitBump`, `RecordCommit` or `RecordReject`; `FinishRound`
with the backup, and the Fisher refresh. `ui.pc` is the position in `restore_best()`. Weights are
opaque values with given hold-out losses; a candidate may be any of them, since which weights a
merge yields is numeric. The one `eval_model_` shared by two threads is a data race in the code:
while two users overlap, either may come back with any result (`ResultsOf`). `SoleWriterSpec` is
the session without restore.

**RatchetedWeights** is what the header promises of the published weights, without threads;
**CoordinatorHistory** adds two observing variables for promises about stretches of a session.

**MergePipeline** is the arithmetic inside `OpenGate` on exact fractions: proposals added up per
source and weakened by staleness (`Gathered`), damped, trimmed, projected pair after pair in
place (`Projected`), elected and averaged (`Elected`). The queue grows by any proposal.

**Chat** has the calls of the people at the keyboard (ask, then tell the hub; aim at a turn of
a copied history, then rate), the worker thread, the autopilot's loop and the order in which
`main()` stops the threads. **Learning** adds the two trainers the hub feeds: `Fill` and
`FillBank` are `ready()` with the start of `round()`; a round steps, submits or fails.

**SelfGen** is the third trainer: prompts cut out of the corpora, candidates from one pool after
the other (`Generate`), the judge, the choice in two passes with its cap per language, the
buffer and the memory of accepted texts (`Keep`), what is trained on (`Train`), and a stop.

**TrainingData** builds mixtures of texts and token files, torn or whole, with their hold-outs,
and draws windows and hold-out batches from them. A token is its position, so that a property can
say which were touched. **Tokenizer** normalises, splits and encodes typed texts, and trains on
every small corpus with the incremental counts of the code.

### Answering

**Agent** has the render thread (`Ask`, `CancelFlag` then `CancelDeny`, `ShowModal`, `Decide`,
`ModalDenyAll`, policy changes, `Close` with its join) and the worker (`PlanCall`, `Fallback`
from a debate without the strong model, the tool loop, `InvokeRefuse/Allow/Ask`,
`RequestRemembered/Wait`, `Wake`, `TimeOut`, `Start`, `RunDone`, `Finish`). The check of the
flag and the start of the tool are steps of their own, with "cleared" between them. The approval
gate is `waiting`, `remembered` and `next_id`. A call stands for a tool with its arguments; what
the gate keeps is its key (`KeyOf`), which joins the arguments with line ends
(`tools.cpp:344-357`), so that calls split into lines in two ways may share one. The runs give
every call a key of its own, the proofs hold for any keys.

**Debate** is `DebateEngine::run`: an answer is author, draft, agreement cluster and score.
Drafts of different backends interleave; a critique round goes actor by actor through `Carry`
or `Revise`; `EndRound` brings forward who sat out; `Select`, `WriteFinal`, `Close` finish.
Scores are any, since judges, agreement and fluency are text.

**SptBackend** extends WeightRegistry. A cell of a cache is a token with the weights it was
computed from; a snapshot with fewer blocks stops a load half way, and the parameters before and
after the blocks are told apart (`Copied`). `SptBegin` is a request from the resync to the
prefill, `SptDecode` a token, `SptFinish` what the session keeps.

**GgufBackend** owns the sequences of one llama.cpp context. `SerialBegin/Token/End` serve one
request, `StartJoint`, `PrefillNext`, the steps and `JointEnd` several; `FallBack` is what is done
when the sequences run out. A decode fails whenever it likes. `GgufScore` and `GgufEmbed` work on
the same sequences; `leaked` remembers which of them `score()` has kept, `trespass` that a call
has worked on one it had not claimed. **DecodeWindow** has the position arithmetic of the five
loops side by side.

**ToolCalls** is `ToolRegistry::parse` on replies a model writes line by line or object by object,
and cut off anywhere. **ToolProcesses** has the shell tool and curl: fork, the child's group,
helpers inside and outside of it, the poll loop with timeout and cancel (`Check`, `Slice`),
`Drain` and `DrainSlice` (reading on after a kill, without clock or flag), `Reap` and the
verdicts. **WebText** makes pages into text (`HtmlToText`), splits and
cuts down long texts (`Split`, `Taken`) and puts search results in order (`Ranked`).

### What is remembered

**Memory** has any number of programs on one file: `Open`, `AddAgain`, `AddNew` then
`AppendLine`, `ForgetItem` then `CopyLine` for each item then `Rename`, and `Exit`, which is a
crash wherever it falls. Each write may fail, and the code does not look. `SoleSpec` is
programs that take turns. **Remembered** is what the header promises of the file.

**Chunker** cuts a file that grows line by line, in each of the four ways of the code, and scans
braces in files of characters. **CodebaseIndex** has the user's edits beside `Scan`, `Refresh`,
`IngestBatch`, `IngestCancelled`, `IngestDone`, `SetEmbedder`, `Stop` and `Load`: a text is the time
it was written at. **IgnoreRules** walks one small tree under every small pattern and a second
line. **Retrieval** ranks, fuses, corrects, looks up symbols and assembles a context block.

**ModelFiles** builds models from configurations (`Registered`: the tensors in order), pretrains
and grows them, tears a save at any tensor (`TornSave`), resumes, tunes with a freeze policy, and
packs (`BuildPlan`, `Offsets`, `PackOpens`). The value of a tensor is the number of updates it
took. The loops over blocks, schedule, tensors and offsets are recursive functions over the
numbers of the loop (`BlocksOf`, `GrownAt`, `FlatOffsets`, `PlanBlocks`). **QuantKernels** has the
encoders, the scalar loops and the vector kernels with their 16-bit lanes, and the two conversions
of half floats.

**ShapedText** splits lines into runs (`Runs`), orders them (`Visual`), wraps words (`Wrapped`) and
keeps pictures in textures (`Image`) that the draw list of a frame refers to.


## 3 The runs

Numbers of distinct states are for orientation.

| run | specification | states | what it shows |
|---|---|---|---|
| `ratchet` | Coordinator, `SoleWriterSpec` | 180,000 | `BaselineIsPublished`, `BestSnapshotIsBest`, and the refinement `ImplementsPromise`, which contains the ratchet |
| `session` | CoordinatorHistory, `HSpec` | 2,550,000 | with restores and stops anywhere: `RateLimited`, `OneCommitPerStop`, `NoStalenessUnderflow`, and `ImplementsRegistry` |
| `progress` | Coordinator, `FairSpec` | 410,000 | `RoundTerminates`, `QueueDrains` |
| `agent` | Agent, `FairSpec` | 1,010,000 | `ConsentBeforeRun`, `AnswerIsHonoured`, `OnlyLiveRequests`, `OneToolPerCancel`, `TurnEnds` |
| `learning` | Learning, `FairSpec` | 290,000 | `QuestionsInOrder`, `TextsOnce`, `BankCounted`, `LatestRatingWins`, `TextsReachTraining`, `ShutdownCompletes` |
| `serving` | MCServing, `MCSpec` | 680,000 | debate: `OneVoicePerRound`, `NobodyVanishes`, `SlotsReleased`, `SynthesisGuarded`, `TurnsFollowMultiplier`, `EveryDebateEnds`; registry: `SkipIsFresh`, `ReadersCatchUp` with two writers inside `publish` at once; backends: `ServesCurrent`, `SequencesSound`, `FitsTheWindow` |
| `support` | MCSupport, `MCSpec` | 460,000 | memory: `MemorySound` (that is `MemoryAgrees` and `NoDuplicates`) and the refinement `KeepsPromise`; and by parts the properties of the table below |
| `restore_stale`, `cancel_lost`, `debate_cut`, `autopilot_deaf`, `first_token` | | | the counterexamples of section 6 |

The properties of `support` on the other parts:

| property | part | what it says |
|---|---|---|
| `IndexIsTrue` | CodebaseIndex | rows, postings and places belong to the chunks beside them; a recorded file has all the chunks of one reading, of what it reads now while it is as recorded; no text is missing from the files |
| `ProcessesSound` | ToolProcesses | a command is killed at the end of its time and at a cancel, and only a helper that left its group keeps the tool reading after that; nothing of the group goes on running; a success is whole |
| `KernelsAgree` | QuantKernels | the vector kernels give what the scalar loops give, for rows of any length |
| `SelfGenSound` | SelfGen | prompts are questions of the training part, each once; no better candidate is passed over but for the cap; what is accepted is new; the buffer is the newest; pools take turns |
| `FilesSound` | ModelFiles | what is resumed is what was saved last, whole; a torn file is refused; depth follows the schedule; frozen tensors stay; a model has as many numbers as its configuration announces; merge space and flat vector give back what they take |
| | | a pack's plan mirrors the constructor; what is packed is what was saved; tensors lie in order, aligned and inside the file; a pack opens exactly if it is whole |
| `PartsSound` | QuantKernels | an encoding is as close as its step allows; both decoders of halves agree |
| | MergePipeline | "no pair of proposals actively fights each other" (`coordinator.h:34`); no proposal grows; the order of the queue does not matter; not everything is lost |
| | Tokenizer | incremental counts equal a recount; encoding applies the merges as training did; files load as saved; decoding inverts encoding of normal text |
| | TrainingData | no training window touches a hold-out; hold-out batches read nothing else; a torn file is refused; every source counts |
| | Chunker | chunks tile the file; a definition begins a chunk that carries its name; the scanner sees exactly the braces of the code |
| | IgnoreRules | a pattern matches what a definition by segments says; a file is in exactly if the rules leave it in |
| | Retrieval | the block fits its budget; a chunk named as the query, in any case, comes first; the parts of an identifier are its words |
| | ToolCalls | calls are those the text spells, in order, with their arguments; a cut-off object keeps only whole strings |
| | WebText | text of a page without scripts and comments, no word lost; sentences whole; a summary fits; results without the same page twice, near-twins last |
| | ShapedText | runs tile the line and change direction only at a strong character; wrapping is greedy; no texture leaks, is shared, or goes before its frame is drawn |

### Bounds and why they are enough

* **Coordinator.** `MaxRounds` rounds may start (3 in `ratchet`, 2 in `session`, 1 in
  `progress`) and no restore starts at `MaxVersion`. Three rounds are enough to creep past a
  budget of two tolerances one tolerance at a time, the shortest way to break the ratchet.
  `MCHoldout` gives eleven snapshots over three languages: creeping, trading one language for
  the mean, improving on all and both kinds of collapse. `session` and `progress` use two
  snapshots, as they are about order and not about the gates. Two alphas exercise the
  backtracking, queues of one or two the cap. `MaxAllowance` caps the clock's refills.
  `progress` needs two sources, because a gather window that waited for all of them would show
  only then.
* **WeightRegistry and the backends.** Three snapshots and three publishes by two writers: enough
  for a reader between the halves of one publish while the other overtakes it, and for a reload
  that fails, then succeeds. Prompts of two tokens over a context of four: shared prefixes of
  every length, with generation up to the edge. Two sequences for one session and two requests
  make the pool run out, with a leaked one for a single request already; after a trespass nothing
  is claimed before the next unload, and no further call is explored. `DecodeWindow` has every
  context up to 6, prompt up to 7, limit up to 7; `eval_nats()` any `chunk_in` up to 7, but none
  larger than a context with learned positions: its caller (`main.cpp:1304`) keeps to that, and
  the loop, which resets a cache cut to the context (`qmodel.cpp:705`), fills one more than that.
* **Agent.** One tool with two calls, so that consent to one can be mistaken for the other;
  two questions, so that an answer or a cancel can fall into the wrong one; `MaxToolSteps` 1
  (the nudge and a call compete for it), two calls in a reply and two in a plan.
* **Debate.** Three participants on two backends, multipliers 4, 2 and 3 over as
  many rounds as the highest, of which the first is the drafts (the highest and the one below it
  engage in all critique rounds, the third sits the first of them out and has two drafts);
  multipliers 3, 2 and 1 in `debate_cut`. Two clusters; scores on both sides of the two floors.
* **Learning.** Two questions, and either two ratings by the user or one round of the autopilot
  (`MaxRatings` is 2 and an autopilot's round counts double, to keep the two kinds of session
  about equally large). `autopilot_deaf` has two autopilot rounds. The caps stand for larger
  ones: `HistoryCap` 1 for 256, `HubCap` 2 for 4096, `MaxPolls` 1 for 600, `DrainMax` 1 for 64.
  `MinSamples` 2 over a `BufferCap` of 1 makes the waiting time matter. Generated answers are
  non-empty in the configurations; the skip of an empty one is `Store`.
* **Memory.** Two programs, two texts, ids up to 3 over all restarts: a text can be forgotten and
  added again under a new id. Neither programs nor texts are told apart by the properties, and
  no liveness is checked in the run, so the symmetry is sound.
* **Codebase.** Files of up to six lines, the first three of any kind, with chunks of at most four
  lines: long definitions are cut, short ones joined. Two files of none to two chunks (an empty
  text, or one too short to be a chunk, is recorded without any) and an edit at any point, batches
  of one file, a limit of three chunks, two embedders. First lines of
  up to four characters over `a * ? / !` with one of eight second lines. Repositories of up to
  three chunks of six types.
* **Models.** A configuration file of the first versions, one with grouped heads, one with every
  option, one that no model has; two growth steps. Rows of up to three groups, of which two go
  through the vector loop and one through its remainder, of the extreme codes. Up to three
  proposals of three deltas that conflict pairwise, from any source, fresh and stale.
* **Tools and texts.** Replies of four lines, objects of four members three deep. Commands that
  write three pieces, with one helper; a limit of two slices and time for what comes after it.
  Pages of four pieces, texts of five characters, searches of three results. Typed texts of four
  characters; corpora of two words of four letters and three merges, which overlap. Mixtures of
  two sources shorter and longer than a window and its hold-out. Three samples a round, two
  rounds. Lines of five characters, frames of three strings over a cache of two.

The runs without deadlock checking are those of programs that end: the window is closed, the
debate returns, the session is shut down, an input is complete. The bounds of the coordinator
leave an action enabled.


## 4 Fairness

* `Coordinator.FairSpec`: weak fairness of the coordinator thread's steps and of a restore that
  was begun. Both are loops without a wait on anything else (the gather window has a deadline,
  an evaluation returns). Trainers and the user owe nothing.
* `Agent.FairSpec`: weak fairness of the worker, and of nothing on the render thread. The
  worker's only wait is the approval request, which has a deadline (`TimeOut`). That tools return
  is an assumption: they have deadlines of their own, but section 6 names two commands for which
  the shell tool does not keep its own. The user need not answer, cancel or close.
* `MCServing.MCSpec`: weak fairness of `Debate.Run`, for every generation returns; of `Bump`, for
  a thread inside `publish()` finishes it; of `Resync`, which reads "as long as turns keep coming".
  Each is restricted to the behaviours that follow its part, so none forces a step of another.
* `Learning.FairSpec`: chat worker and `main()`'s shutdown go on, the autopilot's loop goes
  on, calls into hub and chat return, trainers' rounds end, and a buffer that waits for company
  is taken when its time is over. The user promises nothing; that training stays switched on is
  the premise of `TextsReachTraining` and not a fairness.
* `MCSupport` assumes none: that a command is killed in time is stated with a clock.


## 5 The proofs

`theorems` in `PROJECT.json` lists the results. All hold for every value of the constants that
satisfies the named assumptions of the modules (`RegistryAssumption`, `CoordinatorAssumption`,
`AgentAssumption`, `DebateAssumption`, `ChatAssumption`, `LearningAssumption`, `MemoryAssumption`,
`ModelFilesAssumption`, `ConfigsAssumption`, `SptAssumption`, `GgufAssumption`,
`WindowAssumption`, `ToolProcessesAssumption`, `ShapedTextAssumption`, `TrainingDataAssumption`,
`CodebaseAssumption`, `QuantKernelsAssumption`, `SelfGenAssumption`): caps positive, tables total,
the initial weights not collapsed, prompts not empty, fewer sessions than sequences, groups of a
multiple of four codes, codes within their bits, growth steps that add a block, an integer for the
layers a policy leaves open, the four encodings the packer has, and in a configuration file values
of the types of `GPTConfig`'s fields (that they make a model that can be built is not assumed:
`Valid` is the code's check). The model bounds (`MaxRounds`, `MaxAsks`, ...) are arbitrary numbers
in the proofs. The theorems of BackendProofs, SupportProofs, ArchiveProofs and FileProofs are
about each module's own specification; `MCServing` and `MCSupport` run the same actions with the
others at rest.

* **CoordinatorProofs.** `TypeCorrect`, and `StalenessNeverWraps` from `VersionsBehind` (every
  version held by a replica, a proposal or a round is at most the counter), with restores
  anywhere. For the single writer, `SoleInv` says phase by phase what the round's locals are: from
  `ReadBase` to the commit the base is still the published weights, a candidate that passed is its
  own result, and between the swap and the record the statistics lag by exactly that candidate.
  `RatchetHolds`, `BaselineCorrect`, `BestSnapshotCorrect` and the refinement `PromiseKept`
  follow. `RegistryImplemented` is the refinement of WeightRegistry with both writers.
  `DriftIsLimited` and `StopHolds` rest on `HistoryInv`: from the merge to the commit the step
  fits the bucket (`StepFits`, and by `ShareBounded` a commit at any alpha takes no more than the
  step), and what is past the last check of the stop is the first since the stop
  (`FirstSinceStop`). `HistoryObserves` says that the observing variables change nothing.
* **AgentProofs.** `WorkerInv` ties the flag `busy` to the position of the worker and bounds
  the tools started late; `ConsentInv` follows a click to the waiter it is about, and that is
  what makes `RunsHaveConsent` an invariant: an answered waiter was allowed by a click that
  showed the same call, and every remembered key is that of a call allowed for good; with a
  shared key the consent is to the key, and the property says so. `AnswersHonoured` is an action
  property over the same invariant: only the worker parked on a request removes it, `Wake` with the
  answer it finds, and `TimeOut` removes none that was answered.
* **DebateProofs.** The arithmetic of `Engages` (a running total that grows by less than n crosses
  at most one multiple of n) gives `MultiplierIsParticipation`, that a participant takes part in
  its share of the rounds played and in all from a multiplier of `Rounds - 1` on; `VoiceInv` and
  `HeardInv` say what the collected round holds of those already heard, carried and still to come,
  which gives `OneVoiceHolds` and `EveryoneStays`; `WinnerIsSafe` and `SessionsClosed`.
* **LearningProofs.** `AnswersInOrder`: history, current question and queue are consecutive
  numbers ending at the newest, preserved by appending at one end and trimming at the other.
  `TextsTrainedOnce`: hub, buffer, round and what was submitted hold a text once and share
  none (`Apart`), and a text its writer has not handed over yet is in none of these places and in
  no other writer's hand (`HandsApart`); a new text has a number above all given out before; one
  lemma covers all steps that only move or lose texts. `BankIsCounted` and `RatingsTakeEffect`
  rest on `RatingInv`: the count is the number of entries, an empty answer is
  never stored (`BankSound`); the last rating of an answer that waits in the hub is the latest given
  (`NewestWaits`), and an entry of the bank is the latest unless one of its answer waits
  (`BankIsLatest`). Draining takes from the front, so what stays is newer than what is stored. That
  `StoreAll`, a recursive function over the batch, is what it says is shown without induction over
  data: a function with its equations is constructed for each length, the least length at which it
  fails would follow one at which it does not. `LearningTypeCorrect` adds the caps (`CapsInv`).
* **FileProofs**, the models. `ModelsAlwaysSurvive`, `FilesAlwaysAgree`, both as
  `FilesStaySound`, for any configuration files, schedule, policies and encodings. `BlockLists` to
  `RegisteredLists` say which tensors the constructor registers (`NamesOf`, `ShapeOf`), each once;
  `BlockWeighs` to `RegisteredWeighs` add up their sizes to `ParamCount`, which has a formula of
  its own. `WellBuilt` says of a model that it has these tensors in some order, with these shapes
  and that count; `DeepenedBuilt` and `GrownBuilt` are that one more block, whose tensors go to the
  end, is well built again. The order is not in it: a model that has grown and one that is read
  from its checkpoint differ there. `FilesInv` is then `WellBuilt` of what is in memory with, per
  file, what it holds: a whole checkpoint has the tensors of the model that was saved, and as many
  layers as the schedule has put before its step (`CkptInv`, `TrainInv`); a torn one lacks a
  tensor the header counts (`TornIsRefused`); a tuner has moved only what its policy leaves open
  (`TunerInv`); a pack is the plan of a saved model (`PackInv`). What the properties ask follows:
  `CheckpointRestores` (by `ReadsWhatItWrote`, the version key makes a written file read as it was),
  `SlicesApart` and `ScatterGathered` (tensors are not empty, so no two start at the same place of
  the flat vector), `PlanLists` and `EntryMirrors` (the plan has the constructor's tensors, each
  with its rows and columns), `OffsetsAre` and `PackSound` (aligned, one behind the other, the end
  behind them all, so a cut at any byte before it is seen), `PackConfigIs` (depth and width are
  found again in the tensors).
* **FileProofs**, the memory. The invariant says, per operation, how list and file differ: during an
  addition the file is one entry behind, during a removal one ahead, and the second file
  together with the items still to copy makes up the list, whatever an earlier crash left.
  `ListAndFileAgree`, `ItemsAreDistinct`, both as `MemoryStaysSound`, and the refinement
  `PromiseIsKept` follow for programs that take turns.
* **BackendProofs.** `SkipsAreFresh` rests on `RegistryInv`: besides types and `SkipIsFresh`, what
  a reader noted is never ahead of the counter. Without it a bump could make an old note current
  again. `EveryLoopFits`: `WindowInv` counts what each loop has fed against what it
  kept of the prompt; the rest is the arithmetic of the five limits. `SptServesCurrent`: `SptInv`
  says that the parameters behind the blocks never come from a snapshot too shallow to have
  them, so that a load that stopped half way shows in a difference; that the noted version is
  behind the counter; that a cache covers its tokens, and a primed one is by the loaded weights
  throughout. The lemmas on the shared prefix (`LongestPrefix`, `RunPrefixCells`) are what makes a
  cache that is cut and continued the cache of the new prompt. `GgufSequencesSound`: `GgufInv`
  has an owner for every sequence marked as used, a session, a run in progress or nobody any more
  (`OneOwner`), and while a session's run decodes, its cells are its tokens and nothing else
  (`CachedAsBelieved`), unless a decode of it failed. As long as none was leaked, a free sequence
  for each run exists by counting; so it takes a leak, or `embed()`, for a call to trespass
  (`GgufSafe`), and an unload makes it good because nothing is in progress then (`Calls`).
* **SupportProofs.** `ToolsAnswer`: `ProcInv` says where the parent is while time passes and when
  reading goes on past the kill (`Slices`), what a kill has left of the group (`Killed`), who may
  still write to the pipe and how what was read and what is in it add up to what was written
  (`Whole`), and that before a child leads its group nothing has happened in it (`Groups`).
  `PicturesAreKept` and `DrawnTexturesStay`: `CacheInv` adds to the agreement of list, pictures
  and textures that what the frame has asked for stands at the end of the list (`AskedLast`), so
  that what is evicted from the front is not drawn; a texture name to spare exists by counting.
  `HoldoutIsUnseen` and `NoTornCorpus`: `CorpusInv` keeps hold-outs inside their sources, and the
  cursor of `holdout_batches`, a recursive function over the batches, is shown to stay inside like
  `StoreAll`.
* **ArchiveProofs.** `IndexStaysTrue`, for any files, embedders, batches and edits at any point:
  `IndexInv` says of a settled index that the chunks of each recorded file are those of one reading
  of it, side by side, and of what is on the disk as long as the record says so (`Truthful`); of a
  running job that the index so far and the old one are both of this kind, that what is copied comes
  from where it says (`Copied`), and that exactly the entries handled so far are in (`Merged`); and
  of the cache file that what it holds was true when it was written and still is of what has not
  changed (`CacheIsTrue`).
  `KernelsAlwaysAgree`, for rows of any number of groups of any size: no lane saturates, since two
  products of a byte and a code stay below 2^15; a sum over pairs, over halves or over lanes and
  a rest is the sum over all. `SamplesStaySound`, for any pools, sizes of a round, scores and caps:
  `GenInv` is the conjunction of the types, of what a candidate in hand is new to (`Fresh`), of
  the memory of accepted texts (`Remembers`), of the choice (`BestAreKept`), of the buffer
  (`BufferIsNewest`) and of the count that makes the turns of the pools even (`TurnsTaken`). What
  the loops of these modules compute is written as recursive functions. That such a function is
  what its equations say is the lemma `Recursion`, which builds it for each length; what it computes
  follows step by step with `UpTo` (what holds at 0 and is handed on holds up to n), by the least
  number at which it would fail. `ScanOK`, `FirstOK` and `SecondOK` say what the scan for prompts and
  the two passes of the choice have found so far.

Only model-checked:

* All liveness (`RoundTerminates`, `QueueDrains`, `TurnEnds`, `TextsReachTraining`,
  `ShutdownCompletes`, `EveryDebateEnds`, `ReadersCatchUp`): fairness is outside the prover's reach.
* `PartsSound` but for the pictures of ShapedText, and the hold-outs and the torn corpus of
  TrainingData. Chunker, IgnoreRules, Retrieval, ToolCalls, WebText, MergePipeline and Tokenizer
  compare what a recursion over characters, lines, members or proposals computes with a definition
  of another form, and the modules declare RECURSIVE operators, in which the provers lose SMT.
  `EncodingIsClose` and `HalvesAgree` of QuantKernels, and `EverySourceCounts` and
  `PairsLaidOutOnce` of TrainingData, are folds over their input or an arithmetic of powers, for
  which the induction theorems of the library would need an operator as parameter.
* The five runs with a counterexample, by their nature.


## 6 Findings

Each is a run that ends in a counterexample to something the repository says of itself.

* **`restore_stale`** (`coordinator.cpp:331`). A restore takes the best snapshot under the lock
  and publishes it later. A better commit in between is overwritten by the older snapshot, and
  the published weights leave the budget of the session's best, against `coordinator.h:104`.
* **`cancel_lost`** (`gui_agent.cpp:74`). The cancel sets the flag and denies the requests it
  finds. A worker past its check of the flag that has not registered its request yet parks
  afterwards, until the timeout the comment says a cancel avoids.
* **`debate_cut`** (`debate/debate.cpp:674`). A cancel inside a critique round leaves those
  still to come out of the round, neither heard nor carried, and the winner is taken from it.
* **`autopilot_deaf`** (`app.cpp:186`). The autopilot takes a longer history as the sign of an
  answer. At its cap the history grows no more, and the autopilot rates nothing from then on.
* **`first_token`** (`backend/backend_gguf.cpp:672`). The prefills of a joint generation follow
  each other on one context. Every request but the last draws its first token from the logits of
  the last prompt; the judges of a debate have a prompt each.

Met on the way, without a run of their own. What a property leaves out for one of these is said in
its comment.

* *Memory.* Under `Memory.Spec`, with two programs that have the store open at once, both hand out
  the same id and the later line replaces the earlier (`KeepsPromise` is then violated in seven
  states); adding a known text raises its importance in memory only; `mark_taught` has no caller,
  so teaching takes the same items each time.
* *Backends.* A failed prefill of a scratch sequence gives it back unwiped. `score()` claims a
  sequence to see whether there is one and another to work on, and gives the second back
  (`backend_gguf.cpp:812`): every call leaks one, and when the first was the last its text goes to
  sequence -1, which empties them all. Who then finds all of them taken, without a slot, works on
  sequence 0 and gives that back, whoever has it (`:482`, `:812`), as `embed()` does always
  (`:873`). `SequencesSound` says what is left of the promise, and that nothing else breaks it.
  Nothing under `src/` calls either or sets `opt.embeddings`. `load_params` (`model.cpp:502`)
  warns of a snapshot with more parameters than the model, and throws at one with fewer when half
  of it is copied.
* *Codebase.* A cancelled ingest leaves the chunks merged so far with old postings and no rows, and
  a later refresh takes the files recorded for indexed; `set_embedder` embeds again only if the
  dimension differs; a prototype or one-line function directly above a definition swallows it
  (`codebase.cpp:611`). `codebase.h:182` has `find_symbol` look for the exact name, then for it in
  another case, then for a part; the first pass takes the name in any case already
  (`codebase.cpp:1724`), so that of two functions `open` and `Open` the first in the index leads
  whichever was asked for, and is said to be an exact match (`NamesFirst`).
* *Debate.* `debate.h:40` and the tooltip at `gui.cpp:440` say that 2x and 1x have two critique
  rounds, the 2x in both and the 1x in one; `debate.h:98` takes `rounds` for critique rounds after
  the drafts, and `debate.cpp:291` has a 2x take part twice as often. The code counts the drafts
  as the first of them (`debate.cpp:394`, `:652`): with 2x and 1x there is one critique round and
  both are in it, and with 3x and 2x both are in each. `TurnsFollowMultiplier` says what the
  multipliers buy: drafts in proportion, and turns that tie between the two highest
  (`NextToHighest`).
* *Checkpoints.* The periodic save overwrites `--out` in place and its result is not looked at
  (`main.cpp:719`); `load_checkpoint` empties the store before it knows the file is whole;
  `float_to_half` rounds [65520, 65536) to infinity where its comment says clamp.
* *Tools.* A command that closes its own output ends the poll loop, and `waitpid()` behind it has
  neither timeout nor cancel (`tool_shell.cpp:257`); nor has the loop that reads on after a kill
  (`tool_shell.cpp:243`), in which a helper that left the group with `setsid` and goes on writing
  holds the tool for ever, after its timeout and against a cancel; only the child sets its process
  group; the exit code of curl is not looked at once a status line was read (`http.cpp:290`). An
  object cut off inside a reply still runs with the members that were whole; a lone brace or an
  opened marker can hide a call behind it. A lone `<` in a page takes everything to the next `>`
  for a tag, the beginning of a script included, which is then read as text.
* *Tokenizer.* A control token after exactly one space is not recognised (`backend_spt.cpp:203`
  builds prompts around it); `normalize_text` moves a space behind a ZWNJ, so normalising twice can
  differ; a tokenizer file torn inside its last number loads with a wrong merge; `slm tokenize`
  splits at line ends by the number of threads, which can change the tokens of an indentation.
* *Data.* The arithmetic of `sample_batch` keeps windows before the hold-out only if the training
  part is longer than a window (`dataset.cpp:206-209`); a source whose hold-out is shorter than a
  window gives no hold-out batches, so its language is not gated; explicit weights that sum to 1
  or more leave the sources without one 1/n each.
* *Self-generation.* Two candidates with the same text in one round are both kept; the memory of
  accepted texts is emptied as a whole, the newest included, when it is over its cap; with three
  pools or more the cap per language can leave a language with survivors without a place.
* *Dashboards.* Each prefix of a line that is wrapped becomes a picture of its own; a frame that
  asks for more strings than `max_entries` deletes textures its draw list still holds.


## 7 What is not modelled

Within the modelled parts:

* Coordinator: in `Coordinator` a free candidate stands for what the merge yields, in
  `MergePipeline` the scaling of the trust regions (a positive factor) and the credit (a given
  weight) are left out; anchor drift, a free choice; backups kept in memory and their numbering
  after a restart; floating point, for which integers or fractions stand.
* Agent: the debate is one step; indexing and dataset jobs of the dashboard; wording.
* Debate: how scores arise; the plan shown to the user and progress reports; exceptions from
  `generate`; drafting one after the other, a subset of the interleavings.
* Chat and Learning: generation, retrieval, texts that come from teaching or a file, balancing
  over languages, sizes of rounds. The self-generation trainer is a module of its own, not a
  thread of Learning.
* Backends: what is sampled (any token), llama.cpp itself, `status()`; what becomes of the cells of
  a sequence that two share after a trespass.
* Memory: a line torn in the middle, the counters and vectors beside the items, escaping, ranking.
* Codebase: which name a definition line carries, BM25 and the embedder (any ranking), the overview;
  in the walk what it leaves out besides the rules: hidden names (`codebase.cpp:1252`), links to
  directories (1259), `extra_ignores` and `only_exts` (1264), files above the size limit (1270).
* Models: values of tensors beyond the updates they took; forward and backward passes.
* Tools: file tools, the parsers of the search engines' pages, entities, the libcurl build.
* Texts: the UTF-8 decoder, the language detector, the numbers behind a judge's verdict.
* Dashboards: panels and layout, glyphs, fonts.

Whole parts: telemetry beyond its switches, the tensor kernels and the optimiser (numeric), the
command line's drivers, data preparation, packaging.


## 8 What could follow

Modelled: registry, coordinator with its two abstract specifications and its merge, agent, debate,
chat with learning, memory, both backends, codebase index, model files and kernels, tools,
tokenizer, data, self-generation, text of the dashboards. Proved: the safety properties of all
runs but for the parts of `PartsSound` named in section 5.

Proofs, in order of weight:

1. *QuantKernels.* `EncodingIsClose`, from the arithmetic of rounding to nearest.
2. *Retrieval.* `BlockFits`: what is taken of head and tail of a chunk never exceeds the room.

Models: agent and debate in one state space (the cancel of a question reaching a debate), the
file tools, the numbering of backups across sessions.


## 9 Running

In this directory, `tlc -workers 2 -config <run>.cfg <module>.tla` for a run (the module of
each is named in `PROJECT.json`), and `tlapm <module>Proofs.tla` for the proofs.
