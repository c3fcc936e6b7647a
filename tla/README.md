# TLA+ models of the Jetson voice engine

Specifications, model-checking configurations and machine-checked proofs for
the voice engine: the subprocess workers that turn audio into text and text
into audio, the allocator of their lanes, the Python multiplexer and the
scripts that talk to them, the streaming vocoder programs, and the tools that
package, deploy, rewrite and accept the models.

## The system

A server process starts one worker subprocess per model and talks to it over
stdin and stdout, one JSON object per line.

| Part | State | Operations | Hard behaviour |
|---|---|---|---|
| `SessionLaneManager` (overlay patch 0004) | `mLanes`, one record per batch row of the shared cache | `acquire`, `release`, `setKvLength`, `recordOf`, each under `mMutex` | static partition between ASR and TTS owners; a lane released twice or never |
| ASR worker (`qwen3_asr_worker.cpp`) | `gSessions` (lane, audio path, owned temporary file, PCM, last activity), the lane manager, files in /tmp, the line buffer | `begin`, `chunk`, `end`, one-shot lines, rejected lines, the idle sweep, end of file | interleaved sessions on one thread; decodes that take long; failing conversions; clients that vanish |
| WorkerIO (`worker_io.voxedge-patch.py`) | `_sem`, `_inflight`, one queue per request, `_closed`, the reader thread | `send_request`, `request`, `cancel`, `close`, `_reader_loop` | threads, coroutines and an executor around one pipe; worker death, `close()`, timeouts, consumers that stop, cancelled tasks |
| Spark TTS worker (`spark_tts_worker.cpp`) | slots with a queue, a thread and a `StreamChannel`; the cancel map | dispatch, cancel, decode, chunked vocoding, shutdown | cancel racing dispatch and completion; shutdown racing the slot threads |
| Qwen3 TTS streaming worker (patches 0022, 0028-0030), MOSS worker (0031, 0041) | slot pool, per-slot threads, cancel flags | as above | as above |
| Worker client scripts (`run_qwen3_tts_worker_smoke.py`, `v080_pipeline_driver.py`, `v080_coresidency.py`, `validate_qwen3_tts_quality_gate.py`) | one child worker and its three pipes, audio collected so far, the tegrastats child | spawn, await ready, send, read events, save, terminate or kill | bounded pipes, a worker that logs, dies, errs or prints what is not JSON; exceptions on every path |
| Code2Wav streaming scripts (`qwen3_code2wav_stateful_reference.py`, `..._real_gate.py`, `..._export.py`) | convolution histories, attention keys, overlap-add sums, the explicit state list; weights read from ONNX | one step per block and chunk, five programs around them | chunk borders: histories, windows, trims and offsets; order of states and of renamed weights |
| Packaging and deployment (`package_qwen3_artifacts.py`, `deploy_qwen3_artifacts.py`) | built tree, stage with inventory, hub, device root, sidecar of digests | digest, copy, download, verify, record | kills between any two steps, trees that change meanwhile, manifests older than the files |
| Engine bundle (`build_engine_bundle.py`, `build_matcha_estimator_trt.sh`) | engines per host, tar files, manifest | build, pack, copy, describe | a build that stops half-way; leftovers of earlier and killed runs |
| Acceptance gates and benchmark (`verify_tts_asr_roundtrip.py`, `verify_qwen3_tts_asr_roundtrip.py`, `bench_http_tts_stream.py`, `streaming_e2e_verify.py`) | wav files here and in a container, reports, verdict, latencies | synthesize, transcribe, judge, report | files and reports of earlier runs, raising in the middle, percentiles |
| TTS contract (`verify_qwen3_tts_contract.py`) | `sys.path`, what is imported | import, require, sample | path order, the order of the requirements |
| ONNX rewriting tools (W8A16 and AWQ quantisers, layout transposition, selective rollback, Matcha, Paraformer and lm_head surgery) | the model on disk | load, rewrite, check, save | shared weights, chains of tools, nodes found by place |
| Native TTS worker, VAD splitter, stateful Code2Wav runner (C++), streaming-prefix rollback | sequential | | not modelled |
| Mel extraction, kernels and plugins, engine build and export scripts, overlay build | numeric or one-shot I/O | | not modelled |

What makes each part correct:

* lane manager: an owner never gets a row of the other kind or one in use, and
  is refused only when its own partition is full;
* ASR worker: lanes and sessions correspond one to one; a temporary file
  belongs to one open session; a transcript is never of superseded audio;
  a silent session is reclaimed, and only a silent one;
* WorkerIO: every token comes back; no request waits for an event that cannot
  come; a request hears only its own events; every request ends;
* TTS workers: one terminal event per accepted request, chunks that cover the
  audio exactly once, cancels that reach the request they name, a shutdown
  that ends;
* client scripts: published audio is that of its own request and whole, no
  child outlives the script, and the script ends;
* Code2Wav: however the utterance is cut, the samples of one offline pass, none
  before it is final, and weights and states in their places;
* packaging, deployment, bundle: success means that the files are there, of one
  build, and described by what was written down;
* gates, benchmark, contract: a pass is of this run and of this deployment;
* ONNX tools: the model on disk is well formed and computes what the export
  computed.

`PROJECT.json` lists all components, and under `hazards` each hard-to-test
behaviour at its source line with the properties about it.

## Modules

```
SessionPool  <--refined by--  AsrWorker  --INSTANCE-->  LaneManager
                              ^      ^                      ^
                        AsrIdle      AsrWorkerProofs        MCLaneManager
                        MCAsrIdle    MCAsrWorker
WorkerIO       <--  WorkerIOProofs, MCWorkerIO
WorkerClients  <--  WorkerClientsProofs, MCWorkerClients
SparkWorker    <--  SparkWorkerProofs, MCSparkWorker
SparkStream    <--  SparkStreamProofs, MCSparkStream
Subsequences   <--  StreamLayers, WeightLoad  <--  Code2Wav  <--  Code2WavProofs
Subsequences   <--  TtsContract,  CountingLemmas
OnnxGraph      <--  OnnxSurgery
EngineBundle   <--  MCBundle
MCLaneManager, Artifacts, EngineBundle, RoundtripGates,
StreamingGate, TtsContract                    <--  SequentialProofs
CountingLemmas <--  SequentialProofs, Code2WavProofs
MCConversations  =  AsrWorker | SparkWorker | WorkerIO | WorkerClients
MCSynthesis      =  Code2Wav | SparkStream | SparkWorker
MCSequential     =  AsrWorker | MCLaneManager | Artifacts | MCBundle
                    | RoundtripGates | StreamingGate | TtsContract | OnnxSurgery
```

`MCConversations`, `MCSynthesis` and `MCSequential` put parts that share nothing
under one specification: `side`, `stream` or `chain` says which of them a
behaviour follows, and the others stay in one initial state. The states checked
are the sum of the parts' states, not their product.

### LaneManager, MCLaneManager

`LaneManager` has one variable, `mLanes`, and one action operator per method.
Each method holds `mMutex` for its whole body, so each is atomic. `acquire` is
the successful case (the first free lane of the kind's partition), and
`acquireFails` the -1 case. `MCLaneManager` adds callers of both kinds that
remember the lane they were given. The constructor's checks are the assumption
`LaneSizes`.

### AsrWorker, AsrIdle, SessionPool

The worker is one thread, so a line is one action: `handleBegin`,
`handleChunk`, `handleEnd`, `unknownSession`, `oneShot`, `rejectLine`. `pipe`
holds the lines the client has written, `buffer` those `read()` has delivered,
and `loop` says whether it is in `poll()` or working through the buffer;
`readStdin`, `pollTimeout`, `endOfLines` and `eof` are the loop itself. The
sweep is part of `pollTimeout` and `endOfLines`, as in the code, and is not
taken at end of file.

Abstractions. An audio descriptor is a path the client owns or a PCM payload;
a line carries at most one of them. A transcript is the audio it was decoded
from (`text`), and `latest` remembers the last path, the last payload and the
newer of the two a session received, so that a property can ask whether it is of
the right audio. A
temporary file holds the payload it was converted from; a decode of a removed
file cannot yield text, a decode of a present one may still fail. Temporary
names carry a clock reading and are never reused, which `IsFresh` says. `idle`
counts ticks since `lastActivity` and saturates just past the timeout. A tick
may fall between any two steps. The streaming-prefix option changes only how a
partial's text is derived and is folded into `Decodes`. Lines whose fields
have the wrong JSON type, an empty `pcm_b64`, and writes that fail after a file
was opened are not generated.

`AsrIdle` adds what the client knows: how long ago it last wrote for a session
(`silence`). There time passes only while the worker waits or decodes.

`SessionPool` is the promise to clients: at most `Capacity` sessions, a refusal
only while `Capacity` sessions are open. `ImplementsSessionPool` is its
specification under the mapping `open <- Open`, `refused <-` the ids answered
`pool_saturated` by the last step.

### WorkerIO

A request is a process with a program counter; an action is what runs between
two points where another thread can interfere, and what runs under one lock is
one action. `request` runs on a thread of its own. `send_request` runs on the
event loop: `MayRun` lets only one coroutine be between two awaits at a time.
Its `sem.acquire` and `q.get` are jobs of the loop's executor, which has
`ExecThreads` threads and serves jobs in order (`jobs`, `execStart`).
`taskCancelled` is the cancellation of the awaiting task: cancelling the task
cancels the future it awaits, so a thread already in `sem.acquire` goes on
(`orphan`), and when it gets its token the done-callback has long run on a
cancelled future (`leaked`). `close()` is three actions, since it takes two
locks one after the other and wakes the queues without any. The reader looks a
queue up under the lock and puts the event after releasing it (`carry`).

The worker process is external and modelled as WorkerIO sees it: it may answer
partials, one final event, errors with or without id, nothing at all, or die.
`CancelAware = FALSE` is a worker like the ASR worker, which takes a cancel
line for a one-shot request and answers an error without id. Each request is
issued once, with its own id, as `request` demands; a pipe never blocks a
write.

The reader thread ends at the end of the pipe (`"exited"`) or with a line that
raises outside the inner `try` (`"crashed"`). Its `finally` wakes everyone in
both cases, but a request that comes after a crash finds the worker alive and
nobody reading, and only the timeout of `q.get` ends it.

### SparkWorker

The threads of the Spark worker and what they share. `main` is the thread that
reads stdin: `readRequest` claims a slot and binds the id, `pushQueue` and
`notifyOne` hand the request over, `readCancel` and `tripChannel` are the two
halves of `tripCancel` (the channel is looked up under the locks and cancelled
after they are released), and `eof`, `setShutdown`, `notifyAll`, `joinThreads`
end the process. A slot thread goes through `slotWorkerLoop` and
`processRequest`; `thread[s]` is where it is. `checkQueue` and `block` are two
steps, because the predicate of a condition variable is evaluated before the
thread sleeps; in between it holds `queueMu`, which `pushQueue` needs and the
shutdown does not take. The decode thread is `Decode`: it ends with the channel
finished (`decodeEnds`), throws (`decodeFails`), or `handleRequest` returns false
and nobody looks at the result (`decodeRefuses`). Whether the runtime has
finished the channel when it returns false is not visible here, so it may or may
not have; a request left so is `Unfinished`.
Channel and decode thread belong to one request and are indexed by it. Request
ids are distinct and not empty; a line that is not JSON changes no state, and
a JSON line that is not an object is not generated. Spurious wakeups are left
out: they only repeat `checkQueue`.

### SparkStream

The data side of `processRequest` for one request: how many global and
semantic tokens have been collected and skipped, and which range of semantic
tokens each audio chunk stands for. `receive` is one turn of the consumer loop
(token parsing, the speaker decoder, at most one live chunk), `drain`,
`finalMarker` and `singleSegment` are the flush, `decideEnd` and `throw` where
the request may end early. A chunk is its range of tokens: the overlap to its
left is vocoded again, discarded and cross-faded, which moves no boundary. The
vocoder returns a fixed number of samples per token, so a chunk of new tokens
is never empty. Whether the runtime's stream repeats the prompt is not decided
by this repository: `promptEchoed` is chosen at the start and stays. The code
does not look: `Echoes` counts off the first `refSemanticEcho` tokens in either
case.

### WorkerClients

The four scripts that start a worker with `subprocess.Popen`. The worker and
the kernel's pipes are external: a pipe holds `OutCap` or `ErrCap` lines and a
write to a full one does not return, which for stderr is the two steps
`WorkerBeginLog` and `WorkerEndLog`. Stdout lines are events; audio is the
sequence of chunks `<<request, index>>`, so audio of another request shows. An
action is one `readline` with what the script does of the line, one write, or
one wait. `Raise` is an exception no handler catches: the interpreter's exit
closes the pipes, nothing else. `run_asr` and `run_llm` of the pipeline driver
use `subprocess.run`, which drains both pipes, and are one step each.

### StreamLayers, WeightLoad, Code2Wav

`StreamLayers` has one streaming step of each block in the three versions of
the repository (reference, real-weights gate, export): causal convolution with
its history, sliding-window attention with its keys, transposed convolution
with its overlap-add. A sample is named by the offline sample it equals, and a
block yields the name only when it read exactly what the offline block reads
for that sample. So every wrong history, window, overlap or offset gives a
`Bad` sample that no later block turns into a good one. Pointwise work keeps
names. Overlap-add sums are the sequences of their terms.

`WeightLoad` is `build_real_decoder`: parameters whose names survived the
export are found by name, the others by their place among the `onnx::MatMul_`
and `onnx::Exp_` initializers. The file is any sequence of initializers, in any
order. `Code2Wav` has the programs: `collect`, `emit`
and `online` of the reference, the gate, and the export's module with its
explicit list of states. The first four finish a block for every chunk before
the next block starts; the export pushes a chunk through all blocks. The
vector-quantiser lookup in front is per frame and needs no state.

A list comprehension with a condition is `Picked(s, K)` of `Subsequences`: the
elements of `s` at the positions `K`, in order. It says by counting what
`SelectSeq` says by recursion, and counting is what the provers can follow. For
the same reason loops over layers, blocks and chunks are recursive functions
over their indices.

### Artifacts, EngineBundle

The content of a file is the number of its build; equal content is equal
digest. In `Artifacts` the packager digests and copies file by file, the deploy
tool downloads, loads the sidecar and verifies file by file; `Killed` may follow
any step, `Rebuild`, `Upload`, `Pull` and `Damage` are the world around them.
A write that a kill cuts off leaves `Torn` files or a torn sidecar.

`EngineBundle` is one model of a profile. `compileOne` removes the old anchor, not
its companions, and starts the build script, which has the files of `Travellers`
to write: `writeEngine` is one turn of the script's loop over the steps, the
anchor first, and `buildFails` its `set -e` at any moment. A kill of the tool is
taken to stop the script too. So a host may be left with an anchor without
companions, or with those of an older build, and `--skip-build` takes it as it is:
line 99 asks for the declared engines, line 113 passes over a file that is
missing. `UnlinkBundle` removes the old tar, and the manifest is written last. A
single engine file is written whole or not at all.

### RoundtripGates, StreamingGate, TtsContract

Gates are run several times over one output directory. A wav file is the
number of the run that wrote it, and a transcript is `same`, `near` (close to
the text, but a keyword of the case is missing), `other` or `silent`, which are
the outcomes the similarity and keyword checks tell apart. `Blank` cases have
texts without a letter or digit, for which two empty normalised texts are equal.
`StreamingGate` has the scenarios of `streaming_e2e_verify.py` with their
workers and the interpolated percentiles in hundredths of a millisecond.
`TtsContract` has `sys.path` as a sequence, imports with regular and namespace
packages, and the requirements in the order they are made; a deployment is
described by what is wrong with it.

### OnnxGraph, OnnxSurgery

A model is nodes, initializers, inputs and outputs, and its `Meaning` is the
term of each output; a quantised weight under its own scales and layout is the
weight, a smoothed one under the inverse smoothing too. Each tool is one action:
it loads the model on disk, rewrites it, checks it where the code does, and
saves it or raises. The Matcha surgery replaces a `Range` by the first entries
of a constant: 64 for the tokens, `--max-mel` (800) for the frames, and likewise
its noise is an input of `--max-mel` frames. `Caps` names the two limits, a
constant carries the one it was cut to, and `Meaning(m, over)` is what a model
computes for an input that is over the limits `over`: a truncation (`Sliced`)
wherever such a constant is used. No code under `src/` compares an input with a
limit. The decoder tools may be applied one after the other, up to
`MaxTools`. `misused` records a tool that met a model its description does not
cover: transposing a layout twice, AWQ weights in another order with the same
shapes, readers of the lm_head tail besides its MatMul. Nothing in the tools
could notice these, and nothing is claimed of the model afterwards.

## Runs

| Run | Configuration | What it shows |
|---|---|---|
| `conversations` | ASR worker: 3 sessions, 2 lanes; Spark worker: 2 requests, 1 slot; WorkerIO: 2 async requests, 1 token, 1 executor thread, task cancellation, a reader that may crash; four scripts, all faults, 1 warm-up and 2 measured runs; fair threads and clock on every side | `LaneOwnership`, the worker refines `SessionPool`, `IdleReclaimed`; `Answered`; `RequestsEnd`; `AudioIsWhole`, `ChildrenReaped`, `WorkerGone`, `ClientEnds` |
| `asr_idle` | two sessions, decodes that take time | violation of `ReapsOnlySilent` |
| `asr_mixed` | one session, one mel path, one payload | violation of `LastAudioWins` |
| `workerio_safety` | one async and one sync request, 2 tokens, task cancellation | types, `TokensConserved`, `NoVainWait`, `StreamsApart` |
| `workerio_leak` | 2 async requests, tasks may be cancelled | violation of `SlotsComeBack` |
| `workerio_starve` | 2 async requests, 1 token, 1 executor thread, nobody cancelled | violation of `CloseEndsRequests` |
| `spark_shutdown` | 1 request, 1 slot, fair threads | violation of `ShutdownEnds` |
| `spark_echo` | the stream of `synthesis` | violation of `GeneratedIsVocoded` |
| `synthesis` | Code2Wav: every composition of up to 5 frames, five programs, files in and out of order; Spark stream: chunk sizes 1 to 3, deltas of up to 3 tokens of a kind, 14 tokens, echoed prompt or not; Spark worker: 3 requests, 2 slots, with symmetry | `StreamedIsOffline`, `EmittedIsPrefix`, `StatesAligned`, `WeightsInPlace`, `WeightsByPlace`; `Contiguous`, `OneFinalChunk`, `VocodedSpeech`; `SlotCustody`, `OneTerminal`, `CancelHitsItsOwn`, `CancelledOnlyIfAsked` |
| `clients_stderr` | the quality gate, a worker that logs | violation of `QualityGateEnds` |
| `bundle_partial` | 2 hosts, 3 builds, an anchor with two companions | violation of `BundleComplete` |
| `sequential` | one of eight parts per behaviour, bounds below | types, `TempFilesOwned`, `LastOfItsKind` (ASR worker), `PartitionRespected`, `RefusedOnlyWhenFull`, `HeldLanesAreOwned` (lanes), `DeploySound`, `InventoryOfStage` (artifacts), `BundlePublished` (bundle), `GateSound`, `ReportHonest` (gates), `VerdictHonest` (streaming), `ProductAppWins`, `OkMeansConforming` (contract), `MeaningKept` (surgery) |

The violations are the code's disagreements with its own comments; each is a
finding in `PROJECT.json` with the comment it contradicts:

* a session is reaped although its client has written, because a decode for
  another one took long (`asr_idle`);
* a session that sends PCM and later a mel path converts the old PCM again, and
  the newer path is ignored, where the comment says "Last wins" (`asr_mixed`);
* a cancelled task loses a token of the semaphore (`workerio_leak`);
* requests that wait for the semaphore hold every thread of the executor which
  the `q.get` of the token's holder needs: even `close()` ends neither
  (`workerio_starve`);
* a shutdown that falls between a slot thread's look at its flag and its sleep is
  not noticed, so that the process never exits (`spark_shutdown`);
* on a runtime that does not echo the prompt a clone request loses the beginning
  of its speech, where the comment says detection is "empirical, not assumed"
  (`spark_echo`);
* the quality gate waits for ever for a worker that has filled the stderr pipe
  nobody reads, as the smoke script's docstring warns of the same workers
  (`clients_stderr`);
* a build that stops behind the anchor is published with `--skip-build` without
  the companions, or with old ones, where the docstring says the bundle must
  include all three (`bundle_partial`).

Where the code breaks what is said of it, a passing run checks what it does keep,
with the breaking case in its bounds: `LastOfItsKind` beside `LastAudioWins` (no
path or payload that a later one of its kind replaced), `RequestsEnd` beside
`CloseEndsRequests` (being starved for ever and a leaked token are the only two
ways not to end), `VocodedSpeech` beside `GeneratedIsVocoded` (exactly what is
lost without an echo), `BundlePublished` beside `BundleComplete` (the companions,
if the run built them).

Further configurations ask other questions of the same modules and are run by
hand; TLC finds a violation in each.

| Configuration | Module | Shows |
|---|---|---|
| `MCAsrDangling.cfg` | `MCAsrWorker` | a failed conversion leaves `melPath` naming a file already removed (`AudioPathPresent`) |
| `MCWorkerIOCancel.cfg` | `MCWorkerIO` | a worker without cancel support answers a cancel line with an error that is routed to another request (`CancelsAreSilent`; `worker_io.voxedge-patch.py:253-254` says unknown cancels are dropped silently) |
| `MCSparkTripped.cfg` | `MCSparkWorker` | a cancel acknowledged as tripped during the final flush is answered `done` (`TrippedNotDone`; `worker_io.voxedge-patch.py:249-251` promises `cancelled` in lieu of `done`) |
| `MCSparkBound.cfg` | `MCSparkWorker` | the pool's id map keeps every id ever served (`BoundIdsAreLive`; `SlotPool::release` in patch 0022 asks for the binding to be dropped first) |
| `MCClientsCores.cfg` | `MCWorkerClients` | the co-residency probe waits for `done` only: a worker that answers `error` and stays resident leaves it waiting (`CoresidencyEnds`) |

Three more formulas stand in their modules as what the code does not keep:
`EngineBundle!HostsStayDescribed` (a run writes the manifest with its own host
alone), `StreamingGate!AllGatesHard` (the docstring calls the PCM gate F hard;
without its two options it is skipped), `TtsContract!ContractUsesApp` (the
contract puts the overlay in front of the app).

Every property of a passing run has a mutant: a definition with a plausible bug
(named `...KeepsLane`, `...WithoutRecheck`, and so on, and commented "Mutant")
under which TLC finds the property violated.

Bounds. Two sessions or requests are needed for every hazard in which one
disturbs another, a third one in `conversations` to be refused while two lanes
are taken. There the ASR worker has no audio, since lanes do not depend on it; in
`sequential` it has a mel path, two payloads and three file names, so that each
of two sessions holds a file and one replaces it. `PipeCap` of 1 suffices where
lines of different sessions do not have to wait together (a line can arrive after
every step) and is 2 in `asr_idle`. `IdleTimeout` of 1 lets a session be idle and
not yet over the limit; with 0, in `sequential`, the first tick makes it stale.
Two async requests, one token and one executor thread are the least in which a
waiter can starve the holder, and in `conversations` it does; a threaded `request`,
which does not use the executor, is in `workerio_safety`. `MaxChunks` of 1 in `workerio_safety` lets a stale
partial arrive before and after a request has been abandoned; `conversations`
needs none, since a partial only makes a consumer wait once more. Three Spark
requests on two slots let one be refused, one follow another on its slot and two
run at once. The Spark stream reaches the semantic cap, first chunks longer and
shorter than the others, deltas that hold echo and speech, and live emission that
ends exactly at the last token; the Code2Wav part has networks with every kind of
block, kernels longer than a chunk, windows of 2 and 3 under 5 frames, sizes that
do not cover the codes, and files with swapped, missing and surplus initializers.
The scripts' stdout holds 2 lines, stderr 1, and 3 log lines fill it; a warm-up
and two measured runs let audio cross from one to the next in both ways.
`sequential`: 4 lanes, 2 for ASR, 1 for TTS, 3+2 owners; 2 files of which the old
manifest has 1, 2 builds; 3 engines of which one is `hf_only` and one has two
companions, 2 hosts, 4 builds; 2 cases of which one is blank, 2 runs, 2 trials; 2
prompts, 3 latency runs of 2 values; all single defects of a deployment and one
pair; up to 3 tools on a decoder model with a tied embedding and on one with a
shared weight, and inputs over either limit of the Matcha surgery or both.

Reductions. Some runs take one of several orders that lead to the same states of
what the properties look at; each is a conjunct beside the next-state relation of
an MC module, never in a component, and what is proved does not rest on them:

* `Lockstep` (ASR): the client writes while no line that was read is waiting to be
  handled. Handling a line does not look at the pipe, so a write during it and a
  write after it lead to the same state.
  `asr_idle`, where the moment of writing matters, does not use it.
* `InOrder`: the first of several interchangeable requests is issued first, and
  interchangeable file names are taken in one order.
* `Side` (ASR in `sequential`): one session sends every line, the other sends no
  path and one payload only. This is a bound, not a symmetry: it leaves out two
  sessions that both mix paths and payloads. `LastAudioIsHeard` and
  `NoOrphanFiles` are proved without it.
* `CancelsFind` (Spark worker in `synthesis`): a cancel line that finds no channel
  only adds to `asked`, and every property about `asked` is the stronger the
  smaller it is.

The deadlock check is off in every run: the workers stop at end of file, the
programs end, requests are issued once each and all served, and a wait that
never ends is what `RequestsEnd`, `Answered`, `ClientEnds` and `IdleReclaimed`
are about.

Fairness. `AsrWorker!FairSpec` assumes that the worker's thread runs (it never
waits longer than one poll) and that time passes; nothing of clients.
`WorkerIO!FairSpec` assumes that threads, the event loop and the executor run
what they can, that `q.get` times out, and that a consumer asks for the next
event or stops; nothing of the worker, the reader or whoever calls `close()`.
The executor thread of a cancelled task goes on waiting for its token and takes
one that is free (`lateAcquire`). `SparkWorker!FairSpec` assumes that the threads
run and that a decode ends or fails, which `max_tokens` bounds, not that it
finishes its channel; nothing of whoever writes to stdin, and a vocoder
failure is never counted on to end a request. `WorkerClients!ClientsFairSpec` assumes
that worker, drain thread and script run when they can; a fault or a log line
need not come. A wait with a timeout is one step that either finds the worker
gone or kills it.

## Proofs

Eight modules hold theorems. Each theorem has the form `Spec => []P`, or is a
refinement, for every value of the constants that the named assumptions of the
module allow; a run checks the same `P` on a small instance. `P` alone is
seldom kept by every step, so each module states an inductive invariant as a
conjunction of named parts, shows that the initial states have it and that
every action keeps every part, and reads `P` off it. The invariants were
model-checked on small instances before they were proved.

`AsrWorkerProofs`, from `AsrConstants` (positive batch and slots; ids, paths,
payloads and file names that differ):

* `TypeCorrect`: `[]TypeOK`. One step per action; lemmas give the type
  of a dispatched line and of an updated session.
* `LanesMatchSessions`: `[]LaneOwnership`. With `TypeOK` the property
  is inductive: a new session takes a lane that was free, so no other session
  had it; a closed one releases the lane that carries its own name; the sweep
  does so for a set of sessions at once, whose lanes differ because each lane
  names its owner.
* `NoOrphanFiles`: `[]TempFilesOwned`. Inductive together with the type
  invariant; freshness of the new name is what keeps two sessions from sharing
  a file.
* `WorkerImplementsPool`: `ImplementsSessionPool`. A step maps to
  `Begin`, `Refuse`, `CloseAll` or a stutter. The counting facts (fewer than
  `asrMax` sessions when a lane is free, exactly `asrMax` when none is) follow
  from `LaneOwnership`, which makes `laneId` a bijection between the open
  sessions and the lanes in use.
* `LastAudioIsHeard`: `[]LastOfItsKind`, for clients that mix PCM and mel paths
  in any way. `AudioInv` is the strengthening: a session's payload is the last
  it received; a path to a temporary file is to its own, which holds the last
  payload or is gone (a failed conversion removes it but leaves the path); any
  other path is the last it received.

`WorkerIOProofs`, from `WorkerIOConstants` (finitely many requests, at least one
token and one executor thread), with task cancellation, a crashing reader and a
dying worker allowed:

* `WorkerIOTypeCorrect`, `TokensAreConserved`, `NobodyWaitsInVain`,
  `StreamsStayApart`: `[]TypeOK`, `[]TokensConserved`, `[]NoVainWait`,
  `[]StreamsApart`. The invariant `IOInv` has five parts. `JobsInv`: the
  executor's queue names a request once, and only one that waits for a thread.
  `TokenInv`: free tokens and holders add up. `WakeInv`: a request that has
  written its line is in `_inflight` or its end is announced (in its queue, in
  the reader's hand or in the snapshot of `close()`), and after the snapshot, or
  after the reader's exit, only the latter. `RouteInv`: what is on the pipe and
  in the reader's hand is routed by the id it is about. `NoVainWait` rests on
  `WakeInv`: a request that registers after the snapshot meets the second check
  of `_closed`.

`SparkWorkerProofs`, from `SparkConstants` (at least one slot):

* `SparkTypeCorrect`, `SlotCustodyHolds`, `OneTerminalHolds`,
  `CancelHitsItsOwnHolds`, `CancelledOnlyIfAskedHolds`, for every interleaving
  of the main thread, the slot threads and the decode threads. The parts of
  `SparkInv` need each other: `ClaimInv` says what a claimed slot's flag stands
  for (a request on its way to the queue, in it, or being processed, and one of
  the three), `BoundInv` that a request stays with the slot it is bound to,
  `AnswerInv` that it has no answer while it is in those hands and one
  afterwards, `RouteInv` that the cancel map leads from an id to the slot that
  processes it and from there to its own channel or none, `ChannelInv` why a
  channel is cancelled.

`SparkStreamProofs`, from `StreamConstants` (positive chunk sizes and cap), for
every partition of the tokens into deltas:

* `StreamTypes`, `ChunksAreContiguous`, `FinalChunkIsUnique`: `[]TypeOK`,
  `[]Contiguous`, `[]OneFinalChunk`. The three are inductive
  together (`StreamInv`): that a chunk is not empty needs the positive chunk
  sizes of the type invariant, and that the final one reaches the last token
  needs the chunks never to run ahead of the tokens. Two lemmas about
  `emitOneChunk` serve live emission, drain loop and final marker alike.
* `SpeechIsVocoded`: `[]VocodedSpeech`, with and without an echo of the prompt.
  `EchoInv` strengthens it: the tokens skipped and those collected are functions
  of the number received, which makes the partition into deltas irrelevant.

`WorkerClientsProofs`, from `ClientsAssumption` (pipes that hold a line), for any
number of runs, chunks and log lines and any faults:

* `AudioStaysWhole`, `NoChildLeftBehind`: `[]AudioIsWhole`, `[]ChildrenReaped`.
  The invariant follows the smoke script and the MOSS driver stage by stage:
  before `ready` the pipe holds noise and at most one `ready`, as its last line
  (`StartUp`); between requests nothing is under way (`Silent`); during one, the
  audio collected followed by the chunks in the pipe is what the worker has
  produced (`Flow`).

`SequentialProofs` has the parts that run one step at a time.

The lane manager with its callers, from `LaneSizes` (the constructor's check),
`NoOwnerIsNoOwner` and `KvLengthsAreInts`:

* `PartitionsStayApart`, `LanesAreOwned`, `RefusalMeansFull`. `Custody` makes the
  table and what the callers were told agree both ways; a refusal then means a
  full partition by counting, since owners and lanes in use correspond one to
  one.

Artifacts and bundles, from `ArtifactsAssumption`, `BundleAssumption` and
`CompanionsUndeclared` (the companions of an anchor are not required engines,
as `_bundle_engine_paths` says), with kills after any step:

* `DeploysAreSound`, `InventoryMatchesStage`: `[]DeploySound`,
  `[]InventoryOfStage`. `StageInv` and `CompareInv` are the loop invariants of the
  packager and of the comparison of digests.
* `PublishedIsTrue`: `[]BundlePublished`, for any number of hosts and runs, whatever
  files the builds before left. `BuildInv` is the build: of the specs it has been
  through, all but one are `Whole` (there, with their companions, of one build),
  and of that one what the script has written is of this build; it needs that an
  engine travels with one anchor only. `PackInv` says what of this a run may
  rely on when it packs: that every anchor is there, and, if it built them,
  that they are whole. `DescribeInv` is the loop over the ONNX files.

Gates and contract, from `GatesAssumption`, `StreamingAssumption` (at least one
case, prompt and latency run; latencies and gates are whole milliseconds) and
`PathAssumption` (`sys.path` is a list):

* `GatesAreSound`, `ReportsAreHonest`: `[]GateSound`, `[]ReportHonest`, for any
  number of cases, runs and trials. `JudgeInv`: between synthesis and
  transcription a case's audio (here, or the container's copy) is this run's,
  and while the status is PASS every case behind the loop was heard.
  `ReportInv`: the running gate has not written its report. `ListsInv`: the
  benchmark's lists and its trials agree position by position.
* `ContractIsStrict`: `[]OkMeansConforming`. The four groups of requirements are
  shown to cover every defect, and a step is reached only without the defects of
  the steps before it.
* `VerdictIsComplete`, `VerdictIsHonest`: `[]VerdictCovers`, `[]VerdictHonest`.
  `sorted(xs, n)` is defined by counting: fewer than `n` values are below it and
  at least `n` are not above it. Such a value exists, because the least bound that
  `n` values keep to is one of the values. Interpolation only adds to the lower of
  its two values, so a percentile within a gate leaves at least the share of
  runs up to the lower one within it.
* `ProductAppIsImported`: `[]ProductAppWins`. The app's directory comes first
  whatever is kept of the old path behind it.

`CountingLemmas` has what several proofs need: induction over the naturals in a
form the provers can use (a set of naturals that has an element has a least
one, so a claim is proved by looking at the least number it fails for), that a
recursive function over an interval exists and obeys its equation, and what
`Picked` returns: its length, its elements, how it behaves on `s \o t`.

`Code2WavProofs`, for every network, every number of code frames and every way
of cutting them:

* `StreamingIsOffline`, `EmittedIsAPrefix`, `StatesStayAligned`:
  `[]StreamedIsOffline`, `[]EmittedIsPrefix`, `[]StatesAligned`. For each kind of
  block, what it keeps and how much it has put out behind `m` samples are given
  in closed form, as functions of `m` alone: a convolution keeps the last `pad`
  samples (`Hist`); attention keeps the keys of the last window (`IsPast`); a
  transposed convolution keeps the sums of all inputs so far (`EmitState`), the
  export only those of its pending tail (`PendingOf`), and has emitted the
  samples that no later input reaches (`EmittedBy`). One lemma per kind and
  version of the step says that a chunk of `c` samples leads from the form at
  `m` to the form at `m + c` and puts out the samples between. For the transposed
  convolution this is `ChunkAdds`: the inputs that reach a sample split into
  those before the chunk and those in it, so no tap is lost or added twice at a
  border. `StreamInv` carries the forms through the blocks (`BlockInv`: what
  entered the block, what it keeps, what it has put out, what waits on the
  residual path) and, for the export, through the list of states (`ExportInv`:
  state `j` is the form of the block that place `j` was declared for).
* `WeightsGoByPlace`: `[]WeightsByPlace`, for every list of initializers in whatever
  order. `WeightsInv` says it stage by stage: after the direct names, the MatMul
  and the Exp initializers. Where each tensor goes is all the script determines:
  of two initializers of one shape in the wrong order it says that each gets the
  other's, and no theorem claims otherwise. That the key lists are in the order of
  the forward pass is a fact about one network; `WeightsInPlace` checks it on the
  instance of `MCSynthesis`.

`StackAssumption` is what these proofs take of a network. Kernels reach over the
stride by exactly the right trim (`right_pad` of the imported layer is
`kernel - stride`), which is what the stable end `next_input_offset * stride -
left_pad` and the pending state of `right_pad` samples are written for. Residual paths are not nested,
hold no transposed convolution and do not start the network (`ConvNeXt` blocks
and residual units do neither). The exported network starts with a padded
convolution and the transformer, its windows hold at least two keys, and its
transposed convolutions trim nothing on the left, which `forward` takes for
granted. The codes give at least one sample. The two gates cut their codes
exactly; the reference's probes may be given sizes that do not cover them, and then
raise. `WeightAssumption`: the initializers are a list, and a parameter is found
by name or by place, not both. TLC evaluates both assumptions on the instance
of `MCSynthesis`.

Only model-checked, and why:

* the liveness properties (`IdleReclaimed`, `RequestsEnd`, `WorkerGone`,
  `ClientEnds`, `Answered`) and the violations: fairness and `~>` are out of the
  prover's reach;
* `MeaningKept`: the meaning of a graph is a term built by recursion over its
  nodes, and the tools rewrite the graph with folds; its proof would be an
  induction over terms for each tool;
* `WeightsInPlace`: it compares the key lists with the graph order of one network.

## Plan

1. Composition of WorkerIO with a worker that has slots: `Concurrency` against
   `max_slots`, `pool_saturated` as an error event.
2. `TtsStreamingWorker` and its slot pool (patches 0022, 0028-0030), with the
   Spark worker refining one abstract request pool, and a proof of that
   refinement from `SparkInv`; then MOSS (0041).
3. `VadSplit` (boundaries against a reference), `PrefixRollback`
   (`computePrefix`, warm-up hops).

## Not modelled

* Qwen3 TTS streaming worker and MOSS worker: only patches against a tree that
  is not in the repository; the Spark worker has the same slot pool.
* C++ Code2Wav runner: device buffers around the graph whose states `Code2Wav`
  models; CUDA kernels, TensorRT plugins, mel extraction and WAV encoding
  (numeric).
* VAD splitter and streaming-prefix rollback: functions of audio frames and of
  the tokenizer's output without state of their own.
* Engine build, download and export scripts, overlay build and release checks,
  container start-up: argument parsing around one external call each.
* In what is modelled: rounding, tolerances and figures (RMS, similarity
  ratios), external data files of ONNX models, stub packages and
  `export_onnx` of the export script, scenarios D, E and G of
  `test_streaming_worker.py`, which the release gate does not run, and the
  ASR worker's experimental session and delta paths, which are behind flags
  that are off in the builds described.
