# SAPIENT in TLA+

SAPIENT runs language, speech, vision and robot-action models on small devices:
a Rust workspace with CPU, Metal and wgpu backends, an IR with its passes, a
model hub, decoder, audio and vision engines, a generation layer, a command
line, an OpenAI-compatible server and mobile bindings. This directory holds TLA+
models of it, the TLC runs that check them and TLAPS proofs of what matters
most. Two kinds of code are modelled: the parts where things happen at the same
time, out of order or half way, as state machines; and the algorithms whose
indices, layouts and orders a test hardly reaches, as operators that are checked
against what they should compute.

    tlc -workers 2 -config SpinPoolSafety.cfg SpinPool      # check a run
    tlapm SpinPoolProofs.tla                                # check the proofs

`PROJECT.json` lists the runs, maps definitions to the source lines they
stand for (a one-line helper whose lines another definition of its module stands for
has no entry of its own), and names the hazards each property is for.

## 1. Inventory

| Component | Source (crates/) | State | Operations | What makes it correct |
|---|---|---|---|---|
| Spin pool | sapient-backends/cpu/src/spinpool.rs | generation, op slot, four counters, parked workers | `run`, `worker_loop`, `execute_blocks` | each chunk called once, no torn or dead op, `run` returns |
| Asynchronous VLA control | sapient-generate/src/vla_async.rs | action queue, step, `pending`, latencies; worker thread | `tick`, `merge`, `trigger`, drop | actions in order of steps, no stall when avoidable |
| Generation pipeline | sapient-generate/src/pipeline.rs | engine mutex, `last_prompt` | generate, stream, raw generate, embed, reset | reusing a prefix is invisible |
| Forward engines | sapient-models/src/forward, gguf_weights.rs, weights.rs | KV cache per layer | forward, all logits, hidden states, reset, truncate | a call answers as a pass over all held tokens would; the weights are the file's |
| Speculative decoding | sapient-generate/src/speculative.rs | two KV caches, `SpecState`, stream cursor | prefill, round, emit | same distribution as plain decoding, same text |
| Live speech-to-text, spoken turn | sapient-generate/src/converse.rs, sapient-cli/src/main.rs | snapshot channel, transcript, fed/done counts; sentence queue | `feed`, `settle`, `reset`, worker; `respond_streaming` | a transcript belongs to its utterance; what is heard is the reply |
| Voice activity | sapient-audio/src/vad.rs | speech/silence, frame counters | `push`, `finalize` | utterances within their limits |
| Model server | sapient-cli/src/server.rs | five LRU caches, load lock, semaphore, pidfile | lookup, load, evict, admit, disconnect, acquire the lock | bounds kept, nothing loaded twice, no permit lost, one server |
| Batch executor | sapient-scheduler/src | queue, window, response map | submit, form batch, flush, run | every request is answered, in order |
| Thermal governor | sapient-backends/cpu/src/thermal.rs | target thread count, last sample | `sample`, `tick` | one sample per interval, bounds kept |
| Buffer pool | sapient-backends/cpu/src/pool.rs | free buffers, byte counter | acquire, release, evict | counter exact, bound kept |
| Mobile session | sapient-ffi/src/lib.rs | history | chat, stream, cancel, reset | history is a conversation |
| CPU kernels | sapient-backends/cpu/src/kernels | - | quantised dot products, matmul plans, attention, rope, norms, convolutions | each weight once, each output once, from its own rows |
| GPU kernels | sapient-backends/wgpu/src | shared arrays of a workgroup | uploads, matmul and embedding shaders, reductions | no barrier missing, no lane lost |
| IR and executor of graphs | sapient-ir, sapient-runtime, sapient-io/src/onnx.rs, cpu/src/backend.rs | graph, its order, values | import, sort, infer shapes, fold, fuse, remove, execute | the value of the file's graph, before and after the passes |
| Vision, speech and action engines | sapient-models/src/forward (whisper, siglip, smolvla), sapient-generate/src/vla.rs | KV caches of the decoder | encode, decode, predict, continue | the network, on both devices, over any calls |
| Model hub | sapient-hub/src | the cache on disk, download tasks | list, choose, download, retry, clean up | a load ends with whole files or an error |
| Self-update | sapient-cli/src/update.rs | binary, backup, shader library, staging directory | check, download, verify, install | a machine keeps a binary that runs |
| Tokenizers, chat templates, sampler, mel features, Kokoro and Snac, UI, telemetry, SDKs | the rest | - | string processing, numerics, I/O | not modelled (section 6) |

How they interact. The server's handlers are futures; they find or load a
pipeline in a cache (loading goes through the hub), wait for a permit and start
a blocking thread that locks the pipeline's engine for a whole generation. The
pipeline tells the engine which prefix of its KV cache to keep; the speculative
pipeline holds two engines and rolls both back. An engine's CPU kernels call
`SpinPool::run` through the matmul plans, so two pipelines are two publishers of
one pool, and each matmul asks the thermal governor how many threads to use. The
voice loop feeds growing snapshots through a channel to a transcriber thread and
waits for it on a condition variable; the answer goes to a synthesizer task one
sentence at a time. The robot loop exchanges requests and replies with its worker
over two channels and never blocks on it. Downloads are tasks that outlive the
future that started them and share the cache directory with other processes.

What is hard: lock-free hand-off with non-atomic data behind it (spin pool);
replies that arrive late, while the state they were computed from has moved on
(VLA control, live transcription); two records of one thing under different
locks (prefix cache); rollback of two caches after speculation; futures dropped
at any await with guards in hand (server); a process killed between two file
operations (hub, update); a kernel written five times for five instruction sets;
a checkpoint that is renamed, permuted, fused and sharded before an engine reads
it. `PROJECT.json` lists 40 such hazards at their lines.

## 2. Modules

| Module | Models | Used by |
|---|---|---|
| `ParallelFor` | what `SpinPool::run` promises: an abstract parallel loop | refined by `SpinPool` |
| `SpinPool` | the pool, one step per access to a shared atomic | `SpinPoolProofs` |
| `VlaAsync` | `AsyncActions` and its worker thread | `MCVlaAsync`, and with it `VlaAsyncProofs` |
| `PrefixCache` | calls on one pipeline, `last_prompt` and the engine's KV cache | `CacheProofs`, `MCPrefixCache` |
| `Speculative` | one speculative request, both callers, with stream emission; plain streams and calls | `SpeculativeProofs`, `MCSpeculative` |
| `LiveStt` | microphone loop, `EnergyVad`, `LiveStt` and its worker, composed | `LiveSttProofs` |
| `ModelServer` | model caches, load lock, semaphore, disconnects | `ModelServerProofs`, `MCModelServer`, `Components` |
| `Executor` | both batch schedulers, `run_async`, response map, panics, shutdown | `ComponentsProofs`, `Components` |
| `Converse` | one turn of `respond_streaming`, the sentence chunker | `ComponentsProofs`, `Components` |
| `ChatSession` | `LlmSession`: turns and resets of several threads | `ComponentsProofs`, `Components` |
| `ServeLock` | the pidfile | `ComponentsProofs`, `Components` |
| `Thermal` | the governor, one step per access to an atomic | `ComponentsProofs`, `Components` |
| `BufferPool` | `PoolAllocator` with its evictions | `ComponentsProofs`, `Components` |
| `WorkgroupReduce` | lanes of one workgroup between barriers | `ComponentsProofs`, `Components` |
| `KvCache` | what an engine promises the pipeline | refined by `ForwardEngines` |
| `ForwardEngines` | the KV caches and calls of five engines | `CacheProofs`, `Components` |
| `ModelHub` | downloads of a model into the shared cache | `ComponentsProofs`, `Components` |
| `SelfUpdate` | `sapient update` | `ComponentsProofs`, `Components` |
| `QuantLayout`, `QuantKernels` | block formats; the dot products over them | `GpuKernels`, `MCComponents` |
| `MatmulPlan` | which task writes which output of a matmul | `ComponentsProofs`, `Components`, `GpuKernels` |
| `GpuKernels` | wgpu uploads, matmuls, embeddings, cache appends | `MCComponents` |
| `TensorLayout` | heads, rotary positions, cache rows, attention's reads | `MCComponents` |
| `MixtureOfExperts` | routing and batched experts | `MCComponents` |
| `WeightNames` | from checkpoints and GGUF files to engine slots | `MCComponents` |
| `EngineChoice` | which engine and which device a model runs on | `ComponentsProofs`, `Components` |
| `CpuTensors` | dense tensors and the graph backend's float kernels | `IrGraph` |
| `IrGraph` | graphs, passes, execution, ONNX import, batch merge | `MCComponents`, `MCIrGraph` |
| `LayerGraphs` | the layers of every decoder, as expressions | `PerceptionEngines`, `MCComponents` |
| `PerceptionEngines` | Whisper (CPU, wgpu) and its transcription, SigLIP, SmolVLA and its pipeline | `MCComponents` |
| `ModelCatalog` | configs, GGUF metadata, file and tokenizer choice, names | `MCComponents` |
| `Components` | the components that share no state, side by side | `MCComponents`, `ComponentsProofs` |
| `MC...` | constants, symmetry and compositions of the runs | |
| `DataLemmas` | lemmas about sets of numbers, finite sums and flattened sequences | the proof modules |

Operators whose name contains `_` followed by a word and whose comment begins
with "Mutant" are seeded bugs: `PROJECT.json` pairs each with the property that
catches it. They are used by no specification.

### State machines

**SpinPool.** Every load, store or read-modify-write of a shared atomic is an
action; the op slot is a plain cell and is written and copied in two steps, so a
torn copy can be expressed. A thread's `pc` is its place in `run` or
`worker_loop`. `local[t]` is the copy of the op a thread works on, `calls` and
`runs` are history. The SeqCst accesses are sequentially consistent in the
model. One load on the path is weaker and matters: the Acquire load of a worker
that is about to wait may return the generation before the latest bump, since the
publisher's read of `parked` and that load form a store-buffer pattern in which
the load is not SeqCst. `StaleRecheck` allows it. `SpinPoolLive` sets it: a
worker may then sleep through an op, and `run` returns all the same, because the
publisher claims the blocks itself. `NoLostWakeup`, a matter of performance and
not of correctness, is checked without it.

**VlaAsync.** A tick is the steps of `tick`: receive and merge every reply, ask
if the queue is at the trigger, execute. Rows are merged one at a time, as the
loop does. An action is known by the step it is for and by the plan (request) and
row it came from. Inference latency in ticks is chosen when the worker takes a
request; failures of the policy, of `observe` and panics are choices.
`latency_ticks` is cut to its last five entries, all that `trigger` reads.

**PrefixCache.** `kv` is the sequence of tokens whose keys and values the engine
holds. Kinds of call: `stream` (`generate_stream_with_config`), `call`
(`generate_from_tokens_with_config`), `raw` (`generate_stream` and
`generate_token_ids_streaming`, which reset and forget), `embed`, `reset`
(`reset_cache`, which forgets after it released the engine). The constants choose
the engine: `Slides` for the CPU engine's window, FALSE for the GPU engine that
fails when full; `CanTruncate` FALSE for Gemma 3 and MLX, which reset.

**Speculative.** Logits are represented by the context they were computed from,
so that "judged with exactly the tokens before it" is an equation of sequences.
Acceptance and sampling are open choices: the model covers every random outcome.
The same module has the reply of the plain pipeline as a function of the tokens that
are sampled: `StreamReply` is the loop of a stream with what it sends and what it
holds back, `CallReply` the call, over bytes, so that a character of three or four
bytes may be spelled by two tokens. `PlainIsOneReply` compares the two.

**LiveStt.** Audio is counted in frames. The detector's decisions about energy are
open, its counters are exact. A snapshot and a transcript carry the number of
their utterance, which the code does not have: it is what the properties are
about.

**ModelServer.** A request goes through the awaits of its handler. `Leave` is the
end of the future by return or by drop: guards are released. An inference in a
blocking thread survives its handler (`Abandon`). Kinds differ in the order of
permit and load (transcriptions take the permit first) and in who holds the
permit. `held` names the copy a request uses by the request that loaded it, so a
second copy of a model is visible (`OneCopy`).

**Executor.** The channel, the scheduler's queue, the batch under execution and
what has run are four sequences of requests; the window is a Boolean that only
the passing of time changes. A panic of `execute_batch` ends the batch and
leaves its senders in the response map; shutdown flushes what is queued.

**Converse, ChatSession.** A reply is the words 1, 2, ...; where the chunker cuts
is open. The worker's failure, its panic and the end of a stream race the
caller. A chat turn copies the history, generates under the engine's lock and
commits both its messages under the history's lock; a turn that lost the race
is committed all the same, and what is checked is that the history stays a
sequence of whole turns. The chunker itself is a function, `Push`, over a text of a few
kinds of characters: whatever the pieces in which the text arrives, the chunks are
the text (`ChunksAreTheText`) and differ from it in whitespace only.

**ServeLock, Thermal, BufferPool.** `acquire` is two steps, a read and a write;
a crash leaves the file. Each atomic access of `tick` and `sample` is a step; the
clock advances between any two. The pool's eviction loop is a step per buffer.

**WorkgroupReduce.** The lanes of a workgroup run at their own pace between
barriers; a partial sum is a bag of atoms, so that an addend lost, stale or added
twice shows. The loop of `layer_norm.wgsl` over two reductions that reuse one
array is modelled with all its barriers.

**KvCache and ForwardEngines.** A slot of a layer's cache holds the position its
key was turned to and the row it came from; a row is the term of what its query
saw. `KvCache` says what a caller may rely on: `Extend` (as one pass over all
tokens), `Slide` (the oldest tokens leave and the last row still sees the
others, though not at their true distances), `Fresh`, `Truncate`, `Refuse`.
`ForwardEngines` has the operations of the CPU engines, Gemma 3, the wgpu engine
and the Metal graph with their chunking, growth, windows and failures, and
implements `KvCache` under a refinement mapping (`EngineKeepsPromise`).

**ModelHub.** A download's files are got by tasks that survive their process's
future; `hf-hub` (external) downloads under a lock of its own into a part file
that it renames. Outages, kills and clean-ups of the cache may come between any
two steps. **SelfUpdate.** Every file operation is a step that may fail or be the
last; the library is copied in two halves.

### Algorithms

**Names for numbers.** No weight is computed. In `QuantLayout` a weight is the
bit fields it is read from; in `QuantKernels` a kernel is a function from its
loop indices and lanes to the products it accumulates, compared with the set of
all products it must add; in `MatmulPlan` a plan is the set of writes of one
call. The float kernels are sums over the elements that `MatmulPlan` has them visit.
The one thing computed there is the value of an F16 weight, as its three bit fields:
for all of them, `NeonF16` is compared with `half`'s conversion. Further, in `TensorLayout` an element is its name, `<<position, head, component>>`;
in `WeightNames` a tensor is the rows of the checkpoint it is made of. `IrGraph`
computes with integers, with what is not linear left as the record of what it
reads.

**Layers as expressions.** `LayerGraphs` gives, for each engine, the expression
that its code evaluates for a layer, with folded residuals and gates unfolded,
and a reference decoder written once for each family; the two must be equal for
a token and a chunk, with a cache and without. `PerceptionEngines` does the same
row by row: Whisper's encoder and decoder are driven by scripts of calls in any
order on both devices; SigLIP runs tiled, in int8 and whole; SmolVLA is compared
with a reference that keeps the padding and masks it. Flow matching is computed
in integers, scaled by the number of steps; image coordinates are rationals.
Transcription is a function from what the logits prefer to a transcript: the
timestamp rules say which tokens are on offer, the windows follow the timestamps,
beams are compared with all transcripts there are (`SpeechBecomesText`).

**What the code says of itself.** Some of the equalities hold with exceptions,
which the definitions name: a GGUF gemma file is read with activation silu, Qwen's
`num_experts` is not looked for, a GGUF `qwen2moe` is unknown (`ModelCatalog`);
Phi on wgpu and Gemma 3 on any GPU run on the CPU without a word, and dense Gemma
and GLM are sent by Auto to a wgpu engine that refuses them (`Degrades` and
`Misrouted`, EngineChoice); the graphs of `architectures/` draw a Mixtral that is
right for one expert only, a Qwen and a Bert that add something else
(`GraphsDrawTheDecoder`). Metal's attention
takes the first elements of a cache's buffer for a view of it: right for packed caches
(a head dimension that is a multiple of 32, the ones it is sent), for one head and for
a full cache (`TensorsLineUp`).

## 3. Runs

| Run | Properties | Size |
|---|---|---|
| SpinPoolSafety | `NoTornCopy CtxLive NoLostWakeup`, refinement `ImplementsLoop` | 2 workers, 2 publishers with a run each of up to 3 chunks in blocks of 2 |
| SpinPoolLive | `RunReturns` | 1 worker, 2 publishers with two runs of up to 2 chunks |
| VlaAsyncControl | `QueueAligned AutoNeverStalls`, `ExecutesInOrder RobotKeepsMoving DropReturns` | two instances: chunks of 6, automatic threshold, latency 1..3; chunks of 3, threshold 3, latency 0..5, failures and panics |
| PrefixCacheSafety | `CacheIsRecorded ReuseIsSafe` | 2 callers, 2 tokens, prompts of up to 3, replies of up to 2, window 5 |
| PrefixCacheSlides | `ReuseIsInvisible` is violated | window 3 |
| SpeculativeSafety | `CachesMatch InOwnContext ReplyWellCut` | K = 3, 5 new tokens, 3 tokens, stop sequences of 2 and 3; plain streams: every sequence of 5 tokens, clients that leave after any piece |
| SpeculativeStream | `SentIsReply` is violated | K = 2, 4 new tokens |
| LiveSttSafety | `SnapshotsAccounted PunctualIsOwn`, `SettleAnswered` | 3 utterances of up to 6 frames, a snapshot every 2 |
| LiveSttStale | `NothingStale` is violated | the same |
| ModelServerAdmission | `InferencesBounded` is violated | 3 requests, kinds that release early |
| GraphOutputs | `OutputsComputed` is violated | graphs of up to three operators |
| Components | the eighteen invariants and four temporal properties below | see below |

### The run of the components

`Components` holds every component that shares no state with the others, and
`MCComponents` gives it values. Its variable `part` is picked by the initial state, and only the component it names
takes steps; the properties of the others hold of their initial states. The run
is the union of twelve small ones and shows for each of them:

| `part` | Property | Bounds |
|---|---|---|
| server | `CacheSound OneCopy`, `EveryoneIsAnswered` | 3 requests of 2 kinds, models of 1 and 3 bytes, budget 3, 1 permit |
| executor | `ExecutedInOrder QueueDrains` | 3 requests, batches of 2, both schedulers |
| converse | `SpeaksTheReply`, `EveryoneIsAnswered` | replies of up to 4 words |
| session | `HistoryOfWholeTurns` | 3 turns, 1 reset |
| lock | `OneServer` | 4 processes |
| thermal | `SampledInTime` | 2 callers, 3 cores, interval 2, clock up to 4 |
| pool | `PoolSound` | 4 buffers of 1, 1, 2 and 4 bytes, capacity 3 |
| reduce | `ReductionsExact` | 4 lanes, 2 passes, three kernels |
| engine | `EngineKeepsPromise` (refinement) | 2 layers, window 2, cache of 3, chunks of up to 4, 5 tokens fed, five engines |
| hub | `ModelIsWhole`, `EveryoneIsAnswered` | 1 process with its abandoned tasks, 2 shards, one outage, one kill, one clean-up |
| update | `UpdateIsWhole` | 2 updates, three systems, with and without a GPU |
| kernels | `KernelsAccumulate PlansWriteEachCellOnce TensorsLineUp WeightsAreTheCheckpoint EngineIsAsAsked GraphsCompute ModelsAreKnown EnginesComputeTheDecoder` | bounded inputs, evaluated once |

The requests of the server differ only in what they ask for, so `Demand` orders
them: one order of each three demands is enough. `ModelHub` with two processes
that load at the same time (no retries, kills or clean-ups) has 613 thousand states
and no error; it is not part of the run because of its length.

The algorithms are evaluated in one state each: two blocks per row, groups of four
rows, calls of the matmuls (`MCCalls`) with up to 11 activation rows, up to 40 weight
rows and every combination of threads, tasks, panels and blocks that changes a plan, dot
products of up to 40 elements; heads 1 to 3 and head
dimensions 2 to 6; graphs of two operators in every arrangement; every binary, machine,
model and request for the choice of an engine.

### Why the bounds are enough

*SpinPool*: the hand-off hazards are between a late worker and the next op, so two
ops by two publishers and two workers reach them; three chunks in blocks of two
give a full and a short block. The proofs remove the bounds. *VlaAsync*: chunks of
three with latencies up to five contain replies that are entirely stale, partly
stale and on time, with the queue empty or not; the automatic instance needs
latencies up to half a chunk, the five-entry memory and more than two chunks of steps.
*PrefixCache*: prompts of three over two tokens share zero to three tokens; the window
of 5 is exactly the longest context, so only a failure can make it fall short.
*Speculative*: K = 3 drafts and 5 new tokens put the limit in the middle of the second
burst, the stop sequences span bursts and share their beginning; a character split over
two tokens has three bytes, as many as U+FFFD, or four. *Chunker*: texts of up to four
characters, a minimum of 2 and a maximum of 3, in all ways to cut them into pieces.
*Transcription*: transcripts of three tokens hold a pair of timestamps with text
between, before or after; windows of 6 units over up to 9, advancing by less than the
minimum to more than the maximum; beams of one to one more than the vocabulary. *LiveStt*: an
utterance is long enough for three snapshots. *Model server*: three requests are a
holder, a waiter and a late comer; one model fills the budget, so any two evict.
*Lock*: two that overlap, a stale file and a late comer. *Engines*: a cache of 3 and
chunks of 4 reach every way of being full: exactly, by one, and by a chunk that is
longer than the cache; two layers distinguish what a layer holds from what it was
computed from. *Hub*: two shards are the least that can be half there.
*Kernels*: two blocks per row tell the block's own offset from the row's; all leftovers
of 4, 8 and 16 occur. The theorems about plans and the choice of an engine hold without them.

Symmetry is used in the safety run of PrefixCache (callers, tokens), never with a
liveness property. Deadlock is checked
in every run but VlaAsyncControl, where the controller is gone at the end, and GraphOutputs,
where execution ends. Request, utterance and token counts are bounded by guards named
in the modules' CONSTANTS comments; a run at its bound stutters in an explicit action
(`Done`, `Closed`, `AllDone`, `Stay`) where the program is finished.

Type invariants, and invariants that are steps of a proof (`ExactlyOnce`,
`CoverageTrue`, `QueueNeverReset`, `PermitsConserved`, `WindowCoversQueue`, the
inductive invariants), are proved and not repeated in a run.

### What the violation runs show

* **PrefixCacheSlides.** When a context outgrows the CPU engine's window the cache
  keeps the last positions, `last_prompt` all tokens, and `truncate_cache(p)` the
  first `p` positions: the next call with a common prefix reuses positions of other
  tokens. With the GPU engine the cache cannot slide; it fails instead
  (`wgpu KV cache full`), and `generate_from_tokens` returns through `?` without
  recording or forgetting, against what `forget_cached_prefix` (pipeline.rs:986-991)
  asks of every such path. The cache then holds the failed call's tokens and
  `last_prompt` the previous call's, so `CacheIsRecorded` is false there too: put
  `"call"` in `FailingKinds` (or set `Window = 3`) in PrefixCacheSafety and TLC
  refutes it in 12 and 14 states. PrefixCacheSafety leaves that one path out; it
  includes the failures of streams, which record what they have, and of raw
  generations, which forget first.
* **SpeculativeStream.** The Eos and stop branches leave the loop without advancing
  `emitted`; the final flush sends their text again, with the stop marker. And
  `safe_emit_end` never holds back a whole text, so that the beginning of a stop
  sequence that opens the reply has been sent when its end comes.
* **LiveSttStale.** A pass that is in flight when `settle` gives up lands after
  `reset`; an utterance that is not much longer is answered by the previous one's
  words. The same happens without any timeout when the detector discards an
  utterance that was fed already, as the loop resets only after a finalized one.
* **ModelServerAdmission.** The permit is a local of the handler's future (or of the
  task that relays a stream), the inference runs in `spawn_blocking` and cannot be
  cancelled: a disconnect returns the permit and a second inference starts beside it.
* **GraphOutputs.** `mark_output` adds an output node without an edge, so the
  topological order puts it before the operator it names, and `execute` finds no value
  for it. (`GraphsCompute` compares the values of the operators themselves.)

Three hazards have no property that holds, because the code does not guard against
them: the failure of a call in mid-reply (above), the verification of drafts on the
MLX engine, and the user turn that stays in the history when the model fails.

Some faults are exceptions in a property that holds otherwise, where they are named:

* a plain stream drops the text it holds back when Eos comes, which the call returns
  (`PlainIsOneReply`);
* a character whose bytes are split over two tokens is lost from a stream if it has
  three bytes; if it has four the slice `text[emitted..]` is not at a character's
  boundary and the stream panics, with the engine's lock held
  (`SplitCharactersBreakStreams`). A Whisper stream loses it too (`StreamedIsText`);
* the sentence chunker cuts after one byte of whitespace, and panics where the
  whitespace has more (`ChunksAreTheText`);
* what Whisper says after the last timestamp of a window is transcribed again: the
  next window begins at that timestamp, which the comment takes for the end of the last
  segment (`SaidOnce`). The rule for a closed pair of timestamps never applies, as
  the rule before it forbids pairs (`TimestampsInOrder`);
* a negative F16 weight is read by the NEON dot product of a single row
  (`dot_f32_x_f16_neon`, for rows of 64 weights or more on aarch64) as 2^32 times its value: the
  comment promises `((exp16 + 112) << 23)` for normal values (matmul.rs:249), but `exp16` is the
  number shifted right by 10 without a mask (278), and its sixth bit is the sign
  (`SignReachesExponent`). Zero, which the comment does not count among what it ignores (284),
  has the exponent 0 + 112 and becomes 2^-15. `KernelsAccumulate` compares all normal numbers;
  the test of F16 weights (1689) has positive ones in rows of two, for which another path is taken.

## 4. Fairness

* SpinPool: the operating system schedules every thread (weak fairness per thread
  over all its steps). A notifier competes for the sleep mutex with workers that
  may wake spuriously for ever; that it gets the mutex in the end is strong fairness
  of `NotifyAll`. Nothing forces a publisher to call `run` or a worker to wake
  spuriously.
* VlaAsync: the control loop calls `tick` again (that is its contract), the worker
  thread runs, a join returns once the worker ended. Drop is never forced, nor is a failure
  to end: `RobotKeepsMoving` excepts a robot whose policy or camera fails for ever, and one whose
  worker thread has died, which nothing replaces.
* LiveStt: the worker's steps and the loop's `Send` and `Settle`. The speaker is under no
  fairness, and timeouts are not used to make `SettleAnswered` true.
* Model server: each request's own steps are weakly fair. tokio's mutex and
  semaphore are FIFO; with requests that are made once, weak fairness per request is
  enough, since a waiter can be overtaken only finitely often. Disconnects and load
  failures are not forced.
* Executor: the task is polled again and its blocking thread runs (`RunAsync`), and
  time passes (`Elapse`). Clients are under no fairness: a batch must not need a
  further request to be formed.
* Converse: the worker's steps and the pipeline's; neither a failure nor a cancellation
  is forced.
* ModelHub: a process that loads goes on, as every wait in it is bounded by a timeout
  of the HTTP client. Nothing forces the Hub to come back.

## 5. Proofs

Eight modules hold the proofs; `PROJECT.json` lists their main theorems. None uses the bounds of the runs. The
assumptions are the named ones on constants, which TLC evaluates in the runs, and those stated in a theorem:
`NoCallFails`, `SteadyLatencies`, `~StaleRecheck`, `ChunksAreTheText`, `PlainIsOneReply`,
`SplitCharactersBreakStreams` and two of LiveStt, each explained below. The instance of the run that checks
the same property satisfies them.

**SpinPool.** `IndInv` is the conjunction of the type invariant and:
*PublishMutex* (who holds `publish` is where in `run`), *Parity* (the
generation is odd exactly while the holder rewrites), *ActiveCount* and
*ParkedCount* (the two counters are cardinalities of the sets of threads at the
places in between), *Validated* (a worker past its check has the current, even
generation, so the publisher's drain sees it), *Copies* (its copy is the published op), *Ranges* (a claimed block
belongs to the op), *Progress* and *CallsMade* (claimed, completed and called
chunks add up). It is needed because none of the four properties is inductive: that
a torn copy cannot happen depends on `active` being an exact count, and that `run`
returns only after every call on `completed` being the number of completed blocks,
which holds only if no worker of an earlier op still contributes. The proof has one
lemma per action. From it: `NoTornCopy`, `CtxLive`, `ExactlyOnce`, and the
refinement of `ParallelFor`, whose mapping sends a claim, a copy or a park to a
stutter and a call of the closure to `Call`.

`WakeupsNotLost` is about a second invariant, `WakeInv`: a worker that holds the sleep
mutex and has looked at the generation, or waits already, saw it as it is, or it was
published since and the publisher has not yet passed the place where it reads `parked`
and notifies. It needs the count of parked workers from `IndInv`, or the
publisher would find nobody to wake. The hypothesis `~StaleRecheck` says that the
Acquire load before the wait sees the latest bump; without it the theorem is false, which
is why `SpinPoolLive` checks that `run` returns nevertheless.

**VlaAsync.** `IndInv` relates the queue, the request in flight and the merge under
way: at most one request is anywhere (channel, worker, reply), it was made at a
step that was executed or is next, and the rows merged so far leave the queue
consecutive. `QueueAligned`, `OneInFlight`, `QueueNeverReset` and `ExecutesInOrder`
follow. `QueueNeverReset` is the comment "Cannot happen with one request in flight"
in `merge`. `TriggerCovers` is the arithmetic of `auto_trigger`: whenever
asynchronous execution can work (latency at most half a chunk) the threshold is at
least the latency.

`NoStall` says that it is used rightly. `StallInv` is, while the controller runs,
*AgesInv* (how long the request in flight has been under way, never more than the
longest latency), *LatenciesInv* (the remembered latencies lie between the least and
the longest), *DistanceInv* (the request was made that many steps ago) and *SupplyInv*
(the queue lasts as long as the request may still take). The last is the point: a
request is made when the queue falls to a threshold computed from *earlier*
latencies, so the latency it will have may exceed what was expected by no more than the
threshold's margin. `SteadyLatencies` states just that, and that inference neither
fails nor panics; the comment of the code promises no more. `AutomaticNeverStalls`
carries it to `MCVlaAsync`.

**PrefixCache.** `IInv` follows a call through the engine's mutex: before the reuse
`last_prompt` and the cache agree as far as both go (*Agree*), after it the cache
holds the shared prefix of the prompt, and so on to the record. The cache may be longer
than the record (embeddings, raw generations) or shorter; what never happens is
that both have a token at one position and differ. `common_prefix_len` is shown to return a prefix
that both share, from its definition as the longest.
Hypothesis `NoCallFails`: no `generate_from_tokens` fails half-way (the finding of
section 3), and the context fits the window, or the engine fails instead of sliding
and no such call is made. All of `PrefixCacheSafety` satisfies it, and the two
hypotheses are the two ways in which the code breaks the property.

**ForwardEngines.** `EnginesKeepTheirPromise` is the refinement of `KvCache`: what a
chunked, windowed, growing or ring-like cache holds after any sequence of calls is what one
forward pass over the tokens would have left. `EngineInv` says that all layers have one length;
that the caches an engine allocates keep their size and the others are as long as what they
hold (*CachesFit*); and that the live slots are the rows of that pass (*HoldsRows*) or,
once the window of a CPU engine has slid, slots of the same tokens whose keys no longer stand
at their own positions (*SlidAway*). It is not inductive without the length: a rollback that
left one layer longer would be read by the next call. The proof is an induction over
layers (a row of layer l is the term of what its query sees of layer l - 1), and within
one over the columns of the chunk, the mask and the window of each engine being shown
to admit just the positions that the definition of a row does. `EngineAssumption` asks
for positive sizes only.

**Speculative.** `IInv` has a case for each step of a round: what each cache holds
beyond the committed tokens (*DraftInv*, *VerifyInv*, *JudgeInv*), which logits were
computed from which context, and that the accepted drafts are the beginning of what is
committed. From it `CachesMatch` and `InOwnContext`, for every depth K, vocabulary,
prompt and length, and for every outcome of sampling and acceptance; and
`RepliesEndInTime`, the part of `ReplyWellCut` about the limit and Eos.
`StreamsAreWellCut` has the rest, what the client has been sent. `StreamInv`: while a
stream runs no stop sequence is complete, the cursor `emitted` is not past a place where one
may have begun, and what was sent is the text up to the cursor. The next token can then
complete only a sequence of which nothing, or only its opening at the very start of the
reply, was sent. That the text only grows with each token, until Eos, is a lemma about flattened
sequences. The two parts of `ReplyWellCut` about bytes, `PlainIsOneReply` and
`SplitCharactersBreakStreams`, have no variables: they say what two functions of all short
replies return, TLC evaluates them in the run, and the theorem assumes them.

**LiveStt.** `SnapshotsAccounted` counts what waits in the channel, what was skipped
and the pass in flight; it needs that a worker that died leaves one uncounted.
`CoverageTrue` says that the transcript is of the samples it claims, `CoverageGrows`
that it is only replaced by a longer one. `PunctualIsOwn` needs two more parts:
*Orderly* (while no settle has given up, everything in the channel, in the worker
and in the transcript is of the current utterance, the newest last) and *Cadence*
(the loop feeds often enough that less than `FeedEvery` frames are missing). It
assumes `EnterFrames < MaxFrames` and `FeedEvery <= Tolerance`, which the constants
of main.rs satisfy.

**ModelServer.** `IndInv` is the type invariant, *LockInv* (who is between the
second lookup and the end of a load holds the load lock), *PermitInv* (who has a
permit is not waiting for one), `PermitsConserved` (free permits and holders add up),
`LoadsAbsent` (only what is not resident is loaded) and `UsesResident` (a request
holds the resident copy of its model unless that one was evicted). Conservation
is a cardinality argument over the holders, residency an argument on positions in the
LRU sequence, where eviction and touch keep entries distinct. `CachesAreSound`
adds *BooksInv*: the byte counter of a cache is the sum over its entries. An eviction
takes the oldest entry off the sequence, a hit moves one from the middle to the end, and
the sum is the same or less by one size; for this the sum over the sequence is first
turned into a sum over the set of its models, since no model is in it twice.

**Executor.** What was executed, the batch, the queue and the channel, one after
the other, only grow at the end; every action moves a piece of one to the
next, so the proof is associativity of concatenation and what SubSeq splits.
`WindowCoversQueue`: the dynamic scheduler never holds a request without a window.

**Converse.** The words heard, those in the audio channel, in the worker's mouth, in the channel of sentences
and in the chunker, one after the other, are the words streamed (*Whole*), as long as the worker lives;
*Places* says which of them are empty when. The two channels hold sequences of words, so the proof is about
flattening: a library function with a recursive table inside, of which the lemmas show what the last and the
first element contribute. `RepliesAreSpoken` adds the chunker itself: `SpeaksTheReply` also says
`ChunksAreTheText`, a formula without variables about all short texts, which TLC evaluates in the run; the
theorem assumes it.

**ChatSession.** The history is the system prompt and then pairs. A turn that
commits appends a pair at once, under the lock; a reset leaves the prompt. `HistoryOfWholeTurns`
counts the pairs and says whose they are: never a failed turn's, and every one's that began
after the last reset and committed.

**ServeLock.** As long as no two checks overlap, at most one process is between its
check and its end, and the file is that of the one that serves. The condition is part
of the property (`overlap`): two servers that start together both pass the check,
and the code does not exclude it.

**SelfUpdate.** `UpInv` says for each place between two file operations that the
installed binary runs, or, while the new one is copied over it on Windows, the backup
(*Runs*); that the binary of the archive is what was staged, renamed and installed
(*HandedOn*); and that the library is of the binary's version unless an update was stopped
(*LibraryFollows*). An update that fails in mid-install leaves pieces the next one
starts from, so the invariant has to hold of every state a first update can leave.

**ModelHub.** `HubInv`: a load has, of the files it chose, the first ones in their order,
each of them whole in the cache unless someone cleared it; a task that says it is done left
its shard there; and a load that chose while the Hub could be reached, or found all
shards in the cache, chose all of them. For the last the i-th cached shard is shown to be
the i-th shard as soon as there are as many. What the tasks of a load that was killed or gave
up do beside the others cannot take a whole shard away, which is why it is inductive
without saying who holds which lock.

**Thermal.** The compare-exchange of `tick` lets one caller in per interval: `IndInv`
bounds what each caller has read by the last sample and the clock, and keeps the target in
its range through loads and stores that are not one step.

**BufferPool.** `PoolInv`: each entry is in the bucket of its size, no buffer has two
(*OneEach*), and the counter is the sum of the sizes of the buffers in the pool: buckets
are sequences, an eviction takes the oldest of all buckets, an acquire the newest of
one. That a buffer is in one place only makes the sum over entries a sum over a set.

**WorkgroupReduce.** `RedInv` says that lanes are in the same phase between two barriers
or in consecutive ones, and that the later phase is a function of the earlier (*LockStep*):
a workgroup is in step although no lane waits for another inside a phase. The rest is
about each lane alone (*LaneInv*): what its own cell of `partial` holds in each phase,
also after it dropped out of the tree, because the lane below may still load it. A sum read
late is right since the one cell that is read so is overwritten only behind another barrier.
The tree is a lemma on bags: the residues modulo twice the stride are those modulo the
stride, halved. For attention, what lane 0 left in `sh_*` is determined by its phase
(*ShAt*). The one assumption is that the workgroup has a power of two lanes, as the shaders do.

**MatmulPlan.** `EveryPlanWritesOnce`: each cell has one writer and gets the product of
its own two rows, in every plan and for every shape, thread count, chunk, panel and
block. A plan is shown to be a grid of boxes, each a set of weight rows against a set of
activation rows (*IsBox*, *IsGrid*). A box fills its part of the output because its loops
number the rows, each once: steps of a width with their lanes, then the leftovers
(*Numbers*), moved to where the box begins. The grid fills the output because the chunks, panels
and blocks divide the rows (*Divides*), by the arithmetic of a rounded-up division and of
`Floor4`. With i8mm the argument is made twice, as out_t is filled first and then transposed.
The dot products are the same loops over one row. `CallAssumption` asks for shapes and numbers of threads that are
positive.

**EngineChoice.** `EveryEngineIsAsAsked` goes through the machines, models and requests by
case, but for the split of layers, which is arithmetic: as many layers as the budget, two
thirds of it, divided by the size of one, rounded down (*LayersFit*). What a split may answer
(*SplitIs*), what the CPU engine becomes of it (*EngineIs*), and what a user gets
(*Answers*) are the three steps.

**DataLemmas.** Finite sums, flattened sequences, and the i-th element of a set of numbers
are recursive functions. Induction on them is replaced by a minimal counterexample: the set of
numbers for which the claim fails has a least element unless it is empty, by the
well-foundedness of the naturals. The lemmas are stated once and cited by the proofs about the
pool, the caches, the prefix, the controller, the words of a reply and the text of a stream.

Only model-checked: liveness everywhere (fairness and ENABLED are outside the
prover); and all algorithms but the plans and the choice of an engine, many of which
are recursive functions over data, where a proof for every input would be an induction
that the provers at hand cannot instantiate.

## 6. What is not modelled

* **Numerics.** Rounding and the order of float additions, SIMD forms of elementwise
  functions, quantisation error, MLX's and Metal's own kernels, mel features, Kokoro
  and Snac: they have no state and no index that TLC could tell right from wrong
  without computing the numbers.
* **Sampling.** Temperature, top-k and top-p are open choices; the state machines
  cover every outcome.
* **Strings and bytes.** Tokenization, chat templates, the parsing of GGUF,
  safetensors, protobuf and JSON (what a parsed file means is modelled: block
  formats, names, graphs, metadata), HTTP, prompts, the terminal.
* **Transcription.** The detection of the language and the failure of an engine in the
  middle of a file, which ends a stream without a word.
* **Devices.** wgpu and Metal set-up, submission and limits, macOS QoS pinning, what
  sensors return.
* **Telemetry, SDKs, examples, vendored code.** Nothing depends on them.
* In the modelled parts: memory orderings weaker than stated above; `simulate()`;
  draft-model selection; push-to-talk and wake words; the sessions of the mobile
  bindings other than `LlmSession`; two updates that run at the same time and share
  the staging directory of their tag; a Hub that answers with other content than before; the
  operators of a graph that `Dispatch` does not name (they fail there) and the optional weight
  and bias of its norms and convolutions.

## 7. Where to go next

The layouts of `TensorLayout` could be proved for every shape as the plans of `MatmulPlan`
are: they are sequences indexed by arithmetic. Two updates at a time are the state machine that
is left.
