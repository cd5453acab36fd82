# Bhaskera in TLA+

Bhaskera fine-tunes and serves large (mixture-of-experts) language models: a
Ray Train training loop with sharded checkpoints, an inference engine with
speculative decoding and compressed KV caches, and COLOSSUS, a runtime that
keeps only a few experts of every MoE layer in GPU memory.  This directory
models the parts of it whose correctness depends on the order of steps or on
how decisions combine: which expert is in which slot, what an asynchronous copy
still has to do, what is on disk when a process stops, which settings reach a
worker, which labels a row gets.  Tensor arithmetic and presentation are left
out.

## 1. Inventory

Paths are relative to `src/src/bhaskera/`.

| Component | State | Operations | Interacts with | What makes it correct |
|---|---|---|---|---|
| Dynamic expert cache (`inference/colossus/dynamic_cache.py`, `hook.py`) | per layer: `expert_to_slot`, `slot_to_expert`, `free_slots`, `slot_lru`, prefetch events | `forward`, `async_prefetch`, `pre_attention_prefetch`, `reset_state`, `warmup*` | model forward, hooks, CUDA streams | tables consistent; every routed expert resident when it runs; no expert the batch needs is evicted by the batch |
| CUDA streams and transfer buffers (same file) | pinned staging area, receive buffers, operations queued on the default and the prefetch streams | `_load_to_slot`, `synchronize_prefetch` | host thread, GPU | a computation reads the weights of its own expert |
| Tiered expert placement (`placement.py`) | LRU list of slots, expert/slot maps, CPU cache | `forward`, streaming mode | remote cache, CUDA streams | no slot is lost; an expert is bound while it runs |
| Huge-model serving (`serve.py`) | batch of sequences, KV cache, finished flags | prefill in chunks, lockstep decode | placement | a finished sequence stays finished; decode stops |
| Remote tensor cache (`remote.py`) | files of a disk cache and their hashes, the byte count, the LRU list | `get_tensor`, eviction, restart | HTTP, file system, placement | no partial file is served; a miss leaves what is listed within the cap |
| Expert offload (`offload.py`) | device and forward of every expert | profile, offload, restore, JIT fetch | engine, hook | what runs is on the GPU; after a request all is as before |
| Column directory (`directory.py`, used by `hook.py`) | columns with timestamps | `predict_for`, `execute_expert_sa` | predictor, SA-FFN | LRU per expert; each column computed once |
| DeepSeek server (`rudra/serve_deepseek_colossus.py`) | slots of a layer, staged experts, host views, batch books | forward in four ways of moving weights, serving with audit and probes | two streams, thread pool | tables consistent, products exact, every row served and counted |
| Planner and probes (`feasibility.py`, `hwprobe.py`, `inspector.py`, `loading.py`) | - | describe, probe, plan | `bhaskera-infer` | what fits is recommended; more hardware never hurts |
| Checkpointing (`distributed/checkpoint.py`, `trainer/checkpointing.py`) | directories, shard files, `.complete`, the list of best checkpoints | save, prune, resume | all ranks, file system, training loop | a complete checkpoint holds the shards of one save; what should be kept is kept; a restart continues where the last complete save left off |
| Training loop (`trainer/loop.py`, `trainer/moe.py`) | step, accumulation window, epoch, gradients, schedule | micro-step, optimizer step, skip, epoch end, save | checkpointing, data, loggers, all ranks | a step is one window; all ranks make the same collective calls; the router loss punishes collapse |
| Model preparation (`models/`, `introspect.py`, `distributed/wrap.py`, `fsdp.py`, `ddp.py`, `activation_ckpt.py`) | adapters, types, trainable parameters, shard groups | load, introspect, adapt, freeze, wrap, checkpoint | worker | routers keep still, shard groups are uniform and nested |
| Configuration and launch (`config.py`, `launcher/train.py`, `worker.py`) | the driver's configuration, what a worker parsed | load, override, send, restart | Ray | workers run the driver's configuration |
| Data (`data/`) | source, rendered texts, rows | choose, render, tokenize, label | tokenizer, Ray Data | rows hold the text, labels follow it |
| Tokenized data cache (`data/tokenize.py`) | directories by hash, parquet files, metadata | tokenize, reuse, overwrite, load | several processes, file system | a directory that is reused is complete and as asked |
| Metric loggers (`utils/loggers/`) | bounded queue, worker thread | log, flush, finish | training loop, tracking store | order kept; losses counted; `finish` ends the worker |
| Statistics (`utils/throughput.py`, `system_stats.py`) | step clock, window of times, last counters | tick, collect | loop, loggers | what is reported covers the interval it claims |
| Dashboard control (`launcher/dashboard.py`) | PID file, saved configuration, processes | start, stop, status | file system, process table | the recorded process is the UI, there is no second |
| Speculative decoding (`inference/speculative.py`) | draft and target KV caches, accepted tokens | draft, verify, accept, resample | engine | output is the target's own; its cache is the accepted prefix |
| KV caches (`inference/kv_cache.py`) | recent window, compressed store, decoded history; or one buffer per layer | update, reset | the library's attention layers, engine | what attention sees is the sequence of appended columns |
| Inference engine (`inference/engine.py`, `sampling.py`, `param2.py`) | cache object kept over requests; output, finished rows; loaded backend; stream decoder | load, generate, stream, sample | decoding, caches, vLLM | a request depends on nothing an earlier one left; stops at EOS or the limit; stream and parser agree |
| vLLM patches (`inference/vllm_turboquant.py`) | the shared `Attention.forward`, buffers per layer | patch, unpatch, append, read back | engines of one process | every call reaches the real forward |
| Command line of inference (`launcher/infer.py`) | flags over YAML, plan, tier | plan, apply, serve | planner, serving, engine | what is served is what was decided |

`PROJECT.json` lists them with what each module leaves out.

Behaviours that are hard:

* **Concurrency without locks.**  The GPU executes what the host has enqueued
  later, and two streams run against each other over shared buffers; worker
  threads share queues and dictionaries with the thread that fills them.
* **Reuse of few slots.**  A slot is evicted while something may still need it:
  only LRU order, a `locked_slots` set or an event keeps this safe.
* **Crashes.**  A save is a series of file operations by several ranks with
  barriers between them; a cache directory is written file by file; a restart
  sees any prefix of it.
* **Boundaries.**  Queues, slot tables, windows and byte budgets at their limit.
* **Combinations.**  A model is prepared by name matching over trees the code
  has never seen; a setting passes a file, a command line, a dictionary and a
  second parse before it has an effect.

`PROJECT.json` lists the hazards one by one, each at the line where it bites
and with the properties that watch it.

## 2. Modules

```
SlotOrder ── ExpertSlots ── ExpertCache ── ExpertDma        Checkpoint
    │                            │                               │
    │                         LruSet (implemented)        CheckpointStore
    │                                                      (implemented)
    ├── TieredMoE ── HugeServe           KvCache ──┐
    │                                    Speculative ┴─ Engine ─┐
    └── SlotStream                       EngineFront ───────────┼─ MCEngine
                                         ThinkingStream ────────┤
                                         Sampling ──────────────┘

TrainLoop, MetricLogger, Telemetry ── MCTraining
SlotStream, DeepSeekServe, HostViews, ColumnDirectory,
RemoteCache, ExpertOffload ── MCServing
ModelProfile ── TrainSetup ─┐
LaunchConfig, DataRows,     ├─ MCSetup
RouterLoss, TokenCache,     │
Dashboard,                  │
ServePlanner ─ InferCommand ┘

SlotOrderProofs ─┬─ ExpertDmaProofs (over ExpertDma, which extends ExpertCache)
                 ├─ TieredMoEProofs (over HugeServe)
                 ├─ EngineProofs (over MCEngine)
                 ├─ TrainingProofs (over MCTraining)
                 ├─ ServingProofs (over MCServing)
                 └─ SetupProofs (over MCSetup)
CheckpointProofs (over Checkpoint)
```

A line to the right is EXTENDS; a module of proofs extends the modules it proves
about.  An MC module gives the sets a `.cfg` cannot write; a `.cfg` gives the
rest and never replaces a definition, and where it can give all of them
(`ExpertCache`, `ExpertDma`, `HugeServe`) there is no MC module.  Four MC modules
hold several components that share no state: their variable `part`, chosen in
the initial state, says which one a behaviour exercises, and the others keep one
state.  A property of such a module is a conjunction of the named properties of
the components.  Operators named `Faulty...` are what a plausible slip would
make of the definition that follows; no specification uses them, they show that
a property notices.

| Module | Models | State | Actions |
|---|---|---|---|
| `SlotOrder` | a Python list used as LRU order of slots (`remove` + `append`) | - | operators |
| `ExpertSlots` | the four tables of one `DynamicMoELayerWrapper` | one record per layer, fields named as in the code | operators `Touched`, `Bound`, `Loaded`, `WarmTable` |
| `ExpertCache` | the host thread: `ColossusMoEHook` and the wrappers of all layers | `cache`, `host` (a program counter with the locals of the running loop) | one per loop iteration or branch of `pre_attention_prefetch`, `async_prefetch`, `forward`, `reset_state`, `warmup_from_prefill` |
| `ExpertDma` | the same with the device: current stream, one prefetch stream per wrapper, staging areas, receive buffers, events, blocking reads | adds `queue`, `buffer`, `held`, `pending`, `waiting` | every action of `ExpertCache` with what it enqueues and waits for, and `StreamStep` |
| `LruSet` | what a cache of the experts promises: per owner, a bounded set in LRU order | `order`, `pinned` | use, insert, clear |
| `TieredMoE` | `TieredMoEWrapper` (placement.py): slots or CPU placement, streaming mode, CPU cache | `tier`, `fifo`, `host`, `current`, `dma`, `held`, and `option`, what was fixed at construction | one per loop iteration of `forward`; `CopyWeights` and `Compute` for the two streams; `ReadFails` for a raising read |
| `HugeServe` | `serve_huge_moe`: chunked prefill and lockstep decode, calling the layers of `TieredMoE` | `serve`, `generated`, `past`, `produced` | `Prefill`, `ChunkDone`, `PrefillDone`, `Decode`, `DecodeDone` |
| `Checkpoint` | all ranks of a job saving, pruning, stopping, restarting | directories file by file (`final`, `tmp`), and what a restart forgets | one per file operation and per barrier |
| `CheckpointStore` | what one who goes by `.complete` may rely on | `store` | a checkpoint appears whole, or goes |
| `KvCache` | one layer's `_LayerKVStore` and `StaticKVCache` buffer | - | operators `Stored`, `CompressChunk`, `ResetStore`, `StaticWritten` |
| `Speculative` | `SpeculativeDecoder` in the loop of `_generate_speculative` | `spec` (a program counter with the locals of loop and step), `generated`, `past` | `EnterStep`, one per token drafted or judged, `Verify`, `AppendStep`, `SpecEnd` |
| `Engine` | `_HFBackend.generate`: requests one after the other, on the decoder or the library's loop, one cache object | `config`, `kv`, `request`, `seen` | `Generate`, `GenerateSpeculative`, one per layer update, `Raise`, `SampleNext`, `Stop` |
| `EngineFront` | several `InferenceEngine`s of one process: backends, devices, the patch of vLLM's shared `Attention`, buffers per layer, Param2 requests, statistics | `backend`, `forward`, `original`, `patched`, `buffers`, `call` | `Load`, `Repatch`, `Decode`, `GetAll`, `ResetBuffers`, `FrontGenerate`, `GenerateParam2`, `Stats` |
| `ThinkingStream` | `Param2StreamDecoder` beside `parse_model_output` | `fullIds`, `buffer`, `inside`, `events` | one per token, end |
| `Sampling` | temperature, top-k, nucleus and greedy choice as functions | - | operators |
| `TrainLoop` | `train` and `_run_epoch` of all ranks | `at`, `step`, `micro`, `sync`, `grads`, `reduced`, `schedule`, ... per rank | one per branch of the loop; collectives are joint actions |
| `MetricLogger` | `MLflowLogger` behind `MultiLogger`: trainer and worker thread | `queue`, `trainer`, `worker`, `taken`, `written`, `failed`, `dropped`, `stop` | one per access to the queue, per write and per upload |
| `Telemetry` | the loggers that are built, `ThroughputTracker`, the rates of the collectors | `times`, `lastT`, `prev`, `clock` and the history of true intervals | step, skip, epoch start, report, collect |
| `RemoteCache` | `RemoteShardHandles`, `TieredHandles` | files, hashes, lists on disk and in memory, byte count | one per file operation of `get_tensor` and of eviction; fetches, crash, restart |
| `ExpertOffload` | `ExpertOffloadManager` as the engine drives it | `place`, `depth` and `original` of every expert | profile, offload, fetch, raise, restore |
| `ColumnDirectory` | the directory under `predict_for` and `execute_expert_sa` | `stamps`, `resident`, `plan`, `split` | `CommitPlan`, `PredictFor`, `ExecuteExpert` |
| `SlotStream` | `DeepSeekColossusMoEWrapper`: one layer with prefetch, hot columns, block store, compressed store | tables, parts of each slot, queues of the two streams | one per step of the host and per stream operation |
| `DeepSeekServe` | `serve_deepseek`: devices, prefill, decode, audit, routing log, probes | `generated`, `newCounts`, `audit`, `compared`, ... | one per forward and per probe |
| `HostViews` | the column views and CPU experts several threads fetch | `views`, `fifo`, `fetch` | one per operation on dictionary or list |
| `ModelProfile` | `introspect_model` over a module tree | - | operators |
| `TrainSetup` | `worker_fn` up to the optimizer | `adapters`, `adapterType`, `trainable`, `shards`, `recomputed` | load, adapt, freeze, shard or DDP, recompute |
| `LaunchConfig` | `bhaskera-train`: from file and command line to the workers | `config`, `received`, `world`, `partitions` | load, override, connect, partition, send, fail and restart |
| `DataRows` | builder, format, tokenizer actor | `origin`, `texts`, `rows` | read, render, tokenize |
| `RouterLoss` | load-balancing loss and loads of `trainer/moe.py`, in integers | `outputs`: what was asked and the answer | compute both for a forward |
| `TokenCache` | `persist_tokenized`, `load_tokenized` in several processes | directories with their files (whole or torn), metadata, what was printed | one per file operation; death at any of them |
| `Dashboard` | `start`, `stop`, `status`, the training banner | processes, PID file, saved port, shells | one per look at or change of file and process table |
| `ServePlanner` | checkpoint description, hardware probe, feasibility in integers | - | operators |
| `InferCommand` | `bhaskera-infer` from flags to what serves | `flags`, `serving`, `result`, `served` | plan, apply, choose the tier, serve by tier or engine |
| `SlotOrderProofs`, `ExpertDmaProofs`, `TieredMoEProofs`, `CheckpointProofs`, `TrainingProofs`, `ServingProofs`, `EngineProofs`, `SetupProofs` | lemmas and theorems, section 4 | | |

### How the models correspond to the code

*Expert cache.*  Slots and experts count from 1, and `None` (0) is "not a key".
One sequence is served (batch size 1).  What the router picks and what the
predictor predicts are arbitrary sets, since the predictor only moves data;
the predictor's and the wrapper's `top_k` are one constant.  `Hooked` says
whether the pre-attention hook is given the hidden states as a positional
tensor; otherwise forward's own prefetch for one token runs.  A reset, a warmup
or the next pass begins when the caller has read the previous output.  Counters,
timing events and the shadow mode are left out: nothing reads them back.

*Device.*  A stream is a queue of operations executed in order, and streams are
independent (PyTorch's side streams do not synchronize with the default
stream).  A load with `non_blocking=False` is a fill and a copy in the stream
and a host that waits until the half that comes from host memory is over; a
pinned `non_blocking=True` load changes the staging area at once, since the
host copies into it, and enqueues the copy out of it.  Whatever reads a tensor
back (`tolist`, `item`, `cpu`) waits for the current stream.

*Tiered placement.*  The capacity (0 is the streaming mode with one slot and
bindings that are cleared after each forward) and the placement are chosen in
the initial state, so one run covers all of them.  The three tensors of an
expert move as one.  A copy from pageable memory may or may not block the host;
the model lets it lag, and since nothing orders the transfer stream behind the
computations the order is the same either way.  `wait_stream` is an event in
the transfer queue and a wait for it in the current queue.  `zssr_prefetch` is
called by nothing in the package and is left out, so `_prefetched` stays empty.
A failing read ends serving: the exception leaves `serve_huge_moe`.

*Serving.*  A token is Eos or not, a column is one position of all rows.  A
model either returns `past_key_values` or not.  The teacher-forced audit, the
ledger and the routing log do not influence the loop.

*Decoding.*  Tokens are words or Eos; whether a row accepts a draft, and what is
sampled, is arbitrary, except that a row that rejects its token resamples
another one: `max(0, p_target - p_draft)` has no weight there.  `past` holds what
each model was fed, in order, which is all its own cache can depend on.  The
tokenizer is assumed to have an Eos.

*KV caches.*  A column is its position and whether it went through the
quantizer.  A storage row is written, read back and shaped as in the code,
growth by `max(Extra, rows / 2)` included; the batch shape is the batch size
(heads are fixed by the model).  An update that raises ends its request, and
the next request resets the cache and meets the storage it left.  The library's
`generate()` is external: all layers in order, the whole prompt first, then one
column at a time.

*Checkpoints.*  One optimizer step per epoch and a save after each.  A directory
is the set of its files with the run that wrote each; `rmtree` removes one file
at a time in any order.  Barriers release all ranks at once, after which they
interleave.  Torch DCP is one shard per rank, its own collectives left out.  A
rank whose `rmtree` finds a file gone (every rank cleans a leftover `.tmp`,
since the trainer leaves the argument `rank` at 0) fails and waits for a
restart.  `Restart` may happen anywhere, at most `MaxRuns` - 1 times.
`save_and_prune` of distributed/checkpoint.py is not called by the trainer and
is left out.

*Engines and vLLM.*  A patcher is named after its engine; the class attribute
`Attention.forward` and what each patcher found there make a chain.  Whether
vLLM starts is arbitrary, and a constructor that fails leaves its patch.  Only
installations whose attention layers know their index are instantiated; without
an index every call gets a layer of its own.

*Stream and sampler.*  A text is a sequence of symbols, a tag is two of them,
so that a tokenizer may split it.  Probabilities are integer weights, a
temperature is the inverse of an integer, `top_p` a number of hundredths.

*Training loop.*  Ray splits the rows evenly, so all ranks have shards of one
length.  Whether a gradient norm is finite is arbitrary but equal on all ranks:
it is a norm of reduced gradients.  A gradient is the number of micro-batches in
it; backward reduces where synchronisation is on.

*Logger.*  Trainer and worker interleave between any two accesses to the queue.
A write may raise, and may take longer than the ten seconds `finish` waits,
which the model lets end at any time.  Whatever a `try` swallows is an alternative of its action.

*Statistics.*  The clock is a number any event may find advanced; the history
variables hold what truly happened.

*Remote cache.*  A `get_tensor` is cut at each change of the directory, and the
process can die between them.  A file is whole, a part or bad (as long as it
should be, but other bytes).  Hashes are checked when fetched, lengths when
found, as in the code.

*Offload.*  Only how often a forward is wrapped and where an expert is matters;
which experts a prompt is predicted to need is arbitrary.

*DeepSeek server.*  An expert in a slot has two parts, hot and cold.  Host
waits stand where the code reads a value back; the current stream waits only
where `wait_stream` stands.  The model of the serving loop is the sequence of
tokens it has seen; what it answers is free.  Of the calibration it is kept which
experts have hot blocks (`Calibrated`) and of which one was found (`Indexed`);
weights and energy tables are left out.

*Preparation.*  A model is the sequence of its modules in the order of
`named_modules()`; names that match the code's patterns are listed.  The trees
of the runs are those of a dense model, Mixtral, Qwen2-MoE, DeepSeek and a
hybrid with two classes of layers.

*Configuration.*  A file is abstracted to the form of each section and value
(absent, null, false, value, word), with one field for each way of reading one.
A section that is `0` or an empty string reads like one that is `false`.  Ray is
started here, joined under SLURM, or already connected.

*Data.*  A text is a sequence of turns, a turn a speaker and a content of
tokens.  The chat template is taken to write every turn in order.

*Token cache and dashboard.*  A hash stands for all settings, the metadata for
those that are compared.  A file is opened and later closed: of a run that died it
may be torn.  A number that is not in the table may belong to another process, on every
node; a child that has ended stays in the table until its parent has.

*Planner.*  Sizes are MB, bandwidths MB per ms, throughput hundredths of a token
per second, all integers.

## 3. Runs

Passing runs:

| Run | Instance | Shows |
|---|---|---|
| `expert_cache` | 4 experts, 3 slots, 2 layers (one Mixtral-like), top-2 with prompts that overflow the slots, lookahead 1, warmup of 1 slot; 2.5 million states | `TablesConsistent`: nothing popped, removed or indexed is missing.  `RoutedResident`: no routed expert computes from the zero dummy.  `LoopKeepsItsLoads`: prefetch and warmup loops, which lock nothing, keep what they load.  `ImplementsLru`: four tables behave as one LRU set per layer |
| `dma_columns` | 3 experts, 2 slots, 2 layers, column mode, prefetch by forward itself | `TransfersLossless`: every computation reads its own expert's weights.  `PassesEnd`: host and device do not wait for each other forever |
| `dma_lookahead` | as above, pinned mode, prefetch over all layers, every block Mixtral-like; 7.6 million states | `ArrivedBeforeUse`: no transfer into a slot is left when a computation on it may start.  `EventsCoverTransfers`: the early return of `synchronize_prefetch` skips nothing |
| `checkpoint` | 2 ranks, 3 saves, 3 runs | `SentinelLast`, `ImplementsStore`: `.complete` appears last, on a directory of one save.  `DiskHolds`: in a first run the disk is the list of the best.  `SaveEnds`: no barrier is left waiting unless a rank failed |
| `serve` | 3 experts, 2 layers, 0 to 2 slots, both placements, 2 rows, 3 prompt columns in chunks of 2, 3 new tokens; 1.3 million states | `TiersConsistent`, `FittingStaysResident`, `FittingRunsOwnWeights`, `WeightsArrived` for the layers; `RowsKeepStep` (the cache holds prompt and tokens once each, an ended row is not counted on), `ServeEnds` for the loop |
| `engine` | 2 rows, 2 drafts per step, 3 new tokens; window 2, storage 4, 2 layers, batches of 1 and 2, prompts of 1 and 6; 2 engines on 4 installations; 4 tokens out of 10 kinds; all distributions over up to 3 tokens; 1.5 million states | `UnrejectedReadsOutput`: until a draft is rejected, the target's cache and input are the output.  `SpeculationKeepsBooks`: even afterwards no token of the output is kept from it, and counts, finished rows and the overshoot agree.  `CompressedHolds`: the compressed cache shows every layer the whole sequence, across growth, resets and failed requests.  `EnginesShareAttention`: patches nest, buffers read back, asked drafts are used.  `TextIsAsDrawn`: the nucleus is drawn from, stream and parser agree |
| `training` | 2 ranks, shards of 1, 2, 3, 5 batches, windows of 2, 3 wrappers, resumed or not; queue of 2, 4 steps, artifacts every 2; window and warmup of 2 steps | `StepsAreWindows`: an optimizer step holds exactly one window, reduced once, and the schedule follows.  `StoreTellsAll`: order, newest kept, losses counted.  `MeasuresTell`: step times and rates cover their interval once.  `BothEnd`: all ranks finish; `finish` ends the worker |
| `serving` | 4 experts in 2 slots with prefetch of 3, 2 forwards, four ways of movement; batches of 1 and 2 with chunks of 0 and 2, probes at 1 and 2; 2 threads on views of 1; 2 x 3 columns; 3 tensors under a cap of 5; 2 x 2 experts to offload | `TablesBounded`: tables inverse, nothing lost or above its room.  `DecodeExact`: products meet their own weights.  `EveryRowServed`: audit, counts, drafts and devices.  `WholeAnswers`, `MissLeavesCap`: the disk cache over crashes.  `StrandedOnlyByFailures`: offloads are undone |
| `setup` | 6 model trees times about 500 settings, 5 sections times their forms, 24 clusters; 3 formats, 8 batches; 3 x 3 router logits; about 150 command lines on 24 machines with 3 models; 2 processes over 2 settings; 2 nodes, 2 shells; 2.5 million states | `PreparedModel`: routers still, shard groups of one type, nested.  `LaunchedAsConfigured`: workers run the driver's configuration.  `RowsAreTheText`: labels follow text, splits stay apart.  `RouterLossIsSound`.  `InferenceAsDecided`: plans fit, more hardware never hurts, flags over file.  `FilesTellTruth`: printed data sets are whole, the recorded process is the UI |

Runs that find a disagreement between the code and what the repository says of
it (`PROJECT.json` quotes both under `findings`):

| Run | What happens |
|---|---|
| `dma_staging` | Two misses of one forward share the pinned staging area: the host overwrites it before the first transfer has read it |
| `checkpoint_resume` | The trainer hands one step directory to a function that looks for step directories inside it: training restarts at step 0 |
| `engine_lossless` | After a rejected draft the target's cache still holds it, and every later token is computed behind it |

### Met while modelling

The following follow from the modules or were read on the way; no run is kept
for them.  Four are stated as properties that TLC finds violated when asked:
`PrefetchExact` (SlotStream), `LogStopsWithDecode` (DeepSeekServe),
`TokenizedOnce` (TokenCache), `ExitIsReported` (Dashboard).

* Expert cache: a column-mode receive buffer belongs to slot i of *every* layer,
  so with lookahead a prefetch for the next layer writes into it while a demand
  load is in it (`dynamic_cache.py:122-132`).  In tiered placement, where the
  needed experts do not fit, a slot is overwritten while the computation that
  reads it may still be queued (`placement.py:299-306`).
* Checkpoints: a second, by-step pruning with another limit removes a checkpoint
  the list of the best holds (`trainer/checkpointing.py:47`); a stop while a
  checkpoint is pruned leaves `.complete` beside missing shards (the `Ruin` of
  `CheckpointStore`).  A resume restores no scheduler and starts at epoch 0.
* Serving: the token of the prefill is fed to the model, and counted, but is not
  in the answer (`serve.py:248`).  The static cache, the default of the engine,
  is never advanced, so each decode step overwrites position 0
  (`kv_cache.py:203`).
* Remote cache: `_HubFetch.get` overrides the length check of its base class
  (219-253), so a short answer of the hub is kept.
* Offload: a `generate()` that raises skips `maybe_restore` (`engine.py:382-393`).
* Engine: `max_new_tokens or` and `temperature or` lose a 0; `--device` defaults
  to "auto" and so always overrides the file (`infer.py:165`); `infer` is unbound
  in the tier branch unless `--max-new-tokens` is given (413, 453); bit flags of
  turboquant take effect only if that cache is chosen; `--plan-apply` with ulp1
  overrides an explicit `--exactness-mode bitwise`.
* vLLM: a removal out of order followed by another patch gives a forward that
  calls itself; a constructor that fails after patching leaks the patch; the
  buffers are "memory accounting only" (399-403); `get_all` mixes tokens and
  heads when there is more than one row and head (281-297); statistics after a
  decode raise (439-441).  Param2 on CUDA with vLLM picks vLLM, whose
  `generate_param2` then raises.
* Stream decoder: an opening tag split over tokens is missed in the answer
  branch (302-314), text after a tag in the same token is dropped, an unclosed
  reasoning is thinking for the stream and answer for the parser, and tool calls
  inside reasoning are listed by the parser only.  The nucleus keeps one token
  more when the mass before it is just p (`sampling.py:82`).
* DeepSeek server: a hit on a prefetched whole expert is not waited for (1432);
  a compressed prefetch of more experts than slots empties `slot_lru`; the
  shared pinned triple is overwritten while a copy may read it (203-211); a
  chunked prefill without cache sees only the last chunk; whether the first
  token ends the sequence is not looked at; the routing log goes on in the
  probes.
* Training: `max_grad_skip_steps` is never used.  For routers that emit scores of
  the chosen experts only, the loss is constant (each row of probabilities adds
  up to one), where the comment at `moe.py:207` says that the probability term
  carries the gradient.
* Model preparation: freezing by the keyword "gate" also freezes the `gate_proj`
  adapters of MoE models; automatic targets always include the experts' linear
  layers, so `include_experts` has no effect; `shared_expert_gate` of Qwen2-MoE is
  taken for an expert; in hybrid models experts are taken for decoder layers and
  sharding raises.
* Configuration: `target_modules: auto` as a YAML string becomes a list of
  letters, `bool("false")` is true, `save_dir: null` becomes "None".
* Data: `split="val"` is ignored by builders without the parameter
  (`registry.py:114-120`); a batch without text yields a row whose labels are all
  ignored, so its loss is not a number (`tokenize.py:382-388`).  Running again
  after a crash duplicates rows, and a file the crash tore stays beside the whole ones
  under metadata that are valid: the cache is taken for good (`tokenize.py:139`) and
  reading it raises; the hash of the settings leaves out the data
  path; a crash inside a removal can leave metadata beside missing files; loading
  does not look at the metadata.
* Logger: a batch whose write failed is lost although the queue is said to absorb
  the gap.  Dashboard: overlapping starts orphan a UI; the record is shared by
  nodes; an exited child is a zombie and counts as alive.
* Planner: device memory counts the capacity once instead of per layer
  (`feasibility.py:76`, `infer.py:109-110`); a small GPU can make a CPU plan
  infeasible; slot capacities all have one throughput, so the order of the list
  decides.
* Column directory: a budget of 50 exceeds the 32 slots of an expert;
  `execute_expert_sa` never makes a missed column resident.
* Statistics: a `ray_logger.py` the package names does not exist, and the import
  error is swallowed; two collectors share the last values, so the second one's
  rate covers the instant since the first; the time of a skipped step is charged
  to the next.

### Bounds and fairness

*Why these bounds.*  The cache's cases are: hit, free slot, eviction of an
unlocked slot, everything locked, more routed than slots, one more than fits.
All occur with more experts than slots and at least two slots; three slots make
LRU order matter beyond "the other one".  Two layers are the least that share
buffers, and the last one has no successor; two streams beside the current one
are the least that can disagree.  For checkpoints two ranks race, three saves
exceed both retention limits of the passing run, and three runs let a leftover
of an interrupted *second* run meet a third.  `Keep < KeepSteps` as with the
defaults (2 and 3); the violation run uses the real values.  Serving needs a
chunk that divides the prompt badly (3 by 2), rows that finish at different
times (2), a decode step after a decode step (3 tokens).  The routed set of a
decode call is at most the rows times top-1, so calls fit and overflow 1 slot.
Decoding needs a rejection at the first and at a later draft (2), a second step
after it (3 tokens), a prompt below the window and one that makes the storage
grow (6 columns against window 2 and storage 4; the code's storage is larger
than its token limit, and so is this one), a failed request between two others.

Training needs shards below, at, above and beyond a multiple of the window (1,
2, 3, 5 by 2), a limit of steps that falls inside an epoch (3) and a second
epoch.  The logger's queue of two is full while two more steps are logged; both
artifacts and a step without them occur.  The statistics need a window that is
full and a step after it.  A slot table of two with three prefetched is the
least in which staged experts are evicted by staged ones.  The audit needs a
position after a chunk border, after an end of sequence and behind a teacher's
token (3 new tokens).  The disk cache needs three tensors of which two do not
fit together, one shard with two of them, one tensor without a hash and one read
from the local copy; four calls allow a fetch, an eviction, a crash and a
restart that finds what was left.  Three requests let an offload after a failed
request be followed by a restore.  Two processes and three command lines let one
run die, a second take over and a third read; four dashboard commands a start,
an overlapping start, a stop and a status.  The inputs of `setup` are sets: every
field or section is odd once among ordinary ones, every pair of settings that
one branch reads together occurs.

*Fairness.*  The host thread executes while it has something to execute, so it
is weakly fair while a pass is under way (`Busy`); nothing makes a caller begin
another pass.  Each CUDA stream executes what was enqueued: weak fairness of
each stream by itself.  For checkpoints each rank is weakly fair and so is a
barrier all ranks have reached; `Restart` has no fairness.  In training each
rank and each collective that all have reached is weakly fair.  Trainer
and worker thread of the logger are weakly fair: both run, and a request to the
store ends, if need be with a timeout and an exception.  No property relies on strong fairness.

`CHECK_DEADLOCK FALSE` stands where the program does stop: serving ends, so does
a training job, and so do the command lines of `setup`.

## 4. Theorems

All proofs are for arbitrary constants that satisfy the modules' ASSUMEs: finite
positive numbers of experts, slots, layers, ranks; `TopK` at most the experts;
the types of what `setup` enumerates (`LaunchAssumption`, `DataAssumption`,
`InferAssumption`), where a speaker "other" stands for all names the formats do
not know; layers of a vLLM model counted once, engines not named "vllm"
(`FrontAssumption`); finitely many tensors of at least two bytes, so that a file
can be there in part (`RemoteAssumption`); a share for every token and column, the
shares of a token adding up to one (`LossAssumption`).
Where a theorem needs more, it says so.  The shape is always the same: an
inductive invariant, one lemma per action or group of actions that keeps it, and
a last step that it implies the property.

Of the 40 properties of the runs, 34 are stated by a theorem.

### The order of slots, and folds (`SlotOrderProofs`)

*Lists.*  A sequence without repetition stays one, over the same
elements, when an element moves to the end (`MoveToEndKeeps`) or the head does
(`RotateKeeps`); if the elements of a set stand last in it (`ComeLast`) and its
first element belongs to the set, then every element does (`LastFromFirst`).
Four components hand out the head of such a list and trust that it is nobody's
they still need.  The argument is the same each time: what is needed comes last;
were the head needed, *all* slots would be needed; but there is one expert that
has none yet, so they are fewer: pigeonhole.

*Folds.*  What a fold over a finite set computes is the value, at that set, of a
table over all its subsets that follows the steps of the fold (`FoldTable`,
`SubsetRecursion`); a claim about a fold then is proved like any invariant: for the empty
set, and kept by one more element (`BySubsets`).  From it come the sums:
`SumTable`, `SumsAgree`, `SumsGrow`.  `Ranks`: in a strict order of n elements
exactly m have fewer than m before them.  Concatenation is laid out by the starts of its
pieces (`ConcatEntries`, `FlattenUnfolds`).

### Expert cache (`ExpertDmaProofs`, part 1)

`TypeCorrect` and `TablesAlwaysConsistent` are inductive together: `BoundKeeps`
and `TouchedKeeps` show that each way the code updates a table keeps it.
`RoutedAlwaysResident`: what keeps the second loop of `forward` from evicting an
expert of the batch is that the slots of the experts handled so far are all in
`locked_slots` *and* that there is always a slot outside it.  `ServedLocked`
says so.  `LoopsAlwaysKeepLoads`: the prefetch and warmup loops lock nothing;
`LoopsLast` says that what they have loaded comes last in the list.
`TablesImplementLru` is the step simulation of `LruSet`: every step of the host
uses or inserts one expert in one layer, clears one, or stutters, and an
insertion evicts the oldest expert that is not pinned.  It needs
`LocksReleased`: outside the loops of `forward` nothing is locked.

### The device (`ExpertDmaProofs`, part 2)

`DmaTypeCorrect`, and `DmaImplementsCache`: a step with streams and buffers is a
step of the host or leaves the tables alone, so what is proved about the tables
holds while weights are in flight.

`EventsAlwaysCover`: `synchronize_prefetch` returns early when its list of
events is empty.  `EventsInv` says which streams have drained: of each layer that
no prefetch may be under way for (`MayRun`).

`WeightsAlwaysArrive` assumes `EveryForwardWaits`: all blocks are Mixtral's, or
whatever can be routed behind a prefetch fits into the slots (all experts with
the hook, the `TopK` of one token without it).  The code needs this: a forward
with more experts than slots takes the branch that does not synchronize, and
TLC finds a transfer into a slot that is being read as soon as the assumption
is dropped.  The invariant adds that a computation in the current stream has no
transfer into its slots behind it in any other.

`TransfersAlwaysLossless` assumes `TransfersInTurn`: column mode, and lookahead
only without the hook and only where each forward waits for its layer.  Again
the code needs it; section 3 names the buffer two layers share, and pinned mode
loses transfers by itself (`dma_staging`).  Every stream is a sequence of pairs (a fill of the
receive buffer, a copy out of it), the buffer belongs to one stream at a time
(`InTurn`), and what a slot holds once a stream has run (`Holds`) is what the
tables of the host say.

### Tiered placement and serving (`TieredMoEProofs`)

`TiersAlwaysConsistent`, `FittingAlwaysResident`: there are no locks here; the
code is right because the experts of the running forward have all been moved to
the end of `slot_lru` (`ServedLast`, the argument above).

`TieredTypeCorrect`, `WeightsAlwaysArrived`, `FittingAlwaysRunsOwn`: events are
marks in the transfer queue and waits in the current queue.  `InStep` counts:
the copy a computation depends on has more events behind it than the computation
has waits behind it, so the computation has yet to wait for one of them.  That
nothing overwrites the slot afterwards is not ordered by any event; it holds
because the host reads the routing back first, and so starts no forward while
computations are left (`Settled`).

`ServeImplementsTiers`: serving calls the layers only as `TieredMoE` allows, so
its theorems carry over (`ServingRunsOwnWeights`).  `RowsAlwaysKeepStep`:
`CacheHolds` gives the columns of the cache in each phase, `RowsEnd` ties the
count of a row to its first end of sequence.

### Checkpoints (`CheckpointProofs`)

`SaveInv`: all ranks are between the same two barriers (`OnePhase`), a rank that
saves has a step to save (`StepInRange`), and `.tmp` holds what the ranks of this
run have written so far, but never meta data or a sentinel, which only the
directory rank 0 has renamed gets (`SavedSoFar`).  From it, `SentinelAlwaysLast` and
`DirectoriesImplementStore`: an atomic `replace`, the sentinel, a removal file
by file and a restart at any moment map to the steps of `CheckpointStore`.
`DiskAlwaysHolds` assumes `Keep < KeepSteps`, as the defaults are (2 and 3): with
the opposite order the second pruning removes a checkpoint of the list, which
TLC shows at once.  `ListInOrder` and `DiskFollowsList` follow the list through
a save and its pruning.

### Training (`TrainingProofs`)

`StepsAlwaysWindows`: `WindowOf` says for each place in the loop what a rank has
accumulated and reduced.  That no two ranks wait at different collectives needs
to look ahead: `FromPlace` gives the next collective a rank is bound for as a
function of its place and counters, and `LoopInv` says that all ranks that have
not met yet have the same destination.

`StoreAlwaysTellsAll`, for any size of the queue and any failures of the store:
what is written is older than what the worker has in hand, and that is older
than what waits (`OldestFirst`).  A full queue counts a drop before it makes one;
the invariant counts the same way (`Counted`): in between, the steps nobody has
are one fewer than `dropped` says.  The second put cannot fail since only the
trainer fills the queue (`TwoThreads`), so the newest step is never the lost one.

`MeasuresAlwaysTell`: the window of the tracker is a walk through the history of
step times: each is the distance of two ends of steps, the next begins where it
ends, the last is the latest, and all lie behind the warm-up (`Reaches`), so the
sum telescopes.  Of the counters two collectors share: what was told, together
with what has grown since the last look, is no more than what grew (`CounterInv`);
a reset of a counter is told as nothing.

### Speculative decoding (`EngineProofs`)

`AlwaysUnrejectedReads`: `TargetFollows` gives, for each phase of a step and as
long as no draft was rejected, what the target model has been fed: the output but
for the next input, then the output with the drafts, of which the accepted ones
are a prefix, and at last all of them with one token it has not read.  Appending
the tokens of the step and feeding the last of them restores the first form.
After a rejection it is false; section 3 has the finding.  `BooksAlwaysBalance`,
with rejections too: `LoopCounts` and the lengths of `StepInOrder` bound how far a
step goes beyond the limit.

`SpeculationAlwaysKeepsBooks` adds what holds after rejections.  The code leaves
rejected drafts in the cache of the target model, so what it has been fed is no
longer the output; the output is embedded in it (`Embeds`: there is an increasing
choice of positions).  `TargetMissesNothing` searches with a fold, one column of
the output after the other in what is left; `Searched` takes the earliest match,
and an embedding survives it, so the fold finds all of them.  `OutputRead` says
for each phase which part of the output is embedded.

### Caches of the engine (`EngineProofs`)

`AlwaysCompressedHolds`: a store is its storage with a pointer, a window of exact
columns and the decoded history (`StoreHolds`).  One update either appends to the
window or moves what exceeds it to the storage, which grows in steps; `Written`
follows the chunk row by row.  Between updates the layers before the running one
have the whole sequence and the others what was there before (`GivenOf`,
`KvSees`), and columns come in the order of their positions (`InOrder`).
A reset leaves rows behind the pointer as they were; nobody reads them.

### Engines of one process (`EngineProofs`)

`AlwaysShareAttention`: the forwards are a stack.  The patches that are on form a
sequence in the order they were put on, the class attribute is the last, each
found its predecessor, and the first found vLLM's own (`Stacked`).
Patches come off in the reverse order, as the model has it; section 3 says what
happens otherwise.  A call runs down the stack (`ChainRuns`).  `BufferHolds`: each
layer of a patcher has kept all steps since the last reset, and a concatenation
marked valid is that of all of them.

### Weights of a served model (`ServingProofs`)

The parts of `MCServing` share no state (`OnePartMoves`), so each has an
invariant of its own.

`OnlyFailuresStrand`: an expert no failure has left behind is wrapped once or not
at all, its own forward is kept while it is, and if it is off the device it is
wrapped and on the record by which the request brings it back (`InOrderBut`).

`AnswersAlwaysWhole`: other bytes are kept only where no hash is expected, a part
of them only if the hub sent it, and what a crash has left in part is dropped
before a call touches it (`RemoteInv`).

`MissesAlwaysLeaveCap`, an action property: eviction stops when the *count* of
bytes is within the cap or the list is empty, and the count lives in memory while
the files outlive the process, some of them not listed.  `SpaceInv` says that what
the files take never exceeds the count, but for the file just written, in every
phase of a call and after every restart.

`TablesAlwaysBounded`, for all legal flags.  *Slots*: the tables are inverses,
the list has every slot once unless a compressed prefetch has emptied it, staged
experts own slots bound to nobody, and the experts the loops of `forward` have
behind them come last in the list (`BookInv`).  *Views*: a thread that is to
take one from the list owes it; there are always at least as many on the list
as owed (`EveryoneTakesOne`), so no thread meets an empty list, and when none is
at work no more are left than the cap allows.  *Directory*: a commit touches the
columns of the plan and then the oldest of each expert leave.  By `Ranks`,
as many leave as are too many, and those of the plan, the youngest, last (`OldestLeave`).

`DecodesAlwaysExact`, with the exceptions of the property itself: no pinned
triple, and no prefetch of whole experts, whose hits are not waited for.
`CopyInv` follows the copies: the last one on its way to a part of a resident's
slot brings the resident's weights (`Landing`); those the current stream does
not wait for go to slots bound to nobody (`Waited`); and a product of a fitting
forward has its slot, with no later copy into it, until it runs (`Served`).  A
compressed expert is decoded on the stream that multiplies, so there the order
of launches is enough (`DecodeInv`).

`EveryRowAlwaysServed` assumes of the devices that the second GPU starts at one of
the layers behind the first.  `SequenceHolds` fixes the prompt and, with a
teacher, every token of the answer; `CacheFollows` says how much of the sequence
the cache holds in each stage, so that what an audit entry has seen is a prefix
of it (`AuditHolds`).  `RowHolds` ties a count to the first end of a row while
the others go on, and `DraftHolds` says which position each draft stands for.

### What a job is launched with and trained on (`SetupProofs`)

`AlwaysLaunchedAsConfigured`: a worker parses a dictionary the driver has dumped.
A dumped field is a word, a value or null; the lemma behind the
theorem is that parsing a dump gives the configuration that was dumped, field by field
and form by form (`Kinds`), whatever the file and the overrides were.  The
count of blocks is rounded up to a multiple of the workers (`EvenBlocks`).

`RowsAreAlwaysTheText`: `TextsHold` and `RowsHold` say of each stage what it holds of
the one before.  That the labels of a row are its tokens exactly where it is no padding needs
the layout of a flattened text, cut at the length and padded (`FlattenUnfolds`,
`FlattenIn`); a row that would have no label at all means that no text of the
batch has a token.  The two names of each speaker give one rendering.

### What the routers cost (`SetupProofs`)

`RouterLossAlwaysSound`.  The loss of a layer multiplies, for each column, how many
tokens chose it with the shares all tokens give it.  Counted by pairs
of tokens it is the share token t gives to the columns token s chose
(`ProductsAsShares`, by changing the order of sums, `SumsSwap`).  No k columns have
more of t's shares than the k t chose itself (`TopHeaviest`: what is outside the
choice is below the least inside), and with all rows in descending order (`RankedRow`)
everybody's choice is everybody's: each term of the
double sum grows (`CollapseIsDearest`).  Where the shares are equal every term is
(`EvenCosts`).  The loads are the same counts with ones for shares (`LoadsAreAll`).

### What is planned and served (`SetupProofs`)

`InferenceAlwaysAsDecided`: the planner tries every capacity and tier
(`Ways`), and a fold keeps the list of what fits in the order of speed.  `Leads`: the
first is at least as fast as the others, however the fold got there (`JudgedSoFar`).
That better hardware never hurts is arithmetic on quotients: rounded divisions are
monotone in the bandwidths and antitone in the sizes, and a way that fits still
fits when each of its budgets grows (`WayStillFits`).  It compares machines of which
the same bandwidths were measured; the better one may have a card where the other has
none if the resident part of the model fits on it, and both may hide their memory
(`NoWorse`).  `InferInv` follows flags, file and plan to what is
served.

### Files that outlive a process (`SetupProofs`)

`FilesAlwaysTellTruth`, over two invariants that share nothing.  *Data sets*: a
directory that was printed and in which every removal has been made good has all its
parts as whole files (`DirectoriesHold`).  That is not inductive: a run closes its parts
one by one and another may remove them meanwhile.  So `Writing` says of each part a run
has closed that the run's own file is there, or a whole file of a later run, or that a
later removal was begun (`PartKept`); `Removing`, that who removes has begun a removal and
only unlinks files of earlier runs.  A process that dies between its removal and its last file leaves the
removal in the history `removal`, and no other process takes that one back, because runs
have numbers of their own (`RunsDiffer`).  All files of a directory are of one setting because the key
names everything two settings differ in, which `SettingAssumption` spells out.
*Record of the UI*: while commands follow each other on one node, the UI that
runs is the recorded one, or the one the command at hand has spawned and not
recorded yet; it has ended before another is spawned or the record is cleared
(`OneAfterTheOther`).

### What is only model-checked

* Liveness: `PassesEnd`, `SaveEnds`, `ServeEnds`, `BothEnd`; neither fairness nor
  ENABLED is within reach of the prover.
* `TextIsAsDrawn`: the stream decoder and the parser are recursive over a text,
  which is induction over data, and the nucleus is cut from a sorted list.
* `PreparedModel`: the trees of modules of the runs are a few families, and where
  the adapters and the groups of shards fall depends on the names of their modules; for
  arbitrary trees it is false (section 3: experts taken for layers).

## 5. Not modelled

Arithmetic on weights and activations (quantizers and their codebooks, SA-FFN,
column energies) and the quality of predictions: there the floating-point
values are the question.  Attribute paths of model families (`interface.py`),
loading of weights, construction of the optimizer and autocast are calls into
libraries.  `diagnostics.py`, printing and the ledger have no effect on what is
computed.  Of `src/rudra`, the server is modelled; the benchmark scripts repeat
its parts around a stopwatch, and the batch files submit them.  Not instantiated:
vLLM layers without an index, ranks whose gradient norms differ, shards of
different length, trees of models with a vision tower.

## 6. Plan

1. *(done)* Expert cache, its device, tiered placement with serving,
   checkpoints; their first theorems.
2. *(done)* Decoding: engine, speculative decoding and the KV caches.
3. *(done)* Training loop, logger, statistics; model preparation, configuration,
   data; stores several processes share; the DeepSeek server; planner and
   command line of inference; engines over vLLM, stream decoder, sampler.
4. *(done)* Proofs of every invariant and refinement of the cache, its device,
   tiered placement, serving and checkpoints; of the training loop, its
   logger and its measures; of all parts of `MCServing`; of speculative decoding, the
   compressed cache and the engines over vLLM; of the launch, the rows, the losses of
   the routers, the command line of inference and the files several processes share.
5. Left: a description of the module trees for which `PreparedModel` holds.
6. Composition: the training loop with the file operations of `Checkpoint`
   instead of its one saving step.
