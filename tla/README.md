# DualKV-FlashAttention for RL: specifications, model checking and proofs

The repository joins two code bases.  `flash-attention/` adds the *DualKV* kernels to
FlashAttention: N rollouts of one prompt are packed behind a single copy of the prompt, and the
kernels let every rollout attend to the shared prompt and to itself.  `verl/` is the RL trainer
that uses them: the FSDP actor packs a micro-batch, runs the model, unpacks the log-probs.  Around
the actor, the driver of PPO asks agent loops for rollouts, sends batches to the workers and back,
and saves checkpoints.  Two recipes overlap rollout and training: *one-step-off*, by one batch, and
*fully-async*, where both run freely and meet at parameter synchronizations.

This directory states what these parts promise, checks it with TLC on small instances and, for
packing, Ulysses, the actor's training loop, the kernels, the fully-async recipe (limits, samples,
staleness, and its rounds when it runs on-policy), the checkpoints, the driver, its agent loops and what
it makes of their scores, proves it with TLAPS for every instance.
Paths are relative to `src/`.

    tlc -workers 2 -config MCDualKVActor.cfg MCDualKVActor     # a run
    tlapm DualKVActorProofs.tla                                # a proof

## 1. The system

### 1.1 Components

| Component (code) | State | Operations | Talks to |
|---|---|---|---|
| **DualKV actor** `verl/verl/workers/actor/dp_actor.py` | accumulated gradient, parameters, position in the loops | `compute_log_prob`, `update_policy`, `_forward_micro_batch` (`_compute_prompt_group_sizes`, `_dualkv_repack`, `_dualkv_extract_logprobs`), `_optimizer_step` | called by the trainer through the worker; all ranks meet in FSDP collectives |
| **Attention wrapper** `verl/verl/models/transformers/monkey_patch.py` | none | head repetition, all-to-all, one context call and one DualKV call per group | actor above, kernels below, Ulysses group beside it |
| **Ulysses** `verl/verl/utils/ulysses.py` | slices of tokens or heads per rank | pad, slice, all-to-all, gather, and their backward passes | wrapper, actor |
| **Fused loss** `verl/verl/models/transformers/dense_common.py` | none | rolled labels, shared logits | actor |
| **Forward kernel** `flash_fwd_kernel_dualkv_training.h` and its launch template | one accumulator per CTA, output in global memory | grid, `n_block` loop, masks, epilogue | `flash_api.cpp` |
| **Backward kernels** `flash_bwd_kernel_dualkv_training.h`, `flash_bwd_preprocess_kernel.h` | `dq_accum`, `softmax_d`, context accumulators, decoded rows, all in global memory | dot-do-o, main kernel, the two conversions, the sum over a head group | stream order between kernels, atomics between CTAs |
| **Message queue** `recipe/fully_async_policy/message_queue.py` | a bounded deque | `put_sample` (drops the oldest when full), `get_sample`, `get_queue_size` | rollouter puts, trainer gets |
| **Rollouter** `fully_async_rollouter.py` | pending and cancel queue, active tasks, `paused`, `monitor_loop_trigger`, `running`, `staleness_samples`, one lock | feeder, processor, one task per sample, monitor; remote calls `pause`, `update_param_version`, `resume` | servers, queue, synchronizer |
| **Rollout servers** `vllm_rollout/vllm_async_server.py`, `agent_loop/agent_loop.py` | paused or not, requests in progress | `generate_for_partial`, `cancel`, `resume` | tasks of the rollouter |
| **Async trainer** `fully_async_trainer.py` | samples collected, local step, version | collect, update, trigger a synchronization, end of `fit` | queue, synchronizer |
| **Parameter synchronizer** `param_sync.py` | references of two pending calls | `sync_weights`, `wait_last_valid` | pause → broadcast → update, resume |
| **PPO driver** `verl/trainer/ppo/ray_trainer.py` | `global_steps`, position of the dataloader, epochs left | `fit`: next batch, generation, updates, validation, saving | agent loops, workers, file system |
| **One-step-off recipe** `recipe/one_step_off_policy/` | the driver's, and the task that generates the next batch | `fit`, `_async_gen_next_batch`, `sync_rollout_weights` | rollout workers beside it, the rest as the driver |
| **Checkpoints** `ray_trainer.py`, `utils/checkpoint/*` | directories, shards, `data.pt`, tracker file; `previous_saved_paths` in memory | `_save_checkpoint`, `_load_checkpoint`, removal of old ones | driver, ranks of actor and critic |
| **Agent loops** `experimental/agent_loop/*` | per conversation an `AgentData`; per worker a heap of servers and an LRU cache | chat turns, tools, simulated users, choice of a server, padding to a row | driver, servers |
| **Advantages** `trainer/ppo/core_algos.py` | none | GAE, REINFORCE++ over the response mask | driver |
| **Dispatch** `single_controller/base/decorator.py`, `protocol.py`, `workers/sharding_manager/fsdp_ulysses.py` | none; the batch, per rank the share | pad, chunk, gather in the sequence-parallel group, collect, unpad | driver, ranks |
| **Balancing** `utils/seqlen_balancing.py` | none | Karmarkar-Karp, `_balance_batch`, `rearrange_micro_batches`, `restore_dynamic_batch` | driver and ranks |

Not modelled, with the reason of each in `PROJECT.json`: Megatron, the checkpoints of the fully-async
recipe, upstream FlashAttention, experiments.  Section 6 has what is left out of the others.

### 1.2 What is hard, and what correctness means

- **Packing** is index arithmetic on tensors whose shapes agree even when the contents do not: a
  row behind the wrong prompt, or a label off by one, is a silent change of the gradient.
  Correct means: token by token, the packed pass returns what the standard pass returns.
- **The training loop** is cut three times (chunk, mini-batch, micro-batch), with short last
  pieces, a gradient that accumulates, and collectives every rank must reach.  Correct means: the
  gradient of a step holds its mini-batch once, replicas agree, nobody waits for ever.
- **Ulysses** exchanges tokens against heads twice and back again in the backward pass.  Correct
  means: forward and gradients as on one device.
- **The kernels** cut context and decoded keys into blocks separately, so both may end in a
  partly empty block, and run their CTAs in any order; in the backward pass all sequences add
  to the same context rows.  Correct means: every key exactly once, whatever the order.
- **The fully-async recipe** interleaves coroutines that suspend inside a lock with three other
  processes.  Correct means: with staleness 0 it *is* on-policy training; with more, age is
  bounded; no sample is lost or doubled; both sides return.
- **Checkpoints** are many files of many ranks, written one after the other, while older ones are
  removed; the job may die at any of the writes, and again after a restart.  Correct means: what the
  tracker names can be loaded, and is of one moment.
- **The driver** has its position in three places, `global_steps`, the epochs left and the dataloader,
  restores two of them and recomputes the third; one-step-off is a batch ahead in one of them.
  Correct means: the weights have seen the batches an undisturbed run would have shown them, the
  policy that generated a batch is as old as the recipe says, and training ends with its last step.
- **Agent loops** interleave the conversations of a batch and mix generated tokens with those of tools
  and users; four lists must stay aligned through every order of turns.  Correct means: the mask is on
  exactly the generated tokens, and the advantages are theirs.
- **Dispatch and balancing** permute, pad, split and repeat rows, and every inverse is index
  arithmetic; ranks with different rows must take part in the same number of collectives.  Correct
  means: value i is that of row i, no rank waits for ever, and the work is spread evenly.

The hazards behind these sentences are in `PROJECT.json`, each at its line, with the properties
that would catch it.

## 2. Modules

    DualKVPack ── DualKVActor ── MCDualKVActor
        ├── UlyssesDualKV ── MCUlyssesDualKV
        └────────────── MCDualKVPack
    SeqlenBalancing ── DataDispatch ──┘        (with Advantages, over Sums)
    DualKVLaunch ── DualKVTiles ── DualKVForward ── DualKVBackward ── MCDualKVKernels
        └── DualKVAttention        (what DualKVForward implements)
    MessageQueue ── FullyAsyncRollouter ── FullyAsyncTrainer ── FullyAsync
    RolloutPipeline                (what FullyAsync implements with staleness 0)
    Checkpoint ── PPOTrainer ── Training ── MCTraining
    AgentLoop, Advantages ─────────┘

Theorems are in modules of their own, each of which extends the module it is about:

| Proofs | About | Besides |
|---|---|---|
| `Division` | numbers: `//`, least numbers, induction, recursion and sums over a range | used by all the others |
| `DualKVPackProofs` | `DualKVPack` | used by the next three |
| `DualKVActorProofs`, `MCDualKVPackProofs`, `UlyssesProofs` | `DualKVActor`, `MCDualKVPack`, `UlyssesDualKV` | the second also of `SeqlenBalancing` and `DataDispatch` |
| `DualKVKernelProofs` | `DualKVForward`, then `DualKVBackward` | |
| `FullyAsyncProofs` | `FullyAsync` with its parts | refines `RolloutPipeline` |
| `TrainingProofs` | `Checkpoint`, then `PPOTrainer`, then `Training` | |

### 2.1 DualKVPack: packing and unpacking

Pure operators.  A token is a name.  A logit is represented by *what it is a function of*, the
sequence of tokens its position attends to, and a log-prob by that context and the label; two
log-probs are equal in the model only when the code computes the same number from the same
inputs.  `GroupSizes`, `PromptLens`, `Repack`, `SegmentContexts`, `SharedPosition`, `Rolled` and
`ExtractLogProbs` are the steps of `_forward_micro_batch`; `ForwardRaises` is the `torch.arange`
of a negative length.  `StandardLogProbs` is the reference: every row alone, the standard path.

### 2.2 DualKVActor: a training step on all ranks

`phase` is the trainer; `pc`, `at`, `seen`, `grad`, `trained`, `params` are per rank.  Every
forward pass and gradient norm is a collective (FSDP): a rank `Enter`s it, and completes it once
every rank has entered as many (`Complete`).  `ComputeLogProb`, `UpdateMicroBatch` and
`OptimizerStep` are the bodies of the loops.  A norm that is not finite is a nondeterministic
choice, made by the first rank that learns it and the same for all (`norms`), after which the
gradient is zeroed and the parameters stay.  The gradient is a count per row of the batch, so that a
row missing, doubled or left over from the step before is visible.  The scale of the loss is not
modelled; the micro-batches of `use_dynamic_bsz` are in `DataDispatch`.  The sizes obey `DualKVAsserts`, the asserts of
`ray_trainer.py` and of the worker.

### 2.3 UlyssesDualKV: sequence parallelism

One micro-batch through one attention layer, forward and backward, on `sp` ranks, for the standard
path, the DualKV path and the DualKV path with a fused loss.  Tensors are sequences of rows of
heads with symbolic entries.  The ranks run the same program and every operation but the local
ones is a collective, so one step of the model is one operation on all ranks: no
interleaving is lost.  `SeqFromAll` and `HeadsFromAll` are the all-to-all, `Gathered` the gather,
`CopyOf` the two ways KV heads are repeated, `GradScaler` the factor in `Gather.backward`.

### 2.4 The kernels

`DualKVLaunch` says what a call is given (`cu_seqlens`, lengths, causal) and defines the
reference: which rows of K a query attends to (`KeysOf`).  `DualKVTiles` is the block arithmetic
both kernels share (`KPos`, `ValidK`, `RowAt`, `ColLimit`).

`DualKVForward`: one state machine per CTA: `Return` and `EarlyExit`, or `Prologue`, `Tile` once per
`n_block` from the last to the first, `Epilogue`.  An accumulator counts, per query, how often each
key is in it.  Shared memory, pipelining and the online softmax are abstracted: they compute the
same sum.  The abstract specification `DualKVAttention` has no blocks, grids or loops: some rows
of a sequence get exactly their keys, once.

`DualKVBackward`: kernels in stream order (`dot_do_o`, `main`, `convert_dq`, then the context
conversion and the sum over a group of heads).  Gradients are counts of terms per row;
`atomicAdd` adds, plain stores overwrite; `softmax_d` holds whose D it is, so that reading a
neighbour's D in the padding (`RowPad`) makes a wrong term.  The deterministic variant of the
code has no path through `mha_dualkv_varlen_bwd` and is left out.  `AutogradSpec` is the autograd
function: the forward kernel, then, for a call that is differentiated, the backward kernels.

### 2.5 The fully-async recipe

`FullyAsyncRollouter` has one `pc` per coroutine.  asyncio is modelled by what it guarantees: a
coroutine runs until it suspends (`cpu` names the one in the middle of a run; between two
awaits nobody else of the actor acts), `asyncio.Lock` is a queue whose head is the
holder and which is held across awaits (`lock`), `Condition.notify_all` wakes the processor.
`Continues`, `Suspends`, `Acquires` and `Releases` are the four ways an action can end.  The
actions follow the code's awaits:

| Code | Actions |
|---|---|
| `_feed_samples` | `Feed` |
| `_processor_worker` | `ProcTop`, `ProcGet`, `ProcMarkPaused`, `ProcReap`, `ProcReapLocked`, `ProcReapWait`, `ProcIdle`, `ProcNotified`, `ProcSubmit` |
| `_streaming_generation_main` | `Finish`, `Stop` |
| `_process_single_sample_streaming`, `generate_for_partial` | `TaskStart`, `TaskArrive`, `TaskInterrupt`, `TaskGenerated`, `TaskPut`, `TaskReturn`, `TaskCancelled` |
| `_async_monitor_loop` | `MonitorTop`, `MonitorCheckRunning`, `MonitorWake`, `MonitorRecover` |
| `pause` | `PauseLock`, `PauseSet`, `PauseCancel`, `PauseGather`, `PauseReturn` |
| `update_param_version` | `UpdateLock`, `UpdateCount`, `UpdateSize`, `UpdateReturn` |
| `resume` | `ResumeLock`, `ResumeServers`, `ResumeReturn` |
| `_get_samples_from_queue`, `fit`, `_trigger_parameter_sync_after_step` | `CollectSample`, `TrainStep`, `FinalSync`, `TrainEnd` |
| `sync_weights` | `SyncPause`, `SyncStart`, `SyncEnd` |

The synchronizer passes `syncVersion`, fixed when `sync_weights` begins: the trainer may already have
a newer one when the rollouter gets around to `update_param_version`, which nobody waits for.
Generation, arrival of a request at a server, and methods of the message queue happen in other
processes and do not wait for `cpu`.  `bound` is Python's own state: `done_tasks` is a local that
is unbound until its first assignment, and reading it then ends the processor.  `RolloutPipeline`
is the abstract specification: rounds of `RoundSize` samples, trained in batches, then a change
of parameters.

### 2.6 The driver, its recipes and its checkpoints

`Checkpoint` has `_save_checkpoint` one write at a time, because a crash may come between any two of
them: `Clean` (rank 0 removes what exceeds the limit, then all make the new directory), `OpenShard` and
`CloseShard` of each rank in any order, the barrier (`Saved`), the same for the critic, `OpenData`,
`CloseData`, `OpenTracker`, `CloseTracker`.  A file between open and close is empty or `Torn`, which is
what a reader finds after a crash.  A rank's model, optimizer and extra state are written one after
the other in one call and count as one shard.  `Load` is `_load_checkpoint`; `Unreadable` is where it, or
`find_latest_ckpt_path`, raises.  `Stop` is the death of the process: the memory goes, the disk stays.

`PPOTrainer` is `fit` of both trainers.  `pc` is the driver's place; a batch is its number, weights are
the sequence of batches they were updated with, their version is how many.

| Code | Actions |
|---|---|
| `_load_checkpoint`, validation before training | `LoadCheckpoint`, `LoadFails`, `ValBeforeTrain` |
| `RayPPOTrainer.fit`: next batch, `generate_sequences` | `NextBatch`, `WakeUp`, `Generated` |
| `OneStepOffRayTrainer.fit`: tasks, `await`, `sync_rollout_weights` | `FirstTask`, `GenerationEnds`, `AwaitBatch`, `Sync` |
| the rest of a step, of both | `UpdateCritic`, `UpdateActor`, `Validate`, `Save`, `Saving`, `EndStep` |
| the job dies and is submitted again | `Crash` |

`Draw` is the loop over epochs and batches, with the dataloader's own position: restored at the end of a
pass, its first pass is either a new one or an empty one; which is the library's choice.
`should_save_ckpt_esi` may be true after any step, so every step may be saved.

### 2.7 Agent loops and advantages

`AgentLoop`: `Pending`, `Generate`, `Answer`, `ProcessTools`, `Interact` are the states of
`ToolAgentLoop`, per row of the batch, interleaved at every await; a single-turn row has the first three.
Tokens are known by where they come from.  A server may answer with any number of tokens up to the
maximum, with or without tool calls.  `Chosen` and `Remember` are `_choose_server` with its heap and its
LRU cache, `Output` is the cutting and padding at the end.  `Advantages` has the two loops over a
response that step over a mask; `GaeDefinition` is generalized advantage estimation by its definition.

`Training` composes them with the driver: a generation begins with the driver's action (`Begin`), and the
driver's next one waits until its conversations are over (`End`); in one-step-off the driver goes on.

### 2.8 Balancing and dispatch

`SeqlenBalancing` is pure: `karmarkar_karp` with the order of its heap and of its sets,
`get_seqlen_balanced_partitions` with its asserts (`PartitionAsserts`), the number and order of
micro-batches, and the way back.  The k sets of a state are a sequence, and the heap is the set of its states,
of which `Popped` is the one `heappop` takes.  `SortedBy` is Python's `sorted`, stable as that is.  `DataDispatch` is one blocking call on a worker group: `BalanceBatch`;
`DispatchNd`, `DispatchAutoPadded` and `DispatchPadded` (two dispatch modes, two paddings, by the last row
and by the first ones); on the ranks `Gather`, `Split`, `AllReduce` of the number of micro-batches, and
`Forward` once per micro-batch, which all ranks must enter; `Collect`.

## 3. Runs

Twelve runs; for every property of a passing run there is a mutation of a modelled definition,
beside it in the module (`...Bug`), that TLC finds to violate it under the same configuration.

| Run | Instance | States | Shows |
|---|---|---|---|
| `actor_step` | 4 prompts × 2 rollouts, 2 ranks, mini-batch 3 prompts, micro-batch 1, log-prob micro-batch 2, 2 epochs, responses of 0 or 2 tokens | 101,121 | `TypeOK`, `SamePromptMicroBatches`, `StandardResults`, `GradientIsMiniBatch`, `EveryRowEveryEpoch`, `ReplicasAgree`, `StepEnds` |
| `pack_parity` | all micro-batches of up to 4 rows over 3 prompts of 1 or 2 tokens, responses 0..2; all batches of 3 or 6 rows of 1, 2 or 4 tokens on 4 ranks, two per sequence-parallel group | 218,044 | `MultiGroupParity`, `RowsReturned`, `NoRankRaises`, `RanksBalanced`, `MicroBatchesBalanced`, `CallReturns` |
| `actor_multi_prompt` | as `actor_step`, micro-batch of 2 prompts | – | `StandardResults` **violated** (section 5) |
| `ulysses` | 22 jobs: 1, 2 or 4 ranks, 1 or 2 KV heads, two rollouts of different lengths | 220 | `SameAsOneDevice`, `GradientAsOneDevice`, `Finishes` |
| `ulysses_few_kv_heads` | 4 ranks, 2 KV heads, DualKV | – | `SameAsOneDevice` **violated** |
| `ulysses_fused` | 2 ranks, fused loss | – | `SameAsOneDevice` **violated** |
| `kernels` | blocks and row padding of 2; 40 calls, 9 of them differentiated, up to 2 heads | 43,422 | `TypeOK`, `AllWritten`, `ImplementsAttention`, `GradientExact`, `DStaysRight` |
| `async_on_policy` | 5 samples, 2 per version in batches of 1, budget 2 (staleness 0), partial rollout | 9,461 | `NoGenerationDuringSync`, `TrainsEverySample`, `ImplementsPipeline` |
| `async_stale` | 5 samples, 1 per version, budget 2 (staleness 1) | 490,360 | `LagBound`, `ProcessorSurvives` |
| `async_partial` | 3 samples, batches of 2, budget 3 (staleness 0.5), partial rollout, pending queue of 1 | 32,084 | `TypeOK`, `OnePlace`, `Terminates` |
| `async_sync_race` | 5 samples, budget 3 (staleness 2), one task at a time | – | `NoGenerationDuringSync` **violated** |
| `training` | 8 configurations of checkpoints and crashes (2 ranks, up to 2 crashes, 3 or 4 steps of 2 batches per epoch, both trainers, with and without a critic, its warmup, limits 0, 1 and 2), 4 of agent loops (2 or 3 conversations, 1 or 2 workers, tools, a user, limits on turns) | 130,869 | `ResumeSafe`, `BatchesInOrder`, `OffPolicyLag`, `ValidatedWeights`, `EndsAtLastStep`, `KeepBound`, `RowsExact`, `NoEmptyRequest`, `StickySession`, `AdvantagesOfGenerated`, `Ends` |

**Why the bounds are enough.**
*Actor*: with 3-prompt mini-batches of 2-row groups on 2 ranks a chunk has 4 rows and a mini-batch 3,
so the last mini-batch is short; a second epoch shows a gradient left over from
the first; two prompt lengths show a wrong prompt; a response of 0 tokens is the empty row.
*Packing*: four rows over three prompts give every pattern of runs of equal uids, the same prompt in
two runs included; the state is just the list of rows built so far.
*Dispatch*: 3 rows need padding to the 4 ranks and are fewer than them, 6 are not a multiple of them but
of the two data-parallel ranks, so each dispatch mode and padding happens; rows of 1, 2 and 4 tokens with
a limit of 4 make ranks want different numbers of micro-batches and micro-batches of several rows.  With
three lengths every tie in Karmarkar-Karp's order occurs.
*Ulysses*: token counts that the ranks do and do not divide, a padding rank, more query than KV
heads, KV heads equal to, fewer than and more than what a rank gets.
*Kernels*: all that matters about a length is whether it is below, at, just above or well above a
multiple of the block, so lengths 0..3 with blocks of 2 meet each boundary; two sequences of
different lengths make a partly empty block be followed by rows of the next sequence; a call with
more queries than keys reaches the early exits.  `RowPad` = `BlockM` is the least the code's 128
could be, hence the case in which padding is tightest.  The forward result is also proved for
all sizes (section 4).
*Fully-async*: 5 samples give two rounds and a rest (`async_on_policy`), or five versions of
which three overlap (`async_stale`); the feeder stops at its limit in `async_partial` and
`async_on_policy`, where the pending queue is smaller than the data.  `MaxQueueSize` is
`MaxRequiredSamples`, and both are `int(required * (1 + staleness) * sync_step)`, as
`set_max_required_samples` computes them.  `PendingSize` is larger than
`MaxConcurrentSamples` where `ProcessorSurvives` is checked, as the code's 128 is larger than its 16
per server for up to seven servers (`fully_async_rollouter.py:156`, `187-188`).  With a pending queue
that is only as long as the limit, as with eight servers, and a budget of more than one version, TLC
finds the processor reading `done_tasks` before it is assigned (it waits for the feeder with tasks under
way, none of them ever reaped, and a pause empties `active_tasks` while it waits for the lock), so the
property rests on that relation, which nothing in the code states.  Section 4 has it for all sizes that
satisfy the relation, and without it for `staleness_threshold` = 0.

*Training*: four steps are two passes of the dataloader, so a crash can hit the end of a pass, the last
step, and a step in between; two crashes let a restarted process be restarted, and a second process remove
or not remove what the first saved; `MaxStep` = 6 is the last step plus one per crash.  Conversations may
take up to three generated or received tokens over at most two servers, so a turn can end at, before or
beyond the response length; three conversations on a worker exceed a cache of two.  Generations and
crashes are in different configurations: a crash ends the conversations whatever they are at
(`Restart`), and the driver's order of events does not depend on their tokens.  GAE is linear in rewards
and values, so a score and values that are 1 at one position and 0 elsewhere are enough, with
`Gamma` = 2 and `Lambda` = 3 to tell every power apart (`GaeOfGenerated` is proved for any rewards and values).

**Deadlock** is checked in the fully-async, kernel and training runs, where the end is an explicit
self-loop (`Ended`, `Idle`, `Stopped`).  The actor step, the two parts of `pack_parity` and the Ulysses
pass stop when they are done; their configurations say `CHECK_DEADLOCK FALSE`, and `StepEnds`,
`CallReturns` and `Finishes` say that they do not stop before.

**Fairness.**
*Actor*: each rank is an operating-system process (weak fairness of each), and the trainer waits in
`ray.get`.  *Dispatch*: weak fairness of `CallStep`: Ray runs a call that was submitted, and a
collective ends once all ranks are in.  *Training*: weak fairness of `Step`: the driver and the
conversations go on as long as there is something to do; crashes and their number are not forced.
*Ulysses, kernels*: weak fairness of `Next`: the device runs every CTA of a
grid to its end, and collectives complete once all ranks are in.  *Rollouter*: asyncio's ready
queue is first come first served and so are lock waiters; a coroutine that becomes ready again and
again is run, although others run in between and disable it for a moment (they hold `cpu`), which is
strong fairness per coroutine.  A generation ends or is interrupted.  The trainer and the
synchronizer are processes (weak fairness).

`Spec` lets ready coroutines run in any order, more than asyncio does; it is used for
everything that is shown to *hold*.  `PromptSpec` adds that a ready coroutine of the loop runs
before the next timer, call or answer arrives.  Its behaviours are a subset of `Spec`'s, of a kind
the real ready queue has, and it is used for `async_sync_race`, so that the counterexample is not an
artefact of a scheduler asyncio does not have.

## 4. Proofs

`tlapm` proves the following for every value of the constants that satisfies the named assumptions.

**DualKVPackProofs** (no assumptions; the hypotheses of the theorem are `IsBatch`: rows as unpadding gives
them, with a prompt of at least one token, and `Grouped`: the sizes of the groups add up to the rows, and
the rows of a group have one prompt).

- `PackParity`: the packed pass does not raise, and what `ForwardMicroBatch` returns is `StandardLogProbs`,
  row by row and token by token, for any rows, lengths, groups and `respLen`.

`Before(sizes, g)` is the running sum by which the code finds the first row of group g, and with it the
place `SegmentAt(sizes, g, i)` of each segment (`RepackIsRepack`); `Flatten` says where a segment begins
in a packed tensor.  `PartOf` and `PartOnce` are why every position is in one segment and every row in one
group.  So the logit at a position is a function of the prompt of its group and the response of its row up
to there, the label behind it is the row's next token, and the first token of a response is scored at the
last token of the shared prompt.

A sum over a sequence needs induction.  The induction theorems of the library take an operator as parameter,
which the provers cannot instantiate, but over a range of numbers the same is a fact about *sets*:
`Division!Induction` (a set with `lo`, and with `k + 1` whenever it has `k < n`, has all of `lo .. n`) follows
from the least number of a set, and `Recursion` makes of it the existence of a recursive function on `0 .. n`.
The model's sums are therefore recursive functions, not folds.

**MCDualKVPackProofs** (assumptions `BatchAssumption`: no prompt is empty; `DispatchAssumption`: the size of
the sequence-parallel groups divides the ranks, no row is longer than `max_token_len`, no batch is empty).

- `PackedWithUidsIsStandard`: `Spec => []MultiGroupParity`.  `GroupsOfUids` is about
  `_compute_prompt_group_sizes`: the groups it finds cover all the rows and each has one uid, by induction
  over the rows: a uid like the last makes the last group larger (`GroupGrows`), another one begins a group (`GroupStarts`).
  Rows of a prompt need not be neighbours; then the prompt is packed more than once.

- `RowsComeBack`: `Spec => []RowsReturned`: whatever the workers return for a row is in the row's place
  in the batch of the caller, for any number of ranks and groups, both dispatch modes, both paddings, fixed
  and dynamic micro-batches, and any interleaving of the ranks.
- `NoRankEverRaises`: `Spec => []NoRankRaises`, so no rank leaves the others in a collective.
- `RanksAreBalanced` and `MicroBatchesAreBalanced`: `Spec => []RanksBalanced` and
  `Spec => []MicroBatchesBalanced`.

The invariant of a call is `DispatchInv`; TLC checks it on `pack_parity` as well.  `RowsReturned` speaks of the end only; what
has to be known before is what every rank holds.  `BatchOk`: the rows of the caller are different, and what
`DataProto.padding` put behind them are copies of the last.  `Source`, what is divided among the ranks, is the batch, or the
batch with its first rows again; `DpData(r)` is the share of a data-parallel rank.  `HasData`: a rank holds its
share of all the ranks' until its group has gathered (`Gather` is one step of the group, and the shares of
its ranks one after another are the share of the group, `GroupShares`), and `DpData(r)` from then on.
`HasPlan`: with dynamic micro-batches the ranks run with one `count`, and `plan` is the partition
of `DpData(r)` into so many.  `HasValues`: the values are those of the rows of the micro-batches so far, and
all ranks are equally far.  With it `Output` has the ids of `DpData(r)` in their order (`OutputFacts`: the inverse
of the flattened partition puts them back), the outputs of all ranks (`AllOutputs`) or of the first one of each group
(`CollectedOutputs`) are the ids of `Source`, and without the padding those of the caller (`CollectStep`).

The partitions rest on an invariant of the heap (`IsHeap`).  Each of its states has some of the rows, all
in one of its k sets, with the sums of their workloads, in descending order (`IsState`); no row is in two states, and every row is in one.
`FirstHeap` says so of the heap at first, `Merging` of two states merged: largest with smallest.  The
last state is therefore a partition (`LastState`).  How far apart its sums are is bounded by the bound
(`SumBounds`) of a state it came from: if neither of two states has sums further
apart than `b` and `c`, then added in opposite order they are no further apart than the larger of both.
With `equal_size` the bounds are those of the groups of k rows in order; without it, the longest row.
There the heap also has to show that no set stays empty: a state has no empty set, or at most one row in each.
Of two states of the second kind the sets with a row come first, as every row has some work; added in
opposite order they meet in no set, and each set still has at most one row, or they leave none empty.  At the end all
the rows, which are at least k, are in one state: at most one in each set is then exactly one.  That
is the assertion of `seqlen_balancing.py:246`, and with `CountFacts` (a rank never asks for more micro-batches than it has
rows, as no row is longer than `max_token_len`) why no rank fails it.  The heap is popped by spread, and ties are
broken by comparing sets; the proofs use only that what is popped is a state nothing else is before
(`Undominated`), so they hold for any order of merging.

**DualKVActorProofs** (assumptions `SizesAssumption`: sizes are positive, response lengths bounded;
`DualKVAssumption`: the asserts the code makes on them).

- `TypeCorrect`: `Spec => []TypeOK`.  In particular no rank runs a slice that reaches past the batch.
- `GradientCorrect`: `Spec => []GradientIsMiniBatch`.  `_optimizer_step` is only reached with a
  gradient that holds each row of the mini-batch once and no other row.
- `OnePromptPerMicroBatch`: if both micro-batch sizes divide `rollout.n`, no micro-batch mixes
  prompts (`SamePromptMicroBatches`).  This is the condition under which dropping `uid` is
  harmless; the trainer's assert also admits the other direction, which is the first finding.
- `PackedIsStandard`: hence, under the same condition and with `PromptAssumption` (no prompt is empty),
  `Spec => []StandardResults`.  A micro-batch without uids is one group; as its rows have one prompt,
  `PackParity` applies.

`GradientIsMiniBatch` is not inductive: it speaks of `pc = "step"` only.  The invariant is `IInv` =
`TypeOK /\ Located /\ Accumulated`.  `Located` says which pieces of the chunk `at` may name at each
`pc` (a rank at a micro-batch has one left to run, a rank at the step has none); `Accumulated` that
while a mini-batch is under way the gradient is exactly the rows of the pieces already run, where
before the first of them it may be anything, as `zero_grad` comes next.  `DoneNext` (a piece is
disjoint from those before it and extends them) and `DoneAll` (the last one completes the slice)
are the arithmetic of `DataProto.split`; they rest on `Division`, facts about `//` from
which SMT proves the rest.

And of the loops around it, on top of `IInv`:

- `EveryRowTrained`: `Spec => []EveryRowEveryEpoch`.  The invariant `EInv` counts how often a rank has
  trained on each row: on its chunk once per epoch it has finished, and once more on the mini-batches
  before the one it is at.  Each row is in the chunk of one rank (`OneChunk`).
- `ReplicasStayEqual`: `Spec => []ReplicasAgree`.  A rank may leave a collective before another has, so
  the ranks are at different places most of the time.  The invariant `RInv` says how far apart: their
  counts differ by one at most; ranks with the same count are at the same place with the same
  parameters; one that is ahead is at the successor of the place where the other waits, which for a
  step of the optimizer depends on the norm that the collective found, the same for all.  `Advance` is
  what the three bodies of the loops have in common, `SameLoops` why they are as long on every rank.

**UlyssesProofs** (assumptions `JobsAssumption`: the asserts on the head counts, positive numbers of rows,
ranks and heads, and on a packed path rows of one prompt; the theorems have the hypothesis
`\A j \in Jobs : SupportedLayout(j)`).

- `SplitLogProbs`: `Spec => []SameAsOneDevice`, and `SplitGradients`: `Spec => []GradientAsOneDevice`, on
  all three paths and for any number of ranks, heads, KV heads, rows and tokens.

`SupportedLayout` leaves out the two layouts of findings 2 and 3, which TLC shows to fail, and nothing else:
a packed path with several KV heads that the ranks do not divide, and the fused loss on more than one rank.
`LayoutsSupported` has TLC confirm that all the jobs of the run `ulysses` meet it.

`SameAsOneDevice` speaks of the last stage.  The invariant `SplitInv` says at each of the ten stages what a
rank has of the one-device computation: `TokenShard`, all heads of its slice of the tokens, or `HeadShard`, its
heads of all tokens.  An all-to-all turns one into the other, and each of the nine `...Keeps` lemmas is one
stage.  `PartAndIndex` (each index of a whole is one index of one part) is that the all-to-all is a bijection.
`AttentionEntry` is the heart of the forward pass: after the repetition of K and V, query head h of rank r
finds at `KVHead` of its local counts a copy of the KV head which it has among the heads of the whole;
this is where the layout is needed.  Padding follows the sequence (`PaddedSequence`), so real tokens attend to
none of it, and the gather drops it.  Backwards, the copies of a KV head are added up and each query head
reaches one copy, so no contribution is counted twice; padding has no gradient because nothing extracts it.

**DualKVKernelProofs**, forward (assumptions `LaunchesAssumption`: `cu_seqlens` start at zero, do not
decrease, and lengths are within the maxima; `BlocksAssumption`: block sizes are positive).

- `TypeCorrect`: no accumulator counts a key twice.
- `Refinement`: `Spec => ImplementsAttention`.  Every row of the output is written once with exactly
  the keys of its query.

The invariant says that a CTA in its loop at `n_block` has in its accumulator, for each query of its
block, exactly the attended keys of the blocks above `n_block`, and that a row of the output is
empty until the one CTA that owns it exits.  The heart is the tile arithmetic: distinct columns of
distinct blocks are distinct rows (context and decoded blocks padded each for itself);
`Unmasked` on a block is `Attends` on its rows; and no attended key lies in a block at or beyond
`NBlockMax`.

**DualKVKernelProofs**, backward (the same assumptions, `RowPadAssumption`: a block of queries is no longer than
the padding, which are constants of the code, and `HeadsAssumption`: a whole number of query heads per KV
head, which the interface checks).

- `GradientsAreExact`: `AutogradSpec => []GradientExact`.  Whatever the order in which the CTAs of all
  heads, sequences and blocks run, and however their atomic adds and stores interleave, dQ, dK, dV and
  the gradient of the shared context have each of their terms once when the stream is empty.
- `DIsStable`: `AutogradSpec => DStaysRight`.  No CTA writes over a D that is there.
- `AutogradImplements`: the two passes together still implement attention.

The invariant is `BwdInv`, one part per buffer.  `CTAInv`: a CTA of the main kernel has the block of its
number and, as the grid is as long as the blocks, never a second; when the kernel has ended every block has
been stored.  `PlaceInv` and `SumsInv`: rows `Pad(b, q)` of softmax_d and dq_accum belong to one query
(`PadUnique`: the lanes of a last block that are behind the end of their sequence stay within `RowPad`
rows, so they meet no query of the next one), D is in place before the main kernel reads it, and dQ holds
the keys of exactly the blocks whose CTA has `Passed` the query; each key is in one block (`HeldByOne`), so
a tile adds none a second time (`TileAdds`).  `TileInv`: `acc_dk` has the queries from `m_block` on
(`TileGoesOn`).  `ContextInv`: a context row has the queries of all the sequences whose CTA has finished.
`DecodedInv`: a decoded row, which is written by a plain store, is in one block of one sequence
(`DecodedHeldByOne`), so nobody else writes it.  What is left is that the loop bounds leave nothing out:
`NothingBefore` (no query before `MBlockMin` attends to the block), `GridCovers` and `AttHeld` (every key of
a query is in a block of the grid).  They are what turns the sums over CTAs into the sums over keys and
queries in `ConvertDQKeeps` and `ConvertDKVKeeps`.

**FullyAsyncProofs** (assumptions `MaxQueueSizeAssumption`, `RollouterAssumption`, `TrainerAssumption`:
sizes are positive, and `MaxConcurrentSamples` is at most `MaxRequiredSamples`, which the code's `min`
makes true; for `LagCorrect` also `QueueSizeAssumption`, that `set_max_required_samples` makes the queue
as large as the budget; nothing on fairness or the order of coroutines).

- `TypeCorrect`: `Spec => []TypeOK`.  The message queue and the pending queue keep within their
  sizes, no coroutine is twice in the queue of the lock, and `active_tasks` never exceeds
  `max_concurrent_samples`.

The last conjunct is the difficult one.  The processor tests the limit *before* it waits for the lock,
and it may sleep through a whole synchronization between the test and `create_task`.  The invariant
`IInv` therefore adds to the types (`Queued`, `Fed`, `Tasks`) that wherever the processor has a
sample it has not submitted (`Submits`) there is room for one (`Limited`): nobody else creates tasks,
and a task that ends or is cleared by `pause` only makes more room.  For this `Submits` must
mean the same before and after a sleep: `Handed` says that the processor goes to sleep without a
sample only from the branch that marks it paused.  `Locked` (only who is at a place inside the
lock is in its queue, once) is what makes a release give the lock to one other coroutine, and rests on
`Called`: the synchronizer calls a method only when its last call has returned, which
`wait_last_valid` ensures.

- `OnePlaceCorrect`: `Spec => []OnePlace`.  Interruption, resubmission and the drop of a full queue
  neither lose nor duplicate a sample.
- `LagCorrect`: `Spec => []LagBound`.  No sample is trained more than `1 + ceil(1 + staleness_threshold)`
  versions after the one it was generated with.

`OnePlace` counts; the invariant `Placed` behind it says that the places of a sample are disjoint
(`Apart`), hold only what the processor has taken (`OnlyTaken`) and, until the end signal, all of it
(`Covered`), that neither queue repeats a sample, and that the processor asks for the next one only
with empty hands, which is what keeps a sample from being overwritten.  Disjoint finite sets add up.

For `LagBound` the invariant `Lagging` relates versions and positions.  `Versions`: the trainer is at
most two versions ahead of the rollouter, and two only while it waits for the last synchronization.
`PutInTime`: a sample between the end of its generation and `put_sample` keeps that distance, because
`pause` gathers its task before the trainer can go on.  `UsedInTime`: what a sample in the queue has
ahead of it plus what the trainer has used (`Progress`) never exceeds two versions after its own plus
the size of the queue; each step of the trainer moves one from the first to the second.  Neither
theorem assumes that `pause` keeps generation away from a broadcast, which it does not (section 5).

- `SurvivesCorrect`: if `PendingSize > MaxConcurrentSamples`, `Spec => []ProcessorSurvives`.  The
  processor never reads a `done_tasks` that was never assigned.  The invariant `Survives` says what
  holds until its first reaping: it runs `InOneGo`, because the feeder has filled the pending queue before
  it takes the first entry and the limit on tasks comes before the end of that queue (`NeverStarved`), so
  nobody else has done anything, all that it has submitted is still in `active_tasks` (`StartedOnly`), and
  each loop that reaps is entered with something to reap (`SomethingToReap`).  The assumption is the one
  of section 3, which TLC shows is needed.

With `staleness_threshold` = 0 the budget is what the trainer trains on between two versions (`OnPolicy`:
`MaxRequiredSamples = SamplesPerVersion`, as `set_max_required_samples` computes them).  Then, with
the assumptions above and no other on the sizes:

- `OnPolicyCorrect`: `Spec => [](NoGenerationDuringSync /\ ProcessorSurvives /\ TrainedFresh)`.  Nothing
  is generated while parameters are copied, which is not so with a larger budget (section 5);
  `done_tasks` is assigned whatever the length of the pending queue; the message queue drops nothing and
  every sample is trained with the parameters it was generated with.
- `RoundsImplementPipeline`: `Spec => ImplementsPipeline`.  Every step of the coroutines, tasks and the
  trainer is a step of `RolloutPipeline` or a stutter.

None of this is inductive: that nothing is generated during a copy depends on the monitor not clearing
`paused`, which depends on the budget being used up, which depends on what was taken and trained.  The
invariant is `RoundInv`, the earlier ones with `Members` (whoever is at a place inside the lock is in its
queue) and `Rounds`:

| Part | Says |
|---|---|
| `Hands`, `Untouched` | the processor has the last entry it took, and none when it sleeps; nothing is interrupted or dropped |
| `Budget`, `InRound` | `staleness_samples` is what was taken in this round; what is under way belongs to it and has its version |
| `Counted` | the trainer's `local_trigger_step` counts the batches it trained in this round |
| `Quiet` | hence, when it changes the version, everything taken is trained and there is nothing under way, unless the data are used up (`final`) |
| `Signalled` | then the end signal is behind the last sample in the message queue |
| `Flags`, `Refusing`, `InOrder` | what `pause` leaves `resume` finds: paused, no tasks, no trigger, servers that refuse requests only until they are resumed |
| `Recovers` | a monitor that has decided to recover is before `pause` in the queue of the lock, so it cannot undo it; this is where asyncio's FIFO lock is needed |
| `Unreaped` | until the first reaping the processor waits only for an entry, and no round is over without it |

`BatchCounts` and `RoundIsOver` turn the trainer's counts into sets (a round whose batches are all trained has
no other sample), `RoomInQueue` is why nothing is dropped, and `SubmitGenerates`, `TaskCompletes`,
`CollectDiscards`, `BatchTrains` and `UpdateNextRound` are the steps of the refinement, one for each action of
the pipeline.

**TrainingProofs**, checkpoints (assumptions `ConfigAssumption`, `TrainerAssumption`, `RanksAssumption`: what a
configuration is, that the bound on steps leaves room for one more per crash, that there is a rank).

- `ResumeCorrect`: `TrainerSpec => []ResumeSafe`.  Wherever the job died and however often, the step the
  tracker names is complete: every rank's shard, all of one save, and the position of the dataloader,
  provided no limit is 1.
- `KeepCorrect`: `TrainerSpec => []KeepBound`.  For each process so far at most `keep` directories of a
  worker group are left, for every limit.

`ResumeSafe` is not inductive: it does not say why the files of the tracker's step are left alone.
`Behind` says that the tracker names an earlier step than the one being written, which rests on `Counted`,
the possible values of `global_steps` at each `pc`.  `TrackerLast` says that among the paths this process
remembers the tracker's step can only be the last, so that `Clean`, which with a limit of two or more
never removes the last, spares it; it fails for the actor while the critic is still saving, but then the
actor is not cleaned again (`HasSaved`).  `Written` is what the current save has finished, which is what
the tracker will promise.  For `KeepBound` the invariant (`KInv`) splits the directories into those this
process remembers, with the one it is writing, and at most `keep * crashes` others; `Clean` makes room
for the one that comes, and a crash turns all of them into others.

**TrainingProofs**, the driver (the same assumptions).

- `WeightsInOrder`, `LagBounded`, `ValidatesWhatItLogs`: `TrainerSpec` implies `[]BatchesInOrder`,
  `[]OffPolicyLag` and `[]ValidatedWeights`.
- `LastStepCorrect`: `TrainerSpec => []EndsAtLastStep`.  Training that was not resumed, and `fit` resumed
  within a pass, ends with step `config.total` and finds a batch for each step.

`BatchesInOrder` speaks of two values of `pc`; the invariant has the order of the weights wherever they
are, in memory (`Learned`) or in a file (`Files`), because a restart brings any of the files back.  To
append a batch in order one must know that it is larger than all before it (`Below`) and where it is between
dataloader and weights (`InFlight`), and after a restart that the position in `data.pt` is not behind the
weights beside it (`DataAt`, `Named`).  `Slack`, the number of restarts in one-step-off and 0 in `fit`, is
how far the batches may be ahead of the steps; it becomes larger by one when a batch in flight is saved as
taken, which only counts once a restart has happened.  `Synchronous` and `OneStepOff` are the versions
in memory, in the rollout engine and in each batch, at every `pc`.  For `EndsAtLastStep` the invariant
(`PInv`) has the passes begun, `taken \div Batches` and the current one, and those left add up to
`TotalEpochs` (`Position`), and that one-step-off without a restart is exactly one batch ahead (`Exact`);
`Tracks` names the starts for which this is so, and the others are the exceptions of the property.

**TrainingProofs**, with agent loops (adds `AgentLoopAssumption` and `RolloutAssumption`: limits and lengths are numbers, the
prompts of a batch fit and the workers divide it, as `DataProto.chunk` demands; and, for the advantages,
`AdvantageAssumption`: gamma and lambda are not negative, and integers like all numbers here).

- `TrainsLikeTheTrainer`: `TrainingSpec => TrainerSpec`.  The composition with the agent loops only delays
  steps of the driver.
- `TrainingCorrect`: hence the six properties hold of the specification that the run checks.
- `RowsCorrect`, `RequestsCorrect`, `SessionsCorrect`: `TrainingSpec` implies `[]RowsExact`,
  `[]NoEmptyRequest` and `[]StickySession`, in every interleaving of the conversations of a batch.

The invariant of the conversations is `LoopInv`.  `Conversing` says for each row how its lists are aligned
at each place: the mask, the log-probs (or none) and the response part of the ids are as long as each
other, the mask is 1 at exactly the tokens a server generated (`TokensMatch`, `LogprobsMatch`), and a row that
is about to generate has room (`TurnsMatch`), unless a simulated user has spoken.  `SessionsMatch` says that the cache of a worker, an
LRU of bounded length, still has the entry of a conversation under way: with no more rows than places
no entry is ever evicted, which is the exception `StickySession` names.

- `AdvantagesCorrect`: `TrainingSpec => []AdvantagesOfGenerated`, for responses of any length.

The loops of `Advantages` go from the last position to the first and over everything; the definition is a
sum over the generated tokens only.  `GaeByDefinition` makes a recursion of the sum: a temporal difference
and `Gamma * Lambda` times the advantage of the next token.  `GeneratedCounts` numbers the generated
positions, and `GaeOfGenerated` shows by induction, from the end, that after any position
`nextvalues` and `lastgaelam` are the value and the advantage of the next *generated* token, which is what
stepping over a mask is for.  `ReturnsOfGenerated` does the same for `running_return`: one reset between a
token and the score and nothing of the score is left.  That the mask is 0 or 1, as long as the response, and
has no 1 behind the score is `OutputExact`, from `LoopInv`.

**Model-checked only.**  Liveness and everything under fairness (`StepEnds`, `Finishes`,
`AllWritten`, `Terminates`, `TrainsEverySample`, `CallReturns`, `Ends`), which the prover does not do.

## 5. Where code and documents disagree

1. **Several prompts in a micro-batch** (`actor_multi_prompt`; `dp_actor.py:444`).  `select`
   drops `uid`, so `micro_batch.get("uid")` is `None` and a micro-batch of several prompts is packed
   as one group behind the first prompt.  `ray_trainer.py:1427` accepts `MicroBatch % n == 0`, and
   `verl/tests/test_dualkv_multi_group_parity.py:4-6` states parity for this case (it passes the
   group sizes itself).  The run packs rows of prompt 1 behind prompt 0.
2. **Fewer KV heads than ranks** (`ulysses_few_kv_heads`; `monkey_patch.py:144`).  `Tensor.repeat`
   lays copies out 0,1,0,1 where `repeat_kv` gives 0,0,1,1; the assert at 376-379 admits the layout
   and says the repetition ensures correctness.  Query heads meet the wrong KV head.
3. **Fused loss under Ulysses** (`ulysses_fused`; `dense_common.py:136`).  The loss rolls a slice of
   `input_ids` and indexes a slice of the hidden states with positions of the whole packed tensor.
4. **Generation during a broadcast** (`async_sync_race`; `fully_async_rollouter.py:640`).  The
   monitor tests `monitor_loop_trigger` and the budget before it waits for the lock; if `pause`
   gets in between, the monitor clears `paused` after the drain and the processor submits a sample
   while the weights are broadcast, against `recipe/fully_async_policy/README.md:228-229`.
   With staleness 0 this cannot happen: the budget is used up when a synchronization starts
   (`async_on_policy`).

Three more behaviours, reachable in the model, are recorded as hazards without a run of their own:
the budget may be exceeded by one (the sample the processor holds across a pause is in none of the
three counts of `update_param_version`); a sample interrupted after the processor has got `DONE`
goes to a queue nobody reads any more; and, under the permissive scheduler of `Spec`, an
interrupted task that is not yet reaped is counted twice, as active and as interrupted, which with a
budget of one version can stop the rollout.  Whether asyncio's order of callbacks allows the last
one is open.

Of the driver and its surroundings, each with a hazard and, where one is named, a property that states
exactly how far the good behaviour goes:

- The tracker is called "for atomic usage" (`ray_trainer.py:991`), but it is opened with `"w"` and then
  written: a crash in between leaves it empty and every later start fails, although complete checkpoints
  are there.  `ResumeSafe` says nothing of this state; the model has it (`Unreadable`, `LoadFails`).
- With a limit of one checkpoint the old one is removed before the new one is written; `KeepsAnother` in
  `ResumeSafe` excepts it.  The limit holds per process (`KeepBound`): paths are only in memory.
- one-step-off loses a batch per restart and validates with the weights of before the update
  (`BatchesInOrder`, `ValidatedWeights`); after a restart in the first epoch it may run out of batches and
  fails to unpack `None` (`EndsAtLastStep`).
- A restart after the last step trains one step more, and one at the end of a pass may shorten the training
  by a pass (`EndsAtLastStep`).
- REINFORCE++ resets its return wherever the mask is 0, "after EOS" says the comment; in a conversation
  with tools the turns before the last answer get no return (`AdvantagesOfGenerated` says so).  And the score
  is on the last token even where a simulated user wrote it, at a masked position: then GAE and REINFORCE++
  both skip it, and no token of the row learns from the score.
- A simulated user's message is added whether it fits or not; the next request may be for no tokens,
  which vLLM refuses and which ends the training (`NoEmptyRequest` excepts interactions).
- `max_token_len` gives the number of micro-batches, not a bound on their tokens: `MicroBatchesBalanced`
  is what holds, in terms of work.

## 6. What is abstracted or left out

- Numbers: losses, log-probs, softmax and gradients are represented by what goes into them.
  Floating-point error, loss scaling and clipping values are not modelled.
- One attention layer, one head per CTA in the forward kernel; other model families and vision inputs
  are not modelled, and the micro-batches of `use_dynamic_bsz` only in calls that return a value per row.
- Kernel-internal memory: shared-memory layout, pipelining, barriers within a CTA.  The order of CTAs
  and all global memory they share is modelled.
- Fully-async: a task that raises, validation, checkpoints, statistics, shutdown of the queue.
  All rollout servers pause and resume together, and one task stands for the n responses of a sample.
- A restart of the fully-async recipe skips the samples in flight; the code says so itself.  Its checkpoints
  are not modelled.
- Driver: rewards, log-probs and metrics, which do not change the order of events.  The generations of a
  validation are one step and do not go through `AgentLoop`.  In one-step-off the manager overrides `wake_up`
  and `sleep` with coroutines that nobody awaits in the inherited `generate_sequences`; the model has their
  effect, none.  HDFS, asynchronous saving, LoRA adapters and `resume_path` are left out.
- Agent loops: multi-modal data, the parser of tool calls, rewards and traces.
- Dispatch: futures, the one-to-all and all-to-all modes, colocated workers.  Balancing: `greedy_partition`,
  which nothing calls, `keep_minibatch`, which no caller sets, and `num_batches_divided_by` and
  `min_num_micro_batch`, which only the Megatron workers set.  `Once` is there for TLC's sake and stands for no code.
- Most of the repository is other kernels (for other GPUs, with their own tuning), model code, and tensor
  formulas without state or order: the models cover the code the DualKV path, its trainers and their control
  flow run through, which is a small part of the lines.

## 7. Plan

Done in this order, the most important behaviour first: the actor and its packing, Ulysses, the
kernels, the fully-async recipe, the proofs of the actor, of the forward kernel and of the recipe's
limits; then checkpoints, the driver with its two trainers, agent loops and advantages, balancing and
dispatch, the proofs about checkpoints and driver, of the actor's loops, of the recipe's samples and
staleness, of the conversations, of the backward kernels, of the on-policy rounds of the fully-async
recipe, of packing and of Ulysses, of the advantages, of balancing and dispatch.  Next:

1. *Extend the models*: tasks that raise in the fully-async rollouter and the cleanup behind them; its
   checkpoints; the exact ready queue of asyncio, which would replace `PromptSpec` and decide the open
   question of section 5; futures in the dispatch.
2. *State* the budget (`staleness_samples` plus what is underway never exceeds
   `MaxRequiredSamples`) and the fate of interrupted samples as invariants.
3. *Prove*: for the fully-async recipe with a larger budget, how far `staleness_samples` is from what is
   under way.
