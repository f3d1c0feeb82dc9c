# A TLA+ verification project for hy3-vllm-dcu

The repository serves the HY3 model with vLLM 0.18.1 on Hygon DCU cards.
`src/vllm/vllm` is the serving engine, `src/upstream/vllm` the HY3 integration
(model, MTP draft model, tool and reasoning parsers), `src/deploy` the launch
scripts (tensor parallelism on one node, two pipeline stages on two nodes,
eager mode). This project models the part in which most of the engine's
correctness is decided: the paged KV cache with prefix caching, the scheduler
over it with the loop that keeps several batches in flight and the calls that
put it to sleep, the queue that carries batches to the workers, the protocol by
which data parallel engines start and stop together, and the HY3 parser for
tool calls.

## 1. Inventory

| component | state | operations | interacts with |
|---|---|---|---|
| free block queue (`v1/core/kv_cache_utils.py`) | a doubly linked list through the blocks, a count | popleft, popleft_n, remove, append, append_n | block pool |
| block pool (`v1/core/block_pool.py`) | ref_cnt and hash of every block, hash map, free queue | get_cached_block, touch, get_new_blocks, cache_full_blocks, free_blocks, reset | KV cache manager |
| KV cache manager (`kv_cache_manager.py`, `single_type_kv_cache_manager.py`) | block table and number of cached blocks of every request | get_computed_blocks, allocate_slots, cache_blocks, free, get_num_common_prefix_blocks | scheduler |
| scheduler (`sched/scheduler.py`, `request_queue.py`, `utils.py`) | running list, waiting queue, requests with their counters, ids of the last step | add_request, schedule, update_from_output, preempt, finish, reset_prefix_cache | engine core, KV cache manager |
| asynchronous scheduler (`sched/async_scheduler.py`) | output placeholders, discard flag | overrides of _update_after_schedule and _update_request_with_output | scheduler |
| engine core (`v1/engine/core.py`) | batch queue, aborts queue, input queue | step, step_with_batch_queue, _process_aborts_queue | scheduler, executor, clients |
| engine core process (`v1/engine/core.py`) | input and output threads, pause and shutdown states | busy loop, client requests, pause, sleep, shutdown | engine core, front end |
| data parallel engine, coordinator (`core.py`, `coordinator.py`) | waves, running flags, request counts | START_DP_WAVE, wave completion, publication of counts | engine core processes, front ends |
| message queue (`shm_broadcast.py`) | ring buffer with written and read flags | enqueue, dequeue | executor, workers |
| executors (`v1/executor`) | worker processes, response futures | execute_model, collective_rpc, failure callback | engine core, workers |
| worker (`v1/worker`) | cached request states, block tables, the KV tensors | _update_states, slot mapping, execution, sampling | executor |
| front end (`async_llm.py`, `output_processor.py`) | per-request output queues | generate, abort, detokenisation | engine core process |
| HY3 parsers (`src/upstream/vllm/tool_parsers`, `reasoning`) | streaming position, names and arguments sent so far | extract_tool_calls(_streaming), extract_reasoning(_streaming) | front end |
| HY3 model, MTP, scripts, tools, benchmark | tensors; none | numeric code; launching | worker |

What is hard here:

* several batches are in flight while requests are preempted, resumed, aborted
  or reset (engine core, scheduler, workers);
* blocks enter the prefix cache when slots are *allocated*, before they are
  computed; they are shared by reference counts and evicted lazily;
* asynchronous scheduling counts tokens that do not exist yet;
* requests that do not fit together preempt each other and must all finish;
* the workers keep their own block tables and see only deltas;
* a pause or sleep call completes by a callback, when batches in flight have
  drained, while requests keep arriving;
* the ring buffer is shared memory without locks, with readers that sleep;
* clients, coordinator and data parallel engines each have their own idea of
  the wave under way, and their messages cross;
* the tool parser decides what to send before it has seen the rest of the text.

The hazards, each at its line and with the properties aimed at it, are listed
in `PROJECT.json`.

## 2. Modules

| module | models | composes |
|---|---|---|
| `KVCache` | block pool, block tables, manager; an arbitrary client | – |
| `Scheduler` | scheduler, asynchronous scheduler, batch queue, aborts, pause and sleep, worker tables and KV contents | extends `KVCache` |
| `FreeBlockQueue` | what the pool expects of the free queue (abstract) | – |
| `FreeKVCacheBlockQueue` | the linked list as implemented | refines `FreeBlockQueue` |
| `BroadcastChannel` | what executor and workers expect of a message queue (abstract) | – |
| `MessageQueue` | the ring buffer, its flags and the sockets beside it | refines `BroadcastChannel` |
| `DPWaves` | data parallel engines, clients and coordinator | – |
| `ToolParser` | the HY3 tool parser, streaming and not | – |
| `MCKVCache`, `MCScheduler`, `MCToolParser` | constants for TLC | extend the above |
| `SequenceLemmas` | facts about sequences and numbers several proofs need | – |
| `FreeQueueProofs` | theorems about `FreeKVCacheBlockQueue`: it implements `FreeBlockQueue` | extends `FreeKVCacheBlockQueue`, `SequenceLemmas` |
| `KVCacheProofs` | theorems about `KVCache`: counts, queue, hashes, tables; order of eviction, prefixes, common prefix | extends `KVCache`, `SequenceLemmas` |
| `SchedulerProofs` | theorems about `Scheduler`: queues, steps, resumption, sleep, placeholders | extends `Scheduler`, `KVCacheProofs` |
| `SchedulerCacheProofs` | theorems about `Scheduler` and its cache: tokens, slots, budget, worker tables, types | extends `SchedulerProofs` |
| `SchedulerOutputProofs` | theorems about `Scheduler`, what requests compute and output: sampled tokens, KV contents, progress of each step | extends `SchedulerCacheProofs` |
| `MessageQueueProofs` | theorems about `MessageQueue`, its refinement of `BroadcastChannel` included | extends `MessageQueue` |
| `DPWavesProofs` | theorems about `DPWaves` | extends `DPWaves` |

### KVCache

The variables have the names of the attributes: `ref_cnt`, `block_hash`,
`cached_block_hash_to_block` (a set of pairs, since one hash may have several
blocks), `free_block_queue`, `req_to_blocks`, `num_cached_block`, and
`all_token_ids` of the requests. Block 0 is the null block. The hash of a block
is the token prefix up to its end, i.e. an ideal chained hash: two hashes are
equal exactly when the prefixes are.

Each call of the manager is one action with everything it does:
`AllocateSlots` checks the free blocks, touches the hits, pops new blocks,
evicts what they cached, extends the table and caches the blocks filled;
`FreeRequest` dereferences the table and appends the unreferenced blocks in
reverse order; `CacheBlocks`, `ResetPrefixCache` as in the code. `KVNext` lets
an arbitrary client call them in any order, with any number of tokens the code
admits: `total` ranges from one token beyond the hits to `MaxModelLen`. A lookup
may also be skipped (`skip_reading_prefix_cache`).

### Scheduler

One thread executes `schedule()`, the dispatch and `update_from_output()`. The
loops are unrolled, one action per iteration, and `pc` says where the thread is:

| pc | actions | code |
|---|---|---|
| idle | AddRequest, AbortRequest, ResetIdleCache, ResetStart, Sleep, WakeUp, IdleCallback, StartSchedule, DrainQueue | the busy loop reads its input queue |
| abort | SleepAborts, SleepAborted | `pause_scheduler("abort")` finishes all requests |
| clear | ResetPreempt, FallAsleep | the idle callback of `sleep()` |
| reset | ResetPreempt, ResetFinish | `reset_prefix_cache(reset_running_requests=True)` |
| running, alloc | SkipRunning, PickRunning, ScheduleRunning, PreemptVictim, RunningDone | first loop of `schedule()` |
| waiting | ScheduleWaiting, WaitingDone | second loop |
| dispatch | Dispatch | end of `schedule()`, `_update_after_schedule`, `execute_model` |
| result | TakeResult, AbortRequest | `future.result()`, `_process_aborts_queue` |
| update, cache, stop | SkipOutput, AppendOutput, CacheOutput, StopRequest | `update_from_output` |

The early return of `step_with_batch_queue` depends on whether the oldest
future is done; `Dispatch` chooses. The stop and the abort of a request end in
the same `FinishRequest`. Workers execute batches in the order of dispatch
(one stream per stage, FIFO queues), so a batch writes its KV when it is
dispatched, while its sampled tokens arrive with `TakeResult`. `kv[b]` is the
token prefix whose keys and values block `b` holds. The model is deterministic:
the token sampled at position p is p, so an output shows for which position it
was sampled. Sampling eos is a free choice.

Abstractions: text requests with one KV cache group, prefix caching on, no
speculative tokens, no connector, no LoRA limit. A request id is used again
only after everything of its last use has left the engine.

`sleep(level, mode)` pauses the scheduler as its mode says (`SleepCalls` lists
the calls the clients of a run make). A call of level 0 ("pause") returns when
the engine is idle; a higher level ("sleep") then resets the caches, preempting
what was kept running, and discards the KV. Clients call `wake_up()` once
`sleep()` has returned, and one call is under way at a time.

### The free queue

`FreeKVCacheBlockQueue` keeps `next_free_block` and `prev_free_block` of every
block and of the two fake ends. `popleft` and `remove` are pointer updates;
`popleft_n` and `append_n` follow the pointers the loops follow. Blocks are
given back only after having been taken, as the pool does. The list of a new
pool holds the blocks in the order of their numbers.

### The message queue

Accesses to shared memory interleave: testing and clearing the written flag,
filling the chunk, clearing each read flag, publishing, and on the other side
loading the two flags, reading, setting the read flag. The code puts memory
fences between them, so their interleavings are all there is. Two accesses of a
process are one step where the other processes cannot tell the difference:
`AcquireWrite` clears the written flag and makes the content `Torn`, `EndRead`
looks at the content for the last time and sets the read flag. A reader that
finds nothing spins or sleeps; it wakes by a notification, a cancellation or,
if its calls have a timeout, by itself. A message larger than a chunk goes
through a socket after the chunk that announces it. Sockets are FIFO and
reliable, which `wait_until_ready` establishes before any message.

The writer's process may exit between any two steps (`WriterExit`), as processes
do when they are killed; nothing is cleaned up and none of its steps is taken
afterwards. Readers are shut down at any time (`Shutdown`), in the code by the
owner of the queue or by the monitor of the death pipe after the exit of the
parent process. `shutdown()` sets a flag and interrupts the wait of a local
reader. `recv` can neither be interrupted nor does it look at the flag, and a
remote reader is always there (section 5).

`BroadcastChannel` says what is promised: every reader receives 1, 2, 3, ..,
and the writer is at most `Capacity` messages (and the one a reader holds) ahead
of a local reader. A reader whose receipt of a *large* message times out has
already released the announcing chunk and loses its place; it is recorded in
`strayed` and nothing more is promised to it.

### DPWaves

Engines are in `input`, in the `forward` pass or in the all-reduce (`reduce`).
A forward pass is a collective: the expert-parallel exchange lets nobody through
before everybody has arrived. This is an assumption about code outside the
modelled files, and the reason why an engine that does not join stops all.
Each channel is FIFO, channels are not ordered among each other. The client's
stats task is split into its poll and its handling, since requests are sent in
between. Aborts are handled between steps; the coordinator publishes what it
changes and, periodically, its state again.

`exposed` records the two races in which the coordinator spares an engine that
will not run by itself (section 5); the properties are stated up to it.

### ToolParser

A text is a sequence of tags and characters; the tags are single tokens of the
tokenizer and never split. `ExtractToolCalls` is the non-streaming parser,
`ReceivePiece` one call of the streaming one with any number of symbols; the
deltas are added up. `burst` records a piece that holds the ends of two calls,
or content and the end of a call. Texts are closed, with distinct argument
names in a call and no control characters but line breaks; outside of these the
two parsers are not meant to agree to the letter (a repeated name: the first
value streams, the last one is extracted).

## 3. Runs

| run | instance | shows |
|---|---|---|
| `kv_cache` | 2 symmetric requests, 3 usable blocks of 2 tokens, 4 tokens, 2 token ids | consistency of counts, queue, map and tables; tails are evicted before heads, so cached prefixes are closed; the common prefix is really common |
| `free_queue` | 4 blocks | the linked list implements the abstract queue |
| `sched_pipeline` | 2 requests, 3 usable blocks of 2, length 6, 2 batches in flight, FCFS, `sleep` with modes keep, wait and abort | queues, outputs, computed KV, worker tables; sleeping workers are left alone; a step with work schedules something; every sleep call and every request ends; the scheduler implements `KVSpec` |
| `sched_async` | the same with asynchronous scheduling, 4 usable blocks, length 7, min_tokens 2, `sleep` with mode wait | outputs, computed KV, placeholders, the last position, progress of each step |
| `sched_priority` | priority policy, long prefills in chunks of 2, resets of running requests, pauses with mode abort, 1 batch | the limits of a step, resumption, outputs |
| `dp_waves` | 2 engines, 1 client, 2 requests of 1 or 2 passes, an all-reduce every 2 passes, 1 abort | engines stay in one wave, nobody is left out of a running wave, requests are finished and waves end |
| `message_queue` | 2 local readers, one with timeouts, 1 remote reader, 1 chunk, 2 messages; the writer may exit, readers may be shut down | a reader owns the chunk it reads; the queue implements the channel; no wake-up is lost; shutdown ends a reader unless it waits in `recv` for what never comes |
| `tool_parser` | 217 answers with up to 2 calls, cut in all ways | what streams is a prefix of what is extracted, and all of it at the end unless there was a burst |
| `v_priority`, `v_reset`, `v_pp3`, `v_min_tokens` | as small as the case allows | four disagreements between the code and what it says (section 5) |

Why the bounds are enough. Prompts of 3 and 5 tokens share their first block,
so a hit, a hit on a block in the free queue and a partial block all occur. One
request of maximal length fits into the pool (the code refuses to start
otherwise, `OneRequestFits`) but two do not, so preemption and resumption, with
and without surviving cached blocks, occur. The budget of 3 tokens is less than
a prompt, so prefills are chunked. Two batches in flight are what the
deployments with two stages and asynchronous scheduling use; three are in
`v_pp3`. Aborts are possible wherever the code accepts them. The token values
of `kv_cache` let two requests diverge after a common prefix. Two requests
cannot show a conflict that needs three; the theorems of section 4 close this
gap for what they state, for liveness it is a limit of the runs.

Two messages through one chunk wrap around: the writer finds the ring full,
reuses the chunk, and blocks for good behind a reader that was shut down. All
four properties were also checked with two chunks and three messages without a
remote reader, and with one chunk and three messages with one, in longer runs;
the safety properties are proved for every number. Two readers suffice for one
that is slow and one that is fast; a third one would only be a second slow one.
Two requests in `dp_waves`
can be stamped with the waves before and after an end of a wave; passes between
two all-reduces matter only by there being some, so 2 stand for the code's 32.
The invariants of `dp_waves` were also checked with two clients (no aborts) and
with three requests. The answers of `tool_parser` hold each construct of the
format once or twice, and cuts are exhaustive.

Symmetry is used only in `kv_cache`, which has no liveness property and whose
requests are interchangeable. `dp_waves` and `message_queue` end when all
requests or messages have been handled, so they do not check for deadlock;
`WavesEnd`, `Delivered` and `ShutdownEnds` say that they do not end earlier.
All other runs check it.

Fairness: `FairSpec` assumes weak fairness of `EngineStep`, i.e. the engine's
thread keeps running while it can and the workers answer. `run_busy_loop` is a
`while` loop that steps as long as there is work or a batch in flight;
`future.result()` blocks on a worker that either answers or fails the engine.
Nothing is assumed of clients. The liveness run keeps aborts and new arrivals
possible, and sleep calls, which need not be followed by `wake_up()`: requests
end unless the engine is paused. A sleep call ends unless requests end for ever
meanwhile, which takes clients that add and abort without pause.

`MessageQueue`: weak fairness of the writer once it is inside `enqueue`, as long
as its process lives (after `WriterExit` no step of it is enabled, so the
assumption is void), and of each reader; `Delivered` promises nothing after an
exit, `ShutdownEnds` does. Neither the exit nor a shutdown need happen; a sleeping reader without a timeout wakes only by a notification
or a cancellation, timeouts are never assumed to happen. `DPWaves`: weak
fairness of the engines and the coordinator together and of each client's stats
task (an asyncio task that only awaits its sockets); clients need not send.

Mutants (`PROJECT.json`, `mutants`) are operators next to the definition they
stand for, each a plausible bug; each breaks the property it is listed with.

## 4. Proofs

Each theorem holds for every value of the constants that the named assumptions
allow. Every inductive invariant was an invariant of TLC runs on small instances
before it was proved, and the proofs have one lemma per action of the module,
below it one step per conjunct the action can disturb.

### KVCache

`KVCacheProofs` proves for every set of requests, number of blocks, block size
and maximal length, and for every client:

* `KVInvariant`: `KVSpec => []KVInv`, and from it
* `KVTypeCorrect`, `TablesStayWellFormed`, `RefCountsAreExact`,
  `FreeQueueIsExact`, `HashMapIsExact`, `TablesHoldOwnPrefix`,
  `UncachedBlocksArePrivate`.

Assumptions: finitely many requests, prompts are non-empty sequences of tokens,
positive numbers of blocks and tokens per block (`RequestsFinite`,
`PromptsTyped`, `BlockSizes`).

The argument. None of the properties is inductive alone. That reference counts
stay exact needs that a hit is not already in the table (`TablesWellFormed`,
and through `TableHashes` that the hits of a request are distinct, because
distinct prefixes hash differently and the map holds one hash per block,
`HashMapExact`). That newly popped blocks are new to the table needs
`FreeQueueExact`, and that enough of them are there after touching the hits is
the lemma `EnoughFreeBlocks`: the check counts exactly the hits that leave the
queue. `TableHashes` survives the caching of a block by another request only
because the block being cached is private (`UncachedPrivate`), and its appeal
to the request's tokens needs that cached blocks lie within the known tokens
(`CachedWithinTable`). `NullUncached` keeps the null block out of every hit.
`KVInv` is the conjunction; `KVInitInv` and one lemma per action give
`KVStepInv`. Facts about the operators (`WithoutProperties`, `ConcatInjective`,
`SplitInjective`, `CachingHashes`, `HitFacts`, `AppendedBlocks`,
`EvictedHashes`) are stated once.

### Prefix cache

The second part of `KVCacheProofs` proves from the same assumptions, on top of
`KVInv`:

* `EvictionInvariant`: `KVSpec => []EvictionInv`;
* `CacheIsPrefixClosed`: `CachedPrefixClosed`;
* `CommonPrefixesAreShared`: `CommonPrefixIsShared`.

`CachedPrefixClosed` is not inductive, since it does not say what is evicted
next. `EvictionInv` is `KVInv` and `TailsGoFirst`: for every free block that
caches a prefix of more than one block, *some* block that caches the prefix one
block shorter is in use or comes later in the queue. It cannot be the block that
preceded it in a table: several blocks may have one hash, and a request may be
given a hit on any of them, so that predecessor may be freed and evicted
earlier. A block in use needs no such clause, because its table holds its
predecessor (`ChainInTable`, `HeldChain`). The steps: `free` appends a table in
reverse, so a block comes before the one it extends, unless another request
still holds that (`FreeTails`); `allocate_slots` takes hits out of the queue by
using them and pops from the head, so what is popped is behind nothing that
stays (`AllocateTails`); caching gives hashes to blocks in use only
(`CacheTails`). That a queue keeps its order when blocks are unlinked, popped or
appended is `WithoutOrder`, `RestOrder`, `ConcatOrder` and `ReverseOrder`.

`CommonPrefixIsShared` follows from `KVInv`. A block whose count is the number of
tables is in all of them (`RefCountExact`), and it is in the same place: being
shared it is cached (`UncachedPrivate`), and the hash of a cached block tells
how long the prefix is that it ends (`SamePlace`).

The scheduler implements `KVSpec` (`SchedulerUsesCache` below), so both hold
of the running system.

### Scheduler: control

`SchedulerProofs` proves `ControlInvariant`: `Spec => []ControlInv`, for both
policies, synchronous and asynchronous scheduling and any number of batches in
flight, requests, blocks and sleep calls, and from it

* `QueuesAreExact`: `QueuesExact`;
* `ResumedWereNotInPrevStep`: `ResumedNotInPrevStep`;
* `SleepIsUndisturbed`: `SleepUndisturbed`;
* `PlaceholdersAreExact`: `PlaceholdersExact`, if an asynchronous scheduler is
  never reset with requests running (`NeverResets`; item 2 of section 5 is what
  happens otherwise).

Its assumptions are those of `KVCache` and `SchedulerConfig`. Nothing in
`ControlInv` depends on how many tokens a request has, so numbers are only
integers here, and the proof does not rest on the cache. Its parts:

* `StepInOrder`: the scheduled requests are running ones, each once, and the
  first loop of `schedule()` has them behind `req_index`; the request at hand is
  not scheduled yet. This is what makes `req_index - 1` right when a victim that
  was already scheduled leaves the list.
* `Resumptions`: a request of the previous step that is preempted now is in
  `preempted_reqs`, so no request is admitted in this step, or a reset is under
  way that will clear the set. The assertion about resumed requests follows.
* `Sleeping`: a sleep call under way means a paused scheduler, and the workers
  sleep only when nothing runs.
* `BatchesInFlight`: the bounds of the batch queue, and that the request of the
  output at hand has not ended once its token is appended.
* `Placeholders`: the count of samples in flight, and under resets that a
  request has at most one sample more in flight than it expects, which its
  discard flag stands for. This holds with up to two batches in flight
  (`DiscardsSuffice`).

### Scheduler: numbers, cache and workers

`SchedulerCacheProofs` proves `UseInvariant`, the invariance of `ControlInv`,
`KVInv` and `NumbersInv` together, and from it

* `SchedulerUsesCache`: `Spec => KVSpec`. Every call of the scheduler is one the
  cache manager admits, so all theorems about `KVSpec` hold of the scheduler;
* `ComputedTokensExist`: `ComputedWithinTokens`;
* `StepsStayWithinLimits`: `ScheduleWithinLimits`, with the invariant `Budget`;
* `WorkersAgree`: `WorkerTablesAgree`, with the invariant `WorkersInv`;
* `SchedulerTypes`: `SchedTypeOK`.

`NumbersInv` says that every running request, once the step under way is done,
has computed no more than the tokens that exist or are being sampled, leaves the
last position alone and has slots for all of it (`Covered`); that the request at
hand is given a positive number of tokens within the budget (`Granted`); and
that a request with a token at the last position is about to be stopped
(`TokensOf`). The cache calls are admitted because of it, the cache keeps
`KVInv` because they are, and the slots are there because of `KVInv`: the three
invariants are proved by one induction. `Budget` carries the running totals of
the step along, since the sum of a step is defined recursively and a preemption
takes a summand out of its middle. `WorkersInv` states what the workers' tables
will be when the step under way has been sent.

These five theorems assume `Supported`, two conditions the code does not
establish:

* a prompt leaves room for `min_tokens` tokens. Otherwise a request reaches the
  end of the model without stopping (item 4 of section 5), and the number of
  tokens it may still be given becomes zero for good, or negative;
* `DiscardsSuffice` under asynchronous scheduling: with resets of running
  requests, at most two batches are in flight. With three, two samples of a
  request can be in flight when it is reset, one flag discards only one of them,
  and `num_output_placeholders` becomes negative (the assertion of
  `async_scheduler.py` fails). `max_concurrent_batches` is two for asynchronous
  scheduling unless there are more pipeline stages; without asynchronous
  scheduling, or without resets of running requests, the condition is void.

Besides, the assumptions of the constants are used: `OneRequestFits` (prompts
are shorter than the model's length) and `PositionsAreTokens` (the model's
sampled tokens are tokens). All passing runs of `Scheduler` satisfy `Supported`.

### Scheduler: output, KV contents and progress

`SchedulerOutputProofs` proves

* `SamplesInTurn`: the invariant `OutputInv`, and from it `OutputIsExact`:
  `OutputExact`;
* `ComputedInvariant`: the invariant `ComputedInv`, and from it
  `ComputedIsPresent`: `ComputedKVPresent`;
* `WorkInvariant`: the invariant `WorkInv`, and from it `StepsProgress`:
  `StepsMakeProgress`.

`OutputExact` says nothing about the tokens still on their way. `OutputInv` adds
that the samples of a request in flight are for the positions after its last
token, as many as `num_output_placeholders` counts under asynchronous scheduling
and one at most under synchronous scheduling, that they arrive in the order of
their positions (`Awaited`), and that a synchronous scheduler has nothing to
schedule for a request whose sample is in flight, and does not resume a
preempted one before its sample has arrived (`Waits`). The delicate step is
`Dispatch`: that the batch samples the position after those in flight follows
from `ComputedWithinTokens`' invariant (`Covered`) and from the test for a
prefill chunk.

`ComputedKVPresent` holds when a step has been sent; during `schedule()` it does
not, because `allocate_slots()` hashes the blocks a step *will* fill, and the
next request of the same step may hit them. `ComputedInv` says what is then
true: every hashed block, and every block of a running request up to its
computed tokens, holds the KV of its tokens or is filled by the batch about to
leave (`Due`, in `HashesComputed` and `TableComputed`). It adds

* `CachedInTime`: no block is hashed for tokens that neither are computed nor
  will be by this step;
* `OneWriter`: of two requests that share a block, one at most has still to write
  it, so that what the workers write (`WrittenByOne`) is nobody else's;
* `StepBeforeCur`: the scheduled requests stand before the one slots are being
  found for. The victim of "fcfs", the last of `running`, is therefore not
  scheduled, and nothing that was promised to be computed is withdrawn.

Every action keeps `ComputedInv` for these reasons; in `Dispatch` the promise is
kept: what is due is written (`DispatchComputed`), and a block that two requests
share has one hash, which tells that both hold the same prefix in it.

`StepsMakeProgress` is the part of `EveryRequestEnds` that needs no fairness: a
step with work, and no result to wait for, schedules at least one request. The
priority policy is excepted where a step preempts the requests it had scheduled
and then the one at hand; those left in `running` have their turn in the next
step. Three requests can do this, so the exception is needed. `WorkInv` says

* `LeftToCompute`: a running request has tokens to compute, or (synchronous
  scheduling) its sample is in flight;
* `Progress`: with nothing in flight, every running request before `req_index`
  is scheduled, so the first loop skips nobody; the budget is not spent while
  nothing is scheduled; a request is preempted only while others run, because one
  alone is always given its slots (`AloneCanAllocate`, which counts the blocks of
  the pool: those not in its table are free, and `OneRequestFits`); and after the
  loops nothing is scheduled only if nothing runs and nothing waits.

The conditions are exactly what excludes the disagreements of section 5:

* `Supported`, as above;
* `InTurn`: an asynchronous scheduler is not reset with requests running
  (item 2), a synchronous one has at most two batches in flight, or one if it is
  so reset (item 3). For asynchronous scheduling any number may be in flight;
* for `ComputedIsPresent`, `Policy = "fcfs"` (item 1).

`StepsProgress` assumes `Supported` and `Counted`: an asynchronous scheduler is
not reset with requests running (item 2). It holds for both policies and any
number of batches in flight.

The runs `sched_pipeline` and `sched_async`, and the default deployments, satisfy
all of them, and the violating runs `v_reset`, `v_pp3` and `v_priority` fail one
condition each.

### The free queue

`FreeQueueProofs` proves for any number of blocks and any sequence of calls:
`LinkInvariant`, `ListIsDoublyLinked` (`DoublyLinked`) and `ListImplementsQueue`
(`ImplementsQueue`, the refinement). Assumption: the number of blocks is a
natural number (`BlockCount`).

`DoublyLinked` is not inductive: two pointers that point at each other may still
be a cycle apart from the fake ends. `LinkInv` says that *some* sequence of
distinct blocks, between the fake ends, is what both directions run through, that
its length is the count and that every other block has no pointers. Each call is
shown to turn the list of a sequence into the list of the abstract call's result.
`ListIsQueue` closes the gap to the refinement mapping: following the pointers
from the fake head, as `get_all_free_blocks` does, yields exactly this sequence.

### MessageQueue

`MessageQueueProofs` proves for any number of local and remote readers, chunks
and messages, and every pattern of timeouts, shutdowns and exits of the writer, under
`QueueAssumption`: `QueueInvariant`, from it `OwnedChunks`
(`ReadersOwnTheirChunk`) and `QueueBroadcasts` (`Broadcasts`: the ring buffer
implements `BroadcastChannel`, step by step).

Indices wrap around, so the state alone does not say which message a chunk
holds. The invariant `QueueInv` is existential in two quantities the history
determines, `taken[r]`, the chunks reader r has released, and `big`, the
messages that did not fit into a chunk: message k is in chunk k modulo the
number of chunks as long as it is among the last ones sent, its read flags tell
who has taken it, and each reader's index is its `taken`. A reader between its
loads of the two flags is the delicate case: a read flag seen as clear belongs
to a message not yet read *if* the written flag is set afterwards. For a large
message the invariant relates the chunk that announces it, the socket and what
the reader has got.

### DPWaves

`DPWavesProofs` proves for any number of engines, clients and requests, and
messages delayed arbitrarily: `WaveInvariant`, `EnginesShareTheWave`
(`WavesAgree`) and `EveryEngineJoins` (`NoEngineLeftBehind`). `DPInv` bounds the
wave number of every message under way by what its sender knew (`WavesBounded`),
keeps the engines in step between two all-reduces (`Lockstep`), and says of
every message that can make the coordinator spare an engine that this engine
joins by itself or is recorded in `exposed` (`SparedJoin`).

`DPAssumption` has an all-reduce every `SyncInterval > 1` passes. The code uses
32. With 1 both properties fail in the model, since an engine could start a pass
after the all-reduce that ended the wave; the code cannot be configured so.

### Only model-checked

* `StreamIsPrefix`, `CompleteUnlessBurst` and `CompleteOnceDrained` of
  `ToolParser`: they compare two recursions over the text, which the prover
  cannot use;
* all liveness: `SleepCompletes`, `EveryRequestEnds`, `WavesEnd`, `Delivered`,
  `ShutdownEnds`. Fairness and ENABLED are outside of what the prover handles.
  Of `EveryRequestEnds` the safety part is proved, `StepsProgress`; that every
  request ends when each step computes something is left to TLC.

The induction theorems of the library cannot be instantiated with the installed
provers. Where an induction over numbers is needed (a minimum over the ranks,
the last position of a set, the sum of a step) the lemma `NatInductive` derives
it from the well-foundedness of finite sets. What an operator computes by
recursion over a structure stays with TLC.

## 5. Disagreements found

1. `v_priority`: under the priority policy a request that was scheduled earlier
   in a step can be preempted in the same step. Its blocks were hashed when its
   slots were allocated but are never computed. Later hits return them, although
   the design document calls hits "blocks that have already been computed".
2. `v_reset`: with asynchronous scheduling,
   `reset_prefix_cache(reset_running_requests=True)` makes every running request
   discard its next token, also when none was in flight; the output then lacks
   a token. The discarded token stays counted in `num_output_placeholders`, so a
   request that discards the last token it could compute is never scheduled
   again and never ends: the same instance violates `StepsMakeProgress`.
3. `v_pp3`: with three or more batches in flight under synchronous scheduling a
   preempted request can be resumed before its in-flight token arrives; the
   position is sampled again and both tokens are appended. Two batches suffice
   if clients call `reset_prefix_cache(reset_running_requests=True)`: the reset
   sets `discard_latest_async_tokens`, but only the asynchronous scheduler looks
   at it.
4. `v_min_tokens`: `check_stop` looks at `min_tokens` before `max_model_len`; a
   request that reaches the end of the model first stays in `running` forever.

The default deployments (FCFS, two stages, no resets) are not exposed to the
first three.

Met while modelling, without a run of their own; where a passing run is stated
up to one of them, a history variable records it:

* `exposed` of `DPWaves`, never cleared: what follows one of the two races is
  not checked, and the properties do not cover these races themselves. The docstring of `_send_start_wave` says that the
  excluded engine has already received a request with this wave number. It need
  not run for it: its only request may be aborted before its first step, or the
  stats task may have sent the client's present wave instead of the one the
  request was stamped with. The other engines then wait in their forward pass.
* `strayed` of `MessageQueue`: a large message whose receipt times out after its
  chunk was released (`dequeue`); later calls return messages out of place.
  `Broadcasts` and `Delivered` speak of the readers that are not strayed.
* `NothingToRecv` of `MessageQueue`. The docstring of `shutdown` says that it
  wakes an idle reader up so that it can shut down (`shm_broadcast.py:530`). A
  reader in `recv` is not woken up: any remote reader (worker queues on other
  nodes, `nnodes_within_dp` > 1), and a local reader of a large message whose
  writer exited between publishing the chunk and sending the message. Without
  the exemption `ShutdownEnds` fails in both cases.
* `burst` of `ToolParser`: the streaming parser returns one delta per piece, so
  a piece with two calls leaves the second in the buffer until another piece,
  and loses it if the answer has ended. `CompleteUnlessBurst` exempts such
  answers; `CompleteOnceDrained` covers them as far as further calls come.
* `sleep` with mode wait counts running requests only: preempted ones that wait
  are not finished before it returns.
* `sleep` with mode keep resets running requests and so meets item 2 under
  asynchronous scheduling.
* `wake_up()` does not cancel the callback of a `sleep()` that has not returned.

## 6. Not modelled, and the plan

Not modelled yet, in the order in which they are worth it:

1. The executor: `collective_rpc` over two message queues, where a time-out or a
   failure of one worker leaves the answers of others in their queues.
2. The rest of the engine core process: input and output threads, utility
   calls, shutdown with draining; `wake_up()` before `sleep()` has returned.
3. `DPWaves`: pause and resume across ranks, elastic scaling, the request counts
   for load balancing, ranks without a coordinator.
4. The front end: merging of outputs in the per-request queues, abort races.
5. `Scheduler`: deferred structured-output sampling, streaming sessions,
   speculative tokens; the break out of the waiting loop when chunked prefill is
   disabled and a prompt exceeds the budget (`enable_chunked_prefill=False`,
   scheduler.py:662-668; it is enabled by default).

Proofs: every safety invariant of `KVCache`, `Scheduler`, the free queue, the
message queue and `DPWaves` that a run checks is proved, and so are the three
refinements. What is left is `ToolParser` and the liveness properties (section
4, "Only model-checked"). New parts should bring their invariants in the same
form.

Left out for good: HY3 model and MTP code, kernels, quantisation and model
definitions (numeric code, by far the largest part of the repository's lines),
weight loading, the reasoning parser (a choice between two parsers of vLLM,
without state), encoder caches (text model), KV connectors (external stores, not
configured), hybrid KV cache groups (HY3 has one group), launch scripts, tools
and benchmark.
