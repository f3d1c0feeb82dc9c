------------------------------ MODULE Scheduler ------------------------------
(***************************************************************************)
(* The engine core's loop: the scheduler (vllm/v1/core/sched/scheduler.py  *)
(* and async_scheduler.py) over the KV cache, and the batch queue of       *)
(* EngineCore.step_with_batch_queue (vllm/v1/engine/core.py) that keeps    *)
(* several batches in flight under pipeline parallelism or asynchronous    *)
(* scheduling.                                                             *)
(*                                                                         *)
(* One thread runs schedule(), dispatch, and update_from_output(); the     *)
(* loops of these methods are unrolled into one action per iteration, and  *)
(* pc says where the thread is.  Clients act where the thread reads its    *)
(* input queue (pc = "idle") and, for aborts, also after a result arrived  *)
(* (pc = "result").  The workers execute batches in dispatch order, so     *)
(* what a batch writes is written when it is dispatched.                   *)
(***************************************************************************)
EXTENDS KVCache

CONSTANTS
    Policy,                 \* "fcfs" or "priority"
    Rank,                   \* (priority, arrival_time) of a request, smaller first
    AsyncScheduling,        \* AsyncScheduler instead of Scheduler
    BatchQueueSize,         \* model_executor.max_concurrent_batches
    MaxNumScheduledTokens,  \* token budget of a step
    MaxNumRunningReqs,
    LongPrefillThreshold,   \* long_prefill_token_threshold, 0 when off
    MaxTokens,              \* sampling_params.max_tokens
    MinTokens,              \* sampling_params.min_tokens
    ResetRunningRequests,   \* whether clients call reset_prefix_cache with
                            \* reset_running_requests=True
    SleepCalls              \* <<mode, level>> of the sleep() calls clients make

ASSUME SchedulerConfig ==
    /\ Policy \in {"fcfs", "priority"}
    /\ Rank \in [Requests -> Nat] /\ IsInjective(Rank)
    /\ AsyncScheduling \in BOOLEAN /\ ResetRunningRequests \in BOOLEAN
    /\ BatchQueueSize \in Nat \ {0}
    /\ MaxNumScheduledTokens \in Nat \ {0} /\ MaxNumRunningReqs \in Nat \ {0}
    /\ LongPrefillThreshold \in Nat
    /\ MaxTokens \in Nat \ {0} /\ MinTokens \in 0 .. MaxTokens
    /\ SleepCalls \subseteq {"abort", "wait", "keep"} \X {"pause", "sleep"}

(* A request of maximal length fits into the pool: checked at startup by   *)
(* check_enough_kv_cache_memory.  Prompts leave room for an output token.  *)
ASSUME OneRequestFits ==
    /\ (NumGpuBlocks - 1) * BlockSize >= MaxModelLen
    /\ \A p \in Prompts : Len(p) < MaxModelLen

(* Positions are token ids as well: see TrueTokens. *)
ASSUME PositionsAreTokens == 1 .. MaxModelLen \subseteq Token

VARIABLES
    status,             \* RequestStatus; "none" before arrival and once freed
    num_prompt_tokens,
    num_computed_tokens,
    num_output_placeholders,
    discard_latest_async_tokens,
    running,            \* self.running
    waiting,            \* self.waiting, next request first
    prev_step_scheduled_req_ids,
    finished_req_ids,
    pc,                 \* where the thread is
    req_index, token_budget, preempted_reqs, \* locals of schedule()
    cur,                \* <<request, num_new_tokens>> of the allocation loop
    sched,              \* requests scheduled in this step, in order
    batch_queue,        \* batches in flight, oldest first
    outputs,            \* entries of the taken result still to be processed
    stopped,            \* check_stop of the entry being processed
    worker_blocks,      \* block tables the workers keep
    kv,                 \* per block, the token prefix whose KV it holds
    pause_state,        \* PauseState of the scheduler
    sleep_call,         \* sleep() call under way: "none", "pause" (level 0), "sleep"
    asleep              \* the workers sleep, their KV cache is gone

reqvars   == <<status, num_prompt_tokens, num_computed_tokens,
               num_output_placeholders, discard_latest_async_tokens>>
queuevars == <<running, waiting, prev_step_scheduled_req_ids, finished_req_ids>>
stepvars  == <<req_index, token_budget, preempted_reqs, cur, sched>>
flightvars == <<batch_queue, outputs, stopped>>
workervars == <<worker_blocks, kv>>
sleepvars == <<pause_state, sleep_call, asleep>>
vars == <<kvvars, reqvars, queuevars, pc, stepvars, flightvars, workervars, sleepvars>>

-----------------------------------------------------------------------------
(* request_queue.py: a deque for FCFS, a heap by Rank for PRIORITY. *)
InsertByRank(q, r) ==
    InsertAt(q, Cardinality({i \in DOMAIN q : Rank[q[i]] < Rank[r]}) + 1, r)

AddRequestTo(q, r) == IF Policy = "fcfs" THEN Append(q, r) ELSE InsertByRank(q, r)
PrependRequest(q, r) == IF Policy = "fcfs" THEN <<r>> \o q ELSE InsertByRank(q, r)

(* list.remove: q without the request r, if it is there. *)
RemoveFrom(q, r) ==
    IF r \in Range(q) THEN RemoveAt(q, CHOOSE i \in DOMAIN q : q[i] = r) ELSE q

(* Mutant: requests held back by a pause count as work. *)
HasRequestsHeldBack == running # <<>> \/ waiting # <<>> \/ finished_req_ids # {}

HasRequests ==
    \/ finished_req_ids # {}
    \/ pause_state # "PAUSED_ALL" /\ running # <<>>
    \/ pause_state = "UNPAUSED" /\ waiting # <<>>

InFlight(r) == \/ \E i \in DOMAIN batch_queue : \E j \in DOMAIN batch_queue[i] :
                       batch_queue[i][j].req = r
               \/ \E j \in DOMAIN outputs : outputs[j].req = r

(* num_scheduled_tokens: the requests of this step and their tokens. *)
Scheduled == {sched[i].req : i \in DOMAIN sched}
ScheduledAt(r) == CHOOSE i \in DOMAIN sched : sched[i].req = r
NumScheduledTokens(r) == IF r \in Scheduled THEN sched[ScheduledAt(r)].n ELSE 0

(* What schedule() leaves for the next step. *)
PrevStep == Scheduled

(* The model is deterministic: the token sampled at position p is p, so an *)
(* output token shows for which position it was sampled.                   *)
TrueTokens(r, n) ==
    [p \in 1 .. n |-> IF p <= num_prompt_tokens[r] THEN all_token_ids[r][p] ELSE p]

-----------------------------------------------------------------------------
(* Clients.  Request ids are unique: an id comes back only when nothing of *)
(* its last use is in flight.                                              *)
AddRequest(r, prompt) ==
    /\ pc = "idle" /\ status[r] = "none" /\ ~InFlight(r) /\ r \notin finished_req_ids
    /\ NewRequest(r, prompt)
    /\ status' = [status EXCEPT ![r] = "WAITING"]
    /\ num_prompt_tokens' = [num_prompt_tokens EXCEPT ![r] = Len(prompt)]
    /\ waiting' = AddRequestTo(waiting, r)
    /\ UNCHANGED <<num_computed_tokens, num_output_placeholders, discard_latest_async_tokens,
                   running, prev_step_scheduled_req_ids, finished_req_ids,
                   pc, stepvars, flightvars, workervars, sleepvars>>

(* _free_request: the tail of every way a request ends.  The request       *)
(* object is deleted; the workers learn of it from finished_req_ids.       *)
FinishRequest(r) ==
    /\ Finish(r)
    /\ status' = [status EXCEPT ![r] = "none"]
    /\ num_prompt_tokens' = [num_prompt_tokens EXCEPT ![r] = 0]
    /\ num_computed_tokens' = [num_computed_tokens EXCEPT ![r] = 0]
    /\ num_output_placeholders' = [num_output_placeholders EXCEPT ![r] = 0]
    /\ discard_latest_async_tokens' = [discard_latest_async_tokens EXCEPT ![r] = FALSE]
    /\ running' = RemoveFrom(running, r)
    /\ waiting' = RemoveFrom(waiting, r)
    /\ finished_req_ids' = finished_req_ids \cup {r}

AbortRequest(r) ==
    /\ pc \in {"idle", "result"} /\ status[r] # "none"
    /\ FinishRequest(r)
    /\ UNCHANGED <<prev_step_scheduled_req_ids, pc, stepvars, flightvars, workervars, sleepvars>>

(* Mutant: a preempted request still counts its tokens as computed. *)
PreemptKeepsComputed(r) ==
    /\ Preempt(r)
    /\ status' = [status EXCEPT ![r] = "PREEMPTED"]
    /\ waiting' = PrependRequest(waiting, r)
    /\ UNCHANGED <<num_computed_tokens, num_prompt_tokens>>

(* _preempt_request; the caller has popped the request from running. *)
PreemptRequest(r) ==
    /\ Preempt(r)
    /\ status' = [status EXCEPT ![r] = "PREEMPTED"]
    /\ num_computed_tokens' = [num_computed_tokens EXCEPT ![r] = 0]
    /\ waiting' = PrependRequest(waiting, r)
    /\ UNCHANGED num_prompt_tokens

(* Mutant: the cache is dropped although requests hold cached blocks. *)
ResetInUse ==
    /\ pc = "idle"
    /\ cached_block_hash_to_block' = {} /\ block_hash' = [b \in Block |-> NoHash]
    /\ UNCHANGED <<ref_cnt, free_block_queue, tablevars, all_token_ids, reqvars, queuevars, pc,
                   stepvars, flightvars, workervars, sleepvars>>

(* reset_prefix_cache, called between steps.  Without                      *)
(* reset_running_requests it fails unless every block is free.             *)
ResetIdleCache ==
    /\ pc = "idle"
    /\ Reset
    /\ UNCHANGED <<reqvars, queuevars, pc, stepvars, flightvars, workervars, sleepvars>>

(* With it, every running request is preempted first, last to first; then  *)
(* the reset must succeed.                                                 *)
ResetStart ==
    /\ ResetRunningRequests /\ pc = "idle"
    /\ pc' = "reset"
    /\ UNCHANGED <<kvvars, reqvars, queuevars, stepvars, flightvars, workervars, sleepvars>>

ResetPreempt ==
    /\ pc \in {"reset", "clear"} /\ running # <<>>
    /\ LET r == Last(running)
       IN  /\ PreemptRequest(r)
           /\ num_output_placeholders' = [num_output_placeholders EXCEPT ![r] = 0]
           /\ discard_latest_async_tokens' = [discard_latest_async_tokens EXCEPT ![r] = TRUE]
    /\ running' = Front(running)
    /\ UNCHANGED <<prev_step_scheduled_req_ids, finished_req_ids, pc, stepvars, flightvars,
                   workervars, sleepvars>>

ResetFinish ==
    /\ pc = "reset" /\ running = <<>>
    /\ Reset
    /\ prev_step_scheduled_req_ids' = {}
    /\ pc' = "idle"
    /\ UNCHANGED <<reqvars, running, waiting, finished_req_ids, stepvars, flightvars, workervars, sleepvars>>

-----------------------------------------------------------------------------
(* sleep() pauses the scheduler: "keep" stops all requests where they are, *)
(* "wait" lets the running ones end, "abort" ends all.  The call is over   *)
(* when the engine has become idle; a sleep then drops the caches and the  *)
(* memory of the workers, a mere pause (level 0) does not.  Bound: one     *)
(* call at a time, and clients wait for it before they call wake_up().     *)
Sleep(mode, level) ==
    /\ pc = "idle" /\ pause_state = "UNPAUSED" /\ sleep_call = "none"
    /\ sleep_call' = level
    /\ \/ mode = "abort" /\ pc' = "abort" /\ UNCHANGED pause_state
       \/ mode = "wait" /\ pause_state' = "PAUSED_NEW" /\ UNCHANGED pc
       \/ mode = "keep" /\ pause_state' = "PAUSED_ALL" /\ UNCHANGED pc
    /\ UNCHANGED <<kvvars, reqvars, queuevars, stepvars, flightvars, workervars, asleep>>

SleepAborts(r) ==
    /\ pc = "abort" /\ status[r] # "none"
    /\ FinishRequest(r)
    /\ UNCHANGED <<prev_step_scheduled_req_ids, pc, stepvars, flightvars, workervars, sleepvars>>

SleepAborted ==
    /\ pc = "abort" /\ \A r \in Requests : status[r] = "none"
    /\ pause_state' = "PAUSED_NEW" /\ pc' = "idle"
    /\ UNCHANGED <<kvvars, reqvars, queuevars, stepvars, flightvars, workervars,
                   sleep_call, asleep>>

(* has_work of the engine core.  Mutant: batches in flight are forgotten. *)
HasWorkToSchedule == HasRequests
HasWork == HasRequests \/ batch_queue # <<>>

(* The idle callback of the call, run when there is no work left. *)
IdleCallback ==
    /\ pc = "idle" /\ sleep_call # "none" /\ ~HasWork
    /\ \/ sleep_call = "pause" /\ sleep_call' = "none" /\ UNCHANGED pc
       \/ sleep_call = "sleep" /\ pc' = "clear" /\ UNCHANGED sleep_call
    /\ UNCHANGED <<kvvars, reqvars, queuevars, stepvars, flightvars, workervars,
                   pause_state, asleep>>

(* _reset_caches has preempted what was kept running; the workers sleep. *)
FallAsleep ==
    /\ pc = "clear" /\ running = <<>>
    /\ Reset
    /\ prev_step_scheduled_req_ids' = {}
    /\ kv' = [b \in Block |-> <<>>] /\ asleep' = TRUE
    /\ sleep_call' = "none" /\ pc' = "idle"
    /\ UNCHANGED <<reqvars, running, waiting, finished_req_ids, stepvars, flightvars,
                   worker_blocks, pause_state>>

WakeUp ==
    /\ pc = "idle" /\ pause_state # "UNPAUSED" /\ sleep_call = "none"
    /\ pause_state' = "UNPAUSED" /\ asleep' = FALSE
    /\ UNCHANGED <<kvvars, reqvars, queuevars, pc, stepvars, flightvars, workervars, sleep_call>>

-----------------------------------------------------------------------------
(* schedule(), first part: the running requests in order. *)
StartSchedule ==
    /\ pc = "idle" /\ HasRequests
    /\ pc' = "running"
    /\ req_index' = 1
    /\ token_budget' = IF pause_state = "PAUSED_ALL" THEN 0 ELSE MaxNumScheduledTokens
    /\ preempted_reqs' = {} /\ sched' = <<>>
    /\ UNCHANGED <<kvvars, reqvars, queuevars, cur, flightvars, workervars, sleepvars>>

Capped(n) == IF 0 < LongPrefillThreshold /\ LongPrefillThreshold < n
             THEN LongPrefillThreshold ELSE n

(* The last step in flight is known to reach max_tokens. *)
NoFurtherStep(r) ==
    /\ num_output_placeholders[r] > 0
    /\ num_computed_tokens[r] + 2 - num_output_placeholders[r] >= num_prompt_tokens[r] + MaxTokens

(* Mutant: the last position of the model is scheduled as well. *)
NumNewTokensToEnd(r) ==
    Min({Capped(NumTokens(r) + num_output_placeholders[r] - num_computed_tokens[r]),
         token_budget, MaxModelLen - num_computed_tokens[r]})

NumNewTokens(r) ==
    Min({Capped(NumTokens(r) + num_output_placeholders[r] - num_computed_tokens[r]),
         token_budget, MaxModelLen - 1 - num_computed_tokens[r]})

MoreRunning == req_index <= Len(running) /\ token_budget > 0

SkipRunning ==
    /\ pc = "running" /\ MoreRunning
    /\ LET r == running[req_index] IN NoFurtherStep(r) \/ NumNewTokens(r) = 0
    /\ req_index' = req_index + 1
    /\ UNCHANGED <<kvvars, reqvars, queuevars, pc, token_budget, preempted_reqs, cur, sched,
                   flightvars, workervars, sleepvars>>

PickRunning ==
    /\ pc = "running" /\ MoreRunning
    /\ LET r == running[req_index]
       IN  /\ ~NoFurtherStep(r) /\ NumNewTokens(r) # 0
           /\ cur' = <<r, NumNewTokens(r)>>
    /\ pc' = "alloc"
    /\ UNCHANGED <<kvvars, reqvars, queuevars, req_index, token_budget, preempted_reqs, sched,
                   flightvars, workervars, sleepvars>>

(* The slots of the picked request: allocate, or preempt and try again.    *)
ScheduleRunning ==
    LET r == cur[1]  n == cur[2]
    IN  /\ pc = "alloc"
        /\ AllocateSlots(r, <<>>, num_computed_tokens[r] + n)
        /\ sched' = Append(sched, [req |-> r, n |-> n, kind |-> "running",
                        blocks |-> SubSeq(req_to_blocks'[r], Len(req_to_blocks[r]) + 1,
                                          Len(req_to_blocks'[r]))])
        /\ token_budget' = token_budget - n
        /\ req_index' = req_index + 1
        /\ pc' = "running"
        /\ UNCHANGED <<all_token_ids, reqvars, queuevars, preempted_reqs, cur,
                       flightvars, workervars, sleepvars>>

Victim == IF Policy = "fcfs" THEN Last(running)
          ELSE CHOOSE r \in Range(running) : \A s \in Range(running) : Rank[s] <= Rank[r]

(* Mutant: a preempted request stays in the step. *)
StillScheduled(v) == sched

Unscheduled(v) == IF v \in Scheduled THEN RemoveAt(sched, ScheduledAt(v)) ELSE sched

(* A victim already scheduled in this step gives its budget back. *)
PreemptVictim ==
    LET v == Victim
    IN  /\ pc = "alloc"
        /\ ~CanAllocate(cur[1], <<>>, num_computed_tokens[cur[1]] + cur[2])
        /\ PreemptRequest(v)
        /\ running' = RemoveFrom(running, v)
        /\ preempted_reqs' = preempted_reqs \cup {v}
        /\ sched' = Unscheduled(v)
        /\ token_budget' = token_budget + NumScheduledTokens(v)
        /\ req_index' = IF v \in Scheduled THEN req_index - 1 ELSE req_index
        /\ pc' = IF v = cur[1] THEN "waiting" ELSE "alloc"
        /\ UNCHANGED <<num_output_placeholders, discard_latest_async_tokens,
                       prev_step_scheduled_req_ids, finished_req_ids, cur,
                       flightvars, workervars, sleepvars>>

RunningDone ==
    /\ pc = "running" /\ ~MoreRunning
    /\ pc' = "waiting"
    /\ UNCHANGED <<kvvars, reqvars, queuevars, stepvars, flightvars, workervars, sleepvars>>

-----------------------------------------------------------------------------
(* schedule(), second part: the waiting requests, unless it preempted. *)
(* Mutant: waiting requests are admitted in a step that preempted. *)
MoreWaitingAlways ==
    /\ pause_state = "UNPAUSED"
    /\ waiting # <<>> /\ token_budget > 0 /\ Len(running) < MaxNumRunningReqs

MoreWaiting ==
    /\ preempted_reqs = {} /\ pause_state = "UNPAUSED"
    /\ waiting # <<>> /\ token_budget > 0 /\ Len(running) < MaxNumRunningReqs

NumNewWaiting(r, hits) ==
    Min({Capped(NumTokens(r) - Len(hits) * BlockSize), token_budget})

ScheduleWaiting ==
    /\ pc = "waiting" /\ MoreWaiting
    /\ LET r == Head(waiting)
       IN  \E hits \in GetComputedBlocks(r) :
             LET n == NumNewWaiting(r, hits)
             IN  /\ AllocateSlots(r, hits, Len(hits) * BlockSize + n)
                 /\ running' = Append(running, r)
                 /\ waiting' = Tail(waiting)
                 /\ sched' = Append(sched, [req |-> r, n |-> n,
                        kind |-> IF status[r] = "WAITING" THEN "new" ELSE "resumed",
                        blocks |-> req_to_blocks'[r]])
                 /\ token_budget' = token_budget - n
                 /\ status' = [status EXCEPT ![r] = "RUNNING"]
                 /\ num_computed_tokens' = [num_computed_tokens EXCEPT ![r] = Len(hits) * BlockSize]
    /\ UNCHANGED <<all_token_ids, num_prompt_tokens, num_output_placeholders,
                   discard_latest_async_tokens, prev_step_scheduled_req_ids, finished_req_ids,
                   pc, req_index, preempted_reqs, cur, flightvars, workervars, sleepvars>>

WaitingDone ==
    /\ pc = "waiting"
    /\ MoreWaiting =>
         LET r == Head(waiting)
         IN  \E hits \in GetComputedBlocks(r) :
                ~CanAllocate(r, hits, Len(hits) * BlockSize + NumNewWaiting(r, hits))
    /\ pc' = "dispatch"
    /\ UNCHANGED <<kvvars, reqvars, queuevars, stepvars, flightvars, workervars, sleepvars>>

-----------------------------------------------------------------------------
(* End of schedule(): _update_after_schedule, then execute_model.  The     *)
(* workers forget finished requests, extend the table of a running request *)
(* by its new blocks and replace that of a new or resumed one; then they   *)
(* compute the KV of the scheduled positions.                              *)

(* Mutant: every chunk of a prefill yields a token. *)
NeverPrefillChunk(e) == FALSE

IsPrefillChunk(e) ==
    num_computed_tokens[e.req] + e.n < NumTokens(e.req) + num_output_placeholders[e.req]

(* Mutant: the blocks of a resumed request extend its old table. *)
WorkerTableExtended(e) == worker_blocks[e.req] \o e.blocks

WorkerTable(e) ==
    IF e.kind = "running" THEN worker_blocks[e.req] \o e.blocks ELSE e.blocks

WritesBlock(e, b) ==
    {i \in DOMAIN WorkerTable(e) :
        /\ WorkerTable(e)[i] = b
        /\ (i - 1) * BlockSize < num_computed_tokens[e.req] + e.n
        /\ i * BlockSize > num_computed_tokens[e.req]}

(* A block filled from its middle keeps what it held; if that was not the  *)
(* KV of this request's tokens, the block holds no usable prefix.          *)
Written(e, b) ==
    LET i     == CHOOSE k \in WritesBlock(e, b) : TRUE
        start == num_computed_tokens[e.req]
        end   == Min({start + e.n, i * BlockSize})
    IN  IF start > (i - 1) * BlockSize /\ ~IsPrefix(TrueTokens(e.req, start), kv[b])
        THEN <<>> ELSE TrueTokens(e.req, end)

ExecuteModel ==
    LET writers(b) == {i \in DOMAIN sched : WritesBlock(sched[i], b) # {}}
    IN  /\ worker_blocks' = [r \in Requests |->
              IF r \in Scheduled THEN WorkerTable(sched[ScheduledAt(r)])
              ELSE IF r \in finished_req_ids THEN <<>> ELSE worker_blocks[r]]
        /\ kv' = [b \in Block |->
              IF writers(b) = {} THEN kv[b] ELSE Written(sched[Max(writers(b))], b)]

(* step_with_batch_queue returns to schedule() only after a batch that     *)
(* executes something, and while the batch queue is not full.              *)
(* Mutant: one batch too many.                                             *)
MayScheduleMore == sched # <<>> /\ Len(batch_queue) + 1 <= BatchQueueSize
MayScheduleNext == sched # <<>> /\ Len(batch_queue) + 1 < BatchQueueSize

(* A batch samples a token of r. *)
Samples(batch, r) == \E j \in DOMAIN batch : batch[j].req = r /\ batch[j].pos # 0

Dispatch ==
    LET batch == [i \in DOMAIN sched |->
                    [req |-> sched[i].req,
                     pos |-> IF IsPrefillChunk(sched[i]) THEN 0
                             ELSE num_computed_tokens[sched[i].req] + sched[i].n + 1]]
    IN  /\ pc = "dispatch"
        /\ ExecuteModel
        /\ num_computed_tokens' = [r \in Requests |-> num_computed_tokens[r] + NumScheduledTokens(r)]
        /\ num_output_placeholders' = [r \in Requests |->
              num_output_placeholders[r] + (IF AsyncScheduling /\ Samples(batch, r) THEN 1 ELSE 0)]
        /\ prev_step_scheduled_req_ids' = PrevStep
        /\ finished_req_ids' = {}
        /\ batch_queue' = Append(batch_queue, batch)
        /\ sched' = <<>> /\ preempted_reqs' = {} /\ cur' = <<>>
        /\ req_index' = 1 /\ token_budget' = 0
        /\ \/ pc' = "result"
           \/ MayScheduleNext /\ pc' = "idle"
        /\ UNCHANGED <<kvvars, status, num_prompt_tokens, discard_latest_async_tokens,
                       running, waiting, outputs, stopped, sleepvars>>

-----------------------------------------------------------------------------
(* Nothing to schedule: wait for the oldest batch in flight. *)
DrainQueue ==
    /\ pc = "idle" /\ ~HasRequests /\ batch_queue # <<>>
    /\ pc' = "result"
    /\ UNCHANGED <<kvvars, reqvars, queuevars, stepvars, flightvars, workervars, sleepvars>>

TakeResult ==
    /\ pc = "result"
    /\ outputs' = Head(batch_queue)
    /\ batch_queue' = Tail(batch_queue)
    /\ pc' = IF outputs' = <<>> THEN "idle" ELSE "update"
    /\ UNCHANGED <<kvvars, reqvars, queuevars, stepvars, stopped, workervars, sleepvars>>

(* update_from_output(), one iteration for every scheduled request.        *)
NextOutput ==
    /\ outputs' = Tail(outputs)
    /\ pc' = IF Tail(outputs) = <<>> THEN "idle" ELSE "update"

(* Nothing to append: the request is gone, the step was a prefill chunk,   *)
(* or the token must be discarded after a reset.                           *)
SkipOutput ==
    LET e == Head(outputs)
        discard == AsyncScheduling /\ discard_latest_async_tokens[e.req]
    IN  /\ pc = "update"
        /\ status[e.req] = "none" \/ e.pos = 0 \/ discard
        /\ NextOutput
        /\ discard_latest_async_tokens' = [discard_latest_async_tokens EXCEPT ![e.req] =
              IF status[e.req] # "none" /\ e.pos # 0 THEN FALSE ELSE @]
        /\ UNCHANGED <<kvvars, status, num_prompt_tokens, num_computed_tokens,
                       num_output_placeholders, queuevars, stepvars, batch_queue, stopped,
                       workervars, sleepvars>>

(* The token that was in flight has arrived.  Mutant: it stays counted. *)
PlaceholderKept(n) == n
PlaceholdersAfter(n) == IF AsyncScheduling THEN n - 1 ELSE n

(* check_stop for the token about to be appended.  No stop, not even by    *)
(* length, before min_tokens.                                              *)
CheckStop(r, eos) ==
    LET num_output_tokens == NumTokens(r) + 1 - num_prompt_tokens[r]
    IN  /\ num_output_tokens >= MinTokens
        /\ \/ eos
           \/ NumTokens(r) + 1 >= MaxModelLen
           \/ num_output_tokens >= MaxTokens

(* _update_request_with_output; the model may also sample eos.             *)
AppendOutput ==
    LET e == Head(outputs)
        r == e.req
    IN  /\ pc = "update"
        /\ status[r] # "none" /\ e.pos # 0
        /\ ~(AsyncScheduling /\ discard_latest_async_tokens[r])
        /\ AppendOutputToken(r, e.pos)
        /\ num_output_placeholders' = [num_output_placeholders EXCEPT ![r] = PlaceholdersAfter(@)]
        /\ \E eos \in BOOLEAN :
              /\ stopped' = CheckStop(r, eos)
              /\ \/ /\ AsyncScheduling /\ status[r] = "RUNNING"
                    /\ pc' = "cache" /\ UNCHANGED outputs
                 \/ /\ ~(AsyncScheduling /\ status[r] = "RUNNING") /\ stopped'
                    /\ pc' = "stop" /\ UNCHANGED outputs
                 \/ /\ ~(AsyncScheduling /\ status[r] = "RUNNING") /\ ~stopped'
                    /\ NextOutput
        /\ UNCHANGED <<status, num_prompt_tokens, num_computed_tokens,
                       discard_latest_async_tokens, queuevars, stepvars, batch_queue, workervars, sleepvars>>

(* AsyncScheduler caches the blocks the new token completed. *)
CacheOutput ==
    LET r == Head(outputs).req
    IN  /\ pc = "cache"
        /\ CacheBlocks(r, num_computed_tokens[r] - num_output_placeholders[r])
        /\ \/ stopped /\ pc' = "stop" /\ UNCHANGED outputs
           \/ ~stopped /\ NextOutput
        /\ UNCHANGED <<all_token_ids, reqvars, queuevars, stepvars, batch_queue, stopped, workervars, sleepvars>>

StopRequest ==
    /\ pc = "stop"
    /\ FinishRequest(Head(outputs).req)
    /\ NextOutput
    /\ stopped' = FALSE
    /\ UNCHANGED <<prev_step_scheduled_req_ids, stepvars, batch_queue, workervars, sleepvars>>

-----------------------------------------------------------------------------
Init ==
    /\ KVInit
    /\ status = [r \in Requests |-> "none"]
    /\ num_prompt_tokens = [r \in Requests |-> 0]
    /\ num_computed_tokens = [r \in Requests |-> 0]
    /\ num_output_placeholders = [r \in Requests |-> 0]
    /\ discard_latest_async_tokens = [r \in Requests |-> FALSE]
    /\ running = <<>> /\ waiting = <<>>
    /\ prev_step_scheduled_req_ids = {} /\ finished_req_ids = {}
    /\ pc = "idle"
    /\ req_index = 1 /\ token_budget = 0 /\ preempted_reqs = {} /\ cur = <<>> /\ sched = <<>>
    /\ batch_queue = <<>> /\ outputs = <<>> /\ stopped = FALSE
    /\ worker_blocks = [r \in Requests |-> <<>>]
    /\ kv = [b \in Block |-> <<>>]
    /\ pause_state = "UNPAUSED" /\ sleep_call = "none" /\ asleep = FALSE

EngineStep ==
    \/ StartSchedule \/ SkipRunning \/ PickRunning \/ ScheduleRunning \/ PreemptVictim
    \/ RunningDone \/ ScheduleWaiting \/ WaitingDone \/ Dispatch
    \/ DrainQueue \/ TakeResult
    \/ SkipOutput \/ AppendOutput \/ CacheOutput \/ StopRequest
    \/ ResetPreempt \/ ResetFinish
    \/ (\E r \in Requests : SleepAborts(r)) \/ SleepAborted \/ IdleCallback \/ FallAsleep

ClientStep ==
    \/ \E r \in Requests : \/ \E prompt \in Prompts : AddRequest(r, prompt)
                           \/ AbortRequest(r)
    \/ ResetIdleCache
    \/ ResetStart
    \/ \E call \in SleepCalls : Sleep(call[1], call[2])
    \/ WakeUp

Next == EngineStep \/ ClientStep

Spec == Init /\ [][Next]_vars

(* run_busy_loop keeps stepping, and the workers answer. *)
FairSpec == Spec /\ WF_vars(EngineStep)

-----------------------------------------------------------------------------
(* Types, and the bound of the batch queue: the engine core never has more *)
(* batches in flight than the executor accepts, and it never comes back to *)
(* schedule() with a full queue (the assertion of step_with_batch_queue).  *)
SchedTypeOK ==
    /\ KVTypeOK
    /\ status \in [Requests -> {"none", "WAITING", "RUNNING", "PREEMPTED"}]
    /\ num_prompt_tokens \in [Requests -> Nat]
    /\ num_computed_tokens \in [Requests -> Nat]
    /\ num_output_placeholders \in [Requests -> Nat]
    /\ discard_latest_async_tokens \in [Requests -> BOOLEAN]
    /\ running \in Seq(Requests) /\ waiting \in Seq(Requests)
    /\ prev_step_scheduled_req_ids \subseteq Requests /\ finished_req_ids \subseteq Requests
    /\ preempted_reqs \subseteq Requests
    /\ pc \in {"idle", "reset", "running", "alloc", "waiting", "dispatch", "result",
               "update", "cache", "stop", "abort", "clear"}
    /\ pause_state \in {"UNPAUSED", "PAUSED_NEW", "PAUSED_ALL"}
    /\ sleep_call \in {"none", "pause", "sleep"} /\ asleep \in BOOLEAN
    /\ Len(batch_queue) <= BatchQueueSize
    /\ pc = "idle" => Len(batch_queue) < BatchQueueSize
    /\ kv \in [Block -> Seq(Token)]
    /\ worker_blocks \in [Requests -> Seq(Block)]

(* Between schedule() and the next one, no scheduling decision is pending. *)
Settled == pc \in {"idle", "result", "update", "cache", "stop"}

(* Every live request is in exactly one queue, once, and the queue agrees  *)
(* with its status; only running requests own blocks or computed tokens.   *)
(* Preemption, resumption, aborts of requests in flight and stops of       *)
(* preempted ones all move requests between the queues.                    *)
QueuesExact ==
    /\ IsInjective(running) /\ IsInjective(waiting)
    /\ Range(running) = {r \in Requests : status[r] = "RUNNING"}
    /\ Range(waiting) = {r \in Requests : status[r] \in {"WAITING", "PREEMPTED"}}
    /\ \A r \in Requests : status[r] # "RUNNING" =>
            req_to_blocks[r] = <<>> /\ num_computed_tokens[r] = 0

(* The output of a request is what the model sampled, position by          *)
(* position: no token is lost, repeated or put at another position, with   *)
(* batches in flight while requests are preempted, resumed and aborted.    *)
OutputExact ==
    \A r \in Requests : \A p \in num_prompt_tokens[r] + 1 .. NumTokens(r) :
        all_token_ids[r][p] = p

(* The tokens the scheduler counts as computed really have their KV in the *)
(* request's blocks: neither a prefix hit nor a preemption leads a request *)
(* to attend to blocks nothing was computed into.                          *)
ComputedKVPresent ==
    Settled => \A r \in Range(running) :
        LET n == num_computed_tokens[r]
        IN  \A i \in 1 .. Cdiv(n, BlockSize) :
                IsPrefix(TrueTokens(r, Min({n, i * BlockSize})), kv[req_to_blocks[r][i]])

(* The sampled tokens of r that are in flight or not yet appended; a batch *)
(* holds a request once.                                                   *)
SamplesInFlight(r) ==
    LET pending == IF pc \in {"cache", "stop"} THEN Tail(outputs) ELSE outputs
    IN  Cardinality({i \in DOMAIN batch_queue : Samples(batch_queue[i], r)})
        + IF Samples(pending, r) THEN 1 ELSE 0

(* num_output_placeholders of the asynchronous scheduler counts exactly    *)
(* the sampled tokens in flight, also across preemption and resumption;    *)
(* the synchronous scheduler never sets it.                                *)
PlaceholdersExact ==
    \A r \in Requests : status[r] # "none" =>
        num_output_placeholders[r] = IF AsyncScheduling THEN SamplesInFlight(r) ELSE 0

(* The computed tokens never run ahead of the tokens that exist or are     *)
(* being sampled, nor past the last position the model has.                *)
ComputedWithinTokens ==
    \A r \in Range(running) :
        /\ num_computed_tokens[r] <= NumTokens(r) + num_output_placeholders[r]
        /\ num_computed_tokens[r] < MaxModelLen

(* The tokens of the requests scheduled so far. *)
TotalNumScheduledTokens ==
    LET total[i \in 0 .. Len(sched)] == IF i = 0 THEN 0 ELSE total[i - 1] + sched[i].n
    IN  total[Len(sched)]

(* The assertions at the end of schedule(): the token budget, the number   *)
(* of running requests, and every scheduled request still running.         *)
ScheduleWithinLimits ==
    pc = "dispatch" =>
        /\ TotalNumScheduledTokens <= MaxNumScheduledTokens
        /\ token_budget >= 0 /\ Len(running) <= MaxNumRunningReqs
        /\ Scheduled \subseteq Range(running)
        /\ Cardinality(Scheduled) = Len(sched)

(* A step with work and nothing in flight schedules something: a request   *)
(* alone is always given its slots, and the last one of those that outgrow *)
(* the pool together is not preempted.  Otherwise the engine would step    *)
(* for ever without computing a token.  Under the priority policy the      *)
(* request at hand may be preempted after those scheduled before it; the   *)
(* others then wait for the next step, which has fewer of them.            *)
StepsMakeProgress ==
    /\ pc = "dispatch" /\ batch_queue = <<>> /\ pause_state = "UNPAUSED"
    /\ running # <<>> \/ waiting # <<>>
    => sched # <<>> \/ (Policy = "priority" /\ preempted_reqs # {})

(* The assertion of _make_cached_request_data: a resumed request was not   *)
(* part of the previous step, so the workers have dropped it from their    *)
(* batch and rebuild its state.                                            *)
ResumedNotInPrevStep ==
    pc = "dispatch" =>
        \A i \in DOMAIN sched : sched[i].kind = "resumed" =>
            sched[i].req \notin prev_step_scheduled_req_ids

(* The workers rebuild each block table from the deltas of the scheduler   *)
(* output; it is the scheduler's table of every running request.           *)
WorkerTablesAgree ==
    Settled => \A r \in Range(running) : worker_blocks[r] = req_to_blocks[r]

(* Sleeping workers are left alone: from the moment a sleep() call has     *)
(* dropped the caches until wake_up(), nothing is executed or in flight,   *)
(* and no request counts on KV that is gone, although requests arrive, and *)
(* aborts of waiting ones still send the workers empty batches.            *)
SleepUndisturbed ==
    asleep =>
        /\ sched = <<>> /\ \A i \in DOMAIN batch_queue : batch_queue[i] = <<>>
        /\ cached_block_hash_to_block = {}
        /\ \A r \in Requests : num_computed_tokens[r] = 0 /\ req_to_blocks[r] = <<>>

(* A sleep() call comes to its end, whether it keeps the requests, waits   *)
(* for the running ones or aborts them all first, with batches in flight   *)
(* and requests waiting or preempted, unless requests end for ever, which  *)
(* takes clients that go on adding and aborting them.                      *)
SleepCompletes ==
    []<>(sleep_call = "none" \/ finished_req_ids # {})

(* A request that arrives is eventually finished or aborted, whatever the  *)
(* preemptions and the other requests, once the scheduler stays unpaused.  *)
EveryRequestEnds ==
    \A r \in Requests :
        []<>(status[r] = "none" \/ pause_state # "UNPAUSED")
=============================================================================
