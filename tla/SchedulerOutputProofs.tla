----------------------- MODULE SchedulerOutputProofs ------------------------
(***************************************************************************)
(* What requests compute and output, for every number of requests and      *)
(* blocks: every output token stands at the position it was sampled for,   *)
(* what counts as computed has its KV in the request's blocks, and a step  *)
(* with work to do does some of it.                                        *)
(***************************************************************************)
EXTENDS SchedulerCacheProofs

(* The deployments whose results come in turn.  An asynchronous scheduler  *)
(* counts the samples in flight, but a reset discards by a flag that does  *)
(* not say whether there is one.  A synchronous one does not count them:   *)
(* the sample of a request it preempts has arrived before it schedules     *)
(* again if two batches are in flight, not if there are more; a reset      *)
(* preempts outside schedule(), where even the second is too much.         *)
InTurn == IF AsyncScheduling THEN NeverResets
          ELSE BatchQueueSize <= IF ResetRunningRequests THEN 1 ELSE 2

-----------------------------------------------------------------------------
(* The samples in flight, in their order. *)

Position == 1 .. MaxModelLen

SampledAt(batch, r, p) == \E j \in DOMAIN batch : batch[j].req = r /\ batch[j].pos = p

Arriving(r, p) == \/ SampledAt(Pending, r, p)
                  \/ \E i \in DOMAIN batch_queue : SampledAt(batch_queue[i], r, p)

(* The positions the samples in flight may be for: the asynchronous        *)
(* scheduler counts them, of a synchronous one there is one at most.       *)
Ahead(r)    == IF AsyncScheduling THEN num_output_placeholders[r] ELSE 1
Upcoming(r) == NumTokens(r) + 1 .. NumTokens(r) + Ahead(r)

(* The samples of r in flight are for the positions after its last token,  *)
(* and arrive in their order; asynchronously, none of these is missing.    *)
Awaited(r) ==
    /\ \A p \in Position : Arriving(r, p) => p \in Upcoming(r)
    /\ AsyncScheduling => \A p \in Position : p \in Upcoming(r) => Arriving(r, p)
    /\ \A i, j \in DOMAIN batch_queue : \A p, q \in Position :
          i < j /\ SampledAt(batch_queue[i], r, p) /\ SampledAt(batch_queue[j], r, q) => p < q
    /\ \A j \in DOMAIN batch_queue : \A p, q \in Position :
          SampledAt(Pending, r, p) /\ SampledAt(batch_queue[j], r, q) => p < q

(* A synchronous scheduler has nothing to schedule for a running request   *)
(* whose sample is in flight, and does not resume a preempted one before   *)
(* its sample has arrived.                                                 *)
Waits(r) ==
    ~AsyncScheduling =>
        /\ status[r] = "RUNNING" /\ (\E p \in Position : Arriving(r, p)) =>
              num_computed_tokens[r] = NumTokens(r)
        /\ status[r] # "RUNNING" =>
              \A i \in DOMAIN batch_queue : \A p \in Position : SampledAt(batch_queue[i], r, p) =>
                  i = 1 /\ ((InSchedule /\ r \in preempted_reqs) \/ pc = "result")

OutputOf(r) ==
    status[r] # "none" =>
        /\ \A p \in num_prompt_tokens[r] + 1 .. NumTokens(r) : all_token_ids[r][p] = p
        /\ Awaited(r) /\ Waits(r)

OutputInv == \A r \in Requests : OutputOf(r)

(* What each action is shown to do, from the invariants before it. *)
BeforeOutput == InTurn /\ Before /\ OutputInv

-----------------------------------------------------------------------------
(* What stays. *)

(* Nothing happens to r or its samples. *)
LEMMA OutputKept ==
    ASSUME NEW r \in Requests, OutputOf(r), UNCHANGED batch_queue,
           status'[r] = status[r], num_prompt_tokens'[r] = num_prompt_tokens[r],
           num_computed_tokens'[r] = num_computed_tokens[r],
           num_output_placeholders'[r] = num_output_placeholders[r],
           all_token_ids'[r] = all_token_ids[r],
           \A p \in Position : SampledAt(Pending, r, p)' <=> SampledAt(Pending, r, p),
           pc = "result" => pc' = "result",
           InSchedule /\ r \in preempted_reqs => InSchedule' /\ r \in preempted_reqs'
    PROVE  OutputOf(r)'
  <1> USE DEF NumTokens
  <1>1. \A i \in DOMAIN batch_queue : \A p : SampledAt(batch_queue[i], r, p)' <=> SampledAt(batch_queue[i], r, p)
    BY DEF SampledAt
  <1>2. \A p \in Position : Arriving(r, p)' <=> Arriving(r, p)
    BY <1>1 DEF Arriving
  <1>3. Ahead(r)' = Ahead(r) /\ Upcoming(r)' = Upcoming(r)
    BY DEF Ahead, Upcoming
  <1>4. Position' = Position
    BY DEF Position
  <1>5. Awaited(r) => Awaited(r)'
    BY <1>1, <1>2, <1>3, <1>4 DEF Awaited
  <1>6. Waits(r) => Waits(r)'
    BY <1>1, <1>2, <1>4 DEF Waits
  <1> QED  BY <1>5, <1>6 DEF OutputOf

(* Steps that leave the requests and what is in flight alone; the last is  *)
(* one in the middle of an output, whose token is known already.           *)
SteadyStep ==
    \/ StartSchedule \/ SkipRunning \/ PickRunning \/ ScheduleRunning \/ RunningDone \/ WaitingDone
    \/ DrainQueue \/ ResetIdleCache \/ ResetStart \/ ResetFinish
    \/ (\E call \in SleepCalls : Sleep(call[1], call[2]))
    \/ SleepAborted \/ IdleCallback \/ FallAsleep \/ WakeUp \/ CacheOutput

(* What these steps have in common. *)
LEMMA SteadySteps ==
    ASSUME ControlInv, SteadyStep
    PROVE  /\ UNCHANGED <<status, num_prompt_tokens, num_computed_tokens, num_output_placeholders,
                          all_token_ids, batch_queue>>
           /\ Pending' = Pending
           /\ pc # "result"
           /\ InSchedule => InSchedule' /\ preempted_reqs' = preempted_reqs
  <1> USE DEF kvvars, tablevars, reqvars, queuevars, stepvars, flightvars, workervars, sleepvars,
              Pending, InSchedule
  <1>1. CASE StartSchedule
    BY <1>1 DEF StartSchedule
  <1>2. CASE SkipRunning
    BY <1>2 DEF SkipRunning
  <1>3. CASE PickRunning
    BY <1>3 DEF PickRunning
  <1>4. CASE ScheduleRunning
    BY <1>4 DEF ScheduleRunning
  <1>5. CASE RunningDone
    BY <1>5 DEF RunningDone
  <1>6. CASE WaitingDone
    BY <1>6 DEF WaitingDone
  <1>7. CASE DrainQueue
    BY <1>7 DEF DrainQueue
  <1>8. CASE ResetIdleCache
    BY <1>8 DEF ResetIdleCache, Reset
  <1>9. CASE ResetStart
    BY <1>9 DEF ResetStart
  <1>10. CASE ResetFinish
    BY <1>10 DEF ResetFinish, Reset
  <1>11. CASE \E call \in SleepCalls : Sleep(call[1], call[2])
    BY <1>11 DEF Sleep
  <1>12. CASE SleepAborted
    BY <1>12 DEF SleepAborted
  <1>13. CASE IdleCallback
    BY <1>13 DEF IdleCallback
  <1>14. CASE FallAsleep
    BY <1>14 DEF FallAsleep, Reset
  <1>15. CASE WakeUp
    BY <1>15 DEF WakeUp
  <1>16. CASE CacheOutput
    BY <1>16 DEF CacheOutput, NextOutput
  <1> QED
    BY <1>1, <1>2, <1>3, <1>4, <1>5, <1>6, <1>7, <1>8, <1>9, <1>10, <1>11, <1>12, <1>13, <1>14,
       <1>15, <1>16, Zenon DEF SteadyStep

(* The quiet steps keep the samples in their order. *)
LEMMA SteadyOutput ==
    ASSUME BeforeOutput, SteadyStep
    PROVE  OutputInv'
  <1>1. /\ UNCHANGED <<status, num_prompt_tokens, num_computed_tokens, num_output_placeholders,
                       all_token_ids, batch_queue>>
        /\ Pending' = Pending
        /\ pc # "result"
        /\ InSchedule => InSchedule' /\ preempted_reqs' = preempted_reqs
    BY SteadySteps DEF BeforeOutput, Before
  <1>2. \A r, p : SampledAt(Pending, r, p)' <=> SampledAt(Pending, r, p)
    BY <1>1 DEF SampledAt
  <1>3. \A r \in Requests : OutputOf(r)'
    BY <1>1, <1>2, OutputKept DEF BeforeOutput, OutputInv
  <1> QED  BY <1>3 DEF OutputInv

(* A request that ends has nothing to answer for. *)
LEMMA EndingOutput ==
    ASSUME BeforeOutput, (\E r \in Requests : AbortRequest(r) \/ SleepAborts(r)) \/ StopRequest
    PROVE  OutputInv'
  <1>1. PICK r \in Requests : AbortRequest(r) \/ SleepAborts(r) \/ (StopRequest /\ r = Head(outputs).req)
    <2>1. CASE StopRequest
      <3>1. outputs \in Seq(Output) /\ outputs # <<>>
        BY <2>1 DEF StopRequest, BeforeOutput, Before, ControlInv, ControlTypes, BatchesInFlight
      <3> QED  BY <2>1, <3>1, OutputAtHand
    <2> QED  BY <2>1
  <1>2. /\ FinishRequest(r) /\ UNCHANGED <<batch_queue, preempted_reqs>> /\ Pending' = Pending
        /\ pc = "result" => pc' = "result"
        /\ InSchedule => InSchedule'
    BY <1>1 DEF AbortRequest, SleepAborts, StopRequest, NextOutput, Pending, InSchedule, stepvars, flightvars
  <1>3. /\ ControlInv /\ running \in Seq(Requests) /\ OutputInv
        /\ DOMAIN status = Requests /\ DOMAIN num_prompt_tokens = Requests
        /\ DOMAIN all_token_ids = Requests /\ DOMAIN num_computed_tokens = Requests
        /\ DOMAIN num_output_placeholders = Requests
    BY DEF BeforeOutput, Before, ControlInv, ControlTypes, NumberTypes
  <1>4. /\ status' = [status EXCEPT ![r] = "none"]
        /\ num_prompt_tokens' = [num_prompt_tokens EXCEPT ![r] = 0]
        /\ num_computed_tokens' = [num_computed_tokens EXCEPT ![r] = 0]
        /\ num_output_placeholders' = [num_output_placeholders EXCEPT ![r] = 0]
        /\ all_token_ids' = [all_token_ids EXCEPT ![r] = <<>>]
    BY <1>2, <1>3, FinishRequestSteps
  <1>5. \A q, p : SampledAt(Pending, q, p)' <=> SampledAt(Pending, q, p)
    BY <1>2 DEF SampledAt
  <1>6. ASSUME NEW q \in Requests PROVE OutputOf(q)'
    <2>1. CASE q = r
      BY <2>1, <1>3, <1>4 DEF OutputOf
    <2>2. CASE q # r
      <3>1. /\ status'[q] = status[q] /\ num_prompt_tokens'[q] = num_prompt_tokens[q]
            /\ num_computed_tokens'[q] = num_computed_tokens[q]
            /\ num_output_placeholders'[q] = num_output_placeholders[q]
            /\ all_token_ids'[q] = all_token_ids[q]
        BY <2>2, <1>3, <1>4
      <3> QED  BY <3>1, <1>2, <1>3, <1>5, OutputKept DEF OutputInv
    <2> QED  BY <2>1, <2>2
  <1> QED  BY <1>6 DEF OutputInv

(* A request that arrives has nothing in flight and nothing appended.      *)
LEMMA AddRequestOutput ==
    ASSUME BeforeOutput, NEW r \in Requests, NEW prompt \in Prompts, AddRequest(r, prompt)
    PROVE  OutputInv'
  <1>0. /\ UNCHANGED <<num_computed_tokens, num_output_placeholders, batch_queue, outputs, pc,
                       preempted_reqs>>
        /\ pc = "idle" /\ status[r] = "none" /\ ~InFlight(r)
        /\ status' = [status EXCEPT ![r] = "WAITING"]
        /\ num_prompt_tokens' = [num_prompt_tokens EXCEPT ![r] = Len(prompt)]
        /\ all_token_ids' = [all_token_ids EXCEPT ![r] = prompt]
    BY DEF AddRequest, NewRequest, stepvars, flightvars
  <1>a. /\ OutputInv /\ DOMAIN status = Requests /\ DOMAIN num_prompt_tokens = Requests
        /\ DOMAIN all_token_ids = Requests /\ QueuesExact
    BY DEF BeforeOutput, Before, ControlInv, ControlTypes, NumberTypes
  <1>b. Pending = outputs /\ Pending' = outputs
    BY <1>0 DEF Pending
  <1>c. \A q, p : SampledAt(Pending, q, p)' <=> SampledAt(Pending, q, p)
    BY <1>b DEF SampledAt
  <1>d. /\ \A p : ~SampledAt(Pending, r, p)'
        /\ \A i \in DOMAIN batch_queue : \A p : ~SampledAt(batch_queue[i], r, p)
    BY <1>0, <1>b DEF SampledAt, InFlight
  <1>1. ASSUME NEW q \in Requests PROVE OutputOf(q)'
    <2>1. CASE q = r
      <3>1. /\ status'[r] = "WAITING" /\ num_prompt_tokens'[r] = Len(prompt)
            /\ all_token_ids'[r] = prompt /\ num_output_placeholders'[r] = 0
        <4>1. PlaceholdersOf(r)
          BY DEF BeforeOutput, Before, ControlInv, Placeholders
        <4> QED  BY <4>1, <1>0, <1>a DEF PlaceholdersOf
      <3>2. Len(prompt) \in Nat
        BY PromptsTyped
      <3>3. \A i \in DOMAIN batch_queue' : \A p : ~SampledAt(batch_queue[i], r, p)'
        BY <1>0, <1>d DEF SampledAt
      <3>4. \A p : ~Arriving(r, p)'
        BY <3>3, <1>d DEF Arriving
      <3>5. AsyncScheduling => Upcoming(r)' = {}
        BY <3>1, <3>2 DEF Upcoming, Ahead, NumTokens
      <3>6. Awaited(r)'
        BY <3>3, <3>4, <3>5, <1>d DEF Awaited
      <3>7. Waits(r)'
        BY <3>1, <3>3 DEF Waits
      <3>8. num_prompt_tokens'[r] + 1 .. NumTokens(r)' = {}
        BY <3>1, <3>2 DEF NumTokens
      <3> QED  BY <2>1, <3>6, <3>7, <3>8 DEF OutputOf
    <2>2. CASE q # r
      <3>1. /\ status'[q] = status[q] /\ num_prompt_tokens'[q] = num_prompt_tokens[q]
            /\ all_token_ids'[q] = all_token_ids[q]
        BY <2>2, <1>0, <1>a
      <3> QED  BY <3>1, <1>0, <1>a, <1>c, OutputKept DEF OutputInv, InSchedule
    <2> QED  BY <2>1, <2>2
  <1> QED  BY <1>1 DEF OutputInv

(* A request that is preempted keeps its samples in flight: synchronously, *)
(* they are in the only batch there is.                                    *)
LEMMA PreemptOutput ==
    ASSUME BeforeOutput, NEW v \in Range(running), PreemptRequest(v), UNCHANGED <<outputs, batch_queue>>,
           \A q \in Requests : num_output_placeholders'[q] = num_output_placeholders[q],
           pc \notin {"cache", "stop"}, pc' \notin {"cache", "stop"}, pc # "result",
           preempted_reqs \subseteq preempted_reqs', InSchedule => InSchedule',
           ~AsyncScheduling =>
              \A i \in DOMAIN batch_queue : i = 1 /\ InSchedule' /\ v \in preempted_reqs'
    PROVE  OutputInv'
  <1>a. /\ OutputInv /\ running \in Seq(Requests) /\ QueuesExact
        /\ DOMAIN status = Requests /\ DOMAIN num_computed_tokens = Requests
    BY DEF BeforeOutput, Before, ControlInv, ControlTypes, NumberTypes
  <1>b. v \in Requests /\ status[v] = "RUNNING"
    BY <1>a DEF Range, QueuesExact
  <1>c. /\ status' = [status EXCEPT ![v] = "PREEMPTED"]
        /\ num_computed_tokens' = [num_computed_tokens EXCEPT ![v] = 0]
        /\ UNCHANGED <<num_prompt_tokens, all_token_ids>>
    BY DEF PreemptRequest, Preempt, FreeRequest
  <1>d. Pending' = Pending
    BY DEF Pending
  <1>e. \A q, p : SampledAt(Pending, q, p)' <=> SampledAt(Pending, q, p)
    BY <1>d DEF SampledAt
  <1>1. ASSUME NEW q \in Requests PROVE OutputOf(q)'
    <2>1. CASE q = v
      <3>1. status'[v] = "PREEMPTED"
        BY <1>a, <1>b, <1>c
      <3>2. /\ OutputOf(v) /\ NumTokens(v)' = NumTokens(v) /\ Ahead(v)' = Ahead(v)
            /\ Upcoming(v)' = Upcoming(v)
        BY <1>a, <1>b, <1>c DEF OutputInv, NumTokens, Ahead, Upcoming
      <3>3. /\ \A i \in DOMAIN batch_queue : \A p :
                  SampledAt(batch_queue[i], v, p)' <=> SampledAt(batch_queue[i], v, p)
            /\ \A p : Arriving(v, p)' <=> Arriving(v, p)
        BY <1>e DEF SampledAt, Arriving
      <3>4. Awaited(v)'
        BY <3>2, <3>3, <1>b, <1>e DEF Awaited, OutputOf, Position
      <3>5. Waits(v)'
        BY <3>1 DEF Waits
      <3> QED  BY <2>1, <3>2, <3>4, <3>5, <1>b, <1>c DEF OutputOf, NumTokens
    <2>2. CASE q # v
      <3>1. status'[q] = status[q] /\ num_computed_tokens'[q] = num_computed_tokens[q]
        BY <2>2, <1>a, <1>c
      <3> QED  BY <3>1, <1>a, <1>c, <1>e, OutputKept DEF OutputInv
    <2> QED  BY <2>1, <2>2
  <1> QED  BY <1>1 DEF OutputInv

(* preemption by schedule(), with one batch in flight at most, and by      *)
(* reset_prefix_cache or sleep, with none.                                 *)
LEMMA PreemptsOutput ==
    ASSUME BeforeOutput, PreemptVictim \/ ResetPreempt
    PROVE  OutputInv'
  <1>a. /\ running \in Seq(Requests) /\ IsInjective(running) /\ BatchesInFlight /\ InTurn
        /\ batch_queue \in Seq(Seq(Output)) /\ DOMAIN num_output_placeholders = Requests
        /\ ControlInv /\ NumberTypes
    BY DEF BeforeOutput, Before, ControlInv, ControlTypes, NumberTypes, QueuesExact
  <1>b. /\ Len(batch_queue) \in Nat /\ DOMAIN batch_queue = 1 .. Len(batch_queue)
        /\ BatchQueueSize \in Nat
    BY <1>a, SchedulerConfig
  <1>1. CASE PreemptVictim
    <2> DEFINE v == Victim
    <2>1. /\ UNCHANGED <<batch_queue, outputs, num_output_placeholders>>
          /\ pc = "alloc" /\ PreemptRequest(v)
          /\ preempted_reqs' = preempted_reqs \cup {v}
          /\ pc' = IF v = cur[1] THEN "waiting" ELSE "alloc"
      BY <1>1 DEF PreemptVictim, flightvars
    <2>2. running # <<>>
      BY <2>1, <1>a DEF ControlInv, StepInOrder, Range
    <2>3. v \in Range(running)
      BY <2>2, <1>a, VictimRuns
    <2> HIDE DEF v
    <2>4. ~AsyncScheduling => \A i \in DOMAIN batch_queue : i = 1
      BY <2>1, <1>a, <1>b DEF BatchesInFlight, InTurn
    <2> QED  BY <2>1, <2>3, <2>4, PreemptOutput DEF InSchedule
  <1>2. CASE ResetPreempt
    <2> DEFINE v == Last(running)
    <2>1. /\ UNCHANGED <<batch_queue, outputs, pc, preempted_reqs>>
          /\ pc \in {"reset", "clear"} /\ running # <<>> /\ PreemptRequest(v)
          /\ num_output_placeholders' = [num_output_placeholders EXCEPT ![v] = 0]
      BY <1>2 DEF ResetPreempt, stepvars, flightvars
    <2>2. v \in Range(running)
      BY <2>1, <1>a, FrontFacts
    <2>3. ResetPending /\ Sleeping /\ PlaceholdersOf(v)
      BY <2>2, <1>a DEF ControlInv, Placeholders, Range
    <2> HIDE DEF v
    <2>4. ~NeverResets
      BY <2>1, <2>3 DEF ResetPending, Sleeping, NeverResets
    <2>5. ~AsyncScheduling
      BY <2>4, <1>a DEF InTurn
    <2>6. num_output_placeholders'= num_output_placeholders
      BY <2>1, <2>3, <2>5, <1>a DEF PlaceholdersOf, NumberTypes
    <2>7. batch_queue = <<>>
      <3>1. CASE pc = "clear"
        BY <3>1, <2>3 DEF Sleeping
      <3>2. CASE pc = "reset"
        <4>1. ResetRunningRequests /\ BatchQueueSize <= 1
          BY <3>2, <2>3, <2>5, <1>a DEF ResetPending, InTurn
        <4> QED  BY <4>1, <3>2, <1>a, <1>b DEF BatchesInFlight
      <3> QED  BY <3>1, <3>2, <2>1
    <2>8. DOMAIN batch_queue = {}
      BY <2>7
    <2> QED  BY <2>1, <2>2, <2>6, <2>8, PreemptOutput DEF InSchedule
  <1> QED  BY <1>1, <1>2

(* A request is admitted when a sample it had in flight, if the scheduler  *)
(* does not count it, has arrived.                                         *)
LEMMA ScheduleWaitingOutput ==
    ASSUME BeforeOutput, ScheduleWaiting
    PROVE  OutputInv'
  <1>0. /\ UNCHANGED <<num_prompt_tokens, num_output_placeholders, all_token_ids, batch_queue,
                       outputs, pc, preempted_reqs>>
        /\ pc = "waiting" /\ preempted_reqs = {} /\ waiting # <<>>
        /\ status' = [status EXCEPT ![Head(waiting)] = "RUNNING"]
        /\ \E n : num_computed_tokens' = [num_computed_tokens EXCEPT ![Head(waiting)] = n]
    BY DEF ScheduleWaiting, MoreWaiting, flightvars
  <1>a. /\ OutputInv /\ waiting \in Seq(Requests) /\ QueuesExact /\ BatchesInFlight
        /\ DOMAIN status = Requests /\ DOMAIN num_computed_tokens = Requests
    BY DEF BeforeOutput, Before, ControlInv, ControlTypes, NumberTypes
  <1>b. PICK r \in Requests : r = Head(waiting) /\ status[r] \in {"WAITING", "PREEMPTED"}
    <2>1. Head(waiting) \in Range(waiting)
      BY <1>0, <1>a DEF Range
    <2> QED  BY <2>1, <1>a DEF QueuesExact
  <1>c. outputs = <<>> /\ Pending = outputs /\ Pending' = outputs
    BY <1>0, <1>a DEF BatchesInFlight, Pending
  <1>d. \A q, p : SampledAt(Pending, q, p)' <=> SampledAt(Pending, q, p)
    BY <1>c DEF SampledAt
  <1>1. ASSUME NEW q \in Requests PROVE OutputOf(q)'
    <2>1. CASE q = r
      <3>1. status'[r] = "RUNNING" /\ OutputOf(r) /\ Awaited(r) /\ Waits(r)
        BY <1>0, <1>a, <1>b DEF OutputInv, OutputOf
      <3>2. /\ \A i \in DOMAIN batch_queue : \A p :
                  SampledAt(batch_queue[i], r, p)' <=> SampledAt(batch_queue[i], r, p)
            /\ \A p : Arriving(r, p)' <=> Arriving(r, p)
        BY <1>0, <1>d DEF SampledAt, Arriving
      <3>3. Awaited(r)'
        BY <3>1, <3>2, <1>0, <1>d DEF Awaited, Position, Upcoming, Ahead, NumTokens
      <3>4. ~AsyncScheduling => \A i \in DOMAIN batch_queue : \A p \in Position : ~SampledAt(batch_queue[i], r, p)
        BY <3>1, <1>0, <1>b DEF Waits
      <3>5. ~AsyncScheduling => \A p \in Position : ~Arriving(r, p)
        BY <3>4, <1>c DEF Arriving, SampledAt
      <3>6. Waits(r)'
        BY <3>1, <3>2, <3>5 DEF Waits, Position
      <3> QED  BY <2>1, <3>1, <3>3, <3>6, <1>0, <1>b DEF OutputOf, NumTokens
    <2>2. CASE q # r
      <3>1. status'[q] = status[q] /\ num_computed_tokens'[q] = num_computed_tokens[q]
        BY <2>2, <1>0, <1>a, <1>b
      <3> QED  BY <3>1, <1>0, <1>a, <1>d, OutputKept DEF OutputInv, InSchedule
    <2> QED  BY <2>1, <2>2
  <1> QED  BY <1>1 DEF OutputInv

(* The entry at hand is the only one of its request in the result.         *)
LEMMA HeadSamples ==
    ASSUME NEW batch \in Seq(Output), batch # <<>>, Distinct(batch)
    PROVE  /\ \A p : ~SampledAt(Tail(batch), Head(batch).req, p)
           /\ \A r, p : SampledAt(batch, r, p) <=> \/ r = Head(batch).req /\ p = Head(batch).pos
                                                   \/ SampledAt(Tail(batch), r, p)
  <1> DEFINE left == Tail(batch)
  <1>1. /\ DOMAIN batch = 1 .. Len(batch) /\ Len(batch) \in Nat /\ Len(batch) >= 1
        /\ Head(batch) = batch[1]
        /\ DOMAIN left = 1 .. Len(batch) - 1 /\ \A k \in 1 .. Len(batch) - 1 : left[k] = batch[k + 1]
    OBVIOUS
  <1>2. /\ 1 \in 1 .. Len(batch) /\ \A k \in 1 .. Len(batch) - 1 : k + 1 \in 1 .. Len(batch) /\ k + 1 # 1
        /\ \A k \in 1 .. Len(batch) : k # 1 => k - 1 \in 1 .. Len(batch) - 1 /\ (k - 1) + 1 = k
    BY <1>1
  <1> HIDE DEF left
  <1>3. \A p : ~SampledAt(left, Head(batch).req, p)
    BY <1>1, <1>2 DEF Distinct, SampledAt
  <1>4. ASSUME NEW r, NEW p, SampledAt(left, r, p) PROVE SampledAt(batch, r, p)
    BY <1>1, <1>2, <1>4 DEF SampledAt
  <1>5. ASSUME NEW r, NEW p, SampledAt(batch, r, p)
        PROVE  (r = Head(batch).req /\ p = Head(batch).pos) \/ SampledAt(left, r, p)
    <2>1. PICK k \in 1 .. Len(batch) : batch[k].req = r /\ batch[k].pos = p
      BY <1>1, <1>5 DEF SampledAt
    <2>2. ASSUME k # 1 PROVE SampledAt(left, r, p)
      <3>1. k - 1 \in DOMAIN left /\ left[k - 1] = batch[k]
        BY <2>2, <1>1, <1>2
      <3> QED  BY <2>1, <3>1 DEF SampledAt
    <2> QED  BY <2>1, <2>2, <1>1
  <1>6. SampledAt(batch, Head(batch).req, Head(batch).pos)
    BY <1>1, <1>2 DEF SampledAt
  <1> QED  BY <1>3, <1>4, <1>5, <1>6 DEF left

(* The oldest batch in flight becomes the result at hand.                  *)
LEMMA TakeResultOutput ==
    ASSUME BeforeOutput, TakeResult
    PROVE  OutputInv'
  <1>0. /\ UNCHANGED <<status, num_prompt_tokens, num_computed_tokens, num_output_placeholders,
                       all_token_ids>>
        /\ pc = "result" /\ outputs' = Head(batch_queue) /\ batch_queue' = Tail(batch_queue)
        /\ pc' \in {"idle", "update"}
    BY DEF TakeResult, kvvars, reqvars
  <1>a. /\ OutputInv /\ batch_queue \in Seq(Seq(Output)) /\ batch_queue # <<>> /\ outputs = <<>>
    BY <1>0 DEF BeforeOutput, Before, ControlInv, ControlTypes, BatchesInFlight
  <1>b. Pending = <<>> /\ Pending' = Head(batch_queue)
    BY <1>0, <1>a DEF Pending
  <1>c. /\ Head(batch_queue) = batch_queue[1] /\ 1 \in DOMAIN batch_queue /\ DOMAIN batch_queue \subseteq Nat
        /\ \A i \in DOMAIN batch_queue : i = 1 \/ (i - 1 \in DOMAIN batch_queue' /\ batch_queue'[i - 1] = batch_queue[i])
        /\ \A i \in DOMAIN batch_queue' : /\ i \in Nat /\ i + 1 \in DOMAIN batch_queue /\ i + 1 > 1
                                          /\ batch_queue'[i] = batch_queue[i + 1]
    BY <1>0, <1>a
  <1>1. ASSUME NEW r \in Requests PROVE OutputOf(r)'
    <2>1. /\ \A p : SampledAt(Pending, r, p)' <=> SampledAt(batch_queue[1], r, p)
          /\ \A p : ~SampledAt(Pending, r, p)
          /\ \A i \in DOMAIN batch_queue' : \A p :
                SampledAt(batch_queue[i], r, p)' <=> SampledAt(batch_queue[i + 1], r, p)
      BY <1>b, <1>c DEF SampledAt
    <2>2. \A p : Arriving(r, p)' <=> Arriving(r, p)
      <3>1. ASSUME NEW p, Arriving(r, p) PROVE Arriving(r, p)'
        <4>1. PICK i \in DOMAIN batch_queue : SampledAt(batch_queue[i], r, p)
          BY <3>1, <2>1 DEF Arriving
        <4>2. ASSUME i # 1 PROVE SampledAt(batch_queue[i - 1], r, p)' /\ i - 1 \in DOMAIN batch_queue'
          BY <4>1, <4>2, <1>c DEF SampledAt
        <4> QED  BY <4>1, <4>2, <2>1 DEF Arriving
      <3>2. ASSUME NEW p, Arriving(r, p)' PROVE Arriving(r, p)
        BY <3>2, <2>1, <1>c DEF Arriving
      <3> QED  BY <3>1, <3>2
    <2>3. Upcoming(r)' = Upcoming(r) /\ OutputOf(r)
      BY <1>0, <1>a DEF Upcoming, Ahead, NumTokens, OutputInv
    <2>4. Awaited(r) => Awaited(r)'
      <3> HAVE Awaited(r)
      <3>1. \A i, j \in DOMAIN batch_queue' : \A p, q \in Position :
               i < j /\ SampledAt(batch_queue[i], r, p)' /\ SampledAt(batch_queue[j], r, q)' => p < q
        <4> TAKE i, j \in DOMAIN batch_queue'
        <4>1. i < j => i + 1 < j + 1
          BY <1>c
        <4> QED  BY <4>1, <2>1, <1>c DEF Awaited
      <3>2. \A j \in DOMAIN batch_queue' : \A p, q \in Position :
               SampledAt(Pending, r, p)' /\ SampledAt(batch_queue[j], r, q)' => p < q
        <4> TAKE j \in DOMAIN batch_queue'
        <4>1. 1 < j + 1
          BY <1>c
        <4> QED  BY <4>1, <2>1, <1>c DEF Awaited
      <3> QED  BY <3>1, <3>2, <2>2, <2>3 DEF Awaited, Position
    <2>5. status[r] # "none" /\ Waits(r) => Waits(r)'
      <3> HAVE status[r] # "none" /\ Waits(r)
      <3>1. ASSUME ~AsyncScheduling, status[r] # "RUNNING", NEW i \in DOMAIN batch_queue', NEW p \in Position
            PROVE  ~SampledAt(batch_queue[i], r, p)'
        <4>1. i + 1 # 1
          BY <1>c
        <4> QED  BY <4>1, <3>1, <2>1, <1>c DEF Waits
      <3> QED  BY <3>1, <2>2, <1>0 DEF Waits, NumTokens, Position
    <2> QED  BY <2>3, <2>4, <2>5, <1>0 DEF OutputOf, NumTokens
  <1> QED  BY <1>1 DEF OutputInv

(* An entry without a token to append leaves nothing out: none is          *)
(* discarded.                                                              *)
LEMMA SkipOutputOutput ==
    ASSUME BeforeOutput, SkipOutput
    PROVE  OutputInv'
  <1> DEFINE e == Head(outputs)
  <1>0. /\ UNCHANGED <<status, num_prompt_tokens, num_computed_tokens, num_output_placeholders,
                       all_token_ids, batch_queue>>
        /\ pc = "update" /\ NextOutput
        /\ status[e.req] = "none" \/ e.pos = 0 \/ (AsyncScheduling /\ discard_latest_async_tokens[e.req])
    BY DEF SkipOutput, kvvars
  <1>a. /\ OutputInv /\ outputs \in Seq(Output) /\ outputs # <<>> /\ Distinct(outputs) /\ InTurn
    BY <1>0 DEF BeforeOutput, Before, ControlInv, ControlTypes, BatchesInFlight, Placeholders
  <1>b. Pending = outputs /\ Pending' = Tail(outputs)
    BY <1>0 DEF Pending, NextOutput
  <1>1. ASSUME NEW r \in Requests PROVE OutputOf(r)'
    <2>1. CASE status[r] = "none"
      BY <2>1, <1>0 DEF OutputOf
    <2>2. CASE status[r] # "none"
      <3>1. r = e.req => e.pos = 0
        <4>1. PlaceholdersOf(r)
          BY DEF BeforeOutput, Before, ControlInv, Placeholders
        <4> QED  BY <4>1, <2>2, <1>0, <1>a DEF PlaceholdersOf, InTurn
      <3>2. \A p : SampledAt(outputs, r, p) <=> (r = e.req /\ p = e.pos) \/ SampledAt(Tail(outputs), r, p)
        BY <1>a, HeadSamples
      <3>3. \A p : SampledAt(Pending, r, p) <=> SampledAt(outputs, r, p)
        BY <1>b
      <3>4. \A p : SampledAt(Pending, r, p)' <=> SampledAt(Tail(outputs), r, p)
        BY <1>b DEF SampledAt
      <3>5. 0 \notin Position
        BY BlockSizes DEF Position
      <3> HIDE DEF e
      <3>6. \A p \in Position : SampledAt(Pending, r, p)' <=> SampledAt(Pending, r, p)
        BY <3>1, <3>2, <3>3, <3>4, <3>5
      <3>7. OutputOf(r)
        BY <1>a DEF OutputInv
      <3> QED  BY <3>6, <3>7, <1>0, OutputKept DEF InSchedule
    <2> QED  BY <2>1, <2>2
  <1> QED  BY <1>1 DEF OutputInv

(* The sample appended is the one for the position after the last token.   *)
LEMMA NextInTurn ==
    ASSUME BeforeOutput, pc = "update", outputs # <<>>,
           NEW r \in Requests, r = Head(outputs).req, status[r] # "none",
           NEW p \in Position, p = Head(outputs).pos
    PROVE  /\ p = NumTokens(r) + 1
           /\ \A i \in DOMAIN batch_queue : \A q \in Position :
                 SampledAt(batch_queue[i], r, q) => q > p /\ q <= NumTokens(r) + Ahead(r)
  <1>1. /\ Awaited(r) /\ outputs \in Seq(Output) /\ Distinct(outputs) /\ Pending = outputs
        /\ NumTokens(r) \in Nat /\ num_output_placeholders[r] \in Nat
    BY NumbersTyped DEF BeforeOutput, Before, ControlInv, ControlTypes, Placeholders, OutputInv, OutputOf, Pending
  <1>2. /\ \A q : ~SampledAt(Tail(outputs), r, q)
        /\ \A q : SampledAt(outputs, r, q) <=> q = p
    BY <1>1, HeadSamples
  <1>3. Ahead(r) \in Nat /\ p \in Nat /\ p >= 1 /\ p <= MaxModelLen
    BY <1>1, BlockSizes DEF Ahead, Position
  <1>4. NumTokens(r) + 1 <= p /\ p <= NumTokens(r) + Ahead(r)
    <2>1. Arriving(r, p)
      BY <1>1, <1>2 DEF Arriving
    <2>2. p \in Upcoming(r)
      BY <2>1, <1>1 DEF Awaited
    <2> QED  BY <2>2, <1>1, <1>3 DEF Upcoming
  <1>5. \A i \in DOMAIN batch_queue : \A q \in Position : SampledAt(batch_queue[i], r, q) => p < q
    BY <1>1, <1>2 DEF Awaited
  <1>6. \A i \in DOMAIN batch_queue : \A q \in Position :
           SampledAt(batch_queue[i], r, q) => q <= NumTokens(r) + Ahead(r)
    <2> TAKE i \in DOMAIN batch_queue
    <2> TAKE q \in Position
    <2> HAVE SampledAt(batch_queue[i], r, q)
    <2>1. Arriving(r, q)
      BY DEF Arriving
    <2>2. q \in Upcoming(r)
      BY <2>1, <1>1 DEF Awaited
    <2> QED  BY <2>2, <1>1, <1>3 DEF Upcoming
  <1>7. p = NumTokens(r) + 1
    <2>1. CASE AsyncScheduling
      <3>1. NumTokens(r) + 1 \in Position /\ NumTokens(r) + 1 \in Upcoming(r)
        BY <1>1, <1>3, <1>4, BlockSizes DEF Position, Upcoming
      <3>2. Arriving(r, NumTokens(r) + 1)
        BY <2>1, <3>1, <1>1 DEF Awaited
      <3>3. CASE SampledAt(Pending, r, NumTokens(r) + 1)
        BY <3>3, <1>1, <1>2
      <3>4. CASE \E i \in DOMAIN batch_queue : SampledAt(batch_queue[i], r, NumTokens(r) + 1)
        BY <3>1, <3>4, <1>1, <1>3, <1>4, <1>5
      <3> QED  BY <3>2, <3>3, <3>4 DEF Arriving
    <2>2. CASE ~AsyncScheduling
      BY <2>2, <1>1, <1>3, <1>4 DEF Ahead
    <2> QED  BY <2>1, <2>2
  <1>8. \A q \in Position : q \in Nat
    BY BlockSizes DEF Position
  <1> QED  BY <1>3, <1>5, <1>6, <1>7, <1>8

(* The sample that arrives stands for the next position. *)
LEMMA AppendOutputOutput ==
    ASSUME BeforeOutput, AppendOutput
    PROVE  OutputInv'
  <1>0. /\ UNCHANGED <<status, num_prompt_tokens, num_computed_tokens, batch_queue>>
        /\ pc = "update" /\ status[Head(outputs).req] # "none" /\ Head(outputs).pos # 0
        /\ AppendOutputToken(Head(outputs).req, Head(outputs).pos)
        /\ num_output_placeholders' =
              [num_output_placeholders EXCEPT ![Head(outputs).req] = PlaceholdersAfter(@)]
    BY DEF AppendOutput
  <1>1. (pc' \in {"cache", "stop"} /\ UNCHANGED outputs) \/ NextOutput
    BY DEF AppendOutput
  <1>a. /\ OutputInv /\ outputs \in Seq(Output) /\ outputs # <<>> /\ Distinct(outputs)
        /\ PositionsInFlight /\ DOMAIN num_output_placeholders = Requests
        /\ DOMAIN all_token_ids = Requests
    BY <1>0 DEF BeforeOutput, Before, ControlInv, ControlTypes, NumberTypes, BatchesInFlight, Placeholders,
                NumbersInv
  <1>b. PICK r \in Requests, n \in Position : r = Head(outputs).req /\ n = Head(outputs).pos
    <2>1. Head(outputs).req \in Requests /\ Head(outputs) = outputs[1] /\ 1 \in DOMAIN outputs
      BY <1>a, OutputAtHand
    <2>2. outputs[1].pos \in 0 .. MaxModelLen
      BY <2>1, <1>a DEF PositionsInFlight, Positions
    <2>3. Head(outputs).pos \in Position
      BY <2>1, <2>2, <1>0, BlockSizes DEF Position
    <2> QED  BY <2>1, <2>3
  <1>c. Pending = outputs /\ Pending' = Tail(outputs)
    BY <1>0, <1>1 DEF Pending, NextOutput
  <1>d. /\ \A p : ~SampledAt(Tail(outputs), r, p)
        /\ \A q, p : SampledAt(outputs, q, p) <=> (q = r /\ p = n) \/ SampledAt(Tail(outputs), q, p)
    BY <1>a, <1>b, HeadSamples
  <1>e. /\ NumTokens(r) \in Nat /\ num_output_placeholders[r] \in Nat /\ all_token_ids[r] \in Seq(Token)
    BY NumbersTyped DEF BeforeOutput
  <1>f. /\ n = NumTokens(r) + 1
        /\ \A i \in DOMAIN batch_queue : \A q \in Position :
              SampledAt(batch_queue[i], r, q) => q > n /\ q <= NumTokens(r) + Ahead(r)
    BY <1>0, <1>a, <1>b, NextInTurn
  <1>g. /\ all_token_ids'[r] = Append(all_token_ids[r], n)
        /\ num_output_placeholders'[r] =
              IF AsyncScheduling THEN num_output_placeholders[r] - 1 ELSE num_output_placeholders[r]
        /\ \A q \in Requests \ {r} : /\ all_token_ids'[q] = all_token_ids[q]
                                     /\ num_output_placeholders'[q] = num_output_placeholders[q]
    BY <1>0, <1>a, <1>b DEF AppendOutputToken, PlaceholdersAfter
  <1>h. /\ NumTokens(r)' = NumTokens(r) + 1 /\ all_token_ids'[r][NumTokens(r) + 1] = n
        /\ \A p \in 1 .. NumTokens(r) : all_token_ids'[r][p] = all_token_ids[r][p]
    <2>1. n \in Token
      BY PositionsAreTokens DEF Position
    <2> QED  BY <2>1, <1>e, <1>g DEF NumTokens
  <1>i. /\ \A q, p : SampledAt(Pending, q, p)' <=> SampledAt(Tail(outputs), q, p)
        /\ \A i \in DOMAIN batch_queue : \A q, p :
              SampledAt(batch_queue[i], q, p)' <=> SampledAt(batch_queue[i], q, p)
    BY <1>0, <1>c DEF SampledAt
  <1>2. ASSUME NEW q \in Requests PROVE OutputOf(q)'
    <2>1. CASE q = r
      <3>1. OutputOf(r) /\ Awaited(r) /\ Waits(r) /\ num_prompt_tokens[r] \in 1 .. NumTokens(r)
        BY <1>0, <1>a, <1>b DEF OutputInv, OutputOf, BeforeOutput, Before, NumbersInv, TokensKnown, TokensOf
      <3>2. \A p \in num_prompt_tokens'[r] + 1 .. NumTokens(r)' : all_token_ids'[r][p] = p
        <4> TAKE p \in num_prompt_tokens'[r] + 1 .. NumTokens(r)'
        <4>1. p = NumTokens(r) + 1 \/ (p \in num_prompt_tokens[r] + 1 .. NumTokens(r) /\ p \in 1 .. NumTokens(r))
          BY <3>1, <1>0, <1>e, <1>h
        <4> QED  BY <4>1, <3>1, <1>0, <1>b, <1>f, <1>h DEF OutputOf
      <3>3. \A p : Arriving(r, p)' <=> \E i \in DOMAIN batch_queue : SampledAt(batch_queue[i], r, p)
        BY <1>0, <1>d, <1>i DEF Arriving
      <3>4. \A p \in Position : p \in Nat
        BY BlockSizes DEF Position
      <3>5. ASSUME NEW p \in Position, Arriving(r, p)' PROVE p \in Upcoming(r)' /\ AsyncScheduling
        <4>1. p > n /\ p <= NumTokens(r) + Ahead(r)
          BY <3>3, <3>5, <1>f
        <4> QED  BY <4>1, <3>4, <1>e, <1>f, <1>g, <1>h, SchedulerConfig DEF Upcoming, Ahead
      <3>6. ASSUME AsyncScheduling, NEW p \in Position, p \in Upcoming(r)' PROVE Arriving(r, p)'
        <4>1. p > n /\ p \in Upcoming(r)
          BY <3>4, <3>6, <1>e, <1>f, <1>g, <1>h DEF Upcoming, Ahead
        <4>2. Arriving(r, p) /\ p # n
          BY <4>1, <3>1, <3>4, <3>6, <1>e, <1>f DEF Awaited
        <4>3. ~SampledAt(Pending, r, p)
          BY <4>2, <1>c, <1>d
        <4> QED  BY <4>2, <4>3, <3>3 DEF Arriving
      <3>7. Awaited(r)'
        BY <3>1, <3>5, <3>6, <1>0, <1>d, <1>i DEF Awaited, Position
      <3>8. Waits(r)'
        <4>1. ~AsyncScheduling => \A p \in Position : ~Arriving(r, p)'
          BY <3>5
        <4>2. ~AsyncScheduling => \A i \in DOMAIN batch_queue : \A p \in Position : ~SampledAt(batch_queue[i], r, p)'
          BY <4>1, <3>3, <1>i
        <4> QED  BY <4>1, <4>2, <1>0 DEF Waits, Position
      <3> QED  BY <2>1, <3>2, <3>7, <3>8 DEF OutputOf
    <2>2. CASE q # r
      <3>1. \A p : SampledAt(Pending, q, p)' <=> SampledAt(Pending, q, p)
        BY <2>2, <1>c, <1>d, <1>i
      <3>2. OutputOf(q)
        BY <1>a DEF OutputInv
      <3> QED  BY <2>2, <3>1, <3>2, <1>0, <1>g, OutputKept DEF InSchedule
    <2> QED  BY <2>1, <2>2
  <1> QED  BY <1>2 DEF OutputInv

(* The scheduled tokens of r, where its sample comes from.                 *)
LEMMA DispatchedSample ==
    ASSUME Before, NEW r \in Requests, status[r] # "none", r \in Scheduled
    PROVE  LET n == num_computed_tokens[r] + NumScheduledTokens(r)
           IN  /\ status[r] = "RUNNING" /\ NumScheduledTokens(r) >= 1
               /\ n <= NumTokens(r) + num_output_placeholders[r]
               /\ \A i \in DOMAIN sched : sched[i].req = r =>
                     /\ num_computed_tokens[r] + sched[i].n = n
                     /\ ~IsPrefillChunk(sched[i]) => n = NumTokens(r) + num_output_placeholders[r]
  <1>1. /\ Granted /\ StepInOrder /\ QueuesExact
        /\ \A i, j \in DOMAIN sched : sched[i].req = sched[j].req => i = j
    BY DEF Before, ControlInv, NumbersInv, StepInOrder
  <1>2. r \in Range(running) /\ status[r] = "RUNNING"
    BY <1>1 DEF StepInOrder, QueuesExact
  <1>3. /\ NumTokens(r) \in Nat /\ num_output_placeholders[r] \in Nat
        /\ num_computed_tokens[r] \in Nat /\ NumScheduledTokens(r) \in Nat
        /\ NumScheduledTokens(r) >= 1
    BY NumbersTyped
  <1>4. num_computed_tokens[r] + NumScheduledTokens(r) <= NumTokens(r) + num_output_placeholders[r]
    BY <1>1, <1>2 DEF Granted, Covered, Fits
  <1>5. ASSUME NEW i \in DOMAIN sched, sched[i].req = r
        PROVE  NumScheduledTokens(r) = sched[i].n
    <2>1. EntryOf(sched, r) = sched[i] /\ r \in ReqsOf(sched)
      BY <1>1, <1>5, EntryOfFacts DEF Once
    <2> QED  BY <2>1, StepTerms DEF TokensIn
  <1> QED  BY <1>2, <1>3, <1>4, <1>5 DEF IsPrefillChunk

(* A batch that leaves samples r, if it does, for the position after all   *)
(* those in flight.                                                        *)
LEMMA DispatchOutput ==
    ASSUME BeforeOutput, Dispatch
    PROVE  OutputInv'
  <1> DEFINE batch == [i \in DOMAIN sched |->
                          [req |-> sched[i].req,
                           pos |-> IF IsPrefillChunk(sched[i]) THEN 0
                                   ELSE num_computed_tokens[sched[i].req] + sched[i].n + 1]]
  <1>0. /\ UNCHANGED <<status, num_prompt_tokens, outputs, all_token_ids>>
        /\ pc = "dispatch" /\ (pc' = "result" \/ (MayScheduleNext /\ pc' = "idle"))
        /\ num_computed_tokens' = [r \in Requests |-> num_computed_tokens[r] + NumScheduledTokens(r)]
        /\ num_output_placeholders' = [r \in Requests |->
              num_output_placeholders[r] + (IF AsyncScheduling /\ Samples(batch, r) THEN 1 ELSE 0)]
        /\ batch_queue' = Append(batch_queue, batch)
    BY DEF Dispatch, kvvars
  <1>a. /\ OutputInv /\ batch_queue \in Seq(Seq(Output)) /\ outputs = <<>> /\ InTurn /\ BatchesInFlight
        /\ Scheduled \subseteq Range(running) /\ QueuesExact /\ Granted /\ Before
        /\ (\E B : sched \in Seq(Entry(B)))
    BY <1>0 DEF BeforeOutput, Before, ControlInv, ControlTypes, BatchesInFlight, StepInOrder, NumbersInv
  <1>b. Pending = <<>> /\ Pending' = <<>>
    BY <1>0, <1>a DEF Pending
  <1>c. /\ Len(batch_queue) \in Nat /\ DOMAIN batch_queue = 1 .. Len(batch_queue)
        /\ DOMAIN batch_queue' = 1 .. Len(batch_queue) + 1
        /\ \A i \in 1 .. Len(batch_queue) : batch_queue'[i] = batch_queue[i]
        /\ batch_queue'[Len(batch_queue) + 1] = batch
    <2> HIDE DEF batch
    <2> QED  BY <1>0, <1>a
  <1>1. ASSUME NEW r \in Requests, status[r] # "none" PROVE OutputOf(r)'
    <2> DEFINE nt == NumTokens(r)
               ph == num_output_placeholders[r]
               n  == NumScheduledTokens(r)
    <2>0. PICK last \in Nat : last = Len(batch_queue) + 1
      BY <1>c
    <2>1. /\ nt \in Nat /\ ph \in Nat /\ num_computed_tokens[r] \in Nat /\ n \in Nat
          /\ r \notin Scheduled => n = 0
      BY <1>a, NumbersTyped
    <2>2. OutputOf(r) /\ Awaited(r) /\ Waits(r) /\ NumTokens(r)' = nt
      BY <1>0, <1>1, <1>a DEF OutputInv, OutputOf, NumTokens
    <2>3. ~AsyncScheduling => ph = 0
      <3>1. PlaceholdersOf(r)
        BY <1>a DEF Before, ControlInv, Placeholders
      <3> QED  BY <3>1 DEF PlaceholdersOf
    <2>4. \A i \in DOMAIN sched : sched[i].req = r => r \in Scheduled
      BY DEF Scheduled
    <2>5. ASSUME NEW p \in Position, SampledAt(batch, r, p)
          PROVE  /\ r \in Scheduled /\ p = nt + ph + 1 /\ Samples(batch, r)
                 /\ num_computed_tokens[r] + n = nt + ph
      <3>1. PICK j \in DOMAIN sched : batch[j].req = r /\ batch[j].pos = p
        BY <2>5 DEF SampledAt
      <3>2. p # 0
        BY BlockSizes DEF Position
      <3>3. sched[j].req = r /\ ~IsPrefillChunk(sched[j]) /\ p = num_computed_tokens[r] + sched[j].n + 1
        BY <3>1, <3>2
      <3>4. num_computed_tokens[r] + sched[j].n = nt + ph /\ num_computed_tokens[r] + n = nt + ph
        BY <3>3, <2>4, <1>1, <1>a, DispatchedSample
      <3>5. Samples(batch, r)
        BY <3>1, <3>2 DEF Samples
      <3> QED  BY <3>3, <3>4, <3>5, <2>4
    <2>6. Samples(batch, r) => \E p \in Position : SampledAt(batch, r, p)
      <3> HAVE Samples(batch, r)
      <3>1. PICK j \in DOMAIN batch : batch[j].req = r /\ batch[j].pos # 0
        BY DEF Samples
      <3>2. \A i \in DOMAIN batch_queue' : Positions(batch_queue'[i])
        BY <1>0, <1>a, DispatchUse DEF NumbersInv, PositionsInFlight, Positions
      <3>3. Positions(batch)
        BY <3>2, <1>c
      <3>4. batch[j].pos \in Position
        BY <3>1, <3>3, BlockSizes DEF Positions, Position
      <3> QED  BY <3>1, <3>4 DEF SampledAt
    <2> HIDE DEF batch
    <2>7. /\ \A p : ~SampledAt(Pending, r, p) /\ ~SampledAt(Pending, r, p)'
          /\ \A i \in 1 .. Len(batch_queue) : \A p : SampledAt(batch_queue[i], r, p)' <=> SampledAt(batch_queue[i], r, p)
          /\ \A p : SampledAt(batch_queue[last], r, p)' <=> SampledAt(batch, r, p)
      BY <1>b, <1>c, <2>0 DEF SampledAt
    <2>8. \A p : Arriving(r, p)' <=> Arriving(r, p) \/ SampledAt(batch, r, p)
      <3>1. 1 .. last = 1 .. Len(batch_queue) \cup {last}
        BY <1>c, <2>0
      <3> QED  BY <3>1, <2>7, <1>c DEF Arriving
    <2>9. \A p \in Position : p \in Nat /\ p >= 1
      BY BlockSizes DEF Position
    <2>10. \A p \in Position : Arriving(r, p) => p \in nt + 1 .. nt + Ahead(r)
      BY <2>2 DEF Awaited, Upcoming
    <2>11. num_output_placeholders'[r] = IF AsyncScheduling /\ Samples(batch, r) THEN ph + 1 ELSE ph
      BY <1>0, <2>1
    <2>12. num_computed_tokens'[r] = num_computed_tokens[r] + n
      BY <1>0
    (* Synchronously, nothing is sampled while a sample is in flight. *)
    <2>13. ~AsyncScheduling /\ r \in Scheduled => \A p \in Position : ~Arriving(r, p)
      <3> HAVE ~AsyncScheduling /\ r \in Scheduled
      <3>1. status[r] = "RUNNING" /\ n >= 1 /\ num_computed_tokens[r] + n <= nt + ph
        BY <1>1, <1>a, DispatchedSample
      <3>2. num_computed_tokens[r] # nt
        BY <3>1, <2>1, <2>3
      <3> QED  BY <3>1, <3>2, <2>2 DEF Waits
    <2> HIDE DEF nt, ph, n
    <2>14. ASSUME NEW p \in Position, Arriving(r, p)' PROVE p \in Upcoming(r)'
      <3>1. CASE Arriving(r, p)
        BY <3>1, <2>1, <2>2, <2>9, <2>10, <2>11 DEF Upcoming, Ahead, ph
      <3>2. CASE SampledAt(batch, r, p)
        BY <3>2, <2>1, <2>2, <2>3, <2>5, <2>11 DEF Upcoming, Ahead
      <3> QED  BY <2>14, <3>1, <3>2, <2>8
    <2>15. ASSUME AsyncScheduling, NEW p \in Position, p \in Upcoming(r)' PROVE Arriving(r, p)'
      <3>1. p \in Upcoming(r) \/ (p = nt + ph + 1 /\ Samples(batch, r))
        BY <2>1, <2>2, <2>9, <2>11, <2>15 DEF Upcoming, Ahead, ph, nt
      <3>2. CASE p \in Upcoming(r)
        BY <3>2, <2>2, <2>8, <2>15 DEF Awaited
      <3>3. CASE p = nt + ph + 1 /\ Samples(batch, r)
        <4>1. SampledAt(batch, r, p)
          BY <3>3, <2>5, <2>6
        <4> QED  BY <4>1, <2>8
      <3> QED  BY <3>1, <3>2, <3>3
    <2>16. ASSUME NEW i \in DOMAIN batch_queue', NEW j \in DOMAIN batch_queue',
                  NEW p \in Position, NEW q \in Position,
                  i < j, SampledAt(batch_queue[i], r, p)', SampledAt(batch_queue[j], r, q)'
           PROVE  p < q
      <3>1. i \in 1 .. Len(batch_queue) /\ SampledAt(batch_queue[i], r, p) /\ (j = last \/ j \in 1 .. Len(batch_queue))
        BY <2>0, <2>7, <2>16, <1>c
      <3>2. CASE j # last
        BY <3>1, <3>2, <2>2, <2>7, <2>16, <1>c DEF Awaited
      <3>3. CASE j = last
        <4>1. q = nt + ph + 1 /\ r \in Scheduled
          BY <3>3, <2>5, <2>7, <2>16
        <4>2. Arriving(r, p)
          BY <3>1, <1>c DEF Arriving
        <4>3. AsyncScheduling
          BY <4>1, <4>2, <2>13
        <4>4. p <= nt + ph
          BY <4>2, <4>3, <2>1, <2>9, <2>10 DEF Ahead, ph
        <4> QED  BY <4>1, <4>4, <2>1, <2>9
      <3> QED  BY <3>2, <3>3
    <2>17. Awaited(r)'
      BY <2>7, <2>14, <2>15, <2>16 DEF Awaited, Position
    <2>18. ASSUME ~AsyncScheduling, status[r] = "RUNNING", NEW p \in Position, Arriving(r, p)'
           PROVE  num_computed_tokens'[r] = NumTokens(r)'
      <3>1. CASE SampledAt(batch, r, p)
        BY <3>1, <2>1, <2>2, <2>3, <2>5, <2>12, <2>18
      <3>2. CASE Arriving(r, p)
        <4>1. num_computed_tokens[r] = NumTokens(r) /\ r \notin Scheduled
          BY <3>2, <2>2, <2>13, <2>18 DEF Waits
        <4> QED  BY <4>1, <2>1, <2>2, <2>12 DEF nt
      <3> QED  BY <2>18, <3>1, <3>2, <2>8
    <2>19. ASSUME ~AsyncScheduling, status[r] # "RUNNING", NEW i \in DOMAIN batch_queue', NEW p \in Position,
                  SampledAt(batch_queue[i], r, p)'
           PROVE  i = 1 /\ pc' = "result"
      <3>1. r \notin Scheduled
        BY <2>19, <1>a DEF QueuesExact
      <3>2. i \in 1 .. Len(batch_queue) /\ SampledAt(batch_queue[i], r, p)
        BY <3>1, <2>5, <2>7, <2>19, <1>c
      <3>3. i = 1
        BY <3>2, <2>2, <2>19, <1>c DEF Waits
      <3>4. ~MayScheduleNext
        BY <3>2, <2>19, <1>a, <1>c, SchedulerConfig DEF MayScheduleNext, InTurn
      <3> QED  BY <3>3, <3>4, <1>0
    <2>20. Waits(r)'
      BY <2>18, <2>19, <1>0 DEF Waits, Position
    <2> QED  BY <2>2, <2>17, <2>20, <1>0, <1>1 DEF OutputOf, NumTokens
  <1>2. ASSUME NEW r \in Requests PROVE OutputOf(r)'
    <2>1. CASE status[r] = "none"
      BY <2>1, <1>0 DEF OutputOf
    <2> QED  BY <2>1, <1>1, <1>2
  <1> QED  BY <1>2 DEF OutputInv

(* At the start nothing is in flight. *)
LEMMA OutputInit ==
    ASSUME Init
    PROVE  OutputInv
  BY DEF Init, OutputInv, OutputOf

(* Every action keeps the samples in their order. *)
LEMMA OutputNext ==
    ASSUME BeforeOutput, Next
    PROVE  OutputInv'
  <1>1. CASE SteadyStep
    BY <1>1, SteadyOutput
  <1>2. CASE PreemptVictim \/ ResetPreempt
    BY <1>2, PreemptsOutput
  <1>3. CASE (\E r \in Requests : AbortRequest(r) \/ SleepAborts(r)) \/ StopRequest
    BY <1>3, EndingOutput
  <1>4. CASE \E r \in Requests : \E prompt \in Prompts : AddRequest(r, prompt)
    BY <1>4, AddRequestOutput
  <1>5. CASE ScheduleWaiting
    BY <1>5, ScheduleWaitingOutput
  <1>6. CASE Dispatch
    BY <1>6, DispatchOutput
  <1>7. CASE TakeResult
    BY <1>7, TakeResultOutput
  <1>8. CASE SkipOutput
    BY <1>8, SkipOutputOutput
  <1>9. CASE AppendOutput
    BY <1>9, AppendOutputOutput
  <1> QED  BY <1>1, <1>2, <1>3, <1>4, <1>5, <1>6, <1>7, <1>8, <1>9 DEF Next, EngineStep, ClientStep, SteadyStep

(* What the other invariants add to this one, for a step. *)
UsedInv == ControlInv /\ KVInv /\ NumbersInv

(* The same with steps that leave everything as it is. *)
LEMMA OutputStep ==
    ASSUME Supported, InTurn
    PROVE  UsedInv /\ OutputInv /\ [Next]_vars => OutputInv'
  <1> SUFFICES ASSUME UsedInv, OutputInv, [Next]_vars PROVE OutputInv'
    OBVIOUS
  <1>1. CASE Next
    BY <1>1, OutputNext DEF UsedInv, BeforeOutput, Before
  <1>2. CASE UNCHANGED vars
    <2>1. /\ UNCHANGED <<status, num_prompt_tokens, num_computed_tokens, num_output_placeholders,
                         all_token_ids, batch_queue, pc, preempted_reqs, outputs>>
      BY <1>2 DEF vars, kvvars, reqvars, stepvars, flightvars
    <2>2. /\ \A r, p : SampledAt(Pending, r, p)' <=> SampledAt(Pending, r, p)
          /\ InSchedule' = InSchedule
      BY <2>1 DEF Pending, SampledAt, InSchedule
    <2>3. \A r \in Requests : OutputOf(r)'
      BY <2>1, <2>2, OutputKept DEF OutputInv
    <2> QED  BY <2>3 DEF OutputInv
  <1> QED  BY <1>1, <1>2

(* The inductive invariant of the samples in flight. *)
THEOREM SamplesInTurn ==
    ASSUME Supported, InTurn
    PROVE  Spec => []OutputInv
  <1>1. Init => OutputInv
    BY OutputInit
  <1>2. UsedInv /\ OutputInv /\ [Next]_vars => OutputInv'
    BY OutputStep
  <1>3. Spec => []UsedInv
    BY UseInvariant DEF UsedInv
  <1> QED  BY <1>1, <1>2, <1>3, PTL DEF Spec

(* The output of a request is what was sampled, position by position: no   *)
(* token is lost, repeated or put at another position, with batches in     *)
(* flight while requests are preempted, resumed and aborted.               *)
THEOREM OutputIsExact ==
    ASSUME Supported, InTurn
    PROVE  Spec => []OutputExact
  <1>1. UsedInv /\ OutputInv => OutputExact
    <2> SUFFICES ASSUME UsedInv, OutputInv, NEW r \in Requests,
                        NEW p \in num_prompt_tokens[r] + 1 .. NumTokens(r)
                 PROVE  all_token_ids[r][p] = p
      BY DEF OutputExact
    <2>1. CASE status[r] = "none"
      <3>1. all_token_ids[r] = <<>> /\ num_prompt_tokens[r] \in Nat
        BY <2>1 DEF UsedInv, NumbersInv, TokensKnown, TokensOf, ControlInv, ControlTypes, NumberTypes
      <3> QED  BY <3>1 DEF NumTokens
    <2>2. CASE status[r] # "none"
      BY <2>2 DEF OutputInv, OutputOf
    <2> QED  BY <2>1, <2>2
  <1>2. Spec => []UsedInv
    BY UseInvariant DEF UsedInv
  <1> QED  BY <1>1, <1>2, SamplesInTurn, PTL
-----------------------------------------------------------------------------
(* The KV of what counts as computed. *)

(* What is computed of r once this step is. *)
Reached(r) == num_computed_tokens[r] + NumScheduledTokens(r)

(* A batch about to leave fills block k of the table of s. *)
Fills(s, k) == num_computed_tokens[s] < k * BlockSize /\ k * BlockSize <= Reached(s)

(* The block gets the KV it is hashed for when this step executes. *)
Due(b) == \E s \in Scheduled : \E k \in DOMAIN req_to_blocks[s] :
              req_to_blocks[s][k] = b /\ Fills(s, k)

(* allocate_slots() hashes the blocks a step fills before it executes.     *)
HashesComputed ==
    \A b \in Block : block_hash[b] # NoHash => IsPrefix(block_hash[b], kv[b]) \/ Due(b)

TableComputed(r) ==
    LET n == num_computed_tokens[r]
    IN  \A i \in DOMAIN req_to_blocks[r] : (i - 1) * BlockSize < n =>
            \/ IsPrefix(TrueTokens(r, Min({n, i * BlockSize})), kv[req_to_blocks[r][i]])
            \/ i * BlockSize <= n /\ Due(req_to_blocks[r][i])

(* Nothing is cached of a request that is not computed with this step. *)
CachedInTime == \A r \in Requests : NumCached(r) * BlockSize <= Reached(r)

(* Of the requests that share a block, one at most is still to write it. *)
OneWriter ==
    \A r, s \in Requests : r # s =>
        \A i \in DOMAIN req_to_blocks[r], j \in DOMAIN req_to_blocks[s] :
            req_to_blocks[r][i] = req_to_blocks[s][j] =>
                \/ i * BlockSize <= num_computed_tokens[r]
                \/ j * BlockSize <= num_computed_tokens[s]

(* The scheduled requests are before the one slots are being found for, so *)
(* that the victim of "fcfs", the last, is not one of them.                *)
StepBeforeCur ==
    pc = "alloc" => \A j, k \in DOMAIN running :
        running[j] \in Scheduled /\ running[k] = cur[1] => j < k

ComputedInv ==
    /\ HashesComputed /\ (\A r \in Range(running) : TableComputed(r))
    /\ CachedInTime /\ OneWriter /\ StepBeforeCur

BeforeComputed == Policy = "fcfs" /\ WorkersInv /\ BeforeOutput /\ ComputedInv

(* What is hashed is what the model is to see: the prompt and the tokens   *)
(* sampled at their positions.                                             *)
LEMMA HashIsTokens ==
    ASSUME BeforeOutput, NEW r \in Requests, status[r] # "none",
           NEW i \in Nat, i * BlockSize <= NumTokens(r)
    PROVE  /\ BlockHash(r, i) = TrueTokens(r, i * BlockSize)
           /\ i * BlockSize \in Nat /\ Len(BlockHash(r, i)) = i * BlockSize
  <1> DEFINE n == i * BlockSize
  <1>1. /\ all_token_ids[r] \in Seq(Token) /\ NumTokens(r) \in Nat /\ n \in Nat
        /\ num_prompt_tokens[r] \in 1 .. NumTokens(r)
        /\ \A p \in num_prompt_tokens[r] + 1 .. NumTokens(r) : all_token_ids[r][p] = p
    <2>1. Before
      BY DEF BeforeOutput
    <2>2. TokensOf(r) /\ OutputOf(r)
      BY DEF BeforeOutput, Before, NumbersInv, TokensKnown, OutputInv
    <2> QED  BY <2>1, <2>2, NumbersTyped, MulMonotone DEF TokensOf, OutputOf
  <1> HIDE DEF n
  <1>2. n <= Len(all_token_ids[r])
    BY DEF n, NumTokens
  <1>3. /\ SubSeq(all_token_ids[r], 1, n) = [p \in 1 .. n |-> all_token_ids[r][p]]
        /\ Len(SubSeq(all_token_ids[r], 1, n)) = n
    BY <1>1, <1>2
  <1>4. ASSUME NEW p \in 1 .. n
        PROVE  all_token_ids[r][p] = IF p <= num_prompt_tokens[r] THEN all_token_ids[r][p] ELSE p
    BY <1>1, <1>2 DEF NumTokens
  <1> QED  BY <1>1, <1>3, <1>4 DEF BlockHash, TrueTokens, n

(* Tokens that are appended do not change what is to be seen before. *)
LEMMA TokensStay ==
    ASSUME NEW r, num_prompt_tokens'[r] = num_prompt_tokens[r],
           \A p \in 1 .. num_prompt_tokens[r] : all_token_ids'[r][p] = all_token_ids[r][p],
           num_prompt_tokens[r] \in Nat, NEW n \in Nat
    PROVE  TrueTokens(r, n)' = TrueTokens(r, n)
  BY DEF TrueTokens

(* A block filled with the tokens of a request holds them. *)
LEMMA PrefixOfItself ==
    ASSUME NEW S, NEW s \in Seq(S)
    PROVE  IsPrefix(s, s)
  BY DEF IsPrefix

(* Steps that compute nothing: what they drop, they drop entirely. *)
LEMMA ComputedKept ==
    ASSUME BeforeComputed, NEW G \in SUBSET Requests, G \cap Scheduled = {},
           Scheduled' = Scheduled,
           \A r \in Requests : NumScheduledTokens(r)' = NumScheduledTokens(r),
           \A r \in Requests \ G :
              /\ req_to_blocks'[r] = req_to_blocks[r] /\ num_cached_block'[r] = num_cached_block[r]
              /\ num_computed_tokens'[r] = num_computed_tokens[r],
           \A r \in G :
              req_to_blocks'[r] = <<>> /\ num_cached_block'[r] = NoEntry /\ num_computed_tokens'[r] = 0,
           \A b \in Block : block_hash'[b] \in {block_hash[b], NoHash},
           UNCHANGED kv \/ (running' = <<>> /\ \A b \in Block : block_hash'[b] = NoHash),
           Range(running') \subseteq Range(running) \ G,
           \A r \in Range(running') : \A n \in Nat : TrueTokens(r, n)' = TrueTokens(r, n),
           StepBeforeCur'
    PROVE  ComputedInv'
  <1>a. /\ Before /\ ComputedInv /\ running \in Seq(Requests) /\ Scheduled \subseteq Requests
        /\ \A r \in Requests : NumScheduledTokens(r) \in Nat
    <2>1. Before /\ ComputedInv /\ running \in Seq(Requests) /\ Scheduled \subseteq Range(running)
      BY DEF BeforeComputed, BeforeOutput, Before, ControlInv, ControlTypes, StepInOrder
    <2> QED  BY <2>1, NumbersTyped, RunningRequest
  <1>1. \A r \in Requests \ G : Reached(r)' = Reached(r) /\ \A k : Fills(r, k)' = Fills(r, k)
    BY DEF Reached, Fills
  <1>2. \A b : Due(b)' <=> Due(b)
    <2>1. \A s \in Scheduled : s \in Requests \ G
      BY <1>a
    <2> QED  BY <2>1, <1>1 DEF Due
  <1>3. HashesComputed'
    <2> SUFFICES ASSUME NEW b \in Block, block_hash'[b] # NoHash
                 PROVE  IsPrefix(block_hash'[b], kv'[b]) \/ Due(b)'
      BY DEF HashesComputed, Block
    <2>1. block_hash'[b] = block_hash[b] /\ UNCHANGED kv
      OBVIOUS
    <2> QED  BY <2>1, <1>2, <1>a DEF ComputedInv, HashesComputed
  <1>4. ASSUME NEW r \in Range(running') PROVE TableComputed(r)'
    <2>1. r \in Requests \ G /\ r \in Range(running) /\ UNCHANGED kv /\ TableComputed(r)
      <3>1. running' # <<>>
        BY DEF Range
      <3> QED  BY <3>1, <1>a, RunningRequest DEF ComputedInv
    <2>2. req_to_blocks'[r] = req_to_blocks[r] /\ num_computed_tokens'[r] = num_computed_tokens[r]
      BY <2>1
    <2>3. ASSUME NEW i \in DOMAIN req_to_blocks[r], (i - 1) * BlockSize < num_computed_tokens[r]
          PROVE  Min({num_computed_tokens[r], i * BlockSize}) \in Nat
      <3>1. /\ i \in Nat /\ i * BlockSize \in Nat /\ num_computed_tokens[r] \in Nat
        <4>1. req_to_blocks[r] \in Seq(Block) /\ num_computed_tokens[r] \in Nat
          BY <1>a, <2>1, NumbersTyped
        <4>2. i \in Nat
          BY <4>1
        <4> QED  BY <4>1, <4>2, MulMonotone
      <3> QED  BY <3>1, MinOfTwo
    <2> QED  BY <2>1, <2>2, <2>3, <1>2 DEF TableComputed
  <1>5. CachedInTime'
    <2> SUFFICES ASSUME NEW r \in Requests PROVE NumCached(r)' * BlockSize <= Reached(r)'
      BY DEF CachedInTime
    <2>1. CASE r \in G
      <3>1. NumCached(r)' = 0
        BY <2>1, NumCachedValue DEF NumCached
      <3>2. Reached(r)' \in Nat
        BY <2>1, <1>a DEF Reached
      <3> QED  BY <3>1, <3>2, BlockSizes
    <2>2. CASE r \notin G
      <3>1. NumCached(r)' = NumCached(r) /\ Reached(r)' = Reached(r)
        BY <2>2, <1>1 DEF NumCached
      <3> QED  BY <3>1, <1>a DEF ComputedInv, CachedInTime
    <2> QED  BY <2>1, <2>2
  <1>6. OneWriter'
    <2>1. \A r \in G : DOMAIN req_to_blocks'[r] = {}
      OBVIOUS
    <2> QED  BY <2>1, <1>a DEF ComputedInv, OneWriter
  <1> QED  BY <1>3, <1>4, <1>5, <1>6 DEF ComputedInv

(* The same when nothing is dropped but, with the cache, hashes. *)
LEMMA ComputedStays ==
    ASSUME BeforeComputed, UNCHANGED <<req_to_blocks, num_cached_block, num_computed_tokens, sched>>,
           \A b \in Block : block_hash'[b] \in {block_hash[b], NoHash},
           UNCHANGED kv \/ (running' = <<>> /\ \A b \in Block : block_hash'[b] = NoHash),
           running' = running,
           \A r \in Range(running) : \A n \in Nat : TrueTokens(r, n)' = TrueTokens(r, n),
           StepBeforeCur'
    PROVE  ComputedInv'
  <1>1. Scheduled' = Scheduled /\ \A r \in Requests : NumScheduledTokens(r)' = NumScheduledTokens(r)
    BY DEF Scheduled, NumScheduledTokens, ScheduledAt
  <1>2. {} \in SUBSET Requests /\ {} \cap Scheduled = {}
    OBVIOUS
  <1>3. Range(running') \subseteq Range(running) \ {} /\ Range(running') = Range(running)
    BY DEF Range
  <1> QED  BY <1>1, <1>2, <1>3, ComputedKept

(* The steps that leave requests alone. *)
LEMMA QuietComputed ==
    ASSUME BeforeComputed, QuietStep
    PROVE  ComputedInv'
  <1>1. /\ UNCHANGED <<num_prompt_tokens, num_computed_tokens, all_token_ids, req_to_blocks,
                       running, sched>>
        /\ pc' # "alloc" /\ (UNCHANGED kvvars \/ Reset)
    BY QuietSteps DEF BeforeComputed, BeforeOutput, Before, NumbersInv, Granted
  <1>2. UNCHANGED num_cached_block /\ \A b \in Block : block_hash'[b] \in {block_hash[b], NoHash}
    BY <1>1 DEF kvvars, poolvars, tablevars, Reset, ResetPrefixCache
  <1>3. UNCHANGED kv \/ (running' = <<>> /\ \A b \in Block : block_hash'[b] = NoHash)
    <2> USE DEF workervars
    <2>1. CASE StartSchedule \/ SkipRunning \/ RunningDone \/ WaitingDone \/ DrainQueue
      BY <2>1 DEF StartSchedule, SkipRunning, RunningDone, WaitingDone, DrainQueue
    <2>2. CASE TakeResult \/ SkipOutput \/ ResetIdleCache \/ ResetStart \/ ResetFinish
      BY <2>2 DEF TakeResult, SkipOutput, ResetIdleCache, ResetStart, ResetFinish
    <2>3. CASE (\E call \in SleepCalls : Sleep(call[1], call[2])) \/ SleepAborted \/ IdleCallback \/ WakeUp
      BY <2>3 DEF Sleep, SleepAborted, IdleCallback, WakeUp
    <2>4. CASE FallAsleep
      BY <2>4 DEF FallAsleep, Reset, ResetPrefixCache
    <2> QED  BY <2>1, <2>2, <2>3, <2>4 DEF QuietStep
  <1>4. \A r, n : TrueTokens(r, n)' = TrueTokens(r, n)
    BY <1>1 DEF TrueTokens
  <1>5. StepBeforeCur'
    BY <1>1 DEF StepBeforeCur
  <1> QED  BY <1>1, <1>2, <1>3, <1>4, <1>5, ComputedStays

(* A request is picked: what is scheduled is before it. *)
LEMMA PickRunningComputed ==
    ASSUME BeforeComputed, PickRunning
    PROVE  ComputedInv'
  <1>1. /\ UNCHANGED <<num_prompt_tokens, num_computed_tokens, all_token_ids, req_to_blocks,
                       num_cached_block, block_hash, running, sched, kv>>
        /\ pc = "running" /\ MoreRunning /\ cur' = <<running[req_index], NumNewTokens(running[req_index])>>
    BY DEF PickRunning, kvvars, poolvars, tablevars, reqvars, queuevars, workervars
  <1>2. \A r, n : TrueTokens(r, n)' = TrueTokens(r, n)
    BY <1>1 DEF TrueTokens
  <1>3. /\ running \in Seq(Requests) /\ IsInjective(running) /\ req_index \in Int
        /\ req_index >= 1 /\ \A k \in DOMAIN running : running[k] \in Scheduled => k < req_index
    BY <1>1 DEF BeforeComputed, BeforeOutput, Before, ControlInv, ControlTypes, NumberTypes, QueuesExact,
                StepInOrder
  <1>4. req_index \in DOMAIN running
    BY <1>1, <1>3 DEF MoreRunning
  <1>5. StepBeforeCur'
    <2> SUFFICES ASSUME NEW j \in DOMAIN running, NEW k \in DOMAIN running,
                        running[j] \in Scheduled, running[k] = running[req_index]
                 PROVE  j < k
      BY <1>1 DEF StepBeforeCur, Scheduled
    <2>1. k = req_index
      BY <1>3, <1>4 DEF IsInjective
    <2> QED  BY <2>1, <1>3
  <1> QED  BY <1>1, <1>2, <1>5, ComputedStays

(* New tokens are appended; new requests do not run yet. *)
LEMMA TokensComputed ==
    ASSUME BeforeComputed,
           AppendOutput \/ (\E r \in Requests : \E prompt \in Prompts : AddRequest(r, prompt))
    PROVE  ComputedInv'
  <1>1. /\ UNCHANGED <<num_computed_tokens, req_to_blocks, num_cached_block, block_hash, running, sched, kv>>
        /\ pc' # "alloc"
    BY DEF AppendOutput, AppendOutputToken, AddRequest, NewRequest, poolvars, tablevars, queuevars,
           stepvars, workervars, NextOutput
  <1>a. /\ Before /\ QueuesExact /\ TokensKnown /\ running \in Seq(Requests) /\ NumberTypes
        /\ (AppendOutput => outputs \in Seq(Output) /\ outputs # <<>>)
    BY DEF BeforeComputed, BeforeOutput, Before, ControlInv, ControlTypes, NumbersInv, BatchesInFlight,
           AppendOutput
  <1>2. ASSUME NEW q \in Range(running), NEW n \in Nat
        PROVE  TrueTokens(q, n)' = TrueTokens(q, n)
    <2>1. /\ q \in Requests /\ status[q] # "none" /\ num_prompt_tokens[q] \in 1 .. NumTokens(q)
          /\ all_token_ids[q] \in Seq(Token) /\ NumTokens(q) \in Nat
      <3>1. q \in Requests /\ status[q] # "none"
        BY <1>a DEF QueuesExact
      <3> QED  BY <3>1, <1>a, NumbersTyped DEF TokensKnown, TokensOf
    <2>2. CASE AppendOutput
      <3>1. /\ num_prompt_tokens' = num_prompt_tokens
            /\ all_token_ids' = [all_token_ids EXCEPT ![Head(outputs).req] = Append(@, Head(outputs).pos)]
        BY <2>2 DEF AppendOutput, AppendOutputToken
      <3>2. Head(outputs).pos \in Int
        BY <1>a, <2>2, OutputAtHand DEF Output
      <3>3. \A p \in 1 .. num_prompt_tokens[q] : all_token_ids'[q][p] = all_token_ids[q][p]
        <4>1. \/ all_token_ids'[q] = all_token_ids[q]
              \/ all_token_ids'[q] = Append(all_token_ids[q], Head(outputs).pos)
          BY <2>1, <3>1
        <4>2. \A p \in 1 .. num_prompt_tokens[q] : p \in 1 .. Len(all_token_ids[q])
          BY <2>1 DEF NumTokens
        <4>3. \A p \in 1 .. Len(all_token_ids[q]) :
                 Append(all_token_ids[q], Head(outputs).pos)[p] = all_token_ids[q][p]
          BY <2>1, <3>2
        <4> QED  BY <4>1, <4>2, <4>3
      <3>4. num_prompt_tokens[q] \in Nat /\ num_prompt_tokens'[q] = num_prompt_tokens[q]
        BY <2>1, <3>1
      <3> QED  BY <3>3, <3>4, TokensStay
    <2>3. CASE \E r \in Requests : \E prompt \in Prompts : AddRequest(r, prompt)
      <3>1. PICK r \in Requests, prompt \in Prompts : AddRequest(r, prompt)
        BY <2>3
      <3>2. /\ num_prompt_tokens' = [num_prompt_tokens EXCEPT ![r] = Len(prompt)]
            /\ all_token_ids' = [all_token_ids EXCEPT ![r] = prompt] /\ r # q
        BY <2>1, <3>1 DEF AddRequest, NewRequest
      <3>3. all_token_ids'[q] = all_token_ids[q] /\ num_prompt_tokens'[q] = num_prompt_tokens[q]
        BY <3>2
      <3> QED  BY <3>3 DEF TrueTokens
    <2> QED  BY <2>2, <2>3
  <1>3. StepBeforeCur'
    BY <1>1 DEF StepBeforeCur
  <1> QED  BY <1>1, <1>2, <1>3, ComputedStays

(* A request that is not in the step is dropped. *)
LEMMA LeavingComputed ==
    ASSUME BeforeComputed, NEW v \in Requests \ Scheduled, FreeRequest(v),
           num_computed_tokens' = [num_computed_tokens EXCEPT ![v] = 0],
           \A q \in Requests \ {v} : /\ all_token_ids'[q] = all_token_ids[q]
                                     /\ num_prompt_tokens'[q] = num_prompt_tokens[q],
           Range(running') = Range(running) \ {v}, UNCHANGED <<kv, sched>>, StepBeforeCur'
    PROVE  ComputedInv'
  <1>1. Scheduled' = Scheduled /\ \A r \in Requests : NumScheduledTokens(r)' = NumScheduledTokens(r)
    BY DEF Scheduled, NumScheduledTokens, ScheduledAt
  <1>2. /\ req_to_blocks' = [req_to_blocks EXCEPT ![v] = <<>>]
        /\ num_cached_block' = [num_cached_block EXCEPT ![v] = NoEntry] /\ UNCHANGED block_hash
    BY DEF FreeRequest
  <1>3. /\ DOMAIN req_to_blocks = Requests /\ DOMAIN num_cached_block = Requests
        /\ DOMAIN num_computed_tokens = Requests /\ running \in Seq(Requests)
    BY DEF BeforeComputed, BeforeOutput, Before, KVInv, KVTypeOK, ControlInv, ControlTypes, NumberTypes
  <1>4. \A r \in Requests \ {v} :
            /\ req_to_blocks'[r] = req_to_blocks[r] /\ num_cached_block'[r] = num_cached_block[r]
            /\ num_computed_tokens'[r] = num_computed_tokens[r]
    BY <1>2, <1>3
  <1>5. req_to_blocks'[v] = <<>> /\ num_cached_block'[v] = NoEntry /\ num_computed_tokens'[v] = 0
    BY <1>2, <1>3
  <1>6. ASSUME NEW r \in Range(running'), NEW n \in Nat PROVE TrueTokens(r, n)' = TrueTokens(r, n)
    <2>1. r \in Requests \ {v}
      BY <1>3, RunningRequest
    <2>2. all_token_ids'[r] = all_token_ids[r] /\ num_prompt_tokens'[r] = num_prompt_tokens[r]
      BY <2>1
    <2> QED  BY <2>2 DEF TrueTokens
  <1>7. PICK G \in SUBSET Requests : G = {v}
    OBVIOUS
  <1>8. /\ G \cap Scheduled = {} /\ Range(running') \subseteq Range(running) \ G
        /\ \A r \in Requests \ G :
              /\ req_to_blocks'[r] = req_to_blocks[r] /\ num_cached_block'[r] = num_cached_block[r]
              /\ num_computed_tokens'[r] = num_computed_tokens[r]
        /\ \A r \in G :
              req_to_blocks'[r] = <<>> /\ num_cached_block'[r] = NoEntry /\ num_computed_tokens'[r] = 0
    BY <1>4, <1>5, <1>7
  <1>9. \A b \in Block : block_hash'[b] \in {block_hash[b], NoHash}
    BY <1>2
  <1> QED  BY <1>1, <1>6, <1>8, <1>9, ComputedKept

(* Between steps, requests end or are preempted by a reset. *)
LEMMA EndingComputed ==
    ASSUME BeforeComputed,
           (\E r \in Requests : AbortRequest(r) \/ SleepAborts(r)) \/ StopRequest \/ ResetPreempt
    PROVE  ComputedInv'
  <1>a. /\ ControlInv /\ running \in Seq(Requests) /\ IsInjective(running)
        /\ (sched # <<>> => InSchedule)
    BY DEF BeforeComputed, BeforeOutput, Before, ControlInv, ControlTypes, QueuesExact, StepInOrder
  <1>b. ASSUME ~InSchedule PROVE Scheduled = {}
    BY <1>a, <1>b DEF Scheduled
  <1>c. ASSUME NEW r \in Requests, FinishRequest(r), UNCHANGED <<kv, sched>>, ~InSchedule, pc' # "alloc"
        PROVE  ComputedInv'
    <2>1. /\ FreeRequest(r) /\ num_computed_tokens' = [num_computed_tokens EXCEPT ![r] = 0]
          /\ num_prompt_tokens' = [num_prompt_tokens EXCEPT ![r] = 0]
          /\ all_token_ids' = [all_token_ids EXCEPT ![r] = <<>>]
      BY <1>c DEF FinishRequest, Finish
    <2>2. /\ DOMAIN num_prompt_tokens = Requests /\ DOMAIN all_token_ids = Requests
      BY <1>a DEF ControlInv, NumberTypes
    <2>3. \A q \in Requests \ {r} : /\ all_token_ids'[q] = all_token_ids[q]
                                    /\ num_prompt_tokens'[q] = num_prompt_tokens[q]
      BY <2>1, <2>2
    <2>4. Range(running') = Range(running) \ {r}
      BY <1>a, <1>c, FinishRequestSteps
    <2>5. StepBeforeCur'
      BY <1>c DEF StepBeforeCur
    <2> QED  BY <2>1, <2>3, <2>4, <2>5, <1>b, <1>c, LeavingComputed
  <1>1. CASE \E r \in Requests : AbortRequest(r) \/ SleepAborts(r)
    BY <1>1, <1>c DEF AbortRequest, SleepAborts, stepvars, workervars, InSchedule
  <1>2. CASE StopRequest
    <2>1. /\ FinishRequest(Head(outputs).req) /\ UNCHANGED <<kv, sched>>
          /\ pc = "stop" /\ pc' # "alloc"
      BY <1>2 DEF StopRequest, stepvars, workervars, NextOutput
    <2>2. outputs \in Seq(Output) /\ outputs # <<>>
      BY <2>1, <1>a DEF ControlInv, ControlTypes, BatchesInFlight
    <2>3. Head(outputs).req \in Requests
      BY <2>2, OutputAtHand
    <2> QED  BY <2>1, <2>3, <1>c DEF InSchedule
  <1>3. CASE ResetPreempt
    <2> DEFINE v == Last(running)
    <2>1. /\ UNCHANGED <<kv, sched>> /\ running # <<>>
          /\ PreemptRequest(v) /\ running' = Front(running)
          /\ pc \in {"reset", "clear"} /\ pc' = pc
      BY <1>3 DEF ResetPreempt, stepvars, workervars
    <2>2. v \in Range(running) /\ Range(running') = Range(running) \ {v}
      BY <2>1, <1>a, FrontFacts
    <2>3. /\ FreeRequest(v) /\ UNCHANGED <<all_token_ids, num_prompt_tokens>>
          /\ num_computed_tokens' = [num_computed_tokens EXCEPT ![v] = 0]
      BY <2>1 DEF PreemptRequest, Preempt
    <2>4. StepBeforeCur' /\ ~InSchedule
      BY <2>1 DEF StepBeforeCur, InSchedule
    <2> HIDE DEF v
    <2>5. v \in Requests \ Scheduled
      BY <2>2, <2>4, <1>a, <1>b, RunningRequest
    <2> QED  BY <2>1, <2>2, <2>3, <2>4, <2>5, LeavingComputed
  <1> QED  BY <1>1, <1>2, <1>3

(* list.remove keeps the order of the others. *)
LEMMA RemoveFromOrder ==
    ASSUME NEW S, NEW q \in Seq(S), NEW r, r \in Range(q)
    PROVE  LET left == RemoveFrom(q, r)
           IN  \A j, k \in DOMAIN left : \E a, b \in DOMAIN q :
                  left[j] = q[a] /\ left[k] = q[b] /\ (a < b => j < k)
  <1> DEFINE p == CHOOSE i \in DOMAIN q : q[i] = r
             left == RemoveAt(q, p)
  <1>1. p \in 1 .. Len(q) /\ DOMAIN q = 1 .. Len(q) /\ Len(q) \in Nat
    <2>1. \E i \in DOMAIN q : q[i] = r
      BY DEF Range
    <2> QED  BY <2>1
  <1>2. RemoveFrom(q, r) = left
    BY DEF RemoveFrom
  <1> HIDE DEF p
  <1>3. /\ DOMAIN left = 1 .. Len(q) - 1
        /\ \A k \in 1 .. Len(q) - 1 : left[k] = IF k < p THEN q[k] ELSE q[k + 1]
    BY <1>1, RemoveAtFacts
  <1> HIDE DEF left
  <1> SUFFICES ASSUME NEW j \in DOMAIN left, NEW k \in DOMAIN left
               PROVE  \E a, b \in DOMAIN q : left[j] = q[a] /\ left[k] = q[b] /\ (a < b => j < k)
    BY <1>2
  <1> DEFINE a == IF j < p THEN j ELSE j + 1
             b == IF k < p THEN k ELSE k + 1
  <1>4. a \in DOMAIN q /\ b \in DOMAIN q /\ left[j] = q[a] /\ left[k] = q[b] /\ (a < b => j < k)
    BY <1>1, <1>3
  <1> HIDE DEF a, b
  <1> QED  BY <1>4

(* The victim is the last of the running requests, after those of the step. *)
LEMMA PreemptVictimComputed ==
    ASSUME BeforeComputed, PreemptVictim
    PROVE  ComputedInv'
  <1>a. /\ running \in Seq(Requests) /\ IsInjective(running) /\ StepBeforeCur
        /\ Policy = "fcfs" /\ pc = "alloc" /\ cur[1] \in Range(running)
    BY DEF BeforeComputed, BeforeOutput, Before, ControlInv, ControlTypes, QueuesExact, StepInOrder,
           ComputedInv, PreemptVictim
  <1>1. PICK k \in DOMAIN running : running[k] = cur[1]
    BY <1>a DEF Range
  <1>2. running # <<>> /\ Len(running) \in DOMAIN running /\ \A j \in DOMAIN running : j <= Len(running)
    BY <1>1, <1>a
  <1>3. Victim = running[Len(running)] /\ Victim \in Range(running)
    BY <1>2, <1>a DEF Victim, Last, Range
  <1>4. PICK v \in Range(running) : v = Victim
    BY <1>3
  <1>5. v \notin Scheduled
    <2> SUFFICES ASSUME v \in Scheduled PROVE FALSE
      OBVIOUS
    <2>1. Len(running) < k
      BY <1>1, <1>2, <1>3, <1>4, <1>a DEF StepBeforeCur
    <2> QED  BY <2>1, <1>1, <1>2, <1>a
  <1>6. /\ PreemptRequest(v) /\ running' = RemoveFrom(running, v) /\ sched' = Unscheduled(v)
        /\ UNCHANGED <<kv, cur>>
    BY <1>4 DEF PreemptVictim, workervars
  <1>7. sched' = sched
    BY <1>5, <1>6 DEF Unscheduled
  <1>8. Range(running') = Range(running) \ {v}
    <2>1. LET left == RemoveFrom(running, v) IN Range(left) = Range(running) \ {v}
      BY <1>a, RemoveFromFacts
    <2> QED  BY <2>1, <1>6
  <1>9. StepBeforeCur'
    <2> SUFFICES ASSUME NEW i \in DOMAIN running', NEW j \in DOMAIN running',
                        running'[i] \in Scheduled, running'[j] = cur[1]
                 PROVE  i < j
      BY <1>6, <1>7 DEF StepBeforeCur, Scheduled
    <2>1. PICK a \in DOMAIN running, b \in DOMAIN running :
              running'[i] = running[a] /\ running'[j] = running[b] /\ (a < b => i < j)
      BY <1>6, <1>a, RemoveFromOrder
    <2> QED  BY <2>1, <1>a DEF StepBeforeCur
  <1>10. /\ FreeRequest(v) /\ UNCHANGED <<all_token_ids, num_prompt_tokens>>
         /\ num_computed_tokens' = [num_computed_tokens EXCEPT ![v] = 0]
    BY <1>6 DEF PreemptRequest, Preempt
  <1>11. v \in Requests \ Scheduled
    BY <1>5, <1>a, RunningRequest
  <1> QED  BY <1>6, <1>7, <1>8, <1>9, <1>10, <1>11, LeavingComputed

(* cache_full_blocks gives hashes to blocks of the table. *)
LEMMA HashesOfTable ==
    ASSUME NEW r, NEW blocks, NEW from, NEW to, NEW hashes, NEW b \in Block,
           SetHashes(hashes, NewlyCached(r, blocks, from, to))[b] # hashes[b]
    PROVE  \E i \in from + 1 .. to : blocks[i] = b
  <1> SUFFICES ASSUME ~\E i \in from + 1 .. to : blocks[i] = b PROVE FALSE
    OBVIOUS
  <1>1. ~\E h \in NewlyCached(r, blocks, from, to) : h[2] = b
    BY DEF NewlyCached
  <1> QED  BY <1>1 DEF SetHashes

(* What the request at hand has cached counted as computed has its KV.     *)
LEMMA CachedIsComputed ==
    ASSUME BeforeComputed, NEW r \in Range(running), NEW i \in DOMAIN req_to_blocks[r],
           i * BlockSize <= num_computed_tokens[r], i * BlockSize <= NumTokens(r)
    PROVE  IsPrefix(BlockHash(r, i), kv[req_to_blocks[r][i]]) \/ Due(req_to_blocks[r][i])
  <1>a. /\ Before /\ BeforeOutput /\ running \in Seq(Requests) /\ TableComputed(r) /\ QueuesExact
    BY DEF BeforeComputed, BeforeOutput, Before, ComputedInv, ControlInv, ControlTypes
  <1>b. r \in Requests /\ status[r] # "none"
    BY <1>a DEF QueuesExact
  <1>c. req_to_blocks[r] \in Seq(Block) /\ num_computed_tokens[r] \in Nat
    BY <1>a, <1>b, NumbersTyped
  <1>d. i \in Nat /\ i >= 1 /\ i - 1 \in Nat
    BY <1>c
  <1>e. /\ BlockHash(r, i) = TrueTokens(r, i * BlockSize) /\ i * BlockSize \in Nat
    BY <1>a, <1>b, <1>d, HashIsTokens
  <1>f. (i - 1) * BlockSize < i * BlockSize
    BY <1>d, BlockSizes
  <1>g. (i - 1) * BlockSize \in Nat
    BY <1>d, MulMonotone
  <1>h. (i - 1) * BlockSize < num_computed_tokens[r]
    BY <1>c, <1>e, <1>f, <1>g
  <1>i. Min({num_computed_tokens[r], i * BlockSize}) = i * BlockSize
    BY <1>c, <1>e, MinOfTwo
  <1> QED  BY <1>a, <1>e, <1>h, <1>i DEF TableComputed

(* The asynchronous scheduler caches what is computed. *)
LEMMA CacheOutputComputed ==
    ASSUME BeforeComputed, CacheOutput
    PROVE  ComputedInv'
  <1>a. /\ Before /\ ControlInv /\ KVInv /\ NumbersInv /\ BeforeOutput /\ ComputedInv /\ Supported
        /\ outputs \in Seq(Output) /\ outputs # <<>> /\ running \in Seq(Requests)
        /\ QueuesExact /\ status[Head(outputs).req] = "RUNNING"
    BY DEF BeforeComputed, BeforeOutput, Before, ControlInv, ControlTypes, BatchesInFlight, CacheOutput
  <1>b. PICK r \in Requests : r = Head(outputs).req
    BY <1>a, OutputAtHand
  <1>c. r \in Range(running)
    BY <1>a, <1>b DEF QueuesExact
  <1> DEFINE n == num_computed_tokens[r] - num_output_placeholders[r]
             full == n \div BlockSize
             pairs == NewlyCached(r, req_to_blocks[r], NumCached(r), full)
  <1>0. /\ UNCHANGED <<num_prompt_tokens, num_computed_tokens, all_token_ids, req_to_blocks,
                       running, sched, kv>>
        /\ block_hash' = SetHashes(block_hash, pairs)
        /\ num_cached_block' = [num_cached_block EXCEPT ![r] =
              IF full > NumCached(r) THEN full ELSE @]
        /\ pc' # "alloc"
    BY <1>b DEF CacheOutput, CacheBlocks, reqvars, queuevars, stepvars, workervars, NextOutput
  <1>d. KVInv'
    BY <1>a, UseStep DEF Next, EngineStep
  <1>e. /\ num_computed_tokens[r] \in Nat /\ num_output_placeholders[r] \in Nat
        /\ NumScheduledTokens(r) \in Nat /\ req_to_blocks[r] \in Seq(Block)
        /\ NumCached(r) \in Nat /\ DOMAIN num_cached_block = Requests
    BY <1>a, NumbersTyped, NumCachedType DEF KVInv, KVTypeOK
  <1>f. full > NumCached(r) => full \in Nat /\ full * BlockSize <= num_computed_tokens[r]
    <2> HAVE full > NumCached(r)
    <2>1. n \in Nat
      <3>1. n \in Int
        BY <1>e
      <3> HIDE DEF n
      <3>2. n < 0 => n \div BlockSize <= 0
        BY <3>1, BlockSizes, SMT
      <3>3. n \div BlockSize \in Int
        BY <3>1, BlockSizes, SMT
      <3> QED  BY <3>1, <3>2, <3>3, <1>e
    <2>2. full \in Nat /\ full * BlockSize <= n
      <3> HIDE DEF n
      <3> QED  BY <2>1, DivBounds
    <2>3. n <= num_computed_tokens[r]
      BY <1>e
    <2>4. full * BlockSize \in Nat
      BY <2>2, MulMonotone
    <2> HIDE DEF full, n
    <2> QED  BY <2>1, <2>2, <2>3, <2>4, <1>e
  <1>i. full \in Int
    <2>1. n \in Int
      BY <1>e
    <2> HIDE DEF n
    <2> QED  BY <2>1, BlockSizes, SMT
  <1> HIDE DEF n, full
  <1>g. /\ num_cached_block'[r] = IF full > NumCached(r) THEN full ELSE num_cached_block[r]
        /\ \A q \in Requests \ {r} : num_cached_block'[q] = num_cached_block[q]
    BY <1>0, <1>e
  <1>h. /\ \A q \in Requests \ {r} : NumCached(q)' = NumCached(q)
        /\ NumCached(r)' = IF full > NumCached(r) THEN full ELSE NumCached(r)
    <2>1. full > NumCached(r) => Max({0, full}) = full
      <3> HAVE full > NumCached(r)
      <3>1. full \in Nat /\ full \in Int
        BY <1>f
      <3> QED  BY <3>1, MaxOfTwo
    <2> QED  BY <2>1, <1>g DEF NumCached
  <1>1. Scheduled' = Scheduled /\ \A q : NumScheduledTokens(q)' = NumScheduledTokens(q)
    BY <1>0 DEF Scheduled, NumScheduledTokens, ScheduledAt
  <1>2. /\ \A q : Reached(q)' = Reached(q)
        /\ \A b : Due(b)' <=> Due(b)
    BY <1>0, <1>1 DEF Reached, Due, Fills
  <1>3. HashesComputed'
    <2> SUFFICES ASSUME NEW b \in Block, block_hash'[b] # NoHash
                 PROVE  IsPrefix(block_hash'[b], kv[b]) \/ Due(b)
      BY <1>0, <1>2 DEF HashesComputed, Block
    <2>1. CASE block_hash'[b] = block_hash[b]
      BY <2>1, <1>a DEF ComputedInv, HashesComputed
    <2>2. CASE block_hash'[b] # block_hash[b]
      <3>1. PICK i \in NumCached(r) + 1 .. full : req_to_blocks[r][i] = b
        BY <2>2, <1>0, HashesOfTable
      <3>2. full > NumCached(r) /\ full \in Nat /\ full * BlockSize <= num_computed_tokens[r]
            /\ i \in Nat /\ i >= 1 /\ i <= full
        BY <3>1, <1>e, <1>f, <1>i
      <3>3. NumCached(r)' = full
        BY <3>2, <1>h
      <3>4. /\ full <= Len(req_to_blocks[r]) /\ full * BlockSize <= NumTokens(r)
            /\ \A k \in 1 .. Len(req_to_blocks[r]) : k <= full =>
                  block_hash'[req_to_blocks[r][k]] = BlockHash(r, k)
        BY <3>3, <1>0, <1>d DEF KVInv, CachedWithinTable, TableHashes, NumTokens, BlockHash
      <3>5. i \in DOMAIN req_to_blocks[r] /\ i \in 1 .. Len(req_to_blocks[r])
        BY <3>2, <3>4, <1>e
      <3>6. i * BlockSize <= full * BlockSize /\ i * BlockSize \in Nat /\ full * BlockSize \in Nat
        BY <3>2, MulMonotone
      <3>7. i * BlockSize <= num_computed_tokens[r] /\ i * BlockSize <= NumTokens(r)
        <4>1. NumTokens(r) \in Nat
          BY <1>a, NumbersTyped
        <4> QED  BY <4>1, <3>2, <3>4, <3>6, <1>e
      <3>8. IsPrefix(BlockHash(r, i), kv[b]) \/ Due(b)
        BY <3>1, <3>5, <3>7, <1>c, CachedIsComputed
      <3> QED  BY <3>1, <3>2, <3>4, <3>5, <3>8
    <2> QED  BY <2>1, <2>2
  <1>4. \A q \in Range(running') : TableComputed(q)'
    <2>1. \A q, m : TrueTokens(q, m)' = TrueTokens(q, m)
      BY <1>0 DEF TrueTokens
    <2> QED  BY <2>1, <1>0, <1>2, <1>a DEF ComputedInv, TableComputed
  <1>5. CachedInTime'
    <2>1. \A q \in Requests : NumCached(q) * BlockSize <= Reached(q)
      BY <1>a DEF ComputedInv, CachedInTime
    <2>2. full > NumCached(r) => full * BlockSize <= Reached(r)
      <3> HAVE full > NumCached(r)
      <3>1. full \in Nat /\ full * BlockSize \in Nat
        BY <1>f, MulMonotone
      <3> QED  BY <3>1, <1>e, <1>f DEF Reached
    <2> QED  BY <2>1, <2>2, <1>2, <1>h DEF CachedInTime
  <1>6. OneWriter'
    BY <1>0, <1>a DEF ComputedInv, OneWriter
  <1>7. StepBeforeCur'
    BY <1>0 DEF StepBeforeCur
  <1> QED  BY <1>3, <1>4, <1>5, <1>6, <1>7 DEF ComputedInv

(* allocate_slots(), for the invariant: hits and unused blocks are         *)
(* appended, and what is hashed lies behind what was cached and within     *)
(* what is asked for.                                                      *)
Allocated(r, hits, total, from) ==
    LET table == req_to_blocks[r]
        new   == req_to_blocks'[r]
    IN  /\ Len(table) + Len(hits) <= Len(new)
        /\ \A i \in 1 .. Len(table) : new[i] = table[i]
        /\ \A i \in 1 .. Len(hits) : new[Len(table) + i] = hits[i]
        /\ \A i \in DOMAIN new : i > Len(table) + Len(hits) =>
              \A s \in Requests : new[i] \notin Range(req_to_blocks[s])
        /\ \A s \in Requests \ {r} :
              req_to_blocks'[s] = req_to_blocks[s] /\ num_cached_block'[s] = num_cached_block[s]
        /\ NumCached(r)' = from \/ NumCached(r)' * BlockSize <= total
        /\ \A b \in Block :
              \/ block_hash'[b] \in {block_hash[b], NoHash}
              \/ \E i \in Nat : /\ i > from /\ i <= NumCached(r)' /\ i * BlockSize <= total
                                /\ new[i] = b

(* allocate_slots() leaves the table, the cached blocks and the hashes so. *)
LEMMA AllocatedTable ==
    ASSUME KVInv, NEW r \in Requests, NEW hits, IsHit(r, hits), NEW total \in Nat,
           AllocateSlots(r, hits, total),
           NEW from, from = IF hits = <<>> THEN NumCached(r) ELSE Len(hits)
    PROVE  Allocated(r, hits, total, from)
  <1> DEFINE table      == req_to_blocks[r]
             queue      == Without(free_block_queue, Range(hits))
             num_new    == NumNewBlocks(r, hits, total)
             new_blocks == SubSeq(queue, 1, num_new)
             rest       == SubSeq(queue, num_new + 1, Len(queue))
             blocks     == table \o hits \o new_blocks
             evicted    == Evictable(Range(new_blocks))
             hashes     == [b \in Block |-> IF b \in evicted THEN NoHash ELSE block_hash[b]]
             known      == Min({total, NumTokens(r)})
             full       == known \div BlockSize
  <1>1. /\ CanAllocate(r, hits, total) /\ req_to_blocks' = [req_to_blocks EXCEPT ![r] = blocks]
        /\ block_hash' = SetHashes(hashes, NewlyCached(r, blocks, from, full))
        /\ num_cached_block' = [num_cached_block EXCEPT ![r] =
              IF full > from THEN full ELSE IF hits = <<>> THEN @ ELSE Len(hits)]
    BY DEF AllocateSlots
  <1>2. num_new \in Nat /\ num_new <= Len(queue)
    BY <1>1, EnoughFreeBlocks
  <1>3. Appended(r, hits, new_blocks, rest, num_new)
    <2> HIDE DEF num_new
    <2> QED  BY <1>2, AppendedBlocks
  <1>4. /\ DOMAIN req_to_blocks = Requests /\ DOMAIN num_cached_block = Requests
        /\ num_cached_block[r] \in Nat \cup {NoEntry} /\ NumTokens(r) \in Nat
        /\ table \in Seq(Block) /\ Len(table) \in Nat /\ Len(hits) \in Nat /\ DOMAIN hits = 1 .. Len(hits)
    BY DEF KVInv, KVTypeOK, NumTokens, IsHit
  <1>5. /\ blocks \in Seq(Block) /\ Len(blocks) = Len(table) + Len(hits) + num_new
        /\ Range(new_blocks) \subseteq Range(free_block_queue)
        /\ new_blocks \in Seq(Block) /\ Len(new_blocks) = num_new
        /\ \A i \in 1 .. Len(blocks) :
              blocks[i] = IF i <= Len(table) THEN table[i]
                          ELSE IF i <= Len(table) + Len(hits) THEN hits[i - Len(table)]
                          ELSE new_blocks[i - Len(table) - Len(hits)]
    <2> HIDE DEF num_new, new_blocks, rest
    <2> QED  BY <1>3 DEF Appended
  <1>6. req_to_blocks'[r] = blocks
    BY <1>1, <1>4
  <1>7. full \in Nat /\ full * BlockSize <= total
    <2>1. known \in Nat /\ known <= total
      <3>1. total \in Int /\ NumTokens(r) \in Int
        BY <1>4
      <3>2. known = IF total <= NumTokens(r) THEN total ELSE NumTokens(r)
        BY <3>1, MinOfTwo
      <3> HIDE DEF known
      <3> QED  BY <3>2, <1>4
    <2> HIDE DEF known
    <2>2. full \in Nat /\ full * BlockSize <= known
      BY <2>1, DivBounds
    <2>3. full * BlockSize \in Nat
      BY <2>2, MulMonotone
    <2> HIDE DEF full
    <2> QED  BY <2>1, <2>2, <2>3
  <1>8. from \in Nat
    BY <1>4, NumCachedType
  <1> HIDE DEF full, known, hashes, blocks, table, new_blocks, rest, num_new, queue
  <1>9. NumCached(r)' = IF full > from THEN full ELSE from
    <2>1. num_cached_block'[r] = IF full > from THEN full
                                 ELSE IF hits = <<>> THEN num_cached_block[r] ELSE Len(hits)
      BY <1>1, <1>4
    <2>2. \A m \in Nat : Max({0, m}) = m
      <3> TAKE m \in Nat
      <3>1. 0 \in Int /\ m \in Int
        OBVIOUS
      <3>2. Max({0, m}) = IF 0 >= m THEN 0 ELSE m
        BY <3>1, MaxOfTwo
      <3> QED  BY <3>2
    <2> QED  BY <2>1, <2>2, <1>4, <1>7 DEF NumCached
  <1>10. /\ Len(table) + Len(hits) <= Len(blocks)
         /\ \A i \in 1 .. Len(table) : blocks[i] = table[i]
    BY <1>2, <1>4, <1>5
  <1>11. \A i \in 1 .. Len(hits) : blocks[Len(table) + i] = hits[i]
    BY <1>2, <1>4, <1>5
  <1>12. ASSUME NEW i \in DOMAIN blocks, i > Len(table) + Len(hits), NEW s \in Requests
         PROVE  blocks[i] \notin Range(req_to_blocks[s])
    <2>1. i \in 1 .. Len(blocks) /\ i - Len(table) - Len(hits) \in DOMAIN new_blocks
      BY <1>2, <1>4, <1>5, <1>12
    <2>2. blocks[i] = new_blocks[i - Len(table) - Len(hits)]
      BY <2>1, <1>4, <1>5, <1>12
    <2>3. blocks[i] \in Range(free_block_queue)
      BY <2>1, <2>2, <1>5 DEF Range
    <2> QED  BY <2>3, TableReferenced
  <1>13. \A s \in Requests \ {r} :
            req_to_blocks'[s] = req_to_blocks[s] /\ num_cached_block'[s] = num_cached_block[s]
    BY <1>1, <1>4
  <1>14. ASSUME NEW b \in Block, block_hash'[b] \notin {block_hash[b], NoHash}
         PROVE  \E i \in Nat : /\ i > from /\ i <= NumCached(r)' /\ i * BlockSize <= total
                               /\ blocks[i] = b
    <2>1. hashes[b] \in {block_hash[b], NoHash}
      BY DEF hashes
    <2>2. PICK i \in from + 1 .. full : blocks[i] = b
      BY <2>1, <1>1, <1>14, HashesOfTable
    <2>3. i \in Nat /\ i > from /\ i <= full /\ full > from
      BY <2>2, <1>7, <1>8
    <2>4. i * BlockSize <= full * BlockSize /\ i * BlockSize \in Nat /\ full * BlockSize \in Nat
      BY <2>3, <1>7, MulMonotone
    <2>5. i * BlockSize <= total
      BY <2>4, <1>7
    <2> QED  BY <2>2, <2>3, <2>5, <1>9
  <1>15. NumCached(r)' = from \/ NumCached(r)' * BlockSize <= total
    BY <1>7, <1>9
  <1> QED  BY <1>6, <1>10, <1>11, <1>12, <1>13, <1>14, <1>15 DEF Allocated, table

(* The blocks before a position. *)
LEMMA BlocksBefore ==
    ASSUME NEW i \in Nat, NEW j \in Nat
    PROVE  /\ i * BlockSize < j * BlockSize => i < j
           /\ i < j => i * BlockSize < j * BlockSize
           /\ i * BlockSize \in Nat /\ j * BlockSize \in Nat
  <1>1. i * BlockSize \in Nat /\ j * BlockSize \in Nat
    BY MulMonotone
  <1>2. ASSUME i * BlockSize < j * BlockSize PROVE i < j
    <2> SUFFICES ASSUME j <= i PROVE FALSE
      OBVIOUS
    <2>1. j * BlockSize <= i * BlockSize
      BY MulMonotone
    <2> QED  BY <2>1, <1>1, <1>2
  <1>3. ASSUME i < j PROVE i * BlockSize < j * BlockSize
    <2>1. i + 1 \in Nat /\ i + 1 <= j
      BY <1>3
    <2>2. (i + 1) * BlockSize <= j * BlockSize /\ (i + 1) * BlockSize \in Nat
      BY <2>1, MulMonotone
    <2>3. i * BlockSize < (i + 1) * BlockSize
      BY BlockSizes
    <2> QED  BY <1>1, <2>2, <2>3
  <1> QED  BY <1>1, <1>2, <1>3

(* Every block that n tokens need holds one of them. *)
LEMMA CdivReaches ==
    ASSUME NEW n \in Nat, NEW i \in 1 .. Cdiv(n, BlockSize)
    PROVE  i \in Nat /\ i - 1 \in Nat /\ i >= 1 /\ (i - 1) * BlockSize < n
  <1>1. Cdiv(n, BlockSize) \in Nat /\ i \in Nat /\ i - 1 \in Nat /\ i >= 1 /\ i <= Cdiv(n, BlockSize)
    <2>1. Cdiv(n, BlockSize) \in Nat
      BY CdivBounds
    <2> QED  BY <2>1
  <1>2. PICK m \in Nat : m = n + BlockSize - 1
    BY BlockSizes
  <1>3. PICK k \in Nat : k = m \div BlockSize /\ k * BlockSize <= m
    BY DivBounds
  <1>4. i <= k
    BY <1>1, <1>2, <1>3 DEF Cdiv
  <1>5. PICK x \in Nat : x = (i - 1) * BlockSize
    BY <1>1, BlocksBefore
  <1>6. i * BlockSize = x + BlockSize
    BY <1>1, <1>5, BlockSizes
  <1>7. i * BlockSize <= k * BlockSize /\ k * BlockSize \in Nat /\ i * BlockSize \in Nat
    BY <1>1, <1>3, <1>4, MulMonotone
  <1>8. PICK y \in Nat : y = i * BlockSize
    BY <1>7
  <1>9. y <= m
    BY <1>3, <1>7, <1>8
  <1>10. x < n
    BY <1>2, <1>6, <1>8, <1>9, BlockSizes
  <1> QED  BY <1>1, <1>5, <1>10

(* A request is scheduled: a running one grows, a waiting one starts with  *)
(* what its hits have computed, or will have with this step.               *)
LEMMA GrantComputed ==
    ASSUME BeforeComputed, KVInv', NEW r \in Requests \ Scheduled, status[r] # "none",
           NEW hits, IsHit(r, hits), NEW n \in Nat, NEW done \in Nat, done = num_computed_tokens'[r],
           AllocateSlots(r, hits, done + n),
           \/ hits = <<>> /\ done = num_computed_tokens[r] /\ r \in Range(running)
           \/ req_to_blocks[r] = <<>> /\ done = Len(hits) * BlockSize,
           NEW e, e \in Entry({e.blocks}), e.req = r, e.n = n,
           sched' = Append(sched, e), Range(running') = Range(running) \cup {r}, pc' # "alloc",
           \A q \in Requests \ {r} : num_computed_tokens'[q] = num_computed_tokens[q],
           UNCHANGED <<num_prompt_tokens, all_token_ids, kv>>
    PROVE  ComputedInv'
  <1> DEFINE table == req_to_blocks[r]
             new   == req_to_blocks'[r]
  <1>a. /\ Before /\ BeforeOutput /\ KVInv /\ ComputedInv /\ running \in Seq(Requests)
        /\ Once(sched) /\ Scheduled = ReqsOf(sched) /\ Scheduled' = ReqsOf(sched')
        /\ Scheduled \subseteq Range(running) /\ Granted
    BY StepTerms DEF BeforeComputed, BeforeOutput, Before, ControlInv, ControlTypes, StepInOrder,
                     NumbersInv, Once
  <1>b. PICK B : sched \in Seq(Entry(B))
    BY <1>a DEF Before, ControlInv, ControlTypes
  <1>c. /\ \A q : NumScheduledTokens(q)' = IF q = r THEN n ELSE NumScheduledTokens(q)
        /\ Scheduled' = Scheduled \cup {r}
    <2>1. e.req \notin ReqsOf(sched)
      BY <1>a
    <2>2. /\ ReqsOf(Append(sched, e)) = ReqsOf(sched) \cup {e.req}
          /\ \A q : TokensIn(Append(sched, e), q) = IF q = e.req THEN e.n ELSE TokensIn(sched, q)
      BY <2>1, <1>a, <1>b, EntriesAppend
    <2> QED  BY <2>2, <1>a, StepTerms, StepTermsNext
  <1>d. PICK from : from = IF hits = <<>> THEN NumCached(r) ELSE Len(hits)
    OBVIOUS
  <1>e. /\ Len(table) + Len(hits) <= Len(new)
        /\ \A i \in 1 .. Len(table) : new[i] = table[i]
        /\ \A i \in 1 .. Len(hits) : new[Len(table) + i] = hits[i]
        /\ \A i \in DOMAIN new : i > Len(table) + Len(hits) =>
              \A s \in Requests : new[i] \notin Range(req_to_blocks[s])
        /\ \A s \in Requests \ {r} :
              req_to_blocks'[s] = req_to_blocks[s] /\ num_cached_block'[s] = num_cached_block[s]
        /\ NumCached(r)' = from \/ NumCached(r)' * BlockSize <= done + n
        /\ \A b \in Block :
              \/ block_hash'[b] \in {block_hash[b], NoHash}
              \/ \E i \in Nat : /\ i > from /\ i <= NumCached(r)' /\ i * BlockSize <= done + n
                                /\ new[i] = b
    <2>1. PICK total \in Nat : total = done + n
      OBVIOUS
    <2>2. AllocateSlots(r, hits, total)
      BY <2>1
    <2> HIDE DEF table, new
    <2>3. Allocated(r, hits, total, from)
      BY <2>2, <1>a, <1>d, AllocatedTable
    <2>4. Allocated(r, hits, done + n, from)
      BY <2>1, <2>3
    <2> QED  BY <2>4 DEF Allocated, table, new
  <1>f. /\ table \in Seq(Block) /\ Len(table) \in Nat /\ DOMAIN table = 1 .. Len(table)
        /\ new \in Seq(Block) /\ Len(new) \in Nat /\ DOMAIN new = 1 .. Len(new)
        /\ Len(hits) \in Nat /\ NumCached(r) \in Nat /\ NumTokens(r) \in Nat
        /\ hits = <<>> => Len(hits) = 0
        /\ NumTokens(r)' = NumTokens(r) /\ (\A i : BlockHash(r, i)' = BlockHash(r, i))
    <2>1. table \in Seq(Block) /\ new \in Seq(Block)
      BY <1>a DEF KVInv, KVTypeOK
    <2>2. Len(hits) \in Nat /\ NumCached(r) \in Nat /\ (hits = <<>> => Len(hits) = 0)
      BY <1>a, NumCachedType DEF IsHit
    <2>3. NumTokens(r) \in Nat
      BY <1>a, NumbersTyped
    <2>4. NumTokens(r)' = NumTokens(r) /\ (\A i : BlockHash(r, i)' = BlockHash(r, i))
      BY DEF NumTokens, BlockHash
    <2> HIDE DEF table, new
    <2> QED  BY <2>1, <2>2, <2>3, <2>4
  <1>g. \A q \in Requests \ {r} : /\ Reached(q)' = Reached(q) /\ NumCached(q)' = NumCached(q)
                                  /\ \A k : Fills(q, k)' = Fills(q, k)
    BY <1>c, <1>e DEF Reached, Fills, NumCached
  <1>h. Reached(r)' = done + n
    BY <1>c DEF Reached
  <1>i. \A q, m : TrueTokens(q, m)' = TrueTokens(q, m)
    BY DEF TrueTokens
  <1>j. ASSUME NEW b, Due(b) PROVE Due(b)'
    <2>0. PICK s \in Scheduled : \E k \in DOMAIN req_to_blocks[s] : req_to_blocks[s][k] = b /\ Fills(s, k)
      BY <1>j DEF Due
    <2>1. PICK k \in DOMAIN req_to_blocks[s] : req_to_blocks[s][k] = b /\ Fills(s, k)
      BY <2>0
    <2>2. s \in Requests \ {r} /\ s \in Scheduled'
      BY <1>a, <1>c, RunningRequest
    <2>3. req_to_blocks'[s] = req_to_blocks[s] /\ Fills(s, k)'
      BY <2>1, <2>2, <1>e, <1>g
    <2> QED  BY <2>1, <2>2, <2>3 DEF Due
  <1>k. ASSUME NEW i \in DOMAIN new, done < i * BlockSize, i * BlockSize <= done + n,
               NEW b, b = new[i]
        PROVE  Due(b)'
    <2>1. Fills(r, i)'
      BY <1>h, <1>k DEF Fills
    <2>2. r \in Scheduled' /\ req_to_blocks'[r][i] = b /\ i \in DOMAIN req_to_blocks'[r]
      BY <1>c, <1>k
    <2> QED  BY <2>1, <2>2 DEF Due
  <1>l. ASSUME ~(hits = <<>> /\ done = num_computed_tokens[r] /\ r \in Range(running))
        PROVE  Len(table) = 0 /\ done = Len(hits) * BlockSize /\ from = Len(hits)
    <2>1. table = <<>> /\ done = Len(hits) * BlockSize /\ Len(table) = 0
      BY <1>l
    <2>2. NumCached(r) = 0
      BY <2>1, <1>a, <1>f DEF KVInv, CachedWithinTable
    <2> QED  BY <2>1, <2>2, <1>d, <1>f
  <1> HIDE DEF new, table
  <1>1. ASSUME NEW b \in Block, block_hash'[b] # NoHash
        PROVE  IsPrefix(block_hash'[b], kv[b]) \/ Due(b)'
    <2>1. CASE block_hash'[b] = block_hash[b]
      BY <2>1, <1>1, <1>a, <1>j DEF ComputedInv, HashesComputed
    <2>2. CASE block_hash'[b] # block_hash[b]
      <3>1. PICK i \in Nat : i > from /\ i <= NumCached(r)' /\ i * BlockSize <= done + n /\ new[i] = b
        BY <2>2, <1>1, <1>e
      <3>2. /\ NumCached(r)' <= Len(new) /\ NumCached(r)' \in Nat
            /\ NumCached(r)' * BlockSize <= NumTokens(r)
        <4>1. NumCached(r)' <= Len(new) /\ NumCached(r)' * BlockSize <= NumTokens(r)
          BY <1>f DEF KVInv, CachedWithinTable, new
        <4>2. NumCached(r)' \in Nat
          <5>1. num_cached_block'[r] \in Nat \cup {NoEntry}
            BY DEF KVInv, KVTypeOK
          <5> QED  BY <5>1, NumCachedValue DEF NumCached
        <4> QED  BY <4>1, <4>2
      <3>3. from \in Nat
        BY <1>d, <1>f
      <3>4. i \in DOMAIN new /\ i >= 1 /\ i \in Nat
        BY <3>1, <3>2, <3>3, <1>f
      <3>5. block_hash'[b] = BlockHash(r, i)
        BY <3>1, <3>4, <1>f DEF KVInv, TableHashes, new
      <3>6. /\ i * BlockSize \in Nat
            /\ i * BlockSize <= NumTokens(r)
        <4>1. i * BlockSize <= NumCached(r)' * BlockSize /\ i * BlockSize \in Nat
              /\ NumCached(r)' * BlockSize \in Nat
          BY <3>1, <3>2, MulMonotone
        <4> QED  BY <4>1, <3>2, <1>f
      <3>7. CASE done < i * BlockSize
        BY <3>1, <3>4, <3>7, <1>k
      <3>8. CASE ~(done < i * BlockSize)
        <4>1. i * BlockSize <= done
          BY <3>6, <3>8
        <4>2. hits = <<>> /\ done = num_computed_tokens[r] /\ r \in Range(running)
          <5> SUFFICES ASSUME ~(hits = <<>> /\ done = num_computed_tokens[r] /\ r \in Range(running))
                       PROVE  FALSE
            OBVIOUS
          <5>1. done = Len(hits) * BlockSize /\ from = Len(hits)
            BY <1>l
          <5>2. Len(hits) + 1 \in Nat /\ Len(hits) + 1 <= i
            BY <5>1, <3>1, <1>f
          <5>3. (Len(hits) + 1) * BlockSize <= i * BlockSize
            BY <5>2, MulMonotone
          <5>4. Len(hits) * BlockSize < (Len(hits) + 1) * BlockSize
            BY <1>f, BlockSizes
          <5>5. Len(hits) * BlockSize \in Nat /\ (Len(hits) + 1) * BlockSize \in Nat
            BY <5>2, <1>f, MulMonotone
          <5> QED  BY <5>1, <5>3, <5>4, <5>5, <4>1, <3>6
        <4>3. i \in DOMAIN table
          <5> SUFFICES ASSUME i > Len(table) PROVE FALSE
            BY <3>4, <1>f
          <5>1. Covered(r) /\ NumScheduledTokens(r) \in Nat
            BY <4>2, <1>a, NumbersTyped DEF Granted
          <5>2. done <= Len(table) * BlockSize
            <6>1. Len(table) * BlockSize \in Nat
              BY <1>f, MulMonotone
            <6> QED  BY <5>1, <6>1, <4>2 DEF Covered, table
          <5>3. Len(table) + 1 \in Nat /\ Len(table) + 1 <= i
            BY <3>4, <1>f
          <5>4. /\ (Len(table) + 1) * BlockSize <= i * BlockSize
                /\ (Len(table) + 1) * BlockSize \in Nat /\ Len(table) * BlockSize \in Nat
            BY <5>3, <1>f, <3>4, MulMonotone
          <5>5. Len(table) * BlockSize < (Len(table) + 1) * BlockSize
            BY <1>f, BlockSizes
          <5> QED  BY <5>2, <5>4, <5>5, <4>1, <3>6
        <4>4. table[i] = b
          BY <4>3, <3>1, <1>e, <1>f
        <4>5. IsPrefix(BlockHash(r, i), kv[b]) \/ Due(b)
          BY <4>1, <4>2, <4>3, <4>4, <3>6, CachedIsComputed DEF table
        <4> QED  BY <4>5, <3>5, <1>j
      <3> QED  BY <3>7, <3>8
    <2> QED  BY <2>1, <2>2
  <1>2. HashesComputed'
    BY <1>1 DEF HashesComputed, Block
  <1> DEFINE grows == hits = <<>> /\ done = num_computed_tokens[r] /\ r \in Range(running)
  <1>3. ASSUME NEW q \in Range(running'), NEW i \in DOMAIN req_to_blocks'[q],
               (i - 1) * BlockSize < num_computed_tokens'[q],
               NEW b, b = req_to_blocks'[q][i]
        PROVE  \/ IsPrefix(TrueTokens(q, Min({num_computed_tokens'[q], i * BlockSize})), kv[b])
               \/ i * BlockSize <= num_computed_tokens'[q] /\ Due(b)'
    <2>1. CASE q # r
      <3>1. q \in Range(running) /\ q \in Requests \ {r}
        BY <2>1, <1>a, RunningRequest
      <3>2. req_to_blocks'[q] = req_to_blocks[q] /\ num_computed_tokens'[q] = num_computed_tokens[q]
        BY <3>1, <1>e
      <3>3. TableComputed(q)
        BY <3>1, <1>a DEF ComputedInv
      <3> QED  BY <1>3, <1>j, <3>2, <3>3 DEF TableComputed
    <2>2. CASE q = r /\ grows
      <3>1. i \in Nat /\ i - 1 \in Nat /\ i \in 1 .. Len(new) /\ (i - 1) * BlockSize < done
        BY <1>3, <2>2, <1>f DEF new
      <3>2. Covered(r) /\ NumScheduledTokens(r) \in Nat /\ TableComputed(r)
        BY <2>2, <1>a, NumbersTyped DEF Granted, ComputedInv
      <3>3. Len(table) * BlockSize \in Nat /\ (i - 1) * BlockSize \in Nat
        BY <1>f, <3>1, MulMonotone
      <3>4. done <= Len(table) * BlockSize
        BY <3>2, <3>3, <2>2 DEF Covered, table
      <3>5. i - 1 < Len(table)
        <4>1. (i - 1) * BlockSize < Len(table) * BlockSize
          BY <3>1, <3>3, <3>4
        <4> QED  BY <4>1, <3>1, <1>f, BlocksBefore
      <3>6. i \in DOMAIN table /\ table[i] = b
        BY <3>1, <3>5, <1>e, <1>f, <1>3, <2>2 DEF new
      <3> QED  BY <3>1, <3>2, <3>6, <2>2, <1>j DEF TableComputed, table
    <2>3. CASE q = r /\ ~grows
      <3>1. Len(table) = 0 /\ done = Len(hits) * BlockSize
        BY <2>3, <1>l
      <3>2. i \in Nat /\ i - 1 \in Nat /\ i >= 1 /\ (i - 1) * BlockSize < done
        BY <1>3, <2>3, <1>f DEF new
      <3>3. i <= Len(hits) /\ i \in 1 .. Len(hits)
        BY <3>1, <3>2, <1>f, BlocksBefore
      <3>4. b = hits[i]
        BY <3>1, <3>3, <1>e, <1>f, <1>3, <2>3 DEF new
      <3>5. /\ b \in Block /\ block_hash[b] = BlockHash(r, i) /\ block_hash[b] # NoHash
            /\ Len(hits) * BlockSize <= NumTokens(r)
        BY <3>3, <3>4 DEF IsHit
      <3>6. IsPrefix(BlockHash(r, i), kv[b]) \/ Due(b)
        BY <3>5, <1>a DEF ComputedInv, HashesComputed
      <3>7. i * BlockSize <= done /\ i * BlockSize \in Nat /\ i * BlockSize <= NumTokens(r)
        <4>1. i * BlockSize <= Len(hits) * BlockSize /\ i * BlockSize \in Nat
          BY <3>2, <3>3, <1>f, MulMonotone
        <4> QED  BY <4>1, <3>1, <3>5, <1>f
      <3>8. BlockHash(r, i) = TrueTokens(r, i * BlockSize)
        BY <3>2, <3>7, <1>a, HashIsTokens
      <3>9. Min({done, i * BlockSize}) = i * BlockSize
        BY <3>7, MinOfTwo
      <3> QED  BY <3>6, <3>7, <3>8, <3>9, <2>3, <1>j
    <2> QED  BY <2>1, <2>2, <2>3
  <1>4. \A q \in Range(running') : TableComputed(q)'
    <2> SUFFICES ASSUME NEW q \in Range(running') PROVE TableComputed(q)'
      OBVIOUS
    <2> QED  BY <1>3, <1>i DEF TableComputed
  <1>5. CachedInTime'
    <2> SUFFICES ASSUME NEW q \in Requests PROVE NumCached(q)' * BlockSize <= Reached(q)'
      BY DEF CachedInTime
    <2>1. CASE q # r
      BY <2>1, <1>a, <1>g DEF ComputedInv, CachedInTime
    <2>2. from * BlockSize <= done + n
      <3>1. CASE grows
        <4>1. Reached(r) = done
          BY <3>1, <1>f DEF Reached, NumScheduledTokens
        <4>2. NumCached(r) * BlockSize <= done
          BY <4>1, <1>a DEF ComputedInv, CachedInTime
        <4>3. NumCached(r) * BlockSize \in Nat
          BY <1>f, MulMonotone
        <4> QED  BY <3>1, <4>2, <4>3, <1>d
      <3>2. CASE ~grows
        <4>1. from * BlockSize = done
          BY <3>2, <1>l
        <4> QED  BY <4>1
      <3> QED  BY <3>1, <3>2
    <2> QED  BY <2>1, <2>2, <1>e, <1>h
  <1>6. ASSUME NEW s \in Requests \ {r}, NEW i \in DOMAIN new, NEW j \in DOMAIN req_to_blocks[s],
               new[i] = req_to_blocks[s][j]
        PROVE  i * BlockSize <= done \/ j * BlockSize <= num_computed_tokens[s]
    <2>1. i \in Nat /\ i >= 1 /\ new[i] \in Range(req_to_blocks[s])
      BY <1>6, <1>f DEF Range
    <2>2. i <= Len(table) + Len(hits)
      BY <2>1, <1>6, <1>e, <1>f
    <2>3. CASE grows
      <3>1. i \in DOMAIN table /\ table[i] = new[i]
        BY <2>1, <2>2, <2>3, <1>e, <1>f
      <3> QED  BY <3>1, <2>3, <1>6, <1>a DEF ComputedInv, OneWriter, table
    <2>4. CASE ~grows
      <3>1. Len(table) = 0 /\ done = Len(hits) * BlockSize
        BY <2>4, <1>l
      <3>2. i <= Len(hits)
        BY <3>1, <2>1, <2>2, <1>f
      <3>3. i * BlockSize <= Len(hits) * BlockSize
        BY <3>2, <2>1, <1>f, MulMonotone
      <3> QED  BY <3>1, <3>3
    <2> QED  BY <2>3, <2>4
  <1>7. OneWriter'
    <2> SUFFICES ASSUME NEW q \in Requests, NEW s \in Requests, q # s,
                        NEW i \in DOMAIN req_to_blocks'[q], NEW j \in DOMAIN req_to_blocks'[s],
                        req_to_blocks'[q][i] = req_to_blocks'[s][j]
                 PROVE  \/ i * BlockSize <= num_computed_tokens'[q]
                        \/ j * BlockSize <= num_computed_tokens'[s]
      BY DEF OneWriter
    <2>1. CASE q # r /\ s # r
      BY <2>1, <1>a, <1>e DEF ComputedInv, OneWriter
    <2>2. CASE q = r
      BY <2>2, <1>e, <1>6 DEF new
    <2>3. CASE s = r
      BY <2>3, <1>e, <1>6 DEF new
    <2> QED  BY <2>1, <2>2, <2>3
  <1>8. StepBeforeCur'
    BY DEF StepBeforeCur
  <1> QED  BY <1>2, <1>4, <1>5, <1>7, <1>8 DEF ComputedInv

(* A running request gets its slots. *)
LEMMA ScheduleRunningComputed ==
    ASSUME BeforeComputed, ScheduleRunning
    PROVE  ComputedInv'
  <1> DEFINE r == cur[1]
             n == cur[2]
             done == num_computed_tokens[r]
             e == [req |-> r, n |-> n, kind |-> "running",
                   blocks |-> SubSeq(req_to_blocks'[r], Len(req_to_blocks[r]) + 1,
                                     Len(req_to_blocks'[r]))]
  <1>0. /\ UNCHANGED <<num_prompt_tokens, num_computed_tokens, all_token_ids, running, kv>>
        /\ pc = "alloc" /\ pc' = "running"
        /\ AllocateSlots(r, <<>>, done + n)
        /\ sched' = Append(sched, e)
    BY DEF ScheduleRunning, reqvars, queuevars, workervars
  <1>a. /\ running \in Seq(Requests) /\ QueuesExact /\ KVInv /\ Granted /\ Before
        /\ r \in Range(running) \ Scheduled /\ cur \in Requests \X Int
    BY <1>0 DEF BeforeComputed, BeforeOutput, Before, ControlInv, ControlTypes, NumberTypes,
                StepInOrder, NumbersInv
  <1>b. r \in Requests \ Scheduled /\ n \in Nat
    BY <1>0, <1>a DEF Granted
  <1>c. e \in Entry({e.blocks}) /\ e.req = r /\ e.n = n
    <2> HIDE DEF r, n
    <2> QED  BY <1>b DEF Entry
  <1>d. status[r] # "none" /\ all_token_ids[r] # <<>>
    <2> HIDE DEF r, n, done, e
    <2>1. status[r] # "none"
      BY <1>a DEF QueuesExact
    <2> QED  BY <2>1, <1>a, <1>b, AddedHasTokens
  <1>e. IsHit(r, <<>>)
    BY <1>a, <1>b, <1>d, HitFacts
  <1>f. done \in Nat
    BY <1>a, <1>b, NumbersTyped
  <1>g. KVInv'
    <2>1. Next
      BY DEF Next, EngineStep
    <2> QED  BY <2>1, <1>a, UseStep DEF Before
  <1> HIDE DEF r, n, e
  <1>1. /\ Range(running') = Range(running) \cup {r} /\ done = num_computed_tokens'[r]
        /\ done = num_computed_tokens[r] /\ pc' # "alloc"
        /\ \A q \in Requests \ {r} : num_computed_tokens'[q] = num_computed_tokens[q]
        /\ r \in Range(running)
    BY <1>0, <1>a
  <1> HIDE DEF done
  <1> QED  BY <1>0, <1>1, <1>b, <1>c, <1>d, <1>e, <1>f, <1>g, GrantComputed

(* A waiting request starts with its prefix hit. *)
LEMMA ScheduleWaitingComputed ==
    ASSUME BeforeComputed, ScheduleWaiting
    PROVE  ComputedInv'
  <1> DEFINE r == Head(waiting)
  <1>1. PICK hits \in GetComputedBlocks(r) :
            LET n == NumNewWaiting(r, hits)
            IN  /\ AllocateSlots(r, hits, Len(hits) * BlockSize + n)
                /\ running' = Append(running, r)
                /\ sched' = Append(sched, [req |-> r, n |-> n,
                       kind |-> IF status[r] = "WAITING" THEN "new" ELSE "resumed",
                       blocks |-> req_to_blocks'[r]])
                /\ num_computed_tokens' = [num_computed_tokens EXCEPT ![r] = Len(hits) * BlockSize]
    BY DEF ScheduleWaiting
  <1> DEFINE n == NumNewWaiting(r, hits)
             done == Len(hits) * BlockSize
             e == [req |-> r, n |-> n, kind |-> IF status[r] = "WAITING" THEN "new" ELSE "resumed",
                   blocks |-> req_to_blocks'[r]]
  <1>2. /\ AllocateSlots(r, hits, done + n)
        /\ running' = Append(running, r) /\ sched' = Append(sched, e)
        /\ num_computed_tokens' = [num_computed_tokens EXCEPT ![r] = done]
    BY <1>1
  <1>0. /\ UNCHANGED <<num_prompt_tokens, all_token_ids, pc, kv>>
        /\ pc = "waiting" /\ waiting # <<>> /\ token_budget > 0
    BY DEF ScheduleWaiting, MoreWaiting, workervars
  <1>a. /\ running \in Seq(Requests) /\ IsInjective(running)
        /\ waiting \in Seq(Requests) /\ IsInjective(waiting)
        /\ QueuesExact /\ KVInv /\ Before /\ NumberTypes /\ token_budget \in Int
        /\ Scheduled \subseteq Range(running) /\ DOMAIN num_computed_tokens = Requests
    BY DEF BeforeComputed, BeforeOutput, Before, ControlInv, ControlTypes, NumberTypes,
           StepInOrder, QueuesExact
  <1>b. r \in Range(waiting)
    BY <1>0, <1>a, TailFacts
  <1>c. r \in Requests \ Scheduled /\ status[r] # "none" /\ r \notin Range(running)
    BY <1>a, <1>b DEF QueuesExact, Range
  <1>d. all_token_ids[r] # <<>> /\ req_to_blocks[r] = <<>> /\ NumTokens(r) \in Nat
    <2> HIDE DEF r
    <2> QED  BY <1>a, <1>c, AddedHasTokens, NumbersTyped DEF QueuesExact
  <1>e. done \in Nat /\ done < NumTokens(r)
    BY <1>a, <1>c, <1>d, NumHitsType, HitsLeaveToken
  <1>f. n \in Nat
    <2>1. LET left == NumTokens(r) - Len(hits) * BlockSize
          IN  /\ left \in Int /\ n \in Int
              /\ n <= left /\ n <= token_budget
              /\ left > 0 /\ token_budget > 0 => n > 0
      BY <1>a, <1>c, NumNewWaitingFacts
    <2> HIDE DEF n, r
    <2> QED  BY <2>1, <1>0, <1>a, <1>d, <1>e
  <1>g. IsHit(r, hits)
    <2>1. hits \in IF req_to_blocks[r] = <<>> THEN GetComputedBlocks(r) \cup {<<>>} ELSE {<<>>}
      BY <1>d
    <2> QED  BY <2>1, <1>a, <1>c, <1>d, HitFacts
  <1>h. e \in Entry({e.blocks}) /\ e.req = r /\ e.n = n
    <2> HIDE DEF r, n
    <2> QED  BY <1>c, <1>f DEF Entry
  <1>i. Range(running') = Range(running) \cup {r}
    BY <1>2, <1>a, <1>c, AppendFacts
  <1>j. KVInv'
    <2>1. Next
      BY DEF Next, EngineStep
    <2> QED  BY <2>1, <1>a, UseStep DEF Before
  <1>k. req_to_blocks[r] = <<>> /\ done = Len(hits) * BlockSize
    BY <1>d
  <1> HIDE DEF r, n, e, done
  <1>3. /\ done = num_computed_tokens'[r] /\ pc' # "alloc"
        /\ \A q \in Requests \ {r} : num_computed_tokens'[q] = num_computed_tokens[q]
    BY <1>0, <1>2, <1>a, <1>c
  <1> QED  BY <1>3, <1>0, <1>2, <1>c, <1>e, <1>f, <1>g, <1>h, <1>i, <1>j, <1>k, GrantComputed

(* A batch writes into block k of the table of s. *)
Writes(s, k) ==
    /\ s \in Scheduled /\ k \in DOMAIN req_to_blocks[s]
    /\ (k - 1) * BlockSize < Reached(s) /\ num_computed_tokens[s] < k * BlockSize

(* The workers write by the scheduler's tables. *)
LEMMA WritesOfEntry ==
    ASSUME Before, WorkersInv, NEW j \in DOMAIN sched, NEW b, NEW k
    PROVE  /\ sched[j].req \in Scheduled /\ sched[j].req \in Range(running)
           /\ num_computed_tokens[sched[j].req] + sched[j].n = Reached(sched[j].req)
           /\ WorkerTable(sched[j]) = req_to_blocks[sched[j].req]
           /\ k \in WritesBlock(sched[j], b) <=>
                 Writes(sched[j].req, k) /\ req_to_blocks[sched[j].req][k] = b
  <1> DEFINE s == sched[j].req
  <1>1. s \in Range(running) /\ s \in Scheduled
    BY EntryFacts DEF Scheduled
  <1>2. EntryOf(sched, s) = sched[j] /\ s \in ReqsOf(sched)
    BY EntryOfFacts DEF Once, Before, ControlInv, StepInOrder
  <1>3. NumScheduledTokens(s) = sched[j].n
    BY <1>2, StepTerms DEF TokensIn
  <1>4. WorkerTable(sched[j]) = req_to_blocks[s]
    <2>1. WorkerView(s) = WorkerTable(sched[j])
      BY <1>2 DEF WorkerView
    <2> QED  BY <2>1, <1>1 DEF WorkersInv
  <1> QED  BY <1>1, <1>3, <1>4 DEF WritesBlock, Writes, Reached

(* Nobody else writes into a block, and what it holds before is the KV of  *)
(* the same request: it ends up with what is computed of the request.      *)
LEMMA WrittenByOne ==
    ASSUME BeforeComputed, ExecuteModel, NEW s \in Requests, NEW k, Writes(s, k)
    PROVE  kv'[req_to_blocks[s][k]] = TrueTokens(s, Min({Reached(s), k * BlockSize}))
  <1> DEFINE b == req_to_blocks[s][k]
             j == ScheduledAt(s)
             writers(c) == {i \in DOMAIN sched : WritesBlock(sched[i], c) # {}}
  <1>a. /\ Before /\ WorkersInv /\ ComputedInv /\ KVInv /\ running \in Seq(Requests)
        /\ \A x, y \in DOMAIN sched : sched[x].req = sched[y].req => x = y
    BY DEF BeforeComputed, BeforeOutput, Before, ControlInv, ControlTypes, StepInOrder
  <1>b. PICK B : sched \in Seq(Entry(B))
    BY <1>a DEF Before, ControlInv, ControlTypes
  <1>c. j \in DOMAIN sched /\ sched[j].req = s
    <2>1. s \in Scheduled
      BY DEF Writes
    <2> QED  BY <2>1, <1>b, ScheduledFacts
  <1>d. /\ s \in Range(running) /\ num_computed_tokens[s] + sched[j].n = Reached(s)
        /\ \A c, m : m \in WritesBlock(sched[j], c) <=> Writes(s, m) /\ req_to_blocks[s][m] = c
    BY <1>a, <1>c, WritesOfEntry
  <1>e. /\ req_to_blocks[s] \in Seq(Block) /\ IsInjective(req_to_blocks[s])
        /\ num_computed_tokens[s] \in Nat /\ NumScheduledTokens(s) \in Nat
        /\ k \in DOMAIN req_to_blocks[s] /\ b \in Block
    BY <1>a, NumbersTyped DEF Writes, KVInv, TablesWellFormed
  <1>f. k \in Nat /\ k - 1 \in Nat /\ k * BlockSize \in Nat /\ (k - 1) * BlockSize \in Nat
    <2>1. k \in Nat /\ k - 1 \in Nat
      BY <1>e
    <2> QED  BY <2>1, MulMonotone
  <1>1. writers(b) = {j}
    <2>1. j \in writers(b)
      BY <1>c, <1>d
    <2>2. ASSUME NEW i \in writers(b) PROVE i = j
      <3>1. i \in DOMAIN sched /\ WritesBlock(sched[i], b) # {}
        OBVIOUS
      <3>2. PICK m : m \in WritesBlock(sched[i], b)
        BY <3>1
      <3> HIDE DEF j, writers
      <3>3. PICK t : t = sched[i].req
        OBVIOUS
      <3>4. t \in Range(running) /\ Writes(t, m) /\ req_to_blocks[t][m] = b
        BY <3>1, <3>2, <3>3, <1>a, WritesOfEntry
      <3>5. t \in Requests
        BY <3>4, <1>a, RunningRequest
      <3>6. req_to_blocks[t] \in Seq(Block) /\ num_computed_tokens[t] \in Nat
        BY <3>5, <1>a, NumbersTyped
      <3>7. m \in Nat /\ m * BlockSize \in Nat
        <4>1. m \in Nat
          BY <3>4, <3>6 DEF Writes
        <4> QED  BY <4>1, MulMonotone
      <3>8. t = s
        <4> SUFFICES ASSUME t # s PROVE FALSE
          OBVIOUS
        <4>1. \/ m * BlockSize <= num_computed_tokens[t]
              \/ k * BlockSize <= num_computed_tokens[s]
          BY <3>4, <3>5, <1>a, <1>e DEF ComputedInv, OneWriter, Writes
        <4> QED  BY <4>1, <3>4, <3>6, <3>7, <1>e, <1>f DEF Writes
      <3> QED  BY <3>1, <3>3, <3>8, <1>a, <1>c
    <2> QED  BY <2>1, <2>2
  <1>2. Max(writers(b)) = j
    <2>1. Len(sched) \in Nat /\ writers(b) \in SUBSET (1 .. Len(sched))
      BY <1>b
    <2>2. Max(writers(b)) \in writers(b)
      <3> HIDE DEF writers
      <3> QED  BY <1>1, <2>1, MaxOfPositions
    <2> HIDE DEF writers
    <2> QED  BY <2>2, <1>1
  <1>3. kv'[b] = Written(sched[j], b)
    <2>1. kv' = [c \in Block |->
              IF writers(c) = {} THEN kv[c] ELSE Written(sched[Max(writers(c))], c)]
      BY DEF ExecuteModel
    <2> HIDE DEF writers, b, j
    <2> QED  BY <2>1, <1>1, <1>2, <1>e
  <1> HIDE DEF b, j, writers
  <1>4. (CHOOSE m \in WritesBlock(sched[j], b) : TRUE) = k
    <2>1. k \in WritesBlock(sched[j], b)
      BY <1>d DEF b
    <2>2. ASSUME NEW m \in WritesBlock(sched[j], b) PROVE m = k
      <3>1. m \in DOMAIN req_to_blocks[s] /\ req_to_blocks[s][m] = b
        BY <1>d DEF Writes
      <3> QED  BY <3>1, <1>e DEF IsInjective, b
    <2> QED  BY <2>1, <2>2
  <1>5. num_computed_tokens[s] > (k - 1) * BlockSize =>
           IsPrefix(TrueTokens(s, num_computed_tokens[s]), kv[b])
    <2> SUFFICES ASSUME num_computed_tokens[s] > (k - 1) * BlockSize
                 PROVE  IsPrefix(TrueTokens(s, num_computed_tokens[s]), kv[b])
      OBVIOUS
    <2>1. TableComputed(s) /\ num_computed_tokens[s] < k * BlockSize
      BY <1>a, <1>d DEF ComputedInv, Writes
    <2>2. Min({num_computed_tokens[s], k * BlockSize}) = num_computed_tokens[s]
      <3>1. num_computed_tokens[s] \in Int /\ k * BlockSize \in Int
        BY <1>e, <1>f
      <3>2. Min({num_computed_tokens[s], k * BlockSize}) =
               IF num_computed_tokens[s] <= k * BlockSize THEN num_computed_tokens[s] ELSE k * BlockSize
        BY <3>1, MinOfTwo
      <3> QED  BY <3>1, <3>2, <2>1
    <2>3. ~(k * BlockSize <= num_computed_tokens[s])
      BY <2>1, <1>e, <1>f
    <2> QED  BY <2>1, <2>2, <2>3, <1>e, <1>f DEF TableComputed, b
  <1>6. Written(sched[j], b) = TrueTokens(s, Min({Reached(s), k * BlockSize}))
    BY <1>4, <1>5, <1>c, <1>d DEF Written
  <1> QED  BY <1>3, <1>6 DEF b

(* What nobody writes into keeps its KV, and gets none with this step. *)
LEMMA NotWritten ==
    ASSUME BeforeComputed, ExecuteModel, NEW b \in Block,
           \A s \in Requests : \A k : ~(Writes(s, k) /\ req_to_blocks[s][k] = b)
    PROVE  kv'[b] = kv[b] /\ ~Due(b)
  <1>a. /\ Before /\ WorkersInv /\ running \in Seq(Requests) /\ Scheduled \subseteq Range(running)
    BY DEF BeforeComputed, BeforeOutput, Before, ControlInv, ControlTypes, StepInOrder
  <1>1. ASSUME NEW i \in DOMAIN sched PROVE WritesBlock(sched[i], b) = {}
    <2> SUFFICES ASSUME NEW m \in WritesBlock(sched[i], b) PROVE FALSE
      OBVIOUS
    <2>1. PICK t : t = sched[i].req
      OBVIOUS
    <2>2. t \in Range(running) /\ Writes(t, m) /\ req_to_blocks[t][m] = b
      BY <2>1, <1>a, WritesOfEntry
    <2> QED  BY <2>2, <1>a, RunningRequest
  <1>2. kv'[b] = kv[b]
    BY <1>1 DEF ExecuteModel
  <1>3. ~Due(b)
    <2> SUFFICES ASSUME Due(b) PROVE FALSE
      OBVIOUS
    <2>1. PICK s \in Scheduled : \E k \in DOMAIN req_to_blocks[s] : req_to_blocks[s][k] = b /\ Fills(s, k)
      BY DEF Due
    <2>2. PICK k \in DOMAIN req_to_blocks[s] : req_to_blocks[s][k] = b /\ Fills(s, k)
      BY <2>1
    <2>3. s \in Requests
      BY <1>a, RunningRequest
    <2>4. /\ req_to_blocks[s] \in Seq(Block) /\ num_computed_tokens[s] \in Nat
          /\ NumScheduledTokens(s) \in Nat
      BY <2>3, <1>a, NumbersTyped
    <2>5. k \in Nat /\ k - 1 \in Nat /\ k - 1 < k
      BY <2>4
    <2>6. (k - 1) * BlockSize < k * BlockSize /\ (k - 1) * BlockSize \in Nat /\ k * BlockSize \in Nat
      BY <2>5, BlocksBefore
    <2>7. Reached(s) \in Nat
      BY <2>4 DEF Reached
    <2>8. Writes(s, k)
      BY <2>2, <2>6, <2>7 DEF Writes, Fills
    <2> QED  BY <2>2, <2>3, <2>8
  <1> QED  BY <1>2, <1>3

(* The batch leaves: what was to be computed with this step is.            *)
LEMMA DispatchComputed ==
    ASSUME BeforeComputed, Dispatch
    PROVE  ComputedInv'
  <1>0. /\ ExecuteModel /\ sched' = <<>> /\ pc' # "alloc"
        /\ num_computed_tokens' = [r \in Requests |-> num_computed_tokens[r] + NumScheduledTokens(r)]
        /\ UNCHANGED <<block_hash, req_to_blocks, num_cached_block, all_token_ids,
                       num_prompt_tokens, running>>
    BY DEF Dispatch, kvvars, poolvars, tablevars
  <1>a. /\ Before /\ BeforeOutput /\ KVInv /\ ComputedInv /\ Granted /\ QueuesExact
        /\ running \in Seq(Requests) /\ Scheduled \subseteq Range(running)
    BY DEF BeforeComputed, BeforeOutput, Before, ControlInv, ControlTypes, StepInOrder, NumbersInv
  <1>1. Scheduled' = {} /\ \A q : NumScheduledTokens(q)' = 0
    <2>1. ReqsOf(sched') = {}
      BY <1>0 DEF ReqsOf
    <2> QED  BY <2>1, StepTerms, StepTermsNext DEF TokensIn
  <1>2. \A q \in Requests : num_computed_tokens'[q] = Reached(q) /\ Reached(q) \in Nat
    BY <1>0, <1>a, NumbersTyped DEF Reached
  <1>3. \A q \in Requests : Reached(q)' = Reached(q) /\ NumCached(q)' = NumCached(q)
    BY <1>0, <1>1, <1>2 DEF Reached, NumCached
  <1>4. \A q, m : TrueTokens(q, m)' = TrueTokens(q, m)
    BY <1>0 DEF TrueTokens
  <1>5. ASSUME NEW r \in Requests, NEW i \in DOMAIN req_to_blocks[r]
        PROVE  /\ i \in Nat /\ i >= 1 /\ i - 1 \in Nat /\ i * BlockSize \in Nat /\ i * BlockSize > 0
               /\ (i - 1) * BlockSize \in Nat /\ (i - 1) * BlockSize < i * BlockSize
               /\ num_computed_tokens[r] \in Nat /\ num_computed_tokens[r] <= Reached(r)
               /\ req_to_blocks[r][i] \in Block
               /\ block_hash[req_to_blocks[r][i]] =
                     IF i <= NumCached(r) THEN BlockHash(r, i) ELSE NoHash
    <2>1. /\ req_to_blocks[r] \in Seq(Block) /\ num_computed_tokens[r] \in Nat
          /\ NumScheduledTokens(r) \in Nat
      BY <1>a, NumbersTyped
    <2>2. i \in Nat /\ i >= 1 /\ i - 1 \in Nat /\ i - 1 < i /\ i \in 1 .. Len(req_to_blocks[r])
      BY <2>1
    <2>3. /\ i * BlockSize \in Nat /\ (i - 1) * BlockSize \in Nat /\ (i - 1) * BlockSize < i * BlockSize
      BY <2>2, BlocksBefore
    <2>4. block_hash[req_to_blocks[r][i]] = IF i <= NumCached(r) THEN BlockHash(r, i) ELSE NoHash
      BY <2>2, <1>a DEF KVInv, TableHashes
    <2> QED  BY <2>1, <2>2, <2>3, <2>4 DEF Reached
  <1>6. ASSUME NEW r \in Requests, status[r] # "none", NEW i \in DOMAIN req_to_blocks[r], i <= NumCached(r)
        PROVE  /\ BlockHash(r, i) = TrueTokens(r, i * BlockSize)
               /\ i * BlockSize <= Reached(r) /\ BlockHash(r, i) # NoHash
    <2>1. /\ NumCached(r) * BlockSize <= NumTokens(r) /\ NumTokens(r) \in Nat /\ NumCached(r) \in Nat
          /\ NumCached(r) * BlockSize <= Reached(r)
      BY <1>a, NumbersTyped, NumCachedType DEF KVInv, CachedWithinTable, ComputedInv, CachedInTime
    <2>2. i \in Nat /\ i * BlockSize \in Nat /\ i * BlockSize > 0
      BY <1>5
    <2>3. i * BlockSize <= NumCached(r) * BlockSize /\ NumCached(r) * BlockSize \in Nat
      BY <1>6, <2>1, <2>2, MulMonotone
    <2>4. i * BlockSize <= NumTokens(r) /\ i * BlockSize <= Reached(r)
      BY <1>2, <2>1, <2>2, <2>3
    <2>5. BlockHash(r, i) = TrueTokens(r, i * BlockSize) /\ Len(BlockHash(r, i)) = i * BlockSize
      BY <1>a, <1>6, <2>2, <2>4, HashIsTokens
    <2> QED  BY <2>2, <2>4, <2>5 DEF NoHash
  <1>7. ASSUME NEW s \in Requests, NEW k, Writes(s, k)
        PROVE  k \in DOMAIN req_to_blocks[s] /\ s \in Range(running) /\ status[s] # "none"
    BY <1>7, <1>a DEF Writes, QueuesExact
  <1>8. ASSUME NEW b \in Block, block_hash[b] # NoHash
        PROVE  IsPrefix(block_hash[b], kv'[b])
    <2>1. CASE \A s \in Requests : \A k : ~(Writes(s, k) /\ req_to_blocks[s][k] = b)
      BY <2>1, <1>0, <1>8, <1>a, NotWritten DEF ComputedInv, HashesComputed
    <2>2. ASSUME NEW s \in Requests, NEW k, Writes(s, k), req_to_blocks[s][k] = b
          PROVE  IsPrefix(block_hash[b], kv'[b])
      <3>1. k \in DOMAIN req_to_blocks[s] /\ status[s] # "none"
        BY <2>2, <1>7
      <3>2. k <= NumCached(s) /\ block_hash[b] = BlockHash(s, k)
        BY <3>1, <2>2, <1>5, <1>8
      <3>3. /\ BlockHash(s, k) = TrueTokens(s, k * BlockSize) /\ k * BlockSize <= Reached(s)
            /\ k * BlockSize \in Nat /\ Reached(s) \in Nat
        BY <3>1, <3>2, <1>2, <1>5, <1>6
      <3>4. Min({Reached(s), k * BlockSize}) = k * BlockSize
        BY <3>3, MinOfTwo
      <3>5. kv'[b] = TrueTokens(s, k * BlockSize)
        BY <3>4, <2>2, <1>0, WrittenByOne
      <3>6. block_hash[b] \in Seq(Token)
        BY <1>a DEF KVInv, KVTypeOK
      <3> QED  BY <3>2, <3>3, <3>5, <3>6, PrefixOfItself
    <2> QED  BY <2>1, <2>2
  <1>9. HashesComputed'
    BY <1>0, <1>8 DEF HashesComputed, Block
  <1>10. ASSUME NEW r \in Range(running), NEW i \in DOMAIN req_to_blocks[r],
                (i - 1) * BlockSize < Reached(r)
         PROVE  IsPrefix(TrueTokens(r, Min({Reached(r), i * BlockSize})), kv'[req_to_blocks[r][i]])
    <2> DEFINE n == num_computed_tokens[r]
               b == req_to_blocks[r][i]
    <2>a. r \in Requests /\ status[r] # "none" /\ Covered(r) /\ TableComputed(r)
      BY <1>a DEF QueuesExact, Granted, ComputedInv
    <2>b. /\ i \in Nat /\ i * BlockSize \in Nat /\ (i - 1) * BlockSize \in Nat
          /\ (i - 1) * BlockSize < i * BlockSize
          /\ n \in Nat /\ n <= Reached(r) /\ Reached(r) \in Nat /\ b \in Block
      BY <2>a, <1>2, <1>5
    <2>c. Min({Reached(r), i * BlockSize}) =
             IF Reached(r) <= i * BlockSize THEN Reached(r) ELSE i * BlockSize
      BY <2>b, MinOfTwo
    <2>d. Min({n, i * BlockSize}) = IF n <= i * BlockSize THEN n ELSE i * BlockSize
      BY <2>b, MinOfTwo
    <2> HIDE DEF n, b
    <2>1. CASE Writes(r, i)
      <3>1. kv'[b] = TrueTokens(r, Min({Reached(r), i * BlockSize}))
        BY <2>1, <2>a, <1>0, WrittenByOne DEF b
      <3>2. Reached(r) <= MaxModelLen
        BY <2>a, <2>b, BlockSizes DEF Covered, Fits, Reached
      <3>3. Min({Reached(r), i * BlockSize}) \in Nat /\ Min({Reached(r), i * BlockSize}) <= MaxModelLen
        BY <2>b, <2>c, <3>2, BlockSizes
      <3>4. TrueTokens(r, Min({Reached(r), i * BlockSize})) \in Seq(Token)
        BY <3>3, <2>a, <1>a, TrueTokensTyped
      <3> QED  BY <3>1, <3>4, PrefixOfItself DEF b
    <2>2. CASE ~Writes(r, i)
      <3>1. r \notin Scheduled \/ i * BlockSize <= n
        BY <2>2, <1>10, <2>b DEF Writes, n
      <3>2. (i - 1) * BlockSize < n /\ Min({Reached(r), i * BlockSize}) = Min({n, i * BlockSize})
        <4>1. CASE r \notin Scheduled
          <5>1. Reached(r) = n
            BY <4>1, <2>a, <2>b, <1>a, NumbersTyped DEF Reached, n
          <5> QED  BY <5>1, <1>10
        <4>2. CASE i * BlockSize <= n
          BY <4>2, <2>b, <2>c, <2>d
        <4> QED  BY <3>1, <4>1, <4>2
      <3>3. CASE \A s \in Requests : \A k : ~(Writes(s, k) /\ req_to_blocks[s][k] = b)
        <4>1. kv'[b] = kv[b] /\ ~Due(b)
          BY <3>3, <2>b, <1>0, NotWritten
        <4> QED  BY <4>1, <3>2, <2>a DEF TableComputed, b, n
      <3>4. ASSUME NEW s \in Requests, NEW k, Writes(s, k), req_to_blocks[s][k] = b
            PROVE  IsPrefix(TrueTokens(r, Min({n, i * BlockSize})), kv'[b])
        <4>1. k \in DOMAIN req_to_blocks[s] /\ num_computed_tokens[s] < k * BlockSize
          BY <3>4 DEF Writes
        <4>2. s # r
          <5> SUFFICES ASSUME s = r PROVE FALSE
            OBVIOUS
          <5>1. k = i
            BY <4>1, <3>4, <2>a, <1>a DEF KVInv, TablesWellFormed, IsInjective, b
          <5> QED  BY <5>1, <3>4, <2>2
        <4>3. k * BlockSize \in Nat /\ num_computed_tokens[s] \in Nat /\ k \in Nat /\ k >= 1
          BY <4>1, <1>5
        <4>4. i * BlockSize <= n
          <5>1. i * BlockSize <= n \/ k * BlockSize <= num_computed_tokens[s]
            BY <4>1, <4>2, <3>4, <2>a, <1>a DEF ComputedInv, OneWriter, b, n
          <5> QED  BY <5>1, <4>1, <4>3
        <4>5. i <= NumCached(r)
          <5>1. b \in Range(req_to_blocks[s])
            BY <4>1, <3>4 DEF Range
          <5>2. /\ i \in 1 .. Len(req_to_blocks[r]) /\ NumCached(r) \in Nat
            <6>1. req_to_blocks[r] \in Seq(Block)
              BY <2>a, <1>a, NumbersTyped
            <6> QED  BY <6>1, <2>a, <1>a, NumCachedType
          <5>3. i \notin NumCached(r) + 1 .. Len(req_to_blocks[r])
            BY <5>1, <4>2, <2>a, <1>a DEF KVInv, UncachedPrivate, b
          <5> QED  BY <5>2, <5>3
        <4>6. BlockHash(r, i) = TrueTokens(r, i * BlockSize) /\ BlockHash(r, i) # NoHash
          BY <4>5, <2>a, <1>6
        <4>7. block_hash[b] = BlockHash(r, i)
          BY <4>5, <2>a, <1>5 DEF b
        <4>8. Min({n, i * BlockSize}) = i * BlockSize
          BY <4>4, <2>b, <2>d
        <4> QED  BY <4>6, <4>7, <4>8, <2>b, <1>8
      <3> QED  BY <3>2, <3>3, <3>4 DEF b
    <2> QED  BY <2>1, <2>2
  <1>11. ASSUME NEW r \in Range(running') PROVE TableComputed(r)'
    <2>1. r \in Range(running) /\ r \in Requests
      BY <1>0, <1>a, RunningRequest
    <2> QED  BY <2>1, <1>0, <1>2, <1>4, <1>10 DEF TableComputed
  <1>12. CachedInTime'
    BY <1>3, <1>a DEF ComputedInv, CachedInTime
  <1>13. OneWriter'
    <2> SUFFICES ASSUME NEW r \in Requests, NEW s \in Requests, r # s,
                        NEW i \in DOMAIN req_to_blocks[r], NEW j \in DOMAIN req_to_blocks[s],
                        req_to_blocks[r][i] = req_to_blocks[s][j]
                 PROVE  i * BlockSize <= Reached(r) \/ j * BlockSize <= Reached(s)
      BY <1>0, <1>2 DEF OneWriter
    <2>1. i * BlockSize <= num_computed_tokens[r] \/ j * BlockSize <= num_computed_tokens[s]
      BY <1>a DEF ComputedInv, OneWriter
    <2>2. /\ i * BlockSize \in Nat /\ num_computed_tokens[r] \in Nat /\ Reached(r) \in Nat
          /\ num_computed_tokens[r] <= Reached(r)
      BY <1>2, <1>5
    <2>3. /\ j * BlockSize \in Nat /\ num_computed_tokens[s] \in Nat /\ Reached(s) \in Nat
          /\ num_computed_tokens[s] <= Reached(s)
      BY <1>2, <1>5
    <2> QED  BY <2>1, <2>2, <2>3
  <1>14. StepBeforeCur'
    BY <1>0 DEF StepBeforeCur
  <1> QED  BY <1>9, <1>11, <1>12, <1>13, <1>14 DEF ComputedInv

(* Every step keeps what counts as computed computed.                      *)
LEMMA ComputedNext ==
    ASSUME BeforeComputed, Next
    PROVE  ComputedInv'
  <1>1. CASE QuietStep \/ PickRunning \/ CacheOutput
    BY <1>1, QuietComputed, PickRunningComputed, CacheOutputComputed
  <1>2. CASE AppendOutput \/ (\E r \in Requests : \E prompt \in Prompts : AddRequest(r, prompt))
    BY <1>2, TokensComputed
  <1>3. CASE (\E r \in Requests : AbortRequest(r) \/ SleepAborts(r)) \/ StopRequest \/ ResetPreempt
    BY <1>3, EndingComputed
  <1>4. CASE ScheduleRunning \/ ScheduleWaiting \/ PreemptVictim \/ Dispatch
    BY <1>4, ScheduleRunningComputed, ScheduleWaitingComputed, PreemptVictimComputed, DispatchComputed
  <1> QED  BY <1>1, <1>2, <1>3, <1>4 DEF Next, EngineStep, ClientStep, QuietStep

(* At the start nothing is computed, and nothing is to be. *)
LEMMA ComputedInit ==
    ASSUME Init
    PROVE  ComputedInv
  <1>1. /\ block_hash = [b \in Block |-> NoHash] /\ running = <<>> /\ pc = "idle" /\ sched = <<>>
        /\ num_computed_tokens = [r \in Requests |-> 0]
        /\ num_cached_block = [r \in Requests |-> NoEntry]
        /\ req_to_blocks = [r \in Requests |-> <<>>]
    BY DEF Init, KVInit
  <1>2. HashesComputed /\ OneWriter /\ StepBeforeCur
    BY <1>1 DEF HashesComputed, OneWriter, StepBeforeCur
  <1>3. CachedInTime
    <2> SUFFICES ASSUME NEW r \in Requests PROVE NumCached(r) * BlockSize <= Reached(r)
      BY DEF CachedInTime
    <2>1. NumCached(r) = 0
      BY <1>1, NumCachedValue DEF NumCached
    <2>2. NumScheduledTokens(r) = 0
      BY <1>1 DEF NumScheduledTokens, Scheduled
    <2> QED  BY <1>1, <2>1, <2>2, BlockSizes DEF Reached
  <1>4. Range(running) = {}
    BY <1>1 DEF Range
  <1> QED  BY <1>2, <1>3, <1>4 DEF ComputedInv

(* The invariants a step relies on. *)
ComputedUse == UsedInv /\ WorkersInv /\ OutputInv

(* The invariant of what is computed is kept by every step.                *)
LEMMA ComputedStep ==
    ASSUME Supported, InTurn, Policy = "fcfs"
    PROVE  ComputedUse /\ ComputedInv /\ [Next]_vars => ComputedInv'
  <1> SUFFICES ASSUME ComputedUse, ComputedInv, [Next]_vars PROVE ComputedInv'
    OBVIOUS
  <1>1. BeforeComputed
    BY DEF ComputedUse, UsedInv, BeforeComputed, BeforeOutput, Before
  <1>2. CASE Next
    BY <1>1, <1>2, ComputedNext
  <1>3. CASE UNCHANGED vars
    <2>1. UNCHANGED <<req_to_blocks, num_cached_block, num_computed_tokens, sched, block_hash, kv,
                      running, num_prompt_tokens, all_token_ids, pc, cur>>
      BY <1>3 DEF vars, kvvars, poolvars, tablevars, reqvars, queuevars, stepvars, workervars
    <2>2. \A r, n : TrueTokens(r, n)' = TrueTokens(r, n)
      BY <2>1 DEF TrueTokens
    <2>3. StepBeforeCur'
      BY <2>1 DEF ComputedInv, StepBeforeCur, Scheduled
    <2> QED  BY <1>1, <2>1, <2>2, <2>3, ComputedStays
  <1> QED  BY <1>2, <1>3

(* The inductive invariant of the KV the requests count on.                *)
THEOREM ComputedInvariant ==
    ASSUME Supported, InTurn, Policy = "fcfs"
    PROVE  Spec => [](ComputedUse /\ ComputedInv)
  <1>1. Init => ComputedInv
    BY ComputedInit
  <1>2. ComputedUse /\ ComputedInv /\ [Next]_vars => ComputedInv'
    BY ComputedStep
  <1>3. Spec => []ComputedUse
    <2>1. Spec => [](ControlInv /\ KVInv /\ NumbersInv /\ WorkersInv)
      BY WorkersInvariant
    <2>2. Spec => []OutputInv
      BY SamplesInTurn
    <2>3. ControlInv /\ KVInv /\ NumbersInv /\ WorkersInv /\ OutputInv => ComputedUse
      BY DEF ComputedUse, UsedInv
    <2> QED  BY <2>1, <2>2, <2>3, PTL
  <1> QED  BY <1>1, <1>2, <1>3, PTL DEF Spec

(* What the scheduler counts as computed has its KV in the blocks of the   *)
(* request's table: prefix hits on blocks that are only hashed yet, blocks *)
(* given out again, preemption and sampled tokens that arrive late never   *)
(* make a request attend to what nothing was computed into.                *)
THEOREM ComputedIsPresent ==
    ASSUME Supported, InTurn, Policy = "fcfs"
    PROVE  Spec => []ComputedKVPresent
  <1>1. ComputedUse /\ ComputedInv => ComputedKVPresent
    <2> SUFFICES ASSUME ComputedUse, ComputedInv, Settled, NEW r \in Range(running),
                        NEW i \in 1 .. Cdiv(num_computed_tokens[r], BlockSize)
                 PROVE  IsPrefix(TrueTokens(r, Min({num_computed_tokens[r], i * BlockSize})),
                                 kv[req_to_blocks[r][i]])
      BY DEF ComputedKVPresent
    <2> DEFINE n == num_computed_tokens[r]
    <2>1. /\ sched = <<>> /\ running \in Seq(Requests) /\ KVInv /\ TableComputed(r) /\ Covered(r)
      BY DEF ComputedUse, UsedInv, ControlInv, ControlTypes, StepInOrder, InSchedule, Settled,
             ComputedInv, NumbersInv, Granted
    <2>2. r \in Requests
      BY <2>1, RunningRequest
    <2>3. req_to_blocks[r] \in Seq(Block) /\ n \in Nat
      BY <2>1, <2>2 DEF KVInv, KVTypeOK, Covered
    <2>4. Scheduled = {} /\ NumScheduledTokens(r) = 0
      BY <2>1 DEF Scheduled, NumScheduledTokens
    <2>5. n <= Len(req_to_blocks[r]) * BlockSize
      BY <2>1, <2>3, <2>4 DEF Covered
    <2> HIDE DEF n
    <2>6. i \in Nat /\ i - 1 \in Nat /\ i >= 1 /\ (i - 1) * BlockSize < n
      BY <2>3, CdivReaches DEF n
    <2>7. i - 1 < Len(req_to_blocks[r])
      <3>1. Len(req_to_blocks[r]) \in Nat
        BY <2>3
      <3>2. Len(req_to_blocks[r]) * BlockSize \in Nat /\ (i - 1) * BlockSize \in Nat
        BY <3>1, <2>6, BlocksBefore
      <3>3. (i - 1) * BlockSize < Len(req_to_blocks[r]) * BlockSize
        BY <3>2, <2>3, <2>5, <2>6
      <3> QED  BY <3>1, <3>3, <2>6, BlocksBefore
    <2>8. i \in DOMAIN req_to_blocks[r]
      BY <2>3, <2>6, <2>7
    <2>9. ~Due(req_to_blocks[r][i])
      BY <2>4 DEF Due
    <2> QED  BY <2>1, <2>6, <2>8, <2>9 DEF TableComputed, n
  <1> QED  BY <1>1, ComputedInvariant, PTL
-----------------------------------------------------------------------------
(* What is behind EveryRequestEnds: a step with work and nothing in flight *)
(* schedules something.                                                    *)

(* A sequence without repetition has as many elements as places. *)
LEMMA RangeCounted ==
    ASSUME NEW S, NEW s \in Seq(S), IsInjective(s)
    PROVE  IsFiniteSet(Range(s)) /\ Cardinality(Range(s)) = Len(s)
  <1>1. Len(s) \in Nat /\ DOMAIN s = 1 .. Len(s)
    OBVIOUS
  <1>2. IsFiniteSet(1 .. Len(s)) /\ Cardinality(1 .. Len(s)) = Len(s)
    BY <1>1, FS_Interval
  <1>3. s \in Bijection(1 .. Len(s), Range(s))
    BY <1>1 DEF Bijection, Injection, Surjection, IsInjective, Range
  <1> QED  BY <1>2, <1>3, FS_Bijection DEF ExistsBijection

(* The blocks that are not free are those of the only request that has     *)
(* any.                                                                    *)
LEMMA PoolOfOne ==
    ASSUME KVInv, NEW r \in Requests, \A q \in Requests \ {r} : req_to_blocks[q] = <<>>
    PROVE  /\ Range(free_block_queue) = (Block \ {NullBlock}) \ Range(req_to_blocks[r])
           /\ Len(free_block_queue) \in Nat /\ Len(req_to_blocks[r]) \in Nat
           /\ Len(free_block_queue) + Len(req_to_blocks[r]) = NumGpuBlocks - 1
  <1> DEFINE free  == free_block_queue
             table == req_to_blocks[r]
             P     == Block \ {NullBlock}
  <1>1. /\ free \in Seq(Block) /\ Len(free) \in Nat /\ IsInjective(free)
        /\ table \in Seq(Block) /\ Len(table) \in Nat /\ IsInjective(table)
        /\ Range(table) \subseteq P
    BY DEF KVInv, KVTypeOK, FreeQueueExact, TablesWellFormed, Range
  <1>2. \A b \in Block : Holders(b) = IF b \in Range(table) THEN {r} ELSE {}
    <2> TAKE b \in Block
    <2>1. \A q \in Requests \ {r} : b \notin Range(req_to_blocks[q])
      BY DEF Range
    <2> QED  BY <2>1 DEF Holders
  <1>3. \A b \in Block : ref_cnt[b] = 0 <=> b \notin Range(table)
    <2> TAKE b \in Block
    <2>1. Cardinality({r}) = 1 /\ Cardinality({}) = 0
      BY FS_EmptySet, FS_Singleton
    <2>2. ref_cnt[b] = Cardinality(Holders(b))
      BY DEF KVInv, RefCountExact
    <2> HIDE DEF table
    <2>3. ref_cnt[b] = IF b \in Range(table) THEN 1 ELSE 0
      BY <1>2, <2>1, <2>2
    <2> QED  BY <2>3
  <1>4. Range(free) = P \ Range(table)
    BY <1>3 DEF KVInv, FreeQueueExact
  <1>5. /\ IsFiniteSet(P) /\ Cardinality(P) = NumGpuBlocks - 1
    <2>1. P = 1 .. NumGpuBlocks - 1 /\ NumGpuBlocks - 1 \in Nat
      BY BlockSizes DEF Block, NullBlock
    <2> HIDE DEF P
    <2>2. /\ IsFiniteSet(1 .. NumGpuBlocks - 1)
          /\ Cardinality(1 .. NumGpuBlocks - 1) = NumGpuBlocks - 1
      BY <2>1, FS_Interval
    <2> QED  BY <2>1, <2>2
  <1> HIDE DEF free, table, P
  <1>7. /\ IsFiniteSet(Range(table)) /\ Cardinality(Range(table)) = Len(table)
        /\ Cardinality(Range(free)) = Len(free)
    BY <1>1, RangeCounted
  <1>8. Cardinality(P \ Range(table)) = Cardinality(P) - Cardinality(P \cap Range(table))
    BY <1>5, FS_Difference
  <1>9. P \cap Range(table) = Range(table)
    BY <1>1 DEF P
  <1>10. Len(free) = NumGpuBlocks - 1 - Len(table)
    BY <1>4, <1>5, <1>7, <1>8, <1>9
  <1>11. Len(free) + Len(table) = NumGpuBlocks - 1
    BY <1>1, <1>10, BlockSizes
  <1> QED  BY <1>1, <1>4, <1>11 DEF free, table, P

(* The blocks for no more tokens than a pool has slots. *)
LEMMA CdivWithin ==
    ASSUME NEW n \in Nat, NEW k \in Nat, n <= k * BlockSize
    PROVE  Cdiv(n, BlockSize) \in Nat /\ Cdiv(n, BlockSize) <= k
  BY BlockSizes, SMT DEF Cdiv

(* A request alone gets its slots, whatever part of them is cached. *)
LEMMA AloneCanAllocate ==
    ASSUME KVInv, NEW r \in Requests, \A q \in Requests \ {r} : req_to_blocks[q] = <<>>,
           NEW hits, IsHit(r, hits), NEW total \in Nat, total <= MaxModelLen
    PROVE  CanAllocate(r, hits, total)
  <1> DEFINE free == free_block_queue
             need == Cdiv(total, BlockSize)
             nt   == Len(req_to_blocks[r])
             nh   == Len(hits)
             num  == NumNewBlocks(r, hits, total)
             U    == {b \in Range(hits) : ref_cnt[b] = 0 /\ b # NullBlock}
  <1>1. /\ Len(free) \in Nat /\ nt \in Nat /\ Len(free) + nt = NumGpuBlocks - 1
        /\ free \in Seq(Block) /\ IsInjective(free) /\ nh \in Nat
    BY PoolOfOne DEF KVInv, KVTypeOK, FreeQueueExact, IsHit
  <1>2. need \in Nat /\ need <= NumGpuBlocks - 1
    <2>1. NumGpuBlocks - 1 \in Nat /\ (NumGpuBlocks - 1) * BlockSize \in Nat /\ MaxModelLen \in Nat
      BY BlockSizes, MulMonotone
    <2>2. total <= (NumGpuBlocks - 1) * BlockSize
      BY <2>1, OneRequestFits
    <2> QED  BY <2>1, <2>2, CdivWithin
  <1>3. num = IF 0 >= need - nh - nt THEN 0 ELSE need - nh - nt
    <2>1. num = Max({0, need - nh - nt})
      BY DEF NumNewBlocks
    <2> HIDE DEF need, num, nt, nh
    <2>2. 0 \in Int /\ need - nh - nt \in Int
      BY <1>1, <1>2
    <2> QED  BY <2>1, <2>2, MaxOfTwo
  <1>4. IsFiniteSet(Range(free)) /\ Cardinality(Range(free)) = Len(free)
    BY <1>1, RangeCounted
  <1>5. IsFiniteSet(Range(hits)) /\ Cardinality(Range(hits)) = nh
    BY RangeCounted DEF IsHit
  <1>6. U \subseteq Range(free) /\ U \subseteq Range(hits)
    BY DEF KVInv, FreeQueueExact, IsHit, Range
  <1> HIDE DEF U, need, num, nt, nh, free
  <1>7. Cardinality(U) \in Nat /\ Cardinality(U) <= Len(free) /\ Cardinality(U) <= nh
    BY <1>4, <1>5, <1>6, FS_Subset, FS_CardinalityType
  <1>8. num + Cardinality(U) <= Len(free)
    BY <1>1, <1>2, <1>3, <1>7, BlockSizes
  <1> QED  BY <1>8 DEF CanAllocate, NumBlocksToAllocate, num, U, free

(* A sample of r is in flight or not yet appended. *)
SampleComing(r) ==
    Samples(Pending, r) \/ \E i \in DOMAIN batch_queue : Samples(batch_queue[i], r)

(* A running request has a token to compute, or waits for its sample. *)
LeftToCompute(r) ==
    status[r] = "RUNNING" =>
        \/ num_computed_tokens[r] < NumTokens(r) + num_output_placeholders[r]
        \/ ~AsyncScheduling /\ SampleComing(r)

(* Nothing happens to r but that its sample may come. *)
LEMMA LeftKept ==
    ASSUME NEW r \in Requests, LeftToCompute(r), status'[r] = "RUNNING" => status[r] = "RUNNING",
           num_computed_tokens'[r] = num_computed_tokens[r],
           num_output_placeholders'[r] = num_output_placeholders[r],
           all_token_ids'[r] = all_token_ids[r], SampleComing(r) => SampleComing(r)'
    PROVE  LeftToCompute(r)'
  BY DEF LeftToCompute, NumTokens

(* What is pending is the same. *)
LEMMA ComingKept ==
    ASSUME NEW r, UNCHANGED batch_queue, Pending' = Pending, SampleComing(r)
    PROVE  SampleComing(r)'
  BY DEF SampleComing, Samples

(* What is not at the head of a result is in the rest of it. *)
LEMMA SamplesInTail ==
    ASSUME NEW batch \in Seq(Output), batch # <<>>, NEW r, Samples(batch, r),
           r # Head(batch).req \/ Head(batch).pos = 0
    PROVE  Samples(Tail(batch), r)
  <1>1. PICK j \in DOMAIN batch : batch[j].req = r /\ batch[j].pos # 0
    BY DEF Samples
  <1>2. j \in 1 .. Len(batch) /\ Len(batch) \in Nat /\ Head(batch) = batch[1]
    OBVIOUS
  <1>3. j # 1
    BY <1>1, <1>2
  <1>4. j - 1 \in DOMAIN Tail(batch) /\ Tail(batch)[j - 1] = batch[j]
    BY <1>2, <1>3
  <1> QED  BY <1>1, <1>4 DEF Samples

(* A request that leaves the running ones has nothing to compute. *)
LEMMA LeavingLeft ==
    ASSUME Before, \A r \in Requests : LeftToCompute(r),
           \/ PreemptVictim \/ ResetPreempt \/ StopRequest
           \/ \E r \in Requests : AbortRequest(r) \/ SleepAborts(r)
    PROVE  \A r \in Requests : LeftToCompute(r)'
  <1>a. /\ running \in Seq(Requests) /\ IsInjective(running) /\ ControlInv
        /\ DOMAIN status = Requests /\ DOMAIN all_token_ids = Requests
        /\ DOMAIN num_computed_tokens = Requests /\ DOMAIN num_output_placeholders = Requests
    BY DEF Before, ControlInv, ControlTypes, NumberTypes, QueuesExact
  <1>1. \E v \in Requests :
           /\ status'[v] # "RUNNING" /\ UNCHANGED batch_queue /\ Pending' = Pending
           /\ \A q \in Requests \ {v} :
                 /\ status'[q] = status[q] /\ num_computed_tokens'[q] = num_computed_tokens[q]
                 /\ num_output_placeholders'[q] = num_output_placeholders[q]
                 /\ all_token_ids'[q] = all_token_ids[q]
    <2>1. CASE PreemptVictim
      <3> DEFINE v == Victim
      <3>1. /\ UNCHANGED <<batch_queue, outputs, num_output_placeholders>> /\ pc = "alloc"
            /\ PreemptRequest(v) /\ pc' \in {"waiting", "alloc"}
        BY <2>1 DEF PreemptVictim, flightvars
      <3>2. running # <<>>
        BY <3>1, <1>a DEF ControlInv, StepInOrder, Range
      <3>3. v \in Requests
        BY <3>2, <1>a, VictimRuns DEF Range
      <3> HIDE DEF v
      <3>4. /\ status' = [status EXCEPT ![v] = "PREEMPTED"] /\ UNCHANGED all_token_ids
            /\ num_computed_tokens' = [num_computed_tokens EXCEPT ![v] = 0]
        BY <3>1 DEF PreemptRequest, Preempt, FreeRequest
      <3>5. Pending' = Pending
        BY <3>1 DEF Pending
      <3> QED  BY <3>1, <3>3, <3>4, <3>5, <1>a
    <2>2. CASE ResetPreempt
      <3> DEFINE v == Last(running)
      <3>1. /\ UNCHANGED <<batch_queue, outputs, pc>> /\ running # <<>> /\ PreemptRequest(v)
            /\ num_output_placeholders' = [num_output_placeholders EXCEPT ![v] = 0]
        BY <2>2 DEF ResetPreempt, stepvars, flightvars
      <3>2. v \in Requests
        <4>1. v \in Range(running)
          BY <3>1, <1>a, FrontFacts
        <4> QED  BY <4>1, <1>a, RunningRequest
      <3> HIDE DEF v
      <3>3. /\ status' = [status EXCEPT ![v] = "PREEMPTED"] /\ UNCHANGED all_token_ids
            /\ num_computed_tokens' = [num_computed_tokens EXCEPT ![v] = 0]
        BY <3>1 DEF PreemptRequest, Preempt, FreeRequest
      <3>4. Pending' = Pending
        BY <3>1 DEF Pending
      <3> QED  BY <3>1, <3>2, <3>3, <3>4, <1>a
    <2>3. CASE StopRequest \/ \E r \in Requests : AbortRequest(r) \/ SleepAborts(r)
      <3>1. PICK v \in Requests : AbortRequest(v) \/ SleepAborts(v) \/ (StopRequest /\ v = Head(outputs).req)
        <4>1. CASE StopRequest
          <5>1. outputs \in Seq(Output) /\ outputs # <<>>
            BY <4>1, <1>a DEF StopRequest, ControlInv, ControlTypes, BatchesInFlight
          <5> QED  BY <4>1, <5>1, OutputAtHand
        <4> QED  BY <4>1, <2>3
      <3>2. FinishRequest(v) /\ UNCHANGED batch_queue /\ Pending' = Pending
        BY <3>1 DEF AbortRequest, SleepAborts, StopRequest, NextOutput, Pending, flightvars
      <3>3. /\ status' = [status EXCEPT ![v] = "none"]
            /\ num_computed_tokens' = [num_computed_tokens EXCEPT ![v] = 0]
            /\ num_output_placeholders' = [num_output_placeholders EXCEPT ![v] = 0]
            /\ all_token_ids' = [all_token_ids EXCEPT ![v] = <<>>]
        BY <3>2, <1>a, FinishRequestSteps
      <3> QED  BY <3>2, <3>3, <1>a
    <2> QED  BY <2>1, <2>2, <2>3
  <1>2. PICK v \in Requests :
           /\ status'[v] # "RUNNING" /\ UNCHANGED batch_queue /\ Pending' = Pending
           /\ \A q \in Requests \ {v} :
                 /\ status'[q] = status[q] /\ num_computed_tokens'[q] = num_computed_tokens[q]
                 /\ num_output_placeholders'[q] = num_output_placeholders[q]
                 /\ all_token_ids'[q] = all_token_ids[q]
    BY <1>1
  <1>3. ASSUME NEW q \in Requests PROVE LeftToCompute(q)'
    <2>1. CASE q = v
      BY <2>1, <1>2 DEF LeftToCompute
    <2>2. CASE q # v
      BY <2>2, <1>2, LeftKept, ComingKept
    <2> QED  BY <2>1, <2>2
  <1> QED  BY <1>3

(* A request is admitted with a hit that leaves a token to compute. *)
LEMMA ScheduleWaitingLeft ==
    ASSUME Before, \A r \in Requests : LeftToCompute(r), ScheduleWaiting
    PROVE  \A r \in Requests : LeftToCompute(r)'
  <1>0. PICK hits \in GetComputedBlocks(Head(waiting)) :
           /\ num_computed_tokens' =
                 [num_computed_tokens EXCEPT ![Head(waiting)] = Len(hits) * BlockSize]
           /\ status' = [status EXCEPT ![Head(waiting)] = "RUNNING"]
    BY DEF ScheduleWaiting
  <1>1. /\ UNCHANGED <<num_output_placeholders, all_token_ids, batch_queue, outputs, pc>>
        /\ waiting # <<>>
    BY DEF ScheduleWaiting, MoreWaiting, flightvars
  <1>a. /\ waiting \in Seq(Requests) /\ QueuesExact /\ KVInv /\ NumberTypes
        /\ DOMAIN status = Requests /\ DOMAIN num_computed_tokens = Requests
    BY DEF Before, ControlInv, ControlTypes, NumberTypes
  <1>b. PICK r \in Requests : r = Head(waiting) /\ status[r] \in {"WAITING", "PREEMPTED"}
    <2>1. Head(waiting) \in Range(waiting)
      BY <1>1, <1>a DEF Range
    <2> QED  BY <2>1, <1>a DEF QueuesExact
  <1>c. /\ NumTokens(r) \in Nat /\ num_output_placeholders[r] \in Nat
        /\ Len(hits) * BlockSize \in Nat
    BY <1>0, <1>a, <1>b, NumbersTyped, NumHitsType
  <1>d. Len(hits) * BlockSize < NumTokens(r)
    <2>1. all_token_ids[r] # <<>>
      BY <1>b, AddedHasTokens
    <2> QED  BY <2>1, <1>0, <1>a, <1>b, HitsLeaveToken
  <1>2. ASSUME NEW q \in Requests PROVE LeftToCompute(q)'
    <2>1. CASE q = r
      <3>1. num_computed_tokens'[q] = Len(hits) * BlockSize
        BY <2>1, <1>0, <1>a, <1>b
      <3> QED  BY <2>1, <3>1, <1>1, <1>c, <1>d DEF LeftToCompute, NumTokens
    <2>2. CASE q # r
      <3>1. status'[q] = status[q] /\ num_computed_tokens'[q] = num_computed_tokens[q]
        BY <2>2, <1>0, <1>a, <1>b
      <3>2. Pending' = Pending
        BY <1>1 DEF Pending
      <3> QED  BY <3>1, <3>2, <1>1, LeftKept, ComingKept
    <2> QED  BY <2>1, <2>2
  <1> QED  BY <1>2

(* What is scheduled leaves a token to compute, or is sampled.             *)
LEMMA DispatchLeft ==
    ASSUME Before, \A r \in Requests : LeftToCompute(r), Dispatch
    PROVE  \A r \in Requests : LeftToCompute(r)'
  <1> DEFINE batch == [i \in DOMAIN sched |->
                          [req |-> sched[i].req,
                           pos |-> IF IsPrefillChunk(sched[i]) THEN 0
                                   ELSE num_computed_tokens[sched[i].req] + sched[i].n + 1]]
  <1>0. /\ UNCHANGED <<status, outputs, all_token_ids>>
        /\ pc = "dispatch" /\ pc' \in {"result", "idle"}
        /\ num_computed_tokens' = [r \in Requests |-> num_computed_tokens[r] + NumScheduledTokens(r)]
        /\ num_output_placeholders' = [r \in Requests |->
              num_output_placeholders[r] + (IF AsyncScheduling /\ Samples(batch, r) THEN 1 ELSE 0)]
        /\ batch_queue' = Append(batch_queue, batch)
    BY DEF Dispatch, kvvars
  <1>a. batch_queue \in Seq(Seq(Output))
    BY DEF Before, ControlInv, ControlTypes
  <1>b. /\ Len(batch_queue) \in Nat
        /\ \A i \in DOMAIN batch_queue : i \in DOMAIN batch_queue' /\ batch_queue'[i] = batch_queue[i]
        /\ Len(batch_queue) + 1 \in DOMAIN batch_queue' /\ batch_queue'[Len(batch_queue) + 1] = batch
    <2> HIDE DEF batch
    <2> QED  BY <1>0, <1>a
  <1>d. PICK last \in Nat : last \in DOMAIN batch_queue' /\ batch_queue'[last] = batch
    BY <1>b
  <1>c. Pending' = Pending
    BY <1>0 DEF Pending
  <1>1. ASSUME NEW r \in Requests, status[r] = "RUNNING" PROVE LeftToCompute(r)'
    <2> DEFINE n == num_computed_tokens[r] + NumScheduledTokens(r)
               k == NumTokens(r) + num_output_placeholders[r]
    <2>1. /\ NumTokens(r) \in Nat /\ num_output_placeholders[r] \in Nat
          /\ num_computed_tokens[r] \in Nat /\ NumScheduledTokens(r) \in Nat
          /\ r \notin Scheduled => NumScheduledTokens(r) = 0
      BY NumbersTyped
    <2>2. /\ num_computed_tokens'[r] = n /\ NumTokens(r)' = NumTokens(r)
          /\ num_output_placeholders'[r] =
                IF AsyncScheduling /\ Samples(batch, r) THEN num_output_placeholders[r] + 1
                ELSE num_output_placeholders[r]
      BY <1>0, <2>1 DEF NumTokens
    <2>3. SampleComing(r) \/ Samples(batch, r) => SampleComing(r)'
      <3>1. ASSUME NEW i \in DOMAIN batch_queue, Samples(batch_queue[i], r)
            PROVE  i \in DOMAIN batch_queue' /\ Samples(batch_queue[i], r)'
        <4> HIDE DEF batch
        <4>1. batch_queue'[i] = batch_queue[i]
          BY <1>b
        <4> QED  BY <3>1, <4>1, <1>b DEF Samples
      <3> HIDE DEF batch
      <3>2. Samples(batch, r) => Samples(batch_queue[last], r)'
        BY <1>d DEF Samples
      <3>3. Samples(Pending, r) => Samples(Pending, r)'
        BY <1>c DEF Samples
      <3> QED  BY <3>1, <3>2, <3>3, <1>d DEF SampleComing
    <2>4. CASE r \notin Scheduled
      <3>1. n = num_computed_tokens[r] /\ LeftToCompute(r)
        BY <2>1, <2>4
      <3> HIDE DEF batch
      <3> QED  BY <3>1, <1>1, <2>1, <2>2, <2>3 DEF LeftToCompute
    <2>5. CASE r \in Scheduled
      <3>1. PICK i \in DOMAIN sched : sched[i].req = r
        BY <2>5 DEF Scheduled
      <3>2. n <= k /\ num_computed_tokens[r] + sched[i].n = n
        BY <3>1, <2>5, <1>1, DispatchedSample
      <3>3. CASE IsPrefillChunk(sched[i])
        <4>1. n < k
          BY <3>1, <3>2, <3>3 DEF IsPrefillChunk
        <4> HIDE DEF batch
        <4> QED  BY <4>1, <2>1, <2>2 DEF LeftToCompute
      <3>4. CASE ~IsPrefillChunk(sched[i])
        <4>1. batch[i].req = r /\ batch[i].pos = n + 1 /\ i \in DOMAIN batch
          BY <3>1, <3>2, <3>4
        <4> HIDE DEF batch, n
        <4>2. Samples(batch, r)
          <5>1. n + 1 # 0
            BY <2>1 DEF n
          <5> QED  BY <4>1, <5>1 DEF Samples
        <4>3. n \in Nat
          BY <2>1 DEF n
        <4> QED  BY <4>2, <4>3, <3>2, <2>1, <2>2, <2>3 DEF LeftToCompute
      <3> QED  BY <3>3, <3>4
    <2> QED  BY <2>4, <2>5
  <1>2. ASSUME NEW r \in Requests PROVE LeftToCompute(r)'
    <2>1. CASE status[r] # "RUNNING"
      BY <2>1, <1>0 DEF LeftToCompute
    <2> QED  BY <2>1, <1>1
  <1> QED  BY <1>2

(* A result that is taken has the samples it was waited for. *)
LEMMA TakeResultLeft ==
    ASSUME Before, \A r \in Requests : LeftToCompute(r), TakeResult
    PROVE  \A r \in Requests : LeftToCompute(r)'
  <1>0. /\ UNCHANGED <<status, num_computed_tokens, num_output_placeholders, all_token_ids>>
        /\ pc = "result" /\ outputs' = Head(batch_queue) /\ batch_queue' = Tail(batch_queue)
        /\ pc' \in {"idle", "update"}
    BY DEF TakeResult, kvvars, reqvars
  <1>a. batch_queue \in Seq(Seq(Output)) /\ batch_queue # <<>> /\ outputs = <<>>
    BY <1>0 DEF Before, ControlInv, ControlTypes, BatchesInFlight
  <1>b. Pending = <<>> /\ Pending' = Head(batch_queue)
    BY <1>0, <1>a DEF Pending
  <1>c. \A i \in DOMAIN batch_queue :
           \/ batch_queue[i] = Head(batch_queue)
           \/ i - 1 \in DOMAIN batch_queue' /\ batch_queue'[i - 1] = batch_queue[i]
    BY <1>0, <1>a
  <1>1. ASSUME NEW r \in Requests, SampleComing(r) PROVE SampleComing(r)'
    <2>1. PICK i \in DOMAIN batch_queue : Samples(batch_queue[i], r)
      BY <1>1, <1>b DEF SampleComing, Samples
    <2>2. CASE batch_queue[i] = Head(batch_queue)
      BY <2>1, <2>2, <1>b DEF SampleComing, Samples
    <2>3. CASE i - 1 \in DOMAIN batch_queue' /\ batch_queue'[i - 1] = batch_queue[i]
      BY <2>1, <2>3 DEF SampleComing, Samples
    <2> QED  BY <2>2, <2>3, <1>c
  <1> QED  BY <1>0, <1>1, LeftKept

(* An output is skipped that is no sample of a running request, or of one  *)
(* that does not wait for it.                                              *)
LEMMA SkipOutputLeft ==
    ASSUME Before, \A r \in Requests : LeftToCompute(r), SkipOutput
    PROVE  \A r \in Requests : LeftToCompute(r)'
  <1> DEFINE e == Head(outputs)
  <1>0. /\ UNCHANGED <<status, num_computed_tokens, num_output_placeholders, all_token_ids, batch_queue>>
        /\ pc = "update" /\ NextOutput
        /\ status[e.req] = "none" \/ e.pos = 0 \/ AsyncScheduling
    BY DEF SkipOutput, kvvars
  <1>a. outputs \in Seq(Output) /\ outputs # <<>>
    BY <1>0 DEF Before, ControlInv, ControlTypes, BatchesInFlight
  <1>b. Pending = outputs /\ Pending' = Tail(outputs)
    BY <1>0 DEF Pending, NextOutput
  <1>1. ASSUME NEW r \in Requests PROVE LeftToCompute(r)'
    <2>1. CASE AsyncScheduling \/ status[r] # "RUNNING"
      BY <2>1, <1>0 DEF LeftToCompute, NumTokens
    <2>2. CASE ~AsyncScheduling /\ status[r] = "RUNNING"
      <3>1. r # e.req \/ e.pos = 0
        BY <2>2, <1>0
      <3>2. Samples(Pending, r) => Samples(Tail(outputs), r)
        BY <3>1, <1>a, <1>b, SamplesInTail
      <3>3. SampleComing(r) => SampleComing(r)'
        BY <3>2, <1>0, <1>b DEF SampleComing, Samples
      <3> QED  BY <3>3, <1>0, LeftKept
    <2> QED  BY <2>1, <2>2
  <1> QED  BY <1>1

(* A token that arrives is one to compute. *)
LEMMA AppendOutputLeft ==
    ASSUME Before, \A r \in Requests : LeftToCompute(r), AppendOutput
    PROVE  \A r \in Requests : LeftToCompute(r)'
  <1>0. /\ UNCHANGED <<status, num_computed_tokens, batch_queue>>
        /\ pc = "update" /\ Head(outputs).pos # 0
        /\ AppendOutputToken(Head(outputs).req, Head(outputs).pos)
        /\ num_output_placeholders' =
              [num_output_placeholders EXCEPT ![Head(outputs).req] = PlaceholdersAfter(@)]
    BY DEF AppendOutput
  <1>1. (pc' \in {"cache", "stop"} /\ UNCHANGED outputs) \/ NextOutput
    BY DEF AppendOutput
  <1>a. /\ outputs \in Seq(Output) /\ outputs # <<>> /\ PositionsInFlight /\ Granted /\ QueuesExact
        /\ DOMAIN num_output_placeholders = Requests /\ DOMAIN all_token_ids = Requests
    BY <1>0 DEF Before, ControlInv, ControlTypes, NumberTypes, BatchesInFlight, NumbersInv
  <1>b. PICK r \in Requests, n \in 1 .. MaxModelLen : r = Head(outputs).req /\ n = Head(outputs).pos
    <2>1. Head(outputs).req \in Requests /\ Head(outputs) = outputs[1] /\ 1 \in DOMAIN outputs
      BY <1>a, OutputAtHand
    <2>2. outputs[1].pos \in 0 .. MaxModelLen
      BY <2>1, <1>a DEF PositionsInFlight, Positions
    <2>3. Head(outputs).pos \in 1 .. MaxModelLen
      BY <2>1, <2>2, <1>0, BlockSizes
    <2> QED  BY <2>1, <2>3
  <1>c. Pending = outputs /\ Pending' = Tail(outputs)
    BY <1>0, <1>1 DEF Pending, NextOutput
  <1>d. ASSUME NEW q \in Requests, q # r, SampleComing(q) PROVE SampleComing(q)'
    <2>1. ASSUME Samples(Pending, q) PROVE Samples(Pending, q)'
      <3>1. Samples(Tail(outputs), q)
        BY <2>1, <1>a, <1>b, <1>c, <1>d, SamplesInTail
      <3> QED  BY <3>1, <1>c DEF Samples
    <2>2. \A i \in DOMAIN batch_queue : Samples(batch_queue[i], q)' <=> Samples(batch_queue[i], q)
      BY <1>0 DEF Samples
    <2> QED  BY <2>1, <2>2, <1>0, <1>d DEF SampleComing
  <1>e. n \in Token
    BY PositionsAreTokens
  <1>f. /\ NumTokens(r) \in Nat /\ num_output_placeholders[r] \in Nat /\ all_token_ids[r] \in Seq(Token)
        /\ num_computed_tokens[r] \in Nat /\ NumScheduledTokens(r) \in Nat
    BY <1>b, NumbersTyped
  <1>g. /\ NumTokens(r)' = NumTokens(r) + 1
        /\ num_output_placeholders'[r] =
              IF AsyncScheduling THEN num_output_placeholders[r] - 1 ELSE num_output_placeholders[r]
        /\ \A q \in Requests \ {r} : /\ all_token_ids'[q] = all_token_ids[q]
                                     /\ num_output_placeholders'[q] = num_output_placeholders[q]
    <2>1. all_token_ids'[r] = Append(all_token_ids[r], n)
      BY <1>0, <1>a, <1>b DEF AppendOutputToken
    <2>2. NumTokens(r)' = NumTokens(r) + 1
      BY <2>1, <1>e, <1>f DEF NumTokens
    <2> QED  BY <2>2, <1>0, <1>a, <1>b DEF AppendOutputToken, PlaceholdersAfter
  <1>2. status[r] = "RUNNING" => num_computed_tokens[r] <= NumTokens(r) + num_output_placeholders[r]
    <2> HAVE status[r] = "RUNNING"
    <2>1. Covered(r)
      BY <1>a, <1>b DEF QueuesExact, Granted
    <2> QED  BY <2>1, <1>f DEF Covered, Fits
  <1>3. ASSUME NEW q \in Requests PROVE LeftToCompute(q)'
    <2>1. CASE q = r
      BY <2>1, <1>0, <1>b, <1>f, <1>g, <1>2 DEF LeftToCompute
    <2>2. CASE q # r
      BY <2>2, <1>0, <1>d, <1>g, LeftKept
    <2> QED  BY <2>1, <2>2
  <1> QED  BY <1>3

(* Every action leaves a running request something to compute. *)
LEMMA LeftNext ==
    ASSUME Before, \A r \in Requests : LeftToCompute(r), Next
    PROVE  \A r \in Requests : LeftToCompute(r)'
  <1>1. CASE SteadyStep
    <2>1. /\ UNCHANGED <<status, num_computed_tokens, num_output_placeholders, all_token_ids, batch_queue>>
          /\ Pending' = Pending
      BY <1>1, SteadySteps DEF Before
    <2> QED  BY <2>1, LeftKept, ComingKept
  <1>2. CASE \/ PreemptVictim \/ ResetPreempt \/ StopRequest
             \/ \E r \in Requests : AbortRequest(r) \/ SleepAborts(r)
    BY <1>2, LeavingLeft
  <1>3. CASE \E r \in Requests : \E prompt \in Prompts : AddRequest(r, prompt)
    <2>1. PICK r \in Requests, prompt \in Prompts : AddRequest(r, prompt)
      BY <1>3
    <2>2. /\ UNCHANGED <<num_computed_tokens, num_output_placeholders, batch_queue, outputs, pc>>
          /\ status' = [status EXCEPT ![r] = "WAITING"]
          /\ all_token_ids' = [all_token_ids EXCEPT ![r] = prompt]
      BY <2>1 DEF AddRequest, NewRequest, flightvars
    <2>3. DOMAIN status = Requests /\ DOMAIN all_token_ids = Requests /\ Pending' = Pending
      BY <2>2 DEF Before, ControlInv, ControlTypes, NumberTypes, Pending
    <2>4. ASSUME NEW q \in Requests PROVE LeftToCompute(q)'
      <3>1. CASE q = r
        BY <3>1, <2>2, <2>3 DEF LeftToCompute
      <3>2. CASE q # r
        BY <3>2, <2>2, <2>3, LeftKept, ComingKept
      <3> QED  BY <3>1, <3>2
    <2> QED  BY <2>4
  <1>4. CASE ScheduleWaiting
    BY <1>4, ScheduleWaitingLeft
  <1>5. CASE Dispatch
    BY <1>5, DispatchLeft
  <1>6. CASE TakeResult
    BY <1>6, TakeResultLeft
  <1>7. CASE SkipOutput
    BY <1>7, SkipOutputLeft
  <1>8. CASE AppendOutput
    BY <1>8, AppendOutputLeft
  <1> QED  BY <1>1, <1>2, <1>3, <1>4, <1>5, <1>6, <1>7, <1>8 DEF Next, EngineStep, ClientStep, SteadyStep
-----------------------------------------------------------------------------
(* The progress of schedule(). *)

(* Nothing is counted as in flight while nothing is, unless a reset of     *)
(* running requests lost count of it.                                      *)
Counted == AsyncScheduling => NeverResets

(* With nothing in flight, the first loop skips no request.                *)
LEMMA TokensLeft ==
    ASSUME Before, Counted, \A q \in Requests : LeftToCompute(q),
           InSchedule, batch_queue = <<>>, NEW r \in Range(running)
    PROVE  ~NoFurtherStep(r) /\ (token_budget > 0 => NumNewTokens(r) # 0)
  <1>1. /\ outputs = <<>> /\ Pending = <<>> /\ running \in Seq(Requests) /\ QueuesExact /\ NumberTypes
        /\ pc \notin {"cache", "stop"} /\ TokensKnown /\ PlaceholdersOf(r)
    BY RunningRequest DEF Before, ControlInv, ControlTypes, BatchesInFlight, InSchedule, Pending,
                          NumbersInv, Placeholders
  <1>2. r \in Requests /\ status[r] = "RUNNING"
    BY <1>1, RunningRequest DEF QueuesExact
  <1>3. ~SampleComing(r)
    BY <1>1 DEF SampleComing, Samples
  <1>4. num_output_placeholders[r] = 0
    <2>1. CASE ~AsyncScheduling
      BY <2>1, <1>1 DEF PlaceholdersOf
    <2>2. CASE AsyncScheduling
      <3>1. num_output_placeholders[r] = SamplesInFlight(r)
        BY <2>2, <1>1, <1>2 DEF PlaceholdersOf, Counted
      <3>2. ~InFlight(r)
        BY <1>1 DEF InFlight
      <3> QED  BY <3>1, <3>2, <1>1, NothingInFlight
    <2> QED  BY <2>1, <2>2
  <1>5. NumTokens(r) \in Nat /\ num_computed_tokens[r] \in Nat
    BY <1>2, NumbersTyped
  <1>6. num_computed_tokens[r] < NumTokens(r) /\ NumTokens(r) < MaxModelLen
    <2>1. num_computed_tokens[r] < NumTokens(r) + 0
      BY <1>2, <1>3, <1>4 DEF LeftToCompute
    <2>2. NumTokens(r) <= MaxModelLen /\ NumTokens(r) # MaxModelLen
      BY <1>1, <1>2 DEF TokensKnown, TokensOf
    <2> QED  BY <2>1, <2>2, <1>5, BlockSizes
  <1>7. ~NoFurtherStep(r)
    BY <1>4 DEF NoFurtherStep
  <1>8. ASSUME token_budget > 0 PROVE NumNewTokens(r) # 0
    <2> DEFINE left == NumTokens(r) + num_output_placeholders[r] - num_computed_tokens[r]
    <2>1. left > 0 /\ MaxModelLen - 1 - num_computed_tokens[r] > 0
      BY <1>4, <1>5, <1>6, BlockSizes
    <2>2. /\ left > 0 => Capped(left) > 0
          /\ NumNewTokens(r) \in {Capped(left), token_budget, MaxModelLen - 1 - num_computed_tokens[r]}
      BY <1>1, <1>2, NumNewTokensFacts
    <2> HIDE DEF left
    <2> QED  BY <2>1, <2>2, <1>8
  <1> QED  BY <1>7, <1>8

(* Where the requests behind the removed one move. *)
LEMMA RemovedPlaces ==
    ASSUME NEW S, NEW q \in Seq(S), IsInjective(q), NEW p \in DOMAIN q
    PROVE  LET left == RemoveFrom(q, q[p])
           IN  /\ DOMAIN left = 1 .. Len(q) - 1
               /\ \A k \in DOMAIN left : left[k] = IF k < p THEN q[k] ELSE q[k + 1]
  <1> DEFINE at == CHOOSE i \in DOMAIN q : q[i] = q[p]
  <1>1. at = p
    <2>1. at \in DOMAIN q /\ q[at] = q[p]
      OBVIOUS
    <2> QED  BY <2>1 DEF IsInjective
  <1>2. RemoveFrom(q, q[p]) = RemoveAt(q, p)
    BY <1>1 DEF RemoveFrom, Range
  <1>3. p \in 1 .. Len(q)
    OBVIOUS
  <1> QED  BY <1>2, <1>3, RemoveAtFacts

(* A step of schedule() with nothing in flight: the first loop has         *)
(* scheduled the requests it has passed, and while nothing is scheduled    *)
(* the budget is not spent.  The last running request is not preempted.    *)
(* After the loop, nothing is scheduled only if no request runs, or if the *)
(* request at hand was of the lowest priority itself; and at the end, only *)
(* if none waits either.                                                   *)
Progress ==
    InSchedule /\ batch_queue = <<>> /\ pause_state = "UNPAUSED" =>
        /\ pc \in {"running", "alloc"} =>
              \A k \in DOMAIN running : running[k] \notin Scheduled => k >= req_index
        /\ sched = <<>> => token_budget > 0
        /\ preempted_reqs # {} => running # <<>>
        /\ pc \in {"waiting", "dispatch"} /\ sched = <<>> /\ running # <<>> =>
              Policy = "priority" /\ preempted_reqs # {}
        /\ pc = "dispatch" /\ sched = <<>> /\ running = <<>> => waiting = <<>>

WorkInv == Progress /\ \A r \in Requests : LeftToCompute(r)

BeforeWork == Before /\ Counted /\ WorkInv /\ InSchedule /\ batch_queue = <<>> /\ pause_state = "UNPAUSED"

(* The first loop: one request is passed over, picked or given its slots.  *)
LEMMA RunningProgress ==
    ASSUME BeforeWork, SkipRunning \/ PickRunning \/ ScheduleRunning \/ RunningDone
    PROVE  Progress'
  <1>a. /\ running \in Seq(Requests) /\ req_index \in Int /\ token_budget \in Int /\ Progress
        /\ Len(running) \in Nat /\ DOMAIN running = 1 .. Len(running)
    BY DEF BeforeWork, WorkInv, Before, ControlInv, ControlTypes, NumberTypes
  <1>b. pc \in {"running", "alloc"} => req_index >= 1
    BY DEF BeforeWork, Before, ControlInv, StepInOrder
  <1>1. CASE SkipRunning
    <2>1. pc = "running" /\ MoreRunning /\ (NoFurtherStep(running[req_index]) \/ NumNewTokens(running[req_index]) = 0)
      BY <1>1 DEF SkipRunning
    <2>2. running[req_index] \in Range(running) /\ token_budget > 0
      BY <2>1, <1>a, <1>b DEF MoreRunning, Range
    <2> QED  BY <2>1, <2>2, TokensLeft DEF BeforeWork, WorkInv
  <1>2. CASE PickRunning
    <2>1. /\ UNCHANGED <<running, req_index, token_budget, preempted_reqs, sched, batch_queue, pause_state>>
          /\ pc = "running" /\ pc' = "alloc"
      BY <1>2 DEF PickRunning, queuevars, flightvars, sleepvars
    <2> QED  BY <2>1, <1>a DEF Progress, InSchedule, Scheduled, BeforeWork
  <1>3. CASE ScheduleRunning
    <2> DEFINE r == cur[1]
               e == [req |-> r, n |-> cur[2], kind |-> "running",
                     blocks |-> SubSeq(req_to_blocks'[r], Len(req_to_blocks[r]) + 1,
                                       Len(req_to_blocks'[r]))]
    <2>1. /\ UNCHANGED <<running, preempted_reqs>>
          /\ pc = "alloc" /\ pc' = "running" /\ req_index' = req_index + 1
          /\ sched' = Append(sched, e)
      BY <1>3 DEF ScheduleRunning, queuevars
    <2>2. PICK B : sched \in Seq(Entry(B))
      BY DEF BeforeWork, Before, ControlInv, ControlTypes
    <2>3. /\ Len(sched) \in Nat /\ DOMAIN sched = 1 .. Len(sched)
          /\ DOMAIN sched' = 1 .. Len(sched) + 1 /\ sched'[Len(sched) + 1] = e
          /\ \A i \in 1 .. Len(sched) : sched'[i] = sched[i]
      <3> HIDE DEF e
      <3> QED  BY <2>1, <2>2
    <2>4. sched' # <<>>
      BY <2>3
    <2>5. r \in Scheduled' /\ Scheduled \subseteq Scheduled'
      <3>1. e.req = r /\ Len(sched) + 1 \in DOMAIN sched'
        BY <2>3
      <3> HIDE DEF e, r
      <3>2. sched'[Len(sched) + 1].req = r
        BY <2>3, <3>1
      <3>3. \A i \in DOMAIN sched : i \in DOMAIN sched' /\ sched'[i] = sched[i]
        BY <2>3
      <3> QED  BY <3>1, <3>2, <3>3 DEF Scheduled
    <2>6. \A k \in DOMAIN running : running[k] \notin Scheduled' => k >= req_index + 1
      <3> HIDE DEF r, e
      <3> TAKE k \in DOMAIN running
      <3> HAVE running[k] \notin Scheduled'
      <3>1. k >= req_index /\ running[k] # r
        BY <2>1, <2>5, <1>a DEF Progress, BeforeWork
      <3>2. r \notin Scheduled /\ r \in Range(running)
        BY <2>1 DEF BeforeWork, Before, ControlInv, StepInOrder, r
      <3>3. PICK j \in DOMAIN running : running[j] = r
        BY <3>2 DEF Range
      <3>4. j <= req_index
        BY <2>1, <3>3 DEF BeforeWork, Before, ControlInv, StepInOrder, r
      <3>5. j >= req_index
        BY <2>1, <3>2, <3>3, <1>a DEF Progress, BeforeWork
      <3> QED  BY <3>1, <3>3, <3>4, <3>5, <1>a
    <2> HIDE DEF r, e
    <2>7. preempted_reqs # {} => running # <<>>
      BY <1>a DEF Progress, BeforeWork
    <2> QED  BY <2>1, <2>4, <2>6, <2>7 DEF Progress
  <1>4. CASE RunningDone
    <2>1. /\ UNCHANGED <<running, req_index, token_budget, preempted_reqs, sched, batch_queue, pause_state>>
          /\ pc = "running" /\ pc' = "waiting" /\ ~MoreRunning
      BY <1>4 DEF RunningDone, queuevars, stepvars, flightvars, sleepvars
    <2>2. ASSUME sched = <<>>, running # <<>> PROVE FALSE
      <3>1. req_index > Len(running)
        BY <2>1, <2>2, <1>a DEF Progress, BeforeWork, MoreRunning
      <3>2. 1 \in DOMAIN running /\ Scheduled = {}
        BY <2>2, <1>a DEF Scheduled
      <3>3. 1 >= req_index
        BY <2>1, <3>2, <1>a DEF Progress, BeforeWork
      <3> QED  BY <3>1, <3>2, <3>3, <1>a
    <2> QED  BY <2>1, <2>2, <1>a DEF Progress, BeforeWork, InSchedule
  <1> QED  BY <1>1, <1>2, <1>3, <1>4

(* A request that computes on fewer positions than the model has, alone    *)
(* with the pool, gets its slots.                                          *)
LEMMA AloneProgress ==
    ASSUME Before, NEW r \in Requests, status[r] # "none", NEW hits, NEW total \in Nat,
           \A q \in Requests \ {r} : req_to_blocks[q] = <<>>,
           hits \in IF req_to_blocks[r] = <<>> THEN GetComputedBlocks(r) \cup {<<>>} ELSE {<<>>},
           total < MaxModelLen
    PROVE  CanAllocate(r, hits, total)
  <1>1. all_token_ids[r] # <<>>
    <2>1. TokensKnown
      BY DEF Before, NumbersInv
    <2> QED  BY <2>1, AddedHasTokens
  <1>2. IsHit(r, hits)
    BY <1>1, HitFacts DEF Before
  <1>3. total <= MaxModelLen
    BY BlockSizes
  <1> QED  BY <1>2, <1>3, AloneCanAllocate DEF Before

(* A preemption: the last running request is not preempted.                *)
LEMMA PreemptVictimProgress ==
    ASSUME BeforeWork, PreemptVictim
    PROVE  Progress'
  <1> DEFINE v == Victim
  <1>0. /\ UNCHANGED <<cur, batch_queue, pause_state>>
        /\ pc = "alloc" /\ ~CanAllocate(cur[1], <<>>, num_computed_tokens[cur[1]] + cur[2])
        /\ running' = RemoveFrom(running, v)
        /\ preempted_reqs' = preempted_reqs \cup {v}
        /\ sched' = Unscheduled(v)
        /\ token_budget' = token_budget + NumScheduledTokens(v)
        /\ req_index' = IF v \in Scheduled THEN req_index - 1 ELSE req_index
        /\ pc' = IF v = cur[1] THEN "waiting" ELSE "alloc"
    BY DEF PreemptVictim, workervars, flightvars, sleepvars
  <1>a. /\ running \in Seq(Requests) /\ IsInjective(running) /\ Granted /\ QueuesExact
        /\ cur[1] \in Range(running) \ Scheduled /\ cur \in Requests \X Int
        /\ \A i, j \in DOMAIN sched : sched[i].req = sched[j].req => i = j
        /\ token_budget \in Int /\ req_index \in Int /\ Progress
        /\ \A k \in DOMAIN running : running[k] \in Scheduled => k < req_index
        /\ \A k \in DOMAIN running : running[k] = cur[1] => k <= req_index
        /\ DOMAIN running = 1 .. Len(running) /\ Len(running) \in Nat /\ Before
    <2>1. Before /\ Progress
      BY DEF BeforeWork, WorkInv
    <2>2. QueuesExact /\ StepInOrder /\ Granted
      BY <2>1 DEF Before, ControlInv, NumbersInv
    <2>3. /\ running \in Seq(Requests) /\ cur \in Requests \X Int
          /\ token_budget \in Int /\ req_index \in Int
      BY <2>1, <1>0 DEF Before, ControlInv, ControlTypes, NumberTypes
    <2>4. DOMAIN running = 1 .. Len(running) /\ Len(running) \in Nat
      BY <2>3
    <2>5. IsInjective(running)
      BY <2>2 DEF QueuesExact
    <2> QED  BY <2>1, <2>2, <2>3, <2>4, <2>5, <1>0 DEF StepInOrder
  <1>b. PICK c \in DOMAIN running : running[c] = cur[1]
    BY <1>a DEF Range
  <1>c. v \in Range(running)
    <2>1. running # <<>>
      BY <1>a, <1>b
    <2> QED  BY <2>1, <1>a, VictimRuns
  <1>d. Policy = "fcfs" => v = running[Len(running)]
    BY DEF Victim, Last
  <1> HIDE DEF v
  <1>e. PICK p \in DOMAIN running : running[p] = v
    BY <1>c DEF Range
  <1>f. /\ DOMAIN running' = 1 .. Len(running) - 1
        /\ \A k \in DOMAIN running' : running'[k] = IF k < p THEN running[k] ELSE running[k + 1]
    <2>1. LET left == RemoveFrom(running, running[p])
          IN  /\ DOMAIN left = 1 .. Len(running) - 1
              /\ \A k \in DOMAIN left : left[k] = IF k < p THEN running[k] ELSE running[k + 1]
      BY <1>a, RemovedPlaces
    <2> QED  BY <2>1, <1>0, <1>e
  <1>g. PICK B : sched \in Seq(Entry(B))
    BY <1>a DEF Before, ControlInv, ControlTypes
  <1>h. Scheduled' = Scheduled \ {v} /\ sched' \in Seq(Entry(B))
    <2>1. LET left == Unscheduled(v)
          IN  {left[i].req : i \in DOMAIN left} = Scheduled \ {v} /\ left \in Seq(Entry(B))
      BY <1>a, <1>g, UnscheduledFacts
    <2> QED  BY <2>1, <1>0 DEF Scheduled
  <1>i. v \in Requests /\ cur[1] \in Requests /\ status[cur[1]] = "RUNNING"
    BY <1>a, <1>c, RunningRequest DEF QueuesExact
  <1>1. Len(running) >= 2
    <2> SUFFICES ASSUME Len(running) = 1 PROVE FALSE
      BY <1>a, <1>b
    <2> DEFINE r == cur[1]
               total == num_computed_tokens[r] + cur[2]
    <2>1. Range(running) = {r}
      BY <1>a, <1>b, c = 1 DEF Range
    <2>2. \A q \in Requests \ {r} : req_to_blocks[q] = <<>>
      BY <2>1, <1>a DEF QueuesExact
    <2>3. total \in Nat /\ total < MaxModelLen
      <3>1. num_computed_tokens[r] \in Nat /\ cur[2] \in Int /\ cur[2] >= 1
        BY <1>0, <1>a, <1>i, NumbersTyped DEF Granted
      <3>2. Fits(r, total)
        BY <1>0, <1>a DEF Granted
      <3> QED  BY <3>1, <3>2 DEF Fits
    <2>4. <<>> \in IF req_to_blocks[r] = <<>> THEN GetComputedBlocks(r) \cup {<<>>} ELSE {<<>>}
      OBVIOUS
    <2>5. r \in Requests /\ status[r] # "none"
      BY <1>i
    <2>6. ~CanAllocate(r, <<>>, total)
      BY <1>0
    <2> HIDE DEF r, total
    <2> QED  BY <2>2, <2>3, <2>4, <2>5, <2>6, <1>a, AloneProgress
  <1>2. running' # <<>>
    BY <1>1, <1>f
  <1>3. pc' = "alloc" => \A k \in DOMAIN running' : running'[k] \notin Scheduled' => k >= req_index'
    <2> HAVE pc' = "alloc"
    <2> TAKE k \in DOMAIN running'
    <2> HAVE running'[k] \notin Scheduled'
    <2> DEFINE j == IF k < p THEN k ELSE k + 1
    <2>1. j \in DOMAIN running /\ j # p /\ running'[k] = running[j]
      BY <1>a, <1>e, <1>f
    <2>2. running[j] # v
      BY <2>1, <1>a, <1>e DEF IsInjective
    <2>3. running[j] \notin Scheduled
      BY <2>1, <2>2, <1>h
    <2>4. j >= req_index
      BY <2>1, <2>3, <1>0, <1>a DEF Progress, BeforeWork
    <2>5. CASE v \in Scheduled
      BY <2>4, <2>5, <1>0, <1>a, <1>f
    <2>6. CASE v \notin Scheduled
      <3>1. p >= req_index
        BY <2>6, <1>0, <1>a, <1>e DEF Progress, BeforeWork
      <3> QED  BY <2>4, <2>6, <3>1, <1>0, <1>a, <1>e, <1>f
    <2> QED  BY <2>5, <2>6
  <1>4. sched' = <<>> => token_budget' > 0
    <2> SUFFICES ASSUME Scheduled \subseteq {v} PROVE token_budget' > 0
      BY <1>h DEF Scheduled
    <2>1. CASE v \in Scheduled
      BY <2>1, <1>0, <1>a, <1>i, NumbersTyped DEF Granted
    <2>2. CASE v \notin Scheduled
      <3>1. Scheduled = {} /\ NumScheduledTokens(v) = 0
        BY <2>2 DEF NumScheduledTokens
      <3>2. sched = <<>>
        <4>1. Len(sched) \in Nat /\ DOMAIN sched = 1 .. Len(sched)
          BY <1>g
        <4>2. 1 \notin DOMAIN sched
          BY <3>1 DEF Scheduled
        <4> QED  BY <4>1, <4>2, <1>g
      <3> QED  BY <3>1, <3>2, <1>0, <1>a DEF Progress, BeforeWork
    <2> QED  BY <2>1, <2>2
  <1>5. pc' = "waiting" => sched' # <<>> \/ Policy = "priority"
    <2> SUFFICES ASSUME v = cur[1], Policy = "fcfs" PROVE sched' # <<>>
      BY <1>0, SchedulerConfig
    <2>1. Len(running) = c
      BY <1>a, <1>b, <1>d DEF IsInjective
    <2>2. running[1] # v /\ 1 < req_index
      BY <2>1, <1>1, <1>a, <1>b DEF IsInjective
    <2>3. running[1] \in Scheduled
      BY <2>2, <1>0, <1>1, <1>a DEF Progress, BeforeWork
    <2>4. Scheduled' # {}
      BY <2>2, <2>3, <1>h
    <2> QED  BY <2>4 DEF Scheduled
  <1> QED  BY <1>0, <1>2, <1>3, <1>4, <1>5 DEF Progress

(* A waiting request is admitted. *)
LEMMA ScheduleWaitingProgress ==
    ASSUME BeforeWork, ScheduleWaiting
    PROVE  Progress'
  <1>1. /\ pc' = "waiting" /\ waiting # <<>>
        /\ \E r : running' = Append(running, r)
        /\ \E e : sched' = Append(sched, e)
    BY DEF ScheduleWaiting, MoreWaiting
  <1>2. running \in Seq(Requests) /\ \E B : sched \in Seq(Entry(B))
    BY DEF BeforeWork, Before, ControlInv, ControlTypes
  <1>3. running' # <<>> /\ sched' # <<>>
    BY <1>1, <1>2
  <1> QED  BY <1>1, <1>3 DEF Progress

(* The second loop ends: if nothing runs and one waits, that one was       *)
(* admitted.                                                               *)
LEMMA WaitingDoneProgress ==
    ASSUME BeforeWork, WaitingDone
    PROVE  Progress'
  <1>0. /\ UNCHANGED <<running, waiting, token_budget, preempted_reqs, sched>>
        /\ pc = "waiting" /\ pc' = "dispatch"
    BY DEF WaitingDone, queuevars, stepvars
  <1>a. /\ Before /\ Progress /\ InSchedule /\ batch_queue = <<>> /\ pause_state = "UNPAUSED"
        /\ waiting \in Seq(Requests) /\ IsInjective(waiting) /\ NumberTypes /\ QueuesExact
        /\ TokensKnown /\ KVInv /\ token_budget \in Int
    BY DEF BeforeWork, WorkInv, Before, ControlInv, ControlTypes, NumberTypes, QueuesExact, NumbersInv
  <1>1. ASSUME sched = <<>>, running = <<>>, waiting # <<>> PROVE FALSE
    <2> DEFINE r == Head(waiting)
    <2>1. token_budget > 0 /\ preempted_reqs = {}
      BY <1>1, <1>0, <1>a DEF Progress
    <2>2. MoreWaiting
      BY <1>1, <1>a, <2>1, SchedulerConfig DEF MoreWaiting
    <2>3. PICK hits \in GetComputedBlocks(r) :
              ~CanAllocate(r, hits, Len(hits) * BlockSize + NumNewWaiting(r, hits))
      BY <2>2 DEF WaitingDone
    <2>4. r \in Range(waiting)
      BY <1>1, <1>a, TailFacts
    <2>5. r \in Requests /\ status[r] \in {"WAITING", "PREEMPTED"}
      BY <2>4, <1>a DEF QueuesExact, Range
    <2>6. \A q \in Requests : req_to_blocks[q] = <<>>
      <3>1. Range(running) = {}
        BY <1>1 DEF Range
      <3> QED  BY <3>1, <1>a DEF QueuesExact
    <2>7. NumTokens(r) \in Nat /\ NumTokens(r) < MaxModelLen /\ all_token_ids[r] # <<>>
      <3> HIDE DEF r
      <3>1. NumTokens(r) \in Nat
        BY <2>5, <1>a, NumbersTyped
      <3>2. NumTokens(r) <= MaxModelLen /\ NumTokens(r) # MaxModelLen
        BY <2>5, <1>0, <1>a DEF TokensKnown, TokensOf
      <3>3. all_token_ids[r] # <<>>
        BY <2>5, <1>a, AddedHasTokens
      <3> QED  BY <3>1, <3>2, <3>3, BlockSizes
    <2> DEFINE done  == Len(hits) * BlockSize
               n     == NumNewWaiting(r, hits)
    <2>8. done \in Nat /\ done < NumTokens(r)
      BY <2>5, <2>7, <1>a, NumHitsType, HitsLeaveToken
    <2>9. n \in Int /\ n <= NumTokens(r) - done /\ n > 0
      <3>1. LET left == NumTokens(r) - Len(hits) * BlockSize
            IN  /\ left \in Int /\ n \in Int /\ n <= left
                /\ left > 0 /\ token_budget > 0 => n > 0
        BY <2>5, <1>a, NumNewWaitingFacts
      <3> HIDE DEF n, r
      <3> QED  BY <3>1, <2>1, <2>7, <2>8
    <2>10. ~CanAllocate(r, hits, done + n)
      BY <2>3
    <2> HIDE DEF done, n, r
    <2>11. done + n \in Nat /\ done + n < MaxModelLen
      BY <2>7, <2>8, <2>9, BlockSizes
    <2>12. hits \in IF req_to_blocks[r] = <<>> THEN GetComputedBlocks(r) \cup {<<>>} ELSE {<<>>}
      BY <2>5, <2>6 DEF r
    <2>13. status[r] # "none"
      BY <2>5
    <2> QED  BY <2>5, <2>6, <2>10, <2>11, <2>12, <2>13, <1>a, AloneProgress
  <1> QED  BY <1>0, <1>1, <1>a DEF Progress

(* A step begins with its whole budget. *)
LEMMA StartScheduleProgress ==
    ASSUME ControlInv, StartSchedule
    PROVE  Progress'
  <1>1. /\ pc' = "running" /\ req_index' = 1 /\ preempted_reqs' = {} /\ running' = running
        /\ pause_state' = "UNPAUSED" => token_budget' = MaxNumScheduledTokens
    BY DEF StartSchedule, queuevars, sleepvars
  <1>2. \A k \in DOMAIN running : k >= 1
    <2>1. DOMAIN running = 1 .. Len(running) /\ Len(running) \in Nat
      BY DEF ControlInv, ControlTypes
    <2> QED  BY <2>1
  <1> QED  BY <1>1, <1>2, SchedulerConfig DEF Progress

(* Every action of schedule() keeps its progress, and every other one is   *)
(* not in the middle of a step.                                            *)
LEMMA ProgressNext ==
    ASSUME Before, Counted, WorkInv, Next
    PROVE  Progress'
  <1> DEFINE Loops == \/ SkipRunning \/ PickRunning \/ ScheduleRunning \/ RunningDone
                      \/ PreemptVictim \/ ScheduleWaiting \/ WaitingDone
             Clients == \/ \E r \in Requests : \/ \E prompt \in Prompts : AddRequest(r, prompt)
                                               \/ AbortRequest(r)
                        \/ ResetIdleCache \/ ResetStart \/ WakeUp
                        \/ \E call \in SleepCalls : Sleep(call[1], call[2])
             Resets == \/ ResetPreempt \/ ResetFinish \/ SleepAborted \/ IdleCallback \/ FallAsleep
                       \/ \E r \in Requests : SleepAborts(r)
             Outputs == \/ Dispatch \/ DrainQueue \/ TakeResult \/ SkipOutput \/ AppendOutput
                        \/ CacheOutput \/ StopRequest
  <1>1. CASE Loops
    <2>1. InSchedule /\ UNCHANGED <<batch_queue, pause_state>>
      BY <1>1 DEF InSchedule, SkipRunning, PickRunning, ScheduleRunning, RunningDone, PreemptVictim,
                  ScheduleWaiting, WaitingDone, flightvars, sleepvars
    <2>2. CASE batch_queue = <<>> /\ pause_state = "UNPAUSED"
      <3>1. BeforeWork
        BY <2>1, <2>2 DEF BeforeWork
      <3> QED  BY <3>1, <1>1, RunningProgress, PreemptVictimProgress, ScheduleWaitingProgress,
                  WaitingDoneProgress
    <2>3. CASE ~(batch_queue = <<>> /\ pause_state = "UNPAUSED")
      BY <2>1, <2>3 DEF Progress
    <2> QED  BY <2>2, <2>3
  <1>2. CASE StartSchedule
    BY <1>2, StartScheduleProgress DEF Before
  <1>3. CASE Clients
    <2>1. ~InSchedule'
      BY <1>3 DEF InSchedule, AddRequest, AbortRequest, ResetIdleCache, ResetStart, WakeUp, Sleep
    <2> QED  BY <2>1 DEF Progress
  <1>4. CASE Resets
    <2>1. ~InSchedule'
      BY <1>4 DEF InSchedule, ResetPreempt, ResetFinish, SleepAborted, IdleCallback, FallAsleep, SleepAborts
    <2> QED  BY <2>1 DEF Progress
  <1>5. CASE Outputs
    <2>1. ~InSchedule'
      BY <1>5 DEF InSchedule, Dispatch, DrainQueue, TakeResult, SkipOutput, AppendOutput, CacheOutput,
                  StopRequest, NextOutput
    <2> QED  BY <2>1 DEF Progress
  <1> QED  BY <1>1, <1>2, <1>3, <1>4, <1>5 DEF Next, EngineStep, ClientStep

(* The same with steps that leave everything as it is. *)
LEMMA WorkStep ==
    ASSUME Supported, Counted
    PROVE  UsedInv /\ WorkInv /\ [Next]_vars => WorkInv'
  <1> SUFFICES ASSUME UsedInv, WorkInv, [Next]_vars PROVE WorkInv'
    OBVIOUS
  <1>0. Before
    BY DEF Before, UsedInv
  <1>1. CASE Next
    <2>1. \A r \in Requests : LeftToCompute(r)'
      BY <1>0, <1>1, LeftNext DEF WorkInv
    <2>2. Progress'
      BY <1>0, <1>1, ProgressNext
    <2> QED  BY <2>1, <2>2 DEF WorkInv
  <1>2. CASE UNCHANGED vars
    <2>1. /\ UNCHANGED <<status, num_computed_tokens, num_output_placeholders, all_token_ids,
                         batch_queue, pc, outputs>>
          /\ UNCHANGED <<pause_state, running, waiting, sched, req_index, token_budget, preempted_reqs>>
      BY <1>2 DEF vars, kvvars, reqvars, queuevars, stepvars, flightvars, sleepvars
    <2>2. Pending' = Pending
      BY <2>1 DEF Pending
    <2>3. \A r \in Requests : LeftToCompute(r)'
      BY <2>1, <2>2, LeftKept, ComingKept DEF WorkInv
    <2>4. Progress'
      BY <2>1 DEF WorkInv, Progress, InSchedule, Scheduled
    <2> QED  BY <2>3, <2>4 DEF WorkInv
  <1> QED  BY <1>1, <1>2

(* The inductive invariant of the work that is left: every running request *)
(* has something to compute or waits for its sample, and schedule() gets   *)
(* on with it.                                                             *)
THEOREM WorkInvariant ==
    ASSUME Supported, Counted
    PROVE  Spec => []WorkInv
  <1>1. Init => WorkInv
    BY DEF Init, WorkInv, Progress, InSchedule, LeftToCompute
  <1>2. UsedInv /\ WorkInv /\ [Next]_vars => WorkInv'
    BY WorkStep
  <1>3. Spec => []UsedInv
    BY UseInvariant DEF UsedInv
  <1> QED  BY <1>1, <1>2, <1>3, PTL DEF Spec

(* A step with work and nothing in flight schedules something: no request  *)
(* is too long for the pool, and of those that outgrow it together the     *)
(* last is not preempted.                                                  *)
THEOREM StepsProgress ==
    ASSUME Supported, Counted
    PROVE  Spec => []StepsMakeProgress
  <1>1. WorkInv => StepsMakeProgress
    BY DEF WorkInv, Progress, InSchedule, StepsMakeProgress
  <1> QED  BY <1>1, WorkInvariant, PTL
=============================================================================
