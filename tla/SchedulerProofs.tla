-------------------------- MODULE SchedulerProofs ---------------------------
(***************************************************************************)
(* Proofs about Scheduler for every number of requests and blocks, both    *)
(* policies, synchronous and asynchronous scheduling and any number of     *)
(* batches in flight: the queues of the scheduler, the requests of a step, *)
(* resumption, and sleeping workers.                                       *)
(*                                                                         *)
(* Nothing here depends on how many tokens a request has or is given, so   *)
(* numbers are only integers; SchedulerCacheProofs bounds them.            *)
(***************************************************************************)
EXTENDS Scheduler, KVCacheProofs

InSchedule == pc \in {"running", "alloc", "waiting", "dispatch"}

Entry(B) == [req : Requests, n : Int, kind : {"running", "new", "resumed"}, blocks : B]
Output == [req : Requests, pos : Int]

ControlTypes ==
    /\ status \in [Requests -> {"none", "WAITING", "RUNNING", "PREEMPTED"}]
    /\ discard_latest_async_tokens \in [Requests -> BOOLEAN]
    /\ DOMAIN req_to_blocks = Requests
    /\ running \in Seq(Requests) /\ waiting \in Seq(Requests)
    /\ prev_step_scheduled_req_ids \subseteq Requests /\ finished_req_ids \subseteq Requests
    /\ preempted_reqs \subseteq Requests
    /\ pc \in {"idle", "reset", "running", "alloc", "waiting", "dispatch", "result",
               "update", "cache", "stop", "abort", "clear"}
    /\ pause_state \in {"UNPAUSED", "PAUSED_NEW", "PAUSED_ALL"}
    /\ sleep_call \in {"none", "pause", "sleep"} /\ asleep \in BOOLEAN /\ stopped \in BOOLEAN
    /\ \E B : sched \in Seq(Entry(B))
    /\ outputs \in Seq(Output) /\ batch_queue \in Seq(Seq(Output))

NumberTypes ==
    /\ num_prompt_tokens \in [Requests -> Nat]
    /\ num_computed_tokens \in [Requests -> Int]
    /\ num_output_placeholders \in [Requests -> Int]
    /\ all_token_ids \in [Requests -> Seq(Token \cup Int)]
    /\ req_index \in Int /\ token_budget \in Int
    /\ pc = "alloc" => cur \in Requests \X Int

(* An output is processed exactly while there is one; its request has not  *)
(* ended when its token has been appended.                                 *)
BatchesInFlight ==
    /\ Len(batch_queue) <= BatchQueueSize
    /\ pc # "result" => Len(batch_queue) < BatchQueueSize
    /\ pc = "result" => batch_queue # <<>>
    /\ pc \in {"update", "cache", "stop"} <=> outputs # <<>>
    /\ pc \in {"cache", "stop"} => status[Head(outputs).req] # "none"
    /\ pc = "cache" => AsyncScheduling /\ status[Head(outputs).req] = "RUNNING"

FinishedEnded == \A r \in finished_req_ids : status[r] = "none"

(* The first loop of schedule() has the scheduled requests behind it, and  *)
(* the one it allocates for at hand.                                       *)
StepInOrder ==
    /\ sched # <<>> => InSchedule
    /\ \A i, j \in DOMAIN sched : sched[i].req = sched[j].req => i = j
    /\ Scheduled \subseteq Range(running)
    /\ Len(running) <= MaxNumRunningReqs
    /\ pc \in {"running", "alloc"} =>
          /\ req_index >= 1
          /\ \A k \in DOMAIN running : running[k] \in Scheduled => k < req_index
    /\ pc = "alloc" =>
          /\ cur[1] \in Range(running) \ Scheduled
          /\ \A k \in DOMAIN running : running[k] = cur[1] => k <= req_index

(* A request of the previous step that was preempted is not resumed before *)
(* the next one.                                                           *)
Resumptions ==
    /\ \A r \in prev_step_scheduled_req_ids : status[r] = "PREEMPTED" =>
          (InSchedule /\ r \in preempted_reqs) \/ pc \in {"reset", "clear"}
    /\ \A i \in DOMAIN sched : sched[i].kind = "resumed" =>
          sched[i].req \notin prev_step_scheduled_req_ids

(* While the workers sleep, or are about to, nothing runs. *)
Sleeping ==
    /\ sleep_call # "none" => pause_state # "UNPAUSED" \/ pc = "abort"
    /\ pc = "clear" => batch_queue = <<>> /\ pause_state # "UNPAUSED"
    /\ asleep =>
          /\ running = <<>> /\ pause_state # "UNPAUSED"
          /\ sched = <<>> /\ outputs = <<>>
          /\ \A i \in DOMAIN batch_queue : batch_queue[i] = <<>>
          /\ cached_block_hash_to_block = {}

(* No client makes a call that preempts running requests and discards what *)
(* they have in flight.                                                    *)
NeverResets == ~ResetRunningRequests /\ <<"keep", "sleep">> \notin SleepCalls

ResetPending ==
    /\ pc = "reset" => ResetRunningRequests
    /\ sleep_call = "sleep" /\ pause_state = "PAUSED_ALL" => <<"keep", "sleep">> \in SleepCalls
    /\ pc = "clear" => sleep_call = "sleep" /\ (running # <<>> => pause_state = "PAUSED_ALL")

(* One discard flag stands for one sample, so a reset may meet one sample  *)
(* of a request in flight and no more.                                     *)
DiscardsSuffice == ResetRunningRequests => BatchQueueSize <= 2

Distinct(batch) == \A i, j \in DOMAIN batch : batch[i].req = batch[j].req => i = j

PlaceholdersOf(r) ==
    /\ ~AsyncScheduling \/ status[r] = "none" => num_output_placeholders[r] = 0
    /\ status[r] = "none" => ~discard_latest_async_tokens[r]
    /\ AsyncScheduling /\ NeverResets /\ status[r] # "none" =>
          /\ num_output_placeholders[r] = SamplesInFlight(r)
          /\ ~discard_latest_async_tokens[r]
    /\ AsyncScheduling /\ DiscardsSuffice /\ status[r] # "none" =>
          /\ num_output_placeholders[r] >= 0
          /\ SamplesInFlight(r) <=
                num_output_placeholders[r] + IF discard_latest_async_tokens[r] THEN 1 ELSE 0

Placeholders ==
    /\ Distinct(outputs) /\ \A i \in DOMAIN batch_queue : Distinct(batch_queue[i])
    /\ \A r \in Requests : PlaceholdersOf(r)

ControlInv ==
    /\ ControlTypes /\ NumberTypes /\ QueuesExact /\ BatchesInFlight /\ FinishedEnded
    /\ StepInOrder /\ Resumptions /\ Sleeping /\ ResetPending /\ Placeholders
-----------------------------------------------------------------------------
(* The queues as sequences. *)

(* list.insert(i, r). *)
LEMMA InsertAtFacts ==
    ASSUME NEW S, NEW s \in Seq(S), NEW p \in 1 .. Len(s) + 1, NEW r \in S
    PROVE  /\ InsertAt(s, p, r) \in Seq(S) /\ Len(InsertAt(s, p, r)) = Len(s) + 1
           /\ DOMAIN InsertAt(s, p, r) = 1 .. Len(s) + 1
           /\ \A k \in 1 .. Len(s) + 1 :
                InsertAt(s, p, r)[k] = IF k < p THEN s[k] ELSE IF k = p THEN r ELSE s[k - 1]
  <1> DEFINE a == SubSeq(s, 1, p - 1)
             b == SubSeq(s, p, Len(s))
  <1>1. Len(s) \in Nat /\ p \in Nat /\ p >= 1 /\ p <= Len(s) + 1
    OBVIOUS
  <1>2. a \in Seq(S) /\ Len(a) = p - 1 /\ \A k \in 1 .. p - 1 : a[k] = s[k]
    BY <1>1
  <1>3. b \in Seq(S) /\ Len(b) = Len(s) - p + 1 /\ \A k \in 1 .. Len(s) - p + 1 : b[k] = s[p + k - 1]
    BY <1>1
  <1>4. InsertAt(s, p, r) = a \o <<r>> \o b
    BY DEF InsertAt
  <1> HIDE DEF a, b
  <1>5. a \o <<r>> \in Seq(S) /\ Len(a \o <<r>>) = p
        /\ \A k \in 1 .. p : (a \o <<r>>)[k] = IF k < p THEN s[k] ELSE r
    BY <1>1, <1>2
  <1> DEFINE c == a \o <<r>>
  <1> HIDE DEF c
  <1>6. c \in Seq(S) /\ Len(c) = p /\ \A k \in 1 .. p : c[k] = IF k < p THEN s[k] ELSE r
    BY <1>5 DEF c
  <1>a. p + (Len(s) - p + 1) = Len(s) + 1
    BY <1>1
  <1>b. c \o b \in Seq(S) /\ Len(c \o b) = Len(c) + Len(b)
    BY <1>3, <1>6, ConcatFacts
  <1>7. c \o b \in Seq(S) /\ Len(c \o b) = Len(s) + 1
    BY <1>a, <1>b, <1>3, <1>6
  <1>8. \A k \in 1 .. Len(s) + 1 :
            (c \o b)[k] = IF k < p THEN s[k] ELSE IF k = p THEN r ELSE s[k - 1]
    <2> TAKE k \in 1 .. Len(s) + 1
    <2>1. CASE k <= p
      BY <2>1, <1>1, <1>3, <1>6
    <2>2. CASE k > p
      <3>1. k - p \in 1 .. Len(s) - p + 1 /\ p + (k - p) - 1 = k - 1
        BY <2>2, <1>1
      <3>2. (c \o b)[k] = b[k - p]
        BY <2>2, <1>1, <1>3, <1>6, SMTT(30)
      <3> QED  BY <3>1, <3>2, <1>3, <2>2
    <2>3. k <= p \/ k > p
      BY <1>1
    <2> QED  BY <2>1, <2>2, <2>3
  <1> QED  BY <1>4, <1>7, <1>8 DEF c

(* Removing a request from a queue: nobody else leaves, and those behind   *)
(* it move forward.                                                        *)
LEMMA RemoveFromFacts ==
    ASSUME NEW S, NEW q \in Seq(S), IsInjective(q), NEW r
    PROVE  LET left == RemoveFrom(q, r)
           IN  /\ left \in Seq(S) /\ IsInjective(left) /\ Range(left) = Range(q) \ {r}
               /\ Len(left) <= Len(q)
               /\ \A k \in DOMAIN left : \E j \in DOMAIN q : q[j] = left[k] /\ k <= j
               /\ \A p \in DOMAIN q : q[p] = r =>
                    \A k \in DOMAIN left : \E j \in DOMAIN q :
                        q[j] = left[k] /\ k <= j /\ (j > p => k < j)
  <1> DEFINE left == RemoveFrom(q, r)
  <1>1. DOMAIN q = 1 .. Len(q) /\ Len(q) \in Nat
    OBVIOUS
  <1>2. CASE r \notin Range(q)
    <2>1. left = q
      BY <1>2 DEF RemoveFrom
    <2>2. \A p \in DOMAIN q : q[p] # r
      BY <1>2 DEF Range
    <2> QED  BY <2>1, <2>2, <1>1, <1>2 DEF Range
  <1>3. CASE r \in Range(q)
    <2> DEFINE p == CHOOSE i \in DOMAIN q : q[i] = r
    <2>1. p \in 1 .. Len(q) /\ q[p] = r
      BY <1>1, <1>3 DEF Range
    <2>2. left = RemoveAt(q, p)
      BY <1>3 DEF RemoveFrom
    <2> HIDE DEF p
    <2>a. /\ RemoveAt(q, p) \in Seq(S) /\ Len(RemoveAt(q, p)) = Len(q) - 1
          /\ DOMAIN RemoveAt(q, p) = 1 .. Len(q) - 1
          /\ \A k \in 1 .. Len(q) - 1 : RemoveAt(q, p)[k] = IF k < p THEN q[k] ELSE q[k + 1]
      BY <2>1, RemoveAtFacts
    <2> HIDE DEF left
    <2>3. /\ left \in Seq(S) /\ Len(left) = Len(q) - 1 /\ DOMAIN left = 1 .. Len(q) - 1
          /\ \A k \in 1 .. Len(q) - 1 : left[k] = IF k < p THEN q[k] ELSE q[k + 1]
      BY <2>a, <2>2
    <2> DEFINE from(k) == IF k < p THEN k ELSE k + 1
    <2>4. \A k \in 1 .. Len(q) - 1 :
              /\ from(k) \in 1 .. Len(q) /\ from(k) # p /\ left[k] = q[from(k)]
              /\ k <= from(k) /\ (from(k) > p => k < from(k))
      BY <2>1, <2>3, <1>1
    <2>5. \A j, k \in 1 .. Len(q) - 1 : from(j) = from(k) => j = k
      BY <2>1, <1>1
    <2>6. \A j \in 1 .. Len(q) : j # p => \E k \in 1 .. Len(q) - 1 : from(k) = j
      <3> TAKE j \in 1 .. Len(q)
      <3> HAVE j # p
      <3>1. CASE j < p
        BY <3>1, <2>1, <1>1
      <3>2. CASE j > p
        <4>1. j - 1 \in 1 .. Len(q) - 1 /\ from(j - 1) = j
          BY <3>2, <2>1, <1>1
        <4> QED  BY <4>1
      <3> QED  BY <3>1, <3>2, <2>1
    <2> HIDE DEF from
    <2>7. IsInjective(left)
      BY <2>3, <2>4, <2>5, <1>1 DEF IsInjective
    <2>8. \A j \in 1 .. Len(q) : q[j] = r => j = p
      BY <2>1, <1>1 DEF IsInjective
    <2>9. Range(left) = Range(q) \ {r}
      <3>1. ASSUME NEW x \in Range(left) PROVE x \in Range(q) /\ x # r
        <4>1. PICK k \in 1 .. Len(q) - 1 : x = left[k]
          BY <2>3 DEF Range
        <4> QED  BY <4>1, <2>4, <2>8, <1>1 DEF Range
      <3>2. ASSUME NEW x \in Range(q), x # r PROVE x \in Range(left)
        <4>1. PICK j \in 1 .. Len(q) : x = q[j]
          BY <1>1 DEF Range
        <4>2. PICK k \in 1 .. Len(q) - 1 : from(k) = j
          BY <4>1, <3>2, <2>1, <2>6
        <4> QED  BY <4>1, <4>2, <2>3, <2>4 DEF Range
      <3> QED  BY <3>1, <3>2
    <2>10. \A k \in DOMAIN left : \E j \in DOMAIN q : q[j] = left[k] /\ k <= j /\ (j > p => k < j)
      BY <2>3, <2>4, <1>1
    <2> QED  BY <2>3, <2>7, <2>8, <2>9, <2>10, <1>1 DEF left
  <1> QED  BY <1>2, <1>3

(* deque.append, for a request that is not in the queue. *)
LEMMA AppendFacts ==
    ASSUME NEW S, NEW q \in Seq(S), IsInjective(q), NEW r \in S \ Range(q)
    PROVE  /\ Append(q, r) \in Seq(S) /\ IsInjective(Append(q, r))
           /\ Range(Append(q, r)) = Range(q) \cup {r}
           /\ Len(Append(q, r)) = Len(q) + 1
           /\ DOMAIN Append(q, r) = 1 .. Len(q) + 1
           /\ \A k \in 1 .. Len(q) + 1 : Append(q, r)[k] = IF k = Len(q) + 1 THEN r ELSE q[k]
  <1>1. DOMAIN q = 1 .. Len(q) /\ Len(q) \in Nat
    OBVIOUS
  <1>2. /\ Append(q, r) \in Seq(S) /\ Len(Append(q, r)) = Len(q) + 1
        /\ DOMAIN Append(q, r) = 1 .. Len(q) + 1
        /\ \A k \in 1 .. Len(q) + 1 : Append(q, r)[k] = IF k = Len(q) + 1 THEN r ELSE q[k]
    BY <1>1
  <1>3. \A k \in 1 .. Len(q) : q[k] # r
    BY <1>1 DEF Range
  <1>4. IsInjective(Append(q, r))
    BY <1>1, <1>2, <1>3 DEF IsInjective
  <1>5. Len(q) + 1 \in 1 .. Len(q) + 1 /\ \A k \in 1 .. Len(q) : k \in 1 .. Len(q) + 1 /\ k # Len(q) + 1
    BY <1>1
  <1>6. Range(Append(q, r)) = Range(q) \cup {r}
    BY <1>1, <1>2, <1>5 DEF Range
  <1> QED  BY <1>2, <1>4, <1>6

(* deque.popleft. *)
LEMMA TailFacts ==
    ASSUME NEW S, NEW q \in Seq(S), IsInjective(q), q # <<>>
    PROVE  /\ Tail(q) \in Seq(S) /\ IsInjective(Tail(q)) /\ Head(q) \in Range(q)
           /\ Range(Tail(q)) = Range(q) \ {Head(q)}
  <1>1. /\ DOMAIN q = 1 .. Len(q) /\ Len(q) \in Nat /\ Len(q) >= 1 /\ Head(q) = q[1]
        /\ Tail(q) \in Seq(S) /\ DOMAIN Tail(q) = 1 .. Len(q) - 1
        /\ \A k \in 1 .. Len(q) - 1 : Tail(q)[k] = q[k + 1]
    OBVIOUS
  <1>2. /\ 1 \in 1 .. Len(q) /\ \A k \in 1 .. Len(q) - 1 : k + 1 \in 1 .. Len(q) /\ k + 1 # 1
        /\ \A k \in 1 .. Len(q) : k # 1 => k - 1 \in 1 .. Len(q) - 1 /\ (k - 1) + 1 = k
        /\ \A j, k \in 1 .. Len(q) - 1 : j + 1 = k + 1 => j = k
    BY <1>1
  <1>3. IsInjective(Tail(q))
    BY <1>1, <1>2 DEF IsInjective
  <1>4. \A k \in 1 .. Len(q) : q[k] = Head(q) => k = 1
    BY <1>1, <1>2 DEF IsInjective
  <1>5. Range(Tail(q)) = Range(q) \ {Head(q)}
    <2>1. ASSUME NEW x \in Range(Tail(q)) PROVE x \in Range(q) /\ x # Head(q)
      <3>1. PICK k \in 1 .. Len(q) - 1 : x = q[k + 1]
        BY <1>1 DEF Range
      <3> QED  BY <3>1, <1>1, <1>2, <1>4 DEF Range
    <2>2. ASSUME NEW x \in Range(q), x # Head(q) PROVE x \in Range(Tail(q))
      <3>1. PICK k \in 1 .. Len(q) : x = q[k]
        BY <1>1 DEF Range
      <3>2. k # 1
        BY <3>1, <2>2, <1>1
      <3>3. k - 1 \in 1 .. Len(q) - 1 /\ Tail(q)[k - 1] = x
        BY <3>1, <3>2, <1>1, <1>2
      <3> QED  BY <3>3, <1>1 DEF Range
    <2> QED  BY <2>1, <2>2
  <1>6. Head(q) \in Range(q)
    BY <1>1, <1>2 DEF Range
  <1> QED  BY <1>1, <1>3, <1>5, <1>6

(* list.pop() of the last request. *)
LEMMA FrontFacts ==
    ASSUME NEW S, NEW q \in Seq(S), IsInjective(q), q # <<>>
    PROVE  /\ Front(q) \in Seq(S) /\ IsInjective(Front(q)) /\ Last(q) \in Range(q)
           /\ Range(Front(q)) = Range(q) \ {Last(q)} /\ Len(Front(q)) <= Len(q)
           /\ \A k \in DOMAIN Front(q) : k \in DOMAIN q /\ Front(q)[k] = q[k]
  <1>1. DOMAIN q = 1 .. Len(q) /\ Len(q) \in Nat /\ Len(q) >= 1
    OBVIOUS
  <1>2. Len(q) - 1 \in Nat /\ Len(q) \in 1 .. Len(q) /\ Last(q) = q[Len(q)]
    BY <1>1 DEF Last
  <1>3. /\ Front(q) \in Seq(S) /\ DOMAIN Front(q) = 1 .. Len(q) - 1 /\ Len(Front(q)) = Len(q) - 1
        /\ \A k \in 1 .. Len(q) - 1 : Front(q)[k] = q[k]
    BY <1>1, <1>2 DEF Front
  <1>4. /\ \A k \in 1 .. Len(q) - 1 : k \in 1 .. Len(q) /\ k # Len(q)
        /\ \A k \in 1 .. Len(q) : k # Len(q) => k \in 1 .. Len(q) - 1
    BY <1>1, IntervalFacts
  <1>5. \A k \in 1 .. Len(q) : q[k] = Last(q) => k = Len(q)
    BY <1>1, <1>2 DEF IsInjective
  <1>6. IsInjective(Front(q))
    BY <1>1, <1>3, <1>4 DEF IsInjective
  <1>7. Range(Front(q)) = Range(q) \ {Last(q)}
    <2>1. ASSUME NEW x \in Range(Front(q)) PROVE x \in Range(q) /\ x # Last(q)
      BY <1>1, <1>3, <1>4, <1>5 DEF Range
    <2>2. ASSUME NEW x \in Range(q), x # Last(q) PROVE x \in Range(Front(q))
      BY <2>2, <1>1, <1>2, <1>3, <1>4 DEF Range
    <2> QED  BY <2>1, <2>2
  <1>8. Last(q) \in Range(q)
    BY <1>1, <1>2 DEF Range
  <1>9. Len(Front(q)) <= Len(q)
    BY <1>1, <1>3
  <1> QED  BY <1>1, <1>3, <1>4, <1>6, <1>7, <1>8, <1>9

(* Inserting a request anywhere in a queue that does not have it. *)
LEMMA InsertFacts ==
    ASSUME NEW S, NEW q \in Seq(S), IsInjective(q), NEW r \in S \ Range(q),
           NEW p \in 1 .. Len(q) + 1
    PROVE  /\ InsertAt(q, p, r) \in Seq(S) /\ IsInjective(InsertAt(q, p, r))
           /\ Range(InsertAt(q, p, r)) = Range(q) \cup {r}
  <1> DEFINE new == InsertAt(q, p, r)
  <1>1. DOMAIN q = 1 .. Len(q) /\ Len(q) \in Nat /\ p \in Nat /\ p >= 1 /\ p <= Len(q) + 1
    OBVIOUS
  <1>2. /\ new \in Seq(S) /\ DOMAIN new = 1 .. Len(q) + 1
        /\ \A k \in 1 .. Len(q) + 1 :
              new[k] = IF k < p THEN q[k] ELSE IF k = p THEN r ELSE q[k - 1]
    <2>1. /\ InsertAt(q, p, r) \in Seq(S) /\ DOMAIN InsertAt(q, p, r) = 1 .. Len(q) + 1
          /\ \A k \in 1 .. Len(q) + 1 :
                InsertAt(q, p, r)[k] = IF k < p THEN q[k] ELSE IF k = p THEN r ELSE q[k - 1]
      BY InsertAtFacts
    <2> QED  BY <2>1
  <1> HIDE DEF new
  <1> DEFINE from(k) == IF k < p THEN k ELSE k - 1
  <1>3. \A k \in 1 .. Len(q) + 1 : k # p => from(k) \in 1 .. Len(q) /\ new[k] = q[from(k)]
    BY <1>1, <1>2
  <1>4. new[p] = r /\ p \in 1 .. Len(q) + 1
    BY <1>1, <1>2
  <1>5. \A j, k \in 1 .. Len(q) + 1 : j # p /\ k # p /\ from(j) = from(k) => j = k
    BY <1>1
  <1>6. \A j \in 1 .. Len(q) : \E k \in 1 .. Len(q) + 1 : k # p /\ from(k) = j
    <2> TAKE j \in 1 .. Len(q)
    <2>1. CASE j < p
      BY <2>1, <1>1
    <2>2. CASE j >= p
      <3>1. j + 1 \in 1 .. Len(q) + 1 /\ j + 1 # p /\ from(j + 1) = j
        BY <2>2, <1>1
      <3> QED  BY <3>1
    <2> QED  BY <2>1, <2>2, <1>1
  <1> HIDE DEF from
  <1>7. \A j \in 1 .. Len(q) : q[j] # r
    BY <1>1 DEF Range
  <1>8. IsInjective(new)
    BY <1>1, <1>2, <1>3, <1>4, <1>5, <1>7 DEF IsInjective
  <1>9. Range(new) = Range(q) \cup {r}
    <2>1. ASSUME NEW x \in Range(new) PROVE x \in Range(q) \cup {r}
      <3>1. PICK k \in 1 .. Len(q) + 1 : x = new[k]
        BY <1>2 DEF Range
      <3> QED  BY <3>1, <1>1, <1>3, <1>4 DEF Range
    <2>2. ASSUME NEW x \in Range(q) PROVE x \in Range(new)
      <3>1. PICK j \in 1 .. Len(q) : x = q[j]
        BY <1>1 DEF Range
      <3>2. PICK k \in 1 .. Len(q) + 1 : k # p /\ from(k) = j
        BY <1>6
      <3> QED  BY <3>1, <3>2, <1>2, <1>3 DEF Range
    <2>3. r \in Range(new)
      BY <1>2, <1>4 DEF Range
    <2> QED  BY <2>1, <2>2, <2>3
  <1> QED  BY <1>2, <1>8, <1>9 DEF new

(* What enters the waiting queue, under either policy. *)
LEMMA WaitingGains ==
    ASSUME NEW q \in Seq(Requests), IsInjective(q), NEW r \in Requests \ Range(q),
           NEW new \in {AddRequestTo(q, r), PrependRequest(q, r)}
    PROVE  new \in Seq(Requests) /\ IsInjective(new) /\ Range(new) = Range(q) \cup {r}
  <1>1. DOMAIN q = 1 .. Len(q) /\ Len(q) \in Nat
    OBVIOUS
  <1>2. CASE new = Append(q, r)
    BY <1>2, AppendFacts
  <1>3. CASE new = InsertByRank(q, r)
    <2> DEFINE before == {i \in DOMAIN q : Rank[q[i]] < Rank[r]}
    <2>1. before \in SUBSET (1 .. Len(q)) /\ IsFiniteSet(1 .. Len(q)) /\ Cardinality(1 .. Len(q)) = Len(q)
      BY <1>1, IntervalFacts
    <2> HIDE DEF before
    <2>2. Cardinality(before) \in Nat /\ Cardinality(before) <= Len(q)
      BY <2>1, FS_Subset, FS_CardinalityType
    <2>3. Cardinality(before) + 1 \in 1 .. Len(q) + 1
      BY <2>2, <1>1
    <2>4. new = InsertAt(q, Cardinality(before) + 1, r)
      BY <1>3 DEF InsertByRank, before
    <2> QED  BY <2>3, <2>4, InsertFacts
  <1>4. CASE new = <<r>> \o q
    <2>1. <<r>> \in Seq(Requests) /\ IsInjective(<<r>>) /\ Range(<<r>>) = {r}
      BY DEF IsInjective, Range
    <2>2. Range(<<r>>) \cap Range(q) = {}
      BY <2>1
    <2>3. /\ <<r>> \o q \in Seq(Requests) /\ IsInjective(<<r>> \o q)
          /\ Range(<<r>> \o q) = Range(<<r>>) \cup Range(q)
      <3> DEFINE one == <<r>>
      <3>1. one \in Seq(Requests) /\ IsInjective(one) /\ Range(one) \cap Range(q) = {}
        BY <2>1, <2>2
      <3> HIDE DEF one
      <3>2. /\ one \o q \in Seq(Requests) /\ IsInjective(one \o q)
            /\ Range(one \o q) = Range(one) \cup Range(q)
        BY <3>1, ConcatInjective
      <3> QED  BY <3>2 DEF one
    <2> QED  BY <2>1, <2>3, <1>4
  <1> QED  BY <1>2, <1>3, <1>4 DEF AddRequestTo, PrependRequest

-----------------------------------------------------------------------------
(* Counting the samples in flight. *)

Pending == IF pc \in {"cache", "stop"} THEN Tail(outputs) ELSE outputs
BatchesOf(queue, r) == {i \in DOMAIN queue : Samples(queue[i], r)}
One(b) == IF b THEN 1 ELSE 0

(* The samples of a request are those of the result at hand and those of   *)
(* the batches behind it.                                                  *)
LEMMA SamplesSplit ==
    ASSUME NEW r
    PROVE  SamplesInFlight(r) = Cardinality(BatchesOf(batch_queue, r)) + One(Samples(Pending, r))
  BY DEF SamplesInFlight, BatchesOf, Pending, One

(* No request is sampled in more batches than there are. *)
LEMMA BatchesCounted ==
    ASSUME NEW B, NEW queue \in Seq(B), NEW r
    PROVE  /\ IsFiniteSet(BatchesOf(queue, r)) /\ Cardinality(BatchesOf(queue, r)) \in Nat
           /\ Cardinality(BatchesOf(queue, r)) <= Len(queue)
  <1>1. DOMAIN queue = 1 .. Len(queue) /\ Len(queue) \in Nat
    OBVIOUS
  <1>2. BatchesOf(queue, r) \in SUBSET (1 .. Len(queue))
    BY <1>1 DEF BatchesOf
  <1>3. IsFiniteSet(1 .. Len(queue)) /\ Cardinality(1 .. Len(queue)) = Len(queue)
    BY <1>1, IntervalFacts
  <1> QED  BY <1>2, <1>3, FS_Subset, FS_CardinalityType

(* A dispatched batch adds its own samples. *)
LEMMA BatchesAppend ==
    ASSUME NEW B, NEW queue \in Seq(B), NEW batch \in B, NEW r
    PROVE  Cardinality(BatchesOf(Append(queue, batch), r))
              = Cardinality(BatchesOf(queue, r)) + One(Samples(batch, r))
  <1> DEFINE new == Append(queue, batch)
             last == Len(queue) + 1
  <1>1. /\ DOMAIN queue = 1 .. Len(queue) /\ Len(queue) \in Nat
        /\ DOMAIN new = 1 .. last /\ \A k \in 1 .. last : new[k] = IF k = last THEN batch ELSE queue[k]
    OBVIOUS
  <1>2. last \notin 1 .. Len(queue) /\ 1 .. last = (1 .. Len(queue)) \cup {last}
    BY <1>1
  <1> HIDE DEF new, last
  <1>3. BatchesOf(new, r) = BatchesOf(queue, r) \cup (IF Samples(batch, r) THEN {last} ELSE {})
    BY <1>1, <1>2 DEF BatchesOf
  <1>4. last \notin BatchesOf(queue, r)
    BY <1>1, <1>2 DEF BatchesOf
  <1>5. IsFiniteSet(BatchesOf(queue, r)) /\ Cardinality(BatchesOf(queue, r)) \in Nat
    BY BatchesCounted
  <1>6. CASE Samples(batch, r)
    <2>1. BatchesOf(new, r) = BatchesOf(queue, r) \cup {last}
      BY <1>3, <1>6
    <2>2. Cardinality(BatchesOf(queue, r) \cup {last}) = Cardinality(BatchesOf(queue, r)) + 1
      BY <1>4, <1>5, FS_AddElement
    <2> QED  BY <2>1, <2>2, <1>6 DEF One, new
  <1>7. CASE ~Samples(batch, r)
    <2>1. BatchesOf(new, r) = BatchesOf(queue, r)
      BY <1>3, <1>7
    <2> QED  BY <2>1, <1>5, <1>7 DEF One, new
  <1> QED  BY <1>6, <1>7

(* The oldest batch leaves with its samples. *)
LEMMA BatchesTail ==
    ASSUME NEW B, NEW queue \in Seq(B), queue # <<>>, NEW r
    PROVE  Cardinality(BatchesOf(queue, r))
              = Cardinality(BatchesOf(Tail(queue), r)) + One(Samples(Head(queue), r))
  <1> DEFINE left == Tail(queue)
             S == BatchesOf(left, r)
             T == BatchesOf(queue, r) \ {1}
             f == [i \in S |-> i + 1]
  <1>1. /\ DOMAIN queue = 1 .. Len(queue) /\ Len(queue) \in Nat /\ Len(queue) >= 1
        /\ Head(queue) = queue[1] /\ left \in Seq(B)
        /\ DOMAIN left = 1 .. Len(queue) - 1 /\ \A k \in 1 .. Len(queue) - 1 : left[k] = queue[k + 1]
    OBVIOUS
  <1>2. /\ 1 \in 1 .. Len(queue) /\ \A k \in 1 .. Len(queue) - 1 : k + 1 \in 1 .. Len(queue) /\ k + 1 # 1
        /\ \A k \in 1 .. Len(queue) : k # 1 => k - 1 \in 1 .. Len(queue) - 1 /\ (k - 1) + 1 = k
        /\ \A j, k \in 1 .. Len(queue) - 1 : j + 1 = k + 1 => j = k
    BY <1>1
  <1>3. IsFiniteSet(S) /\ IsFiniteSet(BatchesOf(queue, r)) /\ Cardinality(S) \in Nat
        /\ Cardinality(BatchesOf(queue, r)) \in Nat
    BY <1>1, BatchesCounted
  <1>4. S \subseteq 1 .. Len(queue) - 1 /\ \A i \in S : i + 1 \in T
    BY <1>1, <1>2 DEF BatchesOf
  <1>5. \A k \in T : \E i \in S : i + 1 = k
    <2> TAKE k \in T
    <2>1. k \in 1 .. Len(queue) /\ k # 1 /\ Samples(queue[k], r)
      BY <1>1 DEF BatchesOf
    <2>2. k - 1 \in 1 .. Len(queue) - 1 /\ (k - 1) + 1 = k
      BY <2>1, <1>2
    <2>3. left[k - 1] = queue[k]
      BY <2>2, <1>1
    <2>4. k - 1 \in S
      BY <2>1, <2>2, <2>3, <1>1 DEF BatchesOf
    <2> QED  BY <2>2, <2>4
  <1> HIDE DEF S, T, left
  <1>6. f \in Bijection(S, T)
    <2>1. f \in [S -> T]
      BY <1>4
    <2>2. \A i, j \in S : f[i] = f[j] => i = j
      BY <1>2, <1>4
    <2>3. \A k \in T : \E i \in S : f[i] = k
      BY <1>5
    <2> QED  BY <2>1, <2>2, <2>3 DEF Bijection, Injection, Surjection, IsInjective
  <1>7. Cardinality(S) = Cardinality(T)
    BY <1>3, <1>6, FS_Bijection DEF ExistsBijection
  <1>8. Cardinality(T) = IF 1 \in BatchesOf(queue, r) THEN Cardinality(BatchesOf(queue, r)) - 1
                                                      ELSE Cardinality(BatchesOf(queue, r))
    BY <1>3, FS_RemoveElement DEF T
  <1>9. 1 \in BatchesOf(queue, r) <=> Samples(Head(queue), r)
    BY <1>1, <1>2 DEF BatchesOf
  <1> QED  BY <1>3, <1>7, <1>8, <1>9 DEF One, S, left

(* Of the entries of a result the first is the only one of its request. *)
LEMMA ResultTail ==
    ASSUME NEW batch \in Seq(Output), batch # <<>>, Distinct(batch)
    PROVE  /\ Tail(batch) \in Seq(Output) /\ Head(batch) \in Output /\ Distinct(Tail(batch))
           /\ ~Samples(Tail(batch), Head(batch).req)
           /\ \A r : Samples(batch, r) <=>
                        \/ r = Head(batch).req /\ Head(batch).pos # 0
                        \/ Samples(Tail(batch), r)
  <1> DEFINE left == Tail(batch)
  <1>1. /\ DOMAIN batch = 1 .. Len(batch) /\ Len(batch) \in Nat /\ Len(batch) >= 1
        /\ Head(batch) = batch[1] /\ left \in Seq(Output) /\ Head(batch) \in Output
        /\ DOMAIN left = 1 .. Len(batch) - 1 /\ \A k \in 1 .. Len(batch) - 1 : left[k] = batch[k + 1]
    OBVIOUS
  <1>2. /\ 1 \in 1 .. Len(batch) /\ \A k \in 1 .. Len(batch) - 1 : k + 1 \in 1 .. Len(batch) /\ k + 1 # 1
        /\ \A k \in 1 .. Len(batch) : k # 1 => k - 1 \in 1 .. Len(batch) - 1 /\ (k - 1) + 1 = k
        /\ \A j, k \in 1 .. Len(batch) - 1 : j + 1 = k + 1 => j = k
    BY <1>1
  <1> HIDE DEF left
  <1>3. Distinct(left)
    BY <1>1, <1>2, SMTT(30) DEF Distinct
  <1>4. ~Samples(left, Head(batch).req)
    BY <1>1, <1>2 DEF Distinct, Samples
  <1>5. ASSUME NEW r PROVE Samples(left, r) => Samples(batch, r)
    BY <1>1, <1>2 DEF Samples
  <1>6. ASSUME NEW r, Samples(batch, r)
        PROVE  (r = Head(batch).req /\ Head(batch).pos # 0) \/ Samples(left, r)
    <2>1. PICK k \in 1 .. Len(batch) : batch[k].req = r /\ batch[k].pos # 0
      BY <1>1, <1>6 DEF Samples
    <2>2. CASE k = 1
      BY <2>1, <2>2, <1>1
    <2>3. CASE k # 1
      <3>1. k - 1 \in DOMAIN left /\ left[k - 1] = batch[k]
        BY <2>1, <2>3, <1>1, <1>2
      <3> QED  BY <2>1, <3>1 DEF Samples
    <2> QED  BY <2>2, <2>3
  <1>7. ASSUME NEW r, r = Head(batch).req, Head(batch).pos # 0 PROVE Samples(batch, r)
    BY <1>1, <1>2, <1>7 DEF Samples
  <1> QED  BY <1>1, <1>3, <1>4, <1>5, <1>6, <1>7 DEF left

-----------------------------------------------------------------------------
(* min(a, b, c) of the code. *)
LEMMA MinOfThree ==
    ASSUME NEW a \in Int, NEW b \in Int, NEW c \in Int
    PROVE  /\ Min({a, b, c}) \in {a, b, c}
           /\ Min({a, b, c}) <= a /\ Min({a, b, c}) <= b /\ Min({a, b, c}) <= c
  <1> DEFINE S == {a, b, c}
  <1>1. \E m \in S : \A x \in S : m <= x
    <2>1. CASE a <= b /\ a <= c
      BY <2>1
    <2>2. CASE b <= a /\ b <= c
      BY <2>2
    <2>3. CASE c <= a /\ c <= b
      BY <2>3
    <2> QED  BY <2>1, <2>2, <2>3
  <1>2. Min(S) \in S /\ \A x \in S : Min(S) <= x
    BY <1>1 DEF Min
  <1> QED  BY <1>2

(* What the first loop of schedule() gives a running request. *)
LEMMA NumNewTokensFacts ==
    ASSUME NumberTypes, NEW r \in Requests
    PROVE  LET left == NumTokens(r) + num_output_placeholders[r] - num_computed_tokens[r]
           IN  /\ NumTokens(r) \in Nat /\ left \in Int
               /\ Capped(left) \in Int /\ Capped(left) <= left
               /\ left > 0 => Capped(left) > 0
               /\ left = 0 => Capped(left) = 0
               /\ NumNewTokens(r) \in {Capped(left), token_budget,
                                       MaxModelLen - 1 - num_computed_tokens[r]}
               /\ NumNewTokens(r) \in Int /\ NumNewTokens(r) <= left /\ NumNewTokens(r) <= token_budget
               /\ NumNewTokens(r) <= MaxModelLen - 1 - num_computed_tokens[r]
  <1> DEFINE left == NumTokens(r) + num_output_placeholders[r] - num_computed_tokens[r]
             room == MaxModelLen - 1 - num_computed_tokens[r]
  <1>1. NumTokens(r) \in Nat
    BY DEF NumberTypes, NumTokens
  <1>2. left \in Int /\ room \in Int /\ token_budget \in Int
    BY <1>1, BlockSizes DEF NumberTypes
  <1>3. NumNewTokens(r) = Min({Capped(left), token_budget, room})
    BY DEF NumNewTokens
  <1> HIDE DEF left, room
  <1>4. /\ Capped(left) \in Int /\ Capped(left) <= left
        /\ left > 0 => Capped(left) > 0
        /\ left = 0 => Capped(left) = 0
    BY <1>2, SchedulerConfig DEF Capped
  <1>a. LET least == Min({Capped(left), token_budget, room})
        IN  /\ least \in {Capped(left), token_budget, room}
            /\ least <= Capped(left) /\ least <= token_budget /\ least <= room
    <2> HIDE DEF Capped
    <2> QED  BY <1>2, <1>4, MinOfThree
  <1>5. /\ NumNewTokens(r) \in {Capped(left), token_budget, room}
        /\ NumNewTokens(r) <= Capped(left) /\ NumNewTokens(r) <= token_budget /\ NumNewTokens(r) <= room
    BY <1>3, <1>a
  <1>6. NumNewTokens(r) \in Int /\ NumNewTokens(r) <= left
    BY <1>2, <1>4, <1>5
  <1> QED  BY <1>1, <1>2, <1>4, <1>5, <1>6 DEF left, room

(* What most steps of the thread leave alone. *)
Requesting == <<status, num_prompt_tokens, num_computed_tokens, num_output_placeholders,
                discard_latest_async_tokens, all_token_ids, req_to_blocks, running, waiting,
                finished_req_ids>>

(* Nothing happens to requests and queues. *)
LEMMA RequestingKept ==
    ASSUME ControlInv, UNCHANGED Requesting
    PROVE  QueuesExact' /\ FinishedEnded'
  BY DEF ControlInv, QueuesExact, FinishedEnded, Requesting

(* Nothing happens to the samples in flight. *)
LEMMA PlaceholdersKept ==
    ASSUME Placeholders, UNCHANGED <<status, num_output_placeholders, discard_latest_async_tokens,
                                     outputs, batch_queue>>,
           pc \in {"cache", "stop"} <=> pc' \in {"cache", "stop"}
    PROVE  Placeholders'
  <1>1. \A r \in Requests : SamplesInFlight(r)' = SamplesInFlight(r)
    BY DEF SamplesInFlight, Samples
  <1> QED  BY <1>1 DEF PlaceholdersOf, Placeholders, Distinct

(* reset_prefix_cache with nothing running. *)
LEMMA ResetIdleCacheInv ==
    ASSUME ControlInv, ResetIdleCache
    PROVE  ControlInv'
  <1> USE DEF ResetIdleCache, Reset, ResetPrefixCache, kvvars, poolvars, tablevars, reqvars, queuevars, stepvars, flightvars,
              workervars, sleepvars
  <1>0. UNCHANGED Requesting /\ UNCHANGED <<batch_queue, outputs, stopped>>
    BY DEF Requesting
  <1>1. ControlTypes'
    BY <1>0 DEF ControlInv, ControlTypes, Requesting
  <1>2. NumberTypes'
    BY <1>0 DEF ControlInv, NumberTypes, Requesting
  <1>3. BatchesInFlight'
    BY <1>0 DEF ControlInv, BatchesInFlight, Requesting
  <1>4. StepInOrder'
    BY <1>0 DEF ControlInv, StepInOrder, InSchedule, Scheduled, Requesting
  <1>5. Resumptions'
    BY <1>0 DEF ControlInv, Resumptions, InSchedule, Requesting
  <1>6. Sleeping'
    BY <1>0 DEF ControlInv, Sleeping, Requesting
  <1>7. ResetPending'
    BY <1>0 DEF ControlInv, ResetPending, Requesting
  <1>8. Placeholders'
    BY <1>0, PlaceholdersKept DEF ControlInv, Requesting
  <1> QED  BY <1>0, <1>1, <1>2, <1>3, <1>4, <1>5, <1>6, <1>7, <1>8, RequestingKept DEF ControlInv

(* reset_prefix_cache with running requests begins. *)
LEMMA ResetStartInv ==
    ASSUME ControlInv, ResetStart
    PROVE  ControlInv'
  <1> USE DEF ResetStart, kvvars, poolvars, tablevars, reqvars, queuevars, stepvars, flightvars,
              workervars, sleepvars
  <1>0. UNCHANGED Requesting /\ UNCHANGED <<batch_queue, outputs, stopped>>
    BY DEF Requesting
  <1>1. ControlTypes'
    BY <1>0 DEF ControlInv, ControlTypes, Requesting
  <1>2. NumberTypes'
    BY <1>0 DEF ControlInv, NumberTypes, Requesting
  <1>3. BatchesInFlight'
    BY <1>0 DEF ControlInv, BatchesInFlight, Requesting
  <1>4. StepInOrder'
    BY <1>0 DEF ControlInv, StepInOrder, InSchedule, Scheduled, Requesting
  <1>5. Resumptions'
    BY <1>0 DEF ControlInv, Resumptions, InSchedule, Requesting
  <1>6. Sleeping'
    BY <1>0 DEF ControlInv, Sleeping, Requesting
  <1>7. ResetPending'
    BY <1>0 DEF ControlInv, ResetPending, Requesting
  <1>8. Placeholders'
    BY <1>0, PlaceholdersKept DEF ControlInv, Requesting
  <1> QED  BY <1>0, <1>1, <1>2, <1>3, <1>4, <1>5, <1>6, <1>7, <1>8, RequestingKept DEF ControlInv

(* pause_scheduler in its three modes. *)
LEMMA SleepInv ==
    ASSUME ControlInv, NEW mode, NEW level, <<mode, level>> \in SleepCalls, Sleep(mode, level)
    PROVE  ControlInv'
  <1> USE DEF Sleep, kvvars, poolvars, tablevars, reqvars, queuevars, stepvars, flightvars,
              workervars, sleepvars
  <1>0. UNCHANGED Requesting /\ UNCHANGED <<batch_queue, outputs, stopped>>
    BY DEF Requesting
  <1>1. ControlTypes'
    BY <1>0, SchedulerConfig DEF ControlInv, ControlTypes, Requesting
  <1>2. NumberTypes'
    BY <1>0 DEF ControlInv, NumberTypes, Requesting
  <1>3. BatchesInFlight'
    BY <1>0 DEF ControlInv, BatchesInFlight, Requesting
  <1>4. StepInOrder'
    BY <1>0 DEF ControlInv, StepInOrder, InSchedule, Scheduled, Requesting
  <1>5. Resumptions'
    BY <1>0 DEF ControlInv, Resumptions, InSchedule, Requesting
  <1>6. Sleeping'
    BY <1>0 DEF ControlInv, Sleeping, Requesting
  <1>7. ResetPending'
    BY <1>0 DEF ControlInv, ResetPending, Requesting
  <1>8. Placeholders'
    BY <1>0, PlaceholdersKept DEF ControlInv, Requesting
  <1> QED  BY <1>0, <1>1, <1>2, <1>3, <1>4, <1>5, <1>6, <1>7, <1>8, RequestingKept DEF ControlInv

(* All requests are aborted; new ones are held back. *)
LEMMA SleepAbortedInv ==
    ASSUME ControlInv, SleepAborted
    PROVE  ControlInv'
  <1> USE DEF SleepAborted, kvvars, poolvars, tablevars, reqvars, queuevars, stepvars, flightvars,
              workervars, sleepvars
  <1>0. UNCHANGED Requesting /\ UNCHANGED <<batch_queue, outputs, stopped>>
    BY DEF Requesting
  <1>1. ControlTypes'
    BY <1>0 DEF ControlInv, ControlTypes, Requesting
  <1>2. NumberTypes'
    BY <1>0 DEF ControlInv, NumberTypes, Requesting
  <1>3. BatchesInFlight'
    BY <1>0 DEF ControlInv, BatchesInFlight, Requesting
  <1>4. StepInOrder'
    BY <1>0 DEF ControlInv, StepInOrder, InSchedule, Scheduled, Requesting
  <1>5. Resumptions'
    BY <1>0 DEF ControlInv, Resumptions, InSchedule, Requesting
  <1>6. Sleeping'
    BY <1>0 DEF ControlInv, Sleeping, Requesting
  <1>7. ResetPending'
    BY <1>0 DEF ControlInv, ResetPending, Requesting
  <1>8. Placeholders'
    BY <1>0, PlaceholdersKept DEF ControlInv, Requesting
  <1> QED  BY <1>0, <1>1, <1>2, <1>3, <1>4, <1>5, <1>6, <1>7, <1>8, RequestingKept DEF ControlInv

(* The idle callback finds no batch in flight and nothing to run.          *)
LEMMA IdleCallbackInv ==
    ASSUME ControlInv, IdleCallback
    PROVE  ControlInv'
  <1> USE DEF IdleCallback, HasWork, HasRequests, kvvars, poolvars, tablevars, reqvars, queuevars, stepvars, flightvars,
              workervars, sleepvars
  <1>0. UNCHANGED Requesting /\ UNCHANGED <<batch_queue, outputs, stopped>>
    BY DEF Requesting
  <1>1. ControlTypes'
    BY <1>0 DEF ControlInv, ControlTypes, Requesting
  <1>2. NumberTypes'
    BY <1>0 DEF ControlInv, NumberTypes, Requesting
  <1>3. BatchesInFlight'
    BY <1>0 DEF ControlInv, BatchesInFlight, Requesting
  <1>4. StepInOrder'
    BY <1>0 DEF ControlInv, StepInOrder, InSchedule, Scheduled, Requesting
  <1>5. Resumptions'
    BY <1>0 DEF ControlInv, Resumptions, InSchedule, Requesting
  <1>6. Sleeping'
    BY <1>0 DEF ControlInv, Sleeping, Requesting
  <1>7. ResetPending'
    BY <1>0 DEF ControlInv, ResetPending, Requesting
  <1>8. Placeholders'
    BY <1>0, PlaceholdersKept DEF ControlInv, Requesting
  <1> QED  BY <1>0, <1>1, <1>2, <1>3, <1>4, <1>5, <1>6, <1>7, <1>8, RequestingKept DEF ControlInv

(* wake_up() undoes pause and sleep. *)
LEMMA WakeUpInv ==
    ASSUME ControlInv, WakeUp
    PROVE  ControlInv'
  <1> USE DEF WakeUp, kvvars, poolvars, tablevars, reqvars, queuevars, stepvars, flightvars,
              workervars, sleepvars
  <1>0. UNCHANGED Requesting /\ UNCHANGED <<batch_queue, outputs, stopped>>
    BY DEF Requesting
  <1>1. ControlTypes'
    BY <1>0 DEF ControlInv, ControlTypes, Requesting
  <1>2. NumberTypes'
    BY <1>0 DEF ControlInv, NumberTypes, Requesting
  <1>3. BatchesInFlight'
    BY <1>0 DEF ControlInv, BatchesInFlight, Requesting
  <1>4. StepInOrder'
    BY <1>0 DEF ControlInv, StepInOrder, InSchedule, Scheduled, Requesting
  <1>5. Resumptions'
    BY <1>0 DEF ControlInv, Resumptions, InSchedule, Requesting
  <1>6. Sleeping'
    BY <1>0 DEF ControlInv, Sleeping, Requesting
  <1>7. ResetPending'
    BY <1>0 DEF ControlInv, ResetPending, Requesting
  <1>8. Placeholders'
    BY <1>0, PlaceholdersKept DEF ControlInv, Requesting
  <1> QED  BY <1>0, <1>1, <1>2, <1>3, <1>4, <1>5, <1>6, <1>7, <1>8, RequestingKept DEF ControlInv

(* schedule() begins with an empty step. *)
LEMMA StartScheduleInv ==
    ASSUME ControlInv, StartSchedule
    PROVE  ControlInv'
  <1> USE DEF StartSchedule, Scheduled, kvvars, poolvars, tablevars, reqvars, queuevars, stepvars, flightvars,
              workervars, sleepvars
  <1>0. UNCHANGED Requesting /\ UNCHANGED <<batch_queue, outputs, stopped>>
    BY DEF Requesting
  <1>1. ControlTypes'
    BY <1>0 DEF ControlInv, ControlTypes, Requesting
  <1>2. NumberTypes'
    BY <1>0 DEF ControlInv, NumberTypes, Requesting
  <1>3. BatchesInFlight'
    BY <1>0 DEF ControlInv, BatchesInFlight, Requesting
  <1>4. StepInOrder'
    BY <1>0 DEF ControlInv, StepInOrder, InSchedule, Scheduled, Requesting
  <1>5. Resumptions'
    BY <1>0 DEF ControlInv, Resumptions, InSchedule, Requesting
  <1>6. Sleeping'
    BY <1>0 DEF ControlInv, Sleeping, Requesting
  <1>7. ResetPending'
    BY <1>0 DEF ControlInv, ResetPending, Requesting
  <1>8. Placeholders'
    BY <1>0, PlaceholdersKept DEF ControlInv, Requesting
  <1> QED  BY <1>0, <1>1, <1>2, <1>3, <1>4, <1>5, <1>6, <1>7, <1>8, RequestingKept DEF ControlInv

(* A running request that gets nothing is passed over. *)
LEMMA SkipRunningInv ==
    ASSUME ControlInv, SkipRunning
    PROVE  ControlInv'
  <1> USE DEF SkipRunning, MoreRunning, kvvars, poolvars, tablevars, reqvars, queuevars, stepvars, flightvars,
              workervars, sleepvars
  <1>0. UNCHANGED Requesting /\ UNCHANGED <<batch_queue, outputs, stopped>>
    BY DEF Requesting
  <1>1. ControlTypes'
    BY <1>0 DEF ControlInv, ControlTypes, Requesting
  <1>2. NumberTypes'
    BY <1>0 DEF ControlInv, NumberTypes, Requesting
  <1>3. BatchesInFlight'
    BY <1>0 DEF ControlInv, BatchesInFlight, Requesting
  <1>a. req_index \in Int /\ \A k \in DOMAIN running : k \in Int
    BY DEF ControlInv, ControlTypes, NumberTypes
  <1>4. StepInOrder'
    BY <1>0, <1>a DEF ControlInv, StepInOrder, InSchedule, Scheduled, Requesting
  <1>5. Resumptions'
    BY <1>0 DEF ControlInv, Resumptions, InSchedule, Requesting
  <1>6. Sleeping'
    BY <1>0 DEF ControlInv, Sleeping, Requesting
  <1>7. ResetPending'
    BY <1>0 DEF ControlInv, ResetPending, Requesting
  <1>8. Placeholders'
    BY <1>0, PlaceholdersKept DEF ControlInv, Requesting
  <1> QED  BY <1>0, <1>1, <1>2, <1>3, <1>4, <1>5, <1>6, <1>7, <1>8, RequestingKept DEF ControlInv

(* The request picked is the one at req_index, behind which nothing has    *)
(* been scheduled.                                                         *)
LEMMA PickRunningInv ==
    ASSUME ControlInv, PickRunning
    PROVE  ControlInv'
  <1> USE DEF PickRunning, MoreRunning, kvvars, poolvars, tablevars, reqvars, queuevars, stepvars, flightvars,
              workervars, sleepvars
  <1>0. UNCHANGED Requesting /\ UNCHANGED <<batch_queue, outputs, stopped>>
    BY DEF Requesting
  <1>1. ControlTypes'
    BY <1>0 DEF ControlInv, ControlTypes, Requesting
  <1>i. running \in Seq(Requests) /\ req_index \in Int /\ IsInjective(running) /\ NumberTypes
    BY DEF ControlInv, ControlTypes, NumberTypes, QueuesExact
  <1>j. Len(running) \in Nat /\ DOMAIN running = 1 .. Len(running)
    BY <1>i
  <1>a. /\ running \in Seq(Requests) /\ req_index \in Int /\ Len(running) \in Nat
        /\ DOMAIN running = 1 .. Len(running) /\ IsInjective(running)
        /\ req_index <= Len(running) /\ NumberTypes
    BY <1>i, <1>j
  <1>b. req_index >= 1
    BY DEF ControlInv, StepInOrder
  <1> DEFINE r == running[req_index]
  <1>c. req_index \in DOMAIN running /\ r \in Requests /\ r \in Range(running)
    BY <1>a, <1>b DEF Range
  <1>d. cur' = <<r, NumNewTokens(r)>> /\ NumNewTokens(r) \in Int
    BY <1>a, <1>c, NumNewTokensFacts
  <1>2. NumberTypes'
    BY <1>0, <1>c, <1>d DEF ControlInv, NumberTypes, Requesting
  <1>3. BatchesInFlight'
    BY <1>0 DEF ControlInv, BatchesInFlight, Requesting
  <1>e. \A k \in DOMAIN running : running[k] \in Scheduled => k < req_index
    BY DEF ControlInv, StepInOrder
  <1>f. r \notin Scheduled
    BY <1>a, <1>c, <1>e
  <1>g. \A k \in DOMAIN running : running[k] = r => k = req_index
    BY <1>a, <1>c DEF IsInjective
  <1> HIDE DEF r
  <1>h. /\ cur'[1] = r /\ running' = running /\ Scheduled' = Scheduled /\ sched' = sched
        /\ req_index' = req_index /\ pc' = "alloc"
    BY <1>d DEF Scheduled
  <1>4. StepInOrder'
    BY <1>a, <1>c, <1>e, <1>f, <1>g, <1>h DEF ControlInv, StepInOrder, InSchedule
  <1>5. Resumptions'
    BY <1>0 DEF ControlInv, Resumptions, InSchedule, Requesting
  <1>6. Sleeping'
    BY <1>0 DEF ControlInv, Sleeping, Requesting
  <1>7. ResetPending'
    BY <1>0 DEF ControlInv, ResetPending, Requesting
  <1>8. Placeholders'
    BY <1>0, PlaceholdersKept DEF ControlInv, Requesting
  <1> QED  BY <1>0, <1>1, <1>2, <1>3, <1>4, <1>5, <1>6, <1>7, <1>8, RequestingKept DEF ControlInv

(* The end of the first loop. *)
LEMMA RunningDoneInv ==
    ASSUME ControlInv, RunningDone
    PROVE  ControlInv'
  <1> USE DEF RunningDone, kvvars, poolvars, tablevars, reqvars, queuevars, stepvars, flightvars,
              workervars, sleepvars
  <1>0. UNCHANGED Requesting /\ UNCHANGED <<batch_queue, outputs, stopped>>
    BY DEF Requesting
  <1>1. ControlTypes'
    BY <1>0 DEF ControlInv, ControlTypes, Requesting
  <1>2. NumberTypes'
    BY <1>0 DEF ControlInv, NumberTypes, Requesting
  <1>3. BatchesInFlight'
    BY <1>0 DEF ControlInv, BatchesInFlight, Requesting
  <1>4. StepInOrder'
    BY <1>0 DEF ControlInv, StepInOrder, InSchedule, Scheduled, Requesting
  <1>5. Resumptions'
    BY <1>0 DEF ControlInv, Resumptions, InSchedule, Requesting
  <1>6. Sleeping'
    BY <1>0 DEF ControlInv, Sleeping, Requesting
  <1>7. ResetPending'
    BY <1>0 DEF ControlInv, ResetPending, Requesting
  <1>8. Placeholders'
    BY <1>0, PlaceholdersKept DEF ControlInv, Requesting
  <1> QED  BY <1>0, <1>1, <1>2, <1>3, <1>4, <1>5, <1>6, <1>7, <1>8, RequestingKept DEF ControlInv

(* The end of the second loop. *)
LEMMA WaitingDoneInv ==
    ASSUME ControlInv, WaitingDone
    PROVE  ControlInv'
  <1> USE DEF WaitingDone, kvvars, poolvars, tablevars, reqvars, queuevars, stepvars, flightvars,
              workervars, sleepvars
  <1>0. UNCHANGED Requesting /\ UNCHANGED <<batch_queue, outputs, stopped>>
    BY DEF Requesting
  <1>1. ControlTypes'
    BY <1>0 DEF ControlInv, ControlTypes, Requesting
  <1>2. NumberTypes'
    BY <1>0 DEF ControlInv, NumberTypes, Requesting
  <1>3. BatchesInFlight'
    BY <1>0 DEF ControlInv, BatchesInFlight, Requesting
  <1>4. StepInOrder'
    BY <1>0 DEF ControlInv, StepInOrder, InSchedule, Scheduled, Requesting
  <1>5. Resumptions'
    BY <1>0 DEF ControlInv, Resumptions, InSchedule, Requesting
  <1>6. Sleeping'
    BY <1>0 DEF ControlInv, Sleeping, Requesting
  <1>7. ResetPending'
    BY <1>0 DEF ControlInv, ResetPending, Requesting
  <1>8. Placeholders'
    BY <1>0, PlaceholdersKept DEF ControlInv, Requesting
  <1> QED  BY <1>0, <1>1, <1>2, <1>3, <1>4, <1>5, <1>6, <1>7, <1>8, RequestingKept DEF ControlInv

(* Waiting for a batch in flight. *)
LEMMA DrainQueueInv ==
    ASSUME ControlInv, DrainQueue
    PROVE  ControlInv'
  <1> USE DEF DrainQueue, kvvars, poolvars, tablevars, reqvars, queuevars, stepvars, flightvars,
              workervars, sleepvars
  <1>0. UNCHANGED Requesting /\ UNCHANGED <<batch_queue, outputs, stopped>>
    BY DEF Requesting
  <1>1. ControlTypes'
    BY <1>0 DEF ControlInv, ControlTypes, Requesting
  <1>2. NumberTypes'
    BY <1>0 DEF ControlInv, NumberTypes, Requesting
  <1>3. BatchesInFlight'
    BY <1>0 DEF ControlInv, BatchesInFlight, Requesting
  <1>4. StepInOrder'
    BY <1>0 DEF ControlInv, StepInOrder, InSchedule, Scheduled, Requesting
  <1>5. Resumptions'
    BY <1>0 DEF ControlInv, Resumptions, InSchedule, Requesting
  <1>6. Sleeping'
    BY <1>0 DEF ControlInv, Sleeping, Requesting
  <1>7. ResetPending'
    BY <1>0 DEF ControlInv, ResetPending, Requesting
  <1>8. Placeholders'
    BY <1>0, PlaceholdersKept DEF ControlInv, Requesting
  <1> QED  BY <1>0, <1>1, <1>2, <1>3, <1>4, <1>5, <1>6, <1>7, <1>8, RequestingKept DEF ControlInv

(* The cache is dropped once all running requests are preempted.           *)
LEMMA ResetFinishInv ==
    ASSUME ControlInv, ResetFinish
    PROVE  ControlInv'
  <1> USE DEF ResetFinish, Reset, ResetPrefixCache, kvvars, poolvars, tablevars, reqvars, queuevars, stepvars, flightvars,
              workervars, sleepvars
  <1>0. UNCHANGED Requesting /\ UNCHANGED <<batch_queue, outputs, stopped>>
    BY DEF Requesting
  <1>1. ControlTypes'
    BY <1>0 DEF ControlInv, ControlTypes, Requesting
  <1>2. NumberTypes'
    BY <1>0 DEF ControlInv, NumberTypes, Requesting
  <1>3. BatchesInFlight'
    BY <1>0 DEF ControlInv, BatchesInFlight, Requesting
  <1>4. StepInOrder'
    BY <1>0 DEF ControlInv, StepInOrder, InSchedule, Scheduled, Requesting
  <1>5. Resumptions'
    BY <1>0 DEF ControlInv, Resumptions, InSchedule, Requesting
  <1>6. Sleeping'
    BY <1>0 DEF ControlInv, Sleeping, Requesting
  <1>7. ResetPending'
    BY <1>0 DEF ControlInv, ResetPending, Requesting
  <1>8. Placeholders'
    BY <1>0, PlaceholdersKept DEF ControlInv, Requesting
  <1> QED  BY <1>0, <1>1, <1>2, <1>3, <1>4, <1>5, <1>6, <1>7, <1>8, RequestingKept DEF ControlInv

(* The workers sleep when no request runs and none is admitted.            *)
LEMMA FallAsleepInv ==
    ASSUME ControlInv, FallAsleep
    PROVE  ControlInv'
  <1> USE DEF FallAsleep, Reset, ResetPrefixCache, kvvars, poolvars, tablevars, reqvars, queuevars, stepvars, flightvars,
              workervars, sleepvars
  <1>0. UNCHANGED Requesting /\ UNCHANGED <<batch_queue, outputs, stopped>>
    BY DEF Requesting
  <1>1. ControlTypes'
    BY <1>0 DEF ControlInv, ControlTypes, Requesting
  <1>2. NumberTypes'
    BY <1>0 DEF ControlInv, NumberTypes, Requesting
  <1>3. BatchesInFlight'
    BY <1>0 DEF ControlInv, BatchesInFlight, Requesting
  <1>4. StepInOrder'
    BY <1>0 DEF ControlInv, StepInOrder, InSchedule, Scheduled, Requesting
  <1>5. Resumptions'
    BY <1>0 DEF ControlInv, Resumptions, InSchedule, Requesting
  <1>6. Sleeping'
    <2>1. sched = <<>> /\ outputs = <<>> /\ batch_queue = <<>> /\ DOMAIN batch_queue = {}
      BY DEF ControlInv, ControlTypes, StepInOrder, BatchesInFlight, Sleeping, InSchedule
    <2> QED  BY <1>0, <2>1 DEF ControlInv, Sleeping, Requesting
  <1>7. ResetPending'
    BY <1>0 DEF ControlInv, ResetPending, Requesting
  <1>8. Placeholders'
    BY <1>0, PlaceholdersKept DEF ControlInv, Requesting
  <1> QED  BY <1>0, <1>1, <1>2, <1>3, <1>4, <1>5, <1>6, <1>7, <1>8, RequestingKept DEF ControlInv

(* The oldest result arrives. *)
LEMMA TakeResultInv ==
    ASSUME ControlInv, TakeResult
    PROVE  ControlInv'
  <1> DEFINE oldest == Head(batch_queue)
  <1>0. /\ UNCHANGED Requesting /\ UNCHANGED <<sched, cur, req_index, token_budget>>
        /\ UNCHANGED <<prev_step_scheduled_req_ids, preempted_reqs, pause_state, sleep_call,
                       asleep, stopped, cached_block_hash_to_block>>
        /\ pc = "result" /\ outputs' = oldest /\ batch_queue' = Tail(batch_queue)
        /\ pc' = IF oldest = <<>> THEN "idle" ELSE "update"
    BY DEF TakeResult, Requesting, kvvars, poolvars, tablevars, reqvars, queuevars, stepvars,
           workervars, sleepvars
  <1>a. /\ batch_queue \in Seq(Seq(Output)) /\ batch_queue # <<>> /\ outputs = <<>>
        /\ Len(batch_queue) <= BatchQueueSize
    BY <1>0 DEF ControlInv, ControlTypes, BatchesInFlight
  <1>b. /\ oldest \in Seq(Output) /\ Tail(batch_queue) \in Seq(Seq(Output))
        /\ Len(Tail(batch_queue)) = Len(batch_queue) - 1 /\ Len(batch_queue) \in Nat
        /\ 1 \in DOMAIN batch_queue /\ oldest = batch_queue[1]
        /\ \A i \in DOMAIN Tail(batch_queue) :
              i + 1 \in DOMAIN batch_queue /\ Tail(batch_queue)[i] = batch_queue[i + 1]
    BY <1>a
  <1> HIDE DEF oldest
  <1>1. ControlTypes'
    BY <1>0, <1>b DEF ControlInv, ControlTypes, Requesting
  <1>2. NumberTypes'
    BY <1>0 DEF ControlInv, NumberTypes, Requesting
  <1>3. BatchesInFlight'
    BY <1>0, <1>a, <1>b, SchedulerConfig DEF ControlInv, BatchesInFlight, Requesting
  <1>4. StepInOrder'
    BY <1>0 DEF ControlInv, StepInOrder, InSchedule, Scheduled, Requesting
  <1>5. Resumptions'
    BY <1>0 DEF ControlInv, Resumptions, InSchedule, Requesting
  <1>6. Sleeping'
    BY <1>0, <1>b DEF ControlInv, Sleeping, Requesting
  <1>7. ResetPending'
    BY <1>0 DEF ControlInv, ResetPending, Requesting
  <1>8. Placeholders'
    <2>1. \A r \in Requests : SamplesInFlight(r)' = SamplesInFlight(r)
      <3> TAKE r \in Requests
      <3>1. Pending = <<>> /\ Pending' = oldest
        BY <1>0, <1>a DEF Pending
      <3>2. Cardinality(BatchesOf(batch_queue, r))
              = Cardinality(BatchesOf(Tail(batch_queue), r)) + One(Samples(oldest, r))
        BY <1>a, BatchesTail DEF oldest
      <3>3. One(Samples(Pending, r)) = 0
        BY <3>1 DEF One, Samples
      <3>4. SamplesInFlight(r)' = Cardinality(BatchesOf(batch_queue, r))' + One(Samples(Pending, r))'
        BY DEF SamplesInFlight, BatchesOf, Pending, One
      <3>5. BatchesOf(batch_queue, r)' = BatchesOf(Tail(batch_queue), r)
        BY <1>0 DEF BatchesOf, Samples
      <3>6. One(Samples(Pending, r))' = One(Samples(oldest, r))
        BY <3>1 DEF One, Samples
      <3>7. SamplesInFlight(r) = Cardinality(BatchesOf(batch_queue, r)) + One(Samples(Pending, r))
        BY SamplesSplit
      <3>8. Cardinality(BatchesOf(batch_queue, r)) \in Nat
        BY <1>a, BatchesCounted
      <3> QED  BY <3>2, <3>3, <3>4, <3>5, <3>6, <3>7, <3>8
    <2>2. Placeholders /\ Distinct(oldest) /\ \A i \in DOMAIN Tail(batch_queue) : Distinct(Tail(batch_queue)[i])
      BY <1>b DEF ControlInv, Placeholders
    <2>3. Distinct(outputs)' /\ \A i \in DOMAIN batch_queue' : Distinct(batch_queue[i])'
      BY <2>2, <1>0 DEF Distinct
    <2> QED  BY <2>1, <2>2, <2>3, <1>0 DEF PlaceholdersOf, Placeholders, Requesting
  <1> QED  BY <1>0, <1>1, <1>2, <1>3, <1>4, <1>5, <1>6, <1>7, <1>8, RequestingKept DEF ControlInv

(* Whatever does not touch batches and samples leaves them counted.        *)
LEMMA SamplesKept ==
    ASSUME UNCHANGED <<outputs, batch_queue>>,
           pc \in {"cache", "stop"} <=> pc' \in {"cache", "stop"}
    PROVE  \A r : SamplesInFlight(r)' = SamplesInFlight(r)
  BY DEF SamplesInFlight, Samples

(* A request with nothing in flight has no sample in flight. *)
LEMMA NothingInFlight ==
    ASSUME NEW r, ~InFlight(r), pc \notin {"cache", "stop"}
    PROVE  SamplesInFlight(r) = 0
  <1>1. BatchesOf(batch_queue, r) = {}
    BY DEF BatchesOf, Samples, InFlight
  <1>2. One(Samples(Pending, r)) = 0
    BY DEF One, Samples, Pending, InFlight
  <1> QED  BY <1>1, <1>2, SamplesSplit, FS_EmptySet

(* A request arrives under an id nothing of whose last use is in flight.   *)
LEMMA AddRequestInv ==
    ASSUME ControlInv, NEW r \in Requests, NEW prompt \in Prompts, AddRequest(r, prompt)
    PROVE  ControlInv'
  <1>0. /\ UNCHANGED <<sched, cur, req_index, token_budget, batch_queue, outputs, stopped, pc>>
        /\ UNCHANGED <<prev_step_scheduled_req_ids, preempted_reqs, pause_state, sleep_call,
                       asleep, cached_block_hash_to_block, running, finished_req_ids>>
        /\ UNCHANGED <<num_computed_tokens, num_output_placeholders, discard_latest_async_tokens,
                       req_to_blocks>>
        /\ pc = "idle" /\ status[r] = "none" /\ ~InFlight(r) /\ r \notin finished_req_ids
        /\ status' = [status EXCEPT ![r] = "WAITING"]
        /\ num_prompt_tokens' = [num_prompt_tokens EXCEPT ![r] = Len(prompt)]
        /\ all_token_ids' = [all_token_ids EXCEPT ![r] = prompt]
        /\ waiting' = AddRequestTo(waiting, r)
    BY DEF AddRequest, NewRequest, kvvars, poolvars, tablevars, reqvars, queuevars, stepvars,
           workervars, flightvars, sleepvars
  <1>a. /\ status \in [Requests -> {"none", "WAITING", "RUNNING", "PREEMPTED"}]
        /\ waiting \in Seq(Requests) /\ IsInjective(waiting) /\ r \notin Range(waiting)
    BY <1>0 DEF ControlInv, ControlTypes, QueuesExact
  <1>b. waiting' \in Seq(Requests) /\ IsInjective(waiting') /\ Range(waiting') = Range(waiting) \cup {r}
    BY <1>0, <1>a, WaitingGains
  <1>c. \A q \in Requests : status'[q] = IF q = r THEN "WAITING" ELSE status[q]
    BY <1>0, <1>a
  <1>1. ControlTypes'
    BY <1>0, <1>a, <1>b DEF ControlInv, ControlTypes
  <1>d. prompt \in Seq(Token \cup Int) /\ Len(prompt) \in Nat
    BY PromptsTyped
  <1>2. NumberTypes'
    BY <1>0, <1>d DEF ControlInv, NumberTypes
  <1>e. outputs = <<>>
    BY <1>0 DEF ControlInv, BatchesInFlight
  <1>3. BatchesInFlight'
    BY <1>0, <1>e DEF ControlInv, BatchesInFlight
  <1>4. StepInOrder'
    BY <1>0 DEF ControlInv, StepInOrder, InSchedule, Scheduled
  <1>5. Resumptions'
    <2>1. prev_step_scheduled_req_ids \subseteq Requests
      BY DEF ControlInv, ControlTypes
    <2> QED  BY <2>1, <1>0, <1>c DEF ControlInv, Resumptions, InSchedule
  <1>6. Sleeping'
    BY <1>0 DEF ControlInv, Sleeping
  <1>7. ResetPending'
    BY <1>0 DEF ControlInv, ResetPending
  <1>8. QueuesExact'
    <2>1. QueuesExact
      BY DEF ControlInv
    <2>2. Range(running') = {q \in Requests : status'[q] = "RUNNING"} /\ IsInjective(running')
      BY <2>1, <1>0, <1>c DEF QueuesExact
    <2>3. Range(waiting') = {q \in Requests : status'[q] \in {"WAITING", "PREEMPTED"}}
      BY <2>1, <1>b, <1>c DEF QueuesExact
    <2>4. ASSUME NEW q \in Requests, status'[q] # "RUNNING"
          PROVE  req_to_blocks'[q] = <<>> /\ num_computed_tokens'[q] = 0
      BY <2>1, <2>4, <1>0, <1>c DEF QueuesExact
    <2> QED  BY <2>2, <2>3, <2>4, <1>b DEF QueuesExact
  <1>9. FinishedEnded'
    <2>1. finished_req_ids \subseteq Requests
      BY DEF ControlInv, ControlTypes
    <2> QED  BY <2>1, <1>0, <1>c DEF ControlInv, FinishedEnded
  <1>10. Placeholders'
    <2>1. \A q : SamplesInFlight(q)' = SamplesInFlight(q)
      BY <1>0, SamplesKept
    <2>2. SamplesInFlight(r) = 0
      BY <1>0, NothingInFlight
    <2>3. Placeholders
      BY DEF ControlInv
    <2>4. num_output_placeholders[r] = 0 /\ ~discard_latest_async_tokens[r]
      BY <2>3, <1>0 DEF PlaceholdersOf, Placeholders
    <2> QED  BY <2>1, <2>2, <2>3, <2>4, <1>0, <1>c DEF PlaceholdersOf, Placeholders, Distinct
  <1> QED  BY <1>1, <1>2, <1>3, <1>4, <1>5, <1>6, <1>7, <1>8, <1>9, <1>10 DEF ControlInv

(* A request leaves the sequences of requests and nothing else changes in  *)
(* them.                                                                   *)
LEMMA FinishRequestSteps ==
    ASSUME ControlInv, NEW r \in Requests, FinishRequest(r)
    PROVE  /\ cached_block_hash_to_block' = cached_block_hash_to_block
           /\ running' \in Seq(Requests) /\ IsInjective(running')
           /\ Range(running') = Range(running) \ {r} /\ Len(running') <= Len(running)
           /\ waiting' \in Seq(Requests) /\ IsInjective(waiting')
           /\ Range(waiting') = Range(waiting) \ {r}
           /\ finished_req_ids' = finished_req_ids \cup {r}
           /\ status' = [status EXCEPT ![r] = "none"]
           /\ num_prompt_tokens' = [num_prompt_tokens EXCEPT ![r] = 0]
           /\ num_computed_tokens' = [num_computed_tokens EXCEPT ![r] = 0]
           /\ num_output_placeholders' = [num_output_placeholders EXCEPT ![r] = 0]
           /\ discard_latest_async_tokens' = [discard_latest_async_tokens EXCEPT ![r] = FALSE]
           /\ all_token_ids' = [all_token_ids EXCEPT ![r] = <<>>]
           /\ req_to_blocks' = [req_to_blocks EXCEPT ![r] = <<>>]
  <1>1. /\ cached_block_hash_to_block' = cached_block_hash_to_block
        /\ finished_req_ids' = finished_req_ids \cup {r}
        /\ status' = [status EXCEPT ![r] = "none"]
        /\ num_prompt_tokens' = [num_prompt_tokens EXCEPT ![r] = 0]
        /\ num_computed_tokens' = [num_computed_tokens EXCEPT ![r] = 0]
        /\ num_output_placeholders' = [num_output_placeholders EXCEPT ![r] = 0]
        /\ discard_latest_async_tokens' = [discard_latest_async_tokens EXCEPT ![r] = FALSE]
        /\ all_token_ids' = [all_token_ids EXCEPT ![r] = <<>>]
        /\ req_to_blocks' = [req_to_blocks EXCEPT ![r] = <<>>]
        /\ running' = RemoveFrom(running, r) /\ waiting' = RemoveFrom(waiting, r)
    BY DEF FinishRequest, Finish, FreeRequest
  <1>2. /\ running \in Seq(Requests) /\ IsInjective(running)
        /\ waiting \in Seq(Requests) /\ IsInjective(waiting)
    BY DEF ControlInv, ControlTypes, QueuesExact
  <1>3. LET left == RemoveFrom(running, r)
        IN  /\ left \in Seq(Requests) /\ IsInjective(left) /\ Range(left) = Range(running) \ {r}
            /\ Len(left) <= Len(running)
    BY <1>2, RemoveFromFacts
  <1>4. LET left == RemoveFrom(waiting, r)
        IN  left \in Seq(Requests) /\ IsInjective(left) /\ Range(left) = Range(waiting) \ {r}
    BY <1>2, RemoveFromFacts
  <1> QED  BY <1>1, <1>3, <1>4

(* A request ends, by an abort or because it stops with its last output.   *)
LEMMA EndingInv ==
    ASSUME ControlInv, NEW r \in Requests, FinishRequest(r),
           UNCHANGED <<prev_step_scheduled_req_ids, stepvars, batch_queue, workervars, sleepvars>>,
           \/ pc \in {"idle", "result", "abort"} /\ UNCHANGED <<pc, outputs, stopped>>
           \/ pc = "stop" /\ NextOutput /\ stopped' = FALSE
    PROVE  ControlInv'
  <1>0. /\ UNCHANGED <<sched, cur, req_index, token_budget, batch_queue>>
        /\ UNCHANGED <<prev_step_scheduled_req_ids, preempted_reqs, pause_state, sleep_call, asleep>>
    BY DEF stepvars, sleepvars
  <1>a. /\ cached_block_hash_to_block' = cached_block_hash_to_block
        /\ running' \in Seq(Requests) /\ IsInjective(running')
        /\ Range(running') = Range(running) \ {r} /\ Len(running') <= Len(running)
        /\ waiting' \in Seq(Requests) /\ IsInjective(waiting')
        /\ Range(waiting') = Range(waiting) \ {r}
        /\ finished_req_ids' = finished_req_ids \cup {r}
    BY FinishRequestSteps
  <1>b. /\ status' = [status EXCEPT ![r] = "none"]
        /\ num_prompt_tokens' = [num_prompt_tokens EXCEPT ![r] = 0]
        /\ num_computed_tokens' = [num_computed_tokens EXCEPT ![r] = 0]
        /\ num_output_placeholders' = [num_output_placeholders EXCEPT ![r] = 0]
        /\ discard_latest_async_tokens' = [discard_latest_async_tokens EXCEPT ![r] = FALSE]
        /\ all_token_ids' = [all_token_ids EXCEPT ![r] = <<>>]
        /\ req_to_blocks' = [req_to_blocks EXCEPT ![r] = <<>>]
    BY FinishRequestSteps
  <1>c. /\ status \in [Requests -> {"none", "WAITING", "RUNNING", "PREEMPTED"}]
        /\ discard_latest_async_tokens \in [Requests -> BOOLEAN] /\ DOMAIN req_to_blocks = Requests
        /\ prev_step_scheduled_req_ids \subseteq Requests /\ finished_req_ids \subseteq Requests
        /\ outputs \in Seq(Output) /\ running \in Seq(Requests) /\ ControlTypes
    BY DEF ControlInv, ControlTypes
  <1>d. \A q \in Requests : /\ status'[q] = IF q = r THEN "none" ELSE status[q]
                            /\ req_to_blocks'[q] = IF q = r THEN <<>> ELSE req_to_blocks[q]
    BY <1>b, <1>c
  <1>e. /\ sched = <<>> /\ Scheduled' = {} /\ DOMAIN sched' = {}
        /\ pc' \in {"idle", "result", "abort", "update"}
        /\ pc \in {"idle", "result", "abort", "stop"}
    <2>1. pc \in {"idle", "result", "abort", "stop"} /\ pc' \in {"idle", "result", "abort", "update"}
      BY DEF NextOutput
    <2>2. sched = <<>>
      BY <2>1 DEF ControlInv, StepInOrder, InSchedule
    <2> QED  BY <1>0, <2>1, <2>2 DEF Scheduled
  <1>h. /\ outputs' \in Seq(Output) /\ Distinct(outputs)'
        /\ \A q : SamplesInFlight(q)' = SamplesInFlight(q)
        /\ pc' = "update" <=> outputs' # <<>>
        /\ stopped' \in BOOLEAN
        /\ pc' = "result" <=> pc = "result"
        /\ pc = "abort" => pc' = "abort"
        /\ outputs = <<>> => outputs' = <<>>
    <2>1. CASE pc \in {"idle", "result", "abort"} /\ UNCHANGED <<pc, outputs, stopped>>
      <3>1. outputs = <<>> /\ stopped \in BOOLEAN /\ Distinct(outputs)
        BY <2>1 DEF ControlInv, ControlTypes, BatchesInFlight, Placeholders
      <3>2. \A q : SamplesInFlight(q)' = SamplesInFlight(q)
        BY <1>0, <2>1, SamplesKept
      <3>3. Distinct(outputs)'
        BY <2>1, <3>1 DEF Distinct
      <3>4. outputs' = <<>> /\ stopped' \in BOOLEAN /\ pc' = pc
        BY <2>1, <3>1
      <3> QED  BY <1>c, <2>1, <3>1, <3>2, <3>3, <3>4
    <2>2. CASE pc = "stop" /\ NextOutput /\ stopped' = FALSE
      <3>1. outputs # <<>> /\ Distinct(outputs)
        BY <2>2 DEF ControlInv, BatchesInFlight, Placeholders
      <3>2. Tail(outputs) \in Seq(Output) /\ Distinct(Tail(outputs))
        BY <1>c, <3>1, ResultTail
      <3>3. outputs' = Tail(outputs) /\ pc' = IF Tail(outputs) = <<>> THEN "idle" ELSE "update"
        BY <2>2 DEF NextOutput
      <3>4. \A q : SamplesInFlight(q)' = SamplesInFlight(q)
        BY <1>0, <2>2, <3>3 DEF SamplesInFlight, Samples
      <3>5. Distinct(outputs)'
        BY <3>2, <3>3 DEF Distinct
      <3>6. outputs' \in Seq(Output) /\ (pc' = "update" <=> outputs' # <<>>) /\ pc' \in {"idle", "update"}
        BY <3>2, <3>3
      <3>7. pc = "stop" /\ stopped' = FALSE
        BY <2>2
      <3> HIDE DEF NextOutput
      <3> QED  BY <3>1, <3>4, <3>5, <3>6, <3>7
    <2> QED  BY <2>1, <2>2
  <1>1. ControlTypes'
    BY <1>0, <1>a, <1>b, <1>c, <1>e, <1>h DEF ControlTypes
  <1>2. NumberTypes'
    BY <1>0, <1>b, <1>e DEF ControlInv, NumberTypes
  <1>3. BatchesInFlight'
    BY <1>0, <1>e, <1>h DEF ControlInv, BatchesInFlight
  <1>4. StepInOrder'
    <2>1. Len(running') <= MaxNumRunningReqs
      <3>1. Len(running) <= MaxNumRunningReqs /\ Len(running) \in Nat /\ Len(running') \in Nat
        BY <1>a, <1>c DEF ControlInv, StepInOrder
      <3> QED  BY <3>1, <1>a, SchedulerConfig
    <2> QED  BY <2>1, <1>0, <1>e DEF StepInOrder, InSchedule
  <1>5. Resumptions'
    BY <1>0, <1>c, <1>d, <1>e DEF ControlInv, Resumptions, InSchedule
  <1>6. Sleeping'
    <2>1. Sleeping
      BY DEF ControlInv
    <2>2. running = <<>> => running' = <<>>
      <3>1. running = <<>> => Range(running) = {}
        BY DEF Range
      <3>2. Range(running') = {} => running' = <<>>
        BY <1>a DEF Range
      <3> QED  BY <3>1, <3>2, <1>a
    <2> QED  BY <2>1, <2>2, <1>0, <1>a, <1>e, <1>h DEF Sleeping
  <1>7. ResetPending'
    BY <1>0, <1>e DEF ControlInv, ResetPending
  <1>8. QueuesExact'
    <2>1. QueuesExact
      BY DEF ControlInv
    <2>2. Range(running') = {q \in Requests : status'[q] = "RUNNING"}
      BY <2>1, <1>a, <1>d DEF QueuesExact
    <2>3. Range(waiting') = {q \in Requests : status'[q] \in {"WAITING", "PREEMPTED"}}
      BY <2>1, <1>a, <1>d DEF QueuesExact
    <2>4. num_computed_tokens'[r] = 0 /\ \A q \in Requests \ {r} : num_computed_tokens'[q] = num_computed_tokens[q]
      BY <1>b DEF ControlInv, NumberTypes
    <2>5. ASSUME NEW q \in Requests, status'[q] # "RUNNING"
          PROVE  req_to_blocks'[q] = <<>> /\ num_computed_tokens'[q] = 0
      BY <2>1, <2>4, <2>5, <1>d DEF QueuesExact
    <2> QED  BY <2>2, <2>3, <2>5, <1>a DEF QueuesExact
  <1>9. FinishedEnded'
    BY <1>a, <1>c, <1>d DEF ControlInv, FinishedEnded
  <1>10. Placeholders'
    <2>1. Placeholders
      BY DEF ControlInv
    <2>2. Distinct(outputs)' /\ \A i \in DOMAIN batch_queue' : Distinct(batch_queue[i])'
      BY <2>1, <1>0, <1>h DEF Placeholders, Distinct
    <2>3. /\ num_output_placeholders'[r] = 0 /\ ~discard_latest_async_tokens'[r]
          /\ \A q \in Requests \ {r} :
                /\ num_output_placeholders'[q] = num_output_placeholders[q]
                /\ discard_latest_async_tokens'[q] = discard_latest_async_tokens[q]
      BY <1>b, <1>c DEF ControlInv, NumberTypes
    <2> QED  BY <2>1, <2>2, <2>3, <1>d, <1>h DEF PlaceholdersOf, Placeholders
  <1> QED  BY <1>1, <1>2, <1>3, <1>4, <1>5, <1>6, <1>7, <1>8, <1>9, <1>10 DEF ControlInv

(* finish_requests by a client. *)
LEMMA AbortRequestInv ==
    ASSUME ControlInv, NEW r \in Requests, AbortRequest(r)
    PROVE  ControlInv'
  BY EndingInv DEF AbortRequest, flightvars

(* finish_requests by sleep(). *)
LEMMA SleepAbortsInv ==
    ASSUME ControlInv, NEW r \in Requests, SleepAborts(r)
    PROVE  ControlInv'
  BY EndingInv DEF SleepAborts, flightvars

(* A request stops with its last token. *)
LEMMA StopRequestInv ==
    ASSUME ControlInv, StopRequest
    PROVE  ControlInv'
  <1>1. outputs \in Seq(Output) /\ outputs # <<>>
    BY DEF ControlInv, ControlTypes, BatchesInFlight, StopRequest
  <1>2. Head(outputs) \in Output
    BY <1>1
  <1>3. Head(outputs).req \in Requests
    BY <1>2 DEF Output
  <1> QED  BY <1>3, EndingInv DEF StopRequest

-----------------------------------------------------------------------------
(* The request that schedule() preempts is one that runs. *)
LEMMA VictimRuns ==
    ASSUME running \in Seq(Requests), running # <<>>
    PROVE  Victim \in Range(running)
  <1>1. DOMAIN running = 1 .. Len(running) /\ Len(running) \in Nat /\ Len(running) >= 1
    OBVIOUS
  <1>2. CASE Policy = "fcfs"
    <2>1. Len(running) \in DOMAIN running
      BY <1>1
    <2> QED  BY <2>1, <1>2 DEF Victim, Last, Range
  <1>3. CASE Policy # "fcfs"
    <2> DEFINE last(k, n) == \A j \in 1 .. n : Rank[running[j]] <= Rank[running[k]]
               S == {n \in Nat : n > Len(running) \/ n = 0 \/ \E k \in 1 .. n : last(k, n)}
    <2>1. \A j \in 1 .. Len(running) : Rank[running[j]] \in Nat
      BY <1>1, SchedulerConfig
    <2>2. 0 \in S
      OBVIOUS
    <2>3. ASSUME NEW n \in Nat, n \in S PROVE n + 1 \in S
      <3>1. CASE n + 1 > Len(running)
        BY <3>1
      <3>2. CASE n + 1 <= Len(running)
        <4>1. n + 1 \in 1 .. Len(running) /\ \A j \in 1 .. n + 1 : j \in 1 .. Len(running)
          BY <3>2, <1>1
        <4>2. \A j \in 1 .. n + 1 : j = n + 1 \/ j \in 1 .. n
          OBVIOUS
        <4>3. CASE n = 0
          <5>1. 1 \in 1 .. 1 /\ last(1, 1)
            BY <4>1, <4>3, <2>1
          <5> QED  BY <5>1, <4>3
        <4>4. CASE n # 0
          <5>1. PICK k \in 1 .. n : last(k, n)
            BY <2>3, <3>2, <4>4, <1>1
          <5>2. k \in 1 .. n + 1 /\ n + 1 \in 1 .. n + 1
            OBVIOUS
          <5>3. CASE Rank[running[n + 1]] <= Rank[running[k]]
            <6>1. last(k, n + 1)
              BY <5>1, <5>3, <4>2
            <6> QED  BY <6>1, <5>2
          <5>4. CASE ~(Rank[running[n + 1]] <= Rank[running[k]])
            <6>1. last(n + 1, n + 1)
              BY <5>1, <5>2, <5>4, <4>1, <4>2, <2>1
            <6> QED  BY <6>1, <5>2
          <5> QED  BY <5>3, <5>4
        <4> QED  BY <4>3, <4>4
      <3> QED  BY <3>1, <3>2, <1>1
    <2> HIDE DEF S
    <2>4. Len(running) \in S
      BY <1>1, <2>2, <2>3, NatInductive
    <2>5. PICK k \in 1 .. Len(running) : \A j \in 1 .. Len(running) : Rank[running[j]] <= Rank[running[k]]
      BY <2>4, <1>1 DEF S
    <2>6. running[k] \in Range(running) /\ \A s \in Range(running) : Rank[s] <= Rank[running[k]]
      BY <2>5, <1>1 DEF Range
    <2> QED  BY <2>6, <1>3 DEF Victim
  <1> QED  BY <1>2, <1>3

(* _preempt_request moves a running request to the waiting queue. *)
LEMMA PreemptSteps ==
    ASSUME ControlInv, NEW r \in Range(running), PreemptRequest(r),
           running' \in Seq(Requests), IsInjective(running'), Range(running') = Range(running) \ {r},
           UNCHANGED finished_req_ids
    PROVE  /\ r \in Requests /\ status[r] = "RUNNING"
           /\ status' = [status EXCEPT ![r] = "PREEMPTED"]
           /\ num_computed_tokens' = [num_computed_tokens EXCEPT ![r] = 0]
           /\ \A q \in Requests : status'[q] = IF q = r THEN "PREEMPTED" ELSE status[q]
           /\ UNCHANGED <<num_prompt_tokens, all_token_ids, cached_block_hash_to_block>>
           /\ waiting' \in Seq(Requests) /\ DOMAIN req_to_blocks' = Requests
           /\ QueuesExact' /\ FinishedEnded'
  <1>1. /\ status' = [status EXCEPT ![r] = "PREEMPTED"]
        /\ num_computed_tokens' = [num_computed_tokens EXCEPT ![r] = 0]
        /\ req_to_blocks' = [req_to_blocks EXCEPT ![r] = <<>>]
        /\ waiting' = PrependRequest(waiting, r)
        /\ UNCHANGED <<num_prompt_tokens, all_token_ids, cached_block_hash_to_block>>
    BY DEF PreemptRequest, Preempt, FreeRequest
  <1>2. /\ status \in [Requests -> {"none", "WAITING", "RUNNING", "PREEMPTED"}]
        /\ DOMAIN req_to_blocks = Requests /\ waiting \in Seq(Requests)
        /\ finished_req_ids \subseteq Requests
        /\ num_computed_tokens \in [Requests -> Int]
        /\ QueuesExact /\ FinishedEnded
    BY DEF ControlInv, ControlTypes, NumberTypes
  <1>3. r \in Requests /\ status[r] = "RUNNING" /\ IsInjective(waiting) /\ r \notin Range(waiting)
    BY <1>2 DEF QueuesExact
  <1>4. waiting' \in Seq(Requests) /\ IsInjective(waiting') /\ Range(waiting') = Range(waiting) \cup {r}
    BY <1>1, <1>2, <1>3, WaitingGains
  <1>5. \A q \in Requests :
            /\ status'[q] = IF q = r THEN "PREEMPTED" ELSE status[q]
            /\ num_computed_tokens'[q] = IF q = r THEN 0 ELSE num_computed_tokens[q]
            /\ req_to_blocks'[q] = IF q = r THEN <<>> ELSE req_to_blocks[q]
    BY <1>1, <1>2
  <1>6. QueuesExact'
    <2>1. Range(running') = {q \in Requests : status'[q] = "RUNNING"}
      BY <1>2, <1>3, <1>5 DEF QueuesExact
    <2>2. Range(waiting') = {q \in Requests : status'[q] \in {"WAITING", "PREEMPTED"}}
      BY <1>2, <1>3, <1>4, <1>5 DEF QueuesExact
    <2>3. ASSUME NEW q \in Requests, status'[q] # "RUNNING"
          PROVE  req_to_blocks'[q] = <<>> /\ num_computed_tokens'[q] = 0
      BY <2>3, <1>2, <1>5 DEF QueuesExact
    <2> QED  BY <2>1, <2>2, <2>3, <1>4 DEF QueuesExact
  <1>7. FinishedEnded'
    BY <1>2, <1>3, <1>5 DEF FinishedEnded
  <1> QED  BY <1>1, <1>2, <1>3, <1>4, <1>5, <1>6, <1>7

(* reset_prefix_cache preempts the last running request. *)
LEMMA ResetPreemptInv ==
    ASSUME ControlInv, ResetPreempt
    PROVE  ControlInv'
  <1> DEFINE r == Last(running)
  <1>0. /\ UNCHANGED <<sched, cur, req_index, token_budget, batch_queue, outputs, stopped, pc>>
        /\ UNCHANGED <<prev_step_scheduled_req_ids, preempted_reqs, pause_state, sleep_call,
                       asleep, finished_req_ids>>
        /\ pc \in {"reset", "clear"} /\ running # <<>>
        /\ PreemptRequest(r) /\ running' = Front(running)
        /\ num_output_placeholders' = [num_output_placeholders EXCEPT ![r] = 0]
        /\ discard_latest_async_tokens' = [discard_latest_async_tokens EXCEPT ![r] = TRUE]
    BY DEF ResetPreempt, stepvars, workervars, flightvars, sleepvars
  <1>a. running \in Seq(Requests) /\ IsInjective(running) /\ outputs = <<>>
    BY <1>0 DEF ControlInv, ControlTypes, QueuesExact, BatchesInFlight
  <1>b. /\ r \in Range(running) /\ running' \in Seq(Requests) /\ IsInjective(running')
        /\ Range(running') = Range(running) \ {r} /\ Len(running') <= Len(running)
    BY <1>0, <1>a, FrontFacts
  <1> HIDE DEF r
  <1>c. /\ r \in Requests /\ status[r] = "RUNNING"
        /\ status' = [status EXCEPT ![r] = "PREEMPTED"]
        /\ num_computed_tokens' = [num_computed_tokens EXCEPT ![r] = 0]
        /\ \A q \in Requests : status'[q] = IF q = r THEN "PREEMPTED" ELSE status[q]
        /\ UNCHANGED <<num_prompt_tokens, all_token_ids, cached_block_hash_to_block>>
        /\ waiting' \in Seq(Requests) /\ DOMAIN req_to_blocks' = Requests
        /\ QueuesExact' /\ FinishedEnded'
    BY <1>0, <1>b, PreemptSteps
  <1>1. ControlTypes'
    BY <1>0, <1>b, <1>c DEF ControlInv, ControlTypes
  <1>2. NumberTypes'
    BY <1>0, <1>c DEF ControlInv, NumberTypes
  <1>3. BatchesInFlight'
    BY <1>0, <1>a, <1>c DEF ControlInv, BatchesInFlight
  <1>4. StepInOrder'
    <2>1. sched = <<>> /\ Scheduled' = {}
      BY <1>0 DEF ControlInv, StepInOrder, InSchedule, Scheduled
    <2>2. Len(running') <= MaxNumRunningReqs
      <3>1. Len(running) <= MaxNumRunningReqs /\ Len(running) \in Nat /\ Len(running') \in Nat
        BY <1>a, <1>b DEF ControlInv, StepInOrder
      <3> QED  BY <3>1, <1>b, SchedulerConfig
    <2> QED  BY <2>1, <2>2, <1>0 DEF StepInOrder, InSchedule
  <1>5. Resumptions'
    BY <1>0 DEF ControlInv, Resumptions, InSchedule
  <1>6. Sleeping'
    BY <1>0, <1>c DEF ControlInv, Sleeping
  <1>7. ResetPending'
    BY <1>0 DEF ControlInv, ResetPending
  <1>8. Placeholders'
    <2>1. Placeholders /\ ResetPending /\ ControlTypes
      BY DEF ControlInv
    <2>2. \A q : SamplesInFlight(q)' = SamplesInFlight(q)
      BY <1>0, SamplesKept
    <2>3. AsyncScheduling => ~NeverResets
      BY <2>1, <1>0 DEF ResetPending, NeverResets
    <2>4. DiscardsSuffice => SamplesInFlight(r) <= 1
      <3> HAVE DiscardsSuffice
      <3>1. /\ Cardinality(BatchesOf(batch_queue, r)) \in Nat
            /\ Cardinality(BatchesOf(batch_queue, r)) <= Len(batch_queue)
        BY <2>1, BatchesCounted DEF ControlTypes
      <3>2. One(Samples(Pending, r)) = 0
        BY <1>0, <1>a DEF Pending, One, Samples
      <3>3. Len(batch_queue) <= 1
        <4>1. CASE pc = "reset"
          <5>1. BatchQueueSize <= 2 /\ Len(batch_queue) < BatchQueueSize /\ Len(batch_queue) \in Nat
            BY <4>1, <2>1 DEF ResetPending, DiscardsSuffice, ControlInv, BatchesInFlight, ControlTypes
          <5> QED  BY <5>1, SchedulerConfig
        <4>2. CASE pc = "clear"
          BY <4>2 DEF ControlInv, Sleeping
        <4> QED  BY <4>1, <4>2, <1>0
      <3>4. Len(batch_queue) \in Nat
        BY <2>1 DEF ControlTypes
      <3> QED  BY <3>1, <3>2, <3>3, <3>4, SamplesSplit
    <2>5. /\ num_output_placeholders'[r] = 0 /\ discard_latest_async_tokens'[r] = TRUE
          /\ \A q \in Requests \ {r} :
                /\ num_output_placeholders'[q] = num_output_placeholders[q]
                /\ discard_latest_async_tokens'[q] = discard_latest_async_tokens[q]
      BY <1>0, <1>c DEF ControlInv, ControlTypes, NumberTypes
    <2>6. Distinct(outputs)' /\ \A i \in DOMAIN batch_queue' : Distinct(batch_queue[i])'
      BY <2>1, <1>0 DEF Placeholders, Distinct
    <2> QED  BY <2>1, <2>2, <2>3, <2>4, <2>5, <2>6, <1>c DEF PlaceholdersOf, Placeholders
  <1> QED  BY <1>1, <1>2, <1>3, <1>4, <1>5, <1>6, <1>7, <1>8, <1>c DEF ControlInv

-----------------------------------------------------------------------------
(* The entry of a scheduled request. *)
LEMMA ScheduledFacts ==
    ASSUME NEW B, sched \in Seq(Entry(B)), NEW r
    PROVE  /\ r \in Scheduled => ScheduledAt(r) \in DOMAIN sched /\ sched[ScheduledAt(r)].req = r
           /\ NumScheduledTokens(r) \in Int
  <1>1. r \in Scheduled => ScheduledAt(r) \in DOMAIN sched /\ sched[ScheduledAt(r)].req = r
    BY DEF Scheduled, ScheduledAt
  <1>2. \A i \in DOMAIN sched : sched[i] \in Entry(B)
    OBVIOUS
  <1>3. \A i \in DOMAIN sched : sched[i].n \in Int
    BY <1>2 DEF Entry
  <1> QED  BY <1>1, <1>3 DEF NumScheduledTokens

(* A preempted request is taken out of the step, the others stay in it. *)
LEMMA UnscheduledFacts ==
    ASSUME NEW B, sched \in Seq(Entry(B)), NEW v,
           \A i, j \in DOMAIN sched : sched[i].req = sched[j].req => i = j
    PROVE  LET left == Unscheduled(v)
           IN  /\ left \in Seq(Entry(B))
               /\ \A i, j \in DOMAIN left : left[i].req = left[j].req => i = j
               /\ {left[i].req : i \in DOMAIN left} = Scheduled \ {v}
               /\ \A i \in DOMAIN left : \E j \in DOMAIN sched : left[i] = sched[j]
  <1>1. DOMAIN sched = 1 .. Len(sched) /\ Len(sched) \in Nat
    OBVIOUS
  <1>2. CASE v \notin Scheduled
    <2>1. Unscheduled(v) = sched
      BY <1>2 DEF Unscheduled
    <2> QED  BY <2>1, <1>2 DEF Scheduled
  <1>3. CASE v \in Scheduled
    <2> DEFINE p    == ScheduledAt(v)
               left == Unscheduled(v)
    <2>1. p \in 1 .. Len(sched) /\ sched[p].req = v
      BY <1>1, <1>3, ScheduledFacts
    <2> HIDE DEF p
    <2>2. /\ RemoveAt(sched, p) \in Seq(Entry(B)) /\ DOMAIN RemoveAt(sched, p) = 1 .. Len(sched) - 1
          /\ \A k \in 1 .. Len(sched) - 1 : RemoveAt(sched, p)[k] = IF k < p THEN sched[k] ELSE sched[k + 1]
      BY <2>1, RemoveAtFacts
    <2>3. left = RemoveAt(sched, p)
      BY <1>3 DEF Unscheduled, p
    <2> HIDE DEF left
    <2> DEFINE from(k) == IF k < p THEN k ELSE k + 1
    <2>4. left \in Seq(Entry(B)) /\ DOMAIN left = 1 .. Len(sched) - 1
      BY <2>2, <2>3
    <2>5. \A k \in 1 .. Len(sched) - 1 :
              from(k) \in 1 .. Len(sched) /\ from(k) # p /\ left[k] = sched[from(k)]
      BY <2>1, <2>2, <2>3, <1>1
    <2>6. \A j, k \in 1 .. Len(sched) - 1 : from(j) = from(k) => j = k
      BY <2>1, <1>1
    <2>7. \A j \in 1 .. Len(sched) : j # p => \E k \in 1 .. Len(sched) - 1 : from(k) = j
      <3> TAKE j \in 1 .. Len(sched)
      <3> HAVE j # p
      <3>1. CASE j < p
        BY <3>1, <2>1, <1>1
      <3>2. CASE j > p
        <4>1. j - 1 \in 1 .. Len(sched) - 1 /\ from(j - 1) = j
          BY <3>2, <2>1, <1>1
        <4> QED  BY <4>1
      <3> QED  BY <3>1, <3>2, <2>1
    <2> HIDE DEF from
    <2>8. \A i, j \in DOMAIN left : left[i].req = left[j].req => i = j
      BY <2>4, <2>5, <2>6, <1>1
    <2>9. \A i \in DOMAIN left : \E j \in DOMAIN sched : left[i] = sched[j]
      BY <2>4, <2>5, <1>1
    <2>10. {left[i].req : i \in DOMAIN left} = Scheduled \ {v}
      <3>1. ASSUME NEW i \in DOMAIN left PROVE left[i].req \in Scheduled \ {v}
        <4>1. from(i) \in DOMAIN sched /\ left[i] = sched[from(i)] /\ from(i) # p
          BY <2>4, <2>5, <1>1
        <4>2. sched[from(i)].req # sched[p].req
          BY <4>1, <2>1, <1>1
        <4> QED  BY <4>1, <4>2, <2>1 DEF Scheduled
      <3>2. ASSUME NEW r \in Scheduled \ {v} PROVE \E i \in DOMAIN left : left[i].req = r
        <4>1. PICK j \in 1 .. Len(sched) : sched[j].req = r
          BY <1>1 DEF Scheduled
        <4>2. PICK k \in 1 .. Len(sched) - 1 : from(k) = j
          BY <4>1, <2>1, <2>7
        <4> QED  BY <4>1, <4>2, <2>4, <2>5
      <3> QED  BY <3>1, <3>2
    <2> QED  BY <2>4, <2>8, <2>9, <2>10 DEF left
  <1> QED  BY <1>2, <1>3

(* schedule() preempts a request to find blocks for the one at hand.       *)
LEMMA PreemptVictimInv ==
    ASSUME ControlInv, PreemptVictim
    PROVE  ControlInv'
  <1> DEFINE v == Victim
  <1>0. /\ UNCHANGED <<cur, batch_queue, outputs, stopped, num_output_placeholders>>
        /\ UNCHANGED <<prev_step_scheduled_req_ids, pause_state, sleep_call, asleep,
                       finished_req_ids, discard_latest_async_tokens>>
        /\ pc = "alloc" /\ PreemptRequest(v) /\ running' = RemoveFrom(running, v)
        /\ preempted_reqs' = preempted_reqs \cup {v}
        /\ sched' = Unscheduled(v)
        /\ token_budget' = token_budget + NumScheduledTokens(v)
        /\ req_index' = IF v \in Scheduled THEN req_index - 1 ELSE req_index
        /\ pc' = IF v = cur[1] THEN "waiting" ELSE "alloc"
    BY DEF PreemptVictim, workervars, flightvars, sleepvars
  <1>a. /\ running \in Seq(Requests) /\ IsInjective(running) /\ outputs = <<>>
        /\ cur[1] \in Range(running) \ Scheduled /\ Scheduled \subseteq Range(running)
        /\ \A i, j \in DOMAIN sched : sched[i].req = sched[j].req => i = j
        /\ req_index \in Int /\ req_index >= 1 /\ token_budget \in Int
        /\ preempted_reqs \subseteq Requests
    BY <1>0 DEF ControlInv, ControlTypes, NumberTypes, QueuesExact, BatchesInFlight, StepInOrder
  <1>b. running # <<>>
    BY <1>a DEF Range
  <1>c. v \in Range(running)
    BY <1>a, <1>b, VictimRuns
  <1> HIDE DEF v
  <1>d. LET left == RemoveFrom(running, v)
        IN  /\ left \in Seq(Requests) /\ IsInjective(left) /\ Range(left) = Range(running) \ {v}
            /\ Len(left) <= Len(running)
            /\ \A k \in DOMAIN left : \E j \in DOMAIN running : running[j] = left[k] /\ k <= j
            /\ \A p \in DOMAIN running : running[p] = v =>
                 \A k \in DOMAIN left : \E j \in DOMAIN running :
                     running[j] = left[k] /\ k <= j /\ (j > p => k < j)
    BY <1>a, RemoveFromFacts
  <1>e. /\ running' \in Seq(Requests) /\ IsInjective(running') /\ Range(running') = Range(running) \ {v}
        /\ Len(running') <= Len(running)
        /\ \A k \in DOMAIN running' : \E j \in DOMAIN running : running[j] = running'[k] /\ k <= j
        /\ \A p \in DOMAIN running : running[p] = v =>
             \A k \in DOMAIN running' : \E j \in DOMAIN running :
                 running[j] = running'[k] /\ k <= j /\ (j > p => k < j)
    BY <1>0, <1>d
  <1>f. /\ v \in Requests /\ status[v] = "RUNNING"
        /\ status' = [status EXCEPT ![v] = "PREEMPTED"]
        /\ num_computed_tokens' = [num_computed_tokens EXCEPT ![v] = 0]
        /\ \A q \in Requests : status'[q] = IF q = v THEN "PREEMPTED" ELSE status[q]
        /\ UNCHANGED <<num_prompt_tokens, all_token_ids, cached_block_hash_to_block>>
        /\ waiting' \in Seq(Requests) /\ DOMAIN req_to_blocks' = Requests
        /\ QueuesExact' /\ FinishedEnded'
    BY <1>0, <1>c, <1>e, PreemptSteps
  <1>g. PICK B : sched \in Seq(Entry(B))
    BY DEF ControlInv, ControlTypes
  <1>h. /\ sched' \in Seq(Entry(B))
        /\ \A i, j \in DOMAIN sched' : sched'[i].req = sched'[j].req => i = j
        /\ Scheduled' = Scheduled \ {v}
        /\ \A i \in DOMAIN sched' : \E j \in DOMAIN sched : sched'[i] = sched[j]
    <2>1. LET left == Unscheduled(v)
          IN  /\ left \in Seq(Entry(B))
              /\ \A i, j \in DOMAIN left : left[i].req = left[j].req => i = j
              /\ {left[i].req : i \in DOMAIN left} = Scheduled \ {v}
              /\ \A i \in DOMAIN left : \E j \in DOMAIN sched : left[i] = sched[j]
      BY <1>a, <1>g, UnscheduledFacts
    <2>2. Scheduled' = {sched'[i].req : i \in DOMAIN sched'}
      BY DEF Scheduled
    <2> HIDE DEF Scheduled
    <2> QED  BY <1>0, <2>1, <2>2
  <1>i. NumScheduledTokens(v) \in Int
    BY <1>g, ScheduledFacts
  <1>j. pc' \in {"waiting", "alloc"}
    BY <1>0
  <1>1. ControlTypes'
    <2>1. \E C : sched' \in Seq(Entry(C))
      BY <1>h
    <2>2. preempted_reqs' \subseteq Requests
      BY <1>0, <1>a, <1>f
    <2> QED  BY <2>1, <2>2, <1>0, <1>e, <1>f, <1>j DEF ControlInv, ControlTypes
  <1>2. NumberTypes'
    <2>1. NumberTypes
      BY DEF ControlInv
    <2>2. token_budget' \in Int /\ req_index' \in Int
      BY <1>0, <1>a, <1>i
    <2>3. pc' = "alloc" => cur' \in Requests \X Int
      BY <2>1, <1>0 DEF NumberTypes
    <2>4. num_computed_tokens' \in [Requests -> Int]
      BY <2>1, <1>f DEF NumberTypes
    <2> QED  BY <2>1, <2>2, <2>3, <2>4, <1>0, <1>f DEF NumberTypes
  <1>3. BatchesInFlight'
    BY <1>0, <1>a, <1>j DEF ControlInv, BatchesInFlight
  <1>4. StepInOrder'
    <2>1. StepInOrder
      BY DEF ControlInv
    <2>2. Len(running') <= MaxNumRunningReqs
      <3>1. Len(running) <= MaxNumRunningReqs /\ Len(running) \in Nat /\ Len(running') \in Nat
        BY <2>1, <1>a, <1>e DEF StepInOrder
      <3> QED  BY <3>1, <1>e, SchedulerConfig
    <2>3. Scheduled' \subseteq Range(running')
      BY <1>a, <1>e, <1>h
    <2>4. ASSUME pc' = "alloc"
          PROVE  /\ req_index' >= 1
                 /\ \A k \in DOMAIN running' : running'[k] \in Scheduled' => k < req_index'
                 /\ cur'[1] \in Range(running') \ Scheduled'
                 /\ \A k \in DOMAIN running' : running'[k] = cur'[1] => k <= req_index'
      <3>1. v # cur[1] /\ cur' = cur
        BY <2>4, <1>0
      <3>2. /\ \A k \in DOMAIN running : running[k] \in Scheduled => k < req_index
            /\ \A k \in DOMAIN running : running[k] = cur[1] => k <= req_index
        BY <2>1, <1>0 DEF StepInOrder
      <3>3. cur'[1] \in Range(running') \ Scheduled'
        BY <3>1, <1>a, <1>e, <1>h
      <3>4. DOMAIN running = 1 .. Len(running) /\ DOMAIN running' = 1 .. Len(running')
            /\ Len(running) \in Nat /\ Len(running') \in Nat
        BY <1>a, <1>e
      <3>5. CASE v \notin Scheduled
        <4>1. req_index' = req_index /\ Scheduled' = Scheduled
          BY <3>5, <1>0, <1>h
        <4>2. ASSUME NEW k \in DOMAIN running', running'[k] \in Scheduled PROVE k < req_index
          <5>1. PICK j \in DOMAIN running : running[j] = running'[k] /\ k <= j
            BY <1>e
          <5>2. j < req_index
            BY <4>2, <5>1, <3>2
          <5> QED  BY <5>1, <5>2, <3>4, <1>a
        <4>3. ASSUME NEW k \in DOMAIN running', running'[k] = cur[1] PROVE k <= req_index
          <5>1. PICK j \in DOMAIN running : running[j] = running'[k] /\ k <= j
            BY <1>e
          <5>2. j <= req_index
            BY <4>3, <5>1, <3>2
          <5> QED  BY <5>1, <5>2, <3>4, <1>a
        <4> QED  BY <4>1, <4>2, <4>3, <3>1, <3>3, <1>a
      <3>6. CASE v \in Scheduled
        <4>1. req_index' = req_index - 1 /\ Scheduled' = Scheduled \ {v}
          BY <3>6, <1>0, <1>h
        <4>2. PICK p \in DOMAIN running : running[p] = v
          BY <1>c, <1>a DEF Range
        <4>3. p < req_index /\ p \in Nat /\ p >= 1
          BY <4>2, <3>2, <3>4, <3>6
        <4>4. ASSUME NEW k \in DOMAIN running', running'[k] \in Scheduled \ {v} PROVE k < req_index - 1
          <5>1. PICK j \in DOMAIN running : running[j] = running'[k] /\ k <= j /\ (j > p => k < j)
            BY <1>e, <4>2
          <5>2. j < req_index /\ j # p
            BY <4>4, <5>1, <4>2, <3>2
          <5> QED  BY <5>1, <5>2, <4>3, <3>4, <1>a
        <4>5. ASSUME NEW k \in DOMAIN running', running'[k] = cur[1] PROVE k <= req_index - 1
          <5>1. PICK j \in DOMAIN running : running[j] = running'[k] /\ k <= j /\ (j > p => k < j)
            BY <1>e, <4>2
          <5>2. j <= req_index /\ j # p
            BY <4>5, <5>1, <4>2, <3>1, <3>2
          <5> QED  BY <5>1, <5>2, <4>3, <3>4, <1>a
        <4>6. req_index - 1 >= 1
          BY <4>3, <1>a
        <4> QED  BY <4>1, <4>4, <4>5, <4>6, <3>1, <3>3, <1>a
      <3> QED  BY <3>5, <3>6
    <2> QED  BY <2>2, <2>3, <2>4, <1>h, <1>j DEF StepInOrder, InSchedule
  <1>5. Resumptions'
    <2>1. Resumptions /\ prev_step_scheduled_req_ids \subseteq Requests
      BY DEF ControlInv, ControlTypes
    <2>2. ASSUME NEW q \in prev_step_scheduled_req_ids, status'[q] = "PREEMPTED"
          PROVE  q \in preempted_reqs'
      BY <2>1, <2>2, <1>0, <1>f DEF Resumptions
    <2>3. ASSUME NEW i \in DOMAIN sched', sched'[i].kind = "resumed"
          PROVE  sched'[i].req \notin prev_step_scheduled_req_ids
      <3>1. PICK j \in DOMAIN sched : sched'[i] = sched[j]
        BY <1>h
      <3> QED  BY <3>1, <2>1, <2>3 DEF Resumptions
    <2> QED  BY <2>2, <2>3, <1>0, <1>j DEF Resumptions, InSchedule
  <1>6. Sleeping'
    BY <1>0, <1>b, <1>j DEF ControlInv, Sleeping
  <1>7. ResetPending'
    BY <1>0, <1>j DEF ControlInv, ResetPending
  <1>8. Placeholders'
    <2>1. \A q : SamplesInFlight(q)' = SamplesInFlight(q)
      BY <1>0, <1>j, SamplesKept
    <2> QED  BY <2>1, <1>0, <1>f DEF ControlInv, PlaceholdersOf, Placeholders, Distinct
  <1> QED  BY <1>1, <1>2, <1>3, <1>4, <1>5, <1>6, <1>7, <1>8, <1>f DEF ControlInv

(* A sequence over a set is one over any larger set. *)
LEMMA SeqGrows ==
    ASSUME NEW S, NEW T, S \subseteq T, NEW s \in Seq(S)
    PROVE  s \in Seq(T)
  OBVIOUS

(* A scheduled request joins the step at its end. *)
LEMMA ScheduledAppend ==
    ASSUME NEW B, sched \in Seq(Entry(B)),
           \A i, j \in DOMAIN sched : sched[i].req = sched[j].req => i = j,
           NEW e, e \in Entry({e.blocks}), e.req \notin Scheduled
    PROVE  /\ Append(sched, e) \in Seq(Entry(B \cup {e.blocks}))
           /\ \A i, j \in DOMAIN Append(sched, e) :
                 Append(sched, e)[i].req = Append(sched, e)[j].req => i = j
           /\ {Append(sched, e)[i].req : i \in DOMAIN Append(sched, e)} = Scheduled \cup {e.req}
           /\ \A i \in DOMAIN Append(sched, e) :
                 Append(sched, e)[i] = e \/ \E j \in DOMAIN sched : Append(sched, e)[i] = sched[j]
  <1> DEFINE C    == B \cup {e.blocks}
             new  == Append(sched, e)
             last == Len(sched) + 1
  <1>1. Entry(B) \subseteq Entry(C) /\ e \in Entry(C)
    BY DEF Entry
  <1> HIDE DEF C
  <1>2. sched \in Seq(Entry(C)) /\ e \in Entry(C)
    BY <1>1, SeqGrows
  <1>3. /\ new \in Seq(Entry(C)) /\ DOMAIN sched = 1 .. Len(sched)
        /\ Len(sched) \in Nat /\ DOMAIN new = 1 .. last
        /\ \A k \in 1 .. last : new[k] = IF k = last THEN e ELSE sched[k]
    BY <1>2
  <1>4. last \notin 1 .. Len(sched) /\ 1 .. last = (1 .. Len(sched)) \cup {last}
    BY <1>3
  <1> HIDE DEF new, last
  <1>5. \A i \in 1 .. Len(sched) : sched[i].req # e.req
    BY <1>3 DEF Scheduled
  <1>6. \A i, j \in DOMAIN new : new[i].req = new[j].req => i = j
    BY <1>3, <1>4, <1>5
  <1>7. {new[i].req : i \in DOMAIN new} = Scheduled \cup {e.req}
    BY <1>3, <1>4 DEF Scheduled
  <1>8. \A i \in DOMAIN new : new[i] = e \/ \E j \in DOMAIN sched : new[i] = sched[j]
    BY <1>3, <1>4
  <1> QED  BY <1>3, <1>6, <1>7, <1>8 DEF new, C

(* allocate_slots changes the table of its request. *)
LEMMA AllocateSlotsSteps ==
    ASSUME DOMAIN req_to_blocks = Requests, NEW r \in Requests, NEW hits, NEW total,
           AllocateSlots(r, hits, total)
    PROVE  /\ DOMAIN req_to_blocks' = Requests
           /\ \A q \in Requests \ {r} : req_to_blocks'[q] = req_to_blocks[q]
  BY DEF AllocateSlots

(* The request at hand gets its slots. *)
LEMMA ScheduleRunningInv ==
    ASSUME ControlInv, ScheduleRunning
    PROVE  ControlInv'
  <1> DEFINE r == cur[1]
             n == cur[2]
             blocks == SubSeq(req_to_blocks'[r], Len(req_to_blocks[r]) + 1, Len(req_to_blocks'[r]))
             e == [req |-> r, n |-> n, kind |-> "running", blocks |-> blocks]
  <1>0. /\ UNCHANGED <<status, num_prompt_tokens, num_computed_tokens, num_output_placeholders,
                       discard_latest_async_tokens, all_token_ids, running, waiting,
                       finished_req_ids>>
        /\ UNCHANGED <<cur, batch_queue, outputs, stopped>>
        /\ UNCHANGED <<prev_step_scheduled_req_ids, preempted_reqs, pause_state, sleep_call, asleep>>
        /\ pc = "alloc" /\ pc' = "running"
        /\ AllocateSlots(r, <<>>, num_computed_tokens[r] + n)
        /\ sched' = Append(sched, e)
        /\ token_budget' = token_budget - n
        /\ req_index' = req_index + 1
    BY DEF ScheduleRunning, workervars, flightvars, sleepvars, queuevars, reqvars
  <1>a. /\ running \in Seq(Requests) /\ IsInjective(running) /\ outputs = <<>>
        /\ r \in Range(running) \ Scheduled /\ Scheduled \subseteq Range(running)
        /\ \A i, j \in DOMAIN sched : sched[i].req = sched[j].req => i = j
        /\ req_index \in Int /\ req_index >= 1 /\ token_budget \in Int /\ n \in Int
        /\ DOMAIN req_to_blocks = Requests
    BY <1>0 DEF ControlInv, ControlTypes, NumberTypes, QueuesExact, BatchesInFlight, StepInOrder
  <1>b. r \in Requests \ Scheduled /\ running # <<>> /\ status[r] = "RUNNING"
    BY <1>a DEF Range, ControlInv, QueuesExact
  <1>c. DOMAIN req_to_blocks' = Requests /\ \A q \in Requests \ {r} : req_to_blocks'[q] = req_to_blocks[q]
    BY <1>0, <1>a, <1>b, AllocateSlotsSteps
  <1>d. PICK B : sched \in Seq(Entry(B))
    BY DEF ControlInv, ControlTypes
  <1>e. e \in Entry({e.blocks}) /\ e.req = r /\ e.kind = "running" /\ r \notin Scheduled
    <2> HIDE DEF r, n, blocks
    <2> QED  BY <1>a, <1>b DEF Entry
  <1> HIDE DEF r, n, blocks, e
  <1>g. /\ sched' \in Seq(Entry(B \cup {e.blocks}))
        /\ \A i, j \in DOMAIN sched' : sched'[i].req = sched'[j].req => i = j
        /\ \A i \in DOMAIN sched' : sched'[i] = e \/ \E j \in DOMAIN sched : sched'[i] = sched[j]
        /\ {sched'[i].req : i \in DOMAIN sched'} = Scheduled \cup {r}
    BY <1>0, <1>a, <1>d, <1>e, ScheduledAppend
  <1>h. Scheduled' = Scheduled \cup {r}
    <2>1. Scheduled' = {sched'[i].req : i \in DOMAIN sched'}
      BY DEF Scheduled
    <2> HIDE DEF Scheduled
    <2> QED  BY <2>1, <1>g
  <1>1. ControlTypes'
    BY <1>0, <1>c, <1>g DEF ControlInv, ControlTypes
  <1>2. NumberTypes'
    <2>1. token_budget' \in Int /\ req_index' \in Int
      BY <1>0, <1>a
    <2> QED  BY <2>1, <1>0 DEF ControlInv, NumberTypes
  <1>3. BatchesInFlight'
    BY <1>0, <1>a DEF ControlInv, BatchesInFlight
  <1>4. StepInOrder'
    <2>1. /\ \A k \in DOMAIN running : running[k] \in Scheduled => k < req_index
          /\ \A k \in DOMAIN running : running[k] = r => k <= req_index
          /\ Len(running) <= MaxNumRunningReqs
      BY <1>0 DEF ControlInv, StepInOrder, r
    <2>2. \A k \in DOMAIN running : k \in Int
      BY <1>a
    <2>3. \A k \in DOMAIN running : running[k] \in Scheduled \cup {r} => k < req_index + 1
      BY <2>1, <2>2, <1>a
    <2>4. req_index + 1 >= 1
      BY <1>a
    <2> QED  BY <2>1, <2>3, <2>4, <1>0, <1>a, <1>g, <1>h DEF StepInOrder, InSchedule
  <1>5. Resumptions'
    <2>1. Resumptions
      BY DEF ControlInv
    <2>2. ASSUME NEW i \in DOMAIN sched', sched'[i].kind = "resumed"
          PROVE  sched'[i].req \notin prev_step_scheduled_req_ids
      BY <2>1, <2>2, <1>e, <1>g DEF Resumptions
    <2> QED  BY <2>1, <2>2, <1>0 DEF Resumptions, InSchedule
  <1>6. Sleeping'
    BY <1>0, <1>b DEF ControlInv, Sleeping
  <1>7. ResetPending'
    BY <1>0 DEF ControlInv, ResetPending
  <1>8. QueuesExact'
    BY <1>0, <1>b, <1>c DEF ControlInv, QueuesExact
  <1>9. FinishedEnded'
    BY <1>0 DEF ControlInv, FinishedEnded
  <1>10. Placeholders'
    BY <1>0, PlaceholdersKept DEF ControlInv
  <1> QED  BY <1>1, <1>2, <1>3, <1>4, <1>5, <1>6, <1>7, <1>8, <1>9, <1>10 DEF ControlInv

(* A prefix hit is a sequence of blocks. *)
LEMMA NumHitsType ==
    ASSUME NumberTypes, NEW r \in Requests, NEW hits \in GetComputedBlocks(r)
    PROVE  /\ NumTokens(r) \in Nat
           /\ NumHits(r) \in Nat /\ Len(hits) = NumHits(r) /\ DOMAIN hits = 1 .. Len(hits)
           /\ Len(hits) * BlockSize \in Nat
  <1> DEFINE max_num_blocks == (NumTokens(r) - 1) \div BlockSize
             S == {n \in 1 .. max_num_blocks : \A i \in 1 .. n : IsCached(r, i)}
  <1>1. NumTokens(r) \in Nat
    BY DEF NumberTypes, NumTokens
  <1>2. max_num_blocks \in Int
    BY <1>1, BlockSizes
  <1>3. NumHits(r) = Cardinality(S)
    BY DEF NumHits
  <1> HIDE DEF max_num_blocks
  <1>4. IsFiniteSet(1 .. max_num_blocks) /\ S \in SUBSET (1 .. max_num_blocks)
    BY <1>2, FS_Interval
  <1>5. NumHits(r) \in Nat
    BY <1>3, <1>4, FS_Subset, FS_CardinalityType
  <1>6. hits \in [1 .. NumHits(r) -> HitBlocks(r)]
    BY DEF GetComputedBlocks
  <1>7. Len(hits) = NumHits(r)
    BY <1>5, <1>6
  <1>8. Len(hits) * BlockSize \in Nat
    BY <1>5, <1>7, MulMonotone
  <1> QED  BY <1>1, <1>5, <1>6, <1>7, <1>8

(* What the second loop of schedule() gives a waiting request. *)
LEMMA NumNewWaitingFacts ==
    ASSUME NumberTypes, NEW r \in Requests, NEW hits \in GetComputedBlocks(r)
    PROVE  LET left == NumTokens(r) - Len(hits) * BlockSize
           IN  /\ left \in Int /\ NumNewWaiting(r, hits) \in Int
               /\ NumNewWaiting(r, hits) <= left /\ NumNewWaiting(r, hits) <= token_budget
               /\ left > 0 /\ token_budget > 0 => NumNewWaiting(r, hits) > 0
  <1> DEFINE left == NumTokens(r) - Len(hits) * BlockSize
  <1>1. left \in Int /\ token_budget \in Int
    BY NumHitsType DEF NumberTypes
  <1>2. NumNewWaiting(r, hits) = Min({Capped(left), token_budget})
    BY DEF NumNewWaiting
  <1> HIDE DEF left
  <1>3. Capped(left) \in Int /\ Capped(left) <= left /\ (left > 0 => Capped(left) > 0)
    BY <1>1, SchedulerConfig DEF Capped
  <1>4. Min({Capped(left), token_budget}) =
            IF Capped(left) <= token_budget THEN Capped(left) ELSE token_budget
    BY <1>1, <1>3, MinOfTwo
  <1> QED  BY <1>1, <1>2, <1>3, <1>4 DEF left

(* A waiting request is admitted. *)
LEMMA ScheduleWaitingInv ==
    ASSUME ControlInv, ScheduleWaiting
    PROVE  ControlInv'
  <1> DEFINE r == Head(waiting)
  <1>1. PICK hits \in GetComputedBlocks(r) :
            LET n == NumNewWaiting(r, hits)
            IN  /\ AllocateSlots(r, hits, Len(hits) * BlockSize + n)
                /\ running' = Append(running, r)
                /\ waiting' = Tail(waiting)
                /\ sched' = Append(sched, [req |-> r, n |-> n,
                       kind |-> IF status[r] = "WAITING" THEN "new" ELSE "resumed",
                       blocks |-> req_to_blocks'[r]])
                /\ token_budget' = token_budget - n
                /\ status' = [status EXCEPT ![r] = "RUNNING"]
                /\ num_computed_tokens' = [num_computed_tokens EXCEPT ![r] = Len(hits) * BlockSize]
    BY DEF ScheduleWaiting
  <1> DEFINE n == NumNewWaiting(r, hits)
             e == [req |-> r, n |-> n, kind |-> IF status[r] = "WAITING" THEN "new" ELSE "resumed",
                   blocks |-> req_to_blocks'[r]]
  <1>2. /\ AllocateSlots(r, hits, Len(hits) * BlockSize + n)
        /\ running' = Append(running, r) /\ waiting' = Tail(waiting) /\ sched' = Append(sched, e)
        /\ token_budget' = token_budget - n
        /\ status' = [status EXCEPT ![r] = "RUNNING"]
        /\ num_computed_tokens' = [num_computed_tokens EXCEPT ![r] = Len(hits) * BlockSize]
    BY <1>1
  <1>0. /\ UNCHANGED <<num_prompt_tokens, num_output_placeholders, discard_latest_async_tokens,
                       all_token_ids, finished_req_ids, req_index, pc>>
        /\ UNCHANGED <<cur, batch_queue, outputs, stopped>>
        /\ UNCHANGED <<prev_step_scheduled_req_ids, preempted_reqs, pause_state, sleep_call, asleep>>
        /\ pc = "waiting" /\ preempted_reqs = {} /\ pause_state = "UNPAUSED" /\ waiting # <<>>
        /\ Len(running) < MaxNumRunningReqs
    BY DEF ScheduleWaiting, MoreWaiting, workervars, flightvars, sleepvars
  <1>a. /\ running \in Seq(Requests) /\ IsInjective(running)
        /\ waiting \in Seq(Requests) /\ IsInjective(waiting) /\ outputs = <<>>
        /\ Scheduled \subseteq Range(running)
        /\ \A i, j \in DOMAIN sched : sched[i].req = sched[j].req => i = j
        /\ token_budget \in Int /\ DOMAIN req_to_blocks = Requests /\ NumberTypes
        /\ QueuesExact
        /\ status \in [Requests -> {"none", "WAITING", "RUNNING", "PREEMPTED"}]
    BY <1>0 DEF ControlInv, ControlTypes, NumberTypes, QueuesExact, BatchesInFlight, StepInOrder
  <1>b. /\ r \in Range(waiting) /\ waiting' \in Seq(Requests) /\ IsInjective(waiting')
        /\ Range(waiting') = Range(waiting) \ {r}
    BY <1>0, <1>2, <1>a, TailFacts
  <1>c. r \in Requests /\ status[r] \in {"WAITING", "PREEMPTED"} /\ r \notin Range(running)
    BY <1>a, <1>b DEF QueuesExact
  <1>d. n \in Int /\ Len(hits) * BlockSize \in Int
    BY <1>a, <1>c, NumHitsType, NumNewWaitingFacts
  <1>e. /\ e \in Entry({e.blocks}) /\ e.req = r /\ r \notin Scheduled
        /\ e.kind = "resumed" => status[r] = "PREEMPTED"
    <2> HIDE DEF r, n
    <2> QED  BY <1>a, <1>c, <1>d DEF Entry
  <1> HIDE DEF r, n, e
  <1>f. PICK B : sched \in Seq(Entry(B))
    BY DEF ControlInv, ControlTypes
  <1>g. /\ sched' \in Seq(Entry(B \cup {e.blocks}))
        /\ \A i, j \in DOMAIN sched' : sched'[i].req = sched'[j].req => i = j
        /\ \A i \in DOMAIN sched' : sched'[i] = e \/ \E j \in DOMAIN sched : sched'[i] = sched[j]
        /\ {sched'[i].req : i \in DOMAIN sched'} = Scheduled \cup {r}
    <2>1. /\ sched' = Append(sched, e) /\ e \in Entry({e.blocks}) /\ e.req \notin Scheduled /\ e.req = r
          /\ \A i, j \in DOMAIN sched : sched[i].req = sched[j].req => i = j
      BY <1>2, <1>a, <1>e
    <2>2. /\ Append(sched, e) \in Seq(Entry(B \cup {e.blocks}))
          /\ \A i, j \in DOMAIN Append(sched, e) :
                Append(sched, e)[i].req = Append(sched, e)[j].req => i = j
          /\ {Append(sched, e)[i].req : i \in DOMAIN Append(sched, e)} = Scheduled \cup {e.req}
          /\ \A i \in DOMAIN Append(sched, e) :
                Append(sched, e)[i] = e \/ \E j \in DOMAIN sched : Append(sched, e)[i] = sched[j]
      BY <2>1, <1>f, ScheduledAppend, Zenon
    <2> QED  BY <2>1, <2>2
  <1>h. Scheduled' = Scheduled \cup {r}
    <2>1. Scheduled' = {sched'[i].req : i \in DOMAIN sched'}
      BY DEF Scheduled
    <2> HIDE DEF Scheduled
    <2> QED  BY <2>1, <1>g
  <1>i. /\ running' \in Seq(Requests) /\ IsInjective(running')
        /\ Range(running') = Range(running) \cup {r} /\ Len(running') = Len(running) + 1
    BY <1>2, <1>a, <1>c, AppendFacts
  <1>j. DOMAIN req_to_blocks' = Requests /\ \A q \in Requests \ {r} : req_to_blocks'[q] = req_to_blocks[q]
    BY <1>2, <1>a, <1>c, AllocateSlotsSteps
  <1>k. \A q \in Requests : /\ status'[q] = IF q = r THEN "RUNNING" ELSE status[q]
                            /\ q # r => num_computed_tokens'[q] = num_computed_tokens[q]
    BY <1>2, <1>a DEF NumberTypes
  <1>3. ControlTypes'
    BY <1>0, <1>2, <1>b, <1>c, <1>g, <1>i, <1>j DEF ControlInv, ControlTypes
  <1>4. NumberTypes'
    <2>1. token_budget' \in Int
      BY <1>2, <1>a, <1>d
    <2>2. num_computed_tokens' \in [Requests -> Int]
      BY <1>2, <1>a, <1>d DEF NumberTypes
    <2> QED  BY <2>1, <2>2, <1>0, <1>a DEF NumberTypes
  <1>5. BatchesInFlight'
    BY <1>0, <1>a DEF ControlInv, BatchesInFlight
  <1>6. StepInOrder'
    <2>1. Len(running') <= MaxNumRunningReqs
      <3>1. Len(running) \in Nat
        BY <1>a
      <3> QED  BY <3>1, <1>0, <1>i, SchedulerConfig
    <2> QED  BY <2>1, <1>0, <1>a, <1>g, <1>h, <1>i DEF StepInOrder, InSchedule
  <1>7. Resumptions'
    <2>1. Resumptions /\ prev_step_scheduled_req_ids \subseteq Requests
      BY DEF ControlInv, ControlTypes
    <2>2. \A q \in prev_step_scheduled_req_ids : status[q] # "PREEMPTED"
      BY <2>1, <1>0 DEF Resumptions
    <2>3. ASSUME NEW i \in DOMAIN sched', sched'[i].kind = "resumed"
          PROVE  sched'[i].req \notin prev_step_scheduled_req_ids
      <3>1. CASE sched'[i] = e
        BY <3>1, <2>2, <2>3, <1>e
      <3>2. CASE \E j \in DOMAIN sched : sched'[i] = sched[j]
        BY <3>2, <2>1, <2>3 DEF Resumptions
      <3> QED  BY <3>1, <3>2, <1>g
    <2>4. \A q \in prev_step_scheduled_req_ids : status'[q] # "PREEMPTED"
      BY <2>1, <2>2, <1>k
    <2> QED  BY <2>3, <2>4, <1>0 DEF Resumptions
  <1>8. Sleeping'
    BY <1>0 DEF ControlInv, Sleeping
  <1>9. ResetPending'
    BY <1>0 DEF ControlInv, ResetPending
  <1>10. QueuesExact'
    <2>1. Range(running') = {q \in Requests : status'[q] = "RUNNING"}
      BY <1>a, <1>c, <1>i, <1>k DEF QueuesExact
    <2>2. Range(waiting') = {q \in Requests : status'[q] \in {"WAITING", "PREEMPTED"}}
      BY <1>a, <1>b, <1>k DEF QueuesExact
    <2>3. ASSUME NEW q \in Requests, status'[q] # "RUNNING"
          PROVE  req_to_blocks'[q] = <<>> /\ num_computed_tokens'[q] = 0
      BY <2>3, <1>a, <1>j, <1>k DEF QueuesExact
    <2> QED  BY <2>1, <2>2, <2>3, <1>b, <1>i DEF QueuesExact
  <1>11. FinishedEnded'
    <2>1. finished_req_ids \subseteq Requests
      BY DEF ControlInv, ControlTypes
    <2> QED  BY <2>1, <1>0, <1>c, <1>k DEF ControlInv, FinishedEnded
  <1>12. Placeholders'
    <2>1. \A q : SamplesInFlight(q)' = SamplesInFlight(q)
      BY <1>0, SamplesKept
    <2> QED  BY <2>1, <1>0, <1>c, <1>k DEF ControlInv, PlaceholdersOf, Placeholders, Distinct
  <1> QED  BY <1>3, <1>4, <1>5, <1>6, <1>7, <1>8, <1>9, <1>10, <1>11, <1>12 DEF ControlInv

(* A batch leaves for the workers and the step is over. *)
LEMMA DispatchInv ==
    ASSUME ControlInv, Dispatch
    PROVE  ControlInv'
  <1> DEFINE batch == [i \in DOMAIN sched |->
                          [req |-> sched[i].req,
                           pos |-> IF IsPrefillChunk(sched[i]) THEN 0
                                   ELSE num_computed_tokens[sched[i].req] + sched[i].n + 1]]
  <1>0. /\ UNCHANGED <<status, num_prompt_tokens, discard_latest_async_tokens, all_token_ids,
                       req_to_blocks, cached_block_hash_to_block, running, waiting>>
        /\ UNCHANGED <<outputs, stopped, pause_state, sleep_call, asleep>>
        /\ pc = "dispatch" /\ finished_req_ids' = {} /\ prev_step_scheduled_req_ids' = Scheduled
        /\ num_computed_tokens' = [r \in Requests |-> num_computed_tokens[r] + NumScheduledTokens(r)]
        /\ num_output_placeholders' = [r \in Requests |->
              num_output_placeholders[r] + (IF AsyncScheduling /\ Samples(batch, r) THEN 1 ELSE 0)]
        /\ batch_queue' = Append(batch_queue, batch)
        /\ sched' = <<>> /\ preempted_reqs' = {} /\ req_index' = 1 /\ token_budget' = 0
        /\ \/ pc' = "result"
           \/ Len(batch_queue) + 1 < BatchQueueSize /\ pc' = "idle"
    BY DEF Dispatch, PrevStep, MayScheduleNext, kvvars, tablevars, poolvars, sleepvars
  <1>a. PICK B : sched \in Seq(Entry(B))
    BY DEF ControlInv, ControlTypes
  <1>b. /\ \A i, j \in DOMAIN sched : sched[i].req = sched[j].req => i = j
        /\ batch_queue \in Seq(Seq(Output)) /\ outputs = <<>> /\ Scheduled \subseteq Range(running)
        /\ Len(batch_queue) < BatchQueueSize
        /\ NumberTypes /\ QueuesExact /\ Placeholders /\ Sleeping
    BY <1>0 DEF ControlInv, ControlTypes, BatchesInFlight, StepInOrder
  <1>c. DOMAIN sched = 1 .. Len(sched) /\ Len(sched) \in Nat
        /\ \A i \in DOMAIN sched : sched[i] \in Entry(B)
    BY <1>a
  <1>d. \A i \in DOMAIN sched : sched[i].req \in Requests /\ sched[i].n \in Int
    BY <1>c DEF Entry
  <1>e. /\ batch \in Seq(Output) /\ DOMAIN batch = DOMAIN sched
        /\ \A i \in DOMAIN sched : batch[i].req = sched[i].req
    <2> DEFINE pos(i) == IF IsPrefillChunk(sched[i]) THEN 0
                         ELSE num_computed_tokens[sched[i].req] + sched[i].n + 1
    <2>1. \A i \in DOMAIN sched : pos(i) \in Int
      BY <1>b, <1>d DEF NumberTypes
    <2>2. batch = [i \in DOMAIN sched |-> [req |-> sched[i].req, pos |-> pos(i)]]
      OBVIOUS
    <2> HIDE DEF pos, batch
    <2>3. \A i \in DOMAIN sched : batch[i] \in Output /\ batch[i].req = sched[i].req
      BY <2>1, <2>2, <1>d DEF Output
    <2> QED  BY <2>2, <2>3, <1>c
  <1> HIDE DEF batch
  <1>f. Distinct(batch)
    BY <1>b, <1>e DEF Distinct
  <1>g. \A r : Samples(batch, r) => r \in Scheduled
    BY <1>e DEF Samples, Scheduled
  <1>h. \A r : NumScheduledTokens(r) \in Int /\ (r \notin Scheduled => NumScheduledTokens(r) = 0)
    BY <1>a, ScheduledFacts DEF NumScheduledTokens
  <1>i. /\ batch_queue' \in Seq(Seq(Output)) /\ Len(batch_queue') = Len(batch_queue) + 1
        /\ Len(batch_queue) \in Nat
        /\ DOMAIN batch_queue' = 1 .. Len(batch_queue) + 1 /\ DOMAIN batch_queue = 1 .. Len(batch_queue)
        /\ \A k \in 1 .. Len(batch_queue) + 1 :
              batch_queue'[k] = IF k = Len(batch_queue) + 1 THEN batch ELSE batch_queue[k]
    <2>1. /\ Append(batch_queue, batch) \in Seq(Seq(Output))
          /\ Len(Append(batch_queue, batch)) = Len(batch_queue) + 1
          /\ Len(batch_queue) \in Nat /\ DOMAIN batch_queue = 1 .. Len(batch_queue)
          /\ DOMAIN Append(batch_queue, batch) = 1 .. Len(batch_queue) + 1
          /\ \A k \in 1 .. Len(batch_queue) + 1 :
                Append(batch_queue, batch)[k] = IF k = Len(batch_queue) + 1 THEN batch ELSE batch_queue[k]
      BY <1>b, <1>e
    <2> QED  BY <2>1, <1>0
  <1>j. \A k \in 1 .. Len(batch_queue) + 1 : k = Len(batch_queue) + 1 \/ k \in 1 .. Len(batch_queue)
    BY <1>i
  <1>k. pc' \in {"result", "idle"}
    BY <1>0
  <1>1. ControlTypes'
    <2>1. \E C : sched' \in Seq(Entry(C))
      BY <1>0
    <2>2. Scheduled \subseteq Requests
      BY <1>d DEF Scheduled
    <2> QED  BY <2>1, <2>2, <1>0, <1>i, <1>k DEF ControlInv, ControlTypes
  <1>2. NumberTypes'
    <2>1. num_computed_tokens' \in [Requests -> Int]
      BY <1>0, <1>b, <1>h DEF NumberTypes
    <2>2. num_output_placeholders' \in [Requests -> Int]
      BY <1>0, <1>b DEF NumberTypes
    <2> QED  BY <2>1, <2>2, <1>0, <1>b, <1>k DEF NumberTypes
  <1>3. BatchesInFlight'
    <2>1. /\ batch_queue' # <<>> /\ Len(batch_queue') <= BatchQueueSize
          /\ pc' # "result" => Len(batch_queue') < BatchQueueSize
      BY <1>0, <1>b, <1>i, SchedulerConfig
    <2>2. outputs' = <<>>
      BY <1>0, <1>b
    <2> QED  BY <2>1, <2>2, <1>k DEF BatchesInFlight
  <1>4. StepInOrder'
    <2>1. Scheduled' = {} /\ DOMAIN sched' = {}
      BY <1>0 DEF Scheduled
    <2> QED  BY <2>1, <1>0, <1>k DEF ControlInv, StepInOrder, InSchedule
  <1>5. Resumptions'
    <2>1. \A r \in Scheduled : status[r] = "RUNNING"
      BY <1>b DEF QueuesExact
    <2>2. DOMAIN sched' = {}
      BY <1>0
    <2> QED  BY <2>1, <2>2, <1>0 DEF Resumptions
  <1>6. Sleeping'
    <2>1. asleep => batch = <<>>
      BY <1>b, <1>c, <1>e DEF Sleeping
    <2>2. asleep => \A k \in DOMAIN batch_queue' : batch_queue'[k] = <<>>
      BY <2>1, <1>b, <1>i, <1>j DEF Sleeping
    <2> QED  BY <2>2, <1>0, <1>b, <1>k DEF Sleeping
  <1>7. ResetPending'
    BY <1>0, <1>k DEF ControlInv, ResetPending
  <1>8. QueuesExact'
    <2>1. \A r \in Requests : status[r] # "RUNNING" => r \notin Scheduled
      BY <1>b DEF QueuesExact
    <2>2. ASSUME NEW r \in Requests, status[r] # "RUNNING" PROVE num_computed_tokens'[r] = 0
      BY <2>1, <2>2, <1>0, <1>b, <1>h DEF QueuesExact
    <2> QED  BY <2>2, <1>0, <1>b DEF QueuesExact
  <1>9. FinishedEnded'
    BY <1>0 DEF FinishedEnded
  <1>10. Placeholders'
    <2>1. ASSUME NEW r \in Requests
          PROVE  SamplesInFlight(r)' = SamplesInFlight(r) + One(Samples(batch, r)) /\ SamplesInFlight(r) \in Nat
      <3>1. /\ SamplesInFlight(r) = Cardinality(BatchesOf(batch_queue, r)) + One(Samples(Pending, r))
            /\ Cardinality(BatchesOf(batch_queue, r)) \in Nat
        BY <1>b, SamplesSplit, BatchesCounted
      <3>2. SamplesInFlight(r)' = Cardinality(BatchesOf(batch_queue', r)) + One(Samples(Pending, r))'
        BY DEF SamplesInFlight, BatchesOf, Pending, One, Samples
      <3>3. One(Samples(Pending, r)) = 0 /\ One(Samples(Pending, r))' = 0
        BY <1>0, <1>b, <1>k DEF One, Samples, Pending
      <3>4. Cardinality(BatchesOf(Append(batch_queue, batch), r))
                = Cardinality(BatchesOf(batch_queue, r)) + One(Samples(batch, r))
        BY <1>b, <1>e, BatchesAppend
      <3>5. One(Samples(batch, r)) \in Nat
        BY DEF One
      <3> QED  BY <3>1, <3>2, <3>3, <3>4, <3>5, <1>0
    <2>2. ASSUME NEW r \in Requests
          PROVE  /\ num_output_placeholders'[r] = num_output_placeholders[r]
                        + (IF AsyncScheduling /\ Samples(batch, r) THEN 1 ELSE 0)
                 /\ num_output_placeholders[r] \in Int
      BY <1>0, <1>b DEF NumberTypes
    <2>3. \A r \in Requests : Samples(batch, r) => status[r] # "none"
      BY <1>b, <1>g DEF QueuesExact
    <2>4. Distinct(outputs)' /\ \A i \in DOMAIN batch_queue' : Distinct(batch_queue[i])'
      BY <1>0, <1>b, <1>f, <1>i, <1>j DEF Placeholders, Distinct
    <2>5. ASSUME NEW r \in Requests
          PROVE /\ ~AsyncScheduling \/ status[r] = "none" => num_output_placeholders'[r] = 0
                /\ status[r] = "none" => ~discard_latest_async_tokens[r]
                /\ AsyncScheduling /\ NeverResets /\ status[r] # "none" =>
                      /\ num_output_placeholders'[r] = SamplesInFlight(r)'
                      /\ ~discard_latest_async_tokens[r]
                /\ AsyncScheduling /\ DiscardsSuffice /\ status[r] # "none" =>
                      /\ num_output_placeholders'[r] >= 0
                      /\ SamplesInFlight(r)' <=
                            num_output_placeholders'[r] + IF discard_latest_async_tokens[r] THEN 1 ELSE 0
      <3>1. /\ ~AsyncScheduling \/ status[r] = "none" => num_output_placeholders[r] = 0
            /\ status[r] = "none" => ~discard_latest_async_tokens[r]
            /\ AsyncScheduling /\ NeverResets /\ status[r] # "none" =>
                  /\ num_output_placeholders[r] = SamplesInFlight(r)
                  /\ ~discard_latest_async_tokens[r]
            /\ AsyncScheduling /\ DiscardsSuffice /\ status[r] # "none" =>
                  /\ num_output_placeholders[r] >= 0
                  /\ SamplesInFlight(r) <=
                        num_output_placeholders[r] + IF discard_latest_async_tokens[r] THEN 1 ELSE 0
        BY <1>b DEF PlaceholdersOf, Placeholders
      <3>2. /\ SamplesInFlight(r)' = SamplesInFlight(r) + IF Samples(batch, r) THEN 1 ELSE 0
            /\ SamplesInFlight(r) \in Nat
        BY <2>1 DEF One
      <3> QED  BY <3>1, <3>2, <2>2, <2>3
    <2> QED  BY <2>4, <2>5, <1>0 DEF PlaceholdersOf, Placeholders
  <1> QED  BY <1>1, <1>2, <1>3, <1>4, <1>5, <1>6, <1>7, <1>8, <1>9, <1>10 DEF ControlInv

(* The thread is done with the first entry of the result at hand, or keeps *)
(* it for what has to follow.                                              *)
LEMMA OutputSteps ==
    ASSUME outputs \in Seq(Output), outputs # <<>>, Distinct(outputs),
           batch_queue \in Seq(Seq(Output)), UNCHANGED batch_queue,
           NextOutput \/ (UNCHANGED outputs /\ pc' \in {"cache", "stop"})
    PROVE  /\ Head(outputs).req \in Requests /\ Head(outputs).pos \in Int
           /\ outputs' \in Seq(Output) /\ Distinct(outputs)'
           /\ pc' \in {"idle", "update", "cache", "stop"}
           /\ pc' # "idle" <=> outputs' # <<>>
           /\ \A r : SamplesInFlight(r)' =
                        Cardinality(BatchesOf(batch_queue, r)) + One(Samples(Tail(outputs), r))
           /\ \A r : Cardinality(BatchesOf(batch_queue, r)) \in Nat
  <1>1. /\ Tail(outputs) \in Seq(Output) /\ Head(outputs) \in Output /\ Distinct(Tail(outputs))
    BY ResultTail
  <1>2. Head(outputs).req \in Requests /\ Head(outputs).pos \in Int
    BY <1>1 DEF Output
  <1>3. \A r : Cardinality(BatchesOf(batch_queue, r)) \in Nat
    BY BatchesCounted
  <1>4. ASSUME NEW r
        PROVE  SamplesInFlight(r)' = Cardinality(BatchesOf(batch_queue, r)) + One(Samples(Pending, r))'
    <2>1. SamplesInFlight(r)' = Cardinality(BatchesOf(batch_queue', r)) + One(Samples(Pending, r))'
      BY DEF SamplesInFlight, BatchesOf, Pending, One, Samples
    <2> QED  BY <2>1
  <1>5. CASE NextOutput
    <2>1. outputs' = Tail(outputs) /\ pc' = IF Tail(outputs) = <<>> THEN "idle" ELSE "update"
      BY <1>5 DEF NextOutput
    <2>2. \A r : One(Samples(Pending, r))' = One(Samples(Tail(outputs), r))
      BY <2>1 DEF Pending, Samples, One
    <2>3. Distinct(outputs)'
      BY <2>1, <1>1 DEF Distinct
    <2> QED  BY <1>1, <1>2, <1>3, <1>4, <2>1, <2>2, <2>3
  <1>6. CASE UNCHANGED outputs /\ pc' \in {"cache", "stop"}
    <2>1. \A r : One(Samples(Pending, r))' = One(Samples(Tail(outputs), r))
      BY <1>6 DEF Pending, Samples, One
    <2>2. Distinct(outputs)'
      BY <1>6 DEF Distinct
    <2> QED  BY <1>2, <1>3, <1>4, <1>6, <2>1, <2>2
  <1> QED  BY <1>5, <1>6

(* Before an entry of the result is taken, its sample is in flight. *)
LEMMA SampleAtHand ==
    ASSUME outputs \in Seq(Output), outputs # <<>>, Distinct(outputs), pc = "update",
           batch_queue \in Seq(Seq(Output)), NEW r
    PROVE  /\ SamplesInFlight(r) = Cardinality(BatchesOf(batch_queue, r))
                 + (IF r = Head(outputs).req /\ Head(outputs).pos # 0 THEN 1 ELSE 0)
                 + One(Samples(Tail(outputs), r))
           /\ ~Samples(Tail(outputs), Head(outputs).req)
  <1>1. /\ ~Samples(Tail(outputs), Head(outputs).req)
        /\ Samples(outputs, r) <=> \/ r = Head(outputs).req /\ Head(outputs).pos # 0
                                   \/ Samples(Tail(outputs), r)
    BY ResultTail
  <1>2. Pending = outputs
    BY DEF Pending
  <1>3. One(Samples(outputs, r)) =
            (IF r = Head(outputs).req /\ Head(outputs).pos # 0 THEN 1 ELSE 0) + One(Samples(Tail(outputs), r))
    BY <1>1 DEF One
  <1>4. SamplesInFlight(r) = Cardinality(BatchesOf(batch_queue, r)) + One(Samples(outputs, r))
    BY <1>2, SamplesSplit
  <1>5. Cardinality(BatchesOf(batch_queue, r)) \in Nat /\ One(Samples(Tail(outputs), r)) \in Nat
    BY BatchesCounted DEF One
  <1> QED  BY <1>1, <1>3, <1>4, <1>5

(* An entry without a token to append is passed over; a token the reset    *)
(* discards takes the flag with it.                                        *)
LEMMA SkipOutputInv ==
    ASSUME ControlInv, SkipOutput
    PROVE  ControlInv'
  <1> DEFINE e == Head(outputs)
             r == e.req
  <1>0. /\ UNCHANGED <<status, num_prompt_tokens, num_computed_tokens, num_output_placeholders,
                       all_token_ids, req_to_blocks, cached_block_hash_to_block, running, waiting,
                       finished_req_ids>>
        /\ UNCHANGED <<cur, batch_queue, stopped, sched, token_budget, req_index>>
        /\ UNCHANGED <<prev_step_scheduled_req_ids, preempted_reqs, pause_state, sleep_call, asleep>>
        /\ pc = "update" /\ NextOutput
        /\ status[r] = "none" \/ e.pos = 0 \/ (AsyncScheduling /\ discard_latest_async_tokens[r])
        /\ discard_latest_async_tokens' = [discard_latest_async_tokens EXCEPT ![r] =
              IF status[r] # "none" /\ e.pos # 0 THEN FALSE ELSE @]
    BY DEF SkipOutput, kvvars, tablevars, poolvars, queuevars, stepvars, workervars, sleepvars
  <1>a. /\ outputs \in Seq(Output) /\ outputs # <<>> /\ Distinct(outputs)
        /\ batch_queue \in Seq(Seq(Output))
        /\ discard_latest_async_tokens \in [Requests -> BOOLEAN]
        /\ Placeholders /\ ControlTypes /\ BatchesInFlight
    BY <1>0 DEF ControlInv, ControlTypes, BatchesInFlight, Placeholders
  <1>b. /\ r \in Requests /\ outputs' \in Seq(Output) /\ Distinct(outputs)'
        /\ pc' \in {"idle", "update"}
        /\ pc' = "update" <=> outputs' # <<>>
        /\ \A q : SamplesInFlight(q)' =
                     Cardinality(BatchesOf(batch_queue, q)) + One(Samples(Tail(outputs), q))
        /\ \A q : Cardinality(BatchesOf(batch_queue, q)) \in Nat
    <2>1. pc' \in {"idle", "update"}
      BY <1>0 DEF NextOutput
    <2> HIDE DEF NextOutput
    <2> QED  BY <2>1, <1>0, <1>a, OutputSteps
  <1>c. \A q : /\ SamplesInFlight(q) = Cardinality(BatchesOf(batch_queue, q))
                     + (IF q = r /\ e.pos # 0 THEN 1 ELSE 0) + One(Samples(Tail(outputs), q))
               /\ ~Samples(Tail(outputs), r)
    BY <1>0, <1>a, SampleAtHand
  <1> HIDE DEF r, e
  <1>1. ControlTypes'
    BY <1>0, <1>a, <1>b DEF ControlTypes
  <1>2. NumberTypes'
    BY <1>0, <1>b DEF ControlInv, NumberTypes
  <1>3. BatchesInFlight'
    BY <1>0, <1>a, <1>b DEF BatchesInFlight
  <1>4. StepInOrder'
    BY <1>0, <1>b DEF ControlInv, StepInOrder, InSchedule, Scheduled
  <1>5. Resumptions'
    BY <1>0, <1>b DEF ControlInv, Resumptions, InSchedule
  <1>6. Sleeping'
    BY <1>0, <1>a, <1>b DEF ControlInv, Sleeping
  <1>7. ResetPending'
    BY <1>0, <1>b DEF ControlInv, ResetPending
  <1>8. QueuesExact'
    BY <1>0 DEF ControlInv, QueuesExact
  <1>9. FinishedEnded'
    BY <1>0 DEF ControlInv, FinishedEnded
  <1>10. Placeholders'
    <2>1. Distinct(outputs)' /\ \A i \in DOMAIN batch_queue' : Distinct(batch_queue[i])'
      BY <1>0, <1>a, <1>b DEF Placeholders, Distinct
    <2>2. ASSUME NEW q \in Requests, q # r
          PROVE  /\ discard_latest_async_tokens'[q] = discard_latest_async_tokens[q]
                 /\ SamplesInFlight(q)' = SamplesInFlight(q)
      <3>1. One(Samples(Tail(outputs), q)) \in Nat
        BY DEF One
      <3> QED  BY <3>1, <2>2, <1>0, <1>b, <1>c
    <2>3. discard_latest_async_tokens'[r] = IF status[r] # "none" /\ e.pos # 0 THEN FALSE
                                            ELSE discard_latest_async_tokens[r]
      BY <1>0, <1>a, <1>b
    <2>4. ASSUME NEW q, q = r
          PROVE  SamplesInFlight(q) = SamplesInFlight(q)' + (IF e.pos # 0 THEN 1 ELSE 0) /\ SamplesInFlight(q)' \in Nat
      <3>1. One(Samples(Tail(outputs), q)) = 0
        BY <2>4, <1>c DEF One
      <3>2. /\ SamplesInFlight(q)' = Cardinality(BatchesOf(batch_queue, q)) + One(Samples(Tail(outputs), q))
            /\ Cardinality(BatchesOf(batch_queue, q)) \in Nat
        BY <1>b
      <3>3. SamplesInFlight(q) = Cardinality(BatchesOf(batch_queue, q))
                     + (IF e.pos # 0 THEN 1 ELSE 0) + One(Samples(Tail(outputs), q))
        BY <2>4, <1>c
      <3> QED  BY <3>1, <3>2, <3>3
    <2>5. num_output_placeholders[r] \in Int
      BY <1>b DEF ControlInv, NumberTypes
    <2>6. /\ status' = status /\ num_output_placeholders' = num_output_placeholders
          /\ status[r] = "none" \/ e.pos = 0 \/ (AsyncScheduling /\ discard_latest_async_tokens[r])
      BY <1>0
    <2>7. ASSUME NEW q \in Requests PROVE PlaceholdersOf(q)'
      <3>1. PlaceholdersOf(q)
        BY <1>a DEF Placeholders, PlaceholdersOf
      <3>2. CASE q # r
        BY <3>1, <3>2, <2>2, <2>6 DEF PlaceholdersOf
      <3>3. CASE q = r
        BY <3>1, <3>3, <2>3, <2>4, <2>5, <2>6 DEF PlaceholdersOf
      <3> QED  BY <3>2, <3>3
    <2> QED  BY <2>1, <2>7 DEF Placeholders, PlaceholdersOf
  <1> QED  BY <1>1, <1>2, <1>3, <1>4, <1>5, <1>6, <1>7, <1>8, <1>9, <1>10 DEF ControlInv

(* A token arrives and its placeholder goes. *)
LEMMA AppendOutputInv ==
    ASSUME ControlInv, AppendOutput
    PROVE  ControlInv'
  <1> DEFINE e == Head(outputs)
             r == e.req
  <1>0. /\ UNCHANGED <<status, num_prompt_tokens, num_computed_tokens, discard_latest_async_tokens,
                       req_to_blocks, cached_block_hash_to_block, running, waiting,
                       finished_req_ids>>
        /\ UNCHANGED <<cur, batch_queue, sched, token_budget, req_index>>
        /\ UNCHANGED <<prev_step_scheduled_req_ids, preempted_reqs, pause_state, sleep_call, asleep>>
        /\ pc = "update" /\ status[r] # "none" /\ e.pos # 0
        /\ ~(AsyncScheduling /\ discard_latest_async_tokens[r])
        /\ all_token_ids' = [all_token_ids EXCEPT ![r] = Append(@, e.pos)]
        /\ num_output_placeholders' = [num_output_placeholders EXCEPT ![r] = PlaceholdersAfter(@)]
        /\ stopped' \in BOOLEAN
        /\ \/ AsyncScheduling /\ status[r] = "RUNNING" /\ pc' = "cache" /\ UNCHANGED outputs
           \/ pc' = "stop" /\ UNCHANGED outputs
           \/ NextOutput
    BY DEF AppendOutput, AppendOutputToken, CheckStop, tablevars, poolvars, queuevars, stepvars,
           workervars, sleepvars
  <1>a. /\ outputs \in Seq(Output) /\ outputs # <<>> /\ Distinct(outputs)
        /\ batch_queue \in Seq(Seq(Output))
        /\ discard_latest_async_tokens \in [Requests -> BOOLEAN]
        /\ Placeholders /\ ControlTypes /\ BatchesInFlight /\ NumberTypes
    BY <1>0 DEF ControlInv, ControlTypes, BatchesInFlight, Placeholders
  <1>b. /\ r \in Requests /\ e.pos \in Int /\ outputs' \in Seq(Output) /\ Distinct(outputs)'
        /\ pc' \in {"idle", "update", "cache", "stop"}
        /\ pc' # "idle" <=> outputs' # <<>>
        /\ \A q : SamplesInFlight(q)' =
                     Cardinality(BatchesOf(batch_queue, q)) + One(Samples(Tail(outputs), q))
        /\ \A q : Cardinality(BatchesOf(batch_queue, q)) \in Nat
    <2>1. NextOutput \/ (UNCHANGED outputs /\ pc' \in {"cache", "stop"})
      BY <1>0
    <2> QED  BY <2>1, <1>0, <1>a, OutputSteps
  <1>c. \A q : /\ SamplesInFlight(q) = Cardinality(BatchesOf(batch_queue, q))
                     + (IF q = r /\ e.pos # 0 THEN 1 ELSE 0) + One(Samples(Tail(outputs), q))
               /\ ~Samples(Tail(outputs), r)
    BY <1>0, <1>a, SampleAtHand
  <1>d. /\ pc' \in {"cache", "stop"} => Head(outputs').req = r
        /\ pc' = "cache" => AsyncScheduling /\ status[r] = "RUNNING"
    BY <1>0 DEF NextOutput
  <1> HIDE DEF r, e
  <1>1. ControlTypes'
    BY <1>0, <1>a, <1>b DEF ControlTypes
  <1>2. NumberTypes'
    <2>1. all_token_ids' \in [Requests -> Seq(Token \cup Int)]
      <3>1. \A q \in Requests : all_token_ids[q] \in Seq(Token \cup Int)
        BY <1>a DEF NumberTypes
      <3>2. Append(all_token_ids[r], e.pos) \in Seq(Token \cup Int)
        BY <3>1, <1>b
      <3> QED  BY <3>1, <3>2, <1>0, <1>a, <1>b DEF NumberTypes
    <2>2. num_output_placeholders' \in [Requests -> Int]
      BY <1>0, <1>a, <1>b DEF NumberTypes, PlaceholdersAfter
    <2> QED  BY <2>1, <2>2, <1>0, <1>a, <1>b DEF NumberTypes
  <1>3. BatchesInFlight'
    BY <1>0, <1>a, <1>b, <1>d DEF BatchesInFlight
  <1>4. StepInOrder'
    BY <1>0, <1>b DEF ControlInv, StepInOrder, InSchedule, Scheduled
  <1>5. Resumptions'
    BY <1>0, <1>b DEF ControlInv, Resumptions, InSchedule
  <1>6. Sleeping'
    BY <1>0, <1>a, <1>b DEF ControlInv, Sleeping
  <1>7. ResetPending'
    BY <1>0, <1>b DEF ControlInv, ResetPending
  <1>8. QueuesExact'
    BY <1>0 DEF ControlInv, QueuesExact
  <1>9. FinishedEnded'
    BY <1>0 DEF ControlInv, FinishedEnded
  <1>10. Placeholders'
    <2>1. Distinct(outputs)' /\ \A i \in DOMAIN batch_queue' : Distinct(batch_queue[i])'
      BY <1>0, <1>a, <1>b DEF Placeholders, Distinct
    <2>2. ASSUME NEW q \in Requests, q # r
          PROVE  /\ num_output_placeholders'[q] = num_output_placeholders[q]
                 /\ SamplesInFlight(q)' = SamplesInFlight(q)
      <3>1. One(Samples(Tail(outputs), q)) \in Nat
        BY DEF One
      <3> QED  BY <3>1, <2>2, <1>0, <1>a, <1>b, <1>c DEF NumberTypes
    <2>3. num_output_placeholders'[r] = IF AsyncScheduling THEN num_output_placeholders[r] - 1
                                        ELSE num_output_placeholders[r]
      BY <1>0, <1>a, <1>b DEF NumberTypes, PlaceholdersAfter
    <2>4. ASSUME NEW q, q = r
          PROVE  SamplesInFlight(q) = SamplesInFlight(q)' + 1 /\ SamplesInFlight(q)' \in Nat
      <3>1. One(Samples(Tail(outputs), q)) = 0
        BY <2>4, <1>c DEF One
      <3>2. /\ SamplesInFlight(q)' = Cardinality(BatchesOf(batch_queue, q)) + One(Samples(Tail(outputs), q))
            /\ Cardinality(BatchesOf(batch_queue, q)) \in Nat
        BY <1>b
      <3>3. SamplesInFlight(q) = Cardinality(BatchesOf(batch_queue, q)) + 1 + One(Samples(Tail(outputs), q))
        BY <2>4, <1>0, <1>c
      <3> QED  BY <3>1, <3>2, <3>3
    <2>5. num_output_placeholders[r] \in Int
      BY <1>a, <1>b DEF NumberTypes
    <2>6. /\ status' = status /\ discard_latest_async_tokens' = discard_latest_async_tokens
          /\ status[r] # "none" /\ ~(AsyncScheduling /\ discard_latest_async_tokens[r])
      BY <1>0
    <2>7. ASSUME NEW q \in Requests PROVE PlaceholdersOf(q)'
      <3>1. PlaceholdersOf(q)
        BY <1>a DEF Placeholders, PlaceholdersOf
      <3>2. CASE q # r
        BY <3>1, <3>2, <2>2, <2>6 DEF PlaceholdersOf
      <3>3. CASE q = r
        BY <3>1, <3>3, <2>3, <2>4, <2>5, <2>6 DEF PlaceholdersOf
      <3> QED  BY <3>2, <3>3
    <2> QED  BY <2>1, <2>7 DEF Placeholders, PlaceholdersOf
  <1> QED  BY <1>1, <1>2, <1>3, <1>4, <1>5, <1>6, <1>7, <1>8, <1>9, <1>10 DEF ControlInv

(* The asynchronous scheduler caches what the token completed. *)
LEMMA CacheOutputInv ==
    ASSUME ControlInv, CacheOutput
    PROVE  ControlInv'
  <1>0. /\ UNCHANGED Requesting /\ UNCHANGED <<cur, batch_queue, stopped, sched, token_budget, req_index>>
        /\ UNCHANGED <<prev_step_scheduled_req_ids, preempted_reqs, pause_state, sleep_call, asleep>>
        /\ pc = "cache"
        /\ \/ pc' = "stop" /\ UNCHANGED outputs
           \/ NextOutput
    BY DEF CacheOutput, CacheBlocks, Requesting, reqvars, queuevars, stepvars, workervars, sleepvars
  <1>a. /\ outputs \in Seq(Output) /\ outputs # <<>> /\ Distinct(outputs)
        /\ batch_queue \in Seq(Seq(Output))
        /\ Placeholders /\ ControlTypes /\ BatchesInFlight
    BY <1>0 DEF ControlInv, ControlTypes, BatchesInFlight, Placeholders
  <1>b. /\ outputs' \in Seq(Output) /\ Distinct(outputs)'
        /\ pc' \in {"idle", "update", "cache", "stop"}
        /\ pc' # "idle" <=> outputs' # <<>>
        /\ \A q : SamplesInFlight(q)' =
                     Cardinality(BatchesOf(batch_queue, q)) + One(Samples(Tail(outputs), q))
    <2>1. NextOutput \/ (UNCHANGED outputs /\ pc' \in {"cache", "stop"})
      BY <1>0
    <2> QED  BY <2>1, <1>0, <1>a, OutputSteps
  <1>c. \A q : SamplesInFlight(q) =
                  Cardinality(BatchesOf(batch_queue, q)) + One(Samples(Tail(outputs), q))
    BY <1>0, SamplesSplit DEF Pending
  <1>d. pc' # "cache" /\ (pc' = "stop" => outputs' = outputs)
    BY <1>0 DEF NextOutput
  <1>1. ControlTypes'
    BY <1>0, <1>a, <1>b DEF ControlTypes, Requesting
  <1>2. NumberTypes'
    BY <1>0, <1>b DEF ControlInv, NumberTypes, Requesting
  <1>3. BatchesInFlight'
    BY <1>0, <1>a, <1>b, <1>d DEF BatchesInFlight, Requesting
  <1>4. StepInOrder'
    BY <1>0, <1>b DEF ControlInv, StepInOrder, InSchedule, Scheduled, Requesting
  <1>5. Resumptions'
    BY <1>0, <1>b DEF ControlInv, Resumptions, InSchedule, Requesting
  <1>6. Sleeping'
    BY <1>0, <1>a, <1>b DEF ControlInv, Sleeping, Requesting
  <1>7. ResetPending'
    BY <1>0, <1>b DEF ControlInv, ResetPending, Requesting
  <1>8. Placeholders'
    <2>1. Distinct(outputs)' /\ \A i \in DOMAIN batch_queue' : Distinct(batch_queue[i])'
      BY <1>0, <1>a, <1>b DEF Placeholders, Distinct
    <2>2. \A q : SamplesInFlight(q)' = SamplesInFlight(q)
      BY <1>b, <1>c
    <2> QED  BY <2>1, <2>2, <1>0, <1>a DEF PlaceholdersOf, Placeholders, Requesting
  <1> QED  BY <1>0, <1>1, <1>2, <1>3, <1>4, <1>5, <1>6, <1>7, <1>8, RequestingKept DEF ControlInv

-----------------------------------------------------------------------------
(* The engine core starts with nothing to do. *)
LEMMA ControlInit == Init => ControlInv
  <1> SUFFICES ASSUME Init PROVE ControlInv
    OBVIOUS
  <1> USE DEF Init, KVInit
  <1>1. ControlTypes
    <2>1. \E B : sched \in Seq(Entry(B))
      OBVIOUS
    <2>2. outputs \in Seq(Output) /\ batch_queue \in Seq(Seq(Output))
      OBVIOUS
    <2>3. /\ status \in [Requests -> {"none", "WAITING", "RUNNING", "PREEMPTED"}]
          /\ discard_latest_async_tokens \in [Requests -> BOOLEAN]
          /\ DOMAIN req_to_blocks = Requests
      OBVIOUS
    <2>4. /\ running \in Seq(Requests) /\ waiting \in Seq(Requests)
          /\ prev_step_scheduled_req_ids \subseteq Requests /\ finished_req_ids \subseteq Requests
          /\ preempted_reqs \subseteq Requests
      OBVIOUS
    <2>5. /\ pc = "idle" /\ pause_state = "UNPAUSED" /\ sleep_call = "none"
          /\ asleep = FALSE /\ stopped = FALSE
      OBVIOUS
    <2> HIDE DEF Init, KVInit
    <2> QED  BY <2>1, <2>2, <2>3, <2>4, <2>5 DEF ControlTypes
  <1>2. NumberTypes
    BY DEF NumberTypes
  <1>3. QueuesExact
    BY DEF QueuesExact, IsInjective, Range
  <1>4. BatchesInFlight /\ FinishedEnded
    BY SchedulerConfig DEF BatchesInFlight, FinishedEnded
  <1>5. StepInOrder
    BY SchedulerConfig DEF StepInOrder, InSchedule, Scheduled
  <1>6. Resumptions /\ Sleeping /\ ResetPending
    BY DEF Resumptions, Sleeping, ResetPending
  <1>7. Placeholders
    <2>1. ASSUME NEW r \in Requests PROVE SamplesInFlight(r) = 0
      <3>1. ~InFlight(r)
        BY DEF InFlight
      <3> QED  BY <3>1, NothingInFlight
    <2> QED  BY <2>1 DEF Placeholders, PlaceholdersOf, Distinct
  <1> QED  BY <1>1, <1>2, <1>3, <1>4, <1>5, <1>6, <1>7 DEF ControlInv

(* ControlInv only reads variables. *)
LEMMA ControlStutter == ControlInv /\ UNCHANGED vars => ControlInv'
  <1> SUFFICES ASSUME ControlInv, UNCHANGED vars PROVE ControlInv'
    OBVIOUS
  <1> USE DEF vars, kvvars, poolvars, tablevars, reqvars, queuevars, stepvars, flightvars,
              workervars, sleepvars
  <1>0. UNCHANGED Requesting /\ UNCHANGED <<batch_queue, outputs, stopped>>
    BY DEF Requesting
  <1>1. ControlTypes' /\ NumberTypes'
    BY <1>0 DEF ControlInv, ControlTypes, NumberTypes, Requesting
  <1>2. BatchesInFlight' /\ StepInOrder' /\ Resumptions'
    BY <1>0 DEF ControlInv, BatchesInFlight, StepInOrder, Resumptions, InSchedule, Scheduled, Requesting
  <1>3. Sleeping' /\ ResetPending'
    BY <1>0 DEF ControlInv, Sleeping, ResetPending, Requesting
  <1>4. Placeholders'
    BY <1>0, PlaceholdersKept DEF ControlInv, Requesting
  <1> QED  BY <1>0, <1>1, <1>2, <1>3, <1>4, RequestingKept DEF ControlInv

(* No step of the thread or of a client breaks it. *)
LEMMA ControlStep == ControlInv /\ [Next]_vars => ControlInv'
  <1> SUFFICES ASSUME ControlInv, [Next]_vars PROVE ControlInv'
    OBVIOUS
  <1>1. CASE UNCHANGED vars
    BY <1>1, ControlStutter
  <1>2. CASE EngineStep
    <2>1. CASE StartSchedule \/ SkipRunning \/ PickRunning \/ ScheduleRunning \/ PreemptVictim
               \/ RunningDone \/ ScheduleWaiting \/ WaitingDone \/ Dispatch
      BY <2>1, StartScheduleInv, SkipRunningInv, PickRunningInv, ScheduleRunningInv, PreemptVictimInv,
         RunningDoneInv, ScheduleWaitingInv, WaitingDoneInv, DispatchInv
    <2>2. CASE DrainQueue \/ TakeResult \/ SkipOutput \/ AppendOutput \/ CacheOutput \/ StopRequest
      BY <2>2, DrainQueueInv, TakeResultInv, SkipOutputInv, AppendOutputInv, CacheOutputInv,
         StopRequestInv
    <2>3. CASE ResetPreempt \/ ResetFinish \/ SleepAborted \/ IdleCallback \/ FallAsleep
               \/ \E r \in Requests : SleepAborts(r)
      BY <2>3, ResetPreemptInv, ResetFinishInv, SleepAbortedInv, IdleCallbackInv, FallAsleepInv,
         SleepAbortsInv
    <2> QED  BY <1>2, <2>1, <2>2, <2>3 DEF EngineStep
  <1>3. CASE ClientStep
    <2>1. CASE \E r \in Requests : (\E prompt \in Prompts : AddRequest(r, prompt)) \/ AbortRequest(r)
      BY <2>1, AddRequestInv, AbortRequestInv
    <2>2. CASE ResetIdleCache \/ ResetStart \/ WakeUp
      BY <2>2, ResetIdleCacheInv, ResetStartInv, WakeUpInv
    <2>3. CASE \E call \in SleepCalls : Sleep(call[1], call[2])
      <3>1. PICK call \in SleepCalls : Sleep(call[1], call[2])
        BY <2>3
      <3>2. <<call[1], call[2]>> = call
        BY SchedulerConfig
      <3> QED  BY <3>1, <3>2, SleepInv
    <2> QED  BY <1>3, <2>1, <2>2, <2>3 DEF ClientStep
  <1> QED  BY <1>1, <1>2, <1>3 DEF Next

(* The inductive invariant of the scheduler's control. *)
THEOREM ControlInvariant == Spec => []ControlInv
  BY ControlInit, ControlStep, PTL DEF Spec

(* Every live request is in exactly one queue, once, in agreement with its *)
(* status, through preemption, resumption, aborts, resets and sleep().     *)
THEOREM QueuesAreExact == Spec => []QueuesExact
  <1>1. ControlInv => QueuesExact
    BY DEF ControlInv
  <1> QED  BY <1>1, ControlInvariant, PTL

(* The assertion of _make_cached_request_data. *)
THEOREM ResumedWereNotInPrevStep == Spec => []ResumedNotInPrevStep
  <1>1. ControlInv => ResumedNotInPrevStep
    BY DEF ControlInv, Resumptions, ResumedNotInPrevStep
  <1> QED  BY <1>1, ControlInvariant, PTL

(* Sleeping workers are left alone until wake_up(). *)
THEOREM SleepIsUndisturbed == Spec => []SleepUndisturbed
  <1>1. ASSUME ControlInv, asleep PROVE \A r \in Requests : num_computed_tokens[r] = 0 /\ req_to_blocks[r] = <<>>
    <2>1. Range(running) = {} /\ QueuesExact
      BY <1>1 DEF ControlInv, Sleeping, Range
    <2>2. \A r \in Requests : status[r] # "RUNNING"
      BY <2>1 DEF QueuesExact
    <2> QED  BY <2>1, <2>2 DEF QueuesExact
  <1>2. ControlInv => SleepUndisturbed
    BY <1>1 DEF ControlInv, Sleeping, SleepUndisturbed
  <1> QED  BY <1>2, ControlInvariant, PTL

(* num_output_placeholders counts exactly the samples in flight, unless    *)
(* clients call for resets of an asynchronous scheduler.                   *)
THEOREM PlaceholdersAreExact ==
    ASSUME AsyncScheduling => NeverResets
    PROVE  Spec => []PlaceholdersExact
  <1>1. ControlInv => PlaceholdersExact
    BY SchedulerConfig DEF ControlInv, Placeholders, PlaceholdersOf, PlaceholdersExact
  <1> QED  BY <1>1, ControlInvariant, PTL
=============================================================================
