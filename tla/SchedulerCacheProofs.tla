------------------------ MODULE SchedulerCacheProofs ------------------------
(***************************************************************************)
(* How the scheduler uses the KV cache, for every number of requests and   *)
(* blocks: the tokens it schedules exist and get slots, its calls are      *)
(* calls the cache manager admits, so that Scheduler implements KVSpec and *)
(* all of KVCacheProofs holds of it, a step stays within its limits, and   *)
(* the workers' block tables follow the scheduler's.                       *)
(***************************************************************************)
EXTENDS SchedulerProofs

(* Requests for which min_tokens can be met before the end of the model,   *)
(* and no more batches in flight than a reset of an asynchronous scheduler *)
(* can discard.  Otherwise a request may stay past its last position, and  *)
(* num_output_placeholders may become negative.                            *)
Supported ==
    /\ \A p \in Prompts : Len(p) + MinTokens <= MaxModelLen
    /\ AsyncScheduling => DiscardsSuffice

-----------------------------------------------------------------------------
(* The entries of a step. *)

ReqsOf(s) == {s[i].req : i \in DOMAIN s}
EntryOf(s, r) == s[CHOOSE i \in DOMAIN s : s[i].req = r]
TokensIn(s, r) == IF r \in ReqsOf(s) THEN EntryOf(s, r).n ELSE 0
Once(s) == \A i, j \in DOMAIN s : s[i].req = s[j].req => i = j

(* A running request is a request. *)
LEMMA RunningRequest ==
    ASSUME running \in Seq(Requests), NEW q \in Range(running)
    PROVE  q \in Requests
  BY DEF Range

(* The sample at hand is an output of a request. *)
LEMMA OutputAtHand ==
    ASSUME outputs \in Seq(Output), outputs # <<>>
    PROVE  /\ 1 \in DOMAIN outputs /\ Head(outputs) = outputs[1]
           /\ Head(outputs) \in Output /\ Head(outputs).req \in Requests
  <1>1. 1 \in DOMAIN outputs /\ Head(outputs) = outputs[1] /\ outputs[1] \in Output
    OBVIOUS
  <1>2. \A o \in Output : o.req \in Requests
    BY DEF Output
  <1> QED  BY <1>1, <1>2

(* A longer sequence has the elements it had and the one appended. *)
LEMMA AppendedElement ==
    ASSUME NEW S, NEW s \in Seq(S), NEW e \in S, NEW i \in DOMAIN Append(s, e)
    PROVE  Append(s, e)[i] = e \/ (i \in DOMAIN s /\ Append(s, e)[i] = s[i])
  OBVIOUS

(* What is sent in a longer step is sent in the step or appended to it. *)
LEMMA AppendedEntry ==
    ASSUME NEW B, NEW s \in Seq(Entry(B)), NEW e, e \in Entry({e.blocks}), NEW i \in DOMAIN Append(s, e)
    PROVE  Append(s, e)[i] = e \/ (i \in DOMAIN s /\ Append(s, e)[i] = s[i])
  <1> DEFINE E == Entry(B \cup {e.blocks})
  <1>1. Entry(B) \subseteq E /\ Entry({e.blocks}) \subseteq E
    BY DEF Entry
  <1>2. s \in Seq(E) /\ e \in E
    BY <1>1, SeqGrows
  <1> HIDE DEF E
  <1> QED  BY <1>2, AppendedElement

(* The entry of a request is the only one it has. *)
LEMMA EntryOfFacts ==
    ASSUME NEW s, Once(s), NEW i \in DOMAIN s
    PROVE  s[i].req \in ReqsOf(s) /\ EntryOf(s, s[i].req) = s[i]
  <1> DEFINE k == CHOOSE j \in DOMAIN s : s[j].req = s[i].req
  <1>1. k \in DOMAIN s /\ s[k].req = s[i].req
    OBVIOUS
  <1> HIDE DEF k
  <1>2. k = i
    BY <1>1 DEF Once
  <1> QED  BY <1>2 DEF EntryOf, ReqsOf, k

(* Where the entry of a scheduled request is. *)
LEMMA EntryOfReq ==
    ASSUME NEW s, NEW r \in ReqsOf(s)
    PROVE  \E i \in DOMAIN s : s[i].req = r /\ EntryOf(s, r) = s[i]
  <1> DEFINE k == CHOOSE j \in DOMAIN s : s[j].req = r
  <1>1. \E j \in DOMAIN s : s[j].req = r
    BY DEF ReqsOf
  <1>2. k \in DOMAIN s /\ s[k].req = r
    BY <1>1
  <1> HIDE DEF k
  <1> QED  BY <1>2 DEF EntryOf, k

(* A request that joins a step leaves the entries of the others alone. *)
LEMMA EntriesAppend ==
    ASSUME NEW B, NEW s \in Seq(Entry(B)), Once(s), NEW e, e \in Entry({e.blocks}),
           e.req \notin ReqsOf(s)
    PROVE  LET t == Append(s, e)
           IN  /\ ReqsOf(t) = ReqsOf(s) \cup {e.req} /\ Once(t)
               /\ EntryOf(t, e.req) = e
               /\ \A q \in ReqsOf(s) : EntryOf(t, q) = EntryOf(s, q)
               /\ \A q : TokensIn(t, q) = IF q = e.req THEN e.n ELSE TokensIn(s, q)
  <1> DEFINE t == Append(s, e)
  <1>1. /\ Len(s) \in Nat /\ DOMAIN s = 1 .. Len(s) /\ DOMAIN t = 1 .. Len(s) + 1
        /\ \A i \in 1 .. Len(s) : t[i] = s[i]
        /\ t[Len(s) + 1] = e
    <2>1. s \in Seq(Entry(B \cup {e.blocks})) /\ e \in Entry(B \cup {e.blocks})
      <3>1. Entry(B) \subseteq Entry(B \cup {e.blocks})
        BY DEF Entry
      <3>2. s \in Seq(Entry(B \cup {e.blocks}))
        BY <3>1, SeqGrows
      <3>3. Entry({e.blocks}) \subseteq Entry(B \cup {e.blocks})
        BY DEF Entry
      <3> QED  BY <3>2, <3>3
    <2> HIDE DEF Entry
    <2> QED  BY <2>1
  <1> HIDE DEF t
  <1>2. \A i \in 1 .. Len(s) + 1 : i \in 1 .. Len(s) \/ i = Len(s) + 1
    BY <1>1
  <1>3. \A i \in 1 .. Len(s) : i \in 1 .. Len(s) + 1 /\ i # Len(s) + 1
    BY <1>1
  <1>4. Len(s) + 1 \in 1 .. Len(s) + 1
    BY <1>1
  <1>5. \A i \in 1 .. Len(s) : s[i].req # e.req
    BY <1>1 DEF ReqsOf
  <1>6. Once(t)
    BY <1>1, <1>2, <1>5 DEF Once
  <1>7. ReqsOf(t) = ReqsOf(s) \cup {e.req}
    BY <1>1, <1>2, <1>3, <1>4 DEF ReqsOf
  <1>8. EntryOf(t, e.req) = e
    BY <1>1, <1>4, <1>6, EntryOfFacts
  <1>9. ASSUME NEW q \in ReqsOf(s) PROVE EntryOf(t, q) = EntryOf(s, q)
    <2>1. PICK i \in DOMAIN s : s[i].req = q /\ EntryOf(s, q) = s[i]
      BY EntryOfReq
    <2>2. i \in DOMAIN t /\ t[i] = s[i]
      BY <2>1, <1>1, <1>3
    <2>3. EntryOf(t, t[i].req) = t[i]
      BY <2>2, <1>6, EntryOfFacts
    <2> QED  BY <2>1, <2>2, <2>3
  <1>10. \A q : TokensIn(t, q) = IF q = e.req THEN e.n ELSE TokensIn(s, q)
    BY <1>7, <1>8, <1>9 DEF TokensIn
  <1> QED  BY <1>6, <1>7, <1>8, <1>9, <1>10 DEF t

(* So does a request that is taken out of it. *)
LEMMA EntriesRemoved ==
    ASSUME NEW s, NEW t, Once(s), Once(t), NEW v, ReqsOf(t) = ReqsOf(s) \ {v},
           \A i \in DOMAIN t : \E j \in DOMAIN s : t[i] = s[j]
    PROVE  /\ \A q \in ReqsOf(t) : EntryOf(t, q) = EntryOf(s, q)
           /\ \A q : q # v => TokensIn(t, q) = TokensIn(s, q)
  <1>1. ASSUME NEW q \in ReqsOf(t) PROVE EntryOf(t, q) = EntryOf(s, q)
    <2>1. PICK i \in DOMAIN t : t[i].req = q /\ EntryOf(t, q) = t[i]
      BY EntryOfReq
    <2>2. PICK j \in DOMAIN s : t[i] = s[j]
      BY <2>1
    <2>3. EntryOf(s, s[j].req) = s[j]
      BY <2>2, EntryOfFacts
    <2> QED  BY <2>1, <2>2, <2>3
  <1> QED  BY <1>1 DEF TokensIn

(* num_scheduled_tokens in these terms. *)
LEMMA StepTerms ==
    /\ Scheduled = ReqsOf(sched) /\ Scheduled' = ReqsOf(sched')
    /\ \A r : NumScheduledTokens(r) = TokensIn(sched, r)
    /\ \A r : r \in Scheduled => sched[ScheduledAt(r)] = EntryOf(sched, r)
  BY DEF Scheduled, ReqsOf, NumScheduledTokens, TokensIn, ScheduledAt, EntryOf

(* The same after a step. *)
LEMMA StepTermsNext ==
    ASSUME NEW r
    PROVE  NumScheduledTokens(r)' = TokensIn(sched', r)
  BY DEF Scheduled, ReqsOf, NumScheduledTokens, TokensIn, ScheduledAt, EntryOf

(* A victim leaves the step, the entries of the others stay. *)
LEMMA StepWithout ==
    ASSUME NEW B, sched \in Seq(Entry(B)), Once(sched), NEW v, sched' = Unscheduled(v)
    PROVE  /\ Once(sched') /\ ReqsOf(sched') = ReqsOf(sched) \ {v}
           /\ \A i \in DOMAIN sched' : \E j \in DOMAIN sched : sched'[i] = sched[j]
           /\ \A q \in ReqsOf(sched') : EntryOf(sched', q) = EntryOf(sched, q)
           /\ \A q : q # v => TokensIn(sched', q) = TokensIn(sched, q)
  <1> DEFINE left == Unscheduled(v)
  <1>1. \A i, j \in DOMAIN sched : sched[i].req = sched[j].req => i = j
    BY DEF Once
  <1>2. /\ \A i, j \in DOMAIN left : left[i].req = left[j].req => i = j
        /\ {left[i].req : i \in DOMAIN left} = Scheduled \ {v}
        /\ \A i \in DOMAIN left : \E j \in DOMAIN sched : left[i] = sched[j]
    BY <1>1, UnscheduledFacts
  <1> HIDE DEF left
  <1>3. Once(left)
    BY <1>2 DEF Once
  <1>4. ReqsOf(left) = ReqsOf(sched) \ {v}
    BY <1>2, StepTerms DEF ReqsOf
  <1>5. /\ \A q \in ReqsOf(left) : EntryOf(left, q) = EntryOf(sched, q)
        /\ \A q : q # v => TokensIn(left, q) = TokensIn(sched, q)
    BY <1>2, <1>3, <1>4, EntriesRemoved
  <1>6. sched' = left
    BY DEF left
  <1> QED  BY <1>2, <1>3, <1>4, <1>5, <1>6
-----------------------------------------------------------------------------
(* The numbers of the scheduler. *)

(* A request with a token at the last position is about to stop. *)
TokensOf(r) ==
    /\ status[r] = "none" => all_token_ids[r] = <<>>
    /\ status[r] # "none" =>
          /\ num_prompt_tokens[r] \in 1 .. NumTokens(r)
          /\ num_prompt_tokens[r] + MinTokens <= MaxModelLen
          /\ NumTokens(r) <= MaxModelLen
          /\ NumTokens(r) = MaxModelLen =>
                pc \in {"cache", "stop"} /\ r = Head(outputs).req /\ stopped

TokensKnown == \A r \in Requests : TokensOf(r)

(* n tokens of r can be computed: they exist or are being sampled, and the *)
(* last position is left alone.                                            *)
Fits(r, n) == n <= NumTokens(r) + num_output_placeholders[r] /\ n < MaxModelLen

(* What is computed once this step is, fits and has slots. *)
Covered(r) ==
    LET n == num_computed_tokens[r] + NumScheduledTokens(r)
    IN  /\ num_computed_tokens[r] \in Nat
        /\ Fits(r, n) /\ n <= Len(req_to_blocks[r]) * BlockSize

Granted ==
    /\ \A r \in Range(running) : Covered(r)
    /\ \A i \in DOMAIN sched : sched[i].n >= 1
    /\ token_budget >= 0
    /\ pc = "alloc" => /\ cur[2] >= 1 /\ cur[2] <= token_budget
                       /\ Fits(cur[1], num_computed_tokens[cur[1]] + cur[2])

Positions(batch) == \A j \in DOMAIN batch : batch[j].pos \in 0 .. MaxModelLen

PositionsInFlight ==
    Positions(outputs) /\ \A i \in DOMAIN batch_queue : Positions(batch_queue[i])

NumbersInv == TokensKnown /\ Granted /\ PositionsInFlight

(* What each action is shown to do, from the invariants before it. *)
Before == Supported /\ ControlInv /\ KVInv /\ NumbersInv

(* The samples in flight are not fewer than none. *)
LEMMA PlaceholdersNat ==
    ASSUME Supported, ControlInv
    PROVE  num_output_placeholders \in [Requests -> Nat]
  <1>1. ASSUME NEW r \in Requests PROVE num_output_placeholders[r] \in Nat
    <2>1. num_output_placeholders[r] \in Int /\ PlaceholdersOf(r)
      BY DEF ControlInv, NumberTypes, Placeholders
    <2> QED  BY <2>1, SchedulerConfig DEF PlaceholdersOf, Supported
  <1> QED  BY <1>1 DEF ControlInv, NumberTypes

(* Likewise after a step. *)
LEMMA PlaceholdersNatNext ==
    ASSUME Supported, ControlInv'
    PROVE  num_output_placeholders' \in [Requests -> Nat]
  <1>1. ASSUME NEW r \in Requests PROVE num_output_placeholders'[r] \in Nat
    <2>1. num_output_placeholders'[r] \in Int /\ PlaceholdersOf(r)'
      BY DEF ControlInv, NumberTypes, Placeholders
    <2> QED  BY <2>1, SchedulerConfig DEF PlaceholdersOf, Supported
  <1> QED  BY <1>1 DEF ControlInv, NumberTypes

(* The types of what is counted. *)
LEMMA NumbersTyped ==
    ASSUME Before, NEW r \in Requests
    PROVE  /\ NumTokens(r) \in Nat /\ all_token_ids[r] \in Seq(Token)
           /\ num_output_placeholders[r] \in Nat /\ num_computed_tokens[r] \in Nat
           /\ NumScheduledTokens(r) \in Nat
           /\ req_to_blocks[r] \in Seq(Block) /\ Len(req_to_blocks[r]) \in Nat
           /\ Len(req_to_blocks[r]) * BlockSize \in Nat
           /\ r \notin Scheduled => NumScheduledTokens(r) = 0
           /\ r \in Scheduled => NumScheduledTokens(r) >= 1
  <1>1. all_token_ids[r] \in Seq(Token) /\ req_to_blocks[r] \in Seq(Block)
    BY DEF Before, KVInv, KVTypeOK
  <1>2. NumTokens(r) \in Nat /\ Len(req_to_blocks[r]) \in Nat
    BY <1>1 DEF NumTokens
  <1>3. Len(req_to_blocks[r]) * BlockSize \in Nat
    BY <1>2, MulMonotone
  <1>4. num_output_placeholders[r] \in Nat
    BY PlaceholdersNat DEF Before
  <1>5. num_computed_tokens[r] \in Nat
    <2>1. QueuesExact /\ Granted
      BY DEF Before, ControlInv, NumbersInv
    <2>2. CASE status[r] = "RUNNING"
      BY <2>1, <2>2 DEF QueuesExact, Granted, Covered
    <2>3. CASE status[r] # "RUNNING"
      BY <2>1, <2>3 DEF QueuesExact
    <2> QED  BY <2>2, <2>3
  <1>6. PICK B : sched \in Seq(Entry(B))
    BY DEF Before, ControlInv, ControlTypes
  <1>7. NumScheduledTokens(r) \in Int /\ (r \in Scheduled => ScheduledAt(r) \in DOMAIN sched)
    BY <1>6, ScheduledFacts
  <1>8. r \notin Scheduled => NumScheduledTokens(r) = 0
    BY DEF NumScheduledTokens
  <1>9. r \in Scheduled => NumScheduledTokens(r) >= 1
    BY <1>7 DEF NumScheduledTokens, Before, NumbersInv, Granted
  <1> QED  BY <1>1, <1>2, <1>3, <1>4, <1>5, <1>7, <1>8, <1>9

(* A request that was added has a prompt. *)
LEMMA AddedHasTokens ==
    ASSUME Before, NEW r \in Requests, status[r] # "none"
    PROVE  NumTokens(r) >= 1 /\ all_token_ids[r] # <<>>
  <1>1. TokensOf(r)
    BY DEF Before, NumbersInv, TokensKnown
  <1>2. num_prompt_tokens[r] \in 1 .. NumTokens(r)
    BY <1>1 DEF TokensOf
  <1>3. NumTokens(r) \in Nat
    BY NumbersTyped
  <1>4. NumTokens(r) >= 1
    BY <1>2, <1>3
  <1> QED  BY <1>4 DEF NumTokens

(* A running request keeps what it has when tokens, placeholders and slots *)
(* do not become fewer.                                                    *)
LEMMA CoveredKept ==
    ASSUME Before, NEW r \in Range(running), r \in Requests,
           num_computed_tokens'[r] = num_computed_tokens[r],
           TokensIn(sched', r) = TokensIn(sched, r),
           NumTokens(r)' + num_output_placeholders'[r] \in Int,
           NumTokens(r)' + num_output_placeholders'[r] >= NumTokens(r) + num_output_placeholders[r],
           req_to_blocks'[r] = req_to_blocks[r]
    PROVE  Covered(r)'
  <1>1. Covered(r)
    BY DEF Before, NumbersInv, Granted
  <1>2. NumScheduledTokens(r)' = NumScheduledTokens(r)
    BY StepTerms, StepTermsNext
  <1>3. /\ NumTokens(r) \in Nat /\ num_output_placeholders[r] \in Nat
        /\ num_computed_tokens[r] \in Nat /\ NumScheduledTokens(r) \in Nat
    BY NumbersTyped
  <1>4. Fits(r, num_computed_tokens[r] + NumScheduledTokens(r))'
    BY <1>1, <1>2, <1>3 DEF Covered, Fits
  <1> QED  BY <1>1, <1>2, <1>4 DEF Covered

-----------------------------------------------------------------------------
(* The actions. *)

(* Steps in which no request gets or loses anything. *)
QuietStep ==
    \/ StartSchedule \/ SkipRunning \/ RunningDone \/ WaitingDone
    \/ DrainQueue \/ TakeResult \/ SkipOutput
    \/ ResetIdleCache \/ ResetStart \/ ResetFinish
    \/ (\E call \in SleepCalls : Sleep(call[1], call[2]))
    \/ SleepAborted \/ IdleCallback \/ FallAsleep \/ WakeUp

(* What such a step does to the positions in flight. *)
LEMMA PositionsKept ==
    ASSUME ControlInv, PositionsInFlight,
           \/ UNCHANGED <<outputs, batch_queue>>
           \/ outputs # <<>> /\ outputs' = Tail(outputs) /\ UNCHANGED batch_queue
           \/ batch_queue # <<>> /\ outputs' = Head(batch_queue) /\ batch_queue' = Tail(batch_queue)
    PROVE  PositionsInFlight'
  <1>1. outputs \in Seq(Output) /\ batch_queue \in Seq(Seq(Output))
    BY DEF ControlInv, ControlTypes
  <1>2. CASE UNCHANGED <<outputs, batch_queue>>
    BY <1>2 DEF PositionsInFlight, Positions
  <1>3. CASE outputs # <<>> /\ outputs' = Tail(outputs) /\ UNCHANGED batch_queue
    <2>1. ASSUME NEW j \in DOMAIN Tail(outputs)
          PROVE  j + 1 \in DOMAIN outputs /\ Tail(outputs)[j] = outputs[j + 1]
      BY <1>1, <1>3
    <2>2. Positions(outputs)'
      BY <2>1, <1>3 DEF PositionsInFlight, Positions
    <2> QED  BY <2>2, <1>3 DEF PositionsInFlight, Positions
  <1>4. CASE batch_queue # <<>> /\ outputs' = Head(batch_queue) /\ batch_queue' = Tail(batch_queue)
    <2>1. 1 \in DOMAIN batch_queue /\ Head(batch_queue) = batch_queue[1]
      BY <1>1, <1>4
    <2>2. ASSUME NEW j \in DOMAIN Tail(batch_queue)
          PROVE  j + 1 \in DOMAIN batch_queue /\ Tail(batch_queue)[j] = batch_queue[j + 1]
      BY <1>1, <1>4
    <2>3. Positions(outputs)'
      BY <2>1, <1>4 DEF PositionsInFlight, Positions
    <2>4. \A j \in DOMAIN batch_queue' : Positions(batch_queue[j])'
      BY <2>2, <1>4 DEF PositionsInFlight, Positions
    <2> QED  BY <2>3, <2>4 DEF PositionsInFlight
  <1> QED  BY <1>2, <1>3, <1>4

(* Nothing happens to the numbers. *)
LEMMA NumbersKept ==
    ASSUME Before, PositionsInFlight', pc \notin {"cache", "stop"}, pc' # "alloc",
           token_budget' >= 0,
           UNCHANGED <<status, num_prompt_tokens, num_computed_tokens, num_output_placeholders,
                       all_token_ids, req_to_blocks, running, sched>>
    PROVE  NumbersInv'
  <1>1. TokensKnown'
    BY DEF Before, NumbersInv, TokensKnown, TokensOf, NumTokens
  <1>2. running \in Seq(Requests)
    BY DEF Before, ControlInv, ControlTypes
  <1>3. ASSUME NEW r \in Range(running) PROVE Covered(r)'
    <2>1. r \in Requests
      BY <1>2 DEF Range
    <2>2. /\ NumTokens(r)' = NumTokens(r) /\ NumTokens(r) \in Nat
          /\ num_output_placeholders[r] \in Nat
      BY <2>1, NumbersTyped DEF NumTokens
    <2>3. TokensIn(sched', r) = TokensIn(sched, r)
      OBVIOUS
    <2> QED  BY <2>1, <2>2, <2>3, CoveredKept
  <1>4. Granted'
    BY <1>3 DEF Before, NumbersInv, Granted
  <1> QED  BY <1>1, <1>4 DEF NumbersInv

(* What the quiet steps have in common. *)
LEMMA QuietSteps ==
    ASSUME ControlInv, token_budget >= 0, QuietStep
    PROVE  /\ UNCHANGED <<status, num_prompt_tokens, num_computed_tokens, num_output_placeholders,
                          all_token_ids, req_to_blocks, running, sched>>
           /\ pc \notin {"cache", "stop"} /\ pc' # "alloc" /\ token_budget' >= 0
           /\ \/ UNCHANGED <<outputs, batch_queue>>
              \/ outputs # <<>> /\ outputs' = Tail(outputs) /\ UNCHANGED batch_queue
              \/ batch_queue # <<>> /\ outputs' = Head(batch_queue) /\ batch_queue' = Tail(batch_queue)
           /\ UNCHANGED kvvars \/ Reset
  <1> USE DEF kvvars, poolvars, tablevars, reqvars, queuevars, stepvars, flightvars, workervars, sleepvars
  <1>1. CASE StartSchedule
    <2>1. sched = <<>>
      BY <1>1 DEF StartSchedule, ControlInv, StepInOrder, InSchedule
    <2> QED  BY <2>1, <1>1, SchedulerConfig DEF StartSchedule
  <1>2. CASE SkipRunning
    BY <1>2 DEF SkipRunning
  <1>3. CASE RunningDone
    BY <1>3 DEF RunningDone
  <1>4. CASE WaitingDone
    BY <1>4 DEF WaitingDone
  <1>5. CASE DrainQueue
    BY <1>5 DEF DrainQueue
  <1>6. CASE TakeResult
    BY <1>6 DEF TakeResult, ControlInv, BatchesInFlight
  <1>7. CASE SkipOutput
    BY <1>7 DEF SkipOutput, NextOutput, ControlInv, BatchesInFlight
  <1>8. CASE ResetIdleCache
    BY <1>8 DEF ResetIdleCache, Reset, ResetPrefixCache
  <1>9. CASE ResetStart
    BY <1>9 DEF ResetStart
  <1>10. CASE ResetFinish
    BY <1>10 DEF ResetFinish, Reset, ResetPrefixCache
  <1>11. CASE \E call \in SleepCalls : Sleep(call[1], call[2])
    BY <1>11 DEF Sleep
  <1>12. CASE SleepAborted
    BY <1>12 DEF SleepAborted
  <1>13. CASE IdleCallback
    BY <1>13 DEF IdleCallback
  <1>14. CASE FallAsleep
    BY <1>14 DEF FallAsleep, Reset, ResetPrefixCache
  <1>15. CASE WakeUp
    BY <1>15 DEF WakeUp
  <1> QED
    BY <1>1, <1>2, <1>3, <1>4, <1>5, <1>6, <1>7, <1>8, <1>9, <1>10, <1>11, <1>12, <1>13, <1>14,
       <1>15, Zenon DEF QuietStep

(* Nothing happens to requests, and at most the cache is dropped. *)
LEMMA QuietUse ==
    ASSUME Before, QuietStep
    PROVE  NumbersInv' /\ [KVNext]_kvvars
  <1>0. ControlInv /\ PositionsInFlight /\ token_budget >= 0
    BY DEF Before, NumbersInv, Granted
  <1>1. /\ UNCHANGED <<status, num_prompt_tokens, num_computed_tokens, num_output_placeholders,
                       all_token_ids, req_to_blocks, running, sched>>
        /\ pc \notin {"cache", "stop"} /\ pc' # "alloc" /\ token_budget' >= 0
        /\ \/ UNCHANGED <<outputs, batch_queue>>
           \/ outputs # <<>> /\ outputs' = Tail(outputs) /\ UNCHANGED batch_queue
           \/ batch_queue # <<>> /\ outputs' = Head(batch_queue) /\ batch_queue' = Tail(batch_queue)
        /\ UNCHANGED kvvars \/ Reset
    BY <1>0, QuietSteps
  <1>2. PositionsInFlight'
    BY <1>0, <1>1, PositionsKept
  <1>3. NumbersInv'
    BY <1>1, <1>2, NumbersKept
  <1>4. [KVNext]_kvvars
    BY <1>1 DEF KVNext
  <1> QED  BY <1>3, <1>4
(* The request picked gets a positive number of tokens that exist. *)
LEMMA PickRunningUse ==
    ASSUME Before, PickRunning
    PROVE  NumbersInv' /\ [KVNext]_kvvars
  <1> DEFINE r == running[req_index]
             n == NumNewTokens(r)
  <1>0. /\ UNCHANGED <<status, num_prompt_tokens, num_computed_tokens, num_output_placeholders,
                       all_token_ids, req_to_blocks, running, sched>>
        /\ UNCHANGED <<outputs, batch_queue, stopped, token_budget>> /\ UNCHANGED kvvars
        /\ pc = "running" /\ pc' = "alloc" /\ MoreRunning
        /\ n # 0 /\ cur' = <<r, n>>
    BY DEF PickRunning, kvvars, tablevars, reqvars, queuevars, flightvars, workervars, sleepvars
  <1>a. /\ running \in Seq(Requests) /\ ControlInv /\ NumberTypes /\ StepInOrder
        /\ req_index \in Int /\ token_budget \in Int
        /\ TokensKnown /\ Granted /\ PositionsInFlight
    BY DEF Before, ControlInv, ControlTypes, NumberTypes, NumbersInv
  <1>b. req_index \in DOMAIN running /\ token_budget > 0
    BY <1>0, <1>a DEF MoreRunning, StepInOrder
  <1>c. r \in Requests /\ r \in Range(running)
    BY <1>a, <1>b DEF Range
  <1>d. r \notin Scheduled
    BY <1>0, <1>a, <1>b DEF StepInOrder
  <1> HIDE DEF r
  <1>e. /\ NumTokens(r) \in Nat /\ num_output_placeholders[r] \in Nat
        /\ num_computed_tokens[r] \in Nat /\ NumScheduledTokens(r) = 0
    BY <1>c, <1>d, NumbersTyped
  <1>f. /\ num_computed_tokens[r] <= NumTokens(r) + num_output_placeholders[r]
        /\ num_computed_tokens[r] < MaxModelLen
    BY <1>a, <1>c, <1>e DEF Granted, Covered, Fits
  <1>g. LET left == NumTokens(r) + num_output_placeholders[r] - num_computed_tokens[r]
        IN  /\ left \in Int /\ Capped(left) \in Int
            /\ left > 0 => Capped(left) > 0
            /\ left = 0 => Capped(left) = 0
            /\ n \in {Capped(left), token_budget, MaxModelLen - 1 - num_computed_tokens[r]}
            /\ n \in Int /\ n <= left /\ n <= token_budget
            /\ n <= MaxModelLen - 1 - num_computed_tokens[r]
    BY <1>a, <1>c, NumNewTokensFacts
  <1> HIDE DEF n
  <1>h. n >= 1
    BY <1>0, <1>b, <1>e, <1>f, <1>g, BlockSizes
  <1>i. Fits(r, num_computed_tokens[r] + n)
    BY <1>e, <1>g, BlockSizes DEF Fits
  <1>1. TokensKnown'
    BY <1>0, <1>a DEF TokensKnown, TokensOf, NumTokens
  <1>2. ASSUME NEW q \in Range(running) PROVE Covered(q)'
    <2>1. q \in Requests
      BY <1>a DEF Range
    <2>2. /\ NumTokens(q)' = NumTokens(q) /\ NumTokens(q) \in Nat /\ num_output_placeholders[q] \in Nat
          /\ TokensIn(sched', q) = TokensIn(sched, q)
      BY <2>1, <1>0, NumbersTyped DEF NumTokens
    <2> QED  BY <2>1, <2>2, <1>0, CoveredKept
  <1>3. /\ cur'[1] = r /\ cur'[2] = n
        /\ Fits(cur[1], num_computed_tokens[cur[1]] + cur[2])'
    BY <1>0, <1>i DEF Fits, NumTokens
  <1>4. Granted'
    BY <1>0, <1>2, <1>3, <1>a, <1>g, <1>h DEF Granted
  <1>5. PositionsInFlight'
    BY <1>0, <1>a, PositionsKept
  <1> QED  BY <1>0, <1>1, <1>4, <1>5 DEF NumbersInv

(* A request arrives with room for min_tokens. *)
LEMMA AddRequestUse ==
    ASSUME Before, NEW r \in Requests, NEW prompt \in Prompts, AddRequest(r, prompt)
    PROVE  NumbersInv' /\ [KVNext]_kvvars
  <1>0. /\ UNCHANGED <<sched, token_budget, batch_queue, outputs, stopped, pc>>
        /\ UNCHANGED <<num_computed_tokens, num_output_placeholders, req_to_blocks, running>>
        /\ pc = "idle" /\ status[r] = "none"
        /\ status' = [status EXCEPT ![r] = "WAITING"]
        /\ num_prompt_tokens' = [num_prompt_tokens EXCEPT ![r] = Len(prompt)]
        /\ all_token_ids' = [all_token_ids EXCEPT ![r] = prompt]
    BY DEF AddRequest, NewRequest, kvvars, poolvars, tablevars, reqvars, queuevars, stepvars,
           workervars, flightvars, sleepvars
  <1>a. /\ running \in Seq(Requests) /\ ControlInv /\ QueuesExact
        /\ TokensKnown /\ Granted /\ PositionsInFlight
        /\ DOMAIN status = Requests /\ DOMAIN num_prompt_tokens = Requests
        /\ DOMAIN all_token_ids = Requests
    BY DEF Before, ControlInv, ControlTypes, NumberTypes, NumbersInv
  <1>b. /\ Len(prompt) \in Nat /\ Len(prompt) >= 1 /\ Len(prompt) < MaxModelLen
        /\ Len(prompt) + MinTokens <= MaxModelLen
    <2>1. prompt \in Seq(Token) /\ prompt # <<>>
      BY PromptsTyped
    <2> QED  BY <2>1, OneRequestFits DEF Before, Supported
  <1>1. ASSUME NEW q \in Requests PROVE TokensOf(q)'
    <2>1. CASE q = r
      <3>1. status'[q] = "WAITING" /\ num_prompt_tokens'[q] = Len(prompt) /\ all_token_ids'[q] = prompt
        BY <2>1, <1>0, <1>a
      <3> QED  BY <3>1, <1>b, BlockSizes DEF TokensOf, NumTokens
    <2>2. CASE q # r
      <3>1. /\ status'[q] = status[q] /\ num_prompt_tokens'[q] = num_prompt_tokens[q]
            /\ all_token_ids'[q] = all_token_ids[q]
        BY <2>2, <1>0, <1>a
      <3> QED  BY <3>1, <1>0, <1>a DEF TokensKnown, TokensOf, NumTokens
    <2> QED  BY <2>1, <2>2
  <1>2. ASSUME NEW q \in Range(running) PROVE Covered(q)'
    <2>1. q \in Requests /\ q # r
      BY <1>0, <1>a DEF Range, QueuesExact
    <2>2. /\ NumTokens(q)' = NumTokens(q) /\ NumTokens(q) \in Nat /\ num_output_placeholders[q] \in Nat
          /\ TokensIn(sched', q) = TokensIn(sched, q)
      BY <2>1, <1>0, <1>a, NumbersTyped DEF NumTokens
    <2> QED  BY <2>1, <2>2, <1>0, CoveredKept
  <1>3. Granted'
    BY <1>0, <1>2, <1>a DEF Granted
  <1>4. PositionsInFlight'
    BY <1>0, <1>a, PositionsKept
  <1>5. KVNext
    BY DEF AddRequest, KVNext
  <1> QED  BY <1>1, <1>3, <1>4, <1>5 DEF NumbersInv, TokensKnown

(* A request that ends takes its numbers with it. *)
LEMMA EndingUse ==
    ASSUME Before, NEW r \in Requests, FinishRequest(r), UNCHANGED <<sched, token_budget, batch_queue>>,
           \/ pc \in {"idle", "result", "abort"} /\ UNCHANGED <<pc, outputs>>
           \/ pc = "stop" /\ r = Head(outputs).req /\ NextOutput
    PROVE  NumbersInv' /\ [KVNext]_kvvars
  <1>a. /\ running \in Seq(Requests) /\ ControlInv /\ QueuesExact /\ BatchesInFlight
        /\ TokensKnown /\ Granted /\ PositionsInFlight
        /\ DOMAIN status = Requests /\ DOMAIN num_prompt_tokens = Requests
        /\ DOMAIN all_token_ids = Requests /\ DOMAIN num_computed_tokens = Requests
        /\ DOMAIN num_output_placeholders = Requests /\ DOMAIN req_to_blocks = Requests
    BY DEF Before, ControlInv, ControlTypes, NumberTypes, NumbersInv
  <1>b. /\ Range(running') = Range(running) \ {r}
        /\ status' = [status EXCEPT ![r] = "none"]
        /\ num_prompt_tokens' = [num_prompt_tokens EXCEPT ![r] = 0]
        /\ num_computed_tokens' = [num_computed_tokens EXCEPT ![r] = 0]
        /\ num_output_placeholders' = [num_output_placeholders EXCEPT ![r] = 0]
        /\ all_token_ids' = [all_token_ids EXCEPT ![r] = <<>>]
        /\ req_to_blocks' = [req_to_blocks EXCEPT ![r] = <<>>]
    BY <1>a, FinishRequestSteps
  <1>c. pc' # "alloc"
    BY DEF NextOutput
  <1>1. ASSUME NEW q \in Requests PROVE TokensOf(q)'
    <2>1. CASE q = r
      <3>1. status'[q] = "none" /\ all_token_ids'[q] = <<>>
        BY <2>1, <1>a, <1>b
      <3> QED  BY <3>1 DEF TokensOf
    <2>2. CASE q # r
      <3>1. /\ status'[q] = status[q] /\ num_prompt_tokens'[q] = num_prompt_tokens[q]
            /\ all_token_ids'[q] = all_token_ids[q]
        BY <2>2, <1>a, <1>b
      <3>2. TokensOf(q) /\ (status[q] # "none" => NumTokens(q) # MaxModelLen)
        BY <2>2, <1>a DEF TokensKnown, TokensOf
      <3> QED  BY <3>1, <3>2 DEF TokensOf, NumTokens
    <2> QED  BY <2>1, <2>2
  <1>2. ASSUME NEW q \in Range(running') PROVE Covered(q)'
    <2>1. q \in Requests /\ q # r /\ q \in Range(running)
      BY <1>a, <1>b, RunningRequest
    <2>2. /\ NumTokens(q)' = NumTokens(q) /\ NumTokens(q) \in Nat /\ num_output_placeholders[q] \in Nat
          /\ TokensIn(sched', q) = TokensIn(sched, q)
          /\ num_output_placeholders'[q] = num_output_placeholders[q]
          /\ num_computed_tokens'[q] = num_computed_tokens[q]
          /\ req_to_blocks'[q] = req_to_blocks[q]
      BY <2>1, <1>a, <1>b, NumbersTyped DEF NumTokens
    <2> QED  BY <2>1, <2>2, CoveredKept
  <1>3. Granted'
    BY <1>2, <1>a, <1>c DEF Granted
  <1>4. PositionsInFlight'
    <2>1. UNCHANGED outputs \/ (outputs # <<>> /\ outputs' = Tail(outputs))
      BY <1>a DEF NextOutput, BatchesInFlight
    <2> QED  BY <2>1, <1>a, PositionsKept
  <1>5. KVNext
    BY DEF FinishRequest, KVNext
  <1> QED  BY <1>1, <1>3, <1>4, <1>5 DEF NumbersInv, TokensKnown

(* finish_requests by a client and by sleep(), and a stop. *)
LEMMA FinishUse ==
    ASSUME Before, (\E r \in Requests : AbortRequest(r) \/ SleepAborts(r)) \/ StopRequest
    PROVE  NumbersInv' /\ [KVNext]_kvvars
  <1>1. CASE \E r \in Requests : AbortRequest(r) \/ SleepAborts(r)
    <2>1. PICK r \in Requests : AbortRequest(r) \/ SleepAborts(r)
      BY <1>1
    <2>2. /\ FinishRequest(r) /\ UNCHANGED <<sched, token_budget, batch_queue>>
          /\ pc \in {"idle", "result", "abort"} /\ UNCHANGED <<pc, outputs>>
      BY <2>1 DEF AbortRequest, SleepAborts, stepvars, flightvars
    <2> QED  BY <2>2, EndingUse
  <1>2. CASE StopRequest
    <2> DEFINE r == Head(outputs).req
    <2>1. /\ FinishRequest(r) /\ UNCHANGED <<sched, token_budget, batch_queue>>
          /\ pc = "stop" /\ NextOutput
      BY <1>2 DEF StopRequest, stepvars
    <2>2. outputs \in Seq(Output) /\ outputs # <<>>
      BY <2>1 DEF Before, ControlInv, ControlTypes, BatchesInFlight
    <2>3. r \in Requests
      BY <2>2, OutputAtHand
    <2> QED  BY <2>1, <2>3, EndingUse
  <1> QED  BY <1>1, <1>2
(* A preempted request loses what it has computed, the others nothing. *)
LEMMA PreemptUse ==
    ASSUME Before, NEW v \in Range(running), PreemptRequest(v), Range(running') = Range(running) \ {v},
           UNCHANGED <<outputs, batch_queue>>, pc \notin {"cache", "stop"},
           \A q \in Requests \ {v} : /\ num_output_placeholders'[q] = num_output_placeholders[q]
                                     /\ TokensIn(sched', q) = TokensIn(sched, q),
           \A i \in DOMAIN sched' : sched'[i].n >= 1,
           token_budget' >= token_budget, token_budget' \in Int,
           pc' = "alloc" => pc = "alloc" /\ cur' = cur /\ cur[1] \in Requests \ {v} /\ cur[2] \in Int
    PROVE  NumbersInv' /\ [KVNext]_kvvars
  <1>a. /\ running \in Seq(Requests) /\ ControlInv /\ QueuesExact
        /\ TokensKnown /\ Granted /\ PositionsInFlight /\ token_budget \in Int
        /\ DOMAIN status = Requests /\ DOMAIN num_computed_tokens = Requests
        /\ DOMAIN req_to_blocks = Requests
    BY DEF Before, ControlInv, ControlTypes, NumberTypes, NumbersInv
  <1>b. v \in Requests /\ status[v] = "RUNNING"
    BY <1>a DEF Range, QueuesExact
  <1>c. /\ status' = [status EXCEPT ![v] = "PREEMPTED"]
        /\ num_computed_tokens' = [num_computed_tokens EXCEPT ![v] = 0]
        /\ UNCHANGED <<num_prompt_tokens, all_token_ids>>
        /\ req_to_blocks' = [req_to_blocks EXCEPT ![v] = <<>>]
        /\ Preempt(v)
    BY DEF PreemptRequest, Preempt, FreeRequest
  <1>1. ASSUME NEW q \in Requests PROVE TokensOf(q)'
    <2>1. status'[q] = "none" <=> status[q] = "none"
      BY <1>a, <1>b, <1>c
    <2>2. TokensOf(q) /\ (status[q] # "none" => NumTokens(q) # MaxModelLen)
      BY <1>a DEF TokensKnown, TokensOf
    <2> QED  BY <2>1, <2>2, <1>c DEF TokensOf, NumTokens
  <1>2. ASSUME NEW q \in Range(running') PROVE Covered(q)'
    <2>1. q \in Requests /\ q # v /\ q \in Range(running)
      BY <1>a, RunningRequest
    <2>2. /\ NumTokens(q)' = NumTokens(q) /\ NumTokens(q) \in Nat /\ num_output_placeholders[q] \in Nat
          /\ TokensIn(sched', q) = TokensIn(sched, q)
          /\ num_output_placeholders'[q] = num_output_placeholders[q]
          /\ num_computed_tokens'[q] = num_computed_tokens[q]
          /\ req_to_blocks'[q] = req_to_blocks[q]
      BY <2>1, <1>a, <1>c, NumbersTyped DEF NumTokens
    <2> QED  BY <2>1, <2>2, CoveredKept
  <1>3. token_budget' >= 0
    BY <1>a DEF Granted
  <1>4. ASSUME pc' = "alloc"
        PROVE  /\ cur'[2] >= 1 /\ cur'[2] <= token_budget'
               /\ Fits(cur[1], num_computed_tokens[cur[1]] + cur[2])'
    <2> DEFINE q == cur[1]
    <2>1. /\ q \in Requests /\ q # v /\ cur' = cur /\ cur[2] \in Int
          /\ cur[2] >= 1 /\ cur[2] <= token_budget /\ Fits(q, num_computed_tokens[q] + cur[2])
      BY <1>4, <1>a DEF Granted
    <2>2. cur[2] <= token_budget'
      BY <2>1, <1>a
    <2>3. /\ num_computed_tokens'[q] = num_computed_tokens[q] /\ all_token_ids'[q] = all_token_ids[q]
          /\ num_output_placeholders'[q] = num_output_placeholders[q]
      BY <2>1, <1>a, <1>c
    <2> QED  BY <2>1, <2>2, <2>3 DEF Fits, NumTokens
  <1>5. Granted'
    BY <1>2, <1>3, <1>4 DEF Granted
  <1>6. PositionsInFlight'
    BY <1>a, PositionsKept
  <1>7. KVNext
    BY <1>b, <1>c DEF KVNext
  <1> QED  BY <1>1, <1>5, <1>6, <1>7 DEF NumbersInv, TokensKnown

(* reset_prefix_cache preempts the last running request. *)
LEMMA ResetPreemptUse ==
    ASSUME Before, ResetPreempt
    PROVE  NumbersInv' /\ [KVNext]_kvvars
  <1> DEFINE v == Last(running)
  <1>0. /\ UNCHANGED <<sched, token_budget, batch_queue, outputs, pc>>
        /\ pc \in {"reset", "clear"} /\ running # <<>>
        /\ PreemptRequest(v) /\ running' = Front(running)
        /\ num_output_placeholders' = [num_output_placeholders EXCEPT ![v] = 0]
    BY DEF ResetPreempt, stepvars, workervars, flightvars, sleepvars
  <1>a. /\ running \in Seq(Requests) /\ IsInjective(running) /\ Granted
        /\ token_budget \in Int /\ DOMAIN num_output_placeholders = Requests
    BY DEF Before, ControlInv, ControlTypes, NumberTypes, QueuesExact, NumbersInv
  <1>b. v \in Range(running) /\ Range(running') = Range(running) \ {v}
    BY <1>0, <1>a, FrontFacts
  <1> HIDE DEF v
  <1>c. \A q \in Requests \ {v} : num_output_placeholders'[q] = num_output_placeholders[q]
    BY <1>0, <1>a
  <1>d. \A i \in DOMAIN sched' : sched'[i].n >= 1
    BY <1>0, <1>a DEF Granted
  <1>e. token_budget' >= token_budget /\ token_budget' \in Int /\ pc' # "alloc"
    BY <1>0, <1>a
  <1> QED  BY <1>0, <1>b, <1>c, <1>d, <1>e, PreemptUse

(* schedule() preempts for the request at hand; what the victim was given  *)
(* in this step is there again.                                            *)
LEMMA PreemptVictimUse ==
    ASSUME Before, PreemptVictim
    PROVE  NumbersInv' /\ [KVNext]_kvvars
  <1> DEFINE v == Victim
  <1>0. /\ UNCHANGED <<cur, batch_queue, outputs, num_output_placeholders>>
        /\ pc = "alloc" /\ PreemptRequest(v) /\ running' = RemoveFrom(running, v)
        /\ sched' = Unscheduled(v)
        /\ token_budget' = token_budget + NumScheduledTokens(v)
        /\ pc' = IF v = cur[1] THEN "waiting" ELSE "alloc"
    BY DEF PreemptVictim, workervars, flightvars, sleepvars
  <1>a. /\ running \in Seq(Requests) /\ IsInjective(running) /\ Granted
        /\ cur[1] \in Range(running) \ Scheduled /\ cur \in Requests \X Int
        /\ \A i, j \in DOMAIN sched : sched[i].req = sched[j].req => i = j
        /\ token_budget \in Int
    BY <1>0 DEF Before, ControlInv, ControlTypes, NumberTypes, QueuesExact, StepInOrder, NumbersInv
  <1>b. running # <<>>
    BY <1>a DEF Range
  <1>c. v \in Range(running)
    BY <1>a, <1>b, VictimRuns
  <1> HIDE DEF v
  <1>d. Range(running') = Range(running) \ {v}
    <2>1. LET left == RemoveFrom(running, v) IN Range(left) = Range(running) \ {v}
      BY <1>a, RemoveFromFacts
    <2> QED  BY <2>1, <1>0
  <1>e. PICK B : sched \in Seq(Entry(B))
    BY DEF Before, ControlInv, ControlTypes
  <1>f. /\ \A i \in DOMAIN sched' : \E j \in DOMAIN sched : sched'[i] = sched[j]
        /\ \A q : q # v => TokensIn(sched', q) = TokensIn(sched, q)
    <2>1. Once(sched)
      BY <1>a DEF Once
    <2> QED  BY <2>1, <1>0, <1>e, StepWithout
  <1>g. \A q \in Requests \ {v} : TokensIn(sched', q) = TokensIn(sched, q)
    BY <1>f
  <1>h. \A i \in DOMAIN sched' : sched'[i].n >= 1
    BY <1>a, <1>f DEF Granted
  <1>i. token_budget' >= token_budget /\ token_budget' \in Int
    <2>1. v \in Requests
      BY <1>a, <1>c DEF Range
    <2>2. NumScheduledTokens(v) \in Nat
      BY <2>1, NumbersTyped
    <2> QED  BY <2>2, <1>0, <1>a
  <1>j. pc' = "alloc" => cur' = cur /\ cur[1] \in Requests \ {v} /\ cur[2] \in Int
    BY <1>0, <1>a
  <1> QED  BY <1>0, <1>c, <1>d, <1>g, <1>h, <1>i, <1>j, PreemptUse
(* n tokens fit into the blocks they need. *)
LEMMA CdivCovers ==
    ASSUME NEW n \in Nat
    PROVE  Cdiv(n, BlockSize) \in Nat /\ n <= Cdiv(n, BlockSize) * BlockSize
  BY BlockSizes, SMT DEF Cdiv

(* allocate_slots: the table grows by the hits and new blocks, and has     *)
(* slots for all tokens.                                                   *)
LEMMA SlotsAllocated ==
    ASSUME KVInv, NEW r \in Requests, NEW hits, IsHit(r, hits), NEW total \in Nat,
           AllocateSlots(r, hits, total)
    PROVE  /\ \E new \in Seq(Block) : req_to_blocks'[r] = req_to_blocks[r] \o hits \o new
           /\ \A q \in Requests \ {r} : req_to_blocks'[q] = req_to_blocks[q]
           /\ Len(req_to_blocks'[r]) \in Nat
           /\ total <= Len(req_to_blocks'[r]) * BlockSize
  <1> DEFINE table      == req_to_blocks[r]
             queue      == Without(free_block_queue, Range(hits))
             num_new    == NumNewBlocks(r, hits, total)
             new_blocks == SubSeq(queue, 1, num_new)
             rest       == SubSeq(queue, num_new + 1, Len(queue))
             blocks     == table \o hits \o new_blocks
  <1>1. CanAllocate(r, hits, total) /\ req_to_blocks' = [req_to_blocks EXCEPT ![r] = blocks]
    BY DEF AllocateSlots
  <1>2. /\ num_new \in Nat /\ num_new <= Len(queue)
        /\ Cdiv(total, BlockSize) <= Len(table) + Len(hits) + num_new
    BY <1>1, EnoughFreeBlocks
  <1>3. Appended(r, hits, new_blocks, rest, num_new)
    <2> HIDE DEF num_new
    <2> QED  BY <1>2, AppendedBlocks
  <1>4. DOMAIN req_to_blocks = Requests
    BY DEF KVInv, KVTypeOK
  <1>5. new_blocks \in Seq(Block) /\ blocks \in Seq(Block) /\ Len(blocks) = Len(table) + Len(hits) + num_new
    BY <1>3 DEF Appended
  <1>6. req_to_blocks'[r] = blocks /\ \A q \in Requests \ {r} : req_to_blocks'[q] = req_to_blocks[q]
    BY <1>1, <1>4
  <1>7. Len(blocks) \in Nat /\ Cdiv(total, BlockSize) <= Len(blocks)
    BY <1>2, <1>5
  <1>8. total <= Len(blocks) * BlockSize
    <2>1. Cdiv(total, BlockSize) \in Nat /\ total <= Cdiv(total, BlockSize) * BlockSize
      BY CdivCovers
    <2> HIDE DEF blocks
    <2>2. /\ Cdiv(total, BlockSize) * BlockSize <= Len(blocks) * BlockSize
          /\ Cdiv(total, BlockSize) * BlockSize \in Nat /\ Len(blocks) * BlockSize \in Nat
      BY <2>1, <1>7, MulMonotone
    <2> QED  BY <2>1, <2>2
  <1> HIDE DEF new_blocks
  <1> QED  BY <1>5, <1>6, <1>7, <1>8

(* A lookup leaves the last token to be computed. *)
LEMMA HitsLeaveToken ==
    ASSUME KVInv, NEW r \in Requests, all_token_ids[r] # <<>>, NEW hits \in GetComputedBlocks(r)
    PROVE  Len(hits) * BlockSize < NumTokens(r)
  <1> DEFINE max_num_blocks == (NumTokens(r) - 1) \div BlockSize
             chain == {n \in 1 .. max_num_blocks : \A i \in 1 .. n : IsCached(r, i)}
             k == NumHits(r)
  <1>1. NumTokens(r) \in Nat \ {0}
    BY DEF KVInv, KVTypeOK, NumTokens
  <1>2. max_num_blocks \in Nat /\ max_num_blocks * BlockSize <= NumTokens(r) - 1
    BY <1>1, NumTokens(r) - 1 \in Nat, DivBounds
  <1>3. k = Cardinality(chain)
    BY DEF NumHits
  <1> HIDE DEF max_num_blocks, k
  <1>4. chain \in SUBSET (1 .. max_num_blocks)
    OBVIOUS
  <1>5. IsFiniteSet(1 .. max_num_blocks) /\ Cardinality(1 .. max_num_blocks) = max_num_blocks
    BY <1>2, FS_Interval
  <1> HIDE DEF chain
  <1>6. k \in Nat /\ k <= max_num_blocks
    BY <1>3, <1>4, <1>5, FS_Subset, FS_CardinalityType
  <1>7. /\ k * BlockSize <= max_num_blocks * BlockSize /\ k * BlockSize \in Nat
        /\ max_num_blocks * BlockSize \in Nat
    BY <1>2, <1>6, MulMonotone
  <1>8. Len(hits) = k
    <2>1. hits \in [1 .. k -> HitBlocks(r)]
      BY DEF GetComputedBlocks, k
    <2> QED  BY <2>1, <1>6
  <1> QED  BY <1>1, <1>2, <1>7, <1>8

(* A step that gives slots to one request. *)
LEMMA GrantUse ==
    ASSUME Before, NEW r \in Requests, NEW hits, IsHit(r, hits), NEW n \in Nat, n >= 1,
           NEW done \in Nat, done = num_computed_tokens'[r],
           n <= token_budget, token_budget' = token_budget - n,
           AllocateSlots(r, hits, done + n), Fits(r, done + n),
           r \notin Scheduled, NEW e, e \in Entry({e.blocks}), e.req = r, e.n = n,
           sched' = Append(sched, e), Range(running') = Range(running) \cup {r},
           pc \notin {"cache", "stop"}, pc' # "alloc",
           \A q \in Requests \ {r} : num_computed_tokens'[q] = num_computed_tokens[q],
           \A q \in Requests : status'[q] = "none" <=> status[q] = "none",
           UNCHANGED <<num_prompt_tokens, num_output_placeholders, all_token_ids, outputs, batch_queue>>
    PROVE  NumbersInv'
  <1>a. /\ running \in Seq(Requests) /\ ControlInv /\ KVInv
        /\ TokensKnown /\ Granted /\ PositionsInFlight /\ token_budget \in Int
        /\ \A i, j \in DOMAIN sched : sched[i].req = sched[j].req => i = j
    BY DEF Before, ControlInv, ControlTypes, NumberTypes, NumbersInv, StepInOrder
  <1>b. PICK B : sched \in Seq(Entry(B))
    BY DEF Before, ControlInv, ControlTypes
  <1>c. \A q : TokensIn(sched', q) = IF q = r THEN n ELSE TokensIn(sched, q)
    <2>1. Once(sched) /\ e.req \notin ReqsOf(sched)
      BY <1>a, StepTerms DEF Once
    <2>2. \A q : TokensIn(Append(sched, e), q) = IF q = e.req THEN e.n ELSE TokensIn(sched, q)
      BY <2>1, <1>b, EntriesAppend
    <2> QED  BY <2>2
  <1>d. \A i \in DOMAIN sched' : sched'[i].n >= 1
    <2>1. \A i \in DOMAIN Append(sched, e) :
             Append(sched, e)[i] = e \/ (i \in DOMAIN sched /\ Append(sched, e)[i] = sched[i])
      BY <1>b, AppendedEntry
    <2> QED  BY <2>1, <1>a DEF Granted
  <1>e. done + n \in Nat
    OBVIOUS
  <1>f. /\ \A q \in Requests \ {r} : req_to_blocks'[q] = req_to_blocks[q]
        /\ Len(req_to_blocks'[r]) \in Nat
        /\ done + n <= Len(req_to_blocks'[r]) * BlockSize
    BY <1>a, <1>e, SlotsAllocated
  <1>1. ASSUME NEW q \in Requests PROVE TokensOf(q)'
    <2>1. TokensOf(q) /\ (status[q] # "none" => NumTokens(q) # MaxModelLen)
      BY <1>a DEF TokensKnown, TokensOf
    <2> QED  BY <2>1 DEF TokensOf, NumTokens
  <1>2. ASSUME NEW q \in Range(running') PROVE Covered(q)'
    <2>1. CASE q = r
      <3>1. NumScheduledTokens(q)' = n
        BY <2>1, <1>c, StepTermsNext
      <3>2. Fits(q, done + n)'
        BY <2>1 DEF Fits, NumTokens
      <3> QED  BY <3>1, <3>2, <2>1, <1>f DEF Covered, Fits
    <2>2. CASE q # r
      <3>1. q \in Requests /\ q \in Range(running)
        BY <2>2, <1>a, RunningRequest
      <3>2. /\ NumTokens(q)' = NumTokens(q) /\ NumTokens(q) \in Nat /\ num_output_placeholders[q] \in Nat
            /\ TokensIn(sched', q) = TokensIn(sched, q)
            /\ num_output_placeholders'[q] = num_output_placeholders[q]
            /\ num_computed_tokens'[q] = num_computed_tokens[q]
            /\ req_to_blocks'[q] = req_to_blocks[q]
        BY <2>2, <3>1, <1>c, <1>f, NumbersTyped DEF NumTokens
      <3> QED  BY <3>1, <3>2, CoveredKept
    <2> QED  BY <2>1, <2>2
  <1>3. token_budget' >= 0
    BY <1>a
  <1>4. Granted'
    BY <1>2, <1>3, <1>d DEF Granted
  <1>5. PositionsInFlight'
    BY <1>a, PositionsKept
  <1> QED  BY <1>1, <1>4, <1>5 DEF NumbersInv, TokensKnown

(* The request at hand gets its slots. *)
LEMMA ScheduleRunningUse ==
    ASSUME Before, ScheduleRunning
    PROVE  NumbersInv' /\ [KVNext]_kvvars
  <1> DEFINE r == cur[1]
             n == cur[2]
             done == num_computed_tokens[r]
             e == [req |-> r, n |-> n, kind |-> "running",
                   blocks |-> SubSeq(req_to_blocks'[r], Len(req_to_blocks[r]) + 1,
                                     Len(req_to_blocks'[r]))]
  <1>0. /\ UNCHANGED <<status, num_prompt_tokens, num_computed_tokens, num_output_placeholders,
                       all_token_ids, outputs, batch_queue, running>>
        /\ pc = "alloc" /\ pc' = "running"
        /\ AllocateSlots(r, <<>>, done + n)
        /\ sched' = Append(sched, e) /\ token_budget' = token_budget - n
    BY DEF ScheduleRunning, reqvars, queuevars, flightvars
  <1>a. /\ running \in Seq(Requests) /\ QueuesExact /\ KVInv /\ Granted /\ TokensKnown
        /\ r \in Range(running) \ Scheduled /\ cur \in Requests \X Int
    BY <1>0 DEF Before, ControlInv, ControlTypes, NumberTypes, StepInOrder, NumbersInv
  <1>b. /\ r \in Requests /\ n \in Nat /\ n >= 1 /\ n <= token_budget /\ Fits(r, done + n)
    BY <1>0, <1>a DEF Granted
  <1>c. e \in Entry({e.blocks}) /\ e.req = r /\ e.n = n
    <2> HIDE DEF r, n
    <2> QED  BY <1>b DEF Entry
  <1>d. all_token_ids[r] # <<>>
    <2> HIDE DEF r, n, done, e
    <2>1. status[r] # "none"
      BY <1>a DEF QueuesExact
    <2> QED  BY <2>1, <1>b, AddedHasTokens
  <1>e. IsHit(r, <<>>)
    BY <1>a, <1>b, <1>d, HitFacts
  <1>f. done \in Nat
    BY <1>b, NumbersTyped
  <1> HIDE DEF r, n, e
  <1>1. NumbersInv'
    <2>1. /\ Range(running') = Range(running) \cup {r} /\ done = num_computed_tokens'[r]
          /\ pc \notin {"cache", "stop"} /\ pc' # "alloc"
          /\ \A q \in Requests \ {r} : num_computed_tokens'[q] = num_computed_tokens[q]
          /\ \A q \in Requests : status'[q] = "none" <=> status[q] = "none"
          /\ r \notin Scheduled
      BY <1>0, <1>a
    <2> HIDE DEF done
    <2> QED  BY <2>1, <1>0, <1>b, <1>c, <1>e, <1>f, GrantUse
  <1>2. Allocate(r)
    <2>1. Len(<<>>) * BlockSize + 1 = 1
      BY BlockSizes
    <2>2. done + n \in 1 .. MaxModelLen
      BY <1>b, <1>f, BlockSizes DEF Fits
    <2>3. <<>> \in IF req_to_blocks[r] = <<>> THEN GetComputedBlocks(r) \cup {<<>>} ELSE {<<>>}
      OBVIOUS
    <2> QED  BY <2>1, <2>2, <2>3, <1>0, <1>d DEF Allocate
  <1>3. KVNext
    BY <1>2, <1>b DEF KVNext
  <1> QED  BY <1>1, <1>3
(* A waiting request is admitted with its prefix hit. *)
LEMMA ScheduleWaitingUse ==
    ASSUME Before, ScheduleWaiting
    PROVE  NumbersInv' /\ [KVNext]_kvvars
  <1> DEFINE r == Head(waiting)
  <1>1. PICK hits \in GetComputedBlocks(r) :
            LET n == NumNewWaiting(r, hits)
            IN  /\ AllocateSlots(r, hits, Len(hits) * BlockSize + n)
                /\ running' = Append(running, r)
                /\ waiting' = Tail(waiting)
                /\ sched' = Append(sched, [req |-> r, n |-> n,
                       kind |-> IF status[r] = "WAITING" THEN "new" ELSE "resumed",
                       blocks |-> req_to_blocks'[r]])
                /\ token_budget' = token_budget - n
                /\ status' = [status EXCEPT ![r] = "RUNNING"]
                /\ num_computed_tokens' = [num_computed_tokens EXCEPT ![r] = Len(hits) * BlockSize]
    BY DEF ScheduleWaiting
  <1> DEFINE n == NumNewWaiting(r, hits)
             done == Len(hits) * BlockSize
             e == [req |-> r, n |-> n, kind |-> IF status[r] = "WAITING" THEN "new" ELSE "resumed",
                   blocks |-> req_to_blocks'[r]]
  <1>2. /\ AllocateSlots(r, hits, done + n)
        /\ running' = Append(running, r) /\ sched' = Append(sched, e)
        /\ token_budget' = token_budget - n
        /\ status' = [status EXCEPT ![r] = "RUNNING"]
        /\ num_computed_tokens' = [num_computed_tokens EXCEPT ![r] = done]
    BY <1>1
  <1>0. /\ UNCHANGED <<num_prompt_tokens, num_output_placeholders, all_token_ids, outputs,
                       batch_queue, pc>>
        /\ pc = "waiting" /\ waiting # <<>> /\ token_budget > 0
    BY DEF ScheduleWaiting, MoreWaiting, flightvars
  <1>a. /\ running \in Seq(Requests) /\ IsInjective(running)
        /\ waiting \in Seq(Requests) /\ IsInjective(waiting)
        /\ QueuesExact /\ KVInv /\ Granted /\ TokensKnown /\ NumberTypes /\ token_budget \in Int
        /\ Scheduled \subseteq Range(running)
        /\ DOMAIN status = Requests /\ DOMAIN num_computed_tokens = Requests
    BY DEF Before, ControlInv, ControlTypes, NumberTypes, StepInOrder, QueuesExact, NumbersInv
  <1>b. r \in Range(waiting)
    BY <1>0, <1>a, TailFacts
  <1>c. /\ r \in Requests /\ status[r] \in {"WAITING", "PREEMPTED"} /\ r \notin Range(running)
        /\ r \notin Scheduled
    BY <1>a, <1>b DEF QueuesExact, Range
  <1>d. /\ NumTokens(r) >= 1 /\ NumTokens(r) < MaxModelLen /\ NumTokens(r) \in Nat
        /\ num_output_placeholders[r] \in Nat
        /\ all_token_ids[r] # <<>> /\ req_to_blocks[r] = <<>>
    <2>1. /\ num_prompt_tokens[r] \in 1 .. NumTokens(r) /\ NumTokens(r) <= MaxModelLen
          /\ NumTokens(r) # MaxModelLen
      BY <1>0, <1>a, <1>c DEF TokensKnown, TokensOf
    <2>2. NumTokens(r) \in Nat /\ num_output_placeholders[r] \in Nat
      BY <1>c, NumbersTyped
    <2>3. req_to_blocks[r] = <<>>
      BY <1>a, <1>c DEF QueuesExact
    <2>4. all_token_ids[r] # <<>>
      BY <2>1, <2>2 DEF NumTokens
    <2> QED  BY <2>1, <2>2, <2>3, <2>4, BlockSizes
  <1>e. done \in Nat /\ done < NumTokens(r)
    BY <1>a, <1>c, <1>d, NumHitsType, HitsLeaveToken
  <1>f. /\ n \in Nat /\ n >= 1 /\ n <= token_budget /\ done + n <= NumTokens(r)
    <2>1. LET left == NumTokens(r) - Len(hits) * BlockSize
          IN  /\ left \in Int /\ n \in Int
              /\ n <= left /\ n <= token_budget
              /\ left > 0 /\ token_budget > 0 => n > 0
      BY <1>a, <1>c, NumNewWaitingFacts
    <2> HIDE DEF n, r
    <2> QED  BY <2>1, <1>0, <1>a, <1>d, <1>e
  <1>g. IsHit(r, hits)
    <2>1. hits \in IF req_to_blocks[r] = <<>> THEN GetComputedBlocks(r) \cup {<<>>} ELSE {<<>>}
      BY <1>d
    <2> QED  BY <2>1, <1>a, <1>c, <1>d, HitFacts
  <1>h. e \in Entry({e.blocks}) /\ e.req = r /\ e.n = n
    <2> HIDE DEF r, n
    <2> QED  BY <1>c, <1>f DEF Entry
  <1>i. Range(running') = Range(running) \cup {r}
    BY <1>2, <1>a, <1>c, AppendFacts
  <1> HIDE DEF r, n, e, done
  <1>j. Fits(r, done + n)
    BY <1>d, <1>e, <1>f, BlockSizes DEF Fits
  <1>3. NumbersInv'
    <2>1. /\ done = num_computed_tokens'[r]
          /\ pc \notin {"cache", "stop"} /\ pc' # "alloc"
          /\ \A q \in Requests \ {r} : num_computed_tokens'[q] = num_computed_tokens[q]
          /\ \A q \in Requests : status'[q] = "none" <=> status[q] = "none"
      BY <1>0, <1>2, <1>a, <1>c
    <2> QED  BY <2>1, <1>0, <1>2, <1>c, <1>e, <1>f, <1>g, <1>h, <1>i, <1>j, GrantUse
  <1>4. Allocate(r)
    <2>1. done + n \in Len(hits) * BlockSize + 1 .. MaxModelLen
      BY <1>d, <1>e, <1>f, BlockSizes DEF done
    <2>2. hits \in IF req_to_blocks[r] = <<>> THEN GetComputedBlocks(r) \cup {<<>>} ELSE {<<>>}
      BY <1>d DEF r
    <2> QED  BY <2>1, <2>2, <1>0, <1>2, <1>d DEF Allocate
  <1>5. KVNext
    BY <1>4, <1>c DEF KVNext
  <1> QED  BY <1>3, <1>5

(* The scheduled tokens count as computed once the batch has left. *)
LEMMA DispatchUse ==
    ASSUME Before, Dispatch
    PROVE  NumbersInv' /\ [KVNext]_kvvars
  <1> DEFINE batch == [i \in DOMAIN sched |->
                          [req |-> sched[i].req,
                           pos |-> IF IsPrefillChunk(sched[i]) THEN 0
                                   ELSE num_computed_tokens[sched[i].req] + sched[i].n + 1]]
  <1>0. /\ UNCHANGED <<status, num_prompt_tokens, running, outputs>> /\ UNCHANGED kvvars
        /\ pc = "dispatch" /\ pc' \in {"result", "idle"}
        /\ num_computed_tokens' = [r \in Requests |-> num_computed_tokens[r] + NumScheduledTokens(r)]
        /\ num_output_placeholders' = [r \in Requests |->
              num_output_placeholders[r] + (IF AsyncScheduling /\ Samples(batch, r) THEN 1 ELSE 0)]
        /\ batch_queue' = Append(batch_queue, batch)
        /\ sched' = <<>> /\ token_budget' = 0
    BY DEF Dispatch
  <1>a. /\ running \in Seq(Requests) /\ batch_queue \in Seq(Seq(Output))
        /\ Scheduled \subseteq Range(running)
        /\ TokensKnown /\ Granted /\ PositionsInFlight
        /\ \A i, j \in DOMAIN sched : sched[i].req = sched[j].req => i = j
    BY DEF Before, ControlInv, ControlTypes, StepInOrder, NumbersInv
  <1>b. UNCHANGED <<all_token_ids, req_to_blocks>>
    BY <1>0 DEF kvvars, tablevars
  <1>c. \A q : TokensIn(sched', q) = 0
    BY <1>0 DEF TokensIn, ReqsOf
  <1>1. TokensKnown'
    BY <1>0, <1>a, <1>b DEF TokensKnown, TokensOf, NumTokens
  <1>2. ASSUME NEW q \in Range(running) PROVE Covered(q)'
    <2>1. q \in Requests /\ Covered(q)
      BY <1>a DEF Range, Granted
    <2>2. NumScheduledTokens(q)' = 0
      BY <1>c, StepTermsNext
    <2>3. /\ NumTokens(q) \in Nat /\ num_output_placeholders[q] \in Nat
          /\ num_computed_tokens[q] \in Nat /\ NumScheduledTokens(q) \in Nat
      BY <2>1, NumbersTyped
    <2>4. num_computed_tokens'[q] = num_computed_tokens[q] + NumScheduledTokens(q)
      BY <2>1, <1>0
    <2>5. num_output_placeholders'[q] = num_output_placeholders[q]
              + (IF AsyncScheduling /\ Samples(batch, q) THEN 1 ELSE 0)
      BY <2>1, <1>0
    <2> HIDE DEF batch
    <2>6. num_output_placeholders'[q] \in Nat /\ num_output_placeholders'[q] >= num_output_placeholders[q]
      BY <2>3, <2>5
    <2>7. Fits(q, num_computed_tokens[q] + NumScheduledTokens(q))'
      <3>1. Fits(q, num_computed_tokens[q] + NumScheduledTokens(q))
        BY <2>1 DEF Covered
      <3> QED  BY <3>1, <2>2, <2>3, <2>4, <2>6, <1>b DEF Fits, NumTokens
    <2> QED  BY <2>1, <2>2, <2>3, <2>4, <2>7, <1>b DEF Covered
  <1>3. Granted'
    <2>1. \A i \in DOMAIN sched' : sched'[i].n >= 1
      BY <1>0
    <2> QED  BY <2>1, <1>0, <1>2 DEF Granted
  <1>4. PositionsInFlight'
    <2>1. PICK B : sched \in Seq(Entry(B))
      BY DEF Before, ControlInv, ControlTypes
    <2>2. ASSUME NEW i \in DOMAIN sched
          PROVE  num_computed_tokens[sched[i].req] + sched[i].n + 1 \in 0 .. MaxModelLen
      <3> DEFINE q == sched[i].req
      <3>1. sched[i] \in Entry(B)
        BY <2>1
      <3>2. q \in Requests /\ q \in Scheduled
        BY <3>1 DEF Entry, Scheduled
      <3>3. NumScheduledTokens(q) = sched[i].n
        <4>1. EntryOf(sched, q) = sched[i] /\ q \in ReqsOf(sched)
          BY <1>a, EntryOfFacts DEF Once
        <4> QED  BY <4>1, StepTerms DEF TokensIn
      <3>4. Covered(q)
        BY <3>2, <1>a DEF Granted
      <3>5. num_computed_tokens[q] \in Nat /\ NumScheduledTokens(q) \in Nat
        BY <3>2, NumbersTyped
      <3> QED  BY <3>3, <3>4, <3>5, BlockSizes DEF Covered, Fits
    <2>3. Positions(batch)
      <3>1. \A i \in DOMAIN batch : batch[i].pos \in
                {0, num_computed_tokens[sched[i].req] + sched[i].n + 1}
        OBVIOUS
      <3>2. 0 \in 0 .. MaxModelLen
        BY BlockSizes
      <3> QED  BY <3>1, <3>2, <2>2 DEF Positions
    <2> HIDE DEF batch
    <2>4. ASSUME NEW i \in DOMAIN batch_queue' PROVE Positions(batch_queue'[i])
      <3>1. Len(batch_queue) \in Nat /\ i \in 1 .. Len(batch_queue) + 1
        <4>1. Len(Append(batch_queue, batch)) = Len(batch_queue) + 1 /\ Len(batch_queue) \in Nat
              /\ DOMAIN Append(batch_queue, batch) = 1 .. Len(batch_queue) + 1
          BY <1>a
        <4> QED  BY <4>1, <1>0
      <3>2. CASE i = Len(batch_queue) + 1
        <4>1. batch_queue'[i] = batch
          BY <3>2, <1>0, <1>a
        <4> QED  BY <4>1, <2>3
      <3>3. CASE i # Len(batch_queue) + 1
        <4>1. i \in DOMAIN batch_queue /\ batch_queue'[i] = batch_queue[i]
          BY <3>1, <3>3, <1>0, <1>a
        <4> QED  BY <4>1, <1>a DEF PositionsInFlight
      <3> QED  BY <3>2, <3>3
    <2> QED  BY <2>4, <1>0, <1>a DEF PositionsInFlight, Positions
  <1> QED  BY <1>0, <1>1, <1>3, <1>4 DEF NumbersInv
(* A sampled token becomes known; the one at the last position stops its   *)
(* request.                                                                *)
LEMMA AppendOutputUse ==
    ASSUME Before, AppendOutput
    PROVE  NumbersInv' /\ [KVNext]_kvvars
  <1> DEFINE e == Head(outputs)
             r == e.req
  <1>0. /\ UNCHANGED <<status, num_prompt_tokens, num_computed_tokens, req_to_blocks, running>>
        /\ UNCHANGED <<batch_queue, sched, token_budget>>
        /\ pc = "update" /\ status[r] # "none" /\ e.pos # 0
        /\ AppendOutputToken(r, e.pos)
        /\ num_output_placeholders' = [num_output_placeholders EXCEPT ![r] = PlaceholdersAfter(@)]
    BY DEF AppendOutput, AppendOutputToken, tablevars, queuevars, stepvars
  <1>1. PICK eos \in BOOLEAN :
          /\ stopped' = CheckStop(r, eos)
          /\ \/ pc' \in {"cache", "stop"} /\ UNCHANGED outputs
             \/ ~stopped' /\ NextOutput
    BY DEF AppendOutput
  <1>a. /\ outputs \in Seq(Output) /\ outputs # <<>> /\ running \in Seq(Requests)
        /\ TokensKnown /\ Granted /\ PositionsInFlight /\ ControlInv
        /\ DOMAIN num_output_placeholders = Requests /\ DOMAIN all_token_ids = Requests
    BY <1>0 DEF Before, ControlInv, ControlTypes, NumberTypes, BatchesInFlight, NumbersInv
  <1>b. r \in Requests /\ e.pos \in 0 .. MaxModelLen
    <2>1. r \in Requests /\ e = outputs[1] /\ 1 \in DOMAIN outputs
      BY <1>a, OutputAtHand
    <2>2. outputs[1].pos \in 0 .. MaxModelLen
      BY <2>1, <1>a DEF PositionsInFlight, Positions
    <2> QED  BY <2>1, <2>2
  <1> HIDE DEF r, e
  <1>c. e.pos \in Token
    BY <1>0, <1>b, PositionsAreTokens, BlockSizes
  <1>d. /\ NumTokens(r) \in Nat /\ num_output_placeholders[r] \in Nat /\ all_token_ids[r] \in Seq(Token)
    BY <1>b, NumbersTyped
  <1>e. /\ num_prompt_tokens[r] \in 1 .. NumTokens(r) /\ num_prompt_tokens[r] + MinTokens <= MaxModelLen
        /\ NumTokens(r) < MaxModelLen
    <2>1. NumTokens(r) <= MaxModelLen /\ NumTokens(r) # MaxModelLen
      BY <1>0, <1>a, <1>b DEF TokensKnown, TokensOf
    <2> QED  BY <2>1, <1>0, <1>a, <1>b, <1>d, BlockSizes DEF TokensKnown, TokensOf
  <1>f. /\ all_token_ids'[r] = Append(all_token_ids[r], e.pos)
        /\ \A q \in Requests \ {r} : all_token_ids'[q] = all_token_ids[q]
    BY <1>0, <1>a, <1>b DEF AppendOutputToken
  <1>g. Len(all_token_ids'[r]) = NumTokens(r) + 1
    BY <1>c, <1>d, <1>f DEF NumTokens
  <1>h. /\ num_output_placeholders'[r] =
              IF AsyncScheduling THEN num_output_placeholders[r] - 1 ELSE num_output_placeholders[r]
        /\ \A q \in Requests \ {r} : num_output_placeholders'[q] = num_output_placeholders[q]
    BY <1>0, <1>a, <1>b DEF PlaceholdersAfter
  <1>i. NumTokens(r) + 1 = MaxModelLen =>
          stopped' /\ pc' \in {"cache", "stop"} /\ outputs' = outputs
    <2> HAVE NumTokens(r) + 1 = MaxModelLen
    <2>1. NumTokens(r) + 1 - num_prompt_tokens[r] >= MinTokens
      BY <1>d, <1>e, SchedulerConfig
    <2>2. NumTokens(r) + 1 >= MaxModelLen
      BY <1>d
    <2>3. CheckStop(r, eos)
      BY <2>1, <2>2 DEF CheckStop
    <2> QED  BY <2>3, <1>1
  <1>2. ASSUME NEW q \in Requests PROVE TokensOf(q)'
    <2>1. CASE q = r
      <3>1. Len(all_token_ids'[q]) = NumTokens(r) + 1 /\ num_prompt_tokens'[q] = num_prompt_tokens[r]
            /\ status'[q] # "none"
        BY <2>1, <1>0, <1>g
      <3>2. num_prompt_tokens[r] \in 1 .. NumTokens(r) + 1
        BY <1>d, <1>e
      <3>3. NumTokens(r) + 1 <= MaxModelLen
        BY <1>d, <1>e, BlockSizes
      <3>4. NumTokens(r) + 1 = MaxModelLen => q = Head(outputs').req
        BY <2>1, <1>i DEF r, e
      <3> QED  BY <3>1, <3>2, <3>3, <3>4, <1>e, <1>i DEF TokensOf, NumTokens
    <2>2. CASE q # r
      <3>1. TokensOf(q) /\ (status[q] # "none" => NumTokens(q) # MaxModelLen)
        BY <1>0, <1>a DEF TokensKnown, TokensOf
      <3>2. all_token_ids'[q] = all_token_ids[q]
        BY <2>2, <1>f
      <3> QED  BY <3>1, <3>2, <1>0 DEF TokensOf, NumTokens
    <2> QED  BY <2>1, <2>2
  <1>3. ASSUME NEW q \in Range(running) PROVE Covered(q)'
    <2>1. q \in Requests
      BY <1>a DEF Range
    <2>2. NumTokens(q) \in Nat /\ num_output_placeholders[q] \in Nat
      BY <2>1, NumbersTyped
    <2>3. /\ NumTokens(q)' + num_output_placeholders'[q] \in Int
          /\ NumTokens(q)' + num_output_placeholders'[q] >= NumTokens(q) + num_output_placeholders[q]
      <3>1. CASE q = r
        <4>1. NumTokens(q)' = NumTokens(q) + 1
          BY <3>1, <1>g DEF NumTokens
        <4>2. num_output_placeholders'[q] =
              IF AsyncScheduling THEN num_output_placeholders[q] - 1 ELSE num_output_placeholders[q]
          BY <3>1, <1>h
        <4> QED  BY <4>1, <4>2, <2>2
      <3>2. CASE q # r
        <4>1. NumTokens(q)' = NumTokens(q) /\ num_output_placeholders'[q] = num_output_placeholders[q]
          BY <3>2, <2>1, <1>f, <1>h DEF NumTokens
        <4> QED  BY <4>1, <2>2
      <3> QED  BY <3>1, <3>2
    <2>4. TokensIn(sched', q) = TokensIn(sched, q)
      BY <1>0
    <2> QED  BY <2>1, <2>3, <2>4, <1>0, CoveredKept
  <1>j. pc' # "alloc"
    BY <1>1 DEF NextOutput
  <1>4. Granted'
    BY <1>0, <1>3, <1>a, <1>j DEF Granted
  <1>5. PositionsInFlight'
    <2>1. UNCHANGED outputs \/ (outputs # <<>> /\ outputs' = Tail(outputs))
      BY <1>1, <1>a DEF NextOutput
    <2> QED  BY <2>1, <1>0, <1>a, PositionsKept
  <1>6. KVNext
    BY <1>0, <1>b, <1>c DEF KVNext
  <1> QED  BY <1>2, <1>4, <1>5, <1>6 DEF NumbersInv, TokensKnown

(* Caching nothing changes nothing. *)
LEMMA CacheNothing ==
    ASSUME KVInv, NEW r \in Requests, NEW n \in Int, n <= 0, CacheBlocks(r, n)
    PROVE  UNCHANGED <<poolvars, tablevars>>
  <1>1. n \div BlockSize \in Int /\ n \div BlockSize <= 0
    BY BlockSizes, SMT
  <1>2. NumCached(r) \in Nat
    BY NumCachedType
  <1> DEFINE num_full == n \div BlockSize
             pairs == NewlyCached(r, req_to_blocks[r], NumCached(r), num_full)
  <1>3. /\ block_hash' = SetHashes(block_hash, pairs)
        /\ cached_block_hash_to_block' = cached_block_hash_to_block \cup pairs
        /\ num_cached_block' = [num_cached_block EXCEPT ![r] =
              IF num_full > NumCached(r) THEN num_full ELSE @]
        /\ UNCHANGED <<ref_cnt, free_block_queue, req_to_blocks>>
    BY DEF CacheBlocks
  <1> HIDE DEF num_full
  <1>4. ~ (num_full > NumCached(r)) /\ NumCached(r) + 1 .. num_full = {}
    BY <1>1, <1>2 DEF num_full
  <1>5. pairs = {}
    BY <1>4 DEF NewlyCached
  <1> HIDE DEF pairs
  <1>6. block_hash \in [Block -> Seq(Token)] /\ num_cached_block \in [Requests -> Nat \cup {NoEntry}]
    BY DEF KVInv, KVTypeOK
  <1>7. block_hash' = block_hash
    BY <1>3, <1>5, <1>6 DEF SetHashes
  <1>8. num_cached_block' = num_cached_block
    BY <1>3, <1>4, <1>6
  <1> QED  BY <1>3, <1>5, <1>7, <1>8 DEF poolvars, tablevars

(* The asynchronous scheduler caches known tokens that have slots. *)
LEMMA CacheOutputUse ==
    ASSUME Before, CacheOutput
    PROVE  NumbersInv' /\ [KVNext]_kvvars
  <1> DEFINE r == Head(outputs).req
             n == num_computed_tokens[r] - num_output_placeholders[r]
  <1>0. /\ UNCHANGED <<status, num_prompt_tokens, num_computed_tokens, num_output_placeholders,
                       all_token_ids, req_to_blocks, running>>
        /\ UNCHANGED <<batch_queue, sched, token_budget, stopped>>
        /\ pc = "cache" /\ CacheBlocks(r, n)
        /\ \/ pc' = "stop" /\ UNCHANGED outputs
           \/ ~stopped /\ NextOutput
    BY DEF CacheOutput, CacheBlocks, reqvars, queuevars, stepvars
  <1>a. /\ outputs \in Seq(Output) /\ outputs # <<>> /\ running \in Seq(Requests)
        /\ TokensKnown /\ Granted /\ PositionsInFlight /\ ControlInv /\ KVInv
        /\ status[r] = "RUNNING" /\ QueuesExact
    BY <1>0 DEF Before, ControlInv, ControlTypes, BatchesInFlight, NumbersInv
  <1>b. r \in Requests
    BY <1>a, OutputAtHand
  <1>c. r \in Range(running)
    BY <1>a, <1>b DEF QueuesExact
  <1>1. ASSUME NEW q \in Requests PROVE TokensOf(q)'
    <2>1. TokensOf(q)
      BY <1>a DEF TokensKnown
    <2>2. CASE pc' = "stop" /\ UNCHANGED outputs
      BY <2>1, <2>2, <1>0 DEF TokensOf, NumTokens
    <2>3. CASE ~stopped
      BY <2>1, <2>3, <1>0 DEF TokensOf, NumTokens
    <2> QED  BY <2>2, <2>3, <1>0
  <1> HIDE DEF r
  <1>2. ASSUME NEW q \in Range(running) PROVE Covered(q)'
    <2>1. q \in Requests
      BY <1>a DEF Range
    <2>2. /\ NumTokens(q)' = NumTokens(q) /\ NumTokens(q) \in Nat /\ num_output_placeholders[q] \in Nat
          /\ TokensIn(sched', q) = TokensIn(sched, q)
      BY <2>1, <1>0, NumbersTyped DEF NumTokens
    <2> QED  BY <2>1, <2>2, <1>0, CoveredKept
  <1>d. pc' # "alloc"
    BY <1>0 DEF NextOutput
  <1>3. Granted'
    BY <1>0, <1>2, <1>a, <1>d DEF Granted
  <1>4. PositionsInFlight'
    <2>1. UNCHANGED outputs \/ (outputs # <<>> /\ outputs' = Tail(outputs))
      BY <1>0, <1>a DEF NextOutput
    <2> QED  BY <2>1, <1>0, <1>a, PositionsKept
  <1>5. [KVNext]_kvvars
    <2> DEFINE slots == Len(req_to_blocks[r]) * BlockSize
    <2>1. /\ NumTokens(r) \in Nat /\ num_output_placeholders[r] \in Nat
          /\ num_computed_tokens[r] \in Nat /\ NumScheduledTokens(r) \in Nat
          /\ slots \in Nat
      BY <1>b, NumbersTyped
    <2>2. Covered(r)
      BY <1>a, <1>c DEF Granted
    <2>3. n \in Int /\ n <= NumTokens(r) /\ n <= slots
      BY <2>1, <2>2, SMTT(30) DEF Covered, Fits
    <2> HIDE DEF n
    <2>4. CASE n <= 0
      BY <2>3, <2>4, <1>0, <1>a, <1>b, CacheNothing DEF kvvars
    <2>5. CASE n >= 1
      <3>1. req_to_blocks[r] # <<>>
        BY <2>3, <2>5, BlockSizes
      <3>2. Min({NumTokens(r), slots}) = IF NumTokens(r) <= slots THEN NumTokens(r) ELSE slots
        BY <2>1, MinOfTwo
      <3>3. n \in 0 .. Min({NumTokens(r), slots})
        BY <3>2, <2>1, <2>3, <2>5
      <3>4. Cache(r)
        BY <3>1, <3>3, <1>0 DEF Cache
      <3> QED  BY <3>4, <1>b DEF KVNext
    <2> QED  BY <2>3, <2>4, <2>5
  <1> QED  BY <1>1, <1>3, <1>4, <1>5 DEF NumbersInv, TokensKnown
-----------------------------------------------------------------------------
(* The scheduler as a client of the cache. *)

(* Nothing is scheduled or in flight at the start. *)
LEMMA NumbersInit == Init => NumbersInv
  <1> SUFFICES ASSUME Init PROVE NumbersInv
    OBVIOUS
  <1>1. /\ status = [r \in Requests |-> "none"] /\ all_token_ids = [r \in Requests |-> <<>>]
        /\ running = <<>> /\ sched = <<>> /\ token_budget = 0 /\ pc = "idle"
        /\ outputs = <<>> /\ batch_queue = <<>>
    BY DEF Init, KVInit
  <1> HIDE DEF Init
  <1>2. TokensKnown
    BY <1>1 DEF TokensKnown, TokensOf
  <1>3. Granted
    <2>1. Range(running) = {}
      BY <1>1 DEF Range
    <2> QED  BY <2>1, <1>1 DEF Granted
  <1>4. PositionsInFlight
    BY <1>1 DEF PositionsInFlight, Positions
  <1> QED  BY <1>2, <1>3, <1>4 DEF NumbersInv

(* Every step keeps the numbers right and calls the cache as it may be     *)
(* called.                                                                 *)
LEMMA NextUse ==
    ASSUME Before, Next
    PROVE  NumbersInv' /\ [KVNext]_kvvars
  <1>1. CASE QuietStep
    BY <1>1, QuietUse
  <1>2. CASE PickRunning \/ ScheduleRunning \/ ScheduleWaiting \/ Dispatch
    BY <1>2, PickRunningUse, ScheduleRunningUse, ScheduleWaitingUse, DispatchUse
  <1>3. CASE PreemptVictim \/ ResetPreempt
    BY <1>3, PreemptVictimUse, ResetPreemptUse
  <1>4. CASE AppendOutput \/ CacheOutput
    BY <1>4, AppendOutputUse, CacheOutputUse
  <1>5. CASE (\E r \in Requests : AbortRequest(r) \/ SleepAborts(r)) \/ StopRequest
    BY <1>5, FinishUse
  <1>6. CASE \E r \in Requests : \E prompt \in Prompts : AddRequest(r, prompt)
    BY <1>6, AddRequestUse
  <1>7. \/ QuietStep
        \/ PickRunning \/ ScheduleRunning \/ ScheduleWaiting \/ Dispatch
        \/ PreemptVictim \/ ResetPreempt
        \/ AppendOutput \/ CacheOutput
        \/ (\E r \in Requests : AbortRequest(r) \/ SleepAborts(r)) \/ StopRequest
        \/ \E r \in Requests : \E prompt \in Prompts : AddRequest(r, prompt)
    BY DEF Next, EngineStep, ClientStep, QuietStep
  <1> QED  BY <1>1, <1>2, <1>3, <1>4, <1>5, <1>6, <1>7

(* NumbersInv only reads variables. *)
LEMMA NumbersStutter == NumbersInv /\ UNCHANGED vars => NumbersInv'
  <1> SUFFICES ASSUME NumbersInv, UNCHANGED vars PROVE NumbersInv'
    OBVIOUS
  <1>1. /\ UNCHANGED <<status, num_prompt_tokens, num_computed_tokens, num_output_placeholders>>
        /\ UNCHANGED <<all_token_ids, req_to_blocks, running, pc, cur, sched, token_budget>>
        /\ UNCHANGED <<outputs, batch_queue, stopped>>
    BY DEF vars, kvvars, tablevars, reqvars, queuevars, stepvars, flightvars
  <1>2. TokensKnown'
    BY <1>1 DEF NumbersInv, TokensKnown, TokensOf, NumTokens
  <1>3. Granted'
    BY <1>1 DEF NumbersInv, Granted, Covered, Fits, NumTokens, NumScheduledTokens, Scheduled, ScheduledAt
  <1>4. PositionsInFlight'
    BY <1>1 DEF NumbersInv, PositionsInFlight, Positions
  <1> QED  BY <1>2, <1>3, <1>4 DEF NumbersInv

(* One step, with everything it rests on. *)
LEMMA UseStep ==
    ASSUME Supported
    PROVE  ControlInv /\ KVInv /\ NumbersInv /\ [Next]_vars =>
              (ControlInv /\ KVInv /\ NumbersInv)' /\ [KVNext]_kvvars
  <1> SUFFICES ASSUME ControlInv, KVInv, NumbersInv, [Next]_vars
               PROVE  (ControlInv /\ KVInv /\ NumbersInv)' /\ [KVNext]_kvvars
    OBVIOUS
  <1>1. NumbersInv' /\ [KVNext]_kvvars
    <2>1. CASE Next
      BY <2>1, NextUse DEF Before
    <2>2. CASE UNCHANGED vars
      BY <2>2, NumbersStutter DEF vars
    <2> QED  BY <2>1, <2>2
  <1>2. ControlInv'
    BY ControlStep
  <1>3. KVInv'
    BY <1>1, KVStepInv
  <1> QED  BY <1>1, <1>2, <1>3

(* The inductive invariant of the scheduler's numbers, and of the cache    *)
(* under the scheduler.                                                    *)
THEOREM UseInvariant ==
    ASSUME Supported
    PROVE  Spec => [](ControlInv /\ KVInv /\ NumbersInv)
  <1>1. Init => ControlInv /\ KVInv /\ NumbersInv
    <2>1. Init => KVInit
      BY DEF Init
    <2> QED  BY <2>1, ControlInit, KVInitInv, NumbersInit
  <1>2. ControlInv /\ KVInv /\ NumbersInv /\ [Next]_vars => (ControlInv /\ KVInv /\ NumbersInv)'
    BY UseStep
  <1> QED  BY <1>1, <1>2, PTL DEF Spec

(* The scheduler is a client of the cache: every call of schedule(),       *)
(* update_from_output(), preemption, finish and reset is one that the      *)
(* cache manager admits.                                                   *)
THEOREM SchedulerUsesCache ==
    ASSUME Supported
    PROVE  Spec => KVSpec
  <1>1. Init => KVInit
    BY DEF Init
  <1>2. ControlInv /\ KVInv /\ NumbersInv /\ [Next]_vars => [KVNext]_kvvars
    BY UseStep
  <1> QED  BY <1>1, <1>2, UseInvariant, PTL DEF Spec, KVSpec

(* num_computed_tokens never runs ahead of the tokens that exist or are    *)
(* being sampled, nor past the last position.                              *)
THEOREM ComputedTokensExist ==
    ASSUME Supported
    PROVE  Spec => []ComputedWithinTokens
  <1>1. ControlInv /\ KVInv /\ NumbersInv => ComputedWithinTokens
    <2> SUFFICES ASSUME ControlInv, KVInv, NumbersInv, NEW r \in Range(running)
                 PROVE  /\ num_computed_tokens[r] <= NumTokens(r) + num_output_placeholders[r]
                        /\ num_computed_tokens[r] < MaxModelLen
      BY DEF ComputedWithinTokens
    <2>1. r \in Requests /\ Covered(r)
      BY DEF ControlInv, ControlTypes, Range, NumbersInv, Granted
    <2>2. /\ NumTokens(r) \in Nat /\ num_output_placeholders[r] \in Nat
          /\ num_computed_tokens[r] \in Nat /\ NumScheduledTokens(r) \in Nat
      BY <2>1, NumbersTyped DEF Before
    <2> QED  BY <2>1, <2>2, BlockSizes DEF Covered, Fits
  <1> QED  BY <1>1, UseInvariant, PTL
-----------------------------------------------------------------------------
(* The token budget. *)

(* t holds the running totals of a step. *)
IsTotal(s, t) ==
    /\ t \in [0 .. Len(s) -> Int] /\ t[0] = 0
    /\ \A i \in 1 .. Len(s) : t[i] = t[i - 1] + s[i].n

(* What has been scheduled and what may still be is no more than a step    *)
(* may have.                                                               *)
Budget ==
    \E t : IsTotal(sched, t) /\ t[Len(sched)] + token_budget <= MaxNumScheduledTokens

(* The sum over a step is the last of its running totals. *)
LEMMA TotalValue ==
    ASSUME Len(sched) \in Nat, NEW t, IsTotal(sched, t)
    PROVE  TotalNumScheduledTokens = t[Len(sched)]
  <1> DEFINE sum(g) == [i \in 0 .. Len(sched) |-> IF i = 0 THEN 0 ELSE g[i - 1] + sched[i].n]
             total == CHOOSE g : g = sum(g)
  <1>1. t = sum(t)
    <2>1. \A i \in 0 .. Len(sched) : t[i] = sum(t)[i]
      BY DEF IsTotal
    <2>2. DOMAIN t = 0 .. Len(sched) /\ t = [i \in 0 .. Len(sched) |-> t[i]]
      BY DEF IsTotal
    <2> QED  BY <2>1, <2>2
  <1>2. total = sum(total)
    <2> HIDE DEF sum
    <2> QED  BY <1>1
  <1>3. TotalNumScheduledTokens = total[Len(sched)]
    BY DEF TotalNumScheduledTokens
  <1> HIDE DEF total
  <1> DEFINE S == {i \in Nat : i <= Len(sched) => total[i] = t[i]}
  <1>4. 0 \in S
    BY <1>2 DEF IsTotal
  <1>5. ASSUME NEW i \in Nat, i \in S PROVE i + 1 \in S
    <2> SUFFICES ASSUME i + 1 <= Len(sched) PROVE total[i + 1] = t[i + 1]
      OBVIOUS
    <2>1. total[i] = t[i]
      BY <1>5
    <2>2. i + 1 \in 0 .. Len(sched) /\ i + 1 \in 1 .. Len(sched) /\ i + 1 # 0 /\ i + 1 - 1 = i
      OBVIOUS
    <2>3. t[i + 1] = t[i] + sched[i + 1].n
      BY <2>2 DEF IsTotal
    <2>4. sum(total)[i + 1] = total[i] + sched[i + 1].n
      BY <2>2
    <2> QED  BY <2>1, <2>3, <2>4, <1>2
  <1> HIDE DEF S
  <1>6. \A i \in Nat : i \in S
    BY <1>4, <1>5, NatInductive
  <1> QED  BY <1>3, <1>6 DEF S

(* A request joins the step. *)
LEMMA TotalAppend ==
    ASSUME NEW B, NEW s \in Seq(Entry(B)), NEW e \in Entry(B), NEW t, IsTotal(s, t)
    PROVE  LET sum == [i \in 0 .. Len(s) + 1 |-> IF i <= Len(s) THEN t[i] ELSE t[Len(s)] + e.n]
           IN  IsTotal(Append(s, e), sum) /\ sum[Len(s) + 1] = t[Len(s)] + e.n
  <1> DEFINE sum == [i \in 0 .. Len(s) + 1 |-> IF i <= Len(s) THEN t[i] ELSE t[Len(s)] + e.n]
             u == Append(s, e)
  <1>1. /\ Len(s) \in Nat /\ Len(u) = Len(s) + 1 /\ u[Len(s) + 1] = e
        /\ \A i \in 1 .. Len(s) : u[i] = s[i]
    OBVIOUS
  <1>2. e.n \in Int
    BY DEF Entry
  <1>3. \A i \in 0 .. Len(s) : t[i] \in Int
    BY DEF IsTotal
  <1> HIDE DEF u
  <1>4. sum \in [0 .. Len(u) -> Int]
    BY <1>1, <1>2, <1>3
  <1>5. sum[0] = 0
    BY <1>1 DEF IsTotal
  <1>6. ASSUME NEW i \in 1 .. Len(u) PROVE sum[i] = sum[i - 1] + u[i].n
    <2>1. CASE i <= Len(s)
      <3>1. i \in 1 .. Len(s) /\ i - 1 \in 0 .. Len(s)
        BY <2>1, <1>1
      <3>2. sum[i] = t[i] /\ sum[i - 1] = t[i - 1] /\ u[i] = s[i]
        BY <3>1, <1>1
      <3> QED  BY <3>1, <3>2 DEF IsTotal
    <2>2. CASE i = Len(s) + 1
      BY <2>2, <1>1
    <2> QED  BY <2>1, <2>2, <1>1
  <1>7. sum[Len(s) + 1] = t[Len(s)] + e.n
    BY <1>1
  <1> QED  BY <1>4, <1>5, <1>6, <1>7 DEF IsTotal, u

(* A request is taken out of the step. *)
LEMMA TotalRemove ==
    ASSUME NEW B, NEW s \in Seq(Entry(B)), NEW p \in 1 .. Len(s), NEW t, IsTotal(s, t)
    PROVE  LET sum == [i \in 0 .. Len(s) - 1 |-> IF i < p THEN t[i] ELSE t[i + 1] - s[p].n]
           IN  IsTotal(RemoveAt(s, p), sum) /\ sum[Len(s) - 1] = t[Len(s)] - s[p].n
  <1> DEFINE sum == [i \in 0 .. Len(s) - 1 |-> IF i < p THEN t[i] ELSE t[i + 1] - s[p].n]
             u == RemoveAt(s, p)
  <1>1. /\ Len(s) \in Nat /\ Len(u) = Len(s) - 1
        /\ \A i \in 1 .. Len(s) - 1 : u[i] = IF i < p THEN s[i] ELSE s[i + 1]
    BY RemoveAtFacts
  <1>2. \A i \in 1 .. Len(s) : s[i].n \in Int /\ t[i] = t[i - 1] + s[i].n
    <2>1. \A i \in 1 .. Len(s) : s[i] \in Entry(B)
      OBVIOUS
    <2>2. \A x \in Entry(B) : x.n \in Int
      BY DEF Entry
    <2> QED  BY <2>1, <2>2 DEF IsTotal
  <1>3. \A i \in 0 .. Len(s) : t[i] \in Int
    BY DEF IsTotal
  <1> HIDE DEF u
  <1>4. sum \in [0 .. Len(u) -> Int]
    <2>1. ASSUME NEW i \in 0 .. Len(s) - 1
          PROVE  (IF i < p THEN t[i] ELSE t[i + 1] - s[p].n) \in Int
      <3>1. i \in 0 .. Len(s) /\ i + 1 \in 0 .. Len(s)
        BY <1>1
      <3>2. t[i] \in Int /\ t[i + 1] \in Int /\ s[p].n \in Int
        BY <3>1, <1>2, <1>3
      <3> QED  BY <3>2
    <2> QED  BY <2>1, <1>1
  <1>5. sum[0] = 0
    BY <1>1 DEF IsTotal
  <1>6. ASSUME NEW i \in 1 .. Len(u) PROVE sum[i] = sum[i - 1] + u[i].n
    <2>1. /\ i \in 1 .. Len(s) /\ i + 1 \in 1 .. Len(s) /\ i - 1 \in 0 .. Len(s) - 1
          /\ i \in 0 .. Len(s) - 1 /\ i - 1 \in 0 .. Len(s)
      BY <1>1
    <2>2. t[i] = t[i - 1] + s[i].n /\ t[i + 1] = t[i] + s[i + 1].n
      BY <2>1, <1>2
    <2>3. CASE i < p
      <3>1. sum[i] = t[i] /\ sum[i - 1] = t[i - 1] /\ u[i] = s[i]
        BY <2>1, <2>3, <1>1
      <3> QED  BY <3>1, <2>2
    <2>4. CASE i = p
      <3>1. sum[i] = t[i + 1] - s[p].n /\ sum[i - 1] = t[i - 1] /\ u[i] = s[i + 1]
        BY <2>1, <2>4, <1>1
      <3>2. t[i - 1] \in Int /\ s[i].n \in Int /\ s[i + 1].n \in Int
        BY <2>1, <1>2, <1>3
      <3>3. s[p].n = s[i].n
        BY <2>4
      <3> HIDE DEF sum
      <3> QED  BY <3>1, <3>2, <3>3, <2>2, SMTT(30)
    <2>5. CASE i > p
      <3>1. sum[i] = t[i + 1] - s[p].n /\ sum[i - 1] = t[i] - s[p].n /\ u[i] = s[i + 1]
        BY <2>1, <2>5, <1>1
      <3>2. t[i] \in Int /\ s[p].n \in Int /\ s[i + 1].n \in Int
        BY <2>1, <1>2, <1>3
      <3> HIDE DEF sum
      <3> QED  BY <3>1, <3>2, <2>2
    <2> QED  BY <2>3, <2>4, <2>5, <1>1
  <1>7. sum[Len(s) - 1] = t[Len(s)] - s[p].n
    <2>1. CASE p = Len(s)
      BY <2>1, <1>1, <1>2, <1>3
    <2>2. CASE p < Len(s)
      BY <2>2, <1>1
    <2> QED  BY <2>1, <2>2, <1>1
  <1> QED  BY <1>4, <1>5, <1>6, <1>7 DEF IsTotal, u

(* The token budget of a step is a number. *)
LEMMA BudgetInts ==
    ASSUME ControlInv
    PROVE  token_budget \in Int /\ MaxNumScheduledTokens \in Nat /\ \E B : sched \in Seq(Entry(B))
  BY SchedulerConfig DEF ControlInv, ControlTypes, NumberTypes

(* A step that has scheduled nothing. *)
LEMMA BudgetStarts ==
    ASSUME sched' = <<>>, token_budget' \in Int, token_budget' <= MaxNumScheduledTokens
    PROVE  Budget'
  <1> DEFINE t == [i \in 0 .. 0 |-> 0]
  <1>1. Len(sched') = 0
    OBVIOUS
  <1>2. IsTotal(sched', t)
    BY <1>1 DEF IsTotal
  <1>3. t[Len(sched')] + token_budget' <= MaxNumScheduledTokens
    BY <1>1
  <1> QED  BY <1>2, <1>3 DEF Budget

(* What a request is given is taken from the budget. *)
LEMMA BudgetSpent ==
    ASSUME ControlInv, Budget, NEW e, e \in Entry({e.blocks}),
           sched' = Append(sched, e), token_budget' = token_budget - e.n
    PROVE  Budget'
  <1>1. PICK B : sched \in Seq(Entry(B))
    BY BudgetInts
  <1>2. PICK t : IsTotal(sched, t) /\ t[Len(sched)] + token_budget <= MaxNumScheduledTokens
    BY DEF Budget
  <1> DEFINE C   == B \cup {e.blocks}
             sum == [i \in 0 .. Len(sched) + 1 |-> IF i <= Len(sched) THEN t[i] ELSE t[Len(sched)] + e.n]
  <1>3. Entry(B) \subseteq Entry(C) /\ e \in Entry(C)
    BY DEF Entry
  <1> HIDE DEF C
  <1>4. sched \in Seq(Entry(C)) /\ e \in Entry(C)
    BY <1>1, <1>3, SeqGrows
  <1>5. IsTotal(Append(sched, e), sum) /\ sum[Len(sched) + 1] = t[Len(sched)] + e.n
    BY <1>2, <1>4, TotalAppend
  <1>6. Len(Append(sched, e)) = Len(sched) + 1
    BY <1>4
  <1>7. t[Len(sched)] \in Int /\ e.n \in Int
    <2>1. Len(sched) \in Nat
      BY <1>4
    <2> QED  BY <2>1, <1>2, <1>4 DEF IsTotal, Entry
  <1> HIDE DEF sum
  <1>8. sum[Len(sched')] + token_budget' <= MaxNumScheduledTokens
    BY <1>2, <1>5, <1>6, <1>7, BudgetInts
  <1> QED  BY <1>5, <1>8 DEF Budget

(* What a victim was given is there again. *)
LEMMA BudgetGivenBack ==
    ASSUME ControlInv, Budget, NEW v, sched' = Unscheduled(v),
           token_budget' = token_budget + NumScheduledTokens(v)
    PROVE  Budget'
  <1>1. PICK B : sched \in Seq(Entry(B))
    BY BudgetInts
  <1>2. CASE v \notin Scheduled
    <2>1. sched' = sched /\ token_budget' = token_budget
      BY <1>2, BudgetInts DEF Unscheduled, NumScheduledTokens
    <2> QED  BY <2>1 DEF Budget
  <1>3. CASE v \in Scheduled
    <2> DEFINE p == ScheduledAt(v)
    <2>1. p \in 1 .. Len(sched)
      BY <1>1, <1>3, ScheduledFacts
    <2>2. sched' = RemoveAt(sched, p) /\ token_budget' = token_budget + sched[p].n
      BY <1>3 DEF Unscheduled, NumScheduledTokens
    <2> HIDE DEF p
    <2>3. PICK t : IsTotal(sched, t) /\ t[Len(sched)] + token_budget <= MaxNumScheduledTokens
      BY DEF Budget
    <2> DEFINE sum == [i \in 0 .. Len(sched) - 1 |-> IF i < p THEN t[i] ELSE t[i + 1] - sched[p].n]
    <2>4. IsTotal(RemoveAt(sched, p), sum) /\ sum[Len(sched) - 1] = t[Len(sched)] - sched[p].n
      BY <1>1, <2>1, <2>3, TotalRemove
    <2>5. Len(RemoveAt(sched, p)) = Len(sched) - 1
      BY <1>1, <2>1, RemoveAtFacts
    <2>6. t[Len(sched)] \in Int /\ sched[p].n \in Int
      <3>1. Len(sched) \in Nat /\ sched[p] \in Entry(B)
        BY <1>1, <2>1
      <3> QED  BY <3>1, <2>3 DEF IsTotal, Entry
    <2> HIDE DEF sum
    <2>7. sum[Len(sched')] + token_budget' <= MaxNumScheduledTokens
      BY <2>2, <2>3, <2>4, <2>5, <2>6, BudgetInts
    <2> QED  BY <2>2, <2>4, <2>7 DEF Budget
  <1> QED  BY <1>2, <1>3

(* The budget is kept by every step. *)
LEMMA BudgetStep ==
    ASSUME ControlInv, Budget, [Next]_vars
    PROVE  Budget'
  <1>1. CASE UNCHANGED <<sched, token_budget>>
    BY <1>1 DEF Budget
  <1>2. CASE StartSchedule
    <2>1. sched' = <<>> /\ token_budget' \in {0, MaxNumScheduledTokens}
      BY <1>2 DEF StartSchedule
    <2> QED  BY <2>1, BudgetInts, BudgetStarts
  <1>3. CASE ScheduleRunning
    <2> DEFINE e == [req |-> cur[1], n |-> cur[2], kind |-> "running",
                     blocks |-> SubSeq(req_to_blocks'[cur[1]], Len(req_to_blocks[cur[1]]) + 1,
                                       Len(req_to_blocks'[cur[1]]))]
    <2>1. sched' = Append(sched, e) /\ token_budget' = token_budget - e.n
      BY <1>3 DEF ScheduleRunning
    <2>2. cur \in Requests \X Int
      BY <1>3 DEF ScheduleRunning, ControlInv, NumberTypes
    <2>3. e \in Entry({e.blocks})
      BY <2>2 DEF Entry
    <2> HIDE DEF e
    <2> QED  BY <2>1, <2>3, BudgetSpent
  <1>4. CASE ScheduleWaiting
    <2> DEFINE r == Head(waiting)
    <2>1. PICK hits \in GetComputedBlocks(r) :
              /\ sched' = Append(sched, [req |-> r, n |-> NumNewWaiting(r, hits),
                      kind |-> IF status[r] = "WAITING" THEN "new" ELSE "resumed",
                      blocks |-> req_to_blocks'[r]])
              /\ token_budget' = token_budget - NumNewWaiting(r, hits)
      BY <1>4 DEF ScheduleWaiting
    <2> DEFINE e == [req |-> r, n |-> NumNewWaiting(r, hits),
                     kind |-> IF status[r] = "WAITING" THEN "new" ELSE "resumed",
                     blocks |-> req_to_blocks'[r]]
    <2>2. /\ waiting \in Seq(Requests) /\ waiting # <<>> /\ IsInjective(waiting)
          /\ all_token_ids \in [Requests -> Seq(Token \cup Int)] /\ token_budget \in Int
      BY <1>4 DEF ScheduleWaiting, MoreWaiting, ControlInv, ControlTypes, NumberTypes, QueuesExact
    <2>3. r \in Requests
      BY <2>2
    <2>4. NumNewWaiting(r, hits) \in Int
      BY <2>2, <2>3, NumNewWaitingFacts DEF ControlInv
    <2>5. e \in Entry({e.blocks}) /\ sched' = Append(sched, e) /\ token_budget' = token_budget - e.n
      <3> HIDE DEF r
      <3> QED  BY <2>1, <2>3, <2>4 DEF Entry
    <2> HIDE DEF e
    <2> QED  BY <2>5, BudgetSpent
  <1>5. CASE PreemptVictim
    BY <1>5, BudgetGivenBack DEF PreemptVictim
  <1>6. CASE Dispatch
    <2>1. sched' = <<>> /\ token_budget' = 0
      BY <1>6 DEF Dispatch
    <2> QED  BY <2>1, BudgetInts, BudgetStarts
  <1>7. \/ StartSchedule \/ ScheduleRunning \/ ScheduleWaiting \/ PreemptVictim \/ Dispatch
        \/ UNCHANGED <<sched, token_budget>>
    <2> USE DEF stepvars
    <2>1. CASE UNCHANGED vars
      BY <2>1 DEF vars
    <2>2. CASE ClientStep
      BY <2>2 DEF ClientStep, AddRequest, AbortRequest, ResetIdleCache, ResetStart, Sleep, WakeUp
    <2>3. CASE SkipRunning \/ PickRunning \/ RunningDone \/ WaitingDone \/ DrainQueue \/ TakeResult
      BY <2>3 DEF SkipRunning, PickRunning, RunningDone, WaitingDone, DrainQueue, TakeResult
    <2>4. CASE SkipOutput \/ AppendOutput \/ CacheOutput \/ StopRequest \/ ResetPreempt \/ ResetFinish
      BY <2>4 DEF SkipOutput, AppendOutput, CacheOutput, StopRequest, ResetPreempt, ResetFinish
    <2>5. CASE (\E r \in Requests : SleepAborts(r)) \/ SleepAborted \/ IdleCallback \/ FallAsleep
      BY <2>5 DEF SleepAborts, SleepAborted, IdleCallback, FallAsleep
    <2> QED  BY <2>1, <2>2, <2>3, <2>4, <2>5 DEF Next, EngineStep
  <1> QED  BY <1>1, <1>2, <1>3, <1>4, <1>5, <1>6, <1>7

(* The assertions at the end of schedule(): a step stays within its token  *)
(* budget and the number of running requests, and schedules only running   *)
(* requests, each once.                                                    *)
THEOREM StepsStayWithinLimits ==
    ASSUME Supported
    PROVE  Spec => []ScheduleWithinLimits
  <1> DEFINE IInv == ControlInv /\ KVInv /\ NumbersInv
  <1>1. Init => Budget
    <2>1. Init => sched = <<>> /\ token_budget = 0
      BY DEF Init
    <2> SUFFICES ASSUME sched = <<>>, token_budget = 0 PROVE Budget
      BY <2>1
    <2> DEFINE t == [i \in 0 .. 0 |-> 0]
    <2>2. Len(sched) = 0 /\ MaxNumScheduledTokens \in Nat
      BY SchedulerConfig
    <2>3. IsTotal(sched, t)
      BY <2>2 DEF IsTotal
    <2>4. t[Len(sched)] + token_budget <= MaxNumScheduledTokens
      BY <2>2
    <2> QED  BY <2>3, <2>4 DEF Budget
  <1>2. IInv /\ Budget /\ [Next]_vars => Budget'
    BY BudgetStep
  <1>3. IInv /\ Budget => ScheduleWithinLimits
    <2> SUFFICES ASSUME ControlInv, NumbersInv, Budget
                 PROVE  /\ TotalNumScheduledTokens <= MaxNumScheduledTokens
                        /\ token_budget >= 0 /\ Len(running) <= MaxNumRunningReqs
                        /\ Scheduled \subseteq Range(running)
                        /\ Cardinality(Scheduled) = Len(sched)
      BY DEF ScheduleWithinLimits
    <2>1. PICK B : sched \in Seq(Entry(B))
      BY BudgetInts
    <2>2. Len(sched) \in Nat /\ DOMAIN sched = 1 .. Len(sched)
      BY <2>1
    <2>3. PICK t : IsTotal(sched, t) /\ t[Len(sched)] + token_budget <= MaxNumScheduledTokens
      BY DEF Budget
    <2>4. TotalNumScheduledTokens = t[Len(sched)] /\ t[Len(sched)] \in Int
      BY <2>2, <2>3, TotalValue DEF IsTotal
    <2>5. token_budget >= 0
      BY DEF NumbersInv, Granted
    <2>6. TotalNumScheduledTokens <= MaxNumScheduledTokens
      BY <2>3, <2>4, <2>5, BudgetInts
    <2>7. /\ Len(running) <= MaxNumRunningReqs /\ Scheduled \subseteq Range(running)
          /\ \A i, j \in DOMAIN sched : sched[i].req = sched[j].req => i = j
      BY DEF ControlInv, StepInOrder
    <2>8. Cardinality(Scheduled) = Len(sched)
      <3> DEFINE f == [i \in 1 .. Len(sched) |-> sched[i].req]
      <3>1. f \in Bijection(1 .. Len(sched), Scheduled)
        <4>1. f \in [1 .. Len(sched) -> Scheduled]
          BY <2>2 DEF Scheduled
        <4>2. \A i, j \in 1 .. Len(sched) : f[i] = f[j] => i = j
          BY <2>2, <2>7
        <4>3. \A r \in Scheduled : \E i \in 1 .. Len(sched) : f[i] = r
          BY <2>2 DEF Scheduled
        <4> HIDE DEF f
        <4> QED  BY <4>1, <4>2, <4>3 DEF Bijection, Injection, Surjection, IsInjective
      <3>2. IsFiniteSet(1 .. Len(sched)) /\ Cardinality(1 .. Len(sched)) = Len(sched)
        BY <2>2, IntervalFacts
      <3> HIDE DEF f
      <3> QED  BY <3>1, <3>2, FS_Bijection DEF ExistsBijection
    <2> QED  BY <2>5, <2>6, <2>7, <2>8
  <1> HIDE DEF IInv
  <1>4. Spec => []IInv
    BY UseInvariant DEF IInv
  <1> QED  BY <1>1, <1>2, <1>3, <1>4, PTL DEF Spec
-----------------------------------------------------------------------------
(* The workers' block tables. *)

(* The table of r on the workers once the step under way has left. *)
WorkerView(r) == IF r \in ReqsOf(sched) THEN WorkerTable(EntryOf(sched, r)) ELSE worker_blocks[r]

WorkersInv ==
    /\ worker_blocks \in [Requests -> Seq(Block)] /\ kv \in [Block -> Seq(Token)]
    /\ \A i \in DOMAIN sched : sched[i].blocks \in Seq(Block)
    /\ \A r \in Range(running) : WorkerView(r) = req_to_blocks[r]

(* A step that neither schedules nor executes. *)
LEMMA WorkersKept ==
    ASSUME WorkersInv, UNCHANGED <<worker_blocks, sched>>, kv' \in [Block -> Seq(Token)],
           Range(running') \subseteq Range(running),
           \A q \in Range(running') : req_to_blocks'[q] = req_to_blocks[q]
    PROVE  WorkersInv'
  <1>1. ASSUME NEW q \in Range(running') PROVE WorkerView(q)' = req_to_blocks'[q]
    <2>1. WorkerView(q) = req_to_blocks[q]
      BY DEF WorkersInv
    <2>2. WorkerView(q)' = WorkerView(q)
      BY DEF WorkerView, WorkerTable, EntryOf, ReqsOf
    <2> QED  BY <2>1, <2>2
  <1> QED  BY <1>1 DEF WorkersInv

(* A scheduled request whose entry says what has become of its table. *)
LEMMA WorkersGrant ==
    ASSUME Before, WorkersInv, NEW r \in Requests \ Scheduled,
           NEW e, e \in Entry({e.blocks}), e.req = r, e.blocks \in Seq(Block),
           sched' = Append(sched, e), UNCHANGED <<worker_blocks, kv>>,
           Range(running') = Range(running) \cup {r}, WorkerTable(e) = req_to_blocks'[r],
           \A q \in Requests \ {r} : req_to_blocks'[q] = req_to_blocks[q]
    PROVE  WorkersInv'
  <1>1. PICK B : sched \in Seq(Entry(B))
    BY DEF Before, ControlInv, ControlTypes
  <1>2. Once(sched) /\ e.req \notin ReqsOf(sched) /\ running \in Seq(Requests)
    BY StepTerms DEF Before, ControlInv, ControlTypes, StepInOrder, Once
  <1>3. /\ ReqsOf(sched') = ReqsOf(sched) \cup {r} /\ EntryOf(sched', r) = e
        /\ \A q \in ReqsOf(sched) : EntryOf(sched', q) = EntryOf(sched, q)
    <2>1. LET t == Append(sched, e)
          IN  /\ ReqsOf(t) = ReqsOf(sched) \cup {e.req}
              /\ EntryOf(t, e.req) = e
              /\ \A q \in ReqsOf(sched) : EntryOf(t, q) = EntryOf(sched, q)
      BY <1>1, <1>2, EntriesAppend
    <2> QED  BY <2>1
  <1>4. \A i \in DOMAIN sched' : sched'[i].blocks \in Seq(Block)
    <2>1. \A i \in DOMAIN Append(sched, e) :
             Append(sched, e)[i] = e \/ (i \in DOMAIN sched /\ Append(sched, e)[i] = sched[i])
      BY <1>1, AppendedEntry
    <2> QED  BY <2>1 DEF WorkersInv
  <1>5. ASSUME NEW q \in Range(running') PROVE WorkerView(q)' = req_to_blocks'[q]
    <2>1. CASE q = r
      <3>1. WorkerView(q)' = WorkerTable(e)
        BY <2>1, <1>3 DEF WorkerView, WorkerTable
      <3> QED  BY <3>1, <2>1
    <2>2. CASE q # r
      <3>1. q \in Range(running) /\ q \in Requests
        BY <2>2, <1>2, RunningRequest
      <3>2. WorkerView(q)' = WorkerView(q)
        BY <2>2, <1>3 DEF WorkerView, WorkerTable
      <3> QED  BY <3>1, <3>2, <2>2 DEF WorkersInv
    <2> QED  BY <2>1, <2>2
  <1> QED  BY <1>4, <1>5 DEF WorkersInv

(* A running request is sent the blocks it got. *)
LEMMA ScheduleRunningWorkers ==
    ASSUME Before, WorkersInv, ScheduleRunning
    PROVE  WorkersInv'
  <1> DEFINE r == cur[1]
             n == cur[2]
             old == req_to_blocks[r]
             table == req_to_blocks'[r]
             e == [req |-> r, n |-> n, kind |-> "running",
                   blocks |-> SubSeq(table, Len(old) + 1, Len(table))]
  <1>0. /\ AllocateSlots(r, <<>>, num_computed_tokens[r] + n)
        /\ sched' = Append(sched, e) /\ UNCHANGED <<worker_blocks, kv, running>>
        /\ pc = "alloc"
    BY DEF ScheduleRunning, workervars, queuevars
  <1>a. /\ running \in Seq(Requests) /\ QueuesExact /\ KVInv /\ Granted /\ TokensKnown
        /\ r \in Range(running) \ Scheduled /\ cur \in Requests \X Int
    BY <1>0 DEF Before, ControlInv, ControlTypes, NumberTypes, StepInOrder, NumbersInv
  <1>b. r \in Requests /\ n \in Nat
    BY <1>0, <1>a DEF Granted
  <1>c. all_token_ids[r] # <<>>
    <2> HIDE DEF r
    <2>1. status[r] # "none"
      BY <1>a DEF QueuesExact
    <2> QED  BY <2>1, <1>b, AddedHasTokens
  <1>d. IsHit(r, <<>>)
    BY <1>a, <1>b, <1>c, HitFacts
  <1>e. num_computed_tokens[r] + n \in Nat
    BY <1>b, NumbersTyped
  <1> HIDE DEF r, n
  <1>f. /\ \E new \in Seq(Block) : table = old \o <<>> \o new
        /\ \A q \in Requests \ {r} : req_to_blocks'[q] = req_to_blocks[q]
    BY <1>0, <1>a, <1>b, <1>d, <1>e, SlotsAllocated, ZenonT(40)
  <1>g. old \in Seq(Block) /\ worker_blocks[r] = old
    <2>1. r \notin ReqsOf(sched)
      BY <1>a, StepTerms
    <2> QED  BY <2>1, <1>a, <1>b, NumbersTyped DEF WorkersInv, WorkerView
  <1> HIDE DEF old, table
  <1>h. PICK new \in Seq(Block) : table = old \o new
    BY <1>f, <1>g
  <1>i. SubSeq(table, Len(old) + 1, Len(table)) = new
    BY <1>g, <1>h
  <1>j. e.blocks = new /\ e.req = r /\ e \in Entry({e.blocks})
    BY <1>i, <1>b DEF Entry
  <1>k. WorkerTable(e) = table
    BY <1>g, <1>h, <1>i DEF WorkerTable
  <1>l. Range(running') = Range(running) \cup {r}
    BY <1>0, <1>a
  <1> HIDE DEF e
  <1> QED  BY <1>0, <1>a, <1>b, <1>f, <1>j, <1>k, <1>l, WorkersGrant DEF table

(* A new or resumed one is sent its whole table. *)
LEMMA ScheduleWaitingWorkers ==
    ASSUME Before, WorkersInv, ScheduleWaiting
    PROVE  WorkersInv'
  <1> DEFINE r == Head(waiting)
  <1>1. PICK hits \in GetComputedBlocks(r) :
            LET n == NumNewWaiting(r, hits)
            IN  /\ AllocateSlots(r, hits, Len(hits) * BlockSize + n)
                /\ running' = Append(running, r)
                /\ sched' = Append(sched, [req |-> r, n |-> n,
                       kind |-> IF status[r] = "WAITING" THEN "new" ELSE "resumed",
                       blocks |-> req_to_blocks'[r]])
    BY DEF ScheduleWaiting
  <1> DEFINE n == NumNewWaiting(r, hits)
             e == [req |-> r, n |-> n, kind |-> IF status[r] = "WAITING" THEN "new" ELSE "resumed",
                   blocks |-> req_to_blocks'[r]]
  <1>0. UNCHANGED <<worker_blocks, kv>> /\ waiting # <<>>
    BY DEF ScheduleWaiting, MoreWaiting, workervars
  <1>a. /\ running \in Seq(Requests) /\ IsInjective(running)
        /\ waiting \in Seq(Requests) /\ IsInjective(waiting)
        /\ QueuesExact /\ KVInv /\ NumberTypes
        /\ Scheduled \subseteq Range(running) /\ DOMAIN req_to_blocks = Requests
    BY DEF Before, ControlInv, ControlTypes, StepInOrder, QueuesExact
  <1>b. r \in Range(waiting)
    BY <1>0, <1>a, TailFacts
  <1>c. r \in Requests /\ r \notin Range(running) /\ r \notin Scheduled
    BY <1>a, <1>b DEF QueuesExact, Range
  <1>d. n \in Int
    BY <1>a, <1>c, NumNewWaitingFacts
  <1>e. \A q \in Requests \ {r} : req_to_blocks'[q] = req_to_blocks[q]
    BY <1>1, <1>a, <1>c, AllocateSlotsSteps
  <1>f. req_to_blocks'[r] \in Seq(Block)
    <2>1. KVInv'
      BY UseStep, ScheduleWaiting DEF Before, Next, EngineStep
    <2> QED  BY <2>1, <1>c DEF KVInv, KVTypeOK
  <1>g. Range(running') = Range(running) \cup {r}
    BY <1>1, <1>a, <1>c, AppendFacts
  <1>h. sched' = Append(sched, e)
    BY <1>1
  <1> HIDE DEF r, n
  <1>i. e.blocks = req_to_blocks'[r] /\ e.req = r /\ e \in Entry({e.blocks})
    BY <1>c, <1>d DEF Entry
  <1>j. WorkerTable(e) = req_to_blocks'[r]
    BY DEF WorkerTable
  <1> HIDE DEF e
  <1> QED  BY <1>0, <1>c, <1>e, <1>f, <1>g, <1>h, <1>i, <1>j, WorkersGrant

(* What a victim was to be sent is dropped with it. *)
LEMMA PreemptVictimWorkers ==
    ASSUME Before, WorkersInv, PreemptVictim
    PROVE  WorkersInv'
  <1> DEFINE v == Victim
  <1>0. /\ UNCHANGED <<worker_blocks, kv>>
        /\ pc = "alloc" /\ PreemptRequest(v) /\ running' = RemoveFrom(running, v)
        /\ sched' = Unscheduled(v)
    BY DEF PreemptVictim, workervars
  <1>a. /\ running \in Seq(Requests) /\ IsInjective(running)
        /\ \A i, j \in DOMAIN sched : sched[i].req = sched[j].req => i = j
        /\ DOMAIN req_to_blocks = Requests
    BY <1>0 DEF Before, ControlInv, ControlTypes, QueuesExact, StepInOrder
  <1> HIDE DEF v
  <1>b. Range(running') = Range(running) \ {v}
    <2>1. LET left == RemoveFrom(running, v) IN Range(left) = Range(running) \ {v}
      BY <1>a, RemoveFromFacts
    <2> QED  BY <2>1, <1>0
  <1>c. PICK B : sched \in Seq(Entry(B))
    BY DEF Before, ControlInv, ControlTypes
  <1>d. /\ ReqsOf(sched') = ReqsOf(sched) \ {v}
        /\ \A i \in DOMAIN sched' : \E j \in DOMAIN sched : sched'[i] = sched[j]
        /\ \A q \in ReqsOf(sched') : EntryOf(sched', q) = EntryOf(sched, q)
    <2>1. Once(sched)
      BY <1>a DEF Once
    <2> QED  BY <2>1, <1>0, <1>c, StepWithout
  <1>e. \A q \in ReqsOf(sched') : EntryOf(sched', q) = EntryOf(sched, q)
    BY <1>d
  <1>f. req_to_blocks' = [req_to_blocks EXCEPT ![v] = <<>>]
    BY <1>0 DEF PreemptRequest, Preempt, FreeRequest
  <1>1. \A i \in DOMAIN sched' : sched'[i].blocks \in Seq(Block)
    BY <1>d DEF WorkersInv
  <1>2. ASSUME NEW q \in Range(running') PROVE WorkerView(q)' = req_to_blocks'[q]
    <2>1. q \in Range(running) /\ q # v /\ q \in Requests
      BY <1>a, <1>b, SMTT(30) DEF Range
    <2>2. WorkerView(q)' = WorkerView(q)
      BY <2>1, <1>0, <1>d, <1>e DEF WorkerView, WorkerTable
    <2>3. req_to_blocks'[q] = req_to_blocks[q]
      BY <2>1, <1>a, <1>f
    <2> QED  BY <2>1, <2>2, <2>3 DEF WorkersInv
  <1> QED  BY <1>0, <1>1, <1>2 DEF WorkersInv

(* A running request that ends or is preempted takes its table along. *)
LEMMA LeavingWorkers ==
    ASSUME Before, WorkersInv, UNCHANGED <<worker_blocks, kv, sched>>, NEW v,
           Range(running') = Range(running) \ {v},
           req_to_blocks' = [req_to_blocks EXCEPT ![v] = <<>>]
    PROVE  WorkersInv'
  <1>1. DOMAIN req_to_blocks = Requests /\ running \in Seq(Requests)
    BY DEF Before, ControlInv, ControlTypes
  <1>2. ASSUME NEW q \in Range(running') PROVE req_to_blocks'[q] = req_to_blocks[q]
    <2>1. q \in Requests /\ q # v
      BY <1>1 DEF Range
    <2> QED  BY <2>1, <1>1
  <1>3. kv' \in [Block -> Seq(Token)]
    BY DEF WorkersInv
  <1> QED  BY <1>2, <1>3, WorkersKept

(* finish_requests, a stop, and a reset that preempts. *)
LEMMA FinishWorkers ==
    ASSUME Before, WorkersInv,
           (\E r \in Requests : AbortRequest(r) \/ SleepAborts(r)) \/ StopRequest \/ ResetPreempt
    PROVE  WorkersInv'
  <1>a. QueuesExact /\ running \in Seq(Requests)
    BY DEF Before, ControlInv, ControlTypes
  <1>b. ASSUME NEW r \in Requests, FinishRequest(r), UNCHANGED <<worker_blocks, kv, sched>>
        PROVE  WorkersInv'
    <2>1. /\ Range(running') = Range(running) \ {r}
          /\ req_to_blocks' = [req_to_blocks EXCEPT ![r] = <<>>]
      BY <1>b, FinishRequestSteps DEF Before
    <2> QED  BY <2>1, <1>b, LeavingWorkers
  <1>1. CASE \E r \in Requests : AbortRequest(r) \/ SleepAborts(r)
    BY <1>1, <1>b DEF AbortRequest, SleepAborts, stepvars, workervars
  <1>2. CASE StopRequest
    <2>1. /\ FinishRequest(Head(outputs).req) /\ UNCHANGED <<worker_blocks, kv, sched>>
          /\ pc = "stop"
      BY <1>2 DEF StopRequest, stepvars, workervars
    <2>2. outputs \in Seq(Output) /\ outputs # <<>>
      BY <2>1 DEF Before, ControlInv, ControlTypes, BatchesInFlight
    <2>3. Head(outputs).req \in Requests
      BY <2>2, OutputAtHand
    <2> QED  BY <2>1, <2>3, <1>b
  <1>3. CASE ResetPreempt
    <2> DEFINE v == Last(running)
    <2>1. /\ UNCHANGED <<worker_blocks, kv, sched>> /\ running # <<>>
          /\ PreemptRequest(v) /\ running' = Front(running)
      BY <1>3 DEF ResetPreempt, stepvars, workervars
    <2>2. Range(running') = Range(running) \ {v}
      BY <2>1, <1>a, FrontFacts DEF QueuesExact
    <2>3. req_to_blocks' = [req_to_blocks EXCEPT ![v] = <<>>]
      BY <2>1 DEF PreemptRequest, Preempt, FreeRequest
    <2> HIDE DEF v
    <2> QED  BY <2>1, <2>2, <2>3, LeavingWorkers
  <1> QED  BY <1>1, <1>2, <1>3

(* The other steps leave tables, and the workers, alone; sleep() empties   *)
(* the cache of the workers.                                               *)
LEMMA QuietWorkers ==
    ASSUME Before, WorkersInv,
           \/ QuietStep \/ PickRunning \/ AppendOutput \/ CacheOutput
           \/ \E r \in Requests : \E prompt \in Prompts : AddRequest(r, prompt)
    PROVE  WorkersInv'
  <1> USE DEF kvvars, tablevars, queuevars, stepvars, workervars
  <1>a. kv \in [Block -> Seq(Token)]
    BY DEF WorkersInv
  <1>1. CASE QuietStep
    <2>1. UNCHANGED <<req_to_blocks, running, sched>>
      BY <1>1, QuietSteps DEF Before, NumbersInv, Granted
    <2>2. UNCHANGED workervars \/ FallAsleep
      <3>1. CASE StartSchedule \/ SkipRunning \/ RunningDone \/ WaitingDone \/ DrainQueue
        BY <3>1 DEF StartSchedule, SkipRunning, RunningDone, WaitingDone, DrainQueue
      <3>2. CASE TakeResult \/ SkipOutput \/ ResetIdleCache \/ ResetStart \/ ResetFinish
        BY <3>2 DEF TakeResult, SkipOutput, ResetIdleCache, ResetStart, ResetFinish
      <3>3. CASE (\E call \in SleepCalls : Sleep(call[1], call[2])) \/ SleepAborted \/ IdleCallback \/ WakeUp
        BY <3>3 DEF Sleep, SleepAborted, IdleCallback, WakeUp
      <3> QED  BY <1>1, <3>1, <3>2, <3>3 DEF QuietStep
    <2>3. UNCHANGED worker_blocks /\ kv' \in [Block -> Seq(Token)]
      <3>1. CASE FallAsleep
        <4>1. UNCHANGED worker_blocks /\ kv' = [b \in Block |-> <<>>]
          BY <3>1 DEF FallAsleep
        <4>2. <<>> \in Seq(Token)
          OBVIOUS
        <4> QED  BY <4>1, <4>2
      <3> QED  BY <3>1, <2>2, <1>a
    <2> QED  BY <2>1, <2>3, WorkersKept
  <1>2. CASE \/ PickRunning \/ AppendOutput \/ CacheOutput
             \/ \E r \in Requests : \E prompt \in Prompts : AddRequest(r, prompt)
    <2>1. UNCHANGED <<req_to_blocks, running, sched>> /\ UNCHANGED workervars
      BY <1>2 DEF PickRunning, AppendOutput, AppendOutputToken, CacheOutput, CacheBlocks, AddRequest,
                  NewRequest
    <2> QED  BY <2>1, <1>a, WorkersKept
  <1> QED  BY <1>1, <1>2

(* A set of positions that is not empty has a last one. *)
LEMMA MaxOfPositions ==
    ASSUME NEW n \in Nat, NEW S \in SUBSET (1 .. n), S # {}
    PROVE  Max(S) \in S
  <1> DEFINE HasMax(T) == \E x \in T : \A y \in T : x >= y
             A == {k \in Nat : \A T \in SUBSET (1 .. k) : T # {} => HasMax(T)}
  <1>1. 0 \in A
    <2>1. \A T \in SUBSET (1 .. 0) : T = {}
      OBVIOUS
    <2> HIDE DEF HasMax
    <2> QED  BY <2>1
  <1>2. ASSUME NEW k \in Nat, k \in A PROVE k + 1 \in A
    <2> SUFFICES ASSUME NEW T \in SUBSET (1 .. k + 1), T # {} PROVE HasMax(T)
      OBVIOUS
    <2>1. CASE k + 1 \in T
      BY <2>1
    <2>2. CASE k + 1 \notin T
      <3>1. T \in SUBSET (1 .. k)
        BY <2>2
      <3> QED  BY <3>1, <1>2
    <2> QED  BY <2>1, <2>2
  <1> HIDE DEF A
  <1>3. n \in A
    BY <1>1, <1>2, NatInductive
  <1>4. HasMax(S)
    BY <1>3 DEF A
  <1> QED  BY <1>4 DEF Max

(* The tokens the model computes KV for are tokens. *)
LEMMA TrueTokensTyped ==
    ASSUME Before, NEW r \in Requests, status[r] # "none", NEW n \in Nat, n <= MaxModelLen
    PROVE  TrueTokens(r, n) \in Seq(Token)
  <1>1. all_token_ids[r] \in Seq(Token)
    BY NumbersTyped
  <1>2. num_prompt_tokens[r] \in 1 .. NumTokens(r)
    BY DEF Before, NumbersInv, TokensKnown, TokensOf
  <1>3. ASSUME NEW p \in 1 .. n
        PROVE  (IF p <= num_prompt_tokens[r] THEN all_token_ids[r][p] ELSE p) \in Token
    <2>1. CASE p <= num_prompt_tokens[r]
      <3>1. p \in 1 .. Len(all_token_ids[r])
        BY <2>1, <1>1, <1>2 DEF NumTokens
      <3> QED  BY <2>1, <3>1, <1>1
    <2>2. CASE ~(p <= num_prompt_tokens[r])
      BY <2>2, PositionsAreTokens, BlockSizes
    <2> QED  BY <2>1, <2>2
  <1>4. TrueTokens(r, n) \in [1 .. n -> Token]
    BY <1>3 DEF TrueTokens
  <1> QED  BY <1>4

(* An entry of the step: its tokens are those the request is given. *)
LEMMA EntryFacts ==
    ASSUME Before, WorkersInv, NEW i \in DOMAIN sched
    PROVE  LET r == sched[i].req
           IN  /\ r \in Requests /\ r \in Range(running) /\ status[r] = "RUNNING"
               /\ sched[i].n \in Nat /\ num_computed_tokens[r] \in Nat
               /\ num_computed_tokens[r] + sched[i].n < MaxModelLen
               /\ WorkerTable(sched[i]) \in Seq(Block)
  <1> DEFINE r == sched[i].req
  <1>1. PICK B : sched \in Seq(Entry(B))
    BY DEF Before, ControlInv, ControlTypes
  <1>2. sched[i] \in Entry(B)
    BY <1>1
  <1>3. r \in Requests /\ r \in Scheduled /\ Scheduled \subseteq Range(running) /\ QueuesExact
    BY <1>2 DEF Entry, Scheduled, Before, ControlInv, StepInOrder
  <1>4. r \in Range(running) /\ status[r] = "RUNNING"
    BY <1>3 DEF QueuesExact
  <1>5. NumScheduledTokens(r) = sched[i].n
    <2>1. EntryOf(sched, r) = sched[i] /\ r \in ReqsOf(sched)
      BY EntryOfFacts DEF Once, Before, ControlInv, StepInOrder
    <2> QED  BY <2>1, StepTerms DEF TokensIn
  <1>6. Covered(r)
    BY <1>4 DEF Before, NumbersInv, Granted
  <1>7. num_computed_tokens[r] \in Nat /\ NumScheduledTokens(r) \in Nat
    BY <1>3, NumbersTyped
  <1>8. WorkerTable(sched[i]) \in Seq(Block)
    <2>1. worker_blocks[r] \in Seq(Block) /\ sched[i].blocks \in Seq(Block)
      BY <1>3 DEF WorkersInv
    <2>2. worker_blocks[r] \o sched[i].blocks \in Seq(Block)
      BY <2>1, ConcatFacts
    <2> QED  BY <2>1, <2>2 DEF WorkerTable
  <1> HIDE DEF r
  <1>9. num_computed_tokens[r] + sched[i].n < MaxModelLen /\ sched[i].n \in Nat
    BY <1>5, <1>6, <1>7 DEF Covered, Fits
  <1> QED  BY <1>3, <1>4, <1>7, <1>8, <1>9 DEF r

(* What a batch leaves in a block is a sequence of tokens. *)
LEMMA WrittenTyped ==
    ASSUME Before, WorkersInv, NEW i \in DOMAIN sched, NEW b \in Block, WritesBlock(sched[i], b) # {}
    PROVE  Written(sched[i], b) \in Seq(Token)
  <1> DEFINE e     == sched[i]
             k     == CHOOSE x \in WritesBlock(e, b) : TRUE
             start == num_computed_tokens[e.req]
             end   == Min({start + e.n, k * BlockSize})
  <1>1. /\ e.req \in Requests /\ status[e.req] # "none" /\ e.n \in Nat /\ start \in Nat
        /\ start + e.n < MaxModelLen /\ WorkerTable(e) \in Seq(Block)
    BY EntryFacts
  <1>2. k \in DOMAIN WorkerTable(e)
    <2>1. k \in WritesBlock(e, b)
      OBVIOUS
    <2> QED  BY <2>1 DEF WritesBlock
  <1>3. Written(e, b) \in {<<>>, TrueTokens(e.req, end)}
    BY DEF Written
  <1> HIDE DEF e, k, start
  <1>4. k \in Nat /\ k * BlockSize \in Nat
    <2>1. k \in Nat
      BY <1>1, <1>2
    <2> QED  BY <2>1, MulMonotone
  <1>5. end \in Nat /\ end <= MaxModelLen
    <2>1. end = IF start + e.n <= k * BlockSize THEN start + e.n ELSE k * BlockSize
      BY <1>1, <1>4, MinOfTwo
    <2> QED  BY <2>1, <1>1, <1>4, BlockSizes
  <1> HIDE DEF end
  <1>6. TrueTokens(e.req, end) \in Seq(Token) /\ <<>> \in Seq(Token)
    BY <1>1, <1>5, TrueTokensTyped
  <1> QED  BY <1>3, <1>6 DEF e

(* The batch brings the workers' tables up to date. *)
LEMMA DispatchWorkers ==
    ASSUME Before, WorkersInv, Dispatch
    PROVE  WorkersInv'
  <1> DEFINE writers(b) == {i \in DOMAIN sched : WritesBlock(sched[i], b) # {}}
             table(r) == IF r \in Scheduled THEN WorkerTable(sched[ScheduledAt(r)])
                         ELSE IF r \in finished_req_ids THEN <<>> ELSE worker_blocks[r]
  <1>0. /\ worker_blocks' = [r \in Requests |-> table(r)]
        /\ kv' = [b \in Block |->
              IF writers(b) = {} THEN kv[b] ELSE Written(sched[Max(writers(b))], b)]
        /\ sched' = <<>> /\ UNCHANGED running /\ UNCHANGED kvvars
    BY DEF Dispatch, ExecuteModel
  <1>a. /\ running \in Seq(Requests) /\ QueuesExact /\ FinishedEnded
        /\ \A i, j \in DOMAIN sched : sched[i].req = sched[j].req => i = j
    BY DEF Before, ControlInv, ControlTypes, StepInOrder
  <1>b. PICK B : sched \in Seq(Entry(B))
    BY DEF Before, ControlInv, ControlTypes
  <1>1. ASSUME NEW r \in Requests PROVE table(r) \in Seq(Block)
    <2>1. CASE r \in Scheduled
      <3>1. ScheduledAt(r) \in DOMAIN sched
        BY <2>1, <1>b, ScheduledFacts
      <3> QED  BY <2>1, <3>1, EntryFacts
    <2>2. CASE r \notin Scheduled
      BY <2>2 DEF WorkersInv
    <2> QED  BY <2>1, <2>2
  <1>2. worker_blocks' \in [Requests -> Seq(Block)]
    BY <1>0, <1>1
  <1>3. ASSUME NEW b \in Block
        PROVE  (IF writers(b) = {} THEN kv[b] ELSE Written(sched[Max(writers(b))], b)) \in Seq(Token)
    <2>1. CASE writers(b) = {}
      BY <2>1 DEF WorkersInv
    <2>2. CASE writers(b) # {}
      <3>1. Len(sched) \in Nat /\ writers(b) \in SUBSET (1 .. Len(sched))
        BY <1>b
      <3>2. Max(writers(b)) \in writers(b)
        <4> HIDE DEF writers
        <4> QED  BY <2>2, <3>1, MaxOfPositions
      <3>3. Max(writers(b)) \in DOMAIN sched /\ WritesBlock(sched[Max(writers(b))], b) # {}
        BY <3>2
      <3> QED  BY <2>2, <3>3, WrittenTyped
    <2> QED  BY <2>1, <2>2
  <1>4. kv' \in [Block -> Seq(Token)]
    BY <1>0, <1>3
  <1>5. ASSUME NEW r \in Range(running) PROVE WorkerView(r)' = req_to_blocks'[r]
    <2>1. r \in Requests /\ r \notin finished_req_ids
      BY <1>a DEF Range, QueuesExact, FinishedEnded
    <2>2. table(r) = WorkerView(r)
      BY <2>1, StepTerms DEF WorkerView
    <2>3. WorkerView(r)' = worker_blocks'[r]
      BY <1>0 DEF WorkerView, ReqsOf
    <2>4. worker_blocks'[r] = table(r)
      BY <2>1, <1>0
    <2>5. req_to_blocks'[r] = req_to_blocks[r]
      BY <1>0 DEF kvvars, tablevars
    <2> QED  BY <2>2, <2>3, <2>4, <2>5 DEF WorkersInv
  <1>6. \A i \in DOMAIN sched' : sched'[i].blocks \in Seq(Block)
    BY <1>0
  <1>7. \A r \in Range(running') : WorkerView(r)' = req_to_blocks'[r]
    BY <1>0, <1>5
  <1> HIDE DEF writers, table
  <1> QED  BY <1>2, <1>4, <1>6, <1>7 DEF WorkersInv

(* Every step keeps the tables of the workers right. *)
LEMMA WorkersStep ==
    ASSUME Before, WorkersInv, [Next]_vars
    PROVE  WorkersInv'
  <1>1. CASE \/ QuietStep \/ PickRunning \/ AppendOutput \/ CacheOutput
             \/ \E r \in Requests : \E prompt \in Prompts : AddRequest(r, prompt)
    BY <1>1, QuietWorkers
  <1>2. CASE (\E r \in Requests : AbortRequest(r) \/ SleepAborts(r)) \/ StopRequest \/ ResetPreempt
    BY <1>2, FinishWorkers
  <1>3. CASE ScheduleRunning \/ ScheduleWaiting \/ PreemptVictim \/ Dispatch
    BY <1>3, ScheduleRunningWorkers, ScheduleWaitingWorkers, PreemptVictimWorkers, DispatchWorkers
  <1>4. CASE UNCHANGED vars
    <2>1. UNCHANGED <<worker_blocks, sched, kv, running, req_to_blocks>>
      BY <1>4 DEF vars, kvvars, tablevars, queuevars, stepvars, workervars
    <2>2. kv' \in [Block -> Seq(Token)]
      BY <2>1 DEF WorkersInv
    <2> QED  BY <2>1, <2>2, WorkersKept
  <1> QED
    BY <1>1, <1>2, <1>3, <1>4 DEF Next, EngineStep, ClientStep, QuietStep

(* The workers' tables, with everything they rest on. *)
LEMMA WorkersInvariant ==
    ASSUME Supported
    PROVE  Spec => [](ControlInv /\ KVInv /\ NumbersInv /\ WorkersInv)
  <1> DEFINE Use == ControlInv /\ KVInv /\ NumbersInv
  <1>1. Init => WorkersInv
    <2> SUFFICES ASSUME Init PROVE WorkersInv
      OBVIOUS
    <2>1. /\ worker_blocks = [r \in Requests |-> <<>>] /\ kv = [b \in Block |-> <<>>]
          /\ sched = <<>> /\ running = <<>>
      BY DEF Init
    <2>2. Range(running) = {} /\ <<>> \in Seq(Block) /\ <<>> \in Seq(Token)
      BY <2>1 DEF Range
    <2> QED  BY <2>1, <2>2 DEF WorkersInv
  <1>2. Use /\ WorkersInv /\ [Next]_vars => WorkersInv'
    BY WorkersStep DEF Before
  <1>3. Spec => []Use
    BY UseInvariant
  <1> HIDE DEF Use
  <1>4. Spec => [](Use /\ WorkersInv)
    BY <1>1, <1>2, <1>3, PTL DEF Spec
  <1> QED  BY <1>4 DEF Use

(* The block table the workers rebuild from what they are sent is the      *)
(* scheduler's, for every running request, whenever a step has been sent.  *)
THEOREM WorkersAgree ==
    ASSUME Supported
    PROVE  Spec => []WorkerTablesAgree
  <1>1. ControlInv /\ KVInv /\ NumbersInv /\ WorkersInv => WorkerTablesAgree
    <2> SUFFICES ASSUME ControlInv, WorkersInv, Settled, NEW r \in Range(running)
                 PROVE  worker_blocks[r] = req_to_blocks[r]
      BY DEF WorkerTablesAgree
    <2>1. sched = <<>>
      BY DEF ControlInv, StepInOrder, InSchedule, Settled
    <2> QED  BY <2>1 DEF WorkersInv, WorkerView, ReqsOf
  <1> QED  BY <1>1, WorkersInvariant, PTL

(* The type invariant of the scheduler, with the bound of its batch queue. *)
THEOREM SchedulerTypes ==
    ASSUME Supported
    PROVE  Spec => []SchedTypeOK
  <1>1. ControlInv /\ KVInv /\ NumbersInv /\ WorkersInv => SchedTypeOK
    <2> SUFFICES ASSUME ControlInv, KVInv, NumbersInv, WorkersInv PROVE SchedTypeOK
      OBVIOUS
    <2>1. ControlTypes /\ NumberTypes /\ BatchesInFlight
      BY DEF ControlInv
    <2>2. num_output_placeholders \in [Requests -> Nat]
      BY PlaceholdersNat
    <2>3. num_computed_tokens \in [Requests -> Nat]
      <3>1. \A r \in Requests : num_computed_tokens[r] \in Nat
        BY NumbersTyped DEF Before
      <3> QED  BY <3>1, <2>1 DEF NumberTypes
    <2>4. pc = "idle" => Len(batch_queue) < BatchQueueSize
      BY <2>1 DEF BatchesInFlight
    <2>5. KVTypeOK
      BY DEF KVInv
    <2> QED  BY <2>1, <2>2, <2>3, <2>4, <2>5
             DEF SchedTypeOK, ControlTypes, NumberTypes, BatchesInFlight, WorkersInv
  <1> QED  BY <1>1, WorkersInvariant, PTL
=============================================================================
