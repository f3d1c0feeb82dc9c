------------------------------ MODULE DPWaves -------------------------------
(***************************************************************************)
(* Data parallel engines of a mixture-of-experts model alternate together  *)
(* between a running and a paused state; one round of running is a "wave". *)
(* A forward pass is a collective of all engines, so either all of them    *)
(* step or nobody advances.  Front-end clients send requests to single     *)
(* engines, and a coordinator process wakes the other engines.  Three      *)
(* parties hold their own idea of the wave number and the running state,   *)
(* and messages between them are delayed: every channel below is FIFO, and *)
(* channels are not ordered among each other.                              *)
(***************************************************************************)
EXTENDS Integers, Sequences, FiniteSets, FiniteSetsExt

CONSTANTS
    Engine,         \* data parallel ranks, 0 is the one that reports waves
    Client,         \* front-end processes (DPAsyncMPClient)
    Request,        \* request ids, given out in order
    MaxSteps,       \* bound: forward passes a request needs, 1 .. MaxSteps
    SyncInterval,   \* forward passes between two all-reduces, more than one (32 in the code)
    MaxAborts       \* bound: requests a client may abort

ASSUME DPAssumption ==
    /\ Request \subseteq Nat /\ Engine \subseteq Nat /\ 0 \in Engine /\ IsFiniteSet(Engine)
    /\ SyncInterval \in Nat \ {0, 1} /\ MaxSteps \in Nat \ {0} /\ MaxAborts \in Nat

VARIABLES
    pc,             \* where an engine's busy loop is: "input", "forward", "reduce"
    running,        \* DPEngineCoreProc.engines_running
    wave,           \* DPEngineCoreProc.current_wave
    step,           \* DPEngineCoreProc.step_counter, modulo SyncInterval
    status,         \* of a request: "unsent", "sent", "unfinished", "done", "aborted"
    home,           \* the client and the engine of a request
    left,           \* forward passes a request still needs
    clientWave,     \* DPAsyncMPClient.current_wave
    clientRunning,  \* DPAsyncMPClient.engines_running
    polled,         \* sockets the client's stats task was woken for
    coWave,         \* current_wave of the coordinator
    coRunning,      \* engines_running of the coordinator
    toEngine,       \* requests and aborts from a client to an engine
    firstReq,       \* first_req sockets: engines that got a request while paused
    toFront,        \* new-request messages from a client to the coordinator
    output,         \* wave_complete and start_wave outputs of an engine
    startWave,      \* START_DP_WAVE messages to an engine
    published,      \* wave state published to a client
    exposed         \* history: engines the coordinator may spare wrongly

engineVars == <<pc, running, wave, step>>
requestVars == <<status, home, left, exposed>>
clientVars == <<clientWave, clientRunning, polled>>
coordVars == <<coWave, coRunning>>
channels == <<toEngine, firstReq, toFront, output, startWave, published>>
vars == <<engineVars, requestVars, clientVars, coordVars, channels>>

None == -1

Unfinished(e) == {r \in Request : status[r] = "unfinished" /\ home[r].engine = e}

(* has_work: the engine has requests, or takes part in the current wave. *)
HasWork(e) == running[e] \/ Unfinished(e) # {}
-----------------------------------------------------------------------------
(* Client: add_request_async stamps the request with the wave the client   *)
(* believes in, and tells the stats task if it believes the engines pause. *)
AddRequest(c, e, r, n) ==
    /\ status[r] = "unsent" /\ \A s \in Request : s < r => status[s] # "unsent"
    /\ status' = [status EXCEPT ![r] = "sent"]
    /\ home' = [home EXCEPT ![r] = [client |-> c, engine |-> e]]
    /\ left' = [left EXCEPT ![r] = n]
    /\ toEngine' = [toEngine EXCEPT ![c][e] =
                        Append(@, [kind |-> "ADD", req |-> r, wave |-> clientWave[c]])]
    /\ firstReq' = [firstReq EXCEPT ![c] = IF clientRunning[c] THEN @
                            ELSE Append(@, [engine |-> e, stamp |-> clientWave[c]])]
    /\ UNCHANGED <<engineVars, exposed, clientVars, coordVars,
                   toFront, output, startWave, published>>

(* Client: a cancelled request is aborted at the engine that has it. *)
Aborted == {r \in Request : \E c \in Client, e \in Engine : \E i \in DOMAIN toEngine[c][e] :
                toEngine[c][e][i].kind = "ABORT" /\ toEngine[c][e][i].req = r}

AbortRequest(r) ==
    /\ status[r] \in {"sent", "unfinished"} /\ r \notin Aborted
    /\ Cardinality(Aborted) + Cardinality({s \in Request : status[s] = "aborted"}) < MaxAborts
    /\ toEngine' = [toEngine EXCEPT ![home[r].client][home[r].engine] =
                        Append(@, [kind |-> "ABORT", req |-> r, wave |-> None])]
    /\ UNCHANGED <<engineVars, requestVars, clientVars, coordVars,
                   firstReq, toFront, output, startWave, published>>

(* Stats task: poll the two sockets.  What the task finds when it resumes  *)
(* may be more than the events it was woken with.                          *)
Poll(c) ==
    /\ polled[c] = {}
    /\ \E events \in SUBSET {"first_req", "update"} :
        /\ events # {} /\ polled' = [polled EXCEPT ![c] = events]
        /\ "first_req" \in events <=> firstReq[c] # <<>>
        /\ "update" \in events => published[c] # <<>>
    /\ UNCHANGED <<engineVars, requestVars, clientWave, clientRunning, coordVars, channels>>

(* Stats task: news of a first request go first unless the client believes *)
(* that the engines run; they carry the wave known now, not the request's. *)
TakesFirstReq(c) ==
    polled[c] = {"first_req"} \/ (~clientRunning[c] /\ Cardinality(polled[c]) = 2)

SendFirstReq(c) ==
    LET m == Head(firstReq[c])
    IN /\ firstReq' = [firstReq EXCEPT ![c] = Tail(@)]
       /\ toFront' = [toFront EXCEPT ![c] =
                        Append(@, [engine |-> m.engine, wave |-> clientWave[c]])]
       /\ exposed' = IF m.stamp < clientWave[c] THEN exposed \cup {m.engine} ELSE exposed

(* Stats task: drain the updates that have arrived, keep the last. *)
DrainUpdates(c, n) ==
    /\ published' = [published EXCEPT ![c] = SubSeq(@, n + 1, Len(@))]
    /\ clientWave' = [clientWave EXCEPT ![c] = IF n = 0 THEN @ ELSE published[c][n].wave]
    /\ clientRunning' = [clientRunning EXCEPT ![c] =
                            IF n = 0 THEN @ \/ TakesFirstReq(c) ELSE published[c][n].running]

UpdateStats(c) ==
    /\ polled[c] # {} /\ polled' = [polled EXCEPT ![c] = {}]
    /\ \/ TakesFirstReq(c) /\ SendFirstReq(c)
       \/ ~TakesFirstReq(c) /\ UNCHANGED <<firstReq, toFront, exposed>>
    /\ \E n \in 0 .. Len(published[c]) :
        ("update" \in polled[c] => n > 0) /\ DrainUpdates(c, n)
    /\ UNCHANGED <<engineVars, status, home, left, coordVars, toEngine, output, startWave>>
-----------------------------------------------------------------------------
(* Coordinator *)
Publish(w, r) ==
    published' = [c \in Client |-> Append(published[c], [wave |-> w, running |-> r])]

StartWave(w, exclude) ==
    /\ coWave' = w /\ coRunning' = TRUE
    /\ startWave' = [e \in Engine |-> Append(startWave[e], [wave |-> w, exclude |-> exclude])]
    /\ Publish(w, TRUE)

ExcludeAlways(m) == m.engine    \* mutant: a stale wave still spares its engine

(* The engine a new-request message spares; nobody if its wave is stale. *)
Exclude(m) == IF m.wave < coWave THEN None ELSE m.engine

ReceiveNewRequest(c) ==
    /\ toFront[c] # <<>>
    /\ toFront' = [toFront EXCEPT ![c] = Tail(@)]
    /\ \/ ~coRunning /\ StartWave(coWave, Exclude(Head(toFront[c])))
       \/ coRunning /\ UNCHANGED <<coordVars, startWave, published>>
    /\ UNCHANGED <<engineVars, requestVars, clientVars, toEngine, firstReq, output>>

CompletesWave(w) == coWave <= w

WaveComplete(w) ==
    IF CompletesWave(w)
    THEN coWave' = w + 1 /\ coRunning' = FALSE /\ Publish(w + 1, FALSE)
    ELSE UNCHANGED <<coordVars, published>>

(* A request reached an engine that had already left the request's wave. *)
StaleRequest(e, w) ==
    IF w > coWave \/ (w = coWave /\ ~coRunning)
    THEN StartWave(w, e)
    ELSE UNCHANGED <<coordVars, startWave, published>>

ReceiveOutput(e) ==
    /\ output[e] # <<>>
    /\ output' = [output EXCEPT ![e] = Tail(@)]
    /\ LET m == Head(output[e])
       IN \/ m.kind = "wave_complete" /\ WaveComplete(m.wave) /\ UNCHANGED startWave
          \/ m.kind = "start_wave" /\ StaleRequest(e, m.wave)
    /\ UNCHANGED <<engineVars, requestVars, clientVars, toEngine, firstReq, toFront>>

(* The periodic publication; bound: only when all clients have read what   *)
(* was published before and one of them believes something else.           *)
PublishPeriodically ==
    /\ \A c \in Client : published[c] = <<>>
    /\ \E c \in Client : clientWave[c] # coWave \/ clientRunning[c] # coRunning
    /\ Publish(coWave, coRunning)
    /\ UNCHANGED <<engineVars, requestVars, clientVars, coordVars,
                   toEngine, firstReq, toFront, output, startWave>>
-----------------------------------------------------------------------------
(* Engine: _process_input_queue handles what has arrived, between steps. *)
SendOutput(e, kind, w) ==
    output' = [output EXCEPT ![e] = Append(@, [kind |-> kind, wave |-> w])]

(* mutant: a request for a wave that is over does not ask for the next *)
NoteWaveSilently(e, w) ==
    wave' = [wave EXCEPT ![e] = Max({@, w})] /\ UNCHANGED output

(* add_request: a request of a later wave moves the engine there; one of a *)
(* wave that is over makes a paused engine ask for the next wave.          *)
NoteRequestWave(e, w) ==
    /\ wave' = [wave EXCEPT ![e] = Max({@, w})]
    /\ IF w < wave[e] /\ ~running[e]
       THEN SendOutput(e, "start_wave", wave[e])
       ELSE UNCHANGED output

TakeInput(e, c, kind) ==
    /\ pc[e] = "input"
    /\ toEngine[c][e] # <<>> /\ Head(toEngine[c][e]).kind = kind
    /\ toEngine' = [toEngine EXCEPT ![c][e] = Tail(@)]

HandleAdd(e, c) ==
    /\ TakeInput(e, c, "ADD")
    /\ status' = [status EXCEPT ![Head(toEngine[c][e]).req] = "unfinished"]
    /\ NoteRequestWave(e, Head(toEngine[c][e]).wave)
    /\ UNCHANGED <<pc, running, step, home, left, exposed, clientVars, coordVars,
                   firstReq, toFront, startWave, published>>

HandleAbort(e, c) ==
    /\ TakeInput(e, c, "ABORT")
    /\ LET r == Head(toEngine[c][e]).req
       IN /\ status' = [status EXCEPT ![r] = IF @ = "unfinished" THEN "aborted" ELSE @]
          /\ exposed' = IF ~running[e] /\ Unfinished(e) = {r}
                        THEN exposed \cup {e} ELSE exposed
    /\ UNCHANGED <<engineVars, home, left, clientVars, coordVars,
                   firstReq, toFront, output, startWave, published>>

(* _handle_client_request for START_DP_WAVE *)
StartsAnyWave(e, m) == m.exclude # e    \* mutant: a late message is obeyed

Starts(e, m) == m.exclude # e /\ m.wave >= wave[e]

HandleStartWave(e) ==
    /\ pc[e] = "input" /\ startWave[e] # <<>>
    /\ startWave' = [startWave EXCEPT ![e] = Tail(@)]
    /\ LET m == Head(startWave[e])
       IN /\ wave' = [wave EXCEPT ![e] = IF Starts(e, m) THEN m.wave ELSE @]
          /\ running' = [running EXCEPT ![e] = @ \/ Starts(e, m)]
    /\ UNCHANGED <<pc, step, requestVars, clientVars, coordVars,
                   toEngine, firstReq, toFront, output, published>>

(* An engine with work executes its requests or a dummy batch; an idle     *)
(* engine goes back to its input queue.                                    *)
EnterForward(e) ==
    /\ pc[e] = "input" /\ HasWork(e)
    /\ pc' = [pc EXCEPT ![e] = "forward"]
    /\ UNCHANGED <<running, wave, step, requestVars, clientVars, coordVars, channels>>

(* The forward pass ends for everybody at once: the expert-parallel        *)
(* exchange waits for all ranks.  Every SyncInterval-th pass is followed   *)
(* by an all-reduce, after the others engines_running stays true.          *)
Synchronises(e) == (step[e] + 1) % SyncInterval = 0

Forward ==
    /\ \A e \in Engine : pc[e] = "forward"
    /\ left' = [r \in Request |-> IF status[r] = "unfinished" THEN left[r] - 1 ELSE left[r]]
    /\ status' = [r \in Request |->
                    IF status[r] = "unfinished" /\ left[r] = 1 THEN "done" ELSE status[r]]
    /\ step' = [e \in Engine |-> (step[e] + 1) % SyncInterval]
    /\ pc' = [e \in Engine |-> IF Synchronises(e) THEN "reduce" ELSE "input"]
    /\ running' = [e \in Engine |-> Synchronises(e) => running[e]]
    /\ UNCHANGED <<wave, home, exposed, clientVars, coordVars, channels>>

(* The all-reduce of the engines' unfinished requests, and what every      *)
(* engine does with its result.                                            *)
GlobalUnfinished == \E e \in Engine : Unfinished(e) # {}

AllReduce ==
    /\ \A e \in Engine : pc[e] = "reduce"
    /\ pc' = [e \in Engine |-> "input"]
    /\ running' = [e \in Engine |-> GlobalUnfinished]
    /\ \/ GlobalUnfinished /\ UNCHANGED <<wave, output>>
       \/ /\ ~GlobalUnfinished
          /\ SendOutput(0, "wave_complete", wave[0])
          /\ wave' = [e \in Engine |-> wave[e] + 1]
    /\ UNCHANGED <<step, requestVars, clientVars, coordVars,
                   toEngine, firstReq, toFront, startWave, published>>
-----------------------------------------------------------------------------
Init ==
    /\ pc = [e \in Engine |-> "input"]
    /\ running = [e \in Engine |-> FALSE]
    /\ wave = [e \in Engine |-> 0] /\ step = [e \in Engine |-> 0]
    /\ status = [r \in Request |-> "unsent"]
    /\ home = [r \in Request |-> [client |-> None, engine |-> None]]
    /\ left = [r \in Request |-> 0]
    /\ clientWave = [c \in Client |-> 0] /\ clientRunning = [c \in Client |-> FALSE]
    /\ polled = [c \in Client |-> {}]
    /\ coWave = 0 /\ coRunning = FALSE
    /\ toEngine = [c \in Client |-> [e \in Engine |-> <<>>]]
    /\ firstReq = [c \in Client |-> <<>>] /\ toFront = [c \in Client |-> <<>>]
    /\ output = [e \in Engine |-> <<>>] /\ startWave = [e \in Engine |-> <<>>]
    /\ published = [c \in Client |-> <<>>]
    /\ exposed = {}

StatsTask(c) == Poll(c) \/ UpdateStats(c)

Coordinator ==
    \/ \E c \in Client : ReceiveNewRequest(c)
    \/ \E e \in Engine : ReceiveOutput(e)

EngineCore ==
    \/ \E e \in Engine : HandleStartWave(e) \/ EnterForward(e)
    \/ \E e \in Engine, c \in Client : HandleAdd(e, c) \/ HandleAbort(e, c)
    \/ Forward \/ AllReduce

Next ==
    \/ \E c \in Client, e \in Engine, r \in Request, n \in 1 .. MaxSteps : AddRequest(c, e, r, n)
    \/ \E r \in Request : AbortRequest(r)
    \/ \E c \in Client : StatsTask(c)
    \/ Coordinator \/ PublishPeriodically \/ EngineCore

Spec == Init /\ [][Next]_vars

(* The processes keep running and messages arrive; clients need not send   *)
(* anything.  No fairness between the engines and the coordinator is       *)
(* needed: with finitely many requests they have finitely many steps, and  *)
(* one of them goes on as long as any can.                                 *)
Fairness ==
    /\ WF_vars(Coordinator \/ EngineCore)
    /\ \A c \in Client : WF_vars(StatsTask(c))

FairSpec == Spec /\ Fairness
-----------------------------------------------------------------------------
(* Engines never drift apart: although each engine takes wave numbers from *)
(* requests, from the coordinator and from its own counting, all of them   *)
(* are always in the same wave, and no START_DP_WAVE, no request and no    *)
(* client names a wave they have not reached.                              *)
WavesAgree ==
    /\ \A e \in Engine : wave[e] = wave[0] /\ coWave <= wave[e]
    /\ \A c \in Client : clientWave[c] <= coWave

(* An engine that will take part in the wave in progress: it has work, its *)
(* START_DP_WAVE or a request for it is on the way.                        *)
WillJoin(e) ==
    \/ HasWork(e)
    \/ \E i \in DOMAIN startWave[e] : Starts(e, startWave[e][i])
    \/ \E r \in Request : status[r] = "sent" /\ home[r].engine = e

(* No engine is left behind: once one engine runs, or the coordinator      *)
(* takes the present wave for running and so ignores further requests,     *)
(* every engine will join.  The excluded engine gets no START_DP_WAVE,     *)
(* which is safe but for the two races the code has and exposed records:   *)
(* the engine's only request was aborted before its first step, or the     *)
(* news of its request was held back in the client until the wave of the   *)
(* request was over, and then sent with the number of the next wave.       *)
NoEngineLeftBehind ==
    (\E f \in Engine : running[f]) \/ (coRunning /\ coWave = wave[0])
        => \A e \in Engine : WillJoin(e) \/ e \in exposed

(* Nobody waits for ever: every request a client sends is finished,        *)
(* whatever wave it was stamped with and however the wave messages race    *)
(* it, and then the engines pause and the coordinator knows it; waves      *)
(* started by late messages without any request end as well.               *)
WavesEnd ==
    <>[]( \/ exposed # {}
          \/ /\ ~coRunning /\ \A e \in Engine : ~HasWork(e) /\ wave[e] = coWave
             /\ \A r \in Request : status[r] # "sent" )
=============================================================================
