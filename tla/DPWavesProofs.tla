--------------------------- MODULE DPWavesProofs ----------------------------
(***************************************************************************)
(* Proofs about DPWaves for every number of engines, clients and requests, *)
(* every synchronisation interval above 1 and messages delayed for any     *)
(* time: all engines are always in the same wave, and once one engine runs *)
(* every other engine joins, but for the two races the model records.      *)
(*                                                                         *)
(* The invariant bounds the wave number of every message under way by the  *)
(* wave of its sender, and says of every message that can make the         *)
(* coordinator spare an engine that this engine will join by itself.       *)
(***************************************************************************)
EXTENDS DPWaves, FiniteSetTheorems, TLAPS

Elems(s) == {s[i] : i \in DOMAIN s}

Input  == [kind : {"ADD", "ABORT"}, req : Request, wave : Int]
First  == [engine : Engine, stamp : Int]
Front  == [engine : Engine, wave : Int]
Out    == [kind : {"wave_complete", "start_wave"}, wave : Int]
Start  == [wave : Int, exclude : Int]
Update == [wave : Int, running : BOOLEAN]

DPTypeInv ==
    /\ pc \in [Engine -> {"input", "forward", "reduce"}]
    /\ running \in [Engine -> BOOLEAN]
    /\ wave \in [Engine -> Int] /\ step \in [Engine -> 0 .. SyncInterval - 1]
    /\ status \in [Request -> {"unsent", "sent", "unfinished", "done", "aborted"}]
    /\ DOMAIN home = Request
    /\ clientWave \in [Client -> Int] /\ clientRunning \in [Client -> BOOLEAN]
    /\ polled \in [Client -> SUBSET {"first_req", "update"}]
    /\ \A c \in Client : "first_req" \in polled[c] => firstReq[c] # <<>>
    /\ coWave \in Int /\ coRunning \in BOOLEAN
    /\ toEngine \in [Client -> [Engine -> Seq(Input)]]
    /\ firstReq \in [Client -> Seq(First)] /\ toFront \in [Client -> Seq(Front)]
    /\ output \in [Engine -> Seq(Out)] /\ startWave \in [Engine -> Seq(Start)]
    /\ published \in [Client -> Seq(Update)]

(* Engines count forward passes together, and a pass that is not followed  *)
(* by an all-reduce leaves all of them running.                            *)
Lockstep ==
    /\ \A e \in Engine : step[e] = step[0] /\ wave[e] = wave[0]
    /\ step[0] # 0 => \A e \in Engine : running[e]
    /\ \A e \in Engine : pc[e] = "reduce" => step[0] = 0 /\ \A f \in Engine : running[f]

(* No party is ahead of the engines, none but the engines ahead of the     *)
(* coordinator, and what is under way was true when it was sent.           *)
WavesBounded ==
    /\ coWave <= wave[0]
    /\ \A c \in Client :
        /\ clientWave[c] <= coWave
        /\ \A m \in Elems(published[c]) : m.wave <= coWave
        /\ \A m \in Elems(firstReq[c]) : m.stamp <= coWave
        /\ \A m \in Elems(toFront[c]) : m.wave <= coWave
        /\ \A e \in Engine : \A m \in Elems(toEngine[c][e]) : m.kind = "ADD" => m.wave <= coWave
    /\ \A e \in Engine :
        /\ \A m \in Elems(output[e]) :
            /\ m.wave <= wave[0] /\ (m.kind = "wave_complete" => m.wave < wave[0])
        /\ \A m \in Elems(startWave[e]) : m.wave <= coWave /\ (m.wave = coWave => coRunning)

(* Requests under way belong to the engine they are sent to. *)
Addressed ==
    \A c \in Client, e \in Engine : \A m \in Elems(toEngine[c][e]) :
        status[m.req] # "unsent" /\ home[m.req].engine = e

(* Somebody runs, or the coordinator believes so. *)
Active == (\E f \in Engine : running[f]) \/ (coRunning /\ coWave = wave[0])

Covered(e) == WillJoin(e) \/ e \in exposed

(* An engine the coordinator would spare joins by itself. *)
SparedJoin ==
    /\ \A c \in Client :
        /\ \A m \in Elems(firstReq[c]) : m.stamp = wave[0] => Covered(m.engine)
        /\ \A m \in Elems(toFront[c]) : m.wave = wave[0] => Covered(m.engine)
    /\ \A e \in Engine : \A m \in Elems(output[e]) :
        m.kind = "start_wave" /\ m.wave = wave[0] => Covered(e)

AllJoin == Active => \A e \in Engine : Covered(e)

DPInv == DPTypeInv /\ Lockstep /\ WavesBounded /\ Addressed /\ SparedJoin /\ AllJoin

-----------------------------------------------------------------------------
(* What the channels hold after a send and a receive. *)
LEMMA AppendElems ==
    ASSUME NEW S, NEW s \in Seq(S), NEW x \in S
    PROVE  /\ Append(s, x) \in Seq(S) /\ Append(s, x) # <<>>
           /\ Elems(Append(s, x)) = Elems(s) \cup {x}
  <1>1. /\ Append(s, x) \in Seq(S) /\ Len(Append(s, x)) = Len(s) + 1 /\ Len(s) \in Nat
        /\ DOMAIN s = 1 .. Len(s) /\ DOMAIN Append(s, x) = 1 .. Len(s) + 1
        /\ \A i \in 1 .. Len(s) : Append(s, x)[i] = s[i]
        /\ Append(s, x)[Len(s) + 1] = x
    OBVIOUS
  <1>2. \A i \in 1 .. Len(s) + 1 : i = Len(s) + 1 \/ i \in 1 .. Len(s)
    BY <1>1
  <1>3. \A i \in 1 .. Len(s) : i \in 1 .. Len(s) + 1
    BY <1>1
  <1>4. Len(s) + 1 \in 1 .. Len(s) + 1
    BY <1>1
  <1>5. Elems(Append(s, x)) = Elems(s) \cup {x}
    BY <1>1, <1>2, <1>3, <1>4 DEF Elems
  <1> QED  BY <1>1, <1>5

(* Taking the first message off a channel leaves only messages that were   *)
(* there, and a channel that has messages has a first one.                 *)
LEMMA TailElems ==
    ASSUME NEW S, NEW s \in Seq(S), s # <<>>
    PROVE  /\ Tail(s) \in Seq(S) /\ Head(s) \in S /\ Head(s) \in Elems(s)
           /\ Elems(s) = {Head(s)} \cup Elems(Tail(s))
  <1>1. /\ Tail(s) \in Seq(S) /\ Len(Tail(s)) = Len(s) - 1 /\ Len(s) \in Nat /\ Len(s) >= 1
        /\ DOMAIN s = 1 .. Len(s) /\ DOMAIN Tail(s) = 1 .. Len(s) - 1
        /\ \A i \in 1 .. Len(s) - 1 : Tail(s)[i] = s[i + 1]
        /\ Head(s) = s[1] /\ Head(s) \in S
    OBVIOUS
  <1>2. \A i \in 1 .. Len(s) : i = 1 \/ (i - 1 \in 1 .. Len(s) - 1 /\ (i - 1) + 1 = i)
    BY <1>1
  <1>3. \A i \in 1 .. Len(s) - 1 : i + 1 \in 1 .. Len(s)
    BY <1>1
  <1>4. 1 \in 1 .. Len(s)
    BY <1>1
  <1>5. ASSUME NEW x \in Elems(s) PROVE x \in {Head(s)} \cup Elems(Tail(s))
    <2>1. PICK i \in 1 .. Len(s) : x = s[i]
      BY <1>1 DEF Elems
    <2>2. CASE i = 1
      BY <2>1, <2>2, <1>1
    <2>3. CASE i - 1 \in 1 .. Len(s) - 1 /\ (i - 1) + 1 = i
      <3>1. Tail(s)[i - 1] = x
        BY <2>1, <2>3, <1>1
      <3> QED  BY <3>1, <2>3, <1>1 DEF Elems
    <2> QED  BY <2>2, <2>3, <1>2
  <1>6. Elems(Tail(s)) \subseteq Elems(s) /\ Head(s) \in Elems(s)
    BY <1>1, <1>3, <1>4 DEF Elems
  <1> QED  BY <1>1, <1>5, <1>6

(* So does the fetch of a client that takes part of its channel. *)
LEMMA SubSeqElems ==
    ASSUME NEW S, NEW s \in Seq(S), NEW n \in 0 .. Len(s)
    PROVE  /\ SubSeq(s, n + 1, Len(s)) \in Seq(S)
           /\ Elems(SubSeq(s, n + 1, Len(s))) \subseteq Elems(s)
           /\ n # 0 => s[n] \in Elems(s)
  <1>1. /\ SubSeq(s, n + 1, Len(s)) \in Seq(S) /\ Len(s) \in Nat /\ DOMAIN s = 1 .. Len(s)
        /\ DOMAIN SubSeq(s, n + 1, Len(s)) = 1 .. Len(s) - n
        /\ \A i \in 1 .. Len(s) - n : SubSeq(s, n + 1, Len(s))[i] = s[n + i]
    BY SMT
  <1>2. \A i \in 1 .. Len(s) - n : n + i \in 1 .. Len(s)
    BY <1>1
  <1>3. n # 0 => n \in 1 .. Len(s)
    BY <1>1
  <1>4. n # 0 => s[n] \in Elems(s)
    BY <1>1, <1>3 DEF Elems
  <1>5. Elems(SubSeq(s, n + 1, Len(s))) \subseteq Elems(s)
    BY <1>1, <1>2 DEF Elems
  <1> QED  BY <1>1, <1>4, <1>5

(* The messages of a typed channel are typed. *)
LEMMA ElemsTyped ==
    ASSUME NEW S, NEW s \in Seq(S)
    PROVE  Elems(s) \subseteq S
  BY DEF Elems

(* The fields of the messages under way. *)
LEMMA MessagesTyped ==
    ASSUME DPTypeInv
    PROVE  /\ \A c \in Client :
                /\ \A m \in Elems(firstReq[c]) : m.engine \in Engine /\ m.stamp \in Int
                /\ \A m \in Elems(toFront[c]) : m.engine \in Engine /\ m.wave \in Int
                /\ \A m \in Elems(published[c]) : m.wave \in Int /\ m.running \in BOOLEAN
                /\ \A e \in Engine : \A m \in Elems(toEngine[c][e]) :
                        m \in Input /\ m.kind \in {"ADD", "ABORT"} /\ m.req \in Request /\ m.wave \in Int
           /\ \A e \in Engine :
                /\ \A m \in Elems(output[e]) : m.kind \in {"wave_complete", "start_wave"} /\ m.wave \in Int
                /\ \A m \in Elems(startWave[e]) : m.wave \in Int /\ m.exclude \in Int
  <1>1. /\ \A c \in Client :
            /\ Elems(firstReq[c]) \subseteq First /\ Elems(toFront[c]) \subseteq Front
            /\ Elems(published[c]) \subseteq Update
            /\ \A e \in Engine : Elems(toEngine[c][e]) \subseteq Input
        /\ \A e \in Engine : Elems(output[e]) \subseteq Out /\ Elems(startWave[e]) \subseteq Start
    <2>1. /\ \A c \in Client :
            /\ firstReq[c] \in Seq(First) /\ toFront[c] \in Seq(Front)
            /\ published[c] \in Seq(Update)
            /\ \A e \in Engine : toEngine[c][e] \in Seq(Input)
          /\ \A e \in Engine : output[e] \in Seq(Out) /\ startWave[e] \in Seq(Start)
      BY DEF DPTypeInv
    <2> QED  BY <2>1, ElemsTyped
  <1> QED  BY <1>1 DEF First, Front, Update, Input, Out, Start

(* An engine that will join keeps joining as long as no wave ends, no      *)
(* request of it ends and no START_DP_WAVE is taken from it.               *)
LEMMA CoverStays ==
    ASSUME NEW e \in Engine, Covered(e), wave'[e] = wave[e], running[e] => running'[e],
           \A r \in Request : status[r] = "unfinished" /\ home[r].engine = e
                => status'[r] = "unfinished" /\ home'[r].engine = e,
           \A r \in Request : status[r] = "sent" /\ home[r].engine = e
                => status'[r] \in {"sent", "unfinished"} /\ home'[r].engine = e,
           Elems(startWave[e]) \subseteq Elems(startWave'[e]),
           exposed \subseteq exposed'
    PROVE  Covered(e)'
  <1>1. CASE e \in exposed \/ running[e] \/ Unfinished(e) # {}
    BY <1>1 DEF Covered, WillJoin, HasWork, Unfinished
  <1>2. CASE \E i \in DOMAIN startWave[e] : Starts(e, startWave[e][i])
    <2>1. PICK m \in Elems(startWave[e]) : Starts(e, m)
      BY <1>2 DEF Elems
    <2>2. m \in Elems(startWave'[e]) /\ Starts(e, m)'
      BY <2>1 DEF Starts
    <2> QED  BY <2>2 DEF Covered, WillJoin, Elems
  <1>3. CASE \E r \in Request : status[r] = "sent" /\ home[r].engine = e
    BY <1>3 DEF Covered, WillJoin, HasWork, Unfinished
  <1> QED  BY <1>1, <1>2, <1>3 DEF Covered, WillJoin, HasWork

(* Who has work, a request on the way or a START_DP_WAVE joins. *)
LEMMA CoverNew ==
    ASSUME NEW e \in Engine
    PROVE  /\ running'[e] => Covered(e)'
           /\ \A r \in Request : status'[r] \in {"sent", "unfinished"} /\ home'[r].engine = e => Covered(e)'
           /\ \A m \in Elems(startWave'[e]) : m.exclude # e /\ m.wave >= wave'[e] => Covered(e)'
  BY DEF Covered, WillJoin, HasWork, Unfinished, Starts, Elems

-----------------------------------------------------------------------------
(* The client's steps. *)

(* A new request is stamped with a wave the coordinator has announced, and *)
(* the engine that gets it will join.                                      *)
LEMMA AddRequestInv ==
    ASSUME DPInv, NEW c \in Client, NEW e \in Engine, NEW r \in Request, NEW n, AddRequest(c, e, r, n)
    PROVE  DPInv'
  <1> DEFINE m1 == [kind |-> "ADD", req |-> r, wave |-> clientWave[c]]
             m2 == [engine |-> e, stamp |-> clientWave[c]]
  <1>0. DPTypeInv /\ Lockstep /\ WavesBounded /\ Addressed /\ SparedJoin /\ AllJoin
    BY DEF DPInv
  <1>a. /\ UNCHANGED <<pc, running, wave, step, exposed, clientWave, clientRunning, polled, coWave, coRunning,
                       toFront, output, startWave, published>>
        /\ status[r] = "unsent" /\ status' = [status EXCEPT ![r] = "sent"]
        /\ home' = [home EXCEPT ![r] = [client |-> c, engine |-> e]]
        /\ toEngine' = [toEngine EXCEPT ![c][e] = Append(@, m1)]
        /\ firstReq' = [firstReq EXCEPT ![c] = IF clientRunning[c] THEN @ ELSE Append(@, m2)]
    BY DEF AddRequest, engineVars, clientVars, coordVars
  <1>b. m1 \in Input /\ m2 \in First /\ m1.kind = "ADD" /\ m1.req = r /\ m1.wave = clientWave[c]
        /\ m2.engine = e /\ m2.stamp = clientWave[c]
    BY <1>0 DEF DPTypeInv, Input, First
  <1> HIDE DEF m1, m2
  <1>1. /\ Append(toEngine[c][e], m1) \in Seq(Input)
        /\ Elems(Append(toEngine[c][e], m1)) = Elems(toEngine[c][e]) \cup {m1}
    <2>1. toEngine[c][e] \in Seq(Input)
      BY <1>0 DEF DPTypeInv
    <2> QED  BY <1>b, <2>1, AppendElems
  <1>2. /\ Append(firstReq[c], m2) \in Seq(First) /\ Append(firstReq[c], m2) # <<>>
        /\ Elems(Append(firstReq[c], m2)) = Elems(firstReq[c]) \cup {m2}
    <2>1. firstReq[c] \in Seq(First)
      BY <1>0 DEF DPTypeInv
    <2> QED  BY <1>b, <2>1, AppendElems
  <1>3. \A d \in Client, f \in Engine : \A m \in Elems(toEngine'[d][f]) :
            m \in Elems(toEngine[d][f]) \/ (m = m1 /\ f = e)
    <2> SUFFICES ASSUME NEW d \in Client, NEW f \in Engine, NEW m \in Elems(toEngine'[d][f])
                 PROVE  m \in Elems(toEngine[d][f]) \/ (m = m1 /\ f = e)
      OBVIOUS
    <2>1. CASE d = c /\ f = e
      BY <2>1, <1>0, <1>1, <1>a DEF DPTypeInv
    <2>2. CASE d # c \/ f # e
      BY <2>2, <1>0, <1>a DEF DPTypeInv
    <2> QED  BY <2>1, <2>2
  <1>4. \A d \in Client : \A m \in Elems(firstReq'[d]) : m \in Elems(firstReq[d]) \/ m = m2
    BY <1>0, <1>a, <1>2 DEF DPTypeInv
  <1>5. DPTypeInv'
    <2>1. toEngine' \in [Client -> [Engine -> Seq(Input)]]
      BY <1>0, <1>a, <1>1 DEF DPTypeInv
    <2>2. firstReq' \in [Client -> Seq(First)] /\ \A d \in Client : "first_req" \in polled[d] => firstReq'[d] # <<>>
      BY <1>0, <1>a, <1>2 DEF DPTypeInv
    <2>3. status' \in [Request -> {"unsent", "sent", "unfinished", "done", "aborted"}] /\ DOMAIN home' = Request
      BY <1>0, <1>a DEF DPTypeInv
    <2> QED  BY <2>1, <2>2, <2>3, <1>0, <1>a DEF DPTypeInv
  <1>6. \A q \in Request : q # r => status'[q] = status[q] /\ home'[q] = home[q]
    BY <1>0, <1>a DEF DPTypeInv
  <1>7. \A f \in Engine : Covered(f) => Covered(f)'
    BY <1>6, <1>a, CoverStays
  <1>8. Covered(e)'
    <2>1. status'[r] = "sent" /\ home'[r].engine = e
      BY <1>0, <1>a DEF DPTypeInv
    <2> QED  BY <2>1, CoverNew
  <1>9. Lockstep'
    BY <1>0, <1>a DEF Lockstep
  <1>10. WavesBounded'
    <2>1. \A d \in Client : \A m \in Elems(firstReq'[d]) : m.stamp <= coWave
      BY <1>0, <1>b, <1>4 DEF WavesBounded
    <2>2. \A d \in Client, f \in Engine : \A m \in Elems(toEngine'[d][f]) : m.kind = "ADD" => m.wave <= coWave
      BY <1>0, <1>b, <1>3, SMTT(30) DEF WavesBounded
    <2> QED  BY <2>1, <2>2, <1>0, <1>a DEF WavesBounded
  <1>11. Addressed'
    <2> SUFFICES ASSUME NEW d \in Client, NEW f \in Engine, NEW m \in Elems(toEngine'[d][f])
                 PROVE  status'[m.req] # "unsent" /\ home'[m.req].engine = f
      BY DEF Addressed
    <2>1. CASE m \in Elems(toEngine[d][f])
      <3>1. m \in Input
        BY <2>1, <1>0, MessagesTyped
      <3>2. m.req \in Request /\ m.req # r
        BY <2>1, <3>1, <1>0, <1>a DEF Addressed, Input
      <3> QED  BY <2>1, <3>2, <1>0, <1>6 DEF Addressed
    <2>2. CASE m = m1 /\ f = e
      BY <2>2, <1>b, <1>a, <1>0 DEF DPTypeInv
    <2> QED  BY <2>1, <2>2, <1>3
  <1>12. SparedJoin'
    <2>1. ASSUME NEW d \in Client, NEW m \in Elems(firstReq'[d]), m.stamp = wave[0]
          PROVE  Covered(m.engine)'
      <3>1. CASE m \in Elems(firstReq[d])
        <4>1. m.engine \in Engine
          BY <3>1, <1>0, MessagesTyped
        <4> QED  BY <3>1, <4>1, <2>1, <1>0, <1>7 DEF SparedJoin
      <3>2. CASE m = m2
        BY <3>2, <1>b, <1>8
      <3> QED  BY <3>1, <3>2, <1>4
    <2>2. ASSUME NEW d \in Client, NEW m \in Elems(toFront[d]), m.wave = wave[0]
          PROVE  Covered(m.engine)'
      <3>1. m.engine \in Engine
        BY <1>0, MessagesTyped
      <3> QED  BY <3>1, <2>2, <1>0, <1>7 DEF SparedJoin
    <2> QED  BY <2>1, <2>2, <1>0, <1>a, <1>7 DEF SparedJoin
  <1>13. AllJoin'
    BY <1>0, <1>a, <1>7 DEF AllJoin, Active
  <1> QED  BY <1>5, <1>9, <1>10, <1>11, <1>12, <1>13 DEF DPInv

-----------------------------------------------------------------------------
(* What a step inside a wave has to guarantee: new messages carry waves    *)
(* their sender has reached, and whoever may be spared joins.              *)
LEMMA StepKeeps ==
    ASSUME DPInv, DPTypeInv', Lockstep', wave' = wave,
           coWave <= coWave', coWave' <= wave[0],
           \A c \in Client :
               /\ clientWave'[c] <= coWave'
               /\ \A m \in Elems(firstReq'[c]) : m \in Elems(firstReq[c])
               /\ \A m \in Elems(toFront'[c]) :
                    \/ m \in Elems(toFront[c])
                    \/ m.wave <= coWave' /\ m.engine \in Engine /\ (m.wave = wave[0] => Covered(m.engine)')
               /\ \A m \in Elems(published'[c]) : m \in Elems(published[c]) \/ m.wave <= coWave'
               /\ \A e \in Engine : \A m \in Elems(toEngine'[c][e]) :
                    \/ m \in Elems(toEngine[c][e])
                    \/ m.kind = "ABORT" /\ status'[m.req] # "unsent" /\ home'[m.req].engine = e,
           \A e \in Engine :
               /\ \A m \in Elems(output'[e]) :
                    \/ m \in Elems(output[e])
                    \/ m.kind = "start_wave" /\ m.wave = wave[0] /\ Covered(e)'
               /\ \A m \in Elems(startWave'[e]) :
                    \/ m \in Elems(startWave[e]) /\ (coWave' = coWave /\ coRunning => coRunning')
                    \/ m.wave = coWave' /\ coRunning',
           \A r \in Request : status[r] # "unsent" => status'[r] # "unsent" /\ home'[r] = home[r],
           \A e \in Engine : Covered(e) => Covered(e)',
           Active' => Active \/ \A e \in Engine : Covered(e)'
    PROVE  DPInv'
  <1>0. DPTypeInv /\ WavesBounded /\ Addressed /\ SparedJoin /\ AllJoin
    BY DEF DPInv
  <1>1. coWave \in Int /\ coWave' \in Int /\ wave[0] \in Int
    BY <1>0, DPAssumption DEF DPTypeInv
  <1>2. \A a, b \in Int : a <= b /\ b <= coWave' => a <= coWave'
    BY <1>1
  <1>3. WavesBounded'
    <2>1. ASSUME NEW c \in Client
          PROVE  /\ \A m \in Elems(published'[c]) : m.wave <= coWave'
                 /\ \A m \in Elems(firstReq'[c]) : m.stamp <= coWave'
                 /\ \A m \in Elems(toFront'[c]) : m.wave <= coWave'
      <3>1. /\ \A m \in Elems(published[c]) : m.wave \in Int /\ m.wave <= coWave
            /\ \A m \in Elems(firstReq[c]) : m.stamp \in Int /\ m.stamp <= coWave
            /\ \A m \in Elems(toFront[c]) : m.wave \in Int /\ m.wave <= coWave
        BY <1>0, MessagesTyped DEF WavesBounded
      <3> QED  BY <3>1, <1>1, <1>2
    <2>2. ASSUME NEW c \in Client, NEW e \in Engine, NEW m \in Elems(toEngine'[c][e]), m.kind = "ADD"
          PROVE  m.wave <= coWave'
      <3>1. m \in Elems(toEngine[c][e])
        BY <2>2
      <3>2. m.wave \in Int /\ m.wave <= coWave
        BY <3>1, <2>2, <1>0, MessagesTyped DEF WavesBounded
      <3> QED  BY <3>2, <1>1
    <2>3. ASSUME NEW e \in Engine, NEW m \in Elems(output'[e])
          PROVE  m.wave <= wave[0] /\ (m.kind = "wave_complete" => m.wave < wave[0])
      BY <2>3, <1>0, <1>1 DEF WavesBounded
    <2>4. ASSUME NEW e \in Engine, NEW m \in Elems(startWave'[e])
          PROVE  m.wave <= coWave' /\ (m.wave = coWave' => coRunning')
      <3>1. CASE m \in Elems(startWave[e]) /\ (coWave' = coWave /\ coRunning => coRunning')
        <4>1. m.wave \in Int /\ m.wave <= coWave /\ (m.wave = coWave => coRunning)
          BY <3>1, <1>0, MessagesTyped DEF WavesBounded
        <4> QED  BY <4>1, <3>1, <1>1
      <3>2. CASE m.wave = coWave' /\ coRunning'
        BY <3>2, <1>1
      <3> QED  BY <3>1, <3>2
    <2> QED  BY <2>1, <2>2, <2>3, <2>4 DEF WavesBounded
  <1>4. Addressed'
    <2> SUFFICES ASSUME NEW c \in Client, NEW e \in Engine, NEW m \in Elems(toEngine'[c][e])
                 PROVE  status'[m.req] # "unsent" /\ home'[m.req].engine = e
      BY DEF Addressed
    <2>1. CASE m \in Elems(toEngine[c][e])
      <3>1. m.req \in Request /\ status[m.req] # "unsent" /\ home[m.req].engine = e
        BY <2>1, <1>0, MessagesTyped DEF Addressed
      <3> QED  BY <3>1
    <2> QED  BY <2>1
  <1>5. SparedJoin'
    <2>1. ASSUME NEW c \in Client, NEW m \in Elems(firstReq'[c]), m.stamp = wave[0]
          PROVE  Covered(m.engine)'
      <3>1. m \in Elems(firstReq[c]) /\ m.engine \in Engine /\ Covered(m.engine)
        BY <2>1, <1>0, MessagesTyped DEF SparedJoin
      <3> QED  BY <3>1
    <2>2. ASSUME NEW c \in Client, NEW m \in Elems(toFront'[c]), m.wave = wave[0]
          PROVE  Covered(m.engine)'
      <3>1. CASE m \in Elems(toFront[c])
        <4>1. m.engine \in Engine /\ Covered(m.engine)
          BY <2>2, <3>1, <1>0, MessagesTyped DEF SparedJoin
        <4> QED  BY <4>1
      <3> QED  BY <3>1, <2>2
    <2>3. ASSUME NEW e \in Engine, NEW m \in Elems(output'[e]), m.kind = "start_wave", m.wave = wave[0]
          PROVE  Covered(e)'
      BY <2>3, <1>0 DEF SparedJoin
    <2> QED  BY <2>1, <2>2, <2>3 DEF SparedJoin
  <1>6. AllJoin'
    BY <1>0 DEF AllJoin
  <1> QED  BY <1>3, <1>4, <1>5, <1>6 DEF DPInv

(* An abort follows its request to the engine. *)
LEMMA AbortRequestInv ==
    ASSUME DPInv, NEW r \in Request, AbortRequest(r)
    PROVE  DPInv'
  <1> DEFINE m1 == [kind |-> "ABORT", req |-> r, wave |-> None]
             a == home[r].client
             b == home[r].engine
  <1>0. DPTypeInv /\ Lockstep /\ WavesBounded /\ wave[0] \in Int
    BY DPAssumption DEF DPInv, DPTypeInv
  <1>a. /\ UNCHANGED <<pc, running, wave, step, status, home, exposed, clientWave, clientRunning, polled,
                       coWave, coRunning, firstReq, toFront, output, startWave, published>>
        /\ status[r] # "unsent"
        /\ toEngine' = [toEngine EXCEPT ![a][b] = Append(@, m1)]
    BY DEF AbortRequest, engineVars, requestVars, clientVars, coordVars
  <1>b. m1 \in Input /\ m1.kind = "ABORT" /\ m1.req = r
    BY DEF Input, None
  <1> HIDE DEF m1
  <1>1. ASSUME a \in Client, b \in Engine
        PROVE  /\ Append(toEngine[a][b], m1) \in Seq(Input)
               /\ Elems(Append(toEngine[a][b], m1)) = Elems(toEngine[a][b]) \cup {m1}
    <2>1. toEngine[a][b] \in Seq(Input)
      BY <1>0, <1>1 DEF DPTypeInv
    <2> QED  BY <1>b, <2>1, AppendElems
  <1> HIDE DEF a
  <1>2. \A d \in Client, f \in Engine : \A m \in Elems(toEngine'[d][f]) :
            m \in Elems(toEngine[d][f]) \/ (m = m1 /\ f = b)
    <2> SUFFICES ASSUME NEW d \in Client, NEW f \in Engine, NEW m \in Elems(toEngine'[d][f])
                 PROVE  m \in Elems(toEngine[d][f]) \/ (m = m1 /\ f = b)
      OBVIOUS
    <2>1. CASE d = a /\ f = b
      BY <2>1, <1>0, <1>1, <1>a DEF DPTypeInv
    <2>2. CASE d # a \/ f # b
      BY <2>2, <1>0, <1>a DEF DPTypeInv
    <2> QED  BY <2>1, <2>2
  <1>3. toEngine' \in [Client -> [Engine -> Seq(Input)]]
    <2>1. ASSUME a \in Client, b \in Engine PROVE toEngine' \in [Client -> [Engine -> Seq(Input)]]
      BY <2>1, <1>0, <1>1, <1>a DEF DPTypeInv
    <2>2. ASSUME a \notin Client PROVE toEngine' = toEngine
      BY <2>2, <1>0, <1>a DEF DPTypeInv
    <2>3. ASSUME a \in Client, b \notin Engine PROVE toEngine' = toEngine
      BY <2>3, <1>0, <1>a DEF DPTypeInv
    <2> QED  BY <2>1, <2>2, <2>3, <1>0 DEF DPTypeInv
  <1>4. DPTypeInv'
    BY <1>0, <1>3, <1>a DEF DPTypeInv
  <1>5. Lockstep'
    BY <1>0, <1>a DEF Lockstep
  <1>6. \A e \in Engine : Covered(e) => Covered(e)'
    BY <1>a, CoverStays
  <1>7. Active' => Active
    BY <1>a DEF Active
  <1>8. \A d \in Client, e \in Engine : \A m \in Elems(toEngine'[d][e]) :
            \/ m \in Elems(toEngine[d][e])
            \/ m.kind = "ABORT" /\ status'[m.req] # "unsent" /\ home'[m.req].engine = e
    BY <1>2, <1>a, <1>b
  <1>9. coWave <= coWave /\ coWave <= wave[0] /\ \A c \in Client : clientWave[c] <= coWave
    BY <1>0 DEF WavesBounded, DPTypeInv
  <1> QED  BY <1>4, <1>5, <1>6, <1>7, <1>8, <1>9, <1>a, StepKeeps

(* Steps that change nothing the invariant speaks of. *)
LEMMA PollInv ==
    ASSUME DPInv, (\E c \in Client : Poll(c)) \/ UNCHANGED vars
    PROVE  DPInv'
  <1>0. DPTypeInv /\ Lockstep /\ WavesBounded /\ wave[0] \in Int
    BY DPAssumption DEF DPInv, DPTypeInv
  <1>a. UNCHANGED <<pc, running, wave, step, status, home, exposed, clientWave, clientRunning,
                    coWave, coRunning, toEngine, firstReq, toFront, output, startWave, published>>
    BY DEF Poll, vars, engineVars, requestVars, clientVars, coordVars, channels
  <1>1. DPTypeInv'
    <2>1. /\ polled' \in [Client -> SUBSET {"first_req", "update"}]
          /\ \A c \in Client : "first_req" \in polled'[c] => firstReq[c] # <<>>
      <3>1. CASE UNCHANGED vars
        BY <3>1, <1>0 DEF DPTypeInv, vars, clientVars
      <3>2. ASSUME NEW c \in Client, Poll(c)
            PROVE  /\ polled' \in [Client -> SUBSET {"first_req", "update"}]
                   /\ \A d \in Client : "first_req" \in polled'[d] => firstReq[d] # <<>>
        BY <3>2, <1>0 DEF Poll, DPTypeInv
      <3> QED  BY <3>1, <3>2
    <2> QED  BY <2>1, <1>0, <1>a DEF DPTypeInv
  <1>2. Lockstep'
    BY <1>0, <1>a DEF Lockstep
  <1>3. \A e \in Engine : Covered(e) => Covered(e)'
    BY <1>a, CoverStays
  <1>4. Active' => Active
    BY <1>a DEF Active
  <1>5. coWave <= coWave /\ coWave <= wave[0] /\ \A c \in Client : clientWave[c] <= coWave
    BY <1>0 DEF WavesBounded, DPTypeInv
  <1> QED  BY <1>1, <1>2, <1>3, <1>4, <1>5, <1>a, StepKeeps

(* The stats task only takes news of a first request that are there. *)
LEMMA FirstReqIsThere ==
    ASSUME DPTypeInv, NEW c \in Client, TakesFirstReq(c)
    PROVE  firstReq[c] # <<>>
  <1>1. polled[c] \subseteq {"first_req", "update"} /\ ("first_req" \in polled[c] => firstReq[c] # <<>>)
    BY DEF DPTypeInv
  <1>2. CASE polled[c] = {"first_req"}
    BY <1>1, <1>2
  <1>3. CASE Cardinality(polled[c]) = 2
    <2>1. polled[c] # {} /\ polled[c] # {"update"}
      <3>1. Cardinality({}) = 0 /\ Cardinality({"update"}) = 1
        BY FS_EmptySet, FS_Singleton
      <3> QED  BY <3>1, <1>3
    <2> QED  BY <2>1, <1>1
  <1> QED  BY <1>2, <1>3 DEF TakesFirstReq

(* The news carry the wave the client knows; if the request was stamped    *)
(* with an older one, its engine counts as exposed.                        *)
LEMMA UpdateStatsInv ==
    ASSUME DPInv, NEW c \in Client, UpdateStats(c)
    PROVE  DPInv'
  <1>0. /\ DPTypeInv /\ Lockstep /\ WavesBounded /\ SparedJoin /\ wave[0] \in Int
        /\ coWave \in Int /\ clientWave \in [Client -> Int]
    BY DPAssumption DEF DPInv, DPTypeInv
  <1>a. /\ UNCHANGED <<pc, running, wave, step, status, home, coWave, coRunning, toEngine, output, startWave>>
        /\ polled' = [polled EXCEPT ![c] = {}]
    BY DEF UpdateStats, engineVars, coordVars
  <1>1. PICK n \in 0 .. Len(published[c]) : DrainUpdates(c, n)
    BY DEF UpdateStats
  <1>2. /\ published[c] \in Seq(Update) /\ firstReq[c] \in Seq(First) /\ toFront[c] \in Seq(Front)
    BY <1>0 DEF DPTypeInv
  <1>3. /\ SubSeq(published[c], n + 1, Len(published[c])) \in Seq(Update)
        /\ Elems(SubSeq(published[c], n + 1, Len(published[c]))) \subseteq Elems(published[c])
        /\ n # 0 => published[c][n] \in Elems(published[c])
    BY <1>2, SubSeqElems
  <1>4. /\ published' \in [Client -> Seq(Update)]
        /\ \A d \in Client : \A m \in Elems(published'[d]) : m \in Elems(published[d])
    <2>1. published' = [published EXCEPT ![c] = SubSeq(@, n + 1, Len(@))] /\ published \in [Client -> Seq(Update)]
      BY <1>0, <1>1 DEF DrainUpdates, DPTypeInv
    <2> QED  BY <2>1, <1>3
  <1>5. /\ clientWave' \in [Client -> Int] /\ clientRunning' \in [Client -> BOOLEAN]
        /\ \A d \in Client : clientWave'[d] <= coWave
    <2>1. n # 0 => /\ published[c][n].wave \in Int /\ published[c][n].running \in BOOLEAN
                   /\ published[c][n].wave <= coWave
      BY <1>0, <1>3, MessagesTyped DEF WavesBounded
    <2>2. /\ clientWave' = [clientWave EXCEPT ![c] = IF n = 0 THEN @ ELSE published[c][n].wave]
          /\ clientRunning' = [clientRunning EXCEPT ![c] =
                                  IF n = 0 THEN @ \/ TakesFirstReq(c) ELSE published[c][n].running]
      BY <1>1 DEF DrainUpdates
    <2>3. clientWave' \in [Client -> Int] /\ \A d \in Client : clientWave'[d] <= coWave
      BY <2>1, <2>2, <1>0 DEF WavesBounded
    <2>4. clientRunning' \in [Client -> BOOLEAN]
      <3>1. (clientRunning[c] \/ TakesFirstReq(c)) \in BOOLEAN
        OBVIOUS
      <3>2. (IF n = 0 THEN clientRunning[c] \/ TakesFirstReq(c) ELSE published[c][n].running) \in BOOLEAN
        BY <3>1, <2>1
      <3>3. clientRunning \in [Client -> BOOLEAN]
        BY <1>0 DEF DPTypeInv
      <3> QED  BY <2>2, <3>2, <3>3
    <2> QED  BY <2>3, <2>4
  <1>6. /\ firstReq' \in [Client -> Seq(First)] /\ toFront' \in [Client -> Seq(Front)]
        /\ exposed \subseteq exposed'
        /\ \A d \in Client : \A m \in Elems(firstReq'[d]) : m \in Elems(firstReq[d])
        /\ \A d \in Client \ {c} : firstReq'[d] = firstReq[d]
        /\ \A d \in Client : \A m \in Elems(toFront'[d]) :
            \/ m \in Elems(toFront[d])
            \/ /\ m.wave <= coWave /\ m.engine \in Engine
               /\ m.wave = wave[0] => Covered(m.engine) \/ m.engine \in exposed'
    <2>0. firstReq \in [Client -> Seq(First)] /\ toFront \in [Client -> Seq(Front)]
      BY <1>0 DEF DPTypeInv
    <2>1. CASE UNCHANGED <<firstReq, toFront, exposed>>
      BY <2>0, <2>1
    <2>2. CASE TakesFirstReq(c) /\ SendFirstReq(c)
      <3> DEFINE h  == Head(firstReq[c])
                 m1 == [engine |-> h.engine, wave |-> clientWave[c]]
      <3>1. firstReq[c] # <<>>
        BY <2>2, <1>0, FirstReqIsThere
      <3>2. /\ Tail(firstReq[c]) \in Seq(First) /\ h \in First /\ h \in Elems(firstReq[c])
            /\ Elems(Tail(firstReq[c])) \subseteq Elems(firstReq[c])
        BY <3>1, <1>2, TailElems
      <3>3. /\ firstReq' = [firstReq EXCEPT ![c] = Tail(@)]
            /\ toFront' = [toFront EXCEPT ![c] = Append(@, m1)]
            /\ exposed' = IF h.stamp < clientWave[c] THEN exposed \cup {h.engine} ELSE exposed
        BY <2>2 DEF SendFirstReq
      <3>4. m1 \in Front /\ m1.wave = clientWave[c] /\ m1.engine = h.engine /\ h.engine \in Engine /\ h.stamp \in Int
        BY <3>2, <1>0 DEF First, Front
      <3>5. h.stamp <= coWave /\ (h.stamp = wave[0] => Covered(h.engine)) /\ clientWave[c] <= coWave /\ coWave <= wave[0]
        BY <3>2, <1>0 DEF WavesBounded, SparedJoin
      <3> HIDE DEF h, m1
      <3>6. /\ Append(toFront[c], m1) \in Seq(Front)
            /\ Elems(Append(toFront[c], m1)) = Elems(toFront[c]) \cup {m1}
        BY <3>4, <1>2, AppendElems
      <3>7. m1.wave = wave[0] => Covered(m1.engine) \/ m1.engine \in exposed'
        <4>1. clientWave[c] \in Int
          BY <1>0
        <4> QED  BY <4>1, <3>3, <3>4, <3>5, <1>0
      <3>8. /\ firstReq' \in [Client -> Seq(First)] /\ exposed \subseteq exposed'
            /\ \A d \in Client : \A m \in Elems(firstReq'[d]) : m \in Elems(firstReq[d])
            /\ \A d \in Client \ {c} : firstReq'[d] = firstReq[d]
        BY <2>0, <3>2, <3>3
      <3>9. /\ toFront' \in [Client -> Seq(Front)]
            /\ \A d \in Client : \A m \in Elems(toFront'[d]) : m \in Elems(toFront[d]) \/ m = m1
        BY <2>0, <3>3, <3>6
      <3> QED  BY <3>4, <3>5, <3>7, <3>8, <3>9
    <2> QED  BY <2>1, <2>2 DEF UpdateStats
  <1>7. DPTypeInv'
    <2>1. /\ polled' \in [Client -> SUBSET {"first_req", "update"}]
          /\ \A d \in Client : "first_req" \in polled'[d] => firstReq'[d] # <<>>
      BY <1>0, <1>a, <1>6 DEF DPTypeInv
    <2> QED  BY <2>1, <1>0, <1>a, <1>4, <1>5, <1>6 DEF DPTypeInv
  <1>8. Lockstep'
    BY <1>0, <1>a DEF Lockstep
  <1>9. \A e \in Engine : Covered(e) => Covered(e)'
    BY <1>a, <1>6, CoverStays
  <1>10. \A e \in Engine : e \in exposed' => Covered(e)'
    BY DEF Covered
  <1>11. \A d \in Client : \A m \in Elems(toFront'[d]) :
            \/ m \in Elems(toFront[d])
            \/ m.wave <= coWave' /\ m.engine \in Engine /\ (m.wave = wave[0] => Covered(m.engine)')
    <2> SUFFICES ASSUME NEW d \in Client, NEW m \in Elems(toFront'[d]), m \notin Elems(toFront[d])
                 PROVE  m.wave <= coWave' /\ m.engine \in Engine /\ (m.wave = wave[0] => Covered(m.engine)')
      OBVIOUS
    <2>1. /\ m.wave <= coWave /\ m.engine \in Engine
          /\ m.wave = wave[0] => Covered(m.engine) \/ m.engine \in exposed'
      BY <1>6
    <2> QED  BY <2>1, <1>9, <1>10, <1>a
  <1>12. Active' => Active
    BY <1>a DEF Active
  <1>13. coWave <= coWave /\ coWave <= wave[0]
    BY <1>0 DEF WavesBounded
  <1> QED  BY <1>4, <1>5, <1>6, <1>7, <1>8, <1>9, <1>11, <1>12, <1>13, <1>a, StepKeeps

-----------------------------------------------------------------------------
(* The coordinator's steps. *)

(* What is published is the wave the coordinator is in. *)
LEMMA PublishFacts ==
    ASSUME DPTypeInv, NEW w \in Int, NEW b \in BOOLEAN, Publish(w, b)
    PROVE  /\ published' \in [Client -> Seq(Update)]
           /\ \A c \in Client : \A m \in Elems(published'[c]) : m \in Elems(published[c]) \/ m.wave = w
  <1> DEFINE m1 == [wave |-> w, running |-> b]
  <1>1. m1 \in Update /\ m1.wave = w
    BY DEF Update
  <1>2. published' = [c \in Client |-> Append(published[c], m1)]
    BY DEF Publish
  <1> HIDE DEF m1
  <1>3. ASSUME NEW c \in Client
        PROVE  published'[c] \in Seq(Update) /\ Elems(published'[c]) = Elems(published[c]) \cup {m1}
    <2>1. published[c] \in Seq(Update)
      BY DEF DPTypeInv
    <2> QED  BY <2>1, <1>1, <1>2, AppendElems
  <1> QED  BY <1>1, <1>2, <1>3

(* Starting a wave: every engine is told, but for one that joins by itself.*)
LEMMA StartWaveInv ==
    ASSUME DPInv, NEW w \in Int, NEW x \in Int, StartWave(w, x), coWave <= w, w <= wave[0],
           x \in Engine /\ w = wave[0] => Covered(x),
           UNCHANGED <<pc, running, wave, step, status, home, exposed, clientWave, clientRunning, polled,
                       toEngine, firstReq>>,
           toFront' \in [Client -> Seq(Front)], output' \in [Engine -> Seq(Out)],
           \A c \in Client : Elems(toFront'[c]) \subseteq Elems(toFront[c]),
           \A e \in Engine : Elems(output'[e]) \subseteq Elems(output[e])
    PROVE  DPInv'
  <1> DEFINE m1 == [wave |-> w, exclude |-> x]
  <1>0. DPTypeInv /\ Lockstep /\ WavesBounded /\ wave[0] \in Int /\ coWave \in Int
    BY DPAssumption DEF DPInv, DPTypeInv
  <1>1. m1 \in Start /\ m1.wave = w /\ m1.exclude = x
    BY DEF Start
  <1>2. /\ coWave' = w /\ coRunning' = TRUE /\ Publish(w, TRUE)
        /\ startWave' = [e \in Engine |-> Append(startWave[e], m1)]
    BY DEF StartWave
  <1> HIDE DEF m1
  <1>3. \A e \in Engine : /\ startWave'[e] \in Seq(Start)
                          /\ Elems(startWave'[e]) = Elems(startWave[e]) \cup {m1}
    <2> SUFFICES ASSUME NEW e \in Engine
                 PROVE  /\ startWave'[e] \in Seq(Start)
                        /\ Elems(startWave'[e]) = Elems(startWave[e]) \cup {m1}
      OBVIOUS
    <2>1. startWave[e] \in Seq(Start)
      BY <1>0 DEF DPTypeInv
    <2> QED  BY <2>1, <1>1, <1>2, AppendElems
  <1>4. /\ published' \in [Client -> Seq(Update)]
        /\ \A c \in Client : \A m \in Elems(published'[c]) : m \in Elems(published[c]) \/ m.wave = w
    BY <1>0, <1>2, PublishFacts
  <1>5. DPTypeInv'
    <2>1. startWave' \in [Engine -> Seq(Start)]
      BY <1>2, <1>3
    <2> QED  BY <2>1, <1>0, <1>2, <1>4 DEF DPTypeInv
  <1>6. Lockstep'
    BY <1>0 DEF Lockstep
  <1>7. \A e \in Engine : Covered(e) => Covered(e)'
    BY <1>3, CoverStays
  <1>8. ASSUME w = wave[0], NEW e \in Engine PROVE Covered(e)'
    <2>1. CASE e = x
      BY <2>1, <1>7, <1>8
    <2>2. CASE e # x
      <3>1. m1 \in Elems(startWave'[e]) /\ m1.exclude # e
        BY <2>2, <1>1, <1>3
      <3>2. wave'[e] = wave[0]
        BY <1>0 DEF Lockstep
      <3>3. m1.wave >= wave'[e]
        BY <3>2, <1>0, <1>1, <1>8
      <3> QED  BY <3>1, <3>3, CoverNew
    <2> QED  BY <2>1, <2>2
  <1>9. Active' => Active \/ \A e \in Engine : Covered(e)'
    BY <1>2, <1>8 DEF Active
  <1>10. \A c \in Client : clientWave'[c] <= coWave'
    <2> SUFFICES ASSUME NEW c \in Client PROVE clientWave[c] <= w
      BY <1>2
    <2>1. clientWave[c] \in Int /\ clientWave[c] <= coWave
      BY <1>0 DEF WavesBounded, DPTypeInv
    <2> QED  BY <2>1, <1>0
  <1>11. \A c \in Client : \A m \in Elems(published'[c]) : m \in Elems(published[c]) \/ m.wave <= coWave'
    BY <1>2, <1>4
  <1>12. \A e \in Engine : \A m \in Elems(startWave'[e]) :
            \/ m \in Elems(startWave[e]) /\ (coWave' = coWave /\ coRunning => coRunning')
            \/ m.wave = coWave' /\ coRunning'
    BY <1>1, <1>2, <1>3
  <1> QED  BY <1>2, <1>5, <1>6, <1>7, <1>9, <1>10, <1>11, <1>12, StepKeeps

(* The coordinator only takes a message off a channel. *)
LEMMA CoordinatorIdle ==
    ASSUME DPInv,
           UNCHANGED <<pc, running, wave, step, status, home, exposed, clientWave, clientRunning, polled,
                       coWave, coRunning, toEngine, firstReq, startWave>>,
           published' \in [Client -> Seq(Update)],
           \A c \in Client : \A m \in Elems(published'[c]) : m \in Elems(published[c]) \/ m.wave = coWave,
           toFront' \in [Client -> Seq(Front)], output' \in [Engine -> Seq(Out)],
           \A c \in Client : Elems(toFront'[c]) \subseteq Elems(toFront[c]),
           \A e \in Engine : Elems(output'[e]) \subseteq Elems(output[e])
    PROVE  DPInv'
  <1>0. DPTypeInv /\ Lockstep /\ WavesBounded /\ wave[0] \in Int /\ coWave \in Int
    BY DPAssumption DEF DPInv, DPTypeInv
  <1>1. DPTypeInv'
    BY <1>0 DEF DPTypeInv
  <1>2. Lockstep'
    BY <1>0 DEF Lockstep
  <1>3. \A e \in Engine : Covered(e) => Covered(e)'
    BY CoverStays
  <1>4. Active' => Active
    BY DEF Active
  <1>5. coWave <= coWave /\ coWave <= wave[0] /\ \A c \in Client : clientWave[c] <= coWave
    BY <1>0 DEF WavesBounded
  <1>6. \A c \in Client : \A m \in Elems(published'[c]) : m \in Elems(published[c]) \/ m.wave <= coWave'
    BY <1>0
  <1> QED  BY <1>1, <1>2, <1>3, <1>4, <1>5, <1>6, StepKeeps

(* The periodic statistics tell the clients what the coordinator believes. *)
LEMMA PublishPeriodicallyInv ==
    ASSUME DPInv, PublishPeriodically
    PROVE  DPInv'
  <1>0. DPTypeInv /\ coWave \in Int /\ coRunning \in BOOLEAN
    BY DEF DPInv, DPTypeInv
  <1>1. /\ published' \in [Client -> Seq(Update)]
        /\ \A c \in Client : \A m \in Elems(published'[c]) : m \in Elems(published[c]) \/ m.wave = coWave
    BY <1>0, PublishFacts DEF PublishPeriodically
  <1>2. /\ UNCHANGED <<pc, running, wave, step, status, home, exposed, clientWave, clientRunning, polled,
                       coWave, coRunning, toEngine, firstReq, startWave, toFront, output>>
    BY DEF PublishPeriodically, engineVars, requestVars, clientVars, coordVars
  <1>3. toFront' \in [Client -> Seq(Front)] /\ output' \in [Engine -> Seq(Out)]
    BY <1>0, <1>2 DEF DPTypeInv
  <1> QED  BY <1>1, <1>2, <1>3, CoordinatorIdle

(* News of a first request start a wave without its engine, unless the     *)
(* news are stale.                                                         *)
LEMMA ReceiveNewRequestInv ==
    ASSUME DPInv, NEW c \in Client, ReceiveNewRequest(c)
    PROVE  DPInv'
  <1> DEFINE h == Head(toFront[c])
  <1>0. /\ DPTypeInv /\ WavesBounded /\ SparedJoin /\ wave[0] \in Int /\ coWave \in Int /\ Engine \subseteq Int
        /\ toFront \in [Client -> Seq(Front)] /\ output \in [Engine -> Seq(Out)]
        /\ published \in [Client -> Seq(Update)]
    <2>1. Engine \subseteq Int /\ 0 \in Engine
      BY DPAssumption
    <2> QED  BY <2>1 DEF DPInv, DPTypeInv
  <1>a. /\ UNCHANGED <<pc, running, wave, step, status, home, exposed, clientWave, clientRunning, polled,
                       toEngine, firstReq, output>>
        /\ toFront[c] # <<>> /\ toFront' = [toFront EXCEPT ![c] = Tail(@)]
    BY DEF ReceiveNewRequest, engineVars, requestVars, clientVars
  <1>1. /\ Tail(toFront[c]) \in Seq(Front) /\ h \in Elems(toFront[c])
        /\ Elems(Tail(toFront[c])) \subseteq Elems(toFront[c])
    BY <1>0, <1>a, TailElems
  <1>2. h.engine \in Engine /\ h.wave \in Int /\ h.wave <= coWave /\ (h.wave = wave[0] => Covered(h.engine))
    BY <1>0, <1>1, MessagesTyped DEF WavesBounded, SparedJoin
  <1>3. toFront' \in [Client -> Seq(Front)] /\ \A d \in Client : Elems(toFront'[d]) \subseteq Elems(toFront[d])
    BY <1>0, <1>1, <1>a
  <1>4. output' \in [Engine -> Seq(Out)] /\ \A e \in Engine : Elems(output'[e]) \subseteq Elems(output[e])
    BY <1>0, <1>a
  <1>5. CASE StartWave(coWave, Exclude(h))
    <2>1. Exclude(h) \in Int
      <3>1. h.engine \in Int
        BY <1>0, <1>2
      <3>2. -1 \in Int
        OBVIOUS
      <3> QED  BY <3>1, <3>2 DEF Exclude, None
    <2>2. Exclude(h) \in Engine /\ coWave = wave[0] => Covered(Exclude(h))
      <3> SUFFICES ASSUME Exclude(h) \in Engine, coWave = wave[0] PROVE Covered(Exclude(h))
        OBVIOUS
      <3>1. None \notin Engine
        BY DPAssumption DEF None
      <3>2. ~(h.wave < coWave) /\ Exclude(h) = h.engine
        BY <3>1 DEF Exclude
      <3> QED  BY <3>2, <1>0, <1>2
    <2>3. coWave <= coWave /\ coWave <= wave[0]
      BY <1>0 DEF WavesBounded
    <2> HIDE DEF h
    <2> QED  BY <2>1, <2>2, <2>3, <1>0, <1>3, <1>4, <1>5, <1>a, StartWaveInv
  <1>6. CASE UNCHANGED <<coWave, coRunning, startWave, published>>
    <2>1. /\ published' \in [Client -> Seq(Update)]
          /\ \A d \in Client : \A m \in Elems(published'[d]) : m \in Elems(published[d]) \/ m.wave = coWave
      BY <1>0, <1>6
    <2> QED  BY <2>1, <1>3, <1>4, <1>6, <1>a, CoordinatorIdle
  <1> QED  BY <1>5, <1>6 DEF ReceiveNewRequest, coordVars

(* The end of a wave moves the coordinator on; a stale request starts the  *)
(* wave of the engine that noticed it.                                     *)
LEMMA ReceiveOutputInv ==
    ASSUME DPInv, NEW e \in Engine, ReceiveOutput(e)
    PROVE  DPInv'
  <1> DEFINE h == Head(output[e])
  <1>0. /\ DPTypeInv /\ WavesBounded /\ SparedJoin /\ wave[0] \in Int /\ coWave \in Int /\ e \in Int
        /\ toFront \in [Client -> Seq(Front)] /\ output \in [Engine -> Seq(Out)]
        /\ published \in [Client -> Seq(Update)] /\ startWave \in [Engine -> Seq(Start)] /\ Lockstep
    <2>1. Engine \subseteq Int /\ 0 \in Engine
      BY DPAssumption
    <2> QED  BY <2>1 DEF DPInv, DPTypeInv
  <1>a. /\ UNCHANGED <<pc, running, wave, step, status, home, exposed, clientWave, clientRunning, polled,
                       toEngine, firstReq, toFront>>
        /\ output[e] # <<>> /\ output' = [output EXCEPT ![e] = Tail(@)]
    BY DEF ReceiveOutput, engineVars, requestVars, clientVars
  <1>1. /\ Tail(output[e]) \in Seq(Out) /\ h \in Elems(output[e])
        /\ Elems(Tail(output[e])) \subseteq Elems(output[e])
    BY <1>0, <1>a, TailElems
  <1>2. /\ h.wave \in Int /\ h.wave <= wave[0] /\ (h.kind = "wave_complete" => h.wave < wave[0])
        /\ (h.kind = "start_wave" /\ h.wave = wave[0] => Covered(e))
    BY <1>0, <1>1, MessagesTyped DEF WavesBounded, SparedJoin
  <1>3. output' \in [Engine -> Seq(Out)] /\ \A f \in Engine : Elems(output'[f]) \subseteq Elems(output[f])
    BY <1>0, <1>1, <1>a
  <1>4. toFront' \in [Client -> Seq(Front)] /\ \A c \in Client : Elems(toFront'[c]) \subseteq Elems(toFront[c])
    BY <1>0, <1>a
  <1> HIDE DEF h
  <1>5. CASE UNCHANGED <<coWave, coRunning, startWave, published>>
    <2>1. /\ published' \in [Client -> Seq(Update)]
          /\ \A d \in Client : \A m \in Elems(published'[d]) : m \in Elems(published[d]) \/ m.wave = coWave
      BY <1>0, <1>5
    <2> QED  BY <2>1, <1>3, <1>4, <1>5, <1>a, CoordinatorIdle
  <1>6. CASE h.kind = "start_wave" /\ (h.wave > coWave \/ (h.wave = coWave /\ ~coRunning)) /\ StartWave(h.wave, e)
    <2>1. coWave <= h.wave /\ h.wave <= wave[0] /\ h.wave \in Int
      BY <1>0, <1>2, <1>6
    <2>2. h.wave = wave[0] => Covered(e)
      BY <1>2, <1>6
    <2> QED  BY <2>1, <2>2, <1>0, <1>3, <1>4, <1>6, <1>a, StartWaveInv
  <1>7. CASE h.kind = "wave_complete" /\ coWave <= h.wave /\ coWave' = h.wave + 1 /\ coRunning' = FALSE
             /\ Publish(h.wave + 1, FALSE) /\ UNCHANGED startWave
    <2>1. /\ published' \in [Client -> Seq(Update)]
          /\ \A c \in Client : \A m \in Elems(published'[c]) : m \in Elems(published[c]) \/ m.wave = h.wave + 1
      <3>1. h.wave + 1 \in Int
        BY <1>2
      <3> QED  BY <3>1, <1>0, <1>7, PublishFacts
    <2>2. coWave < coWave' /\ coWave <= coWave' /\ coWave' <= wave[0] /\ coWave' \in Int
      BY <1>0, <1>2, <1>7
    <2>3. DPTypeInv'
      BY <2>1, <2>2, <1>0, <1>3, <1>7, <1>a DEF DPTypeInv
    <2>4. Lockstep'
      BY <1>0, <1>a DEF Lockstep
    <2>5. \A f \in Engine : Covered(f) => Covered(f)'
      BY <1>7, <1>a, CoverStays
    <2>6. Active' => Active
      BY <1>7, <1>a DEF Active
    <2>7. \A c \in Client : clientWave'[c] <= coWave'
      <3> SUFFICES ASSUME NEW c \in Client PROVE clientWave[c] <= coWave'
        BY <1>a
      <3>1. clientWave[c] \in Int /\ clientWave[c] <= coWave
        BY <1>0 DEF WavesBounded, DPTypeInv
      <3> QED  BY <3>1, <2>2, <1>0
    <2>8. \A c \in Client : \A m \in Elems(published'[c]) : m \in Elems(published[c]) \/ m.wave <= coWave'
      BY <2>1, <2>2, <1>7
    <2>9. coWave' # coWave /\ startWave' = startWave
      BY <2>2, <1>0, <1>7
    <2> QED  BY <2>2, <2>3, <2>4, <2>5, <2>6, <2>7, <2>8, <2>9, <1>3, <1>4, <1>a, StepKeeps
  <1> QED  BY <1>5, <1>6, <1>7 DEF ReceiveOutput, WaveComplete, CompletesWave, StaleRequest, coordVars, h

-----------------------------------------------------------------------------
(* The engines' steps. *)

(* An engine told of a later wave takes the larger number. *)
LEMMA MaxOfTwo ==
    ASSUME NEW a \in Int, NEW b \in Int, b <= a
    PROVE  Max({a, b}) = a
  <1>1. \A y \in {a, b} : a >= y
    OBVIOUS
  <1>2. \A x \in {a, b} : (\A y \in {a, b} : x >= y) => x = a
    OBVIOUS
  <1> QED  BY <1>1, <1>2 DEF Max

(* What an engine takes from a client. *)
LEMMA TakeInputFacts ==
    ASSUME DPInv, NEW e \in Engine, NEW c \in Client, NEW kind, TakeInput(e, c, kind)
    PROVE  /\ toEngine' \in [Client -> [Engine -> Seq(Input)]]
           /\ \A d \in Client, f \in Engine : Elems(toEngine'[d][f]) \subseteq Elems(toEngine[d][f])
           /\ Head(toEngine[c][e]).req \in Request /\ Head(toEngine[c][e]).wave \in Int
           /\ status[Head(toEngine[c][e]).req] # "unsent"
           /\ home[Head(toEngine[c][e]).req].engine = e
           /\ kind = "ADD" => Head(toEngine[c][e]).wave <= coWave
  <1>0. DPTypeInv /\ WavesBounded /\ Addressed
    BY DEF DPInv
  <1>1. toEngine[c][e] \in Seq(Input) /\ toEngine[c][e] # <<>> /\ toEngine' = [toEngine EXCEPT ![c][e] = Tail(@)]
        /\ toEngine \in [Client -> [Engine -> Seq(Input)]] /\ Head(toEngine[c][e]).kind = kind
    BY <1>0 DEF DPTypeInv, TakeInput
  <1>2. /\ Tail(toEngine[c][e]) \in Seq(Input) /\ Head(toEngine[c][e]) \in Elems(toEngine[c][e])
        /\ Elems(Tail(toEngine[c][e])) \subseteq Elems(toEngine[c][e])
    BY <1>1, TailElems
  <1>3. /\ toEngine' \in [Client -> [Engine -> Seq(Input)]]
        /\ \A d \in Client, f \in Engine : Elems(toEngine'[d][f]) \subseteq Elems(toEngine[d][f])
    BY <1>1, <1>2
  <1> QED  BY <1>0, <1>1, <1>2, <1>3, MessagesTyped DEF Addressed, WavesBounded

(* A request never moves an engine to another wave.  An engine that asks   *)
(* for a new wave has the request.                                         *)
LEMMA HandleAddInv ==
    ASSUME DPInv, NEW e \in Engine, NEW c \in Client, HandleAdd(e, c)
    PROVE  DPInv'
  <1> DEFINE h  == Head(toEngine[c][e])
             r  == h.req
             m1 == [kind |-> "start_wave", wave |-> wave[e]]
  <1>0. /\ DPTypeInv /\ Lockstep /\ WavesBounded /\ wave \in [Engine -> Int] /\ coWave \in Int
        /\ wave[e] = wave[0] /\ wave[0] \in Int /\ output \in [Engine -> Seq(Out)]
        /\ status \in [Request -> {"unsent", "sent", "unfinished", "done", "aborted"}]
    <2>1. DPTypeInv /\ Lockstep /\ WavesBounded
      BY DEF DPInv
    <2> QED  BY <2>1, DPAssumption DEF DPTypeInv, Lockstep
  <1>a. /\ UNCHANGED <<pc, running, step, home, exposed, clientWave, clientRunning, polled, coWave, coRunning,
                       firstReq, toFront, startWave, published>>
        /\ TakeInput(e, c, "ADD") /\ status' = [status EXCEPT ![r] = "unfinished"]
        /\ NoteRequestWave(e, h.wave)
    BY DEF HandleAdd, clientVars, coordVars
  <1>1. /\ toEngine' \in [Client -> [Engine -> Seq(Input)]]
        /\ \A d \in Client, f \in Engine : Elems(toEngine'[d][f]) \subseteq Elems(toEngine[d][f])
        /\ r \in Request /\ h.wave \in Int /\ status[r] # "unsent" /\ home[r].engine = e /\ h.wave <= coWave
    BY <1>a, TakeInputFacts
  <1> HIDE DEF h
  <1>2. coWave <= wave[0] /\ h.wave <= wave[e]
    BY <1>0, <1>1 DEF WavesBounded
  <1>3. wave' = wave
    <2>1. Max({wave[e], h.wave}) = wave[e]
      BY <1>0, <1>1, <1>2, MaxOfTwo
    <2> QED  BY <2>1, <1>0, <1>a DEF NoteRequestWave
  <1>4. /\ status'[r] = "unfinished" /\ status' \in [Request -> {"unsent", "sent", "unfinished", "done", "aborted"}]
        /\ \A q \in Request : q # r => status'[q] = status[q]
    BY <1>0, <1>1, <1>a
  <1>5. Covered(e)' /\ \A f \in Engine : Covered(f) => Covered(f)'
    <2>1. Covered(e)'
      BY <1>1, <1>4, <1>a, CoverNew
    <2>2. ASSUME NEW f \in Engine, Covered(f) PROVE Covered(f)'
      BY <2>2, <1>3, <1>4, <1>a, CoverStays
    <2> QED  BY <2>1, <2>2
  <1>6. /\ output' \in [Engine -> Seq(Out)]
        /\ \A f \in Engine : \A m \in Elems(output'[f]) :
            m \in Elems(output[f]) \/ (f = e /\ m = m1)
    <2>1. m1 \in Out
      BY <1>0 DEF Out
    <2> HIDE DEF m1
    <2>2. Append(output[e], m1) \in Seq(Out) /\ Elems(Append(output[e], m1)) = Elems(output[e]) \cup {m1}
      BY <2>1, <1>0, AppendElems
    <2>3. output' = output \/ output' = [output EXCEPT ![e] = Append(@, m1)]
      BY <1>a DEF NoteRequestWave, SendOutput, m1
    <2>4. CASE output' = output
      BY <2>4, <1>0
    <2>5. CASE output' = [output EXCEPT ![e] = Append(@, m1)]
      <3>1. output'[e] = Append(output[e], m1) /\ \A f \in Engine \ {e} : output'[f] = output[f]
        BY <2>5, <1>0
      <3>2. output' \in [Engine -> Seq(Out)]
        BY <2>2, <2>5, <1>0
      <3> QED  BY <3>1, <3>2, <2>2
    <2> QED  BY <2>3, <2>4, <2>5
  <1>7. \A f \in Engine : \A m \in Elems(output'[f]) :
            m \in Elems(output[f]) \/ (m.kind = "start_wave" /\ m.wave = wave[0] /\ Covered(f)')
    BY <1>0, <1>5, <1>6
  <1>8. DPTypeInv'
    BY <1>0, <1>1, <1>3, <1>4, <1>6, <1>a DEF DPTypeInv
  <1>9. Lockstep'
    BY <1>0, <1>3, <1>a DEF Lockstep
  <1>10. Active' => Active
    BY <1>3, <1>a DEF Active
  <1>11. coWave <= coWave /\ \A d \in Client : clientWave[d] <= coWave
    BY <1>0 DEF WavesBounded
  <1>12. \A q \in Request : status[q] # "unsent" => status'[q] # "unsent" /\ home'[q] = home[q]
    BY <1>4, <1>a
  <1> QED  BY <1>1, <1>2, <1>3, <1>5, <1>7, <1>8, <1>9, <1>10, <1>11, <1>12, <1>a, StepKeeps

(* An engine that loses its only request before it runs counts as exposed. *)
LEMMA HandleAbortInv ==
    ASSUME DPInv, NEW e \in Engine, NEW c \in Client, HandleAbort(e, c)
    PROVE  DPInv'
  <1> DEFINE r == Head(toEngine[c][e]).req
  <1>0. /\ DPTypeInv /\ Lockstep /\ WavesBounded /\ wave[0] \in Int /\ coWave \in Int
        /\ status \in [Request -> {"unsent", "sent", "unfinished", "done", "aborted"}]
    BY DPAssumption DEF DPInv, DPTypeInv
  <1>a. /\ UNCHANGED <<pc, running, wave, step, home, clientWave, clientRunning, polled, coWave, coRunning,
                       firstReq, toFront, output, startWave, published>>
        /\ TakeInput(e, c, "ABORT")
        /\ status' = [status EXCEPT ![r] = IF @ = "unfinished" THEN "aborted" ELSE @]
        /\ exposed' = IF ~running[e] /\ Unfinished(e) = {r} THEN exposed \cup {e} ELSE exposed
    BY DEF HandleAbort, engineVars, clientVars, coordVars
  <1>1. /\ toEngine' \in [Client -> [Engine -> Seq(Input)]]
        /\ \A d \in Client, f \in Engine : Elems(toEngine'[d][f]) \subseteq Elems(toEngine[d][f])
        /\ r \in Request /\ status[r] # "unsent" /\ home[r].engine = e
    BY <1>a, TakeInputFacts
  <1> HIDE DEF r
  <1>2. /\ status' \in [Request -> {"unsent", "sent", "unfinished", "done", "aborted"}]
        /\ status'[r] = IF status[r] = "unfinished" THEN "aborted" ELSE status[r]
        /\ \A q \in Request : q # r => status'[q] = status[q]
    BY <1>0, <1>1, <1>a
  <1>3. exposed \subseteq exposed'
    BY <1>a
  <1>4. ASSUME NEW f \in Engine, Covered(f) PROVE Covered(f)'
    <2>1. CASE f # e \/ status[r] # "unfinished"
      <3>1. \A q \in Request : status[q] = "unfinished" /\ home[q].engine = f => status'[q] = "unfinished"
        BY <2>1, <1>1, <1>2
      <3>2. \A q \in Request : status[q] = "sent" => status'[q] = "sent"
        BY <1>2
      <3> QED  BY <3>1, <3>2, <1>3, <1>4, <1>a, CoverStays
    <2>2. CASE f = e /\ status[r] = "unfinished"
      <3>1. CASE running[e]
        BY <3>1, <2>2, <1>a, CoverNew
      <3>2. CASE ~running[e] /\ Unfinished(e) = {r}
        BY <3>2, <2>2, <1>a DEF Covered
      <3>3. CASE Unfinished(e) # {r}
        <4>1. r \in Unfinished(e)
          BY <2>2, <1>1 DEF Unfinished
        <4>2. PICK q \in Unfinished(e) : q # r
          BY <4>1, <3>3
        <4>3. q \in Request /\ status'[q] = "unfinished" /\ home'[q].engine = e
          BY <4>2, <1>2, <1>a DEF Unfinished
        <4> QED  BY <4>3, <2>2, CoverNew
      <3> QED  BY <3>1, <3>2, <3>3
    <2> QED  BY <2>1, <2>2
  <1>5. DPTypeInv'
    BY <1>0, <1>1, <1>2, <1>a DEF DPTypeInv
  <1>6. Lockstep'
    BY <1>0, <1>a DEF Lockstep
  <1>7. Active' => Active
    BY <1>a DEF Active
  <1>8. coWave <= coWave /\ coWave <= wave[0] /\ \A d \in Client : clientWave[d] <= coWave
    BY <1>0 DEF WavesBounded
  <1>9. \A q \in Request : status[q] # "unsent" => status'[q] # "unsent" /\ home'[q] = home[q]
    BY <1>2, <1>a
  <1> QED  BY <1>1, <1>4, <1>5, <1>6, <1>7, <1>8, <1>9, <1>a, StepKeeps

(* START_DP_WAVE makes an engine run only in the wave all engines are in,  *)
(* and only if the coordinator believes that this wave runs.               *)
LEMMA HandleStartWaveInv ==
    ASSUME DPInv, NEW e \in Engine, HandleStartWave(e)
    PROVE  DPInv'
  <1> DEFINE h == Head(startWave[e])
  <1>0. /\ DPTypeInv /\ Lockstep /\ WavesBounded /\ AllJoin /\ wave \in [Engine -> Int] /\ coWave \in Int
        /\ wave[e] = wave[0] /\ wave[0] \in Int /\ startWave \in [Engine -> Seq(Start)]
        /\ running \in [Engine -> BOOLEAN] /\ \A f \in Engine : wave[f] = wave[0]
    <2>1. DPTypeInv /\ Lockstep /\ WavesBounded /\ AllJoin
      BY DEF DPInv
    <2> QED  BY <2>1, DPAssumption DEF DPTypeInv, Lockstep
  <1>a. /\ UNCHANGED <<pc, step, status, home, exposed, clientWave, clientRunning, polled, coWave, coRunning,
                       toEngine, firstReq, toFront, output, published>>
        /\ startWave[e] # <<>> /\ startWave' = [startWave EXCEPT ![e] = Tail(@)]
        /\ wave' = [wave EXCEPT ![e] = IF Starts(e, h) THEN h.wave ELSE @]
        /\ running' = [running EXCEPT ![e] = @ \/ Starts(e, h)]
    BY DEF HandleStartWave, requestVars, clientVars, coordVars
  <1>1. /\ Tail(startWave[e]) \in Seq(Start) /\ h \in Elems(startWave[e])
        /\ Elems(startWave[e]) = {h} \cup Elems(Tail(startWave[e]))
    BY <1>0, <1>a, TailElems
  <1>2. h.wave \in Int /\ h.wave <= coWave /\ (h.wave = coWave => coRunning) /\ coWave <= wave[0]
    BY <1>0, <1>1, MessagesTyped DEF WavesBounded
  <1>3. Starts(e, h) => h.wave = wave[e] /\ coWave = wave[0] /\ coRunning
    BY <1>0, <1>2 DEF Starts
  <1> HIDE DEF h
  <1>4. wave' = wave
    BY <1>0, <1>3, <1>a
  <1>5. /\ running' \in [Engine -> BOOLEAN] /\ running'[e] = (running[e] \/ Starts(e, h))
        /\ \A f \in Engine \ {e} : running'[f] = running[f]
    <2>1. (running[e] \/ Starts(e, h)) \in BOOLEAN
      OBVIOUS
    <2> QED  BY <2>1, <1>0, <1>a
  <1>6. /\ startWave' \in [Engine -> Seq(Start)] /\ startWave'[e] = Tail(startWave[e])
        /\ \A f \in Engine \ {e} : startWave'[f] = startWave[f]
    BY <1>0, <1>1, <1>a
  <1>7. ASSUME NEW f \in Engine, Covered(f) PROVE Covered(f)'
    <2>1. CASE f # e
      <3>1. running'[f] = running[f] /\ startWave'[f] = startWave[f]
        BY <2>1, <1>5, <1>6
      <3> QED  BY <3>1, <1>4, <1>7, <1>a, CoverStays
    <2>2. CASE f = e
      <3>1. CASE running'[e]
        BY <3>1, <2>2, CoverNew
      <3>2. CASE ~running'[e]
        <4>1. ~Starts(e, h) /\ ~running[e]
          BY <3>2, <1>5
        <4>2. CASE \E i \in DOMAIN startWave[e] : Starts(e, startWave[e][i])
          <5>1. PICK m \in Elems(startWave[e]) : Starts(e, m)
            BY <4>2 DEF Elems
          <5>2. m \in Elems(startWave'[e])
            BY <5>1, <4>1, <1>1, <1>6
          <5>3. m.exclude # e /\ m.wave >= wave'[e]
            BY <5>1, <1>4 DEF Starts
          <5> QED  BY <5>2, <5>3, <2>2, CoverNew
        <4>3. CASE e \in exposed
          BY <4>3, <2>2, <1>a DEF Covered
        <4>4. CASE \E q \in Request : status[q] \in {"sent", "unfinished"} /\ home[q].engine = e
          BY <4>4, <2>2, <1>a, CoverNew
        <4> QED  BY <4>1, <4>2, <4>3, <4>4, <2>2, <1>7 DEF Covered, WillJoin, HasWork, Unfinished
      <3> QED  BY <3>1, <3>2
    <2> QED  BY <2>1, <2>2
  <1>8. Active' => Active
    <2>1. ASSUME NEW f \in Engine, running'[f] PROVE Active
      <3>1. CASE running[f]
        BY <3>1 DEF Active
      <3>2. CASE ~running[f]
        <4>1. Starts(e, h)
          BY <3>2, <2>1, <1>5
        <4> QED  BY <4>1, <1>3 DEF Active
      <3> QED  BY <3>1, <3>2
    <2> QED  BY <2>1, <1>4, <1>a DEF Active
  <1>9. DPTypeInv'
    BY <1>0, <1>4, <1>5, <1>6, <1>a DEF DPTypeInv
  <1>10. Lockstep'
    BY <1>0, <1>4, <1>5, <1>a DEF Lockstep
  <1>11. coWave <= coWave /\ coWave <= wave[0] /\ \A d \in Client : clientWave[d] <= coWave
    BY <1>0 DEF WavesBounded
  <1>12. \A f \in Engine : \A m \in Elems(startWave'[f]) : m \in Elems(startWave[f])
    BY <1>1, <1>6
  <1> QED  BY <1>4, <1>7, <1>8, <1>9, <1>10, <1>11, <1>12, <1>a, StepKeeps

(* An engine that enters a forward pass keeps its wave and its requests. *)
LEMMA EnterForwardInv ==
    ASSUME DPInv, NEW e \in Engine, EnterForward(e)
    PROVE  DPInv'
  <1>0. DPTypeInv /\ Lockstep /\ WavesBounded /\ wave[0] \in Int /\ coWave \in Int
    BY DPAssumption DEF DPInv, DPTypeInv
  <1>a. /\ UNCHANGED <<running, wave, step, status, home, exposed, clientWave, clientRunning, polled, coWave, coRunning,
                       toEngine, firstReq, toFront, output, startWave, published>>
        /\ pc' = [pc EXCEPT ![e] = "forward"]
    BY DEF EnterForward, requestVars, clientVars, coordVars, channels
  <1>1. DPTypeInv'
    BY <1>0, <1>a DEF DPTypeInv
  <1>2. Lockstep'
    <2>1. \A f \in Engine : pc'[f] = "reduce" => pc[f] = "reduce"
      BY <1>0, <1>a DEF DPTypeInv
    <2> QED  BY <2>1, <1>0, <1>a DEF Lockstep
  <1>3. \A f \in Engine : Covered(f) => Covered(f)'
    BY <1>a, CoverStays
  <1>4. Active' => Active
    BY <1>a DEF Active
  <1>5. coWave <= coWave /\ coWave <= wave[0] /\ \A d \in Client : clientWave[d] <= coWave
    BY <1>0 DEF WavesBounded
  <1> QED  BY <1>1, <1>2, <1>3, <1>4, <1>5, <1>a, StepKeeps

(* After a forward pass everybody runs: a pass without an all-reduce makes *)
(* all engines run, and one with an all-reduce never is the first pass.    *)
LEMMA ForwardInv ==
    ASSUME DPInv, Forward
    PROVE  DPInv'
  <1>0. /\ DPTypeInv /\ Lockstep /\ WavesBounded /\ wave[0] \in Int /\ coWave \in Int /\ 0 \in Engine
        /\ SyncInterval \in Nat /\ SyncInterval > 1
    BY DPAssumption DEF DPInv, DPTypeInv
  <1>a. /\ UNCHANGED <<wave, home, exposed, clientWave, clientRunning, polled, coWave, coRunning,
                       toEngine, firstReq, toFront, output, startWave, published>>
        /\ step' = [e \in Engine |-> (step[e] + 1) % SyncInterval]
        /\ status' = [r \in Request |->
                        IF status[r] = "unfinished" /\ left[r] = 1 THEN "done" ELSE status[r]]
        /\ pc' = [e \in Engine |-> IF Synchronises(e) THEN "reduce" ELSE "input"]
        /\ running' = [e \in Engine |-> Synchronises(e) => running[e]]
    BY DEF Forward, clientVars, coordVars, channels
  <1>1. \A e \in Engine : step[e] = step[0] /\ step[e] \in 0 .. SyncInterval - 1
    BY <1>0 DEF Lockstep, DPTypeInv
  <1>2. ASSUME NEW e \in Engine PROVE running'[e]
    <2>1. CASE Synchronises(e)
      <3>1. step[e] # 0
        <4>1. 1 % SyncInterval = 1
          BY <1>0
        <4> QED  BY <4>1, <2>1 DEF Synchronises
      <3>2. running[e]
        BY <3>1, <1>0, <1>1 DEF Lockstep
      <3> QED  BY <3>2, <1>a
    <2>2. CASE ~Synchronises(e)
      BY <2>2, <1>a
    <2> QED  BY <2>1, <2>2
  <1>3. step' \in [Engine -> 0 .. SyncInterval - 1]
    <2>1. \A e \in Engine : (step[e] + 1) % SyncInterval \in 0 .. SyncInterval - 1
      BY <1>0, <1>1
    <2> QED  BY <2>1, <1>a
  <1>4. DPTypeInv'
    <2>1. running' \in [Engine -> BOOLEAN]
      <3>1. \A e \in Engine : (Synchronises(e) => running[e]) \in BOOLEAN
        OBVIOUS
      <3> QED  BY <3>1, <1>a
    <2>2. pc' \in [Engine -> {"input", "forward", "reduce"}]
      BY <1>a
    <2>3. status' \in [Request -> {"unsent", "sent", "unfinished", "done", "aborted"}]
      BY <1>0, <1>a DEF DPTypeInv
    <2> QED  BY <2>1, <2>2, <2>3, <1>0, <1>3, <1>a DEF DPTypeInv
  <1>5. Lockstep'
    <2>1. \A e \in Engine : step'[e] = step'[0]
      BY <1>0, <1>1, <1>a
    <2>2. \A e \in Engine : pc'[e] = "reduce" => step'[0] = 0
      BY <2>1, <1>a DEF Synchronises
    <2> QED  BY <2>1, <2>2, <1>0, <1>2, <1>a DEF Lockstep
  <1>6. \A e \in Engine : Covered(e)'
    BY <1>2, CoverNew
  <1>7. coWave <= coWave /\ coWave <= wave[0] /\ \A d \in Client : clientWave[d] <= coWave
    BY <1>0 DEF WavesBounded
  <1>8. \A q \in Request : status[q] # "unsent" => status'[q] # "unsent" /\ home'[q] = home[q]
    BY <1>0, <1>a DEF DPTypeInv
  <1> QED  BY <1>4, <1>5, <1>6, <1>7, <1>8, <1>a, StepKeeps

(* The all-reduce either finds work, and everybody runs on, or ends the    *)
(* wave for all engines at once; nobody else has heard of the next wave.   *)
LEMMA AllReduceInv ==
    ASSUME DPInv, AllReduce
    PROVE  DPInv'
  <1>0. /\ DPTypeInv /\ Lockstep /\ WavesBounded /\ Addressed /\ wave[0] \in Int /\ coWave \in Int /\ 0 \in Engine
        /\ \A e \in Engine : wave[e] = wave[0] /\ pc[e] = "reduce" /\ step[e] = step[0] /\ step[0] = 0
        /\ wave \in [Engine -> Int]
    <2>1. DPTypeInv /\ Lockstep /\ WavesBounded /\ Addressed
      BY DEF DPInv
    <2> QED  BY <2>1, DPAssumption DEF DPTypeInv, Lockstep, AllReduce
  <1>a. /\ UNCHANGED <<step, status, home, exposed, clientWave, clientRunning, polled, coWave, coRunning,
                       toEngine, firstReq, toFront, startWave, published>>
        /\ pc' = [e \in Engine |-> "input"] /\ running' = [e \in Engine |-> GlobalUnfinished]
    BY DEF AllReduce, requestVars, clientVars, coordVars
  <1>1. /\ pc' \in [Engine -> {"input", "forward", "reduce"}] /\ running' \in [Engine -> BOOLEAN]
        /\ \A e \in Engine : pc'[e] = "input" /\ (running'[e] <=> GlobalUnfinished)
    BY <1>a DEF GlobalUnfinished
  <1>2. CASE GlobalUnfinished /\ UNCHANGED <<wave, output>>
    <2>1. \A e \in Engine : running'[e]
      BY <1>1, <1>2
    <2>2. \A e \in Engine : Covered(e)'
      BY <2>1, CoverNew
    <2>3. DPTypeInv'
      BY <1>0, <1>1, <1>2, <1>a DEF DPTypeInv
    <2>4. Lockstep'
      BY <2>1, <1>0, <1>2, <1>a DEF Lockstep
    <2>5. coWave <= coWave /\ coWave <= wave[0] /\ \A d \in Client : clientWave[d] <= coWave
      BY <1>0 DEF WavesBounded
    <2> QED  BY <2>2, <2>3, <2>4, <2>5, <1>2, <1>a, StepKeeps
  <1>3. CASE ~GlobalUnfinished /\ SendOutput(0, "wave_complete", wave[0])
             /\ wave' = [e \in Engine |-> wave[e] + 1]
    <2> DEFINE m1 == [kind |-> "wave_complete", wave |-> wave[0]]
    <2>1. wave'[0] = wave[0] + 1 /\ wave' \in [Engine -> Int] /\ \A e \in Engine : wave'[e] = wave'[0]
      BY <1>0, <1>3
    <2>2. m1 \in Out /\ m1.kind = "wave_complete" /\ m1.wave = wave[0]
      BY <1>0 DEF Out
    <2>3. output' = [output EXCEPT ![0] = Append(@, m1)] /\ output \in [Engine -> Seq(Out)]
      BY <1>0, <1>3 DEF SendOutput, DPTypeInv
    <2> HIDE DEF m1
    <2>4. Append(output[0], m1) \in Seq(Out) /\ Elems(Append(output[0], m1)) = Elems(output[0]) \cup {m1}
      BY <2>2, <2>3, <1>0, AppendElems
    <2>5. /\ output' \in [Engine -> Seq(Out)]
          /\ \A e \in Engine : \A m \in Elems(output'[e]) : m \in Elems(output[e]) \/ m = m1
      BY <2>3, <2>4
    <2>6. DPTypeInv'
      BY <2>1, <2>5, <1>0, <1>1, <1>a DEF DPTypeInv
    <2>7. Lockstep'
      BY <2>1, <1>0, <1>1, <1>a DEF Lockstep
    <2>8. coWave < wave'[0] /\ coWave <= wave'[0]
      BY <2>1, <1>0 DEF WavesBounded
    <2>9. \A e \in Engine : \A m \in Elems(output'[e]) : m.wave <= wave[0] /\ m.wave \in Int
      BY <2>2, <2>5, <1>0, MessagesTyped DEF WavesBounded
    <2>10. \A e \in Engine : \A m \in Elems(output'[e]) : m.wave < wave'[0]
      BY <2>1, <2>9, <1>0
    <2>11. WavesBounded'
      <3>1. \A e \in Engine : \A m \in Elems(output'[e]) :
                m.wave <= wave'[0] /\ (m.kind = "wave_complete" => m.wave < wave'[0])
        BY <2>1, <2>9, <2>10, <1>0
      <3> QED  BY <3>1, <2>8, <1>0, <1>a DEF WavesBounded
    <2>12. Addressed'
      BY <1>0, <1>a DEF Addressed
    <2>13. SparedJoin'
      <3>1. \A c \in Client : /\ \A m \in Elems(firstReq[c]) : m.stamp # wave'[0]
                              /\ \A m \in Elems(toFront[c]) : m.wave # wave'[0]
        <4> SUFFICES ASSUME NEW c \in Client
                     PROVE  /\ \A m \in Elems(firstReq[c]) : m.stamp # wave'[0]
                            /\ \A m \in Elems(toFront[c]) : m.wave # wave'[0]
          OBVIOUS
        <4>1. /\ \A m \in Elems(firstReq[c]) : m.stamp <= coWave /\ m.stamp \in Int
              /\ \A m \in Elems(toFront[c]) : m.wave <= coWave /\ m.wave \in Int
          BY <1>0, MessagesTyped DEF WavesBounded
        <4> QED  BY <4>1, <2>1, <2>8, <1>0
      <3>2. \A e \in Engine : \A m \in Elems(output'[e]) : m.wave # wave'[0]
        BY <2>1, <2>9, <2>10, <1>0
      <3> QED  BY <3>1, <3>2, <1>a DEF SparedJoin
    <2>14. ~Active'
      BY <2>1, <2>8, <1>0, <1>1, <1>3, <1>a DEF Active
    <2> QED  BY <2>6, <2>7, <2>11, <2>12, <2>13, <2>14 DEF DPInv, AllJoin
  <1> QED  BY <1>2, <1>3 DEF AllReduce

-----------------------------------------------------------------------------
(* At startup all are in wave 0, idle, with empty channels. *)
LEMMA DPStart == Init => DPInv
  <1> SUFFICES ASSUME Init PROVE DPInv
    OBVIOUS
  <1>0. 0 \in Engine /\ SyncInterval \in Nat /\ SyncInterval > 1 /\ \A S : <<>> \in Seq(S) /\ Elems(<<>>) = {}
    BY DPAssumption DEF Elems
  <1>1. DPTypeInv
    <2>1. 0 \in 0 .. SyncInterval - 1
      BY <1>0
    <2>2. /\ <<>> \in Seq(Input) /\ <<>> \in Seq(First) /\ <<>> \in Seq(Front) /\ <<>> \in Seq(Out)
          /\ <<>> \in Seq(Start) /\ <<>> \in Seq(Update)
      BY <1>0
    <2>3. /\ toEngine \in [Client -> [Engine -> Seq(Input)]]
          /\ firstReq \in [Client -> Seq(First)] /\ toFront \in [Client -> Seq(Front)]
          /\ output \in [Engine -> Seq(Out)] /\ startWave \in [Engine -> Seq(Start)]
          /\ published \in [Client -> Seq(Update)]
      BY <2>2 DEF Init
    <2>4. /\ pc \in [Engine -> {"input", "forward", "reduce"}] /\ running \in [Engine -> BOOLEAN]
          /\ wave \in [Engine -> Int] /\ step \in [Engine -> 0 .. SyncInterval - 1]
          /\ status \in [Request -> {"unsent", "sent", "unfinished", "done", "aborted"}]
          /\ DOMAIN home = Request
      BY <2>1 DEF Init
    <2>5. /\ clientWave \in [Client -> Int] /\ clientRunning \in [Client -> BOOLEAN]
          /\ polled \in [Client -> SUBSET {"first_req", "update"}]
          /\ \A c \in Client : "first_req" \in polled[c] => firstReq[c] # <<>>
          /\ coWave \in Int /\ coRunning \in BOOLEAN
      <3>0. /\ clientWave = [c \in Client |-> 0] /\ clientRunning = [c \in Client |-> FALSE]
            /\ coWave = 0 /\ coRunning = FALSE
        BY DEF Init
      <3>a. clientWave \in [Client -> Int] /\ coWave \in Int
        BY <3>0, SMT
      <3>b. clientRunning \in [Client -> BOOLEAN] /\ coRunning \in BOOLEAN
        BY <3>0, Zenon
      <3>1. clientWave \in [Client -> Int] /\ clientRunning \in [Client -> BOOLEAN] /\ coWave \in Int /\ coRunning \in BOOLEAN
        BY <3>a, <3>b
      <3>2. polled = [c \in Client |-> {}] /\ {} \in SUBSET {"first_req", "update"}
        BY DEF Init
      <3>3. polled \in [Client -> SUBSET {"first_req", "update"}] /\ \A c \in Client : polled[c] = {}
        BY <3>2
      <3> QED  BY <3>1, <3>3
    <2> QED  BY <2>3, <2>4, <2>5 DEF DPTypeInv
  <1>2. Lockstep
    BY <1>0 DEF Init, Lockstep
  <1>3. WavesBounded
    BY <1>0 DEF Init, WavesBounded
  <1>4. Addressed /\ SparedJoin
    BY <1>0 DEF Init, Addressed, SparedJoin
  <1>5. AllJoin
    BY DEF Init, AllJoin, Active
  <1> QED  BY <1>1, <1>2, <1>3, <1>4, <1>5 DEF DPInv

(* Wave numbers, messages under way and the running states of all parties  *)
(* stay consistent.                                                        *)
THEOREM WaveInvariant == Spec => []DPInv
  <1>1. DPInv /\ [Next]_vars => DPInv'
    <2> SUFFICES ASSUME DPInv, [Next]_vars PROVE DPInv'
      OBVIOUS
    <2> QED  BY AddRequestInv, AbortRequestInv, PollInv, UpdateStatsInv, PublishPeriodicallyInv,
                ReceiveNewRequestInv, ReceiveOutputInv, HandleAddInv, HandleAbortInv,
                HandleStartWaveInv, EnterForwardInv, ForwardInv, AllReduceInv
             DEF Next, StatsTask, Coordinator, EngineCore
  <1> QED  BY <1>1, DPStart, PTL DEF Spec

(* All engines are always in the same wave, and no client and not the      *)
(* coordinator are ahead of them.                                          *)
THEOREM EnginesShareTheWave == Spec => []WavesAgree
  <1>1. DPInv => WavesAgree
    BY DEF DPInv, Lockstep, WavesBounded, WavesAgree
  <1> QED  BY <1>1, WaveInvariant, PTL

(* Whenever an engine runs, or the coordinator takes the present wave for  *)
(* running, every engine has work, is about to be started or has a request *)
(* on the way, unless one of the two recorded races has happened to it.    *)
THEOREM EveryEngineJoins == Spec => []NoEngineLeftBehind
  <1>1. DPInv => NoEngineLeftBehind
    BY DEF DPInv, AllJoin, Active, Covered, NoEngineLeftBehind
  <1> QED  BY <1>1, WaveInvariant, PTL
=============================================================================
