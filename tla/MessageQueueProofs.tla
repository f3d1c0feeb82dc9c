------------------------- MODULE MessageQueueProofs -------------------------
(***************************************************************************)
(* Proofs about MessageQueue for every number of local and remote readers, *)
(* chunks and messages, and every pattern of timeouts and shutdowns: a     *)
(* reader owns the chunk it reads, and the queue implements the broadcast  *)
(* channel.                                                                *)
(*                                                                         *)
(* Indices wrap around and a reader that lost its place has no sequence    *)
(* number left in the state, so the invariant speaks of two quantities the *)
(* state only determines: taken[r], the number of chunks r has read, and   *)
(* big, the messages that were too large for a chunk.                      *)
(***************************************************************************)
EXTENDS MessageQueue, TLAPS

(* The chunk of a message, messages being counted from 0. *)
Slot(k) == k % MaxChunks

(* The writer is between taking a chunk from its readers and publishing it. *)
Filling == wpc \in {"fill", "reset"}

TypeInv ==
    /\ written \in [Chunk -> BOOLEAN]
    /\ readFlag \in [Chunk -> [Local -> BOOLEAN]]
    /\ data \in [Chunk -> Int]
    /\ wpc \in {"idle", "acquire", "fill", "reset", "send", "notify"}
    /\ large \in BOOLEAN /\ toReset \subseteq Local /\ sent \in Nat
    /\ rpc \in [Reader -> {"load", "test", "asleep", "read", "recv", "dead"}]
    /\ \A r \in Remote : rpc[r] = "recv"
    /\ rindex \in [Local -> Chunk] /\ seenRead \in [Local -> BOOLEAN]
    /\ socket \in [Reader -> Seq(Nat)] /\ got \in [Reader -> Seq(Nat)]
    /\ strayed \subseteq Local

(* Published messages the ring still holds, counted from 0. *)
Held(k) == k \in Nat /\ k < sent /\ (IF Filling THEN k > sent - MaxChunks ELSE k >= sent - MaxChunks)

(* Each held message is in its chunk, with the flags of its readers. *)
RingHolds(taken, big) ==
    \A k \in Nat : Held(k) =>
        /\ written[Slot(k)]
        /\ data[Slot(k)] = IF k + 1 \in big THEN Overflow ELSE k + 1
        /\ \A r \in Local : readFlag[Slot(k)][r] <=> taken[r] > k

(* The chunk at the writer's index, while it is being filled. *)
WriterHolds ==
    /\ windex = Slot(sent)
    /\ Filling => ~written[windex]
    /\ wpc = "reset" =>
        /\ data[windex] = IF large THEN Overflow ELSE sent + 1
        /\ \A r \in Local \ toReset : ~readFlag[windex][r]
    /\ \A i \in Chunk : written[i] => sent >= MaxChunks \/ i < sent

(* Where a local reader is.  A read flag loaded as clear belongs to a      *)
(* message the reader has not read, once the written flag is set.          *)
ReaderAt(r, taken) ==
    /\ rindex[r] = Slot(taken[r])
    /\ taken[r] <= sent /\ sent - taken[r] <= MaxChunks
    /\ Filling => sent - taken[r] < MaxChunks
    /\ rpc[r] = "test" /\ ~seenRead[r] /\ written[rindex[r]] => taken[r] < sent
    /\ rpc[r] = "read" => taken[r] < sent

(* The large messages on the way to a local reader that kept its place:    *)
(* those it has not received, in order, the last one only once it is sent. *)
FirstDue(r, taken) == IF rpc[r] = "recv" THEN taken[r] ELSE taken[r] + 1
LastLarge == IF wpc = "send" THEN sent - 1 ELSE sent

LocalSocket(r, taken, big) ==
    /\ \A i \in 1 .. Len(socket[r]) : socket[r][i] \in 1 .. sent
    /\ r \notin strayed =>
        /\ Len(got[r]) = FirstDue(r, taken) - 1
        /\ wpc = "send" => FirstDue(r, taken) <= sent
        /\ rpc[r] = "recv" => taken[r] \in big
        /\ \A i, j \in 1 .. Len(socket[r]) : i < j => socket[r][i] < socket[r][j]
        /\ \A m \in Nat : (\E i \in 1 .. Len(socket[r]) : socket[r][i] = m)
                          <=> m \in big /\ FirstDue(r, taken) <= m /\ m <= LastLarge

LastRemote == IF wpc \in {"send", "notify"} THEN sent - 1 ELSE sent

RemoteSocket(r) ==
    /\ Len(got[r]) + Len(socket[r]) = LastRemote
    /\ \A i \in 1 .. Len(socket[r]) : socket[r][i] = Len(got[r]) + i

BigMessages(big) ==
    /\ big \subseteq 1 .. sent
    /\ wpc = "send" => sent \in big

GhostInv(taken, big) ==
    /\ taken \in [Local -> Nat]
    /\ BigMessages(big)
    /\ RingHolds(taken, big)
    /\ WriterHolds
    /\ wpc \in {"send", "notify"} => sent > 0
    /\ \A r \in Local : ReaderAt(r, taken) /\ LocalSocket(r, taken, big)
    /\ \A r \in Remote : RemoteSocket(r)

QueueInv == TypeInv /\ \E taken \in [Local -> Nat], big \in SUBSET Nat : GhostInv(taken, big)

-----------------------------------------------------------------------------
(* Indices wrap around: the chunks of fewer than MaxChunks consecutive     *)
(* messages are different.                                                 *)
LEMMA SlotFacts ==
    /\ \A k \in Nat : Slot(k) \in Chunk /\ NextIndex(Slot(k)) = Slot(k + 1)
    /\ \A k \in Nat : Slot(k + MaxChunks) = Slot(k)
    /\ \A k \in Nat : k < MaxChunks => Slot(k) = k
    /\ \A j, k \in Nat : j < k /\ k - j < MaxChunks => Slot(j) # Slot(k)
  <1>0. MaxChunks \in Nat /\ MaxChunks > 0
    BY QueueAssumption
  <1>1. ASSUME NEW k \in Nat
        PROVE  \E q \in Nat, x \in 0 .. MaxChunks - 1 : k = MaxChunks * q + x /\ Slot(k) = x
    <2>1. k % MaxChunks \in 0 .. MaxChunks - 1
      BY <1>0, SMT
    <2>2. k \div MaxChunks \in Nat
      BY <1>0, SMT
    <2>3. k % MaxChunks = k - MaxChunks * (k \div MaxChunks)
      BY <1>0, SMT
    <2> DEFINE q == k \div MaxChunks
               x == k % MaxChunks
    <2>4. q \in Nat /\ x \in 0 .. MaxChunks - 1 /\ x = k - MaxChunks * q /\ Slot(k) = x
      BY <2>1, <2>2, <2>3 DEF Slot
    <2> HIDE DEF q, x
    <2>5. MaxChunks * q \in Int
      BY <2>4, <1>0, SMT
    <2>6. k = MaxChunks * q + x
      BY <2>4, <2>5
    <2> QED  BY <2>4, <2>6
  <1>2. ASSUME NEW q \in Nat, NEW x \in 0 .. MaxChunks - 1
        PROVE  (MaxChunks * q + x) % MaxChunks = x
    BY <1>0, SMT
  <1>3. ASSUME NEW k \in Nat
        PROVE  Slot(k) \in Chunk
    BY <1>1 DEF Slot, Chunk
  <1>4. ASSUME NEW k \in Nat
        PROVE  NextIndex(Slot(k)) = Slot(k + 1)
    <2>1. PICK q \in Nat, x \in 0 .. MaxChunks - 1 : k = MaxChunks * q + x /\ Slot(k) = x
      BY <1>1
    <2>2. CASE x + 1 < MaxChunks
      <3>1. x + 1 \in 0 .. MaxChunks - 1 /\ k + 1 = MaxChunks * q + (x + 1) /\ x + 1 = MaxChunks * 0 + (x + 1)
        BY <2>1, <2>2, <1>0, SMT
      <3>2. (k + 1) % MaxChunks = x + 1 /\ (x + 1) % MaxChunks = x + 1
        BY <3>1, <2>1, <1>2
      <3> QED  BY <3>2, <2>1 DEF Slot, NextIndex
    <2>3. CASE x + 1 = MaxChunks
      <3>1. k + 1 = MaxChunks * (q + 1) + 0 /\ x + 1 = MaxChunks * 1 + 0 /\ q + 1 \in Nat /\ 0 \in 0 .. MaxChunks - 1
        BY <2>1, <2>3, <1>0, SMT
      <3>2. (k + 1) % MaxChunks = 0 /\ (x + 1) % MaxChunks = 0
        BY <3>1, <1>2
      <3> QED  BY <3>2, <2>1 DEF Slot, NextIndex
    <2> QED  BY <2>1, <2>2, <2>3, <1>0
  <1>5. ASSUME NEW k \in Nat
        PROVE  Slot(k + MaxChunks) = Slot(k)
    <2>1. PICK q \in Nat, x \in 0 .. MaxChunks - 1 : k = MaxChunks * q + x /\ Slot(k) = x
      BY <1>1
    <2>2. k + MaxChunks = MaxChunks * (q + 1) + x /\ q + 1 \in Nat
      BY <2>1, <1>0, SMT
    <2> QED  BY <2>1, <2>2, <1>2 DEF Slot
  <1>6. ASSUME NEW k \in Nat, k < MaxChunks
        PROVE  Slot(k) = k
    <2>1. k = MaxChunks * 0 + k /\ k \in 0 .. MaxChunks - 1
      BY <1>6, <1>0, SMT
    <2> QED  BY <2>1, <1>2 DEF Slot
  <1>7. ASSUME NEW j \in Nat, NEW k \in Nat, j < k, k - j < MaxChunks, Slot(j) = Slot(k)
        PROVE  FALSE
    <2>a. PICK q \in Nat, x \in 0 .. MaxChunks - 1 : k = MaxChunks * q + x /\ Slot(k) = x
      BY <1>1
    <2>b. PICK p \in Nat, y \in 0 .. MaxChunks - 1 : j = MaxChunks * p + y /\ Slot(j) = y
      BY <1>1
    <2>1. j = MaxChunks * p + x /\ k = MaxChunks * q + x
      BY <2>a, <2>b, <1>7
    <2>2. k - j = MaxChunks * (q - p)
      BY <2>1, <1>0, SMT
    <2>3. CASE q - p <= 0
      <3>1. MaxChunks * (q - p) <= 0
        BY <2>3, <2>1, <1>0, SMT
      <3> QED  BY <3>1, <2>2, <1>7
    <2>4. CASE q - p >= 1
      <3>1. MaxChunks * (q - p) >= MaxChunks
        BY <2>4, <2>1, <1>0, SMT
      <3> QED  BY <3>1, <2>2, <1>7, <1>0
    <2> QED  BY <2>1, <2>3, <2>4
  <1> QED  BY <1>3, <1>4, <1>5, <1>6, <1>7

(* What is on the way to a local reader matters to nobody else. *)
LEMMA LocalSocketKept ==
    ASSUME NEW taken, NEW big, NEW r, LocalSocket(r, taken, big), sent' = sent,
           wpc' = "send" <=> wpc = "send", rpc'[r] = rpc[r], socket'[r] = socket[r],
           got'[r] = got[r], r \in strayed' <=> r \in strayed
    PROVE  LocalSocket(r, taken, big)'
  <1>1. FirstDue(r, taken)' = FirstDue(r, taken) /\ LastLarge' = LastLarge
    BY DEF FirstDue, LastLarge
  <1> QED  BY <1>1 DEF LocalSocket

-----------------------------------------------------------------------------
(* The writer's steps. *)

(* A step that leaves the ring, the messages published and the readers     *)
(* alone, and that is not taken while a chunk is being filled.             *)
LEMMA WriterWaits ==
    ASSUME TypeInv, NEW taken \in [Local -> Nat], NEW big \in SUBSET Nat, GhostInv(taken, big),
           Enqueue \/ WriteTimeout
    PROVE  TypeInv' /\ GhostInv(taken, big)'
  <1>1. TypeInv'
    BY DEF TypeInv, Enqueue, WriteTimeout, ring, readerVars, WriterGoto
  <1>2. /\ UNCHANGED <<ring, windex, sent, readerVars, socket>> /\ wpc \in {"idle", "acquire"}
        /\ wpc' \in {"idle", "acquire"} /\ Filling' = FALSE /\ Filling = FALSE
    BY DEF Enqueue, WriteTimeout, Filling, WriterGoto
  <1>3. BigMessages(big)' /\ RingHolds(taken, big)' /\ WriterHolds'
    BY <1>2 DEF GhostInv, BigMessages, RingHolds, WriterHolds, Held, ring
  <1>4. \A r \in Local : ReaderAt(r, taken)'
    BY <1>2 DEF GhostInv, ReaderAt, ring, readerVars
  <1>5. \A r \in Local : LocalSocket(r, taken, big)'
    BY <1>2, LocalSocketKept DEF GhostInv, readerVars
  <1>6. \A r \in Remote : RemoteSocket(r)'
    BY <1>2 DEF GhostInv, RemoteSocket, LastRemote, readerVars
  <1> QED  BY <1>1, <1>2, <1>3, <1>4, <1>5, <1>6 DEF GhostInv

(* The chunk a writer takes holds nothing, or a message all have read. *)
LEMMA AcquireWriteInv ==
    ASSUME TypeInv, NEW taken \in [Local -> Nat], NEW big \in SUBSET Nat, GhostInv(taken, big),
           AcquireWrite
    PROVE  TypeInv' /\ GhostInv(taken, big)'
  <1>0. /\ MaxChunks \in Nat /\ MaxChunks > 0 /\ sent \in Nat /\ windex = Slot(sent)
        /\ ~Filling /\ Filling' /\ windex \in Chunk
    BY QueueAssumption, SlotFacts DEF TypeInv, GhostInv, WriterHolds, AcquireWrite, Filling, WriterGoto
  <1>1. TypeInv'
    BY <1>0 DEF TypeInv, AcquireWrite, Torn, readerVars, WriterGoto
  <1>2. \A r \in Local : sent - taken[r] < MaxChunks
    <2> SUFFICES ASSUME NEW r \in Local PROVE sent - taken[r] < MaxChunks
      OBVIOUS
    <2>1. CASE sent < MaxChunks
      BY <2>1, <1>0
    <2>2. CASE sent >= MaxChunks
      <3>1. sent - MaxChunks \in Nat /\ Held(sent - MaxChunks)
        BY <2>2, <1>0 DEF Held
      <3>2. Slot(sent - MaxChunks) = windex
        BY <3>1, <1>0, SlotFacts
      <3>3. /\ written[windex]
            /\ readFlag[windex][r] <=> taken[r] > sent - MaxChunks
        BY <3>1, <3>2 DEF GhostInv, RingHolds
      <3>4. readFlag[windex][r]
        BY <3>3 DEF AcquireWrite, Writable, WriterGoto
      <3> QED  BY <3>3, <3>4, <1>0
    <2> QED  BY <2>1, <2>2, <1>0
  <1>3. RingHolds(taken, big)'
    <2> SUFFICES ASSUME NEW k \in Nat, Held(k)'
                 PROVE  /\ written'[Slot(k)]
                        /\ data'[Slot(k)] = IF k + 1 \in big THEN Overflow ELSE k + 1
                        /\ \A r \in Local : readFlag'[Slot(k)][r] <=> taken[r] > k
      BY DEF RingHolds
    <2>1. k < sent /\ k > sent - MaxChunks /\ sent' = sent
      BY <1>0 DEF Held, AcquireWrite, WriterGoto
    <2>2. Slot(k) # windex /\ Held(k)
      BY <2>1, <1>0, SlotFacts DEF Held
    <2>3. UNCHANGED readFlag /\ written'[Slot(k)] = written[Slot(k)] /\ data'[Slot(k)] = data[Slot(k)]
      BY <2>2, SlotFacts DEF AcquireWrite, TypeInv, WriterGoto
    <2> QED  BY <2>2, <2>3 DEF GhostInv, RingHolds
  <1>4. WriterHolds'
    BY <1>0 DEF GhostInv, WriterHolds, AcquireWrite, TypeInv, WriterGoto
  <1>5. \A r \in Local : ReaderAt(r, taken)'
    BY <1>0, <1>2 DEF GhostInv, ReaderAt, AcquireWrite, TypeInv, readerVars, WriterGoto
  <1>6. \A r \in Local : LocalSocket(r, taken, big)'
    BY LocalSocketKept DEF GhostInv, AcquireWrite, readerVars, WriterGoto
  <1>7. \A r \in Remote : RemoteSocket(r)'
    BY DEF GhostInv, RemoteSocket, LastRemote, AcquireWrite, readerVars, WriterGoto
  <1> QED  BY <1>1, <1>3, <1>4, <1>5, <1>6, <1>7 DEF GhostInv, BigMessages, AcquireWrite, WriterGoto

(* Filling the chunk and clearing its read flags touches no held message. *)
LEMMA FillInv ==
    ASSUME TypeInv, NEW taken \in [Local -> Nat], NEW big \in SUBSET Nat, GhostInv(taken, big),
           Fill \/ \E r \in Local : ResetReadFlag(r)
    PROVE  TypeInv' /\ GhostInv(taken, big)'
  <1>0. /\ MaxChunks \in Nat /\ MaxChunks > 0 /\ sent \in Nat /\ windex = Slot(sent)
        /\ Filling /\ Filling' /\ windex \in Chunk
        /\ UNCHANGED <<written, windex, large, sent, readerVars, socket>>
    <2>1. MaxChunks \in Nat /\ MaxChunks > 0 /\ sent \in Nat /\ windex = Slot(sent) /\ windex \in Chunk
      BY QueueAssumption, SlotFacts DEF TypeInv, GhostInv, WriterHolds
    <2>2. Filling /\ Filling' /\ UNCHANGED <<written, windex, large, sent, readerVars, socket>>
      BY DEF Fill, ResetReadFlag, Filling, WriterGoto
    <2> QED  BY <2>1, <2>2
  <1>1. /\ \A i \in Chunk \ {windex} : data'[i] = data[i] /\ readFlag'[i] = readFlag[i]
        /\ wpc \in {"fill", "reset"} /\ wpc' = "reset"
    BY <1>0 DEF Fill, ResetReadFlag, TypeInv, WriterGoto
  <1>2. TypeInv'
    <2>1. CASE Fill
      BY <2>1, <1>0 DEF TypeInv, Fill, Overflow, readerVars, WriterGoto
    <2>2. ASSUME NEW r \in Local, ResetReadFlag(r)
          PROVE  TypeInv'
      BY <2>2, <1>0 DEF TypeInv, ResetReadFlag, readerVars, WriterGoto
    <2> QED  BY <2>1, <2>2
  <1>3. RingHolds(taken, big)'
    <2> SUFFICES ASSUME NEW k \in Nat, Held(k)'
                 PROVE  /\ written'[Slot(k)]
                        /\ data'[Slot(k)] = IF k + 1 \in big THEN Overflow ELSE k + 1
                        /\ \A r \in Local : readFlag'[Slot(k)][r] <=> taken[r] > k
      BY DEF RingHolds
    <2>1. Held(k) /\ k < sent /\ sent - k < MaxChunks
      BY <1>0 DEF Held
    <2>2. Slot(k) \in Chunk \ {windex}
      BY <2>1, <1>0, SlotFacts
    <2> QED  BY <1>0, <1>1, <2>1, <2>2 DEF GhostInv, RingHolds
  <1>4. WriterHolds'
    <2>1. CASE Fill
      BY <2>1, <1>0 DEF GhostInv, WriterHolds, Fill, TypeInv, WriterGoto
    <2>2. ASSUME NEW r \in Local, ResetReadFlag(r)
          PROVE  WriterHolds'
      BY <2>2, <1>0 DEF GhostInv, WriterHolds, ResetReadFlag, TypeInv, WriterGoto
    <2> QED  BY <2>1, <2>2
  <1>5. \A r \in Local : ReaderAt(r, taken)'
    BY <1>0 DEF GhostInv, ReaderAt, readerVars
  <1>6. \A r \in Local : LocalSocket(r, taken, big)'
    BY <1>0, <1>1, LocalSocketKept DEF GhostInv, readerVars
  <1>7. \A r \in Remote : RemoteSocket(r)'
    BY <1>0, <1>1 DEF GhostInv, RemoteSocket, LastRemote, readerVars
  <1> QED  BY <1>0, <1>1, <1>2, <1>3, <1>4, <1>5, <1>6, <1>7 DEF GhostInv, BigMessages

(* Publishing: the message enters the ring, and if it is large its socket  *)
(* still has to get it.                                                    *)
LEMMA PublishChunkInv ==
    ASSUME TypeInv, NEW taken \in [Local -> Nat], NEW big \in SUBSET Nat, GhostInv(taken, big),
           PublishChunk, NEW big2 \in SUBSET Nat, big2 = IF large THEN big \cup {sent + 1} ELSE big
    PROVE  TypeInv' /\ GhostInv(taken, big2)'
  <1>0. /\ MaxChunks \in Nat /\ MaxChunks > 0 /\ sent \in Nat /\ windex = Slot(sent)
        /\ windex \in Chunk /\ windex' = Slot(sent + 1)
    BY QueueAssumption, SlotFacts DEF TypeInv, GhostInv, WriterHolds, PublishChunk, WriterGoto
  <1>a. /\ UNCHANGED <<readFlag, data, readerVars, socket>> /\ sent' = sent + 1 /\ sent + 1 \in Nat
        /\ Filling /\ ~Filling' /\ wpc = "reset" /\ wpc' = IF large THEN "send" ELSE "notify"
    BY <1>0 DEF PublishChunk, Filling, WriterGoto
  <1>b. big \subseteq 1 .. sent /\ large \in BOOLEAN
    BY DEF GhostInv, BigMessages, TypeInv
  <1>1. TypeInv'
    BY <1>0, <1>a DEF TypeInv, PublishChunk, readerVars, WriterGoto
  <1>2. \A k \in Nat : Held(k)' =>
            /\ written'[Slot(k)]
            /\ data'[Slot(k)] = IF k + 1 \in big2 THEN Overflow ELSE k + 1
            /\ \A r \in Local : readFlag'[Slot(k)][r] <=> taken[r] > k
    <2> SUFFICES ASSUME NEW k \in Nat, Held(k)'
                 PROVE  /\ written'[Slot(k)]
                        /\ data'[Slot(k)] = IF k + 1 \in big2 THEN Overflow ELSE k + 1
                        /\ \A r \in Local : readFlag'[Slot(k)][r] <=> taken[r] > k
      OBVIOUS
    <2>1. CASE k = sent
      <3>1. written'[Slot(k)]
        BY <2>1, <1>0 DEF PublishChunk, TypeInv, WriterGoto
      <3>2. data'[Slot(k)] = IF large THEN Overflow ELSE sent + 1
        BY <2>1, <1>0, <1>a DEF GhostInv, WriterHolds
      <3>3. \A r \in Local : ~readFlag'[Slot(k)][r]
        BY <2>1, <1>0, <1>a DEF GhostInv, WriterHolds, PublishChunk, Published, WriterGoto
      <3>4. \A r \in Local : taken[r] <= sent /\ taken[r] \in Nat
        BY DEF GhostInv, ReaderAt
      <3>5. k + 1 \in big2 <=> large
        BY <2>1, <1>0, <1>b
      <3>6. \A r \in Local : readFlag'[Slot(k)][r] <=> taken[r] > k
        BY <3>3, <3>4, <2>1, <1>0
      <3> QED  BY <3>1, <3>2, <3>5, <3>6, <2>1
    <2>2. CASE k # sent
      <3>1. k < sent /\ k > sent - MaxChunks /\ Held(k)
        BY <2>2, <1>0, <1>a DEF Held
      <3>2. Slot(k) # windex /\ Slot(k) \in Chunk
        BY <3>1, <1>0, SlotFacts
      <3>3. written'[Slot(k)] = written[Slot(k)]
        BY <3>2 DEF PublishChunk, TypeInv, WriterGoto
      <3>4. k + 1 \in big2 <=> k + 1 \in big
        BY <3>1, <1>0
      <3> QED  BY <3>1, <3>3, <3>4, <1>a DEF GhostInv, RingHolds
    <2> QED  BY <2>1, <2>2
  <1>3. WriterHolds'
    <2> SUFFICES ASSUME NEW i \in Chunk, written'[i]
                 PROVE  sent' >= MaxChunks \/ i < sent'
      BY <1>0, <1>a DEF WriterHolds
    <2>1. CASE i = windex
      BY <2>1, <1>0, <1>a, SlotFacts
    <2>2. CASE i # windex
      BY <2>2, <1>0, <1>a DEF GhostInv, WriterHolds, PublishChunk, TypeInv, Chunk, WriterGoto
    <2> QED  BY <2>1, <2>2
  <1>4. ASSUME NEW r \in Local
        PROVE  ReaderAt(r, taken)'
    <2>1. taken[r] \in Nat /\ rindex[r] \in Chunk
      BY DEF TypeInv
    <2> QED  BY <2>1, <1>0, <1>a DEF GhostInv, ReaderAt, readerVars
  <1>5. ASSUME NEW r \in Local
        PROVE  /\ \A i \in 1 .. Len(socket'[r]) : socket'[r][i] \in 1 .. sent'
               /\ r \notin strayed' =>
                    /\ Len(got'[r]) = FirstDue(r, taken)' - 1
                    /\ wpc' = "send" => FirstDue(r, taken)' <= sent'
                    /\ rpc'[r] = "recv" => taken[r] \in big2
                    /\ \A i, j \in 1 .. Len(socket'[r]) : i < j => socket'[r][i] < socket'[r][j]
                    /\ \A m \in Nat : (\E i \in 1 .. Len(socket'[r]) : socket'[r][i] = m)
                                      <=> m \in big2 /\ FirstDue(r, taken)' <= m /\ m <= LastLarge'
    <2>1. LocalSocket(r, taken, big)
      BY DEF GhostInv
    <2>2. /\ UNCHANGED <<socket, got, rpc, strayed>> /\ FirstDue(r, taken)' = FirstDue(r, taken)
          /\ FirstDue(r, taken) \in Nat /\ FirstDue(r, taken) <= sent + 1
      <3>1. taken[r] \in Nat /\ taken[r] <= sent
        BY DEF GhostInv, ReaderAt
      <3> QED  BY <3>1, <1>a, <1>0 DEF FirstDue, readerVars
    <2>3. LastLarge = sent /\ LastLarge' = IF large THEN sent ELSE sent + 1
      BY <1>a, <1>0 DEF LastLarge
    <2>4. \A m \in Nat : m \in big /\ m <= LastLarge <=> m \in big2 /\ m <= LastLarge'
      BY <2>3, <1>b, <1>0
    <2>5. big \subseteq big2
      OBVIOUS
    <2>6. \A i \in 1 .. Len(socket'[r]) : socket'[r][i] \in 1 .. sent'
      BY <2>1, <2>2, <1>0, <1>a DEF LocalSocket
    <2> QED  BY <2>1, <2>2, <2>4, <2>5, <2>6, <1>a DEF LocalSocket
  <1>6. \A r \in Remote : RemoteSocket(r)'
    <2>1. LastRemote' = LastRemote
      BY <1>0, <1>a DEF LastRemote
    <2> QED  BY <2>1, <1>a DEF GhostInv, RemoteSocket, readerVars
  <1>7. big2 \subseteq 1 .. sent' /\ (wpc' = "send" => sent' \in big2) /\ big2 \in SUBSET Nat
    BY <1>0, <1>a, <1>b
  <1> QED  BY <1>0, <1>a, <1>1, <1>2, <1>3, <1>4, <1>5, <1>6, <1>7
           DEF GhostInv, BigMessages, RingHolds, LocalSocket

(* A large message joins the sockets of the local readers as the last. *)
LEMMA SendLargeInv ==
    ASSUME TypeInv, NEW taken \in [Local -> Nat], NEW big \in SUBSET Nat, GhostInv(taken, big),
           SendLarge
    PROVE  TypeInv' /\ GhostInv(taken, big)'
  <1>0. /\ sent \in Nat /\ wpc = "send" /\ wpc' = "notify" /\ ~Filling /\ ~Filling'
        /\ UNCHANGED <<ring, windex, sent, readerVars>> /\ sent \in big /\ big \subseteq 1 .. sent
    BY DEF TypeInv, SendLarge, Filling, GhostInv, BigMessages, WriterGoto
  <1>1. TypeInv'
    BY <1>0 DEF TypeInv, SendLarge, ring, readerVars, WriterGoto
  <1>2. BigMessages(big)' /\ RingHolds(taken, big)' /\ WriterHolds'
    BY <1>0 DEF GhostInv, BigMessages, RingHolds, WriterHolds, Held, ring
  <1>3. \A r \in Local : ReaderAt(r, taken)'
    BY <1>0 DEF GhostInv, ReaderAt, ring, readerVars
  <1>4. ASSUME NEW r \in Local
        PROVE  LocalSocket(r, taken, big)'
    <2>1. /\ LocalSocket(r, taken, big) /\ socket[r] \in Seq(Nat) /\ taken[r] \in Nat
          /\ taken[r] <= sent
      BY DEF GhostInv, TypeInv, Reader, ReaderAt
    <2>2. socket'[r] = Append(socket[r], sent)
      BY DEF SendLarge, Reader, WriterGoto
    <2>3. /\ UNCHANGED <<got, rpc, strayed, sent>> /\ FirstDue(r, taken)' = FirstDue(r, taken)
          /\ FirstDue(r, taken) \in Nat
      BY <2>1, <1>0 DEF FirstDue, readerVars
    <2>4. LastLarge = sent - 1 /\ LastLarge' = sent
      BY <1>0 DEF LastLarge
    <2>5. /\ Len(socket'[r]) = Len(socket[r]) + 1 /\ Len(socket[r]) \in Nat
          /\ \A i \in 1 .. Len(socket[r]) : socket'[r][i] = socket[r][i] /\ socket[r][i] \in Nat
          /\ socket'[r][Len(socket[r]) + 1] = sent
      BY <2>1, <2>2, <1>0
    <2>6. \A i \in 1 .. Len(socket'[r]) : socket'[r][i] \in 1 .. sent'
      <3> SUFFICES ASSUME NEW i \in 1 .. Len(socket[r]) + 1
                   PROVE  socket'[r][i] \in 1 .. sent
        BY <2>3, <2>5
      <3>1. CASE i = Len(socket[r]) + 1
        BY <3>1, <2>5, <1>0
      <3>2. CASE i \in 1 .. Len(socket[r])
        BY <3>2, <2>1, <2>5 DEF LocalSocket
      <3> QED  BY <3>1, <3>2, <2>5
    <2>7. ASSUME r \notin strayed
          PROVE  /\ Len(got'[r]) = FirstDue(r, taken)' - 1
                 /\ rpc'[r] = "recv" => taken[r] \in big
      BY <2>7, <2>1, <2>3 DEF LocalSocket
    <2>8. ASSUME r \notin strayed, NEW i \in 1 .. Len(socket'[r]), NEW j \in 1 .. Len(socket'[r]), i < j
          PROVE  socket'[r][i] < socket'[r][j]
      <3>1. i \in 1 .. Len(socket[r])
        BY <2>8, <2>5
      <3>2. socket[r][i] <= sent - 1
        BY <3>1, <2>8, <2>1, <2>4, <2>5 DEF LocalSocket
      <3>3. CASE j = Len(socket[r]) + 1
        BY <3>1, <3>2, <3>3, <2>5, <1>0
      <3>4. CASE j \in 1 .. Len(socket[r])
        BY <3>1, <3>4, <2>8, <2>1, <2>5 DEF LocalSocket
      <3> QED  BY <3>3, <3>4, <2>5
    <2>9. ASSUME r \notin strayed, NEW m \in Nat
          PROVE  (\E i \in 1 .. Len(socket'[r]) : socket'[r][i] = m)
                 <=> m \in big /\ FirstDue(r, taken)' <= m /\ m <= LastLarge'
      <3>1. (\E i \in 1 .. Len(socket'[r]) : socket'[r][i] = m)
            <=> (\E i \in 1 .. Len(socket[r]) : socket[r][i] = m) \/ m = sent
        <4>1. ASSUME NEW i \in 1 .. Len(socket'[r]), socket'[r][i] = m
              PROVE  (\E k \in 1 .. Len(socket[r]) : socket[r][k] = m) \/ m = sent
          <5>1. CASE i = Len(socket[r]) + 1
            BY <5>1, <4>1, <2>5
          <5>2. CASE i \in 1 .. Len(socket[r])
            BY <5>2, <4>1, <2>5
          <5> QED  BY <5>1, <5>2, <2>5
        <4>2. \A i \in 1 .. Len(socket[r]) : i \in 1 .. Len(socket'[r])
          BY <2>5
        <4>3. Len(socket[r]) + 1 \in 1 .. Len(socket'[r])
          BY <2>5
        <4> QED  BY <4>1, <4>2, <4>3, <2>5
      <3>2. CASE m = sent
        <4>1. FirstDue(r, taken) <= sent
          BY <2>1, <2>9, <1>0 DEF LocalSocket
        <4> QED  BY <3>1, <3>2, <4>1, <2>3, <2>4, <1>0
      <3>3. CASE m # sent
        BY <3>1, <3>3, <2>1, <2>3, <2>4, <2>9, <1>0 DEF LocalSocket
      <3> QED  BY <3>2, <3>3
    <2> QED  BY <2>3, <2>6, <2>7, <2>8, <2>9, <1>0 DEF LocalSocket
  <1>5. \A r \in Remote : RemoteSocket(r)'
    <2>1. \A r \in Remote : socket'[r] = socket[r]
      BY QueueAssumption DEF SendLarge, Reader, WriterGoto
    <2> QED  BY <1>0, <2>1 DEF GhostInv, RemoteSocket, LastRemote, readerVars
  <1> QED  BY <1>0, <1>1, <1>2, <1>3, <1>4, <1>5 DEF GhostInv

(* Every message reaches the sockets of the remote readers, in order. *)
LEMMA NotifyInv ==
    ASSUME TypeInv, NEW taken \in [Local -> Nat], NEW big \in SUBSET Nat, GhostInv(taken, big),
           Notify
    PROVE  TypeInv' /\ GhostInv(taken, big)'
  <1>0. /\ sent \in Nat /\ wpc = "notify" /\ wpc' = "idle" /\ ~Filling /\ ~Filling' /\ sent > 0
        /\ UNCHANGED <<ring, windex, sent, readerVars>>
    BY DEF TypeInv, Notify, Filling, GhostInv, WriterGoto
  <1>1. TypeInv'
    <2>1. socket' \in [Reader -> Seq(Nat)]
      BY <1>0 DEF TypeInv, Notify, WriterGoto
    <2> QED  BY <1>0, <2>1 DEF TypeInv, Notify, ring, readerVars, WriterGoto
  <1>2. BigMessages(big)' /\ RingHolds(taken, big)' /\ WriterHolds'
    BY <1>0 DEF GhostInv, BigMessages, RingHolds, WriterHolds, Held, ring
  <1>3. \A r \in Local : ReaderAt(r, taken)'
    BY <1>0 DEF GhostInv, ReaderAt, ring, readerVars
  <1>4. \A r \in Local : LocalSocket(r, taken, big)'
    <2>1. \A r \in Local : socket'[r] = socket[r]
      BY QueueAssumption DEF Notify, Reader, WriterGoto
    <2> QED  BY <2>1, <1>0, LocalSocketKept DEF GhostInv, readerVars
  <1>5. ASSUME NEW r \in Remote
        PROVE  RemoteSocket(r)'
    <2>1. socket[r] \in Seq(Nat) /\ got[r] \in Seq(Nat) /\ RemoteSocket(r) /\ got'[r] = got[r]
      BY <1>0 DEF GhostInv, TypeInv, Reader, readerVars
    <2>2. socket'[r] = Append(socket[r], sent)
      BY DEF Notify, Reader, WriterGoto
    <2>3. LastRemote = sent - 1 /\ LastRemote' = sent
      BY <1>0 DEF LastRemote
    <2>4. /\ Len(socket'[r]) = Len(socket[r]) + 1 /\ Len(socket[r]) \in Nat /\ Len(got[r]) \in Nat
          /\ \A i \in 1 .. Len(socket[r]) : socket'[r][i] = socket[r][i]
          /\ socket'[r][Len(socket[r]) + 1] = sent
      BY <2>1, <2>2, <1>0
    <2>6. Len(got[r]) + Len(socket[r]) = sent - 1
      BY <2>1, <2>3 DEF RemoteSocket
    <2>7. Len(got[r]) + (Len(socket[r]) + 1) = sent
      <3> DEFINE a == Len(got[r])
                 b == Len(socket[r])
      <3>1. a \in Nat /\ b \in Nat /\ sent \in Nat /\ a + b = sent - 1
        BY <2>4, <2>6, <1>0
      <3> HIDE DEF a, b
      <3>2. a + (b + 1) = sent
        BY ONLY <3>1
      <3> QED  BY <3>2 DEF a, b
    <2>5. ASSUME NEW i \in 1 .. Len(socket[r]) + 1
          PROVE  socket'[r][i] = Len(got[r]) + i
      <3>1. CASE i = Len(socket[r]) + 1
        BY <3>1, <2>4, <2>7
      <3>2. CASE i \in 1 .. Len(socket[r])
        BY <3>2, <2>1, <2>4 DEF RemoteSocket
      <3> QED  BY <3>1, <3>2, <2>4
    <2> QED  BY <2>1, <2>3, <2>4, <2>5, <2>7 DEF RemoteSocket
  <1> QED  BY <1>0, <1>1, <1>2, <1>3, <1>4, <1>5 DEF GhostInv

-----------------------------------------------------------------------------
(* The readers' steps. *)

(* A local reader that moves between loading, testing, sleeping and        *)
(* reading without touching its chunk, provided it only goes where         *)
(* ReaderAt lets it.                                                       *)
LEMMA ReaderMoves ==
    ASSUME TypeInv, NEW taken \in [Local -> Nat], NEW big \in SUBSET Nat, GhostInv(taken, big),
           NEW r \in Local, NEW to \in {"load", "test", "asleep", "read", "dead"},
           rpc[r] # "recv", rpc' = [rpc EXCEPT ![r] = to],
           UNCHANGED <<ring, writerVars, rindex, got, strayed, socket>>,
           seenRead' \in [Local -> BOOLEAN], \A q \in Local \ {r} : seenRead'[q] = seenRead[q],
           to = "test" /\ ~seenRead'[r] /\ written[rindex[r]] => taken[r] < sent,
           to = "read" => taken[r] < sent
    PROVE  TypeInv' /\ GhostInv(taken, big)'
  <1>1. TypeInv'
    <2>1. r \in Reader /\ r \notin Remote
      BY QueueAssumption DEF Reader
    <2> QED  BY <2>1 DEF TypeInv, ring, writerVars, Reader
  <1>2. Filling' = Filling /\ UNCHANGED <<written, readFlag, data, wpc, windex, large, toReset, sent>>
    BY DEF Filling, ring, writerVars
  <1>3. BigMessages(big)' /\ RingHolds(taken, big)' /\ WriterHolds'
    BY <1>2 DEF GhostInv, BigMessages, RingHolds, WriterHolds, Held
  <1>4. rpc'[r] = to /\ \A q \in Reader \ {r} : rpc'[q] = rpc[q]
    BY DEF TypeInv, Reader
  <1>5. \A q \in Local : ReaderAt(q, taken)'
    BY <1>2, <1>4 DEF GhostInv, ReaderAt, Reader
  <1>6. \A q \in Local : FirstDue(q, taken)' = FirstDue(q, taken) /\ (rpc'[q] = "recv" => rpc[q] = "recv")
    BY <1>4 DEF FirstDue, Reader
  <1>7. LastLarge' = LastLarge /\ LastRemote' = LastRemote
    BY <1>2 DEF LastLarge, LastRemote
  <1>8. \A q \in Local : LocalSocket(q, taken, big)'
    <2> SUFFICES ASSUME NEW q \in Local PROVE LocalSocket(q, taken, big)'
      OBVIOUS
    <2>1. LocalSocket(q, taken, big)
      BY DEF GhostInv
    <2>2. /\ socket' = socket /\ got' = got /\ strayed' = strayed /\ wpc' = wpc /\ sent' = sent
          /\ FirstDue(q, taken)' = FirstDue(q, taken) /\ LastLarge' = LastLarge
          /\ rpc'[q] = "recv" => rpc[q] = "recv"
      BY <1>2, <1>6, <1>7
    <2> QED  BY <2>1, <2>2 DEF LocalSocket
  <1>9. \A q \in Remote : RemoteSocket(q)'
    BY <1>2, <1>7 DEF GhostInv, RemoteSocket
  <1> QED  BY <1>1, <1>2, <1>3, <1>5, <1>8, <1>9 DEF GhostInv

(* Loading the flag, testing it, waiting and waking up. *)
LEMMA ReaderWaits ==
    ASSUME TypeInv, NEW taken \in [Local -> Nat], NEW big \in SUBSET Nat, GhostInv(taken, big),
           NEW r \in Local,
           LoadReadFlag(r) \/ BeginRead(r) \/ Spin(r) \/ Sleep(r) \/ ReadTimeout(r) \/ WakeUp(r)
    PROVE  TypeInv' /\ GhostInv(taken, big)'
  <1>0. /\ MaxChunks \in Nat /\ MaxChunks > 0 /\ sent \in Nat /\ taken[r] \in Nat
        /\ rindex[r] = Slot(taken[r]) /\ taken[r] <= sent /\ seenRead \in [Local -> BOOLEAN]
        /\ rindex[r] \in Chunk /\ readFlag \in [Chunk -> [Local -> BOOLEAN]]
    BY QueueAssumption DEF TypeInv, GhostInv, ReaderAt
  <1>1. CASE LoadReadFlag(r)
    <2>1. /\ seenRead' = [seenRead EXCEPT ![r] = readFlag[rindex[r]][r]]
          /\ rpc[r] # "recv" /\ rpc' = [rpc EXCEPT ![r] = "test"]
          /\ UNCHANGED <<ring, writerVars, rindex, got, strayed, socket>>
      BY <1>1 DEF LoadReadFlag, Goto
    <2>2. /\ seenRead' \in [Local -> BOOLEAN] /\ \A q \in Local \ {r} : seenRead'[q] = seenRead[q]
          /\ seenRead'[r] = readFlag[rindex[r]][r]
      BY <2>1, <1>0
    <2>3. ASSUME ~seenRead'[r], written[rindex[r]], taken[r] = sent
          PROVE  FALSE
      <3>1. windex = rindex[r] /\ ~Filling
        BY <2>3, <1>0 DEF GhostInv, WriterHolds
      <3>2. sent >= MaxChunks
        <4>1. sent >= MaxChunks \/ rindex[r] < sent
          BY <2>3, <1>0 DEF GhostInv, WriterHolds
        <4> QED  BY <4>1, <1>0, <2>3, SlotFacts
      <3>3. sent - MaxChunks \in Nat /\ Held(sent - MaxChunks)
        BY <3>1, <3>2, <1>0 DEF Held
      <3>4. Slot(sent - MaxChunks) = rindex[r]
        BY <3>3, <1>0, <2>3, SlotFacts
      <3>5. readFlag[rindex[r]][r] <=> taken[r] > sent - MaxChunks
        BY <3>3, <3>4 DEF GhostInv, RingHolds
      <3> QED  BY <3>5, <2>2, <2>3, <1>0
    <2>4. ~seenRead'[r] /\ written[rindex[r]] => taken[r] < sent
      BY <2>3, <1>0
    <2> HIDE DEF GhostInv
    <2> QED  BY <2>1, <2>2, <2>4, ReaderMoves
  <1>2. CASE BeginRead(r)
    <2>1. /\ rpc[r] # "recv" /\ rpc' = [rpc EXCEPT ![r] = "read"]
          /\ UNCHANGED <<ring, writerVars, rindex, got, strayed, socket>>
          /\ seenRead' = [seenRead EXCEPT ![r] = FALSE]
      BY <1>2 DEF BeginRead, Goto
    <2>2. seenRead' \in [Local -> BOOLEAN] /\ \A q \in Local \ {r} : seenRead'[q] = seenRead[q]
      BY <2>1, <1>0
    <2>3. taken[r] < sent
      BY <1>2 DEF BeginRead, Goto, Readable, GhostInv, ReaderAt
    <2> QED  BY <2>1, <2>2, <2>3, ReaderMoves
  <1>3. ASSUME NEW to \in {"load", "asleep", "dead"}, NothingToRead(r, to)
        PROVE  TypeInv' /\ GhostInv(taken, big)'
    <2>1. /\ rpc[r] # "recv" /\ rpc' = [rpc EXCEPT ![r] = to]
          /\ UNCHANGED <<ring, writerVars, rindex, got, strayed, socket>>
          /\ seenRead' = [seenRead EXCEPT ![r] = FALSE]
      BY <1>3 DEF NothingToRead, Goto
    <2>2. seenRead' \in [Local -> BOOLEAN] /\ \A q \in Local \ {r} : seenRead'[q] = seenRead[q]
      BY <2>1, <1>0
    <2> QED  BY <2>1, <2>2, ReaderMoves
  <1>4. CASE Spin(r) \/ Sleep(r) \/ ReadTimeout(r)
    <2>1. AfterWait(r) \in {"load", "asleep", "dead"} /\ Start(r) = "load"
      BY DEF AfterWait, Start
    <2> QED  BY <2>1, <1>3, <1>4 DEF Spin, Sleep, ReadTimeout
  <1>5. CASE WakeUp(r)
    <2>1. /\ rpc[r] # "recv" /\ rpc' = [rpc EXCEPT ![r] = AfterWait(r)]
          /\ UNCHANGED <<ring, writerVars, rindex, got, strayed, socket, seenRead>>
          /\ AfterWait(r) \in {"load", "dead"}
      BY <1>5 DEF WakeUp, Goto, AfterWait
    <2> QED  BY <2>1, <1>0, ReaderMoves
  <1> QED  BY <1>1, <1>2, <1>4, <1>5

(* What a reader finds in its chunk: the message after those it has taken, *)
(* in a chunk nobody else is about to change.                              *)
LEMMA ReadChunk ==
    ASSUME TypeInv, NEW taken \in [Local -> Nat], NEW big \in SUBSET Nat, GhostInv(taken, big),
           NEW r \in Local, rpc[r] = "read"
    PROVE  /\ Held(taken[r]) /\ rindex[r] = Slot(taken[r]) /\ rindex[r] \in Chunk
           /\ written[rindex[r]]
           /\ data[rindex[r]] = IF taken[r] + 1 \in big THEN Overflow ELSE taken[r] + 1
           /\ taken[r] < sent
           /\ r \notin strayed => Len(got[r]) = taken[r]
  <1>1. taken[r] \in Nat /\ sent \in Nat /\ MaxChunks \in Nat
    BY QueueAssumption DEF TypeInv
  <1>2. /\ rindex[r] = Slot(taken[r]) /\ taken[r] < sent /\ sent - taken[r] <= MaxChunks
        /\ Filling => sent - taken[r] < MaxChunks
    BY DEF GhostInv, ReaderAt
  <1>3. Held(taken[r])
    BY <1>1, <1>2 DEF Held
  <1>4. r \notin strayed => Len(got[r]) = taken[r]
    BY <1>1 DEF GhostInv, LocalSocket, FirstDue
  <1>5. /\ written[Slot(taken[r])]
        /\ data[Slot(taken[r])] = IF taken[r] + 1 \in big THEN Overflow ELSE taken[r] + 1
    BY <1>1, <1>3 DEF GhostInv, RingHolds
  <1>6. Slot(taken[r]) \in Chunk
    BY <1>1, SlotFacts
  <1> QED  BY <1>2, <1>3, <1>4, <1>5, <1>6

(* Setting the read flag hands the chunk back for this reader. *)
LEMMA EndReadInv ==
    ASSUME TypeInv, NEW taken \in [Local -> Nat], NEW big \in SUBSET Nat, GhostInv(taken, big),
           NEW r \in Local, EndRead(r),
           NEW taken2 \in [Local -> Nat], taken2 = [taken EXCEPT ![r] = @ + 1]
    PROVE  TypeInv' /\ GhostInv(taken2, big)'
  <1>0. /\ MaxChunks \in Nat /\ MaxChunks > 0 /\ sent \in Nat /\ taken[r] \in Nat
        /\ rpc[r] = "read" /\ r \in Reader /\ r \notin Remote
        /\ UNCHANGED <<written, data, wpc, windex, large, toReset, sent, strayed, socket, seenRead>>
        /\ readFlag' = [readFlag EXCEPT ![rindex[r]][r] = TRUE]
        /\ rindex' = [rindex EXCEPT ![r] = NextIndex(@)]
    <2>1. MaxChunks \in Nat /\ MaxChunks > 0 /\ sent \in Nat /\ taken[r] \in Nat /\ r \in Reader /\ r \notin Remote
      BY QueueAssumption DEF TypeInv, Reader
    <2> QED  BY <2>1 DEF EndRead, Goto, writerVars
  <1>1. /\ Held(taken[r]) /\ rindex[r] = Slot(taken[r]) /\ rindex[r] \in Chunk
        /\ written[rindex[r]]
        /\ data[rindex[r]] = IF taken[r] + 1 \in big THEN Overflow ELSE taken[r] + 1
        /\ taken[r] < sent
        /\ r \notin strayed => Len(got[r]) = taken[r]
    BY <1>0, ReadChunk
  <1>2. /\ taken2[r] = taken[r] + 1 /\ \A q \in Local \ {r} : taken2[q] = taken[q]
        /\ rindex'[r] = Slot(taken2[r]) /\ rindex' \in [Local -> Chunk]
        /\ \A q \in Local \ {r} : rindex'[q] = rindex[q]
    <2>1. NextIndex(rindex[r]) = Slot(taken[r] + 1) /\ Slot(taken[r] + 1) \in Chunk
      BY <1>0, <1>1, SlotFacts
    <2> QED  BY <1>0, <2>1 DEF TypeInv
  <1>3. \/ /\ taken[r] + 1 \in big /\ rpc' = [rpc EXCEPT ![r] = "recv"] /\ got' = got
        \/ /\ taken[r] + 1 \notin big /\ rpc' = [rpc EXCEPT ![r] = "load"]
           /\ got' = [got EXCEPT ![r] = Append(@, taken[r] + 1)]
    <2>1. taken[r] + 1 # Overflow
      BY <1>0 DEF Overflow
    <2> QED  BY <1>1, <2>1 DEF EndRead, Goto, Deliver, Start
  <1>4. Filling' = Filling /\ \A k \in Nat : Held(k)' <=> Held(k)
    BY <1>0 DEF Filling, Held
  <1>5. TypeInv'
    <2>1. rpc' \in [Reader -> {"load", "test", "asleep", "read", "recv", "dead"}]
          /\ \A q \in Remote : rpc'[q] = "recv"
      BY <1>0, <1>3 DEF TypeInv, Reader
    <2>2. got' \in [Reader -> Seq(Nat)]
      <3>1. got \in [Reader -> Seq(Nat)] /\ taken[r] + 1 \in Nat
        BY <1>0 DEF TypeInv
      <3>2. Append(got[r], taken[r] + 1) \in Seq(Nat)
        BY <3>1, <1>0
      <3> QED  BY <3>1, <3>2, <1>3
    <2>3. readFlag' \in [Chunk -> [Local -> BOOLEAN]]
      BY <1>0 DEF TypeInv
    <2> QED  BY <2>1, <2>2, <2>3, <1>0, <1>2 DEF TypeInv
  <1>6. RingHolds(taken2, big)'
    <2> SUFFICES ASSUME NEW k \in Nat, Held(k)
                 PROVE  /\ written[Slot(k)]
                        /\ data[Slot(k)] = IF k + 1 \in big THEN Overflow ELSE k + 1
                        /\ \A q \in Local : readFlag'[Slot(k)][q] <=> taken2[q] > k
      BY <1>0, <1>4 DEF RingHolds
    <2>1. /\ written[Slot(k)]
          /\ data[Slot(k)] = IF k + 1 \in big THEN Overflow ELSE k + 1
          /\ \A q \in Local : readFlag[Slot(k)][q] <=> taken[q] > k
      BY DEF GhostInv, RingHolds
    <2>2. Slot(k) \in Chunk
      BY SlotFacts
    <2>3. CASE k = taken[r]
      BY <2>1, <2>2, <2>3, <1>0, <1>1, <1>2 DEF TypeInv
    <2>4. CASE k # taken[r]
      <3>1. Slot(k) # rindex[r]
        <4>1. (k < taken[r] /\ taken[r] - k < MaxChunks) \/ (taken[r] < k /\ k - taken[r] < MaxChunks)
          BY <2>4, <1>0, <1>1 DEF Held
        <4> QED  BY <4>1, <1>0, <1>1, SlotFacts, SMTT(30)
      <3>2. readFlag'[Slot(k)] = readFlag[Slot(k)]
        BY <3>1, <2>2, <1>0 DEF TypeInv
      <3>3. \A q \in Local : taken2[q] > k <=> taken[q] > k
        BY <2>4, <1>0, <1>2
      <3> QED  BY <2>1, <3>2, <3>3
    <2> QED  BY <2>3, <2>4
  <1>7. WriterHolds'
    <2>1. Filling => rindex[r] # windex
      <3>1. ASSUME Filling PROVE rindex[r] # windex
        <4>1. sent - taken[r] < MaxChunks /\ windex = Slot(sent)
          BY <3>1 DEF GhostInv, ReaderAt, WriterHolds
        <4> QED  BY <4>1, <1>0, <1>1, SlotFacts
      <3> QED  BY <3>1
    <2>2. wpc = "reset" => readFlag'[windex] = readFlag[windex]
      <3>1. windex \in Chunk
        BY <1>0, SlotFacts DEF GhostInv, WriterHolds
      <3> QED  BY <3>1, <2>1, <1>0 DEF TypeInv, Filling
    <2> QED  BY <2>2, <1>0, <1>4 DEF GhostInv, WriterHolds
  <1>8. rpc'[r] \in {"load", "recv"} /\ \A q \in Reader \ {r} : rpc'[q] = rpc[q] /\ got'[q] = got[q]
    BY <1>0, <1>3 DEF TypeInv
  <1>9. ASSUME NEW q \in Local PROVE ReaderAt(q, taken2)'
    <2>1. CASE q = r
      <3>1. sent - taken[r] <= MaxChunks /\ (Filling => sent - taken[r] < MaxChunks)
        BY DEF GhostInv, ReaderAt
      <3> QED  BY <3>1, <2>1, <1>0, <1>1, <1>2, <1>4, <1>8 DEF ReaderAt
    <2>2. CASE q # r
      BY <2>2, <1>0, <1>2, <1>4, <1>8 DEF GhostInv, ReaderAt, Reader
    <2> QED  BY <2>1, <2>2
  <1>10. LastLarge' = LastLarge /\ LastRemote' = LastRemote
    BY <1>0 DEF LastLarge, LastRemote
  <1>11. ASSUME NEW q \in Local PROVE LocalSocket(q, taken2, big)'
    <2>1. LocalSocket(q, taken, big)
      BY DEF GhostInv
    <2>2. CASE q # r
      <3>1. FirstDue(q, taken2)' = FirstDue(q, taken) /\ rpc'[q] = rpc[q] /\ got'[q] = got[q]
            /\ taken2[q] = taken[q]
        BY <2>2, <1>2, <1>8 DEF FirstDue, Reader
      <3> QED  BY <3>1, <2>1, <1>0, <1>10 DEF LocalSocket
    <2>3. CASE q = r
      <3>0. FirstDue(r, taken) = taken[r] + 1 /\ wpc' = wpc /\ sent' = sent /\ strayed' = strayed /\ socket' = socket
            /\ sent \in Nat /\ taken[r] \in Nat
        BY <1>0 DEF FirstDue
      <3>1. CASE taken[r] + 1 \in big
        <4>1. rpc'[r] = "recv" /\ got' = got
          BY <1>0, <1>3, <3>1 DEF TypeInv
        <4>2. FirstDue(r, taken2)' = FirstDue(r, taken)
          BY <4>1, <1>2, <3>0 DEF FirstDue
        <4>3. rpc'[r] = "recv" => taken2[r] \in big
          BY <3>1, <1>2
        <4>4. LocalSocket(r, taken, big)
          BY <2>1, <2>3
        <4>5. LocalSocket(r, taken2, big)'
          BY <4>1, <4>2, <4>3, <4>4, <3>0, <1>10 DEF LocalSocket
        <4> QED  BY <4>5, <2>3
      <3>2. CASE taken[r] + 1 \notin big
        <4>1. rpc'[r] = "load" /\ got'[r] = Append(got[r], taken[r] + 1) /\ got[r] \in Seq(Nat)
          BY <1>0, <1>3, <3>2 DEF TypeInv
        <4>2. FirstDue(r, taken2)' = taken[r] + 2
          BY <4>1, <1>2, <3>0 DEF FirstDue
        <4>3. Len(got'[r]) = Len(got[r]) + 1
          BY <4>1, <3>0
        <4>4. r \notin strayed => Len(got'[r]) = taken[r] + 1
          BY <4>3, <1>1
        <4>5. ASSUME r \notin strayed, wpc = "send" PROVE taken[r] + 2 <= sent
          <5>1. taken[r] + 1 <= sent
            BY <4>5, <2>1, <2>3, <3>0 DEF LocalSocket
          <5>2. taken[r] + 1 # sent
            BY <4>5, <3>2 DEF GhostInv, BigMessages
          <5> QED  BY <5>1, <5>2, <3>0
        <4>6. \A m \in Nat : m \in big /\ taken[r] + 1 <= m <=> m \in big /\ taken[r] + 2 <= m
          BY <3>2, <3>0
        <4>7. \A i \in 1 .. Len(socket'[r]) : socket'[r][i] \in 1 .. sent'
          BY <2>1, <2>3, <3>0 DEF LocalSocket
        <4>8. ASSUME r \notin strayed
              PROVE  /\ \A i, j \in 1 .. Len(socket[r]) : i < j => socket[r][i] < socket[r][j]
                     /\ \A m \in Nat : (\E i \in 1 .. Len(socket[r]) : socket[r][i] = m)
                                       <=> m \in big /\ taken[r] + 2 <= m /\ m <= LastLarge
          BY <4>8, <4>6, <2>1, <2>3, <3>0 DEF LocalSocket
        <4>9. taken[r] + 1 = FirstDue(r, taken2)' - 1
          BY <4>2, <3>0
        <4> QED  BY <4>1, <4>2, <4>4, <4>5, <4>7, <4>8, <4>9, <3>0, <2>3, <1>10 DEF LocalSocket
      <3> QED  BY <3>1, <3>2
    <2> QED  BY <2>2, <2>3
  <1>12. \A q \in Remote : RemoteSocket(q)'
    <2>1. \A q \in Remote : got'[q] = got[q]
      BY <1>0, <1>8 DEF Reader
    <2> QED  BY <2>1, <1>0, <1>10 DEF GhostInv, RemoteSocket
  <1> QED  BY <1>0, <1>5, <1>6, <1>7, <1>9, <1>11, <1>12 DEF GhostInv, BigMessages

(* The first message in the socket of a local reader that kept its place   *)
(* is the one its last chunk announced.                                    *)
LEMMA RecvIsDue ==
    ASSUME TypeInv, NEW taken \in [Local -> Nat], NEW big \in SUBSET Nat, GhostInv(taken, big),
           NEW r \in Local, rpc[r] = "recv", socket[r] # <<>>
    PROVE  /\ Head(socket[r]) \in 1 .. sent
           /\ r \notin strayed => /\ Head(socket[r]) = taken[r] /\ Len(got[r]) = taken[r] - 1
                                  /\ taken[r] <= LastLarge
  <1>1. /\ socket[r] \in Seq(Nat) /\ LocalSocket(r, taken, big) /\ taken[r] \in Nat /\ sent \in Nat
        /\ FirstDue(r, taken) = taken[r]
    BY DEF GhostInv, TypeInv, Reader, FirstDue
  <1>2. Len(socket[r]) \in Nat /\ Len(socket[r]) >= 1 /\ Head(socket[r]) = socket[r][1]
        /\ \A i \in 1 .. Len(socket[r]) : socket[r][i] \in Nat
    BY <1>1
  <1>3. 1 \in 1 .. Len(socket[r])
    BY <1>2
  <1>4. Head(socket[r]) \in 1 .. sent
    BY <1>1, <1>2, <1>3 DEF LocalSocket
  <1>5. ASSUME r \notin strayed
        PROVE  Head(socket[r]) = taken[r] /\ Len(got[r]) = taken[r] - 1 /\ taken[r] <= LastLarge
    <2>1. /\ Len(got[r]) = taken[r] - 1 /\ taken[r] \in big
          /\ \A i, j \in 1 .. Len(socket[r]) : i < j => socket[r][i] < socket[r][j]
          /\ \A m \in Nat : (\E i \in 1 .. Len(socket[r]) : socket[r][i] = m)
                            <=> m \in big /\ taken[r] <= m /\ m <= LastLarge
      BY <1>1, <1>5 DEF LocalSocket
    <2>2. LastLarge \in Int
      BY <1>1 DEF LastLarge
    <2>3. taken[r] <= socket[r][1] /\ socket[r][1] <= LastLarge
      BY <2>1, <1>2, <1>3
    <2>4. taken[r] <= LastLarge
      BY <2>2, <2>3, <1>1, <1>2, <1>3
    <2>5. PICK i \in 1 .. Len(socket[r]) : socket[r][i] = taken[r]
      BY <2>1, <2>4, <1>1
    <2>6. socket[r][1] <= taken[r]
      <3>1. CASE i = 1
        BY <3>1, <2>5, <1>1
      <3>2. CASE 1 < i
        BY <3>2, <2>5, <2>1, <1>1, <1>2, <1>3
      <3> QED  BY <3>1, <3>2
    <2> QED  BY <2>1, <2>3, <2>4, <2>6, <1>1, <1>2, <1>3
  <1> QED  BY <1>4, <1>5

(* A local reader receives the second half of a large message. *)
LEMMA RecvLocalInv ==
    ASSUME TypeInv, NEW taken \in [Local -> Nat], NEW big \in SUBSET Nat, GhostInv(taken, big),
           NEW r \in Local, Recv(r)
    PROVE  TypeInv' /\ GhostInv(taken, big)'
  <1>0. /\ sent \in Nat /\ taken[r] \in Nat /\ r \in Reader /\ r \notin Remote
        /\ socket[r] # <<>> /\ rpc[r] = "recv" /\ rpc' = [rpc EXCEPT ![r] = "load"]
        /\ got' = [got EXCEPT ![r] = Append(@, Head(socket[r]))]
        /\ socket' = [socket EXCEPT ![r] = Tail(@)]
        /\ UNCHANGED <<written, readFlag, data, wpc, windex, large, toReset, sent, rindex, seenRead, strayed>>
    <2>1. sent \in Nat /\ taken[r] \in Nat /\ r \in Reader /\ r \notin Remote
      BY QueueAssumption DEF TypeInv, Reader
    <2> QED  BY <2>1 DEF Recv, Goto, Start, Deliver, ring, writerVars
  <1>1. /\ Head(socket[r]) \in 1 .. sent
        /\ r \notin strayed => /\ Head(socket[r]) = taken[r] /\ Len(got[r]) = taken[r] - 1
                               /\ taken[r] <= LastLarge
    BY <1>0, RecvIsDue
  <1>2. /\ socket[r] \in Seq(Nat) /\ got[r] \in Seq(Nat) /\ got \in [Reader -> Seq(Nat)]
        /\ socket \in [Reader -> Seq(Nat)] /\ rpc \in [Reader -> {"load", "test", "asleep", "read", "recv", "dead"}]
    BY <1>0 DEF TypeInv
  <1>3. /\ rpc'[r] = "load" /\ socket'[r] = Tail(socket[r]) /\ got'[r] = Append(got[r], Head(socket[r]))
        /\ \A q \in Reader \ {r} : rpc'[q] = rpc[q] /\ got'[q] = got[q] /\ socket'[q] = socket[q]
    BY <1>0, <1>2
  <1>4. /\ Len(socket[r]) \in Nat /\ Len(socket[r]) >= 1 /\ Len(Tail(socket[r])) = Len(socket[r]) - 1
        /\ Head(socket[r]) = socket[r][1] /\ Tail(socket[r]) \in Seq(Nat)
        /\ \A i \in 1 .. Len(socket[r]) - 1 : Tail(socket[r])[i] = socket[r][i + 1]
        /\ Len(Append(got[r], Head(socket[r]))) = Len(got[r]) + 1
        /\ Append(got[r], Head(socket[r])) \in Seq(Nat)
    BY <1>0, <1>1, <1>2
  <1>a. /\ Len(socket'[r]) = Len(socket[r]) - 1 /\ sent' = sent
        /\ \A i \in 1 .. Len(socket'[r]) :
            /\ i + 1 \in 1 .. Len(socket[r]) /\ socket'[r][i] = socket[r][i + 1] /\ i \in Int
    <2>1. Len(socket'[r]) = Len(socket[r]) - 1
      BY <1>3, <1>4
    <2> SUFFICES ASSUME NEW i \in 1 .. Len(socket[r]) - 1
                 PROVE  i + 1 \in 1 .. Len(socket[r]) /\ socket'[r][i] = socket[r][i + 1] /\ i \in Int
      BY <2>1, <1>0
    <2>2. i + 1 \in 1 .. Len(socket[r]) /\ i \in Int
      BY <1>4
    <2> QED  BY <2>2, <1>3, <1>4
  <1>5. TypeInv'
    <2>1. /\ got' \in [Reader -> Seq(Nat)] /\ socket' \in [Reader -> Seq(Nat)]
          /\ rpc' \in [Reader -> {"load", "test", "asleep", "read", "recv", "dead"}]
      BY <1>0, <1>2, <1>4
    <2>2. \A q \in Remote : rpc'[q] = "recv"
      BY <1>0, <1>3 DEF TypeInv, Reader
    <2> QED  BY <1>0, <2>1, <2>2 DEF TypeInv
  <1>6. /\ Filling' = Filling /\ LastLarge' = LastLarge /\ LastRemote' = LastRemote
        /\ BigMessages(big)' /\ RingHolds(taken, big)' /\ WriterHolds'
    BY <1>0 DEF GhostInv, BigMessages, RingHolds, WriterHolds, Held, Filling, LastLarge, LastRemote
  <1>7. \A q \in Local : ReaderAt(q, taken)'
    BY <1>0, <1>3, <1>6 DEF GhostInv, ReaderAt, Reader
  <1>8. ASSUME NEW q \in Local PROVE LocalSocket(q, taken, big)'
    <2>1. LocalSocket(q, taken, big)
      BY DEF GhostInv
    <2>2. CASE q # r
      <3>1. FirstDue(q, taken)' = FirstDue(q, taken) /\ rpc'[q] = rpc[q] /\ got'[q] = got[q]
            /\ socket'[q] = socket[q]
        BY <2>2, <1>3 DEF FirstDue, Reader
      <3> QED  BY <3>1, <2>1, <1>0, <1>6 DEF LocalSocket
    <2>3. CASE q = r
      <3>0. FirstDue(r, taken) = taken[r] /\ FirstDue(r, taken)' = taken[r] + 1 /\ LocalSocket(r, taken, big)
        BY <1>0, <1>3, <2>1, <2>3 DEF FirstDue
      <3>1. \A i \in 1 .. Len(socket'[r]) : socket'[r][i] \in 1 .. sent'
        BY <3>0, <1>a DEF LocalSocket
      <3>2. ASSUME r \notin strayed
            PROVE  /\ Len(got'[r]) = FirstDue(r, taken)' - 1
                   /\ wpc' = "send" => FirstDue(r, taken)' <= sent'
                   /\ \A i, j \in 1 .. Len(socket'[r]) : i < j => socket'[r][i] < socket'[r][j]
                   /\ \A m \in Nat : (\E i \in 1 .. Len(socket'[r]) : socket'[r][i] = m)
                                     <=> m \in big /\ FirstDue(r, taken)' <= m /\ m <= LastLarge'
        <4>1. /\ \A i, j \in 1 .. Len(socket[r]) : i < j => socket[r][i] < socket[r][j]
              /\ \A m \in Nat : (\E i \in 1 .. Len(socket[r]) : socket[r][i] = m)
                                <=> m \in big /\ taken[r] <= m /\ m <= LastLarge
          BY <3>0, <3>2 DEF LocalSocket
        <4>2. socket[r][1] = taken[r] /\ Len(got[r]) = taken[r] - 1 /\ taken[r] <= LastLarge
          BY <3>2, <1>1, <1>4
        <4>3. Len(got'[r]) = FirstDue(r, taken)' - 1
          BY <4>2, <3>0, <1>0, <1>3, <1>4
        <4>4. wpc' = "send" => FirstDue(r, taken)' <= sent'
          BY <4>2, <3>0, <1>0 DEF LastLarge
        <4>5. ASSUME NEW i \in 1 .. Len(socket'[r]), NEW j \in 1 .. Len(socket'[r]), i < j
              PROVE  socket'[r][i] < socket'[r][j]
          <5>1. /\ i + 1 \in 1 .. Len(socket[r]) /\ j + 1 \in 1 .. Len(socket[r])
                /\ socket'[r][i] = socket[r][i + 1] /\ socket'[r][j] = socket[r][j + 1]
                /\ i \in Int /\ j \in Int
            BY <1>a
          <5>2. i + 1 < j + 1
            BY ONLY <5>1, <4>5
          <5> QED  BY <5>1, <5>2, <4>1
        <4>6. ASSUME NEW m \in Nat
              PROVE  (\E i \in 1 .. Len(socket'[r]) : socket'[r][i] = m)
                     <=> m \in big /\ taken[r] + 1 <= m /\ m <= LastLarge
          <5>1. ASSUME NEW i \in 1 .. Len(socket'[r]), socket'[r][i] = m
                PROVE  m \in big /\ taken[r] + 1 <= m /\ m <= LastLarge
            <6>1. i + 1 \in 1 .. Len(socket[r]) /\ socket[r][i + 1] = m /\ 1 \in 1 .. Len(socket[r]) /\ 1 < i + 1
              BY <5>1, <1>3, <1>4
            <6>2. socket[r][1] < m
              BY <6>1, <4>1
            <6> QED  BY <6>1, <6>2, <4>1, <4>2, <1>0
          <5>2. ASSUME m \in big, taken[r] + 1 <= m, m <= LastLarge
                PROVE  \E i \in 1 .. Len(socket'[r]) : socket'[r][i] = m
            <6>1. taken[r] <= m /\ m # taken[r]
              BY <5>2, <1>0
            <6>2. PICK k \in 1 .. Len(socket[r]) : socket[r][k] = m
              BY <6>1, <5>2, <4>1
            <6>3. k # 1
              BY <6>1, <6>2, <4>2
            <6>4. k - 1 \in 1 .. Len(socket[r]) - 1 /\ (k - 1) + 1 = k
              BY <6>3, <1>4
            <6>5. socket'[r][k - 1] = m /\ k - 1 \in 1 .. Len(socket'[r])
              BY <6>2, <6>4, <1>3, <1>4
            <6> QED  BY <6>5
          <5> QED  BY <5>1, <5>2
        <4> QED  BY <4>3, <4>4, <4>5, <4>6, <3>0, <1>6
      <3>3. LocalSocket(r, taken, big)'
        BY <3>1, <3>2, <1>0, <1>3 DEF LocalSocket
      <3> QED  BY <3>3, <2>3
    <2> QED  BY <2>2, <2>3
  <1>9. \A q \in Remote : RemoteSocket(q)'
    <2>1. \A q \in Remote : got'[q] = got[q] /\ socket'[q] = socket[q]
      BY <1>0, <1>3 DEF Reader
    <2> QED  BY <2>1, <1>6 DEF GhostInv, RemoteSocket
  <1> QED  BY <1>0, <1>5, <1>6, <1>7, <1>8, <1>9 DEF GhostInv

(* A remote reader receives the next message. *)
LEMMA RecvRemoteInv ==
    ASSUME TypeInv, NEW taken \in [Local -> Nat], NEW big \in SUBSET Nat, GhostInv(taken, big),
           NEW r \in Remote, Recv(r)
    PROVE  /\ TypeInv' /\ GhostInv(taken, big)'
           /\ Head(socket[r]) \in 1 .. sent /\ Head(socket[r]) = Len(got[r]) + 1
  <1>0. /\ sent \in Nat /\ r \in Reader /\ r \notin Local
        /\ socket[r] # <<>> /\ rpc[r] = "recv" /\ rpc' = [rpc EXCEPT ![r] = "recv"]
        /\ got' = [got EXCEPT ![r] = Append(@, Head(socket[r]))]
        /\ socket' = [socket EXCEPT ![r] = Tail(@)]
        /\ UNCHANGED <<written, readFlag, data, wpc, windex, large, toReset, sent, rindex, seenRead, strayed>>
    <2>1. sent \in Nat /\ r \in Reader /\ r \notin Local
      BY QueueAssumption DEF TypeInv, Reader
    <2> QED  BY <2>1 DEF Recv, Goto, Start, Deliver, ring, writerVars
  <1>1. /\ socket[r] \in Seq(Nat) /\ got[r] \in Seq(Nat) /\ got \in [Reader -> Seq(Nat)]
        /\ socket \in [Reader -> Seq(Nat)] /\ rpc \in [Reader -> {"load", "test", "asleep", "read", "recv", "dead"}]
    BY <1>0 DEF TypeInv
  <1>2. /\ rpc' = rpc /\ socket'[r] = Tail(socket[r]) /\ got'[r] = Append(got[r], Head(socket[r]))
        /\ \A q \in Reader \ {r} : got'[q] = got[q] /\ socket'[q] = socket[q]
    BY <1>0, <1>1
  <1>3. /\ Len(socket[r]) \in Nat /\ Len(socket[r]) >= 1 /\ Len(socket'[r]) = Len(socket[r]) - 1
        /\ Head(socket[r]) = socket[r][1] /\ Tail(socket[r]) \in Seq(Nat) /\ Head(socket[r]) \in Nat
        /\ \A i \in 1 .. Len(socket[r]) - 1 : socket'[r][i] = socket[r][i + 1]
        /\ Len(got'[r]) = Len(got[r]) + 1 /\ Len(got[r]) \in Nat
        /\ Append(got[r], Head(socket[r])) \in Seq(Nat)
    BY <1>0, <1>1, <1>2
  <1>4. /\ Len(got[r]) + Len(socket[r]) = LastRemote /\ LastRemote <= sent /\ LastRemote \in Int
        /\ \A i \in 1 .. Len(socket[r]) : socket[r][i] = Len(got[r]) + i
    <2>1. LastRemote <= sent /\ LastRemote \in Int
      BY <1>0 DEF LastRemote
    <2> QED  BY <2>1 DEF GhostInv, RemoteSocket
  <1>5. Head(socket[r]) = Len(got[r]) + 1
    <2>1. 1 \in 1 .. Len(socket[r])
      BY <1>3
    <2> QED  BY <2>1, <1>3, <1>4
  <1>6. Head(socket[r]) \in 1 .. sent
    <2> DEFINE a == Len(got[r])
               b == Len(socket[r])
    <2>1. a \in Nat /\ b \in Nat /\ b >= 1 /\ a + b <= sent /\ sent \in Nat
      BY <1>0, <1>3, <1>4
    <2> HIDE DEF a, b
    <2>2. a + 1 \in 1 .. sent
      BY ONLY <2>1
    <2> QED  BY <2>2, <1>5 DEF a
  <1>7. TypeInv'
    <2>1. got' \in [Reader -> Seq(Nat)] /\ socket' \in [Reader -> Seq(Nat)]
      BY <1>0, <1>1, <1>3
    <2> QED  BY <1>0, <1>2, <2>1 DEF TypeInv
  <1>8. /\ Filling' = Filling /\ LastLarge' = LastLarge /\ LastRemote' = LastRemote
        /\ BigMessages(big)' /\ RingHolds(taken, big)' /\ WriterHolds'
    BY <1>0 DEF GhostInv, BigMessages, RingHolds, WriterHolds, Held, Filling, LastLarge, LastRemote
  <1>9. \A q \in Local : ReaderAt(q, taken)'
    BY <1>0, <1>2, <1>8 DEF GhostInv, ReaderAt
  <1>10. ASSUME NEW q \in Local PROVE LocalSocket(q, taken, big)'
    <2>1. LocalSocket(q, taken, big) /\ q \in Reader \ {r}
      BY <1>0 DEF GhostInv, Reader
    <2>2. FirstDue(q, taken)' = FirstDue(q, taken) /\ got'[q] = got[q] /\ socket'[q] = socket[q]
      BY <2>1, <1>2 DEF FirstDue
    <2> QED  BY <2>1, <2>2, <1>0, <1>2, <1>8 DEF LocalSocket
  <1>11. ASSUME NEW q \in Remote PROVE RemoteSocket(q)'
    <2>1. CASE q # r
      <3>1. q \in Reader \ {r} /\ RemoteSocket(q)
        BY <2>1 DEF Reader, GhostInv
      <3> QED  BY <3>1, <1>2, <1>8 DEF RemoteSocket
    <2>2. CASE q = r
      <3> DEFINE a == Len(got[r])
                 b == Len(socket[r])
      <3>1. /\ a \in Nat /\ b \in Nat /\ LastRemote \in Int /\ a + b = LastRemote
            /\ Len(got'[r]) = a + 1 /\ Len(socket'[r]) = b - 1
            /\ \A i \in 1 .. b : socket[r][i] = a + i
            /\ \A i \in 1 .. b - 1 : socket'[r][i] = socket[r][i + 1]
        BY <1>3, <1>4
      <3> HIDE DEF a, b
      <3>2. (a + 1) + (b - 1) = LastRemote
        BY ONLY <3>1
      <3>3. ASSUME NEW i \in 1 .. b - 1 PROVE socket'[r][i] = (a + 1) + i
        <4>1. i \in Int /\ i + 1 \in 1 .. b
          BY ONLY <3>1, i \in 1 .. b - 1
        <4>2. socket'[r][i] = a + (i + 1)
          BY <4>1, <3>1
        <4>3. a + (i + 1) = (a + 1) + i
          BY ONLY <4>1, <3>1
        <4> QED  BY <4>2, <4>3
      <3>4. RemoteSocket(r)'
        BY <3>1, <3>2, <3>3, <1>8 DEF RemoteSocket
      <3> QED  BY <3>4, <2>2
    <2> QED  BY <2>1, <2>2
  <1> QED  BY <1>0, <1>5, <1>6, <1>7, <1>8, <1>9, <1>10, <1>11 DEF GhostInv

(* A reader that gives up on a large message loses its place. *)
LEMMA RecvTimeoutInv ==
    ASSUME TypeInv, NEW taken \in [Local -> Nat], NEW big \in SUBSET Nat, GhostInv(taken, big),
           NEW r \in Local, RecvTimeout(r)
    PROVE  TypeInv' /\ GhostInv(taken, big)'
  <1>0. /\ r \in Reader /\ r \notin Remote /\ rpc[r] = "recv" /\ rpc' = [rpc EXCEPT ![r] = "load"]
        /\ strayed' = strayed \cup {r}
        /\ UNCHANGED <<written, readFlag, data, wpc, windex, large, toReset, sent, rindex, seenRead, got, socket>>
    <2>1. r \in Reader /\ r \notin Remote
      BY QueueAssumption DEF Reader
    <2> QED  BY <2>1 DEF RecvTimeout, Goto, Start, ring, writerVars
  <1>1. rpc'[r] = "load" /\ \A q \in Reader \ {r} : rpc'[q] = rpc[q]
    BY <1>0 DEF TypeInv
  <1>2. TypeInv'
    <2>1. rpc' \in [Reader -> {"load", "test", "asleep", "read", "recv", "dead"}]
          /\ \A q \in Remote : rpc'[q] = "recv"
      BY <1>0, <1>1 DEF TypeInv, Reader
    <2> QED  BY <2>1, <1>0 DEF TypeInv
  <1>3. /\ Filling' = Filling /\ LastLarge' = LastLarge /\ LastRemote' = LastRemote
        /\ BigMessages(big)' /\ RingHolds(taken, big)' /\ WriterHolds'
    BY <1>0 DEF GhostInv, BigMessages, RingHolds, WriterHolds, Held, Filling, LastLarge, LastRemote
  <1>4. \A q \in Local : ReaderAt(q, taken)'
    BY <1>0, <1>1, <1>3 DEF GhostInv, ReaderAt, Reader
  <1>5. ASSUME NEW q \in Local PROVE LocalSocket(q, taken, big)'
    <2>1. LocalSocket(q, taken, big)
      BY DEF GhostInv
    <2>2. CASE q = r
      BY <2>1, <2>2, <1>0 DEF LocalSocket
    <2>3. CASE q # r
      <3>1. FirstDue(q, taken)' = FirstDue(q, taken) /\ rpc'[q] = rpc[q] /\ (q \in strayed' <=> q \in strayed)
        BY <2>3, <1>0, <1>1 DEF FirstDue, Reader
      <3> QED  BY <3>1, <2>1, <1>0, <1>3 DEF LocalSocket
    <2> QED  BY <2>2, <2>3
  <1>6. \A q \in Remote : RemoteSocket(q)'
    BY <1>0, <1>3 DEF GhostInv, RemoteSocket
  <1> QED  BY <1>0, <1>2, <1>3, <1>4, <1>5, <1>6 DEF GhostInv

(* A reader that is shut down and a writer that exits change nothing the   *)
(* invariant speaks of: what the writer leaves behind is a state it could  *)
(* also have paused in.                                                    *)
LEMMA EndsInv ==
    ASSUME TypeInv, NEW taken \in [Local -> Nat], NEW big \in SUBSET Nat, GhostInv(taken, big),
           UNCHANGED <<ring, wpc, windex, large, toReset, sent, rpc, rindex, seenRead, got, strayed, socket>>
    PROVE  TypeInv' /\ GhostInv(taken, big)'
  <1>0. UNCHANGED <<written, readFlag, data, wpc, windex, large, toReset, sent,
                    rpc, rindex, seenRead, got, strayed, socket>>
    BY DEF ring
  <1>1. TypeInv'
    BY <1>0 DEF TypeInv
  <1>2. /\ Filling' = Filling /\ LastLarge' = LastLarge /\ LastRemote' = LastRemote
        /\ BigMessages(big)' /\ RingHolds(taken, big)' /\ WriterHolds'
    BY <1>0 DEF GhostInv, BigMessages, RingHolds, WriterHolds, Held, Filling, LastLarge, LastRemote
  <1>3. \A q \in Local : ReaderAt(q, taken)'
    BY <1>0, <1>2 DEF GhostInv, ReaderAt
  <1>4. ASSUME NEW q \in Local PROVE LocalSocket(q, taken, big)'
    <2>1. LocalSocket(q, taken, big) /\ FirstDue(q, taken)' = FirstDue(q, taken)
      BY <1>0 DEF GhostInv, FirstDue
    <2> QED  BY <2>1, <1>0, <1>2 DEF LocalSocket
  <1>5. \A q \in Remote : RemoteSocket(q)'
    BY <1>0, <1>2 DEF GhostInv, RemoteSocket
  <1> QED  BY <1>0, <1>1, <1>2, <1>3, <1>4, <1>5 DEF GhostInv

-----------------------------------------------------------------------------
(* Initially the ring is empty and nobody has taken anything. *)
LEMMA QueueInit == Init => QueueInv
  <1> SUFFICES ASSUME Init PROVE QueueInv
    OBVIOUS
  <1> DEFINE taken == [r \in Local |-> 0]
  <1>0. /\ MaxChunks \in Nat /\ MaxChunks > 0 /\ Local \cap Remote = {} /\ 0 \in Chunk
        /\ taken \in [Local -> Nat] /\ {} \in SUBSET Nat /\ Slot(0) = 0 /\ ~Filling
        /\ \A r \in Local : taken[r] = 0
    BY QueueAssumption, SlotFacts DEF Chunk, Init, Filling
  <1>1. TypeInv
    <2>1. \A r \in Remote : Start(r) = "recv"
      BY <1>0 DEF Start
    <2>2. <<>> \in Seq(Nat)
      OBVIOUS
    <2>3. /\ rpc \in [Reader -> {"load", "test", "asleep", "read", "recv", "dead"}]
          /\ \A r \in Remote : rpc[r] = "recv"
      BY <2>1 DEF Init, Start, Reader
    <2>4. /\ written \in [Chunk -> BOOLEAN] /\ readFlag \in [Chunk -> [Local -> BOOLEAN]]
          /\ data \in [Chunk -> Int] /\ rindex \in [Local -> Chunk] /\ seenRead \in [Local -> BOOLEAN]
      BY <1>0 DEF Init, Torn
    <2>5. socket \in [Reader -> Seq(Nat)] /\ got \in [Reader -> Seq(Nat)]
      BY <2>2 DEF Init
    <2> QED  BY <2>3, <2>4, <2>5 DEF Init, TypeInv
  <1> HIDE DEF taken
  <1>2. GhostInv(taken, {})
    <2>1. sent = 0 /\ wpc = "idle" /\ windex = 0 /\ strayed = {}
      BY DEF Init
    <2>2. \A r \in Reader : Len(got[r]) = 0 /\ Len(socket[r]) = 0
      BY DEF Init
    <2>3. RingHolds(taken, {}) /\ BigMessages({}) /\ WriterHolds
      BY <1>0, <2>1 DEF RingHolds, BigMessages, WriterHolds, Held, Init
    <2>4. ASSUME NEW r \in Local PROVE ReaderAt(r, taken) /\ LocalSocket(r, taken, {})
      <3>1. r \in Reader /\ rpc[r] = "load" /\ rindex[r] = 0 /\ taken[r] = 0
        BY <1>0 DEF Init, Reader, Start
      <3>2. ~written[0]
        BY <1>0 DEF Init
      <3>3. ReaderAt(r, taken)
        BY <3>1, <3>2, <1>0, <2>1 DEF ReaderAt
      <3>4. FirstDue(r, taken) = 1
        BY <3>1 DEF FirstDue
      <3>5. LocalSocket(r, taken, {})
        BY <3>1, <3>4, <2>1, <2>2 DEF LocalSocket
      <3> QED  BY <3>3, <3>5
    <2>5. ASSUME NEW r \in Remote PROVE RemoteSocket(r)
      <3>1. r \in Reader /\ LastRemote = 0
        BY <2>1 DEF Reader, LastRemote
      <3>2. Len(got[r]) = 0 /\ Len(socket[r]) = 0 /\ 0 + 0 = 0 /\ 1 .. 0 = {}
        BY <3>1, <2>2
      <3> QED  BY <3>1, <3>2 DEF RemoteSocket
    <2> QED  BY <1>0, <2>1, <2>3, <2>4, <2>5 DEF GhostInv
  <1> QED  BY <1>0, <1>1, <1>2 DEF QueueInv

(* The invariant is inductive.  The step also maps to the channel: what a  *)
(* publication, a read or a receive does is what the channel's actions     *)
(* allow, in every state of the invariant.                                 *)
LEMMA QueueStep ==
    ASSUME QueueInv, [Next]_vars
    PROVE  QueueInv' /\ [Channel!ChanNext]_<<sent, got, strayed>>
  <1>0. PICK taken \in [Local -> Nat], big \in SUBSET Nat : GhostInv(taken, big)
    BY DEF QueueInv
  <1>1. TypeInv
    BY DEF QueueInv
  <1>a. /\ MaxChunks \in Nat /\ sent \in Nat /\ big \subseteq 1 .. sent /\ strayed \subseteq Local
        /\ Local \cap Remote = {} /\ Reader = Local \cup Remote
        /\ got \in [Reader -> Seq(Nat)]
    BY <1>0, <1>1, QueueAssumption DEF TypeInv, GhostInv, BigMessages, Reader
  <1>2. ASSUME TypeInv', GhostInv(taken, big)' PROVE QueueInv'
    BY <1>2 DEF QueueInv
  <1>3. CASE Enqueue \/ WriteTimeout
    <2>1. UNCHANGED <<sent, got, strayed>>
      BY <1>3 DEF Enqueue, WriteTimeout, readerVars, WriterGoto
    <2> QED  BY <1>0, <1>1, <1>2, <1>3, <2>1, WriterWaits
  <1>4. CASE AcquireWrite
    <2>1. UNCHANGED <<sent, got, strayed>>
      BY <1>4 DEF AcquireWrite, readerVars, WriterGoto
    <2> QED  BY <1>0, <1>1, <1>2, <1>4, <2>1, AcquireWriteInv
  <1>5. CASE Fill \/ \E r \in Local : ResetReadFlag(r)
    <2>1. UNCHANGED <<sent, got, strayed>>
      BY <1>5 DEF Fill, ResetReadFlag, readerVars, WriterGoto
    <2> QED  BY <1>0, <1>1, <1>2, <1>5, <2>1, FillInv
  <1>6. CASE PublishChunk
    <2>0. (IF large THEN big \cup {sent + 1} ELSE big) \in SUBSET Nat
      BY <1>a
    <2>1. PICK big2 \in SUBSET Nat : big2 = IF large THEN big \cup {sent + 1} ELSE big
      BY <2>0
    <2>2. TypeInv' /\ GhostInv(taken, big2)'
      BY <1>0, <1>1, <1>6, <2>1, PublishChunkInv
    <2>3. QueueInv'
      BY <2>1, <2>2 DEF QueueInv
    <2>4. ASSUME NEW r \in Local \ strayed
          PROVE  sent - Len(got[r]) <= MaxChunks
      <3>1. sent - taken[r] < MaxChunks /\ Len(got[r]) = FirstDue(r, taken) - 1 /\ taken[r] \in Nat
        BY <1>0, <1>6 DEF GhostInv, ReaderAt, LocalSocket, PublishChunk, Filling, WriterGoto
      <3>2. FirstDue(r, taken) \in {taken[r], taken[r] + 1}
        BY DEF FirstDue
      <3> QED  BY <3>1, <3>2, <1>a
    <2>5. sent' = sent + 1 /\ UNCHANGED <<got, strayed>>
      BY <1>6 DEF PublishChunk, readerVars, WriterGoto
    <2>6. Channel!Send
      BY <2>4, <2>5 DEF Channel!Send
    <2> QED  BY <2>3, <2>6 DEF Channel!ChanNext
  <1>7. CASE SendLarge
    <2>1. UNCHANGED <<sent, got, strayed>>
      BY <1>7 DEF SendLarge, readerVars, WriterGoto
    <2> QED  BY <1>0, <1>1, <1>2, <1>7, <2>1, SendLargeInv
  <1>8. CASE Notify
    <2>1. UNCHANGED <<sent, got, strayed>>
      BY <1>8 DEF Notify, readerVars, WriterGoto
    <2> QED  BY <1>0, <1>1, <1>2, <1>8, <2>1, NotifyInv
  <1>9. ASSUME NEW r \in Local,
               LoadReadFlag(r) \/ BeginRead(r) \/ Spin(r) \/ Sleep(r) \/ ReadTimeout(r) \/ WakeUp(r)
        PROVE  QueueInv' /\ UNCHANGED <<sent, got, strayed>>
    <2>1. UNCHANGED <<sent, got, strayed>>
      BY <1>9 DEF LoadReadFlag, BeginRead, Spin, Sleep, ReadTimeout, NothingToRead, WakeUp, writerVars
    <2> QED  BY <1>0, <1>1, <1>2, <1>9, <2>1, ReaderWaits
  <1>10. ASSUME NEW r \in Local, EndRead(r)
         PROVE  QueueInv' /\ [Channel!ChanNext]_<<sent, got, strayed>>
    <2> DEFINE taken2 == [taken EXCEPT ![r] = @ + 1]
    <2>1. taken2 \in [Local -> Nat] /\ taken[r] \in Nat /\ r \in Reader
      BY <1>0 DEF Reader
    <2>2. TypeInv' /\ GhostInv(taken2, big)'
      BY <1>0, <1>1, <1>10, <2>1, EndReadInv
    <2> HIDE DEF taken2
    <2>3. QueueInv'
      BY <2>1, <2>2 DEF QueueInv
    <2>4. UNCHANGED <<sent, strayed>>
      BY <1>10 DEF EndRead, writerVars
    <2>5. /\ data[rindex[r]] = IF taken[r] + 1 \in big THEN Overflow ELSE taken[r] + 1
          /\ taken[r] < sent
          /\ r \notin strayed => Len(got[r]) = taken[r]
      BY <1>0, <1>1, <1>10, ReadChunk DEF EndRead, Goto
    <2>6. CASE data[rindex[r]] = Overflow
      BY <2>3, <2>4, <2>6, <1>10 DEF EndRead
    <2>7. CASE data[rindex[r]] # Overflow
      <3>1. data[rindex[r]] = taken[r] + 1 /\ taken[r] + 1 \in 1 .. sent
        BY <2>5, <2>7, <2>1, <1>a
      <3>2. got' = [got EXCEPT ![r] = Append(@, taken[r] + 1)]
        BY <3>1, <2>7, <1>10 DEF EndRead, Deliver
      <3>3. r \in strayed \/ taken[r] + 1 = Len(got[r]) + 1
        BY <2>5
      <3>4. Channel!Receive(r)
        BY <3>1, <3>2, <3>3, <2>4 DEF Channel!Receive
      <3> QED  BY <2>1, <2>3, <3>4 DEF Channel!ChanNext
    <2> QED  BY <2>6, <2>7
  <1>11. ASSUME NEW r \in Reader, Recv(r)
         PROVE  QueueInv' /\ [Channel!ChanNext]_<<sent, got, strayed>>
    <2>1. /\ socket[r] # <<>> /\ rpc[r] = "recv" /\ UNCHANGED <<sent, strayed>>
          /\ got' = [got EXCEPT ![r] = Append(@, Head(socket[r]))]
      BY <1>11 DEF Recv, Goto, Deliver, writerVars
    <2>2. CASE r \in Local
      <3>1. QueueInv'
        BY <1>0, <1>1, <1>2, <1>11, <2>2, RecvLocalInv
      <3>2. /\ Head(socket[r]) \in 1 .. sent
            /\ r \notin strayed => Head(socket[r]) = taken[r] /\ Len(got[r]) = taken[r] - 1
        BY <1>0, <1>1, <2>1, <2>2, RecvIsDue
      <3>3. r \in strayed \/ Head(socket[r]) = Len(got[r]) + 1
        <4>1. taken[r] \in Nat
          BY <1>0, <2>2
        <4> QED  BY <4>1, <3>2
      <3>4. Channel!Receive(r)
        BY <3>2, <3>3, <2>1 DEF Channel!Receive
      <3> QED  BY <3>1, <3>4 DEF Channel!ChanNext
    <2>3. CASE r \in Remote
      <3>1. /\ QueueInv' /\ Head(socket[r]) \in 1 .. sent /\ Head(socket[r]) = Len(got[r]) + 1
        BY <1>0, <1>1, <1>2, <1>11, <2>3, RecvRemoteInv
      <3>2. Channel!Receive(r)
        BY <3>1, <2>1 DEF Channel!Receive
      <3> QED  BY <3>1, <3>2 DEF Channel!ChanNext
    <2> QED  BY <2>2, <2>3, <1>a
  <1>12. ASSUME NEW r \in Local, RecvTimeout(r)
         PROVE  QueueInv' /\ [Channel!ChanNext]_<<sent, got, strayed>>
    <2>1. QueueInv'
      BY <1>0, <1>1, <1>2, <1>12, RecvTimeoutInv
    <2>2. Channel!Stray(r) /\ r \in Reader
      BY <1>12 DEF RecvTimeout, Channel!Stray, writerVars, Reader
    <2> QED  BY <2>1, <2>2 DEF Channel!ChanNext
  <1>13. ASSUME NEW r \in Reader, Shutdown(r)
         PROVE  QueueInv' /\ UNCHANGED <<sent, got, strayed>>
    BY <1>0, <1>1, <1>2, <1>13, EndsInv DEF Shutdown, writerVars
  <1>b. CASE WriterExit
    BY <1>0, <1>1, <1>2, <1>b, EndsInv DEF WriterExit, readerVars
  <1>14. CASE UNCHANGED vars
    <2>1. UNCHANGED <<ring, wpc, windex, large, toReset, sent, rpc, rindex, seenRead, got, strayed, socket>>
      BY <1>14 DEF vars, readerVars, writerVars
    <2> QED  BY <1>0, <1>1, <1>2, <2>1, EndsInv
  <1> QED  BY <1>3, <1>4, <1>5, <1>6, <1>7, <1>8, <1>9, <1>10, <1>11, <1>12, <1>13, <1>b, <1>14
           DEF Next, WriterStep, ReaderStep

(* The ring, its flags and indices and the sockets stay consistent.        *)
THEOREM QueueInvariant == Spec => []QueueInv
  <1>1. Init => QueueInv
    BY QueueInit
  <1>2. QueueInv /\ [Next]_vars => QueueInv'
    BY QueueStep
  <1> QED  BY <1>1, <1>2, PTL DEF Spec

(* A reader between testing the flags and setting its read flag owns its   *)
(* chunk: written, complete and holding its next message.                  *)
THEOREM OwnedChunks == Spec => []ReadersOwnTheirChunk
  <1>1. QueueInv => ReadersOwnTheirChunk
    <2> SUFFICES ASSUME QueueInv, NEW r \in Local, rpc[r] = "read"
                 PROVE  /\ written[rindex[r]] /\ data[rindex[r]] # Torn
                        /\ r \notin strayed => data[rindex[r]] \in {Overflow, Expected(r)}
      BY DEF ReadersOwnTheirChunk
    <2>1. PICK taken \in [Local -> Nat], big \in SUBSET Nat : GhostInv(taken, big)
      BY DEF QueueInv
    <2>2. TypeInv
      BY DEF QueueInv
    <2>3. /\ written[rindex[r]]
          /\ data[rindex[r]] = IF taken[r] + 1 \in big THEN Overflow ELSE taken[r] + 1
          /\ r \notin strayed => Len(got[r]) = taken[r]
      BY <2>1, <2>2, ReadChunk
    <2>4. taken[r] \in Nat
      BY <2>1
    <2> QED  BY <2>3, <2>4 DEF Torn, Overflow, Expected
  <1> QED  BY <1>1, QueueInvariant, PTL

(* The queue implements the broadcast channel: every reader that kept its  *)
(* place receives every message once and in order, and the writer never    *)
(* runs over a local reader.                                               *)
THEOREM QueueBroadcasts == Spec => Broadcasts
  <1>1. Init => Channel!ChanInit
    BY DEF Init, Channel!ChanInit
  <1>2. QueueInv /\ [Next]_vars => [Channel!ChanNext]_<<sent, got, strayed>>
    BY QueueStep
  <1> QED  BY <1>1, <1>2, QueueInvariant, PTL DEF Spec, Broadcasts, Channel!ChanSpec
=============================================================================
