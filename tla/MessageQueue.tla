---------------------------- MODULE MessageQueue ----------------------------
(***************************************************************************)
(* MessageQueue of shm_broadcast.py: one writer broadcasts messages to     *)
(* local readers through a ring of chunks in shared memory, and to remote  *)
(* readers through a socket.  A chunk has a written flag, set by the       *)
(* writer, and a read flag per local reader.  A message that does not fit  *)
(* into a chunk goes through a second socket, and the chunk only says so.  *)
(* A reader that finds nothing spins, or sleeps until the writer's         *)
(* notification, a timeout or a cancellation.                              *)
(*                                                                         *)
(* Accesses to shared memory are steps that interleave: the memory fences  *)
(* of the code put them in program order for every process.  Two accesses  *)
(* in a row are one step where no other process can tell (taking a chunk   *)
(* marks its content as torn; a read ends with the last look at the        *)
(* content and the read flag).  Sockets are FIFO and do not lose messages  *)
(* once wait_until_ready has connected all readers.                        *)
(*                                                                         *)
(* The writer's process may exit between any two of its steps.  Then, or   *)
(* at any other time, readers may be shut down.                            *)
(***************************************************************************)
EXTENDS Integers, Sequences, FiniteSets

CONSTANTS
    Local,          \* local readers
    Remote,         \* remote readers
    Timed,          \* readers whose dequeue calls have a timeout
    MaxChunks,      \* chunks of the ring
    MaxMessages     \* bound: messages the writer enqueues

ASSUME QueueAssumption ==
    /\ IsFiniteSet(Local) /\ Local # {} /\ Local \cap Remote = {} /\ Timed \subseteq Local \cup Remote
    /\ MaxChunks \in Nat \ {0} /\ MaxMessages \in Nat

Reader == Local \cup Remote
Chunk  == 0 .. MaxChunks - 1

VARIABLES
    written,    \* written flag of a chunk
    readFlag,   \* read flags of a chunk
    data,       \* content of a chunk: a message, Overflow, or Torn while it is written
    wpc,        \* what the writer does next
    windex,     \* current_idx of the writer
    large,      \* the message being enqueued does not fit into a chunk
    toReset,    \* read flags the writer still has to clear
    sent,       \* messages published so far; the message under way is sent + 1
    exited,     \* the writer's process is gone
    rpc,        \* what a reader does next
    rindex,     \* current_idx of a local reader
    seenRead,   \* the read flag a local reader has loaded
    socket,     \* messages on the way to a reader: large ones, all for remote readers
    notified,   \* readers with a notification waiting for them
    cancelled,  \* readers that were shut down
    got,        \* history: what each reader's dequeue calls have returned
    strayed     \* history: readers that gave up on a large message

ring == <<written, readFlag, data>>
writerVars == <<wpc, windex, large, toReset, sent, exited>>
readerVars == <<rpc, rindex, seenRead, cancelled, got, strayed>>
vars == <<ring, writerVars, readerVars, socket, notified>>

Torn == -1
Overflow == 0
NextIndex(i) == (i + 1) % MaxChunks
-----------------------------------------------------------------------------
(* Writer: enqueue and acquire_write *)
WriterGoto(from, to) == ~exited /\ UNCHANGED exited /\ wpc = from /\ wpc' = to

Enqueue ==
    /\ WriterGoto("idle", "acquire") /\ sent < MaxMessages
    /\ large' \in BOOLEAN
    /\ UNCHANGED <<ring, windex, toReset, sent, readerVars, socket, notified>>

(* mutant: one reader is enough *)
WritableBySome(i) == written[i] => \E r \in Local : readFlag[i][r]

(* A chunk may be written if it never was, or if every reader has read it. *)
Writable(i) == written[i] => \A r \in Local : readFlag[i][r]

AcquireWrite ==
    /\ WriterGoto("acquire", "fill") /\ Writable(windex)
    /\ written' = [written EXCEPT ![windex] = FALSE]
    /\ data' = [data EXCEPT ![windex] = Torn]
    /\ UNCHANGED <<readFlag, windex, large, toReset, sent, readerVars, socket, notified>>

(* The chunk did not become free in time: TimeoutError, nothing changed. *)
WriteTimeout ==
    /\ WriterGoto("acquire", "idle") /\ ~Writable(windex)
    /\ large' = FALSE
    /\ UNCHANGED <<ring, windex, toReset, sent, readerVars, socket, notified>>

Fill ==
    /\ WriterGoto("fill", "reset")
    /\ data' = [data EXCEPT ![windex] = IF large THEN Overflow ELSE sent + 1]
    /\ toReset' = Local
    /\ UNCHANGED <<written, readFlag, windex, large, sent, readerVars, socket, notified>>

(* The read flags are cleared one by one before the chunk is published. *)
ResetReadFlag(r) ==
    /\ WriterGoto("reset", "reset") /\ r \in toReset
    /\ readFlag' = [readFlag EXCEPT ![windex][r] = FALSE]
    /\ toReset' = toReset \ {r}
    /\ UNCHANGED <<written, data, windex, large, sent, readerVars, socket, notified>>

Published == toReset = {}

PublishChunk ==
    /\ WriterGoto("reset", IF large THEN "send" ELSE "notify") /\ Published
    /\ written' = [written EXCEPT ![windex] = TRUE]
    /\ windex' = NextIndex(windex) /\ sent' = sent + 1
    /\ UNCHANGED <<readFlag, data, large, toReset, readerVars, socket, notified>>

(* A large message is sent only after its chunk was published. *)
SendLarge ==
    /\ WriterGoto("send", "notify")
    /\ socket' = [r \in Reader |-> IF r \in Local THEN Append(socket[r], sent) ELSE socket[r]]
    /\ UNCHANGED <<ring, windex, large, toReset, sent, readerVars, notified>>

(* mutant: a notification is sent only to readers that already have one *)
NotifyNobody ==
    /\ WriterGoto("notify", "idle") /\ large' = FALSE
    /\ socket' = [r \in Reader |-> IF r \in Remote THEN Append(socket[r], sent) ELSE socket[r]]
    /\ UNCHANGED <<ring, windex, toReset, sent, readerVars, notified>>

(* The notification socket keeps at most one message per reader.  Remote   *)
(* readers get every message through their socket; no reader sees both, so *)
(* the two are one step.                                                   *)
Notify ==
    /\ WriterGoto("notify", "idle") /\ large' = FALSE
    /\ notified' = Local
    /\ socket' = [r \in Reader |-> IF r \in Remote THEN Append(socket[r], sent) ELSE socket[r]]
    /\ UNCHANGED <<ring, windex, toReset, sent, readerVars>>

(* The writer's process exits, wherever it is: nothing is cleaned up. *)
WriterExit ==
    /\ ~exited /\ exited' = TRUE
    /\ UNCHANGED <<ring, wpc, windex, large, toReset, sent, readerVars, socket, notified>>
-----------------------------------------------------------------------------
(* Readers: dequeue and acquire_read *)
Goto(r, from, to) == rpc[r] = from /\ rpc' = [rpc EXCEPT ![r] = to]

(* Where a call of dequeue begins, and where its reader is between calls. *)
Start(r) == IF r \in Local THEN "load" ELSE "recv"

(* The two flags are loaded one after the other, the read flag first. *)
LoadReadFlag(r) ==
    /\ Goto(r, "load", "test")
    /\ seenRead' = [seenRead EXCEPT ![r] = readFlag[rindex[r]][r]]
    /\ UNCHANGED <<ring, writerVars, rindex, cancelled, got, strayed, socket, notified>>

ReadableAgain(r) == written[rindex[r]]    \* mutant: the read flag is ignored

Readable(r) == written[rindex[r]] /\ ~seenRead[r]

BeginRead(r) ==
    /\ Readable(r) /\ Goto(r, "test", "read")
    /\ seenRead' = [seenRead EXCEPT ![r] = FALSE]
    /\ UNCHANGED <<ring, writerVars, rindex, cancelled, got, strayed, socket, notified>>

AlwaysReload(r) == "load"    \* mutant: shutting_down is not looked at

(* SpinCondition.wait: returns at once while reads are frequent, sleeps    *)
(* otherwise; a call with a timeout also wakes up by itself.  After        *)
(* waiting the reader leaves if it was shut down.                          *)
AfterWait(r) == IF r \in cancelled THEN "dead" ELSE "load"

NothingToRead(r, next) ==
    /\ ~Readable(r) /\ Goto(r, "test", next)
    /\ seenRead' = [seenRead EXCEPT ![r] = FALSE]
    /\ UNCHANGED <<ring, writerVars, rindex, cancelled, got, strayed, socket, notified>>

Spin(r) == NothingToRead(r, AfterWait(r))

Sleep(r) == NothingToRead(r, "asleep")

(* The deadline has passed: TimeoutError before waiting any longer. *)
ReadTimeout(r) == r \in Timed /\ NothingToRead(r, Start(r))

WakeUp(r) ==
    /\ r \in notified \cup cancelled \cup Timed
    /\ Goto(r, "asleep", AfterWait(r))
    /\ notified' = IF r \in cancelled THEN notified ELSE notified \ {r}
    /\ UNCHANGED <<ring, writerVars, rindex, seenRead, cancelled, got, strayed, socket>>

Deliver(r, m) == got' = [got EXCEPT ![r] = Append(@, m)]

(* The chunk is read, the read flag is set, and the reader moves on. *)
EndRead(r) ==
    /\ LET m == data[rindex[r]]
       IN \/ m = Overflow /\ Goto(r, "read", "recv") /\ UNCHANGED got
          \/ m # Overflow /\ Goto(r, "read", Start(r)) /\ Deliver(r, m)
    /\ readFlag' = [readFlag EXCEPT ![rindex[r]][r] = TRUE]
    /\ rindex' = [rindex EXCEPT ![r] = NextIndex(@)]
    /\ UNCHANGED <<written, data, writerVars, seenRead, cancelled, strayed, socket, notified>>

(* MessageQueue.recv: a large message, or any message of a remote reader. *)
Recv(r) ==
    /\ socket[r] # <<>> /\ Goto(r, "recv", Start(r))
    /\ Deliver(r, Head(socket[r])) /\ socket' = [socket EXCEPT ![r] = Tail(@)]
    /\ UNCHANGED <<ring, writerVars, rindex, seenRead, cancelled, strayed, notified>>

(* TimeoutError: the chunk that announced the message counts as read.  (A  *)
(* remote reader that times out has changed nothing.)                      *)
RecvTimeout(r) ==
    /\ r \in Timed /\ Goto(r, "recv", Start(r))
    /\ strayed' = strayed \cup {r}
    /\ UNCHANGED <<ring, writerVars, rindex, seenRead, cancelled, got, socket, notified>>

(* shutdown, called from another thread of the reader's process, for       *)
(* instance when it notices that its parent has exited.  It sets a flag    *)
(* and interrupts the wait of a local reader; recv never looks at the flag *)
(* and cannot be interrupted, and a remote reader is always in recv.       *)
Shutdown(r) ==
    /\ r \in Reader \ cancelled /\ cancelled' = cancelled \cup {r}
    /\ UNCHANGED <<ring, writerVars, rpc, rindex, seenRead, got, strayed, socket, notified>>
-----------------------------------------------------------------------------
Init ==
    /\ written = [i \in Chunk |-> FALSE]
    /\ readFlag = [i \in Chunk |-> [r \in Local |-> FALSE]]
    /\ data = [i \in Chunk |-> Torn]
    /\ wpc = "idle" /\ windex = 0 /\ large = FALSE /\ toReset = {} /\ sent = 0 /\ exited = FALSE
    /\ rpc = [r \in Reader |-> Start(r)] /\ rindex = [r \in Local |-> 0]
    /\ seenRead = [r \in Local |-> FALSE]
    /\ socket = [r \in Reader |-> <<>>] /\ notified = {} /\ cancelled = {}
    /\ got = [r \in Reader |-> <<>>] /\ strayed = {}

WriterStep ==
    \/ AcquireWrite \/ Fill \/ \E r \in Local : ResetReadFlag(r)
    \/ PublishChunk \/ SendLarge \/ Notify

ReaderStep(r) ==
    \/ Recv(r)
    \/ r \in Local /\ ( \/ LoadReadFlag(r) \/ BeginRead(r)
                        \/ Spin(r) \/ WakeUp(r) \/ EndRead(r) )

Next ==
    \/ Enqueue \/ WriteTimeout \/ WriterStep \/ WriterExit
    \/ \E r \in Reader : ReaderStep(r) \/ Shutdown(r)
    \/ \E r \in Local : Sleep(r) \/ ReadTimeout(r) \/ RecvTimeout(r)

Spec == Init /\ [][Next]_vars

(* The steps inside a call are fair, for the writer only while its process *)
(* lives: no step of it is enabled afterwards.  Calls, timeouts, shutdowns *)
(* and the exit itself need not happen.                                    *)
Fairness == WF_vars(WriterStep) /\ \A r \in Reader : WF_vars(ReaderStep(r))

FairSpec == Spec /\ Fairness
-----------------------------------------------------------------------------
(* What a local reader that kept its place will receive next. *)
Expected(r) == Len(got[r]) + 1

(* A reader inside acquire_read owns its chunk: from the moment it has     *)
(* seen the two flags until it sets its read flag the writer neither       *)
(* clears nor overwrites the chunk, which holds the reader's next message  *)
(* completely, whatever the writer and the other readers do meanwhile.     *)
ReadersOwnTheirChunk ==
    \A r \in Local : rpc[r] = "read" =>
        /\ written[rindex[r]] /\ data[rindex[r]] # Torn
        /\ r \notin strayed => data[rindex[r]] \in {Overflow, Expected(r)}

(* The queue is a broadcast channel: in spite of wrap-around, of messages  *)
(* split between ring and socket and of dequeue calls that time out and    *)
(* are repeated, readers receive all messages once and in order, and the   *)
(* writer never runs over a slow reader.                                   *)
Channel == INSTANCE BroadcastChannel WITH Capacity <- MaxChunks
Broadcasts == Channel!ChanSpec

(* No lost wake-up: every message published reaches every reader, although *)
(* a reader may test the flags just before they change and then sleep      *)
(* without a timeout, and although notifications are merged.  A reader     *)
(* that was shut down stops reading, and then the ring may fill up; a      *)
(* writer that exits may leave a message without its notification.         *)
Delivered ==
    <>[]( \/ cancelled # {} \/ exited
          \/ \A r \in Reader \ strayed : Len(got[r]) = sent )

(* The one place where a reader that is shut down may stay for good: recv  *)
(* without a timeout, with nothing to receive.  Local readers get there by *)
(* a chunk that announces a large message the writer has yet to send.      *)
NothingToRecv(r) == rpc[r] = "recv" /\ socket[r] = <<>>

(* A reader that is shut down leaves, whether the cancellation comes while *)
(* it sleeps, just before it goes to sleep, or while it reads, and         *)
(* wherever the writer's process has exited.  Only recv can keep it: any   *)
(* remote reader, and a local reader whose writer exited between a chunk   *)
(* and the large message it announces.  (A call whose deadline has passed  *)
(* may raise TimeoutError instead.)                                        *)
ShutdownEnds ==
    <>[]( \A r \in cancelled \ Timed :
            rpc[r] = "dead" \/ (NothingToRecv(r) /\ (r \in Remote \/ exited)) )
=============================================================================
