--------------------------- MODULE FreeBlockQueue ---------------------------
(***************************************************************************)
(* What the block pool expects of its queue of free blocks: a sequence of  *)
(* distinct blocks that gives blocks out at its head, takes blocks back at *)
(* its tail, lets a block leave from the middle, and knows its length.     *)
(***************************************************************************)
EXTENDS Integers, Sequences, SequencesExt

CONSTANT NumGpuBlocks   \* the blocks are numbered from 0

Block == 0 .. NumGpuBlocks - 1

VARIABLES queue,        \* the free blocks, next to be given out first
          size,         \* num_free_blocks
          taken         \* what the last call returned

Popleft ==
    /\ queue # <<>>
    /\ taken' = <<Head(queue)>> /\ queue' = Tail(queue)

PopleftN(n) ==
    /\ taken' = SubSeq(queue, 1, n)
    /\ queue' = SubSeq(queue, n + 1, Len(queue))

RemoveBlock(b) ==
    /\ \E i \in DOMAIN queue : queue[i] = b /\ queue' = RemoveAt(queue, i)
    /\ taken' = <<>>

AppendN(blocks) ==
    /\ IsInjective(blocks) /\ Range(blocks) \cap Range(queue) = {}
    /\ taken' = <<>> /\ queue' = queue \o blocks

QueueInit == queue = [i \in 1 .. NumGpuBlocks |-> i - 1] /\ size = Len(queue) /\ taken = <<>>

QueueNext ==
    /\ \/ Popleft
       \/ \E n \in 0 .. Len(queue) : PopleftN(n)
       \/ \E b \in Block : RemoveBlock(b)
       \/ \E n \in 1 .. NumGpuBlocks : \E blocks \in [1 .. n -> Block] : AppendN(blocks)
    /\ size' = Len(queue')

QueueSpec == QueueInit /\ [][QueueNext]_<<queue, size, taken>>
=============================================================================
