------------------------ MODULE FreeKVCacheBlockQueue ------------------------
(***************************************************************************)
(* The free block queue as it is implemented (kv_cache_utils.py): a doubly *)
(* linked list threaded through the blocks themselves, between a fake head *)
(* and a fake tail, with a separate count.  The loops of popleft_n and     *)
(* append_n follow the pointers they are about to reset.                   *)
(***************************************************************************)
EXTENDS Integers, FiniteSets, Sequences, SequencesExt

CONSTANT NumGpuBlocks           \* the pool numbers its blocks from 0

ASSUME BlockCount == NumGpuBlocks \in Nat

Block    == 0 .. NumGpuBlocks - 1
FakeHead == -1
FakeTail == -2
None     == -3
Node     == Block \cup {FakeHead, FakeTail}

VARIABLES next_free_block, prev_free_block, num_free_blocks, taken

links == <<next_free_block, prev_free_block>>

(* The block n links behind b, as the loops compute it. *)
Advance(b, n) ==
    LET curr_block[i \in 0 .. n] ==
            IF i = 0 THEN b
            ELSE IF curr_block[i - 1] = None THEN None ELSE next_free_block[curr_block[i - 1]]
    IN  curr_block[n]

(* get_all_free_blocks: every block before the one without a successor. *)
GetAllFreeBlocks ==
    LET first == next_free_block[FakeHead]
        free  == {i \in 0 .. Cardinality(Block) :
                    Advance(first, i) # None /\ next_free_block[Advance(first, i)] # None}
    IN  [i \in 1 .. Cardinality(free) |-> Advance(first, i - 1)]

-----------------------------------------------------------------------------
(* Mutant: the block given out keeps its pointer to the fake head. *)
PopleftStale ==
    LET first_block == next_free_block[FakeHead]
        second      == next_free_block[first_block]
    IN  /\ first_block # FakeTail /\ second # None
        /\ next_free_block' = [next_free_block EXCEPT ![FakeHead] = second, ![first_block] = None]
        /\ prev_free_block' = [prev_free_block EXCEPT ![second] = FakeHead]
        /\ num_free_blocks' = num_free_blocks - 1
        /\ taken' = <<first_block>>

(* popleft raises on an empty list, and on a first block that is not       *)
(* linked.  The first block is unlinked, then forgets its neighbours.      *)
Popleft ==
    LET first_block == next_free_block[FakeHead]
        second      == next_free_block[first_block]
    IN  /\ first_block # FakeTail /\ second # None
        /\ next_free_block' = [next_free_block EXCEPT ![FakeHead] = second, ![first_block] = None]
        /\ prev_free_block' = [prev_free_block EXCEPT ![second] = FakeHead, ![first_block] = None]
        /\ num_free_blocks' = num_free_blocks - 1
        /\ taken' = <<first_block>>

PopleftN(n) ==
    LET first == next_free_block[FakeHead]
        ret   == [i \in 1 .. n |-> Advance(first, i - 1)]
        curr  == Advance(first, n)
    IN  /\ n <= num_free_blocks
        /\ taken' = ret
        /\ num_free_blocks' = num_free_blocks - n
        /\ next_free_block' = [x \in Node |-> IF x \in Range(ret) THEN None
                                  ELSE IF x = FakeHead /\ n > 0 THEN curr
                                  ELSE next_free_block[x]]
        /\ prev_free_block' = [x \in Node |-> IF x \in Range(ret) THEN None
                                  ELSE IF x = curr /\ n > 0 THEN FakeHead
                                  ELSE prev_free_block[x]]

(* Mutant: a block leaves the list from the middle without being counted. *)
RemoveUncounted(b) ==
    LET before == prev_free_block[b]
        after  == next_free_block[b]
    IN  /\ before # None /\ after # None
        /\ next_free_block' = [next_free_block EXCEPT ![before] = after, ![b] = None]
        /\ prev_free_block' = [prev_free_block EXCEPT ![after] = before, ![b] = None]
        /\ taken' = <<>> /\ UNCHANGED num_free_blocks

(* remove raises on a block that is not linked. *)
RemoveBlock(b) ==
    LET before == prev_free_block[b]
        after  == next_free_block[b]
    IN  /\ before # None /\ after # None
        /\ next_free_block' = [next_free_block EXCEPT ![before] = after, ![b] = None]
        /\ prev_free_block' = [prev_free_block EXCEPT ![after] = before, ![b] = None]
        /\ num_free_blocks' = num_free_blocks - 1
        /\ taken' = <<>>

(* append_n, and append as its case of one block. *)
AppendN(blocks) ==
    LET last_block == prev_free_block[FakeTail]
        chain      == <<last_block>> \o blocks \o <<FakeTail>>
        index(x)   == CHOOSE i \in DOMAIN chain : chain[i] = x
    IN  /\ blocks # <<>>
        /\ next_free_block' = [x \in Node |-> IF x \in Range(blocks) \cup {last_block}
                                  THEN chain[index(x) + 1] ELSE next_free_block[x]]
        /\ prev_free_block' = [x \in Node |-> IF x \in Range(blocks) \cup {FakeTail}
                                  THEN chain[index(x) - 1] ELSE prev_free_block[x]]
        /\ num_free_blocks' = num_free_blocks + Len(blocks)
        /\ taken' = <<>>

-----------------------------------------------------------------------------
(* The pool gives back only blocks it has taken, each once.                *)
Taken == {b \in Block : next_free_block[b] = None}

FreedLists == UNION {{s \in [1 .. n -> Taken] : IsInjective(s)} : n \in 1 .. Cardinality(Taken)}

InitialLinks(blocks) ==
    LET chain == <<FakeHead>> \o blocks \o <<FakeTail>>
        index(x) == CHOOSE i \in DOMAIN chain : chain[i] = x
    IN  /\ next_free_block = [x \in Node |-> IF x = FakeTail THEN None ELSE chain[index(x) + 1]]
        /\ prev_free_block = [x \in Node |-> IF x = FakeHead THEN None ELSE chain[index(x) - 1]]
        /\ num_free_blocks = Len(blocks)

LinkInit == InitialLinks([i \in 1 .. NumGpuBlocks |-> i - 1]) /\ taken = <<>>

LinkNext ==
    \/ Popleft
    \/ \E n \in 0 .. Cardinality(Block) : PopleftN(n)
    \/ \E b \in Block : RemoveBlock(b)
    \/ \E blocks \in FreedLists : AppendN(blocks)

LinkSpec == LinkInit /\ [][LinkNext]_<<links, num_free_blocks, taken>>

-----------------------------------------------------------------------------
(* The two directions of the list agree, and a block given out keeps no    *)
(* neighbour: remove() trusts a block's own pointers, so a stale one would *)
(* cut the list in the middle.                                             *)
DoublyLinked ==
    /\ \A x \in Node : next_free_block[x] # None => prev_free_block[next_free_block[x]] = x
    /\ \A b \in Block : (next_free_block[b] = None) <=> (prev_free_block[b] = None)

(* The list implements the queue the pool expects: after any sequence of   *)
(* calls the blocks reached from the fake head are the abstract sequence,  *)
(* num_free_blocks is its length, and every call returned its head.        *)
Queue == INSTANCE FreeBlockQueue
            WITH queue <- GetAllFreeBlocks, size <- num_free_blocks

ImplementsQueue == Queue!QueueSpec
=============================================================================
