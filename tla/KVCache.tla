------------------------------- MODULE KVCache -------------------------------
(***************************************************************************)
(* The paged KV cache of the engine: the block pool                        *)
(* (vllm/v1/core/block_pool.py), the block table of every request          *)
(* (single_type_kv_cache_manager.py, full attention, one KV cache group)   *)
(* and the manager in front of them (kv_cache_manager.py), with prefix     *)
(* caching enabled.                                                        *)
(*                                                                         *)
(* Each call of the manager is an action; between two calls its client,    *)
(* the scheduler, creates requests and appends tokens to them.  The module *)
(* Scheduler is such a client; here the client is unconstrained, so what   *)
(* holds here holds for every order in which a scheduler makes its calls.  *)
(***************************************************************************)
EXTENDS Integers, FiniteSets, SequencesExt

CONSTANTS
    Requests,       \* request ids
    Prompts,        \* the prompts a request may be created with
    Token,          \* token ids
    NumGpuBlocks,   \* blocks of the pool, the null block included
    BlockSize,      \* tokens of a block
    MaxModelLen     \* bound on the tokens of a request

ASSUME RequestsFinite == IsFiniteSet(Requests)
ASSUME PromptsTyped   == Prompts \subseteq Seq(Token) \ {<<>>}
ASSUME BlockSizes     == /\ NumGpuBlocks \in Nat \ {0}
                         /\ BlockSize \in Nat \ {0}
                         /\ MaxModelLen \in Nat

VARIABLES
    ref_cnt,            \* KVCacheBlock.ref_cnt of every block
    block_hash,         \* KVCacheBlock._block_hash; NoHash stands for None
    cached_block_hash_to_block, \* BlockHashToBlockMap: the pairs <<hash, block>>
    free_block_queue,   \* free blocks in eviction order
    req_to_blocks,      \* block table of every request; <<>> when it has none
    num_cached_block,   \* per request, NoEntry when it is not a key of the dict
    all_token_ids       \* Request._all_token_ids; <<>> before the request exists

poolvars == <<ref_cnt, block_hash, cached_block_hash_to_block, free_block_queue>>
tablevars == <<req_to_blocks, num_cached_block>>
kvvars == <<poolvars, tablevars, all_token_ids>>

-----------------------------------------------------------------------------
Block     == 0 .. NumGpuBlocks - 1
NullBlock == 0          \* block_pool.null_block: popped first, never given out
NoHash    == <<>>
NoEntry   == -1

NumTokens(r) == Len(all_token_ids[r])
Cdiv(n, d) == (n + d - 1) \div d

(* The hash of the i-th full block of a request chains the hashes of the   *)
(* blocks before it: an ideal hash, equal exactly when the prefixes are.   *)
BlockHash(r, i) == SubSeq(all_token_ids[r], 1, i * BlockSize)

(* Mutant: the hits of a request stay linked in the queue. *)
WithoutNothing(q, S) == q

(* A queue from which the blocks of S are unlinked; the others keep their  *)
(* order.                                                                  *)
Without(q, S) ==
    LET keep == {i \in DOMAIN q : q[i] \notin S}
        rank == [i \in keep |-> Cardinality({j \in keep : j <= i})]
    IN  [k \in 1 .. Cardinality(keep) |-> q[CHOOSE i \in keep : rank[i] = k]]

(* Mutant: a block given out again keeps what it cached. *)
NothingEvictable(S) == {}

(* _maybe_evict_cached_block: only a block found in the map loses its hash. *)
Evictable(S) == {b \in S : <<block_hash[b], b>> \in cached_block_hash_to_block}

-----------------------------------------------------------------------------
(* find_longest_cache_hit of full attention: walk the chain of hashes up   *)
(* to the first miss, never covering the last token, which must be         *)
(* recomputed for its logits.  A hash may map to several blocks; the       *)
(* contract of get_one_block is any of them.                               *)
IsCached(r, i) == \E b \in Block : <<BlockHash(r, i), b>> \in cached_block_hash_to_block

NumHits(r) ==
    LET max_num_blocks == (NumTokens(r) - 1) \div BlockSize
    IN  Cardinality({n \in 1 .. max_num_blocks : \A i \in 1 .. n : IsCached(r, i)})

HitBlocks(r) ==
    {b \in Block : \E i \in 1 .. NumHits(r) : <<BlockHash(r, i), b>> \in cached_block_hash_to_block}

GetComputedBlocks(r) ==
    {hits \in [1 .. NumHits(r) -> HitBlocks(r)] :
        \A i \in 1 .. NumHits(r) : <<BlockHash(r, i), hits[i]>> \in cached_block_hash_to_block}

(* get_num_blocks_to_allocate: new blocks up to the total, plus the hits   *)
(* that touching takes out of the free queue.                              *)
NumNewBlocks(r, hits, total) ==
    Max({0, Cdiv(total, BlockSize) - Len(hits) - Len(req_to_blocks[r])})

NumBlocksToAllocate(r, hits, total) ==
    NumNewBlocks(r, hits, total)
    + Cardinality({b \in Range(hits) : ref_cnt[b] = 0 /\ b # NullBlock})

(* Mutant: the last free block is never given out. *)
CanAllocateLess(r, hits, total) ==
    NumBlocksToAllocate(r, hits, total) < Len(free_block_queue)

CanAllocate(r, hits, total) ==
    NumBlocksToAllocate(r, hits, total) <= Len(free_block_queue)

(* num_cached_block[r] read with the default 0. *)
NumCached(r) == Max({0, num_cached_block[r]})

(* Mutant: the hashes are counted from the first block not yet cached. *)
NewlyCachedShifted(r, blocks, from, to) ==
    {<<BlockHash(r, i - from), blocks[i]>> : i \in from + 1 .. to}

(* cache_full_blocks on a table: the blocks from..to (1-based, from        *)
(* excluded) get the hashes of r's prefixes and enter the map.             *)
NewlyCached(r, blocks, from, to) == {<<BlockHash(r, i), blocks[i]>> : i \in from + 1 .. to}

SetHashes(hashes, pairs) ==
    [b \in Block |-> IF \E h \in pairs : h[2] = b
                     THEN (CHOOSE h \in pairs : h[2] = b)[1]
                     ELSE hashes[b]]

(* allocate_slots, when it does not return None.  total is                 *)
(* num_computed_tokens + num_new_computed_tokens + num_new_tokens.  Touch  *)
(* the hits, take new blocks from the head of the queue (evicting what     *)
(* they cache), then cache every block the total fills with known tokens.  *)
AllocateSlots(r, hits, total) ==
    LET queue      == Without(free_block_queue, Range(hits))
        num_new    == NumNewBlocks(r, hits, total)
        new_blocks == SubSeq(queue, 1, num_new)
        evicted    == Evictable(Range(new_blocks))
        blocks     == req_to_blocks[r] \o hits \o new_blocks
        num_cached == IF hits = <<>> THEN NumCached(r) ELSE Len(hits)
        num_full   == Min({total, NumTokens(r)}) \div BlockSize
        pairs      == NewlyCached(r, blocks, num_cached, num_full)
    IN  /\ CanAllocate(r, hits, total)
        /\ free_block_queue' = SubSeq(queue, num_new + 1, Len(queue))
        /\ ref_cnt' = [b \in Block |-> IF b \in Range(hits) \cup Range(new_blocks)
                                       THEN ref_cnt[b] + 1 ELSE ref_cnt[b]]
        /\ req_to_blocks' = [req_to_blocks EXCEPT ![r] = blocks]
        /\ block_hash' = SetHashes([b \in Block |-> IF b \in evicted THEN NoHash
                                                    ELSE block_hash[b]], pairs)
        /\ cached_block_hash_to_block' =
              {p \in cached_block_hash_to_block : p[2] \notin evicted} \cup pairs
        /\ num_cached_block' = [num_cached_block EXCEPT ![r] =
              IF num_full > num_cached THEN num_full
              ELSE IF hits = <<>> THEN @ ELSE Len(hits)]

(* cache_blocks, called by the asynchronous scheduler once the tokens of   *)
(* finished steps are known.                                               *)
CacheBlocks(r, num_tokens) ==
    LET num_full == num_tokens \div BlockSize
        pairs    == NewlyCached(r, req_to_blocks[r], NumCached(r), num_full)
    IN  /\ block_hash' = SetHashes(block_hash, pairs)
        /\ cached_block_hash_to_block' = cached_block_hash_to_block \cup pairs
        /\ num_cached_block' = [num_cached_block EXCEPT ![r] =
              IF num_full > NumCached(r) THEN num_full ELSE @]
        /\ UNCHANGED <<ref_cnt, free_block_queue, req_to_blocks>>

(* Mutants of free: the table is handed back but kept; only blocks nobody  *)
(* shares are dereferenced; shared blocks go back too; the entry of        *)
(* num_cached_block stays; the head of the chain goes back first.          *)
FreedAs(r, dereferenced, back, table, entry) ==
    /\ ref_cnt' = [b \in Block |-> IF b \in dereferenced THEN ref_cnt[b] - 1 ELSE ref_cnt[b]]
    /\ free_block_queue' = free_block_queue \o back
    /\ req_to_blocks' = [req_to_blocks EXCEPT ![r] = table]
    /\ num_cached_block' = [num_cached_block EXCEPT ![r] = entry]
    /\ UNCHANGED <<block_hash, cached_block_hash_to_block>>

Unshared(r) == Without(Reverse(req_to_blocks[r]), {b \in Block : ref_cnt[b] # 1})

FreeKeepsTable(r) ==
    FreedAs(r, Range(req_to_blocks[r]), Unshared(r), req_to_blocks[r], NoEntry)
FreeKeepsCounts(r) == FreedAs(r, Range(Unshared(r)), Unshared(r), <<>>, NoEntry)
FreeShared(r) == FreedAs(r, Range(req_to_blocks[r]), Reverse(req_to_blocks[r]), <<>>, NoEntry)
FreeKeepsEntry(r) ==
    FreedAs(r, Range(req_to_blocks[r]), Unshared(r), <<>>, num_cached_block[r])
FreeInOrder(r) ==
    FreedAs(r, Range(req_to_blocks[r]), Reverse(Unshared(r)), <<>>, NoEntry)

(* free: the table goes back in reverse order, so that the tail of a chain *)
(* is evicted before its head; blocks other requests hold stay out.        *)
FreeRequest(r) ==
    LET blocks == req_to_blocks[r]
    IN  /\ ref_cnt' = [b \in Block |-> IF b \in Range(blocks) THEN ref_cnt[b] - 1
                                       ELSE ref_cnt[b]]
        /\ free_block_queue' = free_block_queue \o
              Without(Reverse(blocks), {b \in Range(blocks) : ref_cnt[b] # 1})
        /\ req_to_blocks' = [req_to_blocks EXCEPT ![r] = <<>>]
        /\ num_cached_block' = [num_cached_block EXCEPT ![r] = NoEntry]
        /\ UNCHANGED <<block_hash, cached_block_hash_to_block>>

(* reset_prefix_cache of the pool succeeds only when the null block is the *)
(* one block in use.                                                       *)
AllBlocksFree == NumGpuBlocks - Len(free_block_queue) = 1

ResetPrefixCache ==
    /\ AllBlocksFree
    /\ cached_block_hash_to_block' = {}
    /\ block_hash' = [b \in Block |-> NoHash]
    /\ UNCHANGED <<ref_cnt, free_block_queue, tablevars>>

-----------------------------------------------------------------------------
(* The client. *)
NewRequest(r, prompt) ==
    /\ all_token_ids[r] = <<>>
    /\ all_token_ids' = [all_token_ids EXCEPT ![r] = prompt]
    /\ UNCHANGED <<poolvars, tablevars>>

AppendOutputToken(r, token) ==
    /\ all_token_ids[r] # <<>>
    /\ NumTokens(r) < MaxModelLen
    /\ all_token_ids' = [all_token_ids EXCEPT ![r] = Append(@, token)]
    /\ UNCHANGED <<poolvars, tablevars>>

(* A waiting request is looked up in the cache first, unless it skips      *)
(* reading it; a running one only grows.                                   *)
Allocate(r) ==
    /\ all_token_ids[r] # <<>>
    /\ \E hits \in IF req_to_blocks[r] = <<>> THEN GetComputedBlocks(r) \cup {<<>>}
                                              ELSE {<<>>} :
        \E total \in Len(hits) * BlockSize + 1 .. MaxModelLen :
            AllocateSlots(r, hits, total)
    /\ UNCHANGED all_token_ids

(* Tokens are cached only when they are known and have a slot. *)
Cache(r) ==
    /\ req_to_blocks[r] # <<>>
    /\ \E n \in 0 .. Min({NumTokens(r), Len(req_to_blocks[r]) * BlockSize}) : CacheBlocks(r, n)
    /\ UNCHANGED all_token_ids

(* A preempted request keeps its tokens, a finished one is deleted. *)
Preempt(r) == FreeRequest(r) /\ UNCHANGED all_token_ids

Finish(r) == FreeRequest(r) /\ all_token_ids' = [all_token_ids EXCEPT ![r] = <<>>]

Reset == ResetPrefixCache /\ UNCHANGED all_token_ids

KVInit ==
    /\ ref_cnt = [b \in Block |-> 0]
    /\ block_hash = [b \in Block |-> NoHash]
    /\ cached_block_hash_to_block = {}
    /\ free_block_queue = [i \in 1 .. NumGpuBlocks - 1 |-> i]
    /\ req_to_blocks = [r \in Requests |-> <<>>]
    /\ num_cached_block = [r \in Requests |-> NoEntry]
    /\ all_token_ids = [r \in Requests |-> <<>>]

KVNext ==
    \/ \E r \in Requests :
          \/ \E prompt \in Prompts : NewRequest(r, prompt)
          \/ \E token \in Token : AppendOutputToken(r, token)
          \/ Allocate(r)
          \/ Cache(r)
          \/ Preempt(r)
          \/ Finish(r)
    \/ Reset

KVSpec == KVInit /\ [][KVNext]_kvvars

-----------------------------------------------------------------------------
(* Types of the pool and of the tables: a free that leaves its table       *)
(* behind, for instance, drives a ref_cnt below zero.                      *)
KVTypeOK ==
    /\ ref_cnt \in [Block -> Nat]
    /\ block_hash \in [Block -> Seq(Token)]
    /\ cached_block_hash_to_block \subseteq Seq(Token) \X Block
    /\ free_block_queue \in Seq(Block)
    /\ req_to_blocks \in [Requests -> Seq(Block)]
    /\ num_cached_block \in [Requests -> Nat \cup {NoEntry}]
    /\ all_token_ids \in [Requests -> Seq(Token)]

(* No table holds the null block, and none holds a block twice: two        *)
(* positions of one request never share their KV slots.                    *)
TablesWellFormed ==
    \A r \in Requests : IsInjective(req_to_blocks[r]) /\ NullBlock \notin Range(req_to_blocks[r])

Holders(b) == {r \in Requests : b \in Range(req_to_blocks[r])}

(* ref_cnt is the number of requests whose table holds the block, through  *)
(* every sequence of touches, allocations and frees: a count too high      *)
(* leaks the block, a count too low gives it to two requests.              *)
RefCountExact == \A b \in Block : ref_cnt[b] = Cardinality(Holders(b))

(* The free queue holds exactly the blocks nobody references, each once:   *)
(* what get_new_blocks pops is never in use (its assert ref_cnt == 0), and *)
(* what touch removes is really linked in the queue.                       *)
FreeQueueExact ==
    /\ IsInjective(free_block_queue)
    /\ Range(free_block_queue) = {b \in Block \ {NullBlock} : ref_cnt[b] = 0}

(* The hash map and the hashes stored in the blocks describe one cache.    *)
HashMapExact ==
    cached_block_hash_to_block =
        {<<block_hash[b], b>> : b \in {c \in Block : block_hash[c] # NoHash}}

(* The blocks a table counts as cached carry the hash of this request's    *)
(* own prefix (a hit is never a block of another prompt), the blocks after *)
(* them carry none: the assert of cache_full_blocks.                       *)
TableHashes ==
    \A r \in Requests : \A i \in 1 .. Len(req_to_blocks[r]) :
        block_hash[req_to_blocks[r][i]] = IF i <= NumCached(r) THEN BlockHash(r, i) ELSE NoHash

(* A block that is not cached yet, and so may still be written to, is in    *)
(* one table only: requests share nothing but full, cached blocks.         *)
UncachedPrivate ==
    \A r, s \in Requests : r # s =>
        \A i \in NumCached(r) + 1 .. Len(req_to_blocks[r]) :
            req_to_blocks[r][i] \notin Range(req_to_blocks[s])

(* The cached part of a table lies within the table and within the tokens  *)
(* that are known; the null block carries no hash.                         *)
CachedWithinTable ==
    \A r \in Requests : /\ NumCached(r) <= Len(req_to_blocks[r])
                        /\ NumCached(r) * BlockSize <= NumTokens(r)

NullUncached == block_hash[NullBlock] = NoHash

(* The inductive invariant behind the theorems of KVCacheProofs. *)
KVInv ==
    /\ KVTypeOK
    /\ TablesWellFormed
    /\ RefCountExact
    /\ FreeQueueExact
    /\ HashMapExact
    /\ TableHashes
    /\ UncachedPrivate
    /\ CachedWithinTable
    /\ NullUncached

(* A cached prefix without its last block. *)
Shorter(hash) == SubSeq(hash, 1, Len(hash) - BlockSize)

(* find_longest_cache_hit stops at the first miss because "the following   *)
(* block hashes are not computed yet for sure": whenever a prefix is       *)
(* cached, so is the prefix one block shorter.  It rests on free putting   *)
(* tails before heads and on the eviction order of the queue.              *)
CachedPrefixClosed ==
    \A p \in cached_block_hash_to_block :
        Len(p[1]) > BlockSize => \E q \in cached_block_hash_to_block : q[1] = Shorter(p[1])

(* Why: of the blocks that cache the prefix one block shorter, some block  *)
(* is in use or is evicted after this one.                                 *)
InOrder(queue, b, c) == \E j, k \in DOMAIN queue : j < k /\ queue[j] = b /\ queue[k] = c

TailsGoFirst ==
    \A b \in Block :
        ref_cnt[b] = 0 /\ Len(block_hash[b]) > BlockSize =>
            \E c \in Block : /\ block_hash[c] = Shorter(block_hash[b])
                             /\ ref_cnt[c] # 0 \/ InOrder(free_block_queue, b, c)

EvictionInv == KVInv /\ TailsGoFirst

(* get_num_common_prefix_blocks of a request: the leading blocks whose     *)
(* ref_cnt is the number of requests that have a table.                    *)
NumCommonPrefixBlocks(r) ==
    LET tables == {s \in Requests : req_to_blocks[s] # <<>>}
        common(n) == \A i \in 1 .. n : ref_cnt[req_to_blocks[r][i]] = Cardinality(tables)
    IN  Max({n \in 0 .. Len(req_to_blocks[r]) : common(n)})

(* What cascade attention assumes of that number: every request that has a *)
(* table has these very blocks, at the same positions.                     *)
CommonPrefixIsShared ==
    \A r, s \in Requests :
        req_to_blocks[s] # <<>> =>
            LET n == NumCommonPrefixBlocks(r)
            IN  SubSeq(req_to_blocks[s], 1, n) = SubSeq(req_to_blocks[r], 1, n)
=============================================================================
