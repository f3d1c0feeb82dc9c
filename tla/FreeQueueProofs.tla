-------------------------- MODULE FreeQueueProofs --------------------------
(***************************************************************************)
(* The linked list of free blocks implements the queue the block pool      *)
(* expects, for any number of blocks and any sequence of calls.            *)
(***************************************************************************)
EXTENDS FreeKVCacheBlockQueue, SequenceLemmas

-----------------------------------------------------------------------------
(* The list and the sequence it stands for. *)

(* Position i of the list of the blocks of q, the fake ends at 0 and at    *)
(* Len(q) + 1.                                                             *)
At(q, i) == IF i = 0 THEN FakeHead ELSE IF i = Len(q) + 1 THEN FakeTail ELSE q[i]

Linked(q) ==
    /\ q \in Seq(Block) /\ IsInjective(q) /\ num_free_blocks = Len(q)
    /\ next_free_block \in [Node -> Node \cup {None}] /\ next_free_block[FakeTail] = None
    /\ prev_free_block \in [Node -> Node \cup {None}] /\ prev_free_block[FakeHead] = None
    /\ \A i \in 0 .. Len(q) : /\ next_free_block[At(q, i)] = At(q, i + 1)
                              /\ prev_free_block[At(q, i + 1)] = At(q, i)
    /\ \A b \in Block \ Range(q) : next_free_block[b] = None /\ prev_free_block[b] = None

(* The pointers thread the fake ends and a sequence of distinct blocks; a  *)
(* block that is not in it has none.                                       *)
LinkInv == \E q : Linked(q)

(* The fake ends and the missing neighbour are no blocks. *)
LEMMA Nodes ==
    /\ FakeHead \in Node /\ FakeTail \in Node /\ None \notin Node
    /\ FakeHead \notin Block /\ FakeTail \notin Block /\ FakeHead # FakeTail
    /\ Block \subseteq Node /\ IsFiniteSet(Block) /\ Block \subseteq Int
  <1>1. IsFiniteSet(Block)
    BY BlockCount, FS_Interval DEF Block
  <1> QED  BY <1>1, BlockCount DEF Node, Block, FakeHead, FakeTail, None

(* The positions of a list are different nodes. *)
LEMMA Positions ==
    ASSUME NEW q \in Seq(Block), IsInjective(q)
    PROVE  /\ Len(q) \in Nat /\ At(q, 0) = FakeHead /\ At(q, Len(q) + 1) = FakeTail
           /\ \A i \in 1 .. Len(q) : At(q, i) = q[i] /\ q[i] \in Block
           /\ \A i \in 0 .. Len(q) + 1 : At(q, i) \in Node
           /\ \A i, j \in 0 .. Len(q) + 1 : At(q, i) = At(q, j) => i = j
           /\ \A b : b \in Range(q) <=> \E i \in 1 .. Len(q) : b = q[i]
  <1>1. Len(q) \in Nat /\ DOMAIN q = 1 .. Len(q) /\ \A i \in 1 .. Len(q) : q[i] \in Block
    OBVIOUS
  <1>2. \A i \in 1 .. Len(q) : i # 0 /\ i # Len(q) + 1 /\ i \in 0 .. Len(q) + 1
    BY <1>1
  <1>3. \A i \in 0 .. Len(q) + 1 : i = 0 \/ i = Len(q) + 1 \/ i \in 1 .. Len(q)
    BY <1>1
  <1>4. \A i \in 1 .. Len(q) : At(q, i) = q[i]
    BY <1>2 DEF At
  <1>5. Len(q) + 1 # 0 /\ At(q, 0) = FakeHead /\ At(q, Len(q) + 1) = FakeTail
    BY <1>1 DEF At
  <1>6. \A i, j \in 1 .. Len(q) : q[i] = q[j] => i = j
    BY <1>1 DEF IsInjective
  <1>7. \A i \in 0 .. Len(q) + 1 : At(q, i) \in Node
    BY <1>1, <1>3, <1>4, <1>5, Nodes
  <1>8. ASSUME NEW i \in 0 .. Len(q) + 1, NEW j \in 0 .. Len(q) + 1, At(q, i) = At(q, j)
        PROVE  i = j
    BY <1>1, <1>3, <1>4, <1>5, <1>6, <1>8, Nodes
  <1>9. \A b : b \in Range(q) <=> \E i \in 1 .. Len(q) : b = q[i]
    BY <1>1 DEF Range
  <1> QED  BY <1>1, <1>4, <1>5, <1>7, <1>8, <1>9

(* A block that has a neighbour is in the list. *)
LEMMA LinkedBlock ==
    ASSUME NEW q, Linked(q), NEW b \in Block,
           next_free_block[b] # None \/ prev_free_block[b] # None
    PROVE  \E k \in 1 .. Len(q) : b = At(q, k)
  <1>1. b \in Range(q)
    BY DEF Linked
  <1> QED  BY <1>1, Positions DEF Linked

(* The links of the list. *)
LEMMA Links ==
    ASSUME NEW q, Linked(q)
    PROVE  /\ Len(q) \in Nat /\ next_free_block[FakeTail] = None
           /\ \A i \in 0 .. Len(q) : /\ next_free_block[At(q, i)] = At(q, i + 1)
                                     /\ At(q, i) \in Node /\ At(q, i + 1) \in Node
  <1>1. \A i \in 0 .. Len(q) : i \in 0 .. Len(q) + 1 /\ i + 1 \in 0 .. Len(q) + 1
    BY Positions DEF Linked
  <1> QED  BY <1>1, Positions DEF Linked

-----------------------------------------------------------------------------
(* Following the pointers. *)

(* n links behind the first block. *)
LEMMA Followed ==
    ASSUME NEW q, Linked(q), NEW n \in Nat
    PROVE  Advance(next_free_block[FakeHead], n) = IF n <= Len(q) THEN At(q, n + 1) ELSE None
  <1> DEFINE b == next_free_block[FakeHead]
             step(f) == [i \in 0 .. n |->
                           IF i = 0 THEN b
                           ELSE IF f[i - 1] = None THEN None ELSE next_free_block[f[i - 1]]]
             curr == CHOOSE f : f = step(f)
             val(i) == IF i <= Len(q) THEN At(q, i + 1) ELSE None
  <1>1. Len(q) \in Nat /\ b = At(q, 1) /\ val(0) = b
    <2>1. At(q, 0) = FakeHead /\ 0 \in 0 .. Len(q) /\ Len(q) \in Nat
      BY Positions DEF Linked
    <2>2. next_free_block[At(q, 0)] = At(q, 0 + 1)
      BY <2>1 DEF Linked
    <2> QED  BY <2>1, <2>2
  <1>2. ASSUME NEW i \in Nat
        PROVE  val(i + 1) = IF val(i) = None THEN None ELSE next_free_block[val(i)]
    <2>1. CASE i + 1 <= Len(q)
      <3>1. i <= Len(q) /\ i + 1 \in 0 .. Len(q)
        BY <1>1, <2>1
      <3>2. val(i) = At(q, i + 1) /\ val(i + 1) = At(q, i + 1 + 1)
        BY <2>1, <3>1
      <3>3. next_free_block[At(q, i + 1)] = At(q, i + 1 + 1) /\ At(q, i + 1) \in Node
        BY <3>1, Links
      <3> QED  BY <3>2, <3>3, Nodes
    <2>2. CASE i = Len(q)
      <3>1. val(i) = FakeTail /\ val(i + 1) = None
        BY <1>1, <2>2, Positions DEF Linked
      <3> QED  BY <3>1, Links
    <2>3. CASE i > Len(q)
      BY <1>1, <2>3
    <2> QED  BY <1>1, <2>1, <2>2, <2>3
  <1> HIDE DEF val
  <1>3. curr = step(curr)
    <2> DEFINE f == [i \in 0 .. n |-> val(i)]
    <2>1. ASSUME NEW i \in 0 .. n
          PROVE  f[i] = IF i = 0 THEN b
                        ELSE IF f[i - 1] = None THEN None ELSE next_free_block[f[i - 1]]
      <3>1. CASE i = 0
        BY <1>1, <3>1
      <3>2. CASE i # 0
        <4>1. i - 1 \in Nat /\ i - 1 \in 0 .. n /\ (i - 1) + 1 = i
          BY <3>2
        <4>2. f[i] = val((i - 1) + 1) /\ f[i - 1] = val(i - 1)
          BY <4>1
        <4> QED  BY <4>1, <4>2, <3>2, <1>2
      <3> QED  BY <3>1, <3>2
    <2>2. f = step(f)
      BY <2>1
    <2> HIDE DEF step, f
    <2> QED  BY <2>2
  <1> DEFINE S == {k \in Nat : k <= n => curr[k] = val(k)}
  <1> HIDE DEF curr
  <1>4. 0 \in S
    BY <1>1, <1>3
  <1>5. ASSUME NEW k \in Nat, k \in S PROVE k + 1 \in S
    <2> SUFFICES ASSUME k + 1 <= n PROVE curr[k + 1] = val(k + 1)
      OBVIOUS
    <2>1. curr[k] = val(k) /\ k + 1 \in 0 .. n /\ k + 1 # 0 /\ (k + 1) - 1 = k
      BY <1>5
    <2>2. curr[k + 1] = IF curr[k] = None THEN None ELSE next_free_block[curr[k]]
      BY <1>3, <2>1
    <2> QED  BY <2>1, <2>2, <1>2
  <1> HIDE DEF S
  <1>6. n \in S
    BY <1>4, <1>5, NatInductive
  <1>7. curr[n] = val(n)
    BY <1>6 DEF S
  <1> QED  BY <1>7 DEF Advance, curr, val

(* get_all_free_blocks walks the list from end to end. *)
LEMMA ListIsQueue == \A q : Linked(q) => GetAllFreeBlocks = q
  <1> SUFFICES ASSUME NEW q, Linked(q) PROVE GetAllFreeBlocks = q
    OBVIOUS
  <1> DEFINE first == next_free_block[FakeHead]
             free  == {i \in 0 .. Cardinality(Block) :
                         Advance(first, i) # None /\ next_free_block[Advance(first, i)] # None}
  <1>1. Len(q) \in Nat /\ Len(q) <= Cardinality(Block) /\ Cardinality(Block) \in Nat
    <2>1. \A b \in Range(q) : b \in Block
      BY Positions DEF Linked
    <2>2. IsFiniteSet(Range(q)) /\ Cardinality(Range(q)) <= Cardinality(Block)
      BY <2>1, Nodes, FS_Subset
    <2>3. Len(q) \in Nat /\ DOMAIN q = 1 .. Len(q) /\ IsFiniteSet(1 .. Len(q))
          /\ Cardinality(1 .. Len(q)) = Len(q)
      <3>1. Len(q) \in Nat /\ DOMAIN q = 1 .. Len(q)
        BY DEF Linked
      <3> QED  BY <3>1, IntervalFacts
    <2>4. q \in [1 .. Len(q) -> Range(q)]
      <3>1. \A i \in 1 .. Len(q) : q[i] \in Range(q)
        BY Positions DEF Linked
      <3>2. q = [i \in 1 .. Len(q) |-> q[i]]
        BY <2>3 DEF Linked
      <3> QED  BY <3>1, <3>2
    <2>5. IsInjective(q)
      BY DEF Linked
    <2>6. Cardinality(1 .. Len(q)) <= Cardinality(Range(q))
      <3>1. q \in Injection(1 .. Len(q), Range(q))
        BY <2>4, <2>5 DEF Injection
      <3> QED  BY <3>1, <2>2, <2>3, FS_Injection
    <2> QED  BY <2>2, <2>3, <2>6, Nodes, FS_CardinalityType
  <1>2. ASSUME NEW i \in 0 .. Cardinality(Block)
        PROVE  i \in free <=> i < Len(q)
    <2>1. i \in Nat /\ Advance(first, i) = IF i <= Len(q) THEN At(q, i + 1) ELSE None
      BY <1>1, Followed
    <2>2. CASE i < Len(q)
      <3>1. i <= Len(q) /\ i + 1 \in 0 .. Len(q) /\ i + 1 + 1 \in 0 .. Len(q) + 1
        BY <2>1, <2>2, <1>1
      <3>2. next_free_block[At(q, i + 1)] = At(q, i + 1 + 1) /\ At(q, i + 1) # None
            /\ At(q, i + 1 + 1) # None
        BY <3>1, Links, Nodes
      <3> QED  BY <2>1, <2>2, <3>1, <3>2
    <2>3. CASE i = Len(q)
      <3>1. Advance(first, i) = FakeTail
        BY <2>1, <2>3, <1>1, Positions DEF Linked
      <3> QED  BY <3>1, <2>3, <1>1, Links
    <2>4. CASE i > Len(q)
      <3>1. Advance(first, i) = None
        BY <2>1, <2>4, <1>1
      <3> QED  BY <3>1, <2>1, <2>4, <1>1
    <2> QED  BY <2>1, <2>2, <2>3, <2>4, <1>1
  <1>3. free = 0 .. Len(q) - 1
    <2>1. \A i \in 0 .. Len(q) - 1 : i \in 0 .. Cardinality(Block) /\ i < Len(q)
      BY <1>1
    <2>2. \A i \in free : i \in 0 .. Cardinality(Block)
      OBVIOUS
    <2>3. \A i \in 0 .. Cardinality(Block) : i < Len(q) => i \in 0 .. Len(q) - 1
      BY <1>1
    <2> HIDE DEF free
    <2> QED  BY <2>1, <2>2, <2>3, <1>2
  <1>4. Cardinality(free) = Len(q)
    <2>1. Cardinality(0 .. Len(q) - 1) = Len(q)
      <3>1. Len(q) - 1 \in Int /\ 0 \in Int
        BY <1>1
      <3>2. Cardinality(0 .. Len(q) - 1) = IF 0 > Len(q) - 1 THEN 0 ELSE (Len(q) - 1) - 0 + 1
        BY <3>1, FS_Interval
      <3> QED  BY <3>2, <1>1
    <2> QED  BY <2>1, <1>3
  <1>5. GetAllFreeBlocks = [i \in 1 .. Len(q) |-> Advance(first, i - 1)]
    <2>1. GetAllFreeBlocks = [i \in 1 .. Cardinality(free) |-> Advance(first, i - 1)]
      BY DEF GetAllFreeBlocks
    <2> HIDE DEF free, first
    <2> QED  BY <2>1, <1>4
  <1>6. ASSUME NEW i \in 1 .. Len(q) PROVE Advance(first, i - 1) = q[i]
    <2>1. i - 1 \in Nat /\ i - 1 <= Len(q) /\ (i - 1) + 1 = i
      BY <1>1
    <2>2. Advance(first, i - 1) = At(q, (i - 1) + 1)
      BY <2>1, Followed
    <2> QED  BY <2>1, <2>2, Positions DEF Linked
  <1>7. q = [i \in 1 .. Len(q) |-> q[i]]
    BY DEF Linked
  <1> HIDE DEF first
  <1> QED  BY <1>5, <1>6, <1>7

(* The same after a step. *)
LEMMA ListIsQueueNext == \A q : Linked(q)' => GetAllFreeBlocks' = q
  <1>1. (\A q : Linked(q) => GetAllFreeBlocks = q)'
    BY ListIsQueue, PTL
  <1> QED  BY <1>1

-----------------------------------------------------------------------------
(* What the calls do to the list. *)

(* The first n blocks are cut off, r is left. *)
Cut(q, n) ==
    /\ next_free_block' \in [Node -> Node \cup {None}]
    /\ prev_free_block' \in [Node -> Node \cup {None}]
    /\ num_free_blocks' = num_free_blocks - n
    /\ \A x \in Node : \/ /\ \E i \in 1 .. n : x = At(q, i)
                          /\ next_free_block'[x] = None /\ prev_free_block'[x] = None
                       \/ /\ ~\E i \in 1 .. n : x = At(q, i)
                          /\ next_free_block'[x] = IF x = FakeHead THEN At(q, n + 1)
                                                   ELSE next_free_block[x]
                          /\ prev_free_block'[x] = IF x = At(q, n + 1) THEN FakeHead
                                                   ELSE prev_free_block[x]

Rest(q, n, r) ==
    r \in Seq(Block) /\ Len(r) = Len(q) - n /\ \A i \in 1 .. Len(r) : r[i] = q[n + i]

(* The first n blocks leave the list. *)
LEMMA PrefixUnlinked ==
    ASSUME NEW q, Linked(q), NEW n \in 1 .. Len(q), NEW r, Rest(q, n, r), Cut(q, n)
    PROVE  Linked(r)'
  <1> DEFINE First == {At(q, i) : i \in 1 .. n}
  <1>a. \A x : x \in First <=> \E i \in 1 .. n : x = At(q, i)
    OBVIOUS
  <1> HIDE DEF First
  <1>b. /\ next_free_block' \in [Node -> Node \cup {None}]
        /\ prev_free_block' \in [Node -> Node \cup {None}]
        /\ num_free_blocks' = num_free_blocks - n
        /\ \A x \in Node : x \in First => next_free_block'[x] = None /\ prev_free_block'[x] = None
        /\ \A x \in Node : x \notin First =>
              /\ next_free_block'[x] = IF x = FakeHead THEN At(q, n + 1) ELSE next_free_block[x]
              /\ prev_free_block'[x] = IF x = At(q, n + 1) THEN FakeHead ELSE prev_free_block[x]
    BY <1>a DEF Cut
  <1>c. r \in Seq(Block) /\ Len(r) = Len(q) - n /\ \A i \in 1 .. Len(r) : r[i] = q[n + i]
    BY DEF Rest
  <1> DEFINE m == Len(q)
  <1>0. /\ m \in Nat /\ At(q, 0) = FakeHead /\ At(q, m + 1) = FakeTail
        /\ \A i \in 1 .. m : At(q, i) = q[i] /\ q[i] \in Block
        /\ \A i \in 0 .. m + 1 : At(q, i) \in Node
        /\ \A i, j \in 0 .. m + 1 : At(q, i) = At(q, j) => i = j
        /\ \A b : b \in Range(q) <=> \E i \in 1 .. m : b = q[i]
    BY Positions DEF Linked
  <1>1. m \in Nat /\ n \in Nat /\ n >= 1 /\ n <= m /\ Len(r) = m - n /\ Len(r) \in Nat
    BY <1>0, <1>c
  <1>2. At(r, 0) = FakeHead /\ \A i \in 1 .. Len(r) + 1 : At(r, i) = At(q, n + i)
    <2>1. ASSUME NEW i \in 1 .. Len(r) + 1 PROVE At(r, i) = At(q, n + i)
      <3>1. CASE i = Len(r) + 1
        <4>1. n + i = m + 1 /\ i # 0
          BY <3>1, <1>1
        <4> QED  BY <4>1, <3>1, <1>0 DEF At
      <3>2. CASE i # Len(r) + 1
        <4>1. i \in 1 .. Len(r) /\ n + i \in 1 .. m /\ i # 0
          BY <3>2, <1>1
        <4> QED  BY <4>1, <3>2, <1>0, <1>c DEF At
      <3> QED  BY <3>1, <3>2
    <2> QED  BY <2>1 DEF At
  <1>3. ASSUME NEW i \in 0 .. m + 1, i = 0 \/ i > n PROVE At(q, i) \notin First
    <2>1. \A j \in 1 .. n : j \in 0 .. m + 1 /\ j # i
      BY <1>1, <1>3
    <2> QED  BY <2>1, <1>0, <1>a
  <1>4. IsInjective(r)
    <2>1. DOMAIN r = 1 .. Len(r)
      BY <1>c
    <2>2. ASSUME NEW i \in 1 .. Len(r), NEW j \in 1 .. Len(r), r[i] = r[j] PROVE i = j
      <3>1. n + i \in 1 .. m /\ n + j \in 1 .. m /\ n + i \in 0 .. m + 1 /\ n + j \in 0 .. m + 1
        BY <1>1
      <3>2. At(q, n + i) = At(q, n + j)
        <4>1. r[i] = q[n + i] /\ r[j] = q[n + j]
          BY <1>c
        <4>2. At(q, n + i) = q[n + i] /\ At(q, n + j) = q[n + j]
          BY <3>1, <1>0
        <4> QED  BY <4>1, <4>2, <2>2
      <3>3. n + i = n + j
        BY <3>1, <3>2, <1>0
      <3> QED  BY <3>3, <1>1
    <2> QED  BY <2>1, <2>2 DEF IsInjective
  <1>5. num_free_blocks' = Len(r)
    BY <1>1, <1>b DEF Linked
  <1>6. next_free_block'[FakeTail] = None /\ prev_free_block'[FakeHead] = None
    <2>1. 0 \in 0 .. m + 1 /\ m + 1 \in 0 .. m + 1 /\ m + 1 > n /\ n + 1 \in 0 .. m + 1 /\ n + 1 # 0
      BY <1>0, <1>1
    <2>2. FakeTail \notin First /\ FakeHead \notin First /\ FakeHead # At(q, n + 1)
      <3>1. At(q, 0) \notin First /\ At(q, m + 1) \notin First /\ At(q, 0) # At(q, n + 1)
        BY <2>1, <1>3, <1>0
      <3> QED  BY <3>1, <1>0
    <2> QED  BY <2>2, <1>b, Nodes DEF Linked
  <1>7. ASSUME NEW i \in 0 .. Len(r)
        PROVE  next_free_block'[At(r, i)] = At(r, i + 1) /\ prev_free_block'[At(r, i + 1)] = At(r, i)
    <2>1. /\ i + 1 \in 1 .. Len(r) + 1 /\ n + (i + 1) \in 0 .. m + 1 /\ n + (i + 1) > n
          /\ n + 1 \in 0 .. m + 1 /\ n + (i + 1) = n + i + 1
      BY <1>1
    <2>2. At(r, i + 1) = At(q, n + i + 1) /\ At(q, n + i + 1) \notin First /\ At(q, n + i + 1) \in Node
      BY <2>1, <1>0, <1>2, <1>3
    <2>3. CASE i = 0
      <3>1. FakeHead \notin First /\ FakeHead \in Node
        BY <1>0, <1>1, <1>3, Nodes
      <3>2. At(r, i) = FakeHead /\ n + i + 1 = n + 1
        BY <2>3, <1>1, <1>2
      <3>3. next_free_block'[FakeHead] = At(q, n + 1)
        BY <3>1, <1>b
      <3>4. prev_free_block'[At(q, n + 1)] = FakeHead
        BY <2>2, <3>2, <1>b
      <3> QED  BY <2>2, <3>2, <3>3, <3>4
    <2>4. CASE i # 0
      <3>1. /\ i \in 1 .. Len(r) + 1 /\ n + i \in 0 .. m /\ n + i \in 0 .. m + 1 /\ n + i > n /\ n + i # 0
            /\ n + i + 1 # n + 1 /\ 0 \in 0 .. m + 1
        BY <2>4, <1>1
      <3>2. /\ At(r, i) = At(q, n + i) /\ At(q, n + i) \notin First /\ At(q, n + i) \in Node
            /\ At(q, n + i) # FakeHead /\ At(q, n + i + 1) # At(q, n + 1)
        <4>1. At(q, n + i) # At(q, 0) /\ At(q, n + i + 1) # At(q, n + 1)
          BY <2>1, <3>1, <1>0
        <4> QED  BY <4>1, <3>1, <1>0, <1>2, <1>3
      <3>3. next_free_block'[At(q, n + i)] = next_free_block[At(q, n + i)]
        BY <3>2, <1>b
      <3>4. prev_free_block'[At(q, n + i + 1)] = prev_free_block[At(q, n + i + 1)]
        BY <2>2, <3>2, <1>b
      <3>5. next_free_block[At(q, n + i)] = At(q, n + i + 1) /\ prev_free_block[At(q, n + i + 1)] = At(q, n + i)
        BY <3>1 DEF Linked
      <3> QED  BY <2>2, <3>2, <3>3, <3>4, <3>5
    <2> QED  BY <2>3, <2>4
  <1>8. ASSUME NEW b \in Block \ Range(r)
        PROVE  next_free_block'[b] = None /\ prev_free_block'[b] = None
    <2>1. b \in Node /\ b # FakeHead /\ b # FakeTail
      BY Nodes
    <2>2. CASE b \in First
      BY <2>1, <2>2, <1>b
    <2>3. CASE b \notin First
      <3>1. b \notin Range(q)
        <4> SUFFICES ASSUME NEW i \in 1 .. m, b = q[i] PROVE FALSE
          BY <1>0
        <4>1. i > n
          <5>1. i <= n => i \in 1 .. n
            BY <1>1
          <5>2. b = At(q, i)
            BY <1>0
          <5> QED  BY <5>1, <5>2, <2>3, <1>1, <1>a
        <4>2. i - n \in 1 .. Len(r) /\ n + (i - n) = i
          BY <4>1, <1>1
        <4>3. r[i - n] = b
          BY <4>2, <1>c
        <4> QED  BY <4>2, <4>3, <1>c DEF Range
      <3>2. b # At(q, n + 1)
        <4>1. n + 1 = m + 1 \/ n + 1 \in 1 .. m
          BY <1>1
        <4> QED  BY <4>1, <3>1, <2>1, <1>0
      <3>3. next_free_block[b] = None /\ prev_free_block[b] = None
        BY <3>1 DEF Linked
      <3> QED  BY <2>1, <2>3, <3>2, <3>3, <1>b
    <2> QED  BY <2>2, <2>3
  <1> QED  BY <1>4, <1>5, <1>6, <1>7, <1>8, <1>b, <1>c DEF Linked

(* popleft gives out the head of the queue. *)
LEMMA PopleftStep ==
    ASSUME NEW q, Linked(q), Popleft
    PROVE  q # <<>> /\ taken' = <<Head(q)>> /\ Linked(Tail(q))'
  <1> DEFINE first_block == next_free_block[FakeHead]
             second      == next_free_block[first_block]
  <1>1. Len(q) \in Nat /\ At(q, 0) = FakeHead /\ first_block = At(q, 1)
    <2>1. At(q, 0) = FakeHead /\ 0 \in 0 .. Len(q) /\ Len(q) \in Nat
      BY Positions DEF Linked
    <2>2. next_free_block[At(q, 0)] = At(q, 0 + 1)
      BY <2>1 DEF Linked
    <2> QED  BY <2>1, <2>2
  <1>2. 1 \in 1 .. Len(q)
    <2>1. Len(q) # 0
      BY <1>1, Positions DEF Popleft, Linked
    <2> QED  BY <2>1, <1>1
  <1>3. second = At(q, 2) /\ second \in Node /\ first_block \in Node
    <2>1. 1 \in 0 .. Len(q) /\ 1 + 1 = 2
      BY <1>2
    <2>2. next_free_block[At(q, 1)] = At(q, 1 + 1) /\ At(q, 1 + 1) \in Node /\ At(q, 1) \in Node
      BY <2>1, Links
    <2> QED  BY <2>1, <2>2, <1>1
  <1>4. /\ next_free_block' = [next_free_block EXCEPT ![FakeHead] = second, ![first_block] = None]
        /\ prev_free_block' = [prev_free_block EXCEPT ![second] = FakeHead, ![first_block] = None]
        /\ num_free_blocks' = num_free_blocks - 1 /\ taken' = <<first_block>>
    BY DEF Popleft
  <1>5. q # <<>> /\ Head(q) = q[1] /\ q \in Seq(Block)
    BY <1>2 DEF Linked
  <1>6. /\ Tail(q) \in Seq(Block) /\ Len(Tail(q)) = Len(q) - 1
        /\ \A i \in 1 .. Len(Tail(q)) : Tail(q)[i] = q[1 + i]
    BY <1>5
  <1>7. next_free_block \in [Node -> Node \cup {None}] /\ prev_free_block \in [Node -> Node \cup {None}]
    BY DEF Linked
  <1> HIDE DEF first_block, second
  <1>8. first_block # second /\ first_block # FakeHead /\ FakeHead \in Node
    <2>1. 0 \in 0 .. Len(q) + 1 /\ 1 \in 0 .. Len(q) + 1 /\ 2 \in 0 .. Len(q) + 1
      BY <1>1, <1>2
    <2>2. At(q, 1) # At(q, 2) /\ At(q, 1) # At(q, 0)
      BY <2>1, Positions DEF Linked
    <2> QED  BY <2>2, <1>1, <1>3, Nodes
  <1>9. /\ next_free_block' \in [Node -> Node \cup {None}]
        /\ prev_free_block' \in [Node -> Node \cup {None}]
    BY <1>3, <1>4, <1>7, <1>8
  <1>10. Cut(q, 1)
    <2>1. \A x : x = first_block <=> \E i \in 1 .. 1 : x = At(q, i)
      BY <1>1
    <2>2. next_free_block'[first_block] = None /\ prev_free_block'[first_block] = None
      BY <1>3, <1>4, <1>7, <1>8
    <2>3. ASSUME NEW x \in Node, x # first_block
          PROVE  /\ next_free_block'[x] = IF x = FakeHead THEN second ELSE next_free_block[x]
                 /\ prev_free_block'[x] = IF x = second THEN FakeHead ELSE prev_free_block[x]
      BY <2>3, <1>3, <1>4, <1>7, <1>8
    <2>4. second = At(q, 1 + 1) /\ num_free_blocks' = num_free_blocks - 1
      BY <1>3, <1>4
    <2> QED  BY <2>1, <2>2, <2>3, <2>4, <1>9 DEF Cut
  <1>11. Linked(Tail(q))'
    <2> DEFINE r == Tail(q)
    <2>1. Rest(q, 1, r)
      BY <1>6 DEF Rest
    <2> HIDE DEF r
    <2>2. Linked(r)'
      BY <2>1, <1>2, <1>10, PrefixUnlinked
    <2> QED  BY <2>2 DEF r
  <1>12. first_block = q[1]
    BY <1>1, <1>2, Positions DEF Linked
  <1> QED  BY <1>4, <1>5, <1>11, <1>12

(* popleft_n gives out the first n blocks of the queue. *)
LEMMA PopleftNStep ==
    ASSUME NEW q, Linked(q), NEW n \in Nat, PopleftN(n)
    PROVE  /\ n \in 0 .. Len(q) /\ taken' = SubSeq(q, 1, n)
           /\ Linked(SubSeq(q, n + 1, Len(q)))'
  <1> DEFINE first == next_free_block[FakeHead]
             ret   == [i \in 1 .. n |-> Advance(first, i - 1)]
             curr  == Advance(first, n)
             r     == SubSeq(q, n + 1, Len(q))
  <1>1. Len(q) \in Nat /\ n <= Len(q) /\ q \in Seq(Block) /\ \A i \in 1 .. Len(q) : At(q, i) = q[i]
    BY Positions DEF Linked, PopleftN
  <1>2. curr = At(q, n + 1)
    BY <1>1, Followed
  <1>3. ret = SubSeq(q, 1, n) /\ \A i \in 1 .. n : ret[i] = At(q, i)
    <2>1. ASSUME NEW i \in 1 .. n PROVE Advance(first, i - 1) = At(q, i) /\ At(q, i) = q[i]
      <3>1. i - 1 \in Nat /\ i - 1 <= Len(q) /\ (i - 1) + 1 = i /\ i \in 1 .. Len(q)
        BY <1>1
      <3>2. Advance(first, i - 1) = At(q, (i - 1) + 1)
        BY <3>1, Followed
      <3> QED  BY <3>1, <3>2, <1>1
    <2>2. SubSeq(q, 1, n) = [i \in 1 .. n |-> q[i]]
      BY <1>1
    <2> HIDE DEF first
    <2> QED  BY <2>1, <2>2
  <1>4. /\ r \in Seq(Block) /\ Len(r) = Len(q) - n /\ \A i \in 1 .. Len(r) : r[i] = q[n + i]
    BY <1>1
  <1>5. /\ taken' = ret /\ num_free_blocks' = num_free_blocks - n
        /\ next_free_block' = [x \in Node |-> IF x \in Range(ret) THEN None
                                  ELSE IF x = FakeHead /\ n > 0 THEN curr
                                  ELSE next_free_block[x]]
        /\ prev_free_block' = [x \in Node |-> IF x \in Range(ret) THEN None
                                  ELSE IF x = curr /\ n > 0 THEN FakeHead
                                  ELSE prev_free_block[x]]
    BY DEF PopleftN
  <1>6. \A x : x \in Range(ret) <=> \E i \in 1 .. n : x = At(q, i)
    <2>1. DOMAIN ret = 1 .. n
      OBVIOUS
    <2> HIDE DEF ret
    <2> QED  BY <2>1, <1>3 DEF Range
  <1>7. /\ next_free_block \in [Node -> Node \cup {None}] /\ prev_free_block \in [Node -> Node \cup {None}]
        /\ At(q, n + 1) \in Node /\ FakeHead \in Node
    <2>1. n + 1 \in 0 .. Len(q) + 1
      BY <1>1
    <2> QED  BY <2>1, Positions, Nodes DEF Linked
  <1> HIDE DEF first, ret, curr, r
  <1>8. CASE n = 0
    <2>1. r = q
      <3>1. Len(r) = Len(q) /\ \A i \in 1 .. Len(q) : r[i] = q[i]
        BY <1>1, <1>4, <1>8
      <3> QED  BY <3>1, <1>1, <1>4
    <2>2. UNCHANGED <<next_free_block, prev_free_block, num_free_blocks>>
      <3>1. Range(ret) = {} /\ ~(n > 0)
        BY <1>6, <1>8
      <3>2. num_free_blocks' = num_free_blocks
        BY <1>1, <1>5, <1>8 DEF Linked
      <3>3. /\ next_free_block = [x \in Node |-> next_free_block[x]]
            /\ prev_free_block = [x \in Node |-> prev_free_block[x]]
        BY <1>7
      <3> QED  BY <3>1, <3>2, <3>3, <1>5
    <2>3. Linked(q)'
      BY <2>2 DEF Linked
    <2>4. n \in 0 .. Len(q) /\ taken' = SubSeq(q, 1, n)
      BY <1>1, <1>3, <1>5
    <2> QED  BY <2>1, <2>3, <2>4 DEF r
  <1>9. CASE n # 0
    <2>1. n \in 1 .. Len(q) /\ n > 0
      BY <1>1, <1>9
    <2>2. /\ \A x \in Node : next_free_block'[x] = IF x \in Range(ret) THEN None
                                ELSE IF x = FakeHead THEN At(q, n + 1) ELSE next_free_block[x]
          /\ \A x \in Node : prev_free_block'[x] = IF x \in Range(ret) THEN None
                                ELSE IF x = At(q, n + 1) THEN FakeHead ELSE prev_free_block[x]
      BY <2>1, <1>2, <1>5
    <2>3. /\ next_free_block' \in [Node -> Node \cup {None}]
          /\ prev_free_block' \in [Node -> Node \cup {None}]
      <3>1. \A x \in Node : /\ next_free_block'[x] \in Node \cup {None}
                            /\ prev_free_block'[x] \in Node \cup {None}
        BY <2>2, <1>7
      <3> QED  BY <3>1, <1>5
    <2>4. Cut(q, n)
      <3>1. ASSUME NEW x \in Node, x \in Range(ret)
            PROVE  next_free_block'[x] = None /\ prev_free_block'[x] = None
        BY <3>1, <2>2
      <3>2. ASSUME NEW x \in Node, x \notin Range(ret)
            PROVE  /\ next_free_block'[x] = IF x = FakeHead THEN At(q, n + 1) ELSE next_free_block[x]
                   /\ prev_free_block'[x] = IF x = At(q, n + 1) THEN FakeHead ELSE prev_free_block[x]
        BY <3>2, <2>2
      <3>3. num_free_blocks' = num_free_blocks - n
        BY <1>5
      <3> QED  BY <3>1, <3>2, <3>3, <2>3, <1>6 DEF Cut
    <2>5. Linked(r)'
      <3>1. Rest(q, n, r)
        BY <1>4 DEF Rest
      <3> QED  BY <3>1, <2>1, <2>4, PrefixUnlinked
    <2> QED  BY <2>5, <1>1, <1>3, <1>5 DEF r
  <1> QED  BY <1>8, <1>9

(* remove takes a block out of the middle of the queue. *)
LEMMA RemoveBlockStep ==
    ASSUME NEW q, Linked(q), NEW b \in Block, RemoveBlock(b)
    PROVE  taken' = <<>> /\ \E k \in DOMAIN q : q[k] = b /\ Linked(RemoveAt(q, k))'
  <1> DEFINE before == prev_free_block[b]
             after  == next_free_block[b]
             m      == Len(q)
  <1>0. /\ m \in Nat /\ At(q, 0) = FakeHead /\ At(q, m + 1) = FakeTail
        /\ \A i \in 1 .. m : At(q, i) = q[i] /\ q[i] \in Block
        /\ \A i \in 0 .. m + 1 : At(q, i) \in Node
        /\ \A i, j \in 0 .. m + 1 : At(q, i) = At(q, j) => i = j
        /\ \A x : x \in Range(q) <=> \E i \in 1 .. m : x = q[i]
    BY Positions DEF Linked
  <1>1. PICK k \in 1 .. m : b = At(q, k)
    BY LinkedBlock DEF RemoveBlock
  <1>2. /\ k \in 0 .. m /\ k - 1 \in 0 .. m /\ k \in 0 .. m + 1 /\ k - 1 \in 0 .. m + 1
        /\ k + 1 \in 0 .. m + 1 /\ (k - 1) + 1 = k
    BY <1>0
  <1>3. before = At(q, k - 1) /\ after = At(q, k + 1)
    <2>1. next_free_block[At(q, k)] = At(q, k + 1) /\ prev_free_block[At(q, (k - 1) + 1)] = At(q, k - 1)
      BY <1>2 DEF Linked
    <2> QED  BY <2>1, <1>1, <1>2
  <1>4. /\ next_free_block' = [next_free_block EXCEPT ![before] = after, ![b] = None]
        /\ prev_free_block' = [prev_free_block EXCEPT ![after] = before, ![b] = None]
        /\ num_free_blocks' = num_free_blocks - 1 /\ taken' = <<>>
    BY DEF RemoveBlock
  <1>5. /\ next_free_block \in [Node -> Node \cup {None}] /\ prev_free_block \in [Node -> Node \cup {None}]
        /\ q \in Seq(Block) /\ IsInjective(q)
    BY DEF Linked
  <1> HIDE DEF before, after
  <1>6. /\ before \in Node /\ after \in Node /\ b \in Node /\ b # before /\ b # after
        /\ before # FakeTail /\ after # FakeHead
    <2>1. /\ At(q, k - 1) # At(q, k) /\ At(q, k + 1) # At(q, k) /\ At(q, k - 1) # At(q, m + 1)
          /\ At(q, k + 1) # At(q, 0)
      <3>1. k - 1 # k /\ k + 1 # k /\ k - 1 # m + 1 /\ k + 1 # 0 /\ m + 1 \in 0 .. m + 1 /\ 0 \in 0 .. m + 1
        BY <1>0
      <3> QED  BY <3>1, <1>0, <1>2
    <2> QED  BY <2>1, <1>0, <1>1, <1>2, <1>3
  <1>7. /\ next_free_block' \in [Node -> Node \cup {None}] /\ prev_free_block' \in [Node -> Node \cup {None}]
        /\ next_free_block'[b] = None /\ prev_free_block'[b] = None
        /\ next_free_block'[before] = after /\ prev_free_block'[after] = before
        /\ \A x \in Node : x # b /\ x # before => next_free_block'[x] = next_free_block[x]
        /\ \A x \in Node : x # b /\ x # after => prev_free_block'[x] = prev_free_block[x]
    BY <1>4, <1>5, <1>6
  <1> DEFINE r == RemoveAt(q, k)
  <1>8. /\ r \in Seq(Block) /\ Len(r) = m - 1 /\ DOMAIN r = 1 .. m - 1
        /\ \A i \in 1 .. m - 1 : r[i] = IF i < k THEN q[i] ELSE q[i + 1]
    BY <1>5, RemoveAtFacts
  <1> HIDE DEF r
  <1>9. ASSUME NEW i \in 0 .. m PROVE At(r, i) = IF i < k THEN At(q, i) ELSE At(q, i + 1)
    <2>1. CASE i = 0
      BY <2>1, <1>0 DEF At
    <2>2. CASE i = m
      <3>1. ~(i < k) /\ i # 0 /\ i = Len(r) + 1 /\ i + 1 = m + 1
        BY <2>2, <1>0, <1>8
      <3> QED  BY <3>1, <1>0 DEF At
    <2>3. CASE i # 0 /\ i # m
      <3>1. i \in 1 .. m - 1 /\ i # Len(r) + 1 /\ i \in 1 .. m /\ i + 1 \in 1 .. m
        BY <2>3, <1>0, <1>8
      <3>2. At(r, i) = r[i]
        BY <3>1, <2>3 DEF At
      <3> QED  BY <3>1, <3>2, <1>0, <1>8
    <2> QED  BY <2>1, <2>2, <2>3
  <1>10. IsInjective(r)
    <2>1. ASSUME NEW i \in 1 .. m - 1, NEW j \in 1 .. m - 1, r[i] = r[j] PROVE i = j
      <3>1. DOMAIN q = 1 .. m /\ i \in 1 .. m /\ i + 1 \in 1 .. m /\ j \in 1 .. m /\ j + 1 \in 1 .. m
        BY <1>0, <1>5
      <3>2. \A x, y \in 1 .. m : q[x] = q[y] => x = y
        BY <3>1, <1>5 DEF IsInjective
      <3>3. r[i] = (IF i < k THEN q[i] ELSE q[i + 1]) /\ r[j] = (IF j < k THEN q[j] ELSE q[j + 1])
        BY <1>8
      <3>4. CASE i < k /\ j < k
        BY <2>1, <3>1, <3>2, <3>3, <3>4
      <3>5. CASE i < k /\ ~(j < k)
        <4>1. i = j + 1
          BY <2>1, <3>1, <3>2, <3>3, <3>5
        <4> QED  BY <4>1, <3>5, <1>2
      <3>6. CASE ~(i < k) /\ j < k
        <4>1. i + 1 = j
          BY <2>1, <3>1, <3>2, <3>3, <3>6
        <4> QED  BY <4>1, <3>6, <1>2
      <3>7. CASE ~(i < k) /\ ~(j < k)
        <4>1. i + 1 = j + 1
          BY <2>1, <3>1, <3>2, <3>3, <3>7
        <4> QED  BY <4>1
      <3> QED  BY <3>4, <3>5, <3>6, <3>7
    <2> QED  BY <2>1, <1>8 DEF IsInjective
  <1>11. num_free_blocks' = Len(r)
    BY <1>4, <1>8 DEF Linked
  <1>12. next_free_block'[FakeTail] = None /\ prev_free_block'[FakeHead] = None
    <2>1. FakeTail # b /\ FakeHead # b /\ FakeTail \in Node /\ FakeHead \in Node
      BY Nodes
    <2> QED  BY <2>1, <1>6, <1>7 DEF Linked
  <1>13. ASSUME NEW i \in 0 .. Len(r)
         PROVE  next_free_block'[At(r, i)] = At(r, i + 1) /\ prev_free_block'[At(r, i + 1)] = At(r, i)
    <2>0. i \in 0 .. m - 1 /\ i \in 0 .. m /\ i + 1 \in 0 .. m /\ i \in 0 .. m + 1 /\ i + 1 \in 0 .. m + 1
      BY <1>0, <1>8
    <2>1. CASE i + 1 < k
      <3>1. At(r, i) = At(q, i) /\ At(r, i + 1) = At(q, i + 1)
        BY <2>0, <2>1, <1>9
      <3>2. /\ At(q, i) # before /\ At(q, i) # b /\ At(q, i) \in Node
            /\ At(q, i + 1) # after /\ At(q, i + 1) # b /\ At(q, i + 1) \in Node
        <4>1. i # k - 1 /\ i # k /\ i + 1 # k + 1 /\ i + 1 # k
          BY <2>1, <1>2
        <4> QED  BY <4>1, <2>0, <1>0, <1>1, <1>2, <1>3
      <3> QED  BY <3>1, <3>2, <2>0, <1>7 DEF Linked
    <2>2. CASE i + 1 = k
      <3>1. i = k - 1 /\ At(r, i) = At(q, i) /\ At(r, i + 1) = At(q, k + 1)
        BY <2>0, <2>2, <1>9
      <3> QED  BY <3>1, <1>3, <1>7
    <2>3. CASE i + 1 > k
      <3>1. At(r, i) = At(q, i + 1) /\ At(r, i + 1) = At(q, i + 1 + 1)
        BY <2>0, <2>3, <1>9
      <3>2. i + 1 + 1 \in 0 .. m + 1
        BY <2>0
      <3>3. /\ At(q, i + 1) # before /\ At(q, i + 1) # b /\ At(q, i + 1) \in Node
            /\ At(q, i + 1 + 1) # after /\ At(q, i + 1 + 1) # b /\ At(q, i + 1 + 1) \in Node
        <4>1. i + 1 # k - 1 /\ i + 1 # k /\ i + 1 + 1 # k + 1 /\ i + 1 + 1 # k
          BY <2>3, <1>2
        <4> QED  BY <4>1, <2>0, <3>2, <1>0, <1>1, <1>2, <1>3
      <3>4. next_free_block[At(q, i + 1)] = At(q, i + 1 + 1) /\ prev_free_block[At(q, i + 1 + 1)] = At(q, i + 1)
        BY <2>0 DEF Linked
      <3> QED  BY <3>1, <3>3, <3>4, <1>7
    <2> QED  BY <2>0, <2>1, <2>2, <2>3
  <1>14. ASSUME NEW x \in Block \ Range(r)
         PROVE  next_free_block'[x] = None /\ prev_free_block'[x] = None
    <2>1. CASE x = b
      BY <2>1, <1>7
    <2>2. CASE x # b
      <3>1. x \notin Range(q)
        <4> SUFFICES ASSUME NEW i \in 1 .. m, x = q[i] PROVE x \in Range(r)
          BY <1>0
        <4>1. i # k
          BY <2>2, <1>0, <1>1
        <4>2. CASE i < k
          <5>1. i \in 1 .. m - 1 /\ r[i] = q[i]
            BY <4>2, <1>0, <1>2, <1>8
          <5> QED  BY <5>1, <1>8 DEF Range
        <4>3. CASE i > k
          <5>1. i - 1 \in 1 .. m - 1 /\ ~(i - 1 < k) /\ (i - 1) + 1 = i
            BY <4>3, <1>0, <1>2
          <5>2. r[i - 1] = q[(i - 1) + 1]
            BY <5>1, <1>8
          <5> QED  BY <5>1, <5>2, <1>8 DEF Range
        <4> QED  BY <4>1, <4>2, <4>3
      <3>2. x # before /\ x # after /\ x \in Node
        <4>1. \A i \in 0 .. m + 1 : x # At(q, i)
          <5>1. \A i \in 0 .. m + 1 : i = 0 \/ i = m + 1 \/ i \in 1 .. m
            BY <1>0
          <5> QED  BY <5>1, <3>1, <1>0, Nodes
        <4> QED  BY <4>1, <1>2, <1>3, Nodes
      <3>3. next_free_block[x] = None /\ prev_free_block[x] = None
        BY <3>1 DEF Linked
      <3> QED  BY <2>2, <3>2, <3>3, <1>7
    <2> QED  BY <2>1, <2>2
  <1>15. Linked(r)'
    BY <1>7, <1>8, <1>10, <1>11, <1>12, <1>13, <1>14 DEF Linked
  <1>16. k \in DOMAIN q /\ q[k] = b
    BY <1>0, <1>1, <1>5
  <1> QED  BY <1>4, <1>15, <1>16 DEF r

-----------------------------------------------------------------------------
(* Chaining blocks. *)

(* A list of distinct blocks between two nodes, and the place of each. *)
LEMMA ChainFacts ==
    ASSUME NEW s \in Seq(Block), IsInjective(s), NEW a, NEW z, a \notin Range(s), z \notin Range(s),
           a # z
    PROVE  LET chain    == <<a>> \o s \o <<z>>
               index(x) == CHOOSE i \in DOMAIN chain : chain[i] = x
           IN  /\ chain[1] = a /\ chain[Len(s) + 2] = z
               /\ \A i \in 1 .. Len(s) : chain[i + 1] = s[i]
               /\ \A i \in 1 .. Len(s) + 2 : index(chain[i]) = i
  <1> DEFINE S        == Block \cup {a, z}
             chain    == <<a>> \o s \o <<z>>
             index(x) == CHOOSE i \in DOMAIN chain : chain[i] = x
             m        == Len(s)
  <1>1. m \in Nat /\ DOMAIN s = 1 .. m /\ s \in Seq(S) /\ a \in S /\ z \in S
    <2>1. Block \subseteq S /\ a \in S /\ z \in S
      OBVIOUS
    <2> HIDE DEF S
    <2> QED  BY <2>1
  <1>2. /\ DOMAIN chain = 1 .. m + 2 /\ chain[1] = a /\ chain[m + 2] = z
        /\ \A i \in 1 .. m : chain[i + 1] = s[i]
    <2> DEFINE u == <<a>> \o s
    <2> HIDE DEF S
    <2>1. /\ u \in Seq(S) /\ Len(u) = m + 1 /\ u[1] = a
          /\ \A i \in 1 .. m : u[i + 1] = s[i]
      BY <1>1
    <2>2. /\ chain = u \o <<z>>
      OBVIOUS
    <2> HIDE DEF u
    <2>3. /\ Len(u \o <<z>>) = m + 2 /\ DOMAIN (u \o <<z>>) = 1 .. m + 2 /\ (u \o <<z>>)[m + 2] = z
          /\ \A i \in 1 .. m + 1 : (u \o <<z>>)[i] = u[i]
      BY <1>1, <2>1
    <2>4. 1 \in 1 .. m + 1 /\ \A i \in 1 .. m : i + 1 \in 1 .. m + 1
      BY <1>1
    <2> QED  BY <2>1, <2>2, <2>3, <2>4
  <1> HIDE DEF chain
  <1>3. \A i \in 1 .. m : s[i] # a /\ s[i] # z
    BY <1>1 DEF Range
  <1>4. \A i, j \in 1 .. m : s[i] = s[j] => i = j
    BY <1>1 DEF IsInjective
  <1>5. ASSUME NEW i \in 1 .. m + 2, NEW j \in 1 .. m + 2, chain[i] = chain[j] PROVE i = j
    <2>1. ASSUME NEW x \in 1 .. m + 2
          PROVE  \/ x = 1 /\ chain[x] = a
                 \/ x = m + 2 /\ chain[x] = z
                 \/ x - 1 \in 1 .. m /\ chain[x] = s[x - 1]
      <3>1. x = 1 \/ x = m + 2 \/ (x - 1 \in 1 .. m /\ (x - 1) + 1 = x)
        BY <1>1
      <3>2. CASE x - 1 \in 1 .. m /\ (x - 1) + 1 = x
        <4>1. chain[(x - 1) + 1] = s[x - 1]
          BY <3>2, <1>2
        <4> QED  BY <4>1, <3>2
      <3> QED  BY <3>1, <3>2, <1>2
    <2>2. CASE i - 1 \in 1 .. m /\ chain[i] = s[i - 1]
      <3>1. j - 1 \in 1 .. m /\ chain[j] = s[j - 1]
        BY <2>1, <2>2, <1>3, <1>5
      <3>2. i - 1 = j - 1
        BY <2>2, <3>1, <1>4, <1>5
      <3> QED  BY <3>2
    <2>3. CASE i = 1 /\ chain[i] = a
      BY <2>1, <2>3, <1>3, <1>5
    <2>4. CASE i = m + 2 /\ chain[i] = z
      BY <2>1, <2>4, <1>3, <1>5
    <2> QED  BY <2>1, <2>2, <2>3, <2>4
  <1>6. ASSUME NEW i \in 1 .. m + 2 PROVE index(chain[i]) = i
    <2>1. index(chain[i]) \in DOMAIN chain /\ chain[index(chain[i])] = chain[i]
      BY <1>2
    <2> HIDE DEF index
    <2> QED  BY <2>1, <1>2, <1>5
  <1> QED  BY <1>2, <1>6 DEF chain

(* append_n puts taken blocks at the tail of the queue. *)
LEMMA AppendNStep ==
    ASSUME NEW q, Linked(q), NEW blocks \in Seq(Block), IsInjective(blocks),
           Range(blocks) \cap Range(q) = {}, AppendN(blocks)
    PROVE  taken' = <<>> /\ Linked(q \o blocks)'
  <1> DEFINE last_block == prev_free_block[FakeTail]
             chain      == <<last_block>> \o blocks \o <<FakeTail>>
             index(x)   == CHOOSE i \in DOMAIN chain : chain[i] = x
             m          == Len(q)
             k          == Len(blocks)
             r          == q \o blocks
  <1>0. /\ m \in Nat /\ At(q, 0) = FakeHead /\ At(q, m + 1) = FakeTail
        /\ \A i \in 1 .. m : At(q, i) = q[i] /\ q[i] \in Block
        /\ \A i \in 0 .. m + 1 : At(q, i) \in Node
        /\ \A i, j \in 0 .. m + 1 : At(q, i) = At(q, j) => i = j
        /\ \A x : x \in Range(q) <=> \E i \in 1 .. m : x = q[i]
    BY Positions DEF Linked
  <1>1. /\ q \in Seq(Block) /\ IsInjective(q) /\ num_free_blocks = m
        /\ next_free_block \in [Node -> Node \cup {None}] /\ prev_free_block \in [Node -> Node \cup {None}]
    BY DEF Linked
  <1>2. k \in Nat /\ DOMAIN blocks = 1 .. k /\ \A i \in 1 .. k : blocks[i] \in Block /\ blocks[i] \in Range(blocks)
    BY DEF Range
  <1>3. last_block = At(q, m)
    <2>1. m \in 0 .. m
      BY <1>0
    <2>2. prev_free_block[At(q, m + 1)] = At(q, m)
      BY <2>1 DEF Linked
    <2> QED  BY <2>2, <1>0
  <1>4. ASSUME NEW i \in 0 .. m PROVE At(q, i) \notin Range(blocks)
    <2>1. i = 0 \/ i \in 1 .. m
      BY <1>0
    <2>2. \A x \in Range(blocks) : x \in Block
      BY <1>2 DEF Range
    <2>3. CASE i \in 1 .. m
      <3>1. At(q, i) \in Range(q)
        BY <2>3, <1>0
      <3> QED  BY <3>1
    <2> QED  BY <2>1, <2>2, <2>3, <1>0, Nodes
  <1>5. FakeTail \notin Range(blocks) /\ last_block \notin Range(blocks) /\ last_block # FakeTail
        /\ last_block \in Node
    <2>1. m \in 0 .. m /\ m \in 0 .. m + 1 /\ m + 1 \in 0 .. m + 1 /\ m # m + 1
      BY <1>0
    <2>2. \A x \in Range(blocks) : x \in Block
      BY <1>2 DEF Range
    <2>3. At(q, m) # At(q, m + 1) /\ At(q, m) \in Node
      BY <2>1, <1>0
    <2> QED  BY <2>1, <2>2, <2>3, <1>0, <1>3, <1>4, Nodes
  <1>6. /\ chain[1] = last_block /\ chain[k + 2] = FakeTail
        /\ \A i \in 1 .. k : chain[i + 1] = blocks[i]
        /\ \A i \in 1 .. k + 2 : index(chain[i]) = i
    <2> HIDE DEF last_block
    <2> QED  BY <1>5, ChainFacts
  <1>7. /\ next_free_block' = [x \in Node |-> IF x \in Range(blocks) \cup {last_block}
                                  THEN chain[index(x) + 1] ELSE next_free_block[x]]
        /\ prev_free_block' = [x \in Node |-> IF x \in Range(blocks) \cup {FakeTail}
                                  THEN chain[index(x) - 1] ELSE prev_free_block[x]]
        /\ num_free_blocks' = num_free_blocks + k /\ taken' = <<>>
    BY DEF AppendN
  <1>8. ASSUME NEW x \in Node
        PROVE  /\ next_free_block'[x] = IF x \in Range(blocks) \cup {last_block}
                                        THEN chain[index(x) + 1] ELSE next_free_block[x]
               /\ prev_free_block'[x] = IF x \in Range(blocks) \cup {FakeTail}
                                        THEN chain[index(x) - 1] ELSE prev_free_block[x]
    <2> HIDE DEF chain, index, last_block
    <2> QED  BY <1>7
  <1> HIDE DEF chain, index, last_block
  <1>9. /\ r \in Seq(Block) /\ Len(r) = m + k /\ DOMAIN r = 1 .. m + k
        /\ \A i \in 1 .. m : r[i] = q[i]
        /\ \A i \in 1 .. k : r[m + i] = blocks[i]
    BY <1>0, <1>1, <1>2
  <1> HIDE DEF r
  <1>10. ASSUME NEW i \in 0 .. m PROVE At(r, i) = At(q, i)
    <2>1. i # m + k + 1 /\ (i = 0 \/ i \in 1 .. m)
      BY <1>0, <1>2
    <2> QED  BY <2>1, <1>0, <1>9 DEF At
  <1>11. ASSUME NEW j \in 0 .. k + 1 PROVE At(r, m + j) = chain[j + 1]
    <2>1. CASE j = 0
      <3>1. m + j = m /\ m \in 0 .. m /\ j + 1 = 1
        BY <2>1, <1>0
      <3> QED  BY <3>1, <1>3, <1>6, <1>10
    <2>2. CASE j \in 1 .. k
      <3>1. m + j # 0 /\ m + j # (m + k) + 1
        BY <2>2, <1>0, <1>2
      <3> QED  BY <3>1, <2>2, <1>6, <1>9 DEF At
    <2>3. CASE j = k + 1
      <3>1. m + j # 0 /\ m + j = (m + k) + 1 /\ j + 1 = k + 2
        BY <2>3, <1>0, <1>2
      <3> QED  BY <3>1, <1>6, <1>9 DEF At
    <2>4. j = 0 \/ j \in 1 .. k \/ j = k + 1
      BY <1>2
    <2> QED  BY <2>1, <2>2, <2>3, <2>4
  <1>12. ASSUME NEW j \in 0 .. k
         PROVE  /\ chain[j + 1] \in Range(blocks) \cup {last_block}
                /\ chain[j + 2] \in Range(blocks) \cup {FakeTail}
                /\ chain[j + 1] \in Node /\ chain[j + 2] \in Node
                /\ index(chain[j + 1]) = j + 1 /\ index(chain[j + 2]) = j + 2
    <2>1. j + 1 \in 1 .. k + 2 /\ j + 2 \in 1 .. k + 2 /\ (j + 1) + 1 = j + 2
      BY <1>2
    <2>2. chain[j + 1] \in Range(blocks) \cup {last_block} /\ chain[j + 1] \in Node
      <3>1. CASE j = 0
        BY <3>1, <1>5, <1>6
      <3>2. CASE j # 0
        <4>1. j \in 1 .. k
          BY <3>2, <1>2
        <4> QED  BY <4>1, <1>2, <1>6, Nodes
      <3> QED  BY <3>1, <3>2
    <2>3. chain[j + 2] \in Range(blocks) \cup {FakeTail} /\ chain[j + 2] \in Node
      <3>1. CASE j = k
        BY <3>1, <1>6, Nodes
      <3>2. CASE j # k
        <4>1. j + 1 \in 1 .. k
          <5>1. k \in Nat
            BY <1>2
          <5> HIDE DEF k
          <5> QED  BY <5>1, <3>2
        <4>2. chain[(j + 1) + 1] = blocks[j + 1]
          BY <4>1, <1>6
        <4> QED  BY <4>1, <4>2, <2>1, <1>2, Nodes
      <3> QED  BY <3>1, <3>2
    <2> QED  BY <2>1, <2>2, <2>3, <1>6
  <1>13. ASSUME NEW j \in 0 .. k
         PROVE  next_free_block'[chain[j + 1]] = chain[j + 2] /\ prev_free_block'[chain[j + 2]] = chain[j + 1]
    <2>1. next_free_block'[chain[j + 1]] = chain[index(chain[j + 1]) + 1]
      BY <1>8, <1>12
    <2>2. prev_free_block'[chain[j + 2]] = chain[index(chain[j + 2]) - 1]
      BY <1>8, <1>12
    <2>3. (j + 1) + 1 = j + 2 /\ (j + 2) - 1 = j + 1
      BY <1>2
    <2> QED  BY <2>1, <2>2, <2>3, <1>12
  <1>14. ASSUME NEW i \in 0 .. m + k
         PROVE  next_free_block'[At(r, i)] = At(r, i + 1) /\ prev_free_block'[At(r, i + 1)] = At(r, i)
    <2>1. CASE i < m
      <3>1. i \in 0 .. m /\ i + 1 \in 0 .. m /\ i \in 0 .. m + 1 /\ i + 1 \in 0 .. m + 1
            /\ m \in 0 .. m + 1 /\ m + 1 \in 0 .. m + 1 /\ i # m /\ i + 1 # m + 1
        BY <2>1, <1>0
      <3>2. /\ At(q, i) \in Node /\ At(q, i) \notin Range(blocks) \cup {last_block}
            /\ At(q, i + 1) \in Node /\ At(q, i + 1) \notin Range(blocks) \cup {FakeTail}
        <4>1. At(q, i) # At(q, m) /\ At(q, i + 1) # At(q, m + 1)
          BY <3>1, <1>0
        <4> QED  BY <4>1, <3>1, <1>0, <1>3, <1>4
      <3>3. /\ next_free_block'[At(q, i)] = next_free_block[At(q, i)]
            /\ prev_free_block'[At(q, i + 1)] = prev_free_block[At(q, i + 1)]
        BY <3>2, <1>8
      <3>4. next_free_block[At(q, i)] = At(q, i + 1) /\ prev_free_block[At(q, i + 1)] = At(q, i)
        BY <3>1 DEF Linked
      <3> QED  BY <3>1, <3>3, <3>4, <1>10
    <2>2. CASE i >= m
      <3> DEFINE j == i - m
      <3>1. j \in 0 .. k /\ i = m + j /\ i + 1 = m + (j + 1) /\ j + 1 \in 0 .. k + 1 /\ j \in 0 .. k + 1
            /\ (j + 1) + 1 = j + 2
        BY <2>2, <1>0, <1>2
      <3> HIDE DEF j
      <3>2. At(r, i) = chain[j + 1] /\ At(r, i + 1) = chain[j + 2]
        BY <3>1, <1>11
      <3> QED  BY <3>1, <3>2, <1>13
    <2> QED  BY <2>1, <2>2, <1>0
  <1>15. /\ next_free_block' \in [Node -> Node \cup {None}] /\ prev_free_block' \in [Node -> Node \cup {None}]
    <2>1. ASSUME NEW x \in Node, x \in Range(blocks) \cup {last_block}
          PROVE  next_free_block'[x] \in Node
      <3>1. \E j \in 0 .. k : x = chain[j + 1]
        <4>1. 0 \in 0 .. k /\ 0 + 1 = 1 /\ \A j \in 1 .. k : j \in 0 .. k
          BY <1>2
        <4> QED  BY <4>1, <2>1, <1>2, <1>6 DEF Range
      <3> QED  BY <3>1, <1>12, <1>13
    <2>2. ASSUME NEW x \in Node, x \in Range(blocks) \cup {FakeTail}
          PROVE  prev_free_block'[x] \in Node
      <3>1. \E j \in 0 .. k : x = chain[j + 2]
        <4>1. CASE x = FakeTail
          BY <4>1, <1>2, <1>6
        <4>2. CASE x # FakeTail
          <5>1. PICK i \in 1 .. k : x = blocks[i]
            BY <4>2, <2>2, <1>2 DEF Range
          <5>2. i - 1 \in 0 .. k /\ (i - 1) + 2 = i + 1
            BY <1>2
          <5> QED  BY <5>1, <5>2, <1>6
        <4> QED  BY <4>1, <4>2
      <3> QED  BY <3>1, <1>12, <1>13
    <2>3. \A x \in Node : next_free_block'[x] \in Node \cup {None} /\ prev_free_block'[x] \in Node \cup {None}
      BY <2>1, <2>2, <1>1, <1>8
    <2> QED  BY <2>3, <1>7
  <1>16. next_free_block'[FakeTail] = None /\ prev_free_block'[FakeHead] = None
    <2>1. FakeHead \notin Range(blocks) /\ FakeHead # FakeTail
      <3>1. 0 \in 0 .. m
        BY <1>0
      <3> QED  BY <3>1, <1>0, <1>4, Nodes
    <2> QED  BY <2>1, <1>5, <1>8, Nodes DEF Linked
  <1>17. ASSUME NEW x \in Block \ Range(r)
         PROVE  next_free_block'[x] = None /\ prev_free_block'[x] = None
    <2>1. x \notin Range(blocks)
      <3> SUFFICES ASSUME NEW i \in 1 .. k, x = blocks[i] PROVE FALSE
        BY <1>2 DEF Range
      <3>1. m + i \in 1 .. m + k
        BY <1>0, <1>2
      <3> QED  BY <3>1, <1>9 DEF Range
    <2>2. x \notin Range(q)
      <3> SUFFICES ASSUME NEW i \in 1 .. m, x = q[i] PROVE FALSE
        BY <1>0
      <3>1. i \in 1 .. m + k
        BY <1>0, <1>2
      <3> QED  BY <3>1, <1>9 DEF Range
    <2>3. x # last_block /\ x # FakeTail /\ x \in Node
      <3>1. m = 0 \/ m \in 1 .. m
        BY <1>0
      <3> QED  BY <3>1, <2>2, <1>0, <1>3, Nodes
    <2> QED  BY <2>1, <2>2, <2>3, <1>8 DEF Linked
  <1>18. IsInjective(r)
    <2>1. ASSUME NEW i \in 1 .. m + k, NEW j \in 1 .. m + k, r[i] = r[j] PROVE i = j
      <3>1. \A x \in 1 .. m + k : x \in 1 .. m \/ (x - m \in 1 .. k /\ m + (x - m) = x)
        BY <1>0, <1>2
      <3>2. \A x \in 1 .. m : r[x] \in Range(q) /\ r[x] = q[x]
        BY <1>0, <1>9
      <3>3. \A x \in 1 .. m + k : x - m \in 1 .. k /\ m + (x - m) = x =>
                r[x] = blocks[x - m] /\ r[x] \in Range(blocks)
        BY <1>2, <1>9
      <3>4. CASE i \in 1 .. m /\ j \in 1 .. m
        <4>1. DOMAIN q = 1 .. m /\ q[i] = q[j]
          BY <3>2, <3>4, <2>1, <1>1
        <4> QED  BY <4>1, <3>4, <1>1 DEF IsInjective
      <3>5. CASE i - m \in 1 .. k /\ j - m \in 1 .. k /\ m + (i - m) = i /\ m + (j - m) = j
        <4>1. blocks[i - m] = blocks[j - m]
          BY <3>3, <3>5, <2>1
        <4>2. i - m = j - m
          BY <4>1, <3>5, <1>2 DEF IsInjective
        <4> QED  BY <4>2, <3>5
      <3> QED  BY <3>1, <3>2, <3>3, <3>4, <3>5, <2>1
    <2> QED  BY <2>1, <1>9 DEF IsInjective
  <1>19. Linked(r)'
    <2>1. num_free_blocks' = Len(r)
      BY <1>1, <1>7, <1>9
    <2> QED  BY <2>1, <1>9, <1>14, <1>15, <1>16, <1>17, <1>18 DEF Linked
  <1> QED  BY <1>7, <1>19 DEF r

-----------------------------------------------------------------------------
(* The list implements the queue. *)

(* The list of a new pool. *)
LEMMA LinkInitStep ==
    ASSUME LinkInit
    PROVE  Linked([i \in 1 .. NumGpuBlocks |-> i - 1])
  <1> DEFINE q        == [i \in 1 .. NumGpuBlocks |-> i - 1]
             chain    == <<FakeHead>> \o q \o <<FakeTail>>
             index(x) == CHOOSE i \in DOMAIN chain : chain[i] = x
             m        == Len(q)
  <1>1. q \in Seq(Block) /\ m = NumGpuBlocks /\ m \in Nat /\ DOMAIN q = 1 .. m
    <2>1. \A i \in 1 .. NumGpuBlocks : i - 1 \in Block
      BY BlockCount DEF Block
    <2> QED  BY <2>1, BlockCount
  <1>2. IsInjective(q) /\ \A b \in Block : b \in Range(q)
    <2>1. IsInjective(q)
      BY BlockCount DEF IsInjective
    <2>2. ASSUME NEW b \in Block PROVE b \in Range(q)
      <3>1. b + 1 \in 1 .. NumGpuBlocks /\ q[b + 1] = b
        BY BlockCount DEF Block
      <3> QED  BY <3>1 DEF Range
    <2> QED  BY <2>1, <2>2
  <1>3. /\ next_free_block = [x \in Node |-> IF x = FakeTail THEN None ELSE chain[index(x) + 1]]
        /\ prev_free_block = [x \in Node |-> IF x = FakeHead THEN None ELSE chain[index(x) - 1]]
        /\ num_free_blocks = m
    BY DEF LinkInit, InitialLinks
  <1> HIDE DEF q
  <1>4. /\ At(q, 0) = FakeHead /\ At(q, m + 1) = FakeTail
        /\ \A i \in 1 .. m : At(q, i) = q[i] /\ q[i] \in Block
        /\ \A i \in 0 .. m + 1 : At(q, i) \in Node
        /\ \A x : x \in Range(q) <=> \E i \in 1 .. m : x = q[i]
    BY <1>1, <1>2, Positions
  <1>5. /\ chain[1] = FakeHead /\ chain[m + 2] = FakeTail
        /\ \A i \in 1 .. m : chain[i + 1] = q[i]
        /\ \A i \in 1 .. m + 2 : index(chain[i]) = i
    <2>1. FakeHead \notin Range(q) /\ FakeTail \notin Range(q) /\ FakeHead # FakeTail
      BY <1>4, Nodes
    <2> QED  BY <2>1, <1>1, <1>2, ChainFacts
  <1>6. ASSUME NEW x \in Node
        PROVE  /\ next_free_block[x] = IF x = FakeTail THEN None ELSE chain[index(x) + 1]
               /\ prev_free_block[x] = IF x = FakeHead THEN None ELSE chain[index(x) - 1]
    <2> HIDE DEF chain, index
    <2> QED  BY <1>3
  <1> HIDE DEF chain, index
  <1>7. ASSUME NEW i \in 0 .. m + 1 PROVE At(q, i) = chain[i + 1] /\ index(At(q, i)) = i + 1
    <2>1. i + 1 \in 1 .. m + 2 /\ (i = 0 \/ i = m + 1 \/ i \in 1 .. m) /\ 0 + 1 = 1 /\ (m + 1) + 1 = m + 2
      BY <1>1
    <2>2. At(q, i) = chain[i + 1]
      BY <2>1, <1>4, <1>5
    <2> QED  BY <2>1, <2>2, <1>5
  <1>8. ASSUME NEW i \in 0 .. m
        PROVE  next_free_block[At(q, i)] = At(q, i + 1) /\ prev_free_block[At(q, i + 1)] = At(q, i)
    <2>1. /\ i \in 0 .. m + 1 /\ i + 1 \in 0 .. m + 1 /\ ((i + 1) + 1) - 1 = i + 1
          /\ m + 1 \in 0 .. m + 1 /\ 0 \in 0 .. m + 1 /\ i + 1 # (m + 1) + 1 /\ (i + 1) + 1 # 0 + 1
      BY <1>1
    <2>2. At(q, i) # FakeTail /\ At(q, i + 1) # FakeHead
      <3>1. index(At(q, i)) # index(At(q, m + 1)) /\ index(At(q, i + 1)) # index(At(q, 0))
        BY <2>1, <1>7
      <3> QED  BY <3>1, <1>4
    <2>3. /\ next_free_block[At(q, i)] = chain[index(At(q, i)) + 1]
          /\ prev_free_block[At(q, i + 1)] = chain[index(At(q, i + 1)) - 1]
      BY <2>1, <2>2, <1>4, <1>6
    <2> QED  BY <2>1, <2>3, <1>7
  <1>9. next_free_block[FakeTail] = None /\ prev_free_block[FakeHead] = None
    BY <1>6, Nodes
  <1>10. /\ next_free_block \in [Node -> Node \cup {None}] /\ prev_free_block \in [Node -> Node \cup {None}]
    <2>1. ASSUME NEW x \in Node
          PROVE  next_free_block[x] \in Node \cup {None} /\ prev_free_block[x] \in Node \cup {None}
      <3>1. PICK i \in 0 .. m + 1 : x = At(q, i)
        <4>1. 0 \in 0 .. m + 1 /\ m + 1 \in 0 .. m + 1 /\ \A i \in 1 .. m : i \in 0 .. m + 1
          BY <1>1
        <4> QED  BY <4>1, <1>2, <1>4 DEF Node
      <3>2. next_free_block[x] \in Node \cup {None}
        <4>1. CASE i = m + 1
          BY <4>1, <3>1, <1>4, <1>9
        <4>2. CASE i # m + 1
          <5>1. i \in 0 .. m /\ i + 1 \in 0 .. m + 1
            BY <4>2, <1>1
          <5> QED  BY <5>1, <3>1, <1>4, <1>8
        <4> QED  BY <4>1, <4>2
      <3>3. prev_free_block[x] \in Node \cup {None}
        <4>1. CASE i = 0
          BY <4>1, <3>1, <1>4, <1>9
        <4>2. CASE i # 0
          <5>1. i - 1 \in 0 .. m /\ (i - 1) + 1 = i /\ i - 1 \in 0 .. m + 1
            BY <4>2, <1>1
          <5>2. prev_free_block[At(q, (i - 1) + 1)] = At(q, i - 1)
            BY <5>1, <1>8
          <5> QED  BY <5>1, <5>2, <3>1, <1>4
        <4> QED  BY <4>1, <4>2
      <3> QED  BY <3>2, <3>3
    <2>2. DOMAIN next_free_block = Node /\ DOMAIN prev_free_block = Node
          /\ next_free_block = [x \in Node |-> next_free_block[x]]
          /\ prev_free_block = [x \in Node |-> prev_free_block[x]]
      BY <1>3
    <2> QED  BY <2>1, <2>2
  <1>11. Linked(q)
    BY <1>1, <1>2, <1>3, <1>8, <1>9, <1>10 DEF Linked
  <1> QED  BY <1>11 DEF q

(* What a list after a step stands for. *)
LEMMA After ==
    ASSUME NEW r, Linked(r)'
    PROVE  LinkInv' /\ GetAllFreeBlocks' = r /\ num_free_blocks' = Len(r)
  <1>1. LinkInv'
    BY DEF LinkInv
  <1>2. GetAllFreeBlocks' = r
    BY ListIsQueueNext
  <1>3. num_free_blocks' = Len(r)
    BY DEF Linked
  <1> QED  BY <1>1, <1>2, <1>3

(* The blocks the pool may give back are not in the list. *)
LEMMA TakenBlocks ==
    ASSUME NEW q, Linked(q), NEW blocks \in FreedLists
    PROVE  /\ blocks \in Seq(Block) /\ IsInjective(blocks) /\ Range(blocks) \cap Range(q) = {}
           /\ \E n \in 1 .. NumGpuBlocks : blocks \in [1 .. n -> Block]
  <1>1. PICK n \in 1 .. Cardinality(Taken) : blocks \in [1 .. n -> Taken] /\ IsInjective(blocks)
    BY DEF FreedLists
  <1>2. Taken \subseteq Block /\ Taken \cap Range(q) = {}
    <2>1. ASSUME NEW b \in Taken, b \in Range(q) PROVE FALSE
      <3>1. PICK i \in 1 .. Len(q) : b = q[i]
        BY <2>1, Positions DEF Linked
      <3>2. Len(q) \in Nat /\ At(q, i) = q[i]
        BY Positions DEF Linked
      <3>3. i \in 0 .. Len(q)
        BY <3>2
      <3>4. next_free_block[b] \in Node
        BY <3>1, <3>2, <3>3, Links
      <3> QED  BY <3>4, Nodes DEF Taken
    <2> QED  BY <2>1 DEF Taken
  <1>3. n \in 1 .. NumGpuBlocks /\ n \in Nat
    <2>1. IsFiniteSet(Taken) /\ Cardinality(Taken) <= Cardinality(Block)
      BY <1>2, Nodes, FS_Subset
    <2>2. Cardinality(Taken) \in Nat /\ Cardinality(Block) = NumGpuBlocks
      <3>1. NumGpuBlocks - 1 \in Int /\ 0 \in Int
        BY BlockCount
      <3>2. Cardinality(Block) = IF 0 > NumGpuBlocks - 1 THEN 0 ELSE (NumGpuBlocks - 1) - 0 + 1
        BY <3>1, FS_Interval DEF Block
      <3> QED  BY <3>2, <2>1, BlockCount, FS_CardinalityType
    <2>3. n \in Nat /\ n >= 1 /\ n <= Cardinality(Taken)
      BY <2>2
    <2> HIDE DEF Taken
    <2> QED  BY <2>1, <2>2, <2>3, BlockCount
  <1>4. blocks \in [1 .. n -> Block] /\ \A x \in Range(blocks) : x \in Taken
    BY <1>1, <1>2 DEF Range
  <1>5. blocks \in Seq(Block)
    BY <1>3, <1>4
  <1> QED  BY <1>1, <1>2, <1>3, <1>4, <1>5

(* Every call is a call of the abstract queue. *)
LEMMA LinkStep ==
    ASSUME LinkInv, LinkNext
    PROVE  LinkInv' /\ Queue!QueueNext
  <1>1. PICK q : Linked(q)
    BY DEF LinkInv
  <1>2. GetAllFreeBlocks = q /\ q \in Seq(Block)
    BY <1>1, ListIsQueue DEF Linked
  <1>3. CASE Popleft
    <2>1. q # <<>> /\ taken' = <<Head(q)>> /\ Linked(Tail(q))'
      BY <1>1, <1>3, PopleftStep
    <2>2. LinkInv' /\ GetAllFreeBlocks' = Tail(q) /\ num_free_blocks' = Len(Tail(q))
      BY <2>1, After
    <2>3. Queue!Popleft
      BY <2>1, <2>2, <1>2 DEF Queue!Popleft
    <2> QED  BY <2>2, <2>3 DEF Queue!QueueNext
  <1>4. CASE \E n \in 0 .. Cardinality(Block) : PopleftN(n)
    <2>1. PICK n \in 0 .. Cardinality(Block) : PopleftN(n)
      BY <1>4
    <2> DEFINE r == SubSeq(q, n + 1, Len(q))
    <2>2. n \in 0 .. Len(q) /\ taken' = SubSeq(q, 1, n) /\ Linked(r)'
      BY <2>1, <1>1, PopleftNStep
    <2> HIDE DEF r
    <2>3. LinkInv' /\ GetAllFreeBlocks' = r /\ num_free_blocks' = Len(r)
      BY <2>2, After
    <2>4. Queue!PopleftN(n)
      BY <2>2, <2>3, <1>2 DEF Queue!PopleftN, r
    <2> QED  BY <2>2, <2>3, <2>4, <1>2 DEF Queue!QueueNext
  <1>5. CASE \E b \in Block : RemoveBlock(b)
    <2>1. PICK b \in Block : RemoveBlock(b)
      BY <1>5
    <2>2. taken' = <<>> /\ \E k \in DOMAIN q : q[k] = b /\ Linked(RemoveAt(q, k))'
      BY <2>1, <1>1, RemoveBlockStep
    <2>3. PICK k \in DOMAIN q : q[k] = b /\ Linked(RemoveAt(q, k))'
      BY <2>2
    <2> DEFINE r == RemoveAt(q, k)
    <2>4. Linked(r)'
      BY <2>3
    <2> HIDE DEF r
    <2>5. LinkInv' /\ GetAllFreeBlocks' = r /\ num_free_blocks' = Len(r)
      BY <2>4, After
    <2>6. Queue!RemoveBlock(b)
      <3>1. Queue!RemoveAt(q, k) = r
        BY DEF Queue!RemoveAt, RemoveAt, r
      <3> QED  BY <3>1, <2>2, <2>3, <2>5, <1>2 DEF Queue!RemoveBlock
    <2>7. b \in Queue!Block
      BY DEF Queue!Block, Block
    <2> QED  BY <2>5, <2>6, <2>7 DEF Queue!QueueNext
  <1>6. CASE \E blocks \in FreedLists : AppendN(blocks)
    <2>1. PICK blocks \in FreedLists : AppendN(blocks)
      BY <1>6
    <2>2. /\ blocks \in Seq(Block) /\ IsInjective(blocks) /\ Range(blocks) \cap Range(q) = {}
          /\ \E n \in 1 .. NumGpuBlocks : blocks \in [1 .. n -> Block]
      BY <1>1, TakenBlocks
    <2> DEFINE r == q \o blocks
    <2>3. taken' = <<>> /\ Linked(r)'
      BY <2>1, <2>2, <1>1, AppendNStep
    <2> HIDE DEF r
    <2>4. LinkInv' /\ GetAllFreeBlocks' = r /\ num_free_blocks' = Len(r)
      BY <2>3, After
    <2>5. Queue!AppendN(blocks)
      <3>1. Queue!IsInjective(blocks)
        BY <2>2 DEF Queue!IsInjective, IsInjective
      <3>2. Queue!Range(blocks) = Range(blocks) /\ Queue!Range(q) = Range(q)
        BY DEF Queue!Range, Range
      <3> QED  BY <3>1, <3>2, <2>2, <2>3, <2>4, <1>2 DEF Queue!AppendN, r
    <2>6. \E n \in 1 .. NumGpuBlocks : \E s \in [1 .. n -> Queue!Block] : Queue!AppendN(s)
      BY <2>2, <2>5 DEF Queue!Block, Block
    <2> QED  BY <2>4, <2>6 DEF Queue!QueueNext
  <1> QED  BY <1>3, <1>4, <1>5, <1>6 DEF LinkNext

(* A step that changes nothing, of the list or of the queue. *)
LEMMA LinkStutter ==
    ASSUME LinkInv, UNCHANGED <<links, num_free_blocks, taken>>
    PROVE  LinkInv' /\ UNCHANGED <<GetAllFreeBlocks, num_free_blocks, taken>>
  <1>1. PICK q : Linked(q)
    BY DEF LinkInv
  <1>2. Linked(q)'
    BY <1>1 DEF Linked, links
  <1>3. LinkInv' /\ GetAllFreeBlocks' = q
    BY <1>2, After
  <1>4. GetAllFreeBlocks = q
    BY <1>1, ListIsQueue
  <1> QED  BY <1>3, <1>4

(* Following a pointer and then the opposite one leads back, and a block   *)
(* outside the list has neither, so that remove() can trust a block's own  *)
(* pointers.                                                               *)
LEMMA LinkedBothWays == LinkInv => DoublyLinked
  <1> SUFFICES ASSUME NEW q, Linked(q) PROVE DoublyLinked
    BY DEF LinkInv
  <1>1. /\ Len(q) \in Nat /\ At(q, 0) = FakeHead /\ At(q, Len(q) + 1) = FakeTail
        /\ \A i \in 1 .. Len(q) : At(q, i) = q[i] /\ q[i] \in Block
        /\ \A b : b \in Range(q) <=> \E i \in 1 .. Len(q) : b = q[i]
    BY Positions DEF Linked
  <1>2. \A i \in 0 .. Len(q) : /\ next_free_block[At(q, i)] = At(q, i + 1) /\ At(q, i) \in Node
                               /\ prev_free_block[At(q, i + 1)] = At(q, i) /\ At(q, i + 1) \in Node
    BY Links DEF Linked
  <1>3. ASSUME NEW x \in Node, next_free_block[x] # None
        PROVE  prev_free_block[next_free_block[x]] = x
    <2>1. \E i \in 0 .. Len(q) : x = At(q, i)
      <3>1. 0 \in 0 .. Len(q) /\ \A i \in 1 .. Len(q) : i \in 0 .. Len(q)
        BY <1>1
      <3>2. x # FakeTail
        BY <1>3 DEF Linked
      <3>3. x \in Block => x \in Range(q)
        BY <1>3 DEF Linked
      <3> QED  BY <3>1, <3>2, <3>3, <1>1 DEF Node
    <2> QED  BY <2>1, <1>2
  <1>4. ASSUME NEW b \in Block PROVE (next_free_block[b] = None) <=> (prev_free_block[b] = None)
    <2>1. CASE b \in Range(q)
      <3>1. PICK i \in 1 .. Len(q) : b = At(q, i)
        BY <2>1, <1>1
      <3>2. i \in 0 .. Len(q) /\ i - 1 \in 0 .. Len(q) /\ (i - 1) + 1 = i
        BY <1>1
      <3>3. next_free_block[b] \in Node
        BY <3>1, <3>2, <1>2
      <3>4. prev_free_block[At(q, (i - 1) + 1)] \in Node
        BY <3>2, <1>2
      <3> QED  BY <3>1, <3>2, <3>3, <3>4, Nodes
    <2>2. CASE b \notin Range(q)
      BY <2>2 DEF Linked
    <2> QED  BY <2>1, <2>2
  <1> QED  BY <1>3, <1>4 DEF DoublyLinked

(* The list always threads distinct blocks: popleft, popleft_n, remove and *)
(* append_n keep next_free_block and prev_free_block in step.              *)
THEOREM LinkInvariant == LinkSpec => []LinkInv
  <1>1. LinkInit => LinkInv
    BY LinkInitStep DEF LinkInv
  <1>2. LinkInv /\ [LinkNext]_<<links, num_free_blocks, taken>> => LinkInv'
    BY LinkStep, LinkStutter
  <1> QED  BY <1>1, <1>2, PTL DEF LinkSpec

(* The two directions of the list agree, and a block given out keeps no    *)
(* neighbour.                                                              *)
THEOREM ListIsDoublyLinked == LinkSpec => []DoublyLinked
  BY LinkInvariant, LinkedBothWays, PTL

(* FreeKVCacheBlockQueue is the queue the block pool expects: every call   *)
(* returns and leaves what the abstract call does, and num_free_blocks is  *)
(* the length of the list.                                                 *)
THEOREM ListImplementsQueue == LinkSpec => ImplementsQueue
  <1>1. LinkInit => Queue!QueueInit
    <2> SUFFICES ASSUME LinkInit PROVE Queue!QueueInit
      OBVIOUS
    <2> DEFINE q == [i \in 1 .. NumGpuBlocks |-> i - 1]
    <2>1. Linked(q)
      BY LinkInitStep
    <2> HIDE DEF q
    <2>2. GetAllFreeBlocks = q /\ num_free_blocks = Len(q)
      BY <2>1, ListIsQueue DEF Linked
    <2>3. taken = <<>>
      BY DEF LinkInit
    <2> QED  BY <2>2, <2>3 DEF Queue!QueueInit, q
  <1>2. LinkInv /\ [LinkNext]_<<links, num_free_blocks, taken>>
            => [Queue!QueueNext]_<<GetAllFreeBlocks, num_free_blocks, taken>>
    BY LinkStep, LinkStutter
  <1> QED  BY <1>1, <1>2, LinkInvariant, PTL DEF LinkSpec, ImplementsQueue, Queue!QueueSpec
=============================================================================
