--------------------------- MODULE KVCacheProofs ---------------------------
(***************************************************************************)
(* Proofs about KVCache for every number of requests and blocks, every     *)
(* block size and every prompt.  KVInv is inductive; the properties the    *)
(* runs check follow from it.                                              *)
(***************************************************************************)
EXTENDS KVCache, SequenceLemmas

-----------------------------------------------------------------------------
(* Arithmetic of blocks. *)

(* Integer division by the block size, as the code's // computes it. *)
LEMMA DivBounds ==
    ASSUME NEW n \in Nat
    PROVE  n \div BlockSize \in Nat /\ (n \div BlockSize) * BlockSize <= n
  BY BlockSizes, SMT

(* More blocks have at least as many slots. *)
LEMMA MulMonotone ==
    ASSUME NEW i \in Nat, NEW j \in Nat, i <= j
    PROVE  i * BlockSize \in Nat /\ j * BlockSize \in Nat /\ i * BlockSize <= j * BlockSize
  BY BlockSizes, SMT

(* The prefixes of two different blocks of a request have different        *)
(* lengths.                                                                *)
LEMMA MulInjective ==
    ASSUME NEW i \in Nat, NEW j \in Nat, i * BlockSize = j * BlockSize
    PROVE  i = j
  BY BlockSizes, SMT

(* n tokens fill at most as many blocks as they need. *)
LEMMA CdivBounds ==
    ASSUME NEW n \in Nat
    PROVE  Cdiv(n, BlockSize) \in Nat /\ n \div BlockSize <= Cdiv(n, BlockSize)
  BY BlockSizes, SMT DEF Cdiv

(* More tokens fill at least as many blocks. *)
LEMMA DivMonotone ==
    ASSUME NEW m \in Nat, NEW n \in Nat, m <= n
    PROVE  m \div BlockSize <= n \div BlockSize
  BY BlockSizes, SMT

(* max(i, j) of the code. *)
LEMMA MaxOfTwo ==
    ASSUME NEW i \in Int, NEW j \in Int
    PROVE  Max({i, j}) = IF i >= j THEN i ELSE j
  BY SMT DEF Max

(* min(i, j) of the code. *)
LEMMA MinOfTwo ==
    ASSUME NEW i \in Int, NEW j \in Int
    PROVE  Min({i, j}) = IF i <= j THEN i ELSE j
  BY SMT DEF Min

-----------------------------------------------------------------------------
(* Sequences without repetition. *)

(* Extending a table by other blocks: no block occurs twice in the result. *)
LEMMA ConcatInjective ==
    ASSUME NEW S, NEW s \in Seq(S), NEW t \in Seq(S), IsInjective(s), IsInjective(t),
           Range(s) \cap Range(t) = {}
    PROVE  /\ s \o t \in Seq(S)
           /\ IsInjective(s \o t)
           /\ Range(s \o t) = Range(s) \cup Range(t)
  <1>1. s \o t \in Seq(S) /\ Len(s \o t) = Len(s) + Len(t)
    OBVIOUS
  <1>2. \A i \in 1 .. Len(s) + Len(t) :
            (s \o t)[i] = IF i <= Len(s) THEN s[i] ELSE t[i - Len(s)]
    OBVIOUS
  <1>3. /\ DOMAIN s = 1 .. Len(s) /\ DOMAIN t = 1 .. Len(t)
        /\ DOMAIN (s \o t) = 1 .. Len(s) + Len(t) /\ Len(s) \in Nat /\ Len(t) \in Nat
    BY <1>1
  <1>4. IsInjective(s \o t)
    <2> SUFFICES ASSUME NEW i \in 1 .. Len(s) + Len(t), NEW j \in 1 .. Len(s) + Len(t),
                        i < j, (s \o t)[i] = (s \o t)[j]
                 PROVE  FALSE
      BY <1>3 DEF IsInjective
    <2>1. CASE j <= Len(s)
      BY <2>1, <1>2, <1>3 DEF IsInjective
    <2>2. CASE i > Len(s)
      <3>1. /\ i - Len(s) \in DOMAIN t /\ j - Len(s) \in DOMAIN t
            /\ t[i - Len(s)] = t[j - Len(s)]
        BY <2>2, <1>2, <1>3
      <3>2. i - Len(s) = j - Len(s)
        BY <3>1 DEF IsInjective
      <3> QED
        BY <3>2, <1>3
    <2>3. CASE i <= Len(s) /\ j > Len(s)
      <3>1. i \in DOMAIN s /\ j - Len(s) \in DOMAIN t /\ s[i] = t[j - Len(s)]
        BY <2>3, <1>2, <1>3
      <3> QED
        BY <3>1 DEF Range
    <2> QED
      BY <2>1, <2>2, <2>3, <1>3
  <1>5. ASSUME NEW x \in Range(s) PROVE x \in Range(s \o t)
    <2>1. PICK i \in 1 .. Len(s) : s[i] = x
      BY <1>3 DEF Range
    <2> QED
      BY <2>1, <1>2, <1>3 DEF Range
  <1>6. ASSUME NEW x \in Range(t) PROVE x \in Range(s \o t)
    <2>1. PICK i \in 1 .. Len(t) : t[i] = x
      BY <1>3 DEF Range
    <2>2. i + Len(s) \in 1 .. Len(s) + Len(t) /\ (s \o t)[i + Len(s)] = x
      BY <2>1, <1>2, <1>3
    <2> QED
      BY <2>2, <1>3 DEF Range
  <1>7. ASSUME NEW x \in Range(s \o t) PROVE x \in Range(s) \cup Range(t)
    <2>1. PICK i \in 1 .. Len(s) + Len(t) : (s \o t)[i] = x
      BY <1>3 DEF Range
    <2>2. CASE i <= Len(s)
      BY <2>1, <2>2, <1>2, <1>3 DEF Range
    <2>3. CASE i > Len(s)
      <3>1. i - Len(s) \in 1 .. Len(t) /\ t[i - Len(s)] = x
        BY <2>1, <2>3, <1>2, <1>3
      <3> QED
        BY <3>1, <1>3 DEF Range
    <2> QED
      BY <2>2, <2>3, <1>3
  <1> QED
    BY <1>1, <1>4, <1>5, <1>6, <1>7

(* get_new_blocks splits the queue into what it takes and what is left. *)
LEMMA SplitInjective ==
    ASSUME NEW S, NEW q \in Seq(S), IsInjective(q), NEW n \in Nat, n <= Len(q)
    PROVE  LET s == SubSeq(q, 1, n)
               t == SubSeq(q, n + 1, Len(q))
           IN  /\ s \in Seq(S) /\ t \in Seq(S) /\ Len(s) = n
               /\ IsInjective(s) /\ IsInjective(t)
               /\ Range(s) \subseteq Range(q)
               /\ Range(t) = Range(q) \ Range(s)
  <1> DEFINE s == SubSeq(q, 1, n)
             t == SubSeq(q, n + 1, Len(q))
  <1>1. /\ s \in Seq(S) /\ Len(s) = n /\ DOMAIN s = 1 .. n
        /\ \A i \in 1 .. n : s[i] = q[i]
    OBVIOUS
  <1>2. /\ t \in Seq(S) /\ Len(t) = Len(q) - n /\ DOMAIN t = 1 .. Len(q) - n
        /\ \A i \in 1 .. Len(q) - n : t[i] = q[i + n]
    OBVIOUS
  <1>3. DOMAIN q = 1 .. Len(q) /\ Len(q) \in Nat
    OBVIOUS
  <1> HIDE DEF s, t
  <1>4. IsInjective(s)
    BY <1>1, <1>3 DEF IsInjective
  <1>5. IsInjective(t)
    <2> SUFFICES ASSUME NEW i \in 1 .. Len(q) - n, NEW j \in 1 .. Len(q) - n, t[i] = t[j]
                 PROVE  i = j
      BY <1>2 DEF IsInjective
    <2>1. i + n \in DOMAIN q /\ j + n \in DOMAIN q /\ q[i + n] = q[j + n]
      BY <1>2, <1>3
    <2>2. i + n = j + n
      BY <2>1 DEF IsInjective
    <2> QED
      BY <2>2, <1>3
  <1>6. Range(s) \subseteq Range(q)
    BY <1>1, <1>3 DEF Range
  <1>7. ASSUME NEW x \in Range(t) PROVE x \in Range(q) /\ x \notin Range(s)
    <2>1. PICK i \in 1 .. Len(q) - n : t[i] = x
      BY <1>2 DEF Range
    <2>2. i + n \in DOMAIN q /\ q[i + n] = x
      BY <2>1, <1>2, <1>3
    <2>3. \A j \in 1 .. n : j \in DOMAIN q /\ j # i + n
      BY <1>3
    <2>4. \A j \in 1 .. n : s[j] # x
      BY <2>2, <2>3, <1>1 DEF IsInjective
    <2> QED
      BY <2>2, <2>4, <1>1 DEF Range
  <1>8. ASSUME NEW x \in Range(q), x \notin Range(s) PROVE x \in Range(t)
    <2>1. PICK i \in 1 .. Len(q) : q[i] = x
      BY <1>3 DEF Range
    <2>2. i > n
      BY <2>1, <1>1, <1>3, <1>8 DEF Range
    <2>3. i - n \in 1 .. Len(q) - n /\ t[i - n] = x
      BY <2>1, <2>2, <1>2, <1>3
    <2> QED
      BY <2>3, <1>2 DEF Range
  <1> QED
    BY <1>1, <1>2, <1>4, <1>5, <1>6, <1>7, <1>8 DEF s, t

(* free hands the blocks of a table back in reverse order: the same blocks. *)
LEMMA ReverseInjective ==
    ASSUME NEW S, NEW q \in Seq(S), IsInjective(q)
    PROVE  Reverse(q) \in Seq(S) /\ IsInjective(Reverse(q)) /\ Range(Reverse(q)) = Range(q)
  <1>1. DOMAIN q = 1 .. Len(q) /\ Len(q) \in Nat
    OBVIOUS
  <1>2. Reverse(q) \in Seq(S) /\ DOMAIN Reverse(q) = 1 .. Len(q)
    BY <1>1 DEF Reverse
  <1>3. \A i \in 1 .. Len(q) : Reverse(q)[i] = q[Len(q) - i + 1]
    BY <1>1 DEF Reverse
  <1>4. IsInjective(Reverse(q))
    BY <1>1, <1>2, <1>3 DEF IsInjective
  <1>5. Range(Reverse(q)) \subseteq Range(q)
    BY <1>1, <1>2, <1>3 DEF Range
  <1>6. ASSUME NEW x \in Range(q) PROVE x \in Range(Reverse(q))
    <2>1. PICK i \in 1 .. Len(q) : q[i] = x
      BY <1>1 DEF Range
    <2>2. Len(q) - i + 1 \in 1 .. Len(q) /\ Reverse(q)[Len(q) - i + 1] = x
      BY <2>1, <1>1, <1>3
    <2> QED
      BY <2>2, <1>2 DEF Range
  <1> QED
    BY <1>2, <1>4, <1>5, <1>6

(* Without(q, X) picks the positions of q that stay, in increasing order. *)
Staying(q, X) == {i \in DOMAIN q : q[i] \notin X}

Picked(q, X, n, pick) ==
    /\ Without(q, X) = [k \in 1 .. n |-> q[pick[k]]]
    /\ \A k \in 1 .. n : pick[k] \in Staying(q, X)
    /\ \A i \in Staying(q, X) : \E k \in 1 .. n : pick[k] = i
    /\ \A j, k \in 1 .. n : j < k => pick[j] < pick[k]

(* Unlinking blocks leaves a queue that picks the others in order. *)
LEMMA WithoutPicks ==
    ASSUME NEW S, NEW q \in Seq(S), NEW X
    PROVE  /\ IsFiniteSet(Staying(q, X)) /\ Cardinality(Staying(q, X)) \in Nat
           /\ \E pick : Picked(q, X, Cardinality(Staying(q, X)), pick)
  <1> DEFINE keep == {i \in DOMAIN q : q[i] \notin X}
             rank == [i \in keep |-> Cardinality({j \in keep : j <= i})]
             n    == Cardinality(keep)
             pick == [k \in 1 .. n |-> CHOOSE i \in keep : rank[i] = k]
  <1>1. DOMAIN q = 1 .. Len(q) /\ Len(q) \in Nat /\ IsFiniteSet(DOMAIN q)
    <2>1. DOMAIN q = 1 .. Len(q) /\ Len(q) \in Nat
      OBVIOUS
    <2>2. IsFiniteSet(1 .. Len(q))
      BY <2>1, FS_Interval, SMTT(30)
    <2> QED
      BY <2>1, <2>2
  <1>2. IsFiniteSet(keep) /\ n \in Nat
    BY <1>1, FS_Subset, FS_CardinalityType, keep \in SUBSET DOMAIN q
  <1>3. IsFiniteSet(1 .. n) /\ Cardinality(1 .. n) = n
    BY <1>2, FS_Interval
  <1> DEFINE below(i) == {j \in keep : j <= i}
  <1>4. \A i \in keep : IsFiniteSet(below(i)) /\ Cardinality(below(i)) \in 1 .. n
    <2> TAKE i \in keep
    <2>1. below(i) \in SUBSET keep
      OBVIOUS
    <2>2. IsFiniteSet(below(i)) /\ Cardinality(below(i)) <= n
      BY <2>1, <1>2, FS_Subset
    <2>3. i \in below(i)
      BY <1>1
    <2>4. Cardinality(below(i)) \in Nat /\ Cardinality(below(i)) # 0
      BY <2>2, <2>3, FS_CardinalityType, FS_EmptySet
    <2> QED
      BY <2>2, <2>4, <1>2
  <1>5. \A i, j \in keep : i < j => rank[i] < rank[j] /\ rank[i] # rank[j]
    <2> SUFFICES ASSUME NEW i \in keep, NEW j \in keep, i < j
                 PROVE  rank[i] < rank[j] /\ rank[i] # rank[j]
      OBVIOUS
    <2>1. below(i) \in SUBSET below(j)
      BY <1>1
    <2>2. j \in below(j) /\ j \notin below(i)
      BY <1>1
    <2>3. /\ Cardinality(below(i)) # Cardinality(below(j))
          /\ Cardinality(below(i)) <= Cardinality(below(j))
      BY <2>1, <2>2, <1>4, FS_Subset
    <2>4. Cardinality(below(i)) \in Nat /\ Cardinality(below(j)) \in Nat
      BY <1>4, FS_CardinalityType
    <2> QED
      BY <2>3, <2>4
  <1>6. rank \in Injection(keep, 1 .. n)
    <2>1. \A i, j \in keep : rank[i] = rank[j] => i = j
      <3>1. \A i, j \in keep : i < j \/ i = j \/ j < i
        BY <1>1
      <3> HIDE DEF rank, keep
      <3> QED
        BY <3>1, <1>5
    <2> QED
      BY <2>1, <1>4 DEF Injection, IsInjective
  <1>7. rank \in Surjection(keep, 1 .. n)
    <2> HIDE DEF rank, n
    <2> QED
      BY <1>6, <1>3, <1>2, FS_Injection DEF n
  <1>8. \A k \in 1 .. n : \E i \in keep : rank[i] = k
    BY <1>7 DEF Surjection
  <1> HIDE DEF rank, n, keep
  <1>9. \A k \in 1 .. n : pick[k] \in keep /\ rank[pick[k]] = k
    BY <1>8
  <1>10. \A i \in keep : rank[i] \in 1 .. n
    BY <1>6 DEF Injection
  <1>11. \A i \in keep : \E k \in 1 .. n : pick[k] = i
    <2> TAKE i \in keep
    <2>1. rank[i] \in 1 .. n /\ rank[pick[rank[i]]] = rank[i] /\ pick[rank[i]] \in keep
      BY <1>9, <1>10
    <2>2. pick[rank[i]] = i
      BY <2>1, <1>6 DEF Injection, IsInjective
    <2> QED
      BY <2>1, <2>2
  <1>12. \A j, k \in 1 .. n : j < k => pick[j] < pick[k]
    <2> SUFFICES ASSUME NEW j \in 1 .. n, NEW k \in 1 .. n, j < k
                 PROVE  pick[j] < pick[k]
      OBVIOUS
    <2>1. pick[j] \in Nat /\ pick[k] \in Nat /\ pick[j] \in keep /\ pick[k] \in keep
      BY <1>9, <1>1 DEF keep
    <2>2. rank[pick[j]] = j /\ rank[pick[k]] = k
      BY <1>9
    <2>3. ~(pick[k] < pick[j]) /\ pick[k] # pick[j]
      <3>1. ~(k < j) /\ k # j
        BY <1>2
      <3> QED
        BY <3>1, <2>1, <2>2, <1>5
    <2> QED
      BY <2>1, <2>3
  <1>13. Without(q, X) = [k \in 1 .. n |-> q[pick[k]]]
    BY DEF Without, keep, rank, n, pick
  <1>14. \A k \in 1 .. n : pick[k] \in keep
    BY <1>9
  <1> HIDE DEF pick
  <1> QED
    <2>1. keep = Staying(q, X) /\ n = Cardinality(Staying(q, X))
      BY DEF keep, n, Staying
    <2>2. Picked(q, X, n, pick)
      BY <2>1, <1>11, <1>12, <1>13, <1>14 DEF Picked
    <2> QED
      BY <2>1, <2>2, <1>2

(* Unlinking blocks from the queue (touch, and the free of a table) loses  *)
(* no other block, repeats none, and shortens the queue by what it took.   *)
LEMMA WithoutProperties ==
    ASSUME NEW S, NEW q \in Seq(S), IsInjective(q), NEW X
    PROVE  /\ Without(q, X) \in Seq(S)
           /\ IsInjective(Without(q, X))
           /\ Range(Without(q, X)) = Range(q) \ X
           /\ IsFiniteSet(Range(q) \cap X)
           /\ Len(Without(q, X)) + Cardinality(Range(q) \cap X) = Len(q)
  <1> DEFINE keep == Staying(q, X)
             n    == Cardinality(keep)
             drop == {i \in DOMAIN q : q[i] \in X}
  <1>1. /\ DOMAIN q = 1 .. Len(q) /\ Len(q) \in Nat
        /\ IsFiniteSet(DOMAIN q) /\ Cardinality(DOMAIN q) = Len(q)
    <2>1. DOMAIN q = 1 .. Len(q) /\ Len(q) \in Nat
      OBVIOUS
    <2>2. IsFiniteSet(1 .. Len(q)) /\ Cardinality(1 .. Len(q)) = Len(q)
      BY <2>1, FS_Interval, SMTT(30)
    <2> QED
      BY <2>1, <2>2
  <1>2. IsFiniteSet(keep) /\ n \in Nat
    BY WithoutPicks
  <1>3. PICK pick : Picked(q, X, n, pick)
    BY WithoutPicks
  <1> HIDE DEF n
  <1>4. /\ Without(q, X) = [k \in 1 .. n |-> q[pick[k]]]
        /\ \A k \in 1 .. n : pick[k] \in keep
        /\ \A i \in keep : \E k \in 1 .. n : pick[k] = i
        /\ \A j, k \in 1 .. n : j < k => pick[j] < pick[k]
    BY <1>3 DEF Picked
  <1> HIDE DEF keep
  <1>5. keep \subseteq DOMAIN q /\ \A i \in DOMAIN q : i \in keep <=> q[i] \notin X
    BY DEF keep, Staying
  <1>6. \A j, k \in 1 .. n : pick[j] = pick[k] => j = k
    <2>1. \A j, k \in 1 .. n : j < k \/ j = k \/ k < j
      BY <1>2
    <2>2. \A k \in 1 .. n : pick[k] \in Nat
      BY <1>4, <1>5, <1>1
    <2> QED
      BY <2>1, <2>2, <1>4
  <1>7. Without(q, X) \in Seq(S) /\ Len(Without(q, X)) = n
    BY <1>4, <1>5, <1>2, <1>1
  <1>8. IsInjective(Without(q, X))
    BY <1>4, <1>6, <1>5 DEF IsInjective
  <1>9. Range(Without(q, X)) = Range(q) \ X
    <2>1. ASSUME NEW x \in Range(q) \ X PROVE x \in Range(Without(q, X))
      <3>1. PICK i \in DOMAIN q : q[i] = x
        BY DEF Range
      <3>2. i \in keep
        BY <3>1, <1>5
      <3> QED
        BY <3>1, <3>2, <1>4 DEF Range
    <2>2. ASSUME NEW x \in Range(Without(q, X)) PROVE x \in Range(q) \ X
      BY <1>4, <1>5 DEF Range
    <2> QED
      BY <2>1, <2>2
  <1>10. /\ IsFiniteSet(drop) /\ IsFiniteSet(Range(q) \cap X)
         /\ Cardinality(Range(q) \cap X) = Cardinality(drop)
    <2>1. drop \in SUBSET DOMAIN q
      OBVIOUS
    <2>2. IsFiniteSet(drop)
      BY <2>1, <1>1, FS_Subset
    <2>3. [i \in drop |-> q[i]] \in Bijection(drop, Range(q) \cap X)
      BY DEF Bijection, Injection, Surjection, IsInjective, Range
    <2> HIDE DEF drop
    <2>4. IsFiniteSet(Range(q) \cap X) /\ Cardinality(Range(q) \cap X) = Cardinality(drop)
      BY <2>2, <2>3, FS_Bijection DEF ExistsBijection
    <2> QED
      BY <2>2, <2>4
  <1>11. Cardinality(keep) = Cardinality(DOMAIN q) - Cardinality(drop)
    <2>1. keep = DOMAIN q \ drop /\ DOMAIN q \cap drop = drop
      BY DEF keep, Staying
    <2> HIDE DEF drop
    <2>2. Cardinality(DOMAIN q \ drop) = Cardinality(DOMAIN q) - Cardinality(DOMAIN q \cap drop)
      BY <1>1, FS_Difference
    <2> QED
      BY <2>1, <2>2
  <1>12. Cardinality(drop) \in Nat
    BY <1>10, FS_CardinalityType
  <1> QED
    BY <1>7, <1>8, <1>9, <1>10, <1>11, <1>12, <1>1 DEF n

(* What free puts back: the blocks of the table that leave no request.     *)
LEMMA BackProperties ==
    ASSUME NEW S, NEW q \in Seq(S), IsInjective(q), NEW X
    PROVE  /\ Without(Reverse(q), X) \in Seq(S)
           /\ IsInjective(Without(Reverse(q), X))
           /\ Range(Without(Reverse(q), X)) = Range(q) \ X
  <1> DEFINE p == Reverse(q)
  <1>1. p \in Seq(S) /\ IsInjective(p)
    BY ReverseInjective
  <1>2. Range(p) = Range(q)
    BY ReverseInjective
  <1> HIDE DEF p
  <1>3. /\ Without(p, X) \in Seq(S) /\ IsInjective(Without(p, X))
        /\ Range(Without(p, X)) = Range(p) \ X
    BY <1>1, WithoutProperties
  <1>4. Range(Without(p, X)) = Range(q) \ X
    BY <1>2, <1>3
  <1> QED
    BY <1>3, <1>4 DEF p

-----------------------------------------------------------------------------
(* Hashes. *)

(* The hash of a full block of known tokens is a prefix of that length. *)
LEMMA BlockHashFacts ==
    ASSUME NEW r, all_token_ids[r] \in Seq(Token),
           NEW i \in Nat \ {0}, i * BlockSize <= NumTokens(r)
    PROVE  /\ BlockHash(r, i) \in Seq(Token)
           /\ Len(BlockHash(r, i)) = i * BlockSize
           /\ BlockHash(r, i) # NoHash
  <1>1. i * BlockSize \in Nat \ {0}
    BY BlockSizes, SMT
  <1>2. /\ SubSeq(all_token_ids[r], 1, i * BlockSize) \in Seq(Token)
        /\ Len(SubSeq(all_token_ids[r], 1, i * BlockSize)) = i * BlockSize
    BY <1>1 DEF NumTokens
  <1>3. Len(NoHash) = 0
    BY DEF NoHash
  <1> QED
    BY <1>1, <1>2, <1>3 DEF BlockHash

(* The map that describes the same cache as the hashes of the blocks. *)
Described(hashes) == {<<hashes[b], b>> : b \in {c \in Block : hashes[c] # NoHash}}

(* The blocks from + 1 .. to of a table of r have got their hashes, no      *)
(* other block has changed, and the map describes the new hashes.          *)
HashesSet(r, blocks, from, to, hashes, new, map) ==
    /\ new \in [Block -> Seq(Token)]
    /\ \A i \in from + 1 .. to : new[blocks[i]] = BlockHash(r, i)
    /\ \A b \in Block : (\A i \in from + 1 .. to : blocks[i] # b) => new[b] = hashes[b]
    /\ map = Described(new)

(* What cache_full_blocks does to hashes and map that describe one cache:  *)
(* the blocks from + 1 .. to of a table, which have no hash, get theirs,   *)
(* no other block changes, and hashes and map still describe one cache.    *)
LEMMA CachingHashes ==
    ASSUME NEW r \in Requests, all_token_ids[r] \in Seq(Token),
           NEW hashes \in [Block -> Seq(Token)],
           NEW blocks \in Seq(Block), IsInjective(blocks),
           NEW from \in Nat, NEW to \in Nat, to <= Len(blocks),
           to * BlockSize <= NumTokens(r),
           \A i \in from + 1 .. to : hashes[blocks[i]] = NoHash
    PROVE  HashesSet(r, blocks, from, to, hashes,
                     SetHashes(hashes, NewlyCached(r, blocks, from, to)),
                     Described(hashes) \cup NewlyCached(r, blocks, from, to))
  <1> DEFINE map   == Described(hashes)
             pairs == NewlyCached(r, blocks, from, to)
             new   == SetHashes(hashes, pairs)
  <1>1. /\ DOMAIN blocks = 1 .. Len(blocks) /\ Len(blocks) \in Nat
        /\ \A i \in from + 1 .. to : i \in DOMAIN blocks /\ i \in Nat \ {0} /\ blocks[i] \in Block
    OBVIOUS
  <1>2. \A i \in from + 1 .. to : BlockHash(r, i) \in Seq(Token) /\ BlockHash(r, i) # NoHash
    <2> TAKE i \in from + 1 .. to
    <2>1. i * BlockSize <= NumTokens(r)
      <3>1. i * BlockSize <= to * BlockSize /\ i * BlockSize \in Nat /\ to * BlockSize \in Nat
        <4>1. i \in Nat /\ i <= to
          BY <1>1
        <4> QED
          BY <4>1, MulMonotone
      <3>2. NumTokens(r) \in Nat
        BY DEF NumTokens
      <3> QED
        BY <3>1, <3>2
    <2> QED
      BY <2>1, <1>1, BlockHashFacts
  <1>3. pairs = {<<BlockHash(r, i), blocks[i]>> : i \in from + 1 .. to}
    BY DEF NewlyCached
  <1>4. \A b \in Block :
            new[b] = IF \E h \in pairs : h[2] = b
                     THEN (CHOOSE h \in pairs : h[2] = b)[1] ELSE hashes[b]
    BY DEF SetHashes
  <1>5. DOMAIN new = Block
    BY DEF SetHashes
  <1> HIDE DEF pairs, new
  <1>6. \A i \in from + 1 .. to : new[blocks[i]] = BlockHash(r, i)
    <2> TAKE i \in from + 1 .. to
    <2> DEFINE h == CHOOSE h \in pairs : h[2] = blocks[i]
    <2>1. <<BlockHash(r, i), blocks[i]>> \in pairs
      BY <1>3
    <2>2. h \in pairs /\ h[2] = blocks[i]
      <3>1. \E x \in pairs : x[2] = blocks[i]
        BY <2>1
      <3> QED
        BY <3>1
    <2>3. new[blocks[i]] = h[1]
      BY <1>1, <1>4, <2>2
    <2> HIDE DEF h
    <2>4. PICK j \in from + 1 .. to : h = <<BlockHash(r, j), blocks[j]>>
      BY <2>2, <1>3
    <2>5. j = i
      BY <2>2, <2>4, <1>1 DEF IsInjective
    <2> QED
      BY <2>3, <2>4, <2>5
  <1>7. \A b \in Block : (\A i \in from + 1 .. to : blocks[i] # b) => new[b] = hashes[b]
    <2> SUFFICES ASSUME NEW b \in Block, \A i \in from + 1 .. to : blocks[i] # b
                 PROVE  new[b] = hashes[b]
      OBVIOUS
    <2>1. \A h \in pairs : h[2] # b
      BY <1>3
    <2> QED
      BY <2>1, <1>4
  <1>8. new \in [Block -> Seq(Token)]
    <2>1. ASSUME NEW b \in Block PROVE new[b] \in Seq(Token)
      <3>1. CASE \E i \in from + 1 .. to : blocks[i] = b
        BY <3>1, <1>6, <1>2
      <3>2. CASE \A i \in from + 1 .. to : blocks[i] # b
        BY <3>2, <1>7
      <3> QED
        BY <3>1, <3>2
    <2>2. new = [b \in Block |-> new[b]]
      BY DEF new, SetHashes
    <2> QED
      BY <2>1, <2>2
  <1>9. map \cup pairs = Described(new)
    <2> DEFINE exact == Described(new)
    <2> USE DEF Described
    <2>1. ASSUME NEW p \in map PROVE p \in exact
      <3>1. PICK b \in Block : hashes[b] # NoHash /\ p = <<hashes[b], b>>
        OBVIOUS
      <3>2. new[b] = hashes[b]
        BY <3>1, <1>7
      <3> QED
        BY <3>1, <3>2
    <2>2. ASSUME NEW p \in pairs PROVE p \in exact
      BY <1>1, <1>2, <1>3, <1>6
    <2>3. ASSUME NEW p \in exact PROVE p \in map \cup pairs
      <3>1. PICK b \in Block : new[b] # NoHash /\ p = <<new[b], b>>
        OBVIOUS
      <3>2. CASE \E i \in from + 1 .. to : blocks[i] = b
        BY <3>1, <3>2, <1>3, <1>6
      <3>3. CASE \A i \in from + 1 .. to : blocks[i] # b
        BY <3>1, <3>3, <1>7
      <3> QED
        BY <3>2, <3>3
    <2> QED
      BY <2>1, <2>2, <2>3
  <1> QED
    BY <1>6, <1>7, <1>8, <1>9 DEF pairs, new, HashesSet

(* num_cached_block.get(request_id, 0). *)
LEMMA NumCachedValue ==
    ASSUME NEW n \in Nat \cup {NoEntry}
    PROVE  Max({0, n}) \in Nat /\ Max({0, n}) = IF n = NoEntry THEN 0 ELSE n
  <1>1. n \in Int /\ NoEntry = -1
    BY DEF NoEntry
  <1> QED
    BY <1>1, MaxOfTwo

(* The number of cached blocks of a table is a natural number. *)
LEMMA NumCachedType ==
    ASSUME KVInv, NEW r \in Requests
    PROVE  NumCached(r) \in Nat
  <1>1. num_cached_block[r] \in Nat \cup {NoEntry}
    BY DEF KVInv, KVTypeOK
  <1>2. Max({0, num_cached_block[r]}) \in Nat
    BY <1>1, NumCachedValue
  <1> QED
    BY <1>2 DEF NumCached

(* The requests that hold a block are finitely many. *)
LEMMA HoldersFinite ==
    ASSUME NEW b
    PROVE  IsFiniteSet(Holders(b)) /\ Cardinality(Holders(b)) \in Nat
  <1>1. Holders(b) \in SUBSET Requests
    BY DEF Holders
  <1> QED
    BY <1>1, RequestsFinite, FS_Subset, FS_CardinalityType

-----------------------------------------------------------------------------
(* The actions, one by one. *)

(* BlockPool.__init__: every block but the null block is free. *)
LEMMA KVInitInv == KVInit => KVInv
  <1> SUFFICES ASSUME KVInit PROVE KVInv
    OBVIOUS
  <1> USE DEF KVInit
  <1>1. KVTypeOK
    BY BlockSizes DEF KVTypeOK, NoHash, NoEntry, Block
  <1>2. \A r \in Requests : NumCached(r) = 0 /\ req_to_blocks[r] = <<>> /\ NumTokens(r) = 0
    <2> TAKE r \in Requests
    <2>1. NoEntry \in Nat \cup {NoEntry} /\ num_cached_block[r] = NoEntry
      OBVIOUS
    <2> QED
      BY <2>1, NumCachedValue DEF NumCached, NumTokens
  <1>3. TablesWellFormed /\ TableHashes /\ UncachedPrivate /\ CachedWithinTable
    <2>1. \A r \in Requests : Len(req_to_blocks[r]) = 0 /\ Range(req_to_blocks[r]) = {}
      BY DEF Range
    <2>2. TablesWellFormed
      BY <2>1 DEF TablesWellFormed, IsInjective
    <2>3. TableHashes
      BY <2>1 DEF TableHashes
    <2>4. UncachedPrivate
      BY <2>1 DEF UncachedPrivate
    <2>5. CachedWithinTable
      BY <1>2, <2>1, BlockSizes DEF CachedWithinTable
    <2> QED
      BY <2>2, <2>3, <2>4, <2>5
  <1>4. RefCountExact
    <2>1. \A b \in Block : Holders(b) = {}
      BY DEF Holders, Range
    <2> QED
      BY <2>1, FS_EmptySet DEF RefCountExact
  <1>5. FreeQueueExact
    BY BlockSizes DEF FreeQueueExact, IsInjective, Range, Block, NullBlock
  <1>6. HashMapExact /\ NullUncached
    BY BlockSizes DEF HashMapExact, NullUncached, NullBlock, Block
  <1> QED
    BY <1>1, <1>3, <1>4, <1>5, <1>6 DEF KVInv

(* Requests that appear or grow: every prefix already cached stays what it *)
(* was.                                                                    *)
LEMMA TokensGrowInv ==
    ASSUME KVInv, UNCHANGED <<poolvars, tablevars>>,
           all_token_ids' \in [Requests -> Seq(Token)],
           \A s \in Requests :
              /\ NumTokens(s) <= Len(all_token_ids'[s])
              /\ \A n \in 0 .. NumTokens(s) :
                    SubSeq(all_token_ids'[s], 1, n) = SubSeq(all_token_ids[s], 1, n)
    PROVE  KVInv'
  <1>1. /\ ref_cnt' = ref_cnt /\ block_hash' = block_hash
        /\ cached_block_hash_to_block' = cached_block_hash_to_block
        /\ free_block_queue' = free_block_queue
        /\ req_to_blocks' = req_to_blocks /\ num_cached_block' = num_cached_block
    BY DEF poolvars, tablevars
  <1>2. KVTypeOK'
    BY <1>1 DEF KVInv, KVTypeOK
  <1>3. /\ TablesWellFormed' /\ RefCountExact' /\ FreeQueueExact' /\ HashMapExact'
        /\ UncachedPrivate' /\ NullUncached'
    BY <1>1 DEF KVInv, TablesWellFormed, RefCountExact, Holders, FreeQueueExact, HashMapExact,
                UncachedPrivate, NullUncached, NumCached
  <1>4. \A s \in Requests : NumCached(s)' = NumCached(s) /\ NumCached(s) \in Nat
    BY <1>1, NumCachedValue DEF NumCached, KVInv, KVTypeOK
  <1>5. \A s \in Requests : /\ NumTokens(s) \in Nat /\ NumTokens(s)' \in Nat
                            /\ NumTokens(s) <= NumTokens(s)'
    BY <1>2 DEF NumTokens, KVInv, KVTypeOK
  <1>6. CachedWithinTable'
    <2> SUFFICES ASSUME NEW s \in Requests
                 PROVE  /\ NumCached(s)' <= Len(req_to_blocks'[s])
                        /\ NumCached(s)' * BlockSize <= NumTokens(s)'
      BY DEF CachedWithinTable
    <2>1. NumCached(s) * BlockSize \in Nat
      BY <1>4, MulMonotone
    <2> QED
      BY <2>1, <1>1, <1>4, <1>5 DEF KVInv, CachedWithinTable
  <1>7. TableHashes'
    <2> SUFFICES ASSUME NEW s \in Requests, NEW i \in 1 .. Len(req_to_blocks[s]),
                        i <= NumCached(s)
                 PROVE  BlockHash(s, i)' = BlockHash(s, i)
      BY <1>1, <1>4 DEF KVInv, TableHashes
    <2>1. Len(req_to_blocks[s]) \in Nat
      BY DEF KVInv, KVTypeOK
    <2>2. i * BlockSize <= NumCached(s) * BlockSize /\ i * BlockSize \in Nat
          /\ NumCached(s) * BlockSize \in Nat
      BY <2>1, <1>4, MulMonotone
    <2>3. i * BlockSize \in 0 .. NumTokens(s)
      BY <2>2, <1>5 DEF KVInv, CachedWithinTable
    <2> QED
      BY <2>3 DEF BlockHash
  <1> QED
    BY <1>2, <1>3, <1>6, <1>7 DEF KVInv

(* A new request has no table yet. *)
LEMMA NewRequestInv ==
    ASSUME KVInv, NEW r \in Requests, NEW prompt \in Prompts, NewRequest(r, prompt)
    PROVE  KVInv'
  <1>1. prompt \in Seq(Token) /\ all_token_ids \in [Requests -> Seq(Token)]
    BY PromptsTyped DEF KVInv, KVTypeOK
  <1>2. all_token_ids' = [all_token_ids EXCEPT ![r] = prompt] /\ NumTokens(r) = 0
        /\ UNCHANGED <<poolvars, tablevars>>
    BY DEF NewRequest, NumTokens
  <1>3. all_token_ids' \in [Requests -> Seq(Token)]
    BY <1>1, <1>2
  <1>4. ASSUME NEW s \in Requests
        PROVE  /\ NumTokens(s) <= Len(all_token_ids'[s])
               /\ \A n \in 0 .. NumTokens(s) :
                     SubSeq(all_token_ids'[s], 1, n) = SubSeq(all_token_ids[s], 1, n)
    <2>1. CASE s = r
      <3>1. Len(all_token_ids'[r]) \in Nat
        BY <1>3
      <3>2. all_token_ids'[r] \in Seq(Token) /\ all_token_ids[r] \in Seq(Token)
        BY <1>1, <1>3
      <3>3. SubSeq(all_token_ids'[r], 1, 0) = <<>> /\ SubSeq(all_token_ids[r], 1, 0) = <<>>
        BY <3>2
      <3>4. \A n \in 0 .. NumTokens(r) : n = 0
        BY <1>2
      <3> QED
        BY <2>1, <3>1, <3>3, <3>4, <1>2
    <2>2. CASE s # r
      <3>1. all_token_ids'[s] = all_token_ids[s] /\ NumTokens(s) \in Nat
        BY <2>2, <1>1, <1>2 DEF NumTokens
      <3> QED
        BY <3>1 DEF NumTokens
    <2> QED
      BY <2>1, <2>2
  <1> QED
    BY <1>2, <1>3, <1>4, TokensGrowInv

(* An appended token changes no prefix that is already hashed. *)
LEMMA AppendOutputTokenInv ==
    ASSUME KVInv, NEW r \in Requests, NEW token \in Token, AppendOutputToken(r, token)
    PROVE  KVInv'
  <1>1. all_token_ids \in [Requests -> Seq(Token)]
    BY DEF KVInv, KVTypeOK
  <1>2. /\ all_token_ids' = [all_token_ids EXCEPT ![r] = Append(all_token_ids[r], token)]
        /\ UNCHANGED <<poolvars, tablevars>>
    BY DEF AppendOutputToken
  <1>3. all_token_ids' \in [Requests -> Seq(Token)]
    BY <1>1, <1>2
  <1>4. ASSUME NEW s \in Requests
        PROVE  /\ NumTokens(s) <= Len(all_token_ids'[s])
               /\ \A n \in 0 .. NumTokens(s) :
                     SubSeq(all_token_ids'[s], 1, n) = SubSeq(all_token_ids[s], 1, n)
    <2>1. CASE s = r
      <3>1. all_token_ids'[r] = Append(all_token_ids[r], token) /\ all_token_ids[r] \in Seq(Token)
        BY <1>1, <1>2
      <3>2. \A n \in 0 .. Len(all_token_ids[r]) :
                SubSeq(Append(all_token_ids[r], token), 1, n) = SubSeq(all_token_ids[r], 1, n)
        BY <3>1
      <3> QED
        BY <2>1, <3>1, <3>2 DEF NumTokens
    <2>2. CASE s # r
      <3>1. all_token_ids'[s] = all_token_ids[s] /\ NumTokens(s) \in Nat
        BY <2>2, <1>1, <1>2 DEF NumTokens
      <3> QED
        BY <3>1 DEF NumTokens
    <2> QED
      BY <2>1, <2>2
  <1> QED
    BY <1>2, <1>3, <1>4, TokensGrowInv

(* free: the blocks nobody else holds go back to the queue, and the        *)
(* request leaves every count it was part of.                              *)
LEMMA FreeRequestInv ==
    ASSUME KVInv, NEW r \in Requests, FreeRequest(r),
           all_token_ids' \in [Requests -> Seq(Token)],
           \A s \in Requests \ {r} : all_token_ids'[s] = all_token_ids[s]
    PROVE  KVInv'
  <1> DEFINE blocks == req_to_blocks[r]
             gone   == {b \in Range(blocks) : ref_cnt[b] # 1}
             back   == Without(Reverse(blocks), gone)
  <1>1. /\ ref_cnt \in [Block -> Nat] /\ block_hash \in [Block -> Seq(Token)]
        /\ free_block_queue \in Seq(Block)
        /\ req_to_blocks \in [Requests -> Seq(Block)]
        /\ num_cached_block \in [Requests -> Nat \cup {NoEntry}]
        /\ blocks \in Seq(Block) /\ Range(blocks) \subseteq Block
    BY DEF KVInv, KVTypeOK, Range
  <1>2. /\ ref_cnt' = [b \in Block |-> IF b \in Range(blocks) THEN ref_cnt[b] - 1 ELSE ref_cnt[b]]
        /\ free_block_queue' = free_block_queue \o back
        /\ req_to_blocks' = [req_to_blocks EXCEPT ![r] = <<>>]
        /\ num_cached_block' = [num_cached_block EXCEPT ![r] = NoEntry]
        /\ block_hash' = block_hash
        /\ cached_block_hash_to_block' = cached_block_hash_to_block
    BY DEF FreeRequest
  <1>3. IsInjective(blocks) /\ NullBlock \notin Range(blocks)
    BY DEF KVInv, TablesWellFormed
  <1>4. /\ back \in Seq(Block) /\ IsInjective(back)
        /\ Range(back) = {b \in Range(blocks) : ref_cnt[b] = 1}
    <2>1. /\ back \in Seq(Block) /\ IsInjective(back)
          /\ Range(back) = Range(blocks) \ gone
      <3> HIDE DEF blocks, gone
      <3> QED
        BY <1>1, <1>3, BackProperties
    <2> QED
      BY <2>1 DEF gone
  <1> HIDE DEF back
  <1>5. \A b \in Range(blocks) : ref_cnt[b] \in Nat \ {0}
    <2> TAKE b \in Range(blocks)
    <2>1. r \in Holders(b) /\ b \in Block
      BY <1>1 DEF Holders
    <2>2. Cardinality(Holders(b)) # 0
      BY <2>1, HoldersFinite, FS_EmptySet
    <2> QED
      BY <2>1, <2>2, <1>1 DEF KVInv, RefCountExact
  <1> HIDE DEF blocks
  <1>6. Range(free_block_queue) \cap Range(back) = {} /\ IsInjective(free_block_queue)
    BY <1>4 DEF KVInv, FreeQueueExact
  <1>7. /\ free_block_queue' \in Seq(Block) /\ IsInjective(free_block_queue')
        /\ Range(free_block_queue') = Range(free_block_queue) \cup Range(back)
    BY <1>1, <1>2, <1>4, <1>6, ConcatInjective
  <1>8. ref_cnt' \in [Block -> Nat]
    <2>1. \A b \in Range(blocks) : ref_cnt[b] - 1 \in Nat
      BY <1>5
    <2> QED
      BY <2>1, <1>1, <1>2
  <1>9. KVTypeOK'
    <2>1. req_to_blocks' \in [Requests -> Seq(Block)]
      BY <1>1, <1>2
    <2>2. num_cached_block' \in [Requests -> Nat \cup {NoEntry}]
      BY <1>1, <1>2
    <2> QED
      BY <2>1, <2>2, <1>1, <1>2, <1>7, <1>8 DEF KVInv, KVTypeOK
  <1>10. \A s \in Requests : /\ s # r => req_to_blocks'[s] = req_to_blocks[s]
                             /\ s # r => num_cached_block'[s] = num_cached_block[s]
                             /\ s = r => req_to_blocks'[s] = <<>> /\ num_cached_block'[s] = NoEntry
    BY <1>1, <1>2
  <1>11. Range(<<>>) = {} /\ IsInjective(<<>>) /\ Len(<<>>) = 0
    BY DEF Range, IsInjective
  <1>12. TablesWellFormed'
    BY <1>10, <1>11 DEF KVInv, TablesWellFormed
  <1>13. RefCountExact'
    <2> SUFFICES ASSUME NEW b \in Block PROVE ref_cnt'[b] = Cardinality(Holders(b)')
      BY DEF RefCountExact
    <2>1. Holders(b)' = Holders(b) \ {r}
      BY <1>10, <1>11 DEF Holders
    <2>2. r \in Holders(b) <=> b \in Range(blocks)
      BY DEF Holders, blocks
    <2>3. Cardinality(Holders(b) \ {r}) =
             IF r \in Holders(b) THEN Cardinality(Holders(b)) - 1 ELSE Cardinality(Holders(b))
      BY HoldersFinite, FS_RemoveElement
    <2>4. ref_cnt[b] = Cardinality(Holders(b))
      BY DEF KVInv, RefCountExact
    <2> QED
      BY <2>1, <2>2, <2>3, <2>4, <1>2
  <1>14. FreeQueueExact'
    <2> SUFFICES Range(free_block_queue') = {b \in Block \ {NullBlock} : ref_cnt'[b] = 0}
      BY <1>7 DEF FreeQueueExact
    <2>1. \A b \in Block : ref_cnt'[b] = IF b \in Range(blocks) THEN ref_cnt[b] - 1 ELSE ref_cnt[b]
      BY <1>2
    <2>2. Range(free_block_queue) = {b \in Block \ {NullBlock} : ref_cnt[b] = 0}
      BY DEF KVInv, FreeQueueExact
    <2>3. \A b \in Block : b \in Range(free_block_queue') <=> (b # NullBlock /\ ref_cnt'[b] = 0)
      BY <2>1, <2>2, <1>1, <1>3, <1>4, <1>5, <1>7 DEF blocks
    <2>4. Range(free_block_queue') \subseteq Block
      BY <1>7 DEF Range
    <2> QED
      BY <2>3, <2>4
  <1>15. HashMapExact' /\ NullUncached'
    BY <1>2 DEF KVInv, HashMapExact, NullUncached
  <1>16. \A s \in Requests : NumCached(s)' = IF s = r THEN 0 ELSE NumCached(s)
    <2>1. Max({0, NoEntry}) = 0
      BY NumCachedValue
    <2> QED
      BY <2>1, <1>10 DEF NumCached
  <1>17. \A s \in Requests \ {r} : \A i \in Nat : BlockHash(s, i)' = BlockHash(s, i)
    BY DEF BlockHash
  <1>18. TableHashes'
    <2> SUFFICES ASSUME NEW s \in Requests, NEW i \in 1 .. Len(req_to_blocks'[s])
                 PROVE  block_hash'[req_to_blocks'[s][i]] =
                            IF i <= NumCached(s)' THEN BlockHash(s, i)' ELSE NoHash
      BY DEF TableHashes
    <2>1. s # r
      BY <1>10, <1>11
    <2>2. i \in Nat
      BY <1>9 DEF KVTypeOK
    <2> QED
      BY <2>1, <2>2, <1>2, <1>10, <1>16, <1>17 DEF KVInv, TableHashes
  <1>19. UncachedPrivate'
    BY <1>10, <1>11, <1>16 DEF KVInv, UncachedPrivate
  <1>20. CachedWithinTable'
    <2>1. NumTokens(r)' \in Nat /\ 0 * BlockSize = 0
      BY BlockSizes DEF NumTokens
    <2>2. \A s \in Requests \ {r} : NumTokens(s)' = NumTokens(s)
      BY DEF NumTokens
    <2> QED
      BY <2>1, <2>2, <1>10, <1>11, <1>16 DEF KVInv, CachedWithinTable
  <1> QED
    BY <1>9, <1>12, <1>13, <1>14, <1>15, <1>18, <1>19, <1>20 DEF KVInv

(* Tokens that have slots in k blocks fill at most k blocks. *)
LEMMA DivUpper ==
    ASSUME NEW n \in Nat, NEW k \in Nat, n <= k * BlockSize
    PROVE  n \div BlockSize <= k
  BY BlockSizes, SMT

(* cache_blocks: the blocks that became full get their hashes. *)
LEMMA CacheInv ==
    ASSUME KVInv, NEW r \in Requests, Cache(r)
    PROVE  KVInv'
  <1> DEFINE blocks == req_to_blocks[r]
             from   == NumCached(r)
  <1>1. /\ ref_cnt \in [Block -> Nat] /\ block_hash \in [Block -> Seq(Token)]
        /\ free_block_queue \in Seq(Block) /\ req_to_blocks \in [Requests -> Seq(Block)]
        /\ num_cached_block \in [Requests -> Nat \cup {NoEntry}]
        /\ all_token_ids \in [Requests -> Seq(Token)]
        /\ blocks \in Seq(Block) /\ Len(blocks) \in Nat /\ NumTokens(r) \in Nat
        /\ NumTokens(r) = Len(all_token_ids[r])
    BY DEF KVInv, KVTypeOK, NumTokens
  <1>2. PICK n \in 0 .. Min({NumTokens(r), Len(blocks) * BlockSize}) : CacheBlocks(r, n)
    BY DEF Cache
  <1>3. n \in Nat /\ n <= NumTokens(r) /\ n <= Len(blocks) * BlockSize
    <2> DEFINE room == Len(blocks) * BlockSize
    <2>1. room \in Nat
      BY <1>1, MulMonotone
    <2>2. n \in 0 .. Min({NumTokens(r), room})
      OBVIOUS
    <2> HIDE DEF room, blocks
    <2>3. Min({NumTokens(r), room}) = IF NumTokens(r) <= room THEN NumTokens(r) ELSE room
      <3>1. NumTokens(r) \in Int /\ room \in Int
        BY <2>1, <1>1
      <3> QED
        BY <3>1, MinOfTwo
    <2>4. n \in Nat /\ n <= NumTokens(r) /\ n <= room
      BY <2>1, <2>2, <2>3, <1>1
    <2> QED
      BY <2>4 DEF room
  <1> DEFINE to    == n \div BlockSize
             pairs == NewlyCached(r, blocks, from, to)
  <1>4. to \in Nat /\ to <= Len(blocks) /\ to * BlockSize <= NumTokens(r)
    <2>1. to \in Nat /\ to * BlockSize <= n /\ to <= Len(blocks)
      BY <1>1, <1>3, DivBounds, DivUpper
    <2>2. to * BlockSize \in Nat
      BY <2>1, MulMonotone
    <2> QED
      BY <2>1, <2>2, <1>1, <1>3
  <1>5. /\ block_hash' = SetHashes(block_hash, pairs)
        /\ cached_block_hash_to_block' = cached_block_hash_to_block \cup pairs
        /\ num_cached_block' = [num_cached_block EXCEPT ![r] = IF to > from THEN to ELSE num_cached_block[r]]
        /\ ref_cnt' = ref_cnt /\ free_block_queue' = free_block_queue
        /\ req_to_blocks' = req_to_blocks /\ all_token_ids' = all_token_ids
    BY <1>2 DEF CacheBlocks, Cache
  <1>6. from \in Nat /\ from <= Len(blocks)
    BY <1>1, NumCachedValue DEF NumCached, KVInv, CachedWithinTable
  <1> HIDE DEF to
  <1>7. \A i \in from + 1 .. to : block_hash[blocks[i]] = NoHash
    <2> TAKE i \in from + 1 .. to
    <2>1. i \in 1 .. Len(req_to_blocks[r]) /\ ~(i <= NumCached(r))
      BY <1>1, <1>4, <1>6, SMTT(30)
    <2> QED
      BY <2>1 DEF KVInv, TableHashes
  <1>8. IsInjective(blocks) /\ NullBlock \notin Range(blocks)
    BY DEF KVInv, TablesWellFormed
  <1>9. cached_block_hash_to_block = Described(block_hash)
    BY DEF KVInv, HashMapExact, Described
  <1> HIDE DEF blocks, from
  <1>10. /\ block_hash' \in [Block -> Seq(Token)]
         /\ \A i \in from + 1 .. to : block_hash'[blocks[i]] = BlockHash(r, i)
         /\ \A b \in Block :
               (\A i \in from + 1 .. to : blocks[i] # b) => block_hash'[b] = block_hash[b]
         /\ cached_block_hash_to_block' = Described(block_hash')
    <2> DEFINE new == SetHashes(block_hash, pairs)
    <2>1. /\ all_token_ids[r] \in Seq(Token) /\ block_hash \in [Block -> Seq(Token)]
          /\ blocks \in Seq(Block) /\ IsInjective(blocks)
          /\ from \in Nat /\ to \in Nat /\ to <= Len(blocks)
          /\ to * BlockSize <= NumTokens(r)
          /\ \A i \in from + 1 .. to : block_hash[blocks[i]] = NoHash
      BY <1>1, <1>4, <1>6, <1>7, <1>8
    <2>2. HashesSet(r, blocks, from, to, block_hash, new, Described(block_hash) \cup pairs)
      BY <2>1, CachingHashes
    <2>3. block_hash' = new /\ cached_block_hash_to_block' = Described(block_hash) \cup pairs
      BY <1>5, <1>9
    <2> HIDE DEF new, pairs
    <2> QED
      BY <2>2, <2>3 DEF HashesSet
  <1>11. \A s \in Requests : NumCached(s)' = IF s = r /\ to > from THEN to ELSE NumCached(s)
    <2>1. to \in Nat \cup {NoEntry}
      BY <1>4
    <2>2. Max({0, to}) = to
      BY <1>4, MaxOfTwo
    <2> QED
      BY <2>2, <1>1, <1>5 DEF NumCached
  <1>12. KVTypeOK'
    <2>1. cached_block_hash_to_block' \subseteq Seq(Token) \X Block
      BY <1>10 DEF Described
    <2>2. num_cached_block' \in [Requests -> Nat \cup {NoEntry}]
      BY <1>1, <1>4, <1>5
    <2> QED
      BY <2>1, <2>2, <1>1, <1>5, <1>10 DEF KVTypeOK
  <1>13. TablesWellFormed' /\ RefCountExact' /\ FreeQueueExact'
    BY <1>5 DEF KVInv, TablesWellFormed, RefCountExact, Holders, FreeQueueExact
  <1>14. HashMapExact'
    BY <1>10 DEF HashMapExact, Described
  <1>15. \A i \in 1 .. Len(blocks) : i \in DOMAIN blocks /\ blocks[i] \in Block /\ blocks[i] \in Range(blocks)
    BY <1>1 DEF Range
  <1>16. NullUncached'
    <2>1. NullBlock \in Block
      BY BlockSizes DEF Block, NullBlock
    <2>2. \A i \in from + 1 .. to : i \in 1 .. Len(blocks)
      BY <1>1, <1>4, <1>6
    <2>3. \A i \in from + 1 .. to : blocks[i] # NullBlock
      BY <2>2, <1>8, <1>15
    <2> QED
      BY <2>1, <2>3, <1>10 DEF KVInv, NullUncached
  <1>17. \A s \in Requests : \A i : BlockHash(s, i)' = BlockHash(s, i)
    BY <1>5 DEF BlockHash
  <1>18. TableHashes'
    <2> SUFFICES ASSUME NEW s \in Requests, NEW i \in 1 .. Len(req_to_blocks[s])
                 PROVE  block_hash'[req_to_blocks[s][i]] =
                            IF i <= NumCached(s)' THEN BlockHash(s, i) ELSE NoHash
      BY <1>5, <1>17 DEF TableHashes
    <2>0. /\ req_to_blocks[s] \in Seq(Block) /\ i \in DOMAIN req_to_blocks[s] /\ i \in Nat
          /\ req_to_blocks[s][i] \in Block
      BY <1>1
    <2>1. block_hash[req_to_blocks[s][i]] = IF i <= NumCached(s) THEN BlockHash(s, i) ELSE NoHash
      BY DEF KVInv, TableHashes
    <2>2. CASE s = r
      <3>1. req_to_blocks[s] = blocks /\ NumCached(s) = from
        BY <2>2 DEF blocks, from
      <3>2. CASE i \in from + 1 .. to
        BY <3>1, <3>2, <2>2, <1>4, <1>6, <1>10, <1>11
      <3>3. CASE i \notin from + 1 .. to
        <4>1. \A j \in from + 1 .. to : blocks[j] # blocks[i]
          <5> TAKE j \in from + 1 .. to
          <5>1. j \in DOMAIN blocks /\ i \in DOMAIN blocks /\ j # i
            BY <3>1, <3>3, <2>0, <1>1, <1>4, <1>6, SMTT(30)
          <5> QED
            BY <5>1, <1>8 DEF IsInjective
        <4>2. block_hash'[blocks[i]] = block_hash[blocks[i]]
          BY <4>1, <3>1, <2>0, <1>10
        <4>3. i <= NumCached(s)' <=> i <= from
          BY <3>1, <3>3, <2>0, <2>2, <1>4, <1>6, <1>11
        <4> QED
          BY <4>2, <4>3, <3>1, <2>1
      <3> QED
        BY <3>2, <3>3
    <2>3. CASE s # r
      <3>1. \A j \in from + 1 .. to : blocks[j] \notin Range(req_to_blocks[s])
        BY <2>3, <1>1, <1>4, <1>6 DEF KVInv, UncachedPrivate, blocks, from
      <3>2. \A j \in from + 1 .. to : blocks[j] # req_to_blocks[s][i]
        BY <3>1, <2>0 DEF Range
      <3>3. block_hash'[req_to_blocks[s][i]] = block_hash[req_to_blocks[s][i]]
        BY <3>2, <2>0, <1>10
      <3> QED
        BY <3>3, <2>1, <2>3, <1>11
    <2> QED
      BY <2>2, <2>3
  <1>19. UncachedPrivate'
    <2> SUFFICES ASSUME NEW p \in Requests, NEW s \in Requests, p # s,
                        NEW i \in NumCached(p)' + 1 .. Len(req_to_blocks[p])
                 PROVE  req_to_blocks[p][i] \notin Range(req_to_blocks[s])
      BY <1>5 DEF UncachedPrivate
    <2>1. NumCached(p) \in Nat /\ Len(req_to_blocks[p]) \in Nat
      BY <1>1, NumCachedType
    <2>2. NumCached(p)' \in Nat /\ NumCached(p) <= NumCached(p)'
      BY <2>1, <1>4, <1>6, <1>11 DEF from
    <2>3. i \in NumCached(p) + 1 .. Len(req_to_blocks[p])
      BY <2>1, <2>2
    <2> QED
      BY <2>3 DEF KVInv, UncachedPrivate
  <1>20. CachedWithinTable'
    BY <1>4, <1>5, <1>11 DEF KVInv, CachedWithinTable, NumTokens, blocks
  <1> QED
    BY <1>12, <1>13, <1>14, <1>16, <1>18, <1>19, <1>20 DEF KVInv

(* What get_computed_blocks returns: blocks that carry the hashes of this  *)
(* request's own prefixes, each once, never covering the last token; only  *)
(* a request without a table gets any.                                     *)
IsHit(r, hits) ==
    /\ hits \in Seq(Block) /\ Len(hits) \in Nat /\ DOMAIN hits = 1 .. Len(hits)
    /\ IsInjective(hits)
    /\ Len(hits) * BlockSize <= NumTokens(r)
    /\ \A i \in 1 .. Len(hits) :
          /\ hits[i] \in Block /\ hits[i] # NullBlock
          /\ block_hash[hits[i]] = BlockHash(r, i) /\ block_hash[hits[i]] # NoHash
    /\ hits # <<>> => req_to_blocks[r] = <<>>
    /\ hits = <<>> <=> Len(hits) = 0

(* get_computed_blocks returns such hits, and so does the lookup that a    *)
(* running request skips.                                                  *)
LEMMA HitFacts ==
    ASSUME KVInv, NEW r \in Requests, all_token_ids[r] # <<>>,
           NEW hits \in IF req_to_blocks[r] = <<>> THEN GetComputedBlocks(r) \cup {<<>>} ELSE {<<>>}
    PROVE  IsHit(r, hits)
  <1>1. all_token_ids[r] \in Seq(Token) /\ NumTokens(r) \in Nat \ {0}
    BY DEF KVInv, KVTypeOK, NumTokens
  <1>2. CASE hits = <<>>
    <2>1. Len(<<>>) = 0 /\ <<>> \in Seq(Block) /\ 0 * BlockSize = 0 /\ DOMAIN <<>> = 1 .. 0
      BY BlockSizes
    <2>2. IsInjective(<<>>)
      BY DEF IsInjective
    <2> QED
      BY <2>1, <2>2, <1>1, <1>2 DEF IsHit
  <1>3. CASE hits # <<>>
    <2>1. req_to_blocks[r] = <<>> /\ hits \in GetComputedBlocks(r)
      BY <1>3
    <2> DEFINE max_num_blocks == (NumTokens(r) - 1) \div BlockSize
               k == NumHits(r)
    <2>2. max_num_blocks \in Nat /\ max_num_blocks * BlockSize <= NumTokens(r) - 1
      BY <1>1, NumTokens(r) - 1 \in Nat, DivBounds
    <2>3. k \in Nat /\ k <= max_num_blocks
      <3> DEFINE chain == {n \in 1 .. max_num_blocks : \A i \in 1 .. n : IsCached(r, i)}
      <3>1. k = Cardinality(chain)
        BY DEF NumHits
      <3> HIDE DEF max_num_blocks, k
      <3>2. chain \in SUBSET (1 .. max_num_blocks)
        OBVIOUS
      <3>3. IsFiniteSet(1 .. max_num_blocks) /\ Cardinality(1 .. max_num_blocks) = max_num_blocks
        BY <2>2, FS_Interval
      <3> HIDE DEF chain
      <3>4. IsFiniteSet(chain) /\ Cardinality(chain) <= max_num_blocks
        BY <3>2, <3>3, FS_Subset
      <3> QED
        BY <3>1, <3>4, FS_CardinalityType
    <2>4. /\ hits \in [1 .. k -> Block]
          /\ \A i \in 1 .. k : <<BlockHash(r, i), hits[i]>> \in cached_block_hash_to_block
      BY <2>1 DEF GetComputedBlocks, HitBlocks
    <2> HIDE DEF max_num_blocks, k
    <2>5. hits \in Seq(Block) /\ Len(hits) = k /\ DOMAIN hits = 1 .. k
      BY <2>3, <2>4
    <2>6. k * BlockSize <= NumTokens(r)
      <3>1. k * BlockSize <= max_num_blocks * BlockSize /\ k * BlockSize \in Nat
            /\ max_num_blocks * BlockSize \in Nat
        BY <2>2, <2>3, MulMonotone
      <3> QED
        BY <3>1, <2>2, <1>1
    <2>7. ASSUME NEW i \in 1 .. k
          PROVE  /\ hits[i] \in Block /\ hits[i] # NullBlock
                 /\ block_hash[hits[i]] = BlockHash(r, i) /\ block_hash[hits[i]] # NoHash
                 /\ Len(BlockHash(r, i)) = i * BlockSize
      <3>1. i \in Nat \ {0} /\ i <= k
        BY <2>3
      <3>2. i * BlockSize <= NumTokens(r)
        <4>1. i * BlockSize <= k * BlockSize /\ i * BlockSize \in Nat /\ k * BlockSize \in Nat
          BY <3>1, <2>3, MulMonotone
        <4> QED
          BY <4>1, <2>6, <1>1
      <3>3. <<BlockHash(r, i), hits[i]>> \in
                {<<block_hash[b], b>> : b \in {c \in Block : block_hash[c] # NoHash}}
        BY <2>4 DEF KVInv, HashMapExact
      <3>4. hits[i] \in Block /\ block_hash[hits[i]] = BlockHash(r, i) /\ block_hash[hits[i]] # NoHash
        BY <3>3
      <3>5. hits[i] # NullBlock
        BY <3>4 DEF KVInv, NullUncached
      <3> QED
        BY <3>1, <3>2, <3>4, <3>5, <1>1, BlockHashFacts
    <2>8. IsInjective(hits)
      <3> SUFFICES ASSUME NEW i \in 1 .. k, NEW j \in 1 .. k, hits[i] = hits[j] PROVE i = j
        BY <2>5 DEF IsInjective
      <3>1. i * BlockSize = j * BlockSize
        BY <2>7
      <3>2. i \in Nat /\ j \in Nat
        BY <2>3
      <3> QED
        BY <3>1, <3>2, MulInjective
    <2>9. Len(hits) # 0
      BY <2>5, <1>3
    <2> QED
      BY <2>1, <2>3, <2>5, <2>6, <2>7, <2>8, <2>9, <1>3 DEF IsHit
  <1> QED
    BY <1>2, <1>3

(* A block of a table is referenced, so it is neither free nor new. *)
LEMMA TableReferenced ==
    ASSUME KVInv, NEW s \in Requests, NEW b \in Range(req_to_blocks[s])
    PROVE  b \in Block /\ b \notin Range(free_block_queue)
  <1>1. b \in Block /\ s \in Holders(b)
    BY DEF KVInv, KVTypeOK, Range, Holders
  <1>2. Cardinality(Holders(b)) # 0
    BY <1>1, HoldersFinite, FS_EmptySet
  <1>3. ref_cnt[b] # 0
    BY <1>1, <1>2 DEF KVInv, RefCountExact
  <1> QED
    BY <1>1, <1>3 DEF KVInv, FreeQueueExact

(* The check of allocate_slots is enough: once the hits are unlinked, the  *)
(* queue still has the new blocks.                                         *)
LEMMA EnoughFreeBlocks ==
    ASSUME KVInv, NEW r \in Requests, NEW hits, IsHit(r, hits), NEW total \in Nat,
           CanAllocate(r, hits, total)
    PROVE  /\ NumNewBlocks(r, hits, total) \in Nat
           /\ NumNewBlocks(r, hits, total) <= Len(Without(free_block_queue, Range(hits)))
           /\ Cdiv(total, BlockSize) <=
                 Len(req_to_blocks[r]) + Len(hits) + NumNewBlocks(r, hits, total)
  <1> DEFINE table == req_to_blocks[r]
             free  == free_block_queue
             need  == Cdiv(total, BlockSize)
             num   == NumNewBlocks(r, hits, total)
  <1>1. /\ table \in Seq(Block) /\ Len(table) \in Nat /\ Len(hits) \in Nat
        /\ free \in Seq(Block) /\ Len(free) \in Nat /\ IsInjective(free) /\ need \in Nat
    <2>1. need \in Nat
      BY CdivBounds
    <2>2. table \in Seq(Block) /\ Len(table) \in Nat /\ free \in Seq(Block) /\ Len(free) \in Nat
      BY DEF KVInv, KVTypeOK
    <2>3. Len(hits) \in Nat /\ IsInjective(free)
      BY DEF KVInv, FreeQueueExact, IsHit
    <2> HIDE DEF table, free, need
    <2> QED
      BY <2>1, <2>2, <2>3
  <1>2. num = IF 0 >= need - Len(hits) - Len(table) THEN 0 ELSE need - Len(hits) - Len(table)
    <2>1. num = Max({0, need - Len(hits) - Len(table)})
      BY DEF NumNewBlocks
    <2> HIDE DEF need, num, table
    <2>2. 0 \in Int /\ need - Len(hits) - Len(table) \in Int
      BY <1>1
    <2> QED
      BY <2>1, <2>2, MaxOfTwo
  <1>3. Range(free) \cap Range(hits) = {b \in Range(hits) : ref_cnt[b] = 0 /\ b # NullBlock}
    <2>1. Range(hits) \subseteq Block
      BY DEF IsHit, Range
    <2> QED
      BY <2>1 DEF KVInv, FreeQueueExact
  <1> DEFINE unlinked == Cardinality(Range(free) \cap Range(hits))
  <1>4. num + unlinked <= Len(free)
    BY <1>3 DEF CanAllocate, NumBlocksToAllocate
  <1>5. /\ Len(Without(free, Range(hits))) + unlinked = Len(free)
        /\ Len(Without(free, Range(hits))) \in Nat
        /\ unlinked \in Nat
    <2>1. /\ Without(free, Range(hits)) \in Seq(Block)
          /\ IsFiniteSet(Range(free) \cap Range(hits))
          /\ Len(Without(free, Range(hits))) + unlinked = Len(free)
      BY <1>1, WithoutProperties
    <2> QED
      BY <2>1, FS_CardinalityType
  <1> HIDE DEF need, num, table, free, unlinked
  <1>6. num \in Nat /\ num <= Len(Without(free, Range(hits))) /\ need <= Len(table) + Len(hits) + num
    <2> DEFINE left == Len(Without(free, Range(hits)))
               nh   == Len(hits)
               nt   == Len(table)
    <2>1. left \in Nat /\ unlinked \in Nat /\ num + unlinked <= left + unlinked
      BY <1>4, <1>5
    <2>2. /\ nh \in Nat /\ nt \in Nat /\ need \in Nat
          /\ num = IF 0 >= need - nh - nt THEN 0 ELSE need - nh - nt
      BY <1>1, <1>2
    <2> HIDE DEF left, nh, nt
    <2>3. num \in Nat /\ need <= nt + nh + num
      BY <2>2
    <2>4. num <= left
      BY <2>1, <2>3
    <2> QED
      BY <2>3, <2>4 DEF left, nh, nt
  <1> QED
    BY <1>6 DEF need, num, table, free

(* allocate_slots, the blocks: what it appends to a table is new to it,    *)
(* and what it leaves in the queue is the rest of the free blocks.         *)
Appended(r, hits, new_blocks, rest, num_new) ==
    LET table  == req_to_blocks[r]
        blocks == table \o hits \o new_blocks
    IN  /\ new_blocks \in Seq(Block) /\ Len(new_blocks) = num_new
        /\ rest \in Seq(Block) /\ IsInjective(rest)
        /\ Range(new_blocks) \subseteq Range(free_block_queue) \ Range(hits)
        /\ Range(rest) = (Range(free_block_queue) \ Range(hits)) \ Range(new_blocks)
        /\ blocks \in Seq(Block) /\ IsInjective(blocks)
        /\ Len(blocks) = Len(table) + Len(hits) + num_new
        /\ Range(blocks) = Range(table) \cup Range(hits) \cup Range(new_blocks)
        /\ Range(table) \cap (Range(hits) \cup Range(new_blocks)) = {}
        /\ \A i \in 1 .. Len(blocks) :
              blocks[i] = IF i <= Len(table) THEN table[i]
                          ELSE IF i <= Len(table) + Len(hits) THEN hits[i - Len(table)]
                          ELSE new_blocks[i - Len(table) - Len(hits)]

(* allocate_slots appends such blocks and leaves such a queue. *)
LEMMA AppendedBlocks ==
    ASSUME KVInv, NEW r \in Requests, NEW hits, IsHit(r, hits), NEW num_new \in Nat,
           num_new <= Len(Without(free_block_queue, Range(hits)))
    PROVE  LET queue == Without(free_block_queue, Range(hits))
           IN  Appended(r, hits, SubSeq(queue, 1, num_new),
                        SubSeq(queue, num_new + 1, Len(queue)), num_new)
  <1> DEFINE table == req_to_blocks[r]
             free  == free_block_queue
             queue == Without(free, Range(hits))
             new   == SubSeq(queue, 1, num_new)
             rest  == SubSeq(queue, num_new + 1, Len(queue))
  <1>1. /\ table \in Seq(Block) /\ Len(table) \in Nat /\ IsInjective(table)
        /\ hits \in Seq(Block) /\ Len(hits) \in Nat /\ IsInjective(hits)
        /\ free \in Seq(Block) /\ IsInjective(free)
    BY DEF KVInv, KVTypeOK, FreeQueueExact, TablesWellFormed, IsHit
  <1>2. /\ queue \in Seq(Block) /\ IsInjective(queue) /\ Range(queue) = Range(free) \ Range(hits)
    <2> DEFINE X == Range(hits)
    <2> HIDE DEF free, X
    <2>1. /\ Without(free, X) \in Seq(Block) /\ IsInjective(Without(free, X))
          /\ Range(Without(free, X)) = Range(free) \ X
      BY <1>1, WithoutProperties
    <2> QED
      BY <2>1 DEF X
  <1> HIDE DEF queue
  <1>3. /\ new \in Seq(Block) /\ rest \in Seq(Block) /\ Len(new) = num_new
        /\ IsInjective(new) /\ IsInjective(rest)
        /\ Range(new) \subseteq Range(queue) /\ Range(rest) = Range(queue) \ Range(new)
    BY <1>2, SplitInjective DEF queue
  <1> HIDE DEF new, rest
  <1>4. Range(table) \cap Range(hits) = {}
    <2>1. CASE hits = <<>>
      BY <2>1 DEF Range
    <2>2. CASE hits # <<>>
      <3>1. table = <<>>
        BY <2>2 DEF IsHit
      <3> QED
        BY <3>1 DEF Range
    <2> QED
      BY <2>1, <2>2
  <1>5. Range(table) \cap Range(new) = {}
    BY <1>2, <1>3, TableReferenced
  <1>6. /\ table \o hits \in Seq(Block) /\ IsInjective(table \o hits)
        /\ Range(table \o hits) = Range(table) \cup Range(hits)
    BY <1>1, <1>4, ConcatInjective
  <1>7. Range(table \o hits) \cap Range(new) = {}
    BY <1>2, <1>3, <1>5, <1>6
  <1>8. /\ (table \o hits) \o new \in Seq(Block) /\ IsInjective((table \o hits) \o new)
        /\ Range((table \o hits) \o new) = Range(table \o hits) \cup Range(new)
    <2> DEFINE left == table \o hits
    <2>1. left \in Seq(Block) /\ IsInjective(left) /\ Range(left) \cap Range(new) = {}
      BY <1>6, <1>7
    <2> HIDE DEF left
    <2>2. left \o new \in Seq(Block) /\ IsInjective(left \o new)
          /\ Range(left \o new) = Range(left) \cup Range(new)
      BY <2>1, <1>3, ConcatInjective
    <2> QED
      BY <2>2 DEF left
  <1> HIDE DEF table
  <1>9. /\ Len((table \o hits) \o new) = Len(table) + Len(hits) + num_new
        /\ \A i \in 1 .. Len((table \o hits) \o new) :
              ((table \o hits) \o new)[i] =
                  IF i <= Len(table) THEN table[i]
                  ELSE IF i <= Len(table) + Len(hits) THEN hits[i - Len(table)]
                  ELSE new[i - Len(table) - Len(hits)]
    <2>1. /\ Len(table \o hits) = Len(table) + Len(hits)
          /\ \A i \in 1 .. Len(table) + Len(hits) :
                (table \o hits)[i] = IF i <= Len(table) THEN table[i] ELSE hits[i - Len(table)]
      BY <1>1
    <2> DEFINE left == table \o hits
    <2>2. left \in Seq(Block) /\ Len(left) = Len(table) + Len(hits) /\ Len(left) \in Nat
      BY <2>1, <1>1, <1>6
    <2> HIDE DEF left
    <2>3. /\ Len(left \o new) = Len(left) + num_new
          /\ \A i \in 1 .. Len(left) + num_new :
                (left \o new)[i] = IF i <= Len(left) THEN left[i] ELSE new[i - Len(left)]
      BY <2>2, <1>3, SMTT(30)
    <2>4. \A i \in 1 .. Len(left) : left[i] = IF i <= Len(table) THEN table[i] ELSE hits[i - Len(table)]
      BY <2>1, <2>2 DEF left
    <2>5. \A i \in 1 .. Len(left) + num_new : i - Len(left) = i - Len(table) - Len(hits)
      BY <2>2, <1>1
    <2>6. /\ Len(left \o new) = Len(table) + Len(hits) + num_new
          /\ \A i \in 1 .. Len(left \o new) :
                (left \o new)[i] =
                    IF i <= Len(table) THEN table[i]
                    ELSE IF i <= Len(table) + Len(hits) THEN hits[i - Len(table)]
                    ELSE new[i - Len(table) - Len(hits)]
      BY <2>2, <2>3, <2>4, <2>5, <1>1
    <2> QED
      BY <2>6 DEF left
  <1>10. Appended(r, hits, new, rest, num_new)
    BY <1>2, <1>3, <1>4, <1>5, <1>6, <1>8, <1>9 DEF Appended, table
  <1> QED
    BY <1>10 DEF new, rest, queue

(* get_new_blocks evicts what the new blocks cached: afterwards no new     *)
(* block has a hash, and hashes and map still describe one cache.          *)
LEMMA EvictedHashes ==
    ASSUME KVInv, NEW S \in SUBSET Block
    PROVE  LET hashes == [b \in Block |-> IF b \in Evictable(S) THEN NoHash ELSE block_hash[b]]
           IN  /\ hashes \in [Block -> Seq(Token)]
               /\ \A b \in Block : hashes[b] = IF b \in S THEN NoHash ELSE block_hash[b]
               /\ {p \in cached_block_hash_to_block : p[2] \notin Evictable(S)} = Described(hashes)
  <1> DEFINE hashes == [b \in Block |-> IF b \in Evictable(S) THEN NoHash ELSE block_hash[b]]
             map    == cached_block_hash_to_block
  <1>1. map = {<<block_hash[b], b>> : b \in {c \in Block : block_hash[c] # NoHash}}
    BY DEF KVInv, HashMapExact
  <1>2. block_hash \in [Block -> Seq(Token)] /\ NoHash \in Seq(Token)
    BY DEF KVInv, KVTypeOK, NoHash
  <1>3. \A b \in Block : b \in Evictable(S) <=> b \in S /\ block_hash[b] # NoHash
    BY <1>1 DEF Evictable
  <1>4. hashes \in [Block -> Seq(Token)]
    BY <1>2
  <1>5. \A b \in Block : hashes[b] = IF b \in S THEN NoHash ELSE block_hash[b]
    BY <1>3
  <1> HIDE DEF hashes
  <1>6. ASSUME NEW p \in map, p[2] \notin Evictable(S) PROVE p \in Described(hashes)
    <2>1. PICK b \in Block : block_hash[b] # NoHash /\ p = <<block_hash[b], b>>
      BY <1>1
    <2>2. hashes[b] = block_hash[b]
      BY <2>1, <1>3, <1>5, <1>6
    <2> QED
      BY <2>1, <2>2 DEF Described
  <1>7. ASSUME NEW p \in Described(hashes) PROVE p \in map /\ p[2] \notin Evictable(S)
    <2>1. PICK b \in Block : hashes[b] # NoHash /\ p = <<hashes[b], b>>
      BY DEF Described
    <2>2. hashes[b] = block_hash[b] /\ b \notin S
      BY <2>1, <1>5
    <2> QED
      BY <2>1, <2>2, <1>1, <1>3
  <1>8. {p \in map : p[2] \notin Evictable(S)} = Described(hashes)
    BY <1>6, <1>7
  <1> QED
    BY <1>4, <1>5, <1>8 DEF hashes

(* allocate_slots: a request grows, by hits, by new blocks, or not at all. *)
LEMMA AllocateInv ==
    ASSUME KVInv, NEW r \in Requests, Allocate(r)
    PROVE  KVInv'
  <1>1. PICK hits \in IF req_to_blocks[r] = <<>> THEN GetComputedBlocks(r) \cup {<<>>} ELSE {<<>>} :
            \E total \in Len(hits) * BlockSize + 1 .. MaxModelLen : AllocateSlots(r, hits, total)
    BY DEF Allocate
  <1>2. PICK total \in Len(hits) * BlockSize + 1 .. MaxModelLen : AllocateSlots(r, hits, total)
    BY <1>1
  <1>3. IsHit(r, hits)
    BY HitFacts DEF Allocate
  <1>4. total \in Nat
    <2>1. Len(hits) * BlockSize \in Nat
      BY <1>3, MulMonotone DEF IsHit
    <2> QED
      BY <2>1, BlockSizes
  <1> DEFINE table      == req_to_blocks[r]
             queue      == Without(free_block_queue, Range(hits))
             num_new    == NumNewBlocks(r, hits, total)
             new_blocks == SubSeq(queue, 1, num_new)
             rest       == SubSeq(queue, num_new + 1, Len(queue))
             evicted    == Evictable(Range(new_blocks))
             blocks     == table \o hits \o new_blocks
             num_cached == IF hits = <<>> THEN NumCached(r) ELSE Len(hits)
             num_full   == Min({total, NumTokens(r)}) \div BlockSize
             pairs      == NewlyCached(r, blocks, num_cached, num_full)
             hashes     == [b \in Block |-> IF b \in evicted THEN NoHash ELSE block_hash[b]]
  <1>5. /\ CanAllocate(r, hits, total)
        /\ free_block_queue' = rest
        /\ ref_cnt' = [b \in Block |-> IF b \in Range(hits) \cup Range(new_blocks)
                                       THEN ref_cnt[b] + 1 ELSE ref_cnt[b]]
        /\ req_to_blocks' = [req_to_blocks EXCEPT ![r] = blocks]
        /\ block_hash' = SetHashes(hashes, pairs)
        /\ cached_block_hash_to_block' =
              {p \in cached_block_hash_to_block : p[2] \notin evicted} \cup pairs
        /\ num_cached_block' = [num_cached_block EXCEPT ![r] =
              IF num_full > num_cached THEN num_full
              ELSE IF hits = <<>> THEN num_cached_block[r] ELSE Len(hits)]
        /\ all_token_ids' = all_token_ids
    BY <1>2 DEF AllocateSlots, Allocate
  <1>6. /\ num_new \in Nat /\ num_new <= Len(queue)
        /\ Cdiv(total, BlockSize) <= Len(table) + Len(hits) + num_new
    BY <1>3, <1>4, <1>5, EnoughFreeBlocks
  <1>7. Appended(r, hits, new_blocks, rest, num_new)
    <2> HIDE DEF num_new
    <2> QED
      BY <1>3, <1>6, AppendedBlocks
  <1> HIDE DEF queue, num_new, new_blocks, rest
  <1>8. /\ ref_cnt \in [Block -> Nat] /\ block_hash \in [Block -> Seq(Token)]
        /\ free_block_queue \in Seq(Block) /\ req_to_blocks \in [Requests -> Seq(Block)]
        /\ num_cached_block \in [Requests -> Nat \cup {NoEntry}]
        /\ all_token_ids \in [Requests -> Seq(Token)]
        /\ table \in Seq(Block) /\ Len(table) \in Nat /\ NumTokens(r) \in Nat
        /\ IsInjective(table) /\ NullBlock \notin Range(table)
        /\ Len(hits) \in Nat
    <2>1. /\ ref_cnt \in [Block -> Nat] /\ block_hash \in [Block -> Seq(Token)]
          /\ free_block_queue \in Seq(Block) /\ req_to_blocks \in [Requests -> Seq(Block)]
          /\ num_cached_block \in [Requests -> Nat \cup {NoEntry}]
          /\ all_token_ids \in [Requests -> Seq(Token)]
      BY DEF KVInv, KVTypeOK
    <2>2. table \in Seq(Block) /\ Len(table) \in Nat /\ NumTokens(r) \in Nat
      BY <2>1 DEF NumTokens
    <2>3. IsInjective(table) /\ NullBlock \notin Range(table)
      BY DEF KVInv, TablesWellFormed
    <2>4. Len(hits) \in Nat
      BY <1>3 DEF IsHit
    <2> HIDE DEF table
    <2> QED
      BY <2>1, <2>2, <2>3, <2>4
  <1>9. /\ new_blocks \in Seq(Block) /\ Len(new_blocks) = num_new
        /\ Range(new_blocks) \subseteq Range(free_block_queue) /\ Range(new_blocks) \subseteq Block
        /\ blocks \in Seq(Block) /\ IsInjective(blocks)
        /\ Len(blocks) = Len(table) + Len(hits) + num_new /\ Len(blocks) \in Nat
        /\ Range(blocks) = Range(table) \cup Range(hits) \cup Range(new_blocks)
        /\ Range(table) \cap (Range(hits) \cup Range(new_blocks)) = {}
        /\ Range(hits) \cap Range(new_blocks) = {}
    <2>1. /\ new_blocks \in Seq(Block) /\ Len(new_blocks) = num_new
          /\ Range(new_blocks) \subseteq Range(free_block_queue) \ Range(hits)
          /\ blocks \in Seq(Block) /\ IsInjective(blocks)
          /\ Len(blocks) = Len(table) + Len(hits) + num_new
          /\ Range(blocks) = Range(table) \cup Range(hits) \cup Range(new_blocks)
          /\ Range(table) \cap (Range(hits) \cup Range(new_blocks)) = {}
      BY <1>7 DEF Appended
    <2> HIDE DEF blocks, table
    <2>2. Range(new_blocks) \subseteq Block /\ Len(blocks) \in Nat
      BY <2>1 DEF Range
    <2> QED
      BY <2>1, <2>2
  <1>10. /\ rest \in Seq(Block) /\ IsInjective(rest)
         /\ Range(rest) = (Range(free_block_queue) \ Range(hits)) \ Range(new_blocks)
    BY <1>7 DEF Appended
  <1>11. \A i \in 1 .. Len(blocks) :
            blocks[i] = IF i <= Len(table) THEN table[i]
                        ELSE IF i <= Len(table) + Len(hits) THEN hits[i - Len(table)]
                        ELSE new_blocks[i - Len(table) - Len(hits)]
    BY <1>7 DEF Appended
  <1> HIDE DEF blocks
  <1>12. /\ num_cached \in Nat /\ num_cached <= Len(table) + Len(hits)
         /\ num_cached * BlockSize <= NumTokens(r)
         /\ num_cached >= NumCached(r)
         /\ NumCached(r) \in Nat /\ NumCached(r) <= Len(table)
    <2>1. NumCached(r) \in Nat /\ NumCached(r) <= Len(table) /\ NumCached(r) * BlockSize <= NumTokens(r)
      BY NumCachedType DEF KVInv, CachedWithinTable
    <2>2. hits # <<>> => Len(table) = 0
      BY <1>3 DEF IsHit
    <2>3. Len(hits) * BlockSize <= NumTokens(r) /\ Len(hits) \in Nat
      BY <1>3 DEF IsHit
    <2> HIDE DEF table
    <2> QED
      BY <2>1, <2>2, <2>3, <1>8, SMTT(30)
  <1>13. num_full \in Nat /\ num_full <= Len(blocks) /\ num_full * BlockSize <= NumTokens(r)
    <2> DEFINE known == Min({total, NumTokens(r)})
    <2>1. known \in Nat /\ known <= total /\ known <= NumTokens(r)
      <3>1. total \in Int /\ NumTokens(r) \in Int
        BY <1>4, <1>8
      <3>2. known = IF total <= NumTokens(r) THEN total ELSE NumTokens(r)
        BY <3>1, MinOfTwo
      <3> HIDE DEF known
      <3> QED
        BY <3>2, <1>4, <1>8
    <2> HIDE DEF known
    <2>2. known \div BlockSize \in Nat /\ (known \div BlockSize) * BlockSize <= known
      BY <2>1, DivBounds
    <2>3. known \div BlockSize <= total \div BlockSize
      BY <2>1, <1>4, DivMonotone
    <2>4. Cdiv(total, BlockSize) \in Nat /\ total \div BlockSize <= Cdiv(total, BlockSize)
          /\ total \div BlockSize \in Nat
      BY <1>4, CdivBounds, DivBounds
    <2>5. known \div BlockSize <= Len(blocks)
      BY <2>2, <2>3, <2>4, <1>6, <1>9
    <2>6. (known \div BlockSize) * BlockSize \in Nat
      BY <2>2, MulMonotone
    <2>7. num_full = known \div BlockSize
      BY DEF known
    <2> HIDE DEF num_full
    <2> QED
      BY <2>1, <2>2, <2>5, <2>6, <2>7, <1>8
  <1> HIDE DEF num_full
  <1>14. /\ hashes \in [Block -> Seq(Token)]
         /\ \A b \in Block : hashes[b] = IF b \in Range(new_blocks) THEN NoHash ELSE block_hash[b]
         /\ {p \in cached_block_hash_to_block : p[2] \notin evicted} = Described(hashes)
    BY <1>9, EvictedHashes
  <1> HIDE DEF hashes, evicted
  <1>15. ASSUME NEW i \in 1 .. Len(blocks)
         PROVE  /\ i \in Nat /\ blocks[i] \in Block /\ i \in DOMAIN blocks
                /\ hashes[blocks[i]] = IF i <= num_cached THEN BlockHash(r, i) ELSE NoHash
                /\ i > num_cached => \A s \in Requests : s # r => blocks[i] \notin Range(req_to_blocks[s])
    <2>0. i \in Nat \ {0} /\ blocks[i] \in Block /\ i \in DOMAIN blocks
      BY <1>9
    <2>1. CASE i <= Len(table)
      <3>1. blocks[i] = table[i] /\ i \in 1 .. Len(table) /\ table[i] \in Range(table)
        BY <2>0, <2>1, <1>8, <1>11, SMTT(30) DEF Range
      <3>2. hits = <<>> /\ num_cached = NumCached(r)
        <4>1. table # <<>>
          BY <3>1
        <4> QED
          BY <4>1, <1>3 DEF IsHit
      <3>3. hashes[blocks[i]] = block_hash[table[i]]
        BY <3>1, <2>0, <1>9, <1>14
      <3>4. block_hash[table[i]] = IF i <= NumCached(r) THEN BlockHash(r, i) ELSE NoHash
        BY <3>1 DEF KVInv, TableHashes
      <3>5. i > NumCached(r) => \A s \in Requests : s # r => table[i] \notin Range(req_to_blocks[s])
        <4>1. i > NumCached(r) => i \in NumCached(r) + 1 .. Len(req_to_blocks[r])
          BY <2>0, <3>1, <1>12
        <4> QED
          BY <4>1 DEF KVInv, UncachedPrivate
      <3> QED
        BY <2>0, <3>1, <3>2, <3>3, <3>4, <3>5
    <2>2. CASE i > Len(table) /\ i <= Len(table) + Len(hits)
      <3>1. Len(hits) # 0
        BY <2>0, <2>2, <1>8
      <3>2. hits # <<>> /\ Len(table) = 0
        BY <3>1, <1>3 DEF IsHit
      <3> HIDE DEF table
      <3>3. i \in 1 .. Len(hits) /\ i - Len(table) = i /\ num_cached = Len(hits)
        BY <2>0, <2>2, <3>2, <1>8
      <3>4. blocks[i] = hits[i]
        BY <3>3, <2>0, <2>2, <1>8, <1>11
      <3>5. hits[i] \in Range(hits) /\ block_hash[hits[i]] = BlockHash(r, i)
        BY <3>3, <1>3 DEF IsHit, Range
      <3>6. hashes[blocks[i]] = BlockHash(r, i)
        BY <3>4, <3>5, <2>0, <1>9, <1>14
      <3> QED
        BY <2>0, <3>3, <3>6, <1>8
    <2>3. CASE i > Len(table) + Len(hits)
      <3>1. /\ i - Len(table) - Len(hits) \in 1 .. num_new
            /\ blocks[i] = new_blocks[i - Len(table) - Len(hits)]
        <4> HIDE DEF table
        <4>1. ~(i <= Len(table)) /\ ~(i <= Len(table) + Len(hits))
          BY <2>0, <2>3, <1>8
        <4>2. i - Len(table) - Len(hits) \in 1 .. num_new
          BY <2>0, <2>3, <1>6, <1>8, <1>9
        <4> QED
          BY <4>1, <4>2, <1>11
      <3>2. blocks[i] \in Range(new_blocks)
        <4> DEFINE k == i - Len(table) - Len(hits)
        <4>1. k \in DOMAIN new_blocks /\ blocks[i] = new_blocks[k]
          BY <3>1, <1>9
        <4> HIDE DEF k
        <4> QED
          BY <4>1 DEF Range
      <3>3. ~(i <= num_cached)
        <4> HIDE DEF table, num_cached
        <4> QED
          BY <2>0, <2>3, <1>8, <1>12
      <3>4. hashes[blocks[i]] = NoHash
        BY <3>2, <2>0, <1>14
      <3>5. \A s \in Requests : blocks[i] \notin Range(req_to_blocks[s])
        BY <3>2, <1>9, TableReferenced
      <3> QED
        BY <2>0, <3>3, <3>4, <3>5
    <2> QED
      <3>1. Len(table) \in Nat /\ Len(hits) \in Nat
        BY <1>8
      <3>2. i <= Len(table) \/ (i > Len(table) /\ i <= Len(table) + Len(hits)) \/ i > Len(table) + Len(hits)
        <4> HIDE DEF table
        <4> QED
          BY <3>1, <2>0
      <3> QED
        BY <3>2, <2>1, <2>2, <2>3
  <1> DEFINE cached == IF num_full > num_cached THEN num_full ELSE num_cached
  <1>16. /\ num_cached_block' \in [Requests -> Nat \cup {NoEntry}]
         /\ \A s \in Requests : NumCached(s)' = IF s = r THEN cached ELSE NumCached(s)
    <2> DEFINE entry == IF num_full > num_cached THEN num_full
                        ELSE IF hits = <<>> THEN num_cached_block[r] ELSE Len(hits)
    <2>1. entry \in Nat \cup {NoEntry}
      BY <1>8, <1>13
    <2>2. Max({0, entry}) = cached
      <3>1. CASE num_full > num_cached
        BY <3>1, <1>13, NumCachedValue, MaxOfTwo
      <3>2. CASE ~(num_full > num_cached) /\ hits = <<>>
        BY <3>2 DEF NumCached
      <3>3. CASE ~(num_full > num_cached) /\ hits # <<>>
        <4>1. entry = Len(hits) /\ cached = Len(hits)
          BY <3>3
        <4>2. Len(hits) \in Nat
          BY <1>8
        <4> HIDE DEF entry, cached
        <4>3. Len(hits) # NoEntry
          BY <4>2 DEF NoEntry
        <4>4. Max({0, Len(hits)}) = Len(hits)
          BY <4>2, <4>3, NumCachedValue, Zenon
        <4> QED
          BY <4>1, <4>4
      <3> QED
        BY <3>1, <3>2, <3>3
    <2>3. num_cached_block' = [num_cached_block EXCEPT ![r] = entry]
      BY <1>5
    <2> HIDE DEF entry, cached
    <2>4. num_cached_block' \in [Requests -> Nat \cup {NoEntry}]
      BY <2>1, <2>3, <1>8
    <2>5. \A s \in Requests : num_cached_block'[s] = IF s = r THEN entry ELSE num_cached_block[s]
      BY <2>3, <1>8
    <2> QED
      BY <2>2, <2>4, <2>5 DEF NumCached
  <1>17. cached \in Nat /\ num_cached <= cached /\ num_full <= cached /\ cached <= Len(blocks)
         /\ cached * BlockSize <= NumTokens(r)
    <2> HIDE DEF num_cached, table
    <2>1. num_cached <= Len(blocks)
      BY <1>6, <1>8, <1>9, <1>12
    <2>2. CASE num_full > num_cached
      BY <2>2, <1>12, <1>13
    <2>3. CASE ~(num_full > num_cached)
      BY <2>1, <2>3, <1>12, <1>13
    <2> QED
      BY <2>2, <2>3
  <1>18. cached = num_cached \/ cached = num_full
    OBVIOUS
  <1> HIDE DEF num_cached
  <1>19. /\ block_hash' \in [Block -> Seq(Token)]
         /\ \A i \in num_cached + 1 .. num_full : block_hash'[blocks[i]] = BlockHash(r, i)
         /\ \A b \in Block :
               (\A i \in num_cached + 1 .. num_full : blocks[i] # b) => block_hash'[b] = hashes[b]
         /\ cached_block_hash_to_block' = Described(block_hash')
    <2> DEFINE new == SetHashes(hashes, pairs)
    <2>1. \A i \in num_cached + 1 .. num_full : i \in 1 .. Len(blocks) /\ i > num_cached
      BY <1>9, <1>12, <1>13
    <2>2. \A i \in num_cached + 1 .. num_full : hashes[blocks[i]] = NoHash
      BY <2>1, <1>12, <1>15
    <2>3. all_token_ids[r] \in Seq(Token)
      BY <1>8
    <2>4. HashesSet(r, blocks, num_cached, num_full, hashes, new, Described(hashes) \cup pairs)
      BY <2>2, <2>3, <1>9, <1>12, <1>13, <1>14, CachingHashes
    <2>5. block_hash' = new /\ cached_block_hash_to_block' = Described(hashes) \cup pairs
      BY <1>5, <1>14
    <2> HIDE DEF new, pairs
    <2> QED
      BY <2>4, <2>5 DEF HashesSet
  <1> HIDE DEF table, pairs, cached
  <1>20. \A s \in Requests : req_to_blocks'[s] = IF s = r THEN blocks ELSE req_to_blocks[s]
    BY <1>5, <1>8
  <1>21. \A b \in Block : ref_cnt'[b] = IF b \in Range(hits) \cup Range(new_blocks)
                                        THEN ref_cnt[b] + 1 ELSE ref_cnt[b]
    BY <1>5
  <1>22. KVTypeOK'
    <2>1. cached_block_hash_to_block' \subseteq Seq(Token) \X Block
      BY <1>19 DEF Described
    <2>2. ref_cnt' \in [Block -> Nat]
      BY <1>5, <1>8
    <2>3. req_to_blocks' \in [Requests -> Seq(Block)]
      BY <1>5, <1>8, <1>9
    <2>4. free_block_queue' \in Seq(Block) /\ all_token_ids' \in [Requests -> Seq(Token)]
      BY <1>5, <1>8, <1>10
    <2> QED
      BY <2>1, <2>2, <2>3, <2>4, <1>16, <1>19 DEF KVTypeOK
  <1>23. NullBlock \notin Range(blocks)
    <2>1. NullBlock \notin Range(hits)
      BY <1>3 DEF IsHit, Range
    <2>2. NullBlock \notin Range(new_blocks)
      BY <1>9 DEF KVInv, FreeQueueExact
    <2>3. NullBlock \notin Range(table)
      BY <1>8
    <2> QED
      BY <2>1, <2>2, <2>3, <1>9
  <1>24. TablesWellFormed'
    BY <1>9, <1>20, <1>23 DEF KVInv, TablesWellFormed
  <1>25. RefCountExact'
    <2> SUFFICES ASSUME NEW b \in Block PROVE ref_cnt'[b] = Cardinality(Holders(b)')
      BY DEF RefCountExact
    <2>1. r \in Holders(b) <=> b \in Range(table)
      BY DEF Holders, table
    <2>2. Holders(b)' = IF b \in Range(blocks) THEN Holders(b) \cup {r} ELSE Holders(b)
      <3>1. Holders(b)' = {s \in Requests : b \in Range(req_to_blocks'[s])}
        BY DEF Holders
      <3>2. \A s \in Requests : s # r => (s \in Holders(b)' <=> s \in Holders(b))
        BY <3>1, <1>20 DEF Holders
      <3>3. r \in Holders(b)' <=> b \in Range(blocks)
        BY <3>1, <1>20
      <3>4. Holders(b) \subseteq Requests /\ Holders(b)' \subseteq Requests
        BY <3>1 DEF Holders
      <3>5. b \in Range(table) => b \in Range(blocks)
        BY <1>9
      <3> DEFINE before == Holders(b)
                 after  == Holders(b)'
      <3>6. /\ before \subseteq Requests /\ after \subseteq Requests
            /\ \A s \in Requests : s # r => (s \in after <=> s \in before)
            /\ r \in after <=> b \in Range(blocks)
            /\ r \in before => b \in Range(blocks)
        BY <3>2, <3>3, <3>4, <3>5, <2>1
      <3> HIDE DEF before, after
      <3>7. after = IF b \in Range(blocks) THEN before \cup {r} ELSE before
        <4>1. ASSUME NEW s PROVE s \in after <=> s \in before \/ (s = r /\ b \in Range(blocks))
          BY <3>6
        <4>2. CASE b \in Range(blocks)
          BY <4>1, <4>2
        <4>3. CASE b \notin Range(blocks)
          BY <4>1, <4>3
        <4> QED
          BY <4>2, <4>3
      <3> QED
        BY <3>7 DEF before, after
    <2>3. Cardinality(Holders(b) \cup {r}) =
             IF r \in Holders(b) THEN Cardinality(Holders(b)) ELSE Cardinality(Holders(b)) + 1
      BY HoldersFinite, FS_AddElement
    <2>4. ref_cnt[b] = Cardinality(Holders(b))
      BY DEF KVInv, RefCountExact
    <2> QED
      BY <2>1, <2>2, <2>3, <2>4, <1>9, <1>21
  <1>26. FreeQueueExact'
    <2> SUFFICES Range(rest) = {b \in Block \ {NullBlock} : ref_cnt'[b] = 0}
      BY <1>5, <1>10 DEF FreeQueueExact
    <2>1. Range(free_block_queue) = {b \in Block \ {NullBlock} : ref_cnt[b] = 0}
      BY DEF KVInv, FreeQueueExact
    <2>2. \A b \in Block : b \in Range(hits) \cup Range(new_blocks) => ref_cnt'[b] # 0
      BY <1>8, <1>21
    <2>3. \A b \in Block : b \notin Range(hits) \cup Range(new_blocks) => ref_cnt'[b] = ref_cnt[b]
      BY <1>21
    <2> QED
      BY <2>1, <2>2, <2>3, <1>10
  <1>27. HashMapExact'
    BY <1>19 DEF HashMapExact, Described
  <1>28. \A i \in num_cached + 1 .. num_full : i \in 1 .. Len(blocks) /\ i > num_cached
    BY <1>9, <1>12, <1>13
  <1>29. NullUncached'
    <2>1. NullBlock \in Block
      BY BlockSizes DEF Block, NullBlock
    <2>2. \A i \in num_cached + 1 .. num_full : blocks[i] \in Range(blocks)
      BY <1>15, <1>28 DEF Range
    <2>3. block_hash'[NullBlock] = hashes[NullBlock]
      BY <2>1, <2>2, <1>19, <1>23
    <2>4. NullBlock \notin Range(new_blocks)
      BY <1>9, <1>23
    <2> QED
      BY <2>1, <2>3, <2>4, <1>14 DEF KVInv, NullUncached
  <1>30. \A s \in Requests : \A i : BlockHash(s, i)' = BlockHash(s, i)
    BY <1>5 DEF BlockHash
  <1>31. TableHashes'
    <2> SUFFICES ASSUME NEW s \in Requests, NEW i \in 1 .. Len(req_to_blocks'[s])
                 PROVE  block_hash'[req_to_blocks'[s][i]] =
                            IF i <= NumCached(s)' THEN BlockHash(s, i) ELSE NoHash
      BY <1>30 DEF TableHashes
    <2>1. CASE s = r
      <3>1. req_to_blocks'[s] = blocks /\ NumCached(s)' = cached /\ i \in 1 .. Len(blocks)
        BY <2>1, <1>16, <1>20
      <3>2. i \in Nat
        BY <3>1, <1>15
      <3>3. CASE i \in num_cached + 1 .. num_full
        <4>1. i <= cached
          BY <3>2, <3>3, <1>12, <1>13, <1>17
        <4> QED
          BY <4>1, <3>1, <3>3, <2>1, <1>19
      <3>4. CASE i \notin num_cached + 1 .. num_full
        <4>1. \A j \in num_cached + 1 .. num_full : blocks[j] # blocks[i]
          <5> TAKE j \in num_cached + 1 .. num_full
          <5>1. j \in DOMAIN blocks /\ i \in DOMAIN blocks /\ j # i
            BY <3>1, <3>4, <1>15, <1>28
          <5> QED
            BY <5>1, <1>9 DEF IsInjective
        <4>2. block_hash'[blocks[i]] = hashes[blocks[i]]
          BY <4>1, <3>1, <1>15, <1>19
        <4>3. i <= cached <=> i <= num_cached
          BY <3>2, <3>4, <1>12, <1>13, <1>17, <1>18
        <4> QED
          BY <4>2, <4>3, <3>1, <2>1, <1>15
      <3> QED
        BY <3>3, <3>4
    <2>2. CASE s # r
      <3>1. req_to_blocks'[s] = req_to_blocks[s] /\ NumCached(s)' = NumCached(s)
        BY <2>2, <1>16, <1>20
      <3> DEFINE b == req_to_blocks[s][i]
      <3>2. i \in 1 .. Len(req_to_blocks[s]) /\ b \in Range(req_to_blocks[s])
        <4>1. req_to_blocks[s] \in Seq(Block) /\ i \in 1 .. Len(req_to_blocks[s])
          BY <3>1, <1>8
        <4> QED
          BY <4>1 DEF Range
      <3>3. b \in Block /\ b \notin Range(new_blocks)
        BY <3>2, <1>9, TableReferenced
      <3>4. \A j \in num_cached + 1 .. num_full : blocks[j] # b
        BY <3>2, <2>2, <1>15, <1>28
      <3>5. block_hash'[b] = block_hash[b]
        BY <3>3, <3>4, <1>14, <1>19
      <3>6. block_hash[b] = IF i <= NumCached(s) THEN BlockHash(s, i) ELSE NoHash
        BY <3>2 DEF KVInv, TableHashes
      <3> QED
        BY <3>1, <3>5, <3>6
    <2> QED
      BY <2>1, <2>2
  <1>32. UncachedPrivate'
    <2> SUFFICES ASSUME NEW p \in Requests, NEW s \in Requests, p # s,
                        NEW i \in NumCached(p)' + 1 .. Len(req_to_blocks'[p])
                 PROVE  req_to_blocks'[p][i] \notin Range(req_to_blocks'[s])
      BY DEF UncachedPrivate
    <2>1. CASE p = r
      <3>1. i \in cached + 1 .. Len(blocks) /\ s # r
        BY <2>1, <1>16, <1>20
      <3>2. i \in 1 .. Len(blocks) /\ i > num_cached
        BY <3>1, <1>9, <1>12, <1>17
      <3> QED
        BY <3>1, <3>2, <2>1, <1>15, <1>20
    <2>2. CASE p # r
      <3> DEFINE b == req_to_blocks[p][i]
      <3>1. /\ req_to_blocks'[p] = req_to_blocks[p] /\ NumCached(p) \in Nat
            /\ i \in NumCached(p) + 1 .. Len(req_to_blocks[p])
        BY <2>2, <1>16, <1>20, NumCachedType
      <3>2. \A q \in Requests : q # p => b \notin Range(req_to_blocks[q])
        BY <3>1 DEF KVInv, UncachedPrivate
      <3>3. CASE s # r
        BY <3>1, <3>2, <3>3, <1>20
      <3>4. CASE s = r
        <4>1. i \in 1 .. Len(req_to_blocks[p]) /\ ~(i <= NumCached(p))
          BY <3>1
        <4>2. b \in Range(req_to_blocks[p]) /\ block_hash[b] = NoHash
          <5>1. req_to_blocks[p] \in Seq(Block)
            BY <1>8
          <5>2. b \in Range(req_to_blocks[p])
            BY <4>1, <5>1 DEF Range
          <5> QED
            BY <4>1, <5>2 DEF KVInv, TableHashes
        <4>3. b \notin Range(hits)
          BY <4>2, <1>3 DEF IsHit, Range
        <4>4. b \notin Range(new_blocks)
          BY <4>2, <1>9, TableReferenced
        <4>5. b \notin Range(table)
          BY <3>2, <2>2 DEF table
        <4> QED
          BY <4>3, <4>4, <4>5, <3>1, <3>4, <1>9, <1>20
      <3> QED
        BY <3>3, <3>4
    <2> QED
      BY <2>1, <2>2
  <1>33. CachedWithinTable'
    <2>1. \A s \in Requests : NumTokens(s)' = NumTokens(s)
      BY <1>5 DEF NumTokens
    <2> QED
      BY <2>1, <1>16, <1>17, <1>20 DEF KVInv, CachedWithinTable
  <1> QED
    BY <1>22, <1>24, <1>25, <1>26, <1>27, <1>29, <1>31, <1>32, <1>33 DEF KVInv

(* reset_prefix_cache: with every block free no table counts on a hash. *)
LEMMA ResetInv ==
    ASSUME KVInv, Reset
    PROVE  KVInv'
  <1>1. /\ cached_block_hash_to_block' = {} /\ block_hash' = [b \in Block |-> NoHash]
        /\ ref_cnt' = ref_cnt /\ free_block_queue' = free_block_queue
        /\ req_to_blocks' = req_to_blocks /\ num_cached_block' = num_cached_block
        /\ all_token_ids' = all_token_ids
        /\ NumGpuBlocks - Len(free_block_queue) = 1
    BY DEF Reset, ResetPrefixCache, tablevars, AllBlocksFree
  <1>2. KVTypeOK'
    BY <1>1 DEF KVInv, KVTypeOK, NoHash
  <1>3. TablesWellFormed' /\ RefCountExact' /\ FreeQueueExact' /\ UncachedPrivate' /\ CachedWithinTable'
    BY <1>1 DEF KVInv, TablesWellFormed, RefCountExact, Holders, FreeQueueExact,
                UncachedPrivate, CachedWithinTable, NumCached, NumTokens
  <1>4. HashMapExact' /\ NullUncached'
    BY <1>1, BlockSizes DEF HashMapExact, NullUncached, NullBlock, Block
  <1>5. \A s \in Requests : req_to_blocks[s] = <<>>
    <2>1. free_block_queue \in Seq(Block \ {NullBlock}) /\ IsInjective(free_block_queue)
      BY DEF KVInv, KVTypeOK, FreeQueueExact, Range
    <2>2. Len(free_block_queue) = NumGpuBlocks - 1 /\ Len(free_block_queue) \in Nat
      BY <1>1, <2>1, BlockSizes
    <2>3. IsFiniteSet(Block \ {NullBlock}) /\ Cardinality(Block \ {NullBlock}) = NumGpuBlocks - 1
      <3>1. Block \ {NullBlock} = 1 .. NumGpuBlocks - 1
        BY BlockSizes DEF Block, NullBlock
      <3>2. NumGpuBlocks - 1 \in Nat
        BY BlockSizes
      <3>3. /\ IsFiniteSet(1 .. NumGpuBlocks - 1)
            /\ Cardinality(1 .. NumGpuBlocks - 1) = NumGpuBlocks - 1
        BY <3>2, FS_Interval
      <3> QED
        BY <3>1, <3>3
    <2>4. /\ IsFiniteSet(1 .. Len(free_block_queue))
          /\ Cardinality(1 .. Len(free_block_queue)) = Len(free_block_queue)
      BY <2>2, FS_Interval
    <2>5. free_block_queue \in Injection(1 .. Len(free_block_queue), Block \ {NullBlock})
      BY <2>1 DEF Injection, IsInjective
    <2>6. free_block_queue \in Surjection(1 .. Len(free_block_queue), Block \ {NullBlock})
      BY <2>2, <2>3, <2>4, <2>5, FS_Injection
    <2>7. \A b \in Block \ {NullBlock} : ref_cnt[b] = 0
      <3> TAKE b \in Block \ {NullBlock}
      <3>1. b \in Range(free_block_queue)
        BY <2>1, <2>6 DEF Surjection, Range
      <3> QED
        BY <3>1 DEF KVInv, FreeQueueExact
    <2>8. SUFFICES ASSUME NEW s \in Requests, req_to_blocks[s] # <<>> PROVE FALSE
      OBVIOUS
    <2> DEFINE b == req_to_blocks[s][1]
    <2>9. b \in Range(req_to_blocks[s]) /\ b \in Block
      BY <2>8 DEF KVInv, KVTypeOK, Range
    <2>10. b \in Block \ {NullBlock}
      BY <2>9 DEF KVInv, TablesWellFormed
    <2>11. s \in Holders(b)
      BY <2>9 DEF Holders
    <2>12. Cardinality(Holders(b)) # 0
      BY <2>11, HoldersFinite, FS_EmptySet
    <2> QED
      BY <2>7, <2>10, <2>12 DEF KVInv, RefCountExact
  <1>6. TableHashes'
    BY <1>1, <1>5 DEF TableHashes
  <1> QED
    BY <1>2, <1>3, <1>4, <1>6 DEF KVInv

-----------------------------------------------------------------------------
(* The theorems. *)

(* Every call of the manager and every step of its client preserves the    *)
(* inductive invariant.                                                    *)
LEMMA KVStepInv == KVInv /\ [KVNext]_kvvars => KVInv'
  <1> SUFFICES ASSUME KVInv, [KVNext]_kvvars PROVE KVInv'
    OBVIOUS
  <1>1. CASE UNCHANGED kvvars
    <2>1. /\ ref_cnt' = ref_cnt /\ block_hash' = block_hash /\ free_block_queue' = free_block_queue
          /\ cached_block_hash_to_block' = cached_block_hash_to_block
          /\ req_to_blocks' = req_to_blocks /\ num_cached_block' = num_cached_block
          /\ all_token_ids' = all_token_ids
      BY <1>1 DEF kvvars, poolvars, tablevars
    <2>2. KVTypeOK' /\ TablesWellFormed' /\ FreeQueueExact' /\ HashMapExact' /\ NullUncached'
      BY <2>1 DEF KVInv, KVTypeOK, TablesWellFormed, FreeQueueExact, HashMapExact, NullUncached
    <2>3. RefCountExact'
      BY <2>1 DEF KVInv, RefCountExact, Holders
    <2>4. TableHashes'
      BY <2>1 DEF KVInv, TableHashes, NumCached, BlockHash
    <2>5. UncachedPrivate' /\ CachedWithinTable'
      BY <2>1 DEF KVInv, UncachedPrivate, CachedWithinTable, NumCached, NumTokens
    <2> QED
      BY <2>2, <2>3, <2>4, <2>5 DEF KVInv
  <1>2. ASSUME NEW r \in Requests, NEW prompt \in Prompts, NewRequest(r, prompt) PROVE KVInv'
    BY <1>2, NewRequestInv
  <1>3. ASSUME NEW r \in Requests, NEW token \in Token, AppendOutputToken(r, token) PROVE KVInv'
    BY <1>3, AppendOutputTokenInv
  <1>4. ASSUME NEW r \in Requests, Allocate(r) PROVE KVInv'
    BY <1>4, AllocateInv
  <1>5. ASSUME NEW r \in Requests, Cache(r) PROVE KVInv'
    BY <1>5, CacheInv
  <1>6. ASSUME NEW r \in Requests, Preempt(r) PROVE KVInv'
    BY <1>6, FreeRequestInv DEF Preempt, KVInv, KVTypeOK
  <1>7. ASSUME NEW r \in Requests, Finish(r) PROVE KVInv'
    <2>1. /\ FreeRequest(r)
          /\ all_token_ids' \in [Requests -> Seq(Token)]
          /\ \A s \in Requests \ {r} : all_token_ids'[s] = all_token_ids[s]
      BY <1>7 DEF Finish, KVInv, KVTypeOK
    <2> QED
      BY <2>1, FreeRequestInv
  <1>8. CASE Reset
    BY <1>8, ResetInv
  <1> QED
    BY <1>1, <1>2, <1>3, <1>4, <1>5, <1>6, <1>7, <1>8 DEF KVNext

(* KVInv is an invariant of the manager, whatever its client calls.        *)
THEOREM KVInvariant == KVSpec => []KVInv
  BY KVInitInv, KVStepInv, PTL DEF KVSpec

(* Type correctness of pool, tables and tokens. *)
THEOREM KVTypeCorrect == KVSpec => []KVTypeOK
  <1>1. KVInv => KVTypeOK
    BY DEF KVInv
  <1> QED
    BY <1>1, KVInvariant, PTL

(* No request is ever given the null block or one block twice, through     *)
(* allocate_slots, cache hits and resumptions.                             *)
THEOREM TablesStayWellFormed == KVSpec => []TablesWellFormed
  <1>1. KVInv => TablesWellFormed
    BY DEF KVInv
  <1> QED
    BY <1>1, KVInvariant, PTL

(* touch, get_new_blocks and free_blocks keep ref_cnt equal to the number  *)
(* of tables that hold the block.                                          *)
THEOREM RefCountsAreExact == KVSpec => []RefCountExact
  <1>1. KVInv => RefCountExact
    BY DEF KVInv
  <1> QED
    BY <1>1, KVInvariant, PTL

(* The free queue is exactly the set of unreferenced blocks: no block      *)
(* leaks and none in use is handed out.                                    *)
THEOREM FreeQueueIsExact == KVSpec => []FreeQueueExact
  <1>1. KVInv => FreeQueueExact
    BY DEF KVInv
  <1> QED
    BY <1>1, KVInvariant, PTL

(* The map of cached blocks and the hashes in the blocks agree, through    *)
(* caching, eviction and reset.                                            *)
THEOREM HashMapIsExact == KVSpec => []HashMapExact
  <1>1. KVInv => HashMapExact
    BY DEF KVInv
  <1> QED
    BY <1>1, KVInvariant, PTL

(* The cached blocks of a table hold this request's own prefix: a cache    *)
(* hit never serves another prompt's KV.                                   *)
THEOREM TablesHoldOwnPrefix == KVSpec => []TableHashes
  <1>1. KVInv => TableHashes
    BY DEF KVInv
  <1> QED
    BY <1>1, KVInvariant, PTL

(* A block that may still be written to belongs to one request. *)
THEOREM UncachedBlocksArePrivate == KVSpec => []UncachedPrivate
  <1>1. KVInv => UncachedPrivate
    BY DEF KVInv
  <1> QED
    BY <1>1, KVInvariant, PTL

-----------------------------------------------------------------------------
(* Eviction, and what requests have in common: the order of a queue. *)

(* Unlinking other blocks leaves two blocks in their order. *)
LEMMA WithoutOrder ==
    ASSUME NEW S, NEW q \in Seq(S), NEW X, NEW b, NEW c, InOrder(q, b, c), b \notin X, c \notin X
    PROVE  InOrder(Without(q, X), b, c)
  <1> DEFINE n == Cardinality(Staying(q, X))
  <1>1. PICK i \in DOMAIN q, j \in DOMAIN q : i < j /\ q[i] = b /\ q[j] = c
    BY DEF InOrder
  <1>2. i \in Staying(q, X) /\ j \in Staying(q, X) /\ DOMAIN q \subseteq Nat
    BY <1>1 DEF Staying
  <1>3. n \in Nat
    BY WithoutPicks
  <1>4. PICK pick : Picked(q, X, n, pick)
    BY WithoutPicks
  <1> HIDE DEF n
  <1>5. PICK k \in 1 .. n, l \in 1 .. n : pick[k] = i /\ pick[l] = j
    BY <1>2, <1>4 DEF Picked
  <1>6. k < l
    <2>1. ~(l < k) /\ l # k
      BY <1>1, <1>2, <1>4, <1>5 DEF Picked
    <2> QED  BY <2>1, <1>3
  <1>7. Without(q, X) = [m \in 1 .. n |-> q[pick[m]]]
    BY <1>4 DEF Picked
  <1> QED  BY <1>1, <1>5, <1>6, <1>7 DEF InOrder

(* Popping blocks from the head leaves the others in their order. *)
LEMMA RestOrder ==
    ASSUME NEW S, NEW q \in Seq(S), NEW n \in Nat, n <= Len(q), NEW b, NEW c, InOrder(q, b, c),
           b \notin Range(SubSeq(q, 1, n))
    PROVE  InOrder(SubSeq(q, n + 1, Len(q)), b, c)
  <1> DEFINE head == SubSeq(q, 1, n)
             rest == SubSeq(q, n + 1, Len(q))
  <1>1. PICK i \in DOMAIN q, j \in DOMAIN q : i < j /\ q[i] = b /\ q[j] = c
    BY DEF InOrder
  <1>2. /\ DOMAIN q = 1 .. Len(q) /\ Len(q) \in Nat
        /\ DOMAIN head = 1 .. n /\ \A k \in 1 .. n : head[k] = q[k]
        /\ DOMAIN rest = 1 .. Len(q) - n /\ \A k \in 1 .. Len(q) - n : rest[k] = q[n + k]
    OBVIOUS
  <1> HIDE DEF head, rest
  <1>3. ~(i <= n)
    <2>1. \A k \in 1 .. n : head[k] # b
      BY <1>2 DEF Range, head
    <2> QED  BY <2>1, <1>1, <1>2
  <1>4. /\ i - n \in DOMAIN rest /\ j - n \in DOMAIN rest /\ i - n < j - n
        /\ rest[i - n] = b /\ rest[j - n] = c
    <2>1. i - n \in 1 .. Len(q) - n /\ j - n \in 1 .. Len(q) - n /\ i - n < j - n
      BY <1>1, <1>2, <1>3
    <2>2. n + (i - n) = i /\ n + (j - n) = j
      BY <1>1, <1>2
    <2> QED  BY <2>1, <2>2, <1>1, <1>2
  <1> QED  BY <1>4 DEF InOrder, rest

(* Blocks appended to the queue come after the others, in their own order. *)
LEMMA ConcatOrder ==
    ASSUME NEW S, NEW q \in Seq(S), NEW t \in Seq(S), NEW b, NEW c,
           \/ InOrder(q, b, c)
           \/ InOrder(t, b, c)
           \/ b \in Range(q) /\ c \in Range(t)
    PROVE  InOrder(q \o t, b, c)
  <1> DEFINE all == q \o t
  <1>1. /\ DOMAIN q = 1 .. Len(q) /\ Len(q) \in Nat /\ DOMAIN t = 1 .. Len(t) /\ Len(t) \in Nat
        /\ DOMAIN all = 1 .. Len(q) + Len(t)
        /\ \A k \in 1 .. Len(q) : all[k] = q[k]
        /\ \A k \in 1 .. Len(t) : all[Len(q) + k] = t[k]
    OBVIOUS
  <1> HIDE DEF all
  <1>2. \A k \in 1 .. Len(q) : k \in DOMAIN all
    BY <1>1
  <1>3. \A k \in 1 .. Len(t) : Len(q) + k \in DOMAIN all /\ \A j \in 1 .. Len(q) : j < Len(q) + k
    BY <1>1
  <1>4. CASE InOrder(q, b, c)
    BY <1>4, <1>1, <1>2 DEF InOrder, all
  <1>5. CASE InOrder(t, b, c)
    <2>1. PICK i \in DOMAIN t, j \in DOMAIN t : i < j /\ t[i] = b /\ t[j] = c
      BY <1>5 DEF InOrder
    <2>2. Len(q) + i < Len(q) + j
      BY <2>1, <1>1
    <2> QED  BY <2>1, <2>2, <1>1, <1>3 DEF InOrder, all
  <1>6. CASE b \in Range(q) /\ c \in Range(t)
    <2>1. PICK i \in DOMAIN q, j \in DOMAIN t : q[i] = b /\ t[j] = c
      BY <1>6 DEF Range
    <2> QED  BY <2>1, <1>1, <1>2, <1>3 DEF InOrder, all
  <1> QED  BY <1>4, <1>5, <1>6

(* free hands a table back in reverse: a block before the one it extends. *)
LEMMA ReverseOrder ==
    ASSUME NEW S, NEW q \in Seq(S), NEW i \in DOMAIN q, i - 1 \in DOMAIN q
    PROVE  InOrder(Reverse(q), q[i], q[i - 1])
  <1>1. DOMAIN q = 1 .. Len(q) /\ Len(q) \in Nat
    OBVIOUS
  <1>2. /\ DOMAIN Reverse(q) = 1 .. Len(q)
        /\ \A k \in 1 .. Len(q) : Reverse(q)[k] = q[Len(q) - k + 1]
    BY <1>1 DEF Reverse
  <1> DEFINE k == Len(q) - i + 1
             l == Len(q) - i + 2
  <1>3. /\ k \in 1 .. Len(q) /\ l \in 1 .. Len(q) /\ k < l
        /\ Len(q) - k + 1 = i /\ Len(q) - l + 1 = i - 1
    BY <1>1
  <1> HIDE DEF k, l
  <1> QED  BY <1>2, <1>3 DEF InOrder

-----------------------------------------------------------------------------
(* The chain of a table. *)

(* The hash of a block without its last block is the hash of the block     *)
(* before it.                                                              *)
LEMMA ShorterHash ==
    ASSUME NEW r, all_token_ids[r] \in Seq(Token),
           NEW i \in Nat, i > 1, i * BlockSize <= NumTokens(r)
    PROVE  Shorter(BlockHash(r, i)) = BlockHash(r, i - 1)
  <1> DEFINE s == all_token_ids[r]
             m == i * BlockSize
             k == (i - 1) * BlockSize
  <1>1. /\ m \in Nat /\ k \in Nat /\ k = m - BlockSize /\ k <= m /\ m <= Len(s)
    <2>1. m \in Nat /\ k \in Nat /\ k <= m
      BY i - 1 \in Nat, i - 1 <= i, MulMonotone
    <2>2. k = m - BlockSize
      BY BlockSizes, SMT
    <2> HIDE DEF m, k
    <2> QED  BY <2>1, <2>2 DEF NumTokens, m
  <1>2. Len(BlockHash(r, i)) = m
    BY BlockHashFacts, i \in Nat \ {0}
  <1>3. BlockHash(r, i) = SubSeq(s, 1, m) /\ BlockHash(r, i - 1) = SubSeq(s, 1, k)
    BY DEF BlockHash
  <1> HIDE DEF s, m, k
  <1>4. s \in Seq(Token)
    BY DEF s
  <1>5. SubSeq(SubSeq(s, 1, m), 1, k) = SubSeq(s, 1, k)
    BY <1>1, <1>4
  <1> QED  BY <1>1, <1>2, <1>3, <1>5 DEF Shorter

(* In a table, a block that caches a prefix of more than one block comes   *)
(* right after the block that caches the prefix one block shorter.         *)
LEMMA ChainInTable ==
    ASSUME KVInv, NEW r \in Requests, NEW i \in DOMAIN req_to_blocks[r],
           Len(block_hash[req_to_blocks[r][i]]) > BlockSize
    PROVE  LET table == req_to_blocks[r]
           IN  /\ i - 1 \in DOMAIN table /\ table[i - 1] \in Block
               /\ block_hash[table[i - 1]] = Shorter(block_hash[table[i]])
  <1> DEFINE table == req_to_blocks[r]
             n     == NumCached(r)
  <1>1. /\ table \in Seq(Block) /\ all_token_ids[r] \in Seq(Token)
        /\ DOMAIN table = 1 .. Len(table) /\ Len(table) \in Nat
        /\ i \in 1 .. Len(table) /\ NumTokens(r) \in Nat
    BY DEF KVInv, KVTypeOK, NumTokens
  <1>2. n \in Nat /\ n <= Len(table) /\ n * BlockSize <= NumTokens(r)
    BY NumCachedType DEF KVInv, CachedWithinTable
  <1>3. \A j \in 1 .. Len(table) :
            block_hash[table[j]] = IF j <= n THEN BlockHash(r, j) ELSE NoHash
    BY DEF KVInv, TableHashes
  <1> HIDE DEF table, n
  <1>4. i <= n /\ block_hash[table[i]] = BlockHash(r, i)
    <2>1. ~(Len(NoHash) > BlockSize)
      BY BlockSizes DEF NoHash
    <2> QED  BY <2>1, <1>1, <1>3 DEF table
  <1>5. i * BlockSize <= NumTokens(r)
    <2>1. i * BlockSize \in Nat /\ n * BlockSize \in Nat /\ i * BlockSize <= n * BlockSize
      BY <1>1, <1>2, <1>4, MulMonotone
    <2> QED  BY <2>1, <1>1, <1>2
  <1>6. i > 1
    <2>1. Len(block_hash[table[i]]) = i * BlockSize
      BY <1>1, <1>4, <1>5, BlockHashFacts, i \in Nat \ {0}
    <2>2. i # 1
      BY <2>1, BlockSizes, 1 * BlockSize = BlockSize DEF table
    <2> QED  BY <2>2, <1>1
  <1>7. i - 1 \in 1 .. Len(table) /\ i - 1 <= n
    BY <1>1, <1>2, <1>4, <1>6
  <1>8. block_hash[table[i - 1]] = Shorter(block_hash[table[i]])
    BY <1>1, <1>3, <1>4, <1>5, <1>6, <1>7, ShorterHash
  <1> QED  BY <1>1, <1>7, <1>8 DEF table

(* A block in use that caches a prefix of more than one block has the      *)
(* block before it in use as well.                                         *)
LEMMA HeldChain ==
    ASSUME KVInv, NEW b \in Block, ref_cnt[b] # 0, Len(block_hash[b]) > BlockSize
    PROVE  \E c \in Block : block_hash[c] = Shorter(block_hash[b]) /\ ref_cnt[c] # 0
  <1>1. PICK r \in Requests : b \in Range(req_to_blocks[r])
    <2>1. Holders(b) # {}
      BY FS_EmptySet DEF KVInv, RefCountExact
    <2> QED  BY <2>1 DEF Holders
  <1>2. PICK i \in DOMAIN req_to_blocks[r] : req_to_blocks[r][i] = b
    BY <1>1 DEF Range
  <1> DEFINE c == req_to_blocks[r][i - 1]
  <1>3. i - 1 \in DOMAIN req_to_blocks[r] /\ c \in Block /\ block_hash[c] = Shorter(block_hash[b])
    BY <1>2, ChainInTable
  <1>4. ref_cnt[c] # 0
    <2>1. r \in Holders(c) /\ IsFiniteSet(Holders(c))
      BY <1>3, HoldersFinite DEF Holders, Range
    <2>2. Cardinality(Holders(c)) # 0
      BY <2>1, FS_EmptySet
    <2> QED  BY <2>2, <1>3 DEF KVInv, RefCountExact
  <1> QED  BY <1>3, <1>4

-----------------------------------------------------------------------------
(* Every call keeps tails before heads. *)

(* A free block that caches something is linked in the queue. *)
LEMMA CachedIsQueued ==
    ASSUME KVInv, NEW b \in Block, ref_cnt[b] = 0, Len(block_hash[b]) > BlockSize
    PROVE  b \in Range(free_block_queue) /\ block_hash[b] # NoHash
  <1>1. ~(Len(NoHash) > BlockSize)
    BY BlockSizes DEF NoHash
  <1>2. block_hash[b] # NoHash /\ b # NullBlock
    BY <1>1 DEF KVInv, NullUncached
  <1> QED  BY <1>2 DEF KVInv, FreeQueueExact

(* A prefix one block shorter than a cached one is not empty. *)
LEMMA ShorterCached ==
    ASSUME KVInv, NEW b \in Block, NEW c \in Block, Len(block_hash[b]) > BlockSize,
           block_hash[c] = Shorter(block_hash[b])
    PROVE  block_hash[c] # NoHash
  <1> DEFINE h == block_hash[b]
             k == Len(h) - BlockSize
  <1>1. h \in Seq(Token) /\ k \in Nat /\ k > 0 /\ k <= Len(h)
    BY BlockSizes DEF KVInv, KVTypeOK
  <1> HIDE DEF h, k
  <1>2. Len(SubSeq(h, 1, k)) = k
    BY <1>1
  <1>3. Len(NoHash) = 0
    BY DEF NoHash
  <1>4. block_hash[c] = SubSeq(h, 1, k)
    BY DEF Shorter, h, k
  <1> QED  BY <1>1, <1>2, <1>3, <1>4

(* A block that keeps its entry in the map keeps its hash. *)
LEMMA EntryKept ==
    ASSUME KVInv', NEW b \in Block, NEW h, h # NoHash, <<h, b>> \in cached_block_hash_to_block'
    PROVE  block_hash'[b] = h
  <1>1. PICK c \in Block : <<h, b>> = <<block_hash'[c], c>>
    BY DEF KVInv, HashMapExact
  <1> QED  BY <1>1

(* free: what other requests still hold stays in use, and the rest of the  *)
(* table goes to the end of the queue, each block before the one it        *)
(* extends.                                                                *)
LEMMA FreeTails ==
    ASSUME EvictionInv, NEW r \in Requests, FreeRequest(r)
    PROVE  TailsGoFirst'
  <1> DEFINE table == req_to_blocks[r]
             gone  == {b \in Range(table) : ref_cnt[b] # 1}
             back  == Without(Reverse(table), gone)
             queue == free_block_queue
  <1>0. KVInv /\ TailsGoFirst
    BY DEF EvictionInv
  <1>1. /\ queue \in Seq(Block) /\ table \in Seq(Block) /\ IsInjective(table)
        /\ ref_cnt \in [Block -> Nat] /\ DOMAIN table = 1 .. Len(table)
        /\ Range(table) \subseteq Block
    BY <1>0 DEF KVInv, KVTypeOK, TablesWellFormed, Range
  <1>2. /\ ref_cnt' = [b \in Block |-> IF b \in Range(table) THEN ref_cnt[b] - 1 ELSE ref_cnt[b]]
        /\ free_block_queue' = queue \o back /\ block_hash' = block_hash
    BY DEF FreeRequest
  <1>3. /\ Reverse(table) \in Seq(Block) /\ IsInjective(Reverse(table))
        /\ Range(Reverse(table)) = Range(table)
    <2> HIDE DEF table
    <2> QED  BY <1>1, ReverseInjective
  <1>4. back \in Seq(Block) /\ Range(back) = Range(table) \ gone
    <2> HIDE DEF table, gone
    <2> QED  BY <1>1, BackProperties
  <1>5. \A b \in Block : ref_cnt[b] # 0 /\ ref_cnt'[b] = 0 => b \in Range(table) /\ b \notin gone
    BY <1>1, <1>2
  <1> SUFFICES ASSUME NEW b \in Block, ref_cnt'[b] = 0, Len(block_hash[b]) > BlockSize
               PROVE  \E c \in Block : /\ block_hash[c] = Shorter(block_hash[b])
                                       /\ ref_cnt'[c] # 0 \/ InOrder(queue \o back, b, c)
    BY <1>2 DEF TailsGoFirst
  <1> HIDE DEF table, gone, back, queue
  <1>6. CASE ref_cnt[b] = 0
    <2>1. PICK c \in Block : /\ block_hash[c] = Shorter(block_hash[b])
                             /\ ref_cnt[c] # 0 \/ InOrder(queue, b, c)
      BY <1>0, <1>6 DEF TailsGoFirst, queue
    <2>2. ref_cnt'[c] = 0 => InOrder(queue \o back, b, c)
      <3>1. CASE InOrder(queue, b, c)
        BY <3>1, <1>1, <1>4, ConcatOrder
      <3>2. CASE ref_cnt[c] # 0 /\ ref_cnt'[c] = 0
        <4>1. c \in Range(back)
          BY <3>2, <1>4, <1>5
        <4>2. b \in Range(queue)
          BY <1>0, <1>6, CachedIsQueued DEF queue
        <4> QED  BY <4>1, <4>2, <1>1, <1>4, ConcatOrder
      <3> QED  BY <2>1, <3>1, <3>2
    <2> QED  BY <2>1, <2>2
  <1>7. CASE ref_cnt[b] # 0
    <2>1. b \in Range(table) /\ b \notin gone
      BY <1>5, <1>7
    <2>2. PICK i \in DOMAIN table : table[i] = b
      BY <2>1 DEF Range
    <2> DEFINE c == table[i - 1]
    <2>3. i - 1 \in DOMAIN table /\ c \in Block /\ block_hash[c] = Shorter(block_hash[b])
      BY <2>2, <1>0, ChainInTable DEF table
    <2>4. ref_cnt'[c] = 0 => InOrder(queue \o back, b, c)
      <3> SUFFICES ASSUME ref_cnt'[c] = 0 PROVE InOrder(queue \o back, b, c)
        OBVIOUS
      <3>1. c \in Range(table) /\ c \notin gone
        <4>1. c \in Range(table)
          BY <2>3 DEF Range
        <4>2. ref_cnt'[c] = ref_cnt[c] - 1 /\ ref_cnt[c] \in Nat
          BY <4>1, <2>3, <1>1, <1>2
        <4> QED  BY <4>1, <4>2 DEF gone
      <3>2. InOrder(Reverse(table), b, c)
        BY <2>2, <2>3, <1>1, ReverseOrder
      <3>3. InOrder(back, b, c)
        BY <2>1, <3>1, <3>2, <1>3, WithoutOrder DEF back
      <3> QED  BY <3>3, <1>1, <1>4, ConcatOrder
    <2> QED  BY <2>3, <2>4
  <1> QED  BY <1>6, <1>7

(* cache_blocks enters blocks in use only. *)
LEMMA CacheTails ==
    ASSUME EvictionInv, KVInv', NEW r \in Requests, Cache(r)
    PROVE  TailsGoFirst'
  <1> DEFINE table == req_to_blocks[r]
             map   == cached_block_hash_to_block
  <1>0. KVInv /\ TailsGoFirst
    BY DEF EvictionInv
  <1>1. /\ table \in Seq(Block) /\ Len(table) \in Nat /\ DOMAIN table = 1 .. Len(table)
        /\ NumTokens(r) \in Nat /\ NumCached(r) \in Nat
    BY <1>0, NumCachedType DEF KVInv, KVTypeOK, NumTokens
  <1>2. PICK n \in 0 .. Min({NumTokens(r), Len(table) * BlockSize}) : CacheBlocks(r, n)
    BY DEF Cache
  <1> DEFINE to == n \div BlockSize
  <1>3. to \in Nat /\ to <= Len(table)
    <2> DEFINE room == Len(table) * BlockSize
    <2>1. room \in Nat
      <3> HIDE DEF table
      <3> QED  BY <1>1, Len(table) <= Len(table), MulMonotone
    <2>2. n \in 0 .. Min({NumTokens(r), room})
      OBVIOUS
    <2> HIDE DEF room, table
    <2>3. Min({NumTokens(r), room}) = IF NumTokens(r) <= room THEN NumTokens(r) ELSE room
      BY <2>1, <1>1, MinOfTwo
    <2>4. n \in Nat /\ n <= room
      BY <2>1, <2>2, <2>3, <1>1
    <2> QED  BY <2>4, <1>1, DivBounds, DivUpper DEF room
  <1>4. /\ map' = map \cup NewlyCached(r, table, NumCached(r), to)
        /\ ref_cnt' = ref_cnt /\ free_block_queue' = free_block_queue
    BY <1>2 DEF CacheBlocks
  <1> HIDE DEF to
  <1>5. \A p \in NewlyCached(r, table, NumCached(r), to) : p[2] \in Range(table)
    <2>1. \A i \in NumCached(r) + 1 .. to : i \in DOMAIN table
      BY <1>1, <1>3
    <2> QED  BY <2>1 DEF NewlyCached, Range
  <1> HIDE DEF map
  <1>6. \A b \in Block : block_hash[b] # NoHash => block_hash'[b] = block_hash[b]
    <2> SUFFICES ASSUME NEW b \in Block, block_hash[b] # NoHash
                 PROVE  block_hash'[b] = block_hash[b]
      OBVIOUS
    <2>1. <<block_hash[b], b>> \in map
      BY <1>0 DEF KVInv, HashMapExact, map
    <2> QED  BY <2>1, <1>4, EntryKept DEF map
  <1> SUFFICES ASSUME NEW b \in Block, ref_cnt[b] = 0, Len(block_hash'[b]) > BlockSize
               PROVE  \E c \in Block : /\ block_hash'[c] = Shorter(block_hash'[b])
                                       /\ ref_cnt[c] # 0 \/ InOrder(free_block_queue, b, c)
    BY <1>4 DEF TailsGoFirst
  <1>7. block_hash'[b] = block_hash[b]
    <2>1. block_hash'[b] # NoHash
      BY BlockSizes DEF NoHash
    <2>2. <<block_hash'[b], b>> \in map'
      BY <2>1 DEF KVInv, HashMapExact, map
    <2>3. b \notin Range(table)
      <3>1. b # NullBlock
        BY <2>1 DEF KVInv, NullUncached
      <3>2. b \in Range(free_block_queue)
        BY <3>1, <1>0 DEF KVInv, FreeQueueExact
      <3> QED  BY <3>2, <1>0, TableReferenced DEF table
    <2>4. <<block_hash'[b], b>> \in map
      BY <2>2, <2>3, <1>4, <1>5
    <2>5. PICK c \in Block : <<block_hash'[b], b>> = <<block_hash[c], c>>
      BY <2>4, <1>0 DEF KVInv, HashMapExact, map
    <2> QED  BY <2>5
  <1>8. PICK c \in Block : /\ block_hash[c] = Shorter(block_hash[b])
                           /\ ref_cnt[c] # 0 \/ InOrder(free_block_queue, b, c)
    BY <1>0, <1>7 DEF TailsGoFirst
  <1>9. block_hash'[c] = Shorter(block_hash'[b])
    BY <1>0, <1>6, <1>7, <1>8, ShorterCached
  <1> QED  BY <1>8, <1>9

(* allocate_slots takes hits out of the queue by using them, and evicts    *)
(* from its head; what it caches is in use.                                *)
LEMMA AllocateTails ==
    ASSUME EvictionInv, KVInv', NEW r \in Requests, Allocate(r)
    PROVE  TailsGoFirst'
  <1>1. PICK hits \in IF req_to_blocks[r] = <<>> THEN GetComputedBlocks(r) \cup {<<>>} ELSE {<<>>} :
            \E total \in Len(hits) * BlockSize + 1 .. MaxModelLen : AllocateSlots(r, hits, total)
    BY DEF Allocate
  <1>2. PICK total \in Len(hits) * BlockSize + 1 .. MaxModelLen : AllocateSlots(r, hits, total)
    BY <1>1
  <1>0. KVInv /\ TailsGoFirst
    BY DEF EvictionInv
  <1>3. IsHit(r, hits) /\ total \in Nat
    <2>1. IsHit(r, hits)
      BY <1>0, HitFacts DEF Allocate
    <2>2. Len(hits) * BlockSize \in Nat
      BY <2>1, MulMonotone DEF IsHit
    <2> QED  BY <2>1, <2>2, BlockSizes
  <1> DEFINE queue      == Without(free_block_queue, Range(hits))
             num_new    == NumNewBlocks(r, hits, total)
             new_blocks == SubSeq(queue, 1, num_new)
             rest       == SubSeq(queue, num_new + 1, Len(queue))
             evicted    == Evictable(Range(new_blocks))
             blocks     == req_to_blocks[r] \o hits \o new_blocks
             num_cached == IF hits = <<>> THEN NumCached(r) ELSE Len(hits)
             num_full   == Min({total, NumTokens(r)}) \div BlockSize
             pairs      == NewlyCached(r, blocks, num_cached, num_full)
             map        == cached_block_hash_to_block
  <1>4. /\ CanAllocate(r, hits, total)
        /\ free_block_queue' = rest
        /\ ref_cnt' = [b \in Block |-> IF b \in Range(hits) \cup Range(new_blocks)
                                       THEN ref_cnt[b] + 1 ELSE ref_cnt[b]]
        /\ req_to_blocks' = [req_to_blocks EXCEPT ![r] = blocks]
        /\ map' = {p \in map : p[2] \notin evicted} \cup pairs
    BY <1>2 DEF AllocateSlots
  <1>5. /\ num_new \in Nat /\ num_new <= Len(queue)
        /\ Cdiv(total, BlockSize) <= Len(req_to_blocks[r]) + Len(hits) + num_new
    BY <1>0, <1>3, <1>4, EnoughFreeBlocks
  <1>6. Appended(r, hits, new_blocks, rest, num_new)
    <2> HIDE DEF num_new
    <2> QED  BY <1>0, <1>3, <1>5, AppendedBlocks
  <1>7. evicted \subseteq Range(new_blocks)
    BY DEF Evictable
  <1>8. queue \in Seq(Block)
    <2> DEFINE X == Range(hits)
    <2>1. free_block_queue \in Seq(Block) /\ IsInjective(free_block_queue)
      BY <1>0 DEF KVInv, KVTypeOK, FreeQueueExact
    <2> HIDE DEF X
    <2>2. Without(free_block_queue, X) \in Seq(Block)
      BY <2>1, WithoutProperties
    <2> QED  BY <2>2 DEF X
  <1>9. new_blocks = SubSeq(queue, 1, num_new) /\ rest = SubSeq(queue, num_new + 1, Len(queue))
    OBVIOUS
  <1> HIDE DEF num_new, new_blocks, rest, evicted
  <1>10. /\ blocks \in Seq(Block) /\ Len(blocks) = Len(req_to_blocks[r]) + Len(hits) + num_new
         /\ Range(blocks) = Range(req_to_blocks[r]) \cup Range(hits) \cup Range(new_blocks)
         /\ Range(rest) = (Range(free_block_queue) \ Range(hits)) \ Range(new_blocks)
         /\ Range(new_blocks) \subseteq Range(free_block_queue)
    BY <1>6 DEF Appended
  <1> HIDE DEF blocks
  <1>11. \A p \in pairs : p[2] \in Range(blocks)
    <2> DEFINE known == Min({total, NumTokens(r)})
    <2>1. NumTokens(r) \in Nat
      BY <1>0 DEF KVInv, KVTypeOK, NumTokens
    <2>2. known \in Nat /\ known <= total
      <3>1. known = IF total <= NumTokens(r) THEN total ELSE NumTokens(r)
        BY <1>3, <2>1, MinOfTwo
      <3> HIDE DEF known
      <3> QED  BY <3>1, <1>3, <2>1
    <2> HIDE DEF known
    <2>3. /\ known \div BlockSize \in Nat /\ total \div BlockSize \in Nat
          /\ known \div BlockSize <= total \div BlockSize
          /\ Cdiv(total, BlockSize) \in Nat /\ total \div BlockSize <= Cdiv(total, BlockSize)
      BY <2>2, <1>3, DivBounds, DivMonotone, CdivBounds
    <2>4. num_full = known \div BlockSize
      BY DEF known
    <2>5. num_cached \in Nat
      <3>1. NumCached(r) \in Nat
        BY <1>0, NumCachedType DEF KVInv, KVTypeOK
      <3> QED  BY <3>1, <1>3 DEF IsHit
    <2> HIDE DEF num_full, num_cached
    <2>6. Len(blocks) \in Nat /\ DOMAIN blocks = 1 .. Len(blocks)
      BY <1>10
    <2>7. num_full \in Nat /\ num_full <= Len(blocks)
      BY <2>3, <2>4, <2>6, <1>5, <1>10
    <2>8. \A i \in num_cached + 1 .. num_full : i \in DOMAIN blocks
      BY <2>5, <2>6, <2>7
    <2> QED  BY <2>8 DEF NewlyCached, Range
  <1> HIDE DEF pairs
  <1>12. \A b \in Block : block_hash[b] # NoHash /\ b \notin Range(new_blocks)
                              => block_hash'[b] = block_hash[b]
    <2> SUFFICES ASSUME NEW b \in Block, block_hash[b] # NoHash, b \notin Range(new_blocks)
                 PROVE  block_hash'[b] = block_hash[b]
      OBVIOUS
    <2>1. <<block_hash[b], b>> \in map
      BY <1>0 DEF KVInv, HashMapExact
    <2>2. <<block_hash[b], b>> \in map'
      BY <2>1, <1>4, <1>7
    <2> QED  BY <2>2, EntryKept
  <1>13. /\ ref_cnt \in [Block -> Nat]
         /\ \A b \in Block : ref_cnt'[b] = 0 => ref_cnt[b] = 0 /\ b \notin Range(hits)
         /\ \A b \in Block : ref_cnt[b] # 0 => ref_cnt'[b] # 0 /\ b \notin Range(new_blocks)
         /\ \A b \in Range(hits) \cap Block : ref_cnt'[b] # 0
    <2>1. ref_cnt \in [Block -> Nat]
      BY <1>0 DEF KVInv, KVTypeOK
    <2>2. \A b \in Block : ref_cnt[b] # 0 => b \notin Range(new_blocks)
      BY <1>0, <1>10 DEF KVInv, FreeQueueExact
    <2> QED  BY <2>1, <2>2, <1>4
  <1> SUFFICES ASSUME NEW b \in Block, ref_cnt'[b] = 0, Len(block_hash'[b]) > BlockSize
               PROVE  \E c \in Block : /\ block_hash'[c] = Shorter(block_hash'[b])
                                       /\ ref_cnt'[c] # 0 \/ InOrder(rest, b, c)
    BY <1>4 DEF TailsGoFirst
  <1>14. b \in Range(rest) /\ block_hash'[b] # NoHash
    <2>1. block_hash'[b] # NoHash
      BY BlockSizes DEF NoHash
    <2>2. b # NullBlock
      BY <2>1 DEF KVInv, NullUncached
    <2>3. b \in Range(free_block_queue')
      BY <2>2 DEF KVInv, FreeQueueExact
    <2> QED  BY <2>1, <2>3, <1>4
  <1>15. b \notin Range(hits) /\ b \notin Range(new_blocks) /\ b \notin Range(req_to_blocks[r])
    BY <1>0, <1>10, <1>14, TableReferenced
  <1>16. block_hash'[b] = block_hash[b]
    <2>1. <<block_hash'[b], b>> \in map'
      BY <1>14 DEF KVInv, HashMapExact
    <2>2. b \notin Range(blocks)
      BY <1>10, <1>15
    <2>3. <<block_hash'[b], b>> \in map
      BY <2>1, <2>2, <1>4, <1>11
    <2>4. PICK c \in Block : <<block_hash'[b], b>> = <<block_hash[c], c>>
      BY <2>3, <1>0 DEF KVInv, HashMapExact
    <2> QED  BY <2>4
  <1>17. PICK c \in Block : /\ block_hash[c] = Shorter(block_hash[b])
                            /\ ref_cnt[c] # 0 \/ InOrder(free_block_queue, b, c)
    BY <1>0, <1>13, <1>16 DEF TailsGoFirst
  <1>18. block_hash[c] # NoHash
    BY <1>0, <1>16, <1>17, ShorterCached
  <1>19. CASE ref_cnt[c] # 0
    BY <1>12, <1>13, <1>16, <1>17, <1>18, <1>19
  <1>20. CASE c \in Range(hits)
    <2>1. c \notin Range(new_blocks)
      BY <1>6, <1>20 DEF Appended
    <2> QED  BY <2>1, <1>12, <1>13, <1>16, <1>17, <1>18, <1>20
  <1>21. CASE c \notin Range(hits) /\ InOrder(free_block_queue, b, c)
    <2>1. InOrder(queue, b, c)
      BY <1>0, <1>15, <1>21, WithoutOrder DEF KVInv, KVTypeOK
    <2>2. InOrder(rest, b, c)
      BY <2>1, <1>5, <1>8, <1>9, <1>15, RestOrder
    <2>3. c \in Range(rest)
      BY <2>2 DEF InOrder, Range
    <2>4. c \notin Range(new_blocks)
      BY <2>3, <1>10
    <2> QED  BY <2>2, <2>4, <1>12, <1>16, <1>17, <1>18
  <1> QED  BY <1>17, <1>19, <1>20, <1>21

(* Tails go first through every step. *)
LEMMA EvictionStep ==
    ASSUME EvictionInv, [KVNext]_kvvars
    PROVE  EvictionInv'
  <1>1. KVInv'
    BY KVStepInv DEF EvictionInv
  <1>2. ASSUME UNCHANGED poolvars PROVE TailsGoFirst'
    BY <1>2 DEF EvictionInv, TailsGoFirst, poolvars
  <1>3. ASSUME NEW r \in Requests, NEW prompt \in Prompts, NewRequest(r, prompt)
        PROVE  TailsGoFirst'
    BY <1>2, <1>3 DEF NewRequest
  <1>4. ASSUME NEW r \in Requests, NEW token \in Token, AppendOutputToken(r, token)
        PROVE  TailsGoFirst'
    BY <1>2, <1>4 DEF AppendOutputToken
  <1>5. ASSUME NEW r \in Requests, Allocate(r) PROVE TailsGoFirst'
    BY <1>1, <1>5, AllocateTails
  <1>6. ASSUME NEW r \in Requests, Cache(r) PROVE TailsGoFirst'
    BY <1>1, <1>6, CacheTails
  <1>7. ASSUME NEW r \in Requests, Preempt(r) PROVE TailsGoFirst'
    BY <1>7, FreeTails DEF Preempt
  <1>8. ASSUME NEW r \in Requests, Finish(r) PROVE TailsGoFirst'
    BY <1>8, FreeTails DEF Finish
  <1>9. ASSUME Reset PROVE TailsGoFirst'
    <2> SUFFICES ASSUME NEW b \in Block, Len(block_hash'[b]) > BlockSize
                 PROVE  FALSE
      BY DEF TailsGoFirst
    <2> QED  BY <1>9, BlockSizes DEF Reset, ResetPrefixCache, NoHash
  <1>10. ASSUME UNCHANGED kvvars PROVE TailsGoFirst'
    <2>1. UNCHANGED poolvars
      BY <1>10 DEF kvvars
    <2> QED  BY <2>1, <1>2
  <1>11. TailsGoFirst'
    BY <1>3, <1>4, <1>5, <1>6, <1>7, <1>8, <1>9, <1>10 DEF KVNext
  <1> QED  BY <1>1, <1>11 DEF EvictionInv

(* The last block of every cached prefix that is free is evicted before    *)
(* some block that caches the rest of it: free puts tails before heads,    *)
(* and no call of the manager overturns that.                              *)
THEOREM EvictionInvariant == KVSpec => []EvictionInv
  <1>1. KVInit => EvictionInv
    <2> SUFFICES ASSUME KVInit PROVE EvictionInv
      OBVIOUS
    <2>1. \A b \in Block : ~(Len(block_hash[b]) > BlockSize)
      BY BlockSizes DEF KVInit, NoHash
    <2> QED  BY <2>1, KVInitInv DEF EvictionInv, TailsGoFirst
  <1> QED  BY <1>1, EvictionStep, PTL DEF KVSpec

(* find_longest_cache_hit may stop at the first miss: whenever a prefix is *)
(* cached, so is the prefix one block shorter, whatever has been evicted.  *)
THEOREM CacheIsPrefixClosed == KVSpec => []CachedPrefixClosed
  <1>1. ASSUME EvictionInv PROVE CachedPrefixClosed
    <2> SUFFICES ASSUME NEW p \in cached_block_hash_to_block, Len(p[1]) > BlockSize
                 PROVE  \E q \in cached_block_hash_to_block : q[1] = Shorter(p[1])
      BY DEF CachedPrefixClosed
    <2>0. KVInv /\ TailsGoFirst
      BY <1>1 DEF EvictionInv
    <2>1. PICK b \in Block : p = <<block_hash[b], b>>
      BY <2>0 DEF KVInv, HashMapExact
    <2>2. PICK c \in Block : block_hash[c] = Shorter(block_hash[b])
      BY <2>0, <2>1, HeldChain DEF TailsGoFirst
    <2>3. <<block_hash[c], c>> \in cached_block_hash_to_block
      BY <2>0, <2>1, <2>2, ShorterCached DEF KVInv, HashMapExact
    <2> QED  BY <2>1, <2>2, <2>3
  <1> QED  BY <1>1, EvictionInvariant, PTL

-----------------------------------------------------------------------------
(* Cascade attention. *)

(* The largest number of leading elements that satisfy a condition. *)
LEMMA MaxOfInterval ==
    ASSUME NEW n \in Nat, NEW S \in SUBSET (0 .. n), 0 \in S
    PROVE  Max(S) \in S
  <1> DEFINE Bounded(m) == \A T \in SUBSET (0 .. m) :
                              T # {} => \E x \in T : \A y \in T : x >= y
             B == {m \in Nat : Bounded(m)}
  <1>1. 0 \in B
    <2> SUFFICES ASSUME NEW T \in SUBSET (0 .. 0), T # {}
                 PROVE  \E x \in T : \A y \in T : x >= y
      OBVIOUS
    <2>1. \A y \in T : y \in 0 .. 0
      OBVIOUS
    <2>2. \A y \in T : y = 0
      BY <2>1
    <2>3. PICK x : x \in T
      OBVIOUS
    <2>4. \A y \in T : x >= y
      BY <2>2, <2>3
    <2> QED  BY <2>3, <2>4
  <1>2. ASSUME NEW m \in Nat, m \in B PROVE m + 1 \in B
    <2> SUFFICES ASSUME NEW T \in SUBSET (0 .. m + 1), T # {}
                 PROVE  \E x \in T : \A y \in T : x >= y
      OBVIOUS
    <2>1. CASE m + 1 \in T
      <3>1. \A y \in T : y \in 0 .. m + 1
        OBVIOUS
      <3>2. \A y \in T : m + 1 >= y
        BY <3>1
      <3> QED  BY <2>1, <3>2
    <2>2. CASE m + 1 \notin T
      <3>1. T \in SUBSET (0 .. m)
        BY <2>2
      <3> QED  BY <3>1, <1>2
    <2> QED  BY <2>1, <2>2
  <1> HIDE DEF B
  <1>3. \A m \in Nat : m \in B
    BY <1>1, <1>2, NatInductive
  <1>4. Bounded(n)
    BY <1>3 DEF B
  <1>5. \E x \in S : \A y \in S : x >= y
    BY <1>4
  <1> QED  BY <1>5 DEF Max

(* A block that every table holds is at the same place in all of them: it  *)
(* is shared, so it is cached, and its hash tells its place.               *)
LEMMA SamePlace ==
    ASSUME KVInv, NEW r \in Requests, NEW s \in Requests,
           NEW i \in DOMAIN req_to_blocks[r], NEW j \in DOMAIN req_to_blocks[s],
           req_to_blocks[r][i] = req_to_blocks[s][j]
    PROVE  i = j
  <1> DEFINE b == req_to_blocks[r][i]
  <1>1. /\ req_to_blocks[r] \in Seq(Block) /\ req_to_blocks[s] \in Seq(Block)
        /\ all_token_ids[r] \in Seq(Token) /\ all_token_ids[s] \in Seq(Token)
        /\ i \in 1 .. Len(req_to_blocks[r]) /\ j \in 1 .. Len(req_to_blocks[s])
        /\ NumTokens(r) \in Nat /\ NumTokens(s) \in Nat
    <2>1. /\ req_to_blocks[r] \in Seq(Block) /\ req_to_blocks[s] \in Seq(Block)
          /\ all_token_ids[r] \in Seq(Token) /\ all_token_ids[s] \in Seq(Token)
      BY DEF KVInv, KVTypeOK
    <2>2. i \in 1 .. Len(req_to_blocks[r]) /\ j \in 1 .. Len(req_to_blocks[s])
      BY <2>1
    <2>3. NumTokens(r) \in Nat /\ NumTokens(s) \in Nat
      BY <2>1 DEF NumTokens
    <2> QED  BY <2>1, <2>2, <2>3
  <1>2. CASE r = s
    BY <1>2 DEF KVInv, TablesWellFormed, IsInjective
  <1>3. CASE r # s
    <2>1. b \in Range(req_to_blocks[s]) /\ b \in Range(req_to_blocks[r])
      BY DEF Range
    <2>2. /\ NumCached(r) \in Nat /\ NumCached(r) * BlockSize <= NumTokens(r)
          /\ NumCached(s) \in Nat /\ NumCached(s) * BlockSize <= NumTokens(s)
      BY NumCachedType DEF KVInv, CachedWithinTable
    <2>3. i <= NumCached(r) /\ j <= NumCached(s)
      <3>1. i \notin NumCached(r) + 1 .. Len(req_to_blocks[r])
        BY <2>1, <1>3 DEF KVInv, UncachedPrivate
      <3>2. j \notin NumCached(s) + 1 .. Len(req_to_blocks[s])
        BY <2>1, <1>3 DEF KVInv, UncachedPrivate
      <3> QED  BY <3>1, <3>2, <2>2, <1>1
    <2>4. BlockHash(r, i) = BlockHash(s, j)
      BY <2>3, <1>1 DEF KVInv, TableHashes
    <2>5. /\ i * BlockSize <= NumCached(r) * BlockSize /\ i * BlockSize \in Nat
          /\ j * BlockSize <= NumCached(s) * BlockSize /\ j * BlockSize \in Nat
          /\ NumCached(r) * BlockSize \in Nat /\ NumCached(s) * BlockSize \in Nat
      BY <2>2, <2>3, <1>1, MulMonotone
    <2>6. i * BlockSize <= NumTokens(r) /\ j * BlockSize <= NumTokens(s)
      <3>1. \A x, y, z \in Nat : x <= y /\ y <= z => x <= z
        OBVIOUS
      <3> QED  BY <2>2, <2>5, <1>1, <3>1, Zenon
    <2>7. Len(BlockHash(r, i)) = i * BlockSize /\ Len(BlockHash(s, j)) = j * BlockSize
      BY <2>6, <1>1, BlockHashFacts, i \in Nat \ {0}, j \in Nat \ {0}
    <2> QED  BY <2>4, <2>7, <1>1, MulInjective
  <1> QED  BY <1>2, <1>3

(* get_num_common_prefix_blocks counts blocks that all requests with a     *)
(* table start with: comparing ref_cnt with the number of tables finds     *)
(* no block that is shared in another place or by some of them only.       *)
THEOREM CommonPrefixesAreShared == KVSpec => []CommonPrefixIsShared
  <1>1. ASSUME KVInv PROVE CommonPrefixIsShared
    <2> SUFFICES ASSUME NEW r \in Requests, NEW s \in Requests, req_to_blocks[s] # <<>>
                 PROVE  LET n == NumCommonPrefixBlocks(r)
                        IN  SubSeq(req_to_blocks[s], 1, n) = SubSeq(req_to_blocks[r], 1, n)
      BY DEF CommonPrefixIsShared
    <2> DEFINE n      == NumCommonPrefixBlocks(r)
               tables == {q \in Requests : req_to_blocks[q] # <<>>}
               t      == req_to_blocks[r]
               u      == req_to_blocks[s]
    <2>1. t \in Seq(Block) /\ u \in Seq(Block) /\ Len(t) \in Nat
      BY <1>1 DEF KVInv, KVTypeOK
    <2>2. n \in 0 .. Len(t) /\ \A i \in 1 .. n : ref_cnt[t[i]] = Cardinality(tables)
      <3> DEFINE N == {m \in 0 .. Len(t) : \A i \in 1 .. m : ref_cnt[t[i]] = Cardinality(tables)}
      <3>1. n = Max(N)
        BY DEF NumCommonPrefixBlocks
      <3>2. N \in SUBSET (0 .. Len(t)) /\ 0 \in N
        BY <2>1
      <3>3. Max(N) \in N
        <4> HIDE DEF N
        <4> QED  BY <2>1, <3>2, MaxOfInterval
      <3> HIDE DEF n
      <3>4. n \in N
        BY <3>1, <3>3
      <3> QED  BY <3>4
    <2> HIDE DEF n
    <2>3. ASSUME NEW i \in 1 .. n PROVE i \in 1 .. Len(u) /\ u[i] = t[i]
      <3>1. i \in DOMAIN t /\ t[i] \in Block
        BY <2>1, <2>2
      <3>2. Cardinality(Holders(t[i])) = Cardinality(tables)
        BY <1>1, <2>2, <3>1 DEF KVInv, RefCountExact
      <3>3. Holders(t[i]) \subseteq tables
        <4>1. \A q \in Requests : t[i] \in Range(req_to_blocks[q]) => req_to_blocks[q] # <<>>
          BY DEF Range
        <4> QED  BY <4>1 DEF Holders
      <3>4. IsFiniteSet(tables)
        BY RequestsFinite, FS_Subset, tables \in SUBSET Requests
      <3>5. Holders(t[i]) = tables
        <4> HIDE DEF tables, t
        <4> QED  BY <3>2, <3>3, <3>4, FS_Subset
      <3>6. PICK j \in DOMAIN u : u[j] = t[i]
        <4>1. s \in Holders(t[i])
          BY <3>5
        <4> QED  BY <4>1 DEF Holders, Range
      <3>7. i = j
        BY <1>1, <3>1, <3>6, SamePlace
      <3> QED  BY <3>6, <3>7, <2>1
    <2> HIDE DEF t, u, tables
    <2>4. n <= Len(u) /\ n <= Len(t) /\ n \in Nat
      <3>1. n = 0 \/ n \in 1 .. n
        BY <2>1, <2>2
      <3> QED  BY <3>1, <2>1, <2>2, <2>3
    <2>5. SubSeq(u, 1, n) = SubSeq(t, 1, n)
      <3>1. SubSeq(u, 1, n) = [i \in 1 .. n |-> u[i]] /\ SubSeq(t, 1, n) = [i \in 1 .. n |-> t[i]]
        BY <2>1, <2>4
      <3> QED  BY <3>1, <2>3
    <2> QED  BY <2>5 DEF n, t, u
  <1> QED  BY <1>1, KVInvariant, PTL
=============================================================================
