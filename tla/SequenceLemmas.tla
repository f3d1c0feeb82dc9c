--------------------------- MODULE SequenceLemmas ---------------------------
(***************************************************************************)
(* Facts about sequences and the natural numbers that the proofs of        *)
(* several components need.                                                *)
(***************************************************************************)
EXTENDS Integers, Sequences, SequencesExt, FiniteSetTheorems, WellFoundedInduction, TLAPS

(* The positions of a sequence. *)
LEMMA IntervalFacts ==
    ASSUME NEW n \in Nat
    PROVE  /\ IsFiniteSet(1 .. n) /\ Cardinality(1 .. n) = n
           /\ \A k \in 1 .. n - 1 : k \in 1 .. n /\ k # n
           /\ \A k \in 1 .. n : k # n => k \in 1 .. n - 1
  <1>1. IsFiniteSet(1 .. n) /\ Cardinality(1 .. n) = IF 1 > n THEN 0 ELSE n - 1 + 1
    BY FS_Interval
  <1> QED  BY <1>1

(* Concatenation, as one fact to cite. *)
LEMMA ConcatFacts ==
    ASSUME NEW S, NEW s \in Seq(S), NEW t \in Seq(S)
    PROVE  s \o t \in Seq(S) /\ Len(s \o t) = Len(s) + Len(t)
  OBVIOUS

(* list.pop(i) moves the elements behind i forward by one. *)
LEMMA RemoveAtFacts ==
    ASSUME NEW S, NEW s \in Seq(S), NEW p \in 1 .. Len(s)
    PROVE  /\ RemoveAt(s, p) \in Seq(S) /\ Len(RemoveAt(s, p)) = Len(s) - 1
           /\ DOMAIN RemoveAt(s, p) = 1 .. Len(s) - 1
           /\ \A k \in 1 .. Len(s) - 1 :
                RemoveAt(s, p)[k] = IF k < p THEN s[k] ELSE s[k + 1]
  <1> DEFINE a == SubSeq(s, 1, p - 1)
             b == SubSeq(s, p + 1, Len(s))
  <1>1. Len(s) \in Nat /\ p \in Nat /\ p >= 1 /\ p <= Len(s)
    OBVIOUS
  <1>2. a \in Seq(S) /\ Len(a) = p - 1 /\ \A k \in 1 .. p - 1 : a[k] = s[k]
    BY <1>1
  <1>3. b \in Seq(S) /\ Len(b) = Len(s) - p /\ \A k \in 1 .. Len(s) - p : b[k] = s[p + k]
    BY <1>1
  <1>4. RemoveAt(s, p) = a \o b
    BY DEF RemoveAt
  <1> HIDE DEF a, b
  <1>a. (p - 1) + (Len(s) - p) = Len(s) - 1
    BY <1>1
  <1>b. a \o b \in Seq(S) /\ Len(a \o b) = Len(a) + Len(b)
    BY <1>2, <1>3, ConcatFacts
  <1>5. a \o b \in Seq(S) /\ Len(a \o b) = Len(s) - 1
    BY <1>a, <1>b, <1>2, <1>3
  <1>6. \A k \in 1 .. Len(s) - 1 : (a \o b)[k] = IF k < p THEN s[k] ELSE s[k + 1]
    <2> TAKE k \in 1 .. Len(s) - 1
    <2>1. CASE k < p
      BY <2>1, <1>1, <1>2, <1>3
    <2>2. CASE k >= p
      <3>1. k - (p - 1) \in 1 .. Len(s) - p /\ p + (k - (p - 1)) = k + 1
        BY <2>2, <1>1
      <3>2. (a \o b)[k] = b[k - (p - 1)]
        BY <2>2, <1>1, <1>2, <1>3
      <3> QED  BY <3>1, <3>2, <1>3, <2>2
    <2>3. k < p \/ k >= p
      BY <1>1
    <2> QED  BY <2>1, <2>2, <2>3
  <1> QED  BY <1>4, <1>5, <1>6

(* Induction over the natural numbers, from the well-foundedness of strict *)
(* inclusion among the intervals 1 .. n.                                   *)
LEMMA NatInductive ==
    ASSUME NEW S, 0 \in S, \A n \in Nat : n \in S => n + 1 \in S
    PROVE  \A n \in Nat : n \in S
  <1> DEFINE T == {n \in Nat : n \notin S}
             R == StrictSubsetOrdering(Nat)
             U == {1 .. n : n \in T}
  <1>1. SUFFICES ASSUME T # {} PROVE FALSE
    OBVIOUS
  <1>2. U # {}
    <2>1. PICK n \in T : TRUE
      BY <1>1
    <2>2. 1 .. n \in U
      BY <2>1
    <2> QED  BY <2>2
  <1>3. U \subseteq FiniteSubsetsOf(Nat)
    <2>1. ASSUME NEW n \in Nat PROVE 1 .. n \in FiniteSubsetsOf(Nat)
      BY FS_Interval DEF FiniteSubsetsOf
    <2> QED  BY <2>1
  <1>4. \E x \in U : \A y \in U : ~(<<y, x>> \in R)
    <2> HIDE DEF U, R
    <2> QED  BY <1>2, <1>3, WFMin, FS_StrictSubsetOrderingWellFounded DEF R
  <1>5. PICK x \in T : \A y \in T : ~(<<1 .. y, 1 .. x>> \in R)
    BY <1>4
  <1>6. ASSUME NEW y \in T, y < x PROVE FALSE
    <2>1. 1 .. y \subseteq 1 .. x /\ x \in 1 .. x /\ x \notin 1 .. y
      BY <1>6
    <2>2. 1 .. y \in SUBSET Nat /\ 1 .. x \in SUBSET Nat /\ 1 .. y # 1 .. x
      BY <2>1
    <2> DEFINE a == 1 .. y
               b == 1 .. x
    <2> HIDE DEF a, b
    <2>3. a \in SUBSET Nat /\ b \in SUBSET Nat /\ a # b /\ a \subseteq b
      BY <2>1, <2>2 DEF a, b
    <2>4. <<a, b>> \in R
      BY <2>3 DEF StrictSubsetOrdering
    <2> QED  BY <2>4, <1>5 DEF a, b
  <1> QED  BY <1>6
=============================================================================
