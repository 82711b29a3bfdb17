------------------------ MODULE SerialNumbers_proofs ------------------------
(***************************************************************************)
(* What the comparisons of src/util.rs give for a space of any size, 2^32  *)
(* TSNs and 2^16 SSNs among them: numbers within a window of less than     *)
(* half of the space are ordered as they were assigned, across the wrap,   *)
(* and numbers exactly half of the space apart are not ordered at all.     *)
(***************************************************************************)
EXTENDS SerialNumbers, FiniteSetTheorems, TLAPS

USE HalfAssumption

(* Stepping a number stays in the space, and is undone by the distance. *)
LEMMA PlusMinus ==
  ASSUME NEW t \in Tsn, NEW n \in Tsn
  PROVE  Plus(t, n) \in Tsn /\ Minus(Plus(t, n), t) = n
BY DEF Tsn, Plus, Minus

(* sna32lt asks for the distance, and for nothing else. *)
LEMMA LessIsDistance ==
  ASSUME NEW a \in Tsn, NEW b \in Tsn
  PROVE  sna32lt(a, b) <=> Minus(b, a) \in 1 .. Half - 1
BY DEF Tsn, Minus, sna32lt

(* The numbers of a window that starts anywhere and is shorter than half of *)
(* the space compare as their places in it: every sna32lt of the queues and *)
(* ack points is right across the wrap, while all numbers in use lie in     *)
(* such a window.                                                           *)
THEOREM WindowOrder ==
  ASSUME NEW base \in Tsn, NEW i \in 0 .. Half - 1, NEW j \in 0 .. Half - 1
  PROVE  /\ sna32lt(Plus(base, i), Plus(base, j)) <=> i < j
         /\ sna32gt(Plus(base, i), Plus(base, j)) <=> i > j
BY DEF Tsn, Plus, sna32lt, sna32gt

(* At half of the space the order is lost: neither of two such numbers is   *)
(* less, and each is greater, than the other.  A reader that far behind its *)
(* peer takes new stream sequence numbers for old ones (sna16lt in          *)
(* ReassemblyQueue::push).                                                  *)
THEOREM HalfwayUnordered ==
  ASSUME NEW a \in Tsn
  PROVE  LET b == Plus(a, Half)
         IN  /\ ~sna32lt(a, b) /\ ~sna32lt(b, a)
             /\ sna32gt(a, b) /\ sna32gt(b, a)
BY DEF Tsn, Plus, sna32lt, sna32gt

(* The last TSN of a set is one TSN: the order has no two last elements, so *)
(* that update_sorted_keys leaves a definite TSN at the end.                *)
THEOREM LastUnique ==
  ASSUME NEW S \in SUBSET Tsn, NEW t \in S, \A u \in S : sna32lte(u, t)
  PROVE  LastOf(S) = t
<1>1. /\ LastOf(S) \in S
      /\ \A u \in S : sna32lte(u, LastOf(S))
  BY DEF LastOf
<1>2. sna32lte(t, LastOf(S)) /\ sna32lte(LastOf(S), t)
  BY <1>1
<1>3. \A a, b \in Tsn : sna32lte(a, b) /\ sna32lte(b, a) => a = b
  BY DEF Tsn, sna32lte, sna32lt
<1> QED  BY <1>1, <1>2, <1>3

(* A loop that steps a TSN while the next one is in a queue counts what     *)
(* RunLength says: only one count has all before it in the queue and the    *)
(* next one not.                                                            *)
THEOREM RunLengthUnique ==
  ASSUME NEW t \in Tsn, NEW S \in SUBSET Tsn, NEW k \in Tsn,
         \A j \in 1 .. k : Plus(t, j) \in S,
         Plus(t, k + 1) \notin S
  PROVE  RunLength(t, S) = k
<1> DEFINE r == RunLength(t, S)
<1>1. /\ r \in Tsn
      /\ \A j \in 1 .. r : Plus(t, j) \in S
      /\ Plus(t, r + 1) \notin S
  BY DEF RunLength, Tsn
<1>2. r \in Int /\ k \in Int /\ r >= 0 /\ k >= 0
  BY <1>1 DEF Tsn
<1>3. ~(r < k)
  <2> SUFFICES ASSUME r < k PROVE FALSE
    OBVIOUS
  <2>1. r + 1 \in 1 .. k
    BY <1>2
  <2> QED  BY <1>1, <2>1
<1>4. ~(k < r)
  <2> SUFFICES ASSUME k < r PROVE FALSE
    OBVIOUS
  <2>1. k + 1 \in 1 .. r
    BY <1>2
  <2> QED  BY <1>1, <2>1
<1> QED  BY <1>2, <1>3, <1>4

(* Every number has a place in the space counted from any other. *)
LEMMA PlaceOf ==
  ASSUME NEW base \in Tsn, NEW t \in Tsn
  PROVE  Minus(t, base) \in Tsn /\ Plus(base, Minus(t, base)) = t
BY DEF Tsn, Plus, Minus

(* Places add up, and their distance is the one of the numbers. *)
LEMMA Places ==
  ASSUME NEW base \in Tsn, NEW i \in Nat, NEW j \in Nat, i + j < 2 * Half
  PROVE  /\ Plus(Plus(base, i), j) = Plus(base, i + j)
         /\ Minus(Plus(base, i + j), Plus(base, i)) = j
BY DEF Tsn, Plus, Minus

(* A nonempty set of natural numbers has a least one: the sets 0 .. k for k *)
(* in K are well founded by inclusion.                                      *)
LEMMA LeastNumber ==
  ASSUME NEW K \in SUBSET Nat, K # {}
  PROVE  \E m \in K : \A k \in K : m <= k
<1> DEFINE T == {0 .. k : k \in K}
<1>1. T # {} /\ T \subseteq FiniteSubsetsOf(Nat)
  <2>1. T # {}
    OBVIOUS
  <2>2. ASSUME NEW k \in K PROVE 0 .. k \in FiniteSubsetsOf(Nat)
    <3>1. IsFiniteSet(0 .. k)
      BY FS_Interval
    <3> QED  BY <3>1 DEF FiniteSubsetsOf
  <2> QED  BY <2>1, <2>2
<1>2. PICK x \in T : \A y \in T : ~ (<<y, x>> \in StrictSubsetOrdering(Nat))
  BY <1>1, FS_StrictSubsetOrderingWellFounded, WFMin, Zenon
<1>3. PICK m \in K : x = 0 .. m
  OBVIOUS
<1>4. ASSUME NEW k \in K, k < m PROVE FALSE
  <2>1. m \in 0 .. m /\ m \notin 0 .. k
    BY <1>4
  <2>2. 0 .. k \subseteq 0 .. m /\ 0 .. k # 0 .. m
    BY <1>4, <2>1
  <2>3. <<0 .. k, 0 .. m>> \in StrictSubsetOrdering(Nat)
    BY <2>2 DEF StrictSubsetOrdering
  <2> QED  BY <1>2, <1>3, <2>3
<1> QED  BY <1>4

(* A set of numbers within half of the space has a last one, and LastOf is  *)
(* it.                                                                      *)
LEMMA LastOfWindow ==
  ASSUME NEW base \in Tsn, NEW S, S # {},
         S \subseteq {Plus(base, i) : i \in 0 .. Half - 1}
  PROVE  /\ LastOf(S) \in S
         /\ \A u \in S : Minus(u, base) <= Minus(LastOf(S), base)
<1> DEFINE K == {Half - Minus(u, base) : u \in S}
<1>1. ASSUME NEW u \in S
      PROVE  u \in Tsn /\ Minus(u, base) \in 0 .. Half - 1
                       /\ Plus(base, Minus(u, base)) = u
  <2>1. PICK i \in 0 .. Half - 1 : u = Plus(base, i)
    OBVIOUS
  <2> QED  BY <2>1, PlusMinus DEF Tsn
<1>2. K \in SUBSET Nat /\ K # {}
  BY <1>1
<1>3. PICK m \in K : \A k \in K : m <= k
  BY <1>2, LeastNumber
<1>4. PICK t \in S : m = Half - Minus(t, base)
  OBVIOUS
<1>5. ASSUME NEW u \in S PROVE Minus(u, base) <= Minus(t, base)
  <2>1. Half - Minus(t, base) <= Half - Minus(u, base)
    BY <1>3, <1>4
  <2> QED  BY <1>1, <2>1
<1>6. ASSUME NEW u \in S, NEW v \in S
      PROVE  sna32lte(u, v) <=> Minus(u, base) <= Minus(v, base)
  <2>1. sna32lt(u, v) <=> Minus(u, base) < Minus(v, base)
    BY <1>1, WindowOrder
  <2>2. u = v <=> Minus(u, base) = Minus(v, base)
    BY <1>1
  <2> QED  BY <1>1, <2>1, <2>2 DEF sna32lte
<1>7. \A u \in S : sna32lte(u, t)
  BY <1>5, <1>6
<1>8. LastOf(S) \in S /\ \A u \in S : sna32lte(u, LastOf(S))
  BY <1>7 DEF LastOf
<1> QED  BY <1>6, <1>8

(* A run of numbers in a window ends in it, where the next one is missing.  *)
LEMMA RunInWindow ==
  ASSUME NEW base \in Tsn, NEW m \in Nat, m + 1 < 2 * Half, NEW i \in 0 .. m,
         NEW S, S \subseteq {Plus(base, j) : j \in 0 .. m}
  PROVE  LET r == RunLength(Plus(base, i), S)
         IN  /\ r \in 0 .. m - i
             /\ \A j \in 1 .. r : Plus(base, i + j) \in S
             /\ Plus(base, i + r + 1) \notin S
<1> DEFINE K == {k \in Nat : k <= m - i /\ Plus(base, i + k + 1) \notin S}
<1>1. Plus(base, m + 1) \notin S
  <2> SUFFICES ASSUME NEW j \in 0 .. m, Plus(base, m + 1) = Plus(base, j) PROVE FALSE
    OBVIOUS
  <2> QED  BY DEF Plus, Tsn
<1>2. m - i \in K
  BY <1>1
<1>3. PICK k \in K : \A h \in K : k <= h
  BY <1>2, LeastNumber
<1>4. ASSUME NEW j \in 1 .. k PROVE Plus(base, i + j) \in S
  <2>1. j - 1 \in Nat /\ j - 1 <= m - i /\ j - 1 < k
    OBVIOUS
  <2>2. j - 1 \notin K
    BY <1>3, <2>1
  <2> QED  BY <2>1, <2>2
<1>5. \A j \in 0 .. m - i + 1 : Plus(Plus(base, i), j) = Plus(base, i + j)
  BY Places
<1>6. RunLength(Plus(base, i), S) = k
  <2>1. Plus(base, i) \in Tsn /\ k \in Tsn
    BY PlusMinus DEF Tsn
  <2>2. S \in SUBSET Tsn
    BY PlusMinus DEF Tsn
  <2>3. \A j \in 1 .. k : Plus(Plus(base, i), j) \in S
    BY <1>4, <1>5
  <2>4. Plus(Plus(base, i), k + 1) \notin S
    BY <1>5
  <2> QED  BY <2>1, <2>2, <2>3, <2>4, RunLengthUnique
<1> QED  BY <1>4, <1>6
=============================================================================
