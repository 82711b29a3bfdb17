------------------------ MODULE OutboundQueue_proofs ------------------------
(***************************************************************************)
(* What the operations of the outbound queue do to a queue of any length:  *)
(* they keep it well formed, give out TSNs one after the other, and make   *)
(* no chunk of a message that was not there.                               *)
(***************************************************************************)
EXTENDS OutboundQueue, SerialNumbers_proofs, SequenceTheorems

USE HalfAssumption, QueueAssumption

Policies == {"reliable", "timed", "rexmit"}

\* A chunk without a TSN
Pending ==
  [message_id: Nat, frag: Nat, stream: Streams, ssn: Int, unordered: BOOLEAN,
   policy: Policies, beginning: BOOLEAN, ending: BOOLEAN]

\* A chunk with one
Flying ==
  [message_id: Nat, stream: Streams, ssn: Int, unordered: BOOLEAN,
   policy: Policies, acked: BOOLEAN, abandoned: BOOLEAN, retransmit: BOOLEAN,
   nsent: Nat, miss: Nat]

Queues ==
  [ordered_queue: Seq(Pending), unordered_queue: Seq(Pending),
   selected: {"none", "ordered", "unordered"},
   inflight: UNION {[T -> Flying] : T \in SUBSET Tsn}, my_next_tsn: Tsn,
   next_message_id: Nat, rwnd: Nat, buffered_amount: [Streams -> Int],
   sequence_number: [Streams -> Int]]

-----------------------------------------------------------------------------
(* Selecting chunks of a queue.                                            *)

(* Of a finite set of positions, every number below its size is how many    *)
(* positions come before some position: the choices in retain exist.        *)
LEMMA NthPosition ==
  ASSUME NEW P \in SUBSET Nat, IsFiniteSet(P), NEW k \in 1 .. Cardinality(P)
  PROVE  \E i \in P : Cardinality({j \in P : j < i}) = k - 1
<1> DEFINE Below(i) == {j \in P : j < i}
           N == Cardinality(P)
           Wrong(h) == \A i \in P : Cardinality(Below(i)) # h - 1
           K == {h \in 1 .. N : Wrong(h)}
<1>1. N \in Nat
  BY FS_CardinalityType
<1>2. \A i \in P : IsFiniteSet(Below(i)) /\ i \notin Below(i)
  BY FS_Subset
<1>3. P # {}
  <2>1. N # 0
    BY <1>1
  <2> QED  BY <2>1, FS_EmptySet
<1>4. ~Wrong(1)
  <2>1. PICK i \in P : \A j \in P : i <= j
    BY <1>3, LeastNumber
  <2>2. \A j \in P : ~(j < i)
    BY <2>1
  <2>3. Below(i) = {}
    BY <2>2
  <2>4. Cardinality(Below(i)) = 0
    BY <2>3, FS_EmptySet
  <2> QED  BY <2>4
<1>5. ASSUME NEW h \in 1 .. N, h + 1 <= N, ~Wrong(h) PROVE ~Wrong(h + 1)
  <2>1. PICK i \in P : Cardinality(Below(i)) = h - 1
    BY <1>5
  <2> DEFINE Above == {j \in P : j > i}
             Upto == Below(i) \cup {i}
  <2>2. Cardinality(Upto) = h
    <3>1. Cardinality(Upto) = Cardinality(Below(i)) + 1
      BY <1>2, FS_AddElement
    <3> QED  BY <2>1, <3>1
  <2>3. Above # {}
    <3> SUFFICES ASSUME Above = {} PROVE FALSE
      OBVIOUS
    <3>1. ASSUME NEW j \in P PROVE j \in Upto
      <4>1. ~(j > i)
        OBVIOUS
      <4>2. j < i \/ j = i
        BY <4>1
      <4> QED  BY <4>2
    <3>2. P = Upto
      BY <3>1
    <3> QED  BY <1>1, <1>5, <2>2, <3>2
  <2>4. PICK n \in Above : \A j \in Above : n <= j
    BY <2>3, LeastNumber
  <2>5. ASSUME NEW j \in P PROVE j < n <=> j < i \/ j = i
    <3>1. j > i => n <= j
      BY <2>4
    <3> QED  BY <3>1
  <2>6. Below(n) = Upto
    BY <2>5
  <2>7. Cardinality(Below(n)) = (h + 1) - 1
    BY <2>2, <2>6
  <2> QED  BY <2>7
<1> HIDE DEF Wrong
<1>6. K = {}
  <2> SUFFICES ASSUME K # {} PROVE FALSE
    OBVIOUS
  <2>1. K \in SUBSET Nat
    OBVIOUS
  <2>2. PICK h \in K : \A g \in K : h <= g
    BY <2>1, LeastNumber
  <2>3. h # 1
    BY <1>4
  <2>4. h - 1 \in 1 .. N /\ (h - 1) + 1 = h /\ ~(h <= h - 1)
    BY <1>1, <2>3
  <2>5. ~Wrong(h - 1)
    BY <2>2, <2>4
  <2> QED  BY <1>5, <2>4, <2>5
<1>7. ~Wrong(k)
  BY <1>6
<1> QED  BY <1>7 DEF Wrong

(* retain gives a queue of the chunks at the positions. *)
LEMMA RetainedChunks ==
  ASSUME NEW S, NEW s \in Seq(S), NEW P \in SUBSET DOMAIN s
  PROVE  /\ retain(s, P) \in Seq(S)
         /\ \A k \in DOMAIN retain(s, P) : \E i \in P : retain(s, P)[k] = s[i]
<1>1. DOMAIN s = 1 .. Len(s) /\ Len(s) \in Nat /\ \A i \in DOMAIN s : s[i] \in S
  BY LenProperties, ElementOfSeq
<1>2. IsFiniteSet(P) /\ P \in SUBSET Nat
  <2>1. IsFiniteSet(DOMAIN s) /\ DOMAIN s \in SUBSET Nat
    BY <1>1, FS_Interval
  <2> QED  BY <2>1, FS_Subset
<1> DEFINE n == Cardinality(P)
           at(k) == CHOOSE i \in P : Cardinality({j \in P : j < i}) = k - 1
<1>3. n \in Nat
  BY <1>2, FS_CardinalityType
<1>4. ASSUME NEW k \in 1 .. n PROVE at(k) \in P
  BY <1>2, NthPosition
<1>5. retain(s, P) = [k \in 1 .. n |-> s[at(k)]]
  BY DEF retain
<1> HIDE DEF n, at
<1>6. retain(s, P) \in [1 .. n -> S]
  BY <1>1, <1>4, <1>5
<1>7. retain(s, P) \in Seq(S)
  BY <1>3, <1>6, SeqDef
<1> QED  BY <1>4, <1>5, <1>7

(* The message and the policy of every chunk of a queue or a flight. *)
KindsIn(s) == {<<s[i].message_id, s[i].policy>> : i \in DOMAIN s}

Kinds(q) ==
  KindsIn(q.ordered_queue) \cup KindsIn(q.unordered_queue) \cup KindsIn(q.inflight)

(* What only and without keep of a queue are chunks of that queue.          *)
LEMMA SelectedChunks ==
  ASSUME NEW s \in Seq(Pending), NEW M
  PROVE  /\ only(s, M) \in Seq(Pending) /\ without(s, M) \in Seq(Pending)
         /\ KindsIn(only(s, M)) \subseteq KindsIn(s)
         /\ KindsIn(without(s, M)) \subseteq KindsIn(s)
         /\ \A k \in DOMAIN only(s, M) : only(s, M)[k].message_id \in M
<1>1. ChunksOf(s, M) \in SUBSET DOMAIN s /\ DOMAIN s \ ChunksOf(s, M) \in SUBSET DOMAIN s
  BY DEF ChunksOf
<1>2. /\ only(s, M) \in Seq(Pending)
      /\ \A k \in DOMAIN only(s, M) : \E i \in ChunksOf(s, M) : only(s, M)[k] = s[i]
  BY <1>1, RetainedChunks DEF only
<1>3. /\ without(s, M) \in Seq(Pending)
      /\ \A k \in DOMAIN without(s, M) :
           \E i \in DOMAIN s \ ChunksOf(s, M) : without(s, M)[k] = s[i]
  <2> DEFINE P == DOMAIN s \ ChunksOf(s, M)
  <2>1. without(s, M) = retain(s, P)
    BY DEF without
  <2>2. P \in SUBSET DOMAIN s
    OBVIOUS
  <2> HIDE DEF P
  <2>3. /\ retain(s, P) \in Seq(Pending)
        /\ \A k \in DOMAIN retain(s, P) : \E i \in P : retain(s, P)[k] = s[i]
    BY <2>2, RetainedChunks
  <2> QED  BY <2>1, <2>3 DEF P
<1>4. KindsIn(only(s, M)) \subseteq KindsIn(s)
  BY <1>1, <1>2 DEF KindsIn
<1>5. KindsIn(without(s, M)) \subseteq KindsIn(s)
  BY <1>1, <1>3 DEF KindsIn
<1>6. \A k \in DOMAIN only(s, M) : only(s, M)[k].message_id \in M
  BY <1>2 DEF ChunksOf
<1> QED  BY <1>2, <1>3, <1>4, <1>5, <1>6

(* The chunks of two queues joined are those of either.                     *)
LEMMA JoinedChunks ==
  ASSUME NEW s \in Seq(Pending), NEW t \in Seq(Pending)
  PROVE  s \o t \in Seq(Pending) /\ KindsIn(s \o t) \subseteq KindsIn(s) \cup KindsIn(t)
<1>1. s \o t \in Seq(Pending)
  BY ConcatProperties
<1>2. ASSUME NEW i \in DOMAIN (s \o t)
      PROVE  \/ \E j \in DOMAIN s : (s \o t)[i] = s[j]
             \/ \E j \in DOMAIN t : (s \o t)[i] = t[j]
  OBVIOUS
<1> QED  BY <1>1, <1>2 DEF KindsIn

(* The order of sending has the chunks of the two pending queues. *)
LEMMA InOrderChunks ==
  ASSUME NEW q \in Queues
  PROVE  /\ InOrder(q) \in Seq(Pending)
         /\ KindsIn(InOrder(q))
              \subseteq KindsIn(q.ordered_queue) \cup KindsIn(q.unordered_queue)
<1> DEFINE o == q.ordered_queue
           u == q.unordered_queue
           M == {Head(o).message_id}
<1>1. o \in Seq(Pending) /\ u \in Seq(Pending)
  BY DEF Queues
<1>2. /\ only(o, M) \in Seq(Pending) /\ without(o, M) \in Seq(Pending)
      /\ KindsIn(only(o, M)) \subseteq KindsIn(o)
      /\ KindsIn(without(o, M)) \subseteq KindsIn(o)
  BY <1>1, SelectedChunks
<1>3. InOrder(q) = IF q.selected = "ordered"
                   THEN only(o, M) \o u \o without(o, M) ELSE u \o o
  BY DEF InOrder
<1> HIDE DEF o, u, M
<1>4. /\ only(o, M) \o u \in Seq(Pending)
      /\ KindsIn(only(o, M) \o u) \subseteq KindsIn(o) \cup KindsIn(u)
  BY <1>1, <1>2, JoinedChunks
<1>5. /\ only(o, M) \o u \o without(o, M) \in Seq(Pending)
      /\ KindsIn(only(o, M) \o u \o without(o, M)) \subseteq KindsIn(o) \cup KindsIn(u)
  BY <1>2, <1>4, JoinedChunks
<1>6. u \o o \in Seq(Pending) /\ KindsIn(u \o o) \subseteq KindsIn(o) \cup KindsIn(u)
  BY <1>1, JoinedChunks
<1>7. /\ InOrder(q) \in Seq(Pending)
      /\ KindsIn(InOrder(q)) \subseteq KindsIn(o) \cup KindsIn(u)
  BY <1>3, <1>5, <1>6
<1> QED  BY <1>7 DEF o, u

-----------------------------------------------------------------------------
(* The operations.                                                         *)

\* What never changes along with the flight
SameBut(r, q) ==
  r.next_message_id = q.next_message_id /\ Kinds(r) \subseteq Kinds(q)

(* Sets of TSNs are finite, and so are the positions of a queue. *)
LEMMA FiniteParts ==
  /\ \A T \in SUBSET Tsn : IsFiniteSet(T) /\ Cardinality(T) \in Nat
  /\ \A s \in Seq(Pending) : \A P \in SUBSET DOMAIN s :
       IsFiniteSet(P) /\ Cardinality(P) \in Nat
<1>1. IsFiniteSet(Tsn)
  BY FS_Interval DEF Tsn
<1>2. ASSUME NEW T \in SUBSET Tsn PROVE IsFiniteSet(T) /\ Cardinality(T) \in Nat
  BY <1>1, FS_Subset, FS_CardinalityType
<1>3. ASSUME NEW s \in Seq(Pending), NEW P \in SUBSET DOMAIN s
      PROVE  IsFiniteSet(P) /\ Cardinality(P) \in Nat
  <2>1. IsFiniteSet(DOMAIN s)
    BY LenProperties, FS_Interval
  <2> QED  BY <2>1, FS_Subset, FS_CardinalityType
<1> QED  BY <1>2, <1>3

(* Releasing payload changes the buffered amounts only. *)
LEMMA BufferReleased ==
  ASSUME NEW q \in Queues, NEW released \in [Streams -> Int]
  PROVE  LET r == on_buffer_released(q, released)
         IN  /\ r \in Queues
             /\ r.ordered_queue = q.ordered_queue
             /\ r.unordered_queue = q.unordered_queue
             /\ r.inflight = q.inflight /\ r.my_next_tsn = q.my_next_tsn
             /\ r.next_message_id = q.next_message_id /\ r.rwnd = q.rwnd
<1> DEFINE amount == [s \in Streams |-> Less(q.buffered_amount[s], released[s])]
<1>1. amount \in [Streams -> Int]
  BY DEF Less, Queues
<1>2. on_buffer_released(q, released) = [q EXCEPT !.buffered_amount = amount]
  BY DEF on_buffer_released
<1> HIDE DEF amount
<1> QED  BY <1>1, <1>2 DEF Queues

(* Abandoning messages marks their chunks in flight, and gives at most one  *)
(* TSN, the next, to the end of a message that is partly sent.              *)
LEMMA AbandonedFlight ==
  ASSUME NEW q \in Queues, NEW M, q.my_next_tsn \notin DOMAIN q.inflight
  PROVE  LET r == abandon(q, M)
             new == DOMAIN r.inflight \ DOMAIN q.inflight
         IN  /\ r \in Queues /\ SameBut(r, q)
             /\ r.rwnd = q.rwnd
             /\ DOMAIN q.inflight \subseteq DOMAIN r.inflight
             /\ \A t \in DOMAIN q.inflight :
                  /\ r.inflight[t].acked = q.inflight[t].acked
                  /\ r.inflight[t].message_id = q.inflight[t].message_id
                  /\ r.inflight[t].policy = q.inflight[t].policy
                  /\ r.inflight[t].abandoned =
                       (q.inflight[t].abandoned \/ q.inflight[t].message_id \in M)
             /\ \/ new = {} /\ r.my_next_tsn = q.my_next_tsn
                \/ new = {q.my_next_tsn} /\ r.my_next_tsn = Plus(q.my_next_tsn, 1)
             /\ \A t \in new : /\ ~r.inflight[t].acked
                               /\ r.inflight[t].message_id \in M
<1> DEFINE f == q.inflight
           tail == only(InOrder(q), M)
           flight == [t \in DOMAIN f |->
                        IF f[t].message_id \in M
                        THEN [f[t] EXCEPT !.abandoned = TRUE, !.retransmit = FALSE]
                        ELSE f[t]]
           released == [s \in Streams |->
             Cardinality({t \in DOMAIN f :
                            f[t].message_id \in M /\ Outstanding(f[t]) /\ f[t].stream = s})
               + Cardinality({i \in DOMAIN tail : tail[i].stream = s})]
           longer == [t \in DOMAIN flight \cup {q.my_next_tsn} |->
                        IF t = q.my_next_tsn
                        THEN Terminal(tail[Len(tail)]) ELSE flight[t]]
           marked ==
             IF tail = <<>> THEN [q EXCEPT !.inflight = flight]
             ELSE [q EXCEPT
               !.inflight = longer,
               !.my_next_tsn = Plus(@, 1),
               !.selected = IF InOrder(q)[1].message_id \in M THEN "none" ELSE @,
               !.ordered_queue = without(@, M),
               !.unordered_queue = without(@, M)]
<1>1. abandon(q, M) = on_buffer_released(marked, released)
  BY DEF abandon
<1>2. /\ f \in [DOMAIN f -> Flying] /\ DOMAIN f \in SUBSET Tsn
      /\ q.ordered_queue \in Seq(Pending) /\ q.unordered_queue \in Seq(Pending)
      /\ q.my_next_tsn \in Tsn
  BY DEF Queues
<1>3. /\ tail \in Seq(Pending)
      /\ KindsIn(tail) \subseteq KindsIn(q.ordered_queue) \cup KindsIn(q.unordered_queue)
      /\ \A k \in DOMAIN tail : tail[k].message_id \in M
  <2>1. InOrder(q) \in Seq(Pending)
    BY InOrderChunks
  <2> QED  BY <2>1, InOrderChunks, SelectedChunks
<1>4. released \in [Streams -> Int]
  <2>1. ASSUME NEW s \in Streams
        PROVE  /\ Cardinality({t \in DOMAIN f : f[t].message_id \in M
                                 /\ Outstanding(f[t]) /\ f[t].stream = s}) \in Nat
               /\ Cardinality({i \in DOMAIN tail : tail[i].stream = s}) \in Nat
    <3>1. {t \in DOMAIN f : f[t].message_id \in M
                              /\ Outstanding(f[t]) /\ f[t].stream = s} \in SUBSET Tsn
      BY <1>2
    <3>2. {i \in DOMAIN tail : tail[i].stream = s} \in SUBSET DOMAIN tail
      OBVIOUS
    <3> QED  BY <1>3, <3>1, <3>2, FiniteParts
  <2> QED  BY <2>1
<1>5. /\ flight \in [DOMAIN f -> Flying]
      /\ \A t \in DOMAIN f :
           /\ flight[t].acked = f[t].acked
           /\ flight[t].message_id = f[t].message_id
           /\ flight[t].policy = f[t].policy
           /\ flight[t].abandoned = (f[t].abandoned \/ f[t].message_id \in M)
  <2>1. ASSUME NEW t \in DOMAIN f
        PROVE  /\ flight[t] \in Flying
               /\ flight[t].acked = f[t].acked
               /\ flight[t].message_id = f[t].message_id
               /\ flight[t].policy = f[t].policy
               /\ flight[t].abandoned = (f[t].abandoned \/ f[t].message_id \in M)
    <3>1. f[t] \in Flying
      BY <1>2
    <3>2. flight[t] = IF f[t].message_id \in M
                      THEN [f[t] EXCEPT !.abandoned = TRUE, !.retransmit = FALSE]
                      ELSE f[t]
      OBVIOUS
    <3> HIDE DEF f, flight
    <3> QED  BY <3>1, <3>2 DEF Flying
  <2> QED  BY <2>1
<1>6. KindsIn(flight) \subseteq KindsIn(f)
  BY <1>5 DEF KindsIn
<1>7. tail # <<>> =>
        /\ longer \in [DOMAIN f \cup {q.my_next_tsn} -> Flying]
        /\ \A t \in DOMAIN f : longer[t] = flight[t]
        /\ ~longer[q.my_next_tsn].acked
        /\ longer[q.my_next_tsn].message_id \in M
        /\ KindsIn(longer) \subseteq Kinds(q)
  <2> SUFFICES ASSUME tail # <<>>
               PROVE  /\ longer \in [DOMAIN f \cup {q.my_next_tsn} -> Flying]
                      /\ \A t \in DOMAIN f : longer[t] = flight[t]
                      /\ ~longer[q.my_next_tsn].acked
                      /\ longer[q.my_next_tsn].message_id \in M
                      /\ KindsIn(longer) \subseteq Kinds(q)
    OBVIOUS
  <2> DEFINE c == tail[Len(tail)]
  <2>1. Len(tail) \in DOMAIN tail /\ c \in Pending
    BY <1>3, EmptySeq, LenProperties, ElementOfSeq
  <2>2. /\ Terminal(c) \in Flying /\ ~Terminal(c).acked
        /\ Terminal(c).message_id = c.message_id /\ Terminal(c).policy = c.policy
    <3> HIDE DEF c
    <3> QED  BY <2>1 DEF Terminal, Launched, Flying, Pending
  <2>3. /\ DOMAIN longer = DOMAIN f \cup {q.my_next_tsn}
        /\ longer[q.my_next_tsn] = Terminal(c)
        /\ \A t \in DOMAIN f : longer[t] = flight[t]
    <3>1. \A t \in DOMAIN f : t # q.my_next_tsn
      OBVIOUS
    <3>2. DOMAIN flight = DOMAIN f
      OBVIOUS
    <3> QED  BY <3>1, <3>2
  <2>4. longer \in [DOMAIN f \cup {q.my_next_tsn} -> Flying]
    BY <1>5, <2>2, <2>3
  <2>5. <<c.message_id, c.policy>> \in KindsIn(tail)
    BY <2>1 DEF KindsIn
  <2>6. KindsIn(longer) \subseteq Kinds(q)
    <3> SUFFICES ASSUME NEW t \in DOMAIN longer
                 PROVE  <<longer[t].message_id, longer[t].policy>> \in Kinds(q)
      BY DEF KindsIn
    <3> HIDE DEF longer, tail, c
    <3>1. CASE t \in DOMAIN f
      <4>1. <<longer[t].message_id, longer[t].policy>> = <<f[t].message_id, f[t].policy>>
        BY <1>5, <2>3, <3>1
      <4> QED  BY <3>1, <4>1 DEF Kinds, KindsIn
    <3>2. CASE t = q.my_next_tsn
      BY <1>3, <2>2, <2>3, <2>5, <3>2 DEF Kinds
    <3> QED  BY <2>3, <3>1, <3>2
  <2> QED  BY <1>3, <2>1, <2>2, <2>3, <2>4, <2>6
<1>8. /\ without(q.ordered_queue, M) \in Seq(Pending)
      /\ without(q.unordered_queue, M) \in Seq(Pending)
      /\ KindsIn(without(q.ordered_queue, M)) \subseteq Kinds(q)
      /\ KindsIn(without(q.unordered_queue, M)) \subseteq Kinds(q)
  BY <1>2, SelectedChunks DEF Kinds
<1>9. /\ marked \in Queues
      /\ marked.next_message_id = q.next_message_id /\ marked.rwnd = q.rwnd
      /\ marked.inflight = IF tail = <<>> THEN flight ELSE longer
      /\ marked.my_next_tsn = IF tail = <<>> THEN q.my_next_tsn ELSE Plus(q.my_next_tsn, 1)
      /\ KindsIn(marked.ordered_queue) \subseteq Kinds(q)
      /\ KindsIn(marked.unordered_queue) \subseteq Kinds(q)
  <2>1. Plus(q.my_next_tsn, 1) \in Tsn
    <3>1. 1 \in Tsn
      BY DEF Tsn
    <3> QED  BY <1>2, <3>1, PlusMinus
  <2>2. /\ KindsIn(q.ordered_queue) \subseteq Kinds(q)
        /\ KindsIn(q.unordered_queue) \subseteq Kinds(q)
    BY DEF Kinds
  <2>3. CASE tail = <<>>
    <3>1. marked = [q EXCEPT !.inflight = flight]
      BY <2>3
    <3>2. flight \in UNION {[T -> Flying] : T \in SUBSET Tsn}
      BY <1>2, <1>5
    <3> HIDE DEF marked, flight, tail
    <3> QED  BY <2>2, <2>3, <3>1, <3>2 DEF Queues
  <2>4. CASE tail # <<>>
    <3> DEFINE sel == IF InOrder(q)[1].message_id \in M THEN "none" ELSE q.selected
    <3>1. marked = [q EXCEPT !.inflight = longer, !.my_next_tsn = Plus(q.my_next_tsn, 1),
                             !.selected = sel,
                             !.ordered_queue = without(q.ordered_queue, M),
                             !.unordered_queue = without(q.unordered_queue, M)]
      BY <2>4
    <3>2. longer \in UNION {[T -> Flying] : T \in SUBSET Tsn}
      <4>1. DOMAIN f \cup {q.my_next_tsn} \in SUBSET Tsn
        BY <1>2
      <4>2. longer \in [DOMAIN f \cup {q.my_next_tsn} -> Flying]
        BY <1>7, <2>4
      <4> HIDE DEF f, longer
      <4> QED  BY <4>1, <4>2
    <3>3. sel \in {"none", "ordered", "unordered"}
      BY DEF Queues
    <3> HIDE DEF marked, longer, tail, sel
    <3> QED  BY <1>8, <2>1, <2>4, <3>1, <3>2, <3>3 DEF Queues
  <2> QED  BY <2>3, <2>4
<1>10. KindsIn(marked.inflight) \subseteq Kinds(q)
  BY <1>6, <1>7, <1>9 DEF Kinds
<1> DEFINE r == abandon(q, M)
<1> HIDE DEF tail, flight, released, longer, marked
<1>11. /\ r \in Queues /\ r.rwnd = q.rwnd
       /\ r.inflight = marked.inflight /\ r.my_next_tsn = marked.my_next_tsn
       /\ r.next_message_id = q.next_message_id
       /\ r.ordered_queue = marked.ordered_queue
       /\ r.unordered_queue = marked.unordered_queue
  BY <1>1, <1>4, <1>9, BufferReleased
<1>12. SameBut(r, q)
  BY <1>9, <1>10, <1>11 DEF SameBut, Kinds
<1> HIDE DEF r
<1>13. CASE tail = <<>>
  <2>1. r.inflight = flight /\ r.my_next_tsn = q.my_next_tsn /\ DOMAIN r.inflight = DOMAIN f
    BY <1>5, <1>9, <1>11, <1>13
  <2> QED  BY <1>5, <1>11, <1>12, <2>1 DEF r
<1>14. CASE tail # <<>>
  <2>1. /\ r.inflight = longer /\ r.my_next_tsn = Plus(q.my_next_tsn, 1)
        /\ DOMAIN r.inflight = DOMAIN f \cup {q.my_next_tsn}
    BY <1>7, <1>9, <1>11, <1>14
  <2>2. DOMAIN r.inflight \ DOMAIN f = {q.my_next_tsn}
    BY <2>1
  <2> QED  BY <1>5, <1>7, <1>11, <1>12, <1>14, <2>1, <2>2 DEF r
<1> QED  BY <1>13, <1>14

(* Sending chunks again changes the marks of the flight only. *)
LEMMA ResentFlight ==
  ASSUME NEW q \in Queues, NEW resent, NEW fast
  PROVE  LET r == Resent(q, resent, fast)
         IN  /\ r \in Queues /\ SameBut(r, q)
             /\ r.rwnd = q.rwnd /\ r.my_next_tsn = q.my_next_tsn
             /\ DOMAIN r.inflight = DOMAIN q.inflight
             /\ \A t \in DOMAIN q.inflight :
                  /\ r.inflight[t].acked = q.inflight[t].acked
                  /\ r.inflight[t].abandoned = q.inflight[t].abandoned
                  /\ r.inflight[t].message_id = q.inflight[t].message_id
                  /\ r.inflight[t].policy = q.inflight[t].policy
<1> DEFINE f == q.inflight
           flight == [t \in DOMAIN f |->
             IF t \in resent \cup fast
             THEN [f[t] EXCEPT !.nsent = Min2(@ + 1, NsentCap),
                               !.retransmit = @ /\ t \notin resent]
             ELSE f[t]]
           r == Resent(q, resent, fast)
<1>1. r = [q EXCEPT !.inflight = flight]
  BY DEF Resent
<1>2. f \in [DOMAIN f -> Flying] /\ DOMAIN f \in SUBSET Tsn
  BY DEF Queues
<1>3. ASSUME NEW t \in DOMAIN f
      PROVE  /\ flight[t] \in Flying
             /\ flight[t].acked = f[t].acked
             /\ flight[t].abandoned = f[t].abandoned
             /\ flight[t].message_id = f[t].message_id
             /\ flight[t].policy = f[t].policy
  <2> DEFINE c == f[t]
             n == Min2(c.nsent + 1, NsentCap)
             again == (c.retransmit /\ t \notin resent)
  <2>1. c \in Flying
    BY <1>2
  <2>2. n \in Nat /\ again \in BOOLEAN
    BY <2>1 DEF Min2, NsentCap, Flying
  <2>3. flight[t] = IF t \in resent \cup fast
                    THEN [c EXCEPT !.nsent = n, !.retransmit = again] ELSE c
    OBVIOUS
  <2>4. /\ flight[t] \in Flying
        /\ flight[t].acked = c.acked
        /\ flight[t].abandoned = c.abandoned
        /\ flight[t].message_id = c.message_id
        /\ flight[t].policy = c.policy
    <3> HIDE DEF flight, c, n, again
    <3> QED  BY <2>1, <2>2, <2>3 DEF Flying
  <2> QED  BY <2>4
<1>4. DOMAIN flight = DOMAIN f /\ flight \in [DOMAIN f -> Flying]
  BY <1>3
<1>5. KindsIn(flight) \subseteq KindsIn(f)
  BY <1>3, <1>4 DEF KindsIn
<1> HIDE DEF flight, r
<1>6. flight \in UNION {[T -> Flying] : T \in SUBSET Tsn}
  BY <1>2, <1>4
<1>7. /\ r \in Queues /\ r.inflight = flight /\ r.my_next_tsn = q.my_next_tsn
      /\ r.rwnd = q.rwnd /\ r.next_message_id = q.next_message_id
      /\ r.ordered_queue = q.ordered_queue /\ r.unordered_queue = q.unordered_queue
  BY <1>1, <1>6 DEF Queues
<1>8. SameBut(r, q)
  BY <1>5, <1>7 DEF SameBut, Kinds
<1> QED  BY <1>3, <1>4, <1>7, <1>8 DEF r

(* How many chunks are sent is a number within both the window and what is  *)
(* there to send.                                                           *)
LEMMA SendingBounds ==
  ASSUME NEW q \in Queues, NEW n \in Nat, NEW cwnd \in Nat \ {0}
  PROVE  /\ Fitting(q, n, cwnd) \in 0 .. q.rwnd
         /\ Sending(q, n, cwnd) \in 0 .. n /\ Sending(q, n, cwnd) <= cwnd
<1>1. inflight_bytes(q) \in Nat
  <2>1. {t \in DOMAIN q.inflight : Outstanding(q.inflight[t])} \in SUBSET Tsn
    BY DEF Queues
  <2> QED  BY <2>1, FiniteParts DEF inflight_bytes
<1>2. Less(cwnd, inflight_bytes(q)) \in 0 .. cwnd
  BY <1>1 DEF Less
<1>3. q.rwnd \in Nat
  BY DEF Queues
<1>4. Fitting(q, n, cwnd) \in Nat /\ Fitting(q, n, cwnd) <= q.rwnd
      /\ Fitting(q, n, cwnd) <= n /\ Fitting(q, n, cwnd) <= cwnd
  BY <1>2, <1>3 DEF Fitting, Min2
<1> QED  BY <1>3, <1>4 DEF Sending

(* Popping pending chunks gives the next TSNs to them, one after the other, *)
(* and leaves the flight as it is.                                          *)
LEMMA PoppedChunks ==
  ASSUME NEW q \in Queues, NEW expired, NEW cwnd \in 1 .. Half - 1
  PROVE  LET r == pop_pending_data_chunks_to_send(q, expired, cwnd)
         IN  \E n \in 0 .. cwnd :
               LET new == {Plus(q.my_next_tsn, i - 1) : i \in 1 .. n}
               IN  /\ r \in Queues /\ SameBut(r, q)
                   /\ r.my_next_tsn = Plus(q.my_next_tsn, n)
                   /\ DOMAIN r.inflight = DOMAIN q.inflight \cup new
                   /\ \A t \in DOMAIN q.inflight \ new : r.inflight[t] = q.inflight[t]
                   /\ \A t \in new : ~r.inflight[t].acked /\ ~r.inflight[t].abandoned
<1> DEFINE order == InOrder(q)
           late == LateMessages(order, expired)
           live == without(order, late)
           n == Sending(q, Len(live), cwnd)
           fit == Fitting(q, Len(live), cwnd)
           drop == Dropped(order, late, fit)
           gone == {order[i].message_id : i \in drop}
           compact(c) == compact_ordered_ssns(order, drop, c)
           stays(c) == /\ c.message_id \notin gone
                       /\ \A i \in 1 .. n : live[i] # c
           kept(queue) == retain(queue, {i \in DOMAIN queue : stays(queue[i])})
           rest(queue) == [i \in DOMAIN kept(queue) |-> compact(kept(queue)[i])]
           new == {Plus(q.my_next_tsn, i - 1) : i \in 1 .. n}
           sel == IF n = 0 THEN q.selected
                  ELSE IF live[n].ending THEN "none"
                  ELSE IF live[n].unordered THEN "unordered" ELSE "ordered"
           flight == [t \in DOMAIN q.inflight \cup new |->
                        IF t \in new
                        THEN Launched(compact(live[Minus(t, q.my_next_tsn) + 1]))
                        ELSE q.inflight[t]]
           numbers == [s \in Streams |-> q.sequence_number[s] - Cardinality(
                         {i \in drop : ~order[i].unordered /\ order[i].stream = s})]
           sent == [q EXCEPT
             !.ordered_queue = rest(q.ordered_queue),
             !.unordered_queue = rest(q.unordered_queue),
             !.selected = sel, !.inflight = flight,
             !.my_next_tsn = Plus(q.my_next_tsn, n),
             !.rwnd = q.rwnd - fit, !.sequence_number = numbers]
           released == [s \in Streams |-> Cardinality(
             {i \in DOMAIN order : order[i].message_id \in gone /\ order[i].stream = s})]
           r == pop_pending_data_chunks_to_send(q, expired, cwnd)
<1>1. r = on_buffer_released(sent, released)
  BY DEF pop_pending_data_chunks_to_send
<1>2. /\ order \in Seq(Pending) /\ KindsIn(order) \subseteq Kinds(q)
      /\ q.ordered_queue \in Seq(Pending) /\ q.unordered_queue \in Seq(Pending)
      /\ q.my_next_tsn \in Tsn /\ q.rwnd \in Nat
      /\ DOMAIN q.inflight \in SUBSET Tsn
      /\ q.inflight \in [DOMAIN q.inflight -> Flying]
  BY InOrderChunks DEF Kinds, Queues
<1>3. live \in Seq(Pending) /\ KindsIn(live) \subseteq Kinds(q) /\ Len(live) \in Nat
  BY <1>2, SelectedChunks, LenProperties
<1>4. n \in 0 .. cwnd /\ n <= Len(live) /\ fit \in 0 .. q.rwnd
  <2>1. cwnd \in Nat \ {0}
    OBVIOUS
  <2> HIDE DEF live
  <2>2. n \in 0 .. Len(live) /\ n <= cwnd /\ fit \in 0 .. q.rwnd
    BY <1>3, <2>1, SendingBounds
  <2> QED  BY <1>3, <2>1, <2>2
<1>5. drop \in SUBSET DOMAIN order
  BY DEF Dropped
<1>6. ASSUME NEW c \in Pending
      PROVE  /\ compact(c) \in Pending
             /\ compact(c).message_id = c.message_id /\ compact(c).policy = c.policy
  <2> DEFINE before == {i \in drop : /\ ~order[i].unordered
                                     /\ order[i].stream = c.stream
                                     /\ order[i].message_id < c.message_id}
  <2>1. Cardinality(before) \in Nat
    <3>1. before \in SUBSET DOMAIN order
      BY <1>5
    <3> QED  BY <1>2, <3>1, FiniteParts
  <2>2. compact(c) = IF c.unordered THEN c ELSE [c EXCEPT !.ssn = @ - Cardinality(before)]
    BY DEF compact_ordered_ssns
  <2> HIDE DEF before, compact
  <2> QED  BY <2>1, <2>2 DEF Pending
<1>7. ASSUME NEW s \in Seq(Pending), KindsIn(s) \subseteq Kinds(q)
      PROVE  rest(s) \in Seq(Pending) /\ KindsIn(rest(s)) \subseteq Kinds(q)
  <2> DEFINE P == {i \in DOMAIN s : stays(s[i])}
             k == retain(s, P)
  <2>1. P \in SUBSET DOMAIN s
    OBVIOUS
  <2>2. k \in Seq(Pending) /\ \A i \in DOMAIN k : \E j \in P : k[i] = s[j]
    <3> HIDE DEF P
    <3> QED  BY <2>1, RetainedChunks
  <2>3. rest(s) = [i \in DOMAIN k |-> compact(k[i])]
    OBVIOUS
  <2> HIDE DEF P, k, rest, compact
  <2>4. DOMAIN k = 1 .. Len(k) /\ Len(k) \in Nat /\ \A i \in DOMAIN k : k[i] \in Pending
    BY <2>2, LenProperties, ElementOfSeq
  <2>5. rest(s) \in [1 .. Len(k) -> Pending]
    BY <1>6, <2>3, <2>4
  <2>6. rest(s) \in Seq(Pending)
    BY <2>4, <2>5, SeqDef
  <2>7. ASSUME NEW i \in DOMAIN rest(s)
        PROVE  <<rest(s)[i].message_id, rest(s)[i].policy>> \in KindsIn(s)
    <3>1. i \in DOMAIN k /\ rest(s)[i] = compact(k[i]) /\ k[i] \in Pending
      BY <2>3, <2>4
    <3>2. PICK j \in P : k[i] = s[j]
      BY <2>2, <3>1
    <3>3. <<rest(s)[i].message_id, rest(s)[i].policy>> = <<s[j].message_id, s[j].policy>>
      BY <1>6, <3>1, <3>2
    <3> QED  BY <2>1, <3>3 DEF KindsIn
  <2>8. KindsIn(rest(s)) \subseteq KindsIn(s)
    BY <2>7 DEF KindsIn
  <2> QED  BY <1>7, <2>6, <2>8
<1>8. ASSUME NEW i \in 1 .. n
      PROVE  /\ Minus(Plus(q.my_next_tsn, i - 1), q.my_next_tsn) + 1 = i
             /\ Plus(q.my_next_tsn, i - 1) \in Tsn
             /\ live[i] \in Pending
             /\ <<live[i].message_id, live[i].policy>> \in Kinds(q)
  <2>1. i - 1 \in Tsn /\ i \in 1 .. Len(live)
    BY <1>3, <1>4 DEF Tsn
  <2>2. Minus(Plus(q.my_next_tsn, i - 1), q.my_next_tsn) = i - 1
        /\ Plus(q.my_next_tsn, i - 1) \in Tsn
    BY <1>2, <2>1, PlusMinus
  <2> HIDE DEF live, n
  <2>3. live[i] \in Pending /\ i \in DOMAIN live
    BY <1>3, <2>1, ElementOfSeq, LenProperties
  <2> QED  BY <1>3, <2>1, <2>2, <2>3 DEF KindsIn
<1>9. ASSUME NEW t \in new
      PROVE  /\ t \in Tsn /\ flight[t] \in Flying
             /\ ~flight[t].acked /\ ~flight[t].abandoned
             /\ <<flight[t].message_id, flight[t].policy>> \in Kinds(q)
  <2>1. PICK i \in 1 .. n : t = Plus(q.my_next_tsn, i - 1)
    OBVIOUS
  <2> DEFINE c == compact(live[i])
  <2>2. flight[t] = Launched(c)
    BY <1>8, <2>1
  <2>3. /\ c \in Pending
        /\ <<c.message_id, c.policy>> \in Kinds(q)
    <3>1. live[i] \in Pending /\ <<live[i].message_id, live[i].policy>> \in Kinds(q)
      BY <1>8
    <3> HIDE DEF live, compact
    <3> QED  BY <1>6, <3>1
  <2> HIDE DEF c, flight
  <2>4. /\ Launched(c) \in Flying /\ ~Launched(c).acked /\ ~Launched(c).abandoned
        /\ Launched(c).message_id = c.message_id /\ Launched(c).policy = c.policy
    BY <2>3 DEF Launched, Flying, Pending
  <2> QED  BY <1>8, <2>1, <2>2, <2>3, <2>4
<1>10. /\ flight \in UNION {[T -> Flying] : T \in SUBSET Tsn}
       /\ DOMAIN flight = DOMAIN q.inflight \cup new
       /\ \A t \in DOMAIN q.inflight \ new : flight[t] = q.inflight[t]
       /\ KindsIn(flight) \subseteq Kinds(q)
  <2>1. /\ DOMAIN flight = DOMAIN q.inflight \cup new
        /\ \A t \in DOMAIN q.inflight \ new : flight[t] = q.inflight[t]
    OBVIOUS
  <2>2. flight = [t \in DOMAIN flight |-> flight[t]]
    OBVIOUS
  <2> HIDE DEF flight, new
  <2>3. DOMAIN flight \in SUBSET Tsn
    BY <1>2, <1>9, <2>1
  <2>4. \A t \in DOMAIN flight : flight[t] \in Flying
    BY <1>2, <1>9, <2>1
  <2>5. flight \in [DOMAIN flight -> Flying]
    BY <2>2, <2>4
  <2>6. ASSUME NEW t \in DOMAIN flight
        PROVE  <<flight[t].message_id, flight[t].policy>> \in Kinds(q)
    <3>1. CASE t \in new
      BY <1>9, <3>1
    <3>2. CASE t \in DOMAIN q.inflight \ new
      BY <2>1, <3>2 DEF Kinds, KindsIn
    <3> QED  BY <2>1, <3>1, <3>2
  <2> QED  BY <2>1, <2>3, <2>5, <2>6 DEF KindsIn
<1>11. numbers \in [Streams -> Int] /\ released \in [Streams -> Int]
  <2> DEFINE left(s) == Cardinality(
               {i \in drop : ~order[i].unordered /\ order[i].stream = s})
             freed(s) == Cardinality(
               {i \in DOMAIN order : order[i].message_id \in gone /\ order[i].stream = s})
  <2>1. ASSUME NEW s \in Streams
        PROVE  left(s) \in Nat /\ freed(s) \in Nat
    <3> HIDE DEF order, drop, gone
    <3>1. {i \in drop : ~order[i].unordered /\ order[i].stream = s} \in SUBSET DOMAIN order
      BY <1>5
    <3>2. {i \in DOMAIN order : order[i].message_id \in gone /\ order[i].stream = s}
            \in SUBSET DOMAIN order
      OBVIOUS
    <3> QED  BY <1>2, <3>1, <3>2, FiniteParts
  <2>2. \A s \in Streams : q.sequence_number[s] \in Int
    BY DEF Queues
  <2>3. numbers = [s \in Streams |-> q.sequence_number[s] - left(s)]
        /\ released = [s \in Streams |-> freed(s)]
    OBVIOUS
  <2> HIDE DEF left, freed, numbers, released
  <2> QED  BY <2>1, <2>2, <2>3
<1>12. sel \in {"none", "ordered", "unordered"}
  <2> HIDE DEF n, live
  <2> QED  BY DEF Queues
<1>13. /\ rest(q.ordered_queue) \in Seq(Pending)
       /\ rest(q.unordered_queue) \in Seq(Pending)
       /\ KindsIn(rest(q.ordered_queue)) \subseteq Kinds(q)
       /\ KindsIn(rest(q.unordered_queue)) \subseteq Kinds(q)
  <2> HIDE DEF rest
  <2>1. /\ KindsIn(q.ordered_queue) \subseteq Kinds(q)
        /\ KindsIn(q.unordered_queue) \subseteq Kinds(q)
    BY DEF Kinds
  <2> QED  BY <1>2, <1>7, <2>1
<1>14. Plus(q.my_next_tsn, n) \in Tsn /\ q.rwnd - fit \in Nat
  <2> HIDE DEF n, fit
  <2>1. n \in Tsn
    BY <1>4 DEF Tsn
  <2>2. Plus(q.my_next_tsn, n) \in Tsn
    BY <1>2, <2>1, PlusMinus
  <2>3. q.rwnd - fit \in Nat
    BY <1>2, <1>4
  <2> QED  BY <2>2, <2>3
<1>15. sent = [q EXCEPT
             !.ordered_queue = rest(q.ordered_queue),
             !.unordered_queue = rest(q.unordered_queue),
             !.selected = sel, !.inflight = flight,
             !.my_next_tsn = Plus(q.my_next_tsn, n),
             !.rwnd = q.rwnd - fit, !.sequence_number = numbers]
  OBVIOUS
<1> HIDE DEF order, late, live, n, fit, drop, gone, rest, sel, flight, numbers, sent, released
<1>16. /\ sent \in Queues
       /\ sent.ordered_queue = rest(q.ordered_queue)
       /\ sent.unordered_queue = rest(q.unordered_queue)
       /\ sent.inflight = flight /\ sent.my_next_tsn = Plus(q.my_next_tsn, n)
       /\ sent.next_message_id = q.next_message_id
  BY <1>10, <1>11, <1>12, <1>13, <1>14, <1>15 DEF Queues
<1>17. /\ r \in Queues
       /\ r.ordered_queue = rest(q.ordered_queue)
       /\ r.unordered_queue = rest(q.unordered_queue)
       /\ r.inflight = flight /\ r.my_next_tsn = Plus(q.my_next_tsn, n)
       /\ r.next_message_id = q.next_message_id
  BY <1>1, <1>11, <1>16, BufferReleased
<1>18. SameBut(r, q)
  BY <1>10, <1>13, <1>17 DEF SameBut, Kinds
<1> HIDE DEF r
<1>19. /\ n \in 0 .. cwnd /\ r \in Queues /\ SameBut(r, q)
       /\ r.my_next_tsn = Plus(q.my_next_tsn, n)
       /\ DOMAIN r.inflight = DOMAIN q.inflight \cup new
       /\ \A t \in DOMAIN q.inflight \ new : r.inflight[t] = q.inflight[t]
       /\ \A t \in new : ~r.inflight[t].acked /\ ~r.inflight[t].abandoned
  BY <1>4, <1>9, <1>10, <1>17, <1>18
<1> QED  BY <1>19 DEF r

(* Writing a message adds its chunks, with its identifier and policy, to a  *)
(* pending queue.                                                           *)
LEMMA PushedChunks ==
  ASSUME NEW q \in Queues, NEW chunks \in Seq(Pending), NEW policy,
         \A i \in DOMAIN chunks : /\ chunks[i].message_id = q.next_message_id
                                  /\ chunks[i].policy = policy
  PROVE  LET r == push(q, chunks)
         IN  /\ r \in Queues
             /\ r.inflight = q.inflight /\ r.my_next_tsn = q.my_next_tsn
             /\ \/ /\ r.next_message_id = q.next_message_id
                   /\ Kinds(r) = Kinds(q)
                \/ /\ r.next_message_id = q.next_message_id + 1
                   /\ Kinds(r) \subseteq Kinds(q) \cup {<<q.next_message_id, policy>>}
<1> DEFINE r == push(q, chunks)
           o == IF chunks[1].unordered THEN q.ordered_queue ELSE q.ordered_queue \o chunks
           u == IF chunks[1].unordered THEN q.unordered_queue \o chunks
                ELSE q.unordered_queue
           k == <<q.next_message_id, policy>>
<1>1. CASE chunks = <<>>
  BY <1>1 DEF push
<1>2. CASE chunks # <<>>
  <2>1. r = [q EXCEPT !.next_message_id = q.next_message_id + 1,
                      !.ordered_queue = o, !.unordered_queue = u]
    BY <1>2 DEF push
  <2>2. q.ordered_queue \in Seq(Pending) /\ q.unordered_queue \in Seq(Pending)
    BY DEF Queues
  <2>3. KindsIn(chunks) \subseteq {k}
    BY DEF KindsIn
  <2>4. /\ o \in Seq(Pending) /\ KindsIn(o) \subseteq KindsIn(q.ordered_queue) \cup {k}
        /\ u \in Seq(Pending) /\ KindsIn(u) \subseteq KindsIn(q.unordered_queue) \cup {k}
    <3>1. \A s \in Seq(Pending) : /\ s \o chunks \in Seq(Pending)
                                  /\ KindsIn(s \o chunks) \subseteq KindsIn(s) \cup {k}
      BY <2>3, JoinedChunks
    <3> QED  BY <2>2, <3>1
  <2> HIDE DEF o, u, k, r
  <2>5. /\ r \in Queues /\ r.inflight = q.inflight /\ r.my_next_tsn = q.my_next_tsn
        /\ r.next_message_id = q.next_message_id + 1
        /\ r.ordered_queue = o /\ r.unordered_queue = u
    <3> DEFINE id == q.next_message_id + 1
    <3>1. id \in Nat
      BY DEF Queues
    <3>2. r = [q EXCEPT !.next_message_id = id, !.ordered_queue = o, !.unordered_queue = u]
      BY <2>1
    <3> HIDE DEF id
    <3>3. /\ r \in Queues /\ r.inflight = q.inflight /\ r.my_next_tsn = q.my_next_tsn
          /\ r.next_message_id = id /\ r.ordered_queue = o /\ r.unordered_queue = u
      BY <2>4, <3>1, <3>2 DEF Queues
    <3> QED  BY <3>3 DEF id
  <2>6. Kinds(r) \subseteq Kinds(q) \cup {k}
    BY <2>4, <2>5 DEF Kinds
  <2> QED  BY <2>5, <2>6 DEF r, k
<1> QED  BY <1>1, <1>2
=============================================================================
