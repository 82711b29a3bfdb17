----------------------- MODULE TransferReceiver_proofs ----------------------
(***************************************************************************)
(* The inductive invariant of Transfer, and the steps of the receiver and  *)
(* of the network.                                                         *)
(*                                                                         *)
(* The argument counts TSNs from the one before InitialTsn.  The place of  *)
(* a TSN is its distance from there; MaxTsns keeps all places in use below *)
(* Half, so that every serial comparison is a comparison of places, and    *)
(* the sets of TSNs the association steps through are intervals of places. *)
(***************************************************************************)
EXTENDS Transfer, OutboundQueue_proofs

USE HalfAssumption, QueueAssumption

Base == Before(InitialTsn)

Place(t) == Minus(t, Base)

\* The TSNs strictly between a and b
Within(a, b) == {t \in Tsn : Place(a) < Place(t) /\ Place(t) < Place(b)}

-----------------------------------------------------------------------------
(* Places.                                                                 *)

(* Places are faithful, and add and subtract as the TSNs do. *)
LEMMA PlaceFacts ==
  /\ Base \in Tsn /\ InitialTsn \in Tsn
  /\ Place(Base) = 0 /\ Place(InitialTsn) = 1
  /\ \A t \in Tsn : Place(t) \in Nat /\ Place(t) < 2 * Half
  /\ \A t, u \in Tsn : Place(t) = Place(u) => t = u
  /\ \A t \in Tsn, n \in Nat : Place(t) + n < 2 * Half =>
       Plus(t, n) \in Tsn /\ Place(Plus(t, n)) = Place(t) + n
  /\ \A t, u \in Tsn : Place(u) <= Place(t) => Minus(t, u) = Place(t) - Place(u)
<1>1. InitialTsn \in Tsn
  BY TransferAssumption
<1>2. Base \in Tsn
  BY <1>1 DEF Base, Before, Plus, Tsn
<1>3. Place(Base) = 0 /\ Place(InitialTsn) = 1
  BY <1>1 DEF Base, Before, Place, Plus, Minus, Tsn
<1> USE DEF Place, Plus, Minus, Tsn
<1>4. \A t \in Tsn : Place(t) \in Nat /\ Place(t) < 2 * Half
  BY <1>2
<1>5. \A t, u \in Tsn : Place(t) = Place(u) => t = u
  BY <1>2
<1>6. \A t \in Tsn, n \in Nat : Place(t) + n < 2 * Half =>
        Plus(t, n) \in Tsn /\ Place(Plus(t, n)) = Place(t) + n
  BY <1>2
<1>7. \A t, u \in Tsn : Place(u) <= Place(t) => Minus(t, u) = Place(t) - Place(u)
  BY <1>2
<1> QED  BY <1>1, <1>2, <1>3, <1>4, <1>5, <1>6, <1>7

(* Below Half the serial order is the order of places. *)
LEMMA PlaceOrder ==
  ASSUME NEW t \in Tsn, NEW u \in Tsn, Place(t) < Half, Place(u) < Half
  PROVE  /\ sna32lt(t, u) <=> Place(t) < Place(u)
         /\ sna32lte(t, u) <=> Place(t) <= Place(u)
         /\ sna32gt(t, u) <=> Place(t) > Place(u)
<1>1. Base \in Tsn
  BY PlaceFacts
<1> QED  BY <1>1 DEF Place, Minus, Tsn, sna32lt, sna32lte, sna32gt

(* The TSNs that follow t. *)
LEMMA Span ==
  ASSUME NEW t \in Tsn, NEW n \in Nat, Place(t) + n < 2 * Half
  PROVE  {Plus(t, i) : i \in 1 .. n}
           = {u \in Tsn : Place(t) < Place(u) /\ Place(u) <= Place(t) + n}
<1>1. Place(t) \in Nat
  BY PlaceFacts
<1>2. ASSUME NEW i \in 1 .. n
      PROVE  /\ Plus(t, i) \in Tsn /\ Place(t) < Place(Plus(t, i))
             /\ Place(Plus(t, i)) <= Place(t) + n
  BY <1>1, PlaceFacts
<1>3. ASSUME NEW u \in Tsn, Place(t) < Place(u), Place(u) <= Place(t) + n
      PROVE  \E i \in 1 .. n : u = Plus(t, i)
  <2>1. Place(u) \in Nat /\ Place(u) - Place(t) \in 1 .. n
    BY <1>1, <1>3, PlaceFacts
  <2>2. u = Plus(t, Place(u) - Place(t))
    <3>1. /\ Plus(t, Place(u) - Place(t)) \in Tsn
          /\ Place(Plus(t, Place(u) - Place(t))) = Place(u)
      BY <1>1, <2>1, PlaceFacts
    <3> QED  BY <3>1, PlaceFacts
  <2> QED  BY <2>1, <2>2
<1> QED  BY <1>2, <1>3

(* The TSNs between a and b are as many as their places say. *)
LEMMA WithinSize ==
  ASSUME NEW a \in Tsn, NEW b \in Tsn, Place(a) < Place(b)
  PROVE  LET n == Place(b) - Place(a) - 1
         IN  /\ n \in Nat /\ Place(a) + n < 2 * Half
             /\ Within(a, b) = {Plus(a, i) : i \in 1 .. n}
             /\ Cardinality(Within(a, b)) = n
<1> DEFINE n == Place(b) - Place(a) - 1
           f == [i \in 1 .. n |-> Plus(a, i)]
<1>1. /\ n \in Nat /\ Place(a) \in Nat /\ Place(b) \in Nat /\ Place(b) < 2 * Half
      /\ Place(a) + n = Place(b) - 1
  BY PlaceFacts
<1>2. {Plus(a, i) : i \in 1 .. n}
        = {u \in Tsn : Place(a) < Place(u) /\ Place(u) <= Place(a) + n}
  BY <1>1, Span
<1>3. \A u \in Tsn : Place(u) <= Place(a) + n <=> Place(u) < Place(b)
  BY <1>1, PlaceFacts
<1>4. Within(a, b) = {Plus(a, i) : i \in 1 .. n}
  BY <1>2, <1>3 DEF Within
<1>5. \A i \in 1 .. n : Plus(a, i) \in Tsn /\ Place(Plus(a, i)) = Place(a) + i
  BY <1>1, PlaceFacts
<1>6. f \in Bijection(1 .. n, Within(a, b))
  <2>1. f \in [1 .. n -> Within(a, b)]
    BY <1>4
  <2>2. \A i, j \in 1 .. n : f[i] = f[j] => i = j
    BY <1>1, <1>5
  <2>3. \A u \in Within(a, b) : \E i \in 1 .. n : f[i] = u
    BY <1>4
  <2> HIDE DEF f, n
  <2> QED  BY <2>1, <2>2, <2>3 DEF Bijection, Injection, Surjection, IsInjective
<1>7. Cardinality(Within(a, b)) = n
  <2> HIDE DEF n
  <2> QED  BY <1>1, <1>6, FS_CountingElements DEF ExistsBijection
<1> QED  BY <1>1, <1>4, <1>7

(* The loop that steps a TSN through S, whose places are at most top. *)
LEMMA RunPlaces ==
  ASSUME NEW t \in Tsn, NEW top \in Nat, Place(t) <= top, top < Half,
         NEW S, \A u \in S : u \in Tsn /\ Place(u) <= top
  PROVE  LET r == RunLength(t, S)
             z == Plus(t, r)
         IN  /\ z \in Tsn /\ Place(t) <= Place(z) /\ Place(z) <= top
             /\ {Plus(t, i) : i \in 1 .. r}
                  = {u \in Tsn : Place(t) < Place(u) /\ Place(u) <= Place(z)}
             /\ \A u \in Tsn : Place(t) < Place(u) /\ Place(u) <= Place(z) => u \in S
             /\ Plus(z, 1) \notin S
<1> DEFINE r == RunLength(t, S)
           z == Plus(t, r)
<1>1. Base \in Tsn /\ Place(t) \in Nat /\ Place(t) \in 0 .. top /\ top + 1 < 2 * Half
  BY PlaceFacts
<1>2. \A u \in Tsn : Plus(Base, Place(u)) = u
  BY PlaceOf, <1>1 DEF Place
<1>3. S \subseteq {Plus(Base, j) : j \in 0 .. top}
  BY <1>2, PlaceFacts
<1>4. /\ r \in 0 .. top - Place(t)
      /\ \A j \in 1 .. r : Plus(Base, Place(t) + j) \in S
      /\ Plus(Base, Place(t) + r + 1) \notin S
  <2>1. r = RunLength(Plus(Base, Place(t)), S)
    BY <1>2
  <2> HIDE DEF r
  <2> QED  BY <1>1, <1>3, <2>1, RunInWindow
<1> HIDE DEF r
<1>5. r \in Nat /\ Place(t) + r <= top /\ Place(t) + r + 1 < 2 * Half
  BY <1>1, <1>4
<1>6. z \in Tsn /\ Place(z) = Place(t) + r
  BY <1>1, <1>5, PlaceFacts
<1>7. {Plus(t, i) : i \in 1 .. r}
        = {u \in Tsn : Place(t) < Place(u) /\ Place(u) <= Place(z)}
  <2>1. Place(t) + r < 2 * Half
    BY <1>1, <1>5
  <2>2. {Plus(t, i) : i \in 1 .. r}
          = {u \in Tsn : Place(t) < Place(u) /\ Place(u) <= Place(t) + r}
    BY <1>5, <2>1, Span
  <2> QED  BY <1>6, <2>2
<1>8. ASSUME NEW u \in Tsn, Place(t) < Place(u), Place(u) <= Place(z)
      PROVE  u \in S
  <2>1. Place(u) \in Nat /\ Place(u) - Place(t) \in 1 .. r
    BY <1>1, <1>5, <1>6, <1>8, PlaceFacts
  <2>2. Plus(Base, Place(t) + (Place(u) - Place(t))) \in S
    BY <1>4, <2>1
  <2>3. Place(t) + (Place(u) - Place(t)) = Place(u)
    BY <1>1, <2>1
  <2> QED  BY <1>2, <2>2, <2>3
<1>9. Plus(z, 1) \notin S
  <2>1. Plus(z, 1) \in Tsn /\ Place(Plus(z, 1)) = Place(t) + r + 1
    BY <1>1, <1>5, <1>6, PlaceFacts
  <2> QED  BY <1>2, <1>4, <2>1
<1>10. /\ z \in Tsn /\ Place(t) <= Place(z) /\ Place(z) <= top
  BY <1>1, <1>5, <1>6
<1> QED  BY <1>7, <1>8, <1>9, <1>10 DEF r

(* The last element of a set of TSNs. *)
LEMMA LastPlace ==
  ASSUME NEW S, S # {}, \A u \in S : u \in Tsn /\ Place(u) < Half
  PROVE  LastOf(S) \in S /\ \A u \in S : Place(u) <= Place(LastOf(S))
<1>1. Base \in Tsn
  BY PlaceFacts
<1>2. \A u \in Tsn : Plus(Base, Place(u)) = u /\ Place(u) \in Nat
  BY PlaceOf, PlaceFacts, <1>1 DEF Place
<1>3. S \subseteq {Plus(Base, i) : i \in 0 .. Half - 1}
  BY <1>2
<1> QED  BY <1>1, <1>3, LastOfWindow DEF Place

-----------------------------------------------------------------------------
(* The inductive invariant.                                                *)

\* The messages of a script
Messages ==
  [stream: Streams, unordered: BOOLEAN, policy: Policies, fragments: Nat]

Typed ==
  /\ scenario \in Scenarios /\ to_write \in Seq(Messages) /\ q \in Queues
  /\ cumulative_tsn_ack_point \in Tsn /\ advanced_peer_tsn_ack_point \in Tsn
  /\ peer_last_tsn \in Tsn

(* The points are ordered, and the flight fills the window between them. *)
Window ==
  /\ Place(cumulative_tsn_ack_point) <= Place(peer_last_tsn)
  /\ Place(peer_last_tsn) < Place(q.my_next_tsn)
  /\ Place(advanced_peer_tsn_ack_point) < Place(q.my_next_tsn)
  /\ Place(q.my_next_tsn) <= MaxTsns + 1
  /\ DOMAIN q.inflight = Within(cumulative_tsn_ack_point, q.my_next_tsn)

(* The receiver keeps what is ahead of a gap, and the gap is there. *)
Receiving ==
  /\ payload_queue \subseteq Within(peer_last_tsn, q.my_next_tsn)
  /\ Plus(peer_last_tsn, 1) \notin payload_queue

\* The receiver has t, or has been told to skip it
Has(t) == t \in payload_queue \/ Place(t) <= Place(peer_last_tsn)

(* However old, a datagram says nothing that is not true now. *)
Network ==
  \A p \in net :
    /\ p.type = "DATA" => p.tsn \in Within(Base, q.my_next_tsn)
    /\ p.type = "SACK" =>
         /\ p.cum \in Tsn /\ Place(p.cum) <= Place(peer_last_tsn)
         /\ p.a_rwnd \in Nat
         /\ Gapped(p) \subseteq Within(p.cum, q.my_next_tsn)
         /\ \A t \in Gapped(p) : Has(t)
    /\ p.type = "FORWARD-TSN" =>
         p.cum \in Tsn /\ Place(p.cum) <= Place(advanced_peer_tsn_ack_point)

\* t is in flight and a gap ack block acknowledged it
Acked(t) == t \in DOMAIN q.inflight /\ q.inflight[t].acked

(* The TSN after the cumulative ack of a SACK was missing when the SACK was *)
(* sent: no SACK under way names it in a gap ack block, none has.           *)
Acks ==
  /\ \A t \in DOMAIN q.inflight : Acked(t) => Has(t)
  /\ \A d \in net : d.type = "SACK" =>
       /\ ~Acked(Plus(d.cum, 1))
       /\ \A e \in net : e.type = "SACK" => Plus(d.cum, 1) \notin Gapped(e)
  /\ ~Acked(Plus(cumulative_tsn_ack_point, 1))

(* A message has one policy, and only timed ones are past their deadline. *)
OnePolicy ==
  /\ \A k, l \in Kinds(q) : k[1] = l[1] => k[2] = l[2]
  /\ \A k \in Kinds(q) : k[1] < q.next_message_id
  /\ \A m \in expired :
       /\ m \in Nat /\ m < q.next_message_id
       /\ \A k \in Kinds(q) : k[1] = m => k[2] = "timed"

(* A TSN that the peer has passed, or may be told to skip, was delivered if *)
(* it is reliable; the flight holds what the history says.                  *)
Histories ==
  /\ DOMAIN sent = Within(Base, q.my_next_tsn)
  /\ \A t \in DOMAIN q.inflight :
       /\ sent[t].policy = q.inflight[t].policy
       /\ q.inflight[t].abandoned => q.inflight[t].policy # "reliable"
  /\ payload_queue \subseteq delivered
  /\ \A t \in DOMAIN sent :
       /\ sent[t].policy = "reliable"
       /\ \/ Place(t) <= Place(peer_last_tsn)
          \/ Place(t) <= Place(advanced_peer_tsn_ack_point)
       => t \in delivered

Inv ==
  /\ Typed /\ Window /\ Receiving /\ Network /\ Acks /\ OnePolicy /\ Histories
  /\ RecoveryEnds /\ SackNeverRefused

-----------------------------------------------------------------------------
(* What the invariant implies, and its start.                              *)

(* All places in use are below Half. *)
LEMMA Bounds ==
  ASSUME Typed, Window
  PROVE  /\ q.my_next_tsn \in Tsn /\ DOMAIN q.inflight \subseteq Tsn
         /\ Place(q.my_next_tsn) \in Nat /\ Place(q.my_next_tsn) < Half
         /\ MaxTsns \in Nat /\ MaxTsns + 1 < Half
         /\ Place(cumulative_tsn_ack_point) \in Nat
         /\ Place(cumulative_tsn_ack_point) < Half
         /\ Place(advanced_peer_tsn_ack_point) \in Nat
         /\ Place(advanced_peer_tsn_ack_point) < Half
         /\ Place(peer_last_tsn) \in Nat /\ Place(peer_last_tsn) < Half
         /\ \A t \in DOMAIN q.inflight :
              Place(t) \in Nat /\ Place(t) < Half /\ q.inflight[t] \in Flying
<1>1. q.my_next_tsn \in Tsn /\ DOMAIN q.inflight \subseteq Tsn
      /\ \A t \in DOMAIN q.inflight : q.inflight[t] \in Flying
  BY DEF Typed, Queues
<1>2. MaxTsns \in Nat /\ MaxTsns + 1 < Half
  BY TransferAssumption
<1>3. /\ Place(q.my_next_tsn) \in Nat /\ Place(cumulative_tsn_ack_point) \in Nat
      /\ Place(advanced_peer_tsn_ack_point) \in Nat /\ Place(peer_last_tsn) \in Nat
  BY <1>1, PlaceFacts DEF Typed
<1>4. /\ Place(q.my_next_tsn) < Half /\ Place(cumulative_tsn_ack_point) < Half
      /\ Place(advanced_peer_tsn_ack_point) < Half /\ Place(peer_last_tsn) < Half
  BY <1>2, <1>3 DEF Window
<1>5. ASSUME NEW t \in DOMAIN q.inflight PROVE Place(t) \in Nat /\ Place(t) < Half
  <2>1. t \in Tsn /\ Place(t) < Place(q.my_next_tsn) /\ Place(t) \in Nat
    BY <1>1, PlaceFacts DEF Window, Within
  <2> QED  BY <1>3, <1>4, <2>1
<1> QED  BY <1>1, <1>2, <1>3, <1>4, <1>5

(* The invariant holds when DATA may first flow. *)
LEMMA InitInv == Init => Inv
<1> SUFFICES ASSUME Init PROVE Inv
  OBVIOUS
<1> USE DEF Init
<1>1. /\ Base \in Tsn /\ InitialTsn \in Tsn /\ Place(Base) = 0 /\ Place(InitialTsn) = 1
      /\ cumulative_tsn_ack_point = Base /\ advanced_peer_tsn_ack_point = Base
      /\ peer_last_tsn = Base /\ q.my_next_tsn = InitialTsn
  BY PlaceFacts DEF Base
<1>2. /\ DOMAIN q.inflight = {} /\ DOMAIN sent = {} /\ net = {} /\ payload_queue = {}
      /\ q.ordered_queue = <<>> /\ q.unordered_queue = <<>>
  OBVIOUS
<1>3. Within(Base, InitialTsn) = {}
  <2>1. \A t \in Tsn : Place(t) \in Nat
    BY PlaceFacts
  <2> QED  BY <1>1, <2>1 DEF Within
<1>4. Typed
  <2>1. scenario \in Scenarios /\ scenario.script \in Seq(Messages) /\ scenario.cwnd \in Nat
    <3>1. scenario \in Scenarios
      OBVIOUS
    <3>2. /\ scenario.script \in Seq([stream: Streams, unordered: BOOLEAN,
                policy: {"reliable", "timed", "rexmit"}, fragments: Nat])
          /\ scenario.cwnd \in 1 .. Half - 1
      BY <3>1, TransferAssumption, ZenonT(60)
    <3>3. scenario.cwnd \in Nat
      BY <3>2
    <3> QED  BY <3>1, <3>2, <3>3 DEF Messages, Policies
  <2>2. [t \in {} |-> NoTsn] \in UNION {[T -> Flying] : T \in SUBSET Tsn}
    <3>1. [t \in {} |-> NoTsn] \in [{} -> Flying]
      OBVIOUS
    <3> QED  BY <3>1
  <2>3. <<>> \in Seq(Pending)
    OBVIOUS
  <2>4. q \in Queues
    <3>1. [s \in Streams |-> 0] \in [Streams -> Int]
      OBVIOUS
    <3> QED  BY <1>1, <2>1, <2>2, <2>3, <3>1, ZenonT(60) DEF Queues
  <2> QED  BY <1>1, <2>1, <2>4 DEF Typed
<1>5. Window
  BY <1>1, <1>2, <1>3, TransferAssumption DEF Window
<1>6. Receiving /\ Network
  BY <1>2 DEF Receiving, Network
<1>7. Acks
  BY <1>2 DEF Acks, Acked
<1>8. OnePolicy
  <2>1. Kinds(q) = {}
    BY <1>2 DEF Kinds, KindsIn
  <2> QED  BY <2>1 DEF OnePolicy
<1>9. Histories
  BY <1>1, <1>2, <1>3 DEF Histories
<1>10. RecoveryEnds /\ SackNeverRefused
  BY DEF RecoveryEnds, SackNeverRefused
<1> QED  BY <1>4, <1>5, <1>6, <1>7, <1>8, <1>9, <1>10 DEF Inv

(* The invariant implies the properties. *)
LEMMA InvImplies ==
  ASSUME Inv
  PROVE  FlightContiguous /\ ProbeAvailable /\ ReliableDelivered
<1>0. Typed /\ Window /\ Acks /\ Histories
  BY DEF Inv
<1>1. FlightContiguous
  <2>1. Minus(q.my_next_tsn, cumulative_tsn_ack_point)
          = Place(q.my_next_tsn) - Place(cumulative_tsn_ack_point)
    <3>1. Place(cumulative_tsn_ack_point) <= Place(q.my_next_tsn)
      BY <1>0, Bounds DEF Window
    <3> QED  BY <1>0, <3>1, Bounds, PlaceFacts, ZenonT(60) DEF Typed
  <2>2. Within(cumulative_tsn_ack_point, q.my_next_tsn)
          = {Plus(cumulative_tsn_ack_point, i) :
               i \in 1 .. Place(q.my_next_tsn) - Place(cumulative_tsn_ack_point) - 1}
    <3>1. Place(cumulative_tsn_ack_point) < Place(q.my_next_tsn)
      BY <1>0, Bounds DEF Window
    <3> QED  BY <1>0, <3>1, Bounds, WithinSize DEF Typed
  <2>3. /\ sna32lte(cumulative_tsn_ack_point, peer_last_tsn)
        /\ sna32lt(peer_last_tsn, q.my_next_tsn)
        /\ sna32lt(advanced_peer_tsn_ack_point, q.my_next_tsn)
    BY <1>0, Bounds, PlaceOrder DEF Typed, Window
  <2> QED  BY <1>0, <2>1, <2>2, <2>3 DEF FlightContiguous, Window
<1>2. ProbeAvailable
  BY <1>0 DEF ProbeAvailable, Acks, Acked
<1>3. ReliableDelivered
  <2> SUFFICES ASSUME NEW t \in DOMAIN sent, sent[t].policy = "reliable",
                      sna32lte(t, peer_last_tsn)
               PROVE  t \in delivered
    BY DEF ReliableDelivered
  <2>1. t \in Tsn /\ Place(t) < Half
    <3>1. t \in Tsn /\ Place(t) < Place(q.my_next_tsn) /\ Place(t) \in Nat
      BY <1>0, PlaceFacts DEF Histories, Within
    <3> QED  BY <1>0, <3>1, Bounds
  <2>2. Place(t) <= Place(peer_last_tsn)
    BY <1>0, <2>1, Bounds, PlaceOrder DEF Typed
  <2> QED  BY <1>0, <2>2 DEF Histories
<1> QED  BY <1>1, <1>2, <1>3

(* Messages are numbered. *)
LEMMA KindsTyped ==
  ASSUME NEW o \in Queues, NEW k \in Kinds(o)
  PROVE  k[1] \in Nat
<1>1. CASE k \in KindsIn(o.ordered_queue) \cup KindsIn(o.unordered_queue)
  <2>1. o.ordered_queue \in Seq(Pending) /\ o.unordered_queue \in Seq(Pending)
    BY DEF Queues
  <2>2. PICK s \in Seq(Pending) : k \in KindsIn(s)
    BY <1>1, <2>1
  <2>3. PICK i \in DOMAIN s : k = <<s[i].message_id, s[i].policy>>
    BY <2>2 DEF KindsIn
  <2>4. s[i] \in Pending
    BY <2>3, ElementOfSeq, LenProperties
  <2> QED  BY <2>3, <2>4 DEF Pending
<1>2. CASE k \in KindsIn(o.inflight)
  <2>1. PICK t \in DOMAIN o.inflight :
          k = <<o.inflight[t].message_id, o.inflight[t].policy>>
    BY <1>2 DEF KindsIn
  <2>2. o.inflight[t] \in Flying
    BY DEF Queues
  <2> QED  BY <2>1, <2>2 DEF Flying
<1> QED  BY <1>1, <1>2 DEF Kinds

-----------------------------------------------------------------------------
(* Steps of the receiver and of the network.                               *)

(* Steps that change nothing the invariant is about, but for datagrams that *)
(* go away.                                                                 *)
LEMMA QuietStep ==
  ASSUME Inv, net' \subseteq net,
         UNCHANGED <<scenario, q, cumulative_tsn_ack_point,
                     advanced_peer_tsn_ack_point, fast_recovery, expired, to_write,
                     failed, sent, peer_last_tsn, payload_queue, delivered>>
  PROVE  Inv'
<1> USE DEF Inv
<1>1. Typed' /\ Window' /\ Receiving'
  BY DEF Typed, Window, Receiving
<1>2. Network'
  BY DEF Network, Has, Gapped
<1>3. Acks'
  BY DEF Acks, Acked, Has, Gapped
<1>4. OnePolicy'
  BY DEF OnePolicy
<1>5. Histories'
  BY DEF Histories
<1>6. RecoveryEnds' /\ SackNeverRefused'
  BY DEF RecoveryEnds, SackNeverRefused
<1> QED  BY <1>1, <1>2, <1>3, <1>4, <1>5, <1>6

(* What a step of the receiver has to show. *)
LEMMA ReceiverStep ==
  ASSUME Inv, UNCHANGED <<sender, net>>, peer_last_tsn' \in Tsn,
         Place(peer_last_tsn) <= Place(peer_last_tsn'),
         Place(peer_last_tsn') < Place(q.my_next_tsn),
         Receiving',
         \A t \in Tsn : Has(t) => Has(t)',
         payload_queue' \subseteq delivered',
         delivered \subseteq delivered',
         \A t \in DOMAIN sent :
           /\ sent[t].policy = "reliable"
           /\ Place(peer_last_tsn) < Place(t) /\ Place(t) <= Place(peer_last_tsn')
           => t \in delivered'
  PROVE  Inv'
<1>0. /\ Typed /\ Window /\ Network /\ Acks /\ OnePolicy /\ Histories
      /\ RecoveryEnds /\ SackNeverRefused
  BY DEF Inv
<1>1. Typed'
  BY <1>0 DEF Typed, sender
<1>2. Place(peer_last_tsn') \in Nat /\ Place(peer_last_tsn) \in Nat
  BY <1>0, PlaceFacts DEF Typed
<1>3. Window'
  BY <1>0, <1>2, Bounds DEF Window, sender
<1>4. Network'
  <2> SUFFICES ASSUME NEW p \in net
               PROVE  /\ p.type = "DATA" => p.tsn \in Within(Base, q.my_next_tsn)
                      /\ p.type = "SACK" =>
                           /\ p.cum \in Tsn /\ Place(p.cum) <= Place(peer_last_tsn')
                           /\ p.a_rwnd \in Nat
                           /\ Gapped(p) \subseteq Within(p.cum, q.my_next_tsn)
                           /\ \A t \in Gapped(p) : Has(t)'
                      /\ p.type = "FORWARD-TSN" =>
                           p.cum \in Tsn
                             /\ Place(p.cum) <= Place(advanced_peer_tsn_ack_point)
    BY DEF Network, sender, Gapped
  <2>1. CASE p.type = "SACK"
    <3>1. /\ p.cum \in Tsn /\ Place(p.cum) <= Place(peer_last_tsn)
          /\ p.a_rwnd \in Nat
          /\ Gapped(p) \subseteq Within(p.cum, q.my_next_tsn)
          /\ \A t \in Gapped(p) : Has(t)
      BY <1>0, <2>1 DEF Network
    <3>2. Place(p.cum) <= Place(peer_last_tsn')
      BY <1>2, <3>1, PlaceFacts
    <3>3. Gapped(p) \subseteq Tsn
      BY <3>1 DEF Within
    <3> QED  BY <2>1, <3>1, <3>2, <3>3
  <2>2. CASE p.type # "SACK"
    BY <1>0, <2>2 DEF Network
  <2> QED  BY <2>1, <2>2
<1>5. Acks'
  <2>1. \A t : Acked(t)' <=> Acked(t)
    BY DEF Acked, sender
  <2>2. DOMAIN q.inflight \subseteq Tsn
    BY <1>0, Bounds
  <2>3. \A t \in DOMAIN q.inflight : Acked(t) => Has(t)'
    BY <1>0, <2>2 DEF Acks
  <2> QED  BY <1>0, <2>1, <2>3 DEF Acks, sender, Gapped
<1>6. OnePolicy'
  BY <1>0 DEF OnePolicy, sender
<1>7. Histories'
  <2>1. ASSUME NEW t \in DOMAIN sent, sent[t].policy = "reliable",
               \/ Place(t) <= Place(peer_last_tsn')
               \/ Place(t) <= Place(advanced_peer_tsn_ack_point)
        PROVE  t \in delivered'
    <3>1. t \in Tsn /\ Place(t) \in Nat
      BY <1>0, PlaceFacts DEF Histories, Within
    <3>2. CASE \/ Place(t) <= Place(peer_last_tsn)
               \/ Place(t) <= Place(advanced_peer_tsn_ack_point)
      BY <1>0, <2>1, <3>2 DEF Histories
    <3> QED  BY <1>2, <2>1, <3>1, <3>2
  <2> QED  BY <1>0, <2>1 DEF Histories, sender
<1>8. RecoveryEnds' /\ SackNeverRefused'
  BY <1>0 DEF RecoveryEnds, SackNeverRefused, sender
<1> QED  BY <1>1, <1>3, <1>4, <1>5, <1>6, <1>7, <1>8 DEF Inv

(* The TSNs that follow last in queue are popped, no others. *)
LEMMA PoppedInSequence ==
  ASSUME Typed, Window, NEW last \in Tsn, Place(last) < Place(q.my_next_tsn),
         NEW queue, queue \subseteq Within(last, q.my_next_tsn),
         handle_peer_last_tsn_and_acknowledgement(last, queue)
  PROVE  /\ peer_last_tsn' \in Tsn /\ Place(last) <= Place(peer_last_tsn')
         /\ Place(peer_last_tsn') < Place(q.my_next_tsn)
         /\ payload_queue' \subseteq queue
         /\ payload_queue' \subseteq Within(peer_last_tsn', q.my_next_tsn)
         /\ Plus(peer_last_tsn', 1) \notin payload_queue'
         /\ \A t \in queue : t \in payload_queue' \/ Place(t) <= Place(peer_last_tsn')
         /\ \A t \in Tsn : Place(last) < Place(t) /\ Place(t) <= Place(peer_last_tsn')
                           => t \in queue
<1> DEFINE r == RunLength(last, queue)
           z == Plus(last, r)
           top == Place(q.my_next_tsn) - 1
<1>1. /\ Place(q.my_next_tsn) \in Nat /\ Place(q.my_next_tsn) < Half
      /\ Place(last) \in Nat /\ top \in Nat /\ Place(last) <= top /\ top < Half
  BY Bounds, PlaceFacts
<1>2. \A u \in queue : u \in Tsn /\ Place(u) \in Nat /\ Place(last) < Place(u)
                       /\ Place(u) < Place(q.my_next_tsn) /\ Place(u) <= top
  BY <1>1, PlaceFacts DEF Within
<1>3. /\ z \in Tsn /\ Place(last) <= Place(z) /\ Place(z) <= top
      /\ {Plus(last, i) : i \in 1 .. r}
           = {u \in Tsn : Place(last) < Place(u) /\ Place(u) <= Place(z)}
      /\ \A u \in Tsn : Place(last) < Place(u) /\ Place(u) <= Place(z) => u \in queue
      /\ Plus(z, 1) \notin queue
  <2> HIDE DEF top
  <2> QED  BY <1>1, <1>2, RunPlaces
<1>4. Steps(last, queue) = r
  <2>1. ASSUME NEW t \in queue PROVE ~sna32lte(t, last)
    <3>1. t \in Tsn /\ Place(t) < Half /\ Place(last) < Half /\ ~(Place(t) <= Place(last))
      BY <1>1, <1>2
    <3> QED  BY <3>1, PlaceOrder
  <2> QED  BY <2>1 DEF Steps
<1>5. /\ peer_last_tsn' = z
      /\ payload_queue' = queue \ {Plus(last, i) : i \in 1 .. r}
  BY <1>4 DEF handle_peer_last_tsn_and_acknowledgement
<1> HIDE DEF r, z
<1>6. /\ Place(z) \in Nat /\ Place(z) < Place(q.my_next_tsn)
  BY <1>1, <1>3, PlaceFacts
<1>7. ASSUME NEW t \in queue
      PROVE  t \in payload_queue' <=> Place(z) < Place(t)
  BY <1>2, <1>3, <1>5, <1>6
<1>8. payload_queue' \subseteq Within(z, q.my_next_tsn)
  BY <1>2, <1>5, <1>7 DEF Within
<1>9. \A t \in queue : t \in payload_queue' \/ Place(t) <= Place(z)
  BY <1>2, <1>6, <1>7
<1> QED  BY <1>3, <1>5, <1>6, <1>8, <1>9

(* A DATA chunk leaves the invariant and moves the receiver's point only    *)
(* forward (handle_data, handle_peer_last_tsn_and_acknowledgement).         *)
LEMMA DataStep ==
  ASSUME Inv, NEW p \in net, NEW credit, handle_data(p, credit)
  PROVE  Inv' /\ Place(peer_last_tsn) <= Place(peer_last_tsn')
<1> DEFINE taken == IF Accepted(p.tsn, credit) THEN {p.tsn} ELSE {}
           queue == payload_queue \cup taken
<1>0. Typed /\ Window /\ Receiving /\ Network /\ Histories
  BY DEF Inv
<1>1. /\ p.type = "DATA" /\ delivered' = delivered \cup taken
      /\ handle_peer_last_tsn_and_acknowledgement(peer_last_tsn, queue)
      /\ UNCHANGED <<sender, net>>
  BY DEF handle_data
<1>2. p.tsn \in Tsn /\ Place(p.tsn) \in Nat /\ Place(p.tsn) < Place(q.my_next_tsn)
  BY <1>0, <1>1, PlaceFacts DEF Network, Within
<1>3. taken \subseteq Within(peer_last_tsn, q.my_next_tsn)
  <2> SUFFICES ASSUME Accepted(p.tsn, credit)
               PROVE  Place(peer_last_tsn) < Place(p.tsn)
    BY <1>2 DEF Within
  <2>1. ~sna32lte(p.tsn, peer_last_tsn)
    BY DEF Accepted
  <2>2. Place(p.tsn) < Half
    BY <1>0, <1>2, Bounds
  <2>3. peer_last_tsn \in Tsn
    BY <1>0 DEF Typed
  <2>4. Place(peer_last_tsn) \in Nat /\ Place(peer_last_tsn) < Half
    BY <1>0, Bounds
  <2> QED  BY <1>2, <2>1, <2>2, <2>3, <2>4, PlaceOrder
<1>4. queue \subseteq Within(peer_last_tsn, q.my_next_tsn)
  BY <1>0, <1>3 DEF Receiving
<1>5. queue \subseteq delivered'
  BY <1>0, <1>1 DEF Histories
<1> HIDE DEF taken, queue
<1>6. /\ peer_last_tsn' \in Tsn /\ Place(peer_last_tsn) <= Place(peer_last_tsn')
      /\ Place(peer_last_tsn') < Place(q.my_next_tsn)
      /\ payload_queue' \subseteq queue
      /\ payload_queue' \subseteq Within(peer_last_tsn', q.my_next_tsn)
      /\ Plus(peer_last_tsn', 1) \notin payload_queue'
      /\ \A t \in queue : t \in payload_queue' \/ Place(t) <= Place(peer_last_tsn')
      /\ \A t \in Tsn : Place(peer_last_tsn) < Place(t) /\ Place(t) <= Place(peer_last_tsn')
                        => t \in queue
  <2>1. Place(peer_last_tsn) < Place(q.my_next_tsn) /\ peer_last_tsn \in Tsn
    BY <1>0 DEF Typed, Window
  <2> QED  BY <1>0, <1>1, <1>4, <2>1, PoppedInSequence
<1>7. Receiving'
  BY <1>1, <1>6 DEF Receiving, sender
<1>8. ASSUME NEW t \in Tsn, Has(t) PROVE Has(t)'
  <2>1. CASE t \in payload_queue
    BY <1>6, <2>1 DEF Has, queue
  <2>2. CASE Place(t) <= Place(peer_last_tsn)
    BY <1>0, <1>6, <2>2, PlaceFacts DEF Has, Typed
  <2> QED  BY <1>8, <2>1, <2>2 DEF Has
<1>9. ASSUME NEW t \in DOMAIN sent, Place(peer_last_tsn) < Place(t),
             Place(t) <= Place(peer_last_tsn')
      PROVE  t \in delivered'
  <2>1. t \in Tsn
    BY <1>0 DEF Histories, Within
  <2> QED  BY <1>5, <1>6, <1>9, <2>1
<1>10. payload_queue' \subseteq delivered' /\ delivered \subseteq delivered'
  BY <1>1, <1>5, <1>6
<1> QED  BY <1>1, <1>6, <1>7, <1>8, <1>9, <1>10, ReceiverStep

(* So does a FORWARD-TSN chunk (handle_forward_tsn): what it skips has been *)
(* abandoned.                                                               *)
LEMMA ForwardTsnStep ==
  ASSUME Inv, NEW p \in net, handle_forward_tsn(p)
  PROVE  Inv' /\ Place(peer_last_tsn) <= Place(peer_last_tsn')
<1>0. Typed /\ Window /\ Receiving /\ Network /\ Histories
  BY DEF Inv
<1>1. p.type = "FORWARD-TSN" /\ UNCHANGED <<sender, net, delivered>>
  BY DEF handle_forward_tsn
<1>2. /\ p.cum \in Tsn /\ Place(p.cum) \in Nat /\ Place(p.cum) < Half
      /\ Place(p.cum) <= Place(advanced_peer_tsn_ack_point)
      /\ Place(p.cum) < Place(q.my_next_tsn)
  <2>1. p.cum \in Tsn /\ Place(p.cum) <= Place(advanced_peer_tsn_ack_point)
    BY <1>0, <1>1 DEF Network
  <2> QED  BY <1>0, <2>1, Bounds, PlaceFacts DEF Window
<1>3. CASE sna32lte(p.cum, peer_last_tsn)
  <2>1. UNCHANGED <<peer_last_tsn, payload_queue>>
    BY <1>3 DEF handle_forward_tsn
  <2>2. Place(peer_last_tsn) <= Place(peer_last_tsn')
    BY <1>0, <2>1, Bounds
  <2> QED  BY <1>1, <2>1, <2>2, QuietStep DEF sender
<1>4. CASE ~sna32lte(p.cum, peer_last_tsn)
  <2> DEFINE queue == {t \in payload_queue : ~sna32lte(t, p.cum)}
  <2>1. handle_peer_last_tsn_and_acknowledgement(p.cum, queue)
    BY <1>4 DEF handle_forward_tsn
  <2>2. Place(peer_last_tsn) < Place(p.cum)
    BY <1>0, <1>2, <1>4, Bounds, PlaceOrder DEF Typed
  <2>3. ASSUME NEW t \in payload_queue
        PROVE  /\ t \in Tsn /\ Place(t) \in Nat /\ Place(t) < Place(q.my_next_tsn)
               /\ t \in queue <=> Place(p.cum) < Place(t)
    <3>1. t \in Tsn /\ Place(t) \in Nat /\ Place(t) < Place(q.my_next_tsn)
      BY <1>0, PlaceFacts DEF Receiving, Within
    <3>2. Place(t) < Half
      BY <1>0, <3>1, Bounds
    <3>3. sna32lte(t, p.cum) <=> Place(t) <= Place(p.cum)
      BY <1>2, <3>1, <3>2, PlaceOrder
    <3> QED  BY <1>2, <3>1, <3>3
  <2>4. queue \subseteq Within(p.cum, q.my_next_tsn) /\ queue \subseteq payload_queue
    BY <2>3 DEF Within
  <2> HIDE DEF queue
  <2>5. /\ peer_last_tsn' \in Tsn /\ Place(p.cum) <= Place(peer_last_tsn')
        /\ Place(peer_last_tsn') < Place(q.my_next_tsn)
        /\ payload_queue' \subseteq queue
        /\ payload_queue' \subseteq Within(peer_last_tsn', q.my_next_tsn)
        /\ Plus(peer_last_tsn', 1) \notin payload_queue'
        /\ \A t \in queue : t \in payload_queue' \/ Place(t) <= Place(peer_last_tsn')
        /\ \A t \in Tsn : Place(p.cum) < Place(t) /\ Place(t) <= Place(peer_last_tsn')
                          => t \in queue
    BY <1>0, <1>2, <2>1, <2>4, PoppedInSequence
  <2>6. /\ Place(peer_last_tsn') \in Nat /\ Place(peer_last_tsn) \in Nat
        /\ Place(peer_last_tsn) <= Place(peer_last_tsn')
    BY <1>0, <1>2, <2>2, <2>5, PlaceFacts DEF Typed
  <2>7. Receiving'
    BY <1>1, <2>5 DEF Receiving, sender
  <2>8. ASSUME NEW t \in Tsn, Has(t) PROVE Has(t)'
    <3>1. CASE t \in payload_queue
      <4>1. CASE t \in queue
        BY <2>5, <4>1 DEF Has
      <4>2. CASE t \notin queue
        BY <1>2, <2>3, <2>5, <2>6, <3>1, <4>2 DEF Has
      <4> QED  BY <4>1, <4>2
    <3>2. CASE Place(t) <= Place(peer_last_tsn)
      BY <2>6, <3>2, PlaceFacts DEF Has
    <3> QED  BY <2>8, <3>1, <3>2 DEF Has
  <2>9. ASSUME NEW t \in DOMAIN sent, sent[t].policy = "reliable",
               Place(t) <= Place(peer_last_tsn')
        PROVE  t \in delivered'
    <3>1. t \in Tsn /\ Place(t) \in Nat
      BY <1>0, PlaceFacts DEF Histories, Within
    <3>2. CASE Place(t) <= Place(p.cum)
      <4>1. Place(t) <= Place(advanced_peer_tsn_ack_point)
        BY <1>0, <1>2, <3>1, <3>2, Bounds
      <4> QED  BY <1>0, <1>1, <2>9, <4>1 DEF Histories
    <3>3. CASE Place(p.cum) < Place(t)
      BY <1>0, <1>1, <2>4, <2>5, <2>9, <3>1, <3>3 DEF Histories
    <3> QED  BY <1>2, <3>1, <3>2, <3>3
  <2>10. payload_queue' \subseteq delivered' /\ delivered \subseteq delivered'
    BY <1>0, <1>1, <2>4, <2>5 DEF Histories
  <2> QED  BY <1>1, <2>5, <2>6, <2>7, <2>8, <2>9, <2>10, ReceiverStep
<1> QED  BY <1>3, <1>4

(* A new SACK: what it leaves open is above what older ones acknowledge. *)
LEMMA SackSent ==
  ASSUME Inv, NEW credit \in scenario.windows, send_sack(credit)
  PROVE  Inv'
<1> DEFINE new == Sack(peer_last_tsn,
                    {Minus(t, peer_last_tsn) : t \in payload_queue} \cap 1 .. MaxGap,
                    credit)
<1>0. /\ Typed /\ Window /\ Receiving /\ Network /\ Acks /\ OnePolicy /\ Histories
      /\ RecoveryEnds /\ SackNeverRefused
  BY DEF Inv
<1>1. /\ net' = net \cup {new}
      /\ UNCHANGED <<sender, peer_last_tsn, payload_queue, delivered>>
  BY DEF send_sack
<1>2. new.type = "SACK" /\ new.cum = peer_last_tsn /\ new.a_rwnd \in Nat
  <2>1. credit \in Nat
    BY <1>0, TransferAssumption DEF Typed
  <2> QED  BY <2>1 DEF Sack
<1>3. Gapped(new) \subseteq payload_queue
  <2>1. ASSUME NEW t \in payload_queue
        PROVE  Plus(peer_last_tsn, Minus(t, peer_last_tsn)) = t
    <3>1. t \in Tsn /\ peer_last_tsn \in Tsn
      BY <1>0 DEF Receiving, Within, Typed
    <3> QED  BY <3>1, PlaceOf
  <2> QED  BY <2>1 DEF Gapped, Sack
<1> HIDE DEF new
<1>4. /\ Typed' /\ Window' /\ Receiving' /\ OnePolicy' /\ Histories' /\ RecoveryEnds'
      /\ SackNeverRefused'
  BY <1>0, <1>1, ZenonT(60) DEF Typed, Window, Receiving, OnePolicy, Histories, RecoveryEnds,
                    SackNeverRefused, sender
<1>5. Network'
  <2>1. \A t \in Gapped(new) : Has(t)
    BY <1>3 DEF Has
  <2>2. Gapped(new) \subseteq Within(peer_last_tsn, q.my_next_tsn)
    BY <1>0, <1>3 DEF Receiving
  <2>3. peer_last_tsn \in Tsn /\ Place(peer_last_tsn) <= Place(peer_last_tsn)
    <3>1. peer_last_tsn \in Tsn
      BY <1>0 DEF Typed
    <3>2. Place(peer_last_tsn) \in Nat
      BY <1>0, Bounds
    <3> QED  BY <3>1, <3>2
  <2> QED  BY <1>0, <1>1, <1>2, <2>1, <2>2, <2>3, ZenonT(60) DEF Network, Has, Gapped, sender
<1>6. Acks'
  <2>1. \A t : (Acked(t)' <=> Acked(t)) /\ (Has(t)' <=> Has(t))
    BY <1>1 DEF Acked, Has, sender
  <2>2. Plus(peer_last_tsn, 1) \in Tsn
        /\ Place(Plus(peer_last_tsn, 1)) = Place(peer_last_tsn) + 1
    <3>1. peer_last_tsn \in Tsn /\ Place(peer_last_tsn) + 1 < 2 * Half
      BY <1>0, Bounds DEF Typed
    <3> QED  BY <3>1, PlaceFacts
  <2>3. ~Has(Plus(peer_last_tsn, 1))
    BY <1>0, <2>2, Bounds DEF Has, Receiving
  <2>4. ~Acked(Plus(peer_last_tsn, 1))
    BY <1>0, <2>3 DEF Acks, Acked
  <2>5. ASSUME NEW e \in net', e.type = "SACK"
        PROVE  Plus(peer_last_tsn, 1) \notin Gapped(e)
    <3>1. CASE e \in net
      BY <1>0, <2>3, <2>5, <3>1 DEF Network
    <3>2. CASE e = new
      BY <1>3, <2>3, <3>2 DEF Has
    <3> QED  BY <1>1, <3>1, <3>2
  <2>6. ASSUME NEW d \in net, d.type = "SACK"
        PROVE  Plus(d.cum, 1) \notin Gapped(new)
    <3>1. d.cum \in Tsn /\ Place(d.cum) \in Nat /\ Place(d.cum) <= Place(peer_last_tsn)
      BY <1>0, <2>6, PlaceFacts DEF Network
    <3>2. Place(Plus(d.cum, 1)) = Place(d.cum) + 1 /\ Plus(d.cum, 1) \in Tsn
      BY <1>0, <3>1, Bounds, PlaceFacts
    <3>3. CASE Place(d.cum) = Place(peer_last_tsn)
      <4>1. d.cum = peer_last_tsn
        BY <1>0, <3>1, <3>3, PlaceFacts, ZenonT(60) DEF Typed
      <4> QED  BY <1>0, <1>3, <4>1 DEF Receiving
    <3>4. CASE Place(d.cum) < Place(peer_last_tsn)
      <4>1. ~(Place(peer_last_tsn) < Place(Plus(d.cum, 1)))
        BY <1>0, <3>1, <3>2, <3>4, Bounds
      <4> QED  BY <1>0, <1>3, <4>1 DEF Receiving, Within
    <3> QED  BY <1>0, <3>1, <3>3, <3>4, Bounds
  <2>7. ASSUME NEW d \in net', d.type = "SACK"
        PROVE  /\ ~Acked(Plus(d.cum, 1))
               /\ \A e \in net' : e.type = "SACK" => Plus(d.cum, 1) \notin Gapped(e)
    <3>1. CASE d = new
      BY <1>2, <2>4, <2>5, <3>1
    <3>2. CASE d \in net
      BY <1>0, <1>1, <2>6, <2>7, <3>2 DEF Acks
    <3> QED  BY <1>1, <3>1, <3>2
  <2> QED  BY <1>0, <1>1, <2>1, <2>7 DEF Acks, sender, Gapped
<1> QED  BY <1>4, <1>5, <1>6 DEF Inv
=============================================================================
