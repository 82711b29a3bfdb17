------------------------ MODULE TransferSender_proofs -----------------------
(***************************************************************************)
(* The invariant of TransferReceiver_proofs is kept by the steps of the    *)
(* sender other than a poll: write, handle_sack and T3-rtx.                *)
(***************************************************************************)
EXTENDS TransferReceiver_proofs

USE HalfAssumption, QueueAssumption

(* advance_peer_tsn_ack_point passes only TSNs that are acknowledged, were  *)
(* passed before, or are abandoned.                                         *)
LEMMA AdvancedPoint ==
  ASSUME NEW flight, NEW cum \in Tsn, NEW adv \in Tsn, NEW next \in Tsn,
         Place(cum) < Place(next), Place(adv) < Place(next), Place(next) < Half,
         \A t \in DOMAIN flight : t \in Tsn /\ Place(t) < Place(next)
  PROVE  LET a == IF UseForwardTsn THEN advance_peer_tsn_ack_point(flight, cum, adv)
                  ELSE adv
         IN  /\ a \in Tsn /\ Place(adv) <= Place(a) /\ Place(a) < Place(next)
             /\ \A t \in Tsn : Place(t) <= Place(a) =>
                  \/ Place(t) <= Place(cum) \/ Place(t) <= Place(adv)
                  \/ t \in DOMAIN flight /\ flight[t].abandoned
<1> DEFINE S == {t \in DOMAIN flight : flight[t].abandoned}
           from == IF sna32lt(adv, cum) THEN cum ELSE adv
           top == Place(next) - 1
           z == Plus(from, RunLength(from, S))
<1>1. /\ Place(cum) \in Nat /\ Place(adv) \in Nat /\ Place(next) \in Nat
      /\ \A t \in Tsn : Place(t) \in Nat
  BY PlaceFacts
<1>2. sna32lt(adv, cum) <=> Place(adv) < Place(cum)
  BY <1>1, PlaceOrder
<1>3. /\ from \in Tsn /\ from \in {cum, adv} /\ Place(adv) <= Place(from)
      /\ Place(from) \in Nat /\ Place(from) <= top /\ top \in Nat /\ top < Half
  BY <1>1, <1>2
<1>4. \A u \in S : u \in Tsn /\ Place(u) <= top
  BY <1>1
<1>5. /\ z \in Tsn /\ Place(from) <= Place(z) /\ Place(z) <= top
      /\ \A u \in Tsn : Place(from) < Place(u) /\ Place(u) <= Place(z) => u \in S
  <2> HIDE DEF S, from, top
  <2> QED  BY <1>3, <1>4, RunPlaces
<1>6. advance_peer_tsn_ack_point(flight, cum, adv) = z
  BY DEF advance_peer_tsn_ack_point
<1> HIDE DEF from, z, S
<1>7. /\ Place(adv) <= Place(z) /\ Place(z) < Place(next)
  BY <1>1, <1>3, <1>5
<1>8. ASSUME NEW t \in Tsn, Place(t) <= Place(z)
      PROVE  Place(t) <= Place(cum) \/ Place(t) <= Place(adv) \/ t \in S
  BY <1>1, <1>3, <1>5, <1>8
<1>9. CASE UseForwardTsn
  BY <1>5, <1>6, <1>7, <1>8, <1>9 DEF S
<1>10. CASE ~UseForwardTsn
  BY <1>1, <1>10
<1> QED  BY <1>9, <1>10

(* The points of the sender that move, and the DATA and FORWARD-TSN it      *)
(* sends, leave true what the network and the receiver hold.                *)
LEMMA SenderNetwork ==
  ASSUME Inv, UNCHANGED receiver, q'.my_next_tsn \in Tsn,
         Place(q.my_next_tsn) <= Place(q'.my_next_tsn),
         advanced_peer_tsn_ack_point' \in Tsn,
         Place(advanced_peer_tsn_ack_point) <= Place(advanced_peer_tsn_ack_point'),
         \A p \in net' :
           \/ p \in net
           \/ p.type = "DATA" /\ p.tsn \in Within(Base, q'.my_next_tsn)
           \/ p.type = "FORWARD-TSN" /\ p.cum = advanced_peer_tsn_ack_point'
  PROVE  Receiving' /\ Network'
<1>0. Typed /\ Window /\ Receiving /\ Network
  BY DEF Inv
<1>1. \A a \in Tsn : Within(a, q.my_next_tsn) \subseteq Within(a, q'.my_next_tsn)
  <2>1. /\ Place(q.my_next_tsn) \in Nat /\ Place(q'.my_next_tsn) \in Nat
        /\ \A t \in Tsn : Place(t) \in Nat
    BY <1>0, Bounds, PlaceFacts
  <2> QED  BY <2>1 DEF Within
<1>2. Receiving'
  BY <1>0, <1>1 DEF Receiving, Typed, receiver
<1>3. \A t : Has(t)' <=> Has(t)
  BY DEF Has, receiver
<1>4. ASSUME NEW p \in net
      PROVE  /\ p.type = "DATA" => p.tsn \in Within(Base, q'.my_next_tsn)
             /\ p.type = "SACK" => Gapped(p) \subseteq Within(p.cum, q'.my_next_tsn)
             /\ p.type = "FORWARD-TSN" =>
                  /\ p.cum \in Tsn
                  /\ Place(p.cum) <= Place(advanced_peer_tsn_ack_point')
  <2>1. CASE p.type = "DATA"
    BY <1>0, <1>1, <2>1, PlaceFacts DEF Network
  <2>2. CASE p.type = "SACK"
    BY <1>0, <1>1, <2>2 DEF Network
  <2>3. CASE p.type = "FORWARD-TSN"
    BY <1>0, <2>3, Bounds, PlaceFacts DEF Network
  <2> QED  BY <2>1, <2>2, <2>3
<1>5. Place(advanced_peer_tsn_ack_point') <= Place(advanced_peer_tsn_ack_point')
  BY PlaceFacts
<1>6. ASSUME NEW p \in net'
      PROVE  /\ p.type = "DATA" => p.tsn \in Within(Base, q'.my_next_tsn)
             /\ p.type = "SACK" =>
                  /\ p.cum \in Tsn /\ Place(p.cum) <= Place(peer_last_tsn)
                  /\ p.a_rwnd \in Nat
                  /\ Gapped(p) \subseteq Within(p.cum, q'.my_next_tsn)
                  /\ \A t \in Gapped(p) : Has(t)
             /\ p.type = "FORWARD-TSN" =>
                  /\ p.cum \in Tsn
                  /\ Place(p.cum) <= Place(advanced_peer_tsn_ack_point')
  <2>1. CASE p \in net
    BY <1>0, <1>4, <2>1 DEF Network
  <2>2. CASE p \notin net
    BY <1>5, <2>2
  <2> QED  BY <2>1, <2>2
<1>7. Network'
  BY <1>3, <1>6 DEF Network, Gapped, receiver
<1> QED  BY <1>2, <1>7

(* Nothing in flight is newly acknowledged, and no new SACK is under way. *)
LEMMA AcksKept ==
  ASSUME Acks, UNCHANGED <<receiver, cumulative_tsn_ack_point>>,
         \A t : Acked(t)' => Acked(t),
         \A p \in net' : p.type = "SACK" => p \in net
  PROVE  Acks'
<1>1. \A t : Acked(t) => Has(t)
  BY DEF Acks, Acked
<1>2. \A t : Acked(t)' => Has(t)'
  BY <1>1 DEF Has, receiver
<1> QED  BY <1>2 DEF Acks, Gapped

(* Messages that were there keep their policy; expired ones are timed. *)
LEMMA PolicyKept ==
  ASSUME OnePolicy, Kinds(q') \subseteq Kinds(q),
         q'.next_message_id = q.next_message_id, expired' = expired
  PROVE  OnePolicy'
BY DEF OnePolicy

(* The history stays as it is while TSNs leave the flight. *)
LEMMA HistoriesKept ==
  ASSUME Inv, UNCHANGED <<receiver, sent>>, q'.my_next_tsn = q.my_next_tsn,
         DOMAIN q'.inflight \subseteq DOMAIN q.inflight,
         \A t \in DOMAIN q'.inflight :
           /\ q'.inflight[t].policy = q.inflight[t].policy
           /\ q'.inflight[t].abandoned = q.inflight[t].abandoned,
         \A t \in Tsn : Place(t) <= Place(advanced_peer_tsn_ack_point') =>
           \/ Place(t) <= Place(peer_last_tsn)
           \/ Place(t) <= Place(advanced_peer_tsn_ack_point)
           \/ t \in DOMAIN q.inflight /\ q.inflight[t].abandoned
  PROVE  Histories'
<1>0. Histories
  BY DEF Inv
<1>1. ASSUME NEW t \in DOMAIN sent, sent[t].policy = "reliable",
             \/ Place(t) <= Place(peer_last_tsn)
             \/ Place(t) <= Place(advanced_peer_tsn_ack_point')
      PROVE  t \in delivered
  <2>1. t \in Tsn
    BY <1>0 DEF Histories, Within
  <2>2. ~(t \in DOMAIN q.inflight /\ q.inflight[t].abandoned)
    BY <1>0, <1>1 DEF Histories
  <2> QED  BY <1>0, <1>1, <2>1, <2>2 DEF Histories
<1> QED  BY <1>0, <1>1 DEF Histories, receiver

(* A written message gets a new id, and its chunks one policy.              *)
LEMMA WriteStep ==
  ASSUME Inv, write
  PROVE  Inv'
<1> DEFINE m == Head(to_write)
           pushed == IF established THEN push(q, packetize(m)) ELSE q
<1>0. /\ Typed /\ Window /\ Acks /\ OnePolicy /\ Histories
      /\ RecoveryEnds /\ SackNeverRefused
  BY DEF Inv
<1>1. /\ to_write # <<>> /\ to_write' = Tail(to_write)
      /\ q' = [pushed EXCEPT
                 !.sequence_number[m.stream] = IF m.unordered THEN @ ELSE @ + 1,
                 !.buffered_amount[m.stream] = @ + m.fragments]
      /\ UNCHANGED <<scenario, cumulative_tsn_ack_point, advanced_peer_tsn_ack_point,
                     fast_recovery, expired, failed, sent, receiver, net>>
  BY DEF write
<1>2. m \in Messages /\ to_write' \in Seq(Messages)
  BY <1>0, <1>1, HeadTailProperties DEF Typed
<1>3. packetize(m) \in Seq(Pending)
      /\ \A i \in DOMAIN packetize(m) :
           /\ packetize(m)[i].message_id = q.next_message_id
           /\ packetize(m)[i].policy = m.policy
  <2> HIDE DEF m
  <2>1. /\ m.fragments \in Nat /\ m.stream \in Streams /\ m.unordered \in BOOLEAN
        /\ m.policy \in Policies
    BY <1>2 DEF Messages
  <2>2. q.next_message_id \in Nat /\ q.sequence_number[m.stream] \in Int
    BY <1>0, <2>1 DEF Typed, Queues
  <2>3. packetize(m) \in [1 .. m.fragments -> Pending]
    BY <2>1, <2>2 DEF packetize, Pending
  <2>4. packetize(m) \in Seq(Pending)
    BY <2>1, <2>3, SeqDef
  <2> QED  BY <2>4 DEF packetize
<1>4. /\ pushed \in Queues
      /\ pushed.inflight = q.inflight /\ pushed.my_next_tsn = q.my_next_tsn
      /\ \/ /\ pushed.next_message_id = q.next_message_id
            /\ Kinds(pushed) = Kinds(q)
         \/ /\ pushed.next_message_id = q.next_message_id + 1
            /\ Kinds(pushed) \subseteq Kinds(q) \cup {<<q.next_message_id, m.policy>>}
  <2> HIDE DEF m
  <2>1. q \in Queues
    BY <1>0 DEF Typed
  <2> QED  BY <1>3, <2>1, PushedChunks, ZenonT(60)
<1>5. /\ q' \in Queues
      /\ q'.inflight = q.inflight /\ q'.my_next_tsn = q.my_next_tsn
      /\ q'.next_message_id = pushed.next_message_id /\ Kinds(q') = Kinds(pushed)
  <2> DEFINE ssns == [pushed.sequence_number EXCEPT
                        ![m.stream] = IF m.unordered THEN @ ELSE @ + 1]
             amounts == [pushed.buffered_amount EXCEPT ![m.stream] = @ + m.fragments]
  <2>1. q' = [pushed EXCEPT !.sequence_number = ssns, !.buffered_amount = amounts]
    <3> HIDE DEF pushed, m
    <3> QED  BY <1>1
  <2> HIDE DEF pushed, m
  <2>2. m.fragments \in Nat /\ m.stream \in Streams /\ m.unordered \in BOOLEAN
    BY <1>2 DEF Messages
  <2>3. ssns \in [Streams -> Int] /\ amounts \in [Streams -> Int]
    <3>1. /\ pushed.sequence_number \in [Streams -> Int]
          /\ pushed.buffered_amount \in [Streams -> Int]
      BY <1>4 DEF Queues
    <3> QED  BY <2>2, <3>1
  <2> HIDE DEF ssns, amounts
  <2>4. /\ q' \in Queues
        /\ q'.inflight = pushed.inflight /\ q'.my_next_tsn = pushed.my_next_tsn
        /\ q'.next_message_id = pushed.next_message_id
        /\ q'.ordered_queue = pushed.ordered_queue
        /\ q'.unordered_queue = pushed.unordered_queue
    BY <1>4, <2>1, <2>3, ZenonT(60) DEF Queues
  <2> QED  BY <1>4, <2>4 DEF Kinds
<1> HIDE DEF pushed
<1>6. Typed'
  BY <1>0, <1>1, <1>2, <1>5 DEF Typed, receiver
<1>7. Window'
  BY <1>0, <1>1, <1>5 DEF Window, receiver
<1>8. Receiving' /\ Network'
  <2>1. /\ q'.my_next_tsn \in Tsn /\ Place(q.my_next_tsn) <= Place(q'.my_next_tsn)
        /\ advanced_peer_tsn_ack_point' \in Tsn
        /\ Place(advanced_peer_tsn_ack_point) <= Place(advanced_peer_tsn_ack_point')
    BY <1>0, <1>1, <1>5, Bounds DEF Typed
  <2> QED  BY <1>1, <2>1, SenderNetwork
<1>9. Acks'
  <2>1. \A t : Acked(t)' => Acked(t)
    BY <1>5 DEF Acked
  <2> QED  BY <1>0, <1>1, <2>1, AcksKept
<1>10. OnePolicy'
  <2>1. CASE /\ pushed.next_message_id = q.next_message_id
             /\ Kinds(pushed) = Kinds(q)
    BY <1>0, <1>1, <1>5, <2>1, PolicyKept
  <2>2. CASE /\ pushed.next_message_id = q.next_message_id + 1
             /\ Kinds(pushed) \subseteq Kinds(q) \cup {<<q.next_message_id, m.policy>>}
    <3> DEFINE id == q.next_message_id
               new == <<id, m.policy>>
    <3>1. id \in Nat
      BY <1>0 DEF Typed, Queues
    <3>2. /\ \A k \in Kinds(q) : k[1] < id /\ k[1] \in Nat
          /\ \A e \in expired : e < id /\ e \in Nat
      BY <1>0, KindsTyped DEF OnePolicy, Typed
    <3>3. new[1] = id /\ new[2] = m.policy
      OBVIOUS
    <3> HIDE DEF new, id, m
    <3>4. Kinds(q') \subseteq Kinds(q) \cup {new} /\ q'.next_message_id = id + 1
      BY <1>5, <2>2 DEF new, id
    <3>5. ASSUME NEW k \in Kinds(q'), NEW l \in Kinds(q'), k[1] = l[1]
          PROVE  k[2] = l[2]
      <4>1. CASE k \in Kinds(q) /\ l \in Kinds(q)
        BY <1>0, <3>5, <4>1 DEF OnePolicy
      <4>2. CASE k = new /\ l = new
        BY <4>2
      <4>3. CASE k = new /\ l \in Kinds(q)
        BY <3>1, <3>2, <3>3, <3>5, <4>3
      <4>4. CASE k \in Kinds(q) /\ l = new
        BY <3>1, <3>2, <3>3, <3>5, <4>4
      <4> QED  BY <3>4, <4>1, <4>2, <4>3, <4>4
    <3>6. ASSUME NEW k \in Kinds(q') PROVE k[1] < id + 1
      BY <3>1, <3>2, <3>3, <3>4
    <3>7. ASSUME NEW e \in expired
          PROVE  /\ e \in Nat /\ e < id + 1
                 /\ \A k \in Kinds(q') : k[1] = e => k[2] = "timed"
      <4>1. e \in Nat /\ e < id + 1 /\ new[1] # e
        BY <3>1, <3>2, <3>3
      <4>2. \A k \in Kinds(q) : k[1] = e => k[2] = "timed"
        BY <1>0 DEF OnePolicy
      <4> QED  BY <3>4, <4>1, <4>2
    <3> QED  BY <1>1, <3>4, <3>5, <3>6, <3>7 DEF OnePolicy
  <2> QED  BY <1>4, <2>1, <2>2
<1>11. Histories'
  <2>1. ASSUME NEW t \in Tsn, Place(t) <= Place(advanced_peer_tsn_ack_point')
        PROVE  Place(t) <= Place(advanced_peer_tsn_ack_point)
    BY <1>1, <2>1
  <2> QED  BY <1>1, <1>5, <2>1, HistoriesKept
<1>12. RecoveryEnds' /\ SackNeverRefused'
  BY <1>0, <1>1, <1>5 DEF RecoveryEnds, SackNeverRefused
<1> QED  BY <1>6, <1>7, <1>8, <1>9, <1>10, <1>11, <1>12 DEF Inv

(* T3-rtx marks what is in flight and changes no TSN.                       *)
LEMMA T3Step ==
  ASSUME Inv, on_t3_timeout
  PROVE  Inv' /\ Place(advanced_peer_tsn_ack_point) <= Place(advanced_peer_tsn_ack_point')
<1> DEFINE advanced == IF UseForwardTsn
                       THEN advance_peer_tsn_ack_point(q.inflight,
                              cumulative_tsn_ack_point, advanced_peer_tsn_ack_point)
                       ELSE advanced_peer_tsn_ack_point
           flight == [t \in DOMAIN q.inflight |->
                        [q.inflight[t] EXCEPT
                           !.retransmit = @ \/ Outstanding(q.inflight[t])]]
<1>0. /\ Typed /\ Window /\ Acks /\ OnePolicy /\ Histories
      /\ RecoveryEnds /\ SackNeverRefused
  BY DEF Inv
<1>1. UNCHANGED <<scenario, cumulative_tsn_ack_point, fast_recovery, expired, to_write,
                  failed, sent, receiver, net>>
  BY DEF on_t3_timeout
<1>2. CASE T3Fails
  <2>1. UNCHANGED <<q, advanced_peer_tsn_ack_point>>
    BY <1>2 DEF on_t3_timeout
  <2>2. Inv'
    BY <1>1, <2>1, QuietStep DEF receiver
  <2> QED  BY <1>0, <2>1, <2>2, Bounds
<1>3. CASE ~T3Fails
  <2>1. q' = [q EXCEPT !.inflight = flight] /\ advanced_peer_tsn_ack_point' = advanced
    BY <1>3 DEF on_t3_timeout
  <2>2. /\ DOMAIN flight = DOMAIN q.inflight
        /\ \A t \in DOMAIN q.inflight :
             /\ flight[t] \in Flying
             /\ flight[t].acked = q.inflight[t].acked
             /\ flight[t].policy = q.inflight[t].policy
             /\ flight[t].abandoned = q.inflight[t].abandoned
             /\ flight[t].message_id = q.inflight[t].message_id
    <3>1. ASSUME NEW t \in DOMAIN q.inflight
          PROVE  /\ flight[t] \in Flying
                 /\ flight[t].acked = q.inflight[t].acked
                 /\ flight[t].policy = q.inflight[t].policy
                 /\ flight[t].abandoned = q.inflight[t].abandoned
                 /\ flight[t].message_id = q.inflight[t].message_id
      <4> DEFINE c == q.inflight[t]
                 again == c.retransmit \/ Outstanding(c)
      <4>1. flight[t] = [c EXCEPT !.retransmit = again]
        OBVIOUS
      <4>2. c \in Flying
        BY <1>0, Bounds
      <4>3. again \in BOOLEAN
        BY DEF Outstanding
      <4> HIDE DEF flight, c, again
      <4>4. /\ flight[t] \in Flying /\ flight[t].acked = c.acked
            /\ flight[t].policy = c.policy /\ flight[t].abandoned = c.abandoned
            /\ flight[t].message_id = c.message_id
        BY <4>1, <4>2, <4>3 DEF Flying
      <4> QED  BY <4>4 DEF c
    <3> QED  BY <3>1, ZenonT(60)
  <2>3. flight = [t \in DOMAIN q.inflight |-> flight[t]]
    OBVIOUS
  <2> HIDE DEF flight
  <2>4. flight \in UNION {[T -> Flying] : T \in SUBSET Tsn}
    <3>1. flight \in [DOMAIN q.inflight -> Flying]
      BY <2>2, <2>3
    <3> QED  BY <1>0, <3>1, Bounds
  <2>5. /\ q' \in Queues /\ q'.inflight = flight /\ q'.my_next_tsn = q.my_next_tsn
        /\ q'.next_message_id = q.next_message_id
        /\ q'.ordered_queue = q.ordered_queue /\ q'.unordered_queue = q.unordered_queue
    BY <1>0, <2>1, <2>4, ZenonT(60) DEF Typed, Queues
  <2>6. Kinds(q') \subseteq Kinds(q)
    <3>1. KindsIn(flight) \subseteq KindsIn(q.inflight)
      BY <2>2 DEF KindsIn
    <3> QED  BY <2>5, <3>1 DEF Kinds
  <2>7. /\ advanced \in Tsn /\ Place(advanced_peer_tsn_ack_point) <= Place(advanced)
        /\ Place(advanced) < Place(q.my_next_tsn)
        /\ \A t \in Tsn : Place(t) <= Place(advanced) =>
             \/ Place(t) <= Place(cumulative_tsn_ack_point)
             \/ Place(t) <= Place(advanced_peer_tsn_ack_point)
             \/ t \in DOMAIN q.inflight /\ q.inflight[t].abandoned
    <3>1. /\ cumulative_tsn_ack_point \in Tsn /\ advanced_peer_tsn_ack_point \in Tsn
          /\ q.my_next_tsn \in Tsn /\ Place(q.my_next_tsn) < Half
          /\ Place(cumulative_tsn_ack_point) < Place(q.my_next_tsn)
          /\ Place(advanced_peer_tsn_ack_point) < Place(q.my_next_tsn)
      BY <1>0, Bounds DEF Typed, Window
    <3>2. \A t \in DOMAIN q.inflight : t \in Tsn /\ Place(t) < Place(q.my_next_tsn)
      BY <1>0 DEF Window, Within
    <3> QED  BY <3>1, <3>2, AdvancedPoint, ZenonT(60)
  <2> HIDE DEF advanced
  <2>8. Typed' /\ Window'
    BY <1>0, <1>1, <2>1, <2>2, <2>5, <2>7 DEF Typed, Window, receiver
  <2>9. Receiving' /\ Network'
    <3>1. q'.my_next_tsn \in Tsn /\ Place(q.my_next_tsn) <= Place(q'.my_next_tsn)
      BY <1>0, <2>5, Bounds
    <3> QED  BY <1>1, <2>1, <2>7, <3>1, SenderNetwork
  <2>10. Acks'
    <3>1. \A t : Acked(t)' => Acked(t)
      BY <2>2, <2>5 DEF Acked
    <3> QED  BY <1>0, <1>1, <3>1, AcksKept
  <2>11. OnePolicy'
    BY <1>0, <1>1, <2>5, <2>6, PolicyKept
  <2>12. Histories'
    <3>1. ASSUME NEW t \in Tsn, Place(t) <= Place(advanced_peer_tsn_ack_point')
          PROVE  \/ Place(t) <= Place(peer_last_tsn)
                 \/ Place(t) <= Place(advanced_peer_tsn_ack_point)
                 \/ t \in DOMAIN q.inflight /\ q.inflight[t].abandoned
      <4>1. Place(t) <= Place(cumulative_tsn_ack_point) => Place(t) <= Place(peer_last_tsn)
        BY <1>0, Bounds, PlaceFacts DEF Window
      <4> QED  BY <2>1, <2>7, <3>1, <4>1
    <3> QED  BY <1>1, <2>2, <2>5, <3>1, HistoriesKept
  <2>13. RecoveryEnds' /\ SackNeverRefused'
    BY <1>0, <1>1, <2>2, <2>5 DEF RecoveryEnds, SackNeverRefused
  <2>14. Inv'
    BY <2>8, <2>9, <2>10, <2>11, <2>12, <2>13 DEF Inv
  <2> QED  BY <2>1, <2>7, <2>14
<1> QED  BY <1>2, <1>3

(* A SACK that is not stale fits the flight: what it acknowledges and what  *)
(* it reports missing is all there.                                         *)
LEMMA SackFits ==
  ASSUME Inv, NEW d \in net, d.type = "SACK", ~Stale(d)
  PROVE  /\ d.cum \in Tsn /\ Place(cumulative_tsn_ack_point) <= Place(d.cum)
         /\ Advances(d) <=> Place(cumulative_tsn_ack_point) < Place(d.cum)
         /\ DOMAIN q.inflight \ Popped(d) = Within(d.cum, q.my_next_tsn)
         /\ ~Refused(d)
         /\ ThirdReport(d) => Htna(d) \in Within(d.cum, q.my_next_tsn)
<1> DEFINE cum == cumulative_tsn_ack_point
           next == q.my_next_tsn
           n == Minus(d.cum, cum)
<1>0. Typed /\ Window /\ Network
  BY DEF Inv
<1>1. /\ d.cum \in Tsn /\ Place(d.cum) \in Nat /\ Place(d.cum) <= Place(peer_last_tsn)
      /\ Gapped(d) \subseteq Within(d.cum, next)
  BY <1>0, PlaceFacts DEF Network
<1>2. /\ cum \in Tsn /\ next \in Tsn /\ Place(cum) \in Nat /\ Place(next) \in Nat
      /\ Place(next) < Half /\ Place(d.cum) < Place(next) /\ Place(cum) < Half
      /\ Place(d.cum) < Half
  BY <1>0, <1>1, Bounds DEF Typed, Window
<1>3. Place(cum) <= Place(d.cum) /\ (Advances(d) <=> Place(cum) < Place(d.cum))
  <2>1. /\ sna32gt(cum, d.cum) <=> Place(cum) > Place(d.cum)
        /\ sna32lt(cum, d.cum) <=> Place(cum) < Place(d.cum)
    BY <1>1, <1>2, PlaceOrder
  <2> QED  BY <1>1, <1>2, <2>1 DEF Stale, Advances
<1>4. Popped(d) = {t \in Tsn : Place(cum) < Place(t) /\ Place(t) <= Place(d.cum)}
  <2>1. n = Place(d.cum) - Place(cum) /\ n \in Nat
    BY <1>1, <1>2, <1>3, PlaceFacts
  <2> HIDE DEF n
  <2>2. {Plus(cum, i) : i \in 1 .. n}
          = {t \in Tsn : Place(cum) < Place(t) /\ Place(t) <= Place(cum) + n}
    <3>1. Place(cum) + n < 2 * Half
      BY <1>1, <1>2, <2>1
    <3> QED  BY <1>2, <2>1, <3>1, Span
  <2>3. Place(cum) + n = Place(d.cum)
    BY <1>1, <1>2, <2>1
  <2>4. Popped(d) = {Plus(cum, i) : i \in 1 .. n}
    <3>1. CASE Advances(d)
      BY <3>1 DEF Popped, n
    <3>2. CASE ~Advances(d)
      <4>1. n = 0
        BY <1>1, <1>2, <1>3, <2>1, <3>2
      <4> QED  BY <3>2, <4>1 DEF Popped
    <3> QED  BY <3>1, <3>2
  <2> QED  BY <2>2, <2>3, <2>4
<1>5. DOMAIN q.inflight = Within(cum, next)
  BY <1>0 DEF Window
<1>6. /\ DOMAIN q.inflight \ Popped(d) = Within(d.cum, next)
      /\ Popped(d) \subseteq DOMAIN q.inflight
  <2>1. \A t \in Tsn : Place(t) \in Nat
    BY PlaceFacts
  <2> QED  BY <1>1, <1>2, <1>3, <1>4, <1>5, <2>1 DEF Within
<1> HIDE DEF cum, next, n
<1>7. /\ Htna(d) \in {d.cum} \cup Gapped(d) /\ Htna(d) \in Tsn
      /\ Place(d.cum) <= Place(Htna(d)) /\ Place(Htna(d)) < Place(next)
  <2> DEFINE S == {d.cum} \cup {t \in NewlyGapped(d) : ~q.inflight[t].abandoned}
  <2>1. S # {} /\ S \subseteq {d.cum} \cup Gapped(d) /\ d.cum \in S /\ Htna(d) = LastOf(S)
    BY DEF Htna, NewlyGapped
  <2>2. \A t \in S : /\ t \in Tsn /\ Place(t) \in Nat
                      /\ Place(t) < Place(next) /\ Place(t) < Half
    <3>1. \A t \in Within(d.cum, next) : t \in Tsn /\ Place(t) < Place(next)
      BY DEF Within
    <3> QED  BY <1>1, <1>2, <2>1, <3>1, PlaceFacts
  <2> HIDE DEF S
  <2>3. LastOf(S) \in S /\ \A t \in S : Place(t) <= Place(LastOf(S))
    BY <2>1, <2>2, LastPlace
  <2> QED  BY <2>1, <2>2, <2>3
<1>8. /\ Place(Htna(d)) \in Nat
      /\ Minus(Htna(d), d.cum) = Place(Htna(d)) - Place(d.cum)
  BY <1>1, <1>7, PlaceFacts
<1> DEFINE flying == Cardinality(DOMAIN q.inflight \ Popped(d))
           ahead == IF StillRecovering(d) THEN flying ELSE Less(Minus(Htna(d), d.cum), 1)
<1>9. ahead \in Nat /\ Place(d.cum) + ahead < Place(next)
  <2>1. CASE StillRecovering(d)
    <3>1. flying = Place(next) - Place(d.cum) - 1
      BY <1>1, <1>2, <1>6, WithinSize, ZenonT(60) DEF next
    <3> QED  BY <1>1, <1>2, <2>1, <3>1
  <2>2. CASE ~StillRecovering(d)
    BY <1>1, <1>2, <1>7, <1>8, <2>2 DEF Less
  <2> QED  BY <2>1, <2>2
<1>10. Reported(d) \subseteq {Plus(d.cum, i) : i \in 1 .. ahead}
  BY DEF Reported
<1>11. {Plus(d.cum, i) : i \in 1 .. ahead} \subseteq Within(d.cum, next)
  <2> HIDE DEF ahead
  <2>1. {Plus(d.cum, i) : i \in 1 .. ahead}
          = {t \in Tsn : Place(d.cum) < Place(t) /\ Place(t) <= Place(d.cum) + ahead}
    <3>1. Place(d.cum) + ahead < 2 * Half
      BY <1>1, <1>2, <1>9
    <3> QED  BY <1>1, <1>9, <3>1, Span
  <2>2. \A t \in Tsn : Place(t) <= Place(d.cum) + ahead => Place(t) < Place(next)
    BY <1>1, <1>2, <1>9, PlaceFacts
  <2> QED  BY <2>1, <2>2 DEF Within
<1>12. ~Refused(d)
  <2> HIDE DEF ahead
  <2> QED  BY <1>1, <1>6, <1>10, <1>11 DEF Refused
<1>13. ASSUME ThirdReport(d) PROVE Htna(d) \in Within(d.cum, next)
  <2>1. PICK t \in DOMAIN Acknowledged(d) :
          /\ Acknowledged(d)[t].miss = 3 /\ q.inflight[t].miss = 2
    BY <1>13 DEF ThirdReport
  <2>2. t \in DOMAIN q.inflight \ Popped(d) /\ q.inflight[t] \in Flying
    BY <1>0, <2>1, Bounds, ZenonT(60) DEF Acknowledged
  <2>3. t \in Reported(d)
    <3> SUFFICES ASSUME t \notin Reported(d) PROVE FALSE
      OBVIOUS
    <3>1. \/ Acknowledged(d)[t] = q.inflight[t]
          \/ Acknowledged(d)[t] = [q.inflight[t] EXCEPT !.acked = TRUE, !.retransmit = FALSE]
      BY <2>2, ZenonT(60) DEF Acknowledged
    <3>2. Acknowledged(d)[t].miss = q.inflight[t].miss
      BY <2>2, <3>1, ZenonT(60) DEF Flying
    <3> QED  BY <2>1, <3>2
  <2>4. ~StillRecovering(d)
    BY <1>13 DEF ThirdReport
  <2>5. ahead > 0
    BY <1>9, <1>10, <2>3
  <2>6. Place(Htna(d)) - Place(d.cum) > 1
    BY <1>1, <1>8, <2>4, <2>5 DEF Less
  <2> HIDE DEF ahead
  <2> QED  BY <1>1, <1>7, <1>8, <2>6 DEF Within
<1> QED  BY <1>1, <1>3, <1>6, <1>12, <1>13 DEF cum, next

(* The flight after a SACK. *)
LEMMA SackedFlight ==
  ASSUME Inv, NEW d \in net, d.type = "SACK", ~Stale(d)
  PROVE  /\ DOMAIN Acknowledged(d) = Within(d.cum, q.my_next_tsn)
         /\ DOMAIN Acknowledged(d) \subseteq DOMAIN q.inflight
         /\ Acknowledged(d) \in UNION {[T -> Flying] : T \in SUBSET Tsn}
         /\ \A t \in DOMAIN Acknowledged(d) :
              /\ Acknowledged(d)[t].policy = q.inflight[t].policy
              /\ Acknowledged(d)[t].message_id = q.inflight[t].message_id
              /\ Acknowledged(d)[t].abandoned = q.inflight[t].abandoned
              /\ Acknowledged(d)[t].acked => q.inflight[t].acked \/ t \in Gapped(d)
<1> DEFINE f == Acknowledged(d)
<1>0. Typed /\ Window
  BY DEF Inv
<1>1. /\ DOMAIN f = DOMAIN q.inflight \ Popped(d)
      /\ f = [t \in DOMAIN f |-> f[t]]
  BY ZenonT(60) DEF Acknowledged
<1>2. DOMAIN f = Within(d.cum, q.my_next_tsn)
  BY <1>1, SackFits
<1>3. ASSUME NEW t \in DOMAIN f
      PROVE  /\ f[t] \in Flying
             /\ f[t].policy = q.inflight[t].policy
             /\ f[t].message_id = q.inflight[t].message_id
             /\ f[t].abandoned = q.inflight[t].abandoned
             /\ f[t].acked => q.inflight[t].acked \/ t \in Gapped(d)
  <2> DEFINE c == q.inflight[t]
             m == Min2(c.miss + 1, 3)
  <2>1. c \in Flying /\ t \in DOMAIN q.inflight
    BY <1>0, <1>1, Bounds
  <2>2. m \in Nat
    BY <2>1 DEF Flying, Min2
  <2>3. \/ f[t] = c
        \/ f[t] = [c EXCEPT !.miss = m]
        \/ f[t] = [c EXCEPT !.acked = TRUE, !.retransmit = FALSE] /\ t \in Gapped(d)
    BY <1>1, <2>1, ZenonT(60) DEF Acknowledged, NewlyGapped
  <2> HIDE DEF f, c, m
  <2>4. /\ f[t] \in Flying /\ f[t].policy = c.policy
        /\ f[t].message_id = c.message_id /\ f[t].abandoned = c.abandoned
        /\ f[t].acked => c.acked \/ t \in Gapped(d)
    <3>1. CASE f[t] = c
      BY <2>1, <3>1
    <3>2. CASE f[t] = [c EXCEPT !.miss = m]
      BY <2>1, <2>2, <3>2 DEF Flying
    <3>3. CASE f[t] = [c EXCEPT !.acked = TRUE, !.retransmit = FALSE] /\ t \in Gapped(d)
      BY <2>1, <3>3, ZenonT(60) DEF Flying
    <3> QED  BY <2>3, <3>1, <3>2, <3>3
  <2> QED  BY <2>4 DEF c
<1> HIDE DEF f
<1>4. f \in UNION {[T -> Flying] : T \in SUBSET Tsn}
  <2>1. f \in [DOMAIN f -> Flying]
    BY <1>1, <1>3
  <2>2. DOMAIN f \in SUBSET Tsn
    BY <1>2 DEF Within
  <2> QED  BY <2>1, <2>2
<1>5. DOMAIN f \subseteq DOMAIN q.inflight
  BY <1>1
<1> QED  BY <1>2, <1>3, <1>4, <1>5 DEF f

(* A SACK pops the flight up to its cumulative TSN and no further, and both *)
(* points of the sender only move forward.                                  *)
LEMMA SackStep ==
  ASSUME Inv, NEW d \in net, handle_sack(d)
  PROVE  /\ Inv'
         /\ Place(cumulative_tsn_ack_point) <= Place(cumulative_tsn_ack_point')
         /\ Place(advanced_peer_tsn_ack_point) <= Place(advanced_peer_tsn_ack_point')
<1> DEFINE cum == cumulative_tsn_ack_point
           next == q.my_next_tsn
           flight == Acknowledged(d)
           left == [q EXCEPT !.inflight = flight]
           room == Less(d.a_rwnd, inflight_bytes(left))
           advanced == IF UseForwardTsn
                       THEN advance_peer_tsn_ack_point(flight, d.cum,
                              advanced_peer_tsn_ack_point)
                       ELSE advanced_peer_tsn_ack_point
           released == [s \in Streams |-> Cardinality(
                          {t \in Credited(d) : q.inflight[t].stream = s})]
<1>0. /\ Typed /\ Window /\ Network /\ Acks /\ OnePolicy /\ Histories
      /\ RecoveryEnds /\ SackNeverRefused
  BY DEF Inv
<1>1. d.type = "SACK" /\ ~Stale(d)
  BY DEF handle_sack
<1>2. /\ d.cum \in Tsn /\ Place(cum) <= Place(d.cum)
      /\ Advances(d) <=> Place(cum) < Place(d.cum)
      /\ ~Refused(d)
      /\ ThirdReport(d) => Htna(d) \in Within(d.cum, next)
  BY <1>1, SackFits
<1>3. /\ ~failed'
      /\ q' = on_buffer_released([left EXCEPT !.rwnd = room], released)
      /\ cumulative_tsn_ack_point' = IF Advances(d) THEN d.cum ELSE cum
      /\ advanced_peer_tsn_ack_point' = advanced
      /\ fast_recovery' = IF ThirdReport(d) THEN Htna(d)
                          ELSE IF StillRecovering(d) THEN fast_recovery ELSE NoTsn
      /\ UNCHANGED <<scenario, expired, to_write, sent, receiver, net>>
  BY <1>2 DEF handle_sack
<1>4. cumulative_tsn_ack_point' = d.cum
  <2>1. /\ Place(cum) \in Nat /\ Place(d.cum) \in Nat /\ cum \in Tsn
    BY <1>0, <1>2, PlaceFacts DEF Typed
  <2>2. ~Advances(d) => Place(cum) = Place(d.cum)
    BY <1>2, <2>1
  <2>3. ~Advances(d) => cum = d.cum
    BY <1>2, <2>1, <2>2, PlaceFacts
  <2> QED  BY <1>3, <2>3
<1>5. /\ DOMAIN flight = Within(d.cum, next)
      /\ DOMAIN flight \subseteq DOMAIN q.inflight
      /\ flight \in UNION {[T -> Flying] : T \in SUBSET Tsn}
      /\ \A t \in DOMAIN flight :
           /\ flight[t].policy = q.inflight[t].policy
           /\ flight[t].message_id = q.inflight[t].message_id
           /\ flight[t].abandoned = q.inflight[t].abandoned
           /\ flight[t].acked => q.inflight[t].acked \/ t \in Gapped(d)
  BY <1>1, SackedFlight
<1>6. released \in [Streams -> Int]
  <2> DEFINE freed(s) == Cardinality({t \in Credited(d) : q.inflight[t].stream = s})
  <2>1. ASSUME NEW s \in Streams PROVE freed(s) \in Int
    <3>1. {t \in Credited(d) : q.inflight[t].stream = s} \in SUBSET Tsn
      BY <1>0, Bounds DEF Credited
    <3>2. freed(s) \in Nat
      BY <3>1, FiniteParts
    <3> QED  BY <3>2
  <2>2. released = [s \in Streams |-> freed(s)]
    OBVIOUS
  <2> HIDE DEF released, freed
  <2> QED  BY <2>1, <2>2
<1> HIDE DEF flight, released
<1>7. /\ left \in Queues /\ left.inflight = flight /\ left.my_next_tsn = next
      /\ left.next_message_id = q.next_message_id
      /\ left.ordered_queue = q.ordered_queue /\ left.unordered_queue = q.unordered_queue
  BY <1>0, <1>5, ZenonT(60) DEF Typed, Queues
<1>8. room \in Nat
  <2>1. inflight_bytes(left) \in Nat
    <3>1. {t \in DOMAIN left.inflight : Outstanding(left.inflight[t])} \in SUBSET Tsn
      BY <1>7 DEF Queues
    <3> HIDE DEF left
    <3> QED  BY <3>1, FiniteParts DEF inflight_bytes
  <2>2. d.a_rwnd \in Nat
    BY <1>0, <1>1 DEF Network
  <2> HIDE DEF left
  <2> QED  BY <2>1, <2>2 DEF Less
<1> HIDE DEF left, room
<1>9. LET l == [left EXCEPT !.rwnd = room]
      IN  /\ l \in Queues /\ l.inflight = flight /\ l.my_next_tsn = next
          /\ l.next_message_id = q.next_message_id
          /\ l.ordered_queue = q.ordered_queue /\ l.unordered_queue = q.unordered_queue
  BY <1>7, <1>8, ZenonT(60) DEF Queues
<1>10. /\ q' \in Queues /\ q'.inflight = flight /\ q'.my_next_tsn = next
       /\ q'.next_message_id = q.next_message_id
       /\ q'.ordered_queue = q.ordered_queue /\ q'.unordered_queue = q.unordered_queue
  BY <1>3, <1>6, <1>9, BufferReleased, ZenonT(60)
<1>11. Kinds(q') \subseteq Kinds(q)
  <2>1. KindsIn(flight) \subseteq KindsIn(q.inflight)
    BY <1>5 DEF KindsIn
  <2> QED  BY <1>10, <2>1 DEF Kinds
<1>12. /\ Place(d.cum) \in Nat /\ Place(next) \in Nat /\ Place(next) < Half
       /\ Place(d.cum) <= Place(peer_last_tsn) /\ Place(peer_last_tsn) \in Nat
       /\ Place(d.cum) < Place(next) /\ next \in Tsn
  <2>1. /\ Place(next) \in Nat /\ Place(next) < Half /\ next \in Tsn
        /\ Place(peer_last_tsn) \in Nat
    BY <1>0, Bounds
  <2>2. Place(peer_last_tsn) < Place(next)
    BY <1>0 DEF Window
  <2>3. Place(d.cum) \in Nat /\ Place(d.cum) <= Place(peer_last_tsn)
    BY <1>0, <1>1, <1>2, PlaceFacts DEF Network
  <2> HIDE DEF next
  <2> QED  BY <2>1, <2>2, <2>3
<1>13. /\ advanced \in Tsn /\ Place(advanced_peer_tsn_ack_point) <= Place(advanced)
       /\ Place(advanced) < Place(next)
       /\ \A t \in Tsn : Place(t) <= Place(advanced) =>
            \/ Place(t) <= Place(d.cum)
            \/ Place(t) <= Place(advanced_peer_tsn_ack_point)
            \/ t \in DOMAIN flight /\ flight[t].abandoned
  <2>1. /\ advanced_peer_tsn_ack_point \in Tsn
        /\ Place(advanced_peer_tsn_ack_point) < Place(next)
    BY <1>0 DEF Typed, Window
  <2>2. \A t \in DOMAIN flight : t \in Tsn /\ Place(t) < Place(next)
    BY <1>5 DEF Within
  <2> HIDE DEF next
  <2> QED  BY <1>2, <1>12, <2>1, <2>2, AdvancedPoint, ZenonT(60)
<1> HIDE DEF advanced
<1>14. Typed' /\ Window'
  BY <1>0, <1>2, <1>3, <1>4, <1>5, <1>10, <1>12, <1>13 DEF Typed, Window, receiver
<1>15. Receiving' /\ Network'
  <2>1. q'.my_next_tsn \in Tsn /\ Place(q.my_next_tsn) <= Place(q'.my_next_tsn)
    BY <1>10, <1>12
  <2> QED  BY <1>3, <1>13, <2>1, SenderNetwork
<1>16. Acks'
  <2>1. ASSUME NEW t, Acked(t)' PROVE Acked(t) \/ t \in Gapped(d)
    BY <1>5, <1>10, <2>1 DEF Acked
  <2>2. \A t \in DOMAIN q'.inflight : Acked(t)' => Has(t)'
    <3>1. \A t \in Gapped(d) : Has(t)
      BY <1>0, <1>1 DEF Network
    <3>2. \A t : Acked(t) => Has(t)
      BY <1>0 DEF Acks, Acked
    <3> QED  BY <1>3, <2>1, <3>1, <3>2 DEF Has, receiver
  <2>3. ASSUME NEW e \in net, e.type = "SACK"
        PROVE  ~Acked(Plus(e.cum, 1))'
    BY <1>0, <1>1, <2>1, <2>3 DEF Acks
  <2>4. \A e, g \in net : e.type = "SACK" /\ g.type = "SACK" =>
          Plus(e.cum, 1) \notin Gapped(g)
    BY <1>0 DEF Acks
  <2>5. ~Acked(Plus(cumulative_tsn_ack_point, 1))'
    BY <1>1, <1>4, <2>3 DEF Acked
  <2> QED  BY <1>3, <2>2, <2>3, <2>4, <2>5 DEF Acks, Gapped
<1>17. OnePolicy'
  BY <1>0, <1>3, <1>10, <1>11, PolicyKept
<1>18. Histories'
  <2>1. ASSUME NEW t \in Tsn, Place(t) <= Place(advanced_peer_tsn_ack_point')
        PROVE  \/ Place(t) <= Place(peer_last_tsn)
               \/ Place(t) <= Place(advanced_peer_tsn_ack_point)
               \/ t \in DOMAIN q.inflight /\ q.inflight[t].abandoned
    <3>1. Place(t) <= Place(d.cum) => Place(t) <= Place(peer_last_tsn)
      BY <1>12, PlaceFacts
    <3> QED  BY <1>3, <1>5, <1>13, <2>1, <3>1
  <2> QED  BY <1>3, <1>5, <1>10, <2>1, HistoriesKept
<1>19. RecoveryEnds'
  <2>1. CASE ThirdReport(d)
    BY <1>2, <1>3, <1>5, <1>10, <2>1 DEF RecoveryEnds
  <2>2. CASE ~ThirdReport(d) /\ StillRecovering(d)
    <3>1. fast_recovery \in DOMAIN q.inflight \ Popped(d)
      BY <1>0, <2>2 DEF RecoveryEnds, StillRecovering
    <3> QED  BY <1>1, <1>3, <1>5, <1>10, <2>2, <3>1, SackFits DEF RecoveryEnds
  <2>3. CASE ~ThirdReport(d) /\ ~StillRecovering(d)
    BY <1>3, <2>3 DEF RecoveryEnds
  <2> QED  BY <2>1, <2>2, <2>3
<1>20. Inv'
  BY <1>3, <1>14, <1>15, <1>16, <1>17, <1>18, <1>19 DEF Inv, SackNeverRefused
<1> QED  BY <1>2, <1>3, <1>4, <1>13, <1>20
=============================================================================
