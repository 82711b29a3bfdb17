--------------------------- MODULE Transfer_proofs --------------------------
(***************************************************************************)
(* The theorems about Transfer, for any scripts, windows and bounds,       *)
(* whatever the network does and wherever the TSNs wrap.  The invariant is *)
(* in TransferReceiver_proofs; here are its last step, that of a poll, and *)
(* what follows from it.                                                   *)
(***************************************************************************)
EXTENDS TransferSender_proofs

USE HalfAssumption, QueueAssumption

-----------------------------------------------------------------------------
(* poll_transmit.                                                          *)

(* Only timed messages pass a deadline. *)
LEMMA OverdueTimed ==
  ASSUME Inv, NEW late \in SUBSET (TimedMessages \ expired), NEW m \in expired \cup late
  PROVE  /\ m \in Nat /\ m < q.next_message_id
         /\ \A k \in Kinds(q) : k[1] = m => k[2] = "timed"
<1>0. Typed /\ OnePolicy
  BY DEF Inv
<1>1. CASE m \in expired
  BY <1>0, <1>1 DEF OnePolicy
<1>2. CASE m \in late
  <2>1. <<m, "timed">> \in Kinds(q)
    <3>1. CASE m \in {q.inflight[t].message_id : t \in
                         {u \in DOMAIN q.inflight : q.inflight[u].policy = "timed"}}
      <4>1. <<m, "timed">> \in KindsIn(q.inflight)
        BY <3>1 DEF KindsIn
      <4> QED  BY <4>1 DEF Kinds
    <3>2. CASE m \in {InOrder(q)[i].message_id : i \in
                         {j \in DOMAIN InOrder(q) : InOrder(q)[j].policy = "timed"}}
      <4>1. <<m, "timed">> \in KindsIn(InOrder(q))
        BY <3>2 DEF KindsIn
      <4>2. q \in Queues
        BY <1>0 DEF Typed
      <4> QED  BY <4>1, <4>2, InOrderChunks DEF Kinds
    <3> QED  BY <1>2, <3>1, <3>2 DEF TimedMessages
  <2>2. <<m, "timed">>[1] = m /\ <<m, "timed">>[2] = "timed"
    OBVIOUS
  <2>3. m \in Nat
    BY <1>0, <2>1, <2>2, KindsTyped DEF Typed
  <2> QED  BY <1>0, <2>1, <2>2, <2>3 DEF OnePolicy
<1> QED  BY <1>1, <1>2

(* A message that is given up is limited in retransmissions. *)
LEMMA GivenUpLimited ==
  ASSUME Inv, NEW C \in SUBSET DOMAIN q.inflight, NEW m \in GivenUp(q, C),
         NEW k \in Kinds(q), k[1] = m
  PROVE  k[2] = "rexmit"
<1>1. PICK u \in C : q.inflight[u].message_id = m /\ Exhausted(q.inflight[u])
  BY DEF GivenUp
<1>2. <<m, "rexmit">> \in KindsIn(q.inflight)
  BY <1>1 DEF KindsIn, Exhausted
<1>3. <<m, "rexmit">> \in Kinds(q) /\ <<m, "rexmit">>[1] = m /\ <<m, "rexmit">>[2] = "rexmit"
  BY <1>2 DEF Kinds
<1> QED  BY <1>3 DEF Inv, OnePolicy

(* The walks stay in the flight. *)
LEMMA WalksInFlight ==
  /\ \A M, first, cwnd : ToRetransmit(q, M, first, cwnd) \subseteq DOMAIN q.inflight
  /\ \A M, resent, packet :
       ToFastRetransmit(q, M, resent, packet) \subseteq DOMAIN q.inflight
  /\ \A C : Staying(q, C) \subseteq C
<1>1. \A C, room : Reached(q, C, room) \subseteq C
  BY DEF Reached
<1>2. \A C : Staying(q, C) \subseteq C
  BY DEF Staying
<1>3. ASSUME NEW M, NEW first, NEW cwnd
      PROVE  ToRetransmit(q, M, first, cwnd) \subseteq DOMAIN q.inflight
  <2> DEFINE C == {t \in DOMAIN q.inflight :
                     q.inflight[t].retransmit /\ q.inflight[t].message_id \notin M}
  <2>1. \/ first \in C /\ ToRetransmit(q, M, first, cwnd) = {first}
        \/ ToRetransmit(q, M, first, cwnd) = Reached(q, C, Min2(cwnd, q.rwnd))
    BY DEF ToRetransmit
  <2>2. C \subseteq DOMAIN q.inflight
    OBVIOUS
  <2> HIDE DEF C
  <2> QED  BY <1>1, <2>1, <2>2
<1>4. ASSUME NEW M, NEW resent, NEW packet
      PROVE  ToFastRetransmit(q, M, resent, packet) \subseteq DOMAIN q.inflight
  <2> DEFINE C == {t \in DOMAIN q.inflight \ resent :
                     LET c == q.inflight[t]
                     IN  /\ Outstanding(c) /\ c.message_id \notin M
                         /\ c.nsent <= 1 /\ c.miss = 3}
  <2>1. ToFastRetransmit(q, M, resent, packet) = Reached(q, C, packet)
    BY DEF ToFastRetransmit
  <2>2. C \subseteq DOMAIN q.inflight
    OBVIOUS
  <2> HIDE DEF C
  <2> QED  BY <1>1, <2>1, <2>2
<1> QED  BY <1>2, <1>3, <1>4

(* The queue after a poll: the flight has grown at its end, a TSN at a time, *)
(* an acknowledged TSN is one the receiver has, and no reliable message is   *)
(* abandoned.                                                                *)
Grown(polled) ==
  /\ polled \in Queues /\ SameBut(polled, q)
  /\ Place(q.my_next_tsn) <= Place(polled.my_next_tsn)
  /\ Place(polled.my_next_tsn) <= MaxTsns + 1
  /\ DOMAIN polled.inflight = Within(cumulative_tsn_ack_point, polled.my_next_tsn)
  /\ \A t \in DOMAIN polled.inflight :
       /\ polled.inflight[t].acked => Acked(t)
       /\ t \in DOMAIN q.inflight => polled.inflight[t].policy = q.inflight[t].policy
       /\ polled.inflight[t].abandoned => polled.inflight[t].policy # "reliable"

(* The flight after a poll: what was there, with the messages M abandoned,  *)
(* perhaps a terminal TSN, and the new chunks, one TSN after the other.     *)
LEMMA PolledFlight ==
  ASSUME Inv, NEW M, NEW resent, NEW fast, NEW overdue, NEW cwnd \in 1 .. Half - 1,
         \A m \in M : \A k \in Kinds(q) : k[1] = m => k[2] # "reliable",
         NEW polled,
         polled = pop_pending_data_chunks_to_send(
                    Resent(abandon(q, M), resent, fast), overdue, cwnd),
         Minus(polled.my_next_tsn, InitialTsn) <= MaxTsns
  PROVE  Grown(polled)
<1> DEFINE cum == cumulative_tsn_ack_point
           next == q.my_next_tsn
           gone == abandon(q, M)
           kept == Resent(gone, resent, fast)
           reserved == gone.my_next_tsn
<1>0. Typed /\ Window /\ Histories
  BY DEF Inv
<1>1. /\ q \in Queues /\ next \in Tsn /\ Place(next) \in Nat /\ Place(next) < Half
      /\ cum \in Tsn /\ Place(cum) \in Nat /\ Place(cum) < Place(next)
      /\ \A t \in Tsn : Place(t) \in Nat
  <2>1. \A t \in Tsn : Place(t) \in Nat
    BY PlaceFacts
  <2>2. Place(cum) < Place(next)
    BY <1>0, Bounds DEF Window
  <2> QED  BY <1>0, <2>1, <2>2, Bounds DEF Typed
<1>2. DOMAIN q.inflight = Within(cum, next)
  BY <1>0 DEF Window
<1>3. next \notin DOMAIN q.inflight
  BY <1>1, <1>2 DEF Within
<1>4. /\ gone \in Queues /\ SameBut(gone, q)
      /\ DOMAIN q.inflight \subseteq DOMAIN gone.inflight
      /\ \A t \in DOMAIN q.inflight :
           /\ gone.inflight[t].acked = q.inflight[t].acked
           /\ gone.inflight[t].message_id = q.inflight[t].message_id
           /\ gone.inflight[t].policy = q.inflight[t].policy
           /\ gone.inflight[t].abandoned =
                (q.inflight[t].abandoned \/ q.inflight[t].message_id \in M)
      /\ \/ DOMAIN gone.inflight \ DOMAIN q.inflight = {} /\ reserved = next
         \/ /\ DOMAIN gone.inflight \ DOMAIN q.inflight = {next}
            /\ reserved = Plus(next, 1)
      /\ \A t \in DOMAIN gone.inflight \ DOMAIN q.inflight :
           ~gone.inflight[t].acked /\ gone.inflight[t].message_id \in M
  <2> HIDE DEF gone
  <2> QED  BY <1>1, <1>3, AbandonedFlight DEF gone
<1> HIDE DEF gone
<1>5. /\ reserved \in Tsn /\ Place(reserved) \in Nat
      /\ Place(next) <= Place(reserved) /\ Place(reserved) <= Half
      /\ DOMAIN gone.inflight = Within(cum, reserved)
  <2>1. CASE DOMAIN gone.inflight \ DOMAIN q.inflight = {} /\ reserved = next
    <3>1. DOMAIN gone.inflight = DOMAIN q.inflight
      BY <1>4, <2>1, ZenonT(60)
    <3> QED  BY <1>1, <1>2, <2>1, <3>1
  <2>2. CASE /\ DOMAIN gone.inflight \ DOMAIN q.inflight = {next}
             /\ reserved = Plus(next, 1)
    <3>1. DOMAIN gone.inflight = DOMAIN q.inflight \cup {next}
      BY <1>4, <2>2
    <3>2. Plus(next, 1) \in Tsn /\ Place(Plus(next, 1)) = Place(next) + 1
      <4>1. Place(next) + 1 < 2 * Half
        BY <1>1
      <4> QED  BY <1>1, <4>1, PlaceFacts
    <3>3. ASSUME NEW t \in Tsn
          PROVE  t \in Within(cum, reserved) <=> t \in Within(cum, next) \/ t = next
      <4>1. Place(t) = Place(next) => t = next
        BY <1>1, PlaceFacts
      <4> QED  BY <1>1, <2>2, <3>2, <4>1 DEF Within
    <3>4. Within(cum, reserved) = Within(cum, next) \cup {next}
      BY <1>1, <3>3 DEF Within
    <3> QED  BY <1>1, <1>2, <2>2, <3>1, <3>2, <3>4
  <2> QED  BY <1>4, <2>1, <2>2
<1>6. /\ kept \in Queues /\ SameBut(kept, gone) /\ kept.my_next_tsn = reserved
      /\ DOMAIN kept.inflight = DOMAIN gone.inflight
      /\ \A t \in DOMAIN gone.inflight :
           /\ kept.inflight[t].acked = gone.inflight[t].acked
           /\ kept.inflight[t].abandoned = gone.inflight[t].abandoned
           /\ kept.inflight[t].policy = gone.inflight[t].policy
  BY <1>4, ResentFlight
<1>7. polled = pop_pending_data_chunks_to_send(kept, overdue, cwnd)
  BY DEF gone
<1> HIDE DEF kept
<1>8. PICK n \in 0 .. cwnd :
        LET new == {Plus(reserved, i - 1) : i \in 1 .. n}
        IN  /\ polled \in Queues /\ SameBut(polled, kept)
            /\ polled.my_next_tsn = Plus(reserved, n)
            /\ DOMAIN polled.inflight = DOMAIN kept.inflight \cup new
            /\ \A t \in DOMAIN kept.inflight \ new : polled.inflight[t] = kept.inflight[t]
            /\ \A t \in new : ~polled.inflight[t].acked /\ ~polled.inflight[t].abandoned
  BY <1>6, <1>7, PoppedChunks
<1> DEFINE new == {Plus(reserved, i - 1) : i \in 1 .. n}
           last == polled.my_next_tsn
<1>9. /\ n \in Nat /\ Place(reserved) + n < 2 * Half
      /\ last \in Tsn /\ Place(last) = Place(reserved) + n
  <2>1. n \in Nat /\ Place(reserved) + n < 2 * Half
    BY <1>5
  <2> QED  BY <1>5, <1>8, <2>1, PlaceFacts
<1>10. Place(next) <= Place(last) /\ Place(last) <= MaxTsns + 1
  <2>1. Place(next) <= Place(last)
    BY <1>1, <1>5, <1>9
  <2>2. 1 <= Place(last)
    BY <1>1, <1>9, <2>1
  <2>3. Minus(last, InitialTsn) = Place(last) - 1
    BY <1>9, <2>2, PlaceFacts
  <2>4. MaxTsns \in Nat
    BY <1>0, Bounds
  <2> QED  BY <1>1, <1>9, <2>1, <2>3, <2>4
<1>11. ASSUME NEW t \in Tsn
       PROVE  t \in new <=> Place(reserved) <= Place(t) /\ Place(t) < Place(last)
  <2>1. ASSUME NEW i \in 1 .. n
        PROVE  /\ Plus(reserved, i - 1) \in Tsn
               /\ Place(Plus(reserved, i - 1)) = Place(reserved) + (i - 1)
    <3>1. i - 1 \in Nat /\ Place(reserved) + (i - 1) < 2 * Half
      BY <1>5, <1>9
    <3> QED  BY <1>5, <3>1, PlaceFacts
  <2>2. ASSUME t \in new PROVE Place(reserved) <= Place(t) /\ Place(t) < Place(last)
    BY <1>5, <1>9, <2>1, <2>2
  <2>3. ASSUME Place(reserved) <= Place(t), Place(t) < Place(last) PROVE t \in new
    <3> DEFINE i == Place(t) - Place(reserved) + 1
    <3>1. i \in 1 .. n /\ Place(reserved) + (i - 1) = Place(t)
      BY <1>1, <1>5, <1>9, <2>3
    <3> HIDE DEF i
    <3>2. Plus(reserved, i - 1) = t
      BY <2>1, <3>1, PlaceFacts
    <3> QED  BY <3>1, <3>2
  <2> QED  BY <2>2, <2>3
<1>12. new \subseteq Tsn
  <2>1. DOMAIN polled.inflight \subseteq Tsn
    BY <1>8 DEF Queues
  <2> QED  BY <1>8, <2>1
<1>13. DOMAIN polled.inflight = DOMAIN kept.inflight \cup new
  BY <1>8
<1>14. /\ \A t \in DOMAIN kept.inflight \ new : polled.inflight[t] = kept.inflight[t]
       /\ \A t \in new : ~polled.inflight[t].acked /\ ~polled.inflight[t].abandoned
       /\ polled \in Queues /\ SameBut(polled, kept)
  BY <1>8
<1> HIDE DEF new, last, reserved, cum, next
<1>15. DOMAIN polled.inflight = Within(cum, last)
  <2>1. ASSUME NEW t \in Tsn
        PROVE  t \in Within(cum, last) <=> t \in Within(cum, reserved) \/ t \in new
    <3>1. Place(t) \in Nat
      BY PlaceFacts
    <3> QED  BY <1>1, <1>5, <1>9, <1>11, <3>1 DEF Within
  <2>2. Within(cum, last) = Within(cum, reserved) \cup new
    BY <1>12, <2>1 DEF Within
  <2> QED  BY <1>5, <1>6, <1>13, <2>2
<1>16. SameBut(polled, q)
  BY <1>4, <1>6, <1>14 DEF SameBut
<1>17. ASSUME NEW t \in DOMAIN polled.inflight
       PROVE  /\ polled.inflight[t].acked => Acked(t)
              /\ t \in DOMAIN q.inflight =>
                   polled.inflight[t].policy = q.inflight[t].policy
              /\ polled.inflight[t].abandoned => polled.inflight[t].policy # "reliable"
  <2>1. CASE t \in new
    <3>1. t \notin DOMAIN q.inflight
      <4>1. Place(t) \in Nat /\ Place(reserved) <= Place(t)
        BY <1>1, <1>11, <1>12, <2>1
      <4> QED  BY <1>1, <1>2, <1>5, <4>1 DEF Within
    <3> QED  BY <1>14, <2>1, <3>1
  <2>2. CASE t \notin new /\ t \in DOMAIN q.inflight
    <3>1. /\ polled.inflight[t].acked = q.inflight[t].acked
          /\ polled.inflight[t].policy = q.inflight[t].policy
          /\ polled.inflight[t].abandoned =
               (q.inflight[t].abandoned \/ q.inflight[t].message_id \in M)
      <4>1. t \in DOMAIN kept.inflight \ new /\ t \in DOMAIN gone.inflight
        BY <1>4, <1>6, <2>2, ZenonT(60)
      <4>2. polled.inflight[t] = kept.inflight[t]
        BY <1>14, <4>1, ZenonT(60)
      <4>3. /\ kept.inflight[t].acked = gone.inflight[t].acked
            /\ kept.inflight[t].abandoned = gone.inflight[t].abandoned
            /\ kept.inflight[t].policy = gone.inflight[t].policy
        BY <1>6, <4>1, ZenonT(60)
      <4>4. /\ gone.inflight[t].acked = q.inflight[t].acked
            /\ gone.inflight[t].policy = q.inflight[t].policy
            /\ gone.inflight[t].abandoned =
                 (q.inflight[t].abandoned \/ q.inflight[t].message_id \in M)
        BY <1>4, <2>2, ZenonT(60)
      <4> QED  BY <4>2, <4>3, <4>4, ZenonT(60)
    <3>2. q.inflight[t].message_id \in M => q.inflight[t].policy # "reliable"
      <4> DEFINE k == <<q.inflight[t].message_id, q.inflight[t].policy>>
      <4>1. k \in Kinds(q)
        BY <2>2 DEF Kinds, KindsIn
      <4>2. k[1] = q.inflight[t].message_id /\ k[2] = q.inflight[t].policy
        OBVIOUS
      <4> QED  BY <4>1, <4>2
    <3>3. q.inflight[t].abandoned => q.inflight[t].policy # "reliable"
      BY <1>0, <2>2 DEF Histories
    <3> QED  BY <2>2, <3>1, <3>2, <3>3, ZenonT(60) DEF Acked
  <2>3. CASE t \notin new /\ t \notin DOMAIN q.inflight
    <3>1. t \in DOMAIN gone.inflight \ DOMAIN q.inflight
      BY <1>6, <1>13, <2>3
    <3>2. /\ ~polled.inflight[t].acked
          /\ polled.inflight[t].policy = gone.inflight[t].policy
      BY <1>4, <1>6, <1>13, <1>14, <2>3, <3>1
    <3>3. gone.inflight[t].policy # "reliable"
      <4> DEFINE k == <<gone.inflight[t].message_id, gone.inflight[t].policy>>
      <4>1. k \in Kinds(gone)
        BY <3>1 DEF Kinds, KindsIn
      <4>2. k[1] = gone.inflight[t].message_id /\ k[2] = gone.inflight[t].policy
        OBVIOUS
      <4>3. k \in Kinds(q) /\ k[1] \in M
        BY <1>4, <3>1, <4>1, <4>2 DEF SameBut
      <4> QED  BY <4>2, <4>3
    <3> QED  BY <2>3, <3>2, <3>3
  <2> QED  BY <2>1, <2>2, <2>3
<1> QED  BY <1>10, <1>14, <1>15, <1>16, <1>17 DEF Grown, last, cum, next

(* A poll abandons, retransmits and sends: the flight grows at its end      *)
(* only, and the advanced point passes nothing but abandoned TSNs.          *)
LEMMA PollStep ==
  ASSUME Inv, NEW late \in SUBSET (TimedMessages \ expired),
         NEW cwnd \in 1 .. scenario.cwnd, NEW packet,
         poll_transmit(late, cwnd, packet)
  PROVE  Inv' /\ Place(advanced_peer_tsn_ack_point) <= Place(advanced_peer_tsn_ack_point')
<1> DEFINE cum == cumulative_tsn_ack_point
           overdue == expired \cup late
           late_flight == ExpiredMessages(q, overdue)
           walk == ToRetransmit(q, late_flight, Plus(cum, 1), cwnd)
           fast_walk == IF will_retransmit_fast
                        THEN ToFastRetransmit(q, late_flight \cup GivenUp(q, walk),
                                              Staying(q, walk), packet)
                        ELSE {}
           M == late_flight \cup GivenUp(q, walk) \cup GivenUp(q, fast_walk)
           kept == Resent(abandon(q, M), Staying(q, walk), Staying(q, fast_walk))
           polled == pop_pending_data_chunks_to_send(kept, overdue, cwnd)
           fresh == DOMAIN polled.inflight \ DOMAIN kept.inflight
           advanced == IF UseForwardTsn
                       THEN advance_peer_tsn_ack_point(polled.inflight, cum,
                              advanced_peer_tsn_ack_point)
                       ELSE advanced_peer_tsn_ack_point
           skip == create_forward_tsn(polled.inflight, cum, advanced)
<1>0. /\ Typed /\ Window /\ Network /\ Acks /\ OnePolicy /\ Histories
      /\ RecoveryEnds /\ SackNeverRefused
  BY DEF Inv
<1>1. /\ Minus(polled.my_next_tsn, InitialTsn) <= MaxTsns
      /\ q' = polled /\ expired' = overdue
      /\ advanced_peer_tsn_ack_point' = advanced
      /\ net' \subseteq net \cup {Data(t) : t \in Staying(q, walk)
                                   \cup Staying(q, fast_walk) \cup fresh} \cup {skip}
      /\ sent' = [t \in DOMAIN sent \cup DOMAIN polled.inflight |->
                    IF t \in DOMAIN sent THEN sent[t] ELSE Record(polled.inflight[t])]
      /\ UNCHANGED <<scenario, cumulative_tsn_ack_point, fast_recovery, to_write,
                     failed, receiver>>
  <2> DEFINE announce == /\ sna32gt(advanced, cumulative_tsn_ack_point)
                         /\ \/ will_send_forward_tsn
                            \/ sna32gt(advanced, advanced_peer_tsn_ack_point)
             again == Staying(q, walk) \cup Staying(q, fast_walk)
  <2>1. /\ gather_outbound(overdue, late_flight, again, kept, polled)
        /\ UNCHANGED <<scenario, cumulative_tsn_ack_point, fast_recovery, to_write,
                       failed, receiver>>
    BY ZenonT(60) DEF poll_transmit
  <2> HIDE DEF overdue, late_flight, walk, fast_walk, kept, polled, again
  <2>2. /\ Minus(polled.my_next_tsn, InitialTsn) <= MaxTsns
        /\ q' = polled /\ expired' = overdue
        /\ advanced_peer_tsn_ack_point' = advanced
        /\ net' = net \cup {Data(t) : t \in again \cup fresh}
                      \cup (IF announce THEN {skip} ELSE {})
        /\ sent' = [t \in DOMAIN sent \cup DOMAIN polled.inflight |->
                      IF t \in DOMAIN sent THEN sent[t] ELSE Record(polled.inflight[t])]
    BY <2>1, ZenonT(60) DEF gather_outbound
  <2>3. (IF announce THEN {skip} ELSE {}) \subseteq {skip}
    OBVIOUS
  <2> HIDE DEF fresh, skip, announce, advanced
  <2> QED  BY <2>1, <2>2, <2>3, ZenonT(60) DEF again
<1>2. /\ walk \subseteq DOMAIN q.inflight /\ fast_walk \subseteq DOMAIN q.inflight
      /\ Staying(q, walk) \subseteq DOMAIN q.inflight
      /\ Staying(q, fast_walk) \subseteq DOMAIN q.inflight
  <2>1. walk \subseteq DOMAIN q.inflight /\ fast_walk \subseteq DOMAIN q.inflight
    BY WalksInFlight
  <2> HIDE DEF walk, fast_walk
  <2> QED  BY <2>1, WalksInFlight
<1>3. ASSUME NEW m \in M, NEW k \in Kinds(q), k[1] = m PROVE k[2] # "reliable"
  <2>1. CASE m \in late_flight
    <3>1. m \in overdue
      BY <2>1, ZenonT(60) DEF ExpiredMessages
    <3>2. k[2] = "timed"
      BY <1>3, <3>1, OverdueTimed
    <3> QED  BY <3>2
  <2>2. CASE m \in GivenUp(q, walk)
    <3> HIDE DEF walk
    <3>1. k[2] = "rexmit"
      BY <1>2, <1>3, <2>2, GivenUpLimited
    <3> QED  BY <3>1
  <2>3. CASE m \in GivenUp(q, fast_walk)
    <3> HIDE DEF fast_walk
    <3>1. k[2] = "rexmit"
      BY <1>2, <1>3, <2>3, GivenUpLimited
    <3> QED  BY <3>1
  <2> QED  BY <2>1, <2>2, <2>3
<1>4. cwnd \in 1 .. Half - 1
  <2>1. scenario.cwnd \in 1 .. Half - 1
    BY <1>0, TransferAssumption DEF Typed
  <2> QED  BY <2>1
<1>5. polled = pop_pending_data_chunks_to_send(
                 Resent(abandon(q, M), Staying(q, walk), Staying(q, fast_walk)),
                 overdue, cwnd)
  OBVIOUS
<1> HIDE DEF walk, fast_walk, M, kept, polled, overdue
<1>6. /\ polled \in Queues /\ SameBut(polled, q)
      /\ Place(q.my_next_tsn) <= Place(polled.my_next_tsn)
      /\ Place(polled.my_next_tsn) <= MaxTsns + 1
      /\ DOMAIN polled.inflight = Within(cum, polled.my_next_tsn)
      /\ \A t \in DOMAIN polled.inflight :
           /\ polled.inflight[t].acked => Acked(t)
           /\ t \in DOMAIN q.inflight =>
                polled.inflight[t].policy = q.inflight[t].policy
           /\ polled.inflight[t].abandoned => polled.inflight[t].policy # "reliable"
  <2> DEFINE resent == Staying(q, walk)
             fast == Staying(q, fast_walk)
  <2>1. polled = pop_pending_data_chunks_to_send(
                   Resent(abandon(q, M), resent, fast), overdue, cwnd)
    BY <1>5
  <2>2. \A m \in M : \A k \in Kinds(q) : k[1] = m => k[2] # "reliable"
    BY <1>3
  <2>3. Minus(polled.my_next_tsn, InitialTsn) <= MaxTsns
    BY <1>1
  <2> HIDE DEF resent, fast, cum, fresh, advanced, skip, late_flight
  <2>4. Grown(polled)
    BY <1>4, <2>1, <2>2, <2>3, PolledFlight, ZenonT(60)
  <2> QED  BY <2>4, ZenonT(60) DEF Grown, cum
<1> DEFINE next == q.my_next_tsn
           last == polled.my_next_tsn
<1>7. /\ last \in Tsn /\ Place(last) \in Nat /\ Place(last) < Half
      /\ next \in Tsn /\ Place(next) \in Nat /\ Place(next) <= Place(last)
      /\ cum \in Tsn /\ Place(cum) \in Nat /\ Place(cum) < Place(next)
      /\ Place(cum) <= Place(peer_last_tsn) /\ Place(peer_last_tsn) < Place(next)
      /\ Place(peer_last_tsn) \in Nat
      /\ advanced_peer_tsn_ack_point \in Tsn
      /\ Place(advanced_peer_tsn_ack_point) \in Nat
      /\ Place(advanced_peer_tsn_ack_point) < Place(next)
      /\ \A t \in Tsn : Place(t) \in Nat
  <2>1. last \in Tsn
    BY <1>6 DEF Queues
  <2>2. \A t \in Tsn : Place(t) \in Nat
    BY PlaceFacts
  <2>3. /\ Place(cum) <= Place(peer_last_tsn) /\ Place(peer_last_tsn) < Place(next)
        /\ Place(advanced_peer_tsn_ack_point) < Place(next)
    BY <1>0 DEF Window
  <2>4. /\ next \in Tsn /\ cum \in Tsn /\ advanced_peer_tsn_ack_point \in Tsn
        /\ peer_last_tsn \in Tsn /\ MaxTsns \in Nat /\ MaxTsns + 1 < Half
    BY <1>0, Bounds DEF Typed
  <2> HIDE DEF last, next, cum
  <2> QED  BY <1>6, <2>1, <2>2, <2>3, <2>4 DEF last, next
<1>8. DOMAIN q.inflight = Within(cum, next)
  BY <1>0 DEF Window
<1>9. /\ DOMAIN q.inflight \subseteq DOMAIN polled.inflight
      /\ DOMAIN polled.inflight \subseteq Within(Base, last)
  <2>1. Place(Base) = 0
    BY PlaceFacts
  <2> QED  BY <1>6, <1>7, <1>8, <2>1 DEF Within
<1>10. /\ advanced \in Tsn /\ Place(advanced_peer_tsn_ack_point) <= Place(advanced)
       /\ Place(advanced) < Place(last)
       /\ \A t \in Tsn : Place(t) <= Place(advanced) =>
            \/ Place(t) <= Place(cum)
            \/ Place(t) <= Place(advanced_peer_tsn_ack_point)
            \/ t \in DOMAIN polled.inflight /\ polled.inflight[t].abandoned
  <2>1. \A t \in DOMAIN polled.inflight : t \in Tsn /\ Place(t) < Place(last)
    BY <1>6 DEF Within
  <2>2. Place(cum) < Place(last) /\ Place(advanced_peer_tsn_ack_point) < Place(last)
    BY <1>7
  <2> HIDE DEF last, cum
  <2> QED  BY <1>7, <2>1, <2>2, AdvancedPoint, ZenonT(60)
<1>11. skip.type = "FORWARD-TSN" /\ skip.cum = advanced
  BY DEF create_forward_tsn, ForwardTsn
<1> HIDE DEF advanced, skip
<1>12. Typed'
  BY <1>0, <1>1, <1>6, <1>10 DEF Typed, receiver
<1>13. Window'
  <2>1. /\ Place(peer_last_tsn) < Place(last) /\ Place(last) <= MaxTsns + 1
    BY <1>6, <1>7
  <2> QED  BY <1>1, <1>6, <1>7, <1>10, <2>1, ZenonT(60) DEF Window, receiver
<1>14. ASSUME NEW p \in net'
       PROVE  \/ p \in net
              \/ p.type = "DATA" /\ p.tsn \in Within(Base, last)
              \/ p.type = "FORWARD-TSN" /\ p.cum = advanced
  <2>1. CASE p \in net \/ p = skip
    BY <1>11, <2>1
  <2>2. ASSUME NEW t \in Staying(q, walk) \cup Staying(q, fast_walk) \cup fresh,
               p = Data(t)
        PROVE  p.type = "DATA" /\ p.tsn \in Within(Base, last)
    <3>1. t \in DOMAIN polled.inflight
      BY <1>2, <1>9
    <3> QED  BY <1>9, <2>2, <3>1, ZenonT(60) DEF Data
  <2> HIDE DEF fresh, last
  <2> QED  BY <1>1, <2>1, <2>2
<1>15. Receiving' /\ Network'
  <2>1. /\ q'.my_next_tsn \in Tsn /\ Place(q.my_next_tsn) <= Place(q'.my_next_tsn)
    BY <1>1, <1>7
  <2> QED  BY <1>1, <1>10, <1>14, <2>1, SenderNetwork
<1>16. Acks'
  <2>1. \A t : Acked(t)' => Acked(t)
    BY <1>1, <1>6 DEF Acked
  <2>2. \A p \in net' : p.type = "SACK" => p \in net
    BY <1>14
  <2> QED  BY <1>0, <1>1, <2>1, <2>2, AcksKept
<1>17. OnePolicy'
  <2>1. Kinds(q') \subseteq Kinds(q) /\ q'.next_message_id = q.next_message_id
    BY <1>1, <1>6 DEF SameBut
  <2>2. ASSUME NEW m \in overdue
        PROVE  /\ m \in Nat /\ m < q.next_message_id
               /\ \A k \in Kinds(q) : k[1] = m => k[2] = "timed"
    BY OverdueTimed DEF overdue
  <2> QED  BY <1>0, <1>1, <2>1, <2>2, ZenonT(60) DEF OnePolicy
<1>18. Histories'
  <2>1. DOMAIN sent = Within(Base, next)
    BY <1>0 DEF Histories
  <2>2. DOMAIN sent' = DOMAIN sent \cup DOMAIN polled.inflight
    BY <1>1
  <2>3. Place(Base) = 0
    BY PlaceFacts
  <2>4. DOMAIN sent' = Within(Base, last)
    BY <1>6, <1>7, <2>1, <2>2, <2>3 DEF Within
  <2>5. ASSUME NEW t \in DOMAIN sent PROVE sent'[t] = sent[t]
    BY <1>1
  <2>6. ASSUME NEW t \in DOMAIN polled.inflight
        PROVE  sent'[t].policy = polled.inflight[t].policy
    <3>1. CASE t \in DOMAIN sent
      <4>1. t \in DOMAIN q.inflight
        BY <1>6, <1>8, <2>1, <3>1 DEF Within
      <4> QED  BY <1>0, <1>6, <2>5, <3>1, <4>1 DEF Histories
    <3>2. CASE t \notin DOMAIN sent
      <4>1. sent'[t] = Record(polled.inflight[t])
        BY <1>1, <3>2
      <4> QED  BY <4>1 DEF Record
    <3> QED  BY <3>1, <3>2
  <2>7. ASSUME NEW t \in DOMAIN sent', sent'[t].policy = "reliable",
               Place(t) <= Place(peer_last_tsn) \/ Place(t) <= Place(advanced)
        PROVE  t \in delivered
    <3>1. t \in Tsn /\ Place(t) \in Nat /\ Place(Base) < Place(t)
      BY <2>4, PlaceFacts DEF Within
    <3>2. ~(t \in DOMAIN polled.inflight /\ polled.inflight[t].abandoned)
      BY <1>6, <2>6, <2>7, ZenonT(60)
    <3>3. \/ Place(t) <= Place(peer_last_tsn)
          \/ Place(t) <= Place(advanced_peer_tsn_ack_point)
      BY <1>7, <1>10, <2>7, <3>1, <3>2
    <3>4. t \in DOMAIN sent
      BY <1>7, <2>1, <3>1, <3>3 DEF Within
    <3> QED  BY <1>0, <2>5, <2>7, <3>3, <3>4 DEF Histories
  <2>8. payload_queue \subseteq delivered
    BY <1>0 DEF Histories
  <2> HIDE DEF last
  <2>9. DOMAIN sent' = Within(Base, q'.my_next_tsn)
    BY <1>1, <2>4 DEF last
  <2> QED  BY <1>1, <1>6, <2>6, <2>7, <2>8, <2>9, ZenonT(60) DEF Histories, receiver
<1>19. RecoveryEnds' /\ SackNeverRefused'
  BY <1>0, <1>1, <1>9 DEF RecoveryEnds, SackNeverRefused
<1>20. Inv'
  BY <1>12, <1>13, <1>15, <1>16, <1>17, <1>18, <1>19 DEF Inv
<1> QED  BY <1>1, <1>10, <1>20, ZenonT(60)

-----------------------------------------------------------------------------
(* The theorems.                                                           *)

\* No point moves back
Forward ==
  /\ Place(cumulative_tsn_ack_point) <= Place(cumulative_tsn_ack_point')
  /\ Place(advanced_peer_tsn_ack_point) <= Place(advanced_peer_tsn_ack_point')
  /\ Place(peer_last_tsn) <= Place(peer_last_tsn')

(* Every step keeps the invariant and moves no point back. *)
LEMMA NextStep ==
  ASSUME Inv, [Next]_vars
  PROVE  Inv' /\ Forward
<1>0. /\ Place(cumulative_tsn_ack_point) \in Nat
      /\ Place(advanced_peer_tsn_ack_point) \in Nat /\ Place(peer_last_tsn) \in Nat
  BY Bounds DEF Inv
<1>1. CASE write
  BY <1>0, <1>1, WriteStep DEF write, receiver, Forward
<1>2. CASE establish
  <2>1. /\ net' \subseteq net
        /\ UNCHANGED <<scenario, q, cumulative_tsn_ack_point,
                       advanced_peer_tsn_ack_point, fast_recovery, expired, to_write,
                       failed, sent, peer_last_tsn, payload_queue, delivered>>
    BY <1>2 DEF establish, receiver
  <2> QED  BY <1>0, <2>1, QuietStep DEF Forward
<1>3. ASSUME NEW late \in SUBSET (TimedMessages \ expired),
             NEW cwnd \in 1 .. scenario.cwnd, NEW packet,
             poll_transmit(late, cwnd, packet)
      PROVE  Inv' /\ Forward
  <2>1. UNCHANGED <<cumulative_tsn_ack_point, receiver>>
    BY <1>3 DEF poll_transmit
  <2> QED  BY <1>0, <1>3, <2>1, PollStep DEF receiver, Forward
<1>4. ASSUME NEW d \in net, handle_sack(d) PROVE Inv' /\ Forward
  <2>1. UNCHANGED receiver
    BY <1>4 DEF handle_sack
  <2> QED  BY <1>0, <1>4, <2>1, SackStep DEF receiver, Forward
<1>5. CASE on_t3_timeout
  <2>1. UNCHANGED <<cumulative_tsn_ack_point, receiver>>
    BY <1>5 DEF on_t3_timeout
  <2> QED  BY <1>0, <1>5, <2>1, T3Step DEF receiver, Forward
<1>6. ASSUME NEW p \in net, NEW credit, handle_data(p, credit) PROVE Inv' /\ Forward
  <2>1. UNCHANGED sender
    BY <1>6 DEF handle_data
  <2> QED  BY <1>0, <1>6, <2>1, DataStep DEF sender, Forward
<1>7. ASSUME NEW p \in net, handle_forward_tsn(p) PROVE Inv' /\ Forward
  <2>1. UNCHANGED sender
    BY <1>7 DEF handle_forward_tsn
  <2> QED  BY <1>0, <1>7, <2>1, ForwardTsnStep DEF sender, Forward
<1>8. ASSUME \/ on_ack_timeout
             \/ \E p \in net : lose(p)
             \/ UNCHANGED vars
      PROVE  Inv' /\ Forward
  <2>1. /\ net' \subseteq net
        /\ UNCHANGED <<scenario, q, cumulative_tsn_ack_point,
                       advanced_peer_tsn_ack_point, fast_recovery, expired, to_write,
                       failed, sent, peer_last_tsn, payload_queue, delivered>>
    BY <1>8 DEF on_ack_timeout, lose, vars, sender, receiver
  <2> QED  BY <1>0, <2>1, QuietStep DEF Forward
<1>9. ASSUME NEW credit \in scenario.windows, send_sack(credit) PROVE Inv' /\ Forward
  <2>1. UNCHANGED <<sender, peer_last_tsn>>
    BY <1>9 DEF send_sack
  <2>2. Inv'
    BY <1>0, <1>9, SackSent
  <2> QED  BY <1>0, <2>1, <2>2 DEF sender, Forward
<1> QED  BY <1>1, <1>2, <1>3, <1>4, <1>5, <1>6, <1>7, <1>8, <1>9, ZenonT(60) DEF Next

(* The inductive invariant of the sender, the receiver and the network      *)
(* between them.                                                            *)
THEOREM Invariance == Spec => []Inv
<1>1. Inv /\ [Next]_vars => Inv'
  BY NextStep
<1> QED  BY <1>1, InitInv, PTL DEF Spec

(* Whatever is lost, repeated or reordered, and wherever the TSNs wrap, the *)
(* flight is all the TSNs from the cumulative ack point to the next one     *)
(* (payload_queue.rs; the loops of handle_sack and get_data_packets_to_-    *)
(* retransmit rely on it).                                                  *)
THEOREM FlightIsContiguous == Spec => []FlightContiguous
<1>1. Inv => FlightContiguous
  BY InvImplies
<1> QED  BY <1>1, Invariance, PTL

(* handle_sack never returns an error for a SACK of this receiver, so that  *)
(* handle_event never closes the association for one.                       *)
THEOREM SacksAreAccepted == Spec => []SackNeverRefused
<1>1. Inv => SackNeverRefused
  BY DEF Inv
<1> QED  BY <1>1, Invariance, PTL

(* The first TSN in flight can be sent as the probe of a closed window.     *)
THEOREM ProbeIsAvailable == Spec => []ProbeAvailable
<1>1. Inv => ProbeAvailable
  BY InvImplies
<1> QED  BY <1>1, Invariance, PTL

(* The exit point of fast recovery is in flight until it is popped.         *)
THEOREM RecoveryCanEnd == Spec => []RecoveryEnds
<1>1. Inv => RecoveryEnds
  BY DEF Inv
<1> QED  BY <1>1, Invariance, PTL

(* No chunk of a reliable message is skipped: what the receiver             *)
(* acknowledges of it, it has handed to the stream.                         *)
THEOREM ReliableIsDelivered == Spec => []ReliableDelivered
<1>1. Inv => ReliableDelivered
  BY InvImplies
<1> QED  BY <1>1, Invariance, PTL

(* The cumulative ack point, the advanced ack point and the receiver's last *)
(* TSN only move forward.                                                   *)
THEOREM PointsOnlyAdvance == Spec => PointsAdvance
<1> DEFINE Ahead == /\ sna32lte(cumulative_tsn_ack_point, cumulative_tsn_ack_point')
                    /\ sna32lte(advanced_peer_tsn_ack_point, advanced_peer_tsn_ack_point')
                    /\ sna32lte(peer_last_tsn, peer_last_tsn')
<1>1. ASSUME Inv, [Next]_vars PROVE Ahead
  <2>1. Inv' /\ Forward
    BY <1>1, NextStep
  <2>2. /\ Typed /\ Place(cumulative_tsn_ack_point) < Half
        /\ Place(advanced_peer_tsn_ack_point) < Half /\ Place(peer_last_tsn) < Half
    BY <1>1, Bounds DEF Inv
  <2>3. /\ cumulative_tsn_ack_point' \in Tsn /\ advanced_peer_tsn_ack_point' \in Tsn
        /\ peer_last_tsn' \in Tsn
        /\ Place(cumulative_tsn_ack_point') < Half
        /\ Place(advanced_peer_tsn_ack_point') < Half /\ Place(peer_last_tsn') < Half
    <3>1. Typed' /\ Window'
      BY <2>1 DEF Inv
    <3>2. MaxTsns \in Nat /\ MaxTsns + 1 < Half
      BY TransferAssumption
    <3>3. /\ cumulative_tsn_ack_point' \in Tsn /\ advanced_peer_tsn_ack_point' \in Tsn
          /\ peer_last_tsn' \in Tsn /\ q'.my_next_tsn \in Tsn
      BY <3>1 DEF Typed, Queues
    <3>4. /\ Place(cumulative_tsn_ack_point') <= Place(peer_last_tsn')
          /\ Place(peer_last_tsn') < Place(q'.my_next_tsn)
          /\ Place(advanced_peer_tsn_ack_point') < Place(q'.my_next_tsn)
          /\ Place(q'.my_next_tsn) <= MaxTsns + 1
      BY <3>1 DEF Window
    <3> QED  BY <3>2, <3>3, <3>4, PlaceFacts
  <2> QED  BY <2>1, <2>2, <2>3, PlaceOrder DEF Typed, Forward
<1>2. Inv /\ [Next]_vars => [Ahead]_vars
  BY <1>1
<1> QED  BY <1>2, Invariance, PTL DEF Spec, PointsAdvance

(* A poll that leaves the timer off leaves nothing in flight. *)
LEMMA PollCovers ==
  ASSUME Inv, T3Covers, NEW late, NEW cwnd \in 1 .. scenario.cwnd, NEW packet,
         poll_transmit(late, cwnd, packet), ~t3'
  PROVE  DOMAIN q'.inflight = {}
<1> DEFINE overdue == expired \cup late
           late_flight == ExpiredMessages(q, overdue)
           walk == ToRetransmit(q, late_flight, Plus(cumulative_tsn_ack_point, 1), cwnd)
           fast_walk == IF will_retransmit_fast
                        THEN ToFastRetransmit(q, late_flight \cup GivenUp(q, walk),
                                              Staying(q, walk), packet)
                        ELSE {}
           M == late_flight \cup GivenUp(q, walk) \cup GivenUp(q, fast_walk)
           gone == abandon(q, M)
           kept == Resent(gone, Staying(q, walk), Staying(q, fast_walk))
           polled == pop_pending_data_chunks_to_send(kept, overdue, cwnd)
           again == Staying(q, walk) \cup Staying(q, fast_walk)
<1>1. gather_outbound(overdue, late_flight, again, kept, polled)
  BY ZenonT(60) DEF poll_transmit
<1>2. walk \subseteq DOMAIN q.inflight /\ fast_walk \subseteq DOMAIN q.inflight
  BY WalksInFlight
<1> HIDE DEF overdue, late_flight, walk, fast_walk, kept, polled, again
<1>3. /\ ~t3 /\ DOMAIN polled.inflight \ DOMAIN kept.inflight = {} /\ late_flight = {}
      /\ q' = polled
  BY <1>1, ZenonT(60) DEF gather_outbound
<1>4. DOMAIN q.inflight = {}
  BY <1>3 DEF T3Covers
<1>5. M = {}
  <2>1. walk = {} /\ fast_walk = {}
    BY <1>2, <1>4
  <2>2. GivenUp(q, {}) = {}
    BY DEF GivenUp
  <2> QED  BY <1>3, <2>1, <2>2
<1>6. q \in Queues
  BY DEF Inv, Typed
<1> HIDE DEF M
<1>7. gone \in Queues /\ DOMAIN gone.inflight = {}
  <2>1. q.my_next_tsn \notin DOMAIN q.inflight
    BY <1>4
  <2>2. /\ gone \in Queues
        /\ \A t \in DOMAIN gone.inflight \ DOMAIN q.inflight :
             gone.inflight[t].message_id \in M
    <3> HIDE DEF gone
    <3> QED  BY <1>6, <2>1, AbandonedFlight DEF gone
  <2> HIDE DEF gone
  <2> QED  BY <1>4, <1>5, <2>2
<1> HIDE DEF gone
<1>8. DOMAIN kept.inflight = DOMAIN gone.inflight
  BY <1>7, ResentFlight DEF kept
<1> QED  BY <1>3, <1>7, <1>8

(* While anything is in flight T3-rtx is running, if DATA retransmissions   *)
(* are not limited (max_data_retransmits is None, the default): what is     *)
(* lost is sent again.                                                      *)
THEOREM T3AlwaysCovers ==
  ASSUME MaxDataRetransmits = Unlimited
  PROVE  Spec => []T3Covers
<1>1. Init => T3Covers
  BY DEF Init, T3Covers
<1>2. ASSUME Inv, T3Covers, [Next]_vars PROVE T3Covers'
  <2>1. CASE write
    <3>1. UNCHANGED t3
      BY <2>1 DEF write
    <3>2. DOMAIN q'.inflight = DOMAIN q.inflight
      <4> DEFINE pushed == IF established THEN push(q, packetize(Head(to_write))) ELSE q
      <4>1. q \in Queues
        BY <1>2 DEF Inv, Typed
      <4>2. /\ DOMAIN pushed = DOMAIN q /\ pushed.inflight = q.inflight
        BY <4>1 DEF push, Queues
      <4>3. q' = [pushed EXCEPT
                   !.sequence_number[Head(to_write).stream] =
                     IF Head(to_write).unordered THEN @ ELSE @ + 1,
                   !.buffered_amount[Head(to_write).stream] = @ + Head(to_write).fragments]
        BY <2>1 DEF write
      <4> HIDE DEF pushed
      <4>4. "inflight" \in DOMAIN pushed
        BY <4>1, <4>2 DEF Queues
      <4> QED  BY <4>2, <4>3, <4>4
    <3> QED  BY <1>2, <3>1, <3>2 DEF T3Covers
  <2>2. ASSUME NEW late \in SUBSET (TimedMessages \ expired),
               NEW cwnd \in 1 .. scenario.cwnd, NEW packet,
               poll_transmit(late, cwnd, packet)
        PROVE  T3Covers'
    BY <1>2, <2>2, PollCovers DEF T3Covers
  <2>3. ASSUME NEW d \in net, handle_sack(d) PROVE T3Covers'
    <3>1. d.type = "SACK" /\ ~Stale(d) /\ ~Refused(d)
      BY <1>2, <2>3, SackFits DEF handle_sack
    <3> DEFINE left == [q EXCEPT !.inflight = Acknowledged(d)]
               released == [s \in Streams |-> Cardinality(
                              {t \in Credited(d) : q.inflight[t].stream = s})]
               room == Less(d.a_rwnd, inflight_bytes(left))
    <3>2. /\ T3AfterSack(d)
          /\ q' = on_buffer_released([left EXCEPT !.rwnd = room], released)
      BY <2>3, <3>1 DEF handle_sack
    <3>3. DOMAIN Acknowledged(d) # {} => t3'
      BY <3>2 DEF T3AfterSack
    <3>4. q'.inflight = Acknowledged(d)
      <4>1. q \in Queues
        BY <1>2 DEF Inv, Typed
      <4> HIDE DEF released, room
      <4>2. DOMAIN left = DOMAIN q /\ left.inflight = Acknowledged(d)
        BY <4>1 DEF Queues
      <4>3. {"inflight", "rwnd", "buffered_amount"} \subseteq DOMAIN q
        BY <4>1 DEF Queues
      <4> HIDE DEF left
      <4> QED  BY <3>2, <4>2, <4>3 DEF on_buffer_released
    <3> QED  BY <3>3, <3>4 DEF T3Covers
  <2>4. CASE on_t3_timeout
    BY <2>4, ZenonT(60) DEF on_t3_timeout, T3Fails, T3Covers
  <2>5. ASSUME UNCHANGED <<q, t3>> PROVE T3Covers'
    BY <1>2, <2>5 DEF T3Covers
  <2>6. ASSUME \/ establish \/ on_ack_timeout \/ UNCHANGED vars
               \/ \E p \in net, credit \in {w > 0 : w \in scenario.windows} :
                    handle_data(p, credit)
               \/ \E p \in net : handle_forward_tsn(p)
               \/ \E credit \in scenario.windows : send_sack(credit)
               \/ \E p \in net : lose(p)
        PROVE  UNCHANGED <<q, t3>>
    BY <2>6, ZenonT(60) DEF establish, on_ack_timeout, handle_data, handle_forward_tsn, send_sack,
                lose, vars, sender
  <2> QED  BY <1>2, <2>1, <2>2, <2>3, <2>4, <2>5, <2>6, ZenonT(60) DEF Next
<1>3. Inv /\ T3Covers /\ [Next]_vars => T3Covers'
  BY <1>2
<1> QED  BY <1>1, <1>3, Invariance, PTL DEF Spec
=============================================================================
