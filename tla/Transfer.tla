------------------------------ MODULE Transfer ------------------------------
(***************************************************************************)
(* DATA transfer in one direction of an established association: the       *)
(* sending half of one Association, the receiving half of the other, and   *)
(* the datagrams between them.  src/association/mod.rs runs each half in   *)
(* one thread, and every action below is one call into it: a write, a      *)
(* poll_transmit, a received chunk, a timer.                               *)
(*                                                                         *)
(* Datagrams may be lost, duplicated, reordered and delayed at will: any   *)
(* datagram in net may arrive at any time, any number of times, or never,  *)
(* and one that will not arrive any more may be removed.                   *)
(***************************************************************************)
EXTENDS OutboundQueue

CONSTANTS
  InitialTsn,          \* my_next_tsn of the sender when DATA may first flow
  MaxTsns,             \* bound on the TSNs assigned, below Half
  Scenarios,           \* what the application, the peer and the network do
  Lossy,               \* types of datagram the network may drop
  MaxGap,              \* the largest offset a gap ack block can name
  MaxDataRetransmits,  \* max_data_retransmits, or Unlimited
  Unlimited,
  NoTsn

ASSUME TransferAssumption ==
  /\ InitialTsn \in Tsn
  /\ MaxTsns \in Nat /\ MaxTsns > 0 /\ MaxTsns + 1 < Half
  /\ MaxGap \in Nat
  /\ \A s \in Scenarios :
       /\ s.script \in Seq([stream: Streams, unordered: BOOLEAN,
                            policy: {"reliable", "timed", "rexmit"}, fragments: Nat])
       /\ s.windows \subseteq Nat /\ s.early \in BOOLEAN
       /\ s.cwnd \in 1 .. Half - 1 /\ s.sacks \in Nat \ {0}
  /\ NoTsn \notin Tsn

(***************************************************************************)
(* A scenario is a record: script, the messages the application writes, in *)
(* order; early, whether it may begin before the handshake is complete;    *)
(* windows, the receive windows a SACK may announce; and two bounds, cwnd  *)
(* on the congestion window, in chunks, and sacks on the SACKs under way   *)
(* at a time.                                                              *)
(***************************************************************************)
VARIABLES
  scenario,
  established,                  \* the sender's state is Established
  q,                            \* outbound queue, with what it updates
  cumulative_tsn_ack_point,     \* the last TSN the peer acknowledged
  advanced_peer_tsn_ack_point,  \* the last TSN it may be told to skip
  fast_recovery,                \* fast_recover_exit_point, or NoTsn
  will_retransmit_fast,
  will_send_forward_tsn,
  t3,                           \* whether T3-rtx is running
  t3_retrans,                   \* its consecutive expiries, if limited
  expired,                      \* timed messages past their deadline
  to_write,                     \* messages the application will write
  failed,                       \* a SACK was refused: association closed
  peer_last_tsn,                \* receiver: the last TSN in sequence
  payload_queue,                \* receiver: TSNs received above it
  ack_state,
  net,                          \* datagrams sent
  sent,                         \* history: TSN |-> the chunk it was given to
  delivered                     \* history: TSNs handed to a stream

sender == <<scenario, established, q, cumulative_tsn_ack_point,
            advanced_peer_tsn_ack_point, fast_recovery, will_retransmit_fast, will_send_forward_tsn,
            t3, t3_retrans, expired, to_write, failed, sent>>
receiver == <<peer_last_tsn, payload_queue, ack_state, delivered>>
vars == <<sender, receiver, net>>

Data(t) == [type |-> "DATA", tsn |-> t]
Sack(cum, gaps, credit) ==
  [type |-> "SACK", cum |-> cum, gaps |-> gaps, a_rwnd |-> credit]
ForwardTsn(cum, streams) ==
  [type |-> "FORWARD-TSN", cum |-> cum, streams |-> streams]

\* what the history keeps of a chunk
Record(c) == [message_id |-> c.message_id, stream |-> c.stream, ssn |-> c.ssn,
              unordered |-> c.unordered, policy |-> c.policy]

Before(t) == Plus(t, 2 * Half - 1)           \* t.wrapping_sub(1)

Init ==
  /\ scenario \in Scenarios
  /\ established = ~scenario.early
  /\ q = [ordered_queue |-> <<>>, unordered_queue |-> <<>>, selected |-> "none",
          inflight |-> [t \in {} |-> NoTsn], my_next_tsn |-> InitialTsn,
          next_message_id |-> 0, rwnd |-> scenario.cwnd,
          buffered_amount |-> [s \in Streams |-> 0],
          sequence_number |-> [s \in Streams |-> 0]]
  /\ cumulative_tsn_ack_point = Before(InitialTsn)
  /\ advanced_peer_tsn_ack_point = Before(InitialTsn)
  /\ fast_recovery = NoTsn
  /\ will_retransmit_fast = FALSE
  /\ will_send_forward_tsn = FALSE
  /\ t3 = FALSE /\ t3_retrans = 0
  /\ expired = {} /\ failed = FALSE
  /\ to_write = scenario.script
  /\ peer_last_tsn = Before(InitialTsn)
  /\ payload_queue = {} /\ ack_state = "Idle"
  /\ net = {}
  /\ sent = [t \in {} |-> NoTsn] /\ delivered = {}

-----------------------------------------------------------------------------
(* The sender.                                                             *)

(***************************************************************************)
(* write_source and packetize: the fragments of one message, all with the  *)
(* SSN the stream is at.  The SSN moves on for an ordered message, whether *)
(* or not it had a fragment, and whether or not send_payload_data takes    *)
(* the fragments: it refuses them before the association is Established.   *)
(***************************************************************************)
packetize(m) ==
  [i \in 1 .. m.fragments |->
     [message_id |-> q.next_message_id, frag |-> i, stream |-> m.stream,
      ssn |-> q.sequence_number[m.stream], unordered |-> m.unordered,
      policy |-> m.policy, beginning |-> i = 1, ending |-> i = m.fragments]]

write ==
  /\ ~failed /\ to_write # <<>>
  /\ to_write' = Tail(to_write)
  /\ LET m == Head(to_write)
     IN  q' = [IF established THEN push(q, packetize(m)) ELSE q EXCEPT
                 !.sequence_number[m.stream] = IF m.unordered THEN @ ELSE @ + 1,
                 !.buffered_amount[m.stream] = @ + m.fragments]
  /\ UNCHANGED <<scenario, established, cumulative_tsn_ack_point,
                 advanced_peer_tsn_ack_point, fast_recovery,
                 will_retransmit_fast, will_send_forward_tsn, t3, t3_retrans,
                 expired, failed, sent, receiver, net>>

\* The handshake completes (Lifecycle has its steps)
establish ==
  /\ ~established
  /\ established' = TRUE
  /\ UNCHANGED <<scenario, q, cumulative_tsn_ack_point,
                 advanced_peer_tsn_ack_point, fast_recovery,
                 will_retransmit_fast, will_send_forward_tsn, t3, t3_retrans,
                 expired, to_write, failed, sent, receiver, net>>

(* Mutant: every TSN in flight is skipped. *)
advance_over_flight(flight, cum, advanced) ==
  LET from == IF sna32lt(advanced, cum) THEN cum ELSE advanced
  IN  Plus(from, RunLength(from, DOMAIN flight))

(***************************************************************************)
(* advance_peer_tsn_ack_point: over the abandoned TSNs that follow.        *)
(***************************************************************************)
advance_peer_tsn_ack_point(flight, cum, advanced) ==
  LET from == IF sna32lt(advanced, cum) THEN cum ELSE advanced
  IN  Plus(from, RunLength(from, {t \in DOMAIN flight : flight[t].abandoned}))

(* Mutant: the SSNs of all that is in flight are reported. *)
create_forward_tsn_of_all(flight, cum, advanced) ==
  ForwardTsn(advanced, [s \in Streams |->
    LET ssns == {flight[t].ssn : t \in {u \in DOMAIN flight :
                   ~flight[u].unordered /\ flight[u].stream = s}}
    IN  IF ssns = {} THEN NoTsn
        ELSE CHOOSE n \in ssns : \A o \in ssns : o <= n])

\* create_forward_tsn: per stream the highest SSN of the ordered TSNs skipped
create_forward_tsn(flight, cum, advanced) ==
  LET skipped(s) == {flight[t].ssn : t \in {u \in DOMAIN flight :
                       /\ sna32gt(u, cum) /\ sna32lte(u, advanced)
                       /\ ~flight[u].unordered /\ flight[u].stream = s}}
  IN  ForwardTsn(advanced, [s \in Streams |->
        IF skipped(s) = {} THEN NoTsn
        ELSE CHOOSE n \in skipped(s) : \A o \in skipped(s) : o <= n])

\* Messages whose deadline may pass
TimedMessages ==
  {q.inflight[t].message_id : t \in
     {u \in DOMAIN q.inflight : q.inflight[u].policy = "timed"}}
    \cup {InOrder(q)[i].message_id : i \in
            {j \in DOMAIN InOrder(q) : InOrder(q)[j].policy = "timed"}}

(***************************************************************************)
(* What gather_outbound leaves and sends: the chunks again are sent again, *)
(* and kept is the queue then, late_flight given up and new chunks not yet *)
(* popped; polled is the queue at the end.                                 *)
(***************************************************************************)
gather_outbound(overdue, late_flight, again, kept, polled) ==
  LET fresh == DOMAIN polled.inflight \ DOMAIN kept.inflight
      advanced == IF UseForwardTsn
                  THEN advance_peer_tsn_ack_point(polled.inflight,
                         cumulative_tsn_ack_point, advanced_peer_tsn_ack_point)
                  ELSE advanced_peer_tsn_ack_point
      announce == /\ sna32gt(advanced, cumulative_tsn_ack_point)
                  /\ \/ will_send_forward_tsn
                     \/ sna32gt(advanced, advanced_peer_tsn_ack_point)
  IN  /\ Minus(polled.my_next_tsn, InitialTsn) <= MaxTsns
      /\ q' = polled
      /\ expired' = overdue
      /\ will_retransmit_fast' = FALSE
      /\ will_send_forward_tsn' = FALSE
      /\ advanced_peer_tsn_ack_point' = advanced
      /\ t3' = (t3 \/ fresh # {} \/ late_flight # {})
      /\ net' = net \cup {Data(t) : t \in again \cup fresh}
                    \cup (IF announce
                          THEN {create_forward_tsn(polled.inflight,
                                  cumulative_tsn_ack_point, advanced)}
                          ELSE {})
      /\ sent' = [t \in DOMAIN sent \cup DOMAIN polled.inflight |->
                    IF t \in DOMAIN sent THEN sent[t] ELSE Record(polled.inflight[t])]

(***************************************************************************)
(* poll_transmit at some later time, when the deadlines of late have       *)
(* passed too: gather_outbound in its order.  The congestion window is any *)
(* size, and so is the packet of a fast retransmission.                    *)
(***************************************************************************)
poll_transmit(late, cwnd, packet) ==
  /\ ~failed
  /\ \E overdue \in {expired \cup late} :
     \E late_flight \in {ExpiredMessages(q, overdue)} :
     \E walk \in {ToRetransmit(q, late_flight, Plus(cumulative_tsn_ack_point, 1), cwnd)} :
     \E fast_walk \in {IF will_retransmit_fast
                       THEN ToFastRetransmit(q, late_flight \cup GivenUp(q, walk),
                                             Staying(q, walk), packet)
                       ELSE {}} :
     \E kept \in {Resent(abandon(q, late_flight \cup GivenUp(q, walk)
                                      \cup GivenUp(q, fast_walk)),
                         Staying(q, walk), Staying(q, fast_walk))} :
     \E polled \in {pop_pending_data_chunks_to_send(kept, overdue, cwnd)} :
       gather_outbound(overdue, late_flight,
                       Staying(q, walk) \cup Staying(q, fast_walk), kept, polled)
  /\ UNCHANGED <<scenario, established, cumulative_tsn_ack_point,
                 fast_recovery, t3_retrans, to_write, failed, receiver>>

(***************************************************************************)
(* handle_sack.  Popped are the TSNs up to the cumulative ack, Gapped the  *)
(* TSNs of the gap ack blocks.  Each of them must be in flight, and so     *)
(* must every TSN whose missing report is counted; where one is not, the   *)
(* handler returns an error and handle_event closes the association.       *)
(***************************************************************************)
(* Mutant: a late SACK is processed like any other. *)
Stale_never(d) == FALSE

\* A SACK overtaken by one that acknowledged more is dropped
Stale(d) == sna32gt(cumulative_tsn_ack_point, d.cum)

Advances(d) == sna32lt(cumulative_tsn_ack_point, d.cum)

(* Mutant: the TSN of the cumulative ack itself is not popped. *)
Popped_below(d) ==
  {Plus(cumulative_tsn_ack_point, i) :
     i \in 1 .. IF Advances(d) THEN Minus(d.cum, cumulative_tsn_ack_point) - 1 ELSE 0}

Popped(d) ==
  {Plus(cumulative_tsn_ack_point, i) :
     i \in 1 .. IF Advances(d) THEN Minus(d.cum, cumulative_tsn_ack_point) ELSE 0}

Gapped(d) == {Plus(d.cum, g) : g \in d.gaps}

NewlyGapped(d) ==
  {t \in Gapped(d) \cap DOMAIN q.inflight : ~q.inflight[t].acked}

(* Mutant: the next TSN to be assigned stands for the highest. *)
Htna_next(d) == q.my_next_tsn

\* The highest TSN newly acknowledged (htna)
Htna(d) ==
  LastOf({d.cum} \cup {t \in NewlyGapped(d) : ~q.inflight[t].abandoned})

\* In fast recovery after the cumulatively acknowledged TSNs are popped
StillRecovering(d) == fast_recovery # NoTsn /\ fast_recovery \notin Popped(d)

\* The TSNs process_fast_retransmission looks up
Reported(d) ==
  LET flying == Cardinality(DOMAIN q.inflight \ Popped(d))
      ahead == IF StillRecovering(d) THEN flying ELSE Less(Minus(Htna(d), d.cum), 1)
  IN  IF StillRecovering(d) /\ ~Advances(d) THEN {}
      ELSE {Plus(d.cum, i) : i \in 1 .. ahead}

Refused(d) ==
  \/ ~(Popped(d) \subseteq DOMAIN q.inflight)
  \/ ~(Gapped(d) \subseteq DOMAIN q.inflight \ Popped(d))
  \/ ~(Reported(d) \subseteq DOMAIN q.inflight \ Popped(d))

\* mark_as_acked and the missing reports, for the TSNs that stay in flight
Acknowledged(d) ==
  [t \in DOMAIN q.inflight \ Popped(d) |->
     LET c == q.inflight[t]
     IN  IF t \in NewlyGapped(d)
         THEN [c EXCEPT !.acked = TRUE, !.retransmit = FALSE]
         ELSE IF t \in Reported(d) /\ Outstanding(c)
         THEN [c EXCEPT !.miss = Min2(@ + 1, 3)]
         ELSE c]

(* Mutant: a chunk that a gap ack block released is released again. *)
Credited_twice(d) ==
  {t \in (Popped(d) \cup Gapped(d)) \cap DOMAIN q.inflight : ~q.inflight[t].abandoned}

\* The chunks whose payload the SACK releases
Credited(d) ==
  {t \in (Popped(d) \cup Gapped(d)) \cap DOMAIN q.inflight : Outstanding(q.inflight[t])}

\* Some chunk is reported missing for the third time outside fast recovery
ThirdReport(d) ==
  /\ ~StillRecovering(d)
  /\ \E t \in DOMAIN Acknowledged(d) :
       Acknowledged(d)[t].miss = 3 /\ q.inflight[t].miss = 2

(* Mutant: the timer is stopped by any progress. *)
T3AfterSack_stopped(d) ==
  /\ t3' = (t3 /\ ~Advances(d))
  /\ t3_retrans' = IF Advances(d) THEN 0 ELSE t3_retrans

(***************************************************************************)
(* The T3-rtx timer after a SACK that leaves flight: on_cumulative_tsn_-   *)
(* ack_point_advanced stops it when nothing is left in flight, and         *)
(* postprocess_sack starts it when something is.  Progress of the peer     *)
(* clears the count of expiries.                                           *)
(***************************************************************************)
T3AfterSack(d) ==
  /\ t3' = \/ DOMAIN Acknowledged(d) # {}
           \/ t3 /\ ~Advances(d)
  /\ t3_retrans' =
       IF \/ Advances(d) /\ DOMAIN Acknowledged(d) = {}
          \/ \E t \in (Popped(d) \cup Gapped(d)) \cap DOMAIN q.inflight :
               ~q.inflight[t].acked /\ q.inflight[t].nsent > 0
       THEN 0 ELSE t3_retrans

handle_sack(d) ==
  /\ d \in net /\ d.type = "SACK" /\ ~failed
  /\ ~Stale(d)
  /\ failed' = Refused(d)
  /\ IF Refused(d)
     THEN UNCHANGED <<q, cumulative_tsn_ack_point, advanced_peer_tsn_ack_point,
                      fast_recovery, will_retransmit_fast,
                      will_send_forward_tsn, t3, t3_retrans>>
     ELSE LET flight == Acknowledged(d)
              left == [q EXCEPT !.inflight = flight]
              advanced == IF UseForwardTsn
                          THEN advance_peer_tsn_ack_point(flight, d.cum,
                                 advanced_peer_tsn_ack_point)
                          ELSE advanced_peer_tsn_ack_point
          IN  /\ q' = on_buffer_released(
                        [left EXCEPT !.rwnd = Less(d.a_rwnd, inflight_bytes(left))],
                        [s \in Streams |-> Cardinality(
                           {t \in Credited(d) : q.inflight[t].stream = s})])
              /\ cumulative_tsn_ack_point' =
                   IF Advances(d) THEN d.cum ELSE cumulative_tsn_ack_point
              /\ advanced_peer_tsn_ack_point' = advanced
              /\ fast_recovery' = IF ThirdReport(d) THEN Htna(d)
                                  ELSE IF StillRecovering(d) THEN fast_recovery
                                  ELSE NoTsn
              /\ will_retransmit_fast' =
                   \/ will_retransmit_fast
                   \/ ThirdReport(d)
                   \/ StillRecovering(d) /\ Advances(d)
              /\ will_send_forward_tsn' =
                   \/ will_send_forward_tsn
                   \/ UseForwardTsn /\ sna32gt(advanced, d.cum)
              /\ T3AfterSack(d)
  /\ UNCHANGED <<scenario, established, expired, to_write, sent, receiver, net>>

(***************************************************************************)
(* T3-rtx expires: all outstanding DATA is marked for retransmission and   *)
(* the timer runs again.  With a limit on DATA retransmissions an expiry   *)
(* beyond it only leaves the timer stopped (on_retransmission_failure).    *)
(***************************************************************************)
T3Fails == MaxDataRetransmits # Unlimited /\ t3_retrans >= MaxDataRetransmits

on_t3_timeout ==
  /\ t3 /\ ~failed
  /\ t3' = ~T3Fails
  /\ t3_retrans' = IF MaxDataRetransmits = Unlimited THEN 0
                   ELSE Min2(t3_retrans + 1, MaxDataRetransmits + 1)
  /\ IF T3Fails
     THEN UNCHANGED <<q, advanced_peer_tsn_ack_point, will_send_forward_tsn>>
     ELSE LET advanced == IF UseForwardTsn
                          THEN advance_peer_tsn_ack_point(q.inflight,
                                 cumulative_tsn_ack_point, advanced_peer_tsn_ack_point)
                          ELSE advanced_peer_tsn_ack_point
          IN  /\ q' = [q EXCEPT !.inflight = [t \in DOMAIN q.inflight |->
                         [q.inflight[t] EXCEPT
                            !.retransmit = @ \/ Outstanding(q.inflight[t])]]]
              /\ advanced_peer_tsn_ack_point' = advanced
              /\ will_send_forward_tsn' =
                   \/ will_send_forward_tsn
                   \/ UseForwardTsn /\ sna32gt(advanced, cumulative_tsn_ack_point)
  /\ UNCHANGED <<scenario, established, cumulative_tsn_ack_point, fast_recovery,
                 will_retransmit_fast, expired, to_write, failed, sent,
                 receiver, net>>

-----------------------------------------------------------------------------
(* The receiver.                                                           *)

(* Mutant: one TSN at most is popped. *)
Steps_one(last, queue) == IF Plus(last, 1) \in queue THEN 1 ELSE 0

(***************************************************************************)
(* handle_peer_last_tsn_and_acknowledgement, from last and queue: pop the  *)
(* TSNs that follow in sequence (pop only ever takes the first one of the  *)
(* sorted queue), then acknowledge at once if there are gaps or if an      *)
(* acknowledgement is waiting already, otherwise after the ack delay.      *)
(***************************************************************************)
Steps(last, queue) ==
  IF \E t \in queue : sna32lte(t, last) THEN 0 ELSE RunLength(last, queue)

handle_peer_last_tsn_and_acknowledgement(last, queue) ==
  LET reached == Plus(last, Steps(last, queue))
      rest == queue \ {Plus(last, i) : i \in 1 .. Steps(last, queue)}
  IN  /\ peer_last_tsn' = reached
      /\ payload_queue' = rest
      /\ ack_state' = IF ack_state = "Idle" /\ rest = {}
                      THEN "Delay" ELSE "Immediate"

(***************************************************************************)
(* handle_data: a new TSN is accepted while the receive window is open     *)
(* (credit), and into a closed window when it fills a gap.  Whether the    *)
(* chunk goes to its stream or, above a pending reset, is kept for later,  *)
(* makes no difference to the TSNs; delivered stands for both.             *)
(***************************************************************************)
Accepted(t, credit) ==
  /\ t \notin payload_queue /\ ~sna32lte(t, peer_last_tsn)
  /\ \/ credit
     \/ payload_queue # {} /\ sna32lt(t, LastOf(payload_queue))

handle_data(p, credit) ==
  /\ p \in net /\ p.type = "DATA"
  /\ LET taken == IF Accepted(p.tsn, credit) THEN {p.tsn} ELSE {}
     IN  /\ delivered' = delivered \cup taken
         /\ handle_peer_last_tsn_and_acknowledgement(peer_last_tsn,
              payload_queue \cup taken)
  /\ UNCHANGED <<sender, net>>

(* Mutant: an old FORWARD-TSN is applied. *)
handle_forward_tsn_old(p) ==
  /\ p \in net /\ p.type = "FORWARD-TSN"
  /\ handle_peer_last_tsn_and_acknowledgement(p.cum, payload_queue)
  /\ UNCHANGED <<sender, net, delivered>>

\* handle_forward_tsn: an old one is answered at once
handle_forward_tsn(p) ==
  /\ p \in net /\ p.type = "FORWARD-TSN"
  /\ IF sna32lte(p.cum, peer_last_tsn)
     THEN /\ ack_state' = "Immediate"
          /\ UNCHANGED <<peer_last_tsn, payload_queue>>
     ELSE handle_peer_last_tsn_and_acknowledgement(p.cum,
            {t \in payload_queue : ~sna32lte(t, p.cum)})
  /\ UNCHANGED <<sender, net, delivered>>

on_ack_timeout ==
  /\ ack_state = "Delay"
  /\ ack_state' = "Immediate"
  /\ UNCHANGED <<sender, net, peer_last_tsn, payload_queue, delivered>>

\* gather_outbound_sack_packets and create_selective_ack_chunk
send_sack(credit) ==
  /\ ack_state = "Immediate"
  /\ Cardinality({p \in net : p.type = "SACK"}) < scenario.sacks
  /\ ack_state' = "Idle"
  /\ net' = net \cup {Sack(peer_last_tsn,
               {Minus(t, peer_last_tsn) : t \in payload_queue} \cap 1 .. MaxGap,
               credit)}
  /\ UNCHANGED <<sender, peer_last_tsn, payload_queue, delivered>>

\* A datagram is lost, or has arrived for the last time
lose(p) ==
  /\ p.type \in Lossy
  /\ net' = net \ {p}
  /\ UNCHANGED <<sender, receiver>>

-----------------------------------------------------------------------------
Next ==
  \/ write
  \/ establish
  \/ \E late \in SUBSET (TimedMessages \ expired), cwnd \in 1 .. scenario.cwnd :
       \E packet \in IF will_retransmit_fast THEN 1 .. scenario.cwnd ELSE {1} :
         poll_transmit(late, cwnd, packet)
  \/ \E d \in net : handle_sack(d)
  \/ on_t3_timeout
  \/ \E p \in net, credit \in {w > 0 : w \in scenario.windows} : handle_data(p, credit)
  \/ \E p \in net : handle_forward_tsn(p)
  \/ on_ack_timeout
  \/ \E credit \in scenario.windows : send_sack(credit)
  \/ \E p \in net : lose(p)

Spec == Init /\ [][Next]_vars

(***************************************************************************)
(* Fairness for the liveness property.  The driver of the association      *)
(* polls it, passes it expired timers and does so on both sides; the       *)
(* network does not lose all of the copies of a TSN, all of the SACKs that *)
(* report the receiver's state, or all of the latest FORWARD-TSNs;         *)
(* and the receiving application reads, so that the window opens again.    *)
(***************************************************************************)
Poll == \E late \in SUBSET (TimedMessages \ expired), cwnd \in 1 .. scenario.cwnd :
          poll_transmit(late, cwnd, 1)

FairSpec ==
  /\ Spec
  /\ WF_vars(establish)
  /\ WF_vars(Poll) /\ WF_vars(on_t3_timeout) /\ WF_vars(on_ack_timeout)
  /\ WF_vars(\E credit \in scenario.windows : send_sack(credit))
  /\ WF_vars(\E p \in net : p.type = "SACK" /\ lose(p))
  /\ \A i \in 0 .. MaxTsns - 1 :
       SF_vars(handle_data(Data(Plus(InitialTsn, i)), TRUE))
  /\ SF_vars(\E d \in net : handle_sack(d) /\ d.cum = peer_last_tsn)
  /\ SF_vars(\E p \in net : /\ handle_forward_tsn(p)
                            /\ p.cum = advanced_peer_tsn_ack_point)

-----------------------------------------------------------------------------
(* Properties.                                                             *)

(* The flight is exactly the TSNs after the cumulative ack point and before *)
(* the next TSN, in the serial order and across its wrap: retransmission,   *)
(* which stops at the first TSN it does not find, then reaches all of it.   *)
(* The sender's view trails the receiver's, which trails what was assigned. *)
FlightContiguous ==
  /\ DOMAIN q.inflight =
       {Plus(cumulative_tsn_ack_point, i) :
          i \in 1 .. Minus(q.my_next_tsn, cumulative_tsn_ack_point) - 1}
  /\ sna32lte(cumulative_tsn_ack_point, peer_last_tsn)
  /\ sna32lt(peer_last_tsn, q.my_next_tsn)
  /\ sna32lt(advanced_peer_tsn_ack_point, q.my_next_tsn)

(* However SACKs are delayed, duplicated and reordered, handle_sack never   *)
(* returns ErrInflightQueueTsnPop or ErrTsnRequestNotExist, so that a peer  *)
(* that follows the protocol cannot make the association close.             *)
SackNeverRefused == ~failed

(* The first TSN in flight is never one that a gap ack block acknowledged:  *)
(* otherwise a closed window would stop get_data_packets_to_retransmit for  *)
(* good, which probes with the first TSN only.                              *)
ProbeAvailable ==
  LET first == Plus(cumulative_tsn_ack_point, 1)
  IN  first \in DOMAIN q.inflight => ~q.inflight[first].acked

(* The TSN at which fast recovery ends is in flight, so popping it, which   *)
(* is the only way out of fast recovery, is still to come.                  *)
RecoveryEnds == fast_recovery # NoTsn => fast_recovery \in DOMAIN q.inflight

(* While anything is in flight, a terminal TSN of an abandoned tail         *)
(* included, T3-rtx is running: DATA and FORWARD-TSN are repeated.          *)
T3Covers == DOMAIN q.inflight # {} => t3

(* What a stream reports as buffered is exactly its payload that is neither *)
(* acknowledged nor abandoned nor expired: gap acks, cumulative acks,       *)
(* abandonment and expiry each release a chunk once and no chunk twice.     *)
BufferedExact ==
  \A s \in Streams :
    q.buffered_amount[s] =
      Cardinality({t \in DOMAIN q.inflight :
                     Outstanding(q.inflight[t]) /\ q.inflight[t].stream = s})
      + Cardinality({i \in DOMAIN InOrder(q) : InOrder(q)[i].stream = s})

\* The ordered messages of a stream, sent ever or pending, each with its SSN
OrderedOn(s) ==
  {<<sent[t].message_id, sent[t].ssn>> : t \in
     {u \in DOMAIN sent : sent[u].stream = s /\ ~sent[u].unordered}}
  \cup
  {<<q.ordered_queue[i].message_id, q.ordered_queue[i].ssn>> : i \in
     {j \in DOMAIN q.ordered_queue : q.ordered_queue[j].stream = s}}

(* The ordered messages of a stream have the SSNs 0, 1, 2, ... without gap  *)
(* or repetition in the order they were written, whatever expired unsent in *)
(* between: a receiver never waits for an SSN that nobody was given.        *)
SsnsConsecutive ==
  \A s \in Streams :
    /\ {o[2] : o \in OrderedOn(s)} = 0 .. q.sequence_number[s] - 1
    /\ \A o, p \in OrderedOn(s) : o[1] < p[1] <=> o[2] < p[2]

(* Fragments of two messages never alternate: a pending chunk that is not   *)
(* the first of its message is at the head of the queue and selected, or    *)
(* stands right behind another one of its message.                          *)
OneSplitMessage ==
  LET order == InOrder(q)
  IN  /\ \A i \in DOMAIN order :
           \/ order[i].beginning
           \/ i > 1 /\ order[i - 1].message_id = order[i].message_id
           \/ i = 1 /\ q.selected # "none"
      /\ q.selected # "none" => order # <<>> /\ ~order[1].beginning

(* A chunk of a reliable message that the receiver acknowledges cumulatively *)
(* was handed to its stream: no FORWARD-TSN ever skips it.                   *)
ReliableDelivered ==
  \A t \in DOMAIN sent :
    sent[t].policy = "reliable" /\ sna32lte(t, peer_last_tsn) => t \in delivered

(* A FORWARD-TSN moves a stream past an SSN only if every reliable message  *)
(* of the stream up to that SSN has reached the stream.                     *)
SkipsOnlyAbandoned ==
  \A p \in net : p.type = "FORWARD-TSN" =>
    \A t \in DOMAIN sent :
      /\ sent[t].policy = "reliable" /\ ~sent[t].unordered
      /\ p.streams[sent[t].stream] # NoTsn
      /\ sent[t].ssn <= p.streams[sent[t].stream]
      => t \in delivered

(* Whatever was written is settled in the end: each chunk is acknowledged,  *)
(* abandoned and skipped, or dropped before it was sent, and the flight and *)
(* the pending queues are empty again, zero windows notwithstanding.        *)
EverythingSettles ==
  InOrder(q) # <<>> \/ DOMAIN q.inflight # {}
    ~> InOrder(q) = <<>> /\ DOMAIN q.inflight = {}

(* No step moves a cumulative point back, in the sender or in the receiver. *)
PointsAdvance ==
  [][/\ sna32lte(cumulative_tsn_ack_point, cumulative_tsn_ack_point')
     /\ sna32lte(advanced_peer_tsn_ack_point, advanced_peer_tsn_ack_point')
     /\ sna32lte(peer_last_tsn, peer_last_tsn')]_vars
=============================================================================
