--------------------------- MODULE OutboundQueue ---------------------------
(***************************************************************************)
(* The sender's OutboundQueue (src/queue/outbound_queue.rs): the two       *)
(* pending queues of pending_queue.rs, whose chunks have no TSN yet, and   *)
(* the flight queue of payload_queue.rs, which maps TSNs to chunks.  The   *)
(* operators below take a queue record q and return the record after the   *)
(* operation.  Besides the queue the record holds what every operation     *)
(* updates along with it: the TSN cursor (my_next_tsn), the peer's window  *)
(* (rwnd), and per stream the amount the application is told is buffered   *)
(* and the next stream sequence number (SSN).                              *)
(*                                                                         *)
(* Payload is counted in chunks: every fragment is one unit.  The payload  *)
(* of a chunk in flight is dropped when it is acknowledged or abandoned.   *)
(***************************************************************************)
EXTENDS SerialNumbers, Sequences, FiniteSets

CONSTANTS
  Streams,         \* stream identifiers
  UseForwardTsn,   \* whether both peers support FORWARD-TSN
  MaxRexmit        \* reliability value of messages limited in retransmissions

ASSUME QueueAssumption == UseForwardTsn \in BOOLEAN /\ MaxRexmit \in Nat

\* the counter of sends is only compared with 1 and with MaxRexmit
NsentCap == IF MaxRexmit > 1 THEN MaxRexmit + 1 ELSE 2

Min2(a, b) == IF a < b THEN a ELSE b
Less(a, b) == IF a < b THEN 0 ELSE a - b       \* subtraction that stops at 0

Outstanding(c) == ~c.acked /\ ~c.abandoned

inflight_bytes(q) ==
  Cardinality({t \in DOMAIN q.inflight : Outstanding(q.inflight[t])})

-----------------------------------------------------------------------------
(***************************************************************************)
(* The chunks at some positions of a queue, in their order (the retain of  *)
(* a VecDeque).                                                            *)
(***************************************************************************)
retain(queue, positions) ==
  [k \in 1 .. Cardinality(positions) |->
     queue[CHOOSE i \in positions :
             Cardinality({j \in positions : j < i}) = k - 1]]

\* The positions of the chunks of the messages M
ChunksOf(queue, M) == {i \in DOMAIN queue : queue[i].message_id \in M}

\* The queue with, and without, the chunks of M
only(queue, M) == retain(queue, ChunksOf(queue, M))
without(queue, M) == retain(queue, DOMAIN queue \ ChunksOf(queue, M))

(* Mutant: unordered chunks overtake a message that is partly sent. *)
InOrder_unselected(q) == q.unordered_queue \o q.ordered_queue

(***************************************************************************)
(* The pending chunks in the order peek and pop take them: the rest of the *)
(* message that is partly sent (selected), then unordered, then ordered    *)
(* messages.                                                               *)
(***************************************************************************)
InOrder(q) ==
  IF q.selected = "ordered"
  THEN LET selected == {Head(q.ordered_queue).message_id}
       IN  only(q.ordered_queue, selected)
             \o q.unordered_queue \o without(q.ordered_queue, selected)
  ELSE q.unordered_queue \o q.ordered_queue

MessagesOf(chunks) == {chunks[i].message_id : i \in DOMAIN chunks}

\* push: a message without fragments is not queued
push(q, chunks) ==
  IF chunks = <<>> THEN q
  ELSE [q EXCEPT
    !.next_message_id = @ + 1,
    !.ordered_queue = IF chunks[1].unordered THEN @ ELSE @ \o chunks,
    !.unordered_queue = IF chunks[1].unordered THEN @ \o chunks ELSE @]

\* The chunk in flight: send_next assigns a TSN, counts the first send
Launched(c) ==
  [message_id |-> c.message_id, stream |-> c.stream, ssn |-> c.ssn,
   unordered |-> c.unordered, policy |-> c.policy,
   acked |-> FALSE, abandoned |-> FALSE, retransmit |-> FALSE,
   nsent |-> 1, miss |-> 0]

\* The empty chunk that reserves one TSN for an abandoned unsent tail
Terminal(c) == [Launched(c) EXCEPT !.abandoned = TRUE, !.nsent = 0]

on_buffer_released(q, released) ==
  [q EXCEPT !.buffered_amount = [s \in Streams |-> Less(@[s], released[s])]]

(***************************************************************************)
(* abandon, for every message of M: its chunks in flight are abandoned,    *)
(* its unsent chunks removed, and one terminal TSN stands for those.  Only *)
(* the selected message is both in flight and pending (the invariant       *)
(* OneSplitMessage), so M has at most one such tail.                       *)
(***************************************************************************)
abandon(q, M) ==
  LET mine(c) == c.message_id \in M
      tail == only(InOrder(q), M)
      flight == [t \in DOMAIN q.inflight |->
                   LET c == q.inflight[t]
                   IN  IF mine(c)
                       THEN [c EXCEPT !.abandoned = TRUE, !.retransmit = FALSE]
                       ELSE c]
      released == [s \in Streams |->
        Cardinality({t \in DOMAIN q.inflight :
                       LET c == q.inflight[t]
                       IN  mine(c) /\ Outstanding(c) /\ c.stream = s})
          + Cardinality({i \in DOMAIN tail : tail[i].stream = s})]
      marked ==
        IF tail = <<>> THEN [q EXCEPT !.inflight = flight]
        ELSE [q EXCEPT
          !.inflight = [t \in DOMAIN flight \cup {q.my_next_tsn} |->
                          IF t = q.my_next_tsn
                          THEN Terminal(tail[Len(tail)]) ELSE flight[t]],
          !.my_next_tsn = Plus(@, 1),
          !.selected = IF InOrder(q)[1].message_id \in M THEN "none" ELSE @,
          !.ordered_queue = without(@, M),
          !.unordered_queue = without(@, M)]
  IN  on_buffer_released(marked, released)

(***************************************************************************)
(* expire_inflight_messages: timed messages whose deadline has passed are  *)
(* abandoned, those fully acknowledged excepted, and so is the partly sent *)
(* message at the head of the pending queues.                              *)
(***************************************************************************)
ExpiredMessages(q, expired) ==
  LET order == InOrder(q)
  IN  {m \in IF UseForwardTsn THEN expired ELSE {} :
         \/ \E t \in DOMAIN q.inflight :
              LET c == q.inflight[t]
              IN  /\ c.message_id = m /\ ~c.abandoned
                  /\ ~c.acked \/ m \in MessagesOf(order)
         \/ /\ order # <<>>
            /\ order[1].message_id = m /\ ~order[1].beginning}

\* abandon_if_needed, for a candidate that expiry has left
Exhausted(c) == UseForwardTsn /\ c.policy = "rexmit" /\ c.nsent > MaxRexmit

-----------------------------------------------------------------------------
(***************************************************************************)
(* The walk over the flight that picks, from the candidates C in TSN       *)
(* order, the chunks to send again.  A candidate whose message has used up *)
(* its retransmissions abandons the message, selected siblings included;   *)
(* the walk ends at the first other candidate that does not fit into room. *)
(***************************************************************************)
UpTo(C, t) == {u \in C : sna32lte(u, t)}

GivenUp(q, C) == 
  {q.inflight[u].message_id : u \in {v \in C : Exhausted(q.inflight[v])}}

Staying(q, C) == {u \in C : q.inflight[u].message_id \notin GivenUp(q, C)}

Reached(q, C, room) ==
  {t \in C : \A u \in UpTo(C, t) :
                \/ q.inflight[u].message_id \in GivenUp(q, UpTo(C, u))
                \/ Cardinality(Staying(q, UpTo(C, u))) <= room}

(* Mutant: no probe into a closed window. *)
ToRetransmit_unprobed(q, M, first, cwnd) ==
  Reached(q, {t \in DOMAIN q.inflight :
                q.inflight[t].retransmit /\ q.inflight[t].message_id \notin M},
          Min2(cwnd, q.rwnd))

(***************************************************************************)
(* get_data_packets_to_retransmit, when the messages M are abandoned.  The *)
(* first chunk in flight is sent even into a closed window (a zero-window  *)
(* probe), and then alone.                                                 *)
(***************************************************************************)
ToRetransmit(q, M, first, cwnd) ==
  LET C == {t \in DOMAIN q.inflight :
              q.inflight[t].retransmit /\ q.inflight[t].message_id \notin M}
  IN  IF first \in C /\ ~Exhausted(q.inflight[first]) /\ q.rwnd < 1
      THEN {first}
      ELSE Reached(q, C, Min2(cwnd, q.rwnd))

\* gather_outbound_fast_retransmission_packets: one packet of the chunks that
\* were reported missing three times and were sent once, so not those of resent
ToFastRetransmit(q, M, resent, packet) ==
  Reached(q, {t \in DOMAIN q.inflight \ resent :
                LET c == q.inflight[t]
                IN  /\ Outstanding(c) /\ c.message_id \notin M
                    /\ c.nsent <= 1 /\ c.miss = 3},
          packet)

\* The queue after resent, retransmitted, and fast, fast retransmitted
Resent(q, resent, fast) ==
  [q EXCEPT !.inflight = [t \in DOMAIN q.inflight |->
     LET c == q.inflight[t]
     IN  IF t \in resent \cup fast
         THEN [c EXCEPT !.nsent = Min2(@ + 1, NsentCap),
                        !.retransmit = @ /\ t \notin resent]
         ELSE c]]

-----------------------------------------------------------------------------
(***************************************************************************)
(* pop_pending_data_chunks_to_send.  At the head of the queue an expired   *)
(* message of which nothing was sent is dropped, without a TSN, and the    *)
(* SSNs behind it close up; any other chunk is sent while cwnd and rwnd    *)
(* have room for it.  With nothing in flight one chunk is sent regardless. *)
(***************************************************************************)
\* Expired messages with their first fragment still in order
LateMessages(order, expired) ==
  {m \in IF UseForwardTsn THEN expired ELSE {} :
     \E i \in DOMAIN order : order[i].message_id = m /\ order[i].beginning}

\* How many of n sendable chunks the windows have room for
Fitting(q, n, cwnd) ==
  Min2(n, Min2(q.rwnd, Less(cwnd, inflight_bytes(q))))

\* How many are sent, the probe included
Sending(q, n, cwnd) ==
  IF DOMAIN q.inflight = {} /\ n > 0 /\ Fitting(q, n, cwnd) = 0
  THEN 1 ELSE Fitting(q, n, cwnd)

\* Positions of the first chunks of the late messages met before the stop
Dropped(order, late, fitting) ==
  {i \in DOMAIN order :
     /\ order[i].message_id \in late /\ order[i].beginning
     /\ Cardinality({j \in 1 .. i - 1 : order[j].message_id \notin late})
          <= fitting}

(* Mutant: the SSNs behind a dropped message stay as they are. *)
compact_ordered_ssns_not(order, drop, c) == c

\* c after the messages at the positions drop are gone from before it
compact_ordered_ssns(order, drop, c) ==
  LET before == {i \in drop : /\ ~order[i].unordered
                              /\ order[i].stream = c.stream
                              /\ order[i].message_id < c.message_id}
  IN  IF c.unordered THEN c ELSE [c EXCEPT !.ssn = @ - Cardinality(before)]

pop_pending_data_chunks_to_send(q, expired, cwnd) ==
  LET order == InOrder(q)
      late == LateMessages(order, expired)
      live == without(order, late)
      n == Sending(q, Len(live), cwnd)
      drop == Dropped(order, late, Fitting(q, Len(live), cwnd))
      gone == {order[i].message_id : i \in drop}
      compact(c) == compact_ordered_ssns(order, drop, c)
      stays(c) == /\ c.message_id \notin gone
                  /\ \A i \in 1 .. n : live[i] # c
      rest(queue) == LET kept == retain(queue, {i \in DOMAIN queue : stays(queue[i])})
                     IN  [i \in DOMAIN kept |-> compact(kept[i])]
      new == {Plus(q.my_next_tsn, i - 1) : i \in 1 .. n}
      sent == [q EXCEPT
        !.ordered_queue = rest(@), !.unordered_queue = rest(@),
        !.selected = IF n = 0 THEN @
                     ELSE IF live[n].ending THEN "none"
                     ELSE IF live[n].unordered THEN "unordered"
                     ELSE "ordered",
        !.inflight = [t \in DOMAIN @ \cup new |->
                        IF t \in new
                        THEN Launched(compact(live[Minus(t, q.my_next_tsn) + 1]))
                        ELSE @[t]],
        !.my_next_tsn = Plus(@, n),
        !.rwnd = @ - Fitting(q, Len(live), cwnd),
        !.sequence_number = [s \in Streams |-> @[s] - Cardinality(
           {i \in drop : ~order[i].unordered /\ order[i].stream = s})]]
  IN  on_buffer_released(sent, [s \in Streams |-> Cardinality(
        {i \in DOMAIN order : order[i].message_id \in gone /\ order[i].stream = s})])
=============================================================================
