----------------------------- MODULE StreamReset -----------------------------
(***************************************************************************)
(* Stream reset between two established associations: the application      *)
(* closes a stream, each side resets its outgoing half by a RE-CONFIG      *)
(* request, what was received before the reset stays readable, and the     *)
(* identifier can be used again.                                           *)
(*                                                                         *)
(* Association in src/association/mod.rs is a record, and each method that *)
(* takes &mut self is an operator from records to records.  The messages   *)
(* are ordered, reliable and of one chunk; TSNs and request sequence       *)
(* numbers count from 1.  DATA in flight is repeated until acknowledged,   *)
(* so it may arrive in any order; RE-CONFIG chunks may arrive in any       *)
(* order, any number of times, or never.                                   *)
(***************************************************************************)
EXTENDS Integers, FiniteSets, SequencesExt, FiniteSetsExt

CONSTANTS
  Peers,           \* the two ends
  Ids,             \* stream identifiers
  MaxRetransmits,  \* limit of the Re-configuration Timer, or NoLimit
  NoLimit,
  None,
  \* Bounds, on what both ends do together
  MaxOpens,        \* streams opened by an application
  MaxWrites,       \* messages written
  MaxStops,        \* calls of stop, finish and close
  MaxTimeouts,     \* expiries of the Re-configuration Timer
  MaxRequests      \* requests of one end; after them no RE-CONFIG arrives there

ASSUME StreamResetAssumption == Cardinality(Peers) = 2

VARIABLES
  assoc,  \* the Association at each end
  net     \* RE-CONFIG chunks sent to each end

vars == <<assoc, net>>

Other(p) == CHOOSE q \in Peers : q # p

Request(rsn, response, last_tsn, ids) ==
  [rsn |-> rsn, response |-> response, sender_last_tsn |-> last_tsn, ids |-> ids]

Response(rsn, result) == [rsn |-> rsn, result |-> result]

IsRequest(c) == "ids" \in DOMAIN c

NewStream ==
  [state |-> {"Readable", "Writable"}, queue |-> {}, next_ssn |-> 0, sequence_number |-> 0]

NewAssociation ==
  [streams |-> [id \in Ids |-> None],
   pending |-> <<>>, inflight |-> {}, my_next_tsn |-> 1,
   peer_last_tsn |-> 0, payload_queue |-> {},
   my_next_rsn |-> 1, reconfigs |-> {}, active_reconfig |-> None,
   pending_reset_streams |-> {},
   reconfig_requests |-> {}, peer_last_reconfig_rsn |-> 0,
   max_completed_reconfig_rsn |-> 0,
   deferred_reset_data |-> {},
   retiring_streams |-> [id \in Ids |-> <<>>],
   pending_reset_completions |-> [id \in Ids |-> 0],
   ready_stream_finishes |-> [id \in Ids |-> 0],
   delivered_stream_finishes |-> [id \in Ids |-> 0],
   failed_reset_streams |-> {},
   events |-> [id \in Ids |-> <<>>],
   control_queue |-> <<>>, responses |-> {},  \* the queue's requests, the rest
   timer |-> FALSE, retrans |-> 0, no_error_count |-> FALSE,
   will_retransmit_reconfig |-> FALSE,
   \* History: counts for the bounds; the messages read, in order; those
   \* dropped because the application had stopped reading
   opened |-> 0, written |-> 0, stops |-> 0, timeouts |-> 0,
   log |-> [id \in Ids |-> <<>>], discarded |-> {}]

Init ==
  /\ assoc = [p \in Peers |-> NewAssociation]
  /\ net = [p \in Peers |-> {}]

-----------------------------------------------------------------------------
(* Streams and their identifiers.                                          *)

create_stream(a, id, accept) ==
  [a EXCEPT !.streams[id] = NewStream,
            !.events[id] = IF accept THEN Append(@, "Opened") ELSE @]

get_or_create_stream(a, id) ==
  IF a.streams[id] = None THEN create_stream(a, id, TRUE) ELSE a

IsReadable(a, id) == a.streams[id] # None /\ "Readable" \in a.streams[id].state

queue_stream_finished(a, id, ready) ==
  [a EXCEPT !.events[id] = Append(@, "Finished"),
            !.pending_reset_completions[id] = @ + 1,
            !.ready_stream_finishes[id] = IF ready THEN @ + 1 ELSE @]

unregister_stream(a, id, finished) ==
  IF a.streams[id] = None THEN a
  ELSE LET b == [a EXCEPT !.streams[id] = None,
                          !.discarded = IF IsReadable(a, id) THEN @
                                        ELSE @ \cup a.streams[id].queue]
       IN  IF finished THEN queue_stream_finished(b, id, TRUE) ELSE b

stream_reset_in_progress(a, id) ==
  \/ id \in a.pending_reset_streams
  \/ \E r \in a.reconfigs : id \in r.ids

stream_reset_blocked(a, id) ==
  \/ a.pending_reset_completions[id] > 0
  \/ id \in a.failed_reset_streams
  \/ a.retiring_streams[id] # <<>>
  \/ stream_reset_in_progress(a, id)

stream_has_unacked_data(a, id) ==
  \/ \E i \in DOMAIN a.pending : a.pending[i].id = id
  \/ \E m \in a.inflight : m.id = id

-----------------------------------------------------------------------------
(* DATA around a reset.                                                    *)

\* Mutant: DATA of the successor is not held back while the old one is read
AbovePendingReset_unretired(a, m) ==
  \E r \in a.reconfig_requests : m.id \in r.ids /\ m.tsn > r.sender_last_tsn

data_is_above_pending_reset(a, m) ==
  \/ a.retiring_streams[m.id] # <<>>
  \/ \E r \in a.reconfig_requests : m.id \in r.ids /\ m.tsn > r.sender_last_tsn

\* Stream::handle_data: a message with an SSN already read is ignored
deliver(m, a) ==
  LET b == get_or_create_stream(a, m.id)
  IN  [b EXCEPT !.streams[m.id].queue =
                  IF m.ssn < b.streams[m.id].next_ssn THEN @ ELSE @ \cup {m},
                !.deferred_reset_data = @ \ {m}]

release(a, messages) == FoldSet(deliver, a, messages)

release_deferred_reset_data(a) ==
  release(a, {m \in a.deferred_reset_data : ~data_is_above_pending_reset(a, m)})

\* Mutant: the stream is removed with what is unread in it
Retire_at_once(a, id, sender_last_tsn) == unregister_stream(a, id, TRUE)

\* The end of a generation: it stays while there is something to read
retire_stream(a, id, sender_last_tsn) ==
  IF \/ a.retiring_streams[id] # <<>>
     \/ IsReadable(a, id) /\ a.streams[id].queue # {}
  THEN queue_stream_finished(
         [a EXCEPT !.retiring_streams[id] = Append(@, sender_last_tsn)], id, FALSE)
  ELSE unregister_stream(a, id, TRUE)

\* The number of generations that end now: up to the next with deferred DATA
Ended(a, id) ==
  LET bounds == a.retiring_streams[id]
  IN  Min({k \in DOMAIN bounds :
             \/ k = Len(bounds)
             \/ \E m \in a.deferred_reset_data :
                  m.id = id /\ m.tsn > bounds[k] /\ m.tsn <= bounds[k + 1]})

\* Called when a read leaves nothing in the reassembly queue
finish_retiring_stream(a, id) ==
  IF a.retiring_streams[id] = <<>> THEN a
  ELSE LET bounds == a.retiring_streams[id]
           k == Ended(a, id)
           b == [a EXCEPT !.streams[id] = None,
                          !.retiring_streams[id] = SubSeq(@, k + 1, Len(@)),
                          !.ready_stream_finishes[id] = @ + k]
           c == IF k = Len(bounds) THEN release_deferred_reset_data(b)
                ELSE release(b, {m \in b.deferred_reset_data :
                                   /\ m.id = id
                                   /\ m.tsn > bounds[k] /\ m.tsn <= bounds[k + 1]})
       IN  IF c.streams[id] = None THEN c
           ELSE [c EXCEPT !.streams[id].state = @ \cap a.streams[id].state]

discard_retiring_streams(a, id) ==
  LET deferred == {m \in a.deferred_reset_data : m.id = id}
      b == [a EXCEPT
              !.retiring_streams[id] = <<>>,
              !.ready_stream_finishes[id] = @ + Len(a.retiring_streams[id]),
              !.deferred_reset_data = @ \ deferred,
              !.events[id] = SelectSeq(@, LAMBDA e : e # "Opened"),
              !.streams[id].queue = {}, !.streams[id].next_ssn = 0,
              !.discarded = @ \cup deferred \cup a.streams[id].queue]
  IN  IF stream_reset_blocked(b, id) THEN b ELSE unregister_stream(b, id, FALSE)

-----------------------------------------------------------------------------
(* The outcome of our own request.                                         *)

TakeOne(n) == IF n > 0 THEN n - 1 ELSE 0

\* Mutant: the sender goes on numbering where the old generation ended
EmitComplete_ssn_kept(id, a) ==
  LET notify == a.pending_reset_completions[id] > 0
      b == [a EXCEPT !.pending_reset_completions[id] = TakeOne(@),
                     !.failed_reset_streams = @ \ {id}]
      c == IF \/ stream_reset_blocked(b, id) \/ b.streams[id] = None
              \/ ~notify \/ IsReadable(b, id)
           THEN b ELSE unregister_stream(b, id, FALSE)
  IN  IF notify THEN [c EXCEPT !.events[id] = Append(@, "ResetComplete")]
                ELSE c

emit_reset_complete(id, a) ==
  LET notify == a.pending_reset_completions[id] > 0
      b == [a EXCEPT !.pending_reset_completions[id] = TakeOne(@),
                     !.failed_reset_streams = @ \ {id}]
      c == IF stream_reset_blocked(b, id) \/ b.streams[id] = None THEN b
           ELSE IF notify /\ ~IsReadable(b, id) THEN unregister_stream(b, id, FALSE)
           ELSE [b EXCEPT !.streams[id].sequence_number = 0]
  IN  IF notify THEN [c EXCEPT !.events[id] = Append(@, "ResetComplete")]
                ELSE c

\* Mutant: the completion stays owed after a failure
EmitFailed_unsettled(id, a) ==
  [a EXCEPT !.failed_reset_streams = @ \cup {id},
            !.events[id] = Append(@, "ResetFailed")]

emit_reset_failed(id, a) ==
  [a EXCEPT !.pending_reset_completions[id] = TakeOne(@),
            !.failed_reset_streams = @ \cup {id},
            !.events[id] = Append(@, "ResetFailed")]

finish_reconfig(a, rsn, success) ==
  IF a.active_reconfig # rsn THEN a
  ELSE LET ids == UNION {r.ids : r \in {q \in a.reconfigs : q.rsn = rsn}}
           b == [a EXCEPT !.reconfigs = {r \in @ : r.rsn # rsn},
                          !.active_reconfig = None,
                          !.will_retransmit_reconfig = FALSE,
                          !.timer = FALSE, !.retrans = 0, !.no_error_count = FALSE]
       IN  IF success THEN FoldSet(emit_reset_complete, b, ids)
                      ELSE FoldSet(emit_reset_failed, b, ids)

-----------------------------------------------------------------------------
(* The peer's requests.                                                    *)

Reply(a, response) == [a EXCEPT !.responses = @ \cup {response}]

\* The reset of our own half that answers the peer's
reciprocal(a, ids, rsn) ==
  IF ids = {} THEN a
  ELSE LET r == Request(a.my_next_rsn, rsn, a.my_next_tsn - 1, ids)
       IN  [a EXCEPT !.pending_reset_streams = @ \ ids,
                     !.my_next_rsn = @ + 1,
                     !.reconfigs = @ \cup {r},
                     !.control_queue = Append(@, r)]

reset_streams_if_any(a, r, from_wire) ==
  IF r.sender_last_tsn > a.peer_last_tsn
  THEN IF from_wire THEN Reply(a, Response(r.rsn, "InProgress")) ELSE a
  ELSE LET ids == {id \in r.ids : a.streams[id] # None}
           b == [FoldSet(LAMBDA id, x : retire_stream(x, id, r.sender_last_tsn), a, ids)
                   EXCEPT !.reconfig_requests = @ \ {r},
                          !.max_completed_reconfig_rsn = r.rsn]
       IN  Reply(release_deferred_reset_data(reciprocal(b, ids, r.rsn)),
                 Response(r.rsn, "SuccessPerformed"))

\* RFC 6525 5.2.2: a request implicitly acknowledges ours; one performed
\* before is answered again; a new one must be the next, and the only one
handle_request(a, r) ==
  LET b == finish_reconfig(a, r.response, TRUE)
      known == {q \in b.reconfig_requests : q.rsn = r.rsn}
  IN  IF known # {}
      THEN reset_streams_if_any(b, CHOOSE q \in known : TRUE, TRUE)
      ELSE IF r.rsn <= b.max_completed_reconfig_rsn
      THEN Reply(b, Response(r.rsn, "SuccessPerformed"))
      ELSE IF b.reconfig_requests # {}
      THEN Reply(b, Response(r.rsn, "ErrorRequestAlreadyInProgress"))
      ELSE IF r.rsn # b.peer_last_reconfig_rsn + 1
      THEN Reply(b, Response(r.rsn, "ErrorBadSequenceNumber"))
      ELSE reset_streams_if_any([b EXCEPT !.peer_last_reconfig_rsn = r.rsn,
                                          !.reconfig_requests = {r}], r, TRUE)

handle_response(a, c) ==
  IF a.active_reconfig # c.rsn THEN a
  ELSE IF c.result = "InProgress"
  THEN [a EXCEPT !.will_retransmit_reconfig = FALSE, !.timer = FALSE,
                 !.no_error_count = TRUE]
  ELSE finish_reconfig(a, c.rsn, c.result = "SuccessPerformed")

reevaluate_pending_reset_requests(a) ==
  FoldSet(LAMBDA r, x : reset_streams_if_any(x, r, FALSE), a, a.reconfig_requests)

\* One TSN taken into the cumulative point
AdvanceOne(i, a) ==
  LET tsn == a.peer_last_tsn + 1
      b == reevaluate_pending_reset_requests(
             [a EXCEPT !.peer_last_tsn = tsn, !.payload_queue = @ \ {tsn}])
      ready == {m \in b.deferred_reset_data :
                  m.tsn = tsn /\ ~data_is_above_pending_reset(b, m)}
  IN  IF tsn \notin a.payload_queue THEN a ELSE release(b, ready)

handle_peer_last_tsn_and_acknowledgement(a) ==
  FoldSet(AdvanceOne, a, 1 .. Cardinality(a.payload_queue))

-----------------------------------------------------------------------------
(* Events to the application: those of a generation wait for its Finished, *)
(* which waits until the generation has been read.  Events of different    *)
(* streams do not wait for each other.                                     *)

Terminal == {"ResetComplete", "ResetFailed"}

\* Mutant: only Finished waits for the application to read
Selectable_unblocked(a, id, i) ==
  a.events[id][i] = "Finished" => a.ready_stream_finishes[id] > 0

Selectable(a, id, i) ==
  LET e == a.events[id][i]
      blocked == /\ a.ready_stream_finishes[id] = 0
                 /\ \E j \in 1 .. i - 1 : a.events[id][j] = "Finished"
  IN  IF e = "Finished" THEN a.ready_stream_finishes[id] > 0
      ELSE \/ ~blocked
           \/ e = "Opened"
           \/ e \in Terminal /\ a.delivered_stream_finishes[id] > 0

Pollable(a, id) == {i \in DOMAIN a.events[id] : Selectable(a, id, i)}

NextEvent(a, id) == a.events[id][Min(Pollable(a, id))]

poll(p, id) ==
  LET a == assoc[p]
      e == NextEvent(a, id)
  IN  /\ Pollable(a, id) # {}
      /\ assoc' = [assoc EXCEPT ![p] =
           [a EXCEPT
             !.events[id] = RemoveAt(@, Min(Pollable(a, id))),
             !.ready_stream_finishes[id] =
               IF e = "Finished" THEN TakeOne(@) ELSE @,
             !.delivered_stream_finishes[id] =
               IF e = "Finished" THEN @ + 1
               ELSE IF e \in Terminal THEN TakeOne(@) ELSE @]]
      /\ UNCHANGED net

-----------------------------------------------------------------------------
(* Transmission.                                                           *)

RequestOf(a, rsn) == CHOOSE r \in a.reconfigs : r.rsn = rsn

\* Responses leave at once; requests in order, one in flight, each held
\* while DATA of its streams is unacknowledged
gather_outbound_control_packets(a) ==
  LET r == [Head(a.control_queue) EXCEPT !.sender_last_tsn = a.my_next_tsn - 1]
  IN  IF /\ a.control_queue # <<>>
         /\ a.active_reconfig = None
         /\ \A id \in Head(a.control_queue).ids : ~stream_has_unacked_data(a, id)
      THEN [chunks |-> a.responses \cup {r},
            a |-> [a EXCEPT !.responses = {},
                            !.control_queue = Tail(@),
                            !.reconfigs = {q \in @ : q.rsn # r.rsn} \cup {r},
                            !.active_reconfig = r.rsn]]
      ELSE [chunks |-> a.responses, a |-> [a EXCEPT !.responses = {}]]

\* The first n pending messages receive TSNs; cwnd and rwnd decide n
Send(a, n) ==
  [a EXCEPT !.inflight = @ \cup {[id |-> a.pending[i].id, ssn |-> a.pending[i].ssn,
                                  tsn |-> a.my_next_tsn + i - 1] : i \in 1 .. n},
            !.pending = SubSeq(@, n + 1, Len(@)),
            !.my_next_tsn = @ + n]

\* The application's resets wait for every request to be settled
LocalReset(a) ==
  LET ids == {id \in a.pending_reset_streams : ~stream_has_unacked_data(a, id)}
      r == Request(a.my_next_rsn, a.peer_last_reconfig_rsn, a.my_next_tsn - 1, ids)
  IN  IF a.active_reconfig = None /\ a.reconfigs = {} /\ ids # {}
      THEN [chunks |-> {r},
            a |-> [a EXCEPT !.pending_reset_streams = @ \ ids,
                            !.my_next_rsn = @ + 1,
                            !.reconfigs = {r}, !.active_reconfig = r.rsn]]
      ELSE [chunks |-> {}, a |-> a]

transmit(a, n) ==
  LET control == gather_outbound_control_packets(a)
      b == Send(control.a, n)
      again == IF b.will_retransmit_reconfig /\ b.active_reconfig # None
               THEN {RequestOf(b, b.active_reconfig)} ELSE {}
      reset == LocalReset(b)
  IN  [chunks |-> control.chunks \cup again \cup reset.chunks,
       a |-> [reset.a EXCEPT !.will_retransmit_reconfig = FALSE,
                             !.timer = @ \/ reset.a.active_reconfig # None]]

\* poll_transmit, with or without a call before it that leaves p as a
poll_transmit(p, a) ==
  \E n \in 0 .. Len(a.pending) :
    LET t == transmit(a, n)
    IN  /\ assoc' = [assoc EXCEPT ![p] = t.a]
        /\ net' = [net EXCEPT ![Other(p)] = @ \cup t.chunks]

-----------------------------------------------------------------------------
(* The application's calls.                                                *)

\* What both ends have done, for the bounds
Total(field) == MapThenSumSet(LAMBDA p : assoc[p][field], Peers)

open_stream(p, id) ==
  /\ Total("opened") < MaxOpens
  /\ assoc[p].streams[id] = None
  /\ ~stream_reset_blocked(assoc[p], id)
  /\ poll_transmit(p, [create_stream(assoc[p], id, FALSE) EXCEPT !.opened = @ + 1])

write(p, id) ==
  LET a == assoc[p]
  IN  /\ Total("written") < MaxWrites
      /\ ~stream_reset_blocked(a, id)
      /\ a.streams[id] # None
      /\ "Writable" \in a.streams[id].state
      /\ poll_transmit(p, [a EXCEPT
           !.pending = Append(@, [id |-> id, ssn |-> a.streams[id].sequence_number]),
           !.streams[id].sequence_number = @ + 1,
           !.written = @ + 1])

\* Mutant: any queued message is returned, not the one whose turn it is
Read_unordered(p, id) ==
  /\ IsReadable(assoc[p], id)
  /\ \E m \in assoc[p].streams[id].queue :
       LET b == [assoc[p] EXCEPT !.streams[id].queue = @ \ {m},
                                 !.streams[id].next_ssn = IF m.ssn = @ THEN @ + 1 ELSE @,
                                 !.log[id] = Append(@, m)]
       IN  poll_transmit(p, IF b.streams[id].queue = {}
                            THEN finish_retiring_stream(b, id) ELSE b)

read(p, id) ==
  LET a == assoc[p]
  IN  /\ IsReadable(a, id)
      /\ \E m \in a.streams[id].queue :
           /\ m.ssn = a.streams[id].next_ssn
           /\ LET b == [a EXCEPT !.streams[id].queue = @ \ {m},
                                 !.streams[id].next_ssn = @ + 1,
                                 !.log[id] = Append(@, m)]
              IN  poll_transmit(p, IF b.streams[id].queue = {}
                                   THEN finish_retiring_stream(b, id) ELSE b)

\* Stream::stop, or Stream::close, which is Stream::finish and then stop
StopReading(p, id, halves) ==
  LET a == assoc[p]
      retiring == a.retiring_streams[id] # <<>>
      b == [a EXCEPT !.pending_reset_streams =
                       IF /\ IsReadable(a, id) /\ ~retiring
                          /\ ~stream_reset_in_progress(a, id)
                       THEN @ \cup {id} ELSE @,
                     !.streams[id].state = @ \ halves,
                     !.stops = @ + 1]
  IN  /\ a.streams[id] # None
      /\ Total("stops") < MaxStops
      /\ poll_transmit(p, IF retiring THEN discard_retiring_streams(b, id) ELSE b)

stop(p, id) == StopReading(p, id, {"Readable"})

close(p, id) == StopReading(p, id, {"Readable", "Writable"})

finish(p, id) ==
  /\ assoc[p].streams[id] # None
  /\ Total("stops") < MaxStops
  /\ poll_transmit(p, [assoc[p] EXCEPT !.streams[id].state = @ \ {"Writable"},
                                       !.stops = @ + 1])

-----------------------------------------------------------------------------
(* What arrives, and the Re-configuration Timer.                           *)

\* A SACK sent when the peer had received up to k
handle_sack(p, k) ==
  /\ k <= assoc[Other(p)].peer_last_tsn
  /\ \E m \in assoc[p].inflight : m.tsn <= k
  /\ poll_transmit(p, [assoc[p] EXCEPT !.inflight = {m \in @ : m.tsn > k}])

handle_data(p, m) ==
  LET a == assoc[p]
      b == [a EXCEPT !.payload_queue = @ \cup {m.tsn}]
  IN  /\ m.tsn > a.peer_last_tsn /\ m.tsn \notin a.payload_queue
      /\ poll_transmit(p, handle_peer_last_tsn_and_acknowledgement(
           IF data_is_above_pending_reset(a, m)
           THEN [b EXCEPT !.deferred_reset_data = @ \cup {m}]
           ELSE deliver(m, b)))

handle_reconfig(p, c) ==
  /\ assoc[p].my_next_rsn <= MaxRequests
  /\ poll_transmit(p, IF IsRequest(c) THEN handle_request(assoc[p], c)
                                      ELSE handle_response(assoc[p], c))

ReconfigTimeout(p) ==
  LET a == assoc[p]
      counted == ~a.no_error_count /\ MaxRetransmits # NoLimit
      n == IF counted THEN a.retrans + 1 ELSE a.retrans
      b == [a EXCEPT !.no_error_count = FALSE, !.retrans = n, !.timeouts = @ + 1]
  IN  /\ a.timer
      /\ Total("timeouts") < MaxTimeouts
      /\ poll_transmit(p, IF counted /\ n > MaxRetransmits
                          THEN finish_reconfig(b, a.active_reconfig, FALSE)
                          ELSE [b EXCEPT !.will_retransmit_reconfig = TRUE])

Call(p) ==
  \/ \E id \in Ids : \/ open_stream(p, id)
                     \/ write(p, id)
                     \/ read(p, id)
                     \/ stop(p, id)
                     \/ close(p, id)
                     \/ finish(p, id)
  \/ \E m \in assoc[Other(p)].inflight : handle_data(p, m)
  \/ \E c \in net[p] : handle_reconfig(p, c)
  \/ \E k \in 1 .. MaxWrites : handle_sack(p, k)
  \/ ReconfigTimeout(p)

\* After a call the driver asks poll_transmit and drains poll(), as their
\* documentation says; it asks again when the windows let DATA out
Next ==
  \/ \E p \in Peers, id \in Ids : poll(p, id)
  \/ /\ \A p \in Peers, id \in Ids : Pollable(assoc[p], id) = {}
     /\ \E p \in Peers :
          \/ Call(p)
          \/ assoc[p].pending # <<>> /\ poll_transmit(p, assoc[p])

Spec == Init /\ [][Next]_vars

-----------------------------------------------------------------------------
(* Properties.                                                             *)

\* No application is told that a reset completed before it was told that the
\* stream finished, however late it reads and whatever the order in which
\* the peer's requests and responses arrive (Association::poll).
CompleteAfterFinished ==
  \A p \in Peers, id \in Ids :
    Pollable(assoc[p], id) # {} /\ NextEvent(assoc[p], id) = "ResetComplete"
      => assoc[p].delivered_stream_finishes[id] > 0

\* For every Finished that still owes a ResetComplete or ResetFailed, a
\* request of ours that names the stream is outstanding, so that an answer or
\* the Re-configuration Timer will settle it (pending_reset_completions).
TerminalOwed ==
  \A p \in Peers, id \in Ids :
    assoc[p].pending_reset_completions[id]
      <= Cardinality({r \in assoc[p].reconfigs : id \in r.ids})

\* The messages of one identifier are read in the order they were sent,
\* across the generations of the stream (deferred_reset_data).
ReadInOrder ==
  \A p \in Peers, id \in Ids :
    LET log == assoc[p].log[id]
    IN  \A i, j \in DOMAIN log : i < j => log[i].tsn < log[j].tsn

Registered(a) == {id \in Ids : a.streams[id] # None}

\* An acknowledged message has been read, or can be when its turn comes, or
\* was dropped because the application had stopped reading: a reset loses
\* nothing (retire_stream, finish_retiring_stream).
NothingLost ==
  \A p \in Peers :
    LET a == assoc[p]
        kept == UNION ({Range(a.log[id]) : id \in Ids}
                       \cup {a.streams[id].queue : id \in Registered(a)})
    IN  1 .. a.peer_last_tsn
          \subseteq {m.tsn : m \in kept \cup a.deferred_reset_data \cup a.discarded}

\* No reassembly queue holds two messages with one SSN: messages of two
\* generations never meet in it (data_is_above_pending_reset).
GenerationsSeparate ==
  \A p \in Peers : \A id \in Registered(assoc[p]) :
    \A m, n \in assoc[p].streams[id].queue : m.ssn = n.ssn => m = n

\* DATA on its way to p
ToCome(p) ==
  {m \in assoc[Other(p)].inflight :
     m.tsn > assoc[p].peer_last_tsn /\ m.tsn \notin assoc[p].payload_queue}

\* An application that closes nothing itself is never left with a message whose
\* turn cannot come: both ends of each generation number from 0, although the
\* sender restarts on an answer (emit_reset_complete) and the receiver on a
\* request (retire_stream), at different times.
TurnComes ==
  \A p \in Peers : assoc[p].stops = 0 =>
    \A id \in Registered(assoc[p]) :
      \A m \in assoc[p].streams[id].queue :
        m.ssn > assoc[p].streams[id].next_ssn =>
          \E n \in ToCome(p) \cup assoc[p].streams[id].queue
                     \cup assoc[p].deferred_reset_data :
            n.id = id /\ n.tsn < m.tsn

-----------------------------------------------------------------------------
(* Statements of the comments that the code does not meet.                 *)

\* No end finds a new request of the peer while it still defers another:
\* "permits only one request in flight" (gather_outbound_data_and_reconfig_packets).
OneRequestInFlight ==
  \A p \in Peers : \A c \in net[p] :
    ~IsRequest(c) => c.result # "ErrorRequestAlreadyInProgress"

IsOpen(a, id) == /\ a.streams[id] # None
                 /\ a.streams[id].state = {"Readable", "Writable"}
                 /\ a.retiring_streams[id] = <<>>

\* After ResetComplete "The id can be reused": no stream ends that its own
\* application has not closed, at a peer that has closed nothing at all
\* (reset_streams_if_any).
OpenStaysOpen ==
  [][\A p \in Peers, id \in Ids :
       /\ IsOpen(assoc[p], id)
       /\ assoc[Other(p)].stops = 0
       /\ assoc'[p].stops = assoc[p].stops
       => IsOpen(assoc'[p], id)]_vars
=============================================================================
