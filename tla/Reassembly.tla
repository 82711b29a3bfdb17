----------------------------- MODULE Reassembly -----------------------------
(***************************************************************************)
(* What becomes of DATA between its arrival and the application's read:    *)
(* the ReassemblyQueue of one stream (src/queue/reassembly_queue.rs) and   *)
(* the handlers of the Association that fill, skip and drain it.  DATA     *)
(* arrives in any order and any number of times, FORWARD-TSN skips what    *)
(* the sender gave up, and the application reads when it likes.            *)
(*                                                                         *)
(* A chunk is known by its TSN; layout says what the sender put into each  *)
(* TSN.  Queues the code keeps sorted by TSN are sets of TSNs, and every   *)
(* fragment carries one unit of payload.                                   *)
(***************************************************************************)
EXTENDS SerialNumbers, Sequences, FiniteSets
LOCAL INSTANCE SequencesExt

CONSTANTS
  HalfSsn,         \* half of the space of stream sequence numbers
  InitialTsn,      \* the TSN of the first chunk
  Layouts,         \* possible contents of the stream: sequences of chunks
  MaxFlight,       \* bound on the TSNs the sender has in flight
  Capacity,        \* max_receive_buffer_size, in chunks
  MaxMessageSize,  \* max_receive_message_size, in chunks
  NoSsn

ASSUME ReassemblyAssumption ==
  /\ HalfSsn \in Nat /\ HalfSsn > 1
  /\ InitialTsn \in Tsn
  /\ \A l \in Layouts : Len(l) < Half
  /\ MaxFlight \in Nat \ {0}
  /\ Capacity \in Nat \ {0} /\ MaxMessageSize \in Nat \ {0}
  /\ NoSsn \notin 0 .. 2 * HalfSsn - 1

VARIABLES
  layout,          \* what the sender puts into its TSNs
  abandoned,       \* messages the sender has given up
  peer_last_tsn,   \* the last TSN in sequence
  payload_queue,   \* TSNs accepted above it
  rq,              \* the reassembly queue of the stream
  notified,        \* Readable was emitted and the reader has not run dry since
  closed,          \* why the association was closed, or "no"
  log              \* history: the messages read, as sets of TSNs

vars == <<layout, abandoned, peer_last_tsn, payload_queue, rq, notified, closed, log>>

Ssns == INSTANCE SerialNumbers WITH Half <- HalfSsn

sna16lt(a, b) == Ssns!sna32lt(a, b)
sna16lte(a, b) == Ssns!sna32lte(a, b)
sna16gt(a, b) == Ssns!sna32gt(a, b)

Tsns == {Plus(InitialTsn, i - 1) : i \in DOMAIN layout}
Chunk(t) == layout[Minus(t, InitialTsn) + 1]
FirstOf(S) == CHOOSE t \in S : \A u \in S : sna32lte(t, u)
Span(t, u) == {Plus(t, i) : i \in 0 .. Minus(u, t)}     \* t, ..., u

Init ==
  /\ layout \in Layouts
  /\ abandoned = {}
  /\ peer_last_tsn = Plus(InitialTsn, 2 * Half - 1)
  /\ payload_queue = {}
  /\ rq = [next_ssn |-> 0, ordered |-> <<>>, unordered |-> <<>>,
           unordered_chunks |-> {}, n_bytes |-> 0]
  /\ notified = FALSE /\ closed = "no" /\ log = <<>>

-----------------------------------------------------------------------------
(* The queue.                                                              *)

is_complete(S) ==
  /\ S # {}
  /\ Chunk(FirstOf(S)).beginning /\ Chunk(LastOf(S)).ending
  /\ S = Span(FirstOf(S), LastOf(S))

is_readable(r) ==
  \/ r.unordered # <<>>
  \/ /\ r.ordered # <<>>
     /\ is_complete(r.ordered[1].tsns)
     /\ sna16lte(r.ordered[1].ssn, r.next_ssn)

(* Mutant: fragments of the message before and behind count as well. *)
calculate_unordered_message_size_run(r, t) ==
  Cardinality({t} \cup {u \in r.unordered_chunks :
    \/ Span(u, t) \ {t} \subseteq r.unordered_chunks
    \/ Span(t, u) \ {t} \subseteq r.unordered_chunks})

(***************************************************************************)
(* calculate_unordered_message_size: t with the run of fragments before it *)
(* back to a first fragment, and the run behind it up to a last one.       *)
(***************************************************************************)
calculate_unordered_message_size(r, t) ==
  LET before(u) == /\ ~Chunk(t).beginning
                   /\ sna32lt(u, t) /\ Span(u, t) \ {t} \subseteq r.unordered_chunks
                   /\ \A v \in Span(u, t) \ {u, t} : ~Chunk(v).beginning
      behind(u) == /\ ~Chunk(t).ending
                   /\ sna32lt(t, u) /\ Span(t, u) \ {t} \subseteq r.unordered_chunks
                   /\ \A v \in Span(t, u) \ {u, t} : ~Chunk(v).ending
  IN  Cardinality({t} \cup {u \in r.unordered_chunks : before(u) \/ behind(u)})

calculate_ordered_message_size(r, t) ==
  1 + Cardinality(UNION {r.ordered[i].tsns : i \in
        {j \in DOMAIN r.ordered : r.ordered[j].ssn = Chunk(t).ssn}})

too_large(r, t) ==
  MaxMessageSize < IF Chunk(t).unordered THEN calculate_unordered_message_size(r, t)
                   ELSE calculate_ordered_message_size(r, t)

\* find_complete_unordered_chunk_set: the first complete run, if there is one
find_complete_unordered_chunk_set(chunks) ==
  LET runs == {S \in {Span(b, e) : b \in {t \in chunks : Chunk(t).beginning},
                                   e \in {t \in chunks : Chunk(t).ending}} :
                 /\ S \subseteq chunks
                 /\ \A t \in S : /\ Chunk(t).beginning => t = FirstOf(S)
                                 /\ Chunk(t).ending => t = LastOf(S)}
  IN  IF runs = {} THEN {}
      ELSE CHOOSE S \in runs : \A R \in runs : sna32lte(LastOf(S), LastOf(R))

\* A new set goes where sort_chunks_by_ssn puts the last element
Inserted(ordered, cset) ==
  LET smaller == {i \in DOMAIN ordered : sna16lt(cset.ssn, ordered[i].ssn)}
      stays == {i \in DOMAIN ordered : i \notin smaller}
  IN  IF stays = {} THEN <<cset>> \o ordered
      ELSE InsertAt(ordered, 1 + CHOOSE i \in stays : \A j \in stays : j <= i, cset)

push_unordered(r, t) ==
  LET chunks == r.unordered_chunks \cup {t}
      run == find_complete_unordered_chunk_set(chunks)
  IN  [rq |-> [r EXCEPT !.n_bytes = @ + 1,
                        !.unordered_chunks = chunks \ run,
                        !.unordered = IF run = {} THEN @ ELSE Append(@, run)],
       queued |-> run # {}]

\* An SSN that was delivered or skipped is not queued again
push_ordered(r, t) ==
  LET ssn == Chunk(t).ssn
      same == {i \in DOMAIN r.ordered : r.ordered[i].ssn = ssn}
  IN  IF sna16lt(ssn, r.next_ssn) THEN [rq |-> r, queued |-> FALSE]
      ELSE IF same = {}
      THEN [rq |-> [r EXCEPT !.n_bytes = @ + 1,
                             !.ordered = Inserted(@, [ssn |-> ssn, tsns |-> {t}])],
            queued |-> is_complete({t})]
      ELSE LET i == CHOOSE j \in same : TRUE
               tsns == r.ordered[i].tsns \cup {t}
           IN  [rq |-> [r EXCEPT !.n_bytes = @ + 1, !.ordered[i].tsns = tsns],
                queued |-> t \notin r.ordered[i].tsns /\ is_complete(tsns)]

push(r, t) == IF Chunk(t).unordered THEN push_unordered(r, t) ELSE push_ordered(r, t)

subtract_num_bytes(n, less) == IF n >= less THEN n - less ELSE 0

(* Mutant: every set up to last_ssn is dropped, the complete ones too. *)
forward_tsn_for_ordered_all(r, last_ssn) ==
  LET gone(s) == sna16lte(s.ssn, last_ssn)
      bytes == Cardinality(UNION {r.ordered[i].tsns : i \in
                 {j \in DOMAIN r.ordered : gone(r.ordered[j])}})
  IN  [r EXCEPT !.n_bytes = subtract_num_bytes(@, bytes),
                !.ordered = SelectSeq(@, LAMBDA s : ~gone(s)),
                !.next_ssn = IF sna16lte(@, last_ssn) THEN Ssns!Plus(last_ssn, 1) ELSE @]

(* Mutant: the SSN to be read next stays. *)
forward_tsn_for_ordered_stays(r, last_ssn) ==
  [forward_tsn_for_ordered_all(r, last_ssn) EXCEPT !.next_ssn = r.next_ssn]

\* forward_tsn_for_ordered: incomplete messages up to last_ssn are dropped
forward_tsn_for_ordered(r, last_ssn) ==
  LET gone(s) == sna16lte(s.ssn, last_ssn) /\ ~is_complete(s.tsns)
      bytes == Cardinality(UNION {r.ordered[i].tsns : i \in
                 {j \in DOMAIN r.ordered : gone(r.ordered[j])}})
  IN  [r EXCEPT !.n_bytes = subtract_num_bytes(@, bytes),
                !.ordered = SelectSeq(@, LAMBDA s : ~gone(s)),
                !.next_ssn = IF sna16lte(@, last_ssn) THEN Ssns!Plus(last_ssn, 1) ELSE @]

(* Mutant: what is dropped stays on the account. *)
forward_tsn_for_unordered_kept(r, cum) ==
  [r EXCEPT !.unordered_chunks = {t \in r.unordered_chunks : sna32gt(t, cum)}]

forward_tsn_for_unordered(r, cum) ==
  LET above == {t \in r.unordered_chunks : sna32gt(t, cum)}
  IN  [r EXCEPT !.n_bytes = subtract_num_bytes(@, Cardinality(r.unordered_chunks \ above)),
                !.unordered_chunks = above]

-----------------------------------------------------------------------------
(* The association.                                                        *)

(* Mutant: only a TSN gap is looked at. *)
receive_capacity_exhausted_unread(r, queue) == FALSE

\* Full, without a gap that DATA may still fill and without anything to read
receive_capacity_exhausted(r, queue) ==
  r.n_bytes >= Capacity /\ queue = {} /\ ~is_readable(r)

\* handle_peer_last_tsn_and_acknowledgement, its acknowledgement left out
handle_peer_last_tsn(last, queue, r) ==
  LET n == RunLength(last, queue)
      rest == queue \ {Plus(last, i) : i \in 1 .. n}
  IN  /\ peer_last_tsn' = Plus(last, n)
      /\ payload_queue' = rest
      /\ rq' = r
      /\ closed' = IF receive_capacity_exhausted(r, rest) THEN "exhausted" ELSE "no"

Accepted(t) ==
  /\ t \notin payload_queue /\ ~sna32lte(t, peer_last_tsn)
  /\ \/ rq.n_bytes < Capacity
     \/ payload_queue # {} /\ sna32lt(t, LastOf(payload_queue))

handle_data(t) ==
  /\ closed = "no"
  /\ \/ /\ ~Accepted(t)
        /\ handle_peer_last_tsn(peer_last_tsn, payload_queue, rq)
        /\ UNCHANGED notified
     \/ /\ Accepted(t) /\ ~too_large(rq, t)
        /\ handle_peer_last_tsn(peer_last_tsn, payload_queue \cup {t}, push(rq, t).rq)
        /\ notified' = \/ notified
                       \/ push(rq, t).queued /\ is_readable(push(rq, t).rq)
     \/ /\ Accepted(t) /\ too_large(rq, t)
        /\ closed' = "too large"
        /\ UNCHANGED <<peer_last_tsn, payload_queue, rq, notified>>
  /\ UNCHANGED <<layout, abandoned, log>>

(* Mutant: a message that a skip has uncovered is not announced. *)
Uncovers_silently(before, after) == FALSE

\* apply_or_defer_ordered_forward_tsn announces what a skip has uncovered
Uncovers(before, after) == ~is_readable(before) /\ is_readable(after)

(***************************************************************************)
(* handle_forward_tsn.  The sender's cumulative ack point was from, behind *)
(* peer_last_tsn; it skips the abandoned messages that follow, up to cum,  *)
(* and names the last SSN among them.  One that is not ahead of            *)
(* peer_last_tsn is only acknowledged.                                     *)
(***************************************************************************)
LastSsn(from, cum) ==
  LET ssns == {Chunk(t).ssn : t \in {u \in Span(from, cum) \ {from} : ~Chunk(u).unordered}}
  IN  IF ssns = {} THEN NoSsn ELSE CHOOSE s \in ssns : \A o \in ssns : sna16lte(o, s)

Skippable(from, cum) ==
  /\ sna32lte(from, peer_last_tsn) /\ sna32gt(cum, from)
  /\ \A t \in Span(from, cum) \ {from} : Chunk(t).message \in abandoned
  /\ Chunk(cum).ending

handle_forward_tsn(from, cum) ==
  /\ closed = "no" /\ Skippable(from, cum)
  /\ sna32gt(cum, peer_last_tsn)
  /\ LET ssn == LastSsn(from, cum)
         skipped == IF ssn = NoSsn THEN rq ELSE forward_tsn_for_ordered(rq, ssn)
     IN  /\ handle_peer_last_tsn(cum, {t \in payload_queue : ~sna32lte(t, cum)},
                                 forward_tsn_for_unordered(skipped, cum))
         /\ notified' = (notified \/ Uncovers(rq, skipped))
  /\ UNCHANGED <<layout, abandoned, log>>

(* Mutant: the set at the head is taken whatever its SSN. *)
next_message_any(r) ==
  IF r.unordered # <<>> THEN r.unordered[1]
  ELSE IF r.ordered # <<>> /\ is_complete(r.ordered[1].tsns) THEN r.ordered[1].tsns
  ELSE {}

\* What ReassemblyQueue::read returns: unordered messages first
next_message(r) ==
  IF r.unordered # <<>> THEN r.unordered[1]
  ELSE IF is_readable(r) THEN r.ordered[1].tsns
  ELSE {}

\* read_sctp; the application reads on until there is nothing
read ==
  /\ closed = "no"
  /\ LET m == next_message(rq)
         left == [(IF rq.unordered # <<>>
                   THEN [rq EXCEPT !.unordered = Tail(@)]
                   ELSE [rq EXCEPT !.ordered = Tail(@),
                           !.next_ssn = IF rq.ordered[1].ssn = @
                                        THEN Ssns!Plus(@, 1) ELSE @])
                  EXCEPT !.n_bytes = subtract_num_bytes(@, Cardinality(m))]
     IN  IF m = {}
         THEN notified' = FALSE /\ UNCHANGED <<rq, closed, log>>
         ELSE /\ rq' = left
              /\ log' = Append(log, m)
              /\ closed' = IF receive_capacity_exhausted(left, payload_queue)
                           THEN "exhausted" ELSE "no"
              /\ UNCHANGED notified
  /\ UNCHANGED <<layout, abandoned, peer_last_tsn, payload_queue>>

\* The sender gives up a message of a partially reliable stream
abandon(m) ==
  /\ abandoned' = abandoned \cup {m}
  /\ UNCHANGED <<layout, peer_last_tsn, payload_queue, rq, notified, closed, log>>

Next ==
  \/ \E t \in Tsns : /\ sna32lte(t, Plus(peer_last_tsn, MaxFlight))
                     /\ handle_data(t)
  \/ \E cum \in {t \in Tsns : Chunk(t).message \in abandoned},
        from \in Tsns \cup {Plus(InitialTsn, 2 * Half - 1)} :
       handle_forward_tsn(from, cum)
  \/ read
  \/ \E t \in Tsns : Chunk(t).partial /\ Chunk(t).message \notin abandoned
                       /\ abandon(Chunk(t).message)

Spec == Init /\ [][Next]_vars

-----------------------------------------------------------------------------
(* Properties.                                                             *)

Queued ==
  UNION ({rq.ordered[i].tsns : i \in DOMAIN rq.ordered}
           \cup {rq.unordered[i] : i \in DOMAIN rq.unordered}
           \cup {rq.unordered_chunks})

ReadTsns == UNION {log[i] : i \in DOMAIN log}

MessageOf(t) == {u \in Tsns : Chunk(u).message = Chunk(t).message}

(* n_bytes, from which the receive window is computed, is exactly the        *)
(* payload held: no read, skip, duplicate or late fragment leaves the        *)
(* account wrong, which would close the window for good or open it too far.  *)
BytesExact == rq.n_bytes = Cardinality(Queued)

\* The message of which S is the TSNs, or 0 if it is not all of one
Whole(S) ==
  LET t == CHOOSE u \in S : TRUE
  IN  IF S = MessageOf(t) THEN Chunk(t).message ELSE 0

Promised == INSTANCE MessageStream WITH
  sent <- {Chunk(t).message : t \in Tsns},
  ordered <- {Chunk(t).message : t \in {u \in Tsns : ~Chunk(u).unordered}},
  given_up <- abandoned,
  log <- [i \in DOMAIN log |-> Whole(log[i])]

(* Fragmentation, reassembly, SSNs and skips together behave as the abstract *)
(* stream of messages: a read returns all fragments of one message and       *)
(* nothing else, no message twice, the ordered ones in the order they were   *)
(* written, and none is passed over that the sender has not given up.        *)
ImplementsStream == Promised!Spec

(* A TSN that the association acknowledges, cumulatively or in a gap ack     *)
(* block, is held for the application or was read, unless the sender gave    *)
(* its message up: "Only commit to payload_queue after reassembly accepts    *)
(* the chunk" (handle_data).                                                 *)
AcknowledgedIsKept ==
  \A t \in Tsns :
    /\ t \in payload_queue \/ sna32lte(t, peer_last_tsn)
    /\ Chunk(t).message \notin abandoned
    => t \in Queued \cup ReadTsns

(* While there is something to read, a Readable event is under way or the    *)
(* application is still reading: no wake-up is lost, be the message          *)
(* completed by DATA or uncovered by a FORWARD-TSN.                          *)
ReadableNotified == closed = "no" /\ is_readable(rq) => notified

(* A full receive buffer is never pinned: there is a gap that DATA may still *)
(* fill or a message to read, or else the association has been closed.       *)
NeverPinned ==
  closed = "no" /\ rq.n_bytes >= Capacity => payload_queue # {} \/ is_readable(rq)

(* The association is closed for the size of a message only if a message is  *)
(* too large, in whatever order fragments and their neighbours arrive, and   *)
(* no message that is too large is ever read.                                *)
SizeLimitExact ==
  /\ closed = "too large" => \E t \in Tsns : Cardinality(MessageOf(t)) > MaxMessageSize
  /\ \A i \in DOMAIN log : Cardinality(log[i]) <= MaxMessageSize

(* Once nothing is missing below the last TSN received, what is held and     *)
(* cannot be read is only the beginning of a message still under way: no     *)
(* message waits for an SSN or a fragment that will never come.              *)
NothingStuck ==
  closed = "no" /\ payload_queue = {} /\ ~is_readable(rq) =>
    \A t \in Queued : sna32gt(LastOf(MessageOf(t)), peer_last_tsn)
=============================================================================
