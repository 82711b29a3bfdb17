----------------------------- MODULE Congestion -----------------------------
(***************************************************************************)
(* The windows of the DATA sender, in bytes: congestion control, the       *)
(* receiver's window, and what a poll may send (src/association/mod.rs).     *)
(* Messages are reliable and of one fragment, so that a chunk is its       *)
(* length; Transfer has the other half, every kind of message with windows *)
(* of any size.                                                            *)
(*                                                                         *)
(* TSNs count from 1 (Transfer has their wrap).  The peer is any receiver  *)
(* that keeps what it acknowledged: a SACK acknowledges any further TSNs   *)
(* of the flight, or none, and announces any window of Windows.  That T3   *)
(* runs while anything is in flight is Transfer's T3Covers.                *)
(***************************************************************************)
EXTENDS Integers, FiniteSetsExt, SequencesExt

CONSTANTS
  MaxPayload,      \* max_payload_size
  Scripts,         \* sequences of the lengths of messages to write
  InitialWindows,  \* advertised_receiver_window_credit of the handshake
  Windows,         \* windows a SACK may announce
  NoTsn

ASSUME CongestionAssumption ==
  /\ MaxPayload \in Nat \ {0}
  /\ Scripts \subseteq Seq(1 .. MaxPayload)
  /\ InitialWindows \subseteq Nat /\ Windows \subseteq Nat
  /\ NoTsn \notin Nat

VARIABLES
  cwnd, ssthresh, partial_bytes_acked,
  rwnd,                      \* what the peer's window still has room for
  credit,                    \* history: the last window announced
  cumulative_tsn_ack_point,
  inflight,                  \* TSN |-> chunk, acknowledged by a gap or not
  pending,                   \* lengths, in order
  fast_recovery,             \* fast_recover_exit_point, or NoTsn
  will_retransmit_fast,
  to_write

vars == <<cwnd, ssthresh, partial_bytes_acked, rwnd, credit,
          cumulative_tsn_ack_point, inflight, pending, fast_recovery,
          will_retransmit_fast, to_write>>

COMMON_HEADER_SIZE == 12
DATA_CHUNK_HEADER_SIZE == 16
mtu == MaxPayload + COMMON_HEADER_SIZE + DATA_CHUNK_HEADER_SIZE

Smaller(a, b) == IF a < b THEN a ELSE b
Larger(a, b) == IF a < b THEN b ELSE a

Init ==
  /\ cwnd = Smaller(4 * mtu, Larger(2 * mtu, 4380))
  /\ partial_bytes_acked = 0
  /\ rwnd \in InitialWindows /\ ssthresh = rwnd /\ credit = rwnd
  /\ cumulative_tsn_ack_point = 0
  /\ inflight = <<>> /\ pending = <<>>
  /\ fast_recovery = NoTsn /\ will_retransmit_fast = FALSE
  /\ to_write \in Scripts

-----------------------------------------------------------------------------
(* Sending.                                                                *)

\* The bytes of the TSNs ts of a flight: marking as acknowledged frees them
Bytes(flight, ts) ==
  MapThenSumSet(LAMBDA t : IF flight[t].acked THEN 0 ELSE flight[t].len, ts)

inflight_bytes(flight) == Bytes(flight, DOMAIN flight)

\* The longest prefix of the TSNs ts that fits into room, each with a header
Prefix(ts, header, room) ==
  {t \in ts : MapThenSumSet(LAMBDA u : header + inflight[u].len,
                            {u \in ts : u <= t}) <= room}

write ==
  /\ to_write # <<>>
  /\ pending' = Append(pending, Head(to_write))
  /\ to_write' = Tail(to_write)
  /\ UNCHANGED <<cwnd, ssthresh, partial_bytes_acked, rwnd, credit,
                 cumulative_tsn_ack_point, inflight, fast_recovery,
                 will_retransmit_fast>>

(***************************************************************************)
(* get_data_packets_to_retransmit: the first of the marked TSNs that both  *)
(* windows allow, or the first TSN alone as a probe of a small window.     *)
(***************************************************************************)
ToRetransmit ==
  LET marked == {t \in DOMAIN inflight : inflight[t].retransmit}
      first == cumulative_tsn_ack_point + 1
  IN  IF first \in marked /\ rwnd < inflight[first].len THEN {first}
      ELSE Prefix(marked, 0, Smaller(cwnd, rwnd))

\* gather_outbound_fast_retransmission_packets: one packet, whatever cwnd is
ToFastRetransmit(resent) ==
  LET missing == {t \in DOMAIN inflight \ resent :
                    /\ ~inflight[t].acked
                    /\ inflight[t].nsent = 1 /\ inflight[t].miss = 3}
  IN  IF ~will_retransmit_fast THEN {}
      ELSE Prefix(missing, DATA_CHUNK_HEADER_SIZE, mtu - COMMON_HEADER_SIZE)

\* The bytes of the first n pending chunks
FirstBytes(n) == MapThenSumSet(LAMBDA i : pending[i], 1 .. n)

(* Mutant: the chunks already in flight are forgotten. *)
Fitting_alone ==
  {n \in 1 .. Len(pending) : FirstBytes(n) <= cwnd /\ FirstBytes(n) <= rwnd}

\* How many pending chunks both windows allow
Fitting ==
  {n \in 1 .. Len(pending) :
     /\ inflight_bytes(inflight) + FirstBytes(n) <= cwnd
     /\ FirstBytes(n) <= rwnd}

(***************************************************************************)
(* pop_pending_data_chunks_to_send: what fits, or one chunk if nothing is  *)
(* in flight.  The probe is not taken from rwnd.                           *)
(***************************************************************************)
Popping ==
  IF Fitting # {} THEN Max(Fitting)
  ELSE IF DOMAIN inflight = {} THEN Smaller(1, Len(pending)) ELSE 0

\* gather_outbound, in its order
poll_transmit ==
  LET resent == ToRetransmit
      fast == ToFastRetransmit(resent)
      next == cumulative_tsn_ack_point + Cardinality(DOMAIN inflight) + 1
      fresh == next .. next + Popping - 1
  IN  /\ inflight' = [t \in DOMAIN inflight \cup fresh |->
                        IF t \in fresh
                        THEN [len |-> pending[t - next + 1], acked |-> FALSE,
                              retransmit |-> FALSE, nsent |-> 1, miss |-> 0]
                        ELSE IF t \in resent
                        THEN [inflight[t] EXCEPT !.retransmit = FALSE, !.nsent = 2]
                        ELSE IF t \in fast
                        THEN [inflight[t] EXCEPT !.nsent = 2]
                        ELSE inflight[t]]
      /\ pending' = SubSeq(pending, Popping + 1, Len(pending))
      /\ rwnd' = IF Fitting = {} THEN rwnd ELSE rwnd - FirstBytes(Popping)
      /\ will_retransmit_fast' = FALSE
      /\ UNCHANGED <<cwnd, ssthresh, partial_bytes_acked, credit,
                     cumulative_tsn_ack_point, fast_recovery, to_write>>

-----------------------------------------------------------------------------
(* SACKs and the timer.                                                    *)

\* The cumulative ack of a SACK that acknowledges the TSNs new
CumulativeAck(new) ==
  LET missing == {t \in DOMAIN inflight : t \notin new /\ ~inflight[t].acked}
  IN  IF missing = {} THEN cumulative_tsn_ack_point + Cardinality(DOMAIN inflight)
      ELSE Min(missing) - 1

Popped(new) == {t \in DOMAIN inflight : t <= CumulativeAck(new)}

\* Popping the TSN at which it ends ends fast recovery
StillRecovering(new) == fast_recovery # NoTsn /\ fast_recovery \notin Popped(new)

Htna(new) == Max({CumulativeAck(new)} \cup new)

\* The TSNs in which process_fast_retransmission sees a missing report
Reported(new) ==
  LET left == {t \in DOMAIN inflight \ Popped(new) :
                 t \notin new /\ ~inflight[t].acked}
  IN  IF ~StillRecovering(new) THEN {t \in left : t < Htna(new)}
      ELSE IF CumulativeAck(new) > cumulative_tsn_ack_point THEN left
      ELSE {}

AfterSack(new) ==
  [t \in DOMAIN inflight \ Popped(new) |->
     IF t \in new THEN [inflight[t] EXCEPT !.acked = TRUE, !.retransmit = FALSE]
     ELSE IF t \in Reported(new)
     THEN [inflight[t] EXCEPT !.miss = Smaller(@ + 1, 3)]
     ELSE inflight[t]]

EntersRecovery(new) ==
  /\ ~StillRecovering(new)
  /\ \E t \in Reported(new) : inflight[t].miss = 2

(***************************************************************************)
(* on_cumulative_tsn_ack_point_advanced: the window after acked bytes,     *)
(* when more is pending: slow start up to ssthresh, outside fast recovery, *)
(* and above it congestion avoidance.                                      *)
(***************************************************************************)
Grown(new) ==
  LET acked == Bytes(inflight, new)
      advanced == CumulativeAck(new) > cumulative_tsn_ack_point
      partial == partial_bytes_acked + acked
  IN  IF ~advanced THEN [cwnd |-> cwnd, partial |-> partial_bytes_acked]
      ELSE IF cwnd <= ssthresh
      THEN [cwnd |-> IF ~StillRecovering(new) /\ pending # <<>>
                     THEN cwnd + Smaller(acked, cwnd) ELSE cwnd,
            partial |-> partial_bytes_acked]
      ELSE IF partial >= cwnd /\ pending # <<>>
      THEN [cwnd |-> cwnd + mtu, partial |-> partial - cwnd]
      ELSE [cwnd |-> cwnd, partial |-> partial]

Threshold(window) == Larger(window \div 2, 4 * mtu)

(* Mutant: the window enters recovery inflated by the three reports. *)
EnterRecovery_inflated(window) ==
  [ssthresh |-> Threshold(window), cwnd |-> Threshold(window) + 3 * mtu]

\* The windows with which fast recovery begins
EnterRecovery(window) ==
  [ssthresh |-> Threshold(window), cwnd |-> Threshold(window)]

handle_sack(new, a_rwnd) ==
  LET flight == AfterSack(new)
      grown == Grown(new)
      cut == EnterRecovery(grown.cwnd)
      enters == EntersRecovery(new)
      outstanding == inflight_bytes(flight)
  IN  /\ inflight' = flight
      /\ cumulative_tsn_ack_point' = CumulativeAck(new)
      /\ credit' = a_rwnd
      /\ rwnd' = Larger(a_rwnd - outstanding, 0)
      /\ cwnd' = IF enters THEN cut.cwnd ELSE grown.cwnd
      /\ ssthresh' = IF enters THEN cut.ssthresh ELSE ssthresh
      /\ partial_bytes_acked' = IF enters THEN 0 ELSE grown.partial
      /\ fast_recovery' = IF enters THEN Htna(new)
                          ELSE IF StillRecovering(new) THEN fast_recovery ELSE NoTsn
      /\ will_retransmit_fast' =
           \/ will_retransmit_fast \/ enters
           \/ /\ StillRecovering(new)
              /\ CumulativeAck(new) > cumulative_tsn_ack_point
      /\ UNCHANGED <<pending, to_write>>

(* Mutant: the window after a timeout is half a packet. *)
TimeoutWindow_small == mtu \div 2

TimeoutWindow == mtu

\* T3-rtx expires
on_t3_timeout ==
  /\ DOMAIN inflight # {}
  /\ ssthresh' = Threshold(cwnd)
  /\ cwnd' = TimeoutWindow
  /\ inflight' = [t \in DOMAIN inflight |->
                    [inflight[t] EXCEPT !.retransmit = @ \/ ~inflight[t].acked]]
  /\ UNCHANGED <<partial_bytes_acked, rwnd, credit, cumulative_tsn_ack_point,
                 pending, fast_recovery, will_retransmit_fast, to_write>>

-----------------------------------------------------------------------------
Next ==
  \/ write
  \/ poll_transmit
  \/ \E new \in SUBSET {t \in DOMAIN inflight : ~inflight[t].acked} :
       \E a_rwnd \in Windows : handle_sack(new, a_rwnd)
  \/ on_t3_timeout

Spec == Init /\ [][Next]_vars

-----------------------------------------------------------------------------
(* Properties.                                                             *)

(* The congestion window does not grow during fast recovery, and is not     *)
(* above ssthresh before recovery ends, whatever timeouts fall into it.     *)
(* The first rests on the second: congestion avoidance, the way to grow     *)
(* above ssthresh, does not ask whether the sender is recovering.           *)
RecoveryHoldsWindow ==
  [][fast_recovery # NoTsn /\ fast_recovery' = fast_recovery
       => cwnd' <= cwnd /\ cwnd' <= ssthresh']_vars

(* Whatever timeouts, losses and closed windows came before, a poll that    *)
(* finds the first outstanding TSN marked sends it, and one that leaves     *)
(* DATA pending leaves something in flight, for which T3 runs: neither      *)
(* window can silence the sender.                                           *)
NeverSilenced ==
  [][poll_transmit =>
       /\ \A t \in DOMAIN inflight :
            t = cumulative_tsn_ack_point + 1 => ~inflight'[t].retransmit
       /\ pending' # <<>> => DOMAIN inflight' # {}]_vars

(* New DATA keeps the flight within the congestion window, and all of it    *)
(* but one chunk, the probe, within the window the peer announced last,     *)
(* over any mix of chunk lengths and any number of polls.                   *)
WindowsRespected ==
  [][DOMAIN inflight' \ DOMAIN inflight # {} =>
       /\ \/ inflight_bytes(inflight') <= cwnd
          \/ Cardinality(DOMAIN inflight') = 1
       /\ \E t \in DOMAIN inflight' :
            inflight_bytes(inflight') - inflight'[t].len <= credit]_vars
=============================================================================
