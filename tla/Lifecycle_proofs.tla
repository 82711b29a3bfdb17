-------------------------- MODULE Lifecycle_proofs --------------------------
(***************************************************************************)
(* Proofs about Lifecycle, for every retransmission limit, every choice of *)
(* what the applications may do and every behaviour of the network.        *)
(***************************************************************************)
EXTENDS Lifecycle, TLAPS

(* A datagram from either end to the other is a datagram of the type.      *)
LEMMA PacketType ==
    ASSUME NEW type \in ChunkTypes, NEW p \in Peers
    PROVE  /\ Packet(type, p) \in Packets
           /\ Packet(type, Other(p)) \in Packets
           /\ Other(p) \in Peers
  BY DEF Packet, Packets, Other, Peers

(* Both constructors, with and without a handshake, give typed states.     *)
LEMMA TypeInitially == Init => TypeOK
  <1> SUFFICES ASSUME Init PROVE TypeOK
    OBVIOUS
  <1>1. Packet("INIT", "server") \in Packets
    BY DEF Packet, Packets, ChunkTypes, Peers
  <1>2. CASE InitHandshake
    BY <1>1, <1>2 DEF Init, InitHandshake, TypeOK, States, Timers, T1Timers,
       Events, Peers
  <1>3. CASE InitSnap
    BY <1>3 DEF Init, InitSnap, TypeOK, States, Timers, T1Timers, Events, Peers
  <1> QED
    BY <1>2, <1>3 DEF Init

(* TimerTable::stop keeps the types of the timers and their counts.        *)
LEMMA StopType ==
    ASSUME TypeOK, NEW p \in Peers, NEW ts \in SUBSET Timers, Stop(p, ts)
    PROVE  /\ timers' \in [Peers -> SUBSET Timers]
           /\ retrans' \in [Peers -> [T1Timers -> Nat]]
  BY DEF TypeOK, Stop

(* close_with_reason keeps the types, whatever is queued after it.         *)
LEMMA CloseType ==
    ASSUME TypeOK, NEW p \in Peers, NEW packets \in SUBSET Packets,
           CloseWith(p, packets), UNCHANGED routing, net' \in SUBSET Packets
    PROVE  TypeOK'
  <1>1. Stop(p, Timers)
    BY DEF CloseWith
  <1> QED
    BY <1>1, StopType DEF TypeOK, CloseWith, States, Events, handshake, transfer,
       routing

(* Taking a datagram off the network leaves datagrams on it.               *)
LEMMA DeliverType ==
    ASSUME TypeOK, NEW packet, Deliver(packet)
    PROVE  net' \in SUBSET Packets
  BY DEF TypeOK, Deliver

(* Every call of the API keeps the variables in their types.               *)
LEMMA TypeStep == TypeOK /\ [Next]_vars => TypeOK'
  <1> SUFFICES ASSUME TypeOK, [Next]_vars PROVE TypeOK'
    OBVIOUS
  <1> USE DEF States, Timers, T1Timers, Events, ShutdownChunks, handshake,
          transfer, routing
  <1>1. ASSUME NEW p \in Peers, Receive(p) PROVE TypeOK'
    <2> Packet("INIT_ACK", Other(p)) \in Packets
        /\ Packet("COOKIE_ECHO", Other(p)) \in Packets
        /\ Packet("COOKIE_ACK", Other(p)) \in Packets
        /\ Packet("ABORT", Other(p)) \in Packets
      BY PacketType DEF ChunkTypes
    <2>1. CASE handle_init(p)
      BY <2>1, DeliverType DEF TypeOK, handle_init, ReceivedInit, Queue
    <2>2. CASE handle_init_unexpected(p)
      BY <2>2, DeliverType, CloseType DEF handle_init_unexpected, ReceivedInit
    <2>3. CASE handle_init_ack(p)
      BY <2>3, DeliverType DEF TypeOK, handle_init_ack, Received, Queue
    <2>4. CASE handle_cookie_echo(p)
      BY <2>4, DeliverType, StopType
      DEF TypeOK, handle_cookie_echo, Received, Queue, Establish
    <2>5. CASE handle_duplicate_cookie_echo(p)
      BY <2>5, DeliverType
      DEF TypeOK, handle_duplicate_cookie_echo, Received, Queue
    <2>6. CASE handle_cookie_ack(p)
      BY <2>6, DeliverType, StopType
      DEF TypeOK, handle_cookie_ack, Received, Establish
    <2>7. CASE handle_data(p)
      BY <2>7, DeliverType DEF TypeOK, handle_data, Received
    <2>8. CASE abort_receive_capacity(p)
      <3>1. net' \in SUBSET Packets
        BY <2>8, DeliverType DEF abort_receive_capacity, Received
      <3>2. CASE state[p] # "Closed"
        BY <2>8, <3>1, <3>2, CloseType DEF abort_receive_capacity
      <3>3. CASE state[p] = "Closed"
        <4>1. Queue(p, {Packet("ABORT", Other(p))})
              /\ UNCHANGED <<state, handshake, timers, retrans, will_send,
                             transfer, error, last_event, routing>>
          BY <2>8, <3>3 DEF abort_receive_capacity
        <4> QED
          BY <3>1, <4>1 DEF TypeOK, Queue
      <3> QED
        BY <3>2, <3>3
    <2>9. CASE handle_abort(p)
      BY <2>9, DeliverType, CloseType DEF handle_abort, Received
    <2>10. CASE handle_sack(p)
      BY <2>10, DeliverType DEF TypeOK, handle_sack, Received
    <2>11. CASE handle_shutdown(p)
      <3>1. net' \in SUBSET Packets
        BY <2>11, DeliverType DEF handle_shutdown, Received
      <3>2. state' \in [Peers -> States]
        BY <2>11 DEF TypeOK, handle_shutdown
      <3>3. will_send' \in [Peers -> SUBSET ShutdownChunks]
        BY <2>11 DEF TypeOK, handle_shutdown
      <3> QED
        BY <2>11, <3>1, <3>2, <3>3 DEF TypeOK, handle_shutdown
    <2>12. CASE handle_shutdown_ack(p)
      BY <2>12, DeliverType, StopType DEF TypeOK, handle_shutdown_ack, Received
    <2>13. CASE handle_shutdown_complete(p)
      BY <2>13, DeliverType, CloseType DEF handle_shutdown_complete, Received
    <2> QED
      BY <1>1, <2>1, <2>2, <2>3, <2>4, <2>5, <2>6, <2>7, <2>8, <2>9, <2>10,
         <2>11, <2>12, <2>13 DEF Receive
  <1>2. ASSUME NEW p \in Peers, NEW t \in T1Timers, timeout_T1(p, t) PROVE TypeOK'
    <2>1. Retransmission(p, t) \in SUBSET Packets
      BY PacketType DEF Retransmission, ChunkTypes
    <2>2. Expiries(p, t) \in Nat
      BY DEF TypeOK, Expiries
    <2> QED
      BY <1>2, <2>1, <2>2 DEF TypeOK, timeout_T1, Queue
  <1>3. ASSUME NEW p \in Peers, NEW t \in T1Timers, failure_T1(p, t) PROVE TypeOK'
    <2>1. Expiries(p, t) \in Nat
      BY DEF TypeOK, Expiries
    <2> QED
      BY <1>3, <2>1 DEF TypeOK, failure_T1
  <1>4. ASSUME NEW p \in Peers, timeout_T2(p) PROVE TypeOK'
    BY <1>4 DEF TypeOK, timeout_T2
  <1>5. ASSUME NEW p \in Peers, poll_transmit(p) PROVE TypeOK'
    <2>1. \A type \in ChunkTypes : Packet(type, Other(p)) \in Packets
      BY PacketType
    <2>2. gather_outbound_shutdown_packets(state[p], will_send[p])
            \in SUBSET ShutdownChunks
      BY DEF gather_outbound_shutdown_packets
    <2> DEFINE shut == gather_outbound_shutdown_packets(state[p], will_send[p])
    <2>3. PICK rtx \in BOOLEAN, sack \in BOOLEAN :
            LET new == state[p] = "Established" /\ data[p] = "pending"
                types == shut \cup (IF new \/ rtx THEN {"DATA"} ELSE {})
                              \cup (IF sack THEN {"SACK"} ELSE {})
            IN  net' = net \cup (control_queue[p] \cup
                                 {Packet(type, Other(p)) : type \in types})
      BY <1>5 DEF poll_transmit
    <2>4. net' \in SUBSET Packets
      BY <2>1, <2>2, <2>3 DEF TypeOK, ChunkTypes
    <2>5. /\ control_queue' \in [Peers -> SUBSET Packets]
          /\ data' \in [Peers -> {"none", "pending", "inflight", "acked"}]
          /\ will_send' \in [Peers -> SUBSET ShutdownChunks]
          /\ timers' \in [Peers -> SUBSET Timers]
      BY <1>5 DEF TypeOK, poll_transmit
    <2>6. ack_state' \in [Peers -> BOOLEAN]
      BY <1>5, Zenon DEF TypeOK, poll_transmit
    <2> QED
      BY <1>5, <2>4, <2>5, <2>6 DEF TypeOK, poll_transmit
  <1>6. ASSUME NEW p \in Peers, Application(p) PROVE TypeOK'
    <2>1. CASE poll(p)
      BY <2>1 DEF TypeOK, poll
    <2>2. CASE write(p)
      BY <2>2 DEF TypeOK, write
    <2>3. CASE shutdown(p)
      BY <2>3 DEF TypeOK, shutdown
    <2>4. CASE close(p)
      BY <2>4, CloseType DEF TypeOK, close
    <2>5. CASE handle_endpoint_event(p)
      BY <2>5 DEF TypeOK, handle_endpoint_event
    <2> QED
      BY <1>6, <2>1, <2>2, <2>3, <2>4, <2>5 DEF Application
  <1>7. ASSUME NEW packet \in net, Lose(packet) PROVE TypeOK'
    BY <1>7 DEF TypeOK, Lose
  <1>8. CASE UNCHANGED vars
    BY <1>8 DEF TypeOK, vars
  <1> QED
    BY <1>1, <1>2, <1>3, <1>4, <1>5, <1>6, <1>7, <1>8 DEF Next, handle_timeout

(* The variables of both associations and of the network keep their types. *)
THEOREM TypeCorrect == Spec => []TypeOK
  BY TypeInitially, TypeStep, PTL DEF Spec
-----------------------------------------------------------------------------
(* The inductive invariant.  HandshakeAgreement rests on the only source   *)
(* of COOKIE-ACKs for the client being a server past its handshake, and on *)
(* an INIT never reaching the client, which therefore owns no cookie.      *)
InTransit(packet) ==
    packet \in net \/ \E p \in Peers : packet \in control_queue[p]

HandshakeInv ==
    /\ ~my_cookie["client"]
    /\ ~stored_init["server"]
    /\ ~InTransit(Packet("INIT", "client"))
    /\ InTransit(Packet("COOKIE_ACK", "client")) => handshake_completed["server"]
    /\ \A p \in Peers : ~AcceptsInit(state[p]) => handshake_completed[p]
    /\ HandshakeAgreement

(* ShutdownSent is entered by shutdown only, which leaves its Drained event *)
(* behind; a SHUTDOWN-COMPLETE of the client is preceded by its going into  *)
(* a state that it leaves for Closed only.                                  *)
ShutdownInv ==
    /\ \A p \in Peers : state[p] # "ShutdownPending"
    /\ \A p \in Peers : Packet("SHUTDOWN_COMPLETE", "server") \notin control_queue[p]
    /\ "SHUTDOWN_COMPLETE" \in will_send["client"]
          => state["client"] \in {"ShutdownSent", "ShutdownAckSent", "Closed"}
    /\ NoHalfOpenShutdown
    /\ \A p \in Peers : state[p] = "ShutdownSent" =>
                            endpoint_events[p] \/ endpoint[p] = "removed"
    /\ ResponderDrains

IInv == TypeOK /\ TimerDiscipline /\ EventsMatchState /\ HandshakeInv /\ ShutdownInv

(* No call starts a timer without its chunk and its state, and none leaves *)
(* the state or drops the chunk with the timer running.                    *)
LEMMA TimersStep == TypeOK /\ TimerDiscipline /\ [Next]_vars => TimerDiscipline'
  <1> SUFFICES ASSUME TypeOK, TimerDiscipline, [Next]_vars PROVE TimerDiscipline'
    OBVIOUS
  <1> USE DEF TypeOK, TimerDiscipline, is_closing, AcceptsInit, handshake, T1Timers, Timers
  <1>1. ASSUME NEW p \in Peers, Receive(p) PROVE TimerDiscipline'
    <2>1. CASE handle_init(p)
      BY <2>1 DEF handle_init
    <2>2. CASE handle_init_unexpected(p)
      BY <2>2 DEF handle_init_unexpected, Stop, CloseWith
    <2>3. CASE handle_init_ack(p)
      BY <2>3 DEF handle_init_ack
    <2>4. CASE handle_cookie_echo(p)
      BY <2>4 DEF handle_cookie_echo, Stop, Establish
    <2>5. CASE handle_duplicate_cookie_echo(p)
      BY <2>5 DEF handle_duplicate_cookie_echo
    <2>6. CASE handle_cookie_ack(p)
      BY <2>6 DEF handle_cookie_ack, Stop, Establish
    <2>7. CASE handle_data(p)
      BY <2>7 DEF handle_data
    <2>8. CASE abort_receive_capacity(p)
      BY <2>8 DEF abort_receive_capacity, Stop, CloseWith
    <2>9. CASE handle_abort(p)
      BY <2>9 DEF handle_abort, Stop, CloseWith
    <2>10. CASE handle_sack(p)
      BY <2>10 DEF handle_sack
    <2>11. CASE handle_shutdown(p)
      BY <2>11 DEF handle_shutdown
    <2>12. CASE handle_shutdown_ack(p)
      BY <2>12 DEF handle_shutdown_ack, Stop
    <2>13. CASE handle_shutdown_complete(p)
      BY <2>13 DEF handle_shutdown_complete, Stop, CloseWith
    <2> QED
      BY <1>1, <2>1, <2>2, <2>3, <2>4, <2>5, <2>6, <2>7, <2>8, <2>9, <2>10, <2>11, <2>12, <2>13 DEF Receive
  <1>2. ASSUME NEW p \in Peers, NEW t \in T1Timers, timeout_T1(p, t) PROVE TimerDiscipline'
    BY <1>2 DEF timeout_T1
  <1>3. ASSUME NEW p \in Peers, NEW t \in T1Timers, failure_T1(p, t) PROVE TimerDiscipline'
    BY <1>3 DEF failure_T1
  <1>4. ASSUME NEW p \in Peers, timeout_T2(p) PROVE TimerDiscipline'
    BY <1>4 DEF timeout_T2
  <1>5. ASSUME NEW p \in Peers, poll_transmit(p) PROVE TimerDiscipline'
    <2> DEFINE shut == gather_outbound_shutdown_packets(state[p], will_send[p])
    <2>1. timers' = [timers EXCEPT ![p] = @ \cup
                      IF shut \subseteq {"SHUTDOWN_COMPLETE"} THEN {}
                      ELSE {"T2Shutdown"}]
          /\ UNCHANGED <<state, handshake>>
      BY <1>5 DEF poll_transmit
    <2>2. ~is_closing(state[p]) => shut = {}
      BY DEF gather_outbound_shutdown_packets
    <2> QED
      BY <2>1, <2>2
  <1>6. ASSUME NEW p \in Peers, Application(p) PROVE TimerDiscipline'
    <2>1. CASE poll(p)
      BY <2>1 DEF poll
    <2>2. CASE write(p)
      BY <2>2 DEF write
    <2>3. CASE shutdown(p)
      BY <2>3 DEF shutdown
    <2>4. CASE close(p)
      BY <2>4 DEF close, Stop, CloseWith
    <2>5. CASE handle_endpoint_event(p)
      BY <2>5 DEF handle_endpoint_event
    <2> QED
      BY <1>6, <2>1, <2>2, <2>3, <2>4, <2>5 DEF Application
  <1>7. ASSUME NEW packet \in net, Lose(packet) PROVE TimerDiscipline'
    BY <1>7 DEF Lose
  <1>8. CASE UNCHANGED vars
    BY <1>8 DEF vars
  <1> QED
    BY <1>1, <1>2, <1>3, <1>4, <1>5, <1>6, <1>7, <1>8 DEF Next, handle_timeout

(* A call that changes the side of the handshake an association is on also *)
(* tells the application.                                                  *)
LEMMA EventsStep == TypeOK /\ EventsMatchState /\ [Next]_vars => EventsMatchState'
  <1> SUFFICES ASSUME TypeOK, EventsMatchState, [Next]_vars PROVE EventsMatchState'
    OBVIOUS
  <1> USE DEF TypeOK, EventsMatchState, AcceptsInit
  <1>1. ASSUME NEW p \in Peers, Receive(p) PROVE EventsMatchState'
    <2>1. CASE handle_init(p)
      BY <2>1 DEF handle_init
    <2>2. CASE handle_init_unexpected(p)
      BY <2>2 DEF handle_init_unexpected, CloseWith
    <2>3. CASE handle_init_ack(p)
      BY <2>3 DEF handle_init_ack
    <2>4. CASE handle_cookie_echo(p)
      BY <2>4 DEF handle_cookie_echo, Establish
    <2>5. CASE handle_duplicate_cookie_echo(p)
      BY <2>5 DEF handle_duplicate_cookie_echo
    <2>6. CASE handle_cookie_ack(p)
      BY <2>6 DEF handle_cookie_ack, Establish
    <2>7. CASE handle_data(p)
      BY <2>7 DEF handle_data
    <2>8. CASE abort_receive_capacity(p)
      BY <2>8 DEF abort_receive_capacity, CloseWith
    <2>9. CASE handle_abort(p)
      BY <2>9 DEF handle_abort, CloseWith
    <2>10. CASE handle_sack(p)
      BY <2>10 DEF handle_sack
    <2>11. CASE handle_shutdown(p)
      BY <2>11 DEF handle_shutdown
    <2>12. CASE handle_shutdown_ack(p)
      BY <2>12 DEF handle_shutdown_ack
    <2>13. CASE handle_shutdown_complete(p)
      BY <2>13 DEF handle_shutdown_complete, CloseWith
    <2> QED
      BY <1>1, <2>1, <2>2, <2>3, <2>4, <2>5, <2>6, <2>7, <2>8, <2>9, <2>10, <2>11, <2>12, <2>13 DEF Receive
  <1>2. ASSUME NEW p \in Peers, NEW t \in T1Timers, timeout_T1(p, t) PROVE EventsMatchState'
    BY <1>2 DEF timeout_T1
  <1>3. ASSUME NEW p \in Peers, NEW t \in T1Timers, failure_T1(p, t) PROVE EventsMatchState'
    BY <1>3 DEF failure_T1
  <1>4. ASSUME NEW p \in Peers, timeout_T2(p) PROVE EventsMatchState'
    BY <1>4 DEF timeout_T2
  <1>5. ASSUME NEW p \in Peers, poll_transmit(p) PROVE EventsMatchState'
    BY <1>5 DEF poll_transmit
  <1>6. ASSUME NEW p \in Peers, Application(p) PROVE EventsMatchState'
    <2>1. CASE poll(p)
      BY <2>1 DEF poll
    <2>2. CASE write(p)
      BY <2>2 DEF write
    <2>3. CASE shutdown(p)
      BY <2>3 DEF shutdown
    <2>4. CASE close(p)
      BY <2>4 DEF close, CloseWith
    <2>5. CASE handle_endpoint_event(p)
      BY <2>5 DEF handle_endpoint_event
    <2> QED
      BY <1>6, <2>1, <2>2, <2>3, <2>4, <2>5 DEF Application
  <1>7. ASSUME NEW packet \in net, Lose(packet) PROVE EventsMatchState'
    BY <1>7 DEF Lose
  <1>8. CASE UNCHANGED vars
    BY <1>8 DEF vars
  <1> QED
    BY <1>1, <1>2, <1>3, <1>4, <1>5, <1>6, <1>7, <1>8 DEF Next, handle_timeout

(* Datagrams are equal only if their chunks and their addressees are.      *)
LEMMA PacketInjective ==
    ASSUME NEW t1, NEW p1, NEW t2, NEW p2, Packet(t1, p1) = Packet(t2, p2)
    PROVE  t1 = t2 /\ p1 = p2
  BY DEF Packet

(* What poll_transmit puts on the network: the control queue, DATA, SACK   *)
(* and at most one of the shutdown chunks that the flags ask for.          *)
LEMMA Sent ==
    ASSUME NEW p \in Peers, poll_transmit(p), NEW packet \in net'
    PROVE  \/ packet \in net
           \/ packet \in control_queue[p]
           \/ \E type \in {"DATA", "SACK"} \cup
                  gather_outbound_shutdown_packets(state[p], will_send[p]) :
                packet = Packet(type, Other(p))
  BY DEF poll_transmit

(* Every call keeps the bookkeeping of the handshake: in particular a      *)
(* COOKIE-ACK is queued only by a server that has just been established.   *)
LEMMA HandshakeStep == TypeOK /\ HandshakeInv /\ [Next]_vars => HandshakeInv'
  <1> SUFFICES ASSUME TypeOK, HandshakeInv, [Next]_vars PROVE HandshakeInv'
    OBVIOUS
  <1> USE DEF TypeOK, HandshakeInv, HandshakeAgreement, InTransit, AcceptsInit, handshake, Packet, Other, Peers
  <1>1. ASSUME NEW p \in Peers, Receive(p) PROVE HandshakeInv'
    <2>1. CASE handle_init(p)
      BY <2>1 DEF handle_init, Queue, ReceivedInit, Deliver
    <2>2. CASE handle_init_unexpected(p)
      BY <2>2 DEF handle_init_unexpected, CloseWith, ReceivedInit, Deliver
    <2>3. CASE handle_init_ack(p)
      BY <2>3 DEF handle_init_ack, Queue, Received, Deliver
    <2>4. CASE handle_cookie_echo(p)
      BY <2>4 DEF handle_cookie_echo, Establish, Queue, Received, Deliver
    <2>5. CASE handle_duplicate_cookie_echo(p)
      BY <2>5 DEF handle_duplicate_cookie_echo, Queue, Received, Deliver
    <2>6. CASE handle_cookie_ack(p)
      BY <2>6 DEF handle_cookie_ack, Establish, Received, Deliver
    <2>7. CASE handle_data(p)
      BY <2>7 DEF handle_data, Received, Deliver
    <2>8. CASE abort_receive_capacity(p)
      BY <2>8 DEF abort_receive_capacity, CloseWith, Queue, Received, Deliver
    <2>9. CASE handle_abort(p)
      BY <2>9 DEF handle_abort, CloseWith, Received, Deliver
    <2>10. CASE handle_sack(p)
      BY <2>10 DEF handle_sack, Received, Deliver
    <2>11. CASE handle_shutdown(p)
      BY <2>11 DEF handle_shutdown, Received, Deliver
    <2>12. CASE handle_shutdown_ack(p)
      BY <2>12 DEF handle_shutdown_ack, Received, Deliver
    <2>13. CASE handle_shutdown_complete(p)
      BY <2>13 DEF handle_shutdown_complete, CloseWith, Received, Deliver
    <2> QED
      BY <1>1, <2>1, <2>2, <2>3, <2>4, <2>5, <2>6, <2>7, <2>8, <2>9, <2>10, <2>11, <2>12, <2>13 DEF Receive
  <1>2. ASSUME NEW p \in Peers, NEW t \in T1Timers, timeout_T1(p, t) PROVE HandshakeInv'
    BY <1>2 DEF timeout_T1, Queue, Retransmission
  <1>3. ASSUME NEW p \in Peers, NEW t \in T1Timers, failure_T1(p, t) PROVE HandshakeInv'
    BY <1>3 DEF failure_T1
  <1>4. ASSUME NEW p \in Peers, timeout_T2(p) PROVE HandshakeInv'
    BY <1>4 DEF timeout_T2
  <1>5. ASSUME NEW p \in Peers, poll_transmit(p) PROVE HandshakeInv'
    <2>1. \A packet \in {Packet("INIT", "client"), Packet("COOKIE_ACK", "client")} :
            InTransit(packet)' => InTransit(packet)
      <3> SUFFICES ASSUME NEW type \in {"INIT", "COOKIE_ACK"},
                          InTransit(Packet(type, "client"))'
                   PROVE  InTransit(Packet(type, "client"))
        OBVIOUS
      <3>1. type \notin {"DATA", "SACK"} \cup
              gather_outbound_shutdown_packets(state[p], will_send[p])
        BY DEF gather_outbound_shutdown_packets
      <3>2. control_queue' = [control_queue EXCEPT ![p] = {}]
        BY <1>5 DEF poll_transmit
      <3> HIDE DEF Packet
      <3> QED
        BY <1>5, <3>1, <3>2, Sent, PacketInjective
    <2>2. UNCHANGED <<state, handshake>>
      BY <1>5 DEF poll_transmit
    <2> QED
      BY <2>1, <2>2
  <1>6. ASSUME NEW p \in Peers, Application(p) PROVE HandshakeInv'
    <2>1. CASE poll(p)
      BY <2>1 DEF poll
    <2>2. CASE write(p)
      BY <2>2 DEF write
    <2>3. CASE shutdown(p)
      BY <2>3 DEF shutdown
    <2>4. CASE close(p)
      BY <2>4 DEF close, CloseWith
    <2>5. CASE handle_endpoint_event(p)
      BY <2>5 DEF handle_endpoint_event
    <2> QED
      BY <1>6, <2>1, <2>2, <2>3, <2>4, <2>5 DEF Application
  <1>7. ASSUME NEW packet \in net, Lose(packet) PROVE HandshakeInv'
    BY <1>7 DEF Lose
  <1>8. CASE UNCHANGED vars
    BY <1>8 DEF vars
  <1> QED
    BY <1>1, <1>2, <1>3, <1>4, <1>5, <1>6, <1>7, <1>8 DEF Next, handle_timeout

(* Every call keeps the bookkeeping of the shutdown: the flag that sends   *)
(* SHUTDOWN-COMPLETE is raised by handle_shutdown_ack alone.               *)
LEMMA ShutdownStep == TypeOK /\ HandshakeInv /\ ShutdownInv /\ [Next]_vars => ShutdownInv'
  <1> SUFFICES ASSUME TypeOK, HandshakeInv, ShutdownInv, [Next]_vars PROVE ShutdownInv'
    OBVIOUS
  <1> USE DEF TypeOK, ShutdownInv, NoHalfOpenShutdown, ResponderDrains, AcceptsInit, transfer, routing, Packet, Other, Peers
  <1>1. ASSUME NEW p \in Peers, Receive(p) PROVE ShutdownInv'
    <2>1. CASE handle_init(p)
      BY <2>1 DEF handle_init, Queue, ReceivedInit, Deliver, HandshakeInv
    <2>2. CASE handle_init_unexpected(p)
      BY <2>2 DEF handle_init_unexpected, CloseWith, ReceivedInit, Deliver
    <2>3. CASE handle_init_ack(p)
      BY <2>3 DEF handle_init_ack, Queue, Received, Deliver
    <2>4. CASE handle_cookie_echo(p)
      BY <2>4 DEF handle_cookie_echo, Establish, Queue, Received, Deliver, HandshakeInv
    <2>5. CASE handle_duplicate_cookie_echo(p)
      BY <2>5 DEF handle_duplicate_cookie_echo, Queue, Received, Deliver
    <2>6. CASE handle_cookie_ack(p)
      BY <2>6 DEF handle_cookie_ack, Establish, Received, Deliver
    <2>7. CASE handle_data(p)
      BY <2>7 DEF handle_data, Received, Deliver
    <2>8. CASE abort_receive_capacity(p)
      BY <2>8 DEF abort_receive_capacity, CloseWith, Queue, Received, Deliver
    <2>9. CASE handle_abort(p)
      BY <2>9 DEF handle_abort, CloseWith, Received, Deliver
    <2>10. CASE handle_sack(p)
      BY <2>10 DEF handle_sack, Received, Deliver
    <2>11. CASE handle_shutdown(p)
      BY <2>11 DEF handle_shutdown, Received, Deliver
    <2>12. CASE handle_shutdown_ack(p)
      BY <2>12 DEF handle_shutdown_ack, Received, Deliver
    <2>13. CASE handle_shutdown_complete(p)
      BY <2>13 DEF handle_shutdown_complete, CloseWith, Received, Deliver
    <2> QED
      BY <1>1, <2>1, <2>2, <2>3, <2>4, <2>5, <2>6, <2>7, <2>8, <2>9, <2>10, <2>11, <2>12, <2>13 DEF Receive
  <1>2. ASSUME NEW p \in Peers, NEW t \in T1Timers, timeout_T1(p, t) PROVE ShutdownInv'
    BY <1>2 DEF timeout_T1, Queue, Retransmission
  <1>3. ASSUME NEW p \in Peers, NEW t \in T1Timers, failure_T1(p, t) PROVE ShutdownInv'
    BY <1>3 DEF failure_T1
  <1>4. ASSUME NEW p \in Peers, timeout_T2(p) PROVE ShutdownInv'
    BY <1>4 DEF timeout_T2
  <1>5. ASSUME NEW p \in Peers, poll_transmit(p) PROVE ShutdownInv'
    <2> DEFINE complete == Packet("SHUTDOWN_COMPLETE", "server")
    <2>1. complete \in net' => complete \in net
                              \/ "SHUTDOWN_COMPLETE" \in will_send["client"]
      <3>1. "SHUTDOWN_COMPLETE" \in gather_outbound_shutdown_packets(state[p], will_send[p])
              => "SHUTDOWN_COMPLETE" \in will_send[p]
        BY DEF gather_outbound_shutdown_packets
      <3>2. Other(p) = "server" => p = "client"
        OBVIOUS
      <3> HIDE DEF Packet
      <3> QED
        BY <1>5, <3>1, <3>2, Sent, PacketInjective
    <2>2. /\ control_queue' = [control_queue EXCEPT ![p] = {}]
          /\ will_send'["client"] \subseteq will_send["client"]
          /\ UNCHANGED <<state, routing>>
      BY <1>5 DEF poll_transmit
    <2>3. \A q \in Peers : state[q] = "ShutdownAckSent" => data'[q] = data[q]
      BY <1>5 DEF poll_transmit
    <2> QED
      BY <2>1, <2>2, <2>3
  <1>6. ASSUME NEW p \in Peers, Application(p) PROVE ShutdownInv'
    <2>1. CASE poll(p)
      BY <2>1 DEF poll
    <2>2. CASE write(p)
      BY <2>2 DEF write
    <2>3. CASE shutdown(p)
      BY <2>3 DEF shutdown
    <2>4. CASE close(p)
      BY <2>4 DEF close, CloseWith
    <2>5. CASE handle_endpoint_event(p)
      BY <2>5 DEF handle_endpoint_event
    <2> QED
      BY <1>6, <2>1, <2>2, <2>3, <2>4, <2>5 DEF Application
  <1>7. ASSUME NEW packet \in net, Lose(packet) PROVE ShutdownInv'
    BY <1>7 DEF Lose
  <1>8. CASE UNCHANGED vars
    BY <1>8 DEF vars
  <1> QED
    BY <1>1, <1>2, <1>3, <1>4, <1>5, <1>6, <1>7, <1>8 DEF Next, handle_timeout

(* Both constructors establish the inductive invariant.                    *)
LEMMA Initially == Init => IInv
  <1> SUFFICES ASSUME Init PROVE IInv
    OBVIOUS
  <1>1. TypeOK
    BY TypeInitially
  <1>2. TimerDiscipline
    <2>1. CASE InitHandshake
      BY <2>1 DEF InitHandshake, TimerDiscipline, Peers
    <2>2. CASE InitSnap
      BY <2>2 DEF InitSnap, TimerDiscipline, Peers
    <2> QED
      BY <2>1, <2>2 DEF Init
  <1>3. EventsMatchState
    BY DEF Init, InitHandshake, InitSnap, EventsMatchState, AcceptsInit, Peers
  <1>4. HandshakeInv
    <2>1. CASE InitHandshake
      BY <2>1 DEF Init, InitHandshake, HandshakeInv, HandshakeAgreement,
         InTransit, AcceptsInit, Packet, Peers
    <2>2. CASE InitSnap
      BY <2>2 DEF Init, InitSnap, HandshakeInv, HandshakeAgreement,
         InTransit, AcceptsInit, Packet, Peers
    <2> QED
      BY <2>1, <2>2 DEF Init
  <1>5. ShutdownInv
    BY DEF Init, InitHandshake, InitSnap, ShutdownInv, NoHalfOpenShutdown,
       ResponderDrains, Packet, Peers
  <1> QED
    BY <1>1, <1>2, <1>3, <1>4, <1>5 DEF IInv

(* Every call preserves it.                                                *)
LEMMA Inductive == IInv /\ [Next]_vars => IInv'
  BY TypeStep, TimersStep, EventsStep, HandshakeStep, ShutdownStep DEF IInv

(* The inductive invariant holds throughout the life of an association.    *)
THEOREM Invariance == Spec => []IInv
  BY Initially, Inductive, PTL DEF Spec

(* Whenever a T1 timer runs there is a chunk stored for it to repeat, and  *)
(* T2 runs during a shutdown only.                                         *)
THEOREM TimersCorrect == Spec => []TimerDiscipline
  <1>1. IInv => TimerDiscipline
    BY DEF IInv
  <1> QED
    BY <1>1, Invariance, PTL

(* No client reports Connected before its server has accepted its cookie.  *)
THEOREM HandshakeCorrect == Spec => []HandshakeAgreement
  <1>1. IInv => HandshakeAgreement
    BY DEF IInv, HandshakeInv
  <1> QED
    BY <1>1, Invariance, PTL

(* The last event an application was told agrees with the state.           *)
THEOREM EventsCorrect == Spec => []EventsMatchState
  <1>1. IInv => EventsMatchState
    BY DEF IInv
  <1> QED
    BY <1>1, Invariance, PTL

(* A SHUTDOWN is acknowledged by its responder only with nothing in flight.*)
THEOREM ResponderCorrect == Spec => []ResponderDrains
  <1>1. IInv => ResponderDrains
    BY DEF IInv, ShutdownInv
  <1> QED
    BY <1>1, Invariance, PTL

(* A SHUTDOWN-COMPLETE never finds the client that sent it Established.    *)
THEOREM ShutdownCorrect == Spec => []NoHalfOpenShutdown
  <1>1. IInv => NoHalfOpenShutdown
    BY DEF IInv, ShutdownInv
  <1> QED
    BY <1>1, Invariance, PTL

(* A client association that is Closed stays Closed.                       *)
THEOREM ClientFinality == Spec => ClientClosedIsFinal
  <1> DEFINE Final == state["client"] = "Closed" => state'["client"] = "Closed"
  <1>1. IInv /\ [Next]_vars => [Final]_vars
    <2> SUFFICES ASSUME IInv, Next PROVE Final
      OBVIOUS
    <2> USE DEF IInv, TypeOK, AcceptsInit, Peers
    <2>1. ASSUME NEW p \in Peers, Receive(p) PROVE Final
      <3>1. p = "client" => ~my_cookie[p]
        BY DEF HandshakeInv
      <3> QED
        BY <2>1, <3>1 DEF Receive, handle_init, handle_init_unexpected,
           handle_init_ack, handle_cookie_echo, handle_duplicate_cookie_echo,
           handle_cookie_ack, handle_data, abort_receive_capacity, handle_abort,
           handle_sack, handle_shutdown, handle_shutdown_ack,
           handle_shutdown_complete, CloseWith, Establish
    <2>2. ASSUME NEW p \in Peers, handle_timeout(p) \/ poll_transmit(p) PROVE Final
      BY <2>2 DEF handle_timeout, timeout_T1, failure_T1, timeout_T2, poll_transmit
    <2>3. ASSUME NEW p \in Peers, Application(p) PROVE Final
      BY <2>3 DEF Application, poll, write, shutdown, close,
         handle_endpoint_event, CloseWith
    <2>4. ASSUME NEW packet \in net, Lose(packet) PROVE Final
      BY <2>4 DEF Lose
    <2> QED
      BY <2>1, <2>2, <2>3, <2>4 DEF Next
  <1> QED
    BY <1>1, Invariance, PTL DEF Spec, ClientClosedIsFinal
=============================================================================
