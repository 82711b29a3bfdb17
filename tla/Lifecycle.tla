----------------------------- MODULE Lifecycle -----------------------------
(***************************************************************************)
(* The life of one SCTP association, seen from its two ends: the four-way  *)
(* handshake (or SNAP, which skips it), the shutdown sequence, close and   *)
(* abort, the T1-init, T1-cookie and T2-shutdown timers, the routing entry *)
(* the Endpoint keeps for each end, and the events the application is      *)
(* told.  Modelled from association/mod.rs, state.rs, timer.rs and         *)
(* endpoint/mod.rs.                                                        *)
(*                                                                         *)
(* The library is single threaded: one action is one call of its API       *)
(* (handle_event, handle_timeout, poll_transmit, poll, shutdown, close).   *)
(* The concurrency is that of two applications, their timers and a network *)
(* that loses, duplicates and reorders datagrams.                          *)
(*                                                                         *)
(* DATA is abstracted to at most one chunk per direction, enough to tell   *)
(* "nothing outstanding" from "something outstanding".  When a chunk is    *)
(* retransmitted, and how long a SACK is delayed, is left open.            *)
(***************************************************************************)
EXTENDS Integers

CONSTANTS
    MaxInitRetransmits, \* TransportConfig::max_init_retransmits, or NoLimit
    NoLimit,            \* its None
    MayClose,           \* the peers whose application may call close()
    MayShutdown,        \* the peers whose application may call shutdown()
    MayWrite,           \* the peers whose application may write a message
    MayExhaust,         \* the peers whose receive buffer may fill up
    MayForward,         \* the peers whose application forwards endpoint events
    MayLose,            \* whether the network forgets datagrams
    MayRepeat           \* whether the network delivers a datagram repeatedly

Peers == {"client", "server"}

ASSUME ConstantsAssumption ==
    /\ MaxInitRetransmits \in Nat \cup {NoLimit}
    /\ NoLimit \notin Nat
    /\ MayClose \subseteq Peers
    /\ MayShutdown \subseteq Peers
    /\ MayWrite \subseteq Peers
    /\ MayExhaust \subseteq Peers
    /\ MayForward \subseteq Peers
    /\ MayLose \in BOOLEAN
    /\ MayRepeat \in BOOLEAN

VARIABLES
    state,               \* AssociationState
    stored_init,         \* the INIT kept for retransmission is Some
    stored_cookie_echo,  \* the COOKIE-ECHO kept for retransmission is Some
    my_cookie,           \* the state cookie has been created
    handshake_completed,
    timers,              \* the timers that are armed
    retrans,             \* expiries of T1-init and T1-cookie since their stop
    will_send,           \* will_send_shutdown, _shutdown_ack, _shutdown_complete
    control_queue,       \* control packets queued for the next poll_transmit
    ack_state,           \* a SACK is owed
    data,                \* the fate of the application's one DATA chunk
    error,               \* the handshake failure not polled yet
    last_event,          \* the last Event handed to the application
    endpoint_events,     \* a Drained event waits in endpoint_events
    endpoint,            \* what the Endpoint's routing tables know
    net                  \* the datagrams that can still arrive

handshake == <<stored_init, stored_cookie_echo, my_cookie, handshake_completed>>
transfer == <<ack_state, data>>
routing == <<endpoint_events, endpoint>>
vars == <<state, handshake, timers, retrans, will_send, control_queue,
          transfer, error, last_event, routing, net>>

-----------------------------------------------------------------------------
Other(p) == IF p = "client" THEN "server" ELSE "client"

States == {"Closed", "CookieWait", "CookieEchoed", "Established",
           "ShutdownAckSent", "ShutdownPending", "ShutdownReceived",
           "ShutdownSent"}

is_closing(s) ==
    s \in {"ShutdownSent", "ShutdownAckSent", "ShutdownPending",
           "ShutdownReceived"}

T1Timers == {"T1Init", "T1Cookie"}
Timers == T1Timers \cup {"T2Shutdown"}

ShutdownChunks == {"SHUTDOWN", "SHUTDOWN_ACK", "SHUTDOWN_COMPLETE"}
ChunkTypes == ShutdownChunks \cup
    {"INIT", "INIT_ACK", "COOKIE_ECHO", "COOKIE_ACK", "DATA", "SACK", "ABORT"}

(* A datagram.  The verification tag is abstracted to its addressee; the   *)
(* cookie that INIT-ACK and COOKIE-ECHO carry is the server's only cookie. *)
Packet(type, p) == [type |-> type, to |-> p]
Packets == [type : ChunkTypes, to : Peers]

Events == {"none", "Connected", "HandshakeFailed", "AssociationLost"}

TypeOK ==
    /\ state \in [Peers -> States]
    /\ stored_init \in [Peers -> BOOLEAN]
    /\ stored_cookie_echo \in [Peers -> BOOLEAN]
    /\ my_cookie \in [Peers -> BOOLEAN]
    /\ handshake_completed \in [Peers -> BOOLEAN]
    /\ timers \in [Peers -> SUBSET Timers]
    /\ retrans \in [Peers -> [T1Timers -> Nat]]
    /\ will_send \in [Peers -> SUBSET ShutdownChunks]
    /\ control_queue \in [Peers -> SUBSET Packets]
    /\ ack_state \in [Peers -> BOOLEAN]
    /\ data \in [Peers -> {"none", "pending", "inflight", "acked"}]
    /\ error \in [Peers -> BOOLEAN]
    /\ last_event \in [Peers -> Events]
    /\ endpoint_events \in [Peers -> BOOLEAN]
    /\ endpoint \in [Peers -> {"unknown", "routed", "removed"}]
    /\ net \in SUBSET Packets
-----------------------------------------------------------------------------
(* Association::new: the client side queues its INIT, arms T1-init and     *)
(* waits; the server side starts Closed.  Endpoint::connect has registered *)
(* the client; the server's association exists once the first INIT arrives.*)
InitHandshake ==
    /\ state = [p \in Peers |-> IF p = "client" THEN "CookieWait" ELSE "Closed"]
    /\ stored_init = [p \in Peers |-> p = "client"]
    /\ handshake_completed = [p \in Peers |-> FALSE]
    /\ timers = [p \in Peers |-> IF p = "client" THEN {"T1Init"} ELSE {}]
    /\ control_queue = [p \in Peers |->
                          IF p = "client" THEN {Packet("INIT", "server")} ELSE {}]
    /\ last_event = [p \in Peers |-> "none"]
    /\ endpoint = [p \in Peers |-> IF p = "client" THEN "routed" ELSE "unknown"]

(* new_with_out_of_band_init: both ends exchanged their INITs out of band  *)
(* and start Established, with Connected already queued for the poll.      *)
InitSnap ==
    /\ state = [p \in Peers |-> "Established"]
    /\ stored_init = [p \in Peers |-> FALSE]
    /\ handshake_completed = [p \in Peers |-> TRUE]
    /\ timers = [p \in Peers |-> {}]
    /\ control_queue = [p \in Peers |-> {}]
    /\ last_event = [p \in Peers |-> "Connected"]
    /\ endpoint = [p \in Peers |-> "routed"]

Init ==
    /\ InitHandshake \/ InitSnap
    /\ stored_cookie_echo = [p \in Peers |-> FALSE]
    /\ my_cookie = [p \in Peers |-> FALSE]
    /\ retrans = [p \in Peers |-> [t \in T1Timers |-> 0]]
    /\ will_send = [p \in Peers |-> {}]
    /\ ack_state = [p \in Peers |-> FALSE]
    /\ data = [p \in Peers |-> "none"]
    /\ error = [p \in Peers |-> FALSE]
    /\ endpoint_events = [p \in Peers |-> FALSE]
    /\ net = {}

-----------------------------------------------------------------------------
(* Endpoint::handle: a datagram that carries a verification tag reaches    *)
(* the association registered under it, if there still is one.             *)
Deliver(packet) ==
    /\ packet \in net
    /\ net' = IF MayRepeat THEN net ELSE net \ {packet}

Received(type, p) == endpoint[p] = "routed" /\ Deliver(Packet(type, p))

Queue(p, packets) ==
    control_queue' = [control_queue EXCEPT ![p] = @ \cup packets]

(* Mutant: the timer keeps running. *)
Stop_nothing(p, ts) == UNCHANGED <<timers, retrans>>

(* TimerTable::stop *)
Stop(p, ts) ==
    /\ timers' = [timers EXCEPT ![p] = @ \ ts]
    /\ retrans' = [retrans EXCEPT ![p] =
                     [t \in T1Timers |-> IF t \in ts THEN 0 ELSE @[t]]]

(* Mutant: the application is not told. *)
CloseWith_silent(p, packets) ==
    /\ state' = [state EXCEPT ![p] = "Closed"]
    /\ Stop(p, Timers)
    /\ control_queue' = [control_queue EXCEPT ![p] = packets]
    /\ UNCHANGED <<last_event, handshake, will_send, transfer, error>>

(* close_with_reason on an association that is not Closed.  It leaves      *)
(* will_send, stored_init, my_cookie and the outbound DATA as they are,    *)
(* and tells neither the peer nor the Endpoint.  What abort_receive_capacity*)
(* queues after the call is the argument.                                  *)
CloseWith(p, packets) ==
    /\ state' = [state EXCEPT ![p] = "Closed"]
    /\ Stop(p, Timers)
    /\ control_queue' = [control_queue EXCEPT ![p] = packets]
    /\ last_event' = [last_event EXCEPT ![p] = "AssociationLost"]
    /\ UNCHANGED <<handshake, will_send, transfer, error>>

Establish(p) ==
    /\ state' = [state EXCEPT ![p] = "Established"]
    /\ handshake_completed' = [handshake_completed EXCEPT ![p] = TRUE]
    /\ last_event' = [last_event EXCEPT ![p] = "Connected"]

-----------------------------------------------------------------------------
(* An INIT carries no verification tag.  Endpoint::handle_first_packet     *)
(* creates the server's association on the first one, and the initiate tag *)
(* routes every later copy to it.                                          *)
ReceivedInit(p) == endpoint[p] # "removed" /\ Deliver(Packet("INIT", p))

AcceptsInit(s) == s \in {"Closed", "CookieWait", "CookieEchoed"}

handle_init(p) ==
    /\ ReceivedInit(p)
    /\ AcceptsInit(state[p])
    /\ endpoint' = [endpoint EXCEPT ![p] = "routed"]
    /\ my_cookie' = [my_cookie EXCEPT ![p] = TRUE]
    /\ Queue(p, {Packet("INIT_ACK", Other(p))})
    /\ UNCHANGED <<state, stored_init, stored_cookie_echo, handshake_completed,
                   timers, retrans, will_send, transfer, error, last_event,
                   endpoint_events>>

(* ErrHandleInitState: handle_event closes the association. *)
handle_init_unexpected(p) ==
    /\ ReceivedInit(p)
    /\ ~AcceptsInit(state[p])
    /\ CloseWith(p, {})
    /\ UNCHANGED routing

handle_init_ack(p) ==
    /\ Received("INIT_ACK", p)
    /\ state[p] = "CookieWait"
    /\ state' = [state EXCEPT ![p] = "CookieEchoed"]
    /\ stored_init' = [stored_init EXCEPT ![p] = FALSE]
    /\ stored_cookie_echo' = [stored_cookie_echo EXCEPT ![p] = TRUE]
    /\ timers' = [timers EXCEPT ![p] = (@ \ {"T1Init"}) \cup {"T1Cookie"}]
    /\ retrans' = [retrans EXCEPT ![p] = [@ EXCEPT !["T1Init"] = 0]]
    /\ Queue(p, {Packet("COOKIE_ECHO", Other(p))})
    /\ UNCHANGED <<my_cookie, handshake_completed, will_send, transfer, error,
                   last_event, routing>>

(* Mutant: the COOKIE-ACK is sent, the association not established. *)
handle_cookie_echo_only_answers(p) ==
    /\ Received("COOKIE_ECHO", p)
    /\ my_cookie[p]
    /\ AcceptsInit(state[p])
    /\ Queue(p, {Packet("COOKIE_ACK", Other(p))})
    /\ UNCHANGED <<state, last_event, handshake, timers, retrans, will_send,
                   transfer, error, routing>>

(* The cookie of one association never changes, so the one echoed matches. *)
handle_cookie_echo(p) ==
    /\ Received("COOKIE_ECHO", p)
    /\ my_cookie[p]
    /\ AcceptsInit(state[p])
    /\ Establish(p)
    /\ stored_init' = [stored_init EXCEPT ![p] = FALSE]
    /\ stored_cookie_echo' = [stored_cookie_echo EXCEPT ![p] = FALSE]
    /\ Stop(p, T1Timers)
    /\ Queue(p, {Packet("COOKIE_ACK", Other(p))})
    /\ UNCHANGED <<my_cookie, will_send, transfer, error, routing>>

handle_duplicate_cookie_echo(p) ==
    /\ Received("COOKIE_ECHO", p)
    /\ my_cookie[p]
    /\ state[p] = "Established"
    /\ Queue(p, {Packet("COOKIE_ACK", Other(p))})
    /\ UNCHANGED <<state, handshake, timers, retrans, will_send, transfer,
                   error, last_event, routing>>

(* Mutant: the COOKIE-ACK is taken in every state. *)
handle_cookie_ack_any_state(p) ==
    /\ Received("COOKIE_ACK", p)
    /\ Establish(p)
    /\ stored_cookie_echo' = [stored_cookie_echo EXCEPT ![p] = FALSE]
    /\ Stop(p, {"T1Cookie"})
    /\ UNCHANGED <<stored_init, my_cookie, will_send, control_queue, transfer,
                   error, routing>>

handle_cookie_ack(p) ==
    /\ Received("COOKIE_ACK", p)
    /\ state[p] = "CookieEchoed"
    /\ Establish(p)
    /\ stored_cookie_echo' = [stored_cookie_echo EXCEPT ![p] = FALSE]
    /\ Stop(p, {"T1Cookie"})
    /\ UNCHANGED <<stored_init, my_cookie, will_send, control_queue, transfer,
                   error, routing>>
-----------------------------------------------------------------------------
(* handle_data has no state check: DATA is taken, and a SACK owed for it,  *)
(* in every state.                                                         *)
handle_data(p) ==
    /\ Received("DATA", p)
    /\ ack_state' = [ack_state EXCEPT ![p] = TRUE]
    /\ UNCHANGED <<state, handshake, timers, retrans, will_send, control_queue,
                   data, error, last_event, routing>>

(* handle_data failing with ErrReceiveBufferExhausted: the association is  *)
(* closed and an ABORT queued behind the closing.                          *)
abort_receive_capacity(p) ==
    /\ p \in MayExhaust
    /\ Received("DATA", p)
    /\ \/ /\ state[p] # "Closed"
          /\ CloseWith(p, {Packet("ABORT", Other(p))})
       \/ /\ state[p] = "Closed"
          /\ Queue(p, {Packet("ABORT", Other(p))})
          /\ UNCHANGED <<state, handshake, timers, retrans, will_send, transfer,
                         error, last_event>>
    /\ UNCHANGED routing

handle_abort(p) ==
    /\ Received("ABORT", p)
    /\ state[p] # "Closed"
    /\ CloseWith(p, {})
    /\ UNCHANGED routing

(* handle_sack and, nothing being left in flight, postprocess_sack.  In    *)
(* ShutdownSent the SACK is ignored.                                       *)
AcceptsSack(s) == s \in {"Established", "ShutdownPending", "ShutdownReceived"}

handle_sack(p) ==
    /\ Received("SACK", p)
    /\ AcceptsSack(state[p])
    /\ data' = [data EXCEPT ![p] = IF @ = "inflight" THEN "acked" ELSE @]
    /\ state' = [state EXCEPT ![p] =
                   CASE @ = "ShutdownPending" -> "ShutdownSent"
                     [] @ = "ShutdownReceived" -> "ShutdownAckSent"
                     [] OTHER -> @]
    /\ will_send' = [will_send EXCEPT ![p] = @ \cup
                       CASE state[p] = "ShutdownPending" -> {"SHUTDOWN"}
                         [] state[p] = "ShutdownReceived" -> {"SHUTDOWN_ACK"}
                         [] OTHER -> {}]
    /\ UNCHANGED <<handshake, timers, retrans, control_queue, ack_state, error,
                   last_event, routing>>

-----------------------------------------------------------------------------
(* Mutant: the DATA in flight is not waited for. *)
handle_shutdown_at_once(p) ==
    /\ Received("SHUTDOWN", p)
    /\ state[p] \in {"Established", "ShutdownSent"}
    /\ state' = [state EXCEPT ![p] = "ShutdownAckSent"]
    /\ will_send' = [will_send EXCEPT ![p] = @ \cup {"SHUTDOWN_ACK"}]
    /\ UNCHANGED <<handshake, timers, retrans, control_queue, transfer, error,
                   last_event, routing>>

handle_shutdown(p) ==
    /\ Received("SHUTDOWN", p)
    /\ \/ /\ state[p] = "Established"
          /\ data[p] = "inflight"
          /\ state' = [state EXCEPT ![p] = "ShutdownReceived"]
          /\ UNCHANGED will_send
       \/ /\ \/ state[p] = "Established" /\ data[p] # "inflight"
             \/ state[p] = "ShutdownSent"
          /\ state' = [state EXCEPT ![p] = "ShutdownAckSent"]
          /\ will_send' = [will_send EXCEPT ![p] = @ \cup {"SHUTDOWN_ACK"}]
    /\ UNCHANGED <<handshake, timers, retrans, control_queue, transfer, error,
                   last_event, routing>>

handle_shutdown_ack(p) ==
    /\ Received("SHUTDOWN_ACK", p)
    /\ state[p] \in {"ShutdownSent", "ShutdownAckSent"}
    /\ Stop(p, {"T2Shutdown"})
    /\ will_send' = [will_send EXCEPT ![p] = @ \cup {"SHUTDOWN_COMPLETE"}]
    /\ UNCHANGED <<state, handshake, control_queue, transfer, error, last_event,
                   routing>>

handle_shutdown_complete(p) ==
    /\ Received("SHUTDOWN_COMPLETE", p)
    /\ state[p] = "ShutdownAckSent"
    /\ CloseWith(p, {})
    /\ UNCHANGED routing

-----------------------------------------------------------------------------
(* poll_transmit and gather_outbound.  Every state flushes control_queue.  *)
(* DATA is first sent in Established only; it is retransmitted (rtx) and   *)
(* acknowledged (sack) in the shutdown states too, until ShutdownAckSent.  *)
(* The shutdown chunks go out one per call.  The flag that asks for the    *)
(* association to be closed after SHUTDOWN-COMPLETE is dropped.            *)
Transfers(s) ==
    s \in {"Established", "ShutdownPending", "ShutdownSent", "ShutdownReceived"}

gather_outbound_shutdown_packets(s, flags) ==
    IF ~is_closing(s)                      THEN {}
    ELSE IF "SHUTDOWN" \in flags           THEN {"SHUTDOWN"}
    ELSE IF "SHUTDOWN_ACK" \in flags       THEN {"SHUTDOWN_ACK"}
    ELSE flags \cap {"SHUTDOWN_COMPLETE"}

poll_transmit(p) ==
    \E rtx, sack \in BOOLEAN :
    LET new   == state[p] = "Established" /\ data[p] = "pending"
        shut  == gather_outbound_shutdown_packets(state[p], will_send[p])
        types == shut \cup (IF new \/ rtx THEN {"DATA"} ELSE {})
                      \cup (IF sack THEN {"SACK"} ELSE {})
        sent  == control_queue[p] \cup {Packet(type, Other(p)) : type \in types}
    IN  /\ rtx => Transfers(state[p]) /\ data[p] = "inflight"
        /\ sack => Transfers(state[p]) /\ ack_state[p]
        /\ sent # {}
        /\ net' = net \cup sent
        /\ control_queue' = [control_queue EXCEPT ![p] = {}]
        /\ data' = [data EXCEPT ![p] = IF new THEN "inflight" ELSE @]
        /\ ack_state' = [ack_state EXCEPT ![p] = @ /\ ~sack]
        /\ will_send' = [will_send EXCEPT ![p] = @ \ shut]
        /\ timers' = [timers EXCEPT ![p] = @ \cup
                        IF shut \subseteq {"SHUTDOWN_COMPLETE"} THEN {}
                        ELSE {"T2Shutdown"}]
        /\ UNCHANGED <<state, handshake, retrans, error, last_event, routing>>
-----------------------------------------------------------------------------
(* handle_timeout for one expired timer; a call that finds several expired *)
(* is a sequence of these steps.  The count of expiries decides when T1    *)
(* gives up; its other use, the backoff of the interval, is abstracted.    *)
(* Without a limit nothing reads the count, and it is left out.            *)
Expiries(p, t) ==
    IF MaxInitRetransmits = NoLimit THEN retrans[p][t] ELSE retrans[p][t] + 1

Exhausted(n) == MaxInitRetransmits # NoLimit /\ n > MaxInitRetransmits

(* Mutant: the COOKIE-ECHO is never repeated. *)
Retransmission_of_init(p, t) ==
    IF t = "T1Init" /\ stored_init[p] THEN {Packet("INIT", Other(p))} ELSE {}

(* What on_retransmission_timeout queues: send_init, send_cookie_echo. *)
Retransmission(p, t) ==
    CASE t = "T1Init" /\ stored_init[p]          -> {Packet("INIT", Other(p))}
      [] t = "T1Cookie" /\ stored_cookie_echo[p] -> {Packet("COOKIE_ECHO", Other(p))}
      [] OTHER -> {}

timeout_T1(p, t) ==
    /\ t \in timers[p]
    /\ ~Exhausted(Expiries(p, t))
    /\ retrans' = [retrans EXCEPT ![p] = [@ EXCEPT ![t] = Expiries(p, t)]]
    /\ Queue(p, Retransmission(p, t))
    /\ UNCHANGED <<state, handshake, timers, will_send, transfer, error,
                   last_event, routing, net>>

(* on_retransmission_failure: the timer stays off, the state unchanged. *)
failure_T1(p, t) ==
    /\ t \in timers[p]
    /\ Exhausted(Expiries(p, t))
    /\ retrans' = [retrans EXCEPT ![p] = [@ EXCEPT ![t] = Expiries(p, t)]]
    /\ timers' = [timers EXCEPT ![p] = @ \ {t}]
    /\ error' = [error EXCEPT ![p] = TRUE]
    /\ UNCHANGED <<state, handshake, will_send, control_queue, transfer,
                   last_event, routing, net>>

(* Mutant: the SHUTDOWN-ACK is never repeated. *)
timeout_T2_initiator(p) ==
    /\ "T2Shutdown" \in timers[p]
    /\ will_send' = [will_send EXCEPT ![p] = @ \cup
                       IF state[p] = "ShutdownSent" THEN {"SHUTDOWN"} ELSE {}]
    /\ UNCHANGED <<state, handshake, timers, retrans, control_queue, transfer,
                   error, last_event, routing, net>>

timeout_T2(p) ==
    /\ "T2Shutdown" \in timers[p]
    /\ will_send' = [will_send EXCEPT ![p] = @ \cup
                       CASE state[p] = "ShutdownSent"    -> {"SHUTDOWN"}
                         [] state[p] = "ShutdownAckSent" -> {"SHUTDOWN_ACK"}
                         [] OTHER                        -> {}]
    /\ UNCHANGED <<state, handshake, timers, retrans, control_queue, transfer,
                   error, last_event, routing, net>>

-----------------------------------------------------------------------------
(* Association::poll once the queued events are taken: a handshake failure *)
(* comes last.  The other events count as told when they are queued.       *)
poll(p) ==
    /\ error[p]
    /\ error' = [error EXCEPT ![p] = FALSE]
    /\ last_event' = [last_event EXCEPT ![p] = "HandshakeFailed"]
    /\ UNCHANGED <<state, handshake, timers, retrans, will_send, control_queue,
                   transfer, routing, net>>

write(p) ==
    /\ p \in MayWrite
    /\ state[p] = "Established"
    /\ data[p] = "none"
    /\ data' = [data EXCEPT ![p] = "pending"]
    /\ UNCHANGED <<state, handshake, timers, retrans, will_send, control_queue,
                   ack_state, error, last_event, routing, net>>

(* shutdown goes through ShutdownPending to ShutdownSent in one call: the  *)
(* inflight_queue_length it tests is never assigned and stays 0.           *)
shutdown(p) ==
    /\ p \in MayShutdown
    /\ state[p] = "Established"
    /\ state' = [state EXCEPT ![p] = "ShutdownSent"]
    /\ will_send' = [will_send EXCEPT ![p] = @ \cup {"SHUTDOWN"}]
    /\ endpoint_events' = [endpoint_events EXCEPT ![p] = TRUE]
    /\ UNCHANGED <<handshake, timers, retrans, control_queue, transfer, error,
                   last_event, endpoint, net>>

close(p) ==
    /\ p \in MayClose
    /\ state[p] # "Closed"
    /\ CloseWith(p, {})
    /\ UNCHANGED <<routing, net>>

(* poll_endpoint_event by the application, and Endpoint::handle_event. *)
handle_endpoint_event(p) ==
    /\ p \in MayForward
    /\ endpoint_events[p]
    /\ endpoint[p] = "routed"
    /\ endpoint_events' = [endpoint_events EXCEPT ![p] = FALSE]
    /\ endpoint' = [endpoint EXCEPT ![p] = "removed"]
    /\ UNCHANGED <<state, handshake, timers, retrans, will_send, control_queue,
                   transfer, error, last_event, net>>

(* The network forgets a datagram. *)
Lose(packet) ==
    /\ MayLose
    /\ packet \in net
    /\ net' = net \ {packet}
    /\ UNCHANGED <<state, handshake, timers, retrans, will_send, control_queue,
                   transfer, error, last_event, routing>>

Receive(p) ==
    \/ handle_init(p) \/ handle_init_unexpected(p) \/ handle_init_ack(p)
    \/ handle_cookie_echo(p) \/ handle_duplicate_cookie_echo(p)
    \/ handle_cookie_ack(p)
    \/ handle_data(p) \/ abort_receive_capacity(p) \/ handle_abort(p)
    \/ handle_sack(p)
    \/ handle_shutdown(p) \/ handle_shutdown_ack(p)
    \/ handle_shutdown_complete(p)

handle_timeout(p) ==
    \/ \E t \in T1Timers : timeout_T1(p, t) \/ failure_T1(p, t)
    \/ timeout_T2(p)

Application(p) ==
    \/ poll(p) \/ write(p) \/ shutdown(p) \/ close(p) \/ handle_endpoint_event(p)

Next ==
    \/ \E p \in Peers : \/ Receive(p)
                        \/ handle_timeout(p)
                        \/ poll_transmit(p)
                        \/ Application(p)
    \/ \E packet \in net : Lose(packet)

Spec == Init /\ [][Next]_vars

(* The driver of the library polls for output and serves the timers; now   *)
(* and then it polls until nothing is left before T2 expires again; the    *)
(* network delivers a datagram that is sent over and over.                 *)
SendsComplete(p) ==
    /\ "SHUTDOWN_COMPLETE" \in will_send[p]
    /\ poll_transmit(p)
    /\ "SHUTDOWN_COMPLETE" \notin will_send'[p]

Fairness ==
    /\ \A p \in Peers :
        /\ WF_vars(poll_transmit(p))
        /\ WF_vars(\E t \in T1Timers : timeout_T1(p, t))
        /\ WF_vars(timeout_T2(p))
    /\ SF_vars(handle_init("server"))
    /\ SF_vars(handle_init_ack("client"))
    /\ SF_vars(handle_cookie_echo("server") \/ handle_duplicate_cookie_echo("server"))
    /\ SF_vars(handle_cookie_ack("client"))
    /\ SF_vars(handle_shutdown("server"))
    /\ SF_vars(handle_shutdown_ack("client"))
    /\ SF_vars(SendsComplete("client"))
    /\ SF_vars(handle_shutdown_complete("server"))

FairSpec == Spec /\ Fairness
-----------------------------------------------------------------------------
(* A running timer always has something to do when it expires: T1-init has *)
(* the stored INIT and T1-cookie the stored COOKIE-ECHO to resend, in the  *)
(* one state that waits for the answer, so that send_init and              *)
(* send_cookie_echo never fail with their "not stored" errors; and         *)
(* T2-shutdown runs during a shutdown only.                                *)
TimerDiscipline ==
    \A p \in Peers :
        /\ "T1Init" \in timers[p] => state[p] = "CookieWait" /\ stored_init[p]
        /\ "T1Cookie" \in timers[p] =>
              state[p] = "CookieEchoed" /\ stored_cookie_echo[p]
        /\ "T2Shutdown" \in timers[p] => is_closing(state[p])

(* The client completes the handshake only after the server has: whatever  *)
(* is lost, repeated or reordered, a client that reports Connected has a   *)
(* peer whose handle_cookie_echo accepted its cookie.                      *)
HandshakeAgreement ==
    handshake_completed["client"] => handshake_completed["server"]

(* The events tell the application the truth: Connected is not the last    *)
(* word about an association that is closed or still handshaking, and      *)
(* AssociationLost is not the last word about one that is up.  So a        *)
(* repeated COOKIE-ECHO, COOKIE-ACK or close reports nothing twice.        *)
EventsMatchState ==
    \A p \in Peers :
        IF AcceptsInit(state[p]) THEN last_event[p] # "Connected"
                                 ELSE last_event[p] # "AssociationLost"

(* An association that did not itself call shutdown acknowledges the       *)
(* peer's SHUTDOWN only when its own DATA in flight has been acknowledged: *)
(* handle_shutdown waits in ShutdownReceived for postprocess_sack.         *)
ResponderDrains ==
    \A p \in Peers :
        /\ state[p] = "ShutdownAckSent"
        /\ ~endpoint_events[p]
        /\ endpoint[p] = "routed"
        => data[p] # "inflight"

(* A server that a SHUTDOWN-COMPLETE may close has a client that is done:  *)
(* handle_shutdown_complete never leaves the client Established alone.     *)
NoHalfOpenShutdown ==
    Packet("SHUTDOWN_COMPLETE", "server") \in net =>
        state["client"] \in {"ShutdownSent", "ShutdownAckSent", "Closed"}

(* Closed is final at the client: no late INIT-ACK, COOKIE-ACK or timer    *)
(* brings a client association back.                                       *)
ClientClosedIsFinal ==
    [][state["client"] = "Closed" => state'["client"] = "Closed"]_vars

(* The handshake is never given up while T1 is unlimited: both ends report *)
(* the association established, however many datagrams are lost, and even  *)
(* when a late copy of the INIT closes the server in the middle of it.     *)
HandshakeCompletes == <>(\A p \in Peers : handshake_completed[p])

(* From a call of shutdown at the client, the server gets closed: lost     *)
(* SHUTDOWNs and SHUTDOWN-ACKs are repeated by T2, and each repeated       *)
(* SHUTDOWN-ACK draws another SHUTDOWN-COMPLETE.                           *)
JustShutDown(p) ==
    state[p] = "ShutdownSent" /\ will_send[p] = {"SHUTDOWN"} /\ timers[p] = {}

ResponderCloses == JustShutDown("client") ~> state["server"] = "Closed"

-----------------------------------------------------------------------------
(* A statement of a comment that the code does not meet.                   *)

(* shutdown: "No more outstanding, send shutdown."  A SHUTDOWN leaves only *)
(* when all DATA the application wrote has been acknowledged.              *)
ShutdownWaitsForData ==
    \A p \in Peers : state[p] = "ShutdownSent" => data[p] \in {"none", "acked"}
=============================================================================
