--------------------------- MODULE MessageStream ---------------------------
(***************************************************************************)
(* What one stream promises the application that reads it, with nothing    *)
(* of TSNs, fragments, buffers or SSNs: each message is read whole and at  *)
(* most once, and the ordered ones in the order they were written, none    *)
(* left out but the ones the sender gave up.                               *)
(***************************************************************************)
EXTENDS Naturals, Sequences

VARIABLES
  sent,        \* the messages written, as their numbers in that order
  ordered,     \* the ones among them that are ordered
  given_up,    \* the ones the sender has given up
  log          \* the ones read

Read == {log[i] : i \in DOMAIN log}

Init ==
  /\ sent \subseteq Nat /\ ordered \subseteq sent
  /\ given_up = {} /\ log = <<>>

\* An ordered message comes after every ordered one before it that is still
\* wanted, and before every ordered one behind it
ReadMessage(m) ==
  /\ m \notin Read
  /\ m \in ordered =>
       /\ {n \in ordered : n < m} \subseteq Read \cup given_up
       /\ {n \in ordered : n > m} \cap Read = {}
  /\ log' = Append(log, m)
  /\ UNCHANGED <<sent, ordered, given_up>>

GiveUp(m) ==
  /\ given_up' = given_up \cup {m}
  /\ UNCHANGED <<sent, ordered, log>>

Next == \E m \in sent : ReadMessage(m) \/ GiveUp(m)

vars == <<sent, ordered, given_up, log>>

Spec == Init /\ [][Next]_vars

(* No message is read twice, and the ordered ones come in the order they   *)
(* were written (ReassemblyQueue::read).                                   *)
OnceAndInOrder ==
  \A i, j \in DOMAIN log : i < j =>
    /\ log[i] # log[j]
    /\ log[i] \in ordered /\ log[j] \in ordered => log[i] < log[j]

(* No ordered message is passed over unless the sender gave it up          *)
(* (ReassemblyQueue::forward_tsn_for_ordered).                             *)
NonePassedOver ==
  \A m \in ordered \cap Read :
    {n \in ordered : n < m} \subseteq Read \cup given_up
=============================================================================
