---------------------------- MODULE MCReassembly ----------------------------
(* Small instances of Reassembly for TLC. *)
EXTENDS Reassembly

\* The fragments of message m
Message(m, unordered, ssn, fragments, partial) ==
  [i \in 1 .. fragments |->
     [message |-> m, unordered |-> unordered, ssn |-> ssn, partial |-> partial,
      beginning |-> i = 1, ending |-> i = fragments]]

\* Ordered and unordered messages, some given up, one larger than the buffer
\* and one larger than a message may be
MixedLayouts ==
  {Message(1, FALSE, 0, 2, TRUE) \o Message(2, TRUE, 1, 2, TRUE)
     \o Message(3, FALSE, 1, 1, FALSE) \o Message(4, FALSE, 2, 1, TRUE),
   Message(1, TRUE, 0, 3, FALSE) \o Message(2, TRUE, 0, 3, TRUE)
     \o Message(3, FALSE, 0, 1, TRUE),
   Message(1, FALSE, 0, 4, TRUE) \o Message(2, FALSE, 1, 2, FALSE),
   Message(1, TRUE, 0, 1, FALSE) \o Message(2, TRUE, 0, 5, TRUE)}

\* Single chunks until the SSNs have come round, some of which may be given up
RoundLayout ==
  [i \in 1 .. 2 * HalfSsn + 1 |->
     Message(i, FALSE, (i - 1) % (2 * HalfSsn), 1, i \in {2, 2 * HalfSsn})[1]]

MCLayouts == MixedLayouts \cup {RoundLayout}
=============================================================================
