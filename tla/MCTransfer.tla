----------------------------- MODULE MCTransfer -----------------------------
(* Small instances of Transfer for TLC. *)
EXTENDS Transfer

M(stream, unordered, policy, fragments) ==
  [stream |-> stream, unordered |-> unordered, policy |-> policy,
   fragments |-> fragments]

S(script, windows, cwnd, sacks, early) ==
  [script |-> script, windows |-> windows, cwnd |-> cwnd, sacks |-> sacks,
   early |-> early]

\* A deadline passes before, between or after the fragments of a message, with
\* an ordered message behind it on the stream or before it on another
Deadlines ==
  {S(<<M(1, FALSE, "timed", 2), M(1, FALSE, "reliable", 1)>>, {0, 3}, 2, 1, FALSE),
   S(<<M(1, FALSE, "reliable", 2), M(2, TRUE, "timed", 1)>>, {0, 3}, 2, 1, FALSE)}

\* Enough fragments for three reports that one is missing; in the second also
\* SACKs that overtake each other
Losses ==
  {S(<<M(1, FALSE, "reliable", 4)>>, {4}, 4, 1, FALSE),
   S(<<M(1, FALSE, "rexmit", 4)>>, {4}, 4, 2, FALSE)}

MCScenarios == Deadlines \cup Losses

\* A write of no bytes, or a write that is refused, before one of some
UnsentScenarios ==
  {S(<<M(1, FALSE, "reliable", 0), M(1, FALSE, "reliable", 1)>>, {3}, 3, 1, FALSE),
   S(<<M(1, FALSE, "reliable", 1), M(1, FALSE, "reliable", 1)>>, {3}, 3, 1, TRUE)}

\* One message that must arrive and one that may be given up
LiveScenarios ==
  {S(<<M(1, FALSE, "rexmit", 1), M(1, FALSE, "reliable", 1)>>, {0, 2}, 2, 1, TRUE)}
=============================================================================
