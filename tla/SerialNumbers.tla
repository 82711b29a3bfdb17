--------------------------- MODULE SerialNumbers ---------------------------
(***************************************************************************)
(* RFC 1982 serial numbers as src/util.rs compares them and as the         *)
(* association steps them (wrapping_add, wrapping_sub).  A transmission    *)
(* sequence number (TSN) has 32 bits in the code, so Half is 2^31 there;   *)
(* here Half is a parameter, and the comparisons are the code's with       *)
(* 1 << (BITS - 1) replaced by Half.                                       *)
(***************************************************************************)
EXTENDS Integers

CONSTANT Half          \* half of the serial number space

ASSUME HalfAssumption == Half \in Nat /\ Half > 1

Tsn == 0 .. 2 * Half - 1

\* t.wrapping_add(n), for n at most the size of the space
Plus(t, n) == IF t + n < 2 * Half THEN t + n ELSE t + n - 2 * Half

\* t.wrapping_sub(u): how far t lies ahead of u
Minus(t, u) == IF u <= t THEN t - u ELSE t - u + 2 * Half

sna32lt(a, b) == (a < b /\ b - a < Half) \/ (a > b /\ a - b > Half)

sna32lte(a, b) == a = b \/ sna32lt(a, b)

sna32gt(a, b) == (a < b /\ b - a >= Half) \/ (a > b /\ a - b <= Half)

\* The last element of a set of TSNs in the order the queues are sorted by
LastOf(S) == CHOOSE t \in S : \A u \in S : sna32lte(u, t)

(***************************************************************************)
(* How many consecutive TSNs after t lie in S: what a loop that steps a    *)
(* TSN while the next one is in a queue counts.                            *)
(***************************************************************************)
RunLength(t, S) ==
  CHOOSE k \in 0 .. 2 * Half - 1 :
    /\ \A j \in 1 .. k : Plus(t, j) \in S
    /\ Plus(t, k + 1) \notin S
=============================================================================
