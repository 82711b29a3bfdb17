------------------------ MODULE MessageStream_proofs ------------------------
(***************************************************************************)
(* What the abstract stream promises, for any messages: what a reader of   *)
(* the refinement ImplementsStream of Reassembly may conclude from it.     *)
(***************************************************************************)
EXTENDS MessageStream, SequenceTheorems, TLAPS

StreamType ==
  /\ sent \subseteq Nat /\ ordered \subseteq sent
  /\ log \in Seq(sent)

Inv == StreamType /\ OnceAndInOrder /\ NonePassedOver

(* What is read after one more message. *)
LEMMA ReadAppended ==
  ASSUME NEW m \in sent, log \in Seq(sent), log' = Append(log, m)
  PROVE  /\ DOMAIN log' = 1 .. Len(log) + 1
         /\ \A i \in 1 .. Len(log) : log'[i] = log[i]
         /\ log'[Len(log) + 1] = m
         /\ log' \in Seq(sent)
         /\ Read' = Read \cup {m}
<1>1. /\ Len(log) \in Nat /\ DOMAIN log = 1 .. Len(log)
      /\ DOMAIN log' = 1 .. Len(log) + 1
      /\ \A i \in 1 .. Len(log) : log'[i] = log[i]
      /\ log'[Len(log) + 1] = m
      /\ log' \in Seq(sent)
  OBVIOUS
<1>2. Read' = Read \cup {m}
  BY <1>1 DEF Read
<1> QED  BY <1>1, <1>2

(* A read keeps the promise. *)
LEMMA ReadKeeps ==
  ASSUME Inv, NEW m \in sent, ReadMessage(m)
  PROVE  Inv'
<1>1. /\ DOMAIN log = 1 .. Len(log) /\ Len(log) \in Nat
      /\ DOMAIN log' = 1 .. Len(log) + 1
      /\ \A i \in 1 .. Len(log) : log'[i] = log[i]
      /\ log'[Len(log) + 1] = m
      /\ log' \in Seq(sent)
      /\ Read' = Read \cup {m}
  BY ReadAppended DEF Inv, StreamType, ReadMessage
<1>2. StreamType'
  BY <1>1 DEF Inv, StreamType, ReadMessage
<1>3. \A i \in DOMAIN log : log[i] \in Read /\ log[i] \in Nat
  <2>1. \A i \in DOMAIN log : log[i] \in Read
    BY DEF Read
  <2>2. \A i \in 1 .. Len(log) : log[i] \in sent
    BY DEF Inv, StreamType
  <2> QED  BY <1>1, <2>1, <2>2 DEF Inv, StreamType
<1>4. \A i \in DOMAIN log :
        log[i] # m /\ (log[i] \in ordered /\ m \in ordered => log[i] < m)
  <2> SUFFICES ASSUME NEW i \in DOMAIN log
               PROVE  /\ log[i] # m
                      /\ log[i] \in ordered /\ m \in ordered => log[i] < m
    OBVIOUS
  <2>1. log[i] # m
    BY <1>3 DEF ReadMessage
  <2>2. ASSUME log[i] \in ordered, m \in ordered PROVE ~(log[i] > m)
    BY <1>3, <2>2 DEF ReadMessage
  <2>3. m \in Nat /\ log[i] \in Nat
    BY <1>3 DEF Inv, StreamType
  <2> QED  BY <2>1, <2>2, <2>3
<1>5. OnceAndInOrder'
  <2> SUFFICES ASSUME NEW i \in DOMAIN log', NEW j \in DOMAIN log', i < j
               PROVE  /\ log'[i] # log'[j]
                      /\ log'[i] \in ordered /\ log'[j] \in ordered => log'[i] < log'[j]
    BY DEF OnceAndInOrder, ReadMessage
  <2>1. i \in 1 .. Len(log)
    BY <1>1
  <2>2. CASE j \in 1 .. Len(log)
    BY <1>1, <2>1, <2>2 DEF Inv, OnceAndInOrder
  <2>3. CASE j = Len(log) + 1
    BY <1>1, <1>4, <2>1, <2>3
  <2> QED  BY <1>1, <2>2, <2>3
<1>6. NonePassedOver'
  BY <1>1 DEF NonePassedOver, Inv, ReadMessage
<1> QED  BY <1>2, <1>5, <1>6 DEF Inv

(* The promise is kept by every step. *)
LEMMA StreamStep == Inv /\ [Next]_vars => Inv'
<1> SUFFICES ASSUME Inv, [Next]_vars PROVE Inv'
  OBVIOUS
<1>1. ASSUME NEW m \in sent, ReadMessage(m) PROVE Inv'
  BY <1>1, ReadKeeps
<1>2. ASSUME NEW m \in sent, GiveUp(m) PROVE Inv'
  BY <1>2 DEF Inv, StreamType, OnceAndInOrder, NonePassedOver, Read, GiveUp
<1>3. CASE UNCHANGED vars
  BY <1>3 DEF Inv, StreamType, OnceAndInOrder, NonePassedOver, Read, vars
<1> QED  BY <1>1, <1>2, <1>3 DEF Next

(* Every behaviour of the abstract stream, and so of the reassembly queue   *)
(* that implements it, reads no message twice, the ordered ones in the      *)
(* order they were written, and passes over none that was not given up.     *)
THEOREM StreamPromise == Spec => [](OnceAndInOrder /\ NonePassedOver)
<1>1. Init => Inv
  BY DEF Init, Inv, StreamType, OnceAndInOrder, NonePassedOver, Read
<1>2. Inv => OnceAndInOrder /\ NonePassedOver
  BY DEF Inv
<1> QED  BY <1>1, <1>2, StreamStep, PTL DEF Spec
=============================================================================
