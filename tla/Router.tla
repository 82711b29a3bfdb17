------------------------------- MODULE Router -------------------------------
(***************************************************************************)
(* What an Endpoint promises, without its tables: a set of associations,   *)
(* and for every datagram the association it belongs to, found by looking  *)
(* at the associations themselves.                                         *)
(***************************************************************************)
EXTENDS Naturals

CONSTANTS Uids,       \* identities of associations
          Aids,       \* association ids
          NoTag,      \* the tag of a packet that names no association
          Nobody      \* the id of a peer that has not been heard of

VARIABLES live,       \* the associations: identity, own tag, peer's tag
          handled     \* the datagram of this step, and who got it

vars == <<live, handled>>

Association ==
    [uid: Uids, tag: Aids, init: Aids \cup {Nobody}]

(* The association that owns a verification tag. *)
Owner(vtag) == {a \in live : a.tag = vtag}

(* The association an INIT with this initiate tag has been answered by. *)
Answering(itag) == {a \in live : a.init = itag}

(* A step that is about no datagram, and one about a datagram. *)
Quiet == [kind |-> "none", tag |-> NoTag, to |-> {}]
Handled(kind, tag, to) == handled' = [kind |-> kind, tag |-> tag, to |-> to]

Init == live = {} /\ handled = Quiet

(* An association that is new in every respect a datagram could tell. *)
Open(a) ==
    /\ \A b \in live : a.uid # b.uid /\ a.tag # b.tag
    /\ a.init # Nobody => Answering(a.init) = {}
    /\ live' = live \cup {a}

Connect(a) == Open(a) /\ handled' = Quiet

Deliver(vtag) == Handled("tagged", vtag, Owner(vtag)) /\ UNCHANGED live

DeliverInit(itag) ==
    \/ Handled("INIT", itag, Answering(itag)) /\ UNCHANGED live
    \/ \E a \in Association :
           a.init = itag /\ Open(a) /\ Handled("INIT", itag, {a})

Remove(a) == a \in live /\ live' = live \ {a} /\ handled' = Quiet

Next ==
    \/ \E a \in Association : Connect(a)
    \/ \E t \in Aids \cup {NoTag} : Deliver(t)
    \/ \E t \in Aids : DeliverInit(t)
    \/ \E a \in live : Remove(a)
    \/ UNCHANGED live /\ handled' = Quiet

Spec == Init /\ [][Next]_vars
=============================================================================
