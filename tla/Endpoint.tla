------------------------------ MODULE Endpoint ------------------------------
(***************************************************************************)
(* endpoint/mod.rs: the slab of associations, the two tables that route    *)
(* datagrams to them, and the events that remove them.                     *)
(*                                                                         *)
(* Left out: that an id drawn at random is 0, or that the one connect      *)
(* draws to stand for its peer (Nobody) is a real peer's tag, each of      *)
(* probability 2^-32; an INIT with a verification tag, which no peer       *)
(* sends; an endpoint without a server configuration, where the first INIT *)
(* panics.                                                                 *)
(***************************************************************************)
EXTENDS Naturals, FiniteSets

CONSTANTS
    Aids,                       \* association ids, 1..u32::MAX
    NoTag,                      \* the verification tag 0
    Nobody,                     \* the random id that stands for connect's peer
    Handles,                    \* slab keys
    ConcurrentAssociations,     \* ServerConfig::concurrent_associations
    MaxOpened                   \* bound: associations ever created

ASSUME EndpointAssumption ==
    /\ IsFiniteSet(Aids) /\ Aids # {}
    /\ Nobody \notin Aids
    /\ NoTag \notin Aids
    /\ ConcurrentAssociations \in Nat
    /\ MaxOpened \in Nat

VARIABLES
    associations,               \* Slab<AssociationMeta>: key to meta
    association_ids,            \* verification tag to slab key
    association_ids_init,       \* peer's initiate tag to slab key
    reject_new_associations,
    opened,                     \* how many associations there have been
    events,                     \* Drained events the application has polled
    handled                     \* the datagram of this step, and who got it

vars == <<associations, association_ids, association_ids_init,
          reject_new_associations, opened, events, handled>>

(* uid tells associations apart that have used the same slab key. *)
AssociationMeta ==
    [uid: 1..MaxOpened, init_cid: Aids \cup {Nobody}, loc_cid: Aids]

(* What the association in slot h is to the rest of the world. *)
Abstract(h) ==
    [uid |-> associations[h].uid, tag |-> associations[h].loc_cid,
     init |-> associations[h].init_cid]

TypeOK ==
    /\ DOMAIN associations \subseteq Handles
    /\ associations \in [DOMAIN associations -> AssociationMeta]
    /\ DOMAIN association_ids \subseteq Aids
    /\ association_ids \in [DOMAIN association_ids -> Handles]
    /\ DOMAIN association_ids_init \subseteq Aids
    /\ association_ids_init \in [DOMAIN association_ids_init -> Handles]
    /\ reject_new_associations \in BOOLEAN
    /\ opened \in 0..MaxOpened
    /\ events \subseteq Handles \X (1..MaxOpened)
    /\ handled \in [kind: {"none", "tagged", "INIT"}, tag: Aids \cup {NoTag},
                    to: SUBSET [uid: 1..MaxOpened, tag: Aids,
                                init: Aids \cup {Nobody}]]

Empty == [k \in {} |-> 0]

Insert(table, key, value) ==
    [k \in DOMAIN table \cup {key} |-> IF k = key THEN value ELSE table[k]]

Delete(table, key) == [k \in DOMAIN table \ {key} |-> table[k]]

Handling(kind, tag, to) == [kind |-> kind, tag |-> tag, to |-> to]

Quiet == Handling("none", NoTag, {})

Init ==
    /\ associations = Empty
    /\ association_ids = Empty
    /\ association_ids_init = Empty
    /\ reject_new_associations = FALSE
    /\ opened = 0
    /\ events = {}
    /\ handled = Quiet

-----------------------------------------------------------------------------
(* Mutant: the two shares are not different ones. *)
IsFull_all ==
    Cardinality(Aids) \div 2 + Cardinality(Aids) \div 2
        < Cardinality(DOMAIN association_ids)

(* is_full: 3/4 of the ids are in use. *)
IsFull ==
    Cardinality(Aids) \div 2 + Cardinality(Aids) \div 4
        < Cardinality(DOMAIN association_ids)

(* new_aid draws until it finds an id that is not in use. *)
NewAid == Aids \ DOMAIN association_ids

(* Slab::insert takes a key that is not in use, and add_association enters *)
(* the new association under its own tag.  handle_first_packet and         *)
(* connect_with_snap enter it under the peer's tag as well; connect, which *)
(* does not know the peer's tag, leaves it at that.                        *)
AddAssociation(h, remote_aid, local_aid) ==
    /\ opened < MaxOpened
    /\ h \in Handles \ DOMAIN associations
    /\ opened' = opened + 1
    /\ associations' = Insert(associations, h,
                        [uid |-> opened + 1, init_cid |-> remote_aid,
                         loc_cid |-> local_aid])
    /\ association_ids' = Insert(association_ids, local_aid, h)
    /\ association_ids_init' = IF remote_aid = Nobody
                               THEN association_ids_init
                               ELSE Insert(association_ids_init, remote_aid, h)

Connect(h, local_aid) ==
    /\ ~IsFull
    /\ local_aid \in NewAid
    /\ AddAssociation(h, Nobody, local_aid)
    /\ handled' = Quiet
    /\ UNCHANGED <<reject_new_associations, events>>

(* The collision checks of connect_with_snap.  A token that does not parse,*)
(* is too large, is an INIT-ACK or carries a zero is refused before them.  *)
SnapAccepted(local_aid, remote_aid) ==
    /\ local_aid # remote_aid
    /\ {local_aid, remote_aid} \cap DOMAIN association_ids = {}
    /\ {local_aid, remote_aid} \cap DOMAIN association_ids_init = {}

ConnectWithSnap(h, local_aid, remote_aid) ==
    /\ ~IsFull
    /\ SnapAccepted(local_aid, remote_aid)
    /\ AddAssociation(h, remote_aid, local_aid)
    /\ handled' = Quiet
    /\ UNCHANGED <<reject_new_associations, events>>

-----------------------------------------------------------------------------
(* Mutant: the tag is looked up in the table of the peers' tags. *)
HandleTagged_wrong_table(vtag) ==
    /\ handled' = Handling("tagged", vtag,
                           IF vtag \in DOMAIN association_ids_init
                           THEN {Abstract(association_ids_init[vtag])}
                           ELSE {})
    /\ UNCHANGED <<associations, association_ids, association_ids_init,
                   reject_new_associations, opened, events>>

(* handle: a datagram with a verification tag goes where the tag says; one *)
(* without that is not an INIT, or whose tag is unknown, is dropped.       *)
HandleTagged(vtag) ==
    /\ handled' = Handling("tagged", vtag,
                           IF vtag \in DOMAIN association_ids
                           THEN {Abstract(association_ids[vtag])}
                           ELSE {})
    /\ UNCHANGED <<associations, association_ids, association_ids_init,
                   reject_new_associations, opened, events>>

(* handle of an INIT whose initiate tag is known. *)
HandleKnownInit(itag) ==
    /\ itag \in DOMAIN association_ids_init
    /\ handled' = Handling("INIT", itag, {Abstract(association_ids_init[itag])})
    /\ UNCHANGED <<associations, association_ids, association_ids_init,
                   reject_new_associations, opened, events>>

Refusing ==
    \/ Cardinality(DOMAIN associations) >= ConcurrentAssociations
    \/ reject_new_associations
    \/ IsFull

(* handle_first_packet of an INIT whose initiate tag is not known. *)
HandleFirstPacket(itag) ==
    /\ itag \notin DOMAIN association_ids_init
    /\ \/ /\ Refusing
          /\ handled' = Handling("INIT", itag, {})
          /\ UNCHANGED <<associations, association_ids, association_ids_init,
                         opened>>
       \/ /\ ~Refusing
          /\ \E h \in Handles, local_aid \in NewAid :
                 /\ AddAssociation(h, itag, local_aid)
                 /\ handled' = Handling("INIT", itag,
                                  {[uid |-> opened + 1, tag |-> local_aid,
                                    init |-> itag]})
    /\ UNCHANGED <<reject_new_associations, events>>

RejectNewAssociations ==
    /\ ~reject_new_associations
    /\ reject_new_associations' = TRUE
    /\ handled' = Quiet
    /\ UNCHANGED <<associations, association_ids, association_ids_init, opened,
                   events>>

-----------------------------------------------------------------------------
(* Mutant: the event is raised again for an association that has been      *)
(* drained, and names a slot that may have a new tenant.                   *)
Drained_again(h, uid) == uid \in 1..opened

(* An association leaves its slot once: it has shut down, or the           *)
(* application drops it.  uid is still the tenant of h.                    *)
Drained(h, uid) == h \in DOMAIN associations /\ associations[h].uid = uid

(* shutdown pushes Drained, which the application polls with               *)
(* poll_endpoint_event, or the application makes the event with            *)
(* EndpointEvent::drained; once for an association.  Until the application *)
(* hands it to the endpoint, datagrams and other associations come first.  *)
RaiseDrained(h, uid) ==
    /\ Drained(h, uid)
    /\ events' = events \cup {<<h, uid>>}
    /\ handled' = Quiet
    /\ UNCHANGED <<associations, association_ids, association_ids_init,
                   reject_new_associations, opened>>

(* Mutant: the route of the peer's INIT is left behind. *)
HandleEvent_init_left(h, uid) ==
    /\ <<h, uid>> \in events
    /\ h \in DOMAIN associations
    /\ associations' = Delete(associations, h)
    /\ association_ids' = Delete(association_ids, associations[h].loc_cid)
    /\ events' = events \ {<<h, uid>>}
    /\ handled' = Quiet
    /\ UNCHANGED <<association_ids_init, reject_new_associations, opened>>

(* handle_event: the slot is vacated and the entries its meta names are    *)
(* removed.  Slab::remove panics when the slot is vacant.                  *)
HandleEvent(h, uid) ==
    /\ <<h, uid>> \in events
    /\ h \in DOMAIN associations
    /\ associations' = Delete(associations, h)
    /\ association_ids_init' = Delete(association_ids_init, associations[h].init_cid)
    /\ association_ids' = Delete(association_ids, associations[h].loc_cid)
    /\ events' = events \ {<<h, uid>>}
    /\ handled' = Quiet
    /\ UNCHANGED <<reject_new_associations, opened>>

Next ==
    \/ \E h \in Handles, local_aid \in Aids :
           \/ Connect(h, local_aid)
           \/ \E remote_aid \in Aids : ConnectWithSnap(h, local_aid, remote_aid)
    \/ \E vtag \in Aids \cup {NoTag} : HandleTagged(vtag)
    \/ \E itag \in Aids : HandleKnownInit(itag) \/ HandleFirstPacket(itag)
    \/ RejectNewAssociations
    \/ \E h \in Handles, uid \in 1..MaxOpened :
           RaiseDrained(h, uid) \/ HandleEvent(h, uid)

Spec == Init /\ [][Next]_vars

-----------------------------------------------------------------------------
(* The two tables say what the slab says: every association is entered     *)
(* under its own tag and, unless connect made it, under its peer's, no     *)
(* entry leads to a vacant slot or to another association.  So two         *)
(* associations never share a verification tag, and one at a time answers  *)
(* a peer's INIT, however often and however late it is repeated (connect,  *)
(* connect_with_snap, handle_first_packet and handle_event together).      *)
RoutesExact ==
    /\ DOMAIN association_ids =
           {associations[h].loc_cid : h \in DOMAIN associations}
    /\ DOMAIN association_ids_init =
           {associations[h].init_cid : h \in DOMAIN associations} \ {Nobody}
    /\ \A h \in DOMAIN associations :
           /\ association_ids[associations[h].loc_cid] = h
           /\ associations[h].init_cid # Nobody =>
                  association_ids_init[associations[h].init_cid] = h

(* A Drained event that waits to be handled names a slot that still holds  *)
(* the association it is about: Slab::remove does not panic, and a slot    *)
(* that has been used again does not lose its new tenant.                  *)
EventsNameTheirTenant ==
    \A e \in events : e[1] \in DOMAIN associations /\ associations[e[1]].uid = e[2]

(* The loop of new_aid ends: whenever an association is about to be made,  *)
(* some id is free.                                                        *)
NewAidTerminates == ~IsFull => NewAid # {}

(* The endpoint with its slab and its tables does what the router does     *)
(* that looks at the associations themselves.                              *)
Routing == INSTANCE Router WITH
    Uids <- 1..MaxOpened,
    live <- {Abstract(h) : h \in DOMAIN associations}

ImplementsRouter == Routing!Spec
=============================================================================
