--------------------------- MODULE Endpoint_proofs ---------------------------
(***************************************************************************)
(* The tables of the endpoint are exact, a Drained event finds its         *)
(* association, and the endpoint implements the abstract router, for any   *)
(* sets of ids and slab keys and any number of associations.               *)
(***************************************************************************)
EXTENDS Endpoint, FiniteSetTheorems, TLAPS

(* Identities are handed out once. *)
UidsDistinct ==
    /\ \A h \in DOMAIN associations : associations[h].uid <= opened
    /\ \A g, h \in DOMAIN associations :
           associations[g].uid = associations[h].uid => g = h

Inv == TypeOK /\ RoutesExact /\ EventsNameTheirTenant /\ UidsDistinct

USE EndpointAssumption

-----------------------------------------------------------------------------
(* What makes an association new, from the guards of connect,              *)
(* connect_with_snap and handle_first_packet.                              *)
Fresh(h, remote_aid, local_aid) ==
    /\ AddAssociation(h, remote_aid, local_aid)
    /\ h \in Handles \ DOMAIN associations
    /\ local_aid \in Aids \ DOMAIN association_ids
    /\ remote_aid \in (Aids \ DOMAIN association_ids_init) \cup {Nobody}

(* The slab after a new association is entered. *)
LEMMA AddedSlab ==
    ASSUME NEW h, NEW remote_aid, NEW local_aid,
           Inv, Fresh(h, remote_aid, local_aid)
    PROVE  /\ DOMAIN associations' = DOMAIN associations \cup {h}
           /\ \A g \in DOMAIN associations : associations'[g] = associations[g]
           /\ associations'[h].uid = opened + 1
           /\ associations'[h].init_cid = remote_aid
           /\ associations'[h].loc_cid = local_aid
           /\ associations'[h] \in AssociationMeta
           /\ opened' = opened + 1 /\ opened' \in 1..MaxOpened
  <1>1. opened' = opened + 1 /\ opened + 1 \in 1..MaxOpened
    BY DEF Fresh, AddAssociation, Inv, TypeOK
  <1> DEFINE meta == [uid |-> opened + 1, init_cid |-> remote_aid,
                      loc_cid |-> local_aid]
  <1>2. meta \in AssociationMeta
    BY <1>1 DEF Fresh, AssociationMeta
  <1>3. associations' = Insert(associations, h, meta) /\ h \notin DOMAIN associations
    BY DEF Fresh, AddAssociation
  <1> HIDE DEF meta
  <1>4. /\ DOMAIN associations' = DOMAIN associations \cup {h}
        /\ \A g \in DOMAIN associations : associations'[g] = associations[g]
        /\ associations'[h] = meta
    BY <1>3 DEF Insert
  <1> QED
    BY <1>1, <1>2, <1>4 DEF meta

(* The tables after a new association is entered. *)
LEMMA AddedRoutes ==
    ASSUME NEW h, NEW remote_aid, NEW local_aid,
           Inv, Fresh(h, remote_aid, local_aid)
    PROVE  RoutesExact'
  <1>1. /\ DOMAIN association_ids' = DOMAIN association_ids \cup {local_aid}
        /\ association_ids'[local_aid] = h
        /\ \A k \in DOMAIN association_ids : association_ids'[k] = association_ids[k]
    BY DEF Fresh, AddAssociation, Insert
  <1>2. /\ DOMAIN association_ids_init' =
               DOMAIN association_ids_init \cup ({remote_aid} \ {Nobody})
        /\ remote_aid # Nobody => association_ids_init'[remote_aid] = h
        /\ \A k \in DOMAIN association_ids_init :
               association_ids_init'[k] = association_ids_init[k]
    BY DEF Fresh, AddAssociation, Insert
  <1>7. h \notin DOMAIN associations
    BY DEF Fresh
  <1>3. /\ DOMAIN associations' = DOMAIN associations \cup {h}
        /\ \A g \in DOMAIN associations : associations'[g] = associations[g]
        /\ associations'[h].loc_cid = local_aid
        /\ associations'[h].init_cid = remote_aid
    BY AddedSlab
  <1>4. DOMAIN association_ids' =
            {associations'[g].loc_cid : g \in DOMAIN associations'}
    BY <1>1, <1>3 DEF Inv, RoutesExact
  <1>5. DOMAIN association_ids_init' =
            {associations'[g].init_cid : g \in DOMAIN associations'} \ {Nobody}
    BY <1>2, <1>3 DEF Inv, RoutesExact
  <1>6. ASSUME NEW g \in DOMAIN associations'
        PROVE  /\ association_ids'[associations'[g].loc_cid] = g
               /\ associations'[g].init_cid # Nobody =>
                      association_ids_init'[associations'[g].init_cid] = g
    <2>1. CASE g = h
      BY <1>1, <1>2, <1>3, <2>1
    <2>2. CASE g # h
      BY <1>1, <1>2, <1>3, <2>2 DEF Inv, RoutesExact
    <2> QED
      BY <2>1, <2>2
  <1> QED
    BY <1>4, <1>5, <1>6 DEF RoutesExact

(* A new association keeps the invariant. *)
LEMMA AddedInv ==
    ASSUME NEW h, NEW remote_aid, NEW local_aid,
           Inv, Fresh(h, remote_aid, local_aid),
           UNCHANGED <<reject_new_associations, events>>
    PROVE  /\ RoutesExact' /\ EventsNameTheirTenant' /\ UidsDistinct'
           /\ handled' \in [kind: {"none", "tagged", "INIT"},
                             tag: Aids \cup {NoTag},
                             to: SUBSET [uid: 1..MaxOpened, tag: Aids,
                                         init: Aids \cup {Nobody}]]
                  => TypeOK'
  <1>1. /\ DOMAIN associations' = DOMAIN associations \cup {h}
        /\ \A g \in DOMAIN associations : associations'[g] = associations[g]
        /\ associations'[h].uid = opened + 1
        /\ associations'[h] \in AssociationMeta
        /\ opened' = opened + 1 /\ opened' \in 1..MaxOpened
    BY AddedSlab
  <1>2. h \in Handles /\ h \notin DOMAIN associations
    BY DEF Fresh
  <1>3. RoutesExact'
    BY AddedRoutes
  <1>4. EventsNameTheirTenant'
    BY <1>1, <1>2 DEF Inv, EventsNameTheirTenant
  <1>5. UidsDistinct'
    <2>1. opened \in Nat /\ \A g \in DOMAIN associations : associations[g].uid \in Nat
      BY DEF Inv, TypeOK, AssociationMeta
    <2> QED
      BY <1>1, <1>2, <2>1 DEF Inv, UidsDistinct
  <1>6. associations' \in [DOMAIN associations' -> AssociationMeta]
    BY <1>1, <1>2 DEF Fresh, AddAssociation, Insert, Inv, TypeOK
  <1>7. /\ DOMAIN association_ids' \subseteq Aids
        /\ association_ids' \in [DOMAIN association_ids' -> Handles]
    BY DEF Fresh, AddAssociation, Insert, Inv, TypeOK
  <1>8. /\ DOMAIN association_ids_init' \subseteq Aids
        /\ association_ids_init' \in [DOMAIN association_ids_init' -> Handles]
    BY DEF Fresh, AddAssociation, Insert, Inv, TypeOK
  <1> QED
    BY <1>1, <1>2, <1>3, <1>4, <1>5, <1>6, <1>7, <1>8 DEF Inv, TypeOK

(* Removing an association keeps the invariant. *)
LEMMA RemovedInv ==
    ASSUME NEW h \in Handles, NEW uid \in 1..MaxOpened, Inv, HandleEvent(h, uid)
    PROVE  Inv'
  <1> DEFINE meta == associations[h]
  <1>1. /\ h \in DOMAIN associations
        /\ DOMAIN associations' = DOMAIN associations \ {h}
        /\ \A g \in DOMAIN associations' : associations'[g] = associations[g]
        /\ opened' = opened
    BY DEF HandleEvent, Delete
  <1>2. /\ DOMAIN association_ids' = DOMAIN association_ids \ {meta.loc_cid}
        /\ \A k \in DOMAIN association_ids' : association_ids'[k] = association_ids[k]
    BY DEF HandleEvent, Delete
  <1>3. /\ DOMAIN association_ids_init' = DOMAIN association_ids_init \ {meta.init_cid}
        /\ \A k \in DOMAIN association_ids_init' :
               association_ids_init'[k] = association_ids_init[k]
    BY DEF HandleEvent, Delete
  <1>4. RoutesExact'
    <2>1. \A g \in DOMAIN associations' :
              /\ g # h
              /\ associations'[g].loc_cid # meta.loc_cid
              /\ associations'[g].init_cid # Nobody =>
                     associations'[g].init_cid # meta.init_cid
      BY <1>1 DEF Inv, RoutesExact
    <2>2. DOMAIN association_ids' =
              {associations'[g].loc_cid : g \in DOMAIN associations'}
      BY <1>1, <1>2, <2>1 DEF Inv, RoutesExact
    <2>3. DOMAIN association_ids_init' =
              {associations'[g].init_cid : g \in DOMAIN associations'} \ {Nobody}
      BY <1>1, <1>3, <2>1 DEF Inv, RoutesExact
    <2>4. ASSUME NEW g \in DOMAIN associations'
          PROVE  /\ association_ids'[associations'[g].loc_cid] = g
                 /\ associations'[g].init_cid # Nobody =>
                        association_ids_init'[associations'[g].init_cid] = g
      BY <1>1, <1>2, <1>3, <2>1, <2>2, <2>3 DEF Inv, RoutesExact
    <2> QED
      BY <2>2, <2>3, <2>4 DEF RoutesExact
  <1>5. EventsNameTheirTenant'
    <2>1. events' = events \ {<<h, uid>>} /\ <<h, uid>> \in events
      BY DEF HandleEvent
    <2>2. ASSUME NEW e \in events'
          PROVE  e[1] \in DOMAIN associations' /\ associations'[e[1]].uid = e[2]
      <3>1. e \in Handles \X (1..MaxOpened) /\ e = <<e[1], e[2]>> /\ e # <<h, uid>>
        BY <2>1 DEF Inv, TypeOK
      <3>2. associations[h].uid = uid /\ associations[e[1]].uid = e[2]
            /\ e[1] \in DOMAIN associations
        BY <2>1 DEF Inv, EventsNameTheirTenant
      <3> QED
        BY <1>1, <3>1, <3>2
    <2> QED
      BY <2>2 DEF EventsNameTheirTenant
  <1>6. UidsDistinct'
    BY <1>1 DEF Inv, UidsDistinct
  <1>7. TypeOK'
    <2>1. handled' \in [kind: {"none", "tagged", "INIT"}, tag: Aids \cup {NoTag},
                        to: SUBSET [uid: 1..MaxOpened, tag: Aids,
                                    init: Aids \cup {Nobody}]]
      BY DEF HandleEvent, Quiet, Handling
    <2> QED
      BY <2>1 DEF HandleEvent, Delete, Inv, TypeOK
  <1> QED
    BY <1>4, <1>5, <1>6, <1>7 DEF Inv

-----------------------------------------------------------------------------
(* What a datagram is handed to is an association of the slab. *)
LEMMA AbstractType ==
    ASSUME NEW h \in DOMAIN associations, Inv
    PROVE  Abstract(h) \in [uid: 1..MaxOpened, tag: Aids, init: Aids \cup {Nobody}]
  BY DEF Abstract, Inv, TypeOK, AssociationMeta

(* Every step keeps the invariant. *)
LEMMA StepInv == Inv /\ [Next]_vars => Inv'
  <1> SUFFICES ASSUME Inv, [Next]_vars PROVE Inv'
    OBVIOUS
  <1> DEFINE Deliveries ==
          [kind: {"none", "tagged", "INIT"}, tag: Aids \cup {NoTag},
           to: SUBSET [uid: 1..MaxOpened, tag: Aids, init: Aids \cup {Nobody}]]
  <1>0. Quiet \in Deliveries
    BY DEF Quiet, Handling
  <1>1. ASSUME NEW h \in Handles, NEW local_aid \in Aids, Connect(h, local_aid)
        PROVE  Inv'
    <2>1. Fresh(h, Nobody, local_aid)
      BY <1>1 DEF Connect, AddAssociation, NewAid, Fresh
    <2>2. handled' \in Deliveries /\ UNCHANGED <<reject_new_associations, events>>
      BY <1>0, <1>1 DEF Connect
    <2> QED
      BY <2>1, <2>2, AddedInv DEF Inv
  <1>2. ASSUME NEW h \in Handles, NEW local_aid \in Aids, NEW remote_aid \in Aids,
               ConnectWithSnap(h, local_aid, remote_aid)
        PROVE  Inv'
    <2>1. Fresh(h, remote_aid, local_aid)
      BY <1>2 DEF ConnectWithSnap, SnapAccepted, AddAssociation, Fresh
    <2>2. handled' \in Deliveries /\ UNCHANGED <<reject_new_associations, events>>
      BY <1>0, <1>2 DEF ConnectWithSnap
    <2> QED
      BY <2>1, <2>2, AddedInv DEF Inv
  <1>3. ASSUME handled' \in Deliveries,
               UNCHANGED <<associations, association_ids, association_ids_init,
                           reject_new_associations, opened, events>>
        PROVE  Inv'
    BY <1>3 DEF Inv, TypeOK, RoutesExact, EventsNameTheirTenant, UidsDistinct
  <1>4. ASSUME NEW vtag \in Aids \cup {NoTag}, HandleTagged(vtag)
        PROVE  Inv'
    <2>1. vtag \in DOMAIN association_ids =>
              association_ids[vtag] \in DOMAIN associations
      BY DEF Inv, RoutesExact
    <2>2. handled' \in Deliveries
      BY <1>4, <2>1, AbstractType DEF HandleTagged, Handling
    <2> QED
      BY <1>3, <1>4, <2>2 DEF HandleTagged
  <1>5. ASSUME NEW itag \in Aids, HandleKnownInit(itag)
        PROVE  Inv'
    <2>1. association_ids_init[itag] \in DOMAIN associations
      BY <1>5 DEF Inv, RoutesExact, HandleKnownInit
    <2>2. handled' \in Deliveries
      BY <1>5, <2>1, AbstractType DEF HandleKnownInit, Handling
    <2> QED
      BY <1>3, <1>5, <2>2 DEF HandleKnownInit
  <1>6. ASSUME NEW itag \in Aids, HandleFirstPacket(itag)
        PROVE  Inv'
    <2>1. CASE Refusing
      <3>1. handled' = Handling("INIT", itag, {})
            /\ UNCHANGED <<associations, association_ids, association_ids_init, opened>>
        BY <1>6, <2>1 DEF HandleFirstPacket
      <3>2. handled' \in Deliveries
        BY <3>1 DEF Handling
      <3> QED
        BY <1>3, <1>6, <3>1, <3>2 DEF HandleFirstPacket
    <2>2. CASE ~Refusing
      <3>1. PICK h \in Handles, local_aid \in NewAid :
                /\ AddAssociation(h, itag, local_aid)
                /\ handled' = Handling("INIT", itag,
                                 {[uid |-> opened + 1, tag |-> local_aid,
                                   init |-> itag]})
        BY <1>6, <2>2 DEF HandleFirstPacket
      <3>2. Fresh(h, itag, local_aid)
        BY <1>6, <3>1 DEF HandleFirstPacket, AddAssociation, NewAid, Fresh
      <3>3. opened + 1 \in 1..MaxOpened
        BY <3>1 DEF AddAssociation, Inv, TypeOK
      <3>4. [uid |-> opened + 1, tag |-> local_aid, init |-> itag]
                \in [uid: 1..MaxOpened, tag: Aids, init: Aids \cup {Nobody}]
        BY <3>3 DEF NewAid
      <3>5. handled' \in Deliveries /\ UNCHANGED <<reject_new_associations, events>>
        BY <1>6, <3>1, <3>4 DEF HandleFirstPacket, Handling
      <3> QED
        BY <3>2, <3>5, AddedInv DEF Inv
    <2> QED
      BY <2>1, <2>2
  <1>7. CASE RejectNewAssociations
    <2>1. handled' \in Deliveries
      BY <1>0, <1>7 DEF RejectNewAssociations
    <2> QED
      BY <1>7, <2>1 DEF RejectNewAssociations, Inv, TypeOK, RoutesExact,
                        EventsNameTheirTenant, UidsDistinct
  <1>8. ASSUME NEW h \in Handles, NEW uid \in 1..MaxOpened, RaiseDrained(h, uid)
        PROVE  Inv'
    <2>1. handled' \in Deliveries
      BY <1>0, <1>8 DEF RaiseDrained
    <2>2. EventsNameTheirTenant'
      BY <1>8 DEF RaiseDrained, Drained, Inv, EventsNameTheirTenant
    <2> QED
      BY <1>8, <2>1, <2>2 DEF RaiseDrained, Inv, TypeOK, RoutesExact, UidsDistinct
  <1>9. CASE UNCHANGED vars
    <2>1. handled' \in Deliveries
      BY <1>9 DEF vars, Inv, TypeOK
    <2> QED
      BY <1>3, <1>9, <2>1 DEF vars
  <1> QED
    BY <1>1, <1>2, <1>4, <1>5, <1>6, <1>7, <1>8, <1>9, RemovedInv DEF Next

(* The initial state satisfies the invariant. *)
LEMMA InitInv == Init => Inv
  <1> SUFFICES ASSUME Init PROVE Inv
    OBVIOUS
  <1>1. /\ DOMAIN associations = {} /\ DOMAIN association_ids = {}
        /\ DOMAIN association_ids_init = {}
    BY DEF Init, Empty
  <1>2. TypeOK
    <2>1. /\ associations \in [DOMAIN associations -> AssociationMeta]
          /\ association_ids \in [DOMAIN association_ids -> Handles]
          /\ association_ids_init \in [DOMAIN association_ids_init -> Handles]
      BY DEF Init, Empty
    <2>2. handled \in [kind: {"none", "tagged", "INIT"}, tag: Aids \cup {NoTag},
                       to: SUBSET [uid: 1..MaxOpened, tag: Aids,
                                   init: Aids \cup {Nobody}]]
      BY DEF Init, Quiet, Handling
    <2>3. opened \in 0..MaxOpened /\ events = {} /\ reject_new_associations = FALSE
      BY DEF Init
    <2> QED
      BY <1>1, <2>1, <2>2, <2>3 DEF TypeOK
  <1>3. RoutesExact
    BY <1>1 DEF RoutesExact
  <1> QED
    BY <1>1, <1>2, <1>3 DEF Init, Inv, EventsNameTheirTenant, UidsDistinct

(* The tables of the endpoint keep their types, whatever comes and goes. *)
THEOREM TypeCorrect == Spec => []TypeOK
  BY InitInv, StepInv, PTL DEF Spec, Inv

(* The two routing tables say exactly what the slab says: every            *)
(* association is reachable, no entry dangles, no two share a tag.         *)
THEOREM RoutingCorrect == Spec => []RoutesExact
  BY InitInv, StepInv, PTL DEF Spec, Inv

(* A Drained event on its way to the endpoint always names a slot that     *)
(* still holds its association.                                            *)
THEOREM EventsCorrect == Spec => []EventsNameTheirTenant
  BY InitInv, StepInv, PTL DEF Spec, Inv

(* new_aid finds an id: an endpoint that is not full has one left. *)
THEOREM NewAidCorrect == Spec => []NewAidTerminates
  <1>1. Inv => NewAidTerminates
    <2> SUFFICES ASSUME Inv, ~IsFull, NewAid = {} PROVE FALSE
      BY DEF NewAidTerminates
    <2>1. DOMAIN association_ids = Aids
      BY DEF Inv, TypeOK, NewAid
    <2>2. Cardinality(Aids) \in Nat /\ Cardinality(Aids) # 0
      BY FS_CardinalityType, FS_EmptySet
    <2> DEFINE n == Cardinality(Aids)
    <2>3. ~(n \div 2 + n \div 4 < n)
      BY <2>1 DEF IsFull
    <2> HIDE DEF n
    <2> QED
      BY <2>2, <2>3 DEF n
  <1> QED
    BY <1>1, InitInv, StepInv, PTL DEF Spec

-----------------------------------------------------------------------------
(* The associations as the router sees them. *)
Live == {Abstract(h) : h \in DOMAIN associations}

(* Entering a new association is opening it in the router. *)
LEMMA AddedOpens ==
    ASSUME NEW h, NEW remote_aid, NEW local_aid,
           Inv, Fresh(h, remote_aid, local_aid)
    PROVE  /\ Routing!Open([uid |-> opened + 1, tag |-> local_aid, init |-> remote_aid])
           /\ [uid |-> opened + 1, tag |-> local_aid, init |-> remote_aid]
                  \in Routing!Association
  <1> DEFINE a == [uid |-> opened + 1, tag |-> local_aid, init |-> remote_aid]
  <1>1. /\ DOMAIN associations' = DOMAIN associations \cup {h}
        /\ \A g \in DOMAIN associations : associations'[g] = associations[g]
        /\ associations'[h].uid = opened + 1
        /\ associations'[h].init_cid = remote_aid
        /\ associations'[h].loc_cid = local_aid
        /\ opened + 1 \in 1..MaxOpened
    BY AddedSlab
  <1>2. Live' = Live \cup {a}
    <2>1. Abstract(h)' = a
      BY <1>1 DEF Abstract
    <2>2. \A g \in DOMAIN associations : Abstract(g)' = Abstract(g)
      BY <1>1 DEF Abstract
    <2>3. Live' = {Abstract(g)' : g \in DOMAIN associations \cup {h}}
      BY <1>1 DEF Live
    <2> QED
      BY <2>1, <2>2, <2>3 DEF Live
  <1>3. \A b \in Live : a.uid # b.uid /\ a.tag # b.tag
    <2> SUFFICES ASSUME NEW g \in DOMAIN associations
                 PROVE  opened + 1 # associations[g].uid
                        /\ local_aid # associations[g].loc_cid
      BY DEF Live, Abstract
    <2>1. associations[g].uid <= opened /\ associations[g].uid \in Nat /\ opened \in Nat
      BY DEF Inv, UidsDistinct, TypeOK, AssociationMeta
    <2>2. associations[g].loc_cid \in DOMAIN association_ids
      BY DEF Inv, RoutesExact
    <2> QED
      BY <2>1, <2>2 DEF Fresh
  <1>4. a.init # Nobody => {b \in Live : b.init = a.init} = {}
    <2> SUFFICES ASSUME remote_aid # Nobody, NEW g \in DOMAIN associations
                 PROVE  remote_aid # associations[g].init_cid
      BY DEF Live, Abstract
    <2> QED
      BY DEF Inv, RoutesExact, Fresh
  <1>5. a \in [uid: 1..MaxOpened, tag: Aids, init: Aids \cup {Nobody}]
    BY <1>1 DEF Fresh
  <1> QED
    BY <1>2, <1>3, <1>4, <1>5 DEF Routing!Open, Routing!Answering,
                                  Routing!Association, Live

(* The tables find what a search of the associations finds. *)
LEMMA TablesFind ==
    ASSUME Inv
    PROVE  /\ \A t \in Aids \cup {NoTag} :
                  {b \in Live : b.tag = t} =
                      IF t \in DOMAIN association_ids
                      THEN {Abstract(association_ids[t])} ELSE {}
           /\ \A t \in Aids :
                  {b \in Live : b.init = t} =
                      IF t \in DOMAIN association_ids_init
                      THEN {Abstract(association_ids_init[t])} ELSE {}
  <1>1. ASSUME NEW t \in Aids \cup {NoTag}
        PROVE  {b \in Live : b.tag = t} =
                   IF t \in DOMAIN association_ids
                   THEN {Abstract(association_ids[t])} ELSE {}
    <2>1. \A b \in Live : b.tag = t =>
              t \in DOMAIN association_ids /\ b = Abstract(association_ids[t])
      BY DEF Live, Abstract, Inv, RoutesExact
    <2>2. t \in DOMAIN association_ids =>
              /\ association_ids[t] \in DOMAIN associations
              /\ associations[association_ids[t]].loc_cid = t
      BY DEF Inv, RoutesExact
    <2>3. t \in DOMAIN association_ids =>
              Abstract(association_ids[t]) \in Live
              /\ Abstract(association_ids[t]).tag = t
      BY <2>2 DEF Live, Abstract
    <2> QED
      BY <2>1, <2>3
  <1>2. ASSUME NEW t \in Aids
        PROVE  {b \in Live : b.init = t} =
                   IF t \in DOMAIN association_ids_init
                   THEN {Abstract(association_ids_init[t])} ELSE {}
    <2>1. \A b \in Live : b.init = t =>
              t \in DOMAIN association_ids_init
              /\ b = Abstract(association_ids_init[t])
      BY DEF Live, Abstract, Inv, RoutesExact
    <2>2. t \in DOMAIN association_ids_init =>
              /\ association_ids_init[t] \in DOMAIN associations
              /\ associations[association_ids_init[t]].init_cid = t
      BY DEF Inv, RoutesExact
    <2>3. t \in DOMAIN association_ids_init =>
              Abstract(association_ids_init[t]) \in Live
              /\ Abstract(association_ids_init[t]).init = t
      BY <2>2 DEF Live, Abstract
    <2> QED
      BY <2>1, <2>3
  <1> QED
    BY <1>1, <1>2

(* Every step of the endpoint is a step of the router. *)
LEMMA StepRefines == Inv /\ [Next]_vars => [Routing!Next]_(Routing!vars)
  <1> SUFFICES ASSUME Inv, [Next]_vars PROVE Routing!Next \/ UNCHANGED Routing!vars
    BY DEF Routing!vars
  <1>0. Quiet = Routing!Quiet
    BY DEF Quiet, Handling, Routing!Quiet
  <1>1. ASSUME NEW h \in Handles, NEW local_aid \in Aids, Connect(h, local_aid)
        PROVE  Routing!Next
    <2>1. Fresh(h, Nobody, local_aid)
      BY <1>1 DEF Connect, AddAssociation, NewAid, Fresh
    <2> QED
      BY <1>0, <1>1, <2>1, AddedOpens DEF Connect, Routing!Connect, Routing!Next
  <1>2. ASSUME NEW h \in Handles, NEW local_aid \in Aids, NEW remote_aid \in Aids,
               ConnectWithSnap(h, local_aid, remote_aid)
        PROVE  Routing!Next
    <2>1. Fresh(h, remote_aid, local_aid)
      BY <1>2 DEF ConnectWithSnap, SnapAccepted, AddAssociation, Fresh
    <2> QED
      BY <1>0, <1>2, <2>1, AddedOpens DEF ConnectWithSnap, Routing!Connect, Routing!Next
  <1>3. ASSUME UNCHANGED associations PROVE UNCHANGED Live
    BY <1>3 DEF Live, Abstract
  <1>4. ASSUME NEW vtag \in Aids \cup {NoTag}, HandleTagged(vtag)
        PROVE  Routing!Next
    <2>1. Routing!Deliver(vtag)
      BY <1>3, <1>4, TablesFind
      DEF HandleTagged, Handling, Routing!Deliver, Routing!Handled, Routing!Owner, Live
    <2> QED
      BY <2>1 DEF Routing!Next
  <1>5. ASSUME NEW itag \in Aids, HandleKnownInit(itag)
        PROVE  Routing!Next
    <2>1. Routing!DeliverInit(itag)
      BY <1>3, <1>5, TablesFind
      DEF HandleKnownInit, Handling, Routing!DeliverInit, Routing!Handled,
          Routing!Answering, Live
    <2> QED
      BY <2>1 DEF Routing!Next
  <1>6. ASSUME NEW itag \in Aids, HandleFirstPacket(itag)
        PROVE  Routing!Next
    <2>1. CASE Refusing
      <3>1. Routing!DeliverInit(itag)
        BY <1>3, <1>6, <2>1, TablesFind
        DEF HandleFirstPacket, Handling, Routing!DeliverInit, Routing!Handled,
            Routing!Answering, Live
      <3> QED
        BY <3>1 DEF Routing!Next
    <2>2. CASE ~Refusing
      <3>1. PICK h \in Handles, local_aid \in NewAid :
                /\ AddAssociation(h, itag, local_aid)
                /\ handled' = Handling("INIT", itag,
                                 {[uid |-> opened + 1, tag |-> local_aid,
                                   init |-> itag]})
        BY <1>6, <2>2 DEF HandleFirstPacket
      <3>2. Fresh(h, itag, local_aid)
        BY <1>6, <3>1 DEF HandleFirstPacket, AddAssociation, NewAid, Fresh
      <3> DEFINE a == [uid |-> opened + 1, tag |-> local_aid, init |-> itag]
      <3>3. Routing!Open(a) /\ a \in Routing!Association /\ a.init = itag
        BY <3>2, AddedOpens
      <3>4. Routing!Handled("INIT", itag, {a})
        BY <3>1 DEF Handling, Routing!Handled
      <3> HIDE DEF a
      <3>5. Routing!DeliverInit(itag)
        BY <3>3, <3>4 DEF Routing!DeliverInit
      <3> QED
        BY <3>5 DEF Routing!Next
    <2> QED
      BY <2>1, <2>2
  <1>7. CASE RejectNewAssociations
    BY <1>0, <1>3, <1>7 DEF RejectNewAssociations, Routing!Next, Live
  <1>8. ASSUME NEW h \in Handles, NEW uid \in 1..MaxOpened, RaiseDrained(h, uid)
        PROVE  Routing!Next
    BY <1>0, <1>3, <1>8 DEF RaiseDrained, Routing!Next, Live
  <1>9. ASSUME NEW h \in Handles, NEW uid \in 1..MaxOpened, HandleEvent(h, uid)
        PROVE  Routing!Next
    <2>1. /\ h \in DOMAIN associations
          /\ DOMAIN associations' = DOMAIN associations \ {h}
          /\ \A g \in DOMAIN associations' : associations'[g] = associations[g]
      BY <1>9 DEF HandleEvent, Delete
    <2>2. Live' = Live \ {Abstract(h)}
      <3>1. \A g \in DOMAIN associations' :
                Abstract(g)' = Abstract(g) /\ Abstract(g) # Abstract(h)
        BY <2>1 DEF Abstract, Inv, UidsDistinct
      <3> QED
        BY <2>1, <3>1 DEF Live
    <2>3. Routing!Remove(Abstract(h)) /\ Abstract(h) \in Live
      BY <1>0, <1>9, <2>1, <2>2 DEF HandleEvent, Routing!Remove, Live
    <2> QED
      BY <2>3 DEF Routing!Next, Live
  <1>10. CASE UNCHANGED vars
    BY <1>3, <1>10 DEF vars, Routing!vars, Live
  <1> QED
    BY <1>1, <1>2, <1>4, <1>5, <1>6, <1>7, <1>8, <1>9, <1>10 DEF Next

(* The endpoint routes as the abstract router does, which looks for the    *)
(* owner of a datagram among the associations themselves.                  *)
THEOREM Refinement == Spec => ImplementsRouter
  <1>1. Init => Routing!Init
    BY DEF Init, Empty, Quiet, Handling, Routing!Init, Routing!Quiet
  <1> QED
    BY <1>1, InitInv, StepInv, StepRefines, PTL
    DEF Spec, ImplementsRouter, Routing!Spec
=============================================================================
