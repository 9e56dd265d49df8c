------------------------------ MODULE PeerProofs -------------------------------
(***************************************************************************)
(* What ensurePeerServices never does, for any set of peers and names, two *)
(* peer services of one name included.                                     *)
(***************************************************************************)
EXTENDS PeerServices, TLAPS

(* Everything the worker goes by was published at some time.               *)
EverInv ==
    /\ \A s \in PeerService :
          /\ published[s] # None => <<s, published[s]>> \in ever
          /\ publishedCache[s] # None => <<s, publishedCache[s]>> \in ever
          /\ status[s] # None => <<s, status[s]>> \in ever
    /\ EndpointsWerePublished

(* What is listed is still to be configured, or is no longer among what    *)
(* will be deleted; what is configured is listed.  Between rounds there is *)
(* no error.                                                               *)
ListedInv ==
    /\ \A s \in PeerService : status[s] # None =>
          s \in peerServices \/ NameOf[s] \notin preexisting
    /\ \A s \in peerServices : status[s] # None
    /\ pc = "idle" => preexisting = {} /\ ~failed
    /\ pc \notin {"idle", "next"} =>
          peerService \in PeerService /\ status[peerService] # None

Inv == TypeOK /\ EverInv /\ ListedInv

Places == {"idle", "next", "update", "create", "endpoints", "createEndpoints"}

LEMMA FaultsBounded ==
    ASSUME TypeOK, NoFault \/ Fault
    PROVE  faults' \in 0..MaxFaults /\ undisturbed' \in BOOLEAN
<1>1. faults' \in 0..MaxFaults
  BY PeerAssumption DEF NoFault, Fault, TypeOK
<1>2. undisturbed' \in BOOLEAN
  BY Zenon DEF NoFault, Fault, TypeOK
<1> QED BY <1>1, <1>2

LEMMA IdleTyped ==
    ASSUME WorkerIdle
    PROVE  /\ pc' = "idle" /\ peerServices' = {} /\ preexisting' = {}
           /\ peerService' \in PeerService \cup {None}
           /\ status' \in [PeerService -> Value \cup {None}]
           /\ \A s \in PeerService : status'[s] = None
           /\ hasUID' \in BOOLEAN /\ failed' = FALSE
BY DEF WorkerIdle, NothingPublished

LEMMA InitInv == ASSUME Init PROVE Inv
<1>1. /\ published \in [PeerService -> Value \cup {None}]
      /\ endpoints \in [Name -> Value \cup {None}]
      /\ status \in [PeerService -> Value \cup {None}]
      /\ services \in [Name -> Service \cup {None}]
  BY DEF Init, Nothing, NothingPublished, Service
<1>2. /\ edits \in 0..MaxEdits /\ faults \in 0..MaxFaults
      /\ peerServices \subseteq PeerService /\ preexisting \subseteq Name
  BY PeerAssumption DEF Init
<1>3. ever \subseteq PeerService \X Value
  BY DEF Init
<1>4. TypeOK
  BY <1>1, <1>2, <1>3 DEF Init, TypeOK
<1>5. EverInv
  <2>1. ASSUME NEW s \in PeerService, published[s] # None
        PROVE  <<s, published[s]>> \in ever
    BY <2>1, <1>1 DEF Init
  <2> QED BY <2>1 DEF Init, EverInv, EndpointsWerePublished, Nothing, NothingPublished
<1>6. ListedInv
  BY DEF Init, ListedInv, NothingPublished
<1> QED BY <1>4, <1>5, <1>6 DEF Inv

(* Steps outside the worker.                                               *)
LEMMA StatusChangesKeepsInv ==
    ASSUME Inv, NEW s \in PeerService, NEW v \in Value \cup {None},
           StatusChanges(s, v)
    PROVE  Inv'
<1> USE DEF Inv
<1>1. published' \in [PeerService -> Value \cup {None}]
  BY DEF StatusChanges, TypeOK
<1>2. ever \subseteq ever' /\ ever' \subseteq PeerService \X Value
  BY DEF StatusChanges, TypeOK
<1>3. \A r \in PeerService : published'[r] # None => <<r, published'[r]>> \in ever'
  BY DEF StatusChanges, TypeOK, EverInv
<1>4. edits' \in 0..MaxEdits
  BY PeerAssumption DEF StatusChanges, TypeOK
<1>5. TypeOK'
  BY <1>1, <1>2, <1>4, FaultsBounded DEF StatusChanges, TypeOK, caches, worker
<1>6. EverInv'
  BY <1>2, <1>3 DEF StatusChanges, EverInv, EndpointsWerePublished, caches, worker
<1>7. ListedInv'
  BY DEF StatusChanges, ListedInv, worker
<1> QED BY <1>5, <1>6, <1>7

LEMMA WatchKeepsInv ==
    ASSUME Inv, NEW n \in Name,
           WatchStatus \/ WatchService(n) \/ WatchEndpoints(n)
    PROVE  Inv'
<1> USE DEF Inv
<1>1. TypeOK'
  BY FaultsBounded
     DEF WatchStatus, WatchService, WatchEndpoints, Put, TypeOK, worker
<1>2. EverInv'
  BY DEF WatchStatus, WatchService, WatchEndpoints, EverInv,
         EndpointsWerePublished, worker
<1>3. ListedInv'
  BY DEF WatchStatus, WatchService, WatchEndpoints, ListedInv, worker
<1> QED BY <1>1, <1>2, <1>3

LEMMA ServerKeepsInv ==
    ASSUME Inv, NEW n \in Name, EndpointsController(n) \/ UserDeletes(n)
    PROVE  Inv'
<1> USE DEF Inv
<1>1. /\ services' \in [Name -> Service \cup {None}]
      /\ endpoints' \in [Name -> Value \cup {None}]
      /\ \A k \in Name : endpoints'[k] # None => endpoints'[k] = endpoints[k]
  BY DEF EndpointsController, UserDeletes, Put, TypeOK
<1>2. faults' \in 0..MaxFaults /\ undisturbed' \in BOOLEAN
  BY FaultsBounded DEF EndpointsController, UserDeletes
<1>3. TypeOK'
  BY <1>1, <1>2 DEF EndpointsController, UserDeletes, TypeOK, caches, worker
<1>4. EverInv'
  BY <1>1 DEF EndpointsController, UserDeletes, EverInv,
             EndpointsWerePublished, caches, worker
<1>5. ListedInv'
  BY DEF EndpointsController, UserDeletes, ListedInv, worker
<1> QED BY <1>3, <1>4, <1>5

LEMMA CrashKeepsInv == ASSUME Inv, Crash PROVE Inv'
<1> USE DEF Inv
<1>1. TypeOK'
  BY IdleTyped, FaultsBounded DEF Crash, TypeOK
<1>2. EverInv'
  BY IdleTyped DEF Crash, EverInv, EndpointsWerePublished
<1>3. ListedInv'
  BY IdleTyped DEF Crash, ListedInv
<1> QED BY <1>1, <1>2, <1>3

-----------------------------------------------------------------------------
(* Steps of the worker.                                                    *)
LEMMA BeginKeepsInv == ASSUME Inv, EnsurePeerServices PROVE Inv'
<1> USE DEF Inv
<1>1. TypeOK'
  BY DEF EnsurePeerServices, TypeOK, environment, caches
<1>2. EverInv'
  BY DEF EnsurePeerServices, EverInv, EndpointsWerePublished, environment, caches
<1>3. ListedInv'
  BY DEF EnsurePeerServices, ListedInv
<1> QED BY <1>1, <1>2, <1>3

LEMMA NextPeerKeepsInv ==
    ASSUME Inv, NEW s \in PeerService, NextPeerService(s) PROVE Inv'
<1> USE DEF Inv
<1>1. pc' \in {"update", "create", "endpoints"}
  BY DEF NextPeerService
<1>2. TypeOK'
  BY <1>1, FaultsBounded DEF NextPeerService, TypeOK, environment, caches
<1>3. EverInv'
  BY DEF NextPeerService, EverInv, EndpointsWerePublished, environment, caches
<1>4. ListedInv'
  BY <1>1 DEF NextPeerService, ListedInv
<1> QED BY <1>2, <1>3, <1>4

(* Within the configuration of one peer service, what is listed and left   *)
(* stays, and what is written to Endpoints was published.                  *)
LEMMA ConfigureKeepsInv ==
    ASSUME Inv,
           UpdateService \/ CreateService \/ UpdateEndpoints \/ CreateEndpoints
    PROVE  Inv'
<1> USE DEF Inv
<1>1. /\ peerService \in PeerService /\ status[peerService] # None
      /\ current \in Name
  BY PeerAssumption DEF UpdateService, CreateService, UpdateEndpoints,
     CreateEndpoints, ListedInv, current
<1>2. /\ pc' \in Places \ {"idle"}
      /\ pc' # "next" => peerService' = peerService
      /\ peerService' \in PeerService \cup {None}
      /\ UNCHANGED <<peerServices, status, preexisting, environment>>
      /\ hasUID' \in BOOLEAN /\ failed' \in BOOLEAN
  BY <1>1 DEF UpdateService, CreateService, UpdateEndpoints, CreateEndpoints,
     Goto, Failed, Continue, round, Places, TypeOK
<1>3. NoFault \/ Fault
  BY DEF UpdateService, CreateService, UpdateEndpoints, CreateEndpoints
<1>4. services' \in [Name -> Service \cup {None}]
  BY <1>1 DEF UpdateService, CreateService, UpdateEndpoints, CreateEndpoints,
     Put, ServiceForPeer, Service, TypeOK
<1>5. \/ UNCHANGED endpoints
      \/ endpoints' = [endpoints EXCEPT ![current] = status[peerService]]
  BY DEF UpdateService, CreateService, UpdateEndpoints, CreateEndpoints, Put,
     DesiredEndpoints
<1>6. status[peerService] \in Value
  BY <1>1 DEF TypeOK
<1>7. TypeOK'
  <2>1. endpoints' \in [Name -> Value \cup {None}]
    BY <1>5, <1>6 DEF TypeOK
  <2> QED BY <1>2, <1>3, <1>4, <2>1, FaultsBounded
          DEF TypeOK, Places, environment, caches
<1>8. EverInv'
  <2>1. <<peerService, status[peerService]>> \in ever /\ NameOf[peerService] = current
    BY <1>1 DEF EverInv, current
  <2>2. EndpointsWerePublished'
    BY <1>1, <1>2, <1>5, <2>1
       DEF EverInv, EndpointsWerePublished, environment, TypeOK
  <2> QED BY <1>2, <2>2 DEF EverInv, environment, caches
<1>9. ListedInv'
  BY <1>1, <1>2 DEF ListedInv
<1> QED BY <1>7, <1>8, <1>9

LEMMA DeleteKeepsInv ==
    ASSUME Inv, NEW n \in Name, DeleteExtra(n) PROVE Inv'
<1> USE DEF Inv
<1>1. TypeOK'
  BY FaultsBounded DEF DeleteExtra, Put, TypeOK, environment, caches
<1>2. EverInv'
  BY DEF DeleteExtra, EverInv, EndpointsWerePublished, environment, caches
<1>3. ListedInv'
  BY DEF DeleteExtra, ListedInv
<1> QED BY <1>1, <1>2, <1>3

LEMMA ReturnKeepsInv == ASSUME Inv, Return PROVE Inv'
<1> USE DEF Inv
<1>1. TypeOK'
  BY IdleTyped DEF Return, TypeOK, environment, caches
<1>2. EverInv'
  BY IdleTyped DEF Return, EverInv, EndpointsWerePublished, environment, caches
<1>3. ListedInv'
  BY IdleTyped DEF Return, ListedInv
<1> QED BY <1>1, <1>2, <1>3

LEMMA NextKeepsInv == ASSUME Inv, [Next]_vars PROVE Inv'
<1>1. CASE UNCHANGED vars
  BY <1>1 DEF Inv, TypeOK, EverInv, EndpointsWerePublished, ListedInv, vars
<1>2. CASE WorkerStep
  BY <1>2, BeginKeepsInv, NextPeerKeepsInv, ConfigureKeepsInv, DeleteKeepsInv,
     ReturnKeepsInv DEF WorkerStep
<1>3. CASE WatchStatus
  <2>1. TypeOK' /\ EverInv' /\ ListedInv'
    BY <1>3, FaultsBounded DEF WatchStatus, Inv, TypeOK, EverInv, EndpointsWerePublished,
                ListedInv, worker
  <2> QED BY <2>1 DEF Inv
<1> QED
  BY <1>1, <1>2, <1>3, StatusChangesKeepsInv, WatchKeepsInv, ServerKeepsInv,
     CrashKeepsInv DEF Next

-----------------------------------------------------------------------------
(* The invariant holds in every state.                                     *)
THEOREM InvCorrect == Spec => []Inv
BY InitInv, NextKeepsInv, PTL DEF Spec

(* Type correctness of the mirroring worker and what it works on.          *)
THEOREM PeerTypeCorrect == Spec => []TypeOK
<1>1. Inv => TypeOK
  BY DEF Inv
<1> QED BY <1>1, InvCorrect, PTL

(* ensurePeerServices never sends traffic anywhere that was not published  *)
(* for that name.                                                          *)
THEOREM EndpointsWerePublishedHolds == Spec => []EndpointsWerePublished
<1>1. Inv => EndpointsWerePublished
  BY DEF Inv, EverInv
<1> QED BY <1>1, InvCorrect, PTL

(* A Service of a listed peer service is only ever deleted by a user.      *)
ListedNotDeletedStep ==
    \A s \in PeerService :
        LET n == NameOf[s]
        IN  (/\ pc # "idle" /\ status[s] # None
             /\ services[n] # None /\ services'[n] = None)
            => faults' # faults

LEMMA DeletionStep ==
    ASSUME Inv, [Next]_vars PROVE ListedNotDeletedStep
<1> SUFFICES ASSUME NEW s \in PeerService,
                    pc # "idle", status[s] # None,
                    services[NameOf[s]] # None, services'[NameOf[s]] = None
             PROVE  faults' # faults
  BY DEF ListedNotDeletedStep
<1> DEFINE n == NameOf[s]
<1>1. n \in Name
  BY PeerAssumption
<1>2. CASE UNCHANGED vars
  BY <1>2 DEF vars
<1>3. ASSUME NEW k \in Name, DeleteExtra(k) PROVE faults' # faults
  BY <1>1, <1>3 DEF DeleteExtra, Put, Inv, TypeOK, ListedInv
<1>4. ASSUME NEW k \in Name, UserDeletes(k) PROVE faults' # faults
  BY <1>4 DEF UserDeletes, Fault, Inv, TypeOK
<1>5. CASE UpdateService
  <2>1. services'[n] # None
    <3>1. CASE services'[n] = services[n]
      BY <3>1
    <3>2. CASE services'[n] # services[n]
      <4>1. services'[n] = [services[n] EXCEPT !.annotations = peerService]
        BY <1>1, <1>5, <3>2 DEF UpdateService, Inv, TypeOK
      <4>2. services[n] \in Service /\ peerService \in PeerService
        BY <1>1, <1>5 DEF UpdateService, Inv, TypeOK, ListedInv
      <4>3. services'[n] \in Service
        BY <4>1, <4>2 DEF Service
      <4> QED BY <4>3, PeerAssumption
    <3> QED BY <3>1, <3>2
  <2> QED BY <2>1
<1>6. CASE CreateService
  <2>1. services'[n] # None
    BY <1>1, <1>6 DEF CreateService, Put, ServiceForPeer, Inv, TypeOK
  <2> QED BY <2>1
<1>7. ASSUME \/ EnsurePeerServices \/ UpdateEndpoints \/ CreateEndpoints
             \/ Return \/ Crash \/ WatchStatus
             \/ \E r \in PeerService : NextPeerService(r)
             \/ \E r \in PeerService, v \in Value \cup {None} : StatusChanges(r, v)
             \/ \E k \in Name : \/ WatchService(k) \/ WatchEndpoints(k)
                                \/ EndpointsController(k)
      PROVE  FALSE
  <2>1. UNCHANGED services
    BY <1>7 DEF EnsurePeerServices, UpdateEndpoints, CreateEndpoints, Return,
       Crash, WatchStatus, NextPeerService, StatusChanges, WatchService,
       WatchEndpoints, EndpointsController
  <2> QED BY <2>1
<1> QED BY <1>2, <1>3, <1>4, <1>5, <1>6, <1>7 DEF Next, WorkerStep

(* However calls fail in between, the worker deletes no Service of a peer  *)
(* service that the status it works from lists.                            *)
THEOREM ListedNotDeletedHolds == Spec => ListedNotDeleted
<1>1. ListedNotDeletedStep <=>
        \A s \in PeerService :
          LET n == NameOf[s]
          IN  (/\ pc # "idle" /\ status[s] # None
               /\ services[n] # None /\ services'[n] = None)
              => faults' # faults
  BY DEF ListedNotDeletedStep
<1> QED BY <1>1, DeletionStep, InvCorrect, PTL DEF Spec, ListedNotDeleted

-----------------------------------------------------------------------------
(* A round that nothing disturbs.                                          *)

(* What is still to be configured is as the caches show it, but for the    *)
(* Endpoints that the endpoints controller has removed.                    *)
PendingInv ==
    \A s \in peerServices :
        LET n == NameOf[s]
        IN  /\ serviceCache[n] = services[n]
            /\ endpoints[n] \in {endpointsCache[n], None}

(* What is configured is mirrored.                                         *)
DoneInv ==
    \A s \in PeerService :
        (/\ status[s] # None /\ s \notin peerServices
         /\ pc = "next" \/ s # peerService) => MirroredAs(s)

(* What else there is will be deleted.                                     *)
ExtraInv ==
    \A n \in Name : services[n] # None =>
        \/ n \in preexisting
        \/ \E s \in PeerService :
              NameOf[s] = n /\ status[s] # None /\ s \notin peerServices

(* What is about to be configured, at each of the calls.                   *)
CallInv ==
    pc # "next" =>
        /\ peerService \notin peerServices
        /\ endpoints[current] \in {endpointsCache[current], None}
        /\ pc = "update" =>
              /\ serviceCache[current] = services[current]
              /\ services[current] # None /\ hasUID
        /\ pc = "create" => services[current] = None
        /\ pc \in {"endpoints", "createEndpoints"} =>
              /\ services[current] # None
              /\ services[current].annotations = peerService
              /\ hasUID
        /\ pc = "createEndpoints" => endpoints[current] = None

RoundInv ==
    (undisturbed /\ Distinct /\ pc # "idle") =>
        ~failed /\ PendingInv /\ DoneInv /\ ExtraInv /\ CallInv

(* Any step that is not the worker's, and a failure of any kind.           *)
LEMMA DisturbedRound == ASSUME Fault PROVE RoundInv'
BY DEF Fault, RoundInv

LEMMA OutsideKeepsRound ==
    ASSUME Inv, RoundInv, UNCHANGED <<worker, services, undisturbed>>,
           \A n \in Name :
              /\ serviceCache'[n] \in {serviceCache[n], services[n]}
              /\ \/ endpoints'[n] = endpoints[n]
                 \/ services[n] = None /\ endpoints'[n] = None
              /\ endpointsCache'[n] \in {endpointsCache[n], endpoints[n]}
              /\ endpoints'[n] = endpoints[n] \/ endpointsCache'[n] = endpointsCache[n]
    PROVE  RoundInv'
<1> SUFFICES ASSUME undisturbed, Distinct, pc # "idle"
             PROVE  /\ PendingInv' /\ DoneInv' /\ ExtraInv' /\ CallInv'
                    /\ ~failed'
  BY DEF RoundInv, Distinct, worker
<1>1. ~failed /\ PendingInv /\ DoneInv /\ ExtraInv /\ CallInv
  BY DEF RoundInv
<1>2. UNCHANGED <<pc, peerServices, peerService, status, preexisting, hasUID,
                  failed, services>>
  BY DEF worker
<1>3. \A s \in PeerService : NameOf[s] \in Name
  BY PeerAssumption
<1>4. \A n \in Name : endpoints[n] \in {endpointsCache[n], None} =>
          endpoints'[n] \in {endpointsCache'[n], None}
  OBVIOUS
<1>5. PendingInv'
  BY <1>1, <1>2, <1>3, <1>4 DEF PendingInv, Inv, TypeOK
<1>6. DoneInv'
  BY <1>1, <1>2, <1>3 DEF DoneInv, MirroredAs
<1>7. ExtraInv'
  BY <1>1, <1>2 DEF ExtraInv
<1>8. CallInv'
  <2>1. SUFFICES ASSUME pc # "next" PROVE CallInv'
    BY <1>2 DEF CallInv
  <2>2. current \in Name /\ current' = current
    BY <1>2, <1>3, <2>1 DEF Inv, ListedInv, current
  <2> QED BY <1>1, <1>2, <1>4, <2>1, <2>2 DEF CallInv
<1> QED BY <1>1, <1>2, <1>5, <1>6, <1>7, <1>8

LEMMA BeginKeepsRound ==
    ASSUME Inv, RoundInv, EnsurePeerServices PROVE RoundInv'
<1> SUFFICES ASSUME undisturbed'
             PROVE  ~failed' /\ PendingInv' /\ DoneInv' /\ ExtraInv' /\ CallInv'
  BY DEF RoundInv
<1>1. serviceCache = services /\ endpointsCache = endpoints
  BY DEF EnsurePeerServices
<1>2. /\ pc' = "next" /\ status' = publishedCache
      /\ peerServices' = {s \in PeerService : publishedCache[s] # None}
      /\ preexisting' = {n \in Name : serviceCache[n] # None}
      /\ UNCHANGED <<services, endpoints, serviceCache, endpointsCache, failed>>
  BY DEF EnsurePeerServices, environment, caches
<1>3. ~failed
  BY DEF EnsurePeerServices, Inv, ListedInv
<1> QED BY <1>1, <1>2, <1>3 DEF PendingInv, DoneInv, ExtraInv, CallInv

LEMMA NextPeerKeepsRound ==
    ASSUME Inv, RoundInv, NEW s \in PeerService, NextPeerService(s)
    PROVE  RoundInv'
<1> SUFFICES ASSUME undisturbed, Distinct
             PROVE  ~failed' /\ PendingInv' /\ DoneInv' /\ ExtraInv' /\ CallInv'
  BY DEF RoundInv, Distinct, NextPeerService, NoFault
<1>1. ~failed /\ PendingInv /\ DoneInv /\ ExtraInv
  BY DEF RoundInv, NextPeerService
<1>2. /\ pc = "next" /\ s \in peerServices
      /\ peerServices' = peerServices \ {s} /\ peerService' = s
      /\ preexisting' = preexisting \ {NameOf[s]}
      /\ UNCHANGED <<services, endpoints, serviceCache, endpointsCache, failed,
                     status>>
  BY DEF NextPeerService, environment, caches
<1>3. status[s] # None /\ NameOf[s] \in Name
  BY <1>2, PeerAssumption DEF Inv, ListedInv
<1>4. pc' \in {"update", "create", "endpoints"}
  BY DEF NextPeerService
<1>5. PendingInv'
  BY <1>1, <1>2 DEF PendingInv
<1>6. DoneInv'
  BY <1>1, <1>2, <1>4 DEF DoneInv, MirroredAs
<1>7. ExtraInv'
  BY <1>1, <1>2, <1>3 DEF ExtraInv
<1>8. CallInv'
  <2>1. /\ serviceCache[NameOf[s]] = services[NameOf[s]]
        /\ endpoints[NameOf[s]] \in {endpointsCache[NameOf[s]], None}
    BY <1>1, <1>2 DEF PendingInv
  <2>2. current' = NameOf[s]
    BY <1>2 DEF current
  <2>3. CASE services[NameOf[s]] = None
    <3>1. pc' = "create"
      BY <2>1, <2>3 DEF NextPeerService
    <3> QED BY <1>2, <2>1, <2>2, <2>3, <3>1 DEF CallInv
  <2>4. CASE services[NameOf[s]] # None /\ services[NameOf[s]].annotations # s
    <3>1. pc' = "update" /\ hasUID'
      BY <2>1, <2>4 DEF NextPeerService
    <3> QED BY <1>2, <2>1, <2>2, <2>4, <3>1 DEF CallInv
  <2>5. CASE services[NameOf[s]] # None /\ services[NameOf[s]].annotations = s
    <3>1. pc' = "endpoints" /\ hasUID'
      BY <2>1, <2>5 DEF NextPeerService
    <3> QED BY <1>2, <2>1, <2>2, <2>5, <3>1 DEF CallInv
  <2> QED BY <2>3, <2>4, <2>5
<1> QED BY <1>1, <1>2, <1>5, <1>6, <1>7, <1>8

(* A call for one peer service touches nothing of another name.            *)
LEMMA CallKeepsOthers ==
    ASSUME Inv, RoundInv, undisturbed, Distinct, pc \notin {"idle", "next"},
           UNCHANGED <<peerServices, status, preexisting, serviceCache,
                       endpointsCache>>,
           pc' # "next" => peerService' = peerService,
           \A n \in Name \ {current} :
              services'[n] = services[n] /\ endpoints'[n] = endpoints[n],
           NEW p, p = peerService, pc' = "next" => MirroredAs(p)'
    PROVE  /\ PendingInv' /\ DoneInv' /\ ExtraInv'
           /\ current \in Name /\ peerService \in PeerService
           /\ status[peerService] # None /\ peerService \notin peerServices
<1>1. ~failed /\ PendingInv /\ DoneInv /\ ExtraInv /\ CallInv
  BY DEF RoundInv
<1>2. /\ peerService \in PeerService /\ status[peerService] # None
      /\ current \in Name /\ current = NameOf[peerService]
      /\ peerService \notin peerServices
  BY <1>1, PeerAssumption DEF Inv, ListedInv, CallInv, current
<1>3. ASSUME NEW s \in PeerService, status[s] # None, s # peerService
      PROVE  NameOf[s] \in Name \ {current}
  BY <1>2, <1>3, PeerAssumption DEF Distinct
<1>4. peerServices \subseteq PeerService /\ \A s \in peerServices : status[s] # None
  BY DEF Inv, TypeOK, ListedInv
<1>5. PendingInv'
  BY <1>1, <1>2, <1>3, <1>4 DEF PendingInv
<1>6. ASSUME NEW s \in PeerService, status'[s] # None, s \notin peerServices',
             pc' = "next" \/ s # peerService'
      PROVE  MirroredAs(s)'
  <2>1. CASE s = p
    BY <1>6, <2>1
  <2>2. CASE s # p
    <3>1. NameOf[s] \in Name \ {current} /\ MirroredAs(s)
      BY <1>1, <1>3, <1>6, <2>2 DEF DoneInv
    <3> QED BY <3>1 DEF MirroredAs
  <2> QED BY <2>1, <2>2
<1>7. ExtraInv'
  BY <1>1, <1>2 DEF ExtraInv
<1> QED BY <1>2, <1>5, <1>6, <1>7 DEF DoneInv

LEMMA UpdateServiceKeepsRound ==
    ASSUME Inv, RoundInv, UpdateService PROVE RoundInv'
<1> USE DEF Inv
<1>1. SUFFICES ASSUME undisturbed', Distinct' PROVE RoundInv'
  BY DEF RoundInv
<1>2. undisturbed /\ Distinct /\ ~Fault /\ NoFault
  BY <1>1 DEF UpdateService, Fault, NoFault, Distinct, Goto, Failed, Continue, round
<1>3. /\ ~failed /\ CallInv /\ pc = "update"
      /\ peerService \in PeerService /\ current \in Name
  BY <1>2, PeerAssumption DEF RoundInv, UpdateService, ListedInv, current
<1>4. services[current] = serviceCache[current] /\ services[current] # None /\ hasUID
  BY <1>3 DEF CallInv
<1>5. /\ services' = [services EXCEPT ![current].annotations = peerService]
      /\ pc' = "endpoints"
      /\ UNCHANGED <<peerServices, peerService, status, preexisting, hasUID,
                     failed, endpoints, serviceCache, endpointsCache>>
  BY <1>2, <1>4 DEF UpdateService, Goto, round, environment, caches
<1>6. services[current] \in Service
  BY <1>3, <1>4 DEF TypeOK
<1>7. services'[current] \in Service /\ services'[current].annotations = peerService
  <2>1. services'[current] = [services[current] EXCEPT !.annotations = peerService]
    BY <1>3, <1>5 DEF TypeOK
  <2> QED BY <1>3, <1>6, <2>1 DEF Service
<1>8. services'[current] # None
  BY <1>7, PeerAssumption
<1>9. PendingInv' /\ DoneInv' /\ ExtraInv' /\ peerService \notin peerServices
  <2>1. \A n \in Name \ {current} :
            services'[n] = services[n] /\ endpoints'[n] = endpoints[n]
    BY <1>5 DEF TypeOK
  <2> QED BY <1>2, <1>3, <1>5, <2>1, CallKeepsOthers
<1>10. CallInv'
  <2>1. current' = current
    BY <1>5 DEF current
  <2> QED BY <1>3, <1>4, <1>5, <1>7, <1>8, <1>9, <2>1 DEF CallInv
<1> QED BY <1>3, <1>5, <1>9, <1>10 DEF RoundInv

LEMMA CreateServiceKeepsRound ==
    ASSUME Inv, RoundInv, CreateService PROVE RoundInv'
<1> USE DEF Inv
<1>1. SUFFICES ASSUME undisturbed', Distinct' PROVE RoundInv'
  BY DEF RoundInv
<1>2. undisturbed /\ Distinct /\ ~Fault /\ NoFault
  BY <1>1 DEF CreateService, Fault, NoFault, Distinct, Goto, round
<1>3. /\ ~failed /\ CallInv /\ pc = "create"
      /\ peerService \in PeerService /\ current \in Name
  BY <1>2, PeerAssumption DEF RoundInv, CreateService, ListedInv, current
<1>4. services[current] = None
  BY <1>3 DEF CallInv
<1>5. /\ services' = [services EXCEPT ![current] =
                         ServiceForPeer(peerService, status[peerService])]
      /\ pc' = "endpoints" /\ hasUID'
      /\ UNCHANGED <<peerServices, peerService, status, preexisting, failed,
                     endpoints, serviceCache, endpointsCache>>
  BY <1>2, <1>4 DEF CreateService, Put, Goto, round, environment, caches
<1>6. services'[current] = ServiceForPeer(peerService, status[peerService])
  BY <1>3, <1>5 DEF TypeOK
<1>7. services'[current] \in Service /\ services'[current].annotations = peerService
  <2>1. status[peerService] \in Value
    BY <1>3 DEF TypeOK, ListedInv
  <2> QED BY <1>3, <1>6, <2>1 DEF ServiceForPeer, Service
<1>8. services'[current] # None
  BY <1>7, PeerAssumption
<1>9. PendingInv' /\ DoneInv' /\ ExtraInv' /\ peerService \notin peerServices
  <2>1. \A n \in Name \ {current} :
            services'[n] = services[n] /\ endpoints'[n] = endpoints[n]
    BY <1>5 DEF TypeOK
  <2> QED BY <1>2, <1>3, <1>5, <2>1, CallKeepsOthers
<1>10. CallInv'
  <2>1. current' = current
    BY <1>5 DEF current
  <2> QED BY <1>3, <1>5, <1>7, <1>8, <1>9, <2>1 DEF CallInv
<1> QED BY <1>3, <1>5, <1>9, <1>10 DEF RoundInv

(* The Endpoints are written, or they turn out to be gone: then they are   *)
(* made, and the Service that they need as owner is there.                 *)
LEMMA EndpointsKeepRound ==
    ASSUME Inv, RoundInv, UpdateEndpoints \/ CreateEndpoints PROVE RoundInv'
<1> USE DEF Inv
<1>1. SUFFICES ASSUME undisturbed', Distinct' PROVE RoundInv'
  BY DEF RoundInv
<1>2. undisturbed /\ Distinct /\ ~Fault /\ NoFault
  BY <1>1 DEF UpdateEndpoints, CreateEndpoints, Fault, NoFault, Distinct, Goto,
              Failed, Continue, round
<1>3. /\ ~failed /\ CallInv /\ pc \in {"endpoints", "createEndpoints"}
      /\ peerService \in PeerService /\ current \in Name
  BY <1>2, PeerAssumption DEF RoundInv, UpdateEndpoints, CreateEndpoints,
                              ListedInv, current
<1>4. /\ endpoints[current] \in {endpointsCache[current], None}
      /\ services[current] # None /\ services[current].annotations = peerService
      /\ hasUID /\ (pc = "createEndpoints" => endpoints[current] = None)
  BY <1>3 DEF CallInv
<1>5. /\ UNCHANGED <<peerServices, status, preexisting, services, failed,
                     serviceCache, endpointsCache>>
      /\ \/ /\ pc' = "next"
            /\ endpoints' = [endpoints EXCEPT ![current] = status[peerService]]
         \/ /\ pc' = "createEndpoints" /\ endpoints[current] = None
            /\ UNCHANGED <<endpoints, peerService, hasUID>>
  BY <1>2, <1>4 DEF UpdateEndpoints, CreateEndpoints, Put, DesiredEndpoints,
                    Goto, Continue, round, environment, caches
<1>6. CASE /\ pc' = "next"
           /\ endpoints' = [endpoints EXCEPT ![current] = status[peerService]]
  <2>1. PICK p : p = peerService
    OBVIOUS
  <2>2. endpoints'[current] = status[p] /\ current = NameOf[p]
    BY <1>3, <1>6, <2>1 DEF TypeOK, current
  <2>3. MirroredAs(p)'
    BY <1>4, <1>5, <2>1, <2>2 DEF MirroredAs
  <2>4. \A n \in Name \ {current} :
            services'[n] = services[n] /\ endpoints'[n] = endpoints[n]
    BY <1>5, <1>6 DEF TypeOK
  <2>5. PendingInv' /\ DoneInv' /\ ExtraInv'
    BY <1>2, <1>3, <1>5, <1>6, <2>1, <2>3, <2>4, CallKeepsOthers
  <2> QED BY <1>3, <1>5, <1>6, <2>5 DEF RoundInv, CallInv
<1>7. CASE /\ pc' = "createEndpoints" /\ endpoints[current] = None
           /\ UNCHANGED <<endpoints, peerService, hasUID>>
  <2>1. PendingInv' /\ DoneInv' /\ ExtraInv' /\ peerService \notin peerServices
    BY <1>2, <1>3, <1>5, <1>7, CallKeepsOthers
  <2>2. current' = current
    BY <1>7 DEF current
  <2>3. CallInv'
    BY <1>4, <1>5, <1>7, <2>1, <2>2 DEF CallInv
  <2> QED BY <1>3, <1>5, <2>1, <2>3 DEF RoundInv
<1> QED BY <1>5, <1>6, <1>7

LEMMA DeleteKeepsRound ==
    ASSUME Inv, RoundInv, NEW n \in Name, DeleteExtra(n) PROVE RoundInv'
<1> USE DEF Inv
<1>1. SUFFICES ASSUME undisturbed', Distinct' PROVE RoundInv'
  BY DEF RoundInv
<1>2. /\ undisturbed /\ Distinct /\ ~failed /\ pc = "next" /\ peerServices = {}
      /\ n \in preexisting /\ preexisting' = preexisting \ {n}
      /\ services' = [services EXCEPT ![n] = None]
      /\ UNCHANGED <<pc, peerServices, peerService, status, hasUID, failed,
                     endpoints, serviceCache, endpointsCache>>
      /\ DoneInv /\ ExtraInv
  BY <1>1 DEF DeleteExtra, Fault, NoFault, Distinct, Put, environment, caches,
              RoundInv
<1>3. ASSUME NEW s \in PeerService, status[s] # None
      PROVE  MirroredAs(s)'
  <2>1. NameOf[s] \in Name \ {n} /\ MirroredAs(s)
    BY <1>2, <1>3, PeerAssumption DEF ListedInv, DoneInv
  <2> QED BY <1>2, <2>1 DEF MirroredAs, TypeOK
<1>4. DoneInv'
  BY <1>2, <1>3 DEF DoneInv
<1>5. ExtraInv'
  BY <1>2 DEF ExtraInv, TypeOK
<1> QED BY <1>2, <1>4, <1>5 DEF RoundInv, PendingInv, CallInv

LEMMA NextKeepsRound == ASSUME Inv, RoundInv, [Next]_vars PROVE RoundInv'
<1>1. CASE UNCHANGED vars
  BY <1>1, OutsideKeepsRound DEF vars, worker
<1>2. ASSUME \/ \E s \in PeerService, v \in Value \cup {None} : StatusChanges(s, v)
             \/ WatchStatus
      PROVE  RoundInv'
  <2>1. UNCHANGED <<worker, services, undisturbed, serviceCache, endpoints,
                    endpointsCache>>
    BY <1>2 DEF StatusChanges, WatchStatus, NoFault, caches
  <2> QED BY <2>1, OutsideKeepsRound
<1>3. ASSUME NEW n \in Name, WatchService(n) PROVE RoundInv'
  BY <1>3, OutsideKeepsRound DEF WatchService, Put, NoFault, Inv, TypeOK
<1>4. ASSUME NEW n \in Name, WatchEndpoints(n) PROVE RoundInv'
  BY <1>4, OutsideKeepsRound DEF WatchEndpoints, Put, NoFault, Inv, TypeOK
<1>5. ASSUME NEW n \in Name, EndpointsController(n) PROVE RoundInv'
  BY <1>5, OutsideKeepsRound DEF EndpointsController, Put, NoFault, caches,
                                 Inv, TypeOK
<1>6. ASSUME Crash \/ \E n \in Name : UserDeletes(n) PROVE RoundInv'
  BY <1>6, DisturbedRound DEF Crash, UserDeletes
<1>7. CASE Return
  BY <1>7, IdleTyped DEF Return, RoundInv
<1> QED
  BY <1>1, <1>2, <1>3, <1>4, <1>5, <1>6, <1>7, BeginKeepsRound,
     NextPeerKeepsRound, UpdateServiceKeepsRound, CreateServiceKeepsRound,
     EndpointsKeepRound, DeleteKeepsRound DEF Next, WorkerStep

(* In a round of ensurePeerServices that nobody disturbs, every service    *)
(* the loop has passed is mirrored, and what it will meet is as cached.    *)
THEOREM RoundCorrect == Spec => []RoundInv
<1>1. Init => RoundInv
  BY DEF Init, RoundInv
<1>2. Inv /\ RoundInv /\ [Next]_vars => RoundInv'
  BY NextKeepsRound
<1> QED BY <1>1, <1>2, InvCorrect, PTL DEF Spec

(* ensurePeerServices from its list to its return: whatever its caches     *)
(* show on the way, one round in which no call fails mirrors all that the  *)
(* status listed and deletes the rest; errors that it drops, Endpoints     *)
(* that are gone under it and Services of an earlier release included.     *)
THEOREM RoundMirrorsHolds == Spec => []RoundMirrors
<1>1. Inv /\ RoundInv => RoundMirrors
  BY DEF Inv, ListedInv, RoundInv, DoneInv, ExtraInv, RoundMirrors
<1> QED BY <1>1, InvCorrect, RoundCorrect, PTL
=============================================================================
