----------------------------- MODULE PeerServices ------------------------------
(***************************************************************************)
(* ensurePeerServices: the reconcile worker mirrors each service that a    *)
(* peer publishes as a Service and an Endpoints object owned by the        *)
(* ServiceSync, reads both from informer caches that lag the API server,   *)
(* and goes on when a call for one of them fails.                          *)
(*                                                                         *)
(* A peer service stands for a cluster and a service of it, with NameOf    *)
(* for the "cluster-service" it is mirrored as.  A value stands for its    *)
(* ports and endpoint addresses.                                           *)
(*                                                                         *)
(*   published, publishedCache   what the status lists for each peer       *)
(*                               service, and what the cache shows of that *)
(*   services, endpoints         the objects at the API server             *)
(*   serviceCache, endpointsCache    what the caches show of them          *)
(*   pc, peerServices, peerService   where the worker is, what it has left *)
(*                               to configure, what it configures          *)
(*   status                      the published values it read              *)
(*   preexisting                 owned services it has not come across     *)
(*   hasUID, failed              currentService is one of the server's;    *)
(*                               multiError is not empty                   *)
(*   edits, faults               bounds: changes of the status, failures   *)
(*   ever                        history: what was ever published          *)
(*   undisturbed                 history: the round began with caches that *)
(*                               showed the server's Services and          *)
(*                               Endpoints, and nothing failed since       *)
(***************************************************************************)
EXTENDS Naturals

CONSTANTS
    PeerService, Name, NameOf, Value,
    None,             \* nothing published, no object, no annotations
    Earlier,          \* Services that an earlier release has left
    MaxEdits,         \* bound on changes of what peers publish
    MaxFaults         \* bound on failed calls, crashes and users' deletions

(* A Service that the ServiceSync owns.  The annotations name the peer     *)
(* service, None when an earlier release made it.                          *)
Service == [annotations : PeerService \cup {None}, ports : Value]

ASSUME PeerAssumption ==
    /\ NameOf \in [PeerService -> Name]
    /\ None \notin Value \cup PeerService \cup Service
    /\ Value # {} /\ Earlier \subseteq Name
    /\ MaxEdits \in Nat /\ MaxFaults \in Nat

VARIABLES
    published, publishedCache, services, serviceCache, endpoints,
    endpointsCache, pc, peerServices, peerService, status, preexisting,
    hasUID, failed, edits, faults, ever, undisturbed

caches == <<publishedCache, serviceCache, endpointsCache>>
worker == <<pc, peerServices, peerService, status, preexisting, hasUID, failed>>
vars == <<published, publishedCache, services, serviceCache, endpoints,
          endpointsCache, pc, peerServices, peerService, status, preexisting,
          hasUID, failed, edits, faults, ever, undisturbed>>

-----------------------------------------------------------------------------
(* Mutant: annotated with the name it is mirrored as.                      *)
ServiceForPeerNamed(s, v) == [annotations |-> NameOf[s], ports |-> v]

(* serviceForPeer and the annotations it is created with.                  *)
ServiceForPeer(s, v) == [annotations |-> s, ports |-> v]

NothingPublished == [s \in PeerService |-> None]
Nothing == [n \in Name |-> None]

WorkerIdle ==
    /\ pc' = "idle"
    /\ peerServices' = {} /\ preexisting' = {}
    /\ peerService' = None /\ status' = NothingPublished
    /\ hasUID' = FALSE /\ failed' = FALSE

Init ==
    /\ published \in [PeerService -> Value \cup {None}]
    /\ publishedCache = published
    /\ \E v \in Value :
          services = [n \in Name |-> IF n \in Earlier
                                     THEN [annotations |-> None, ports |-> v]
                                     ELSE None]
    /\ serviceCache = services
    /\ endpoints = Nothing /\ endpointsCache = Nothing
    /\ pc = "idle" /\ peerServices = {} /\ preexisting = {}
    /\ peerService = None /\ status = NothingPublished
    /\ hasUID = FALSE /\ failed = FALSE
    /\ edits = 0 /\ faults = 0 /\ undisturbed = FALSE
    /\ ever = {x \in PeerService \X Value : published[x[1]] = x[2]}

-----------------------------------------------------------------------------
(* The API server, the caches, peers and users.                            *)

NoFault == UNCHANGED <<faults, undisturbed>>
Fault == faults < MaxFaults /\ faults' = faults + 1 /\ undisturbed' = FALSE

Put(objects, n, o) == [objects EXCEPT ![n] = o]

StatusChanges(s, v) ==
    /\ edits < MaxEdits /\ edits' = edits + 1
    /\ v # published[s]
    /\ published' = [published EXCEPT ![s] = v]
    /\ ever' = IF v = None THEN ever ELSE ever \cup {<<s, v>>}
    /\ UNCHANGED <<caches, services, endpoints, worker>> /\ NoFault

WatchStatus ==
    /\ publishedCache # published /\ publishedCache' = published
    /\ UNCHANGED <<published, services, serviceCache, endpoints,
                   endpointsCache, worker, edits, ever>>
    /\ NoFault

WatchService(n) ==
    /\ serviceCache[n] # services[n]
    /\ serviceCache' = Put(serviceCache, n, services[n])
    /\ UNCHANGED <<published, publishedCache, services, endpoints,
                   endpointsCache, worker, edits, ever>>
    /\ NoFault

WatchEndpoints(n) ==
    /\ endpointsCache[n] # endpoints[n]
    /\ endpointsCache' = Put(endpointsCache, n, endpoints[n])
    /\ UNCHANGED <<published, publishedCache, services, serviceCache,
                   endpoints, worker, edits, ever>>
    /\ NoFault

(* The endpoints controller removes the Endpoints of a Service that is     *)
(* gone; they have a second owner, so garbage collection would not.        *)
EndpointsController(n) ==
    /\ services[n] = None /\ endpoints[n] # None
    /\ endpoints' = Put(endpoints, n, None)
    /\ UNCHANGED <<published, caches, services, worker, edits, ever>>
    /\ NoFault

(* A user deletes what the worker made.                                    *)
UserDeletes(n) ==
    /\ Fault
    /\ \/ /\ services[n] # None /\ services' = Put(services, n, None)
          /\ UNCHANGED endpoints
       \/ /\ endpoints[n] # None /\ endpoints' = Put(endpoints, n, None)
          /\ UNCHANGED services
    /\ UNCHANGED <<published, caches, worker, edits, ever>>

(* After a restart the caches are filled before the worker starts.         *)
Crash ==
    /\ Fault
    /\ WorkerIdle
    /\ publishedCache' = published
    /\ serviceCache' = services /\ endpointsCache' = endpoints
    /\ UNCHANGED <<published, services, endpoints, edits, ever>>

-----------------------------------------------------------------------------
(* The worker.  A step is one call to the API server with what leads to it.*)

environment == <<published, caches, edits, ever>>
round == <<status, preexisting>>
current == NameOf[peerService]

(* Mutant: a pointer to the loop variable, which another value has taken.  *)
EndpointsOfAnother ==
    CHOOSE v \in Value : \E s \in PeerService : status[s] = v

(* serviceForPeer: the addresses and ports to send traffic to.             *)
DesiredEndpoints == status[peerService]

(* The status is read, the owned services are listed.                      *)
EnsurePeerServices ==
    /\ pc = "idle" /\ pc' = "next"
    /\ status' = publishedCache
    /\ peerServices' = {s \in PeerService : publishedCache[s] # None}
    /\ preexisting' = {n \in Name : serviceCache[n] # None}
    /\ undisturbed' = (serviceCache = services /\ endpointsCache = endpoints)
    /\ UNCHANGED faults
    /\ UNCHANGED <<services, endpoints, peerService, hasUID, failed,
                   environment>>

(* After an error the loop continues with the next peer service.           *)
Continue ==
    /\ pc' = "next" /\ peerService' = None /\ hasUID' = FALSE
    /\ UNCHANGED <<peerServices, round>>

Failed == failed' = TRUE /\ Continue

(* Mutant: the name is kept until the Service is known to be right.        *)
NextPeerServiceKeeping(s) ==
    /\ pc = "next" /\ s \in peerServices
    /\ peerServices' = peerServices \ {s}
    /\ peerService' = s
    /\ LET old == serviceCache[NameOf[s]] IN
       /\ pc' = CASE old = None -> "create"
                  [] old # None /\ old.annotations # s -> "update"
                  [] OTHER -> "endpoints"
       /\ preexisting' = IF pc' = "endpoints" THEN preexisting \ {NameOf[s]}
                                              ELSE preexisting
    /\ hasUID' = (serviceCache[NameOf[s]] # None)
    /\ NoFault
    /\ UNCHANGED <<services, endpoints, status, failed, environment>>

(* delete(preexistingServicesMap, name), before anything can fail.         *)
NextPeerService(s) ==
    /\ pc = "next" /\ s \in peerServices
    /\ peerServices' = peerServices \ {s}
    /\ peerService' = s
    /\ preexisting' = preexisting \ {NameOf[s]}
    /\ LET old == serviceCache[NameOf[s]] IN
       pc' = CASE old = None -> "create"
               [] old # None /\ old.annotations # s -> "update"
               [] OTHER -> "endpoints"
    /\ hasUID' = (serviceCache[NameOf[s]] # None)
    /\ NoFault
    /\ UNCHANGED <<services, endpoints, status, failed, environment>>

Goto(place) == pc' = place /\ UNCHANGED <<peerServices, peerService, round>>

(* Annotations and owner are updated, if the copy is still the server's.   *)
UpdateService ==
    /\ pc = "update"
    /\ LET n == current IN
       \/ /\ services[n] # None /\ services[n] = serviceCache[n]
          /\ services' = [services EXCEPT ![n].annotations = peerService]
          /\ NoFault
          /\ Goto("endpoints") /\ UNCHANGED <<hasUID, failed>>
       \/ /\ services[n] = None /\ NoFault
          /\ Goto("create") /\ UNCHANGED <<services, hasUID, failed>>
       \/ /\ (services[n] \notin {None, serviceCache[n]} /\ NoFault) \/ Fault
          /\ Failed /\ UNCHANGED services
    /\ UNCHANGED <<endpoints, environment>>

(* The error of Create is dropped.  currentService becomes the desired     *)
(* one, which has a UID only when the server made it.                      *)
CreateService ==
    /\ pc = "create"
    /\ LET n == current IN
       \/ /\ services[n] = None /\ NoFault
          /\ services' = Put(services, n,
                             ServiceForPeer(peerService, status[peerService]))
          /\ hasUID' = TRUE
       \/ /\ (services[n] # None /\ NoFault) \/ Fault
          /\ hasUID' = FALSE /\ UNCHANGED services
    /\ Goto("endpoints")
    /\ UNCHANGED <<endpoints, failed, environment>>

(* Mutant: Endpoints that are found are left as they are.                  *)
KeepEndpoints ==
    /\ pc = "endpoints" /\ endpointsCache[current] # None
    /\ Continue /\ NoFault
    /\ UNCHANGED <<endpoints, failed, services, environment>>

(* Found in the cache: updated with the desired subsets.                   *)
UpdateEndpoints ==
    /\ pc = "endpoints" /\ endpointsCache[current] # None
    /\ LET n == current IN
       \/ /\ endpoints[n] = endpointsCache[n] /\ NoFault
          /\ endpoints' = Put(endpoints, n, DesiredEndpoints)
          /\ Continue /\ UNCHANGED failed
       \/ /\ endpoints[n] = None /\ NoFault
          /\ Goto("createEndpoints") /\ UNCHANGED <<endpoints, hasUID, failed>>
       \/ /\ (endpoints[n] \notin {None, endpointsCache[n]} /\ NoFault) \/ Fault
          /\ Failed /\ UNCHANGED endpoints
    /\ UNCHANGED <<services, environment>>

(* An owner without a UID is refused, as is what exists already.           *)
CreateEndpoints ==
    /\ \/ pc = "createEndpoints"
       \/ pc = "endpoints" /\ endpointsCache[current] = None
    /\ LET n == current IN
       \/ /\ endpoints[n] = None /\ hasUID /\ NoFault
          /\ endpoints' = Put(endpoints, n, DesiredEndpoints)
          /\ Continue /\ UNCHANGED failed
       \/ /\ endpoints[n] # None \/ ~hasUID
          /\ NoFault
          /\ Failed /\ UNCHANGED endpoints
       \/ /\ Fault
          /\ Failed /\ UNCHANGED endpoints
    /\ UNCHANGED <<services, environment>>

(* What the loop has not come across is deleted, by name.                  *)
DeleteExtra(n) ==
    /\ pc = "next" /\ peerServices = {}
    /\ n \in preexisting /\ preexisting' = preexisting \ {n}
    /\ \/ /\ services' = Put(services, n, None)
          /\ NoFault /\ UNCHANGED failed
       \/ /\ Fault
          /\ failed' = TRUE /\ UNCHANGED services
    /\ UNCHANGED <<endpoints, pc, peerServices, peerService, status, hasUID,
                   environment>>

(* With an error or without, there will be another reconcile.              *)
Return ==
    /\ pc = "next" /\ peerServices = {} /\ preexisting = {}
    /\ WorkerIdle /\ undisturbed' = FALSE /\ UNCHANGED faults
    /\ UNCHANGED <<services, endpoints, environment>>

-----------------------------------------------------------------------------
WorkerStep ==
    \/ EnsurePeerServices
    \/ \E s \in PeerService : NextPeerService(s)
    \/ UpdateService \/ CreateService \/ UpdateEndpoints \/ CreateEndpoints
    \/ \E n \in Name : DeleteExtra(n)
    \/ Return

Next ==
    \/ WorkerStep
    \/ \E s \in PeerService, v \in Value \cup {None} : StatusChanges(s, v)
    \/ WatchStatus
    \/ \E n \in Name : \/ WatchService(n) \/ WatchEndpoints(n)
                        \/ EndpointsController(n) \/ UserDeletes(n)
    \/ Crash

Spec == Init /\ [][Next]_vars

(* Watches deliver, the endpoints controller works, and the worker, which  *)
(* each of its ends schedules again, goes on.                              *)
Fairness ==
    /\ WF_vars(WorkerStep) /\ WF_vars(WatchStatus)
    /\ \A n \in Name : /\ WF_vars(WatchService(n)) /\ WF_vars(WatchEndpoints(n))
                       /\ WF_vars(EndpointsController(n))

FairSpec == Spec /\ Fairness

-----------------------------------------------------------------------------
(* Properties.                                                             *)

(* Every variable holds a value of its kind.                               *)
TypeOK ==
    /\ published \in [PeerService -> Value \cup {None}]
    /\ publishedCache \in [PeerService -> Value \cup {None}]
    /\ status \in [PeerService -> Value \cup {None}]
    /\ services \in [Name -> Service \cup {None}]
    /\ serviceCache \in [Name -> Service \cup {None}]
    /\ endpoints \in [Name -> Value \cup {None}]
    /\ endpointsCache \in [Name -> Value \cup {None}]
    /\ pc \in {"idle", "next", "update", "create", "endpoints",
               "createEndpoints"}
    /\ peerServices \subseteq PeerService
    /\ peerService \in PeerService \cup {None}
    /\ preexisting \subseteq Name
    /\ hasUID \in BOOLEAN /\ failed \in BOOLEAN
    /\ edits \in 0..MaxEdits /\ faults \in 0..MaxFaults
    /\ ever \subseteq PeerService \X Value /\ undisturbed \in BOOLEAN

(* Traffic for a peer service goes only where that peer service, or one of *)
(* the same name, said at some time that it listens.                       *)
EndpointsWerePublished ==
    \A n \in Name : endpoints[n] # None =>
        \E s \in PeerService : NameOf[s] = n /\ <<s, endpoints[n]>> \in ever

(* However calls fail in between, the worker does not delete the Service   *)
(* of a peer service that the status it works from lists.                  *)
ListedNotDeleted ==
    [][\A s \in PeerService :
          LET n == NameOf[s]
          IN  (/\ pc # "idle" /\ status[s] # None
               /\ services[n] # None /\ services'[n] = None)
              => faults' # faults]_vars

(* One round is enough, if the caches were up to date when it began, if no *)
(* call has failed, nobody has interfered, and no two of the listed have   *)
(* one name: when it is through, each of the listed has its Service and    *)
(* its Endpoints, nothing else is left, and no error is returned.          *)
Distinct ==
    \A r, s \in PeerService :
        (status[r] # None /\ status[s] # None /\ NameOf[r] = NameOf[s])
            => r = s

MirroredAs(s) ==
    LET n == NameOf[s]
    IN  /\ services[n] # None /\ services[n].annotations = s
        /\ endpoints[n] = status[s]

RoundMirrors ==
    (/\ undisturbed /\ Distinct
     /\ pc = "next" /\ peerServices = {} /\ preexisting = {}) =>
        /\ ~failed
        /\ \A s \in PeerService : status[s] # None => MirroredAs(s)
        /\ \A n \in Name : services[n] # None =>
              \E s \in PeerService : NameOf[s] = n /\ status[s] # None

(* Once nothing changes any more, there is one Service for each published  *)
(* peer service, with the endpoints it published, and none besides.        *)
Listed(n) == {s \in PeerService : NameOf[s] = n /\ published[s] # None}

Mirrored(n) ==
    IF Listed(n) = {}
    THEN services[n] = None /\ endpoints[n] = None
    ELSE /\ services[n] # None /\ services[n].annotations \in Listed(n)
         /\ endpoints[n] = published[services[n].annotations]

MirrorsSettle == <>[](\A n \in Name : Mirrored(n))

(* A Service is updated if it changed: its ports become those of the peer. *)
PortsSettle ==
    <>[](\A s \in PeerService :
            (published[s] # None /\ services[NameOf[s]] # None)
                => services[NameOf[s]].ports = published[s])
=============================================================================
