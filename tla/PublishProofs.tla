----------------------------- MODULE PublishProofs -----------------------------
(***************************************************************************)
(* That a reconcile is never forgotten, and that at rest the own entry is  *)
(* current, for any number of Services and nodes, any interval and any     *)
(* number of changes, failed calls and crashes.                            *)
(***************************************************************************)
EXTENDS PublishLoop, LocalProofs

(* What a services map holds of a service.                                 *)
IsService(v) ==
    \/ v = Absent
    \/ /\ v = [named |-> v.named, endpoints |-> v.endpoints, ports |-> v.ports]
       /\ v.named \in BOOLEAN /\ Ordered(v.endpoints)

IsMap(map) ==
    map = [n \in Name |-> map[n]] /\ \A n \in Name : IsService(map[n])

IsEntry(e) ==
    /\ e = [services |-> e.services, lastUpdate |-> e.lastUpdate]
    /\ IsMap(e.services) /\ e.lastUpdate \in 0..Never

EntriesInv ==
    /\ IsEntry(status) /\ IsEntry(cache)
    /\ IsEntry(selfStatus) /\ IsEntry(answer) /\ IsMap(current)

NodesInv ==
    /\ nodes \in [Node -> NodeState] /\ seenNodes \in [Node -> NodeState]
    /\ nodeList = Absent \/ nodeList \in [Node -> BOOLEAN]

(* A copy is not younger than what the server has, unless the last stamp   *)
(* was on its way while time went on.                                      *)
AgeInv ==
    ~slow => /\ status.lastUpdate <= cache.lastUpdate
             /\ rpc = "mirroring" => status.lastUpdate <= selfStatus.lastUpdate

TimerInv ==
    /\ timer \in 0..NoTimer /\ faults \in Nat
    /\ queued \in BOOLEAN /\ missed \in BOOLEAN /\ slow \in BOOLEAN
    /\ NeverForgotten

(* What the worker may list now if nothing fails.                          *)
Listed == GetLocalServiceMap(seenServices, seenNodes)

(* Unless a request is queued, the entry that the worker read is still in  *)
(* the cache, and what it is about to patch differs from that.             *)
ReadInv ==
    (process = "up" /\ ~queued) =>
        /\ rpc \in {"mirroring", "patching"} =>
              selfStatus.services = cache.services
        /\ rpc = "patching" => current # selfStatus.services

(* When the worker is past its reads, the entry is current, or an event of *)
(* the ServiceSync or a request is still to come.                          *)
CurrentInv ==
    (/\ process = "up" /\ ~queued /\ ~overlooked
     /\ rpc \in {"idle", "publishing", "stamping"}
     /\ cache.services = status.services) => status.services \in Listed

Inv == EntriesInv /\ NodesInv /\ AgeInv /\ TimerInv /\ ReadInv /\ CurrentInv

-----------------------------------------------------------------------------
(* Entries and maps.                                                       *)

LEMMA NothingIsMap == IsMap(Nothing)
BY DEF IsMap, IsService, Nothing

LEMMA EmptyIsEntry ==
    /\ IsEntry(EmptyEntry) /\ EmptyEntry.lastUpdate = Never
    /\ EmptyEntry.services = Nothing
BY NothingIsMap, PublishLoopAssumption DEF IsEntry, EmptyEntry, Never

LEMMA OlderEntry ==
    ASSUME NEW e, IsEntry(e)
    PROVE  /\ IsEntry(Older(e)) /\ Older(e).services = e.services
           /\ Older(e).lastUpdate = IF e.lastUpdate <= Interval
                                    THEN e.lastUpdate + 1 ELSE e.lastUpdate
<1>1. Older(e) = [services |-> e.services,
                  lastUpdate |-> IF e.lastUpdate <= Interval
                                 THEN e.lastUpdate + 1 ELSE e.lastUpdate]
  BY DEF IsEntry, Older
<1>2. (IF e.lastUpdate <= Interval THEN e.lastUpdate + 1 ELSE e.lastUpdate)
        \in 0..Never
  BY PublishLoopAssumption DEF IsEntry, Never
<1> QED BY <1>1, <1>2 DEF IsEntry

LEMMA DatedEntry ==
    ASSUME NEW e, IsEntry(e), NEW t \in 0..Never
    PROVE  LET d == [e EXCEPT !.lastUpdate = t]
           IN  IsEntry(d) /\ d.services = e.services /\ d.lastUpdate = t
<1>1. [e EXCEPT !.lastUpdate = t] = [services |-> e.services, lastUpdate |-> t]
  BY DEF IsEntry
<1> QED BY <1>1 DEF IsEntry

LEMMA FilledEntry ==
    ASSUME NEW e, IsEntry(e), NEW map, IsMap(map)
    PROVE  LET d == [e EXCEPT !.services = map]
           IN  IsEntry(d) /\ d.services = map /\ d.lastUpdate = e.lastUpdate
<1>1. [e EXCEPT !.services = map] = [services |-> map, lastUpdate |-> e.lastUpdate]
  BY DEF IsEntry
<1> QED BY <1>1 DEF IsEntry

LEMMA LocalIsService ==
    ASSUME NEW s, NEW endpoints, Ordered(endpoints)
    PROVE  IsService(LocalService(s, endpoints))
<1>1. CASE s \notin DOMAIN PortListsOf
  BY <1>1 DEF LocalService, IsService
<1>2. CASE s \in DOMAIN PortListsOf
  <2>1. s \in Service
    BY <1>2 DEF PortListsOf
  <2>2. Ordered(EndpointsForIngresses(s.ingress))
    BY <2>1, IngressesOrdered
  <2> QED BY <1>2, <2>2 DEF LocalService, IsService
<1> QED BY <1>1, <1>2

LEMMA LocalIsMap ==
    ASSUME NEW seen, NEW list \in [Node -> NodeState],
           NEW map \in GetLocalServiceMap(seen, list)
    PROVE  IsMap(map)
<1>1. PICK endpoints \in ByAddress(EndpointsForHosts(list)) :
         map = [n \in Name |-> LocalService(seen[n], endpoints)]
  BY DEF GetLocalServiceMap
<1>2. \A e \in EndpointsForHosts(list) : e.ipAddress \in Nat
  BY PublishLoopAssumption DEF EndpointsForHosts
<1>3. Ordered(endpoints)
  BY <1>2, HostsFinite, ByAddressOrdered
<1> QED BY <1>1, <1>3, LocalIsService DEF IsMap

LEMMA EmptyIsService ==
    /\ IsService(EmptyService)
    /\ EmptyService = [named |-> EmptyService.named,
                       endpoints |-> EmptyService.endpoints,
                       ports |-> EmptyService.ports]
    /\ EmptyService.named \in BOOLEAN /\ Ordered(EmptyService.endpoints)
<1>1. Ordered(<<>>)
  <2>1. DOMAIN <<>> = 1..0 /\ <<>> = [i \in DOMAIN <<>> |-> <<>>[i]]
    OBVIOUS
  <2>2. \A i \in DOMAIN <<>> : FALSE
    BY <2>1
  <2> QED BY <2>1, <2>2 DEF Ordered
<1> QED BY <1>1 DEF IsService, EmptyService

(* Field by field, a patch makes a service of services; and where it       *)
(* changes something, that is not what it was.                             *)
LEMMA MergedFields ==
    ASSUME NEW was, NEW is, NEW held,
           was = [named |-> was.named, endpoints |-> was.endpoints,
                  ports |-> was.ports],
           is = [named |-> is.named, endpoints |-> is.endpoints,
                 ports |-> is.ports],
           is.named \in BOOLEAN, held.named \in BOOLEAN,
           Ordered(is.endpoints), Ordered(held.endpoints)
    PROVE  /\ IsService(MergeFields(was, is, held))
           /\ is # was => MergeFields(was, is, held) # was
<1> DEFINE merged == MergeFields(was, is, held)
<1>1. /\ merged = [named |-> merged.named, endpoints |-> merged.endpoints,
                   ports |-> merged.ports]
      /\ merged.named = MergeField(was.named, is.named, held.named)
      /\ merged.endpoints
            = MergeField(was.endpoints, is.endpoints, held.endpoints)
      /\ merged.ports = MergeField(was.ports, is.ports, held.ports)
  BY DEF MergeFields
<1> HIDE DEF merged
<1>2. IsService(merged)
  BY <1>1 DEF IsService, MergeField
<1>3. ASSUME is # was PROVE merged # was
  <2>1. \/ is.named # was.named \/ is.endpoints # was.endpoints
        \/ is.ports # was.ports
    BY <1>3
  <2> QED BY <1>1, <2>1 DEF MergeField
<1> QED BY <1>2, <1>3 DEF merged

LEMMA MergedService ==
    ASSUME NEW was, NEW is, NEW held,
           IsService(was), IsService(is), IsService(held)
    PROVE  /\ IsService(MergeService(was, is, held))
           /\ is # was => MergeService(was, is, held) # was
<1>1. CASE is = was \/ was = Absent \/ is = Absent
  BY <1>1 DEF MergeService
<1>2. CASE is # was /\ was # Absent /\ is # Absent
  <2> DEFINE base == IF held = Absent THEN EmptyService ELSE held
  <2>1. MergeService(was, is, held) = MergeFields(was, is, base)
    BY <1>2 DEF MergeService
  <2>2. base.named \in BOOLEAN /\ Ordered(base.endpoints)
    BY EmptyIsService DEF IsService
  <2>3. /\ was = [named |-> was.named, endpoints |-> was.endpoints,
                  ports |-> was.ports]
        /\ is = [named |-> is.named, endpoints |-> is.endpoints,
                 ports |-> is.ports]
        /\ is.named \in BOOLEAN /\ Ordered(is.endpoints)
    BY <1>2 DEF IsService
  <2> HIDE DEF base
  <2> QED BY <2>1, <2>2, <2>3, MergedFields
<1> QED BY <1>1, <1>2

(* A patch that changes something leaves something other than what the     *)
(* copy it was computed from had, whatever the server holds.               *)
LEMMA MergedMap ==
    ASSUME NEW was, NEW is, NEW held, IsMap(was), IsMap(is), IsMap(held)
    PROVE  /\ IsMap(MergeServices(was, is, held))
           /\ is # was => MergeServices(was, is, held) # was
<1>1. CASE is = Nothing
  BY <1>1, NothingIsMap DEF MergeServices
<1>2. CASE is # Nothing
  <2> DEFINE merged == [n \in Name |-> MergeService(was[n], is[n], held[n])]
  <2>1. MergeServices(was, is, held) = merged
    BY <1>2 DEF MergeServices
  <2>2. \A n \in Name : IsService(merged[n])
    BY MergedService DEF IsMap
  <2>3. ASSUME is # was PROVE merged # was
    <3>1. PICK n \in Name : is[n] # was[n]
      BY <2>3 DEF IsMap
    <3>2. merged[n] # was[n]
      BY <3>1, MergedService DEF IsMap
    <3> QED BY <3>2
  <2> QED BY <2>1, <2>2, <2>3 DEF IsMap
<1> QED BY <1>1, <1>2

(* What moves when.                                                        *)
LEMMA NoTimerTyped == NoTimer \in 0..NoTimer
BY PublishLoopAssumption DEF NoTimer

LEMMA FaultsGrow ==
    ASSUME faults \in Nat, NoFault \/ Fault
    PROVE  faults' \in Nat /\ (faults' = 0 => faults = 0 /\ NoFault)
BY PublishLoopAssumption DEF NoFault, Fault

(* A stamp that was not slow is the present time.                          *)
LEMMA StampedStatus ==
    ASSUME EntriesInv, slow \in BOOLEAN, NEW age \in 0..Never, Stamp(age)
    PROVE  /\ IsEntry(status') /\ status'.services = status.services
           /\ slow' \in BOOLEAN
           /\ \/ NoFault /\ (~slow' => status'.lastUpdate = 0)
              \/ Fault /\ UNCHANGED <<status, slow>>
<1>1. CASE status' = [status EXCEPT !.lastUpdate = age]
           /\ slow' = (age # 0) /\ NoFault
  BY <1>1, DatedEntry DEF EntriesInv
<1>2. CASE UNCHANGED <<status, slow>> /\ Fault
  BY <1>2 DEF EntriesInv
<1> QED BY <1>1, <1>2 DEF Stamp

LEMMA InitInv == ASSUME Init PROVE Inv
<1>1. EntriesInv
  BY EmptyIsEntry, NothingIsMap DEF Init, EntriesInv
<1>2. NodesInv
  BY PublishLoopAssumption DEF Init, NodesInv
<1>3. AgeInv
  BY EmptyIsEntry, PublishLoopAssumption DEF Init, AgeInv, Never
<1>4. TimerInv
  BY NoTimerTyped DEF Init, TimerInv, NeverForgotten
<1>5. ReadInv /\ CurrentInv
  BY DEF Init, ReadInv, CurrentInv
<1> QED BY <1>1, <1>2, <1>3, <1>4, <1>5 DEF Inv

-----------------------------------------------------------------------------
(* The clock, the users and the process.                                   *)

LEMMA TickKeepsInv == ASSUME Inv, Tick PROVE Inv'
<1> USE DEF Inv
<1>1. /\ IsEntry(status') /\ IsEntry(cache') /\ IsEntry(selfStatus')
      /\ IsEntry(answer')
      /\ status'.services = status.services
      /\ cache'.services = cache.services
      /\ selfStatus'.services = selfStatus.services
  BY OlderEntry DEF Tick, EntriesInv
<1>2. EntriesInv' /\ NodesInv'
  BY <1>1 DEF Tick, EntriesInv, NodesInv, objects
<1>3. /\ status.lastUpdate \in 0..Never /\ cache.lastUpdate \in 0..Never
      /\ selfStatus.lastUpdate \in 0..Never
  BY DEF EntriesInv, IsEntry
<1>4. /\ status'.lastUpdate = IF status.lastUpdate <= Interval
                              THEN status.lastUpdate + 1 ELSE status.lastUpdate
      /\ cache'.lastUpdate = IF cache.lastUpdate <= Interval
                             THEN cache.lastUpdate + 1 ELSE cache.lastUpdate
      /\ selfStatus'.lastUpdate =
            IF selfStatus.lastUpdate <= Interval
            THEN selfStatus.lastUpdate + 1 ELSE selfStatus.lastUpdate
  BY OlderEntry DEF Tick, EntriesInv
<1>5. AgeInv'
  BY <1>3, <1>4, PublishLoopAssumption DEF Tick, AgeInv, Never
<1>6. TimerInv'
  <2>1. timer' \in 0..NoTimer /\ (timer # NoTimer => timer' # NoTimer)
    BY PublishLoopAssumption DEF Tick, TimerInv, NoTimer, TooLong
  <2>2. timer + status.lastUpdate <= TooLong =>
            timer' + status'.lastUpdate <= TooLong
    BY <1>3, <1>4, PublishLoopAssumption
       DEF Tick, TimerInv, NoTimer, TooLong, Never
  <2> QED BY <2>1, <2>2 DEF Tick, TimerInv, NeverForgotten
<1>7. ReadInv'
  BY <1>1 DEF Tick, ReadInv
<1>8. CurrentInv'
  BY <1>1 DEF Tick, CurrentInv, Listed
<1> QED BY <1>2, <1>5, <1>6, <1>7, <1>8

LEMMA EditKeepsInv ==
    ASSUME Inv, Edit, nodes' \in [Node -> NodeState] PROVE Inv'
<1> USE DEF Inv, Edit, caches, queue, worker, callback
<1>1. EntriesInv' /\ AgeInv'
  BY DEF EntriesInv, AgeInv
<1>2. NodesInv'
  BY DEF NodesInv
<1>3. TimerInv'
  BY DEF TimerInv, NeverForgotten
<1>4. ReadInv' /\ CurrentInv'
  BY DEF ReadInv, CurrentInv, Listed
<1> QED BY <1>1, <1>2, <1>3, <1>4

LEMMA CrashKeepsInv == ASSUME Inv, Crash PROVE Inv'
<1> USE DEF Inv, Crash, WorkerIdle, objects, caches
<1>1. EntriesInv'
  BY EmptyIsEntry, NothingIsMap DEF EntriesInv
<1>2. NodesInv' /\ AgeInv'
  BY DEF NodesInv, AgeInv
<1>3. TimerInv'
  BY FaultsGrow, NoTimerTyped DEF TimerInv, NeverForgotten
<1>4. ReadInv' /\ CurrentInv'
  BY DEF ReadInv, CurrentInv
<1> QED BY <1>1, <1>2, <1>3, <1>4

LEMMA RestartKeepsInv == ASSUME Inv, Restart PROVE Inv'
<1> USE DEF Inv, Restart, Enqueue, objects, worker, callback
<1>1. EntriesInv'
  BY DEF EntriesInv
<1>2. NodesInv'
  BY DEF NodesInv
<1>3. status.lastUpdate \in Nat
  BY PublishLoopAssumption DEF EntriesInv, IsEntry, Never
<1>4. AgeInv'
  BY <1>3 DEF AgeInv
<1>5. TimerInv'
  BY DEF TimerInv, NeverForgotten
<1>6. ReadInv' /\ CurrentInv'
  BY DEF ReadInv, CurrentInv
<1> QED BY <1>1, <1>2, <1>4, <1>5, <1>6

-----------------------------------------------------------------------------
(* The watches.                                                            *)

LEMMA LostEvent ==
    ASSUME TimerInv, EventLost
    PROVE  /\ overlooked' /\ queued' = queued /\ timer' = timer
           /\ missed' = missed /\ faults' \in Nat
           /\ faults' = 0 => faults = 0
BY FaultsGrow DEF EventLost, TimerInv, queue

(* What holds of the queue after a step in which the worker does nothing   *)
(* and at most a request is added.                                         *)
LEMMA QueueKept ==
    ASSUME TimerInv, queued' \in BOOLEAN, queued => queued',
           UNCHANGED <<timer, missed, process, rpc>>, slow' \in BOOLEAN,
           \/ UNCHANGED <<status, slow>>
           \/ ~slow' => status'.lastUpdate = 0,
           faults' \in Nat, faults' = 0 => faults = 0
    PROVE  TimerInv'
<1>1. timer \in 0..NoTimer /\ NoTimer = TooLong + 1 /\ TooLong \in Nat
  BY PublishLoopAssumption DEF TimerInv, NoTimer, TooLong
<1>2. /\ timer # NoTimer /\ ~slow'
      /\ ~slow => timer + status.lastUpdate <= TooLong
      => timer + status'.lastUpdate <= TooLong
  BY <1>1
<1>3. TooLong' = TooLong /\ NoTimer' = NoTimer
  BY DEF TooLong, NoTimer
<1>4. NeverForgotten'
  BY <1>2, <1>3 DEF TimerInv, NeverForgotten
<1> QED BY <1>3, <1>4 DEF TimerInv

LEMMA AgesTyped ==
    ASSUME EntriesInv
    PROVE  /\ status.lastUpdate \in Nat /\ cache.lastUpdate \in Nat
           /\ selfStatus.lastUpdate \in Nat
BY PublishLoopAssumption DEF EntriesInv, IsEntry, Never

LEMMA WatchServiceKeepsInv ==
    ASSUME Inv, NEW n \in Name, WatchService(n) PROVE Inv'
<1> USE DEF Inv
<1>1. EntriesInv' /\ NodesInv' /\ AgeInv'
  BY DEF WatchService, unchangedByWatch, objects, worker, callback,
         EntriesInv, NodesInv, AgeInv
<1>2. \/ queued' = TRUE /\ UNCHANGED <<timer, missed>> /\ NoFault
      \/ EventLost
  BY DEF WatchService, EnqueueAll, Enqueue
<1>3. /\ queued' \in BOOLEAN /\ (queued => queued')
      /\ UNCHANGED <<timer, missed>>
      /\ faults' \in Nat /\ (faults' = 0 => faults = 0)
      /\ queued' \/ (overlooked' /\ queued' = queued)
  BY <1>2, LostEvent DEF NoFault, TimerInv
<1>4. UNCHANGED <<process, rpc, status, slow, cache, selfStatus, current>>
  BY DEF WatchService, unchangedByWatch, worker
<1>5. TimerInv'
  BY <1>3, <1>4, QueueKept DEF TimerInv
<1>6. ReadInv' /\ CurrentInv'
  BY <1>3, <1>4 DEF ReadInv, CurrentInv
<1> QED BY <1>1, <1>5, <1>6

LEMMA WatchStatusKeepsInv == ASSUME Inv, WatchStatus PROVE Inv'
<1> USE DEF Inv
<1>1. UNCHANGED <<process, rpc, status, slow, selfStatus, current, faults>>
  BY DEF WatchStatus, unchangedByWatch, worker
<1>2. EntriesInv' /\ NodesInv'
  BY DEF WatchStatus, unchangedByWatch, objects, worker, callback,
         EntriesInv, NodesInv
<1>3. AgeInv'
  BY <1>1, AgesTyped DEF WatchStatus, AgeInv
<1>4. TimerInv'
  BY <1>1, QueueKept DEF WatchStatus, Enqueue, TimerInv
<1>5. ReadInv' /\ CurrentInv'
  BY DEF WatchStatus, Enqueue, ReadInv, CurrentInv
<1> QED BY <1>2, <1>3, <1>4, <1>5

LEMMA WatchOtherKeepsInv == ASSUME Inv, WatchOther PROVE Inv'
<1> USE DEF Inv
<1>1. UNCHANGED <<process, rpc, status, slow, cache, selfStatus, current,
                  faults>>
  BY DEF WatchOther, worker, caches
<1>2. EntriesInv' /\ NodesInv' /\ AgeInv'
  BY <1>1 DEF WatchOther, caches, callback, EntriesInv, NodesInv, AgeInv
<1>3. TimerInv'
  BY <1>1, QueueKept DEF WatchOther, Enqueue, TimerInv
<1>4. ReadInv' /\ CurrentInv'
  BY DEF WatchOther, Enqueue, ReadInv, CurrentInv
<1> QED BY <1>2, <1>3, <1>4

LEMMA TimerFiresKeepsInv == ASSUME Inv, TimerFires PROVE Inv'
<1> USE DEF Inv
<1>1. UNCHANGED <<process, rpc, status, slow, cache, selfStatus, current>>
  BY DEF TimerFires, unchangedByWatch, worker, caches
<1>2. EntriesInv' /\ NodesInv' /\ AgeInv'
  BY <1>1 DEF TimerFires, unchangedByWatch, objects, caches, callback,
              EntriesInv, NodesInv, AgeInv
<1>3. TimerInv'
  BY <1>1, NoTimerTyped DEF TimerFires, TimerInv, NeverForgotten, NoTimer
<1>4. ReadInv' /\ CurrentInv'
  BY DEF TimerFires, ReadInv, CurrentInv
<1> QED BY <1>2, <1>3, <1>4

LEMMA ListTyped ==
    ASSUME NEW seen
    PROVE  LocalNodeList(seen) \in [Node -> BOOLEAN]
BY DEF LocalNodeList

LEMMA NotedTyped ==
    ASSUME NEW list \in [Node -> BOOLEAN], NEW n \in Node,
           NEW v \in NodeState \ {Absent}
    PROVE  Noted(list, n, v) \in [Node -> BOOLEAN]
BY PublishLoopAssumption DEF Noted

(* An event that the handler sees nothing in, and that is not one it       *)
(* cannot see, leaves the endpoints what they are.                         *)
LEMMA UnchangedEndpoints ==
    ASSUME NodesInv, NEW n \in Node, nodeList # Absent,
           ~NodeEvent(n).changed, ~Invisible(n),
           seenNodes' = [seenNodes EXCEPT ![n] = nodes[n]]
    PROVE  EndpointsForHosts(seenNodes') = EndpointsForHosts(seenNodes)
<1>1. seenNodes[n] # Absent /\ nodes[n] # Absent
  <2>1. nodes[n] # Absent
    BY DEF Invisible
  <2>2. ASSUME seenNodes[n] = Absent PROVE FALSE
    <3>1. ~nodes[n].unschedulable /\ ~nodeList[n]
      BY <2>2 DEF Invisible
    <3>2. nodes[n].unschedulable # nodeList[n]
      BY <2>1, <2>2 DEF NodeEvent, SchedulabilityChanged
    <3>3. nodes[n].unschedulable \in BOOLEAN /\ nodeList[n] \in BOOLEAN
      BY <2>1, PublishLoopAssumption DEF NodesInv
    <3> QED BY <3>1, <3>2, <3>3
  <2> QED BY <2>1, <2>2
<1>2. nodes[n].address = seenNodes[n].address
  BY <1>1 DEF Invisible
<1>3. \A k \in Node : /\ seenNodes'[k] = Absent <=> seenNodes[k] = Absent
                      /\ seenNodes[k] # Absent =>
                            seenNodes'[k].address = seenNodes[k].address
  BY <1>1, <1>2 DEF NodesInv
<1> QED BY <1>3 DEF EndpointsForHosts

LEMMA WatchNodeKeepsInv ==
    ASSUME Inv, NEW n \in Node, WatchNode(n) PROVE Inv'
<1> USE DEF Inv
<1>1. UNCHANGED <<nodes, process, rpc, status, slow, cache, selfStatus,
                  current, answer, seenServices>>
  BY DEF WatchNode, unchangedByWatch, objects, worker, callback
<1>2. EntriesInv' /\ AgeInv'
  BY <1>1 DEF EntriesInv, AgeInv
<1>3. nodeList' \in [Node -> BOOLEAN]
  <2>1. nodeList \in [Node -> BOOLEAN]
    BY DEF WatchNode, NodesInv
  <2>2. seenNodes[n] \in NodeState /\ nodes[n] \in NodeState
    BY DEF NodesInv
  <2>3. NodeEvent(n).list \in [Node -> BOOLEAN]
    BY <2>1, <2>2, NotedTyped DEF NodeEvent
  <2> QED BY <2>3 DEF WatchNode
<1>4. NodesInv'
  BY <1>1, <1>3 DEF WatchNode, NodesInv
<1>5. NodeEvent(n).changed \in BOOLEAN
  BY DEF NodeEvent
<1>6. /\ queued' \in BOOLEAN /\ (queued => queued')
      /\ UNCHANGED <<timer, missed>>
      /\ faults' \in Nat /\ (faults' = 0 => faults = 0)
  BY <1>5, LostEvent DEF WatchNode, NoFault, TimerInv
<1>7. TimerInv'
  BY <1>1, <1>6, QueueKept DEF TimerInv
<1>8. ReadInv'
  BY <1>1, <1>6 DEF ReadInv
<1>9. ASSUME ~queued', ~overlooked' PROVE Listed' = Listed /\ ~overlooked
  <2>1. ~NodeEvent(n).changed /\ ~Invisible(n) /\ ~overlooked
    BY <1>9, LostEvent DEF WatchNode
  <2>2. EndpointsForHosts(seenNodes') = EndpointsForHosts(seenNodes)
    BY <2>1, UnchangedEndpoints DEF WatchNode
  <2> QED BY <1>1, <2>1, <2>2 DEF Listed, GetLocalServiceMap
<1>10. CurrentInv'
  BY <1>1, <1>6, <1>9 DEF CurrentInv
<1> QED BY <1>2, <1>4, <1>7, <1>8, <1>10

LEMMA FirstNodeEventKeepsInv ==
    ASSUME Inv, NEW n \in Node, FirstNodeEvent(n) PROVE Inv'
<1> USE DEF Inv
<1>1. UNCHANGED <<nodes, process, rpc, status, slow, cache, selfStatus,
                  current, answer, seenServices>>
  BY DEF FirstNodeEvent, unchangedByWatch, objects, worker, callback
<1>2. EntriesInv' /\ AgeInv'
  BY <1>1 DEF EntriesInv, AgeInv
<1>3. NodesInv'
  BY <1>1, ListTyped DEF FirstNodeEvent, NodesInv
<1>4. \/ queued' = TRUE /\ UNCHANGED <<timer, missed>> /\ NoFault
      \/ EventLost
  BY DEF FirstNodeEvent, EnqueueAll, Enqueue
<1>5. /\ queued' \in BOOLEAN /\ (queued => queued')
      /\ UNCHANGED <<timer, missed>>
      /\ faults' \in Nat /\ (faults' = 0 => faults = 0)
      /\ queued' \/ overlooked'
  BY <1>4, LostEvent DEF NoFault, TimerInv
<1>6. TimerInv'
  BY <1>1, <1>5, QueueKept DEF TimerInv
<1>7. ReadInv' /\ CurrentInv'
  BY <1>1, <1>5 DEF ReadInv, CurrentInv
<1> QED BY <1>2, <1>3, <1>6, <1>7

-----------------------------------------------------------------------------
(* The worker.                                                             *)

LEMMA ReconcileKeepsInv == ASSUME Inv, Reconcile PROVE Inv'
<1> USE DEF Inv
<1>1. UNCHANGED <<nodes, seenNodes, nodeList, process, status, slow, cache,
                  current, answer, seenServices, timer, faults>>
  BY DEF Reconcile, unchangedByWorker, objects, caches, callback
<1>2. rpc' = "mirroring" /\ selfStatus' = cache /\ ~queued' /\ ~missed'
  BY DEF Reconcile
<1>3. EntriesInv' /\ NodesInv' /\ AgeInv'
  BY <1>1, <1>2 DEF EntriesInv, NodesInv, AgeInv
<1>4. TimerInv'
  BY <1>1, <1>2 DEF Reconcile, TimerInv, NeverForgotten, NoTimer
<1>5. ReadInv' /\ CurrentInv'
  BY <1>1, <1>2 DEF ReadInv, CurrentInv
<1> QED BY <1>3, <1>4, <1>5

LEMMA RetryKeepsInv == ASSUME Inv, Retry PROVE Inv'
<1> USE DEF Inv, Retry, WorkerIdle, Enqueue, unchangedByWorker, objects, caches,
            callback
<1>1. EntriesInv'
  BY EmptyIsEntry, NothingIsMap DEF EntriesInv
<1>2. NodesInv' /\ AgeInv'
  BY DEF NodesInv, AgeInv
<1>3. TimerInv'
  BY FaultsGrow DEF TimerInv, NeverForgotten, NoTimer
<1>4. ReadInv' /\ CurrentInv'
  BY DEF ReadInv, CurrentInv
<1> QED BY <1>1, <1>2, <1>3, <1>4

(* Nothing is due: the reconcile is called again when the publish is, or   *)
(* the delay was not positive.                                             *)
LEMMA RequeuedInTime ==
    ASSUME TimerInv, EntriesInv, NEW age \in Nat, ~PublishDue(age),
           ~slow => status.lastUpdate <= age, RequeueAfter(age)
    PROVE  /\ queued' = queued /\ timer' \in 0..NoTimer /\ missed' \in BOOLEAN
           /\ ~missed' => /\ timer' # NoTimer
                          /\ ~slow => timer' + status.lastUpdate <= TooLong
<1>1. age <= Interval /\ Interval \in Nat /\ timer \in 0..NoTimer
  BY PublishLoopAssumption DEF PublishDue, TimerInv
<1>2. status.lastUpdate \in Nat
  BY AgesTyped
<1>3. CASE age = Interval /\ missed' = TRUE /\ UNCHANGED timer
  BY <1>1, <1>3 DEF RequeueAfter
<1>4. CASE AddAfter(Interval + 1 - age) /\ UNCHANGED missed
  <2>1. timer' \in 0..NoTimer /\ timer' <= Interval + 1 - age
    BY <1>1, <1>4 DEF AddAfter, NoTimer
  <2>2. timer' # NoTimer /\ (~slow => timer' + status.lastUpdate <= TooLong)
    BY <1>1, <1>2, <2>1 DEF NoTimer, TooLong
  <2> QED BY <1>4, <2>1, <2>2 DEF RequeueAfter, TimerInv
<1> QED BY <1>3, <1>4 DEF RequeueAfter

(* The comparison sorts, which leaves lists in the order of their          *)
(* addresses as they are; so what it compares are the maps themselves.     *)
LEMMA SortedOrdered ==
    ASSUME NEW list, Ordered(list)
    PROVE  SortedByAddress(list) = list
<1>1. PICK n \in Nat : DOMAIN list = 1..n
  BY DEF Ordered
<1>2. ASSUME NEW i \in 1..n PROVE Rank(list, i) = i
  <2>1. {j \in 1..n : \/ list[j].ipAddress < list[i].ipAddress
                      \/ list[j].ipAddress = list[i].ipAddress /\ j <= i}
           = 1..i
    <3>1. \A j \in 1..n :
             /\ list[j].ipAddress \in Nat /\ list[i].ipAddress \in Nat
             /\ j < i => list[j].ipAddress <= list[i].ipAddress
             /\ i < j => list[i].ipAddress <= list[j].ipAddress
      BY <1>1 DEF Ordered
    <3>2. \A j \in 1..n : j < i \/ j = i \/ i < j
      BY <1>2
    <3>3. 1..i \subseteq 1..n /\ \A j \in 1..n : j \in 1..i <=> j <= i
      BY <1>1, <1>2
    <3> QED BY <3>1, <3>2, <3>3
  <2>2. Cardinality(1..i) = i
    BY <1>2, FS_Interval
  <2> QED BY <1>1, <2>1, <2>2 DEF Rank
<1>3. ASSUME NEW k \in 1..n
      PROVE  (CHOOSE i \in 1..n : Rank(list, i) = k) = k
  BY <1>2
<1> QED BY <1>1, <1>3 DEF SortedByAddress, Ordered

LEMMA ChangedMaps ==
    ASSUME NEW map, NEW other, IsMap(map), IsMap(other)
    PROVE  LocalChanged(map, other) <=> map # other
<1>1. ASSUME NEW v, IsService(v) PROVE Normal(v) = v
  <2>1. CASE v = Absent
    BY <2>1 DEF Normal
  <2>2. CASE v # Absent
    <3>1. /\ v = [named |-> v.named, endpoints |-> v.endpoints,
                  ports |-> v.ports]
          /\ SortedByAddress(v.endpoints) = v.endpoints
      BY <1>1, <2>2, SortedOrdered DEF IsService
    <3>2. Normal(v) = [v EXCEPT !.endpoints = v.endpoints]
      BY <2>2, <3>1 DEF Normal
    <3> QED BY <3>1, <3>2
  <2> QED BY <2>1, <2>2
<1>2. \A n \in Name : Normal(map[n]) = map[n] /\ Normal(other[n]) = other[n]
  BY <1>1 DEF IsMap
<1>3. map # other <=> \E n \in Name : map[n] # other[n]
  BY DEF IsMap
<1> QED BY <1>2, <1>3 DEF LocalChanged

(* The three ways on from the list of Services and nodes.                  *)
LEMMA EnsureCases ==
    ASSUME EntriesInv, NodesInv, EnsureLocalStatus
    PROVE  \E list \in GetNodes(seenNodes) :
           \E listed \in GetLocalServiceMap(seenServices, list) :
              LET age == selfStatus.lastUpdate
              IN  /\ IsMap(listed)
                  /\ list = seenNodes \/ overlooked'
                  /\ NoFault \/ Fault
                  /\ \/ /\ selfStatus.services # listed
                        /\ rpc' = "patching" /\ current' = listed
                        /\ selfStatus' = [selfStatus EXCEPT !.lastUpdate = Never]
                        /\ UNCHANGED queue
                     \/ /\ selfStatus.services = listed
                        /\ rpc' = "publishing" /\ current' = listed
                        /\ selfStatus' = EmptyEntry
                        /\ UNCHANGED queue
                     \/ /\ selfStatus.services = listed
                        /\ WorkerIdle
                        /\ ~PublishDue(age) /\ RequeueAfter(age)
<1>1. ASSUME NEW list \in GetNodes(seenNodes),
             NEW listed \in GetLocalServiceMap(seenServices, list)
      PROVE  /\ IsMap(listed)
             /\ LocalChanged(selfStatus.services, listed)
                   <=> selfStatus.services # listed
  <2>1. list \in [Node -> NodeState]
    <3>1. Absent \in NodeState
      BY DEF NodeState
    <3> QED BY <3>1 DEF GetNodes, NoNodes, NodesInv
  <2>2. IsMap(listed)
    BY <2>1, LocalIsMap
  <2> QED BY <2>2, ChangedMaps DEF EntriesInv, IsEntry
<1> QED BY <1>1 DEF EnsureLocalStatus

LEMMA EnsureKeepsInv == ASSUME Inv, EnsureLocalStatus PROVE Inv'
<1> USE DEF Inv
<1>1. /\ UNCHANGED <<nodes, seenNodes, nodeList, process, status, slow, cache,
                     seenServices, answer>>
      /\ process = "up" /\ rpc = "mirroring"
      /\ faults' \in Nat /\ (faults' = 0 => faults = 0)
  <2>1. NoFault \/ Fault
    BY EnsureCases
  <2> QED BY <2>1, FaultsGrow DEF EnsureLocalStatus, Worker, TimerInv,
             unchangedByWorker, objects, caches, callback
<1>2. NodesInv'
  BY <1>1 DEF NodesInv
<1>3. PICK list, listed :
         /\ list \in GetNodes(seenNodes) /\ IsMap(listed)
         /\ listed \in GetLocalServiceMap(seenServices, list)
         /\ LET age == selfStatus.lastUpdate
            IN  /\ list = seenNodes \/ overlooked'
                /\ \/ /\ selfStatus.services # listed
                      /\ rpc' = "patching" /\ current' = listed
                      /\ selfStatus' = [selfStatus EXCEPT !.lastUpdate = Never]
                      /\ UNCHANGED queue
                   \/ /\ selfStatus.services = listed
                      /\ rpc' = "publishing" /\ current' = listed
                      /\ selfStatus' = EmptyEntry
                      /\ UNCHANGED queue
                   \/ /\ selfStatus.services = listed
                      /\ WorkerIdle
                      /\ ~PublishDue(age) /\ RequeueAfter(age)
  BY EnsureCases
<1>4. IsMap(listed)
  BY <1>3
<1>5. ~overlooked' => listed \in Listed'
  BY <1>1, <1>3 DEF Listed
<1>6. CASE /\ selfStatus.services # listed
           /\ rpc' = "patching" /\ current' = listed
           /\ selfStatus' = [selfStatus EXCEPT !.lastUpdate = Never]
           /\ UNCHANGED queue
  <2>1. Never \in 0..Never
    BY PublishLoopAssumption DEF Never
  <2>2. IsEntry(selfStatus') /\ selfStatus'.services = selfStatus.services
    BY <1>6, <2>1, DatedEntry DEF EntriesInv
  <2>3. EntriesInv' /\ AgeInv'
    BY <1>1, <1>4, <1>6, <2>2 DEF EntriesInv, AgeInv
  <2>4. TimerInv'
    BY <1>1, <1>6 DEF queue, TimerInv, NeverForgotten, NoTimer
  <2>5. ReadInv' /\ CurrentInv'
    BY <1>1, <1>6, <2>2 DEF queue, ReadInv, CurrentInv
  <2> QED BY <1>2, <2>3, <2>4, <2>5
<1>7. CASE /\ selfStatus.services = listed
           /\ rpc' = "publishing" /\ current' = listed
           /\ selfStatus' = EmptyEntry
           /\ UNCHANGED queue
  <2>1. EntriesInv' /\ AgeInv'
    BY <1>1, <1>4, <1>7, EmptyIsEntry DEF EntriesInv, AgeInv
  <2>2. TimerInv'
    BY <1>1, <1>7 DEF queue, TimerInv, NeverForgotten, NoTimer
  <2>3. ReadInv' /\ CurrentInv'
    BY <1>1, <1>5, <1>7 DEF queue, ReadInv, CurrentInv
  <2> QED BY <1>2, <2>1, <2>2, <2>3
<1>8. CASE /\ selfStatus.services = listed
           /\ WorkerIdle
           /\ ~PublishDue(selfStatus.lastUpdate)
           /\ RequeueAfter(selfStatus.lastUpdate)
  <2>1. EntriesInv' /\ AgeInv'
    BY <1>1, <1>8, EmptyIsEntry, NothingIsMap DEF WorkerIdle, EntriesInv, AgeInv
  <2>2. /\ queued' = queued /\ timer' \in 0..NoTimer /\ missed' \in BOOLEAN
        /\ ~missed' => /\ timer' # NoTimer
                       /\ ~slow => timer' + status.lastUpdate <= TooLong
    BY <1>1, <1>8, RequeuedInTime, AgesTyped DEF AgeInv
  <2>3. TimerInv'
    BY <1>1, <2>2 DEF TimerInv, NeverForgotten, NoTimer, TooLong
  <2>4. ReadInv' /\ CurrentInv'
    BY <1>1, <1>5, <1>8, <2>2 DEF WorkerIdle, ReadInv, CurrentInv
  <2> QED BY <1>2, <2>1, <2>3, <2>4
<1> QED BY <1>3, <1>6, <1>7, <1>8

LEMMA PatchKeepsInv == ASSUME Inv, PatchLocalStatus PROVE Inv'
<1> USE DEF Inv
<1>1. /\ UNCHANGED <<nodes, seenNodes, nodeList, process, cache, current, slow,
                     answer, seenServices, queued, timer, missed, faults>>
      /\ rpc = "patching" /\ rpc' = "publishing" /\ selfStatus' = EmptyEntry
  BY DEF PatchLocalStatus, Worker, unchangedByWorker, objects, caches, queue,
         callback
<1> DEFINE merged ==
        MergeServices(selfStatus.services, current, status.services)
<1>2. /\ IsMap(merged)
      /\ current # selfStatus.services => merged # selfStatus.services
  BY MergedMap DEF EntriesInv, IsEntry
<1>3. status' = [status EXCEPT !.services = merged]
  BY DEF PatchLocalStatus, EntriesInv, IsEntry
<1>4. /\ IsEntry(status') /\ status'.services = merged
      /\ status'.lastUpdate = status.lastUpdate
  BY <1>2, <1>3, FilledEntry DEF EntriesInv
<1>5. EntriesInv' /\ AgeInv' /\ NodesInv'
  BY <1>1, <1>4, EmptyIsEntry DEF EntriesInv, AgeInv, NodesInv
<1>6. TimerInv'
  BY <1>1 DEF TimerInv, NeverForgotten, NoTimer
<1>7. ReadInv' /\ CurrentInv'
  BY <1>1, <1>2, <1>4 DEF ReadInv, CurrentInv
<1> QED BY <1>5, <1>6, <1>7

LEMMA PublishKeepsInv == ASSUME Inv, PublishLocal PROVE Inv'
<1> USE DEF Inv
<1>1. /\ UNCHANGED <<nodes, seenNodes, nodeList, process, status, slow, cache,
                     current, answer, seenServices, queued, timer, missed,
                     overlooked>>
      /\ rpc = "publishing" /\ rpc' = "stamping"
      /\ selfStatus' = [selfStatus EXCEPT !.lastUpdate = 0]
  BY DEF PublishLocal, Worker, unchangedByWorker, objects, caches, queue,
         callback
<1>2. faults' \in Nat /\ (faults' = 0 => faults = 0)
  BY FaultsGrow DEF PublishLocal, Send, TimerInv
<1>3. EntriesInv' /\ AgeInv' /\ NodesInv'
  <2>1. 0 \in 0..Never
    BY PublishLoopAssumption DEF Never
  <2>2. IsEntry(selfStatus')
    BY <1>1, <2>1, DatedEntry DEF EntriesInv
  <2> QED BY <1>1, <2>2 DEF EntriesInv, AgeInv, NodesInv
<1>4. TimerInv'
  BY <1>1, <1>2 DEF TimerInv, NeverForgotten, NoTimer
<1>5. ReadInv' /\ CurrentInv'
  BY <1>1 DEF ReadInv, CurrentInv, Listed
<1> QED BY <1>3, <1>4, <1>5

LEMMA StampKeepsInv == ASSUME Inv, StampLocal PROVE Inv'
<1> USE DEF Inv
<1>1. /\ UNCHANGED <<nodes, seenNodes, nodeList, process, cache, answer,
                     seenServices, queued, missed, overlooked>>
      /\ rpc = "stamping" /\ rpc' = "idle" /\ selfStatus' = EmptyEntry
      /\ current' = Nothing /\ Stamp(selfStatus.lastUpdate)
      /\ AddAfter(Interval + 1)
  BY DEF StampLocal, Worker, WorkerIdle, unchangedByWorker, objects, caches,
         callback
<1>2. /\ IsEntry(status') /\ status'.services = status.services
      /\ slow' \in BOOLEAN
      /\ \/ NoFault /\ (~slow' => status'.lastUpdate = 0)
         \/ Fault /\ UNCHANGED <<status, slow>>
  BY <1>1, StampedStatus DEF TimerInv, EntriesInv, IsEntry
<1>3. EntriesInv' /\ NodesInv'
  BY <1>1, <1>2, EmptyIsEntry, NothingIsMap DEF EntriesInv, NodesInv
<1>4. AgeInv'
  BY <1>1, <1>2, AgesTyped DEF AgeInv
<1>5. TimerInv'
  <2>1. /\ timer' \in 0..NoTimer /\ timer' # NoTimer /\ timer' <= TooLong
        /\ TooLong \in Nat
    BY <1>1, PublishLoopAssumption DEF AddAfter, TimerInv, NoTimer, TooLong
  <2>2. /\ faults' \in Nat
        /\ faults' = 0 /\ ~slow' => timer' + status'.lastUpdate <= TooLong
    BY <1>2, <2>1, PublishLoopAssumption
       DEF NoTimer, NoFault, Fault, TimerInv
  <2> QED BY <1>1, <1>2, <2>1, <2>2
          DEF TimerInv, NeverForgotten, NoTimer, TooLong
<1>6. ReadInv' /\ CurrentInv'
  BY <1>1, <1>2 DEF ReadInv, CurrentInv, Listed
<1> QED BY <1>3, <1>4, <1>5, <1>6

-----------------------------------------------------------------------------
(* The callback.                                                           *)

LEMMA AskedKeepsInv == ASSUME Inv, Asked PROVE Inv'
<1> USE DEF Inv, Asked, unchangedByGoroutine, objects, caches, queue, worker
<1>1. EntriesInv' /\ NodesInv' /\ AgeInv'
  <2>1. Never \in 0..Never
    BY PublishLoopAssumption DEF Never
  <2>2. IsEntry(answer')
    BY <2>1, DatedEntry DEF EntriesInv
  <2> QED BY <2>2 DEF EntriesInv, NodesInv, AgeInv
<1>2. TimerInv'
  BY DEF TimerInv, NeverForgotten
<1>3. ReadInv' /\ CurrentInv'
  BY DEF ReadInv, CurrentInv, Listed
<1> QED BY <1>1, <1>2, <1>3

LEMMA AnswerKeepsInv == ASSUME Inv, AnswerRequest PROVE Inv'
<1> USE DEF Inv
<1>1. /\ UNCHANGED <<nodes, seenNodes, nodeList, process, status, slow, cache,
                     rpc, selfStatus, current, seenServices, queued, timer,
                     missed, overlooked>>
      /\ answer' = [EmptyEntry EXCEPT !.lastUpdate = 0]
  BY DEF AnswerRequest, unchangedByGoroutine, objects, caches, queue, worker
<1>2. faults' \in Nat /\ (faults' = 0 => faults = 0)
  BY FaultsGrow DEF AnswerRequest, Send, TimerInv
<1>3. EntriesInv' /\ NodesInv' /\ AgeInv'
  <2>1. 0 \in 0..Never
    BY PublishLoopAssumption DEF Never
  <2>2. IsEntry(answer')
    BY <1>1, <2>1, EmptyIsEntry, DatedEntry
  <2> QED BY <1>1, <2>2 DEF EntriesInv, NodesInv, AgeInv
<1>4. TimerInv'
  BY <1>1, <1>2 DEF TimerInv, NeverForgotten, NoTimer, TooLong
<1>5. ReadInv' /\ CurrentInv'
  BY <1>1 DEF ReadInv, CurrentInv, Listed
<1> QED BY <1>3, <1>4, <1>5

LEMMA StampAnswerKeepsInv == ASSUME Inv, StampAnswer PROVE Inv'
<1> USE DEF Inv
<1>1. /\ UNCHANGED <<nodes, seenNodes, nodeList, process, cache, rpc,
                     selfStatus, current, seenServices, queued, timer, missed,
                     overlooked>>
      /\ Stamp(answer.lastUpdate) /\ answer' = EmptyEntry
  BY DEF StampAnswer, unchangedByGoroutine, objects, caches, queue, worker
<1>2. /\ IsEntry(status') /\ status'.services = status.services
      /\ slow' \in BOOLEAN
      /\ \/ NoFault /\ (~slow' => status'.lastUpdate = 0)
         \/ Fault /\ UNCHANGED <<status, slow>>
  BY <1>1, StampedStatus DEF TimerInv, EntriesInv, IsEntry
<1>3. EntriesInv' /\ NodesInv'
  BY <1>1, <1>2, EmptyIsEntry DEF EntriesInv, NodesInv
<1>4. AgeInv'
  BY <1>1, <1>2, AgesTyped DEF AgeInv
<1>5. faults' \in Nat /\ (faults' = 0 => faults = 0)
  BY <1>2, FaultsGrow DEF TimerInv
<1>6. TimerInv'
  BY <1>1, <1>2, <1>5, QueueKept DEF TimerInv
<1>7. ReadInv' /\ CurrentInv'
  BY <1>1, <1>2 DEF ReadInv, CurrentInv, Listed
<1> QED BY <1>3, <1>4, <1>6, <1>7

-----------------------------------------------------------------------------
LEMMA StutterKeepsInv == ASSUME Inv, UNCHANGED vars PROVE Inv'
<1> USE DEF Inv, vars, objects, caches, queue, worker, callback
<1>1. EntriesInv' /\ NodesInv' /\ AgeInv'
  BY DEF EntriesInv, NodesInv, AgeInv
<1>2. TimerInv'
  BY DEF TimerInv, NeverForgotten
<1>3. ReadInv' /\ CurrentInv'
  BY DEF ReadInv, CurrentInv, Listed
<1> QED BY <1>1, <1>2, <1>3

LEMMA NextKeepsInv == ASSUME Inv, Next PROVE Inv'
<1>1. CASE WatchObjects
  BY <1>1, WatchServiceKeepsInv, WatchNodeKeepsInv, FirstNodeEventKeepsInv
     DEF WatchObjects
<1>2. CASE WatchStatus \/ TimerFires
  BY <1>2, WatchStatusKeepsInv, TimerFiresKeepsInv
<1>3. CASE WorkerStep
  BY <1>3, ReconcileKeepsInv, EnsureKeepsInv, RetryKeepsInv, PatchKeepsInv,
     PublishKeepsInv, StampKeepsInv DEF WorkerStep, MirroringFails, PatchFails
<1>4. CASE AnswerStep
  BY <1>4, AnswerKeepsInv, StampAnswerKeepsInv DEF AnswerStep
<1>5. CASE EnvironmentStep
  <2>1. ASSUME NEW n \in Name, NEW s \in Service \cup {Absent},
               EditService(n, s)
        PROVE  Inv'
    BY <2>1, EditKeepsInv DEF EditService, Inv, NodesInv
  <2>2. ASSUME NEW n \in Node, NEW v \in NodeChoices[n], EditNode(n, v)
        PROVE  Inv'
    <3>1. v \in NodeState
      BY <2>2 DEF NodeState
    <3> QED BY <2>2, <3>1, EditKeepsInv DEF EditNode, Inv, NodesInv
  <2> QED BY <1>5, <2>1, <2>2, TickKeepsInv, WatchOtherKeepsInv,
             AskedKeepsInv, CrashKeepsInv, RestartKeepsInv DEF EnvironmentStep
<1> QED BY <1>1, <1>2, <1>3, <1>4, <1>5 DEF Next

(* Entries, ages, timers and reads are such that what the worker finds is  *)
(* never too old to be noticed.                                            *)
THEOREM PublishInvariant == Spec => []Inv
<1>1. Init => Inv
  BY InitInv
<1>2. Inv /\ [Next]_vars => Inv'
  BY NextKeepsInv, StutterKeepsInv
<1> QED BY <1>1, <1>2, PTL DEF Spec

(* Reconcile's result, line 266, and publish's, line 300: whatever fails   *)
(* and whenever it ends, the worker does not come to rest without a call   *)
(* to come, except where the delay was not positive; and that call is not  *)
(* later than the publish is due as long as no call failed and the last    *)
(* stamp was not on its way for long.                                      *)
THEOREM NeverForgottenHolds == Spec => []NeverForgotten
<1>1. Inv => NeverForgotten
  BY DEF Inv, TimerInv
<1> QED BY <1>1, PublishInvariant, PTL

(* The watches and ensureLocalStatus together: at rest the own entry says  *)
(* what the Services and the nodes make of it, through stale reads, failed *)
(* patches and crashes, unless an event was lost or not seen.              *)
THEOREM QuietMeansCurrentHolds == Spec => []QuietMeansCurrent
<1>1. Inv => QuietMeansCurrent
  BY DEF Inv, CurrentInv, QuietMeansCurrent, Quiet, Listed, Locals
<1> QED BY <1>1, PublishInvariant, PTL

-----------------------------------------------------------------------------
(* The rest of the state: what is sent are maps of services too.           *)

RangeInv ==
    /\ services \in [Name -> Service \cup {Absent}]
    /\ seenServices \in [Name -> Service \cup {Absent}]
    /\ IsMap(sent)
    /\ rpc \in {"idle", "mirroring", "patching", "publishing", "stamping"}
    /\ cpc \in {"idle", "publishing", "stamping"}
    /\ process \in {"up", "down"} /\ overlooked \in BOOLEAN
    /\ edits \in 0..MaxEdits /\ faults \in 0..MaxFaults

LEMMA Bounded ==
    ASSUME RangeInv
    PROVE  /\ NoFault \/ Fault => faults' \in 0..MaxFaults
           /\ edits < MaxEdits /\ edits' = edits + 1 => edits' \in 0..MaxEdits
BY PublishLoopAssumption DEF RangeInv, NoFault, Fault

LEMMA WatchKeepsRange == ASSUME RangeInv, WatchObjects PROVE RangeInv'
<1>1. CASE \E n \in Name : WatchService(n)
  <2>1. PICK n \in Name : WatchService(n)
    BY <1>1
  <2>2. overlooked' \in BOOLEAN /\ faults' \in 0..MaxFaults
    BY <2>1, Bounded DEF WatchService, EnqueueAll, EventLost, RangeInv
  <2> QED BY <2>1, <2>2
          DEF WatchService, unchangedByWatch, objects, worker, callback, RangeInv
<1>2. CASE \E n \in Node : FirstNodeEvent(n)
  <2>1. PICK n \in Node : FirstNodeEvent(n)
    BY <1>2
  <2>2. overlooked' \in BOOLEAN /\ faults' \in 0..MaxFaults
    BY <2>1, Bounded DEF FirstNodeEvent, EnqueueAll, EventLost, RangeInv
  <2> QED BY <2>1, <2>2 DEF FirstNodeEvent, unchangedByWatch, objects, worker,
                            callback, RangeInv
<1>3. CASE \E n \in Node : WatchNode(n)
  <2>1. PICK n \in Node : WatchNode(n)
    BY <1>3
  <2>2. overlooked \in BOOLEAN /\ Invisible(n) \in BOOLEAN
    BY DEF RangeInv, Invisible
  <2>3. overlooked' \in BOOLEAN
    BY <2>1, <2>2 DEF WatchNode, EventLost
  <2>4. faults' \in 0..MaxFaults
    BY <2>1, Bounded DEF WatchNode, EventLost
  <2> QED BY <2>1, <2>3, <2>4 DEF WatchNode, unchangedByWatch, objects, worker,
                                  callback, RangeInv
<1> QED BY <1>1, <1>2, <1>3 DEF WatchObjects

LEMMA WorkerKeepsRange == ASSUME EntriesInv, RangeInv, WorkerStep PROVE RangeInv'
<1> USE DEF RangeInv, Worker, WorkerIdle, unchangedByWorker, objects, caches,
            callback
<1>1. ASSUME Retry PROVE RangeInv'
  BY <1>1, Bounded DEF Retry
<1>2. CASE Reconcile
  BY <1>2 DEF Reconcile
<1>3. CASE EnsureLocalStatus
  <2>1. overlooked' \in BOOLEAN /\ (NoFault \/ Fault)
    BY <1>3 DEF EnsureLocalStatus
  <2>2. rpc' \in {"idle", "patching", "publishing"}
    BY <1>3 DEF EnsureLocalStatus
  <2> QED BY <1>3, <2>1, <2>2, Bounded DEF EnsureLocalStatus
<1>4. CASE MirroringFails \/ PatchFails
  BY <1>1, <1>4 DEF MirroringFails, PatchFails
<1>5. CASE PatchLocalStatus
  BY <1>5 DEF PatchLocalStatus
<1>6. CASE PublishLocal
  BY <1>6, Bounded DEF PublishLocal, Send, EntriesInv
<1>7. CASE StampLocal
  BY <1>7, Bounded DEF StampLocal, Stamp
<1> QED BY <1>2, <1>3, <1>4, <1>5, <1>6, <1>7 DEF WorkerStep

LEMMA EnvironmentKeepsRange ==
    ASSUME EntriesInv, RangeInv, EnvironmentStep PROVE RangeInv'
<1> USE DEF RangeInv, objects, worker, callback
<1>1. CASE Tick
  BY <1>1 DEF Tick
<1>2. CASE WatchOther
  BY <1>2, Bounded DEF WatchOther, Enqueue, caches
<1>3. CASE Asked
  BY <1>3 DEF Asked, unchangedByGoroutine, caches, EntriesInv, IsEntry
<1>4. CASE Crash
  BY <1>4, Bounded, NothingIsMap DEF Crash, WorkerIdle, caches
<1>5. CASE Restart
  BY <1>5 DEF Restart, Enqueue
<1>6. ASSUME NEW n \in Name, NEW s \in Service \cup {Absent}, EditService(n, s)
      PROVE  RangeInv'
  BY <1>6, Bounded DEF EditService, Edit, caches
<1>7. ASSUME NEW n \in Node, NEW v \in NodeChoices[n], EditNode(n, v)
      PROVE  RangeInv'
  BY <1>7, Bounded DEF EditNode, Edit, caches
<1> QED BY <1>1, <1>2, <1>3, <1>4, <1>5, <1>6, <1>7 DEF EnvironmentStep

LEMMA NextKeepsRange == ASSUME EntriesInv, RangeInv, Next PROVE RangeInv'
<1> USE DEF RangeInv, objects, worker, callback
<1>1. CASE WatchStatus
  BY <1>1 DEF WatchStatus, Enqueue, unchangedByWatch
<1>2. CASE TimerFires
  BY <1>2 DEF TimerFires, unchangedByWatch, caches
<1>3. CASE AnswerStep
  <2> USE DEF unchangedByGoroutine, caches
  <2>1. CASE AnswerRequest
    BY <2>1, Bounded DEF AnswerRequest, Send, EntriesInv, IsEntry
  <2>2. CASE StampAnswer
    BY <2>2, Bounded, NothingIsMap DEF StampAnswer, Stamp
  <2> QED BY <1>3, <2>1, <2>2 DEF AnswerStep
<1> HIDE DEF RangeInv, objects, worker, callback
<1> QED BY <1>1, <1>2, <1>3, WatchKeepsRange, WorkerKeepsRange,
           EnvironmentKeepsRange DEF Next

(* Whatever is read and sent, also in answer to a request, is a map of     *)
(* services, and the rest of the loop's state stays in its range.          *)
THEOREM PublishRanges == Spec => []RangeInv
<1>1. ASSUME Init PROVE RangeInv
  <2>1. services \in [Name -> Service \cup {Absent}] /\ seenServices = services
    BY <1>1 DEF Init
  <2>2. 0 \in 0..MaxEdits /\ 0 \in 0..MaxFaults
    BY PublishLoopAssumption
  <2> QED BY <1>1, <2>1, <2>2, NothingIsMap DEF Init, RangeInv
<1>2. ASSUME EntriesInv, RangeInv, [Next]_vars PROVE RangeInv'
  <2>1. CASE UNCHANGED vars
    BY <1>2, <2>1 DEF vars, objects, caches, worker, callback, RangeInv
  <2> QED BY <1>2, <2>1, NextKeepsRange
<1>3. Inv => EntriesInv
  BY DEF Inv
<1> QED BY <1>1, <1>2, <1>3, PublishInvariant, PTL DEF Spec

(* Whatever is patched over what, field by field and from stale copies,    *)
(* the status, its copies and the messages hold maps of services whose     *)
(* endpoints are in the order of their addresses and none of them twice.   *)
(* That a service has a port does not follow (MergeFields).                *)
THEOREM PublishTypeCorrect == Spec => []TypeOK
<1>1. ASSUME NEW map, IsMap(map)
      PROVE  DOMAIN map = Name /\ \A n \in Name : PeerService(map[n])
  BY <1>1 DEF IsMap, IsService, Ordered, PeerService
<1>2. Inv /\ RangeInv => TypeOK
  BY <1>1 DEF Inv, EntriesInv, NodesInv, TimerInv, IsEntry, RangeInv, TypeOK
<1> QED BY <1>2, PublishInvariant, PublishRanges, PTL

-----------------------------------------------------------------------------
(* getLocalServiceMap makes two lists of ports in one array and sorts      *)
(* both: of a list of ports in ascending order, of eleven at most, the     *)
(* entry nevertheless records, at rest, exactly the node ports of the      *)
(* Service.                                                                *)
THEOREM NodePortsRecordedHolds == Spec => []NodePortsRecorded
<1>1. ASSUME NEW s \in Service, NEW endpoints, ~ByLoadBalancer(s), InOrder(s)
      PROVE  IF NodePorts(s) = {} THEN LocalService(s, endpoints) = Absent
             ELSE MembersOf(LocalService(s, endpoints).ports) = NodePorts(s)
  <2>1. CASE WithNodePort(s) = <<>>
    <3>1. NodePorts(s) = {}
      <4>1. MembersOf(WithNodePort(s)) = {}
        BY <2>1 DEF MembersOf
      <4> QED BY <4>1, KeptPorts DEF NodePorts
    <3>2. LocalService(s, endpoints) = Absent
      BY <2>1 DEF LocalService, PortListsOf
    <3> QED BY <3>1, <3>2
  <2>2. CASE WithNodePort(s) # <<>>
    <3>1. /\ MembersOf(PortLists(s).ports) = NodePorts(s)
          /\ PortLists(s).ports \in Seq(Pair) \ {<<>>}
      BY <1>1, <2>2, PortListsFilled
    <3>2. LocalService(s, endpoints) =
             [named |-> TRUE, endpoints |-> endpoints,
              ports |-> PortLists(s).ports]
      BY <1>1, <2>2 DEF LocalService, PortListsOf
    <3>3. MembersOf(PortLists(s).ports) # {}
      <4>1. 1 \in DOMAIN PortLists(s).ports
        BY <3>1
      <4> QED BY <4>1 DEF MembersOf
    <3> QED BY <3>1, <3>2, <3>3
  <2> QED BY <2>1, <2>2
<1>2. QuietMeansCurrent /\ RangeInv => NodePortsRecorded
  <2>1. SUFFICES ASSUME QuietMeansCurrent, RangeInv, NEW n \in Name,
                        Quiet, ~overlooked, services[n] # Absent,
                        ~ByLoadBalancer(services[n]), InOrder(services[n])
                 PROVE  IF NodePorts(services[n]) = {}
                        THEN status.services[n] = Absent
                        ELSE MembersOf(status.services[n].ports)
                                = NodePorts(services[n])
    BY DEF NodePortsRecorded
  <2>2. PICK endpoints :
           status.services = [k \in Name |-> LocalService(services[k], endpoints)]
    BY <2>1 DEF QuietMeansCurrent, Locals, GetLocalServiceMap
  <2>3. services[n] \in Service
    BY <2>1 DEF RangeInv
  <2>4. status.services[n] = LocalService(services[n], endpoints)
    BY <2>2
  <2> QED BY <1>1, <2>1, <2>3, <2>4
<1> QED BY <1>2, QuietMeansCurrentHolds, PublishRanges, PTL
=============================================================================
