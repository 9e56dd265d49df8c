------------------------------ MODULE PublishLoop ------------------------------
(***************************************************************************)
(* What makes a robot publish, and when: the watches that turn changes of  *)
(* Services, nodes and the ServiceSync into requests, the request queue    *)
(* with its timer, the reconcile that lists, records, publishes and asks   *)
(* to be called again, and the callback that publishes for a peer that     *)
(* asks.  One process, one ServiceSync, of which only the entry of this    *)
(* cluster matters.                                                        *)
(*                                                                         *)
(* Time is relative: a LastUpdate is an age in ticks, rounded up, and the  *)
(* timer counts ticks down.  Ages past the interval are all the same, so   *)
(* two copies that differ in such ages only count as equal.                *)
(*                                                                         *)
(* A step is a call to the API server or the topic with what follows it up *)
(* to the next call: the clock is read for a stamp in the step before its  *)
(* patch, and the request is put off in the step of the patch.  The own    *)
(* entry is not pruned here: Spec.PrunePeerAtAge is taken to be 0 (Robot   *)
(* has the pruning).                                                       *)
(*                                                                         *)
(*   services, nodes          the objects at the API server                *)
(*   seenServices, seenNodes  the same in the informer caches              *)
(*   status, cache            the own entry at the server and in the cache *)
(*   nodeList                 the node watch's map of names, Absent if nil *)
(*   queued, timer            the request queue: an item, a delayed item   *)
(*   rpc, selfStatus, current the reconcile worker, as in Robot; when it   *)
(*                            is about to stamp, the LastUpdate of         *)
(*                            selfStatus is the stamp that it carries      *)
(*   cpc, answer              the callback: where it is, what it read, and *)
(*                            the stamp that it carries                    *)
(*   sent                     history: the last map the topic took         *)
(*   slow                     history: the last stamp came to the server a *)
(*                            tick or more after its clock was read        *)
(*   missed                   history: a reconcile came to its end with    *)
(*                            nothing to call the next one                 *)
(*   overlooked               history: a change no reconcile follows       *)
(***************************************************************************)
EXTENDS LocalServices

CONSTANTS
    InitialNodes,         \* the nodes there may be at first, Absent for none
    NodeChoices,          \* the states that each node may come to be in
    Asking,               \* whether peers send broadcast requests
    Interval,             \* Spec.ReconcileInterval in ticks
    MaxEdits,             \* bound on changes of Services and nodes
    MaxFaults             \* bound on failed calls and crashes

NodeState == (UNION {NodeChoices[n] : n \in Node}) \cup {Absent}

ASSUME PublishLoopAssumption ==
    /\ Interval \in Nat /\ MaxEdits \in Nat /\ MaxFaults \in Nat
    /\ Asking \in BOOLEAN
    /\ InitialNodes \subseteq [Node -> NodeState]
    /\ \A v \in NodeState \ {Absent} :
          v.address \in Nat /\ v.unschedulable \in BOOLEAN

VARIABLES
    services, nodes, seenServices, seenNodes, status, cache,
    process, nodeList, queued, timer,
    rpc, selfStatus, current, cpc, answer,
    sent, missed, overlooked, slow, edits, faults

objects == <<services, nodes, edits>>
caches == <<seenServices, seenNodes, cache>>
queue == <<queued, timer, missed>>
worker == <<rpc, selfStatus, current>>
callback == <<cpc, answer>>
vars == <<objects, caches, status, process, nodeList, queue, worker, callback,
          sent, overlooked, slow, faults>>

-----------------------------------------------------------------------------
TooLong == Interval + 1       \* longer ago than the interval
Never == Interval + 2         \* the zero time
NoTimer == Interval + 2

Older(e) == [e EXCEPT !.lastUpdate = IF @ <= Interval THEN @ + 1 ELSE @]

Nothing == [n \in Name |-> Absent]
EmptyEntry == [services |-> Nothing, lastUpdate |-> Never]

NoFault == UNCHANGED faults
Fault == faults < MaxFaults /\ faults' = faults + 1

Init ==
    /\ services \in [Name -> Service] /\ seenServices = services
    /\ nodes \in InitialNodes /\ seenNodes = nodes
    /\ status = EmptyEntry /\ cache = EmptyEntry
    /\ process = "up" /\ nodeList = Absent
    /\ queued = TRUE /\ timer = NoTimer
    /\ rpc = "idle" /\ selfStatus = EmptyEntry /\ current = Nothing
    /\ cpc = "idle" /\ answer = EmptyEntry
    /\ sent = Nothing /\ missed = FALSE /\ overlooked = FALSE /\ slow = FALSE
    /\ edits = 0 /\ faults = 0

-----------------------------------------------------------------------------
(* The clock and the users of the cluster.                                 *)

Tick ==
    /\ status' = Older(status) /\ cache' = Older(cache)
    /\ selfStatus' = Older(selfStatus) /\ answer' = Older(answer)
    /\ timer' = IF timer \in 1..TooLong THEN timer - 1 ELSE timer
    /\ UNCHANGED <<objects, seenServices, seenNodes, process, nodeList, queued,
                   missed, rpc, current, cpc, sent, overlooked, slow, faults>>

Edit ==
    /\ edits < MaxEdits /\ edits' = edits + 1
    /\ UNCHANGED <<caches, status, process, nodeList, queue, worker, callback,
                   sent, overlooked, slow, faults>>

EditService(n, s) ==
    /\ s # services[n] /\ Edit
    /\ services' = [services EXCEPT ![n] = s] /\ UNCHANGED nodes

EditNode(n, v) ==
    /\ v # nodes[n] /\ Edit
    /\ nodes' = [nodes EXCEPT ![n] = v] /\ UNCHANGED services

-----------------------------------------------------------------------------
(* The watches: each event updates the cache and goes to the handler that  *)
(* says which requests to queue.                                           *)

Enqueue == queued' = TRUE /\ UNCHANGED <<timer, missed>>
unchangedByWatch == <<objects, status, process, worker, callback, sent, slow>>

(* The ServiceSyncs cannot be listed: the event leads to no request.       *)
EventLost == Fault /\ overlooked' = TRUE /\ UNCHANGED queue

(* enqueueAllServiceSyncs *)
EnqueueAll == \/ Enqueue /\ NoFault /\ UNCHANGED overlooked
              \/ EventLost

WatchService(n) ==
    /\ process = "up" /\ seenServices[n] # services[n]
    /\ seenServices' = [seenServices EXCEPT ![n] = services[n]]
    /\ EnqueueAll
    /\ UNCHANGED <<seenNodes, cache, nodeList, unchangedByWatch>>

(* Every event of the ServiceSync is let through.                          *)
WatchStatus ==
    /\ process = "up" /\ cache # status
    /\ cache' = status
    /\ Enqueue
    /\ UNCHANGED <<seenServices, seenNodes, nodeList, overlooked, faults,
                   unchangedByWatch>>

(* The entry of a peer, an owned Service or Endpoints has changed.         *)
WatchOther ==
    /\ process = "up" /\ ~queued
    /\ edits < MaxEdits /\ edits' = edits + 1
    /\ Enqueue
    /\ UNCHANGED <<caches, nodeList, overlooked, faults, services, nodes,
                   status, process, worker, callback, sent, slow>>

(* getLocalNodeList: who can be scheduled on.  A name that the map lacks   *)
(* reads FALSE.                                                            *)
LocalNodeList(seen) ==
    [n \in Node |-> seen[n] # Absent /\ ~seen[n].unschedulable]

(* Mutant: the map is taken to say who cannot be scheduled on.             *)
CordonChanged(list, n, node) == node.unschedulable # list[n]

(* Something changed: a node is what the list says it is not.              *)
SchedulabilityChanged(list, n, node) == node.unschedulable = list[n]

Noted(list, n, node) ==
    IF SchedulabilityChanged(list, n, node)
    THEN [list EXCEPT ![n] = ~node.unschedulable] ELSE list

(* An update calls the handler with the old object, then with the new one; *)
(* a creation or deletion with the only one there is.                      *)
NodeEvent(n) ==
    LET old == seenNodes[n]
        new == nodes[n]
        between == IF old = Absent THEN nodeList ELSE Noted(nodeList, n, old)
    IN  [list    |-> IF new = Absent THEN between ELSE Noted(between, n, new),
         changed |->
            \/ old # Absent /\ SchedulabilityChanged(nodeList, n, old)
            \/ new # Absent /\ SchedulabilityChanged(between, n, new)]

(* What the handler cannot see: a node that leaves, changes its address,   *)
(* arrives cordoned or comes back under its name.                          *)
Invisible(n) ==
    LET old == seenNodes[n]
        new == nodes[n]
    IN  \/ new = Absent
        \/ old # Absent /\ new # Absent /\ old.address # new.address
        \/ old = Absent /\ (new.unschedulable \/ nodeList[n])

(* The change is noted before the ServiceSyncs are listed.                 *)
WatchNode(n) ==
    /\ process = "up" /\ nodeList # Absent /\ seenNodes[n] # nodes[n]
    /\ seenNodes' = [seenNodes EXCEPT ![n] = nodes[n]]
    /\ nodeList' = NodeEvent(n).list
    /\ \/ /\ queued' = (queued \/ NodeEvent(n).changed)
          /\ overlooked' = (overlooked \/ Invisible(n))
          /\ UNCHANGED <<timer, missed>> /\ NoFault
       \/ NodeEvent(n).changed /\ EventLost
    /\ UNCHANGED <<seenServices, cache, unchangedByWatch>>

(* The first event, of any node, fills the list.  It is one of those that  *)
(* the informer makes of the nodes there are when it starts.               *)
FirstNodeEvent(n) ==
    /\ process = "up" /\ nodeList = Absent
    /\ seenNodes[n] # Absent \/ nodes[n] # Absent
    /\ seenNodes' = [seenNodes EXCEPT ![n] = nodes[n]]
    /\ \/ nodeList' = LocalNodeList(seenNodes') /\ EnqueueAll
       \/ UNCHANGED nodeList /\ EventLost
    /\ UNCHANGED <<seenServices, cache, unchangedByWatch>>

(* A delayed item is due.                                                  *)
TimerFires ==
    /\ process = "up" /\ timer = 0
    /\ timer' = NoTimer /\ queued' = TRUE /\ UNCHANGED missed
    /\ UNCHANGED <<caches, nodeList, overlooked, faults, unchangedByWatch>>

-----------------------------------------------------------------------------
(* The reconcile worker.                                                   *)

Worker(at) == process = "up" /\ rpc = at
unchangedByWorker == <<objects, caches, process, nodeList, callback>>

WorkerIdle == rpc' = "idle" /\ selfStatus' = EmptyEntry /\ current' = Nothing

(* A request that is added while the worker is at it is queued again.      *)
Reconcile ==
    /\ Worker("idle") /\ queued
    /\ queued' = FALSE /\ missed' = FALSE /\ UNCHANGED timer
    /\ rpc' = "mirroring" /\ selfStatus' = cache
    /\ UNCHANGED <<current, status, sent, overlooked, slow, faults,
                   unchangedByWorker>>

(* An error is returned: the request is tried again after a while.         *)
Retry ==
    /\ Fault /\ WorkerIdle /\ Enqueue
    /\ UNCHANGED <<status, sent, overlooked, slow, unchangedByWorker>>

(* AddAfter: of two delays of one item the earlier one stays.              *)
AddAfter(ticks) == timer' = IF ticks < timer THEN ticks ELSE timer

(* Mutant: a full interval, whenever the last publish was.                 *)
RequeueFully(age) ==
    /\ UNCHANGED queued
    /\ AddAfter(Interval + 1) /\ UNCHANGED missed

(* The result of a reconcile that does not publish.  The publish is due in *)
(* the instant that is more than the interval after the last one.  If that *)
(* instant passes between the comparison and the computation of the delay, *)
(* the delay is not positive, which means no request at all.               *)
RequeueAfter(age) ==
    /\ UNCHANGED queued
    /\ \/ AddAfter(Interval + 1 - age) /\ UNCHANGED missed
       \/ age = Interval /\ missed' = TRUE /\ UNCHANGED timer

(* operatorPeerServicesEqual of the recorded and the listed services: the  *)
(* endpoints are sorted by their addresses before they are compared, and   *)
(* those of one address keep their order.                                  *)
Rank(list, i) ==
    Cardinality({j \in DOMAIN list :
        \/ list[j].ipAddress < list[i].ipAddress
        \/ list[j].ipAddress = list[i].ipAddress /\ j <= i})

SortedByAddress(list) ==
    [k \in DOMAIN list |-> list[CHOOSE i \in DOMAIN list : Rank(list, i) = k]]

Normal(service) ==
    IF service = Absent THEN Absent
    ELSE [service EXCEPT !.endpoints = SortedByAddress(@)]

LocalChanged(recorded, listed) ==
    \E n \in Name : Normal(recorded[n]) # Normal(listed[n])

(* Mutant: only a change is published.                                     *)
NeverPublished(age) == age = Never

(* Published too long ago, or never.                                       *)
PublishDue(age) == age > Interval

(* List the Services and the nodes and compare what they make with the     *)
(* entry that was read.  That the nodes could not be listed is dropped.    *)
EnsureLocalStatus ==
    /\ Worker("mirroring")
    /\ \E list \in GetNodes(seenNodes) :
       \E listed \in GetLocalServiceMap(seenServices, list) :
          LET age == selfStatus.lastUpdate
          IN  /\ IF list = seenNodes
                 THEN NoFault /\ overlooked' = FALSE
                 ELSE Fault /\ overlooked' = TRUE
              /\ \/ /\ LocalChanged(selfStatus.services, listed)
                    /\ rpc' = "patching" /\ current' = listed
                    /\ selfStatus' = [selfStatus EXCEPT !.lastUpdate = Never]
                    /\ UNCHANGED queue
                 \/ /\ ~LocalChanged(selfStatus.services, listed)
                    /\ PublishDue(age)
                    /\ rpc' = "publishing" /\ current' = listed
                    /\ selfStatus' = EmptyEntry
                    /\ UNCHANGED queue
                 \/ /\ ~LocalChanged(selfStatus.services, listed)
                    /\ ~PublishDue(age)
                    /\ WorkerIdle /\ RequeueAfter(age)
    /\ UNCHANGED <<status, sent, slow, unchangedByWorker>>

(* Mirroring the peers fails, or listing the Services does.                *)
MirroringFails == Worker("mirroring") /\ Retry

(* The patch is the difference of the copy that was read and the new map.  *)
(* Of a service that both have, its names, the endpoints and the ports are *)
(* fields of their own, and only those that differ are in the patch: where *)
(* the server has lost the service, it comes back without the others.  A   *)
(* map that becomes empty clears the map.                                  *)
EmptyService == [named |-> FALSE, endpoints |-> <<>>, ports |-> <<>>]

MergeField(was, is, held) == IF is = was THEN held ELSE is

MergeFields(was, is, held) ==
    [named     |-> MergeField(was.named, is.named, held.named),
     endpoints |-> MergeField(was.endpoints, is.endpoints, held.endpoints),
     ports     |-> MergeField(was.ports, is.ports, held.ports)]

MergeService(was, is, held) ==
    IF is = was THEN held
    ELSE IF was = Absent \/ is = Absent THEN is
    ELSE MergeFields(was, is, IF held = Absent THEN EmptyService ELSE held)

(* Mutant: the copy is made when the services are set already, so that the *)
(* patch is empty.                                                         *)
MergeServicesOfCopy(was, is, held) == held

(* Mutant: what is gone is not in the patch.                               *)
MergeServicesAdding(was, is, held) ==
    [n \in Name |-> IF is[n] = Absent THEN held[n]
                    ELSE MergeService(was[n], is[n], held[n])]

MergeServices(was, is, held) ==
    IF is = Nothing THEN Nothing
    ELSE [n \in Name |-> MergeService(was[n], is[n], held[n])]

PatchLocalStatus ==
    /\ Worker("patching")
    /\ status' = [status EXCEPT !.services =
                     MergeServices(selfStatus.services, current, @)]
    /\ rpc' = "publishing" /\ selfStatus' = EmptyEntry /\ UNCHANGED current
    /\ UNCHANGED <<queue, sent, overlooked, slow, faults, unchangedByWorker>>

PatchFails == Worker("patching") /\ Retry

(* es.Publish returns no error: a failed Send is logged and passed over.   *)
(* After it the clock is read.                                             *)
Send(map) == \/ sent' = map /\ NoFault
             \/ UNCHANGED sent /\ Fault

PublishLocal ==
    /\ Worker("publishing")
    /\ Send(current)
    /\ rpc' = "stamping" /\ UNCHANGED current
    /\ selfStatus' = [selfStatus EXCEPT !.lastUpdate = 0]
    /\ UNCHANGED <<status, queue, overlooked, slow, unchangedByWorker>>

(* updateAndSetPublishTime, whose error is logged.  The time is that of    *)
(* the reading, whatever stamp has come to the server since.               *)
Stamp(age) ==
    \/ /\ status' = [status EXCEPT !.lastUpdate = age]
       /\ slow' = (age # 0) /\ NoFault
    \/ UNCHANGED <<status, slow>> /\ Fault

(* The reconcile asks to be called again after the interval.               *)
StampLocal ==
    /\ Worker("stamping")
    /\ Stamp(selfStatus.lastUpdate)
    /\ WorkerIdle
    /\ AddAfter(Interval + 1) /\ UNCHANGED <<queued, missed>>
    /\ UNCHANGED <<sent, overlooked, unchangedByWorker>>

-----------------------------------------------------------------------------
(* The callback on a broadcast request: it publishes the entry that it     *)
(* reads, which must be there (Robot has the panic otherwise).             *)

Goroutine(at) == process = "up" /\ cpc = at
unchangedByGoroutine ==
    <<objects, caches, process, nodeList, queue, worker, overlooked>>

Asked ==
    /\ Asking /\ Goroutine("idle") /\ cache # EmptyEntry
    /\ cpc' = "publishing"
    /\ answer' = [cache EXCEPT !.lastUpdate = Never]
    /\ UNCHANGED <<status, sent, slow, faults, unchangedByGoroutine>>

AnswerRequest ==
    /\ Goroutine("publishing")
    /\ Send(answer.services)
    /\ cpc' = "stamping"
    /\ answer' = [EmptyEntry EXCEPT !.lastUpdate = 0]
    /\ UNCHANGED <<status, slow, unchangedByGoroutine>>

StampAnswer ==
    /\ Goroutine("stamping")
    /\ Stamp(answer.lastUpdate)
    /\ cpc' = "idle" /\ answer' = EmptyEntry
    /\ UNCHANGED <<sent, unchangedByGoroutine>>

-----------------------------------------------------------------------------
(* The end of the process at any moment, and its restart: the caches are   *)
(* filled and the informer reports the ServiceSync.                        *)

Crash ==
    /\ process = "up" /\ Fault
    /\ process' = "down" /\ nodeList' = Absent
    /\ queued' = FALSE /\ timer' = NoTimer /\ missed' = FALSE
    /\ WorkerIdle /\ cpc' = "idle" /\ answer' = EmptyEntry
    /\ UNCHANGED <<objects, caches, status, sent, overlooked, slow>>

Restart ==
    /\ process = "down"
    /\ process' = "up"
    /\ seenServices' = services /\ seenNodes' = nodes /\ cache' = status
    /\ Enqueue
    /\ UNCHANGED <<objects, status, nodeList, worker, callback, sent,
                   overlooked, slow, faults>>

-----------------------------------------------------------------------------
WatchObjects ==
    \/ \E n \in Name : WatchService(n)
    \/ \E n \in Node : WatchNode(n) \/ FirstNodeEvent(n)

WorkerStep ==
    \/ Reconcile \/ EnsureLocalStatus \/ MirroringFails
    \/ PatchLocalStatus \/ PatchFails \/ PublishLocal \/ StampLocal

AnswerStep == AnswerRequest \/ StampAnswer

EnvironmentStep ==
    \/ Tick \/ WatchOther \/ Asked \/ Crash \/ Restart
    \/ \E n \in Name, s \in Service \cup {Absent} : EditService(n, s)
    \/ \E n \in Node : \E v \in NodeChoices[n] : EditNode(n, v)

Next == \/ WatchObjects \/ WatchStatus \/ TimerFires
        \/ WorkerStep \/ AnswerStep \/ EnvironmentStep

Spec == Init /\ [][Next]_vars

(* Time goes on; the informers catch up; a request in the queue is taken   *)
(* and the goroutines return; the deployment restarts the process.         *)
Fairness ==
    /\ WF_vars(Tick) /\ WF_vars(TimerFires)
    /\ WF_vars(WatchObjects) /\ WF_vars(WatchStatus)
    /\ WF_vars(WorkerStep) /\ WF_vars(AnswerStep) /\ WF_vars(Restart)

FairSpec == Spec /\ Fairness

-----------------------------------------------------------------------------
(* Properties.                                                             *)

Locals == GetLocalServiceMap(services, nodes)

(* What the status and the messages hold of a service: whether it has its  *)
(* names, the endpoints, each once and in the order of their addresses,    *)
(* and a list of ports, which a patch may leave empty.                     *)
PeerService(v) ==
    v = Absent \/ (/\ v.named \in BOOLEAN
                   /\ \A i, j \in DOMAIN v.endpoints : i < j =>
                         /\ v.endpoints[i] # v.endpoints[j]
                         /\ v.endpoints[i].ipAddress
                               <= v.endpoints[j].ipAddress)

TypeOK ==
    /\ \A map \in {status.services, cache.services, selfStatus.services,
                   current, answer.services, sent} :
          DOMAIN map = Name /\ \A n \in Name : PeerService(map[n])
    /\ \A e \in {status, cache, selfStatus, answer} : e.lastUpdate \in 0..Never
    /\ nodeList = Absent \/ nodeList \in [Node -> BOOLEAN]
    /\ queued \in BOOLEAN /\ timer \in 0..NoTimer
    /\ rpc \in {"idle", "mirroring", "patching", "publishing", "stamping"}
    /\ cpc \in {"idle", "publishing", "stamping"}
    /\ process \in {"up", "down"}
    /\ missed \in BOOLEAN /\ overlooked \in BOOLEAN /\ slow \in BOOLEAN
    /\ edits \in 0..MaxEdits /\ faults \in 0..MaxFaults

(* Between reconciles something will call the next one, and as long as no  *)
(* call failed and the last stamp was not slow it does so when the publish *)
(* is due: the timer and the age of the last publish add up to the         *)
(* interval at most.  The one way out is a RequeueAfter that is not        *)
(* positive.                                                               *)
NeverForgotten ==
    (process = "up" /\ rpc = "idle" /\ ~queued /\ ~missed) =>
        /\ timer # NoTimer
        /\ (faults = 0 /\ ~slow) => timer + status.lastUpdate <= TooLong

(* Nothing is left to do but to wait for the timer.                        *)
Quiet ==
    /\ process = "up" /\ rpc = "idle" /\ cpc = "idle" /\ ~queued
    /\ seenServices = services /\ seenNodes = nodes /\ cache = status

(* When the robot has come to rest, through stale reads, failed patches    *)
(* and crashes, the own entry says what the Services and nodes make of it, *)
(* unless an event was lost or is one that the node watch does not see.    *)
QuietMeansCurrent ==
    (Quiet /\ ~overlooked) => status.services \in Locals

(* A Service whose ports are listed in ascending order, eleven at most, is *)
(* recorded with exactly its node ports if its nodes are published, though *)
(* both lists of ports are written to one array (with lists in another     *)
(* order, or longer ones, a node port may be overwritten); without node    *)
(* ports it is not recorded.                                               *)
NodePortsRecorded ==
    \A n \in Name :
        (/\ Quiet /\ ~overlooked
         /\ services[n] # Absent /\ ~ByLoadBalancer(services[n])
         /\ InOrder(services[n]) /\ Short(services[n]))
            => IF NodePorts(services[n]) = {} THEN status.services[n] = Absent
               ELSE MembersOf(status.services[n].ports) = NodePorts(services[n])

(* Load balancers expose the port that the cluster uses inside.            *)
LoadBalancerPortsRecorded ==
    \A n \in Name :
        (/\ Quiet /\ services[n] # Absent
         /\ ByLoadBalancer(services[n]) /\ status.services[n] # Absent) =>
            \A p \in MembersOf(status.services[n].ports) :
                p.externalPort = p.internalPort

(* Once nothing changes any more, the own entry is no longer written: the  *)
(* events that patches and stamps lead to call the next reconcile, and     *)
(* that finds what it compares and what it lists to be the same in the     *)
(* end, after stale reads, partial patches and failed calls.               *)
PatchingEnds == <>[](rpc # "patching")

(* Once nothing changes any more, the last map that the topic took is what *)
(* this cluster exposes: after a crash between patch and publish, a failed *)
(* Send that was stamped all the same, an answer from an old copy that     *)
(* came last, a list of nodes that failed, a node that left unseen.  The   *)
(* next publish repairs each of them, if there is a next one.              *)
EventuallyAnnounced == <>[](missed \/ sent \in Locals)
=============================================================================
