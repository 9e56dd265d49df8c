--------------------------------- MODULE Robot ---------------------------------
(***************************************************************************)
(* One operator process, the API server it talks to and the topic it is    *)
(* subscribed to: ReconcileServiceSync with a single ServiceSync object.   *)
(*                                                                         *)
(* Two goroutines read and patch the object's status.  The reconcile       *)
(* worker (Reconcile, ensureLocalStatus, publish) maintains this cluster's *)
(* own entry; the delivery goroutine runs the callback of callbackFor for  *)
(* one message at a time and maintains the entries of the peers.  A        *)
(* goroutine's step is one call to the API server or to the topic with     *)
(* what it computes from the answer up to its next call, the clock reads   *)
(* in between included.                                                    *)
(*                                                                         *)
(*   now           the wall clock                                          *)
(*   status        the object's status as the API server holds it          *)
(*   cache         the same as the informer cache of the client shows it   *)
(*   local         what getLocalServiceMap returns now                     *)
(*   peerAdvert    what each peer exposes now                              *)
(*   inbox         messages of this cluster's subscription, not yet acked  *)
(*   process       whether the operator runs                               *)
(*   lastRequestedBroadcast, subscribed    in-memory state of the process  *)
(*   rpc, selfStatus, current, stamp       the reconcile worker            *)
(*   cpc, msg, original, instance          the delivery goroutine          *)
(*   edits, faults count the environment's changes and failures so far     *)
(*   heard, behind, announced, localSeen, peerSeen     history, read by    *)
(*                 properties; behind holds the peers whose entry the      *)
(*                 callback last judged from a copy older than the server's*)
(***************************************************************************)
EXTENDS ServiceSyncStatus

CONSTANTS
    LocalAdverts,     \* services maps this cluster may come to expose
    PeerAdverts,      \* services maps a peer may come to expose
    Asking,           \* peers that send broadcast requests
    Interval,         \* Spec.ReconcileInterval
    BroadcastEvery,   \* the hour between broadcast requests
    MaxTime,          \* bound on the clock
    MaxEdits,         \* bound on changes of exposed services and on requests
    MaxFaults         \* bound on failed calls, lost acks and crashes

ASSUME RobotAssumption ==
    /\ LocalAdverts \subseteq Advert /\ PeerAdverts \subseteq Advert
    /\ Asking \subseteq Peer
    /\ Interval \in Nat /\ BroadcastEvery \in Nat
    /\ MaxTime \in Nat /\ MaxEdits \in Nat /\ MaxFaults \in Nat

VARIABLES
    now, status, cache, local, peerAdvert, inbox,
    process, lastRequestedBroadcast, subscribed,
    rpc, selfStatus, current, stamp,
    cpc, msg, original, instance,
    edits, faults,
    heard, behind, announced, localSeen, peerSeen

reconciler == <<rpc, selfStatus, current, stamp>>
judged == <<heard, behind>>
callback == <<cpc, msg, original, instance>>
memory == <<process, lastRequestedBroadcast, subscribed>>
exposed == <<local, peerAdvert, localSeen, peerSeen>>
vars == <<now, status, cache, local, peerAdvert, inbox, process,
          lastRequestedBroadcast, subscribed, rpc, selfStatus, current, stamp,
          cpc, msg, original, instance, edits, faults, heard, behind,
          announced, localSeen, peerSeen>>

-----------------------------------------------------------------------------
(* Messages carry the sender in their metadata.  A data message carries a  *)
(* services map under the name of its sender; of a message of its own the  *)
(* callback looks at the sender only, so all of those are one value.       *)
DataMsg(p, a) == [from |-> p, kind |-> "data", services |-> a]
RequestMsg(p) == [from |-> p, kind |-> "request", services |-> NoAdvert]
OwnMsg == RequestMsg(Me)
Message == [from : Peer, kind : {"data"}, services : Advert]
             \cup {RequestMsg(c) : c \in Cluster}

NotHeard == [services |-> NoAdvert, at |-> Never]

Init ==
    /\ now = 0
    /\ status = EmptyStatus /\ cache = EmptyStatus
    /\ local \in LocalAdverts /\ localSeen = {local}
    /\ peerAdvert \in [Peer -> PeerAdverts]
    /\ peerSeen = [p \in Peer |-> {peerAdvert[p]}]
    /\ inbox = {}
    /\ process = "up" /\ subscribed = FALSE
    /\ lastRequestedBroadcast = Never
    /\ rpc = "idle" /\ selfStatus = NoEntry /\ current = NoAdvert
    /\ stamp = Never
    /\ cpc = "idle" /\ msg = OwnMsg
    /\ original = EmptyStatus /\ instance = EmptyStatus
    /\ edits = 0 /\ faults = 0
    /\ heard = [p \in Peer |-> NotHeard] /\ behind = {}
    /\ announced = {}

-----------------------------------------------------------------------------
(* Calls that leave the process.                                           *)

NoFault == UNCHANGED faults
Fault == faults < MaxFaults /\ faults' = faults + 1

(* Status().Patch(ctx, m, MergeFrom(o)) *)
PatchStatus(o, m) ==
    /\ status' = MergePatch(status, o, m)
    /\ UNCHANGED cache
NoPatch == UNCHANGED <<status, cache>>

(* es.Publish: the topic also delivers to the sender's own subscription,   *)
(* unless that does not exist yet.                                         *)
Echo == inbox' \in {inbox, inbox \cup {OwnMsg}}

(* es.Publish of a services map, which returns no error: a failed Send is  *)
(* logged and the caller goes on.                                          *)
Announce(services) ==
    \/ /\ announced' = announced \cup {services}
       /\ Echo /\ NoFault
    \/ /\ Fault
       /\ UNCHANGED <<announced, inbox>>

-----------------------------------------------------------------------------
(* The environment: the clock, users and nodes changing what is exposed,   *)
(* the robots of other clusters, the watch that feeds the cache.           *)
unchangedByEnvironment == <<memory, reconciler, callback, judged, announced>>

Tick ==
    /\ now < MaxTime
    /\ now' = now + 1
    /\ UNCHANGED <<status, cache, exposed, inbox, edits, faults,
                   unchangedByEnvironment>>

EditLocal(a) ==
    /\ edits < MaxEdits /\ a # local
    /\ edits' = edits + 1
    /\ local' = a /\ localSeen' = localSeen \cup {a}
    /\ UNCHANGED <<now, status, cache, peerAdvert, peerSeen, inbox, faults,
                   unchangedByEnvironment>>

EditPeer(p, a) ==
    /\ edits < MaxEdits /\ a # peerAdvert[p]
    /\ edits' = edits + 1
    /\ peerAdvert' = [peerAdvert EXCEPT ![p] = a]
    /\ peerSeen' = [peerSeen EXCEPT ![p] = @ \cup {a}]
    /\ UNCHANGED <<now, status, cache, local, localSeen, inbox, faults,
                   unchangedByEnvironment>>

Arrive(m) ==
    /\ inbox' = inbox \cup {m}
    /\ UNCHANGED <<now, status, cache, exposed, edits, faults,
                   unchangedByEnvironment>>

PeerPublishes(p) == Arrive(DataMsg(p, peerAdvert[p]))

(* Robots ask when they start: a change of the environment.                *)
PeerAsks(p) ==
    /\ p \in Asking
    /\ edits < MaxEdits
    /\ edits' = edits + 1
    /\ inbox' = inbox \cup {RequestMsg(p)}
    /\ UNCHANGED <<now, status, cache, exposed, faults,
                   unchangedByEnvironment>>

WatchEvent ==
    /\ process = "up"
    /\ cache # status
    /\ cache' = status
    /\ UNCHANGED <<now, status, exposed, inbox, edits, faults,
                   unchangedByEnvironment>>

-----------------------------------------------------------------------------
(* The reconcile worker.  Its requests come from watch events, timers and  *)
(* retries; here it may start at any moment.                               *)

Worker(at) == process = "up" /\ rpc = at
unchangedByWorker == <<now, exposed, process, callback, edits, judged>>

WorkerIdle ==
    /\ rpc' = "idle" /\ selfStatus' = NoEntry /\ current' = NoAdvert
    /\ stamp' = Never

(* Get the object, ask for a broadcast once an hour, subscribe.            *)
Reconcile ==
    /\ Worker("idle")
    /\ selfStatus' = cache.clusters[Me]
    /\ IF \/ lastRequestedBroadcast = Never
          \/ now - lastRequestedBroadcast > BroadcastEvery
       THEN lastRequestedBroadcast' = now /\ Echo
       ELSE UNCHANGED <<lastRequestedBroadcast, inbox>>
    /\ subscribed' = TRUE
    /\ rpc' = "mirroring"
    /\ NoFault /\ NoPatch
    /\ UNCHANGED <<current, stamp, announced, unchangedByWorker>>

(* An error ends the reconcile.                                            *)
GiveUp == Fault /\ WorkerIdle /\ NoPatch

(* An error of ensurePeerServices, or of reading the local services, ends  *)
(* the reconcile before anything is published.                             *)
EnsurePeerServicesFails ==
    /\ Worker("mirroring")
    /\ GiveUp
    /\ UNCHANGED <<inbox, lastRequestedBroadcast, subscribed, announced,
                   unchangedByWorker>>

(* Mutant: only what is exposed now is looked up in what was.              *)
LocalAdded ==
    \E l \in Leaf : local[l] \notin {Absent, OrEmpty(selfStatus).services[l]}

(* operatorPeerServicesEqual of the recorded and the current services.     *)
LocalChanged == OrEmpty(selfStatus).services # local

(* Published too long ago, or never.                                       *)
PublishDue(lastUpdate) ==
    lastUpdate = Never \/ lastUpdate + Interval < now

(* List the local services and compare them with the entry that was read.  *)
EnsureLocalStatus ==
    /\ Worker("mirroring")
    /\ IF LocalChanged
       THEN /\ rpc' = "patching" /\ current' = local
            /\ UNCHANGED <<selfStatus, stamp>>
       ELSE IF PublishDue(OrEmpty(selfStatus).lastUpdate)
       THEN /\ rpc' = "publishing" /\ current' = local
            /\ UNCHANGED <<selfStatus, stamp>>
       ELSE WorkerIdle
    /\ NoFault /\ NoPatch
    /\ UNCHANGED <<inbox, lastRequestedBroadcast, subscribed, announced,
                   unchangedByWorker>>

(* A status that holds this cluster's entry only: patches are differences, *)
(* so the rest of the object that was read does not matter.                *)
OwnStatus(e) == [EmptyStatus EXCEPT !.clusters[Me] = e]

(* The entry is created in memory before the original is copied.           *)
PatchLocalStatus ==
    /\ Worker("patching")
    /\ LET was == OrEmpty(selfStatus) IN
       \/ /\ PatchStatus(OwnStatus(was),
                          OwnStatus([was EXCEPT !.services = current]))
          /\ rpc' = "publishing"
          /\ NoFault /\ UNCHANGED <<selfStatus, current, stamp>>
       \/ GiveUp
    /\ UNCHANGED <<inbox, lastRequestedBroadcast, subscribed, announced,
                   unchangedByWorker>>

(* The topic is waited for before the clock is read, and the patch that    *)
(* carries the time is a call of its own.                                  *)
PublishLocal ==
    /\ Worker("publishing")
    /\ Announce(current)
    /\ rpc' = "stamping" /\ stamp' = now
    /\ NoPatch
    /\ UNCHANGED <<selfStatus, current, lastRequestedBroadcast, subscribed,
                   unchangedByWorker>>

(* Mutant: LastUpdate is when the next publish is due.                     *)
SetNextPublishTime(e, t) ==
    PatchStatus(OwnStatus(e),
                OwnStatus([e EXCEPT !.lastUpdate = t + Interval]))

(* The patch of updateAndSetPublishTime: one leaf differs from what the    *)
(* goroutine read, the time it took from the clock before.                 *)
UpdateAndSetPublishTime(e, t) ==
    PatchStatus(OwnStatus(e), OwnStatus([e EXCEPT !.lastUpdate = t]))

(* An error is logged and the reconcile counts as done.                    *)
StampLocal ==
    /\ Worker("stamping")
    /\ \/ /\ UpdateAndSetPublishTime(
                [OrEmpty(selfStatus) EXCEPT !.services = current], stamp)
          /\ NoFault
       \/ Fault /\ NoPatch
    /\ WorkerIdle
    /\ UNCHANGED <<inbox, lastRequestedBroadcast, subscribed, announced,
                   unchangedByWorker>>

-----------------------------------------------------------------------------
(* The delivery goroutine.  Each message is read against the cache, then   *)
(* answered or saved, then acked.                                          *)

Goroutine(at) == process = "up" /\ cpc = at
unchangedByGoroutine == <<now, exposed, memory, reconciler, edits>>

Delivered(m) == Goroutine("idle") /\ subscribed /\ m \in inbox

GoroutineIdle ==
    /\ cpc' = "idle" /\ msg' = OwnMsg
    /\ original' = EmptyStatus /\ instance' = EmptyStatus

Remember(at, m, new) ==
    /\ cpc' = at /\ msg' = m
    /\ original' = cache /\ instance' = new
    /\ NoFault /\ UNCHANGED inbox

(* An ack that does not arrive leaves the message to be delivered again.   *)
Ack(m) ==
    \/ NoFault /\ inbox' = inbox \ {m}
    \/ Fault /\ UNCHANGED inbox

(* save: nothing is sent when the modified status equals the original.     *)
SaveOrAck(m, new) ==
    IF OperatorStatusesEqual(cache, new)
    THEN GoroutineIdle /\ Ack(m)
    ELSE Remember("saving", m, new)

(* A message of its own: prune the peers that have expired.                *)
HandleOwn ==
    /\ Delivered(OwnMsg)
    /\ SaveOrAck(OwnMsg,
                 [cache EXCEPT !.clusters = PruneExpired(cache.clusters, now)])
    /\ NoPatch
    /\ UNCHANGED <<judged, announced, unchangedByGoroutine>>

(* A broadcast request: publish what the object that was read says of this *)
(* cluster.  The entry is dereferenced without a check.                    *)
HandleRequest(p) ==
    /\ Delivered(RequestMsg(p))
    /\ cache.clusters[Me] # NoEntry
    /\ Remember("publishing", RequestMsg(p), cache)
    /\ NoPatch
    /\ UNCHANGED <<judged, announced, unchangedByGoroutine>>

(* Mutant: the entry is saved under the name of this cluster as well.      *)
RemoteStatusAsOwn(m) ==
    LET e == [named |-> TRUE, services |-> m.services, lastUpdate |-> now]
        clusters == [cache.clusters EXCEPT ![Me] = e, ![m.from] = e]
    IN  [clusters |-> clusters, peers |-> FilterOut(Known(clusters), Me)]

(* Mutant: the sender's entry gets the services of this cluster.           *)
RemoteStatusFromOwn(m) ==
    LET clusters == [cache.clusters EXCEPT ![m.from] =
                        [named      |-> TRUE,
                         services   |-> OrEmpty(cache.clusters[Me]).services,
                         lastUpdate |-> now]]
    IN  [clusters |-> clusters, peers |-> FilterOut(Known(clusters), Me)]

(* ensureRemoteStatus: the sender's entry becomes the services of the      *)
(* message, received now; the peers list is computed again.                *)
RemoteStatus(m) ==
    LET clusters == [cache.clusters EXCEPT ![m.from] =
                        [named |-> TRUE, services |-> m.services,
                         lastUpdate |-> now]]
    IN  [clusters |-> clusters, peers |-> FilterOut(Known(clusters), Me)]

(* A message is handled without an error, judged from a copy of the object.*)
Hear(m, t, copy) ==
    /\ heard' = [heard EXCEPT ![m.from] = [services |-> m.services, at |-> t]]
    /\ behind' = IF copy.clusters[m.from] = status.clusters[m.from]
                 THEN behind \ {m.from} ELSE behind \cup {m.from}

(* Entries are removed that the copy showed otherwise.                     *)
PruneUnseen ==
    /\ behind' = behind \cup {p \in Peer : status.clusters[p] \notin
                     {original.clusters[p], status'.clusters[p]}}
    /\ UNCHANGED heard

(* The cleanup that follows a successful save runs on an empty ServiceSync *)
(* and so neither prunes nor saves anything.                               *)
HandleData(m) ==
    /\ m.kind = "data" /\ Delivered(m)
    /\ SaveOrAck(m, RemoteStatus(m))
    /\ IF OperatorStatusesEqual(cache, RemoteStatus(m))
       THEN Hear(m, now, cache)
       ELSE UNCHANGED judged
    /\ NoPatch
    /\ UNCHANGED <<announced, unchangedByGoroutine>>

(* A patch that fails is logged and the message acked all the same.        *)
SaveStatus ==
    /\ Goroutine("saving")
    /\ \/ /\ PatchStatus(original, instance)
          /\ IF msg.kind = "data"
             THEN Hear(msg, instance.clusters[msg.from].lastUpdate, original)
             ELSE PruneUnseen
          /\ Ack(msg)
       \/ /\ Fault /\ NoPatch
          /\ inbox' \in {inbox, inbox \ {msg}}
          /\ UNCHANGED judged
    /\ GoroutineIdle
    /\ UNCHANGED <<announced, unchangedByGoroutine>>

(* The time of the answer waits in the modified object.                    *)
AnswerRequest ==
    /\ Goroutine("publishing")
    /\ Announce(original.clusters[Me].services)
    /\ cpc' = "stamping"
    /\ instance' = [instance EXCEPT !.clusters[Me].lastUpdate = now]
    /\ NoPatch
    /\ UNCHANGED <<msg, original, judged, unchangedByGoroutine>>

StampAnswer ==
    /\ Goroutine("stamping")
    /\ \/ /\ UpdateAndSetPublishTime(original.clusters[Me],
                                     instance.clusters[Me].lastUpdate)
          /\ Ack(msg)
       \/ /\ Fault /\ NoPatch
          /\ inbox' \in {inbox, inbox \ {msg}}
    /\ GoroutineIdle
    /\ UNCHANGED <<judged, announced, unchangedByGoroutine>>

-----------------------------------------------------------------------------
(* The end of the process, by a panic in the callback or from outside, and *)
(* its restart.  What is in memory is lost, what is not acked stays.       *)

Stop(why) ==
    /\ process' = why
    /\ WorkerIdle /\ GoroutineIdle
    /\ lastRequestedBroadcast' = Never /\ subscribed' = FALSE
    /\ NoPatch
    /\ UNCHANGED <<now, exposed, inbox, edits, judged, announced>>

NilEntryPanic(p) ==
    /\ Delivered(RequestMsg(p))
    /\ cache.clusters[Me] = NoEntry
    /\ Stop("panicked") /\ NoFault

Crash == process = "up" /\ Stop("killed") /\ Fault

(* The caches are filled before the controllers start.                     *)
Restart ==
    /\ process # "up"
    /\ process' = "up"
    /\ cache' = status
    /\ UNCHANGED <<now, status, exposed, inbox, edits, faults, judged,
                   announced, lastRequestedBroadcast, subscribed, reconciler,
                   callback>>

-----------------------------------------------------------------------------
ReconcilerStep ==
    \/ Reconcile \/ EnsurePeerServicesFails \/ EnsureLocalStatus
    \/ PatchLocalStatus \/ PublishLocal \/ StampLocal

CallbackStep ==
    \/ HandleOwn
    \/ \E p \in Peer : HandleRequest(p)
    \/ \E m \in inbox : HandleData(m)
    \/ SaveStatus \/ AnswerRequest \/ StampAnswer

ProcessStep == (\E p \in Peer : NilEntryPanic(p)) \/ Crash \/ Restart

EnvironmentStep ==
    \/ Tick \/ WatchEvent
    \/ \E a \in LocalAdverts : EditLocal(a)
    \/ \E p \in Peer : \/ PeerPublishes(p) \/ PeerAsks(p)
                        \/ \E a \in PeerAdverts : EditPeer(p, a)

Next == EnvironmentStep \/ ReconcilerStep \/ CallbackStep \/ ProcessStep

Spec == Init /\ [][Next]_vars

(* Fairness: the watch delivers, a queued reconcile runs (each change of   *)
(* the object queues one), the callback returns, the deployment restarts   *)
(* the process, peers go on publishing, and a message that is not acked is *)
(* delivered again whatever else arrives.                                  *)
Fairness ==
    /\ WF_vars(WatchEvent) /\ WF_vars(Restart)
    /\ WF_vars(ReconcilerStep)
    /\ WF_vars(SaveStatus) /\ WF_vars(AnswerRequest) /\ WF_vars(StampAnswer)
    /\ \A p \in Peer : WF_vars(PeerPublishes(p))
    /\ \A p \in Peer, a \in PeerAdverts : SF_vars(HandleData(DataMsg(p, a)))

FairSpec == Spec /\ Fairness

-----------------------------------------------------------------------------
(* Properties.                                                             *)

Own(s) == s.clusters[Me]

(* Every variable holds a value of its kind.                               *)
TypeOK ==
    /\ now \in 0..MaxTime
    /\ status \in Status /\ cache \in Status
    /\ local \in LocalAdverts /\ localSeen \subseteq LocalAdverts
    /\ peerAdvert \in [Peer -> PeerAdverts]
    /\ peerSeen \in [Peer -> SUBSET PeerAdverts]
    /\ inbox \subseteq Message
    /\ process \in {"up", "killed", "panicked"}
    /\ lastRequestedBroadcast \in Time /\ subscribed \in BOOLEAN
    /\ rpc \in {"idle", "mirroring", "patching", "publishing", "stamping"}
    /\ selfStatus \in Entry \cup {NoEntry} /\ current \in Advert
    /\ stamp \in Time
    /\ cpc \in {"idle", "saving", "publishing", "stamping"}
    /\ msg \in Message
    /\ original \in Status /\ instance \in Status
    /\ edits \in 0..MaxEdits /\ faults \in 0..MaxFaults
    /\ heard \in [Peer -> [services : Advert, at : Time]]
    /\ behind \subseteq Peer
    /\ announced \subseteq Advert

(* The two goroutines patch one object from copies that may be out of date *)
(* and never write each other's part of it.  A peer's entry changes only   *)
(* while the callback saves: for a message of that peer, each leaf to what *)
(* the message says, or to nothing for a message of this cluster.  The     *)
(* services of the own entry change only when the worker patches them, or  *)
(* with the entry when it is pruned.                                       *)
PeerEntryStep(p) ==
    LET e == status.clusters[p]
        f == status'.clusters[p]
    IN  e # f => /\ cpc = "saving"
                 /\ \/ msg = OwnMsg /\ f = NoEntry
                    \/ /\ msg.from = p /\ f # NoEntry
                       /\ \A l \in Leaf : f.services[l] \in
                            {OrEmpty(e).services[l], msg.services[l]}

OwnEntryStep ==
    OrEmpty(Own(status')).services # OrEmpty(Own(status)).services =>
        \/ rpc = "patching" /\ rpc' = "publishing"
        \/ msg = OwnMsg /\ cpc = "saving" /\ Own(status') = NoEntry

EntriesKeepTheirWriter ==
    [][(\A p \in Peer : PeerEntryStep(p)) /\ OwnEntryStep]_vars

(* No step takes the LastUpdate of c back.                                 *)
NoTimeBack(c) ==
    LET e == status.clusters[c]
        f == status'.clusters[c]
    IN  (e # NoEntry /\ f # NoEntry /\ e.lastUpdate # Never) =>
            f.lastUpdate # Never /\ f.lastUpdate >= e.lastUpdate

(* LastUpdate says when the data of a peer was received: however stale the *)
(* copies and late the messages, the worker's patches, the callback's and  *)
(* what they make of each other never take it back.                        *)
PeerUpdateNeverGoesBack == [][\A p \in Peer : NoTimeBack(p)]_vars

(* What the status says of a peer is the last message that was handled for *)
(* it without an error, services added and removed alike.                  *)
Adopted(p) ==
    (heard[p] # NotHeard /\ status.clusters[p] # NoEntry) =>
        /\ status.clusters[p].named
        /\ status.clusters[p].services = heard[p].services

AdoptsLatest == \A p \in Peer : Adopted(p)

(* It is so whenever that message was judged from a copy of the peer's     *)
(* entry that was not behind the server, though the own entry changed in   *)
(* between and entries were pruned; one such message is enough, whatever   *)
(* the stale copies before it led to.                                      *)
AdoptsUnlessBehind == \A p \in Peer \ behind : Adopted(p)

(* A peer heard of within PrunePeerAtAge is kept, up to the margin that    *)
(* writing LastUpdate at most once in 30 seconds costs, and unless its     *)
(* entry was compared or pruned in a copy that was behind the server.      *)
LivePeerKept ==
    \A p \in Peer \ behind :
        (/\ heard[p] # NotHeard
         /\ PruneAge > 0 => now <= heard[p].at + PruneAge - (Debounce - 1))
            => status.clusters[p] # NoEntry

(* Once nothing changes any more, the status settles on what every peer    *)
(* exposes and on what this cluster exposes, through stale reads, failed   *)
(* patches that were acked, crashes and messages in any order.             *)
EventuallyAdopted ==
    \A p \in Peer :
        <>[](/\ status.clusters[p] # NoEntry
             /\ status.clusters[p].named
             /\ status.clusters[p].services = peerAdvert[p])

EventuallyRecorded == <>[](OrEmpty(Own(status)).services = local)

(* Every leaf of a services map that this cluster publishes, on its own    *)
(* account or as an answer, is one that it exposed at some time: nothing   *)
(* of a peer gets in, and no default, although the two goroutines publish  *)
(* from copies and the copies come from a status that several patches,     *)
(* some of them from older copies, have put together.                      *)
Exposed(a, l) == a[l] = Absent \/ \E b \in localSeen : b[l] = a[l]

AnnouncedWasExposed == \A a \in announced : \A l \in Leaf : Exposed(a, l)

(* Whatever the status says of a peer, that peer exposed leaf by leaf:     *)
(* through repeated and late messages, patches from stale copies that mix  *)
(* several of its messages, crashes and pruning, nothing of this cluster   *)
(* or of another peer gets into its entry.                                 *)
AdoptedWasExposed ==
    \A p \in Peer, l \in Leaf :
        LET adopted == OrEmpty(status.clusters[p]).services[l]
        IN  adopted = Absent \/ \E a \in peerSeen[p] : a[l] = adopted

(* Status.Clusters holds the data of all the clusters, including self, by  *)
(* the time a broadcast request is answered.                               *)
NoNilEntryPanic == process # "panicked"

(* A message of its own prunes other clusters.                             *)
OnlyPeersPruned == [][Own(status) # NoEntry => Own(status') # NoEntry]_vars
=============================================================================
