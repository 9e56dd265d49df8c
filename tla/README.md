# Verification of MC Robot

TLA+ models of the MC Robot operator (`src/`), TLC runs on small instances of
them, and TLAPS proofs for every size.  MC Robot runs once in each cluster.  It
publishes the services of its cluster on a PubSub topic, and what it hears of
other clusters it keeps in the status of a `ServiceSync` object and mirrors as
Services and Endpoints.

## 1. Inventory

| part | source | state it keeps | operations | what makes it correct |
|---|---|---|---|---|
| ServiceSync status | `pkg/apis/mc/v1/servicesync_types.go`, `util_compare.go`, `util_general.go` | `Clusters` (name -> services, `LastUpdate`), `Peers` | merge patch, comparison with the 30 s clock tolerance, pruning, `filterOut` | a patch changes what it is about and nothing else; an entry is dropped only when its age has passed |
| Reconcile worker | `servicesync_controller.go` 216-301, 382-424, 491-495 | `lastRequestedBroadcast`; the copy of the object it read | `Reconcile`, `ensureLocalStatus`, `publish` | the own entry follows the cluster's services and every change is published |
| Message callback | `servicesync_controller.go` 324-380, 427-489 | the original and the modified copy of the object | `callbackFor`, `ensureRemoteStatus`, `ensurePruned`, `save` | a peer's entry is the last message of that peer; live peers are kept |
| Mirroring | `servicesync_controller.go` 498-624, 641-678 | Services and Endpoints owned by the object | `ensurePeerServices`, `serviceForPeer` | there is one Service and Endpoints per published peer service, and none besides |
| Local services | `util_kubernetes.go` | none (pure, over lists read from the cache) | `getLocalServiceMap`, `getNodes`, `endpointsFor...` | the map says which address and port reach each selected service, and is the same for the same objects |
| Watches | `servicesync_controller.go` 71-197, 258-301, 305-321 | `nodeList`, the request queue | node watch, service mapping, `RequeueAfter` | each change that matters leads to a reconcile; a reconcile is always to come |
| PubSub datasource | `pkg/datasource/pubsub.go` | `topics`, `subscriptionTasks`, a callback channel of capacity 1, a message channel | `Subscribe`, `Unsubscribe`, `Publish`, a receiver and a delivery goroutine | a message is acked after a callback has run; nobody waits for ever |
| Google provider | `pkg/datasourcegoogle/pubsub_google.go` | `clients` | `parseTopic`, `ensurePubSubTopicSubscription` | topic and subscription exist after it returns |
| Cluster name | `util_clustername.go` | `clusterName` | `getClusterName` | one name for the life of the process |
| main, mock, generated code, manifests | `cmd/`, `mock.go`, `zz_generated*`, `deploy/` | - | - | not modelled: library calls, a test double, generated text |

How they interact.  Watch events and timers start `Reconcile` in one worker
goroutine.  It calls `Subscribe` each time, which hands a new callback to the
delivery goroutine of the datasource through a channel, and `Publish`.  The
delivery goroutine runs the callback for one message at a time.  Both patch the
status of the same object through the API server, and both read it through an
informer cache that lags the server.  The topic delivers a robot's own messages
back to it; the callback uses those to prune expired peers.

What is hard here: the two goroutines patch one object from copies read before;
reads may be stale; a failed patch is acked; messages are repeated and
reordered; the process can die between the patch, the publish and the stamp;
ages are compared with times written at most every 30 seconds.  Each such
hazard is listed at its line in `PROJECT.json`.

## 2. Plan

Order of work.  All but the last item are done.

1. `ServiceSyncStatus`, `Robot`: one object, its two writers, the lagging
   cache, the topic.  Proofs of types, of who writes what, of the clock, of
   what is announced and adopted, and of what the status means however stale
   the reads.
2. `PubSubDatasource` with the provider: goroutines, channels, the topic and
   subscription that may have to be created, panics and restarts.  Abstract
   specification: `AckedQueue`, a queue that delivers at least once; the
   refinement is proved.
3. `PeerServices`: `ensurePeerServices` call by call, with API failures and
   lagging caches.  Its safety and what one undisturbed round does are proved,
   that the mirrors settle is checked.
4. `LocalServices`: what a cluster exposes, with the order of lists and Go's
   shared arrays.  What its loops and sorts return is proved for every length.
5. `PublishLoop`: watches, request queue and timer around `LocalServices`, so
   that a reconcile is never forgotten and an announcement is repeated, crash
   between patch and publish included.  Proofs of all its safety properties.
6. Several ServiceSyncs in one process: `lastRequestedBroadcast`, the
   callbacks of one topic and the request queue are shared by them.

What composes what: `Robot` takes the datasource as `AckedQueue` promises it
(its `inbox` keeps a message until the callback has returned) and of
`PeerServices` that it may fail; `PeerServices` takes of `Robot` that the
published values change.  `Robot` lets a reconcile start at any moment and the
local services be anything; `PublishLoop` says when it starts and, with
`LocalServices`, what the local services are.

## 3. The modules

`ServiceSyncStatus` has no variables.  It defines the status and what the
controller does with it.  The JSON under `services` is a tree of maps; what a
merge patch replaces as a whole (the endpoints list and the ports list of a
service) is a *leaf*, so a services map is a function from `Leaf` to `Value` or
`Absent`.  `Patch(obj, MergeFrom(original))` sends the difference between two
copies, so `MergePatch(s, o, m)` is a three-way merge of what the server has
with the original and the modified copy.  Maps tagged `omitempty` are left out
of the JSON when they are empty, which the patch turns into `null`: emptying
the map in the copy clears the map at the server (`MergeServices`,
`MergeClusters`).  Of `Name`, which repeats the key, an entry says whether it is
there (`named`): this cluster's own entry is made in memory before the original
is copied, so its name is in no patch and the server never has it.  `TimesEqual`
is the 30 s comparer with `Debounce` for 30; `PruneAge` is `PrunePeerAtAge`.

`Robot` is one process with one object.

| variables | in the code |
|---|---|
| `status`, `cache` | the object at the API server, and what the split client reads |
| `local`, `peerAdvert` | what `getLocalServiceMap` would return, here and in the peers |
| `inbox` | the messages of the subscription that are not acked |
| `process`, `lastRequestedBroadcast`, `subscribed` | the process and what it keeps in memory |
| `rpc`, `selfStatus`, `current`, `stamp` | the worker: where it is, the entry it read, the services it listed, the time it took for its stamp |
| `cpc`, `msg`, `original`, `instance` | the callback: where it is, its message and two copies |
| `heard`, `behind`, `announced`, `localSeen`, `peerSeen` | history for properties: last message handled without an error, the peers judged from an old copy, maps published, maps exposed here and by each peer |

A step of a goroutine is one call to the API server or to the topic, with
everything the code does up to the next one.  So the clock of a stamp is read in
the step of the publish before it and the patch that carries the time is a step
of its own; ticks and the other goroutine come in between.  `Reconcile`,
`EnsureLocalStatus`, `PatchLocalStatus`, `PublishLocal` and `StampLocal` follow
the worker, `HandleOwn`, `HandleRequest`, `HandleData`, `SaveStatus`,
`AnswerRequest` and `StampAnswer` the callback.  `NilEntryPanic`, `Crash`
and `Restart` end and begin the process: what is in memory is lost, messages
that were not acked stay.  The worker may start at any moment (its triggers are
for `PublishLoop`), and of `ensurePeerServices` the model keeps that it may
fail, which ends the reconcile.  `LocalAdverts` and `PeerAdverts` are the maps
that users may bring about.  The cache may lag the server by any number of
patches in every run and every proof.  What a lagging copy can do to a peer's
entry is kept apart by `behind`: a peer is in it from a message (or a prune)
that was judged from a copy in which the peer's entry was not the one at the
server, until one of its messages is judged from a copy in which it is.  No
guard reads it.

`PubSubDatasource` is the datasource of one process on one topic URL.

| variables | in the code |
|---|---|
| `topicExists`, `subExists`, `backlog` | at the service: topic, this client's subscription, messages not acked |
| `hasTask`, `topicCached`, `hasClient` | whether `subscriptionTasks`, `topics`, `clients` have the entry |
| `currentTask` | the channel of capacity 1 between `Subscribe` and the delivery goroutine |
| `at`, `resume` | where the worker, the receiver and the delivery goroutine are; for which call they run `ensurePubSubTopicSubscription` |
| `out`, `newCb`, `cb`, `received`, `inHand` | locals: message to send, callback to pass, callback in use, the message of each goroutine |
| `process` | "up", or how the process ended |
| `handled`, `accepted` | history: messages a callback returned for, messages the topic took |

All three threads may run `ensurePubSubTopicSubscription`, so its steps
(`CheckTopic`, `CreateTopic`, `CheckSub`, `CreateSub`) take the thread;
`Ensured` and `NotEnsured` say where it goes on (`goto send`, `goto open`,
`continue`, a panic).  `Publish`, `OpenTopic`, `Send` are `Publish` and
`getTopic`; `Subscribe`, `PassCallback`, `Unsubscribe` use the task;
`OpenSubscription`, `Receive`, `ReceiveFails` are the receiver, `TakeCallback`,
`Handover`, `CallbackReturns`, `Ack` the delivery goroutine.  The unbuffered
channel makes `Handover` one step of both.  Waits of one second are left out: a
thread may take any time.  `AckedQueue` is what the rest of the operator relies
on: a message leaves the backlog after a callback has returned for it, or with
the whole subscription.

`PeerServices` is `ensurePeerServices` for one object.  A peer service is a pair
of cluster and service with a name (`NameOf`); its ports and addresses are one
value.

| variables | in the code |
|---|---|
| `published`, `publishedCache` | `Status.Clusters` at the server and in the cache |
| `services`, `endpoints` and their caches | the owned objects, and what `List` and `Get` read |
| `pc`, `peerServices`, `peerService`, `status` | the loop: where it is, what is left, the current one, the status read |
| `preexisting`, `hasUID`, `failed` | `preexistingServicesMap`; whether `currentService` came from the server; `multiError` |
| `ever`, `undisturbed` | history: what each peer service has published; the round began with caches that showed the server's Services and Endpoints, and no call has failed, nobody interfered and nothing crashed since |

`NextPeerService` begins an iteration with its cached reads; `UpdateService`,
`CreateService`, `UpdateEndpoints`, `CreateEndpoints` and `DeleteExtra` are one
call each, which succeeds, meets an object that changed or vanished, or fails.
The endpoints controller, which removes Endpoints of Services that are gone,
and users who delete objects are outside.  Peer services without ports are
skipped by the code and stand as unpublished, and so do those of a cluster whose
entry has no name (line 513).  `Earlier` names Services that
were made before annotations existed.

`LocalServices` has no variables.  `GetLocalServiceMap` is the function of that
name.  A list of nodes comes from the cache in any order, so it gives the set
of maps that may be made: `ByAddress` is what `sort.Slice` leaves of an
unordered list.  `GetNodes` includes the failure whose error the caller drops.
`PortLists` has the two slices of the loop over ports: `lbPorts` is made by
`append(ports, ...)`, which writes behind the end of `ports` and, where there is
room (`Full` says where there is none), into the same array, which is then
sorted first in part and then as a whole.  `sort.Slice` is taken as the
insertion sort that it is up to twelve elements (`Sorted`); what longer lists
change is in section 4.

`PublishLoop` is one process with one object, of which it keeps the own entry.

| variables | in the code |
|---|---|
| `services`, `nodes`, `seenServices`, `seenNodes` | the objects, and what the informer caches have |
| `status`, `cache` | the own entry at the server and in the cache, its `LastUpdate` as an age |
| `nodeList` | the map that the handler of node events keeps |
| `queued`, `timer` | the work queue: whether the request is in it, and when the delayed one is due |
| `rpc`, `selfStatus`, `current` | the worker, as in `Robot` |
| `cpc`, `answer` | the callback on a broadcast request: where it is, the entry it read |
| `process` | "up" or "down" |
| `sent`, `slow`, `missed`, `overlooked` | history: the last map the topic took; the last stamp landed a tick or more after its clock was read; a reconcile ended with nothing to call the next; a change that no reconcile followed |

`WatchService`, `WatchStatus`, `WatchOther`, `WatchNode` and `FirstNodeEvent` are
the handlers of `add`: each updates a cache and says whether a request is
queued.  `NodeEvent` is one update event, for which the handler is called with
the old object and then with the new one.  `EventLost` is a handler that cannot
list the ServiceSyncs.  The work queue keeps the earliest of several delays
(`AddAfter`), tries again what returned an error (`Retry`) and forgets what
returned a delay that is not positive (`RequeueAfter`: `RequeueAfter` of line
266 is computed a moment after the comparison of line 259).  The worker follows
`Reconcile`, `ensureLocalStatus`, `publish`, with `Send` and `Stamp` for the two
calls that may fail unnoticed; the callback is the same `publish`.  A stamp is
carried as the age of the time that was read (in the `lastUpdate` of
`selfStatus` or `answer`), so it may be older than the one it overwrites.

`MergeService` is the merge patch of one service: its names (`named` stands for
`cluster` and `serviceName`), its endpoints and its ports are fields, and only
those that differ from the copy that was read are sent.  Where the server holds
no such service by then, the patch makes one with those fields only
(`EmptyService`).  `LocalChanged` compares as `operatorPeerServicesEqual` does:
endpoints are sorted by address first, on both sides (`SortedByAddress`; equal
addresses keep their order).

Two simplifications.  The request for the next reconcile is put off in the step
of the stamp's patch, one API call earlier than in the code.  And the callback
does not prune the own entry: `PrunePeerAtAge` is taken to be 0 in this module
(`Robot` has the pruning).

Time is a count of ticks since each event.  A tick may come between any two
steps; ages are rounded up, so that "longer ago than the interval" is one more
tick than the interval, and beyond that they are all the same.

`RobotInvariants` holds the inductive invariants of `Robot`.  `MCRobot`,
`MCPubSub`, `MCPeerServices` and `MCPublishLoop` are the instances.
Operators commented "Mutant" are wrong variants of the definition below them,
used to see that a property notices; nothing else refers to them.

## 4. The runs

Common bounds of the `robot_` runs: one peer, `MaxTime` ticks (T), `MaxEdits`
changes of exposed services and requests of peers, `MaxFaults` failed calls, lost acks or crashes.  One peer is enough for
properties that speak of one entry at a time: entries of two peers meet only in
the callback, which handles them one after the other, and in the cleared map,
which the own entry shows as well; the proofs cover every number.  The cache
lags in all of them.

| run | bounds | shows |
|---|---|---|
| `robot_stale` | T 2, prune 1, debounce 2, 1 edit of the peer or request, 1 fault, this cluster exposes nothing | `TypeOK`, `SaveInv`, `HeardInv`; `AdoptsUnlessBehind`: the status of a peer is the last message handled for it, unless that was judged from a copy behind the server; `LivePeerKept`: such a peer is not pruned within its age less the debounce; `PeerUpdateNeverGoesBack`: no patch takes the time of a peer back; `ClockInv`: no time in the future, though stamps wait; `AnnouncedWasExposed`: what a peer exposes is not announced as this cluster's |
| `robot_adopts` | the peer's two services replace each other, 2 edits, 1 fault, T 0, fairness | `AdoptedWasExposed`: a peer's entry holds nothing that the peer did not expose; `EventuallyAdopted`: it settles on what the peer exposes |
| `robot_records` | this cluster's two services replace each other, 2 edits, 1 fault, T 0, fairness | `EntriesKeepTheirWriter`: neither goroutine writes the other's part, a peer's leaf is its old value or the message's; `EventuallyRecorded`: the own entry settles on what is exposed, though the cache may hide the second change |
| `robot_nil_entry` | no fault | violated: a broadcast request before the own entry exists panics |
| `robot_lost_update` | no fault | violated: a message equal to an old copy is dropped |
| `robot_self_prune` | no fault | violated: the own entry is pruned before its first publish |
| `pubsub_queue` | two messages, one callback, 1 fault, Unsubscribe | `QueueSpec`: a message leaves the subscription only when handled; `Handled`: it is handled; `SubscribeReturns`: the worker does not block; `PublishReaches`: what is sent reaches the topic |
| `peer_settle` | two peer services, two values, 1 edit, 1 fault, one object of an earlier release | `EndpointsWerePublished`, `ListedNotDeleted`; `RoundMirrors`: one round from fresh caches leaves exactly the Services and Endpoints of what it read; `MirrorsSettle`: Services and Endpoints become those of the published peer services |
| `peer_ports` | one peer service, 1 edit, no fault | violated: ports of an existing Service do not follow the peer |
| `publish_loop` | one Service with three node ports, two nodes of which one comes, is cordoned and leaves, interval 1, 1 edit or other event, 1 fault, fairness | `TypeOK`; `NeverForgotten`: the worker rests only with a call to come, in time if nothing failed; `QuietMeansCurrent`: at rest the own entry is what the objects make of it; `NodePortsRecorded`: the shared array loses no node port of an ordered list of at most eleven, and adds none; `EventuallyAnnounced`: what the topic took last becomes what is exposed |
| `publish_remade` | one Service of two kinds, 2 edits, requests of peers at any time, interval 0, no fault, fairness | `QuietMeansCurrent`: after a Service is removed and made again, and partial patches, the entry is whole and current; `PatchingEnds`: it is not written for ever; `EventuallyAnnounced` with a second publisher that works from old copies |
| `publish_ingress` | one Service with a load balancer | violated: its node ports are published |

Fairness in `robot_adopts` and `robot_records`: the watch delivers; a queued
reconcile runs, and each change of the object queues one because its watch has
no filter (line 81-89); the callback returns; the deployment restarts the
process; peers publish again after every interval; a message that is not acked
is delivered again, whatever else arrives (strong fairness, one message at a
time).  It holds with pruning off and without broadcast requests.  With
requests, the panic of `robot_nil_entry` may come back after each restart; with
pruning, the prune of the own entry in `robot_self_prune` may fall between patch
and publish again and again, and a prune of a stale copy (see below) may clear the peers each time.  Time stands still in these two runs
(`MaxTime = 0`): ticks only add publishes there, and properties that order times
are checked where time passes.  Two edits let a peer, or this cluster, go back
to what an old copy still shows.

`robot_stale` has the clock run past prune age and debounce; the peer's edit
gives it an older and a newer message, each of which may be repeated and late,
and two ticks let a stamp wait over one of them.  With services of this cluster
that change it is more than one run can search, so those are in
`robot_records`; that whatever this cluster exposes the announcements are its
own, the proof shows.

`pubsub_queue`: two messages are the fewest where one is in each goroutine
while the worker waits with a third thing, the callback.  One fault is the
fewest that brings each way to end the process and each `AlreadyExists`, which
needs a peer that creates the topic and not a second fault.  Deadlock is not
checked because after `Unsubscribe` the operator may really stop.  Fairness:
threads go on; the process is restarted; the worker subscribes again, since
every reconcile does; passing the callback does not lose every race against the
first message (strong, as each loss restarts the process); `select` picks among
ready cases at random, so neither case is passed over for ever (strong); the
service delivers each message again as long as it is not acked (strong).

`peer_settle`: the edit, the fault and the lag may fall on any step, and every
name is shared by at most one peer service.  In the round of
`RoundMirrors` peers may still publish and caches catch up, and the endpoints
controller may take Endpoints away between the read and the update, which then
creates them.  Fairness: caches catch up; the
endpoints controller works; the worker goes on and runs again, because its
error requeues it and what it changes is watched.

`publish_loop`: one tick of the interval is the smallest that has a "due", a
"not yet" and the instant between.  The run starts with one or two nodes, so
that the one edit is a node that comes, changes or leaves, or a Service that is
made or goes; three node ports is the smallest number that leaves room in the array.
The fault is any failed call, lost event or crash.  Ticks are not bounded: ages
are.  Fairness: time goes on; a delayed item that is due is queued; informers
catch up, each kind on its own; the worker takes what is queued and goes on, and
so does the callback; the deployment restarts the process.  Nothing is assumed
of users, of requests, or of the informers' resync every ten hours.  So if a
reconcile met the instant at which line 266 gives no delay, nothing but another
event brings the next one: that is `missed`, which `NeverForgotten` and
`EventuallyAnnounced` leave out.  The clause "in time" of `NeverForgotten` holds
while no call failed and the last stamp was not `slow`: a stamp that arrives
late is older than the delay that is computed from it; the next reconcile
repairs it.  In the code that delay starts one API call later still, which the
model does not show.

`publish_remade` adds requests, a second edit and a second kind of Service (a
patch is partial only where a Service was removed and made again), and leaves
out faults, nodes that change, and ages between "now" and "due" (interval 0):
all of it together is more than one run can search.

Things that go wrong and have no run of their own.  In the status: the clock of
a stamp is read at line 493 and its patch sent at line 494, so the stamp of one
goroutine may land after a later one of the other and take the own `LastUpdate`
back; the cost is a publish that comes early.  A patch that prunes all that an
old copy has clears the server's whole map (`MergeClusters`), a peer just heard
included, who is known again with its next message.  A partial patch leaves a
service without its names or endpoints in the status, until the event of that
patch brings the next reconcile (`MergeFields`; the generated schema,
`zz_generated.openapi.go` 173, requires all four fields, the CRD none).  After
new data nothing is pruned, although line 374 says so, because the object of
line 327 was never read (`HandleData`).  `filterOut` appends the
needle, so `Status.Peers` repeats this cluster's name (the model does the same,
`FilterOut`); a failed `Send` is followed by a publish time all the same
(`PublishLocal`); a peer may be pruned up to 30 s before its age, because a
repeated message does not move `LastUpdate` (hence the margin in
`LivePeerKept`).  In the
datasource: `select` may take a message before the first callback and call nil
(`NilCallbackPanic`); the second of two creators of a topic gets
`AlreadyExists` and panics (`CreateTopic`); unlocked maps may end the process
(`ConcurrentMapWrites`); all three heal by the restart.  After `Unsubscribe`,
which nothing calls, the task stays registered and the second `Subscribe`
blocks.  Two objects with one topic share one callback.  In the mirroring: two
peer services of one name overwrite each other on every reconcile, and a
user's own Service of that name is adopted.  In the local services: nodes that
share an address, or have none of the published kind, come in any order, which
neither sort undoes (both go by address only), so it counts as a change, patches
the object, and by that starts the next reconcile, until two lists in a row
agree (the nodes of `publish_remade` have distinct addresses; `Endpoints` is
declared a set, `servicesync_types.go` 84); with three node ports that are not listed in
ascending order the sort of `lbPorts` may push a node port out of `ports` (hence
`InOrder` in `NodePortsRecorded`), and beyond twelve elements `sort.Slice` is
not stable and may do so by exchanging the two entries of the last port (hence
`Short`).  In the watches: the node watch
compares names and schedulability only, so a new address stays unpublished until
the next publish is due (`Invisible`); a failed list of nodes is published as
services without endpoints, until the next reconcile.

Of the broadcast request: the first start of a cluster publishes it before its
subscription exists, so the answers are lost and the peers are known when their
intervals have passed; `lastRequestedBroadcast` is one variable, so of several
ServiceSyncs only the first asks.  A request that panics (`robot_nil_entry`) is
delivered again to the next process, which panics again unless its worker has
written the entry by then; which comes first is decided by nothing.

## 5. The proofs

Constants are arbitrary, under `StatusAssumption` (finitely many peers, distinct
sentinels, `Debounce` positive), `RobotAssumption` (types of the bounds),
`PubSubAssumption` and `PeerAssumption` (distinct sentinels, types),
`LocalServicesAssumption` (finitely many nodes and ingresses, ports and
addresses are numbers) and `PublishLoopAssumption` (types of the bounds and of
the nodes).

* `StatusProofs`: lemmas on the operators.  `MergeOverwrites`: a patch computed
  from what the server holds is an overwrite.  `PatchKeeps`, `MergeServicesMixes`:
  what survives otherwise.
* `RobotProofs`: `TypeCorrect`.  `TypeOK` is not inductive: `SaveStatus` reads
  the time of an entry and `AnswerRequest` the services of an entry that must be
  there.  `CopyInv` adds `SaveInv` (how the two copies of the callback differ)
  and `AnswerInv` (an answer is under way only with an own entry).
  `SaveInvHolds` states the first, which a run checks.
* `WriterProofs`: `EntriesKeepTheirWriterHolds`, for stale reads too.
  `StatusWriters` reduces a step to four ways of patching.
  `AnnouncedWasExposedHolds` from `ExposedInv`: every copy that a publish may
  start from holds leaves that this cluster exposed, and a patch mixes leaves of
  the server with leaves of such copies.  `AdoptedWasExposedHolds` is the other
  direction: by `SentInv` a message says what its sender exposed, and by the
  action property an entry moves only towards the message in hand, so no copy
  needs to be spoken of.
* `ClockProofs`: `ClockInvHolds` (no time in the future; a received entry that
  waits to be saved is not older than the server's) and from it
  `PeerUpdateNeverGoesBackHolds`: only the callback writes the time of a peer, so
  no other patch can overtake its.  Of the own entry, which has two writers,
  this is false (section 4).  `HeardInvHolds`, with no assumption on the
  cache: of a peer outside `behind` the entry is what was heard, at most
  `Debounce - 1` older, or it was pruned and that much less than its age has
  passed.  Nobody but the callback writes the entry, so where its copy of that
  entry was the server's when it patched, the patch is an overwrite, whatever
  else in the copy was stale; and one such message takes a peer out of `behind`,
  so the invariant has to hold again from any state that stale copies have led
  to.  `AdoptsUnlessBehindHolds` and `LivePeerKeptHolds` follow.  For peers in
  `behind` both are false (`robot_lost_update`, and the cleared map of section 4).
* `PubSubProofs`: `QueueImplemented`, every step of the datasource is a step of
  `AckedQueue` or a stutter.  It needs `HoldInv`: the message in the hand of
  the delivery goroutine is in the backlog or handled, while `acking` it is
  handled, and the receiver's message is in the backlog or handled too (it may
  be delivered again after its ack).  `PubSubTypeCorrect` comes with it.
* `PeerProofs`: `EndpointsWerePublishedHolds` from `EverInv` (the status, its
  cache and the worker's copy hold published values only, whatever the caches
  show), `ListedNotDeletedHolds` from `ListedInv` (a name in `preexisting`
  belongs to no listed peer service but those the loop still has before it).
  `RoundMirrorsHolds` from `RoundInv`, which says of an undisturbed round whose
  listed names differ: what is still to come is as the caches show it, except
  Endpoints that the endpoints controller took (`PendingInv`); what the loop
  has passed is mirrored (`DoneInv`); every other Service is still in
  `preexisting` (`ExtraInv`); and each call finds the state it was chosen for
  (`CallInv`), so that a call that meets a changed object belongs to a disturbed
  round.  That names differ is needed: of two with one name the second
  overwrites the first.
* `LocalProofs`: what the loops and sorts of `LocalServices` return, for lists of
  every length (no run; the theorems are in `PublishProofs`).  The library's
  induction theorems are out of the prover's reach, so the induction is done by
  hand, on sets in place of predicates: a set of numbers has a least one
  (`LeastNatural`, from the library's well-foundedness of `<`), so one that has
  0 and each successor up to a number has them all (`InductionUpTo`), and a
  recursive function up to a number exists (`RecursionUpTo`).  With these,
  `SortedList`: the insertion sort orders a list, keeps its elements, and leaves
  an ordered one as it is; `KeptPorts`: the loop over the ports keeps those with
  a node port, in order; `PortListsFilled`: what the two slices hold in the end;
  `ByAddressFound`: every finite set of endpoints has a list sorted by address.
* `PublishProofs`: `NeverForgottenHolds` and `QuietMeansCurrentHolds`, from one
  invariant.  `AgeInv`: unless the last stamp was slow, no copy is younger than the
  server's entry, so a delay computed from a copy is not too long.  `ReadInv`: while no request is queued,
  what the worker read is still in the cache, and what it will patch differs
  from it; so after the patch the server differs from the cache
  (`MergedFields`, `MergedMap`: whatever the server holds, a patch that changes a
  field leaves something else than its original, even where it only makes part
  of a service; `ChangedMaps`, from `SortedOrdered`: what the sorting comparison
  finds different is different), and the event of the ServiceSync brings
  the next reconcile.  `CurrentInv` is the rest: the entry is current, or such
  an event is to come, or a request.  `UnchangedEndpoints`: a node event that
  leads to no request and is not one of `Invisible` leaves the endpoints.
  `PublishTypeCorrect` adds `RangeInv`, for what is sent and answered, and uses
  that a patch replaces a list of endpoints as a whole; it does not say that a
  service has ports, which a partial patch may leave out.
  `NodePortsRecordedHolds` follows from `QuietMeansCurrent` and
  `PortListsFilled`.

Every invariant and action property that a passing run checks is stated by a
theorem.  That none holds only because its hypotheses are never met is seen on
the instances: for each, `PROJECT.json` names a mutant that breaks it.

Model-checked only: the liveness properties (`EventuallyAdopted`,
`EventuallyRecorded`, `EventuallyAnnounced`, `MirrorsSettle`, `Handled`,
`SubscribeReturns`, `PublishReaches`, `PatchingEnds`), which rest on fairness and so on ENABLED,
out of reach of the prover; and the properties that the code violates.

## 6. Not modelled

* Several ServiceSyncs, their deletion, and changes of their Spec: the code
  handles each request on its own but shares `lastRequestedBroadcast`, the
  callbacks of a topic and `clusterName`.
* `getClusterName`: it reads one list of nodes, from a cache that is filled
  before the worker starts, and keeps the name.  All modules take it as given.
  Nodes with different labels may give different names after a restart.
* The metrics: `clusterLastUpdateTimes` is read every five seconds and written
  nowhere.
* `EndpointsPublishMax` and `EndpointsConfigureMax`: nothing reads them.
* `main`, the mock, generated code and manifests: library calls, a test double,
  text.
