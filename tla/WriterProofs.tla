------------------------------ MODULE WriterProofs ------------------------------
(***************************************************************************)
(* The two goroutines share one object and keep out of each other's part   *)
(* of it, although every patch may be computed from stale copies.          *)
(***************************************************************************)
EXTENDS RobotProofs

(* A goroutine that is about to write the publish time t.                  *)
Stamping(t) ==
    \/ rpc = "stamping" /\ t = stamp
    \/ cpc = "stamping" /\ t = Own(instance).lastUpdate

(* The four ways a step can change the status.                             *)
LEMMA StatusWriters ==
    ASSUME CopyInv, [Next]_vars
    PROVE  \/ status' = status
           \/ /\ rpc = "patching" /\ rpc' = "publishing"
              /\ PatchStatus(OwnStatus(OrEmpty(selfStatus)),
                             OwnStatus([OrEmpty(selfStatus) EXCEPT
                                           !.services = current]))
           \/ \E e \in Entry, t \in Time :
                 Stamping(t) /\ UpdateAndSetPublishTime(e, t)
           \/ cpc = "saving" /\ SaveStatus /\ PatchStatus(original, instance)
<1> DEFINE Written ==
       \/ status' = status
       \/ /\ rpc = "patching" /\ rpc' = "publishing"
          /\ PatchStatus(OwnStatus(OrEmpty(selfStatus)),
                         OwnStatus([OrEmpty(selfStatus) EXCEPT
                                       !.services = current]))
       \/ \E e \in Entry, t \in Time :
             Stamping(t) /\ UpdateAndSetPublishTime(e, t)
       \/ cpc = "saving" /\ SaveStatus /\ PatchStatus(original, instance)
<1>1. CASE EnvironmentStep
  BY <1>1 DEF EnvironmentStep, Tick, WatchEvent, EditLocal, EditPeer,
              PeerPublishes, PeerAsks, Arrive
<1>2. CASE ReconcilerStep
  <2>1. CASE PatchLocalStatus
    BY <2>1 DEF PatchLocalStatus, Worker, GiveUp, NoPatch
  <2>2. CASE StampLocal
    <3> DEFINE e == [OrEmpty(selfStatus) EXCEPT !.services = current]
    <3>1. e \in Entry
      BY OrEmptyType DEF CopyInv, TypeOK, Entry
    <3>2. UpdateAndSetPublishTime(e, stamp) \/ NoPatch
      BY <2>2 DEF StampLocal
    <3>3. stamp \in Time /\ Stamping(stamp)
      BY <2>2 DEF StampLocal, Worker, Stamping, CopyInv, TypeOK
    <3> HIDE DEF e
    <3> QED
      BY <3>1, <3>2, <3>3 DEF NoPatch
  <2>3. ASSUME \/ Reconcile \/ EnsurePeerServicesFails \/ EnsureLocalStatus
               \/ PublishLocal
        PROVE  status' = status
    BY <2>3 DEF Reconcile, EnsurePeerServicesFails, GiveUp,
                EnsureLocalStatus, PublishLocal, NoPatch
  <2> QED
    BY <1>2, <2>1, <2>2, <2>3 DEF ReconcilerStep
<1>3. CASE CallbackStep
  <2>1. CASE SaveStatus
    BY <2>1 DEF SaveStatus, Goroutine, NoPatch
  <2>2. CASE StampAnswer
    <3> DEFINE e == original.clusters[Me]
               t == Own(instance).lastUpdate
    <3>1. e \in Entry
      BY <2>2 DEF StampAnswer, Goroutine, CopyInv, AnswerInv, TypeOK, Status,
                  Cluster
    <3>2. UpdateAndSetPublishTime(e, t) \/ NoPatch
      BY <2>2 DEF StampAnswer, Own
    <3>3. Own(instance) \in Entry /\ Stamping(t)
      BY <2>2 DEF StampAnswer, Goroutine, Stamping, CopyInv, AnswerInv, TypeOK,
                  Status, Cluster, Own
    <3>4. t \in Time
      BY <3>3 DEF Entry
    <3> HIDE DEF e, t
    <3> QED
      BY <3>1, <3>2, <3>3, <3>4 DEF NoPatch
  <2>3. ASSUME \/ HandleOwn \/ (\E p \in Peer : HandleRequest(p))
               \/ (\E m \in inbox : HandleData(m)) \/ AnswerRequest
        PROVE  status' = status
    BY <2>3 DEF HandleOwn, HandleRequest, HandleData, AnswerRequest, NoPatch
  <2> QED
    BY <1>3, <2>1, <2>2, <2>3 DEF CallbackStep
<1>4. CASE ProcessStep
  BY <1>4 DEF ProcessStep, NilEntryPanic, Crash, Stop, Restart, NoPatch
<1>5. CASE UNCHANGED vars
  BY <1>5 DEF vars
<1> QED
  BY <1>1, <1>2, <1>3, <1>4, <1>5 DEF Next

(* A patch of the own entry writes nothing else.                           *)
LEMMA OwnPatch ==
    ASSUME TypeOK, NEW d \in Entry, NEW e \in Entry,
           PatchStatus(OwnStatus(d), OwnStatus(e))
    PROVE  /\ \A p \in Peer : status'.clusters[p] = status.clusters[p]
           /\ status'.clusters[Me] = MergeEntry(status.clusters[Me], d, e)
<1>1. /\ OwnStatus(d) \in Status /\ OwnStatus(e) \in Status
      /\ status \in Status
  BY OwnStatusType DEF TypeOK
<1>2. /\ OwnStatus(d).clusters[Me] = d /\ OwnStatus(e).clusters[Me] = e
      /\ \A p \in Peer : OwnStatus(d).clusters[p] = OwnStatus(e).clusters[p]
  BY StatusAssumption DEF OwnStatus, EmptyStatus, Cluster
<1>3. Me \in Known(OwnStatus(e).clusters)
  BY <1>2, StatusAssumption DEF Known, Cluster
<1>4. status' = MergePatch(status, OwnStatus(d), OwnStatus(e))
  BY DEF PatchStatus
<1>5. ASSUME NEW p \in Peer
      PROVE  status'.clusters[p] = status.clusters[p]
  <2>1. p \in Cluster
    BY DEF Cluster
  <2> QED
    BY <1>1, <1>2, <1>3, <1>4, <2>1, PatchKeeps
<1>6. status'.clusters[Me] = MergeEntry(status.clusters[Me], d, e)
  BY <1>2, <1>3, <1>4 DEF MergePatch, MergeClusters, Cluster
<1> QED
  BY <1>5, <1>6

(* Stamping the publish time changes no services map.                      *)
LEMMA StampPatch ==
    ASSUME TypeOK, NEW e \in Entry, NEW t \in Time,
           UpdateAndSetPublishTime(e, t)
    PROVE  /\ \A p \in Peer : status'.clusters[p] = status.clusters[p]
           /\ OrEmpty(Own(status')).services = OrEmpty(Own(status)).services
           /\ \/ Own(status') = Own(status)
              \/ Own(status') \in Entry /\ Own(status').lastUpdate = t
              \/ /\ Own(status') \in Entry
                 /\ Own(status').lastUpdate = OrEmpty(Own(status)).lastUpdate
<1> DEFINE f == [e EXCEPT !.lastUpdate = t]
           s == status.clusters[Me]
<1>1. /\ f \in Entry /\ f.services = e.services /\ f.lastUpdate = t
      /\ f.named = e.named
  BY DEF Entry
<1>2. s \in Entry \cup {NoEntry}
  BY DEF TypeOK, Status, Cluster
<1>3. /\ \A p \in Peer : status'.clusters[p] = status.clusters[p]
      /\ status'.clusters[Me] = MergeEntry(s, e, f)
  BY <1>1, OwnPatch DEF UpdateAndSetPublishTime
<1>4. OrEmpty(s) \in Entry /\ OrEmpty(e) = e /\ f # NoEntry
  BY <1>1, <1>2, OrEmptyType, StatusAssumption DEF OrEmpty
<1>5. MergeServices(OrEmpty(s).services, e.services, e.services)
        = OrEmpty(s).services
  BY <1>4, MergeServicesKeeps DEF Entry
<1> HIDE DEF f, s
<1>6. CASE f = e
  BY <1>3, <1>6 DEF MergeEntry, Own, s
<1>7. CASE f # e
  <2>1. MergeEntry(s, e, f) =
          [named      |-> OrEmpty(s).named,
           services   |-> OrEmpty(s).services,
           lastUpdate |-> MergeLeaf(OrEmpty(s).lastUpdate, e.lastUpdate, t)]
    BY <1>1, <1>4, <1>5, <1>7 DEF MergeEntry, MergeLeaf
  <2>2. MergeEntry(s, e, f) \in Entry
    BY <1>1, <1>2, <1>4, <2>1, MergeEntryType DEF Entry, MergeLeaf
  <2>3. OrEmpty(MergeEntry(s, e, f)) = MergeEntry(s, e, f)
    BY <2>2, StatusAssumption DEF OrEmpty
  <2> QED
    BY <1>3, <2>1, <2>2, <2>3 DEF Own, s, MergeLeaf
<1> QED
  BY <1>3, <1>6, <1>7

(* Saving after a message of this cluster only removes entries.            *)
LEMMA PruningPatch ==
    ASSUME TypeOK, PruningCopy, PatchStatus(original, instance)
    PROVE  \A c \in Cluster :
              status'.clusters[c] \in {status.clusters[c], NoEntry}
BY DEF PatchStatus, PruningCopy, MergePatch, MergeClusters, MergeEntry, Status

(* Saving after a data message merges its sender's entry only.             *)
LEMMA ReceivedPatch ==
    ASSUME TypeOK, ReceivedCopy, PatchStatus(original, instance)
    PROVE  LET p == msg.from IN
           /\ p \in Peer /\ instance.clusters[p] \in Entry
           /\ \A c \in Cluster \ {p} :
                 status'.clusters[c] = status.clusters[c]
           /\ status'.clusters[p] = MergeEntry(status.clusters[p],
                  original.clusters[p], instance.clusters[p])
<1> DEFINE p == msg.from
<1>1. p \in Peer /\ p \in Cluster
  BY DataMessage DEF ReceivedCopy, TypeOK, Cluster
<1>2. instance.clusters[p] \in Entry
  BY <1>1 DEF ReceivedCopy, TypeOK, Status
<1>3. p \in Known(instance.clusters)
  BY <1>1 DEF ReceivedCopy, Known
<1>4. /\ status' = MergePatch(status, original, instance)
      /\ status \in Status /\ original \in Status /\ instance \in Status
  BY DEF PatchStatus, TypeOK
<1>5. ASSUME NEW c \in Cluster \ {p}
      PROVE  status'.clusters[c] = status.clusters[c]
  <2>1. original.clusters[c] = instance.clusters[c]
    BY <1>5 DEF ReceivedCopy
  <2> QED
    BY <1>3, <1>4, <2>1, PatchKeeps
<1>6. status'.clusters[p] = MergeEntry(status.clusters[p],
                                original.clusters[p], instance.clusters[p])
  BY <1>1, <1>3, <1>4 DEF MergePatch, MergeClusters
<1> QED
  BY <1>1, <1>2, <1>5, <1>6

(* The sender's entry after such a merge: kept, or each leaf of it what it *)
(* was or what the message says.                                           *)
LEMMA ReceivedLeaves ==
    ASSUME NEW s \in Entry \cup {NoEntry}, NEW o \in Entry \cup {NoEntry},
           NEW m \in Entry
    PROVE  \/ MergeEntry(s, o, m) = s
           \/ /\ MergeEntry(s, o, m) \in Entry
              /\ \A l \in Leaf : MergeEntry(s, o, m).services[l] \in
                                    {OrEmpty(s).services[l], m.services[l]}
              /\ MergeEntry(s, o, m).lastUpdate \in
                                    {OrEmpty(s).lastUpdate, m.lastUpdate}
              /\ MergeEntry(s, o, m).named \in {OrEmpty(s).named, m.named}
<1>1. CASE m = o
  BY <1>1 DEF MergeEntry
<1>2. CASE m # o
  <2>1. m # NoEntry /\ OrEmpty(s) \in Entry /\ OrEmpty(o) \in Entry
    BY OrEmptyType, StatusAssumption
  <2>2. MergeEntry(s, o, m) =
          [named      |-> MergeLeaf(OrEmpty(s).named, OrEmpty(o).named,
                              m.named),
           services   |-> MergeServices(OrEmpty(s).services,
                              OrEmpty(o).services, m.services),
           lastUpdate |-> MergeLeaf(OrEmpty(s).lastUpdate,
                              OrEmpty(o).lastUpdate, m.lastUpdate)]
    BY <1>2, <2>1 DEF MergeEntry
  <2>3. /\ OrEmpty(s).services \in Advert /\ OrEmpty(o).services \in Advert
        /\ m.services \in Advert
    BY <2>1 DEF Entry
  <2>4. MergeEntry(s, o, m) \in Entry
    BY <2>1, <2>2, <2>3, MergeServicesType DEF Entry, MergeLeaf
  <2>5. \A l \in Leaf : MergeEntry(s, o, m).services[l] \in
                            {OrEmpty(s).services[l], m.services[l]}
    BY <2>2, <2>3, MergeServicesMixes
  <2>6. MergeEntry(s, o, m).lastUpdate \in
                            {OrEmpty(s).lastUpdate, m.lastUpdate}
    BY <2>2 DEF MergeLeaf
  <2>7. MergeEntry(s, o, m).named \in {OrEmpty(s).named, m.named}
    BY <2>2 DEF MergeLeaf
  <2> QED
    BY <2>4, <2>5, <2>6, <2>7
<1> QED
  BY <1>1, <1>2

-----------------------------------------------------------------------------
(* Each step keeps to its part of the object.                              *)
LEMMA WriterStep ==
    ASSUME CopyInv, [Next]_vars
    PROVE  (\A p \in Peer : PeerEntryStep(p)) /\ OwnEntryStep
<1> USE DEF CopyInv
<1>1. CASE status' = status
  BY <1>1 DEF PeerEntryStep, OwnEntryStep, Own
<1>2. CASE /\ rpc = "patching" /\ rpc' = "publishing"
           /\ PatchStatus(OwnStatus(OrEmpty(selfStatus)),
                          OwnStatus([OrEmpty(selfStatus) EXCEPT
                                        !.services = current]))
  <2> DEFINE d == OrEmpty(selfStatus)
             e == [d EXCEPT !.services = current]
  <2>1. d \in Entry /\ e \in Entry
    BY OrEmptyType DEF TypeOK, Entry
  <2> HIDE DEF d, e
  <2>2. \A p \in Peer : status'.clusters[p] = status.clusters[p]
    BY <1>2, <2>1, OwnPatch DEF d, e
  <2> QED
    BY <1>2, <2>2 DEF PeerEntryStep, OwnEntryStep
<1>3. ASSUME NEW e \in Entry, NEW t \in Time, UpdateAndSetPublishTime(e, t)
      PROVE  (\A p \in Peer : PeerEntryStep(p)) /\ OwnEntryStep
  BY <1>3, StampPatch DEF PeerEntryStep, OwnEntryStep
<1>4. CASE cpc = "saving" /\ PatchStatus(original, instance)
  <2>1. CASE PruningCopy
    <3>1. msg = OwnMsg
      BY <2>1 DEF PruningCopy
    <3>2. \A c \in Cluster :
             status'.clusters[c] \in {status.clusters[c], NoEntry}
      BY <1>4, <2>1, PruningPatch
    <3>3. \A p \in Peer : PeerEntryStep(p)
      BY <1>4, <3>1, <3>2 DEF PeerEntryStep, Cluster
    <3>4. OwnEntryStep
      BY <1>4, <3>1, <3>2 DEF OwnEntryStep, Own, Cluster
    <3> QED
      BY <3>3, <3>4
  <2>2. CASE ReceivedCopy
    <3> DEFINE q == msg.from
    <3>1. /\ q \in Peer /\ instance.clusters[q] \in Entry
          /\ instance.clusters[q].services = msg.services
          /\ \A c \in Cluster \ {q} : status'.clusters[c] = status.clusters[c]
          /\ status'.clusters[q] = MergeEntry(status.clusters[q],
                 original.clusters[q], instance.clusters[q])
      BY <1>4, <2>2, ReceivedPatch DEF ReceivedCopy
    <3>2. /\ status.clusters[q] \in Entry \cup {NoEntry}
          /\ original.clusters[q] \in Entry \cup {NoEntry}
      BY <3>1 DEF TypeOK, Status, Cluster
    <3>3. \/ status'.clusters[q] = status.clusters[q]
          \/ /\ status'.clusters[q] \in Entry
             /\ \A l \in Leaf : status'.clusters[q].services[l] \in
                   {OrEmpty(status.clusters[q]).services[l], msg.services[l]}
      <4> DEFINE f == MergeEntry(status.clusters[q], original.clusters[q],
                                 instance.clusters[q])
      <4>1. \/ f = status.clusters[q]
            \/ /\ f \in Entry
               /\ \A l \in Leaf : f.services[l] \in
                     {OrEmpty(status.clusters[q]).services[l],
                      instance.clusters[q].services[l]}
        BY <3>1, <3>2, ReceivedLeaves
      <4> HIDE DEF f
      <4>2. status'.clusters[q] = f
        BY <3>1 DEF f
      <4> QED
        BY <3>1, <4>1, <4>2
    <3>4. PeerEntryStep(q)
      BY <1>4, <3>3, StatusAssumption DEF PeerEntryStep
    <3>5. \A p \in Peer \ {q} : PeerEntryStep(p)
      BY <3>1 DEF PeerEntryStep, Cluster
    <3>6. OwnEntryStep
      BY <3>1, StatusAssumption DEF OwnEntryStep, Own, Cluster
    <3> QED
      BY <3>4, <3>5, <3>6
  <2> QED
    BY <1>4, <2>1, <2>2 DEF SaveInv
<1> QED
  BY <1>1, <1>2, <1>3, <1>4, StatusWriters

(* However stale the copies are that the worker and the callback patch     *)
(* from, neither writes what the other one maintains, and a peer's entry   *)
(* changes only towards the message that is being handled.                 *)
THEOREM EntriesKeepTheirWriterHolds == Spec => EntriesKeepTheirWriter
<1>1. CopyInv /\ [Next]_vars =>
         [(\A p \in Peer : PeerEntryStep(p)) /\ OwnEntryStep]_vars
  BY WriterStep
<1> QED
  BY <1>1, CopiesCorrect, PTL DEF Spec, EntriesKeepTheirWriter

-----------------------------------------------------------------------------
(* What was exposed stays exposed.                                         *)
LEMMA ExposedStays ==
    ASSUME localSeen \subseteq localSeen', NEW a, ExposedMap(a)
    PROVE  \A l \in Leaf : a[l] = Absent \/ \E b \in localSeen' : b[l] = a[l]
BY DEF ExposedMap, Exposed

(* Where each step takes the copies and the announcements from.            *)
LEMMA ExposedSources ==
    ASSUME CopyInv, [Next]_vars
    PROVE  /\ localSeen \subseteq localSeen'
           /\ local' \in localSeen' \/ local' = local
           /\ cache' \in {cache, status, status'}
           /\ original' \in {original, cache, EmptyStatus}
           /\ selfStatus' \in {selfStatus, Own(cache), NoEntry}
           /\ current' \in {current, local, NoAdvert}
           /\ announced' \subseteq announced \cup {current}
                               \cup {OrEmpty(Own(original)).services}
<1>1. CASE EnvironmentStep
  BY <1>1 DEF EnvironmentStep, Tick, WatchEvent, EditLocal, EditPeer,
              PeerPublishes, PeerAsks, Arrive, unchangedByEnvironment,
              exposed, reconciler, callback
<1>2. CASE ReconcilerStep
  <2>1. UNCHANGED exposed /\ UNCHANGED callback
    BY <1>2 DEF ReconcilerStep, Reconcile, EnsurePeerServicesFails,
                EnsureLocalStatus, PatchLocalStatus, PublishLocal, StampLocal,
                unchangedByWorker
  <2>2. cache' \in {cache, status'}
    BY <1>2 DEF ReconcilerStep, Reconcile, EnsurePeerServicesFails,
                EnsureLocalStatus, PatchLocalStatus, PublishLocal, StampLocal,
                GiveUp, NoPatch, PatchStatus, UpdateAndSetPublishTime
  <2>3. /\ selfStatus' \in {selfStatus, Own(cache), NoEntry}
        /\ current' \in {current, local, NoAdvert}
    BY <1>2 DEF ReconcilerStep, Reconcile, EnsurePeerServicesFails,
                EnsureLocalStatus, PatchLocalStatus, PublishLocal, StampLocal,
                GiveUp, WorkerIdle, Own
  <2>4. announced' \subseteq announced \cup {current}
    BY <1>2 DEF ReconcilerStep, Reconcile, EnsurePeerServicesFails,
                EnsureLocalStatus, PatchLocalStatus, PublishLocal, StampLocal,
                Announce
  <2> QED
    BY <2>1, <2>2, <2>3, <2>4 DEF exposed, callback
<1>3. CASE CallbackStep
  <2>1. UNCHANGED exposed /\ UNCHANGED reconciler
    BY <1>3 DEF CallbackStep, HandleOwn, HandleRequest, HandleData, SaveStatus,
                AnswerRequest, StampAnswer, unchangedByGoroutine
  <2>2. cache' \in {cache, status'}
    BY <1>3 DEF CallbackStep, HandleOwn, HandleRequest, HandleData, SaveStatus,
                AnswerRequest, StampAnswer, NoPatch, PatchStatus,
                UpdateAndSetPublishTime
  <2>3. original' \in {original, cache, EmptyStatus}
    BY <1>3 DEF CallbackStep, HandleOwn, HandleRequest, HandleData, SaveStatus,
                AnswerRequest, StampAnswer, SaveOrAck, Remember, GoroutineIdle
  <2>4. announced' \subseteq announced \cup
                                {OrEmpty(Own(original)).services}
    <3>1. CASE AnswerRequest
      <4>1. Own(original) # NoEntry
        BY <3>1 DEF AnswerRequest, Goroutine, CopyInv, AnswerInv, Own
      <4> QED
        BY <3>1, <4>1 DEF AnswerRequest, Announce, OrEmpty, Own
    <3> QED
      BY <1>3, <3>1 DEF CallbackStep, HandleOwn, HandleRequest, HandleData,
                        SaveStatus, StampAnswer
  <2> QED
    BY <2>1, <2>2, <2>3, <2>4 DEF exposed, reconciler
<1>4. CASE ProcessStep
  BY <1>4 DEF ProcessStep, NilEntryPanic, Crash, Restart, Stop, WorkerIdle,
              GoroutineIdle, NoPatch, exposed, reconciler, callback
<1>5. CASE UNCHANGED vars
  BY <1>5 DEF vars
<1> QED
  BY <1>1, <1>2, <1>3, <1>4, <1>5 DEF Next

(* The own entry keeps to what was exposed, through patches from copies.   *)
LEMMA OwnEntryExposed ==
    ASSUME CopyInv, ExposedInv, [Next]_vars
    PROVE  ExposedMap(OrEmpty(Own(status')).services)
<1> USE DEF CopyInv
<1>1. CASE status' = status
  BY <1>1 DEF ExposedInv, ExposedEntry
<1>2. CASE PatchStatus(OwnStatus(OrEmpty(selfStatus)),
                       OwnStatus([OrEmpty(selfStatus) EXCEPT
                                     !.services = current]))
  <2> DEFINE s == Own(status)
             d == OrEmpty(selfStatus)
             e == [d EXCEPT !.services = current]
  <2>1. d \in Entry /\ e \in Entry /\ e.services = current
    BY OrEmptyType DEF TypeOK, Entry
  <2>2. s \in Entry \cup {NoEntry}
    BY DEF TypeOK, Status, Cluster, Own
  <2>3. ExposedMap(OrEmpty(s).services) /\ ExposedMap(e.services)
    BY <2>1 DEF ExposedInv, ExposedEntry
  <2> HIDE DEF d, e
  <2>4. Own(status') = MergeEntry(s, d, e)
    BY <1>2, <2>1, OwnPatch DEF d, e, Own
  <2> HIDE DEF s
  <2>5. CASE MergeEntry(s, d, e) = s
    BY <2>3, <2>4, <2>5
  <2>6. CASE /\ MergeEntry(s, d, e) \in Entry
             /\ \A l \in Leaf : MergeEntry(s, d, e).services[l] \in
                                   {OrEmpty(s).services[l], e.services[l]}
    <3>1. OrEmpty(Own(status')) = MergeEntry(s, d, e)
      BY <2>4, <2>6, StatusAssumption DEF OrEmpty
    <3> QED
      BY <2>3, <2>6, <3>1 DEF ExposedMap, Exposed
  <2> QED
    BY <2>1, <2>2, <2>5, <2>6, ReceivedLeaves
<1>3. ASSUME NEW e \in Entry, NEW t \in Time, UpdateAndSetPublishTime(e, t)
      PROVE  ExposedMap(OrEmpty(Own(status')).services)
  BY <1>3, StampPatch DEF ExposedInv, ExposedEntry
<1>4. CASE cpc = "saving" /\ PatchStatus(original, instance)
  <2>1. CASE PruningCopy
    <3>1. Own(status') \in {Own(status), NoEntry}
      BY <1>4, <2>1, PruningPatch DEF Own, Cluster
    <3>2. ExposedMap(OrEmpty(NoEntry).services)
      BY DEF ExposedMap, Exposed, OrEmpty, EmptyEntry, NoAdvert
    <3> QED
      BY <3>1, <3>2 DEF ExposedInv, ExposedEntry
  <2>2. CASE ReceivedCopy
    <3>1. Own(status') = Own(status)
      BY <1>4, <2>2, ReceivedPatch, StatusAssumption DEF Own, Cluster
    <3> QED
      BY <3>1 DEF ExposedInv, ExposedEntry
  <2> QED
    BY <1>4, <2>1, <2>2 DEF SaveInv
<1> QED
  BY <1>1, <1>2, <1>3, <1>4, StatusWriters

(* The inductive step.                                                     *)
LEMMA ExposedStep ==
    ASSUME CopyInv, ExposedInv, [Next]_vars
    PROVE  ExposedInv'
<1>1. /\ ExposedMap(NoAdvert) /\ ExposedMap(local) /\ ExposedMap(current)
      /\ OrEmpty(NoEntry).services = NoAdvert
      /\ Own(EmptyStatus) = NoEntry
  BY DEF ExposedMap, Exposed, NoAdvert, ExposedInv, OrEmpty, EmptyEntry,
         EmptyStatus, Own, Cluster
<1>2. ExposedMap(OrEmpty(Own(status')).services)
  BY OwnEntryExposed
<1>3. /\ ExposedMap(OrEmpty(Own(cache')).services)
      /\ ExposedMap(OrEmpty(Own(original')).services)
      /\ ExposedMap(OrEmpty(selfStatus').services)
      /\ ExposedMap(current')
      /\ \A a \in announced' : ExposedMap(a)
  BY <1>1, <1>2, ExposedSources
     DEF ExposedInv, ExposedEntry, AnnouncedWasExposed, ExposedMap
<1>4. localSeen \subseteq localSeen' /\ local' \in localSeen'
  BY ExposedSources DEF ExposedInv
<1>5. \A a : ExposedMap(a) => \A l \in Leaf :
         a[l] = Absent \/ \E b \in localSeen' : b[l] = a[l]
  BY <1>4, ExposedStays
<1> QED
  BY <1>2, <1>3, <1>4, <1>5
     DEF ExposedInv, ExposedEntry, ExposedMap, Exposed, AnnouncedWasExposed,
         Own

(* However many patches from stale copies have made the own entry, nothing *)
(* is published that this cluster did not expose at some time.             *)
THEOREM AnnouncedWasExposedHolds == Spec => []AnnouncedWasExposed
<1>1. Init => ExposedInv
  BY DEF Init, ExposedInv, ExposedEntry, ExposedMap, Exposed, OrEmpty,
         EmptyEntry, NoAdvert, EmptyStatus, Own, Cluster, AnnouncedWasExposed
<1>2. CopyInv /\ ExposedInv /\ [Next]_vars => ExposedInv'
  BY ExposedStep
<1>3. ExposedInv => AnnouncedWasExposed
  BY DEF ExposedInv
<1> QED
  BY <1>1, <1>2, <1>3, CopiesCorrect, PTL DEF Spec

-----------------------------------------------------------------------------
(* What was seen of a peer stays seen, and what it exposes is seen.        *)
LEMMA SeenStays ==
    ASSUME CopyInv, [Next]_vars, NEW p \in Peer
    PROVE  /\ peerSeen[p] \subseteq peerSeen'[p]
           /\ peerAdvert'[p] = peerAdvert[p] \/ peerAdvert'[p] \in peerSeen'[p]
<1>1. CASE \E q \in Peer, a \in PeerAdverts : EditPeer(q, a)
  <2>1. PICK q \in Peer, a \in PeerAdverts : EditPeer(q, a)
    BY <1>1
  <2> QED
    BY <2>1 DEF EditPeer, CopyInv, TypeOK
<1>2. ASSUME \A q \in Peer, a \in PeerAdverts : ~EditPeer(q, a)
      PROVE  UNCHANGED <<peerAdvert, peerSeen>>
  <2>1. CASE EnvironmentStep
    BY <1>2, <2>1 DEF EnvironmentStep, Tick, WatchEvent, EditLocal,
                      PeerPublishes, PeerAsks, Arrive, exposed
  <2>2. CASE ReconcilerStep
    BY <2>2 DEF ReconcilerStep, Reconcile, EnsurePeerServicesFails,
                EnsureLocalStatus, PatchLocalStatus, PublishLocal, StampLocal,
                unchangedByWorker, exposed
  <2>3. CASE CallbackStep
    BY <2>3 DEF CallbackStep, HandleOwn, HandleRequest, HandleData, SaveStatus,
                AnswerRequest, StampAnswer, unchangedByGoroutine, exposed
  <2>4. CASE ProcessStep
    BY <2>4 DEF ProcessStep, NilEntryPanic, Crash, Restart, Stop, exposed
  <2> QED
    BY <2>1, <2>2, <2>3, <2>4 DEF Next, vars
<1> QED
  BY <1>1, <1>2

(* Where each step takes data messages from.                               *)
LEMMA MessageSources ==
    ASSUME CopyInv, [Next]_vars, NEW m \in inbox' \cup {msg'}, m.kind = "data"
    PROVE  \/ m \in inbox \cup {msg}
           \/ \E p \in Peer : m = DataMsg(p, peerAdvert[p])
<1>1. /\ OwnMsg.kind # "data"
      /\ \A p \in Peer : RequestMsg(p).kind # "data"
  BY DEF OwnMsg, RequestMsg
<1>2. CASE EnvironmentStep
  BY <1>1, <1>2 DEF EnvironmentStep, Tick, WatchEvent, EditLocal, EditPeer,
                    PeerPublishes, PeerAsks, Arrive, unchangedByEnvironment,
                    callback
<1>3. CASE ReconcilerStep
  BY <1>1, <1>3 DEF ReconcilerStep, Reconcile, EnsurePeerServicesFails,
                    EnsureLocalStatus, PatchLocalStatus, PublishLocal,
                    StampLocal, Announce, Echo, unchangedByWorker, callback
<1>4. CASE CallbackStep
  <2>1. /\ inbox' \subseteq inbox \cup {OwnMsg}
        /\ msg' \in inbox \cup {msg, OwnMsg}
    BY <1>4 DEF CallbackStep, HandleOwn, HandleRequest, HandleData, SaveStatus,
                AnswerRequest, StampAnswer, Delivered, SaveOrAck, Remember,
                GoroutineIdle, Ack, Announce, Echo
  <2> QED
    BY <1>1, <2>1
<1>5. CASE ProcessStep
  BY <1>1, <1>5 DEF ProcessStep, NilEntryPanic, Crash, Restart, Stop,
                    GoroutineIdle, callback
<1>6. CASE UNCHANGED vars
  BY <1>6 DEF vars
<1> QED
  BY <1>2, <1>3, <1>4, <1>5, <1>6 DEF Next

(* The inductive step: a message says what its sender exposed ...          *)
LEMMA SentStep ==
    ASSUME CopyInv, SentInv, [Next]_vars
    PROVE  SentInv'
<1>1. \A p \in Peer : peerAdvert'[p] \in peerSeen'[p]
  BY SeenStays DEF SentInv
<1>2. ASSUME NEW m \in inbox' \cup {msg'}, m.kind = "data"
      PROVE  m.services \in peerSeen'[m.from]
  <2>1. CASE m \in inbox \cup {msg}
    <3>1. m.from \in Peer
      BY <1>2, <2>1, DataMessage DEF CopyInv, TypeOK
    <3> QED
      BY <1>2, <2>1, <3>1, SeenStays DEF SentInv
  <2>2. CASE \E p \in Peer : m = DataMsg(p, peerAdvert[p])
    BY <2>2, SeenStays DEF SentInv, DataMsg
  <2> QED
    BY <1>2, <2>1, <2>2, MessageSources
<1> QED
  BY <1>1, <1>2 DEF SentInv

(* ... and an entry moves only towards a message of its peer.              *)
LEMMA AdoptedStep ==
    ASSUME CopyInv, AdoptedInv, [Next]_vars
    PROVE  AdoptedInv'
<1>1. ASSUME NEW p \in Peer, NEW l \in Leaf
      PROVE  LET adopted == OrEmpty(status'.clusters[p]).services[l]
             IN  adopted = Absent \/ \E a \in peerSeen'[p] : a[l] = adopted
  <2> DEFINE e == status.clusters[p]
             f == status'.clusters[p]
  <2>1. PeerEntryStep(p)
    BY WriterStep
  <2>2. peerSeen[p] \subseteq peerSeen'[p]
    BY SeenStays
  <2>3. CASE f = NoEntry
    BY <2>3 DEF OrEmpty, EmptyEntry, NoAdvert
  <2>4. CASE OrEmpty(f).services[l] = OrEmpty(e).services[l]
    BY <2>2, <2>4 DEF AdoptedInv, AdoptedWasExposed
  <2>5. CASE /\ msg.from = p /\ f # NoEntry
             /\ f.services[l] = msg.services[l]
    <3>1. msg.kind = "data" \/ msg.services = NoAdvert
      BY DEF CopyInv, TypeOK, Message, RequestMsg
    <3>2. msg.kind = "data" => msg.services \in peerSeen[p]
      BY <2>5 DEF AdoptedInv, SentInv
    <3>3. OrEmpty(f).services[l] = msg.services[l]
      BY <2>5 DEF OrEmpty
    <3> QED
      BY <2>2, <3>1, <3>2, <3>3 DEF NoAdvert
  <2> QED
    BY <2>1, <2>3, <2>4, <2>5 DEF PeerEntryStep, OrEmpty
<1> QED
  BY <1>1, SentStep DEF AdoptedInv, AdoptedWasExposed

(* Through late and repeated messages, stale copies, crashes and pruning,  *)
(* the status says of a peer nothing that the peer did not expose.         *)
THEOREM AdoptedWasExposedHolds == Spec => []AdoptedWasExposed
<1>1. Init => AdoptedInv
  BY DEF Init, AdoptedInv, SentInv, AdoptedWasExposed, EmptyStatus, OrEmpty,
         EmptyEntry, NoAdvert, Cluster, OwnMsg, RequestMsg
<1>2. CopyInv /\ AdoptedInv /\ [Next]_vars => AdoptedInv'
  BY AdoptedStep
<1>3. AdoptedInv => AdoptedWasExposed
  BY DEF AdoptedInv
<1> QED
  BY <1>1, <1>2, <1>3, CopiesCorrect, PTL DEF Spec
=============================================================================
