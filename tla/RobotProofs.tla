------------------------------ MODULE RobotProofs ------------------------------
(***************************************************************************)
(* Theorems about Robot: type correctness, and the inductive invariants of *)
(* RobotInvariants with the properties that follow from them.              *)
(***************************************************************************)
EXTENDS RobotInvariants, StatusProofs

-----------------------------------------------------------------------------
(* Type correctness.                                                       *)

(* The messages the environment and the process put in the inbox.          *)
LEMMA MessageTypes ==
    /\ OwnMsg \in Message
    /\ \A p \in Peer : RequestMsg(p) \in Message
    /\ \A p \in Peer, a \in Advert : DataMsg(p, a) \in Message
BY DEF Message, OwnMsg, RequestMsg, DataMsg, Cluster

(* Zenon and SMT need the shape of a data message.                         *)
LEMMA DataMessage ==
    ASSUME NEW m \in Message, m.kind = "data"
    PROVE  m.from \in Peer /\ m.services \in Advert
BY DEF Message, RequestMsg

(* A status with one entry is a status.                                    *)
LEMMA OwnStatusType ==
    ASSUME NEW e \in Entry \cup {NoEntry}
    PROVE  OwnStatus(e) \in Status
BY EmptyStatusType DEF OwnStatus, Status

(* Every patch leaves a status at the server and in the cache.             *)
LEMMA PatchStatusType ==
    ASSUME TypeOK, NEW o \in Status, NEW m \in Status, PatchStatus(o, m)
    PROVE  status' \in Status /\ cache' \in Status
BY MergePatchType DEF PatchStatus, TypeOK

(* So does a patch of the own publish time.                                *)
LEMMA UpdateAndSetPublishTimeType ==
    ASSUME TypeOK, NEW e \in Entry \cup {NoEntry}, e # NoEntry,
           NEW t \in Time, UpdateAndSetPublishTime(e, t)
    PROVE  status' \in Status /\ cache' \in Status
<1>1. [e EXCEPT !.lastUpdate = t] \in Entry
  BY DEF Entry
<1>2. /\ OwnStatus(e) \in Status
      /\ OwnStatus([e EXCEPT !.lastUpdate = t]) \in Status
  BY <1>1, OwnStatusType
<1> QED
  BY <1>2, PatchStatusType DEF UpdateAndSetPublishTime

(* What the callback makes of the cache is a status.                       *)
LEMMA CopyTypes ==
    ASSUME TypeOK
    PROVE  /\ [cache EXCEPT !.clusters = PruneExpired(cache.clusters, now)]
                \in Status
           /\ \A m \in Message :
                 m.kind = "data" => RemoteStatus(m) \in Status
<1>1. cache.clusters \in [Cluster -> Entry \cup {NoEntry}]
  BY DEF TypeOK, Status
<1>2. [cache EXCEPT !.clusters = PruneExpired(cache.clusters, now)] \in Status
  BY <1>1, PruneExpiredType DEF TypeOK, Status
<1>3. ASSUME NEW m \in Message, m.kind = "data"
      PROVE  RemoteStatus(m) \in Status
  <2> DEFINE clusters == [cache.clusters EXCEPT ![m.from] =
                             [named |-> TRUE, services |-> m.services,
                              lastUpdate |-> now]]
  <2>1. [named |-> TRUE, services |-> m.services, lastUpdate |-> now] \in Entry
    BY <1>3, DataMessage DEF Entry, Time, TypeOK
  <2>2. clusters \in [Cluster -> Entry \cup {NoEntry}]
    BY <1>1, <2>1
  <2>3. Known(clusters) \in SUBSET Cluster /\ Me \in Cluster
    BY DEF Known, Cluster
  <2>4. FilterOut(Known(clusters), Me) \in Seq(Cluster)
    BY <2>3, FilterOutType
  <2> QED
    BY <2>2, <2>4 DEF RemoteStatus, Status
<1> QED
  BY <1>2, <1>3

(* A goroutine at rest holds values of the right kind.                     *)
LEMMA GoroutineIdleType ==
    ASSUME GoroutineIdle
    PROVE  /\ cpc' = "idle" /\ msg' \in Message
           /\ original' \in Status /\ instance' \in Status
BY EmptyStatusType, MessageTypes DEF GoroutineIdle

LEMMA WorkerIdleType ==
    ASSUME WorkerIdle
    PROVE  /\ rpc' = "idle" /\ selfStatus' = NoEntry /\ current' \in Advert
           /\ stamp' \in Time
BY DEF WorkerIdle, NoAdvert, Advert, Time

(* Reading the cache for a message, and answering it or leaving it to be   *)
(* saved.                                                                  *)
LEMMA SaveOrAckType ==
    ASSUME TypeOK, NEW m \in inbox, NEW new \in Status, SaveOrAck(m, new)
    PROVE  /\ cpc' \in {"idle", "saving"} /\ msg' \in Message
           /\ original' \in Status /\ instance' \in Status
           /\ inbox' \subseteq Message /\ faults' \in 0..MaxFaults
<1>1. m \in Message /\ cache \in Status
  BY DEF TypeOK
<1>2. CASE GoroutineIdle /\ Ack(m)
  BY <1>2, GoroutineIdleType, RobotAssumption DEF Ack, NoFault, Fault, TypeOK
<1>3. CASE Remember("saving", m, new)
  BY <1>1, <1>3 DEF Remember, NoFault, TypeOK
<1> QED
  BY <1>2, <1>3 DEF SaveOrAck

(* A message that is published, or not, leaves an inbox of messages.       *)
LEMMA AnnounceType ==
    ASSUME TypeOK, NEW services \in Advert, Announce(services)
    PROVE  /\ announced' \subseteq Advert /\ inbox' \subseteq Message
           /\ faults' \in 0..MaxFaults
BY MessageTypes, RobotAssumption DEF Announce, Echo, NoFault, Fault, TypeOK

(* The process starts in a well-typed state.                               *)
LEMMA InitType == Init => TypeOK
<1> SUFFICES ASSUME Init PROVE TypeOK
  OBVIOUS
<1>1. NoAdvert \in Advert /\ NotHeard \in [services : Advert, at : Time]
  BY DEF NoAdvert, Advert, NotHeard, Time
<1>2. now \in 0..MaxTime /\ edits \in 0..MaxEdits /\ faults \in 0..MaxFaults
  BY RobotAssumption DEF Init
<1>3. lastRequestedBroadcast \in Time /\ stamp \in Time
  BY DEF Init, Time
<1> QED
  BY <1>1, <1>2, <1>3, EmptyStatusType, MessageTypes DEF Init, TypeOK

(* Each group of actions keeps the types.                                  *)
LEMMA EnvironmentType == TypeOK /\ EnvironmentStep => TypeOK'
<1> SUFFICES ASSUME TypeOK, EnvironmentStep PROVE TypeOK'
  OBVIOUS
<1> USE DEF unchangedByEnvironment, memory, reconciler, callback, exposed,
            judged
<1>1. CASE Tick
  BY <1>1, RobotAssumption DEF Tick, TypeOK
<1>2. CASE WatchEvent
  BY <1>2 DEF WatchEvent, TypeOK
<1>3. ASSUME NEW a \in LocalAdverts, EditLocal(a) PROVE TypeOK'
  BY <1>3, RobotAssumption DEF EditLocal, TypeOK
<1>4. ASSUME NEW p \in Peer, NEW a \in PeerAdverts, EditPeer(p, a) PROVE TypeOK'
  BY <1>4, RobotAssumption DEF EditPeer, TypeOK
<1>5. ASSUME NEW m \in Message, Arrive(m) PROVE TypeOK'
  BY <1>5 DEF Arrive, TypeOK
<1>6. ASSUME NEW p \in Peer, PeerPublishes(p) PROVE TypeOK'
  <2>1. DataMsg(p, peerAdvert[p]) \in Message
    BY MessageTypes, RobotAssumption DEF TypeOK
  <2> QED
    BY <1>5, <1>6, <2>1 DEF PeerPublishes
<1>7. ASSUME NEW p \in Peer, PeerAsks(p) PROVE TypeOK'
  <2>1. RequestMsg(p) \in Message
    BY MessageTypes
  <2> QED
    BY <1>7, <2>1, RobotAssumption DEF PeerAsks, TypeOK
<1> QED
  BY <1>1, <1>2, <1>3, <1>4, <1>6, <1>7 DEF EnvironmentStep

LEMMA ReconcilerType == TypeOK /\ ReconcilerStep => TypeOK'
<1> SUFFICES ASSUME TypeOK, ReconcilerStep PROVE TypeOK'
  OBVIOUS
<1> USE DEF unchangedByWorker, exposed, callback, judged
<1>1. CASE Reconcile
  <2>1. cache.clusters[Me] \in Entry \cup {NoEntry}
    BY DEF TypeOK, Status, Cluster
  <2>2. lastRequestedBroadcast' \in Time /\ inbox' \subseteq Message
    BY <1>1, MessageTypes DEF Reconcile, Echo, TypeOK, Time
  <2> QED
    BY <1>1, <2>1, <2>2 DEF Reconcile, NoFault, NoPatch, TypeOK
<1>2. CASE EnsurePeerServicesFails
  BY <1>2, WorkerIdleType, RobotAssumption
  DEF EnsurePeerServicesFails, GiveUp, Fault, NoPatch, TypeOK
<1>3. CASE EnsureLocalStatus
  <2>1. /\ rpc' \in {"idle", "patching", "publishing"}
        /\ selfStatus' \in Entry \cup {NoEntry} /\ current' \in Advert
        /\ stamp' \in Time
    BY <1>3, WorkerIdleType, RobotAssumption DEF EnsureLocalStatus, TypeOK
  <2> QED
    BY <1>3, <2>1 DEF EnsureLocalStatus, NoFault, NoPatch, TypeOK
<1>4. CASE PatchLocalStatus
  <2> DEFINE was == OrEmpty(selfStatus)
             m == [was EXCEPT !.services = current]
  <2>1. was \in Entry /\ m \in Entry
    BY OrEmptyType DEF TypeOK, Entry
  <2>2. OwnStatus(was) \in Status /\ OwnStatus(m) \in Status
    BY <2>1, OwnStatusType
  <2>3. CASE /\ PatchStatus(OwnStatus(was), OwnStatus(m))
             /\ rpc' = "publishing"
             /\ NoFault /\ UNCHANGED <<selfStatus, current, stamp>>
    <3>1. status' \in Status /\ cache' \in Status
      BY <2>2, <2>3, PatchStatusType
    <3> QED
      BY <1>4, <2>3, <3>1 DEF PatchLocalStatus, NoFault, TypeOK
  <2>4. CASE GiveUp
    BY <1>4, <2>4, WorkerIdleType, RobotAssumption
    DEF PatchLocalStatus, GiveUp, Fault, NoPatch, TypeOK
  <2> QED
    BY <1>4, <2>3, <2>4 DEF PatchLocalStatus
<1>5. CASE PublishLocal
  <2>1. /\ announced' \subseteq Advert /\ inbox' \subseteq Message
        /\ faults' \in 0..MaxFaults
    BY <1>5, AnnounceType DEF PublishLocal, TypeOK
  <2> QED
    BY <1>5, <2>1 DEF PublishLocal, NoPatch, Time, TypeOK
<1>6. CASE StampLocal
  <2> DEFINE e == [OrEmpty(selfStatus) EXCEPT !.services = current]
  <2>1. e \in Entry
    BY OrEmptyType DEF TypeOK, Entry
  <2>2. status' \in Status /\ cache' \in Status
    <3>1. CASE UpdateAndSetPublishTime(e, stamp)
      <4>1. stamp \in Time
        BY DEF TypeOK
      <4> HIDE DEF e
      <4> QED
        BY <2>1, <3>1, <4>1, StatusAssumption, UpdateAndSetPublishTimeType
    <3>2. CASE NoPatch
      BY <3>2 DEF NoPatch, TypeOK
    <3> QED
      BY <1>6, <3>1, <3>2 DEF StampLocal
  <2>3. faults' \in 0..MaxFaults
    BY <1>6, RobotAssumption DEF StampLocal, Fault, NoFault, TypeOK
  <2> QED
    BY <1>6, <2>2, <2>3, WorkerIdleType DEF StampLocal, TypeOK
<1> QED
  BY <1>1, <1>2, <1>3, <1>4, <1>5, <1>6 DEF ReconcilerStep

LEMMA CallbackType == CopyInv /\ CallbackStep => TypeOK'
<1> SUFFICES ASSUME TypeOK, SaveInv, AnswerInv, CallbackStep PROVE TypeOK'
  BY DEF CopyInv
<1> USE DEF unchangedByGoroutine, exposed, memory, reconciler, judged
<1>1. CASE HandleOwn
  <2> DEFINE new == [cache EXCEPT !.clusters =
                        PruneExpired(cache.clusters, now)]
  <2>1. /\ cpc' \in {"idle", "saving"} /\ msg' \in Message
        /\ original' \in Status /\ instance' \in Status
        /\ inbox' \subseteq Message /\ faults' \in 0..MaxFaults
    <3>1. OwnMsg \in inbox /\ SaveOrAck(OwnMsg, new)
      BY <1>1 DEF HandleOwn, Delivered
    <3>2. new \in Status
      BY CopyTypes
    <3> HIDE DEF new
    <3> QED
      BY <3>1, <3>2, SaveOrAckType
  <2> QED
    BY <1>1, <2>1 DEF HandleOwn, NoPatch, TypeOK
<1>2. ASSUME NEW p \in Peer, HandleRequest(p) PROVE TypeOK'
  BY <1>2, MessageTypes
  DEF HandleRequest, Remember, NoPatch, NoFault, TypeOK
<1>3. ASSUME NEW m \in inbox, HandleData(m) PROVE TypeOK'
  <2>1. m \in Message /\ m.kind = "data"
    BY <1>3 DEF HandleData, TypeOK
  <2>2. /\ cpc' \in {"idle", "saving"} /\ msg' \in Message
        /\ original' \in Status /\ instance' \in Status
        /\ inbox' \subseteq Message /\ faults' \in 0..MaxFaults
    BY <1>3, <2>1, CopyTypes, SaveOrAckType DEF HandleData
  <2>3. /\ heard' \in [Peer -> [services : Advert, at : Time]]
        /\ behind' \subseteq Peer
    BY <1>3, <2>1, DataMessage DEF HandleData, Hear, Time, TypeOK
  <2> QED
    BY <1>3, <2>2, <2>3 DEF HandleData, NoPatch, TypeOK
<1>4. CASE SaveStatus
  <2>1. status' \in Status /\ cache' \in Status
    <3>1. CASE PatchStatus(original, instance)
      BY <3>1, PatchStatusType DEF TypeOK
    <3>2. CASE NoPatch
      BY <3>2 DEF NoPatch, TypeOK
    <3> QED
      BY <1>4, <3>1, <3>2 DEF SaveStatus
  <2>2. inbox' \subseteq Message /\ faults' \in 0..MaxFaults
    BY <1>4, RobotAssumption DEF SaveStatus, Ack, Fault, NoFault, TypeOK
  <2>3. /\ heard' \in [Peer -> [services : Advert, at : Time]]
        /\ behind' \subseteq Peer
    <3>1. CASE msg.kind = "data"
               /\ Hear(msg, instance.clusters[msg.from].lastUpdate, original)
      <4> DEFINE t == instance.clusters[msg.from].lastUpdate
      <4>1. msg.from \in Peer /\ msg.services \in Advert
        BY <3>1, DataMessage DEF TypeOK
      <4>2. t \in Time
        BY <1>4, <3>1 DEF SaveStatus, Goroutine, SaveInv, PruningCopy, OwnMsg,
                          RequestMsg, ReceivedCopy, Past, Time
      <4> QED
        BY <3>1, <4>1, <4>2 DEF Hear, TypeOK
    <3>2. CASE PruneUnseen \/ UNCHANGED judged
      BY <3>2 DEF PruneUnseen, TypeOK
    <3> QED
      BY <1>4, <3>1, <3>2 DEF SaveStatus
  <2> QED
    BY <1>4, <2>1, <2>2, <2>3, GoroutineIdleType DEF SaveStatus, TypeOK
<1>5. CASE AnswerRequest
  <2> DEFINE a == original.clusters[Me].services
  <2>1. a \in Advert
    BY <1>5 DEF AnswerRequest, Goroutine, AnswerInv, TypeOK, Status, Entry,
                Cluster
  <2>2. /\ announced' \subseteq Advert /\ inbox' \subseteq Message
        /\ faults' \in 0..MaxFaults
    <3>1. Announce(a)
      BY <1>5 DEF AnswerRequest
    <3> HIDE DEF a
    <3> QED
      BY <2>1, <3>1, AnnounceType
  <2>3. instance' \in Status
    <3>1. /\ instance \in Status /\ instance.clusters[Me] \in Entry
          /\ now \in Time /\ Me \in Cluster
      BY <1>5 DEF AnswerRequest, Goroutine, AnswerInv, TypeOK, Status, Time,
                  Cluster
    <3> DEFINE answer == [instance.clusters[Me] EXCEPT !.lastUpdate = now]
               clusters == [instance.clusters EXCEPT ![Me] = answer]
    <3>2. answer \in Entry
      BY <3>1 DEF Entry
    <3>3. clusters \in [Cluster -> Entry \cup {NoEntry}]
      BY <3>1, <3>2 DEF Status
    <3>4. instance' = [instance EXCEPT !.clusters = clusters]
      BY <1>5 DEF AnswerRequest
    <3> HIDE DEF clusters
    <3> QED
      BY <3>1, <3>3, <3>4 DEF Status
  <2> QED
    BY <1>5, <2>2, <2>3 DEF AnswerRequest, NoPatch, TypeOK
<1>6. CASE StampAnswer
  <2> DEFINE e == original.clusters[Me]
  <2>1. e \in Entry /\ e # NoEntry
    BY <1>6 DEF StampAnswer, Goroutine, AnswerInv, TypeOK, Status, Cluster
  <2>2. status' \in Status /\ cache' \in Status
    <3>1. CASE UpdateAndSetPublishTime(e, instance.clusters[Me].lastUpdate)
      <4>1. instance.clusters[Me].lastUpdate \in Time
        BY <1>6 DEF StampAnswer, Goroutine, AnswerInv, TypeOK, Status, Cluster,
                    Entry
      <4> HIDE DEF e
      <4> QED
        BY <2>1, <3>1, <4>1, UpdateAndSetPublishTimeType
    <3>2. CASE NoPatch
      BY <3>2 DEF NoPatch, TypeOK
    <3> QED
      BY <1>6, <3>1, <3>2 DEF StampAnswer
  <2>3. inbox' \subseteq Message /\ faults' \in 0..MaxFaults
    BY <1>6, RobotAssumption DEF StampAnswer, Ack, Fault, NoFault, TypeOK
  <2> QED
    BY <1>6, <2>2, <2>3, GoroutineIdleType DEF StampAnswer, TypeOK
<1> QED
  BY <1>1, <1>2, <1>3, <1>4, <1>5, <1>6 DEF CallbackStep

LEMMA ProcessType == TypeOK /\ ProcessStep => TypeOK'
<1> SUFFICES ASSUME TypeOK, ProcessStep PROVE TypeOK'
  OBVIOUS
<1> USE DEF exposed, judged
<1>1. ASSUME NEW why \in {"killed", "panicked"}, Stop(why),
             faults' \in 0..MaxFaults
      PROVE  TypeOK'
  BY <1>1, WorkerIdleType, GoroutineIdleType DEF Stop, NoPatch, Time, TypeOK
<1>2. ASSUME NEW p \in Peer, NilEntryPanic(p) PROVE TypeOK'
  BY <1>1, <1>2 DEF NilEntryPanic, NoFault, TypeOK
<1>3. CASE Crash
  BY <1>1, <1>3, RobotAssumption DEF Crash, Fault, TypeOK
<1>4. CASE Restart
  BY <1>4 DEF Restart, reconciler, callback, TypeOK
<1> QED
  BY <1>2, <1>3, <1>4 DEF ProcessStep

-----------------------------------------------------------------------------
(* The copies the callback holds.                                          *)

(* An idle goroutine holds no copies.                                      *)
LEMMA IdleCopies == ASSUME cpc' = "idle" PROVE SaveInv' /\ AnswerInv'
BY DEF SaveInv, AnswerInv

(* The copies stay what they are while the goroutine waits and the clock   *)
(* goes on: what has expired stays expired.                                *)
LEMMA WaitingCopies ==
    ASSUME TypeOK, SaveInv, AnswerInv, UNCHANGED callback,
           now' \in {now, now + 1}
    PROVE  SaveInv' /\ AnswerInv'
<1>1. AnswerInv'
  BY DEF AnswerInv, callback
<1>2. CASE cpc # "saving"
  BY <1>1, <1>2 DEF SaveInv, callback
<1>3. CASE cpc = "saving" /\ PruningCopy
  <2>1. \A c \in Cluster : Expired(original.clusters[c], now)
                              => Expired(original.clusters[c], now)'
    <3> SUFFICES ASSUME NEW c \in Cluster, Expired(original.clusters[c], now)
                 PROVE  Expired(original.clusters[c], now')
      BY DEF callback
    <3>1. original.clusters[c] \in Entry
      BY DEF TypeOK, Status, Expired
    <3> QED
      BY <3>1, RobotAssumption, StatusAssumption
      DEF Expired, Entry, Time, TypeOK
  <2>2. PruningCopy'
    BY <1>3, <2>1 DEF PruningCopy, callback
  <2> QED
    BY <1>1, <2>2 DEF SaveInv
<1>4. CASE cpc = "saving" /\ ReceivedCopy
  <2>1. ReceivedCopy'
    BY <1>4, RobotAssumption DEF ReceivedCopy, Past, callback, TypeOK
  <2> QED
    BY <1>1, <2>1 DEF SaveInv
<1> QED
  BY <1>2, <1>3, <1>4, <1>1 DEF SaveInv

(* What the callback makes of a message of this cluster.                   *)
LEMMA HandleOwnCopies ==
    ASSUME TypeOK, HandleOwn PROVE SaveInv' /\ AnswerInv'
<1> DEFINE new == [cache EXCEPT !.clusters = PruneExpired(cache.clusters, now)]
<1>1. CASE GoroutineIdle
  BY <1>1, IdleCopies DEF GoroutineIdle
<1>2. CASE Remember("saving", OwnMsg, new)
  <2>1. /\ msg' = OwnMsg /\ original' = cache /\ instance' = new
        /\ now' = now /\ cpc' = "saving"
    BY <1>2 DEF HandleOwn, unchangedByGoroutine, Remember
  <2>2. new.clusters = PruneExpired(cache.clusters, now)
    BY DEF TypeOK, Status
  <2>3. ASSUME NEW c \in Cluster
        PROVE  \/ instance'.clusters[c] = original'.clusters[c]
               \/ /\ instance'.clusters[c] = NoEntry
                  /\ Expired(original'.clusters[c], now')
    BY <2>1, <2>2 DEF PruneExpired
  <2>4. PruningCopy'
    BY <2>1, <2>3 DEF PruningCopy, Expired
  <2> QED
    BY <2>1, <2>4 DEF SaveInv, AnswerInv
<1> QED
  BY <1>1, <1>2 DEF HandleOwn, SaveOrAck

(* What the callback makes of a data message.                              *)
LEMMA HandleDataCopies ==
    ASSUME TypeOK, NEW m \in inbox, HandleData(m) PROVE SaveInv' /\ AnswerInv'
<1>1. m \in Message /\ m.kind = "data"
  BY DEF HandleData, TypeOK
<1>2. CASE GoroutineIdle
  BY <1>2, IdleCopies DEF GoroutineIdle
<1>3. CASE Remember("saving", m, RemoteStatus(m))
  <2> DEFINE e == [named |-> TRUE, services |-> m.services,
                   lastUpdate |-> now]
  <2>1. /\ msg' = m /\ original' = cache /\ instance' = RemoteStatus(m)
        /\ now' = now /\ cpc' = "saving"
    BY <1>3 DEF HandleData, unchangedByGoroutine, Remember
  <2>2. RemoteStatus(m).clusters = [cache.clusters EXCEPT ![m.from] = e]
    BY DEF RemoteStatus
  <2>3. m.from \in Cluster /\ cache.clusters \in [Cluster -> Entry \cup {NoEntry}]
    BY <1>1, DataMessage DEF Cluster, TypeOK, Status
  <2>4. e \in Entry
    BY <1>1, DataMessage DEF Entry, Time, TypeOK
  <2>5. instance'.clusters[m.from] = e
    BY <2>1, <2>2, <2>3
  <2>6. \A c \in Cluster \ {m.from} :
           instance'.clusters[c] = original'.clusters[c]
    BY <2>1, <2>2, <2>3
  <2>7. /\ e # NoEntry /\ e.named = TRUE /\ e.services = m.services
        /\ e.lastUpdate = now
    BY <2>4, StatusAssumption
  <2>8. now \in Nat
    BY RobotAssumption DEF TypeOK
  <2> HIDE DEF e
  <2>9. ReceivedCopy'
    BY <1>1, <2>1, <2>5, <2>6, <2>7, <2>8 DEF ReceivedCopy, Past
  <2> QED
    BY <2>1, <2>9 DEF SaveInv, AnswerInv
<1> QED
  BY <1>2, <1>3 DEF HandleData, SaveOrAck

LEMMA CopyStep == CopyInv /\ [Next]_vars => CopyInv'
<1> SUFFICES ASSUME TypeOK, SaveInv, AnswerInv, [Next]_vars
             PROVE  TypeOK' /\ SaveInv' /\ AnswerInv'
  BY DEF CopyInv
<1>1. CASE EnvironmentStep
  <2>1. UNCHANGED callback /\ now' \in {now, now + 1}
    BY <1>1 DEF EnvironmentStep, Tick, WatchEvent, EditLocal, EditPeer,
                PeerPublishes, PeerAsks, Arrive, unchangedByEnvironment
  <2> QED
    BY <1>1, <2>1, EnvironmentType, WaitingCopies
<1>2. CASE ReconcilerStep
  <2>1. UNCHANGED callback /\ now' = now
    BY <1>2 DEF ReconcilerStep, Reconcile, EnsurePeerServicesFails,
                EnsureLocalStatus, PatchLocalStatus, PublishLocal, StampLocal,
                unchangedByWorker
  <2> QED
    BY <1>2, <2>1, ReconcilerType, WaitingCopies
<1>3. CASE CallbackStep
  <2>1. TypeOK'
    BY <1>3, CallbackType DEF CopyInv
  <2>2. ASSUME NEW p \in Peer, HandleRequest(p) PROVE SaveInv' /\ AnswerInv'
    BY <2>2 DEF HandleRequest, Remember, SaveInv, AnswerInv
  <2>3. ASSUME AnswerRequest PROVE SaveInv' /\ AnswerInv'
    <3>1. /\ instance'.clusters[Me] =
                [instance.clusters[Me] EXCEPT !.lastUpdate = now]
          /\ instance.clusters[Me] \in Entry /\ now \in Time
      BY <2>3 DEF AnswerRequest, Goroutine, AnswerInv, TypeOK, Status, Time,
                  Cluster
    <3>2. instance'.clusters[Me] \in Entry
      BY <3>1 DEF Entry
    <3> QED
      BY <2>3, <3>2, StatusAssumption
      DEF AnswerRequest, Goroutine, SaveInv, AnswerInv
  <2>4. ASSUME SaveStatus \/ StampAnswer PROVE SaveInv' /\ AnswerInv'
    BY <2>4, IdleCopies DEF SaveStatus, StampAnswer, GoroutineIdle
  <2> QED
    BY <1>3, <2>1, <2>2, <2>3, <2>4, HandleOwnCopies, HandleDataCopies
    DEF CallbackStep
<1>4. CASE ProcessStep
  <2>1. TypeOK'
    BY <1>4, ProcessType
  <2>2. SaveInv' /\ AnswerInv'
    <3>1. ASSUME NEW why, Stop(why) PROVE SaveInv' /\ AnswerInv'
      BY <3>1, IdleCopies DEF Stop, GoroutineIdle
    <3>2. ASSUME Restart PROVE SaveInv' /\ AnswerInv'
      BY <3>2, WaitingCopies DEF Restart
    <3> QED
      BY <1>4, <3>1, <3>2 DEF ProcessStep, NilEntryPanic, Crash
  <2> QED
    BY <2>1, <2>2
<1>5. CASE UNCHANGED vars
  BY <1>5, WaitingCopies DEF vars, TypeOK, callback
<1> QED
  BY <1>1, <1>2, <1>3, <1>4, <1>5 DEF Next

(* The copies are what SaveInv and AnswerInv say in every reachable state. *)
THEOREM CopiesCorrect == Spec => []CopyInv
<1>1. Init => CopyInv
  BY InitType DEF Init, CopyInv, SaveInv, AnswerInv
<1> QED
  BY <1>1, CopyStep, PTL DEF Spec

(* Every variable of the process, the server and the topic keeps its type, *)
(* in every behaviour of Reconcile and the message callback.               *)
THEOREM TypeCorrect == Spec => []TypeOK
<1>1. CopyInv => TypeOK
  BY DEF CopyInv
<1> QED
  BY <1>1, CopiesCorrect, PTL

(* The copies that wait in the callback to be saved: one that removes      *)
(* expired entries, or one that replaces its sender's entry and no other,  *)
(* whatever happens between the read and the patch.                        *)
THEOREM SaveInvHolds == Spec => []SaveInv
<1>1. CopyInv => SaveInv
  BY DEF CopyInv
<1> QED
  BY <1>1, CopiesCorrect, PTL
=============================================================================
