------------------------------ MODULE ClockProofs ------------------------------
(***************************************************************************)
(* The times in the status: two goroutines write them, from copies that    *)
(* may be stale and from a clock that was read one or more calls before.   *)
(* None is in the future, and those of the peers never go back.  Where the *)
(* callback's copy of a peer's entry was not behind the server, the entry  *)
(* is moreover the last message that was handled for that peer, and is     *)
(* kept while the peer is heard of within its age.                         *)
(***************************************************************************)
EXTENDS WriterProofs

(* Recording the local services keeps the own entry's LastUpdate.          *)
LEMMA RecordKeepsTime ==
    ASSUME NEW s \in Entry \cup {NoEntry}, NEW d \in Entry, NEW a \in Advert
    PROVE  LET f == MergeEntry(s, d, [d EXCEPT !.services = a])
           IN  f = s \/ (f \in Entry /\ f.lastUpdate = OrEmpty(s).lastUpdate)
<1> DEFINE e == [d EXCEPT !.services = a]
<1>1. e \in Entry /\ e.lastUpdate = d.lastUpdate /\ e # NoEntry
  BY StatusAssumption DEF Entry
<1> HIDE DEF e
<1>2. CASE e = d
  BY <1>2 DEF MergeEntry, e
<1>3. CASE e # d
  <2>1. MergeEntry(s, d, e) \in Entry \cup {NoEntry}
    BY <1>1, MergeEntryType
  <2>2. /\ MergeEntry(s, d, e) =
             [named      |-> MergeLeaf(OrEmpty(s).named, OrEmpty(d).named,
                                 e.named),
              services   |-> MergeServices(OrEmpty(s).services,
                                 OrEmpty(d).services, e.services),
              lastUpdate |-> MergeLeaf(OrEmpty(s).lastUpdate,
                                 OrEmpty(d).lastUpdate, e.lastUpdate)]
        /\ OrEmpty(d) = d
    BY <1>1, <1>3, StatusAssumption DEF MergeEntry, OrEmpty
  <2>3. MergeEntry(s, d, e).lastUpdate = OrEmpty(s).lastUpdate
    BY <1>1, <2>2 DEF MergeLeaf
  <2>4. MergeEntry(s, d, e) \in Entry
    <3>1. OrEmpty(s) \in Entry
      BY OrEmptyType
    <3>2. MergeServices(OrEmpty(s).services, d.services, e.services) \in Advert
      BY <1>1, <3>1, MergeServicesType DEF Entry
    <3>3. OrEmpty(s).lastUpdate \in Time /\ OrEmpty(s).named \in BOOLEAN
      BY <3>1 DEF Entry
    <3> QED
      BY <1>1, <2>2, <3>2, <3>3 DEF Entry, MergeLeaf
  <2> QED
    BY <2>3, <2>4 DEF e
<1> QED
  BY <1>2, <1>3 DEF e

(* What a step does to one entry's LastUpdate.                             *)
TimeStep(c) ==
    LET e == status.clusters[c]
        f == status'.clusters[c]
    IN  \/ f = e \/ f = NoEntry
        \/ f # NoEntry /\ f.lastUpdate = OrEmpty(e).lastUpdate
        \/ c = Me /\ f # NoEntry /\ Stamping(f.lastUpdate)
        \/ /\ f # NoEntry /\ cpc = "saving" /\ msg.kind = "data"
           /\ c = msg.from
           /\ f.lastUpdate = instance.clusters[c].lastUpdate
           /\ Past(f.lastUpdate)

LEMMA TimeSteps ==
    ASSUME CopyInv, [Next]_vars
    PROVE  \A c \in Cluster : TimeStep(c)
<1> USE DEF CopyInv
<1>1. CASE status' = status
  BY <1>1 DEF TimeStep
<1>2. CASE PatchStatus(OwnStatus(OrEmpty(selfStatus)),
                       OwnStatus([OrEmpty(selfStatus) EXCEPT
                                     !.services = current]))
  <2> DEFINE d == OrEmpty(selfStatus)
             e == [d EXCEPT !.services = current]
             f == MergeEntry(status.clusters[Me], d, e)
  <2>1. /\ d \in Entry /\ e \in Entry /\ current \in Advert
        /\ status.clusters[Me] \in Entry \cup {NoEntry}
    <3>1. d \in Entry /\ current \in Advert
      BY OrEmptyType DEF TypeOK
    <3>2. status.clusters[Me] \in Entry \cup {NoEntry}
      BY DEF TypeOK, Status, Cluster
    <3> HIDE DEF d
    <3> QED
      BY <3>1, <3>2 DEF Entry
  <2>2. \/ f = status.clusters[Me]
        \/ f \in Entry /\ f.lastUpdate = OrEmpty(status.clusters[Me]).lastUpdate
    BY <2>1, RecordKeepsTime
  <2>3. /\ \A p \in Peer : status'.clusters[p] = status.clusters[p]
        /\ status'.clusters[Me] = f
    <3> HIDE DEF d, f
    <3>1. PatchStatus(OwnStatus(d), OwnStatus(e))
      BY <1>2 DEF d
    <3> HIDE DEF e
    <3> QED
      BY <2>1, <3>1, OwnPatch DEF f
  <2> HIDE DEF f
  <2> QED
    BY <2>2, <2>3, StatusAssumption DEF TimeStep, Cluster
<1>3. ASSUME NEW e \in Entry, NEW t \in Time, Stamping(t),
             UpdateAndSetPublishTime(e, t)
      PROVE  \A c \in Cluster : TimeStep(c)
  <2>1. \A p \in Peer : TimeStep(p)
    BY <1>3, StampPatch DEF TimeStep
  <2>2. TimeStep(Me)
    BY <1>3, StampPatch, StatusAssumption DEF TimeStep, Own
  <2> QED
    BY <2>1, <2>2 DEF Cluster
<1>4. CASE cpc = "saving" /\ PatchStatus(original, instance)
  <2>1. CASE PruningCopy
    BY <1>4, <2>1, PruningPatch DEF TimeStep
  <2>2. CASE ReceivedCopy
    <3> DEFINE q == msg.from
    <3>1. /\ q \in Peer /\ instance.clusters[q] \in Entry
          /\ \A c \in Cluster \ {q} : status'.clusters[c] = status.clusters[c]
          /\ status'.clusters[q] = MergeEntry(status.clusters[q],
                 original.clusters[q], instance.clusters[q])
      BY <1>4, <2>2, ReceivedPatch
    <3>2. /\ status.clusters[q] \in Entry \cup {NoEntry}
          /\ original.clusters[q] \in Entry \cup {NoEntry}
      BY <3>1 DEF TypeOK, Status, Cluster
    <3>3. \/ status'.clusters[q] = status.clusters[q]
          \/ /\ status'.clusters[q] \in Entry
             /\ status'.clusters[q].lastUpdate \in
                   {OrEmpty(status.clusters[q]).lastUpdate,
                    instance.clusters[q].lastUpdate}
      BY <3>1, <3>2, ReceivedLeaves
    <3>4. msg.kind = "data" /\ Past(instance.clusters[q].lastUpdate)
      BY <2>2 DEF ReceivedCopy
    <3>5. TimeStep(q)
      BY <1>4, <3>3, <3>4, StatusAssumption DEF TimeStep
    <3> QED
      BY <3>1, <3>5 DEF TimeStep
  <2> QED
    BY <1>4, <2>1, <2>2 DEF SaveInv
<1> QED
  BY <1>1, <1>2, <1>3, <1>4, StatusWriters

-----------------------------------------------------------------------------
(* A step takes no LastUpdate into the future, and none of a peer back.    *)
LEMMA NoTimeBackStep ==
    ASSUME CopyInv, ClockInv, [Next]_vars
    PROVE  /\ \A p \in Peer : NoTimeBack(p)
           /\ \A c \in Cluster : UpdatedBefore(status'.clusters[c], now)
<1> SUFFICES ASSUME NEW c \in Cluster
             PROVE  /\ c # Me => NoTimeBack(c)
                    /\ UpdatedBefore(status'.clusters[c], now)
  BY StatusAssumption DEF Cluster
<1> DEFINE e == status.clusters[c]
           f == status'.clusters[c]
<1>1. TimeStep(c)
  BY TimeSteps
<1>2. /\ e \in Entry \cup {NoEntry} /\ now \in Nat
      /\ e # NoEntry => e.lastUpdate \in Nat \cup {Never}
  BY RobotAssumption DEF CopyInv, TypeOK, Status, Entry, Time
<1>3. UpdatedBefore(e, now)
  BY DEF ClockInv
<1>4. (cpc = "saving" /\ msg.kind = "data" /\ c = msg.from) =>
         UpdatedBefore(e, instance.clusters[c].lastUpdate)
  BY DEF ClockInv
<1>5. OrEmpty(e).lastUpdate = IF e = NoEntry THEN Never ELSE e.lastUpdate
  BY DEF OrEmpty, EmptyEntry
<1> HIDE DEF e, f
<1>6. TimeStep(c) =
        (\/ f = e \/ f = NoEntry
         \/ f # NoEntry /\ f.lastUpdate = OrEmpty(e).lastUpdate
         \/ c = Me /\ f # NoEntry /\ Stamping(f.lastUpdate)
         \/ /\ f # NoEntry /\ cpc = "saving" /\ msg.kind = "data"
            /\ c = msg.from
            /\ f.lastUpdate = instance.clusters[c].lastUpdate
            /\ Past(f.lastUpdate))
  BY DEF TimeStep, e, f
<1>7. /\ (c # Me /\ e # NoEntry /\ f # NoEntry /\ e.lastUpdate # Never) =>
            f.lastUpdate # Never /\ f.lastUpdate >= e.lastUpdate
      /\ UpdatedBefore(f, now)
  <2> USE <1>2, StatusAssumption DEF UpdatedBefore
  <2>1. CASE f = e \/ f = NoEntry
    BY <1>3, <2>1
  <2>2. CASE f # NoEntry /\ f.lastUpdate = OrEmpty(e).lastUpdate
    BY <1>3, <1>5, <2>2
  <2>3. CASE c = Me /\ f # NoEntry /\ Stamping(f.lastUpdate)
    BY <2>3 DEF Stamping, ClockInv, Past
  <2>4. CASE /\ f # NoEntry /\ cpc = "saving" /\ msg.kind = "data"
             /\ c = msg.from
             /\ f.lastUpdate = instance.clusters[c].lastUpdate
             /\ Past(f.lastUpdate)
    BY <1>4, <2>4 DEF Past
  <2> QED
    BY <1>1, <1>6, <2>1, <2>2, <2>3, <2>4
<1> QED
  BY <1>7 DEF NoTimeBack, e, f

(* The clock only goes on, and only Tick moves it.                         *)
LEMMA ClockGoesOn ==
    ASSUME TypeOK, [Next]_vars
    PROVE  now \in Nat /\ now' \in {now, now + 1}
<1>1. now \in Nat
  BY RobotAssumption DEF TypeOK
<1>2. CASE EnvironmentStep
  BY <1>1, <1>2 DEF EnvironmentStep, Tick, WatchEvent, EditLocal, EditPeer,
              PeerPublishes, PeerAsks, Arrive
<1>3. CASE ReconcilerStep
  BY <1>1, <1>3 DEF ReconcilerStep, Reconcile, EnsurePeerServicesFails,
              EnsureLocalStatus, PatchLocalStatus, PublishLocal, StampLocal,
              unchangedByWorker
<1>4. CASE CallbackStep
  BY <1>1, <1>4 DEF CallbackStep, HandleOwn, HandleRequest, HandleData, SaveStatus,
              AnswerRequest, StampAnswer, unchangedByGoroutine
<1>5. CASE ProcessStep
  BY <1>1, <1>5 DEF ProcessStep, NilEntryPanic, Crash, Stop, Restart
<1>6. CASE UNCHANGED vars
  BY <1>1, <1>6 DEF vars
<1> QED
  BY <1>1, <1>2, <1>3, <1>4, <1>5, <1>6 DEF Next

(* A copy that waits to be saved was waiting before the step, or is made   *)
(* by it from the cache.                                                   *)
LEMMA CopySources ==
    ASSUME CopyInv, [Next]_vars, cpc' = "saving"
    PROVE  \/ UNCHANGED callback
           \/ \E m \in inbox :
                 /\ m.kind = "data" /\ HandleData(m)
                 /\ Remember("saving", m, RemoteStatus(m))
           \/ /\ HandleOwn
              /\ Remember("saving", OwnMsg,
                    [cache EXCEPT !.clusters =
                        PruneExpired(cache.clusters, now)])
<1>1. CASE EnvironmentStep
  BY <1>1 DEF EnvironmentStep, Tick, WatchEvent, EditLocal, EditPeer,
              PeerPublishes, PeerAsks, Arrive, unchangedByEnvironment
<1>2. CASE ReconcilerStep
  BY <1>2 DEF ReconcilerStep, Reconcile, EnsurePeerServicesFails,
              EnsureLocalStatus, PatchLocalStatus, PublishLocal, StampLocal,
              unchangedByWorker
<1>3. CASE CallbackStep
  <2>1. CASE HandleOwn
    BY <2>1 DEF HandleOwn, SaveOrAck, GoroutineIdle
  <2>2. ASSUME NEW m \in inbox, HandleData(m)
        PROVE  m.kind = "data" /\ Remember("saving", m, RemoteStatus(m))
    BY <2>2 DEF HandleData, SaveOrAck, GoroutineIdle
  <2>3. ASSUME \/ \E p \in Peer : HandleRequest(p)
               \/ SaveStatus \/ AnswerRequest \/ StampAnswer
        PROVE  FALSE
    BY <2>3 DEF HandleRequest, Remember, SaveStatus, AnswerRequest,
                StampAnswer, GoroutineIdle
  <2> QED
    BY <1>3, <2>1, <2>2, <2>3 DEF CallbackStep
<1>4. CASE ProcessStep
  BY <1>4 DEF ProcessStep, NilEntryPanic, Crash, Stop, GoroutineIdle, Restart
<1>5. CASE UNCHANGED vars
  BY <1>5 DEF vars, callback
<1> QED
  BY <1>1, <1>2, <1>3, <1>4, <1>5 DEF Next

(* Only the callback's save writes the peers' entries.                     *)
LEMMA PeersKept ==
    ASSUME CopyInv, [Next]_vars
    PROVE  \/ \A p \in Peer : status'.clusters[p] = status.clusters[p]
           \/ cpc = "saving" /\ SaveStatus /\ PatchStatus(original, instance)
<1>2. CASE status' = status
  BY <1>2
<1>3. CASE PatchStatus(OwnStatus(OrEmpty(selfStatus)),
                       OwnStatus([OrEmpty(selfStatus) EXCEPT
                                     !.services = current]))
  <2> DEFINE d == OrEmpty(selfStatus)
             e == [d EXCEPT !.services = current]
  <2>1. d \in Entry /\ current \in Advert
    BY OrEmptyType DEF CopyInv, TypeOK
  <2> HIDE DEF d
  <2>2. e \in Entry
    BY <2>1 DEF Entry
  <2>3. PatchStatus(OwnStatus(d), OwnStatus(e))
    BY <1>3 DEF d
  <2> HIDE DEF e
  <2> QED
    BY <2>1, <2>2, <2>3, OwnPatch DEF CopyInv
<1>4. ASSUME NEW e \in Entry, NEW t \in Time, Stamping(t),
             UpdateAndSetPublishTime(e, t)
      PROVE  \A p \in Peer : status'.clusters[p] = status.clusters[p]
  BY <1>4, StampPatch DEF CopyInv
<1> QED
  BY <1>2, <1>3, <1>4, StatusWriters

(* So while a copy waits to be saved they stay.                            *)
LEMMA WaitingKeepsPeers ==
    ASSUME CopyInv, [Next]_vars, cpc' = "saving"
    PROVE  \A p \in Peer : status'.clusters[p] = status.clusters[p]
BY PeersKept DEF SaveStatus, GoroutineIdle

(* A publish time was read before the step, or is the clock's.             *)
LEMMA StampSources ==
    ASSUME CopyInv, [Next]_vars
    PROVE  /\ rpc' = "stamping" =>
                 \/ rpc = "stamping" /\ stamp' = stamp
                 \/ stamp' = now
           /\ cpc' = "stamping" =>
                 \/ cpc = "stamping" /\ instance' = instance
                 \/ Own(instance').lastUpdate = now
<1>1. CASE EnvironmentStep
  BY <1>1 DEF EnvironmentStep, Tick, WatchEvent, EditLocal, EditPeer,
              PeerPublishes, PeerAsks, Arrive, unchangedByEnvironment,
              reconciler, callback
<1>2. CASE ReconcilerStep
  BY <1>2 DEF ReconcilerStep, Reconcile, EnsurePeerServicesFails, GiveUp,
              WorkerIdle, EnsureLocalStatus, PatchLocalStatus, PublishLocal,
              StampLocal, unchangedByWorker, callback
<1>3. CASE CallbackStep
  <2>1. UNCHANGED reconciler
    BY <1>3 DEF CallbackStep, HandleOwn, HandleRequest, HandleData, SaveStatus,
                AnswerRequest, StampAnswer, unchangedByGoroutine
  <2>2. CASE AnswerRequest
    <3> DEFINE e == instance.clusters[Me]
    <3>1. /\ instance.clusters \in [Cluster -> Entry \cup {NoEntry}]
          /\ Me \in Cluster /\ e \in Entry
      BY <2>2 DEF AnswerRequest, Goroutine, CopyInv, AnswerInv, TypeOK, Status,
                  Cluster
    <3>2. instance' = [instance EXCEPT !.clusters =
             [instance.clusters EXCEPT ![Me] = [e EXCEPT !.lastUpdate = now]]]
      BY <2>2 DEF AnswerRequest
    <3>3. instance'.clusters[Me] = [e EXCEPT !.lastUpdate = now]
      BY <3>1, <3>2 DEF CopyInv, TypeOK, Status
    <3> QED
      BY <2>1, <3>1, <3>3 DEF Entry, Own, reconciler
  <2>3. ASSUME \/ HandleOwn \/ (\E p \in Peer : HandleRequest(p))
               \/ (\E m \in inbox : HandleData(m))
               \/ SaveStatus \/ StampAnswer
        PROVE  cpc' # "stamping"
    BY <2>3 DEF HandleOwn, HandleRequest, HandleData, SaveOrAck, Remember,
                SaveStatus, StampAnswer, GoroutineIdle
  <2> QED
    BY <1>3, <2>1, <2>2, <2>3 DEF CallbackStep, reconciler
<1>4. CASE ProcessStep
  BY <1>4 DEF ProcessStep, NilEntryPanic, Crash, Stop, Restart, WorkerIdle,
              GoroutineIdle, reconciler, callback
<1>5. CASE UNCHANGED vars
  BY <1>5 DEF vars
<1> QED
  BY <1>1, <1>2, <1>3, <1>4, <1>5 DEF Next

LEMMA ClockStep == CopyInv /\ ClockInv /\ [Next]_vars => ClockInv'
<1> SUFFICES ASSUME CopyInv, ClockInv, [Next]_vars PROVE ClockInv'
  OBVIOUS
<1>1. now \in Nat /\ now' \in Nat /\ now <= now'
  BY ClockGoesOn DEF CopyInv
<1>2. TypeOK' /\ SaveInv'
  BY CopyStep DEF CopyInv
<1>3. ASSUME NEW c \in Cluster PROVE UpdatedBefore(status'.clusters[c], now')
  <2>1. UpdatedBefore(status'.clusters[c], now)
    BY NoTimeBackStep
  <2>2. status'.clusters[c] # NoEntry =>
           status'.clusters[c].lastUpdate \in Nat \cup {Never}
    BY <1>2 DEF TypeOK, Status, Entry, Time
  <2> QED
    BY <1>1, <2>1, <2>2 DEF UpdatedBefore
<1>4. ASSUME cpc' = "saving", msg'.kind = "data"
      PROVE  UpdatedBefore(status'.clusters[msg'.from],
                           instance'.clusters[msg'.from].lastUpdate)
  <2>1. msg'.from \in Peer
    BY <1>2, <1>4, DataMessage DEF TypeOK
  <2>2. status'.clusters[msg'.from] = status.clusters[msg'.from]
    BY <1>4, <2>1, WaitingKeepsPeers
  <2>3. CASE UNCHANGED callback
    BY <1>4, <2>2, <2>3 DEF ClockInv, callback
  <2>4. ASSUME NEW m \in inbox, m.kind = "data",
               Remember("saving", m, RemoteStatus(m))
        PROVE  UpdatedBefore(status'.clusters[msg'.from],
                             instance'.clusters[msg'.from].lastUpdate)
    <3>1. msg' = m /\ instance' = RemoteStatus(m)
      BY <2>4 DEF Remember
    <3>2. instance'.clusters[m.from].lastUpdate = now
      BY <2>1, <3>1 DEF RemoteStatus, CopyInv, TypeOK, Status, Cluster
    <3>3. UpdatedBefore(status.clusters[m.from], now)
      BY <2>1, <3>1 DEF ClockInv, Cluster
    <3> QED
      BY <2>2, <3>1, <3>2, <3>3
  <2>5. CASE Remember("saving", OwnMsg,
                      [cache EXCEPT !.clusters =
                          PruneExpired(cache.clusters, now)])
    BY <1>4, <2>5 DEF Remember, OwnMsg, RequestMsg
  <2> QED
    BY <1>4, <2>3, <2>4, <2>5, CopySources
<1>5. rpc' = "stamping" => Past(stamp)'
  BY <1>1, StampSources DEF ClockInv, Past
<1>6. cpc' = "stamping" => Past(Own(instance).lastUpdate)'
  BY <1>1, StampSources DEF ClockInv, Past
<1> QED
  BY <1>3, <1>4, <1>5, <1>6 DEF ClockInv

(* No LastUpdate is in the future and the copy that waits to be saved is   *)
(* not older than the server's, in every reachable state.                  *)
THEOREM ClockCorrect == Spec => [](CopyInv /\ ClockInv)
<1>1. Init => CopyInv /\ ClockInv
  BY InitType
  DEF Init, CopyInv, SaveInv, AnswerInv, ClockInv, UpdatedBefore, EmptyStatus
<1>2. CopyInv /\ ClockInv /\ [Next]_vars => (CopyInv /\ ClockInv)'
  BY CopyStep, ClockStep
<1> QED
  BY <1>1, <1>2, PTL DEF Spec

(* No patch of either goroutine takes the LastUpdate of a peer back,       *)
(* whichever of them read the object first and however stale its copy was. *)
THEOREM PeerUpdateNeverGoesBackHolds == Spec => PeerUpdateNeverGoesBack
<1>1. CopyInv /\ ClockInv /\ [Next]_vars =>
         [\A p \in Peer : NoTimeBack(p)]_vars
  BY NoTimeBackStep
<1> QED
  BY <1>1, ClockCorrect, PTL DEF Spec, PeerUpdateNeverGoesBack

(* Of the times alone: none is in the future, and what the callback is     *)
(* about to save is not older than what the server has.                    *)
THEOREM ClockInvHolds == Spec => []ClockInv
BY ClockCorrect, PTL

-----------------------------------------------------------------------------
(* What was heard of a peer, where the callback's copy was not behind.     *)

(* Time alone does not disturb it.                                         *)
LEMMA HeardKept ==
    ASSUME TypeOK, NEW p \in Peer, HeardOf(p), heard'[p] = heard[p],
           status'.clusters[p] = status.clusters[p], now' \in {now, now + 1}
    PROVE  HeardOf(p)'
<1>1. now \in Nat
  BY RobotAssumption DEF TypeOK
<1> QED
  BY <1>1, StatusAssumption DEF HeardOf, Past

(* A save that succeeds.                                                   *)
Saved ==
    /\ cpc = "saving" /\ now' = now
    /\ PatchStatus(original, instance)
    /\ IF msg.kind = "data"
       THEN Hear(msg, instance.clusters[msg.from].lastUpdate, original)
       ELSE PruneUnseen

(* The history changes when a message is handled without an error, and a   *)
(* peer's entry with it.                                                   *)
LEMMA HeardSources ==
    ASSUME CopyInv, [Next]_vars
    PROVE  \/ UNCHANGED judged /\ \A p \in Peer : status'.clusters[p]
                                                    = status.clusters[p]
           \/ Saved
           \/ \E m \in inbox :
                 /\ HandleData(m) /\ Hear(m, now, cache)
                 /\ OperatorStatusesEqual(cache, RemoteStatus(m))
<1>1. CASE SaveStatus
  BY <1>1 DEF SaveStatus, Goroutine, Saved, NoPatch, unchangedByGoroutine
<1>2. ASSUME NEW m \in inbox, HandleData(m)
      PROVE  /\ status' = status
             /\ \/ UNCHANGED judged
                \/ /\ Hear(m, now, cache)
                   /\ OperatorStatusesEqual(cache, RemoteStatus(m))
  BY <1>2 DEF HandleData, NoPatch
<1>3. ASSUME ~SaveStatus, \A m \in inbox : ~HandleData(m)
      PROVE  UNCHANGED judged
  <2>1. CASE EnvironmentStep
    BY <2>1 DEF EnvironmentStep, Tick, WatchEvent, EditLocal, EditPeer,
                PeerPublishes, PeerAsks, Arrive, unchangedByEnvironment
  <2>2. CASE ReconcilerStep
    BY <2>2 DEF ReconcilerStep, Reconcile, EnsurePeerServicesFails,
                EnsureLocalStatus, PatchLocalStatus, PublishLocal, StampLocal,
                unchangedByWorker
  <2>3. CASE CallbackStep
    BY <1>3, <2>3 DEF CallbackStep, HandleOwn, HandleRequest, AnswerRequest,
                      StampAnswer
  <2>4. CASE ProcessStep
    BY <2>4 DEF ProcessStep, NilEntryPanic, Crash, Stop, Restart
  <2>5. CASE UNCHANGED vars
    BY <2>5 DEF vars, judged
  <2> QED
    BY <2>1, <2>2, <2>3, <2>4, <2>5 DEF Next
<1> QED
  BY <1>1, <1>2, <1>3, PeersKept

(* Where nothing was written in between, the save makes a peer's entry     *)
(* what the callback made of it.                                           *)
LEMMA SaveOverwrites ==
    ASSUME CopyInv, PatchStatus(original, instance), NEW p \in Peer,
           original.clusters[p] = status.clusters[p]
    PROVE  status'.clusters[p] = instance.clusters[p]
<1>1. /\ p \in Cluster
      /\ original.clusters[p] \in Entry \cup {NoEntry}
      /\ instance.clusters[p] \in Entry \cup {NoEntry}
  BY DEF Cluster, CopyInv, TypeOK, Status
<1>2. status'.clusters =
        MergeClusters(status.clusters, original.clusters, instance.clusters)
  BY DEF PatchStatus, MergePatch
<1>3. CASE Known(instance.clusters) = {} /\ Known(original.clusters) # {}
  <2>1. instance.clusters[p] = NoEntry
    BY <1>1, <1>3 DEF Known
  <2> QED
    BY <1>1, <1>2, <1>3, <2>1 DEF MergeClusters
<1>4. CASE ~(Known(instance.clusters) = {} /\ Known(original.clusters) # {})
  <2>1. status'.clusters[p] = MergeEntry(status.clusters[p],
                                original.clusters[p], instance.clusters[p])
    BY <1>1, <1>2, <1>4 DEF MergeClusters
  <2> QED
    BY <1>1, <2>1, MergeOverwrites
<1> QED
  BY <1>3, <1>4

(* A save after a message of this cluster: what is removed, and was seen   *)
(* as it is, has not been heard of for its age, but for the margin.        *)
LEMMA HeardPruned ==
    ASSUME CopyInv, PruningCopy, Saved, NEW p \in Peer, p \notin behind',
           HeardInv
    PROVE  HeardOf(p)'
<1>1. now' = now /\ now \in Nat /\ PruneUnseen
  BY RobotAssumption
  DEF Saved, PruningCopy, OwnMsg, RequestMsg, CopyInv, TypeOK
<1>2. /\ heard' = heard /\ HeardOf(p)
      /\ status.clusters[p] \in {original.clusters[p], status'.clusters[p]}
  BY <1>1 DEF PruneUnseen, HeardInv
<1>3. CASE status'.clusters[p] = status.clusters[p]
  BY <1>1, <1>2, <1>3, HeardKept DEF CopyInv
<1>4. CASE /\ status'.clusters[p] # status.clusters[p]
           /\ original.clusters[p] = status.clusters[p]
  <2> DEFINE e == status.clusters[p]
             h == heard[p]
  <2>1. status'.clusters[p] = instance.clusters[p]
    BY <1>4, SaveOverwrites DEF Saved
  <2>2. status'.clusters[p] = NoEntry /\ Expired(e, now)
    BY <1>4, <2>1 DEF PruningCopy, Cluster
  <2>3. /\ PruneAge > 0 /\ e # NoEntry
        /\ e.lastUpdate = Never \/ e.lastUpdate < now - PruneAge
    BY <2>2 DEF Expired
  <2>4. /\ Past(h.at) /\ e.lastUpdate \in Nat
        /\ e.lastUpdate <= h.at /\ h.at - e.lastUpdate < Debounce
    BY <1>2, <2>3 DEF HeardOf
  <2> HIDE DEF e, h
  <2>5. h.at + PruneAge - (Debounce - 1) < now
    BY <1>1, <2>3, <2>4, StatusAssumption DEF Past
  <2> QED
    BY <1>1, <1>2, <2>2, <2>3, <2>4, <2>5 DEF HeardOf, Past, h
<1> QED
  BY <1>2, <1>3, <1>4

(* A save after a data message: its sender has just been heard.            *)
LEMMA HeardReceived ==
    ASSUME CopyInv, ReceivedCopy, Saved, NEW p \in Peer, p \notin behind',
           HeardInv
    PROVE  HeardOf(p)'
<1> DEFINE q == msg.from
           f == instance.clusters[q]
<1>1. /\ now' = now /\ now \in Nat /\ Hear(msg, f.lastUpdate, original)
      /\ PatchStatus(original, instance)
  BY RobotAssumption DEF Saved, ReceivedCopy, CopyInv, TypeOK
<1>2. CASE p = q
  <2>1. heard'[p] = [services |-> msg.services, at |-> f.lastUpdate]
    BY <1>1, <1>2 DEF Hear, CopyInv, TypeOK
  <2>2. /\ f # NoEntry /\ f.named /\ f.services = msg.services
        /\ Past(f.lastUpdate)
    BY DEF ReceivedCopy
  <2>3. original.clusters[p] = status.clusters[p]
    BY <1>1, <1>2 DEF Hear
  <2>4. status'.clusters[p] = f
    BY <1>1, <1>2, <2>3, SaveOverwrites
  <2> HIDE DEF f
  <2> QED
    BY <1>1, <2>1, <2>2, <2>4, StatusAssumption DEF HeardOf, Past
<1>3. CASE p # q
  <2>1. heard'[p] = heard[p] /\ p \notin behind
    BY <1>1, <1>3 DEF Hear, CopyInv, TypeOK
  <2>2. status'.clusters[p] = status.clusters[p]
    BY <1>1, <1>3, ReceivedPatch DEF CopyInv, Cluster
  <2> QED
    BY <1>1, <2>1, <2>2, HeardKept DEF CopyInv, HeardInv
<1> QED
  BY <1>2, <1>3

(* A message that tells nothing new: its sender's entry already says it,   *)
(* and was written less than 30 seconds ago.                               *)
LEMMA HeardAgain ==
    ASSUME CopyInv, ClockInv, NEW m \in inbox, HandleData(m),
           Hear(m, now, cache), OperatorStatusesEqual(cache, RemoteStatus(m)),
           NEW p \in Peer, p \notin behind', HeardInv
    PROVE  HeardOf(p)'
<1>1. now' = now /\ now \in Nat /\ status' = status
  BY RobotAssumption
  DEF HandleData, NoPatch, unchangedByGoroutine, CopyInv, TypeOK
<1>2. m.from \in Peer /\ m.from \in Cluster /\ m.services \in Advert
  BY DataMessage DEF HandleData, CopyInv, TypeOK, Cluster
<1>3. CASE p # m.from
  <2>1. heard'[p] = heard[p] /\ p \notin behind
    BY <1>3 DEF Hear, CopyInv, TypeOK
  <2> QED
    BY <1>1, <2>1, HeardKept DEF CopyInv, HeardInv
<1>4. CASE p = m.from
  <2> DEFINE e == status.clusters[p]
             f == [named |-> TRUE, services |-> m.services,
                   lastUpdate |-> now]
  <2>1. RemoteStatus(m).clusters[p] = f
    BY <1>2, <1>4 DEF RemoteStatus, CopyInv, TypeOK, Status
  <2>2. e = cache.clusters[p]
    BY <1>4 DEF Hear
  <2>3. EntriesEqual(e, f)
    BY <1>2, <1>4, <2>1, <2>2 DEF OperatorStatusesEqual
  <2>4. f \in Entry
    BY <1>1, <1>2 DEF Entry, Time
  <2>5. /\ e # NoEntry /\ e.named = TRUE /\ e.services = m.services
        /\ TimesEqual(e.lastUpdate, now)
    BY <2>3, <2>4, StatusAssumption DEF EntriesEqual
  <2>6. e \in Entry /\ UpdatedBefore(e, now)
    BY <1>2, <1>4, <2>5 DEF CopyInv, TypeOK, Status, ClockInv
  <2>7. heard'[p] = [services |-> m.services, at |-> now]
    BY <1>4 DEF Hear, CopyInv, TypeOK
  <2>8. e = status'.clusters[p]
    BY <1>1
  <2> HIDE DEF e
  <2>9. /\ e.lastUpdate \in Nat /\ e.lastUpdate <= now
        /\ now - e.lastUpdate < Debounce
    BY <1>1, <2>5, <2>6, StatusAssumption
    DEF TimesEqual, UpdatedBefore, Entry, Time
  <2> QED
    BY <1>1, <2>5, <2>7, <2>8, <2>9 DEF HeardOf, Past
<1> QED
  BY <1>3, <1>4

LEMMA HeardStep == CopyInv /\ ClockInv /\ HeardInv /\ [Next]_vars => HeardInv'
<1> SUFFICES ASSUME CopyInv, ClockInv, HeardInv, [Next]_vars,
                    NEW p \in Peer, p \notin behind'
             PROVE  HeardOf(p)'
  BY DEF HeardInv
<1>1. CASE Saved
  <2>1. PruningCopy \/ ReceivedCopy
    BY <1>1 DEF Saved, CopyInv, SaveInv
  <2> QED
    BY <1>1, <2>1, HeardPruned, HeardReceived
<1>2. ASSUME NEW m \in inbox, HandleData(m), Hear(m, now, cache),
             OperatorStatusesEqual(cache, RemoteStatus(m))
      PROVE  HeardOf(p)'
  BY <1>2, HeardAgain
<1>3. CASE UNCHANGED judged /\ \A q \in Peer : status'.clusters[q]
                                                 = status.clusters[q]
  <2>1. HeardOf(p) /\ heard'[p] = heard[p]
    BY <1>3 DEF judged, HeardInv
  <2> QED
    BY <1>3, <2>1, HeardKept, ClockGoesOn DEF CopyInv
<1> QED
  BY <1>1, <1>2, <1>3, HeardSources

(* The copies, the times and what was heard are right together.            *)
THEOREM HeardCorrect == Spec => [](CopyInv /\ ClockInv /\ HeardInv)
<1>1. Init => HeardInv
  BY DEF Init, HeardInv, HeardOf, EmptyStatus, Cluster
<1>2. CopyInv /\ ClockInv /\ HeardInv /\ [Next]_vars => HeardInv'
  BY HeardStep
<1> QED
  BY <1>1, <1>2, ClockCorrect, PTL DEF Spec

(* A peer whose last message was judged from a copy of its entry that was  *)
(* not behind the server: its entry is that message, at most 30 seconds    *)
(* older, or was pruned when its age, less that margin, had passed.        *)
THEOREM HeardInvHolds == Spec => []HeardInv
BY HeardCorrect, PTL

(* What the status says of such a peer is the last message handled for it, *)
(* services added and removed alike, whatever the stale copies before it   *)
(* and the patches of the own entry in between led to.                     *)
THEOREM AdoptsUnlessBehindHolds == Spec => []AdoptsUnlessBehind
<1>1. HeardInv => AdoptsUnlessBehind
  BY DEF HeardInv, HeardOf, AdoptsUnlessBehind, Adopted
<1> QED
  BY <1>1, HeardCorrect, PTL

(* Such a peer, heard of within PrunePeerAtAge, less the 30 seconds in     *)
(* which a repeated message is not written down, is not pruned.            *)
THEOREM LivePeerKeptHolds == Spec => []LivePeerKept
<1>1. CopyInv /\ HeardInv => LivePeerKept
  <2> SUFFICES ASSUME CopyInv, HeardInv, NEW p \in Peer \ behind,
                      heard[p] # NotHeard,
                      PruneAge > 0 =>
                         now <= heard[p].at + PruneAge - (Debounce - 1)
               PROVE  status.clusters[p] # NoEntry
    BY DEF LivePeerKept
  <2>1. now \in Nat /\ HeardOf(p)
    BY RobotAssumption DEF CopyInv, TypeOK, HeardInv
  <2> QED
    BY <2>1, StatusAssumption DEF HeardOf, Past
<1> QED
  BY <1>1, HeardCorrect, PTL
=============================================================================
