------------------------------ MODULE StatusProofs ------------------------------
(***************************************************************************)
(* Lemmas on the operations of ServiceSyncStatus: what they return, and    *)
(* when a merge patch overwrites, keeps or mixes what the server holds.    *)
(***************************************************************************)
EXTENDS ServiceSyncStatus, FiniteSetTheorems, TLAPS

(* An entry that is not there reads as an empty one.                       *)
LEMMA OrEmptyType == ASSUME NEW e \in Entry \cup {NoEntry}
                     PROVE  OrEmpty(e) \in Entry
BY StatusAssumption DEF OrEmpty, EmptyEntry, Entry, NoAdvert, Advert, Time

(* The status of a new object is a status.                                 *)
LEMMA EmptyStatusType == EmptyStatus \in Status
BY DEF EmptyStatus, Status

(* The list filterOut makes of cluster names is a list of cluster names.   *)
LEMMA FilterOutType ==
    ASSUME NEW names \in SUBSET Cluster, NEW needle \in Cluster
    PROVE  FilterOut(names, needle) \in Seq(Cluster)
<1>1. IsFiniteSet(Cluster)
  BY StatusAssumption, FS_AddElement DEF Cluster
<1>2. IsFiniteSet(names \ {needle})
  BY <1>1, FS_Subset
<1>3. Cardinality(names \ {needle}) \in Nat
  BY <1>2, FS_CardinalityType
<1>4. \A n \in Nat : [i \in 1..n |-> needle] \in Seq(Cluster)
  OBVIOUS
<1> QED
  BY <1>3, <1>4 DEF FilterOut

(* Merging services maps makes a services map.                             *)
LEMMA MergeServicesType ==
    ASSUME NEW s \in Advert, NEW o \in Advert, NEW m \in Advert
    PROVE  MergeServices(s, o, m) \in Advert
BY DEF MergeServices, MergeLeaf, Advert, NoAdvert

(* Merging entries makes an entry, or removes it.                          *)
LEMMA MergeEntryType ==
    ASSUME NEW s \in Entry \cup {NoEntry}, NEW o \in Entry \cup {NoEntry},
           NEW m \in Entry \cup {NoEntry}
    PROVE  MergeEntry(s, o, m) \in Entry \cup {NoEntry}
<1>1. OrEmpty(s) \in Entry /\ OrEmpty(o) \in Entry
  BY OrEmptyType
<1>2. CASE m = o \/ m = NoEntry
  BY <1>2 DEF MergeEntry
<1>3. CASE m # o /\ m # NoEntry
  <2>1. m \in Entry
    BY <1>3
  <2>2. MergeServices(OrEmpty(s).services, OrEmpty(o).services, m.services)
          \in Advert
    BY <1>1, <2>1, MergeServicesType DEF Entry
  <2>3. MergeLeaf(OrEmpty(s).lastUpdate, OrEmpty(o).lastUpdate, m.lastUpdate)
          \in Time
    BY <1>1, <2>1 DEF Entry, MergeLeaf
  <2>4. MergeLeaf(OrEmpty(s).named, OrEmpty(o).named, m.named) \in BOOLEAN
    BY <1>1, <2>1 DEF Entry, MergeLeaf
  <2> QED
    BY <1>3, <2>2, <2>3, <2>4 DEF MergeEntry, Entry
<1> QED
  BY <1>2, <1>3

(* A patch of a status makes a status.                                     *)
LEMMA MergePatchType ==
    ASSUME NEW s \in Status, NEW o \in Status, NEW m \in Status
    PROVE  MergePatch(s, o, m) \in Status
<1>1. MergeClusters(s.clusters, o.clusters, m.clusters)
        \in [Cluster -> Entry \cup {NoEntry}]
  BY MergeEntryType DEF MergeClusters, Status
<1>2. MergeLeaf(s.peers, o.peers, m.peers) \in Seq(Cluster)
  BY DEF MergeLeaf, Status
<1> QED
  BY <1>1, <1>2 DEF MergePatch, Status

(* Pruning a clusters map makes a clusters map.                            *)
LEMMA PruneExpiredType ==
    ASSUME NEW clusters \in [Cluster -> Entry \cup {NoEntry}], NEW t
    PROVE  PruneExpired(clusters, t) \in [Cluster -> Entry \cup {NoEntry}]
BY DEF PruneExpired

(* A patch computed from what the server holds overwrites: nobody wrote    *)
(* the entry between the read and the patch.                               *)
LEMMA MergeOverwrites ==
    ASSUME NEW o \in Entry \cup {NoEntry}, NEW m \in Entry \cup {NoEntry}
    PROVE  MergeEntry(o, o, m) = m
<1>1. CASE m = o \/ m = NoEntry
  BY <1>1 DEF MergeEntry
<1>2. CASE m # o /\ m # NoEntry
  <2>1. m \in Entry /\ OrEmpty(o) \in Entry
    BY <1>2, OrEmptyType
  <2>2. MergeServices(OrEmpty(o).services, OrEmpty(o).services, m.services)
          = m.services
    BY <2>1 DEF MergeServices, MergeLeaf, Entry, Advert, NoAdvert
  <2>3. MergeLeaf(OrEmpty(o).lastUpdate, OrEmpty(o).lastUpdate, m.lastUpdate)
          = m.lastUpdate
    BY DEF MergeLeaf
  <2>4. MergeLeaf(OrEmpty(o).named, OrEmpty(o).named, m.named) = m.named
    BY DEF MergeLeaf
  <2> QED
    BY <1>2, <2>1, <2>2, <2>3, <2>4 DEF MergeEntry, Entry
<1> QED
  BY <1>1, <1>2

(* Each leaf of a merged services map is the server's or the patch's.      *)
LEMMA MergeServicesMixes ==
    ASSUME NEW s \in Advert, NEW o \in Advert, NEW m \in Advert, NEW l \in Leaf
    PROVE  MergeServices(s, o, m)[l] \in {s[l], m[l]}
BY DEF MergeServices, MergeLeaf, Advert, NoAdvert

(* A patch that leaves the services alone keeps the server's.              *)
LEMMA MergeServicesKeeps ==
    ASSUME NEW s \in Advert, NEW o \in Advert
    PROVE  MergeServices(s, o, o) = s
BY DEF MergeServices, MergeLeaf, Advert

(* A patch whose modified copy still has a cluster never clears the map:   *)
(* entries the copies agree on stay as the server has them.                *)
LEMMA PatchKeeps ==
    ASSUME NEW s \in Status, NEW o \in Status, NEW m \in Status,
           NEW c \in Cluster, o.clusters[c] = m.clusters[c],
           Known(m.clusters) # {}
    PROVE  MergePatch(s, o, m).clusters[c] = s.clusters[c]
BY DEF MergePatch, MergeClusters, MergeEntry, Status
=============================================================================
