--------------------------- MODULE ServiceSyncStatus ---------------------------
(***************************************************************************)
(* The status of one ServiceSync object and the operations the controller  *)
(* performs on it (servicesync_types.go, util_compare.go, util_general.go  *)
(* and the status half of servicesync_controller.go).                      *)
(*                                                                         *)
(* Status.Clusters maps a cluster name to what is known of that cluster.   *)
(* The JSON below a cluster's "services" key is a tree of maps whose       *)
(* leaves are replaced as a whole by a merge patch (the endpoints list and *)
(* the ports list of each service).  A services map is therefore a         *)
(* function from Leaf to a value, Absent when the leaf is not there.       *)
(*                                                                         *)
(* Patch(ctx, obj, MergeFrom(original)) sends only the differences between *)
(* the object that was read and the object as modified, so its effect is a *)
(* three-way merge with whatever the API server holds by then.             *)
(***************************************************************************)
EXTENDS Integers, FiniteSets, Sequences

CONSTANTS
    Peer,       \* names of the other clusters
    Me,         \* getClusterName() of this cluster
    Leaf,       \* leaves of the JSON tree of a services map
    Value,      \* what a leaf can hold
    Absent,     \* the leaf is not there
    NoEntry,    \* the cluster's key is not in Status.Clusters
    Never,      \* the zero metav1.Time
    Debounce,   \* the 30 seconds of conditionCmpOpts
    PruneAge    \* Spec.PrunePeerAtAge, 0 when pruning is off

Cluster == Peer \cup {Me}

Advert == [Leaf -> Value \cup {Absent}]
NoAdvert == [l \in Leaf |-> Absent]

Time == Nat \cup {Never}

(* The name is the key again, or is missing: this cluster's own entry gets *)
(* its name in memory only, and a patch sends what differs.                *)
Entry == [named : BOOLEAN, services : Advert, lastUpdate : Time]
EmptyEntry == [named |-> FALSE, services |-> NoAdvert, lastUpdate |-> Never]

Status == [clusters : [Cluster -> Entry \cup {NoEntry}], peers : Seq(Cluster)]
EmptyStatus == [clusters |-> [c \in Cluster |-> NoEntry], peers |-> << >>]

ASSUME StatusAssumption ==
    /\ IsFiniteSet(Peer)
    /\ Me \notin Peer
    /\ Absent \notin Value
    /\ NoEntry \notin Entry
    /\ Never \notin Nat
    /\ Debounce \in Nat \ {0}
    /\ PruneAge \in Nat

-----------------------------------------------------------------------------
(* The keys of a Status.Clusters map.                                      *)
Known(clusters) == {c \in Cluster : clusters[c] # NoEntry}

(* Mutant: the loop takes the index for the item.                          *)
FilterOutIndex(names, needle) ==
    [i \in 1..Cardinality(names \ {needle}) |-> i]

(* filterOut appends the needle, not the item, for every item that differs *)
(* from the needle.                                                        *)
FilterOut(names, needle) ==
    [i \in 1..Cardinality(names \ {needle}) |-> needle]

(* Mutant: 30 seconds apart is still equal.                                *)
TimesEqualInclusive(t, u) ==
    \/ t = u
    \/ /\ t # Never /\ u # Never
       /\ t - u <= Debounce /\ u - t <= Debounce

(* The metav1.Time comparer: less than 30 seconds apart is equal.  The     *)
(* zero time is centuries away from any other time.                        *)
TimesEqual(t, u) ==
    \/ t = u
    \/ /\ t # Never /\ u # Never
       /\ t - u < Debounce /\ u - t < Debounce

(* Mutant: entries of about the same time are not compared further.        *)
EntriesEqualByTime(d, e) ==
    \/ d = NoEntry /\ e = NoEntry
    \/ /\ d # NoEntry /\ e # NoEntry
       /\ TimesEqual(d.lastUpdate, e.lastUpdate)

(* cmp.Equal of two *Cluster under conditionCmpOpts.                       *)
EntriesEqual(d, e) ==
    \/ d = NoEntry /\ e = NoEntry
    \/ /\ d # NoEntry /\ e # NoEntry
       /\ d.named = e.named /\ d.services = e.services
       /\ TimesEqual(d.lastUpdate, e.lastUpdate)

(* Every peers list the controller writes repeats one name, so comparing   *)
(* the lists sorted, as SortSlices does, is comparing them.                *)
OperatorStatusesEqual(s, u) ==
    /\ s.peers = u.peers
    /\ \A c \in Cluster : EntriesEqual(s.clusters[c], u.clusters[c])

(* Mutant: expired on the dot.                                             *)
ExpiredOnTheDot(e, t) ==
    /\ PruneAge > 0
    /\ e # NoEntry
    /\ e.lastUpdate = Never \/ e.lastUpdate <= t - PruneAge

(* LastUpdate.Before(now - maxAge); the zero time is before everything.    *)
Expired(e, t) ==
    /\ PruneAge > 0
    /\ e # NoEntry
    /\ e.lastUpdate = Never \/ e.lastUpdate < t - PruneAge

PruneExpired(clusters, t) ==
    [c \in Cluster |-> IF Expired(clusters[c], t) THEN NoEntry
                                                   ELSE clusters[c]]

-----------------------------------------------------------------------------
(* Merge patches.  o is the original that was read, m the object as        *)
(* modified, s what the server holds when the patch arrives.               *)

OrEmpty(e) == IF e = NoEntry THEN EmptyEntry ELSE e

(* A leaf that the modification left alone is not in the patch.            *)
MergeLeaf(s, o, m) == IF m = o THEN s ELSE m

(* Mutant: a patch without nulls for what was removed.                     *)
MergeServicesAdding(s, o, m) ==
    [l \in Leaf |-> IF m[l] \in {o[l], Absent} THEN s[l] ELSE m[l]]

(* An empty map is omitted from the JSON, so emptying a services map       *)
(* removes the server's whole map, leaves the original lacked included.    *)
MergeServices(s, o, m) ==
    IF m = NoAdvert /\ o # NoAdvert
    THEN NoAdvert
    ELSE [l \in Leaf |-> MergeLeaf(s[l], o[l], m[l])]

(* A removed key is null in the patch.  A key the original lacks is in the *)
(* patch with the leaves it has, and is merged into the key the server may *)
(* have by then.                                                           *)
MergeEntry(s, o, m) ==
    IF m = o THEN s
    ELSE IF m = NoEntry THEN NoEntry
    ELSE [named      |-> MergeLeaf(OrEmpty(s).named,
                                   OrEmpty(o).named, m.named),
          services   |-> MergeServices(OrEmpty(s).services,
                                       OrEmpty(o).services, m.services),
          lastUpdate |-> MergeLeaf(OrEmpty(s).lastUpdate,
                                   OrEmpty(o).lastUpdate, m.lastUpdate)]

(* Mutant: an update in place of a patch.                                  *)
OverwriteClusters(s, o, m) == m

(* Removing the last cluster empties the clusters map, which is omitted    *)
(* just the same.                                                          *)
MergeClusters(s, o, m) ==
    IF Known(m) = {} /\ Known(o) # {}
    THEN [c \in Cluster |-> NoEntry]
    ELSE [c \in Cluster |-> MergeEntry(s[c], o[c], m[c])]

(* Lists are replaced as a whole.                                          *)
MergePatch(s, o, m) ==
    [clusters |-> MergeClusters(s.clusters, o.clusters, m.clusters),
     peers    |-> MergeLeaf(s.peers, o.peers, m.peers)]
=============================================================================
