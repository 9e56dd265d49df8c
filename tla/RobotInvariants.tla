---------------------------- MODULE RobotInvariants ----------------------------
(***************************************************************************)
(* What makes the properties of Robot inductive.  The hazard is the save:  *)
(* between the read of the object and the patch the callback holds two     *)
(* copies, original and instance, while the reconcile worker patches the   *)
(* same object.                                                            *)
(***************************************************************************)
EXTENDS Robot

(* t is a moment that has passed.                                          *)
Past(t) == t \in Nat /\ t <= now

(* The copies differ in what the message is about.  A message of this      *)
(* cluster removes entries, each of them expired; a data message replaces  *)
(* its sender's entry by what was received.                                *)
PruningCopy ==
    /\ msg = OwnMsg
    /\ \A c \in Cluster :
          \/ instance.clusters[c] = original.clusters[c]
          \/ /\ instance.clusters[c] = NoEntry
             /\ Expired(original.clusters[c], now)

ReceivedCopy ==
    /\ msg.kind = "data"
    /\ LET e == instance.clusters[msg.from]
       IN  /\ e # NoEntry /\ e.named
           /\ e.services = msg.services /\ Past(e.lastUpdate)
    /\ \A c \in Cluster \ {msg.from} :
          instance.clusters[c] = original.clusters[c]

SaveInv == cpc = "saving" => PruningCopy \/ ReceivedCopy

(* An answer is only under way for an object that had the own entry.       *)
AnswerInv ==
    cpc \in {"publishing", "stamping"} =>
        original.clusters[Me] # NoEntry /\ instance.clusters[Me] # NoEntry

CopyInv == TypeOK /\ SaveInv /\ AnswerInv

(* No LastUpdate lies in the future, though it was read from the clock one *)
(* or more calls before it is written, and the copy that waits to be saved *)
(* is not older than what the server has.                                  *)
UpdatedBefore(e, t) ==
    (e # NoEntry /\ e.lastUpdate # Never) => e.lastUpdate <= t

ClockInv ==
    /\ \A c \in Cluster : UpdatedBefore(status.clusters[c], now)
    /\ rpc = "stamping" => Past(stamp)
    /\ cpc = "stamping" => Past(Own(instance).lastUpdate)
    /\ (cpc = "saving" /\ msg.kind = "data") =>
          UpdatedBefore(status.clusters[msg.from],
                        instance.clusters[msg.from].lastUpdate)

(* Whatever a publish may take its services from holds leaves that this    *)
(* cluster exposed: the own entry in each copy, and what was listed.       *)
ExposedMap(a) == \A l \in Leaf : Exposed(a, l)
ExposedEntry(e) == ExposedMap(OrEmpty(e).services)

ExposedInv ==
    /\ local \in localSeen
    /\ ExposedEntry(Own(status)) /\ ExposedEntry(Own(cache))
    /\ ExposedEntry(Own(original)) /\ ExposedEntry(selfStatus)
    /\ ExposedMap(current)
    /\ AnnouncedWasExposed

(* A peer's entry is what was last heard of it, at most 30 seconds older;  *)
(* or it was pruned, and then that much less than its age has passed.      *)
HeardOf(p) ==
    LET e == status.clusters[p]
        h == heard[p]
    IN  \/ h = NotHeard /\ e = NoEntry
        \/ /\ Past(h.at) /\ e = NoEntry
           /\ PruneAge > 0 /\ h.at + PruneAge - (Debounce - 1) < now
        \/ /\ Past(h.at) /\ e # NoEntry
           /\ e.named /\ e.services = h.services
           /\ e.lastUpdate \in Nat
           /\ e.lastUpdate <= h.at /\ h.at - e.lastUpdate < Debounce

(* Nobody but the callback writes a peer's entry, so where its copy is not *)
(* behind the server, the merge patch is an overwrite.                     *)
HeardInv == \A p \in Peer \ behind : HeardOf(p)

(* What a message says, its sender exposed when it was sent.               *)
SentInv ==
    /\ \A p \in Peer : peerAdvert[p] \in peerSeen[p]
    /\ \A m \in inbox \cup {msg} :
          m.kind = "data" => m.services \in peerSeen[m.from]

AdoptedInv == SentInv /\ AdoptedWasExposed
=============================================================================
