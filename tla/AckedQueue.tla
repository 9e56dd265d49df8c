------------------------------ MODULE AckedQueue -------------------------------
(***************************************************************************)
(* What a subscription promises to the program that listens on it: a       *)
(* message stays in the backlog until it has been handled, through         *)
(* restarts of the program too, or until the subscription itself is gone.  *)
(* It may be handled more than once and in any order.                      *)
(*                                                                         *)
(*   backlog   messages that arrived and are not acked                     *)
(*   handled   messages the program has handled                            *)
(***************************************************************************)
CONSTANT Message

VARIABLES backlog, handled

Init == backlog \subseteq Message /\ handled = {}

Arrives(m) == backlog' = backlog \cup {m} /\ UNCHANGED handled

Handle(m) ==
    /\ m \in backlog \cup handled
    /\ handled' = handled \cup {m}
    /\ UNCHANGED backlog

Acked(m) ==
    /\ m \in handled
    /\ backlog' = backlog \ {m}
    /\ UNCHANGED handled

Dropped == backlog' = {} /\ UNCHANGED handled

Next ==
    \/ \E m \in Message : Arrives(m) \/ Handle(m) \/ Acked(m)
    \/ Dropped

Spec == Init /\ [][Next]_<<backlog, handled>>
=============================================================================
