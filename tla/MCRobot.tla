-------------------------------- MODULE MCRobot --------------------------------
(* Small instances of Robot for TLC.                                       *)
EXTENDS RobotInvariants

CONSTANTS p1, l1, l2, v

OnePeer == {p1}
NoPeer == {}
OneLeaf == {l1}
TwoLeaves == {l1, l2}
OneValue == {v}

Nothing == [l \in Leaf |-> Absent]
Only(k) == [l \in Leaf |-> IF l = k THEN v ELSE Absent]

\* Exposing nothing, or always the same service.
NoService == {Nothing}
SameService == {Only(l1)}
\* Coming to expose nothing or one service.
OneService == {Nothing, Only(l1)}
\* Replacing one service by another, never having both.
Swapped == {Only(l1), Only(l2)}
=============================================================================
