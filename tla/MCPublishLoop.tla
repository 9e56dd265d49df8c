----------------------------- MODULE MCPublishLoop -----------------------------
(* Small instances of PublishLoop for TLC.                                 *)
EXTENDS PublishLoop, TLC

CONSTANTS web, n1, n2

OneName == {web}
TwoNodes == {n1, n2}

Port(p, np) == [port |-> p, nodePort |-> np]
Ascending ==
    [ports |-> <<Port(1, 31), Port(2, 0), Port(3, 33), Port(4, 34)>>,
     ingress |-> {}]
Balanced ==
    [ports |-> <<Port(1, 31)>>,
     ingress |-> {[hostname |-> "", ip |-> 9]}]

(* The same Service, made again with another port.                         *)
Remade == [ports |-> <<Port(5, 35)>>, ingress |-> {}]

ByNodes == {Ascending}
ByNodesRemade == {Ascending, Remade}
ByIngress == {Balanced}

Up(a) == [address |-> a, unschedulable |-> FALSE]
Cordoned(a) == [address |-> a, unschedulable |-> TRUE]

Steady == n1 :> Up(1) @@ n2 :> Up(2)
SteadyOnly == {Steady}
OneOrTwo == {Steady, [Steady EXCEPT ![n2] = Absent]}

\* One node stays as it is; the other comes, is cordoned and leaves,
ComesAndGoes ==
    n1 :> {Up(1)} @@ n2 :> {Absent, Up(2), Cordoned(2)}
\* or both stay.
TheseOnly == n1 :> {Up(1)} @@ n2 :> {Up(2)}
=============================================================================
