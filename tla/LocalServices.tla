----------------------------- MODULE LocalServices -----------------------------
(***************************************************************************)
(* getLocalServiceMap: what a cluster exposes, computed from the Services  *)
(* that the selector matches and from the nodes.                           *)
(*                                                                         *)
(* A Service has a list of ports, each with its node port or 0, and the    *)
(* addresses that a load balancer was given for it.  Addresses are numbers *)
(* in the order of their strings.                                          *)
(***************************************************************************)
EXTENDS Naturals, Sequences, FiniteSets

CONSTANTS
    Name,                 \* names of Services
    Node,                 \* host names of nodes
    Service,              \* Services that users may make
    Absent,               \* no such Service, no such node, not exposed
    PreferLoadBalancer    \* Spec.EndpointsPublishPreferLoadBalancerIPs

ASSUME LocalServicesAssumption ==
    /\ IsFiniteSet(Node)
    /\ Absent \notin Service
    /\ \A s \in Service :
          /\ s.ports \in Seq([port : Nat, nodePort : Nat])
          /\ IsFiniteSet(s.ingress) /\ \A i \in s.ingress : i.ip \in Nat

MembersOf(list) == {list[i] : i \in DOMAIN list}

(* getNodes lists the nodes or fails; its caller drops the error.          *)
NoNodes == [n \in Node |-> Absent]
GetNodes(nodes) == {nodes, NoNodes}

(* endpointsForHostsAndPort: every node of the list, cordoned ones too, by *)
(* the kind of address that Spec.EndpointsUseExternalIPs says.             *)
EndpointsForHosts(nodes) ==
    {[hostname |-> n, ipAddress |-> nodes[n].address] :
        n \in {k \in Node : nodes[k] # Absent}}

(* Mutant: the list is not sorted.                                         *)
Unsorted(endpoints) ==
    {list \in [1..Cardinality(endpoints) -> endpoints] :
        \A i, j \in DOMAIN list : i < j => list[i] # list[j]}

(* The lists that sort.Slice by address makes of endpoints.  The client    *)
(* gives nodes in any order, so those of one address come in any order.    *)
ByAddress(endpoints) ==
    {list \in [1..Cardinality(endpoints) -> endpoints] :
        \A i, j \in DOMAIN list : i < j =>
            /\ list[i] # list[j]
            /\ list[i].ipAddress <= list[j].ipAddress}

(* Those of one address keep the order they have in the Service.           *)
EndpointsForIngresses(ingresses) ==
    CHOOSE list \in ByAddress({[hostname |-> i.hostname, ipAddress |-> i.ip] :
                                  i \in ingresses}) : TRUE

-----------------------------------------------------------------------------
(* The two lists of ports.                                                 *)

PeerPort(internal, external) ==
    [internalPort |-> internal, externalPort |-> external]

(* Mutant: ports without a node port are kept.                             *)
AllPorts(service) == service.ports

(* The loop over the ports passes over those without one.                 *)
PassOver(list, p) == IF p.nodePort > 0 THEN Append(list, p) ELSE list

WithNodePort(service) ==
    LET kept[n \in 0..Len(service.ports)] ==
            IF n = 0 THEN <<>> ELSE PassOver(kept[n - 1], service.ports[n])
    IN  kept[Len(service.ports)]

(* sort.Slice by internal port: up to twelve elements it is an insertion   *)
(* sort, which moves each element down past those that are greater.        *)
Position(list, p) ==
    CHOOSE k \in 0..Len(list) :
        /\ k = 0 \/ list[k].internalPort <= p.internalPort
        /\ \A i \in (k + 1)..Len(list) : list[i].internalPort > p.internalPort

InsertPort(list, p) ==
    LET k == Position(list, p)
    IN  [i \in 1..(Len(list) + 1) |->
            IF i <= k THEN list[i] ELSE IF i = k + 1 THEN p ELSE list[i - 1]]

Sorted(list) ==
    LET first[n \in 0..Len(list)] ==
            IF n = 0 THEN <<>> ELSE InsertPort(first[n - 1], list[n])
    IN  first[Len(list)]

(* append doubles the array of a slice that is full.                       *)
Full(n) == \E k \in 0..n : 2^k = n

(* ports grows by one element per round, and lbPorts becomes ports with    *)
(* one more, in the spare room of the same array if there is any; what the *)
(* rounds before have written there is overwritten.  So in the end lbPorts *)
(* is ports and the last load balancer port, and unless the array was full *)
(* the sort of lbPorts reaches what ports refers to.                       *)
PortLists(service) ==
    LET given == WithNodePort(service)
        n == Len(given)
        ports == [i \in 1..n |-> PeerPort(given[i].port, given[i].nodePort)]
        last == PeerPort(given[n].port, given[n].port)
        array == Sorted(Append(Sorted(ports), last))
    IN  [ports |-> IF Full(n) THEN Sorted(ports) ELSE SubSeq(array, 1, n),
         lbPorts |-> array]

-----------------------------------------------------------------------------
(* A Service without node ports is skipped.                                *)
PortListsOf ==
    [s \in {t \in Service : WithNodePort(t) # <<>>} |-> PortLists(s)]

(* shouldPublishLB, and a load balancer is there.                          *)
ByLoadBalancer(service) == service.ingress # {} /\ PreferLoadBalancer

LocalService(service, endpoints) ==
    IF service \notin DOMAIN PortListsOf THEN Absent
    ELSE IF ByLoadBalancer(service)
    THEN [named     |-> TRUE,
          endpoints |-> EndpointsForIngresses(service.ingress),
          ports     |-> PortListsOf[service].lbPorts]
    ELSE [named |-> TRUE, endpoints |-> endpoints,
          ports |-> PortListsOf[service].ports]

(* The maps that may be made of Services and a list of nodes.              *)
GetLocalServiceMap(services, nodes) ==
    {[n \in Name |-> LocalService(services[n], endpoints)] :
        endpoints \in ByAddress(EndpointsForHosts(nodes))}

-----------------------------------------------------------------------------
(* What the lists are meant to hold.                                       *)

(* The ports of a Service are listed in ascending order.  One port may be  *)
(* there twice, for two protocols.                                         *)
InOrder(service) ==
    \A i, j \in DOMAIN service.ports :
        i < j => service.ports[i].port <= service.ports[j].port

(* The sort is by insertion; of a longer list, and the one port more that  *)
(* lbPorts has, it may exchange elements of one internal port.             *)
Short(service) == Len(service.ports) < 12

NodePorts(service) ==
    {PeerPort(p.port, p.nodePort) :
        p \in {q \in MembersOf(service.ports) : q.nodePort # 0}}
=============================================================================
