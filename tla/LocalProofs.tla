------------------------------ MODULE LocalProofs ------------------------------
(***************************************************************************)
(* What the lists of LocalServices hold, for Services of any length and    *)
(* any finite set of nodes.  What needs induction takes a least number for *)
(* which it would fail.                                                    *)
(***************************************************************************)
EXTENDS LocalServices, FiniteSetTheorems, WellFoundedInduction, TLAPS

(* A set of numbers has a least one.                                       *)
LEMMA LeastNatural ==
    ASSUME NEW S, S \subseteq Nat, S # {}
    PROVE  \E m \in S : \A k \in S : m <= k
<1>1. IsWellFoundedOn(OpToRel(<, Nat), Nat)
  BY NatLessThanWellFounded, Zenon
<1>2. PICK m \in S : \A k \in S : <<k, m>> \notin OpToRel(<, Nat)
  BY <1>1, WFMin, Zenon
<1>3. ASSUME NEW k \in S PROVE m <= k
  <2>1. ~(k < m)
    BY <1>2 DEF OpToRel
  <2> QED BY <2>1
<1> QED BY <1>3

(* Induction: P, the numbers of which something holds, has all up to last. *)
LEMMA InductionUpTo ==
    ASSUME NEW last \in Nat, NEW P, 0 \in P,
           \A n \in 1..last : n - 1 \in P => n \in P
    PROVE  0..last \subseteq P
<1> DEFINE bad == (0..last) \ P
<1>1. SUFFICES ASSUME bad # {} PROVE FALSE
  OBVIOUS
<1>2. bad \subseteq Nat
  OBVIOUS
<1>3. PICK m \in bad : \A k \in bad : m <= k
  BY <1>1, <1>2, LeastNatural
<1>4. m \in 1..last /\ m \notin P
  BY <1>3
<1>5. m - 1 \in 0..last /\ ~(m <= m - 1)
  BY <1>4
<1>6. m - 1 \in P
  BY <1>3, <1>5
<1> QED BY <1>4, <1>6

(* A recursive function up to last: step[n] makes its value at n of the    *)
(* one before.                                                             *)
Recursive(f, last, first, step) ==
    f[0] = first /\ \A n \in 1..last : f[n] = step[n][f[n - 1]]

(* There is such a function.                                               *)
LEMMA RecursionUpTo ==
    ASSUME NEW last \in Nat, NEW S, NEW first \in S,
           NEW step \in [1..last -> [S -> S]]
    PROVE  \E f \in [0..last -> S] : Recursive(f, last, first, step)
<1> DEFINE Steps(f, m) == Recursive(f, m, first, step)
           P == {m \in 0..last : \E f \in [0..m -> S] : Steps(f, m)}
<1> USE DEF Recursive
<1>1. 0 \in P
  <2> DEFINE f == [n \in 0..0 |-> first]
  <2>1. f \in [0..0 -> S] /\ Steps(f, 0) /\ 0 \in 0..last
    OBVIOUS
  <2> HIDE DEF f, Steps
  <2> QED BY <2>1
<1>2. ASSUME NEW m \in 1..last, m - 1 \in P PROVE m \in P
  <2>1. PICK f \in [0..(m - 1) -> S] : Steps(f, m - 1)
    BY <1>2
  <2> DEFINE g == [n \in 0..m |->
                      IF n = m THEN step[m][f[m - 1]] ELSE f[n]]
  <2>2. f[m - 1] \in S /\ step[m] \in [S -> S]
    OBVIOUS
  <2>3. g \in [0..m -> S] /\ g[0] = first
    BY <2>1, <2>2
  <2>4. ASSUME NEW n \in 1..m PROVE g[n] = step[n][g[n - 1]]
    <3>1. g[n - 1] = f[n - 1]
      OBVIOUS
    <3>2. CASE n = m
      BY <3>1, <3>2
    <3>3. CASE n # m
      <4>1. n \in 1..(m - 1) /\ g[n] = f[n]
        BY <3>3
      <4> QED BY <2>1, <3>1, <4>1
    <3> QED BY <3>2, <3>3
  <2>5. Steps(g, m) /\ m \in 0..last
    <3> HIDE DEF g
    <3> QED BY <2>3, <2>4
  <2> HIDE DEF g, Steps
  <2> QED BY <2>3, <2>5
<1>3. 0..last \subseteq P
  <2> HIDE DEF P
  <2> QED BY <1>1, <1>2, InductionUpTo
<1> HIDE DEF Recursive
<1> QED BY <1>3

-----------------------------------------------------------------------------
(* Ports.                                                                  *)
Port == [port : Nat, nodePort : Nat]
Pair == [internalPort : Nat, externalPort : Nat]

Ascending(list) ==
    \A i, j \in DOMAIN list :
        i < j => list[i].internalPort <= list[j].internalPort

(* There is a place to insert p at, and Position is one.                   *)
LEMMA PositionFound ==
    ASSUME NEW list \in Seq(Pair), NEW p \in Pair
    PROVE  LET k == Position(list, p)
           IN  /\ k \in 0..Len(list)
               /\ k = 0 \/ list[k].internalPort <= p.internalPort
               /\ \A i \in (k + 1)..Len(list) :
                     list[i].internalPort > p.internalPort
<1> DEFINE S == {k \in 0..Len(list) :
                    \A i \in (k + 1)..Len(list) :
                        list[i].internalPort > p.internalPort}
<1>1. Len(list) \in S /\ S \subseteq Nat
  OBVIOUS
<1>2. PICK k \in S : \A m \in S : k <= m
  BY <1>1, LeastNatural
<1>3. k = 0 \/ list[k].internalPort <= p.internalPort
  <2>1. SUFFICES ASSUME k # 0, ~(list[k].internalPort <= p.internalPort)
                 PROVE  FALSE
    OBVIOUS
  <2>2. /\ k \in 1..Len(list) /\ k - 1 \in 0..Len(list)
        /\ (k - 1) + 1 = k
    BY <2>1
  <2>3. list[k] \in Pair
    BY <2>2
  <2>4. list[k].internalPort > p.internalPort
    BY <2>1, <2>3 DEF Pair
  <2>5. k - 1 \in S
    BY <2>2, <2>4
  <2>6. k <= k - 1
    <3> HIDE DEF S
    <3> QED BY <1>2, <2>5
  <2> QED BY <2>2, <2>6
<1> QED BY <1>2, <1>3 DEF Position

(* One round of the sort.                                                  *)
LEMMA InsertedPort ==
    ASSUME NEW list \in Seq(Pair), NEW p \in Pair
    PROVE  LET new == InsertPort(list, p)
           IN  /\ new \in Seq(Pair) /\ Len(new) = Len(list) + 1
               /\ Ascending(list) => Ascending(new)
               /\ MembersOf(new) = MembersOf(list) \cup {p}
               /\ (\A i \in 1..Len(list) :
                      list[i].internalPort <= p.internalPort)
                     => new = Append(list, p)
<1> DEFINE k == Position(list, p)
           n == Len(list)
           new == InsertPort(list, p)
<1>1. /\ k \in 0..n /\ n \in Nat
      /\ k = 0 \/ list[k].internalPort <= p.internalPort
      /\ \A i \in (k + 1)..n : list[i].internalPort > p.internalPort
  BY PositionFound
<1> HIDE DEF k
<1>2. new = [i \in 1..(n + 1) |->
                IF i <= k THEN list[i] ELSE IF i = k + 1 THEN p ELSE list[i - 1]]
  BY DEF InsertPort, k
<1> HIDE DEF new
<1>3. \A i \in 1..n : list[i] \in Pair
  OBVIOUS
<1>4. new \in [1..(n + 1) -> Pair]
  BY <1>1, <1>2, <1>3
<1>5. new \in Seq(Pair) /\ Len(new) = n + 1 /\ DOMAIN new = 1..(n + 1)
  BY <1>1, <1>4
<1>6. Ascending(list) => Ascending(new)
  <2>1. SUFFICES ASSUME Ascending(list),
                        NEW i \in 1..(n + 1), NEW j \in 1..(n + 1), i < j
                 PROVE  new[i].internalPort <= new[j].internalPort
    BY <1>5 DEF Ascending
  <2>2. \A a, b \in 1..n : a <= b => list[a].internalPort <= list[b].internalPort
    <3>1. DOMAIN list = 1..n
      OBVIOUS
    <3>2. SUFFICES ASSUME NEW a \in 1..n, NEW b \in 1..n, a <= b
                   PROVE  list[a].internalPort <= list[b].internalPort
      OBVIOUS
    <3>3. a < b => list[a].internalPort <= list[b].internalPort
      BY <2>1, <3>1 DEF Ascending
    <3>4. list[a].internalPort \in Nat /\ (a < b \/ a = b)
      BY <1>3, <3>2 DEF Pair
    <3> QED BY <3>3, <3>4
  <2>3. \A a \in 1..n : list[a].internalPort \in Nat
    BY <1>3 DEF Pair
  <2>4. p.internalPort \in Nat
    BY DEF Pair
  <2>5. CASE j <= k
    BY <1>1, <1>2, <2>1, <2>2, <2>5
  <2>6. CASE j = k + 1
    BY <1>1, <1>2, <2>1, <2>2, <2>3, <2>4, <2>6
  <2>7. CASE j > k + 1 /\ i # k + 1
    <3>1. /\ j - 1 \in 1..n /\ new[j] = list[j - 1]
      BY <1>1, <1>2, <2>1, <2>7
    <3>2. CASE i <= k
      <4>1. i \in 1..n /\ i <= j - 1 /\ new[i] = list[i]
        BY <1>1, <1>2, <2>1, <2>7, <3>2
      <4> QED BY <2>2, <3>1, <4>1
    <3>3. CASE i > k + 1
      <4>1. i - 1 \in 1..n /\ i - 1 <= j - 1 /\ new[i] = list[i - 1]
        BY <1>1, <1>2, <2>1, <2>7, <3>3
      <4> QED BY <2>2, <3>1, <4>1
    <3> QED BY <1>1, <2>7, <3>2, <3>3
  <2>8. CASE j > k + 1 /\ i = k + 1
    BY <1>1, <1>2, <2>1, <2>3, <2>4, <2>8
  <2> QED BY <1>1, <2>5, <2>6, <2>7, <2>8
<1>7. MembersOf(new) = MembersOf(list) \cup {p}
  <2>1. MembersOf(new) \subseteq MembersOf(list) \cup {p}
    BY <1>1, <1>2, <1>5 DEF MembersOf
  <2>2. ASSUME NEW a \in 1..n PROVE list[a] \in MembersOf(new)
    <3>1. CASE a <= k
      <4>1. a \in 1..(n + 1) /\ new[a] = list[a]
        BY <1>1, <1>2, <3>1
      <4> QED BY <1>5, <4>1 DEF MembersOf
    <3>2. CASE ~(a <= k)
      <4>1. a + 1 \in 1..(n + 1) /\ new[a + 1] = list[a]
        BY <1>1, <1>2, <3>2
      <4> QED BY <1>5, <4>1 DEF MembersOf
    <3> QED BY <3>1, <3>2
  <2>3. p \in MembersOf(new)
    <3>1. k + 1 \in 1..(n + 1) /\ new[k + 1] = p
      BY <1>1, <1>2
    <3> QED BY <1>5, <3>1 DEF MembersOf
  <2> QED BY <2>1, <2>2, <2>3 DEF MembersOf
<1>8. ASSUME \A i \in 1..n : list[i].internalPort <= p.internalPort
      PROVE  new = Append(list, p)
  <2>1. k = n
    <3>1. SUFFICES ASSUME k # n PROVE FALSE
      OBVIOUS
    <3>2. n \in 1..n /\ n \in (k + 1)..n
      BY <1>1, <3>1
    <3>3. list[n].internalPort \in Nat /\ p.internalPort \in Nat
      BY <1>3, <3>2 DEF Pair
    <3> QED BY <1>1, <1>8, <3>2, <3>3
  <2>2. Append(list, p) \in Seq(Pair) /\ Len(Append(list, p)) = n + 1
    OBVIOUS
  <2>3. \A i \in 1..(n + 1) : new[i] = Append(list, p)[i]
    BY <1>1, <1>2, <2>1
  <2> QED BY <1>4, <2>2, <2>3, <1>1
<1> QED BY <1>5, <1>6, <1>7, <1>8 DEF new

(* The sort.                                                               *)
LEMMA SortedBySteps ==
    ASSUME NEW list \in Seq(Pair)
    PROVE  \E f : /\ f = [n \in 0..Len(list) |->
                             IF n = 0 THEN <<>>
                             ELSE InsertPort(f[n - 1], list[n])]
                  /\ Sorted(list) = f[Len(list)]
<1> DEFINE Steps(f) == f = [n \in 0..Len(list) |->
                               IF n = 0 THEN <<>>
                               ELSE InsertPort(f[n - 1], list[n])]
           step == [n \in 1..Len(list) |->
                       [x \in Seq(Pair) |-> InsertPort(x, list[n])]]
<1>1. \E f : Steps(f)
  <2>1. \A n \in 1..Len(list) : list[n] \in Pair
    OBVIOUS
  <2>2. step \in [1..Len(list) -> [Seq(Pair) -> Seq(Pair)]]
    BY <2>1, InsertedPort
  <2>3. <<>> \in Seq(Pair) /\ Len(list) \in Nat
    OBVIOUS
  <2>4. PICK f \in [0..Len(list) -> Seq(Pair)] :
           Recursive(f, Len(list), <<>>, step)
    <3> HIDE DEF step
    <3> QED BY <2>2, <2>3, RecursionUpTo
  <2>5. ASSUME NEW n \in 1..Len(list)
        PROVE  f[n] = InsertPort(f[n - 1], list[n])
    <3>1. f[n - 1] \in Seq(Pair)
      OBVIOUS
    <3> QED BY <2>4, <3>1 DEF Recursive
  <2>6. f = [n \in 0..Len(list) |-> f[n]]
    OBVIOUS
  <2>7. \A n \in 0..Len(list) :
            f[n] = IF n = 0 THEN <<>> ELSE InsertPort(f[n - 1], list[n])
    <3> HIDE DEF step
    <3> QED BY <2>4, <2>5 DEF Recursive
  <2>8. Steps(f)
    BY <2>6, <2>7
  <2> QED BY <2>8
<1>2. Sorted(list) = (CHOOSE f : Steps(f))[Len(list)]
  BY DEF Sorted
<1>3. Steps(CHOOSE f : Steps(f))
  <2> HIDE DEF Steps
  <2> QED BY <1>1
<1> QED BY <1>2, <1>3

(* It orders a list, keeps what is in it, and leaves an ordered one alone. *)
LEMMA SortedList ==
    ASSUME NEW list \in Seq(Pair)
    PROVE  /\ Sorted(list) \in Seq(Pair) /\ Len(Sorted(list)) = Len(list)
           /\ Ascending(Sorted(list))
           /\ MembersOf(Sorted(list)) = MembersOf(list)
           /\ Ascending(list) => Sorted(list) = list
<1>1. PICK f : /\ f = [n \in 0..Len(list) |->
                          IF n = 0 THEN <<>>
                          ELSE InsertPort(f[n - 1], list[n])]
               /\ Sorted(list) = f[Len(list)]
  BY SortedBySteps
<1>2. Len(list) \in Nat /\ DOMAIN list = 1..Len(list)
  OBVIOUS
<1> DEFINE P == {n \in 0..Len(list) :
                    /\ f[n] \in Seq(Pair) /\ Len(f[n]) = n
                    /\ Ascending(f[n])
                    /\ MembersOf(f[n]) = {list[i] : i \in 1..n}
                    /\ Ascending(list) => \A i \in 1..n : f[n][i] = list[i]}
<1>3. 0 \in P
  <2>1. f[0] = <<>>
    BY <1>1, <1>2
  <2>2. f[0] \in Seq(Pair) /\ Len(f[0]) = 0 /\ DOMAIN f[0] = {}
    BY <2>1
  <2>3. Ascending(f[0]) /\ MembersOf(f[0]) = {list[i] : i \in 1..0}
    BY <2>2 DEF Ascending, MembersOf
  <2> QED BY <1>2, <2>2, <2>3
<1>4. ASSUME NEW n \in 1..Len(list), n - 1 \in P PROVE n \in P
  <2>1. /\ f[n - 1] \in Seq(Pair) /\ Len(f[n - 1]) = n - 1
        /\ Ascending(f[n - 1])
        /\ MembersOf(f[n - 1]) = {list[i] : i \in 1..(n - 1)}
        /\ Ascending(list) => \A i \in 1..(n - 1) : f[n - 1][i] = list[i]
    BY <1>4
  <2>2. f[n] = InsertPort(f[n - 1], list[n])
    BY <1>1, <1>2
  <2>3. list[n] \in Pair /\ n \in 0..Len(list) /\ n # 0
    BY <1>2
  <2>4. /\ f[n] \in Seq(Pair) /\ Len(f[n]) = n /\ Ascending(f[n])
        /\ MembersOf(f[n]) = {list[i] : i \in 1..(n - 1)} \cup {list[n]}
    <3>1. /\ f[n] \in Seq(Pair) /\ Len(f[n]) = Len(f[n - 1]) + 1
          /\ Ascending(f[n - 1]) => Ascending(f[n])
          /\ MembersOf(f[n]) = MembersOf(f[n - 1]) \cup {list[n]}
      BY <2>1, <2>2, <2>3, InsertedPort, Zenon
    <3> QED BY <2>1, <3>1
  <2>5. {list[i] : i \in 1..(n - 1)} \cup {list[n]} = {list[i] : i \in 1..n}
    <3>1. 1..n = (1..(n - 1)) \cup {n}
      BY <2>3
    <3> QED BY <3>1
  <2>6. ASSUME Ascending(list), NEW i \in 1..n PROVE f[n][i] = list[i]
    <3>1. \A a \in 1..(n - 1) :
              f[n - 1][a].internalPort <= list[n].internalPort
      <4>1. SUFFICES ASSUME NEW a \in 1..(n - 1)
                     PROVE  list[a].internalPort <= list[n].internalPort
        BY <2>1, <2>6
      <4>2. a \in DOMAIN list /\ n \in DOMAIN list /\ a < n
        BY <1>2
      <4> QED BY <2>6, <4>2 DEF Ascending
    <3>2. f[n] = Append(f[n - 1], list[n])
      BY <2>1, <2>2, <2>3, <3>1, InsertedPort
    <3>3. CASE i = n
      BY <2>1, <3>2, <3>3
    <3>4. CASE i # n
      BY <2>1, <2>6, <3>2, <3>4
    <3> QED BY <3>3, <3>4
  <2> QED BY <2>3, <2>4, <2>5, <2>6
<1>5. Len(list) \in P
  <2> HIDE DEF P
  <2>1. 0..Len(list) \subseteq P
    BY <1>2, <1>3, <1>4, InductionUpTo
  <2> QED BY <1>2, <2>1
<1>6. MembersOf(list) = {list[i] : i \in 1..Len(list)}
  BY <1>2 DEF MembersOf
<1>7. ASSUME Ascending(list) PROVE Sorted(list) = list
  BY <1>1, <1>2, <1>5, <1>7
<1> QED BY <1>1, <1>5, <1>6, <1>7

(* The ports that have a node port.                                        *)
LEMMA PassedOver ==
    ASSUME NEW list \in Seq(Port), NEW p \in Port
    PROVE  PassOver(list, p) \in Seq(Port)
BY DEF PassOver

(* The loop over the ports, round by round.                                *)
LEMMA KeptBySteps ==
    ASSUME NEW service \in Service
    PROVE  \E f \in [0..Len(service.ports) -> Seq(Port)] :
              /\ f[0] = <<>>
              /\ \A n \in 1..Len(service.ports) :
                    f[n] = PassOver(f[n - 1], service.ports[n])
              /\ WithNodePort(service) = f[Len(service.ports)]
<1> DEFINE list == service.ports
           Steps(f) == f = [n \in 0..Len(list) |->
                               IF n = 0 THEN <<>>
                               ELSE PassOver(f[n - 1], list[n])]
           step == [n \in 1..Len(list) |->
                       [x \in Seq(Port) |-> PassOver(x, list[n])]]
           kept == CHOOSE f : Steps(f)
<1>1. list \in Seq(Port)
  BY LocalServicesAssumption DEF Port
<1>2. WithNodePort(service) = kept[Len(list)]
  BY DEF WithNodePort
<1> HIDE DEF list
<1>3. Len(list) \in Nat /\ \A n \in 1..Len(list) : list[n] \in Port
  BY <1>1
<1>4. \E f : Steps(f)
  <2>1. step \in [1..Len(list) -> [Seq(Port) -> Seq(Port)]]
    BY <1>3, PassedOver
  <2>2. <<>> \in Seq(Port)
    OBVIOUS
  <2>3. PICK f \in [0..Len(list) -> Seq(Port)] :
           Recursive(f, Len(list), <<>>, step)
    <3> HIDE DEF step
    <3> QED BY <1>3, <2>1, <2>2, RecursionUpTo
  <2>4. ASSUME NEW n \in 1..Len(list)
        PROVE  f[n] = PassOver(f[n - 1], list[n])
    <3>1. f[n - 1] \in Seq(Port)
      BY <1>3
    <3> QED BY <2>3, <3>1 DEF Recursive
  <2>5. f = [n \in 0..Len(list) |-> f[n]]
    OBVIOUS
  <2>6. \A n \in 0..Len(list) :
            f[n] = IF n = 0 THEN <<>> ELSE PassOver(f[n - 1], list[n])
    <3> HIDE DEF step
    <3> QED BY <1>3, <2>3, <2>4 DEF Recursive
  <2>7. Steps(f)
    BY <2>5, <2>6
  <2> QED BY <2>7
<1>5. Steps(kept)
  <2> HIDE DEF Steps
  <2> QED BY <1>4
<1> HIDE DEF kept
<1>6. kept[0] = <<>> /\ \A n \in 1..Len(list) :
                            kept[n] = PassOver(kept[n - 1], list[n])
  BY <1>3, <1>5
<1> DEFINE P == {n \in 0..Len(list) : kept[n] \in Seq(Port)}
<1>7. 0 \in P
  <2>1. kept[0] \in Seq(Port)
    BY <1>6
  <2> QED BY <1>3, <2>1
<1>8. ASSUME NEW n \in 1..Len(list), n - 1 \in P PROVE n \in P
  <2>1. kept[n - 1] \in Seq(Port) /\ list[n] \in Port
    BY <1>3, <1>8
  <2>2. kept[n] \in Seq(Port) /\ n \in 0..Len(list)
    BY <1>3, <1>6, <2>1, PassedOver
  <2> QED BY <2>2
<1>9. 0..Len(list) \subseteq P
  <2> HIDE DEF P
  <2> QED BY <1>3, <1>7, <1>8, InductionUpTo
<1>10. kept \in [0..Len(list) -> Seq(Port)]
  BY <1>5, <1>9
<1> QED BY <1>2, <1>6, <1>10 DEF list

(* It keeps the ports that have a node port, in the order they are in.     *)
LEMMA KeptPorts ==
    ASSUME NEW service \in Service
    PROVE  LET kept == WithNodePort(service)
           IN  /\ kept \in Seq(Port)
               /\ MembersOf(kept) =
                     {q \in MembersOf(service.ports) : q.nodePort # 0}
               /\ InOrder(service) =>
                     \A i, j \in DOMAIN kept :
                         i < j => kept[i].port <= kept[j].port
<1> DEFINE list == service.ports
<1>1. PICK f \in [0..Len(list) -> Seq(Port)] :
         /\ f[0] = <<>>
         /\ \A n \in 1..Len(list) : f[n] = PassOver(f[n - 1], list[n])
         /\ WithNodePort(service) = f[Len(list)]
  BY KeptBySteps
<1>2. list \in Seq(Port)
  BY LocalServicesAssumption DEF Port
<1>3. InOrder(service) => \A i, j \in 1..Len(list) :
                              i < j => list[i].port <= list[j].port
  BY <1>2 DEF InOrder
<1>4. MembersOf(list) = {list[i] : i \in 1..Len(list)}
  BY <1>2 DEF MembersOf
<1> HIDE DEF list
<1>5. Len(list) \in Nat /\ \A n \in 1..Len(list) : list[n] \in Port
  BY <1>2
<1> DEFINE With(n) == {i \in 1..n : list[i].nodePort > 0}
           Order(x) == \A i, j \in DOMAIN x : i < j => x[i].port <= x[j].port
           P == {n \in 0..Len(list) :
                    /\ MembersOf(f[n]) = {list[i] : i \in With(n)}
                    /\ InOrder(service) => Order(f[n])}
<1>6. 0 \in P
  <2>1. DOMAIN f[0] = {} /\ With(0) = {} /\ 0 \in 0..Len(list)
    BY <1>1, <1>5
  <2> QED BY <2>1 DEF MembersOf
<1>7. ASSUME NEW n \in 1..Len(list), n - 1 \in P PROVE n \in P
  <2>1. /\ MembersOf(f[n - 1]) = {list[i] : i \in With(n - 1)}
        /\ InOrder(service) => Order(f[n - 1])
        /\ f[n - 1] \in Seq(Port) /\ n \in 0..Len(list)
    <3>1. n - 1 \in 0..Len(list) /\ n \in 0..Len(list)
      BY <1>5
    <3>2. f[n - 1] \in Seq(Port)
      <4> HIDE DEF P
      <4> QED BY <1>1, <3>1
    <3> QED BY <1>7, <3>1, <3>2
  <2>2. CASE ~(list[n].nodePort > 0)
    <3>1. f[n] = f[n - 1]
      BY <1>1, <2>2 DEF PassOver
    <3>2. With(n) = With(n - 1)
      BY <2>2
    <3> QED BY <2>1, <3>1, <3>2
  <2>3. CASE list[n].nodePort > 0
    <3> DEFINE x == f[n - 1]
               y == Append(x, list[n])
    <3>1. f[n] = y
      BY <1>1, <2>3 DEF PassOver
    <3>2. With(n) = With(n - 1) \cup {n}
      BY <2>3
    <3> HIDE DEF x
    <3>3. x \in Seq(Port) /\ list[n] \in Port
      BY <1>5, <2>1 DEF x
    <3>4. /\ Len(x) \in Nat /\ DOMAIN x = 1..Len(x)
          /\ DOMAIN y = 1..(Len(x) + 1) /\ y[Len(x) + 1] = list[n]
          /\ \A i \in 1..Len(x) : y[i] = x[i]
      BY <3>3
    <3> HIDE DEF y
    <3>5. MembersOf(y) = MembersOf(x) \cup {list[n]}
      <4>1. 1..(Len(x) + 1) = (1..Len(x)) \cup {Len(x) + 1}
        BY <3>4
      <4> QED BY <3>4, <4>1 DEF MembersOf
    <3>6. MembersOf(f[n]) = {list[i] : i \in With(n)}
      <4> HIDE DEF With
      <4> QED BY <2>1, <3>1, <3>2, <3>5 DEF x
    <3>7. ASSUME InOrder(service), NEW i \in DOMAIN y, NEW j \in DOMAIN y, i < j
          PROVE  y[i].port <= y[j].port
      <4>1. i \in 1..Len(x) /\ y[i] = x[i]
        BY <3>4, <3>7
      <4>2. CASE j \in 1..Len(x)
        <5>1. Order(x) /\ y[j] = x[j]
          BY <2>1, <3>4, <3>7, <4>2 DEF x
        <5> QED BY <3>4, <3>7, <4>1, <4>2, <5>1
      <4>3. CASE j = Len(x) + 1
        <5>1. x[i] \in MembersOf(x)
          BY <3>4, <4>1 DEF MembersOf
        <5>2. PICK k \in With(n - 1) : x[i] = list[k]
          BY <2>1, <5>1 DEF x
        <5>3. k \in 1..Len(list) /\ n \in 1..Len(list) /\ k < n
          BY <1>5
        <5>4. list[k].port <= list[n].port
          BY <1>3, <3>7, <5>3
        <5> QED BY <3>4, <4>1, <4>3, <5>2, <5>4
      <4> QED BY <3>4, <4>2, <4>3
    <3>8. InOrder(service) => Order(f[n])
      BY <3>1, <3>7
    <3> QED BY <2>1, <3>6, <3>8
  <2> QED BY <2>2, <2>3
<1>8. Len(list) \in P
  <2> HIDE DEF P
  <2>1. 0..Len(list) \subseteq P
    BY <1>5, <1>6, <1>7, InductionUpTo
  <2> QED BY <1>5, <2>1
<1>9. {list[i] : i \in With(Len(list))} =
         {q \in MembersOf(list) : q.nodePort # 0}
  BY <1>4, <1>5 DEF Port
<1>10. f[Len(list)] \in Seq(Port)
  BY <1>5
<1> QED BY <1>1, <1>8, <1>9, <1>10 DEF list

(* A Service that has a node port is given ports in both lists.            *)
LEMMA PortListsFilled ==
    ASSUME NEW service \in Service, WithNodePort(service) # <<>>
    PROVE  LET lists == PortLists(service)
           IN  /\ lists.ports \in Seq(Pair) \ {<<>>}
               /\ lists.lbPorts \in Seq(Pair) \ {<<>>}
               /\ InOrder(service) =>
                     MembersOf(lists.ports) = NodePorts(service)
<1> DEFINE given == WithNodePort(service)
           n == Len(given)
           ports == [i \in 1..n |-> PeerPort(given[i].port, given[i].nodePort)]
           last == PeerPort(given[n].port, given[n].port)
           array == Sorted(Append(Sorted(ports), last))
<1>1. PortLists(service) =
         [ports |-> IF Full(n) THEN Sorted(ports) ELSE SubSeq(array, 1, n),
          lbPorts |-> array]
  BY DEF PortLists
<1>2. /\ given \in Seq(Port) /\ given # <<>>
      /\ MembersOf(given) =
            {q \in MembersOf(service.ports) : q.nodePort # 0}
      /\ InOrder(service) => \A i, j \in DOMAIN given :
                                 i < j => given[i].port <= given[j].port
  BY KeptPorts
<1> HIDE DEF given
<1>3. n \in Nat /\ n \in 1..n /\ \A i \in 1..n : given[i] \in Port
  BY <1>2
<1>4. /\ ports \in Seq(Pair) /\ Len(ports) = n /\ last \in Pair
      /\ \A i \in 1..n : ports[i].internalPort = given[i].port
  <2>1. \A i \in 1..n : PeerPort(given[i].port, given[i].nodePort) \in Pair
    BY <1>3 DEF PeerPort, Port, Pair
  <2>2. last \in Pair
    BY <1>3 DEF PeerPort, Port, Pair
  <2>3. \A i \in 1..n : ports[i].internalPort = given[i].port
    BY DEF PeerPort
  <2> QED BY <1>3, <2>1, <2>2, <2>3
<1>5. MembersOf(ports) = {PeerPort(p.port, p.nodePort) : p \in MembersOf(given)}
  <2>1. DOMAIN given = 1..n
    BY <1>2
  <2> QED BY <2>1 DEF MembersOf
<1>6. last.internalPort = given[n].port
  BY DEF PeerPort
<1> HIDE DEF ports, last
<1>7. Sorted(ports) \in Seq(Pair) /\ Len(Sorted(ports)) = n
  BY <1>4, SortedList
<1>8. Append(Sorted(ports), last) \in Seq(Pair)
      /\ Len(Append(Sorted(ports), last)) = n + 1
  BY <1>4, <1>7
<1>9. array \in Seq(Pair) /\ Len(array) = n + 1
  BY <1>8, SortedList
<1>10. ASSUME InOrder(service)
       PROVE  Sorted(ports) = ports /\ array = Append(ports, last)
  <2>1. \A i, j \in 1..n : i < j => given[i].port <= given[j].port
    BY <1>2, <1>10
  <2>2. Ascending(ports)
    BY <1>4, <2>1 DEF Ascending
  <2>3. Sorted(ports) = ports
    BY <1>4, <2>2, SortedList
  <2>4. Ascending(Append(ports, last))
    <3>1. SUFFICES ASSUME NEW i \in 1..(n + 1), NEW j \in 1..(n + 1), i < j
                   PROVE  Append(ports, last)[i].internalPort
                             <= Append(ports, last)[j].internalPort
      BY <1>4 DEF Ascending
    <3>2. i \in 1..n /\ Append(ports, last)[i] = ports[i]
      BY <1>3, <1>4, <3>1
    <3>3. CASE j \in 1..n
      BY <1>4, <2>1, <3>1, <3>2, <3>3
    <3>4. CASE j = n + 1
      <4>1. Append(ports, last)[j].internalPort = given[n].port
        BY <1>4, <1>6, <3>4
      <4>2. given[i].port <= given[n].port
        BY <1>3, <2>1, <3>2 DEF Port
      <4> QED BY <1>4, <3>2, <4>1, <4>2
    <3>5. j \in 1..n \/ j = n + 1
      BY <1>3, <3>1
    <3> QED BY <3>3, <3>4, <3>5
  <2>5. array = Append(ports, last)
    BY <1>8, <2>3, <2>4, SortedList
  <2> QED BY <2>3, <2>5
<1> HIDE DEF array
<1>11. SubSeq(array, 1, n) \in Seq(Pair) /\ Len(SubSeq(array, 1, n)) = n
  BY <1>3, <1>9
<1>12. ASSUME InOrder(service) PROVE SubSeq(array, 1, n) = ports
  <2>1. \A i \in 1..n : SubSeq(array, 1, n)[i] = ports[i]
    BY <1>3, <1>4, <1>10, <1>12
  <2> QED BY <1>4, <1>11, <2>1
<1>13. NodePorts(service) =
          {PeerPort(p.port, p.nodePort) : p \in MembersOf(given)}
  BY <1>2 DEF NodePorts
<1> DEFINE lists == PortLists(service)
<1>14. lists.lbPorts = array /\ lists.ports \in {Sorted(ports), SubSeq(array, 1, n)}
  BY <1>1
<1>15. \A list \in Seq(Pair) : Len(list) \in 1..(n + 1) => list # <<>>
  OBVIOUS
<1>16. lists.ports \in Seq(Pair) \ {<<>>} /\ lists.lbPorts \in Seq(Pair) \ {<<>>}
  BY <1>3, <1>7, <1>9, <1>11, <1>14, <1>15
<1>17. InOrder(service) => MembersOf(lists.ports) = NodePorts(service)
  BY <1>5, <1>10, <1>12, <1>13, <1>14
<1> QED BY <1>16, <1>17

-----------------------------------------------------------------------------
(* Endpoints.                                                              *)

(* A list in the order of the addresses, each endpoint once.               *)
Ordered(list) ==
    /\ \E n \in Nat : DOMAIN list = 1..n
    /\ list = [i \in DOMAIN list |-> list[i]]
    /\ \A i \in DOMAIN list : list[i].ipAddress \in Nat
    /\ \A i, j \in DOMAIN list :
           i < j => /\ list[i] # list[j]
                    /\ list[i].ipAddress <= list[j].ipAddress

(* What the sort by address makes is such a list.                          *)
LEMMA ByAddressOrdered ==
    ASSUME NEW endpoints, IsFiniteSet(endpoints),
           \A e \in endpoints : e.ipAddress \in Nat,
           NEW list \in ByAddress(endpoints)
    PROVE  Ordered(list) /\ list \in Seq(endpoints)
<1>1. Cardinality(endpoints) \in Nat
  BY FS_CardinalityType
<1> QED BY <1>1 DEF ByAddress, Ordered

(* Endpoints can be sorted: the one of the least address comes first.      *)
LEMMA ByAddressFound ==
    ASSUME NEW endpoints, IsFiniteSet(endpoints),
           \A e \in endpoints : e.ipAddress \in Nat
    PROVE  ByAddress(endpoints) # {}
<1> DEFINE size == Cardinality(endpoints)
           P == {n \in 0..size : \A S \in SUBSET endpoints :
                                     Cardinality(S) = n => ByAddress(S) # {}}
<1>1. size \in Nat
  BY FS_CardinalityType
<1>2. 0 \in P
  <2>1. SUFFICES ASSUME NEW S \in SUBSET endpoints, Cardinality(S) = 0
                 PROVE  ByAddress(S) # {}
    BY <1>1
  <2>2. DOMAIN <<>> = 1..Cardinality(S) /\ <<>> \in [1..Cardinality(S) -> S]
    BY <2>1
  <2>3. <<>> \in ByAddress(S)
    BY <2>1, <2>2 DEF ByAddress
  <2> QED BY <2>3
<1>3. ASSUME NEW n \in 1..size, n - 1 \in P PROVE n \in P
  <2>1. SUFFICES ASSUME NEW S \in SUBSET endpoints, Cardinality(S) = n
                 PROVE  ByAddress(S) # {}
    BY <1>1
  <2>2. IsFiniteSet(S) /\ S # {}
    BY <2>1, FS_Subset, FS_EmptySet
  <2> DEFINE addresses == {e.ipAddress : e \in S}
  <2>3. addresses \subseteq Nat /\ addresses # {}
    BY <2>2
  <2>4. PICK low \in addresses : \A a \in addresses : low <= a
    BY <2>3, LeastNatural
  <2>5. PICK e \in S : e.ipAddress = low
    BY <2>4
  <2>6. \A d \in S : e.ipAddress <= d.ipAddress
    BY <2>4, <2>5
  <2>7. Cardinality(S \ {e}) = n - 1
    BY <2>1, <2>2, FS_RemoveElement
  <2>8. ByAddress(S \ {e}) # {}
    BY <1>3, <2>7
  <2>9. PICK rest \in [1..(n - 1) -> S \ {e}] :
           \A i, j \in 1..(n - 1) :
               i < j => /\ rest[i] # rest[j]
                        /\ rest[i].ipAddress <= rest[j].ipAddress
    BY <2>7, <2>8 DEF ByAddress
  <2> DEFINE list == [i \in 1..n |-> IF i = 1 THEN e ELSE rest[i - 1]]
  <2>10. list \in [1..n -> S] /\ DOMAIN list = 1..n
    <3>1. ASSUME NEW i \in 1..n, i # 1 PROVE rest[i - 1] \in S
      <4>1. i - 1 \in 1..(n - 1)
        BY <3>1
      <4> QED BY <2>9, <4>1
    <3> QED BY <3>1
  <2>11. ASSUME NEW i \in 1..n, NEW j \in 1..n, i < j
         PROVE  list[i] # list[j] /\ list[i].ipAddress <= list[j].ipAddress
    <3>1. j - 1 \in 1..(n - 1) /\ list[j] = rest[j - 1]
      BY <2>11
    <3>2. rest[j - 1] \in S \ {e}
      BY <2>9, <3>1
    <3>3. CASE i = 1
      <4>1. list[i] = e
        BY <3>3
      <4> QED BY <2>6, <3>1, <3>2, <4>1
    <3>4. CASE i # 1
      <4>1. i - 1 \in 1..(n - 1) /\ list[i] = rest[i - 1] /\ i - 1 < j - 1
        BY <2>11, <3>4
      <4> QED BY <2>9, <3>1, <4>1
    <3> QED BY <3>3, <3>4
  <2> HIDE DEF list
  <2>12. list \in ByAddress(S)
    BY <2>1, <2>10, <2>11 DEF ByAddress
  <2> QED BY <2>12
<1>4. 0..size \subseteq P
  <2> HIDE DEF P, size
  <2> QED BY <1>1, <1>2, <1>3, InductionUpTo
<1> QED BY <1>1, <1>4

(* The endpoints of nodes and of ingresses.                                *)
LEMMA HostsFinite ==
    ASSUME NEW nodes
    PROVE  IsFiniteSet(EndpointsForHosts(nodes))
<1> DEFINE S == {k \in Node : nodes[k] # Absent}
           T == EndpointsForHosts(nodes)
           f == [n \in S |-> [hostname |-> n, ipAddress |-> nodes[n].address]]
<1>1. IsFiniteSet(S)
  <2>1. S \in SUBSET Node
    OBVIOUS
  <2> QED BY <2>1, LocalServicesAssumption, FS_Subset
<1>2. f \in Surjection(S, T)
  BY DEF EndpointsForHosts, Surjection
<1> QED BY <1>1, <1>2, FS_Surjection

(* The one that is chosen of a load balancer's addresses is one too.       *)
LEMMA IngressesOrdered ==
    ASSUME NEW service \in Service
    PROVE  Ordered(EndpointsForIngresses(service.ingress))
<1> DEFINE S == service.ingress
           T == {[hostname |-> i.hostname, ipAddress |-> i.ip] : i \in S}
           f == [i \in S |-> [hostname |-> i.hostname, ipAddress |-> i.ip]]
<1>1. IsFiniteSet(S) /\ \A e \in T : e.ipAddress \in Nat
  BY LocalServicesAssumption
<1>2. f \in Surjection(S, T)
  BY DEF Surjection
<1>3. IsFiniteSet(T)
  <2> HIDE DEF S, T, f
  <2> QED BY <1>1, <1>2, FS_Surjection
<1>4. EndpointsForIngresses(S) \in ByAddress(T)
  <2>1. EndpointsForIngresses(S) = CHOOSE list \in ByAddress(T) : TRUE
    BY DEF EndpointsForIngresses
  <2> HIDE DEF S, T
  <2> QED BY <1>1, <1>3, <2>1, ByAddressFound
<1> HIDE DEF T
<1> QED BY <1>1, <1>3, <1>4, ByAddressOrdered

=============================================================================
