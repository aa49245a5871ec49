-------------------------- MODULE TopoSort_proofs --------------------------
(***************************************************************************)
(* For every number of nodes and every closed use graph: what the sort     *)
(* pops, and so what its caller gets after the reversal, respects the      *)
(* uses.                                                                   *)
(***************************************************************************)
EXTENDS TopoSort, FiniteSetTheorems, TLAPS

\* Places that use n and have not been crossed off.
Open(n) == UsePlaces(n) \ CrossedPlaces(n)

NodeSet == Elements(nodes)

(* The graphs the sort is proved for.  A name may stand twice in the array *)
(* as long as something uses it.  What is used is a node too, but for the  *)
(* validator, which stops at a name that is not.                           *)
Closed == \A m \in NodeSet : Elements(uses[m]) \subseteq NodeSet
Sortable ==
  /\ \A i, j \in DOMAIN nodes : nodes[i] = nodes[j] => i = j \/ UsePlaces(nodes[i]) /= {}
  /\ Client = "validator" \/ Closed

SeedInv ==
  phase = "seed" =>
    /\ output = <<>> /\ node = NoName
    /\ NodeSet \cup UsedNames \subseteq DOMAIN dependencies
    /\ \A n \in DOMAIN dependencies : dependencies[n] = Cardinality(UsePlaces(n))
    /\ \A i \in DOMAIN stack : \E k \in 1..(next - 1) :
         k <= Len(nodes) /\ stack[i] = nodes[k] /\ dependencies[nodes[k]] = 0
    /\ \A k \in 1..(next - 1) :
         k <= Len(nodes) /\ dependencies[nodes[k]] = 0 => nodes[k] \in Elements(stack)
    /\ Distinct(stack)

SortInv ==
  phase = "sort" =>
    /\ node /= NoName => node \in Elements(output)
    /\ \A m \in NodeSet : \A j \in DOMAIN uses[m] : uses[m][j] \in DOMAIN dependencies
    /\ Elements(stack) \cup Elements(output) \subseteq NodeSet
    /\ \A n \in Elements(stack) \cup Elements(output) : n \in DOMAIN dependencies /\ Open(n) = {}
    /\ \A n \in NodeSet : Open(n) = {} => n \in Elements(stack) \cup Elements(output)
    /\ Distinct(stack) /\ Elements(stack) \cap Elements(output) = {}

IInv ==
  /\ SortTypeOK
  /\ Sortable
  /\ SeedInv
  /\ SortInv
  /\ CountsAreExact
  /\ UsersFirst
  /\ DefinedBeforeUsed

-----------------------------------------------------------------------------
(* Everything that is counted is finite.                                   *)
LEMMA FiniteElements ==
  ASSUME NEW S, NEW s \in Seq(S)
  PROVE  IsFiniteSet(Elements(s))
<1> DEFINE f == [i \in 1..Len(s) |-> s[i]]
<1>1. f \in Surjection(1..Len(s), Elements(s))
  BY DEF Surjection, Elements
<1>2. IsFiniteSet(1..Len(s))
  BY FS_Interval
<1> QED BY <1>1, <1>2, FS_Surjection

LEMMA PlacesMember ==
  ASSUME NEW n, NEW p
  PROVE  p \in UsePlaces(n) <=>
           \E m \in NodeSet : \E j \in DOMAIN uses[m] : uses[m][j] = n /\ p = <<m, j>>
BY DEF UsePlaces, NodeSet

LEMMA FinitePlaces ==
  ASSUME SortTypeOK, NEW n
  PROVE  IsFiniteSet(UsePlaces(n))
<1> DEFINE Of(m) == {<<m, j>> : j \in {k \in DOMAIN uses[m] : uses[m][k] = n}}
           All == {Of(m) : m \in Elements(nodes)}
<1>1. ASSUME NEW m \in Elements(nodes)
      PROVE  IsFiniteSet(Of(m))
  <2>1. uses[m] \in Seq(Names)
    BY <1>1 DEF SortTypeOK, Elements
  <2> DEFINE D == {k \in 1..Len(uses[m]) : uses[m][k] = n}
             g == [k \in D |-> <<m, k>>]
  <2>2. IsFiniteSet(D)
    BY FS_Interval, FS_Subset, <2>1
  <2>3. g \in Surjection(D, Of(m))
    BY <2>1 DEF Surjection
  <2> QED BY <2>2, <2>3, FS_Surjection
<1>2. IsFiniteSet(Elements(nodes))
  BY FiniteElements DEF SortTypeOK
<1> DEFINE h == [m \in Elements(nodes) |-> Of(m)]
<1>3. h \in Surjection(Elements(nodes), All)
  BY DEF Surjection
<1>4. IsFiniteSet(All)
  BY <1>2, <1>3, FS_Surjection
<1>5. \A T \in All : IsFiniteSet(T)
  BY <1>1
<1> QED BY <1>4, <1>5, FS_UNION DEF UsePlaces

(* Only the caller changes the graph.                                      *)
LEMMA SameGraph ==
  ASSUME nodes' = nodes, uses' = uses, Sortable
  PROVE  Sortable' /\ NodeSet' = NodeSet /\ \A n : UsePlaces(n)' = UsePlaces(n)
<1>1. Elements(nodes)' = Elements(nodes)
  BY DEF Elements
<1>2. \A n : UsePlaces(n)' = UsePlaces(n)
  BY <1>1 DEF UsePlaces
<1>3. Closed' <=> Closed
  BY <1>1 DEF Closed, NodeSet, Elements
<1>4. Sortable'
  BY <1>2, <1>3 DEF Sortable
<1> QED BY <1>1, <1>2, <1>4 DEF NodeSet

-----------------------------------------------------------------------------
(* The two counting loops keep the invariant.                              *)
LEMMA InitInv == ClosedInit => IInv
<1>1. ClosedGraph => Sortable
  BY DEF ClosedGraph, Sortable, Closed, NodeSet, Distinct
<1> QED BY <1>1 DEF ClosedInit, SortInit, IInv, SortTypeOK, SortPhases, SeedInv, SortInv,
                    CountsAreExact, UsersFirst, DefinedBeforeUsed

LEMMA CountUsesInv == IInv /\ CountUses => IInv'
<1> SUFFICES ASSUME IInv, CountUses PROVE IInv'
  OBVIOUS
<1> USE DEF IInv, CountUses
<1>1. SortTypeOK'
  <2>1. Elements(nodes) \cup UsedNames \subseteq Names
    BY DEF SortTypeOK, UsedNames, Elements
  <2>2. \A n : Cardinality(UsePlaces(n)) \in Int
    BY FinitePlaces, FS_CardinalityType
  <2> QED BY <2>1, <2>2, NoNameAssumption DEF SortTypeOK, SortPhases
<1>2. Sortable' /\ NodeSet' = NodeSet /\ \A n : UsePlaces(n)' = UsePlaces(n)
  BY SameGraph
<1>3. UsedNames' = UsedNames
  BY DEF UsedNames, Elements
<1>4. SeedInv'
  BY <1>2, <1>3 DEF SeedInv, NodeSet, Distinct, Elements
<1> QED BY <1>1, <1>2, <1>4
     DEF NodeSet, Elements, SortInv, CountsAreExact, UsersFirst, DefinedBeforeUsed

LEMMA SeedStepInv == IInv /\ Seed => IInv'
<1> SUFFICES ASSUME IInv, Seed PROVE IInv'
  OBVIOUS
<1>1. /\ SortTypeOK /\ SeedInv /\ Sortable
      /\ phase = "seed" /\ next <= Len(nodes) /\ next \in Nat \ {0} /\ next' = next + 1
      /\ nodes' = nodes /\ uses' = uses /\ dependencies' = dependencies
      /\ output' = output /\ node' = node /\ phase' = phase
  BY DEF IInv, Seed, SortTypeOK
<1>2. Sortable' /\ NodeSet' = NodeSet /\ \A n : UsePlaces(n)' = UsePlaces(n)
  BY <1>1, SameGraph
<1>3. nodes[next] \in Names
  BY <1>1 DEF SortTypeOK
<1>4. SortTypeOK'
  BY <1>1, <1>3 DEF SortTypeOK, Seed
<1> DEFINE At(s, d, i, k) == k <= Len(nodes) /\ s[i] = nodes[k] /\ d[nodes[k]] = 0
<1>5. \A i \in DOMAIN stack : \E k \in 1..(next - 1) : At(stack, dependencies, i, k)
  BY <1>1 DEF SeedInv
<1>9. \A k \in 1..next :
        k <= Len(nodes) /\ dependencies[nodes[k]] = 0 => nodes[k] \in Elements(stack')
  <2>1. Elements(stack) \subseteq Elements(stack')
    <3>1. stack \in Seq(Names) /\ (stack' = stack \/ stack' = Append(stack, nodes[next]))
      BY <1>1 DEF Seed, SortTypeOK
    <3>2. \A i \in DOMAIN stack : i \in DOMAIN stack' /\ stack'[i] = stack[i]
      BY <3>1, <1>3
    <3> QED BY <3>2 DEF Elements
  <2>2. dependencies[nodes[next]] = 0 => nodes[next] \in Elements(stack')
    <3> SUFFICES ASSUME dependencies[nodes[next]] = 0 PROVE nodes[next] \in Elements(stack')
      OBVIOUS
    <3>1. stack' = Append(stack, nodes[next]) /\ stack \in Seq(Names)
      BY <1>1 DEF Seed, SortTypeOK
    <3>2. Len(stack) + 1 \in DOMAIN stack' /\ stack'[Len(stack) + 1] = nodes[next]
      BY <3>1, <1>3
    <3> QED BY <3>2 DEF Elements
  <2>3. \A k \in 1..next : k \in 1..(next - 1) \/ k = next
    BY <1>1
  <2> QED BY <2>1, <2>2, <2>3, <1>1 DEF SeedInv
<1>6. Distinct(stack') /\ \A i \in DOMAIN stack' : \E k \in 1..next : At(stack', dependencies, i, k)
  <2>1. CASE dependencies[nodes[next]] /= 0
    <3>1. stack' = stack
      BY <2>1 DEF Seed
    <3> QED BY <3>1, <1>1, <1>5 DEF SeedInv
  <2>2. CASE dependencies[nodes[next]] = 0
    <3>1. stack' = Append(stack, nodes[next]) /\ stack \in Seq(Names)
      BY <2>2, <1>1 DEF Seed, SortTypeOK
    <3>2. ASSUME NEW i \in DOMAIN stack
          PROVE  stack[i] /= nodes[next]
      <4>1. PICK k \in 1..(next - 1) : At(stack, dependencies, i, k)
        BY <1>5
      <4>2. nodes[k] /= nodes[next]
        <5>1. k \in DOMAIN nodes /\ next \in DOMAIN nodes /\ k /= next
          BY <1>1, <4>1 DEF SortTypeOK
        <5>2. UsePlaces(nodes[next]) = {}
          <6>1. nodes[next] \in DOMAIN dependencies
            BY <5>1, <1>1 DEF SeedInv, NodeSet, Elements
          <6>2. Cardinality(UsePlaces(nodes[next])) = 0
            BY <6>1, <1>1, <2>2 DEF SeedInv
          <6> QED BY <6>2, <1>1, FinitePlaces, FS_EmptySet
        <5> QED BY <5>1, <5>2, <1>1 DEF Sortable
      <4> QED BY <4>1, <4>2
    <3>3. DOMAIN stack' = 1..(Len(stack) + 1) /\ DOMAIN stack = 1..Len(stack)
          /\ stack'[Len(stack) + 1] = nodes[next] /\ \A i \in DOMAIN stack : stack'[i] = stack[i]
      BY <3>1, <1>3
    <3>4. Distinct(stack')
      BY <3>1, <3>2, <3>3, <1>1 DEF Distinct, SeedInv
    <3>5. \A i \in DOMAIN stack' : \E k \in 1..next : At(stack', dependencies, i, k)
      <4>1. ASSUME NEW i \in DOMAIN stack
            PROVE  \E k \in 1..next : At(stack', dependencies, i, k)
        <5>1. PICK k \in 1..(next - 1) : At(stack, dependencies, i, k)
          BY <1>5
        <5>2. k \in 1..next /\ At(stack', dependencies, i, k)
          BY <5>1, <3>3, <1>1
        <5> QED BY <5>2
      <4>2. At(stack', dependencies, Len(stack) + 1, next) /\ next \in 1..next
        BY <3>3, <1>1, <2>2
      <4>3. \A i \in DOMAIN stack' : i \in DOMAIN stack \/ i = Len(stack) + 1
        BY <3>3, <3>1
      <4> QED BY <4>1, <4>2, <4>3
    <3> QED BY <3>4, <3>5
  <2> QED BY <2>1, <2>2
<1>7. UsedNames' = UsedNames
  BY <1>1 DEF UsedNames, Elements
<1>8. SeedInv'
  <2>1. next' - 1 = next
    BY <1>1
  <2> QED BY <2>1, <1>1, <1>2, <1>6, <1>7, <1>9 DEF SeedInv
<1> QED BY <1>1, <1>2, <1>4, <1>8 DEF IInv, SortInv, CountsAreExact, UsersFirst, DefinedBeforeUsed

LEMMA SeedDoneInv == IInv /\ SeedDone => IInv'
<1> SUFFICES ASSUME IInv, SeedDone PROVE IInv'
  OBVIOUS
<1>1. /\ SortTypeOK /\ SeedInv /\ Sortable
      /\ phase = "seed" /\ phase' = "sort" /\ next' = 1
      /\ nodes' = nodes /\ uses' = uses /\ dependencies' = dependencies
      /\ output' = output /\ node' = node /\ stack' = stack
      /\ output = <<>> /\ node = NoName
  BY DEF IInv, SeedDone, SeedInv
<1>2. Sortable' /\ NodeSet' = NodeSet /\ \A n : UsePlaces(n)' = UsePlaces(n)
  BY <1>1, SameGraph
<1>3. SortTypeOK'
  BY <1>1 DEF SortTypeOK, SortPhases
<1>4. \A n : CrossedPlaces(n)' = {}
  <2>1. Elements(output)' = {}
    BY <1>1 DEF Elements
  <2>2. ASSUME NEW n, NEW p \in UsePlaces(n) PROVE p[1] /= NoName
    <3>1. PICK m \in NodeSet : \E j \in DOMAIN uses[m] : p = <<m, j>>
      BY PlacesMember
    <3>2. m \in Names
      BY <1>1 DEF NodeSet, Elements, SortTypeOK
    <3> QED BY <3>1, <3>2, NoNameAssumption
  <2> QED BY <1>1, <1>2, <2>1, <2>2 DEF CrossedPlaces, Popped
<1>5. ASSUME NEW n \in Elements(stack)
      PROVE  n \in NodeSet /\ n \in DOMAIN dependencies /\ UsePlaces(n) = {}
  <2>1. PICK i \in DOMAIN stack : stack[i] = n
    BY DEF Elements
  <2>2. PICK k \in 1..(next - 1) : k <= Len(nodes) /\ n = nodes[k] /\ dependencies[n] = 0
    BY <1>1, <2>1 DEF SeedInv
  <2>3. n \in NodeSet
    BY <2>2, <1>1 DEF NodeSet, Elements, SortTypeOK
  <2>4. n \in DOMAIN dependencies /\ dependencies[n] = Cardinality(UsePlaces(n))
    BY <2>3, <1>1 DEF SeedInv
  <2> QED BY <2>2, <2>3, <2>4, <1>1, FinitePlaces, FS_EmptySet
<1>6. \A m \in NodeSet : \A j \in DOMAIN uses[m] : uses[m][j] \in DOMAIN dependencies
  <2> SUFFICES ASSUME NEW m \in NodeSet, NEW j \in DOMAIN uses[m]
               PROVE  uses[m][j] \in DOMAIN dependencies
    OBVIOUS
  <2>1. uses[m][j] \in UsedNames
    BY DEF UsedNames, NodeSet, Elements
  <2> QED BY <2>1, <1>1 DEF SeedInv
<1>7. Elements(stack') = Elements(stack) /\ Elements(output') = {} /\ Distinct(stack')
  BY <1>1 DEF Elements, SeedInv
<1>11. ASSUME NEW n \in NodeSet, UsePlaces(n) = {}
       PROVE  n \in Elements(stack)
  <2>1. PICK k \in DOMAIN nodes : n = nodes[k]
    BY DEF NodeSet, Elements
  <2>2. n \in DOMAIN dependencies /\ dependencies[n] = 0
    BY <1>1, <1>11, FS_EmptySet DEF SeedInv
  <2>3. k \in 1..(next - 1) /\ k <= Len(nodes)
    BY <2>1 DEF SeedDone, IInv, SortTypeOK
  <2> QED BY <2>1, <2>2, <2>3, <1>1 DEF SeedInv
<1>12. \A n : Open(n)' = UsePlaces(n)
  BY <1>2, <1>4 DEF Open
<1>8. SortInv'
  BY <1>1, <1>2, <1>5, <1>6, <1>7, <1>11, <1>12 DEF SortInv
<1>9. CountsAreExact'
  BY <1>1, <1>2, <1>4 DEF CountsAreExact, SeedInv
<1>10. UsersFirst'
  BY <1>1 DEF UsersFirst
<1> QED BY <1>1, <1>2, <1>3, <1>8, <1>9, <1>10 DEF IInv, SeedInv, DefinedBeforeUsed

-----------------------------------------------------------------------------
(* The main loop.                                                          *)

\* What the main loop's steps share.
LEMMA InLoop ==
  ASSUME IInv, phase = "sort", nodes' = nodes, uses' = uses
  PROVE  /\ SortTypeOK /\ Sortable /\ SortInv /\ CountsAreExact /\ UsersFirst
         /\ Sortable' /\ NodeSet' = NodeSet /\ \A n : UsePlaces(n)' = UsePlaces(n)
         /\ NodeSet \subseteq Names /\ NoName \notin NodeSet
         /\ Elements(output) \subseteq NodeSet /\ Elements(stack) \subseteq NodeSet
<1>1. SortTypeOK /\ Sortable /\ SortInv /\ CountsAreExact /\ UsersFirst
  BY DEF IInv
<1>2. NodeSet \subseteq Names
  BY <1>1 DEF NodeSet, Elements, SortTypeOK
<1> QED BY <1>1, <1>2, SameGraph, NoNameAssumption DEF SortInv

LEMMA PopInv == IInv /\ Pop => IInv'
<1> SUFFICES ASSUME IInv, Pop PROVE IInv'
  OBVIOUS
<1> DEFINE m == stack[Len(stack)]
<1>1. /\ phase = "sort" /\ phase' = "sort" /\ node = NoName /\ stack /= <<>>
      /\ nodes' = nodes /\ uses' = uses /\ dependencies' = dependencies
      /\ node' = m /\ stack' = SubSeq(stack, 1, Len(stack) - 1)
      /\ output' = Append(output, m) /\ next' = 1
  BY DEF Pop, Below
<1>2. /\ SortTypeOK /\ Sortable /\ SortInv /\ CountsAreExact /\ UsersFirst
      /\ Sortable' /\ NodeSet' = NodeSet /\ \A n : UsePlaces(n)' = UsePlaces(n)
      /\ NodeSet \subseteq Names /\ NoName \notin NodeSet
      /\ Elements(output) \subseteq NodeSet /\ Elements(stack) \subseteq NodeSet
  BY <1>1, InLoop
<1>3. /\ stack \in Seq(Names) /\ output \in Seq(Names) /\ Len(stack) \in 1..Len(stack)
      /\ DOMAIN stack = 1..Len(stack)
  BY <1>1, <1>2 DEF SortTypeOK
<1>4. m \in Elements(stack) /\ m \in NodeSet /\ m \in Names /\ m \notin Elements(output) /\ Open(m) = {}
  <2>1. m \in Elements(stack)
    BY <1>3 DEF Elements
  <2> QED BY <2>1, <1>1, <1>2 DEF SortInv
<1>5. SortTypeOK'
  BY <1>1, <1>2, <1>3, <1>4 DEF SortTypeOK, SortPhases
<1>6. Elements(stack') = Elements(stack) \ {m} /\ Distinct(stack')
  <2>1. /\ DOMAIN stack' = 1..(Len(stack) - 1)
        /\ \A i \in DOMAIN stack' : i \in DOMAIN stack /\ i /= Len(stack) /\ stack'[i] = stack[i]
    BY <1>1, <1>3
  <2>2. \A i, j \in DOMAIN stack : stack[i] = stack[j] => i = j
    BY <1>1, <1>2 DEF SortInv, Distinct
  <2> QED BY <2>1, <2>2, <1>3 DEF Elements, Distinct
<1>7. /\ DOMAIN output' = 1..(Len(output) + 1) /\ DOMAIN output = 1..Len(output)
      /\ output'[Len(output) + 1] = m /\ \A i \in DOMAIN output : output'[i] = output[i]
  BY <1>1, <1>3, <1>4
<1>8. Elements(output') = Elements(output) \cup {m}
  BY <1>7, <1>3 DEF Elements
<1>9. \A n : CrossedPlaces(n)' = CrossedPlaces(n)
  <2> SUFFICES ASSUME NEW n, NEW p \in UsePlaces(n)
               PROVE  (p[1] \in Popped' \/ (p[1] = m /\ p[2] < 1))
                        <=> (p[1] \in Popped \/ (p[1] = NoName /\ p[2] < next))
    BY <1>1, <1>2 DEF CrossedPlaces
  <2>1. PICK u \in NodeSet : \E j \in DOMAIN uses[u] : p = <<u, j>>
    BY PlacesMember
  <2>2. uses[u] \in Seq(Names)
    BY <1>2 DEF SortTypeOK
  <2>3. p[1] = u /\ p[2] \in 1..Len(uses[u])
    BY <2>1, <2>2
  <2>4. Popped' = Elements(output) /\ Popped = Elements(output)
    BY <1>1, <1>2, <1>4, <1>8 DEF Popped
  <2> QED BY <2>2, <2>3, <2>4, <1>2
<1>10. \A n : Open(n)' = Open(n)
  BY <1>2, <1>9 DEF Open
<1>11. SortInv'
  BY <1>1, <1>2, <1>4, <1>6, <1>8, <1>10 DEF SortInv
<1>12. CountsAreExact'
  BY <1>1, <1>2, <1>10 DEF CountsAreExact, Open
<1>13. UsersFirst'
  <2> SUFFICES ASSUME NEW i \in DOMAIN output', NEW u \in NodeSet, output'[i] \in Elements(uses[u])
               PROVE  \E k \in 1..(i - 1) : output'[k] = u
    BY <1>1, <1>2 DEF UsersFirst, NodeSet
  <2>1. CASE i \in DOMAIN output
    <3>1. PICK k \in 1..(i - 1) : output[k] = u
      BY <2>1, <1>1, <1>2, <1>7 DEF UsersFirst, NodeSet
    <3> QED BY <3>1, <2>1, <1>7
  <2>2. CASE i = Len(output) + 1
    <3>1. PICK j \in DOMAIN uses[u] : uses[u][j] = m
      BY <2>2, <1>7 DEF Elements
    <3>2. <<u, j>> \in UsePlaces(m)
      BY <3>1, PlacesMember
    <3>3. <<u, j>> \in CrossedPlaces(m)
      BY <3>2, <1>4 DEF Open
    <3>4. u \in Elements(output)
      BY <3>3, <1>1, <1>2 DEF CrossedPlaces, Popped
    <3>5. PICK k \in DOMAIN output : output[k] = u
      BY <3>4 DEF Elements
    <3> QED BY <3>5, <2>2, <1>7, <1>3
  <2> QED BY <2>1, <2>2, <1>7, <1>3
<1> QED BY <1>1, <1>2, <1>5, <1>11, <1>12, <1>13 DEF IInv, SeedInv, DefinedBeforeUsed

LEMMA CrossOffInv == IInv /\ CrossOff => IInv'
<1> SUFFICES ASSUME IInv, CrossOff PROVE IInv'
  OBVIOUS
<1>0. PICK n, q : n = uses[node][next] /\ q = <<node, next>>
  OBVIOUS
<1>1. /\ phase = "sort" /\ node /= NoName /\ next <= Len(uses[node])
      /\ nodes' = nodes /\ uses' = uses /\ output' = output /\ node' = node
  BY DEF CrossOff
<1>2. /\ SortTypeOK /\ Sortable /\ SortInv /\ CountsAreExact /\ UsersFirst
      /\ Sortable' /\ NodeSet' = NodeSet /\ \A k : UsePlaces(k)' = UsePlaces(k)
      /\ NodeSet \subseteq Names /\ NoName \notin NodeSet
      /\ Elements(output) \subseteq NodeSet /\ Elements(stack) \subseteq NodeSet
  BY <1>1, InLoop
<1>3. /\ node \in Elements(output) /\ node \in NodeSet /\ uses[node] \in Seq(Names)
      /\ next \in DOMAIN uses[node] /\ next \in Nat \ {0}
  BY <1>1, <1>2 DEF SortInv, SortTypeOK
<1>4. n \in DOMAIN dependencies /\ n \in Names
  <2>1. n \in DOMAIN dependencies
    BY <1>0, <1>1, <1>2, <1>3 DEF SortInv
  <2> QED BY <2>1, <1>2 DEF SortTypeOK
<1> DEFINE Stops == dependencies[n] = 1 /\ Client = "validator" /\ n \notin NodeSet
<1>5. /\ phase' = (IF Stops THEN "crash" ELSE "sort") /\ next' = next + 1
      /\ dependencies' = [dependencies EXCEPT ![n] = @ - 1]
      /\ stack' = IF dependencies[n] = 1 /\ ~Stops THEN Append(stack, n) ELSE stack
  BY <1>0, <1>1, <1>4 DEF CrossOff, LastUse, NodeSet
<1>20. dependencies[n] = 1 /\ ~Stops => n \in NodeSet
  <2>1. Client = "validator" \/ n \in NodeSet
    BY <1>0, <1>2, <1>3 DEF Sortable, Closed, Elements
  <2> QED BY <2>1
<1> HIDE DEF Stops
<1>6. SortTypeOK'
  BY <1>1, <1>2, <1>4, <1>5 DEF SortTypeOK, SortPhases
<1>7. q \in UsePlaces(n) /\ \A k : q \in UsePlaces(k) => k = n
  BY <1>0, <1>3, PlacesMember
<1>8. Popped' = Popped /\ node \notin Popped
  BY <1>1 DEF Popped, Elements
<1>9. \A k : CrossedPlaces(k)' = CrossedPlaces(k) \cup ({q} \cap UsePlaces(k))
  <2> SUFFICES ASSUME NEW k, NEW p \in UsePlaces(k)
               PROVE  (p[1] \in Popped \/ (p[1] = node /\ p[2] < next + 1))
                        <=> (p[1] \in Popped \/ (p[1] = node /\ p[2] < next) \/ p = q)
    BY <1>1, <1>2, <1>5, <1>8 DEF CrossedPlaces
  <2>1. PICK u \in NodeSet : \E j \in DOMAIN uses[u] : p = <<u, j>>
    BY PlacesMember
  <2>2. uses[u] \in Seq(Names)
    BY <1>2 DEF SortTypeOK
  <2>3. p = <<p[1], p[2]>> /\ p[2] \in Nat
    BY <2>1, <2>2
  <2> QED BY <2>3, <1>0, <1>3
<1>10. Open(n)' = Open(n) \ {q} /\ q \in Open(n)
  <2>1. q \notin CrossedPlaces(n)
    BY <1>0, <1>3, <1>8 DEF CrossedPlaces
  <2> QED BY <2>1, <1>2, <1>7, <1>9 DEF Open
<1>11. \A k : k /= n => Open(k)' = Open(k)
  BY <1>2, <1>7, <1>9 DEF Open
<1>12. \A k : IsFiniteSet(Open(k))
  BY <1>2, FinitePlaces, FS_Subset DEF Open
<1>13. Cardinality(Open(n)') = Cardinality(Open(n)) - 1 /\ IsFiniteSet(Open(n)')
  BY <1>10, <1>12, FS_RemoveElement
<1>14. dependencies[n] = Cardinality(Open(n))
  BY <1>1, <1>2, <1>4 DEF CountsAreExact, Open
<1>15. CountsAreExact'
  <2> SUFFICES ASSUME NEW k \in DOMAIN dependencies PROVE dependencies'[k] = Cardinality(Open(k)')
    BY <1>5 DEF CountsAreExact, Open
  <2>1. CASE k = n
    BY <2>1, <1>5, <1>13, <1>14, <1>4
  <2>2. CASE k /= n
    BY <2>2, <1>1, <1>2, <1>5, <1>11 DEF CountsAreExact, Open
  <2> QED BY <2>1, <2>2
<1>16. n \notin Elements(stack) /\ n \notin Elements(output)
  BY <1>1, <1>2, <1>10 DEF SortInv
<1>17. dependencies[n] = 1 => Open(n)' = {}
  BY <1>13, <1>14, FS_EmptySet
<1>18. SortInv'
  <2>0. CASE Stops
    BY <2>0, <1>5 DEF SortInv
  <2>4. Open(n)' = {} => dependencies[n] = 1
    <3> SUFFICES ASSUME Open(n)' = {} PROVE dependencies[n] = 1
      OBVIOUS
    <3>1. Cardinality(Open(n)') = 0
      BY FS_EmptySet
    <3>2. dependencies[n] \in Int
      BY <1>2, <1>4 DEF SortTypeOK
    <3> QED BY <3>1, <3>2, <1>13, <1>14
  <2>5. \A k \in NodeSet : k /= n /\ Open(k)' = {} => k \in Elements(stack) \cup Elements(output)
    BY <1>1, <1>2, <1>11 DEF SortInv
  <2>1. Elements(output') = Elements(output) /\ DOMAIN dependencies' = DOMAIN dependencies
    BY <1>1, <1>5
  <2>2. CASE dependencies[n] = 1 /\ ~Stops
    <3>1. /\ DOMAIN stack' = 1..(Len(stack) + 1) /\ DOMAIN stack = 1..Len(stack)
          /\ stack'[Len(stack) + 1] = n /\ \A i \in DOMAIN stack : stack'[i] = stack[i]
      BY <2>2, <1>2, <1>4, <1>5 DEF SortTypeOK
    <3>2. Elements(stack') = Elements(stack) \cup {n}
      <4>0. \A i \in DOMAIN stack' : i \in DOMAIN stack \/ i = Len(stack) + 1
        BY <3>1, <1>2 DEF SortTypeOK
      <4>1. \A i \in DOMAIN stack' : stack'[i] \in Elements(stack) \cup {n}
        BY <4>0, <3>1 DEF Elements
      <4>2. \A i \in DOMAIN stack : i \in DOMAIN stack' /\ stack[i] = stack'[i]
        BY <3>1, <1>2 DEF SortTypeOK
      <4>3. Len(stack) + 1 \in DOMAIN stack'
        BY <3>1, <1>2 DEF SortTypeOK
      <4> QED BY <4>1, <4>2, <4>3, <3>1 DEF Elements
    <3>3. Distinct(stack')
      BY <3>1, <1>1, <1>2, <1>16 DEF SortInv, Distinct, Elements
    <3>4. \A k \in Elements(stack') \cup Elements(output') : k \in DOMAIN dependencies /\ Open(k)' = {}
      BY <3>2, <2>1, <2>2, <1>1, <1>2, <1>4, <1>11, <1>16, <1>17 DEF SortInv
    <3> QED BY <3>2, <3>3, <3>4, <2>1, <2>2, <2>5, <1>1, <1>2, <1>3, <1>4, <1>16, <1>20 DEF SortInv
  <2>3. CASE dependencies[n] /= 1
    <3>1. stack' = stack
      BY <2>3, <1>5
    <3>2. \A k \in Elements(stack) \cup Elements(output) : Open(k)' = {}
      BY <1>1, <1>2, <1>11, <1>16 DEF SortInv
    <3> QED BY <3>1, <3>2, <2>1, <2>3, <2>4, <2>5, <1>1, <1>2, <1>3 DEF SortInv
  <2> QED BY <2>0, <2>2, <2>3
<1>19. UsersFirst'
  BY <1>1, <1>2 DEF UsersFirst, Elements
<1> QED BY <1>1, <1>2, <1>5, <1>6, <1>15, <1>18, <1>19 DEF IInv, SeedInv, DefinedBeforeUsed

LEMMA CrossedOffInv == IInv /\ CrossedOff => IInv'
<1> SUFFICES ASSUME IInv, CrossedOff PROVE IInv'
  OBVIOUS
<1>1. /\ phase = "sort" /\ phase' = "sort" /\ node /= NoName /\ next > Len(uses[node])
      /\ nodes' = nodes /\ uses' = uses /\ output' = output /\ node' = NoName
      /\ stack' = stack /\ dependencies' = dependencies /\ next' = next
  BY DEF CrossedOff
<1>2. /\ SortTypeOK /\ Sortable /\ SortInv /\ CountsAreExact /\ UsersFirst
      /\ Sortable' /\ NodeSet' = NodeSet /\ \A k : UsePlaces(k)' = UsePlaces(k)
      /\ NodeSet \subseteq Names /\ NoName \notin NodeSet
      /\ Elements(output) \subseteq NodeSet /\ Elements(stack) \subseteq NodeSet
  BY <1>1, InLoop
<1>3. SortTypeOK'
  BY <1>1, <1>2 DEF SortTypeOK
<1>4. Popped' = Elements(output) /\ Popped = Elements(output) \ {node} /\ node \in Elements(output)
  BY <1>1, <1>2 DEF Popped, Elements, SortInv
<1>5. \A k : CrossedPlaces(k)' = CrossedPlaces(k)
  <2> SUFFICES ASSUME NEW k, NEW p \in UsePlaces(k)
               PROVE  (p[1] \in Elements(output) \/ (p[1] = NoName /\ p[2] < next))
                        <=> (p[1] \in Popped \/ (p[1] = node /\ p[2] < next))
    BY <1>1, <1>2, <1>4 DEF CrossedPlaces
  <2>1. PICK u \in NodeSet : \E j \in DOMAIN uses[u] : p = <<u, j>>
    BY PlacesMember
  <2>2. uses[u] \in Seq(Names) /\ next \in Nat
    BY <1>2 DEF SortTypeOK
  <2>3. p[1] = u /\ p[2] \in 1..Len(uses[u])
    BY <2>1, <2>2
  <2> QED BY <2>2, <2>3, <1>1, <1>2, <1>4
<1>6. \A k : Open(k)' = Open(k)
  BY <1>2, <1>5 DEF Open
<1>7. SortInv' /\ CountsAreExact' /\ UsersFirst'
  <2>1. Elements(stack') = Elements(stack) /\ Elements(output') = Elements(output)
    BY <1>1
  <2>2. SortInv'
    BY <1>1, <1>2, <1>6, <2>1 DEF SortInv
  <2>3. CountsAreExact'
    BY <1>1, <1>2, <1>6 DEF CountsAreExact, Open
  <2>4. UsersFirst'
    BY <1>1, <1>2 DEF UsersFirst, Elements
  <2> QED BY <2>2, <2>3, <2>4
<1> QED BY <1>1, <1>2, <1>3, <1>7 DEF IInv, SeedInv, DefinedBeforeUsed

LEMMA FinishInv == IInv /\ Finish => IInv'
<1> SUFFICES ASSUME IInv, Finish PROVE IInv'
  OBVIOUS
<1>1. /\ phase = "sort" /\ node = NoName /\ stack = <<>>
      /\ nodes' = nodes /\ uses' = uses /\ node' = node
      /\ stack' = stack /\ dependencies' = dependencies /\ next' = next
  BY DEF Finish, Complete
<1>2. SortTypeOK /\ Sortable /\ SortInv /\ UsersFirst /\ Sortable' /\ NodeSet' = NodeSet
  BY <1>1, InLoop
<1>3. output \in Seq(Names)
  BY <1>2 DEF SortTypeOK
<1>4. CASE Len(output) = Len(nodes)
  <2>1. phase' = "sorted" /\ output' = Reversed(output)
    BY <1>4 DEF Finish, Complete
  <2>2. /\ output' \in Seq(Names) /\ Len(output') = Len(output) /\ DOMAIN output' = 1..Len(output)
        /\ \A i \in 1..Len(output) : output'[i] = output[Len(output) + 1 - i]
    BY <2>1, <1>3 DEF Reversed
  <2>3. SortTypeOK'
    BY <1>1, <1>2, <2>1, <2>2 DEF SortTypeOK, SortPhases
  <2>4. DefinedBeforeUsed'
    <3> SUFFICES ASSUME NEW i \in DOMAIN output', NEW u \in NodeSet, output'[i] \in Elements(uses[u])
                 PROVE  \E k \in (i + 1)..Len(output') : output'[k] = u
      BY <1>1, <1>2, <2>1 DEF DefinedBeforeUsed, NodeSet
    <3>1. PICK len, r : len = Len(output) /\ r = Len(output) + 1 - i
      OBVIOUS
    <3>2. len \in Nat /\ i \in 1..len /\ r \in 1..len /\ i = len + 1 - r
      BY <3>1, <2>2, <1>3
    <3>3. r \in DOMAIN output /\ output[r] = output'[i]
      BY SMTT(30), <3>1, <3>2, <2>2, <1>3
    <3>4. PICK j \in 1..(r - 1) : output[j] = u
      BY <3>3, <1>1, <1>2 DEF UsersFirst, NodeSet
    <3>5. PICK k : k = len + 1 - j
      OBVIOUS
    <3>6. k \in (i + 1)..len /\ k \in 1..len /\ len + 1 - k = j
      BY <3>2, <3>4, <3>5
    <3>7. output'[k] = output[len + 1 - k] /\ Len(output') = len
      BY <3>1, <3>6, <2>2
    <3> QED BY <3>4, <3>6, <3>7
  <2> QED BY <1>1, <1>2, <2>1, <2>3, <2>4 DEF IInv, SeedInv, SortInv, CountsAreExact, UsersFirst
<1>5. CASE Len(output) /= Len(nodes)
  <2>1. phase' \in {"crash", "incomplete"} /\ (output' = output \/ output' = Reversed(output))
    BY <1>5 DEF Finish, Complete
  <2>2. output' \in Seq(Names)
    BY <2>1, <1>3 DEF Reversed
  <2>3. SortTypeOK'
    BY <1>1, <1>2, <2>1, <2>2 DEF SortTypeOK, SortPhases
  <2> QED BY <1>1, <1>2, <2>1, <2>3
         DEF IInv, SeedInv, SortInv, CountsAreExact, UsersFirst, DefinedBeforeUsed
<1> QED BY <1>4, <1>5

LEMMA StutterInv == IInv /\ UNCHANGED sortVars => IInv'
<1> SUFFICES ASSUME IInv, UNCHANGED sortVars PROVE IInv'
  OBVIOUS
<1>1. /\ nodes' = nodes /\ uses' = uses /\ dependencies' = dependencies /\ stack' = stack
      /\ output' = output /\ node' = node /\ next' = next /\ phase' = phase
  BY DEF sortVars
<1>2. SortTypeOK /\ Sortable /\ SeedInv /\ SortInv /\ CountsAreExact /\ UsersFirst /\ DefinedBeforeUsed
  BY DEF IInv
<1>3. Sortable' /\ NodeSet' = NodeSet /\ \A n : UsePlaces(n)' = UsePlaces(n)
  BY <1>1, <1>2, SameGraph
<1>4. Popped' = Popped
  BY <1>1 DEF Popped, Elements
<1>5. \A n : CrossedPlaces(n)' = CrossedPlaces(n)
  BY <1>1, <1>3, <1>4 DEF CrossedPlaces
<1>6. \A n : Open(n)' = Open(n)
  BY <1>3, <1>5 DEF Open
<1>7. SortTypeOK'
  BY <1>1, <1>2 DEF SortTypeOK
<1>8. SeedInv'
  <2>1. UsedNames' = UsedNames
    BY <1>1 DEF UsedNames, Elements
  <2> QED BY <2>1, <1>1, <1>2, <1>3 DEF SeedInv, Distinct
<1>9. SortInv'
  <2>1. Elements(stack') = Elements(stack) /\ Elements(output') = Elements(output) /\ Distinct(stack') = Distinct(stack)
    BY <1>1
  <2> QED BY <2>1, <1>1, <1>2, <1>3, <1>6 DEF SortInv
<1>10. CountsAreExact'
  BY <1>1, <1>2, <1>6 DEF CountsAreExact, Open
<1>11. UsersFirst' /\ DefinedBeforeUsed'
  BY <1>1, <1>2 DEF UsersFirst, DefinedBeforeUsed, Elements
<1> QED BY <1>3, <1>7, <1>8, <1>9, <1>10, <1>11 DEF IInv

-----------------------------------------------------------------------------
(* Every step of the sort keeps the invariant.                             *)
LEMMA SortStep == IInv /\ [SortNext]_sortVars => IInv'
BY CountUsesInv, SeedStepInv, SeedDoneInv, PopInv, CrossOffInv, CrossedOffInv, FinishInv, StutterInv
   DEF SortNext

(* The invariant holds of every sort of a closed graph.                    *)
THEOREM Invariance == ClosedSpec => []IInv
BY InitInv, SortStep, PTL DEF ClosedSpec

(* Type correctness of the sort's variables, for all names and all graphs  *)
(* closed under use.                                                       *)
THEOREM TypeCorrect == ClosedSpec => []SortTypeOK
BY Invariance, PTL DEF IInv

(* While the array is filled, every node follows all of its users, and in  *)
(* the array the caller gets every node precedes all of its users: a C     *)
(* struct is printed before the structs that contain it, a module is       *)
(* validated before the modules that import it.                            *)
THEOREM OrderCorrect == ClosedSpec => [](UsersFirst /\ DefinedBeforeUsed)
BY Invariance, PTL DEF IInv

(* The counts in the Table are exact between any two steps of the main     *)
(* loop.                                                                   *)
THEOREM CountsCorrect == ClosedSpec => []CountsAreExact
BY Invariance, PTL DEF IInv

-----------------------------------------------------------------------------
(* No node is popped twice, so an output as long as the array of nodes is  *)
(* a permutation of it; and what was popped has no cycle of uses.          *)
Acyclic(T, used) == \A S \in SUBSET T : S /= {} => \E m \in S : Elements(used[m]) \cap S = {}

\* Each name of R is used by another one: none of them can be the next.
Tangled(T, used) ==
  \E R \in SUBSET T : R /= {} /\ \A n \in R : \E m \in R : n \in Elements(used[m])

SortedInv ==
  /\ phase \in {"seed", "sort"} => Distinct(output) /\ Acyclic(Elements(output), uses)
  /\ phase = "sorted" => /\ Distinct(nodes) /\ Distinct(output)
                         /\ Len(output) = Len(nodes) /\ Elements(output) = NodeSet
                         /\ Acyclic(NodeSet, uses)
  /\ phase = "incomplete" /\ Distinct(nodes) => Tangled(NodeSet, uses)
  /\ Closed => phase /= "crash"

(* An array without repetitions that has elements of another one only is   *)
(* not longer.                                                             *)
LEMMA NotLonger ==
  ASSUME NEW s \in Seq(Names), NEW t \in Seq(Names), Distinct(t), Elements(t) \subseteq Elements(s)
  PROVE  Len(t) <= Len(s)
<1> DEFINE f == [i \in 1..Len(s) |-> s[i]]
           g == [i \in 1..Len(t) |-> t[i]]
<1>1. Len(s) \in Nat /\ DOMAIN s = 1..Len(s) /\ Len(t) \in Nat /\ DOMAIN t = 1..Len(t)
  OBVIOUS
<1>2. /\ IsFiniteSet(1..Len(s)) /\ Cardinality(1..Len(s)) = Len(s)
      /\ IsFiniteSet(1..Len(t)) /\ Cardinality(1..Len(t)) = Len(t)
  <2>1. ASSUME NEW n \in Nat PROVE IsFiniteSet(1..n) /\ Cardinality(1..n) = n
    <3>1. IsFiniteSet(1..n) /\ Cardinality(1..n) = (IF 1 > n THEN 0 ELSE n - 1 + 1)
      BY FS_Interval
    <3> QED BY <3>1
  <2> QED BY <2>1, <1>1
<1>3. f \in Surjection(1..Len(s), Elements(s))
  BY <1>1 DEF Surjection, Elements
<1>4. g \in Injection(1..Len(t), Elements(s))
  <2>1. \A i \in 1..Len(t) : g[i] \in Elements(s)
    BY <1>1 DEF Elements
  <2>2. \A i, j \in 1..Len(t) : g[i] = g[j] => i = j
    BY <1>1 DEF Distinct
  <2> QED BY <2>1, <2>2 DEF Injection, IsInjective
<1>5. IsFiniteSet(Elements(s)) /\ Cardinality(Elements(s)) <= Cardinality(1..Len(s))
  BY <1>2, <1>3, FS_Surjection
<1>6. Cardinality(1..Len(t)) <= Cardinality(Elements(s))
  BY <1>4, <1>5, FS_Injection
<1>7. Cardinality(Elements(s)) \in Nat
  BY <1>5, FS_CardinalityType
<1> QED BY <1>1, <1>2, <1>5, <1>6, <1>7

(* An array without repetitions that is as long as another one and has     *)
(* elements of it only has all of them, and they stand there once.         *)
LEMMA SameLength ==
  ASSUME NEW s \in Seq(Names), NEW t \in Seq(Names), Distinct(t),
         Len(s) = Len(t), Elements(t) \subseteq Elements(s)
  PROVE  Elements(s) \subseteq Elements(t) /\ Distinct(s)
<1> DEFINE f == [i \in 1..Len(s) |-> s[i]]
           g == [i \in 1..Len(s) |-> t[i]]
<1>1. Len(s) \in Nat /\ DOMAIN s = 1..Len(s) /\ DOMAIN t = 1..Len(s)
  OBVIOUS
<1>2. IsFiniteSet(1..Len(s))
  BY <1>1, FS_Interval
<1>3. f \in Surjection(1..Len(s), Elements(s))
  BY <1>1 DEF Surjection, Elements
<1>4. g \in Injection(1..Len(s), Elements(s))
  <2>1. \A i \in 1..Len(s) : g[i] \in Elements(s)
    BY <1>1 DEF Elements
  <2>2. \A i, j \in 1..Len(s) : g[i] = g[j] => i = j
    BY <1>1 DEF Distinct
  <2> QED BY <2>1, <2>2 DEF Injection, IsInjective
<1>5. IsFiniteSet(Elements(s)) /\ Cardinality(Elements(s)) <= Cardinality(1..Len(s))
  BY <1>2, <1>3, FS_Surjection
<1>6. Cardinality(1..Len(s)) <= Cardinality(Elements(s))
  BY <1>4, <1>5, FS_Injection
<1>7. Cardinality(Elements(s)) = Cardinality(1..Len(s))
  BY <1>2, <1>5, <1>6, FS_CardinalityType
<1>8. f \in Injection(1..Len(s), Elements(s))
  BY <1>2, <1>3, <1>7, FS_Surjection
<1>9. g \in Surjection(1..Len(s), Elements(s))
  BY <1>4, <1>5, <1>7, FS_Injection
<1>10. Elements(s) \subseteq Elements(t)
  BY <1>1, <1>9 DEF Surjection, Elements
<1>11. Distinct(s)
  <2>1. \A i, j \in 1..Len(s) : f[i] = f[j] => i = j
    BY <1>8 DEF Injection, IsInjective
  <2> QED BY <1>1, <2>1 DEF Distinct
<1> QED BY <1>10, <1>11

(* A popped node uses nothing that was popped before it.                   *)
LEMMA PopSorted == IInv /\ SortedInv /\ Pop => SortedInv'
<1> SUFFICES ASSUME IInv, SortedInv, Pop PROVE SortedInv'
  OBVIOUS
<1> DEFINE m == stack[Len(stack)]
<1>1. /\ phase = "sort" /\ phase' = "sort" /\ stack /= <<>> /\ stack \in Seq(Names)
      /\ node = NoName /\ nodes' = nodes /\ uses' = uses
      /\ output \in Seq(Names) /\ output' = Append(output, m)
  BY DEF Pop, IInv, SortTypeOK
<1>2. m \in Elements(stack)
  <2>1. Len(stack) \in DOMAIN stack
    BY <1>1
  <2> QED BY <2>1 DEF Elements
<1>3. m \in NodeSet /\ m \notin Elements(output) /\ Elements(output) \subseteq NodeSet /\ Open(m) = {}
  BY <1>1, <1>2 DEF IInv, SortInv
<1>4. /\ DOMAIN output' = 1..(Len(output) + 1) /\ DOMAIN output = 1..Len(output)
      /\ output'[Len(output) + 1] = m /\ \A i \in DOMAIN output : output'[i] = output[i]
  BY <1>1
<1> HIDE DEF m
<1>5. Elements(output') = Elements(output) \cup {m}
  BY <1>4, <1>1 DEF Elements
<1>6. Distinct(output')
  BY <1>1, <1>3, <1>4 DEF SortedInv, Distinct, Elements
<1>7. Elements(uses[m]) \cap Elements(output') = {}
  <2> SUFFICES ASSUME NEW q \in Elements(output'), q \in Elements(uses[m]) PROVE FALSE
    OBVIOUS
  <2>1. PICK j \in DOMAIN uses[m] : uses[m][j] = q
    BY DEF Elements
  <2>2. CASE q = m
    <3>1. <<m, j>> \in UsePlaces(m)
      BY <2>1, <2>2, <1>3, PlacesMember
    <3>2. <<m, j>> \in CrossedPlaces(m)
      BY <3>1, <1>3 DEF Open
    <3>3. m \in Names
      BY <1>3 DEF IInv, SortTypeOK, NodeSet, Elements
    <3>4. m \in Elements(output)
      BY <3>2, <3>3, <1>1, NoNameAssumption DEF CrossedPlaces, Popped
    <3> QED BY <3>4, <1>3
  <2>3. CASE q \in Elements(output)
    <3>1. PICK i \in DOMAIN output : output[i] = q
      BY <2>3 DEF Elements
    <3>2. PICK k \in 1..(i - 1) : output[k] = m
      BY <3>1, <2>1, <1>1, <1>3 DEF IInv, UsersFirst, NodeSet, Elements
    <3>3. k \in DOMAIN output
      BY <3>1, <3>2, <1>4, <1>1
    <3> QED BY <3>2, <3>3, <1>3 DEF Elements
  <2> QED BY <2>2, <2>3, <1>5
<1>8. Acyclic(Elements(output'), uses)
  <2> SUFFICES ASSUME NEW S \in SUBSET Elements(output'), S /= {}
               PROVE  \E n \in S : Elements(uses[n]) \cap S = {}
    BY DEF Acyclic
  <2>1. CASE m \in S
    BY <2>1, <1>7
  <2>2. CASE m \notin S
    <3>1. S \in SUBSET Elements(output)
      BY <2>2, <1>5
    <3> QED BY <3>1, <1>1 DEF SortedInv, Acyclic
  <2> QED BY <2>1, <2>2
<1>9. Acyclic(Elements(output), uses)'
  BY <1>1, <1>8
<1>10. Distinct(output)'
  BY <1>6 DEF Distinct
<1> QED BY <1>1, <1>9, <1>10 DEF SortedInv

LEMMA FinishSorted == IInv /\ SortedInv /\ Finish => SortedInv'
<1> SUFFICES ASSUME IInv, SortedInv, Finish PROVE SortedInv'
  OBVIOUS
<1>1. /\ phase = "sort" /\ nodes' = nodes /\ uses' = uses
      /\ nodes \in Seq(Names) /\ output \in Seq(Names)
  BY DEF Finish, IInv, SortTypeOK
<1>2. Distinct(output) /\ Acyclic(Elements(output), uses) /\ Elements(output) \subseteq NodeSet
  BY <1>1 DEF IInv, SortedInv, SortInv
<1>3. CASE Complete
  <2>1. phase' = "sorted" /\ output' = Reversed(output) /\ Len(output) = Len(nodes)
    BY <1>3 DEF Finish, Complete
  <2>2. NodeSet = Elements(output) /\ Distinct(nodes)
    BY <1>1, <1>2, <2>1, SameLength DEF NodeSet
  <2>3. PICK len : len = Len(output)
    OBVIOUS
  <2>4. /\ len \in Nat /\ DOMAIN output = 1..len /\ DOMAIN output' = 1..len /\ Len(output') = len
        /\ \A i \in 1..len : output'[i] = output[len + 1 - i]
    BY <1>1, <2>1, <2>3 DEF Reversed
  <2>5. \A i \in 1..len : len + 1 - i \in 1..len /\ len + 1 - (len + 1 - i) = i
    BY <2>4
  <2>6. Elements(output') = Elements(output)
    <3>1. Elements(output') \subseteq Elements(output)
      BY <2>4, <2>5 DEF Elements
    <3>2. ASSUME NEW i \in 1..len PROVE output[i] \in Elements(output')
      <4>1. output'[len + 1 - i] = output[i]
        BY <2>4, <2>5
      <4> QED BY <4>1, <2>4, <2>5 DEF Elements
    <3> QED BY <3>1, <3>2, <2>4 DEF Elements
  <2>7. Distinct(output')
    <3> SUFFICES ASSUME NEW i \in 1..len, NEW j \in 1..len, output'[i] = output'[j] PROVE i = j
      BY <2>4 DEF Distinct
    <3>1. len + 1 - i = len + 1 - j
      BY <2>4, <2>5, <1>2 DEF Distinct
    <3> QED BY <3>1, <2>4
  <2>8. Distinct(nodes)' /\ Distinct(output)' /\ NodeSet' = NodeSet /\ Acyclic(NodeSet, uses)'
    <3>1. NodeSet' = NodeSet
      BY <1>1 DEF NodeSet
    <3> QED BY <3>1, <1>1, <1>2, <2>2, <2>7
  <2>9. Elements(output)' = NodeSet'
    BY <2>2, <2>6, <2>8 DEF Elements
  <2> QED BY <1>1, <2>1, <2>3, <2>4, <2>8, <2>9 DEF SortedInv
<1>4. CASE ~Complete
  <2>1. Len(output) <= Len(nodes) /\ Len(output) /= Len(nodes)
    BY <1>1, <1>2, <1>4, NotLonger DEF NodeSet, Complete
  <2>2. phase' = "incomplete" /\ stack = <<>> /\ node = NoName
    BY <2>1, <1>1, <1>4 DEF Finish
  <2>3. ASSUME Distinct(nodes)
        PROVE  Tangled(NodeSet, uses)
    <3> DEFINE R == NodeSet \ Elements(output)
    <3>1. R /= {}
      <4> SUFFICES ASSUME Elements(nodes) \subseteq Elements(output) PROVE FALSE
        BY DEF NodeSet
      <4>1. Len(nodes) <= Len(output)
        BY <2>3, <1>1, NotLonger
      <4> QED BY <4>1, <2>1, <1>1
    <3>2. ASSUME NEW n \in R
          PROVE  \E m \in R : n \in Elements(uses[m])
      <4>1. Elements(stack) = {}
        BY <2>2 DEF Elements
      <4>2. Open(n) /= {}
        BY <3>2, <4>1, <1>1 DEF IInv, SortInv
      <4>3. PICK q \in UsePlaces(n) : q \notin CrossedPlaces(n)
        BY <4>2 DEF Open
      <4>4. PICK m \in NodeSet : \E j \in DOMAIN uses[m] : uses[m][j] = n /\ q = <<m, j>>
        BY PlacesMember
      <4>5. m \in Names
        BY <1>1 DEF NodeSet, Elements
      <4>6. m \notin Elements(output)
        BY <2>2, <4>3, <4>4, <4>5, NoNameAssumption DEF CrossedPlaces, Popped
      <4> QED BY <4>4, <4>6 DEF Elements
    <3> QED BY <3>1, <3>2 DEF Tangled
  <2>4. NodeSet' = NodeSet /\ (Distinct(nodes)' => Distinct(nodes))
    BY <1>1 DEF NodeSet, Distinct
  <2> QED BY <1>1, <2>2, <2>3, <2>4 DEF SortedInv
<1> QED BY <1>3, <1>4

LEMMA SortedStep == IInv /\ SortedInv /\ [SortNext]_sortVars => SortedInv'
<1> SUFFICES ASSUME IInv, SortedInv, [SortNext]_sortVars PROVE SortedInv'
  OBVIOUS
<1>1. CASE CountUses
  <2>1. phase' = "seed" /\ output' = <<>>
    BY <1>1 DEF CountUses
  <2>2. Distinct(output)' /\ Elements(output)' = {}
    BY <2>1 DEF Distinct, Elements
  <2> QED BY <2>1, <2>2 DEF SortedInv, Acyclic
<1>2. ASSUME phase \in {"seed", "sort"}, phase' \in {"seed", "sort"}, UNCHANGED <<output, uses>>
      PROVE  SortedInv'
  <2>1. Distinct(output)' = Distinct(output) /\ Acyclic(Elements(output), uses)' = Acyclic(Elements(output), uses)
    BY <1>2 DEF Distinct, Acyclic, Elements
  <2> QED BY <2>1, <1>2 DEF SortedInv
<1>3. CASE Seed \/ SeedDone \/ CrossedOff
  <2>1. phase \in {"seed", "sort"} /\ phase' \in {"seed", "sort"} /\ UNCHANGED <<output, uses>>
    BY <1>3 DEF Seed, SeedDone, CrossedOff
  <2> QED BY <2>1, <1>2
<1>7. CASE CrossOff
  <2>1. /\ phase = "sort" /\ phase' \in {"sort", "crash"} /\ UNCHANGED <<nodes, output, uses>>
        /\ node /= NoName /\ next <= Len(uses[node])
    BY <1>7 DEF CrossOff
  <2>2. ASSUME Closed' PROVE phase' = "sort"
    <3>1. Closed
      <4>1. NodeSet' = NodeSet /\ \A m : Elements(uses[m])' = Elements(uses[m])
        BY <2>1 DEF NodeSet, Elements
      <4> QED BY <4>1, <2>2 DEF Closed
    <3>2. /\ node \in NodeSet /\ uses[node] \in Seq(Names) /\ next \in DOMAIN uses[node]
          /\ uses[node][next] \in DOMAIN dependencies
      BY <2>1, InLoop DEF SortInv, SortTypeOK
    <3>3. uses[node][next] \in Elements(nodes)
      BY <3>1, <3>2 DEF Closed, NodeSet, Elements
    <3> QED BY <1>7, <2>1, <3>2, <3>3 DEF CrossOff
  <2>3. CASE phase' = "sort"
    BY <2>1, <2>3, <1>2
  <2>4. CASE phase' = "crash"
    BY <2>2, <2>4 DEF SortedInv
  <2> QED BY <2>1, <2>3, <2>4
<1>4. CASE Pop
  BY <1>4, PopSorted
<1>5. CASE Finish
  BY <1>5, FinishSorted
<1>6. CASE UNCHANGED sortVars
  <2>1. UNCHANGED <<phase, nodes, uses, output>>
    BY <1>6 DEF sortVars
  <2>2. /\ Distinct(output)' = Distinct(output) /\ Distinct(nodes)' = Distinct(nodes)
        /\ Elements(output)' = Elements(output) /\ NodeSet' = NodeSet
        /\ Acyclic(Elements(output), uses)' = Acyclic(Elements(output), uses) /\ Acyclic(NodeSet, uses)' = Acyclic(NodeSet, uses)
    BY <2>1 DEF Distinct, Acyclic, Elements, NodeSet
  <2>3. Tangled(NodeSet, uses)' = Tangled(NodeSet, uses) /\ Closed' = Closed
    BY <2>1, <2>2 DEF Tangled, Closed, NodeSet, Elements
  <2> QED BY <2>1, <2>2, <2>3 DEF SortedInv
<1> QED BY <1>1, <1>3, <1>4, <1>5, <1>6, <1>7 DEF SortNext

(* In an array without repetitions each element stands once.               *)
LEMMA StandsOnce ==
  ASSUME NEW s \in Seq(Names), Distinct(s), NEW m \in Elements(s)
  PROVE  Cardinality({i \in DOMAIN s : s[i] = m}) = 1
<1>1. PICK r \in DOMAIN s : s[r] = m
  BY DEF Elements
<1>2. {i \in DOMAIN s : s[i] = m} = {r}
  BY <1>1 DEF Distinct
<1> QED BY <1>2, FS_Singleton

LEMMA SortedHolds == ClosedSpec => []SortedInv
<1>1. ClosedInit => SortedInv
  BY DEF ClosedInit, SortInit, SortedInv
<1> QED BY <1>1, SortedStep, Invariance, PTL DEF ClosedSpec

(* What the caller gets is a permutation of the nodes, whatever the graph: *)
(* no struct is printed twice, no module left out, however often it is     *)
(* used.  The code compares the numbers of nodes only.                     *)
THEOREM SortedOnce == ClosedSpec => []EachNodeOnce
<1>1. IInv /\ SortedInv => EachNodeOnce
  <2> SUFFICES ASSUME IInv, SortedInv, phase = "sorted", NEW m \in Elements(nodes)
               PROVE  Cardinality({i \in DOMAIN output : output[i] = m}) = 1
    BY DEF EachNodeOnce
  <2> QED BY StandsOnce DEF IInv, SortTypeOK, SortedInv, NodeSet
<1> QED BY <1>1, SortedHolds, Invariance, PTL

(* A graph that is sorted has no cycle: when neither copy of the algorithm *)
(* complains about the number of nodes it got out, no node uses itself,    *)
(* directly or through others.                                             *)
SortedIsAcyclic == phase = "sorted" => Acyclic(NodeSet, uses)
THEOREM CyclesAreNotSorted == ClosedSpec => []SortedIsAcyclic
<1>1. SortedInv => SortedIsAcyclic
  BY DEF SortedInv, SortedIsAcyclic
<1> QED BY <1>1, SortedHolds, PTL

(* The sort only gives up on names that use each other, and never meets a  *)
(* name that has no item in the Table.                                     *)
GivesUpOnTangles ==
  /\ phase = "incomplete" => Tangled(NodeSet, uses)
  /\ phase /= "crash"
THEOREM GivesUpRightly == ClosedSpec => []GivesUpOnTangles
<1>1. ClosedInit => ClosedGraph
  BY DEF ClosedInit
<1>2. ClosedGraph /\ IInv /\ [SortNext]_sortVars => ClosedGraph'
  <2>1. [SortNext]_sortVars => nodes' = nodes /\ uses' = uses
    BY DEF SortNext, CountUses, Seed, SeedDone, Pop, CrossOff, CrossedOff, Finish, sortVars
  <2> QED BY <2>1 DEF ClosedGraph, Distinct, Elements
<1>3. ClosedGraph /\ SortedInv => GivesUpOnTangles
  BY DEF ClosedGraph, SortedInv, GivesUpOnTangles, Closed, NodeSet
<1> QED BY <1>1, <1>2, <1>3, SortedHolds, Invariance, PTL DEF ClosedSpec
=============================================================================
