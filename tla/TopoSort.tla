------------------------------ MODULE TopoSort ------------------------------
(***************************************************************************)
(* The one sorting algorithm of the compiler, written twice in the source: *)
(* topologicallySortTypes() orders the struct types of a module before C   *)
(* is printed for them, topographicallySortModules() orders the modules of *)
(* a program before they are validated.  Both keep a count of uses per     *)
(* name in a Table, a stack of the names nobody uses any more and an       *)
(* output array that is reversed at the end.                               *)
(*                                                                         *)
(* A node is its name: the Table is keyed by names.  uses[n] lists the     *)
(* names node n uses (the struct types of its fields, or the modules it    *)
(* imports) in array order.  A used name need not be a node: a field can   *)
(* have a struct type of an imported module, an import can name a module   *)
(* that was never parsed.                                                  *)
(***************************************************************************)
EXTENDS Integers, Sequences, FiniteSets

CONSTANTS
  Names,    \* names of the nodes and of everything they use
  NoName,   \* `node` outside the inner loop
  Client    \* which of the two copies runs: "codegen" or "validator"

ASSUME NoNameAssumption == NoName \notin Names
ASSUME ClientAssumption == Client \in {"codegen", "validator"}

VARIABLES
  nodes,         \* the array to sort
  uses,          \* [Names -> Seq(Names)]
  dependencies,  \* Table<ASTString, i64>: uses of a name not yet crossed off
  stack,         \* Array: nodes whose count fell to 0
  output,        \* Array: nodes in the order they were popped
  node,          \* the node whose uses are being crossed off, or NoName
  next,          \* index of the loop that is running
  phase          \* where the function is

sortVars == <<nodes, uses, dependencies, stack, output, node, next, phase>>

Elements(s) == {s[i] : i \in DOMAIN s}

(* The places where n is used: <<user, index>>.  The nodes are counted by  *)
(* name: two modules of one name (ModuleLoading has them) are counted      *)
(* once, where the code counts each array entry.  Both ways end the same:  *)
(* a module of that name is imported by itself and never pushed, or its    *)
(* import has a name that is no module's, and looking that up aborts.      *)
MutUsePlaces(n) == {<<m, 1>> : m \in {k \in Elements(nodes) : n \in Elements(uses[k])}}
UsePlaces(n) ==
  UNION {{<<m, j>> : j \in {k \in DOMAIN uses[m] : uses[m][k] = n}} : m \in Elements(nodes)}

UsedNames == UNION {Elements(uses[m]) : m \in Elements(nodes)}

\* sort* names the states of this function: a caller shares `phase` with it.
SortPhases == {"count", "seed", "sort", "sorted", "incomplete", "crash"}

-----------------------------------------------------------------------------
(* The first loop counts, for every name, the places that use it.          *)
CountUses ==
  /\ phase = "count"
  /\ dependencies' = [n \in Elements(nodes) \cup UsedNames |-> Cardinality(UsePlaces(n))]
  /\ stack' = <<>>
  /\ output' = <<>>
  /\ node' = NoName
  /\ next' = 1
  /\ phase' = "seed"
  /\ UNCHANGED <<nodes, uses>>

(* The second loop pushes the nodes that nothing uses.                     *)
Seed ==
  /\ phase = "seed"
  /\ next <= Len(nodes)
  /\ stack' = IF dependencies[nodes[next]] = 0 THEN Append(stack, nodes[next]) ELSE stack
  /\ next' = next + 1
  /\ UNCHANGED <<nodes, uses, dependencies, output, node, phase>>

SeedDone ==
  /\ phase = "seed"
  /\ next > Len(nodes)
  /\ next' = 1
  /\ phase' = "sort"
  /\ UNCHANGED <<nodes, uses, dependencies, stack, output, node>>

MutBelow(s) == Tail(s)
Below(s) == SubSeq(s, 1, Len(s) - 1)

(* The main loop pops a node into the output ...                           *)
Pop ==
  /\ phase = "sort"
  /\ node = NoName
  /\ stack /= <<>>
  /\ node' = stack[Len(stack)]
  /\ stack' = Below(stack)
  /\ output' = Append(output, stack[Len(stack)])
  /\ next' = 1
  /\ UNCHANGED <<nodes, uses, dependencies, phase>>

\* A count falls to 0 when the place being crossed off is the last one.
LastUse(n) == dependencies[n] = 1

(* ... and crosses off its uses.  A name without a Table item is a NULL    *)
(* dereference; the validator looks a name up with get_module_by_name(),   *)
(* which is UNREACHABLE() for a name that is no node; the code generator   *)
(* pushes the field's type wherever it was declared.                       *)
CrossOff ==
  /\ phase = "sort"
  /\ node /= NoName
  /\ next <= Len(uses[node])
  /\ LET n == uses[node][next] IN
       IF n \notin DOMAIN dependencies
       THEN /\ phase' = "crash"
            /\ UNCHANGED <<dependencies, stack, next>>
       ELSE /\ dependencies' = [dependencies EXCEPT ![n] = @ - 1]
            /\ IF LastUse(n) /\ Client = "validator" /\ n \notin Elements(nodes)
               THEN phase' = "crash" /\ UNCHANGED stack
               ELSE /\ stack' = IF LastUse(n) THEN Append(stack, n) ELSE stack
                    /\ UNCHANGED phase
            /\ next' = next + 1
  /\ UNCHANGED <<nodes, uses, output, node>>

CrossedOff ==
  /\ phase = "sort"
  /\ node /= NoName
  /\ next > Len(uses[node])
  /\ node' = NoName
  /\ UNCHANGED <<nodes, uses, dependencies, stack, output, next, phase>>

MutReversedNot(s) == s
Reversed(s) == [i \in 1..Len(s) |-> s[Len(s) + 1 - i]]

Complete == Len(output) = Len(nodes)

(* The stack is empty.  When the output misses nodes (or has too many) the *)
(* code generator aborts; the validator reports, reverses and goes on.     *)
Finish ==
  /\ phase = "sort"
  /\ node = NoName
  /\ stack = <<>>
  /\ IF Complete
     THEN phase' = "sorted" /\ output' = Reversed(output)
     ELSE /\ phase' = IF Client = "validator" /\ Len(output) > Len(nodes) THEN "crash"
                                                                       ELSE "incomplete"
          /\ output' = IF phase' = "incomplete" /\ Client = "validator"
                       THEN Reversed(output) ELSE output
  /\ UNCHANGED <<nodes, uses, dependencies, stack, node, next>>

SortNext ==
  \/ CountUses \/ Seed \/ SeedDone
  \/ Pop \/ CrossOff \/ CrossedOff \/ Finish

-----------------------------------------------------------------------------
(* Any array of distinct nodes and any lists of uses, each checked by the  *)
(* caller's own rules; MC modules narrow it.                               *)
SortInit(nodeArrays, useTables) ==
  /\ nodes \in nodeArrays
  /\ uses \in useTables
  /\ dependencies = [n \in {} |-> 0]
  /\ stack = <<>>
  /\ output = <<>>
  /\ node = NoName
  /\ next = 1
  /\ phase = "count"

(* Sorting the types of one module: the array holds each node once and     *)
(* every used name is a node.                                              *)
Distinct(s) == \A i, j \in DOMAIN s : s[i] = s[j] => i = j
ClosedGraph == Distinct(nodes) /\ \A m \in Elements(nodes) : Elements(uses[m]) \subseteq Elements(nodes)

ClosedInit == SortInit(Seq(Names), [Names -> Seq(Names)]) /\ ClosedGraph
ClosedSpec == ClosedInit /\ [][SortNext]_sortVars

SortTypeOK ==
  /\ nodes \in Seq(Names)
  /\ uses \in [Names -> Seq(Names)]
  /\ DOMAIN dependencies \subseteq Names
  /\ \A n \in DOMAIN dependencies : dependencies[n] \in Int
  /\ stack \in Seq(Names)
  /\ output \in Seq(Names)
  /\ node \in Names \cup {NoName}
  /\ next \in Nat \ {0}
  /\ phase \in SortPhases

-----------------------------------------------------------------------------
(* Users first: in the array as it is filled, whatever uses a name was     *)
(* popped before the name itself, so a name is never taken while a node    *)
(* that needs it is still to come.  This is why the counts are kept.       *)
UsersFirst ==
  phase = "sort" =>
    \A i \in DOMAIN output : \A m \in Elements(nodes) :
      output[i] \in Elements(uses[m]) => \E k \in 1..(i - 1) : output[k] = m

(* Definition before use: in the array the caller gets, every name stands  *)
(* before the nodes that use it ("the module with the least dependencies   *)
(* will be first", Validator.c:1234).                                      *)
DefinedBeforeUsed ==
  phase = "sorted" =>
    \A i \in DOMAIN output : \A m \in Elements(nodes) :
      output[i] \in Elements(uses[m]) => \E k \in (i + 1)..Len(output) : output[k] = m

(* The array the caller gets is a permutation of the nodes: nothing is     *)
(* printed twice and nothing is left out, however often a name is used.    *)
EachNodeOnce ==
  phase = "sorted" =>
    \A m \in Elements(nodes) : Cardinality({i \in DOMAIN output : output[i] = m}) = 1

(* The count of a name is at all times the number of places that use it    *)
(* and have not been crossed off.                                          *)
Popped == Elements(output) \ {node}
CrossedPlaces(n) ==
  {p \in UsePlaces(n) : p[1] \in Popped \/ (p[1] = node /\ p[2] < next)}
CountsAreExact ==
  phase = "sort" =>
    \A n \in DOMAIN dependencies :
      dependencies[n] = Cardinality(UsePlaces(n) \ CrossedPlaces(n))
=============================================================================
