---------------------------- MODULE StructTypes ----------------------------
(***************************************************************************)
(* The struct types of a program on their way from the typechecker to the  *)
(* code generator.  The typechecker looks, for every field of every        *)
(* struct, for the struct itself among the fields below it:                *)
(* isRecursiveStruct() is a depth-first walk that remembers nothing but    *)
(* its own C stack.  Only a program without errors reaches the code        *)
(* generator, which sorts the struct types of a module (TopoSort) and      *)
(* aborts when the sort does not return all of them.                       *)
(*                                                                         *)
(* uses[t] lists the struct types of the fields of struct t; fields of     *)
(* other types are left out, both walks pass over them.  `nodes` is the    *)
(* type table of the module that is generated, a type not in it belongs to *)
(* a module it imports.                                                    *)
(***************************************************************************)
EXTENDS TopoSort

CONSTANT MaxDepth   \* frames the C stack holds

ASSUME MaxDepthAssumption == MaxDepth \in Nat \ {0}
ASSUME CodegenAssumption == Client = "codegen"

VARIABLES
  todo,      \* the fields, <<struct, index>>, not yet looked at
  root,      \* rootStructType of the walk that is running
  frames,    \* its C stack: Seq([type, next]), next the field to look at
  recursive  \* the structs reported to contain themselves

walkVars == <<todo, root, frames, recursive>>
vars == <<sortVars, walkVars>>

AllFields == UNION {{<<s, i>> : i \in DOMAIN uses[s]} : s \in Names}
Top == frames[Len(frames)]
Frame(t) == [type |-> t, next |-> 1]

-----------------------------------------------------------------------------
(* typecheckCurrentScope() meets the fields in the order of a hash table:  *)
(* any order.  The first call is for the type of the field.                *)
StartWalk ==
  /\ phase = "typecheck"
  /\ frames = <<>>
  /\ \E f \in todo :
       /\ todo' = todo \ {f}
       /\ root' = f[1]
       /\ frames' = <<Frame(uses[f[1]][f[2]])>>
  /\ UNCHANGED <<sortVars, recursive>>

ContainsRoot(t) == t = root

(* The loop over the fields of one type: the root is found and every frame *)
(* returns true ...                                                        *)
FindRoot ==
  /\ phase = "typecheck"
  /\ frames /= <<>>
  /\ Top.next <= Len(uses[Top.type])
  /\ ContainsRoot(uses[Top.type][Top.next])
  /\ frames' = <<>>
  /\ recursive' = recursive \cup {root}
  /\ UNCHANGED <<sortVars, todo, root>>

(* ... or the function calls itself for the type of the field ...          *)
Descend ==
  /\ phase = "typecheck"
  /\ frames /= <<>>
  /\ Top.next <= Len(uses[Top.type])
  /\ ~ContainsRoot(uses[Top.type][Top.next])
  /\ IF Len(frames) = MaxDepth
     THEN phase' = "overflow" /\ UNCHANGED frames
     ELSE /\ frames' = Append([frames EXCEPT ![Len(frames)].next = @ + 1],
                              Frame(uses[Top.type][Top.next]))
          /\ UNCHANGED phase
  /\ UNCHANGED <<nodes, uses, dependencies, stack, output, node, next, todo, root, recursive>>

(* ... until a type has no field left and its frame returns false.         *)
ReturnFalse ==
  /\ phase = "typecheck"
  /\ frames /= <<>>
  /\ Top.next > Len(uses[Top.type])
  /\ frames' = SubSeq(frames, 1, Len(frames) - 1)
  /\ UNCHANGED <<sortVars, todo, root, recursive>>

MutNextPhase == "count"
MutNextPhaseSwapped == IF recursive = {} THEN "rejected" ELSE "count"
NextPhase == IF recursive = {} THEN "count" ELSE "rejected"

(* The driver stops at an error, else it generates code.                   *)
TypecheckDone ==
  /\ phase = "typecheck"
  /\ frames = <<>>
  /\ todo = {}
  /\ phase' = NextPhase
  /\ UNCHANGED <<nodes, uses, dependencies, stack, output, node, next, walkVars>>

Typecheck == StartWalk \/ FindRoot \/ Descend \/ ReturnFalse \/ TypecheckDone
Generate == SortNext /\ UNCHANGED walkVars
Next == Typecheck \/ Generate

\* typeTables: the tables of the module generated; fieldLists: [Names -> Seq(Names)].
TypesInit(typeTables, fieldLists) ==
  /\ nodes \in typeTables
  /\ uses \in fieldLists
  /\ dependencies = [n \in {} |-> 0]
  /\ stack = <<>>
  /\ output = <<>>
  /\ node = NoName
  /\ next = 1
  /\ phase = "typecheck"
  /\ todo = AllFields
  /\ root = NoName
  /\ frames = <<>>
  /\ recursive = {}

\* A program of one module: every type used is in its table.
LocalInit ==
  /\ TypesInit(Seq(Names), [Names -> Seq(Names)])
  /\ Distinct(nodes)
  /\ Elements(nodes) = Names

LocalSpec == LocalInit /\ [][Next]_vars

Frames == [type : Names, next : Nat \ {0}]

TypesTypeOK ==
  /\ nodes \in Seq(Names)
  /\ uses \in [Names -> Seq(Names)]
  /\ phase \in SortPhases \cup {"typecheck", "overflow", "rejected"}
  /\ todo \subseteq AllFields
  /\ root \in Names \cup {NoName}
  /\ frames \in Seq(Frames)
  /\ recursive \subseteq Names

-----------------------------------------------------------------------------
\* n is used by m, by what m uses, and so on.
Closed(S) == \A k \in S : Elements(uses[k]) \subseteq S
Contains(m, n) ==
  \A S \in SUBSET Names : Closed(S) /\ Elements(uses[m]) \subseteq S => n \in S

Recursive == {m \in Names : Contains(m, m)}

(* "Struct cannot have a field that recursively contains it" is only said  *)
(* of structs that do contain themselves.                                  *)
ReportsAreTrue == recursive \subseteq Recursive

(* No recursive struct gets past the typechecker, however the walks ended: *)
(* the code generator relies on it, it has no C for such a struct.         *)
AcceptedAreAcyclic == phase \in SortPhases => Recursive = {}

(* Structs that contain themselves are reported as an error                *)
(* (tester/recursive_struct.ilc:1 "Struct 'T' cannot have a field that     *)
(* recursively contains it."): the compiler does not die of them.          *)
RecursiveIsReported == Recursive /= {} => phase /= "overflow"

(* The C stack only fills up on recursive structs: as long as it holds a   *)
(* path through all the structs, a program without them is never lost.     *)
OverflowMeansCyclic == phase = "overflow" => Recursive /= {}

(* "internal error: Undetected cyclic structs!" (Codegen.c:501) is only    *)
(* reached with structs that are cyclic.                                   *)
AbortMeansCyclic == phase \in {"incomplete", "crash"} => Recursive /= {}
=============================================================================
