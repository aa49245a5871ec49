--------------------------- MODULE MCStructTypes ---------------------------
(***************************************************************************)
(* All programs of three structs in one module with at most two struct     *)
(* fields each and not more than four in all, cyclic ones included; the    *)
(* typechecked programs of four structs, in every order of the type table  *)
(* (it is a hash table's), where a struct is used at most once by another; *)
(* and programs of two structs that may have fields of an imported one.    *)
(***************************************************************************)
EXTENDS StructTypes

CONSTANTS a, b, c, d

Orders(S) == {s \in [1..Cardinality(S) -> S] : Distinct(s)}
Lists(S) == UNION {Orders(T) : T \in SUBSET S}
FieldLists == UNION {[1..k -> {a, b, c}] : k \in 0..2}

Fields(fa, fb, fc) ==
  [n \in Names |-> CASE n = a -> fa [] n = b -> fb [] n = c -> fc [] OTHER -> <<>>]
Programs ==
  {Fields(fa, fb, fc) : <<fa, fb, fc>> \in
     {f \in FieldLists \X FieldLists \X FieldLists : Len(f[1]) + Len(f[2]) + Len(f[3]) <= 4}}

\* Up to renaming a struct of an acyclic program uses only later ones.
Acyclic ==
  {Fields(fa, fb, fc) : fa \in Lists({b, c, d}), fb \in Lists({c, d}), fc \in Lists({d})}

\* No field is left to look at: the typechecker is done.
Typechecked == todo = {} /\ root = NoName /\ frames = <<>> /\ recursive = {}

MCInit ==
  \/ TypesInit({<<a, b, c>>}, Programs)
  \/ SortInit(Orders(Names), Acyclic) /\ Typechecked

\* c is declared in an imported module.
ImportInit == TypesInit({<<a, b>>, <<b, a>>}, {u \in Programs : u[c] = <<>>})

Stopped == phase \in {"sorted", "incomplete", "crash", "rejected", "overflow"} /\ UNCHANGED vars

MCSpec == MCInit /\ [][Next \/ Stopped]_vars /\ WF_vars(Next)
ImportSpec == ImportInit /\ [][Next \/ Stopped]_vars

(* Compilation ends, and as the structs deserve: those that do not contain *)
(* themselves are sorted, for the others the program is rejected or the C  *)
(* stack runs full.                                                        *)
CompilationEnds ==
  /\ (Recursive = {}) ~> (phase = "sorted")
  /\ (Recursive /= {}) ~> (phase \in {"rejected", "overflow"})
=============================================================================
