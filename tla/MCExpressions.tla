--------------------------- MODULE MCExpressions ---------------------------
(***************************************************************************)
(* struct S {x: i32; n: T; m(&this) -> i32}, struct T {y: i32; q(&this,    *)
(* i32) -> i32}, a function f(i32) -> i32 and a function with variables    *)
(* v: i32, b: bool, s: S, t: T, a parameter p: &S and a variable k that    *)
(* holds a function like f.  Either a text of up to MaxTokens tokens, at   *)
(* most one of them in Rare, is parsed and compiled; or a tree of up to    *)
(* three levels is compiled in a statement of each kind.                   *)
(***************************************************************************)
EXTENDS Expressions

CONSTANT Rare   \* tokens that a text has at most one of

Basic(kind, pointer) == [kind |-> kind, inner |-> NoType, params |-> <<>>, result |-> NoType, members |-> {}, pointer |-> pointer]
Pointer(inner) == [Basic("pointer", NoType) EXCEPT !.inner = inner]
Struct(members, pointer) == [Basic("struct", pointer) EXCEPT !.members = members]
Function(params, result) == [Basic("function", NoType) EXCEPT !.params = params, !.result = result]

MCTypeInfo ==
  [t \in {"i32", "u32", "bool", "void", "S", "T", "&i32", "&S", "&T", "fn(i32)", "fn(&S)", "fn(&T,i32)"} |->
     CASE t = "i32" -> Basic("number", "&i32")
       [] t = "S" -> Struct({"x", "n", "m"}, "&S")
       [] t = "T" -> Struct({"y", "q"}, "&T")
       [] t = "&i32" -> Pointer("i32")
       [] t = "&S" -> Pointer("S")
       [] t = "&T" -> Pointer("T")
       [] t = "fn(i32)" -> Function(<<"i32">>, "i32")
       [] t = "fn(&S)" -> Function(<<"&S">>, "i32")
       [] t = "fn(&T,i32)" -> Function(<<"&T", "i32">>, "i32")
       [] OTHER -> Basic("other", NoType)]

MCObjectType ==
  [o \in {"v", "b", "s", "t", "p", "k", "f", "x", "n", "m", "y", "q"} |->
     CASE o \in {"v", "x", "y"} -> "i32"
       [] o = "b" -> "bool"
       [] o = "s" -> "S"
       [] o \in {"t", "n"} -> "T"
       [] o = "p" -> "&S"
       [] o \in {"k", "f"} -> "fn(i32)"
       [] o = "m" -> "fn(&S)"
       [] o = "q" -> "fn(&T,i32)"]

Statement(kind, type) == [kind |-> kind, type |-> type]
Statements ==
  {Statement("expr", NoType), Statement("loop", NoType), Statement("condition", NoType), Statement("infer", NoType),
   Statement("declare", "i32"), Statement("declare", "u32"), Statement("return", "bool")}

Atoms == {Name(n) : n \in {"v", "b", "s", "t", "p", "k", "f"}} \cup {Number(NoType)}
Unaries(E) == {Unary(o, e) : o \in UnaryOps, e \in E}
Binaries(L, R) == {Binary(o, l, r) : o \in {"=", "<", "-"}, l \in L, r \in R}
Members(E) == {Access(e, f) : e \in E, f \in {"x", "n", "m", "y", "q"}}
CallsOf(E, A) == {Call(e, <<>>) : e \in E} \cup {Call(e, <<a>>) : e \in E, a \in A}

Small == {Name("v"), Name("s"), Name("f"), Number(NoType)}
Trees1 == Atoms \cup Unaries(Atoms) \cup Binaries(Atoms, Atoms) \cup Members(Atoms) \cup CallsOf(Atoms, Atoms)
Trees2 ==
  Unaries(Trees1) \cup Members(Trees1) \cup CallsOf(Trees1, Small) \cup CallsOf(Small, Trees1)
  \cup Binaries(Trees1, Small) \cup Binaries(Small, Trees1)

\* Deeper: members of members, and what comes after a nested call.
Deep == Members({Access(Name("s"), "n")})
AfterCall == Binaries(CallsOf({Name("f")}, {Number(NoType)}), Members({Name("s")}) \cup CallsOf(Members({Name("s")}), {}))
Trees3 ==
  Unaries(Deep) \cup CallsOf(Deep, Small) \cup CallsOf(Small, Deep \cup AfterCall)
  \cup Binaries(Deep, Small) \cup Binaries(Small, Deep) \cup AfterCall

AtMostOneRare == Cardinality({i \in DOMAIN text' : text'[i] \in Rare}) + (IF current' \in Rare THEN 1 ELSE 0) <= 1

MCInit ==
  \/ StartText({Statement("infer", NoType)})
  \/ StartTree(Statements, Trees1 \cup Trees2 \cup Trees3 \cup {Number("u32")})
  \/ StartTree({Statement("declare", t) : t \in {"i32", "u32"}}, {NoTree})
Ended ==
  /\ phase \in {"refused", "rejected", "aborted", "mistyped", "generated", "generator aborted"}
  /\ UNCHANGED vars
MCNext == Next /\ AtMostOneRare
MCSpec == MCInit /\ [][MCNext \/ Ended]_vars
=============================================================================
