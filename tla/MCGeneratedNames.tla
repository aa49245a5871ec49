-------------------------- MODULE MCGeneratedNames --------------------------
(***************************************************************************)
(* Module M has a variable g, a struct A {x, s: B; p()}, a struct B {y;    *)
(* q()} and a function f(a: A); it imports n, which has a function h and a *)
(* struct S {y; q()}.  Either one body is any sequence of up to            *)
(* MaxStatements statements, or the three bodies have two each that name   *)
(* each other's objects.  M is validated and generated, n before or after  *)
(* it.                                                                     *)
(***************************************************************************)
EXTENDS GeneratedNames

CONSTANT MaxStatements   \* of the body that is any sequence of statements

Imported ==
  [sc \in {<<"n", NoName>>, <<"n", "S">>} |->
     IF sc[2] = NoName
     THEN {Object("fn", sc, "h", NoName, 0), Object("struct", sc, "S", NoName, 0)}
     ELSE {Object("var", sc, "y", NoName, 0), Object("fn", sc, "q", NoName, 0)}]

TypeA == <<"M", "A">>
TypeB == <<"M", "B">>
TypeS == <<"n", "S">>
MethodP == <<"M", "A", "p">>
MethodQ == <<"M", "B", "q">>
FunctionF == <<"M", NoName, "f">>

Var(v, type) == [op |-> "var", var |-> v, type |-> type]
VarInit(v, path, name) == [op |-> "init", var |-> v, path |-> path, name |-> name]
Name(path, name) == [op |-> "use", path |-> path, name |-> name]
Of(name, field) == [op |-> "access", name |-> name, field |-> field]
IfName(name) == [op |-> "if", name |-> name]
OpenBlock == [op |-> "open"]
ElseBlock == [op |-> "else"]
CloseBlock == [op |-> "close"]

Statements ==
  {Var("x", NoName), Var("g", TypeB), VarInit("x", <<>>, "x"), VarInit("g", <<>>, "s"),
   VarInit("z", <<"B">>, "y"), Name(<<>>, "x"), Name(<<>>, "g"), Name(<<"x">>, "y"),
   Name(<<"n">>, "h"), Name(<<"n", "S">>, "q"), Of("g", "y"), Of("s", "y"), Of("a", "s"),
   IfName("g"), IfName("z"), OpenBlock, ElseBlock, CloseBlock}

Opened(code, k) == Level(code, 1, k)
\* What the parser lets through: blocks closed, `else` after an `if` and no variable declared twice in a block.
FollowsIf(code, i) ==
  /\ i > 1
  /\ code[i - 1].op = "close"
  /\ \E j \in 1..(i - 2) :
       /\ code[j].op = "if"
       /\ Level(code, j, i - 1) = 0
       /\ \A k \in j..(i - 2) : Level(code, j, k) > 0
WellFormed(code, parameters) ==
  /\ \A k \in DOMAIN code : Opened(code, k) >= 0
  /\ Opened(code, Len(code)) = 0
  /\ \A i \in DOMAIN code : code[i].op = "else" => FollowsIf(code, i)
  /\ DeclaresOnce(code, parameters)

Codes(k) == {code \in UNION {[1..i -> Statements] : i \in 0..k} : WellFormed(code, {"a"})}

\* Longer bodies: shadowing in and after blocks, an `if` that fails with its `else`.
Longer ==
  {<<VarInit("g", <<>>, "s"), OpenBlock, Var("g", NoName), Name(<<>>, "g"), CloseBlock, Of("g", "y")>>,
   <<IfName("g"), VarInit("g", <<>>, "g"), CloseBlock, ElseBlock, Name(<<>>, "g"), CloseBlock>>,
   <<IfName("z"), Name(<<>>, "z"), CloseBlock, ElseBlock, Name(<<>>, "g"), CloseBlock, Name(<<>>, "x")>>,
   <<IfName("g"), Name(<<>>, "z"), CloseBlock, ElseBlock, Name(<<>>, "x"), CloseBlock, Name(<<>>, "g")>>,
   <<OpenBlock, OpenBlock, Var("x", TypeB), CloseBlock, Name(<<>>, "x"), CloseBlock, Of("x", "y")>>,
   <<Var("z", TypeB), OpenBlock, VarInit("z", <<>>, "z"), Of("z", "y"), CloseBlock>>,
   <<Var("z", TypeB), OpenBlock, Var("z", TypeA), CloseBlock, Of("z", "y")>>}

Short == {<<>>, <<Name(<<>>, "g")>>, <<Name(<<>>, "f")>>, <<Name(<<"A">>, "p")>>, <<Name(<<"B">>, "q")>>,
          <<Name(<<>>, "z")>>, <<Of("s", "y")>>, <<Of("a", "p")>>, <<Var("v", TypeA), Of("v", "x")>>, <<Var("v", TypeB), Of("v", "q")>>}

OneBody(codes) ==
  {[b \in {MethodP, MethodQ, FunctionF} |-> IF b = c THEN code ELSE <<>>] :
     <<c, code>> \in {MethodP, FunctionF} \X codes}

\* Struct B has the field y and the method q; f is the name of the function.
Module(code, q, f, constant) ==
  [variables |-> [v \in {"g"} |-> [type |-> NoName, constant |-> constant]],
   structs |-> [S \in {"A", "B"} |->
      IF S = "A" THEN [fields |-> [v \in {"x", "s"} |-> IF v = "s" THEN TypeB ELSE NoName], methods |-> {"p"}]
      ELSE [fields |-> [v \in {"y"} |-> NoName], methods |-> {q}]],
   functions |-> {f},
   params |-> [b \in DOMAIN code |-> IF b[2] = NoName THEN [v \in {"a"} |-> TypeA] ELSE [v \in {} |-> NoName]],
   code |-> code]

\* Both structs have a method p and the function is called p, too.
TwoMethodsP ==
  [{MethodP, <<"M", "B", "p">>, <<"M", NoName, "p">>} ->
     {<<>>, <<Name(<<"A">>, "p")>>, <<Name(<<"B">>, "p")>>, <<Name(<<"A">>, "p"), Name(<<"B">>, "p")>>}]

\* Names that are spelled like a mangled one: of a method, and of the function.
SpelledAlike ==
  {[Module(code, "q", "f", TRUE) EXCEPT
      !.structs = [S \in {"A", "B", "A_method_p"} |->
        IF S \in {"A", "B"} THEN @[S] ELSE [fields |-> [v \in {} |-> NoName], methods |-> {}]]] :
     code \in OneBody({<<Name(<<"A">>, "p")>>, <<Of("a", "p")>>, <<Name(<<>>, "f")>>,
                       <<Var("moduleM_fn_f", NoName), Name(<<>>, "f")>>,
                       <<OpenBlock, Var("moduleM_fn_f", NoName), CloseBlock, Name(<<>>, "f")>>})}

Programs ==
  {Module(code, "q", "f", TRUE) : code \in
      OneBody(Codes(MaxStatements) \cup Longer) \cup [{MethodP, MethodQ, FunctionF} -> Short]}
  \cup {Module(code, "q", "f", FALSE) : code \in [{MethodP, MethodQ, FunctionF} -> {<<>>}]}
  \cup {Module(code, "p", "p", TRUE) : code \in TwoMethodsP}
  \cup SpelledAlike
ASSUME ProgramsAssumption == \A p \in Programs : Parsed(p) /\ Spelled(p)

WordsOf ==
  [x \in {"g", "A", "B", "S", "A_method_p", "x", "s", "y", "p", "q", "f", "h", "a", "z", "v", "moduleM_fn_f"} |->
     CASE x = "A_method_p" -> <<"A", "method", "p">>
       [] x = "moduleM_fn_f" -> <<"moduleM", "fn", "f">>
       [] OTHER -> <<x>>]
WordsOfModule == [m \in {"M", "n"} |-> IF m = "M" THEN <<"moduleM">> ELSE <<"modulen">>]

Stopped ==
  /\ phase \in {"rejected", "aborted"} \/ (phase = "generated" /\ index = Len(order))
  /\ UNCHANGED allVars
GenSpec == GenInit(Programs, {<<"M", "n">>, <<"n", "M">>}) /\ [][GenNext \/ Stopped]_allVars
=============================================================================
