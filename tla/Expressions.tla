---------------------------- MODULE Expressions -----------------------------
(***************************************************************************)
(* What becomes of a parsed expression: the validator builds the checked   *)
(* tree and gives every node a type, the typechecker compares types, the   *)
(* code generator prints C.  Each of the three is a function of the tree   *)
(* and one step here; what they hand on to each other is in `checked` and  *)
(* `printed`.  The expression stands in a statement, which decides what    *)
(* type it must have.                                                      *)
(*                                                                         *)
(* Names are already unique and each is one object (NameResolution).  A    *)
(* type is its name.                                                       *)
(***************************************************************************)
EXTENDS ExpressionParser

CONSTANTS
  ObjectType,   \* the type of every variable, function, field and method
  Functions,    \* the objects that are functions of the module
  Methods,      \* the objects that are methods, `this` their first parameter
  TypeInfo      \* what a type is: kind, inner, params, result, members, pointer

ASSUME ObjectsAssumption ==
  /\ Functions \cup Methods \subseteq DOMAIN ObjectType
  /\ \A o \in DOMAIN ObjectType : ObjectType[o] \in DOMAIN TypeInfo

VARIABLES
  statement,   \* the statement around the expression: [kind, type]
  checked,     \* the validator's tree
  printed      \* the C tokens of the expression

vars == <<parseVars, statement, checked, printed>>

Kind(t) == IF t = NoType THEN "none" ELSE TypeInfo[t].kind
IsStruct(t) == Kind(t) = "struct"
ToStruct(t) == Kind(t) = "pointer" /\ IsStruct(TypeInfo[t].inner)

-----------------------------------------------------------------------------
(* Validator: checked nodes are parsed nodes with a type; NoType is NULL.  *)
Typed(e, t) == [op |-> e.op, type |-> t] @@ e
Object(o) == [op |-> IF o \in Functions THEN "function" ELSE "variable", name |-> o, type |-> ObjectType[o]]
Field(o) == [op |-> "variable", name |-> o, type |-> ObjectType[o]]

RECURSIVE DataType(_, _)
\* expr_data_type_complex()
DataType(e, isInCall) ==
  CASE e.op = "variable" -> IF isInCall /\ Kind(e.type) = "function" THEN TypeInfo[e.type].result ELSE e.type
    [] e.op = "function" -> TypeInfo[e.type].result
    [] e.op = "access" -> DataType(e.field, isInCall)
    [] e.op \in {"=", "+", "-", "*", "/"} -> DataType(e.l, isInCall)
    [] e.op \in {"==", "<", "&&", "||", "not"} -> "bool"
    [] e.op \in {"negate", "call"} -> DataType(e.e, isInCall)
    [] e.op = "number" -> IF e.type = NoType THEN "i32" ELSE e.type
    [] OTHER -> e.type

\* How validateExpr() ends: the tree or NULL, an error or none; or a failed
\* assertion, or a NULL type looked at.
Is(e) == [e |-> e, error |-> FALSE, abort |-> FALSE]
Wrong == [e |-> NoTree, error |-> TRUE, abort |-> FALSE]
Abort == [e |-> NoTree, error |-> FALSE, abort |-> TRUE]
Null(r) == r.e = NoTree
After(before, r) == [r EXCEPT !.error = r.error \/ before.error]

\* unpackPropertyAccessExpr()
RECURSIVE Root(_), Links(_)
Root(e) == IF e.op = "access" THEN Root(e.e) ELSE e
Links(e) == IF e.op = "access" THEN Append(Links(e.e), e.field) ELSE <<>>

MutAutoDeref(lhs) == lhs
AutoDeref(lhs) ==
  IF ToStruct(DataType(lhs, FALSE))
  THEN Typed(Unary("deref", lhs), TypeInfo[DataType(lhs, FALSE)].inner)
  ELSE lhs

\* The loop over the links of an access; `lhs` is the link before and r what
\* has been built.  An error leaves the loop with what there is.
RECURSIVE LinksValidated(_, _, _)
LinksValidated(links, lhs, r) ==
  IF links = <<>> THEN r
  ELSE LET object == AutoDeref(lhs)
           t == DataType(object, FALSE)
           f == Head(links)
       IN  IF ~IsStruct(t) \/ f \notin TypeInfo[t].members THEN [r EXCEPT !.error = TRUE]
           ELSE LinksValidated(Tail(links), Field(f),
                  Is(IF Null(r) THEN Typed(Access(object, Field(f)), ObjectType[f])
                     ELSE Typed(Access(r.e, Field(f)), NoType)))

IsTarget(e) == e.op \in {"variable", "deref", "access"}

\* The rest of the case for unary nodes.
UnaryValidated(o, e) ==
  LET t == DataType(e, FALSE)
  IN  CASE o = "addrof" ->
             IF t = NoType \/ TypeInfo[t].pointer = NoType THEN Abort
             ELSE Is(Typed(Unary(o, e), TypeInfo[t].pointer))
        [] o = "not" -> Is(Typed(Unary(o, e), "bool"))
        [] o = "negate" -> Is(Typed(Unary(o, e), t))
        [] o = "deref" ->
             IF e.op \notin {"variable", "access", "deref", "addrof"} THEN Wrong
             ELSE IF e.type = NoType THEN Abort
             ELSE IF Kind(e.type) /= "pointer" THEN Wrong
             ELSE Is(Typed(Unary(o, e), TypeInfo[t].inner))

\* `this` of a call of a member.
This(callee) ==
  LET object == IF callee.e.op = "access" THEN callee.e.field ELSE callee.e
  IN  IF object.op /= "variable" \/ TypeInfo[object.type].pointer = NoType THEN Abort
      ELSE Is(Typed(Unary("addrof", object), TypeInfo[object.type].pointer))

RECURSIVE Validated(_)
CallValidated(e, callee) ==
  LET this == IF callee.op = "access" THEN <<This(callee)>> ELSE <<>>
      args == this \o [i \in DOMAIN e.args |-> Validated(e.args[i])]
      trees == [i \in DOMAIN args |-> args[i].e]
  IN  IF callee.type = NoType THEN Abort
      ELSE IF Kind(callee.type) /= "function" THEN Wrong
      ELSE IF \E i \in DOMAIN args : args[i].abort THEN Abort
      ELSE IF \E i \in DOMAIN args : Null(args[i]) THEN Wrong
      ELSE IF Len(args) /= Len(TypeInfo[callee.type].params) THEN Wrong
      ELSE [Is(Typed(Call(callee, trees), DataType(callee, TRUE)))
              EXCEPT !.error = \E i \in DOMAIN args : args[i].error]

\* validateExpr()
Validated(e) ==
  CASE e.op = "id" -> Is(Object(e.name))
    [] e.op = "number" -> Is(Typed(e, DataType(e, FALSE)))
    [] e.op = "bool" -> Is(Typed(e, "bool"))
    [] e.op = "access" ->
         LET root == Validated(Root(e))
         IN  IF root.abort \/ Null(root) THEN root
             ELSE IF root.e.op \notin {"variable", "deref"} THEN Wrong
             ELSE After(root, LinksValidated(Links(e), root.e, Is(NoTree)))
    [] e.op \in BinaryOps ->
         LET l == Validated(e.l)
             r == Validated(e.r)
             both == Binary(e.op, l.e, r.e)
         IN  IF l.abort \/ Null(l) THEN l
             ELSE IF e.op = "=" /\ ~IsTarget(l.e) THEN Wrong
             ELSE IF r.abort \/ Null(r) THEN r
             ELSE After(l, After(r, Is(Typed(both, DataType(both, FALSE)))))
    [] e.op \in UnaryOps ->
         LET operand == Validated(e.e)
         IN  IF operand.abort \/ Null(operand) THEN operand
             ELSE After(operand, UnaryValidated(e.op, operand.e))
    [] e.op = "call" ->
         LET callee == Validated(e.e)
         IN  IF callee.abort \/ Null(callee) THEN callee
             ELSE After(callee, CallValidated(e, callee.e))

\* A number takes the type of a u32 variable or function.
Converted(e, t) == IF t = "u32" /\ e.op = "number" THEN [e EXCEPT !.type = "u32"] ELSE e

\* validateStmt(), validateVariableDecl(): the expression of a statement.  A
\* declaration may have none; a u32 without one is a NULL node looked at.
StatementValidated(st, e) ==
  LET r == Validated(e)
      t == IF st.kind = "infer" THEN r.e.type ELSE st.type
  IN  IF e = NoTree THEN IF t = "u32" THEN Abort ELSE Is(NoTree)
      ELSE IF r.abort \/ Null(r) THEN r
      ELSE IF st.kind \in {"infer", "declare"} /\ t \in {NoType, "void"} THEN Wrong
      ELSE IF st.kind \in {"declare", "return"} THEN [r EXCEPT !.e = Converted(r.e, st.type)]
      ELSE r

-----------------------------------------------------------------------------
(* Typechecker.                                                            *)
\* checkTypes()
MutSame(expected, actual) == expected = NoType \/ actual = NoType \/ expected = actual
Same(expected, actual) == expected /= NoType /\ actual /= NoType /\ expected = actual

RECURSIVE TypesMatch(_)
\* typecheckExpr() without an error; a call's callee and arguments are not visited.
TypesMatch(e) ==
  CASE e.op \in BinaryOps ->
         /\ TypesMatch(e.l)
         /\ TypesMatch(e.r)
         /\ Same(IF e.l.op = "access" THEN e.l.field.type ELSE e.l.type, e.r.type)
    [] e.op \in UnaryOps ->
         /\ TypesMatch(e.e)
         /\ e.op = "not" => Same("bool", e.e.type)
    [] e.op = "call" ->
         \A i \in DOMAIN e.args : Same(TypeInfo[e.e.type].params[i], e.args[i].type)
    [] OTHER -> TRUE

\* typecheckStmt(), typecheckVariableDecl(): a condition of a loop has any type.
StatementMatches(st, e) ==
  LET t == IF st.kind = "infer" THEN e.type ELSE st.type
  IN  e = NoTree \/
      /\ TypesMatch(e)
      /\ st.kind \in {"infer", "declare"} => Kind(t) /= "pointer" /\ Same(t, e.type)
      /\ st.kind = "return" => Same(st.type, e.type)
      /\ st.kind = "condition" => Same("bool", e.type)

-----------------------------------------------------------------------------
(* Code generator.  isInCall is a field of the generator: what has been    *)
(* printed before decides how a member is printed.                         *)
Emit(w, isInCall) == [text |-> w, isInCall |-> isInCall, abort |-> FALSE]
GenAbort == [text |-> <<>>, isInCall |-> FALSE, abort |-> TRUE]
Put(g, w) == [g EXCEPT !.text = g.text \o w]
\* What g has printed and then what h, printed with g's flag, has.
Then(g, h) == IF g.abort THEN g ELSE [h EXCEPT !.text = g.text \o h.text]

CPrefix(o) ==
  CASE o = "negate" -> <<"-", "(">>
    [] o = "not" -> <<"!", "(">>
    [] o = "addrof" -> <<"&", "(">>
    [] o = "deref" -> <<"(", "*">>

RECURSIVE Gen(_, _), GenArgs(_, _)
MutGenBinary(e, isInCall) ==
  LET l == Put(Then(Emit(<<"(">>, isInCall), Gen(e.l, isInCall)), <<")", e.op>>)
  IN  Then(l, Gen(e.r, l.isInCall))
GenBinary(e, isInCall) ==
  LET l == Put(Then(Emit(<<"(">>, isInCall), Gen(e.l, isInCall)), <<")", e.op, "(">>)
  IN  Put(Then(l, Gen(e.r, l.isInCall)), <<")">>)

MutGenCall(e) ==
  LET callee == Put(Gen(e.e, TRUE), <<"(">>)
  IN  Put(Then(callee, GenArgs(e.args, callee.isInCall)), <<")">>)
GenCall(e) ==
  LET callee == Put(Gen(e.e, TRUE), <<"(">>)
  IN  [Put(Then(callee, GenArgs(e.args, callee.isInCall)), <<")">>) EXCEPT !.isInCall = FALSE]

\* A member in a call stands for a method.
GenMember(e, isInCall) ==
  IF ~isInCall THEN Put(Gen(e.e, isInCall), <<".", e.field.name>>)
  ELSE IF Kind(e.field.type) = "function" THEN Emit(<<e.field.name>>, isInCall)
  ELSE GenAbort

\* genExpr()
Gen(e, isInCall) ==
  CASE e.op \in {"variable", "function"} -> Emit(<<e.name>>, isInCall)
    [] e.op = "number" -> Emit(<<"1">>, isInCall)
    [] e.op = "bool" -> Emit(<<"true">>, isInCall)
    [] e.op = "access" -> GenMember(e, isInCall)
    [] e.op \in BinaryOps -> GenBinary(e, isInCall)
    [] e.op \in UnaryOps -> Put(Then(Emit(CPrefix(e.op), isInCall), Gen(e.e, isInCall)), <<")">>)
    [] e.op = "call" -> GenCall(e)
GenArgs(args, isInCall) ==
  IF args = <<>> THEN Emit(<<>>, isInCall)
  ELSE LET first == Gen(Head(args), isInCall)
       IN  IF Len(args) = 1 THEN first
           ELSE Then(Put(first, <<",">>), GenArgs(Tail(args), first.isInCall))

-----------------------------------------------------------------------------
(* The phases.                                                             *)
Validate ==
  /\ phase = "parsed"
  /\ LET r == StatementValidated(statement, tree)
     IN  /\ phase' = IF r.abort THEN "aborted" ELSE IF r.error \/ (Null(r) /\ tree /= NoTree) THEN "rejected" ELSE "validated"
         /\ checked' = IF r.abort THEN NoTree ELSE r.e
  /\ UNCHANGED <<text, current, frames, failing, errors, tree, statement, printed>>

Typecheck ==
  /\ phase = "validated"
  /\ phase' = IF StatementMatches(statement, checked) THEN "typechecked" ELSE "mistyped"
  /\ UNCHANGED <<text, current, frames, failing, errors, tree, statement, checked, printed>>

Generate ==
  /\ phase = "typechecked"
  /\ LET g == IF checked = NoTree THEN Emit(<<>>, FALSE) ELSE Gen(checked, FALSE)
     IN  /\ phase' = IF g.abort THEN "generator aborted" ELSE "generated"
         /\ printed' = IF g.abort THEN <<>> ELSE g.text
  /\ UNCHANGED <<text, current, frames, failing, errors, tree, statement, checked>>

ParseStep == ParseNext /\ UNCHANGED <<statement, checked, printed>>
Next == ParseStep \/ Validate \/ Typecheck \/ Generate

\* A statement whose expression is still to be parsed, and one that has been.
StartText(statements) ==
  ParseInit /\ statement \in statements /\ checked = NoTree /\ printed = <<>>
StartTree(statements, trees) ==
  /\ phase = "parsed"
  /\ text = <<>> /\ current = ";" /\ frames = <<>>
  /\ failing = FALSE /\ errors = FALSE
  /\ tree \in trees
  /\ statement \in statements
  /\ checked = NoTree /\ printed = <<>>

-----------------------------------------------------------------------------
(* What the source means, independently of the three passes.               *)

\* The type of an expression whose parts fit together; NoType otherwise.
Named(e) == e.op \in {"id", "access", "deref"}
Pointed(t) == IF ToStruct(t) THEN TypeInfo[t].inner ELSE t
Parameters(callee, t) == IF callee.op = "access" THEN Tail(TypeInfo[t].params) ELSE TypeInfo[t].params

RECURSIVE TypeOf(_)
TypeOf(e) ==
  LET Operand1 == TypeOf(e.e)
      Equal == TypeOf(e.l) /= NoType /\ TypeOf(e.l) = TypeOf(e.r)
  IN
  CASE e.op = "id" -> ObjectType[e.name]
    [] e.op = "number" -> IF e.type = NoType THEN "i32" ELSE e.type
    [] e.op = "bool" -> "bool"
    [] e.op = "access" ->
         IF /\ Named(e.e)
            /\ IsStruct(Pointed(Operand1))
            /\ e.field \in TypeInfo[Pointed(Operand1)].members
         THEN ObjectType[e.field] ELSE NoType
    [] e.op = "=" -> IF Named(e.l) /\ Equal THEN TypeOf(e.l) ELSE NoType
    [] e.op \in {"+", "-", "*", "/"} -> IF Equal THEN TypeOf(e.l) ELSE NoType
    [] e.op \in {"==", "<", "&&", "||"} -> IF Equal THEN "bool" ELSE NoType
    [] e.op = "negate" -> Operand1
    [] e.op = "not" -> IF Operand1 = "bool" THEN "bool" ELSE NoType
    [] e.op = "addrof" -> IF Operand1 = NoType THEN NoType ELSE TypeInfo[Operand1].pointer
    [] e.op = "deref" ->
         IF (Named(e.e) \/ e.e.op = "addrof") /\ Kind(Operand1) = "pointer"
         THEN TypeInfo[Operand1].inner ELSE NoType
    [] e.op = "call" ->
         IF Kind(Operand1) = "function" /\ [i \in DOMAIN e.args |-> TypeOf(e.args[i])] = Parameters(e.e, Operand1)
         THEN TypeInfo[Operand1].result ELSE NoType

StatementTyped(st, e) ==
  LET Fits(t) == TypeOf(e) = t \/ (t = "u32" /\ e.op = "number" /\ st.kind /= "condition")
  IN  CASE e = NoTree -> TRUE
        [] e /= NoTree /\ st.kind = "infer" -> TypeOf(e) \notin {NoType, "void"} /\ Kind(TypeOf(e)) /= "pointer"
        [] e /= NoTree /\ st.kind \in {"declare", "return"} -> Fits(st.type)
        [] e /= NoTree /\ st.kind = "condition" -> Fits("bool")
        [] e /= NoTree /\ st.kind \in {"expr", "loop"} -> TypeOf(e) /= NoType

Children(e) ==
  CASE e.op \in {"id", "number", "bool", "none"} -> {}
    [] e.op \in UnaryOps \cup {"access"} -> {e.e}
    [] e.op \in BinaryOps -> {e.l, e.r}
    [] e.op = "call" -> {e.e} \cup ToSet(e.args)
RECURSIVE Parts(_)
Parts(e) == {e} \cup UNION {Parts(c) : c \in Children(e)}

Calls(e) == {c \in Parts(e) : c.op = "call"}
Operations(e) == {x \in Parts(e) : x.op \in BinaryOps \cup UnaryOps}
Operands(e) == UNION {Children(x) : x \in Operations(e)}
IsMethod(e) == e.op = "access" /\ e.field \in Methods
IsFunction(e) == e.op = "id" /\ e.name \in Functions

\* A member of a member.
Nested(e) == \E x \in Parts(e) : x.op = "access" /\ x.e.op = "access"
\* A method that is not called.
MethodValue(e) == \E x \in Parts(e) : IsMethod(x) /\ x \notin {c.e : c \in Calls(e)}
\* An operator on the name of a function, taken for its result, or on a call
\* of a variable or method, taken for what is called.
ResultConfused(e) ==
  \E x \in Operands(e) : IsFunction(x) \/ (x.op = "call" /\ ~IsFunction(x.e))
\* A callee or argument that is wrong in itself.
WrongInCall(e) == \E c \in Calls(e) : \E x \in Children(c) : TypeOf(x) = NoType
\* A member in an argument.
MemberArgument(e) ==
  \E c \in Calls(e) : \E i \in DOMAIN c.args : \E x \in Parts(c.args[i]) : x.op = "access"
\* A call of a method of something other than a variable of the struct.
IndirectMethod(e) == \E c \in Calls(e) : IsMethod(c.e) /\ ~(c.e.e.op = "id" /\ IsStruct(TypeOf(c.e.e)))
\* The address of something whose type no pointer type is known for, as a result.
NoPointer(e) ==
  \E x \in Operations(e) : x.op = "addrof" /\
    (x.e.op = "call" \/ TypeOf(x.e) = NoType \/ TypeInfo[TypeOf(x.e)].pointer = NoType)
OperatorCalled(e) == \E c \in Calls(e) : c.e.op \in BinaryOps \cup UnaryOps

(* An expression that passes the validator and the typechecker is          *)
(* well-typed where it stands, except for what they do not look at: inside *)
(* callees and arguments, and at the difference between a function and     *)
(* its result.  (The condition of a loop may have any type.)               *)
Passed == phase \in {"typechecked", "generated", "generator aborted"}
AcceptedAreWellTyped ==
  Passed =>
    \/ StatementTyped(statement, tree)
    \/ WrongInCall(tree) \/ ResultConfused(tree)

(* A statement that is refused is wrong, or reads a member of a member.    *)
RefusedAreIllTyped ==
  phase \in {"rejected", "mistyped"} =>
    \/ ~StatementTyped(statement, tree)
    \/ Nested(tree) \/ ResultConfused(tree)

(* The compiler does not abort on an expression without nested members,    *)
(* members in arguments, methods of other objects than variables and       *)
(* addresses, nor on a declaration with an initializer.                    *)
AbortsAreKnown ==
  phase \in {"aborted", "generator aborted"} =>
    \/ Nested(tree) \/ MemberArgument(tree) \/ IndirectMethod(tree) \/ NoPointer(tree)
    \/ tree = NoTree

\* The meaning of a tree in C: a method is a function, a pointer is followed.
RECURSIVE Meaning(_)
Meaning(e) ==
  LET Followed(x) == IF ToStruct(TypeOf(x)) THEN Unary("deref", Meaning(x)) ELSE Meaning(x)
      Arguments == [i \in DOMAIN e.args |-> Meaning(e.args[i])]
  IN
  CASE IsMethod(e) -> NoTree
    [] e.op = "access" /\ ~IsMethod(e) -> Access(Followed(e.e), e.field)
    [] e.op \in UnaryOps -> Unary(e.op, Meaning(e.e))
    [] e.op \in BinaryOps -> Binary(e.op, Meaning(e.l), Meaning(e.r))
    [] e.op = "call" ->
         IF IsMethod(e.e) THEN Call(Name(e.e.field), <<Unary("addrof", Meaning(e.e.e))>> \o Arguments)
         ELSE Call(Meaning(e.e), Arguments)
    [] e.op = "number" -> Number(NoType)
    [] OTHER -> e

\* The precedences of C.
CRank == [o \in BinaryOps |-> CASE o = "=" -> 1 [] o = "||" -> 2 [] o = "&&" -> 3
            [] o = "==" -> 4 [] o = "<" -> 5 [] o \in {"+", "-"} -> 6 [] o \in {"*", "/"} -> 7]

(* The C that is printed means what the source means, whatever has been    *)
(* printed before it; but an operator that is called loses its             *)
(* parentheses, and a method that is not called has no meaning in C.       *)
GeneratedMeansSource ==
  phase = "generated" /\ ~OperatorCalled(tree) /\ ~MethodValue(tree) =>
    Reading(printed, CRank) = Meaning(tree)
=============================================================================
