-------------------------- MODULE ExpressionParser --------------------------
(***************************************************************************)
(* The expression parser: parsePrecedence(), the table `rules` and the     *)
(* parse functions in it.  A frame of `frames` is one running              *)
(* parsePrecedence() together with the parse function that called it: what *)
(* that function holds (its operator, what is to the left, the arguments   *)
(* so far) and the tree built up to now.  The tokens are not fixed:        *)
(* whatever the parser advances to is chosen then.                         *)
(*                                                                         *)
(* A name stands for a whole path A::B::c, "1" for any number, "true" for  *)
(* a boolean or string; "<" and "==" stand for the operators of their rank *)
(* and ";" for every token that neither starts nor continues an expression *)
(* (the end of the file included).                                         *)
(***************************************************************************)
EXTENDS Integers, SequencesExt

CONSTANTS
  Names,      \* names an expression may mention
  Tokens,     \* tokens that a text is made of
  MaxTokens   \* tokens a text has at most

ASSUME TokensAssumption == ";" \in Tokens /\ MaxTokens \in Nat

VARIABLES
  phase,     \* "parsing", "parsed", "refused"; more in Expressions
  text,      \* the tokens consumed
  current,   \* state.current_token
  frames,    \* C stack of parsePrecedence(), see Frame
  failing,   \* the call that just returned gave its caller NULL
  errors,    \* state.had_error
  tree       \* the parsed expression

parseVars == <<phase, text, current, frames, failing, errors, tree>>

-----------------------------------------------------------------------------
(* Expression nodes.                                                       *)
NoTree == [op |-> "none"]
NoType == "-"

Name(n) == [op |-> "id", name |-> n]
Number(type) == [op |-> "number", type |-> type]
Truth == [op |-> "bool"]
Unary(o, e) == [op |-> o, e |-> e]
Binary(o, l, r) == [op |-> o, l |-> l, r |-> r]
Access(e, field) == [op |-> "access", e |-> e, field |-> field]
Call(e, args) == [op |-> "call", e |-> e, args |-> args]

UnaryOps == {"negate", "addrof", "deref", "not"}
BinaryOps == {"=", "==", "<", "&&", "||", "+", "-", "*", "/"}
NumberTypes == {"i32", "u32"}
PrefixOps == {"+", "-", "*", "&", "!"}

\* parse_unary_expr(): +e is e.
UnaryTree(o, e) ==
  CASE o = "+" -> e
    [] o = "-" -> Unary("negate", e)
    [] o = "*" -> Unary("deref", e)
    [] o = "&" -> Unary("addrof", e)
    [] o = "!" -> Unary("not", e)

-----------------------------------------------------------------------------
(* The precedences of `rules`; PREC_FACTOR is 1.                           *)
LOWEST == 0
UNARY == 12
Precedence(t) ==
  CASE t \in {"=", "*", "/"} -> 1
    [] t = "==" -> 5
    [] t = "<" -> 6
    [] t = "&&" -> 8
    [] t = "||" -> 9
    [] t \in {"+", "-"} -> 10
    [] t \in {"(", "."} -> 13
    [] OTHER -> LOWEST

\* Who called parsePrecedence() and with which least precedence.
Frame(caller, o, l, args, min) ==
  [caller |-> caller, op |-> o, lhs |-> l, args |-> args, min |-> min, at |-> "prefix", tree |-> NoTree]
Outermost == Frame("statement", "", NoTree, <<>>, LOWEST)
MutOperand(o, l) == Frame("binary", o, l, <<>>, Precedence(o) - 1)
Operand(o, l) == Frame("binary", o, l, <<>>, Precedence(o))
UnaryOperand(o) == Frame("unary", o, NoTree, <<>>, UNARY)
Group == Frame("grouping", "", NoTree, <<>>, LOWEST)
Assigned(l) == Frame("assign", "=", l, <<>>, LOWEST)
Argument(callee, args) == Frame("argument", "", callee, args, LOWEST)

Top == Last(frames)
Rest == Front(frames)
At(place) == phase = "parsing" /\ ~failing /\ frames /= <<>> /\ Top.at = place
Holding(fs, t) == [fs EXCEPT ![Len(fs)].tree = t, ![Len(fs)].at = "infix"]

NextTokens == IF Len(text) + 1 < MaxTokens THEN Tokens ELSE {";", ")"} \cap Tokens
Advance == current' \in NextTokens /\ text' = Append(text, current)
Keep == UNCHANGED <<text, current>>
ReportError == errors' = TRUE /\ failing' = TRUE
NoError == UNCHANGED <<errors, failing>>

ParseInit ==
  /\ phase = "parsing"
  /\ text = <<>>
  /\ current \in Tokens
  /\ frames = <<Outermost>>
  /\ failing = FALSE /\ errors = FALSE
  /\ tree = NoTree

-----------------------------------------------------------------------------
(* parsePrecedence() up to its loop: the prefix functions.                 *)
ParseName ==
  /\ At("prefix") /\ current \in Names
  /\ Advance
  /\ frames' = Holding(frames, Name(current))
  /\ NoError /\ UNCHANGED <<phase, tree>>

ParseTruth ==
  /\ At("prefix") /\ current = "true"
  /\ Advance
  /\ frames' = Holding(frames, Truth)
  /\ NoError /\ UNCHANGED <<phase, tree>>

ParseNumber ==
  /\ At("prefix") /\ current = "1"
  /\ Advance
  /\ frames' = [frames EXCEPT ![Len(frames)].at = "number"]
  /\ NoError /\ UNCHANGED <<phase, tree>>

\* The rest of parse_number_literal_expr(): a type behind the number.
PostfixType ==
  /\ At("number")
  /\ \/ /\ current \in NumberTypes
        /\ Advance
        /\ frames' = Holding(frames, Number(current))
        /\ NoError
     \/ /\ current = "void"
        /\ Advance
        /\ ReportError /\ UNCHANGED frames
     \/ /\ current \notin NumberTypes \cup {"void"}
        /\ frames' = Holding(frames, Number(NoType))
        /\ Keep /\ NoError
  /\ UNCHANGED <<phase, tree>>

StartOperand ==
  /\ At("prefix") /\ current \in PrefixOps \cup {"("}
  /\ Advance
  /\ frames' = Append(frames, IF current = "(" THEN Group ELSE UnaryOperand(current))
  /\ NoError /\ UNCHANGED <<phase, tree>>

NoPrefix ==
  /\ At("prefix")
  /\ current \notin Names \cup PrefixOps \cup {"1", "true", "("}
  /\ Advance
  /\ ReportError
  /\ UNCHANGED <<phase, frames, tree>>

-----------------------------------------------------------------------------
(* The loop of parsePrecedence(): the infix functions.                     *)
Continues == Top.min < Precedence(current)

InfixOperator ==
  /\ At("infix") /\ Continues
  /\ current \in BinaryOps
  /\ Advance
  /\ frames' = Append(frames, IF current = "=" THEN Assigned(Top.tree) ELSE Operand(current, Top.tree))
  /\ NoError /\ UNCHANGED <<phase, tree>>

\* parse_property_access_expr() consumes an identifier.
Member ==
  /\ At("infix") /\ Continues
  /\ current = "."
  /\ \E t \in NextTokens :
       IF t \in Names
       THEN /\ text' = text \o <<current, t>>
            /\ current' \in (IF Len(text) + 2 < MaxTokens THEN Tokens ELSE {";", ")"} \cap Tokens)
            /\ frames' = Holding(frames, Access(Top.tree, t))
            /\ NoError
       ELSE /\ text' = Append(text, current)
            /\ current' = t
            /\ ReportError /\ UNCHANGED frames
  /\ UNCHANGED <<phase, tree>>

\* parse_call_expr() up to its first argument.
StartCall ==
  /\ At("infix") /\ Continues
  /\ current = "("
  /\ Advance
  /\ frames' = Append(frames, [Argument(Top.tree, <<>>) EXCEPT !.at = "first"])
  /\ NoError /\ UNCHANGED <<phase, tree>>

NoArguments ==
  /\ At("first")
  /\ IF current = ")"
     THEN Advance /\ frames' = Holding(Rest, Call(Top.lhs, <<>>))
     ELSE Keep /\ frames' = [frames EXCEPT ![Len(frames)].at = "prefix"]
  /\ NoError /\ UNCHANGED <<phase, tree>>

-----------------------------------------------------------------------------
(* The loop ends: the calling parse function goes on with the tree.        *)
Ends(caller) == At("infix") /\ ~Continues /\ Top.caller = caller

EndBinary ==
  /\ Ends("binary")
  /\ frames' = Holding(Rest, Binary(Top.op, Top.lhs, Top.tree))
  /\ Keep /\ NoError /\ UNCHANGED <<phase, tree>>

EndAssign ==
  /\ Ends("assign")
  /\ frames' = Holding(Rest, Binary("=", Top.lhs, Top.tree))
  /\ Keep /\ NoError /\ UNCHANGED <<phase, tree>>

EndUnary ==
  /\ Ends("unary")
  /\ frames' = Holding(Rest, UnaryTree(Top.op, Top.tree))
  /\ Keep /\ NoError /\ UNCHANGED <<phase, tree>>

EndGroup ==
  /\ Ends("grouping")
  /\ IF current = ")"
     THEN Advance /\ frames' = Holding(Rest, Top.tree) /\ NoError
     ELSE Keep /\ ReportError /\ UNCHANGED frames
  /\ UNCHANGED <<phase, tree>>

\* The loop of parse_call_expr() with the arguments so far, and its end.
AfterArgument(args) ==
  \/ /\ current = ","
     /\ Advance
     /\ frames' = Append(Rest, Argument(Top.lhs, args))
     /\ failing' = FALSE /\ UNCHANGED errors
  \/ /\ current = ")"
     /\ Advance
     /\ frames' = Holding(Rest, Call(Top.lhs, args))
     /\ failing' = FALSE /\ UNCHANGED errors
  \/ /\ current \notin {",", ")"}
     /\ frames' = Rest
     /\ Keep /\ ReportError

EndArgument ==
  /\ Ends("argument")
  /\ AfterArgument(Append(Top.args, Top.tree))
  /\ UNCHANGED <<phase, tree>>

\* A text with errors is not compiled, whatever is built of it.
EndExpression ==
  /\ Ends("statement")
  /\ phase' = IF errors THEN "refused" ELSE "parsed"
  /\ tree' = Top.tree
  /\ frames' = <<>>
  /\ Keep /\ NoError

\* TRY(): NULL goes up to the nearest call, which drops the argument and
\* looks for the next one.
Unwind ==
  /\ phase = "parsing" /\ failing /\ frames /= <<>>
  /\ IF Top.caller = "argument"
     THEN AfterArgument(Top.args) /\ UNCHANGED phase
     ELSE /\ frames' = Rest
          /\ phase' = IF Rest = <<>> THEN "refused" ELSE phase
          /\ Keep /\ NoError
  /\ UNCHANGED tree

ParseNext ==
  \/ ParseName \/ ParseTruth \/ ParseNumber \/ PostfixType \/ StartOperand \/ NoPrefix
  \/ InfixOperator \/ Member \/ StartCall \/ NoArguments
  \/ EndBinary \/ EndAssign \/ EndUnary \/ EndGroup \/ EndArgument \/ EndExpression \/ Unwind

ParseSpec == ParseInit /\ [][ParseNext]_parseVars

-----------------------------------------------------------------------------
(* What a text means, independently of the parser: an expression of infix  *)
(* operators is split at the one that binds loosest, `=` at its first and  *)
(* the others at their last occurrence; prefix operators bind tighter than *)
(* infix ones, calls and member access tightest.  `rank` gives each infix  *)
(* operator its precedence.                                                *)
OwnRank == [o \in BinaryOps |-> Precedence(o)]

Depth(w, i) == Cardinality({k \in 1..(i - 1) : w[k] = "("}) - Cardinality({k \in 1..(i - 1) : w[k] = ")"})
EndsOperand(w, i) == w[i] \in Names \cup NumberTypes \cup {"1", "true", ")"}
InfixAt(w) == {i \in 2..Len(w) : w[i] \in BinaryOps /\ EndsOperand(w, i - 1) /\ Depth(w, i) = 0}
CommasAt(w) == {i \in 1..Len(w) : w[i] = "," /\ Depth(w, i) = 0}

RootAt(w, rank) ==
  LET loosest == {i \in InfixAt(w) : \A j \in InfixAt(w) : rank[w[i]] <= rank[w[j]]}
      assigns == {i \in loosest : w[i] = "="}
  IN  IF assigns /= {} THEN Min(assigns) ELSE Max(loosest)

\* Where the parenthesis that the text ends with was opened.
OpenedAt(w) == Max({i \in 1..Len(w) : w[i] = "(" /\ Depth(w, i) = 0})

RECURSIVE Reading(_, _), ReadingList(_, _)
Reading(w, rank) ==
  LET n == Len(w) IN
  CASE n = 0 -> NoTree
    [] InfixAt(w) /= {} ->
         LET i == RootAt(w, rank)
         IN  Binary(w[i], Reading(SubSeq(w, 1, i - 1), rank), Reading(SubSeq(w, i + 1, n), rank))
    [] InfixAt(w) = {} /\ w[1] \in PrefixOps -> UnaryTree(w[1], Reading(Tail(w), rank))
    [] n = 1 /\ w[1] \in Names -> Name(w[1])
    [] n = 1 /\ w[1] = "true" -> Truth
    [] n = 1 /\ w[1] = "1" -> Number(NoType)
    [] n = 2 /\ w[1] = "1" /\ w[2] \in NumberTypes -> Number(w[2])
    [] n > 2 /\ InfixAt(w) = {} /\ w[1] \notin PrefixOps /\ w[n] = ")" ->
         LET i == OpenedAt(w)
             inner == SubSeq(w, i + 1, n - 1)
         IN  IF i = 1 THEN Reading(inner, rank)
             ELSE Call(Reading(SubSeq(w, 1, i - 1), rank), ReadingList(inner, rank))
    [] n > 2 /\ InfixAt(w) = {} /\ w[1] \notin PrefixOps /\ w[n - 1] = "." ->
         Access(Reading(SubSeq(w, 1, n - 2), rank), w[n])
    [] OTHER -> NoTree
ReadingList(w, rank) ==
  IF w = <<>> THEN <<>>
  ELSE IF CommasAt(w) = {} THEN <<Reading(w, rank)>>
  ELSE LET i == Min(CommasAt(w))
       IN  <<Reading(SubSeq(w, 1, i - 1), rank)>> \o ReadingList(SubSeq(w, i + 1, Len(w)), rank)

(* A text without errors is read as the grammar says: the order of the     *)
(* parse functions, the loops and the C stack of parsePrecedence() add up  *)
(* to the precedences and associativities of `rules`.                      *)
ParsesByPrecedence == phase = "parsed" /\ text /= <<>> => tree = Reading(text, OwnRank)

(* The order that the comments of the enum Precedence (Parser.c:204-221,   *)
(* "lowest" to "highest") give the operators: `*` and `/` between `+` and  *)
(* the unary operators.                                                    *)
EnumRank == [o \in BinaryOps |-> IF o \in {"*", "/"} THEN 11 ELSE Precedence(o)]
FactorsBindTighter == phase = "parsed" => tree = Reading(text, EnumRank)
=============================================================================
