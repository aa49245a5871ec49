--------------------------- MODULE ParserRecovery ---------------------------
(***************************************************************************)
(* How the recursive-descent parser keeps its place in a file with syntax  *)
(* errors.  Three things have to agree: the token it looks at, the C stack *)
(* of parse functions (`frames`) and the scope it is in (`scopes`, a chain *)
(* of parents that only enterScope(), leaveScope() and the module-level    *)
(* synchronisation move).  An error sets need_sync and makes functions     *)
(* return NULL; blocks, structs and the module each skip tokens their way. *)
(*                                                                         *)
(* The tokens are not fixed: whatever the parser advances to is chosen     *)
(* then.  A phrase without a scope of its own (an expression, the rest of  *)
(* a variable declaration, a function head, a field) is one token "name"   *)
(* that parses or does not; a failed phrase has consumed at least what it  *)
(* started with.  "other" is every token no function looks for.  A file    *)
(* border and the effect of an import are in ModuleLoading.                *)
(***************************************************************************)
EXTENDS Integers, Sequences, FiniteSets

CONSTANT MaxTokens   \* tokens a file holds at most

ASSUME MaxTokensAssumption == MaxTokens \in Nat

VARIABLES
  cur,       \* state.current_token
  left,      \* tokens the file may still hold
  frames,    \* C stack: Seq([in, at, flag])
  scopes,    \* depths of current.scope and its parents, the module first
  ret,       \* what the call that just returned gave its caller
  hadError,  \* state.had_error
  needSync,  \* state.need_sync
  failed,    \* failedInFunctionDecl
  open,      \* '{' read less '}' read (no variable of the code)
  phase      \* "parse", "done", or "abort" after a failed VERIFY

tokenVars == <<cur, left, open>>
flagVars == <<hadError, needSync, failed>>
vars == <<tokenVars, frames, scopes, ret, flagVars, phase>>

Tokens == {"fn", "struct", "var", "import", "if", "else", "while", "return", "defer",
           "expect", "{", "}", "name", ";", "other", "EOF"}

\* ScopeDepth: a block inside a block counts on from Block.
ModuleNamespace == -1
Struct == 0
Block == 1

Functions == {"module", "fn", "struct", "block", "deferBlock", "if", "while", "defer",
              "expect", "braces"}
Places == {"item", "decl", "sync", "skip", "head", "brace", "end", "cond", "then", "thenDone",
           "elseQ", "else", "elseIfDone", "elseDone", "tail", "start", "loop", "check",
           "fields", "badField", "methods", "badMethod", "method"}
Frame(function, place) == [in |-> function, at |-> place, flag |-> FALSE]

Top == frames[Len(frames)]
In(function, place) == phase = "parse" /\ Top.in = function /\ Top.at = place
Scope == scopes[Len(scopes)]

-----------------------------------------------------------------------------
(* Pieces of steps.                                                        *)
Following == IF left = 0 THEN {"EOF"} ELSE Tokens

\* advance()
Advance ==
  \E t \in Following :
    /\ cur' = t
    /\ left' = IF t = "EOF" THEN 0 ELSE left - 1
    /\ open' = open + (IF cur = "{" THEN 1 ELSE IF cur = "}" THEN -1 ELSE 0)

\* add_error()
Report == hadError' = TRUE /\ needSync' = TRUE /\ UNCHANGED failed
NoReport == UNCHANGED flagVars

\* enterScope(): the depth of the new scope, and the VERIFYs on its parent.
MutDepth(kind) == kind
Depth(kind) == IF Scope = ModuleNamespace THEN kind ELSE IF Scope = Struct THEN Block ELSE Scope + 1
MayEnter(kind) == Scope = ModuleNamespace \/ kind = Block
Entered(kind) == Append(scopes, Depth(kind))
\* leaveScope()
MutLeft == scopes
Left == SubSeq(scopes, 1, Len(scopes) - 1)

Goto(place) == frames' = [frames EXCEPT ![Len(frames)].at = place] /\ ret' = "none"
GotoFlagged(place) ==
  frames' = [frames EXCEPT ![Len(frames)].at = place, ![Len(frames)].flag = TRUE] /\ ret' = "none"
Call(function, first, back) ==
  /\ frames' = Append([frames EXCEPT ![Len(frames)].at = back], Frame(function, first))
  /\ ret' = "none"
Return(r) == frames' = SubSeq(frames, 1, Len(frames) - 1) /\ ret' = r
Fail == Report /\ Return("null")

-----------------------------------------------------------------------------
(* parseModuleBody(): one item per round, then the synchronisation.        *)
ModuleItem ==
  /\ In("module", "item")
  /\ UNCHANGED <<scopes, phase>>
  /\ \/ cur = "var" /\ Advance /\ (NoReport \/ Report) /\ Goto("sync")
     \/ /\ cur = "import"
        /\ Advance
        /\ \/ NoReport /\ Goto("sync")
           \/ Report /\ Goto("item")          \* `continue`
     \/ cur = "fn" /\ Advance /\ NoReport /\ Call("fn", "head", "decl")
     \/ cur = "struct" /\ Advance /\ NoReport /\ Call("struct", "head", "decl")
     \/ /\ cur \notin {"var", "import", "fn", "struct", "EOF"}
        /\ hadError' = TRUE /\ needSync' = TRUE /\ failed' = TRUE
        /\ Goto("sync")
        /\ UNCHANGED tokenVars

\* A declaration that parsed may still be a redeclaration.
ModuleDeclared ==
  /\ In("module", "decl")
  /\ IF ret = "null"
     THEN failed' = TRUE /\ UNCHANGED <<hadError, needSync>>
     ELSE NoReport \/ Report
  /\ Goto("sync")
  /\ UNCHANGED <<tokenVars, scopes, phase>>

(* synchronizeToDecl() unwinds the scopes, synchronizeToFnStructDecl()     *)
(* does not; the flag remembers that the first one started in a struct.    *)
Unwound == <<ModuleNamespace>>
ModuleSync ==
  /\ In("module", "sync")
  /\ needSync' = FALSE
  /\ \/ ~needSync /\ Goto("item") /\ UNCHANGED scopes
     \/ needSync /\ failed /\ Goto("skip") /\ UNCHANGED scopes
     \/ /\ needSync /\ ~failed
        /\ IF Scope = Struct THEN GotoFlagged("skip") ELSE Goto("skip")
        /\ scopes' = Unwound
  /\ UNCHANGED <<tokenVars, hadError, failed, phase>>

DeclStarts ==
  IF failed THEN {"fn", "struct"}
  ELSE {"var", "struct", "import"} \cup (IF Top.flag THEN {} ELSE {"fn"})
ModuleSkip ==
  /\ In("module", "skip")
  /\ IF cur \in DeclStarts \cup {"EOF"}
     THEN /\ frames' = <<Frame("module", "item")>>
          /\ UNCHANGED <<tokenVars, ret>>
     ELSE Advance /\ UNCHANGED <<frames, ret>>
  /\ UNCHANGED <<scopes, flagVars, phase>>

ModuleEnd ==
  /\ In("module", "item")
  /\ cur = "EOF"
  /\ phase' = "done"
  /\ scopes' = <<>>
  /\ UNCHANGED <<tokenVars, frames, ret, flagVars>>

-----------------------------------------------------------------------------
(* Blocks with a scope of their own.  `back` is where the frame continues. *)
OpenBlock(function, back) ==
  /\ cur = "{"
  /\ Advance
  /\ scopes' = Entered(Block)
  /\ Call(function, "loop", back)
  /\ UNCHANGED <<flagVars, phase>>

\* consume() fails: nothing is read.
NotConsumed(token) == cur /= token /\ Fail /\ UNCHANGED <<tokenVars, scopes, phase>>

\* parseExpression(): reads the token it cannot start with, too.
Expression(place) ==
  /\ Advance
  /\ \/ cur = "name" /\ NoReport /\ Goto(place)
     \/ Fail
  /\ UNCHANGED <<scopes, phase>>

\* parseFunctionDecl(); the head is "name ( parameters ) -> type".
FnHead ==
  /\ In("fn", "head")
  /\ (cur = "name" /\ Expression("brace")) \/ NotConsumed("name")
FnBrace ==
  /\ In("fn", "brace")
  /\ OpenBlock("block", "end") \/ NotConsumed("{")

\* parseWhileLoop(), and the end of parseExpectStmt().
WhileCond == In("while", "cond") /\ Expression("brace")
BodyBrace ==
  /\ In("while", "brace") \/ In("expect", "brace")
  /\ OpenBlock("block", "end") \/ NotConsumed("{")
ExpectCond == In("expect", "cond") /\ Expression("tail")
ExpectTail ==
  /\ In("expect", "tail")
  /\ \/ cur = ";" /\ Advance /\ NoReport /\ Return("ok")
     \/ cur = "else" /\ Advance /\ NoReport /\ Goto("brace")
     \/ cur \notin {";", "else"} /\ Fail /\ UNCHANGED tokenVars
  /\ UNCHANGED <<scopes, phase>>

\* parseDeferStmt(): the depth of the scope tells where the statement is.
OutsideFunction == Scope > Block
DeferStart ==
  /\ In("defer", "start")
  /\ \/ OutsideFunction /\ Fail /\ UNCHANGED <<tokenVars, scopes, phase>>
     \/ ~OutsideFunction /\ OpenBlock("deferBlock", "end")
     \/ /\ ~OutsideFunction /\ cur /= "{"
        /\ Advance
        /\ (cur = "name" /\ NoReport /\ Return("ok")) \/ Fail
        /\ UNCHANGED <<scopes, phase>>

\* These leave the scope before they look at what the block returned.
BlockEnd ==
  /\ \E f \in {"fn", "while", "expect", "defer", "braces"} : In(f, "end")
  /\ scopes' = Left
  /\ Return(IF ret = "null" THEN "null" ELSE "ok")
  /\ UNCHANGED <<tokenVars, flagVars, phase>>

(* parseIfStmt() enters the scope before it consumes '{' and returns from  *)
(* a failure without leaving it.                                           *)
IfCond ==
  /\ In("if", "cond")
  /\ Advance
  /\ \/ cur = "name" /\ NoReport /\ Goto("then") /\ scopes' = Entered(Block)
     \/ Fail /\ UNCHANGED scopes
  /\ UNCHANGED phase
IfThen ==
  /\ In("if", "then")
  /\ \/ cur = "{" /\ Advance /\ NoReport /\ Call("block", "loop", "thenDone") /\ UNCHANGED <<scopes, phase>>
     \/ NotConsumed("{")
IfThenDone ==
  /\ In("if", "thenDone")
  /\ IF ret = "null" THEN Return("null") /\ UNCHANGED scopes ELSE Goto("elseQ") /\ scopes' = Left
  /\ UNCHANGED <<tokenVars, flagVars, phase>>
IfElseQ ==
  /\ In("if", "elseQ")
  /\ IF cur = "else" THEN Advance /\ Goto("else") ELSE Return("ok") /\ UNCHANGED tokenVars
  /\ UNCHANGED <<scopes, flagVars, phase>>
IfElse ==
  /\ In("if", "else")
  /\ \/ /\ cur = "if" /\ Advance /\ NoReport
        /\ Call("if", "cond", "elseIfDone")
        /\ UNCHANGED <<scopes, phase>>
     \/ OpenBlock("block", "elseDone")
     \/ cur /= "if" /\ NotConsumed("{")
IfElseDone ==
  /\ In("if", "elseDone") \/ In("if", "elseIfDone")
  /\ scopes' = IF ret = "null" \/ Top.at = "elseIfDone" THEN scopes ELSE Left
  /\ Return(IF ret = "null" THEN "null" ELSE "ok")
  /\ UNCHANGED <<tokenVars, flagVars, phase>>

-----------------------------------------------------------------------------
(* parseBlockStmt() with one of its two callbacks.  The statements that    *)
(* open no block are read in one step, `result` is what they return.       *)
Statement(result, starts) ==
  /\ Advance
  /\ \/ starts /\ NoReport /\ ret' = result
     \/ Report /\ ret' = "null"
  /\ frames' = [frames EXCEPT ![Len(frames)].at = "check"]
  /\ UNCHANGED <<scopes, phase>>

BlockStatement ==
  /\ In("block", "loop")
  /\ \/ cur = "var" /\ Statement("ok", TRUE)
     \* a redeclared variable is reported and still a node
     \/ /\ cur = "var" /\ Advance /\ Report /\ ret' = "ok"
        /\ frames' = [frames EXCEPT ![Len(frames)].at = "check"]
        /\ UNCHANGED <<scopes, phase>>
     \/ cur = "return" /\ Statement("return", TRUE)
     \/ cur \notin {"var", "return", "if", "while", "defer", "expect", "{", "}", "EOF"}
        /\ Statement("ok", cur = "name")
DeferBlockStatement ==
  /\ In("deferBlock", "loop")
  /\ cur \notin {"}", "EOF"}
  /\ Statement("ok", cur = "name")
BlockCompound ==
  /\ In("block", "loop")
  /\ cur \in {"if", "while", "defer", "expect", "{"}
  /\ Advance
  /\ IF cur = "{"
     THEN /\ frames' = [frames EXCEPT ![Len(frames)].at = "check"]
                         \o <<Frame("braces", "end"), Frame("block", "loop")>>
          /\ ret' = "none"
          /\ scopes' = Entered(Block)
     ELSE /\ Call(cur, IF cur = "defer" THEN "start" ELSE "cond", "check")
          /\ UNCHANGED scopes
  /\ UNCHANGED <<flagVars, phase>>

BlockCheck ==
  /\ In("block", "check") \/ In("deferBlock", "check")
  /\ \/ ret = "null" /\ NoReport /\ Goto("sync")
     \/ ret = "return" /\ NoReport /\ GotoFlagged("loop")
     \/ ret = "ok" /\ ~Top.flag /\ NoReport /\ Goto("loop")
     \/ ret = "ok" /\ Top.flag /\ Fail                    \* Unreachable code.
  /\ UNCHANGED <<tokenVars, scopes, phase>>

\* synchronizeInBlock()
MutStatementStarts == {"}", "var", "return", "if", "while", "defer"}
StatementStarts == {"EOF", "}", "var", "return", "if", "while", "defer"}
BlockSync ==
  /\ In("block", "sync") \/ In("deferBlock", "sync")
  /\ IF cur \in StatementStarts THEN Goto("loop") /\ UNCHANGED tokenVars
                                 ELSE Advance /\ UNCHANGED <<frames, ret>>
  /\ UNCHANGED <<scopes, flagVars, phase>>

MutCloses == cur \in {"}", "EOF"}
Closes == cur = "}"
BlockClose ==
  /\ In("block", "loop") \/ In("deferBlock", "loop")
  /\ cur \in {"}", "EOF"}
  /\ IF Closes THEN Advance /\ NoReport /\ Return("ok") ELSE Fail /\ UNCHANGED tokenVars
  /\ UNCHANGED <<scopes, phase>>

-----------------------------------------------------------------------------
(* parseStructDecl(): the fields, then the methods.                        *)
StructHead ==
  /\ In("struct", "head")
  /\ \/ cur = "name" /\ Advance /\ NoReport /\ Goto("brace") /\ UNCHANGED <<scopes, phase>>
     \/ NotConsumed("name")
StructBrace ==
  /\ In("struct", "brace")
  /\ \/ /\ cur = "{" /\ Advance /\ NoReport
        /\ IF MayEnter(Struct)
           THEN scopes' = Entered(Struct) /\ Goto("fields") /\ UNCHANGED phase
           ELSE phase' = "abort" /\ UNCHANGED <<scopes, frames, ret>>
     \/ NotConsumed("{")

\* A redefined field is reported but does not count as an error here.
StructField ==
  /\ In("struct", "fields")
  /\ cur \notin {"}", "fn"}
  /\ IF cur = "name"
     THEN /\ Advance
          /\ \/ NoReport /\ UNCHANGED <<frames, ret>>
             \/ Report /\ UNCHANGED <<frames, ret>>
             \/ Report /\ GotoFlagged("fields")
     ELSE Goto("badField") /\ UNCHANGED <<tokenVars, flagVars>>
  /\ UNCHANGED <<scopes, phase>>
StructFieldsDone ==
  /\ In("struct", "fields")
  /\ cur \in {"}", "fn"}
  /\ IF Top.flag THEN Return("null") ELSE Goto("methods")
  /\ UNCHANGED <<tokenVars, scopes, flagVars, phase>>

\* "Advance anyway to prevent infinite loop here."
StructBadMember ==
  /\ \/ In("struct", "badField") /\ Goto("fields")
     \/ In("struct", "badMethod") /\ Goto("methods")
  /\ Advance
  /\ Report
  /\ UNCHANGED <<scopes, phase>>

StructMethod ==
  /\ In("struct", "methods")
  /\ cur /= "}"
  /\ IF cur = "fn" THEN Advance /\ Call("fn", "head", "method")
                   ELSE Goto("badMethod") /\ UNCHANGED tokenVars
  /\ UNCHANGED <<scopes, flagVars, phase>>
StructMethodDone ==
  /\ In("struct", "method")
  /\ Goto(IF ret = "null" THEN "skip" ELSE "methods")
  /\ UNCHANGED <<tokenVars, scopes, flagVars, phase>>
StructSkip ==
  /\ In("struct", "skip")
  /\ IF cur \in {"EOF", "fn", "}"} THEN Goto("methods") /\ UNCHANGED tokenVars
                                   ELSE Advance /\ UNCHANGED <<frames, ret>>
  /\ UNCHANGED <<scopes, flagVars, phase>>
StructClose ==
  /\ In("struct", "methods")
  /\ cur = "}"
  /\ Advance
  /\ scopes' = Left
  /\ Return("ok")
  /\ UNCHANGED <<flagVars, phase>>

-----------------------------------------------------------------------------
ModuleNext == ModuleItem \/ ModuleDeclared \/ ModuleSync \/ ModuleSkip \/ ModuleEnd
StatementNext ==
  \/ FnHead \/ FnBrace \/ WhileCond \/ BodyBrace \/ ExpectCond \/ ExpectTail \/ DeferStart
  \/ BlockEnd \/ IfCond \/ IfThen \/ IfThenDone \/ IfElseQ \/ IfElse \/ IfElseDone
BlockNext ==
  \/ BlockStatement \/ DeferBlockStatement \/ BlockCompound \/ BlockCheck \/ BlockSync
  \/ BlockClose
StructNext ==
  \/ StructHead \/ StructBrace \/ StructField \/ StructFieldsDone \/ StructBadMember
  \/ StructMethod \/ StructMethodDone \/ StructSkip \/ StructClose
Next == ModuleNext \/ StatementNext \/ BlockNext \/ StructNext

\* parserParse() has read the first token and parseModuleBody() set the scope.
Init ==
  /\ cur \in Tokens
  /\ left = IF cur = "EOF" THEN 0 ELSE MaxTokens
  /\ frames = <<Frame("module", "item")>>
  /\ scopes = <<ModuleNamespace>>
  /\ ret = "none"
  /\ hadError = FALSE
  /\ needSync = FALSE
  /\ failed = FALSE
  /\ open = 0
  /\ phase = "parse"

\* The parser is one thread: it always takes its next step.
Spec == Init /\ [][Next]_vars /\ WF_vars(Next)

-----------------------------------------------------------------------------
ParserTypeOK ==
  /\ cur \in Tokens
  /\ left \in 0..MaxTokens
  /\ \A i \in DOMAIN frames :
       frames[i] \in [in : Functions, at : Places, flag : BOOLEAN]
  /\ \A i \in DOMAIN scopes : scopes[i] \in -1..(MaxTokens + 1)
  /\ ret \in {"none", "ok", "return", "null"}
  /\ {hadError, needSync, failed} \subseteq BOOLEAN
  /\ open \in Int
  /\ phase \in {"parse", "done", "abort"}

\* The scopes the functions on the C stack have entered and not left.
HoldsScope(f) ==
  \/ f.at = "end"
  \/ f.in = "if" /\ f.at \in {"then", "thenDone", "elseDone"}
  \/ f.in = "struct" /\ f.at \notin {"head", "brace"}
HeldScopes == Cardinality({i \in DOMAIN frames : HoldsScope(frames[i])})

(* As long as there is no error, the scope chain mirrors the C stack: each *)
(* function that is inside its braces owns one scope, whatever nesting of  *)
(* if, else, expect, defer and bare blocks led there.                      *)
ScopesMirrorFrames == phase = "parse" /\ ~hadError => Len(scopes) = 1 + HeldScopes

(* "'defer' only allowed in function scope" is decided by the depth of the *)
(* current scope alone.  Whatever was leaked before, no defer is parsed    *)
(* whose block is not the block of a function or method.                   *)
DeferOnlyInFunctionBlock ==
  \A i \in DOMAIN frames :
    frames[i].in = "defer" /\ frames[i].at = "end" =>
      frames[i - 1].in = "block" /\ frames[i - 2].in = "fn"

(* A file without errors has balanced braces: no function took a brace for *)
(* its own that belongs to another one, or stopped before its own.         *)
AcceptedIsBalanced == phase = "done" /\ ~hadError => open = 0

(* The VERIFYs of enterScope() only fail in a file with syntax errors.     *)
AbortsOnlyAfterError == phase = "abort" => hadError

(* Every loop of the parser ends at the end of the file, with the only     *)
(* exception of the two loops of parseStructDecl().                        *)
AtEofInStruct ==
  cur = "EOF" /\ Top.in = "struct" /\ Top.at \in {"fields", "badField", "methods", "badMethod"}
ParsingEnds == <>(phase /= "parse" \/ AtEofInStruct)

(* parseStructDecl() advances over a token it does not know "to prevent    *)
(* infinite loop here" (Parser.c:1117, 1138): parsing always ends.         *)
ParsingAlwaysEnds == <>(phase /= "parse")

(* "The only scope allowed as a child of a struct scope is a block scope   *)
(* for a method" and a struct is only entered from a module: the VERIFYs   *)
(* of enterScope() (Parser.c:184, 189) hold for every file.                *)
ScopeRulesHold == phase /= "abort"
=============================================================================
