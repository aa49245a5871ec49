--------------------------- MODULE FunctionBodies ---------------------------
(***************************************************************************)
(* How the code generator prints the bodies of functions in C, and what    *)
(* the C does when it runs.  genStmt() walks over the statements in text   *)
(* order; deferred statements are only remembered, in an array that all    *)
(* functions share, and printed behind the label every `return` jumps to.  *)
(*                                                                         *)
(* C is a sequence of instructions [c, of, ...]: the kind, the statement   *)
(* it was printed for and, for `if`, whether the condition is negated.     *)
(* `if`, `else` and `for` open a block.                                    *)
(***************************************************************************)
EXTENDS Integers, Sequences, FiniteSets, FiniteSetsExt

CONSTANT NoValue

ASSUME NoValueAssumption == NoValue \notin Nat

VARIABLES
  functions,     \* the functions in the order they are generated: Seq([body, valued])
  generating,    \* currentFn: the one that is generated
  next,          \* the statement that is printed
  defers,        \* defersInCurrentFn
  text,          \* the C of the function
  pc,            \* the instruction that runs
  return_value,  \* the return statement that set it, NoValue: not initialized
  event,         \* what ran last
  phase          \* "print", "run", "returned" or "exited"

vars == <<functions, generating, next, defers, text, pc, return_value, event, phase>>

currentFn == functions[generating]
Body == currentFn.body

-----------------------------------------------------------------------------
C(kind, i) == [c |-> kind, of |-> i]
CIf(i, negated) == [c |-> "if", of |-> i, negated |-> negated]

\* What genStmt() prints for a statement.
Printed(i) ==
  CASE Body[i].op = "call" -> <<C("expr", i)>>
    [] Body[i].op = "return" ->
         IF currentFn.valued THEN <<C("set", i), C("goto", i)>> ELSE <<C("goto", i)>>
    [] Body[i].op = "if" -> <<CIf(i, FALSE)>>
    [] Body[i].op = "else" -> <<C("else", i)>>
    [] Body[i].op = "while" -> <<C("for", i)>>
    [] Body[i].op = "expect" -> <<CIf(i, TRUE), C("exit", i), C("}", i)>>
    [] Body[i].op = "expectelse" -> <<CIf(i, TRUE)>>
    [] Body[i].op = "open" -> <<C("{", i)>>
    [] Body[i].op = "close" -> <<C("}", i)>>
    [] Body[i].op = "defer" -> <<>>

Remembered(i) == IF Body[i].op = "defer" THEN Append(defers, i) ELSE defers

GenStmt ==
  /\ phase = "print"
  /\ next <= Len(Body)
  /\ text' = text \o Printed(next)
  /\ defers' = Remembered(next)
  /\ next' = next + 1
  /\ UNCHANGED <<functions, generating, pc, return_value, event, phase>>

MutCleared == defers
Cleared == <<>>

\* The label, the defers in the order they were met, and the only return.
Ending == <<C("label", 0)>> \o [k \in DOMAIN defers |-> C("expr", defers[k])] \o <<C("return", 0)>>

\* A function is printed; the last one is run.
GenFunction ==
  /\ phase = "print"
  /\ next > Len(Body)
  /\ IF generating < Len(functions)
     THEN /\ generating' = generating + 1
          /\ next' = 1
          /\ defers' = Cleared
          /\ text' = <<>>
          /\ UNCHANGED <<pc, phase>>
     ELSE /\ text' = text \o Ending
          /\ pc' = 1
          /\ phase' = "run"
          /\ UNCHANGED <<generating, next, defers>>
  /\ UNCHANGED <<functions, return_value, event>>

-----------------------------------------------------------------------------
(* C, as far as it is used.                                                *)
Instr == text[pc]
Runs(kind) == phase = "run" /\ Instr.c = kind

OpensBlock(k) == text[k].c \in {"{", "if", "else", "for"}
Depth(from, to) ==
  Cardinality({k \in from..to : OpensBlock(k)}) - Cardinality({k \in from..to : text[k].c = "}"})
Matching(open) == Min({k \in open..Len(text) : Depth(open, k) = 0})
Opening(close) == Max({k \in 1..close : OpensBlock(k) /\ Depth(k, close) = 0})

\* Deferred calls stand behind the label.
Label == CHOOSE k \in DOMAIN text : text[k].c = "label"

RunExpr ==
  /\ Runs("expr")
  /\ event' = <<IF pc > Label THEN "deferred" ELSE "call", Instr.of>>
  /\ pc' = pc + 1
  /\ UNCHANGED <<functions, generating, next, defers, text, return_value, phase>>

\* Behind the block, or in the `else` that follows.
PastBlock == IF text[Matching(pc) + 1].c = "else" THEN Matching(pc) + 2 ELSE Matching(pc) + 1

RunIf ==
  /\ Runs("if")
  /\ \E outcome \in BOOLEAN :
       /\ event' = <<"test", Instr.of, outcome>>
       /\ pc' = IF outcome /= Instr.negated THEN pc + 1 ELSE PastBlock
  /\ UNCHANGED <<functions, generating, next, defers, text, return_value, phase>>

RunFor ==
  /\ Runs("for")
  /\ \E outcome \in BOOLEAN :
       /\ event' = <<"test", Instr.of, outcome>>
       /\ pc' = IF outcome THEN pc + 1 ELSE Matching(pc) + 1
  /\ UNCHANGED <<functions, generating, next, defers, text, return_value, phase>>

RunBrace ==
  /\ phase = "run"
  /\ Instr.c \in {"{", "}", "else", "label"}
  /\ pc' = IF Instr.c = "else" THEN Matching(pc) + 1
           ELSE IF Instr.c = "}" /\ text[Opening(pc)].c = "for" THEN Opening(pc)
           ELSE pc + 1
  /\ UNCHANGED <<functions, generating, next, defers, text, return_value, event, phase>>

RunSet ==
  /\ Runs("set")
  /\ return_value' = Instr.of
  /\ pc' = pc + 1
  /\ UNCHANGED <<functions, generating, next, defers, text, event, phase>>

RunGoto ==
  /\ Runs("goto")
  /\ pc' = Label
  /\ UNCHANGED <<functions, generating, next, defers, text, return_value, event, phase>>

RunExit ==
  /\ Runs("exit")
  /\ phase' = "exited"
  /\ UNCHANGED <<functions, generating, next, defers, text, pc, return_value, event>>

RunReturn ==
  /\ Runs("return")
  /\ phase' = "returned"
  /\ UNCHANGED <<functions, generating, next, defers, text, pc, return_value, event>>

PrintBodies == GenStmt \/ GenFunction
Run == RunExpr \/ RunIf \/ RunFor \/ RunBrace \/ RunSet \/ RunGoto \/ RunExit \/ RunReturn
Next == PrintBodies \/ Run

\* What the parser makes of a body: blocks are closed and properly nested, and an `else` follows
\* the block of its `if`.  (It also refuses statements behind a return and defers inside blocks.)
Ops == {"call", "return", "defer", "if", "else", "while", "expect", "expectelse", "open", "close"}
Opens(op) == op \in {"if", "else", "while", "expectelse", "open"}
Parsed(body) ==
  /\ body \in Seq([op : Ops, end : Nat])
  /\ \A i \in DOMAIN body :
       /\ Opens(body[i].op) => body[i].end \in (i + 1)..Len(body) /\ body[body[i].end].op = "close"
       /\ ~Opens(body[i].op) => body[i].end = i
       /\ body[i].op = "close" => \E j \in 1..(i - 1) : Opens(body[j].op) /\ body[j].end = i
       /\ body[i].op = "else" => \E j \in 1..(i - 1) : body[j].op = "if" /\ body[j].end = i - 1
  /\ \A i, j \in DOMAIN body :
       i < j /\ Opens(body[i].op) /\ Opens(body[j].op) => body[i].end < j \/ body[j].end < body[i].end

ParsedProgram(program) ==
  /\ program \in Seq([body : Seq([op : Ops, end : Nat]), valued : BOOLEAN]) \ {<<>>}
  /\ \A k \in DOMAIN program : Parsed(program[k].body)

BodiesInit(programs) ==
  /\ functions \in programs
  /\ generating = 1
  /\ next = 1
  /\ defers = <<>>
  /\ text = <<>>
  /\ pc = 0
  /\ return_value = NoValue
  /\ event = NoValue
  /\ phase = "print"

-----------------------------------------------------------------------------
(* Where the running C stands in the source.                               *)
Source == functions[Len(functions)]
SourceEnd == Len(Source.body) + 1
IsDefer(i) == i < SourceEnd /\ Source.body[i].op = "defer"
DefersBefore(i) == {j \in 1..(i - 1) : IsDefer(j)}
Undeferred == {i \in DOMAIN Source.body : ~IsDefer(i)}

\* The value is set and the jump to the label still to come, or it has been taken.
Leaving == pc >= Label \/ (Instr.c = "goto" /\ return_value = Instr.of)

SourceAt ==
  IF phase = "print" THEN Min(Undeferred \cup {SourceEnd})
  ELSE IF Leaving THEN SourceEnd ELSE Instr.of

\* The deferred calls that are printed and have not run.
ToRun == {k \in Label + 1..Len(text) - 1 : k >= pc}

SourcePending ==
  IF phase /= "print" /\ Leaving THEN {text[k].of : k \in ToRun} ELSE DefersBefore(SourceAt)

SourceState ==
  IF phase = "print" \/ (phase = "run" /\ Instr.c /= "exit") THEN "running"
  ELSE IF phase = "returned" THEN "returned" ELSE "exited"

Semantics == INSTANCE BodySemantics WITH
  body <- Source.body, valued <- Source.valued, at <- SourceAt, pending <- SourcePending,
  value <- return_value, state <- SourceState

(* The C of a function does what its statements say: the same calls and    *)
(* tests in the same order, each deferred call once when the function is   *)
(* left, and the value of the return that was taken.  BodySemantics leaves *)
(* two things open that the compiler settles in its own way: a return also *)
(* runs the defers it has jumped over (OnlyReachedDefersRun), and the      *)
(* deferred calls run in the order of the text (LastDeferredFirst).        *)
ImplementsBody == Semantics!BodySpec

(* "The defer statement defers the execution of a function call until the  *)
(* parent function returns" (SPEC.md:1001): the call of a                  *)
(* defer that is never reached is not made.                                *)
OnlyReachedDefersRun ==
  [][event' /= event /\ event'[1] = "deferred" /\ return_value /= NoValue
       => event'[2] < return_value]_vars

(* "value will end as 42" (tester/simple_defer.ilc:3): the block that adds *)
(* 12 to 15 is deferred first, `value = value * 2` behind it, so the call  *)
(* deferred last must run first.  The compiler begins with the first       *)
(* (Codegen.c:340) and ends with 54.                                       *)
LastDeferredFirst ==
  event /= NoValue /\ event[1] = "deferred" => \A d \in SourcePending : d < event[2]
=============================================================================
