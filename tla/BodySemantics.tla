---------------------------- MODULE BodySemantics ----------------------------
(***************************************************************************)
(* What the body of a function does, statement by statement, as its text   *)
(* in the source language says.  A body is the sequence of its statements  *)
(* in text order; a statement that opens a block knows where the block     *)
(* ends.  All expressions are calls: running one is an event, and the      *)
(* outcome of a condition is the environment's choice.                     *)
(*                                                                         *)
(* Statements: call, return, defer, if, else, while, open (a bare block),  *)
(* expect, expectelse (`expect c else {...}`) and close.                   *)
(***************************************************************************)
EXTENDS Integers, Sequences

CONSTANT NoValue

VARIABLES
  body,     \* the statements: Seq([op, end])
  valued,   \* the function returns a value
  at,       \* the statement to run, Len(body) + 1 when the function is left
  pending,  \* the deferred calls that will run: set of statements
  value,    \* the return statement that gave the value, or NoValue
  event,    \* what ran last
  state     \* "running", "returned" or "exited"

bodyVars == <<body, valued, at, pending, value, event, state>>

End == Len(body) + 1
IsDefer(i) == i < End /\ body[i].op = "defer"

\* Running a `defer` is all but invisible: it is run with the statement before it.
Reached(i) == CHOOSE k \in i..End : ~IsDefer(k) /\ \A j \in i..(k - 1) : IsDefer(j)

DefersBefore(i) == {j \in 1..(i - 1) : IsDefer(j)}

Running(op) == state = "running" /\ at < End /\ body[at].op = op

GoTo(i) ==
  /\ at' = Reached(i)
  /\ pending' = DefersBefore(at')

\* After the block that statement i opens, in its `else` if there is one.
Otherwise(i) ==
  LET k == body[i].end + 1 IN IF k < End /\ body[k].op = "else" THEN k + 1 ELSE k

-----------------------------------------------------------------------------
Call ==
  /\ Running("call")
  /\ event' = <<"call", at>>
  /\ GoTo(at + 1)
  /\ UNCHANGED <<body, valued, value, state>>

\* A condition and where its two outcomes lead.
Test(op, yes, no) ==
  /\ Running(op)
  /\ \E outcome \in BOOLEAN :
       /\ event' = <<"test", at, outcome>>
       /\ GoTo(IF outcome THEN yes ELSE no)
  /\ UNCHANGED <<body, valued, value, state>>

If == Test("if", at + 1, Otherwise(at))
While == Test("while", at + 1, body[at].end + 1)
ExpectElse == Test("expectelse", body[at].end + 1, at + 1)

\* "Failed expect!": the program ends, without its deferred calls.
Expect ==
  /\ Running("expect")
  /\ \E outcome \in BOOLEAN :
       /\ event' = <<"test", at, outcome>>
       /\ IF outcome THEN GoTo(at + 1) /\ UNCHANGED state
          ELSE state' = "exited" /\ UNCHANGED <<at, pending>>
  /\ UNCHANGED <<body, valued, value>>

\* The branch before an `else` is done.
Else ==
  /\ Running("else")
  /\ GoTo(body[at].end + 1)
  /\ UNCHANGED <<body, valued, value, event, state>>

Open ==
  /\ Running("open")
  /\ GoTo(at + 1)
  /\ UNCHANGED <<body, valued, value, event, state>>

Opener(i) == CHOOSE j \in 1..i : body[j].op /= "close" /\ body[j].end = i

Close ==
  /\ Running("close")
  /\ GoTo(IF body[Opener(at)].op = "while" THEN Opener(at) ELSE at + 1)
  /\ UNCHANGED <<body, valued, value, event, state>>

\* A return leaves the function with the deferred calls it has reached.  The compiler
\* does not keep to that: it also runs those the return has jumped over.
Return ==
  /\ Running("return")
  /\ at' = End
  /\ pending' \in {pending, DefersBefore(End)}
  /\ value' = IF valued THEN at ELSE value
  /\ UNCHANGED <<body, valued, event, state>>

\* Each deferred call runs once.  In which order is left open: the language's examples want the
\* last one deferred first (tester/simple_defer.ilc:3, files/defer_new.c:86), the compiler begins
\* with the first.
Deferred ==
  /\ state = "running"
  /\ at = End
  /\ \E d \in pending :
       /\ event' = <<"deferred", d>>
       /\ pending' = pending \ {d}
  /\ UNCHANGED <<body, valued, at, value, state>>

Leave ==
  /\ state = "running"
  /\ at = End
  /\ pending = {}
  /\ state' = "returned"
  /\ UNCHANGED <<body, valued, at, pending, value, event>>

BodyNext ==
  \/ Call \/ If \/ While \/ Expect \/ ExpectElse
  \/ Else \/ Open \/ Close \/ Return \/ Deferred \/ Leave

BodyInit ==
  /\ at = Reached(1)
  /\ pending = DefersBefore(at)
  /\ value = NoValue
  /\ event = NoValue
  /\ state = "running"

BodySpec == BodyInit /\ [][BodyNext]_bodyVars
=============================================================================
