-------------------------- MODULE MCFunctionBodies --------------------------
(***************************************************************************)
(* All bodies of up to six statements that the parser lets through, with   *)
(* and without a value to return, generated after a function that has a    *)
(* defer of its own.                                                       *)
(***************************************************************************)
EXTENDS FunctionBodies

Level(ops, from, to) ==
  Cardinality({k \in from..to : Opens(ops[k])}) - Cardinality({k \in from..to : ops[k] = "close"})
BlockEnd(ops, i) == IF Opens(ops[i]) THEN Min({k \in i..Len(ops) : Level(ops, i, k) = 0}) ELSE i
OpenerOf(ops, i) == Max({j \in 1..i : Opens(ops[j]) /\ Level(ops, j, i) = 0})

\* A block is open where it is closed, an `else` follows the block of an `if`, nothing follows a
\* `return` in its block and a `defer` stands in no block.
MayFollow(ops, op) ==
  LET n == Len(ops) IN
  /\ op \in {"close", "else"} => n > 0
  /\ op = "close" => Level(ops, 1, n) > 0
  /\ op = "else" => ops[n] = "close" /\ ops[OpenerOf(ops, n)] = "if"
  /\ op = "defer" => Level(ops, 1, n) = 0
  /\ n > 0 /\ ops[n] = "return" => op = "close"

Longer(texts) == {Append(p[1], p[2]) : p \in {q \in texts \X Ops : MayFollow(q[1], q[2])}}

\* Up to six statements.
Beginnings ==
  LET one == Longer({<<>>})
      two == Longer(one)
      three == Longer(two)
      four == Longer(three)
      five == Longer(four)
  IN {<<>>} \cup one \cup two \cup three \cup four \cup five \cup Longer(five)

Texts == {ops \in Beginnings : Level(ops, 1, Len(ops)) = 0}
Bodies == {[i \in DOMAIN ops |-> [op |-> ops[i], end |-> BlockEnd(ops, i)]] : ops \in Texts}

Earlier == [body |-> <<[op |-> "defer", end |-> 1]>>, valued |-> FALSE]
Programs == {<<Earlier, [body |-> b, valued |-> v]>> : b \in Bodies, v \in BOOLEAN}

ASSUME ProgramsAreParsed == \A p \in Programs : ParsedProgram(p)

Stopped == phase \in {"returned", "exited"} /\ UNCHANGED vars
MCSpec == BodiesInit(Programs) /\ [][Next \/ Stopped]_vars
=============================================================================
