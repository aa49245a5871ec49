--------------------------- MODULE NameResolution ---------------------------
(***************************************************************************)
(* How the validator finds the object every name of a module stands for.   *)
(* It walks the parsed module and builds the checked scopes as it goes:    *)
(* module variables first, then the structs, each with its fields and      *)
(* methods, then the functions.  A name is looked up in the scopes built   *)
(* so far, from the innermost block to the module.  The members of a scope *)
(* come out of hash tables, in any order.                                  *)
(*                                                                         *)
(* The modules imported are validated before, their scopes are complete.   *)
(* Types (TypeRegistry) are validated before the names, too.  Expressions  *)
(* are reduced to the one name they contain; a chain a.b.c of property     *)
(* accesses to its first link; loops and `expect` to `if`.                 *)
(*                                                                         *)
(* A scope is named <<module, struct>>, a body <<module, struct, function>>*)
(* where struct is NoName at module level.                                 *)
(***************************************************************************)
EXTENDS Integers, Sequences, FiniteSets, SequencesExt, FiniteSetsExt

CONSTANTS
  Self,      \* the module validated
  Imports,   \* the modules it imports
  ImportedScopes,   \* their scopes: [scope -> set of objects]
  NoName

ASSUME ImportsAssumption == Self \notin Imports /\ NoName \notin Imports \cup {Self}

ImportedTypes == {s \in DOMAIN ImportedScopes : s[2] /= NoName}

\* A scope has no two objects of one name (scopeAddObject()); a struct has a scope of its own.
ASSUME ImportedScopesAssumption ==
  /\ \A m \in Imports : <<m, NoName>> \in DOMAIN ImportedScopes
  /\ \A s \in ImportedTypes :
       /\ <<s[1], NoName>> \in DOMAIN ImportedScopes
       /\ \E o \in ImportedScopes[<<s[1], NoName>>] : o.kind = "struct" /\ o.name = s[2]
  /\ \A s \in DOMAIN ImportedScopes :
       /\ s = <<s[1], s[2]>> /\ s[1] /= Self
       /\ \A o, p \in ImportedScopes[s] : o.name = p.name => o = p
       /\ \A o \in ImportedScopes[s] :
            /\ o = [kind |-> o.kind, owner |-> s, name |-> o.name, type |-> o.type, at |-> 0]
            /\ o.kind \in {"var", "fn", "struct"}
            /\ o.type \in ImportedTypes \cup {NoName}
            /\ o.kind = "struct" =>
                 s[2] = NoName /\ o.name /= NoName /\ <<s[1], o.name>> \in DOMAIN ImportedScopes

VARIABLES
  program,   \* the parsed module
  scopes,    \* the checked namespaces: [scope -> set of objects]
  blocks,    \* the checked block scopes: Seq([objects, failed]), the innermost last
  inside,    \* the struct whose scope is entered, or NoName
  todo,      \* the structs not yet validated
  left,      \* the methods or functions of the entered scope not yet validated
  body, at,  \* current.function and the statement it is at; NoName
  resolved,  \* what names were found to stand for: set of <<body, statement, object>>
  errors,    \* where errors were reported: set of <<body, statement>>
  phase

vars == <<program, scopes, blocks, inside, todo, left, body, at, resolved, errors, phase>>

ModuleScope == <<Self, NoName>>
Structs == DOMAIN program.structs
Code == program.code[body]
Stmt == Code[at]
Object(kind, owner, name, type, position) ==
  [kind |-> kind, owner |-> owner, name |-> name, type |-> type, at |-> position]
Variables(owner, types) == {Object("var", owner, x, types[x], 0) : x \in DOMAIN types}
Functions(owner, names) == {Object("fn", owner, f, NoName, 0) : f \in names}
StructObject(S) == Object("struct", ModuleScope, S, NoName, 0)

-----------------------------------------------------------------------------
Named(objects, x) == {o \in objects : o.name = x}

MutChain ==
  [i \in DOMAIN blocks |-> blocks[i].objects]
  \o (IF inside = NoName THEN <<>> ELSE <<scopes[<<Self, inside>>]>>)
  \o <<scopes[ModuleScope]>>

\* The current scope and its parents.
Chain ==
  [i \in DOMAIN blocks |-> blocks[Len(blocks) + 1 - i].objects]
  \o (IF inside = NoName THEN <<>> ELSE <<scopes[<<Self, inside>>]>>)
  \o <<scopes[ModuleScope]>>

MutVisible(x) == Named(Chain[1], x)

\* findObjVisibleInCurrentScope(): a set of one object, or of none.
Visible(x) ==
  LET hits == {i \in DOMAIN Chain : Named(Chain[i], x) /= {}}
  IN IF hits = {} THEN {} ELSE Named(Chain[Min(hits)], x)

IsModule(path) == Len(path) = 1 /\ path[1] \in Imports

\* The record S of S::x or m::S::x.
Record(path) ==
  IF path[1] \in Imports THEN Named(scopes[<<path[1], NoName>>], path[2])
  ELSE IF Len(path) = 1 THEN Visible(path[1])
  ELSE {}

\* What the identifier path::x stands for.
Find(path, x) ==
  IF path = <<>> THEN Visible(x)
  ELSE IF IsModule(path) THEN Named(scopes[<<path[1], NoName>>], x)
  ELSE UNION {Named(scopes[<<r.owner[1], r.name>>], x) : r \in {s \in Record(path) : s.kind = "struct"}}

\* The assertion that a record is a struct.
RecordFails(path) ==
  path /= <<>> /\ ~IsModule(path) /\ \E r \in Record(path) : r.kind /= "struct"

Usable(found) == \E o \in found : o.kind /= "struct"

\* x.f: the struct that is the type of x is looked up again in the module that declares it.
FieldsOf(o) == Named(scopes[<<o.type[1], NoName>>], o.type[2])
Field(o, f) == Named(scopes[o.type], f)
HasFields(found) == \E o \in found : o.kind = "var" /\ o.type /= NoName
AccessFails(found) == HasFields(found) /\ \A o \in found : FieldsOf(o) = {}

-----------------------------------------------------------------------------
\* A statement that failed makes its block fail; the block goes on.
Failing(b) == [b EXCEPT ![Len(b)].failed = TRUE]
Opens(s) == s.op \in {"if", "open", "else"}
Block(objects) == [objects |-> objects, failed |-> FALSE]

\* The statement after the block that statement i opens.
Level(code, i, k) ==
  Cardinality({n \in i..k : Opens(code[n])}) - Cardinality({n \in i..k : code[n].op = "close"})
After(i) == 1 + Min({k \in i..Len(Code) : Level(Code, i, k) = 0})
\* An `else` goes with its `if`, it is not validated once that has failed.
IsElse(i) == i <= Len(Code) /\ Code[i].op = "else"
Skip(i) == IF IsElse(After(i)) THEN After(After(i)) ELSE After(i)

Running == phase \in {"structs", "functions"} /\ body /= NoName /\ at <= Len(Code)
InStatement(op) == Running /\ Stmt.op = op

MutFail(next) ==
  /\ blocks' = Failing(blocks)
  /\ at' = next
  /\ UNCHANGED <<resolved, errors, phase>>

Fail(next) ==
  /\ errors' = errors \cup {<<body, at>>}
  /\ blocks' = Failing(blocks)
  /\ at' = next
  /\ UNCHANGED <<resolved, phase>>

Abort ==
  /\ phase' = "aborted"
  /\ UNCHANGED <<blocks, at, resolved, errors>>

Resolved(objects) == resolved' = resolved \cup {<<body, at, o>> : o \in objects}

Kept == UNCHANGED <<program, scopes, inside, todo, left, body>>

\* An expression statement (also return).
Use ==
  /\ InStatement("use")
  /\ IF RecordFails(Stmt.path) THEN Abort
     ELSE IF Usable(Find(Stmt.path, Stmt.name))
     THEN /\ Resolved(Find(Stmt.path, Stmt.name))
          /\ at' = at + 1
          /\ UNCHANGED <<blocks, errors, phase>>
     ELSE Fail(at + 1)
  /\ Kept

Access ==
  /\ InStatement("access")
  /\ LET root == Visible(Stmt.name)
         field == UNION {Field(o, Stmt.field) : o \in root}
     IN IF ~HasFields(root) THEN Fail(at + 1)
        ELSE IF AccessFails(root) THEN Abort
        ELSE IF field = {} THEN Fail(at + 1)
        ELSE /\ Resolved(root \cup field)
             /\ at' = at + 1
             /\ UNCHANGED <<blocks, errors, phase>>
  /\ Kept

\* VERIFY(added == true): the parser lets no second declaration of a name in a block through.
Redeclares == Named(Last(blocks).objects, Stmt.var) /= {}
Declared(type) ==
  [blocks EXCEPT ![Len(blocks)].objects = @ \cup {Object("var", body, Stmt.var, type, at)}]

\* A variable is declared after its initializer is validated, and only if that succeeds.
Declare ==
  /\ InStatement("var")
  /\ IF Redeclares THEN Abort
     ELSE /\ blocks' = Declared(Stmt.type)
          /\ at' = at + 1
          /\ UNCHANGED <<resolved, errors, phase>>
  /\ Kept

TypeFrom(found) == (CHOOSE o \in found : TRUE).type

DeclareFrom ==
  /\ InStatement("init")
  /\ LET found == Find(Stmt.path, Stmt.name)
     IN IF RecordFails(Stmt.path) \/ (Usable(found) /\ Redeclares) THEN Abort
        ELSE IF Usable(found)
        THEN /\ Resolved(found)
             /\ blocks' = Declared(TypeFrom(found))
             /\ at' = at + 1
             /\ UNCHANGED <<errors, phase>>
        ELSE Fail(at + 1)
  /\ Kept

Enter == blocks' = Append(blocks, Block({}))

\* The block of an `if` whose condition fails is not validated.
If ==
  /\ InStatement("if")
  /\ IF Usable(Visible(Stmt.name))
     THEN /\ Resolved(Visible(Stmt.name))
          /\ Enter
          /\ at' = at + 1
          /\ UNCHANGED <<errors, phase>>
     ELSE Fail(Skip(at))
  /\ Kept

Open ==
  /\ Running
  /\ Stmt.op \in {"open", "else"}
  /\ Enter
  /\ at' = at + 1
  /\ UNCHANGED <<resolved, errors, phase>>
  /\ Kept

Outer == SubSeq(blocks, 1, Len(blocks) - 1)
Closed == IF Last(blocks).failed THEN Failing(Outer) ELSE Outer

Close ==
  /\ InStatement("close")
  /\ blocks' = Closed
  /\ at' = IF Last(blocks).failed /\ IsElse(at + 1) THEN After(at + 1) ELSE at + 1
  /\ UNCHANGED <<resolved, errors, phase>>
  /\ Kept

-----------------------------------------------------------------------------
Constant(x) == program.variables[x].constant
ModuleVariables ==
  {Object("var", ModuleScope, x, program.variables[x].type, 0) : x \in DOMAIN program.variables}

ValidateVariables ==
  /\ phase = "variables"
  /\ IF \A x \in DOMAIN program.variables : Constant(x)
     THEN /\ scopes' = [scopes EXCEPT ![ModuleScope] = ModuleVariables]
          /\ phase' = "structs"
     ELSE UNCHANGED scopes /\ phase' = "rejected"
  /\ UNCHANGED <<program, blocks, inside, todo, left, body, at, resolved, errors>>

\* After the first error no method is validated any more.
MethodsOf(S) == IF errors = {} THEN program.structs[S].methods ELSE {}
Members(S) ==
  Variables(<<Self, S>>, program.structs[S].fields)
  \cup Functions(<<Self, S>>, program.structs[S].methods)

EnterStruct ==
  /\ phase = "structs"
  /\ inside = NoName
  /\ \E S \in todo :
       /\ inside' = S
       /\ todo' = todo \ {S}
       /\ left' = MethodsOf(S)
       /\ scopes' = [scopes EXCEPT ![ModuleScope] = @ \cup {StructObject(S)},
                                   ![<<Self, S>>] = Members(S)]
  /\ UNCHANGED <<program, blocks, body, at, resolved, errors, phase>>

LeaveStruct ==
  /\ phase = "structs"
  /\ inside /= NoName
  /\ left = {}
  /\ body = NoName
  /\ inside' = NoName
  /\ UNCHANGED <<program, scopes, blocks, todo, left, body, at, resolved, errors, phase>>

Parameters(b) == Variables(b, program.params[b])

\* The block of the function: its parameters are its first variables.
EnterBody ==
  /\ phase \in {"structs", "functions"}
  /\ body = NoName
  /\ \E f \in left :
       /\ left' = left \ {f}
       /\ body' = <<Self, inside, f>>
       /\ at' = 1
       /\ blocks' = <<Block(Parameters(<<Self, inside, f>>))>>
  /\ UNCHANGED <<program, scopes, inside, todo, resolved, errors, phase>>

LeaveBody ==
  /\ phase \in {"structs", "functions"}
  /\ body /= NoName
  /\ at > Len(Code)
  /\ body' = NoName
  /\ at' = 0
  /\ blocks' = <<>>
  /\ UNCHANGED <<program, scopes, inside, todo, left, resolved, errors, phase>>

\* "Predeclare functions so they all exist in the checked scope": after the structs.
Predeclare ==
  /\ phase = "structs"
  /\ inside = NoName
  /\ todo = {}
  /\ IF errors = {}
     THEN /\ scopes' = [scopes EXCEPT ![ModuleScope] = @ \cup Functions(ModuleScope, program.functions)]
          /\ left' = program.functions
          /\ phase' = "functions"
     ELSE UNCHANGED <<scopes, left>> /\ phase' = "rejected"
  /\ UNCHANGED <<program, blocks, inside, todo, body, at, resolved, errors>>

Verdict == IF errors = {} THEN "accepted" ELSE "rejected"

Finish ==
  /\ phase = "functions"
  /\ left = {}
  /\ body = NoName
  /\ phase' = Verdict
  /\ UNCHANGED <<program, scopes, blocks, inside, todo, left, body, at, resolved, errors>>

Statement == Use \/ Access \/ Declare \/ DeclareFrom \/ If \/ Open \/ Close
Next ==
  \/ ValidateVariables
  \/ EnterStruct
  \/ LeaveStruct
  \/ EnterBody
  \/ Statement
  \/ LeaveBody
  \/ Predeclare
  \/ Finish

(* What the parser lets through, its types validated: no two objects of    *)
(* one name in a scope (scopeAddObject()), types that exist, a body for    *)
(* every function and method, and every block closed.                      *)
TypesOf(p) == {NoName} \cup ImportedTypes \cup {<<Self, S>> : S \in DOMAIN p.structs}
BodiesOf(p) ==
  {<<Self, NoName, f>> : f \in p.functions}
  \cup UNION {{<<Self, S, f>> : f \in p.structs[S].methods} : S \in DOMAIN p.structs}
Disjoint(A, B) == A \cap B = {}
Declares(s, x) == s.op \in {"var", "init"} /\ s.var = x
\* The block that is open after statement j still is before statement i.
StillOpen(code, j, i) == \A k \in j..(i - 1) : Level(code, j + 1, k) >= 0
SameBlock(code, j, i) == StillOpen(code, j, i) /\ Level(code, j + 1, i - 1) = 0
DeclaresOnce(code, parameters) ==
  \A i \in DOMAIN code : code[i].op \in {"var", "init"} =>
    /\ code[i].var \in parameters => Level(code, 1, i) /= 0
    /\ \A j \in 1..(i - 1) : Declares(code[j], code[i].var) => ~SameBlock(code, j, i)
Parsed(p) ==
  /\ NoName \notin DOMAIN p.structs
  /\ NoName \notin BodiesOf(p)
  /\ Disjoint(DOMAIN p.variables, DOMAIN p.structs)
  /\ Disjoint(p.functions, DOMAIN p.variables \cup DOMAIN p.structs)
  /\ \A x \in DOMAIN p.variables : p.variables[x].type \in TypesOf(p)
  /\ \A S \in DOMAIN p.structs :
       /\ Disjoint(DOMAIN p.structs[S].fields, p.structs[S].methods)
       /\ \A x \in DOMAIN p.structs[S].fields : p.structs[S].fields[x] \in TypesOf(p)
  /\ DOMAIN p.code = BodiesOf(p)
  /\ \A b \in BodiesOf(p) : \A x \in DOMAIN p.params[b] : p.params[b][x] \in TypesOf(p)
  /\ \A b \in BodiesOf(p) :
       /\ p.code[b] \in Seq(Range(p.code[b]))
       /\ DeclaresOnce(p.code[b], DOMAIN p.params[b])
       /\ \A i \in DOMAIN p.code[b] :
            /\ Level(p.code[b], 1, i) >= 0
            /\ p.code[b][i].op \in {"use", "init"} =>
                 p.code[b][i].path \in Seq(Range(p.code[b][i].path) \ {NoName})
            /\ p.code[b][i].op = "var" => p.code[b][i].type \in TypesOf(p)
            /\ Opens(p.code[b][i]) => \E k \in i..Len(p.code[b]) : Level(p.code[b], i, k) = 0

NamesInit(programs) ==
  /\ program \in programs
  /\ scopes = [s \in DOMAIN ImportedScopes \cup {ModuleScope} \cup {<<Self, S>> : S \in Structs}
                 |-> IF s \in DOMAIN ImportedScopes THEN ImportedScopes[s] ELSE {}]
  /\ blocks = <<>>
  /\ inside = NoName
  /\ todo = Structs
  /\ left = {}
  /\ body = NoName
  /\ at = 0
  /\ resolved = {}
  /\ errors = {}
  /\ phase = "variables"

-----------------------------------------------------------------------------
Bodies == DOMAIN program.code
Places == UNION {{<<b, i>> : i \in DOMAIN program.code[b]} : b \in Bodies}
Phases == {"variables", "structs", "functions", "accepted", "rejected", "aborted"}
IsObject(o) == o.kind \in {"var", "fn", "struct"} /\ o.at \in Nat

NamesTypeOK ==
  /\ phase \in Phases
  /\ inside \in Structs \cup {NoName}
  /\ todo \subseteq Structs
  /\ body \in Bodies \cup {NoName}
  /\ body = NoName <=> blocks = <<>>
  /\ errors \subseteq Places
  /\ \A r \in resolved : <<r[1], r[2]>> \in Places /\ IsObject(r[3])
  /\ \A s \in DOMAIN scopes : \A o \in scopes[s] : IsObject(o) /\ o.owner = s
  /\ \A i \in DOMAIN blocks : \A o \in blocks[i].objects : IsObject(o) /\ o.owner = body

(***************************************************************************)
(* The rules of the language, read off the text of the module: a name      *)
(* stands for the last declaration before it in a block that is still open *)
(* there, else for a parameter, a member of the struct, or an object of    *)
(* the module.                                                             *)
(***************************************************************************)
Locals(b, i, x) ==
  LET code == program.code[b]
  IN {j \in 1..(i - 1) : Declares(code[j], x) /\ StillOpen(code, j, i)}

OwnObjects ==
  ModuleVariables \cup Functions(ModuleScope, program.functions) \cup {StructObject(S) : S \in Structs}
Owner(s) ==
  IF s \in DOMAIN ImportedScopes THEN ImportedScopes[s]
  ELSE IF s[1] = Self /\ s[2] \in Structs THEN Members(s[2])
  ELSE {}

\* Around the blocks of a body: its parameters, its struct, the module.
Around(b) ==
  <<Parameters(b)>> \o (IF b[2] = NoName THEN <<>> ELSE <<Members(b[2])>>) \o <<OwnObjects>>
Outside(b, x) ==
  LET hits == {k \in DOMAIN Around(b) : Named(Around(b)[k], x) /= {}}
  IN IF hits = {} THEN {} ELSE Named(Around(b)[Min(hits)], x)

FoundAt(b, i) == {r[3] : r \in {q \in resolved : q[1] = b /\ q[2] = i}}
TypeOfLocal(b, j) ==
  IF program.code[b][j].op = "var" THEN program.code[b][j].type ELSE TypeFrom(FoundAt(b, j))

Lexical(b, i, x) ==
  LET js == Locals(b, i, x)
  IN IF js = {} THEN Outside(b, x)
     ELSE {Object("var", b, x, TypeOfLocal(b, Max(js)), Max(js))}

\* What the name in statement i of b stands for.
Meaning(b, i) ==
  LET s == program.code[b][i]
      path == IF s.op \in {"use", "init"} THEN s.path ELSE <<>>
  IN IF path = <<>> THEN Lexical(b, i, s.name)
     ELSE IF path[1] \in Imports
     THEN Named(Owner(<<path[1], IF Len(path) = 1 THEN NoName ELSE path[2]>>), s.name)
     ELSE IF Len(path) = 1 /\ \E o \in Lexical(b, i, path[1]) : o.kind = "struct"
     THEN Named(Members(path[1]), s.name)
     ELSE {}

FieldMeant(b, i, root) == Named(Owner(root.type), program.code[b][i].field)

Failures(b) ==
  {e[2] : e \in {q \in errors : q[1] = b}} \cup (IF phase = "aborted" /\ body = b THEN {at} ELSE {})

(* In a body without errors every name stands for what the rules of the    *)
(* language say (SPEC.md, "Scopes"), whatever order the hash tables have   *)
(* and whatever blocks were entered and left on the way: shadowing ends    *)
(* with the block, and a variable is not visible in its own initializer.   *)
ResolvesLexically ==
  \A b \in Bodies : Failures(b) = {} =>
    \A i \in DOMAIN program.code[b] : FoundAt(b, i) /= {} =>
      \E o \in Meaning(b, i) :
        /\ o \in FoundAt(b, i)
        /\ FoundAt(b, i) \subseteq
             {o} \cup (IF program.code[b][i].op = "access" THEN FieldMeant(b, i, o) ELSE {})

(* An accepted module has no name left unresolved: no block, method or     *)
(* function was passed over because of something that had failed.          *)
AcceptedIsResolved ==
  phase = "accepted" =>
    \A p \in Places :
      program.code[p[1]][p[2]].op \in {"use", "access", "init", "if"} => FoundAt(p[1], p[2]) /= {}

\* Nothing is there that the name, or the field, could stand for.
Wrong(b, i) ==
  IF program.code[b][i].op = "access"
  THEN ~HasFields(Meaning(b, i)) \/ \A o \in Meaning(b, i) : FieldMeant(b, i, o) = {}
  ELSE ~Usable(Meaning(b, i))

\* A method that names a function of the module or another struct.
Late(b, i) ==
  LET s == program.code[b][i]
  IN /\ b[2] /= NoName
     /\ \/ \E o \in Meaning(b, i) :
             \/ o.kind = "fn" /\ o.owner = ModuleScope
             \/ s.op = "access" /\ HasFields({o}) /\ o.type[1] = Self /\ o.type[2] /= b[2]
        \/ s.op \in {"use", "init"} /\ Len(s.path) = 1 /\ s.path[1] \in Structs \ {b[2]}

(* The first failure in a body is a name that nothing stands for, or a     *)
(* method that names something that is only validated after it.            *)
FailuresAreTrue ==
  \A b \in Bodies : Failures(b) /= {} =>
    Wrong(b, Min(Failures(b))) \/ Late(b, Min(Failures(b)))

(* The comment "Predeclare functions so they all exist in the checked      *)
(* scope" (Validator.c:1016): then only names that stand for nothing would *)
(* be refused.  Methods are validated before the functions are there.      *)
FunctionsAreVisible ==
  \A b \in Bodies : Failures(b) /= {} => Wrong(b, Min(Failures(b)))
=============================================================================
