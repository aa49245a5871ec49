--------------------------- MODULE GeneratedNames ---------------------------
(***************************************************************************)
(* The names in the C that is generated for a module accepted by the       *)
(* validator (NameResolution) and for the modules it imports.  C has one   *)
(* name space, so the code generator mangles the names of module level     *)
(* objects and of methods, and remembers the result under the plain name,  *)
(* in one table for each module and one more for its methods.  The names   *)
(* of local variables and fields are printed as they are.                  *)
(*                                                                         *)
(* The parts of a mangled name are joined with underscores, which names    *)
(* may contain.  So a C name is the sequence of the words between its      *)
(* underscores, and two names are spelled alike if their words are the     *)
(* same: moduleM_struct_A_method_p is the name of a method p of A and of a *)
(* struct A_method_p.                                                      *)
(*                                                                         *)
(* The walk over structs and functions uses the variables of the           *)
(* validator's walk: todo, inside, left, body and at.  A statement that is *)
(* deferred is printed at its place, not at the end of the function: it    *)
(* stands in the function's outermost block, where no name is declared a   *)
(* second time.                                                            *)
(***************************************************************************)
EXTENDS NameResolution

CONSTANTS
  Words,        \* [identifier -> the words between its underscores]
  ModuleWords   \* [module -> the words of "module" and its name]

\* The imported modules and those that they import.
Modules == {Self} \cup {s[1] : s \in DOMAIN ImportedScopes}
Identifiers == DOMAIN Words
SplitsNames(words) ==
  /\ \A x \in DOMAIN words : words[x] \in Seq(Range(words[x])) \ {<<>>}
  /\ \A x, y \in DOMAIN words : words[x] = words[y] => x = y

ASSUME WordsAssumption ==
  /\ SplitsNames(Words)
  /\ SplitsNames(ModuleWords)
  /\ DOMAIN ModuleWords = Modules

\* The names of what is imported, and of what a program declares.
ASSUME ImportsAreSpelled ==
  \A s \in DOMAIN ImportedScopes : \A o \in ImportedScopes[s] : o.name \in Identifiers
Spelled(p) ==
  /\ DOMAIN p.variables \cup DOMAIN p.structs \cup p.functions \subseteq Identifiers
  /\ \A S \in DOMAIN p.structs : DOMAIN p.structs[S].fields \cup p.structs[S].methods \subseteq Identifiers
  /\ \A b \in DOMAIN p.code :
       /\ DOMAIN p.params[b] \subseteq Identifiers
       /\ \A i \in DOMAIN p.code[b] : p.code[b][i].op \in {"var", "init"} => p.code[b][i].var \in Identifiers

VARIABLES
  order,     \* the modules of the program by ModuleID
  index,     \* the module generated, 0 before the first
  cnames,    \* CNames: [<<table, module, name>> -> C name]
  declared,  \* what has been declared or defined at the top level of C: set of <<C name, object>>
  printed    \* the uses: [place, object, behind (a dot), cname, denotes]

codegenVars == <<order, index, cnames, declared, printed>>
allVars == <<vars, codegenVars>>

Current == order[index]
ScopeOf(module) == scopes[<<module, NoName>>]
InModule(kind) == {o \in ScopeOf(Current) : o.kind = kind}
InStruct(kind) == {o \in scopes[<<Current, inside>>] : o.kind = kind}
Method(o) == o.kind = "fn" /\ o.owner[2] /= NoName

MutModuleLevel(o) == Len(o.owner) = 2
\* A variable is taken for a module variable if the module has one of that name.
ModuleLevel(o) ==
  o.kind /= "var" \/ \E v \in ScopeOf(o.owner[1]) : v.kind = "var" /\ v.name = o.name

Mangled(o) == Method(o) \/ ModuleLevel(o)

MutKey(o) == <<"globals", o.owner[1], o.name>>
\* genMethodID() and genModuleScopeID(): the table looked into ...
Key(o) == <<IF Method(o) THEN "methods" ELSE "globals", o.owner[1], o.name>>
\* ... and what is added to it if the name is not there.
Fresh(o) ==
  ModuleWords[o.owner[1]]
  \o (IF Method(o) THEN <<"struct">> \o Words[o.owner[2]] \o <<"method">> ELSE <<o.kind>>)
  \o Words[o.name]

CName(o) ==
  IF ~Mangled(o) THEN Words[o.name]
  ELSE IF Key(o) \in DOMAIN cnames THEN cnames[Key(o)] ELSE Fresh(o)

\* The table has the names of these objects, too.
Remembered(objects) ==
  LET named == {o \in objects : Mangled(o)}
  IN [k \in DOMAIN cnames \cup {Key(o) : o \in named} |->
        IF k \in DOMAIN cnames THEN cnames[k] ELSE Fresh(CHOOSE o \in named : Key(o) = k)]

Declaring(objects) ==
  /\ declared' = declared \cup {<<CName(o), o>> : o \in objects}
  /\ cnames' = Remembered(objects)

-----------------------------------------------------------------------------
(* The variables of a module, then all of its struct types.  genVarDecl()  *)
(* prints the type of a module variable and its name with nothing between  *)
(* them: i32moduleM_var_x declares no variable.  Only the star of a        *)
(* pointer keeps them apart: any variable without a struct type may be one *)
(* (a pointer to a struct names a type that C has not seen there).         *)
GenModule ==
  /\ \/ phase = "accepted" /\ index = 0
     \/ phase = "generated" /\ index < Len(order)
  /\ index' = index + 1
  /\ LET objects == ScopeOf(order[index + 1])
         variables == {o \in objects : o.kind = "var"}
         structs == {o \in objects : o.kind = "struct"}
     IN /\ \E pointers \in SUBSET {o \in variables : o.type = NoName} :
             declared' = declared \cup {<<CName(o), o>> : o \in pointers \cup structs}
        /\ cnames' = Remembered(variables \cup structs)
        /\ todo' = {o.name : o \in structs}
  /\ phase' = "gen structs"
  /\ UNCHANGED <<program, scopes, blocks, inside, left, body, at, resolved, errors, order, printed>>

(* The struct definitions in sorted order (TopoSort), a struct after those *)
(* of its fields, each followed by its methods' declarations and bodies.   *)
GenStruct ==
  /\ phase = "gen structs"
  /\ inside = NoName
  /\ \E S \in todo :
       /\ \A o \in scopes[<<Current, S>>] : \A T \in todo : o.type /= <<Current, T>>
       /\ inside' = S
       /\ todo' = todo \ {S}
       /\ LET methods == {o \in scopes[<<Current, S>>] : o.kind = "fn"}
          IN /\ Declaring(methods)
             /\ left' = {o.name : o \in methods}
  /\ UNCHANGED <<program, scopes, blocks, body, at, resolved, errors, phase, order, index, printed>>

GenStructDone ==
  /\ phase = "gen structs"
  /\ inside /= NoName
  /\ left = {}
  /\ body = NoName
  /\ inside' = NoName
  /\ UNCHANGED <<program, scopes, blocks, todo, left, body, at, resolved, errors, phase, codegenVars>>

GenFunctions ==
  /\ phase = "gen structs"
  /\ inside = NoName
  /\ todo = {}
  /\ Declaring(InModule("fn"))
  /\ left' = {o.name : o \in InModule("fn")}
  /\ phase' = "gen functions"
  /\ UNCHANGED <<program, scopes, blocks, inside, todo, body, at, resolved, errors, order, index, printed>>

FunctionObject(f) == CHOOSE o \in scopes[<<Current, inside>>] : o.kind = "fn" /\ o.name = f

(* A definition repeats the name of the declaration.                       *)
GenBody ==
  /\ phase \in {"gen structs", "gen functions"}
  /\ body = NoName
  /\ \E f \in left :
       /\ left' = left \ {f}
       /\ body' = <<Current, inside, f>>
       /\ at' = 1
       /\ Declaring({FunctionObject(f)})
  /\ UNCHANGED <<program, scopes, blocks, inside, todo, resolved, errors, phase, order, index, printed>>

\* The names a statement prints: <<object, whether it stands behind a dot>>.
NamesPrinted(found) ==
  IF Stmt.op /= "access" THEN found \X {FALSE}
  ELSE (Named(found, Stmt.name) \X {FALSE})
       \cup ({f \in Named(found, Stmt.field) :
                \E root \in Named(found, Stmt.name) : root.type /= NoName /\ f.owner = root.type} \X {TRUE})

\* The variable that statement j of the body declares.
LocalOf(b, j) == Object("var", b, program.code[b][j].var, TypeOfLocal(b, j), j)

(* What a name denotes in C, which has the same blocks: the local variable *)
(* or the parameter spelled like that, else what has been declared at the  *)
(* top level so far.  A variable can be seen in its own initializer.       *)
LocalsInC(b, i, cname) ==
  LET code == program.code[b]
  IN {j \in 1..i : code[j].op \in {"var", "init"} /\ Words[code[j].var] = cname /\ StillOpen(code, j, i)}
ParametersInC(b, cname) == {p \in Parameters(b) : Words[p.name] = cname}
MeaningInC(b, i, cname) ==
  LET js == LocalsInC(b, i, cname)
  IN IF js /= {} THEN {LocalOf(b, Max(js))}
     ELSE IF ParametersInC(b, cname) /= {} THEN ParametersInC(b, cname)
     ELSE {d[2] : d \in {e \in declared : e[1] = cname}}

\* Behind a dot it is a field, unless it is a method: of x.p() only the name of p is printed.
Denoted(o, behind) ==
  IF behind /\ ~Method(o)
  THEN {f \in scopes[o.owner] : f.kind = "var" /\ Words[f.name] = CName(o)}
  ELSE MeaningInC(body, at, CName(o))

PrintedUse(o, behind) ==
  [place |-> <<body, at>>, object |-> o, behind |-> behind, cname |-> CName(o), denotes |-> Denoted(o, behind)]

\* A local variable is declared by its plain name where its declaration is.
GenStatement ==
  /\ phase \in {"gen structs", "gen functions"}
  /\ body \in Bodies
  /\ at <= Len(Code)
  /\ LET found == FoundAt(body, at)
     IN /\ printed' = printed \cup {PrintedUse(n[1], n[2]) : n \in NamesPrinted(found)}
        /\ cnames' = Remembered(found)
  /\ at' = at + 1
  /\ UNCHANGED <<program, scopes, blocks, inside, todo, left, body, resolved, errors, phase, order, index, declared>>

GenBodyDone ==
  /\ phase \in {"gen structs", "gen functions"}
  /\ body /= NoName
  /\ body \in Bodies => at > Len(Code)
  /\ body' = NoName
  /\ at' = 0
  /\ UNCHANGED <<program, scopes, blocks, inside, todo, left, resolved, errors, phase, codegenVars>>

GenModuleDone ==
  /\ phase = "gen functions"
  /\ left = {}
  /\ body = NoName
  /\ phase' = "generated"
  /\ UNCHANGED <<program, scopes, blocks, inside, todo, left, body, at, resolved, errors, codegenVars>>

Validate == Next /\ UNCHANGED codegenVars
Generate ==
  \/ GenModule
  \/ GenStruct
  \/ GenStructDone
  \/ GenFunctions
  \/ GenBody
  \/ GenStatement
  \/ GenBodyDone
  \/ GenModuleDone
GenNext == Validate \/ Generate

GenInit(programs, orders) ==
  /\ NamesInit(programs)
  /\ order \in orders
  /\ index = 0
  /\ cnames = [k \in {} |-> <<>>]
  /\ declared = {}
  /\ printed = {}

-----------------------------------------------------------------------------
SameMethodElsewhere(o) ==
  \E d \in declared : Method(d[2]) /\ d[2] /= o /\ d[2].name = o.name /\ d[2].owner[1] = o.owner[1]

KindWords == {"var", "fn", "struct", "method"}
\* A name with one of the words that mangling puts between a module and the name.
Confusable(o) ==
  \E w \in {ModuleWords[o.owner[1]], Words[o.name]} : \E i \in DOMAIN w : w[i] \in KindWords

(* Two objects only share a C name if they are methods of one name in two  *)
(* structs of one module, or if the name of one of them, or of its module, *)
(* contains "var", "fn", "struct" or "method" between underscores: that is *)
(* how far the mangling of Codegen.c:24-31 keeps them apart, whatever is   *)
(* printed first.                                                          *)
CNamesAreUnique ==
  \A d, e \in declared : d[1] = e[1] /\ d[2] /= e[2] =>
    \/ /\ Method(d[2]) /\ Method(e[2])
       /\ d[2].name = e[2].name
       /\ d[2].owner[1] = e[2].owner[1]
    \/ Confusable(d[2]) \/ Confusable(e[2])

\* A module variable, or a local variable, parameter or field that has the name of one.
NamesModuleVariable(o) ==
  o.kind = "var" /\ \E v \in ScopeOf(o.owner[1]) : v.kind = "var" /\ v.name = o.name
Local(u) == u.object.owner = u.place[1]
BareField(u) == u.object.kind = "var" /\ Len(u.object.owner) = 2 /\ ~u.behind
FromLater(u) ==
  \/ u.object.owner[1] /= Self
  \/ Method(u.object) /\ u.place[1][2] \notin {NoName, u.object.owner[2]}
SelfInitialised(u) == Local(u) /\ Declares(program.code[u.place[1]][u.place[2]], u.object.name)
Hidden(u) ==
  /\ ~Local(u)
  /\ LocalsInC(u.place[1], u.place[2], u.cname) /= {} \/ ParametersInC(u.place[1], u.cname) /= {}
SharesName(u) ==
  \E d \in declared : d[1] = u.cname /\ d[2] /= u.object /\ (Confusable(d[2]) \/ Confusable(u.object))

(* Every name printed in C denotes the object the validator found.  The    *)
(* exceptions are wrong C for a program that was accepted: a variable that *)
(* is, or has the name of, a module variable; a field named without a      *)
(* variable (y or B::y); methods that share their name; what C has not     *)
(* declared yet because it belongs to an imported module or, in a method,  *)
(* to another struct; an outer x in the initializer of an inner x; and two *)
(* names that are spelled alike, in the module or for a local variable.    *)
CNamesDenote ==
  \A u \in printed :
    \/ u.denotes = {u.object}
    \/ NamesModuleVariable(u.object)
    \/ BareField(u)
    \/ Method(u.object) /\ SameMethodElsewhere(u.object)
    \/ FromLater(u)
    \/ SelfInitialised(u)
    \/ Hidden(u)
    \/ SharesName(u)

(* "referencing the object in the child scope will use the one defined in  *)
(* the child scope" (SPEC.md:1094): never a module variable of the same    *)
(* name, nor the variable that is being declared.                          *)
ShadowingReachesC ==
  \A u \in printed : Local(u) => u.denotes = {u.object}

(* "Check that the vars in modules scope are accesible here"               *)
(* (compiler/tester/module_variables.ilc:10).                              *)
ModuleVariablesReachC ==
  \A u \in printed : u.object.kind = "var" /\ u.object.owner = ModuleScope => u.denotes = {u.object}

(* "To work around this, "global" IDs are mangled" (Codegen.c:25), and     *)
(* methods by "the same mangling idea" (28): no C name has two objects.    *)
NamesAreApart ==
  \A d, e \in declared : d[1] = e[1] => d[2] = e[2]
=============================================================================
