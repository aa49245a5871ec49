------------------------ MODULE GeneratedNames_proofs ------------------------
(***************************************************************************)
(* What the validator finds for the names of a module, and the names in    *)
(* the generated C, for every set of parsed programs and every order of    *)
(* the modules.                                                            *)
(*                                                                         *)
(* C names: the scopes hold what the text declares (ScopesBuilt), so all   *)
(* that is printed has a name that is spelled (NamedWell), and the tables  *)
(* remember one C name for each key (Remembers), which only words of the   *)
(* mangling inside a name can confuse (KeysAgree).  What is found is an    *)
(* object of a scope or of the body (Resolves) and has been declared where *)
(* it is printed (DeclaredSoFar), or is a local variable that C finds in   *)
(* the same block (LocalMeansInC).                                         *)
(*                                                                         *)
(* Resolution: until a statement of the body fails, block d on the stack   *)
(* holds the declarations of the text that are open at depth d (Matched);  *)
(* the scopes around hold what has been entered (Entered); so what a       *)
(* lookup finds is the meaning of the name, unless that is yet to come.    *)
(* A meaning only depends on what was found before it in the body (Behind),*)
(* so what was right stays right.                                          *)
(***************************************************************************)
EXTENDS GeneratedNames, FiniteSetTheorems, WellFoundedInduction, SequenceTheorems, TLAPS

Types == TypesOf(program)
Walking == phase \in {"variables", "structs", "functions"}
Generating == phase \in {"gen structs", "gen functions"}

-----------------------------------------------------------------------------
(* The scopes.                                                             *)

Unique(objects) == \A o, p \in objects : o.name = p.name => o = p

\* An object of the scope s of a module or of a struct.
ObjectOf(s, o, types, names) ==
  /\ o.owner = s
  /\ o.kind \in {"var", "fn", "struct"}
  /\ o.type \in types
  /\ o.kind = "struct" => s[2] = NoName /\ o.name /= NoName /\ <<s[1], o.name>> \in names

WellScoped(s, objects, types, names) ==
  /\ s = <<s[1], s[2]>>
  /\ Unique(objects)
  /\ \A o \in objects : ObjectOf(s, o, types, names)

AllScoped == \A s \in DOMAIN scopes : WellScoped(s, scopes[s], Types, DOMAIN scopes)

\* What the walk has made of the scopes.
ScopesBuilt ==
  /\ Parsed(program)
  /\ DOMAIN scopes = DOMAIN ImportedScopes \cup {ModuleScope} \cup {<<Self, S>> : S \in Structs}
  /\ \A s \in DOMAIN ImportedScopes : scopes[s] = ImportedScopes[s]
  /\ scopes[ModuleScope] \subseteq OwnObjects
  /\ \A S \in Structs : scopes[<<Self, S>>] \subseteq Members(S)
  /\ phase = "variables" => \A S \in Structs : scopes[<<Self, S>>] = {}
  /\ phase \in {"variables", "structs"} => \A o \in scopes[ModuleScope] : o.kind /= "fn"
  /\ \A S \in Structs : scopes[<<Self, S>>] /= {} => StructObject(S) \in scopes[ModuleScope]

LEMMA ObjectIs ==
  ASSUME NEW kind, NEW owner, NEW name, NEW type, NEW position
  PROVE  /\ Object(kind, owner, name, type, position).kind = kind
         /\ Object(kind, owner, name, type, position).owner = owner
         /\ Object(kind, owner, name, type, position).name = name
         /\ Object(kind, owner, name, type, position).type = type
  BY DEF Object

LEMMA OwnObjectIs ==
  ASSUME NEW o \in OwnObjects
  PROVE  \/ /\ o.name \in DOMAIN program.variables
            /\ o = Object("var", ModuleScope, o.name, program.variables[o.name].type, 0)
         \/ /\ o.name \in program.functions
            /\ o = Object("fn", ModuleScope, o.name, NoName, 0)
         \/ /\ o.name \in Structs
            /\ o = StructObject(o.name)
PROOF
  <1>1. CASE o \in ModuleVariables
    BY <1>1, ObjectIs DEF ModuleVariables
  <1>2. CASE o \in Functions(ModuleScope, program.functions)
    BY <1>2, ObjectIs DEF Functions
  <1>3. CASE o \in {StructObject(S) : S \in Structs}
    BY <1>3, ObjectIs DEF StructObject
  <1> QED BY <1>1, <1>2, <1>3 DEF OwnObjects

LEMMA MemberIs ==
  ASSUME NEW S \in Structs, NEW o \in Members(S)
  PROVE  \/ /\ o.name \in DOMAIN program.structs[S].fields
            /\ o = Object("var", <<Self, S>>, o.name, program.structs[S].fields[o.name], 0)
         \/ /\ o.name \in program.structs[S].methods
            /\ o = Object("fn", <<Self, S>>, o.name, NoName, 0)
  BY ObjectIs DEF Members, Variables, Functions

LEMMA OwnScoped ==
  ASSUME Parsed(program), NEW objects, objects \subseteq OwnObjects, NEW names,
         {<<Self, S>> : S \in Structs} \subseteq names
  PROVE  WellScoped(ModuleScope, objects, Types, names)
PROOF
  <1>1. ModuleScope = <<ModuleScope[1], ModuleScope[2]>> /\ ModuleScope[1] = Self /\ ModuleScope[2] = NoName
    BY DEF ModuleScope
  <1>2. /\ NoName \notin Structs
        /\ \A x \in DOMAIN program.variables : program.variables[x].type \in Types /\ x \notin Structs
        /\ \A x \in program.functions : x \notin DOMAIN program.variables /\ x \notin Structs
        /\ NoName \in Types
    BY DEF Parsed, Disjoint, Structs, Types, TypesOf
  <1>3. ASSUME NEW o \in objects, NEW p \in objects, o.name = p.name PROVE o = p
    BY <1>2, <1>3, OwnObjectIs
  <1>4. ASSUME NEW o \in objects PROVE ObjectOf(ModuleScope, o, Types, names)
    <2>1. CASE o.name \in DOMAIN program.variables
               /\ o = Object("var", ModuleScope, o.name, program.variables[o.name].type, 0)
      BY <1>2, <2>1, ObjectIs DEF ObjectOf
    <2>2. CASE o.name \in program.functions /\ o = Object("fn", ModuleScope, o.name, NoName, 0)
      BY <1>2, <2>2, ObjectIs DEF ObjectOf
    <2>3. CASE o.name \in Structs /\ o = StructObject(o.name)
      BY <1>1, <1>2, <2>3, ObjectIs DEF ObjectOf, StructObject
    <2> QED BY <2>1, <2>2, <2>3, OwnObjectIs
  <1> QED BY <1>1, <1>3, <1>4 DEF WellScoped, Unique

LEMMA MembersScoped ==
  ASSUME Parsed(program), NEW S \in Structs, NEW objects, objects \subseteq Members(S), NEW names
  PROVE  WellScoped(<<Self, S>>, objects, Types, names)
PROOF
  <1>1. /\ \A x \in DOMAIN program.structs[S].fields :
             program.structs[S].fields[x] \in Types /\ x \notin program.structs[S].methods
        /\ NoName \in Types
    BY DEF Parsed, Disjoint, Structs, Types, TypesOf
  <1>2. ASSUME NEW o \in objects, NEW p \in objects, o.name = p.name PROVE o = p
    BY <1>1, <1>2, MemberIs
  <1>3. ASSUME NEW o \in objects PROVE ObjectOf(<<Self, S>>, o, Types, names)
    <2>1. CASE o.name \in DOMAIN program.structs[S].fields
               /\ o = Object("var", <<Self, S>>, o.name, program.structs[S].fields[o.name], 0)
      BY <1>1, <2>1, ObjectIs DEF ObjectOf
    <2>2. CASE o.name \in program.structs[S].methods
               /\ o = Object("fn", <<Self, S>>, o.name, NoName, 0)
      BY <1>1, <2>2, ObjectIs DEF ObjectOf
    <2> QED BY <2>1, <2>2, MemberIs
  <1> QED BY <1>2, <1>3 DEF WellScoped, Unique

LEMMA ImportedScoped ==
  ASSUME NEW s \in DOMAIN ImportedScopes, NEW names, DOMAIN ImportedScopes \subseteq names
  PROVE  WellScoped(s, ImportedScopes[s], Types, names) /\ s[1] /= Self
PROOF
  <1>1. s = <<s[1], s[2]>> /\ s[1] /= Self /\ Unique(ImportedScopes[s])
    BY ImportedScopesAssumption DEF Unique
  <1>2. ASSUME NEW o \in ImportedScopes[s] PROVE ObjectOf(s, o, Types, names)
    <2>1. o = [kind |-> o.kind, owner |-> s, name |-> o.name, type |-> o.type, at |-> 0]
      BY ImportedScopesAssumption
    <2>2. o.owner = s
      BY <2>1
    <2>3. /\ o.kind \in {"var", "fn", "struct"}
          /\ o.type \in ImportedTypes \cup {NoName}
          /\ o.kind = "struct" =>
               s[2] = NoName /\ o.name /= NoName /\ <<s[1], o.name>> \in DOMAIN ImportedScopes
      BY ImportedScopesAssumption
    <2> QED BY <2>2, <2>3 DEF ObjectOf, Types, TypesOf
  <1> QED BY <1>1, <1>2 DEF WellScoped

LEMMA ScopesAreWell == ScopesBuilt => AllScoped
PROOF
  <1> SUFFICES ASSUME ScopesBuilt, NEW s \in DOMAIN scopes
               PROVE  WellScoped(s, scopes[s], Types, DOMAIN scopes)
    BY DEF AllScoped
  <1>1. CASE s \in DOMAIN ImportedScopes
    BY <1>1, ImportedScoped DEF ScopesBuilt
  <1>2. CASE s = ModuleScope
    BY <1>2, OwnScoped DEF ScopesBuilt
  <1>3. ASSUME NEW S \in Structs, s = <<Self, S>> PROVE WellScoped(s, scopes[s], Types, DOMAIN scopes)
    BY <1>3, MembersScoped DEF ScopesBuilt
  <1> QED BY <1>1, <1>2, <1>3 DEF ScopesBuilt
\* The steps that leave the scopes alone.
OtherStep ==
  \/ LeaveStruct \/ EnterBody \/ Statement \/ LeaveBody \/ Finish
  \/ Generate

LEMMA ScopesStay ==
  ASSUME OtherStep
  PROVE  /\ UNCHANGED <<program, scopes>>
         /\ phase' = phase \/ phase' \notin {"variables", "structs"}
PROOF
  <1>1. CASE LeaveStruct \/ EnterBody \/ LeaveBody
    BY <1>1 DEF LeaveStruct, EnterBody, LeaveBody
  <1>2. CASE Statement
    BY <1>2 DEF Statement, Use, Access, Declare, DeclareFrom, If, Open, Close, Kept, Abort, Fail
  <1>3. CASE Finish
    BY <1>3 DEF Finish, Verdict
  <1>4. CASE Generate
    BY <1>4 DEF Generate, GenModule, GenStruct, GenStructDone, GenFunctions, GenBody, GenStatement,
                GenBodyDone, GenModuleDone
  <1> QED BY <1>1, <1>2, <1>3, <1>4 DEF OtherStep

LEMMA SelfIsNotImported ==
  ASSUME NEW x
  PROVE  <<Self, x>> \notin DOMAIN ImportedScopes
  BY ImportedScopesAssumption

LEMMA ScopesInit ==
  ASSUME NEW programs, \A p \in programs : Parsed(p), NamesInit(programs)
  PROVE  ScopesBuilt
PROOF
  <1>1. Parsed(program)
    BY DEF NamesInit
  <1>2. /\ DOMAIN scopes = DOMAIN ImportedScopes \cup {ModuleScope} \cup {<<Self, S>> : S \in Structs}
        /\ \A s \in DOMAIN ImportedScopes : scopes[s] = ImportedScopes[s]
        /\ \A s \in DOMAIN scopes : s \notin DOMAIN ImportedScopes => scopes[s] = {}
    BY DEF NamesInit
  <1>3. scopes[ModuleScope] = {} /\ \A S \in Structs : scopes[<<Self, S>>] = {}
    BY <1>2, SelfIsNotImported DEF ModuleScope
  <1> QED BY <1>1, <1>2, <1>3 DEF ScopesBuilt

LEMMA ScopesKept ==
  ASSUME ScopesBuilt, [GenNext]_allVars, Walking => todo \subseteq Structs
  PROVE  ScopesBuilt'
PROOF
  <1>0. NoName \notin Structs
    BY DEF ScopesBuilt, Parsed, Structs
  <1>1. CASE OtherStep \/ UNCHANGED allVars
    <2>1. /\ UNCHANGED <<program, scopes>>
          /\ phase' = phase \/ phase' \notin {"variables", "structs"}
      BY <1>1, ScopesStay DEF allVars, vars
    <2> QED BY <2>1 DEF ScopesBuilt, Structs, OwnObjects, ModuleVariables, Members
  <1>2. CASE ValidateVariables
    <2>1. CASE scopes' = scopes /\ phase' = "rejected"
      BY <1>2, <2>1 DEF ValidateVariables, ScopesBuilt, Structs, OwnObjects, ModuleVariables, Members
    <2>2. CASE scopes' = [scopes EXCEPT ![ModuleScope] = ModuleVariables] /\ phase' = "structs"
      <3>1. program' = program /\ phase = "variables" /\ DOMAIN scopes' = DOMAIN scopes
        BY <1>2, <2>2 DEF ValidateVariables
      <3>2. /\ scopes'[ModuleScope] = ModuleVariables
            /\ \A s \in DOMAIN scopes : s /= ModuleScope => scopes'[s] = scopes[s]
        BY <2>2 DEF ScopesBuilt
      <3>3. \A S \in Structs : scopes'[<<Self, S>>] = {}
        BY <1>0, <3>1, <3>2 DEF ScopesBuilt, ModuleScope
      <3>4. \A s \in DOMAIN ImportedScopes : scopes'[s] = ImportedScopes[s]
        BY <3>2, SelfIsNotImported DEF ScopesBuilt, ModuleScope
      <3>5. \A o \in ModuleVariables : o.kind = "var"
        BY ObjectIs DEF ModuleVariables
      <3> QED BY <2>2, <3>1, <3>2, <3>3, <3>4, <3>5
              DEF ScopesBuilt, Structs, OwnObjects, ModuleVariables, Members
    <2> QED BY <1>2, <2>1, <2>2 DEF ValidateVariables
  <1>3. CASE EnterStruct
    <2>1. PICK S \in todo :
            scopes' = [scopes EXCEPT ![ModuleScope] = @ \cup {StructObject(S)}, ![<<Self, S>>] = Members(S)]
      BY <1>3 DEF EnterStruct
    <2>2. S \in Structs /\ phase = "structs" /\ phase' = phase /\ program' = program
      BY <1>3 DEF EnterStruct, Walking
    <2>3. /\ DOMAIN scopes' = DOMAIN scopes
          /\ scopes'[ModuleScope] = scopes[ModuleScope] \cup {StructObject(S)}
          /\ scopes'[<<Self, S>>] = Members(S)
          /\ \A s \in DOMAIN scopes : s /= ModuleScope /\ s /= <<Self, S>> => scopes'[s] = scopes[s]
      BY <1>0, <2>1, <2>2 DEF ScopesBuilt, ModuleScope
    <2>4. \A s \in DOMAIN ImportedScopes : scopes'[s] = ImportedScopes[s]
      BY <2>3, SelfIsNotImported DEF ScopesBuilt, ModuleScope
    <2>5. scopes'[ModuleScope] \subseteq OwnObjects
      BY <2>2, <2>3 DEF ScopesBuilt, OwnObjects
    <2>6. \A T \in Structs : scopes'[<<Self, T>>] \subseteq Members(T)
      <3> SUFFICES ASSUME NEW T \in Structs PROVE scopes'[<<Self, T>>] \subseteq Members(T)
        OBVIOUS
      <3>1. CASE T = S
        BY <2>3, <3>1
      <3>2. CASE T /= S
        BY <1>0, <2>3, <3>2 DEF ScopesBuilt, ModuleScope
      <3> QED BY <3>1, <3>2
    <2>7. \A o \in scopes'[ModuleScope] : o.kind /= "fn"
      BY <2>2, <2>3, ObjectIs DEF ScopesBuilt, StructObject
    <2>8. \A T \in Structs : scopes'[<<Self, T>>] /= {} => StructObject(T) \in scopes'[ModuleScope]
      <3> SUFFICES ASSUME NEW T \in Structs, scopes'[<<Self, T>>] /= {}
                   PROVE  StructObject(T) \in scopes'[ModuleScope]
        OBVIOUS
      <3>1. CASE T = S
        BY <2>3, <3>1
      <3>2. CASE T /= S
        BY <1>0, <2>3, <3>2 DEF ScopesBuilt, ModuleScope
      <3> QED BY <3>1, <3>2
    <2> QED BY <2>2, <2>3, <2>4, <2>5, <2>6, <2>7, <2>8
            DEF ScopesBuilt, Structs, OwnObjects, ModuleVariables, Members, ModuleScope, StructObject
  <1>4. CASE Predeclare
    <2>1. CASE scopes' = scopes /\ phase' = "rejected"
      BY <1>4, <2>1 DEF Predeclare, ScopesBuilt, Structs, OwnObjects, ModuleVariables, Members
    <2>2. CASE /\ scopes' = [scopes EXCEPT ![ModuleScope] = @ \cup Functions(ModuleScope, program.functions)]
               /\ phase' = "functions"
      <3>1. program' = program /\ DOMAIN scopes' = DOMAIN scopes
        BY <1>4, <2>2 DEF Predeclare
      <3>2. /\ scopes'[ModuleScope] = scopes[ModuleScope] \cup Functions(ModuleScope, program.functions)
            /\ \A s \in DOMAIN scopes : s /= ModuleScope => scopes'[s] = scopes[s]
        BY <2>2 DEF ScopesBuilt
      <3>3. \A S \in Structs : scopes'[<<Self, S>>] = scopes[<<Self, S>>]
        BY <1>0, <3>2 DEF ScopesBuilt, ModuleScope
      <3>4. \A s \in DOMAIN ImportedScopes : scopes'[s] = ImportedScopes[s]
        BY <3>2, SelfIsNotImported DEF ScopesBuilt, ModuleScope
      <3> QED BY <2>2, <3>1, <3>2, <3>3, <3>4
              DEF ScopesBuilt, Structs, OwnObjects, ModuleVariables, Members
    <2> QED BY <1>4, <2>1, <2>2 DEF Predeclare
  <1> QED BY <1>1, <1>2, <1>3, <1>4 DEF GenNext, Validate, Next, OtherStep
LEMMA ScopesGrow ==
  ASSUME ScopesBuilt, [GenNext]_allVars, phase /= "variables", Walking => todo \subseteq Structs,
         NEW s \in DOMAIN scopes
  PROVE  s \in DOMAIN scopes' /\ scopes[s] \subseteq scopes'[s]
PROOF
  <1>1. CASE OtherStep \/ UNCHANGED allVars
    BY <1>1, ScopesStay DEF allVars, vars
  <1>2. CASE ValidateVariables
    BY <1>2 DEF ValidateVariables
  <1>3. CASE EnterStruct
    <2>1. PICK S \in todo :
            scopes' = [scopes EXCEPT ![ModuleScope] = @ \cup {StructObject(S)}, ![<<Self, S>>] = Members(S)]
      BY <1>3 DEF EnterStruct
    <2>2. S \in Structs /\ scopes[<<Self, S>>] \subseteq Members(S) /\ <<Self, S>> /= ModuleScope
      BY <1>3 DEF EnterStruct, Walking, ScopesBuilt, Parsed, Structs, ModuleScope
    <2> QED BY <2>1, <2>2
  <1>4. CASE Predeclare
    BY <1>4 DEF Predeclare
  <1> QED BY <1>1, <1>2, <1>3, <1>4 DEF GenNext, Validate, Next, OtherStep

LEMMA ProgramStays ==
  ASSUME [GenNext]_allVars
  PROVE  program' = program
PROOF
  <1>1. CASE OtherStep \/ UNCHANGED allVars
    BY <1>1, ScopesStay DEF allVars, vars
  <1>2. CASE ValidateVariables \/ EnterStruct \/ Predeclare
    BY <1>2 DEF ValidateVariables, EnterStruct, Predeclare
  <1> QED BY <1>1, <1>2 DEF GenNext, Validate, Next, OtherStep

-----------------------------------------------------------------------------
(* The walks of the validator and of the code generator.                   *)

Walk ==
  /\ Walking => todo \subseteq Structs /\ inside \in Structs \cup {NoName}
  /\ phase \in {"variables", "accepted", "generated"} => inside = NoName /\ left = {} /\ body = NoName
  /\ phase = "structs" /\ inside = NoName => left = {} /\ body = NoName
  /\ phase = "structs" /\ inside /= NoName => left \subseteq program.structs[inside].methods
  /\ phase = "functions" => inside = NoName /\ left \subseteq program.functions
  /\ Walking /\ body /= NoName => body \in Bodies /\ body = <<Self, inside, body[3]>>
  /\ phase = "variables" => resolved = {}
  /\ phase = "gen structs" /\ inside = NoName => left = {} /\ body = NoName
  /\ phase = "gen functions" => inside = NoName /\ todo = {}

LEMMA StatementKeeps ==
  ASSUME Statement
  PROVE  /\ UNCHANGED <<program, scopes, inside, todo, left, body>>
         /\ phase \in {"structs", "functions"}
         /\ phase' \in {phase, "aborted"}
         /\ body /= NoName
         /\ at =< Len(Code)
  BY DEF Statement, Use, Access, Declare, DeclareFrom, If, Open, Close, Kept, Abort, Fail, InStatement,
         Running

LEMMA WalkInit ==
  ASSUME NEW programs, NamesInit(programs)
  PROVE  Walk
  BY DEF NamesInit, Walk, Structs

LEMMA BodiesAre ==
  ASSUME ScopesBuilt
  PROVE  /\ \A f \in program.functions : <<Self, NoName, f>> \in Bodies
         /\ \A S \in Structs : \A f \in program.structs[S].methods : <<Self, S, f>> \in Bodies
         /\ \A b \in Bodies : b = <<Self, b[2], b[3]>>
         /\ NoName \notin Structs
PROOF
  <1>1. Bodies = BodiesOf(program) /\ NoName \notin Structs
    BY DEF ScopesBuilt, Parsed, Bodies, Structs
  <1> QED BY <1>1 DEF BodiesOf, Structs

LEMMA WalkKept ==
  ASSUME ScopesBuilt, Walk, [GenNext]_allVars, phase = "gen structs" => NoName \notin todo
  PROVE  Walk'
PROOF
  <1>0. program' = program
    BY ProgramStays
  <1>1. CASE UNCHANGED allVars
    BY <1>1 DEF allVars, vars, Walk, Walking, Structs, Bodies
  <1>2. CASE ValidateVariables
    BY <1>2 DEF ValidateVariables, Walk, Walking, Structs, Bodies
  <1>3. CASE EnterStruct
    BY <1>3, BodiesAre DEF EnterStruct, Walk, Walking, Structs, Bodies, MethodsOf
  <1>4. CASE LeaveStruct
    <2>1. /\ phase = "structs" /\ phase' = "structs" /\ left = {} /\ body = NoName /\ inside' = NoName
          /\ UNCHANGED <<todo, left, body, resolved>>
      BY <1>4 DEF LeaveStruct
    <2> QED BY <1>0, <2>1 DEF Walk, Walking, Structs
  <1>5. CASE EnterBody
    <2>1. PICK f \in left : /\ left' = left \ {f}
                            /\ body' = <<Self, inside, f>>
      BY <1>5 DEF EnterBody
    <2>2. /\ phase \in {"structs", "functions"} /\ phase' = phase
          /\ UNCHANGED <<inside, todo, resolved>>
      BY <1>5 DEF EnterBody
    <2>3. <<Self, inside, f>> \in Bodies
      BY <2>2, BodiesAre DEF Walk, Walking
    <2>4. body'[3] = f
      BY <2>1
    <2> QED BY <1>0, <2>1, <2>2, <2>3, <2>4 DEF Walk, Walking, Structs, Bodies
  <1>6. CASE Statement
    BY <1>0, <1>6, StatementKeeps DEF Walk, Walking, Structs, Bodies
  <1>7. CASE LeaveBody
    BY <1>7 DEF LeaveBody, Walk, Walking, Structs, Bodies
  <1>8. CASE Predeclare
    BY <1>8 DEF Predeclare, Walk, Walking, Structs, Bodies
  <1>9. CASE Finish
    BY <1>9 DEF Finish, Verdict, Walk, Walking, Structs, Bodies
  <1>10. CASE Generate
    <2>1. CASE GenModule
      BY <2>1 DEF GenModule, Walk, Walking
    <2>2. CASE GenStruct
      BY <2>2 DEF GenStruct, Walk, Walking
    <2>3. CASE GenStructDone \/ GenFunctions
      BY <2>3 DEF GenStructDone, GenFunctions, Walk, Walking
    <2>4. CASE GenBody
      BY <2>4 DEF GenBody, Walk, Walking
    <2>5. CASE GenStatement \/ GenBodyDone \/ GenModuleDone
      BY <2>5 DEF GenStatement, GenBodyDone, GenModuleDone, Walk, Walking
    <2> QED BY <1>10, <2>1, <2>2, <2>3, <2>4, <2>5 DEF Generate
  <1> QED BY <1>1, <1>2, <1>3, <1>4, <1>5, <1>6, <1>7, <1>8, <1>9, <1>10 DEF GenNext, Validate, Next
-----------------------------------------------------------------------------
(* The walk of the code generator.                                         *)

NamesOf(objects, kind) == {o.name : o \in {p \in objects : p.kind = kind}}

GenWalk ==
  /\ order \in Seq(Modules) /\ Len(order) /= 0
  /\ index \in 0..Len(order)
  /\ phase \in Phases => index = 0 /\ declared = {} /\ printed = {}
  /\ phase \notin Phases => index /= 0
  /\ phase \in Phases \cup {"gen structs", "gen functions", "generated"}
  /\ Generating =>
       /\ inside /= NoName => inside \in NamesOf(ScopeOf(Current), "struct") \ todo
       /\ todo \subseteq NamesOf(ScopeOf(Current), "struct")
       /\ left \subseteq NamesOf(scopes[<<Current, inside>>], "fn")
       /\ body /= NoName => body = <<Current, inside, body[3]>>

LEMMA GenInitWalk ==
  ASSUME NEW programs, NEW orders, \A q \in orders : q \in Seq(Modules) /\ q /= <<>>,
         GenInit(programs, orders)
  PROVE  GenWalk
  BY EmptySeq DEF GenInit, NamesInit, GenWalk, Phases, Generating

LEMMA ModulesHaveScopes ==
  ASSUME ScopesBuilt, NEW m \in Modules
  PROVE  <<m, NoName>> \in DOMAIN scopes
PROOF
  <1>1. CASE m = Self
    BY <1>1 DEF ScopesBuilt, ModuleScope
  <1>2. ASSUME NEW s \in DOMAIN ImportedScopes, m = s[1] PROVE <<m, NoName>> \in DOMAIN ImportedScopes
    <2>1. s = <<s[1], s[2]>>
      BY ImportedScopesAssumption
    <2>2. CASE s[2] = NoName
      BY <1>2, <2>1, <2>2
    <2>3. CASE s[2] /= NoName
      BY <1>2, <2>3, ImportedScopesAssumption DEF ImportedTypes
    <2> QED BY <2>2, <2>3
  <1> QED BY <1>1, <1>2 DEF ScopesBuilt, Modules

LEMMA StructsHaveScopes ==
  ASSUME ScopesBuilt, AllScoped, NEW m \in Modules, NEW S \in NamesOf(ScopeOf(m), "struct")
  PROVE  S /= NoName /\ <<m, S>> \in DOMAIN scopes
PROOF
  <1>1. PICK o \in ScopeOf(m) : o.kind = "struct" /\ o.name = S
    BY DEF NamesOf
  <1>2. WellScoped(<<m, NoName>>, scopes[<<m, NoName>>], Types, DOMAIN scopes)
    BY ModulesHaveScopes DEF AllScoped
  <1> QED BY <1>1, <1>2 DEF WellScoped, ObjectOf, ScopeOf

LEMMA CurrentIsModule ==
  ASSUME GenWalk, phase \notin Phases
  PROVE  Current \in Modules /\ index \in 1..Len(order)
PROOF
  <1>1. order \in Seq(Modules) /\ index \in 0..Len(order) /\ index /= 0
    BY DEF GenWalk
  <1>2. index \in 1..Len(order)
    BY <1>1
  <1> QED BY <1>1, <1>2 DEF Current

LEMMA ModuleIsNext ==
  ASSUME GenWalk, GenModule
  PROVE  index + 1 \in 1..Len(order) /\ order[index + 1] \in Modules
PROOF
  <1>1. (phase = "accepted" /\ index = 0) \/ index < Len(order)
    BY DEF GenModule
  <1>2. order \in Seq(Modules) /\ Len(order) /= 0 /\ index \in 0..Len(order)
    BY DEF GenWalk
  <1>3. PICK n \in Nat : n = Len(order)
    BY <1>2
  <1>4. n /= 0 /\ index \in 0..n /\ (index = 0 \/ index < n)
    BY <1>1, <1>2, <1>3
  <1>5. index + 1 \in 1..n
    BY <1>4
  <1> QED BY <1>2, <1>3, <1>5

LEMMA GenWalkKept ==
  ASSUME ScopesBuilt, AllScoped, Walk, GenWalk, [GenNext]_allVars
  PROVE  GenWalk'
PROOF
  <1>1. CASE UNCHANGED allVars
    BY <1>1 DEF allVars, vars, codegenVars, GenWalk, Generating, ScopeOf, Current
  <1>2. CASE Next /\ UNCHANGED codegenVars
    <2>1. phase \in Phases /\ phase' \in Phases
      <3>1. CASE Statement
        BY <3>1, StatementKeeps DEF Phases
      <3>2. CASE ~Statement
        BY <1>2, <3>2 DEF Next, ValidateVariables, EnterStruct, LeaveStruct, EnterBody, LeaveBody, Predeclare,
                   Finish, Verdict, Phases
      <3> QED BY <3>1, <3>2
    <2>2. ~Generating'
      BY <2>1 DEF Phases, Generating
    <2> QED BY <1>2, <2>1, <2>2 DEF codegenVars, GenWalk
  <1>3. CASE GenModule
    <2>1. /\ index' = index + 1 /\ index' \in 1..Len(order) /\ order' = order
          /\ phase' = "gen structs" /\ UNCHANGED <<inside, left, body, scopes>>
          /\ inside = NoName /\ left = {} /\ body = NoName
          /\ todo' = NamesOf(ScopeOf(order[index + 1]), "struct")
      <3>1. /\ index' = index + 1 /\ order' = order /\ phase' = "gen structs"
            /\ UNCHANGED <<inside, left, body, scopes>>
            /\ todo' = NamesOf(ScopeOf(order[index + 1]), "struct")
            /\ \/ phase = "accepted" /\ index = 0
               \/ phase = "generated" /\ index < Len(order)
        BY <1>3 DEF GenModule, NamesOf
      <3>2. index + 1 \in 1..Len(order)
        BY <1>3, ModuleIsNext
      <3> QED BY <3>1, <3>2 DEF Walk
    <2>2. phase' \notin Phases
      BY <2>1 DEF Phases
    <2>3. order' \in Seq(Modules) /\ Len(order') /= 0
      BY <2>1 DEF GenWalk
    <2>4. index' \in 0..Len(order') /\ index' /= 0
      <3>1. order \in Seq(Modules)
        BY DEF GenWalk
      <3>2. PICK n \in Nat : n = Len(order)
        BY <3>1
      <3>3. index' \in 1..n /\ order' = order
        BY <2>1, <3>2
      <3>4. index' \in 0..n /\ index' /= 0
        BY <3>3
      <3> QED BY <3>2, <3>3, <3>4
    <2>5. todo' \subseteq NamesOf(ScopeOf(Current)', "struct")
      BY <2>1 DEF Current, ScopeOf
    <2> QED BY <2>1, <2>2, <2>3, <2>4, <2>5 DEF GenWalk, Generating
  <1>4. CASE GenStruct
    <2>1. PICK S \in todo : /\ inside' = S
                            /\ todo' = todo \ {S}
                            /\ left' = NamesOf(scopes[<<Current, S>>], "fn")
      BY <1>4 DEF GenStruct, NamesOf
    <2>2. /\ phase = "gen structs" /\ phase' = phase /\ UNCHANGED <<scopes, body, order, index, printed>>
          /\ body = NoName
      BY <1>4 DEF GenStruct, Walk
    <2> QED BY <2>1, <2>2 DEF GenWalk, Generating, Phases, Current, ScopeOf
  <1>5. CASE GenStructDone
    BY <1>5, CurrentIsModule DEF GenStructDone, codegenVars, GenWalk, Generating, ScopeOf, Current
  <1>6. CASE GenFunctions
    <2>1. /\ phase = "gen structs" /\ phase' = "gen functions" /\ inside = NoName
          /\ UNCHANGED <<scopes, inside, todo, body, order, index, printed>>
          /\ left' = NamesOf(ScopeOf(Current), "fn")
      BY <1>6 DEF GenFunctions, InModule, NamesOf
    <2>2. left' \subseteq NamesOf(scopes[<<Current, inside>>], "fn")
      BY <2>1 DEF ScopeOf
    <2> QED BY <2>1, <2>2 DEF GenWalk, Generating, Phases, Current, ScopeOf
  <1>7. CASE GenBody
    <2>1. PICK f \in left : left' = left \ {f} /\ body' = <<Current, inside, f>>
      BY <1>7 DEF GenBody
    <2>2. /\ phase' = phase /\ Generating
          /\ UNCHANGED <<scopes, inside, todo, order, index, printed>>
      BY <1>7 DEF GenBody, Generating
    <2>3. body' = <<Current, inside, body'[3]>>
      BY <2>1
    <2> QED BY <2>1, <2>2, <2>3 DEF GenWalk, Generating, Phases, Current, ScopeOf
  <1>8. CASE GenStatement \/ GenBodyDone \/ GenModuleDone
    BY <1>8 DEF GenStatement, GenBodyDone, GenModuleDone, codegenVars, GenWalk, Generating, ScopeOf, Current, Phases
  <1> QED BY <1>1, <1>2, <1>3, <1>4, <1>5, <1>6, <1>7, <1>8 DEF GenNext, Validate, Generate
-----------------------------------------------------------------------------
(* Both walks.                                                             *)

Building == ScopesBuilt /\ Walk /\ GenWalk

LEMMA TodoIsNamed ==
  ASSUME ScopesBuilt, AllScoped, GenWalk
  PROVE  phase = "gen structs" => NoName \notin todo
PROOF
  <1> SUFFICES ASSUME phase = "gen structs" PROVE NoName \notin todo
    OBVIOUS
  <1>1. Current \in Modules /\ todo \subseteq NamesOf(ScopeOf(Current), "struct")
    BY CurrentIsModule DEF GenWalk, Generating, Phases
  <1> QED BY <1>1, StructsHaveScopes

LEMMA BuildingInit ==
  ASSUME NEW programs, \A p \in programs : Parsed(p),
         NEW orders, \A q \in orders : q \in Seq(Modules) /\ q /= <<>>,
         GenInit(programs, orders)
  PROVE  Building
PROOF
  <1>1. NamesInit(programs)
    BY DEF GenInit
  <1> QED BY <1>1, ScopesInit, WalkInit, GenInitWalk DEF Building

LEMMA BuildingKept ==
  ASSUME Building, [GenNext]_allVars
  PROVE  Building'
PROOF
  <1>1. AllScoped
    BY ScopesAreWell DEF Building
  <1>2. ScopesBuilt'
    BY ScopesKept DEF Building, Walk
  <1>3. Walk'
    BY <1>1, TodoIsNamed, WalkKept DEF Building
  <1>4. GenWalk'
    BY <1>1, GenWalkKept DEF Building
  <1> QED BY <1>2, <1>3, <1>4 DEF Building
-----------------------------------------------------------------------------
(* The blocks of the body that is validated.                               *)

DeclarationsIn(code) == {i \in DOMAIN code : code[i].op \in {"var", "init"}}
NamesIn(b) ==
  DOMAIN program.params[b] \cup {program.code[b][i].var : i \in DeclarationsIn(program.code[b])}
LocalObjects(b) == [kind : {"var"}, owner : {b}, name : NamesIn(b), type : Types, at : Nat]
BlocksOf(b) == [objects : {O \in SUBSET LocalObjects(b) : Unique(O)}, failed : BOOLEAN]

InBlocks ==
  Walking /\ body /= NoName => at \in Nat \ {0} /\ blocks \in Seq(BlocksOf(body))

LEMMA FailingKeeps ==
  ASSUME NEW b, NEW bs \in Seq(BlocksOf(b))
  PROVE  Failing(bs) \in Seq(BlocksOf(b))
PROOF
  <1>1. PICK n \in Nat : n = Len(bs)
    OBVIOUS
  <1>2. PICK cs : cs = Failing(bs)
    OBVIOUS
  <1>3. cs = [bs EXCEPT ![n] = [bs[n] EXCEPT !.failed = TRUE]]
    BY <1>1, <1>2 DEF Failing
  <1>4. CASE n = 0
    <2>1. cs = bs
      BY <1>1, <1>3, <1>4
    <2> QED BY <1>2, <2>1
  <1>5. CASE n /= 0
    <2>1. n \in 1..Len(bs) /\ bs[n] \in BlocksOf(b)
      BY <1>1, <1>5
    <2>2. [bs[n] EXCEPT !.failed = TRUE] \in BlocksOf(b)
      BY <2>1 DEF BlocksOf
    <2> QED BY <1>2, <1>3, <2>1, <2>2, ExceptSeq
  <1> QED BY <1>4, <1>5

LEMMA BlockIs ==
  ASSUME NEW b, NEW objects, objects \subseteq LocalObjects(b), Unique(objects)
  PROVE  Block(objects) \in BlocksOf(b)
  BY DEF Block, BlocksOf

LEMMA EnterKeeps ==
  ASSUME NEW b, NEW bs \in Seq(BlocksOf(b))
  PROVE  Append(bs, Block({})) \in Seq(BlocksOf(b))
PROOF
  <1>1. Block({}) \in BlocksOf(b)
    BY BlockIs DEF Unique
  <1> QED BY <1>1

LEMMA OuterKeeps ==
  ASSUME NEW b, blocks \in Seq(BlocksOf(b))
  PROVE  Closed \in Seq(BlocksOf(b))
PROOF
  <1>1. PICK n \in Nat : n = Len(blocks)
    OBVIOUS
  <1>2. Outer \in Seq(BlocksOf(b))
    <2>1. SubSeq(blocks, 1, n - 1) \in Seq(BlocksOf(b))
      BY <1>1, SubSeqProperties
    <2> QED BY <1>1, <2>1 DEF Outer
  <1> QED BY <1>2, FailingKeeps DEF Closed

LEMMA DeclaredKeeps ==
  ASSUME body \in Bodies, at \in DOMAIN Code, at \in Nat, Stmt.op \in {"var", "init"},
         blocks \in Seq(BlocksOf(body)), ~Redeclares, NEW type \in Types
  PROVE  Declared(type) \in Seq(BlocksOf(body))
PROOF
  <1>1. PICK n \in Nat : n = Len(blocks)
    OBVIOUS
  <1>2. PICK o : o = Object("var", body, Stmt.var, type, at)
    OBVIOUS
  <1>3. o \in LocalObjects(body) /\ o.name = Stmt.var
    <2>1. Stmt.var \in NamesIn(body)
      BY DEF Stmt, Code, NamesIn, DeclarationsIn
    <2> QED BY <1>2, <2>1 DEF Object, LocalObjects
  <1>4. PICK cs : cs = Declared(type)
    OBVIOUS
  <1>5. cs = [blocks EXCEPT ![n] = [blocks[n] EXCEPT !.objects = @ \cup {o}]]
    BY <1>1, <1>2, <1>4 DEF Declared
  <1>6. CASE n = 0
    <2>1. cs = blocks
      BY <1>1, <1>5, <1>6
    <2> QED BY <1>4, <2>1
  <1>7. CASE n /= 0
    <2>1. n \in 1..Len(blocks) /\ blocks[n] \in BlocksOf(body)
      BY <1>1, <1>7
    <2>2. \A p \in blocks[n].objects : p.name /= o.name
      BY <1>1, <1>3 DEF Redeclares, Named, Last
    <2>3. blocks[n].objects \cup {o} \subseteq LocalObjects(body) /\ Unique(blocks[n].objects \cup {o})
      BY <1>3, <2>1, <2>2 DEF BlocksOf, Unique
    <2>4. [blocks[n] EXCEPT !.objects = @ \cup {o}] \in BlocksOf(body)
      BY <2>1, <2>3 DEF BlocksOf
    <2> QED BY <1>4, <1>5, <2>1, <2>4, ExceptSeq
  <1> QED BY <1>6, <1>7

LEMMA MinIsIn ==
  ASSUME NEW S, S \subseteq Nat, S /= {}
  PROVE  Min(S) \in S /\ \A y \in S : Min(S) =< y
PROOF
  <1>1. PICK R : R = OpToRel(<, Nat)
    OBVIOUS
  <1>2. PICK x \in S : \A y \in S : ~ (<<y, x>> \in R)
    BY <1>1, NatLessThanWellFounded, WFMin
  <1>3. ASSUME NEW y \in S PROVE x =< y
    <2>1. <<y, x>> \notin {ss \in Nat \X Nat : ss[1] < ss[2]}
      BY <1>1, <1>2 DEF OpToRel
    <2> QED BY <2>1
  <1>4. \E z \in S : \A y \in S : z =< y
    BY <1>3
  <1> QED BY <1>4 DEF Min

\* The statement after a block comes later.
LEMMA AfterIs ==
  ASSUME ScopesBuilt, body \in Bodies, NEW i \in DOMAIN Code, i \in Nat, Opens(Code[i])
  PROVE  After(i) \in Nat \ {0} /\ After(i) > i
PROOF
  <1>1. PICK S : S = {k \in i..Len(Code) : Level(Code, i, k) = 0}
    OBVIOUS
  <1>2. body \in BodiesOf(program)
    BY DEF ScopesBuilt, Parsed, Bodies
  <1>3. \E k \in i..Len(Code) : Level(Code, i, k) = 0
    BY <1>2 DEF ScopesBuilt, Parsed, Code
  <1>4. Code \in Seq(Range(Code))
    BY <1>2 DEF ScopesBuilt, Parsed, Code
  <1>5. S \subseteq Nat /\ S /= {} /\ \A k \in S : k >= i
    BY <1>1, <1>3, <1>4
  <1>6. PICK m \in Nat : m = Min(S) /\ m >= i
    BY <1>5, MinIsIn
  <1>7. After(i) = 1 + m
    BY <1>1, <1>6 DEF After
  <1> QED BY <1>6, <1>7

LEMMA SkipIs ==
  ASSUME ScopesBuilt, body \in Bodies, NEW i \in DOMAIN Code, i \in Nat, Opens(Code[i])
  PROVE  Skip(i) \in Nat \ {0} /\ Skip(i) > i
PROOF
  <1>1. PICK j \in Nat \ {0} : j = After(i) /\ j > i
    BY AfterIs
  <1>2. ASSUME IsElse(j) PROVE After(j) \in Nat \ {0} /\ After(j) > i
    <2>1. j =< Len(Code) /\ Code[j].op = "else"
      BY <1>2 DEF IsElse
    <2>2. Code \in Seq(Range(Code))
      BY DEF ScopesBuilt, Parsed, Code, Bodies
    <2>3. j \in DOMAIN Code
      BY <2>1, <2>2
    <2>4. Opens(Code[j])
      BY <2>1 DEF Opens
    <2>5. PICK k \in Nat \ {0} : k = After(j) /\ k > j
      BY <2>3, <2>4, AfterIs
    <2> QED BY <1>1, <2>5
  <1> QED BY <1>1, <1>2 DEF Skip
-----------------------------------------------------------------------------
(* What a name is found to stand for.                                      *)

\* A local variable, or an object of a scope; in a method, no function of the module.
Meant(b, o) ==
  /\ o.type \in Types
  /\ \/ o.kind = "var" /\ o.owner = b /\ o.name \in NamesIn(b)
     \/ /\ o.owner \in DOMAIN scopes
        /\ o \in scopes[o.owner]
        /\ b[2] /= NoName => ~(o.kind = "fn" /\ o.owner = ModuleScope)

\* In the body that is validated.
Inside ==
  /\ ScopesBuilt /\ AllScoped /\ Walk /\ InBlocks
  /\ phase \in {"structs", "functions"}
  /\ body /= NoName

LEMMA InsideIs ==
  ASSUME Inside
  PROVE  /\ at \in Nat \ {0} /\ blocks \in Seq(BlocksOf(body))
         /\ body \in Bodies /\ body[2] = inside
         /\ inside /= NoName => inside \in Structs /\ phase = "structs"
PROOF
  <1>1. at \in Nat \ {0} /\ blocks \in Seq(BlocksOf(body))
    BY DEF Inside, InBlocks, Walking
  <1>2. body \in Bodies /\ body = <<Self, inside, body[3]>>
    BY DEF Inside, Walk, Walking
  <1>3. body[2] = inside
    BY <1>2
  <1>4. inside /= NoName => inside \in Structs /\ phase = "structs"
    BY DEF Inside, Walk, Walking
  <1> QED BY <1>1, <1>2, <1>3, <1>4

LEMMA ScopeObjectIsMeant ==
  ASSUME Inside, NEW s \in DOMAIN scopes, NEW o \in scopes[s]
  PROVE  Meant(body, o)
PROOF
  <1>1. o.owner = s /\ o.type \in Types
    BY DEF Inside, AllScoped, WellScoped, ObjectOf
  <1>2. body[2] /= NoName => ~(o.kind = "fn" /\ s = ModuleScope)
    BY InsideIs DEF Inside, ScopesBuilt
  <1> QED BY <1>1, <1>2 DEF Meant

LEMMA LocalIsMeant ==
  ASSUME NEW b, NEW o \in LocalObjects(b)
  PROVE  Meant(b, o) /\ o.kind = "var"
  BY DEF LocalObjects, Meant

\* A scope of the chain: the objects of a block, the struct that is entered, or the module.
LEMMA ChainIs ==
  ASSUME Inside, NEW i \in DOMAIN Chain
  PROVE  /\ i \in Nat
         /\ Unique(Chain[i])
         /\ \/ Chain[i] \subseteq LocalObjects(body)
            \/ /\ <<Self, inside>> \in DOMAIN scopes /\ inside /= NoName
               /\ Chain[i] = scopes[<<Self, inside>>]
            \/ ModuleScope \in DOMAIN scopes /\ Chain[i] = scopes[ModuleScope]
PROOF
  <1>1. PICK n \in Nat : n = Len(blocks)
    BY InsideIs
  <1>2. blocks \in Seq(BlocksOf(body)) /\ DOMAIN blocks = 1..n
    BY <1>1, InsideIs
  <1>3. PICK A : A = [j \in DOMAIN blocks |-> blocks[Len(blocks) + 1 - j].objects]
    OBVIOUS
  <1>4. PICK B : B = IF inside = NoName THEN <<>> ELSE <<scopes[<<Self, inside>>]>>
    OBVIOUS
  <1>5. PICK C : C = <<scopes[ModuleScope]>>
    OBVIOUS
  <1> DEFINE Good(X) == /\ Unique(X)
                        /\ \/ X \subseteq LocalObjects(body)
                           \/ /\ <<Self, inside>> \in DOMAIN scopes /\ inside /= NoName
                              /\ X = scopes[<<Self, inside>>]
                           \/ ModuleScope \in DOMAIN scopes /\ X = scopes[ModuleScope]
  <1>6. PICK G : G = {X \in UNION {{A[j] : j \in 1..n}, {scopes[s] : s \in DOMAIN scopes}} : Good(X)}
    OBVIOUS
  <1>7. A \in Seq(G)
    <2>1. ASSUME NEW j \in 1..n PROVE A[j] \in G
      <3>1. n + 1 - j \in 1..n
        OBVIOUS
      <3>2. A[j] = blocks[n + 1 - j].objects
        BY <1>1, <1>2, <1>3
      <3>3. blocks[n + 1 - j] \in BlocksOf(body)
        BY <1>1, <1>2, <3>1
      <3>4. Good(A[j])
        BY <3>2, <3>3 DEF BlocksOf
      <3> QED BY <1>6, <3>4
    <2>2. A \in [1..n -> G]
      BY <1>2, <1>3, <2>1
    <2> QED BY <2>2
  <1>8. B \in Seq(G)
    <2>1. CASE inside = NoName
      BY <1>4, <2>1
    <2>2. CASE inside /= NoName
      <3>1. <<Self, inside>> \in DOMAIN scopes
        BY <2>2, InsideIs DEF Inside, ScopesBuilt
      <3>2. Unique(scopes[<<Self, inside>>])
        BY <3>1 DEF Inside, AllScoped, WellScoped
      <3>3. scopes[<<Self, inside>>] \in G
        BY <1>6, <2>2, <3>1, <3>2
      <3> QED BY <1>4, <2>2, <3>3
    <2> QED BY <2>1, <2>2
  <1>9. C \in Seq(G)
    <2>1. ModuleScope \in DOMAIN scopes
      BY DEF Inside, ScopesBuilt
    <2>2. Unique(scopes[ModuleScope])
      BY <2>1 DEF Inside, AllScoped, WellScoped
    <2> QED BY <1>5, <1>6, <2>1, <2>2
  <1>10. Chain \in Seq(G)
    <2>1. Chain = A \o B \o C
      BY <1>3, <1>4, <1>5 DEF Chain
    <2>2. A \o B \in Seq(G)
      BY <1>7, <1>8, ConcatProperties
    <2>3. (A \o B) \o C \in Seq(G)
      BY <1>9, <2>2, ConcatProperties
    <2> QED BY <2>1, <2>3
  <1>11. i \in Nat /\ Chain[i] \in G
    BY <1>10
  <1> QED BY <1>6, <1>11

LEMMA VisibleIs ==
  ASSUME Inside, NEW x
  PROVE  /\ \A o, p \in Visible(x) : o = p
         /\ \A o \in Visible(x) :
              /\ Meant(body, o)
              /\ o.kind = "struct" => <<o.owner[1], o.name>> \in DOMAIN scopes
PROOF
  <1>1. PICK hits : hits = {i \in DOMAIN Chain : Named(Chain[i], x) /= {}}
    OBVIOUS
  <1>2. CASE hits = {}
    BY <1>1, <1>2 DEF Visible
  <1>3. CASE hits /= {}
    <2>1. hits \subseteq Nat
      BY <1>1, ChainIs
    <2>2. PICK i \in hits : i = Min(hits)
      BY <1>3, <2>1, MinIsIn
    <2>3. Visible(x) = Named(Chain[i], x)
      BY <1>1, <1>3, <2>2 DEF Visible
    <2>4. i \in DOMAIN Chain /\ Unique(Chain[i])
      BY <1>1, ChainIs
    <2>5. \A o, p \in Visible(x) : o = p
      BY <2>3, <2>4 DEF Named, Unique
    <2>6. ASSUME NEW o \in Visible(x)
          PROVE  Meant(body, o) /\ (o.kind = "struct" => <<o.owner[1], o.name>> \in DOMAIN scopes)
      <3>1. o \in Chain[i]
        BY <2>3 DEF Named
      <3>2. CASE Chain[i] \subseteq LocalObjects(body)
        BY <3>1, <3>2, LocalIsMeant
      <3>3. ASSUME NEW s \in DOMAIN scopes, Chain[i] = scopes[s]
            PROVE  Meant(body, o) /\ (o.kind = "struct" => <<o.owner[1], o.name>> \in DOMAIN scopes)
        <4>1. Meant(body, o)
          BY <3>1, <3>3, ScopeObjectIsMeant
        <4>2. ObjectOf(s, o, Types, DOMAIN scopes)
          BY <3>1, <3>3 DEF Inside, AllScoped, WellScoped
        <4> QED BY <4>1, <4>2 DEF ObjectOf
      <3> QED BY <2>4, <3>2, <3>3, ChainIs
    <2> QED BY <2>5, <2>6
  <1> QED BY <1>2, <1>3

LEMMA FindIs ==
  ASSUME Inside, NEW path, NEW x, NEW o \in Find(path, x)
  PROVE  Meant(body, o)
PROOF
  <1>1. CASE path = <<>>
    BY <1>1, VisibleIs DEF Find
  <1>2. ASSUME NEW s \in DOMAIN scopes, NEW y, o \in Named(scopes[s], y)
        PROVE  Meant(body, o)
    BY <1>2, ScopeObjectIsMeant DEF Named
  <1>3. \A m \in Imports : <<m, NoName>> \in DOMAIN scopes
    <2> SUFFICES ASSUME NEW m \in Imports PROVE <<m, NoName>> \in DOMAIN scopes
      OBVIOUS
    <2>1. <<m, NoName>> \in DOMAIN ImportedScopes
      BY ImportedScopesAssumption
    <2>2. m \in Modules
      BY <2>1 DEF Modules
    <2> QED BY <2>2, ModulesHaveScopes DEF Inside
  <1>4. CASE path /= <<>> /\ IsModule(path)
    BY <1>2, <1>3, <1>4 DEF Find, IsModule
  <1>5. CASE path /= <<>> /\ ~IsModule(path)
    <2>1. PICK r \in Record(path) : r.kind = "struct" /\ o \in Named(scopes[<<r.owner[1], r.name>>], x)
      BY <1>5 DEF Find
    <2>2. <<r.owner[1], r.name>> \in DOMAIN scopes
      <3>1. CASE path[1] \in Imports
        <4>1. r \in scopes[<<path[1], NoName>>]
          BY <2>1, <3>1 DEF Record, Named
        <4>2. ObjectOf(<<path[1], NoName>>, r, Types, DOMAIN scopes)
          BY <1>3, <3>1, <4>1 DEF Inside, AllScoped, WellScoped
        <4> QED BY <2>1, <4>2 DEF ObjectOf
      <3>2. CASE path[1] \notin Imports
        <4>1. r \in Visible(path[1])
          BY <2>1, <3>2 DEF Record
        <4> QED BY <2>1, <4>1, VisibleIs
      <3> QED BY <3>1, <3>2
    <2> QED BY <1>2, <2>1, <2>2
  <1> QED BY <1>1, <1>4, <1>5

LEMMA TypesAreScopes ==
  ASSUME ScopesBuilt, NEW type \in Types, type /= NoName
  PROVE  type \in DOMAIN scopes
  BY DEF ScopesBuilt, Types, TypesOf, ImportedTypes, Structs

LEMMA FieldIs ==
  ASSUME Inside, NEW x, HasFields(Visible(x)), NEW f, NEW r \in Visible(x), NEW o \in Field(r, f)
  PROVE  Meant(body, o)
PROOF
  <1>1. PICK q \in Visible(x) : q.type /= NoName
    BY DEF HasFields
  <1>2. q = r /\ r.type \in Types
    BY VisibleIs DEF Meant
  <1>3. r.type \in DOMAIN scopes
    BY <1>1, <1>2, TypesAreScopes DEF Inside
  <1> QED BY <1>3, ScopeObjectIsMeant DEF Field, Named
LEMMA AtIs ==
  ASSUME Inside, at =< Len(Code)
  PROVE  at \in DOMAIN Code /\ at \in Nat
PROOF
  <1>1. Code \in Seq(Range(Code))
    BY InsideIs DEF Inside, ScopesBuilt, Parsed, Code, Bodies
  <1> QED BY <1>1, InsideIs

LEMMA TypeOfStmt ==
  ASSUME Inside, at =< Len(Code), Stmt.op = "var"
  PROVE  Stmt.type \in Types
  BY AtIs, InsideIs DEF Inside, ScopesBuilt, Parsed, Code, Bodies, Stmt, Types

LEMMA FailIs ==
  ASSUME Inside, NEW next \in Nat \ {0}, Fail(next)
  PROVE  at' \in Nat \ {0} /\ blocks' \in Seq(BlocksOf(body)) /\ resolved' = resolved
  BY InsideIs, FailingKeeps DEF Fail

\* What a statement does to the blocks, and what it finds.
StatementDoes ==
  /\ at' \in Nat \ {0} /\ blocks' \in Seq(BlocksOf(body))
  /\ \A r \in resolved' : r \in resolved \/ (r[1] = body /\ Meant(body, r[3]))

LEMMA ResolvedIs ==
  ASSUME NEW objects, Resolved(objects), \A o \in objects : Meant(body, o)
  PROVE  \A r \in resolved' : r \in resolved \/ (r[1] = body /\ Meant(body, r[3]))
PROOF
  <1> SUFFICES ASSUME NEW r \in resolved', r \notin resolved PROVE r[1] = body /\ Meant(body, r[3])
    OBVIOUS
  <1>1. PICK o \in objects : r = <<body, at, o>>
    BY DEF Resolved
  <1>2. r[1] = body /\ r[3] = o
    BY <1>1
  <1> QED BY <1>2

LEMMA StatementSteps ==
  ASSUME Inside, Statement
  PROVE  StatementDoes
PROOF
  <1>1. /\ at \in Nat \ {0} /\ at + 1 \in Nat \ {0} /\ at \in DOMAIN Code
        /\ blocks \in Seq(BlocksOf(body)) /\ body \in Bodies
        /\ ScopesBuilt
    BY InsideIs, AtIs, StatementKeeps DEF Inside
  <1>2. CASE Abort
    BY <1>1, <1>2 DEF Abort, StatementDoes
  <1>3. ASSUME NEW next \in Nat \ {0}, Fail(next) PROVE StatementDoes
    BY <1>3, FailIs DEF StatementDoes
  <1>4. ASSUME NEW objects, Resolved(objects), \A o \in objects : Meant(body, o),
               at' = at + 1, blocks' \in Seq(BlocksOf(body))
        PROVE  StatementDoes
    BY <1>1, <1>4, ResolvedIs DEF StatementDoes
  <1>5. CASE Use
    <2>1. PICK found : found = Find(Stmt.path, Stmt.name)
      OBVIOUS
    <2>2. \A o \in found : Meant(body, o)
      BY <2>1, FindIs
    <2>3. Abort \/ Fail(at + 1) \/ (Resolved(found) /\ at' = at + 1 /\ blocks' = blocks)
      BY <1>5, <2>1 DEF Use
    <2> QED BY <1>1, <1>2, <1>3, <1>4, <2>2, <2>3
  <1>6. CASE Access
    <2>1. PICK root, field : /\ root = Visible(Stmt.name)
                            /\ field = UNION {Field(o, Stmt.field) : o \in root}
      OBVIOUS
    <2>2. Abort \/ Fail(at + 1)
          \/ (HasFields(root) /\ Resolved(root \cup field) /\ at' = at + 1 /\ blocks' = blocks)
      BY <1>6, <2>1 DEF Access
    <2>3. HasFields(root) => \A o \in root \cup field : Meant(body, o)
      <3> SUFFICES ASSUME HasFields(root), NEW o \in root \cup field PROVE Meant(body, o)
        OBVIOUS
      <3>1. CASE o \in root
        BY <2>1, <3>1, VisibleIs
      <3>2. CASE o \in field
        <4>1. PICK r \in root : o \in Field(r, Stmt.field)
          BY <2>1, <3>2
        <4> QED BY <2>1, <4>1, FieldIs
      <3> QED BY <3>1, <3>2
    <2> QED BY <1>1, <1>2, <1>3, <1>4, <2>2, <2>3
  <1>7. CASE Declare
    <2>1. Abort \/ (~Redeclares /\ blocks' = Declared(Stmt.type) /\ at' = at + 1 /\ resolved' = resolved)
      BY <1>7 DEF Declare
    <2>3. Stmt.op \in {"var", "init"}
      BY <1>7 DEF Declare, InStatement
    <2>2. Stmt.type \in Types
      BY <1>7, StatementKeeps, TypeOfStmt DEF Declare, InStatement, Statement
    <2> QED BY <1>1, <1>2, <2>1, <2>2, <2>3, DeclaredKeeps DEF StatementDoes
  <1>8. CASE DeclareFrom
    <2>1. PICK found : found = Find(Stmt.path, Stmt.name)
      OBVIOUS
    <2>2. \A o \in found : Meant(body, o)
      BY <2>1, FindIs
    <2>3. Abort \/ Fail(at + 1)
          \/ (/\ Usable(found) /\ ~Redeclares /\ Resolved(found)
              /\ blocks' = Declared(TypeFrom(found)) /\ at' = at + 1)
      BY <1>8, <2>1 DEF DeclareFrom
    <2>4. Usable(found) => TypeFrom(found) \in Types
      BY <2>2 DEF Usable, TypeFrom, Meant
    <2>5. Stmt.op \in {"var", "init"}
      BY <1>8 DEF DeclareFrom, InStatement
    <2>6. Usable(found) /\ ~Redeclares => Declared(TypeFrom(found)) \in Seq(BlocksOf(body))
      BY <1>1, <2>4, <2>5, DeclaredKeeps
    <2> QED BY <1>2, <1>3, <1>1, <1>4, <2>2, <2>3, <2>6
  <1>9. CASE If
    <2>1. PICK found : found = Visible(Stmt.name)
      OBVIOUS
    <2>2. \A o \in found : Meant(body, o)
      BY <2>1, VisibleIs
    <2>3. Fail(Skip(at)) \/ (Resolved(found) /\ Enter /\ at' = at + 1)
      BY <1>9, <2>1 DEF If
    <2>4. Opens(Code[at])
      BY <1>9 DEF If, InStatement, Stmt, Opens
    <2>5. Skip(at) \in Nat \ {0}
      BY <1>1, <2>4, SkipIs
    <2>6. Enter => blocks' \in Seq(BlocksOf(body))
      BY <1>1, EnterKeeps DEF Enter
    <2> QED BY <1>3, <1>4, <2>2, <2>3, <2>5, <2>6
  <1>10. CASE Open
    BY <1>1, <1>10, EnterKeeps DEF Open, Enter, StatementDoes
  <1>11. CASE Close
    <2>1. blocks' \in Seq(BlocksOf(body)) /\ resolved' = resolved
      BY <1>1, <1>11, OuterKeeps DEF Close
    <2>2. IsElse(at + 1) => After(at + 1) \in Nat \ {0}
      <3> SUFFICES ASSUME IsElse(at + 1) PROVE After(at + 1) \in Nat \ {0}
        OBVIOUS
      <3>1. at + 1 =< Len(Code) /\ Code[at + 1].op = "else"
        BY DEF IsElse
      <3>2. Code \in Seq(Range(Code))
        BY <1>1 DEF ScopesBuilt, Parsed, Code, Bodies
      <3>3. at + 1 \in DOMAIN Code
        BY <1>1, <3>1, <3>2
      <3> QED BY <1>1, <3>1, <3>3, AfterIs DEF Opens
    <2>3. at' \in Nat \ {0}
      BY <1>1, <1>11, <2>2 DEF Close
    <2> QED BY <2>1, <2>3 DEF StatementDoes
  <1> QED BY <1>5, <1>6, <1>7, <1>8, <1>9, <1>10, <1>11 DEF Statement
Resolves == \A r \in resolved : r[1] \in Bodies /\ Meant(r[1], r[3])

LEMMA BlocksKept ==
  ASSUME ScopesBuilt, AllScoped, Walk, InBlocks, [GenNext]_allVars
  PROVE  InBlocks'
PROOF
  <1>0. program' = program
    BY ProgramStays
  <1>1. BlocksOf(body)' = BlocksOf(body')
    BY <1>0 DEF BlocksOf, LocalObjects, NamesIn, Types
  <1>2. CASE UNCHANGED allVars
    BY <1>1, <1>2 DEF allVars, vars, InBlocks, Walking
  <1>3. CASE Statement
    <2>1. Inside /\ body' = body
      BY <1>3, StatementKeeps DEF Inside
    <2>2. StatementDoes
      BY <1>3, <2>1, StatementSteps
    <2> QED BY <1>1, <2>1, <2>2 DEF StatementDoes, InBlocks
  <1>4. CASE EnterBody
    <2>1. PICK f \in left : /\ body' = <<Self, inside, f>> /\ at' = 1
                            /\ blocks' = <<Block(Parameters(<<Self, inside, f>>))>>
      BY <1>4 DEF EnterBody
    <2>2. PICK b : b = <<Self, inside, f>>
      OBVIOUS
    <2>3. b \in Bodies
      BY <1>4, <2>2, BodiesAre DEF EnterBody, Walk, Walking
    <2>4. \A x \in DOMAIN program.params[b] : program.params[b][x] \in Types
      BY <2>3 DEF ScopesBuilt, Parsed, Bodies, Types
    <2>5. Parameters(b) \subseteq LocalObjects(b)
      BY <2>4 DEF Parameters, Variables, Object, LocalObjects, NamesIn
    <2>6. Unique(Parameters(b))
      BY ObjectIs DEF Parameters, Variables, Unique
    <2>7. Block(Parameters(b)) \in BlocksOf(b)
      BY <2>5, <2>6, BlockIs
    <2>8. blocks' \in Seq(BlocksOf(b))
      BY <2>1, <2>2, <2>7
    <2> QED BY <1>1, <2>1, <2>2, <2>8 DEF InBlocks
  <1>5. CASE LeaveBody
    BY <1>5 DEF LeaveBody, InBlocks
  <1>6. CASE ValidateVariables \/ EnterStruct \/ Predeclare
    <2>1. body = NoName /\ body' = body
      BY <1>6 DEF ValidateVariables, EnterStruct, Predeclare, Walk
    <2> QED BY <2>1 DEF InBlocks
  <1>7. CASE LeaveStruct \/ Finish
    BY <1>7 DEF LeaveStruct, Finish, InBlocks
  <1>8. CASE Generate
    <2>1. ~Walking'
      BY <1>8 DEF Generate, GenModule, GenStruct, GenStructDone, GenFunctions, GenBody, GenStatement,
                  GenBodyDone, GenModuleDone, Walking
    <2> QED BY <2>1 DEF InBlocks
  <1> QED BY <1>2, <1>3, <1>4, <1>5, <1>6, <1>7, <1>8 DEF GenNext, Validate, Next

LEMMA ResolvesKept ==
  ASSUME ScopesBuilt, AllScoped, Walk, InBlocks, Resolves, [GenNext]_allVars
  PROVE  Resolves'
PROOF
  <1>0. program' = program
    BY ProgramStays
  <1>1. CASE resolved = {} /\ resolved' = {}
    BY <1>1 DEF Resolves
  <1>2. ASSUME phase /= "variables", NEW b, NEW o, Meant(b, o) PROVE Meant(b, o)'
    <2>1. \A s \in DOMAIN scopes : s \in DOMAIN scopes' /\ scopes[s] \subseteq scopes'[s]
      BY <1>2, ScopesGrow DEF Walk
    <2> QED BY <1>0, <1>2, <2>1 DEF Meant, Types, ModuleScope, NamesIn
  <1>3. CASE Statement
    <2>1. Inside /\ phase /= "variables"
      BY <1>3, StatementKeeps DEF Inside
    <2>2. \A r \in resolved' : r \in resolved \/ (r[1] = body /\ Meant(body, r[3]))
      BY <1>3, <2>1, StatementSteps DEF StatementDoes
    <2>3. body \in Bodies
      BY <2>1, InsideIs
    <2>4. \A r \in resolved' : r[1] \in Bodies /\ Meant(r[1], r[3])
      BY <2>2, <2>3 DEF Resolves
    <2>5. \A r \in resolved' : Meant(r[1], r[3])'
      BY <1>2, <2>1, <2>4
    <2> QED BY <1>0, <2>4, <2>5 DEF Resolves, Bodies
  <1>4. CASE resolved' = resolved /\ phase /= "variables"
    <2>1. \A r \in resolved : Meant(r[1], r[3])'
      BY <1>2, <1>4 DEF Resolves
    <2> QED BY <1>0, <1>4, <2>1 DEF Resolves, Bodies
  <1>5. CASE ~Statement
    <2>1. resolved' = resolved
      BY <1>5 DEF GenNext, Validate, Next, ValidateVariables, EnterStruct, LeaveStruct, EnterBody, LeaveBody,
                  Predeclare, Finish, Generate, GenModule, GenStruct, GenStructDone, GenFunctions, GenBody,
                  GenStatement, GenBodyDone, GenModuleDone, allVars, vars
    <2> QED BY <1>1, <1>4, <2>1 DEF Walk
  <1> QED BY <1>3, <1>5
-----------------------------------------------------------------------------
(* How deep a statement is in blocks.                                      *)

LEMMA CountsAdd ==
  ASSUME NEW S, NEW T, IsFiniteSet(S), IsFiniteSet(T), S \cap T = {}
  PROVE  /\ Cardinality(S \cup T) = Cardinality(S) + Cardinality(T)
         /\ Cardinality(S) \in Nat /\ Cardinality(T) \in Nat
PROOF
  <1>1. PICK U : U = S \cup T
    OBVIOUS
  <1>2. PICK c \in Nat, d \in Nat : c = Cardinality(S) /\ d = Cardinality(T)
    BY FS_CardinalityType
  <1>3. Cardinality(U) = Cardinality(S) + Cardinality(T) - Cardinality({})
    BY <1>1, FS_Union
  <1>4. Cardinality({}) = 0
    BY FS_EmptySet
  <1>5. Cardinality(U) = c + d
    BY <1>2, <1>3, <1>4
  <1> QED BY <1>1, <1>2, <1>5

CountIn(S, i, k) == Cardinality(S \cap (i..k))

LEMMA CountsSplit ==
  ASSUME NEW S, NEW i \in Nat, NEW j \in Nat, NEW m, m = j + 1, NEW k \in Nat, i =< m, j =< k
  PROVE  /\ CountIn(S, i, k) = CountIn(S, i, j) + CountIn(S, m, k)
         /\ CountIn(S, i, j) \in Nat /\ CountIn(S, m, k) \in Nat
PROOF
  <1>1. PICK A, B, U : A = S \cap (i..j) /\ B = S \cap (m..k) /\ U = S \cap (i..k)
    OBVIOUS
  <1>2. IsFiniteSet(i..j) /\ IsFiniteSet(m..k)
    BY FS_Interval
  <1>3. IsFiniteSet(A) /\ IsFiniteSet(B)
    BY <1>1, <1>2, FS_Subset
  <1>4. A \cap B = {} /\ A \cup B = U
    BY <1>1
  <1>5. /\ Cardinality(A \cup B) = Cardinality(A) + Cardinality(B)
        /\ Cardinality(A) \in Nat /\ Cardinality(B) \in Nat
    BY <1>3, <1>4, CountsAdd
  <1>6. Cardinality(U) = Cardinality(A) + Cardinality(B)
    BY <1>4, <1>5
  <1>7. CountIn(S, i, j) = Cardinality(A) /\ CountIn(S, m, k) = Cardinality(B) /\ CountIn(S, i, k) = Cardinality(U)
    BY <1>1 DEF CountIn
  <1> QED BY <1>5, <1>6, <1>7

\* The statements that open a block, and those that close one.
Openings(code) == {n \in Nat : Opens(code[n])}
Closings(code) == {n \in Nat : code[n].op = "close"}

LEMMA LevelIs ==
  ASSUME NEW code, NEW i \in Nat, NEW k \in Nat
  PROVE  Level(code, i, k) = CountIn(Openings(code), i, k) - CountIn(Closings(code), i, k)
PROOF
  <1>1. /\ {n \in i..k : Opens(code[n])} = Openings(code) \cap (i..k)
        /\ {n \in i..k : code[n].op = "close"} = Closings(code) \cap (i..k)
    BY DEF Openings, Closings
  <1> QED BY <1>1 DEF Level, CountIn

LEMMA LevelAdds ==
  ASSUME NEW code, NEW i \in Nat, NEW j \in Nat, NEW m \in Nat, m = j + 1, NEW k \in Nat, i =< m, j =< k
  PROVE  /\ Level(code, i, k) = Level(code, i, j) + Level(code, m, k)
         /\ Level(code, i, k) \in Int /\ Level(code, i, j) \in Int /\ Level(code, m, k) \in Int
PROOF
  <1>1. PICK O, C : O = Openings(code) /\ C = Closings(code)
    OBVIOUS
  <1>2. PICK a \in Nat, b \in Nat : a = CountIn(O, i, j) /\ b = CountIn(O, m, k) /\ CountIn(O, i, k) = a + b
    BY CountsSplit
  <1>3. PICK c \in Nat, d \in Nat : c = CountIn(C, i, j) /\ d = CountIn(C, m, k) /\ CountIn(C, i, k) = c + d
    BY CountsSplit
  <1>4. Level(code, i, k) = (a + b) - (c + d)
    BY <1>1, <1>2, <1>3, LevelIs
  <1>5. Level(code, i, j) = a - c
    BY <1>1, <1>2, <1>3, LevelIs
  <1>7. Level(code, m, k) = b - d
    BY <1>1, <1>2, <1>3, LevelIs
  <1> QED BY <1>4, <1>5, <1>7

LEMMA LevelsApart ==
  ASSUME NEW code, NEW j \in Nat, NEW k \in Nat, j =< k
  PROVE  /\ Level(code, 1, k) = Level(code, 1, j) + Level(code, j + 1, k)
         /\ Level(code, 1, k) \in Int /\ Level(code, 1, j) \in Int /\ Level(code, j + 1, k) \in Int
PROOF
  <1>1. PICK m, one \in Nat : m = j + 1 /\ one = 1
    OBVIOUS
  <1>2. one =< m
    BY <1>1
  <1>3. /\ Level(code, one, k) = Level(code, one, j) + Level(code, m, k)
        /\ Level(code, one, k) \in Int /\ Level(code, one, j) \in Int /\ Level(code, m, k) \in Int
    BY <1>1, <1>2, LevelAdds
  <1> QED BY <1>1, <1>3

LEMMA LevelOfNone ==
  ASSUME NEW code, NEW i \in Nat, NEW m, m = i + 1
  PROVE  Level(code, m, i) = 0
PROOF
  <1>1. {n \in m..i : Opens(code[n])} = {} /\ {n \in m..i : code[n].op = "close"} = {}
    OBVIOUS
  <1>2. Cardinality({}) = 0
    BY FS_EmptySet
  <1>3. Level(code, m, i) = Cardinality({}) - Cardinality({})
    BY <1>1, Zenon DEF Level
  <1> QED BY <1>2, <1>3

LEMMA LevelOfOne ==
  ASSUME NEW code, NEW k \in Nat
  PROVE  Level(code, k, k) = (IF Opens(code[k]) THEN 1 ELSE 0) - (IF code[k].op = "close" THEN 1 ELSE 0)
PROOF
  <1>1. k..k = {k}
    OBVIOUS
  <1>2. Cardinality({}) = 0 /\ Cardinality({k}) = 1
    BY FS_EmptySet, FS_Singleton
  <1>3. {n \in k..k : Opens(code[n])} = IF Opens(code[k]) THEN {k} ELSE {}
    BY <1>1
  <1>4. {n \in k..k : code[n].op = "close"} = IF code[k].op = "close" THEN {k} ELSE {}
    BY <1>1
  <1> QED BY <1>2, <1>3, <1>4 DEF Level

LEMMA LevelSteps ==
  ASSUME NEW code, NEW k \in Nat \ {0}
  PROVE  /\ Level(code, 1, k) \in Int /\ Level(code, 1, k - 1) \in Int
         /\ Opens(code[k]) => Level(code, 1, k) = Level(code, 1, k - 1) + 1
         /\ code[k].op = "close" => Level(code, 1, k) = Level(code, 1, k - 1) - 1
         /\ ~Opens(code[k]) /\ code[k].op /= "close" => Level(code, 1, k) = Level(code, 1, k - 1)
PROOF
  <1>1. PICK j \in Nat : j = k - 1 /\ k = j + 1 /\ 1 =< k /\ j =< k
    OBVIOUS
  <1>2. /\ Level(code, 1, k) = Level(code, 1, j) + Level(code, k, k)
        /\ Level(code, 1, k) \in Int /\ Level(code, 1, j) \in Int
    <2>1. PICK i \in Nat : i = 1
      OBVIOUS
    <2>2. PICK m \in Nat : m = k /\ m = j + 1 /\ i =< m
      BY <1>1, <2>1
    <2>3. /\ Level(code, i, m) = Level(code, i, j) + Level(code, m, m)
          /\ Level(code, i, m) \in Int /\ Level(code, i, j) \in Int
      <3>1. j =< m
        BY <2>2
      <3> QED BY <2>2, <3>1, LevelAdds
    <2> QED BY <2>1, <2>2, <2>3
  <1>3. Level(code, 1, k) = Level(code, 1, k - 1) + Level(code, k, k) /\ Level(code, 1, k - 1) \in Int
    BY <1>1, <1>2
  <1>4. Opens(code[k]) => code[k].op /= "close"
    BY DEF Opens
  <1> QED BY <1>2, <1>3, <1>4, LevelOfOne

LEMMA MaxIsIn ==
  ASSUME NEW S, NEW n \in Nat, S \subseteq 0..n, S /= {}
  PROVE  Max(S) \in S /\ \A x \in S : x =< Max(S)
PROOF
  <1>1. PICK T : T = {n - x : x \in S}
    OBVIOUS
  <1>2. T \subseteq Nat /\ T /= {}
    <2>1. \A x \in S : n - x \in Nat
      OBVIOUS
    <2> QED BY <1>1, <2>1
  <1>3. PICK R : R = OpToRel(<, Nat)
    OBVIOUS
  <1>4. PICK t \in T : \A y \in T : ~ (<<y, t>> \in R)
    BY <1>2, <1>3, NatLessThanWellFounded, WFMin
  <1>5. ASSUME NEW y \in T PROVE t =< y
    <2>1. <<y, t>> \notin {ss \in Nat \X Nat : ss[1] < ss[2]}
      BY <1>3, <1>4 DEF OpToRel
    <2> QED BY <1>2, <2>1
  <1>6. PICK m \in S : t = n - m
    BY <1>1
  <1>7. \A x \in S : m >= x
    BY <1>1, <1>5, <1>6
  <1>8. \E z \in S : \A x \in S : z >= x
    BY <1>7
  <1>9. Max(S) \in S /\ \A x \in S : Max(S) >= x
    BY <1>8 DEF Max
  <1> QED BY <1>9

-----------------------------------------------------------------------------
(* What a name means only depends on the text, and on what the initializers *)
(* before it were found to stand for.                                      *)

LEMMA TextMeansTheSame ==
  ASSUME program' = program
  PROVE  /\ \A S : Members(S)' = Members(S)
         /\ \A s : Owner(s)' = Owner(s)
         /\ OwnObjects' = OwnObjects
         /\ \A b, x : Outside(b, x)' = Outside(b, x)
         /\ \A b, i, x : Locals(b, i, x)' = Locals(b, i, x)
PROOF
  <1>1. \A S : Members(S)' = Members(S)
    BY DEF Members
  <1>2. \A s : Owner(s)' = Owner(s)
    BY <1>1 DEF Owner, Structs
  <1>3. OwnObjects' = OwnObjects
    BY DEF OwnObjects, ModuleVariables, Structs
  <1>4. \A b : Parameters(b)' = Parameters(b)
    BY DEF Parameters
  <1>5. \A b : Around(b)' = Around(b)
    BY <1>1, <1>3, <1>4 DEF Around
  <1>6. \A b, x : Outside(b, x)' = Outside(b, x)
    BY <1>5 DEF Outside
  <1>7. \A b, i, x : Locals(b, i, x)' = Locals(b, i, x)
    BY DEF Locals
  <1> QED BY <1>1, <1>2, <1>3, <1>6, <1>7

LEMMA LocalsAre ==
  ASSUME NEW b, NEW i \in Nat, NEW x, Locals(b, i, x) /= {}
  PROVE  /\ Max(Locals(b, i, x)) \in Locals(b, i, x)
         /\ \A j \in Locals(b, i, x) : j =< Max(Locals(b, i, x))
         /\ Max(Locals(b, i, x)) \in 1..(i - 1)
PROOF
  <1>1. PICK S : S = Locals(b, i, x)
    OBVIOUS
  <1>2. S \subseteq 1..(i - 1)
    BY <1>1 DEF Locals
  <1>3. S \subseteq 0..i
    BY <1>2
  <1>4. Max(S) \in S /\ \A j \in S : j =< Max(S)
    BY <1>1, <1>3, MaxIsIn
  <1> QED BY <1>1, <1>2, <1>4

LEMMA LexicalStays ==
  ASSUME NEW b, NEW i \in Nat, NEW x,
         program' = program, \A j \in 1..(i - 1) : FoundAt(b, j)' = FoundAt(b, j)
  PROVE  Lexical(b, i, x)' = Lexical(b, i, x)
PROOF
  <1>1. PICK js : js = Locals(b, i, x) /\ js = Locals(b, i, x)'
    BY TextMeansTheSame
  <1>2. CASE js = {}
    BY <1>1, <1>2, TextMeansTheSame DEF Lexical
  <1>3. CASE js /= {}
    <2>1. PICK j \in 1..(i - 1) : j = Max(js)
      BY <1>1, <1>3, LocalsAre
    <2>2. FoundAt(b, j)' = FoundAt(b, j)
      OBVIOUS
    <2>3. TypeOfLocal(b, j)' = TypeOfLocal(b, j)
      BY <2>2 DEF TypeOfLocal
    <2>4. Lexical(b, i, x) = {Object("var", b, x, TypeOfLocal(b, j), j)}
      BY <1>1, <1>3, <2>1 DEF Lexical
    <2>5. Lexical(b, i, x)' = {Object("var", b, x, TypeOfLocal(b, j)', j)}
      BY <1>1, <1>3, <2>1 DEF Lexical, Object
    <2> QED BY <2>3, <2>4, <2>5
  <1> QED BY <1>2, <1>3

LEMMA MeaningStays ==
  ASSUME NEW b, NEW i \in Nat,
         program' = program, \A j \in 1..(i - 1) : FoundAt(b, j)' = FoundAt(b, j)
  PROVE  /\ Meaning(b, i)' = Meaning(b, i)
         /\ \A o : FieldMeant(b, i, o)' = FieldMeant(b, i, o)
PROOF
  <1>1. \A x : Lexical(b, i, x)' = Lexical(b, i, x)
    BY LexicalStays
  <1>2. /\ \A s : Owner(s)' = Owner(s)
        /\ \A S : Members(S)' = Members(S)
    BY TextMeansTheSame
  <1>3. Meaning(b, i)' = Meaning(b, i)
    BY <1>1, <1>2 DEF Meaning
  <1>4. \A o : FieldMeant(b, i, o)' = FieldMeant(b, i, o)
    BY <1>2 DEF FieldMeant
  <1> QED BY <1>3, <1>4

-----------------------------------------------------------------------------
(* The scope a name is found in.                                           *)

LEMMA FirstHit ==
  ASSUME NEW D, DOMAIN D \subseteq Nat, NEW x, NEW k \in DOMAIN D, Named(D[k], x) /= {},
         \A i \in DOMAIN D : i < k => Named(D[i], x) = {}
  PROVE  Min({i \in DOMAIN D : Named(D[i], x) /= {}}) = k
PROOF
  <1>1. PICK hits : hits = {i \in DOMAIN D : Named(D[i], x) /= {}}
    OBVIOUS
  <1>2. hits \subseteq Nat /\ k \in hits /\ \A i \in hits : ~ (i < k)
    BY <1>1
  <1>3. PICK m \in hits : m = Min(hits) /\ m =< k
    BY <1>2, MinIsIn
  <1>4. m = k
    BY <1>2, <1>3
  <1> QED BY <1>1, <1>3, <1>4

\* D is A, then B, then c.
InParts(D, A, B, c, n, l) ==
  /\ DOMAIN D = 1..(n + l + 1) /\ n \in Nat /\ l \in Nat
  /\ \A i \in 1..n : D[i] = A[i]
  /\ \A i \in 1..l : D[n + i] = B[i]
  /\ D[n + l + 1] = c

LEMMA ThreeParts ==
  ASSUME NEW V, NEW A \in Seq(V), NEW B \in Seq(V), NEW c \in V, NEW n, n = Len(A), NEW l, l = Len(B),
         NEW D, D = A \o B \o <<c>>
  PROVE  InParts(D, A, B, c, n, l)
PROOF
  <1>1. n \in Nat /\ l \in Nat
    OBVIOUS
  <1>2. PICK E \in Seq(V) : E = A \o B
    BY ConcatProperties
  <1>3. /\ Len(E) = n + l
        /\ \A i \in 1..(n + l) : E[i] = IF i =< n THEN A[i] ELSE B[i - n]
    BY <1>2, ConcatProperties
  <1>4. <<c>> \in Seq(V) /\ Len(<<c>>) = 1 /\ <<c>>[1] = c
    OBVIOUS
  <1>5. /\ D \in Seq(V) /\ Len(D) = n + l + 1
        /\ \A i \in 1..(n + l + 1) : D[i] = IF i =< n + l THEN E[i] ELSE <<c>>[i - (n + l)]
    <2>1. D = E \o <<c>>
      BY <1>2
    <2> QED BY <1>1, <1>3, <1>4, <2>1, ConcatProperties
  <1>6. DOMAIN D = 1..(n + l + 1)
    BY <1>1, <1>5
  <1>7. \A i \in 1..n : D[i] = A[i]
    BY <1>1, <1>3, <1>5
  <1>8. \A i \in 1..l : D[n + i] = B[i]
    <2> SUFFICES ASSUME NEW i \in 1..l PROVE D[n + i] = B[i]
      OBVIOUS
    <2>1. n + i \in 1..(n + l) /\ (n + i) - n = i /\ ~ (n + i =< n)
      BY <1>1
    <2>2. PICK k \in 1..(n + l) : k = n + i /\ k - n = i /\ ~ (k =< n)
      BY <2>1
    <2> QED BY <1>1, <1>3, <1>5, <2>2
  <1>9. D[n + l + 1] = c
    <2>1. PICK k \in 1..(n + l + 1) : k = n + l + 1 /\ k - (n + l) = 1 /\ ~ (k =< n + l)
      BY <1>1
    <2> QED BY <1>4, <1>5, <2>1
  <1> QED BY <1>1, <1>6, <1>7, <1>8, <1>9 DEF InParts

\* The objects named x in the first scope that has one.
FirstNamed(D, x) ==
  LET hits == {i \in DOMAIN D : Named(D[i], x) /= {}}
  IN IF hits = {} THEN {} ELSE Named(D[Min(hits)], x)

LEMMA FirstNamedIs ==
  ASSUME NEW D, DOMAIN D \subseteq Nat, NEW x, NEW k \in DOMAIN D,
         \A i \in DOMAIN D : i < k => Named(D[i], x) = {},
         Named(D[k], x) /= {} \/ \A i \in DOMAIN D : i =< k
  PROVE  FirstNamed(D, x) = Named(D[k], x)
PROOF
  <1>1. PICK hits : hits = {i \in DOMAIN D : Named(D[i], x) /= {}}
    OBVIOUS
  <1>2. CASE Named(D[k], x) /= {}
    <2>1. Min(hits) = k /\ k \in hits
      BY <1>1, <1>2, FirstHit
    <2> QED BY <1>1, <2>1 DEF FirstNamed
  <1>3. CASE Named(D[k], x) = {}
    <2>1. \A i \in DOMAIN D : i < k \/ i = k
      BY <1>3
    <2>2. hits = {}
      BY <1>1, <1>3, <2>1
    <2> QED BY <1>1, <1>3, <2>2 DEF FirstNamed
  <1> QED BY <1>2, <1>3

LEMMA ChainParts ==
  ASSUME Inside, NEW n, n = Len(blocks)
  PROVE  /\ n \in Nat
         /\ \A d \in 1..n : Chain[n + 1 - d] = blocks[d].objects
         /\ inside /= NoName => /\ DOMAIN Chain = 1..(n + 2)
                                /\ Chain[n + 1] = scopes[<<Self, inside>>]
                                /\ Chain[n + 2] = scopes[ModuleScope]
         /\ inside = NoName => DOMAIN Chain = 1..(n + 1) /\ Chain[n + 1] = scopes[ModuleScope]
PROOF
  <1>1. n \in Nat /\ DOMAIN blocks = 1..n
    BY InsideIs
  <1>2. PICK A : A = [j \in DOMAIN blocks |-> blocks[Len(blocks) + 1 - j].objects]
    OBVIOUS
  <1>3. PICK B : B = IF inside = NoName THEN <<>> ELSE <<scopes[<<Self, inside>>]>>
    OBVIOUS
  <1>4. PICK c : c = scopes[ModuleScope]
    OBVIOUS
  <1>5. PICK V : V = {A[j] : j \in 1..n} \cup {scopes[<<Self, inside>>], scopes[ModuleScope]}
    OBVIOUS
  <1>6. A \in Seq(V) /\ Len(A) = n
    <2>1. A \in [1..n -> V]
      BY <1>1, <1>2, <1>5
    <2> QED BY <1>1, <2>1
  <1>7. B \in Seq(V)
    BY <1>3, <1>5
  <1>8. c \in V
    BY <1>4, <1>5
  <1>9. PICK D : D = A \o B \o <<c>> /\ D = Chain
    BY <1>2, <1>3, <1>4 DEF Chain
  <1>10. PICK l \in Nat : l = Len(B)
    BY <1>7
  <1>11. /\ DOMAIN D = 1..(n + l + 1)
         /\ \A i \in 1..n : D[i] = A[i]
         /\ \A i \in 1..l : D[n + i] = B[i]
         /\ D[n + l + 1] = c
    <2>1. n = Len(A) /\ D = A \o B \o <<c>>
      BY <1>6, <1>9
    <2>2. InParts(D, A, B, c, n, l)
      BY <1>6, <1>7, <1>8, <1>10, <2>1, ThreeParts
    <2> QED BY <2>2 DEF InParts
  <1>12. ASSUME NEW d \in 1..n PROVE Chain[n + 1 - d] = blocks[d].objects
    <2>1. PICK j \in 1..n : j = n + 1 - d /\ n + 1 - j = d
      <3>1. n + 1 - d \in 1..n /\ n + 1 - (n + 1 - d) = d
        BY <1>1
      <3> QED BY <3>1
    <2>2. A[j] = blocks[n + 1 - j].objects
      BY <1>1, <1>2
    <2> QED BY <1>9, <1>11, <2>1, <2>2
  <1>13. CASE inside /= NoName
    <2>1. l = 1 /\ B[1] = scopes[<<Self, inside>>]
      BY <1>3, <1>10, <1>13
    <2> QED BY <1>1, <1>4, <1>9, <1>11, <1>12, <1>13, <2>1
  <1>14. CASE inside = NoName
    <2>1. l = 0
      BY <1>3, <1>10, <1>14
    <2> QED BY <1>1, <1>4, <1>9, <1>11, <1>12, <1>14, <2>1
  <1> QED BY <1>13, <1>14

LEMMA VisibleInBlock ==
  ASSUME Inside, NEW x, NEW n, n = Len(blocks), NEW d \in 1..n, Named(blocks[d].objects, x) /= {},
         \A e \in 1..n : e > d => Named(blocks[e].objects, x) = {}
  PROVE  Visible(x) = Named(blocks[d].objects, x)
PROOF
  <1>1. /\ n \in Nat
        /\ \A e \in 1..n : Chain[n + 1 - e] = blocks[e].objects
        /\ DOMAIN Chain = 1..(n + 1) \/ DOMAIN Chain = 1..(n + 2)
    BY ChainParts
  <1>2. PICK k \in 1..n : k = n + 1 - d
    <2>1. n + 1 - d \in 1..n
      BY <1>1
    <2> QED BY <2>1
  <1>3. k \in DOMAIN Chain /\ DOMAIN Chain \subseteq Nat /\ Chain[k] = blocks[d].objects
    BY <1>1, <1>2
  <1>4. ASSUME NEW i \in DOMAIN Chain, i < k PROVE Named(Chain[i], x) = {}
    <2>1. PICK e \in 1..n : e = n + 1 - i /\ e > d /\ n + 1 - e = i
      <3>1. n + 1 - i \in 1..n /\ n + 1 - i > d /\ n + 1 - (n + 1 - i) = i
        BY <1>1, <1>2, <1>4
      <3> QED BY <3>1
    <2> QED BY <1>1, <2>1
  <1>5. FirstNamed(Chain, x) = Named(Chain[k], x)
    BY <1>3, <1>4, FirstNamedIs
  <1> QED BY <1>3, <1>5 DEF FirstNamed, Visible

\* Behind the blocks: the struct, then the module.
LEMMA VisibleOutside ==
  ASSUME Inside, NEW x, \A d \in 1..Len(blocks) : Named(blocks[d].objects, x) = {}
  PROVE  Visible(x) = IF inside /= NoName /\ Named(scopes[<<Self, inside>>], x) /= {}
                      THEN Named(scopes[<<Self, inside>>], x) ELSE Named(scopes[ModuleScope], x)
PROOF
  <1>1. PICK n : n = Len(blocks)
    OBVIOUS
  <1>2. /\ n \in Nat
        /\ \A e \in 1..n : Chain[n + 1 - e] = blocks[e].objects
        /\ inside /= NoName => /\ DOMAIN Chain = 1..(n + 2)
                               /\ Chain[n + 1] = scopes[<<Self, inside>>]
                               /\ Chain[n + 2] = scopes[ModuleScope]
        /\ inside = NoName => DOMAIN Chain = 1..(n + 1) /\ Chain[n + 1] = scopes[ModuleScope]
    BY <1>1, ChainParts
  <1>3. DOMAIN Chain \subseteq Nat
    BY <1>2
  <1>4. ASSUME NEW i \in 1..n PROVE Named(Chain[i], x) = {}
    <2>1. PICK e \in 1..n : n + 1 - e = i
      <3>1. n + 1 - i \in 1..n /\ n + 1 - (n + 1 - i) = i
        BY <1>2
      <3> QED BY <3>1
    <2> QED BY <1>1, <1>2, <2>1
  <1>5. FirstNamed(Chain, x) = Visible(x)
    BY DEF FirstNamed, Visible
  <1>6. CASE inside = NoName
    <2>1. PICK k : k = n + 1
      OBVIOUS
    <2>2. k \in DOMAIN Chain /\ \A i \in DOMAIN Chain : i =< k /\ (i < k => i \in 1..n)
      BY <1>2, <1>6, <2>1
    <2>3. FirstNamed(Chain, x) = Named(Chain[k], x)
      BY <1>3, <1>4, <2>2, FirstNamedIs
    <2> QED BY <1>2, <1>5, <1>6, <2>1, <2>3
  <1>7. CASE inside /= NoName /\ Named(scopes[<<Self, inside>>], x) /= {}
    <2>1. PICK k : k = n + 1
      OBVIOUS
    <2>2. k \in DOMAIN Chain /\ \A i \in DOMAIN Chain : i < k => i \in 1..n
      BY <1>2, <1>7, <2>1
    <2>3. Named(Chain[k], x) /= {}
      BY <1>2, <1>7, <2>1
    <2>4. FirstNamed(Chain, x) = Named(Chain[k], x)
      BY <1>3, <1>4, <2>2, <2>3, FirstNamedIs
    <2> QED BY <1>2, <1>5, <1>7, <2>1, <2>4
  <1>8. CASE inside /= NoName /\ Named(scopes[<<Self, inside>>], x) = {}
    <2>1. PICK k : k = n + 2
      OBVIOUS
    <2>2. k \in DOMAIN Chain /\ \A i \in DOMAIN Chain : i =< k /\ (i < k => i \in 1..n \/ i = n + 1)
      BY <1>2, <1>8, <2>1
    <2>3. \A i \in DOMAIN Chain : i < k => Named(Chain[i], x) = {}
      BY <1>2, <1>4, <1>8, <2>2
    <2>4. FirstNamed(Chain, x) = Named(Chain[k], x)
      BY <1>3, <2>2, <2>3, FirstNamedIs
    <2> QED BY <1>2, <1>5, <1>8, <2>1, <2>4
  <1> QED BY <1>6, <1>7, <1>8

LEMMA OutsideIs ==
  ASSUME NEW b, NEW x
  PROVE  Outside(b, x) =
           IF Named(Parameters(b), x) /= {} THEN Named(Parameters(b), x)
           ELSE IF b[2] /= NoName /\ Named(Members(b[2]), x) /= {} THEN Named(Members(b[2]), x)
           ELSE Named(OwnObjects, x)
PROOF
  <1>1. PICK P, M, O : P = Parameters(b) /\ M = Members(b[2]) /\ O = OwnObjects
    OBVIOUS
  <1>2. PICK D : D = Around(b)
    OBVIOUS
  <1>3. Outside(b, x) = FirstNamed(D, x)
    BY <1>2 DEF Outside, FirstNamed
  <1>4. CASE b[2] = NoName
    <2>1. D = <<P>> \o <<>> \o <<O>>
      BY <1>1, <1>2, <1>4 DEF Around
    <2>2. DOMAIN D = {1, 2} /\ D[1] = P /\ D[2] = O
      BY <2>1
    <2>3. CASE Named(P, x) /= {}
      <3>1. FirstNamed(D, x) = Named(D[1], x)
        BY <2>2, <2>3, FirstNamedIs
      <3> QED BY <1>1, <1>3, <2>2, <2>3, <3>1
    <2>4. CASE Named(P, x) = {}
      <3>1. FirstNamed(D, x) = Named(D[2], x)
        BY <2>2, <2>4, FirstNamedIs
      <3> QED BY <1>1, <1>3, <1>4, <2>2, <2>4, <3>1
    <2> QED BY <2>3, <2>4
  <1>5. CASE b[2] /= NoName
    <2>1. D = <<P>> \o <<M>> \o <<O>>
      BY <1>1, <1>2, <1>5 DEF Around
    <2>2. DOMAIN D = {1, 2, 3} /\ D[1] = P /\ D[2] = M /\ D[3] = O
      <3>1. PICK V : V = {P, M, O}
        OBVIOUS
      <3>2. <<P>> \in Seq(V) /\ Len(<<P>>) = 1 /\ <<M>> \in Seq(V) /\ Len(<<M>>) = 1 /\ O \in V
        BY <3>1
      <3>3. InParts(D, <<P>>, <<M>>, O, 1, 1)
        BY <2>1, <3>2, ThreeParts
      <3>4. DOMAIN D = 1..3 /\ D[3] = O
        BY <3>3 DEF InParts
      <3>5. D[1] = <<P>>[1] /\ D[1 + 1] = <<M>>[1]
        BY <3>3 DEF InParts
      <3> QED BY <3>4, <3>5
    <2>3. CASE Named(P, x) /= {}
      <3>1. FirstNamed(D, x) = Named(D[1], x)
        BY <2>2, <2>3, FirstNamedIs
      <3> QED BY <1>1, <1>3, <2>2, <2>3, <3>1
    <2>4. CASE Named(P, x) = {} /\ Named(M, x) /= {}
      <3>1. FirstNamed(D, x) = Named(D[2], x)
        BY <2>2, <2>4, FirstNamedIs
      <3> QED BY <1>1, <1>3, <1>5, <2>2, <2>4, <3>1
    <2>5. CASE Named(P, x) = {} /\ Named(M, x) = {}
      <3>1. FirstNamed(D, x) = Named(D[3], x)
        BY <2>2, <2>5, FirstNamedIs
      <3> QED BY <1>1, <1>3, <1>5, <2>2, <2>5, <3>1
    <2> QED BY <2>3, <2>4, <2>5
  <1> QED BY <1>4, <1>5

-----------------------------------------------------------------------------
(* A name is found where the text says.                                    *)

Going == phase \in {"structs", "functions"} /\ body /= NoName
Unfailed(b) == \A e \in errors : e[1] /= b

\* The module and the structs that have been entered have all their objects.
Entered ==
  phase \in {"structs", "functions"} =>
    /\ scopes[ModuleScope] =
         ModuleVariables \cup {StructObject(S) : S \in Structs \ todo}
         \cup (IF phase = "functions" THEN Functions(ModuleScope, program.functions) ELSE {})
    /\ \A S \in Structs \ todo : scopes[<<Self, S>>] = Members(S)
    /\ inside \notin todo
    /\ phase = "functions" => todo = {}

\* The declarations before statement i in the block of depth d that is open there.
OpenAt(b, i, d) ==
  {j \in 1..(i - 1) : /\ program.code[b][j].op \in {"var", "init"}
                      /\ StillOpen(program.code[b], j, i)
                      /\ Level(program.code[b], 1, j) = d - 1}
BlockObjects(b, i, d) ==
  {LocalOf(b, j) : j \in OpenAt(b, i, d)} \cup (IF d = 1 THEN Parameters(b) ELSE {})

BlocksMatch ==
  /\ Len(blocks) = 1 + Level(Code, 1, at - 1)
  /\ \A d \in 1..Len(blocks) : ~blocks[d].failed /\ blocks[d].objects = BlockObjects(body, at, d)

LEMMA CodeIs ==
  ASSUME Inside
  PROVE  /\ Code = program.code[body]
         /\ DOMAIN Code = 1..Len(Code) /\ Len(Code) \in Nat
         /\ \A i \in DOMAIN Code : Level(Code, 1, i) >= 0
         /\ DeclaresOnce(Code, DOMAIN program.params[body])
PROOF
  <1>1. body \in BodiesOf(program) /\ Parsed(program)
    BY InsideIs DEF Inside, ScopesBuilt, Parsed, Bodies
  <1>2. PICK code : code = program.code[body] /\ code = Code
    BY DEF Code
  <1>3. /\ code \in Seq(Range(code))
        /\ \A i \in DOMAIN code : Level(code, 1, i) >= 0
        /\ DeclaresOnce(code, DOMAIN program.params[body])
    BY <1>1, <1>2 DEF Parsed
  <1> QED BY <1>2, <1>3

LEMMA LevelsAre ==
  ASSUME Inside, NEW k \in 0..Len(Code)
  PROVE  Level(Code, 1, k) \in Nat
PROOF
  <1>1. CASE k = 0
    BY <1>1, LevelOfNone
  <1>2. CASE k /= 0
    <2>1. k \in DOMAIN Code /\ k \in Nat \ {0}
      BY <1>2, CodeIs
    <2> QED BY <2>1, CodeIs, LevelSteps
  <1> QED BY <1>1, <1>2

LEMMA StillOpenIs ==
  ASSUME Inside, NEW i \in 1..(Len(Code) + 1), NEW j \in 1..(i - 1)
  PROVE  StillOpen(Code, j, i) <=> \A k \in j..(i - 1) : Level(Code, 1, k) >= Level(Code, 1, j)
PROOF
  <1>1. ASSUME NEW k \in j..(i - 1)
        PROVE  Level(Code, j + 1, k) >= 0 <=> Level(Code, 1, k) >= Level(Code, 1, j)
    <2>1. PICK a \in Nat, b \in Nat : a = j /\ b = k /\ a =< b
      BY CodeIs
    <2>2. PICK code : code = Code
      OBVIOUS
    <2>3. /\ Level(code, 1, b) = Level(code, 1, a) + Level(code, a + 1, b)
          /\ Level(code, 1, b) \in Int /\ Level(code, 1, a) \in Int /\ Level(code, a + 1, b) \in Int
      BY <2>1, LevelsApart
    <2>4. Level(code, a + 1, b) >= 0 <=> Level(code, 1, b) >= Level(code, 1, a)
      BY <2>3
    <2> QED BY <2>1, <2>2, <2>4
  <1> QED BY <1>1 DEF StillOpen

LEMMA LocalsInBlocks ==
  ASSUME Inside, BlocksMatch, at \in 1..(Len(Code) + 1), NEW x
  PROVE  /\ Len(blocks) \in Nat \ {0}
         /\ \A j \in Locals(body, at, x) :
              /\ 1 + Level(Code, 1, j) \in 1..Len(blocks)
              /\ LocalOf(body, j) \in Named(blocks[1 + Level(Code, 1, j)].objects, x)
         /\ \A d \in 1..Len(blocks) : \A o \in Named(blocks[d].objects, x) :
              \/ \E j \in Locals(body, at, x) : o = LocalOf(body, j) /\ Level(Code, 1, j) = d - 1
              \/ d = 1 /\ o \in Named(Parameters(body), x)
PROOF
  <1>1. PICK n, l : n = Len(blocks) /\ l = Level(Code, 1, at - 1)
    OBVIOUS
  <1>2. n = 1 + l /\ l \in Nat
    <2>1. at - 1 \in 0..Len(Code)
      BY CodeIs
    <2> QED BY <1>1, <2>1, LevelsAre DEF BlocksMatch
  <1>3. ASSUME NEW j \in Locals(body, at, x)
        PROVE  /\ 1 + Level(Code, 1, j) \in 1..n
               /\ LocalOf(body, j) \in Named(blocks[1 + Level(Code, 1, j)].objects, x)
    <2>1. /\ j \in 1..(at - 1) /\ StillOpen(Code, j, at)
          /\ Code[j].op \in {"var", "init"} /\ Code[j].var = x
      BY CodeIs DEF Locals, Declares
    <2>2. j \in 0..Len(Code) /\ at - 1 \in j..(at - 1)
      BY <2>1, CodeIs
    <2>3. PICK k \in Nat : k = Level(Code, 1, j)
      BY <2>2, LevelsAre
    <2>4. k =< l
      BY <1>1, <2>1, <2>2, <2>3, StillOpenIs
    <2>5. PICK d \in 1..n : d = 1 + k /\ k = d - 1
      <3>1. 1 + k \in 1..n /\ k = (1 + k) - 1
        BY <1>2, <2>4
      <3> QED BY <3>1
    <2>6. j \in OpenAt(body, at, d)
      BY <2>1, <2>3, <2>5, CodeIs DEF OpenAt
    <2>7. LocalOf(body, j) \in blocks[d].objects
      BY <1>1, <2>6 DEF BlocksMatch, BlockObjects
    <2>8. LocalOf(body, j).name = x
      BY <2>1, CodeIs DEF LocalOf, Object
    <2> QED BY <2>3, <2>5, <2>7, <2>8 DEF Named
  <1>4. ASSUME NEW d \in 1..n, NEW o \in Named(blocks[d].objects, x)
        PROVE  \/ \E j \in Locals(body, at, x) : o = LocalOf(body, j) /\ Level(Code, 1, j) = d - 1
               \/ d = 1 /\ o \in Named(Parameters(body), x)
    <2>1. o \in BlockObjects(body, at, d) /\ o.name = x
      BY <1>1 DEF BlocksMatch, Named
    <2>2. CASE d = 1 /\ o \in Parameters(body)
      BY <2>1, <2>2 DEF Named
    <2>3. ASSUME NEW j \in OpenAt(body, at, d), o = LocalOf(body, j)
          PROVE  \E i \in Locals(body, at, x) : o = LocalOf(body, i) /\ Level(Code, 1, i) = d - 1
      <3>1. LocalOf(body, j).name = Code[j].var
        BY CodeIs DEF LocalOf, Object
      <3>2. j \in Locals(body, at, x) /\ Level(Code, 1, j) = d - 1
        BY <2>1, <2>3, <3>1, CodeIs DEF OpenAt, Locals, Declares
      <3> QED BY <2>3, <3>2
    <2> QED BY <2>1, <2>2, <2>3 DEF BlockObjects
  <1> QED BY <1>1, <1>2, <1>3, <1>4

LEMMA OwnObjectsAreUnique ==
  ASSUME Inside
  PROVE  /\ Unique(OwnObjects)
         /\ \A S \in Structs : Unique(Members(S))
         /\ scopes[ModuleScope] \subseteq OwnObjects
         /\ Unique(scopes[ModuleScope])
PROOF
  <1>1. Parsed(program) /\ scopes[ModuleScope] \subseteq OwnObjects
        /\ {<<Self, S>> : S \in Structs} \subseteq DOMAIN scopes
    BY DEF Inside, ScopesBuilt
  <1>2. WellScoped(ModuleScope, OwnObjects, Types, DOMAIN scopes)
    BY <1>1, OwnScoped
  <1>3. \A S \in Structs : WellScoped(<<Self, S>>, Members(S), Types, DOMAIN scopes)
    BY <1>1, MembersScoped
  <1> QED BY <1>1, <1>2, <1>3 DEF WellScoped, Unique

\* The block of a body has unique names.
LEMMA BlockIsUnique ==
  ASSUME Inside, NEW d \in 1..Len(blocks)
  PROVE  Unique(blocks[d].objects) /\ \A o \in blocks[d].objects : o.kind = "var" /\ o.owner = body
PROOF
  <1>1. blocks[d] \in BlocksOf(body)
    BY InsideIs
  <1> QED BY <1>1 DEF BlocksOf, LocalObjects

LEMMA LocalIsVisible ==
  ASSUME Inside, BlocksMatch, at \in 1..(Len(Code) + 1), NEW x, Locals(body, at, x) /= {}
  PROVE  Visible(x) = Lexical(body, at, x)
PROOF
  <1>1. PICK js : js = Locals(body, at, x)
    OBVIOUS
  <1>2. PICK n : n = Len(blocks)
    OBVIOUS
  <1>3. at \in Nat
    BY CodeIs
  <1>4. PICK m \in js : m = Max(js) /\ m \in 1..(at - 1) /\ \A j \in js : j =< m
    BY <1>1, <1>3, LocalsAre
  <1>5. PICK d \in 1..n : d = 1 + Level(Code, 1, m) /\ LocalOf(body, m) \in Named(blocks[d].objects, x)
    BY <1>1, <1>2, LocalsInBlocks
  <1>6. Named(blocks[d].objects, x) = {LocalOf(body, m)}
    <2>1. Unique(blocks[d].objects)
      BY <1>2, BlockIsUnique
    <2> QED BY <1>5, <2>1 DEF Named, Unique
  <1>7. ASSUME NEW e \in 1..n, e > d PROVE Named(blocks[e].objects, x) = {}
    <2> SUFFICES ASSUME NEW o \in Named(blocks[e].objects, x) PROVE FALSE
      OBVIOUS
    <2>1. e /= 1
      BY <1>2, <1>7, LocalsInBlocks
    <2>2. PICK j \in js : Level(Code, 1, j) = e - 1
      BY <1>1, <1>2, <2>1, LocalsInBlocks
    <2>3. j \in 1..(at - 1) /\ StillOpen(Code, j, at) /\ j =< m
      BY <1>1, <1>4, <2>2, CodeIs DEF Locals
    <2>4. m \in j..(at - 1)
      BY <1>3, <1>4, <2>3
    <2>5. Level(Code, 1, m) >= Level(Code, 1, j)
      BY <2>3, <2>4, StillOpenIs
    <2>6. PICK l \in Nat, k \in Nat : l = Level(Code, 1, m) /\ k = Level(Code, 1, j)
      <3>1. m \in 0..Len(Code) /\ j \in 0..Len(Code)
        BY <1>3, <1>4, <2>3, CodeIs
      <3> QED BY <3>1, LevelsAre
    <2>7. n \in Nat
      BY <1>2, LocalsInBlocks
    <2> QED BY <1>5, <1>7, <2>2, <2>5, <2>6, <2>7
  <1>8. Visible(x) = {LocalOf(body, m)}
    BY <1>2, <1>5, <1>6, <1>7, VisibleInBlock
  <1>9. Code[m].var = x
    BY <1>1, <1>4, CodeIs DEF Locals, Declares
  <1>10. Lexical(body, at, x) = {Object("var", body, x, TypeOfLocal(body, m), m)}
    BY <1>1, <1>4 DEF Lexical
  <1>11. LocalOf(body, m) = Object("var", body, x, TypeOfLocal(body, m), m)
    BY <1>9, CodeIs DEF LocalOf
  <1> QED BY <1>8, <1>10, <1>11

\* A name that is not found yet, because its object belongs to what is validated later.
NotYet(x) ==
  /\ Visible(x) = {}
  /\ Lexical(body, at, x) = Named(OwnObjects, x)
  /\ Named(scopes[ModuleScope], x) = {}

LEMMA VisibleIsLexical ==
  ASSUME Inside, Entered, BlocksMatch, at \in 1..(Len(Code) + 1), NEW x
  PROVE  Visible(x) = Lexical(body, at, x) \/ NotYet(x)
PROOF
  <1>1. CASE Locals(body, at, x) /= {}
    BY <1>1, LocalIsVisible
  <1>2. CASE Locals(body, at, x) = {}
    <2>1. PICK n \in Nat \ {0} : n = Len(blocks)
      BY LocalsInBlocks
    <2>2. \A d \in 1..n : \A o \in Named(blocks[d].objects, x) : d = 1 /\ o \in Named(Parameters(body), x)
      BY <1>2, <2>1, LocalsInBlocks
    <2>3. Lexical(body, at, x) = Outside(body, x)
      BY <1>2 DEF Lexical
    <2>4. Parameters(body) \subseteq blocks[1].objects /\ 1 \in 1..n
      BY <2>1 DEF BlocksMatch, BlockObjects
    <2>5. Named(blocks[1].objects, x) = Named(Parameters(body), x)
      BY <2>2, <2>4 DEF Named
    <2>6. CASE Named(Parameters(body), x) /= {}
      <3>1. \A e \in 1..n : e > 1 => Named(blocks[e].objects, x) = {}
        BY <2>2
      <3>2. Visible(x) = Named(blocks[1].objects, x)
        BY <2>1, <2>4, <2>5, <2>6, <3>1, VisibleInBlock
      <3> QED BY <2>3, <2>5, <2>6, <3>2, OutsideIs
    <2>7. CASE Named(Parameters(body), x) = {}
      <3>1. \A d \in 1..Len(blocks) : Named(blocks[d].objects, x) = {}
        BY <2>1, <2>2, <2>7
      <3>2. Visible(x) = IF inside /= NoName /\ Named(scopes[<<Self, inside>>], x) /= {}
                         THEN Named(scopes[<<Self, inside>>], x) ELSE Named(scopes[ModuleScope], x)
        BY <3>1, VisibleOutside
      <3>3. Outside(body, x) = IF inside /= NoName /\ Named(Members(inside), x) /= {}
                               THEN Named(Members(inside), x) ELSE Named(OwnObjects, x)
        BY <2>7, OutsideIs, InsideIs
      <3>4. inside /= NoName => scopes[<<Self, inside>>] = Members(inside)
        BY InsideIs DEF Entered, Inside
      <3>5. CASE inside /= NoName /\ Named(Members(inside), x) /= {}
        BY <2>3, <3>2, <3>3, <3>4, <3>5
      <3>6. CASE ~(inside /= NoName /\ Named(Members(inside), x) /= {})
        <4>1. Visible(x) = Named(scopes[ModuleScope], x) /\ Outside(body, x) = Named(OwnObjects, x)
          BY <3>2, <3>3, <3>4, <3>6
        <4>2. CASE Named(scopes[ModuleScope], x) = {}
          BY <2>3, <4>1, <4>2 DEF NotYet
        <4>3. CASE Named(scopes[ModuleScope], x) /= {}
          <5>1. Named(scopes[ModuleScope], x) = Named(OwnObjects, x)
            BY <4>3, OwnObjectsAreUnique DEF Named, Unique
          <5> QED BY <2>3, <4>1, <5>1
        <4> QED BY <4>2, <4>3
      <3> QED BY <3>5, <3>6
    <2> QED BY <2>6, <2>7
  <1> QED BY <1>1, <1>2

\* In a method: a function of the module, or a struct that comes later.
LEMMA NotYetIs ==
  ASSUME Inside, Entered, NEW x, NotYet(x), NEW o \in Lexical(body, at, x)
  PROVE  /\ body[2] /= NoName
         /\ \/ o.kind = "fn" /\ o.owner = ModuleScope
            \/ o.kind = "struct" /\ x \in Structs \ {body[2]}
PROOF
  <1>1. o \in OwnObjects /\ o.name = x /\ o \notin scopes[ModuleScope]
    BY DEF NotYet, Named
  <1>2. phase = "structs" /\ body[2] = inside
    <2>1. todo = {} => {StructObject(S) : S \in Structs \ todo} = {StructObject(S) : S \in Structs}
      OBVIOUS
    <2>2. phase = "functions" => scopes[ModuleScope] = OwnObjects
      BY <2>1 DEF Entered, OwnObjects
    <2> QED BY <1>1, <2>2, InsideIs DEF Inside
  <1>3. body[2] /= NoName
    BY <1>2 DEF Inside, Walk
  <1>4. CASE o = Object("var", ModuleScope, o.name, program.variables[o.name].type, 0)
             /\ o.name \in DOMAIN program.variables
    <2>1. o \in ModuleVariables
      BY <1>4 DEF ModuleVariables
    <2> QED BY <1>1, <1>2, <2>1 DEF Entered
  <1>5. CASE o = Object("fn", ModuleScope, o.name, NoName, 0)
    <2>1. o.kind = "fn" /\ o.owner = ModuleScope
      BY <1>5, ObjectIs
    <2> QED BY <1>3, <2>1
  <1>6. CASE o.name \in Structs /\ o = StructObject(o.name)
    <2>1. o.name \in todo
      BY <1>1, <1>2, <1>6 DEF Entered
    <2>2. o.kind = "struct"
      BY <1>6, ObjectIs DEF StructObject
    <2> QED BY <1>1, <1>2, <1>3, <1>6, <2>1, <2>2 DEF Entered
  <1> QED BY <1>1, <1>4, <1>5, <1>6, OwnObjectIs

LEMMA LexicalIsOne ==
  ASSUME Inside, Entered, BlocksMatch, at \in 1..(Len(Code) + 1), NEW x
  PROVE  \A o, p \in Lexical(body, at, x) : o = p
PROOF
  <1>1. Visible(x) = Lexical(body, at, x) => \A o, p \in Lexical(body, at, x) : o = p
    BY VisibleIs
  <1>2. NotYet(x) => \A o, p \in Lexical(body, at, x) : o = p
    BY OwnObjectsAreUnique DEF NotYet, Named, Unique
  <1> QED BY <1>1, <1>2, VisibleIsLexical

LEMMA ImportedTypeIs ==
  ASSUME Inside, NEW m, NEW S, <<m, S>> \in ImportedTypes
  PROVE  /\ <<m, NoName>> \in DOMAIN ImportedScopes /\ m /= Self
         /\ scopes[<<m, NoName>>] = ImportedScopes[<<m, NoName>>]
         /\ scopes[<<m, S>>] = ImportedScopes[<<m, S>>]
         /\ \E o \in ImportedScopes[<<m, NoName>>] : o.kind = "struct" /\ o.name = S
PROOF
  <1>1. PICK s : s = <<m, S>> /\ s[1] = m /\ s[2] = S
    OBVIOUS
  <1>2. s \in ImportedTypes /\ s \in DOMAIN ImportedScopes
    BY <1>1 DEF ImportedTypes
  <1>3. /\ <<m, NoName>> \in DOMAIN ImportedScopes
        /\ \E o \in ImportedScopes[<<m, NoName>>] : o.kind = "struct" /\ o.name = S
    BY <1>1, <1>2, ImportedScopesAssumption
  <1>4. s[1] /= Self
    BY <1>2, ImportedScopesAssumption
  <1>5. scopes[<<m, NoName>>] = ImportedScopes[<<m, NoName>>] /\ scopes[s] = ImportedScopes[s]
    BY <1>2, <1>3 DEF Inside, ScopesBuilt
  <1> QED BY <1>1, <1>3, <1>4, <1>5

\* What the scope of an imported module, and of each of its structs, has.
LEMMA ImportedIs ==
  ASSUME Inside, NEW m \in Imports
  PROVE  /\ m /= Self /\ <<m, NoName>> \in DOMAIN ImportedScopes
         /\ scopes[<<m, NoName>>] = ImportedScopes[<<m, NoName>>]
         /\ \A o, p \in scopes[<<m, NoName>>] : o.name = p.name => o = p
         /\ \A o \in scopes[<<m, NoName>>] :
              o.owner[1] = m /\ (o.kind = "struct" => <<m, o.name>> \in ImportedTypes)
PROOF
  <1>1. m /= Self /\ <<m, NoName>> \in DOMAIN ImportedScopes
    BY ImportsAssumption, ImportedScopesAssumption
  <1>2. scopes[<<m, NoName>>] = ImportedScopes[<<m, NoName>>]
    BY <1>1 DEF Inside, ScopesBuilt
  <1>3. PICK s \in DOMAIN ImportedScopes : s = <<m, NoName>> /\ s[1] = m
    BY <1>1
  <1>4. ASSUME NEW o \in ImportedScopes[s]
        PROVE  o.owner[1] = m /\ (o.kind = "struct" => <<m, o.name>> \in ImportedTypes)
    <2>1. o = [kind |-> o.kind, owner |-> s, name |-> o.name, type |-> o.type, at |-> 0]
      BY ImportedScopesAssumption
    <2>2. o.owner = s
      BY <2>1
    <2>3. o.kind = "struct" => o.name /= NoName /\ <<s[1], o.name>> \in DOMAIN ImportedScopes
      BY ImportedScopesAssumption
    <2> QED BY <1>3, <2>2, <2>3 DEF ImportedTypes
  <1>5. \A o, p \in ImportedScopes[s] : o.name = p.name => o = p
    BY ImportedScopesAssumption
  <1> QED BY <1>1, <1>2, <1>3, <1>4, <1>5

\* What was found is one object and what is meant, or nothing was, which is the text's fault
\* or comes later.
Fits(found, meant) ==
  /\ \A o, p \in found : o = p
  /\ found = meant \/ (found = {} /\ (~Usable(meant) \/ Late(body, at)))

LEMMA VisibleFits ==
  ASSUME Inside, Entered, BlocksMatch, at \in DOMAIN Code, NEW x,
         Meaning(body, at) = Lexical(body, at, x)
  PROVE  Fits(Visible(x), Meaning(body, at))
PROOF
  <1>1. at \in 1..(Len(Code) + 1)
    BY CodeIs
  <1>2. \A o, p \in Visible(x) : o = p
    BY VisibleIs
  <1>3. CASE NotYet(x)
    <2>1. Visible(x) = {}
      BY <1>3 DEF NotYet
    <2>2. CASE \E o \in Meaning(body, at) : o.kind = "fn" /\ o.owner = ModuleScope
      <3>1. body[2] /= NoName
        BY <1>3, <2>2, NotYetIs
      <3>2. Late(body, at)
        BY <2>2, <3>1 DEF Late
      <3> QED BY <2>1, <3>2 DEF Fits
    <2>3. CASE ~ \E o \in Meaning(body, at) : o.kind = "fn" /\ o.owner = ModuleScope
      <3>1. ~Usable(Meaning(body, at))
        BY <1>3, <2>3, NotYetIs DEF Usable
      <3> QED BY <2>1, <3>1 DEF Fits
    <2> QED BY <2>2, <2>3
  <1> QED BY <1>1, <1>2, <1>3, VisibleIsLexical DEF Fits

\* The statement that the walk is at, and its path.
LEMMA StmtIs ==
  ASSUME Inside, at \in DOMAIN Code
  PROVE  /\ program.code[body][at] = Stmt
         /\ Stmt.op \in {"use", "init"} => /\ Stmt.path \in Seq(Range(Stmt.path) \ {NoName})
                                           /\ Stmt.path /= <<>> /\ Len(Stmt.path) /= 1 => Stmt.path[2] /= NoName
PROOF
  <1>1. program.code[body][at] = Stmt
    BY DEF Stmt, Code
  <1>2. body \in BodiesOf(program) /\ Parsed(program)
    BY InsideIs DEF Inside, ScopesBuilt, Parsed, Bodies
  <1>3. Stmt.op \in {"use", "init"} => Stmt.path \in Seq(Range(Stmt.path) \ {NoName})
    BY <1>1, <1>2 DEF Parsed, Code
  <1>4. ASSUME NEW V, NEW path \in Seq(V \ {NoName}), path /= <<>>, Len(path) /= 1
        PROVE  path[2] /= NoName
    <2>1. PICK W : W = V \ {NoName}
      OBVIOUS
    <2>5. Len(path) \in Nat /\ Len(path) /= 0
      BY <1>4
    <2>2. PICK n \in Nat : n = Len(path) /\ n /= 0 /\ n /= 1
      BY <1>4, <2>5
    <2>3. path \in Seq(W) /\ 2 \in 1..n
      BY <2>1, <2>2
    <2>4. path[2] \in W
      BY <2>2, <2>3
    <2> QED BY <2>1, <2>4
  <1> QED BY <1>1, <1>3, <1>4

LEMMA ModuleFits ==
  ASSUME Inside, at \in DOMAIN Code, Stmt.op \in {"use", "init"}, Stmt.path /= <<>>,
         IsModule(Stmt.path)
  PROVE  Fits(Find(Stmt.path, Stmt.name), Meaning(body, at))
PROOF
  <1>1. PICK path, x, m : path = Stmt.path /\ x = Stmt.name /\ m = path[1]
    OBVIOUS
  <1>2. m \in Imports /\ Len(path) = 1
    BY <1>1 DEF IsModule
  <1>3. Find(path, x) = Named(scopes[<<m, NoName>>], x)
    BY <1>1 DEF Find
  <1>4. Meaning(body, at) = Named(Owner(<<m, NoName>>), x)
    BY <1>1, <1>2, StmtIs DEF Meaning
  <1>5. Owner(<<m, NoName>>) = scopes[<<m, NoName>>]
    BY <1>2, ImportedIs DEF Owner
  <1>6. \A o, p \in Find(path, x) : o = p
    BY <1>2, <1>3, ImportedIs DEF Named
  <1> QED BY <1>1, <1>3, <1>4, <1>5, <1>6 DEF Fits

MembersOf(records, x) == UNION {Named(scopes[<<q.owner[1], q.name>>], x) : q \in records}

LEMMA OneRecord ==
  ASSUME NEW r, NEW m, NEW S, r.owner[1] = m, r.name = S, NEW records, records = {r}, NEW x
  PROVE  MembersOf(records, x) = Named(scopes[<<m, S>>], x)
PROOF
  <1>1. PICK N : N = Named(scopes[<<m, S>>], x)
    OBVIOUS
  <1>2. \A q \in records : Named(scopes[<<q.owner[1], q.name>>], x) = N
    BY <1>1
  <1>3. {Named(scopes[<<q.owner[1], q.name>>], x) : q \in records} = {N}
    BY <1>2
  <1> QED BY <1>1, <1>3 DEF MembersOf

LEMMA OwnerOfImported ==
  ASSUME Inside, NEW s \in ImportedTypes
  PROVE  Owner(s) = scopes[s] /\ s \in DOMAIN scopes
PROOF
  <1>1. s \in DOMAIN ImportedScopes
    BY DEF ImportedTypes
  <1> QED BY <1>1 DEF Owner, Inside, ScopesBuilt

LEMMA ImportedRecordFits ==
  ASSUME Inside, at \in DOMAIN Code, Stmt.op \in {"use", "init"}, Stmt.path /= <<>>,
         Stmt.path[1] \in Imports, Len(Stmt.path) /= 1
  PROVE  /\ RecordFails(Stmt.path) => Meaning(body, at) = {}
         /\ ~RecordFails(Stmt.path) => Fits(Find(Stmt.path, Stmt.name), Meaning(body, at))
PROOF
  <1>1. PICK path, x, m, S : path = Stmt.path /\ x = Stmt.name /\ m = path[1] /\ S = path[2]
    OBVIOUS
  <1>2. m \in Imports /\ ~IsModule(path) /\ path /= <<>> /\ S /= NoName
    BY <1>1, StmtIs DEF IsModule
  <1>3. Record(path) = Named(scopes[<<m, NoName>>], S)
    BY <1>1, <1>2 DEF Record
  <1>4. Meaning(body, at) = Named(Owner(<<m, S>>), x)
    BY <1>1, <1>2, StmtIs DEF Meaning
  <1>9. PICK records : records = {r \in Record(path) : r.kind = "struct"}
    OBVIOUS
  <1>5. Find(path, x) = MembersOf(records, x)
    BY <1>2, <1>9 DEF Find, MembersOf
  <1>6. \A r, q \in Record(path) : r = q
    BY <1>2, <1>3, ImportedIs DEF Named
  <1>7. CASE \E r \in Record(path) : r.kind = "struct"
    <2>1. PICK r \in Record(path) : r.kind = "struct"
      BY <1>7
    <2>2. r.owner[1] = m /\ r.name = S /\ <<m, S>> \in ImportedTypes
      BY <1>2, <1>3, <2>1, ImportedIs DEF Named
    <2>3. records = {r}
      BY <1>6, <1>9, <2>1
    <2>4. Find(path, x) = Named(scopes[<<m, S>>], x)
      BY <1>5, <2>2, <2>3, OneRecord
    <2>5. Owner(<<m, S>>) = scopes[<<m, S>>]
      BY <2>2, OwnerOfImported
    <2>6. \A o, p \in Find(path, x) : o = p
      <3>1. <<m, S>> \in DOMAIN scopes
        BY <2>2 DEF ImportedTypes, Inside, ScopesBuilt
      <3>2. Unique(scopes[<<m, S>>])
        BY <3>1 DEF Inside, AllScoped, WellScoped
      <3> QED BY <2>4, <3>2 DEF Named, Unique
    <2>7. ~RecordFails(path)
      BY <1>6, <2>1 DEF RecordFails
    <2> QED BY <1>1, <1>4, <2>4, <2>5, <2>6, <2>7 DEF Fits
  <1>8. CASE ~ \E r \in Record(path) : r.kind = "struct"
    <2>1. Find(path, x) = {}
      BY <1>5, <1>8, <1>9 DEF MembersOf
    <2>2. <<m, S>> \notin DOMAIN ImportedScopes
      <3> SUFFICES ASSUME <<m, S>> \in DOMAIN ImportedScopes PROVE FALSE
        OBVIOUS
      <3>1. <<m, S>> \in ImportedTypes
        BY <1>2 DEF ImportedTypes
      <3>2. \E o \in scopes[<<m, NoName>>] : o.kind = "struct" /\ o.name = S
        BY <3>1, ImportedTypeIs
      <3> QED BY <1>3, <1>8, <3>2 DEF Named
    <2>3. Meaning(body, at) = {}
      BY <1>2, <1>4, <2>2, ImportedIs DEF Owner, Named
    <2> QED BY <1>1, <2>1, <2>3 DEF Fits
  <1> QED BY <1>7, <1>8

\* A struct that is visible is one of the module, and was entered.
LEMMA StructVisibleIs ==
  ASSUME Inside, Entered, BlocksMatch, at \in 1..(Len(Code) + 1), NEW x, NEW r \in Visible(x),
         r.kind = "struct", Visible(x) = Lexical(body, at, x)
  PROVE  r.owner = ModuleScope /\ r.name = x /\ x \in Structs \ todo
PROOF
  <1>1. r.name = x /\ r \in Lexical(body, at, x)
    BY VisibleIs DEF Visible, Named
  <1>2. r \in Outside(body, x)
    <2>1. CASE Locals(body, at, x) = {}
      BY <1>1, <2>1 DEF Lexical
    <2>2. CASE Locals(body, at, x) /= {}
      <3>1. r = Object("var", body, x, TypeOfLocal(body, Max(Locals(body, at, x))), Max(Locals(body, at, x)))
        BY <1>1, <2>2 DEF Lexical
      <3> QED BY <3>1, ObjectIs
    <2> QED BY <2>1, <2>2
  <1>3. \A o \in Parameters(body) : o.kind = "var"
    BY ObjectIs DEF Parameters, Variables
  <1>4. ASSUME inside /= NoName, NEW o \in Members(inside) PROVE o.kind /= "struct"
    <2>1. inside \in Structs
      BY <1>4, InsideIs
    <2>2. \/ o = Object("var", <<Self, inside>>, o.name, program.structs[inside].fields[o.name], 0)
          \/ o = Object("fn", <<Self, inside>>, o.name, NoName, 0)
      BY <1>4, <2>1, MemberIs
    <2> QED BY <2>2, ObjectIs
  <1>5. r \in OwnObjects
    BY <1>2, <1>3, <1>4, OutsideIs, InsideIs DEF Named
  <1>6. x \in Structs /\ r = StructObject(x)
    BY <1>1, <1>5, OwnObjectIs, ObjectIs
  <1>7. r.owner = ModuleScope
    BY <1>6, ObjectIs DEF StructObject
  <1>8. r \in scopes[ModuleScope]
    <2>1. Meant(body, r)
      BY VisibleIs
    <2> QED BY <1>7, <2>1 DEF Meant
  <1>9. r \in {StructObject(S) : S \in Structs \ todo}
    <2>1. /\ \A o \in ModuleVariables : o.kind = "var"
          /\ \A o \in Functions(ModuleScope, program.functions) : o.kind = "fn"
      BY ObjectIs DEF ModuleVariables, Functions
    <2> QED BY <1>8, <2>1 DEF Entered, Inside
  <1>10. \A S : StructObject(S).name = S
    BY ObjectIs DEF StructObject
  <1> QED BY <1>1, <1>6, <1>7, <1>9, <1>10

LEMMA OwnRecordFits ==
  ASSUME Inside, Entered, BlocksMatch, at \in DOMAIN Code, Stmt.op \in {"use", "init"},
         Stmt.path /= <<>>, Stmt.path[1] \notin Imports, Len(Stmt.path) = 1
  PROVE  /\ RecordFails(Stmt.path) => Meaning(body, at) = {}
         /\ ~RecordFails(Stmt.path) => Fits(Find(Stmt.path, Stmt.name), Meaning(body, at))
PROOF
  <1>1. PICK path, x, S : path = Stmt.path /\ x = Stmt.name /\ S = path[1]
    OBVIOUS
  <1>2. ~IsModule(path) /\ path /= <<>> /\ S \notin Imports /\ Len(path) = 1
    BY <1>1 DEF IsModule
  <1>3. Record(path) = Visible(S)
    BY <1>1, <1>2 DEF Record
  <1>4. Meaning(body, at) =
          IF \E o \in Lexical(body, at, S) : o.kind = "struct" THEN Named(Members(S), x) ELSE {}
    BY <1>1, <1>2, StmtIs DEF Meaning
  <1>5. PICK records : records = {r \in Record(path) : r.kind = "struct"}
    OBVIOUS
  <1>6. Find(path, x) = MembersOf(records, x)
    BY <1>2, <1>5 DEF Find, MembersOf
  <1>7. at \in 1..(Len(Code) + 1)
    BY CodeIs
  <1>8. CASE Visible(S) = Lexical(body, at, S) /\ \E r \in Visible(S) : r.kind = "struct"
    <2>1. PICK r \in Visible(S) : r.kind = "struct"
      BY <1>8
    <2>2. records = {r} /\ ~RecordFails(path)
      BY <1>3, <1>5, <2>1, VisibleIs DEF RecordFails
    <2>3. r.owner = ModuleScope /\ r.name = S /\ S \in Structs \ todo
      BY <1>7, <1>8, <2>1, StructVisibleIs
    <2>4. r.owner[1] = Self
      BY <2>3 DEF ModuleScope
    <2>5. MembersOf(records, x) = Named(scopes[<<Self, S>>], x)
      BY <2>2, <2>3, <2>4, OneRecord
    <2>6. scopes[<<Self, S>>] = Members(S)
      BY <2>3 DEF Entered, Inside
    <2>7. Meaning(body, at) = Named(Members(S), x)
      BY <1>4, <1>8
    <2>8. \A o, p \in Named(Members(S), x) : o = p
      BY <2>3, OwnObjectsAreUnique DEF Named, Unique
    <2> QED BY <1>1, <1>6, <2>2, <2>5, <2>6, <2>7, <2>8 DEF Fits
  <1>9. CASE Visible(S) = Lexical(body, at, S) /\ ~ \E r \in Visible(S) : r.kind = "struct"
    <2>1. Meaning(body, at) = {}
      BY <1>4, <1>9
    <2>2. records = {}
      BY <1>3, <1>5, <1>9
    <2>3. Find(path, x) = {}
      BY <1>6, <2>2 DEF MembersOf
    <2> QED BY <1>1, <2>1, <2>3 DEF Fits
  <1>10. CASE NotYet(S)
    <2>1. Visible(S) = {}
      BY <1>10 DEF NotYet
    <2>2. Find(path, x) = {} /\ ~RecordFails(path)
      BY <1>3, <1>5, <1>6, <2>1 DEF MembersOf, RecordFails
    <2>3. CASE \E o \in Lexical(body, at, S) : o.kind = "struct"
      <3>1. body[2] /= NoName /\ S \in Structs \ {body[2]}
        BY <1>10, <2>3, NotYetIs
      <3>2. Late(body, at)
        BY <1>1, <1>2, <3>1, StmtIs DEF Late
      <3> QED BY <1>1, <2>2, <3>2 DEF Fits
    <2>4. CASE ~ \E o \in Lexical(body, at, S) : o.kind = "struct"
      BY <1>1, <1>4, <2>2, <2>4 DEF Fits
    <2> QED BY <2>3, <2>4
  <1> QED BY <1>7, <1>8, <1>9, <1>10, VisibleIsLexical

\* Other paths are of no object.
LEMMA LongPathFits ==
  ASSUME Inside, at \in DOMAIN Code, Stmt.op \in {"use", "init"},
         Stmt.path /= <<>>, Stmt.path[1] \notin Imports, Len(Stmt.path) /= 1
  PROVE  /\ RecordFails(Stmt.path) => Meaning(body, at) = {}
         /\ ~RecordFails(Stmt.path) => Fits(Find(Stmt.path, Stmt.name), Meaning(body, at))
PROOF
  <1>1. PICK path, x : path = Stmt.path /\ x = Stmt.name
    OBVIOUS
  <1>2. ~IsModule(path) /\ path /= <<>>
    BY <1>1 DEF IsModule
  <1>3. Record(path) = {}
    BY <1>1 DEF Record
  <1>4. Meaning(body, at) = {}
    BY <1>1, <1>2, StmtIs DEF Meaning
  <1>5. Find(path, x) = {}
    BY <1>2, <1>3 DEF Find
  <1> QED BY <1>1, <1>4, <1>5 DEF Fits

LEMMA FindFits ==
  ASSUME Inside, Entered, BlocksMatch, at \in DOMAIN Code, Stmt.op \in {"use", "init"}
  PROVE  /\ RecordFails(Stmt.path) => Meaning(body, at) = {}
         /\ ~RecordFails(Stmt.path) => Fits(Find(Stmt.path, Stmt.name), Meaning(body, at))
PROOF
  <1>1. CASE Stmt.path = <<>>
    <2>1. Meaning(body, at) = Lexical(body, at, Stmt.name)
      BY <1>1, StmtIs DEF Meaning
    <2>2. Find(Stmt.path, Stmt.name) = Visible(Stmt.name) /\ ~RecordFails(Stmt.path)
      BY <1>1 DEF Find, RecordFails
    <2> QED BY <2>1, <2>2, VisibleFits
  <1>2. CASE Stmt.path /= <<>> /\ IsModule(Stmt.path)
    BY <1>2, ModuleFits DEF RecordFails
  <1>3. CASE Stmt.path /= <<>> /\ ~IsModule(Stmt.path)
    BY <1>3, ImportedRecordFits, OwnRecordFits, LongPathFits DEF IsModule
  <1> QED BY <1>1, <1>2, <1>3

(* The fields of a variable: its type is there, or comes later.            *)
Ready(o) == FieldsOf(o) /= {} /\ \A f : Field(o, f) = Named(Owner(o.type), f)

LEMMA TypeIsReady ==
  ASSUME Inside, Entered, NEW o, o.type \in Types, o.type /= NoName
  PROVE  \/ Ready(o)
         \/ FieldsOf(o) = {} /\ body[2] /= NoName /\ o.type[1] = Self /\ o.type[2] /= body[2]
PROOF
  <1>1. CASE o.type \in ImportedTypes
    <2>1. PICK s : s = o.type /\ s \in ImportedTypes
      BY <1>1
    <2>2. PICK m, S : m = s[1] /\ S = s[2]
      OBVIOUS
    <2>3. s = <<m, S>>
      BY <2>1, <2>2, ImportedScopesAssumption DEF ImportedTypes
    <2>4. \E p \in scopes[<<m, NoName>>] : p.kind = "struct" /\ p.name = S
      BY <2>1, <2>3, ImportedTypeIs
    <2>5. FieldsOf(o) /= {}
      BY <2>1, <2>2, <2>4 DEF FieldsOf, Named
    <2>6. scopes[s] = Owner(s)
      BY <2>1, OwnerOfImported
    <2> QED BY <2>1, <2>5, <2>6 DEF Ready, Field
  <1>2. ASSUME NEW S \in Structs, o.type = <<Self, S>>
        PROVE  \/ Ready(o)
               \/ FieldsOf(o) = {} /\ body[2] /= NoName /\ o.type[1] = Self /\ o.type[2] /= body[2]
    <2>1. o.type[1] = Self /\ o.type[2] = S
      BY <1>2
    <2>2. FieldsOf(o) = Named(scopes[ModuleScope], S)
      BY <2>1 DEF FieldsOf, ModuleScope
    <2>3. StructObject(S).name = S /\ StructObject(S) \in OwnObjects
      BY ObjectIs DEF StructObject, OwnObjects
    <2>4. CASE S \notin todo
      <3>1. StructObject(S) \in scopes[ModuleScope] /\ scopes[<<Self, S>>] = Members(S)
        BY <2>4 DEF Entered, Inside
      <3>2. Owner(<<Self, S>>) = Members(S)
        <4>1. <<Self, S>> \notin DOMAIN ImportedScopes
          BY SelfIsNotImported
        <4> QED BY <4>1 DEF Owner
      <3>3. FieldsOf(o) /= {}
        BY <2>2, <2>3, <3>1 DEF Named
      <3> QED BY <1>2, <3>1, <3>2, <3>3 DEF Ready, Field
    <2>5. CASE S \in todo
      <3>1. StructObject(S) \notin scopes[ModuleScope]
        <4>1. /\ \A p \in ModuleVariables : p.kind = "var"
              /\ \A p \in Functions(ModuleScope, program.functions) : p.kind = "fn"
              /\ \A T : StructObject(T).kind = "struct" /\ StructObject(T).name = T
          BY ObjectIs DEF ModuleVariables, Functions, StructObject
        <4>2. ASSUME StructObject(S) \in scopes[ModuleScope] PROVE FALSE
          <5>1. StructObject(S) \in {StructObject(T) : T \in Structs \ todo}
            BY <4>1, <4>2 DEF Entered, Inside
          <5>2. PICK T \in Structs \ todo : StructObject(S) = StructObject(T)
            BY <5>1
          <5>3. S = T
            BY <4>1, <5>2
          <5> QED BY <2>5, <5>2, <5>3
        <4> QED BY <4>2
      <3>2. Named(scopes[ModuleScope], S) = {}
        BY <2>3, <3>1, OwnObjectsAreUnique DEF Named, Unique
      <3>3. phase = "structs" /\ inside \notin todo
        BY <2>5 DEF Entered, Inside
      <3>4. inside /= NoName
        BY <3>3 DEF Inside, Walk
      <3>5. body[2] = inside
        BY InsideIs
      <3> QED BY <2>1, <2>2, <2>5, <3>2, <3>3, <3>4, <3>5
    <2> QED BY <2>4, <2>5
  <1> QED BY <1>1, <1>2 DEF Types, TypesOf, Structs

\* What a statement was found to name is right, or nothing was.
RightFound(b, i, found) ==
  found /= {} =>
    \E o \in Meaning(b, i) :
      /\ o \in found
      /\ found \subseteq {o} \cup (IF program.code[b][i].op = "access" THEN FieldMeant(b, i, o) ELSE {})
TrueFailure(b, i) == Wrong(b, i) \/ Late(b, i)

LEMMA AccessFits ==
  ASSUME Inside, Entered, BlocksMatch, at \in DOMAIN Code, Stmt.op = "access",
         NEW root, root = Visible(Stmt.name), NEW field, field = UNION {Field(o, Stmt.field) : o \in root}
  PROVE  \/ HasFields(root) /\ ~AccessFails(root) /\ field /= {} /\ RightFound(body, at, root \cup field)
         \/ ~HasFields(root) /\ TrueFailure(body, at)
         \/ AccessFails(root) /\ TrueFailure(body, at)
         \/ field = {} /\ TrueFailure(body, at)
PROOF
  <1>1. PICK x, f : x = Stmt.name /\ f = Stmt.field
    OBVIOUS
  <1>2. Meaning(body, at) = Lexical(body, at, x) /\ program.code[body][at].op = "access"
    BY <1>1, StmtIs DEF Meaning
  <1>3. at \in 1..(Len(Code) + 1)
    BY CodeIs
  <1>4. CASE NotYet(x)
    <2>1. root = {}
      BY <1>1, <1>4 DEF NotYet
    <2>2. ~HasFields(root)
      BY <2>1 DEF HasFields
    <2>3. \A o \in Lexical(body, at, x) : o.kind /= "var"
      BY <1>4, NotYetIs
    <2>4. ~HasFields(Meaning(body, at))
      BY <1>2, <2>3 DEF HasFields
    <2> QED BY <1>2, <2>2, <2>4 DEF Wrong, TrueFailure
  <1>5. CASE root = Meaning(body, at)
    <2>1. CASE ~HasFields(root)
      BY <1>2, <1>5, <2>1 DEF Wrong, TrueFailure
    <2>2. CASE HasFields(root)
      <3>1. PICK o \in root : o.kind = "var" /\ o.type /= NoName
        BY <2>2 DEF HasFields
      <3>2. root = {o} /\ o.type \in Types
        <4>1. /\ \A p, q \in Visible(Stmt.name) : p = q
              /\ \A p \in Visible(Stmt.name) : Meant(body, p)
          BY VisibleIs
        <4>2. root = {o} /\ Meant(body, o)
          BY <3>1, <4>1
        <4> QED BY <4>2 DEF Meant
      <3>3. field = Field(o, f)
        BY <1>1, <3>2
      <3>4. AccessFails(root) <=> FieldsOf(o) = {}
        BY <2>2, <3>2 DEF AccessFails
      <3>5. CASE Ready(o)
        <4>1. field = FieldMeant(body, at, o)
          BY <1>1, <3>3, <3>5, StmtIs DEF Ready, FieldMeant
        <4>2. ~AccessFails(root)
          BY <3>4, <3>5 DEF Ready
        <4>3. CASE field = {}
          <5>1. \A p \in Meaning(body, at) : FieldMeant(body, at, p) = {}
            BY <1>5, <3>2, <4>1, <4>3
          <5> QED BY <1>2, <4>3, <5>1 DEF Wrong, TrueFailure
        <4>4. CASE field /= {}
          BY <1>2, <1>5, <2>2, <3>2, <4>1, <4>2, <4>4 DEF RightFound
        <4> QED BY <4>3, <4>4
      <3>6. CASE FieldsOf(o) = {} /\ body[2] /= NoName /\ o.type[1] = Self /\ o.type[2] /= body[2]
        <4>1. HasFields({o})
          BY <3>1 DEF HasFields
        <4>2. Late(body, at)
          BY <1>2, <1>5, <3>1, <3>6, <4>1 DEF Late
        <4> QED BY <3>4, <3>6, <4>2 DEF TrueFailure
      <3> QED BY <3>1, <3>2, <3>5, <3>6, TypeIsReady
    <2> QED BY <2>1, <2>2
  <1> QED BY <1>1, <1>2, <1>3, <1>4, <1>5, VisibleIsLexical

-----------------------------------------------------------------------------
(* The blocks are the ones of the text.                                    *)

LEMMA LevelsAt ==
  ASSUME Inside, at \in DOMAIN Code
  PROVE  /\ at \in Nat \ {0} /\ at - 1 \in 0..Len(Code)
         /\ Level(Code, 1, at) \in Nat /\ Level(Code, 1, at - 1) \in Nat
         /\ Opens(Stmt) => Level(Code, 1, at) = Level(Code, 1, at - 1) + 1
         /\ Stmt.op = "close" => Level(Code, 1, at) = Level(Code, 1, at - 1) - 1
         /\ ~Opens(Stmt) /\ Stmt.op /= "close" => Level(Code, 1, at) = Level(Code, 1, at - 1)
PROOF
  <1>1. at \in Nat \ {0} /\ at \in 0..Len(Code) /\ at - 1 \in 0..Len(Code)
    BY CodeIs
  <1>2. Level(Code, 1, at) \in Nat /\ Level(Code, 1, at - 1) \in Nat
    BY <1>1, LevelsAre
  <1>3. PICK code : code = Code
    OBVIOUS
  <1>5. PICK k \in Nat \ {0} : k = at
    BY <1>1
  <1>4. /\ Opens(code[k]) => Level(code, 1, k) = Level(code, 1, k - 1) + 1
        /\ code[k].op = "close" => Level(code, 1, k) = Level(code, 1, k - 1) - 1
        /\ ~Opens(code[k]) /\ code[k].op /= "close" => Level(code, 1, k) = Level(code, 1, k - 1)
    BY LevelSteps
  <1> QED BY <1>1, <1>2, <1>3, <1>4, <1>5 DEF Stmt

LEMMA OpenIsLow ==
  ASSUME Inside, at \in 1..(Len(Code) + 1), NEW j \in 1..(at - 1), StillOpen(Code, j, at)
  PROVE  Level(Code, 1, j) \in Nat /\ Level(Code, 1, at - 1) \in Nat
         /\ Level(Code, 1, j) =< Level(Code, 1, at - 1)
PROOF
  <1>1. j \in 0..Len(Code) /\ at - 1 \in 0..Len(Code) /\ at - 1 \in j..(at - 1)
    BY CodeIs
  <1>2. Level(Code, 1, at - 1) >= Level(Code, 1, j)
    BY <1>1, StillOpenIs
  <1> QED BY <1>1, <1>2, LevelsAre

LEMMA NeverRedeclares ==
  ASSUME Inside, BlocksMatch, at \in DOMAIN Code, Stmt.op \in {"var", "init"}
  PROVE  ~Redeclares
PROOF
  <1>1. PICK x : x = Stmt.var
    OBVIOUS
  <1>2. at \in 1..(Len(Code) + 1)
    BY CodeIs
  <1>3. PICK n \in Nat \ {0} : n = Len(blocks)
    BY <1>2, LocalsInBlocks
  <1>4. PICK l \in Nat : l = Level(Code, 1, at - 1) /\ n = 1 + l /\ l = Level(Code, 1, at)
    <2>1. ~Opens(Stmt) /\ Stmt.op /= "close"
      BY DEF Opens
    <2> QED BY <1>3, <2>1, LevelsAt DEF BlocksMatch
  <1> SUFFICES ASSUME Redeclares PROVE FALSE
    OBVIOUS
  <1>5. PICK o : o \in Named(blocks[n].objects, x)
    BY <1>1, <1>3 DEF Redeclares, Last
  <1>6. /\ x \in DOMAIN program.params[body] => Level(Code, 1, at) /= 0
        /\ \A j \in 1..(at - 1) : Declares(Code[j], x) => ~SameBlock(Code, j, at)
    <2>1. DeclaresOnce(Code, DOMAIN program.params[body])
      BY CodeIs
    <2>2. Code[at].op \in {"var", "init"} /\ Code[at].var = x
      BY <1>1 DEF Stmt
    <2> QED BY <2>1, <2>2 DEF DeclaresOnce
  <1>7. n \in 1..Len(blocks)
    BY <1>3
  <1>8. CASE n = 1 /\ o \in Named(Parameters(body), x)
    <2>1. o \in Parameters(body) /\ o.name = x
      BY <1>8 DEF Named
    <2>2. x \in DOMAIN program.params[body]
      BY <2>1, ObjectIs DEF Parameters, Variables
    <2> QED BY <1>4, <1>6, <1>8, <2>2
  <1>9. CASE \E j \in Locals(body, at, x) : Level(Code, 1, j) = n - 1
    <2>1. PICK j \in Locals(body, at, x) : Level(Code, 1, j) = n - 1
      BY <1>9
    <2>2. j \in 1..(at - 1) /\ Declares(Code[j], x) /\ StillOpen(Code, j, at)
      BY <2>1, CodeIs DEF Locals
    <2>3. Level(Code, j + 1, at - 1) = 0
      <3>1. PICK a \in Nat, c \in Nat : a = j /\ c = at - 1 /\ a =< c
        BY <1>2, <2>2, CodeIs
      <3>2. PICK code : code = Code
        OBVIOUS
      <3>3. /\ Level(code, 1, c) = Level(code, 1, a) + Level(code, a + 1, c)
            /\ Level(code, 1, c) \in Int /\ Level(code, 1, a) \in Int /\ Level(code, a + 1, c) \in Int
        BY <3>1, LevelsApart
      <3>4. Level(code, 1, c) = l /\ Level(code, 1, a) = l
        BY <1>4, <2>1, <3>1, <3>2
      <3>5. Level(code, a + 1, c) = 0
        BY <3>3, <3>4
      <3> QED BY <3>1, <3>2, <3>5
    <2>4. SameBlock(Code, j, at)
      BY <2>2, <2>3 DEF SameBlock
    <2> QED BY <1>6, <2>2, <2>4
  <1> QED BY <1>2, <1>5, <1>7, <1>8, <1>9, LocalsInBlocks

\* The declarations that are open after one more statement.
LEMMA OpenNext ==
  ASSUME Inside, at \in DOMAIN Code, NEW d \in Nat, d =< 1 + Level(Code, 1, at)
  PROVE  OpenAt(body, at + 1, d) = OpenAt(body, at, d)
           \cup (IF Stmt.op \in {"var", "init"} /\ Level(Code, 1, at) = d - 1 THEN {at} ELSE {})
PROOF
  <1>1. PICK code : code = Code /\ code = program.code[body] /\ code[at] = Stmt
    BY CodeIs DEF Stmt
  <1>2. PICK i \in Nat \ {0} : i = at /\ i \in 1..(Len(Code) + 1) /\ i + 1 \in 1..(Len(Code) + 1)
    BY CodeIs
  <1>3. PICK l \in Nat : l = Level(code, 1, i)
    BY <1>1, <1>2, LevelsAt
  <1>4. ASSUME NEW j \in 1..(i - 1), Level(code, 1, j) = d - 1
        PROVE  StillOpen(code, j, i + 1) <=> StillOpen(code, j, i)
    <2>1. j \in 1..((i + 1) - 1) /\ j..((i + 1) - 1) = (j..(i - 1)) \cup {i}
      BY <1>2
    <2>2. StillOpen(code, j, i + 1) <=> \A k \in j..((i + 1) - 1) : Level(code, 1, k) >= Level(code, 1, j)
      BY <1>1, <1>2, <2>1, StillOpenIs
    <2>3. StillOpen(code, j, i) <=> \A k \in j..(i - 1) : Level(code, 1, k) >= Level(code, 1, j)
      BY <1>1, <1>2, StillOpenIs
    <2>4. Level(code, 1, i) >= Level(code, 1, j)
      BY <1>1, <1>2, <1>3, <1>4
    <2> QED BY <2>1, <2>2, <2>3, <2>4
  <1>5. StillOpen(code, i, i + 1)
    <2>1. Level(code, i + 1, i) = 0
      BY LevelOfNone
    <2>2. i..((i + 1) - 1) = {i}
      BY <1>2
    <2> QED BY <2>1, <2>2 DEF StillOpen
  <1>6. PICK A, B : A = OpenAt(body, i + 1, d) /\ B = OpenAt(body, i, d)
    OBVIOUS
  <1>7. \A j : j \in A <=> /\ j \in (1..(i - 1)) \cup {i} /\ code[j].op \in {"var", "init"}
                           /\ StillOpen(code, j, i + 1) /\ Level(code, 1, j) = d - 1
    <2>1. 1..((i + 1) - 1) = (1..(i - 1)) \cup {i}
      BY <1>2
    <2> QED BY <1>1, <1>6, <2>1 DEF OpenAt
  <1>8. \A j : j \in B <=> /\ j \in 1..(i - 1) /\ code[j].op \in {"var", "init"}
                           /\ StillOpen(code, j, i) /\ Level(code, 1, j) = d - 1
    BY <1>1, <1>6 DEF OpenAt
  <1>9. \A j \in 1..(i - 1) : j \in A <=> j \in B
    BY <1>4, <1>7, <1>8
  <1>10. i \in A <=> Stmt.op \in {"var", "init"} /\ l = d - 1
    BY <1>1, <1>2, <1>3, <1>5, <1>7
  <1>11. i \notin B /\ \A j \in A \cup B : j \in 1..(i - 1) \/ j = i
    BY <1>2, <1>7, <1>8
  <1>12. A = B \cup (IF Stmt.op \in {"var", "init"} /\ l = d - 1 THEN {i} ELSE {})
    BY <1>9, <1>10, <1>11
  <1> QED BY <1>1, <1>2, <1>3, <1>6, <1>12

LEMMA NoneIsOpen ==
  ASSUME Inside, at \in 1..(Len(Code) + 1), NEW d \in Nat, d > 1 + Level(Code, 1, at - 1)
  PROVE  OpenAt(body, at, d) = {}
PROOF
  <1> SUFFICES ASSUME NEW j \in OpenAt(body, at, d) PROVE FALSE
    OBVIOUS
  <1>1. j \in 1..(at - 1) /\ StillOpen(Code, j, at) /\ Level(Code, 1, j) = d - 1
    BY CodeIs DEF OpenAt
  <1> QED BY <1>1, OpenIsLow

-----------------------------------------------------------------------------
(* A statement finds what its name means, or fails for a good reason.      *)

\* The objects a statement finds are kept with it.
LEMMA FoundNext ==
  ASSUME NEW found, Resolved(found)
  PROVE  /\ \A b, i : b /= body \/ i /= at => FoundAt(b, i)' = FoundAt(b, i)
         /\ \A b, i : b = body /\ i = at /\ FoundAt(b, i) = {} => FoundAt(b, i)' = found
         /\ found = {} => resolved' = resolved
PROOF
  <1>1. resolved' = resolved \cup {<<body, at, o>> : o \in found}
    BY DEF Resolved
  <1>2. ASSUME NEW b, NEW i, b /= body \/ i /= at PROVE FoundAt(b, i)' = FoundAt(b, i)
    <2>1. {q \in resolved' : q[1] = b /\ q[2] = i} = {q \in resolved : q[1] = b /\ q[2] = i}
      <3>1. \A q \in {<<body, at, o>> : o \in found} : ~(q[1] = b /\ q[2] = i)
        BY <1>2
      <3> QED BY <1>1, <3>1
    <2> QED BY <2>1 DEF FoundAt
  <1>3. ASSUME NEW b, NEW i, b = body, i = at, FoundAt(b, i) = {} PROVE FoundAt(b, i)' = found
    <2>1. {q \in resolved : q[1] = b /\ q[2] = i} = {}
      BY <1>3 DEF FoundAt
    <2>2. PICK S : S = {<<b, i, o>> : o \in found}
      OBVIOUS
    <2>3. /\ resolved' = resolved \cup S
          /\ \A q \in S : q[1] = b /\ q[2] = i
      BY <1>1, <1>3, <2>2
    <2>4. {q \in resolved' : q[1] = b /\ q[2] = i} = S
      BY <2>1, <2>3
    <2>5. {r[3] : r \in S} = found
      <3>1. ASSUME NEW o \in found PROVE \E r \in S : r[3] = o
        <4>1. PICK r : r = <<b, i, o>>
          OBVIOUS
        <4>2. r[3] = o /\ r \in S
          BY <2>2, <4>1
        <4> QED BY <4>2
      <3>2. ASSUME NEW r \in S PROVE r[3] \in found
        BY <2>2
      <3> QED BY <3>1, <3>2
    <2> QED BY <2>4, <2>5 DEF FoundAt
  <1>4. found = {} => resolved' = resolved
    BY <1>1
  <1> QED BY <1>2, <1>3, <1>4

LEMMA FoundNow ==
  ASSUME NEW found, Resolved(found), NEW b, NEW i, b = body, i = at, FoundAt(b, i) = {}
  PROVE  FoundAt(b, i)' = found
  BY FoundNext

NamesOne(s) == s.op \in {"use", "access", "init", "if"}

\* A statement that goes well ...
Succeeds(found) ==
  /\ at' = at + 1
  /\ Resolved(found) /\ UNCHANGED <<errors, phase>>
  /\ NamesOne(Stmt) => found /= {}
  /\ RightFound(body, at, found)
  /\ \/ Stmt.op \in {"use", "access"} /\ blocks' = blocks
     \/ Stmt.op = "var" /\ blocks' = Declared(Stmt.type)
     \/ Stmt.op = "init" /\ blocks' = Declared(TypeFrom(found))
     \/ Opens(Stmt) /\ Enter
     \/ Stmt.op = "close" /\ blocks' = Outer

\* ... or does not.
Unsuccessful ==
  /\ resolved' = resolved
  /\ \/ errors' = errors \cup {<<body, at>>} /\ phase' = phase
     \/ errors' = errors /\ phase' = "aborted" /\ at' = at

LEMMA FailsTruly ==
  ASSUME TrueFailure(body, at), Abort \/ \E next : Fail(next)
  PROVE  Unsuccessful /\ TrueFailure(body, at)
  BY DEF Abort, Fail, Unsuccessful

LEMMA FoundIsRight ==
  ASSUME Inside, at \in DOMAIN Code, NEW found, Fits(found, Meaning(body, at)), NamesOne(Stmt), Stmt.op /= "access"
  PROVE  /\ Usable(found) => found /= {} /\ RightFound(body, at, found)
         /\ ~Usable(found) => TrueFailure(body, at)
PROOF
  <1>1. program.code[body][at].op /= "access"
    BY StmtIs
  <1>2. CASE Usable(found)
    <2>1. found = Meaning(body, at) /\ found /= {}
      BY <1>2 DEF Fits, Usable
    <2> QED BY <1>2, <2>1 DEF RightFound, Fits
  <1>3. CASE ~Usable(found)
    <2>1. ~Usable(Meaning(body, at)) \/ Late(body, at)
      BY <1>3 DEF Fits
    <2> QED BY <1>1, <1>3, <2>1 DEF TrueFailure, Wrong
  <1> QED BY <1>2, <1>3

LEMMA StatementFits ==
  ASSUME Inside, Entered, BlocksMatch, Statement
  PROVE  \/ \E found : Succeeds(found)
         \/ Unsuccessful /\ TrueFailure(body, at)
PROOF
  <1>1. at \in DOMAIN Code
    BY AtIs, StatementKeeps
  <1>2. CASE Use
    <2>1. Stmt.op = "use" /\ NamesOne(Stmt)
      BY <1>2 DEF Use, InStatement, NamesOne
    <2>2. PICK found : found = Find(Stmt.path, Stmt.name)
      OBVIOUS
    <2>3. RecordFails(Stmt.path) => TrueFailure(body, at)
      <3>1. RecordFails(Stmt.path) => Meaning(body, at) = {}
        BY <1>1, <2>1, FindFits
      <3> QED BY <1>1, <2>1, <3>1, StmtIs DEF TrueFailure, Wrong, Usable
    <2>4. ~RecordFails(Stmt.path) => Fits(found, Meaning(body, at))
      BY <1>1, <2>1, <2>2, FindFits
    <2>5. CASE ~RecordFails(Stmt.path) /\ Usable(found)
      <3>1. found /= {} /\ RightFound(body, at, found)
        BY <1>1, <2>1, <2>4, <2>5, FoundIsRight
      <3>2. Resolved(found) /\ at' = at + 1 /\ UNCHANGED <<blocks, errors, phase>>
        BY <1>2, <2>2, <2>5 DEF Use
      <3> QED BY <2>1, <3>1, <3>2 DEF Succeeds
    <2>6. CASE RecordFails(Stmt.path) \/ ~Usable(found)
      <3>1. TrueFailure(body, at)
        BY <1>1, <2>1, <2>3, <2>4, <2>6, FoundIsRight
      <3>2. Abort \/ Fail(at + 1)
        BY <1>2, <2>2, <2>6 DEF Use
      <3> QED BY <3>1, <3>2, FailsTruly
    <2> QED BY <2>5, <2>6
  <1>3. CASE Access
    <2>1. Stmt.op = "access"
      BY <1>3 DEF Access, InStatement
    <2>2. PICK root, field : /\ root = Visible(Stmt.name)
                            /\ field = UNION {Field(o, Stmt.field) : o \in root}
      OBVIOUS
    <2>3. IF ~HasFields(root) THEN Fail(at + 1)
          ELSE IF AccessFails(root) THEN Abort
          ELSE IF field = {} THEN Fail(at + 1)
          ELSE /\ Resolved(root \cup field)
               /\ at' = at + 1
               /\ UNCHANGED <<blocks, errors, phase>>
      BY <1>3, <2>2 DEF Access
    <2>4. \/ HasFields(root) /\ ~AccessFails(root) /\ field /= {} /\ RightFound(body, at, root \cup field)
          \/ ~HasFields(root) /\ TrueFailure(body, at)
          \/ AccessFails(root) /\ TrueFailure(body, at)
          \/ field = {} /\ TrueFailure(body, at)
      BY <1>1, <2>1, <2>2, AccessFits
    <2>5. CASE HasFields(root) /\ ~AccessFails(root) /\ field /= {} /\ RightFound(body, at, root \cup field)
      <3>1. PICK found : found = root \cup field
        OBVIOUS
      <3>2. Resolved(found) /\ at' = at + 1 /\ UNCHANGED <<blocks, errors, phase>>
        BY <2>3, <2>5, <3>1
      <3>3. found /= {} /\ RightFound(body, at, found)
        BY <2>5, <3>1
      <3>4. Succeeds(found)
        BY <2>1, <3>2, <3>3 DEF Succeeds
      <3> QED BY <3>4
    <2>6. CASE (~HasFields(root) \/ AccessFails(root) \/ field = {}) /\ TrueFailure(body, at)
      <3>1. Abort \/ Fail(at + 1)
        BY <2>3, <2>6
      <3> QED BY <2>6, <3>1, FailsTruly
    <2> QED BY <2>4, <2>5, <2>6
  <1>4. CASE Declare
    <2>1. Stmt.op = "var"
      BY <1>4 DEF Declare, InStatement
    <2>2. blocks' = Declared(Stmt.type) /\ at' = at + 1 /\ UNCHANGED <<resolved, errors, phase>>
      BY <1>1, <1>4, <2>1, NeverRedeclares DEF Declare
    <2>3. Resolved({})
      BY <2>2 DEF Resolved
    <2>4. Succeeds({})
      BY <2>1, <2>2, <2>3 DEF Succeeds, NamesOne, RightFound
    <2> QED BY <2>4
  <1>5. CASE DeclareFrom
    <2>1. Stmt.op = "init" /\ NamesOne(Stmt) /\ ~Redeclares
      BY <1>1, <1>5, NeverRedeclares DEF DeclareFrom, InStatement, NamesOne
    <2>2. PICK found : found = Find(Stmt.path, Stmt.name)
      OBVIOUS
    <2>3. RecordFails(Stmt.path) => TrueFailure(body, at)
      <3>1. RecordFails(Stmt.path) => Meaning(body, at) = {}
        BY <1>1, <2>1, FindFits
      <3> QED BY <1>1, <2>1, <3>1, StmtIs DEF TrueFailure, Wrong, Usable
    <2>4. ~RecordFails(Stmt.path) => Fits(found, Meaning(body, at))
      BY <1>1, <2>1, <2>2, FindFits
    <2>5. CASE ~RecordFails(Stmt.path) /\ Usable(found)
      <3>1. found /= {} /\ RightFound(body, at, found)
        BY <1>1, <2>1, <2>4, <2>5, FoundIsRight
      <3>2. /\ Resolved(found) /\ at' = at + 1 /\ UNCHANGED <<errors, phase>>
            /\ blocks' = Declared(TypeFrom(found))
        BY <1>5, <2>1, <2>2, <2>5 DEF DeclareFrom
      <3> QED BY <2>1, <3>1, <3>2 DEF Succeeds
    <2>6. CASE RecordFails(Stmt.path) \/ ~Usable(found)
      <3>1. TrueFailure(body, at)
        BY <1>1, <2>1, <2>3, <2>4, <2>6, FoundIsRight
      <3>2. Abort \/ Fail(at + 1)
        BY <1>5, <2>1, <2>2, <2>6 DEF DeclareFrom
      <3> QED BY <3>1, <3>2, FailsTruly
    <2> QED BY <2>5, <2>6
  <1>6. CASE If
    <2>1. Stmt.op = "if" /\ NamesOne(Stmt) /\ Opens(Stmt)
      BY <1>6 DEF If, InStatement, NamesOne, Opens
    <2>2. PICK found : found = Visible(Stmt.name)
      OBVIOUS
    <2>3. Meaning(body, at) = Lexical(body, at, Stmt.name)
      BY <1>1, <2>1, StmtIs DEF Meaning
    <2>4. Fits(found, Meaning(body, at))
      BY <1>1, <2>2, <2>3, VisibleFits
    <2>5. CASE Usable(found)
      <3>1. found /= {} /\ RightFound(body, at, found)
        BY <1>1, <2>1, <2>4, <2>5, FoundIsRight
      <3>2. Resolved(found) /\ at' = at + 1 /\ UNCHANGED <<errors, phase>> /\ Enter
        BY <1>6, <2>2, <2>5 DEF If
      <3> QED BY <2>1, <3>1, <3>2 DEF Succeeds
    <2>6. CASE ~Usable(found)
      <3>1. TrueFailure(body, at)
        BY <1>1, <2>1, <2>4, <2>6, FoundIsRight
      <3>2. Fail(Skip(at))
        BY <1>6, <2>2, <2>6 DEF If
      <3> QED BY <3>1, <3>2, FailsTruly
    <2> QED BY <2>5, <2>6
  <1>7. CASE Open
    <2>1. Stmt.op \in {"open", "else"} /\ Enter /\ at' = at + 1 /\ UNCHANGED <<resolved, errors, phase>>
      BY <1>7 DEF Open
    <2>2. Resolved({}) /\ Opens(Stmt)
      BY <2>1 DEF Resolved, Opens
    <2>3. Succeeds({})
      BY <2>1, <2>2 DEF Succeeds, NamesOne, RightFound
    <2> QED BY <2>3
  <1>8. CASE Close
    <2>1. Stmt.op = "close" /\ blocks' = Closed /\ UNCHANGED <<resolved, errors, phase>>
          /\ at' = IF Last(blocks).failed /\ IsElse(at + 1) THEN After(at + 1) ELSE at + 1
      BY <1>8 DEF Close, InStatement
    <2>2. ~Last(blocks).failed
      <3>1. at \in 1..(Len(Code) + 1)
        BY <1>1, CodeIs
      <3>2. PICK n \in Nat \ {0} : n = Len(blocks)
        BY <3>1, LocalsInBlocks
      <3>3. n \in 1..Len(blocks)
        BY <3>2
      <3> QED BY <3>2, <3>3 DEF BlocksMatch, Last
    <2>3. blocks' = Outer /\ at' = at + 1
      BY <2>1, <2>2 DEF Closed
    <2>4. Resolved({})
      BY <2>1 DEF Resolved
    <2>5. Succeeds({})
      BY <2>1, <2>3, <2>4 DEF Succeeds, NamesOne, RightFound
    <2> QED BY <2>5
  <1> QED BY <1>2, <1>3, <1>4, <1>5, <1>6, <1>7, <1>8 DEF Statement

-----------------------------------------------------------------------------
(* The blocks after one more statement.                                    *)

LEMMA LocalsStay ==
  ASSUME program' = program, NEW b, NEW j, FoundAt(b, j)' = FoundAt(b, j)
  PROVE  LocalOf(b, j)' = LocalOf(b, j)
PROOF
  <1>1. TypeOfLocal(b, j)' = TypeOfLocal(b, j)
    BY DEF TypeOfLocal
  <1> QED BY <1>1 DEF LocalOf, Object

\* The objects of the block of depth d of the text, after one more statement.
LEMMA BlockObjectsNext ==
  ASSUME Inside, at \in DOMAIN Code, program' = program, NEW b, b = body, NEW i, i = at,
         NEW found, Resolved(found), NEW d \in Nat, d =< 1 + Level(Code, 1, at)
  PROVE  BlockObjects(b, i + 1, d)' = BlockObjects(b, i, d)
           \cup (IF Stmt.op \in {"var", "init"} /\ Level(Code, 1, at) = d - 1 THEN {LocalOf(b, i)'} ELSE {})
PROOF
  <1>1. \A j : j /= i => LocalOf(b, j)' = LocalOf(b, j)
    <2>1. \A j : j /= i => FoundAt(b, j)' = FoundAt(b, j)
      BY FoundNext
    <2> QED BY <2>1, LocalsStay
  <1>2. OpenAt(b, i + 1, d)' = OpenAt(b, i + 1, d)
    BY DEF OpenAt
  <1>3. PICK A, N : A = OpenAt(b, i, d)
                    /\ N = IF Stmt.op \in {"var", "init"} /\ Level(Code, 1, at) = d - 1 THEN {i} ELSE {}
    OBVIOUS
  <1>4. OpenAt(b, i + 1, d) = A \cup N
    BY <1>3, OpenNext
  <1>5. i \notin A
    <2>1. i \in Nat
      BY CodeIs
    <2> QED BY <1>3, <2>1 DEF OpenAt
  <1>6. {LocalOf(b, j)' : j \in A \cup N} = {LocalOf(b, j) : j \in A} \cup {LocalOf(b, j)' : j \in N}
    <2>1. {LocalOf(b, j)' : j \in A \cup N} = {LocalOf(b, j)' : j \in A} \cup {LocalOf(b, j)' : j \in N}
      OBVIOUS
    <2>2. \A j \in A : LocalOf(b, j)' = LocalOf(b, j)
      BY <1>1, <1>5
    <2>3. {LocalOf(b, j)' : j \in A} = {LocalOf(b, j) : j \in A}
      BY <2>2
    <2> QED BY <2>1, <2>3
  <1>7. Parameters(b)' = Parameters(b)
    BY DEF Parameters
  <1>8. BlockObjects(b, i + 1, d)' = {LocalOf(b, j)' : j \in A \cup N} \cup (IF d = 1 THEN Parameters(b) ELSE {})
    BY <1>2, <1>4, <1>7 DEF BlockObjects
  <1>9. BlockObjects(b, i, d) = {LocalOf(b, j) : j \in A} \cup (IF d = 1 THEN Parameters(b) ELSE {})
    BY <1>3 DEF BlockObjects
  <1>10. {LocalOf(b, j)' : j \in N} =
           IF Stmt.op \in {"var", "init"} /\ Level(Code, 1, at) = d - 1 THEN {LocalOf(b, i)'} ELSE {}
    BY <1>3
  <1> QED BY <1>6, <1>8, <1>9, <1>10

\* The n blocks, the last one with the object o, too.
WithLocal(bs, n, o) ==
  /\ Len(bs) = n
  /\ \A d \in 1..n : bs[d].failed = blocks[d].failed
  /\ \A d \in 1..n : bs[d].objects = blocks[d].objects \cup (IF d = n THEN {o} ELSE {})

LEMMA DeclaredIs ==
  ASSUME Inside, NEW type, NEW n \in Nat \ {0}, n = Len(blocks)
  PROVE  WithLocal(Declared(type), n, Object("var", body, Stmt.var, type, at))
PROOF
  <1>1. PICK o : o = Object("var", body, Stmt.var, type, at)
    OBVIOUS
  <1>2. DOMAIN blocks = 1..n /\ n \in 1..n
    BY InsideIs
  <1>8. PICK bs : bs = Declared(type)
    OBVIOUS
  <1>3. bs = [blocks EXCEPT ![n] = [blocks[n] EXCEPT !.objects = blocks[n].objects \cup {o}]]
    BY <1>1, <1>8 DEF Declared
  <1>4. PICK c : c = [blocks[n] EXCEPT !.objects = blocks[n].objects \cup {o}]
    OBVIOUS
  <1>5. c.objects = blocks[n].objects \cup {o} /\ c.failed = blocks[n].failed
    <2>1. blocks[n] \in BlocksOf(body)
      BY <1>2, InsideIs
    <2> QED BY <1>4, <2>1 DEF BlocksOf
  <1>6. DOMAIN bs = 1..n /\ bs[n] = c /\ \A d \in 1..n : d /= n => bs[d] = blocks[d]
    BY <1>2, <1>3, <1>4
  <1>7. Len(bs) = n
    <2>1. bs = [d \in 1..n |-> bs[d]]
      BY <1>2, <1>3, <1>6
    <2>2. bs \in [1..n -> {bs[d] : d \in 1..n}]
      BY <2>1
    <2> QED BY <2>2
  <1> QED BY <1>1, <1>5, <1>6, <1>7, <1>8 DEF WithLocal

LEMMA EnterIs ==
  ASSUME Inside, NEW n \in Nat, n = Len(blocks), Enter
  PROVE  /\ Len(blocks') = n + 1
         /\ \A d \in 1..n : blocks'[d] = blocks[d]
         /\ blocks'[n + 1].objects = {} /\ blocks'[n + 1].failed = FALSE
PROOF
  <1>1. PICK c : c = Block({})
    OBVIOUS
  <1>2. c.objects = {} /\ c.failed = FALSE
    BY <1>1 DEF Block
  <1>3. blocks' = Append(blocks, c) /\ blocks \in Seq(BlocksOf(body))
    BY <1>1, InsideIs DEF Enter
  <1>4. c \in BlocksOf(body)
    BY <1>1, BlockIs DEF Unique
  <1>5. Len(blocks') = n + 1 /\ blocks'[n + 1] = c /\ \A d \in 1..n : blocks'[d] = blocks[d]
    BY <1>3, <1>4, AppendProperties
  <1> QED BY <1>2, <1>5

LEMMA OuterIs ==
  ASSUME Inside, NEW n \in Nat \ {0}, n = Len(blocks)
  PROVE  Len(Outer) = n - 1 /\ \A d \in 1..(n - 1) : Outer[d] = blocks[d]
PROOF
  <1>1. PICK m \in Nat : m = n - 1
    OBVIOUS
  <1>2. blocks \in Seq(BlocksOf(body)) /\ 1 \in 1..(n + 1) /\ m \in 0..n
    BY <1>1, InsideIs
  <1>3. PICK bs : bs = SubSeq(blocks, 1, m)
    OBVIOUS
  <1>4. Len(bs) = m /\ \A d \in 1..m : bs[d] = blocks[d]
    BY <1>1, <1>2, <1>3, SubSeqProperties
  <1>5. Outer = bs
    BY <1>1, <1>3 DEF Outer
  <1> QED BY <1>1, <1>4, <1>5

LEMMA BlocksNext ==
  ASSUME Inside, BlocksMatch, at \in DOMAIN Code, FoundAt(body, at) = {},
         UNCHANGED <<program, body>>, NEW found, Succeeds(found)
  PROVE  BlocksMatch'
PROOF
  <1>1. PICK b, i, code : b = body /\ i = at /\ code = Code /\ code = program.code[b]
    BY CodeIs
  <1>2. /\ body' = b /\ at' = i + 1 /\ program' = program /\ Code' = code /\ i \in Nat \ {0}
        /\ Resolved(found) /\ i \in DOMAIN Code
    BY <1>1, LevelsAt DEF Succeeds, Code
  <1>3. PICK n \in Nat \ {0} : n = Len(blocks)
    <2>1. at \in 1..(Len(Code) + 1)
      BY CodeIs
    <2> QED BY <2>1, LocalsInBlocks
  <1>4. PICK l \in Nat, k \in Nat : l = Level(code, 1, i) /\ k = Level(code, 1, i - 1)
    BY <1>1, LevelsAt
  <1>5. n = 1 + k /\ \A d \in 1..n : blocks[d].failed = FALSE /\ blocks[d].objects = BlockObjects(b, i, d)
    <2>1. \A d \in 1..n : blocks[d] \in BlocksOf(body)
      BY <1>3, InsideIs
    <2>2. \A d \in 1..n : blocks[d].failed \in BOOLEAN
      BY <2>1 DEF BlocksOf
    <2> QED BY <1>1, <1>3, <1>4, <2>2 DEF BlocksMatch
  <1>6. /\ Opens(Stmt) => l = k + 1
        /\ Stmt.op = "close" => l = k - 1
        /\ ~Opens(Stmt) /\ Stmt.op /= "close" => l = k
    BY <1>1, <1>4, LevelsAt
  <1>7. \A d \in 1..(1 + l) : BlockObjects(b, i + 1, d)' = BlockObjects(b, i, d)
           \cup (IF Stmt.op \in {"var", "init"} /\ l = d - 1 THEN {LocalOf(b, i)'} ELSE {})
    <2> SUFFICES ASSUME NEW d \in 1..(1 + l)
                 PROVE  BlockObjects(b, i + 1, d)' = BlockObjects(b, i, d)
                   \cup (IF Stmt.op \in {"var", "init"} /\ l = d - 1 THEN {LocalOf(b, i)'} ELSE {})
      OBVIOUS
    <2>1. d \in Nat /\ d =< 1 + Level(Code, 1, at)
      BY <1>1, <1>4
    <2> QED BY <1>1, <1>2, <1>4, <2>1, BlockObjectsNext
  <1>8. SUFFICES /\ Len(blocks') = 1 + l
                 /\ \A d \in 1..(1 + l) : blocks'[d].failed = FALSE /\ blocks'[d].objects = BlockObjects(b, i + 1, d)'
    <2>1. (i + 1) - 1 = i
      BY <1>2
    <2> QED BY <1>2, <1>4, <2>1 DEF BlocksMatch
  <1>9. CASE Stmt.op \in {"use", "access"}
    <2>1. blocks' = blocks /\ l = k
      BY <1>6, <1>9 DEF Succeeds, Opens
    <2>2. ASSUME NEW d \in 1..(1 + l) PROVE BlockObjects(b, i + 1, d)' = BlockObjects(b, i, d)
      BY <1>7, <1>9
    <2>3. ASSUME NEW d \in 1..(1 + l)
          PROVE  blocks'[d].failed = FALSE /\ blocks'[d].objects = BlockObjects(b, i, d)
      BY <1>5, <2>1
    <2>4. Len(blocks') = 1 + l
      BY <1>3, <1>5, <2>1
    <2> QED BY <2>2, <2>3, <2>4
  <1>10. CASE Stmt.op \in {"var", "init"}
    <2>1. l = k
      BY <1>6, <1>10 DEF Opens
    <2>2. PICK type : /\ blocks' = Declared(type)
                      /\ Stmt.op = "var" => type = Stmt.type
                      /\ Stmt.op = "init" => type = TypeFrom(found)
      BY <1>10 DEF Succeeds, Opens
    <2>3. LocalOf(b, i)' = Object("var", body, Stmt.var, type, at)
      <3>1. program.code[b][i] = Stmt
        BY <1>1 DEF Stmt
      <3>2. FoundAt(b, i)' = found
        <4>1. FoundAt(b, i) = {}
          BY <1>1
        <4>2. Resolved(found)
          BY <1>2
        <4> QED BY <1>1, <4>1, <4>2, FoundNow
      <3>3. TypeOfLocal(b, i)' = type
        BY <1>2, <1>10, <2>2, <3>1, <3>2 DEF TypeOfLocal, TypeFrom
      <3> QED BY <1>1, <1>2, <3>1, <3>3 DEF LocalOf, Object
    <2>4. PICK bs : bs = blocks'
      OBVIOUS
    <2>5. /\ Len(bs) = n
          /\ \A d \in 1..n : bs[d].failed = blocks[d].failed
          /\ \A d \in 1..n : bs[d].objects = blocks[d].objects
               \cup (IF d = n THEN {Object("var", body, Stmt.var, type, at)} ELSE {})
      <3>1. WithLocal(Declared(type), n, Object("var", body, Stmt.var, type, at))
        BY <1>3, DeclaredIs
      <3>2. bs = Declared(type)
        BY <2>2, <2>4
      <3> QED BY <3>1, <3>2 DEF WithLocal
    <2>6. ASSUME NEW d \in 1..(1 + l)
          PROVE  bs[d].failed = FALSE /\ bs[d].objects = BlockObjects(b, i + 1, d)'
      <3>1. d \in 1..n /\ (l = d - 1 <=> d = n)
        BY <1>5, <2>1
      <3>2. bs[d].failed = FALSE
        BY <1>5, <2>5, <3>1
      <3>3. bs[d].objects = BlockObjects(b, i, d) \cup (IF d = n THEN {LocalOf(b, i)'} ELSE {})
        BY <1>5, <2>3, <2>5, <3>1
      <3>4. BlockObjects(b, i + 1, d)' = BlockObjects(b, i, d) \cup (IF d = n THEN {LocalOf(b, i)'} ELSE {})
        BY <1>7, <1>10, <3>1
      <3> QED BY <3>2, <3>3, <3>4
    <2> QED BY <1>5, <2>1, <2>4, <2>5, <2>6
  <1>11. CASE Opens(Stmt)
    <2>1. l = k + 1 /\ Enter
      BY <1>6, <1>11 DEF Succeeds, Opens
    <2>2. PICK bs : bs = blocks'
      OBVIOUS
    <2>3. /\ Len(bs) = n + 1
          /\ \A d \in 1..n : bs[d] = blocks[d]
          /\ bs[n + 1].objects = {} /\ bs[n + 1].failed = FALSE
      BY <1>3, <2>1, <2>2, EnterIs
    <2>4. ASSUME NEW d \in 1..(1 + l)
          PROVE  bs[d].failed = FALSE /\ bs[d].objects = BlockObjects(b, i + 1, d)'
      <3>1. BlockObjects(b, i + 1, d)' = BlockObjects(b, i, d)
        <4>1. Stmt.op \notin {"var", "init"}
          BY <1>11 DEF Opens
        <4> QED BY <1>7, <4>1
      <3>2. CASE d \in 1..n
        BY <1>5, <2>3, <3>1, <3>2
      <3>3. CASE d \notin 1..n
        <4>1. d = n + 1 /\ d \in Nat /\ d > 1 + k /\ d /= 1
          BY <1>5, <2>1, <3>3
        <4>2. at \in 1..(Len(Code) + 1)
          BY CodeIs
        <4>3. OpenAt(b, i, d) = {}
          BY <1>1, <1>4, <4>1, <4>2, NoneIsOpen
        <4>4. BlockObjects(b, i, d) = {}
          BY <4>1, <4>3 DEF BlockObjects
        <4>5. bs[d].failed = FALSE /\ bs[d].objects = {}
          BY <2>3, <4>1
        <4> QED BY <3>1, <4>4, <4>5
      <3> QED BY <3>2, <3>3
    <2>5. Len(bs) = 1 + l
      BY <1>5, <2>1, <2>3
    <2> QED BY <2>2, <2>4, <2>5
  <1>12. CASE Stmt.op = "close"
    <2>1. l = k - 1 /\ blocks' = Outer
      BY <1>6, <1>12 DEF Succeeds, Opens
    <2>2. Len(Outer) = n - 1 /\ \A d \in 1..(n - 1) : Outer[d] = blocks[d]
      BY <1>3, OuterIs
    <2>3. n - 1 = 1 + l
      BY <1>5, <2>1
    <2>4. ASSUME NEW d \in 1..(1 + l)
          PROVE  Outer[d].failed = FALSE /\ Outer[d].objects = BlockObjects(b, i + 1, d)'
      <3>1. d \in 1..n /\ Outer[d] = blocks[d]
        BY <2>2, <2>3
      <3>2. BlockObjects(b, i + 1, d)' = BlockObjects(b, i, d)
        BY <1>7, <1>12
      <3> QED BY <1>5, <3>1, <3>2
    <2> QED BY <2>1, <2>2, <2>3, <2>4
  <1> QED BY <1>9, <1>10, <1>11, <1>12 DEF Succeeds

-----------------------------------------------------------------------------
(* The walk, step by step.                                                 *)

\* A body that has not been entered yet.
Waiting(b) ==
  \/ phase = "variables"
  \/ /\ phase = "structs"
     /\ b[2] = NoName \/ b[2] \in todo \/ (b[2] = inside /\ b[3] \in left)
  \/ phase = "functions" /\ b[2] = NoName /\ b[3] \in left

Untouched ==
  Walking => \A b \in Bodies : Waiting(b) =>
    /\ body = NoName \/ b /= body
    /\ \A r \in resolved : r[1] /= b
    /\ Unfailed(b)

\* All that is known of the body is about statements before the one it is at.
Behind ==
  /\ \A e \in errors : e[2] \in Nat
  /\ Going => /\ \A e \in errors : e[1] = body => e[2] < at
              /\ \A r \in resolved : r[1] = body => r[2] \in Nat /\ r[2] < at

Beginning == phase = "variables" => todo = Structs

AllBefore(b, i) == \A j \in 1..(i - 1) : NamesOne(program.code[b][j]) => FoundAt(b, j) /= {}
Matched ==
  Going /\ Unfailed(body) => at \in 1..(Len(Code) + 1) /\ BlocksMatch /\ AllBefore(body, at)

RightAt(b, i) == RightFound(b, i, FoundAt(b, i))
RightSoFar == \A b \in Bodies : Unfailed(b) => \A i \in DOMAIN program.code[b] : RightAt(b, i)
FailsRightly == \A b \in Bodies : Failures(b) /= {} => TrueFailure(b, Min(Failures(b)))

AllFound(b) == \A i \in DOMAIN program.code[b] : NamesOne(program.code[b][i]) => FoundAt(b, i) /= {}
Finished ==
  errors = {} =>
    /\ phase = "accepted" => \A b \in Bodies : AllFound(b)
    /\ Walking => \A b \in Bodies : ~Waiting(b) /\ (body = NoName \/ b /= body) => AllFound(b)

\* The steps of the validator but those of statements.
WalkStep ==
  ValidateVariables \/ EnterStruct \/ LeaveStruct \/ EnterBody \/ LeaveBody \/ Predeclare \/ Finish

LEMMA StepIs ==
  ASSUME [GenNext]_allVars
  PROVE  \/ UNCHANGED allVars
         \/ Statement
         \/ WalkStep
         \/ /\ UNCHANGED <<program, resolved, errors>>
            /\ ~Walking' /\ phase' /= "accepted"
            /\ phase /= "aborted" /\ phase' /= "aborted"
PROOF
  <1>1. CASE Generate
    <2>1. UNCHANGED <<program, resolved, errors>>
      BY <1>1 DEF Generate, GenModule, GenStruct, GenStructDone, GenFunctions, GenBody, GenStatement,
                  GenBodyDone, GenModuleDone
    <2>2. phase' \in {"gen structs", "gen functions", "generated"}
      BY <1>1 DEF Generate, GenModule, GenStruct, GenStructDone, GenFunctions, GenBody, GenStatement,
                  GenBodyDone, GenModuleDone
    <2>3. phase \in {"accepted", "gen structs", "gen functions", "generated"}
      BY <1>1 DEF Generate, GenModule, GenStruct, GenStructDone, GenFunctions, GenBody, GenStatement,
                  GenBodyDone, GenModuleDone
    <2> QED BY <2>1, <2>2, <2>3 DEF Walking
  <1> QED BY <1>1 DEF GenNext, Validate, Next, WalkStep

LEMMA WalkStepIs ==
  ASSUME WalkStep, Walk
  PROVE  /\ UNCHANGED <<program, resolved, errors>>
         /\ phase /= "aborted" /\ phase' /= "aborted"
         /\ ~EnterBody => ~Going'
PROOF
  <1>1. UNCHANGED <<program, resolved, errors>>
    BY DEF WalkStep, ValidateVariables, EnterStruct, LeaveStruct, EnterBody, LeaveBody, Predeclare, Finish
  <1>2. phase \in {"variables", "structs", "functions"}
    BY DEF WalkStep, ValidateVariables, EnterStruct, LeaveStruct, EnterBody, LeaveBody, Predeclare, Finish
  <1>3. phase' \in {"variables", "structs", "functions", "accepted", "rejected"}
    BY <1>2 DEF WalkStep, ValidateVariables, EnterStruct, LeaveStruct, EnterBody, LeaveBody, Predeclare, Finish,
                Verdict
  <1>4. CASE LeaveStruct \/ LeaveBody \/ Finish
    BY <1>4 DEF LeaveStruct, LeaveBody, Finish, Verdict, Going
  <1>5. CASE ValidateVariables \/ EnterStruct \/ Predeclare
    <2>1. \/ phase = "variables"
          \/ phase = "structs" /\ inside = NoName
      BY <1>5 DEF ValidateVariables, EnterStruct, Predeclare
    <2>2. body' = body
      BY <1>5 DEF ValidateVariables, EnterStruct, Predeclare
    <2>3. body = NoName
      BY <2>1 DEF Walk
    <2> QED BY <1>1, <1>2, <1>3, <2>2, <2>3 DEF Going
  <1> QED BY <1>1, <1>2, <1>3, <1>4, <1>5 DEF WalkStep

LEMMA EnteredKept ==
  ASSUME ScopesBuilt, Walk, Beginning, Entered, [GenNext]_allVars
  PROVE  Entered' /\ Beginning'
PROOF
  <1>0. program' = program /\ NoName \notin Structs
    BY ProgramStays, BodiesAre
  <1>1. CASE UNCHANGED <<program, scopes, todo, inside, phase>>
    BY <1>1 DEF Entered, Beginning, Structs, ModuleScope, ModuleVariables, StructObject, Functions, Members
  <1>2. CASE phase' \notin {"variables", "structs", "functions"}
    BY <1>2 DEF Entered, Beginning
  <1>3. CASE ValidateVariables
    <2> SUFFICES ASSUME phase' = "structs" PROVE Entered' /\ Beginning'
      BY <1>2, <1>3 DEF ValidateVariables
    <2>1. /\ phase = "variables" /\ todo = Structs /\ inside = NoName /\ UNCHANGED <<todo, inside>>
          /\ scopes' = [scopes EXCEPT ![ModuleScope] = ModuleVariables]
      BY <1>3 DEF ValidateVariables, Beginning, Walk
    <2>2. scopes'[ModuleScope] = ModuleVariables
      BY <2>1 DEF ScopesBuilt
    <2>3. Structs \ todo = {}
      BY <2>1
    <2> QED BY <1>0, <2>1, <2>2, <2>3 DEF Entered, Beginning, Structs, ModuleScope, ModuleVariables, StructObject
  <1>4. CASE EnterStruct
    <2>1. PICK S \in todo :
            /\ scopes' = [scopes EXCEPT ![ModuleScope] = @ \cup {StructObject(S)}, ![<<Self, S>>] = Members(S)]
            /\ inside' = S /\ todo' = todo \ {S}
      BY <1>4 DEF EnterStruct
    <2>2. phase = "structs" /\ phase' = phase /\ todo \subseteq Structs
      BY <1>4 DEF EnterStruct, Walk, Walking
    <2>3. /\ scopes'[ModuleScope] = scopes[ModuleScope] \cup {StructObject(S)}
          /\ scopes'[<<Self, S>>] = Members(S)
          /\ \A T \in Structs : T /= S => scopes'[<<Self, T>>] = scopes[<<Self, T>>]
      BY <1>0, <2>1, <2>2 DEF ScopesBuilt, ModuleScope
    <2>4. Structs \ todo' = (Structs \ todo) \cup {S}
      BY <2>1, <2>2
    <2>5. scopes'[ModuleScope] = ModuleVariables \cup {StructObject(T) : T \in Structs \ todo'}
      <3>1. {StructObject(T) : T \in Structs \ todo'} = {StructObject(T) : T \in Structs \ todo} \cup {StructObject(S)}
        BY <2>4
      <3>2. scopes[ModuleScope] = ModuleVariables \cup {StructObject(T) : T \in Structs \ todo}
        BY <2>2 DEF Entered
      <3> QED BY <2>3, <3>1, <3>2
    <2>6. \A T \in Structs \ todo' : scopes'[<<Self, T>>] = Members(T)
      BY <2>2, <2>3, <2>4 DEF Entered
    <2>7. inside' \notin todo' /\ phase' = "structs"
      BY <2>1, <2>2
    <2>8. /\ ModuleVariables' = ModuleVariables /\ Structs' = Structs /\ ModuleScope' = ModuleScope
          /\ \A T : StructObject(T)' = StructObject(T) /\ Members(T)' = Members(T)
      BY <1>0 DEF Structs, ModuleScope, ModuleVariables, StructObject, Members
    <2>9. {StructObject(T) : T \in Structs \ todo'} \cup {} = {StructObject(T) : T \in Structs \ todo'}
      OBVIOUS
    <2> QED BY <2>5, <2>6, <2>7, <2>8 DEF Entered, Beginning
  <1>5. CASE LeaveStruct
    <2>1. UNCHANGED <<program, scopes, todo, phase>> /\ inside' = NoName /\ NoName \notin todo /\ phase = "structs"
      BY <1>0, <1>5 DEF LeaveStruct, Walk, Walking
    <2> QED BY <2>1 DEF Entered, Beginning, Structs, ModuleScope, ModuleVariables, StructObject, Functions, Members
  <1>6. CASE Predeclare
    <2> SUFFICES ASSUME phase' = "functions" PROVE Entered' /\ Beginning'
      BY <1>2, <1>6 DEF Predeclare
    <2>1. /\ phase = "structs" /\ todo = {} /\ UNCHANGED <<todo, inside>>
          /\ scopes' = [scopes EXCEPT ![ModuleScope] = @ \cup Functions(ModuleScope, program.functions)]
      BY <1>6 DEF Predeclare
    <2>2. /\ scopes'[ModuleScope] = scopes[ModuleScope] \cup Functions(ModuleScope, program.functions)
          /\ \A S \in Structs : scopes'[<<Self, S>>] = scopes[<<Self, S>>]
      BY <1>0, <2>1 DEF ScopesBuilt, ModuleScope
    <2>3. /\ scopes[ModuleScope] = ModuleVariables \cup {StructObject(S) : S \in Structs \ todo}
          /\ \A S \in Structs \ todo : scopes[<<Self, S>>] = Members(S)
      BY <2>1 DEF Entered
    <2> QED BY <1>0, <2>1, <2>2, <2>3
            DEF Entered, Beginning, Structs, ModuleScope, ModuleVariables, StructObject, Functions, Members
  <1>7. CASE Statement
    <2>1. UNCHANGED <<program, scopes, todo, inside>> /\ phase' \in {phase, "aborted"}
      BY <1>7, StatementKeeps
    <2> QED BY <1>1, <1>2, <2>1
  <1>8. CASE EnterBody \/ LeaveBody
    BY <1>1, <1>8 DEF EnterBody, LeaveBody
  <1>9. CASE Finish
    BY <1>2, <1>9 DEF Finish, Verdict
  <1>10. CASE ~Walking'
    BY <1>2, <1>10 DEF Walking
  <1>11. CASE UNCHANGED allVars
    BY <1>1, <1>11 DEF allVars, vars
  <1> QED BY <1>3, <1>4, <1>5, <1>6, <1>7, <1>8, <1>9, <1>10, <1>11, StepIs DEF WalkStep

\* What a statement does to what is known.
LEMMA StatementEffect ==
  ASSUME Inside, Statement
  PROVE  \/ \E found : Resolved(found) /\ UNCHANGED <<errors, phase>> /\ at' \in Nat /\ at' > at
         \/ Unsuccessful /\ (phase' = phase => at' \in Nat /\ at' > at)
PROOF
  <1>1. /\ at \in Nat \ {0} /\ at + 1 \in Nat /\ at + 1 > at /\ at \in DOMAIN Code
        /\ body \in Bodies /\ ScopesBuilt /\ phase /= "aborted"
    BY InsideIs, AtIs, StatementKeeps DEF Inside
  <1>2. Abort => Unsuccessful /\ phase' /= phase
    BY <1>1 DEF Abort, Unsuccessful
  <1>3. ASSUME NEW next \in Nat, next > at, Fail(next) PROVE Unsuccessful /\ at' \in Nat /\ at' > at
    BY <1>3 DEF Fail, Unsuccessful
  <1>4. Resolved({}) <=> resolved' = resolved
    BY DEF Resolved
  <1>5. CASE Use
    BY <1>1, <1>2, <1>3, <1>5 DEF Use
  <1>6. CASE Access
    BY <1>1, <1>2, <1>3, <1>6 DEF Access
  <1>7. CASE Declare
    BY <1>1, <1>2, <1>4, <1>7 DEF Declare
  <1>8. CASE DeclareFrom
    BY <1>1, <1>2, <1>3, <1>8 DEF DeclareFrom
  <1>9. CASE If
    <2>1. Opens(Code[at])
      BY <1>9 DEF If, InStatement, Stmt, Opens
    <2>2. Skip(at) \in Nat /\ Skip(at) > at
      BY <1>1, <2>1, SkipIs
    <2> QED BY <1>1, <1>3, <1>9, <2>2 DEF If
  <1>10. CASE Open
    BY <1>1, <1>4, <1>10 DEF Open
  <1>11. CASE Close
    <2>1. IsElse(at + 1) => After(at + 1) \in Nat /\ After(at + 1) > at
      <3> SUFFICES ASSUME IsElse(at + 1) PROVE After(at + 1) \in Nat /\ After(at + 1) > at
        OBVIOUS
      <3>1. at + 1 =< Len(Code) /\ Code[at + 1].op = "else"
        BY DEF IsElse
      <3>2. Code \in Seq(Range(Code))
        BY <1>1 DEF ScopesBuilt, Parsed, Code, Bodies
      <3>3. PICK j \in Nat : j = at + 1 /\ j \in DOMAIN Code /\ j > at /\ Opens(Code[j])
        BY <1>1, <3>1, <3>2 DEF Opens
      <3>4. PICK k \in Nat : k = After(j) /\ k > j
        BY <1>1, <3>3, AfterIs
      <3> QED BY <1>1, <3>3, <3>4
    <2>2. UNCHANGED <<resolved, errors, phase>>
          /\ at' = IF Last(blocks).failed /\ IsElse(at + 1) THEN After(at + 1) ELSE at + 1
      BY <1>11 DEF Close
    <2> QED BY <1>1, <1>4, <2>1, <2>2
  <1> QED BY <1>5, <1>6, <1>7, <1>8, <1>9, <1>10, <1>11 DEF Statement

LEMMA UnfailedBefore ==
  ASSUME errors \subseteq errors', NEW b, Unfailed(b)'
  PROVE  Unfailed(b)
  BY DEF Unfailed

\* No body waits that did not, and the one that is entered waits no more.
LEMMA WaitingBefore ==
  ASSUME ScopesBuilt, Walk, Entered, WalkStep, Walking', NEW b \in Bodies, Waiting(b)'
  PROVE  Waiting(b) /\ (EnterBody => b /= body')
PROOF
  <1>1. CASE ValidateVariables
    BY <1>1 DEF ValidateVariables, EnterBody, Waiting
  <1>2. CASE EnterStruct
    <2>1. PICK S \in todo : inside' = S /\ todo' = todo \ {S}
      BY <1>2 DEF EnterStruct
    <2>2. phase = "structs" /\ phase' = phase /\ inside = NoName /\ body' = body /\ body = NoName
      BY <1>2 DEF EnterStruct, Walk
    <2>3. ~EnterBody
      BY <2>2 DEF EnterBody, Walk
    <2> QED BY <2>1, <2>2, <2>3 DEF Waiting
  <1>3. CASE LeaveStruct
    BY <1>3 DEF LeaveStruct, EnterBody, Waiting
  <1>4. CASE EnterBody
    <2>1. PICK f \in left : left' = left \ {f} /\ body' = <<Self, inside, f>>
      BY <1>4 DEF EnterBody
    <2>2. phase \in {"structs", "functions"} /\ phase' = phase /\ UNCHANGED <<inside, todo>>
      BY <1>4 DEF EnterBody
    <2>3. phase = "structs" => inside /= NoName /\ inside \notin todo
      BY <2>1 DEF Walk, Entered
    <2>4. body'[2] = inside /\ body'[3] = f
      BY <2>1
    <2> QED BY <2>1, <2>2, <2>3, <2>4 DEF Waiting
  <1>5. CASE LeaveBody
    BY <1>5 DEF LeaveBody, EnterBody, Waiting
  <1>6. CASE Predeclare
    <2>1. phase = "structs" /\ inside = NoName /\ phase' \in {"functions", "rejected"}
      BY <1>6 DEF Predeclare
    <2>2. b[2] = NoName
      BY <2>1 DEF Waiting, Walking
    <2>3. ~EnterBody
      BY <2>1 DEF EnterBody, Walk
    <2> QED BY <2>1, <2>2, <2>3 DEF Waiting
  <1>7. CASE Finish
    BY <1>7 DEF Finish, Verdict, Walking
  <1> QED BY <1>1, <1>2, <1>3, <1>4, <1>5, <1>6, <1>7 DEF WalkStep

\* What is known only grows at the statement of the body.
LEMMA Elsewhere ==
  ASSUME Inside, Statement
  PROVE  /\ \A r \in resolved' : r \in resolved \/ (r[1] = body /\ r[2] = at)
         /\ \A e \in errors' : e \in errors \/ (e[1] = body /\ e[2] = at)
         /\ errors \subseteq errors'
         /\ \A b, i : b /= body \/ i /= at => FoundAt(b, i)' = FoundAt(b, i)
PROOF
  <1>1. CASE \E found : Resolved(found) /\ UNCHANGED <<errors, phase>>
    <2>1. PICK found : Resolved(found) /\ errors' = errors
      BY <1>1
    <2>2. \A b, i : b /= body \/ i /= at => FoundAt(b, i)' = FoundAt(b, i)
      BY <2>1, FoundNext
    <2>3. resolved' = resolved \cup {<<body, at, o>> : o \in found}
      BY <2>1 DEF Resolved
    <2>4. \A r \in {<<body, at, o>> : o \in found} : r[1] = body /\ r[2] = at
      OBVIOUS
    <2> QED BY <2>1, <2>2, <2>3, <2>4
  <1>2. CASE Unsuccessful
    <2>1. resolved' = resolved
      BY <1>2 DEF Unsuccessful
    <2>2. \A b, i : FoundAt(b, i)' = FoundAt(b, i)
      BY <2>1 DEF FoundAt
    <2>3. \A e \in errors' : e \in errors \/ e = <<body, at>>
      BY <1>2 DEF Unsuccessful
    <2>4. errors \subseteq errors'
      BY <1>2 DEF Unsuccessful
    <2> QED BY <2>1, <2>2, <2>3, <2>4
  <1> QED BY <1>1, <1>2, StatementEffect

LEMMA UntouchedKept ==
  ASSUME ScopesBuilt, AllScoped, InBlocks, Walk, Entered, Untouched, [GenNext]_allVars
  PROVE  Untouched'
PROOF
  <1> SUFFICES ASSUME Walking', NEW b \in Bodies, Waiting(b)'
               PROVE  /\ body' = NoName \/ b /= body'
                      /\ \A r \in resolved' : r[1] /= b
                      /\ Unfailed(b)'
    BY ProgramStays DEF Untouched, Bodies
  <1>1. CASE UNCHANGED allVars
    BY <1>1 DEF allVars, vars, Untouched, Waiting, Walking, Unfailed
  <1>2. CASE Statement
    <2>1. Inside /\ UNCHANGED <<inside, todo, left, body>> /\ phase' = phase
      BY <1>2, StatementKeeps DEF Inside, Walking
    <2>2. Waiting(b) /\ Walking
      BY <2>1 DEF Waiting, Walking
    <2>3. /\ \A r \in resolved' : r \in resolved \/ (r[1] = body /\ r[2] = at)
          /\ \A e \in errors' : e \in errors \/ (e[1] = body /\ e[2] = at)
      BY <1>2, <2>1, Elsewhere
    <2>4. b /= body
      BY <2>1, <2>2 DEF Untouched, Inside
    <2> QED BY <2>1, <2>2, <2>3, <2>4 DEF Untouched, Unfailed
  <1>3. CASE WalkStep
    <2>1. Waiting(b) /\ (EnterBody => b /= body')
      BY <1>3, WaitingBefore
    <2>2. UNCHANGED <<resolved, errors>>
      BY <1>3, WalkStepIs
    <2>3. Walking
      BY <1>3 DEF WalkStep, ValidateVariables, EnterStruct, LeaveStruct, EnterBody, LeaveBody, Predeclare, Finish,
                  Walking
    <2>4. ~EnterBody => body' = NoName
      <3>1. ~EnterBody => ~Going'
        BY <1>3, WalkStepIs
      <3>2. phase' = "variables" => FALSE
        BY <1>3 DEF WalkStep, ValidateVariables, EnterStruct, LeaveStruct, EnterBody, LeaveBody, Predeclare,
                    Finish, Verdict
      <3> QED BY <3>1, <3>2 DEF Going, Walking
    <2> QED BY <2>1, <2>2, <2>3, <2>4 DEF Untouched, Unfailed
  <1> QED BY <1>1, <1>2, <1>3, StepIs

\* The body that is entered waited.
LEMMA EnteredWaited ==
  ASSUME ScopesBuilt, Walk, EnterBody
  PROVE  body' \in Bodies /\ Waiting(body') /\ Walking /\ at' = 1
         /\ blocks' = <<Block(Parameters(body'))>> /\ program' = program
PROOF
  <1>1. PICK f \in left : /\ body' = <<Self, inside, f>>
                          /\ blocks' = <<Block(Parameters(<<Self, inside, f>>))>>
    BY DEF EnterBody
  <1>2. phase \in {"structs", "functions"} /\ at' = 1 /\ program' = program
    BY DEF EnterBody
  <1>3. <<Self, inside, f>> \in Bodies
    BY <1>2, BodiesAre DEF Walk, Walking
  <1>4. body'[2] = inside /\ body'[3] = f
    BY <1>1
  <1>5. phase = "functions" => inside = NoName
    BY DEF Walk
  <1> QED BY <1>1, <1>2, <1>3, <1>4, <1>5 DEF Waiting, Walking

LEMMA BehindKept ==
  ASSUME ScopesBuilt, AllScoped, InBlocks, Walk, Untouched, Behind, [GenNext]_allVars
  PROVE  Behind'
PROOF
  <1>1. CASE UNCHANGED allVars
    BY <1>1 DEF allVars, vars, Behind, Going
  <1>2. CASE Statement
    <2>1. Inside /\ body' = body /\ at \in Nat /\ Going
      BY <1>2, StatementKeeps, InsideIs DEF Inside, Going
    <2>2. /\ \A r \in resolved' : r \in resolved \/ (r[1] = body /\ r[2] = at)
          /\ \A e \in errors' : e \in errors \/ (e[1] = body /\ e[2] = at)
      BY <1>2, <2>1, Elsewhere
    <2>3. Going' => at' \in Nat /\ at' > at
      BY <1>2, <2>1, StatementEffect, StatementKeeps DEF Going
    <2> QED BY <2>1, <2>2, <2>3 DEF Behind
  <1>3. CASE EnterBody
    <2>1. UNCHANGED <<resolved, errors>>
      BY <1>3 DEF EnterBody
    <2>2. \A r \in resolved : r[1] /= body'
      BY <1>3, EnteredWaited DEF Untouched
    <2>3. \A e \in errors : e[1] /= body'
      BY <1>3, EnteredWaited DEF Untouched, Unfailed
    <2> QED BY <2>1, <2>2, <2>3 DEF Behind
  <1>4. CASE WalkStep /\ ~EnterBody
    BY <1>4, WalkStepIs DEF Behind
  <1>5. CASE ~Walking' /\ UNCHANGED <<resolved, errors>>
    BY <1>5 DEF Behind, Walking, Going
  <1> QED BY <1>1, <1>2, <1>3, <1>4, <1>5, StepIs

LEMMA NothingAtYet ==
  ASSUME Behind, Going
  PROVE  FoundAt(body, at) = {}
PROOF
  <1>1. \A r \in resolved : ~(r[1] = body /\ r[2] = at)
    BY DEF Behind
  <1> QED BY <1>1 DEF FoundAt

LEMMA MatchedKept ==
  ASSUME ScopesBuilt, AllScoped, InBlocks, Walk, Entered, Untouched, Behind, Matched, [GenNext]_allVars
  PROVE  Matched'
PROOF
  <1> SUFFICES ASSUME Going', Unfailed(body)'
               PROVE  at' \in 1..(Len(Code') + 1) /\ BlocksMatch' /\ AllBefore(body, at)'
    BY DEF Matched
  <1>0. program' = program
    BY ProgramStays
  <1>1. CASE UNCHANGED allVars
    <2>1. UNCHANGED <<program, blocks, body, at, resolved, errors, phase>>
      BY <1>1 DEF allVars, vars
    <2>2. Going /\ Unfailed(body) /\ Code' = Code
      BY <2>1 DEF Going, Unfailed, Code
    <2>3. \A b, i, d : BlockObjects(b, i, d)' = BlockObjects(b, i, d)
      <3>1. \A b, j : FoundAt(b, j)' = FoundAt(b, j)
        BY <2>1 DEF FoundAt
      <3> QED BY <2>1, <3>1 DEF BlockObjects, OpenAt, LocalOf, TypeOfLocal, Object, Parameters, TypeFrom
    <2>4. BlocksMatch'
      BY <2>1, <2>2, <2>3 DEF BlocksMatch, Matched
    <2>5. AllBefore(body, at)'
      BY <2>1, <2>2 DEF Matched, AllBefore, FoundAt
    <2> QED BY <2>1, <2>2, <2>4, <2>5 DEF Matched
  <1>2. CASE Statement
    <2>1. Inside /\ body' = body /\ Going /\ phase' = phase
      BY <1>2, StatementKeeps DEF Inside, Going
    <2>2. Unfailed(body)
      BY <1>2, <2>1, Elsewhere DEF Unfailed
    <2>3. BlocksMatch /\ AllBefore(body, at) /\ at \in DOMAIN Code
      BY <1>2, <2>1, <2>2, StatementKeeps, AtIs DEF Matched
    <2>4. ~Unsuccessful
      <3> SUFFICES ASSUME Unsuccessful PROVE FALSE
        OBVIOUS
      <3>1. <<body, at>> \in errors'
        BY <2>1 DEF Unsuccessful, Inside
      <3> QED BY <2>1, <3>1 DEF Unfailed
    <2>5. PICK found : Succeeds(found)
      BY <1>2, <2>1, <2>3, <2>4, StatementFits
    <2>6. FoundAt(body, at) = {}
      BY <2>1, NothingAtYet
    <2>7. BlocksMatch'
      BY <1>0, <2>1, <2>3, <2>5, <2>6, BlocksNext
    <2>8. PICK b, i : b = body /\ i = at
      OBVIOUS
    <2>9. at' = i + 1 /\ Code' = Code /\ i \in Nat \ {0} /\ Resolved(found)
          /\ i + 1 \in 1..(Len(Code) + 1) /\ body' = b
      BY <1>0, <2>1, <2>3, <2>5, <2>8, CodeIs DEF Succeeds, Code
    <2>10. AllBefore(b, i + 1)'
      <3> SUFFICES ASSUME NEW j \in 1..((i + 1) - 1), NamesOne(program.code[b][j])
                   PROVE  FoundAt(b, j)' /= {}
        BY <1>0 DEF AllBefore
      <3>1. CASE j = i
        <4>1. FoundAt(b, j) = {}
          BY <2>6, <2>8, <3>1
        <4>2. FoundAt(b, j)' = found
          BY <2>8, <2>9, <3>1, <4>1, FoundNow
        <4>3. program.code[b][j] = Stmt
          BY <2>8, <3>1 DEF Stmt, Code
        <4> QED BY <2>5, <4>2, <4>3 DEF Succeeds
      <3>2. CASE j /= i
        <4>1. FoundAt(b, j)' = FoundAt(b, j)
          BY <2>8, <2>9, <3>2, FoundNext
        <4>2. j \in 1..(i - 1)
          BY <2>9, <3>2
        <4> QED BY <2>3, <2>8, <4>1, <4>2 DEF AllBefore
      <3> QED BY <3>1, <3>2
    <2>11. AllBefore(body, at)'
      BY <2>9, <2>10 DEF AllBefore
    <2> QED BY <2>7, <2>9, <2>11
  <1>3. CASE EnterBody
    <2>1. body' \in Bodies /\ at' = 1 /\ blocks' = <<Block(Parameters(body'))>>
      BY <1>3, EnteredWaited
    <2>2. PICK b : b = body' /\ b \in Bodies
      BY <2>1
    <2>3. PICK code : code = program.code[b] /\ code = Code' /\ Len(code) \in Nat
      <3>1. program.code[b] \in Seq(Range(program.code[b]))
        BY <2>2 DEF ScopesBuilt, Parsed, Bodies
      <3> QED BY <1>0, <2>2, <3>1 DEF Code
    <2>4. Len(blocks') = 1 + Level(code, 1, 0) /\ Len(blocks') = 1
      <3>1. Level(code, 1, 0) = 0
        BY LevelOfNone
      <3> QED BY <2>1, <3>1
    <2>5. blocks'[1].objects = Parameters(b) /\ blocks'[1].failed = FALSE
      BY <2>1, <2>2 DEF Block
    <2>6. BlockObjects(b, 1, 1)' = Parameters(b)
      <3>1. OpenAt(b, 1, 1)' = {} /\ Parameters(b)' = Parameters(b)
        BY <1>0 DEF OpenAt, Parameters
      <3> QED BY <3>1 DEF BlockObjects
    <2>7. BlocksMatch'
      <3>1. \A d \in 1..1 : d = 1
        OBVIOUS
      <3> QED BY <2>1, <2>2, <2>3, <2>4, <2>5, <2>6, <3>1 DEF BlocksMatch
    <2>8. AllBefore(body, at)'
      BY <2>1 DEF AllBefore
    <2> QED BY <2>1, <2>3, <2>7, <2>8
  <1>4. CASE WalkStep /\ ~EnterBody
    BY <1>4, WalkStepIs
  <1>5. CASE ~Walking'
    BY <1>5 DEF Walking, Going
  <1> QED BY <1>1, <1>2, <1>3, <1>4, <1>5, StepIs

-----------------------------------------------------------------------------
(* What was right stays right, and what failed truly stays a failure.      *)

LEMMA RightStays ==
  ASSUME program' = program, NEW b, NEW i \in Nat, NEW found, RightFound(b, i, found),
         \A j \in 1..(i - 1) : FoundAt(b, j)' = FoundAt(b, j)
  PROVE  RightFound(b, i, found)'
PROOF
  <1>1. Meaning(b, i)' = Meaning(b, i) /\ \A o : FieldMeant(b, i, o)' = FieldMeant(b, i, o)
    BY MeaningStays
  <1> QED BY <1>1 DEF RightFound

LEMMA FailureStays ==
  ASSUME program' = program, NEW b, NEW i \in Nat, TrueFailure(b, i),
         \A j \in 1..(i - 1) : FoundAt(b, j)' = FoundAt(b, j)
  PROVE  TrueFailure(b, i)'
PROOF
  <1>1. Meaning(b, i)' = Meaning(b, i) /\ \A o : FieldMeant(b, i, o)' = FieldMeant(b, i, o)
    BY MeaningStays
  <1>2. Wrong(b, i)' = Wrong(b, i)
    BY <1>1 DEF Wrong, HasFields, Usable
  <1>3. Late(b, i)' = Late(b, i)
    BY <1>1 DEF Late, ModuleScope, Structs
  <1> QED BY <1>2, <1>3 DEF TrueFailure

\* A body is a function of the module or a method of a struct.
LEMMA BodyIs ==
  ASSUME ScopesBuilt, NEW b \in Bodies
  PROVE  /\ b = <<Self, b[2], b[3]>> /\ b /= NoName
         /\ \/ b[2] = NoName /\ b[3] \in program.functions
            \/ b[2] /= NoName /\ b[2] \in Structs /\ b[3] \in program.structs[b[2]].methods
         /\ \A i \in DOMAIN program.code[b] : i \in Nat \ {0} /\ i =< Len(program.code[b])
PROOF
  <1>1. b \in BodiesOf(program) /\ NoName \notin Structs /\ b /= NoName
    BY DEF ScopesBuilt, Parsed, Bodies, Structs
  <1>2. program.code[b] \in Seq(Range(program.code[b]))
    BY <1>1 DEF ScopesBuilt, Parsed
  <1>3. \A i \in DOMAIN program.code[b] : i \in Nat \ {0} /\ i =< Len(program.code[b])
    BY <1>2
  <1>4. CASE \E f \in program.functions : b = <<Self, NoName, f>>
    BY <1>1, <1>3, <1>4
  <1>5. CASE \E S \in Structs : \E f \in program.structs[S].methods : b = <<Self, S, f>>
    BY <1>1, <1>3, <1>5
  <1> QED BY <1>1, <1>4, <1>5 DEF BodiesOf, Structs

\* Nothing is known yet of the statements after the one the body is at.
LEMMA NothingLater ==
  ASSUME Behind, Going, NEW i \in Nat, at \in Nat, i >= at
  PROVE  FoundAt(body, i) = {}
PROOF
  <1>1. \A r \in resolved : ~(r[1] = body /\ r[2] = i)
    BY DEF Behind
  <1> QED BY <1>1 DEF FoundAt

LEMMA RightKept ==
  ASSUME ScopesBuilt, AllScoped, InBlocks, Walk, Entered, Behind, Matched, RightSoFar, [GenNext]_allVars
  PROVE  RightSoFar'
PROOF
  <1>0. program' = program /\ Bodies' = Bodies
    BY ProgramStays DEF Bodies
  <1> SUFFICES ASSUME NEW b \in Bodies, Unfailed(b)', NEW i \in DOMAIN program.code[b]
               PROVE  RightAt(b, i)'
    BY <1>0 DEF RightSoFar
  <1>1. i \in Nat \ {0}
    BY BodyIs
  <1>2. ASSUME \A j : FoundAt(b, j)' = FoundAt(b, j), Unfailed(b) PROVE RightAt(b, i)'
    <2>1. PICK found : found = FoundAt(b, i)
      OBVIOUS
    <2>2. RightFound(b, i, found)
      BY <1>2, <2>1 DEF RightSoFar, RightAt
    <2>3. RightFound(b, i, found)'
      BY <1>0, <1>1, <1>2, <2>2, RightStays
    <2>4. FoundAt(b, i)' = found
      BY <1>2, <2>1
    <2> QED BY <2>3, <2>4 DEF RightAt, RightFound
  <1>3. CASE UNCHANGED <<resolved, errors>>
    BY <1>2, <1>3 DEF FoundAt, Unfailed
  <1>4. CASE Statement
    <2>1. Inside /\ Going /\ at \in Nat /\ body' = body
      BY <1>4, StatementKeeps, InsideIs DEF Inside, Going
    <2>2. Unfailed(b)
      BY <1>4, <2>1, Elsewhere, UnfailedBefore
    <2>3. \A j : b /= body \/ j /= at => FoundAt(b, j)' = FoundAt(b, j)
      BY <1>4, <2>1, Elsewhere
    <2>4. CASE b /= body
      BY <1>2, <2>2, <2>3, <2>4
    <2>5. CASE b = body
      <3>1. BlocksMatch
        BY <2>1, <2>2, <2>5 DEF Matched
      <3>2. CASE Unsuccessful
        <4>1. resolved' = resolved
          BY <3>2 DEF Unsuccessful
        <4> QED BY <1>2, <2>2, <4>1 DEF FoundAt
      <3>3. ASSUME NEW found, Succeeds(found) PROVE RightAt(b, i)'
        <4>1. PICK k \in Nat : k = at
          BY <2>1
        <4>2. CASE i = k
          <5>1. FoundAt(b, i) = {} /\ Resolved(found) /\ RightFound(b, i, found)
            BY <2>1, <2>5, <3>3, <4>1, <4>2, NothingAtYet DEF Succeeds
          <5>2. FoundAt(b, i)' = found
            BY <2>5, <4>1, <4>2, <5>1, FoundNow
          <5>3. \A j \in 1..(i - 1) : FoundAt(b, j)' = FoundAt(b, j)
            BY <2>3, <4>1, <4>2
          <5>4. RightFound(b, i, found)'
            BY <1>0, <1>1, <5>1, <5>3, RightStays
          <5> QED BY <5>2, <5>4 DEF RightAt, RightFound
        <4>3. CASE i > k
          <5>1. FoundAt(b, i) = {}
            BY <1>1, <2>1, <2>5, <4>1, <4>3, NothingLater
          <5>2. FoundAt(b, i)' = {}
            BY <1>1, <2>3, <4>1, <4>3, <5>1
          <5> QED BY <5>2 DEF RightAt, RightFound
        <4>4. CASE i < k
          <5>1. PICK f : f = FoundAt(b, i)
            OBVIOUS
          <5>2. RightFound(b, i, f)
            BY <2>2, <5>1 DEF RightSoFar, RightAt
          <5>3. FoundAt(b, i)' = f /\ \A j \in 1..(i - 1) : FoundAt(b, j)' = FoundAt(b, j)
            BY <1>1, <2>3, <4>1, <4>4, <5>1
          <5>4. RightFound(b, i, f)'
            BY <1>0, <1>1, <5>2, <5>3, RightStays
          <5> QED BY <5>3, <5>4 DEF RightAt, RightFound
        <4> QED BY <1>1, <4>1, <4>2, <4>3, <4>4
      <3> QED BY <1>4, <2>1, <3>1, <3>2, <3>3, StatementFits
    <2> QED BY <2>4, <2>5
  <1>5. CASE WalkStep
    BY <1>3, <1>5, WalkStepIs
  <1>6. CASE UNCHANGED allVars
    BY <1>3, <1>6 DEF allVars, vars
  <1> QED BY <1>3, <1>4, <1>5, <1>6, StepIs

\* The first of the failures stays the first.
LEMMA FirstStays ==
  ASSUME NEW S, S \subseteq Nat, NEW n \in Nat, \A s \in S : s < n
  PROVE  /\ S /= {} => Min(S \cup {n}) = Min(S)
         /\ S = {} => Min(S \cup {n}) = n
PROOF
  <1>1. PICK T : T = S \cup {n}
    OBVIOUS
  <1>2. T \subseteq Nat /\ T /= {}
    BY <1>1
  <1>3. Min(T) \in T /\ \A y \in T : Min(T) =< y
    BY <1>2, MinIsIn
  <1>4. CASE S = {}
    BY <1>1, <1>3, <1>4
  <1>5. CASE S /= {}
    <2>1. Min(S) \in S /\ \A y \in S : Min(S) =< y
      BY <1>5, MinIsIn
    <2>2. PICK m \in Nat, k \in Nat : m = Min(T) /\ k = Min(S)
      BY <1>2, <1>3, <2>1
    <2>3. k \in T /\ k < n
      BY <1>1, <2>1, <2>2
    <2>4. m =< k /\ m \in S
      BY <1>1, <1>3, <2>2, <2>3
    <2>5. k =< m
      BY <2>1, <2>2, <2>4
    <2>6. m = k
      BY <2>4, <2>5
    <2> QED BY <1>1, <1>5, <2>2, <2>6
  <1> QED BY <1>4, <1>5

ErrorsIn(b) == {e[2] : e \in {q \in errors : q[1] = b}}

LEMMA FailuresAre ==
  ASSUME NEW b
  PROVE  /\ phase /= "aborted" => Failures(b) = ErrorsIn(b)
         /\ b /= body => Failures(b) = ErrorsIn(b)
         /\ phase = "aborted" /\ b = body => Failures(b) = ErrorsIn(b) \cup {at}
         /\ Unfailed(b) <=> ErrorsIn(b) = {}
PROOF
  <1>1. Unfailed(b) <=> ErrorsIn(b) = {}
    BY DEF Unfailed, ErrorsIn
  <1> QED BY <1>1 DEF Failures, ErrorsIn

\* A statement adds at most itself to the failures of its body.
LEMMA FailuresNext ==
  ASSUME Inside, Statement, Behind, NEW b, NEW i \in Nat, i = at
  PROVE  /\ ErrorsIn(b) \subseteq Nat
         /\ Failures(b) = ErrorsIn(b)
         /\ b /= body => Failures(b)' = ErrorsIn(b)
         /\ b = body => \A s \in ErrorsIn(b) : s < i
         /\ b = body /\ Unsuccessful => Failures(b)' = ErrorsIn(b) \cup {i}
         /\ UNCHANGED <<errors, phase>> => Failures(b)' = ErrorsIn(b)
PROOF
  <1>1. body' = body /\ Going /\ phase /= "aborted"
    BY StatementKeeps DEF Inside, Going
  <1>2. ErrorsIn(b) \subseteq Nat /\ (b = body => \A s \in ErrorsIn(b) : s < i)
    BY <1>1 DEF Behind, ErrorsIn
  <1>3. Failures(b) = ErrorsIn(b)
    BY <1>1, FailuresAre
  <1>4. ASSUME b /= body PROVE Failures(b)' = ErrorsIn(b)
    <2>1. {q \in errors' : q[1] = b} = {q \in errors : q[1] = b}
      BY <1>4, Elsewhere
    <2> QED BY <1>1, <1>4, <2>1 DEF Failures, ErrorsIn
  <1>5. ASSUME b = body, Unsuccessful PROVE Failures(b)' = ErrorsIn(b) \cup {i}
    <2>1. CASE errors' = errors \cup {<<body, at>>} /\ phase' = phase
      <3>1. {q \in errors' : q[1] = b} = {q \in errors : q[1] = b} \cup {<<b, i>>}
        BY <1>5, <2>1
      <3>2. PICK A : A = {q \in errors : q[1] = b}
        OBVIOUS
      <3>3. {e[2] : e \in A \cup {<<b, i>>}} = {e[2] : e \in A} \cup {i}
        <4>1. {e[2] : e \in A \cup {<<b, i>>}} = {e[2] : e \in A} \cup {e[2] : e \in {<<b, i>>}}
          OBVIOUS
        <4>2. {e[2] : e \in {<<b, i>>}} = {i}
          OBVIOUS
        <4> QED BY <4>1, <4>2
      <3>4. Failures(b)' = {e[2] : e \in {q \in errors' : q[1] = b}}
        BY <1>1, <2>1 DEF Failures
      <3>5. ErrorsIn(b) = {e[2] : e \in A}
        BY <3>2 DEF ErrorsIn
      <3> QED BY <3>1, <3>2, <3>3, <3>4, <3>5
    <2>2. CASE errors' = errors /\ phase' = "aborted" /\ at' = at
      BY <1>1, <1>5, <2>2 DEF Failures, ErrorsIn
    <2> QED BY <1>5, <2>1, <2>2 DEF Unsuccessful
  <1>6. UNCHANGED <<errors, phase>> => Failures(b)' = ErrorsIn(b)
    BY <1>1 DEF Failures, ErrorsIn
  <1> QED BY <1>2, <1>3, <1>4, <1>5, <1>6

LEMMA FailsKept ==
  ASSUME ScopesBuilt, AllScoped, InBlocks, Walk, Entered, Behind, Matched, FailsRightly, [GenNext]_allVars
  PROVE  FailsRightly'
PROOF
  <1>0. program' = program /\ Bodies' = Bodies
    BY ProgramStays DEF Bodies
  <1> SUFFICES ASSUME NEW b \in Bodies, Failures(b)' /= {}
               PROVE  TrueFailure(b, Min(Failures(b)))'
    BY <1>0 DEF FailsRightly
  <1>1. PICK F : F = Failures(b)'
    OBVIOUS
  <1>2. ASSUME NEW i \in Nat, Min(F) = i, TrueFailure(b, i),
               \A j \in 1..(i - 1) : FoundAt(b, j)' = FoundAt(b, j)
        PROVE  TrueFailure(b, Min(Failures(b)))'
    <2>1. TrueFailure(b, i)'
      BY <1>0, <1>2, FailureStays
    <2>2. Min(Failures(b))' = i
      BY <1>1, <1>2 DEF Min
    <2> QED BY <2>1, <2>2 DEF TrueFailure, Wrong, Late
  <1>3. CASE Statement
    <2>1. Inside
      BY <1>3, StatementKeeps DEF Inside
    <2>2. PICK k \in Nat : k = at
      BY <2>1, InsideIs
    <2>3. PICK E : /\ E = ErrorsIn(b) /\ E \subseteq Nat /\ E = Failures(b)
                   /\ b /= body => F = E
                   /\ b = body => \A s \in E : s < k
                   /\ b = body /\ Unsuccessful => F = E \cup {k}
                   /\ UNCHANGED <<errors, phase>> => F = E
      BY <1>1, <1>3, <2>1, <2>2, FailuresNext
    <2>4. \A j : b /= body \/ j /= k => FoundAt(b, j)' = FoundAt(b, j)
      BY <1>3, <2>1, <2>2, Elsewhere
    <2>5. ASSUME E /= {} PROVE TrueFailure(b, Min(Failures(b)))'
      <3>1. PICK m \in Nat : m = Min(E) /\ m \in E
        BY <2>3, <2>5, MinIsIn
      <3>2. TrueFailure(b, m)
        BY <2>3, <2>5, <3>1 DEF FailsRightly
      <3>3. Min(F) = m
        <4>1. b = body => Min(E \cup {k}) = m
          BY <2>3, <2>5, <3>1, FirstStays
        <4>2. F = E \/ (b = body /\ F = E \cup {k})
          BY <1>3, <2>1, <2>3, StatementEffect
        <4> QED BY <3>1, <4>1, <4>2
      <3>4. b = body => m < k
        BY <2>3, <3>1
      <3>5. \A j \in 1..(m - 1) : FoundAt(b, j)' = FoundAt(b, j)
        BY <2>4, <3>4
      <3> QED BY <1>2, <3>1, <3>2, <3>3, <3>5
    <2>6. ASSUME E = {} PROVE TrueFailure(b, Min(Failures(b)))'
      <3>1. b = body /\ ~UNCHANGED <<errors, phase>>
        BY <1>1, <2>3, <2>6
      <3>2. Going /\ Unfailed(body)
        BY <2>1, <2>3, <2>6, <3>1, FailuresAre DEF Inside, Going
      <3>3. BlocksMatch
        BY <3>2 DEF Matched
      <3>4. \A found : ~Succeeds(found)
        BY <3>1 DEF Succeeds
      <3>5. Unsuccessful /\ TrueFailure(body, at)
        BY <1>3, <2>1, <3>3, <3>4, StatementFits
      <3>6. TrueFailure(b, k)
        BY <2>2, <3>1, <3>5
      <3>7. Min(F) = k
        <4>1. F = E \cup {k}
          BY <2>3, <3>1, <3>5
        <4>2. Min(E \cup {k}) = k
          BY <2>3, <2>6, <3>1, FirstStays
        <4> QED BY <4>1, <4>2
      <3>8. \A j \in 1..(k - 1) : FoundAt(b, j)' = FoundAt(b, j)
        BY <2>4
      <3> QED BY <1>2, <3>6, <3>7, <3>8
    <2> QED BY <2>5, <2>6
  <1>4. ASSUME Failures(b)' = Failures(b), resolved' = resolved PROVE TrueFailure(b, Min(Failures(b)))'
    <2>1. \A j : FoundAt(b, j)' = FoundAt(b, j)
      BY <1>4 DEF FoundAt
    <2>2. F = Failures(b) /\ F /= {}
      BY <1>1, <1>4
    <2>3. Meaning(b, Min(F))' = Meaning(b, Min(F))
      <3>1. \A i, x : Lexical(b, i, x)' = Lexical(b, i, x)
        <4>1. \A j : TypeOfLocal(b, j)' = TypeOfLocal(b, j)
          BY <1>0, <2>1 DEF TypeOfLocal
        <4> QED BY <1>0, <4>1, TextMeansTheSame DEF Lexical, Object
      <3>2. /\ \A s : Owner(s)' = Owner(s)
            /\ \A S : Members(S)' = Members(S)
        BY <1>0, TextMeansTheSame
      <3> QED BY <1>0, <3>1, <3>2 DEF Meaning
    <2>4. PICK i : i = Min(F)
      OBVIOUS
    <2>5. TrueFailure(b, i)
      BY <2>2, <2>4 DEF FailsRightly
    <2>6. Meaning(b, i)' = Meaning(b, i) /\ \A o : FieldMeant(b, i, o)' = FieldMeant(b, i, o)
      <3>1. \A s : Owner(s)' = Owner(s)
        BY <1>0, TextMeansTheSame
      <3> QED BY <1>0, <2>3, <2>4, <3>1 DEF FieldMeant
    <2>7. Min(Failures(b))' = i
      BY <1>1, <2>4 DEF Min
    <2>8. TrueFailure(b, i)'
      BY <1>0, <2>5, <2>6 DEF TrueFailure, Wrong, Late, HasFields, Usable, ModuleScope, Structs
    <2> QED BY <2>7, <2>8 DEF TrueFailure, Wrong, Late
  <1>5. CASE UNCHANGED allVars
    BY <1>4, <1>5 DEF allVars, vars, Failures
  <1>6. CASE UNCHANGED <<resolved, errors>> /\ phase /= "aborted" /\ phase' /= "aborted"
    BY <1>4, <1>6 DEF Failures
  <1>7. CASE WalkStep
    BY <1>6, <1>7, WalkStepIs
  <1> QED BY <1>3, <1>5, <1>6, <1>7, StepIs

-----------------------------------------------------------------------------
(* A module that is accepted has been walked to its end.                   *)

Clean == phase = "accepted" => errors = {}

\* As long as there are no errors, only the body that is entered stops to wait.
LEMMA WaitingStays ==
  ASSUME ScopesBuilt, Walk, Beginning, WalkStep, errors = {}, Walking', NEW b \in Bodies, Waiting(b), ~Waiting(b)'
  PROVE  EnterBody /\ b = body'
PROOF
  <1>0. PICK S, f : /\ b = <<Self, S, f>> /\ b[2] = S /\ b[3] = f
                    /\ \/ S = NoName /\ f \in program.functions
                       \/ S /= NoName /\ S \in Structs /\ f \in program.structs[S].methods
    BY BodyIs
  <1>1. CASE ValidateVariables
    <2>1. phase' = "structs" /\ todo' = Structs
      BY <1>1 DEF ValidateVariables, Walking, Beginning
    <2> QED BY <1>0, <2>1 DEF Waiting
  <1>2. CASE EnterStruct
    <2>1. PICK T \in todo : inside' = T /\ todo' = todo \ {T} /\ left' = program.structs[T].methods
      BY <1>2 DEF EnterStruct, MethodsOf
    <2>2. phase = "structs" /\ phase' = phase /\ inside = NoName /\ left = {}
      BY <1>2 DEF EnterStruct, Walk
    <2> QED BY <1>0, <2>1, <2>2 DEF Waiting
  <1>3. CASE LeaveStruct
    <2>1. phase = "structs" /\ phase' = phase /\ left = {} /\ todo' = todo
      BY <1>3 DEF LeaveStruct
    <2> QED BY <2>1 DEF Waiting
  <1>4. CASE EnterBody
    <2>1. PICK g \in left : left' = left \ {g} /\ body' = <<Self, inside, g>>
      BY <1>4 DEF EnterBody
    <2>2. phase \in {"structs", "functions"} /\ UNCHANGED <<phase, inside, todo>>
      BY <1>4 DEF EnterBody
    <2>3. S = inside /\ f = g
      BY <1>0, <2>1, <2>2 DEF Waiting, Walk
    <2> QED BY <1>0, <1>4, <2>1, <2>3
  <1>5. CASE LeaveBody
    BY <1>5 DEF LeaveBody, Waiting
  <1>6. CASE Predeclare
    <2>1. phase = "structs" /\ inside = NoName /\ todo = {} /\ left = {}
      BY <1>6 DEF Predeclare, Walk
    <2>2. phase' = "functions" /\ left' = program.functions
      BY <1>6 DEF Predeclare
    <2> QED BY <1>0, <2>1, <2>2 DEF Waiting
  <1>7. CASE Finish
    BY <1>7 DEF Finish, Verdict, Walking
  <1> QED BY <1>1, <1>2, <1>3, <1>4, <1>5, <1>6, <1>7 DEF WalkStep

LEMMA FinishedKept ==
  ASSUME ScopesBuilt, AllScoped, InBlocks, Walk, Beginning, Matched, Finished, Clean, [GenNext]_allVars
  PROVE  Finished' /\ Clean'
PROOF
  <1>0. program' = program /\ Bodies' = Bodies
    BY ProgramStays DEF Bodies
  <1>1. CASE Statement
    <2>1. Inside /\ body' = body /\ body /= NoName
      BY <1>1, StatementKeeps DEF Inside
    <2>2. errors \subseteq errors' /\ \A b, i : b /= body => FoundAt(b, i)' = FoundAt(b, i)
      BY <1>1, <2>1, Elsewhere
    <2>3. UNCHANGED <<inside, todo, left>> /\ phase' \in {phase, "aborted"} /\ phase \in {"structs", "functions"}
      BY <1>1, StatementKeeps
    <2>4. ASSUME errors' = {}, Walking', NEW b \in Bodies, ~Waiting(b)', b /= body PROVE AllFound(b)'
      <3>1. phase' = phase
        BY <2>3, <2>4 DEF Walking
      <3>2. ~Waiting(b)
        BY <2>3, <2>4, <3>1 DEF Waiting
      <3>3. AllFound(b)
        BY <2>2, <2>3, <2>4, <3>2 DEF Finished, Walking
      <3> QED BY <1>0, <2>2, <2>4, <3>3 DEF AllFound
    <2> QED BY <1>0, <2>1, <2>3, <2>4 DEF Finished, Clean
  <1>2. CASE WalkStep
    <2>1. UNCHANGED <<resolved, errors>>
      BY <1>2, WalkStepIs
    <2>2. \A b : AllFound(b)' = AllFound(b)
      BY <1>0, <2>1 DEF AllFound, FoundAt
    <2>3. Walking
      BY <1>2 DEF WalkStep, ValidateVariables, EnterStruct, LeaveStruct, EnterBody, LeaveBody, Predeclare, Finish,
                  Walking
    <2>4. ASSUME errors = {}, NEW b \in Bodies, ~Waiting(b), body /= NoName, body = b, LeaveBody PROVE AllFound(b)
      <3>1. phase \in {"structs", "functions"} /\ at > Len(program.code[b])
        BY <2>4 DEF LeaveBody, Code
      <3>2. AllBefore(b, at) /\ at \in 1..(Len(program.code[b]) + 1)
        BY <2>4, <3>1 DEF Matched, Going, Unfailed, Code
      <3>3. \A i \in DOMAIN program.code[b] : i \in Nat \ {0} /\ i =< Len(program.code[b])
        BY BodyIs
      <3>4. \A i \in DOMAIN program.code[b] : i \in 1..(at - 1)
        BY <3>1, <3>2, <3>3
      <3> QED BY <3>2, <3>4 DEF AllFound, AllBefore
    <2>5. ASSUME errors = {}, Walking', NEW b \in Bodies, ~Waiting(b)', body' = NoName \/ b /= body' PROVE AllFound(b)
      <3>1. ~Waiting(b)
        <4>1. ASSUME Waiting(b) PROVE FALSE
          <5>1. EnterBody /\ b = body'
            BY <1>2, <2>5, <4>1, WaitingStays
          <5>2. body' = NoName
            BY <2>5, <5>1
          <5>3. body' \in Bodies /\ body' /= NoName
            BY <5>1, EnteredWaited, BodyIs
          <5> QED BY <5>2, <5>3
        <4> QED BY <4>1
      <3>2. CASE body = NoName \/ b /= body
        BY <2>3, <2>5, <3>1, <3>2 DEF Finished
      <3>3. CASE body /= NoName /\ b = body
        <4>1. LeaveBody
          <5>1. body' /= body
            BY <2>5, <3>3
          <5> QED BY <1>2, <3>3, <5>1 DEF WalkStep, ValidateVariables, EnterStruct, LeaveStruct, EnterBody,
                                          Predeclare, Finish
        <4> QED BY <2>4, <2>5, <3>1, <3>3, <4>1
      <3> QED BY <3>2, <3>3
    <2>6. ASSUME errors = {}, phase' = "accepted", NEW b \in Bodies PROVE AllFound(b)
      <3>1. Finish
        BY <1>2, <2>6 DEF WalkStep, ValidateVariables, EnterStruct, LeaveStruct, EnterBody, LeaveBody, Predeclare
      <3>2. phase = "functions" /\ left = {} /\ body = NoName
        BY <3>1 DEF Finish
      <3>3. ~Waiting(b)
        BY <3>2 DEF Waiting
      <3> QED BY <2>3, <2>6, <3>2, <3>3 DEF Finished
    <2>7. Clean'
      <3>1. phase' = "accepted" => Finish
        BY <1>2, <2>3 DEF WalkStep, ValidateVariables, EnterStruct, LeaveStruct, EnterBody, LeaveBody, Predeclare
      <3> QED BY <2>1, <3>1 DEF Clean, Finish, Verdict
    <2> QED BY <1>0, <2>1, <2>2, <2>5, <2>6, <2>7 DEF Finished
  <1>3. CASE UNCHANGED allVars
    <2>1. UNCHANGED <<resolved, errors, phase, body, inside, todo, left>>
      BY <1>3 DEF allVars, vars
    <2>2. \A b : AllFound(b)' = AllFound(b) /\ Waiting(b)' = Waiting(b)
      BY <1>0, <2>1 DEF AllFound, FoundAt, Waiting
    <2> QED BY <1>0, <2>1, <2>2 DEF Finished, Clean, Walking
  <1>4. CASE ~Walking' /\ phase' /= "accepted"
    BY <1>4 DEF Finished, Clean
  <1> QED BY <1>1, <1>2, <1>3, <1>4, StepIs

-----------------------------------------------------------------------------
(* The theorems of resolution.                                             *)

Resolving ==
  /\ Building /\ InBlocks
  /\ Beginning /\ Entered
  /\ Untouched /\ Behind /\ Matched
  /\ RightSoFar /\ FailsRightly
  /\ Finished /\ Clean

LEMMA ResolvingInit ==
  ASSUME NEW programs, \A p \in programs : Parsed(p),
         NEW orders, \A q \in orders : q \in Seq(Modules) /\ q /= <<>>,
         GenInit(programs, orders)
  PROVE  Resolving
PROOF
  <1>1. /\ body = NoName /\ resolved = {} /\ errors = {} /\ phase = "variables" /\ todo = Structs
    BY DEF GenInit, NamesInit
  <1>2. \A b, i : FoundAt(b, i) = {}
    BY <1>1 DEF FoundAt
  <1>3. \A b : Failures(b) = {}
    BY <1>1 DEF Failures
  <1>4. Building /\ InBlocks
    BY <1>1, BuildingInit DEF InBlocks
  <1>5. Beginning /\ Entered /\ Untouched /\ Behind /\ Matched
    BY <1>1 DEF Beginning, Entered, Untouched, Behind, Matched, Going, Unfailed
  <1>6. RightSoFar /\ FailsRightly
    BY <1>2, <1>3 DEF RightSoFar, RightAt, RightFound, FailsRightly
  <1>7. Finished /\ Clean
    BY <1>1 DEF Finished, Clean, Waiting
  <1> QED BY <1>4, <1>5, <1>6, <1>7 DEF Resolving

LEMMA ResolvingKept ==
  ASSUME Resolving, [GenNext]_allVars
  PROVE  Resolving'
PROOF
  <1>1. ScopesBuilt /\ Walk /\ AllScoped /\ InBlocks /\ Building
    BY ScopesAreWell DEF Resolving, Building
  <1>2. Beginning /\ Entered /\ Untouched /\ Behind /\ Matched /\ RightSoFar /\ FailsRightly /\ Finished /\ Clean
    BY DEF Resolving
  <1>3. Building' /\ InBlocks'
    BY <1>1, BuildingKept, BlocksKept
  <1>4. Beginning' /\ Entered'
    BY <1>1, <1>2, EnteredKept
  <1>5. Untouched' /\ Behind' /\ Matched'
    BY <1>1, <1>2, UntouchedKept, BehindKept, MatchedKept
  <1>6. RightSoFar' /\ FailsRightly'
    BY <1>1, <1>2, RightKept, FailsKept
  <1>7. Finished' /\ Clean'
    BY <1>1, <1>2, FinishedKept
  <1> QED BY <1>3, <1>4, <1>5, <1>6, <1>7 DEF Resolving

LEMMA ResolvingIs ==
  ASSUME Resolving
  PROVE  ResolvesLexically /\ AcceptedIsResolved /\ FailuresAreTrue
PROOF
  <1>1. ASSUME NEW b \in Bodies, Failures(b) = {}, NEW i \in DOMAIN program.code[b], FoundAt(b, i) /= {}
        PROVE  \E o \in Meaning(b, i) :
                 /\ o \in FoundAt(b, i)
                 /\ FoundAt(b, i) \subseteq
                      {o} \cup (IF program.code[b][i].op = "access" THEN FieldMeant(b, i, o) ELSE {})
    <2>1. Unfailed(b)
      BY <1>1 DEF Failures, Unfailed
    <2>2. RightAt(b, i)
      BY <1>1, <2>1 DEF Resolving, RightSoFar
    <2> QED BY <1>1, <2>2 DEF RightAt, RightFound
  <1>2. ASSUME phase = "accepted", NEW p \in Places,
               program.code[p[1]][p[2]].op \in {"use", "access", "init", "if"}
        PROVE  FoundAt(p[1], p[2]) /= {}
    <2>1. PICK b \in Bodies : p \in {<<b, i>> : i \in DOMAIN program.code[b]}
      BY DEF Places
    <2>2. PICK i \in DOMAIN program.code[b] : p = <<b, i>>
      BY <2>1
    <2>3. AllFound(b)
      BY <1>2 DEF Resolving, Finished, Clean
    <2> QED BY <1>2, <2>2, <2>3 DEF AllFound, NamesOne
  <1>3. FailuresAreTrue
    BY DEF Resolving, FailsRightly, FailuresAreTrue, TrueFailure
  <1>4. ResolvesLexically
    BY <1>1 DEF ResolvesLexically
  <1>5. AcceptedIsResolved
    BY <1>2 DEF AcceptedIsResolved
  <1> QED BY <1>3, <1>4, <1>5

(* In a body without errors every name stands for what the rules of the    *)
(* language say, for every module and in whatever order its hash tables    *)
(* give the structs, methods and functions: findObjVisibleInCurrentScope() *)
(* finds in the blocks that are entered and left the last declaration      *)
(* before the name in a block that is still open in the text, else a       *)
(* parameter, a member of the struct or an object of the module.           *)
THEOREM NamesResolveLexically ==
  ASSUME NEW programs, \A p \in programs : Parsed(p),
         NEW orders, \A q \in orders : q \in Seq(Modules) /\ q /= <<>>
  PROVE  GenInit(programs, orders) /\ [][GenNext]_allVars => []ResolvesLexically
PROOF
  <1>1. GenInit(programs, orders) => Resolving
    BY ResolvingInit
  <1>2. Resolving /\ [GenNext]_allVars => Resolving'
    BY ResolvingKept
  <1>3. Resolving => ResolvesLexically
    BY ResolvingIs
  <1> QED BY <1>1, <1>2, <1>3, PTL

(* A module that the validator accepts has no name left unresolved: every  *)
(* function and every method has been walked to its end, no block of them  *)
(* was skipped and no statement passed over.                               *)
THEOREM AcceptedIsAllResolved ==
  ASSUME NEW programs, \A p \in programs : Parsed(p),
         NEW orders, \A q \in orders : q \in Seq(Modules) /\ q /= <<>>
  PROVE  GenInit(programs, orders) /\ [][GenNext]_allVars => []AcceptedIsResolved
PROOF
  <1>1. GenInit(programs, orders) => Resolving
    BY ResolvingInit
  <1>2. Resolving /\ [GenNext]_allVars => Resolving'
    BY ResolvingKept
  <1>3. Resolving => AcceptedIsResolved
    BY ResolvingIs
  <1> QED BY <1>1, <1>2, <1>3, PTL

(* The first thing that fails in a body is a name that nothing stands for, *)
(* or a method that names a function of the module or another struct,      *)
(* which are only declared in the checked scope after it.                  *)
THEOREM FirstFailureIsTrue ==
  ASSUME NEW programs, \A p \in programs : Parsed(p),
         NEW orders, \A q \in orders : q \in Seq(Modules) /\ q /= <<>>
  PROVE  GenInit(programs, orders) /\ [][GenNext]_allVars => []FailuresAreTrue
PROOF
  <1>1. GenInit(programs, orders) => Resolving
    BY ResolvingInit
  <1>2. Resolving /\ [GenNext]_allVars => Resolving'
    BY ResolvingKept
  <1>3. Resolving => FailuresAreTrue
    BY ResolvingIs
  <1> QED BY <1>1, <1>2, <1>3, PTL

-----------------------------------------------------------------------------
(* Sequences of words that are joined.                                     *)

NameWords == (UNION {Range(Words[x]) : x \in Identifiers}) \cup (UNION {Range(ModuleWords[m]) : m \in Modules})
WordSet == NameWords \cup KindWords
HasKind(w) == \E i \in DOMAIN w : w[i] \in KindWords

LEMMA WordsAre ==
  /\ \A x \in Identifiers : Words[x] \in Seq(WordSet)
  /\ \A m \in Modules : ModuleWords[m] \in Seq(WordSet)
  /\ \A x, y \in Identifiers : Words[x] = Words[y] => x = y
  /\ \A m, n \in Modules : ModuleWords[m] = ModuleWords[n] => m = n
PROOF
  <1>1. ASSUME NEW words, NEW x \in DOMAIN words, SplitsNames(words),
               \A y \in DOMAIN words : Range(words[y]) \subseteq NameWords
        PROVE  words[x] \in Seq(WordSet)
    <2>1. words[x] \in Seq(Range(words[x]))
      BY <1>1 DEF SplitsNames
    <2>2. Range(words[x]) \subseteq WordSet
      BY <1>1 DEF WordSet
    <2> QED BY <2>1, <2>2, SeqMonotonic
  <1>2. ASSUME NEW x \in Identifiers PROVE Words[x] \in Seq(WordSet)
    <2>1. \A y \in DOMAIN Words : Range(Words[y]) \subseteq NameWords
      <3> SUFFICES ASSUME NEW y \in DOMAIN Words, NEW w \in Range(Words[y]) PROVE w \in NameWords
        OBVIOUS
      <3>1. Range(Words[y]) \in {Range(Words[z]) : z \in Identifiers}
        BY DEF Identifiers
      <3> QED BY <3>1 DEF NameWords
    <2> QED BY <1>1, <2>1, WordsAssumption DEF Identifiers
  <1>3. ASSUME NEW m \in Modules PROVE ModuleWords[m] \in Seq(WordSet)
    <2>1. \A y \in DOMAIN ModuleWords : Range(ModuleWords[y]) \subseteq NameWords
      <3> SUFFICES ASSUME NEW y \in DOMAIN ModuleWords, NEW w \in Range(ModuleWords[y]) PROVE w \in NameWords
        OBVIOUS
      <3>0. y \in Modules
        <4>1. DOMAIN ModuleWords = Modules
          BY WordsAssumption
        <4> QED BY <4>1
      <3>1. Range(ModuleWords[y]) \in {Range(ModuleWords[z]) : z \in Modules}
        BY <3>0
      <3> QED BY <3>1 DEF NameWords
    <2> QED BY <1>1, <2>1, WordsAssumption
  <1> QED BY <1>2, <1>3, WordsAssumption DEF SplitsNames, Identifiers

\* s, the word k and t, joined.
Joined(s, k, t) == (s \o <<k>>) \o t

LEMMA KindsAreWords == KindWords \subseteq WordSet
  BY DEF WordSet

IsJoined(c, s, k, t) ==
  /\ c \in Seq(WordSet)
  /\ Len(c) = Len(s) + 1 + Len(t)
  /\ \A i \in 1..Len(s) : c[i] = s[i]
  /\ c[Len(s) + 1] = k
  /\ \A i \in 1..Len(t) : c[Len(s) + 1 + i] = t[i]

LEMMA JoinedIs ==
  ASSUME NEW s \in Seq(WordSet), NEW k \in KindWords, NEW t \in Seq(WordSet), NEW c, c = Joined(s, k, t)
  PROVE  IsJoined(c, s, k, t)
  BY KindsAreWords DEF Joined, IsJoined

\* The first word of a kind tells where the parts meet ...
LEMMA FirstSplit ==
  ASSUME NEW s \in Seq(WordSet), NEW k \in KindWords, NEW t \in Seq(WordSet), ~HasKind(s),
         NEW u \in Seq(WordSet), NEW l \in KindWords, NEW v \in Seq(WordSet), ~HasKind(u),
         Joined(s, k, t) = Joined(u, l, v)
  PROVE  s = u /\ k = l /\ t = v
PROOF
  <1>1. PICK c : c = Joined(s, k, t) /\ c = Joined(u, l, v)
    OBVIOUS
  <1>3. PICK m \in Nat, n \in Nat, p \in Nat, q \in Nat : m = Len(s) /\ n = Len(u) /\ p = Len(t) /\ q = Len(v)
    OBVIOUS
  <1>4. /\ Len(c) = m + 1 + p
        /\ \A i \in 1..m : c[i] = s[i]
        /\ c[m + 1] = k
        /\ \A i \in 1..p : c[m + 1 + i] = t[i]
    <2>1. IsJoined(c, s, k, t)
      BY <1>1, JoinedIs
    <2> QED BY <1>3, <2>1 DEF IsJoined
  <1>5. /\ Len(c) = n + 1 + q
        /\ \A i \in 1..n : c[i] = u[i]
        /\ c[n + 1] = l
        /\ \A i \in 1..q : c[n + 1 + i] = v[i]
    <2>1. IsJoined(c, u, l, v)
      BY <1>1, JoinedIs
    <2> QED BY <1>3, <2>1 DEF IsJoined
  <1>6. ~(m < n)
    <2> SUFFICES ASSUME m < n PROVE FALSE
      OBVIOUS
    <2>1. m + 1 \in 1..n
      OBVIOUS
    <2>2. u[m + 1] \in KindWords /\ m + 1 \in DOMAIN u
      BY <1>3, <1>4, <1>5, <2>1
    <2> QED BY <2>2 DEF HasKind
  <1>7. ~(n < m)
    <2> SUFFICES ASSUME n < m PROVE FALSE
      OBVIOUS
    <2>1. n + 1 \in 1..m
      OBVIOUS
    <2>2. s[n + 1] \in KindWords /\ n + 1 \in DOMAIN s
      BY <1>3, <1>4, <1>5, <2>1
    <2> QED BY <2>2 DEF HasKind
  <1>8. m = n /\ p = q
    BY <1>4, <1>5, <1>6, <1>7
  <1>9. \A i \in 1..m : s[i] = u[i]
    BY <1>4, <1>5, <1>8
  <1>10. \A i \in 1..p : t[i] = v[i]
    <2>1. ASSUME NEW i \in 1..p PROVE c[m + 1 + i] = t[i] /\ c[m + 1 + i] = v[i]
      BY <1>4, <1>5, <1>8
    <2> QED BY <2>1
  <1>11. s = u
    BY <1>3, <1>8, <1>9, SeqEqual
  <1>12. t = v
    BY <1>3, <1>8, <1>10, SeqEqual
  <1> QED BY <1>4, <1>5, <1>8, <1>11, <1>12

\* ... and so does the last one.
LEMMA LastSplit ==
  ASSUME NEW s \in Seq(WordSet), NEW k \in KindWords, NEW t \in Seq(WordSet), ~HasKind(t),
         NEW u \in Seq(WordSet), NEW l \in KindWords, NEW v \in Seq(WordSet), ~HasKind(v),
         Joined(s, k, t) = Joined(u, l, v)
  PROVE  t = v
PROOF
  <1>1. PICK c : c = Joined(s, k, t) /\ c = Joined(u, l, v)
    OBVIOUS
  <1>3. PICK m \in Nat, n \in Nat, p \in Nat, q \in Nat : m = Len(s) /\ n = Len(u) /\ p = Len(t) /\ q = Len(v)
    OBVIOUS
  <1>4. /\ Len(c) = m + 1 + p
        /\ c[m + 1] = k
        /\ \A i \in 1..p : c[m + 1 + i] = t[i]
    <2>1. IsJoined(c, s, k, t)
      BY <1>1, JoinedIs
    <2> QED BY <1>3, <2>1 DEF IsJoined
  <1>5. /\ Len(c) = n + 1 + q
        /\ c[n + 1] = l
        /\ \A i \in 1..q : c[n + 1 + i] = v[i]
    <2>1. IsJoined(c, u, l, v)
      BY <1>1, JoinedIs
    <2> QED BY <1>3, <2>1 DEF IsJoined
  <1>6. ~(m < n)
    <2> SUFFICES ASSUME m < n PROVE FALSE
      OBVIOUS
    <2>1. PICK i \in 1..p : n + 1 = m + 1 + i
      <3>1. m + 1 + p = n + 1 + q
        BY <1>4, <1>5
      <3>2. n - m \in 1..p /\ n + 1 = m + 1 + (n - m)
        BY <3>1
      <3> QED BY <3>2
    <2>2. t[i] \in KindWords /\ i \in DOMAIN t
      BY <1>3, <1>4, <1>5, <2>1
    <2> QED BY <2>2 DEF HasKind
  <1>7. ~(n < m)
    <2> SUFFICES ASSUME n < m PROVE FALSE
      OBVIOUS
    <2>1. PICK i \in 1..q : m + 1 = n + 1 + i
      <3>1. m + 1 + p = n + 1 + q
        BY <1>4, <1>5
      <3>2. m - n \in 1..q /\ m + 1 = n + 1 + (m - n)
        BY <3>1
      <3> QED BY <3>2
    <2>2. v[i] \in KindWords /\ i \in DOMAIN v
      BY <1>3, <1>4, <1>5, <2>1
    <2> QED BY <2>2 DEF HasKind
  <1>8. m = n /\ p = q
    BY <1>4, <1>5, <1>6, <1>7
  <1>9. \A i \in 1..p : t[i] = v[i]
    <2>1. ASSUME NEW i \in 1..p PROVE c[m + 1 + i] = t[i] /\ c[m + 1 + i] = v[i]
      BY <1>4, <1>5, <1>8
    <2> QED BY <2>1
  <1> QED BY <1>3, <1>8, <1>9, SeqEqual

-----------------------------------------------------------------------------
(* The tables of C names.                                                  *)

\* The C name c that is remembered under the key k.
NameFor(k, c) ==
  \E m \in Modules, x \in Identifiers, kind \in {"var", "fn", "struct"}, rest \in Seq(WordSet) :
    /\ c = Joined(ModuleWords[m], kind, rest)
    /\ \/ k = <<"globals", m, x>> /\ rest = Words[x]
       \/ /\ k = <<"methods", m, x>> /\ kind = "struct"
          /\ \E S \in Identifiers : rest = Joined(Words[S], "method", Words[x])

KeyConfusable(k) == HasKind(ModuleWords[k[2]]) \/ HasKind(Words[k[3]])

\* Spelling keeps two keys apart if neither contains a word that mangling adds.
LEMMA KeysAgree ==
  ASSUME NEW k, NEW l, NEW c, NameFor(k, c), NameFor(l, c), ~KeyConfusable(k), ~KeyConfusable(l)
  PROVE  k = l
PROOF
  <1>1. PICK m \in Modules, x \in Identifiers, kind \in {"var", "fn", "struct"}, rest \in Seq(WordSet) :
          /\ c = Joined(ModuleWords[m], kind, rest)
          /\ \/ k = <<"globals", m, x>> /\ rest = Words[x]
             \/ /\ k = <<"methods", m, x>> /\ kind = "struct"
                /\ \E S \in Identifiers : rest = Joined(Words[S], "method", Words[x])
    BY DEF NameFor
  <1>2. PICK n \in Modules, y \in Identifiers, kind2 \in {"var", "fn", "struct"}, rest2 \in Seq(WordSet) :
          /\ c = Joined(ModuleWords[n], kind2, rest2)
          /\ \/ l = <<"globals", n, y>> /\ rest2 = Words[y]
             \/ /\ l = <<"methods", n, y>> /\ kind2 = "struct"
                /\ \E S \in Identifiers : rest2 = Joined(Words[S], "method", Words[y])
    BY DEF NameFor
  <1>3. /\ ~HasKind(ModuleWords[m]) /\ ~HasKind(Words[x])
        /\ ~HasKind(ModuleWords[n]) /\ ~HasKind(Words[y])
    BY <1>1, <1>2 DEF KeyConfusable
  <1>4. /\ Words[x] \in Seq(WordSet) /\ Words[y] \in Seq(WordSet)
        /\ ModuleWords[m] \in Seq(WordSet) /\ ModuleWords[n] \in Seq(WordSet)
    BY WordsAre
  <1>5. kind \in KindWords /\ kind2 \in KindWords
    BY DEF KindWords
  <1>6. Joined(ModuleWords[m], kind, rest) = Joined(ModuleWords[n], kind2, rest2)
    BY <1>1, <1>2
  <1>7. ModuleWords[m] = ModuleWords[n] /\ rest = rest2
    BY <1>3, <1>4, <1>5, <1>6, FirstSplit
  <1>8. m = n
    BY <1>7, WordsAre
  <1>9. ASSUME NEW w \in Seq(WordSet), NEW z \in Seq(WordSet), NEW S \in Identifiers, w = Joined(Words[S], "method", z)
        PROVE  HasKind(w)
    <2>1. PICK s \in Seq(WordSet) : s = Words[S]
      BY WordsAre
    <2>2. "method" \in KindWords
      BY DEF KindWords
    <2>3. Len(s) + 1 \in DOMAIN w /\ w[Len(s) + 1] = "method"
      <3>1. IsJoined(w, s, "method", z)
        BY <1>9, <2>1, <2>2, JoinedIs
      <3> QED BY <2>1, <3>1 DEF IsJoined
    <2> QED BY <2>2, <2>3 DEF HasKind
  <1>10. CASE k = <<"globals", m, x>> /\ rest = Words[x] /\ l = <<"globals", n, y>> /\ rest2 = Words[y]
    <2>1. x = y
      BY <1>7, <1>10, WordsAre
    <2> QED BY <1>8, <1>10, <2>1
  <1>11. ASSUME NEW S \in Identifiers, NEW T \in Identifiers,
                k = <<"methods", m, x>>, rest = Joined(Words[S], "method", Words[x]),
                l = <<"methods", n, y>>, rest2 = Joined(Words[T], "method", Words[y])
         PROVE  k = l
    <2>1. Words[S] \in Seq(WordSet) /\ Words[T] \in Seq(WordSet) /\ "method" \in KindWords
      BY WordsAre DEF KindWords
    <2>2. Joined(Words[S], "method", Words[x]) = Joined(Words[T], "method", Words[y])
      BY <1>7, <1>11
    <2>3. Words[x] = Words[y]
      BY <1>3, <1>4, <2>1, <2>2, LastSplit
    <2>4. x = y
      BY <2>3, WordsAre
    <2> QED BY <1>8, <1>11, <2>4
  <1>12. CASE rest = Words[x] /\ \E S \in Identifiers : rest2 = Joined(Words[S], "method", Words[y])
    BY <1>3, <1>4, <1>7, <1>9, <1>12
  <1>13. CASE rest2 = Words[y] /\ \E S \in Identifiers : rest = Joined(Words[S], "method", Words[x])
    BY <1>3, <1>4, <1>7, <1>9, <1>13
  <1> QED BY <1>1, <1>2, <1>10, <1>11, <1>12, <1>13

-----------------------------------------------------------------------------
(* What has a name has one that is spelled.                                *)

\* The names that mangling joins.
NamedWell(o) ==
  /\ o.owner[1] \in Modules
  /\ o.name \in Identifiers
  /\ o.kind \in {"var", "fn", "struct"}
  /\ Method(o) => o.owner[2] \in Identifiers

LEMMA ImportedIsNamed ==
  ASSUME NEW s \in DOMAIN ImportedScopes, NEW o \in ImportedScopes[s]
  PROVE  NamedWell(o)
PROOF
  <1>1. /\ o = [kind |-> o.kind, owner |-> s, name |-> o.name, type |-> o.type, at |-> 0]
        /\ o.kind \in {"var", "fn", "struct"}
    BY ImportedScopesAssumption
  <1>2. o.owner = s
    BY <1>1
  <1>3. s[1] \in Modules
    BY DEF Modules
  <1>4. o.name \in Identifiers
    BY ImportsAreSpelled
  <1>5. ASSUME s[2] /= NoName PROVE s[2] \in Identifiers
    <2>1. s \in ImportedTypes
      BY <1>5 DEF ImportedTypes
    <2>2. PICK p : p \in ImportedScopes[<<s[1], NoName>>] /\ p.name = s[2] /\ <<s[1], NoName>> \in DOMAIN ImportedScopes
      BY <2>1, ImportedScopesAssumption
    <2> QED BY <2>2, ImportsAreSpelled
  <1> QED BY <1>1, <1>2, <1>3, <1>4, <1>5 DEF NamedWell, Method

LEMMA OwnIsNamed ==
  ASSUME Spelled(program), Parsed(program), NEW o, o \in OwnObjects \/ \E S \in Structs : o \in Members(S)
  PROVE  NamedWell(o)
PROOF
  <1>1. Self \in Modules
    BY DEF Modules
  <1>2. CASE o \in OwnObjects
    <2>1. /\ o.kind \in {"var", "fn", "struct"} /\ o.owner = ModuleScope
          /\ o.name \in DOMAIN program.variables \cup Structs \cup program.functions
      BY <1>2, OwnObjectIs, ObjectIs DEF StructObject
    <2>2. o.name \in Identifiers
      BY <2>1 DEF Spelled, Structs
    <2>3. o.owner[1] = Self /\ ~Method(o)
      BY <2>1 DEF ModuleScope, Method
    <2> QED BY <1>1, <2>1, <2>2, <2>3 DEF NamedWell
  <1>3. ASSUME NEW S \in Structs, o \in Members(S) PROVE NamedWell(o)
    <2>1. /\ o.kind \in {"var", "fn", "struct"} /\ o.owner = <<Self, S>>
          /\ o.name \in DOMAIN program.structs[S].fields \cup program.structs[S].methods
      <3>1. CASE /\ o.name \in DOMAIN program.structs[S].fields
                 /\ o = Object("var", <<Self, S>>, o.name, program.structs[S].fields[o.name], 0)
        BY <3>1, ObjectIs
      <3>2. CASE o.name \in program.structs[S].methods /\ o = Object("fn", <<Self, S>>, o.name, NoName, 0)
        BY <3>2, ObjectIs
      <3> QED BY <1>3, <3>1, <3>2, MemberIs
    <2>2. o.name \in Identifiers /\ S \in Identifiers
      BY <2>1 DEF Spelled, Structs
    <2> QED BY <1>1, <2>1, <2>2 DEF NamedWell
  <1> QED BY <1>2, <1>3

LEMMA ScopeObjectIsNamed ==
  ASSUME ScopesBuilt, Spelled(program), NEW s \in DOMAIN scopes, NEW o \in scopes[s]
  PROVE  NamedWell(o)
PROOF
  <1>1. Parsed(program)
    BY DEF ScopesBuilt
  <1>2. CASE s \in DOMAIN ImportedScopes
    BY <1>2, ImportedIsNamed DEF ScopesBuilt
  <1>3. CASE s = ModuleScope
    BY <1>1, <1>3, OwnIsNamed DEF ScopesBuilt
  <1>4. ASSUME NEW S \in Structs, s = <<Self, S>> PROVE NamedWell(o)
    BY <1>1, <1>4, OwnIsNamed DEF ScopesBuilt
  <1> QED BY <1>2, <1>3, <1>4 DEF ScopesBuilt

LEMMA LocalsAreSpelled ==
  ASSUME ScopesBuilt, Spelled(program), NEW b \in Bodies
  PROVE  NamesIn(b) \subseteq Identifiers
PROOF
  <1>1. DOMAIN program.params[b] \subseteq Identifiers
    BY DEF Spelled, Bodies
  <1>2. \A i \in DeclarationsIn(program.code[b]) : program.code[b][i].var \in Identifiers
    BY DEF Spelled, Bodies, DeclarationsIn
  <1> QED BY <1>1, <1>2 DEF NamesIn

LEMMA MeantIsNamed ==
  ASSUME ScopesBuilt, Spelled(program), NEW b \in Bodies, NEW o, Meant(b, o)
  PROVE  NamedWell(o)
PROOF
  <1>1. CASE o.kind = "var" /\ o.owner = b /\ o.name \in NamesIn(b)
    <2>1. b[1] = Self
      BY BodiesAre
    <2>2. Self \in Modules
      BY DEF Modules
    <2>3. o.name \in Identifiers
      BY <1>1, LocalsAreSpelled
    <2> QED BY <1>1, <2>1, <2>2, <2>3 DEF NamedWell, Method
  <1> QED BY <1>1, ScopeObjectIsNamed DEF Meant

\* Sequences that are joined.
Cat(s, t) == s \o t

LEMMA CatIs ==
  ASSUME NEW s \in Seq(WordSet), NEW t \in Seq(WordSet)
  PROVE  Cat(s, t) \in Seq(WordSet)
  BY DEF Cat

LEMMA Associative ==
  ASSUME NEW s \in Seq(WordSet), NEW t \in Seq(WordSet), NEW u \in Seq(WordSet)
  PROVE  Cat(Cat(s, t), u) = Cat(s, Cat(t, u))
PROOF
  <1>1. (s \o t) \o u = s \o (t \o u)
    BY ConcatAssociative
  <1> QED BY <1>1 DEF Cat

LEMMA MethodJoined ==
  ASSUME NEW A \in Seq(WordSet), NEW B \in Seq(WordSet), NEW C \in Seq(WordSet), NEW D \in Seq(WordSet),
         NEW E \in Seq(WordSet)
  PROVE  Cat(Cat(A, Cat(Cat(B, C), D)), E) = Cat(Cat(A, B), Cat(Cat(C, D), E))
PROOF
  <1>1. Cat(C, D) \in Seq(WordSet) /\ Cat(A, B) \in Seq(WordSet)
    BY CatIs
  <1>2. Cat(Cat(B, C), D) = Cat(B, Cat(C, D))
    BY Associative
  <1>3. Cat(A, Cat(B, Cat(C, D))) = Cat(Cat(A, B), Cat(C, D))
    BY <1>1, Associative
  <1>4. Cat(Cat(Cat(A, B), Cat(C, D)), E) = Cat(Cat(A, B), Cat(Cat(C, D), E))
    BY <1>1, Associative
  <1> QED BY <1>2, <1>3, <1>4
\* The C name that is made for an object is one for its key.
LEMMA FreshIsFor ==
  ASSUME NEW o, NamedWell(o)
  PROVE  NameFor(Key(o), Fresh(o))
PROOF
  <1>1. PICK m, x, kind, S : m = o.owner[1] /\ x = o.name /\ kind = o.kind /\ S = o.owner[2]
    OBVIOUS
  <1>2. m \in Modules /\ x \in Identifiers /\ kind \in {"var", "fn", "struct"} /\ (Method(o) => S \in Identifiers)
    BY <1>1 DEF NamedWell
  <1>3. ModuleWords[m] \in Seq(WordSet) /\ Words[x] \in Seq(WordSet) /\ (S \in Identifiers => Words[S] \in Seq(WordSet))
    BY <1>2, WordsAre
  <1>4. CASE ~Method(o)
    <2>1. Key(o) = <<"globals", m, x>>
      BY <1>1, <1>4 DEF Key
    <2>2. Fresh(o) = Joined(ModuleWords[m], kind, Words[x])
      BY <1>1, <1>4 DEF Fresh, Joined
    <2> QED BY <1>2, <1>3, <2>1, <2>2 DEF NameFor
  <1>5. CASE Method(o)
    <2>1. Key(o) = <<"methods", m, x>>
      BY <1>1, <1>5 DEF Key
    <2>2. PICK A \in Seq(WordSet), B \in Seq(WordSet), C \in Seq(WordSet), D \in Seq(WordSet), E \in Seq(WordSet) :
            A = ModuleWords[m] /\ B = <<"struct">> /\ C = Words[S] /\ D = <<"method">> /\ E = Words[x]
      <3>1. <<"struct">> \in Seq(WordSet) /\ <<"method">> \in Seq(WordSet)
        BY KindsAreWords DEF KindWords
      <3> QED BY <1>2, <1>3, <1>5, <3>1
    <2>3. Fresh(o) = Cat(Cat(A, Cat(Cat(B, C), D)), E)
      BY <1>1, <1>5, <2>2 DEF Fresh, Cat
    <2>4. Fresh(o) = Cat(Cat(A, B), Cat(Cat(C, D), E))
      BY <2>3, MethodJoined
    <2>5. PICK rest : rest = Cat(Cat(C, D), E)
      OBVIOUS
    <2>6. rest \in Seq(WordSet)
      BY <2>5, CatIs
    <2>7. rest = Joined(Words[S], "method", Words[x])
      BY <2>2, <2>5 DEF Joined, Cat
    <2>8. Fresh(o) = Joined(ModuleWords[m], "struct", rest)
      BY <2>2, <2>4, <2>5 DEF Joined, Cat
    <2> QED BY <1>2, <1>5, <2>1, <2>6, <2>7, <2>8 DEF NameFor
  <1> QED BY <1>4, <1>5

-----------------------------------------------------------------------------
(* The tables of C names.                                                  *)

\* What is declared under a name of its own: the objects of modules, and methods.
Declarable(o) ==
  /\ o.owner \in DOMAIN scopes
  /\ o \in scopes[o.owner]
  /\ o.owner[2] /= NoName => o.kind = "fn"

Remembers == \A k \in DOMAIN cnames : NameFor(k, cnames[k])
DeclaredWell ==
  \A d \in declared : Declarable(d[2]) /\ Key(d[2]) \in DOMAIN cnames /\ d[1] = cnames[Key(d[2])]

LEMMA KeyIs ==
  ASSUME NEW o
  PROVE  /\ Key(o)[2] = o.owner[1] /\ Key(o)[3] = o.name
         /\ Key(o)[1] = "methods" <=> Method(o)
         /\ Key(o)[1] = "globals" <=> ~Method(o)
  BY DEF Key

\* The table cnames and the names of the objects it does not have.
HasNames(table, objects) ==
  /\ DOMAIN cnames \subseteq DOMAIN table
  /\ \A o \in objects : Mangled(o) => Key(o) \in DOMAIN table
  /\ \A k \in DOMAIN cnames : table[k] = cnames[k]
  /\ \A k \in DOMAIN table : k \notin DOMAIN cnames =>
       \E o \in objects : Mangled(o) /\ Key(o) = k /\ table[k] = Fresh(o)

LEMMA RememberedIs ==
  ASSUME NEW objects, NEW table, table = Remembered(objects)
  PROVE  HasNames(table, objects)
PROOF
  <1>1. PICK named : named = {p \in objects : Mangled(p)}
    OBVIOUS
  <1>2. table = [k \in DOMAIN cnames \cup {Key(o) : o \in named} |->
                   IF k \in DOMAIN cnames THEN cnames[k] ELSE Fresh(CHOOSE o \in named : Key(o) = k)]
    BY <1>1 DEF Remembered
  <1>3. ASSUME NEW k \in DOMAIN table, k \notin DOMAIN cnames
        PROVE  \E o \in objects : Mangled(o) /\ Key(o) = k /\ table[k] = Fresh(o)
    <2>1. PICK p : p = CHOOSE o \in named : Key(o) = k
      OBVIOUS
    <2>2. \E o \in named : Key(o) = k
      BY <1>2, <1>3
    <2>3. p \in named /\ Key(p) = k
      BY <2>1, <2>2
    <2>4. table[k] = Fresh(p)
      BY <1>2, <1>3, <2>1
    <2> QED BY <1>1, <2>3, <2>4
  <1> QED BY <1>1, <1>2, <1>3 DEF HasNames

LEMMA RemembersMore ==
  ASSUME Remembers, NEW objects, NEW table, HasNames(table, objects), \A o \in objects : NamedWell(o)
  PROVE  \A k \in DOMAIN table : NameFor(k, table[k])
PROOF
  <1> SUFFICES ASSUME NEW k \in DOMAIN table PROVE NameFor(k, table[k])
    OBVIOUS
  <1>1. CASE k \in DOMAIN cnames
    BY <1>1 DEF HasNames, Remembers
  <1>2. CASE k \notin DOMAIN cnames
    <2>1. PICK o \in objects : Key(o) = k /\ table[k] = Fresh(o)
      BY <1>2 DEF HasNames
    <2>2. NameFor(Key(o), Fresh(o))
      BY <2>1, FreshIsFor
    <2> QED BY <2>1, <2>2
  <1> QED BY <1>1, <1>2

\* Two objects of one scope that can be declared do not share a key.
LEMMA KeysApart ==
  ASSUME AllScoped, NEW s \in DOMAIN scopes, NEW o \in scopes[s], NEW p \in scopes[s], Key(o) = Key(p)
  PROVE  o = p
  BY KeyIs DEF AllScoped, WellScoped, Unique

LEMMA DeclarableIsMangled ==
  ASSUME AllScoped, NEW o, Declarable(o)
  PROVE  Mangled(o)
PROOF
  <1>1. WellScoped(o.owner, scopes[o.owner], Types, DOMAIN scopes)
    BY DEF Declarable, AllScoped
  <1>2. o.owner = <<o.owner[1], o.owner[2]>>
    BY <1>1 DEF WellScoped
  <1>3. CASE o.owner[2] /= NoName
    BY <1>3 DEF Declarable, Mangled, Method
  <1>4. CASE o.owner[2] = NoName
    BY <1>2, <1>4 DEF Declarable, Mangled, ModuleLevel, ScopeOf
  <1> QED BY <1>3, <1>4

\* Some objects are declared; their names, and others, are remembered.
DeclaringSome(some, objects) ==
  /\ some \subseteq objects
  /\ declared' = declared \cup {<<CName(o), o>> : o \in some}
  /\ cnames' = Remembered(objects)

LEMMA DeclaringIs ==
  ASSUME NEW objects, Declaring(objects)
  PROVE  DeclaringSome(objects, objects)
  BY DEF Declaring, DeclaringSome

LEMMA DeclaringKeeps ==
  ASSUME AllScoped, DeclaredWell, UNCHANGED scopes,
         NEW some, NEW objects, DeclaringSome(some, objects), \A o \in objects : Declarable(o),
         NEW s \in DOMAIN scopes, objects \subseteq scopes[s]
  PROVE  DeclaredWell'
PROOF
  <1>1. declared' = declared \cup {<<CName(o), o>> : o \in some} /\ cnames' = Remembered(objects) /\ some \subseteq objects
    BY DEF DeclaringSome
  <1>2. PICK table : table = Remembered(objects)
    OBVIOUS
  <1>5. HasNames(table, objects)
    BY <1>2, RememberedIs
  <1>3. ASSUME NEW d \in declared'
        PROVE  Declarable(d[2]) /\ Key(d[2]) \in DOMAIN table /\ d[1] = table[Key(d[2])]
    <2>1. CASE d \in declared
      BY <1>5, <2>1 DEF HasNames, DeclaredWell
    <2>2. ASSUME NEW o \in some, d = <<CName(o), o>>
          PROVE  Declarable(d[2]) /\ Key(d[2]) \in DOMAIN table /\ d[1] = table[Key(d[2])]
      <3>1. d[1] = CName(o) /\ d[2] = o
        BY <2>2
      <3>2. o \in objects /\ Declarable(o) /\ Mangled(o)
        BY <1>1, DeclarableIsMangled
      <3>3. Key(o) \in DOMAIN table
        BY <1>5, <3>2 DEF HasNames
      <3>4. CASE Key(o) \in DOMAIN cnames
        BY <1>5, <3>1, <3>2, <3>3, <3>4 DEF HasNames, CName
      <3>5. CASE Key(o) \notin DOMAIN cnames
        <4>1. PICK p \in objects : Key(p) = Key(o) /\ table[Key(o)] = Fresh(p)
          BY <1>5, <3>3, <3>5 DEF HasNames
        <4>2. p = o
          BY <3>2, <4>1, KeysApart
        <4> QED BY <3>1, <3>2, <3>3, <3>5, <4>1, <4>2 DEF CName
      <3> QED BY <3>4, <3>5
    <2> QED BY <1>1, <2>1, <2>2
  <1>4. cnames' = table
    BY <1>1, <1>2
  <1> QED BY <1>3, <1>4 DEF DeclaredWell, Declarable, Key, Method

LEMMA ConfusableIs ==
  ASSUME NEW o
  PROVE  Confusable(o) <=> KeyConfusable(Key(o))
PROOF
  <1>1. PICK v, w : v = ModuleWords[o.owner[1]] /\ w = Words[o.name]
    OBVIOUS
  <1>2. Confusable(o) <=> HasKind(v) \/ HasKind(w)
    BY <1>1 DEF Confusable, HasKind
  <1>3. ModuleWords[Key(o)[2]] = v /\ Words[Key(o)[3]] = w
    BY <1>1, KeyIs
  <1> QED BY <1>2, <1>3 DEF KeyConfusable

LEMMA UniqueNames ==
  ASSUME AllScoped, Remembers, DeclaredWell
  PROVE  CNamesAreUnique
PROOF
  <1> SUFFICES ASSUME NEW d \in declared, NEW e \in declared, d[1] = e[1], d[2] /= e[2],
                      ~Confusable(d[2]), ~Confusable(e[2])
               PROVE  /\ Method(d[2]) /\ Method(e[2])
                      /\ d[2].name = e[2].name
                      /\ d[2].owner[1] = e[2].owner[1]
    BY DEF CNamesAreUnique
  <1>1. PICK c, o, p : c = d[1] /\ o = d[2] /\ p = e[2]
    OBVIOUS
  <1>2. Declarable(o) /\ Declarable(p) /\ NameFor(Key(o), c) /\ NameFor(Key(p), c)
    BY <1>1 DEF DeclaredWell, Remembers
  <1>3. Key(o) = Key(p)
    <2>1. ~KeyConfusable(Key(o)) /\ ~KeyConfusable(Key(p))
      BY <1>1, ConfusableIs
    <2> QED BY <1>2, <2>1, KeysAgree
  <1>4. o.name = p.name /\ o.owner[1] = p.owner[1] /\ (Method(o) <=> Method(p))
    BY <1>3, KeyIs
  <1>5. CASE ~Method(o)
    <2>1. o.owner = <<o.owner[1], o.owner[2]>> /\ p.owner = <<p.owner[1], p.owner[2]>>
      BY <1>2 DEF Declarable, AllScoped, WellScoped
    <2>2. o.owner[2] = NoName /\ p.owner[2] = NoName
      BY <1>2, <1>4, <1>5 DEF Declarable, Method
    <2>3. o.owner = p.owner
      BY <1>4, <2>1, <2>2
    <2>4. o = p
      BY <1>2, <1>3, <2>3, KeysApart DEF Declarable
    <2> QED BY <1>1, <2>4
  <1> QED BY <1>1, <1>4, <1>5
LEMMA RemembersKept ==
  ASSUME Remembers, NEW objects, cnames' = Remembered(objects), \A o \in objects : NamedWell(o)
  PROVE  Remembers'
PROOF
  <1>1. PICK table : table = Remembered(objects)
    OBVIOUS
  <1>2. \A k \in DOMAIN table : NameFor(k, table[k])
    BY <1>1, RememberedIs, RemembersMore
  <1>3. cnames' = table
    BY <1>1
  <1> QED BY <1>2, <1>3 DEF Remembers

\* The objects of a module, and the methods of a struct.
LEMMA ObjectsDeclarable ==
  ASSUME AllScoped, NEW s \in DOMAIN scopes, NEW o \in scopes[s], s[2] /= NoName => o.kind = "fn"
  PROVE  Declarable(o) /\ o.owner = s
PROOF
  <1>1. o.owner = s
    BY DEF AllScoped, WellScoped, ObjectOf
  <1> QED BY <1>1 DEF Declarable

\* The function of the body that is generated next.
LEMMA FunctionObjectIs ==
  ASSUME ScopesBuilt, AllScoped, GenWalk, Generating, NEW f \in left
  PROVE  /\ <<Current, inside>> \in DOMAIN scopes
         /\ FunctionObject(f) \in scopes[<<Current, inside>>]
         /\ FunctionObject(f).kind = "fn" /\ FunctionObject(f).name = f
PROOF
  <1>1. Current \in Modules
    BY CurrentIsModule DEF Generating, Phases
  <1>2. <<Current, inside>> \in DOMAIN scopes
    <2>1. CASE inside = NoName
      BY <1>1, <2>1, ModulesHaveScopes
    <2>2. CASE inside /= NoName
      BY <1>1, <2>2, StructsHaveScopes DEF GenWalk
    <2> QED BY <2>1, <2>2
  <1>3. f \in NamesOf(scopes[<<Current, inside>>], "fn")
    BY DEF GenWalk
  <1>4. \E o \in scopes[<<Current, inside>>] : o.kind = "fn" /\ o.name = f
    BY <1>3 DEF NamesOf
  <1> QED BY <1>2, <1>4 DEF FunctionObject

LEMMA TablesKept ==
  ASSUME ScopesBuilt, AllScoped, Spelled(program), Resolves, Walk, GenWalk, Remembers, DeclaredWell,
         [GenNext]_allVars
  PROVE  Remembers' /\ DeclaredWell'
PROOF
  <1>1. CASE UNCHANGED allVars
    BY <1>1 DEF allVars, vars, codegenVars, Remembers, DeclaredWell, Declarable, Key, Method
  <1>2. CASE Next /\ UNCHANGED codegenVars
    <2>1. phase \in Phases
      <3>1. CASE Statement
        BY <3>1, StatementKeeps DEF Phases
      <3>2. CASE ~Statement
        BY <1>2, <3>2 DEF Next, ValidateVariables, EnterStruct, LeaveStruct, EnterBody, LeaveBody, Predeclare,
                   Finish, Verdict, Phases
      <3> QED BY <3>1, <3>2
    <2>2. declared' = {} /\ cnames' = cnames
      BY <1>2, <2>1 DEF GenWalk, codegenVars
    <2> QED BY <2>2 DEF Remembers, DeclaredWell
  <1>3. ASSUME NEW some, NEW objects, DeclaringSome(some, objects), UNCHANGED scopes, NEW s \in DOMAIN scopes, objects \subseteq scopes[s],
               s[2] /= NoName => \A o \in objects : o.kind = "fn"
        PROVE  Remembers' /\ DeclaredWell'
    <2>1. Remembers'
      <3>1. \A o \in objects : NamedWell(o)
        BY <1>3, ScopeObjectIsNamed
      <3> QED BY <1>3, <3>1, RemembersKept DEF DeclaringSome
    <2>2. \A o \in objects : Declarable(o)
      BY <1>3, ObjectsDeclarable
    <2> QED BY <1>3, <2>1, <2>2, DeclaringKeeps
  <1>4. CASE GenModule
    <2>1. PICK m, objects : /\ m = order[index + 1]
                            /\ objects = {o \in ScopeOf(m) : o.kind = "var"} \cup {o \in ScopeOf(m) : o.kind = "struct"}
      OBVIOUS
    <2>2. scopes' = scopes /\ \E some : DeclaringSome(some, objects)
      <3>1. PICK variables, structs : /\ variables = {o \in ScopeOf(m) : o.kind = "var"}
                                      /\ structs = {o \in ScopeOf(m) : o.kind = "struct"}
        OBVIOUS
      <3>2. PICK pointers \in SUBSET {o \in variables : o.type = NoName} :
              declared' = declared \cup {<<CName(o), o>> : o \in pointers \cup structs}
        BY <1>4, <2>1, <3>1 DEF GenModule
      <3>3. cnames' = Remembered(variables \cup structs) /\ scopes' = scopes
        BY <1>4, <2>1, <3>1 DEF GenModule
      <3>4. variables \cup structs = objects
        BY <2>1, <3>1
      <3>5. DeclaringSome(pointers \cup structs, objects)
        BY <3>2, <3>3, <3>4 DEF DeclaringSome
      <3> QED BY <3>3, <3>5
    <2>3. m \in Modules
      BY <1>4, <2>1, ModuleIsNext
    <2>4. <<m, NoName>> \in DOMAIN scopes /\ objects \subseteq scopes[<<m, NoName>>]
      BY <2>1, <2>3, ModulesHaveScopes DEF ScopeOf
    <2> QED BY <1>3, <2>2, <2>4
  <1>5. CASE GenStruct
    <2>1. PICK S \in todo : Declaring({o \in scopes[<<Current, S>>] : o.kind = "fn"})
      BY <1>5 DEF GenStruct
    <2>2. Generating /\ scopes' = scopes /\ Current \in Modules
      BY <1>5, CurrentIsModule DEF GenStruct, Generating, Phases
    <2>3. <<Current, S>> \in DOMAIN scopes
      BY <2>2, StructsHaveScopes DEF GenWalk
    <2>4. PICK objects : objects = {o \in scopes[<<Current, S>>] : o.kind = "fn"}
      OBVIOUS
    <2>5. DeclaringSome(objects, objects)
      BY <2>1, <2>4, DeclaringIs
    <2> QED BY <1>3, <2>2, <2>3, <2>4, <2>5
  <1>6. CASE GenFunctions
    <2>1. PICK objects : objects = {o \in scopes[<<Current, NoName>>] : o.kind = "fn"} /\ Declaring(objects)
      BY <1>6 DEF GenFunctions, InModule, ScopeOf
    <2>2. <<Current, NoName>> \in DOMAIN scopes /\ scopes' = scopes
      BY <1>6, CurrentIsModule, ModulesHaveScopes DEF GenFunctions, Phases
    <2>3. DeclaringSome(objects, objects)
      BY <2>1, DeclaringIs
    <2> QED BY <1>3, <2>1, <2>2, <2>3
  <1>7. CASE GenBody
    <2>1. PICK f \in left : Declaring({FunctionObject(f)})
      BY <1>7 DEF GenBody
    <2>2. Generating /\ scopes' = scopes
      BY <1>7 DEF GenBody, Generating
    <2>3. PICK o : o = FunctionObject(f)
      OBVIOUS
    <2>4. <<Current, inside>> \in DOMAIN scopes /\ o \in scopes[<<Current, inside>>] /\ o.kind = "fn"
      BY <2>2, <2>3, FunctionObjectIs
    <2>5. DeclaringSome({o}, {o})
      BY <2>1, <2>3, DeclaringIs
    <2> QED BY <1>3, <2>2, <2>4, <2>5
  <1>8. CASE GenStatement
    <2>1. PICK objects : objects = FoundAt(body, at) /\ cnames' = Remembered(objects)
      BY <1>8 DEF GenStatement
    <2>2. PICK table : table = cnames' /\ HasNames(table, objects)
      BY <2>1, RememberedIs
    <2>3. UNCHANGED <<scopes, declared>>
      BY <1>8 DEF GenStatement
    <2>4. DeclaredWell'
      BY <2>2, <2>3 DEF HasNames, DeclaredWell, Declarable, Key, Method
    <2>5. \A o \in objects : NamedWell(o)
      <3> SUFFICES ASSUME NEW o \in objects PROVE NamedWell(o)
        OBVIOUS
      <3>1. PICK q \in resolved : q[1] = body /\ q[3] = o
        BY <2>1 DEF FoundAt
      <3>2. body \in Bodies /\ Meant(body, o)
        BY <3>1 DEF Resolves
      <3> QED BY <3>2, MeantIsNamed
    <2> QED BY <2>1, <2>4, <2>5, RemembersKept
  <1>9. CASE GenStructDone \/ GenBodyDone \/ GenModuleDone
    BY <1>9 DEF GenStructDone, GenBodyDone, GenModuleDone, codegenVars, Remembers, DeclaredWell, Declarable,
                Key, Method
  <1> QED BY <1>1, <1>2, <1>4, <1>5, <1>6, <1>7, <1>8, <1>9 DEF GenNext, Validate, Generate

-----------------------------------------------------------------------------
(* What C takes the name of a local variable for.                          *)

\* An object of a module or of a struct, not of a body.
OfScope(o) == o.owner = <<o.owner[1], o.owner[2]>>

LEMMA OfScopeIs ==
  ASSUME NEW o, NEW s, o \in Owner(s) \/ o \in Members(s) \/ o \in OwnObjects
  PROVE  OfScope(o)
PROOF
  <1>1. ASSUME NEW S, o \in Members(S) PROVE OfScope(o)
    <2>1. o.owner = <<Self, S>>
      BY <1>1, ObjectIs DEF Members, Variables, Functions
    <2> QED BY <2>1 DEF OfScope
  <1>2. CASE o \in OwnObjects
    <2>1. o.owner = ModuleScope
      BY <1>2, OwnObjectIs, ObjectIs DEF StructObject
    <2> QED BY <2>1 DEF OfScope, ModuleScope
  <1>3. CASE s \in DOMAIN ImportedScopes /\ o \in ImportedScopes[s]
    <2>1. /\ s = <<s[1], s[2]>>
          /\ o = [kind |-> o.kind, owner |-> s, name |-> o.name, type |-> o.type, at |-> 0]
      BY <1>3, ImportedScopesAssumption
    <2>2. o.owner = s
      BY <2>1
    <2> QED BY <2>1, <2>2 DEF OfScope
  <1>4. CASE o \in Owner(s)
    <2>1. CASE s \in DOMAIN ImportedScopes
      BY <1>3, <1>4, <2>1 DEF Owner
    <2>2. CASE s \notin DOMAIN ImportedScopes
      <3>1. o \in Members(s[2])
        BY <1>4, <2>2 DEF Owner
      <3> QED BY <1>1, <3>1
    <2> QED BY <2>1, <2>2
  <1> QED BY <1>1, <1>2, <1>4

LEMMA LocalIsNotOfScope ==
  ASSUME ScopesBuilt, NEW b \in Bodies, NEW o, o.owner = b
  PROVE  ~OfScope(o)
PROOF
  <1>1. b = <<Self, b[2], b[3]>>
    BY BodiesAre
  <1>2. \A u, v : <<Self, b[2], b[3]>> /= <<u, v>>
    OBVIOUS
  <1> QED BY <1>1, <1>2 DEF OfScope

\* A local object is found by its name alone: in the blocks, or as a parameter.
LEMMA LocalIsLexical ==
  ASSUME ScopesBuilt, NEW b \in Bodies, NEW i, NEW o \in Meaning(b, i), o.owner = b
  PROVE  \E x : o \in Lexical(b, i, x)
PROOF
  <1>1. ~OfScope(o)
    BY LocalIsNotOfScope
  <1>2. \A s, x : o \notin Named(Owner(s), x) /\ o \notin Named(Members(s), x)
    <2>1. \A s : o \notin Owner(s) /\ o \notin Members(s)
      BY <1>1, OfScopeIs
    <2> QED BY <2>1 DEF Named
  <1> QED BY <1>2 DEF Meaning

LEMMA LexicalLocal ==
  ASSUME ScopesBuilt, NEW b \in Bodies, NEW i \in Nat, NEW y, NEW o \in Lexical(b, i, y), o.owner = b
  PROVE  LET js == Locals(b, i, o.name)
         IN IF js = {} THEN o.name \in DOMAIN program.params[b] /\ o = Object("var", b, o.name, program.params[b][o.name], 0)
            ELSE o = Object("var", b, o.name, TypeOfLocal(b, Max(js)), Max(js))
PROOF
  <1>1. PICK js : js = Locals(b, i, y)
    OBVIOUS
  <1>2. CASE js /= {}
    <2>1. o = Object("var", b, y, TypeOfLocal(b, Max(js)), Max(js))
      BY <1>1, <1>2 DEF Lexical
    <2>2. o.name = y
      BY <2>1, ObjectIs
    <2> QED BY <1>1, <1>2, <2>1, <2>2
  <1>3. CASE js = {}
    <2>1. o \in Outside(b, y)
      BY <1>1, <1>3 DEF Lexical
    <2>2. ~OfScope(o)
      BY LocalIsNotOfScope
    <2>3. o \notin Members(b[2]) /\ o \notin OwnObjects
      <3>1. \A S : o \notin Members(S)
        BY <2>2, OfScopeIs
      <3>2. o \notin OwnObjects
        BY <2>2, OfScopeIs
      <3> QED BY <3>1, <3>2
    <2>4. o \in Named(Parameters(b), y)
      BY <2>1, <2>3, OutsideIs DEF Named
    <2>5. PICK x \in DOMAIN program.params[b] : o = Object("var", b, x, program.params[b][x], 0)
      BY <2>4 DEF Named, Parameters, Variables
    <2>6. o.name = x /\ x = y
      BY <2>4, <2>5, ObjectIs DEF Named
    <2> QED BY <1>1, <1>3, <2>5, <2>6
  <1> QED BY <1>2, <1>3

\* In C the variable of a body is seen from its declaration on, not only behind it.
LEMMA LocalsInCAre ==
  ASSUME ScopesBuilt, Spelled(program), NEW b \in Bodies, NEW i \in DOMAIN program.code[b], NEW x \in Identifiers,
         ~Declares(program.code[b][i], x)
  PROVE  LocalsInC(b, i, Words[x]) = Locals(b, i, x)
PROOF
  <1>1. PICK code : code = program.code[b]
    OBVIOUS
  <1>2. code \in Seq(Range(code))
    BY <1>1 DEF ScopesBuilt, Parsed, Bodies
  <1>3. DOMAIN code = 1..Len(code) /\ Len(code) \in Nat
    BY <1>2
  <1>4. PICK n \in Nat : n = Len(code)
    BY <1>3
  <1>5. i \in 1..n
    BY <1>1, <1>3, <1>4
  <1>6. ASSUME NEW j \in 1..i
        PROVE  code[j].op \in {"var", "init"} /\ Words[code[j].var] = Words[x] <=> Declares(code[j], x)
    <2>1. j \in DOMAIN code
      BY <1>3, <1>4, <1>5
    <2>2. code[j].op \in {"var", "init"} => code[j].var \in Identifiers
      BY <1>1, <2>1 DEF Spelled, Bodies
    <2> QED BY <2>2, WordsAre DEF Declares
  <1>7. LocalsInC(b, i, Words[x]) = {j \in 1..i : Declares(code[j], x) /\ StillOpen(code, j, i)}
    BY <1>1, <1>6 DEF LocalsInC
  <1>8. Locals(b, i, x) = {j \in 1..(i - 1) : Declares(code[j], x) /\ StillOpen(code, j, i)}
    BY <1>1 DEF Locals
  <1>9. \A j \in 1..i : Declares(code[j], x) => j \in 1..(i - 1)
    BY <1>1, <1>5
  <1>10. 1..(i - 1) \subseteq 1..i
    BY <1>5
  <1> QED BY <1>7, <1>8, <1>9, <1>10

LEMMA LocalMeansInC ==
  ASSUME ScopesBuilt, Spelled(program), NEW b \in Bodies, NEW i \in DOMAIN program.code[b],
         NEW o \in Meaning(b, i), o.owner = b, o.name \in Identifiers, ~Declares(program.code[b][i], o.name)
  PROVE  MeaningInC(b, i, Words[o.name]) = {o}
PROOF
  <1>1. PICK x, js, c : x = o.name /\ js = Locals(b, i, x) /\ c = Words[x]
    OBVIOUS
  <1>2. i \in Nat
    <2>1. program.code[b] \in Seq(Range(program.code[b]))
      BY DEF ScopesBuilt, Parsed, Bodies
    <2> QED BY <2>1
  <1>3. LocalsInC(b, i, c) = js
    BY <1>1, LocalsInCAre
  <1>4. PICK y : o \in Lexical(b, i, y)
    BY LocalIsLexical
  <1>5. IF js = {} THEN x \in DOMAIN program.params[b] /\ o = Object("var", b, x, program.params[b][x], 0)
        ELSE o = Object("var", b, x, TypeOfLocal(b, Max(js)), Max(js))
    BY <1>1, <1>2, <1>4, LexicalLocal
  <1>6. CASE js /= {}
    <2>1. Max(js) \in Locals(b, i, x)
      BY <1>1, <1>2, <1>6, LocalsAre
    <2>2. program.code[b][Max(js)].var = x
      BY <2>1 DEF Locals, Declares
    <2>3. LocalOf(b, Max(js)) = o
      BY <1>5, <1>6, <2>2 DEF LocalOf
    <2> QED BY <1>1, <1>3, <1>6, <2>3 DEF MeaningInC
  <1>7. CASE js = {}
    <2>1. o \in Parameters(b)
      BY <1>5, <1>7 DEF Parameters, Variables
    <2>2. ASSUME NEW p \in Parameters(b), Words[p.name] = c PROVE p = o
      <3>1. PICK z \in DOMAIN program.params[b] : p = Object("var", b, z, program.params[b][z], 0)
        BY DEF Parameters, Variables
      <3>2. p.name = z
        BY <3>1, ObjectIs
      <3>3. z \in Identifiers
        BY DEF Spelled, Bodies
      <3>4. z = x
        BY <1>1, <2>2, <3>2, <3>3, WordsAre
      <3> QED BY <1>5, <1>7, <3>1, <3>4
    <2>3. ParametersInC(b, c) = {o}
      BY <1>1, <2>1, <2>2 DEF ParametersInC
    <2> QED BY <1>1, <1>3, <1>7, <2>3 DEF MeaningInC
  <1> QED BY <1>6, <1>7

-----------------------------------------------------------------------------
(* Every name that is printed denotes what the validator found, but for    *)
(* the exceptions of CNamesDenote.                                         *)

IsDeclared(o) == \E d \in declared : d[2] = o

\* Before the functions, structs and the methods of those that are generated; no variable.
DeclaredSoFar ==
  Generating /\ Current = Self =>
    /\ \A o \in scopes[ModuleScope] : o.kind = "struct" => IsDeclared(o)
    /\ \A S \in Structs \ todo : StructObject(S) \in scopes[ModuleScope] =>
         \A o \in scopes[<<Self, S>>] : o.kind = "fn" => IsDeclared(o)
    /\ phase = "gen functions" => \A o \in scopes[ModuleScope] : o.kind /= "var" => IsDeclared(o)

\* Two objects that are spelled alike.
SharesWith(c, o) == \E d \in declared : d[1] = c /\ d[2] /= o /\ (Confusable(d[2]) \/ Confusable(o))

Denotes(u) ==
  \/ u.denotes = {u.object}
  \/ NamesModuleVariable(u.object)
  \/ BareField(u)
  \/ Method(u.object) /\ SameMethodElsewhere(u.object)
  \/ FromLater(u)
  \/ SelfInitialised(u)
  \/ Hidden(u)
  \/ SharesName(u)

LEMMA DeclaredNow ==
  ASSUME NEW some, declared' = declared \cup {<<CName(o), o>> : o \in some}
  PROVE  declared \subseteq declared' /\ \A o \in some : IsDeclared(o)'
PROOF
  <1>1. declared \subseteq declared'
    OBVIOUS
  <1>2. ASSUME NEW o \in some PROVE \E d \in declared' : d[2] = o
    <2>1. PICK d : d = <<CName(o), o>>
      OBVIOUS
    <2>2. d \in declared' /\ d[2] = o
      BY <2>1
    <2> QED BY <2>2
  <1> QED BY <1>1, <1>2 DEF IsDeclared

LEMMA DeclaredStays ==
  ASSUME declared \subseteq declared', NEW o, IsDeclared(o)
  PROVE  IsDeclared(o)'
  BY DEF IsDeclared

\* The steps that declare nothing that must be.
LEMMA DeclaredSoFarStays ==
  ASSUME DeclaredSoFar, declared \subseteq declared', UNCHANGED <<program, scopes, todo, index, order>>,
         phase' = phase
  PROVE  DeclaredSoFar'
PROOF
  <1>1. \A o : IsDeclared(o) => IsDeclared(o)'
    BY DeclaredStays
  <1> QED BY <1>1 DEF DeclaredSoFar, Generating, Current, ModuleScope, Structs, StructObject

LEMMA DeclaredSoFarKept ==
  ASSUME ScopesBuilt, Walk, GenWalk, DeclaredSoFar, [GenNext]_allVars
  PROVE  DeclaredSoFar'
PROOF
  <1>0. \A o : declared \subseteq declared' /\ IsDeclared(o) => IsDeclared(o)'
    BY DeclaredStays
  <1>1. CASE UNCHANGED allVars
    BY <1>1, DeclaredSoFarStays DEF allVars, vars, codegenVars
  <1>2. CASE Next /\ UNCHANGED codegenVars
    <2>1. phase' \in Phases
      <3>1. CASE Statement
        BY <3>1, StatementKeeps DEF Phases
      <3>2. CASE ~Statement
        BY <1>2, <3>2 DEF Next, ValidateVariables, EnterStruct, LeaveStruct, EnterBody, LeaveBody, Predeclare,
                   Finish, Verdict, Phases
      <3> QED BY <3>1, <3>2
    <2> QED BY <2>1 DEF DeclaredSoFar, Generating, Phases
  <1>3. CASE GenModule
    <2> SUFFICES ASSUME Current' = Self PROVE DeclaredSoFar'
      BY DEF DeclaredSoFar
    <2>1. /\ UNCHANGED <<program, scopes>> /\ phase' = "gen structs"
          /\ index' = index + 1 /\ order' = order
      BY <1>3 DEF GenModule
    <2>2. order[index + 1] = Self
      BY <2>1 DEF Current
    <2>3. PICK objects : objects = {o \in scopes[ModuleScope] : o.kind = "struct"}
      OBVIOUS
    <2>4. PICK pointers : declared' = declared \cup {<<CName(o), o>> : o \in pointers \cup objects}
      BY <1>3, <2>2, <2>3 DEF GenModule, ScopeOf, ModuleScope
    <2>5. \A o \in scopes[ModuleScope] : o.kind = "struct" => IsDeclared(o)'
      <3>1. \A o \in pointers \cup objects : IsDeclared(o)'
        BY <2>4, DeclaredNow
      <3> QED BY <2>3, <3>1
    <2>6. todo' = NamesOf(scopes[ModuleScope], "struct")
      BY <1>3, <2>2 DEF GenModule, ScopeOf, ModuleScope, NamesOf
    <2>7. \A S : StructObject(S) \in scopes[ModuleScope] => S \in todo'
      BY <2>6, ObjectIs DEF NamesOf, StructObject
    <2> QED BY <2>1, <2>5, <2>7 DEF DeclaredSoFar, ModuleScope, Structs, StructObject
  <1>4. CASE GenStruct
    <2> SUFFICES ASSUME Current = Self PROVE DeclaredSoFar'
      BY <1>4 DEF DeclaredSoFar, GenStruct, Current
    <2>1. PICK S \in todo : /\ Declaring({o \in scopes[<<Self, S>>] : o.kind = "fn"})
                            /\ todo' = todo \ {S}
      BY <1>4 DEF GenStruct
    <2>2. /\ UNCHANGED <<program, scopes, order, index>> /\ phase = "gen structs" /\ phase' = phase
      BY <1>4 DEF GenStruct
    <2>3. declared \subseteq declared' /\ \A o \in scopes[<<Self, S>>] : o.kind = "fn" => IsDeclared(o)'
      BY <2>1, DeclaredNow DEF Declaring
    <2>4. \A o \in scopes[ModuleScope] : o.kind = "struct" => IsDeclared(o)'
      BY <1>0, <2>2, <2>3 DEF DeclaredSoFar, Generating
    <2>5. ASSUME NEW T \in Structs \ todo', StructObject(T) \in scopes[ModuleScope],
                 NEW o \in scopes[<<Self, T>>], o.kind = "fn"
          PROVE  IsDeclared(o)'
      <3>1. CASE T = S
        BY <2>1, <2>3, <2>5, <3>1
      <3>2. CASE T /= S
        BY <1>0, <2>1, <2>2, <2>3, <2>5, <3>2 DEF DeclaredSoFar, Generating
      <3> QED BY <3>1, <3>2
    <2> QED BY <2>2, <2>4, <2>5 DEF DeclaredSoFar, ModuleScope, Structs, StructObject
  <1>5. CASE GenFunctions
    <2> SUFFICES ASSUME Current = Self PROVE DeclaredSoFar'
      BY <1>5 DEF DeclaredSoFar, GenFunctions, Current
    <2>1. PICK objects : objects = {o \in scopes[ModuleScope] : o.kind = "fn"} /\ Declaring(objects)
      BY <1>5 DEF GenFunctions, InModule, ScopeOf, ModuleScope
    <2>2. UNCHANGED <<program, scopes, todo, order, index>> /\ phase = "gen structs"
      BY <1>5 DEF GenFunctions
    <2>3. declared \subseteq declared' /\ \A o \in objects : IsDeclared(o)'
      BY <2>1, DeclaredNow DEF Declaring
    <2>6. \A o \in scopes[ModuleScope] : o.kind = "struct" => IsDeclared(o)'
      BY <1>0, <2>2, <2>3 DEF DeclaredSoFar, Generating
    <2>7. \A o \in scopes[ModuleScope] : o.kind \in {"var", "fn", "struct"}
      BY OwnObjectIs, ObjectIs DEF ScopesBuilt, StructObject
    <2>4. \A o \in scopes[ModuleScope] : o.kind /= "var" => IsDeclared(o)'
      BY <2>1, <2>3, <2>6, <2>7
    <2>5. ASSUME NEW T \in Structs \ todo, StructObject(T) \in scopes[ModuleScope],
                 NEW o \in scopes[<<Self, T>>], o.kind = "fn"
          PROVE  IsDeclared(o)'
      BY <1>0, <2>2, <2>3, <2>5 DEF DeclaredSoFar, Generating
    <2> QED BY <2>2, <2>4, <2>5, <2>6 DEF DeclaredSoFar, ModuleScope, Structs, StructObject
  <1>6. CASE GenBody
    <2>1. declared \subseteq declared'
      BY <1>6, DeclaredNow DEF GenBody, Declaring
    <2> QED BY <1>6, <2>1, DeclaredSoFarStays DEF GenBody
  <1>7. CASE GenStructDone \/ GenStatement \/ GenBodyDone
    BY <1>7, DeclaredSoFarStays DEF GenStructDone, GenStatement, GenBodyDone, codegenVars
  <1>8. CASE GenModuleDone
    BY <1>8 DEF GenModuleDone, DeclaredSoFar, Generating
  <1> QED BY <1>1, <1>2, <1>3, <1>4, <1>5, <1>6, <1>7, <1>8 DEF GenNext, Validate, Generate

\* What has been declared in C denotes itself, or shares its name.
LEMMA DeclaredDenotes ==
  ASSUME AllScoped, Remembers, DeclaredWell, NEW o, Declarable(o), IsDeclared(o)
  PROVE  \/ {d[2] : d \in {e \in declared : e[1] = CName(o)}} = {o}
         \/ Method(o) /\ SameMethodElsewhere(o)
         \/ SharesWith(CName(o), o)
PROOF
  <1>1. PICK d \in declared : d[2] = o
    BY DEF IsDeclared
  <1>2. Mangled(o)
    BY DeclarableIsMangled
  <1>3. d[1] = CName(o)
    BY <1>1, <1>2 DEF DeclaredWell, CName
  <1>4. CASE \E e \in declared : e[1] = CName(o) /\ e[2] /= o
    <2>1. PICK e \in declared : e[1] = CName(o) /\ e[2] /= o
      BY <1>4
    <2>2. CASE Confusable(o) \/ Confusable(e[2])
      BY <2>1, <2>2 DEF SharesWith
    <2>3. CASE ~Confusable(o) /\ ~Confusable(e[2])
      <3>1. Method(o) /\ Method(e[2]) /\ e[2].name = o.name /\ e[2].owner[1] = o.owner[1]
        BY <1>1, <1>3, <2>1, <2>3, UniqueNames DEF CNamesAreUnique
      <3> QED BY <2>1, <3>1 DEF SameMethodElsewhere
    <2> QED BY <2>2, <2>3
  <1>5. CASE \A e \in declared : e[1] = CName(o) => e[2] = o
    BY <1>1, <1>3, <1>5
  <1> QED BY <1>4, <1>5

-----------------------------------------------------------------------------
(* The names that a statement prints.                                      *)

\* In the body that is generated, of a module without errors.
Printing ==
  /\ Building /\ AllScoped /\ Resolves /\ RightSoFar
  /\ Spelled(program) /\ Remembers /\ DeclaredWell /\ DeclaredSoFar
  /\ errors = {}
  /\ Generating
  /\ body \in Bodies
  /\ at \in DOMAIN program.code[body]

LEMMA UseIs ==
  ASSUME NEW o, NEW v
  PROVE  /\ PrintedUse(o, v).place[1] = body /\ PrintedUse(o, v).place[2] = at
         /\ PrintedUse(o, v).object = o /\ PrintedUse(o, v).behind = v
         /\ PrintedUse(o, v).cname = CName(o) /\ PrintedUse(o, v).denotes = Denoted(o, v)
  BY DEF PrintedUse

LEMMA FoundIsMeant ==
  ASSUME Printing, NEW o \in FoundAt(body, at)
  PROVE  /\ Meant(body, o) /\ NamedWell(o)
         /\ body = <<Self, inside, body[3]>> /\ body[2] = inside
         /\ Current = Self
PROOF
  <1>0. ScopesBuilt /\ GenWalk /\ body /= NoName
    <2>1. ScopesBuilt /\ GenWalk
      BY DEF Printing, Building
    <2>2. NoName \notin Bodies
      BY <2>1 DEF ScopesBuilt, Parsed, Bodies
    <2> QED BY <2>1, <2>2 DEF Printing
  <1>1. PICK r \in resolved : r[1] = body /\ r[3] = o
    BY DEF FoundAt
  <1>2. Meant(body, o) /\ body \in Bodies
    BY <1>1 DEF Printing, Resolves
  <1>3. body = <<Self, body[2], body[3]>>
    BY <1>0, <1>2, BodiesAre
  <1>4. body = <<Current, inside, body[3]>>
    BY <1>0 DEF Printing, GenWalk
  <1>5. Current = Self /\ body[2] = inside
    BY <1>3, <1>4
  <1>6. NamedWell(o)
    BY <1>0, <1>2, MeantIsNamed DEF Printing
  <1> QED BY <1>2, <1>4, <1>5, <1>6

\* A module variable belongs to the module.
LEMMA ModuleVariableIs ==
  ASSUME ScopesBuilt, AllScoped, NEW m \in Modules, NEW v \in ScopeOf(m)
  PROVE  v.owner = <<m, NoName>>
  BY ModulesHaveScopes DEF AllScoped, WellScoped, ObjectOf, ScopeOf

\* What is no module variable, nor named like one, keeps its name.
LEMMA PlainName ==
  ASSUME NEW o, o.kind = "var", ~NamesModuleVariable(o)
  PROVE  CName(o) = Words[o.name] /\ ~Method(o)
  BY DEF CName, Mangled, ModuleLevel, Method, NamesModuleVariable

LEMMA LocalDenotes ==
  ASSUME Printing, NEW o \in FoundAt(body, at), o.kind = "var", o.owner = body
  PROVE  \/ MeaningInC(body, at, CName(o)) = {o}
         \/ NamesModuleVariable(o)
         \/ Declares(program.code[body][at], o.name)
PROOF
  <1> SUFFICES ASSUME ~NamesModuleVariable(o), ~Declares(program.code[body][at], o.name)
               PROVE  MeaningInC(body, at, CName(o)) = {o}
    OBVIOUS
  <1>1. CName(o) = Words[o.name]
    BY PlainName
  <1>2. o.name \in Identifiers
    BY FoundIsMeant DEF NamedWell
  <1>3. ScopesBuilt /\ Spelled(program) /\ body \in Bodies /\ at \in DOMAIN program.code[body]
    BY DEF Printing, Building
  <1>4. RightFound(body, at, FoundAt(body, at))
    BY DEF Printing, RightSoFar, RightAt, Unfailed
  <1>5. PICK r \in Meaning(body, at) : FoundAt(body, at) \subseteq {r} \cup FieldMeant(body, at, r)
    BY <1>4 DEF RightFound
  <1>6. o \notin FieldMeant(body, at, r)
    <2>1. ~OfScope(o)
      BY <1>3, LocalIsNotOfScope
    <2>2. o \notin Owner(r.type)
      BY <2>1, OfScopeIs
    <2> QED BY <2>2 DEF FieldMeant, Named
  <1>7. o \in Meaning(body, at)
    BY <1>5, <1>6
  <1>8. MeaningInC(body, at, Words[o.name]) = {o}
    BY <1>2, <1>3, <1>7, LocalMeansInC
  <1> QED BY <1>1, <1>8

\* Behind a dot stands a member of a struct.
LEMMA BehindIs ==
  ASSUME Printing, NEW o, <<o, TRUE>> \in NamesPrinted(FoundAt(body, at))
  PROVE  OfScope(o) /\ o.owner[2] /= NoName
PROOF
  <1>1. PICK root \in FoundAt(body, at) : root.type /= NoName /\ o.owner = root.type
    BY DEF NamesPrinted, Named
  <1>2. root.type \in Types
    BY FoundIsMeant DEF Meant
  <1>3. CASE root.type \in ImportedTypes
    <2>1. PICK s : s = root.type
      OBVIOUS
    <2>2. s = <<s[1], s[2]>> /\ s[2] /= NoName
      BY <1>3, <2>1, ImportedScopesAssumption DEF ImportedTypes
    <2> QED BY <1>1, <2>1, <2>2 DEF OfScope
  <1>4. ASSUME NEW S \in Structs, root.type = <<Self, S>> PROVE OfScope(o) /\ o.owner[2] /= NoName
    <2>1. S /= NoName
      BY BodiesAre DEF Printing, Building
    <2> QED BY <1>1, <1>4, <2>1 DEF OfScope
  <1> QED BY <1>1, <1>2, <1>3, <1>4 DEF Types, TypesOf, Structs

LEMMA PairIs ==
  ASSUME NEW A, NEW V, NEW n \in A \X V
  PROVE  n[1] \in A /\ n[2] \in V /\ n = <<n[1], n[2]>>
  OBVIOUS

LEMMA PrintedIsFound ==
  ASSUME NEW found, NEW n \in NamesPrinted(found)
  PROVE  n[1] \in found /\ n[2] \in BOOLEAN /\ n = <<n[1], n[2]>>
PROOF
  <1>1. CASE Stmt.op /= "access"
    <2>1. n \in found \X {FALSE}
      BY <1>1 DEF NamesPrinted
    <2>2. n[1] \in found /\ n[2] \in {FALSE} /\ n = <<n[1], n[2]>>
      BY <2>1, PairIs
    <2> QED BY <2>2
  <1>2. CASE Stmt.op = "access"
    <2>1. PICK A, B : /\ A = Named(found, Stmt.name)
                      /\ B = {f \in Named(found, Stmt.field) :
                                \E root \in Named(found, Stmt.name) : root.type /= NoName /\ f.owner = root.type}
      OBVIOUS
    <2>2. A \subseteq found /\ B \subseteq found
      BY <2>1 DEF Named
    <2>3. n \in (A \X {FALSE}) \cup (B \X {TRUE})
      BY <1>2, <2>1 DEF NamesPrinted
    <2>4. ASSUME NEW V, n \in A \X V \/ n \in B \X V, V \subseteq BOOLEAN
          PROVE  n[1] \in found /\ n[2] \in BOOLEAN /\ n = <<n[1], n[2]>>
      BY <2>2, <2>4, PairIs
    <2> QED BY <2>3, <2>4
  <1> QED BY <1>1, <1>2

\* A field denotes the field of that name in its struct.
LEMMA FieldDenotes ==
  ASSUME Printing, NEW o, NamedWell(o), o.owner \in DOMAIN scopes, o \in scopes[o.owner], o.kind = "var", ~NamesModuleVariable(o)
  PROVE  Denoted(o, TRUE) = {o}
PROOF
  <1>1. CName(o) = Words[o.name] /\ ~Method(o)
    BY PlainName
  <1>2. Denoted(o, TRUE) = {f \in scopes[o.owner] : f.kind = "var" /\ Words[f.name] = Words[o.name]}
    BY <1>1 DEF Denoted
  <1>3. ASSUME NEW f \in scopes[o.owner], Words[f.name] = Words[o.name] PROVE f = o
    <2>1. f.name \in Identifiers
      BY ScopeObjectIsNamed DEF Printing, Building, NamedWell
    <2>2. f.name = o.name
      BY <1>3, <2>1, WordsAre DEF NamedWell
    <2> QED BY <2>2 DEF Printing, AllScoped, WellScoped, Unique
  <1> QED BY <1>2, <1>3

\* A struct, a function or a method has been declared when it is used.
LEMMA UsedIsDeclared ==
  ASSUME Printing, NEW o \in FoundAt(body, at), o.owner \in DOMAIN scopes, o \in scopes[o.owner], o.kind /= "var",
         NEW v, ~FromLater(PrintedUse(o, v)),
         body[2] /= NoName => ~(o.kind = "fn" /\ o.owner = ModuleScope)
  PROVE  IsDeclared(o) /\ Declarable(o)
PROOF
  <1>0. o.owner[1] = Self
    BY UseIs DEF FromLater
  <1>1. /\ o.owner = <<Self, o.owner[2]>>
        /\ body[2] = inside /\ Current = Self /\ Generating
        /\ o.kind \in {"fn", "struct"} /\ (o.kind = "struct" => o.owner[2] = NoName)
    BY <1>0, FoundIsMeant DEF Printing, AllScoped, WellScoped, ObjectOf
  <1>2. inside = NoName => phase = "gen functions" /\ todo = {}
    <2>1. body /= NoName
      <3>1. NoName \notin Bodies
        BY DEF Printing, Building, ScopesBuilt, Parsed, Bodies
      <3> QED BY <3>1 DEF Printing
    <2> QED BY <2>1 DEF Printing, Building, Walk, Generating
  <1>3. ASSUME o.owner = ModuleScope PROVE IsDeclared(o)
    <2>1. o \in scopes[ModuleScope]
      BY <1>3
    <2>2. CASE o.kind = "struct"
      BY <1>1, <2>1, <2>2 DEF Printing, DeclaredSoFar
    <2>3. CASE o.kind = "fn"
      <3>1. phase = "gen functions"
        BY <1>1, <1>2, <1>3, <2>3
      <3> QED BY <1>1, <2>1, <2>3, <3>1 DEF Printing, DeclaredSoFar
    <2> QED BY <1>1, <2>2, <2>3
  <1>4. ASSUME o.owner /= ModuleScope PROVE IsDeclared(o)
    <2>1. PICK S : S = o.owner[2]
      OBVIOUS
    <2>2. o.owner = <<Self, S>> /\ S /= NoName /\ o.kind = "fn" /\ Method(o)
      BY <1>1, <1>4, <2>1 DEF ModuleScope, Method
    <2>3. S \in Structs
      BY <1>4, <2>2, SelfIsNotImported DEF Printing, Building, ScopesBuilt
    <2>4. StructObject(S) \in scopes[ModuleScope]
      BY <2>2, <2>3 DEF Printing, Building, ScopesBuilt
    <2>5. inside = NoName \/ inside = S
      BY <1>1, <2>1, <2>2, UseIs DEF FromLater
    <2>6. S \notin todo
      BY <1>1, <1>2, <2>2, <2>5 DEF Printing, Building, GenWalk
    <2>7. \A p \in scopes[<<Self, S>>] : p.kind = "fn" => IsDeclared(p)
      BY <1>1, <2>3, <2>4, <2>6 DEF Printing, DeclaredSoFar
    <2> QED BY <2>2, <2>7
  <1>5. Declarable(o)
    BY <1>1 DEF Declarable
  <1> QED BY <1>3, <1>4, <1>5

LEMMA UseDenotes ==
  ASSUME Printing, NEW n \in NamesPrinted(FoundAt(body, at))
  PROVE  Denotes(PrintedUse(n[1], n[2]))
PROOF
  <1> SUFFICES ASSUME NEW o \in FoundAt(body, at), NEW v \in BOOLEAN, <<o, v>> \in NamesPrinted(FoundAt(body, at))
               PROVE  Denotes(PrintedUse(o, v))
    BY PrintedIsFound
  <1>1. Meant(body, o) /\ NamedWell(o)
    BY FoundIsMeant
  <1>2. PICK u : u = PrintedUse(o, v)
    OBVIOUS
  <1>3. /\ u.place[1] = body /\ u.place[2] = at /\ u.object = o /\ u.behind = v
        /\ u.cname = CName(o) /\ u.denotes = Denoted(o, v)
    BY <1>2, UseIs
  <1>4. v = TRUE => OfScope(o) /\ o.owner[2] /= NoName
    BY BehindIs
  <1>5. ScopesBuilt /\ AllScoped /\ Remembers /\ DeclaredWell /\ body \in Bodies
    BY DEF Printing, Building
  <1>6. CASE o.kind = "var" /\ o.owner = body
    <2>1. ~OfScope(o)
      BY <1>5, <1>6, LocalIsNotOfScope
    <2>2. v = FALSE
      BY <1>4, <2>1
    <2>3. Denoted(o, v) = MeaningInC(body, at, CName(o))
      BY <2>2 DEF Denoted
    <2>4. MeaningInC(body, at, CName(o)) = {o} \/ NamesModuleVariable(o) \/ Declares(program.code[body][at], o.name)
      BY <1>6, LocalDenotes
    <2>5. CASE Declares(program.code[body][at], o.name)
      <3>1. SelfInitialised(u)
        BY <1>3, <1>6, <2>5 DEF SelfInitialised, Local
      <3> QED BY <1>2, <3>1 DEF Denotes
    <2>6. CASE MeaningInC(body, at, CName(o)) = {o}
      <3>1. u.denotes = {u.object}
        BY <1>3, <2>3, <2>6
      <3> QED BY <1>2, <3>1 DEF Denotes
    <2>7. CASE NamesModuleVariable(o)
      BY <1>2, <1>3, <2>7 DEF Denotes
    <2> QED BY <2>4, <2>5, <2>6, <2>7
  <1>7. CASE /\ o.owner \in DOMAIN scopes
             /\ o \in scopes[o.owner]
             /\ body[2] /= NoName => ~(o.kind = "fn" /\ o.owner = ModuleScope)
    <2>1. CASE FromLater(u)
      BY <1>2, <2>1 DEF Denotes
    <2>2. CASE NamesModuleVariable(o)
      BY <1>2, <1>3, <2>2 DEF Denotes
    <2>3. ASSUME ~FromLater(u), ~NamesModuleVariable(o), o.kind = "var" PROVE Denotes(u)
      <3>1. o.owner = <<o.owner[1], o.owner[2]>>
        BY <1>5, <1>7 DEF AllScoped, WellScoped
      <3>2. Len(o.owner) = 2
        BY <3>1
      <3>3. CASE v = FALSE
        BY <1>3, <2>3, <3>2, <3>3 DEF BareField, Denotes
      <3>4. CASE v = TRUE
        <4>1. Denoted(o, TRUE) = {o}
          BY <1>1, <1>7, <2>3, FieldDenotes
        <4>2. u.denotes = {u.object}
          BY <1>3, <3>4, <4>1
        <4> QED BY <4>2 DEF Denotes
      <3> QED BY <3>3, <3>4
    <2>4. ASSUME ~FromLater(u), o.kind /= "var" PROVE Denotes(u)
      <3>1. IsDeclared(o) /\ Declarable(o)
        BY <1>2, <1>7, <2>4, UsedIsDeclared
      <3>2. v = TRUE => Method(o)
        <4>1. ObjectOf(o.owner, o, Types, DOMAIN scopes)
          BY <1>5, <1>7 DEF AllScoped, WellScoped
        <4> QED BY <1>4, <2>4, <4>1 DEF ObjectOf, Method
      <3>3. Denoted(o, v) = MeaningInC(body, at, CName(o))
        BY <3>2 DEF Denoted
      <3>4. ~Local(u)
        <4>1. o.owner = <<o.owner[1], o.owner[2]>>
          BY <1>5, <1>7 DEF AllScoped, WellScoped
        <4>2. OfScope(o)
          BY <4>1 DEF OfScope
        <4>3. o.owner /= body
          BY <1>5, <4>2, LocalIsNotOfScope
        <4> QED BY <1>3, <4>3 DEF Local
      <3>5. CASE LocalsInC(body, at, CName(o)) /= {} \/ ParametersInC(body, CName(o)) /= {}
        <4>1. Hidden(u)
          BY <1>3, <3>4, <3>5 DEF Hidden
        <4> QED BY <4>1 DEF Denotes
      <3>6. CASE LocalsInC(body, at, CName(o)) = {} /\ ParametersInC(body, CName(o)) = {}
        <4>1. Denoted(o, v) = {d[2] : d \in {e \in declared : e[1] = CName(o)}}
          BY <3>3, <3>6 DEF MeaningInC
        <4>2. Denoted(o, v) = {o} \/ (Method(o) /\ SameMethodElsewhere(o)) \/ SharesWith(CName(o), o)
          BY <1>5, <3>1, <4>1, DeclaredDenotes
        <4>3. SharesWith(CName(o), o) => SharesName(u)
          BY <1>3 DEF SharesWith, SharesName
        <4> QED BY <1>3, <4>2, <4>3 DEF Denotes
      <3> QED BY <3>5, <3>6
    <2> QED BY <1>2, <2>1, <2>2, <2>3, <2>4
  <1> QED BY <1>1, <1>6, <1>7 DEF Meant

LEMMA DenotesStays ==
  ASSUME UNCHANGED <<program, scopes>>, declared \subseteq declared', NEW u, Denotes(u)
  PROVE  Denotes(u)'
PROOF
  <1>1. NamesModuleVariable(u.object) => NamesModuleVariable(u.object)'
    BY DEF NamesModuleVariable, ScopeOf
  <1>2. BareField(u) => BareField(u)'
    BY DEF BareField
  <1>3. SameMethodElsewhere(u.object) => SameMethodElsewhere(u.object)'
    BY DEF SameMethodElsewhere, Method
  <1>4. Method(u.object)' <=> Method(u.object)
    BY DEF Method
  <1>5. FromLater(u) => FromLater(u)'
    BY DEF FromLater, Method
  <1>6. SelfInitialised(u) => SelfInitialised(u)'
    BY DEF SelfInitialised, Local, Declares
  <1>7. Hidden(u) => Hidden(u)'
    <2>1. \A b, i, c : LocalsInC(b, i, c)' = LocalsInC(b, i, c) /\ ParametersInC(b, c)' = ParametersInC(b, c)
      BY DEF LocalsInC, ParametersInC, Parameters
    <2>2. PICK b, i, c : b = u.place[1] /\ i = u.place[2] /\ c = u.cname
      OBVIOUS
    <2>3. LocalsInC(b, i, c)' = LocalsInC(b, i, c) /\ ParametersInC(b, c)' = ParametersInC(b, c)
      BY <2>1
    <2> QED BY <2>2, <2>3 DEF Hidden, Local
  <1>8. SharesName(u) => SharesName(u)'
    BY DEF SharesName, Confusable
  <1> QED BY <1>1, <1>2, <1>3, <1>4, <1>5, <1>6, <1>7, <1>8 DEF Denotes

AllDenote == \A u \in printed : Denotes(u)
\* What has no errors is generated, from the first statement of a body on.
Errorless == phase \notin Phases => errors = {}
FromTheFirst == Generating /\ body /= NoName => at \in Nat \ {0}

LEMMA ErrorlessKept ==
  ASSUME Clean, Errorless, [GenNext]_allVars
  PROVE  Errorless'
PROOF
  <1>1. CASE UNCHANGED allVars
    BY <1>1 DEF allVars, vars, Errorless
  <1>2. CASE Next
    <2>1. phase' \in Phases
      <3>1. CASE Statement
        BY <3>1, StatementKeeps DEF Phases
      <3>2. CASE ~Statement
        BY <1>2, <3>2 DEF Next, ValidateVariables, EnterStruct, LeaveStruct, EnterBody, LeaveBody, Predeclare,
                   Finish, Verdict, Phases
      <3> QED BY <3>1, <3>2
    <2> QED BY <2>1 DEF Errorless
  <1>3. CASE GenModule
    BY <1>3 DEF GenModule, Errorless, Clean, Phases
  <1>4. CASE GenStruct \/ GenStructDone \/ GenFunctions \/ GenBody \/ GenStatement \/ GenBodyDone \/ GenModuleDone
    BY <1>4 DEF GenStruct, GenStructDone, GenFunctions, GenBody, GenStatement, GenBodyDone, GenModuleDone,
                Errorless, Phases
  <1> QED BY <1>1, <1>2, <1>3, <1>4 DEF GenNext, Validate, Generate

LEMMA FromTheFirstKept ==
  ASSUME Walk, FromTheFirst, [GenNext]_allVars
  PROVE  FromTheFirst'
PROOF
  <1>1. CASE UNCHANGED allVars
    BY <1>1 DEF allVars, vars, FromTheFirst, Generating
  <1>2. CASE Next
    <2>1. phase' \in Phases
      <3>1. CASE Statement
        BY <3>1, StatementKeeps DEF Phases
      <3>2. CASE ~Statement
        BY <1>2, <3>2 DEF Next, ValidateVariables, EnterStruct, LeaveStruct, EnterBody, LeaveBody, Predeclare,
                   Finish, Verdict, Phases
      <3> QED BY <3>1, <3>2
    <2> QED BY <2>1 DEF FromTheFirst, Generating, Phases
  <1>3. CASE GenModule
    <2>1. phase \in {"accepted", "generated"} /\ body' = body
      BY <1>3 DEF GenModule
    <2>2. body = NoName
      BY <2>1 DEF Walk
    <2> QED BY <2>1, <2>2 DEF FromTheFirst
  <1>4. CASE GenBody
    <2>1. at' = 1
      BY <1>4 DEF GenBody
    <2> QED BY <2>1 DEF FromTheFirst
  <1>5. CASE GenStatement
    <2>1. body /= NoName => at \in Nat \ {0}
      BY <1>5 DEF GenStatement, FromTheFirst, Generating
    <2>2. at' = at + 1 /\ body' = body
      BY <1>5 DEF GenStatement
    <2> QED BY <2>1, <2>2 DEF FromTheFirst
  <1>6. CASE GenStruct \/ GenStructDone \/ GenFunctions \/ GenBodyDone \/ GenModuleDone
    BY <1>6 DEF GenStruct, GenStructDone, GenFunctions, GenBodyDone, GenModuleDone, codegenVars,
                FromTheFirst, Generating, Walk
  <1> QED BY <1>1, <1>2, <1>3, <1>4, <1>5, <1>6 DEF GenNext, Validate, Generate

LEMMA DenoteKept ==
  ASSUME Building, AllScoped, Resolves, RightSoFar, Spelled(program), Remembers, DeclaredWell, DeclaredSoFar,
         Errorless, FromTheFirst, AllDenote, [GenNext]_allVars
  PROVE  AllDenote'
PROOF
  <1>1. CASE Next /\ UNCHANGED codegenVars
    <2>1. phase \in Phases
      <3>1. CASE Statement
        BY <3>1, StatementKeeps DEF Phases
      <3>2. CASE ~Statement
        BY <1>1, <3>2 DEF Next, ValidateVariables, EnterStruct, LeaveStruct, EnterBody, LeaveBody, Predeclare,
                   Finish, Verdict, Phases
      <3> QED BY <3>1, <3>2
    <2>2. printed' = {}
      BY <1>1, <2>1 DEF codegenVars, Building, GenWalk
    <2> QED BY <2>2 DEF AllDenote
  <1>2. CASE UNCHANGED allVars
    <2>1. \A u \in printed : Denotes(u)'
      BY <1>2, DenotesStays DEF allVars, vars, codegenVars, AllDenote
    <2> QED BY <1>2, <2>1 DEF allVars, codegenVars, AllDenote
  <1>3. CASE GenStatement
    <2>1. /\ printed' = printed \cup {PrintedUse(n[1], n[2]) : n \in NamesPrinted(FoundAt(body, at))}
          /\ UNCHANGED <<program, scopes, declared>>
      BY <1>3 DEF GenStatement
    <2>2. Printing
      <3>1. /\ phase \in {"gen structs", "gen functions"}
            /\ body \in Bodies /\ at <= Len(Code)
        BY <1>3 DEF GenStatement
      <3>2. Parsed(program) /\ NoName \notin Bodies
        BY DEF Building, ScopesBuilt, Parsed, Bodies
      <3>3. program.code[body] \in Seq(Range(program.code[body]))
        BY <3>1, <3>2 DEF Parsed, Bodies
      <3>4. at \in Nat \ {0}
        <4>1. body /= NoName
          BY <3>1, <3>2
        <4>2. Generating
          BY <3>1 DEF Generating
        <4> QED BY <4>1, <4>2 DEF FromTheFirst
      <3>5. at \in DOMAIN program.code[body]
        <4>1. PICK code : code = program.code[body]
          OBVIOUS
        <4>2. DOMAIN code = 1..Len(code) /\ Len(code) \in Nat
          BY <3>3, <4>1
        <4>3. PICK n \in Nat : n = Len(code)
          BY <4>2
        <4>4. at <= n
          BY <3>1, <4>1, <4>3 DEF Code
        <4>5. at \in 1..n
          BY <3>4, <4>4
        <4> QED BY <4>1, <4>2, <4>3, <4>5
      <3>6. errors = {} /\ Generating
        BY <3>1 DEF Errorless, Phases, Generating
      <3> QED BY <3>1, <3>5, <3>6 DEF Printing
    <2>3. \A u \in printed' : Denotes(u)
      BY <2>1, <2>2, UseDenotes DEF AllDenote
    <2>4. \A u \in printed' : Denotes(u)'
      BY <2>1, <2>3, DenotesStays
    <2> QED BY <2>4 DEF AllDenote
  <1>4. CASE GenModule \/ GenStruct \/ GenFunctions \/ GenBody
    <2>1. UNCHANGED <<program, scopes, printed>>
      BY <1>4 DEF GenModule, GenStruct, GenFunctions, GenBody
    <2>2. declared \subseteq declared'
      BY <1>4 DEF GenModule, GenStruct, GenFunctions, GenBody, Declaring
    <2>3. \A u \in printed : Denotes(u)'
      BY <2>1, <2>2, DenotesStays DEF AllDenote
    <2> QED BY <2>1, <2>3 DEF AllDenote
  <1>5. CASE GenStructDone \/ GenBodyDone \/ GenModuleDone
    <2>1. UNCHANGED <<program, scopes, printed, declared>>
      BY <1>5 DEF GenStructDone, GenBodyDone, GenModuleDone, codegenVars
    <2>2. \A u \in printed : Denotes(u)'
      BY <2>1, DenotesStays DEF AllDenote
    <2> QED BY <2>1, <2>2 DEF AllDenote
  <1> QED BY <1>1, <1>2, <1>3, <1>4, <1>5 DEF GenNext, Validate, Generate

-----------------------------------------------------------------------------
(* The theorems of C names.                                                *)

Naming ==
  /\ Resolving /\ Resolves
  /\ Spelled(program)
  /\ Remembers /\ DeclaredWell /\ DeclaredSoFar
  /\ Errorless /\ FromTheFirst
  /\ AllDenote

LEMMA NamingInit ==
  ASSUME NEW programs, \A p \in programs : Parsed(p) /\ Spelled(p),
         NEW orders, \A q \in orders : q \in Seq(Modules) /\ q /= <<>>,
         GenInit(programs, orders)
  PROVE  Naming
PROOF
  <1>1. /\ program \in programs /\ resolved = {} /\ phase = "variables" /\ printed = {} /\ declared = {}
        /\ cnames = [k \in {} |-> <<>>]
    BY DEF GenInit, NamesInit
  <1>2. Resolving
    BY ResolvingInit
  <1>3. Remembers /\ DeclaredWell
    BY <1>1 DEF Remembers, DeclaredWell
  <1> QED BY <1>1, <1>2, <1>3
        DEF Naming, Resolves, DeclaredSoFar, Generating, Errorless, Phases, FromTheFirst, AllDenote

LEMMA NamingKept ==
  ASSUME Naming, [GenNext]_allVars
  PROVE  Naming'
PROOF
  <1>1. /\ Building /\ ScopesBuilt /\ Walk /\ GenWalk /\ InBlocks /\ AllScoped /\ RightSoFar /\ Clean
    BY ScopesAreWell DEF Naming, Resolving, Building
  <1>2. /\ Resolves /\ Spelled(program) /\ Remembers /\ DeclaredWell /\ DeclaredSoFar /\ Errorless /\ FromTheFirst
        /\ AllDenote
    BY DEF Naming
  <1>3. Resolving'
    BY ResolvingKept DEF Naming
  <1>4. Resolves'
    BY <1>1, <1>2, ResolvesKept
  <1>5. Spelled(program)'
    BY <1>2, ProgramStays
  <1>6. Remembers' /\ DeclaredWell'
    BY <1>1, <1>2, TablesKept
  <1>7. DeclaredSoFar'
    BY <1>1, <1>2, DeclaredSoFarKept
  <1>8. Errorless' /\ FromTheFirst'
    BY <1>1, <1>2, ErrorlessKept, FromTheFirstKept
  <1>9. AllDenote'
    BY <1>1, <1>2, DenoteKept
  <1> QED BY <1>3, <1>4, <1>5, <1>6, <1>7, <1>8, <1>9 DEF Naming

(* Whatever the modules declare, in whatever order they are generated, two *)
(* objects that share a C name are methods of one name in one module, or   *)
(* one of them has "var", "fn", "struct" or "method" between underscores   *)
(* in its name, or in its module's: the first of these words in a C name   *)
(* ends the module, the last one begins the name, and the tables keep to   *)
(* the name that was made first.                                           *)
THEOREM NamesAreUnique ==
  ASSUME NEW programs, \A p \in programs : Parsed(p) /\ Spelled(p),
         NEW orders, \A q \in orders : q \in Seq(Modules) /\ q /= <<>>
  PROVE  GenInit(programs, orders) /\ [][GenNext]_allVars => []CNamesAreUnique
PROOF
  <1>1. GenInit(programs, orders) => Naming
    BY NamingInit
  <1>2. Naming /\ [GenNext]_allVars => Naming'
    BY NamingKept
  <1>3. Naming => CNamesAreUnique
    <2> SUFFICES ASSUME Naming PROVE CNamesAreUnique
      OBVIOUS
    <2>1. AllScoped
      BY ScopesAreWell DEF Naming, Resolving, Building
    <2> QED BY <2>1, UniqueNames DEF Naming
  <1> QED BY <1>1, <1>2, <1>3, PTL

(* Every name that is printed denotes in C the object the validator found, *)
(* by the blocks of C, whatever the bodies are made of: the exceptions     *)
(* that CNamesDenote lists are the only ones.  For a local variable that   *)
(* is because the validator found what the text means (RightSoFar), and    *)
(* the text means the same in C, but for the initializer of a variable.    *)
THEOREM NamesDenote ==
  ASSUME NEW programs, \A p \in programs : Parsed(p) /\ Spelled(p),
         NEW orders, \A q \in orders : q \in Seq(Modules) /\ q /= <<>>
  PROVE  GenInit(programs, orders) /\ [][GenNext]_allVars => []CNamesDenote
PROOF
  <1>1. GenInit(programs, orders) => Naming
    BY NamingInit
  <1>2. Naming /\ [GenNext]_allVars => Naming'
    BY NamingKept
  <1>3. Naming => CNamesDenote
    BY DEF Naming, AllDenote, Denotes, CNamesDenote
  <1> QED BY <1>1, <1>2, <1>3, PTL
=============================================================================
