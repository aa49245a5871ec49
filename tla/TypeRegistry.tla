---------------------------- MODULE TypeRegistry ----------------------------
(***************************************************************************)
(* The two type tables of a module.  The parser registers a Type in the    *)
(* first one for every type it reads; astModuleAddType() aborts when the   *)
(* name is taken.  The validator then walks that table in hash order and   *)
(* builds the second one: validateType() copies a type and everything it   *)
(* is made of, generateTypeVariants() adds the pointer type of each.       *)
(*                                                                         *)
(* A name is a sequence of words, "&A" is <<"&", "A">>.  An identifier     *)
(* type is registered as the identifier followed by a running number;      *)
(* Spell gives the name that makes, so that MC modules can have            *)
(* identifiers that end in digits.  A type of an imported module has been  *)
(* checked before (ModuleLoading).                                         *)
(***************************************************************************)
EXTENDS Integers, Sequences, FiniteSets

CONSTANTS
  Prims,       \* primitive types, "void" among them
  Idents,      \* identifiers written as type or struct names
  Exports,     \* [modules -> SUBSET Idents]: the structs of each module
  Imported,    \* the modules that this one imports
  Spell,       \* [(Idents \cup modules) \X Nat -> names]: stringTableFormat("%s%u")
  MaxTypes,    \* types written in the file
  MaxStructs,  \* structs declared in it
  MaxParts,    \* fields of a struct, parameters of a function
  MaxFrames    \* frames the C stack holds

Modules == DOMAIN Exports
Here == "this"   \* the module itself, where a module is named
ASSUME PrimsAssumption == "void" \in Prims /\ Prims \cap Idents = {}
ASSUME ImportedAssumption == Imported \subseteq Modules
\* "&" is no identifier and "fn" a keyword; the name of an identifier type starts with it.
ASSUME WordsAssumption ==
  /\ Here \notin Modules
  /\ {"&", "fn", "::"} \cap (Prims \cup Idents \cup Modules) = {}
  /\ \A p \in (Idents \cup Modules) \X (0..(2 * MaxTypes)) : Spell[p][1] \notin {"&", "fn"}
ASSUME BoundsAssumption == {MaxTypes, MaxStructs, MaxParts, MaxFrames} \subseteq Nat

VARIABLES
  parsed,    \* parsedModule->types: name -> Type
  written,   \* types written so far
  counter,   \* state.idTypeCounter
  pending,   \* Array<Type *> of the declaration that is being parsed
  structs,   \* the struct objects: Seq([name, fields])
  checked,   \* checkedModule->types: name -> Type
  todo,      \* what tableMap(), then validateStruct(), has not come to yet
  frames,    \* validateType()'s C stack: Seq([type, next, parts, bad])
  result,    \* what validateType() just returned
  freed,     \* the checked Types given to typeFree()
  hadError,  \* validator.hadError
  phase      \* "parse", "types", "fields", or how it ended

parseVars == <<parsed, written, counter, pending, structs>>
walkVars == <<checked, todo, frames, result, freed, hadError>>
vars == <<parseVars, walkVars, phase>>

Type(kind, name, parts) == [kind |-> kind, name |-> name, parts |-> parts]
Ptr(name) == <<"&">> \o name
Scoped(m, x) == <<m, "::", x>>

\* A checked Type is named by its module and its name.
Ref(module, name) == [module |-> module, name |-> name]
Null == Ref("NULL", <<>>)
None == Ref("none", <<>>)

\* tableSet() for names that are free: a name that is there keeps its Type.
Entry(name, type) == [n \in {name} |-> type]
Added(table, types) ==
  [n \in DOMAIN table \cup DOMAIN types |-> IF n \in DOMAIN table THEN table[n] ELSE types[n]]

-----------------------------------------------------------------------------
(* What parseType() registers for the forms `T`, `m::T`, `&T` and `&m::T`. *)
(* The scope resolution type is added under the name of the module and     *)
(* renamed afterwards.                                                     *)
Forms ==
  [pointer : BOOLEAN, module : {Here}, ident : Prims \cup Idents]
    \cup [pointer : BOOLEAN, module : Modules, ident : Idents]

BaseKey(f) ==
  IF f.module /= Here THEN <<f.module>>
  ELSE IF f.ident \in Prims THEN <<f.ident>> ELSE Spell[<<f.ident, counter>>]
IdType(x, n) == Entry(Spell[<<x, n>>], Type("id", Spell[<<x, n>>], <<x>>))
ScopeType(f) == Entry(BaseKey(f), Type("scope", Scoped(f.module, f.ident), <<f.module, f.ident>>))
BaseTypes(f) ==
  IF f.module /= Here
  THEN Added(Added(IdType(f.module, counter), ScopeType(f)), IdType(f.ident, counter + 1))
  ELSE IF f.ident \in Prims THEN <<>> ELSE IdType(f.ident, counter)

PointerName(f) == Ptr(IF f.module /= Here THEN Scoped(f.module, f.ident) ELSE <<f.ident>>)
PointerType(f) == Entry(PointerName(f), Type("ptr", PointerName(f), <<BaseKey(f)>>))
TypesOf(f) == IF f.pointer THEN Added(BaseTypes(f), PointerType(f)) ELSE BaseTypes(f)

\* astModuleAddType(), with its VERIFY that the name is free.
Free(names) == names \cap DOMAIN parsed = {}

ParseType(f) ==
  /\ phase = "parse"
  /\ written < MaxTypes
  /\ Len(pending) < MaxParts
  /\ IF Free(DOMAIN TypesOf(f))
     THEN /\ parsed' = Added(parsed, TypesOf(f))
          /\ pending' = Append(pending, IF f.pointer THEN PointerName(f) ELSE BaseKey(f))
          /\ counter' = counter + (IF f.module /= Here THEN 2 ELSE IF f.ident \in Prims THEN 0 ELSE 1)
          /\ UNCHANGED phase
     ELSE phase' = "parser abort" /\ UNCHANGED <<parsed, pending, counter>>
  /\ written' = written + 1
  /\ UNCHANGED <<structs, walkVars>>

(* The end of a struct's fields: makeStructType() takes the type that has  *)
(* the name already, whatever it is.  Pointer and void fields and a second *)
(* struct of a name are errors, which end the compilation.                 *)
EndFields(s) ==
  /\ phase = "parse"
  /\ Len(structs) < MaxStructs
  /\ \A i \in DOMAIN structs : structs[i].name /= s
  /\ \A i \in DOMAIN pending : parsed[pending[i]].kind /= "ptr" /\ pending[i] /= <<"void">>
  /\ structs' = Append(structs, [name |-> s, fields |-> pending])
  /\ parsed' = IF <<s>> \in DOMAIN parsed THEN parsed
               ELSE Added(parsed, Entry(<<s>>, Type("struct", <<s>>, pending)))
  /\ pending' = <<>>
  /\ UNCHANGED <<written, counter, walkVars, phase>>

\* The parameter `&this` of a method of the struct that was just read.
ParseThis ==
  /\ phase = "parse"
  /\ pending = <<>>
  /\ structs /= <<>>
  /\ written < MaxTypes
  /\ LET s == <<structs[Len(structs)].name>> IN
       /\ parsed' = IF Ptr(s) \in DOMAIN parsed THEN parsed
                    ELSE Added(parsed, Entry(Ptr(s), Type("ptr", Ptr(s), <<s>>)))
       /\ pending' = <<Ptr(s)>>
  /\ written' = written + 1
  /\ UNCHANGED <<counter, structs, walkVars, phase>>

(* makeFunctionTypeWithParameterTypes(), for functions that return void:   *)
(* the end of a function, or a function type among the pending ones.  The  *)
(* one type of all functions without parameters, fn()->void, is left out.  *)
FunctionName == <<"fn">> \o [i \in DOMAIN pending |-> parsed[pending[i]].name]
MakeFunctionType ==
  /\ phase = "parse"
  /\ pending /= <<>>
  /\ parsed' = IF FunctionName \in DOMAIN parsed THEN parsed
               ELSE Added(parsed, Entry(FunctionName,
                                        Type("fn", FunctionName, Append(pending, <<"void">>))))
  /\ UNCHANGED <<counter, structs, walkVars, phase>>
EndFunction == MakeFunctionType /\ pending' = <<>> /\ UNCHANGED written
ParseFunctionType ==
  MakeFunctionType /\ written < MaxTypes /\ pending' = <<FunctionName>> /\ written' = written + 1

EndVariable ==
  /\ phase = "parse"
  /\ Len(pending) = 1
  /\ pending' = <<>>
  /\ UNCHANGED <<parsed, written, counter, structs, walkVars, phase>>

-----------------------------------------------------------------------------
(* validateModule(): the types.  Identifier types are "validated as used". *)
Frame(k) == [type |-> k, next |-> 0, parts |-> <<>>, bad |-> FALSE]
Callees == {k \in DOMAIN parsed : parsed[k].kind /= "id"}

BeginTypes ==
  /\ phase = "parse"
  /\ pending = <<>>
  /\ phase' = "types"
  /\ todo' = Callees
  /\ UNCHANGED <<parseVars, freed, checked, frames, result, hadError>>

Walking == phase \in {"types", "fields"} /\ frames /= <<>>
Top == frames[Len(frames)]
Ty == parsed[Top.type]

CallValidate ==
  /\ phase \in {"types", "fields"}
  /\ frames = <<>>
  /\ result = None
  /\ \E k \in todo : todo' = todo \ {k} /\ frames' = <<Frame(k)>>
  /\ UNCHANGED <<parseVars, freed, checked, result, hadError, phase>>

Return(ref) == frames' = SubSeq(frames, 1, Len(frames) - 1) /\ result' = ref
Entering == Walking /\ Top.next = 0 /\ result = None

\* "If the type was already validated, the previously validated type will be returned."
Known == Ty.name \in DOMAIN checked
EnterKnown ==
  /\ Entering
  /\ Known
  /\ Return(Ref(Here, Ty.name))
  /\ UNCHANGED <<parseVars, freed, checked, todo, hadError, phase>>

EnterPrimitive ==
  /\ Entering
  /\ ~Known
  /\ Ty.kind = "prim"
  /\ checked' = Added(checked, Entry(Ty.name, Type("prim", Ty.name, <<>>)))
  /\ Return(Ref(Here, Ty.name))
  /\ UNCHANGED <<parseVars, freed, todo, hadError, phase>>

(* A struct is added before its fields are looked at, "to prevent          *)
(* recursion"; pointer and function types are added when they are done.    *)
MutAddedFirst == {}
MutAddedEarly == {"struct", "ptr"}
AddedFirst == {"struct"}
EnterCompound ==
  /\ Entering
  /\ ~Known
  /\ Ty.kind \in {"ptr", "fn", "struct"}
  /\ checked' = IF Ty.kind \in AddedFirst
                THEN Added(checked, Entry(Ty.name, Type(Ty.kind, Ty.name, <<>>))) ELSE checked
  /\ frames' = [frames EXCEPT ![Len(frames)].next = 1]
  /\ UNCHANGED <<parseVars, freed, todo, result, hadError, phase>>

\* The name an identifier type stands for is looked up in the parser's table.
MutDeclared(name) == name \in DOMAIN checked
Declared(name) == name \in DOMAIN parsed
EnterIdentifier ==
  /\ Entering
  /\ ~Known
  /\ Ty.kind = "id"
  /\ IF Declared(Ty.parts)
     THEN frames' = [frames EXCEPT ![Len(frames)] = Frame(Ty.parts)] /\ UNCHANGED <<result, hadError>>
     ELSE Return(Null) /\ hadError' = TRUE
  /\ UNCHANGED <<parseVars, freed, checked, todo, phase>>

\* A type that the imported module does not have is NULL without an error.
EnterScoped ==
  /\ Entering
  /\ ~Known
  /\ Ty.kind = "scope"
  /\ IF Ty.parts[1] \in Imported /\ Ty.parts[2] \in Exports[Ty.parts[1]]
     THEN Return(Ref(Ty.parts[1], <<Ty.parts[2]>>))
     ELSE Return(Null)
  /\ hadError' = (hadError \/ Ty.parts[1] \notin Imported)
  /\ UNCHANGED <<parseVars, freed, checked, todo, phase>>

CallPart ==
  /\ Walking
  /\ result = None
  /\ Top.next \in 1..Len(Ty.parts)
  /\ IF Len(frames) = MaxFrames
     THEN phase' = "overflow" /\ UNCHANGED frames
     ELSE frames' = Append(frames, Frame(Ty.parts[Top.next])) /\ UNCHANGED phase
  /\ UNCHANGED <<parseVars, freed, checked, todo, result, hadError>>

\* The validated part is kept; fields go straight into the struct's Type.
PartDone ==
  /\ Walking
  /\ result /= None
  /\ LET parts == IF result = Null THEN Top.parts ELSE Append(Top.parts, result) IN
       /\ frames' = [frames EXCEPT ![Len(frames)] =
            [type |-> Top.type, next |-> Top.next + 1, parts |-> parts, bad |-> Top.bad \/ result = Null]]
       /\ checked' = IF Ty.kind = "struct" /\ Known THEN [checked EXCEPT ![Ty.name].parts = parts] ELSE checked
  /\ result' = None
  /\ UNCHANGED <<parseVars, freed, todo, hadError, phase>>

(* A function type with a bad part frees its good parameters, which are    *)
(* the Types of the table; the return type is the last part.               *)
Parameters == {Top.parts[i] : i \in 1..(Len(Top.parts) - 1)}
CompoundDone ==
  /\ Walking
  /\ result = None
  /\ Top.next > Len(Ty.parts)
  /\ Top.next > 0
  /\ checked' = IF Top.bad \/ Ty.name \in DOMAIN checked THEN checked
                ELSE Added(checked, Entry(Ty.name, Type(Ty.kind, Ty.name, Top.parts)))
  /\ Return(IF Top.bad THEN Null ELSE Ref(Here, Ty.name))
  /\ freed' = IF Top.bad /\ Ty.kind = "fn" THEN freed \cup Parameters ELSE freed
  /\ UNCHANGED <<parseVars, todo, hadError, phase>>

(* The callback of tableMap() goes on to generateTypeVariants(), which     *)
(* asks the parser's table whether the pointer type is still to come.      *)
KindOf(ref) == IF ref.module = Here THEN checked[ref.name].kind ELSE "struct"
MutStillToCome(name) == FALSE
MutAlwaysThere(name) == Tail(name) \in DOMAIN parsed
StillToCome(name) == name \in DOMAIN parsed
TypeDone ==
  /\ phase = "types"
  /\ frames = <<>>
  /\ result /= None
  /\ LET ptr == Ptr(result.name) IN
     IF result = Null \/ KindOf(result) \in {"ptr", "fn"} \/ StillToCome(ptr)
     THEN UNCHANGED <<checked, phase>>
     ELSE IF ptr \in DOMAIN checked
     THEN phase' = "validator abort" /\ UNCHANGED checked
     ELSE checked' = Added(checked, Entry(ptr, Type("ptr", ptr, <<result>>))) /\ UNCHANGED phase
  /\ result' = None
  /\ UNCHANGED <<parseVars, freed, todo, frames, hadError>>

(* Without errors the structs are next: validateStruct() validates the     *)
(* type of every field object and VERIFYs that there is one.               *)
EndTypes ==
  /\ phase = "types"
  /\ frames = <<>> /\ result = None /\ todo = {}
  /\ phase' = IF hadError THEN "rejected" ELSE "fields"
  /\ todo' = UNION {{structs[i].fields[j] : j \in DOMAIN structs[i].fields} : i \in DOMAIN structs}
  /\ UNCHANGED <<parseVars, freed, checked, frames, result, hadError>>

FieldDone ==
  /\ phase = "fields"
  /\ frames = <<>>
  /\ result /= None
  /\ phase' = IF result = Null THEN "field abort" ELSE phase
  /\ result' = None
  /\ UNCHANGED <<parseVars, freed, checked, todo, frames, hadError>>

EndFieldTypes ==
  /\ phase = "fields"
  /\ frames = <<>> /\ result = None /\ todo = {}
  /\ phase' = IF hadError THEN "rejected" ELSE "accepted"
  /\ UNCHANGED <<parseVars, walkVars>>

-----------------------------------------------------------------------------
Parse ==
  \/ \E f \in Forms : ParseType(f)
  \/ \E s \in Idents : EndFields(s)
  \/ ParseThis \/ EndFunction \/ ParseFunctionType \/ EndVariable
ValidateType ==
  \/ EnterKnown \/ EnterPrimitive \/ EnterCompound \/ EnterIdentifier \/ EnterScoped
  \/ CallPart \/ PartDone \/ CompoundDone
ValidateModule ==
  \/ BeginTypes \/ CallValidate \/ TypeDone \/ EndTypes \/ FieldDone \/ EndFieldTypes
Next == Parse \/ ValidateType \/ ValidateModule

\* import_primitive_types() has run; the validator has not.
Init ==
  /\ parsed = [n \in {<<p>> : p \in Prims} |-> Type("prim", n, <<>>)]
  /\ written = 0 /\ counter = 0
  /\ pending = <<>> /\ structs = <<>>
  /\ checked = <<>>
  /\ todo = {} /\ frames = <<>>
  /\ result = None
  /\ freed = {}
  /\ hadError = FALSE
  /\ phase = "parse"

Spec == Init /\ [][Next]_vars /\ WF_vars(ValidateType \/ ValidateModule)

-----------------------------------------------------------------------------
Kinds == {"prim", "ptr", "fn", "struct", "id", "scope"}
Ended == {"parser abort", "validator abort", "field abort", "rejected", "accepted"}
RegistryTypeOK ==
  /\ \A k \in DOMAIN parsed : parsed[k].kind \in Kinds
  /\ \A k \in DOMAIN checked : checked[k].kind \in Kinds \ {"id", "scope"} /\ checked[k].name = k
  /\ written \in 0..MaxTypes /\ counter \in 0..(2 * MaxTypes)
  /\ \A i \in DOMAIN pending : pending[i] \in DOMAIN parsed
  /\ todo \subseteq DOMAIN parsed
  /\ \A i \in DOMAIN frames : frames[i].type \in DOMAIN parsed
  /\ hadError \in BOOLEAN
  /\ phase \in {"parse", "types", "fields", "overflow"} \cup Ended

\* What a type of the parser's table means.
Target(k) == IF parsed[k].kind = "id" THEN parsed[k].parts ELSE k
Meaning(k) ==
  IF parsed[Target(k)].kind = "scope"
  THEN Ref(parsed[Target(k)].parts[1], <<parsed[Target(k)].parts[2]>>)
  ELSE Ref(Here, Target(k))
Missing(k) ==
  parsed[k].kind = "scope" /\ parsed[k].parts[1] \in Imported /\ parsed[k].parts[2] \notin Exports[parsed[k].parts[1]]
NothingMissing == \A k \in DOMAIN parsed : ~Missing(k)

(* The validator's table mirrors the parser's: in whatever order the hash  *)
(* table is walked, and through whatever recursion a type was reached,     *)
(* every type ends up in the new table once, of the same kind and made of  *)
(* what its parts mean; a struct has all its fields.  None of them is one  *)
(* of the parameter types that a function type with a bad part frees.      *)
MirrorsParsed ==
  phase \in {"fields", "accepted"} /\ NothingMissing =>
    \A k \in DOMAIN parsed : parsed[k].kind \notin {"id", "scope"} =>
      /\ k \in DOMAIN checked
      /\ checked[k].kind = parsed[k].kind
      /\ checked[k].parts = [i \in DOMAIN parsed[k].parts |-> Meaning(parsed[k].parts[i])]
      /\ Ref(Here, k) \notin freed

(* Every type that is not itself a pointer or a function has its pointer   *)
(* type, which the code that takes addresses relies on, and the pointer    *)
(* type named "&T" points to a T.                                          *)
EveryTypeHasPointer ==
  phase \in {"fields", "accepted"} /\ NothingMissing =>
    \A n \in DOMAIN checked :
      /\ checked[n].kind \notin {"ptr", "fn"} => Ptr(n) \in DOMAIN checked
      /\ checked[n].kind = "ptr" /\ Len(n) = 2 => checked[n].parts[1].name = Tail(n)

(* A module that uses no type of another one never makes astModuleAddType()*)
(* abort in the validator: the pointer types that generateTypeVariants()   *)
(* invents and those that were written never meet.                         *)
AbortsOnlyOnImportedTypes ==
  /\ phase = "validator abort" => \E k \in DOMAIN parsed : parsed[k].kind = "scope"
  /\ phase = "field abort" => ~NothingMissing

(* An error is reported exactly when an identifier that some type is made  *)
(* of names nothing, or a module is named that is not imported.            *)
Dangling(k) ==
  \/ parsed[k].kind = "id" /\ parsed[k].parts \notin DOMAIN parsed
  \/ parsed[k].kind = "scope" /\ parsed[k].parts[1] \notin Imported
ErrorsAreTrue ==
  /\ phase = "rejected" => \E k \in DOMAIN parsed : Dangling(k)
  /\ phase = "accepted" =>
       \A k \in Callees : \A i \in DOMAIN parsed[k].parts :
         parsed[k].kind /= "scope" => ~Dangling(parsed[k].parts[i])

(* validateType() recurses through structs that mention each other, and    *)
(* through themselves; adding a struct before its fields bounds the C      *)
(* stack and ends the walk over the types and the one over the fields.     *)
ValidationEnds == phase = "types" ~> phase \in Ended

-----------------------------------------------------------------------------
(* "VERIFY(astModuleGetType(module, ty->name) == NULL)" (Module.c:104)     *)
(* while parsing: a type may be written twice.                             *)
TypesMayRepeat == phase /= "parser abort"

(* A field's checked type is "Guaranteed to exist I think (type validation *)
(* in module)??" (Validator.c:944).                                        *)
FieldTypesExist == phase /= "field abort"

(* "the actual name of the type the ID type refers to is in the            *)
(* as.id.actualName field" (Type.h:23): an identifier type means the       *)
(* struct of that name.                                                    *)
IdentifiersMeanTheirStruct ==
  phase = "accepted" =>
    \A i \in DOMAIN structs : \A j \in DOMAIN structs[i].fields :
      LET k == structs[i].fields[j] IN
        parsed[k].kind = "id" /\ parsed[k].parts \in {<<structs[n].name>> : n \in DOMAIN structs} =>
          /\ <<structs[i].name>> \in DOMAIN checked
          /\ checked[<<structs[i].name>>].parts[j] = Ref(Here, parsed[k].parts)

(* "A Module also owns and maintains a type table" (Module.h:16): the      *)
(* Types in it are not freed while it exists.                              *)
OwnedTypesLive == \A r \in freed : r.module = Here => r.name \notin DOMAIN checked
=============================================================================
