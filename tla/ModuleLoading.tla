--------------------------- MODULE ModuleLoading ---------------------------
(***************************************************************************)
(* How a program of several files becomes a list of checked modules.  The  *)
(* compiler keeps a queue of files; the scanner goes through it without    *)
(* being asked and marks the border between two files with a token; the    *)
(* parser makes a module of the tokens up to that border and appends to    *)
(* the queue the files it finds imported; the validator sorts the modules  *)
(* by their imports (TopoSort) and checks them in that order.              *)
(*                                                                         *)
(* The parser is always one token ahead: when it handles an item, the      *)
(* first token of the next one has been fetched, and with it perhaps the   *)
(* next file.  A file is a sequence of items: an import, a declaration, or *)
(* one with a syntax error in it.  `current` is the first token of an      *)
(* item, the border between two files, or the end of the queue.            *)
(***************************************************************************)
EXTENDS TopoSort

CONSTANTS
  Paths,     \* what stands between the quotes of an import
  Base(_),   \* the name of the file at a path, without its directory
  Main,      \* the file given to the compiler
  Decls,     \* names of declarations
  MaxFiles   \* bound: the queue of a parse that does not end is cut off here

ASSUME PathsAssumption ==
  /\ Paths \cup {Base(p) : p \in Paths} \subseteq Names
  /\ Main \in Paths
  /\ \A p, q \in Paths : Base(p) = Base(q) => p = q
  /\ \A p \in Paths : Base(p) \in Paths => Base(Base(p)) = Base(p)
ASSUME ValidatorAssumption == Client = "validator"

VARIABLES
  disk,         \* the file at each path
  files,        \* Compiler.files
  currentFile,  \* Compiler.current_file, from 1; 0 before it is initialized
  rest,         \* what the scanner has not scanned of its source
  current,      \* Parser.state.current_token
  modules,      \* parsedProgram.modules
  needSync,     \* Parser.state.need_sync
  failedDecl,   \* failedInFunctionDecl
  hadError,     \* Parser.state.had_error
  errors,       \* Compiler.errors: what they are about
  checked,      \* checkedProgram.modules
  invalid       \* Validator.hadError

scannerVars   == <<currentFile, rest, current>>
parserVars    == <<modules, needSync, failedDecl, hadError>>
validatorVars == <<checked, invalid>>
vars == <<sortVars, disk, files, errors, scannerVars, parserVars, validatorVars>>

\* Everything of the sort but `phase`, which the whole front end shares.
graphVars == <<nodes, uses, dependencies, stack, output, node, next>>

Import(p)   == [kind |-> "import", of |-> p]
Decl(x)     == [kind |-> "decl", of |-> x]
BadVar      == [kind |-> "badvar", of |-> NoName]
BadFn       == [kind |-> "badfn", of |-> NoName]
FileChanged == [kind |-> "file_changed", of |-> NoName]
Eof         == [kind |-> "eof", of |-> NoName]
Items  == {Import(p) : p \in Paths} \cup {Decl(x) : x \in Decls} \cup {BadVar, BadFn}
Tokens == Items \cup {FileChanged, Eof}

Missing     == [state |-> "missing", items |-> <<>>]
Unreadable  == [state |-> "unreadable", items |-> <<>>]
File(items) == [state |-> "readable", items |-> items]

NewModule(name) == [name |-> name, imports |-> {}, decls |-> {}]
ThisModule == Len(modules)
ModuleNames == {modules[i].name : i \in DOMAIN modules}
ModuleOf(name) == CHOOSE i \in DOMAIN modules : modules[i].name = name

-----------------------------------------------------------------------------
(* The scanner.                                                            *)
MutHasNextFile == currentFile + 1 < Len(files)
HasNextFile == currentFile < Len(files)
NextFile == disk[files[currentFile + 1]]
ReadError == IF NextFile.state = "readable" THEN {} ELSE {"unreadable"}

(* scannerNextToken(), on the queue as it is before the caller adds to it. *)
(* A next file that cannot be read is recorded as an error and leaves the  *)
(* scanner with the source it had, at its end.                             *)
Advance(newErrors) ==
  IF rest /= <<>>
  THEN /\ current' = Head(rest)
       /\ rest' = Tail(rest)
       /\ errors' = errors \cup newErrors
       /\ UNCHANGED currentFile
  ELSE IF HasNextFile
  THEN /\ current' = FileChanged
       /\ rest' = NextFile.items
       /\ currentFile' = currentFile + 1
       /\ errors' = errors \cup newErrors \cup ReadError
  ELSE /\ current' = Eof
       /\ errors' = errors \cup newErrors
       /\ UNCHANGED <<rest, currentFile>>

-----------------------------------------------------------------------------
(* The parser.                                                             *)

(* parserParse() fetches the first token; only here does the scanner tell  *)
(* that it has no source.                                                  *)
Start ==
  /\ phase = "start"
  /\ currentFile' = 1
  /\ LET items == Append(NextFile.items, Eof) IN
       /\ current' = Head(items)
       /\ rest' = IF NextFile.items = <<>> THEN <<>> ELSE Tail(NextFile.items)
  /\ errors' = errors \cup ReadError
  /\ phase' = IF NextFile.state = "readable" THEN "modules" ELSE "parse_failure"
  /\ UNCHANGED <<graphVars, disk, files, parserVars, validatorVars>>

(* A module is named after the file the scanner is in.  The parser keeps   *)
(* the id of the last module, and a new body insists on it being 0.        *)
BeginModule ==
  /\ phase = "modules"
  /\ current /= Eof
  /\ modules' = Append(modules, NewModule(Base(files[currentFile])))
  /\ failedDecl' = FALSE
  /\ phase' = IF Len(modules) > 1 THEN "verify_failed" ELSE "body"
  /\ UNCHANGED <<graphVars, disk, files, errors, scannerVars, needSync, hadError, validatorVars>>

(* After an item the parser synchronizes if it needs to.                   *)
MutAfterItem(sync) == phase' = "sync" /\ needSync' = FALSE
AfterItem(sync) ==
  /\ phase' = IF sync THEN "sync" ELSE "body"
  /\ needSync' = FALSE

ParseDecl ==
  /\ phase = "body"
  /\ current.kind = "decl"
  /\ LET redeclared == current.of \in modules[ThisModule].decls IN
       /\ Advance(IF redeclared THEN {"redeclared"} ELSE {})
       /\ modules' = [modules EXCEPT ![ThisModule].decls = @ \cup {current.of}]
       /\ hadError' = (hadError \/ redeclared)
       /\ AfterItem(needSync \/ redeclared)
  /\ UNCHANGED <<graphVars, disk, files, failedDecl, validatorVars>>

ParseBad ==
  /\ phase = "body"
  /\ current.kind \in {"badvar", "badfn"}
  /\ Advance({"syntax"})
  /\ hadError' = TRUE
  /\ failedDecl' = (failedDecl \/ current.kind = "badfn")
  /\ AfterItem(TRUE)
  /\ UNCHANGED <<graphVars, disk, files, modules, validatorVars>>

(* The token after the ';' is fetched before the file is looked for.  An   *)
(* import that is not found ends in `continue`: it leaves need_sync set,   *)
(* and the parser synchronizes after the next item.                        *)
Queued(p) == Append(files, p)

Exists(p) == disk[p].state /= "missing"

ParseImport ==
  /\ phase = "body"
  /\ current.kind = "import"
  /\ LET p == current.of IN
       IF Exists(p) /\ Len(files) = MaxFiles
       THEN phase' = "endless" /\ UNCHANGED <<files, errors, scannerVars, modules, needSync, hadError>>
       ELSE IF Exists(p)
       THEN /\ Advance({})
            /\ files' = Queued(p)
            /\ modules' = [modules EXCEPT ![ThisModule].imports = @ \cup {p}]
            /\ AfterItem(needSync)
            /\ UNCHANGED hadError
       ELSE /\ Advance({"missing"})
            /\ hadError' = TRUE
            /\ needSync' = TRUE
            /\ UNCHANGED <<files, modules, phase>>
  /\ UNCHANGED <<graphVars, disk, failedDecl, validatorVars>>

(* Synchronizing passes over every token that begins no declaration, the   *)
(* border between two files included; after a function or struct that      *)
(* failed, over variables and imports too, to the end of the module.       *)
MutSyncStops == IF failedDecl THEN {"decl", "badfn"} ELSE {"decl", "badvar", "badfn", "import"}
SyncStops ==
  IF failedDecl THEN {"eof", "decl", "badfn"} ELSE {"eof", "decl", "badvar", "badfn", "import"}

SyncSkip ==
  /\ phase = "sync"
  /\ current.kind \notin SyncStops
  /\ Advance({})
  /\ UNCHANGED <<graphVars, phase, disk, files, parserVars, validatorVars>>

SyncDone ==
  /\ phase = "sync"
  /\ current.kind \in SyncStops
  /\ phase' = "body"
  /\ UNCHANGED <<graphVars, disk, files, errors, scannerVars, parserVars, validatorVars>>

(* The body ends at the border, which is consumed, or at the end.          *)
MutBodyFailed == FALSE
BodyFailed == hadError

EndModule ==
  /\ phase = "body"
  /\ current \in {FileChanged, Eof}
  /\ IF current = Eof THEN UNCHANGED <<scannerVars, errors>> ELSE Advance({})
  /\ phase' = IF BodyFailed THEN "parse_failure" ELSE "modules"
  /\ UNCHANGED <<graphVars, disk, files, parserVars, validatorVars>>

Parse ==
  \/ Start \/ BeginModule \/ ParseDecl \/ ParseBad \/ ParseImport
  \/ SyncSkip \/ SyncDone \/ EndModule

-----------------------------------------------------------------------------
(* The validator.                                                          *)
Orders(S) == {s \in [1..Cardinality(S) -> S] : Elements(s) = S}

ImportsOf(name) == IF name \in ModuleNames THEN modules[ModuleOf(name)].imports ELSE {}

(* The imports of a module come in the order of a hash table.              *)
BeginValidation ==
  /\ phase = "modules"
  /\ current = Eof
  /\ nodes' = [i \in DOMAIN modules |-> modules[i].name]
  /\ \E order \in [ModuleNames -> UNION {Orders(S) : S \in SUBSET Paths}] :
       /\ \A n \in ModuleNames : Elements(order[n]) = ImportsOf(n)
       /\ uses' = [n \in Names |-> IF n \in ModuleNames THEN order[n] ELSE <<>>]
  /\ phase' = "count"
  /\ UNCHANGED <<dependencies, stack, output, node, next, disk, files, errors, scannerVars,
                 parserVars, validatorVars>>

SortModules ==
  /\ SortNext
  /\ UNCHANGED <<disk, files, errors, scannerVars, parserVars, validatorVars>>

MutCyclic == FALSE
Cyclic == phase = "incomplete"

(* The sort reports the modules it has not sorted and returns true all the *)
(* same.                                                                   *)
Sorted ==
  /\ phase \in {"sorted", "incomplete"}
  /\ invalid' = Cyclic
  /\ errors' = IF Cyclic THEN errors \cup {"cyclic"} ELSE errors
  /\ next' = 1
  /\ phase' = "validate"
  /\ UNCHANGED <<nodes, uses, dependencies, stack, output, node, disk, files, scannerVars,
                 parserVars, checked>>

(* Imports get the index of the module that has their name; one without    *)
(* is UNREACHABLE().  After an error anywhere the rest of a module is left *)
(* out.  Whether the rest holds is up to the declarations.                 *)
ValidateModule ==
  /\ phase = "validate"
  /\ next <= Len(output)
  /\ LET name == output[next]
         imports == ImportsOf(name)
     IN  IF ~(imports \subseteq ModuleNames)
         THEN /\ phase' = "unreachable"
              /\ UNCHANGED <<next, errors, validatorVars>>
         ELSE \E valid \in BOOLEAN :
                /\ checked' = Append(checked, [id |-> ModuleOf(name),
                                               imports |-> {<<p, ModuleOf(p)>> : p \in imports},
                                               whole |-> ~invalid /\ valid])
                /\ invalid' = (invalid \/ ~valid)
                /\ errors' = IF ~invalid /\ ~valid THEN errors \cup {"semantic"} ELSE errors
                /\ next' = next + 1
                /\ UNCHANGED phase
  /\ UNCHANGED <<nodes, uses, dependencies, stack, output, node, disk, files, scannerVars, parserVars>>

EndValidation ==
  /\ phase = "validate"
  /\ next > Len(output)
  /\ phase' = IF invalid THEN "validate_failure" ELSE "accepted"
  /\ UNCHANGED <<graphVars, disk, files, errors, scannerVars, parserVars, validatorVars>>

Validate == BeginValidation \/ SortModules \/ Sorted \/ ValidateModule \/ EndValidation

-----------------------------------------------------------------------------
\* disks: [Paths -> files].
LoadInit(disks) ==
  /\ disk \in disks
  /\ files = <<Main>>
  /\ currentFile = 0
  /\ rest = <<>>
  /\ current = Eof
  /\ modules = <<>>
  /\ needSync = FALSE
  /\ failedDecl = FALSE
  /\ hadError = FALSE
  /\ errors = {}
  /\ checked = <<>>
  /\ invalid = FALSE
  /\ nodes = <<>>
  /\ uses = [n \in Names |-> <<>>]
  /\ dependencies = [n \in {} |-> 0]
  /\ stack = <<>>
  /\ output = <<>>
  /\ node = NoName
  /\ next = 1
  /\ phase = "start"

Next == Parse \/ Validate

\* Any disk; what cannot be read has no items.
AllDisks ==
  {disks \in [Paths -> [state : {"missing", "unreadable", "readable"}, items : Seq(Items)]] :
     \A p \in Paths : disks[p].state /= "readable" => disks[p].items = <<>>}

LoadSpec == LoadInit(AllDisks) /\ [][Next]_vars

Outcomes == {"accepted", "parse_failure", "validate_failure", "verify_failed", "unreachable", "crash", "endless"}

LoadTypeOK ==
  /\ \A p \in Paths : disk[p].state \in {"missing", "unreadable", "readable"}
                      /\ disk[p].items \in Seq(Items)
  /\ files \in Seq(Paths)
  /\ currentFile \in 0..Len(files)
  /\ rest \in Seq(Items)
  /\ current \in Tokens
  /\ \A i \in DOMAIN modules : /\ modules[i].name \in Names
                               /\ modules[i].imports \subseteq Paths
                               /\ modules[i].decls \subseteq Decls
  /\ needSync \in BOOLEAN /\ failedDecl \in BOOLEAN /\ hadError \in BOOLEAN /\ invalid \in BOOLEAN
  /\ errors \subseteq {"unreadable", "redeclared", "syntax", "missing", "cyclic", "semantic"}
  /\ phase \in SortPhases \cup Outcomes \cup {"start", "modules", "body", "sync", "validate"}

-----------------------------------------------------------------------------
\* What a file of the disk declares and imports.
DeclsIn(p) == {x \in Decls : Decl(x) \in Elements(disk[p].items)}
ImportsIn(p) == {q \in Paths : Import(q) \in Elements(disk[p].items)}

\* Main and what it imports, directly or not.
Program ==
  LET Closed(S) == \A p \in S : ImportsIn(p) \subseteq S
  IN  {p \in Paths : \A S \in SUBSET Paths : Main \in S /\ Closed(S) => p \in S}

\* Some file of the program imports itself, directly or not.
CyclicDisk ==
  \E S \in SUBSET Paths : S /= {} /\ \A p \in S : ImportsIn(p) \cap S /= {}

(* A program that is accepted is all of what is on the disk: each file     *)
(* that Main imports, directly or not, is a module checked once, with the  *)
(* declarations of that file and no others, wherever in the files the      *)
(* imports stand, whatever files are empty or cannot be read.  A Main with *)
(* nothing in it is accepted as no module at all.                          *)
AcceptedIsWhole ==
  phase = "accepted" /\ disk[Main].items /= <<>> =>
    /\ \A p \in Program : Cardinality({k \in DOMAIN checked : modules[checked[k].id].name = Base(p)}) = 1
    /\ Len(checked) = Cardinality(Program)
    /\ \A p \in Program : modules[ModuleOf(Base(p))].decls = DeclsIn(p)

(* When the declarations of a module are checked, every module it imports  *)
(* has been checked whole before it: names are looked up in checked        *)
(* modules only.                                                           *)
ImportsCheckedFirst ==
  \A k \in DOMAIN checked : checked[k].whole =>
    \A i \in checked[k].imports : \E j \in 1..(k - 1) : checked[j].id = i[2] /\ checked[j].whole

(* "It would be an error for a to import b, and for b to import a          *)
(* (directly or indirectly)" (Validator.c:1252): modules that import each  *)
(* other are not accepted, even where the parser never sees the second     *)
(* import's file.                                                          *)
CyclesAreErrors ==
  phase = "accepted" =>
    \A S \in SUBSET ModuleNames : S /= {} => \E m \in S : ImportsOf(m) \cap S = {}

(* A module whose text follows another's is not given its declarations     *)
(* unless an error was met: only synchronizing passes the border.          *)
BordersKept ==
  ~hadError =>
    \A i \in DOMAIN modules : \A x \in modules[i].decls : \E p \in Paths :
      Base(p) = modules[i].name /\ x \in DeclsIn(p)

(* When the validator begins, an import has its module unless its file has *)
(* nothing in it, is not in the main file's directory, or is the last of   *)
(* the queue and imported at the very end of the file before it, where the *)
(* scanner has found the end of the queue already.  Those are the programs *)
(* that reach UNREACHABLE() (Validator.c:1092).                            *)
ImportsHaveModules ==
  phase = "count" =>
    \A i \in DOMAIN modules : \A p \in modules[i].imports :
      \/ p \in ModuleNames
      \/ disk[p].items = <<>> \/ Base(p) /= p
      \/ /\ p = files[Len(files)]
         /\ LET before == disk[files[Len(files) - 1]].items IN before[Len(before)] = Import(p)

(* "If we are parsing a module body, there shouldn't be an existing        *)
(* current module." (Parser.c:1246)                                        *)
NoCurrentModule == phase /= "verify_failed"

(* After a file that cannot be read "the error was already reported [...]  *)
(* the parser thinks we are at the end of the input and will exit so       *)
(* errors can be printed" (Scanner.c:312): they are printed for a program  *)
(* that is rejected.                                                       *)
ReadErrorsArePrinted == phase = "accepted" => "unreadable" \notin errors

(* The border between two files is "End of module. exit." (Parser.c:1288): *)
(* no step takes it from the parser but the one that ends the module.      *)
BorderEndsModule ==
  [][current = FileChanged /\ phase = "sync" => current' = FileChanged]_vars

(* "If the Validator is called, then all imports in the parsedProgram MUST *)
(* exist." (Validator.c:1091)                                              *)
ImportsExist ==
  phase = "count" => \A i \in DOMAIN modules : modules[i].imports \subseteq ModuleNames
=============================================================================
