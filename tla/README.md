# A verification of the ilc compiler

`ilc` (`src/compiler`) compiles the language of `src/SPEC.md` to C. It is a
single-threaded program that runs once and exits, so there are no races,
messages or restarts. What is hard about it is order and recursion: hash tables
are walked in an order nobody chooses, walks over cyclic data have to end,
errors are recovered from half way through a function, and each phase trusts
what the phase before it let through. The modules here model those parts, TLC
checks them on small instances, and TLAPS proves the theorems of the sort of
types and modules, of the check for recursive structs, of the loading of modules,
of the hash table, of the scanner, of the parser's recovery from errors, of
the type tables, of the resolution of names and of the names in C.

Contents: [inventory](#inventory) · [modules](#modules) ·
[runs](#runs) · [fairness](#fairness-and-stopping) · [proofs](#proofs) ·
[disagreements](#disagreements-with-the-documents-and-comments) ·
[limits](#what-is-not-modelled) · [plan](#plan)

## Inventory

`main.c` runs the phases one after the other: it queues the main file, calls
`parserParse()`, `validatorValidate()`, `typecheckerTypecheck()` and
`codegenGenerate()`, and stops at the first that fails. The phases share a
parsed and a checked program (`ASTProgram`: modules, each with a scope, a type
table and an array of imports) and report errors through the `Compiler`.

| Component (source) | State | Operations | What makes it correct |
|---|---|---|---|
| Driver (`main.c`) | the phase | run the phases, print errors | no phase works on what an earlier one refused |
| Compiler (`Compiler.c`) | queue of files, cursor, errors | add a file, take the next, read it, add an error | every file of the program is read |
| Scanner (`Scanner.c`) | source, start and current position, depth of a comment | skip blanks and comments, scan a token; next file at the end of one | tokens are exact, comments nest, strings close; a border token between any two files, one end of input |
| Parser (`Parser.c`) | token, current module and scope, `had_error`, `need_sync`, the C stack | one function per production, `enterScope`/`leaveScope`, synchronise | ends; scopes match the braces; nothing from another file in a module |
| Type tables (`Parser.c`, `Validator.c`, `Module.c`) | one table of types per module, parsed and checked | register, validate, add pointer variants | each type once, made of what its parts mean |
| Validator: modules (`Validator.c`) | sorted modules, module being checked | sort by imports, validate each | imports checked first, cycles refused |
| Validator: names (`Validator.c`, `Scope.c`) | checked scopes, current scope, current function | enter/leave a scope, declare, look up | each name means what the text says |
| Expressions (`Parser.c`, `Validator.c`, `Typechecker.c`, `Codegen.c`) | the C stack of `parsePrecedence()`, the tree, its types, `isInCall` | parse by precedence, validate, compare types, print | one tree per text, accepted when well-typed, C of the same meaning |
| Function bodies (`Codegen.c`) | `defersInCurrentFn`, `currentFn` | print statements, remember defers, print the exit | the C does what the statements say |
| Typechecker (`Typechecker.c`) | the C stack of the recursive walk | visit struct fields | no struct that contains itself passes |
| Code generator (`Codegen.c`) | sorted types, two caches of C names, output | sort, mangle | valid C that denotes what was resolved |
| Table (`Table.c`) | capacity, items, count | set, get, delete, clear, grow | a dictionary; every search ends |
| Array, Strings, Arena (`Array.c`, `Strings.c`, `Arena.c`) | growing memory | push, pop, insert, delete, allocate | what was stored is kept |
| StringTable, Error, Token, AST nodes | interned names, messages, immutable nodes | construct, print | |
| Tester (`tester.cpp`) | | compares outputs with comments of `*.ilc` | read here as statements about the compiler |

How they interact: by calls and by shared state. The parser appends to the
compiler's queue while the scanner moves along it; the scanner reads a token
ahead of the parser; the validator reads the parsed program and builds the
checked one next to it; the code generator reads the checked program and
trusts the typechecker to have refused recursive structs. Callbacks are those
of `tableMap()`: they are the reason why scopes and types are met in any order.

Hard behaviour, by kind (each with its line in `PROJECT.json`, `hazards`):

* order of a hash table: sorts, type tables, scopes, printed declarations;
* recursion without a visited set: recursive structs, struct types that mention each other;
* recovery: early returns between entering and leaving a scope, flags that survive (`need_sync`, `had_error`, `current.module`), blocks that are skipped;
* a phase that trusts another: the code generator's abort, `UNREACHABLE` for imports, `VERIFY` for types;
* a stale key: types and C names remembered under a name that is not unique;
* limits: load factor of the table, depth of the C stack, eight-bit counters, the character behind the end of the text;
* data that decides control: the table of precedences, whose one wrong number no test of a single operator shows;
* a flag that outlives its scope: `isInCall` behind a nested call, the defers of another function.

## Modules

    TopoSort  <--EXTENDS--  StructTypes      (typechecker, then codegen's sort)
        ^  <------EXTENDS--  ModuleLoading    (files, scanner, parser, validator's sort)
        |
    TopoSort_proofs <- StructTypes_proofs, ModuleLoading_proofs
    Dictionary <--INSTANCE-- HashTable <- HashTable_proofs
    Scanner <- FrontEnd_proofs                (characters to tokens)
    ParserRecovery <- FrontEnd_proofs         (declarations and statements)
    TypeRegistry <- TypeRegistry_proofs       (type tables)
    ExpressionParser <--EXTENDS-- Expressions (parse, validate, typecheck, print)
    NameResolution <--EXTENDS-- GeneratedNames (names, then codegen's names)
                                    ^-- GeneratedNames_proofs
    BodySemantics <--INSTANCE-- FunctionBodies (statements, and the C they become)
                                    ^-- FunctionBodies_proofs

`MC*.tla` give the constants their values for TLC and add a stuttering step
where the program has come to its end, so that TLC's deadlock check still finds
every other state without a successor. Definitions called `Mut...` are wrong variants
of a definition of the code (a dropped guard, an off-by-one, a missing reset);
nothing uses them. `PROJECT.json`, `mutants`, lists, for each property, the variant that
breaks it: it is the evidence that the property is about the code.

### TopoSort

`topologicallySortTypes()` (Codegen.c) and `topographicallySortModules()`
(Validator.c) are the same algorithm written twice; `Client` chooses the few
points where they differ (which asserts on what, whether an incomplete result
is an error or an abort). Variables are the function's locals: `nodes`,
`dependencies`, `stack`, `output`; `node` and `next` say where the loops are.
Actions: `CountUses` and `Seed`, `SeedDone` (the first two loops), `Pop`,
`CrossOff`, `CrossedOff` (the main loop and its inner loop), `Finish`.

### StructTypes

`isRecursiveStruct()` and its caller, with the C stack in `frames`:
`StartWalk`, `FindRoot`, `Descend`, `ReturnFalse`, `TypecheckDone`; then the
sort. `MaxDepth` is the number of frames the C stack holds: a cycle beside the
root recurses without end, the state is then `overflow`. The sort is entered when
typechecking is done, with the counts it takes (`NextPhase`), by TopoSort's own actions.

### ModuleLoading

The queue (`files`, `currentFile`), the scanner (`rest`, `current`), the
parser's module loop (`Start`, `BeginModule`, `ParseDecl`, `ParseBad`,
`ParseImport`, `SyncSkip`, `SyncDone`, `EndModule`), the validator (`BeginValidation`,
`SortModules`, `Sorted`, `ValidateModule`, `EndValidation`). A file is a
sequence of items. `Advance` moves the scanner into the next file by itself,
as `scannerNextToken()` does, and is a part of every action that takes a token.

### ParserRecovery

Every production above the expression, one action per stretch of code between
two calls: the frame on top of `frames` says which function runs and where,
`ret` what a call returned. `scopes` is the chain of scope depths. `open`
counts braces and belongs to the properties. The text is not chosen in
advance: each `Advance` chooses the next token.

### Scanner

One file, one character per step; `mode` is the loop of the code that runs. `opened`
belongs to the properties. What lies behind the NUL is not modelled: `outside` is
the state in which the code reads it. A word whose kind the code leaves unset
may be of any kind.

### ExpressionParser and Expressions

`ExpressionParser` is `parsePrecedence()` with an explicit C stack: a frame holds
what the parse function that called it holds. The text is chosen token by
token, so that errors are met wherever they can be. `Reading` is what a text
means, read off it by splitting at the operator that binds loosest. `Expressions` goes on with the
tree: `Validate`, `Typecheck` and `Generate` are one step each, because the code is a
recursive function without state there (`isInCall` is passed along). `TypeOf` and
`Meaning` are the rules of SPEC.md, independently of the passes; the printed C is read
back by `Reading` with the precedences of C.

### BodySemantics and FunctionBodies

`BodySemantics` runs a body statement by statement. `FunctionBodies` prints it as
`genStmt()` does (`GenStmt`, `GenFunction`), and then runs what was printed, with blocks,
`goto` and label as in C. The refinement mapping finds the place in the source from
the place in the C: `SourceAt`, `SourcePending`. The order of the deferred calls is not part of
`BodySemantics`, which runs each pending one once, in any order: SPEC.md does not name one, and a
test of the repository disagrees with the code about it (`LastDeferredFirst`).

### TypeRegistry

The parser's side: `ParseType`, `EndFields`, `ParseThis`, `ParseFunctionType`,
`EndFunction`, `EndVariable`. The validator's: `validateType()` with its C stack (`Enter...`,
`CallPart`, `PartDone`, `CompoundDone`) and its callers (`BeginTypes`,
`CallValidate`, `TypeDone`, `EndTypes`, `FieldDone`, `EndFieldTypes`). Names are sequences of words, so
that `&A` and the numbered names of identifier types can be told apart, or
made to collide.

### HashTable and Dictionary

`Dictionary` is what `Table.h` says of a table. `HashTable` is `Table.c`: a
probe returns the item it stops at, growing is one step per item copied, and a
search that meets no item to stop at is the phase `endless`.

### NameResolution and GeneratedNames

`NameResolution` walks a module as `validateModule()` does: module variables,
structs (fields, methods), functions, bodies statement by statement with their
blocks. Expressions are one name. `Lexical` and `Meaning` are the rules of
SPEC.md read off the text, independently of the walk. `GeneratedNames` goes
on with what the code generator prints for the same module: `declared` is what
C has seen a declaration of at its top level, `printed` is every name printed, with the object
the validator found and the object C takes it for. A C name is the sequence of the words between
its underscores (`Words`, `ModuleWords`), since Codegen.c:24-118 joins the parts of a name with the
character that names may contain: two objects are spelled alike if the words are. What a
name denotes in C (`MeaningInC`) is read off the C's own scopes: the innermost local variable of that
spelling whose block is still open, a declaration counting in its own initializer, else the
parameter, else what is declared at the top level before. A module variable is printed
behind its type without a space (Codegen.c:301-303) and so declares nothing, unless its
type is a pointer, whose star keeps the two apart (`GenModule`). Keywords of C and names of
its library are not modelled; a local variable may have one. `Parsed` says which programs the walk
gets: no two objects of one name in a scope (`scopeAddObject()`) and no second declaration
of a name in a block (`DeclaresOnce`, Parser.c:554), types that exist, a body for every
function and method, and every block closed. It is an assumption that TLC
checks of every program of the run. The validator relies on it in `VERIFY(added == true)`
(Validator.c:899), which `Redeclares` models. `Spelled` says that the names of a program are those
`Words` splits.

## Runs

| Run | Instance | Question |
|---|---|---|
| `struct_types` | three structs, at most two struct fields each and four in all, cyclic ones too; acyclic graphs of four structs with single uses, in every order of the table; C stack of four frames | Do the typechecker's verdict and the sort fit together, is each struct returned once and before its users, and does the compilation end? |
| `module_loading` | every disk of a main file with up to three items, a second with up to two, one in a directory; missing, unreadable, empty | Is an accepted program all of what is on the disk, imports first? |
| `parser` | every sequence of up to eight tokens | Do scopes and braces match, does parsing end? |
| `type_registry` | files of up to two types and one struct, with an imported module | Is the checked table the parsed one, in any order? |
| `hash_table` | four keys, three of which collide, growing from 2 to 8 | Is it a dictionary; when does a search not end? |
| `generated_names` | every well-formed body of three statements in a method or a function, some longer ones, three bodies that name each other, methods of one name, names that are spelled like a mangled one; the imported module printed before or after | Does every name mean what the text says, and the printed name too? |
| `scanner` | all texts of up to six characters that comments or strings are made of, of four that words are made of, of ten slashes and stars | Are the tokens right, where do comments and strings end? |
| `expressions` | all texts of up to six tokens, at most one of them rare; trees of two levels, some of three; seven kinds of statements | Is the tree the right one, is it accepted when it is well-typed, does the C mean it? |
| `function_bodies` | all bodies of up to six statements | Does the C do what the statements say? |
| `third_module`, `type_twice`, `defer_order` | | expected violations, see [below](#disagreements-with-the-documents-and-comments) |

What the passing runs show:

* `struct_types`: `AcceptedAreAcyclic` and `CompilationEnds`: the walk without a
  visited set gives the right verdict, and fails to give one only for structs that are
  recursive. Four frames are enough for every acyclic program of three structs
  (a path visits each struct once), and too few for any cycle. `DefinedBeforeUsed`,
  `EachNodeOnce`, `CountsAreExact`: a struct used twice by one user is counted
  twice and crossed off twice. Four structs are the least with a diamond, where
  one user's count must stay above zero while another's is used up.
* `module_loading`: `AcceptedIsWhole`, `ImportsCheckedFirst`, `ImportsHaveModules`, `CyclesAreErrors`,
  `BordersKept`, `LoadingEnds`. The third says when an import has no module although the parser
  found no error, which is what the validator's `UNREACHABLE` takes to be impossible: an
  empty file, a file of another directory, and one more case, the file last in the queue when
  its import is the last thing in the file before it. The scanner, one token ahead, has then
  found the end of the queue before the parser adds the file, and the file is never read. Only files that import each other make the queue
  grow without end. Three files are the least with a cycle that does not pass
  through the main file, and with a third module; `MaxFiles` cuts off the queues
  that do not end; the longest queue of a disk without a cycle has four files.
* `parser`: `ScopesMirrorFrames`, `DeferOnlyInFunctionBlock`, `AcceptedIsBalanced`,
  `AbortsOnlyAfterError`, `ParsingEnds`. Eight tokens hold a function with a nested block and one
  error, or a struct with a method; the deepest rules (defer in a block of a
  method, else after a failed if) are within that.
* `type_registry`: `MirrorsParsed`, `EveryTypeHasPointer`, `AbortsOnlyOnImportedTypes`,
  `ErrorsAreTrue`, `ValidationEnds`. The first one includes that no type of a table that mirrors the
  parsed one was freed: only modules that are refused, or that lack an imported type, keep a freed one.
* `hash_table`: `WellPlaced`, `UsedIsExact`, `ImplementsDictionary`.
  The first capacity is 2 instead of 8, so that the table grows twice with
  four keys. `EndlessNeedsTombstone`: only tombstones can fill the table.
* `generated_names`: `ResolvesLexically`, `AcceptedIsResolved`, `FailuresAreTrue` of the
  validator. The last one has an exception, `Late`: a method cannot name a function of its
  module, nor what belongs to a struct that is validated later.
  `CNamesAreUnique`, `CNamesDenote` of the code generator. The first: two objects share a C
  name only if they are methods of one name in one module or one of their names, or their module's, has
  the word var, fn, struct or method between underscores (`Confusable`). The second has
  seven exceptions, each an operator or a line of its own and each wrong C for an accepted program: what is
  or has the name of a module variable, a field named without a variable, methods that
  share a name, what is only declared later in the C, an outer variable in the
  initializer of one of its name (`SelfInitialised`), a local variable spelled like the name of
  an object at the top level (`Hidden`), and two objects of one C name (`SharesName`).
  `SpelledAlike` are the programs with such names.
* `scanner`: `TokensAreExact`, `CommentsNest`, `StringsClose`. `DepthModulus` is 4 instead of
  256, so that ten characters overflow the depth of a comment. The exceptions in the
  properties are the code's own: a comment nested too deep or that starts with a slash,
  an escaped backslash in a string, a string that is not closed.
* `expressions`: `ParsesByPrecedence` (with the code's precedences),
  `AcceptedAreWellTyped`, `RefusedAreIllTyped`, `AbortsAreKnown`, `GeneratedMeansSource`. What a
  property excepts is named by an operator (`Nested`, `ResultConfused`, `WrongInCall`,
  `MemberArgument`, `IndirectMethod`, `NoPointer`, `OperatorCalled`, `MethodValue`), and each
  exception is a wrong verdict, an abort or wrong C of the code; most were reproduced with the compiler. Six tokens are two
  operators and their operands, or a call with an argument and an operator; trees of
  three levels are added where one more level matters (members of members, what is
  printed behind a nested call).
* `function_bodies`: `ImplementsBody`: the C makes the calls and tests of the body in the same
  order, runs each deferred call once, in whatever order, when the function is left and returns the value of the
  return that was taken. Six statements hold a loop with a return inside behind
  a defer, an `else` after an `if`, two nested blocks.

## Fairness and stopping

The compiler is one thread without blocking calls, so it always takes its next
step: weak fairness of the next-state relation as a whole, or, in
`TypeRegistry`, of validation (the parser chooses a file and may choose to write
no more). No action is given fairness of its own: which branch is taken is the input's or the hash
table's choice. The other modules have no liveness property and no fairness: a search of
the table may run for ever, a program's own loop may, too (`FunctionBodies`), and a
scanner or a walk over a tree moves on in each step.

`CHECK_DEADLOCK FALSE` stands where the model just stops: the parser that has
returned or aborted (`ParserRecovery`), the end of a compilation
(`TypeRegistry`), and the table whose search runs for ever (`HashTable`). The
other passing runs check for deadlock.

## Proofs

All theorems hold for every value of the constants, under the constants' named
assumptions.

`TopoSort_proofs`, about `ClosedSpec`: any array of distinct names, any lists of uses
among them. `TypeCorrect`, `OrderCorrect` (`UsersFirst` and `DefinedBeforeUsed`),
`CountsCorrect`. `DefinedBeforeUsed` speaks of the reversed array only, so it is not
inductive. `IInv` adds `UsersFirst`, the same fact about the array being filled; that
whatever is on the stack or in the output has no use left that was not crossed off
(`SortInv`); and that the counters are cardinalities of sets of uses not yet crossed off
(`CountsAreExact`), from which a counter of zero means that all users are out already.
`SeedInv` carries this through the loop that fills the stack. Closedness is needed: a type
of an imported module is counted and pushed though it is not in the array (see
`StructImported.cfg`). The code compares the lengths of its two arrays and nothing else.
`SortedOnce` (`EachNodeOnce`): when they agree, the output is a permutation of the nodes.
`CyclesAreNotSorted`: then the graph has no cycle. `GivesUpRightly`: when they do not, it
has one. `SortedInv` says why: what is in the output is distinct and has no cycle (each
was pushed when all its users were out), and the names left over each keep a user among
the names left over, so they are `Tangled`.

`StructTypes_proofs`, about `LocalSpec`: a program of one module. `TypeCorrect`,
`VerdictCorrect` (`ReportsAreTrue` and `AcceptedAreAcyclic`) and TopoSort's theorems of
the sort behind the walk: `StructsDefinedBeforeUse`, `StructsPrintedOnce`, `StructCountsExact`. They are about
another specification than TopoSort's; `SortSteps` shows that each step of the pipeline is one of the
sort or changes nothing of it. This is no result on its own, as the module uses TopoSort's actions,
and only serves to cite the theorems. With
`GivesUpRightly` they give `NoUndetectedCycles`: the code generator never prints
"Undetected cyclic structs!" and trips over no assertion of the sort. The walk keeps no
visited set, so the invariant has to say what a returned call has found out: `Avoiding(r)`
is the largest set of types closed under use without `r`, and a type whose call has
returned false is in it (`FramesInv`). `BelowRoot` says that all frames are below the
root, so finding it means a true cycle; `FieldsInv` adds the fields already passed up.
When no field is left, each struct was reported or is in its own `Avoiding` set.

`ModuleLoading_proofs`, about `LoadSpec`: every disk and any number of files. `LoadTypes`;
`BordersAreKept` (`BordersKept`), `ImportedModulesFirst` (`ImportsCheckedFirst`),
`CyclesAreRefused` (`CyclesAreErrors`) and `ProgramsAreWhole` (`AcceptedIsWhole`). The
invariant has two halves. `FrontInv` is about the files: the queue holds only files of the
program, and each but the first is imported by a module (`QueueInv`); without an error
each module is whole, which at the one that is being parsed means that its declarations
and those still ahead in the scanner are the file's (`Growing` in `ModulesInv`). The token
of lookahead makes this hard: at a border the scanner is in the next file while the parser
is in the last one, and a module begun there is either empty because its file is, or the
program is refused for a third module. `ValidInv` is about the graph: the names and
imports are what the sort was given (`GraphInv`), the sort runs as in TopoSort
(`SortedFirst`, which cites TopoSort's steps and not its theorems, because the sort starts
in the middle of the run), and from then on what was checked is a prefix of a sorted array
(`CheckedInv`). A file may be imported by a path that is not its name; then no module has
the name of the import and the sort's graph is not closed. `Misnamed` says that nothing is
checked there. Assumed of paths: two paths do not end in one file name, and the name of a
file is not again a path to another file (`PathsAssumption`; Compiler.c:11 takes the name
behind the last slash).

`HashTable_proofs`, about `Spec`: any keys, values, hash function and capacities.
`TypeCorrect`, `TableCorrect` (`WellPlaced`), `GrowthCorrect` (`GrowthKeepsItems`),
`UsedExact` (`UsedIsExact`), `Refinement` (`ImplementsDictionary`). `PlacedInv` is the
conjunction of type, placement and growth: `WellPlaced` alone is not kept by the end of a
growth, where the new array becomes the table. `FoundItem` says what a probe returns in a
well-placed array; storing and erasing there are two lemmas used by set, growth, delete
and clear. `SearchesEnd` (`EndlessNeedsTombstone`) and `SearchesEndWithoutDeletes` need
`InitialCapacity >= 2` (with one item the load limit of 3/4 leaves none empty, the code
has 8): `LoadInv` is the load limit, and a pigeonhole argument gives the empty item that
the probe must reach. The compiler calls neither `tableDelete()` nor `tableClear()`
(Table.c:191 is the only call of the former), so the second theorem is the one that covers
it.

`FrontEnd_proofs`, about `ScanSpec`: any texts, letters, digits, keywords and modulus.
`TokensCorrect` (`TokensAreExact`, with the type invariant). The tokens already returned
do not say where the scanner is, so `Position` adds that all of them end before the token
that is being scanned, that the characters since `start` are digits or word characters
while a number or word is scanned, and where `current` may be in each mode: it is behind
the NUL only after a string that was not closed. What is assumed of the characters of words
(`ScannerAssumption`) is that neither the NUL nor the quote is one. `StringsAreClosed`
(`StringsClose`): the loop jumps over a backslash and its quote together, so all it knows is
that the quotes behind it had a backslash before them (`Bare`, `InString`); that these are
the escaped ones, where no backslash follows another, is `BareIsUnescaped`.
`CommentsAreNested` (`CommentsNest`): the property counts marks over the whole comment,
where a run such as `/*/*/` is split from its left end (`Mark`). `TrackedAt` says that the
loop is never in the middle of a mark, that `depth` is the level there, and that nothing
has closed the comment yet; a step over a mark changes the level by one and one over
another character by none (`OverMark`, `OverCharacter`). It stops being true once the u8
overflows or when the comment begins with a slash, the two exceptions of the property.

`FrontEnd_proofs`, about the `Spec` of `ParserRecovery`: files of every length, so every depth of nesting.
`ScopesMirror` (`ScopesMirrorFrames`), `AcceptedBalanced` (`AcceptedIsBalanced`) and
`AbortsAfterError` (`AbortsOnlyAfterError`). These three speak of a parser that has
reported nothing, and so does their invariant: while there is no error, `Clean` says at
which places each function can be (no block or module is synchronised, nothing has
returned NULL), that the module is at the bottom of the C stack and a struct only right
above it, and that scopes and open braces are as many as the frames that own one. A step
changes the top of the stack only: `Moved`, `Called` and `Returned` say what that does to
the counts, and each action is one of them. A struct directly above the module has one
scope below it, the module's, which is why `enterScope()` cannot abort. Once an error was
reported that invariant says nothing more; `LeakedScope.cfg` shows that it could not.
`DefersInFunctions` (`DeferOnlyInFunctionBlock`) holds after errors as well, where frames
and scopes no longer match. `LooseInv` is what remains: scopes are only ever left behind,
never lost, so there are more of them than frames that hold one; the functions in blocks
are no more than the depth of the current scope (`Level`), and the depths in the chain
count up (`Chain`). A defer is let through at depth 1 or more, and so sits in a block of
its own function.

`TypeRegistry_proofs`, about `Spec`: files of any length, any C stack and any order in
which the two tables are walked. What is assumed of names (`WordsAssumption`) is that "&",
"fn" and "::" are not identifiers. `TablesTyped` is type correctness (`RegistryTypeOK`):
`Table` says what a Type of each kind is made of and `Walk` where a frame of
`validateType()` may be. `ErrorsTrue` (`ErrorsAreTrue`): an error is always about a part
that dangles, and when the walk ends without one, no type has such a part. While the walk
runs, a type is taken off `todo` long before its parts have been looked at, so `SoundInv`
says that a type gone from `todo` is sound or on the stack (`Covered`), a type in the new
table is sound or is a struct whose frame is there (`CheckedSound`: structs are added
first), and that every part a frame has passed is sound; the part it waits for is only
known once the frame above has begun (`Settled`), since an identifier's frame is replaced
by the one of the type it names. `TableIsMirrored` (`MirrorsParsed`), `PointersExist`
(`EveryTypeHasPointer`) and `AbortsExplained` (`AbortsOnlyOnImportedTypes`) have a
hypothesis, `NamesApart`: the numbered name of an identifier type is no identifier, and no
module has the name of a struct. The language promises neither; `TypeTwice.cfg` and
`TypeNameClash.cfg` show what happens when names meet, and a module named like a struct of
its importer makes the latter's pointer type point elsewhere. Under it, `Declarations`
says that a struct type is made of the fields of its object and that the pointer type `&w`
points to what `w` means; `Variants` that a pointer type is only invented for a type the
walk is done with, so that it is not invented twice (this is why the abort needs an
imported type, of which `&A` and `&m::A` both are); and `Building`, while nothing is
missing, that the parts kept in each frame are what the parts of its type mean, that each
frame looks at the part the one below waits for, or at what that part means, and that a
type of the new table is whole or has the parts of a frame of its own. `Finding` says that
the second walk, over the fields, finds every type in the table and never adds one, which
is why `validateStruct()` does not abort.

`GeneratedNames_proofs`, about `GenInit` and `[][GenNext]_allVars`: programs of any number
of structs, functions and variables, bodies of any length and nesting, any names and any way in which
they split into words, any scopes of imported modules and any order of the modules. What is assumed is
`Parsed` and `Spelled` of every program, `WordsAssumption` (every name has a word, and only one name has
these words), `ImportedScopesAssumption` (an imported module has a scope without two objects of
one name, and so has each of its structs, each of which is an object of its module) and that an order
names at least one module, as every program has Main.

`NamesAreUnique` (`CNamesAreUnique`). `Remembers` says that what is in the tables under a key is
the name that Codegen.c builds for that key (`NameFor`): the module's words, a word for the kind,
the words of the name, with the struct and two such words for a method. So the question is whether such a
sequence can be split in two ways. It can not while the word of the kind occurs once: `FirstSplit` and `LastSplit`
say that the first such word, and the last one, divide a sequence in one way, and `KeysAgree` concludes
that two keys of one C name are the same, or one of them is a method's, or one has a name with
such a word in it (`Confusable`). Within a scope a key belongs to one object (`ScopesBuilt`, `AllScoped`). What is
left are methods, whose key leaves out the struct.

`NamesDenote` (`CNamesDenote`): an object that a body was resolved to is one of
its blocks, of the module, of an imported module or of a struct (`InBlocks`, `Resolves`). For a local one
the C's scopes have to agree with the validator's: `LocalMeansInC` shows that the last variable of that spelling
that is open at a place is the one the rules of the language mean (that the validator found this one is `RightSoFar`),
but for the declaration at that very place. For the others, what the generator has declared when it comes to a body
follows from the order of its walk (`DeclaredSoFar`: structs first, then the methods of one struct after
the other, then all functions; of the module variables nothing is known), and no local variable may
be spelled like the mangled name. Each place where these do not meet is one of the exceptions that
the property lists.

Also there, what the validator finds: `NamesResolveLexically` (`ResolvesLexically`),
`AcceptedIsAllResolved` (`AcceptedIsResolved`) and `FirstFailureIsTrue`
(`FailuresAreTrue`). The rules of the language are read off the text, so the invariant has
to relate the stack of blocks, which only knows what was entered and left, to the text: as
long as no statement of the body failed, there are as many blocks as the text has open
brackets before `at`, and block d has the declarations that are still open at depth d, each
with the type its initializer was found to have (`Matched`). A lookup from the innermost
block outwards then finds the last declaration still open, and behind the blocks what the
scopes hold (`Entered`: the whole struct or module, or what has been entered so far); so
each statement either finds the meaning of its name, or fails for a reason the property
names (`StatementFits`). The meaning of a name depends on what the initializers before it
stand for; nothing is found behind the statement the walk is at (`Behind`), and nothing in a
body that still waits (`Untouched`), so what is right stays right (`MeaningStays`).
`AcceptedIsResolved` needs that a body that neither waits nor is walked was walked to its
end as long as there are no errors (`Finished`). `Redeclares` is never true there: this is
the VERIFY of Validator.c:899, and `DeclaresOnce`, what the parser promises, is why.

`FunctionBodies_proofs`, about `BodiesInit` and `[][Next]_vars`: programs of any number of
functions, bodies of any length and nesting. `BodiesAreImplemented` (`ImplementsBody`): every
step of the printed C is a step of `BodySemantics` under the refinement mapping, or none. What
is assumed is `ParsedProgram` of every program (blocks are closed and nested, an `else`
stands behind the block of its `if`) and that `NoValue`, the return value nothing has set, is
not a statement; the run assumes the former of all its bodies (`ProgramsAreParsed`), so TLC
evaluates it there. The run's `Stopped` step changes no variable. The invariant `BodiesInv`
has two halves. While functions are printed, `HalfPrinted` says that the text is what the
statements before `next` become, one behind the other, that the deferred ones among them are
remembered, and nothing of the function before (`Cleared`). While the last one runs, there is
an assignment `S` of each statement to the place of its C (`Placed`): the whole text is laid
out by it, with label, deferred calls and return behind the last statement (`Whole`), and
`Position` says where `pc` can be, and what `return_value` is there. The jumps are the hard
part. The machine finds the end of a block by counting braces in the text; the source has the
ends of its blocks. `AsMany`, `MoreOpen` and `FewerOpen` are about any set of brackets in
which each opening one has a partner and pairs are nested (`Nested`): counting finds the
partner. `PairedBraces` says that the text is such a set, where an `expect` without an `else`
prints braces that no block of the source has, and `MatchingIs` and `OpeningIs` draw the
conclusion. `Landing` says that wherever a jump lands, the mapping reads it as the next statement
that is not a defer (which prints nothing), `PastBlockIs` and `ElseStands` follow an `if` that
is not taken, and `TailStep` the deferred calls, each of which is one of those the source has
still to run; their order is no part of the theorem.

Only model-checked: all of `ExpressionParser` and `Expressions`; in the
proved modules liveness (`ValidationEnds`, the ends of the other walks). Outside of what the prover can
do: liveness under fairness and ENABLED; induction over data, and so what a recursive
definition computes for all inputs; anything in a module that declares a RECURSIVE
operator: `ExpressionParser` and `Expressions` do, for trees and the readings of texts.

## Disagreements with the documents and comments

Each of these is a property that quotes a document, a comment, a test or an assertion,
and a configuration under which TLC finds it violated (of a configuration with several, take one
at a time). The first three are listed
as findings and checked with the runs; the other configurations are for a reader to run.

| Configuration | Property | What happens |
|---|---|---|
| `ThirdModule.cfg` (MCModuleLoading) | `NoCurrentModule` | any third module fails the VERIFY of Parser.c:1247: `current.module` is never cleared |
| `TypeTwice.cfg` (MCTypeRegistry) | `TypesMayRepeat` | a pointer type written twice fails the VERIFY of Module.c:104 |
| `DeferOrder.cfg` (MCFunctionBodies) | `LastDeferredFirst` | deferred calls run in the order of the text: "value will end as 42" (tester/simple_defer.ilc:3), and files/defer_new.c:86, run the last one first; the test's value ends as 54 |
| `FactorsBindTighter.cfg` (ExpressionParser) | `FactorsBindTighter` | `PREC_FACTOR` is 1, so `1 + 2 * 3` is nine and `*` binds like `=` (Parser.c:216) |
| `UnterminatedStruct.cfg` (ParserRecovery) | `ParsingAlwaysEnds` | a file that ends inside a struct is parsed for ever |
| `NamesInC.cfg` (MCGeneratedNames) | `ShadowingReachesC` | a local variable that shadows a module variable is printed as the module variable; `var x = x;` in a block is `i32 x = x;` in C, where the second x is the new one |
| `NamesInC.cfg` | `ModuleVariablesReachC` | a module variable is printed as `i32moduleMain_var_x`, with no space, and is not declared (tester/module_variables.ilc:10) |
| `NamesInC.cfg` | `NamesAreApart` | a method c of a struct b and a struct b_method_c are both `moduleMain_struct_b_method_c` (Codegen.c:24-31) |
| `JumpedDefers.cfg` (MCFunctionBodies) | `OnlyReachedDefersRun` | a return also runs the defers behind it that were never reached (SPEC.md:1001) |
| `NestedComments.cfg` (MCScanner) | `NestedCommentsWork` | a comment that starts with a slash ends at once, and one nested 255 deep ends too early (tester/multiline_comments.ilc) |
| `StructOverflow.cfg` (MCStructTypes) | `RecursiveIsReported` | structs that reach a cycle they are not on overflow the C stack |
| `StructImported.cfg` (MCStructTypes) | `AbortMeansCyclic` | a field of an imported struct type makes the code generator abort with "Undetected cyclic structs" |
| `ImportsExist.cfg` (MCModuleLoading) | `ImportsExist` | importing an empty or unreadable file leaves an import without a module: `UNREACHABLE` at Validator.c:1092 |
| `UnreadFile.cfg` (MCModuleLoading) | `ReadErrorsArePrinted` | a program with a file that could not be read is accepted and the error never printed |
| `BorderCrossed.cfg` (MCModuleLoading) | `BorderEndsModule` | synchronising skips the border between two files |
| `LeakedScope.cfg` (ParserRecovery) | `ScopeRulesHold` | scopes left behind by an error make `enterScope()` abort in a later struct |
| `MissingFieldType.cfg` (MCTypeRegistry) | `FieldTypesExist` | an unknown type of an imported module is no error until an assertion fails |
| `TypeNameClash.cfg` (MCTypeRegistry) | `IdentifiersMeanTheirStruct` | identifier types are named by identifier and number: `A` with 0 is the struct `A0` |
| `FreedType.cfg` (MCTypeRegistry) | `OwnedTypesLive` | a function type with a bad parameter is freed and stays in the table |
| `TombstonesFill.cfg` (MCHashTable) | `SearchEnds` | insertions and deletions in turn fill the table with tombstones; the next search does not end |
| `MethodsFirst.cfg` (MCGeneratedNames) | `FunctionsAreVisible` | a method cannot call a function of its module |

Met while reading, not modelled: names of a parameter or a method that repeat are
dropped silently (Parser.c:1013, 1096); an unterminated string aborts in
Error.c:70; `x::f` with a variable `x` fails the VERIFY of Validator.c:691; a
`u32` variable without an initializer makes Validator.c:892 dereference NULL (this
one is in `AbortsAreKnown`); the arguments of a deferred call are evaluated when it
runs, not "immediately" (SPEC.md:1002); a function that lacks a return
returns a value nothing has set; the condition of a `while` may have any type.

## What is not modelled

* In expressions: the values of constants, paths `A::B::c` (in NameResolution), bit operators,
  which have no parse rule. In statements: a return without a value in a function that
  should have one (Typechecker.c:233).
* The types in the generated C, and the typedefs of function types, which are
  printed in the order of a hash table though one may be made of another
  (Codegen.c:616-636, the VERIFY of Codegen.c:130 fails then); two mains and the
  VERIFY of Codegen.c:571.
* Array, Arena, Strings, StringTable: arrays are sequences and interned strings are
  model values. `arrayDelete()` loses an element in the middle of an array (Array.c:88)
  and the arena refuses to reallocate (Arena.c:85), but the compiler never calls the one, and no use of it was found that
  lets an array in an arena grow.
* Printing (errors, dumps, layout of C), option parsing, memory release.
* The tester: the program around the program.

## Plan

Done, in this order: TopoSort, StructTypes, ModuleLoading, ParserRecovery, TypeRegistry,
HashTable, NameResolution, GeneratedNames; ExpressionParser and Expressions; Scanner;
BodySemantics and FunctionBodies; the proofs of Scanner, ParserRecovery, FunctionBodies, ModuleLoading,
TypeRegistry and GeneratedNames, and that the sort is a permutation.

What is left, by importance:

1. Function types: their typedefs in the order of a hash table (Codegen.c:616-636).
2. A deferred call's arguments: a model of bodies with values, to state SPEC.md:1002.
3. The whole pipeline: one composition in which the verdict of each phase is what
   the next one assumes.

Theorems to come: the properties of `Expressions` need the trees and the readings of texts as
sets instead of RECURSIVE operators, and an induction over trees that the installed provers
do not have. Until then TLC checks them.
