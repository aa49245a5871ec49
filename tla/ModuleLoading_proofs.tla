------------------------ MODULE ModuleLoading_proofs ------------------------
(***************************************************************************)
(* For every disk, every number of files and every place an import, an     *)
(* error or the end of a file may stand in: what the parser makes of the   *)
(* files of a program that is accepted, and the order the validator takes  *)
(* the modules in.                                                         *)
(***************************************************************************)
EXTENDS ModuleLoading, TopoSort_proofs, SequenceTheorems

Modules == [name : Names, imports : SUBSET Paths, decls : SUBSET Decls]
ErrorKinds == {"unreadable", "redeclared", "syntax", "missing", "cyclic", "semantic"}
Parsing == {"modules", "body", "sync"}
Validating == SortPhases \cup {"validate", "accepted", "validate_failure", "unreachable"}

\* The file the scanner is in, and what it has ahead of the parser there.
Place == files[currentFile]
Text == disk[Place].items
Ahead == {current} \cup Elements(rest)

Types ==
  /\ disk \in AllDisks
  /\ files \in Seq(Paths) /\ files /= <<>> /\ files[1] = Main
  /\ currentFile \in 0..Len(files)
  /\ rest \in Seq(Items) /\ current \in Tokens
  /\ modules \in Seq(Modules)
  /\ \A i \in DOMAIN modules : IsFiniteSet(modules[i].imports)
  /\ needSync \in BOOLEAN /\ failedDecl \in BOOLEAN /\ hadError \in BOOLEAN /\ invalid \in BOOLEAN
  /\ errors \subseteq ErrorKinds
  /\ phase \in SortPhases \cup Outcomes \cup {"start", "modules", "body", "sync", "validate"}

(* The queue: the scanner's tokens come from the file it is in, files come *)
(* from imports of the program.                                            *)
QueueInv ==
  /\ phase = "start" => currentFile = 0 /\ modules = <<>> /\ files = <<Main>> /\ hadError = FALSE
  /\ phase /= "start" => currentFile >= 1 /\ Ahead \cap Items \subseteq Elements(Text)
  /\ current = FileChanged => currentFile > 1 /\ rest = Text
  /\ current = Eof => rest = <<>>
  /\ Elements(files) \subseteq Program
  /\ \A j \in 2..Len(files) : \E i \in DOMAIN modules : files[j] \in modules[i].imports

(* The parser's flags, and the modules it can have.                        *)
FlagInv ==
  /\ phase \in {"body", "sync"} => modules /= <<>>
  /\ phase \in Parsing \cup Validating => Len(modules) <= 2
  /\ phase \in {"modules"} \cup Validating => hadError = FALSE
  /\ hadError = FALSE => needSync = FALSE /\ phase /= "sync"
  /\ phase \notin Validating => checked = <<>> /\ invalid = FALSE

\* Module i is all of a file; only the first one is of the first file.
Whole(i) ==
  \E j \in DOMAIN files :
    /\ i > 1 => j > 1
    /\ modules[i].name = Base(files[j])
    /\ modules[i].imports = ImportsIn(files[j])
    /\ modules[i].decls = DeclsIn(files[j])

\* With what is ahead the last module is all of the file the scanner is in.
Growing ==
  LET last == modules[ThisModule] IN
    /\ ThisModule > 1 => currentFile > 1
    /\ last.name = Base(Place)
    /\ ImportsIn(Place) = last.imports \cup {p \in Paths : Import(p) \in Ahead}
    /\ DeclsIn(Place) = last.decls \cup {x \in Decls : Decl(x) \in Ahead}

(* Without an error each module is all of one file.  A module begun at a   *)
(* border is empty and named after the file behind it: this file must be   *)
(* empty, or there will be a third module.                                 *)
ModulesInv ==
  hadError = FALSE =>
    /\ phase = "modules" =>
         /\ modules = <<>> => currentFile = 1
         /\ modules /= <<>> => currentFile > 1 \/ current = Eof
         /\ current \in Items \/ modules = <<>> => Elements(Text) = Ahead \cap Items
         /\ (\A i \in DOMAIN modules : Whole(i)) \/ (ThisModule > 1 /\ current /= Eof)
    /\ phase = "body" =>
         /\ \A i \in 1..(ThisModule - 1) : Whole(i)
         /\ current /= FileChanged => Growing
         /\ current = FileChanged =>
              Whole(ThisModule) \/ (ThisModule > 1 /\ modules[ThisModule] = NewModule(Base(Place)))
    /\ phase \in Validating => \A i \in DOMAIN modules : Whole(i)
    /\ phase \in Parsing \cup Validating /\ modules /= <<>> => modules[1].name = Base(Main)
    /\ phase \in Validating /\ modules = <<>> => disk[Main].items = <<>>

FrontInv == Types /\ QueueInv /\ FlagInv /\ ModulesInv

(* Until the modules are sorted the sort's variables wait; from then on    *)
(* they hold the graph of the modules and their imports.                   *)
GraphInv ==
  /\ phase \notin Validating =>
       stack = <<>> /\ output = <<>> /\ node = NoName /\ next = 1 /\ dependencies = [n \in {} |-> 0]
  /\ phase \in Validating =>
       /\ nodes = [i \in DOMAIN modules |-> modules[i].name]
       /\ uses \in [Names -> Seq(Names)]
       /\ \A n \in ModuleNames : Elements(uses[n]) = ImportsOf(n)

Judging == {"validate", "accepted", "validate_failure", "unreachable"}

\* What a sort that was not given up leaves in `output`.
Ordered ==
  /\ Distinct(output) /\ Elements(output) = NodeSet /\ Acyclic(NodeSet, uses)
  /\ \A i \in DOMAIN output : \A m \in NodeSet :
       output[i] \in Elements(uses[m]) => \E k \in (i + 1)..Len(output) : output[k] = m

Indexed(n) == {<<p, ModuleOf(p)>> : p \in ImportsOf(n)}
CheckedAt(k) ==
  /\ checked[k].id = ModuleOf(output[k])
  /\ checked[k].imports = Indexed(output[k])
  /\ ImportsOf(output[k]) \subseteq ModuleNames

(* The validator has checked the modules before `next`, whole up to the    *)
(* first error.                                                            *)
CheckedInv ==
  /\ output \in Seq(Names) /\ next \in Nat /\ next >= 1 /\ next - 1 <= Len(output)
  /\ checked = [k \in 1..(next - 1) |-> checked[k]]
  /\ \A k \in DOMAIN checked : CheckedAt(k)
  /\ \A k \in DOMAIN checked : checked[k].whole => \A j \in 1..k : checked[j].whole
  /\ ~invalid => \A k \in DOMAIN checked : checked[k].whole
  /\ Ordered \/ (invalid /\ \A k \in DOMAIN checked : ~checked[k].whole)
  /\ phase = "accepted" => ~invalid /\ next > Len(output)

SortedFirst ==
  /\ Sortable
  /\ phase \in SortPhases => IInv /\ SortedInv /\ checked = <<>>
  /\ phase \in Judging => CheckedInv

(* Two modules of one file whose path is not its name: it is imported, but *)
(* no module has the name of the import.  The validator aborts on it       *)
(* before it has checked a module, or the sort gave up.                    *)
Unsettled == nodes /= <<>> /\ \A n \in NodeSet : ~(ImportsOf(n) \subseteq ModuleNames)
Misnamed ==
  /\ Unsettled
  /\ stack \in Seq(NodeSet) /\ output \in Seq(NodeSet) /\ next \in Nat \ {0}
  /\ phase = "sorted" => output /= <<>>
  /\ phase \in Judging => (~invalid => output /= <<>>) /\ next = 1
  /\ checked = <<>> /\ phase /= "accepted"

ValidInv == GraphInv /\ (phase \in Validating => SortedFirst \/ Misnamed)
-----------------------------------------------------------------------------
(* The first element of a sequence and the others.                         *)
LEMMA HeadAndTail ==
  ASSUME NEW S, NEW s \in Seq(S), s /= <<>>
  PROVE  Elements(s) = {Head(s)} \cup Elements(Tail(s))
<1>1. /\ Len(s) \in Nat /\ Len(s) > 0 /\ DOMAIN s = 1..Len(s) /\ s[1] = Head(s)
      /\ DOMAIN Tail(s) = 1..(Len(s) - 1) /\ \A i \in 1..(Len(s) - 1) : Tail(s)[i] = s[i + 1]
  BY HeadTailProperties
<1>2. Elements(s) \subseteq {Head(s)} \cup Elements(Tail(s))
  <2> SUFFICES ASSUME NEW i \in 1..Len(s), i /= 1 PROVE s[i] \in Elements(Tail(s))
    BY <1>1 DEF Elements
  <2>1. i - 1 \in 1..(Len(s) - 1) /\ (i - 1) + 1 = i
    BY <1>1
  <2>2. Tail(s)[i - 1] = s[i]
    BY <1>1, <2>1
  <2> QED BY <2>1, <2>2, <1>1 DEF Elements
<1>3. {Head(s)} \cup Elements(Tail(s)) \subseteq Elements(s)
  <2>1. \A i \in 1..(Len(s) - 1) : i + 1 \in 1..Len(s)
    BY <1>1
  <2> QED BY <2>1, <1>1 DEF Elements
<1> QED BY <1>2, <1>3

LEMMA NoElements ==
  ASSUME NEW S, NEW s \in Seq(S), Elements(s) = {}
  PROVE  s = <<>>
<1> SUFFICES ASSUME s /= <<>> PROVE FALSE
  OBVIOUS
<1> QED BY HeadAndTail

(* Main is part of the program, and so is what a part of it imports.       *)
LEMMA ProgramClosed ==
  /\ Main \in Program /\ Program \subseteq Paths
  /\ \A p \in Program : ImportsIn(p) \subseteq Program
<1>1. Main \in Program /\ Program \subseteq Paths
  BY PathsAssumption DEF Program
<1>2. ASSUME NEW p \in Program, NEW q \in ImportsIn(p)
      PROVE  q \in Program
  <2>1. q \in Paths
    BY <1>2 DEF ImportsIn
  <2> SUFFICES ASSUME NEW S \in SUBSET Paths, Main \in S, \A r \in S : ImportsIn(r) \subseteq S
               PROVE  q \in S
    BY <2>1 DEF Program
  <2>2. p \in S
    BY DEF Program
  <2> QED BY <2>2
<1> QED BY <1>1, <1>2

(* The disk does not change.                                               *)
LEMMA SameDisk ==
  ASSUME disk' = disk
  PROVE  /\ \A p : ImportsIn(p)' = ImportsIn(p) /\ DeclsIn(p)' = DeclsIn(p)
         /\ Program' = Program
BY DEF Program, ImportsIn, DeclsIn, Elements

(* What the scanner does to the token and the text ahead.                  *)
LEMMA Advanced ==
  ASSUME Types, QueueInv, phase /= "start", NEW e \in SUBSET ErrorKinds, Advance(e), disk' = disk,
         files' = files \/ \E p \in Paths : files' = Append(files, p)
  PROVE  /\ files' \in Seq(Paths) /\ files' /= <<>> /\ files'[1] = Main /\ Len(files) <= Len(files')
         /\ \A j \in 1..Len(files) : files'[j] = files[j]
         /\ currentFile >= 1 /\ currentFile \in 1..Len(files)
         /\ currentFile' \in 1..Len(files) /\ currentFile' >= currentFile
         /\ rest' \in Seq(Items) /\ current' \in Tokens /\ errors' \subseteq ErrorKinds
         /\ Ahead' \cap Items \subseteq Elements(Text)'
         /\ current' = FileChanged => Elements(rest) = {} /\ currentFile' > 1 /\ rest' = Text'
         /\ current' = Eof => rest' = <<>>
         /\ current' /= FileChanged => currentFile' = currentFile /\ Place' = Place
                                         /\ Ahead' \cap Items = Elements(rest)
<1>1. /\ disk \in AllDisks /\ files \in Seq(Paths) /\ files /= <<>> /\ files[1] = Main
      /\ currentFile \in 1..Len(files) /\ rest \in Seq(Items) /\ errors \subseteq ErrorKinds
      /\ Ahead \cap Items \subseteq Elements(Text) /\ Len(files) \in Nat /\ Len(files) >= 1
  BY DEF Types, QueueInv
<1>2. /\ files' \in Seq(Paths) /\ files' /= <<>> /\ files'[1] = Main /\ Len(files) <= Len(files')
      /\ \A j \in 1..Len(files) : files'[j] = files[j]
  <2>1. CASE files' = files
    BY <2>1, <1>1
  <2>2. CASE \E p \in Paths : files' = Append(files, p)
    <3>0. PICK p \in Paths : files' = Append(files, p)
      BY <2>2
    <3>1. files' \in Seq(Paths) /\ Len(files') = Len(files) + 1
      BY <3>0, <1>1
    <3>2. \A j \in 1..Len(files) : files'[j] = files[j]
      BY <3>0, <1>1
    <3> QED BY <3>1, <3>2, <1>1
  <2> QED BY <2>1, <2>2
<1>3. ASSUME NEW p \in Paths
      PROVE  disk[p].items \in Seq(Items)
  BY <1>1 DEF AllDisks
<1>4. FileChanged \notin Items /\ Eof \notin Items /\ FileChanged /= Eof
  BY DEF FileChanged, Eof, Items, Import, Decl, BadVar, BadFn
<1>5. CASE rest /= <<>>
  <2>1. /\ current' = Head(rest) /\ rest' = Tail(rest) /\ errors' = errors \cup e
        /\ currentFile' = currentFile
    BY <1>5 DEF Advance
  <2>2. Head(rest) \in Items /\ Tail(rest) \in Seq(Items) /\ Elements(rest) = {Head(rest)} \cup Elements(Tail(rest))
    BY <1>1, <1>5, HeadTailProperties, HeadAndTail
  <2>3. Elements(rest) \subseteq Items
    BY <1>1 DEF Elements
  <2>4. Place' = Place /\ Elements(Text)' = Elements(Text)
    BY <1>1, <1>2, <2>1 DEF Place, Text, Elements
  <2>5. Ahead' = Elements(rest)
    <3>1. Elements(rest)' = Elements(Tail(rest))
      BY <2>1 DEF Elements
    <3> QED BY <2>1, <2>2, <3>1 DEF Ahead
  <2> QED BY <1>1, <1>2, <1>4, <2>1, <2>2, <2>3, <2>4, <2>5 DEF Tokens, Ahead
<1>6. CASE rest = <<>> /\ HasNextFile
  <2>1. /\ current' = FileChanged /\ rest' = NextFile.items /\ currentFile' = currentFile + 1
        /\ errors' = errors \cup e \cup ReadError
    BY <1>6 DEF Advance
  <2>2. currentFile + 1 \in 1..Len(files) /\ files[currentFile + 1] \in Paths
    BY <1>1, <1>6 DEF HasNextFile
  <2>3. Text' = rest' /\ rest' \in Seq(Items)
    BY <1>2, <1>3, <2>1, <2>2 DEF Text, Place, NextFile
  <2>4. Elements(rest) = {} /\ Ahead' \cap Items \subseteq Elements(Text)'
    BY <1>4, <1>6, <2>1, <2>3 DEF Elements, Ahead
  <2> QED BY <1>1, <1>2, <1>4, <2>1, <2>2, <2>3, <2>4 DEF Tokens, ReadError, ErrorKinds
<1>7. CASE rest = <<>> /\ ~HasNextFile
  <2>1. /\ current' = Eof /\ rest' = rest /\ currentFile' = currentFile /\ errors' = errors \cup e
    BY <1>7 DEF Advance
  <2>2. Elements(rest) = {} /\ Elements(rest') = {} /\ Elements(rest)' = {}
    BY <1>7, <2>1 DEF Elements
  <2>3. Place' = Place
    BY <1>1, <1>2, <2>1 DEF Place
  <2> QED BY <1>1, <1>2, <1>4, <1>7, <2>1, <2>2, <2>3 DEF Tokens, Ahead
<1> QED BY <1>5, <1>6, <1>7

(* Tokens of different kinds differ.                                       *)
LEMMA TokensDiffer ==
  /\ FileChanged \notin Items /\ Eof \notin Items /\ FileChanged /= Eof
  /\ FileChanged \in Tokens /\ Eof \in Tokens /\ Items \subseteq Tokens
  /\ \A p \in Paths : Import(p) \in Items /\ Import(p).kind = "import" /\ Import(p).of = p
  /\ \A x \in Decls : Decl(x) \in Items /\ Decl(x).kind = "decl" /\ Decl(x).of = x
  /\ \A t \in Tokens : t.kind = "import" => t.of \in Paths /\ t = Import(t.of)
  /\ \A t \in Tokens : t.kind = "decl" => t.of \in Decls /\ t = Decl(t.of)
  /\ FileChanged.kind = "file_changed" /\ Eof.kind = "eof"
<1>1. FileChanged \notin Items /\ Eof \notin Items /\ FileChanged /= Eof
  BY DEF Items, Import, Decl, BadVar, BadFn, FileChanged, Eof
<1>2. FileChanged \in Tokens /\ Eof \in Tokens /\ Items \subseteq Tokens
  BY DEF Tokens
<1>3. \A p \in Paths : Import(p) \in Items /\ Import(p).kind = "import" /\ Import(p).of = p
  BY DEF Items, Import
<1>4. \A x \in Decls : Decl(x) \in Items /\ Decl(x).kind = "decl" /\ Decl(x).of = x
  BY DEF Items, Decl
<1>5. FileChanged.kind = "file_changed" /\ Eof.kind = "eof"
  BY DEF FileChanged, Eof
<1>6. ASSUME NEW t \in Tokens
      PROVE  /\ t.kind = "import" => t.of \in Paths /\ t = Import(t.of)
             /\ t.kind = "decl" => t.of \in Decls /\ t = Decl(t.of)
  <2>1. \/ \E p \in Paths : t = Import(p)
        \/ \E x \in Decls : t = Decl(x)
        \/ t \in {BadVar, BadFn, FileChanged, Eof}
    BY DEF Tokens, Items
  <2>2. CASE \E p \in Paths : t = Import(p)
    BY <2>2 DEF Import
  <2>3. CASE \E x \in Decls : t = Decl(x)
    BY <2>3 DEF Decl
  <2>4. CASE t \in {BadVar, BadFn, FileChanged, Eof}
    BY <2>4 DEF BadVar, BadFn, FileChanged, Eof
  <2> QED BY <2>1, <2>2, <2>3, <2>4
<1> QED BY <1>1, <1>2, <1>3, <1>4, <1>5, <1>6

LEMMA StartFront == FrontInv /\ Start => FrontInv'
<1> SUFFICES ASSUME FrontInv, Start PROVE FrontInv'
  OBVIOUS
<1>1. /\ disk \in AllDisks /\ files = <<Main>> /\ currentFile = 0 /\ modules = <<>> /\ hadError = FALSE
      /\ errors \subseteq ErrorKinds /\ checked = <<>> /\ invalid = FALSE
      /\ Elements(files) \subseteq Program /\ files \in Seq(Paths) /\ files /= <<>> /\ files[1] = Main
      /\ modules \in Seq(Modules)
  BY DEF Start, FrontInv, Types, QueueInv, FlagInv, Validating, SortPhases
<1>2. /\ currentFile' = 1 /\ disk' = disk /\ files' = files /\ modules' = modules
      /\ needSync' = needSync /\ failedDecl' = failedDecl /\ hadError' = hadError
      /\ checked' = checked /\ invalid' = invalid
      /\ needSync \in BOOLEAN /\ failedDecl \in BOOLEAN
  BY DEF Start, parserVars, validatorVars, FrontInv, Types
<1>3. NextFile = disk[Main] /\ Place' = Main /\ Text' = disk[Main].items
  BY <1>1, <1>2 DEF NextFile, Place, Text
<1>4. disk[Main].items \in Seq(Items) /\ (disk[Main].state /= "readable" => disk[Main].items = <<>>)
  BY <1>1, PathsAssumption DEF AllDisks
<1>5. current' \in Tokens /\ rest' \in Seq(Items) /\ Ahead' \cap Items = Elements(Text)'
      /\ current' /= FileChanged /\ (current' = Eof => rest' = <<>> /\ disk[Main].items = <<>>)
  <2>1. CASE disk[Main].items = <<>>
    <3>1. current' = Eof /\ rest' = <<>>
      BY <1>3, <2>1 DEF Start
    <3> QED BY <3>1, <2>1, <1>3, TokensDiffer DEF Ahead, Elements
  <2>2. CASE disk[Main].items /= <<>>
    <3>0. PICK t : t = disk[Main].items /\ t \in Seq(Items) /\ t /= <<>>
      BY <1>4, <2>2
    <3>9. current' = Head(Append(t, Eof)) /\ rest' = Tail(t)
      BY <1>3, <2>2, <3>0 DEF Start
    <3>1. Len(t) \in Nat /\ Len(t) > 0 /\ Append(t, Eof)[1] = t[1] /\ Append(t, Eof) /= <<>>
      BY <3>0
    <3>2. current' = Head(t)
      BY <3>0, <3>1, <3>9
    <3>3. Head(t) \in Items /\ Tail(t) \in Seq(Items) /\ Elements(t) = {Head(t)} \cup Elements(Tail(t))
      BY <3>0, HeadTailProperties, HeadAndTail
    <3>4. Elements(t) \subseteq Items
      BY <3>0 DEF Elements
    <3>5. Ahead' = Elements(t)
      <4>1. Elements(rest)' = Elements(Tail(t))
        BY <3>9 DEF Elements
      <4> QED BY <4>1, <3>2, <3>3 DEF Ahead
    <3>6. Elements(Text)' = Elements(t)
      BY <1>3, <3>0 DEF Elements
    <3> QED BY <3>0, <3>9, <3>2, <3>3, <3>4, <3>5, <3>6, TokensDiffer
  <2> QED BY <2>1, <2>2
<1>6. phase' = IF disk[Main].state = "readable" THEN "modules" ELSE "parse_failure"
  BY <1>3 DEF Start
<1>7. errors' \subseteq ErrorKinds
  BY <1>1 DEF Start, ReadError, ErrorKinds
<1>8. Types'
  <2>1. Len(files') \in Nat /\ 1 \in 0..Len(files')
    BY <1>1, <1>2
  <2>2. \A i \in DOMAIN modules' : IsFiniteSet(modules'[i].imports)
    BY <1>1, <1>2
  <2> QED BY <1>1, <1>2, <1>5, <1>6, <1>7, <2>1, <2>2 DEF Types, Outcomes
<1>9. QueueInv'
  <2>1. Elements(files)' \subseteq Program'
    BY <1>1, <1>2, SameDisk DEF Elements
  <2> QED BY <1>1, <1>2, <1>5, <1>6, <2>1 DEF QueueInv
<1>10. FlagInv'
  BY <1>1, <1>2, <1>6 DEF FlagInv, FrontInv, Parsing, Validating, SortPhases
<1>11. ModulesInv'
  BY <1>1, <1>2, <1>5, <1>6 DEF ModulesInv, Parsing, Validating, SortPhases
<1> QED BY <1>8, <1>9, <1>10, <1>11 DEF FrontInv

LEMMA BeginModuleFront == FrontInv /\ BeginModule => FrontInv'
<1> SUFFICES ASSUME FrontInv, BeginModule PROVE FrontInv'
  OBVIOUS
<1> DEFINE n == Len(modules)
           new == NewModule(Base(Place))
<1>1. /\ Types /\ QueueInv /\ FlagInv /\ ModulesInv
      /\ phase = "modules" /\ current /= Eof /\ modules' = Append(modules, new) /\ failedDecl' = FALSE
      /\ phase' = IF n > 1 THEN "verify_failed" ELSE "body"
      /\ disk' = disk /\ files' = files /\ errors' = errors /\ currentFile' = currentFile /\ rest' = rest
      /\ current' = current /\ needSync' = needSync /\ hadError' = hadError /\ checked' = checked
      /\ invalid' = invalid
  BY DEF BeginModule, FrontInv, scannerVars, validatorVars, Place
<1>2. /\ modules \in Seq(Modules) /\ n \in Nat /\ currentFile \in 1..Len(files) /\ files \in Seq(Paths)
      /\ hadError = FALSE /\ DOMAIN modules = 1..n
  BY <1>1 DEF Types, QueueInv, FlagInv
<1>3. Place \in Paths /\ new \in Modules /\ new.imports = {} /\ new.decls = {} /\ new.name = Base(Place)
  BY <1>2, PathsAssumption DEF Place, NewModule, Modules
<1> HIDE DEF new, n
<1>4. /\ modules' \in Seq(Modules) /\ Len(modules') = n + 1 /\ DOMAIN modules' = 1..(n + 1)
      /\ modules'[n + 1] = new /\ \A i \in 1..n : modules'[i] = modules[i]
  BY <1>1, <1>2, <1>3 DEF n
<1>5. Types'
  <2>1. \A i \in DOMAIN modules' : IsFiniteSet(modules'[i].imports)
    <3>1. IsFiniteSet(new.imports)
      BY <1>3, FS_EmptySet
    <3>2. \A i \in DOMAIN modules : IsFiniteSet(modules[i].imports)
      BY <1>1 DEF Types
    <3> QED BY <3>1, <3>2, <1>2, <1>4
  <2> QED BY <2>1, <1>1, <1>4 DEF Types, Outcomes
<1>6. Ahead' = Ahead /\ Place' = Place /\ Elements(Text)' = Elements(Text) /\ Text' = Text
  BY <1>1 DEF Ahead, Place, Text, Elements
<1>7. QueueInv'
  <2>1. Elements(files)' \subseteq Program'
    BY <1>1, SameDisk DEF QueueInv, Elements
  <2>2. \A j \in 2..Len(files') : \E i \in DOMAIN modules' : files'[j] \in modules'[i].imports
    BY <1>1, <1>2, <1>4 DEF QueueInv
  <2> QED BY <1>1, <1>6, <2>1, <2>2 DEF QueueInv
<1>8. FlagInv'
  BY <1>1, <1>2, <1>4 DEF FlagInv, Parsing, Validating, SortPhases, n
<1>9. ModulesInv'
  <2>0. CASE n > 1
    <3>1. phase' = "verify_failed"
      BY <2>0, <1>1
    <3> QED BY <3>1 DEF ModulesInv, Parsing, Validating, SortPhases
  <2> SUFFICES ASSUME phase' = "body", n <= 1
               PROVE  ModulesInv'
    BY <2>0, <1>1, <1>2
  <2>1. \A i \in 1..n : Whole(i)
    BY <1>1, <1>2 DEF ModulesInv, ThisModule, n
  <2>2. \A i \in 1..n : Whole(i)'
    <3> SUFFICES ASSUME NEW i \in 1..n PROVE Whole(i)'
      OBVIOUS
    <3>1. PICK j \in DOMAIN files : /\ i > 1 => j > 1
                                    /\ modules[i].name = Base(files[j])
                                    /\ modules[i].imports = ImportsIn(files[j])
                                    /\ modules[i].decls = DeclsIn(files[j])
      BY <2>1 DEF Whole
    <3>2. modules'[i] = modules[i] /\ files' = files
      BY <1>1, <1>4
    <3> QED BY <3>1, <3>2, <1>1, SameDisk DEF Whole
  <2>3. ThisModule' = n + 1
    BY <1>4 DEF ThisModule
  <2>4. /\ modules = <<>> => currentFile = 1
        /\ modules /= <<>> => currentFile > 1
        /\ current \in Items \/ modules = <<>> => Elements(Text) = Ahead \cap Items
    BY <1>1, <1>2 DEF ModulesInv
  <2>5. modules'[1].name = Base(Main)
    <3>1. CASE modules = <<>>
      BY <3>1, <2>4, <1>1, <1>3, <1>4 DEF Place, Types, n
    <3>2. CASE modules /= <<>>
      <4>1. 1 \in 1..n
        BY <3>2, <1>2 DEF n
      <4> QED BY <3>2, <4>1, <1>1, <1>2, <1>4 DEF ModulesInv, Parsing
    <3> QED BY <3>1, <3>2
  <2>6. ThisModule' > 1 => currentFile' > 1
    BY <2>3, <2>4, <1>1, <1>2 DEF n
  <2>7. current' /= FileChanged => Growing'
    <3> SUFFICES ASSUME current /= FileChanged PROVE Growing'
      BY <1>1
    <3>1. current \in Items
      BY <1>1 DEF Types, Tokens
    <3>2. Elements(Text) = Ahead \cap Items
      BY <2>4, <3>1
    <3>3. /\ ImportsIn(Place) = {p \in Paths : Import(p) \in Ahead}
          /\ DeclsIn(Place) = {x \in Decls : Decl(x) \in Ahead}
      BY <3>2, TokensDiffer DEF ImportsIn, DeclsIn, Text
    <3>4. /\ ImportsIn(Place)' = ImportsIn(Place) /\ DeclsIn(Place)' = DeclsIn(Place)
          /\ modules[ThisModule]' = new
      BY <1>1, <1>6, <2>3, <1>4, SameDisk
    <3> QED BY <3>3, <3>4, <2>6, <1>6, <1>3 DEF Growing
  <2>8. current' = FileChanged =>
          Whole(ThisModule)' \/ (ThisModule' > 1 /\ modules'[ThisModule'] = NewModule(Base(Place)'))
    <3>1. CASE n = 0
      <4> SUFFICES ASSUME current = FileChanged PROVE FALSE
        BY <1>1, <3>1
      <4> QED BY <3>1, <2>4, <1>1, <1>2 DEF QueueInv, n
    <3>2. CASE n > 0
      BY <3>2, <1>2, <1>4, <1>6, <2>3 DEF new
    <3> QED BY <3>1, <3>2, <1>2
  <2>9. \A i \in 1..(ThisModule' - 1) : Whole(i)'
    BY <2>2, <2>3, <1>2
  <2> QED BY <1>1, <2>5, <2>7, <2>8, <2>9 DEF ModulesInv, Parsing, Validating, SortPhases
<1> QED BY <1>5, <1>7, <1>8, <1>9 DEF FrontInv

(* A module that does not change remains all of its file.                  *)
LEMMA KeepsWhole ==
  ASSUME disk' = disk, files \in Seq(Paths), files' \in Seq(Paths), Len(files) <= Len(files'),
         \A j \in 1..Len(files) : files'[j] = files[j],
         NEW i, Whole(i), modules'[i] = modules[i]
  PROVE  Whole(i)'
<1>1. PICK j \in DOMAIN files : /\ i > 1 => j > 1
                                /\ modules[i].name = Base(files[j])
                                /\ modules[i].imports = ImportsIn(files[j])
                                /\ modules[i].decls = DeclsIn(files[j])
  BY DEF Whole
<1>2. j \in DOMAIN files' /\ files'[j] = files[j]
  OBVIOUS
<1> QED BY <1>1, <1>2, SameDisk DEF Whole

(* The last module takes the item over that the parser consumes.           *)
Grown(ms, new, t) ==
  /\ new \in Seq(Modules) /\ Len(new) = Len(ms)
  /\ \A i \in 1..(Len(ms) - 1) : new[i] = ms[i]
  /\ new[Len(ms)].name = ms[Len(ms)].name
  /\ new[Len(ms)].imports = ms[Len(ms)].imports \cup {p \in Paths : Import(p) = t}
  /\ new[Len(ms)].decls = ms[Len(ms)].decls \cup {x \in Decls : Decl(x) = t}

LEMMA LastGrows ==
  ASSUME FrontInv, hadError = FALSE, phase = "body", current \in Items,
         NEW e \in SUBSET ErrorKinds, Advance(e), disk' = disk,
         files' = files \/ \E p \in Paths : files' = Append(files, p),
         Grown(modules, modules', current)
  PROVE  /\ modules'[1].name = Base(Main)
         /\ \A i \in 1..(ThisModule' - 1) : Whole(i)'
         /\ current' /= FileChanged => Growing'
         /\ current' = FileChanged => Whole(ThisModule)'
<1>0. PICK n : n = ThisModule
  OBVIOUS
<1>1. /\ Types /\ QueueInv /\ modules \in Seq(Modules) /\ modules /= <<>> /\ files \in Seq(Paths)
      /\ modules[1].name = Base(Main) /\ Growing /\ \A i \in 1..(n - 1) : Whole(i)
  BY <1>0, TokensDiffer DEF FrontInv, Types, FlagInv, ModulesInv, Parsing
<1>2. n \in Nat /\ n >= 1 /\ DOMAIN modules = 1..n /\ ThisModule' = n
  BY <1>0, <1>1 DEF ThisModule, Grown
<1>9. (\A i \in 1..(n - 1) : modules'[i] = modules[i]) /\ modules'[n].name = modules[n].name
  BY <1>0 DEF ThisModule, Grown
<1>10. /\ modules'[n].imports = modules[n].imports \cup {p \in Paths : Import(p) = current}
       /\ modules'[n].decls = modules[n].decls \cup {x \in Decls : Decl(x) = current}
  BY <1>0 DEF ThisModule, Grown
<1>3. /\ files' \in Seq(Paths) /\ Len(files) <= Len(files')
      /\ \A j \in 1..Len(files) : files'[j] = files[j]
      /\ currentFile \in 1..Len(files) /\ currentFile' >= currentFile
      /\ current' = FileChanged => Elements(rest) = {} /\ currentFile' > 1
      /\ current' /= FileChanged => currentFile' = currentFile /\ Place' = Place
                                      /\ Ahead' \cap Items = Elements(rest)
  BY <1>1, Advanced
<1>4. modules'[1].name = Base(Main)
  <2>1. modules[1].name = Base(Main)
    BY <1>1
  <2>2. CASE n = 1
    BY <2>1, <2>2, <1>9
  <2>3. CASE n > 1
    BY <2>1, <2>3, <1>2, <1>9
  <2> QED BY <2>2, <2>3, <1>2
<1>5. \A i \in 1..(n - 1) : Whole(i)'
  BY <1>1, <1>2, <1>3, <1>9, KeepsWhole
<1>6. /\ n > 1 => currentFile > 1
      /\ modules'[n].name = Base(Place)
      /\ ImportsIn(Place) = modules'[n].imports \cup {p \in Paths : Import(p) \in Elements(rest)}
      /\ DeclsIn(Place) = modules'[n].decls \cup {x \in Decls : Decl(x) \in Elements(rest)}
  <2>1. /\ n > 1 => currentFile > 1
        /\ modules[n].name = Base(Place)
        /\ ImportsIn(Place) = modules[n].imports \cup {p \in Paths : Import(p) \in Ahead}
        /\ DeclsIn(Place) = modules[n].decls \cup {x \in Decls : Decl(x) \in Ahead}
    <3>1. Growing
      BY <1>1
    <3> QED BY <3>1, <1>0 DEF Growing
  <2>2. \A t : t \in Ahead <=> t = current \/ t \in Elements(rest)
    BY DEF Ahead
  <2>3. ImportsIn(Place) = modules'[n].imports \cup {p \in Paths : Import(p) \in Elements(rest)}
    BY <2>1, <2>2, <1>10
  <2>4. DeclsIn(Place) = modules'[n].decls \cup {x \in Decls : Decl(x) \in Elements(rest)}
    BY <2>1, <2>2, <1>10
  <2> QED BY <2>1, <2>3, <2>4, <1>9
<1>7. CASE current' /= FileChanged
  <2>1. /\ \A p \in Paths : Import(p) \in Elements(rest) <=> Import(p) \in Ahead'
        /\ \A x \in Decls : Decl(x) \in Elements(rest) <=> Decl(x) \in Ahead'
    BY <1>3, <1>7, TokensDiffer
  <2>2. /\ currentFile' = currentFile /\ Place' = Place
        /\ ImportsIn(Place)' = ImportsIn(Place) /\ DeclsIn(Place)' = DeclsIn(Place)
    BY <1>3, <1>7, SameDisk
  <2>3. modules[ThisModule]' = modules'[n]
    BY <1>2
  <2>4. Growing'
    BY <1>2, <1>6, <2>1, <2>2, <2>3 DEF Growing
  <2> QED BY <1>2, <1>4, <1>5, <1>7, <2>4
<1>8. CASE current' = FileChanged
  <2>1. /\ currentFile \in DOMAIN files' /\ files'[currentFile] = Place
    BY <1>1, <1>3 DEF Place
  <2>0. Elements(rest) = {}
    BY <1>3, <1>8
  <2>2. modules'[n].imports = ImportsIn(Place) /\ modules'[n].decls = DeclsIn(Place)
    BY <1>6, <2>0
  <2>3. Whole(n)'
    <3>1. PICK c, p : c = currentFile /\ p = Place
      OBVIOUS
    <3>2. /\ ImportsIn(p)' = modules'[n].imports /\ DeclsIn(p)' = modules'[n].decls
      BY <2>2, <3>1, SameDisk
    <3>3. c \in DOMAIN files' /\ files'[c] = p /\ (n > 1 => c > 1) /\ modules'[n].name = Base(p)
      BY <1>6, <2>1, <3>1
    <3> QED BY <3>2, <3>3 DEF Whole
  <2>4. Whole(ThisModule)'
    BY <1>2, <2>3 DEF Whole
  <2> QED BY <1>2, <1>4, <1>5, <1>8, <2>4
<1> QED BY <1>7, <1>8

(* A declaration, or an import, added to the last module.                  *)
LEMMA DeclAdded ==
  ASSUME NEW ms \in Seq(Modules), ms /= <<>>, NEW x \in Decls,
         NEW new, new = [ms EXCEPT ![Len(ms)].decls = @ \cup {x}]
  PROVE  Grown(ms, new, Decl(x)) /\ new[Len(ms)].imports = ms[Len(ms)].imports
<1>1. PICK n : n = Len(ms)
  OBVIOUS
<1>2. n \in Nat /\ n >= 1 /\ DOMAIN ms = 1..n /\ n \in 1..n /\ ms[n] \in Modules
  BY <1>1
<1>3. PICK last : last = [ms[n] EXCEPT !.decls = ms[n].decls \cup {x}]
  OBVIOUS
<1>4. /\ last \in Modules /\ last.name = ms[n].name /\ last.imports = ms[n].imports
      /\ last.decls = ms[n].decls \cup {x}
  BY <1>2, <1>3 DEF Modules
<1>5. new = [ms EXCEPT ![n] = last]
  BY <1>1, <1>3
<1>6. /\ [ms EXCEPT ![n] = last] \in Seq(Modules) /\ Len([ms EXCEPT ![n] = last]) = Len(ms)
      /\ \A i \in 1..Len(ms) : [ms EXCEPT ![n] = last][i] = IF i = n THEN last ELSE ms[i]
  BY <1>1, <1>2, <1>4, ExceptSeq
<1>7. new \in Seq(Modules) /\ Len(new) = n /\ \A i \in 1..n : new[i] = IF i = n THEN last ELSE ms[i]
  BY <1>1, <1>5, <1>6
<1>8. {q \in Paths : Import(q) = Decl(x)} = {} /\ {y \in Decls : Decl(y) = Decl(x)} = {x}
  BY DEF Import, Decl
<1>9. /\ new[n].name = ms[n].name
      /\ new[n].imports = ms[n].imports \cup {}
      /\ new[n].decls = ms[n].decls \cup {x}
      /\ \A i \in 1..(n - 1) : new[i] = ms[i]
  BY <1>2, <1>4, <1>7
<1> QED BY <1>1, <1>7, <1>8, <1>9 DEF Grown

LEMMA ImportAdded ==
  ASSUME NEW ms \in Seq(Modules), ms /= <<>>, NEW p \in Paths,
         NEW new, new = [ms EXCEPT ![Len(ms)].imports = @ \cup {p}]
  PROVE  Grown(ms, new, Import(p)) /\ new[Len(ms)].imports = ms[Len(ms)].imports \cup {p}
<1>1. PICK n : n = Len(ms)
  OBVIOUS
<1>2. n \in Nat /\ n >= 1 /\ DOMAIN ms = 1..n /\ n \in 1..n /\ ms[n] \in Modules
  BY <1>1
<1>3. PICK last : last = [ms[n] EXCEPT !.imports = ms[n].imports \cup {p}]
  OBVIOUS
<1>4. /\ last \in Modules /\ last.name = ms[n].name /\ last.decls = ms[n].decls
      /\ last.imports = ms[n].imports \cup {p}
  BY <1>2, <1>3 DEF Modules
<1>5. new = [ms EXCEPT ![n] = last]
  BY <1>1, <1>3
<1>6. /\ [ms EXCEPT ![n] = last] \in Seq(Modules) /\ Len([ms EXCEPT ![n] = last]) = Len(ms)
      /\ \A i \in 1..Len(ms) : [ms EXCEPT ![n] = last][i] = IF i = n THEN last ELSE ms[i]
  BY <1>1, <1>2, <1>4, ExceptSeq
<1>7. new \in Seq(Modules) /\ Len(new) = n /\ \A i \in 1..n : new[i] = IF i = n THEN last ELSE ms[i]
  BY <1>1, <1>5, <1>6
<1>8. {q \in Paths : Import(q) = Import(p)} = {p} /\ {y \in Decls : Decl(y) = Import(p)} = {}
  BY DEF Import, Decl
<1>9. /\ new[n].name = ms[n].name
      /\ new[n].imports = ms[n].imports \cup {p}
      /\ new[n].decls = ms[n].decls \cup {}
      /\ \A i \in 1..(n - 1) : new[i] = ms[i]
  BY <1>2, <1>4, <1>7
<1> QED BY <1>1, <1>7, <1>8, <1>9 DEF Grown

LEMMA ParseDeclFront == FrontInv /\ ParseDecl => FrontInv'
<1> SUFFICES ASSUME FrontInv, ParseDecl PROVE FrontInv'
  OBVIOUS
<1>0. PICK n, x, e : /\ n = ThisModule /\ x = current.of
                     /\ e = IF x \in modules[n].decls THEN {"redeclared"} ELSE {}
  OBVIOUS
<1>1. /\ Types /\ QueueInv /\ FlagInv /\ phase = "body" /\ current.kind = "decl" /\ Advance(e)
      /\ modules' = [modules EXCEPT ![Len(modules)].decls = @ \cup {x}]
      /\ hadError' = (hadError \/ x \in modules[n].decls) /\ needSync' = FALSE
      /\ phase' = IF needSync \/ x \in modules[n].decls THEN "sync" ELSE "body"
      /\ disk' = disk /\ files' = files /\ failedDecl' = failedDecl /\ checked' = checked
      /\ invalid' = invalid
  BY <1>0 DEF ParseDecl, FrontInv, validatorVars, AfterItem, ThisModule
<1>2. /\ modules \in Seq(Modules) /\ modules /= <<>> /\ DOMAIN modules = 1..n /\ n \in Nat /\ n >= 1
      /\ n = Len(modules) /\ e \in SUBSET ErrorKinds /\ current \in Tokens
      /\ hadError' \in BOOLEAN /\ phase' \in {"sync", "body"}
      /\ hadError' = FALSE => hadError = FALSE /\ phase' = "body"
  <2>1. /\ modules \in Seq(Modules) /\ modules /= <<>> /\ n = Len(modules) /\ current \in Tokens
        /\ hadError \in BOOLEAN /\ needSync \in BOOLEAN
        /\ hadError = FALSE => needSync = FALSE
    BY <1>0, <1>1 DEF Types, FlagInv, ThisModule
  <2>2. e \in SUBSET ErrorKinds
    BY <1>0 DEF ErrorKinds
  <2>3. /\ hadError' = (hadError \/ x \in modules[n].decls)
        /\ phase' = IF needSync \/ x \in modules[n].decls THEN "sync" ELSE "body"
    BY <1>1
  <2>4. /\ hadError' \in BOOLEAN /\ phase' \in {"sync", "body"}
        /\ hadError' = FALSE => hadError = FALSE /\ phase' = "body"
    <3>1. CASE x \in modules[n].decls
      BY <2>3, <3>1
    <3>2. CASE x \notin modules[n].decls
      BY <2>1, <2>3, <3>2
    <3> QED BY <3>1, <3>2
  <2> QED BY <2>1, <2>2, <2>4
<1>3. x \in Decls /\ current = Decl(x) /\ current \in Items
  BY <1>0, <1>1, <1>2, TokensDiffer
<1>4. Grown(modules, modules', current) /\ modules'[n].imports = modules[n].imports
  BY <1>1, <1>2, <1>3, DeclAdded
<1>5. /\ modules' \in Seq(Modules) /\ Len(modules') = n /\ modules' /= <<>>
      /\ \A i \in 1..n : modules'[i].imports = modules[i].imports
  BY <1>2, <1>4 DEF Grown
<1>6. Types'
  <2>1. \A i \in DOMAIN modules' : IsFiniteSet(modules'[i].imports)
    BY <1>1, <1>2, <1>5 DEF Types
  <2>2. /\ files' \in Seq(Paths) /\ files' /= <<>> /\ files'[1] = Main /\ currentFile' \in 0..Len(files')
        /\ rest' \in Seq(Items) /\ current' \in Tokens /\ errors' \subseteq ErrorKinds
    BY <1>1, <1>2, Advanced
  <2>3. /\ disk' \in AllDisks /\ failedDecl' \in BOOLEAN /\ invalid' \in BOOLEAN
        /\ needSync' \in BOOLEAN
    BY <1>1 DEF Types
  <2> QED BY <2>1, <2>2, <2>3, <1>2, <1>5 DEF Types
<1>7. QueueInv'
  <2>1. Elements(files)' \subseteq Program'
    BY <1>1, SameDisk DEF QueueInv, Elements
  <2>2. \A j \in 2..Len(files') : \E i \in DOMAIN modules' : files'[j] \in modules'[i].imports
    BY <1>1, <1>2, <1>5 DEF QueueInv
  <2>3. /\ currentFile' >= 1 /\ Ahead' \cap Items \subseteq Elements(Text)'
        /\ current' = FileChanged => currentFile' > 1 /\ rest' = Text'
        /\ current' = Eof => rest' = <<>>
    BY <1>1, <1>2, Advanced
  <2> QED BY <1>2, <2>1, <2>2, <2>3 DEF QueueInv
<1>8. FlagInv'
  BY <1>1, <1>2, <1>5 DEF FlagInv, Parsing, Validating, SortPhases
<1>9. ModulesInv'
  <2> SUFFICES ASSUME hadError' = FALSE PROVE ModulesInv'
    BY DEF ModulesInv
  <2>1. phase' = "body" /\ hadError = FALSE
    BY <1>2
  <2>2. /\ modules'[1].name = Base(Main)
        /\ \A i \in 1..(ThisModule' - 1) : Whole(i)'
        /\ current' /= FileChanged => Growing'
        /\ current' = FileChanged => Whole(ThisModule)'
    BY <1>1, <1>2, <1>3, <1>4, <2>1, LastGrows
  <2> QED BY <2>1, <2>2 DEF ModulesInv, Parsing, Validating, SortPhases
<1> QED BY <1>6, <1>7, <1>8, <1>9 DEF FrontInv

(* Steps that only skip tokens, after an error.                            *)
LEMMA SkipFront ==
  ASSUME FrontInv, phase \in {"body", "sync"}, phase' \in {"body", "sync"},
         NEW e \in SUBSET ErrorKinds, Advance(e), hadError' = TRUE,
         needSync' \in BOOLEAN, failedDecl' \in BOOLEAN,
         UNCHANGED <<disk, files, modules, checked, invalid>>
  PROVE  FrontInv'
<1>1. Types /\ QueueInv /\ FlagInv /\ phase /= "start"
  BY DEF FrontInv
<1>2. Types'
  BY <1>1, Advanced DEF Types
<1>3. QueueInv'
  <2>1. Elements(files)' \subseteq Program'
    BY <1>1, SameDisk DEF QueueInv, Elements
  <2>2. \A j \in 2..Len(files') : \E i \in DOMAIN modules' : files'[j] \in modules'[i].imports
    BY <1>1 DEF QueueInv
  <2>3. /\ currentFile' >= 1 /\ Ahead' \cap Items \subseteq Elements(Text)'
        /\ current' = FileChanged => currentFile' > 1 /\ rest' = Text'
        /\ current' = Eof => rest' = <<>>
    BY <1>1, Advanced
  <2> QED BY <1>1, <2>1, <2>2, <2>3 DEF QueueInv
<1>4. FlagInv'
  BY <1>1 DEF FlagInv, Parsing, Validating, SortPhases
<1>5. ModulesInv'
  BY DEF ModulesInv
<1> QED BY <1>2, <1>3, <1>4, <1>5 DEF FrontInv

LEMMA ParseBadFront == FrontInv /\ ParseBad => FrontInv'
<1> SUFFICES ASSUME FrontInv, ParseBad PROVE FrontInv'
  OBVIOUS
<1>1. /\ phase = "body" /\ phase' = "sync" /\ needSync' = FALSE /\ Advance({"syntax"})
      /\ hadError' = TRUE /\ failedDecl' \in BOOLEAN
      /\ UNCHANGED <<disk, files, modules, checked, invalid>>
  BY DEF ParseBad, AfterItem, validatorVars, FrontInv, Types
<1>2. {"syntax"} \in SUBSET ErrorKinds
  BY DEF ErrorKinds
<1> QED BY <1>1, <1>2, SkipFront

LEMMA SyncSkipFront == FrontInv /\ SyncSkip => FrontInv'
<1> SUFFICES ASSUME FrontInv, SyncSkip PROVE FrontInv'
  OBVIOUS
<1>1. /\ phase = "sync" /\ phase' = "sync" /\ Advance({}) /\ hadError' = hadError
      /\ needSync' \in BOOLEAN /\ failedDecl' \in BOOLEAN
      /\ UNCHANGED <<disk, files, modules, checked, invalid>>
  BY DEF SyncSkip, parserVars, validatorVars, FrontInv, Types
<1>2. hadError = TRUE
  BY <1>1 DEF FrontInv, FlagInv, Types
<1>3. {} \in SUBSET ErrorKinds
  OBVIOUS
<1> QED BY <1>1, <1>2, <1>3, SkipFront

LEMMA SyncDoneFront == FrontInv /\ SyncDone => FrontInv'
<1> SUFFICES ASSUME FrontInv, SyncDone PROVE FrontInv'
  OBVIOUS
<1>1. /\ phase = "sync" /\ phase' = "body" /\ hadError' = hadError /\ Types /\ QueueInv /\ FlagInv
      /\ UNCHANGED <<disk, files, errors, currentFile, rest, current, modules, needSync, failedDecl,
                     checked, invalid>>
  BY DEF SyncDone, scannerVars, parserVars, validatorVars, FrontInv
<1>2. hadError = TRUE
  BY <1>1 DEF FlagInv, Types
<1>3. Types'
  BY <1>1 DEF Types
<1>4. QueueInv'
  <2>1. Elements(files)' \subseteq Program'
    BY <1>1, SameDisk DEF QueueInv, Elements
  <2>2. Ahead' = Ahead /\ Text' = Text /\ Elements(Text)' = Elements(Text)
    BY <1>1 DEF Ahead, Text, Place, Elements
  <2> QED BY <1>1, <2>1, <2>2 DEF QueueInv
<1>5. FlagInv' /\ ModulesInv'
  BY <1>1, <1>2 DEF FlagInv, ModulesInv, Parsing, Validating, SortPhases
<1> QED BY <1>3, <1>4, <1>5 DEF FrontInv

LEMMA ParseImportFront == FrontInv /\ ParseImport => FrontInv'
<1> SUFFICES ASSUME FrontInv, ParseImport PROVE FrontInv'
  OBVIOUS
<1>0. PICK n, p : n = ThisModule /\ p = current.of
  OBVIOUS
<1>1. /\ Types /\ QueueInv /\ FlagInv /\ phase = "body" /\ current.kind = "import"
      /\ disk' = disk /\ failedDecl' = failedDecl /\ checked' = checked /\ invalid' = invalid
  BY DEF ParseImport, FrontInv, validatorVars
<1>2. /\ modules \in Seq(Modules) /\ modules /= <<>> /\ DOMAIN modules = 1..n /\ n \in Nat /\ n >= 1
      /\ n = Len(modules) /\ current \in Tokens /\ files \in Seq(Paths) /\ currentFile \in 1..Len(files)
      /\ Elements(files) \subseteq Program /\ (hadError = FALSE => needSync = FALSE)
  BY <1>0, <1>1 DEF Types, FlagInv, QueueInv, ThisModule
<1>3. p \in Paths /\ current = Import(p) /\ current \in Items
  BY <1>0, <1>1, <1>2, TokensDiffer
<1>4. CASE Exists(p) /\ Len(files) = MaxFiles
  <2>1. /\ phase' = "endless"
        /\ UNCHANGED <<files, errors, currentFile, rest, current, modules, needSync, hadError>>
    BY <1>4, <1>0 DEF ParseImport, scannerVars
  <2>2. Types'
    BY <1>1, <2>1 DEF Types, Outcomes
  <2>3. QueueInv'
    <3>1. Elements(files)' \subseteq Program'
      BY <1>1, <2>1, SameDisk DEF QueueInv, Elements
    <3>2. Ahead' = Ahead /\ Text' = Text /\ Elements(Text)' = Elements(Text)
      BY <1>1, <2>1 DEF Ahead, Text, Place, Elements
    <3> QED BY <1>1, <2>1, <3>1, <3>2 DEF QueueInv
  <2>4. FlagInv'
    BY <1>1, <2>1 DEF FlagInv, Parsing, Validating, SortPhases
  <2>5. ModulesInv'
    BY <1>1, <2>1 DEF ModulesInv, Parsing, Validating, SortPhases
  <2> QED BY <2>2, <2>3, <2>4, <2>5 DEF FrontInv
<1>5. CASE Exists(p) /\ Len(files) /= MaxFiles
  <2>1. /\ Advance({}) /\ files' = Append(files, p)
        /\ modules' = [modules EXCEPT ![Len(modules)].imports = @ \cup {p}]
        /\ phase' = IF needSync THEN "sync" ELSE "body"
        /\ needSync' = FALSE /\ hadError' = hadError
    BY <1>5, <1>0 DEF ParseImport, AfterItem, Queued, ThisModule
  <2>2. Grown(modules, modules', current) /\ modules'[n].imports = modules[n].imports \cup {p}
    BY <1>2, <1>3, <2>1, ImportAdded
  <2>3. /\ modules' \in Seq(Modules) /\ Len(modules') = n /\ modules' /= <<>> /\ DOMAIN modules' = 1..n
        /\ \A i \in 1..n : \/ modules'[i].imports = modules[i].imports
                            \/ modules'[i].imports = modules[i].imports \cup {p}
    BY <1>2, <2>2 DEF Grown
  <2>4. {} \in SUBSET ErrorKinds /\ \E q \in Paths : files' = Append(files, q)
    BY <1>3, <2>1
  <2>5. /\ files' \in Seq(Paths) /\ files' /= <<>> /\ files'[1] = Main /\ currentFile' \in 0..Len(files')
        /\ rest' \in Seq(Items) /\ current' \in Tokens /\ errors' \subseteq ErrorKinds
        /\ currentFile' >= 1 /\ Ahead' \cap Items \subseteq Elements(Text)'
        /\ current' = FileChanged => currentFile' > 1 /\ rest' = Text'
        /\ current' = Eof => rest' = <<>>
    BY <1>1, <2>1, <2>4, Advanced
  <2>6. Types'
    <3>1. \A i \in DOMAIN modules' : IsFiniteSet(modules'[i].imports)
      <4>1. \A i \in 1..n : IsFiniteSet(modules[i].imports)
        BY <1>1, <1>2 DEF Types
      <4>2. \A i \in 1..n : IsFiniteSet(modules[i].imports \cup {p})
        <5> SUFFICES ASSUME NEW i \in 1..n PROVE IsFiniteSet(modules[i].imports \cup {p})
          OBVIOUS
        <5>1. IsFiniteSet(modules[i].imports)
          BY <4>1
        <5> QED BY <5>1, FS_AddElement
      <4> SUFFICES ASSUME NEW i \in 1..n PROVE IsFiniteSet(modules'[i].imports)
        BY <2>3
      <4> QED BY <2>3, <4>1, <4>2
    <3>2. /\ disk' \in AllDisks /\ failedDecl' \in BOOLEAN /\ invalid' \in BOOLEAN
          /\ needSync' \in BOOLEAN /\ hadError' \in BOOLEAN /\ phase' \in {"sync", "body"}
      BY <1>1, <2>1 DEF Types
    <3> QED BY <2>3, <2>5, <3>1, <3>2 DEF Types
  <2>7. QueueInv'
    <3>1. p \in Program
      <4>1. Place \in Program
        BY <1>2 DEF Place, Elements
      <4>2. p \in ImportsIn(Place)
        BY <1>1, <1>3 DEF QueueInv, Ahead, ImportsIn, Text
      <4> QED BY <4>1, <4>2, ProgramClosed
    <3>2. /\ Len(files') = Len(files) + 1 /\ DOMAIN files' = 1..(Len(files) + 1) /\ Len(files) \in Nat
          /\ files'[Len(files) + 1] = p /\ \A j \in 1..Len(files) : files'[j] = files[j]
      BY <1>2, <1>3, <2>1
    <3>3. Elements(files)' \subseteq Program'
      <4>1. \A j \in 1..Len(files) : files[j] \in Program
        BY <1>2 DEF Elements
      <4>2. Program' = Program
        BY <1>1, SameDisk
      <4> QED BY <3>1, <3>2, <4>1, <4>2 DEF Elements
    <3>4. \A j \in 2..Len(files') : \E i \in DOMAIN modules' : files'[j] \in modules'[i].imports
      <4> SUFFICES ASSUME NEW j \in 2..Len(files')
                   PROVE  \E i \in 1..n : files'[j] \in modules'[i].imports
        BY <2>3
      <4>1. CASE j = Len(files) + 1
        BY <4>1, <1>2, <2>2, <3>2
      <4>2. CASE j /= Len(files) + 1
        <5>1. j \in 2..Len(files)
          BY <4>2, <3>2
        <5>2. PICK i \in 1..n : files[j] \in modules[i].imports
          BY <5>1, <1>1, <1>2 DEF QueueInv
        <5> QED BY <5>1, <5>2, <2>3, <3>2
      <4> QED BY <4>1, <4>2
    <3>5. phase' /= "start"
      BY <2>1
    <3> QED BY <2>5, <3>3, <3>4, <3>5 DEF QueueInv
  <2>8. FlagInv'
    BY <1>1, <1>2, <2>1, <2>3 DEF FlagInv, Parsing, Validating, SortPhases
  <2>9. ModulesInv'
    <3> SUFFICES ASSUME hadError = FALSE PROVE ModulesInv'
      BY <2>1 DEF ModulesInv
    <3>1. phase' = "body"
      BY <1>2, <2>1
    <3>2. /\ modules'[1].name = Base(Main)
          /\ \A i \in 1..(ThisModule' - 1) : Whole(i)'
          /\ current' /= FileChanged => Growing'
          /\ current' = FileChanged => Whole(ThisModule)'
      BY <1>1, <1>2, <1>3, <2>1, <2>2, <2>4, LastGrows
    <3> QED BY <3>1, <3>2 DEF ModulesInv, Parsing, Validating, SortPhases
  <2> QED BY <2>6, <2>7, <2>8, <2>9 DEF FrontInv
<1>6. CASE ~Exists(p)
  <2>1. /\ Advance({"missing"}) /\ hadError' = TRUE /\ needSync' = TRUE
        /\ UNCHANGED <<files, modules, phase>>
    BY <1>6, <1>0 DEF ParseImport
  <2>2. {"missing"} \in SUBSET ErrorKinds
    BY DEF ErrorKinds
  <2>3. failedDecl' \in BOOLEAN /\ needSync' \in BOOLEAN
    BY <1>1, <2>1 DEF Types
  <2> QED BY <1>1, <2>1, <2>2, <2>3, SkipFront
<1> QED BY <1>4, <1>5, <1>6

LEMMA EndModuleFront == FrontInv /\ EndModule => FrontInv'
<1> SUFFICES ASSUME FrontInv, EndModule PROVE FrontInv'
  OBVIOUS
<1>0. PICK n : n = ThisModule
  OBVIOUS
<1>1. /\ Types /\ QueueInv /\ FlagInv /\ ModulesInv /\ phase = "body" /\ current \in {FileChanged, Eof}
      /\ phase' = IF hadError THEN "parse_failure" ELSE "modules"
      /\ UNCHANGED <<disk, files, modules, needSync, failedDecl, hadError, checked, invalid>>
  BY DEF EndModule, BodyFailed, FrontInv, parserVars, validatorVars
<1>2. /\ modules \in Seq(Modules) /\ modules /= <<>> /\ DOMAIN modules = 1..n /\ n \in Nat /\ n >= 1
      /\ files \in Seq(Paths) /\ currentFile \in 1..Len(files) /\ hadError \in BOOLEAN
      /\ phase' \in {"parse_failure", "modules"} /\ ThisModule' = n
      /\ phase' = "modules" => hadError = FALSE
  BY <1>0, <1>1 DEF Types, FlagInv, QueueInv, ThisModule
<1>3. {} \in SUBSET ErrorKinds
  OBVIOUS
<1>4. /\ rest' \in Seq(Items) /\ current' \in Tokens /\ errors' \subseteq ErrorKinds
      /\ currentFile' \in 1..Len(files) /\ currentFile' >= currentFile
      /\ Ahead' \cap Items \subseteq Elements(Text)'
      /\ current' = FileChanged => currentFile' > 1 /\ rest' = Text'
      /\ current' = Eof => rest' = <<>>
  <2>1. CASE current = Eof
    <3>1. UNCHANGED <<currentFile, rest, current, errors>>
      BY <2>1 DEF EndModule, scannerVars
    <3>2. Ahead' = Ahead /\ Text' = Text /\ Elements(Text)' = Elements(Text)
      BY <1>1, <3>1 DEF Ahead, Text, Place, Elements
    <3> QED BY <1>1, <1>2, <3>1, <3>2 DEF Types, QueueInv
  <2>2. CASE current /= Eof
    <3>1. Advance({})
      BY <2>2 DEF EndModule
    <3> QED BY <1>1, <1>2, <1>3, <3>1, Advanced
  <2> QED BY <2>1, <2>2
<1>5. Types'
  BY <1>1, <1>2, <1>4 DEF Types, Outcomes
<1>6. QueueInv'
  <2>1. Elements(files)' \subseteq Program'
    BY <1>1, SameDisk DEF QueueInv, Elements
  <2>2. \A j \in 2..Len(files') : \E i \in DOMAIN modules' : files'[j] \in modules'[i].imports
    BY <1>1 DEF QueueInv
  <2>3. currentFile' >= 1 /\ phase' /= "start"
    BY <1>2, <1>4
  <2> QED BY <1>4, <2>1, <2>2, <2>3 DEF QueueInv
<1>7. FlagInv'
  BY <1>1, <1>2 DEF FlagInv, Parsing, Validating, SortPhases
<1>8. ModulesInv'
  <2> SUFFICES ASSUME hadError = FALSE, phase' = "modules"
               PROVE  ModulesInv'
    BY <1>1, <1>2 DEF ModulesInv, Parsing, Validating, SortPhases
  <2>1. /\ \A i \in 1..(n - 1) : Whole(i)
        /\ current /= FileChanged => Growing
        /\ current = FileChanged => Whole(n) \/ (n > 1 /\ modules[n] = NewModule(Base(Place)))
    BY <1>0, <1>1 DEF ModulesInv
  <2>2. modules'[1].name = Base(Main)
    BY <1>1, <1>2 DEF ModulesInv, Parsing
  <2>3. ASSUME NEW i, Whole(i) PROVE Whole(i)'
    BY <1>1, <1>2, <2>3, KeepsWhole
  <2>4. CASE current = Eof
    <3>1. UNCHANGED <<currentFile, rest, current, errors>>
      BY <2>4 DEF EndModule, scannerVars
    <3>2. rest = <<>> /\ Elements(rest) = {}
      BY <1>1, <2>4 DEF QueueInv, Elements
    <3>3. /\ \A p \in Paths : Import(p) \notin Ahead
          /\ \A x \in Decls : Decl(x) \notin Ahead
      BY <2>4, <3>2, TokensDiffer DEF Ahead
    <3>4. Growing
      BY <2>1, <2>4, TokensDiffer
    <3>5. /\ n > 1 => currentFile > 1
          /\ modules[n].name = Base(Place)
          /\ ImportsIn(Place) = modules[n].imports /\ DeclsIn(Place) = modules[n].decls
      BY <1>0, <3>3, <3>4 DEF Growing
    <3>6. Whole(n)
      BY <1>2, <3>5 DEF Whole, Place
    <3>7. \A i \in 1..n : Whole(i)'
      BY <1>2, <2>1, <2>3, <3>6
    <3>8. current' = Eof /\ current' \notin Items /\ modules' /= <<>> /\ DOMAIN modules' = 1..n
      BY <1>1, <1>2, <2>4, <3>1, TokensDiffer
    <3> QED BY <2>2, <3>7, <3>8 DEF ModulesInv, Parsing, Validating, SortPhases
  <2>5. CASE current = FileChanged
    <3>1. Advance({}) /\ currentFile > 1 /\ rest = Text
      BY <1>1, <2>5, TokensDiffer DEF EndModule, QueueInv
    <3>2. /\ current' /= FileChanged => currentFile' = currentFile /\ Place' = Place
                                         /\ Ahead' \cap Items = Elements(rest)
      BY <1>1, <1>2, <1>3, <3>1, Advanced
    <3>3. currentFile' > 1 /\ modules' /= <<>> /\ DOMAIN modules' = 1..n
      BY <1>1, <1>2, <1>4, <3>1
    <3>4. current' \in Items => Elements(Text)' = Ahead' \cap Items
      <4> SUFFICES ASSUME current' \in Items PROVE Elements(Text)' = Ahead' \cap Items
        OBVIOUS
      <4>1. Place' = Place /\ Ahead' \cap Items = Elements(rest)
        BY <3>2, TokensDiffer
      <4>2. Elements(Text)' = Elements(Text)
        BY <1>1, <4>1 DEF Text, Elements
      <4> QED BY <4>1, <4>2, <3>1
    <3>5. (\A i \in 1..n : Whole(i)') \/ (n > 1 /\ current' /= Eof)
      <4>1. CASE Whole(n)
        BY <4>1, <1>2, <2>1, <2>3
      <4>2. CASE ~Whole(n) /\ current' = Eof
        <5>1. n > 1 /\ modules[n] = NewModule(Base(Place))
          BY <2>1, <2>5, <4>2
        <5>2. rest' = <<>> /\ Elements(rest)' = {} /\ Ahead' \cap Items = Elements(rest)
          BY <1>4, <3>2, <4>2, TokensDiffer DEF Elements
        <5>3. Elements(Text) = {}
          BY <3>1, <4>2, <5>2, TokensDiffer DEF Ahead
        <5>4. ImportsIn(Place) = {} /\ DeclsIn(Place) = {}
          BY <5>3 DEF ImportsIn, DeclsIn, Text
        <5>5. Whole(n)
          BY <1>2, <3>1, <5>1, <5>4 DEF Whole, Place, NewModule
        <5> QED BY <4>2, <5>5
      <4>3. CASE ~Whole(n) /\ current' /= Eof
        BY <2>1, <2>5, <4>3
      <4> QED BY <4>1, <4>2, <4>3
    <3> QED BY <1>2, <2>2, <3>3, <3>4, <3>5 DEF ModulesInv, Parsing, Validating, SortPhases
  <2> QED BY <1>1, <2>4, <2>5
<1> QED BY <1>5, <1>6, <1>7, <1>8 DEF FrontInv

LEMMA BeginValidationFront == FrontInv /\ BeginValidation => FrontInv'
<1> SUFFICES ASSUME FrontInv, BeginValidation PROVE FrontInv'
  OBVIOUS
<1>1. /\ Types /\ QueueInv /\ FlagInv /\ ModulesInv /\ phase = "modules" /\ current = Eof /\ phase' = "count"
      /\ UNCHANGED <<disk, files, errors, currentFile, rest, current, modules, needSync, failedDecl,
                     hadError, checked, invalid>>
  BY DEF BeginValidation, FrontInv, scannerVars, parserVars, validatorVars
<1>2. /\ hadError = FALSE /\ rest = <<>> /\ Elements(rest) = {} /\ files \in Seq(Paths) /\ files /= <<>>
      /\ files[1] = Main /\ disk \in AllDisks
  BY <1>1 DEF FlagInv, QueueInv, Elements, Types
<1>3. Types'
  BY <1>1 DEF Types, SortPhases
<1>4. QueueInv'
  <2>1. Elements(files)' \subseteq Program'
    BY <1>1, SameDisk DEF QueueInv, Elements
  <2>2. Ahead' = Ahead /\ Text' = Text /\ Elements(Text)' = Elements(Text)
    BY <1>1 DEF Ahead, Text, Place, Elements
  <2> QED BY <1>1, <2>1, <2>2 DEF QueueInv
<1>5. FlagInv'
  BY <1>1 DEF FlagInv, Parsing, Validating, SortPhases
<1>6. ModulesInv'
  <2>1. \A i \in DOMAIN modules : Whole(i)
    BY <1>1, <1>2 DEF ModulesInv
  <2>2. \A i \in DOMAIN modules : Whole(i)'
    BY <1>1, <1>2, <2>1, KeepsWhole
  <2>3. modules /= <<>> => modules[1].name = Base(Main)
    BY <1>1, <1>2 DEF ModulesInv, Parsing
  <2>4. modules = <<>> => disk[Main].items = <<>>
    <3> SUFFICES ASSUME modules = <<>> PROVE disk[Main].items = <<>>
      OBVIOUS
    <3>1. Ahead \cap Items = {}
      BY <1>1, <1>2, TokensDiffer DEF Ahead
    <3>2. Elements(Text) = {} /\ Place = Main
      BY <1>1, <1>2, <3>1 DEF ModulesInv, Place
    <3>3. disk[Main].items \in Seq(Items) /\ Elements(disk[Main].items) = {}
      BY <1>2, <3>2, PathsAssumption DEF Text, AllDisks
    <3> QED BY <3>3, NoElements
  <2>5. phase' = "count" /\ modules' = modules
    BY <1>1
  <2> QED BY <1>1, <2>2, <2>3, <2>4, <2>5 DEF ModulesInv, Parsing, Validating, SortPhases
<1> QED BY <1>3, <1>4, <1>5, <1>6 DEF FrontInv

(* The validator leaves everything of the scanner and the parser alone.    *)
LEMMA ValidatingFront ==
  ASSUME FrontInv, phase \in Validating, phase' \in Validating,
         UNCHANGED <<disk, files, currentFile, rest, current, modules, needSync, failedDecl, hadError>>,
         errors' \subseteq ErrorKinds, invalid' \in BOOLEAN
  PROVE  FrontInv'
<1>1. /\ Types /\ QueueInv /\ FlagInv /\ ModulesInv /\ phase /= "start" /\ files \in Seq(Paths)
      /\ phase' \notin Parsing \cup {"start"} /\ phase \notin Parsing /\ hadError = FALSE
  BY DEF FrontInv, Validating, SortPhases, FlagInv, Types, Parsing
<1>2. Types'
  BY <1>1 DEF Types, Validating, Outcomes
<1>3. QueueInv'
  <2>1. Elements(files)' \subseteq Program'
    BY <1>1, SameDisk DEF QueueInv, Elements
  <2>2. Ahead' = Ahead /\ Text' = Text /\ Elements(Text)' = Elements(Text)
    BY DEF Ahead, Text, Place, Elements
  <2> QED BY <1>1, <2>1, <2>2 DEF QueueInv
<1>4. FlagInv'
  BY <1>1 DEF FlagInv, Parsing
<1>5. ModulesInv'
  <2>1. /\ \A i \in DOMAIN modules : Whole(i)
        /\ modules /= <<>> => modules[1].name = Base(Main)
        /\ modules = <<>> => disk[Main].items = <<>>
    BY <1>1 DEF ModulesInv
  <2>2. \A i \in DOMAIN modules : Whole(i)'
    BY <1>1, <2>1, KeepsWhole
  <2> QED BY <1>1, <2>1, <2>2 DEF ModulesInv, Parsing
<1> QED BY <1>2, <1>3, <1>4, <1>5 DEF FrontInv

LEMMA ValidateFront ==
  FrontInv /\ (SortModules \/ Sorted \/ ValidateModule \/ EndValidation) => FrontInv'
<1>1. ASSUME FrontInv PROVE errors \subseteq ErrorKinds /\ invalid \in BOOLEAN
  BY <1>1 DEF FrontInv, Types
<1>2. ASSUME FrontInv, SortModules PROVE FrontInv'
  <2>1. /\ phase \in Validating /\ phase' \in Validating
        /\ UNCHANGED <<disk, files, currentFile, rest, current, modules, needSync, failedDecl, hadError,
                       errors, invalid>>
    BY <1>2 DEF SortModules, scannerVars, parserVars, validatorVars, Validating, SortPhases,
                SortNext, CountUses, Seed, SeedDone, Pop, CrossOff, CrossedOff, Finish
  <2> QED BY <1>1, <1>2, <2>1, ValidatingFront
<1>3. ASSUME FrontInv, Sorted PROVE FrontInv'
  <2>1. /\ phase \in Validating /\ phase' \in Validating /\ invalid' \in BOOLEAN
        /\ UNCHANGED <<disk, files, currentFile, rest, current, modules, needSync, failedDecl, hadError>>
    BY <1>3 DEF Sorted, Cyclic, scannerVars, parserVars, Validating, SortPhases
  <2>2. errors' \subseteq ErrorKinds
    BY <1>1, <1>3 DEF Sorted, ErrorKinds
  <2> QED BY <1>3, <2>1, <2>2, ValidatingFront
<1>4. ASSUME FrontInv, ValidateModule PROVE FrontInv'
  <2>1. /\ phase = "validate" /\ phase' \in {"validate", "unreachable"}
        /\ UNCHANGED <<disk, files, currentFile, rest, current, modules, needSync, failedDecl, hadError>>
    BY <1>4 DEF ValidateModule, scannerVars, parserVars
  <2>2. errors' \subseteq ErrorKinds /\ invalid' \in BOOLEAN
    <3>1. CASE UNCHANGED <<errors, validatorVars>>
      BY <3>1, <1>1, <1>4 DEF validatorVars
    <3>2. CASE \E valid \in BOOLEAN : /\ invalid' = (invalid \/ ~valid)
                                      /\ errors' = IF ~invalid /\ ~valid
                                                   THEN errors \cup {"semantic"} ELSE errors
      BY <3>2, <1>1, <1>4 DEF ErrorKinds
    <3> QED BY <3>1, <3>2, <1>4 DEF ValidateModule
  <2> QED BY <1>4, <2>1, <2>2, ValidatingFront DEF Validating
<1>5. ASSUME FrontInv, EndValidation PROVE FrontInv'
  <2>1. /\ phase = "validate" /\ phase' \in {"validate_failure", "accepted"}
        /\ UNCHANGED <<disk, files, currentFile, rest, current, modules, needSync, failedDecl, hadError,
                       errors, invalid>>
    BY <1>5 DEF EndValidation, scannerVars, parserVars, validatorVars
  <2> QED BY <1>1, <1>5, <2>1, ValidatingFront DEF Validating
<1> QED BY <1>2, <1>3, <1>4, <1>5

LEMMA StutterFront == FrontInv /\ UNCHANGED vars => FrontInv'
<1> SUFFICES ASSUME FrontInv, UNCHANGED vars PROVE FrontInv'
  OBVIOUS
<1>1. /\ Types /\ QueueInv /\ FlagInv /\ ModulesInv /\ files \in Seq(Paths)
      /\ UNCHANGED <<phase, disk, files, errors, currentFile, rest, current, modules, needSync, failedDecl,
                     hadError, checked, invalid>>
  BY DEF FrontInv, Types, vars, sortVars, scannerVars, parserVars, validatorVars
<1>2. Types'
  BY <1>1 DEF Types
<1>3. /\ Ahead' = Ahead /\ Place' = Place /\ Text' = Text /\ Elements(Text)' = Elements(Text)
      /\ ThisModule' = ThisModule /\ Program' = Program /\ Elements(files)' = Elements(files)
      /\ \A p : ImportsIn(p)' = ImportsIn(p) /\ DeclsIn(p)' = DeclsIn(p)
  BY <1>1, SameDisk DEF Ahead, Text, Place, Elements, ThisModule
<1>4. QueueInv' /\ FlagInv'
  BY <1>1, <1>3 DEF QueueInv, FlagInv
<1>5. \A i : Whole(i)' <=> Whole(i)
  BY <1>1, <1>3 DEF Whole
<1>6. Growing' <=> Growing
  BY <1>1, <1>3 DEF Growing
<1>7. ModulesInv'
  BY <1>1, <1>3, <1>5, <1>6 DEF ModulesInv
<1> QED BY <1>2, <1>4, <1>7 DEF FrontInv

LEMMA InitFront == LoadInit(AllDisks) => FrontInv
<1> SUFFICES ASSUME LoadInit(AllDisks) PROVE FrontInv
  OBVIOUS
<1>1. /\ disk \in AllDisks /\ files = <<Main>> /\ currentFile = 0 /\ rest = <<>> /\ current = Eof
      /\ modules = <<>> /\ needSync = FALSE /\ failedDecl = FALSE /\ hadError = FALSE /\ errors = {}
      /\ checked = <<>> /\ invalid = FALSE /\ phase = "start"
  BY DEF LoadInit
<1>2. /\ files \in Seq(Paths) /\ files /= <<>> /\ files[1] = Main /\ Len(files) = 1 /\ 0 \in 0..Len(files)
      /\ Elements(files) = {Main}
  BY <1>1, PathsAssumption DEF Elements
<1>3. Types
  <2>1. modules \in Seq(Modules) /\ rest \in Seq(Items) /\ DOMAIN modules = {}
    BY <1>1
  <2>2. \A i \in DOMAIN modules : IsFiniteSet(modules[i].imports)
    BY <2>1
  <2> QED BY <1>1, <1>2, <2>1, <2>2, TokensDiffer DEF Types
<1>4. QueueInv
  BY <1>1, <1>2, ProgramClosed, TokensDiffer DEF QueueInv
<1>5. FlagInv /\ ModulesInv
  BY <1>1 DEF FlagInv, ModulesInv, Parsing, Validating, SortPhases
<1> QED BY <1>3, <1>4, <1>5 DEF FrontInv

LEMMA FrontStep == FrontInv /\ [Next]_vars => FrontInv'
BY StartFront, BeginModuleFront, ParseDeclFront, ParseBadFront, ParseImportFront, SyncSkipFront,
   SyncDoneFront, EndModuleFront, BeginValidationFront, ValidateFront, StutterFront
   DEF Next, Parse, Validate

LEMMA FrontHolds == LoadSpec => []FrontInv
BY InitFront, FrontStep, PTL DEF LoadSpec

(* Type correctness, for every disk.                                       *)
THEOREM LoadTypes == LoadSpec => []LoadTypeOK
<1>1. FrontInv => LoadTypeOK
  <2> SUFFICES ASSUME FrontInv PROVE LoadTypeOK
    OBVIOUS
  <2>1. Types
    BY DEF FrontInv
  <2>2. \A p \in Paths : disk[p].state \in {"missing", "unreadable", "readable"}
                          /\ disk[p].items \in Seq(Items)
    BY <2>1 DEF Types, AllDisks
  <2>3. \A i \in DOMAIN modules : /\ modules[i].name \in Names
                                   /\ modules[i].imports \subseteq Paths
                                   /\ modules[i].decls \subseteq Decls
    <3>1. \A i \in DOMAIN modules : modules[i] \in Modules
      BY <2>1 DEF Types
    <3> QED BY <3>1 DEF Modules
  <2> QED BY <2>1, <2>2, <2>3 DEF Types, LoadTypeOK, ErrorKinds
<1> QED BY <1>1, FrontHolds, PTL

-----------------------------------------------------------------------------
(* One module: its declarations are those of a file of its name.           *)
Bordered(m, d) ==
  \A x \in m.decls : \E p \in Paths : Base(p) = m.name /\ Decl(x) \in Elements(d[p].items)

LEMMA DiskStays == [Next]_vars => disk' = disk
<1>1. Parse => disk' = disk
  BY DEF Parse, Start, BeginModule, ParseDecl, ParseBad, ParseImport, SyncSkip, SyncDone, EndModule
<1>2. Validate => disk' = disk
  BY DEF Validate, BeginValidation, SortModules, Sorted, ValidateModule, EndValidation
<1> QED BY <1>1, <1>2 DEF Next, vars

LEMMA BordersStep == FrontInv /\ BordersKept /\ [Next]_vars => BordersKept'
<1> SUFFICES ASSUME FrontInv, BordersKept, [Next]_vars PROVE BordersKept'
  OBVIOUS
<1> SUFFICES ASSUME hadError' = FALSE
             PROVE  \A i \in DOMAIN modules' : Bordered(modules'[i], disk)
  <2>1. FrontInv'
    BY FrontStep
  <2>2. Types'
    BY <2>1 DEF FrontInv
  <2>3. hadError' \in BOOLEAN
    BY <2>2 DEF Types
  <2>4. disk' = disk /\ modules' \in Seq(Modules)'
    BY <2>2, DiskStays DEF Types
  <2>5. \A i \in DOMAIN modules' : modules'[i].decls \subseteq Decls
    <3>1. PICK ms : ms = modules' /\ ms \in Seq(Modules)
      BY <2>4 DEF Modules
    <3>2. \A i \in DOMAIN ms : ms[i] \in Modules
      BY <3>1
    <3> QED BY <3>1, <3>2 DEF Modules
  <2>6. ASSUME \A i \in DOMAIN modules' : Bordered(modules'[i], disk)
        PROVE  BordersKept'
    BY <2>4, <2>5, <2>6 DEF BordersKept, Bordered, DeclsIn
  <2> QED BY <2>3, <2>6 DEF BordersKept
<1>1. /\ Types /\ QueueInv /\ FlagInv /\ ModulesInv /\ modules \in Seq(Modules)
      /\ files \in Seq(Paths) /\ hadError \in BOOLEAN
  BY DEF FrontInv, Types
<1>2. ASSUME hadError = FALSE PROVE \A i \in DOMAIN modules : Bordered(modules[i], disk)
  BY <1>2 DEF BordersKept, Bordered, DeclsIn
<1>3. CASE BeginModule
  <2>1. hadError = FALSE /\ modules' = Append(modules, NewModule(Base(Place)))
    BY <1>3 DEF BeginModule, Place
  <2>2. PICK new : new = NewModule(Base(Place)) /\ modules' = Append(modules, new)
    BY <2>1
  <2>3. new.decls = {}
    BY <2>2 DEF NewModule
  <2>4. /\ DOMAIN modules' = 1..(Len(modules) + 1) /\ DOMAIN modules = 1..Len(modules) /\ Len(modules) \in Nat
        /\ modules'[Len(modules) + 1] = new /\ \A i \in 1..Len(modules) : modules'[i] = modules[i]
    BY <2>2, <1>1
  <2>5. Bordered(new, disk)
    BY <2>3 DEF Bordered
  <2>6. \A i \in 1..Len(modules) : Bordered(modules'[i], disk)
    BY <1>2, <2>1, <2>4
  <2> QED BY <2>4, <2>5, <2>6
<1>4. CASE ParseDecl
  <2>1. PICK x : x = current.of
    OBVIOUS
  <2>2. /\ phase = "body" /\ current.kind = "decl" /\ current \in Tokens
        /\ modules' = [modules EXCEPT ![Len(modules)].decls = @ \cup {x}]
    BY <1>4, <1>1, <2>1 DEF ParseDecl, ThisModule, Types
  <2>3. hadError' = (hadError \/ x \in modules[ThisModule].decls)
    BY <1>4, <2>1 DEF ParseDecl
  <2>4. hadError = FALSE
    BY <1>1, <2>3
  <2>5. x \in Decls /\ current = Decl(x) /\ current \in Items /\ modules /= <<>> /\ current /= FileChanged
    BY <1>1, <2>1, <2>2, TokensDiffer DEF FlagInv
  <2>6. Grown(modules, modules', Decl(x))
    BY <1>1, <2>2, <2>5, DeclAdded
  <2>7. PICK n : n = Len(modules)
    OBVIOUS
  <2>8. /\ n \in Nat /\ DOMAIN modules = 1..n /\ DOMAIN modules' = 1..n
        /\ \A i \in 1..(n - 1) : modules'[i] = modules[i]
    BY <1>1, <2>6, <2>7 DEF Grown
  <2>9. modules'[n].name = modules[n].name /\ modules'[n].decls = modules[n].decls \cup {x}
    <3>1. {y \in Decls : Decl(y) = Decl(x)} = {x}
      BY <2>5 DEF Decl
    <3> QED BY <2>6, <2>7, <3>1 DEF Grown
  <2>10. Base(Place) = modules[n].name /\ Place \in Paths /\ Decl(x) \in Elements(disk[Place].items)
    <3>1. Growing
      BY <1>1, <2>2, <2>4, <2>5 DEF ModulesInv
    <3>2. Base(Place) = modules[n].name
      BY <3>1, <2>7 DEF Growing, ThisModule
    <3>3. Place \in Paths /\ current \in Elements(Text)
      BY <1>1, <2>2, <2>5 DEF QueueInv, Ahead, Place, Types
    <3> QED BY <3>2, <3>3, <2>5 DEF Text
  <2>11. n >= 1 /\ Bordered(modules'[n], disk)
    <3>1. n \in DOMAIN modules
      BY <1>1, <2>5, <2>7
    <3>2. Bordered(modules[n], disk)
      BY <3>1, <1>2, <2>4
    <3> QED BY <3>1, <3>2, <2>8, <2>9, <2>10 DEF Bordered
  <2>12. \A i \in 1..(n - 1) : Bordered(modules'[i], disk)
    <3> SUFFICES ASSUME NEW i \in 1..(n - 1) PROVE Bordered(modules'[i], disk)
      OBVIOUS
    <3>1. i \in DOMAIN modules /\ modules'[i] = modules[i]
      BY <2>8
    <3> QED BY <3>1, <1>2, <2>4
  <2> QED BY <2>8, <2>11, <2>12
<1>5. CASE ParseImport
  <2>1. PICK p : p = current.of
    OBVIOUS
  <2>2. /\ phase = "body" /\ current.kind = "import" /\ current \in Tokens
        /\ modules' \in {modules, [modules EXCEPT ![Len(modules)].imports = @ \cup {p}]}
        /\ hadError' = hadError \/ hadError' = TRUE
    BY <1>5, <1>1, <2>1 DEF ParseImport, ThisModule, Types
  <2>3. hadError = FALSE /\ modules /= <<>> /\ p \in Paths
    BY <1>1, <2>1, <2>2, TokensDiffer DEF FlagInv
  <2>4. CASE modules' = modules
    BY <1>2, <2>3, <2>4
  <2>5. CASE modules' = [modules EXCEPT ![Len(modules)].imports = @ \cup {p}]
    <3>1. Grown(modules, modules', Import(p))
      BY <1>1, <2>3, <2>5, ImportAdded
    <3>2. PICK n : n = Len(modules)
      OBVIOUS
    <3>3. /\ n \in Nat /\ DOMAIN modules = 1..n /\ DOMAIN modules' = 1..n
          /\ \A i \in 1..(n - 1) : modules'[i] = modules[i]
      BY <1>1, <3>1, <3>2 DEF Grown
    <3>4. modules'[n].name = modules[n].name /\ modules'[n].decls = modules[n].decls
      <4>1. {y \in Decls : Decl(y) = Import(p)} = {}
        BY DEF Decl, Import
      <4> QED BY <3>1, <3>2, <4>1 DEF Grown
    <3>5. \A i \in 1..(n - 1) : Bordered(modules'[i], disk)
      <4> SUFFICES ASSUME NEW i \in 1..(n - 1) PROVE Bordered(modules'[i], disk)
        OBVIOUS
      <4>1. i \in DOMAIN modules /\ modules'[i] = modules[i]
        BY <3>3
      <4> QED BY <4>1, <1>2, <2>3
    <3>6. n \in DOMAIN modules
      BY <1>1, <2>3, <3>2
    <3>7. Bordered(modules[n], disk)
      BY <1>2, <2>3, <3>6
    <3>8. Bordered(modules'[n], disk)
      BY <3>4, <3>7 DEF Bordered
    <3> QED BY <3>3, <3>5, <3>8
  <2> QED BY <2>2, <2>4, <2>5
<1>6. CASE modules' = modules /\ (hadError' = hadError \/ hadError' = TRUE)
  BY <1>2, <1>6
<1> QED BY <1>3, <1>4, <1>5, <1>6
        DEF Next, Parse, Validate, Start, ParseBad, SyncSkip, SyncDone, EndModule, BeginValidation,
            SortModules, Sorted, ValidateModule, EndValidation, parserVars, vars

(* No module takes over declarations of another file as long as the parser *)
(* has met no error: the border between two files is never passed inside a *)
(* body, wherever imports, errors and the ends of files are.               *)
THEOREM BordersAreKept == LoadSpec => []BordersKept
<1>1. LoadInit(AllDisks) => BordersKept
  BY DEF LoadInit, BordersKept
<1> QED BY <1>1, BordersStep, FrontHolds, PTL DEF LoadSpec

-----------------------------------------------------------------------------
(* The graph the validator sorts.                                          *)
LEMMA GraphBegins == FrontInv /\ GraphInv /\ BeginValidation => GraphInv'
<1> SUFFICES ASSUME FrontInv, GraphInv, BeginValidation PROVE GraphInv'
  OBVIOUS
<1>1. /\ Types /\ modules' = modules /\ phase' = "count" /\ modules \in Seq(Modules)
      /\ nodes' = [i \in DOMAIN modules |-> modules[i].name]
  BY DEF BeginValidation, FrontInv, Types, parserVars
<1>2. PICK order \in [ModuleNames -> UNION {Orders(S) : S \in SUBSET Paths}] :
        /\ \A n \in ModuleNames : Elements(order[n]) = ImportsOf(n)
        /\ uses' = [n \in Names |-> IF n \in ModuleNames THEN order[n] ELSE <<>>]
  BY DEF BeginValidation
<1>3. ModuleNames \subseteq Names /\ ModuleNames' = ModuleNames /\ \A n : ImportsOf(n)' = ImportsOf(n)
  <2>1. \A i \in DOMAIN modules : modules[i].name \in Names
    <3>1. \A i \in DOMAIN modules : modules[i] \in Modules
      BY <1>1
    <3> QED BY <3>1 DEF Modules
  <2> QED BY <1>1, <2>1 DEF ModuleNames, ImportsOf, ModuleOf
<1>4. ASSUME NEW n \in ModuleNames PROVE order[n] \in Seq(Names)
  <2>1. PICK S \in SUBSET Paths : order[n] \in Orders(S)
    BY <1>2
  <2>2. PICK o : o = order[n] /\ o \in [1..Cardinality(S) -> S] /\ Elements(o) = S
    BY <2>1 DEF Orders
  <2>3. S = ImportsOf(n)
    BY <1>2, <2>2
  <2>4. IsFiniteSet(S)
    <3>1. PICK k \in DOMAIN modules : modules[k].name = n
      BY DEF ModuleNames
    <3>2. ModuleOf(n) \in DOMAIN modules
      BY <3>1 DEF ModuleOf
    <3> QED BY <1>1, <2>3, <3>2 DEF Types, ImportsOf
  <2>5. Cardinality(S) \in Nat /\ S \subseteq Names
    BY <2>4, FS_CardinalityType, PathsAssumption
  <2> QED BY <2>2, <2>5
<1>5. uses' \in [Names -> Seq(Names)] /\ \A n \in ModuleNames : uses'[n] = order[n]
  BY <1>2, <1>3, <1>4
<1>6. \A n \in ModuleNames' : Elements(uses[n])' = ImportsOf(n)'
  <2>1. \A n \in ModuleNames : Elements(uses'[n]) = ImportsOf(n)
    BY <1>2, <1>5
  <2> QED BY <1>3, <2>1 DEF Elements
<1> QED BY <1>1, <1>5, <1>6 DEF GraphInv, Validating, SortPhases

LEMMA ModulesStay ==
  ASSUME modules' = modules
  PROVE  ModuleNames' = ModuleNames /\ \A n : ImportsOf(n)' = ImportsOf(n) /\ ModuleOf(n)' = ModuleOf(n)
BY DEF ModuleNames, ImportsOf, ModuleOf

(* A step of the validator on the sorted or half sorted modules.           *)
LEMMA ValidatorStep ==
  ASSUME SortModules \/ Sorted \/ ValidateModule \/ EndValidation
  PROVE  /\ phase \in Validating /\ phase' \in Validating /\ phase' /= "count"
         /\ UNCHANGED <<nodes, uses, modules, files, disk, hadError>>
<1>1. CASE SortModules
  BY <1>1 DEF SortModules, parserVars, Validating, SortPhases, SortNext, CountUses, Seed, SeedDone, Pop,
              CrossOff, CrossedOff, Finish
<1>2. CASE Sorted
  BY <1>2 DEF Sorted, parserVars, Validating, SortPhases
<1>3. CASE ValidateModule
  BY <1>3 DEF ValidateModule, parserVars, Validating
<1>4. CASE EndValidation
  BY <1>4 DEF EndValidation, graphVars, parserVars, Validating
<1> QED BY <1>1, <1>2, <1>3, <1>4

LEMMA ParserStep ==
  ASSUME Parse
  PROVE  phase \notin Validating /\ phase' \notin Validating /\ UNCHANGED graphVars
BY DEF Parse, Start, BeginModule, ParseDecl, ParseBad, ParseImport, SyncSkip, SyncDone, EndModule,
       AfterItem, Validating, SortPhases

LEMMA GraphStep == FrontInv /\ GraphInv /\ [Next]_vars => GraphInv'
<1> SUFFICES ASSUME FrontInv, GraphInv, [Next]_vars PROVE GraphInv'
  OBVIOUS
<1>1. CASE Parse
  BY <1>1, ParserStep DEF GraphInv, graphVars
<1>2. CASE BeginValidation
  BY <1>2, GraphBegins
<1>3. ASSUME phase \in Validating, phase' \in Validating, UNCHANGED <<nodes, uses, modules>>
      PROVE  GraphInv'
  <2>1. \A n : Elements(uses[n])' = Elements(uses[n])
    BY <1>3 DEF Elements
  <2> QED BY <1>3, <2>1, ModulesStay DEF GraphInv
<1>4. CASE SortModules \/ Sorted \/ ValidateModule \/ EndValidation
  BY <1>3, <1>4, ValidatorStep
<1>5. CASE UNCHANGED vars
  <2>1. UNCHANGED <<nodes, uses, modules, phase, stack, output, node, next, dependencies>>
    BY <1>5 DEF vars, sortVars, parserVars
  <2>2. CASE phase \in Validating
    BY <1>3, <2>1, <2>2
  <2>3. CASE phase \notin Validating
    BY <2>1, <2>3 DEF GraphInv
  <2> QED BY <2>2, <2>3
<1> QED BY <1>1, <1>2, <1>4, <1>5 DEF Next, Validate

(* What the modules of a program without errors are.                       *)
LEMMA ModulesAreFiles ==
  ASSUME FrontInv, phase \in Validating
  PROVE  /\ modules \in Seq(Modules) /\ Len(modules) <= 2
         /\ \A i \in DOMAIN modules : \E j \in DOMAIN files :
              /\ i > 1 => j > 1
              /\ files[j] \in Program
              /\ modules[i].name = Base(files[j])
              /\ modules[i].imports = ImportsIn(files[j])
              /\ modules[i].decls = DeclsIn(files[j])
         /\ \A i \in DOMAIN modules : ImportsOf(modules[i].name) = modules[i].imports
<1>1. /\ modules \in Seq(Modules) /\ Len(modules) <= 2 /\ hadError = FALSE /\ Program \subseteq Paths
  BY ProgramClosed DEF FrontInv, Types, FlagInv
<1>2. \A i \in DOMAIN modules : Whole(i)
  BY <1>1 DEF FrontInv, ModulesInv
<1>3. \A j \in DOMAIN files : files[j] \in Program
  BY DEF FrontInv, QueueInv, Elements
<1>4. ASSUME NEW i \in DOMAIN modules
      PROVE  \E j \in DOMAIN files : /\ i > 1 => j > 1
                                     /\ files[j] \in Program
                                     /\ modules[i].name = Base(files[j])
                                     /\ modules[i].imports = ImportsIn(files[j])
                                     /\ modules[i].decls = DeclsIn(files[j])
  BY <1>2, <1>3 DEF Whole
<1>5. ASSUME NEW i \in DOMAIN modules
      PROVE  ImportsOf(modules[i].name) = modules[i].imports
  <2>1. PICK k : k = ModuleOf(modules[i].name)
    OBVIOUS
  <2>2. k \in DOMAIN modules /\ modules[k].name = modules[i].name
    BY <2>1 DEF ModuleOf
  <2>3. modules[k].imports = modules[i].imports
    BY <1>1, <1>4, <2>2, PathsAssumption
  <2> QED BY <2>1, <2>3 DEF ImportsOf, ModuleNames
<1> QED BY <1>1, <1>4, <1>5

(* The sort is given a graph it is proved for, or one nobody can settle.   *)
Settled == phase \in Validating => Sortable \/ Unsettled
LEMMA GraphSortable == FrontInv /\ GraphInv => Settled
<1> SUFFICES ASSUME FrontInv, GraphInv, phase \in Validating, ~Sortable PROVE Unsettled
  BY DEF Settled
<1>1. /\ nodes = [i \in DOMAIN modules |-> modules[i].name]
      /\ \A n \in ModuleNames : Elements(uses[n]) = ImportsOf(n)
  BY DEF GraphInv
<1>2. PICK i \in DOMAIN nodes, j \in DOMAIN nodes : nodes[i] = nodes[j] /\ i /= j /\ UsePlaces(nodes[i]) = {}
  BY ValidatorAssumption DEF Sortable
<1>3. i \in DOMAIN modules /\ j \in DOMAIN modules /\ modules[i].name = modules[j].name
  BY <1>1, <1>2
<1>4. modules \in Seq(Modules) /\ Len(modules) <= 2 /\ Len(modules) \in Nat /\ DOMAIN modules = 1..Len(modules)
  BY ModulesAreFiles
<1>5. \A k \in DOMAIN modules : modules[k].name = modules[i].name
  BY <1>2, <1>3, <1>4
<1>6. PICK r \in {i, j} : r > 1
  BY <1>2, <1>3, <1>4
<1>7. PICK f \in DOMAIN files : /\ f > 1 /\ files[f] \in Program
                                /\ modules[r].name = Base(files[f])
                                /\ modules[r].imports = ImportsIn(files[f])
  BY <1>3, <1>6, ModulesAreFiles
<1>8. PICK p : p = files[f]
  OBVIOUS
<1>9. p \in Paths /\ modules[i].name = Base(p)
  BY <1>3, <1>5, <1>6, <1>7, <1>8, ProgramClosed
<1>10. PICK k \in DOMAIN modules : p \in modules[k].imports
  <2>1. f \in 2..Len(files)
    BY <1>7 DEF FrontInv, Types
  <2> QED BY <2>1, <1>8 DEF FrontInv, QueueInv
<1>11. ImportsOf(Base(p)) = modules[k].imports /\ p \in ImportsOf(Base(p))
  BY <1>5, <1>9, <1>10, ModulesAreFiles
<1>12. NodeSet = {Base(p)} /\ ModuleNames = {Base(p)} /\ nodes /= <<>>
  BY <1>1, <1>3, <1>5, <1>9 DEF NodeSet, Elements, ModuleNames
<1>13. Base(p) /= p
  <2> SUFFICES ASSUME Base(p) = p PROVE FALSE
    OBVIOUS
  <2>1. p \in Elements(uses[p]) /\ p \in NodeSet
    BY <1>1, <1>11, <1>12
  <2>2. UsePlaces(p) /= {}
    <3>1. PICK u \in DOMAIN uses[p] : uses[p][u] = p
      BY <2>1 DEF Elements
    <3>2. <<p, u>> \in UsePlaces(p)
      BY <2>1, <3>1, PlacesMember
    <3> QED BY <3>2
  <2> QED BY <2>2, <1>1, <1>2, <1>3, <1>9
<1> QED BY <1>11, <1>12, <1>13 DEF Unsettled

LEMMA ValidBegins == FrontInv /\ GraphInv /\ BeginValidation => (SortedFirst \/ Misnamed)'
<1> SUFFICES ASSUME FrontInv, GraphInv, BeginValidation PROVE (SortedFirst \/ Misnamed)'
  OBVIOUS
<1>1. FrontInv' /\ GraphInv'
  BY BeginValidationFront, GraphBegins
<1>2. /\ phase = "modules" /\ phase' = "count" /\ phase' \in Validating /\ checked' = checked
      /\ UNCHANGED <<dependencies, stack, output, node, next>>
  BY DEF BeginValidation, validatorVars, Validating, SortPhases
<1>3. (Sortable \/ Unsettled)'
  <2>1. Settled'
    BY <1>1, GraphSortable, PTL
  <2> QED BY <2>1, <1>2 DEF Settled
<1>4. /\ stack' = <<>> /\ output' = <<>> /\ node' = NoName /\ next' = 1 /\ dependencies' = [n \in {} |-> 0]
      /\ checked' = <<>>
  BY <1>2 DEF GraphInv, FrontInv, FlagInv, Validating, SortPhases
<1>5. CASE Sortable'
  <2>1. nodes' \in Seq(Names) /\ uses' \in [Names -> Seq(Names)]
    <3>1. /\ nodes' = [i \in DOMAIN modules' |-> modules'[i].name] /\ uses' \in [Names -> Seq(Names)]
      BY <1>1, <1>2 DEF GraphInv
    <3>2. PICK ms : ms = modules'
      OBVIOUS
    <3>3. ms \in Seq(Modules)
      BY <1>1, <3>2 DEF FrontInv, Types, Modules
    <3>4. \A i \in DOMAIN ms : ms[i] \in Modules
      BY <3>3
    <3>5. \A i \in DOMAIN ms : ms[i].name \in Names
      BY <3>4 DEF Modules
    <3> QED BY <3>1, <3>2, <3>3, <3>5
  <2>2. SortTypeOK'
    BY <1>2, <1>4, <2>1 DEF SortTypeOK, SortPhases
  <2>3. SeedInv' /\ SortInv' /\ CountsAreExact' /\ UsersFirst' /\ DefinedBeforeUsed' /\ SortedInv'
    BY <1>2 DEF SeedInv, SortInv, CountsAreExact, UsersFirst, DefinedBeforeUsed, SortedInv
  <2> QED BY <1>2, <1>4, <1>5, <2>2, <2>3 DEF SortedFirst, IInv, Judging
<1>6. CASE Unsettled'
  BY <1>2, <1>4, <1>6 DEF Misnamed, Judging
<1> QED BY <1>3, <1>5, <1>6

LEMMA SortSorted ==
  ASSUME SortedFirst, SortModules
  PROVE  SortedFirst'
<1>1. /\ SortNext /\ phase \in SortPhases /\ phase' \in SortPhases /\ checked' = checked
  BY DEF SortModules, validatorVars, SortPhases, SortNext, CountUses, Seed, SeedDone, Pop,
         CrossOff, CrossedOff, Finish
<1>2. IInv /\ SortedInv /\ checked = <<>>
  BY <1>1 DEF SortedFirst
<1>3. IInv' /\ SortedInv'
  BY <1>1, <1>2, SortStep, SortedStep
<1> QED BY <1>1, <1>2, <1>3 DEF SortedFirst, IInv, SortPhases, Judging

(* What the sort pops is a node, also where the modules are misnamed.      *)
LEMMA SortMisnamed ==
  ASSUME FrontInv, GraphInv, phase \in Validating, Misnamed, SortModules
  PROVE  Misnamed'
<1>1. /\ nodes' = nodes /\ modules' = modules /\ checked' = checked /\ SortNext
      /\ phase' \in SortPhases
  BY ValidatorStep DEF SortModules, validatorVars, SortPhases, SortNext, CountUses, Seed, SeedDone, Pop,
         CrossOff, CrossedOff, Finish
<1>2. /\ Unsettled /\ stack \in Seq(NodeSet) /\ output \in Seq(NodeSet) /\ checked = <<>>
      /\ next \in Nat \ {0}
  BY DEF Misnamed
<1>3. DOMAIN nodes = 1..Len(nodes) /\ Len(nodes) \in Nat /\ Len(nodes) > 0
  <2>1. /\ nodes = [i \in DOMAIN modules |-> modules[i].name] /\ modules \in Seq(Modules)
    BY DEF GraphInv, FrontInv, Types
  <2>2. nodes \in Seq({modules[i].name : i \in DOMAIN modules}) /\ nodes /= <<>>
    BY <2>1, <1>2 DEF Unsettled
  <2> QED BY <2>2
<1>4. NodeSet' = NodeSet /\ Unsettled'
  <2>1. NodeSet' = NodeSet
    BY <1>1 DEF NodeSet, Elements
  <2> QED BY <2>1, <1>1, <1>2, ModulesStay DEF Unsettled
<1>5. \A i \in 1..Len(nodes) : nodes[i] \in NodeSet
  BY <1>3 DEF NodeSet, Elements
<1>6. stack' \in Seq(NodeSet) /\ output' \in Seq(NodeSet) /\ (phase' = "sorted" => output' /= <<>>)
  <2> SUFFICES ASSUME NEW N, N = NodeSet, stack \in Seq(N), output \in Seq(N)
               PROVE  stack' \in Seq(N) /\ output' \in Seq(N) /\ (phase' = "sorted" => output' /= <<>>)
    BY <1>2
  <2>1. CASE CountUses
    BY <2>1 DEF CountUses
  <2>2. CASE Seed
    <3>1. nodes[next] \in N
      BY <2>2, <1>2, <1>3, <1>5 DEF Seed
    <3> QED BY <2>2, <3>1 DEF Seed
  <2>3. CASE SeedDone \/ CrossedOff
    BY <2>3 DEF SeedDone, CrossedOff
  <2>4. CASE Pop
    <3>1. stack[Len(stack)] \in N /\ Below(stack) \in Seq(N)
      BY <2>4 DEF Pop, Below
    <3> QED BY <2>4, <3>1 DEF Pop
  <2>5. CASE CrossOff
    <3>1. output' = output /\ phase' \in {"sort", "crash"} /\ (phase' /= "crash" \/ stack' = stack)
      BY <2>5 DEF CrossOff
    <3>2. CASE stack' = stack
      BY <3>1, <3>2
    <3>3. CASE stack' /= stack
      <4>1. PICK n : n \in NodeSet /\ stack' = Append(stack, n)
        BY <2>5, <3>1, <3>3, ValidatorAssumption DEF CrossOff, NodeSet
      <4> QED BY <3>1, <4>1
    <3> QED BY <3>2, <3>3
  <2>6. CASE Finish
    <3>1. Reversed(output) \in Seq(N) /\ Len(Reversed(output)) = Len(output)
      BY DEF Reversed
    <3>2. CASE Complete
      <4>1. output' = Reversed(output) /\ stack' = stack /\ Len(output) = Len(nodes)
        BY <2>6, <3>2 DEF Finish, Complete
      <4> QED BY <3>1, <4>1, <1>3
    <3>3. CASE ~Complete
      <4>1. output' \in {output, Reversed(output)} /\ stack' = stack /\ phase' /= "sorted"
        BY <2>6, <3>3 DEF Finish
      <4> QED BY <3>1, <4>1
    <3> QED BY <3>2, <3>3
  <2> QED BY <2>1, <2>2, <2>3, <2>4, <2>5, <2>6, <1>1 DEF SortNext
<1>7. next' \in {next, next + 1, 1}
  BY <1>1 DEF SortNext, CountUses, Seed, SeedDone, Pop, CrossOff, CrossedOff, Finish
<1>8. next' \in Nat \ {0}
  BY <1>2, <1>7
<1> QED BY <1>1, <1>2, <1>4, <1>6, <1>8 DEF Misnamed, Judging, SortPhases

LEMMA SortedValid ==
  ASSUME SortedFirst \/ Misnamed, Sorted
  PROVE  (SortedFirst \/ Misnamed)'
<1>1. /\ phase \in {"sorted", "incomplete"} /\ phase' = "validate" /\ next' = 1 /\ checked' = checked
      /\ UNCHANGED <<nodes, uses, stack, output, modules>>
      /\ invalid' = (phase = "incomplete")
  BY DEF Sorted, Cyclic, parserVars
<1>2. NodeSet' = NodeSet /\ Elements(output)' = Elements(output) /\ \A n : Elements(uses[n])' = Elements(uses[n])
  BY <1>1 DEF NodeSet, Elements
<1>3. CASE SortedFirst
  <2>1. Sortable /\ IInv /\ SortedInv /\ checked = <<>> /\ output \in Seq(Names)
    BY <1>1, <1>3 DEF SortedFirst, SortPhases, IInv, SortTypeOK
  <2>2. Sortable'
    BY <2>1, <1>1, SameGraph
  <2>3. Ordered' \/ (invalid' /\ checked' = <<>>)
    <3>1. CASE phase = "sorted"
      <4>1. /\ Distinct(output) /\ Elements(output) = NodeSet /\ Acyclic(NodeSet, uses)
            /\ \A i \in DOMAIN output : \A m \in NodeSet :
                 output[i] \in Elements(uses[m]) => \E k \in (i + 1)..Len(output) : output[k] = m
        BY <3>1, <2>1 DEF SortedInv, IInv, DefinedBeforeUsed, NodeSet
      <4>2. Distinct(output)' /\ Acyclic(NodeSet, uses)'
        BY <4>1, <1>1, <1>2 DEF Distinct
      <4>3. \A i \in DOMAIN output' : \A m \in NodeSet' :
              output'[i] \in Elements(uses[m])' => \E k \in (i + 1)..Len(output') : output'[k] = m
        BY <4>1, <1>1, <1>2
      <4> QED BY <4>1, <4>2, <4>3, <1>2 DEF Ordered
    <3>2. CASE phase = "incomplete"
      BY <3>2, <2>1, <1>1
    <3> QED BY <3>1, <3>2, <1>1
  <2>4. CheckedInv'
    <3>1. /\ output' \in Seq(Names) /\ next' = 1 /\ checked' = <<>> /\ DOMAIN checked' = {}
          /\ next' - 1 <= Len(output') /\ 1..(next' - 1) = {}
      BY <1>1, <2>1
    <3> QED BY <3>1, <2>3, <1>1 DEF CheckedInv
  <2> QED BY <2>2, <2>4, <1>1 DEF SortedFirst, SortPhases
<1>4. CASE Misnamed
  <2>1. Unsettled /\ stack \in Seq(NodeSet) /\ output \in Seq(NodeSet) /\ checked = <<>>
    BY <1>4 DEF Misnamed
  <2>2. Unsettled'
    BY <1>1, <1>2, <2>1, ModulesStay DEF Unsettled
  <2>3. stack' \in Seq(NodeSet') /\ output' \in Seq(NodeSet')
    BY <1>1, <1>2, <2>1
  <2>4. ~invalid' => output' /= <<>>
    BY <1>1, <1>4 DEF Misnamed
  <2>5. next' \in Nat \ {0}
    BY <1>1
  <2> QED BY <2>1, <2>2, <2>3, <2>4, <2>5, <1>1 DEF Misnamed
<1> QED BY <1>3, <1>4

LEMMA FunctionIsSeq ==
  ASSUME NEW S, NEW n \in Nat, NEW s \in [1..n -> S]
  PROVE  s \in Seq(S) /\ Len(s) = n
OBVIOUS

(* One more module is checked.                                             *)
LEMMA CheckedOne ==
  ASSUME CheckedInv, phase = "validate", next <= Len(output), modules' = modules, output' = output,
         NEW name, name = output[next], NEW valid \in BOOLEAN,
         checked' = Append(checked, [id |-> ModuleOf(name),
                                     imports |-> Indexed(name),
                                     whole |-> ~invalid /\ valid]),
         invalid' = (invalid \/ ~valid), ImportsOf(name) \subseteq ModuleNames,
         phase' = "validate", next' = next + 1, Ordered' <=> Ordered
  PROVE  CheckedInv'
<1>1. PICK r : r = [id |-> ModuleOf(name), imports |-> Indexed(name),
                    whole |-> ~invalid /\ valid]
  OBVIOUS
<1>2. /\ r.id = ModuleOf(name) /\ r.imports = Indexed(name)
      /\ r.whole = (~invalid /\ valid) /\ checked' = Append(checked, r)
  BY <1>1
<1>3. /\ next \in Nat /\ next >= 1 /\ checked = [k \in 1..(next - 1) |-> checked[k]]
      /\ output \in Seq(Names) /\ Len(output) \in Nat
  BY DEF CheckedInv
<1>4. /\ DOMAIN checked = 1..(next - 1) /\ DOMAIN checked' = 1..next /\ checked'[next] = r
      /\ \A k \in 1..(next - 1) : checked'[k] = checked[k]
      /\ checked' = [k \in 1..(next' - 1) |-> checked'[k]]
  <2>1. PICK S : S = {checked[k] : k \in 1..(next - 1)} \cup {r}
    OBVIOUS
  <2>2. checked \in [1..(next - 1) -> S] /\ next - 1 \in Nat
    BY <1>3, <2>1
  <2>3. checked \in Seq(S) /\ Len(checked) = next - 1 /\ r \in S
    BY <2>1, <2>2, FunctionIsSeq
  <2>4. checked' \in Seq(S) /\ Len(checked') = next /\ checked'[next] = r
    BY <2>3, <1>2, <1>3
  <2> QED BY <2>3, <2>4, <1>2, <1>3
<1>5. \A k \in DOMAIN checked' : CheckedAt(k)'
  <2> SUFFICES ASSUME NEW k \in 1..next
               PROVE  /\ checked'[k].id = ModuleOf(output[k])
                      /\ checked'[k].imports = Indexed(output[k])
                      /\ ImportsOf(output[k]) \subseteq ModuleNames
    <3>1. \A n : Indexed(n)' = Indexed(n) /\ ModuleOf(n)' = ModuleOf(n) /\ ImportsOf(n)' = ImportsOf(n)
      BY ModulesStay DEF Indexed, ModuleOf
    <3>2. ModuleNames' = ModuleNames
      BY ModulesStay
    <3> QED BY <3>1, <3>2, <1>4 DEF CheckedAt
  <2>1. CASE k = next
    BY <2>1, <1>2, <1>4
  <2>2. CASE k \in 1..(next - 1)
    <3>1. checked'[k] = checked[k] /\ k \in DOMAIN checked
      BY <2>2, <1>4
    <3>2. CheckedAt(k)
      BY <3>1 DEF CheckedInv
    <3> QED BY <3>1, <3>2 DEF CheckedAt
  <2>3. k = next \/ k \in 1..(next - 1)
    BY <1>3
  <2> QED BY <2>1, <2>2, <2>3
<1>8. /\ output' \in Seq(Names) /\ next' \in Nat /\ next' >= 1 /\ next' - 1 <= Len(output')
      /\ phase' /= "accepted"
  BY <1>3
<1>6. CASE invalid
  <2>1. ~r.whole /\ invalid'
    BY <1>2, <1>6
  <2>2. \A k \in DOMAIN checked' : checked'[k].whole => k \in 1..(next - 1)
    BY <2>1, <1>3, <1>4
  <2>3. \A k \in DOMAIN checked' : checked'[k].whole => \A j \in 1..k : checked'[j].whole
    <3> SUFFICES ASSUME NEW k \in 1..(next - 1), checked[k].whole, NEW j \in 1..k PROVE checked'[j].whole
      BY <2>2, <1>4
    <3>1. k \in DOMAIN checked /\ j \in 1..(next - 1)
      BY <1>3, <1>4
    <3>2. checked[j].whole
      BY <3>1 DEF CheckedInv
    <3> QED BY <3>1, <3>2, <1>4
  <2>4. Ordered' \/ (invalid' /\ \A k \in DOMAIN checked' : ~checked'[k].whole)
    BY <2>1, <2>2, <1>4 DEF CheckedInv
  <2> QED BY <1>4, <1>5, <1>8, <2>1, <2>3, <2>4 DEF CheckedInv
<1>7. CASE ~invalid
  <2>1. Ordered' /\ \A k \in 1..(next - 1) : checked'[k].whole
    BY <1>4, <1>7 DEF CheckedInv
  <2>2. \A k \in DOMAIN checked' : checked'[k].whole => \A j \in 1..k : checked'[j].whole
    <3> SUFFICES ASSUME NEW k \in 1..next, checked'[k].whole, NEW j \in 1..k PROVE checked'[j].whole
      BY <1>4
    <3>1. j = k \/ j \in 1..(next - 1)
      BY <1>3
    <3> QED BY <3>1, <2>1
  <2>3. ~invalid' => \A k \in DOMAIN checked' : checked'[k].whole
    <3> SUFFICES ASSUME ~invalid', NEW k \in 1..next PROVE checked'[k].whole
      BY <1>4
    <3>1. k = next \/ k \in 1..(next - 1)
      BY <1>3
    <3> QED BY <3>1, <2>1, <1>2, <1>4, <1>7
  <2> QED BY <1>4, <1>5, <1>8, <2>1, <2>2, <2>3 DEF CheckedInv
<1> QED BY <1>6, <1>7

(* A module is checked after those it imports; a misnamed one is refused.  *)
LEMMA ModuleValid ==
  ASSUME SortedFirst \/ Misnamed, GraphInv, ValidateModule
  PROVE  (SortedFirst \/ Misnamed)'
<1>1. /\ phase = "validate" /\ next <= Len(output) /\ modules' = modules
      /\ UNCHANGED <<nodes, uses, stack, output>>
  BY DEF ValidateModule, parserVars
<1>2. NodeSet' = NodeSet /\ Elements(output)' = Elements(output) /\ \A n : Elements(uses[n])' = Elements(uses[n])
  BY <1>1 DEF NodeSet, Elements
<1>3. \/ /\ ~(ImportsOf(output[next]) \subseteq ModuleNames)
         /\ phase' = "unreachable" /\ next' = next /\ checked' = checked /\ invalid' = invalid
      \/ /\ ImportsOf(output[next]) \subseteq ModuleNames
         /\ phase' = "validate" /\ next' = next + 1
         /\ \E valid \in BOOLEAN :
              /\ checked' = Append(checked, [id |-> ModuleOf(output[next]),
                                             imports |-> Indexed(output[next]),
                                             whole |-> ~invalid /\ valid])
              /\ invalid' = (invalid \/ ~valid)
  BY <1>1 DEF ValidateModule, validatorVars, Indexed
<1>4. CASE SortedFirst
  <2>1. Sortable /\ CheckedInv
    BY <1>1, <1>4 DEF SortedFirst, Judging
  <2>2. Sortable'
    BY <2>1, <1>1, SameGraph
  <2>3. Ordered' <=> Ordered
    BY <1>1, <1>2 DEF Ordered, Distinct, Acyclic
  <2>4. CheckedInv'
    <3>1. CASE next' = next /\ checked' = checked /\ invalid' = invalid /\ phase' = "unreachable"
      <4>1. \A k : CheckedAt(k)' <=> CheckedAt(k)
        BY <3>1, <1>1, ModulesStay DEF CheckedAt, Indexed, ModuleOf
      <4> QED BY <3>1, <4>1, <1>1, <2>1, <2>3 DEF CheckedInv
    <3>2. CASE next' /= next
      <4>1. PICK name : name = output[next]
        OBVIOUS
      <4>2. PICK valid \in BOOLEAN :
              /\ checked' = Append(checked, [id |-> ModuleOf(name),
                                             imports |-> Indexed(name),
                                             whole |-> ~invalid /\ valid])
              /\ invalid' = (invalid \/ ~valid)
              /\ ImportsOf(name) \subseteq ModuleNames
              /\ phase' = "validate" /\ next' = next + 1
        BY <1>3, <3>2, <4>1
      <4> QED BY <1>1, <2>1, <2>3, <4>1, <4>2, CheckedOne
    <3> QED BY <1>3, <3>1, <3>2, <2>1 DEF CheckedInv
  <2> QED BY <1>1, <1>3, <2>2, <2>4 DEF SortedFirst, SortPhases
<1>5. CASE Misnamed
  <2>1. /\ Unsettled /\ stack \in Seq(NodeSet) /\ output \in Seq(NodeSet) /\ checked = <<>>
        /\ next = 1 /\ (~invalid => output /= <<>>)
    BY <1>1, <1>5 DEF Misnamed, Judging
  <2>2. output[next] \in NodeSet
    BY <1>1, <2>1
  <2>3. /\ phase' = "unreachable" /\ next' = next /\ checked' = checked /\ invalid' = invalid
    BY <1>3, <2>1, <2>2 DEF Unsettled
  <2>4. Unsettled'
    BY <1>1, <1>2, <2>1, ModulesStay DEF Unsettled
  <2> QED BY <1>1, <1>2, <2>1, <2>3, <2>4 DEF Misnamed
<1> QED BY <1>4, <1>5

LEMMA EndValid ==
  ASSUME SortedFirst \/ Misnamed, EndValidation
  PROVE  (SortedFirst \/ Misnamed)'
<1>1. /\ phase = "validate" /\ phase' = (IF invalid THEN "validate_failure" ELSE "accepted")
      /\ next > Len(output) /\ modules' = modules /\ checked' = checked /\ invalid' = invalid
      /\ UNCHANGED <<nodes, uses, stack, output, next>>
  BY DEF EndValidation, graphVars, parserVars, validatorVars
<1>2. NodeSet' = NodeSet /\ Elements(output)' = Elements(output) /\ \A n : Elements(uses[n])' = Elements(uses[n])
  BY <1>1 DEF NodeSet, Elements
<1>3. CASE SortedFirst
  <2>1. Sortable /\ CheckedInv
    BY <1>1, <1>3 DEF SortedFirst, Judging
  <2>2. Sortable'
    BY <2>1, <1>1, SameGraph
  <2>3. Ordered' <=> Ordered
    BY <1>1, <1>2 DEF Ordered, Distinct, Acyclic
  <2>4. CheckedInv'
    <3>1. \A k : CheckedAt(k)' <=> CheckedAt(k)
      BY <1>1, ModulesStay DEF CheckedAt, Indexed, ModuleOf
    <3> QED BY <3>1, <1>1, <2>1, <2>3 DEF CheckedInv
  <2> QED BY <1>1, <2>2, <2>4 DEF SortedFirst, SortPhases
<1>4. CASE Misnamed
  <2>1. /\ Unsettled /\ output \in Seq(NodeSet) /\ (~invalid => output /= <<>>) /\ next = 1
    BY <1>1, <1>4 DEF Misnamed, Judging
  <2>2. Unsettled'
    BY <1>1, <1>2, <2>1, ModulesStay DEF Unsettled
  <2>3. invalid
    <3> SUFFICES ASSUME ~invalid PROVE FALSE
      OBVIOUS
    <3>1. PICK N : N = NodeSet
      OBVIOUS
    <3> QED BY <3>1, <2>1, <1>1
  <2> QED BY <2>1, <2>2, <2>3, <1>1, <1>2, <1>4 DEF Misnamed
<1> QED BY <1>3, <1>4
LEMMA ValidStep == FrontInv /\ ValidInv /\ [Next]_vars => ValidInv'
<1> SUFFICES ASSUME FrontInv, ValidInv, [Next]_vars PROVE ValidInv'
  OBVIOUS
<1>1. GraphInv /\ GraphInv'
  BY GraphStep DEF ValidInv
<1> SUFFICES ASSUME phase' \in Validating PROVE (SortedFirst \/ Misnamed)'
  BY <1>1 DEF ValidInv
<1>2. ~Parse
  BY ParserStep
<1>3. CASE BeginValidation
  BY <1>1, <1>3, ValidBegins
<1>4. CASE SortModules \/ Sorted \/ ValidateModule \/ EndValidation
  <2>1. phase \in Validating /\ (SortedFirst \/ Misnamed)
    BY <1>4, ValidatorStep DEF ValidInv
  <2>2. CASE SortModules
    BY <1>1, <2>1, <2>2, SortSorted, SortMisnamed
  <2>3. CASE Sorted
    BY <2>1, <2>3, SortedValid
  <2>4. CASE ValidateModule
    BY <1>1, <2>1, <2>4, ModuleValid
  <2>5. CASE EndValidation
    BY <2>1, <2>5, EndValid
  <2> QED BY <1>4, <2>2, <2>3, <2>4, <2>5
<1>5. CASE UNCHANGED vars
  <2>1. UNCHANGED <<nodes, uses, modules, phase, stack, output, node, next, dependencies, checked, invalid>>
        /\ UNCHANGED sortVars
    BY <1>5 DEF vars, sortVars, parserVars, validatorVars
  <2>2. SortedFirst \/ Misnamed
    BY <2>1 DEF ValidInv
  <2>3. NodeSet' = NodeSet /\ \A n : Elements(uses[n])' = Elements(uses[n])
    BY <2>1 DEF NodeSet, Elements
  <2>4. CASE SortedFirst
    <3>1. Sortable'
      BY <2>1, <2>4, SameGraph DEF SortedFirst
    <3>2. phase \in SortPhases => IInv' /\ SortedInv'
      BY <2>1, <2>4, SortStep, SortedStep DEF SortedFirst
    <3>3. Ordered' <=> Ordered
      <4>1. Elements(output)' = Elements(output) /\ Distinct(output)' = Distinct(output)
        BY <2>1 DEF Elements, Distinct
      <4> QED BY <2>1, <2>3, <4>1 DEF Ordered, Acyclic
    <3>4. \A k : CheckedAt(k)' <=> CheckedAt(k)
      BY <2>1, ModulesStay DEF CheckedAt, Indexed, ModuleOf
    <3>5. CheckedInv => CheckedInv'
      BY <2>1, <3>3, <3>4 DEF CheckedInv
    <3> QED BY <2>1, <2>4, <3>1, <3>2, <3>5 DEF SortedFirst
  <2>5. CASE Misnamed
    <3>1. Unsettled'
      BY <2>1, <2>3, <2>5, ModulesStay DEF Misnamed, Unsettled
    <3> QED BY <2>1, <2>3, <2>5, <3>1 DEF Misnamed
  <2> QED BY <2>2, <2>4, <2>5
<1> QED BY <1>2, <1>3, <1>4, <1>5 DEF Next, Validate

LEMMA InitValid == LoadInit(AllDisks) => ValidInv
BY DEF LoadInit, ValidInv, GraphInv, Validating, SortPhases

LEMMA ValidHolds == LoadSpec => [](FrontInv /\ ValidInv)
<1>1. FrontInv /\ ValidInv /\ [Next]_vars => (FrontInv /\ ValidInv)'
  BY FrontStep, ValidStep
<1> QED BY InitFront, InitValid, <1>1, PTL DEF LoadSpec

-----------------------------------------------------------------------------
(* When the declarations of a module are checked, every module it imports  *)
(* has been checked whole before it, for every import graph: the sort puts *)
(* the imported modules first, and after its first error the validator     *)
(* checks no module whole.                                                 *)
LEMMA OrderedFirst == FrontInv /\ ValidInv => ImportsCheckedFirst
<1> SUFFICES ASSUME FrontInv, ValidInv, NEW k \in DOMAIN checked, checked[k].whole,
                    NEW i \in checked[k].imports
             PROVE  \E j \in 1..(k - 1) : checked[j].id = i[2] /\ checked[j].whole
  BY DEF ImportsCheckedFirst
<1>1. phase \in Judging /\ CheckedInv /\ GraphInv /\ phase \in Validating
  <2>1. phase \in Validating /\ GraphInv
    BY DEF FrontInv, FlagInv, ValidInv
  <2>2. SortedFirst
    BY <2>1 DEF ValidInv, Misnamed
  <2>3. phase \notin SortPhases
    BY <2>2 DEF SortedFirst
  <2> QED BY <2>1, <2>2, <2>3 DEF SortedFirst, Validating, Judging
<1>2. /\ Ordered /\ DOMAIN checked = 1..(next - 1) /\ next \in Nat /\ next - 1 <= Len(output)
      /\ output \in Seq(Names) /\ DOMAIN output = 1..Len(output) /\ k \in DOMAIN output
      /\ \A l \in 1..k : checked[l].whole
      /\ \A l \in DOMAIN checked : CheckedAt(l)
  <2>1. /\ next \in Nat /\ next - 1 <= Len(output) /\ output \in Seq(Names) /\ Len(output) \in Nat
        /\ checked = [l \in 1..(next - 1) |-> checked[l]]
    BY <1>1 DEF CheckedInv
  <2>2. DOMAIN checked = 1..(next - 1) /\ DOMAIN output = 1..Len(output)
    BY <2>1
  <2>3. k \in DOMAIN output
    BY <2>1, <2>2
  <2>4. Ordered /\ (\A l \in 1..k : checked[l].whole) /\ \A l \in DOMAIN checked : CheckedAt(l)
    BY <1>1 DEF CheckedInv
  <2> QED BY <2>1, <2>2, <2>3, <2>4
<1>3. PICK p \in ImportsOf(output[k]) : i = <<p, ModuleOf(p)>> /\ p \in ModuleNames
  <2>1. i \in Indexed(output[k]) /\ ImportsOf(output[k]) \subseteq ModuleNames
    BY <1>2 DEF CheckedAt
  <2>2. \E p \in ImportsOf(output[k]) : i = <<p, ModuleOf(p)>>
    BY <2>1 DEF Indexed
  <2> QED BY <2>1, <2>2
<1>4. NodeSet = ModuleNames /\ Elements(output) = NodeSet
  <2>1. Elements(output) = NodeSet
    BY <1>2 DEF Ordered
  <2>2. nodes = [m \in DOMAIN modules |-> modules[m].name]
    BY <1>1 DEF GraphInv
  <2>3. NodeSet = ModuleNames
    BY <2>2 DEF NodeSet, ModuleNames, Elements
  <2> QED BY <2>1, <2>3
<1>5. PICK l \in DOMAIN output : output[l] = p
  BY <1>3, <1>4 DEF Elements
<1>6. output[k] \in NodeSet /\ output[l] \in Elements(uses[output[k]])
  BY <1>1, <1>2, <1>3, <1>4, <1>5 DEF GraphInv, Elements
<1>7. PICK r \in (l + 1)..Len(output) : output[r] = output[k]
  BY <1>2, <1>6 DEF Ordered
<1>8. r = k /\ l \in 1..(k - 1) /\ l \in DOMAIN checked
  BY <1>2, <1>5, <1>7 DEF Ordered, Distinct
<1>9. checked[l].id = ModuleOf(p) /\ checked[l].whole
  BY <1>2, <1>5, <1>8 DEF CheckedAt
<1> QED BY <1>3, <1>8, <1>9

THEOREM ImportedModulesFirst == LoadSpec => []ImportsCheckedFirst
BY ValidHolds, OrderedFirst, PTL

(* Modules that import each other are not accepted: the sort that gives up *)
(* is an error, and one that does not has met no cycle.                    *)
LEMMA AcceptedOrder ==
  ASSUME FrontInv, ValidInv, phase = "accepted"
  PROVE  /\ GraphInv /\ CheckedInv /\ Ordered /\ DOMAIN checked = DOMAIN output
         /\ NodeSet = ModuleNames /\ output \in Seq(Names) /\ Len(checked) = Len(output)
<1>1. phase \in Validating /\ phase \in Judging
  BY DEF Validating, Judging
<1>2. GraphInv /\ CheckedInv
  BY <1>1 DEF ValidInv, SortedFirst, Misnamed
<1>3. Ordered /\ next > Len(output) /\ output \in Seq(Names)
  BY <1>2 DEF CheckedInv
<1>4. /\ DOMAIN checked = 1..(next - 1) /\ next - 1 = Len(output) /\ Len(output) \in Nat
      /\ checked = [k \in 1..(next - 1) |-> checked[k]]
  BY <1>2, <1>3 DEF CheckedInv
<1>5. NodeSet = ModuleNames
  BY <1>1, <1>2 DEF GraphInv, NodeSet, ModuleNames, Elements
<1>6. Len(checked) = Len(output)
  <2>1. PICK S : S = {checked[k] : k \in 1..(next - 1)}
    OBVIOUS
  <2>2. checked \in [1..(next - 1) -> S] /\ next - 1 \in Nat
    BY <1>4, <2>1
  <2> QED BY <1>4, <2>2, FunctionIsSeq
<1> QED BY <1>2, <1>3, <1>4, <1>5, <1>6

LEMMA NoCycles == FrontInv /\ ValidInv => CyclesAreErrors
<1> SUFFICES ASSUME FrontInv, ValidInv, phase = "accepted", NEW S \in SUBSET ModuleNames, S /= {}
             PROVE  \E m \in S : ImportsOf(m) \cap S = {}
  BY DEF CyclesAreErrors
<1>1. Acyclic(ModuleNames, uses)
  BY AcceptedOrder DEF Ordered
<1>2. \A n \in ModuleNames : Elements(uses[n]) = ImportsOf(n)
  BY AcceptedOrder DEF GraphInv, Validating
<1> QED BY <1>1, <1>2 DEF Acyclic

THEOREM CyclesAreRefused == LoadSpec => []CyclesAreErrors
BY ValidHolds, NoCycles, PTL

(* A program that is accepted is all of what is on the disk: every file    *)
(* that Main imports, directly or not, is a module that is checked once,   *)
(* with the declarations of its file.  A module that is checked imports    *)
(* modules only, so the modules' files are closed under import; that they  *)
(* have the right text is the front end's invariant.                       *)
LEMMA NamesOfProgram ==
  ASSUME FrontInv, ValidInv, phase = "accepted", disk[Main].items /= <<>>
  PROVE  ModuleNames = {Base(p) : p \in Program} /\ Program \subseteq Paths
<1>1. phase \in Validating /\ CheckedInv /\ Ordered /\ DOMAIN checked = DOMAIN output /\ NodeSet = ModuleNames
  BY AcceptedOrder DEF Validating
<1>2. Main \in Program /\ Program \subseteq Paths
  BY ProgramClosed
<1>3. /\ \A i \in DOMAIN modules : \E j \in DOMAIN files :
           files[j] \in Program /\ modules[i].name = Base(files[j]) /\ modules[i].imports = ImportsIn(files[j])
      /\ \A i \in DOMAIN modules : ImportsOf(modules[i].name) = modules[i].imports
  BY <1>1, ModulesAreFiles
<1>4. \A n \in ModuleNames : \E p \in Program : n = Base(p) /\ ImportsOf(n) = ImportsIn(p)
  BY <1>3 DEF ModuleNames
<1>5. \A n \in ModuleNames : ImportsOf(n) \subseteq ModuleNames
  <2> SUFFICES ASSUME NEW n \in ModuleNames PROVE ImportsOf(n) \subseteq ModuleNames
    OBVIOUS
  <2>1. PICK k \in DOMAIN output : output[k] = n
    BY <1>1 DEF Ordered, Elements
  <2>2. CheckedAt(k)
    BY <1>1, <2>1 DEF CheckedInv
  <2> QED BY <2>1, <2>2 DEF CheckedAt
<1>6. Base(Main) \in ModuleNames
  <2>1. modules /= <<>> /\ modules[1].name = Base(Main) /\ modules \in Seq(Modules)
    BY <1>1, ModulesAreFiles DEF FrontInv, ModulesInv, FlagInv
  <2>2. 1 \in DOMAIN modules
    BY <2>1
  <2> QED BY <2>1, <2>2 DEF ModuleNames
<1>7. ASSUME NEW p \in Paths, Base(p) \in ModuleNames, NEW q \in ImportsIn(p)
      PROVE  q \in Paths /\ Base(q) \in ModuleNames
  <2>1. PICK f \in Program : Base(p) = Base(f) /\ ImportsOf(Base(p)) = ImportsIn(f)
    BY <1>4, <1>7
  <2>2. p = f
    BY <1>2, <2>1, PathsAssumption
  <2>3. q \in ModuleNames /\ q \in Paths
    BY <1>5, <1>7, <2>1, <2>2 DEF ImportsIn
  <2>4. PICK r \in Program : q = Base(r)
    BY <1>4, <2>3
  <2>5. Base(q) = q
    BY <1>2, <2>3, <2>4, PathsAssumption
  <2> QED BY <2>3, <2>5
<1>8. ASSUME NEW p \in Program PROVE Base(p) \in ModuleNames
  <2>1. PICK S : S = {q \in Paths : Base(q) \in ModuleNames}
    OBVIOUS
  <2>2. S \in SUBSET Paths /\ Main \in S
    BY <1>2, <1>6, <2>1
  <2>3. \A q \in S : ImportsIn(q) \subseteq S
    BY <1>7, <2>1
  <2>4. p \in S
    BY <1>8, <2>2, <2>3 DEF Program
  <2> QED BY <2>1, <2>4
<1> QED BY <1>2, <1>4, <1>8

LEMMA AllOfTheProgram == FrontInv /\ ValidInv => AcceptedIsWhole
<1> SUFFICES ASSUME FrontInv, ValidInv, phase = "accepted", disk[Main].items /= <<>>
             PROVE  /\ \A p \in Program :
                         Cardinality({k \in DOMAIN checked : modules[checked[k].id].name = Base(p)}) = 1
                    /\ Len(checked) = Cardinality(Program)
                    /\ \A p \in Program : modules[ModuleOf(Base(p))].decls = DeclsIn(p)
  BY DEF AcceptedIsWhole
<1>1. /\ phase \in Validating /\ CheckedInv /\ Ordered /\ DOMAIN checked = DOMAIN output
      /\ NodeSet = ModuleNames /\ output \in Seq(Names) /\ Len(checked) = Len(output)
  BY AcceptedOrder DEF Validating
<1>2. ModuleNames = {Base(p) : p \in Program} /\ Program \subseteq Paths
  BY NamesOfProgram
<1>3. Distinct(output) /\ Elements(output) = ModuleNames
  BY <1>1 DEF Ordered
<1>4. \A n \in ModuleNames : ModuleOf(n) \in DOMAIN modules /\ modules[ModuleOf(n)].name = n
  BY DEF ModuleNames, ModuleOf
<1>5. ASSUME NEW p \in Program
      PROVE  Cardinality({k \in DOMAIN checked : modules[checked[k].id].name = Base(p)}) = 1
  <2>1. \A k \in DOMAIN checked : modules[checked[k].id].name = output[k]
    <3> SUFFICES ASSUME NEW k \in DOMAIN checked PROVE modules[checked[k].id].name = output[k]
      OBVIOUS
    <3>1. checked[k].id = ModuleOf(output[k])
      BY <1>1 DEF CheckedInv, CheckedAt
    <3>2. output[k] \in ModuleNames
      BY <1>1, <1>3 DEF Elements
    <3> QED BY <1>4, <3>1, <3>2
  <2>2. {k \in DOMAIN checked : modules[checked[k].id].name = Base(p)} = {k \in DOMAIN output : output[k] = Base(p)}
    BY <1>1, <2>1
  <2>3. Base(p) \in Elements(output)
    BY <1>2, <1>3
  <2>4. Cardinality({k \in DOMAIN output : output[k] = Base(p)}) = 1
    BY <1>1, <1>3, <2>3, StandsOnce
  <2> QED BY <2>2, <2>4
<1>6. Len(checked) = Cardinality(Program)
  <2> DEFINE f == [k \in 1..Len(output) |-> CHOOSE p \in Program : Base(p) = output[k]]
  <2>1. DOMAIN output = 1..Len(output) /\ Len(output) \in Nat
    BY <1>1
  <2>2. \A k \in 1..Len(output) : f[k] \in Program /\ Base(f[k]) = output[k]
    BY <1>2, <1>3, <2>1 DEF Elements
  <2>3. \A j, k \in 1..Len(output) : f[j] = f[k] => j = k
    BY <1>3, <2>1, <2>2 DEF Distinct
  <2>4. \A p \in Program : \E k \in 1..Len(output) : f[k] = p
    <3> SUFFICES ASSUME NEW p \in Program PROVE \E k \in 1..Len(output) : f[k] = p
      OBVIOUS
    <3>1. PICK k \in 1..Len(output) : output[k] = Base(p)
      BY <1>2, <1>3, <2>1 DEF Elements
    <3>2. f[k] = p
      BY <1>2, <2>2, <3>1, PathsAssumption
    <3> QED BY <3>2
  <2>5. f \in [1..Len(output) -> Program]
    BY <2>2
  <2> HIDE DEF f
  <2>6. f \in Bijection(1..Len(output), Program)
    BY <2>3, <2>4, <2>5 DEF Bijection, Injection, Surjection, IsInjective
  <2>7. ExistsBijection(1..Len(output), Program)
    BY <2>6 DEF ExistsBijection
  <2>8. Cardinality(Program) = Len(output)
    BY <2>1, <2>7, FS_CountingElements
  <2> QED BY <1>1, <2>8
<1>7. ASSUME NEW p \in Program PROVE modules[ModuleOf(Base(p))].decls = DeclsIn(p)
  <2>1. PICK k \in DOMAIN modules : k = ModuleOf(Base(p)) /\ modules[k].name = Base(p)
    BY <1>2, <1>4
  <2>2. PICK j \in DOMAIN files : /\ files[j] \in Program /\ modules[k].name = Base(files[j])
                                  /\ modules[k].decls = DeclsIn(files[j])
    BY <1>1, ModulesAreFiles
  <2>3. files[j] = p
    BY <1>2, <2>1, <2>2, PathsAssumption
  <2> QED BY <2>1, <2>2, <2>3
<1> QED BY <1>5, <1>6, <1>7

THEOREM ProgramsAreWhole == LoadSpec => []AcceptedIsWhole
BY ValidHolds, AllOfTheProgram, PTL
=============================================================================
