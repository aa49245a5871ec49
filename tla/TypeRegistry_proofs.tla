------------------------- MODULE TypeRegistry_proofs -------------------------
(***************************************************************************)
(* The two type tables, for every file and every order in which the hash   *)
(* tables are walked.                                                      *)
(***************************************************************************)
EXTENDS TypeRegistry, SequenceTheorems, TLAPS

Compound == {"ptr", "fn", "struct"}
Numbers == 0..(2 * MaxTypes)

-----------------------------------------------------------------------------
(* The parser's table.                                                     *)

\* What a Type t registered under the name k is made of, in a table of these names.
ShapeOf(k, t, names) ==
  /\ t.kind \in Kinds
  /\ t.kind /= "scope" => t.name = k
  /\ t.kind = "prim" => t.parts = <<>> /\ \E p \in Prims : k = <<p>>
  /\ t.kind = "ptr" => k[1] = "&" /\ Len(t.parts) = 1
  /\ t.kind = "fn" => k[1] = "fn"
  /\ t.kind = "struct" => \E s \in Idents : k = <<s>>
  /\ t.kind \in Compound => t.parts \in Seq(names)
  /\ t.kind = "id" =>
       \E x \in Idents \cup Modules, n \in Numbers : t.parts = <<x>> /\ k = Spell[<<x, n>>]
  /\ t.kind = "scope" =>
       \E m \in Modules, x \in Idents : k = <<m>> /\ t.name = Scoped(m, x) /\ t.parts = <<m, x>>

Shaped(table) == \A k \in DOMAIN table : ShapeOf(k, table[k], DOMAIN table)
HasPrims(table) == \A p \in Prims : <<p>> \in DOMAIN table /\ table[<<p>>].kind = "prim"

StructObjects(names) == [name : Idents, fields : Seq(names)]

Table ==
  /\ Shaped(parsed)
  /\ HasPrims(parsed)
  /\ pending \in Seq(DOMAIN parsed)
  /\ structs \in Seq(StructObjects(DOMAIN parsed))
  /\ \A i \in 1..Len(structs) : <<structs[i].name>> \in DOMAIN parsed
  /\ written \in 0..MaxTypes
  /\ counter \in 0..(2 * written)

LEMMA Bounds == MaxTypes \in Nat /\ MaxFrames \in Nat
  BY BoundsAssumption

LEMMA EntryIs ==
  ASSUME NEW n, NEW t
  PROVE  DOMAIN Entry(n, t) = {n} /\ Entry(n, t)[n] = t
  BY DEF Entry

LEMMA TypeIs ==
  ASSUME NEW kind, NEW name, NEW parts
  PROVE  /\ Type(kind, name, parts).kind = kind
         /\ Type(kind, name, parts).name = name
         /\ Type(kind, name, parts).parts = parts
  BY DEF Type

LEMMA OneElement ==
  ASSUME NEW S, NEW x \in S
  PROVE  <<>> \in Seq(S) /\ <<x>> \in Seq(S)
  OBVIOUS

LEMMA MoreNames ==
  ASSUME NEW k, NEW t, NEW names, ShapeOf(k, t, names), NEW more, names \subseteq more
  PROVE  ShapeOf(k, t, more)
PROOF
  <1>1. t.kind \in Compound => t.parts \in Seq(more)
    <2> SUFFICES ASSUME t.parts \in Seq(names) PROVE t.parts \in Seq(more)
      BY DEF ShapeOf
    <2> QED OBVIOUS
  <1> QED BY <1>1 DEF ShapeOf

\* The table keeps what it has.
LEMMA GrownTable ==
  ASSUME NEW t, Shaped(t), HasPrims(t), NEW e, NEW u, u = Added(t, e),
         \A k \in DOMAIN e : ShapeOf(k, e[k], DOMAIN u)
  PROVE  Shaped(u) /\ HasPrims(u) /\ DOMAIN t \subseteq DOMAIN u
PROOF
  <1>1. /\ DOMAIN u = DOMAIN t \cup DOMAIN e
        /\ \A n \in DOMAIN t : u[n] = t[n]
        /\ \A n \in DOMAIN e : n \notin DOMAIN t => u[n] = e[n]
    BY DEF Added
  <1>2. ASSUME NEW k \in DOMAIN u PROVE ShapeOf(k, u[k], DOMAIN u)
    <2>1. CASE k \in DOMAIN t
      <3>1. ShapeOf(k, t[k], DOMAIN t)
        BY <2>1 DEF Shaped
      <3> QED BY <1>1, <2>1, <3>1, MoreNames
    <2>2. CASE k \notin DOMAIN t
      BY <1>1, <2>2
    <2> QED BY <2>1, <2>2
  <1> QED BY <1>1, <1>2 DEF Shaped, HasPrims

LEMMA MoreStructs ==
  ASSUME NEW names, NEW more, names \subseteq more, NEW s \in Seq(StructObjects(names))
  PROVE  s \in Seq(StructObjects(more))
PROOF
  <1>1. Seq(names) \subseteq Seq(more)
    OBVIOUS
  <1>2. StructObjects(names) \subseteq StructObjects(more)
    BY <1>1 DEF StructObjects
  <1> QED BY <1>2

\* A step of the parser that adds types and leaves the structs alone.
LEMMA TableGrows ==
  ASSUME Table, NEW e, parsed' = Added(parsed, e),
         \A k \in DOMAIN e : ShapeOf(k, e[k], DOMAIN parsed'),
         pending' \in Seq(DOMAIN parsed'), structs' = structs,
         written' \in 0..MaxTypes, counter' \in 0..(2 * written')
  PROVE  Table'
PROOF
  <1>1. Shaped(parsed') /\ HasPrims(parsed') /\ DOMAIN parsed \subseteq DOMAIN parsed'
    BY GrownTable DEF Table
  <1>2. structs' \in Seq(StructObjects(DOMAIN parsed'))
    BY <1>1, MoreStructs DEF Table
  <1>3. \A i \in 1..Len(structs') : <<structs'[i].name>> \in DOMAIN parsed'
    BY <1>1 DEF Table
  <1> QED BY <1>1, <1>2, <1>3 DEF Table

\* The types of one form.
LEMMA IdShape ==
  ASSUME NEW x \in Idents \cup Modules, NEW n \in Numbers, NEW names
  PROVE  \A k \in DOMAIN IdType(x, n) : ShapeOf(k, IdType(x, n)[k], names)
PROOF
  <1>1. PICK k : k = Spell[<<x, n>>]
    OBVIOUS
  <1>2. PICK t : t = Type("id", k, <<x>>)
    OBVIOUS
  <1>3. t.kind = "id" /\ t.name = k /\ t.parts = <<x>>
    BY <1>2, TypeIs
  <1>4. ShapeOf(k, t, names)
    BY <1>1, <1>3 DEF ShapeOf, Kinds, Compound
  <1>5. DOMAIN IdType(x, n) = {k} /\ IdType(x, n)[k] = t
    BY <1>1, <1>2, EntryIs DEF IdType
  <1> QED BY <1>4, <1>5

LEMMA ScopeShape ==
  ASSUME NEW f \in Forms, f.module /= Here, NEW names
  PROVE  \A k \in DOMAIN ScopeType(f) : ShapeOf(k, ScopeType(f)[k], names)
PROOF
  <1>1. PICK k : k = <<f.module>>
    OBVIOUS
  <1>2. PICK t : t = Type("scope", Scoped(f.module, f.ident), <<f.module, f.ident>>)
    OBVIOUS
  <1>3. t.kind = "scope" /\ t.name = Scoped(f.module, f.ident) /\ t.parts = <<f.module, f.ident>>
    BY <1>2, TypeIs
  <1>4. f.module \in Modules /\ f.ident \in Idents
    BY DEF Forms
  <1>5. ShapeOf(k, t, names)
    BY <1>1, <1>3, <1>4 DEF ShapeOf, Kinds, Compound
  <1>6. DOMAIN ScopeType(f) = {k} /\ ScopeType(f)[k] = t
    BY <1>1, <1>2, EntryIs DEF ScopeType, BaseKey
  <1> QED BY <1>5, <1>6

LEMMA AddedShapes ==
  ASSUME NEW names, NEW d, NEW e,
         \A k \in DOMAIN d : ShapeOf(k, d[k], names), \A k \in DOMAIN e : ShapeOf(k, e[k], names)
  PROVE  \A k \in DOMAIN Added(d, e) : ShapeOf(k, Added(d, e)[k], names)
PROOF
  <1>1. PICK u : u = Added(d, e)
    OBVIOUS
  <1>2. DOMAIN u = DOMAIN d \cup DOMAIN e
    BY <1>1 DEF Added
  <1>3. ASSUME NEW k \in DOMAIN u PROVE u[k] = (IF k \in DOMAIN d THEN d[k] ELSE e[k])
    BY <1>1 DEF Added
  <1> QED BY <1>1, <1>2, <1>3

\* Where the types of a form are.
LEMMA BaseOfForm ==
  ASSUME Table, NEW f \in Forms, counter + 1 \in Numbers, counter \in Numbers, NEW names
  PROVE  /\ \A k \in DOMAIN BaseTypes(f) : ShapeOf(k, BaseTypes(f)[k], names)
         /\ BaseKey(f) \in DOMAIN BaseTypes(f) \cup DOMAIN parsed
PROOF
  <1>1. CASE f.module /= Here
    <2>1. PICK a, b, c : /\ a = IdType(f.module, counter) /\ b = ScopeType(f)
                         /\ c = IdType(f.ident, counter + 1)
      OBVIOUS
    <2>2. BaseTypes(f) = Added(Added(a, b), c)
      BY <1>1, <2>1 DEF BaseTypes
    <2>3. f.module \in Modules /\ f.ident \in Idents
      BY <1>1 DEF Forms
    <2>4. /\ \A k \in DOMAIN a : ShapeOf(k, a[k], names)
          /\ \A k \in DOMAIN b : ShapeOf(k, b[k], names)
          /\ \A k \in DOMAIN c : ShapeOf(k, c[k], names)
      BY <1>1, <2>1, <2>3, IdShape, ScopeShape
    <2>5. \A k \in DOMAIN Added(a, b) : ShapeOf(k, Added(a, b)[k], names)
      BY <2>4, AddedShapes
    <2>6. \A k \in DOMAIN Added(Added(a, b), c) : ShapeOf(k, Added(Added(a, b), c)[k], names)
      BY <2>4, <2>5, AddedShapes
    <2>7. BaseKey(f) \in DOMAIN b
      BY <2>1 DEF ScopeType, Entry
    <2>8. BaseKey(f) \in DOMAIN Added(Added(a, b), c)
      BY <2>7 DEF Added
    <2> QED BY <2>2, <2>6, <2>8
  <1>2. CASE f.module = Here /\ f.ident \in Prims
    <2>1. BaseTypes(f) = <<>> /\ DOMAIN <<>> = {} /\ BaseKey(f) = <<f.ident>>
      BY <1>2 DEF BaseTypes, BaseKey
    <2> QED BY <1>2, <2>1 DEF Table, HasPrims
  <1>3. CASE f.module = Here /\ f.ident \notin Prims
    <2>1. BaseTypes(f) = IdType(f.ident, counter) /\ BaseKey(f) = Spell[<<f.ident, counter>>]
      BY <1>3 DEF BaseTypes, BaseKey
    <2>2. f.ident \in Idents
      BY <1>3 DEF Forms
    <2>3. BaseKey(f) \in DOMAIN IdType(f.ident, counter)
      BY <2>1 DEF IdType, Entry
    <2> QED BY <2>1, <2>2, <2>3, IdShape
  <1> QED BY <1>1, <1>2, <1>3

LEMMA PointerOfForm ==
  ASSUME NEW f \in Forms, NEW names, BaseKey(f) \in names
  PROVE  \A k \in DOMAIN PointerType(f) : ShapeOf(k, PointerType(f)[k], names)
PROOF
  <1>1. PICK k, b : k = PointerName(f) /\ b = BaseKey(f)
    OBVIOUS
  <1>2. PICK t : t = Type("ptr", k, <<b>>)
    OBVIOUS
  <1>3. t.kind = "ptr" /\ t.name = k /\ t.parts = <<b>>
    BY <1>2, TypeIs
  <1>4. k[1] = "&"
    BY <1>1 DEF PointerName, Ptr, Scoped
  <1>5. ShapeOf(k, t, names)
    BY <1>1, <1>3, <1>4 DEF ShapeOf, Kinds, Compound
  <1>6. DOMAIN PointerType(f) = {k} /\ PointerType(f)[k] = t
    BY <1>1, <1>2, EntryIs DEF PointerType
  <1> QED BY <1>5, <1>6

\* parseType(): the types of a form, and the key of the one that was meant.
LEMMA ParseTypeKeepsTable ==
  ASSUME Table, NEW f \in Forms, ParseType(f)
  PROVE  Table'
PROOF
  <1>1. /\ written \in Nat /\ written < MaxTypes /\ counter \in Nat /\ counter <= 2 * written
        /\ counter \in Numbers /\ counter + 1 \in Numbers /\ written' \in 0..MaxTypes
        /\ \A d \in {0, 1, 2} : counter + d \in 0..(2 * written')
    <2>1. /\ written \in 0..MaxTypes /\ written < MaxTypes /\ written' = written + 1
          /\ counter \in 0..(2 * written) /\ MaxTypes \in Nat
      BY Bounds DEF Table, ParseType
    <2>2. /\ written \in Nat /\ written' \in Nat /\ counter \in Nat /\ counter <= 2 * written
          /\ counter + 2 <= 2 * written' /\ written' <= MaxTypes
      BY <2>1
    <2>3. counter + 2 <= 2 * MaxTypes
      BY <2>1, <2>2
    <2> QED BY <2>1, <2>2, <2>3 DEF Numbers
  <1>2. structs' = structs
    BY DEF ParseType
  <1>3. CASE UNCHANGED <<parsed, pending, counter>>
    <2>1. 0 \in {0, 1, 2} /\ counter + 0 = counter
      BY <1>1
    <2>2. counter' \in 0..(2 * written')
      BY <1>1, <1>3, <2>1
    <2> QED BY <1>1, <1>2, <1>3, <2>2 DEF Table
  <1>4. CASE /\ parsed' = Added(parsed, TypesOf(f))
             /\ pending' = Append(pending, IF f.pointer THEN PointerName(f) ELSE BaseKey(f))
             /\ counter' = counter + (IF f.module /= Here THEN 2 ELSE IF f.ident \in Prims THEN 0 ELSE 1)
    <2> DEFINE names == DOMAIN parsed'
    <2>1. names = DOMAIN parsed \cup DOMAIN TypesOf(f)
      BY <1>4 DEF Added
    <2> HIDE DEF names
    <2>2. /\ \A k \in DOMAIN BaseTypes(f) : ShapeOf(k, BaseTypes(f)[k], names)
          /\ BaseKey(f) \in DOMAIN BaseTypes(f) \cup DOMAIN parsed
      BY <1>1, BaseOfForm
    <2>3. DOMAIN BaseTypes(f) \subseteq DOMAIN TypesOf(f)
      BY DEF TypesOf, Added
    <2>4. BaseKey(f) \in names
      BY <2>1, <2>2, <2>3
    <2>5. \A k \in DOMAIN TypesOf(f) : ShapeOf(k, TypesOf(f)[k], names)
      <3>1. CASE f.pointer
        BY <2>2, <2>4, <3>1, PointerOfForm, AddedShapes DEF TypesOf
      <3>2. CASE ~f.pointer
        BY <2>2, <3>2 DEF TypesOf
      <3> QED BY <3>1, <3>2
    <2>6. f.pointer => PointerName(f) \in names
      BY <2>1 DEF TypesOf, Added, PointerType, Entry
    <2>7. pending' \in Seq(names)
      <3>1. pending \in Seq(names)
        <4>1. pending \in Seq(DOMAIN parsed) /\ DOMAIN parsed \subseteq names
          BY <2>1 DEF Table
        <4> QED BY <4>1
      <3>2. PICK k \in names : pending' = Append(pending, k)
        BY <1>4, <2>4, <2>6
      <3> QED BY <3>1, <3>2
    <2>8. counter' \in 0..(2 * written')
      <3>1. PICK d \in {0, 1, 2} : counter' = counter + d
        BY <1>4
      <3> QED BY <1>1, <3>1
    <2> QED BY <1>1, <1>2, <1>4, <2>5, <2>7, <2>8, TableGrows DEF names
  <1> QED BY <1>3, <1>4 DEF ParseType

\* One type under a name.
LEMMA EntryShape ==
  ASSUME NEW k, NEW t, NEW names, ShapeOf(k, t, names)
  PROVE  \A n \in DOMAIN Entry(k, t) : ShapeOf(n, Entry(k, t)[n], names)
  BY DEF Entry

\* makeStructType()
LEMMA EndFieldsKeepsTable ==
  ASSUME Table, NEW s \in Idents, EndFields(s)
  PROVE  Table'
PROOF
  <1>1. /\ structs' = Append(structs, [name |-> s, fields |-> pending]) /\ pending' = <<>>
        /\ written' = written /\ counter' = counter
        /\ \/ <<s>> \in DOMAIN parsed /\ parsed' = parsed
           \/ /\ <<s>> \notin DOMAIN parsed
              /\ parsed' = Added(parsed, Entry(<<s>>, Type("struct", <<s>>, pending)))
    BY DEF EndFields
  <1>2. Shaped(parsed') /\ HasPrims(parsed') /\ DOMAIN parsed \subseteq DOMAIN parsed' /\ <<s>> \in DOMAIN parsed'
    <2>1. CASE parsed' = parsed /\ <<s>> \in DOMAIN parsed
      BY <2>1 DEF Table
    <2>2. CASE parsed' = Added(parsed, Entry(<<s>>, Type("struct", <<s>>, pending)))
      <3>1. PICK t : t = Type("struct", <<s>>, pending)
        OBVIOUS
      <3>2. DOMAIN parsed' = DOMAIN parsed \cup {<<s>>}
        BY <2>2 DEF Added, Entry
      <3>3. ShapeOf(<<s>>, t, DOMAIN parsed')
        <4>1. pending \in Seq(DOMAIN parsed')
          <5>1. pending \in Seq(DOMAIN parsed) /\ DOMAIN parsed \subseteq DOMAIN parsed'
            BY <3>2 DEF Table
          <5> QED BY <5>1
        <4>2. t.kind = "struct" /\ t.name = <<s>> /\ t.parts = pending
          BY <3>1, TypeIs
        <4> QED BY <4>1, <4>2 DEF ShapeOf, Kinds, Compound
      <3>4. \A k \in DOMAIN Entry(<<s>>, t) : ShapeOf(k, Entry(<<s>>, t)[k], DOMAIN parsed')
        BY <3>3, EntryShape
      <3> QED BY <2>2, <3>1, <3>2, <3>4, GrownTable DEF Table
    <2> QED BY <1>1, <2>1, <2>2
  <1>3. PICK o : o = [name |-> s, fields |-> pending]
    OBVIOUS
  <1>4. structs \in Seq(StructObjects(DOMAIN parsed')) /\ o \in StructObjects(DOMAIN parsed') /\ o.name = s
    <2>1. pending \in Seq(DOMAIN parsed')
      <3>1. pending \in Seq(DOMAIN parsed) /\ DOMAIN parsed \subseteq DOMAIN parsed'
        BY <1>2 DEF Table
      <3> QED BY <3>1
    <2>2. structs \in Seq(StructObjects(DOMAIN parsed'))
      BY <1>2, MoreStructs DEF Table
    <2> QED BY <1>3, <2>1, <2>2 DEF StructObjects
  <1>5. structs' \in Seq(StructObjects(DOMAIN parsed')) /\ Len(structs') = Len(structs) + 1
    BY <1>1, <1>3, <1>4
  <1>6. ASSUME NEW i \in 1..Len(structs') PROVE <<structs'[i].name>> \in DOMAIN parsed'
    <2>1. CASE i = Len(structs) + 1
      BY <1>1, <1>2, <1>3, <1>4, <2>1
    <2>2. CASE i \in 1..Len(structs)
      <3>1. structs'[i] = structs[i]
        BY <1>1, <1>3, <1>4, <2>2
      <3> QED BY <1>2, <2>2, <3>1 DEF Table
    <2>3. i = Len(structs) + 1 \/ i \in 1..Len(structs)
      BY <1>4, <1>5
    <2> QED BY <2>1, <2>2, <2>3
  <1>7. pending' \in Seq(DOMAIN parsed')
    BY <1>1
  <1> QED BY <1>1, <1>2, <1>5, <1>6, <1>7 DEF Table

\* Steps that add one type, or nothing, and leave the structs alone.
LEMMA OneTypeKeepsTable ==
  ASSUME Table, NEW k, NEW t,
         parsed' = (IF k \in DOMAIN parsed THEN parsed ELSE Added(parsed, Entry(k, t))),
         ShapeOf(k, t, DOMAIN parsed), structs' = structs,
         pending' = <<>> \/ pending' = <<k>>,
         written' = written \/ (written < MaxTypes /\ written' = written + 1), counter' = counter
  PROVE  Table'
PROOF
  <1>1. Shaped(parsed') /\ HasPrims(parsed') /\ DOMAIN parsed \subseteq DOMAIN parsed' /\ k \in DOMAIN parsed'
    <2>1. CASE k \in DOMAIN parsed
      BY <2>1 DEF Table
    <2>2. CASE k \notin DOMAIN parsed
      <3>1. parsed' = Added(parsed, Entry(k, t)) /\ DOMAIN parsed' = DOMAIN parsed \cup {k}
        BY <2>2 DEF Added, Entry
      <3>2. ShapeOf(k, t, DOMAIN parsed')
        BY <3>1, MoreNames
      <3>3. \A n \in DOMAIN Entry(k, t) : ShapeOf(n, Entry(k, t)[n], DOMAIN parsed')
        BY <3>2, EntryShape
      <3> QED BY <3>1, <3>3, GrownTable DEF Table
    <2> QED BY <2>1, <2>2
  <1>2. structs' \in Seq(StructObjects(DOMAIN parsed'))
    BY <1>1, MoreStructs DEF Table
  <1>3. \A i \in 1..Len(structs') : <<structs'[i].name>> \in DOMAIN parsed'
    BY <1>1 DEF Table
  <1>4. pending' \in Seq(DOMAIN parsed')
    <2>1. <<>> \in Seq(DOMAIN parsed') /\ <<k>> \in Seq(DOMAIN parsed')
      BY <1>1, OneElement
    <2> QED BY <2>1
  <1>5. written' \in 0..MaxTypes /\ counter' \in 0..(2 * written')
    BY Bounds DEF Table
  <1> QED BY <1>1, <1>2, <1>3, <1>4, <1>5 DEF Table

LEMMA ParseThisKeepsTable ==
  ASSUME Table, ParseThis
  PROVE  Table'
PROOF
  <1>1. Len(structs) \in 1..Len(structs)
    BY DEF ParseThis, Table
  <1>2. PICK s : s = structs[Len(structs)].name
    OBVIOUS
  <1>3. <<s>> \in DOMAIN parsed
    BY <1>1, <1>2 DEF Table
  <1>4. PICK k, t : k = Ptr(<<s>>) /\ t = Type("ptr", k, <<<<s>>>>)
    OBVIOUS
  <1>5. ShapeOf(k, t, DOMAIN parsed)
    <2>1. t.kind = "ptr" /\ t.name = k /\ t.parts = <<<<s>>>>
      BY <1>4 DEF Type
    <2>2. k[1] = "&"
      BY <1>4 DEF Ptr
    <2> QED BY <1>3, <2>1, <2>2 DEF ShapeOf, Kinds, Compound
  <1>6. /\ parsed' = (IF k \in DOMAIN parsed THEN parsed ELSE Added(parsed, Entry(k, t)))
        /\ pending' = <<k>> /\ structs' = structs /\ counter' = counter
        /\ written < MaxTypes /\ written' = written + 1
    BY <1>2, <1>4 DEF ParseThis
  <1> QED BY <1>5, <1>6, OneTypeKeepsTable

LEMMA FunctionTypeKeepsTable ==
  ASSUME Table, EndFunction \/ ParseFunctionType
  PROVE  Table'
PROOF
  <1>1. PICK k, t : k = FunctionName /\ t = Type("fn", k, Append(pending, <<"void">>))
    OBVIOUS
  <1>2. k[1] = "fn"
    <2>1. PICK S : S = {parsed[n].name : n \in DOMAIN parsed}
      OBVIOUS
    <2>2. [i \in DOMAIN pending |-> parsed[pending[i]].name] \in Seq(S)
      <3>1. pending \in Seq(DOMAIN parsed) /\ DOMAIN pending = 1..Len(pending) /\ Len(pending) \in Nat
        BY DEF Table
      <3>2. \A i \in 1..Len(pending) : parsed[pending[i]].name \in S
        BY <2>1, <3>1
      <3> QED BY <3>1, <3>2
    <2> QED BY <1>1, <2>2 DEF FunctionName
  <1>3. ShapeOf(k, t, DOMAIN parsed)
    <2>1. "void" \in Prims
      BY PrimsAssumption
    <2>2. <<"void">> \in DOMAIN parsed /\ pending \in Seq(DOMAIN parsed)
      BY <2>1 DEF Table, HasPrims
    <2>3. t.kind = "fn" /\ t.name = k /\ t.parts = Append(pending, <<"void">>)
      BY <1>1 DEF Type
    <2>4. t.parts \in Seq(DOMAIN parsed)
      BY <2>2, <2>3
    <2> QED BY <1>2, <2>3, <2>4 DEF ShapeOf, Kinds, Compound
  <1>4. /\ parsed' = (IF k \in DOMAIN parsed THEN parsed ELSE Added(parsed, Entry(k, t)))
        /\ pending' = <<k>> \/ pending' = <<>>
        /\ structs' = structs /\ counter' = counter
        /\ written' = written \/ (written < MaxTypes /\ written' = written + 1)
    BY <1>1 DEF EndFunction, ParseFunctionType, MakeFunctionType
  <1> QED BY <1>3, <1>4, OneTypeKeepsTable

LEMMA ParsingKeepsTable ==
  ASSUME Table, Parse
  PROVE  Table'
PROOF
  <1>1. CASE EndVariable
    BY <1>1 DEF EndVariable, Table
  <1> QED BY <1>1, ParseTypeKeepsTable, EndFieldsKeepsTable, ParseThisKeepsTable,
             FunctionTypeKeepsTable DEF Parse

-----------------------------------------------------------------------------
(* The walk over the types, and validateType()'s stack.                    *)
Words == Prims \cup Idents
Refs == [module : Modules \cup {Here}, name : DOMAIN parsed \cup {<<x>> : x \in Idents}]
Frames == [type : DOMAIN parsed, next : Nat, parts : Seq(Refs), bad : BOOLEAN]
KindAt(i) == parsed[frames[i].type].kind
PartsAt(i) == parsed[frames[i].type].parts

(* A frame that has entered a compound type is at one of its parts, or     *)
(* behind the last one; it waits for the frame above it.                   *)
Entered(i) ==
  /\ frames[i].next = 0 => frames[i].parts = <<>> /\ ~frames[i].bad
  /\ frames[i].next > 0 => KindAt(i) \in Compound /\ frames[i].next <= Len(PartsAt(i)) + 1
  /\ frames[i].next > 0 /\ KindAt(i) = "struct" => frames[i].type \in DOMAIN checked
  /\ i < Len(frames) => frames[i].next \in 1..Len(PartsAt(i))

\* The types of the new table: those of the parser's, and generated pointer types.
CheckedName(n) ==
  \/ /\ n \in DOMAIN parsed
     /\ parsed[n].kind \in Compound \cup {"prim"}
     /\ checked[n].kind = parsed[n].kind
  \/ /\ n \notin DOMAIN parsed
     /\ checked[n].kind = "ptr"
     /\ \E w \in Words : n = <<"&", w>>

\* What validateType() returns.
Returned(r) ==
  \/ r \in {None, Null}
  \/ \E n \in DOMAIN checked \cap DOMAIN parsed : r = Ref(Here, n)
  \/ \E k \in DOMAIN parsed : \E m \in Modules, x \in Idents :
       parsed[k].kind = "scope" /\ parsed[k].parts = <<m, x>> /\ r = Ref(m, <<x>>)

Untouched ==
  DOMAIN checked = {} /\ todo = {} /\ frames = <<>> /\ result = None /\ hadError = FALSE

Walk ==
  /\ phase \in {"parse", "types", "fields", "overflow"} \cup Ended
  /\ phase \in {"parse", "parser abort"} => Untouched
  /\ todo \subseteq DOMAIN parsed
  /\ frames \in Seq(Frames)
  /\ \A i \in 1..Len(frames) : Entered(i)
  /\ result /= None /\ frames /= <<>> => Top.next \in 1..Len(Ty.parts)
  /\ Returned(result)
  /\ \A n \in DOMAIN checked : CheckedName(n)

\* The stack without its top, with another top, with one more frame.
Popped ==
  /\ frames' \in Seq(Frames) /\ Len(frames') = Len(frames) - 1
  /\ \A i \in 1..(Len(frames) - 1) : frames'[i] = frames[i]
Put(g) ==
  /\ frames' \in Seq(Frames) /\ Len(frames') = Len(frames) /\ frames'[Len(frames)] = g
  /\ \A i \in 1..(Len(frames) - 1) : frames'[i] = frames[i]
Pushed(g) ==
  /\ frames' \in Seq(Frames) /\ Len(frames') = Len(frames) + 1 /\ frames'[Len(frames) + 1] = g
  /\ \A i \in 1..Len(frames) : frames'[i] = frames[i]

LEMMA Pops ==
  ASSUME NEW S, NEW fs \in Seq(S), fs /= <<>>
  PROVE  /\ SubSeq(fs, 1, Len(fs) - 1) \in Seq(S)
         /\ Len(SubSeq(fs, 1, Len(fs) - 1)) = Len(fs) - 1
         /\ \A i \in 1..(Len(fs) - 1) : SubSeq(fs, 1, Len(fs) - 1)[i] = fs[i]
PROOF
  <1>1. PICK m \in Nat : m = Len(fs) - 1
    OBVIOUS
  <1>2. 1 \in 1..(Len(fs) + 1) /\ m \in (1 - 1)..Len(fs) /\ m - 1 + 1 = m
    BY <1>1
  <1>3. PICK t : t = SubSeq(fs, 1, m)
    OBVIOUS
  <1>4. t \in Seq(S) /\ Len(t) = m /\ \A i \in 1..m : t[i] = fs[1 + i - 1]
    BY <1>2, <1>3, SubSeqProperties
  <1>5. \A i \in 1..m : 1 + i - 1 = i
    BY <1>1
  <1> QED BY <1>1, <1>3, <1>4, <1>5

LEMMA Puts ==
  ASSUME NEW S, NEW fs \in Seq(S), fs /= <<>>, NEW g \in S
  PROVE  /\ [fs EXCEPT ![Len(fs)] = g] \in Seq(S)
         /\ Len([fs EXCEPT ![Len(fs)] = g]) = Len(fs)
         /\ [fs EXCEPT ![Len(fs)] = g][Len(fs)] = g
         /\ \A i \in 1..(Len(fs) - 1) : [fs EXCEPT ![Len(fs)] = g][i] = fs[i]
  OBVIOUS

LEMMA Pushes ==
  ASSUME NEW S, NEW fs \in Seq(S), NEW g \in S
  PROVE  /\ Append(fs, g) \in Seq(S)
         /\ Len(Append(fs, g)) = Len(fs) + 1
         /\ Append(fs, g)[Len(fs) + 1] = g
         /\ \A i \in 1..Len(fs) : Append(fs, g)[i] = fs[i]
  OBVIOUS

\* The top of the stack.
LEMMA TopOf ==
  ASSUME Table, Walk, frames /= <<>>
  PROVE  /\ Len(frames) \in Nat /\ Len(frames) >= 1 /\ Len(frames) \in 1..Len(frames)
         /\ Top = frames[Len(frames)] /\ Top \in Frames /\ Entered(Len(frames))
         /\ Top.type \in DOMAIN parsed /\ Top.next \in Nat /\ Top.parts \in Seq(Refs) /\ Top.bad \in BOOLEAN
         /\ Ty = parsed[Top.type] /\ ShapeOf(Top.type, Ty, DOMAIN parsed)
         /\ \A i \in 1..Len(frames) : frames[i] \in Frames
         /\ frames \in Seq(Frames)
PROOF
  <1>1. frames \in Seq(Frames) /\ \A i \in 1..Len(frames) : Entered(i)
    BY DEF Walk
  <1>2. Len(frames) \in Nat /\ Len(frames) >= 1 /\ Len(frames) \in 1..Len(frames)
    BY <1>1
  <1>3. \A i \in 1..Len(frames) : frames[i] \in Frames
    BY <1>1
  <1>4. Top = frames[Len(frames)] /\ Top \in Frames
    BY <1>2, <1>3 DEF Top
  <1>5. /\ Top.type \in DOMAIN parsed /\ Top.next \in Nat /\ Top.parts \in Seq(Refs)
        /\ Top.bad \in BOOLEAN
    BY <1>4 DEF Frames
  <1>6. Ty = parsed[Top.type] /\ ShapeOf(Top.type, Ty, DOMAIN parsed)
    BY <1>5 DEF Ty, Table, Shaped
  <1> QED BY <1>1, <1>2, <1>3, <1>4, <1>5, <1>6

\* A name with "::" is never the name of a checked type.
LEMMA ScopedNotChecked ==
  ASSUME Table, Walk, NEW m \in Modules, NEW x \in Idents
  PROVE  Scoped(m, x) \notin DOMAIN checked
PROOF
  <1> SUFFICES ASSUME Scoped(m, x) \in DOMAIN checked PROVE FALSE
    OBVIOUS
  <1>1. PICK n : n = Scoped(m, x) /\ n = <<m, "::", x>> /\ n[1] = m /\ Len(n) = 3
    BY DEF Scoped
  <1>2. CheckedName(n)
    BY <1>1 DEF Walk
  <1>3. m /= "&" /\ m /= "fn"
    BY WordsAssumption
  <1>4. CASE n \in DOMAIN parsed
    <2>1. ShapeOf(n, parsed[n], DOMAIN parsed) /\ parsed[n].kind \in {"prim", "ptr", "fn", "struct"}
      BY <1>2, <1>4 DEF Table, Shaped, CheckedName, Compound
    <2>2. n[1] = "&" \/ n[1] = "fn" \/ \E w : n = <<w>>
      BY <2>1 DEF ShapeOf
    <2>3. \A w : Len(<<w>>) = 1
      OBVIOUS
    <2> QED BY <1>1, <1>3, <2>2, <2>3
  <1>5. CASE n \notin DOMAIN parsed
    <2>1. PICK w : n = <<"&", w>>
      BY <1>2, <1>5 DEF CheckedName
    <2>2. Len(n) = 2
      BY <2>1
    <2> QED BY <1>1, <2>2
  <1> QED BY <1>4, <1>5

\* Types that Known finds: those of the parser's table with their own name.
LEMMA KnownTypes ==
  ASSUME Table, Walk, frames /= <<>>
  PROVE  /\ Known => /\ Ty.kind \in Compound \cup {"prim"}
                     /\ Ty.name = Top.type /\ Top.type \in DOMAIN checked
         /\ Ty.kind /= "scope" => Ty.name = Top.type
PROOF
  <1>1. Top.type \in DOMAIN parsed /\ Ty = parsed[Top.type] /\ ShapeOf(Top.type, Ty, DOMAIN parsed)
    BY TopOf
  <1>2. Ty.kind /= "scope" => Ty.name = Top.type
    BY <1>1 DEF ShapeOf
  <1>3. Known => Ty.kind /= "scope"
    <2>1. Ty.kind = "scope" => \E m \in Modules, x \in Idents : Ty.name = Scoped(m, x)
      BY <1>1 DEF ShapeOf
    <2> QED BY <2>1, ScopedNotChecked DEF Known
  <1>4. Known => CheckedName(Top.type)
    BY <1>2, <1>3 DEF Known, Walk
  <1> QED BY <1>1, <1>2, <1>3, <1>4 DEF Known, CheckedName

\* What validateType() returned is a Type, or NULL.
LEMMA ResultIsRef ==
  ASSUME Table, Walk, result /= None, result /= Null
  PROVE  result \in Refs
PROOF
  <1>1. Returned(result)
    BY DEF Walk
  <1> QED BY <1>1 DEF Returned, Refs, Ref

-----------------------------------------------------------------------------
(* What a step of validateType() does to the stack and to the new table.   *)
FrameOf(type, next, parts, bad) == [type |-> type, next |-> next, parts |-> parts, bad |-> bad]

\* The new table has the Type t under the name n, and is as it was otherwise.
CheckedWith(n, t) ==
  /\ DOMAIN checked' = DOMAIN checked \cup {n}
  /\ checked'[n] = t
  /\ \A m \in DOMAIN checked : m /= n => checked'[m] = checked[m]
ParserRests == parsed' = parsed /\ structs' = structs
Rests == ParserRests /\ todo' = todo /\ phase' = phase

LEMMA FrameMoves ==
  ASSUME NEW f \in Frames, NEW n
  PROVE  [f EXCEPT !.next = n] = FrameOf(f.type, n, f.parts, f.bad)
  BY DEF Frames, FrameOf

LEMMA ReturnPops ==
  ASSUME Table, Walk, frames /= <<>>, NEW r, Return(r)
  PROVE  Popped /\ result' = r
  BY TopOf, Pops DEF Return, Popped

LEMMA SetsTop ==
  ASSUME Table, Walk, frames /= <<>>, NEW g \in Frames, frames' = [frames EXCEPT ![Len(frames)] = g]
  PROVE  Put(g)
  BY TopOf, Puts DEF Put

LEMMA AddsOne ==
  ASSUME NEW n, NEW t, n \notin DOMAIN checked, checked' = Added(checked, Entry(n, t))
  PROVE  CheckedWith(n, t)
  BY DEF CheckedWith, Added, Entry

LEMMA EnterKnownDoes ==
  ASSUME Table, Walk, EnterKnown
  PROVE  /\ frames /= <<>> /\ result = None /\ Top.next = 0 /\ Rests
         /\ checked' = checked /\ hadError' = hadError
         /\ Top.type \in DOMAIN checked /\ Ty.kind \in Compound \cup {"prim"}
         /\ Popped /\ result' = Ref(Here, Top.type)
PROOF
  <1>1. /\ frames /= <<>> /\ result = None /\ Top.next = 0 /\ Rests /\ Known
        /\ checked' = checked /\ hadError' = hadError /\ Return(Ref(Here, Ty.name))
    BY DEF EnterKnown, Entering, Walking, Rests, ParserRests, parseVars
  <1> QED BY <1>1, ReturnPops, KnownTypes

LEMMA EnterPrimitiveDoes ==
  ASSUME Table, Walk, EnterPrimitive
  PROVE  /\ frames /= <<>> /\ result = None /\ Top.next = 0 /\ Rests
         /\ Ty.kind = "prim" /\ hadError' = hadError /\ Top.type \notin DOMAIN checked
         /\ CheckedWith(Top.type, Type("prim", Top.type, <<>>))
         /\ Popped /\ result' = Ref(Here, Top.type)
PROOF
  <1>1. /\ frames /= <<>> /\ result = None /\ Top.next = 0 /\ Rests /\ ~Known
        /\ Ty.kind = "prim" /\ hadError' = hadError /\ Return(Ref(Here, Ty.name))
        /\ checked' = Added(checked, Entry(Ty.name, Type("prim", Ty.name, <<>>)))
    BY DEF EnterPrimitive, Entering, Walking, Rests, ParserRests, parseVars
  <1>2. Ty.name = Top.type
    BY <1>1, KnownTypes
  <1> QED BY <1>1, <1>2, ReturnPops, AddsOne DEF Known

LEMMA EnterCompoundDoes ==
  ASSUME Table, Walk, EnterCompound
  PROVE  /\ frames /= <<>> /\ result = None /\ Top.next = 0 /\ Rests
         /\ Ty.kind \in Compound /\ hadError' = hadError /\ Top.type \notin DOMAIN checked
         /\ result' = result
         /\ Put(FrameOf(Top.type, 1, <<>>, FALSE))
         /\ IF Ty.kind = "struct" THEN CheckedWith(Top.type, Type("struct", Top.type, <<>>))
            ELSE checked' = checked
PROOF
  <1>1. /\ frames /= <<>> /\ result = None /\ Top.next = 0 /\ Rests /\ ~Known
        /\ Ty.kind \in Compound /\ hadError' = hadError /\ result' = result
        /\ checked' = IF Ty.kind \in AddedFirst
                      THEN Added(checked, Entry(Ty.name, Type(Ty.kind, Ty.name, <<>>))) ELSE checked
        /\ frames' = [frames EXCEPT ![Len(frames)].next = 1]
    BY DEF EnterCompound, Entering, Walking, Rests, ParserRests, parseVars, Compound
  <1>2. Ty.name = Top.type
    BY <1>1, KnownTypes DEF Compound
  <1>3. Top.type \notin DOMAIN checked
    BY <1>1, <1>2 DEF Known
  <1>4. IF Ty.kind = "struct" THEN CheckedWith(Top.type, Type("struct", Top.type, <<>>))
        ELSE checked' = checked
    BY <1>1, <1>2, <1>3, AddsOne DEF AddedFirst
  <1>5. PICK g : g = FrameOf(Top.type, 1, <<>>, FALSE)
    OBVIOUS
  <1>6. Top.parts = <<>> /\ Top.bad = FALSE
    BY <1>1, TopOf DEF Entered
  <1>7. frames' = [frames EXCEPT ![Len(frames)] = g]
    <2>1. frames' = [frames EXCEPT ![Len(frames)] = [frames[Len(frames)] EXCEPT !.next = 1]]
      BY <1>1
    <2>2. PICK f \in Frames : f = Top
      BY <1>1, TopOf
    <2>3. [f EXCEPT !.next = 1] = g
      BY <1>5, <1>6, <2>2, FrameMoves
    <2> QED BY <1>1, <2>1, <2>2, <2>3, TopOf
  <1>8. g \in Frames
    <2>1. 1 \in Nat /\ FALSE \in BOOLEAN /\ <<>> \in Seq(Refs) /\ Top.type \in DOMAIN parsed
      BY <1>1, TopOf
    <2> QED BY <1>5, <2>1 DEF FrameOf, Frames
  <1>9. Put(g)
    BY <1>1, <1>7, <1>8, SetsTop
  <1> QED BY <1>1, <1>3, <1>4, <1>5, <1>9

LEMMA EnterIdentifierDoes ==
  ASSUME Table, Walk, EnterIdentifier
  PROVE  /\ frames /= <<>> /\ result = None /\ Top.next = 0 /\ Rests
         /\ Ty.kind = "id" /\ checked' = checked
         /\ \/ /\ Ty.parts \in DOMAIN parsed
               /\ Put(FrameOf(Ty.parts, 0, <<>>, FALSE))
               /\ result' = result /\ hadError' = hadError
            \/ Ty.parts \notin DOMAIN parsed /\ Popped /\ result' = Null /\ hadError' = TRUE
PROOF
  <1>1. /\ frames /= <<>> /\ result = None /\ Top.next = 0 /\ Rests
        /\ Ty.kind = "id" /\ checked' = checked
        /\ \/ /\ Ty.parts \in DOMAIN parsed
              /\ frames' = [frames EXCEPT ![Len(frames)] = Frame(Ty.parts)]
              /\ result' = result /\ hadError' = hadError
           \/ Ty.parts \notin DOMAIN parsed /\ Return(Null) /\ hadError' = TRUE
    BY DEF EnterIdentifier, Entering, Walking, Rests, ParserRests, parseVars, Declared
  <1>2. CASE Ty.parts \notin DOMAIN parsed
    BY <1>1, <1>2, ReturnPops
  <1>3. CASE Ty.parts \in DOMAIN parsed
    <2>1. PICK g : g = FrameOf(Ty.parts, 0, <<>>, FALSE)
      OBVIOUS
    <2>2. g \in Frames
      BY <1>3, <2>1 DEF FrameOf, Frames
    <2>3. frames' = [frames EXCEPT ![Len(frames)] = g]
      BY <1>1, <1>3, <2>1 DEF FrameOf, Frame
    <2>4. Put(g)
      BY <1>1, <2>2, <2>3, SetsTop
    <2> QED BY <1>1, <1>3, <2>1, <2>4
  <1> QED BY <1>2, <1>3

LEMMA EnterScopedDoes ==
  ASSUME Table, Walk, EnterScoped
  PROVE  /\ frames /= <<>> /\ result = None /\ Top.next = 0 /\ Rests
         /\ Ty.kind = "scope" /\ checked' = checked /\ Popped
         /\ hadError' = (hadError \/ Ty.parts[1] \notin Imported)
         /\ \E m \in Modules, x \in Idents :
              /\ Ty.parts = <<m, x>>
              /\ result' = IF m \in Imported /\ x \in Exports[m] THEN Ref(m, <<x>>) ELSE Null
PROOF
  <1>1. /\ frames /= <<>> /\ result = None /\ Top.next = 0 /\ Rests
        /\ Ty.kind = "scope" /\ checked' = checked
        /\ hadError' = (hadError \/ Ty.parts[1] \notin Imported)
        /\ IF Ty.parts[1] \in Imported /\ Ty.parts[2] \in Exports[Ty.parts[1]]
           THEN Return(Ref(Ty.parts[1], <<Ty.parts[2]>>)) ELSE Return(Null)
    BY DEF EnterScoped, Entering, Walking, Rests, ParserRests, parseVars
  <1>2. PICK m \in Modules, x \in Idents : Ty.parts = <<m, x>>
    BY <1>1, TopOf DEF ShapeOf
  <1>3. Ty.parts[1] = m /\ Ty.parts[2] = x
    BY <1>2
  <1>4. PICK r : Return(r) /\ r = IF m \in Imported /\ x \in Exports[m] THEN Ref(m, <<x>>) ELSE Null
    BY <1>1, <1>3
  <1>5. Popped /\ result' = r
    BY <1>1, <1>4, ReturnPops
  <1> QED BY <1>1, <1>2, <1>4, <1>5

LEMMA CallPartDoes ==
  ASSUME Table, Walk, CallPart
  PROVE  /\ frames /= <<>> /\ result = None /\ Top.next \in 1..Len(Ty.parts) /\ ParserRests
         /\ checked' = checked /\ hadError' = hadError /\ todo' = todo /\ result' = result
         /\ \/ frames' = frames /\ phase' = "overflow"
            \/ /\ phase' = phase
               /\ Ty.parts[Top.next] \in DOMAIN parsed
               /\ Pushed(FrameOf(Ty.parts[Top.next], 0, <<>>, FALSE))
PROOF
  <1>1. /\ frames /= <<>> /\ result = None /\ Top.next \in 1..Len(Ty.parts) /\ ParserRests
        /\ checked' = checked /\ hadError' = hadError /\ todo' = todo /\ result' = result
        /\ \/ frames' = frames /\ phase' = "overflow"
           \/ frames' = Append(frames, Frame(Ty.parts[Top.next])) /\ phase' = phase
    BY DEF CallPart, Walking, ParserRests, parseVars
  <1>2. Top.next > 0
    BY <1>1, TopOf
  <1>3. Ty.kind \in Compound
    BY <1>1, <1>2, TopOf DEF Entered, KindAt, Ty
  <1>4. Ty.parts \in Seq(DOMAIN parsed)
    BY <1>1, <1>3, TopOf DEF ShapeOf
  <1>5. Ty.parts[Top.next] \in DOMAIN parsed
    BY <1>1, <1>4
  <1>6. PICK g : g = FrameOf(Ty.parts[Top.next], 0, <<>>, FALSE)
    OBVIOUS
  <1>7. g \in Frames
    BY <1>5, <1>6 DEF FrameOf, Frames
  <1>8. g = Frame(Ty.parts[Top.next])
    BY <1>6 DEF FrameOf, Frame
  <1>9. frames' = Append(frames, g) => Pushed(g)
    BY <1>1, <1>7, Pushes, TopOf DEF Pushed
  <1> QED BY <1>1, <1>5, <1>6, <1>8, <1>9

\* The parts that are there when the part that is waited for has been validated.
PartsNow == IF result = Null THEN Top.parts ELSE Append(Top.parts, result)
LEMMA PartDoneDoes ==
  ASSUME Table, Walk, PartDone
  PROVE  /\ frames /= <<>> /\ result /= None /\ Top.next \in 1..Len(Ty.parts) /\ Rests
         /\ hadError' = hadError /\ result' = None
         /\ Ty.kind \in Compound /\ Ty.name = Top.type
         /\ Put(FrameOf(Top.type, Top.next + 1, PartsNow, Top.bad \/ result = Null))
         /\ IF Ty.kind = "struct"
            THEN /\ Top.type \in DOMAIN checked
                 /\ \E t : /\ CheckedWith(Top.type, t)
                           /\ t.kind = checked[Top.type].kind /\ t.name = checked[Top.type].name
                           /\ t.parts = PartsNow
            ELSE checked' = checked
PROOF
  <1>1. PICK parts : parts = PartsNow
    OBVIOUS
  <1>2. /\ frames /= <<>> /\ result /= None /\ Rests /\ hadError' = hadError /\ result' = None
        /\ frames' = [frames EXCEPT ![Len(frames)] =
                        FrameOf(Top.type, Top.next + 1, parts, Top.bad \/ result = Null)]
        /\ checked' = IF Ty.kind = "struct" /\ Known THEN [checked EXCEPT ![Ty.name].parts = parts] ELSE checked
    BY <1>1 DEF PartDone, FrameOf, Walking, Rests, ParserRests, parseVars, PartsNow
  <1>3. Top.next \in 1..Len(Ty.parts)
    BY <1>2 DEF Walk
  <1>4. Ty.kind \in Compound /\ (Ty.kind = "struct" => Top.type \in DOMAIN checked)
    <2>1. Top.next > 0
      BY <1>2, <1>3, TopOf
    <2> QED BY <1>2, <2>1, TopOf DEF Entered, KindAt, Ty
  <1>5. Ty.name = Top.type
    BY <1>2, <1>4, KnownTypes DEF Compound
  <1>6. PICK g : g = FrameOf(Top.type, Top.next + 1, parts, Top.bad \/ result = Null)
    OBVIOUS
  <1>7. frames' = [frames EXCEPT ![Len(frames)] = g]
    BY <1>2, <1>6 DEF FrameOf
  <1>8. parts \in Seq(Refs)
    <2>1. result /= Null => result \in Refs
      BY <1>2, ResultIsRef
    <2> QED BY <1>1, <1>2, <2>1, TopOf DEF PartsNow
  <1>9. g \in Frames
    <2>1. PICK bad \in BOOLEAN : bad = (Top.bad \/ result = Null)
      OBVIOUS
    <2>2. Top.next + 1 \in Nat /\ Top.type \in DOMAIN parsed
      BY <1>2, TopOf
    <2> QED BY <1>6, <1>8, <2>1, <2>2 DEF FrameOf, Frames
  <1>10. Put(g)
    BY <1>2, <1>7, <1>9, SetsTop
  <1>11. ASSUME Ty.kind = "struct"
         PROVE  \E t : /\ CheckedWith(Top.type, t)
                       /\ t.kind = checked[Top.type].kind /\ t.name = checked[Top.type].name
                       /\ t.parts = parts
    <2>1. PICK t : t = [checked[Top.type] EXCEPT !.parts = parts]
      OBVIOUS
    <2>2. checked' = [checked EXCEPT ![Top.type] = t]
      BY <1>2, <1>4, <1>5, <1>11, <2>1 DEF Known
    <2>3. t.kind = checked[Top.type].kind /\ t.name = checked[Top.type].name /\ t.parts = parts
      BY <1>4, <1>11, <2>1
    <2> QED BY <1>4, <1>11, <2>2, <2>3 DEF CheckedWith
  <1> QED BY <1>1, <1>2, <1>3, <1>4, <1>5, <1>6, <1>10, <1>11

LEMMA CompoundDoneDoes ==
  ASSUME Table, Walk, CompoundDone
  PROVE  /\ frames /= <<>> /\ result = None /\ Top.next = Len(Ty.parts) + 1 /\ Rests
         /\ hadError' = hadError /\ Popped
         /\ Ty.kind \in Compound /\ Ty.name = Top.type
         /\ result' = IF Top.bad THEN Null ELSE Ref(Here, Top.type)
         /\ IF Top.bad \/ Top.type \in DOMAIN checked THEN checked' = checked
            ELSE CheckedWith(Top.type, Type(Ty.kind, Top.type, Top.parts))
PROOF
  <1>1. /\ frames /= <<>> /\ result = None /\ Top.next > Len(Ty.parts) /\ Top.next > 0
        /\ Rests /\ hadError' = hadError
        /\ checked' = IF Top.bad \/ Ty.name \in DOMAIN checked THEN checked
                      ELSE Added(checked, Entry(Ty.name, Type(Ty.kind, Ty.name, Top.parts)))
        /\ Return(IF Top.bad THEN Null ELSE Ref(Here, Ty.name))
    BY DEF CompoundDone, Walking, Rests, ParserRests, parseVars
  <1>2. Ty.kind \in Compound /\ Top.next <= Len(Ty.parts) + 1
    BY <1>1, TopOf DEF Entered, KindAt, PartsAt, Ty
  <1>3. Ty.name = Top.type
    BY <1>1, <1>2, KnownTypes DEF Compound
  <1>4. Top.next = Len(Ty.parts) + 1
    <2>1. Ty.parts \in Seq(DOMAIN parsed)
      BY <1>1, <1>2, TopOf DEF ShapeOf
    <2>2. Len(Ty.parts) \in Nat /\ Top.next \in Nat
      BY <1>1, <2>1, TopOf
    <2> QED BY <1>1, <1>2, <2>2
  <1> QED BY <1>1, <1>2, <1>3, <1>4, ReturnPops, AddsOne

-----------------------------------------------------------------------------
(* Every step keeps Walk.                                                  *)
CheckedNames == \A n \in DOMAIN checked : CheckedName(n)

LEMMA StackInUse ==
  ASSUME Walk, frames /= <<>>
  PROVE  phase \notin {"parse", "parser abort"}
  BY DEF Walk, Untouched

LEMMA SameFrames ==
  ASSUME ParserRests
  PROVE  Frames' = Frames
  BY DEF ParserRests, Frames, Refs

\* Every frame but the top one waits at a part of its type.
LEMMA Beneath ==
  ASSUME Table, Walk, frames /= <<>>, NEW i \in 1..(Len(frames) - 1)
  PROVE  i \in 1..Len(frames) /\ Entered(i) /\ frames[i].next \in 1..Len(PartsAt(i))
PROOF
  <1>1. i \in 1..Len(frames) /\ i < Len(frames)
    BY TopOf
  <1>2. Entered(i)
    BY <1>1 DEF Walk
  <1> QED BY <1>1, <1>2 DEF Entered

LEMMA MakesWalk ==
  ASSUME ParserRests, phase' \notin {"parse", "parser abort"},
         phase' \in {"types", "fields", "overflow"} \cup Ended,
         todo' \subseteq DOMAIN parsed, frames' \in Seq(Frames),
         \A i \in 1..Len(frames') : Entered(i)',
         result' /= None /\ frames' /= <<>> => Top'.next \in 1..Len(Ty'.parts),
         Returned(result)', CheckedNames'
  PROVE  Walk'
  BY SameFrames DEF Walk, CheckedNames, ParserRests

LEMMA NamesRemain ==
  ASSUME Walk, parsed' = parsed, checked' = checked
  PROVE  CheckedNames' /\ DOMAIN checked \subseteq DOMAIN checked'
  BY DEF Walk, CheckedNames, CheckedName

LEMMA NameAdded ==
  ASSUME Walk, parsed' = parsed, NEW n \in DOMAIN parsed, NEW t, CheckedWith(n, t),
         parsed[n].kind \in Compound \cup {"prim"}, t.kind = parsed[n].kind
  PROVE  CheckedNames' /\ DOMAIN checked \subseteq DOMAIN checked' /\ n \in DOMAIN checked'
PROOF
  <1>1. /\ DOMAIN checked' = DOMAIN checked \cup {n} /\ checked'[n] = t
        /\ \A m \in DOMAIN checked : m /= n => checked'[m] = checked[m]
    BY DEF CheckedWith
  <1>2. \A m \in DOMAIN checked : CheckedName(m)
    BY DEF Walk
  <1>3. ASSUME NEW m \in DOMAIN checked' PROVE CheckedName(m)'
    <2>1. CASE m = n
      BY <1>1, <2>1 DEF CheckedName
    <2>2. CASE m /= n
      <3>1. CheckedName(m) /\ checked'[m] = checked[m]
        BY <1>1, <1>2, <1>3, <2>2
      <3> QED BY <3>1 DEF CheckedName
    <2> QED BY <2>1, <2>2
  <1> QED BY <1>1, <1>3 DEF CheckedNames

\* The frames that a step leaves alone are as they were.
LEMMA StillEntered ==
  ASSUME Walk, parsed' = parsed, DOMAIN checked \subseteq DOMAIN checked',
         NEW i \in 1..Len(frames), frames'[i] = frames[i],
         i < Len(frames') => frames[i].next \in 1..Len(PartsAt(i))
  PROVE  Entered(i)'
PROOF
  <1>1. Entered(i)
    BY DEF Walk
  <1>2. KindAt(i)' = KindAt(i) /\ PartsAt(i)' = PartsAt(i)
    BY DEF KindAt, PartsAt
  <1> QED BY <1>1, <1>2 DEF Entered

LEMMA PoppedKeepsWalk ==
  ASSUME Table, Walk, frames /= <<>>, Popped, Rests, CheckedNames', Returned(result)',
         DOMAIN checked \subseteq DOMAIN checked'
  PROVE  Walk'
PROOF
  <1>1. PICK d \in Nat : d = Len(frames) /\ d >= 1 /\ Len(frames') = d - 1
    BY TopOf DEF Popped
  <1>2. /\ frames' \in Seq(Frames)
        /\ \A i \in 1..(d - 1) : i \in 1..Len(frames) /\ frames'[i] = frames[i]
    BY <1>1 DEF Popped
  <1>3. \A i \in 1..(d - 1) : frames[i].next \in 1..Len(PartsAt(i))
    BY <1>1, Beneath
  <1>4. \A i \in 1..(d - 1) : Entered(i)'
    BY <1>2, <1>3, StillEntered DEF Rests, ParserRests
  <1>5. frames' /= <<>> => Top'.next \in 1..Len(Ty'.parts)
    <2> SUFFICES ASSUME frames' /= <<>> PROVE Top'.next \in 1..Len(Ty'.parts)
      OBVIOUS
    <2>1. d - 1 \in 1..(d - 1)
      BY <1>1, <1>2
    <2>2. Top' = frames[d - 1] /\ Ty'.parts = PartsAt(d - 1)
      BY <1>1, <1>2, <2>1 DEF Top, Ty, PartsAt, Rests, ParserRests
    <2> QED BY <1>3, <2>1, <2>2
  <1>6. /\ phase' \notin {"parse", "parser abort"} /\ todo' \subseteq DOMAIN parsed
        /\ phase' \in {"types", "fields", "overflow"} \cup Ended
    BY StackInUse DEF Rests, Walk
  <1>7. \A i \in 1..Len(frames') : Entered(i)'
    BY <1>1, <1>4
  <1> QED BY <1>2, <1>5, <1>6, <1>7, MakesWalk DEF Rests

LEMMA PutKeepsWalk ==
  ASSUME Table, Walk, frames /= <<>>, NEW g, Put(g), ParserRests, todo' = todo, phase' = phase,
         CheckedNames', result' = None, DOMAIN checked \subseteq DOMAIN checked',
         g.next = 0 => g.parts = <<>> /\ ~g.bad,
         g.next > 0 => /\ parsed[g.type].kind \in Compound
                       /\ g.next <= Len(parsed[g.type].parts) + 1,
         g.next > 0 /\ parsed[g.type].kind = "struct" => g.type \in DOMAIN checked'
  PROVE  Walk'
PROOF
  <1>1. PICK d \in Nat : d = Len(frames) /\ d >= 1 /\ Len(frames') = d
    BY TopOf DEF Put
  <1>2. /\ frames' \in Seq(Frames) /\ frames'[d] = g
        /\ \A i \in 1..(d - 1) : i \in 1..Len(frames) /\ frames'[i] = frames[i]
    BY <1>1 DEF Put
  <1>3. ASSUME NEW i \in 1..(d - 1) PROVE Entered(i)'
    <2>1. frames[i].next \in 1..Len(PartsAt(i))
      BY <1>1, <1>3, Beneath
    <2> QED BY <1>2, <1>3, <2>1, StillEntered DEF ParserRests
  <1>4. Entered(d)'
    <2>1. KindAt(d)' = parsed[g.type].kind /\ PartsAt(d)' = parsed[g.type].parts
      BY <1>2 DEF KindAt, PartsAt, ParserRests
    <2>2. ~(d < Len(frames'))
      BY <1>1
    <2> QED BY <1>2, <2>1, <2>2 DEF Entered
  <1>5. \A i \in 1..Len(frames') : Entered(i)'
    <2>1. \A i \in 1..Len(frames') : i \in 1..(d - 1) \/ i = d
      BY <1>1
    <2> QED BY <1>3, <1>4, <2>1
  <1>6. /\ phase' \notin {"parse", "parser abort"} /\ todo' \subseteq DOMAIN parsed
        /\ phase' \in {"types", "fields", "overflow"} \cup Ended
    BY StackInUse DEF Walk
  <1>7. Returned(result)'
    BY DEF Returned
  <1> QED BY <1>2, <1>5, <1>6, <1>7, MakesWalk

LEMMA PushedKeepsWalk ==
  ASSUME Table, Walk, frames /= <<>>, NEW k, Pushed(FrameOf(k, 0, <<>>, FALSE)),
         ParserRests, todo' = todo, phase' = phase, checked' = checked, result' = None,
         Top.next \in 1..Len(Ty.parts)
  PROVE  Walk'
PROOF
  <1>1. PICK d \in Nat : d = Len(frames) /\ d >= 1 /\ Len(frames') = d + 1
    BY TopOf DEF Pushed
  <1>2. /\ frames' \in Seq(Frames) /\ frames'[d + 1] = FrameOf(k, 0, <<>>, FALSE)
        /\ \A i \in 1..d : i \in 1..Len(frames) /\ frames'[i] = frames[i]
    BY <1>1 DEF Pushed
  <1>3. \A i \in 1..d : frames[i].next \in 1..Len(PartsAt(i))
    <2> SUFFICES ASSUME NEW i \in 1..d PROVE frames[i].next \in 1..Len(PartsAt(i))
      OBVIOUS
    <2>1. CASE i = d
      BY <1>1, <2>1, TopOf DEF PartsAt
    <2>2. CASE i /= d
      <3>1. i \in 1..(Len(frames) - 1)
        BY <1>1, <2>2
      <3> QED BY <3>1, Beneath
    <2> QED BY <2>1, <2>2
  <1>4. \A i \in 1..d : Entered(i)'
    BY <1>2, <1>3, StillEntered DEF ParserRests
  <1>5. Entered(d + 1)'
    <2>1. ~(d + 1 < Len(frames')) /\ ~(frames'[d + 1].next > 0)
      BY <1>1, <1>2 DEF FrameOf
    <2>2. frames'[d + 1].parts = <<>> /\ frames'[d + 1].bad = FALSE
      BY <1>2 DEF FrameOf
    <2> QED BY <2>1, <2>2 DEF Entered
  <1>6. \A i \in 1..Len(frames') : Entered(i)'
    <2>1. \A i \in 1..Len(frames') : i \in 1..d \/ i = d + 1
      BY <1>1
    <2> QED BY <1>4, <1>5, <2>1
  <1>7. /\ phase' \notin {"parse", "parser abort"} /\ todo' \subseteq DOMAIN parsed
        /\ phase' \in {"types", "fields", "overflow"} \cup Ended
    BY StackInUse DEF Walk
  <1>8. Returned(result)'
    BY DEF Returned
  <1>9. CheckedNames'
    BY NamesRemain DEF ParserRests
  <1> QED BY <1>2, <1>6, <1>7, <1>8, <1>9, MakesWalk

LEMMA ValidateTypeKeepsWalk ==
  ASSUME Table, Walk, ValidateType
  PROVE  Walk'
PROOF
  <1>1. CASE EnterKnown
    <2>1. /\ frames /= <<>> /\ Rests /\ checked' = checked /\ Top.type \in DOMAIN checked
          /\ Popped /\ result' = Ref(Here, Top.type) /\ Top.type \in DOMAIN parsed
      BY <1>1, EnterKnownDoes, TopOf
    <2>2. Returned(result)'
      BY <2>1 DEF Returned, Rests, ParserRests
    <2> QED BY <2>1, <2>2, NamesRemain, PoppedKeepsWalk DEF Rests, ParserRests
  <1>2. CASE EnterPrimitive
    <2>1. /\ frames /= <<>> /\ Rests /\ Ty.kind = "prim"
          /\ CheckedWith(Top.type, Type("prim", Top.type, <<>>))
          /\ Popped /\ result' = Ref(Here, Top.type)
          /\ Top.type \in DOMAIN parsed /\ Ty = parsed[Top.type]
      BY <1>2, EnterPrimitiveDoes, TopOf
    <2>2. CheckedNames' /\ DOMAIN checked \subseteq DOMAIN checked' /\ Top.type \in DOMAIN checked'
      BY <2>1, NameAdded, TypeIs DEF Rests, ParserRests
    <2>3. Returned(result)'
      BY <2>1, <2>2 DEF Returned, Rests, ParserRests
    <2> QED BY <2>1, <2>2, <2>3, PoppedKeepsWalk
  <1>3. CASE EnterCompound
    <2>1. /\ frames /= <<>> /\ Rests /\ Ty.kind \in Compound /\ result' = None
          /\ Put(FrameOf(Top.type, 1, <<>>, FALSE))
          /\ IF Ty.kind = "struct" THEN CheckedWith(Top.type, Type("struct", Top.type, <<>>))
             ELSE checked' = checked
          /\ Top.type \in DOMAIN parsed /\ Ty = parsed[Top.type]
      BY <1>3, EnterCompoundDoes, TopOf
    <2>2. /\ CheckedNames' /\ DOMAIN checked \subseteq DOMAIN checked'
          /\ Ty.kind = "struct" => Top.type \in DOMAIN checked'
      BY <2>1, NameAdded, NamesRemain, TypeIs DEF Rests, ParserRests
    <2>3. PICK g : g = FrameOf(Top.type, 1, <<>>, FALSE)
      OBVIOUS
    <2>4. g.type = Top.type /\ g.next = 1 /\ g.next > 0 /\ g.next /= 0
      BY <2>3 DEF FrameOf
    <2>5. g.next <= Len(Ty.parts) + 1
      <3>1. Ty.parts \in Seq(DOMAIN parsed)
        BY <2>1, TopOf DEF ShapeOf
      <3>2. PICK n \in Nat : n = Len(Ty.parts)
        BY <3>1
      <3>3. 1 <= Len(Ty.parts) + 1
        BY <3>2
      <3> QED BY <2>4, <3>3
    <2> QED BY <2>1, <2>2, <2>3, <2>4, <2>5, PutKeepsWalk DEF Rests
  <1>4. CASE EnterIdentifier
    <2>1. /\ frames /= <<>> /\ Rests /\ checked' = checked /\ result = None
          /\ \/ /\ Ty.parts \in DOMAIN parsed
                /\ Put(FrameOf(Ty.parts, 0, <<>>, FALSE)) /\ result' = result
             \/ Popped /\ result' = Null
      BY <1>4, EnterIdentifierDoes
    <2>2. CheckedNames' /\ DOMAIN checked \subseteq DOMAIN checked'
      BY <2>1, NamesRemain DEF Rests, ParserRests
    <2>3. CASE Popped /\ result' = Null
      <3>1. Returned(result)'
        BY <2>3 DEF Returned
      <3> QED BY <2>1, <2>2, <2>3, <3>1, PoppedKeepsWalk
    <2>4. CASE Put(FrameOf(Ty.parts, 0, <<>>, FALSE)) /\ result' = result
      <3>1. PICK g : g = FrameOf(Ty.parts, 0, <<>>, FALSE)
        OBVIOUS
      <3>2. g.next = 0 /\ g.parts = <<>> /\ g.bad = FALSE /\ ~(g.next > 0)
        BY <3>1 DEF FrameOf
      <3> QED BY <2>1, <2>2, <2>4, <3>1, <3>2, PutKeepsWalk DEF Rests
    <2> QED BY <2>1, <2>3, <2>4
  <1>5. CASE EnterScoped
    <2>1. /\ frames /= <<>> /\ Rests /\ checked' = checked /\ Popped /\ Ty.kind = "scope"
          /\ Top.type \in DOMAIN parsed /\ Ty = parsed[Top.type]
          /\ \E m \in Modules, x \in Idents :
               Ty.parts = <<m, x>> /\ (result' = Ref(m, <<x>>) \/ result' = Null)
      BY <1>5, EnterScopedDoes, TopOf
    <2>2. Returned(result)'
      BY <2>1 DEF Returned, Rests, ParserRests
    <2> QED BY <2>1, <2>2, NamesRemain, PoppedKeepsWalk DEF Rests, ParserRests
  <1>6. CASE CallPart
    <2>1. /\ frames /= <<>> /\ result = None /\ Top.next \in 1..Len(Ty.parts) /\ ParserRests
          /\ checked' = checked /\ todo' = todo /\ result' = result
          /\ \/ frames' = frames /\ phase' = "overflow"
             \/ phase' = phase /\ Pushed(FrameOf(Ty.parts[Top.next], 0, <<>>, FALSE))
      BY <1>6, CallPartDoes
    <2>2. CASE frames' = frames /\ phase' = "overflow"
      <3>1. CheckedNames' /\ Returned(result)'
        BY <2>1, NamesRemain DEF ParserRests, Returned
      <3>2. \A i \in 1..Len(frames) : Entered(i)'
        BY <2>1, <2>2 DEF Walk, Entered, KindAt, PartsAt, ParserRests
      <3>3. /\ phase' \notin {"parse", "parser abort"} /\ todo' \subseteq DOMAIN parsed
            /\ phase' \in {"types", "fields", "overflow"} \cup Ended
            /\ frames' \in Seq(Frames) /\ result' = None
        BY <2>1, <2>2 DEF Walk
      <3> QED BY <2>1, <2>2, <3>1, <3>2, <3>3, MakesWalk
    <2>3. CASE phase' = phase /\ Pushed(FrameOf(Ty.parts[Top.next], 0, <<>>, FALSE))
      BY <2>1, <2>3, PushedKeepsWalk
    <2> QED BY <2>1, <2>2, <2>3
  <1>7. CASE PartDone
    <2>1. /\ frames /= <<>> /\ Top.next \in 1..Len(Ty.parts) /\ Rests /\ result' = None
          /\ Ty.kind \in Compound
          /\ Put(FrameOf(Top.type, Top.next + 1, PartsNow, Top.bad \/ result = Null))
          /\ IF Ty.kind = "struct"
             THEN /\ Top.type \in DOMAIN checked
                  /\ \E t : CheckedWith(Top.type, t) /\ t.kind = checked[Top.type].kind
             ELSE checked' = checked
          /\ Top.type \in DOMAIN parsed /\ Ty = parsed[Top.type] /\ Top.next \in Nat
      BY <1>7, PartDoneDoes, TopOf
    <2>2. /\ CheckedNames' /\ DOMAIN checked \subseteq DOMAIN checked'
          /\ Ty.kind = "struct" => Top.type \in DOMAIN checked'
      <3>1. CASE Ty.kind = "struct"
        <4>1. CheckedName(Top.type)
          BY <2>1, <3>1 DEF Walk
        <4>2. checked[Top.type].kind = parsed[Top.type].kind
          BY <2>1, <4>1 DEF CheckedName
        <4> QED BY <2>1, <3>1, <4>2, NameAdded DEF Rests, ParserRests
      <3>2. CASE Ty.kind /= "struct"
        BY <2>1, <3>2, NamesRemain DEF Rests, ParserRests
      <3> QED BY <3>1, <3>2
    <2>3. PICK g : g = FrameOf(Top.type, Top.next + 1, PartsNow, Top.bad \/ result = Null)
      OBVIOUS
    <2>4. g.type = Top.type /\ g.next = Top.next + 1
      BY <2>3 DEF FrameOf
    <2>5. g.next > 0 /\ g.next /= 0 /\ g.next <= Len(Ty.parts) + 1
      <3>1. Ty.parts \in Seq(DOMAIN parsed)
        BY <2>1, TopOf DEF ShapeOf
      <3>2. Len(Ty.parts) \in Nat
        BY <3>1
      <3> QED BY <2>1, <2>4, <3>2
    <2> QED BY <2>1, <2>2, <2>3, <2>4, <2>5, PutKeepsWalk DEF Rests
  <1>8. CASE CompoundDone
    <2>1. /\ frames /= <<>> /\ Rests /\ Popped /\ Ty.kind \in Compound
          /\ result' = (IF Top.bad THEN Null ELSE Ref(Here, Top.type))
          /\ IF Top.bad \/ Top.type \in DOMAIN checked THEN checked' = checked
             ELSE CheckedWith(Top.type, Type(Ty.kind, Top.type, Top.parts))
          /\ Top.type \in DOMAIN parsed /\ Ty = parsed[Top.type]
      BY <1>8, CompoundDoneDoes, TopOf
    <2>2. /\ CheckedNames' /\ DOMAIN checked \subseteq DOMAIN checked'
          /\ ~Top.bad => Top.type \in DOMAIN checked'
      <3>1. CASE Top.bad \/ Top.type \in DOMAIN checked
        BY <2>1, <3>1, NamesRemain DEF Rests, ParserRests
      <3>2. CASE ~(Top.bad \/ Top.type \in DOMAIN checked)
        BY <2>1, <3>2, NameAdded, TypeIs DEF Rests, ParserRests
      <3> QED BY <3>1, <3>2
    <2>3. Returned(result)'
      <3>1. CASE Top.bad
        BY <2>1, <3>1 DEF Returned
      <3>2. CASE ~Top.bad
        BY <2>1, <2>2, <3>2 DEF Returned, Rests, ParserRests
      <3> QED BY <3>1, <3>2
    <2> QED BY <2>1, <2>2, <2>3, PoppedKeepsWalk
  <1> QED BY <1>1, <1>2, <1>3, <1>4, <1>5, <1>6, <1>7, <1>8 DEF ValidateType

LEMMA StillAdded ==
  ASSUME Walk, parsed' = parsed, NEW n, NEW t, n \notin DOMAIN parsed,
         CheckedWith(n, t), t.kind = "ptr", \E w \in Words : n = <<"&", w>>
  PROVE  CheckedNames'
PROOF
  <1>1. /\ DOMAIN checked' = DOMAIN checked \cup {n} /\ checked'[n] = t
        /\ \A m \in DOMAIN checked : m /= n => checked'[m] = checked[m]
    BY DEF CheckedWith
  <1>2. \A m \in DOMAIN checked : CheckedName(m)
    BY DEF Walk
  <1>3. ASSUME NEW m \in DOMAIN checked' PROVE CheckedName(m)'
    <2>1. CASE m = n
      BY <1>1, <2>1 DEF CheckedName
    <2>2. CASE m /= n
      <3>1. CheckedName(m) /\ checked'[m] = checked[m]
        BY <1>1, <1>2, <1>3, <2>2
      <3> QED BY <3>1 DEF CheckedName
    <2> QED BY <2>1, <2>2
  <1> QED BY <1>1, <1>3 DEF CheckedNames

\* The types that get a pointer type from generateTypeVariants() are named by one word.
LEMMA ResultWord ==
  ASSUME Table, Walk, result /= None, result /= Null, KindOf(result) \notin {"ptr", "fn"}
  PROVE  \E w \in Words : result.name = <<w>>
PROOF
  <1>1. Returned(result)
    BY DEF Walk
  <1>2. CASE \E n \in DOMAIN checked \cap DOMAIN parsed : result = Ref(Here, n)
    <2>1. PICK n \in DOMAIN checked \cap DOMAIN parsed : result = Ref(Here, n)
      BY <1>2
    <2>2. CheckedName(n) /\ ShapeOf(n, parsed[n], DOMAIN parsed)
      BY <2>1 DEF Walk, Table, Shaped
    <2>3. result.module = Here /\ result.name = n
      BY <2>1 DEF Ref
    <2>4. parsed[n].kind \in {"prim", "struct"}
      BY <2>1, <2>2, <2>3 DEF CheckedName, KindOf, Compound
    <2> QED BY <2>2, <2>3, <2>4 DEF ShapeOf, Words
  <1>3. CASE \E m \in Modules, x \in Idents : result = Ref(m, <<x>>)
    BY <1>3 DEF Ref, Words
  <1> QED BY <1>1, <1>2, <1>3 DEF Returned

LEMMA TwoWords ==
  ASSUME NEW v, NEW w, NEW S, v \in S, w \in S
  PROVE  <<v>> \o <<w>> = <<v, w>>
PROOF
  <1>2. <<v>> \in Seq(S) /\ Len(<<v>>) = 1 /\ <<v>>[1] = v
    OBVIOUS
  <1>3. <<w>> \in Seq(S) /\ Len(<<w>>) = 1 /\ <<w>>[1] = w
    OBVIOUS
  <1>4. <<v, w>> \in Seq(S) /\ Len(<<v, w>>) = 2 /\ <<v, w>>[1] = v /\ <<v, w>>[2] = w
    OBVIOUS
  <1>5. PICK a \in Seq(S), b \in Seq(S), c \in Seq(S) : a = <<v>> /\ b = <<w>> /\ c = <<v, w>>
    BY <1>2, <1>3, <1>4
  <1>7. Len(a) = 1 /\ a[1] = v /\ Len(b) = 1 /\ b[1] = w /\ Len(c) = 2 /\ c[1] = v /\ c[2] = w
    BY <1>2, <1>3, <1>4, <1>5
  <1>6. a \o b \in Seq(S) /\ Len(a \o b) = 2 /\ (a \o b)[1] = v /\ (a \o b)[2] = w
    BY <1>7, ConcatProperties
  <1>8. a \o b = c
    BY <1>6, <1>7
  <1> QED BY <1>5, <1>8

LEMMA PointerOfWord ==
  ASSUME NEW w
  PROVE  Ptr(<<w>>) = <<"&", w>>
PROOF
  <1>1. PICK v, S : v = "&" /\ S = {v, w}
    OBVIOUS
  <1>2. <<v>> \o <<w>> = <<v, w>>
    BY <1>1, TwoWords
  <1> QED BY <1>1, <1>2 DEF Ptr

\* What the callback of tableMap() leaves behind.
LEMMA TypeDoneDoes ==
  ASSUME Table, Walk, TypeDone
  PROVE  /\ ParserRests /\ phase = "types" /\ frames = <<>> /\ frames' = frames
         /\ result /= None /\ result' = None /\ todo' = todo /\ hadError' = hadError
         /\ \/ /\ result = Null \/ KindOf(result) \in {"ptr", "fn"} \/ Ptr(result.name) \in DOMAIN parsed
               /\ checked' = checked /\ phase' = phase
            \/ /\ \E w \in Words : result.name = <<w>>
               /\ result /= Null /\ KindOf(result) \notin {"ptr", "fn"}
               /\ Ptr(result.name) \notin DOMAIN parsed /\ Ptr(result.name) \in DOMAIN checked
               /\ phase' = "validator abort" /\ checked' = checked
            \/ \E w \in Words :
                 /\ result.name = <<w>> /\ Ptr(result.name) = <<"&", w>>
                 /\ result /= Null /\ KindOf(result) \notin {"ptr", "fn"}
                 /\ Ptr(result.name) \notin DOMAIN parsed /\ Ptr(result.name) \notin DOMAIN checked
                 /\ CheckedWith(Ptr(result.name), Type("ptr", Ptr(result.name), <<result>>))
                 /\ phase' = phase
PROOF
  <1>1. PICK p : p = Ptr(result.name)
    OBVIOUS
  <1>2. /\ ParserRests /\ phase = "types" /\ frames = <<>> /\ frames' = frames
        /\ result /= None /\ result' = None /\ todo' = todo /\ hadError' = hadError
        /\ IF result = Null \/ KindOf(result) \in {"ptr", "fn"} \/ p \in DOMAIN parsed
           THEN checked' = checked /\ phase' = phase
           ELSE IF p \in DOMAIN checked
           THEN phase' = "validator abort" /\ checked' = checked
           ELSE checked' = Added(checked, Entry(p, Type("ptr", p, <<result>>))) /\ phase' = phase
    BY <1>1 DEF TypeDone, StillToCome, ParserRests, parseVars
  <1>3. CASE result = Null \/ KindOf(result) \in {"ptr", "fn"} \/ p \in DOMAIN parsed
    BY <1>1, <1>2, <1>3
  <1>4. CASE ~(result = Null \/ KindOf(result) \in {"ptr", "fn"} \/ p \in DOMAIN parsed)
    <2>1. PICK w \in Words : result.name = <<w>>
      BY <1>2, <1>4, ResultWord
    <2>3. p = <<"&", w>>
      BY <1>1, <2>1, PointerOfWord
    <2>4. p \notin DOMAIN checked => CheckedWith(p, Type("ptr", p, <<result>>))
      BY <1>2, <1>4, AddsOne
    <2> QED BY <1>1, <1>2, <1>4, <2>1, <2>3, <2>4
  <1> QED BY <1>3, <1>4

LEMMA TypeDoneAdds ==
  ASSUME Table, Walk, TypeDone
  PROVE  \A n \in DOMAIN checked' : n \in DOMAIN checked \/ (n = Ptr(result.name) /\ n \notin DOMAIN parsed)
PROOF
  <1>1. PICK p, t : p = Ptr(result.name) /\ t = Type("ptr", p, <<result>>)
    OBVIOUS
  <1>2. checked' = checked \/ (p \notin DOMAIN parsed /\ CheckedWith(p, t))
    BY <1>1, TypeDoneDoes
  <1> QED BY <1>1, <1>2 DEF CheckedWith

LEMMA NoFrames ==
  ASSUME frames' = <<>>
  PROVE  frames' \in Seq(Frames) /\ \A i \in 1..Len(frames') : Entered(i)'
  OBVIOUS

LEMMA ValidateModuleKeepsWalk ==
  ASSUME Table, Walk, ValidateModule
  PROVE  Walk'
PROOF
  <1>1. CASE BeginTypes
    <2>1. /\ ParserRests /\ phase' = "types" /\ todo' \subseteq DOMAIN parsed
          /\ checked' = checked /\ frames' = frames /\ result' = result /\ phase = "parse"
      BY <1>1 DEF BeginTypes, ParserRests, parseVars, Callees
    <2>2. Untouched
      BY <2>1 DEF Walk
    <2>3. frames' = <<>> /\ result' = None /\ DOMAIN checked' = {}
      BY <2>1, <2>2 DEF Untouched
    <2>4. Returned(result)' /\ CheckedNames' /\ \A i \in 1..Len(frames') : Entered(i)'
      BY <2>3 DEF Returned, CheckedNames
    <2>5. frames' \in Seq(Frames)
      BY <2>3
    <2> QED BY <2>1, <2>3, <2>4, <2>5, MakesWalk
  <1>2. CASE CallValidate
    <2>1. PICK k \in todo : todo' = todo \ {k} /\ frames' = <<Frame(k)>>
      BY <1>2 DEF CallValidate
    <2>2. /\ ParserRests /\ phase' = phase /\ phase \in {"types", "fields"}
          /\ checked' = checked /\ result' = result /\ result = None
      BY <1>2 DEF CallValidate, ParserRests, parseVars
    <2>3. k \in DOMAIN parsed /\ todo' \subseteq DOMAIN parsed
      BY <2>1 DEF Walk
    <2>4. PICK g \in Frames : g = Frame(k)
      <3>1. 0 \in Nat /\ FALSE \in BOOLEAN /\ <<>> \in Seq(Refs)
        OBVIOUS
      <3> QED BY <2>3, <3>1 DEF Frame, Frames
    <2>5. g.next = 0 /\ g.parts = <<>> /\ g.bad = FALSE /\ ~(g.next > 0)
      BY <2>4 DEF Frame
    <2>6. frames' \in Seq(Frames) /\ Len(frames') = 1 /\ frames'[1] = g
      BY <2>1, <2>4
    <2>7. \A i \in 1..Len(frames') : Entered(i)'
      BY <2>5, <2>6 DEF Entered
    <2>8. Returned(result)' /\ CheckedNames'
      BY <2>2, NamesRemain DEF Returned, ParserRests
    <2> QED BY <2>2, <2>3, <2>6, <2>7, <2>8, MakesWalk
  <1>3. CASE TypeDone
    <2>1. /\ ParserRests /\ phase = "types" /\ frames = <<>> /\ frames' = frames
          /\ result' = None /\ todo' = todo /\ phase' \in {"types", "validator abort"}
      BY <1>3, TypeDoneDoes
    <2>2. CheckedNames'
      <3>1. CASE checked' = checked
        BY <2>1, <3>1, NamesRemain DEF ParserRests
      <3>2. CASE \E w \in Words :
                   /\ Ptr(result.name) = <<"&", w>> /\ Ptr(result.name) \notin DOMAIN parsed
                   /\ CheckedWith(Ptr(result.name), Type("ptr", Ptr(result.name), <<result>>))
        <4>1. PICK p, t : p = Ptr(result.name) /\ t = Type("ptr", p, <<result>>)
          OBVIOUS
        <4>2. p \notin DOMAIN parsed /\ CheckedWith(p, t) /\ \E w \in Words : p = <<"&", w>>
          BY <3>2, <4>1
        <4>3. t.kind = "ptr"
          BY <4>1, TypeIs
        <4> QED BY <2>1, <4>2, <4>3, StillAdded DEF ParserRests
      <3> QED BY <1>3, <3>1, <3>2, TypeDoneDoes
    <2>3. Returned(result)'
      BY <2>1 DEF Returned
    <2>4. frames' \in Seq(Frames) /\ \A i \in 1..Len(frames') : Entered(i)'
      BY <2>1, NoFrames
    <2>5. todo' \subseteq DOMAIN parsed
      BY <2>1 DEF Walk
    <2> QED BY <2>1, <2>2, <2>3, <2>4, <2>5, MakesWalk DEF Ended
  <1>4. CASE EndTypes
    <2>1. /\ ParserRests /\ phase' \in {"rejected", "fields"} /\ frames = <<>> /\ result = None
          /\ frames' = frames /\ result' = result /\ checked' = checked
          /\ todo' = UNION {{structs[i].fields[j] : j \in DOMAIN structs[i].fields} : i \in DOMAIN structs}
      BY <1>4 DEF EndTypes, ParserRests, parseVars
    <2>2. todo' \subseteq DOMAIN parsed
      <3> SUFFICES ASSUME NEW i \in DOMAIN structs, NEW j \in DOMAIN structs[i].fields
                   PROVE  structs[i].fields[j] \in DOMAIN parsed
        BY <2>1
      <3>1. structs[i] \in StructObjects(DOMAIN parsed)
        BY DEF Table
      <3>2. structs[i].fields \in Seq(DOMAIN parsed)
        BY <3>1 DEF StructObjects
      <3> QED BY <3>2
    <2>3. Returned(result)' /\ CheckedNames'
      BY <2>1, NamesRemain DEF Returned, ParserRests
    <2>4. frames' \in Seq(Frames) /\ \A i \in 1..Len(frames') : Entered(i)'
      BY <2>1, NoFrames
    <2> QED BY <2>1, <2>2, <2>3, <2>4, MakesWalk DEF Ended
  <1>5. CASE FieldDone \/ EndFieldTypes
    <2>1. /\ ParserRests /\ frames = <<>> /\ frames' = frames /\ result' = None
          /\ checked' = checked /\ todo' = todo
          /\ phase' \in {"fields", "field abort", "rejected", "accepted"}
      BY <1>5 DEF FieldDone, EndFieldTypes, ParserRests, parseVars, walkVars
    <2>2. Returned(result)' /\ CheckedNames'
      BY <2>1, NamesRemain DEF Returned, ParserRests
    <2>3. frames' \in Seq(Frames) /\ \A i \in 1..Len(frames') : Entered(i)'
      BY <2>1, NoFrames
    <2>4. todo' \subseteq DOMAIN parsed
      BY <2>1 DEF Walk
    <2> QED BY <2>1, <2>2, <2>3, <2>4, MakesWalk DEF Ended
  <1> QED BY <1>1, <1>2, <1>3, <1>4, <1>5 DEF ValidateModule

\* While the file is parsed, the validator has not begun.
LEMMA ParseDoes ==
  ASSUME Parse
  PROVE  phase = "parse" /\ phase' \in {"parse", "parser abort"} /\ UNCHANGED walkVars
  BY DEF Parse, ParseType, EndFields, ParseThis, EndFunction, ParseFunctionType, EndVariable,
         MakeFunctionType

LEMMA ParseKeepsWalk ==
  ASSUME Table, Walk, Parse
  PROVE  Walk'
PROOF
  <1>1. Untouched /\ phase' \in {"parse", "parser abort"}
        /\ checked' = checked /\ todo' = todo /\ frames' = frames /\ result' = result /\ hadError' = hadError
    BY ParseDoes DEF Walk, walkVars
  <1>2. Untouched' /\ DOMAIN checked' = {} /\ frames' = <<>> /\ result' = None /\ todo' = {}
    BY <1>1 DEF Untouched
  <1>3. frames' \in Seq(Frames') /\ Returned(result)' /\ todo' \subseteq DOMAIN parsed'
    BY <1>2 DEF Returned
  <1>4. (\A i \in 1..Len(frames') : Entered(i)') /\ \A n \in DOMAIN checked' : CheckedName(n)'
    BY <1>2
  <1> QED BY <1>1, <1>2, <1>3, <1>4 DEF Walk, Ended

LEMMA ParserAtRest ==
  ASSUME Table, parseVars' = parseVars
  PROVE  Table'
  BY DEF Table, parseVars

LEMMA ValidationLeavesParser ==
  ASSUME ValidateType \/ ValidateModule
  PROVE  parseVars' = parseVars /\ parsed' = parsed /\ phase /= "parser abort"
  BY DEF ValidateType, ValidateModule, EnterKnown, EnterPrimitive, EnterCompound, EnterIdentifier,
         EnterScoped, CallPart, PartDone, CompoundDone, BeginTypes, CallValidate, TypeDone, EndTypes,
         FieldDone, EndFieldTypes, parseVars, Entering, Walking

Typed == Table /\ Walk

LEMMA TypedInit == Init => Typed
PROOF
  <1> SUFFICES ASSUME Init PROVE Typed
    OBVIOUS
  <1>1. \A k \in DOMAIN parsed : \E p \in Prims : k = <<p>> /\ parsed[k] = Type("prim", k, <<>>)
    BY DEF Init
  <1>2. Shaped(parsed)
    BY <1>1, TypeIs DEF Shaped, ShapeOf, Kinds, Compound
  <1>3. HasPrims(parsed)
    BY TypeIs DEF Init, HasPrims
  <1>4. Table
    <2>1. /\ pending = <<>> /\ structs = <<>> /\ written = 0 /\ counter = 0
      BY DEF Init
    <2>2. pending \in Seq(DOMAIN parsed) /\ structs \in Seq(StructObjects(DOMAIN parsed))
      BY <2>1
    <2>3. 0 \in 0..MaxTypes /\ 0 \in 0..(2 * 0)
      BY Bounds
    <2> QED BY <1>2, <1>3, <2>1, <2>2, <2>3 DEF Table
  <1>5. Walk
    <2>1. /\ DOMAIN checked = {} /\ todo = {} /\ frames = <<>> /\ result = None
          /\ hadError = FALSE /\ phase = "parse"
      BY DEF Init
    <2>2. frames \in Seq(Frames) /\ Returned(result)
      BY <2>1 DEF Returned
    <2> QED BY <2>1, <2>2 DEF Walk, Untouched
  <1> QED BY <1>4, <1>5 DEF Typed

LEMMA NothingMoves ==
  ASSUME Walk, parseVars' = parseVars, walkVars' = walkVars, phase' = phase
  PROVE  Walk'
PROOF
  <1>1. /\ parsed' = parsed /\ checked' = checked /\ todo' = todo /\ frames' = frames
        /\ result' = result /\ hadError' = hadError /\ phase' = phase
    BY DEF parseVars, walkVars
  <1>2. Frames' = Frames
    BY <1>1 DEF Frames, Refs
  <1>3. \A i \in 1..Len(frames') : Entered(i)'
    BY <1>1 DEF Walk, Entered, KindAt, PartsAt
  <1>4. \A n \in DOMAIN checked' : CheckedName(n)'
    BY <1>1 DEF Walk, CheckedName
  <1>5. Returned(result)' /\ (Untouched => Untouched')
    BY <1>1 DEF Walk, Returned, Untouched
  <1>6. Top' = Top /\ Ty' = Ty
    BY <1>1 DEF Top, Ty
  <1> QED BY <1>1, <1>2, <1>3, <1>4, <1>5, <1>6 DEF Walk

LEMMA TypedStep == Typed /\ [Next]_vars => Typed'
PROOF
  <1> SUFFICES ASSUME Table, Walk, [Next]_vars PROVE Table' /\ Walk'
    BY DEF Typed
  <1>1. CASE Parse
    BY <1>1, ParsingKeepsTable, ParseKeepsWalk
  <1>2. CASE ValidateType
    BY <1>2, ValidationLeavesParser, ParserAtRest, ValidateTypeKeepsWalk
  <1>3. CASE ValidateModule
    BY <1>3, ValidationLeavesParser, ParserAtRest, ValidateModuleKeepsWalk
  <1>4. CASE UNCHANGED vars
    <2>1. parseVars' = parseVars /\ walkVars' = walkVars /\ phase' = phase
      BY <1>4 DEF vars
    <2> QED BY <2>1, ParserAtRest, NothingMoves
  <1> QED BY <1>1, <1>2, <1>3, <1>4 DEF Next

\* A checked Type has the name under which it is in the table.
Named == hadError \in BOOLEAN /\ \A n \in DOMAIN checked : checked[n].name = n

LEMMA NameGiven ==
  ASSUME Named, NEW n, NEW t, CheckedWith(n, t), t.name = n
  PROVE  \A m \in DOMAIN checked' : checked'[m].name = m
  BY DEF Named, CheckedWith

LEMMA NamedStep == Typed /\ Named /\ [Next]_vars => Named'
PROOF
  <1> SUFFICES ASSUME Table, Walk, Named, [Next]_vars PROVE Named'
    BY DEF Typed
  <1>1. CASE Parse \/ UNCHANGED vars
    BY <1>1, ParseDoes DEF Named, vars, walkVars
  <1>2. CASE EnterKnown \/ EnterIdentifier \/ EnterScoped \/ CallPart
    <2>1. checked' = checked /\ hadError' \in BOOLEAN
      BY <1>2, EnterKnownDoes, EnterIdentifierDoes, EnterScopedDoes, CallPartDoes DEF Named
    <2> QED BY <2>1 DEF Named
  <1>3. CASE EnterPrimitive
    BY <1>3, EnterPrimitiveDoes, NameGiven, TypeIs DEF Named
  <1>4. CASE EnterCompound
    BY <1>4, EnterCompoundDoes, NameGiven, TypeIs DEF Named
  <1>5. CASE PartDone
    <2>1. \/ checked' = checked
          \/ /\ Top.type \in DOMAIN checked
             /\ \E t : CheckedWith(Top.type, t) /\ t.name = checked[Top.type].name
      BY <1>5, PartDoneDoes
    <2>2. \A m \in DOMAIN checked' : checked'[m].name = m
      BY <2>1, NameGiven DEF Named
    <2> QED BY <1>5, <2>2, PartDoneDoes DEF Named
  <1>6. CASE CompoundDone
    BY <1>6, CompoundDoneDoes, NameGiven, TypeIs DEF Named
  <1>7. CASE TypeDone
    <2>1. PICK p, t : p = Ptr(result.name) /\ t = Type("ptr", p, <<result>>)
      OBVIOUS
    <2>2. hadError' = hadError /\ (checked' = checked \/ CheckedWith(p, t))
      BY <1>7, <2>1, TypeDoneDoes
    <2>3. t.name = p
      BY <2>1, TypeIs
    <2> QED BY <2>2, <2>3, NameGiven DEF Named
  <1>8. CASE BeginTypes \/ CallValidate \/ EndTypes \/ FieldDone \/ EndFieldTypes
    <2>1. checked' = checked /\ hadError' = hadError
      BY <1>8 DEF BeginTypes, CallValidate, EndTypes, FieldDone, EndFieldTypes, walkVars
    <2> QED BY <2>1 DEF Named
  <1> QED BY <1>1, <1>2, <1>3, <1>4, <1>5, <1>6, <1>7, <1>8 DEF Next, ValidateType, ValidateModule

(* Both tables hold Types of the kinds they should, those of the new one   *)
(* under their own names; the fields and parameters that are being read,   *)
(* what is still to be visited and the frames of validateType() are types  *)
(* of the parser's table; and the counter of identifier types is in range. *)
THEOREM TablesTyped == Spec => [](Typed /\ RegistryTypeOK)
PROOF
  <1>1. Init => Named
    <2>1. Init => hadError = FALSE /\ DOMAIN checked = {}
      BY DEF Init
    <2> QED BY <2>1 DEF Named
  <1>2. Typed /\ Named => RegistryTypeOK
    <2> SUFFICES ASSUME Table, Walk, Named PROVE RegistryTypeOK
      BY DEF Typed
    <2>1. \A k \in DOMAIN parsed : parsed[k].kind \in Kinds
      BY DEF Table, Shaped, ShapeOf
    <2>2. \A k \in DOMAIN checked : checked[k].kind \in Kinds \ {"id", "scope"} /\ checked[k].name = k
      BY DEF Walk, CheckedName, Named, Compound, Kinds
    <2>3. written \in 0..MaxTypes /\ counter \in 0..(2 * MaxTypes)
      <3>1. PICK w \in Int, c \in Int : w = written /\ c = counter /\ w \in 0..MaxTypes /\ c \in 0..(2 * w)
        BY DEF Table
      <3> QED BY <3>1, Bounds
    <2>4. \A i \in DOMAIN pending : pending[i] \in DOMAIN parsed
      BY DEF Table
    <2>5. \A i \in DOMAIN frames : frames[i].type \in DOMAIN parsed
      <3>1. frames \in Seq(Frames)
        BY DEF Walk
      <3>2. \A i \in DOMAIN frames : frames[i] \in Frames
        BY <3>1
      <3> QED BY <3>2 DEF Frames
    <2> QED BY <2>1, <2>2, <2>3, <2>4, <2>5 DEF Walk, Named, RegistryTypeOK
  <1> QED BY <1>1, <1>2, TypedInit, TypedStep, NamedStep, PTL DEF Spec

-----------------------------------------------------------------------------
(* Errors.  Until an error is reported, every type that the walk is done   *)
(* with has only parts that mean something: so has a type of the new table *)
(* unless it is a struct whose frame is still there, and so have the parts *)
(* that a frame is done with.  The part that a frame waits for is being    *)
(* looked at by the frame above it, before which nothing is known.         *)
Sound(k) ==
  parsed[k].kind \in Compound =>
    \A i \in 1..Len(parsed[k].parts) : ~Dangling(parsed[k].parts[i])
OnStack(k) == \E i \in 1..Len(frames) : frames[i].type = k
Underway(k) == \E i \in 1..Len(frames) : frames[i].type = k /\ frames[i].next >= 1
PartAt(i) == PartsAt(i)[frames[i].next]
DanglingPart(i) == Dangling(PartAt(i))
SoundTo(i) == \A j \in 1..Len(PartsAt(i)) : j < frames[i].next => ~Dangling(PartsAt(i)[j])
Settled(i) ==
  \/ ~DanglingPart(i)
  \/ i + 1 = Len(frames) /\ result = None /\ Top.next = 0 /\ Top.type = PartAt(i)

Covered == \A k \in DOMAIN parsed \ todo : Sound(k) \/ OnStack(k)
CheckedSound == \A n \in DOMAIN checked \cap DOMAIN parsed : Sound(n) \/ Underway(n)
StackSound ==
  /\ \A i \in 1..Len(frames) : SoundTo(i)
  /\ \A i \in 1..(Len(frames) - 1) : Settled(i)
  /\ result /= None /\ frames /= <<>> => ~DanglingPart(Len(frames))
SoundInv == phase = "types" /\ ~hadError => Covered /\ CheckedSound /\ StackSound

ErrInv ==
  /\ hadError => \E k \in DOMAIN parsed : Dangling(k)
  /\ phase = "rejected" => hadError
  /\ phase \in {"fields", "accepted"} => \A k \in DOMAIN parsed : Sound(k)

LEMMA SoundSame ==
  ASSUME parsed' = parsed
  PROVE  \A k : (Sound(k)' <=> Sound(k)) /\ (Dangling(k)' <=> Dangling(k))
  BY DEF Sound, Dangling

\* Only identifier and scope resolution types can mean nothing.
LEMMA Solid ==
  ASSUME NEW k, parsed[k].kind \in Compound \cup {"prim"}
  PROVE  ~Dangling(k)
  BY DEF Dangling, Compound

LEMMA SoundToMoves ==
  ASSUME parsed' = parsed, NEW i, frames'[i] = frames[i]
  PROVE  /\ SoundTo(i)' <=> SoundTo(i)
         /\ PartAt(i)' = PartAt(i)
         /\ DanglingPart(i)' <=> DanglingPart(i)
  BY DEF SoundTo, DanglingPart, PartAt, PartsAt, Dangling

\* The parts of the frames below the top one are settled when the top one has begun.
LEMMA SettledBelow ==
  ASSUME Table, Walk, StackSound, frames /= <<>>, Top.next >= 1 \/ ~Dangling(Top.type),
         NEW i \in 1..(Len(frames) - 1)
  PROVE  ~DanglingPart(i)
PROOF
  <1>1. Settled(i)
    BY DEF StackSound
  <1>2. Top.next >= 1 => Top.next /= 0
    BY TopOf
  <1> QED BY <1>1, <1>2 DEF Settled, DanglingPart

LEMMA SoundPops ==
  ASSUME Table, Walk, Covered, CheckedSound, StackSound, frames /= <<>>, Popped, Rests,
         \A n \in DOMAIN checked' : n \in DOMAIN checked \/ n = Top.type,
         ~Dangling(Top.type),
         Sound(Top.type) \/ (Top.next = 0 /\ Top.type \in DOMAIN checked)
  PROVE  Covered' /\ CheckedSound' /\ StackSound'
PROOF
  <1>1. PICK d \in Nat : d = Len(frames) /\ d >= 1 /\ Len(frames') = d - 1
    BY TopOf DEF Popped
  <1>2. /\ parsed' = parsed /\ todo' = todo
        /\ \A i \in 1..(d - 1) : i \in 1..Len(frames) /\ frames'[i] = frames[i]
    BY <1>1 DEF Popped, Rests, ParserRests
  <1>3. /\ \A i \in 1..Len(frames) : i \in 1..(d - 1) \/ i = d
        /\ Top = frames[d] /\ Top.type \in DOMAIN parsed
    BY <1>1, TopOf
  <1>4. \A k : Underway(k) => Underway(k)' \/ (k = Top.type /\ Top.next >= 1)
    BY <1>1, <1>2, <1>3 DEF Underway
  <1>5. \A k : OnStack(k) => OnStack(k)' \/ k = Top.type
    BY <1>1, <1>2, <1>3 DEF OnStack
  <1>6. \A k : Underway(k)' => OnStack(k)'
    BY DEF Underway, OnStack
  <1>7. PICK T : T = Top.type
    OBVIOUS
  <1>13. Sound(T) \/ Underway(T)'
    BY <1>3, <1>4, <1>7 DEF CheckedSound
  <1>8. \A k : Sound(k)' <=> Sound(k)
    BY <1>2, SoundSame
  <1>9. Covered'
    BY <1>2, <1>5, <1>6, <1>7, <1>8, <1>13 DEF Covered
  <1>10. CheckedSound'
    BY <1>2, <1>4, <1>7, <1>8, <1>13 DEF CheckedSound
  <1>11. ASSUME NEW i \in 1..(d - 1) PROVE SoundTo(i)' /\ ~DanglingPart(i)'
    <2>1. SoundTo(i) /\ ~DanglingPart(i)
      BY <1>1, <1>2, SettledBelow DEF StackSound
    <2> QED BY <1>2, <2>1, SoundToMoves, SoundSame
  <1>12. StackSound'
    <2>1. \A i \in 1..Len(frames') : SoundTo(i)' /\ ~DanglingPart(i)'
      BY <1>1, <1>11
    <2>2. frames' /= <<>> => Len(frames') \in 1..Len(frames')
      BY <1>1 DEF Popped
    <2>3. \A i \in 1..(Len(frames') - 1) : i \in 1..Len(frames')
      BY <1>1
    <2> QED BY <2>1, <2>2, <2>3 DEF StackSound, Settled
  <1> QED BY <1>9, <1>10, <1>12

LEMMA SoundPuts ==
  ASSUME Table, Walk, Covered, CheckedSound, StackSound, frames /= <<>>, NEW g, Put(g), Rests,
         result' = None,
         \A n \in DOMAIN checked' : n \in DOMAIN checked \/ (n = g.type /\ g.next >= 1),
         Top.next >= 1 \/ ~Dangling(Top.type),
         (g.type = Top.type /\ g.next >= 1) \/ (Sound(Top.type) /\ ~(Top.next >= 1)),
         \A j \in 1..Len(parsed[g.type].parts) : j < g.next => ~Dangling(parsed[g.type].parts[j])
  PROVE  Covered' /\ CheckedSound' /\ StackSound'
PROOF
  <1>1. PICK d \in Nat : d = Len(frames) /\ d >= 1 /\ Len(frames') = d
    BY TopOf DEF Put
  <1>2. /\ parsed' = parsed /\ todo' = todo /\ frames'[d] = g
        /\ \A i \in 1..(d - 1) : i \in 1..Len(frames) /\ frames'[i] = frames[i]
    BY <1>1 DEF Put, Rests, ParserRests
  <1>3. /\ \A i \in 1..Len(frames) : i \in 1..(d - 1) \/ i = d
        /\ Top = frames[d] /\ d \in 1..Len(frames')
    BY <1>1, TopOf
  <1>4. \A k : Underway(k) => Underway(k)' \/ (k = Top.type /\ Top.next >= 1)
    BY <1>1, <1>2, <1>3 DEF Underway
  <1>5. \A k : OnStack(k) => OnStack(k)' \/ k = Top.type
    BY <1>1, <1>2, <1>3 DEF OnStack
  <1>6. g.next >= 1 => Underway(g.type)' /\ OnStack(g.type)'
    BY <1>2, <1>3 DEF Underway, OnStack
  <1>7. \A k : Sound(k)' <=> Sound(k)
    BY <1>2, SoundSame
  <1>8. Covered'
    BY <1>2, <1>5, <1>6, <1>7 DEF Covered
  <1>9. CheckedSound'
    BY <1>2, <1>4, <1>6, <1>7 DEF CheckedSound
  <1>10. ASSUME NEW i \in 1..(d - 1) PROVE SoundTo(i)' /\ ~DanglingPart(i)'
    <2>1. SoundTo(i) /\ ~DanglingPart(i)
      BY <1>1, <1>2, SettledBelow DEF StackSound
    <2> QED BY <1>2, <2>1, SoundToMoves, SoundSame
  <1>11. SoundTo(d)'
    BY <1>2, SoundSame DEF SoundTo, PartsAt
  <1>12. StackSound'
    <2>1. \A i \in 1..Len(frames') : SoundTo(i)'
      <3>1. \A i \in 1..Len(frames') : i \in 1..(d - 1) \/ i = d
        BY <1>1
      <3> QED BY <1>10, <1>11, <3>1
    <2>2. \A i \in 1..(Len(frames') - 1) : ~DanglingPart(i)'
      BY <1>1, <1>10
    <2> QED BY <2>1, <2>2 DEF StackSound, Settled
  <1> QED BY <1>8, <1>9, <1>12

LEMMA SoundPushes ==
  ASSUME Table, Walk, Covered, CheckedSound, StackSound, frames /= <<>>, ParserRests,
         todo' = todo, checked' = checked, result = None, result' = None, Top.next >= 1,
         Pushed(FrameOf(Ty.parts[Top.next], 0, <<>>, FALSE))
  PROVE  Covered' /\ CheckedSound' /\ StackSound'
PROOF
  <1>1. PICK d \in Nat : d = Len(frames) /\ d >= 1 /\ Len(frames') = d + 1
    BY TopOf DEF Pushed
  <1>2. PICK g : g = FrameOf(Ty.parts[Top.next], 0, <<>>, FALSE)
    OBVIOUS
  <1>3. /\ parsed' = parsed /\ frames'[d + 1] = g
        /\ \A i \in 1..d : i \in 1..Len(frames) /\ i \in 1..Len(frames') /\ frames'[i] = frames[i]
    <2>1. \A i \in 1..d : i \in 1..Len(frames) /\ i \in 1..Len(frames')
      BY <1>1
    <2> QED BY <1>1, <1>2, <2>1 DEF Pushed, ParserRests
  <1>4. \A k : (Underway(k) => Underway(k)') /\ (OnStack(k) => OnStack(k)')
    BY <1>1, <1>3 DEF Underway, OnStack
  <1>5. \A k : Sound(k)' <=> Sound(k)
    BY <1>3, SoundSame
  <1>6. Covered' /\ CheckedSound'
    BY <1>3, <1>4, <1>5 DEF Covered, CheckedSound
  <1>7. \A i \in 1..d : SoundTo(i)'
    BY <1>1, <1>3, SoundToMoves DEF StackSound
  <1>8. g.next = 0 /\ g.type = PartAt(d)
    BY <1>1, <1>2, TopOf DEF FrameOf, PartAt, PartsAt
  <1>9. SoundTo(d + 1)'
    BY <1>3, <1>8 DEF SoundTo
  <1>10. \A i \in 1..(d - 1) : ~DanglingPart(i)'
    <2> SUFFICES ASSUME NEW i \in 1..(d - 1) PROVE ~DanglingPart(i)'
      OBVIOUS
    <2>1. ~DanglingPart(i) /\ i \in 1..d
      BY <1>1, SettledBelow
    <2> QED BY <1>3, <2>1, SoundToMoves, SoundSame
  <1>11. Settled(d)'
    <2>1. PartAt(d)' = PartAt(d)
      BY <1>1, <1>3, SoundToMoves
    <2>2. Top' = g
      BY <1>1, <1>3 DEF Top
    <2> QED BY <1>1, <1>8, <2>1, <2>2 DEF Settled
  <1>12. StackSound'
    <2>1. \A i \in 1..Len(frames') : i \in 1..d \/ i = d + 1
      BY <1>1
    <2>2. \A i \in 1..(Len(frames') - 1) : i \in 1..(d - 1) \/ i = d
      BY <1>1
    <2> QED BY <1>7, <1>9, <1>10, <1>11, <2>1, <2>2 DEF StackSound, Settled
  <1> QED BY <1>6, <1>12

\* A step of validateType() that reports no error.
LEMMA SoundTypes ==
  ASSUME Table, Walk, Covered, CheckedSound, StackSound, ValidateType, ~hadError', phase' = "types"
  PROVE  Covered' /\ CheckedSound' /\ StackSound'
PROOF
  <1>1. CASE EnterKnown
    <2>1. /\ frames /= <<>> /\ Top.next = 0 /\ Rests /\ checked' = checked
          /\ Top.type \in DOMAIN checked /\ Ty.kind \in Compound \cup {"prim"}
          /\ Popped /\ Ty = parsed[Top.type]
      BY <1>1, EnterKnownDoes, TopOf
    <2> QED BY <2>1, Solid, SoundPops
  <1>2. CASE EnterPrimitive
    <2>1. /\ frames /= <<>> /\ Rests /\ Ty.kind = "prim" /\ Popped /\ Ty = parsed[Top.type]
          /\ DOMAIN checked' = DOMAIN checked \cup {Top.type}
      BY <1>2, EnterPrimitiveDoes, TopOf DEF CheckedWith
    <2>2. Sound(Top.type)
      BY <2>1 DEF Sound, Compound
    <2> QED BY <2>1, <2>2, Solid, SoundPops
  <1>3. CASE EnterCompound
    <2>1. /\ frames /= <<>> /\ Rests /\ Ty.kind \in Compound /\ result' = None
          /\ Put(FrameOf(Top.type, 1, <<>>, FALSE)) /\ Ty = parsed[Top.type]
          /\ \A n \in DOMAIN checked' : n \in DOMAIN checked \/ n = Top.type
      BY <1>3, EnterCompoundDoes, TopOf DEF CheckedWith
    <2>2. PICK g : g = FrameOf(Top.type, 1, <<>>, FALSE)
      OBVIOUS
    <2>3. g.type = Top.type /\ g.next = 1 /\ g.next >= 1
      BY <2>2 DEF FrameOf
    <2>4. \A j \in 1..Len(parsed[g.type].parts) : ~(j < g.next)
      BY <2>3
    <2> QED BY <2>1, <2>2, <2>3, <2>4, Solid, SoundPuts
  <1>4. CASE EnterIdentifier
    <2>1. /\ frames /= <<>> /\ Rests /\ Ty.kind = "id" /\ Top.next = 0
          /\ checked' = checked /\ result' = None
          /\ Ty.parts \in DOMAIN parsed /\ Put(FrameOf(Ty.parts, 0, <<>>, FALSE))
          /\ Ty = parsed[Top.type]
      BY <1>4, EnterIdentifierDoes, TopOf
    <2>2. ~Dangling(Top.type) /\ Sound(Top.type)
      BY <2>1 DEF Dangling, Sound, Compound
    <2>3. PICK g : g = FrameOf(Ty.parts, 0, <<>>, FALSE)
      OBVIOUS
    <2>4. g.next = 0
      BY <2>3 DEF FrameOf
    <2>5. \A j \in 1..Len(parsed[g.type].parts) : ~(j < g.next)
      BY <2>4
    <2>6. ~(Top.next >= 1)
      BY <2>1
    <2> QED BY <2>1, <2>2, <2>3, <2>5, <2>6, SoundPuts
  <1>5. CASE EnterScoped
    <2>1. /\ frames /= <<>> /\ Rests /\ Ty.kind = "scope" /\ checked' = checked /\ Popped
          /\ Ty.parts[1] \in Imported /\ Ty = parsed[Top.type]
      BY <1>5, EnterScopedDoes, TopOf
    <2>2. ~Dangling(Top.type) /\ Sound(Top.type)
      BY <2>1 DEF Dangling, Sound, Compound
    <2> QED BY <2>1, <2>2, SoundPops
  <1>6. CASE CallPart
    <2>1. /\ frames /= <<>> /\ result = None /\ Top.next \in 1..Len(Ty.parts) /\ ParserRests
          /\ checked' = checked /\ todo' = todo /\ result' = None
          /\ Pushed(FrameOf(Ty.parts[Top.next], 0, <<>>, FALSE))
      BY <1>6, CallPartDoes
    <2>2. Top.next >= 1
      BY <2>1, TopOf
    <2> QED BY <2>1, <2>2, SoundPushes
  <1>7. CASE PartDone
    <2>1. /\ frames /= <<>> /\ result /= None /\ Top.next \in 1..Len(Ty.parts) /\ Rests
          /\ result' = None /\ Ty = parsed[Top.type] /\ Top.next \in Nat /\ Ty.kind \in Compound
          /\ Put(FrameOf(Top.type, Top.next + 1, PartsNow, Top.bad \/ result = Null))
          /\ \A n \in DOMAIN checked' : n \in DOMAIN checked
      BY <1>7, PartDoneDoes, TopOf DEF CheckedWith
    <2>2. PICK g : g = FrameOf(Top.type, Top.next + 1, PartsNow, Top.bad \/ result = Null)
      OBVIOUS
    <2>3. g.type = Top.type /\ g.next = Top.next + 1
      BY <2>2 DEF FrameOf
    <2>4. Top.next >= 1 /\ g.next >= 1
      BY <2>1, <2>3
    <2>5. SoundTo(Len(frames)) /\ ~DanglingPart(Len(frames))
      BY <2>1, TopOf DEF StackSound
    <2>6. PartsAt(Len(frames)) = Ty.parts /\ PartAt(Len(frames)) = Ty.parts[Top.next]
      BY <2>1, TopOf DEF PartsAt, PartAt
    <2>7. ASSUME NEW j \in 1..Len(Ty.parts), j < g.next PROVE ~Dangling(Ty.parts[j])
      <3>1. j < Top.next \/ j = Top.next
        BY <2>1, <2>3, <2>7
      <3>2. CASE j = Top.next
        BY <2>5, <2>6, <3>2 DEF DanglingPart
      <3>3. CASE j < Top.next
        BY <2>1, <2>5, <2>6, <3>3, TopOf DEF SoundTo
      <3> QED BY <3>1, <3>2, <3>3
    <2> QED BY <2>1, <2>2, <2>3, <2>4, <2>7, SoundPuts
  <1>8. CASE CompoundDone
    <2>1. /\ frames /= <<>> /\ Rests /\ Popped /\ Ty.kind \in Compound
          /\ Top.next = Len(Ty.parts) + 1 /\ Ty = parsed[Top.type]
          /\ \A n \in DOMAIN checked' : n \in DOMAIN checked \/ n = Top.type
      BY <1>8, CompoundDoneDoes, TopOf DEF CheckedWith
    <2>2. Sound(Top.type)
      <3>1. SoundTo(Len(frames)) /\ PartsAt(Len(frames)) = Ty.parts
        BY <2>1, TopOf DEF StackSound, PartsAt
      <3>2. \A j \in 1..Len(Ty.parts) : j < Top.next
        BY <2>1
      <3> QED BY <2>1, <3>1, <3>2, TopOf DEF Sound, SoundTo
    <2> QED BY <2>1, <2>2, Solid, SoundPops
  <1> QED BY <1>1, <1>2, <1>3, <1>4, <1>5, <1>6, <1>7, <1>8 DEF ValidateType

LEMMA ValidateTypeErrors ==
  ASSUME Table, Walk, ErrInv, SoundInv, ValidateType
  PROVE  ErrInv' /\ SoundInv'
PROOF
  <1>1. /\ parsed' = parsed /\ (phase' = phase \/ phase' = "overflow")
        /\ hadError => hadError'
        /\ hadError' => hadError \/ \E k \in DOMAIN parsed : Dangling(k)
    <2>1. CASE EnterKnown \/ EnterPrimitive \/ EnterCompound \/ CallPart \/ PartDone \/ CompoundDone
      <3>1. hadError' = hadError /\ parsed' = parsed /\ (phase' = phase \/ phase' = "overflow")
        BY <2>1, EnterKnownDoes, EnterPrimitiveDoes, EnterCompoundDoes, CallPartDoes, PartDoneDoes,
           CompoundDoneDoes DEF Rests, ParserRests
      <3> QED BY <3>1
    <2>2. CASE EnterIdentifier
      <3>1. /\ frames /= <<>> /\ Rests /\ Ty.kind = "id"
            /\ hadError' = hadError \/ (Ty.parts \notin DOMAIN parsed /\ hadError')
            /\ Ty = parsed[Top.type] /\ Top.type \in DOMAIN parsed
        BY <2>2, EnterIdentifierDoes, TopOf
      <3>2. Ty.parts \notin DOMAIN parsed => Dangling(Top.type)
        BY <3>1 DEF Dangling
      <3> QED BY <3>1, <3>2 DEF Rests, ParserRests
    <2>3. CASE EnterScoped
      <3>1. /\ frames /= <<>> /\ Rests /\ Ty.kind = "scope"
            /\ hadError' = (hadError \/ Ty.parts[1] \notin Imported)
            /\ Ty = parsed[Top.type] /\ Top.type \in DOMAIN parsed
        BY <2>3, EnterScopedDoes, TopOf
      <3>2. Ty.parts[1] \notin Imported => Dangling(Top.type)
        BY <3>1 DEF Dangling
      <3> QED BY <3>1, <3>2 DEF Rests, ParserRests
    <2> QED BY <2>1, <2>2, <2>3 DEF ValidateType
  <1>2. ErrInv'
    <2>1. \A k : (Sound(k)' <=> Sound(k)) /\ (Dangling(k)' <=> Dangling(k))
      BY <1>1, SoundSame
    <2> QED BY <1>1, <2>1 DEF ErrInv
  <1>3. SoundInv'
    BY <1>1, SoundTypes DEF SoundInv
  <1> QED BY <1>2, <1>3

LEMMA NoStackSound ==
  ASSUME frames' = <<>>
  PROVE  StackSound'
  BY DEF StackSound

LEMMA EmptyStack ==
  ASSUME frames = <<>>
  PROVE  \A n : ~Underway(n) /\ ~OnStack(n)
  BY DEF Underway, OnStack

LEMMA ValidateModuleErrors ==
  ASSUME Table, Walk, ErrInv, SoundInv, ValidateModule
  PROVE  ErrInv' /\ SoundInv'
PROOF
  <1>1. parsed' = parsed
    BY ValidationLeavesParser
  <1>2. \A k : (Sound(k)' <=> Sound(k)) /\ (Dangling(k)' <=> Dangling(k))
    BY <1>1, SoundSame
  <1>3. CASE BeginTypes
    <2>1. /\ phase = "parse" /\ phase' = "types" /\ todo' = Callees /\ checked' = checked
          /\ frames' = frames /\ result' = result /\ hadError' = hadError
      BY <1>3 DEF BeginTypes
    <2>2. frames' = <<>> /\ DOMAIN checked' = {}
      BY <2>1 DEF Walk, Untouched
    <2>3. \A k \in DOMAIN parsed \ Callees : Sound(k)
      BY DEF Callees, Sound, Compound
    <2>4. Covered' /\ CheckedSound'
      BY <1>1, <1>2, <2>1, <2>2, <2>3 DEF Covered, CheckedSound
    <2>5. StackSound'
      BY <2>2, NoStackSound
    <2> QED BY <1>1, <1>2, <2>1, <2>4, <2>5 DEF ErrInv, SoundInv
  <1>4. CASE CallValidate
    <2>1. PICK k \in todo : todo' = todo \ {k} /\ frames' = <<Frame(k)>>
      BY <1>4 DEF CallValidate
    <2>2. /\ phase' = phase /\ frames = <<>> /\ checked' = checked /\ result' = result
          /\ hadError' = hadError /\ result' = None
      BY <1>4 DEF CallValidate
    <2>3. ErrInv'
      BY <1>1, <1>2, <2>2 DEF ErrInv
    <2>4. Len(frames') = 1 /\ frames'[1].type = k /\ frames'[1].next = 0
      BY <2>1 DEF Frame
    <2>5. \A n : ~Underway(n) /\ ~OnStack(n)
      BY <2>2, EmptyStack
    <2>6. OnStack(k)'
      BY <2>4 DEF OnStack
    <2>7. Covered => Covered'
      BY <1>1, <1>2, <2>1, <2>5, <2>6 DEF Covered
    <2>8. CheckedSound => CheckedSound'
      BY <1>1, <1>2, <2>2, <2>5 DEF CheckedSound
    <2>9. StackSound'
      <3>1. \A i \in 1..Len(frames') : i = 1
        BY <2>4
      <3>2. SoundTo(1)'
        BY <2>4 DEF SoundTo
      <3>3. \A i \in 1..(Len(frames') - 1) : FALSE
        BY <2>4
      <3> QED BY <2>2, <3>1, <3>2, <3>3 DEF StackSound
    <2> QED BY <2>2, <2>3, <2>7, <2>8, <2>9 DEF SoundInv
  <1>5. CASE TypeDone
    <2>1. /\ phase = "types" /\ phase' \in {"types", "validator abort"} /\ frames = <<>>
          /\ frames' = <<>> /\ todo' = todo /\ hadError' = hadError
          /\ \A n \in DOMAIN checked' : n \in DOMAIN checked \/ n \notin DOMAIN parsed
      BY <1>5, TypeDoneDoes, TypeDoneAdds
    <2>2. \A n : ~Underway(n) /\ ~OnStack(n)
      BY <2>1, EmptyStack
    <2>3. ErrInv'
      BY <1>1, <1>2, <2>1 DEF ErrInv
    <2>4. (Covered => Covered') /\ (CheckedSound => CheckedSound')
      BY <1>1, <1>2, <2>1, <2>2 DEF Covered, CheckedSound
    <2>5. StackSound'
      BY <2>1, NoStackSound
    <2> QED BY <2>1, <2>3, <2>4, <2>5 DEF SoundInv
  <1>6. CASE EndTypes
    <2>1. /\ phase = "types" /\ frames = <<>> /\ todo = {} /\ hadError' = hadError
          /\ phase' = (IF hadError THEN "rejected" ELSE "fields")
      BY <1>6 DEF EndTypes
    <2>2. ~hadError => \A k \in DOMAIN parsed : Sound(k)
      BY <2>1 DEF SoundInv, Covered, OnStack
    <2> QED BY <1>1, <1>2, <2>1, <2>2 DEF ErrInv, SoundInv
  <1>7. CASE FieldDone
    <2>1. phase = "fields" /\ phase' \in {"fields", "field abort"} /\ hadError' = hadError
      BY <1>7 DEF FieldDone
    <2> QED BY <1>1, <1>2, <2>1 DEF ErrInv, SoundInv
  <1>8. CASE EndFieldTypes
    <2>1. /\ phase = "fields" /\ hadError' = hadError
          /\ phase' = (IF hadError THEN "rejected" ELSE "accepted")
      BY <1>8 DEF EndFieldTypes, walkVars
    <2> QED BY <1>1, <1>2, <2>1 DEF ErrInv, SoundInv
  <1> QED BY <1>3, <1>4, <1>5, <1>6, <1>7, <1>8 DEF ValidateModule

LEMMA ParseErrors ==
  ASSUME Walk, Parse
  PROVE  ErrInv' /\ SoundInv'
PROOF
  <1>1. phase' \in {"parse", "parser abort"} /\ hadError' = FALSE
    BY ParseDoes DEF Walk, Untouched, walkVars
  <1> QED BY <1>1 DEF ErrInv, SoundInv

LEMMA ErrorsStep == Typed /\ ErrInv /\ SoundInv /\ [Next]_vars => ErrInv' /\ SoundInv'
PROOF
  <1> SUFFICES ASSUME Table, Walk, ErrInv, SoundInv, [Next]_vars PROVE ErrInv' /\ SoundInv'
    BY DEF Typed
  <1>1. CASE UNCHANGED vars
    <2>1. /\ parsed' = parsed /\ checked' = checked /\ todo' = todo /\ frames' = frames
          /\ result' = result /\ hadError' = hadError /\ phase' = phase
      BY <1>1 DEF vars, parseVars, walkVars
    <2>2. \A k : (Sound(k)' <=> Sound(k)) /\ (Dangling(k)' <=> Dangling(k))
      BY <2>1, SoundSame
    <2>3. Top' = Top
      BY <2>1 DEF Top
    <2>4. (Covered => Covered') /\ (CheckedSound => CheckedSound')
      BY <2>1, <2>2 DEF Covered, CheckedSound, OnStack, Underway
    <2>5. \A i : (SoundTo(i)' <=> SoundTo(i)) /\ (DanglingPart(i)' <=> DanglingPart(i)) /\ PartAt(i)' = PartAt(i)
      BY <2>1, SoundToMoves
    <2>6. \A i : Settled(i)' <=> Settled(i)
      BY <2>1, <2>2, <2>3, <2>5 DEF Settled
    <2>7. StackSound => StackSound'
      BY <2>1, <2>2, <2>5, <2>6 DEF StackSound
    <2> QED BY <2>1, <2>2, <2>4, <2>7 DEF ErrInv, SoundInv
  <1> QED BY <1>1, ParseErrors, ValidateTypeErrors, ValidateModuleErrors DEF Next

(* ErrorsAreTrue: validation fails only because an identifier in some type *)
(* names nothing or a module is named that is not imported, and a module   *)
(* it accepts has no such part anywhere -- for any number of types nested  *)
(* in any way, recursive structs included, and in whatever order the hash  *)
(* table is walked.                                                        *)
THEOREM ErrorsTrue == Spec => []ErrorsAreTrue
PROOF
  <1>1. Init => ErrInv /\ SoundInv
    BY DEF Init, ErrInv, SoundInv
  <1>2. Typed /\ ErrInv => ErrorsAreTrue
    <2> SUFFICES ASSUME Table, ErrInv PROVE ErrorsAreTrue
      BY DEF Typed
    <2>1. ASSUME phase = "accepted", NEW k \in Callees, NEW i \in DOMAIN parsed[k].parts,
                 parsed[k].kind /= "scope"
          PROVE  ~Dangling(parsed[k].parts[i])
      <3>1. k \in DOMAIN parsed /\ Sound(k) /\ ShapeOf(k, parsed[k], DOMAIN parsed)
        BY <2>1 DEF ErrInv, Callees, Table, Shaped
      <3>2. parsed[k].kind \in Compound \cup {"prim"}
        BY <2>1, <3>1 DEF ShapeOf, Callees, Kinds, Compound
      <3>3. parsed[k].kind /= "prim"
        BY <2>1, <3>1 DEF ShapeOf
      <3>4. parsed[k].parts \in Seq(DOMAIN parsed)
        BY <3>1, <3>2, <3>3 DEF ShapeOf
      <3>5. i \in 1..Len(parsed[k].parts)
        BY <2>1, <3>4
      <3> QED BY <3>1, <3>2, <3>3, <3>5 DEF Sound
    <2> QED BY <2>1 DEF ErrInv, ErrorsAreTrue
  <1> QED BY <1>1, <1>2, TypedInit, TypedStep, ErrorsStep, PTL DEF Spec

-----------------------------------------------------------------------------
(* The names of identifier types are no identifiers, and no module has the *)
(* name of a struct.  Where that fails, two types meet under one name (the *)
(* runs TypeTwice and TypeNameClash), and nothing below is claimed.        *)
NamesApart ==
  /\ Modules \cap Idents = {}
  /\ \A p \in (Idents \cup Modules) \X Numbers : \A x \in Idents \cup Modules : Spell[p] /= <<x>>

\* A struct type is made of the fields of its object; a pointer is named for what it points to.
PointsTo(k, t, w) ==
  \/ <<w>> \in DOMAIN parsed /\ t.parts = <<<<w>>>> /\ parsed[<<w>>].kind \in {"prim", "struct"}
  \/ \E j \in DOMAIN parsed : t.parts = <<j>> /\ parsed[j].kind = "id" /\ parsed[j].parts = <<w>>
ShortPointer(k) ==
  parsed[k].kind = "ptr" /\ Len(k) = 2 =>
    \E w \in Words : k = <<"&", w>> /\ PointsTo(k, parsed[k], w)
StructType(i) ==
  /\ parsed[<<structs[i].name>>].kind = "struct"
  /\ parsed[<<structs[i].name>>].parts = structs[i].fields
Declarations ==
  NamesApart =>
    /\ \A i \in 1..Len(structs) : StructType(i)
    /\ \A k \in DOMAIN parsed :
         parsed[k].kind = "struct" => \E i \in 1..Len(structs) : k = <<structs[i].name>>
    /\ \A k \in DOMAIN parsed : ShortPointer(k)

\* The type at the bottom of the stack is one that the walk has taken from the table.
Bottom ==
  phase = "types" =>
    /\ \A k \in todo : parsed[k].kind /= "id"
    /\ frames /= <<>> => frames[1].type \notin todo /\ KindAt(1) /= "id"
    /\ frames = <<>> /\ result \notin {None, Null} =>
         \E k \in DOMAIN parsed \ todo : parsed[k].kind /= "id" /\ result = Meaning(k)
AtBottom(k) ==
  \/ frames /= <<>> /\ frames[1].type = k
  \/ frames = <<>> /\ result = Ref(Here, k)

\* The pointer types that generateTypeVariants() invents.
NoScopes == \A k \in DOMAIN parsed : parsed[k].kind /= "scope"
Variants ==
  /\ \A w \in Words : <<"&", w>> \in DOMAIN checked \ DOMAIN parsed =>
       \E r \in Refs : checked[<<"&", w>>].parts = <<r>> /\ r.name = <<w>>
  /\ phase = "types" /\ NoScopes =>
       \A w \in Words : <<"&", w>> \in DOMAIN checked \ DOMAIN parsed =>
         <<w>> \in DOMAIN parsed \ todo /\ ~AtBottom(<<w>>)
  /\ phase = "validator abort" => ~NoScopes

(* Where nothing is missing and no error was reported, no part is bad.     *)
Clean == NamesApart /\ NothingMissing /\ ~hadError
Done(k) ==
  /\ parsed[k].kind \in Compound \cup {"prim"} => k \in DOMAIN checked
  /\ parsed[k].kind = "scope" =>
       parsed[k].parts[1] \in Imported /\ parsed[k].parts[2] \in Exports[parsed[k].parts[1]]
MeaningsTo(k, n) == [j \in 1..(n - 1) |-> Meaning(parsed[k].parts[j])]
Whole(k) == checked[k].parts = MeaningsTo(k, Len(parsed[k].parts) + 1)
Kept(i) == /\ ~frames[i].bad
           /\ frames[i].next >= 1 => frames[i].parts = MeaningsTo(frames[i].type, frames[i].next)
Built(n) ==
  \/ /\ parsed[n].kind = "struct"
     /\ \E i \in 1..Len(frames) :
          frames[i].type = n /\ frames[i].next >= 1 /\ checked[n].parts = frames[i].parts
  \/ Whole(n)
HasPointer(k) == parsed[k].kind \in {"prim", "struct"} => Ptr(k) \in DOMAIN checked \cup DOMAIN parsed

LooksAt(i) ==
  frames[i + 1].type = PartAt(i) \/ Meaning(frames[i + 1].type) = Meaning(PartAt(i))

Building ==
  /\ result /= Null
  /\ \A k \in DOMAIN parsed \ todo : Done(k) \/ OnStack(k)
  /\ \A i \in 1..(Len(frames) - 1) : LooksAt(i)
  /\ result /= None /\ frames /= <<>> => result = Meaning(PartAt(Len(frames)))
  /\ \A i \in 1..Len(frames) : Kept(i)
  /\ \A n \in DOMAIN checked \cap DOMAIN parsed : Built(n)
  /\ \A k \in DOMAIN parsed \ todo : HasPointer(k) \/ AtBottom(k)

\* What the walk over the fields finds.
FieldType(k) ==
  parsed[k].kind = "id" => parsed[k].parts \in DOMAIN parsed /\ parsed[parsed[k].parts].kind /= "id"
Complete ==
  /\ \A k \in DOMAIN parsed : Done(k) /\ HasPointer(k)
  /\ \A n \in DOMAIN checked \cap DOMAIN parsed : Whole(n)
Finding ==
  /\ result /= Null /\ ~hadError
  /\ \A k \in todo : FieldType(k)
  /\ Len(frames) <= 1
  /\ frames /= <<>> => frames[1].next = 0 /\ FieldType(frames[1].type)

Mirrors ==
  /\ phase = "types" /\ Clean => Building
  /\ phase = "fields" /\ NamesApart /\ NothingMissing => Complete /\ Finding
  /\ phase = "accepted" /\ NamesApart /\ NothingMissing => Complete
  /\ phase = "field abort" /\ NamesApart => ~NothingMissing

-----------------------------------------------------------------------------
(* What the parser registers, where names stay apart.                      *)
Grew == \A n \in DOMAIN parsed : n \in DOMAIN parsed' /\ parsed'[n] = parsed[n]

LEMMA AddedGrows ==
  ASSUME NEW e, parsed' = Added(parsed, e)
  PROVE  /\ Grew
         /\ \A k \in DOMAIN parsed' : k \in DOMAIN parsed \/ (k \in DOMAIN e /\ parsed'[k] = e[k])
  BY DEF Added, Grew

LEMMA PointersGrow ==
  ASSUME Grew, NEW k \in DOMAIN parsed, ShortPointer(k)
  PROVE  ShortPointer(k)'
PROOF
  <1>1. parsed'[k] = parsed[k]
    BY DEF Grew
  <1>2. \A w : PointsTo(k, parsed[k], w) => PointsTo(k, parsed[k], w)'
    BY DEF PointsTo, Grew
  <1> QED BY <1>1, <1>2 DEF ShortPointer

LEMMA LongPointer ==
  ASSUME NEW m, NEW x
  PROVE  Len(Ptr(Scoped(m, x))) = 4
PROOF
  <1>1. PICK a, c, S : a = "&" /\ c = "::" /\ S = {a, m, c, x}
    OBVIOUS
  <1>2. <<a>> \in Seq(S) /\ Len(<<a>>) = 1
    BY <1>1
  <1>3. <<m, c, x>> \in Seq(S) /\ Len(<<m, c, x>>) = 3
    BY <1>1
  <1>4. PICK u \in Seq(S), v \in Seq(S) : u = <<a>> /\ v = <<m, c, x>>
    BY <1>2, <1>3
  <1>5. Len(u \o v) = Len(u) + Len(v)
    BY <1>4, ConcatProperties
  <1> QED BY <1>1, <1>2, <1>3, <1>4, <1>5 DEF Ptr, Scoped

LEMMA BaseKinds ==
  ASSUME NEW f \in Forms, NEW k \in DOMAIN BaseTypes(f)
  PROVE  BaseTypes(f)[k].kind \in {"id", "scope"}
PROOF
  <1>1. ASSUME NEW x, NEW n, NEW j \in DOMAIN IdType(x, n) PROVE IdType(x, n)[j].kind = "id"
    BY <1>1 DEF IdType, Entry, Type
  <1>2. \A j \in DOMAIN ScopeType(f) : ScopeType(f)[j].kind = "scope"
    BY DEF ScopeType, Entry, Type
  <1>3. CASE f.module /= Here
    <2>1. PICK a, b, c : /\ a = IdType(f.module, counter) /\ b = ScopeType(f)
                         /\ c = IdType(f.ident, counter + 1)
      OBVIOUS
    <2>2. /\ \A j \in DOMAIN a : a[j].kind = "id"
          /\ \A j \in DOMAIN b : b[j].kind = "scope"
          /\ \A j \in DOMAIN c : c[j].kind = "id"
      BY <1>1, <1>2, <2>1
    <2>3. PICK u : u = Added(a, b)
      OBVIOUS
    <2>4. \A j \in DOMAIN u : u[j].kind \in {"id", "scope"}
      BY <2>2, <2>3 DEF Added
    <2>5. \A j \in DOMAIN Added(u, c) : Added(u, c)[j].kind \in {"id", "scope"}
      BY <2>2, <2>4 DEF Added
    <2> QED BY <1>3, <2>1, <2>3, <2>5 DEF BaseTypes
  <1>4. CASE f.module = Here
    BY <1>1, <1>4 DEF BaseTypes
  <1> QED BY <1>3, <1>4

\* The type that a pointer of one word is made of.
LEMMA FormPointsTo ==
  ASSUME Table, NEW f \in Forms, ParseType(f), f.pointer,
         Free(DOMAIN TypesOf(f)), parsed' = Added(parsed, TypesOf(f)),
         NEW k, k = PointerName(f), Len(k) = 2, NEW t, t = PointerType(f)[k]
  PROVE  \E w \in Words : k = <<"&", w>> /\ PointsTo(k, t, w)'
PROOF
  <1>1. f.module = Here
    <2> SUFFICES ASSUME f.module /= Here PROVE FALSE
      OBVIOUS
    <2>1. PointerName(f) = Ptr(Scoped(f.module, f.ident))
      BY DEF PointerName
    <2>2. Len(PointerName(f)) = 4
      BY <2>1, LongPointer
    <2> QED BY <2>2
  <1>2. f.ident \in Words /\ PointerName(f) = <<"&", f.ident>>
    BY <1>1, WordsAssumption, PointerOfWord DEF Forms, Words, PointerName
  <1>3. PICK w, b : w = f.ident /\ b = BaseKey(f)
    OBVIOUS
  <1>4. t.parts = <<b>>
    BY <1>3 DEF PointerType, Entry, Type
  <1>5. Grew
    BY AddedGrows
  <1>6. CASE f.ident \in Prims
    <2>1. b = <<f.ident>>
      BY <1>1, <1>3, <1>6 DEF BaseKey
    <2>2. b \in DOMAIN parsed /\ parsed[b].kind = "prim"
      BY <1>6, <2>1 DEF Table, HasPrims
    <2>3. b \in DOMAIN parsed' /\ parsed'[b].kind = "prim"
      BY <1>5, <2>2 DEF Grew
    <2>4. PointsTo(k, t, w)'
      BY <1>3, <1>4, <2>1, <2>3 DEF PointsTo
    <2> QED BY <1>2, <1>3, <2>4
  <1>7. CASE f.ident \notin Prims
    <2>1. b = Spell[<<f.ident, counter>>] /\ BaseTypes(f) = IdType(f.ident, counter)
      BY <1>1, <1>3, <1>7 DEF BaseKey, BaseTypes
    <2>2. PICK u : u = BaseTypes(f)
      OBVIOUS
    <2>3. b \in DOMAIN u /\ u[b].kind = "id" /\ u[b].parts = <<f.ident>>
      BY <2>1, <2>2 DEF IdType, Entry, Type
    <2>4. TypesOf(f) = Added(u, PointerType(f))
      BY <2>2 DEF TypesOf
    <2>5. b \in DOMAIN TypesOf(f) /\ TypesOf(f)[b] = u[b]
      BY <2>3, <2>4 DEF Added
    <2>6. b \notin DOMAIN parsed
      BY <2>5 DEF Free
    <2>7. b \in DOMAIN parsed' /\ parsed'[b] = u[b]
      BY <2>5, <2>6 DEF Added
    <2>8. PointsTo(k, t, w)'
      BY <1>3, <1>4, <2>3, <2>7 DEF PointsTo
    <2> QED BY <1>2, <1>3, <2>8
  <1> QED BY <1>6, <1>7

LEMMA SameDeclarations ==
  ASSUME parsed' = parsed, structs' = structs, Declarations
  PROVE  Declarations'
PROOF
  <1>1. \A i : StructType(i)' <=> StructType(i)
    BY DEF StructType
  <1>2. \A k, t, w : PointsTo(k, t, w)' <=> PointsTo(k, t, w)
    BY DEF PointsTo
  <1>3. \A k : ShortPointer(k)' <=> ShortPointer(k)
    BY <1>2 DEF ShortPointer
  <1> QED BY <1>1, <1>3 DEF Declarations

LEMMA ParseTypeDeclares ==
  ASSUME Table, NEW f \in Forms, ParseType(f), NamesApart, Declarations
  PROVE  Declarations'
PROOF
  <1>1. structs' = structs /\ NamesApart'
    BY DEF ParseType, NamesApart, Numbers, Modules
  <1>2. CASE parsed' = parsed
    BY <1>1, <1>2, SameDeclarations
  <1>3. CASE Free(DOMAIN TypesOf(f)) /\ parsed' = Added(parsed, TypesOf(f))
    <2>1. /\ Grew
          /\ \A k \in DOMAIN parsed' :
               k \in DOMAIN parsed \/ (k \in DOMAIN TypesOf(f) /\ parsed'[k] = TypesOf(f)[k])
      BY <1>3, AddedGrows
    <2>2. ASSUME NEW k \in DOMAIN parsed', k \notin DOMAIN parsed
          PROVE  \/ parsed'[k].kind \in {"id", "scope"}
                 \/ f.pointer /\ k = PointerName(f) /\ parsed'[k] = PointerType(f)[k] /\ parsed'[k].kind = "ptr"
      <3>1. PICK u : u = BaseTypes(f) /\ \A j \in DOMAIN u : u[j].kind \in {"id", "scope"}
        BY BaseKinds
      <3>2. CASE f.pointer
        <4>1. PICK v : v = PointerType(f)
          OBVIOUS
        <4>2. \A j \in DOMAIN v : j = PointerName(f) /\ v[j].kind = "ptr"
          BY <4>1 DEF PointerType, Entry, Type
        <4>3. TypesOf(f) = Added(u, v)
          BY <3>1, <3>2, <4>1 DEF TypesOf
        <4>4. k \in DOMAIN u \/ k \in DOMAIN v
          BY <2>1, <2>2, <4>3 DEF Added
        <4>5. parsed'[k] = (IF k \in DOMAIN u THEN u[k] ELSE v[k])
          BY <2>1, <2>2, <4>3 DEF Added
        <4> QED BY <3>1, <3>2, <4>1, <4>2, <4>4, <4>5
      <3>3. CASE ~f.pointer
        <4>1. TypesOf(f) = u
          BY <3>1, <3>3 DEF TypesOf
        <4> QED BY <2>1, <2>2, <3>1, <4>1
      <3> QED BY <3>2, <3>3
    <2>3. ASSUME NEW k \in DOMAIN parsed' PROVE ShortPointer(k)'
      <3>1. CASE k \in DOMAIN parsed
        BY <2>1, <3>1, PointersGrow DEF Declarations
      <3>2. CASE k \notin DOMAIN parsed
        <4> SUFFICES ASSUME parsed'[k].kind = "ptr", Len(k) = 2
                     PROVE  \E w \in Words : k = <<"&", w>> /\ PointsTo(k, parsed[k], w)'
          BY DEF ShortPointer
        <4>1. f.pointer /\ k = PointerName(f) /\ parsed'[k] = PointerType(f)[k]
          BY <2>2, <2>3, <3>2
        <4>2. PICK t : t = parsed'[k] /\ t = PointerType(f)[k]
          BY <4>1
        <4>3. PICK w \in Words : k = <<"&", w>> /\ PointsTo(k, t, w)'
          BY <1>3, <4>1, <4>2, FormPointsTo
        <4> QED BY <4>2, <4>3 DEF PointsTo
      <3> QED BY <3>1, <3>2
    <2>4. \A i \in 1..Len(structs) : StructType(i)'
      BY <1>1, <2>1 DEF Declarations, StructType, Table, Grew
    <2>5. \A k \in DOMAIN parsed' :
            parsed'[k].kind = "struct" => \E i \in 1..Len(structs) : k = <<structs[i].name>>
      BY <2>1, <2>2 DEF Declarations, Grew
    <2> QED BY <1>1, <2>3, <2>4, <2>5 DEF Declarations
  <1> QED BY <1>2, <1>3 DEF ParseType

\* Under NamesApart only a struct of that name can have the name of a struct.
LEMMA StructNameFree ==
  ASSUME Table, NamesApart, Declarations, NEW s \in Idents,
         \A i \in DOMAIN structs : structs[i].name /= s
  PROVE  <<s>> \notin DOMAIN parsed
PROOF
  <1> SUFFICES ASSUME <<s>> \in DOMAIN parsed PROVE FALSE
    OBVIOUS
  <1>1. PICK k, t : k = <<s>> /\ t = parsed[k] /\ k[1] = s
    OBVIOUS
  <1>2. ShapeOf(k, t, DOMAIN parsed)
    BY <1>1 DEF Table, Shaped
  <1>3. t.kind /= "scope" /\ t.kind /= "prim"
    <2>1. \A m : k = <<m>> => m = s
      BY <1>1
    <2> QED BY <1>2, <2>1, PrimsAssumption DEF ShapeOf, NamesApart
  <1>4. t.kind /= "ptr" /\ t.kind /= "fn"
    BY <1>1, <1>2, WordsAssumption DEF ShapeOf
  <1>5. t.kind /= "id"
    BY <1>1, <1>2 DEF ShapeOf, NamesApart
  <1>6. t.kind /= "struct"
    <2> SUFFICES ASSUME t.kind = "struct" PROVE FALSE
      OBVIOUS
    <2>1. PICK i \in 1..Len(structs) : k = <<structs[i].name>>
      BY <1>1 DEF Declarations
    <2>2. structs[i].name = s /\ i \in DOMAIN structs
      BY <1>1, <2>1 DEF Table
    <2> QED BY <2>2
  <1> QED BY <1>2, <1>3, <1>4, <1>5, <1>6 DEF ShapeOf, Kinds

LEMMA EndFieldsDeclares ==
  ASSUME Table, NEW s \in Idents, EndFields(s), NamesApart, Declarations
  PROVE  Declarations'
PROOF
  <1>1. <<s>> \notin DOMAIN parsed
    BY StructNameFree DEF EndFields
  <1>2. PICK o, t : o = [name |-> s, fields |-> pending] /\ t = Type("struct", <<s>>, pending)
    OBVIOUS
  <1>3. structs' = Append(structs, o) /\ parsed' = Added(parsed, Entry(<<s>>, t))
    BY <1>1, <1>2 DEF EndFields
  <1>4. o.name = s /\ o.fields = pending /\ t.kind = "struct" /\ t.parts = pending
    BY <1>2 DEF Type
  <1>5. /\ Grew /\ <<s>> \in DOMAIN parsed' /\ parsed'[<<s>>] = t
        /\ \A k \in DOMAIN parsed' : k \in DOMAIN parsed \/ k = <<s>>
    BY <1>1, <1>3 DEF Grew, Added, Entry
  <1>6. PICK d \in Nat : /\ d = Len(structs) /\ Len(structs') = d + 1 /\ structs'[d + 1] = o
                         /\ \A i \in 1..d : structs'[i] = structs[i]
    BY <1>3 DEF Table
  <1>7. \A i \in 1..Len(structs') : StructType(i)'
    <2>1. \A i \in 1..d : StructType(i)'
      BY <1>5, <1>6 DEF Declarations, StructType, Table, Grew
    <2>2. StructType(d + 1)'
      BY <1>4, <1>5, <1>6 DEF StructType
    <2>3. \A i \in 1..Len(structs') : i \in 1..d \/ i = d + 1
      BY <1>6
    <2> QED BY <2>1, <2>2, <2>3
  <1>8. ASSUME NEW k \in DOMAIN parsed', parsed'[k].kind = "struct"
        PROVE  \E i \in 1..Len(structs') : k = <<structs'[i].name>>
    <2>1. CASE k = <<s>>
      <3>1. d + 1 \in 1..Len(structs')
        BY <1>6
      <3> QED BY <1>4, <1>6, <2>1, <3>1
    <2>2. CASE k \in DOMAIN parsed
      <3>1. PICK i \in 1..Len(structs) : k = <<structs[i].name>>
        BY <1>5, <1>8, <2>2 DEF Declarations, Grew
      <3>2. i \in 1..Len(structs') /\ structs'[i] = structs[i]
        BY <1>6
      <3> QED BY <3>1, <3>2
    <2> QED BY <1>5, <1>8, <2>1, <2>2
  <1>9. ASSUME NEW k \in DOMAIN parsed' PROVE ShortPointer(k)'
    <2>1. CASE k \in DOMAIN parsed
      BY <1>5, <2>1, PointersGrow DEF Declarations
    <2>2. CASE k = <<s>>
      BY <1>4, <1>5, <2>2 DEF ShortPointer
    <2> QED BY <1>5, <2>1, <2>2
  <1> QED BY <1>7, <1>8, <1>9 DEF Declarations

\* Steps that add one type that is no struct, or nothing.
LEMMA OneTypeDeclares ==
  ASSUME Table, NamesApart, Declarations, structs' = structs, NEW k, NEW t,
         parsed' = parsed \/ (k \notin DOMAIN parsed /\ parsed' = Added(parsed, Entry(k, t))),
         \/ t.kind = "fn"
         \/ /\ t.kind = "ptr"
            /\ \E w \in Words : /\ k = <<"&", w>> /\ <<w>> \in DOMAIN parsed /\ t.parts = <<<<w>>>>
                                /\ parsed[<<w>>].kind \in {"prim", "struct"}
  PROVE  Declarations'
PROOF
  <1>1. CASE parsed' = parsed
    BY <1>1, SameDeclarations
  <1>2. CASE k \notin DOMAIN parsed /\ parsed' = Added(parsed, Entry(k, t))
    <2>1. /\ Grew /\ k \in DOMAIN parsed' /\ parsed'[k] = t
          /\ \A n \in DOMAIN parsed' : n \in DOMAIN parsed \/ n = k
      BY <1>2 DEF Grew, Added, Entry
    <2>2. \A i \in 1..Len(structs) : StructType(i)'
      BY <2>1 DEF Declarations, StructType, Table, Grew
    <2>3. \A n \in DOMAIN parsed' :
            parsed'[n].kind = "struct" => \E i \in 1..Len(structs) : n = <<structs[i].name>>
      BY <2>1 DEF Declarations, Grew
    <2>4. ShortPointer(k)'
      <3>1. ASSUME NEW w, <<w>> \in DOMAIN parsed, t.parts = <<<<w>>>>,
                   parsed[<<w>>].kind \in {"prim", "struct"}
            PROVE  PointsTo(k, t, w)'
        BY <2>1, <3>1 DEF PointsTo, Grew
      <3> QED BY <2>1, <3>1 DEF ShortPointer, PointsTo
    <2>5. ASSUME NEW n \in DOMAIN parsed' PROVE ShortPointer(n)'
      BY <2>1, <2>4, <2>5, PointersGrow DEF Declarations
    <2> QED BY <2>2, <2>3, <2>5 DEF Declarations
  <1> QED BY <1>1, <1>2

LEMMA DeclarationsStep == Typed /\ Declarations /\ [Next]_vars => Declarations'
PROOF
  <1> SUFFICES ASSUME Table, Declarations, [Next]_vars, NamesApart PROVE Declarations'
    BY DEF Typed, Declarations
  <1>1. CASE parsed' = parsed /\ structs' = structs
    BY <1>1, SameDeclarations
  <1>2. CASE Parse
    <2>1. CASE \E f \in Forms : ParseType(f)
      BY <2>1, ParseTypeDeclares
    <2>2. CASE \E s \in Idents : EndFields(s)
      BY <2>2, EndFieldsDeclares
    <2>3. CASE ParseThis
      <3>1. PICK w, k, t : w = structs[Len(structs)].name /\ k = Ptr(<<w>>) /\ t = Type("ptr", k, <<<<w>>>>)
        OBVIOUS
      <3>2. Len(structs) \in 1..Len(structs) /\ w \in Idents
        <4>1. structs \in Seq(StructObjects(DOMAIN parsed)) /\ structs /= <<>>
          BY <2>3 DEF Table, ParseThis
        <4>2. Len(structs) \in 1..Len(structs)
          BY <4>1
        <4>3. structs[Len(structs)] \in StructObjects(DOMAIN parsed)
          BY <4>1, <4>2
        <4> QED BY <3>1, <4>2, <4>3 DEF StructObjects
      <3>3. <<w>> \in DOMAIN parsed /\ parsed[<<w>>].kind = "struct"
        BY <3>1, <3>2 DEF Table, Declarations, StructType
      <3>4. k = <<"&", w>> /\ t.kind = "ptr" /\ t.parts = <<<<w>>>> /\ w \in Words
        BY <3>1, <3>2, PointerOfWord DEF Type, Words
      <3>5. structs' = structs /\ parsed' = (IF k \in DOMAIN parsed THEN parsed ELSE Added(parsed, Entry(k, t)))
        BY <2>3, <3>1 DEF ParseThis
      <3> QED BY <3>3, <3>4, <3>5, OneTypeDeclares
    <2>4. CASE EndFunction \/ ParseFunctionType
      <3>1. PICK k, t : k = FunctionName /\ t = Type("fn", k, Append(pending, <<"void">>))
        OBVIOUS
      <3>2. structs' = structs /\ parsed' = (IF k \in DOMAIN parsed THEN parsed ELSE Added(parsed, Entry(k, t)))
        BY <2>4, <3>1 DEF EndFunction, ParseFunctionType, MakeFunctionType
      <3>3. t.kind = "fn"
        BY <3>1 DEF Type
      <3> QED BY <3>2, <3>3, OneTypeDeclares
    <2>5. CASE EndVariable
      BY <1>1, <2>5 DEF EndVariable
    <2> QED BY <1>2, <2>1, <2>2, <2>3, <2>4, <2>5 DEF Parse
  <1>3. CASE ValidateType \/ ValidateModule
    BY <1>1, <1>3, ValidationLeavesParser DEF parseVars
  <1>4. CASE UNCHANGED vars
    BY <1>1, <1>4 DEF vars, parseVars
  <1> QED BY <1>2, <1>3, <1>4 DEF Next

LEMMA DeclarationsInit == Init => Declarations
PROOF
  <1> SUFFICES ASSUME Init PROVE Declarations
    OBVIOUS
  <1>1. Len(structs) = 0 /\ \A k \in DOMAIN parsed : parsed[k].kind = "prim"
    BY DEF Init, Type
  <1> QED BY <1>1 DEF Declarations, ShortPointer

-----------------------------------------------------------------------------
(* How validateType()'s steps move the stack.                              *)
LEMMA MeaningOf ==
  ASSUME NEW k, parsed[k].kind /= "id"
  PROVE  Meaning(k) = IF parsed[k].kind = "scope"
                      THEN Ref(parsed[k].parts[1], <<parsed[k].parts[2]>>) ELSE Ref(Here, k)
  BY DEF Meaning, Target

LEMMA MeaningSame ==
  ASSUME parsed' = parsed
  PROVE  \A k : Meaning(k)' = Meaning(k)
  BY DEF Meaning, Target

Answers ==
  /\ Popped /\ Rests
  /\ result' = Null \/ (result' = Meaning(Top.type) /\ Ty.kind /= "id")
Looks == Ty.kind = "id" /\ Rests /\ result' = None /\ \E k : Put(FrameOf(k, 0, <<>>, FALSE))
Works == Rests /\ result' = None /\ \E g : g.type = Top.type /\ Put(g)
Calls == ParserRests /\ todo' = todo /\ phase' = phase /\ result' = None /\ \E g : Pushed(g)

LEMMA FourWays ==
  ASSUME Table, Walk, ValidateType
  PROVE  frames /= <<>> /\ (Answers \/ Looks \/ Works \/ Calls \/ phase' = "overflow")
PROOF
  <1>1. CASE EnterKnown
    <2>1. /\ frames /= <<>> /\ Popped /\ Rests /\ result' = Ref(Here, Top.type)
          /\ Ty.kind \in Compound \cup {"prim"} /\ Ty = parsed[Top.type]
      BY <1>1, EnterKnownDoes, TopOf
    <2>2. Ty.kind /= "id" /\ Ty.kind /= "scope"
      BY <2>1 DEF Compound
    <2> QED BY <2>1, <2>2, MeaningOf DEF Answers
  <1>2. CASE EnterPrimitive
    <2>1. /\ frames /= <<>> /\ Popped /\ Rests /\ result' = Ref(Here, Top.type)
          /\ Ty.kind = "prim" /\ Ty = parsed[Top.type]
      BY <1>2, EnterPrimitiveDoes, TopOf
    <2> QED BY <2>1, MeaningOf DEF Answers
  <1>3. CASE EnterCompound
    <2>1. frames /= <<>> /\ Rests /\ result' = None /\ Put(FrameOf(Top.type, 1, <<>>, FALSE))
      BY <1>3, EnterCompoundDoes
    <2>2. FrameOf(Top.type, 1, <<>>, FALSE).type = Top.type
      BY DEF FrameOf
    <2> QED BY <2>1, <2>2 DEF Works
  <1>4. CASE EnterIdentifier
    BY <1>4, EnterIdentifierDoes DEF Looks, Answers
  <1>5. CASE EnterScoped
    <2>1. /\ frames /= <<>> /\ Popped /\ Rests /\ Ty.kind = "scope" /\ Ty = parsed[Top.type]
      BY <1>5, EnterScopedDoes, TopOf
    <2>2. PICK m \in Modules, x \in Idents :
            Ty.parts = <<m, x>> /\ (result' = Ref(m, <<x>>) \/ result' = Null)
      BY <1>5, EnterScopedDoes
    <2>3. Ty.parts[1] = m /\ Ty.parts[2] = x
      BY <2>2
    <2>4. Meaning(Top.type) = Ref(m, <<x>>)
      BY <2>1, <2>3, MeaningOf
    <2> QED BY <2>1, <2>2, <2>4 DEF Answers
  <1>6. CASE CallPart
    BY <1>6, CallPartDoes DEF Calls
  <1>7. CASE PartDone
    <2>1. PICK g : g = FrameOf(Top.type, Top.next + 1, PartsNow, Top.bad \/ result = Null)
      OBVIOUS
    <2>2. frames /= <<>> /\ Rests /\ result' = None /\ Put(g)
      BY <1>7, <2>1, PartDoneDoes
    <2>3. g.type = Top.type
      BY <2>1 DEF FrameOf
    <2> QED BY <2>2, <2>3 DEF Works
  <1>8. CASE CompoundDone
    <2>1. /\ frames /= <<>> /\ Popped /\ Rests /\ (result' = Null \/ result' = Ref(Here, Top.type))
          /\ Ty.kind \in Compound /\ Ty = parsed[Top.type]
      BY <1>8, CompoundDoneDoes, TopOf
    <2>2. Ty.kind /= "id" /\ Ty.kind /= "scope"
      BY <2>1 DEF Compound
    <2> QED BY <2>1, <2>2, MeaningOf DEF Answers
  <1> QED BY <1>1, <1>2, <1>3, <1>4, <1>5, <1>6, <1>7, <1>8 DEF ValidateType

\* The stack keeps its bottom, until that type is answered.
LEMMA BottomMoves ==
  ASSUME Table, Walk, ValidateType, phase' = "types", Bottom
  PROVE  /\ frames /= <<>> /\ parsed' = parsed /\ todo' = todo /\ phase = "types"
         /\ \/ frames' /= <<>> /\ frames'[1].type = frames[1].type
            \/ /\ frames' = <<>>
               /\ result' = Null \/ (result' = Meaning(frames[1].type) /\ frames[1].type \in DOMAIN parsed)
PROOF
  <1>1. frames /= <<>> /\ (Answers \/ Looks \/ Works \/ Calls)
    BY FourWays
  <1>2. PICK d \in Nat : /\ d = Len(frames) /\ d >= 1 /\ Top = frames[d]
                         /\ Ty = parsed[Top.type] /\ Top.type \in DOMAIN parsed
    BY <1>1, TopOf
  <1>3. parsed' = parsed /\ todo' = todo /\ phase = "types"
    BY <1>1 DEF Answers, Looks, Works, Calls, Rests, ParserRests
  <1>4. KindAt(1) /= "id"
    BY <1>1, <1>3 DEF Bottom
  <1>5. CASE Answers
    <2>1. frames' \in Seq(Frames) /\ Len(frames') = d - 1 /\ \A i \in 1..(d - 1) : frames'[i] = frames[i]
      BY <1>2, <1>5 DEF Answers, Popped
    <2>2. CASE d = 1
      <3>1. frames' = <<>>
        BY <2>1, <2>2
      <3> QED BY <1>1, <1>2, <1>3, <1>5, <2>2, <3>1 DEF Answers
    <2>3. CASE d > 1
      <3>1. 1 \in 1..(d - 1) /\ Len(frames') > 0
        BY <1>2, <2>1, <2>3
      <3>2. frames' /= <<>>
        BY <3>1
      <3> QED BY <1>1, <1>3, <2>1, <3>1, <3>2
    <2> QED BY <1>2, <2>2, <2>3
  <1>6. CASE Looks \/ Works
    <2>1. PICK g : (Ty.kind = "id" \/ g.type = Top.type) /\ Put(g)
      BY <1>6 DEF Looks, Works
    <2>2. /\ frames' \in Seq(Frames) /\ Len(frames') = d /\ frames'[d] = g
          /\ \A i \in 1..(d - 1) : frames'[i] = frames[i]
      BY <1>2, <2>1 DEF Put
    <2>3. frames' /= <<>>
      BY <1>2, <2>2
    <2>4. CASE d = 1
      <3>1. g.type = Top.type
        BY <1>2, <1>4, <2>1, <2>4 DEF KindAt
      <3> QED BY <1>1, <1>2, <1>3, <2>2, <2>3, <2>4, <3>1
    <2>5. CASE d > 1
      <3>1. 1 \in 1..(d - 1)
        BY <1>2, <2>5
      <3> QED BY <1>1, <1>3, <2>2, <2>3, <3>1
    <2> QED BY <1>2, <2>4, <2>5
  <1>7. CASE Calls
    <2>1. frames' \in Seq(Frames) /\ Len(frames') = d + 1 /\ \A i \in 1..d : frames'[i] = frames[i]
      BY <1>2, <1>7 DEF Calls, Pushed
    <2>2. 1 \in 1..d /\ Len(frames') > 0
      BY <1>2, <2>1
    <2>3. frames' /= <<>>
      BY <2>2
    <2> QED BY <1>1, <1>3, <2>1, <2>2, <2>3
  <1> QED BY <1>1, <1>5, <1>6, <1>7

LEMMA BottomInit == Init => Bottom
  BY DEF Init, Bottom

LEMMA BottomStep == Typed /\ Bottom /\ [Next]_vars => Bottom'
PROOF
  <1> SUFFICES ASSUME Table, Walk, Bottom, [Next]_vars, phase' = "types" PROVE Bottom'
    BY DEF Typed, Bottom
  <1>1. parsed' = parsed => \A k : Meaning(k)' = Meaning(k)
    BY MeaningSame
  <1>2. CASE Parse
    BY <1>2, ParseDoes
  <1>3. CASE ValidateType
    <2>1. /\ frames /= <<>> /\ parsed' = parsed /\ todo' = todo /\ phase = "types"
          /\ \/ frames' /= <<>> /\ frames'[1].type = frames[1].type
             \/ /\ frames' = <<>>
                /\ result' = Null \/ (result' = Meaning(frames[1].type) /\ frames[1].type \in DOMAIN parsed)
      BY <1>3, BottomMoves
    <2>2. /\ frames[1].type \notin todo /\ parsed[frames[1].type].kind /= "id"
          /\ \A k \in todo : parsed[k].kind /= "id"
      BY <2>1 DEF Bottom, KindAt
    <2>3. CASE frames' /= <<>> /\ frames'[1].type = frames[1].type
      BY <2>1, <2>2, <2>3 DEF Bottom, KindAt
    <2>4. CASE frames' = <<>>
      <3>1. result' = Null \/ \E k \in DOMAIN parsed \ todo : parsed[k].kind /= "id" /\ result' = Meaning(k)
        BY <2>1, <2>2, <2>4
      <3> QED BY <1>1, <2>1, <2>2, <2>4, <3>1 DEF Bottom
    <2> QED BY <2>1, <2>3, <2>4
  <1>4. CASE BeginTypes
    <2>1. /\ parsed' = parsed /\ todo' = Callees /\ frames' = frames /\ result' = result
          /\ phase = "parse"
      BY <1>4, ValidationLeavesParser DEF BeginTypes, ValidateModule
    <2>2. frames' = <<>> /\ result' = None
      BY <2>1 DEF Walk, Untouched
    <2> QED BY <2>1, <2>2 DEF Bottom, Callees
  <1>5. CASE CallValidate
    <2>1. PICK k \in todo : todo' = todo \ {k} /\ frames' = <<Frame(k)>>
      BY <1>5 DEF CallValidate
    <2>2. parsed' = parsed /\ phase = "types"
      BY <1>5, ValidationLeavesParser DEF CallValidate, ValidateModule
    <2>3. frames' /= <<>> /\ frames'[1].type = k
      BY <2>1 DEF Frame
    <2>4. \A n \in todo : parsed[n].kind /= "id"
      BY <2>2 DEF Bottom
    <2> QED BY <2>1, <2>2, <2>3, <2>4 DEF Bottom, KindAt
  <1>6. CASE TypeDone
    <2>1. parsed' = parsed /\ frames' = <<>> /\ result' = None /\ phase = "types" /\ todo' = todo
      BY <1>6, TypeDoneDoes DEF ParserRests
    <2> QED BY <2>1 DEF Bottom
  <1>7. CASE EndTypes \/ FieldDone \/ EndFieldTypes
    BY <1>7 DEF EndTypes, FieldDone, EndFieldTypes
  <1>8. CASE UNCHANGED vars
    BY <1>1, <1>8 DEF vars, parseVars, walkVars, Bottom, KindAt
  <1> QED BY <1>2, <1>3, <1>4, <1>5, <1>6, <1>7, <1>8 DEF Next, ValidateModule

\* validateType() only adds types under names of the parser's table.
LEMMA GeneratedRemain ==
  ASSUME Table, Walk, ValidateType
  PROVE  \A n \in DOMAIN checked' \ DOMAIN parsed : n \in DOMAIN checked /\ checked'[n] = checked[n]
PROOF
  <1>1. \/ checked' = checked
        \/ frames /= <<>> /\ \E t : CheckedWith(Top.type, t)
    BY EnterKnownDoes, EnterPrimitiveDoes, EnterCompoundDoes, EnterIdentifierDoes, EnterScopedDoes,
       CallPartDoes, PartDoneDoes, CompoundDoneDoes DEF ValidateType
  <1>2. CASE checked' = checked
    BY <1>2
  <1>3. CASE frames /= <<>> /\ \E t : CheckedWith(Top.type, t)
    <2>1. Top.type \in DOMAIN parsed
      BY <1>3, TopOf
    <2> QED BY <1>3, <2>1 DEF CheckedWith
  <1> QED BY <1>1, <1>2, <1>3

LEMMA VariantsInit == Init => Variants
PROOF
  <1>1. Init => DOMAIN checked = {}
    BY DEF Init
  <1> QED BY <1>1 DEF Init, Variants

FirstVariants ==
  \A w \in Words : <<"&", w>> \in DOMAIN checked \ DOMAIN parsed =>
    \E r \in Refs : checked[<<"&", w>>].parts = <<r>> /\ r.name = <<w>>
PairedOnce ==
  \A w \in Words : <<"&", w>> \in DOMAIN checked \ DOMAIN parsed =>
    <<w>> \in DOMAIN parsed \ todo /\ ~AtBottom(<<w>>)

LEMMA VariantsAre ==
  Variants <=> /\ FirstVariants
               /\ phase = "types" /\ NoScopes => PairedOnce
               /\ phase = "validator abort" => ~NoScopes
  BY DEF Variants, FirstVariants, PairedOnce

LEMMA SameRefs ==
  ASSUME parsed' = parsed
  PROVE  Refs' = Refs /\ (NoScopes' <=> NoScopes)
  BY DEF Refs, NoScopes

LEMMA ValidateTypeVariants ==
  ASSUME Table, Walk, Bottom, Variants, ValidateType
  PROVE  Variants'
PROOF
  <1>1. parsed' = parsed /\ (phase' = phase \/ phase' = "overflow")
    BY FourWays, ValidationLeavesParser DEF Answers, Looks, Works, Calls, Rests
  <1>2. phase \in {"types", "fields"}
    BY StackInUse, FourWays DEF ValidateType, EnterKnown, EnterPrimitive, EnterCompound,
       EnterIdentifier, EnterScoped, CallPart, PartDone, CompoundDone, Entering, Walking
  <1>3. \A n \in DOMAIN checked' \ DOMAIN parsed : n \in DOMAIN checked /\ checked'[n] = checked[n]
    BY GeneratedRemain
  <1>4. FirstVariants'
    BY <1>1, <1>3, VariantsAre, SameRefs DEF FirstVariants
  <1>5. ASSUME phase' = "types", NoScopes PROVE PairedOnce'
    <2>1. /\ frames /= <<>> /\ todo' = todo /\ phase = "types"
          /\ \/ frames' /= <<>> /\ frames'[1].type = frames[1].type
             \/ /\ frames' = <<>>
                /\ result' = Null \/ (result' = Meaning(frames[1].type) /\ frames[1].type \in DOMAIN parsed)
      BY <1>5, BottomMoves
    <2>2. parsed[frames[1].type].kind /= "id"
      BY <2>1 DEF Bottom, KindAt
    <2>3. result' = Meaning(frames[1].type) /\ frames[1].type \in DOMAIN parsed
            => result' = Ref(Here, frames[1].type)
      BY <1>5, <2>2, MeaningOf DEF NoScopes
    <2>4. \A k : AtBottom(k)' => AtBottom(k)
      <3>1. \A k : Ref(Here, k) /= Null
        BY DEF Ref, Null, Here
      <3>2. \A k, n : Ref(Here, k) = Ref(Here, n) => k = n
        BY DEF Ref
      <3> QED BY <2>1, <2>3, <3>1, <3>2 DEF AtBottom
    <2>5. PairedOnce
      BY <1>5, <2>1, VariantsAre
    <2> QED BY <1>1, <1>3, <2>1, <2>4, <2>5 DEF PairedOnce
  <1>6. phase' /= "validator abort"
    BY <1>1, <1>2
  <1> QED BY <1>1, <1>4, <1>5, <1>6, VariantsAre, SameRefs DEF Variants, FirstVariants, PairedOnce

LEMMA TypeDoneVariants ==
  ASSUME Table, Walk, Bottom, Variants, TypeDone
  PROVE  Variants'
PROOF
  <1>1. /\ ParserRests /\ phase = "types" /\ frames = <<>> /\ frames' = <<>>
        /\ result /= None /\ result' = None /\ todo' = todo
    BY TypeDoneDoes
  <1>2. parsed' = parsed
    BY <1>1 DEF ParserRests
  <1>3. ASSUME NoScopes, NEW w, result.name = <<w>>, result /= Null
        PROVE  <<w>> \in DOMAIN parsed \ todo /\ AtBottom(<<w>>)
    <2>1. PICK k \in DOMAIN parsed \ todo : parsed[k].kind /= "id" /\ result = Meaning(k)
      BY <1>1, <1>3 DEF Bottom
    <2>2. result = Ref(Here, k)
      BY <1>3, <2>1, MeaningOf DEF NoScopes
    <2>3. k = <<w>>
      BY <1>3, <2>2 DEF Ref
    <2> QED BY <1>1, <2>1, <2>2, <2>3 DEF AtBottom
  <1>4. \A k : ~AtBottom(k)'
    <2>1. \A k : Ref(Here, k) /= None
      BY DEF Ref, None, Here
    <2> QED BY <1>1, <2>1 DEF AtBottom
  <1>5. CASE checked' = checked /\ phase' = phase
    <2>1. FirstVariants' /\ (NoScopes => PairedOnce')
      BY <1>1, <1>2, <1>4, <1>5, VariantsAre, SameRefs DEF FirstVariants, PairedOnce
    <2> QED BY <1>1, <1>2, <1>5, <2>1, SameRefs DEF Variants, FirstVariants, PairedOnce
  <1>6. CASE /\ checked' = checked /\ phase' = "validator abort"
             /\ \E w \in Words : result.name = <<w>>
             /\ result /= Null /\ Ptr(result.name) \in DOMAIN checked \ DOMAIN parsed
    <2>1. PICK w \in Words : result.name = <<w>>
      BY <1>6
    <2>2. <<"&", w>> \in DOMAIN checked \ DOMAIN parsed
      BY <1>6, <2>1, PointerOfWord
    <2>3. ~NoScopes
      BY <1>1, <1>3, <1>6, <2>1, <2>2, VariantsAre DEF PairedOnce
    <2>4. FirstVariants'
      BY <1>2, <1>6, VariantsAre, SameRefs DEF FirstVariants
    <2> QED BY <1>2, <1>6, <2>3, <2>4, SameRefs DEF Variants, FirstVariants
  <1>7. CASE \E w \in Words :
               /\ result.name = <<w>> /\ Ptr(result.name) = <<"&", w>> /\ result /= Null
               /\ CheckedWith(Ptr(result.name), Type("ptr", Ptr(result.name), <<result>>))
               /\ phase' = phase
    <2>7. PICK w \in Words :
                 /\ result.name = <<w>> /\ Ptr(result.name) = <<"&", w>> /\ result /= Null
                 /\ CheckedWith(Ptr(result.name), Type("ptr", Ptr(result.name), <<result>>))
                 /\ phase' = phase
      BY <1>7
    <2>8. PICK p, t : p = <<"&", w>> /\ t = Type("ptr", p, <<result>>)
      OBVIOUS
    <2>1. /\ result.name = <<w>> /\ p = <<"&", w>> /\ result /= Null
          /\ CheckedWith(p, t) /\ t = Type("ptr", p, <<result>>) /\ phase' = phase
      BY <2>7, <2>8
    <2>2. /\ DOMAIN checked' = DOMAIN checked \cup {p} /\ checked'[p].parts = <<result>>
          /\ \A n \in DOMAIN checked : n /= p => checked'[n] = checked[n]
      BY <2>1 DEF CheckedWith, Type
    <2>3. result \in Refs
      BY <1>1, <2>1, ResultIsRef
    <2>4. \A v : <<"&", v>> = p => v = w
      BY <2>1
    <2>5. FirstVariants'
      <3> SUFFICES ASSUME NEW v \in Words, NEW q, q = <<"&", v>>, q \in DOMAIN checked' \ DOMAIN parsed
                   PROVE  \E r \in Refs : checked'[q].parts = <<r>> /\ r.name = <<v>>
        BY <1>2, SameRefs DEF FirstVariants
      <3>1. CASE q = p
        BY <2>1, <2>2, <2>3, <2>4, <3>1
      <3>2. CASE q /= p
        <4>1. q \in DOMAIN checked \ DOMAIN parsed /\ checked'[q] = checked[q]
          BY <2>2, <3>2
        <4> QED BY <4>1, VariantsAre DEF FirstVariants
      <3> QED BY <3>1, <3>2
    <2>6. NoScopes => PairedOnce'
      <3> SUFFICES ASSUME NoScopes, NEW v \in Words, <<"&", v>> \in DOMAIN checked' \ DOMAIN parsed
                   PROVE  <<v>> \in DOMAIN parsed \ todo
        BY <1>1, <1>2, <1>4 DEF PairedOnce
      <3>1. CASE v = w
        BY <1>3, <2>1, <3>1
      <3>2. CASE v /= w
        <4>1. <<"&", v>> \in DOMAIN checked \ DOMAIN parsed
          BY <2>2, <2>4, <3>2
        <4> QED BY <1>1, <4>1, VariantsAre DEF PairedOnce
      <3> QED BY <3>1, <3>2
    <2> QED BY <1>1, <1>2, <2>1, <2>5, <2>6, SameRefs DEF Variants, FirstVariants, PairedOnce
  <1> QED BY <1>5, <1>6, <1>7, TypeDoneDoes

LEMMA VariantsStep == Typed /\ Bottom /\ Variants /\ [Next]_vars => Variants'
PROOF
  <1> SUFFICES ASSUME Table, Walk, Bottom, Variants, [Next]_vars PROVE Variants'
    BY DEF Typed
  <1>1. CASE Parse
    <2>1. phase' \in {"parse", "parser abort"} /\ DOMAIN checked' = {}
      BY <1>1, ParseDoes DEF Walk, Untouched, walkVars
    <2> QED BY <2>1 DEF Variants
  <1>2. CASE ValidateType
    BY <1>2, ValidateTypeVariants
  <1>3. CASE TypeDone
    BY <1>3, TypeDoneVariants
  <1>4. CASE BeginTypes
    <2>1. DOMAIN checked' = {} /\ phase' = "types"
      BY <1>4 DEF BeginTypes, Walk, Untouched
    <2> QED BY <2>1 DEF Variants
  <1>5. CASE CallValidate
    <2>1. PICK k \in todo : todo' = todo \ {k} /\ frames' = <<Frame(k)>>
      BY <1>5 DEF CallValidate
    <2>2. parsed' = parsed /\ checked' = checked /\ phase' = phase /\ phase \in {"types", "fields"}
      BY <1>5, ValidationLeavesParser DEF CallValidate, ValidateModule
    <2>3. \A n : AtBottom(n)' => n = k
      BY <2>1 DEF AtBottom, Frame
    <2>4. PairedOnce => PairedOnce'
      BY <2>1, <2>2, <2>3 DEF PairedOnce
    <2>5. FirstVariants'
      BY <2>2, VariantsAre, SameRefs DEF FirstVariants
    <2> QED BY <2>2, <2>4, <2>5, VariantsAre, SameRefs DEF Variants, FirstVariants, PairedOnce
  <1>6. CASE EndTypes \/ FieldDone \/ EndFieldTypes
    <2>1. parsed' = parsed /\ checked' = checked /\ phase' \notin {"types", "validator abort"}
      BY <1>6, ValidationLeavesParser DEF EndTypes, FieldDone, EndFieldTypes, ValidateModule, walkVars
    <2>2. FirstVariants'
      BY <2>1, VariantsAre, SameRefs DEF FirstVariants
    <2> QED BY <2>1, <2>2 DEF Variants, FirstVariants
  <1>7. CASE UNCHANGED vars
    <2>1. /\ parsed' = parsed /\ checked' = checked /\ todo' = todo /\ frames' = frames
          /\ result' = result /\ phase' = phase
      BY <1>7 DEF vars, parseVars, walkVars
    <2>2. (FirstVariants' <=> FirstVariants) /\ (PairedOnce' <=> PairedOnce)
      BY <2>1, SameRefs DEF FirstVariants, PairedOnce, AtBottom
    <2> QED BY <2>1, <2>2, VariantsAre, SameRefs DEF Variants, FirstVariants, PairedOnce
  <1> QED BY <1>1, <1>2, <1>3, <1>4, <1>5, <1>6, <1>7 DEF Next, ValidateModule

-----------------------------------------------------------------------------
(* The new table mirrors the parser's.                                     *)
LEMMA MeaningsNone ==
  ASSUME NEW k
  PROVE  MeaningsTo(k, 1) = <<>>
  BY DEF MeaningsTo

LEMMA MeaningsMore ==
  ASSUME NEW k, NEW n \in Nat, n >= 1, NEW S, NEW p \in Seq(S), p = MeaningsTo(k, n),
         NEW r \in S, r = Meaning(parsed[k].parts[n])
  PROVE  Append(p, r) = MeaningsTo(k, n + 1)
PROOF
  <1>1. PICK m \in Nat : m = n - 1 /\ m + 1 = n
    OBVIOUS
  <1>2. p = [j \in 1..m |-> Meaning(parsed[k].parts[j])]
    BY <1>1 DEF MeaningsTo
  <1>3. Len(p) = m
    BY <1>1, <1>2
  <1>4. PICK q : q = Append(p, r)
    OBVIOUS
  <1>5. q \in Seq(S) /\ Len(q) = n /\ q[n] = r /\ \A j \in 1..m : q[j] = p[j]
    BY <1>1, <1>3, <1>4
  <1>6. \A j \in 1..n : q[j] = Meaning(parsed[k].parts[j])
    <2>1. \A j \in 1..n : j \in 1..m \/ j = n
      BY <1>1
    <2> QED BY <1>2, <1>5, <2>1
  <1>7. q = [j \in 1..n |-> Meaning(parsed[k].parts[j])]
    <2>1. q = [j \in 1..n |-> q[j]]
      BY <1>5
    <2> QED BY <1>6, <2>1
  <1>8. (n + 1) - 1 = n
    OBVIOUS
  <1> QED BY <1>4, <1>7, <1>8 DEF MeaningsTo

LEMMA TargetIsNoId ==
  ASSUME Table, NamesApart, NEW k \in DOMAIN parsed, parsed[k].kind = "id",
         parsed[k].parts \in DOMAIN parsed
  PROVE  parsed[parsed[k].parts].kind /= "id"
PROOF
  <1>1. PICK x \in Idents \cup Modules : parsed[k].parts = <<x>>
    BY DEF Table, Shaped, ShapeOf
  <1>2. PICK n : n = <<x>>
    OBVIOUS
  <1>3. ShapeOf(n, parsed[n], DOMAIN parsed)
    BY <1>1, <1>2 DEF Table, Shaped
  <1> QED BY <1>1, <1>2, <1>3 DEF ShapeOf, NamesApart

LEMMA SameTable ==
  ASSUME parsed' = parsed
  PROVE  /\ \A k, n : MeaningsTo(k, n)' = MeaningsTo(k, n)
         /\ \A i : frames'[i] = frames[i] => /\ Kept(i)' <=> Kept(i)
                                             /\ PartAt(i)' = PartAt(i) /\ KindAt(i)' = KindAt(i)
         /\ NothingMissing' <=> NothingMissing
PROOF
  <1>1. \A k : Meaning(k)' = Meaning(k)
    BY MeaningSame
  <1>2. \A k, n : MeaningsTo(k, n)' = MeaningsTo(k, n)
    BY <1>1 DEF MeaningsTo
  <1>3. \A i : frames'[i] = frames[i] => (Kept(i)' <=> Kept(i))
    BY <1>2 DEF Kept
  <1>4. \A i : frames'[i] = frames[i] => PartAt(i)' = PartAt(i) /\ KindAt(i)' = KindAt(i)
    BY DEF PartAt, PartsAt, KindAt
  <1>5. NothingMissing' <=> NothingMissing
    BY DEF NothingMissing, Missing
  <1> QED BY <1>2, <1>3, <1>4, <1>5

\* More types in the new table, the others as they were.
Adds(n) ==
  /\ DOMAIN checked \subseteq DOMAIN checked'
  /\ \A m \in DOMAIN checked' : m /= n => m \in DOMAIN checked /\ checked'[m] = checked[m]

LEMMA MoreDone ==
  ASSUME parsed' = parsed, DOMAIN checked \subseteq DOMAIN checked'
  PROVE  \A k : (Done(k) => Done(k)') /\ (HasPointer(k) => HasPointer(k)')
  BY DEF Done, HasPointer

LEMMA BuildPops ==
  ASSUME Table, Walk, Building, frames /= <<>>, Popped, Rests, NEW T, T = Top.type, Adds(T),
         result' /= Null, result' = Meaning(T), Ty.kind /= "id", Done(T)',
         \/ Whole(T)'
         \/ T \notin DOMAIN checked'
         \/ /\ checked' = checked
            /\ Top.next >= 1 => Top.parts = MeaningsTo(T, Len(Ty.parts) + 1)
  PROVE  Building'
PROOF
  <1>1. PICK d \in Nat : d = Len(frames) /\ d >= 1 /\ Len(frames') = d - 1
    BY TopOf DEF Popped
  <1>2. /\ parsed' = parsed /\ todo' = todo /\ Top = frames[d] /\ Ty = parsed[Top.type]
        /\ \A i \in 1..(d - 1) : i \in 1..Len(frames) /\ i \in 1..Len(frames') /\ frames'[i] = frames[i]
        /\ \A i \in 1..Len(frames) : i \in 1..(d - 1) \/ i = d
        /\ \A i \in 1..Len(frames') : i \in 1..(d - 1)
    BY <1>1, TopOf DEF Popped, Rests, ParserRests
  <1>3. DOMAIN checked \subseteq DOMAIN checked'
    BY DEF Adds
  <1>4. \A k : Meaning(k)' = Meaning(k)
    BY <1>2, MeaningSame
  <1>5. T = Top.type
    OBVIOUS
  <1>6. ASSUME NEW k \in DOMAIN parsed \ todo PROVE Done(k)' \/ OnStack(k)'
    <2>1. CASE Done(k)
      BY <1>2, <1>3, <2>1, MoreDone
    <2>2. CASE OnStack(k)
      <3>1. OnStack(k)' \/ k = T
        BY <1>2, <1>5, <2>2 DEF OnStack
      <3> QED BY <1>5, <3>1
    <2> QED BY <2>1, <2>2 DEF Building
  <1>7. \A i \in 1..(Len(frames') - 1) : LooksAt(i)'
    <2> SUFFICES ASSUME NEW i \in 1..(Len(frames') - 1) PROVE LooksAt(i)'
      OBVIOUS
    <2>1. i \in 1..(Len(frames) - 1) /\ i \in 1..(d - 1) /\ i + 1 \in 1..(d - 1)
      BY <1>1
    <2>2. LooksAt(i) /\ frames'[i + 1] = frames[i + 1]
      BY <1>2, <2>1 DEF Building
    <2>3. PartAt(i)' = PartAt(i)
      BY <1>2, <2>1, SameTable
    <2>4. Meaning(PartAt(i))' = Meaning(PartAt(i)) /\ Meaning(frames[i + 1].type)' = Meaning(frames[i + 1].type)
      BY <1>2, <2>2, <2>3 DEF Meaning, Target
    <2> QED BY <2>2, <2>3, <2>4 DEF LooksAt
  <1>8. frames' /= <<>> => result' = Meaning(PartAt(Len(frames)))'
    <2> SUFFICES ASSUME frames' /= <<>> PROVE result' = Meaning(PartAt(Len(frames)))'
      OBVIOUS
    <2>1. PICK c \in Nat : c = d - 1 /\ c >= 1 /\ c + 1 = d /\ Len(frames') = c
      BY <1>1 DEF Popped
    <2>2. c \in 1..(Len(frames) - 1) /\ c \in 1..(d - 1)
      BY <1>1, <2>1
    <2>3. LooksAt(c) /\ frames'[c] = frames[c]
      BY <1>2, <2>2 DEF Building
    <2>4. Meaning(Top.type) = Meaning(PartAt(c))
      BY <1>2, <2>1, <2>3 DEF LooksAt
    <2>5. PartAt(c)' = PartAt(c)
      BY <1>2, <2>3, SameTable
    <2>6. PICK p : p = PartAt(c)
      OBVIOUS
    <2>7. PartAt(Len(frames))' = p /\ Meaning(p)' = Meaning(p)
      BY <1>4, <2>1, <2>5, <2>6
    <2>8. Meaning(PartAt(Len(frames)))' = Meaning(p)'
      BY <2>7 DEF Meaning, Target
    <2> QED BY <2>4, <2>6, <2>7, <2>8
  <1>9. \A i \in 1..Len(frames') : Kept(i)'
    BY <1>2, SameTable DEF Building
  <1>10. ASSUME NEW n \in DOMAIN checked' \cap DOMAIN parsed PROVE Built(n)'
    <2>1. \A j : Whole(n) /\ checked'[n] = checked[n] => Whole(n)'
      BY <1>2, SameTable DEF Whole
    <2>2. CASE n /= T
      <3>1. n \in DOMAIN checked \cap DOMAIN parsed /\ checked'[n] = checked[n]
        BY <1>5, <1>10, <2>2 DEF Adds
      <3>2. Built(n)
        BY <3>1 DEF Building
      <3> QED BY <1>2, <1>5, <2>1, <2>2, <3>1, <3>2 DEF Built
    <2>3. CASE n = T
      <3>1. CASE Whole(T)'
        BY <2>3, <3>1 DEF Built
      <3>2. CASE /\ checked' = checked
                 /\ Top.next >= 1 => Top.parts = MeaningsTo(T, Len(Ty.parts) + 1)
        <4>1. Built(n)
          BY <1>10, <3>2 DEF Building
        <4>2. CASE Whole(n)
          BY <2>1, <3>2, <4>2 DEF Built
        <4>3. CASE parsed[n].kind = "struct" /\
                   \E i \in 1..Len(frames) :
                     frames[i].type = n /\ frames[i].next >= 1 /\ checked[n].parts = frames[i].parts
          <5>1. PICK i \in 1..Len(frames) :
                  frames[i].type = n /\ frames[i].next >= 1 /\ checked[n].parts = frames[i].parts
            BY <4>3
          <5>2. CASE i = d
            <6>1. Whole(n)
              BY <1>2, <1>5, <2>3, <3>2, <5>1, <5>2 DEF Whole
            <6> QED BY <2>1, <3>2, <6>1 DEF Built
          <5>3. CASE i \in 1..(d - 1)
            BY <1>2, <3>2, <4>3, <5>1, <5>3 DEF Built
          <5> QED BY <1>2, <5>2, <5>3
        <4> QED BY <4>1, <4>2, <4>3 DEF Built
      <3> QED BY <1>5, <1>10, <2>3, <3>1, <3>2
    <2> QED BY <2>2, <2>3
  <1>12. ASSUME NEW k \in DOMAIN parsed \ todo PROVE HasPointer(k)' \/ AtBottom(k)'
    <2>1. CASE HasPointer(k)
      BY <1>2, <1>3, <2>1, MoreDone
    <2>2. CASE ~HasPointer(k)
      <3>1. frames[1].type = k /\ parsed[k].kind \in {"prim", "struct"}
        BY <1>12, <2>2 DEF Building, AtBottom, HasPointer
      <3>2. CASE d = 1
        <4>1. frames' = <<>>
          BY <1>1, <3>2 DEF Popped
        <4>2. result' = Ref(Here, k)
          BY <1>2, <3>1, <3>2, MeaningOf
        <4> QED BY <4>1, <4>2 DEF AtBottom
      <3>3. CASE d > 1
        <4>1. 1 \in 1..(d - 1) /\ Len(frames') > 0
          BY <1>1, <3>3
        <4>2. frames' /= <<>> /\ frames'[1] = frames[1]
          BY <1>2, <4>1
        <4> QED BY <3>1, <4>2 DEF AtBottom
      <3> QED BY <1>1, <3>2, <3>3
    <2> QED BY <2>1, <2>2
  <1> QED BY <1>2, <1>6, <1>7, <1>8, <1>9, <1>10, <1>12 DEF Building

LEMMA LooksSame ==
  ASSUME parsed' = parsed, NEW i, frames'[i] = frames[i], LooksAt(i),
         \/ frames'[i + 1].type = frames[i + 1].type
         \/ Meaning(frames'[i + 1].type) = Meaning(frames[i + 1].type)
  PROVE  LooksAt(i)'
PROOF
  <1>1. PICK p, q, r : p = PartAt(i) /\ q = frames[i + 1].type /\ r = frames'[i + 1].type
    OBVIOUS
  <1>2. PartAt(i)' = p
    BY <1>1, SameTable
  <1>3. Meaning(p)' = Meaning(p) /\ Meaning(r)' = Meaning(r)
    BY MeaningSame
  <1>4. Meaning(PartAt(i))' = Meaning(p)' /\ Meaning(frames[i + 1].type)' = Meaning(r)'
    BY <1>1, <1>2 DEF Meaning, Target
  <1>5. q = p \/ Meaning(q) = Meaning(p)
    BY <1>1 DEF LooksAt
  <1>6. r = p \/ Meaning(r) = Meaning(p)
    BY <1>1, <1>5
  <1>7. r = PartAt(i)' \/ Meaning(frames[i + 1].type)' = Meaning(PartAt(i))'
    BY <1>2, <1>3, <1>4, <1>6
  <1> QED BY <1>1, <1>7 DEF LooksAt

LEMMA WholeSame ==
  ASSUME parsed' = parsed, NEW n, checked'[n] = checked[n], Whole(n)
  PROVE  Whole(n)'
  BY SameTable DEF Whole

LEMMA BuildPuts ==
  ASSUME Table, Walk, Building, frames /= <<>>, NEW g, Put(g), Rests, result' = None,
         NEW T, T = Top.type,
         \/ g.type = T
         \/ Ty.kind = "id" /\ Meaning(g.type) = Meaning(T),
         ~g.bad, g.next >= 1 => g.parts = MeaningsTo(g.type, g.next),
         \/ checked' = checked /\ (Top.next = 0 \/ Ty.kind /= "struct")
         \/ Ty.kind = "struct" /\ g.type = T /\ g.next >= 1 /\ \E t : CheckedWith(T, t) /\ t.parts = g.parts
  PROVE  Building'
PROOF
  <1>1. PICK d \in Nat : d = Len(frames) /\ d >= 1 /\ Len(frames') = d
    BY TopOf DEF Put
  <1>2. /\ parsed' = parsed /\ todo' = todo /\ Top = frames[d] /\ Ty = parsed[T]
        /\ \A i \in 1..(d - 1) : i \in 1..Len(frames) /\ i \in 1..Len(frames') /\ frames'[i] = frames[i]
        /\ \A i \in 1..Len(frames) : i \in 1..(d - 1) \/ i = d
        /\ \A i \in 1..Len(frames') : i \in 1..(d - 1) \/ i = d
        /\ frames'[d] = g /\ d \in 1..Len(frames')
    BY <1>1, TopOf DEF Put, Rests, ParserRests
  <1>3. DOMAIN checked \subseteq DOMAIN checked'
    BY DEF CheckedWith
  <1>4. ASSUME NEW k \in DOMAIN parsed \ todo PROVE Done(k)' \/ OnStack(k)'
    <2>1. CASE Done(k)
      BY <1>2, <1>3, <2>1, MoreDone
    <2>2. CASE OnStack(k)
      <3>1. CASE \E i \in 1..(d - 1) : frames[i].type = k
        BY <1>2, <3>1 DEF OnStack
      <3>2. CASE k = T /\ g.type = T
        BY <1>2, <3>2 DEF OnStack
      <3>3. CASE k = T /\ Ty.kind = "id"
        BY <1>2, <3>3 DEF Done, Compound
      <3> QED BY <1>2, <2>2, <3>1, <3>2, <3>3 DEF OnStack
    <2> QED BY <2>1, <2>2 DEF Building
  <1>5. \A i \in 1..(Len(frames') - 1) : LooksAt(i)'
    <2> SUFFICES ASSUME NEW i \in 1..(Len(frames') - 1) PROVE LooksAt(i)'
      OBVIOUS
    <2>1. i \in 1..(Len(frames) - 1) /\ i \in 1..(d - 1) /\ (i + 1 \in 1..(d - 1) \/ i + 1 = d)
      BY <1>1
    <2>2. LooksAt(i) /\ frames'[i] = frames[i]
      BY <1>2, <2>1 DEF Building
    <2>3. CASE i + 1 \in 1..(d - 1)
      <3>1. frames'[i + 1].type = frames[i + 1].type
        BY <1>2, <2>3
      <3> QED BY <1>2, <2>2, <3>1, LooksSame
    <2>4. CASE i + 1 = d
      <3>1. \/ frames'[i + 1].type = frames[i + 1].type
            \/ Meaning(frames'[i + 1].type) = Meaning(frames[i + 1].type)
        BY <1>2, <2>4
      <3> QED BY <1>2, <2>2, <3>1, LooksSame
    <2> QED BY <2>1, <2>3, <2>4
  <1>6. \A i \in 1..Len(frames') : Kept(i)'
    <2>1. \A i \in 1..(d - 1) : Kept(i)'
      BY <1>2, SameTable DEF Building
    <2>2. Kept(d)'
      BY <1>2, SameTable DEF Kept
    <2> QED BY <1>2, <2>1, <2>2
  <1>7. ASSUME NEW n \in DOMAIN checked' \cap DOMAIN parsed PROVE Built(n)'
    <2>1. CASE checked' = checked /\ (Top.next = 0 \/ Ty.kind /= "struct")
      <3>1. Built(n)
        BY <1>7, <2>1 DEF Building
      <3>2. CASE Whole(n)
        BY <1>2, <2>1, <3>2, WholeSame DEF Built
      <3>3. CASE parsed[n].kind = "struct" /\
                 \E i \in 1..Len(frames) :
                   frames[i].type = n /\ frames[i].next >= 1 /\ checked[n].parts = frames[i].parts
        <4>1. PICK i \in 1..Len(frames) :
                frames[i].type = n /\ frames[i].next >= 1 /\ checked[n].parts = frames[i].parts
          BY <3>3
        <4>2. i /= d
          BY <1>2, <2>1, <3>3, <4>1
        <4>3. i \in 1..Len(frames') /\ frames'[i] = frames[i]
          BY <1>2, <4>2
        <4> QED BY <1>2, <2>1, <3>3, <4>1, <4>3 DEF Built
      <3> QED BY <3>1, <3>2, <3>3 DEF Built
    <2>2. CASE /\ Ty.kind = "struct" /\ g.type = T /\ g.next >= 1
               /\ \E t : CheckedWith(T, t) /\ t.parts = g.parts
      <3>1. CASE n = T
        <4>1. checked'[n].parts = g.parts
          BY <2>2, <3>1 DEF CheckedWith
        <4> QED BY <1>2, <2>2, <3>1, <4>1 DEF Built
      <3>2. CASE n /= T
        <4>1. n \in DOMAIN checked \cap DOMAIN parsed /\ checked'[n] = checked[n]
          BY <1>7, <2>2, <3>2 DEF CheckedWith
        <4>2. Built(n)
          BY <4>1 DEF Building
        <4>3. CASE Whole(n)
          BY <1>2, <4>1, <4>3, WholeSame DEF Built
        <4>4. CASE parsed[n].kind = "struct" /\
                   \E i \in 1..Len(frames) :
                     frames[i].type = n /\ frames[i].next >= 1 /\ checked[n].parts = frames[i].parts
          <5>1. PICK i \in 1..Len(frames) :
                  frames[i].type = n /\ frames[i].next >= 1 /\ checked[n].parts = frames[i].parts
            BY <4>4
          <5>2. i /= d
            BY <1>2, <3>2, <5>1
          <5>3. i \in 1..Len(frames') /\ frames'[i] = frames[i]
            BY <1>2, <5>2
          <5> QED BY <1>2, <4>1, <4>4, <5>1, <5>3 DEF Built
        <4> QED BY <4>2, <4>3, <4>4 DEF Built
      <3> QED BY <3>1, <3>2
    <2> QED BY <2>1, <2>2
  <1>8. ASSUME NEW k \in DOMAIN parsed \ todo PROVE HasPointer(k)' \/ AtBottom(k)'
    <2>1. CASE HasPointer(k)
      BY <1>2, <1>3, <2>1, MoreDone
    <2>2. CASE ~HasPointer(k)
      <3>1. frames[1].type = k /\ parsed[k].kind \in {"prim", "struct"}
        BY <1>8, <2>2 DEF Building, AtBottom, HasPointer
      <3>2. frames' /= <<>>
        BY <1>1 DEF Put
      <3>3. CASE d = 1
        <4>1. frames'[1].type = k
          BY <1>2, <3>1, <3>3
        <4> QED BY <3>2, <4>1 DEF AtBottom
      <3>4. CASE d > 1
        <4>1. 1 \in 1..(d - 1)
          BY <1>1, <3>4
        <4>2. frames'[1] = frames[1]
          BY <1>2, <4>1
        <4> QED BY <3>1, <3>2, <4>2 DEF AtBottom
      <3> QED BY <1>1, <3>3, <3>4
    <2> QED BY <2>1, <2>2
  <1>9. None /= Null
    BY DEF None, Null, Ref
  <1> QED BY <1>2, <1>4, <1>5, <1>6, <1>7, <1>8, <1>9 DEF Building

LEMMA BuildPushes ==
  ASSUME Table, Walk, Building, frames /= <<>>, NEW g, Pushed(g), Rests,
         result' = None, checked' = checked,
         g.type = Ty.parts[Top.next], ~g.bad, g.next = 0
  PROVE  Building'
PROOF
  <1>1. PICK d \in Nat : d = Len(frames) /\ d >= 1 /\ Len(frames') = d + 1
    BY TopOf DEF Pushed
  <1>2. /\ parsed' = parsed /\ todo' = todo /\ Top = frames[d]
        /\ \A i \in 1..d : i \in 1..Len(frames) /\ i \in 1..Len(frames') /\ frames'[i] = frames[i]
        /\ \A i \in 1..Len(frames) : i \in 1..d
        /\ \A i \in 1..Len(frames') : i \in 1..d \/ i = d + 1
        /\ frames'[d + 1] = g
    BY <1>1, TopOf DEF Pushed, Rests, ParserRests
  <1>3. ASSUME NEW k \in DOMAIN parsed \ todo PROVE Done(k)' \/ OnStack(k)'
    <2>1. Done(k) => Done(k)'
      BY <1>2, MoreDone
    <2>2. OnStack(k) => OnStack(k)'
      BY <1>2 DEF OnStack
    <2> QED BY <2>1, <2>2 DEF Building
  <1>4. \A i \in 1..(Len(frames') - 1) : LooksAt(i)'
    <2> SUFFICES ASSUME NEW i \in 1..(Len(frames') - 1) PROVE LooksAt(i)'
      OBVIOUS
    <2>1. i \in 1..d /\ frames'[i] = frames[i]
      BY <1>1, <1>2
    <2>2. CASE i < d
      <3>1. i \in 1..(Len(frames) - 1) /\ i + 1 \in 1..d
        BY <1>1, <2>1, <2>2
      <3>2. LooksAt(i) /\ frames'[i + 1].type = frames[i + 1].type
        BY <1>2, <3>1 DEF Building
      <3> QED BY <1>2, <2>1, <3>2, LooksSame
    <2>3. CASE i = d
      <3>1. PartAt(i) = Ty.parts[Top.next]
        BY <1>1, <1>2, <2>3, TopOf DEF PartAt, PartsAt
      <3>2. PartAt(i)' = PartAt(i)
        BY <1>2, <2>1, SameTable
      <3>3. frames'[i + 1].type = PartAt(i)'
        BY <1>2, <2>3, <3>1, <3>2
      <3> QED BY <3>3 DEF LooksAt
    <2> QED BY <1>1, <2>1, <2>2, <2>3
  <1>5. \A i \in 1..Len(frames') : Kept(i)'
    <2>1. \A i \in 1..d : Kept(i)'
      BY <1>2, SameTable DEF Building
    <2>2. Kept(d + 1)'
      BY <1>2 DEF Kept
    <2> QED BY <1>2, <2>1, <2>2
  <1>6. ASSUME NEW n \in DOMAIN checked' \cap DOMAIN parsed PROVE Built(n)'
    <2>1. Built(n)
      BY <1>6 DEF Building
    <2>2. CASE Whole(n)
      BY <1>2, <2>2, WholeSame DEF Built
    <2>3. CASE ~Whole(n)
      BY <1>2, <2>1, <2>3 DEF Built
    <2> QED BY <2>2, <2>3
  <1>7. ASSUME NEW k \in DOMAIN parsed \ todo PROVE HasPointer(k)' \/ AtBottom(k)'
    <2>1. HasPointer(k) => HasPointer(k)'
      BY <1>2, MoreDone
    <2>2. CASE AtBottom(k)
      <3>1. 1 \in 1..d /\ frames' /= <<>>
        BY <1>1 DEF Pushed
      <3> QED BY <1>2, <2>2, <3>1 DEF AtBottom
    <2> QED BY <2>1, <2>2 DEF Building
  <1>8. None /= Null
    BY DEF None, Null, Ref
  <1> QED BY <1>2, <1>3, <1>4, <1>5, <1>6, <1>7, <1>8 DEF Building

LEMMA MeaningThrough ==
  ASSUME Table, NamesApart, NEW k \in DOMAIN parsed, parsed[k].kind = "id",
         parsed[k].parts \in DOMAIN parsed
  PROVE  Meaning(parsed[k].parts) = Meaning(k)
PROOF
  <1>1. PICK n : n = parsed[k].parts
    OBVIOUS
  <1>2. parsed[n].kind /= "id"
    BY <1>1, TargetIsNoId
  <1>3. Target(k) = n /\ Target(n) = n
    BY <1>1, <1>2 DEF Target
  <1> QED BY <1>1, <1>3 DEF Meaning

LEMMA CompoundMeans ==
  ASSUME NEW k, parsed[k].kind \in Compound \cup {"prim"}
  PROVE  Meaning(k) = Ref(Here, k) /\ parsed[k].kind /= "id" /\ parsed[k].kind /= "scope"
  BY MeaningOf DEF Compound

LEMMA BuildTypes ==
  ASSUME Table, Walk, NamesApart, NothingMissing, Building, ValidateType, ~hadError',
         phase' /= "overflow"
  PROVE  Building'
PROOF
  <1>1. frames /= <<>> /\ parsed' = parsed
    BY FourWays, ValidationLeavesParser
  <1>2. PICK T : T = Top.type /\ Ty = parsed[T] /\ T \in DOMAIN parsed /\ ShapeOf(T, Ty, DOMAIN parsed)
    BY <1>1, TopOf
  <1>3. PICK d \in Nat : d = Len(frames) /\ d \in 1..Len(frames) /\ Top = frames[d]
    BY <1>1, TopOf
  <1>4. Kept(d)
    BY <1>3 DEF Building
  <1>5. \A r : Ref(Here, r) /= Null
    BY DEF Ref, Null, Here
  <1>6. CASE EnterKnown
    <2>1. /\ Popped /\ Rests /\ checked' = checked /\ Top.next = 0
          /\ T \in DOMAIN checked /\ Ty.kind \in Compound \cup {"prim"} /\ result' = Ref(Here, T)
      BY <1>2, <1>6, EnterKnownDoes
    <2>2. result' = Meaning(T) /\ result' /= Null /\ Ty.kind /= "id" /\ Ty.kind /= "scope"
      BY <1>2, <1>5, <2>1, CompoundMeans
    <2>3. Done(T)'
      BY <1>1, <1>2, <2>1, <2>2 DEF Done
    <2>4. Adds(T)
      BY <2>1 DEF Adds
    <2> QED BY <1>1, <1>2, <2>1, <2>2, <2>3, <2>4, BuildPops
  <1>7. CASE EnterPrimitive
    <2>1. /\ Popped /\ Rests /\ Ty.kind = "prim" /\ result' = Ref(Here, T)
          /\ CheckedWith(T, Type("prim", T, <<>>))
      BY <1>2, <1>7, EnterPrimitiveDoes
    <2>2. result' = Meaning(T) /\ result' /= Null /\ Ty.kind /= "id" /\ Ty.kind /= "scope"
      BY <1>2, <1>5, <2>1, CompoundMeans
    <2>3. Done(T)' /\ Adds(T)
      BY <1>1, <1>2, <2>1, <2>2 DEF Done, Adds, CheckedWith
    <2>4. checked'[T].parts = <<>> /\ Ty.parts = <<>>
      BY <1>2, <2>1 DEF CheckedWith, Type, ShapeOf
    <2>5. Len(Ty.parts) + 1 = 1
      BY <2>4
    <2>6. MeaningsTo(T, Len(parsed[T].parts) + 1)' = <<>>
      BY <1>1, <1>2, <2>5, MeaningsNone, SameTable
    <2>7. Whole(T)'
      BY <2>4, <2>6 DEF Whole
    <2> QED BY <1>1, <1>2, <2>1, <2>2, <2>3, <2>7, BuildPops
  <1>8. CASE EnterCompound
    <2>1. PICK g : g = FrameOf(T, 1, <<>>, FALSE)
      OBVIOUS
    <2>2. /\ Rests /\ result' = None /\ Put(g) /\ Ty.kind \in Compound /\ Top.next = 0
          /\ IF Ty.kind = "struct" THEN CheckedWith(T, Type("struct", T, <<>>)) ELSE checked' = checked
      BY <1>2, <1>8, <2>1, EnterCompoundDoes
    <2>3. g.type = T /\ ~g.bad /\ g.next = 1 /\ g.parts = <<>>
      BY <2>1 DEF FrameOf
    <2>4. g.next >= 1 /\ g.parts = MeaningsTo(g.type, g.next)
      BY <2>3, MeaningsNone
    <2>5. PICK t : t = Type("struct", T, <<>>)
      OBVIOUS
    <2>6. t.parts = g.parts
      BY <2>3, <2>5, TypeIs
    <2> QED BY <1>1, <1>2, <2>2, <2>3, <2>4, <2>5, <2>6, BuildPuts
  <1>9. CASE EnterIdentifier
    <2>1. PICK p : p = Ty.parts
      OBVIOUS
    <2>2. PICK g : g = FrameOf(p, 0, <<>>, FALSE)
      OBVIOUS
    <2>3. /\ Rests /\ Ty.kind = "id" /\ checked' = checked /\ Top.next = 0
          /\ p \in DOMAIN parsed /\ Put(g) /\ result' = None
      BY <1>9, <2>1, <2>2, EnterIdentifierDoes
    <2>4. g.type = p /\ ~g.bad /\ g.next = 0
      BY <2>2 DEF FrameOf
    <2>5. Meaning(g.type) = Meaning(T)
      BY <1>2, <2>1, <2>3, <2>4, MeaningThrough
    <2>6. ~(g.next >= 1)
      BY <2>4
    <2> QED BY <1>1, <1>2, <2>3, <2>4, <2>5, <2>6, BuildPuts
  <1>10. CASE EnterScoped
    <2>1. PICK m \in Modules, x \in Idents :
            /\ Ty.parts = <<m, x>>
            /\ result' = IF m \in Imported /\ x \in Exports[m] THEN Ref(m, <<x>>) ELSE Null
      BY <1>10, EnterScopedDoes
    <2>2. /\ Rests /\ Ty.kind = "scope" /\ checked' = checked /\ Popped /\ Top.next = 0
          /\ hadError' = (hadError \/ Ty.parts[1] \notin Imported)
      BY <1>10, EnterScopedDoes
    <2>3. Ty.parts[1] = m /\ Ty.parts[2] = x
      BY <2>1
    <2>4. m \in Imported
      BY <2>2, <2>3
    <2>5. x \in Exports[m]
      BY <1>2, <2>2, <2>3, <2>4 DEF NothingMissing, Missing
    <2>6. result' = Meaning(T)
      BY <1>2, <2>1, <2>2, <2>3, <2>4, <2>5, MeaningOf
    <2>7. result' /= Null
      BY <2>1, <2>4, <2>5 DEF Ref, Null
    <2>8. Done(T)'
      BY <1>1, <1>2, <2>2, <2>3, <2>4, <2>5 DEF Done, Compound
    <2>9. Adds(T)
      BY <2>2 DEF Adds
    <2> QED BY <1>1, <1>2, <2>2, <2>6, <2>7, <2>8, <2>9, BuildPops
  <1>11. CASE CallPart
    <2>1. PICK g : g = FrameOf(Ty.parts[Top.next], 0, <<>>, FALSE)
      OBVIOUS
    <2>2. Rests /\ result' = None /\ checked' = checked /\ Pushed(g)
      BY <1>11, <2>1, CallPartDoes DEF Rests
    <2>3. g.type = Ty.parts[Top.next] /\ ~g.bad /\ g.next = 0
      BY <2>1 DEF FrameOf
    <2> QED BY <1>1, <2>2, <2>3, BuildPushes
  <1>12. CASE PartDone
    <2>1. /\ result /= None /\ result /= Null /\ Top.next \in 1..Len(Ty.parts) /\ ~Top.bad
          /\ Rests /\ result' = None
      BY <1>3, <1>4, <1>12, PartDoneDoes DEF Building, Kept
    <2>2. PICK q : q = PartsNow
      OBVIOUS
    <2>3. PICK g : g = FrameOf(T, Top.next + 1, q, FALSE)
      OBVIOUS
    <2>4. Put(g) /\ IF Ty.kind = "struct" THEN \E t : CheckedWith(T, t) /\ t.parts = q
                    ELSE checked' = checked
      BY <1>2, <1>12, <2>1, <2>2, <2>3, PartDoneDoes
    <2>5. PICK n \in Nat, p \in Seq(Refs) : n = Top.next /\ n >= 1 /\ p = Top.parts
      BY <1>1, <2>1, TopOf
    <2>6. p = MeaningsTo(T, n)
      BY <1>2, <1>3, <1>4, <2>5 DEF Kept
    <2>7. result = Meaning(parsed[T].parts[n]) /\ result \in Refs
      BY <1>1, <1>2, <1>3, <2>1, <2>5, ResultIsRef DEF Building, PartAt, PartsAt
    <2>8. q = Append(p, result)
      BY <2>1, <2>2, <2>5 DEF PartsNow
    <2>9. q = MeaningsTo(T, n + 1)
      BY <2>5, <2>6, <2>7, <2>8, MeaningsMore
    <2>10. g.type = T /\ ~g.bad /\ g.next = n + 1 /\ g.parts = q /\ g.next >= 1
      BY <2>3, <2>5 DEF FrameOf
    <2> QED BY <1>1, <1>2, <2>1, <2>4, <2>9, <2>10, BuildPuts
  <1>13. CASE CompoundDone
    <2>1. /\ Rests /\ Popped /\ Ty.kind \in Compound /\ ~Top.bad /\ result' = Ref(Here, T)
          /\ Top.next = Len(Ty.parts) + 1
          /\ IF T \in DOMAIN checked THEN checked' = checked
             ELSE CheckedWith(T, Type(Ty.kind, T, Top.parts))
      BY <1>2, <1>3, <1>4, <1>13, CompoundDoneDoes DEF Kept
    <2>2. result' = Meaning(T) /\ result' /= Null /\ Ty.kind /= "id" /\ Ty.kind /= "scope"
      BY <1>2, <1>5, <2>1, CompoundMeans
    <2>3. Top.next \in Nat /\ Ty.parts \in Seq(DOMAIN parsed)
      BY <1>1, <1>2, <2>1, TopOf DEF ShapeOf
    <2>4. Top.next >= 1
      BY <2>1, <2>3
    <2>5. Top.parts = MeaningsTo(T, Len(Ty.parts) + 1)
      BY <1>2, <1>3, <1>4, <2>1, <2>4 DEF Kept
    <2>6. CASE T \in DOMAIN checked
      <3>1. checked' = checked
        BY <2>1, <2>6
      <3>2. Done(T)' /\ Adds(T)
        BY <1>1, <1>2, <2>2, <2>6, <3>1 DEF Done, Adds
      <3> QED BY <1>1, <1>2, <2>1, <2>2, <2>5, <3>1, <3>2, BuildPops
    <2>7. CASE T \notin DOMAIN checked
      <3>1. CheckedWith(T, Type(Ty.kind, T, Top.parts))
        BY <2>1, <2>7
      <3>2. Done(T)' /\ Adds(T)
        BY <1>1, <1>2, <2>2, <3>1 DEF Done, Adds, CheckedWith
      <3>3. checked'[T].parts = Top.parts
        BY <3>1 DEF CheckedWith, Type
      <3>4. MeaningsTo(T, Len(parsed[T].parts) + 1)' = Top.parts
        BY <1>1, <1>2, <2>5, SameTable
      <3>5. Whole(T)'
        BY <3>3, <3>4 DEF Whole
      <3> QED BY <1>1, <1>2, <2>1, <2>2, <3>2, <3>5, BuildPops
    <2> QED BY <2>6, <2>7
  <1> QED BY <1>6, <1>7, <1>8, <1>9, <1>10, <1>11, <1>12, <1>13 DEF ValidateType

-----------------------------------------------------------------------------
(* The steps of the walk over the types, and the end of that walk.         *)
LEMMA BuildBegins ==
  ASSUME Table, Walk, BeginTypes
  PROVE  Building'
PROOF
  <1>1. parsed' = parsed /\ todo' = Callees /\ frames' = <<>> /\ result' = None /\ DOMAIN checked' = {}
    BY ValidationLeavesParser DEF BeginTypes, ValidateModule, Walk, Untouched
  <1>2. \A k \in DOMAIN parsed \ todo' : parsed[k].kind = "id"
    BY <1>1 DEF Callees
  <1>3. \A k \in DOMAIN parsed \ todo' : Done(k)' /\ HasPointer(k)'
    BY <1>1, <1>2 DEF Done, HasPointer, Compound
  <1>4. Len(frames') = 0
    BY <1>1
  <1>5. None /= Null
    BY DEF None, Null, Ref
  <1> QED BY <1>1, <1>3, <1>4, <1>5 DEF Building

LEMMA BuildCalls ==
  ASSUME Table, Walk, Building, CallValidate
  PROVE  Building'
PROOF
  <1>1. PICK k \in todo : todo' = todo \ {k} /\ frames' = <<Frame(k)>>
    BY DEF CallValidate
  <1>2. parsed' = parsed /\ checked' = checked /\ frames = <<>> /\ result = None /\ result' = None
    BY ValidationLeavesParser DEF CallValidate, ValidateModule
  <1>3. Len(frames') = 1 /\ frames'[1].type = k /\ frames'[1].next = 0 /\ ~frames'[1].bad /\ frames' /= <<>>
    BY <1>1 DEF Frame
  <1>4. OnStack(k)' /\ AtBottom(k)'
    BY <1>3 DEF OnStack, AtBottom
  <1>5. Len(frames) = 0 /\ \A i \in 1..Len(frames') : i = 1
    BY <1>2, <1>3
  <1>6. \A n : Ref(Here, n) /= None
    BY DEF Ref, None, Here
  <1>7. ASSUME NEW n \in DOMAIN parsed \ todo'
        PROVE  (Done(n)' \/ OnStack(n)') /\ (HasPointer(n)' \/ AtBottom(n)')
    <2>1. CASE n = k
      BY <1>4, <2>1
    <2>2. CASE n \in DOMAIN parsed \ todo
      <3>1. Done(n) \/ OnStack(n)
        BY <2>2 DEF Building
      <3>2. HasPointer(n) \/ AtBottom(n)
        BY <2>2 DEF Building
      <3>3. Done(n) /\ HasPointer(n)
        BY <1>2, <1>5, <1>6, <3>1, <3>2 DEF OnStack, AtBottom
      <3> QED BY <1>2, <3>3, MoreDone
    <2> QED BY <1>1, <1>7, <2>1, <2>2
  <1>8. \A n \in DOMAIN checked' \cap DOMAIN parsed : Built(n)'
    <2>1. \A n \in DOMAIN checked \cap DOMAIN parsed : Whole(n)
      BY <1>5 DEF Building, Built
    <2> QED BY <1>2, <2>1, WholeSame DEF Built
  <1>9. \A i \in 1..Len(frames') : Kept(i)'
    BY <1>3, <1>5 DEF Kept
  <1>10. None /= Null
    BY DEF None, Null, Ref
  <1>11. \A i \in 1..(Len(frames') - 1) : FALSE
    BY <1>3
  <1> QED BY <1>1, <1>2, <1>7, <1>8, <1>9, <1>10, <1>11 DEF Building

\* The type that the walk is done with has its pointer type now.
LEMMA PointerOfResult ==
  ASSUME Table, Walk, TypeDone, phase' = "types", NEW k \in DOMAIN parsed, result = Ref(Here, k)
  PROVE  HasPointer(k)'
PROOF
  <1>1. ParserRests /\ parsed' = parsed
    BY TypeDoneDoes DEF ParserRests
  <1>2. SUFFICES ASSUME parsed[k].kind \in {"prim", "struct"}
                 PROVE  Ptr(k) \in DOMAIN checked' \cup DOMAIN parsed
    BY <1>1 DEF HasPointer
  <1>3. result.module = Here /\ result.name = k
    BY DEF Ref
  <1>4. KindOf(result) = parsed[k].kind
    <2>1. result /= None /\ result /= Null
      BY DEF Ref, None, Null, Here
    <2>2. k \in DOMAIN checked
      <3>1. \A n : result = Ref(Here, n) => n = k
        BY DEF Ref
      <3>2. \A m \in Modules : \A x : result /= Ref(m, <<x>>)
        BY WordsAssumption DEF Ref
      <3> QED BY <2>1, <3>1, <3>2 DEF Walk, Returned
    <2>3. CheckedName(k)
      BY <2>2 DEF Walk
    <2> QED BY <1>3, <2>3 DEF KindOf, CheckedName
  <1>5. KindOf(result) \notin {"ptr", "fn"} /\ result /= Null
    BY <1>2, <1>4 DEF Ref, Null, Here
  <1>6. PICK p : p = Ptr(k) /\ p = Ptr(result.name)
    BY <1>3
  <1>7. p \in DOMAIN parsed \/ p \in DOMAIN checked'
    BY <1>5, <1>6, TypeDoneDoes DEF CheckedWith
  <1> QED BY <1>6, <1>7

LEMMA BuildGenerates ==
  ASSUME Table, Walk, Building, TypeDone, phase' = "types"
  PROVE  Building'
PROOF
  <1>1. /\ ParserRests /\ frames = <<>> /\ frames' = <<>> /\ result' = None /\ todo' = todo
        /\ parsed' = parsed
    BY TypeDoneDoes DEF ParserRests
  <1>2. /\ DOMAIN checked \subseteq DOMAIN checked'
        /\ \A n \in DOMAIN checked' \cap DOMAIN parsed : n \in DOMAIN checked /\ checked'[n] = checked[n]
    BY TypeDoneDoes DEF CheckedWith
  <1>3. Len(frames) = 0 /\ Len(frames') = 0
    BY <1>1
  <1>4. \A n \in DOMAIN parsed \ todo : Done(n)'
    BY <1>1, <1>2, <1>3, MoreDone DEF Building, OnStack
  <1>5. ASSUME NEW n \in DOMAIN parsed \ todo PROVE HasPointer(n)'
    <2>1. CASE HasPointer(n)
      BY <1>1, <1>2, <2>1, MoreDone
    <2>2. CASE AtBottom(n)
      BY <1>1, <2>2, PointerOfResult DEF AtBottom
    <2> QED BY <2>1, <2>2 DEF Building
  <1>6. \A n \in DOMAIN checked' \cap DOMAIN parsed : Built(n)'
    <2>1. \A n \in DOMAIN checked \cap DOMAIN parsed : Whole(n)
      BY <1>3 DEF Building, Built
    <2> QED BY <1>1, <1>2, <2>1, WholeSame DEF Built
  <1>7. None /= Null
    BY DEF None, Null, Ref
  <1> QED BY <1>1, <1>3, <1>4, <1>5, <1>6, <1>7 DEF Building

LEMMA BuildCompletes ==
  ASSUME Building, frames = <<>>, result = None, todo = {}
  PROVE  Complete
PROOF
  <1>1. Len(frames) = 0
    OBVIOUS
  <1>2. \A n : Ref(Here, n) /= None
    BY DEF Ref, None, Here
  <1>3. \A n \in DOMAIN parsed : Done(n) /\ HasPointer(n)
    BY <1>1, <1>2 DEF Building, OnStack, AtBottom
  <1>4. \A n \in DOMAIN checked \cap DOMAIN parsed : Whole(n)
    BY <1>1 DEF Building, Built
  <1> QED BY <1>3, <1>4 DEF Complete

LEMMA CompleteSame ==
  ASSUME parsed' = parsed, checked' = checked, Complete
  PROVE  Complete'
PROOF
  <1>1. \A n : Whole(n) => Whole(n)'
    BY SameTable DEF Whole
  <1> QED BY <1>1, MoreDone DEF Complete

\* The types of the fields are parts of struct types, of which none dangles.
LEMMA FieldsAreTypes ==
  ASSUME Table, NamesApart, Declarations, \A k \in DOMAIN parsed : Sound(k),
         NEW i \in 1..Len(structs), NEW j \in 1..Len(structs[i].fields)
  PROVE  structs[i].fields[j] \in DOMAIN parsed /\ FieldType(structs[i].fields[j])
PROOF
  <1>1. PICK s, fs : s = structs[i].name /\ fs = structs[i].fields
    OBVIOUS
  <1>2. fs \in Seq(DOMAIN parsed) /\ <<s>> \in DOMAIN parsed
    <2>1. structs[i] \in StructObjects(DOMAIN parsed) /\ <<structs[i].name>> \in DOMAIN parsed
      BY DEF Table
    <2> QED BY <1>1, <2>1 DEF StructObjects
  <1>3. PICK k : k = <<s>>
    OBVIOUS
  <1>4. parsed[k].kind = "struct" /\ parsed[k].parts = fs
    BY <1>1, <1>3 DEF Declarations, StructType
  <1>5. PICK f \in DOMAIN parsed : f = fs[j]
    BY <1>1, <1>2
  <1>6. ~Dangling(f)
    BY <1>1, <1>2, <1>3, <1>4, <1>5 DEF Sound, Compound
  <1>7. FieldType(f)
    BY <1>5, <1>6, TargetIsNoId DEF FieldType, Dangling
  <1> QED BY <1>1, <1>5, <1>7

LEMMA EndTypesMirrors ==
  ASSUME Table, Walk, Declarations, Mirrors, ErrInv', NamesApart, NothingMissing, EndTypes,
         phase' = "fields"
  PROVE  Complete' /\ Finding'
PROOF
  <1>1. /\ parsed' = parsed /\ structs' = structs /\ checked' = checked /\ hadError' = hadError
        /\ frames = <<>> /\ frames' = <<>> /\ result = None /\ result' = None /\ todo = {}
        /\ phase = "types" /\ ~hadError
        /\ todo' = UNION {{structs[i].fields[j] : j \in DOMAIN structs[i].fields} : i \in DOMAIN structs}
    BY ValidationLeavesParser DEF EndTypes, ValidateModule, parseVars
  <1>2. Complete
    BY <1>1, BuildCompletes DEF Mirrors, Clean
  <1>3. Complete'
    BY <1>1, <1>2, CompleteSame
  <1>4. \A k \in DOMAIN parsed : Sound(k)
    BY <1>1, SoundSame DEF ErrInv
  <1>5. ASSUME NEW k \in todo' PROVE FieldType(k)'
    <2>1. PICK i \in DOMAIN structs : \E j \in DOMAIN structs[i].fields : k = structs[i].fields[j]
      BY <1>1
    <2>2. PICK j \in DOMAIN structs[i].fields : k = structs[i].fields[j]
      BY <2>1
    <2>3. i \in 1..Len(structs) /\ structs[i] \in StructObjects(DOMAIN parsed)
      BY DEF Table
    <2>4. j \in 1..Len(structs[i].fields)
      BY <2>3 DEF StructObjects
    <2>5. FieldType(k)
      BY <1>4, <2>2, <2>3, <2>4, FieldsAreTypes
    <2> QED BY <1>1, <2>5 DEF FieldType
  <1>6. None /= Null
    BY DEF None, Null, Ref
  <1>7. Len(frames') = 0
    BY <1>1
  <1> QED BY <1>1, <1>3, <1>5, <1>6, <1>7 DEF Finding

-----------------------------------------------------------------------------
(* The walk over the fields only finds types that are there.               *)
LEMMA FieldsFound ==
  ASSUME Table, Walk, NamesApart, NothingMissing, Complete, Finding, ValidateType
  PROVE  Finding' /\ checked' = checked /\ parsed' = parsed /\ phase' = phase
PROOF
  <1>1. frames /= <<>> /\ parsed' = parsed
    BY FourWays, ValidationLeavesParser
  <1>2. PICK T : T = Top.type /\ Ty = parsed[T] /\ T \in DOMAIN parsed
    BY <1>1, TopOf
  <1>3. Len(frames) = 1 /\ Top = frames[1] /\ Top.next = 0 /\ FieldType(T) /\ Done(T)
    <2>1. Len(frames) \in Nat /\ Len(frames) >= 1 /\ Top = frames[Len(frames)]
      BY <1>1, TopOf
    <2>2. Len(frames) = 1
      <3>1. Len(frames) <= 1
        BY DEF Finding
      <3>2. PICK d \in Nat : d = Len(frames) /\ d >= 1 /\ d <= 1
        BY <2>1, <3>1
      <3> QED BY <3>2
    <2>3. frames[1].next = 0 /\ FieldType(frames[1].type)
      BY <1>1 DEF Finding
    <2>4. frames[1].type = T
      BY <1>2, <2>1, <2>2
    <2>5. FieldType(T)
      BY <2>3, <2>4
    <2> QED BY <1>2, <2>1, <2>2, <2>3, <2>5 DEF Complete
  <1>4. \A r : Ref(Here, r) /= Null
    BY DEF Ref, Null, Here
  <1>5. ASSUME Popped, Rests, result' /= Null, ~hadError', checked' = checked
        PROVE  Finding' /\ checked' = checked /\ parsed' = parsed /\ phase' = phase
    <2>1. Len(frames') = 0
      BY <1>3, <1>5 DEF Popped
    <2>2. frames' = <<>>
      BY <1>5, <2>1 DEF Popped
    <2>3. \A k : FieldType(k)' <=> FieldType(k)
      BY <1>1 DEF FieldType
    <2> QED BY <1>1, <1>5, <2>1, <2>2, <2>3 DEF Finding, Rests
  <1>6. CASE EnterKnown
    <2>1. Popped /\ Rests /\ result' /= Null /\ ~hadError' /\ checked' = checked
      BY <1>4, <1>6, EnterKnownDoes DEF Finding
    <2> QED BY <1>5, <2>1
  <1>7. CASE EnterPrimitive \/ EnterCompound
    <2>1. T \notin DOMAIN checked /\ Ty.kind \in Compound \cup {"prim"}
      BY <1>2, <1>7, EnterPrimitiveDoes, EnterCompoundDoes
    <2> QED BY <1>2, <1>3, <2>1 DEF Done
  <1>8. CASE EnterIdentifier
    <2>1. PICK p, g : p = Ty.parts /\ g = FrameOf(p, 0, <<>>, FALSE)
      OBVIOUS
    <2>2. Rests /\ Ty.kind = "id" /\ checked' = checked
      BY <1>8, EnterIdentifierDoes
    <2>3. p \in DOMAIN parsed /\ parsed[p].kind /= "id"
      BY <1>2, <1>3, <2>1, <2>2 DEF FieldType
    <2>4. Put(g) /\ result' = result /\ hadError' = hadError
      BY <1>8, <2>1, <2>3, EnterIdentifierDoes
    <2>5. g.type = p /\ g.next = 0
      BY <2>1 DEF FrameOf
    <2>6. Len(frames') = 1 /\ frames'[1] = g
      BY <1>3, <2>4 DEF Put
    <2>7. FieldType(frames[1].type)'
      BY <1>1, <2>3, <2>5, <2>6 DEF FieldType
    <2>8. \A k : FieldType(k)' <=> FieldType(k)
      BY <1>1 DEF FieldType
    <2> QED BY <1>1, <2>2, <2>4, <2>5, <2>6, <2>7, <2>8 DEF Finding, Rests
  <1>9. CASE EnterScoped
    <2>1. PICK m \in Modules, x \in Idents :
            /\ Ty.parts = <<m, x>>
            /\ result' = IF m \in Imported /\ x \in Exports[m] THEN Ref(m, <<x>>) ELSE Null
      BY <1>9, EnterScopedDoes
    <2>2. /\ Rests /\ Ty.kind = "scope" /\ checked' = checked /\ Popped
          /\ hadError' = (hadError \/ Ty.parts[1] \notin Imported)
      BY <1>9, EnterScopedDoes
    <2>3. Ty.parts[1] = m /\ Ty.parts[2] = x
      BY <2>1
    <2>4. m \in Imported /\ x \in Exports[m]
      BY <1>2, <1>3, <2>2, <2>3 DEF Done
    <2>5. result' /= Null
      BY <2>1, <2>4 DEF Ref, Null
    <2>6. ~hadError'
      BY <2>2, <2>3, <2>4 DEF Finding
    <2> QED BY <1>5, <2>2, <2>5, <2>6
  <1>10. CASE CallPart \/ PartDone
    <2>1. Top.next \in 1..Len(Ty.parts)
      BY <1>10, CallPartDoes, PartDoneDoes
    <2> QED BY <1>3, <2>1
  <1>11. CASE CompoundDone
    BY <1>3, <1>11 DEF CompoundDone
  <1> QED BY <1>6, <1>7, <1>8, <1>9, <1>10, <1>11 DEF ValidateType

LEMMA MirrorsInit == Init => Mirrors
  BY DEF Init, Mirrors

LEMMA MissingRemains ==
  ASSUME parsed' = parsed
  PROVE  NothingMissing' <=> NothingMissing
  BY DEF NothingMissing, Missing

LEMMA BuildingSame ==
  ASSUME Building, parsed' = parsed, checked' = checked, todo' = todo, frames' = frames,
         result' = result
  PROVE  Building'
PROOF
  <1>1. \A k \in DOMAIN parsed \ todo : Done(k)' \/ OnStack(k)'
    BY MoreDone DEF Building, OnStack
  <1>2. \A i \in 1..(Len(frames) - 1) : LooksAt(i)'
    BY LooksSame DEF Building
  <1>3. result /= None /\ frames /= <<>> => result = Meaning(PartAt(Len(frames)))'
    <2>1. PICK p, q : p = PartAt(Len(frames)) /\ q = PartAt(Len(frames))'
      OBVIOUS
    <2>2. p = q
      BY <2>1 DEF PartAt, PartsAt
    <2>3. Meaning(p)' = Meaning(p)
      BY MeaningSame
    <2>4. Meaning(PartAt(Len(frames)))' = Meaning(q)'
      BY <2>1 DEF Meaning, Target
    <2> QED BY <2>1, <2>2, <2>3, <2>4 DEF Building
  <1>4. \A i \in 1..Len(frames) : Kept(i)'
    BY SameTable DEF Building
  <1>5. \A n \in DOMAIN checked \cap DOMAIN parsed : Built(n)'
    <2>1. \A n : Whole(n) => Whole(n)'
      BY WholeSame
    <2> QED BY <2>1 DEF Building, Built
  <1>6. \A k \in DOMAIN parsed \ todo : HasPointer(k)' \/ AtBottom(k)'
    BY MoreDone DEF Building, AtBottom
  <1>7. result' /= Null
    BY DEF Building
  <1> QED BY <1>1, <1>2, <1>3, <1>4, <1>5, <1>6, <1>7 DEF Building

LEMMA MirrorsStep ==
  Typed /\ Declarations /\ Mirrors /\ [Next]_vars /\ ErrInv' => Mirrors'
PROOF
  <1> SUFFICES ASSUME Table, Walk, Declarations, Mirrors, [Next]_vars, ErrInv', NamesApart
               PROVE  Mirrors'
    BY DEF Typed, Mirrors, Clean
  <1>1. CASE Parse
    BY <1>1, ParseDoes DEF Mirrors
  <1> SUFFICES ASSUME ~Parse PROVE Mirrors'
    BY <1>1
  <1>2. parsed' = parsed
    BY ValidationLeavesParser DEF Next, vars, parseVars
  <1>3. NothingMissing' <=> NothingMissing
    BY <1>2, MissingRemains
  <1>4. CASE ValidateType
    <2>1. CASE phase = "types"
      <3>1. phase' \in {"types", "overflow"}
        BY <1>4, <2>1, FourWays DEF Answers, Looks, Works, Calls, Rests
      <3>2. CASE phase' = "types" /\ ~hadError' /\ NothingMissing
        <4>1. ~hadError
          BY <1>4, <3>2, EnterKnownDoes, EnterPrimitiveDoes, EnterCompoundDoes, EnterIdentifierDoes,
             EnterScopedDoes, CallPartDoes, PartDoneDoes, CompoundDoneDoes DEF ValidateType
        <4>2. Building
          BY <2>1, <3>2, <4>1 DEF Mirrors, Clean
        <4>3. Building'
          BY <1>4, <3>2, <4>2, BuildTypes
        <4> QED BY <3>2, <4>3 DEF Mirrors
      <3> QED BY <1>3, <3>1, <3>2 DEF Mirrors, Clean
    <2>2. CASE phase = "fields"
      <3>1. phase' \in {"fields", "overflow"}
        BY <1>4, <2>2, FourWays DEF Answers, Looks, Works, Calls, Rests
      <3>2. CASE NothingMissing
        <4>1. Finding' /\ checked' = checked
          BY <1>4, <2>2, <3>2, FieldsFound DEF Mirrors
        <4>2. Complete'
          BY <1>2, <2>2, <3>2, <4>1, CompleteSame DEF Mirrors
        <4> QED BY <3>1, <4>1, <4>2 DEF Mirrors
      <3> QED BY <1>3, <3>1, <3>2 DEF Mirrors
    <2>3. phase \in {"types", "fields"}
      BY <1>4 DEF ValidateType, EnterKnown, EnterPrimitive, EnterCompound, EnterIdentifier, EnterScoped,
                  CallPart, PartDone, CompoundDone, Entering, Walking
    <2> QED BY <2>1, <2>2, <2>3
  <1>5. CASE BeginTypes
    <2>1. Building' /\ phase' = "types"
      BY <1>5, BuildBegins DEF BeginTypes
    <2> QED BY <2>1 DEF Mirrors
  <1>6. CASE CallValidate
    <2>1. phase' = phase /\ hadError' = hadError /\ checked' = checked /\ phase \in {"types", "fields"}
      BY <1>6 DEF CallValidate
    <2>2. phase = "types" /\ Clean => Building'
      BY <1>6, BuildCalls DEF Mirrors
    <2>3. ASSUME phase = "fields", NothingMissing PROVE Complete' /\ Finding'
      <3>1. Complete /\ Finding
        BY <2>3 DEF Mirrors
      <3>2. PICK k \in todo : todo' = todo \ {k} /\ frames' = <<Frame(k)>>
        BY <1>6 DEF CallValidate
      <3>3. Len(frames') = 1 /\ frames'[1].type = k /\ frames'[1].next = 0 /\ result' = result
        BY <1>6, <3>2 DEF CallValidate, Frame
      <3>4. \A n : FieldType(n)' <=> FieldType(n)
        BY <1>2 DEF FieldType
      <3>5. FieldType(frames[1].type)'
        <4>1. FieldType(k)
          BY <3>1, <3>2 DEF Finding
        <4> QED BY <1>2, <3>3, <4>1 DEF FieldType
      <3>6. Finding'
        BY <2>1, <3>1, <3>2, <3>3, <3>4, <3>5 DEF Finding
      <3> QED BY <1>2, <2>1, <3>1, <3>6, CompleteSame
    <2> QED BY <1>3, <2>1, <2>2, <2>3 DEF Mirrors, Clean
  <1>7. CASE TypeDone
    <2>1. phase = "types" /\ phase' \in {"types", "validator abort"} /\ hadError' = hadError
      BY <1>7, TypeDoneDoes
    <2>2. phase' = "types" /\ Clean => Building'
      BY <1>7, <2>1, BuildGenerates DEF Mirrors
    <2> QED BY <1>3, <2>1, <2>2 DEF Mirrors, Clean
  <1>8. CASE EndTypes
    <2>1. phase' \in {"rejected", "fields"}
      BY <1>8 DEF EndTypes
    <2>2. phase' = "fields" /\ NothingMissing => Complete' /\ Finding'
      BY <1>8, EndTypesMirrors
    <2> QED BY <1>3, <2>1, <2>2 DEF Mirrors
  <1>9. CASE FieldDone
    <2>1. /\ phase = "fields" /\ frames' = frames /\ frames = <<>> /\ result' = None /\ todo' = todo
          /\ hadError' = hadError /\ checked' = checked
          /\ phase' = IF result = Null THEN "field abort" ELSE phase
      BY <1>9 DEF FieldDone
    <2>2. CASE NothingMissing
      <3>1. Complete /\ Finding
        BY <2>1, <2>2 DEF Mirrors
      <3>2. phase' = "fields"
        BY <2>1, <3>1 DEF Finding
      <3>3. Complete'
        BY <1>2, <2>1, <3>1, CompleteSame
      <3>4. \A n : FieldType(n)' <=> FieldType(n)
        BY <1>2 DEF FieldType
      <3>5. None /= Null /\ Len(frames') <= 1
        <4>1. Len(frames') = 0
          BY <2>1
        <4> QED BY <4>1 DEF None, Null, Ref
      <3>6. Finding'
        BY <2>1, <3>1, <3>4, <3>5 DEF Finding
      <3> QED BY <3>2, <3>3, <3>6 DEF Mirrors
    <2> QED BY <1>3, <2>1, <2>2 DEF Mirrors
  <1>10. CASE EndFieldTypes
    <2>1. phase = "fields" /\ checked' = checked /\ phase' \in {"rejected", "accepted"}
      BY <1>10 DEF EndFieldTypes, walkVars
    <2>2. NothingMissing => Complete'
      BY <1>2, <2>1, CompleteSame DEF Mirrors
    <2> QED BY <1>3, <2>1, <2>2 DEF Mirrors
  <1>11. CASE UNCHANGED vars
    <2>1. /\ checked' = checked /\ todo' = todo /\ frames' = frames /\ result' = result
          /\ phase' = phase /\ hadError' = hadError
      BY <1>11 DEF vars, walkVars
    <2>2. Building => Building'
      BY <1>2, <2>1, BuildingSame
    <2>3. Complete => Complete'
      BY <1>2, <2>1, CompleteSame
    <2>4. Finding => Finding'
      BY <1>2, <2>1 DEF Finding, FieldType
    <2> QED BY <1>3, <2>1, <2>2, <2>3, <2>4 DEF Mirrors, Clean
  <1> QED BY <1>1, <1>4, <1>5, <1>6, <1>7, <1>8, <1>9, <1>10, <1>11 DEF Next, ValidateModule

-----------------------------------------------------------------------------
(* Types are freed with a function type that has a bad part.  Where names  *)
(* stay apart and nothing is missing, there is none without an error.      *)
Unfreed ==
  /\ phase = "parse" => freed = {}
  /\ phase = "types" /\ Clean => freed = {}
  /\ phase \in {"fields", "accepted"} /\ NamesApart /\ NothingMissing => freed = {}

LEMMA UnfreedInit == Init => Unfreed
  BY DEF Init, Unfreed

LEMMA OnlyBadFrees ==
  ASSUME ValidateType, ~(CompoundDone /\ Top.bad)
  PROVE  freed' = freed
  BY DEF ValidateType, EnterKnown, EnterPrimitive, EnterCompound, EnterIdentifier, EnterScoped, CallPart,
         PartDone, CompoundDone

LEMMA UnfreedStep == Typed /\ Mirrors /\ Unfreed /\ [Next]_vars => Unfreed'
PROOF
  <1> SUFFICES ASSUME Table, Walk, Mirrors, Unfreed, [Next]_vars
               PROVE  Unfreed'
    BY DEF Typed
  <1>1. CASE Parse
    <2>1. phase = "parse" /\ phase' \in {"parse", "parser abort"} /\ freed' = freed
      BY <1>1, ParseDoes DEF walkVars
    <2>2. freed = {}
      BY <2>1 DEF Unfreed
    <2>3. freed' = {}
      BY <2>1, <2>2
    <2> QED BY <2>3 DEF Unfreed
  <1> SUFFICES ASSUME ~Parse PROVE Unfreed'
    BY <1>1
  <1>2. parsed' = parsed
    BY ValidationLeavesParser DEF Next, vars, parseVars
  <1>3. NothingMissing' <=> NothingMissing
    BY <1>2, MissingRemains
  <1>4. CASE ValidateType
    <2>1. CASE phase = "types"
      <3>1. phase' \in {"types", "overflow"}
        BY <1>4, <2>1, FourWays DEF Answers, Looks, Works, Calls, Rests
      <3>2. CASE phase' = "types" /\ ~hadError' /\ NothingMissing /\ NamesApart
        <4>1. ~hadError
          BY <1>4, <3>2, EnterKnownDoes, EnterPrimitiveDoes, EnterCompoundDoes, EnterIdentifierDoes,
             EnterScopedDoes, CallPartDoes, PartDoneDoes, CompoundDoneDoes DEF ValidateType
        <4>2. Building
          BY <2>1, <3>2, <4>1 DEF Mirrors, Clean
        <4>3. ~Top.bad
          <5>1. frames /= <<>>
            BY <1>4, FourWays
          <5>2. PICK d \in Nat : d = Len(frames) /\ d \in 1..Len(frames) /\ Top = frames[d]
            BY <5>1, TopOf
          <5> QED BY <4>2, <5>2 DEF Building, Kept
        <4>4. freed' = freed
          BY <1>4, <4>3, OnlyBadFrees
        <4> QED BY <2>1, <3>2, <4>1, <4>4 DEF Unfreed, Clean
      <3> QED BY <1>3, <3>1, <3>2 DEF Unfreed, Clean
    <2>2. CASE phase = "fields"
      <3>1. phase' \in {"fields", "overflow"}
        BY <1>4, <2>2, FourWays DEF Answers, Looks, Works, Calls, Rests
      <3>2. CASE NothingMissing /\ NamesApart
        <4>1. Finding
          BY <2>2, <3>2 DEF Mirrors
        <4>2. Top.next = 0
          <5>1. frames /= <<>>
            BY <1>4, FourWays
          <5>2. PICK d \in Nat : d = Len(frames) /\ d >= 1 /\ Top = frames[d]
            BY <5>1, TopOf
          <5>3. d <= 1
            BY <4>1, <5>2 DEF Finding
          <5>4. d = 1
            BY <5>2, <5>3
          <5> QED BY <4>1, <5>1, <5>2, <5>4 DEF Finding
        <4>3. ~CompoundDone
          BY <4>2 DEF CompoundDone
        <4>4. freed' = freed
          BY <1>4, <4>3, OnlyBadFrees
        <4> QED BY <2>2, <3>1, <3>2, <4>4 DEF Unfreed
      <3> QED BY <1>3, <3>1, <3>2 DEF Unfreed
    <2>3. phase \in {"types", "fields"}
      BY <1>4 DEF ValidateType, EnterKnown, EnterPrimitive, EnterCompound, EnterIdentifier, EnterScoped,
                  CallPart, PartDone, CompoundDone, Entering, Walking
    <2> QED BY <2>1, <2>2, <2>3
  <1>5. CASE ValidateModule
    <2>1. CASE BeginTypes
      <3>1. freed' = freed /\ phase = "parse"
        BY <2>1 DEF BeginTypes
      <3>2. freed' = {}
        BY <3>1 DEF Unfreed
      <3> QED BY <3>2 DEF Unfreed
    <2>2. CASE CallValidate
      <3>1. freed' = freed /\ phase' = phase /\ hadError' = hadError
        BY <2>2 DEF CallValidate
      <3> QED BY <1>3, <3>1 DEF Unfreed, Clean
    <2>3. CASE TypeDone
      <3>1. freed' = freed /\ hadError' = hadError
        BY <2>3 DEF TypeDone
      <3>2. phase = "types" /\ phase' \in {"types", "validator abort"}
        BY <2>3, TypeDoneDoes
      <3> QED BY <1>3, <3>1, <3>2 DEF Unfreed, Clean
    <2>4. CASE EndTypes
      <3>1. freed' = freed /\ phase = "types" /\ phase' = IF hadError THEN "rejected" ELSE "fields"
        BY <2>4 DEF EndTypes
      <3> QED BY <1>3, <3>1 DEF Unfreed, Clean
    <2>5. CASE FieldDone
      <3>1. freed' = freed /\ phase = "fields" /\ phase' \in {"fields", "field abort"}
        BY <2>5 DEF FieldDone
      <3> QED BY <1>3, <3>1 DEF Unfreed
    <2>6. CASE EndFieldTypes
      <3>1. freed' = freed /\ phase = "fields" /\ phase' \in {"rejected", "accepted"}
        BY <2>6 DEF EndFieldTypes, walkVars
      <3> QED BY <1>3, <3>1 DEF Unfreed
    <2> QED BY <1>5, <2>1, <2>2, <2>3, <2>4, <2>5, <2>6 DEF ValidateModule
  <1>6. CASE UNCHANGED vars
    BY <1>3, <1>6 DEF vars, walkVars, Unfreed, Clean
  <1> QED BY <1>4, <1>5, <1>6 DEF Next

-----------------------------------------------------------------------------
(* The results.                                                            *)
RegistryInv == Typed /\ ErrInv /\ SoundInv /\ Declarations /\ Bottom /\ Variants /\ Mirrors /\ Unfreed

LEMMA RegistryInvHolds == Spec => []RegistryInv
PROOF
  <1>1. Init => RegistryInv
    <2>1. Init => ErrInv /\ SoundInv
      BY DEF Init, ErrInv, SoundInv
    <2> QED BY <2>1, TypedInit, DeclarationsInit, BottomInit, VariantsInit, MirrorsInit, UnfreedInit DEF RegistryInv
  <1>2. RegistryInv /\ [Next]_vars => RegistryInv'
    BY TypedStep, ErrorsStep, DeclarationsStep, BottomStep, VariantsStep, MirrorsStep, UnfreedStep DEF RegistryInv
  <1> QED BY <1>1, <1>2, PTL DEF Spec

(* Where names stay apart and no imported type is missing, every type of   *)
(* the parser's table ends up in the validator's, of the same kind and     *)
(* made of what its parts mean, in whatever order the table was walked and *)
(* through whatever recursion between structs a type was reached, and none *)
(* of them has been freed.                                                 *)
THEOREM TableIsMirrored == Spec => [](NamesApart => MirrorsParsed)
PROOF
  <1>1. RegistryInv => (NamesApart => MirrorsParsed)
    <2> SUFFICES ASSUME Table, Walk, Mirrors, Unfreed, NamesApart, NothingMissing, phase \in {"fields", "accepted"},
                        NEW k \in DOMAIN parsed, parsed[k].kind \notin {"id", "scope"}
                 PROVE  /\ k \in DOMAIN checked
                        /\ checked[k].kind = parsed[k].kind
                        /\ checked[k].parts = [i \in DOMAIN parsed[k].parts |-> Meaning(parsed[k].parts[i])]
                        /\ freed = {}
      BY DEF RegistryInv, Typed, MirrorsParsed
    <2>1. ShapeOf(k, parsed[k], DOMAIN parsed)
      BY DEF Table, Shaped
    <2>2. parsed[k].kind \in Compound \cup {"prim"}
      BY <2>1 DEF ShapeOf, Kinds, Compound
    <2>3. k \in DOMAIN checked /\ Whole(k)
      BY <2>2 DEF Mirrors, Complete, Done
    <2>4. CheckedName(k)
      BY <2>3 DEF Walk
    <2>5. PICK q : q = parsed[k].parts
      OBVIOUS
    <2>6. q \in Seq(DOMAIN parsed)
      <3>1. CASE parsed[k].kind = "prim"
        <4>1. q = <<>>
          BY <2>1, <2>5, <3>1 DEF ShapeOf
        <4> QED BY <4>1
      <3> QED BY <2>1, <2>2, <2>5, <3>1 DEF ShapeOf
    <2>7. DOMAIN q = 1..Len(q) /\ (Len(q) + 1) - 1 = Len(q)
      BY <2>6
    <2>8. checked[k].parts = [i \in DOMAIN q |-> Meaning(q[i])]
      BY <2>3, <2>5, <2>7 DEF Whole, MeaningsTo
    <2>9. freed = {}
      BY DEF Unfreed
    <2> QED BY <2>3, <2>4, <2>5, <2>8, <2>9 DEF CheckedName
  <1> QED BY <1>1, RegistryInvHolds, PTL

(* Where names stay apart and no imported type is missing, every type that *)
(* is not a pointer or a function has its pointer type when the validator  *)
(* has gone over the types, whether it was written or was invented by      *)
(* generateTypeVariants(), and the one named "&T" points to a T.           *)
THEOREM PointersExist == Spec => [](NamesApart => EveryTypeHasPointer)
PROOF
  <1>1. RegistryInv => (NamesApart => EveryTypeHasPointer)
    <2> SUFFICES ASSUME Table, Walk, ErrInv, Declarations, Variants, Mirrors, NamesApart, NothingMissing,
                        phase \in {"fields", "accepted"}, NEW n \in DOMAIN checked
                 PROVE  /\ checked[n].kind \notin {"ptr", "fn"} => Ptr(n) \in DOMAIN checked
                        /\ checked[n].kind = "ptr" /\ Len(n) = 2 => checked[n].parts[1].name = Tail(n)
      BY DEF RegistryInv, Typed, EveryTypeHasPointer
    <2>1. CheckedName(n)
      BY DEF Walk
    <2>2. Complete
      BY DEF Mirrors
    <2>3. ASSUME checked[n].kind \notin {"ptr", "fn"} PROVE Ptr(n) \in DOMAIN checked
      <3>1. n \in DOMAIN parsed /\ parsed[n].kind \in {"prim", "struct"}
        BY <2>1, <2>3 DEF CheckedName, Compound
      <3>2. ShapeOf(n, parsed[n], DOMAIN parsed)
        BY <3>1 DEF Table, Shaped
      <3>3. PICK w \in Words : n = <<w>>
        BY <3>1, <3>2 DEF ShapeOf, Words
      <3>4. PICK p : p = <<"&", w>> /\ p = Ptr(n)
        BY <3>3, PointerOfWord
      <3>5. p \in DOMAIN checked \/ p \in DOMAIN parsed
        BY <2>2, <3>1, <3>4 DEF Complete, HasPointer
      <3>6. CASE p \in DOMAIN parsed
        <4>1. ShapeOf(p, parsed[p], DOMAIN parsed)
          BY <3>6 DEF Table, Shaped
        <4>2. p[1] = "&" /\ \A x : p /= <<x>>
          BY <3>4
        <4>3. parsed[p].kind /= "id"
          BY <4>1, <4>2, WordsAssumption DEF ShapeOf, Numbers
        <4>4. parsed[p].kind = "ptr"
          BY <4>1, <4>2, <4>3 DEF ShapeOf, Kinds
        <4> QED BY <2>2, <3>4, <3>6, <4>4 DEF Complete, Done, Compound
      <3> QED BY <3>4, <3>5, <3>6
    <2>4. ASSUME checked[n].kind = "ptr", Len(n) = 2 PROVE checked[n].parts[1].name = Tail(n)
      <3>1. ASSUME NEW w PROVE Tail(<<"&", w>>) = <<w>>
        OBVIOUS
      <3>2. CASE n \in DOMAIN parsed
        <4>1. parsed[n].kind = "ptr"
          BY <2>1, <2>4, <3>2 DEF CheckedName
        <4>2. PICK w \in Words : n = <<"&", w>> /\ PointsTo(n, parsed[n], w)
          BY <2>4, <3>2, <4>1 DEF Declarations, ShortPointer
        <4>3. PICK v, q : v = <<w>> /\ q = parsed[n].parts
          OBVIOUS
        <4>4. Whole(n) /\ Sound(n)
          BY <2>2, <3>2 DEF Complete, ErrInv
        <4>5. ASSUME NEW j, q = <<j>>, Meaning(j) = Ref(Here, v) PROVE checked[n].parts[1].name = v
          <5>1. Len(q) = 1 /\ q[1] = j
            BY <4>5
          <5>2. 1 \in 1..(Len(q) + 1 - 1)
            BY <5>1
          <5>3. checked[n].parts[1] = Meaning(j)
            BY <4>3, <4>4, <5>1, <5>2 DEF Whole, MeaningsTo
          <5> QED BY <4>5, <5>3 DEF Ref
        <4>6. CASE q = <<v>> /\ parsed[v].kind \in {"prim", "struct"}
          <5>1. Meaning(v) = Ref(Here, v)
            BY <4>6, CompoundMeans DEF Compound
          <5> QED BY <3>1, <4>2, <4>3, <4>5, <4>6, <5>1
        <4>7. CASE \E j \in DOMAIN parsed : q = <<j>> /\ parsed[j].kind = "id" /\ parsed[j].parts = v
          <5>1. PICK j \in DOMAIN parsed : q = <<j>> /\ parsed[j].kind = "id" /\ parsed[j].parts = v
            BY <4>7
          <5>2. Len(q) = 1 /\ q[1] = j /\ 1 \in 1..1
            BY <5>1
          <5>3. ~Dangling(j)
            BY <4>1, <4>3, <4>4, <5>2 DEF Sound, Compound
          <5>4. v \in DOMAIN parsed
            BY <5>1, <5>3 DEF Dangling
          <5>5. parsed[v].kind /= "id"
            BY <5>1, <5>4, TargetIsNoId
          <5>6. parsed[v].kind /= "scope"
            <6>1. SUFFICES ASSUME parsed[v].kind = "scope" PROVE FALSE
              OBVIOUS
            <6>2. ShapeOf(v, parsed[v], DOMAIN parsed)
              BY <5>4 DEF Table, Shaped
            <6>3. w \in Modules
              BY <4>3, <6>1, <6>2 DEF ShapeOf
            <6>4. w \in Prims
              BY <6>3 DEF Words, NamesApart
            <6>5. parsed[v].kind = "prim"
              BY <4>3, <6>4 DEF Table, HasPrims
            <6> QED BY <6>1, <6>5
          <5>7. Meaning(v) = Ref(Here, v)
            BY <5>5, <5>6, MeaningOf
          <5>8. Meaning(j) = Meaning(v)
            BY <5>1, <5>4, MeaningThrough
          <5> QED BY <3>1, <4>2, <4>3, <4>5, <5>1, <5>7, <5>8
        <4> QED BY <4>2, <4>3, <4>6, <4>7 DEF PointsTo
      <3>3. CASE n \notin DOMAIN parsed
        <4>1. PICK w \in Words : n = <<"&", w>>
          BY <2>1, <3>3 DEF CheckedName
        <4>2. PICK r \in Refs : checked[n].parts = <<r>> /\ r.name = <<w>>
          BY <3>3, <4>1, VariantsAre DEF FirstVariants
        <4> QED BY <3>1, <4>1, <4>2
      <3> QED BY <3>2, <3>3
    <2> QED BY <2>3, <2>4
  <1> QED BY <1>1, RegistryInvHolds, PTL

(* astModuleAddType() aborts in the validator only for a module that uses  *)
(* a type of another one, and, where names stay apart, validateStruct()    *)
(* only for a type that the imported module does not have.                 *)
THEOREM AbortsExplained == Spec => [](NamesApart => AbortsOnlyOnImportedTypes)
PROOF
  <1>1. RegistryInv => (NamesApart => AbortsOnlyOnImportedTypes)
    BY DEF RegistryInv, Variants, NoScopes, Mirrors, AbortsOnlyOnImportedTypes
  <1> QED BY <1>1, RegistryInvHolds, PTL
=============================================================================
