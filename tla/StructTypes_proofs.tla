------------------------- MODULE StructTypes_proofs -------------------------
(***************************************************************************)
(* For every set of structs and all their fields: the typechecker reports  *)
(* only structs that contain themselves, and lets no program through that  *)
(* has one.  The depth-first walk keeps no set of visited types, so the    *)
(* argument names for every root the largest set of types that is closed   *)
(* under use and does not hold the root: a type whose frame returned       *)
(* false is in it.                                                         *)
(***************************************************************************)
EXTENDS StructTypes, FiniteSetTheorems, TLAPS

\* The types that do not contain r.
Avoiding(r) == UNION {S \in SUBSET Names : Closed(S) /\ r \notin S}

\* The fields of frames[k].type whose call has returned (false).
Returned(k) == IF k = Len(frames) THEN frames[k].next - 1 ELSE frames[k].next - 2

FramesInv ==
  \A k \in DOMAIN frames :
    /\ frames[k].next - 1 \in 0..Len(uses[frames[k].type])
    /\ \A j \in 1..Returned(k) : uses[frames[k].type][j] \in Avoiding(root)
    /\ k > 1 => /\ frames[k].type /= root
                /\ frames[k - 1].next >= 2
                /\ frames[k].type = uses[frames[k - 1].type][frames[k - 1].next - 1]

BelowRoot ==
  \A S \in SUBSET Names : Closed(S) /\ Elements(uses[root]) \subseteq S =>
    \A k \in DOMAIN frames : frames[k].type \in S

\* The walk of field <<s, i>> is over.
Passed(s, i) == s \in recursive \/ uses[s][i] \in Avoiding(s)

FieldsInv ==
  IF frames = <<>>
  THEN \A f \in AllFields \ todo : Passed(f[1], f[2])
  ELSE /\ root \in Names
       /\ \E i \in DOMAIN uses[root] :
            /\ frames[1].type = uses[root][i]
            /\ \A f \in AllFields \ todo : f = <<root, i>> \/ Passed(f[1], f[2])

WalkInv ==
  phase = "typecheck" => FramesInv /\ FieldsInv /\ (frames /= <<>> => BelowRoot)

IInv == TypesTypeOK /\ ReportsAreTrue /\ AcceptedAreAcyclic /\ WalkInv

-----------------------------------------------------------------------------
(* Avoiding(r) is the largest closed set without r.                        *)
LEMMA AvoidingClosed ==
  ASSUME NEW r
  PROVE  Closed(Avoiding(r)) /\ r \notin Avoiding(r) /\ Avoiding(r) \in SUBSET Names
BY DEF Avoiding, Closed

LEMMA AvoidingLargest ==
  ASSUME NEW r, NEW S \in SUBSET Names, Closed(S), r \notin S
  PROVE  S \subseteq Avoiding(r)
BY DEF Avoiding

LEMMA AvoidingGrows ==
  ASSUME NEW r, NEW t \in Names, t /= r, Elements(uses[t]) \subseteq Avoiding(r)
  PROVE  t \in Avoiding(r)
<1> DEFINE S == Avoiding(r) \cup {t}
<1>1. Closed(S) /\ r \notin S /\ S \in SUBSET Names
  BY AvoidingClosed DEF Closed
<1> QED BY <1>1, AvoidingLargest

LEMMA SameUses ==
  ASSUME uses' = uses
  PROVE  /\ \A r : Avoiding(r)' = Avoiding(r)
         /\ \A S : Closed(S)' = Closed(S)
         /\ \A m, n : Contains(m, n)' = Contains(m, n)
         /\ Recursive' = Recursive
         /\ AllFields' = AllFields
<1>1. \A S : Closed(S)' = Closed(S)
  BY DEF Closed, Elements
<1>2. \A r : Avoiding(r)' = Avoiding(r)
  BY <1>1 DEF Avoiding
<1>3. \A m, n : Contains(m, n)' = Contains(m, n)
  BY <1>1 DEF Contains, Elements
<1> QED BY <1>1, <1>2, <1>3 DEF Recursive, AllFields

\* Nothing is recursive once every field of every struct has been passed.
LEMMA AllPassed ==
  ASSUME TypesTypeOK, recursive = {}, \A f \in AllFields : Passed(f[1], f[2])
  PROVE  Recursive = {}
<1> SUFFICES ASSUME NEW m \in Names, Contains(m, m) PROVE FALSE
  BY DEF Recursive
<1>1. Elements(uses[m]) \subseteq Avoiding(m)
  <2> SUFFICES ASSUME NEW i \in DOMAIN uses[m] PROVE uses[m][i] \in Avoiding(m)
    BY DEF Elements
  <2>1. <<m, i>> \in AllFields
    BY DEF AllFields
  <2>2. Passed(m, i)
    BY <2>1
  <2> QED BY <2>2 DEF Passed
<1> QED BY <1>1, AvoidingClosed DEF Contains

-----------------------------------------------------------------------------
(* The steps.                                                              *)
LEMMA InitInv == LocalInit => IInv
<1> SUFFICES ASSUME LocalInit PROVE IInv
  OBVIOUS
<1>1. /\ nodes \in Seq(Names) /\ uses \in [Names -> Seq(Names)] /\ phase = "typecheck"
      /\ todo = AllFields /\ root = NoName /\ frames = <<>> /\ recursive = {}
  BY DEF LocalInit, TypesInit
<1>2. TypesTypeOK
  BY <1>1 DEF TypesTypeOK
<1> QED BY <1>1, <1>2
     DEF IInv, ReportsAreTrue, AcceptedAreAcyclic, SortPhases, WalkInv, FramesInv, FieldsInv

LEMMA StartWalkInv == IInv /\ StartWalk => IInv'
<1> SUFFICES ASSUME IInv, StartWalk PROVE IInv'
  OBVIOUS
<1>1. /\ phase = "typecheck" /\ phase' = phase /\ frames = <<>>
      /\ nodes' = nodes /\ uses' = uses /\ recursive' = recursive
  BY DEF StartWalk, sortVars
<1>2. TypesTypeOK /\ ReportsAreTrue /\ WalkInv
  BY DEF IInv
<1>3. PICK f \in todo : /\ todo' = todo \ {f} /\ root' = f[1]
                        /\ frames' = <<Frame(uses[f[1]][f[2]])>>
  BY DEF StartWalk
<1>4. f \in AllFields /\ AllFields' = AllFields
  BY <1>1, <1>2, SameUses DEF TypesTypeOK
<1>5. PICK s \in Names : \E i \in DOMAIN uses[s] : f = <<s, i>>
  BY <1>4 DEF AllFields
<1>6. PICK i \in DOMAIN uses[s] : f = <<s, i>>
  BY <1>5
<1>7. PICK t : t = uses[s][i]
  OBVIOUS
<1>8. t \in Names /\ t \in Elements(uses[s]) /\ root' = s /\ frames' = <<Frame(t)>>
  BY <1>2, <1>3, <1>6, <1>7 DEF TypesTypeOK, Elements
<1>9. frames' /= <<>> /\ DOMAIN frames' = {1} /\ Len(frames') = 1 /\ frames'[1] = [type |-> t, next |-> 1]
  BY <1>8 DEF Frame
<1>10. TypesTypeOK'
  BY <1>1, <1>2, <1>3, <1>4, <1>8 DEF TypesTypeOK, Frame, Frames
<1>11. ReportsAreTrue'
  BY <1>1, <1>2, SameUses DEF ReportsAreTrue
<1>12. FramesInv'
  <2>1. Returned(1)' = 0
    BY <1>9 DEF Returned
  <2>2. Len(uses[t]) \in Nat
    BY <1>2, <1>8 DEF TypesTypeOK
  <2> QED BY <1>1, <1>9, <2>1, <2>2 DEF FramesInv
<1>13. BelowRoot'
  BY <1>1, <1>8, <1>9 DEF BelowRoot, Elements
<1>14. FieldsInv'
  <2>1. \A g \in AllFields \ todo : Passed(g[1], g[2])
    BY <1>1, <1>2 DEF WalkInv, FieldsInv
  <2>2. \A x, y : Passed(x, y)' = Passed(x, y)
    BY <1>1, SameUses DEF Passed
  <2>3. \A g \in AllFields \ todo' : g = <<s, i>> \/ Passed(g[1], g[2])'
    BY <2>1, <2>2, <1>3, <1>6
  <2>4. frames'[1].type = uses[s][i]
    BY <1>7, <1>9
  <2> QED BY <2>3, <2>4, <1>1, <1>4, <1>6, <1>8, <1>9 DEF FieldsInv
<1> QED BY <1>1, <1>10, <1>11, <1>12, <1>13, <1>14 DEF IInv, AcceptedAreAcyclic, SortPhases, WalkInv

\* What a step of the walk that goes on starts from.
LEMMA InWalk ==
  ASSUME IInv, phase = "typecheck", frames /= <<>>
  PROVE  /\ TypesTypeOK /\ ReportsAreTrue /\ FramesInv /\ FieldsInv /\ BelowRoot
         /\ Len(frames) \in DOMAIN frames /\ Len(frames) \in Nat \ {0}
         /\ DOMAIN frames = 1..Len(frames)
         /\ Top.type \in Names /\ Top.next \in Nat \ {0}
         /\ uses[Top.type] \in Seq(Names)
<1>1. TypesTypeOK /\ ReportsAreTrue /\ FramesInv /\ FieldsInv /\ BelowRoot
  BY DEF IInv, WalkInv
<1>2. frames \in Seq(Frames)
  BY <1>1 DEF TypesTypeOK
<1>3. Len(frames) \in DOMAIN frames /\ Len(frames) \in Nat \ {0} /\ DOMAIN frames = 1..Len(frames)
  BY <1>2
<1>4. Top \in Frames
  BY <1>2, <1>3 DEF Top
<1> QED BY <1>1, <1>3, <1>4 DEF Frames, TypesTypeOK

LEMMA FindRootInv == IInv /\ FindRoot => IInv'
<1> SUFFICES ASSUME IInv, FindRoot PROVE IInv'
  OBVIOUS
<1>1. /\ phase = "typecheck" /\ phase' = phase /\ frames /= <<>> /\ frames' = <<>>
      /\ nodes' = nodes /\ uses' = uses /\ recursive' = recursive \cup {root}
      /\ todo' = todo /\ root' = root
      /\ Top.next <= Len(uses[Top.type]) /\ uses[Top.type][Top.next] = root
  BY DEF FindRoot, sortVars, ContainsRoot
<1>2. /\ TypesTypeOK /\ ReportsAreTrue /\ FieldsInv /\ BelowRoot
      /\ Len(frames) \in DOMAIN frames
      /\ Top.type \in Names /\ Top.next \in Nat \ {0} /\ uses[Top.type] \in Seq(Names)
  BY <1>1, InWalk
<1>3. root \in Names
  BY <1>1, <1>2 DEF FieldsInv
<1>4. TypesTypeOK'
  BY <1>1, <1>2, <1>3, SameUses DEF TypesTypeOK
<1>5. root \in Recursive
  <2>1. ASSUME NEW S \in SUBSET Names, Closed(S), Elements(uses[root]) \subseteq S
        PROVE  root \in S
    <3>1. Top.type \in S
      BY <2>1, <1>2 DEF BelowRoot, Top
    <3>2. root \in Elements(uses[Top.type])
      BY <1>1, <1>2 DEF Elements
    <3> QED BY <2>1, <3>1, <3>2 DEF Closed
  <2> QED BY <2>1, <1>3 DEF Recursive, Contains
<1>6. ReportsAreTrue'
  BY <1>1, <1>2, <1>5, SameUses DEF ReportsAreTrue
<1>7. FieldsInv'
  <2>1. PICK i \in DOMAIN uses[root] :
          \A f \in AllFields \ todo : f = <<root, i>> \/ Passed(f[1], f[2])
    BY <1>1, <1>2 DEF FieldsInv
  <2>2. \A x, y : Passed(x, y) \/ x = root => Passed(x, y)'
    BY <1>1, SameUses DEF Passed
  <2> QED BY <2>1, <2>2, <1>1, SameUses DEF FieldsInv
<1>8. FramesInv'
  BY <1>1 DEF FramesInv
<1> QED BY <1>1, <1>4, <1>6, <1>7, <1>8 DEF IInv, AcceptedAreAcyclic, SortPhases, WalkInv

LEMMA DescendInv == IInv /\ Descend => IInv'
<1> SUFFICES ASSUME IInv, Descend PROVE IInv'
  OBVIOUS
<1>1. /\ phase = "typecheck" /\ frames /= <<>>
      /\ nodes' = nodes /\ uses' = uses /\ recursive' = recursive /\ todo' = todo /\ root' = root
      /\ Top.next <= Len(uses[Top.type]) /\ uses[Top.type][Top.next] /= root
  BY DEF Descend, ContainsRoot
<1>2. /\ TypesTypeOK /\ ReportsAreTrue /\ FramesInv /\ FieldsInv /\ BelowRoot
      /\ Len(frames) \in DOMAIN frames /\ Len(frames) \in Nat \ {0} /\ DOMAIN frames = 1..Len(frames)
      /\ Top.type \in Names /\ Top.next \in Nat \ {0} /\ uses[Top.type] \in Seq(Names)
  BY <1>1, InWalk
<1>3. TypesTypeOK /\ ReportsAreTrue' /\ (\A r : Avoiding(r)' = Avoiding(r)) /\ AllFields' = AllFields
  BY <1>1, <1>2, SameUses DEF ReportsAreTrue
<1>4. CASE Len(frames) = MaxDepth
  <2>1. phase' = "overflow" /\ frames' = frames
    BY <1>4 DEF Descend
  <2> QED BY <2>1, <1>1, <1>3 DEF IInv, TypesTypeOK, AcceptedAreAcyclic, SortPhases, WalkInv
<1>5. CASE Len(frames) /= MaxDepth
  <2>1. PICK top, d, t : top = Top /\ d = Len(frames) /\ t = uses[Top.type][Top.next]
    OBVIOUS
  <2>2. /\ d \in Nat \ {0} /\ DOMAIN frames = 1..d /\ frames \in Seq(Frames) /\ frames[d] = top
        /\ top \in Frames /\ t \in Names /\ t /= root /\ t \in Elements(uses[top.type])
        /\ top.type \in Names /\ top.next \in Nat \ {0}
    <3>1. frames \in Seq(Frames) /\ frames[d] = top
      BY <2>1, <1>2 DEF TypesTypeOK, Top
    <3>2. t \in Names /\ t \in Elements(uses[top.type])
      BY <2>1, <1>1, <1>2 DEF Elements
    <3> QED BY <3>1, <3>2, <2>1, <1>1, <1>2
  <2>3. PICK top2 : top2 = [top EXCEPT !.next = @ + 1]
    OBVIOUS
  <2>4. top2 \in Frames /\ top2.type = top.type /\ top2.next = top.next + 1
    BY <2>2, <2>3 DEF Frames
  <2>5. phase' = phase /\ frames' = Append([frames EXCEPT ![d] = top2], Frame(t))
    BY <1>5, <2>1, <2>2, <2>3 DEF Descend
  <2>6. [frames EXCEPT ![d] = top2] \in Seq(Frames) /\ Frame(t) \in Frames
    BY <2>2, <2>4 DEF Frame, Frames
  <2>7. /\ frames' \in Seq(Frames) /\ Len(frames') = d + 1 /\ DOMAIN frames' = 1..(d + 1)
        /\ \A k \in 1..(d - 1) : frames'[k] = frames[k]
        /\ frames'[d] = top2 /\ frames'[d + 1] = [type |-> t, next |-> 1]
    BY <2>2, <2>5, <2>6 DEF Frame
  <2>8. TypesTypeOK'
    BY <1>1, <1>3, <2>5, <2>7 DEF TypesTypeOK
  <2>9. FramesInv'
    <3>1. ASSUME NEW k \in 1..(d - 1) PROVE Returned(k)' = Returned(k)
      <4>1. k /= d /\ k /= d + 1 /\ Len(frames) = d /\ Len(frames') = d + 1 /\ frames'[k] = frames[k]
        BY <2>1, <2>2, <2>7
      <4>2. Returned(k) = frames[k].next - 2 /\ Returned(k)' = frames'[k].next - 2
        BY <4>1 DEF Returned
      <4> QED BY <4>1, <4>2
    <3>2. Returned(d)' = Returned(d) /\ Returned(d + 1)' = 0
      <4>1. d /= d + 1 /\ Len(frames) = d /\ Len(frames') = d + 1
        BY <2>1, <2>2, <2>7
      <4>2. /\ Returned(d) = top.next - 1 /\ Returned(d)' = top2.next - 2
            /\ Returned(d + 1)' = 1 - 1
        BY <4>1, <2>2, <2>7 DEF Returned
      <4> QED BY <4>2, <2>2, <2>4
    <3> DEFINE Good(k) ==
          /\ frames'[k].next - 1 \in 0..Len(uses[frames'[k].type])
          /\ \A j \in 1..(Returned(k)') : uses[frames'[k].type][j] \in Avoiding(root)
          /\ k > 1 => /\ frames'[k].type /= root
                      /\ frames'[k - 1].next >= 2
                      /\ frames'[k].type = uses[frames'[k - 1].type][frames'[k - 1].next - 1]
    <3>3. ASSUME NEW k \in 1..(d - 1) PROVE Good(k)
      <4>1. k \in DOMAIN frames /\ k \in Nat /\ (k > 1 => k - 1 \in 1..(d - 1))
        BY <2>2
      <4> QED BY <4>1, <3>1, <2>7, <1>2 DEF FramesInv
    <3>4. Good(d)
      <4>1. d > 1 => d - 1 \in 1..(d - 1)
        BY <2>2
      <4>2. top2.next - 1 \in 0..Len(uses[top2.type])
        BY <2>1, <2>2, <2>4, <1>1, <1>2
      <4>3. \A j \in 1..Returned(d) : uses[top.type][j] \in Avoiding(root)
        BY <2>2, <1>2 DEF FramesInv
      <4>4. d > 1 => /\ top.type /= root /\ frames[d - 1].next >= 2
                    /\ top.type = uses[frames[d - 1].type][frames[d - 1].next - 1]
        BY <2>2, <1>2 DEF FramesInv
      <4>5. d > 1 => frames'[d - 1] = frames[d - 1]
        BY <4>1, <2>7
      <4> QED BY <4>2, <4>3, <4>4, <4>5, <3>2, <2>4, <2>7
    <3>5. Good(d + 1)
      <4>1. frames'[d + 1].next - 1 \in 0..Len(uses[t])
        <5>1. uses[t] \in Seq(Names)
          BY <2>2, <1>2 DEF TypesTypeOK
        <5> QED BY <5>1, <2>7
      <4>2. frames'[d].next >= 2 /\ t = uses[frames'[d].type][frames'[d].next - 1]
        BY <2>1, <2>2, <2>4, <2>7
      <4>3. d + 1 > 1 /\ (d + 1) - 1 = d
        BY <2>2
      <4> QED BY <4>1, <4>2, <4>3, <3>2, <2>2, <2>7
    <3>6. \A k \in DOMAIN frames' : k \in 1..(d - 1) \/ k = d \/ k = d + 1
      BY <2>2, <2>7
    <3>7. \A k \in DOMAIN frames' : Good(k)
      BY <3>3, <3>4, <3>5, <3>6
    <3>8. HIDE DEF Good
    <3>9. QED BY <3>7, <1>1, <1>3 DEF Good, FramesInv
  <2>10. FieldsInv'
    <3>1. frames'[1].type = frames[1].type /\ frames' /= <<>>
      <4>1. CASE d = 1
        BY <4>1, <2>2, <2>4, <2>7
      <4>2. CASE d > 1
        BY <4>2, <2>2, <2>7
      <4> QED BY <4>1, <4>2, <2>2
    <3>2. \A x, y : Passed(x, y)' = Passed(x, y)
      BY <1>1, <1>3 DEF Passed
    <3> QED BY <3>1, <3>2, <1>1, <1>2, <1>3 DEF FieldsInv
  <2>11. BelowRoot'
    <3> SUFFICES ASSUME NEW S \in SUBSET Names, Closed(S), Elements(uses[root]) \subseteq S,
                        NEW k \in DOMAIN frames'
                 PROVE  frames'[k].type \in S
      BY <1>1, SameUses DEF BelowRoot, Elements
    <3>1. \A j \in 1..d : frames[j].type \in S
      BY <1>2, <2>2 DEF BelowRoot
    <3>2. t \in S
      BY <3>1, <2>2 DEF Closed
    <3>3. k \in 1..(d - 1) \/ k = d \/ k = d + 1
      BY <2>2, <2>7
    <3>4. k \in 1..(d - 1) => k \in 1..d
      BY <2>2
    <3> QED BY <3>1, <3>2, <3>3, <3>4, <2>2, <2>4, <2>7
  <2> QED BY <1>1, <1>3, <2>5, <2>8, <2>9, <2>10, <2>11
          DEF IInv, AcceptedAreAcyclic, SortPhases, WalkInv
<1> QED BY <1>4, <1>5

LEMMA ReturnFalseInv == IInv /\ ReturnFalse => IInv'
<1> SUFFICES ASSUME IInv, ReturnFalse PROVE IInv'
  OBVIOUS
<1>1. /\ phase = "typecheck" /\ phase' = phase /\ frames /= <<>>
      /\ nodes' = nodes /\ uses' = uses /\ recursive' = recursive /\ todo' = todo /\ root' = root
      /\ Top.next > Len(uses[Top.type]) /\ frames' = SubSeq(frames, 1, Len(frames) - 1)
  BY DEF ReturnFalse, sortVars
<1>2. /\ TypesTypeOK /\ ReportsAreTrue /\ FramesInv /\ FieldsInv /\ BelowRoot
      /\ Len(frames) \in DOMAIN frames /\ Len(frames) \in Nat \ {0} /\ DOMAIN frames = 1..Len(frames)
      /\ Top.type \in Names /\ Top.next \in Nat \ {0} /\ uses[Top.type] \in Seq(Names)
  BY <1>1, InWalk
<1>3. ReportsAreTrue' /\ (\A r : Avoiding(r)' = Avoiding(r)) /\ AllFields' = AllFields
  BY <1>1, <1>2, SameUses DEF ReportsAreTrue
<1>4. PICK d, t : d = Len(frames) /\ t = Top.type
  OBVIOUS
<1>5. /\ d \in Nat \ {0} /\ DOMAIN frames = 1..d /\ frames \in Seq(Frames) /\ frames[d].type = t
      /\ t \in Names /\ uses[t] \in Seq(Names)
  BY <1>2, <1>4 DEF TypesTypeOK, Top
<1>6. Returned(d) = Len(uses[t])
  <2>1. frames[d].next - 1 \in 0..Len(uses[t])
    BY <1>2, <1>5 DEF FramesInv
  <2>2. frames[d].next > Len(uses[t]) /\ frames[d].next \in Nat
    BY <1>1, <1>2, <1>4 DEF Top
  <2> QED BY <2>1, <2>2, <1>4, <1>5 DEF Returned
<1>7. Elements(uses[t]) \subseteq Avoiding(root)
  BY <1>2, <1>5, <1>6 DEF FramesInv, Elements
<1>8. t /= root => t \in Avoiding(root)
  BY <1>5, <1>7, AvoidingGrows
<1>9. /\ frames' \in Seq(Frames) /\ Len(frames') = d - 1 /\ DOMAIN frames' = 1..(d - 1)
      /\ \A k \in 1..(d - 1) : frames'[k] = frames[k]
  BY <1>1, <1>4, <1>5
<1>10. TypesTypeOK'
  BY <1>1, <1>2, <1>3, <1>9 DEF TypesTypeOK
<1>11. FramesInv'
  <2> SUFFICES ASSUME NEW k \in 1..(d - 1)
               PROVE  \A j \in 1..(Returned(k)') : uses[frames[k].type][j] \in Avoiding(root)
    <3>1. \A k \in 1..(d - 1) : k \in DOMAIN frames /\ k \in Nat /\ (k > 1 => k - 1 \in 1..(d - 1))
      BY <1>5
    <3>2. ASSUME NEW k \in 1..(d - 1)
          PROVE  /\ frames'[k].next - 1 \in 0..Len(uses[frames'[k].type])
                 /\ k > 1 => /\ frames'[k].type /= root
                            /\ frames'[k - 1].next >= 2
                            /\ frames'[k].type = uses[frames'[k - 1].type][frames'[k - 1].next - 1]
      <4>1. frames'[k] = frames[k] /\ (k > 1 => frames'[k - 1] = frames[k - 1])
        BY <3>1, <1>9
      <4> QED BY <4>1, <3>1, <1>2 DEF FramesInv
    <3>3. ASSUME NEW k \in 1..(d - 1)
          PROVE  \A j \in 1..(Returned(k)') : uses[frames'[k].type][j] \in Avoiding(root)'
      BY <1>1, <1>3, <1>9
    <3> QED BY <3>2, <3>3, <1>1, <1>9 DEF FramesInv
  <2>1. k \in DOMAIN frames /\ k /= d /\ k \in Nat
    BY <1>5
  <2>2. frames[k].next \in Nat
    <3>1. frames[k] \in Frames
      BY <1>5, <2>1
    <3> QED BY <3>1 DEF Frames
  <2>3. Returned(k) = frames[k].next - 2
    BY <2>1, <1>4 DEF Returned
  <2>4. \A j \in 1..(frames[k].next - 2) : uses[frames[k].type][j] \in Avoiding(root)
    BY <2>1, <2>3, <1>2 DEF FramesInv
  <2>5. CASE k < d - 1
    <3>1. Returned(k)' = frames[k].next - 2
      BY <2>5, <2>1, <1>5, <1>9 DEF Returned
    <3> QED BY <3>1, <2>4
  <2>6. CASE k = d - 1
    <3>1. Returned(k)' = frames[k].next - 1
      BY <2>6, <1>9 DEF Returned
    <3>2. d > 1 /\ d - 1 = k
      BY <2>6, <1>5
    <3>3. t /= root /\ t = uses[frames[k].type][frames[k].next - 1]
      BY <3>2, <1>2, <1>5 DEF FramesInv
    <3>4. \A j \in 1..(frames[k].next - 1) : j \in 1..(frames[k].next - 2) \/ j = frames[k].next - 1
      BY <2>2
    <3> QED BY <3>1, <3>3, <3>4, <2>4, <1>8
  <2> QED BY <2>5, <2>6, <2>1, <1>5
<1>12. FieldsInv'
  <2>1. PICK i \in DOMAIN uses[root] :
          /\ frames[1].type = uses[root][i]
          /\ \A f \in AllFields \ todo : f = <<root, i>> \/ Passed(f[1], f[2])
    BY <1>1, <1>2 DEF FieldsInv
  <2>2. \A x, y : Passed(x, y)' = Passed(x, y)
    BY <1>1, <1>3 DEF Passed
  <2>3. CASE d = 1
    <3>1. frames' = <<>> /\ t = uses[root][i]
      BY <2>1, <2>3, <1>5, <1>9
    <3>2. t /= root
      <4>1. t = root => root \in Elements(uses[t])
        BY <3>1, <2>1 DEF Elements
      <4> QED BY <4>1, <1>7, AvoidingClosed
    <3>3. Passed(root, i)
      BY <3>1, <3>2, <1>8 DEF Passed
    <3>4. \A f \in AllFields \ todo : Passed(f[1], f[2])
      BY <2>1, <3>3
    <3> QED BY <3>1, <3>4, <2>2, <1>1, <1>3 DEF FieldsInv
  <2>4. CASE d > 1
    <3>1. 1 \in 1..(d - 1)
      BY <2>4, <1>5
    <3>2. frames'[1] = frames[1] /\ frames' /= <<>>
      BY <3>1, <1>9
    <3> QED BY <3>2, <2>1, <2>2, <1>1, <1>2, <1>3 DEF FieldsInv
  <2> QED BY <2>3, <2>4, <1>5
<1>13. BelowRoot'
  <2>1. \A k \in DOMAIN frames' : k \in DOMAIN frames /\ frames'[k] = frames[k]
    BY <1>5, <1>9
  <2> QED BY <2>1, <1>1, <1>2, SameUses DEF BelowRoot, Elements
<1> QED BY <1>1, <1>3, <1>10, <1>11, <1>12, <1>13 DEF IInv, AcceptedAreAcyclic, SortPhases, WalkInv

LEMMA TypecheckDoneInv == IInv /\ TypecheckDone => IInv'
<1> SUFFICES ASSUME IInv, TypecheckDone PROVE IInv'
  OBVIOUS
<1>1. /\ phase = "typecheck" /\ frames = <<>> /\ todo = {}
      /\ phase' = IF recursive = {} THEN "count" ELSE "rejected"
      /\ nodes' = nodes /\ uses' = uses /\ recursive' = recursive /\ todo' = todo
      /\ root' = root /\ frames' = frames
  BY DEF TypecheckDone, NextPhase, walkVars
<1>2. TypesTypeOK /\ ReportsAreTrue /\ FieldsInv
  BY <1>1 DEF IInv, WalkInv
<1>3. recursive = {} => Recursive = {}
  BY <1>1, <1>2, AllPassed DEF FieldsInv
<1>4. AcceptedAreAcyclic'
  BY <1>1, <1>3, SameUses DEF AcceptedAreAcyclic, SortPhases
<1>5. TypesTypeOK' /\ ReportsAreTrue'
  BY <1>1, <1>2, SameUses DEF TypesTypeOK, ReportsAreTrue, SortPhases
<1> QED BY <1>1, <1>4, <1>5 DEF IInv, WalkInv

LEMMA GeneratePhases ==
  ASSUME SortNext
  PROVE  phase \in SortPhases /\ phase' \in SortPhases /\ nodes' = nodes /\ uses' = uses
<1>1. CASE CountUses
  BY <1>1 DEF CountUses, SortPhases
<1>2. CASE Seed
  BY <1>2 DEF Seed, SortPhases
<1>3. CASE SeedDone
  BY <1>3 DEF SeedDone, SortPhases
<1>4. CASE Pop
  BY <1>4 DEF Pop, Below, SortPhases
<1>5. CASE CrossOff
  BY <1>5 DEF CrossOff, SortPhases
<1>6. CASE CrossedOff
  BY <1>6 DEF CrossedOff, SortPhases
<1>7. CASE Finish
  BY <1>7 DEF Finish, Complete, SortPhases
<1> QED BY <1>1, <1>2, <1>3, <1>4, <1>5, <1>6, <1>7 DEF SortNext

LEMMA GenerateInv == IInv /\ Generate => IInv'
<1> SUFFICES ASSUME IInv, Generate PROVE IInv'
  OBVIOUS
<1>1. /\ phase \in SortPhases /\ phase' \in SortPhases /\ nodes' = nodes /\ uses' = uses
      /\ recursive' = recursive /\ todo' = todo /\ root' = root /\ frames' = frames
  BY GeneratePhases DEF Generate, walkVars
<1> QED BY <1>1, SameUses
        DEF IInv, TypesTypeOK, ReportsAreTrue, AcceptedAreAcyclic, WalkInv, SortPhases

LEMMA StutterInv == IInv /\ UNCHANGED vars => IInv'
<1> SUFFICES ASSUME IInv, UNCHANGED vars PROVE IInv'
  OBVIOUS
<1>1. /\ phase' = phase /\ nodes' = nodes /\ uses' = uses
      /\ recursive' = recursive /\ todo' = todo /\ root' = root /\ frames' = frames
  BY DEF vars, sortVars, walkVars
<1>2. /\ \A r : Avoiding(r)' = Avoiding(r)
      /\ Recursive' = Recursive /\ AllFields' = AllFields
      /\ \A S : Closed(S)' = Closed(S)
  BY <1>1, SameUses
<1>3. TypesTypeOK' /\ ReportsAreTrue' /\ AcceptedAreAcyclic'
  BY <1>1, <1>2 DEF IInv, TypesTypeOK, ReportsAreTrue, AcceptedAreAcyclic
<1>4. \A k : Returned(k)' = Returned(k)
  BY <1>1 DEF Returned
<1>5. FramesInv => FramesInv'
  BY <1>1, <1>2, <1>4 DEF FramesInv
<1>6. FieldsInv => FieldsInv'
  BY <1>1, <1>2 DEF FieldsInv, Passed
<1>7. BelowRoot => BelowRoot'
  BY <1>1, <1>2 DEF BelowRoot, Elements
<1> QED BY <1>1, <1>3, <1>5, <1>6, <1>7 DEF IInv, WalkInv

-----------------------------------------------------------------------------
THEOREM Invariance == LocalSpec => []IInv
<1>1. LocalInit => IInv
  BY InitInv
<1>2. IInv /\ [Next]_vars => IInv'
  BY StartWalkInv, FindRootInv, DescendInv, ReturnFalseInv, TypecheckDoneInv, GenerateInv, StutterInv
     DEF Next, Typecheck
<1> QED BY <1>1, <1>2, PTL DEF LocalSpec

(* Type correctness, for all structs, fields and depths of the C stack.    *)
THEOREM TypeCorrect == LocalSpec => []TypesTypeOK
BY Invariance, PTL DEF IInv

(* The typechecker's verdict on struct types is right: what it reports is  *)
(* recursive, and a program it lets through to the code generator has no   *)
(* struct that contains itself.                                            *)
THEOREM VerdictCorrect == LocalSpec => [](ReportsAreTrue /\ AcceptedAreAcyclic)
BY Invariance, PTL DEF IInv

(* The theorems about the sort are stated for TopoSort's own specification.*)
(* Code generation takes TopoSort's steps, and to it the typechecker's     *)
(* phases are one phase before counting: what carries those theorems over  *)
(* to the compiler's specification is this lemma.                          *)
sortPhase == IF phase \in SortPhases THEN phase ELSE "count"
Sort == INSTANCE TopoSort WITH phase <- sortPhase

LEMMA SortSteps == LocalSpec => Sort!ClosedSpec
<1>1. LocalInit => Sort!ClosedInit
  <2> SUFFICES ASSUME LocalInit PROVE Sort!ClosedInit
    OBVIOUS
  <2>1. sortPhase = "count"
    BY DEF LocalInit, TypesInit, sortPhase, SortPhases
  <2>2. Sort!SortInit(Seq(Names), [Names -> Seq(Names)])
    BY <2>1 DEF LocalInit, TypesInit, Sort!SortInit
  <2>3. \A m \in Names : Elements(uses[m]) \subseteq Names
    BY DEF LocalInit, TypesInit, Elements
  <2>4. Sort!ClosedGraph
    BY <2>3 DEF LocalInit, Sort!ClosedGraph, Sort!Distinct, Sort!Elements, Distinct, Elements
  <2> QED BY <2>2, <2>4 DEF Sort!ClosedInit
<1>2. [Next]_vars => [Sort!SortNext]_(Sort!sortVars)
  <2> SUFFICES ASSUME [Next]_vars PROVE Sort!SortNext \/ UNCHANGED Sort!sortVars
    OBVIOUS
  <2>1. CASE Typecheck
    <3>1. sortPhase = "count" /\ sortPhase' = "count"
      BY <2>1 DEF Typecheck, StartWalk, FindRoot, Descend, ReturnFalse, TypecheckDone, NextPhase,
                  sortPhase, SortPhases, sortVars
    <3>2. UNCHANGED <<nodes, uses, dependencies, stack, output, node, next>>
      BY <2>1 DEF Typecheck, StartWalk, FindRoot, Descend, ReturnFalse, TypecheckDone, sortVars
    <3> QED BY <3>1, <3>2 DEF Sort!sortVars
  <2>2. CASE Generate
    <3>1. sortPhase = phase /\ sortPhase' = phase' /\ SortNext
      BY <2>2, GeneratePhases DEF Generate, sortPhase
    <3>2. CASE CountUses
      <4>1. \A S : Sort!Cardinality(S) = Cardinality(S)
        BY DEF Sort!Cardinality, Cardinality
      <4>2. dependencies' = [n \in Sort!Elements(nodes) \cup Sort!UsedNames |-> Sort!Cardinality(Sort!UsePlaces(n))]
        BY <3>2, <4>1 DEF CountUses, UsedNames, UsePlaces, Elements,
                    Sort!UsedNames, Sort!UsePlaces, Sort!Elements
      <4>3. /\ sortPhase = "count" /\ stack' = <<>> /\ output' = <<>> /\ node' = NoName /\ next' = 1
            /\ sortPhase' = "seed" /\ UNCHANGED <<nodes, uses>>
        BY <3>1, <3>2 DEF CountUses
      <4>4. Sort!CountUses
        BY <4>2, <4>3 DEF Sort!CountUses
      <4> QED BY <4>4 DEF Sort!SortNext
    <3>3. CASE Seed
      BY <3>1, <3>3 DEF Seed, Sort!SortNext, Sort!Seed
    <3>4. CASE SeedDone
      BY <3>1, <3>4 DEF SeedDone, Sort!SortNext, Sort!SeedDone
    <3>5. CASE Pop
      BY <3>1, <3>5 DEF Pop, Below, Sort!SortNext, Sort!Pop, Sort!Below
    <3>6. CASE CrossOff
      BY <3>1, <3>6 DEF CrossOff, LastUse, Elements, Sort!SortNext, Sort!CrossOff, Sort!LastUse, Sort!Elements
    <3>7. CASE CrossedOff
      BY <3>1, <3>7 DEF CrossedOff, Sort!SortNext, Sort!CrossedOff
    <3>8. CASE Finish
      BY <3>1, <3>8 DEF Finish, Complete, Reversed, Sort!SortNext, Sort!Finish, Sort!Complete, Sort!Reversed
    <3> QED BY <3>1, <3>2, <3>3, <3>4, <3>5, <3>6, <3>7, <3>8 DEF SortNext
  <2>3. CASE UNCHANGED vars
    BY <2>3 DEF vars, sortVars, Sort!sortVars, sortPhase
  <2> QED BY <2>1, <2>2, <2>3 DEF Next
<1> QED BY <1>1, <1>2, PTL DEF LocalSpec, Sort!ClosedSpec

SortProofs == INSTANCE TopoSort_proofs WITH phase <- sortPhase

(* The sort of the pipeline is the sort that the theorems are about.       *)
LEMMA SortsClosed == LocalSpec => SortProofs!ClosedSpec
<1>1. Sort!ClosedInit => SortProofs!ClosedInit
  BY DEF Sort!ClosedInit, Sort!SortInit, Sort!ClosedGraph, Sort!Distinct, Sort!Elements,
         SortProofs!ClosedInit, SortProofs!SortInit, SortProofs!ClosedGraph, SortProofs!Distinct,
         SortProofs!Elements
<1>2. Sort!SortNext <=> SortProofs!SortNext
  <2>1. \A s : Sort!Elements(s) = SortProofs!Elements(s)
    BY DEF Sort!Elements, SortProofs!Elements
  <2>2. Sort!CountUses <=> SortProofs!CountUses
    <3>1. \A S : Sort!Cardinality(S) = SortProofs!Cardinality(S)
      BY DEF Sort!Cardinality, SortProofs!Cardinality
    <3>2. [n \in Sort!Elements(nodes) \cup Sort!UsedNames |-> Sort!Cardinality(Sort!UsePlaces(n))]
          = [n \in SortProofs!Elements(nodes) \cup SortProofs!UsedNames
               |-> SortProofs!Cardinality(SortProofs!UsePlaces(n))]
      BY <3>1 DEF Sort!UsePlaces, Sort!UsedNames, Sort!Elements,
                  SortProofs!UsePlaces, SortProofs!UsedNames, SortProofs!Elements
    <3> QED BY <3>2 DEF Sort!CountUses, SortProofs!CountUses
  <2>3. (Sort!Seed <=> SortProofs!Seed) /\ (Sort!SeedDone <=> SortProofs!SeedDone)
    BY DEF Sort!Seed, SortProofs!Seed, Sort!SeedDone, SortProofs!SeedDone
  <2>4. (Sort!Pop <=> SortProofs!Pop) /\ (Sort!CrossedOff <=> SortProofs!CrossedOff)
    BY DEF Sort!Pop, SortProofs!Pop, Sort!Below, SortProofs!Below, Sort!CrossedOff, SortProofs!CrossedOff
  <2>5. Sort!CrossOff <=> SortProofs!CrossOff
    BY <2>1 DEF Sort!CrossOff, SortProofs!CrossOff, Sort!LastUse, SortProofs!LastUse
  <2>6. Sort!Finish <=> SortProofs!Finish
    BY DEF Sort!Finish, Sort!Complete, SortProofs!Complete, SortProofs!Finish, Sort!Reversed, SortProofs!Reversed
  <2> QED BY <2>2, <2>3, <2>4, <2>5, <2>6 DEF Sort!SortNext, SortProofs!SortNext
<1>3. [Sort!SortNext]_(Sort!sortVars) => [SortProofs!SortNext]_(SortProofs!sortVars)
  BY <1>2 DEF Sort!sortVars, SortProofs!sortVars
<1>4. Sort!ClosedSpec => SortProofs!ClosedSpec
  BY <1>1, <1>3, PTL DEF Sort!ClosedSpec, SortProofs!ClosedSpec
<1> QED BY <1>4, SortSteps, PTL

(* So every struct is printed after the structs it has fields of, in every *)
(* program of one module that gets this far.                               *)
THEOREM StructsDefinedBeforeUse == LocalSpec => []DefinedBeforeUsed
<1>1. SortProofs!ClosedSpec => [](SortProofs!UsersFirst /\ SortProofs!DefinedBeforeUsed)
  BY SortProofs!OrderCorrect, NoNameAssumption, ClientAssumption
<1>2. SortProofs!DefinedBeforeUsed => DefinedBeforeUsed
  BY DEF SortProofs!DefinedBeforeUsed, DefinedBeforeUsed, SortProofs!Elements, Elements,
         sortPhase, SortPhases
<1> QED BY <1>1, <1>2, SortsClosed, PTL

(* Each struct of the module is printed exactly once.                      *)
THEOREM StructsPrintedOnce == LocalSpec => []EachNodeOnce
<1>1. SortProofs!ClosedSpec => []SortProofs!EachNodeOnce
  BY SortProofs!SortedOnce, NoNameAssumption, ClientAssumption
<1>2. SortProofs!EachNodeOnce => EachNodeOnce
  <2>1. \A S : SortProofs!Cardinality(S) = Cardinality(S)
    BY DEF SortProofs!Cardinality, Cardinality
  <2> QED BY <2>1 DEF SortProofs!EachNodeOnce, EachNodeOnce, SortProofs!Elements, Elements,
                      sortPhase, SortPhases
<1> QED BY <1>1, <1>2, SortsClosed, PTL

(* The counts kept for each struct are exact at every step of the printing.*)
THEOREM StructCountsExact == LocalSpec => []CountsAreExact
<1>1. SortProofs!ClosedSpec => []SortProofs!CountsAreExact
  BY SortProofs!CountsCorrect, NoNameAssumption, ClientAssumption
<1>2. SortProofs!CountsAreExact => CountsAreExact
  <2>1. \A S : SortProofs!Cardinality(S) = Cardinality(S)
    BY DEF SortProofs!Cardinality, Cardinality
  <2>2. \A n : SortProofs!UsePlaces(n) = UsePlaces(n)
    BY DEF SortProofs!UsePlaces, UsePlaces, SortProofs!Elements, Elements
  <2>3. SortProofs!Popped = Popped
    BY DEF SortProofs!Popped, Popped, SortProofs!Elements, Elements
  <2>4. \A n : SortProofs!CrossedPlaces(n) = CrossedPlaces(n)
    BY <2>2, <2>3 DEF SortProofs!CrossedPlaces, CrossedPlaces
  <2> QED BY <2>1, <2>2, <2>4 DEF SortProofs!CountsAreExact, CountsAreExact, sortPhase, SortPhases
<1> QED BY <1>1, <1>2, SortsClosed, PTL

-----------------------------------------------------------------------------
(* The code generator's "Undetected cyclic structs!".                      *)
Inside(m) == {n \in Names : Contains(m, n)}

(* Where every struct of a set is a field of another one, some struct      *)
(* contains itself: follow the fields upwards, what is below can only      *)
(* grow, and not for ever.                                                 *)
LEMMA TangledIsRecursive ==
  ASSUME IsFiniteSet(Names), NEW R \in SUBSET Names, R /= {},
         \A n \in R : \E m \in R : n \in Elements(uses[m])
  PROVE  Recursive /= {}
<1> SUFFICES ASSUME Recursive = {} PROVE FALSE
  OBVIOUS
<1> DEFINE F == {Names \ Inside(m) : m \in R}
<1>1. ASSUME NEW m \in R, NEW n \in R, n \in Elements(uses[m])
      PROVE  Inside(n) \subseteq Inside(m) /\ n \in Inside(m) /\ n \notin Inside(n)
  <2>1. Contains(m, n)
    BY <1>1 DEF Contains
  <2>2. \A k \in Names : Contains(n, k) => Contains(m, k)
    <3> SUFFICES ASSUME NEW k \in Names, Contains(n, k), NEW S \in SUBSET Names,
                        Closed(S), Elements(uses[m]) \subseteq S
                 PROVE  k \in S
      BY DEF Contains
    <3>1. Elements(uses[n]) \subseteq S
      BY <1>1 DEF Closed
    <3> QED BY <3>1 DEF Contains
  <2>3. ~Contains(n, n)
    BY DEF Recursive
  <2> QED BY <2>1, <2>2, <2>3 DEF Inside
<1>2. IsWellFoundedOn(StrictSubsetOrdering(Names), FiniteSubsetsOf(Names))
  BY FS_StrictSubsetOrderingWellFounded
<1>3. FiniteSubsetsOf(Names) = SUBSET Names
  BY FS_FiniteSubsetsOfFinite
<1>4. F \subseteq SUBSET Names /\ F /= {}
  OBVIOUS
<1> HIDE DEF F
<1>5. PICK x \in F : \A y \in F : <<y, x>> \notin StrictSubsetOrdering(Names)
  BY <1>2, <1>3, <1>4, WFMin
<1>6. PICK n \in R : x = Names \ Inside(n)
  BY <1>5 DEF F
<1>7. PICK m \in R : n \in Elements(uses[m])
  OBVIOUS
<1>8. PICK y \in F : y = Names \ Inside(m)
  BY DEF F
<1>9. y \subseteq x /\ y /= x
  <2>1. Inside(n) \subseteq Inside(m) /\ n \in Inside(m) /\ n \notin Inside(n)
    BY <1>1, <1>7
  <2> QED BY <2>1, <1>6, <1>8
<1>10. <<y, x>> \in StrictSubsetOrdering(Names)
  BY <1>4, <1>9 DEF StrictSubsetOrdering
<1> QED BY <1>5, <1>10

(* "internal error: Undetected cyclic structs!" is never printed for a     *)
(* program of one module: the sort gives up on structs that contain        *)
(* themselves only, and those the typechecker has found.                   *)
THEOREM NoUndetectedCycles == LocalSpec => [](phase \notin {"incomplete", "crash"})
<1>1. SortProofs!ClosedSpec => []SortProofs!GivesUpOnTangles
  BY SortProofs!GivesUpRightly, NoNameAssumption, ClientAssumption
<1>2. LocalInit => IsFiniteSet(Names) /\ Elements(nodes) = Names
  <2>1. ASSUME NEW s \in Seq(Names) PROVE IsFiniteSet(Elements(s))
    <3>1. IsFiniteSet(1..Len(s))
      BY FS_Interval
    <3>2. [i \in 1..Len(s) |-> s[i]] \in Surjection(1..Len(s), Elements(s))
      BY DEF Surjection, Elements
    <3> QED BY <3>1, <3>2, FS_Surjection
  <2> QED BY <2>1 DEF LocalInit, TypesInit
<1>3. IsFiniteSet(Names) /\ [Next]_vars => IsFiniteSet(Names)'
  OBVIOUS
<1>4. IsFiniteSet(Names) /\ IInv /\ SortProofs!GivesUpOnTangles => phase \notin {"incomplete", "crash"}
  <2> SUFFICES ASSUME IsFiniteSet(Names), IInv, SortProofs!GivesUpOnTangles,
                      phase \in {"incomplete", "crash"}
               PROVE  FALSE
    OBVIOUS
  <2>1. phase = "incomplete"
    BY DEF SortProofs!GivesUpOnTangles, sortPhase, SortPhases
  <2>2. PICK R \in SUBSET Elements(nodes) :
          R /= {} /\ \A n \in R : \E m \in R : n \in Elements(uses[m])
    BY <2>1 DEF SortProofs!GivesUpOnTangles, SortProofs!Tangled, SortProofs!NodeSet,
                SortProofs!Elements, Elements, sortPhase, SortPhases
  <2>3. R \in SUBSET Names
    BY <2>2 DEF IInv, TypesTypeOK, Elements
  <2>4. Recursive /= {}
    BY <2>2, <2>3, TangledIsRecursive
  <2> QED BY <2>1, <2>4 DEF IInv, AcceptedAreAcyclic, SortPhases
<1> QED BY <1>1, <1>2, <1>3, <1>4, SortsClosed, Invariance, PTL DEF LocalSpec

(* The same of the claim that a run shows false of imported types.         *)
COROLLARY AbortsMeanCycles == LocalSpec => []AbortMeansCyclic
<1>1. phase \notin {"incomplete", "crash"} => AbortMeansCyclic
  BY DEF AbortMeansCyclic
<1> QED BY <1>1, NoUndetectedCycles, PTL
=============================================================================
