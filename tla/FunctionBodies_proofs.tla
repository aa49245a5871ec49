------------------------ MODULE FunctionBodies_proofs ------------------------
(***************************************************************************)
(* The C of a function does what its body says, for every body the parser  *)
(* makes.  The text of the function is laid out statement after statement  *)
(* (Laid); its braces pair up as the blocks of the body do (Partner), so   *)
(* the jumps of C lead where the body says; and the C only ever stands     *)
(* where a statement begins, between the two instructions of a return, at  *)
(* an exit, or behind the label (Position).                                *)
(***************************************************************************)
EXTENDS FunctionBodies, FiniteSetTheorems, WellFoundedInduction, SequenceTheorems, TLAPS

(* A set of numbers that is not empty has a least one.                     *)
LEMMA LeastNat ==
  ASSUME NEW S, S \subseteq Nat, S /= {}
  PROVE  \E s \in S : \A r \in S : s =< r
PROOF
  <1>1. PICK R : R = OpToRel(<, Nat)
    OBVIOUS
  <1>2. PICK x \in S : \A y \in S : ~(<<y, x>> \in R)
    BY <1>1, NatLessThanWellFounded, WFMin
  <1>3. ASSUME NEW y \in S PROVE x =< y
    <2>1. <<y, x>> \notin {ss \in Nat \X Nat : ss[1] < ss[2]}
      BY <1>1, <1>2 DEF OpToRel
    <2> QED BY <2>1
  <1> QED BY <1>3

LEMMA MinIs ==
  ASSUME NEW S, S \subseteq Nat, NEW x \in S, \A y \in S : x =< y
  PROVE  Min(S) = x
PROOF
  <1>1. \E z \in S : \A y \in S : z =< y
    OBVIOUS
  <1>2. Min(S) \in S /\ \A y \in S : Min(S) =< y
    BY <1>1 DEF Min
  <1>3. PICK z \in Nat : z = Min(S)
    BY <1>2
  <1>4. x \in Nat /\ z =< x /\ x =< z
    BY <1>2, <1>3
  <1> QED BY <1>3, <1>4

LEMMA MaxIs ==
  ASSUME NEW S, S \subseteq Nat, NEW x \in S, \A y \in S : x >= y
  PROVE  Max(S) = x
PROOF
  <1>1. \E z \in S : \A y \in S : z >= y
    OBVIOUS
  <1>2. Max(S) \in S /\ \A y \in S : Max(S) >= y
    BY <1>1 DEF Max
  <1>3. PICK z \in Nat : z = Max(S)
    BY <1>2
  <1>4. x \in Nat /\ z >= x /\ x >= z
    BY <1>2, <1>3
  <1> QED BY <1>3, <1>4

-----------------------------------------------------------------------------
(* Brackets: `opens` and `closes` are positions, and partner[p] is where   *)
(* what opens at p is closed.                                              *)
Nested(opens, closes, partner) ==
  /\ opens \subseteq Nat /\ closes \subseteq Nat /\ opens \cap closes = {}
  /\ partner \in [opens -> closes]
  /\ \A p \in opens : p < partner[p]
  /\ \A q \in closes : \E p \in opens : partner[p] = q
  /\ \A p, r \in opens : p < r => partner[p] < r \/ partner[r] < partner[p]

CountIn(S, i, k) == Cardinality(S \cap (i..k))

LEMMA CountSteps ==
  ASSUME NEW S, NEW i \in Nat, NEW k \in Nat, i =< k
  PROVE  /\ CountIn(S, i, k) \in Nat /\ CountIn(S, i, k - 1) \in Nat /\ CountIn(S, i + 1, k) \in Nat
         /\ k \in S => CountIn(S, i, k) = CountIn(S, i, k - 1) + 1
         /\ k \notin S => CountIn(S, i, k) = CountIn(S, i, k - 1)
         /\ i \in S => CountIn(S, i, k) = CountIn(S, i + 1, k) + 1
PROOF
  <1>1. IsFiniteSet(i..k) /\ IsFiniteSet(i..(k - 1)) /\ IsFiniteSet((i + 1)..k)
    BY FS_Interval
  <1>2. PICK A, B, D : A = S \cap (i..k) /\ B = S \cap (i..(k - 1)) /\ D = S \cap ((i + 1)..k)
    OBVIOUS
  <1>3. IsFiniteSet(A) /\ IsFiniteSet(B) /\ IsFiniteSet(D)
    BY <1>1, <1>2, FS_Subset
  <1>4. Cardinality(A) \in Nat /\ Cardinality(B) \in Nat /\ Cardinality(D) \in Nat
    BY <1>3, FS_CardinalityType
  <1>5. ASSUME k \in S PROVE Cardinality(A) = Cardinality(B) + 1
    <2>1. A = B \cup {k} /\ k \notin B
      BY <1>2, <1>5
    <2> QED BY <1>3, <2>1, FS_AddElement
  <1>6. ASSUME k \notin S PROVE A = B
    BY <1>2, <1>6
  <1>7. ASSUME i \in S PROVE Cardinality(A) = Cardinality(D) + 1
    <2>1. A = D \cup {i} /\ i \notin D
      BY <1>2, <1>7
    <2> QED BY <1>3, <2>1, FS_AddElement
  <1> QED BY <1>2, <1>4, <1>5, <1>6, <1>7 DEF CountIn

LEMMA NotMore ==
  ASSUME NEW A, NEW B, NEW f, IsFiniteSet(B), \A a \in A : f[a] \in B,
         \A a, c \in A : f[a] = f[c] => a = c
  PROVE  IsFiniteSet(A) /\ Cardinality(A) =< Cardinality(B)
PROOF
  <1>1. PICK g : g = [a \in A |-> f[a]]
    OBVIOUS
  <1>2. g \in [A -> B] /\ \A a, c \in A : g[a] = g[c] => a = c
    BY <1>1
  <1>3. g \in Injection(A, B)
    BY <1>2 DEF Injection, IsInjective
  <1> QED BY <1>3, FS_Injection

(* Two that open are not closed at one place.                              *)
LEMMA PartnersDiffer ==
  ASSUME NEW O, NEW K, NEW f, Nested(O, K, f), NEW p \in O, NEW r \in O, f[p] = f[r]
  PROVE  p = r
PROOF
  <1>1. p \in Nat /\ r \in Nat /\ f[p] \in Nat /\ p < f[p] /\ r < f[r]
    BY DEF Nested
  <1>2. CASE p < r
    BY <1>1, <1>2 DEF Nested
  <1>3. CASE r < p
    BY <1>1, <1>3 DEF Nested
  <1> QED BY <1>1, <1>2, <1>3

(* Up to its partner, more is opened than closed.                          *)
LEMMA MoreOpen ==
  ASSUME NEW O, NEW K, NEW f, Nested(O, K, f), NEW p \in O, NEW k \in p..(f[p] - 1)
  PROVE  CountIn(K, p, k) < CountIn(O, p, k)
PROOF
  <1>0. p \in Nat /\ f[p] \in Nat /\ p < f[p] /\ k \in Nat /\ p =< k
    <2>1. p \in Nat /\ f[p] \in Nat /\ p < f[p]
      BY DEF Nested
    <2> QED BY <2>1
  <1>1. PICK A, B : A = K \cap (p..k) /\ B = O \cap ((p + 1)..k)
    OBVIOUS
  <1>2. PICK g : g = [b \in A |-> CHOOSE a \in O : f[a] = b]
    OBVIOUS
  <1>3. ASSUME NEW b \in A PROVE g[b] \in O /\ f[g[b]] = b
    <2>1. \E a \in O : f[a] = b
      BY <1>1 DEF Nested
    <2> QED BY <2>1, <1>2
  <1>4. ASSUME NEW b \in A PROVE g[b] \in B
    <2>1. PICK a \in O : a = g[b] /\ f[a] = b
      BY <1>3
    <2>2. a \in Nat /\ a < b /\ b \in p..k
      BY <2>1, <1>1 DEF Nested
    <2>3. a /= p
      BY <2>1, <2>2, <1>0
    <2>4. ~(a < p)
      <3> SUFFICES ASSUME a < p PROVE FALSE
        OBVIOUS
      <3>1. f[a] < p \/ f[p] < f[a]
        BY DEF Nested
      <3> QED BY <1>0, <2>1, <2>2, <3>1
    <2> QED BY <1>0, <1>1, <2>1, <2>2, <2>3, <2>4
  <1>5. \A b, d \in A : g[b] = g[d] => b = d
    BY <1>3
  <1>6. IsFiniteSet(B)
    <2>1. IsFiniteSet((p + 1)..k)
      BY <1>0, FS_Interval
    <2> QED BY <2>1, <1>1, FS_Subset
  <1>7. Cardinality(A) =< Cardinality(B)
    BY <1>4, <1>5, <1>6, NotMore
  <1>8. CountIn(O, p, k) = CountIn(O, p + 1, k) + 1 /\ CountIn(O, p + 1, k) \in Nat /\ CountIn(K, p, k) \in Nat
    BY <1>0, CountSteps
  <1> QED BY <1>1, <1>7, <1>8 DEF CountIn

(* At the partner they are as many.                                        *)
LEMMA AsMany ==
  ASSUME NEW O, NEW K, NEW f, Nested(O, K, f), NEW p \in O
  PROVE  CountIn(K, p, f[p]) = CountIn(O, p, f[p])
PROOF
  <1>0. PICK q \in Nat : q = f[p] /\ p \in Nat /\ p < q /\ q \in K /\ q \notin O
    BY DEF Nested
  <1>1. PICK j \in Nat : j = q - 1 /\ j \in p..(q - 1)
    BY <1>0
  <1>2. CountIn(K, p, j) < CountIn(O, p, j)
    BY <1>0, <1>1, MoreOpen
  <1>3. /\ CountIn(K, p, q) = CountIn(K, p, j) + 1 /\ CountIn(O, p, q) = CountIn(O, p, j)
        /\ CountIn(K, p, q) \in Nat /\ CountIn(O, p, q) \in Nat /\ CountIn(K, p, j) \in Nat
    <2>1. p =< q
      BY <1>0
    <2>2. CountIn(K, p, q) = CountIn(K, p, q - 1) + 1 /\ CountIn(K, p, q) \in Nat /\ CountIn(K, p, q - 1) \in Nat
      BY <1>0, <2>1, CountSteps
    <2>3. CountIn(O, p, q) = CountIn(O, p, q - 1) /\ CountIn(O, p, q) \in Nat
      BY <1>0, <2>1, CountSteps
    <2> QED BY <1>1, <2>2, <2>3
  <1>4. PICK A, B : A = O \cap (p..q) /\ B = K \cap (p..q)
    OBVIOUS
  <1>5. ASSUME NEW a \in A PROVE f[a] \in B
    <2>1. a \in O /\ a \in p..q /\ a \in Nat /\ f[a] \in K /\ f[a] \in Nat /\ a < f[a]
      BY <1>0, <1>4 DEF Nested
    <2>2. CASE a = p
      BY <2>1, <2>2, <1>0, <1>4
    <2>3. CASE a > p
      <3>1. f[p] < a \/ f[a] < f[p]
        BY <2>1, <2>3, <1>0 DEF Nested
      <3> QED BY <2>1, <2>3, <3>1, <1>0, <1>4
    <2> QED BY <2>1, <2>2, <2>3, <1>0
  <1>6. \A a, c \in A : f[a] = f[c] => a = c
    BY <1>4, PartnersDiffer
  <1>7. IsFiniteSet(B)
    <2>1. IsFiniteSet(p..q)
      BY <1>0, FS_Interval
    <2> QED BY <2>1, <1>4, FS_Subset
  <1>8. Cardinality(A) =< Cardinality(B)
    BY <1>5, <1>6, <1>7, NotMore
  <1> QED BY <1>0, <1>2, <1>3, <1>4, <1>8 DEF CountIn

(* What is opened later than p is closed before p's partner.               *)
LEMMA FewerOpen ==
  ASSUME NEW O, NEW K, NEW f, Nested(O, K, f), NEW p \in O, NEW r \in O, p < r, r < f[p]
  PROVE  CountIn(O, r, f[p]) < CountIn(K, r, f[p])
PROOF
  <1>0. PICK q \in Nat : q = f[p] /\ p \in Nat /\ r \in Nat /\ r < q /\ q \in K
    BY DEF Nested
  <1>1. PICK j \in Nat : j = q - 1 /\ r =< j
    BY <1>0
  <1>2. PICK A, B : A = O \cap (r..q) /\ B = K \cap (r..j)
    OBVIOUS
  <1>3. ASSUME NEW a \in A PROVE f[a] \in B
    <2>1. a \in O /\ a \in r..q /\ a \in Nat /\ f[a] \in K /\ f[a] \in Nat /\ a < f[a]
      BY <1>0, <1>2 DEF Nested
    <2>2. f[p] < a \/ f[a] < f[p]
      BY <2>1, <1>0 DEF Nested
    <2> QED BY <2>1, <2>2, <1>0, <1>1, <1>2
  <1>4. \A a, c \in A : f[a] = f[c] => a = c
    BY <1>2, PartnersDiffer
  <1>5. IsFiniteSet(B)
    <2>1. IsFiniteSet(r..j)
      <3>1. r \in Int /\ j \in Int
        BY <1>0, <1>1
      <3> QED BY <3>1, FS_Interval
    <2> QED BY <2>1, <1>2, FS_Subset
  <1>6. Cardinality(A) =< Cardinality(B)
    BY <1>3, <1>4, <1>5, NotMore
  <1>7. /\ CountIn(K, r, q) = CountIn(K, r, j) + 1
        /\ CountIn(K, r, j) \in Nat /\ CountIn(O, r, q) \in Nat
    <2>1. r =< q
      BY <1>0
    <2>2. CountIn(K, r, q) = CountIn(K, r, q - 1) + 1 /\ CountIn(K, r, q - 1) \in Nat
      BY <1>0, <2>1, CountSteps
    <2>3. CountIn(O, r, q) \in Nat
      BY <1>0, <2>1, CountSteps
    <2> QED BY <1>1, <2>2, <2>3
  <1> QED BY <1>0, <1>2, <1>6, <1>7 DEF CountIn

-----------------------------------------------------------------------------
(* The text t of a function with body b.  Statement i stands from p up to  *)
(* q.                                                                      *)
Kinds == {"expr", "set", "goto", "if", "else", "for", "exit", "{", "}", "label", "return"}
Code == [c : Kinds, of : Nat] \cup [c : Kinds, of : Nat, negated : BOOLEAN]

Is(x, kind, i) == x.c = kind /\ x.of = i
IsIf(x, i, negated) == x.c = "if" /\ x.of = i /\ x.negated = negated

Shape(b, valued, t, i, p, q) ==
  /\ b[i].op = "call" => q = p + 1 /\ Is(t[p], "expr", i)
  /\ b[i].op = "return" /\ valued = TRUE => q = p + 2 /\ Is(t[p], "set", i) /\ Is(t[p + 1], "goto", i)
  /\ b[i].op = "return" /\ valued = FALSE => q = p + 1 /\ Is(t[p], "goto", i)
  /\ b[i].op = "if" => q = p + 1 /\ IsIf(t[p], i, FALSE)
  /\ b[i].op = "else" => q = p + 1 /\ Is(t[p], "else", i)
  /\ b[i].op = "while" => q = p + 1 /\ Is(t[p], "for", i)
  /\ b[i].op = "expect" =>
       q = p + 3 /\ IsIf(t[p], i, TRUE) /\ Is(t[p + 1], "exit", i) /\ Is(t[p + 2], "}", i)
  /\ b[i].op = "expectelse" => q = p + 1 /\ IsIf(t[p], i, TRUE)
  /\ b[i].op = "open" => q = p + 1 /\ Is(t[p], "{", i)
  /\ b[i].op = "close" => q = p + 1 /\ Is(t[p], "}", i)
  /\ b[i].op = "defer" => q = p

\* The statements before m are printed, statement i at S[i].
Laid(b, valued, t, S, m) ==
  /\ m \in 1..(Len(b) + 1)
  /\ S \in [1..m -> Nat \ {0}]
  /\ S[1] = 1
  /\ \A i \in 1..(m - 1) : Shape(b, valued, t, i, S[i], S[i + 1])
  /\ \A i, j \in 1..m : i =< j => S[i] =< S[j]
  /\ \A p \in 1..(S[m] - 1) : \E i \in 1..(m - 1) : S[i] =< p /\ p < S[i + 1]

\* The whole function: behind the statements the label, the deferred calls d and the return.
Whole(b, valued, t, d, S) ==
  /\ Parsed(b) /\ valued \in BOOLEAN
  /\ Laid(b, valued, t, S, Len(b) + 1)
  /\ t \in Seq(Code) /\ d \in Seq(Nat)
  /\ Len(t) = S[Len(b) + 1] + Len(d) + 1
  /\ Is(t[S[Len(b) + 1]], "label", 0)
  /\ \A k \in 1..Len(d) : Is(t[S[Len(b) + 1] + k], "expr", d[k])
  /\ Is(t[Len(t)], "return", 0)

LEMMA BodyTypes ==
  ASSUME NEW b, Parsed(b)
  PROVE  /\ Len(b) \in Nat /\ DOMAIN b = 1..Len(b)
         /\ \A i \in 1..Len(b) : b[i].op \in Ops /\ b[i].end \in Nat
PROOF
  <1>1. b \in Seq([op : Ops, end : Nat])
    BY DEF Parsed
  <1>2. Len(b) \in Nat /\ DOMAIN b = 1..Len(b)
    BY <1>1
  <1>3. \A i \in 1..Len(b) : b[i] \in [op : Ops, end : Nat]
    BY <1>1, <1>2, ElementOfSeq
  <1> QED BY <1>2, <1>3

(* Where statement i stands, in numbers.                                   *)
LEMMA Places ==
  ASSUME NEW b, NEW v, NEW t, NEW d, NEW S, Whole(b, v, t, d, S), NEW i \in 1..Len(b)
  PROVE  /\ S[i] \in Nat \ {0} /\ S[i + 1] \in Nat \ {0} /\ S[Len(b) + 1] \in Nat \ {0}
         /\ Shape(b, v, t, i, S[i], S[i + 1])
         /\ S[i] =< S[i + 1] /\ S[i + 1] =< S[Len(b) + 1]
         /\ b[i].op /= "defer" => S[i] < S[i + 1]
PROOF
  <1>0. Len(b) \in Nat /\ b[i].op \in Ops /\ v \in BOOLEAN
    BY BodyTypes DEF Whole
  <1>1. i \in 1..(Len(b) + 1) /\ i + 1 \in 1..(Len(b) + 1) /\ Len(b) + 1 \in 1..(Len(b) + 1)
    BY <1>0
  <1>2. S \in [1..(Len(b) + 1) -> Nat \ {0}]
    BY DEF Whole, Laid
  <1>3. S[i] \in Nat \ {0} /\ S[i + 1] \in Nat \ {0} /\ S[Len(b) + 1] \in Nat \ {0}
    BY <1>1, <1>2
  <1>4. S[i] =< S[i + 1] /\ S[i + 1] =< S[Len(b) + 1]
    BY <1>0, <1>1 DEF Whole, Laid
  <1>5. Shape(b, v, t, i, S[i], S[i + 1])
    <2>1. i \in 1..((Len(b) + 1) - 1)
      BY <1>0
    <2> QED BY <2>1 DEF Whole, Laid
  <1>6. ASSUME b[i].op /= "defer" PROVE S[i] < S[i + 1]
    <2>1. PICK p \in Nat, q \in Nat : p = S[i] /\ q = S[i + 1]
      BY <1>3
    <2>2. Shape(b, v, t, i, p, q)
      BY <1>5, <2>1
    <2>3. q = p + 1 \/ q = p + 2 \/ q = p + 3
      BY <1>0, <1>6, <2>2 DEF Shape, Ops
    <2> QED BY <2>1, <2>3
  <1> QED BY <1>0, <1>3, <1>4, <1>5, <1>6

(* Statements stand in the order of the text.                              *)
LEMMA InOrder ==
  ASSUME NEW b, NEW v, NEW t, NEW d, NEW S, Whole(b, v, t, d, S),
         NEW i \in 1..Len(b), NEW j \in 1..(Len(b) + 1)
  PROVE  /\ S[j] \in Nat \ {0}
         /\ i < j => S[i + 1] =< S[j]
         /\ j =< i => S[j] =< S[i]
         /\ S[i] < S[j] => i < j
PROOF
  <1>0. Len(b) \in Nat
    BY BodyTypes DEF Whole
  <1>1. i \in 1..(Len(b) + 1) /\ i + 1 \in 1..(Len(b) + 1)
    BY <1>0
  <1>2. S \in [1..(Len(b) + 1) -> Nat \ {0}] /\ \A k, m \in 1..(Len(b) + 1) : k =< m => S[k] =< S[m]
    BY DEF Whole, Laid
  <1>3. S[i] \in Nat /\ S[j] \in Nat \ {0} /\ S[i + 1] \in Nat
    BY <1>1, <1>2
  <1>4. i < j => S[i + 1] =< S[j]
    BY <1>0, <1>1, <1>2
  <1>5. j =< i => S[j] =< S[i]
    BY <1>0, <1>1, <1>2
  <1> QED BY <1>0, <1>3, <1>4, <1>5

-----------------------------------------------------------------------------
(* The braces of a text, and which of them belong together.                *)
Opened(t) == {p \in 1..Len(t) : t[p].c \in {"{", "if", "else", "for"}}
Closed(t) == {p \in 1..Len(t) : t[p].c = "}"}
Partner(b, t, S) ==
  [p \in Opened(t) |-> IF b[t[p].of].op = "expect" THEN p + 2 ELSE S[b[t[p].of].end]]

LEMMA Braces ==
  ASSUME NEW b, NEW v, NEW t, NEW d, NEW S, Whole(b, v, t, d, S)
  PROVE  /\ \A p \in Opened(t) : \E i \in 1..Len(b) :
              p = S[i] /\ t[p].of = i /\ (Opens(b[i].op) \/ b[i].op = "expect")
         /\ \A q \in Closed(t) : \E i \in 1..Len(b) :
              (b[i].op = "close" /\ q = S[i]) \/ (b[i].op = "expect" /\ q = S[i] + 2)
PROOF
  <1>0. Len(b) \in Nat /\ Len(d) \in Nat /\ v \in BOOLEAN
    BY BodyTypes DEF Whole
  <1>1. PICK L \in Nat \ {0} : L = S[Len(b) + 1]
    <2>1. Len(b) + 1 \in 1..(Len(b) + 1)
      BY <1>0
    <2> QED BY <2>1 DEF Whole, Laid
  <1>2. ASSUME NEW p \in 1..Len(t), p >= L PROVE p \notin Opened(t) /\ p \notin Closed(t)
    <2>1. PICK n \in Nat : n = Len(d) /\ Len(t) = L + n + 1
      BY <1>0, <1>1 DEF Whole
    <2>2. t[p].c \in {"label", "expr", "return"}
      <3>1. CASE p = L
        BY <3>1, <1>1 DEF Whole, Is
      <3>2. CASE p = Len(t)
        BY <3>2 DEF Whole, Is
      <3>3. CASE p > L /\ p < Len(t)
        <4>1. PICK k \in 1..n : p = L + k
          <5>1. p \in Nat /\ p - L \in 1..n /\ p = L + (p - L)
            BY <2>1, <3>3
          <5> QED BY <5>1
        <4>2. \A m \in 1..Len(d) : Is(t[S[Len(b) + 1] + m], "expr", d[m])
          BY DEF Whole
        <4>3. Is(t[p], "expr", d[k])
          BY <4>1, <4>2, <2>1, <1>1
        <4> QED BY <4>3 DEF Is
      <3> QED BY <3>1, <3>2, <3>3, <1>2, <2>1
    <2> QED BY <2>2 DEF Opened, Closed
  <1>3. ASSUME NEW p \in 1..Len(t), p < L
        PROVE  \E i \in 1..Len(b) : S[i] =< p /\ p < S[i + 1]
    <2>1. p \in 1..(S[Len(b) + 1] - 1) /\ Len(b) + 1 - 1 = Len(b)
      BY <1>0, <1>1, <1>3
    <2> QED BY <2>1 DEF Whole, Laid
  <1>4. ASSUME NEW p \in 1..Len(t), NEW i \in 1..Len(b), S[i] =< p, p < S[i + 1]
        PROVE  /\ p \in Opened(t) => p = S[i] /\ t[p].of = i /\ (Opens(b[i].op) \/ b[i].op = "expect")
               /\ p \in Closed(t) => (b[i].op = "close" /\ p = S[i]) \/ (b[i].op = "expect" /\ p = S[i] + 2)
    <2>0. S[i] \in Nat /\ S[i + 1] \in Nat /\ Shape(b, v, t, i, S[i], S[i + 1]) /\ b[i].op \in Ops
      BY Places, BodyTypes DEF Whole
    <2>1. PICK s \in Nat, q \in Nat : s = S[i] /\ q = S[i + 1] /\ Shape(b, v, t, i, s, q) /\ b[i].op \in Ops
      BY <2>0
    <2>2. p \in Nat /\ s =< p /\ p < q
      BY <1>4, <2>1
    <2>3. CASE b[i].op = "return"
      <3>1. v = TRUE => q = s + 2 /\ Is(t[s], "set", i) /\ Is(t[s + 1], "goto", i)
        BY <2>1, <2>3 DEF Shape
      <3>2. v = FALSE => q = s + 1 /\ Is(t[s], "goto", i)
        BY <2>1, <2>3 DEF Shape
      <3>3. t[p].c \in {"set", "goto"}
        <4>1. CASE v = TRUE
          <5>1. p = s \/ p = s + 1
            BY <2>2, <3>1, <4>1
          <5> QED BY <3>1, <4>1, <5>1 DEF Is
        <4>2. CASE v = FALSE
          <5>1. p = s
            BY <2>2, <3>2, <4>2
          <5> QED BY <3>2, <4>2, <5>1 DEF Is
        <4> QED BY <4>1, <4>2, <1>0
      <3> QED BY <3>3 DEF Opened, Closed
    <2>4. CASE b[i].op = "expect"
      <3>1. q = s + 3 /\ IsIf(t[s], i, TRUE) /\ Is(t[s + 1], "exit", i) /\ Is(t[s + 2], "}", i)
        BY <2>1, <2>4 DEF Shape
      <3>a. q = s + 3
        BY <3>1
      <3>2. p = s \/ p = s + 1 \/ p = s + 2
        BY <2>2, <3>a
      <3>3. CASE p = s
        BY <2>1, <2>4, <3>1, <3>3 DEF Opened, Closed, IsIf
      <3>4. CASE p = s + 1
        BY <2>1, <2>4, <3>1, <3>4 DEF Opened, Closed, Is
      <3>5. CASE p = s + 2
        BY <2>1, <2>4, <3>1, <3>5 DEF Opened, Closed, Is
      <3> QED BY <3>2, <3>3, <3>4, <3>5
    <2>5. CASE b[i].op \notin {"return", "expect", "defer"}
      <3>1. q = s + 1
        BY <2>1, <2>5 DEF Shape, Ops
      <3>2. p = s
        BY <2>2, <3>1
      <3>3. \/ b[i].op = "call" /\ Is(t[s], "expr", i)
            \/ b[i].op \in {"if", "expectelse"} /\ t[s].of = i
            \/ b[i].op \in {"else", "while", "open"} /\ t[s].of = i /\ t[s].c /= "}"
            \/ b[i].op = "close" /\ Is(t[s], "}", i)
        BY <2>1, <2>5 DEF Shape, Ops, Is, IsIf
      <3>4. b[i].op \in {"if", "expectelse"} => t[s].c = "if"
        BY <2>1, <2>5 DEF Shape, Ops, IsIf
      <3> QED BY <2>1, <3>2, <3>3, <3>4 DEF Opened, Closed, Opens, Is
    <2>6. CASE b[i].op = "defer"
      <3>1. q = s
        BY <2>1, <2>6 DEF Shape
      <3> QED BY <2>2, <3>1
    <2> QED BY <2>0, <2>3, <2>4, <2>5, <2>6
  <1>5. ASSUME NEW p \in 1..Len(t), p \in Opened(t) \/ p \in Closed(t)
        PROVE  \E i \in 1..Len(b) : S[i] =< p /\ p < S[i + 1]
    <2>1. p < L
      BY <1>2, <1>5
    <2> QED BY <1>3, <2>1
  <1>6. Opened(t) \subseteq 1..Len(t) /\ Closed(t) \subseteq 1..Len(t)
    BY DEF Opened, Closed
  <1>7. ASSUME NEW p \in Opened(t)
        PROVE  \E i \in 1..Len(b) :
                 p = S[i] /\ t[p].of = i /\ (Opens(b[i].op) \/ b[i].op = "expect")
    <2>1. PICK i \in 1..Len(b) : S[i] =< p /\ p < S[i + 1]
      BY <1>5, <1>6
    <2>2. p = S[i] /\ t[p].of = i /\ (Opens(b[i].op) \/ b[i].op = "expect")
      BY <1>4, <1>6, <2>1
    <2> QED BY <2>2
  <1>8. ASSUME NEW q \in Closed(t)
        PROVE  \E i \in 1..Len(b) :
                 (b[i].op = "close" /\ q = S[i]) \/ (b[i].op = "expect" /\ q = S[i] + 2)
    <2>1. PICK i \in 1..Len(b) : S[i] =< q /\ q < S[i + 1]
      BY <1>5, <1>6
    <2>2. (b[i].op = "close" /\ q = S[i]) \/ (b[i].op = "expect" /\ q = S[i] + 2)
      BY <1>4, <1>6, <2>1
    <2> QED BY <2>2
  <1> QED BY <1>7, <1>8

(* The braces that a statement is printed with.                            *)
LEMMA Standing ==
  ASSUME NEW b, NEW v, NEW t, NEW d, NEW S, Whole(b, v, t, d, S), NEW i \in 1..Len(b)
  PROVE  /\ Opens(b[i].op) \/ b[i].op = "expect" => S[i] \in Opened(t) /\ t[S[i]].of = i
         /\ b[i].op = "close" => S[i] \in Closed(t)
         /\ b[i].op = "expect" => S[i] + 2 \in Closed(t) /\ S[i + 1] = S[i] + 3
PROOF
  <1>0. Len(b) \in Nat /\ Len(d) \in Nat
    BY BodyTypes DEF Whole
  <1>1. PICK s \in Nat \ {0}, q \in Nat, L \in Nat :
          /\ s = S[i] /\ q = S[i + 1] /\ L = S[Len(b) + 1]
          /\ Shape(b, v, t, i, s, q) /\ q =< L
          /\ b[i].op /= "defer" => s < q
    <2>1. /\ S[i] \in Nat \ {0} /\ S[i + 1] \in Nat /\ S[Len(b) + 1] \in Nat
          /\ Shape(b, v, t, i, S[i], S[i + 1]) /\ S[i + 1] =< S[Len(b) + 1]
          /\ b[i].op /= "defer" => S[i] < S[i + 1]
      BY Places
    <2> QED BY <2>1
  <1>2. PICK m \in Nat : m = Len(t) /\ L < m
    <2>1. Len(t) = L + Len(d) + 1
      BY <1>1 DEF Whole
    <2> QED BY <1>0, <2>1
  <1>3. b[i].op /= "defer" => s \in 1..Len(t)
    BY <1>1, <1>2
  <1>4. ASSUME Opens(b[i].op) PROVE s \in Opened(t) /\ t[s].of = i
    <2>1. t[s].c \in {"{", "if", "else", "for"} /\ t[s].of = i
      BY <1>1, <1>4 DEF Shape, Opens, Is, IsIf
    <2>2. s \in 1..Len(t)
      BY <1>3, <1>4 DEF Opens
    <2> QED BY <2>1, <2>2 DEF Opened
  <1>5. ASSUME b[i].op = "expect"
        PROVE  s \in Opened(t) /\ t[s].of = i /\ s + 2 \in Closed(t) /\ q = s + 3
    <2>1. q = s + 3 /\ IsIf(t[s], i, TRUE) /\ Is(t[s + 2], "}", i)
      BY <1>1, <1>5 DEF Shape
    <2>2. q = s + 3
      BY <2>1
    <2>3. s \in 1..m /\ s + 2 \in 1..m
      <3>1. s \in Nat \ {0} /\ q \in Nat /\ L \in Nat /\ m \in Nat /\ q =< L /\ L < m /\ q = s + 3
        BY <1>1, <1>2, <2>2
      <3> QED BY <3>1
    <2> QED BY <1>2, <2>1, <2>3 DEF Opened, Closed, Is, IsIf
  <1>6. ASSUME b[i].op = "close" PROVE s \in Closed(t)
    <2>1. Is(t[s], "}", i)
      BY <1>1, <1>6 DEF Shape
    <2>2. s \in 1..Len(t)
      BY <1>3, <1>6
    <2> QED BY <2>1, <2>2 DEF Closed, Is
  <1> QED BY <1>1, <1>4, <1>5, <1>6

(* What stands before what.                                                *)
LEMMA Before ==
  ASSUME NEW b, NEW v, NEW t, NEW d, NEW S, Whole(b, v, t, d, S),
         NEW i \in 1..Len(b), NEW j \in 1..Len(b), i < j
  PROVE  /\ S[i] \in Nat /\ S[j] \in Nat
         /\ b[i].op /= "defer" => S[i] < S[j]
         /\ b[i].op = "expect" => S[i] + 2 < S[j]
PROOF
  <1>1. j \in 1..(Len(b) + 1)
    BY BodyTypes DEF Whole
  <1>2. PICK s \in Nat, q \in Nat, r \in Nat :
          /\ s = S[i] /\ q = S[i + 1] /\ r = S[j]
          /\ q =< r /\ (b[i].op /= "defer" => s < q)
    <2>1. S[i] \in Nat /\ S[i + 1] \in Nat /\ (b[i].op /= "defer" => S[i] < S[i + 1])
      BY Places
    <2>2. S[j] \in Nat /\ S[i + 1] =< S[j]
      BY <1>1, InOrder
    <2> QED BY <2>1, <2>2
  <1>3. b[i].op = "expect" => q = s + 3
    BY SMTT(30), <1>2, Standing
  <1>4. b[i].op = "expect" => s + 2 < r
    BY <1>2, <1>3
  <1>5. b[i].op /= "defer" => s < r
    BY <1>2
  <1> QED BY <1>2, <1>4, <1>5

(* What parsing makes sure of.                                             *)
LEMMA Blocks ==
  ASSUME NEW b, Parsed(b), NEW i \in 1..Len(b)
  PROVE  /\ Opens(b[i].op) => b[i].end \in 1..Len(b) /\ i < b[i].end /\ b[b[i].end].op = "close"
         /\ ~Opens(b[i].op) => b[i].end = i
         /\ b[i].op = "close" => \E j \in 1..(i - 1) : j \in 1..Len(b) /\ Opens(b[j].op) /\ b[j].end = i
         /\ b[i].op = "else" => \E j \in 1..(i - 1) : j \in 1..Len(b) /\ b[j].op = "if" /\ b[j].end = i - 1
         /\ \A j \in 1..Len(b) :
              i < j /\ Opens(b[i].op) /\ Opens(b[j].op) => b[i].end < j \/ b[j].end < b[i].end
PROOF
  <1>1. Len(b) \in Nat /\ DOMAIN b = 1..Len(b)
    BY BodyTypes
  <1>2. i \in DOMAIN b
    BY <1>1
  <1>3. ASSUME Opens(b[i].op) PROVE b[i].end \in 1..Len(b) /\ i < b[i].end /\ b[b[i].end].op = "close"
    <2>1. b[i].end \in (i + 1)..Len(b) /\ b[b[i].end].op = "close"
      BY <1>2, <1>3 DEF Parsed
    <2> QED BY <1>1, <2>1
  <1>4. ~Opens(b[i].op) => b[i].end = i
    BY <1>2 DEF Parsed
  <1>5. ASSUME b[i].op = "close"
        PROVE  \E j \in 1..(i - 1) : j \in 1..Len(b) /\ Opens(b[j].op) /\ b[j].end = i
    <2>1. PICK j \in 1..(i - 1) : Opens(b[j].op) /\ b[j].end = i
      BY <1>2, <1>5 DEF Parsed
    <2>2. j \in 1..Len(b)
      BY <1>1
    <2> QED BY <2>1, <2>2
  <1>6. ASSUME b[i].op = "else"
        PROVE  \E j \in 1..(i - 1) : j \in 1..Len(b) /\ b[j].op = "if" /\ b[j].end = i - 1
    <2>1. PICK j \in 1..(i - 1) : b[j].op = "if" /\ b[j].end = i - 1
      BY <1>2, <1>6 DEF Parsed
    <2>2. j \in 1..Len(b)
      BY <1>1
    <2> QED BY <2>1, <2>2
  <1>7. ASSUME NEW j \in 1..Len(b), i < j, Opens(b[i].op), Opens(b[j].op)
        PROVE  b[i].end < j \/ b[j].end < b[i].end
    BY <1>1, <1>7 DEF Parsed
  <1> QED BY <1>3, <1>4, <1>5, <1>6, <1>7

(* So the braces of the text belong together as the blocks of the body do. *)
LEMMA PairedBraces ==
  ASSUME NEW b, NEW v, NEW t, NEW d, NEW S, Whole(b, v, t, d, S)
  PROVE  Nested(Opened(t), Closed(t), Partner(b, t, S))
PROOF
  <1>0. Parsed(b)
    BY DEF Whole
  <1>1. PICK f : f = Partner(b, t, S)
    OBVIOUS
  <1>2. Opened(t) \subseteq Nat /\ Closed(t) \subseteq Nat /\ Opened(t) \cap Closed(t) = {}
    <2>1. 1..Len(t) \subseteq Nat
      BY DEF Whole
    <2>2. Opened(t) \subseteq 1..Len(t) /\ Closed(t) \subseteq 1..Len(t)
      BY DEF Opened, Closed
    <2>3. \A p \in Opened(t) : p \notin Closed(t)
      BY DEF Opened, Closed
    <2> QED BY <2>1, <2>2, <2>3
  <1>3. ASSUME NEW i \in 1..Len(b), b[i].op = "expect" PROVE f[S[i]] = S[i] + 2
    BY <1>1, <1>3, Standing DEF Partner
  <1>4. ASSUME NEW i \in 1..Len(b), Opens(b[i].op) PROVE f[S[i]] = S[b[i].end]
    <2>1. b[i].op /= "expect"
      BY <1>4 DEF Opens
    <2> QED BY <1>1, <1>4, <2>1, Standing DEF Partner
  <1>5. ASSUME NEW p \in Opened(t)
        PROVE  \E i \in 1..Len(b) : p = S[i] /\ (Opens(b[i].op) \/ b[i].op = "expect")
    BY Braces
  <1>6. ASSUME NEW p \in Opened(t) PROVE f[p] \in Closed(t) /\ p < f[p]
    <2>1. PICK i \in 1..Len(b) : p = S[i] /\ (Opens(b[i].op) \/ b[i].op = "expect")
      BY <1>5
    <2>2. CASE b[i].op = "expect"
      <3>1. f[p] = p + 2 /\ p \in Nat
        BY <2>1, <2>2, <1>2, <1>3
      <3>2. p + 2 \in Closed(t)
        BY <2>1, <2>2, Standing
      <3> QED BY <3>1, <3>2
    <2>3. CASE Opens(b[i].op)
      <3>1. PICK e \in 1..Len(b) : e = b[i].end /\ i < e /\ b[e].op = "close"
        BY <1>0, <2>3, Blocks
      <3>2. f[p] = S[e]
        BY <2>1, <2>3, <3>1, <1>4
      <3>3. S[e] \in Closed(t)
        BY <3>1, Standing
      <3>4. S[i] < S[e]
        BY <2>3, <3>1, Before DEF Opens
      <3> QED BY <2>1, <3>2, <3>3, <3>4
    <2> QED BY <2>1, <2>2, <2>3
  <1>7. f \in [Opened(t) -> Closed(t)]
    <2>1. f = [p \in Opened(t) |-> f[p]]
      BY <1>1 DEF Partner
    <2> QED BY <2>1, <1>6
  <1>8. ASSUME NEW q \in Closed(t) PROVE \E p \in Opened(t) : f[p] = q
    <2>1. PICK i \in 1..Len(b) :
            (b[i].op = "close" /\ q = S[i]) \/ (b[i].op = "expect" /\ q = S[i] + 2)
      BY Braces
    <2>2. CASE b[i].op = "close" /\ q = S[i]
      <3>1. PICK j \in 1..Len(b) : Opens(b[j].op) /\ b[j].end = i
        BY <1>0, <2>2, Blocks
      <3>2. S[j] \in Opened(t) /\ f[S[j]] = q
        BY <2>2, <3>1, <1>4, Standing
      <3> QED BY <3>2
    <2>3. CASE b[i].op = "expect" /\ q = S[i] + 2
      <3>1. S[i] \in Opened(t) /\ f[S[i]] = q
        BY <2>3, <1>3, Standing
      <3> QED BY <3>1
    <2> QED BY <2>1, <2>2, <2>3
  <1>9. ASSUME NEW p \in Opened(t), NEW r \in Opened(t), p < r
        PROVE  f[p] < r \/ f[r] < f[p]
    <2>1. PICK i \in 1..Len(b) : p = S[i] /\ (Opens(b[i].op) \/ b[i].op = "expect")
      BY <1>5
    <2>2. PICK j \in 1..Len(b) : r = S[j] /\ (Opens(b[j].op) \/ b[j].op = "expect")
      BY <1>5
    <2>3. i < j
      <3>1. j \in 1..(Len(b) + 1)
        BY <1>0, BodyTypes
      <3> QED BY <1>9, <2>1, <2>2, <3>1, InOrder
    <2>4. CASE b[i].op = "expect"
      <3>1. S[i] + 2 < S[j]
        BY <2>3, <2>4, Before
      <3> QED BY <2>1, <2>2, <2>4, <3>1, <1>3
    <2>5. CASE Opens(b[i].op)
      <3>1. PICK e \in 1..Len(b) : e = b[i].end /\ i < e /\ b[e].op = "close"
        BY <1>0, <2>5, Blocks
      <3>2. f[p] = S[e]
        BY <2>1, <2>5, <3>1, <1>4
      <3>3. e < j => S[e] < S[j]
        BY <3>1, Before
      <3>4. CASE b[j].op = "expect"
        <4>1. e /= j
          BY <3>1, <3>4
        <4>2. j < e => S[j] + 2 < S[e]
          BY <3>4, Before
        <4>3. f[r] = S[j] + 2
          BY <2>2, <3>4, <1>3
        <4> QED BY <2>2, <3>2, <3>3, <4>1, <4>2, <4>3
      <3>5. CASE Opens(b[j].op)
        <4>1. PICK g \in 1..Len(b) : g = b[j].end /\ j < g /\ b[g].op = "close"
          BY <1>0, <3>5, Blocks
        <4>2. f[r] = S[g]
          BY <2>2, <3>5, <4>1, <1>4
        <4>3. e < j \/ g < e
          BY <1>0, <2>3, <2>5, <3>1, <3>5, <4>1, Blocks
        <4>4. g < e => S[g] < S[e]
          BY <4>1, Before
        <4> QED BY <2>2, <3>2, <3>3, <4>2, <4>3, <4>4
      <3> QED BY <2>2, <3>4, <3>5
    <2> QED BY <2>1, <2>4, <2>5
  <1> QED BY <1>1, <1>2, <1>6, <1>7, <1>8, <1>9 DEF Nested

-----------------------------------------------------------------------------
(* The jumps of C.                                                         *)
LEMMA DepthIs ==
  ASSUME text \in Seq(Code), NEW i \in Nat \ {0}, NEW k \in Nat, k =< Len(text)
  PROVE  /\ Depth(i, k) = CountIn(Opened(text), i, k) - CountIn(Closed(text), i, k)
         /\ CountIn(Opened(text), i, k) \in Nat /\ CountIn(Closed(text), i, k) \in Nat
PROOF
  <1>0. Len(text) \in Nat
    OBVIOUS
  <1>1. \A m \in i..k : m \in 1..Len(text)
    BY <1>0
  <1>2. {m \in i..k : OpensBlock(m)} = Opened(text) \cap (i..k)
    BY <1>1 DEF OpensBlock, Opened
  <1>3. {m \in i..k : text[m].c = "}"} = Closed(text) \cap (i..k)
    BY <1>1 DEF Closed
  <1>4. IsFiniteSet(Opened(text) \cap (i..k)) /\ IsFiniteSet(Closed(text) \cap (i..k))
    <2>1. IsFiniteSet(i..k)
      BY FS_Interval
    <2> QED BY <2>1, FS_Subset
  <1> QED BY <1>2, <1>3, <1>4, FS_CardinalityType DEF Depth, CountIn

LEMMA MatchingIs ==
  ASSUME text \in Seq(Code), NEW f, Nested(Opened(text), Closed(text), f), NEW p \in Opened(text)
  PROVE  Matching(p) = f[p]
PROOF
  <1>1. PICK q \in Nat : q = f[p] /\ q \in Closed(text) /\ p < q /\ p \in Nat
    BY DEF Nested
  <1>n. PICK n \in Nat : n = Len(text)
    OBVIOUS
  <1>2. n = Len(text) /\ p \in 1..n /\ q \in 1..n
    BY <1>1, <1>n DEF Opened, Closed
  <1>3. Depth(p, q) = 0
    <2>1. p \in Nat \ {0} /\ q =< Len(text)
      BY <1>2
    <2>2. CountIn(Closed(text), p, q) = CountIn(Opened(text), p, q)
      BY <1>1, AsMany
    <2> QED BY <2>1, <2>2, DepthIs
  <1>4. ASSUME NEW k \in p..n, Depth(p, k) = 0 PROVE q =< k
    <2> SUFFICES ASSUME k < q PROVE FALSE
      BY <1>1, <1>2
    <2>1. k \in p..(f[p] - 1)
      BY <1>1
    <2>2. CountIn(Closed(text), p, k) < CountIn(Opened(text), p, k)
      BY <2>1, MoreOpen
    <2>3. p \in Nat \ {0} /\ k \in Nat /\ k =< Len(text)
      BY <1>2
    <2> QED BY <1>4, <2>2, <2>3, DepthIs
  <1>5. PICK A : A = {k \in p..Len(text) : Depth(p, k) = 0}
    OBVIOUS
  <1>6. A \subseteq Nat /\ q \in A /\ \A k \in A : q =< k
    BY <1>1, <1>2, <1>3, <1>4, <1>5
  <1>7. Min(A) = q
    BY <1>6, MinIs
  <1> QED BY <1>1, <1>5, <1>7 DEF Matching

LEMMA OpeningIs ==
  ASSUME text \in Seq(Code), NEW f, Nested(Opened(text), Closed(text), f), NEW p \in Opened(text)
  PROVE  Opening(f[p]) = p
PROOF
  <1>1. PICK q \in Nat : q = f[p] /\ q \in Closed(text) /\ p < q /\ p \in Nat /\ q \notin Opened(text)
    BY DEF Nested
  <1>n. PICK n \in Nat : n = Len(text)
    OBVIOUS
  <1>2. n = Len(text) /\ p \in 1..n /\ q \in 1..n
    BY <1>1, <1>n DEF Opened, Closed
  <1>3. Depth(p, q) = 0
    <2>1. p \in Nat \ {0} /\ q =< Len(text)
      BY <1>2
    <2>2. CountIn(Closed(text), p, q) = CountIn(Opened(text), p, q)
      BY <1>1, AsMany
    <2> QED BY <2>1, <2>2, DepthIs
  <1>4. ASSUME NEW k \in 1..q PROVE OpensBlock(k) <=> k \in Opened(text)
    <2>1. k \in 1..n
      BY <1>2
    <2> QED BY <2>1, <1>2 DEF OpensBlock, Opened
  <1>5. ASSUME NEW k \in 1..q, OpensBlock(k), Depth(k, q) = 0 PROVE p >= k
    <2> SUFFICES ASSUME p < k PROVE FALSE
      BY <1>1
    <2>1. k \in Opened(text) /\ k /= q
      BY <1>1, <1>4, <1>5
    <2>2. k < f[p]
      BY <1>1, <2>1
    <2>3. CountIn(Opened(text), k, q) < CountIn(Closed(text), k, q)
      BY <1>1, <2>1, <2>2, FewerOpen
    <2>4. k \in Nat \ {0} /\ q =< Len(text)
      BY <1>2
    <2> QED BY <1>5, <2>3, <2>4, DepthIs
  <1>6. PICK A : A = {k \in 1..q : OpensBlock(k) /\ Depth(k, q) = 0}
    OBVIOUS
  <1>7. p \in 1..q /\ OpensBlock(p)
    BY <1>1, <1>2, <1>4
  <1>8. A \subseteq Nat /\ p \in A /\ \A k \in A : p >= k
    BY <1>3, <1>5, <1>6, <1>7
  <1>9. Max(A) = p
    BY <1>8, MaxIs
  <1> QED BY <1>1, <1>6, <1>9 DEF Opening

(* Inside of a statement stands no label and no return.                    *)
LEMMA Inside ==
  ASSUME NEW b, NEW v, NEW t, NEW d, NEW S, Whole(b, v, t, d, S),
         NEW i \in 1..Len(b), NEW p \in Nat, S[i] =< p, p < S[i + 1]
  PROVE  t[p].c \notin {"label", "return"}
PROOF
  <1>1. PICK s \in Nat, q \in Nat :
          s = S[i] /\ q = S[i + 1] /\ Shape(b, v, t, i, s, q) /\ b[i].op \in Ops /\ v \in BOOLEAN
    <2>1. S[i] \in Nat /\ S[i + 1] \in Nat /\ Shape(b, v, t, i, S[i], S[i + 1])
      BY Places
    <2>2. b[i].op \in Ops /\ v \in BOOLEAN
      BY BodyTypes DEF Whole
    <2> QED BY <2>1, <2>2
  <1>2. s =< p /\ p < q
    BY <1>1
  <1>3. CASE b[i].op = "return"
    <2>1. v = TRUE => q = s + 2 /\ t[s].c = "set" /\ t[s + 1].c = "goto"
      BY <1>1, <1>3 DEF Shape, Is
    <2>2. v = FALSE => q = s + 1 /\ t[s].c = "goto"
      BY <1>1, <1>3 DEF Shape, Is
    <2>3. (v = TRUE => q = s + 2) /\ (v = FALSE => q = s + 1)
      BY <2>1, <2>2
    <2>4. p = s \/ (p = s + 1 /\ v = TRUE)
      BY SMTT(30), <1>1, <1>2, <2>3
    <2> QED BY <1>1, <2>1, <2>2, <2>4
  <1>4. CASE b[i].op = "expect"
    <2>1. q = s + 3 /\ t[s].c = "if" /\ t[s + 1].c = "exit" /\ t[s + 2].c = "}"
      BY <1>1, <1>4 DEF Shape, Is, IsIf
    <2>2. q = s + 3
      BY <2>1
    <2>3. p = s \/ p = s + 1 \/ p = s + 2
      BY <1>2, <2>2
    <2> QED BY <2>1, <2>3
  <1>5. CASE b[i].op = "defer"
    <2>1. q = s
      BY <1>1, <1>5 DEF Shape
    <2> QED BY <1>2, <2>1
  <1>6. CASE b[i].op \notin {"return", "expect", "defer"}
    <2>1. q = s + 1
      BY <1>1, <1>6 DEF Shape, Ops
    <2>2. p = s
      BY <1>2, <2>1
    <2>3. t[s].c \notin {"label", "return"}
      BY <1>1, <1>6 DEF Shape, Ops, Is, IsIf
    <2> QED BY <2>2, <2>3
  <1> QED BY <1>3, <1>4, <1>5, <1>6

(* Behind the statements stand the label, the deferred calls and the       *)
(* return.                                                                 *)
Ends(t, d, L, n) ==
  /\ n = Len(d) /\ Len(t) = L + n + 1 /\ DOMAIN t = 1..(L + n + 1)
  /\ t[L].c = "label" /\ t[L + n + 1].c = "return"
  /\ \A k \in 1..n : t[L + k].c = "expr" /\ t[L + k].of = d[k]

LEMMA Behind ==
  ASSUME NEW b, NEW v, NEW t, NEW d, NEW S, Whole(b, v, t, d, S)
  PROVE  \E L \in Nat \ {0}, n \in Nat : L = S[Len(b) + 1] /\ Ends(t, d, L, n)
PROOF
  <1>1. Len(b) \in Nat /\ Len(d) \in Nat
    BY BodyTypes DEF Whole
  <1>2. PICK L \in Nat \ {0} : L = S[Len(b) + 1]
    <2>1. Len(b) + 1 \in 1..(Len(b) + 1)
      BY <1>1
    <2> QED BY <2>1 DEF Whole, Laid
  <1>3. PICK n \in Nat : n = Len(d)
    BY <1>1
  <1>4. Len(t) = L + n + 1 /\ DOMAIN t = 1..(L + n + 1)
    BY <1>2, <1>3 DEF Whole
  <1>5. t[L].c = "label" /\ t[L + n + 1].c = "return"
    BY <1>2, <1>4 DEF Whole, Is
  <1>6. \A k \in 1..n : t[L + k].c = "expr" /\ t[L + k].of = d[k]
    BY <1>2, <1>3 DEF Whole, Is
  <1> QED BY <1>2, <1>3, <1>4, <1>5, <1>6 DEF Ends

LabelOf(t) == CHOOSE k \in DOMAIN t : t[k].c = "label"

LEMMA LabelIs ==
  ASSUME NEW b, NEW v, NEW t, NEW d, NEW S, Whole(b, v, t, d, S)
  PROVE  LabelOf(t) = S[Len(b) + 1]
PROOF
  <1>a. PICK L \in Nat \ {0}, n \in Nat : L = S[Len(b) + 1] /\ Ends(t, d, L, n)
    BY Behind
  <1>1. /\ L = S[Len(b) + 1]
        /\ t[L].c = "label" /\ t[L + n + 1].c = "return"
        /\ \A k \in 1..n : t[L + k].c = "expr"
    BY <1>a DEF Ends
  <1>2. DOMAIN t = 1..(L + n + 1)
    BY <1>a DEF Ends
  <1>3. L \in 1..(L + n + 1)
    BY <1>1
  <1>4. ASSUME NEW p \in 1..(L + n + 1), t[p].c = "label" PROVE p = L
    <2>1. CASE p < L
      <3>0. Len(b) \in Nat
        BY BodyTypes DEF Whole
      <3>1. p \in 1..(S[Len(b) + 1] - 1) /\ Len(b) + 1 - 1 = Len(b)
        BY <1>1, <2>1, <3>0
      <3>2. PICK i \in 1..Len(b) : S[i] =< p /\ p < S[i + 1]
        BY <3>1 DEF Whole, Laid
      <3>3. p \in Nat
        OBVIOUS
      <3>4. t[p].c \notin {"label", "return"}
        BY <3>2, <3>3, Inside
      <3> QED BY <1>4, <3>4
    <2>2. CASE p > L /\ p < L + n + 1
      <3>1. p - L \in 1..n /\ p = L + (p - L)
        BY <1>1, <2>2
      <3>2. PICK k \in 1..n : p = L + k
        BY <3>1
      <3> QED BY <1>1, <1>4, <3>2
    <2>3. CASE p = L + n + 1
      BY <1>1, <1>4, <2>3
    <2> QED BY <2>1, <2>2, <2>3
  <1> QED BY <1>1, <1>2, <1>3, <1>4 DEF LabelOf

-----------------------------------------------------------------------------
(* The deferred calls of a body b, and the statements that are none.       *)
DeferAt(b, i) == i < Len(b) + 1 /\ b[i].op = "defer"
DefersUpTo(b, i) == {j \in 1..(i - 1) : DeferAt(b, j)}
\* The sequence d has each defer before statement i once.
Lists(d, b, i) ==
  /\ d \in Seq(Nat)
  /\ \A j, k \in 1..Len(d) : d[j] = d[k] => j = k
  /\ {d[k] : k \in 1..Len(d)} = DefersUpTo(b, i)
ReachedIn(b, i) ==
  CHOOSE k \in i..(Len(b) + 1) : ~DeferAt(b, k) /\ \A j \in i..(k - 1) : DeferAt(b, j)

LEMMA SameDefers ==
  ASSUME NEW b, Source.body = b
  PROVE  /\ SourceEnd = Len(b) + 1 /\ Semantics!End = Len(b) + 1
         /\ \A i : DefersBefore(i) = DefersUpTo(b, i)
         /\ \A i : Semantics!DefersBefore(i) = DefersUpTo(b, i)
         /\ \A i : Semantics!Reached(i) = ReachedIn(b, i)
PROOF
  <1>1. SourceEnd = Len(b) + 1 /\ Semantics!End = Len(b) + 1
    BY DEF SourceEnd, Semantics!End
  <1>2. \A i : IsDefer(i) = DeferAt(b, i)
    BY <1>1 DEF IsDefer, DeferAt
  <1>3. \A i : DefersBefore(i) = DefersUpTo(b, i)
    BY <1>2 DEF DefersBefore, DefersUpTo
  <1>4. \A i : Semantics!IsDefer(i) = DeferAt(b, i)
    BY <1>1 DEF Semantics!IsDefer, DeferAt
  <1>5. \A i : Semantics!DefersBefore(i) = DefersUpTo(b, i)
    BY <1>4 DEF Semantics!DefersBefore, DefersUpTo
  <1>6. \A i : Semantics!Reached(i) = ReachedIn(b, i)
    BY <1>1, <1>4 DEF Semantics!Reached, ReachedIn
  <1> QED BY <1>1, <1>3, <1>5, <1>6

(* Walking over the statements in text order lists their defers.           *)
LEMMA DefersGrow ==
  ASSUME NEW b, Parsed(b), NEW i \in 1..Len(b), NEW d, Lists(d, b, i)
  PROVE  /\ b[i].op = "defer" => Lists(Append(d, i), b, i + 1)
         /\ b[i].op /= "defer" => Lists(d, b, i + 1)
PROOF
  <1>0. Len(b) \in Nat /\ DOMAIN b = 1..Len(b)
    BY BodyTypes
  <1>1. DeferAt(b, i) <=> b[i].op = "defer"
    BY <1>0 DEF DeferAt
  <1>2. i \in Nat \ {0} /\ \A j : j \in 1..((i + 1) - 1) <=> j \in 1..(i - 1) \/ j = i
    OBVIOUS
  <1>3. ASSUME b[i].op /= "defer" PROVE Lists(d, b, i + 1)
    <2>1. DefersUpTo(b, i + 1) = DefersUpTo(b, i)
      BY <1>1, <1>2, <1>3 DEF DefersUpTo
    <2> QED BY <2>1 DEF Lists
  <1>4. ASSUME b[i].op = "defer" PROVE Lists(Append(d, i), b, i + 1)
    <2>1. PICK A, B : A = DefersUpTo(b, i) /\ B = DefersUpTo(b, i + 1)
      OBVIOUS
    <2>2. B = A \cup {i} /\ i \notin A
      BY <1>1, <1>2, <1>4, <2>1 DEF DefersUpTo
    <2>3. /\ d \in Seq(Nat) /\ {d[k] : k \in 1..Len(d)} = A
          /\ \A j, k \in 1..Len(d) : d[j] = d[k] => j = k
      BY <2>1 DEF Lists
    <2>4. PICK n \in Nat : n = Len(d)
      BY <2>3
    <2>5. PICK e : e = Append(d, i)
      OBVIOUS
    <2>6. /\ e \in Seq(Nat) /\ Len(e) = n + 1 /\ e[n + 1] = i
          /\ \A k \in 1..n : e[k] = d[k]
      BY <1>2, <2>3, <2>4, <2>5, AppendProperties
    <2>7. \A k \in 1..n : e[k] \in A
      BY <2>3, <2>4, <2>6
    <2>8. \A k : k \in 1..(n + 1) <=> k \in 1..n \/ k = n + 1
      BY <2>4
    <2>9. \A j, k \in 1..(n + 1) : e[j] = e[k] => j = k
      <3> SUFFICES ASSUME NEW j \in 1..(n + 1), NEW k \in 1..(n + 1), e[j] = e[k] PROVE j = k
        OBVIOUS
      <3>1. CASE j \in 1..n /\ k \in 1..n
        BY <2>3, <2>4, <2>6, <3>1
      <3>2. CASE j = n + 1 /\ k = n + 1
        BY <3>2
      <3>3. CASE j \in 1..n /\ k = n + 1
        BY <2>2, <2>6, <2>7, <3>3
      <3>4. CASE j = n + 1 /\ k \in 1..n
        BY <2>2, <2>6, <2>7, <3>4
      <3> QED BY <2>8, <3>1, <3>2, <3>3, <3>4
    <2>10. {e[k] : k \in 1..(n + 1)} = B
      <3>1. ASSUME NEW x \in B PROVE \E k \in 1..(n + 1) : e[k] = x
        <4>1. CASE x = i
          BY <2>6, <2>8, <4>1
        <4>2. CASE x \in A
          <5>1. PICK k \in 1..n : d[k] = x
            BY <2>3, <2>4, <4>2
          <5> QED BY <2>6, <2>8, <5>1
        <4> QED BY <2>2, <3>1, <4>1, <4>2
      <3>2. ASSUME NEW k \in 1..(n + 1) PROVE e[k] \in B
        BY <2>2, <2>6, <2>7, <2>8
      <3> QED BY <3>1, <3>2
    <2> QED BY <2>1, <2>5, <2>6, <2>9, <2>10 DEF Lists
  <1> QED BY <1>3, <1>4

(* From any statement there is a first one that is no defer.               *)
LEMMA FirstOf ==
  ASSUME NEW b, Parsed(b), NEW i \in 1..(Len(b) + 1)
  PROVE  \E k \in i..(Len(b) + 1) :
           k = ReachedIn(b, i) /\ ~DeferAt(b, k) /\ \A j \in i..(k - 1) : DeferAt(b, j)
PROOF
  <1>0. PICK n \in Nat : n = Len(b)
    BY BodyTypes
  <1>1. PICK A : A = {k \in i..(n + 1) : ~DeferAt(b, k)}
    OBVIOUS
  <1>2. A \subseteq Nat /\ n + 1 \in A
    BY <1>0, <1>1 DEF DeferAt
  <1>3. \E k \in A : \A m \in A : k =< m
    BY <1>2, LeastNat
  <1>4. PICK k \in i..(n + 1) : k \in A /\ \A m \in A : k =< m
    BY <1>1, <1>3
  <1>5. ASSUME NEW j \in i..(k - 1) PROVE DeferAt(b, j)
    <2> SUFFICES ASSUME ~DeferAt(b, j) PROVE FALSE
      OBVIOUS
    <2>1. j \in i..(n + 1) /\ ~(k =< j)
      BY <1>0, <1>4
    <2> QED BY <2>1, <1>1, <1>4
  <1>6. ~DeferAt(b, k)
    BY <1>1, <1>4
  <1>7. ASSUME NEW x \in i..(n + 1), ~DeferAt(b, x), \A j \in i..(x - 1) : DeferAt(b, j)
        PROVE  x = k
    <2>1. CASE x < k
      <3>1. x \in i..(k - 1)
        BY <2>1
      <3> QED BY <1>5, <1>7, <3>1
    <2>2. CASE k < x
      <3>1. k \in i..(x - 1)
        BY <2>2
      <3> QED BY <1>6, <1>7, <3>1
    <2>3. x \in Nat /\ k \in Nat
      BY <1>0
    <2> QED BY <2>1, <2>2, <2>3
  <1>8. k = ReachedIn(b, i)
    <2>1. PICK x \in i..(n + 1) :
            x = ReachedIn(b, i) /\ ~DeferAt(b, x) /\ \A j \in i..(x - 1) : DeferAt(b, j)
      BY <1>0, <1>5, <1>6 DEF ReachedIn
    <2> QED BY <2>1, <1>7
  <1> QED BY <1>0, <1>5, <1>6, <1>8

(* It stands where the former stands, since a defer is not printed.        *)
LEMMA Reaching ==
  ASSUME NEW b, NEW v, NEW t, NEW d, NEW S, Whole(b, v, t, d, S), NEW i \in 1..(Len(b) + 1)
  PROVE  \E k \in i..(Len(b) + 1) :
           /\ k = ReachedIn(b, i) /\ ~DeferAt(b, k) /\ \A j \in i..(k - 1) : DeferAt(b, j)
           /\ S[k] = S[i]
PROOF
  <1>0. PICK n \in Nat : n = Len(b)
    BY BodyTypes DEF Whole
  <1>4. PICK k \in i..(n + 1) :
          k = ReachedIn(b, i) /\ ~DeferAt(b, k) /\ \A j \in i..(k - 1) : DeferAt(b, j)
    BY <1>0, FirstOf DEF Whole
  <1>9. S[k] = S[i]
    <2> SUFFICES ASSUME S[k] /= S[i] PROVE FALSE
      OBVIOUS
    <2>1. PICK B : B = {m \in i..k : S[m] /= S[i]}
      OBVIOUS
    <2>2. B \subseteq Nat /\ k \in B
      BY <1>0, <2>1
    <2>3. \E m \in B : \A j \in B : m =< j
      BY <2>2, LeastNat
    <2>4. PICK m \in i..k : m \in B /\ \A j \in B : m =< j
      BY <2>1, <2>3
    <2>5. m /= i
      BY <2>1, <2>4
    <2>6. PICK j \in i..(k - 1) : m = j + 1
      <3>1. m - 1 \in i..(k - 1) /\ m = (m - 1) + 1
        BY <1>0, <2>4, <2>5
      <3> QED BY <3>1
    <2>7. S[j] = S[i]
      <3>1. j \in i..k /\ ~(m =< j)
        BY <1>0, <2>6
      <3> QED BY <2>1, <2>4, <3>1
    <2>8. S[j + 1] = S[j]
      <3>1. j \in 1..Len(b) /\ DeferAt(b, j)
        BY <1>0, <1>4
      <3>2. Shape(b, v, t, j, S[j], S[j + 1])
        BY <3>1, Places
      <3> QED BY <3>1, <3>2 DEF Shape, DeferAt
    <2> QED BY <2>1, <2>4, <2>6, <2>7, <2>8
  <1> QED BY <1>0, <1>4, <1>9

-----------------------------------------------------------------------------
(* Printing.                                                               *)
LEMMA Codes ==
  ASSUME NEW kind \in Kinds, NEW i \in Nat
  PROVE  C(kind, i) \in Code /\ Is(C(kind, i), kind, i)
  BY DEF C, Code, Is

LEMMA IfCodes ==
  ASSUME NEW i \in Nat, NEW negated \in BOOLEAN
  PROVE  CIf(i, negated) \in Code /\ IsIf(CIf(i, negated), i, negated)
  BY DEF CIf, Code, IsIf, Kinds

LEMMA Joined ==
  ASSUME NEW s \in Seq(Code), NEW u \in Seq(Code), NEW t, t = s \o u
  PROVE  /\ t \in Seq(Code) /\ Len(t) = Len(s) + Len(u) /\ Len(s) \in Nat /\ Len(u) \in Nat
         /\ \A k \in 1..Len(s) : t[k] = s[k]
         /\ \A k \in 1..Len(u) : t[Len(s) + k] = u[k]
PROOF
  <1>0. Len(s) \in Nat /\ Len(u) \in Nat
    OBVIOUS
  <1>1. /\ t \in Seq(Code) /\ Len(t) = Len(s) + Len(u)
        /\ \A k \in 1..(Len(s) + Len(u)) : t[k] = IF k =< Len(s) THEN s[k] ELSE u[k - Len(s)]
    BY ConcatProperties
  <1>2. ASSUME NEW k \in 1..Len(s) PROVE t[k] = s[k]
    <2>1. k \in 1..(Len(s) + Len(u)) /\ k =< Len(s)
      BY <1>0
    <2> QED BY <1>1, <2>1
  <1>3. ASSUME NEW k \in 1..Len(u) PROVE t[Len(s) + k] = u[k]
    <2>1. Len(s) + k \in 1..(Len(s) + Len(u)) /\ ~(Len(s) + k =< Len(s)) /\ (Len(s) + k) - Len(s) = k
      BY <1>0
    <2> QED BY <1>1, <2>1
  <1> QED BY <1>0, <1>1, <1>2, <1>3

JoinedAs(s, u, t) ==
  /\ t \in Seq(Code) /\ Len(t) = Len(s) + Len(u)
  /\ \A k \in 1..Len(s) : t[k] = s[k]
  /\ \A k \in 1..Len(u) : t[Len(s) + k] = u[k]

LEMMA JoinedIs ==
  ASSUME NEW s \in Seq(Code), NEW u \in Seq(Code)
  PROVE  JoinedAs(s, u, s \o u)
  BY Joined DEF JoinedAs

(* One to three instructions are printed.                                  *)
LEMMA OnePrinted ==
  ASSUME NEW s \in Seq(Code), NEW x \in Code, NEW u, u = <<x>>, NEW t, t = s \o u, NEW p, p = Len(s) + 1
  PROVE  u \in Seq(Code) /\ p + Len(u) = p + 1 /\ t[p] = x
PROOF
  <1>1. u \in Seq(Code) /\ Len(u) = 1 /\ 1 \in 1..Len(u) /\ u[1] = x
    OBVIOUS
  <1>2. t[Len(s) + 1] = u[1]
    BY <1>1, Joined
  <1> QED BY <1>1, <1>2

LEMMA TwoPrinted ==
  ASSUME NEW s \in Seq(Code), NEW x \in Code, NEW y \in Code, NEW u, u = <<x, y>>,
         NEW t, t = s \o u, NEW p, p = Len(s) + 1
  PROVE  u \in Seq(Code) /\ p + Len(u) = p + 2 /\ t[p] = x /\ t[p + 1] = y
PROOF
  <1>1. u = <<x, y>>
    OBVIOUS
  <1>2. u \in Seq(Code) /\ Len(u) = 2 /\ u[1] = x /\ u[2] = y
    BY <1>1
  <1>3. 1 \in 1..Len(u) /\ 2 \in 1..Len(u) /\ Len(s) \in Nat
    BY <1>2
  <1>4. t[Len(s) + 1] = x /\ t[Len(s) + 2] = y
    BY <1>1, <1>2, <1>3, Joined
  <1>5. p + 1 = Len(s) + 2
    BY <1>3
  <1> QED BY <1>1, <1>2, <1>4, <1>5

LEMMA ThreePrinted ==
  ASSUME NEW s \in Seq(Code), NEW x \in Code, NEW y \in Code, NEW z \in Code,
         NEW u, u = <<x, y, z>>, NEW t, t = s \o u, NEW p, p = Len(s) + 1
  PROVE  /\ u \in Seq(Code) /\ p + Len(u) = p + 3
         /\ t[p] = x /\ t[p + 1] = y /\ t[p + 2] = z
PROOF
  <1>1. u = <<x, y, z>>
    OBVIOUS
  <1>2. u \in Seq(Code) /\ Len(u) = 3 /\ u[1] = x /\ u[2] = y /\ u[3] = z
    BY <1>1
  <1>3. 1 \in 1..Len(u) /\ 2 \in 1..Len(u) /\ 3 \in 1..Len(u) /\ Len(s) \in Nat
    BY <1>2
  <1>4. t[Len(s) + 1] = x /\ t[Len(s) + 2] = y /\ t[Len(s) + 3] = z
    BY <1>1, <1>2, <1>3, Joined
  <1>5. p + 1 = Len(s) + 2 /\ p + 2 = Len(s) + 3
    BY <1>3
  <1> QED BY <1>1, <1>2, <1>4, <1>5

(* What genStmt() appends has the shape of the statement.                  *)
LEMMA PrintedShape ==
  ASSUME NEW b, b = Body, Parsed(b), NEW v \in BOOLEAN, v = currentFn.valued, NEW i \in 1..Len(b),
         NEW u, u = Printed(i), NEW s \in Seq(Code), NEW t, t = s \o u, NEW p, p = Len(s) + 1
  PROVE  u \in Seq(Code) /\ Shape(b, v, t, i, p, p + Len(u))
PROOF
  <1>0. b[i].op \in Ops /\ i \in Nat
    BY BodyTypes
  <1>1. \A kind \in Kinds : C(kind, i) \in Code /\ Is(C(kind, i), kind, i)
    BY <1>0, Codes
  <1>2. \A negated \in BOOLEAN : CIf(i, negated) \in Code /\ IsIf(CIf(i, negated), i, negated)
    BY <1>0, IfCodes
  <1>3. PICK o : o = b[i].op
    OBVIOUS
  <1>4. CASE o = "call"
    <2>1. u = <<C("expr", i)>>
      BY <1>3, <1>4 DEF Printed
    <2>2. PICK x \in Code : u = <<x>> /\ Is(x, "expr", i)
      BY <1>1, <1>2, <2>1 DEF Kinds
    <2>a. u = <<x>>
      BY <2>2
    <2>3. u \in Seq(Code) /\ p + Len(u) = p + 1 /\ t[p] = x
      BY <2>a, OnePrinted
    <2> QED BY <1>3, <1>4, <2>2, <2>3 DEF Shape
  <1>5. CASE o = "return" /\ v = TRUE
    <2>1. u = <<C("set", i), C("goto", i)>>
      BY <1>3, <1>5 DEF Printed
    <2>2. PICK x \in Code, y \in Code : u = <<x, y>> /\ Is(x, "set", i) /\ Is(y, "goto", i)
      BY <1>1, <1>2, <2>1 DEF Kinds
    <2>a. u = <<x, y>>
      BY <2>2
    <2>3. u \in Seq(Code) /\ p + Len(u) = p + 2 /\ t[p] = x /\ t[p + 1] = y
      BY <2>a, TwoPrinted
    <2> QED BY <1>3, <1>5, <2>2, <2>3 DEF Shape
  <1>6. CASE o = "return" /\ v = FALSE
    <2>1. u = <<C("goto", i)>>
      BY <1>3, <1>6 DEF Printed
    <2>2. PICK x \in Code : u = <<x>> /\ Is(x, "goto", i)
      BY <1>1, <1>2, <2>1 DEF Kinds
    <2>a. u = <<x>>
      BY <2>2
    <2>3. u \in Seq(Code) /\ p + Len(u) = p + 1 /\ t[p] = x
      BY <2>a, OnePrinted
    <2> QED BY <1>3, <1>6, <2>2, <2>3 DEF Shape
  <1>7. CASE o = "if"
    <2>1. u = <<CIf(i, FALSE)>>
      BY <1>3, <1>7 DEF Printed
    <2>2. PICK x \in Code : u = <<x>> /\ IsIf(x, i, FALSE)
      BY <1>1, <1>2, <2>1 DEF Kinds
    <2>a. u = <<x>>
      BY <2>2
    <2>3. u \in Seq(Code) /\ p + Len(u) = p + 1 /\ t[p] = x
      BY <2>a, OnePrinted
    <2> QED BY <1>3, <1>7, <2>2, <2>3 DEF Shape
  <1>8. CASE o = "else"
    <2>1. u = <<C("else", i)>>
      BY <1>3, <1>8 DEF Printed
    <2>2. PICK x \in Code : u = <<x>> /\ Is(x, "else", i)
      BY <1>1, <1>2, <2>1 DEF Kinds
    <2>a. u = <<x>>
      BY <2>2
    <2>3. u \in Seq(Code) /\ p + Len(u) = p + 1 /\ t[p] = x
      BY <2>a, OnePrinted
    <2> QED BY <1>3, <1>8, <2>2, <2>3 DEF Shape
  <1>9. CASE o = "while"
    <2>1. u = <<C("for", i)>>
      BY <1>3, <1>9 DEF Printed
    <2>2. PICK x \in Code : u = <<x>> /\ Is(x, "for", i)
      BY <1>1, <1>2, <2>1 DEF Kinds
    <2>a. u = <<x>>
      BY <2>2
    <2>3. u \in Seq(Code) /\ p + Len(u) = p + 1 /\ t[p] = x
      BY <2>a, OnePrinted
    <2> QED BY <1>3, <1>9, <2>2, <2>3 DEF Shape
  <1>10. CASE o = "expect"
    <2>1. u = <<CIf(i, TRUE), C("exit", i), C("}", i)>>
      BY <1>3, <1>10 DEF Printed
    <2>2. PICK x \in Code, y \in Code, z \in Code : u = <<x, y, z>> /\ IsIf(x, i, TRUE) /\ Is(y, "exit", i) /\ Is(z, "}", i)
      BY <1>1, <1>2, <2>1 DEF Kinds
    <2>a. u = <<x, y, z>>
      BY <2>2
    <2>3. u \in Seq(Code) /\ p + Len(u) = p + 3 /\ t[p] = x /\ t[p + 1] = y /\ t[p + 2] = z
      BY <2>a, ThreePrinted
    <2> QED BY <1>3, <1>10, <2>2, <2>3 DEF Shape
  <1>11. CASE o = "expectelse"
    <2>1. u = <<CIf(i, TRUE)>>
      BY <1>3, <1>11 DEF Printed
    <2>2. PICK x \in Code : u = <<x>> /\ IsIf(x, i, TRUE)
      BY <1>1, <1>2, <2>1 DEF Kinds
    <2>a. u = <<x>>
      BY <2>2
    <2>3. u \in Seq(Code) /\ p + Len(u) = p + 1 /\ t[p] = x
      BY <2>a, OnePrinted
    <2> QED BY <1>3, <1>11, <2>2, <2>3 DEF Shape
  <1>12. CASE o = "open"
    <2>1. u = <<C("{", i)>>
      BY <1>3, <1>12 DEF Printed
    <2>2. PICK x \in Code : u = <<x>> /\ Is(x, "{", i)
      BY <1>1, <1>2, <2>1 DEF Kinds
    <2>a. u = <<x>>
      BY <2>2
    <2>3. u \in Seq(Code) /\ p + Len(u) = p + 1 /\ t[p] = x
      BY <2>a, OnePrinted
    <2> QED BY <1>3, <1>12, <2>2, <2>3 DEF Shape
  <1>13. CASE o = "close"
    <2>1. u = <<C("}", i)>>
      BY <1>3, <1>13 DEF Printed
    <2>2. PICK x \in Code : u = <<x>> /\ Is(x, "}", i)
      BY <1>1, <1>2, <2>1 DEF Kinds
    <2>a. u = <<x>>
      BY <2>2
    <2>3. u \in Seq(Code) /\ p + Len(u) = p + 1 /\ t[p] = x
      BY <2>a, OnePrinted
    <2> QED BY <1>3, <1>13, <2>2, <2>3 DEF Shape
  <1>14. CASE o = "defer"
    <2>1. u = <<>>
      BY <1>3, <1>14 DEF Printed
    <2>2. u \in Seq(Code) /\ p + Len(u) = p
      BY <2>1
    <2> QED BY <1>3, <1>14, <2>2 DEF Shape
  <1>15. o \in Ops
    BY <1>0, <1>3
  <1> QED BY <1>4, <1>5, <1>6, <1>7, <1>8, <1>9, <1>10, <1>11, <1>12, <1>13, <1>14, <1>15 DEF Ops

(* A statement keeps its shape when more is printed behind it.             *)
LEMMA ShapeSame ==
  ASSUME NEW b, NEW v \in BOOLEAN, NEW t, NEW r, NEW i, NEW p \in Nat, NEW q \in Nat,
         b[i].op \in Ops, Shape(b, v, t, i, p, q), \A x \in p..(q - 1) : r[x] = t[x]
  PROVE  Shape(b, v, r, i, p, q)
PROOF
  <1>1. q > p => r[p] = t[p]
    <2>1. q > p => p \in p..(q - 1)
      OBVIOUS
    <2> QED BY <2>1
  <1>2. q > p + 1 => r[p + 1] = t[p + 1]
    <2>1. q > p + 1 => p + 1 \in p..(q - 1)
      OBVIOUS
    <2> QED BY <2>1
  <1>3. q > p + 2 => r[p + 2] = t[p + 2]
    <2>1. q > p + 2 => p + 2 \in p..(q - 1)
      OBVIOUS
    <2> QED BY <2>1
  <1>4. CASE b[i].op = "expect"
    <2>1. q = p + 3
      BY <1>4 DEF Shape
    <2>2. q > p /\ q > p + 1 /\ q > p + 2
      BY <2>1
    <2>3. r[p] = t[p] /\ r[p + 1] = t[p + 1] /\ r[p + 2] = t[p + 2]
      BY <1>1, <1>2, <1>3, <2>2
    <2> QED BY <1>4, <2>3 DEF Shape
  <1>5. CASE b[i].op = "return" /\ v = TRUE
    <2>1. q = p + 2
      BY <1>5 DEF Shape
    <2>2. q > p /\ q > p + 1
      BY <2>1
    <2>3. r[p] = t[p] /\ r[p + 1] = t[p + 1]
      BY <1>1, <1>2, <2>2
    <2> QED BY <1>5, <2>3 DEF Shape
  <1>6. CASE b[i].op = "return" /\ v = FALSE
    <2>1. q = p + 1
      BY <1>6 DEF Shape
    <2>2. q > p
      BY <2>1
    <2>3. r[p] = t[p]
      BY <1>1, <2>2
    <2> QED BY <1>6, <2>3 DEF Shape
  <1>7. CASE b[i].op = "defer"
    BY <1>7 DEF Shape
  <1>8. CASE b[i].op \notin {"return", "expect", "defer"}
    <2>1. q = p + 1
      BY <1>8 DEF Shape, Ops
    <2>2. q > p
      BY <2>1
    <2>3. r[p] = t[p]
      BY <1>1, <2>2
    <2> QED BY <1>8, <2>3 DEF Shape
  <1> QED BY <1>4, <1>5, <1>6, <1>7, <1>8

(* The statements before m are printed as t, and d are the calls they      *)
(* defer.                                                                  *)
HalfPrinted(b, v, t, d, m) ==
  /\ t \in Seq(Code) /\ d \in Seq(Nat) /\ Lists(d, b, m)
  /\ \E S \in [1..m -> Nat \ {0}] : Laid(b, v, t, S, m) /\ Len(t) + 1 = S[m]

LEMMA NothingPrinted ==
  ASSUME NEW b, Parsed(b), NEW v \in BOOLEAN
  PROVE  HalfPrinted(b, v, <<>>, <<>>, 1)
PROOF
  <1>0. Len(b) \in Nat
    BY BodyTypes
  <1>1. <<>> \in Seq(Code) /\ <<>> \in Seq(Nat) /\ Len(<<>>) = 0
    OBVIOUS
  <1>2. Lists(<<>>, b, 1)
    <2>1. DefersUpTo(b, 1) = {}
      BY DEF DefersUpTo
    <2> QED BY <1>1, <2>1 DEF Lists
  <1>3. PICK S : S = [k \in 1..1 |-> 1]
    OBVIOUS
  <1>4. S \in [1..1 -> Nat \ {0}] /\ S[1] = 1
    BY <1>3
  <1>5. Laid(b, v, <<>>, S, 1)
    <2>1. 1 \in 1..(Len(b) + 1)
      BY <1>0
    <2>2. \A i, j \in 1..1 : i =< j => S[i] =< S[j]
      BY <1>4
    <2> QED BY <1>4, <2>1, <2>2 DEF Laid
  <1> QED BY <1>1, <1>2, <1>4, <1>5 DEF HalfPrinted

(* What a step that prints appends.                                        *)
Extends(r, t) == Len(t) \in Nat /\ \A x \in 1..Len(t) : r[x] = t[x]

LEMMA LaidStays ==
  ASSUME NEW b, Parsed(b), NEW v \in BOOLEAN, NEW t, NEW r, NEW S, NEW m, Laid(b, v, t, S, m),
         Len(t) + 1 = S[m], Extends(r, t)
  PROVE  Laid(b, v, r, S, m)
PROOF
  <1>0. PICK n \in Nat : n = Len(t) /\ \A x \in 1..n : r[x] = t[x]
    BY DEF Extends
  <1>1. /\ m \in 1..(Len(b) + 1) /\ S \in [1..m -> Nat \ {0}] /\ Len(b) \in Nat
        /\ \A i, j \in 1..m : i =< j => S[i] =< S[j]
    BY BodyTypes DEF Laid
  <1>2. ASSUME NEW i \in 1..(m - 1) PROVE Shape(b, v, r, i, S[i], S[i + 1])
    <2>1. i \in 1..m /\ i + 1 \in 1..m /\ m \in 1..m /\ i + 1 =< m /\ i \in 1..Len(b)
      BY <1>1
    <2>2. PICK p \in Nat \ {0}, q \in Nat : p = S[i] /\ q = S[i + 1] /\ q =< n + 1
      <3>1. S[i] \in Nat \ {0} /\ S[i + 1] \in Nat /\ S[i + 1] =< n + 1
        BY <1>0, <1>1, <2>1
      <3> QED BY <3>1
    <2>3. Shape(b, v, t, i, p, q)
      BY <2>2 DEF Laid
    <2>4. \A x \in p..(q - 1) : x \in 1..n
      BY <2>2
    <2>5. b[i].op \in Ops
      BY <2>1, BodyTypes
    <2> QED BY <1>0, <2>2, <2>3, <2>4, <2>5, ShapeSame
  <1> QED BY <1>2 DEF Laid

(* The next statement.                                                     *)
LaidTo(b, v, t, m, q) == \E R \in [1..m -> Nat \ {0}] : Laid(b, v, t, R, m) /\ R[m] = q

LEMMA LaidLonger ==
  ASSUME NEW b, Parsed(b), NEW v \in BOOLEAN, NEW t, NEW S, NEW m \in 1..Len(b), Laid(b, v, t, S, m),
         NEW p, p = S[m], NEW q \in Nat, p =< q, Shape(b, v, t, m, p, q)
  PROVE  LaidTo(b, v, t, m + 1, q)
PROOF
  <1>0. PICK n \in Nat : n = Len(b) /\ m \in 1..n
    BY BodyTypes
  <1>1. /\ S \in [1..m -> Nat \ {0}] /\ S[1] = 1
        /\ \A i \in 1..(m - 1) : Shape(b, v, t, i, S[i], S[i + 1])
        /\ \A i, j \in 1..m : i =< j => S[i] =< S[j]
        /\ \A x \in 1..(S[m] - 1) : \E i \in 1..(m - 1) : S[i] =< x /\ x < S[i + 1]
    BY DEF Laid
  <1>2. PICK R : R = [k \in 1..(m + 1) |-> IF k = m + 1 THEN q ELSE S[k]]
    OBVIOUS
  <1>3. R[m + 1] = q /\ \A k \in 1..m : R[k] = S[k]
    <2>1. m + 1 \in 1..(m + 1) /\ \A k \in 1..m : k \in 1..(m + 1) /\ k /= m + 1
      BY <1>0
    <2> QED BY <1>2, <2>1
  <1>4. p \in Nat \ {0} /\ q \in Nat \ {0}
    <2>1. m \in 1..m
      BY <1>0
    <2>2. p \in Nat \ {0}
      BY <1>1, <2>1
    <2> QED BY <2>2
  <1>5. R \in [1..(m + 1) -> Nat \ {0}]
    <2>1. \A k \in 1..(m + 1) : k = m + 1 \/ k \in 1..m
      BY <1>0
    <2>2. \A k \in 1..(m + 1) : R[k] \in Nat \ {0}
      BY <1>1, <1>3, <1>4, <2>1
    <2> QED BY <1>2, <2>2
  <1>6. R[1] = 1
    <2>1. 1 \in 1..m
      BY <1>0
    <2> QED BY <1>1, <1>3, <2>1
  <1>7. ASSUME NEW i \in 1..m PROVE Shape(b, v, t, i, R[i], R[i + 1])
    <2>1. CASE i = m
      BY <1>3, <2>1
    <2>2. CASE i /= m
      <3>1. i \in 1..(m - 1) /\ i \in 1..m /\ i + 1 \in 1..m
        BY <1>0, <2>2
      <3> QED BY <1>1, <1>3, <3>1
    <2> QED BY <2>1, <2>2
  <1>8. ASSUME NEW i \in 1..(m + 1), NEW j \in 1..(m + 1), i =< j PROVE R[i] =< R[j]
    <2>1. CASE j = m + 1 /\ i /= m + 1
      <3>1. i \in 1..m /\ m \in 1..m /\ i =< m
        BY <1>0, <2>1
      <3>2. R[i] =< p /\ R[i] \in Nat
        BY <1>1, <1>3, <3>1
      <3> QED BY <1>3, <1>4, <2>1, <3>2
    <2>2. CASE j = m + 1 /\ i = m + 1
      BY <1>3, <2>2
    <2>3. CASE j /= m + 1
      <3>1. i \in 1..m /\ j \in 1..m
        BY <1>0, <1>8, <2>3
      <3> QED BY <1>1, <1>3, <1>8, <3>1
    <2> QED BY <2>1, <2>2, <2>3
  <1>9. ASSUME NEW x \in 1..(q - 1) PROVE \E i \in 1..m : R[i] =< x /\ x < R[i + 1]
    <2>1. CASE x < p
      <3>1. x \in 1..(S[m] - 1)
        BY <1>4, <2>1
      <3>2. PICK i \in 1..(m - 1) : S[i] =< x /\ x < S[i + 1]
        BY <1>1, <3>1
      <3>3. i \in 1..m /\ i + 1 \in 1..m
        BY <1>0
      <3> QED BY <1>3, <3>2, <3>3
    <2>2. CASE p =< x
      <3>1. m \in 1..m /\ x < q
        BY <1>0, <1>4
      <3> QED BY <1>3, <2>2, <3>1
    <2> QED BY <1>4, <2>1, <2>2
  <1>10. m + 1 \in 1..(Len(b) + 1) /\ (m + 1) - 1 = m
    BY <1>0
  <1>11. Laid(b, v, t, R, m + 1)
    BY <1>3, <1>5, <1>6, <1>7, <1>8, <1>9, <1>10 DEF Laid
  <1> QED BY <1>3, <1>5, <1>11 DEF LaidTo

(* genStmt() on statement m.                                               *)
LEMMA StatementPrinted ==
  ASSUME NEW b, b = Body, Parsed(b), NEW v \in BOOLEAN, v = currentFn.valued, NEW m \in 1..Len(b),
         NEW t, NEW d, HalfPrinted(b, v, t, d, m), NEW u, u = Printed(m),
         NEW e, e = IF b[m].op = "defer" THEN Append(d, m) ELSE d
  PROVE  HalfPrinted(b, v, t \o u, e, m + 1)
PROOF
  <1>0. t \in Seq(Code) /\ d \in Seq(Nat) /\ Lists(d, b, m) /\ m \in Nat
    BY BodyTypes DEF HalfPrinted
  <1>1. PICK S \in [1..m -> Nat \ {0}] : Laid(b, v, t, S, m) /\ Len(t) + 1 = S[m]
    BY DEF HalfPrinted
  <1>2. PICK r : r = t \o u
    OBVIOUS
  <1>3. PICK p : p = Len(t) + 1
    OBVIOUS
  <1>4. u \in Seq(Code) /\ Shape(b, v, r, m, p, p + Len(u))
    BY <1>0, <1>2, <1>3, PrintedShape
  <1>5. /\ r \in Seq(Code) /\ Len(r) = Len(t) + Len(u) /\ Len(t) \in Nat /\ Len(u) \in Nat
        /\ \A k \in 1..Len(t) : r[k] = t[k]
    BY <1>0, <1>2, <1>4, Joined
  <1>6. Laid(b, v, r, S, m)
    BY <1>1, <1>5, LaidStays DEF Extends
  <1>7. PICK q \in Nat : q = p + Len(u) /\ p =< q /\ q = Len(r) + 1
    <2>1. p + Len(u) \in Nat /\ p =< p + Len(u) /\ p + Len(u) = Len(r) + 1
      BY <1>3, <1>5
    <2> QED BY <2>1
  <1>8. Shape(b, v, r, m, p, q) /\ p = S[m]
    BY <1>1, <1>3, <1>4, <1>7
  <1>a. LaidTo(b, v, r, m + 1, q)
    BY <1>6, <1>7, <1>8, LaidLonger
  <1>9. PICK R \in [1..(m + 1) -> Nat \ {0}] : Laid(b, v, r, R, m + 1) /\ R[m + 1] = q
    BY <1>a DEF LaidTo
  <1>10. e \in Seq(Nat) /\ Lists(e, b, m + 1)
    <2>1. Lists(e, b, m + 1)
      BY <1>0, DefersGrow
    <2> QED BY <2>1 DEF Lists
  <1>11. HalfPrinted(b, v, r, e, m + 1)
    BY <1>5, <1>7, <1>9, <1>10 DEF HalfPrinted
  <1> QED BY <1>2, <1>11

EnclosedAs(x, y, z, n, u) ==
  /\ u \in Seq(Code) /\ Len(u) = n + 2
  /\ u[1] = x /\ (\A k \in 1..n : u[1 + k] = y[k]) /\ u[n + 2] = z

LEMMA Enclosed ==
  ASSUME NEW x \in Code, NEW y \in Seq(Code), NEW z \in Code, NEW n, n = Len(y),
         NEW u, u = (<<x>> \o y) \o <<z>>
  PROVE  EnclosedAs(x, y, z, n, u)
PROOF
  <1>a. PICK a, e : a = <<x>> /\ e = <<z>>
    OBVIOUS
  <1>1. a \in Seq(Code) /\ a = <<x>> /\ Len(a) = 1 /\ a[1] = x
    BY <1>a
  <1>2. e \in Seq(Code) /\ e = <<z>> /\ Len(e) = 1 /\ e[1] = z
    BY <1>a
  <1>3. PICK h : h = a \o y
    OBVIOUS
  <1>4. /\ h \in Seq(Code) /\ Len(h) = Len(a) + Len(y) /\ Len(y) \in Nat
        /\ \A k \in 1..Len(a) : h[k] = a[k]
        /\ \A k \in 1..Len(y) : h[Len(a) + k] = y[k]
    BY <1>1, <1>3, Joined
  <1>5. /\ h \in Seq(Code) /\ Len(h) = 1 + n /\ n \in Nat
        /\ h[1] = x /\ \A k \in 1..n : h[1 + k] = y[k]
    <2>1. 1 \in 1..Len(a)
      BY <1>1
    <2> QED BY <1>1, <1>4, <2>1
  <1>6. PICK w : w = h \o e
    OBVIOUS
  <1>7. /\ w \in Seq(Code) /\ Len(w) = Len(h) + Len(e)
        /\ \A k \in 1..Len(h) : w[k] = h[k]
        /\ \A k \in 1..Len(e) : w[Len(h) + k] = e[k]
    <2>1. JoinedAs(h, e, w)
      BY <1>2, <1>4, <1>6, JoinedIs
    <2> QED BY <2>1 DEF JoinedAs
  <1>8. u = w
    BY <1>1, <1>2, <1>3, <1>6
  <1>9. 1 \in 1..Len(h) /\ 1 \in 1..Len(e) /\ (\A k \in 1..n : 1 + k \in 1..Len(h)) /\ Len(h) + 1 = n + 2
    BY <1>2, <1>5
  <1>10. w[1] = x /\ w[n + 2] = z /\ Len(w) = n + 2
    BY <1>2, <1>5, <1>7, <1>9
  <1>11. \A k \in 1..n : w[1 + k] = y[k]
    BY <1>5, <1>7, <1>9
  <1> QED BY <1>7, <1>8, <1>10, <1>11 DEF EnclosedAs

(* genFunction() prints the rest.                                          *)
LEMMA FunctionPrinted ==
  ASSUME NEW b, Parsed(b), NEW v \in BOOLEAN, NEW t, NEW d, HalfPrinted(b, v, t, d, Len(b) + 1),
         NEW u, u = <<C("label", 0)>> \o [k \in DOMAIN d |-> C("expr", d[k])] \o <<C("return", 0)>>
  PROVE  \E S : Whole(b, v, t \o u, d, S)
PROOF
  <1>0. t \in Seq(Code) /\ d \in Seq(Nat)
    BY DEF HalfPrinted
  <1>1. PICK m : m = Len(b) + 1
    OBVIOUS
  <1>2. PICK S : Laid(b, v, t, S, m) /\ Len(t) + 1 = S[m]
    BY <1>1 DEF HalfPrinted
  <1>3. PICK n \in Nat : n = Len(d) /\ DOMAIN d = 1..n /\ \A k \in 1..n : d[k] \in Nat
    <2>1. Len(d) \in Nat /\ DOMAIN d = 1..Len(d) /\ \A k \in 1..Len(d) : d[k] \in Nat
      BY <1>0, ElementOfSeq
    <2> QED BY <2>1
  <1>4. PICK x \in Code, z \in Code : x = C("label", 0) /\ z = C("return", 0) /\ Is(x, "label", 0) /\ Is(z, "return", 0)
    <2>1. "label" \in Kinds /\ "return" \in Kinds /\ 0 \in Nat
      BY DEF Kinds
    <2>2. C("label", 0) \in Code /\ Is(C("label", 0), "label", 0)
      BY <2>1, Codes
    <2>3. C("return", 0) \in Code /\ Is(C("return", 0), "return", 0)
      BY <2>1, Codes
    <2> QED BY <2>2, <2>3
  <1>5. PICK y : y = [k \in DOMAIN d |-> C("expr", d[k])]
    OBVIOUS
  <1>6. \A k \in 1..n : y[k] \in Code /\ Is(y[k], "expr", d[k])
    <2>1. "expr" \in Kinds
      BY DEF Kinds
    <2>2. \A k \in 1..n : y[k] = C("expr", d[k])
      BY <1>3, <1>5
    <2> QED BY <1>3, <2>1, <2>2, Codes
  <1>7. y \in Seq(Code) /\ Len(y) = n
    <2>1. y = [k \in 1..n |-> y[k]]
      BY <1>3, <1>5
    <2>2. y \in [1..n -> Code]
      BY <1>6, <2>1
    <2> QED BY <2>2
  <1>8. u = (<<x>> \o y) \o <<z>>
    BY <1>4, <1>5
  <1>13. /\ u \in Seq(Code) /\ Len(u) = n + 2
         /\ u[1] = x /\ (\A k \in 1..n : u[1 + k] = y[k]) /\ u[n + 2] = z
    <2>1. EnclosedAs(x, y, z, n, u)
      BY <1>7, <1>8, Enclosed
    <2> QED BY <2>1 DEF EnclosedAs
  <1>14. PICK r : r = t \o u
    OBVIOUS
  <1>15. /\ r \in Seq(Code) /\ Len(r) = Len(t) + Len(u) /\ Len(t) \in Nat
         /\ \A k \in 1..Len(t) : r[k] = t[k]
         /\ \A k \in 1..Len(u) : r[Len(t) + k] = u[k]
    BY <1>0, <1>13, <1>14, Joined
  <1>16. PICK L \in Nat \ {0} : L = S[m] /\ L = Len(t) + 1
    BY <1>2, <1>15
  <1>17. Laid(b, v, r, S, m)
    BY <1>2, <1>15, LaidStays DEF Extends
  <1>18. Len(r) = L + n + 1
    BY <1>13, <1>15, <1>16
  <1>19. Is(r[L], "label", 0)
    <2>1. 1 \in 1..Len(u) /\ Len(t) + 1 = L
      BY <1>13, <1>16
    <2> QED BY <1>4, <1>13, <1>15, <2>1
  <1>20. ASSUME NEW k \in 1..n PROVE Is(r[L + k], "expr", d[k])
    <2>1. 1 + k \in 1..Len(u) /\ Len(t) + (1 + k) = L + k
      BY <1>13, <1>15, <1>16
    <2>2. r[L + k] = y[k]
      BY <1>13, <1>15, <2>1
    <2> QED BY <1>6, <2>2
  <1>21. Is(r[Len(r)], "return", 0)
    <2>1. n + 2 \in 1..Len(u) /\ Len(t) + (n + 2) = Len(r)
      BY <1>13, <1>15
    <2> QED BY <1>4, <1>13, <1>15, <2>1
  <1>22. Whole(b, v, r, d, S)
    BY <1>0, <1>1, <1>3, <1>15, <1>16, <1>17, <1>18, <1>19, <1>20, <1>21 DEF Whole
  <1> QED BY <1>14, <1>22

-----------------------------------------------------------------------------
(* Where the C stands, as a function of the text t, the instruction p, the *)
(* value r and the phase ph.                                               *)
LeavingIn(t, p, r) == p >= LabelOf(t) \/ (t[p].c = "goto" /\ r = t[p].of)
AtIn(b, t, p, r) == IF LeavingIn(t, p, r) THEN Len(b) + 1 ELSE t[p].of
ToRunIn(t, p) == {k \in LabelOf(t) + 1..Len(t) - 1 : k >= p}
PendingIn(b, t, p, r) ==
  IF LeavingIn(t, p, r)
  THEN {t[k].of : k \in ToRunIn(t, p)}
  ELSE DefersUpTo(b, AtIn(b, t, p, r))
StateIn(t, p, ph) ==
  IF ph = "run" /\ t[p].c /= "exit" THEN "running"
  ELSE IF ph = "returned" THEN "returned" ELSE "exited"

LEMMA MappedNow ==
  ASSUME NEW b, Source.body = b, phase /= "print"
  PROVE  /\ SourceAt = AtIn(b, text, pc, return_value)
         /\ SourcePending = PendingIn(b, text, pc, return_value)
         /\ SourceState = StateIn(text, pc, phase)
PROOF
  <1>1. Label = LabelOf(text) /\ SourceEnd = Len(b) + 1 /\ \A i : DefersBefore(i) = DefersUpTo(b, i)
    BY SameDefers DEF Label, LabelOf
  <1>2. Leaving <=> LeavingIn(text, pc, return_value)
    BY <1>1 DEF Leaving, LeavingIn, Instr
  <1>3. SourceAt = AtIn(b, text, pc, return_value)
    BY <1>1, <1>2 DEF SourceAt, AtIn, Instr
  <1>4. ToRun = ToRunIn(text, pc)
    BY <1>1 DEF ToRun, ToRunIn
  <1>5. SourcePending = PendingIn(b, text, pc, return_value)
    BY <1>1, <1>2, <1>3, <1>4 DEF SourcePending, PendingIn
  <1>6. SourceState = StateIn(text, pc, phase)
    BY DEF SourceState, StateIn, Instr
  <1> QED BY <1>3, <1>5, <1>6

LEMMA DeferredNext ==
  ASSUME NEW b, Source.body = b, Source' = Source, NEW i, SourceAt' = i
  PROVE  SourceEnd' = Len(b) + 1 /\ (\A j : IsDefer(j)' = DeferAt(b, j)) /\ DefersBefore(SourceAt)' = DefersUpTo(b, i)
PROOF
  <1>1. Source'.body = b
    OBVIOUS
  <1>2. SourceEnd' = Len(b) + 1
    BY <1>1 DEF SourceEnd
  <1>3. \A j : IsDefer(j)' = DeferAt(b, j)
    BY <1>1, <1>2 DEF IsDefer, DeferAt
  <1>4. DefersBefore(SourceAt)' = DefersUpTo(b, i)
    BY <1>3 DEF DefersBefore, DefersUpTo
  <1> QED BY <1>2, <1>3, <1>4

LEMMA MappedNext ==
  ASSUME NEW b, Source.body = b, functions' = functions, phase' /= "print",
         NEW t, t = text', NEW p, p = pc', NEW r, r = return_value', NEW ph, ph = phase'
  PROVE  /\ SourceAt' = AtIn(b, t, p, r)
         /\ SourcePending' = PendingIn(b, t, p, r)
         /\ SourceState' = StateIn(t, p, ph)
         /\ Source' = Source
PROOF
  <1>0. Source' = Source
    BY DEF Source
  <1>1. Label' = LabelOf(t) /\ SourceEnd' = Len(b) + 1
    BY <1>0 DEF Label, LabelOf, SourceEnd
  <1>2. Leaving' <=> LeavingIn(t, p, r)
    BY <1>1 DEF Leaving, LeavingIn, Instr
  <1>3. SourceAt' = AtIn(b, t, p, r)
    BY <1>1, <1>2 DEF SourceAt, AtIn, Instr
  <1>4. ToRun' = ToRunIn(t, p)
    BY <1>1 DEF ToRun, ToRunIn
  <1>5. PICK i : i = AtIn(b, t, p, r)
    OBVIOUS
  <1>6. DefersBefore(SourceAt)' = DefersUpTo(b, i)
    BY <1>0, <1>3, <1>5, DeferredNext
  <1>7. SourcePending' = PendingIn(b, t, p, r)
    BY <1>2, <1>4, <1>5, <1>6 DEF SourcePending, PendingIn
  <1>8. SourceState' = StateIn(t, p, ph)
    BY DEF SourceState, StateIn, Instr
  <1> QED BY <1>0, <1>3, <1>7, <1>8

(* A function without a value never sets one.                              *)
Fits(v, r) == v = FALSE => r = NoValue
Gives(v) == v /= FALSE

(* At the beginning of a statement that is printed.                        *)
LEMMA AtStatement ==
  ASSUME NEW b, NEW v, NEW t, NEW d, NEW S, Whole(b, v, t, d, S), NEW r, Fits(v, r),
         NEW i \in 1..Len(b), b[i].op /= "defer", NEW p, p = S[i]
  PROVE  /\ p \in Nat \ {0} /\ p < LabelOf(t) /\ ~LeavingIn(t, p, r)
         /\ AtIn(b, t, p, r) = i /\ PendingIn(b, t, p, r) = DefersUpTo(b, i)
         /\ StateIn(t, p, "run") = "running"
PROOF
  <1>1. PICK q \in Nat, L \in Nat :
          /\ q = S[i + 1] /\ L = S[Len(b) + 1] /\ p \in Nat \ {0}
          /\ Shape(b, v, t, i, p, q) /\ p < q /\ q =< L
    <2>1. /\ S[i] \in Nat \ {0} /\ S[i + 1] \in Nat /\ S[Len(b) + 1] \in Nat
          /\ Shape(b, v, t, i, S[i], S[i + 1]) /\ S[i] < S[i + 1] /\ S[i + 1] =< S[Len(b) + 1]
      BY Places
    <2> QED BY <2>1
  <1>2. LabelOf(t) = L
    BY <1>1, LabelIs
  <1>3. p < LabelOf(t) /\ ~(p >= LabelOf(t))
    BY <1>1, <1>2
  <1>4. b[i].op \in Ops /\ v \in BOOLEAN
    BY BodyTypes DEF Whole
  <1>5. t[p].of = i /\ t[p].c /= "exit" /\ (t[p].c = "goto" => b[i].op = "return" /\ v = FALSE)
    <2>1. CASE b[i].op = "return"
      BY <1>1, <1>4, <2>1 DEF Shape, Is
    <2>2. CASE b[i].op /= "return"
      <3>1. t[p].of = i /\ t[p].c /= "exit" /\ t[p].c /= "goto"
        BY <1>1, <1>4, <2>2 DEF Shape, Is, IsIf, Ops
      <3> QED BY <3>1
    <2> QED BY <2>1, <2>2
  <1>6. ~LeavingIn(t, p, r)
    <2> SUFFICES ASSUME LeavingIn(t, p, r) PROVE FALSE
      OBVIOUS
    <2>1. t[p].c = "goto" /\ r = i
      BY <1>3, <1>5 DEF LeavingIn
    <2>2. r = NoValue /\ i \in Nat
      BY <1>5, <2>1 DEF Fits
    <2> QED BY <2>1, <2>2, NoValueAssumption
  <1>7. AtIn(b, t, p, r) = i
    BY <1>5, <1>6 DEF AtIn
  <1>8. PendingIn(b, t, p, r) = DefersUpTo(b, i)
    BY <1>6, <1>7 DEF PendingIn
  <1>9. StateIn(t, p, "run") = "running"
    BY <1>5 DEF StateIn
  <1> QED BY <1>1, <1>3, <1>6, <1>7, <1>8, <1>9

(* The deferred calls from the w-th on.                                    *)
Rest(d, w) == {d[k] : k \in w..Len(d)}

LEMMA RestIs ==
  ASSUME NEW b, NEW d, NEW i, Lists(d, b, i), NEW w \in 1..(Len(d) + 1)
  PROVE  /\ Rest(d, 1) = DefersUpTo(b, i) /\ Rest(d, Len(d) + 1) = {}
         /\ w =< Len(d) => d[w] \in Rest(d, w) /\ Rest(d, w + 1) = Rest(d, w) \ {d[w]}
PROOF
  <1>1. PICK n \in Nat : n = Len(d)
    BY DEF Lists
  <1>2. Rest(d, 1) = DefersUpTo(b, i)
    BY DEF Rest, Lists
  <1>3. Rest(d, n + 1) = {}
    BY <1>1 DEF Rest
  <1>4. ASSUME w =< n PROVE d[w] \in Rest(d, w) /\ Rest(d, w + 1) = Rest(d, w) \ {d[w]}
    <2>1. \A k : k \in w..n <=> k \in (w + 1)..n \/ k = w
      BY <1>1, <1>4
    <2>2. \A k \in (w + 1)..n : k /= w /\ k \in 1..n
      BY <1>1, <1>4
    <2>3. \A k \in (w + 1)..n : d[k] /= d[w]
      <3>1. w \in 1..n
        BY <1>1, <1>4
      <3> QED BY <1>1, <2>2, <3>1 DEF Lists
    <2>4. Rest(d, w) = {d[k] : k \in w..n} /\ Rest(d, w + 1) = {d[k] : k \in (w + 1)..n}
      BY <1>1 DEF Rest
    <2> QED BY <2>1, <2>3, <2>4
  <1> QED BY <1>1, <1>2, <1>3, <1>4

LEMMA PendingIs ==
  ASSUME NEW b, NEW v, NEW t, NEW d, NEW S, Whole(b, v, t, d, S), NEW p \in Nat, NEW r, LeavingIn(t, p, r),
         NEW w \in 1..(Len(d) + 1), \/ p = LabelOf(t) + w
                                    \/ w = 1 /\ p =< LabelOf(t)
  PROVE  PendingIn(b, t, p, r) = Rest(d, w)
PROOF
  <1>1. PICK L \in Nat \ {0}, n \in Nat : L = S[Len(b) + 1] /\ Ends(t, d, L, n)
    BY Behind
  <1>2. LabelOf(t) = L /\ n = Len(d) /\ Len(t) = L + n + 1 /\ \A k \in 1..n : t[L + k].of = d[k]
    BY <1>1, LabelIs DEF Ends
  <1>3. PICK A : A = ToRunIn(t, p)
    OBVIOUS
  <1>4. A = {k \in L + 1..L + n + 1 - 1 : k >= p}
    BY <1>2, <1>3 DEF ToRunIn
  <1>5. w \in 1..(n + 1) /\ (p = L + w \/ (w = 1 /\ p =< L))
    BY <1>2
  <1>6. \A k : k \in A <=> k \in (L + w)..(L + n)
    BY <1>4, <1>5
  <1>7. ASSUME NEW k \in w..n PROVE L + k \in A /\ t[L + k].of = d[k]
    <2>1. k \in 1..n /\ L + k \in (L + w)..(L + n)
      BY <1>5
    <2> QED BY <1>2, <1>6, <2>1
  <1>8. ASSUME NEW x \in A PROVE \E k \in w..n : x = L + k
    <2>1. x \in (L + w)..(L + n)
      BY <1>6
    <2>2. x - L \in w..n /\ x = L + (x - L)
      BY <1>5, <2>1
    <2> QED BY <2>2
  <1>9. PendingIn(b, t, p, r) = {t[x].of : x \in A}
    BY <1>3 DEF PendingIn
  <1>10. Rest(d, w) = {d[k] : k \in w..n}
    BY <1>2 DEF Rest
  <1>11. \A y \in Rest(d, w) : y \in PendingIn(b, t, p, r)
    <2> SUFFICES ASSUME NEW k \in w..n PROVE d[k] \in PendingIn(b, t, p, r)
      BY <1>10
    <2> QED BY <1>7, <1>9
  <1>12. \A y \in PendingIn(b, t, p, r) : y \in Rest(d, w)
    <2> SUFFICES ASSUME NEW x \in A PROVE t[x].of \in Rest(d, w)
      BY <1>9
    <2>1. PICK k \in w..n : x = L + k
      BY <1>8
    <2> QED BY <1>7, <1>10, <2>1
  <1> QED BY <1>11, <1>12

TailAs(b, t, d, p, r, m) ==
  /\ p \in Nat \ {0} /\ AtIn(b, t, p, r) = Len(b) + 1
  /\ StateIn(t, p, "run") = "running"
  /\ m = 0 => t[p].c = "label" /\ PendingIn(b, t, p, r) = Rest(d, 1)
  /\ m /= 0 => PendingIn(b, t, p, r) = Rest(d, m)
  /\ m \in 1..Len(d) => t[p].c = "expr" /\ t[p].of = d[m] /\ p > LabelOf(t)
  /\ m = Len(d) + 1 => t[p].c = "return" /\ p = Len(t)

(* At the label and behind it.                                             *)
LEMMA AtTail ==
  ASSUME NEW b, NEW v, NEW t, NEW d, NEW S, Whole(b, v, t, d, S), NEW r,
         NEW m \in 0..(Len(d) + 1), NEW p, p = S[Len(b) + 1] + m
  PROVE  TailAs(b, t, d, p, r, m)
PROOF
  <1>1. PICK L \in Nat \ {0}, n \in Nat : L = S[Len(b) + 1] /\ Ends(t, d, L, n)
    BY Behind
  <1>2. /\ LabelOf(t) = L /\ n = Len(d) /\ Len(t) = L + n + 1
        /\ t[L].c = "label" /\ t[L + n + 1].c = "return"
        /\ \A k \in 1..n : t[L + k].c = "expr" /\ t[L + k].of = d[k]
    BY <1>1, LabelIs DEF Ends
  <1>3. p = L + m /\ m \in 0..(n + 1)
    BY <1>1, <1>2
  <1>4. p \in Nat \ {0} /\ p >= L
    BY <1>3
  <1>5. LeavingIn(t, p, r)
    BY <1>2, <1>4 DEF LeavingIn
  <1>6. AtIn(b, t, p, r) = Len(b) + 1
    BY <1>5 DEF AtIn
  <1>7. /\ m = 0 => PendingIn(b, t, p, r) = Rest(d, 1)
        /\ m /= 0 => PendingIn(b, t, p, r) = Rest(d, m)
    <2>1. PICK w \in 1..(n + 1) : w = IF m = 0 THEN 1 ELSE m
      BY <1>3
    <2>2. w \in 1..(Len(d) + 1) /\ (p = LabelOf(t) + w \/ (w = 1 /\ p =< LabelOf(t)))
      BY <1>2, <1>3, <2>1
    <2>3. PendingIn(b, t, p, r) = Rest(d, w)
      BY <1>4, <1>5, <2>2, PendingIs
    <2> QED BY <2>1, <2>3
  <1>8. m = 0 => t[p].c = "label"
    BY <1>2, <1>3
  <1>9. m \in 1..n => t[p].c = "expr" /\ t[p].of = d[m] /\ p > L
    BY <1>2, <1>3
  <1>10. m = n + 1 => t[p].c = "return" /\ p = L + n + 1
    BY <1>2, <1>3
  <1>11. t[p].c /= "exit"
    <2>1. m = 0 \/ m \in 1..n \/ m = n + 1
      BY <1>3
    <2> QED BY <1>8, <1>9, <1>10, <2>1
  <1>12. StateIn(t, p, "run") = "running"
    BY <1>11 DEF StateIn
  <1> QED BY <1>2, <1>4, <1>6, <1>7, <1>8, <1>9, <1>10, <1>12 DEF TailAs

GotoAs(b, t, d, p, r) ==
  /\ p \in Nat \ {0} /\ t[p].c = "goto"
  /\ AtIn(b, t, p, r) = Len(b) + 1 /\ PendingIn(b, t, p, r) = Rest(d, 1)
  /\ StateIn(t, p, "run") = "running"

(* The value of a return is set, and the jump to the label still to come.  *)
LEMMA AtGoto ==
  ASSUME NEW b, NEW v, NEW t, NEW d, NEW S, Whole(b, v, t, d, S),
         NEW i \in 1..Len(b), b[i].op = "return", Gives(v), NEW p, p = S[i] + 1, NEW r, r = i
  PROVE  GotoAs(b, t, d, p, r)
PROOF
  <1>1. PICK s \in Nat, q \in Nat, L \in Nat :
          s = S[i] /\ q = S[i + 1] /\ L = S[Len(b) + 1] /\ Shape(b, v, t, i, s, q) /\ q =< L
    <2>1. /\ S[i] \in Nat /\ S[i + 1] \in Nat /\ S[Len(b) + 1] \in Nat
          /\ Shape(b, v, t, i, S[i], S[i + 1]) /\ S[i + 1] =< S[Len(b) + 1]
      BY Places
    <2> QED BY <2>1
  <1>2. q = s + 2 /\ Is(t[s + 1], "goto", i)
    <2>1. v = TRUE
      BY DEF Whole, Gives
    <2> QED BY <1>1, <2>1 DEF Shape
  <1>a. q = s + 2
    BY <1>2
  <1>3. p = s + 1 /\ p \in Nat \ {0} /\ p =< L
    BY SMTT(30), <1>1, <1>a
  <1>4. t[p].c = "goto" /\ t[p].of = i
    BY <1>2, <1>3 DEF Is
  <1>5. LeavingIn(t, p, r)
    BY <1>4 DEF LeavingIn
  <1>6. LabelOf(t) = L /\ d \in Seq(Nat)
    BY <1>1, LabelIs DEF Whole
  <1>7. PendingIn(b, t, p, r) = Rest(d, 1)
    <2>1. 1 \in 1..(Len(d) + 1)
      BY <1>6
    <2>2. PICK w \in 1..(Len(d) + 1) : w = 1
      BY <2>1
    <2>3. p \in Nat /\ (p = LabelOf(t) + w \/ (w = 1 /\ p =< LabelOf(t)))
      BY <1>3, <1>6, <2>2
    <2>4. PendingIn(b, t, p, r) = Rest(d, w)
      BY <1>5, <2>3, PendingIs
    <2> QED BY <2>2, <2>4
  <1> QED BY <1>3, <1>4, <1>5, <1>7 DEF AtIn, StateIn, GotoAs

ExitAs(b, t, p, r, i) ==
  /\ p \in Nat \ {0} /\ t[p].c = "exit"
  /\ AtIn(b, t, p, r) = i /\ PendingIn(b, t, p, r) = DefersUpTo(b, i)
  /\ StateIn(t, p, "run") = "exited" /\ StateIn(t, p, "exited") = "exited"

(* The condition of an expect has failed.                                  *)
LEMMA AtExit ==
  ASSUME NEW b, NEW v, NEW t, NEW d, NEW S, Whole(b, v, t, d, S), NEW r,
         NEW i \in 1..Len(b), b[i].op = "expect", NEW p, p = S[i] + 1
  PROVE  ExitAs(b, t, p, r, i)
PROOF
  <1>1. PICK s \in Nat, q \in Nat, L \in Nat :
          s = S[i] /\ q = S[i + 1] /\ L = S[Len(b) + 1] /\ Shape(b, v, t, i, s, q) /\ q =< L
    <2>1. /\ S[i] \in Nat /\ S[i + 1] \in Nat /\ S[Len(b) + 1] \in Nat
          /\ Shape(b, v, t, i, S[i], S[i + 1]) /\ S[i + 1] =< S[Len(b) + 1]
      BY Places
    <2> QED BY <2>1
  <1>2. q = s + 3 /\ Is(t[s + 1], "exit", i)
    BY <1>1 DEF Shape
  <1>a. q = s + 3
    BY <1>2
  <1>3. p = s + 1 /\ p \in Nat \ {0} /\ ~(p >= L)
    BY SMTT(30), <1>1, <1>a
  <1>4. t[p].c = "exit" /\ t[p].of = i
    BY <1>2, <1>3 DEF Is
  <1>6. LabelOf(t) = L
    BY <1>1, LabelIs
  <1>5. ~LeavingIn(t, p, r)
    BY <1>3, <1>4, <1>6 DEF LeavingIn
  <1>7. AtIn(b, t, p, r) = i
    BY <1>4, <1>5 DEF AtIn
  <1>8. PendingIn(b, t, p, r) = DefersUpTo(b, i)
    BY <1>5, <1>7 DEF PendingIn
  <1> QED BY <1>3, <1>4, <1>7, <1>8 DEF StateIn, ExitAs

-----------------------------------------------------------------------------
(* Where the jumps of C lead.                                              *)
LEMMA OneOpener ==
  ASSUME NEW b, Parsed(b), NEW j \in 1..Len(b), NEW k \in 1..Len(b),
         Opens(b[j].op), Opens(b[k].op), b[j].end = b[k].end
  PROVE  j = k
PROOF
  <1>1. PICK e \in Nat : e = b[j].end /\ e = b[k].end /\ j < e /\ k < e
    <2>1. b[j].end \in 1..Len(b) /\ j < b[j].end /\ k < b[k].end
      BY Blocks
    <2> QED BY <2>1
  <1>2. CASE j < k
    <2>1. e < k \/ e < e
      BY <1>1, <1>2, Blocks
    <2> QED BY <1>1, <2>1
  <1>3. CASE k < j
    <2>1. e < j \/ e < e
      BY <1>1, <1>3, Blocks
    <2> QED BY <1>1, <2>1
  <1> QED BY <1>2, <1>3

(* An `else` stands where an `else` is written, behind the block of an     *)
(* `if`: no deferred statement comes between the two.                      *)
LEMMA ElseStands ==
  ASSUME NEW b, NEW v, NEW t, NEW d, NEW S, Whole(b, v, t, d, S),
         NEW i \in 1..(Len(b) + 1), t[S[i]].c = "else"
  PROVE  i \in 1..Len(b) /\ b[i].op = "else" /\ \E j \in 1..Len(b) : b[j].op = "if" /\ b[j].end = i - 1
PROOF
  <1>1. PICK n \in Nat : n = Len(b) /\ Parsed(b) /\ v \in BOOLEAN
    BY BodyTypes DEF Whole
  <1>2. PICK k \in i..(n + 1) :
          k = ReachedIn(b, i) /\ ~DeferAt(b, k) /\ (\A j \in i..(k - 1) : DeferAt(b, j)) /\ S[k] = S[i]
    BY <1>1, Reaching
  <1>3. k \in 1..n
    <2> SUFFICES ASSUME k = n + 1 PROVE FALSE
      BY <1>1
    <2>1. t[S[n + 1]].c = "label"
      BY <1>1 DEF Whole, Is
    <2> QED BY <1>2, <2>1
  <1>4. b[k].op = "else"
    <2>1. Shape(b, v, t, k, S[k], S[k + 1]) /\ b[k].op \in Ops
      BY <1>1, <1>3, Places, BodyTypes
    <2>2. b[k].op /= "defer"
      BY <1>1, <1>2, <1>3 DEF DeferAt
    <2>3. PICK s : s = S[k] /\ t[s].c = "else"
      BY <1>2
    <2>4. Shape(b, v, t, k, s, S[k + 1])
      BY <2>1, <2>3
    <2>5. b[k].op /= "return"
      BY <1>1, <2>3, <2>4 DEF Shape, Is
    <2> QED BY <2>1, <2>2, <2>3, <2>4, <2>5 DEF Shape, Is, IsIf, Ops
  <1>5. PICK j \in 1..n : b[j].op = "if" /\ b[j].end = k - 1
    BY <1>1, <1>3, <1>4, Blocks
  <1>6. k = i
    <2> SUFFICES ASSUME k /= i PROVE FALSE
      OBVIOUS
    <2>1. k - 1 \in i..(k - 1)
      BY <1>1, <1>2
    <2>2. b[k - 1].op = "defer"
      BY <1>2, <2>1 DEF DeferAt
    <2>3. b[b[j].end].op = "close"
      <3>1. Opens(b[j].op)
        BY <1>5 DEF Opens
      <3> QED BY <1>1, <3>1, Blocks
    <2> QED BY <1>5, <2>2, <2>3
  <1> QED BY <1>1, <1>3, <1>4, <1>5, <1>6

LEMMA BlockStands ==
  ASSUME NEW b, NEW v, NEW d, NEW S, Whole(b, v, text, d, S), NEW i \in 1..Len(b), Opens(b[i].op)
  PROVE  \E e \in 1..Len(b) :
           /\ e = b[i].end /\ i < e /\ b[e].op = "close"
           /\ Matching(S[i]) = S[e] /\ Opening(S[e]) = S[i] /\ S[e + 1] = S[e] + 1
PROOF
  <1>1. Parsed(b) /\ text \in Seq(Code) /\ Len(b) \in Nat
    BY BodyTypes DEF Whole
  <1>2. PICK e \in 1..Len(b) : e = b[i].end /\ i < e /\ b[e].op = "close"
    BY <1>1, Blocks
  <1>3. PICK f : f = Partner(b, text, S)
    OBVIOUS
  <1>4. Nested(Opened(text), Closed(text), f)
    BY <1>3, PairedBraces
  <1>5. S[i] \in Opened(text) /\ text[S[i]].of = i
    BY Standing
  <1>6. f[S[i]] = S[e]
    <2>1. b[i].op /= "expect"
      BY DEF Opens
    <2> QED BY <1>2, <1>3, <1>5, <2>1 DEF Partner
  <1>7. Matching(S[i]) = S[e]
    BY <1>1, <1>4, <1>5, <1>6, MatchingIs
  <1>8. Opening(S[e]) = S[i]
    <2>1. Opening(f[S[i]]) = S[i]
      BY <1>1, <1>4, <1>5, OpeningIs
    <2> QED BY <1>6, <2>1
  <1>9. S[e + 1] = S[e] + 1
    <2>1. Shape(b, v, text, e, S[e], S[e + 1])
      BY Places
    <2> QED BY <1>2, <2>1 DEF Shape
  <1> QED BY <1>2, <1>7, <1>8, <1>9

LEMMA ExpectStands ==
  ASSUME NEW b, NEW v, NEW d, NEW S, Whole(b, v, text, d, S), NEW i \in 1..Len(b), b[i].op = "expect"
  PROVE  Matching(S[i]) = S[i] + 2 /\ S[i + 1] = S[i] + 3 /\ S[i] \in Nat
PROOF
  <1>1. text \in Seq(Code)
    BY DEF Whole
  <1>3. PICK f : f = Partner(b, text, S)
    OBVIOUS
  <1>4. Nested(Opened(text), Closed(text), f)
    BY <1>3, PairedBraces
  <1>5. S[i] \in Opened(text) /\ text[S[i]].of = i /\ S[i + 1] = S[i] + 3
    BY Standing
  <1>6. f[S[i]] = S[i] + 2
    BY <1>3, <1>5 DEF Partner
  <1>7. Matching(S[i]) = S[i] + 2
    BY <1>1, <1>4, <1>5, <1>6, MatchingIs
  <1> QED BY <1>5, <1>7, Places

OtherwiseIn(b, i) ==
  LET k == b[i].end + 1 IN IF k < Len(b) + 1 /\ b[k].op = "else" THEN k + 1 ELSE k

LEMMA PastBlockIs ==
  ASSUME NEW b, NEW v, NEW d, NEW S, Whole(b, v, text, d, S), NEW i \in 1..Len(b), pc = S[i]
  PROVE  /\ b[i].op = "if" => PastBlock = S[OtherwiseIn(b, i)] /\ OtherwiseIn(b, i) \in 1..(Len(b) + 1)
         /\ b[i].op = "expectelse" => PastBlock = S[b[i].end + 1] /\ b[i].end + 1 \in 1..(Len(b) + 1)
         /\ b[i].op = "expect" => PastBlock = S[i + 1]
PROOF
  <1>1. PICK n \in Nat : n = Len(b) /\ Parsed(b)
    BY BodyTypes DEF Whole
  <1>2. ASSUME Opens(b[i].op)
        PROVE  \E e \in 1..n :
                 /\ e = b[i].end /\ e + 1 \in 1..(n + 1) /\ Matching(pc) + 1 = S[e + 1] /\ S[e + 1] \in Nat
                 /\ Matching(pc) \in Nat
    <2>1. PICK e \in 1..n : e = b[i].end /\ Matching(S[i]) = S[e] /\ S[e + 1] = S[e] + 1
      BY <1>1, <1>2, BlockStands
    <2>2. S[e] \in Nat /\ S[e + 1] \in Nat
      BY <1>1, Places
    <2>3. e + 1 \in 1..(n + 1)
      BY <1>1
    <2> QED BY <2>1, <2>2, <2>3
  <1>3. ASSUME b[i].op = "if"
        PROVE  PastBlock = S[OtherwiseIn(b, i)] /\ OtherwiseIn(b, i) \in 1..(Len(b) + 1)
    <2>1. PICK e \in 1..n : /\ e = b[i].end /\ e + 1 \in 1..(n + 1) /\ Matching(pc) + 1 = S[e + 1]
                            /\ S[e + 1] \in Nat /\ Matching(pc) \in Nat
      BY <1>2, <1>3 DEF Opens
    <2>2. PICK k \in 1..(n + 1) : k = e + 1
      BY <2>1
    <2>3. CASE k < n + 1 /\ b[k].op = "else"
      <3>1. Shape(b, v, text, k, S[k], S[k + 1]) /\ S[k] \in Nat
        BY <1>1, <2>3, Places
      <3>2. S[k + 1] = S[k] + 1 /\ Is(text[S[k]], "else", k)
        BY <2>3, <3>1 DEF Shape
      <3>3. PastBlock = S[k + 1]
        <4>1. text[Matching(pc) + 1].c = "else"
          BY <2>1, <2>2, <3>2 DEF Is
        <4>2. Matching(pc) + 2 = S[k + 1]
          BY SMTT(30), <2>1, <2>2, <3>1, <3>2
        <4> QED BY <4>1, <4>2 DEF PastBlock
      <3>4. OtherwiseIn(b, i) = k + 1
        BY <1>1, <2>1, <2>2, <2>3 DEF OtherwiseIn
      <3>5. k + 1 \in 1..(Len(b) + 1)
        BY <1>1, <2>3
      <3> QED BY <3>3, <3>4, <3>5
    <2>4. CASE ~(k < n + 1 /\ b[k].op = "else")
      <3>1. text[S[k]].c /= "else"
        BY <1>1, <2>4, ElseStands
      <3>2. PastBlock = S[k]
        BY <2>1, <2>2, <3>1 DEF PastBlock
      <3>3. OtherwiseIn(b, i) = k
        BY <1>1, <2>1, <2>2, <2>4 DEF OtherwiseIn
      <3> QED BY <1>1, <3>2, <3>3
    <2> QED BY <2>3, <2>4
  <1>4. ASSUME b[i].op = "expectelse"
        PROVE  PastBlock = S[b[i].end + 1] /\ b[i].end + 1 \in 1..(Len(b) + 1)
    <2>1. PICK e \in 1..n : /\ e = b[i].end /\ e + 1 \in 1..(n + 1) /\ Matching(pc) + 1 = S[e + 1]
                            /\ S[e + 1] \in Nat /\ Matching(pc) \in Nat
      BY <1>2, <1>4 DEF Opens
    <2>2. text[S[e + 1]].c /= "else"
      <3> SUFFICES ASSUME text[S[e + 1]].c = "else" PROVE FALSE
        OBVIOUS
      <3>1. PICK j \in 1..n : b[j].op = "if" /\ b[j].end = (e + 1) - 1
        BY SMTT(30), <1>1, <2>1, ElseStands
      <3>2. b[j].end = b[i].end
        BY <2>1, <3>1
      <3>3. j = i
        BY <1>1, <1>4, <3>1, <3>2, OneOpener DEF Opens
      <3> QED BY <1>4, <3>1, <3>3
    <2> QED BY <1>1, <2>1, <2>2 DEF PastBlock
  <1>5. ASSUME b[i].op = "expect" PROVE PastBlock = S[i + 1]
    <2>1. Matching(pc) = S[i] + 2 /\ S[i + 1] = S[i] + 3 /\ S[i] \in Nat
      BY <1>5, ExpectStands
    <2>2. Matching(pc) + 1 = S[i + 1]
      BY <2>1
    <2>3. text[S[i + 1]].c /= "else"
      <3> SUFFICES ASSUME text[S[i + 1]].c = "else" PROVE FALSE
        OBVIOUS
      <3>0. i + 1 \in 1..(Len(b) + 1)
        BY <1>1
      <3>1. PICK j \in 1..n : b[j].op = "if" /\ b[j].end = (i + 1) - 1
        BY <1>1, <3>0, ElseStands
      <3>2. b[b[j].end].op = "close"
        BY <1>1, <3>1, Blocks DEF Opens
      <3>3. b[j].end = i
        BY <3>1
      <3> QED BY <1>5, <3>2, <3>3
    <2> QED BY <2>2, <2>3 DEF PastBlock
  <1> QED BY <1>3, <1>4, <1>5

-----------------------------------------------------------------------------
(* Where the C may stand: at the beginning of a statement, between the two *)
(* instructions of a return, at an exit, or from the label on.             *)
Position(b, v, d, S, p, r, ph) ==
  \/ ph = "run" /\ \E i \in 1..Len(b) : b[i].op /= "defer" /\ p = S[i]
  \/ ph = "run" /\ \E i \in 1..Len(b) : b[i].op = "return" /\ Gives(v) /\ p = S[i] + 1 /\ r = i
  \/ ph \in {"run", "exited"} /\ \E i \in 1..Len(b) : b[i].op = "expect" /\ p = S[i] + 1
  \/ ph = "run" /\ \E m \in 0..(Len(d) + 1) : p = S[Len(b) + 1] + m
  \/ ph = "returned" /\ p = S[Len(b) + 1] + (Len(d) + 1)

Placed(b, v, t, d, S, p, r, ph) ==
  /\ Whole(b, v, t, d, S) /\ Lists(d, b, Len(b) + 1)
  /\ Fits(v, r)
  /\ Position(b, v, d, S, p, r, ph)

LEMMA Landing ==
  ASSUME NEW b, NEW v, NEW t, NEW d, NEW S, Whole(b, v, t, d, S), Lists(d, b, Len(b) + 1),
         NEW r, Fits(v, r), NEW j \in 1..(Len(b) + 1), NEW q, q = S[j]
  PROVE  /\ AtIn(b, t, q, r) = ReachedIn(b, j)
         /\ PendingIn(b, t, q, r) = DefersUpTo(b, ReachedIn(b, j))
         /\ StateIn(t, q, "run") = "running"
         /\ Position(b, v, d, S, q, r, "run")
PROOF
  <1>1. PICK n \in Nat : n = Len(b) /\ d \in Seq(Nat)
    BY BodyTypes DEF Whole
  <1>r. Rest(d, 1) = DefersUpTo(b, Len(b) + 1)
    <2>1. 1 \in 1..(Len(d) + 1)
      BY <1>1
    <2> QED BY <2>1, RestIs
  <1>2. PICK k \in j..(n + 1) : k = ReachedIn(b, j) /\ ~DeferAt(b, k) /\ S[k] = S[j]
    BY <1>1, Reaching
  <1>3. q = S[k]
    BY <1>2
  <1>4. CASE k = n + 1
    <2>1. 0 \in 0..(Len(d) + 1)
      BY <1>1
    <2>2. q = S[Len(b) + 1] + 0
      <3>1. S[Len(b) + 1] \in Nat
        <4>1. Len(b) + 1 \in 1..(Len(b) + 1)
          BY <1>1
        <4> QED BY <4>1 DEF Whole, Laid
      <3> QED BY <1>1, <1>3, <1>4, <3>1
    <2>3. PICK m \in 0..(Len(d) + 1) : m = 0 /\ q = S[Len(b) + 1] + m
      BY <2>1, <2>2
    <2>4. AtIn(b, t, q, r) = Len(b) + 1 /\ PendingIn(b, t, q, r) = Rest(d, 1) /\ StateIn(t, q, "run") = "running"
      <3>1. TailAs(b, t, d, q, r, m)
        BY <2>3, AtTail
      <3> QED BY <2>3, <3>1 DEF TailAs
    <2>7. Position(b, v, d, S, q, r, "run")
      BY <2>3 DEF Position
    <2> QED BY <1>1, <1>2, <1>4, <1>r, <2>4, <2>7
  <1>5. CASE k \in 1..n
    <2>1. b[k].op /= "defer"
      BY <1>1, <1>2, <1>5 DEF DeferAt
    <2>2. /\ AtIn(b, t, q, r) = k /\ PendingIn(b, t, q, r) = DefersUpTo(b, k)
          /\ StateIn(t, q, "run") = "running"
      BY <1>1, <1>3, <1>5, <2>1, AtStatement
    <2>3. Position(b, v, d, S, q, r, "run")
      BY <1>1, <1>3, <1>5, <2>1 DEF Position
    <2> QED BY <1>2, <2>2, <2>3
  <1>6. k = n + 1 \/ k \in 1..n
    BY <1>1
  <1> QED BY <1>4, <1>5, <1>6

(* The step leads to where statement j begins.                             *)
There(b, v, S) == Placed(b, v, text', defers', S, pc', return_value', phase')

LEMMA GoesTo ==
  ASSUME NEW b, NEW v, NEW S, Source.body = b, Placed(b, v, text, defers, S, pc, return_value, phase),
         functions' = functions, text' = text, defers' = defers, return_value' = return_value,
         phase' = "run", NEW j \in 1..(Len(b) + 1), pc' = S[j]
  PROVE  Semantics!GoTo(j) /\ SourceState' = "running" /\ Source' = Source /\ There(b, v, S)
PROOF
  <1>1. PICK t, d, r, q : t = text /\ d = defers /\ r = return_value /\ q = pc'
    OBVIOUS
  <1>2. /\ Whole(b, v, t, d, S) /\ Lists(d, b, Len(b) + 1) /\ Fits(v, r) /\ q = S[j]
    BY <1>1 DEF Placed
  <1>3. /\ AtIn(b, t, q, r) = ReachedIn(b, j)
        /\ PendingIn(b, t, q, r) = DefersUpTo(b, ReachedIn(b, j))
        /\ StateIn(t, q, "run") = "running"
        /\ Position(b, v, d, S, q, r, "run")
    BY <1>2, Landing
  <1>4. PICK ph : ph = "run"
    OBVIOUS
  <1>5. t = text' /\ q = pc' /\ r = return_value' /\ ph = phase' /\ phase' /= "print"
    BY <1>1, <1>4
  <1>6. /\ SourceAt' = AtIn(b, t, q, r) /\ SourcePending' = PendingIn(b, t, q, r)
        /\ SourceState' = StateIn(t, q, ph) /\ Source' = Source
    BY <1>5, MappedNext
  <1>7. Semantics!GoTo(j)
    <2>1. \A i : Semantics!DefersBefore(i) = DefersUpTo(b, i)
      BY SameDefers
    <2>2. \A i : Semantics!Reached(i) = ReachedIn(b, i)
      BY SameDefers
    <2> QED BY <1>3, <1>6, <2>1, <2>2 DEF Semantics!GoTo
  <1>8. There(b, v, S)
    BY <1>1, <1>2, <1>3 DEF There, Placed
  <1> QED BY <1>3, <1>4, <1>6, <1>7, <1>8

(* The C stands at the beginning of statement i.                           *)
Here(b, v, S, i) ==
  /\ Source.body = b /\ Source.valued = v
  /\ phase = "run" /\ Placed(b, v, text, defers, S, pc, return_value, phase)
  /\ i \in 1..Len(b) /\ b[i].op /= "defer" /\ pc = S[i]

LEMMA AtHere ==
  ASSUME NEW b, NEW v, NEW S, NEW i \in 1..Len(b), Here(b, v, S, i)
  PROVE  /\ SourceAt = i /\ SourcePending = DefersUpTo(b, i) /\ SourceState = "running"
         /\ \A op : Semantics!Running(op) <=> b[i].op = op
         /\ Shape(b, v, text, i, pc, S[i + 1]) /\ pc \in Nat \ {0} /\ pc < Label /\ Label = S[Len(b) + 1]
PROOF
  <1>1. PICK t, d, r, p : t = text /\ d = defers /\ r = return_value /\ p = pc
    OBVIOUS
  <1>2. Whole(b, v, t, d, S) /\ Fits(v, r) /\ p = S[i] /\ b[i].op /= "defer"
    BY <1>1 DEF Here, Placed
  <1>3. /\ AtIn(b, t, p, r) = i /\ PendingIn(b, t, p, r) = DefersUpTo(b, i) /\ StateIn(t, p, "run") = "running"
        /\ p \in Nat \ {0} /\ p < LabelOf(t)
    BY <1>2, AtStatement
  <1>4. /\ SourceAt = AtIn(b, text, pc, return_value) /\ SourcePending = PendingIn(b, text, pc, return_value)
        /\ SourceState = StateIn(text, pc, phase)
    BY MappedNow DEF Here
  <1>5. SourceAt = i /\ SourcePending = DefersUpTo(b, i) /\ SourceState = "running"
    BY <1>1, <1>3, <1>4 DEF Here
  <1>6. \A op : Semantics!Running(op) <=> b[i].op = op
    <2>1. Semantics!End = Len(b) + 1 /\ i < Len(b) + 1
      <3>1. Len(b) \in Nat
        BY <1>2, BodyTypes DEF Whole
      <3> QED BY <3>1, SameDefers DEF Here
    <2> QED BY <1>5, <2>1 DEF Semantics!Running, Here
  <1>7. Shape(b, v, text, i, pc, S[i + 1])
    <2>1. Shape(b, v, t, i, S[i], S[i + 1])
      BY <1>2, Places
    <2> QED BY <1>1, <1>2, <2>1
  <1>8. LabelOf(t) = S[Len(b) + 1] /\ Label = LabelOf(t)
    BY <1>1, <1>2, LabelIs DEF Label, LabelOf
  <1> QED BY <1>1, <1>3, <1>5, <1>6, <1>7, <1>8

-----------------------------------------------------------------------------
(* One instruction.                                                        *)
Keeps == functions' = functions /\ text' = text /\ defers' = defers

LEMMA RunKeeps ==
  ASSUME Run
  PROVE  phase = "run" /\ Keeps
  BY DEF Run, Runs, RunExpr, RunIf, RunFor, RunBrace, RunSet, RunGoto, RunExit, RunReturn, Keeps

LEMMA RunOf ==
  ASSUME Run
  PROVE  /\ Instr.c = "expr" => RunExpr
         /\ Instr.c = "if" => RunIf
         /\ Instr.c = "for" => RunFor
         /\ Instr.c \in {"{", "}", "else", "label"} => RunBrace
         /\ Instr.c = "set" => RunSet
         /\ Instr.c = "goto" => RunGoto
         /\ Instr.c = "exit" => RunExit
         /\ Instr.c = "return" => RunReturn
PROOF
  <1>1. /\ RunExpr => Instr.c = "expr"
        /\ RunIf => Instr.c = "if"
        /\ RunFor => Instr.c = "for"
        /\ RunSet => Instr.c = "set"
        /\ RunGoto => Instr.c = "goto"
        /\ RunExit => Instr.c = "exit"
        /\ RunReturn => Instr.c = "return"
    BY DEF Runs, RunExpr, RunIf, RunFor, RunSet, RunGoto, RunExit, RunReturn
  <1>2. RunBrace => Instr.c \in {"{", "}", "else", "label"}
    BY DEF RunBrace
  <1>3. PICK x : x = Instr.c
    OBVIOUS
  <1>4. x \in {"{", "}", "else", "label"} => x \notin {"expr", "if", "for", "set", "goto", "exit", "return"}
    BY Zenon
  <1>5. RunExpr \/ RunIf \/ RunFor \/ RunBrace \/ RunSet \/ RunGoto \/ RunExit \/ RunReturn
    BY DEF Run
  <1>6. /\ x = "expr" => RunExpr
        /\ x = "if" => RunIf
        /\ x = "for" => RunFor
        /\ x = "set" => RunSet
        /\ x = "goto" => RunGoto
        /\ x = "exit" => RunExit
        /\ x = "return" => RunReturn
    <2>1. RunBrace => x \notin {"expr", "if", "for", "set", "goto", "exit", "return"}
      BY <1>2, <1>3, <1>4
    <2> QED BY <1>1, <1>3, <1>5, <2>1
  <1>7. x \in {"{", "}", "else", "label"} => RunBrace
    BY <1>1, <1>3, <1>4, <1>5
  <1> QED BY <1>3, <1>6, <1>7

Stepped(b, v, S) == (Semantics!BodyNext \/ UNCHANGED Semantics!bodyVars) /\ There(b, v, S)

LEMMA CallStep ==
  ASSUME NEW b, NEW v, NEW S, NEW i \in 1..Len(b), Here(b, v, S, i), b[i].op = "call", Run
  PROVE  Stepped(b, v, S)
PROOF
  <1>1. SourceAt = i /\ SourceState = "running" /\ Semantics!Running("call") /\ i \in Nat
    BY AtHere
  <1>2. pc \in Nat /\ pc < Label /\ Label \in Nat /\ S[i + 1] = pc + 1 /\ Is(text[pc], "expr", i)
    <2>1. /\ Shape(b, v, text, i, pc, S[i + 1]) /\ pc \in Nat \ {0} /\ pc < Label
          /\ Label = S[Len(b) + 1]
      BY AtHere
    <2>2. S[Len(b) + 1] \in Nat
      BY Places DEF Here, Placed
    <2> QED BY <2>1, <2>2 DEF Shape
  <1>3. RunExpr
    BY <1>2, RunOf DEF Is, Instr
  <1>4. event' = <<"call", i>> /\ pc' = S[i + 1] /\ return_value' = return_value /\ phase' = "run"
    <2>1. ~(pc > Label)
      BY <1>2
    <2> QED BY <1>2, <1>3, <2>1 DEF RunExpr, Runs, Is, Instr
  <1>5. Semantics!GoTo(i + 1) /\ SourceState' = "running" /\ Source' = Source /\ There(b, v, S)
    <2>1. i + 1 \in 1..(Len(b) + 1)
      BY BodyTypes DEF Here, Placed, Whole
    <2> QED BY <1>4, <2>1, RunKeeps, GoesTo DEF Here, Keeps
  <1>6. Semantics!Call
    BY <1>1, <1>4, <1>5 DEF Semantics!Call
  <1> QED BY <1>5, <1>6 DEF Stepped, Semantics!BodyNext

LEMMA Tested ==
  ASSUME NEW op, NEW y, NEW z, Semantics!Running(op), NEW o \in BOOLEAN, event' = <<"test", SourceAt, o>>,
         o = TRUE => Semantics!GoTo(y), o = FALSE => Semantics!GoTo(z),
         Source' = Source, return_value' = return_value, SourceState' = SourceState
  PROVE  Semantics!Test(op, y, z)
PROOF
  <1>1. CASE o = TRUE
    <2>1. event' = <<"test", SourceAt, TRUE>> /\ Semantics!GoTo(IF TRUE THEN y ELSE z)
      BY <1>1
    <2> QED BY <2>1 DEF Semantics!Test
  <1>2. CASE o = FALSE
    <2>1. event' = <<"test", SourceAt, FALSE>> /\ Semantics!GoTo(IF FALSE THEN y ELSE z)
      BY <1>2
    <2> QED BY <2>1 DEF Semantics!Test
  <1> QED BY <1>1, <1>2

LEMMA IfStep ==
  ASSUME NEW b, NEW v, NEW S, NEW i \in 1..Len(b), Here(b, v, S, i), b[i].op = "if", Run
  PROVE  Stepped(b, v, S)
PROOF
  <1>1. /\ SourceAt = i /\ SourceState = "running" /\ Semantics!Running("if")
        /\ Shape(b, v, text, i, pc, S[i + 1]) /\ pc = S[i]
    BY AtHere DEF Here
  <1>2. S[i + 1] = pc + 1 /\ IsIf(text[pc], i, FALSE)
    BY <1>1 DEF Shape
  <1>3. RunIf
    BY <1>2, RunOf DEF IsIf, Instr
  <1>4. PICK o \in BOOLEAN : /\ event' = <<"test", i, o>>
                             /\ pc' = IF o /= FALSE THEN pc + 1 ELSE PastBlock
    BY <1>2, <1>3 DEF RunIf, IsIf, Instr
  <1>5. return_value' = return_value /\ phase' = "run"
    BY <1>3 DEF RunIf, Runs
  <1>6. i + 1 \in 1..(Len(b) + 1)
    BY BodyTypes DEF Here, Placed, Whole
  <1>7. PastBlock = S[OtherwiseIn(b, i)] /\ OtherwiseIn(b, i) \in 1..(Len(b) + 1)
    BY <1>1, PastBlockIs DEF Here, Placed
  <1>8. ASSUME o = TRUE
        PROVE  Semantics!GoTo(i + 1) /\ SourceState' = "running" /\ Source' = Source /\ There(b, v, S)
    <2>1. pc' = S[i + 1]
      BY <1>2, <1>4, <1>8
    <2> QED BY <1>5, <1>6, <2>1, RunKeeps, GoesTo DEF Here, Keeps
  <1>9. ASSUME o = FALSE
        PROVE  Semantics!GoTo(OtherwiseIn(b, i)) /\ SourceState' = "running" /\ Source' = Source /\ There(b, v, S)
    <2>1. pc' = S[OtherwiseIn(b, i)]
      BY <1>4, <1>7, <1>9
    <2> QED BY <1>5, <1>7, <2>1, RunKeeps, GoesTo DEF Here, Keeps
  <1>10. OtherwiseIn(b, i) = Semantics!Otherwise(SourceAt)
    <2>1. Semantics!End = Len(b) + 1 /\ Source.body = b
      BY SameDefers DEF Here
    <2> QED BY <1>1, <2>1 DEF OtherwiseIn, Semantics!Otherwise
  <1>11. Semantics!If
    <2>1. PICK y, z : y = SourceAt + 1 /\ z = Semantics!Otherwise(SourceAt)
      OBVIOUS
    <2>2. (o = TRUE => Semantics!GoTo(y)) /\ (o = FALSE => Semantics!GoTo(z))
      BY <1>1, <1>8, <1>9, <1>10, <2>1
    <2>3. Source' = Source /\ SourceState' = SourceState /\ event' = <<"test", SourceAt, o>>
      BY <1>1, <1>4, <1>8, <1>9
    <2>4. Semantics!Test("if", y, z)
      BY <1>1, <1>5, <2>2, <2>3, Tested
    <2> QED BY <2>1, <2>4 DEF Semantics!If
  <1>12. There(b, v, S)
    BY <1>8, <1>9
  <1> QED BY <1>11, <1>12 DEF Stepped, Semantics!BodyNext

LEMMA ExpectElseStep ==
  ASSUME NEW b, NEW v, NEW S, NEW i \in 1..Len(b), Here(b, v, S, i), b[i].op = "expectelse", Run
  PROVE  Stepped(b, v, S)
PROOF
  <1>1. /\ SourceAt = i /\ SourceState = "running" /\ Semantics!Running("expectelse")
        /\ Shape(b, v, text, i, pc, S[i + 1]) /\ pc = S[i]
    BY AtHere DEF Here
  <1>2. S[i + 1] = pc + 1 /\ IsIf(text[pc], i, TRUE)
    BY <1>1 DEF Shape
  <1>3. RunIf
    BY <1>2, RunOf DEF IsIf, Instr
  <1>4. PICK o \in BOOLEAN : /\ event' = <<"test", i, o>>
                             /\ pc' = IF o /= TRUE THEN pc + 1 ELSE PastBlock
    BY <1>2, <1>3 DEF RunIf, IsIf, Instr
  <1>5. return_value' = return_value /\ phase' = "run"
    BY <1>3 DEF RunIf, Runs
  <1>6. i + 1 \in 1..(Len(b) + 1)
    BY BodyTypes DEF Here, Placed, Whole
  <1>7. PICK y : y = b[i].end + 1 /\ PastBlock = S[y] /\ y \in 1..(Len(b) + 1)
    BY <1>1, PastBlockIs DEF Here, Placed
  <1>8. ASSUME o = TRUE
        PROVE  Semantics!GoTo(y) /\ SourceState' = "running" /\ Source' = Source /\ There(b, v, S)
    <2>1. pc' = S[y]
      BY <1>4, <1>7, <1>8
    <2> QED BY <1>5, <1>7, <2>1, RunKeeps, GoesTo DEF Here, Keeps
  <1>9. ASSUME o = FALSE
        PROVE  Semantics!GoTo(i + 1) /\ SourceState' = "running" /\ Source' = Source /\ There(b, v, S)
    <2>1. pc' = S[i + 1]
      BY <1>2, <1>4, <1>9
    <2> QED BY <1>5, <1>6, <2>1, RunKeeps, GoesTo DEF Here, Keeps
  <1>10. y = Source.body[SourceAt].end + 1
    BY <1>1, <1>7 DEF Here
  <1>11. Semantics!ExpectElse
    <2>1. PICK z : z = SourceAt + 1
      OBVIOUS
    <2>2. (o = TRUE => Semantics!GoTo(y)) /\ (o = FALSE => Semantics!GoTo(z))
      BY <1>1, <1>8, <1>9, <2>1
    <2>3. Source' = Source /\ SourceState' = SourceState /\ event' = <<"test", SourceAt, o>>
      BY <1>1, <1>4, <1>8, <1>9
    <2>4. Semantics!Test("expectelse", y, z)
      BY <1>1, <1>5, <2>2, <2>3, Tested
    <2> QED BY <1>10, <2>1, <2>4 DEF Semantics!ExpectElse
  <1>12. There(b, v, S)
    BY <1>8, <1>9
  <1> QED BY <1>11, <1>12 DEF Stepped, Semantics!BodyNext

LEMMA WhileStep ==
  ASSUME NEW b, NEW v, NEW S, NEW i \in 1..Len(b), Here(b, v, S, i), b[i].op = "while", Run
  PROVE  Stepped(b, v, S)
PROOF
  <1>1. /\ SourceAt = i /\ SourceState = "running" /\ Semantics!Running("while")
        /\ Shape(b, v, text, i, pc, S[i + 1]) /\ pc = S[i]
    BY AtHere DEF Here
  <1>2. S[i + 1] = pc + 1 /\ Is(text[pc], "for", i)
    BY <1>1 DEF Shape
  <1>3. RunFor
    BY <1>2, RunOf DEF Is, Instr
  <1>4. PICK o \in BOOLEAN : /\ event' = <<"test", i, o>>
                             /\ pc' = IF o THEN pc + 1 ELSE Matching(pc) + 1
    BY <1>2, <1>3 DEF RunFor, Is, Instr
  <1>5. return_value' = return_value /\ phase' = "run"
    BY <1>3 DEF RunFor, Runs
  <1>6. i + 1 \in 1..(Len(b) + 1) /\ Len(b) \in Nat
    BY BodyTypes DEF Here, Placed, Whole
  <1>7. PICK z : z = b[i].end + 1 /\ Matching(pc) + 1 = S[z] /\ z \in 1..(Len(b) + 1)
    <2>1. Whole(b, v, text, defers, S) /\ Opens(b[i].op)
      BY DEF Here, Placed, Opens
    <2>2. PICK e \in 1..Len(b) : e = b[i].end /\ Matching(S[i]) = S[e] /\ S[e + 1] = S[e] + 1
      BY <2>1, BlockStands
    <2>3. e + 1 \in 1..(Len(b) + 1)
      BY <1>6
    <2> QED BY <1>1, <2>2, <2>3
  <1>8. ASSUME o = TRUE
        PROVE  Semantics!GoTo(i + 1) /\ SourceState' = "running" /\ Source' = Source /\ There(b, v, S)
    <2>1. pc' = S[i + 1]
      BY <1>2, <1>4, <1>8
    <2> QED BY <1>5, <1>6, <2>1, RunKeeps, GoesTo DEF Here, Keeps
  <1>9. ASSUME o = FALSE
        PROVE  Semantics!GoTo(z) /\ SourceState' = "running" /\ Source' = Source /\ There(b, v, S)
    <2>1. pc' = S[z]
      BY <1>4, <1>7, <1>9
    <2> QED BY <1>5, <1>7, <2>1, RunKeeps, GoesTo DEF Here, Keeps
  <1>10. z = Source.body[SourceAt].end + 1
    BY <1>1, <1>7 DEF Here
  <1>11. Semantics!While
    <2>1. PICK y : y = SourceAt + 1
      OBVIOUS
    <2>2. (o = TRUE => Semantics!GoTo(y)) /\ (o = FALSE => Semantics!GoTo(z))
      BY <1>1, <1>8, <1>9, <2>1
    <2>3. Source' = Source /\ SourceState' = SourceState /\ event' = <<"test", SourceAt, o>>
      BY <1>1, <1>4, <1>8, <1>9
    <2>4. Semantics!Test("while", y, z)
      BY <1>1, <1>5, <2>2, <2>3, Tested
    <2> QED BY <1>10, <2>1, <2>4 DEF Semantics!While
  <1>12. There(b, v, S)
    BY <1>8, <1>9
  <1> QED BY <1>11, <1>12 DEF Stepped, Semantics!BodyNext

(* A condition that fails ends the program: the C goes on to the exit.     *)
LEMMA ExpectStep ==
  ASSUME NEW b, NEW v, NEW S, NEW i \in 1..Len(b), Here(b, v, S, i), b[i].op = "expect", Run
  PROVE  Stepped(b, v, S)
PROOF
  <1>1. /\ SourceAt = i /\ SourcePending = DefersUpTo(b, i) /\ SourceState = "running"
        /\ Semantics!Running("expect")
        /\ Shape(b, v, text, i, pc, S[i + 1]) /\ pc = S[i] /\ i \in Nat
    BY AtHere DEF Here
  <1>2. IsIf(text[pc], i, TRUE)
    BY <1>1 DEF Shape
  <1>3. RunIf
    BY <1>2, RunOf DEF IsIf, Instr
  <1>4. PICK o \in BOOLEAN : /\ event' = <<"test", i, o>>
                             /\ pc' = IF o /= TRUE THEN pc + 1 ELSE PastBlock
    BY <1>2, <1>3 DEF RunIf, IsIf, Instr
  <1>5. return_value' = return_value /\ phase' = "run"
    BY <1>3 DEF RunIf, Runs
  <1>6. i + 1 \in 1..(Len(b) + 1)
    BY BodyTypes DEF Here, Placed, Whole
  <1>7. PastBlock = S[i + 1]
    BY <1>1, PastBlockIs DEF Here, Placed
  <1>8. CASE o = TRUE
    <2>1. pc' = S[i + 1]
      BY <1>4, <1>7, <1>8
    <2>2. Semantics!GoTo(i + 1) /\ SourceState' = "running" /\ Source' = Source /\ There(b, v, S)
      BY <1>5, <1>6, <2>1, RunKeeps, GoesTo DEF Here, Keeps
    <2>3. event' = <<"test", SourceAt, TRUE>> /\ Semantics!GoTo(SourceAt + 1) /\ SourceState' = SourceState
      BY <1>1, <1>4, <1>8, <2>2
    <2>4. Semantics!Expect
      BY <1>1, <1>5, <2>2, <2>3 DEF Semantics!Expect
    <2> QED BY <2>2, <2>4 DEF Stepped, Semantics!BodyNext
  <1>9. CASE o = FALSE
    <2>1. PICK t, d, r, q, ph : t = text /\ d = defers /\ r = return_value /\ q = pc' /\ ph = "run"
      OBVIOUS
    <2>2. Whole(b, v, t, d, S) /\ Lists(d, b, Len(b) + 1) /\ Fits(v, r)
      BY <2>1 DEF Here, Placed
    <2>3. q = S[i] + 1
      BY <1>1, <1>4, <1>9, <2>1
    <2>4. AtIn(b, t, q, r) = i /\ PendingIn(b, t, q, r) = DefersUpTo(b, i) /\ StateIn(t, q, "run") = "exited"
      <3>1. ExitAs(b, t, q, r, i)
        BY <2>2, <2>3, AtExit
      <3> QED BY <3>1 DEF ExitAs
    <2>5. functions' = functions /\ t = text' /\ q = pc' /\ r = return_value' /\ ph = phase' /\ phase' /= "print"
      BY <1>5, <2>1, RunKeeps DEF Keeps
    <2>6. /\ SourceAt' = AtIn(b, t, q, r) /\ SourcePending' = PendingIn(b, t, q, r)
          /\ SourceState' = StateIn(t, q, ph) /\ Source' = Source
      BY <2>5, MappedNext DEF Here
    <2>7. Position(b, v, d, S, q, r, "run")
      BY <2>3 DEF Position
    <2>8. There(b, v, S)
      BY <1>5, <2>1, <2>2, <2>7, RunKeeps DEF There, Placed, Keeps
    <2>9. event' = <<"test", SourceAt, FALSE>>
      BY <1>1, <1>4, <1>9
    <2>10. Semantics!Expect
      BY <1>1, <1>5, <2>1, <2>4, <2>6, <2>9 DEF Semantics!Expect
    <2> QED BY <2>8, <2>10 DEF Stepped, Semantics!BodyNext
  <1> QED BY <1>8, <1>9

LEMMA BraceGoes ==
  ASSUME RunBrace
  PROVE  /\ Instr.c = "else" => pc' = Matching(pc) + 1
         /\ Instr.c = "}" /\ text[Opening(pc)].c = "for" => pc' = Opening(pc)
         /\ Instr.c = "}" /\ text[Opening(pc)].c /= "for" => pc' = pc + 1
         /\ Instr.c \in {"{", "label"} => pc' = pc + 1
         /\ return_value' = return_value /\ event' = event /\ phase' = "run"
PROOF
  <1>1. PICK x, m, o : x = Instr.c /\ m = Matching(pc) /\ o = Opening(pc)
    OBVIOUS
  <1>2. /\ pc' = IF x = "else" THEN m + 1 ELSE IF x = "}" /\ text[o].c = "for" THEN o ELSE pc + 1
        /\ return_value' = return_value /\ event' = event /\ phase' = "run"
    BY <1>1 DEF RunBrace
  <1>3. x = "else" => pc' = m + 1
    BY <1>2
  <1>4. x = "}" => x /= "else"
    BY Zenon
  <1>5. x \in {"{", "label"} => x /= "else" /\ x /= "}"
    BY Zenon
  <1>6. x /= "else" => pc' = IF x = "}" /\ text[o].c = "for" THEN o ELSE pc + 1
    BY <1>2
  <1>7. x = "}" /\ text[o].c = "for" => pc' = o
    BY <1>4, <1>6
  <1>8. x = "}" /\ text[o].c /= "for" => pc' = pc + 1
    BY <1>4, <1>6
  <1>9. x \in {"{", "label"} => pc' = pc + 1
    BY <1>5, <1>6
  <1> QED BY <1>1, <1>2, <1>3, <1>7, <1>8, <1>9

LEMMA OpenStep ==
  ASSUME NEW b, NEW v, NEW S, NEW i \in 1..Len(b), Here(b, v, S, i), b[i].op = "open", Run
  PROVE  Stepped(b, v, S)
PROOF
  <1>1. /\ SourceAt = i /\ SourceState = "running" /\ Semantics!Running("open")
        /\ Shape(b, v, text, i, pc, S[i + 1]) /\ pc = S[i]
    BY AtHere DEF Here
  <1>2. S[i + 1] = pc + 1 /\ Is(text[pc], "{", i)
    BY <1>1 DEF Shape
  <1>3. RunBrace /\ Instr.c \in {"{", "label"}
    BY <1>2, RunOf DEF Is, Instr
  <1>4. pc' = S[i + 1] /\ return_value' = return_value /\ event' = event /\ phase' = "run"
    BY <1>2, <1>3, BraceGoes
  <1>5. i + 1 \in 1..(Len(b) + 1)
    BY BodyTypes DEF Here, Placed, Whole
  <1>6. Semantics!GoTo(i + 1) /\ SourceState' = "running" /\ Source' = Source /\ There(b, v, S)
    BY <1>4, <1>5, RunKeeps, GoesTo DEF Here, Keeps
  <1>7. Semantics!Open
    BY <1>1, <1>4, <1>6 DEF Semantics!Open
  <1> QED BY <1>6, <1>7 DEF Stepped, Semantics!BodyNext

LEMMA ElseStep ==
  ASSUME NEW b, NEW v, NEW S, NEW i \in 1..Len(b), Here(b, v, S, i), b[i].op = "else", Run
  PROVE  Stepped(b, v, S)
PROOF
  <1>1. /\ SourceAt = i /\ SourceState = "running" /\ Semantics!Running("else")
        /\ Shape(b, v, text, i, pc, S[i + 1]) /\ pc = S[i]
    BY AtHere DEF Here
  <1>2. Is(text[pc], "else", i)
    BY <1>1 DEF Shape
  <1>3. RunBrace /\ Instr.c = "else"
    BY <1>2, RunOf DEF Is, Instr
  <1>4. pc' = Matching(pc) + 1 /\ return_value' = return_value /\ event' = event /\ phase' = "run"
    BY <1>3, BraceGoes
  <1>5. PICK z : z = b[i].end + 1 /\ Matching(pc) + 1 = S[z] /\ z \in 1..(Len(b) + 1)
    <2>1. Whole(b, v, text, defers, S) /\ Opens(b[i].op)
      BY DEF Here, Placed, Opens
    <2>2. PICK e \in 1..Len(b) : e = b[i].end /\ Matching(S[i]) = S[e] /\ S[e + 1] = S[e] + 1
      BY <2>1, BlockStands
    <2>3. e + 1 \in 1..(Len(b) + 1)
      BY BodyTypes DEF Here, Placed, Whole
    <2> QED BY <1>1, <2>2, <2>3
  <1>6. Semantics!GoTo(z) /\ SourceState' = "running" /\ Source' = Source /\ There(b, v, S)
    <2>1. pc' = S[z]
      BY <1>4, <1>5
    <2> QED BY <1>4, <1>5, <2>1, RunKeeps, GoesTo DEF Here, Keeps
  <1>7. z = Source.body[SourceAt].end + 1
    BY <1>1, <1>5 DEF Here
  <1>8. Semantics!Else
    BY <1>1, <1>4, <1>6, <1>7 DEF Semantics!Else
  <1> QED BY <1>6, <1>8 DEF Stepped, Semantics!BodyNext

(* A block is done: back to the condition of a `while`.                    *)
LEMMA CloseStep ==
  ASSUME NEW b, NEW v, NEW S, NEW i \in 1..Len(b), Here(b, v, S, i), b[i].op = "close", Run
  PROVE  Stepped(b, v, S)
PROOF
  <1>0. Whole(b, v, text, defers, S) /\ Parsed(b) /\ Len(b) \in Nat
    BY BodyTypes DEF Here, Placed, Whole
  <1>1. /\ SourceAt = i /\ SourceState = "running" /\ Semantics!Running("close")
        /\ Shape(b, v, text, i, pc, S[i + 1]) /\ pc = S[i]
    BY AtHere DEF Here
  <1>2. S[i + 1] = pc + 1 /\ Is(text[pc], "}", i)
    BY <1>1 DEF Shape
  <1>3. RunBrace /\ Instr.c = "}"
    BY <1>2, RunOf DEF Is, Instr
  <1>4. PICK j \in 1..(i - 1) : j \in 1..Len(b) /\ Opens(b[j].op) /\ b[j].end = i
    BY <1>0, Blocks
  <1>5. Opening(pc) = S[j]
    <2>1. PICK e \in 1..Len(b) : e = b[j].end /\ Opening(S[e]) = S[j]
      BY <1>0, <1>4, BlockStands
    <2> QED BY <1>1, <1>4, <2>1
  <1>6. text[S[j]].c = "for" <=> b[j].op = "while"
    <2>1. Shape(b, v, text, j, S[j], S[j + 1])
      BY <1>0, <1>4, Places
    <2> QED BY <1>4, <2>1 DEF Shape, Opens, Is, IsIf
  <1>7. Semantics!Opener(i) = j
    <2>1. j \in 1..i /\ b[j].op /= "close" /\ b[j].end = i
      BY <1>4 DEF Opens
    <2>2. ASSUME NEW k \in 1..i, b[k].op /= "close", b[k].end = i PROVE k = j
      <3>1. k \in 1..Len(b)
        BY <1>0
      <3>2. k /= i
        BY <2>2 DEF Here
      <3>3. Opens(b[k].op)
        BY <1>0, <2>2, <3>1, <3>2, Blocks
      <3> QED BY <1>0, <1>4, <2>2, <3>1, <3>3, OneOpener
    <2>3. Source.body = b
      BY DEF Here
    <2>4. PICK k \in 1..i : k = Semantics!Opener(i) /\ b[k].op /= "close" /\ b[k].end = i
      BY <2>1, <2>3 DEF Semantics!Opener
    <2> QED BY <2>2, <2>4
  <1>8. PICK z : z = IF b[j].op = "while" THEN j ELSE i + 1
    OBVIOUS
  <1>9. z \in 1..(Len(b) + 1) /\ pc' = S[z] /\ return_value' = return_value /\ event' = event /\ phase' = "run"
    <2>1. z \in 1..(Len(b) + 1)
      BY <1>0, <1>4, <1>8
    <2>2. b[j].op = "while" => pc' = S[z]
      BY <1>3, <1>5, <1>6, <1>8, BraceGoes
    <2>3. b[j].op /= "while" => pc' = S[z]
      BY <1>2, <1>3, <1>5, <1>6, <1>8, BraceGoes
    <2> QED BY <1>3, <2>1, <2>2, <2>3, BraceGoes
  <1>10. Semantics!GoTo(z) /\ SourceState' = "running" /\ Source' = Source /\ There(b, v, S)
    BY <1>9, RunKeeps, GoesTo DEF Here, Keeps
  <1>11. z = IF Source.body[Semantics!Opener(SourceAt)].op = "while" THEN Semantics!Opener(SourceAt) ELSE SourceAt + 1
    BY <1>1, <1>7, <1>8 DEF Here
  <1>12. Semantics!Close
    BY <1>1, <1>9, <1>10, <1>11 DEF Semantics!Close
  <1> QED BY <1>10, <1>12 DEF Stepped, Semantics!BodyNext

(* A return with a value sets it; one without jumps to the label.          *)
LEMMA ReturnStep ==
  ASSUME NEW b, NEW v, NEW S, NEW i \in 1..Len(b), Here(b, v, S, i), b[i].op = "return", Run
  PROVE  Stepped(b, v, S)
PROOF
  <1>1. /\ SourceAt = i /\ SourceState = "running" /\ Semantics!Running("return")
        /\ Shape(b, v, text, i, pc, S[i + 1]) /\ pc = S[i] /\ Label = S[Len(b) + 1] /\ i \in Nat
    BY AtHere DEF Here
  <1>2. PICK t, d, r, q, ph : t = text /\ d = defers /\ r = return_value' /\ q = pc' /\ ph = "run"
    OBVIOUS
  <1>3. Whole(b, v, t, d, S) /\ Lists(d, b, Len(b) + 1) /\ Fits(v, return_value)
    BY <1>2 DEF Here, Placed
  <1>v. v \in BOOLEAN
    BY DEF Here, Placed, Whole
  <1>4. Semantics!DefersBefore(Semantics!End) = Rest(d, 1) /\ Semantics!End = Len(b) + 1
    <2>1. Semantics!End = Len(b) + 1 /\ \A k : Semantics!DefersBefore(k) = DefersUpTo(b, k)
      BY SameDefers DEF Here
    <2>2. 1 \in 1..(Len(d) + 1)
      BY <1>3 DEF Lists
    <2>3. Rest(d, 1) = DefersUpTo(b, Len(b) + 1)
      BY <1>3, <2>2, RestIs
    <2> QED BY <2>1, <2>3
  <1>5. ASSUME AtIn(b, t, q, r) = Len(b) + 1, PendingIn(b, t, q, r) = Rest(d, 1), StateIn(t, q, "run") = "running",
               r = (IF v THEN i ELSE return_value), event' = event, phase' = "run",
               Fits(v, r), Position(b, v, d, S, q, r, "run")
        PROVE  Stepped(b, v, S)
    <2>1. functions' = functions /\ t = text' /\ q = pc' /\ r = return_value' /\ ph = phase' /\ phase' /= "print"
      BY <1>2, <1>5, RunKeeps DEF Keeps
    <2>2. /\ SourceAt' = AtIn(b, t, q, r) /\ SourcePending' = PendingIn(b, t, q, r)
          /\ SourceState' = StateIn(t, q, ph) /\ Source' = Source
      BY <2>1, MappedNext DEF Here
    <2>3. return_value' = IF Source.valued THEN SourceAt ELSE return_value
      BY <1>1, <1>2, <1>5 DEF Here
    <2>4. SourceAt' = Semantics!End /\ SourcePending' = Semantics!DefersBefore(Semantics!End)
      BY <1>4, <1>5, <2>2
    <2>5. SourceState' = SourceState
      BY <1>1, <1>2, <1>5, <2>2
    <2>6. Semantics!Return
      BY <1>1, <1>5, <2>2, <2>3, <2>4, <2>5 DEF Semantics!Return
    <2>7. There(b, v, S)
      BY <1>2, <1>3, <1>5, <2>1, RunKeeps DEF There, Placed, Keeps
    <2> QED BY <2>6, <2>7 DEF Stepped, Semantics!BodyNext
  <1>6. CASE Gives(v)
    <2>0. v = TRUE
      BY <1>v, <1>6 DEF Gives
    <2>1. Is(text[pc], "set", i)
      BY <1>1, <2>0 DEF Shape
    <2>2. RunSet
      BY <2>1, RunOf DEF Is, Instr
    <2>3. r = i /\ q = S[i] + 1 /\ event' = event /\ phase' = "run"
      BY <1>1, <1>2, <2>1, <2>2 DEF RunSet, Runs, Is, Instr
    <2>4. AtIn(b, t, q, r) = Len(b) + 1 /\ PendingIn(b, t, q, r) = Rest(d, 1) /\ StateIn(t, q, "run") = "running"
      <3>1. GotoAs(b, t, d, q, r)
        BY <1>3, <1>6, <2>3, AtGoto
      <3> QED BY <3>1 DEF GotoAs
    <2>5. Position(b, v, d, S, q, r, "run")
      BY <1>6, <2>3 DEF Position
    <2>6. Fits(v, r) /\ r = IF v THEN i ELSE return_value
      BY <2>0, <2>3 DEF Fits
    <2> QED BY <1>5, <2>3, <2>4, <2>5, <2>6
  <1>7. CASE v = FALSE
    <2>1. Is(text[pc], "goto", i)
      BY <1>1, <1>7 DEF Shape
    <2>2. RunGoto
      BY <2>1, RunOf DEF Is, Instr
    <2>3. r = return_value /\ q = S[Len(b) + 1] /\ event' = event /\ phase' = "run"
      BY <1>1, <1>2, <2>2 DEF RunGoto, Runs
    <2>4. PICK m \in 0..(Len(d) + 1) : m = 0 /\ q = S[Len(b) + 1] + m
      <3>1. 0 \in 0..(Len(d) + 1)
        BY <1>3 DEF Whole
      <3>2. S[Len(b) + 1] \in Nat
        BY <1>3, Places
      <3> QED BY <2>3, <3>1, <3>2
    <2>5. AtIn(b, t, q, r) = Len(b) + 1 /\ PendingIn(b, t, q, r) = Rest(d, 1) /\ StateIn(t, q, "run") = "running"
      <3>1. TailAs(b, t, d, q, r, m)
        BY <1>3, <2>4, AtTail
      <3> QED BY <2>4, <3>1 DEF TailAs
    <2>6. Position(b, v, d, S, q, r, "run")
      BY <2>4 DEF Position
    <2>7. Fits(v, r) /\ r = IF v THEN i ELSE return_value
      BY <1>3, <1>7, <2>3
    <2> QED BY <1>5, <2>3, <2>5, <2>6, <2>7
  <1> QED BY <1>v, <1>6, <1>7 DEF Gives

(* All statements.                                                         *)
LEMMA StatementStep ==
  ASSUME NEW b, NEW v, NEW S, NEW i \in 1..Len(b), Here(b, v, S, i), Run
  PROVE  Stepped(b, v, S)
PROOF
  <1>1. b[i].op \in Ops /\ b[i].op /= "defer"
    BY BodyTypes DEF Here, Placed, Whole
  <1>2. \/ b[i].op = "call" \/ b[i].op = "return" \/ b[i].op = "if" \/ b[i].op = "else" \/ b[i].op = "while"
        \/ b[i].op = "expect" \/ b[i].op = "expectelse" \/ b[i].op = "open" \/ b[i].op = "close"
    BY <1>1 DEF Ops
  <1> QED BY <1>2, CallStep, ReturnStep, IfStep, ElseStep, WhileStep, ExpectStep, ExpectElseStep, OpenStep,
             CloseStep

Stands(b, v, S) ==
  /\ Source.body = b /\ Source.valued = v
  /\ phase = "run" /\ Placed(b, v, text, defers, S, pc, return_value, phase)

(* Nothing happens in the source.                                          *)
LEMMA Stutters ==
  ASSUME NEW b, NEW v, NEW S, Stands(b, v, S), Run,
         NEW q, q = pc', NEW ph, ph = phase', ph /= "print", event' = event, return_value' = return_value,
         NEW t, t = text, NEW r, r = return_value,
         SourceAt = AtIn(b, t, q, r), SourcePending = PendingIn(b, t, q, r), SourceState = StateIn(t, q, ph),
         Position(b, v, defers, S, q, r, ph)
  PROVE  Stepped(b, v, S)
PROOF
  <1>1. functions' = functions /\ t = text' /\ q = pc' /\ r = return_value' /\ ph = phase' /\ phase' /= "print"
    BY RunKeeps DEF Keeps
  <1>2. /\ SourceAt' = AtIn(b, t, q, r) /\ SourcePending' = PendingIn(b, t, q, r)
        /\ SourceState' = StateIn(t, q, ph) /\ Source' = Source
    BY <1>1, MappedNext DEF Stands
  <1>3. UNCHANGED Semantics!bodyVars
    BY <1>2 DEF Semantics!bodyVars
  <1>4. There(b, v, S)
    BY RunKeeps DEF There, Stands, Placed, Keeps
  <1> QED BY <1>3, <1>4 DEF Stepped

(* The jump of a return that has set its value.                            *)
LEMMA GotoStep ==
  ASSUME NEW b, NEW v, NEW S, Stands(b, v, S), Run,
         NEW i \in 1..Len(b), b[i].op = "return", Gives(v), pc = S[i] + 1, return_value = i
  PROVE  Stepped(b, v, S)
PROOF
  <1>1. PICK t, d, r, p, q, ph : t = text /\ d = defers /\ r = return_value /\ p = pc /\ q = pc' /\ ph = "run"
    OBVIOUS
  <1>2. Whole(b, v, t, d, S) /\ r = i /\ p = S[i] + 1
    BY <1>1 DEF Stands, Placed
  <1>3. /\ t[p].c = "goto" /\ AtIn(b, t, p, r) = Len(b) + 1 /\ PendingIn(b, t, p, r) = Rest(d, 1)
        /\ StateIn(t, p, "run") = "running"
    <2>1. GotoAs(b, t, d, p, r)
      BY <1>2, AtGoto
    <2> QED BY <2>1 DEF GotoAs
  <1>4. /\ SourceAt = AtIn(b, text, pc, return_value) /\ SourcePending = PendingIn(b, text, pc, return_value)
        /\ SourceState = StateIn(text, pc, phase)
    BY MappedNow DEF Stands
  <1>5. RunGoto
    BY <1>1, <1>3, RunOf DEF Instr
  <1>6. LabelOf(t) = S[Len(b) + 1] /\ Label = LabelOf(t)
    BY <1>1, <1>2, LabelIs DEF Label, LabelOf
  <1>7. q = S[Len(b) + 1] /\ event' = event /\ return_value' = return_value /\ phase' = "run"
    BY <1>1, <1>5, <1>6 DEF RunGoto, Runs
  <1>8. PICK m \in 0..(Len(d) + 1) : m = 0 /\ q = S[Len(b) + 1] + m
    <2>1. 0 \in 0..(Len(d) + 1)
      BY <1>2 DEF Whole
    <2>2. S[Len(b) + 1] \in Nat
      BY <1>2, Places
    <2> QED BY <1>7, <2>1, <2>2
  <1>9. AtIn(b, t, q, r) = Len(b) + 1 /\ PendingIn(b, t, q, r) = Rest(d, 1) /\ StateIn(t, q, "run") = "running"
    <2>1. TailAs(b, t, d, q, r, m)
      BY <1>2, <1>8, AtTail
    <2> QED BY <1>8, <2>1 DEF TailAs
  <1>10. Position(b, v, d, S, q, r, ph)
    BY <1>1, <1>8 DEF Position
  <1>11. /\ SourceAt = AtIn(b, t, q, r) /\ SourcePending = PendingIn(b, t, q, r)
         /\ SourceState = StateIn(t, q, ph)
    BY <1>1, <1>3, <1>4, <1>9 DEF Stands
  <1> QED BY <1>1, <1>7, <1>10, <1>11, Stutters

LEMMA ExitStep ==
  ASSUME NEW b, NEW v, NEW S, Stands(b, v, S), Run,
         NEW i \in 1..Len(b), b[i].op = "expect", pc = S[i] + 1
  PROVE  Stepped(b, v, S)
PROOF
  <1>1. PICK t, d, r, p, ph : t = text /\ d = defers /\ r = return_value /\ p = pc /\ ph = "exited"
    OBVIOUS
  <1>2. Whole(b, v, t, d, S) /\ p = S[i] + 1
    BY <1>1 DEF Stands, Placed
  <1>3. /\ t[p].c = "exit" /\ AtIn(b, t, p, r) = i /\ PendingIn(b, t, p, r) = DefersUpTo(b, i)
        /\ StateIn(t, p, "run") = "exited" /\ StateIn(t, p, "exited") = "exited"
    <2>1. ExitAs(b, t, p, r, i)
      BY <1>2, AtExit
    <2> QED BY <2>1 DEF ExitAs
  <1>4. /\ SourceAt = AtIn(b, text, pc, return_value) /\ SourcePending = PendingIn(b, text, pc, return_value)
        /\ SourceState = StateIn(text, pc, phase)
    BY MappedNow DEF Stands
  <1>5. RunExit
    BY <1>1, <1>3, RunOf DEF Instr
  <1>6. p = pc' /\ event' = event /\ return_value' = return_value /\ ph = phase'
    BY <1>1, <1>5 DEF RunExit
  <1>7. Position(b, v, d, S, p, r, ph)
    BY <1>1, <1>2 DEF Position
  <1>8. /\ SourceAt = AtIn(b, t, p, r) /\ SourcePending = PendingIn(b, t, p, r)
        /\ SourceState = StateIn(t, p, ph)
    BY <1>1, <1>3, <1>4 DEF Stands
  <1>9. ph /= "print"
    BY <1>1
  <1> QED BY <1>1, <1>6, <1>7, <1>8, <1>9, Stutters

(* Behind the label the deferred calls run, then the function is left.     *)
LEMMA TailStep ==
  ASSUME NEW b, NEW v, NEW S, Stands(b, v, S), Run,
         NEW m \in 0..(Len(defers) + 1), pc = S[Len(b) + 1] + m
  PROVE  Stepped(b, v, S)
PROOF
  <1>1. PICK t, d, r, p, q : t = text /\ d = defers /\ r = return_value /\ p = pc /\ q = pc'
    OBVIOUS
  <1>2. Whole(b, v, t, d, S) /\ Lists(d, b, Len(b) + 1)
    BY <1>1 DEF Stands, Placed
  <1>3. PICK L \in Nat, n \in Nat : L = S[Len(b) + 1] /\ n = Len(d) /\ d \in Seq(Nat)
    <2>1. S[Len(b) + 1] \in Nat
      <3>1. Len(b) + 1 \in 1..(Len(b) + 1)
        BY <1>2, BodyTypes DEF Whole
      <3> QED BY <1>2, <3>1 DEF Whole, Laid
    <2>2. d \in Seq(Nat)
      BY <1>2 DEF Whole
    <2> QED BY <2>1, <2>2
  <1>4. m \in 0..(n + 1) /\ p = L + m
    BY <1>1, <1>3
  <1>5. TailAs(b, t, d, p, r, m)
    <2>1. m \in 0..(Len(d) + 1) /\ p = S[Len(b) + 1] + m
      BY <1>3, <1>4
    <2> QED BY <1>2, <2>1, AtTail
  <1>6. /\ SourceAt = Len(b) + 1 /\ SourceState = "running"
        /\ m = 0 => SourcePending = Rest(d, 1)
        /\ m /= 0 => SourcePending = Rest(d, m)
    <2>1. /\ SourceAt = AtIn(b, t, p, r) /\ SourcePending = PendingIn(b, t, p, r)
          /\ SourceState = StateIn(t, p, "run")
      BY <1>1, MappedNow DEF Stands
    <2> QED BY <1>5, <2>1 DEF TailAs
  <1>7. ASSUME m =< n, q = p + 1
        PROVE  /\ AtIn(b, t, q, r) = Len(b) + 1 /\ PendingIn(b, t, q, r) = Rest(d, m + 1)
               /\ StateIn(t, q, "run") = "running" /\ Position(b, v, d, S, q, r, "run")
    <2>1. PICK k \in 0..(Len(d) + 1) : k = m + 1 /\ k /= 0 /\ q = S[Len(b) + 1] + k
      <3>1. m + 1 \in 0..(n + 1) /\ m + 1 /= 0 /\ q = L + (m + 1)
        BY <1>4, <1>7
      <3> QED BY <1>3, <3>1
    <2>2. TailAs(b, t, d, q, r, k)
      BY <1>2, <2>1, AtTail
    <2>3. Position(b, v, d, S, q, r, "run")
      BY <2>1 DEF Position
    <2> QED BY <2>1, <2>2, <2>3 DEF TailAs
  <1>8. Semantics!End = Len(b) + 1
    BY SameDefers DEF Stands
  <1>9. CASE m = 0
    <2>1. t[p].c = "label"
      BY <1>5, <1>9 DEF TailAs
    <2>2. RunBrace /\ Instr.c \in {"{", "label"}
      BY <1>1, <2>1, RunOf DEF Instr
    <2>3. q = p + 1 /\ return_value' = return_value /\ event' = event /\ phase' = "run"
      BY <1>1, <2>2, BraceGoes
    <2>4. m =< n
      BY <1>4, <1>9
    <2>5. Rest(d, m + 1) = Rest(d, 1)
      BY <1>9
    <2>6. /\ AtIn(b, t, q, r) = Len(b) + 1 /\ PendingIn(b, t, q, r) = Rest(d, 1)
          /\ StateIn(t, q, "run") = "running" /\ Position(b, v, d, S, q, r, "run")
      BY <1>7, <2>3, <2>4, <2>5
    <2>7. PICK ph : ph = "run" /\ ph /= "print"
      OBVIOUS
    <2>8. /\ SourceAt = AtIn(b, t, q, r) /\ SourcePending = PendingIn(b, t, q, r)
          /\ SourceState = StateIn(t, q, ph) /\ Position(b, v, d, S, q, r, ph)
      BY <1>6, <1>9, <2>6, <2>7
    <2> QED BY <1>1, <2>3, <2>7, <2>8, Stutters
  <1>10. CASE m \in 1..n
    <2>1. t[p].c = "expr" /\ t[p].of = d[m] /\ p > LabelOf(t)
      BY <1>3, <1>5, <1>10 DEF TailAs
    <2>2. RunExpr
      BY <1>1, <2>1, RunOf DEF Instr
    <2>3. pc > Label
      BY <1>1, <2>1 DEF Label, LabelOf
    <2>4. /\ event' = <<"deferred", d[m]>> /\ q = p + 1 /\ return_value' = return_value /\ phase' = "run"
      BY <1>1, <2>1, <2>2, <2>3 DEF RunExpr, Runs, Instr
    <2>5. m =< n /\ m /= 0 /\ m \in 1..(n + 1)
      BY <1>10
    <2>6. d[m] \in Rest(d, m) /\ Rest(d, m + 1) = Rest(d, m) \ {d[m]}
      BY <1>2, <1>3, <2>5, RestIs
    <2>7. /\ AtIn(b, t, q, r) = Len(b) + 1 /\ PendingIn(b, t, q, r) = Rest(d, m + 1)
          /\ StateIn(t, q, "run") = "running" /\ Position(b, v, d, S, q, r, "run")
      BY <1>7, <2>4, <2>5
    <2>8. PICK ph : ph = "run" /\ ph /= "print"
      OBVIOUS
    <2>9. functions' = functions /\ t = text' /\ q = pc' /\ r = return_value' /\ ph = phase' /\ phase' /= "print"
      BY <1>1, <2>4, <2>8, RunKeeps DEF Keeps
    <2>10. /\ SourceAt' = AtIn(b, t, q, r) /\ SourcePending' = PendingIn(b, t, q, r)
           /\ SourceState' = StateIn(t, q, ph) /\ Source' = Source
      BY <2>9, MappedNext DEF Stands
    <2>11. Semantics!Deferred
      BY <1>6, <1>8, <2>4, <2>5, <2>6, <2>7, <2>8, <2>10 DEF Semantics!Deferred
    <2>12. There(b, v, S)
      BY <1>1, <2>4, <2>7, RunKeeps DEF There, Stands, Placed, Keeps
    <2> QED BY <2>11, <2>12 DEF Stepped, Semantics!BodyNext
  <1>11. CASE m = n + 1
    <2>1. t[p].c = "return"
      BY <1>3, <1>5, <1>11 DEF TailAs
    <2>2. RunReturn
      BY <1>1, <2>1, RunOf DEF Instr
    <2>3. phase' = "returned" /\ q = p /\ return_value' = return_value /\ event' = event
      BY <1>1, <2>2 DEF RunReturn
    <2>4. SourcePending = {}
      <3>1. m /= 0 /\ m = Len(d) + 1 /\ n + 1 \in 1..(Len(d) + 1)
        BY <1>3, <1>11
      <3>2. Rest(d, Len(d) + 1) = {}
        BY <1>2, <1>3, <1>11, <3>1, RestIs
      <3> QED BY <1>6, <3>1, <3>2
    <2>5. PICK ph : ph = "returned" /\ ph /= "print"
      OBVIOUS
    <2>6. functions' = functions /\ t = text' /\ q = pc' /\ r = return_value' /\ ph = phase' /\ phase' /= "print"
      BY <1>1, <2>3, <2>5, RunKeeps DEF Keeps
    <2>7. /\ SourceAt' = AtIn(b, t, q, r) /\ SourcePending' = PendingIn(b, t, q, r)
          /\ SourceState' = StateIn(t, q, ph) /\ Source' = Source
      BY <2>6, MappedNext DEF Stands
    <2>8. SourceAt' = SourceAt /\ SourcePending' = SourcePending
      <3>1. SourceAt = AtIn(b, t, p, r) /\ SourcePending = PendingIn(b, t, p, r)
        BY <1>1, MappedNow DEF Stands
      <3> QED BY <2>3, <2>7, <3>1
    <2>9. SourceState' = "returned"
      BY <2>5, <2>7 DEF StateIn
    <2>10. Semantics!Leave
      BY <1>6, <1>8, <2>3, <2>4, <2>7, <2>8, <2>9 DEF Semantics!Leave
    <2>11. Position(b, v, d, S, q, r, "returned")
      <3>1. q = S[Len(b) + 1] + (Len(d) + 1)
        BY <1>3, <1>4, <1>11, <2>3
      <3> QED BY <3>1 DEF Position
    <2>12. There(b, v, S)
      BY <1>1, <2>3, <2>11, RunKeeps DEF There, Stands, Placed, Keeps
    <2> QED BY <2>10, <2>12 DEF Stepped, Semantics!BodyNext
  <1>12. m = 0 \/ m \in 1..n \/ m = n + 1
    BY <1>4
  <1> QED BY <1>9, <1>10, <1>11, <1>12

(* An instruction is a step of the source, or none.                        *)
LEMMA RunStep ==
  ASSUME NEW b, NEW v, NEW S, Stands(b, v, S), Run
  PROVE  Stepped(b, v, S)
PROOF
  <1>1. Position(b, v, defers, S, pc, return_value, phase) /\ phase = "run"
    BY DEF Stands, Placed
  <1>2. CASE \E i \in 1..Len(b) : b[i].op /= "defer" /\ pc = S[i]
    <2>1. PICK i \in 1..Len(b) : b[i].op /= "defer" /\ pc = S[i]
      BY <1>2
    <2>2. Here(b, v, S, i)
      BY <2>1 DEF Here, Stands
    <2> QED BY <2>2, StatementStep
  <1>3. CASE \E i \in 1..Len(b) : b[i].op = "return" /\ Gives(v) /\ pc = S[i] + 1 /\ return_value = i
    BY <1>3, GotoStep
  <1>4. CASE \E i \in 1..Len(b) : b[i].op = "expect" /\ pc = S[i] + 1
    BY <1>4, ExitStep
  <1>5. CASE \E m \in 0..(Len(defers) + 1) : pc = S[Len(b) + 1] + m
    BY <1>5, TailStep
  <1> QED BY <1>1, <1>2, <1>3, <1>4, <1>5 DEF Position

-----------------------------------------------------------------------------
(* While the functions are printed, the source has not begun.              *)
LEMMA FirstUndeferred ==
  ASSUME NEW b, Parsed(b)
  PROVE  Min({i \in DOMAIN b : ~DeferAt(b, i)} \cup {Len(b) + 1}) = ReachedIn(b, 1)
PROOF
  <1>1. PICK n \in Nat : n = Len(b) /\ DOMAIN b = 1..n
    BY BodyTypes
  <1>2. PICK k \in 1..(n + 1) :
          k = ReachedIn(b, 1) /\ ~DeferAt(b, k) /\ \A j \in 1..(k - 1) : DeferAt(b, j)
    <2>1. 1 \in 1..(Len(b) + 1)
      BY <1>1
    <2> QED BY <1>1, <2>1, FirstOf
  <1>3. PICK A : A = {i \in DOMAIN b : ~DeferAt(b, i)} \cup {Len(b) + 1}
    OBVIOUS
  <1>4. A \subseteq Nat /\ k \in A
    BY <1>1, <1>2, <1>3
  <1>5. ASSUME NEW y \in A PROVE k =< y
    <2> SUFFICES ASSUME y < k PROVE FALSE
      BY <1>4
    <2>1. y \in 1..(k - 1) /\ y \in 1..n
      BY <1>1, <1>2, <1>3
    <2>2. ~DeferAt(b, y)
      BY <1>1, <1>3, <2>1
    <2> QED BY <1>2, <2>1, <2>2
  <1>6. Min(A) = k
    BY <1>4, <1>5, MinIs
  <1> QED BY <1>2, <1>3, <1>6

LEMMA PrintMapped ==
  ASSUME NEW b, Source.body = b, Parsed(b), phase = "print"
  PROVE  /\ SourceAt = ReachedIn(b, 1) /\ SourcePending = DefersUpTo(b, ReachedIn(b, 1))
         /\ SourceState = "running"
PROOF
  <1>1. SourceEnd = Len(b) + 1 /\ \A i : DefersBefore(i) = DefersUpTo(b, i)
    BY SameDefers
  <1>2. \A i : IsDefer(i) = DeferAt(b, i)
    BY <1>1 DEF IsDefer, DeferAt
  <1>3. Undeferred = {i \in DOMAIN b : ~DeferAt(b, i)}
    BY <1>2 DEF Undeferred
  <1>4. SourceAt = ReachedIn(b, 1)
    BY <1>1, <1>3, FirstUndeferred DEF SourceAt
  <1> QED BY <1>1, <1>4 DEF SourcePending, SourceState

LEMMA PrintMappedNext ==
  ASSUME NEW b, Source.body = b, Parsed(b), functions' = functions, phase' = "print"
  PROVE  /\ SourceAt' = ReachedIn(b, 1) /\ SourcePending' = DefersUpTo(b, ReachedIn(b, 1))
         /\ SourceState' = "running" /\ Source' = Source
PROOF
  <1>1. Source' = Source
    BY DEF Source
  <1>2. PICK i : i = SourceAt'
    OBVIOUS
  <1>3. /\ SourceEnd' = Len(b) + 1 /\ (\A j : IsDefer(j)' = DeferAt(b, j))
        /\ DefersBefore(SourceAt)' = DefersUpTo(b, i)
    BY <1>1, <1>2, DeferredNext
  <1>4. Undeferred' = {j \in DOMAIN b : ~DeferAt(b, j)}
    <2>1. Source'.body = b
      BY <1>1
    <2> QED BY <1>3, <2>1 DEF Undeferred
  <1>5. SourceAt' = ReachedIn(b, 1)
    BY <1>3, <1>4, FirstUndeferred DEF SourceAt
  <1>6. SourcePending' = DefersUpTo(b, ReachedIn(b, 1))
    BY <1>2, <1>3, <1>5 DEF SourcePending
  <1> QED BY <1>1, <1>5, <1>6 DEF SourceState

(* What holds while the functions are printed and while the last one runs. *)
Printing ==
  /\ generating \in 1..Len(functions) /\ next \in 1..(Len(Body) + 1) /\ return_value = NoValue
  /\ HalfPrinted(Body, currentFn.valued, text, defers, next)

Running == \E S : Placed(Source.body, Source.valued, text, defers, S, pc, return_value, phase)

BodiesInv ==
  /\ ParsedProgram(functions)
  /\ phase = "print" => Printing
  /\ phase /= "print" => Running

LEMMA ProgramTypes ==
  ASSUME NEW f, ParsedProgram(f)
  PROVE  /\ Len(f) \in Nat \ {0}
         /\ \A k \in 1..Len(f) : Parsed(f[k].body) /\ f[k].valued \in BOOLEAN
PROOF
  <1>1. PICK R : R = [body : Seq([op : Ops, end : Nat]), valued : BOOLEAN]
    OBVIOUS
  <1>2. f \in Seq(R) /\ f /= <<>>
    BY <1>1 DEF ParsedProgram
  <1>3. Len(f) \in Nat \ {0} /\ DOMAIN f = 1..Len(f)
    BY <1>2, EmptySeq
  <1>4. ASSUME NEW k \in 1..Len(f) PROVE Parsed(f[k].body) /\ f[k].valued \in BOOLEAN
    <2>1. f[k] \in R
      BY <1>2, ElementOfSeq
    <2>2. f[k].valued \in BOOLEAN
      BY <1>1, <2>1
    <2> QED BY <1>3, <2>2 DEF ParsedProgram
  <1> QED BY <1>3, <1>4

LEMMA SourceParsed ==
  ASSUME ParsedProgram(functions)
  PROVE  Parsed(Source.body) /\ Source.valued \in BOOLEAN
PROOF
  <1>1. Len(functions) \in 1..Len(functions)
    BY ProgramTypes
  <1> QED BY <1>1, ProgramTypes DEF Source

LEMMA InvInit ==
  ASSUME NEW Programs, \A p \in Programs : ParsedProgram(p), BodiesInit(Programs)
  PROVE  BodiesInv /\ Semantics!BodyInit
PROOF
  <1>1. ParsedProgram(functions) /\ phase = "print"
    BY DEF BodiesInit
  <1>2. Printing
    <2>1. Len(functions) \in Nat \ {0} /\ generating = 1 /\ next = 1
      BY <1>1, ProgramTypes DEF BodiesInit
    <2>2. 1 \in 1..Len(functions)
      BY <2>1
    <2>3. PICK b, v : b = functions[1].body /\ v = functions[1].valued
      OBVIOUS
    <2>4. Parsed(b) /\ v \in BOOLEAN
      BY <1>1, <2>2, <2>3, ProgramTypes
    <2>5. b = Body /\ v = currentFn.valued
      BY <2>1, <2>3 DEF Body, currentFn
    <2>6. 1 \in 1..(Len(Body) + 1)
      <3>1. Len(b) \in Nat
        BY <2>4, BodyTypes
      <3> QED BY <2>5, <3>1
    <2>7. HalfPrinted(b, v, <<>>, <<>>, 1)
      BY <2>4, NothingPrinted
    <2> QED BY <2>1, <2>2, <2>5, <2>6, <2>7 DEF Printing, BodiesInit
  <1>3. Semantics!BodyInit
    <2>1. PICK b : b = Source.body
      OBVIOUS
    <2>2. Parsed(b)
      BY <1>1, <2>1, SourceParsed
    <2>3. /\ SourceAt = ReachedIn(b, 1) /\ SourcePending = DefersUpTo(b, ReachedIn(b, 1))
          /\ SourceState = "running"
      BY <1>1, <2>1, <2>2, PrintMapped
    <2>4. (\A i : Semantics!DefersBefore(i) = DefersUpTo(b, i)) /\ \A i : Semantics!Reached(i) = ReachedIn(b, i)
      BY <2>1, SameDefers
    <2> QED BY <2>3, <2>4 DEF Semantics!BodyInit, BodiesInit
  <1> QED BY <1>1, <1>2, <1>3 DEF BodiesInv

(* A statement is printed.                                                 *)
LEMMA GenStmtStep ==
  ASSUME BodiesInv, GenStmt
  PROVE  BodiesInv' /\ UNCHANGED Semantics!bodyVars
PROOF
  <1>1. /\ ParsedProgram(functions) /\ Printing /\ phase = "print" /\ phase' = "print"
        /\ functions' = functions /\ generating' = generating /\ next' = next + 1
        /\ return_value' = return_value /\ event' = event
    BY DEF BodiesInv, GenStmt
  <1>2. PICK b, v, m : b = Body /\ v = currentFn.valued /\ m = next
    OBVIOUS
  <1>3. Parsed(b) /\ v \in BOOLEAN
    BY <1>1, <1>2, ProgramTypes DEF Printing, Body, currentFn
  <1>4. m \in 1..Len(b) /\ Len(b) \in Nat
    BY <1>1, <1>2, <1>3, BodyTypes DEF Printing, GenStmt
  <1>5. PICK t, d, u, e : /\ t = text /\ d = defers /\ u = Printed(m)
                          /\ e = IF b[m].op = "defer" THEN Append(d, m) ELSE d
    OBVIOUS
  <1>6. text' = t \o u /\ defers' = e
    BY <1>2, <1>5 DEF GenStmt, Remembered
  <1>7. HalfPrinted(b, v, t, d, m)
    BY <1>1, <1>2, <1>5 DEF Printing
  <1>8. HalfPrinted(b, v, t \o u, e, m + 1)
    BY <1>2, <1>3, <1>4, <1>5, <1>7, StatementPrinted
  <1>9. Printing'
    <2>1. Body' = b /\ currentFn'.valued = v
      BY <1>1, <1>2 DEF Body, currentFn
    <2>2. next' \in 1..(Len(b) + 1)
      BY <1>1, <1>2, <1>4
    <2>3. HalfPrinted(b, v, text', defers', next')
      BY <1>1, <1>2, <1>6, <1>8
    <2>4. generating' \in 1..Len(functions') /\ return_value' = NoValue
      BY <1>1 DEF Printing
    <2> QED BY <2>1, <2>2, <2>3, <2>4 DEF Printing
  <1>10. UNCHANGED Semantics!bodyVars
    <2>1. PICK c : c = Source.body
      OBVIOUS
    <2>2. Parsed(c)
      BY <1>1, <2>1, SourceParsed
    <2>3. /\ SourceAt = ReachedIn(c, 1) /\ SourcePending = DefersUpTo(c, ReachedIn(c, 1))
          /\ SourceState = "running"
      BY <1>1, <2>1, <2>2, PrintMapped
    <2>4. /\ SourceAt' = ReachedIn(c, 1) /\ SourcePending' = DefersUpTo(c, ReachedIn(c, 1))
          /\ SourceState' = "running" /\ Source' = Source
      BY <1>1, <2>1, <2>2, PrintMappedNext
    <2> QED BY <1>1, <2>3, <2>4 DEF Semantics!bodyVars
  <1> QED BY <1>1, <1>9, <1>10 DEF BodiesInv

(* The next function is begun.                                             *)
LEMMA GenNextFunction ==
  ASSUME BodiesInv, GenFunction, generating < Len(functions)
  PROVE  BodiesInv' /\ UNCHANGED Semantics!bodyVars
PROOF
  <1>1. /\ ParsedProgram(functions) /\ Printing /\ phase = "print" /\ phase' = "print"
        /\ functions' = functions /\ generating' = generating + 1 /\ next' = 1
        /\ defers' = <<>> /\ text' = <<>>
        /\ return_value' = return_value /\ event' = event
    BY DEF BodiesInv, GenFunction, Cleared
  <1>2. PICK g : g = generating + 1
    OBVIOUS
  <1>3. g \in 1..Len(functions)
    <2>1. generating \in 1..Len(functions) /\ Len(functions) \in Nat
      BY <1>1, ProgramTypes DEF Printing
    <2> QED BY <1>2, <2>1
  <1>4. PICK b, v : b = functions[g].body /\ v = functions[g].valued
    OBVIOUS
  <1>5. Parsed(b) /\ v \in BOOLEAN
    BY <1>1, <1>3, <1>4, ProgramTypes
  <1>6. Printing'
    <2>1. Body' = b /\ currentFn'.valued = v /\ generating' = g
      BY <1>1, <1>2, <1>4 DEF Body, currentFn
    <2>2. 1 \in 1..(Len(b) + 1)
      <3>1. Len(b) \in Nat
        BY <1>5, BodyTypes
      <3> QED BY <3>1
    <2>3. HalfPrinted(b, v, <<>>, <<>>, 1)
      BY <1>5, NothingPrinted
    <2>4. return_value' = NoValue
      BY <1>1 DEF Printing
    <2> QED BY <1>1, <1>3, <2>1, <2>2, <2>3, <2>4 DEF Printing
  <1>7. UNCHANGED Semantics!bodyVars
    <2>1. PICK c : c = Source.body
      OBVIOUS
    <2>2. Parsed(c)
      BY <1>1, <2>1, SourceParsed
    <2>3. /\ SourceAt = ReachedIn(c, 1) /\ SourcePending = DefersUpTo(c, ReachedIn(c, 1))
          /\ SourceState = "running"
      BY <1>1, <2>1, <2>2, PrintMapped
    <2>4. /\ SourceAt' = ReachedIn(c, 1) /\ SourcePending' = DefersUpTo(c, ReachedIn(c, 1))
          /\ SourceState' = "running" /\ Source' = Source
      BY <1>1, <2>1, <2>2, PrintMappedNext
    <2> QED BY <1>1, <2>3, <2>4 DEF Semantics!bodyVars
  <1> QED BY <1>1, <1>6, <1>7 DEF BodiesInv

(* The last function is printed to its end, and begins to run.             *)
LEMMA GenLastFunction ==
  ASSUME BodiesInv, GenFunction, ~(generating < Len(functions))
  PROVE  BodiesInv' /\ UNCHANGED Semantics!bodyVars
PROOF
  <1>1. /\ ParsedProgram(functions) /\ Printing /\ phase = "print" /\ phase' = "run"
        /\ functions' = functions /\ defers' = defers /\ text' = text \o Ending /\ pc' = 1
        /\ return_value' = return_value /\ event' = event /\ next > Len(Body)
    BY DEF BodiesInv, GenFunction
  <1>2. generating = Len(functions)
    <2>1. generating \in 1..Len(functions) /\ Len(functions) \in Nat
      BY <1>1, ProgramTypes DEF Printing
    <2> QED BY <2>1
  <1>3. PICK b, v, t, d : b = Source.body /\ v = Source.valued /\ t = text /\ d = defers
    OBVIOUS
  <1>4. Body = b /\ currentFn.valued = v
    BY <1>2, <1>3 DEF Body, currentFn, Source
  <1>5. Parsed(b)
    BY <1>1, <1>3, SourceParsed
  <1>6. next = Len(b) + 1
    <2>1. Len(b) \in Nat
      BY <1>5, BodyTypes
    <2> QED BY <1>1, <1>4, <2>1 DEF Printing
  <1>7. HalfPrinted(b, v, t, d, Len(b) + 1)
    BY <1>1, <1>3, <1>4, <1>6 DEF Printing
  <1>8. PICK u : u = Ending /\ u = <<C("label", 0)>> \o [k \in DOMAIN d |-> C("expr", d[k])] \o <<C("return", 0)>>
    BY <1>3 DEF Ending
  <1>9. PICK S : Whole(b, v, t \o u, d, S)
    <2>1. v \in BOOLEAN
      BY <1>1, <1>3, SourceParsed
    <2> QED BY <1>5, <1>7, <1>8, <2>1, FunctionPrinted
  <1>10. PICK w, r, q, ph : w = t \o u /\ r = return_value /\ q = 1 /\ ph = "run"
    OBVIOUS
  <1>11. Whole(b, v, w, d, S) /\ Lists(d, b, Len(b) + 1) /\ Fits(v, r)
    BY <1>1, <1>7, <1>9, <1>10 DEF Printing, Fits, HalfPrinted
  <1>12. PICK j \in 1..(Len(b) + 1) : j = 1 /\ q = S[j]
    <2>1. 1 \in 1..(Len(b) + 1)
      <3>1. Len(b) \in Nat
        BY <1>5, BodyTypes
      <3> QED BY <3>1
    <2>2. S[1] = 1
      BY <1>11 DEF Whole, Laid
    <2> QED BY <1>10, <2>1, <2>2
  <1>13. /\ AtIn(b, w, q, r) = ReachedIn(b, j)
         /\ PendingIn(b, w, q, r) = DefersUpTo(b, ReachedIn(b, j))
         /\ StateIn(w, q, "run") = "running"
         /\ Position(b, v, d, S, q, r, "run")
    BY <1>11, <1>12, Landing
  <1>14. w = text' /\ q = pc' /\ r = return_value' /\ ph = phase' /\ phase' /= "print"
    BY <1>1, <1>3, <1>8, <1>10
  <1>15. /\ SourceAt' = AtIn(b, w, q, r) /\ SourcePending' = PendingIn(b, w, q, r)
         /\ SourceState' = StateIn(w, q, ph) /\ Source' = Source
    BY <1>1, <1>3, <1>14, MappedNext
  <1>16. /\ SourceAt = ReachedIn(b, 1) /\ SourcePending = DefersUpTo(b, ReachedIn(b, 1))
         /\ SourceState = "running"
    BY <1>1, <1>3, <1>5, PrintMapped
  <1>17. UNCHANGED Semantics!bodyVars
    BY <1>1, <1>10, <1>12, <1>13, <1>15, <1>16 DEF Semantics!bodyVars
  <1>18. Running'
    <2>1. Placed(b, v, w, d, S, q, r, "run")
      BY <1>11, <1>13 DEF Placed
    <2>2. Placed(Source'.body, Source'.valued, text', defers', S, pc', return_value', phase')
      BY <1>1, <1>3, <1>14, <1>15, <2>1
    <2> QED BY <2>2 DEF Running
  <1> QED BY <1>1, <1>17, <1>18 DEF BodiesInv

(* An instruction of the last function.                                    *)
LEMMA InstructionStep ==
  ASSUME BodiesInv, Run
  PROVE  BodiesInv' /\ (Semantics!BodyNext \/ UNCHANGED Semantics!bodyVars)
PROOF
  <1>1. phase = "run" /\ Keeps /\ ParsedProgram(functions) /\ Running
    BY RunKeeps DEF BodiesInv
  <1>2. PICK b, v : b = Source.body /\ v = Source.valued
    OBVIOUS
  <1>3. PICK S : Placed(b, v, text, defers, S, pc, return_value, phase)
    BY <1>1, <1>2 DEF Running
  <1>4. Stands(b, v, S)
    BY <1>1, <1>2, <1>3 DEF Stands
  <1>5. Stepped(b, v, S)
    BY <1>4, RunStep
  <1>6. Source' = Source
    BY <1>1 DEF Keeps, Source
  <1>7. Placed(Source'.body, Source'.valued, text', defers', S, pc', return_value', phase')
    BY <1>2, <1>5, <1>6 DEF Stepped, There
  <1>8. Running'
    BY <1>7 DEF Running
  <1>9. phase' /= "print"
    BY <1>7 DEF Placed, Position
  <1> QED BY <1>1, <1>5, <1>8, <1>9 DEF BodiesInv, Stepped, Keeps

LEMMA StutteringStep ==
  ASSUME BodiesInv, UNCHANGED vars
  PROVE  BodiesInv' /\ UNCHANGED Semantics!bodyVars
PROOF
  <1>1. BodiesInv'
    BY DEF BodiesInv, Printing, Running, Body, currentFn, Source, vars
  <1>2. ParsedProgram(functions) /\ functions' = functions /\ phase' = phase /\ text' = text /\ pc' = pc
        /\ return_value' = return_value /\ event' = event
    BY DEF BodiesInv, vars
  <1>3. PICK b : b = Source.body
    OBVIOUS
  <1>4. Parsed(b)
    BY <1>2, <1>3, SourceParsed
  <1>5. CASE phase = "print"
    <2>1. /\ SourceAt = ReachedIn(b, 1) /\ SourcePending = DefersUpTo(b, ReachedIn(b, 1))
          /\ SourceState = "running"
      BY <1>3, <1>4, <1>5, PrintMapped
    <2>2. /\ SourceAt' = ReachedIn(b, 1) /\ SourcePending' = DefersUpTo(b, ReachedIn(b, 1))
          /\ SourceState' = "running" /\ Source' = Source
      BY <1>2, <1>3, <1>4, <1>5, PrintMappedNext
    <2>3. UNCHANGED Semantics!bodyVars
      BY <1>2, <2>1, <2>2 DEF Semantics!bodyVars
    <2> QED BY <1>1, <2>3
  <1>6. CASE phase /= "print"
    <2>1. PICK t, p, r, ph : t = text /\ p = pc /\ r = return_value /\ ph = phase
      OBVIOUS
    <2>2. t = text' /\ p = pc' /\ r = return_value' /\ ph = phase' /\ phase' /= "print"
      BY <1>2, <1>6, <2>1
    <2>3. /\ SourceAt = AtIn(b, t, p, r) /\ SourcePending = PendingIn(b, t, p, r)
          /\ SourceState = StateIn(t, p, ph)
      BY <1>3, <1>6, <2>1, MappedNow
    <2>4. /\ SourceAt' = AtIn(b, t, p, r) /\ SourcePending' = PendingIn(b, t, p, r)
          /\ SourceState' = StateIn(t, p, ph) /\ Source' = Source
      BY <1>2, <1>3, <2>2, MappedNext
    <2>5. UNCHANGED Semantics!bodyVars
      BY <1>2, <2>3, <2>4 DEF Semantics!bodyVars
    <2> QED BY <1>1, <2>5
  <1> QED BY <1>5, <1>6

(* The C that genStmt() and genFunction() print for the body of a function *)
(* does what its statements say, whatever parsed program it belongs to:    *)
(* the same calls and tests in the same order, each deferred call once     *)
(* when the function is left, the value of the return that was taken.      *)
THEOREM BodiesAreImplemented ==
  ASSUME NEW Programs, \A p \in Programs : ParsedProgram(p)
  PROVE  BodiesInit(Programs) /\ [][Next]_vars => ImplementsBody
PROOF
  <1>1. BodiesInit(Programs) => BodiesInv /\ Semantics!BodyInit
    BY InvInit
  <1>2. BodiesInv /\ [Next]_vars => BodiesInv' /\ [Semantics!BodyNext]_(Semantics!bodyVars)
    <2> SUFFICES ASSUME BodiesInv, [Next]_vars
                 PROVE  BodiesInv' /\ (Semantics!BodyNext \/ UNCHANGED Semantics!bodyVars)
      OBVIOUS
    <2>1. CASE GenStmt
      BY <2>1, GenStmtStep
    <2>2. CASE GenFunction
      BY <2>2, GenNextFunction, GenLastFunction
    <2>3. CASE Run
      BY <2>3, InstructionStep
    <2>4. CASE UNCHANGED vars
      BY <2>4, StutteringStep
    <2> QED BY <2>1, <2>2, <2>3, <2>4 DEF Next, PrintBodies
  <1> QED BY <1>1, <1>2, PTL DEF ImplementsBody, Semantics!BodySpec
=============================================================================
