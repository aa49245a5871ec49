-------------------------- MODULE FrontEnd_proofs --------------------------
(***************************************************************************)
(* From text to declarations: what the scanner makes of a text, and where  *)
(* the parser stands in what the scanner gives it.  The two models share   *)
(* no state: first the theorems of the scanner, then those of the parser.  *)
(***************************************************************************)
EXTENDS Scanner, ParserRecovery, SequenceTheorems, FiniteSetTheorems, TLAPS

(***************************************************************************)
(* The scanner returns exact tokens for every text, alphabet and set of    *)
(* keywords.  The tokens are only exact because of where the loops stand   *)
(* while they run: Position says that for each of them.                    *)
(***************************************************************************)
Position ==
  /\ \A j \in DOMAIN tokens : tokens[j].to <= current
  /\ mode \in {"number", "word", "string"} =>
       /\ start < current /\ current <= Len(source)
       /\ \A j \in DOMAIN tokens : tokens[j].to <= start
  /\ mode = "number" => Run(start, current, NumberChars)
  /\ mode = "word" => Run(start, current, WordChars) /\ Char(start) \notin Digits
  /\ current > Len(source) => mode \in {"skip", "outside"}

ScanInv == ScannerTypeOK /\ Position /\ TokensAreExact

-----------------------------------------------------------------------------
(* Three characters.                                                       *)
LEMMA Distinct == Quote /= Backslash /\ Quote /= NUL /\ Backslash /= NUL
PROOF
  <1>1. Quote /= Backslash
    BY Zenon DEF Quote, Backslash
  <1>2. Quote /= NUL
    BY Zenon DEF Quote, NUL
  <1>3. Backslash /= NUL
    BY Zenon DEF Backslash, NUL
  <1> QED BY <1>1, <1>2, <1>3

(* A character that is not the NUL is in the text.                         *)
LEMMA InText ==
  ASSUME ScannerTypeOK, NEW i \in Nat, Char(i) /= NUL
  PROVE  i < Len(source)
  BY DEF ScannerTypeOK, Char

(* What the types say of the positions.                                   *)
LEMMA TokenTypes ==
  ASSUME ScannerTypeOK
  PROVE  /\ current \in Nat /\ start \in Nat /\ Len(source) \in Nat
         /\ Len(tokens) \in Nat
         /\ \A j \in DOMAIN tokens : tokens[j] \in [kind : Kinds, from : Nat, to : Nat]
         /\ \A j \in DOMAIN tokens : tokens[j].from \in Nat /\ tokens[j].to \in Nat
PROOF
  <1>1. current \in Nat /\ start \in Nat /\ Len(source) \in Nat /\ Len(tokens) \in Nat
    BY DEF ScannerTypeOK
  <1>2. \A j \in DOMAIN tokens : tokens[j] \in [kind : Kinds, from : Nat, to : Nat]
    <2>1. tokens \in Seq([kind : Kinds, from : Nat, to : Nat])
      BY DEF ScannerTypeOK
    <2>2. DOMAIN tokens = 1..Len(tokens)
      BY <2>1
    <2> QED BY <2>1, <2>2, ElementOfSeq
  <1> QED BY <1>1, <1>2

(* A token behind all others that is exact itself keeps the tokens exact.  *)
LEMMA Appended ==
  ASSUME ScannerTypeOK, TokensAreExact,
         NEW t \in [kind : Kinds, from : Nat, to : Nat],
         \A j \in DOMAIN tokens : tokens[j].to <= t.from,
         t.kind /= "EOF" => t.from < t.to,
         Maximal(t),
         tokens' = Append(tokens, t),
         source' = source
  PROVE  /\ tokens' \in Seq([kind : Kinds, from : Nat, to : Nat])
         /\ Ordered'
         /\ (\A j \in DOMAIN tokens : Maximal(tokens[j]))'
         /\ \A j \in DOMAIN tokens' : tokens'[j] = t \/ (j \in DOMAIN tokens /\ tokens'[j] = tokens[j])
         /\ tokens' /= <<>> /\ tokens'[Len(tokens')] = t
PROOF
  <1> USE DEF ScannerTypeOK
  <1>1. tokens' \in Seq([kind : Kinds, from : Nat, to : Nat]) /\ Len(tokens') = Len(tokens) + 1
    OBVIOUS
  <1>2. \A j \in 1..Len(tokens) : tokens'[j] = tokens[j]
    OBVIOUS
  <1>3. tokens'[Len(tokens) + 1] = t
    OBVIOUS
  <1>4. DOMAIN tokens = 1..Len(tokens) /\ DOMAIN tokens' = 1..(Len(tokens) + 1)
    BY <1>1
  <1>5. Ordered'
    <2> SUFFICES ASSUME NEW j \in 1..(Len(tokens) + 1)
                 PROVE  /\ tokens'[j].kind /= "EOF" => tokens'[j].from < tokens'[j].to
                        /\ \A i \in 1..(j - 1) : tokens'[i].to <= tokens'[j].from
      BY <1>4 DEF Ordered
    <2>1. CASE j = Len(tokens) + 1
      <3>1. tokens'[j] = t
        BY <2>1, <1>3
      <3>2. \A i \in 1..(j - 1) : i \in DOMAIN tokens /\ tokens'[i] = tokens[i]
        BY <2>1, <1>2, <1>4
      <3> QED BY <3>1, <3>2
    <2>2. CASE j \in 1..Len(tokens)
      <3>1. \A i \in 1..(j - 1) : i \in 1..Len(tokens)
        BY <2>2
      <3> QED BY <2>2, <3>1, <1>2, <1>4 DEF Ordered, TokensAreExact
    <2> QED BY <2>1, <2>2
  <1>6. (\A j \in DOMAIN tokens : Maximal(tokens[j]))'
    <2> SUFFICES ASSUME NEW j \in 1..(Len(tokens) + 1) PROVE Maximal(tokens[j])'
      BY <1>4
    <2>1. tokens'[j] = t \/ (j \in DOMAIN tokens /\ tokens'[j] = tokens[j])
      BY <1>2, <1>3, <1>4
    <2> QED BY <2>1 DEF Maximal, Run, Char, TokensAreExact
  <1> QED BY <1>1, <1>2, <1>3, <1>4, <1>5, <1>6

-----------------------------------------------------------------------------
(* The first call of scan_token() begins where the invariant holds.        *)
THEOREM Initially == ScanInit => ScanInv
PROOF
  <1> SUFFICES ASSUME ScanInit PROVE ScanInv
    OBVIOUS
  <1> USE ScannerAssumption DEF ScanInit
  <1>1. ScannerTypeOK
    <2>1. source \in Seq(STRING) /\ depth \in 0..(DepthModulus - 1)
      OBVIOUS
    <2>2. tokens \in Seq([kind : Kinds, from : Nat, to : Nat])
      OBVIOUS
    <2> QED BY <2>1, <2>2 DEF ScannerTypeOK, Modes
  <1>2. Position
    BY <1>1 DEF Position, ScannerTypeOK
  <1>3. TokensAreExact
    BY <1>1 DEF TokensAreExact, Ordered, InBounds, ScannerTypeOK
  <1> QED BY <1>1, <1>2, <1>3 DEF ScanInv

(* Steps that return no token and start none.                              *)
LEMMA Skipping ==
  ASSUME ScanInv,
         source' = source, start' = start, tokens' = tokens, errors' = errors,
         mode \in {"skip", "line", "comment"},
         mode' \in {"skip", "line", "comment"},
         current' \in Nat, current <= current', current' <= Len(source),
         depth' \in 0..(DepthModulus - 1), opened' \in Nat
  PROVE  ScanInv'
PROOF
  <1>1. ScannerTypeOK'
    BY DEF ScanInv, ScannerTypeOK, Modes
  <1>2. Position'
    <2>1. current \in Nat /\ \A j \in DOMAIN tokens : tokens[j].to \in Nat /\ tokens[j].to <= current
      BY TokenTypes DEF ScanInv, Position
    <2>2. Len(source) \in Nat
      BY DEF ScanInv, ScannerTypeOK
    <2>3. \A j \in DOMAIN tokens' : tokens'[j].to <= current'
      BY <2>1
    <2>4. ~(current' > Len(source'))
      BY <2>2
    <2> QED BY <2>3, <2>4 DEF Position
  <1>3. TokensAreExact'
    <2>1. Ordered'
      BY DEF ScanInv, TokensAreExact, Ordered
    <2>2. (\A j \in DOMAIN tokens : Maximal(tokens[j]))'
      BY DEF ScanInv, TokensAreExact, Maximal, Run, Char
    <2>3. InBounds'
      <3>1. Len(source) \in Nat /\ Len(source') = Len(source)
        BY DEF ScanInv, ScannerTypeOK
      <3> QED BY <3>1 DEF InBounds
    <2> QED BY <2>1, <2>2, <2>3 DEF TokensAreExact
  <1> QED BY <1>1, <1>2, <1>3 DEF ScanInv

-----------------------------------------------------------------------------
(* Steps inside a number, a word or a string.                              *)
LEMMA Reading ==
  ASSUME ScanInv,
         source' = source, tokens' = tokens, errors' = errors,
         depth' = depth, opened' = opened,
         mode' \in {"number", "word", "string"},
         start' \in Nat, current' \in Nat,
         start' < current', current' <= Len(source), current <= current',
         \A j \in DOMAIN tokens : tokens[j].to <= start',
         mode' = "number" => Run(start', current', NumberChars),
         mode' = "word" => Run(start', current', WordChars) /\ Char(start') \notin Digits
  PROVE  ScanInv'
PROOF
  <1>1. ScannerTypeOK'
    BY DEF ScanInv, ScannerTypeOK, Modes
  <1>2. Position'
    <2>1. \A j \in DOMAIN tokens' : tokens'[j].to <= current'
      BY TokenTypes DEF ScanInv
    <2>2. mode' = "number" => Run(start, current, NumberChars)'
      BY DEF Run, Char
    <2>3. mode' = "word" => Run(start, current, WordChars)' /\ Char(start)' \notin Digits
      BY DEF Run, Char
    <2>4. ~(current' > Len(source'))
      BY TokenTypes DEF ScanInv
    <2> QED BY <2>1, <2>2, <2>3, <2>4 DEF Position
  <1>3. TokensAreExact'
    <2>1. Ordered'
      BY DEF ScanInv, TokensAreExact, Ordered
    <2>2. (\A j \in DOMAIN tokens : Maximal(tokens[j]))'
      BY DEF ScanInv, TokensAreExact, Maximal, Run, Char
    <2>3. InBounds'
      <3>1. Len(source) \in Nat /\ Len(source') = Len(source)
        BY TokenTypes DEF ScanInv
      <3> QED BY <3>1 DEF InBounds
    <2> QED BY <2>1, <2>2, <2>3 DEF TokensAreExact
  <1> QED BY <1>1, <1>2, <1>3 DEF ScanInv

(* Steps that return a token.                                              *)
LEMMA Returning ==
  ASSUME ScanInv,
         source' = source, errors' \in BOOLEAN,
         depth' = depth, opened' = opened,
         mode' \in {"skip", "done"},
         start' \in Nat, current' \in Nat,
         NEW t \in [kind : Kinds, from : Nat, to : Nat],
         \A j \in DOMAIN tokens : tokens[j].to <= t.from,
         t.kind /= "EOF" => t.from < t.to,
         Maximal(t),
         current <= current', t.to = current',
         tokens' = Append(tokens, t),
         current' <= Len(source) \/ (mode' = "skip" /\ t.kind = "string" /\ current' = Len(source) + 1)
  PROVE  ScanInv'
PROOF
  <1>0. /\ tokens' \in Seq([kind : Kinds, from : Nat, to : Nat])
        /\ Ordered'
        /\ (\A j \in DOMAIN tokens : Maximal(tokens[j]))'
        /\ \A j \in DOMAIN tokens' : tokens'[j] = t \/ (j \in DOMAIN tokens /\ tokens'[j] = tokens[j])
        /\ tokens' /= <<>> /\ tokens'[Len(tokens')] = t
    BY Appended DEF ScanInv
  <1>1. ScannerTypeOK'
    BY <1>0 DEF ScanInv, ScannerTypeOK, Modes
  <1>2. Position'
    <2>1. \A j \in DOMAIN tokens' : tokens'[j].to <= current'
      BY <1>0, TokenTypes DEF ScanInv, Position
    <2>2. current' > Len(source') => mode' = "skip"
      BY TokenTypes DEF ScanInv
    <2> QED BY <2>1, <2>2 DEF Position
  <1>3. InBounds'
    <2>1. Len(source) \in Nat
      BY TokenTypes DEF ScanInv
    <2>2. current' <= Len(source) + 1
      BY <2>1
    <2>3. ASSUME current' > Len(source)
          PROVE  tokens' /= <<>> /\ tokens'[Len(tokens')].kind = "string"
      <3>1. t.kind = "string"
        BY <2>1, <2>3
      <3> QED BY <1>0, <3>1
    <2>4. Len(source') = Len(source)
      OBVIOUS
    <2> QED BY <2>2, <2>3, <2>4 DEF InBounds
  <1> QED BY <1>0, <1>1, <1>2, <1>3 DEF ScanInv, TokensAreExact

-----------------------------------------------------------------------------
(* skip_whitespace() keeps the invariant.                                  *)
LEMMA SkipStep == ScanInv /\ Skip => ScanInv'
PROOF
  <1> SUFFICES ASSUME ScanInv, Skip PROVE ScanInv'
    OBVIOUS
  <1>0. /\ current \in Nat /\ Len(source) \in Nat /\ depth \in 0..(DepthModulus - 1) /\ opened \in Nat
        /\ DepthModulus \in Nat \ {0, 1}
    BY ScannerAssumption DEF ScanInv, ScannerTypeOK
  <1>1. Peek /= NUL => current < Len(source)
    BY InText, <1>0 DEF ScanInv, Peek
  <1>2. PeekNext /= NUL => current + 1 < Len(source)
    BY InText, <1>0 DEF ScanInv, PeekNext
  <1>3. mode \in {"line", "comment"} => current <= Len(source)
    BY <1>0 DEF ScanInv, Position
  <1>a. CASE SkipBlank
    <2>1. current' = current + 1 /\ current < Len(source)
      BY <1>a, <1>1 DEF SkipBlank, Move, Blank, NUL
    <2> QED BY <1>a, <1>0, <2>1, Skipping DEF SkipBlank
  <1>b. CASE OpenLine
    <2>1. current < Len(source)
      BY <1>b, <1>1 DEF OpenLine, OpensLine, NUL
    <2> QED BY <1>b, <1>0, <2>1, Skipping DEF OpenLine
  <1>c. CASE LineStep
    <2>1. current' \in Nat /\ current <= current' /\ current' <= Len(source) /\ mode' \in {"line", "skip"}
      BY <1>c, <1>0, <1>1, <1>3 DEF LineStep, Move, AtEnd
    <2> QED BY <1>c, <1>0, <2>1, Skipping DEF LineStep
  <1>d. CASE OpenComment
    <2>1. current' = current + 1 /\ current < Len(source)
      BY <1>d, <1>1 DEF OpenComment, OpensComment, Move, NUL
    <2> QED BY <1>d, <1>0, <2>1, Skipping DEF OpenComment
  <1>e. CASE CommentStep
    <2>1. current' \in Nat /\ current <= current' /\ current' <= Len(source)
      BY <1>e, <1>0, <1>1, <1>2 DEF CommentStep, OpensComment, Move, AtEnd, NUL
    <2>2. depth' \in 0..(DepthModulus - 1)
      BY <1>e, <1>0 DEF CommentStep
    <2> QED BY <1>e, <1>0, <2>1, <2>2, Skipping DEF CommentStep
  <1>f. CASE EndComment
    BY <1>f, <1>0, <1>3, Skipping DEF EndComment
  <1> QED BY <1>a, <1>b, <1>c, <1>d, <1>e, <1>f DEF Skip

(* So does the rest of scan_token().                                       *)
LEMMA ScanStep == ScanInv /\ Scan => ScanInv'
PROOF
  <1> SUFFICES ASSUME ScanInv, Scan PROVE ScanInv'
    OBVIOUS
  <1>0. current \in Nat /\ start \in Nat /\ Len(source) \in Nat /\ errors \in BOOLEAN
    BY DEF ScanInv, ScannerTypeOK
  <1>1. Peek /= NUL => current < Len(source)
    BY InText, <1>0 DEF ScanInv, Peek
  <1>2. PeekNext /= NUL => current + 1 < Len(source)
    BY InText, <1>0 DEF ScanInv, PeekNext
  <1>3. \A j \in DOMAIN tokens : tokens[j].to \in Nat /\ tokens[j].to <= current
    BY TokenTypes DEF ScanInv, Position
  <1>4. NUL \notin WordChars /\ NUL \notin NumberChars
    BY ScannerAssumption DEF WordChars, NumberChars
  <1> DEFINE Returned(kind, from, to) == [kind |-> kind, from |-> from, to |-> to]
  <1>a. CASE EndOfFile
    <2> DEFINE t == Returned("EOF", current, current)
    <2>1. t \in [kind : Kinds, from : Nat, to : Nat] /\ Maximal(t)
      BY <1>0 DEF Kinds, Maximal
    <2>2. current <= Len(source)
      BY <1>a DEF EndOfFile, Starts
    <2> QED BY <1>a, <1>0, <1>3, <2>1, <2>2, Returning DEF EndOfFile, Emit, UnchangedInToken
  <1>b. CASE StartLong
    <2>1. current < Len(source)
      BY <1>b, <1>1, <1>4, Distinct DEF StartLong, WordChars
    <2>2. start' = current /\ current' = current + 1
      BY <1>b DEF StartLong, Move
    <2>3. mode' = "number" => Peek \in Digits
      BY <1>b DEF StartLong
    <2>4. mode' = "word" => Peek \in (Letters \cup {"_"}) \ Digits
      BY <1>b DEF StartLong
    <2>5. \A i \in start'..(current' - 1) : i = current
      BY <2>2, <1>0
    <2>6. mode' = "number" => Run(start', current', NumberChars)
      BY <2>3, <2>5 DEF Run, Peek, NumberChars
    <2>7. mode' = "word" => Run(start', current', WordChars) /\ Char(start') \notin Digits
      BY <2>2, <2>4, <2>5 DEF Run, Peek, WordChars
    <2>8. mode' \in {"number", "word", "string"}
      BY <1>b DEF StartLong
    <2>9. start' \in Nat /\ current' \in Nat /\ start' < current' /\ current' <= Len(source) /\ current <= current'
      BY <2>1, <2>2, <1>0
    <2>10. \A j \in DOMAIN tokens : tokens[j].to <= start'
      BY <2>2, <1>3
    <2>11. UNCHANGED <<source, depth, opened, tokens, errors>>
      BY <1>b DEF StartLong, UnchangedInToken
    <2> QED BY <2>6, <2>7, <2>8, <2>9, <2>10, <2>11, Reading
  <1>c. CASE Symbol
    <2> DEFINE t == Returned("symbol", current, current + SymbolLength)
    <2>1. current < Len(source)
      BY <1>c, <1>1 DEF Symbol, Single, Double, NUL
    <2>2. SymbolLength \in {1, 2} /\ current + SymbolLength <= Len(source)
      BY <2>1, <1>0, <1>2 DEF SymbolLength, Second, Double, NUL
    <2>3. t \in [kind : Kinds, from : Nat, to : Nat] /\ Maximal(t)
      BY <1>0, <2>2 DEF Kinds, Maximal
    <2>4. mode' = "skip" /\ current' = current + SymbolLength
      BY <1>c DEF Symbol, Starts, Move
    <2> QED BY <1>c, <1>0, <1>3, <2>2, <2>3, <2>4, Returning DEF Symbol, Emit, UnchangedInToken
  <1>d. CASE Unknown
    <2> DEFINE t == Returned("garbage", current, current + 1)
    <2>1. current < Len(source)
      BY <1>d, <1>1 DEF Unknown, AtEnd
    <2>2. t \in [kind : Kinds, from : Nat, to : Nat] /\ Maximal(t)
      BY <1>0 DEF Kinds, Maximal
    <2>3. mode' = "skip" /\ current' = current + 1
      BY <1>d DEF Unknown, Starts, Move
    <2>4. /\ UNCHANGED <<source, depth, opened>>
          /\ errors' \in BOOLEAN /\ start' = current /\ tokens' = Append(tokens, t)
      BY <1>d DEF Unknown, Emit, UnchangedInToken
    <2> QED BY <1>0, <1>3, <2>1, <2>2, <2>3, <2>4, Returning
  <1>e. CASE NumberStep
    <2>1. start < current /\ current <= Len(source) /\ Run(start, current, NumberChars)
          /\ \A j \in DOMAIN tokens : tokens[j].to <= start
      BY <1>e DEF NumberStep, ScanInv, Position
    <2>2. CASE ~AtEnd /\ Peek \in NumberChars
      <3>1. current < Len(source) /\ current' = current + 1 /\ start' = start /\ mode' = "number"
        BY <1>e, <2>2, <1>1 DEF NumberStep, AtEnd, Move
      <3>2. Run(start', current', NumberChars)
        BY <1>0, <2>1, <2>2, <3>1 DEF Run, Peek
      <3> QED BY <1>e, <2>2, <1>0, <2>1, <3>1, <3>2, Reading DEF NumberStep, UnchangedInToken
    <2>3. CASE ~(~AtEnd /\ Peek \in NumberChars)
      <3> DEFINE t == Returned("number", start, current)
      <3>1. Char(current) \notin NumberChars
        BY <2>3, <1>4 DEF AtEnd, Peek
      <3>2. t \in [kind : Kinds, from : Nat, to : Nat] /\ Maximal(t)
        BY <1>0, <2>1, <3>1 DEF Kinds, Maximal
      <3> QED BY <1>e, <2>3, <1>0, <2>1, <3>2, Returning DEF NumberStep, Emit, UnchangedInToken
    <2> QED BY <2>2, <2>3
  <1>f. CASE WordStep
    <2>1. start < current /\ current <= Len(source) /\ Run(start, current, WordChars)
          /\ Char(start) \notin Digits /\ \A j \in DOMAIN tokens : tokens[j].to <= start
      BY <1>f DEF WordStep, ScanInv, Position
    <2>2. CASE ~AtEnd /\ Peek \in WordChars
      <3>1. current < Len(source) /\ current' = current + 1 /\ start' = start /\ mode' = "word"
        BY <1>f, <2>2, <1>1 DEF WordStep, AtEnd, Move
      <3>2. Run(start', current', WordChars)
        BY <1>0, <2>1, <2>2, <3>1 DEF Run, Peek
      <3> QED BY <1>f, <2>2, <1>0, <2>1, <3>1, <3>2, Reading DEF WordStep, UnchangedInToken
    <2>3. CASE ~(~AtEnd /\ Peek \in WordChars)
      <3>1. Char(current) \notin WordChars
        BY <2>3, <1>4 DEF AtEnd, Peek
      <3>2. PICK kind \in WordKinds(Lexeme) : Emit(kind, start, current)
        BY <1>f, <2>3 DEF WordStep
      <3> DEFINE t == Returned(kind, start, current)
      <3>3. kind \in Kinds
        BY <3>2 DEF WordKinds, Kinds
      <3>4. t \in [kind : Kinds, from : Nat, to : Nat] /\ Maximal(t)
        BY <1>0, <2>1, <3>1, <3>3 DEF Maximal
      <3> QED BY <1>f, <2>3, <1>0, <2>1, <3>2, <3>4, Returning DEF WordStep, Emit, UnchangedInToken
    <2> QED BY <2>2, <2>3
  <1>g. CASE StringStep
    <2>1. start < current /\ current <= Len(source) /\ \A j \in DOMAIN tokens : tokens[j].to <= start
      BY <1>g DEF StringStep, ScanInv, Position
    <2>2. CASE ~AtEnd /\ Peek /= Quote
      <3>1. current < Len(source)
        BY <2>2, <1>1 DEF AtEnd
      <3>2. Escaped => current + 1 < Len(source)
        BY <1>2, Distinct DEF Escaped
      <3>3. current' = current + (IF Escaped THEN 2 ELSE 1) /\ start' = start /\ mode' = "string"
        BY <1>g, <2>2 DEF StringStep, Move
      <3>4. current' \in Nat /\ current < current' /\ current' <= Len(source)
        BY <1>0, <3>1, <3>2, <3>3
      <3>5. UNCHANGED <<source, depth, opened, tokens, errors>>
        BY <1>g, <2>2 DEF StringStep, UnchangedInToken
      <3>6. start' \in Nat /\ start' < current' /\ current <= current'
        BY <1>0, <2>1, <3>3, <3>4
      <3>7. \A j \in DOMAIN tokens : tokens[j].to <= start'
        BY <2>1, <3>3
      <3> QED BY <3>3, <3>4, <3>5, <3>6, <3>7, Reading
    <2>3. CASE ~(~AtEnd /\ Peek /= Quote)
      <3> DEFINE t == Returned("string", start, current + 1)
      <3>1. t \in [kind : Kinds, from : Nat, to : Nat] /\ Maximal(t)
        BY <1>0 DEF Kinds, Maximal
      <3>2. current' = current + 1 /\ mode' = "skip"
        BY <1>g, <2>3 DEF StringStep, Move
      <3>3. current' <= Len(source) \/ current' = Len(source) + 1
        BY <3>2, <1>0, <2>1
      <3>4. /\ UNCHANGED <<source, depth, opened, errors, start>>
            /\ tokens' = Append(tokens, t)
        BY <1>g, <2>3 DEF StringStep, Emit, UnchangedInToken
      <3>5. current' \in Nat /\ start < current + 1 /\ current <= current'
        BY <1>0, <2>1, <3>2
      <3> QED BY <1>0, <2>1, <3>1, <3>2, <3>3, <3>4, <3>5, Returning
    <2> QED BY <2>2, <2>3
  <1>h. CASE ReadOutside
    <2>1. ScannerTypeOK'
      BY <1>h DEF ReadOutside, ScanInv, ScannerTypeOK, Modes
    <2>2. Position'
      BY <1>h, <1>3 DEF ReadOutside, Position
    <2>3. Ordered' /\ InBounds'
      BY <1>h DEF ReadOutside, ScanInv, TokensAreExact, Ordered, InBounds
    <2>4. (\A j \in DOMAIN tokens : Maximal(tokens[j]))'
      BY <1>h DEF ReadOutside, ScanInv, TokensAreExact, Maximal, Run, Char
    <2> QED BY <2>1, <2>2, <2>3, <2>4 DEF ScanInv, TokensAreExact
  <1> QED BY <1>a, <1>b, <1>c, <1>d, <1>e, <1>f, <1>g, <1>h DEF Scan

(* Every step of the scanner keeps the invariant.                          *)
THEOREM Preserved == ScanInv /\ [ScanNext]_scanVars => ScanInv'
PROOF
  <1> SUFFICES ASSUME ScanInv, [ScanNext]_scanVars PROVE ScanInv'
    OBVIOUS
  <1>1. CASE ScanNext
    BY <1>1, SkipStep, ScanStep DEF ScanNext
  <1>2. CASE UNCHANGED scanVars
    <2>1. ScannerTypeOK' /\ Position'
      BY <1>2 DEF scanVars, ScanInv, ScannerTypeOK, Position, Run, Char
    <2>2. Ordered' /\ InBounds'
      BY <1>2 DEF scanVars, ScanInv, TokensAreExact, Ordered, InBounds
    <2>3. (\A j \in DOMAIN tokens : Maximal(tokens[j]))'
      BY <1>2 DEF scanVars, ScanInv, TokensAreExact, Maximal, Run, Char
    <2> QED BY <2>1, <2>2, <2>3 DEF ScanInv, TokensAreExact
  <1> QED BY <1>1, <1>2

-----------------------------------------------------------------------------
(* Whatever the files, the alphabet and the keywords: tokens do not        *)
(* overlap, words and numbers are as long as they can be, and the scanner  *)
(* only leaves the text behind a string that is not closed.                *)
THEOREM TokensCorrect == ScanSpec => [](ScannerTypeOK /\ TokensAreExact)
PROOF
  <1>1. ScanInv => ScannerTypeOK /\ TokensAreExact
    BY DEF ScanInv
  <1> QED BY <1>1, Initially, Preserved, PTL DEF ScanSpec

-----------------------------------------------------------------------------
(* Strings.  The loop never stands on a quote behind a backslash: it has   *)
(* jumped over both.  So the quote it stops at is the first one without a  *)
(* backslash before it.                                                    *)
Bare(i) == Char(i) = Quote /\ Char(i - 1) /= Backslash

InString ==
  mode = "string" =>
    /\ Char(start) = Quote
    /\ \A i \in (start + 1)..(current - 1) : ~Bare(i)
    /\ Char(current - 1) = Backslash => Char(current) /= Quote

EndsBare(t) ==
  /\ t.from + 1 < t.to
  /\ \A i \in (t.from + 1)..(t.to - 2) : ~Bare(i)
  /\ Bare(t.to - 1) \/ Char(t.to - 1) = NUL

StringsEndBare ==
  \A j \in DOMAIN tokens : tokens[j].kind = "string" /\ Char(tokens[j].from) = Quote => EndsBare(tokens[j])

(* Where no backslash follows another, the quotes without one before them  *)
(* are the ones that are not escaped.                                      *)
LEMMA BareIsUnescaped ==
  ASSUME NEW from \in Nat, NEW to \in Nat, Char(from) = Quote,
         \A i \in (from + 1)..to : ~(Char(i) = Backslash /\ Char(i + 1) = Backslash),
         NEW i \in (from + 1)..to
  PROVE  Bare(i) <=> ClosesString(i)
PROOF
  <1>1. ASSUME IsEscaped(i) PROVE Char(i - 1) = Backslash
    <2>1. PICK n \in 1..i : Run(i - n, i, {Backslash})
      BY <1>1 DEF IsEscaped
    <2>2. i - 1 \in (i - n)..(i - 1)
      OBVIOUS
    <2> QED BY <2>1, <2>2 DEF Run
  <1>2. ASSUME Char(i - 1) = Backslash PROVE IsEscaped(i)
    <2>1. 1 \in 1..i /\ 1 % 2 = 1
      OBVIOUS
    <2>2. \A k \in (i - 1)..(i - 1) : k = i - 1
      OBVIOUS
    <2>3. Run(i - 1, i, {Backslash})
      BY <1>2, <2>2 DEF Run
    <2>4. Char(i - 1 - 1) /= Backslash
      <3>1. CASE i = from + 1
        <4>1. i - 1 = from
          BY <3>1
        <4> QED BY <4>1, <1>2, Distinct
      <3>2. CASE i = from + 2
        <4>1. i - 1 - 1 = from
          BY <3>2
        <4> QED BY <4>1, Distinct
      <3>3. CASE i > from + 2
        <4>1. i - 1 - 1 \in (from + 1)..to /\ (i - 1 - 1) + 1 = i - 1
          BY <3>3
        <4> QED BY <4>1, <1>2, Distinct
      <3> QED BY <3>1, <3>2, <3>3
    <2> QED BY <2>1, <2>3, <2>4 DEF IsEscaped
  <1> QED BY <1>1, <1>2 DEF Bare, ClosesString

(* So the tokens that end with a bare quote are the strings of the text.   *)
LEMMA BareStrings == ScannerTypeOK /\ TokensAreExact /\ StringsEndBare => StringsClose
PROOF
  <1> SUFFICES ASSUME ScannerTypeOK, TokensAreExact, StringsEndBare,
                      NEW j \in DOMAIN tokens, NEW from, NEW to,
                      from = tokens[j].from, to = tokens[j].to,
                      tokens[j].kind = "string", Char(from) = Quote,
                      \A i \in (from + 1)..to : ~(Char(i) = Backslash /\ Char(i + 1) = Backslash)
               PROVE  StringBetween(from, to)
    BY DEF StringsClose
  <1>1. from \in Nat /\ to \in Nat /\ from < to
    BY TokenTypes DEF TokensAreExact, Ordered
  <1>2. /\ from + 1 < to
        /\ \A i \in (from + 1)..(to - 2) : ~Bare(i)
        /\ Bare(to - 1) \/ Char(to - 1) = NUL
    BY DEF StringsEndBare, EndsBare
  <1>3. \A i \in (from + 1)..to : Bare(i) <=> ClosesString(i)
    BY <1>1, BareIsUnescaped
  <1>4. \A i \in (from + 1)..(to - 2) : i \in (from + 1)..to
    BY <1>1
  <1>5. to - 1 \in (from + 1)..to
    BY <1>1, <1>2
  <1> QED BY <1>2, <1>3, <1>4, <1>5 DEF StringBetween

(* The text stays the same.                                                *)
LEMMA BareSame ==
  ASSUME source' = source, NEW i
  PROVE  Char(i)' = Char(i) /\ Bare(i)' = Bare(i)
PROOF
  <1>1. Char(i)' = Char(i) /\ Char(i - 1)' = Char(i - 1)
    BY DEF Char
  <1> QED BY <1>1 DEF Bare

LEMMA EndsBareSame ==
  ASSUME source' = source, NEW t, EndsBare(t)
  PROVE  EndsBare(t)'
PROOF
  <1>1. \A i : Char(i)' = Char(i) /\ Bare(i)' = Bare(i)
    BY BareSame
  <1>2. (Bare(t.to - 1) \/ Char(t.to - 1) = NUL)'
    BY <1>1 DEF EndsBare
  <1>3. \A i \in (t.from + 1)..(t.to - 2) : ~Bare(i)'
    BY <1>1 DEF EndsBare
  <1> QED BY <1>2, <1>3 DEF EndsBare

(* What has to hold behind a step inside a string.                         *)
LEMMA InStringNext ==
  ASSUME source' = source, NEW s \in Nat, NEW c \in Nat,
         start' = s, current' = c, Char(s) = Quote,
         \A i \in (s + 1)..(c - 1) : ~Bare(i),
         Char(c - 1) = Backslash => Char(c) /= Quote
  PROVE  InString'
PROOF
  <1>1. \A i : Char(i)' = Char(i) /\ Bare(i)' = Bare(i)
    BY BareSame
  <1>2. Char(start)' = Char(s) /\ Char(current)' = Char(c) /\ Char(current - 1)' = Char(c - 1)
    BY DEF Char
  <1>3. \A i \in (s + 1)..(c - 1) : ~Bare(i)'
    BY <1>1
  <1> QED BY <1>2, <1>3 DEF InString

(* A token that is no string, or that ends bare, keeps all strings bare.   *)
LEMMA BareAppended ==
  ASSUME ScannerTypeOK, StringsEndBare, source' = source,
         NEW t, tokens' = Append(tokens, t),
         t.kind = "string" /\ Char(t.from) = Quote => EndsBare(t)
  PROVE  StringsEndBare'
PROOF
  <1>1. tokens \in Seq([kind : Kinds, from : Nat, to : Nat])
    BY DEF ScannerTypeOK
  <1>2. DOMAIN tokens' = 1..(Len(tokens) + 1) /\ DOMAIN tokens = 1..Len(tokens) /\ Len(tokens) \in Nat
    BY <1>1
  <1>3. \A j \in 1..Len(tokens) : tokens'[j] = tokens[j]
    BY <1>1
  <1>4. tokens'[Len(tokens) + 1] = t
    BY <1>1
  <1>5. ASSUME NEW j \in 1..(Len(tokens) + 1), NEW u, u = tokens'[j],
               u.kind = "string", Char(u.from) = Quote
        PROVE  EndsBare(u)'
    <2>1. CASE j = Len(tokens) + 1
      BY <2>1, <1>4, <1>5, EndsBareSame
    <2>2. CASE j \in 1..Len(tokens)
      <3>1. EndsBare(u)
        BY <2>2, <1>2, <1>3, <1>5 DEF StringsEndBare
      <3> QED BY <3>1, EndsBareSame
    <2> QED BY <2>1, <2>2
  <1>6. ASSUME NEW j \in 1..(Len(tokens) + 1), (tokens[j].kind = "string" /\ Char(tokens[j].from) = Quote)'
        PROVE  EndsBare(tokens[j])'
    <2>1. PICK u : u = tokens'[j]
      OBVIOUS
    <2>2. u.kind = "string" /\ Char(u.from) = Quote
      BY <1>6, <2>1 DEF Char
    <2>3. EndsBare(u)'
      BY <1>5, <2>1, <2>2
    <2> QED BY <2>1, <2>3 DEF EndsBare, Bare, Char
  <1> QED BY <1>2, <1>6 DEF StringsEndBare

(* Every step keeps the strings bare.                                      *)
LEMMA StringsStep ==
  ASSUME ScanInv, InString, StringsEndBare, ScanNext
  PROVE  InString' /\ StringsEndBare'
PROOF
  <1>0. /\ current \in Nat /\ start \in Nat /\ Len(source) \in Nat /\ Len(tokens) \in Nat
    BY TokenTypes DEF ScanInv
  <1>a. CASE Skip \/ ReadOutside
    <2>1. UNCHANGED <<source, tokens>> /\ mode' /= "string"
      BY <1>a DEF Skip, SkipBlank, OpenLine, LineStep, OpenComment, CommentStep, EndComment, ReadOutside
    <2> QED BY <2>1 DEF InString, StringsEndBare, EndsBare, Bare, Char
  <1>b. CASE StartLong
    <2>1. UNCHANGED <<source, tokens>> /\ start' = current /\ current' = current + 1
      BY <1>b DEF StartLong, UnchangedInToken, Move
    <2>2. mode' = "string" => Peek = Quote
      BY <1>b DEF StartLong
    <2>3. \A i \in (start' + 1)..(current' - 1) : FALSE
      BY <2>1, <1>0
    <2>4. current' - 1 = start'
      BY <2>1, <1>0
    <2>5. ASSUME mode' = "string" PROVE InString'
      BY <1>0, <2>1, <2>2, <2>3, <2>4, <2>5, Distinct, InStringNext DEF Peek
    <2>6. ASSUME mode' /= "string" PROVE InString'
      BY <2>6 DEF InString
    <2> QED BY <2>1, <2>5, <2>6 DEF StringsEndBare, EndsBare, Bare, Char
  <1>c. CASE EndOfFile \/ Symbol \/ Unknown
    <2>1. source' = source /\ mode' /= "string"
      BY <1>c DEF EndOfFile, Symbol, Unknown, UnchangedInToken, Starts
    <2>2. PICK t : tokens' = Append(tokens, t) /\ t.kind /= "string"
      BY <1>c DEF EndOfFile, Symbol, Unknown, Emit
    <2> QED BY <2>1, <2>2, BareAppended DEF InString, ScanInv
  <1>d. CASE NumberStep \/ WordStep
    <2>1. source' = source /\ mode' /= "string"
      BY <1>d DEF NumberStep, WordStep, UnchangedInToken
    <2>2. CASE tokens' = tokens
      BY <2>1, <2>2 DEF InString, StringsEndBare, EndsBare, Bare, Char
    <2>3. CASE tokens' /= tokens
      <3>1. PICK kind : /\ tokens' = Append(tokens, [kind |-> kind, from |-> start, to |-> current])
                        /\ NumberStep => kind = "number"
        BY <1>d, <2>3 DEF NumberStep, WordStep, Emit
      <3> DEFINE t == [kind |-> kind, from |-> start, to |-> current]
      <3>2. WordStep => Char(start) \in WordChars
        BY <1>0 DEF WordStep, ScanInv, Position, Run
      <3>3. Quote \notin WordChars
        BY ScannerAssumption
      <3>4. ~(t.kind = "string" /\ Char(t.from) = Quote)
        BY <1>d, <3>1, <3>2, <3>3
      <3> QED BY <2>1, <3>1, <3>4, BareAppended DEF InString, ScanInv
    <2> QED BY <2>2, <2>3
  <1>e. CASE StringStep
    <2>1. source' = source /\ start' = start /\ start < current
      BY <1>e DEF StringStep, UnchangedInToken, ScanInv, Position
    <2>2. /\ Char(start) = Quote
          /\ \A i \in (start + 1)..(current - 1) : ~Bare(i)
          /\ Char(current - 1) = Backslash => Char(current) /= Quote
      BY <1>e DEF StringStep, InString
    <2>3. CASE ~AtEnd /\ Peek /= Quote
      <3>1. tokens' = tokens /\ mode' = "string" /\ current' = current + (IF Escaped THEN 2 ELSE 1)
        BY <1>e, <2>3 DEF StringStep, Move
      <3>2. ~Bare(current)
        BY <2>3 DEF Bare, Peek
      <3>3. CASE Escaped
        <4>1. Char(current) = Backslash /\ Char(current + 1) = Quote /\ current' = current + 2
          BY <3>1, <3>3 DEF Escaped, Peek, PeekNext
        <4>2. ~Bare(current + 1)
          BY <4>1, <1>0 DEF Bare
        <4>3. \A i \in (start + 1)..(current + 1) : i \in (start + 1)..(current - 1) \/ i = current \/ i = current + 1
          BY <1>0
        <4>4. \A i \in (start + 1)..(current + 1) : ~Bare(i)
          BY <2>2, <3>2, <4>2, <4>3
        <4>5. current' - 1 = current + 1
          BY <4>1, <1>0
        <4>6. InString'
          BY <1>0, <2>1, <2>2, <4>1, <4>4, <4>5, Distinct, InStringNext
        <4> QED BY <4>6, <2>1, <3>1 DEF StringsEndBare, EndsBare, Bare, Char
      <3>4. CASE ~Escaped
        <4>1. (Char(current) = Backslash => Char(current + 1) /= Quote) /\ current' = current + 1
          BY <3>1, <3>4 DEF Escaped, Peek, PeekNext
        <4>2. \A i \in (start + 1)..current : i \in (start + 1)..(current - 1) \/ i = current
          BY <1>0
        <4>3. \A i \in (start + 1)..current : ~Bare(i)
          BY <2>2, <3>2, <4>2
        <4>4. current' - 1 = current
          BY <4>1, <1>0
        <4>5. InString'
          BY <1>0, <2>1, <2>2, <4>1, <4>3, <4>4, Distinct, InStringNext
        <4> QED BY <4>5, <2>1, <3>1 DEF StringsEndBare, EndsBare, Bare, Char
      <3> QED BY <3>3, <3>4
    <2>4. CASE ~(~AtEnd /\ Peek /= Quote)
      <3> DEFINE t == [kind |-> "string", from |-> start, to |-> current + 1]
      <3>1. tokens' = Append(tokens, t) /\ mode' = "skip"
        BY <1>e, <2>4 DEF StringStep, Emit
      <3>2. t.from = start /\ t.to = current + 1 /\ t.to - 2 = current - 1 /\ t.to - 1 = current /\ t.from + 1 < t.to
        BY <1>0, <2>1
      <3>3. Char(current) = Quote \/ Char(current) = NUL
        BY <2>4 DEF AtEnd, Peek
      <3>4. Bare(current) \/ Char(current) = NUL
        BY <3>3, <2>2 DEF Bare
      <3>5. EndsBare(t)
        BY <3>2, <3>4, <2>2 DEF EndsBare
      <3> HIDE DEF t
      <3>6. StringsEndBare'
        BY <2>1, <3>1, <3>5, BareAppended DEF ScanInv
      <3> QED BY <3>1, <3>6 DEF InString
    <2> QED BY <2>3, <2>4
  <1> QED BY <1>a, <1>b, <1>c, <1>d, <1>e DEF ScanNext, Scan

-----------------------------------------------------------------------------
(* A set of numbers that is not empty has a least one.                     *)
LEMMA LeastNat ==
  ASSUME NEW S \in SUBSET Nat, S /= {}
  PROVE  \E s \in S : \A r \in S : s <= r
PROOF
  <1>1. PICK R : R = OpToRel(<, Nat)
    OBVIOUS
  <1>2. PICK x \in S : \A y \in S : ~(<<y, x>> \in R)
    BY <1>1, NatLessThanWellFounded, WFMin
  <1>3. ASSUME NEW y \in S PROVE x <= y
    <2>1. <<y, x>> \notin {ss \in Nat \X Nat : ss[1] < ss[2]}
      BY <1>1, <1>2 DEF OpToRel
    <2> QED BY <2>1
  <1> QED BY <1>3

(* Comments.  Where two marks overlap the loop takes the one that counts:  *)
(* it never stands inside a mark.                                          *)
LEMMA MarkTypes ==
  ASSUME ScannerTypeOK
  PROVE  Within \in Nat /\ \A i \in Int : Mark(i) => i >= Within /\ Pair(i)
PROOF
  <1>1. Within \in Nat
    BY DEF Within, ScannerTypeOK
  <1>2. ASSUME NEW i \in Int, Mark(i) PROVE i >= Within /\ Pair(i)
    <2>1. PICK s \in Within..i : \A k \in s..i : Pair(k)
      BY <1>2 DEF Mark
    <2>2. i \in s..i
      BY <1>1, <2>1
    <2> QED BY <1>1, <2>1, <2>2
  <1> QED BY <1>1, <1>2

(* A pair that does not begin inside a mark is a mark.                     *)
LEMMA PairMarks ==
  ASSUME ScannerTypeOK, NEW i \in Nat, i >= Within, Pair(i), ~Mark(i - 1)
  PROVE  Mark(i)
PROOF
  <1>0. Within \in Nat
    BY MarkTypes
  <1>1. CASE i = Within \/ ~Pair(i - 1)
    <2>1. \A k \in i..i : k = i
      OBVIOUS
    <2>2. (i - i) % 2 = 0 /\ i \in Within..i
      BY <1>0
    <2> QED BY <1>1, <2>1, <2>2 DEF Mark
  <1>2. CASE i > Within /\ Pair(i - 1)
    <2> DEFINE S == {s \in Nat : s >= Within /\ s < i /\ \A k \in s..(i - 1) : Pair(k)}
    <2>1. i - 1 \in S
      <3>1. \A k \in (i - 1)..(i - 1) : k = i - 1
        OBVIOUS
      <3> QED BY <1>0, <1>2, <3>1
    <2>2. PICK s \in S : \A r \in S : s <= r
      BY <2>1, LeastNat
    <2>3. s \in Nat /\ s >= Within /\ s < i /\ \A k \in s..(i - 1) : Pair(k)
      BY <2>2
    <2>4. s = Within \/ ~Pair(s - 1)
      <3> SUFFICES ASSUME s > Within, Pair(s - 1) PROVE FALSE
        BY <1>0, <2>3
      <3>1. \A k \in (s - 1)..(i - 1) : k = s - 1 \/ k \in s..(i - 1)
        BY <2>3
      <3>2. s - 1 \in S
        BY <1>0, <2>3, <3>1
      <3> QED BY <2>2, <2>3, <3>2
    <2>5. ~((i - 1 - s) % 2 = 0)
      <3>1. s \in Within..(i - 1)
        BY <1>0, <2>3
      <3> QED BY <2>3, <2>4, <3>1 DEF Mark
    <2>6. (i - s) % 2 = 0
      BY <2>3, <2>5
    <2>7. \A k \in s..i : Pair(k)
      <3>1. \A k \in s..i : k = i \/ k \in s..(i - 1)
        BY <2>3
      <3> QED BY <2>3, <3>1
    <2>8. s \in Within..i
      BY <1>0, <2>3
    <2> QED BY <2>4, <2>6, <2>7, <2>8 DEF Mark
  <1> QED BY <1>0, <1>1, <1>2

(* Marks do not overlap.                                                   *)
LEMMA MarksApart ==
  ASSUME ScannerTypeOK, NEW i \in Nat, Mark(i)
  PROVE  ~Mark(i + 1)
PROOF
  <1>0. Within \in Nat
    BY MarkTypes
  <1> SUFFICES ASSUME Mark(i + 1) PROVE FALSE
    OBVIOUS
  <1>1. PICK s \in Within..i :
          (i - s) % 2 = 0 /\ (\A k \in s..i : Pair(k)) /\ (s = Within \/ ~Pair(s - 1))
    BY DEF Mark
  <1>2. PICK r \in Within..(i + 1) :
          (i + 1 - r) % 2 = 0 /\ (\A k \in r..(i + 1) : Pair(k)) /\ (r = Within \/ ~Pair(r - 1))
    BY DEF Mark
  <1>3. s \in Nat /\ r \in Nat
    BY <1>0
  <1>4. CASE s = r
    BY <1>1, <1>2, <1>3, <1>4
  <1>5. CASE s < r
    <2>1. r - 1 \in s..i /\ r /= Within
      BY <1>0, <1>3, <1>5
    <2> QED BY <1>1, <1>2, <2>1
  <1>6. CASE r < s
    <2>1. s - 1 \in r..(i + 1) /\ s /= Within
      BY <1>0, <1>3, <1>6
    <2> QED BY <1>1, <1>2, <2>1
  <1> QED BY <1>3, <1>4, <1>5, <1>6

(* The number of members of a set of positions grows by one at most.       *)
LEMMA OneMore ==
  ASSUME NEW S, NEW a \in Nat, NEW i \in Nat, a <= i
  PROVE  /\ Cardinality(S \cap (a..(i - 1))) \in Nat
         /\ i \in S => Cardinality(S \cap (a..i)) = Cardinality(S \cap (a..(i - 1))) + 1
         /\ i \notin S => Cardinality(S \cap (a..i)) = Cardinality(S \cap (a..(i - 1)))
PROOF
  <1>1. IsFiniteSet(a..(i - 1))
    BY FS_Interval
  <1>2. IsFiniteSet(S \cap (a..(i - 1)))
    BY <1>1, FS_Subset
  <1>3. Cardinality(S \cap (a..(i - 1))) \in Nat
    BY <1>2, FS_CardinalityType
  <1>4. ASSUME i \in S PROVE Cardinality(S \cap (a..i)) = Cardinality(S \cap (a..(i - 1))) + 1
    <2>1. S \cap (a..i) = (S \cap (a..(i - 1))) \cup {i}
      BY <1>4
    <2>2. i \notin S \cap (a..(i - 1))
      OBVIOUS
    <2> QED BY <1>2, <2>1, <2>2, FS_AddElement
  <1>5. ASSUME i \notin S PROVE Cardinality(S \cap (a..i)) = Cardinality(S \cap (a..(i - 1)))
    <2>1. S \cap (a..i) = S \cap (a..(i - 1))
      BY <1>5
    <2> QED BY <2>1
  <1> QED BY <1>3, <1>4, <1>5

(* How the level changes from one position to the next.                    *)
LEMMA LevelSteps ==
  ASSUME ScannerTypeOK, NEW i \in Nat, i >= Within
  PROVE  /\ CommentLevel(i) \in Int
         /\ Deepens(i) => CommentLevel(i + 1) = CommentLevel(i) + 1
         /\ EndsLevel(i) => CommentLevel(i + 1) = CommentLevel(i) - 1
         /\ ~Mark(i) => CommentLevel(i + 1) = CommentLevel(i)
PROOF
  <1>0. Within \in Nat
    BY MarkTypes
  <1>1. PICK D, C : D = {k \in Nat : Deepens(k)} /\ C = {k \in Nat : EndsLevel(k)}
    OBVIOUS
  <1>2. ASSUME NEW j \in {i, i + 1}
        PROVE  CommentLevel(j) = 1 + Cardinality(D \cap (Within..(j - 1))) - Cardinality(C \cap (Within..(j - 1)))
    <2>1. {k \in Within..(j - 1) : Deepens(k)} = D \cap (Within..(j - 1))
      BY <1>0, <1>1
    <2>2. {k \in Within..(j - 1) : EndsLevel(k)} = C \cap (Within..(j - 1))
      BY <1>0, <1>1
    <2> QED BY <2>1, <2>2 DEF CommentLevel
  <1>3. PICK d \in Nat, c \in Nat :
          d = Cardinality(D \cap (Within..(i - 1))) /\ c = Cardinality(C \cap (Within..(i - 1)))
    BY <1>0, OneMore
  <1>4. (i + 1) - 1 = i
    OBVIOUS
  <1>5. PICK e, f : e = Cardinality(D \cap (Within..i)) /\ f = Cardinality(C \cap (Within..i))
    OBVIOUS
  <1>w. PICK w \in Nat : w = Within /\ w <= i
    BY <1>0
  <1>6. (i \in D => e = d + 1) /\ (i \notin D => e = d)
    <2>1. /\ i \in D => Cardinality(D \cap (w..i)) = Cardinality(D \cap (w..(i - 1))) + 1
          /\ i \notin D => Cardinality(D \cap (w..i)) = Cardinality(D \cap (w..(i - 1)))
      BY <1>w, OneMore
    <2> QED BY <1>w, <1>3, <1>5, <2>1
  <1>7. (i \in C => f = c + 1) /\ (i \notin C => f = c)
    <2>1. /\ i \in C => Cardinality(C \cap (w..i)) = Cardinality(C \cap (w..(i - 1))) + 1
          /\ i \notin C => Cardinality(C \cap (w..i)) = Cardinality(C \cap (w..(i - 1)))
      BY <1>w, OneMore
    <2> QED BY <1>w, <1>3, <1>5, <2>1
  <1>8. CommentLevel(i) = 1 + d - c
    BY <1>2, <1>3
  <1>9. CommentLevel(i + 1) = 1 + e - f
    BY <1>2, <1>4, <1>5
  <1>10. (i \in D <=> Deepens(i)) /\ (i \in C <=> EndsLevel(i))
    BY <1>1
  <1>11. (Deepens(i) => ~EndsLevel(i)) /\ (~Mark(i) => ~Deepens(i) /\ ~EndsLevel(i))
    BY DEF Deepens, EndsLevel
  <1> QED BY <1>6, <1>7, <1>8, <1>9, <1>10, <1>11

(* A comment starts at level one.                                          *)
LEMMA LevelStarts == ScannerTypeOK => CommentLevel(Within) = 1 /\ ~Mark(Within - 1)
PROOF
  <1> SUFFICES ASSUME ScannerTypeOK PROVE CommentLevel(Within) = 1 /\ ~Mark(Within - 1)
    OBVIOUS
  <1>0. Within \in Nat
    BY MarkTypes
  <1>1. {k \in Within..(Within - 1) : Deepens(k)} = {} /\ {k \in Within..(Within - 1) : EndsLevel(k)} = {}
    BY <1>0
  <1>2. Cardinality({}) = 0
    BY FS_EmptySet
  <1>3. ~Mark(Within - 1)
    BY <1>0 DEF Mark
  <1> QED BY <1>1, <1>2, <1>3 DEF CommentLevel

-----------------------------------------------------------------------------
(* What the loop knows of the comment: where the marks are, how many of    *)
(* them are open, and that the comment was not over before, unless its     *)
(* own "/*" was taken for half of a "*/" or its depth has overflowed.      *)
TrackedAt(c, d) ==
  /\ c >= Within
  /\ ~Mark(c - 1)
  /\ d = CommentLevel(c)
  /\ \A i \in Within..(c - 3) : ~ClosesComment(i)
  /\ d > 0 => \A i \in Within..(c - 1) : ~ClosesComment(i)
  /\ d = 0 => ClosesComment(c - 2)

OverflowsBy(c) == \E i \in Within..c : CommentLevel(i) >= DepthModulus

InComment ==
  mode = "comment" =>
    /\ Char(opened + 1) = "*"
    /\ \/ current = opened + 1 /\ depth = 1
       \/ TrackedAt(current, depth)
       \/ OverflowsBy(current)
       \/ Char(Within) = "/"

LEMMA CommentsInvariant == InComment => CommentsNest
PROOF
  <1> SUFFICES ASSUME InComment, mode = "comment", AtEnd \/ depth = 0,
                      ~OverflowsBy(current), Char(Within) /= "/"
               PROVE  CommentUpTo(current)
    BY DEF CommentsNest, OverflowsBy
  <1>1. NUL /= "*"
    BY DEF NUL
  <1>2. TrackedAt(current, depth)
    BY <1>1 DEF InComment, AtEnd, Peek
  <1>3. CASE depth = 0
    BY <1>2, <1>3 DEF TrackedAt, CommentUpTo
  <1>4. CASE AtEnd
    BY <1>2, <1>4 DEF TrackedAt, CommentUpTo, AtEnd, Peek
  <1> QED BY <1>3, <1>4

(* The text and the beginning of the comment stay the same.                *)
LEMMA CommentSame ==
  ASSUME source' = source, opened' = opened, NEW i
  PROVE  /\ Char(i)' = Char(i) /\ Mark(i)' = Mark(i)
         /\ CommentLevel(i)' = CommentLevel(i) /\ ClosesComment(i)' = ClosesComment(i)
PROOF
  <1>1. \A k : Char(k)' = Char(k) /\ Pair(k)' = Pair(k)
    BY DEF Char, Pair
  <1>2. Within' = Within
    BY DEF Within
  <1>3. \A k : Mark(k)' = Mark(k)
    BY <1>1, <1>2 DEF Mark
  <1>4. \A k : Deepens(k)' = Deepens(k) /\ EndsLevel(k)' = EndsLevel(k)
    BY <1>1, <1>3 DEF Deepens, EndsLevel
  <1>5. {k \in Within..(i - 1) : Deepens(k)}' = {k \in Within..(i - 1) : Deepens(k)}
    BY <1>2, <1>4
  <1>6. {k \in Within..(i - 1) : EndsLevel(k)}' = {k \in Within..(i - 1) : EndsLevel(k)}
    BY <1>2, <1>4
  <1>7. CommentLevel(i)' = CommentLevel(i)
    BY <1>5, <1>6 DEF CommentLevel
  <1> QED BY <1>1, <1>3, <1>4, <1>7 DEF ClosesComment

LEMMA InCommentNext ==
  ASSUME source' = source, opened' = opened, NEW c \in Nat, NEW d \in Nat,
         current' = c, depth' = d, Char(opened + 1) = "*",
         \/ c = opened + 1 /\ d = 1
         \/ TrackedAt(c, d)
         \/ OverflowsBy(c)
         \/ Char(Within) = "/"
  PROVE  InComment'
PROOF
  <1>1. Within' = Within
    BY DEF Within
  <1>2. Char(opened + 1)' = Char(opened + 1) /\ Char(Within)' = Char(Within)
    BY <1>1 DEF Char
  <1>3. \A i : Mark(i)' = Mark(i) /\ CommentLevel(i)' = CommentLevel(i) /\ ClosesComment(i)' = ClosesComment(i)
    BY CommentSame
  <1>4. TrackedAt(c, d) => TrackedAt(c, d)'
    BY <1>1, <1>3 DEF TrackedAt
  <1>5. OverflowsBy(c) => OverflowsBy(c)'
    BY <1>1, <1>3 DEF OverflowsBy
  <1>6. TrackedAt(c, d)' => TrackedAt(current, depth)'
    BY DEF TrackedAt
  <1>7. OverflowsBy(c)' => OverflowsBy(current)'
    BY DEF OverflowsBy
  <1> QED BY <1>2, <1>4, <1>5, <1>6, <1>7 DEF InComment

(* A step of the loop over the characters that it takes and a mark makes   *)
(* of them.                                                                *)
LEMMA OverMark ==
  ASSUME ScannerTypeOK, NEW c \in Nat, NEW d \in Nat, d > 0, TrackedAt(c, d), Pair(c)
  PROVE  /\ Char(c) = "/" => TrackedAt(c + 2, d + 1) /\ CommentLevel(c + 2) = d + 1
         /\ Char(c) = "*" => TrackedAt(c + 2, d - 1)
PROOF
  <1>0. Within \in Nat /\ c >= Within
    BY MarkTypes DEF TrackedAt
  <1>1. Mark(c) /\ ~Mark(c + 1)
    BY <1>0, PairMarks, MarksApart DEF TrackedAt
  <1>2. PICK l \in Int : l = CommentLevel(c) /\ l = d
    BY <1>0, LevelSteps DEF TrackedAt
  <1>3. CommentLevel((c + 1) + 1) = CommentLevel(c + 1)
    BY <1>0, <1>1, LevelSteps
  <1>4. CommentLevel(c + 2) = CommentLevel(c + 1)
    <2>1. (c + 1) + 1 = c + 2
      OBVIOUS
    <2> QED BY <2>1, <1>3
  <1>5. ~ClosesComment(c + 1)
    BY <1>1 DEF ClosesComment, EndsLevel
  <1>6. \A i \in Within..(c - 1) : ~ClosesComment(i)
    BY DEF TrackedAt
  <1>7. ~Mark(c + 2 - 1) /\ c + 2 - 2 = c /\ c + 2 >= Within
    <2>1. c + 2 - 1 = c + 1
      OBVIOUS
    <2> QED BY <2>1, <1>0, <1>1
  <1>8. \A i \in Within..(c + 2 - 3) : ~ClosesComment(i)
    <2>1. c + 2 - 3 = c - 1
      OBVIOUS
    <2> QED BY <2>1, <1>6
  <1>9. \A i \in Within..(c + 2 - 1) : i \in Within..(c - 1) \/ i = c \/ i = c + 1
    BY <1>0
  <1>a. ASSUME Char(c) = "/" PROVE TrackedAt(c + 2, d + 1) /\ CommentLevel(c + 2) = d + 1
    <2>1. CommentLevel(c + 2) = d + 1
      BY <1>0, <1>1, <1>2, <1>4, <1>a, LevelSteps DEF Deepens
    <2>2. ~ClosesComment(c)
      BY <1>a DEF ClosesComment, EndsLevel
    <2>3. \A i \in Within..(c + 2 - 1) : ~ClosesComment(i)
      BY <1>5, <1>6, <1>9, <2>2
    <2> QED BY <1>7, <1>8, <2>1, <2>3 DEF TrackedAt
  <1>b. ASSUME Char(c) = "*" PROVE TrackedAt(c + 2, d - 1)
    <2>1. CommentLevel(c + 2) = d - 1
      BY <1>0, <1>1, <1>2, <1>4, <1>b, LevelSteps DEF EndsLevel
    <2>2. ClosesComment(c) <=> d = 1
      BY <1>1, <1>2, <1>b DEF ClosesComment, EndsLevel
    <2>3. d - 1 > 0 => \A i \in Within..(c + 2 - 1) : ~ClosesComment(i)
      BY <1>5, <1>6, <1>9, <2>2
    <2>4. d - 1 = 0 => ClosesComment(c + 2 - 2)
      BY <1>7, <2>2
    <2> QED BY <1>7, <1>8, <2>1, <2>3, <2>4 DEF TrackedAt
  <1> QED BY <1>a, <1>b

(* One over any other character.                                           *)
LEMMA OverCharacter ==
  ASSUME ScannerTypeOK, NEW c \in Nat, NEW d \in Nat, d > 0, TrackedAt(c, d), ~Pair(c)
  PROVE  TrackedAt(c + 1, d)
PROOF
  <1>0. Within \in Nat /\ c >= Within
    BY MarkTypes DEF TrackedAt
  <1>1. ~Mark(c) /\ ~ClosesComment(c)
    BY MarkTypes DEF ClosesComment, EndsLevel
  <1>2. d = CommentLevel(c + 1)
    BY <1>0, <1>1, LevelSteps DEF TrackedAt
  <1>3. \A i \in Within..(c + 1 - 1) : i \in Within..(c - 1) \/ i = c
    BY <1>0
  <1>4. \A i \in Within..(c + 1 - 1) : ~ClosesComment(i)
    BY <1>1, <1>3 DEF TrackedAt
  <1>5. \A i \in Within..(c + 1 - 3) : i \in Within..(c - 1)
    BY <1>0
  <1>6. \A i \in Within..(c + 1 - 3) : ~ClosesComment(i)
    BY <1>5 DEF TrackedAt
  <1>7. c + 1 - 1 = c /\ c + 1 >= Within
    BY <1>0
  <1>8. ~Mark(c + 1 - 1)
    BY <1>1, <1>7
  <1> QED BY <1>2, <1>4, <1>6, <1>7, <1>8 DEF TrackedAt

(* Every step keeps what is known of the comment.                          *)
LEMMA CommentsStep ==
  ASSUME ScanInv, InComment, ScanNext
  PROVE  InComment'
PROOF
  <1>0. ScannerTypeOK /\ current \in Nat /\ opened \in Nat /\ Within \in Nat /\ depth \in Nat
    BY ScannerAssumption, MarkTypes DEF ScanInv, ScannerTypeOK
  <1>a. CASE OpenComment
    <2>1. /\ source' = source /\ current' = current + 1 /\ opened' = current /\ depth' = 1
          /\ Char(current + 1) = "*"
      BY <1>a DEF OpenComment, Move, OpensComment, PeekNext
    <2>2. Char(opened + 1)' = Char(current + 1)
      BY <2>1 DEF Char
    <2>3. (current = opened + 1 /\ depth = 1)'
      BY <2>1
    <2> QED BY <2>1, <2>2, <2>3 DEF InComment
  <1>b. CASE CommentStep
    <2>0. mode = "comment" /\ UNCHANGED <<source, opened>> /\ depth > 0 /\ Char(opened + 1) = "*"
      BY <1>b DEF CommentStep, InComment
    <2>1. PICK c \in Nat, d \in Nat \ {0} : c = current /\ d = depth
      BY <1>0, <2>0
    <2>2. /\ \/ Char(c) = "/" /\ Char(c + 1) = "*" /\ current' = c + 2 /\ depth' = (d + 1) % DepthModulus
             \/ Char(c) = "*" /\ Char(c + 1) = "/" /\ current' = c + 2 /\ depth' = d - 1
             \/ /\ ~(Char(c) = "/" /\ Char(c + 1) = "*") /\ ~(Char(c) = "*" /\ Char(c + 1) = "/")
                /\ current' = c + 1 /\ depth' = d
      BY <1>b, <2>1 DEF CommentStep, OpensComment, Peek, PeekNext, Move
    <2>3. PICK e \in {c + 1, c + 2} : e = current'
      BY <2>2
    <2>4. PICK f \in Nat : f = depth'
      <3>1. (d + 1) % DepthModulus \in Nat /\ d - 1 \in Nat
        BY ScannerAssumption
      <3> QED BY <2>2, <3>1
    <2>5. CASE Char(Within) = "/"
      BY <2>0, <2>3, <2>4, <2>5, InCommentNext
    <2>6. CASE OverflowsBy(c)
      <3>1. OverflowsBy(e)
        <4>1. \A i \in Within..c : i \in Within..e
          BY <1>0, <2>3
        <4> QED BY <2>6, <4>1 DEF OverflowsBy
      <3> QED BY <2>0, <2>3, <2>4, <3>1, InCommentNext
    <2>7. CASE c = opened + 1 /\ d = 1 /\ Char(Within) /= "/"
      <3>1. c + 1 = Within
        BY <1>0, <2>7 DEF Within
      <3>2. e = Within /\ f = 1
        <4>1. Char(c) = "*" /\ Char(c + 1) /= "/"
          BY <2>0, <2>7, <3>1
        <4> QED BY <2>2, <2>3, <2>4, <2>7, <3>1, <4>1
      <3>3. TrackedAt(e, f)
        <4>1. CommentLevel(Within) = 1 /\ ~Mark(Within - 1)
          BY <1>0, LevelStarts
        <4>2. \A i \in Within..(Within - 3) : FALSE
          BY <1>0
        <4>3. \A i \in Within..(Within - 1) : FALSE
          BY <1>0
        <4> QED BY <1>0, <3>2, <4>1, <4>2, <4>3 DEF TrackedAt
      <3> QED BY <2>0, <2>3, <2>4, <3>3, InCommentNext
    <2>8. CASE TrackedAt(c, d)
      <3>1. Pair(c) <=> (Char(c) = "/" /\ Char(c + 1) = "*") \/ (Char(c) = "*" /\ Char(c + 1) = "/")
        BY DEF Pair
      <3>2. CASE Char(c) = "/" /\ Char(c + 1) = "*"
        <4>1. TrackedAt(c + 2, d + 1) /\ CommentLevel(c + 2) = d + 1
          BY <1>0, <2>8, <3>1, <3>2, OverMark
        <4>2. e = c + 2 /\ f = (d + 1) % DepthModulus
          BY <2>2, <2>3, <2>4, <3>2
        <4>3. CASE d + 1 < DepthModulus
          <5>1. (d + 1) % DepthModulus = d + 1
            BY <4>3, ScannerAssumption
          <5> QED BY <2>0, <2>3, <2>4, <4>1, <4>2, <5>1, InCommentNext
        <4>4. CASE d + 1 >= DepthModulus
          <5>1. c + 2 \in Within..(c + 2)
            BY <1>0, <4>1 DEF TrackedAt
          <5>2. OverflowsBy(e)
            BY <4>1, <4>2, <4>4, <5>1 DEF OverflowsBy
          <5> QED BY <2>0, <2>3, <2>4, <5>2, InCommentNext
        <4> QED BY <4>3, <4>4, ScannerAssumption
      <3>3. CASE Char(c) = "*" /\ Char(c + 1) = "/"
        <4>1. TrackedAt(c + 2, d - 1)
          BY <1>0, <2>8, <3>1, <3>3, OverMark
        <4>2. e = c + 2 /\ f = d - 1
          BY <2>2, <2>3, <2>4, <3>3
        <4> QED BY <2>0, <2>3, <2>4, <4>1, <4>2, InCommentNext
      <3>4. CASE ~(Char(c) = "/" /\ Char(c + 1) = "*") /\ ~(Char(c) = "*" /\ Char(c + 1) = "/")
        <4>1. TrackedAt(c + 1, d)
          BY <1>0, <2>8, <3>1, <3>4, OverCharacter
        <4>2. e = c + 1 /\ f = d
          BY <2>2, <2>3, <2>4, <3>4
        <4> QED BY <2>0, <2>3, <2>4, <4>1, <4>2, InCommentNext
      <3> QED BY <3>2, <3>3, <3>4
    <2> QED BY <2>0, <2>1, <2>5, <2>6, <2>7, <2>8 DEF InComment
  <1>c. CASE ~OpenComment /\ ~CommentStep
    <2>1. mode' /= "comment"
      BY <1>c DEF ScanNext, Skip, Scan, SkipBlank, OpenLine, LineStep, EndComment, EndOfFile, StartLong, Symbol,
                  Unknown, NumberStep, WordStep, StringStep, ReadOutside, Starts
    <2> QED BY <2>1 DEF InComment
  <1> QED BY <1>a, <1>b, <1>c

-----------------------------------------------------------------------------
(* Whatever the files: a string ends with the first quote that is not      *)
(* escaped, unless it has a backslash that is escaped itself.              *)
THEOREM StringsAreClosed == ScanSpec => []StringsClose
PROOF
  <1> DEFINE SInv == ScanInv /\ InString /\ StringsEndBare
  <1>1. ScanInit => SInv
    <2>1. ScanInit => InString /\ StringsEndBare
      BY DEF ScanInit, InString, StringsEndBare
    <2> QED BY <2>1, Initially
  <1>2. SInv /\ [ScanNext]_scanVars => SInv'
    <2> SUFFICES ASSUME SInv, [ScanNext]_scanVars PROVE SInv'
      OBVIOUS
    <2>1. CASE ScanNext
      BY <2>1, Preserved, StringsStep
    <2>2. CASE UNCHANGED scanVars
      BY <2>2, Preserved DEF scanVars, InString, StringsEndBare, EndsBare, Bare, Char
    <2> QED BY <2>1, <2>2
  <1>3. SInv => StringsClose
    BY BareStrings DEF ScanInv
  <1> QED BY <1>1, <1>2, <1>3, PTL DEF ScanSpec

(* Whatever the files: a comment ends with the "*/" that closes it,        *)
(* comments in it counted, unless more are nested than a u8 counts or its  *)
(* own "/*" runs into a "/".                                               *)
THEOREM CommentsAreNested == ScanSpec => []CommentsNest
PROOF
  <1> DEFINE CInv == ScanInv /\ InComment
  <1>1. ScanInit => CInv
    BY Initially DEF ScanInit, InComment
  <1>2. CInv /\ [ScanNext]_scanVars => CInv'
    <2> SUFFICES ASSUME CInv, [ScanNext]_scanVars PROVE CInv'
      OBVIOUS
    <2>1. CASE ScanNext
      BY <2>1, Preserved, CommentsStep
    <2>2. CASE UNCHANGED scanVars
      <3>1. InComment'
        <4>1. CASE mode = "comment"
          <5>1. PICK c \in Nat, d \in Nat : c = current /\ d = depth
            BY ScannerAssumption DEF ScanInv, ScannerTypeOK
          <5> QED BY <2>2, <4>1, <5>1, InCommentNext DEF scanVars, InComment
        <4>2. CASE mode /= "comment"
          BY <2>2, <4>2 DEF scanVars, InComment
        <4> QED BY <4>1, <4>2
      <3> QED BY <2>2, <3>1, Preserved
    <2> QED BY <2>1, <2>2
  <1>3. CInv => CommentsNest
    BY CommentsInvariant
  <1> QED BY <1>1, <1>2, <1>3, PTL DEF ScanSpec

-----------------------------------------------------------------------------
(***************************************************************************)
(* As long as no error was reported, the scopes and the braces follow the  *)
(* C stack, for files of every length and every depth of nesting.  The     *)
(* invariant (Clean) says which functions can be where without an error,   *)
(* and counts: a scope for each frame inside a scope of its own and a      *)
(* brace for each frame inside braces of its own.  A step changes the top  *)
(* of the stack only, so the counts change by what the top frame counts    *)
(* for before the step and after it.                                       *)
(*                                                                         *)
(* After an error scopes are left behind, and a second, weaker invariant   *)
(* (LooseInv) remains: it bounds the functions in blocks by the depth of   *)
(* the current scope, which is what decides where a defer may be.          *)
(***************************************************************************)

Frames == [in : Functions, at : Places, flag : BOOLEAN]

\* Where a function can be while nothing has been reported.
CleanPlace(function, place) ==
  /\ function = "module" => place \in {"item", "decl", "sync"}
  /\ function = "fn" => place \in {"head", "brace", "end"}
  /\ function = "struct" =>
       place \in {"head", "brace", "fields", "badField", "methods", "badMethod", "method"}
  /\ function \in {"block", "deferBlock"} => place \in {"loop", "check"}
  /\ function = "if" =>
       place \in {"cond", "then", "thenDone", "elseQ", "else", "elseIfDone", "elseDone"}
  /\ function = "while" => place \in {"cond", "brace", "end"}
  /\ function = "expect" => place \in {"cond", "tail", "brace", "end"}
  /\ function = "defer" => place \in {"start", "end"}
  /\ function = "braces" => place = "end"

(* The module is at the bottom of the stack, a struct right above it, and  *)
(* no struct has met a bad field.                                          *)
CleanFrame(fs, i) ==
  /\ fs[i].in = "module" <=> i = 1
  /\ fs[i].in = "struct" => i = 2 /\ ~fs[i].flag
  /\ CleanPlace(fs[i].in, fs[i].at)
CleanStack(fs) ==
  /\ fs \in Seq(Frames)
  /\ Len(fs) >= 1
  /\ \A i \in 1..Len(fs) : CleanFrame(fs, i)

ScopeFrames(fs) == {i \in DOMAIN fs : HoldsScope(fs[i])}
ScopesAt(function, place) == IF HoldsScope(Frame(function, place)) THEN 1 ELSE 0

HoldsBrace(f) ==
  \/ f.in \in {"block", "deferBlock"}
  \/ f.in = "struct" /\ f.at \notin {"head", "brace"}
BraceFrames(fs) == {i \in DOMAIN fs : HoldsBrace(fs[i])}
BracesAt(function, place) == IF HoldsBrace(Frame(function, place)) THEN 1 ELSE 0

CleanScopes == scopes \in Seq(Int) /\ Len(scopes) >= 1 /\ scopes[1] = ModuleNamespace

Clean ==
  /\ CleanStack(frames)
  /\ CleanScopes
  /\ Len(scopes) = 1 + Cardinality(ScopeFrames(frames))
  /\ open = Cardinality(BraceFrames(frames))
  /\ ret /= "null"
  /\ needSync = FALSE

Inv ==
  /\ hadError \in BOOLEAN
  /\ phase \in {"parse", "done", "abort"}
  /\ ~hadError => (phase = "parse" /\ Clean) \/ (phase = "done" /\ open = 0)

-----------------------------------------------------------------------------
(* The stack.                                                              *)

\* The index n counts for itself in a set of indices.
LEMMA CountTop ==
  ASSUME NEW n \in Nat, NEW P \in SUBSET (1..n)
  PROVE  /\ Cardinality(P) \in Nat
         /\ Cardinality(P \ {n}) \in Nat
         /\ Cardinality(P) = Cardinality(P \ {n}) + (IF n \in P THEN 1 ELSE 0)
PROOF
  <1>1. IsFiniteSet(P)
    <2>1. IsFiniteSet(1..n)
      BY FS_Interval
    <2> QED BY <2>1, FS_Subset
  <1>2. /\ IsFiniteSet(P \ {n})
        /\ Cardinality(P \ {n}) = IF n \in P THEN Cardinality(P) - 1 ELSE Cardinality(P)
    BY <1>1, FS_RemoveElement
  <1> QED BY <1>1, <1>2, FS_CardinalityType

\* What a frame counts for depends on its function and its place.
LEMMA FrameCounts ==
  ASSUME NEW f \in Frames
  PROVE  /\ (IF HoldsScope(f) THEN 1 ELSE 0) = ScopesAt(f.in, f.at)
         /\ (IF HoldsBrace(f) THEN 1 ELSE 0) = BracesAt(f.in, f.at)
  BY DEF Frames, ScopesAt, BracesAt, HoldsScope, HoldsBrace, Frame

\* The top frame counts for itself in a stack.
LEMMA CountedTop ==
  ASSUME NEW fs \in Seq(Frames), Len(fs) >= 1, NEW n, n = Len(fs)
  PROVE  /\ Cardinality(ScopeFrames(fs) \ {n}) \in Nat
         /\ Cardinality(BraceFrames(fs) \ {n}) \in Nat
         /\ Cardinality(ScopeFrames(fs)) =
              Cardinality(ScopeFrames(fs) \ {n}) + ScopesAt(fs[n].in, fs[n].at)
         /\ Cardinality(BraceFrames(fs)) =
              Cardinality(BraceFrames(fs) \ {n}) + BracesAt(fs[n].in, fs[n].at)
PROOF
  <1>1. n \in Nat /\ n \in 1..n /\ DOMAIN fs = 1..n /\ fs[n] \in Frames
    BY ElementOfSeq
  <1>2. ScopeFrames(fs) \in SUBSET (1..n) /\ (n \in ScopeFrames(fs) <=> HoldsScope(fs[n]))
    BY <1>1 DEF ScopeFrames
  <1>3. BraceFrames(fs) \in SUBSET (1..n) /\ (n \in BraceFrames(fs) <=> HoldsBrace(fs[n]))
    BY <1>1 DEF BraceFrames
  <1>4. /\ ScopesAt(fs[n].in, fs[n].at) = IF n \in ScopeFrames(fs) THEN 1 ELSE 0
        /\ BracesAt(fs[n].in, fs[n].at) = IF n \in BraceFrames(fs) THEN 1 ELSE 0
    BY <1>1, <1>2, <1>3, FrameCounts
  <1>5. /\ Cardinality(ScopeFrames(fs) \ {n}) \in Nat
        /\ Cardinality(ScopeFrames(fs)) =
             Cardinality(ScopeFrames(fs) \ {n}) + (IF n \in ScopeFrames(fs) THEN 1 ELSE 0)
    BY <1>1, <1>2, CountTop
  <1>6. /\ Cardinality(BraceFrames(fs) \ {n}) \in Nat
        /\ Cardinality(BraceFrames(fs)) =
             Cardinality(BraceFrames(fs) \ {n}) + (IF n \in BraceFrames(fs) THEN 1 ELSE 0)
    BY <1>1, <1>3, CountTop
  <1> QED BY <1>4, <1>5, <1>6

\* The top of a clean stack.
LEMMA TopOfStack ==
  ASSUME NEW fs, CleanStack(fs)
  PROVE  /\ Len(fs) \in Nat \ {0} /\ DOMAIN fs = 1..Len(fs)
         /\ \A i \in 1..Len(fs) : fs[i] \in Frames
         /\ fs[Len(fs)] \in Frames
         /\ CleanFrame(fs, Len(fs))
         /\ Cardinality(ScopeFrames(fs)) \in Nat
         /\ Cardinality(BraceFrames(fs)) \in Nat
PROOF
  <1>1. fs \in Seq(Frames) /\ Len(fs) \in Nat \ {0} /\ DOMAIN fs = 1..Len(fs)
    BY DEF CleanStack
  <1>2. \A i \in 1..Len(fs) : fs[i] \in Frames
    BY <1>1
  <1>3. ScopeFrames(fs) \in SUBSET (1..Len(fs)) /\ BraceFrames(fs) \in SUBSET (1..Len(fs))
    BY <1>1 DEF ScopeFrames, BraceFrames
  <1>4. Cardinality(ScopeFrames(fs)) \in Nat /\ Cardinality(BraceFrames(fs)) \in Nat
    BY <1>1, <1>3, CountTop
  <1>5. Len(fs) \in 1..Len(fs) /\ CleanFrame(fs, Len(fs))
    BY <1>1 DEF CleanStack
  <1> QED BY <1>1, <1>2, <1>4, <1>5

\* The stack t counts for that much more than the stack fs.
Shift(fs, t, scopeChange, braceChange) ==
  /\ CleanStack(t)
  /\ Cardinality(ScopeFrames(t)) = Cardinality(ScopeFrames(fs)) + scopeChange
  /\ Cardinality(BraceFrames(t)) = Cardinality(BraceFrames(fs)) + braceChange

\* Frames count for a natural number of scopes and braces.
LEMMA AreNumbers ==
  \A function, place : ScopesAt(function, place) \in Nat /\ BracesAt(function, place) \in Nat
  BY DEF ScopesAt, BracesAt

\* What two changes of the stack count for adds up.
LEMMA Shifts ==
  ASSUME NEW r, NEW s, NEW t, CleanStack(r), NEW a \in Int, NEW b \in Int, NEW c \in Int, NEW d \in Int,
         Shift(r, s, a, b), Shift(s, t, c, d)
  PROVE  Shift(r, t, a + c, b + d)
PROOF
  <1>1. Cardinality(ScopeFrames(r)) \in Nat /\ Cardinality(BraceFrames(r)) \in Nat
    BY TopOfStack
  <1> QED BY <1>1 DEF Shift

\* The stack with another top.
WithTop(fs, f) == [fs EXCEPT ![Len(fs)] = f]

\* The top of the stack goes on to another place.
LEMMA Moved ==
  ASSUME NEW fs, CleanStack(fs), NEW f \in Frames,
         f.in = fs[Len(fs)].in,
         CleanPlace(f.in, f.at),
         f.in = "struct" => ~f.flag
  PROVE  /\ Len(WithTop(fs, f)) = Len(fs)
         /\ Shift(fs, WithTop(fs, f), ScopesAt(f.in, f.at) - ScopesAt(f.in, fs[Len(fs)].at),
                                      BracesAt(f.in, f.at) - BracesAt(f.in, fs[Len(fs)].at))
PROOF
  <1> DEFINE n == Len(fs)
  <1> SUFFICES ASSUME NEW t, t = WithTop(fs, f)
      PROVE  /\ Len(t) = n
             /\ Shift(fs, t, ScopesAt(f.in, f.at) - ScopesAt(f.in, fs[n].at),
                             BracesAt(f.in, f.at) - BracesAt(f.in, fs[n].at))
    OBVIOUS
  <1>1. /\ n \in Nat \ {0} /\ DOMAIN fs = 1..n /\ fs[n] \in Frames /\ CleanFrame(fs, n)
        /\ \A i \in 1..n : fs[i] \in Frames
    BY TopOfStack
  <1>2. /\ t \in Seq(Frames) /\ Len(t) = n /\ DOMAIN t = 1..n /\ t[n] = f
        /\ \A i \in 1..n : i /= n => t[i] = fs[i]
    BY <1>1 DEF CleanStack, WithTop
  <1>3. ASSUME NEW i \in 1..n PROVE CleanFrame(t, i)
    <2>1. CleanFrame(fs, i)
      BY DEF CleanStack
    <2>2. CASE i = n
      BY <1>2, <2>1, <2>2 DEF CleanFrame
    <2>3. CASE i /= n
      <3>1. t[i] = fs[i]
        BY <1>2, <2>3
      <3> QED BY <2>1, <3>1 DEF CleanFrame
    <2> QED BY <2>2, <2>3
  <1>4. /\ ScopeFrames(t) \ {n} = ScopeFrames(fs) \ {n}
        /\ BraceFrames(t) \ {n} = BraceFrames(fs) \ {n}
    BY <1>1, <1>2 DEF ScopeFrames, BraceFrames
  <1>5. /\ Cardinality(ScopeFrames(t)) =
             Cardinality(ScopeFrames(fs) \ {n}) + ScopesAt(f.in, f.at)
        /\ Cardinality(BraceFrames(t)) =
             Cardinality(BraceFrames(fs) \ {n}) + BracesAt(f.in, f.at)
    <2>1. n >= 1 /\ n = Len(t) /\ t[n].in = f.in /\ t[n].at = f.at
      <3>1. n >= 1
        BY <1>1
      <3>2. n = Len(t) /\ t[n] = f
        BY <1>2
      <3> QED BY <3>1, <3>2
    <2>2. /\ Cardinality(ScopeFrames(t)) =
               Cardinality(ScopeFrames(t) \ {n}) + ScopesAt(t[n].in, t[n].at)
          /\ Cardinality(BraceFrames(t)) =
               Cardinality(BraceFrames(t) \ {n}) + BracesAt(t[n].in, t[n].at)
      BY <1>2, <2>1, CountedTop
    <2> QED BY <1>4, <2>1, <2>2
  <1>6. /\ Cardinality(ScopeFrames(fs)) =
             Cardinality(ScopeFrames(fs) \ {n}) + ScopesAt(f.in, fs[n].at)
        /\ Cardinality(BraceFrames(fs)) =
             Cardinality(BraceFrames(fs) \ {n}) + BracesAt(f.in, fs[n].at)
        /\ Cardinality(ScopeFrames(fs) \ {n}) \in Nat
        /\ Cardinality(BraceFrames(fs) \ {n}) \in Nat
    BY CountedTop DEF CleanStack
  <1>7. CleanStack(t)
    BY <1>1, <1>2, <1>3 DEF CleanStack
  <1>8. Shift(fs, t, ScopesAt(f.in, f.at) - ScopesAt(f.in, fs[n].at),
                     BracesAt(f.in, f.at) - BracesAt(f.in, fs[n].at))
    BY <1>5, <1>6, <1>7, AreNumbers DEF Shift
  <1> QED BY <1>2, <1>8

\* The top of the stack calls a function.
LEMMA Called ==
  ASSUME NEW fs, CleanStack(fs), NEW f \in Frames,
         f.in /= "module",
         f.in = "struct" => Len(fs) = 1 /\ ~f.flag,
         CleanPlace(f.in, f.at)
  PROVE  Shift(fs, Append(fs, f), ScopesAt(f.in, f.at), BracesAt(f.in, f.at))
PROOF
  <1> DEFINE n == Len(fs) + 1
  <1> SUFFICES ASSUME NEW t, t = Append(fs, f)
      PROVE  Shift(fs, t, ScopesAt(f.in, f.at), BracesAt(f.in, f.at))
    OBVIOUS
  <1>1. /\ n \in Nat \ {0} /\ DOMAIN fs = 1..(n - 1) /\ n >= 2
        /\ \A i \in 1..(n - 1) : fs[i] \in Frames
    BY TopOfStack
  <1>2. /\ t \in Seq(Frames) /\ Len(t) = n /\ DOMAIN t = 1..n /\ t[n] = f
        /\ \A i \in 1..(n - 1) : t[i] = fs[i]
    BY <1>1 DEF CleanStack
  <1>3. \A i \in 1..n : CleanFrame(t, i)
    <2>1. \A i \in 1..(n - 1) : CleanFrame(t, i)
      BY <1>1, <1>2 DEF CleanStack, CleanFrame
    <2>2. CleanFrame(t, n)
      <3>1. n >= 2 /\ t[n] = f /\ (f.in = "struct" => n = 2)
        BY <1>1, <1>2
      <3> QED BY <3>1 DEF CleanFrame
    <2> QED BY <1>1, <2>1, <2>2
  <1>4. /\ ScopeFrames(t) \ {n} = ScopeFrames(fs)
        /\ BraceFrames(t) \ {n} = BraceFrames(fs)
    BY <1>1, <1>2 DEF ScopeFrames, BraceFrames
  <1>5. n >= 1 /\ n = Len(t) /\ t[n].in = f.in /\ t[n].at = f.at
    BY <1>1, <1>2
  <1>6. /\ Cardinality(ScopeFrames(t)) = Cardinality(ScopeFrames(fs)) + ScopesAt(f.in, f.at)
        /\ Cardinality(BraceFrames(t)) = Cardinality(BraceFrames(fs)) + BracesAt(f.in, f.at)
    <2>1. /\ Cardinality(ScopeFrames(t)) =
               Cardinality(ScopeFrames(t) \ {n}) + ScopesAt(t[n].in, t[n].at)
          /\ Cardinality(BraceFrames(t)) =
               Cardinality(BraceFrames(t) \ {n}) + BracesAt(t[n].in, t[n].at)
      BY <1>2, <1>5, CountedTop
    <2> QED BY <1>4, <1>5, <2>1
  <1>7. CleanStack(t)
    BY <1>1, <1>2, <1>3 DEF CleanStack
  <1> QED BY <1>6, <1>7 DEF Shift

\* The top of the stack returns; the module never does.
LEMMA Returned ==
  ASSUME NEW fs, CleanStack(fs),
         fs[Len(fs)].in /= "module"
  PROVE  Shift(fs, SubSeq(fs, 1, Len(fs) - 1), -ScopesAt(fs[Len(fs)].in, fs[Len(fs)].at),
                                               -BracesAt(fs[Len(fs)].in, fs[Len(fs)].at))
PROOF
  <1> DEFINE n == Len(fs)
  <1> SUFFICES ASSUME NEW t, t = SubSeq(fs, 1, n - 1)
      PROVE  Shift(fs, t, -ScopesAt(fs[n].in, fs[n].at), -BracesAt(fs[n].in, fs[n].at))
    OBVIOUS
  <1>1. /\ n \in Nat \ {0} /\ DOMAIN fs = 1..n /\ fs[n] \in Frames /\ CleanFrame(fs, n)
        /\ \A i \in 1..n : fs[i] \in Frames
    BY TopOfStack
  <1>2. n >= 2
    BY <1>1 DEF CleanFrame
  <1>3. /\ t \in Seq(Frames) /\ Len(t) = n - 1 /\ DOMAIN t = 1..(n - 1)
        /\ \A i \in 1..(n - 1) : t[i] = fs[i]
    BY <1>1, <1>2 DEF CleanStack
  <1>4. \A i \in 1..(n - 1) : CleanFrame(t, i)
    BY <1>1, <1>3 DEF CleanStack, CleanFrame
  <1>5. /\ ScopeFrames(fs) \ {n} = ScopeFrames(t)
        /\ BraceFrames(fs) \ {n} = BraceFrames(t)
    BY <1>1, <1>3 DEF ScopeFrames, BraceFrames
  <1>6. fs \in Seq(Frames) /\ Len(fs) >= 1
    BY DEF CleanStack
  <1>7. /\ Cardinality(ScopeFrames(fs)) =
             Cardinality(ScopeFrames(t)) + ScopesAt(fs[n].in, fs[n].at)
        /\ Cardinality(BraceFrames(fs)) =
             Cardinality(BraceFrames(t)) + BracesAt(fs[n].in, fs[n].at)
    BY <1>5, <1>6, CountedTop
  <1>8. CleanStack(t)
    BY <1>2, <1>3, <1>4 DEF CleanStack
  <1>9. Cardinality(ScopeFrames(t)) \in Nat /\ Cardinality(BraceFrames(t)) \in Nat
    BY <1>8, TopOfStack
  <1>10. Shift(fs, t, -ScopesAt(fs[n].in, fs[n].at), -BracesAt(fs[n].in, fs[n].at))
    BY <1>7, <1>8, <1>9, AreNumbers DEF Shift
  <1> QED BY <1>10

-----------------------------------------------------------------------------
(* Pieces of steps that report nothing: what they do to the stack, then    *)
(* what that says of the scopes and the braces.                            *)
\* A step that changes the stack by that much and returns no NULL.
Counts(scopeChange, braceChange) ==
  Shift(frames, frames', scopeChange, braceChange) /\ ret' /= "null"

\* What a clean stack says of its top.
LEMMA TopIsClean ==
  ASSUME CleanStack(frames)
  PROVE  /\ Top \in Frames /\ CleanPlace(Top.in, Top.at)
         /\ Top.in = "module" <=> Len(frames) = 1
         /\ Top.in = "struct" => Len(frames) = 2 /\ ~Top.flag
  BY TopOfStack DEF Top, CleanFrame

\* The top frame goes on to another place: what the top of the stack is then.
LEMMA NextTop ==
  ASSUME CleanStack(frames), NEW place \in Places, CleanPlace(Top.in, place)
  PROVE  LET f == [Top EXCEPT !.at = place]
             t == WithTop(frames, f)
         IN  /\ t = [frames EXCEPT ![Len(frames)].at = place]
             /\ Len(t) = Len(frames)
             /\ Shift(frames, t, ScopesAt(Top.in, place) - ScopesAt(Top.in, Top.at),
                                 BracesAt(Top.in, place) - BracesAt(Top.in, Top.at))
PROOF
  <1> DEFINE f == [Top EXCEPT !.at = place]
  <1>1. f \in Frames /\ f.in = Top.in /\ f.at = place /\ (f.in = "struct" => ~f.flag)
    BY TopIsClean DEF Frames
  <1>2. WithTop(frames, f) = [frames EXCEPT ![Len(frames)].at = place]
    BY DEF WithTop, Top
  <1> HIDE DEF f
  <1>3. /\ Len(WithTop(frames, f)) = Len(frames)
        /\ Shift(frames, WithTop(frames, f), ScopesAt(Top.in, place) - ScopesAt(Top.in, Top.at),
                                             BracesAt(Top.in, place) - BracesAt(Top.in, Top.at))
    BY <1>1, Moved DEF Top
  <1> QED BY <1>2, <1>3 DEF f

\* The top frame goes on.
LEMMA OnGoto ==
  ASSUME CleanStack(frames), NEW place \in Places, Goto(place), CleanPlace(Top.in, place)
  PROVE  Counts(ScopesAt(Top.in, place) - ScopesAt(Top.in, Top.at),
                BracesAt(Top.in, place) - BracesAt(Top.in, Top.at))
PROOF
  <1>1. frames' = [frames EXCEPT ![Len(frames)].at = place] /\ ret' /= "null"
    BY DEF Goto
  <1> QED BY <1>1, NextTop DEF Counts

\* The top frame goes on to `back` with the frame of a new function on it.
LEMMA OnCall ==
  ASSUME CleanStack(frames), NEW function \in Functions, NEW first \in Places,
         NEW back \in Places, Call(function, first, back),
         CleanPlace(Top.in, back), CleanPlace(function, first),
         function /= "module", function = "struct" => Top.in = "module"
  PROVE  Counts(ScopesAt(Top.in, back) - ScopesAt(Top.in, Top.at) + ScopesAt(function, first),
                BracesAt(Top.in, back) - BracesAt(Top.in, Top.at) + BracesAt(function, first))
PROOF
  <1> DEFINE t == WithTop(frames, [Top EXCEPT !.at = back])
             g == Frame(function, first)
  <1>1. frames' = Append(t, g) /\ ret' /= "null"
    BY NextTop DEF Call
  <1>2. g \in Frames /\ g.in = function /\ g.at = first /\ ~g.flag
    BY DEF Frame, Frames
  <1>3. /\ Len(t) = Len(frames)
        /\ Shift(frames, t, ScopesAt(Top.in, back) - ScopesAt(Top.in, Top.at),
                            BracesAt(Top.in, back) - BracesAt(Top.in, Top.at))
    BY NextTop
  <1> HIDE DEF t, g
  <1>4. Shift(t, Append(t, g), ScopesAt(function, first), BracesAt(function, first))
    <2>1. CleanStack(t) /\ (g.in = "struct" => Len(t) = 1 /\ ~g.flag)
      BY <1>2, <1>3, TopIsClean DEF Shift
    <2> QED BY <1>2, <2>1, Called
  <1>5. Shift(frames, Append(t, g),
              ScopesAt(Top.in, back) - ScopesAt(Top.in, Top.at) + ScopesAt(function, first),
              BracesAt(Top.in, back) - BracesAt(Top.in, Top.at) + BracesAt(function, first))
    <2>1. /\ ScopesAt(Top.in, back) - ScopesAt(Top.in, Top.at) \in Int
          /\ BracesAt(Top.in, back) - BracesAt(Top.in, Top.at) \in Int
          /\ ScopesAt(function, first) \in Int /\ BracesAt(function, first) \in Int
      BY AreNumbers
    <2> QED BY <1>3, <1>4, <2>1, Shifts, Zenon
  <1> QED BY <1>1, <1>5 DEF Counts

\* The top frame returns something else than NULL.
LEMMA OnReturn ==
  ASSUME CleanStack(frames), NEW r, Return(r), r /= "null", Top.in /= "module"
  PROVE  Counts(-ScopesAt(Top.in, Top.at), -BracesAt(Top.in, Top.at))
PROOF
  <1>1. frames' = SubSeq(frames, 1, Len(frames) - 1) /\ ret' /= "null"
    BY DEF Return
  <1> QED BY <1>1, Returned DEF Counts, Top

\* What a token that is read counts for.
LEMMA OnAdvance ==
  ASSUME Advance, open \in Int
  PROVE  /\ cur = "{" => open' = open + 1
         /\ cur = "}" => open' = open - 1
         /\ cur \notin {"{", "}"} => open' = open
PROOF
  <1> DEFINE n == IF cur = "{" THEN 1 ELSE IF cur = "}" THEN -1 ELSE 0
  <1>1. open' = open + n
    BY DEF Advance
  <1>2. /\ cur = "{" => n = 1
        /\ cur = "}" => n = -1
        /\ cur \notin {"{", "}"} => n = 0
    OBVIOUS
  <1> HIDE DEF n
  <1>3. CASE cur = "{"
    BY <1>1, <1>2, <1>3
  <1>4. CASE cur = "}"
    <2>1. open' = open + (-1)
      BY <1>1, <1>2, <1>4
    <2>2. \A k \in Int : k + (-1) = k - 1
      OBVIOUS
    <2>3. open' = open - 1
      BY <2>1, <2>2
    <2> QED BY <1>4, <2>3
  <1>5. CASE cur \notin {"{", "}"}
    <2>1. open' = open + 0
      BY <1>1, <1>2, <1>5
    <2>2. \A k \in Int : k + 0 = k
      OBVIOUS
    <2>3. open' = open
      BY <2>1, <2>2
    <2> QED BY <1>5, <2>3
  <1>6. cur = "{" \/ cur = "}" \/ cur \notin {"{", "}"}
    OBVIOUS
  <1> QED BY <1>3, <1>4, <1>5, <1>6, Zenon

\* A step that stays in its scope.
LEMMA SameScope ==
  ASSUME Clean, NEW n \in Int, Counts(0, n), scopes' = scopes, open' = open + n,
         needSync' = needSync
  PROVE  Clean'
PROOF
  <1>1. Cardinality(ScopeFrames(frames)) \in Nat /\ Cardinality(BraceFrames(frames)) \in Nat
    BY TopOfStack DEF Clean
  <1> QED BY <1>1 DEF Clean, Counts, Shift, CleanScopes

\* A step that enters one: enterScope().
LEMMA EntersScope ==
  ASSUME Clean, NEW n \in Int, Counts(1, n), NEW kind \in Int, scopes' = Entered(kind),
         open' = open + n, needSync' = needSync
  PROVE  Clean'
PROOF
  <1>1. Cardinality(ScopeFrames(frames)) \in Nat /\ Cardinality(BraceFrames(frames)) \in Nat
    BY TopOfStack DEF Clean
  <1>2. Depth(kind) \in Int
    BY DEF Depth, Scope, Block, Clean, CleanScopes
  <1>3. CleanScopes' /\ Len(scopes') = Len(scopes) + 1
    BY <1>2 DEF Clean, CleanScopes, Entered
  <1> QED BY <1>1, <1>3 DEF Clean, Counts, Shift

\* A step that leaves one, which is never the module's: leaveScope().
LEMMA LeavesScope ==
  ASSUME Clean, NEW n \in Nat, Counts(-1, -n), scopes' = Left, open' = open - n,
         needSync' = needSync
  PROVE  Clean'
PROOF
  <1>1. /\ Cardinality(ScopeFrames(frames)) \in Nat /\ Cardinality(BraceFrames(frames)) \in Nat
        /\ Cardinality(ScopeFrames(frames')) \in Nat
    BY TopOfStack DEF Clean, Counts, Shift
  <1>2. Len(scopes) >= 2
    BY <1>1 DEF Clean, Counts, Shift
  <1>3. CleanScopes' /\ Len(scopes') = Len(scopes) - 1
    BY <1>2 DEF Clean, CleanScopes, Left
  <1> QED BY <1>1, <1>3 DEF Clean, Counts, Shift

\* The frames below the places where a struct begins own no scope.
LEMMA LowStack ==
  ASSUME Clean
  PROVE  /\ Len(frames) = 1 => open = 0
         /\ In("struct", "brace") => Scope = ModuleNamespace
PROOF
  <1> USE DEF Clean
  <1>1. Len(frames) = 1 => BraceFrames(frames) = {}
    BY TopOfStack DEF BraceFrames, HoldsBrace, CleanStack, CleanFrame
  <1>2. In("struct", "brace") => ScopeFrames(frames) = {}
    <2>1. SUFFICES ASSUME In("struct", "brace") PROVE \A i \in 1..Len(frames) : ~HoldsScope(frames[i])
      BY TopOfStack DEF ScopeFrames
    <2>2. Len(frames) = 2 /\ frames[2].in = "struct" /\ frames[2].at = "brace"
      BY <2>1, TopIsClean DEF In, Top
    <2>3. frames[1].in = "module" /\ CleanPlace(frames[1].in, frames[1].at)
      BY <2>2 DEF CleanStack, CleanFrame
    <2>4. ~HoldsScope(frames[1]) /\ ~HoldsScope(frames[2])
      BY <2>2, <2>3 DEF CleanPlace, HoldsScope
    <2> QED BY <2>2, <2>4
  <1>3. Cardinality({}) = 0
    BY FS_EmptySet
  <1>4. In("struct", "brace") => Len(scopes) = 1
    BY <1>2, <1>3
  <1> QED BY <1>1, <1>3, <1>4 DEF Scope, CleanScopes

-----------------------------------------------------------------------------
(* The steps.                                                              *)
\* What such a step has to show of the state after it.
Goal ==
  \/ phase' = "parse" /\ Clean'
  \/ phase' = "done" /\ open' = 0

\* Where the top of the stack is decides what it counts for.
LEMMA Weights ==
  /\ \A function \in Functions, place \in Places :
       function \notin {"if", "struct"} =>
         ScopesAt(function, place) = (IF place = "end" THEN 1 ELSE 0)
  /\ \A place \in Places :
       /\ ScopesAt("if", place) =
            (IF place \in {"end", "then", "thenDone", "elseDone"} THEN 1 ELSE 0)
       /\ ScopesAt("struct", place) = (IF place \in {"head", "brace"} THEN 0 ELSE 1)
       /\ BracesAt("struct", place) = (IF place \in {"head", "brace"} THEN 0 ELSE 1)
  /\ \A function \in Functions, place \in Places :
       function /= "struct" =>
         BracesAt(function, place) = (IF function \in {"block", "deferBlock"} THEN 1 ELSE 0)
  BY DEF ScopesAt, BracesAt, HoldsScope, HoldsBrace, Frame

\* parseModuleBody(): without an error there is nothing to skip.
LEMMA ModuleSteps ==
  ASSUME Clean, phase = "parse", ModuleNext, hadError' = FALSE
  PROVE  Goal
PROOF
  <1>1. CleanStack(frames) /\ open \in Int /\ needSync = FALSE /\ ret /= "null"
    BY TopOfStack DEF Clean
  <1>2. CASE ModuleItem
    <2>1. /\ Top.in = "module" /\ Top.at = "item" /\ phase' = "parse" /\ scopes' = scopes
          /\ Goto("sync") \/ Call("fn", "head", "decl") \/ Call("struct", "head", "decl")
      BY <1>2 DEF ModuleItem, In, Report
    <2>2. needSync' = needSync
      BY <1>2 DEF ModuleItem, Report, NoReport, flagVars
    <2>4. open' = open
      <3>1. \/ open' = open
            \/ Advance /\ cur \in {"var", "import", "fn", "struct"}
        BY <1>2 DEF ModuleItem, tokenVars
      <3> QED BY <1>1, <3>1, OnAdvance
    <2>3. Counts(0, 0)
      <3>1. CASE Goto("sync")
        BY <1>1, <2>1, <3>1, OnGoto, Weights DEF CleanPlace, Places, Functions
      <3>2. CASE Call("fn", "head", "decl")
        BY <1>1, <2>1, <3>2, OnCall, Weights DEF CleanPlace, Places, Functions
      <3>3. CASE Call("struct", "head", "decl")
        BY <1>1, <2>1, <3>3, OnCall, Weights DEF CleanPlace, Places, Functions
      <3> QED BY <2>1, <3>1, <3>2, <3>3
    <2> QED BY <1>1, <2>1, <2>2, <2>3, <2>4, SameScope DEF Goal
  <1>3. CASE ModuleDeclared
    <2>1. /\ Top.in = "module" /\ Top.at = "decl" /\ phase' = "parse" /\ scopes' = scopes
          /\ needSync' = needSync /\ open' = open /\ Goto("sync")
      BY <1>1, <1>3 DEF ModuleDeclared, In, Report, NoReport, flagVars, tokenVars
    <2>2. Counts(0, 0)
      BY <1>1, <2>1, OnGoto, Weights DEF CleanPlace, Places, Functions
    <2> QED BY <1>1, <2>1, <2>2, SameScope DEF Goal
  <1>4. CASE ModuleSync
    <2>1. /\ Top.in = "module" /\ Top.at = "sync" /\ phase' = "parse" /\ scopes' = scopes
          /\ needSync' = needSync /\ open' = open /\ Goto("item")
      BY <1>1, <1>4 DEF ModuleSync, In, tokenVars
    <2>2. Counts(0, 0)
      BY <1>1, <2>1, OnGoto, Weights DEF CleanPlace, Places, Functions
    <2> QED BY <1>1, <2>1, <2>2, SameScope DEF Goal
  <1>5. CASE ModuleSkip
    BY <1>1, <1>5, TopIsClean DEF ModuleSkip, CleanPlace, In
  <1>6. CASE ModuleEnd
    <2>1. Top.in = "module" /\ phase' = "done" /\ open' = open
      BY <1>6 DEF ModuleEnd, In, tokenVars
    <2> QED BY <1>1, <2>1, TopIsClean, LowStack DEF Goal
  <1> QED BY <1>2, <1>3, <1>4, <1>5, <1>6 DEF ModuleNext

\* parseStructDecl(): a struct without an error skips nothing and owns a scope.
LEMMA StructSteps ==
  ASSUME Clean, phase = "parse", StructNext, hadError' = FALSE
  PROVE  Goal
PROOF
  <1>1. CleanStack(frames) /\ open \in Int /\ needSync = FALSE /\ ret /= "null"
    BY TopOfStack DEF Clean
  <1>2. CASE StructHead
    <2>1. /\ Top.in = "struct" /\ Top.at = "head" /\ phase' = "parse" /\ scopes' = scopes
          /\ needSync' = needSync /\ Goto("brace") /\ Advance /\ cur = "name"
      BY <1>2 DEF StructHead, In, NotConsumed, Fail, Report, NoReport, flagVars
    <2>2. open' = open
      BY <1>1, <2>1, OnAdvance
    <2>3. Counts(0, 0)
      BY <1>1, <2>1, OnGoto, Weights DEF CleanPlace, Places, Functions
    <2> QED BY <1>1, <2>1, <2>2, <2>3, SameScope DEF Goal
  <1>3. CASE StructBrace
    <2>1. MayEnter(Struct)
      BY <1>3, LowStack DEF StructBrace, MayEnter
    <2>2. /\ Top.in = "struct" /\ Top.at = "brace" /\ phase' = "parse"
          /\ scopes' = Entered(Struct) /\ needSync' = needSync /\ Goto("fields")
          /\ Advance /\ cur = "{"
      BY <1>3, <2>1 DEF StructBrace, In, NotConsumed, Fail, Report, NoReport, flagVars
    <2>3. open' = open + 1
      BY <1>1, <2>2, OnAdvance
    <2>4. Counts(1, 1)
      <3>1. /\ ScopesAt("struct", "fields") - ScopesAt("struct", "brace") = 1
            /\ BracesAt("struct", "fields") - BracesAt("struct", "brace") = 1
        BY Weights DEF Places
      <3>2. "fields" \in Places /\ CleanPlace("struct", "fields")
        BY DEF CleanPlace, Places
      <3>3. Counts(ScopesAt("struct", "fields") - ScopesAt("struct", "brace"),
                   BracesAt("struct", "fields") - BracesAt("struct", "brace"))
        BY <1>1, <2>2, <3>2, OnGoto
      <3> QED BY <3>1, <3>3
    <2>5. Struct \in Int /\ 1 \in Int
      BY DEF Struct
    <2>6. Clean'
      BY <1>1, <2>2, <2>3, <2>4, <2>5, EntersScope, Zenon
    <2> QED BY <2>2, <2>6 DEF Goal
  <1>4. CASE StructField
    <2>1. /\ Top.in = "struct" /\ Top.at = "fields" /\ phase' = "parse" /\ scopes' = scopes
          /\ needSync' = needSync
      BY <1>4 DEF StructField, In, Report, NoReport, flagVars
    <2>2. CASE Advance /\ cur = "name" /\ frames' = frames /\ ret' = ret
      <3>1. open' = open
        BY <1>1, <2>2, OnAdvance
      <3>2. Clean'
        BY <2>1, <2>2, <3>1 DEF Clean, CleanScopes
      <3> QED BY <2>1, <3>2 DEF Goal
    <2>3. CASE Goto("badField") /\ open' = open
      <3>1. Counts(0, 0)
        BY <1>1, <2>1, <2>3, OnGoto, Weights DEF CleanPlace, Places, Functions
      <3> QED BY <1>1, <2>1, <2>3, <3>1, SameScope DEF Goal
    <2> QED BY <1>4, <2>2, <2>3 DEF StructField, Report, tokenVars
  <1>5. CASE StructFieldsDone
    <2>1. /\ Top.in = "struct" /\ Top.at = "fields" /\ phase' = "parse" /\ scopes' = scopes
          /\ needSync' = needSync /\ open' = open /\ Goto("methods")
      BY <1>1, <1>5, TopIsClean DEF StructFieldsDone, In, tokenVars, flagVars
    <2>2. Counts(0, 0)
      BY <1>1, <2>1, OnGoto, Weights DEF CleanPlace, Places, Functions
    <2> QED BY <1>1, <2>1, <2>2, SameScope DEF Goal
  <1>6. CASE StructBadMember
    BY <1>6 DEF StructBadMember, Report
  <1>7. CASE StructMethod
    <2>1. /\ Top.in = "struct" /\ Top.at = "methods" /\ phase' = "parse" /\ scopes' = scopes
          /\ needSync' = needSync
      BY <1>7 DEF StructMethod, In, flagVars
    <2>2. CASE cur = "fn" /\ Advance /\ Call("fn", "head", "method")
      <3>1. open' = open
        BY <1>1, <2>2, OnAdvance
      <3>2. Counts(0, 0)
        BY <1>1, <2>1, <2>2, OnCall, Weights DEF CleanPlace, Places, Functions
      <3> QED BY <1>1, <2>1, <3>1, <3>2, SameScope DEF Goal
    <2>3. CASE Goto("badMethod") /\ open' = open
      <3>1. Counts(0, 0)
        BY <1>1, <2>1, <2>3, OnGoto, Weights DEF CleanPlace, Places, Functions
      <3> QED BY <1>1, <2>1, <2>3, <3>1, SameScope DEF Goal
    <2> QED BY <1>7, <2>2, <2>3 DEF StructMethod, tokenVars
  <1>8. CASE StructMethodDone
    <2>1. /\ Top.in = "struct" /\ Top.at = "method" /\ phase' = "parse" /\ scopes' = scopes
          /\ needSync' = needSync /\ open' = open /\ Goto("methods")
      BY <1>1, <1>8 DEF StructMethodDone, In, tokenVars, flagVars
    <2>2. Counts(0, 0)
      BY <1>1, <2>1, OnGoto, Weights DEF CleanPlace, Places, Functions
    <2> QED BY <1>1, <2>1, <2>2, SameScope DEF Goal
  <1>9. CASE StructSkip
    BY <1>1, <1>9, TopIsClean DEF StructSkip, CleanPlace, In
  <1>10. CASE StructClose
    <2>1. /\ Top.in = "struct" /\ Top.at = "methods" /\ phase' = "parse" /\ scopes' = Left
          /\ needSync' = needSync /\ Advance /\ cur = "}" /\ Return("ok")
      BY <1>10 DEF StructClose, In, flagVars
    <2>2. open' = open - 1
      BY <1>1, <2>1, OnAdvance
    <2>3. Counts(-1, -1)
      BY <1>1, <2>1, OnReturn, Weights DEF Places, Functions
    <2> QED BY <1>1, <2>1, <2>2, <2>3, LeavesScope DEF Goal
  <1> QED BY <1>2, <1>3, <1>4, <1>5, <1>6, <1>7, <1>8, <1>9, <1>10 DEF StructNext

\* parseBlockStmt(): without an error no block is synchronised.
LEMMA BlockSteps ==
  ASSUME Clean, phase = "parse", BlockNext, hadError' = FALSE
  PROVE  Goal
PROOF
  <1>1. CleanStack(frames) /\ open \in Int /\ needSync = FALSE /\ ret /= "null"
    BY TopOfStack DEF Clean
  <1>2. ASSUME NEW place \in {"loop", "check"}, NEW back \in {"loop", "check"},
               Top.in \in {"block", "deferBlock"}, Top.at = place,
               frames' = [frames EXCEPT ![Len(frames)].at = back], ret' /= "null"
        PROVE  Counts(0, 0)
    <2>1. back \in Places /\ CleanPlace(Top.in, back) /\ place \in Places
      BY <1>2 DEF Places, CleanPlace
    <2>2. /\ ScopesAt(Top.in, back) - ScopesAt(Top.in, Top.at) = 0
          /\ BracesAt(Top.in, back) - BracesAt(Top.in, Top.at) = 0
      BY <1>2, <2>1, Weights DEF Functions
    <2>3. Shift(frames, frames', ScopesAt(Top.in, back) - ScopesAt(Top.in, Top.at),
                                 BracesAt(Top.in, back) - BracesAt(Top.in, Top.at))
      BY <1>1, <1>2, <2>1, NextTop
    <2> QED BY <1>2, <2>2, <2>3 DEF Counts
  <1>3. CASE BlockStatement \/ DeferBlockStatement
    <2>1. /\ Top.in \in {"block", "deferBlock"} /\ Top.at = "loop" /\ phase' = "parse"
          /\ frames' = [frames EXCEPT ![Len(frames)].at = "check"]
          /\ scopes' = scopes /\ Advance
      BY <1>3 DEF BlockStatement, DeferBlockStatement, Statement, In
    <2>2. needSync' = needSync /\ ret' /= "null" /\ cur \in {"var", "return", "name"}
      BY <1>3 DEF BlockStatement, DeferBlockStatement, Statement, Report, NoReport, flagVars
    <2>3. Counts(0, 0)
      BY <1>2, <2>1, <2>2
    <2>4. open' = open
      BY <1>1, <2>1, <2>2, OnAdvance
    <2> QED BY <1>1, <2>1, <2>2, <2>3, <2>4, SameScope DEF Goal
  <1>4. CASE BlockCompound /\ cur = "{"
    <2>1. /\ Top.in = "block" /\ Top.at = "loop" /\ phase' = "parse"
          /\ frames' = [frames EXCEPT ![Len(frames)].at = "check"]
                         \o <<Frame("braces", "end"), Frame("block", "loop")>>
          /\ scopes' = Entered(Block) /\ Advance /\ ret' = "none" /\ needSync' = needSync
      BY <1>4 DEF BlockCompound, In, flagVars
    <2>2. open' = open + 1
      BY <1>1, <1>4, <2>1, OnAdvance
    <2>3. Counts(1, 1)
      <3> DEFINE s == WithTop(frames, [Top EXCEPT !.at = "check"])
                 f == Frame("braces", "end")
                 g == Frame("block", "loop")
      <3>1. /\ "check" \in Places /\ CleanPlace(Top.in, "check") /\ "loop" \in Places
            /\ CleanPlace("braces", "end") /\ CleanPlace("block", "loop")
            /\ "block" \in Functions /\ "braces" \in Functions /\ "end" \in Places
        BY <2>1 DEF Places, CleanPlace, Functions
      <3>2. /\ s = [frames EXCEPT ![Len(frames)].at = "check"]
            /\ Shift(frames, s, ScopesAt(Top.in, "check") - ScopesAt(Top.in, Top.at),
                                BracesAt(Top.in, "check") - BracesAt(Top.in, Top.at))
        BY <1>1, <3>1, NextTop
      <3>3. /\ f \in Frames /\ f.in = "braces" /\ f.at = "end"
            /\ g \in Frames /\ g.in = "block" /\ g.at = "loop"
        BY <3>1 DEF Frame, Frames
      <3>4. /\ ScopesAt("block", "check") - ScopesAt("block", "loop") = 0
            /\ BracesAt("block", "check") - BracesAt("block", "loop") = 0
            /\ ScopesAt("braces", "end") = 1 /\ BracesAt("braces", "end") = 0
            /\ ScopesAt("block", "loop") = 0 /\ BracesAt("block", "loop") = 1
        BY <3>1, Weights
      <3>5. Shift(frames, s, 0, 0)
        BY <2>1, <3>2, <3>4
      <3>6. frames' = s \o <<f, g>>
        BY <2>1, <3>2
      <3> HIDE DEF s, f, g
      <3>7. CleanStack(s) /\ s \in Seq(Frames)
        BY <3>5 DEF Shift, CleanStack
      <3>8. frames' = Append(Append(s, f), g)
        BY <3>3, <3>6, <3>7
      <3>9. Shift(s, Append(s, f), 1, 0)
        BY <3>1, <3>3, <3>4, <3>7, Called
      <3>10. Shift(Append(s, f), Append(Append(s, f), g), 0, 1)
        <4>1. CleanStack(Append(s, f))
          BY <3>9 DEF Shift
        <4> QED BY <3>1, <3>3, <3>4, <4>1, Called
      <3>11. Shift(frames, Append(s, f), 1, 0)
        BY <1>1, <3>5, <3>9, Shifts
      <3>12. Shift(frames, Append(Append(s, f), g), 1, 1)
        BY <1>1, <3>10, <3>11, Shifts
      <3> QED BY <2>1, <3>8, <3>12 DEF Counts
    <2>4. Block \in Int /\ 1 \in Int
      BY DEF Block
    <2>5. Clean'
      BY <1>1, <2>1, <2>2, <2>3, <2>4, EntersScope, Zenon
    <2> QED BY <2>1, <2>5 DEF Goal
  <1>5. CASE BlockCompound /\ cur /= "{"
    <2>1. PICK first \in {"start", "cond"} :
            /\ Top.in = "block" /\ Top.at = "loop" /\ phase' = "parse" /\ scopes' = scopes
            /\ Advance /\ needSync' = needSync
            /\ cur \in {"if", "while", "defer", "expect"}
            /\ first = (IF cur = "defer" THEN "start" ELSE "cond")
            /\ Call(cur, first, "check")
      BY <1>5 DEF BlockCompound, In, flagVars
    <2>2. open' = open
      BY <1>1, <2>1, OnAdvance
    <2>3. /\ cur \in Functions /\ first \in Places /\ "check" \in Places /\ "loop" \in Places
          /\ CleanPlace("block", "check") /\ CleanPlace(cur, first) /\ "block" \in Functions
      BY <2>1 DEF Functions, Places, CleanPlace
    <2>4. /\ ScopesAt("block", "check") - ScopesAt("block", "loop") + ScopesAt(cur, first) = 0
          /\ BracesAt("block", "check") - BracesAt("block", "loop") + BracesAt(cur, first) = 0
      <3>1. /\ ScopesAt("block", "check") = 0 /\ ScopesAt("block", "loop") = 0
            /\ BracesAt("block", "check") = 1 /\ BracesAt("block", "loop") = 1
        BY <2>3, Weights
      <3>2. ScopesAt(cur, first) = 0 /\ BracesAt(cur, first) = 0
        BY <2>1, <2>3, Weights
      <3> QED BY <3>1, <3>2
    <2>5. Counts(ScopesAt("block", "check") - ScopesAt("block", "loop") + ScopesAt(cur, first),
                 BracesAt("block", "check") - BracesAt("block", "loop") + BracesAt(cur, first))
      BY <1>1, <2>1, <2>3, OnCall
    <2>6. Counts(0, 0)
      BY <2>4, <2>5
    <2> QED BY <1>1, <2>1, <2>2, <2>6, SameScope DEF Goal
  <1>6. CASE BlockCheck
    <2>1. /\ Top.in \in {"block", "deferBlock"} /\ Top.at = "check" /\ phase' = "parse"
          /\ scopes' = scopes /\ open' = open
      BY <1>6 DEF BlockCheck, In, tokenVars
    <2>2. /\ needSync' = needSync
          /\ Goto("loop") \/ GotoFlagged("loop")
      BY <1>1, <1>6 DEF BlockCheck, Fail, Report, NoReport, flagVars
    <2>3. CASE Goto("loop")
      <3>1. Counts(0, 0)
        BY <1>2, <2>1, <2>3 DEF Goto
      <3> QED BY <1>1, <2>1, <2>2, <3>1, SameScope DEF Goal
    <2>4. CASE GotoFlagged("loop")
      <3> DEFINE f == [Top EXCEPT !.at = "loop", !.flag = TRUE]
      <3>1. frames' = WithTop(frames, f) /\ ret' /= "null"
        BY <2>4 DEF GotoFlagged, WithTop, Top
      <3>2. f \in Frames /\ f.in = Top.in /\ f.at = "loop"
        BY <1>1, TopIsClean DEF Frames, Places
      <3>3. CleanPlace(f.in, f.at) /\ f.in /= "struct" /\ f.in \in Functions
        BY <2>1, <3>2 DEF CleanPlace, Functions
      <3> HIDE DEF f
      <3>4. Shift(frames, WithTop(frames, f), ScopesAt(Top.in, "loop") - ScopesAt(Top.in, "check"),
                                              BracesAt(Top.in, "loop") - BracesAt(Top.in, "check"))
        BY <1>1, <2>1, <3>2, <3>3, Moved DEF Top
      <3>5. /\ ScopesAt(Top.in, "loop") - ScopesAt(Top.in, "check") = 0
            /\ BracesAt(Top.in, "loop") - BracesAt(Top.in, "check") = 0
        BY <2>1, Weights DEF Functions, Places
      <3>6. Counts(0, 0)
        BY <3>1, <3>4, <3>5 DEF Counts
      <3> QED BY <1>1, <2>1, <2>2, <3>6, SameScope DEF Goal
    <2> QED BY <2>2, <2>3, <2>4
  <1>7. CASE BlockSync
    BY <1>1, <1>7, TopIsClean DEF BlockSync, CleanPlace, In
  <1>8. CASE BlockClose
    <2>1. /\ Top.in \in {"block", "deferBlock"} /\ Top.at = "loop" /\ phase' = "parse"
          /\ scopes' = scopes
      BY <1>8 DEF BlockClose, In
    <2>2. cur = "}" /\ Advance /\ needSync' = needSync /\ Return("ok")
      BY <1>8 DEF BlockClose, Closes, Fail, Report, NoReport, flagVars
    <2>3. open' = open - 1
      BY <1>1, <2>2, OnAdvance
    <2>4. -ScopesAt(Top.in, Top.at) = 0 /\ -BracesAt(Top.in, Top.at) = -1
      BY <2>1, Weights DEF Functions, Places
    <2>5. Counts(-ScopesAt(Top.in, Top.at), -BracesAt(Top.in, Top.at))
      BY <1>1, <2>1, <2>2, OnReturn
    <2>6. Counts(0, -1)
      BY <2>4, <2>5
    <2>7. -1 \in Int /\ open' = open + (-1)
      BY <1>1, <2>3
    <2>8. Clean'
      BY <2>1, <2>2, <2>6, <2>7, SameScope, Zenon
    <2> QED BY <2>1, <2>8 DEF Goal
  <1> QED BY <1>3, <1>4, <1>5, <1>6, <1>7, <1>8 DEF BlockNext

\* A statement that goes on in the scope it is in.
LEMMA StaysInScope ==
  ASSUME Clean, NEW place \in Places, CleanPlace(Top.in, place), Goto(place),
         Top.in \in Functions, Top.at \in Places,
         ScopesAt(Top.in, place) = ScopesAt(Top.in, Top.at),
         BracesAt(Top.in, place) = BracesAt(Top.in, Top.at),
         scopes' = scopes, open' = open, needSync' = needSync
  PROVE  Clean'
PROOF
  <1>1. CleanStack(frames) /\ open \in Int
    BY TopOfStack DEF Clean
  <1>2. /\ ScopesAt(Top.in, place) - ScopesAt(Top.in, Top.at) = 0
        /\ BracesAt(Top.in, place) - BracesAt(Top.in, Top.at) = 0
    BY AreNumbers
  <1>3. Counts(ScopesAt(Top.in, place) - ScopesAt(Top.in, Top.at),
               BracesAt(Top.in, place) - BracesAt(Top.in, Top.at))
    BY <1>1, OnGoto
  <1>4. Counts(0, 0)
    BY <1>2, <1>3
  <1> QED BY <1>1, <1>4, SameScope

\* A block of the top frame's own: its scope is entered with the brace.
LEMMA OpensBlock ==
  ASSUME Clean, NEW function \in {"block", "deferBlock"}, NEW back \in Places,
         OpenBlock(function, back),
         Top.in \in Functions, Top.at \in Places, Top.in \notin {"struct", "block", "deferBlock"},
         CleanPlace(Top.in, back),
         ScopesAt(Top.in, back) = 1, ScopesAt(Top.in, Top.at) = 0
  PROVE  phase' = phase /\ Clean'
PROOF
  <1>1. CleanStack(frames) /\ open \in Int
    BY TopOfStack DEF Clean
  <1>2. /\ cur = "{" /\ Advance /\ scopes' = Entered(Block) /\ Call(function, "loop", back)
        /\ needSync' = needSync /\ phase' = phase
    BY DEF OpenBlock, flagVars
  <1>3. open' = open + 1
    BY <1>1, <1>2, OnAdvance
  <1>4. function \in Functions /\ "loop" \in Places /\ CleanPlace(function, "loop")
    BY DEF Functions, Places, CleanPlace
  <1>5. /\ ScopesAt(Top.in, back) - ScopesAt(Top.in, Top.at) + ScopesAt(function, "loop") = 1
        /\ BracesAt(Top.in, back) - BracesAt(Top.in, Top.at) + BracesAt(function, "loop") = 1
    <2>1. ScopesAt(function, "loop") = 0 /\ BracesAt(function, "loop") = 1
      BY <1>4, Weights
    <2>2. BracesAt(Top.in, back) = 0 /\ BracesAt(Top.in, Top.at) = 0
      BY Weights
    <2> QED BY <2>1, <2>2
  <1>6. Counts(ScopesAt(Top.in, back) - ScopesAt(Top.in, Top.at) + ScopesAt(function, "loop"),
               BracesAt(Top.in, back) - BracesAt(Top.in, Top.at) + BracesAt(function, "loop"))
    BY <1>1, <1>2, <1>4, OnCall
  <1>7. Counts(1, 1)
    BY <1>5, <1>6
  <1>8. Block \in Int /\ 1 \in Int
    BY DEF Block
  <1>9. Clean'
    BY <1>2, <1>3, <1>7, <1>8, EntersScope, Zenon
  <1> QED BY <1>2, <1>9

\* A statement ends: its scope, if it owns one, is left with it.
LEMMA Ends ==
  ASSUME Clean, NEW r, Return(r), r /= "null", Top.in \in Functions, Top.at \in Places,
         Top.in \notin {"module", "struct", "block", "deferBlock"},
         \/ ScopesAt(Top.in, Top.at) = 0 /\ scopes' = scopes
         \/ ScopesAt(Top.in, Top.at) = 1 /\ scopes' = Left,
         open' = open, needSync' = needSync
  PROVE  Clean'
PROOF
  <1>1. CleanStack(frames) /\ open \in Int
    BY TopOfStack DEF Clean
  <1>2. Counts(-ScopesAt(Top.in, Top.at), -BracesAt(Top.in, Top.at))
    BY <1>1, OnReturn
  <1>3. BracesAt(Top.in, Top.at) = 0
    BY Weights
  <1>4. CASE ScopesAt(Top.in, Top.at) = 0 /\ scopes' = scopes
    <2>1. Counts(0, 0)
      <3>1. ScopesAt(Top.in, Top.at) = 0 /\ BracesAt(Top.in, Top.at) = 0
        BY <1>3, <1>4
      <3>2. Cardinality(ScopeFrames(frames)) \in Nat /\ Cardinality(BraceFrames(frames)) \in Nat
        BY <1>1, TopOfStack
      <3> QED BY <1>2, <3>1, <3>2 DEF Counts, Shift
    <2> QED BY <1>1, <1>4, <2>1, SameScope
  <1>5. CASE ScopesAt(Top.in, Top.at) = 1 /\ scopes' = Left
    <2>1. Counts(-1, -0)
      <3>1. -ScopesAt(Top.in, Top.at) = -1 /\ -BracesAt(Top.in, Top.at) = -0
        BY <1>3, <1>5
      <3> QED BY <1>2, <3>1
    <2>2. 0 \in Nat /\ open' = open - 0
      BY <1>1
    <2> QED BY <1>5, <2>1, <2>2, LeavesScope, Zenon
  <1> QED BY <1>4, <1>5

\* The statements: each leaves the scope it has entered.
LEMMA StatementSteps ==
  ASSUME Clean, phase = "parse", StatementNext, hadError' = FALSE
  PROVE  Goal
PROOF
  <1>1. CleanStack(frames) /\ open \in Int /\ needSync = FALSE /\ ret /= "null"
    BY TopOfStack DEF Clean
  <1> USE DEF Goal
  <1>2. CASE FnHead \/ WhileCond \/ ExpectCond
    <2>1. PICK place \in {"brace", "tail"} :
            /\ \/ Top.in = "fn" /\ Top.at = "head" /\ place = "brace"
               \/ Top.in = "while" /\ Top.at = "cond" /\ place = "brace"
               \/ Top.in = "expect" /\ Top.at = "cond" /\ place = "tail"
            /\ Expression(place)
      BY <1>2 DEF FnHead, WhileCond, ExpectCond, In, NotConsumed, Fail, Report
    <2>2. /\ Advance /\ cur = "name" /\ Goto(place) /\ needSync' = needSync
          /\ phase' = phase /\ scopes' = scopes
      BY <2>1 DEF Expression, Fail, Report, NoReport, flagVars
    <2>3. open' = open
      BY <1>1, <2>2, OnAdvance
    <2>4. /\ place \in Places /\ CleanPlace(Top.in, place) /\ Top.in \in Functions /\ Top.at \in Places
      BY <2>1 DEF Places, CleanPlace, Functions
    <2>5. /\ ScopesAt(Top.in, place) = ScopesAt(Top.in, Top.at)
          /\ BracesAt(Top.in, place) = BracesAt(Top.in, Top.at)
      BY <2>1, <2>4, Weights
    <2> QED BY <2>2, <2>3, <2>4, <2>5, StaysInScope
  <1>3. CASE FnBrace \/ BodyBrace
    <2>1. /\ Top.in \in {"fn", "while", "expect"} /\ Top.at = "brace"
          /\ OpenBlock("block", "end")
      BY <1>3 DEF FnBrace, BodyBrace, In, NotConsumed, Fail, Report
    <2>2. "end" \in Places /\ CleanPlace(Top.in, "end") /\ Top.in \in Functions /\ Top.at \in Places
      BY <2>1 DEF Places, CleanPlace, Functions
    <2>3. ScopesAt(Top.in, "end") = 1 /\ ScopesAt(Top.in, Top.at) = 0
      BY <2>1, <2>2, Weights
    <2> QED BY <2>1, <2>2, <2>3, OpensBlock
  <1>4. CASE ExpectTail
    <2>1. Top.in = "expect" /\ Top.at = "tail" /\ scopes' = scopes /\ phase' = phase
      BY <1>4 DEF ExpectTail, In
    <2>2. /\ Advance /\ cur \in {";", "else"} /\ needSync' = needSync
          /\ Return("ok") \/ Goto("brace")
      BY <1>4 DEF ExpectTail, Fail, Report, NoReport, flagVars
    <2>3. open' = open
      BY <1>1, <2>2, OnAdvance
    <2>4. /\ "brace" \in Places /\ CleanPlace(Top.in, "brace") /\ Top.in \in Functions /\ Top.at \in Places
      BY <2>1 DEF Places, CleanPlace, Functions
    <2>5. /\ ScopesAt(Top.in, "brace") = ScopesAt(Top.in, Top.at) /\ ScopesAt(Top.in, Top.at) = 0
          /\ BracesAt(Top.in, "brace") = BracesAt(Top.in, Top.at)
      BY <2>1, <2>4, Weights
    <2>6. CASE Return("ok")
      BY <2>1, <2>2, <2>3, <2>4, <2>5, <2>6, Ends
    <2>7. CASE Goto("brace")
      BY <2>1, <2>2, <2>3, <2>4, <2>5, <2>7, StaysInScope
    <2> QED BY <2>2, <2>6, <2>7
  <1>5. CASE DeferStart
    <2>1. Top.in = "defer" /\ Top.at = "start"
      BY <1>5 DEF DeferStart, In
    <2>2. /\ "end" \in Places /\ CleanPlace(Top.in, "end") /\ Top.in \in Functions /\ Top.at \in Places
      BY <2>1 DEF Places, CleanPlace, Functions
    <2>3. ScopesAt(Top.in, "end") = 1 /\ ScopesAt(Top.in, Top.at) = 0
      BY <2>1, <2>2, Weights
    <2>4. CASE OpenBlock("deferBlock", "end")
      BY <2>1, <2>2, <2>3, <2>4, OpensBlock
    <2>5. CASE /\ Advance /\ cur = "name" /\ NoReport /\ Return("ok")
               /\ UNCHANGED <<scopes, phase>>
      <3>1. open' = open /\ needSync' = needSync /\ phase' = phase /\ scopes' = scopes
        BY <1>1, <2>5, OnAdvance DEF NoReport, flagVars
      <3> QED BY <2>1, <2>2, <2>3, <2>5, <3>1, Ends
    <2> QED BY <1>5, <2>4, <2>5 DEF DeferStart, Fail, Report
  <1>6. CASE BlockEnd
    <2>1. /\ Top.in \in {"fn", "while", "expect", "defer", "braces"} /\ Top.at = "end"
          /\ scopes' = Left /\ Return("ok")
          /\ open' = open /\ needSync' = needSync /\ phase' = phase
      BY <1>1, <1>6 DEF BlockEnd, In, tokenVars, flagVars
    <2>2. ScopesAt(Top.in, Top.at) = 1 /\ Top.in \in Functions /\ Top.at \in Places
      BY <2>1, Weights DEF Places, Functions
    <2> QED BY <2>1, <2>2, Ends
  <1>7. CASE IfCond
    <2>1. Top.in = "if" /\ Top.at = "cond" /\ Advance /\ phase' = phase
      BY <1>7 DEF IfCond, In
    <2>2. cur = "name" /\ needSync' = needSync /\ Goto("then") /\ scopes' = Entered(Block)
      BY <1>7 DEF IfCond, Fail, Report, NoReport, flagVars
    <2>3. open' = open + 0
      BY <1>1, <2>1, <2>2, OnAdvance
    <2>4. "then" \in Places /\ "cond" \in Places /\ CleanPlace("if", "then") /\ "if" \in Functions
      BY DEF Places, CleanPlace, Functions
    <2>5. /\ ScopesAt("if", "then") - ScopesAt("if", "cond") = 1
          /\ BracesAt("if", "then") - BracesAt("if", "cond") = 0
      BY <2>4, Weights
    <2>6. Counts(ScopesAt("if", "then") - ScopesAt("if", "cond"),
                 BracesAt("if", "then") - BracesAt("if", "cond"))
      BY <1>1, <2>1, <2>2, <2>4, OnGoto
    <2>7. Counts(1, 0)
      BY <2>5, <2>6
    <2>8. Block \in Int /\ 0 \in Int
      BY DEF Block
    <2>9. Clean'
      BY <2>2, <2>3, <2>7, <2>8, EntersScope, Zenon
    <2> QED BY <2>1, <2>9
  <1>8. CASE IfThen
    <2>1. /\ Top.in = "if" /\ Top.at = "then" /\ cur = "{" /\ Advance
          /\ Call("block", "loop", "thenDone") /\ needSync' = needSync
          /\ phase' = phase /\ scopes' = scopes
      BY <1>8 DEF IfThen, In, NotConsumed, Fail, Report, NoReport, flagVars
    <2>2. open' = open + 1
      BY <1>1, <2>1, OnAdvance
    <2>3. /\ "then" \in Places /\ "thenDone" \in Places /\ "loop" \in Places
          /\ "if" \in Functions /\ "block" \in Functions
          /\ CleanPlace("if", "thenDone") /\ CleanPlace("block", "loop")
      BY DEF Places, CleanPlace, Functions
    <2>4. /\ ScopesAt("if", "thenDone") - ScopesAt("if", "then") + ScopesAt("block", "loop") = 0
          /\ BracesAt("if", "thenDone") - BracesAt("if", "then") + BracesAt("block", "loop") = 1
      <3>1. /\ ScopesAt("if", "thenDone") = 1 /\ ScopesAt("if", "then") = 1
            /\ ScopesAt("block", "loop") = 0
        BY <2>3, Weights
      <3>2. /\ BracesAt("if", "thenDone") = 0 /\ BracesAt("if", "then") = 0
            /\ BracesAt("block", "loop") = 1
        BY <2>3, Weights
      <3> QED BY <3>1, <3>2
    <2>5. Counts(ScopesAt("if", "thenDone") - ScopesAt("if", "then") + ScopesAt("block", "loop"),
                 BracesAt("if", "thenDone") - BracesAt("if", "then") + BracesAt("block", "loop"))
      BY <1>1, <2>1, <2>3, OnCall
    <2>6. Counts(0, 1)
      BY <2>4, <2>5
    <2>7. 1 \in Int
      OBVIOUS
    <2>8. Clean'
      BY <2>1, <2>2, <2>6, <2>7, SameScope, Zenon
    <2> QED BY <2>1, <2>8
  <1>9. CASE IfThenDone
    <2>1. /\ Top.in = "if" /\ Top.at = "thenDone" /\ Goto("elseQ") /\ scopes' = Left
          /\ open' = open /\ needSync' = needSync /\ phase' = phase
      BY <1>1, <1>9 DEF IfThenDone, In, tokenVars, flagVars
    <2>2. /\ "thenDone" \in Places /\ "elseQ" \in Places /\ "if" \in Functions
          /\ CleanPlace("if", "elseQ")
      BY DEF Places, CleanPlace, Functions
    <2>3. /\ ScopesAt("if", "elseQ") - ScopesAt("if", "thenDone") = -1
          /\ BracesAt("if", "elseQ") - BracesAt("if", "thenDone") = -0
      BY <2>2, Weights
    <2>4. Counts(ScopesAt("if", "elseQ") - ScopesAt("if", "thenDone"),
                 BracesAt("if", "elseQ") - BracesAt("if", "thenDone"))
      BY <1>1, <2>1, <2>2, OnGoto
    <2>5. Counts(-1, -0)
      BY <2>3, <2>4
    <2>6. 0 \in Nat /\ open' = open - 0
      BY <1>1, <2>1
    <2>7. Clean'
      BY <2>1, <2>5, <2>6, LeavesScope, Zenon
    <2> QED BY <2>1, <2>7
  <1>10. CASE IfElseQ
    <2>1. /\ Top.in = "if" /\ Top.at = "elseQ" /\ scopes' = scopes
          /\ needSync' = needSync /\ phase' = phase
      BY <1>10 DEF IfElseQ, In, flagVars
    <2>2. /\ "elseQ" \in Places /\ "else" \in Places /\ "if" \in Functions
          /\ CleanPlace("if", "else")
      BY DEF Places, CleanPlace, Functions
    <2>3. /\ ScopesAt("if", "else") = 0 /\ ScopesAt("if", "elseQ") = 0
          /\ BracesAt("if", "else") = BracesAt("if", "elseQ")
      BY <2>2, Weights
    <2>4. CASE cur = "else" /\ Advance /\ Goto("else")
      <3>1. open' = open
        BY <1>1, <2>4, OnAdvance
      <3> QED BY <2>1, <2>2, <2>3, <2>4, <3>1, StaysInScope
    <2>5. CASE Return("ok") /\ open' = open
      BY <2>1, <2>2, <2>3, <2>5, Ends
    <2> QED BY <1>10, <2>4, <2>5 DEF IfElseQ, tokenVars
  <1>11. CASE IfElse
    <2>1. Top.in = "if" /\ Top.at = "else"
      BY <1>11 DEF IfElse, In
    <2>2. /\ {"else", "elseDone", "elseIfDone", "cond"} \subseteq Places /\ "if" \in Functions
          /\ CleanPlace("if", "elseDone") /\ CleanPlace("if", "elseIfDone") /\ CleanPlace("if", "cond")
      BY DEF Places, CleanPlace, Functions
    <2>3. /\ ScopesAt("if", "else") = 0 /\ ScopesAt("if", "elseDone") = 1
          /\ ScopesAt("if", "elseIfDone") = 0 /\ ScopesAt("if", "cond") = 0
      BY <2>2, Weights
    <2>4. /\ BracesAt("if", "else") = 0 /\ BracesAt("if", "elseIfDone") = 0
          /\ BracesAt("if", "cond") = 0
      BY <2>2, Weights
    <2>5. CASE OpenBlock("block", "elseDone")
      BY <2>1, <2>2, <2>3, <2>5, OpensBlock
    <2>6. CASE /\ cur = "if" /\ Advance /\ NoReport /\ Call("if", "cond", "elseIfDone")
               /\ UNCHANGED <<scopes, phase>>
      <3>1. open' = open /\ needSync' = needSync /\ phase' = phase /\ scopes' = scopes
        BY <1>1, <2>6, OnAdvance DEF NoReport, flagVars
      <3>2. Counts(ScopesAt("if", "elseIfDone") - ScopesAt("if", "else") + ScopesAt("if", "cond"),
                   BracesAt("if", "elseIfDone") - BracesAt("if", "else") + BracesAt("if", "cond"))
        BY <1>1, <2>1, <2>2, <2>6, OnCall
      <3>3. Counts(0, 0)
        BY <2>3, <2>4, <3>2
      <3> QED BY <1>1, <3>1, <3>3, SameScope
    <2> QED BY <1>11, <2>5, <2>6 DEF IfElse, NotConsumed, Fail, Report
  <1>12. CASE IfElseDone
    <2>1. /\ Top.in = "if" /\ Return("ok") /\ open' = open /\ needSync' = needSync /\ phase' = phase
          /\ \/ Top.at = "elseDone" /\ scopes' = Left
             \/ Top.at = "elseIfDone" /\ scopes' = scopes
      BY <1>1, <1>12 DEF IfElseDone, In, tokenVars, flagVars
    <2>2. "elseDone" \in Places /\ "elseIfDone" \in Places /\ "if" \in Functions
      BY DEF Places, Functions
    <2>3. ScopesAt("if", "elseDone") = 1 /\ ScopesAt("if", "elseIfDone") = 0
      BY <2>2, Weights
    <2> QED BY <2>1, <2>2, <2>3, Ends
  <1> QED BY <1>2, <1>3, <1>4, <1>5, <1>6, <1>7, <1>8, <1>9, <1>10, <1>11, <1>12
          DEF StatementNext

-----------------------------------------------------------------------------
\* Errors are remembered, and parsing goes on only in phase "parse".
LEMMA ErrorsStay ==
  ASSUME Inv, [Next]_vars
  PROVE  /\ hadError' \in {hadError, TRUE}
         /\ phase' \in {"parse", "done", "abort"}
         /\ vars' = vars \/ phase = "parse"
PROOF
  <1>1. CASE vars' = vars
    BY <1>1 DEF vars, flagVars, Inv
  <1>2. CASE ModuleNext
    BY <1>2 DEF ModuleNext, ModuleItem, ModuleDeclared, ModuleSync, ModuleSkip, ModuleEnd, In,
       Report, NoReport, flagVars
  <1>3. CASE StatementNext
    BY <1>3 DEF StatementNext, FnHead, FnBrace, WhileCond, BodyBrace, ExpectCond, ExpectTail,
       DeferStart, BlockEnd, IfCond, IfThen, IfThenDone, IfElseQ, IfElse, IfElseDone, In,
       Expression, OpenBlock, NotConsumed, Fail, Report, NoReport, flagVars
  <1>4. CASE BlockNext
    BY <1>4 DEF BlockNext, BlockStatement, DeferBlockStatement, BlockCompound, BlockCheck,
       BlockSync, BlockClose, In, Statement, Fail, Report, NoReport, flagVars
  <1>5. CASE StructNext
    BY <1>5 DEF StructNext, StructHead, StructBrace, StructField, StructFieldsDone,
       StructBadMember, StructMethod, StructMethodDone, StructSkip, StructClose, In,
       NotConsumed, Fail, Report, NoReport, flagVars
  <1> QED BY <1>1, <1>2, <1>3, <1>4, <1>5 DEF Next

\* The module's frame and scope are all there is at first.
LEMMA InitInv == Init => Inv
PROOF
  <1> SUFFICES ASSUME Init PROVE Inv
    OBVIOUS
  <1>1. /\ frames = <<Frame("module", "item")>> /\ scopes = <<-1>> /\ ret = "none"
        /\ needSync = FALSE /\ open = 0 /\ phase = "parse" /\ hadError = FALSE
    BY DEF Init, ModuleNamespace
  <1>2. Frame("module", "item") \in Frames
    BY DEF Frame, Frames, Functions, Places
  <1>3. CleanStack(frames)
    BY <1>1, <1>2 DEF CleanStack, CleanFrame, CleanPlace, Frame
  <1>4. ScopeFrames(frames) = {} /\ BraceFrames(frames) = {}
    BY <1>1 DEF ScopeFrames, BraceFrames, HoldsScope, HoldsBrace, Frame
  <1>5. Cardinality({}) = 0
    BY FS_EmptySet
  <1>6. CleanScopes
    BY <1>1 DEF CleanScopes, ModuleNamespace
  <1>7. Clean
    BY <1>1, <1>3, <1>4, <1>5, <1>6 DEF Clean
  <1> QED BY <1>1, <1>7 DEF Inv

\* A step that reports nothing keeps the stack clean, one that reports ends the claim.
LEMMA NextInv == Inv /\ [Next]_vars => Inv'
PROOF
  <1> SUFFICES ASSUME Inv, [Next]_vars PROVE Inv'
    OBVIOUS
  <1>1. /\ hadError' \in BOOLEAN /\ phase' \in {"parse", "done", "abort"}
        /\ vars' = vars \/ phase = "parse"
        /\ hadError' = FALSE => hadError = FALSE
    BY ErrorsStay DEF Inv
  <1>2. SUFFICES ASSUME hadError' = FALSE PROVE Goal
    BY <1>1 DEF Inv, Goal
  <1>3. CASE vars' = vars
    <2>1. hadError = FALSE
      BY <1>1, <1>2
    <2>2. /\ frames' = frames /\ scopes' = scopes /\ open' = open /\ ret' = ret
          /\ needSync' = needSync /\ phase' = phase
      BY <1>3 DEF vars, tokenVars, flagVars
    <2> QED BY <2>1, <2>2 DEF Inv, Goal, Clean, CleanScopes
  <1>4. CASE vars' /= vars
    <2>1. Next /\ phase = "parse" /\ Clean
      BY <1>1, <1>2, <1>4 DEF Inv
    <2> QED BY <1>2, <2>1, ModuleSteps, StatementSteps, BlockSteps, StructSteps DEF Next
  <1> QED BY <1>3, <1>4

-----------------------------------------------------------------------------
(* The invariant holds for every length of file.                           *)
THEOREM InvHolds == Spec => []Inv
  BY InitInv, NextInv, PTL DEF Spec

(* Without an error, the chain of scopes that enterScope() and leaveScope() *)
(* build mirrors the C stack of parse functions: each owns one scope while *)
(* it is inside its braces, and the module owns the first.                 *)
THEOREM ScopesMirror == Spec => []ScopesMirrorFrames
PROOF
  <1>1. Inv => ScopesMirrorFrames
    BY DEF Inv, Clean, ScopesMirrorFrames, HeldScopes, ScopeFrames
  <1> QED BY <1>1, InvHolds, PTL

(* A file that is parsed to its end without an error has as many '}' as '{'. *)
THEOREM AcceptedBalanced == Spec => []AcceptedIsBalanced
PROOF
  <1>1. Inv => AcceptedIsBalanced
    BY DEF Inv, AcceptedIsBalanced
  <1> QED BY <1>1, InvHolds, PTL

(* The VERIFYs of enterScope() never abort the parser on a file in which no *)
(* error was reported before.                                              *)
THEOREM AbortsAfterError == Spec => []AbortsOnlyAfterError
PROOF
  <1>1. Inv => AbortsOnlyAfterError
    BY DEF Inv, AbortsOnlyAfterError
  <1> QED BY <1>1, InvHolds, PTL
-----------------------------------------------------------------------------
(* After an error.  A function that fails in a scope of its own leaves the *)
(* scope behind (parseIfStmt(), parseStructDecl()), so the scopes no       *)
(* longer mirror the stack; but nothing ever leaves a scope it has not     *)
(* entered: there are at least as many scopes as functions that own one,   *)
(* and the current scope is at least as deep as there are blocks open.     *)

\* A function inside the braces of a block of its own.
Owns(f) == HoldsScope(f) /\ f.in /= "struct"
Owners(fs) == {i \in DOMAIN fs : Owns(fs[i])}
OwnsAt(function, place) == IF Owns(Frame(function, place)) THEN 1 ELSE 0

\* What calls what.
Standing(fs, i) ==
  /\ fs[i].in = "module" <=> i = 1
  /\ fs[i].in = "module" => fs[i].at /= "end"
  /\ fs[i].in = "struct" => i = 2
  /\ fs[i].in \notin {"module", "struct", "fn"} =>
       \E j \in 1..(i - 1) : fs[j].in = "fn" /\ fs[j].at = "end"
  /\ fs[i].in = "block" => i > 1 /\ Owns(fs[i - 1])
  /\ fs[i].in = "defer" => i > 1 /\ fs[i - 1].in = "block"
  /\ fs[i].in = "defer" /\ fs[i].at = "end" => i > 2 /\ fs[i - 2].in = "fn"
Stack(fs) == fs \in Seq(Frames) /\ Len(fs) >= 1 /\ \A i \in 1..Len(fs) : Standing(fs, i)

\* The scopes of blocks in blocks count up.
Chain(sc) ==
  /\ sc \in Seq(Int) /\ Len(sc) >= 1
  /\ \A j \in 1..Len(sc) : sc[j] >= -1 /\ (sc[j] >= 2 => j > 1 /\ sc[j - 1] = sc[j] - 1)
Level(sc) == IF sc[Len(sc)] < 1 THEN 0 ELSE sc[Len(sc)]

Loose ==
  /\ Chain(scopes)
  /\ Cardinality(ScopeFrames(frames)) < Len(scopes)
  /\ Cardinality(Owners(frames)) <= Level(scopes)
LooseInv == Stack(frames) /\ (phase = "parse" => Loose)

\* The stack t holds that many scopes and blocks more than the stack fs.
Change(fs, t, scopeChange, blockChange) ==
  /\ Stack(t)
  /\ Cardinality(ScopeFrames(t)) = Cardinality(ScopeFrames(fs)) + scopeChange
  /\ Cardinality(Owners(t)) = Cardinality(Owners(fs)) + blockChange

LEMMA AreCounts ==
  \A function, place : ScopesAt(function, place) \in {0, 1} /\ OwnsAt(function, place) \in {0, 1}
  BY DEF ScopesAt, OwnsAt

LEMMA FrameOwns ==
  ASSUME NEW f \in Frames
  PROVE  /\ (IF HoldsScope(f) THEN 1 ELSE 0) = ScopesAt(f.in, f.at)
         /\ (IF Owns(f) THEN 1 ELSE 0) = OwnsAt(f.in, f.at)
  BY DEF Frames, ScopesAt, OwnsAt, HoldsScope, Owns, Frame

\* The top frame of any stack counts for itself.
LEMMA StackTop ==
  ASSUME NEW fs \in Seq(Frames), Len(fs) >= 1, NEW n, n = Len(fs)
  PROVE  /\ n \in Nat /\ n >= 1 /\ DOMAIN fs = 1..n /\ \A i \in 1..n : fs[i] \in Frames
         /\ Cardinality(ScopeFrames(fs)) \in Nat
         /\ Cardinality(Owners(fs)) \in Nat
         /\ Cardinality(ScopeFrames(fs) \ {n}) \in Nat
         /\ Cardinality(Owners(fs) \ {n}) \in Nat
         /\ Cardinality(ScopeFrames(fs)) =
              Cardinality(ScopeFrames(fs) \ {n}) + ScopesAt(fs[n].in, fs[n].at)
         /\ Cardinality(Owners(fs)) =
              Cardinality(Owners(fs) \ {n}) + OwnsAt(fs[n].in, fs[n].at)
PROOF
  <1>1. n \in Nat /\ n >= 1 /\ DOMAIN fs = 1..n /\ \A i \in 1..n : fs[i] \in Frames
    BY ElementOfSeq
  <1>2. n \in 1..n /\ fs[n] \in Frames
    BY <1>1
  <1>3. ScopeFrames(fs) \in SUBSET (1..n) /\ (n \in ScopeFrames(fs) <=> HoldsScope(fs[n]))
    BY <1>1, <1>2 DEF ScopeFrames
  <1>4. Owners(fs) \in SUBSET (1..n) /\ (n \in Owners(fs) <=> Owns(fs[n]))
    BY <1>1, <1>2 DEF Owners
  <1>5. /\ ScopesAt(fs[n].in, fs[n].at) = IF n \in ScopeFrames(fs) THEN 1 ELSE 0
        /\ OwnsAt(fs[n].in, fs[n].at) = IF n \in Owners(fs) THEN 1 ELSE 0
    BY <1>2, <1>3, <1>4, FrameOwns
  <1>6. /\ Cardinality(ScopeFrames(fs)) \in Nat
        /\ Cardinality(ScopeFrames(fs) \ {n}) \in Nat
        /\ Cardinality(ScopeFrames(fs)) =
             Cardinality(ScopeFrames(fs) \ {n}) + (IF n \in ScopeFrames(fs) THEN 1 ELSE 0)
    BY <1>1, <1>3, CountTop
  <1>7. /\ Cardinality(Owners(fs)) \in Nat
        /\ Cardinality(Owners(fs) \ {n}) \in Nat
        /\ Cardinality(Owners(fs)) =
             Cardinality(Owners(fs) \ {n}) + (IF n \in Owners(fs) THEN 1 ELSE 0)
    BY <1>1, <1>4, CountTop
  <1> QED BY <1>1, <1>5, <1>6, <1>7

\* What a frame needs of the frames below it, when it is not the module's.
Supported(fs, n, f) ==
  /\ f.in = "struct" => n = 2
  /\ f.in \notin {"struct", "fn"} => \E j \in 1..(n - 1) : fs[j].in = "fn" /\ fs[j].at = "end"
  /\ f.in = "block" => Owns(fs[n - 1])
  /\ f.in = "defer" => fs[n - 1].in = "block" /\ f.at /= "end"

\* The top of any stack goes on to another place.
LEMMA TopMoves ==
  ASSUME NEW fs, Stack(fs), NEW f \in Frames, f.in = fs[Len(fs)].in,
         f.in = "module" => f.at /= "end",
         f.in = "defer" /\ f.at = "end" => fs[Len(fs) - 2].in = "fn" /\ Len(fs) > 2
  PROVE  /\ Len(WithTop(fs, f)) = Len(fs)
         /\ Change(fs, WithTop(fs, f), ScopesAt(f.in, f.at) - ScopesAt(f.in, fs[Len(fs)].at),
                                       OwnsAt(f.in, f.at) - OwnsAt(f.in, fs[Len(fs)].at))
         /\ WithTop(fs, f)[Len(fs)] = f
PROOF
  <1> DEFINE n == Len(fs)
  <1> SUFFICES ASSUME NEW t, t = WithTop(fs, f)
      PROVE  /\ Len(t) = n /\ t[n] = f
             /\ Change(fs, t, ScopesAt(f.in, f.at) - ScopesAt(f.in, fs[n].at),
                              OwnsAt(f.in, f.at) - OwnsAt(f.in, fs[n].at))
    OBVIOUS
  <1>1. fs \in Seq(Frames) /\ Len(fs) >= 1 /\ \A i \in 1..n : Standing(fs, i)
    BY DEF Stack
  <1>2. n \in Nat /\ n >= 1 /\ DOMAIN fs = 1..n /\ \A i \in 1..n : fs[i] \in Frames
    BY <1>1, StackTop
  <1>3. /\ t \in Seq(Frames) /\ Len(t) = n /\ DOMAIN t = 1..n /\ t[n] = f
        /\ \A i \in 1..n : i /= n => t[i] = fs[i]
    BY <1>1, <1>2 DEF WithTop
  <1>4. \A i \in 1..n : Standing(t, i)
    <2> SUFFICES ASSUME NEW i \in 1..n PROVE Standing(t, i)
      OBVIOUS
    <2>1. Standing(fs, i) /\ t[i].in = fs[i].in /\ \A j \in 1..(i - 1) : t[j] = fs[j]
      <3>1. \A j \in 1..(i - 1) : j \in 1..n /\ j /= n
        <4>1. \A m \in Nat : \A k \in 1..m : \A j \in 1..(k - 1) : j \in 1..m /\ j /= m
          OBVIOUS
        <4>2. n \in Nat
          BY <1>2
        <4> HIDE DEF n
        <4> QED BY <4>1, <4>2
      <3>2. t[i].in = fs[i].in
        BY <1>3
      <3> QED BY <1>1, <1>3, <3>1, <3>2
    <2>2. i \in Nat /\ i >= 1 /\ (i > 1 => i - 1 \in 1..(i - 1)) /\ (i > 2 => i - 2 \in 1..(i - 1))
      BY <1>2
    <2>3. t[i].in = "defer" /\ t[i].at = "end" => i > 2 /\ fs[i - 2].in = "fn"
      <3>1. CASE i = n
        BY <1>3, <3>1
      <3>2. CASE i /= n
        BY <1>3, <2>1, <3>2 DEF Standing
      <3> QED BY <3>1, <3>2
    <2>4. t[i].in \notin {"module", "struct", "fn"} =>
            \E j \in 1..(i - 1) : t[j].in = "fn" /\ t[j].at = "end"
      BY <2>1 DEF Standing
    <2>5. t[i].in = "module" => t[i].at /= "end"
      <3>1. CASE i = n
        BY <1>3, <3>1
      <3>2. CASE i /= n
        BY <1>3, <2>1, <3>2 DEF Standing
      <3> QED BY <3>1, <3>2
    <2> QED BY <2>1, <2>2, <2>3, <2>4, <2>5 DEF Standing
  <1>5. ScopeFrames(t) \ {n} = ScopeFrames(fs) \ {n} /\ Owners(t) \ {n} = Owners(fs) \ {n}
    BY <1>2, <1>3 DEF ScopeFrames, Owners
  <1>6. /\ Cardinality(ScopeFrames(t)) = Cardinality(ScopeFrames(fs) \ {n}) + ScopesAt(f.in, f.at)
        /\ Cardinality(Owners(t)) = Cardinality(Owners(fs) \ {n}) + OwnsAt(f.in, f.at)
    <2>1. n = Len(t) /\ Len(t) >= 1
      BY <1>2, <1>3
    <2>2. /\ Cardinality(ScopeFrames(t)) =
               Cardinality(ScopeFrames(t) \ {n}) + ScopesAt(t[n].in, t[n].at)
          /\ Cardinality(Owners(t)) = Cardinality(Owners(t) \ {n}) + OwnsAt(t[n].in, t[n].at)
      BY <1>3, <2>1, StackTop
    <2> QED BY <1>3, <1>5, <2>2
  <1>7. /\ Cardinality(ScopeFrames(fs)) =
             Cardinality(ScopeFrames(fs) \ {n}) + ScopesAt(f.in, fs[n].at)
        /\ Cardinality(Owners(fs)) = Cardinality(Owners(fs) \ {n}) + OwnsAt(f.in, fs[n].at)
        /\ Cardinality(ScopeFrames(fs) \ {n}) \in Nat /\ Cardinality(Owners(fs) \ {n}) \in Nat
    BY <1>1, StackTop
  <1>8. Stack(t)
    BY <1>2, <1>3, <1>4 DEF Stack
  <1>9. Change(fs, t, ScopesAt(f.in, f.at) - ScopesAt(f.in, fs[n].at),
                      OwnsAt(f.in, f.at) - OwnsAt(f.in, fs[n].at))
    <2>1. /\ ScopesAt(f.in, f.at) \in Int /\ ScopesAt(f.in, fs[n].at) \in Int
          /\ OwnsAt(f.in, f.at) \in Int /\ OwnsAt(f.in, fs[n].at) \in Int
      BY AreCounts
    <2> QED BY <1>6, <1>7, <1>8, <2>1 DEF Change
  <1> QED BY <1>3, <1>9

\* A function is called.
LEMMA TopCalls ==
  ASSUME NEW fs, Stack(fs), NEW f \in Frames, f.in /= "module", Supported(fs, Len(fs) + 1, f)
  PROVE  Change(fs, Append(fs, f), ScopesAt(f.in, f.at), OwnsAt(f.in, f.at))
PROOF
  <1> DEFINE n == Len(fs) + 1
  <1> SUFFICES ASSUME NEW t, t = Append(fs, f)
      PROVE  Change(fs, t, ScopesAt(f.in, f.at), OwnsAt(f.in, f.at))
    OBVIOUS
  <1>1. fs \in Seq(Frames) /\ Len(fs) >= 1 /\ \A i \in 1..(n - 1) : Standing(fs, i)
    BY DEF Stack
  <1>2. n \in Nat /\ n >= 2 /\ DOMAIN fs = 1..(n - 1) /\ \A i \in 1..(n - 1) : fs[i] \in Frames
    BY <1>1, StackTop
  <1>3. /\ t \in Seq(Frames) /\ Len(t) = n /\ DOMAIN t = 1..n /\ t[n] = f
        /\ \A i \in 1..(n - 1) : t[i] = fs[i]
    BY <1>1, <1>2
  <1>4. \A i \in 1..n : Standing(t, i)
    <2>1. ASSUME NEW i \in 1..(n - 1) PROVE Standing(t, i)
      <3>1. Standing(fs, i) /\ t[i] = fs[i] /\ \A j \in 1..(i - 1) : t[j] = fs[j]
        BY <1>1, <1>2, <1>3
      <3>2. i \in Nat /\ i >= 1 /\ (i > 1 => i - 1 \in 1..(i - 1)) /\ (i > 2 => i - 2 \in 1..(i - 1))
        BY <1>2
      <3> QED BY <3>1, <3>2 DEF Standing
    <2>2. Standing(t, n)
      <3>0. n - 1 \in 1..(n - 1) /\ n > 1 /\ n /= 1
        BY <1>2
      <3>1. n - 1 \in 1..(n - 1) /\ t[n - 1] = fs[n - 1] /\ n > 1 /\ n /= 1
        BY <3>0, <1>3
      <3>2. \A j \in 1..(n - 1) : t[j] = fs[j]
        BY <1>3
      <3> QED BY <1>3, <3>1, <3>2 DEF Standing, Supported
    <2> QED BY <1>2, <2>1, <2>2
  <1>5. ScopeFrames(t) \ {n} = ScopeFrames(fs) /\ Owners(t) \ {n} = Owners(fs)
    BY <1>2, <1>3 DEF ScopeFrames, Owners
  <1>6. n = Len(t) /\ Len(t) >= 1
    BY <1>2, <1>3
  <1>7. /\ Cardinality(ScopeFrames(t)) = Cardinality(ScopeFrames(t) \ {n}) + ScopesAt(t[n].in, t[n].at)
        /\ Cardinality(Owners(t)) = Cardinality(Owners(t) \ {n}) + OwnsAt(t[n].in, t[n].at)
    BY <1>3, <1>6, StackTop
  <1>8. Stack(t)
    BY <1>3, <1>4, <1>6 DEF Stack
  <1> QED BY <1>3, <1>5, <1>7, <1>8 DEF Change

\* A function returns.
LEMMA TopReturns ==
  ASSUME NEW fs, Stack(fs), fs[Len(fs)].in /= "module"
  PROVE  Change(fs, SubSeq(fs, 1, Len(fs) - 1), -ScopesAt(fs[Len(fs)].in, fs[Len(fs)].at),
                                                -OwnsAt(fs[Len(fs)].in, fs[Len(fs)].at))
PROOF
  <1> DEFINE n == Len(fs)
  <1> SUFFICES ASSUME NEW t, t = SubSeq(fs, 1, n - 1)
      PROVE  Change(fs, t, -ScopesAt(fs[n].in, fs[n].at), -OwnsAt(fs[n].in, fs[n].at))
    OBVIOUS
  <1>1. fs \in Seq(Frames) /\ Len(fs) >= 1 /\ \A i \in 1..n : Standing(fs, i)
    BY DEF Stack
  <1>2. n \in Nat /\ n >= 1 /\ DOMAIN fs = 1..n /\ \A i \in 1..n : fs[i] \in Frames
    BY <1>1, StackTop
  <1>3. n >= 2
    BY <1>1, <1>2 DEF Standing
  <1>4. /\ t \in Seq(Frames) /\ Len(t) = n - 1 /\ DOMAIN t = 1..(n - 1)
        /\ \A i \in 1..(n - 1) : t[i] = fs[i]
    BY <1>1, <1>2, <1>3
  <1>5. \A i \in 1..(n - 1) : Standing(t, i)
    <2> SUFFICES ASSUME NEW i \in 1..(n - 1) PROVE Standing(t, i)
      OBVIOUS
    <2>1. Standing(fs, i) /\ t[i] = fs[i] /\ \A j \in 1..(i - 1) : t[j] = fs[j]
      BY <1>1, <1>2, <1>4
    <2>2. i \in Nat /\ i >= 1 /\ (i > 1 => i - 1 \in 1..(i - 1)) /\ (i > 2 => i - 2 \in 1..(i - 1))
      BY <1>2
    <2> QED BY <2>1, <2>2 DEF Standing
  <1>6. ScopeFrames(fs) \ {n} = ScopeFrames(t) /\ Owners(fs) \ {n} = Owners(t)
    BY <1>2, <1>4 DEF ScopeFrames, Owners
  <1>7. /\ Cardinality(ScopeFrames(fs)) = Cardinality(ScopeFrames(t)) + ScopesAt(fs[n].in, fs[n].at)
        /\ Cardinality(Owners(fs)) = Cardinality(Owners(t)) + OwnsAt(fs[n].in, fs[n].at)
        /\ Cardinality(ScopeFrames(t)) \in Nat /\ Cardinality(Owners(t)) \in Nat
    BY <1>1, <1>6, StackTop
  <1>8. Stack(t)
    BY <1>3, <1>4, <1>5 DEF Stack
  <1>9. ScopesAt(fs[n].in, fs[n].at) \in Int /\ OwnsAt(fs[n].in, fs[n].at) \in Int
    BY AreCounts
  <1> QED BY <1>7, <1>8, <1>9 DEF Change

\* Changes add up.
LEMMA Changes ==
  ASSUME NEW r, NEW s, NEW t, Stack(r), NEW a \in Int, NEW b \in Int, NEW c \in Int, NEW d \in Int,
         Change(r, s, a, b), Change(s, t, c, d)
  PROVE  Change(r, t, a + c, b + d)
PROOF
  <1>1. Cardinality(ScopeFrames(r)) \in Nat /\ Cardinality(Owners(r)) \in Nat
    BY StackTop DEF Stack
  <1> QED BY <1>1 DEF Change

\* The steps that leave the scopes as they are, enter one or leave one.
LEMMA KeepsLoose ==
  ASSUME LooseInv, phase = "parse", NEW h \in Int, NEW b \in Int, Change(frames, frames', h, b),
         h <= 0, b <= 0, scopes' = scopes
  PROVE  LooseInv'
PROOF
  <1>1. /\ Cardinality(ScopeFrames(frames)) \in Nat /\ Cardinality(Owners(frames)) \in Nat
    BY StackTop DEF LooseInv, Stack
  <1>2. Stack(frames') /\ Chain(scopes') /\ Level(scopes') = Level(scopes)
    BY DEF Change, LooseInv, Loose
  <1>3. Len(scopes) \in Nat /\ Level(scopes) \in Int
    BY DEF LooseInv, Loose, Chain, Level
  <1>4. /\ Cardinality(ScopeFrames(frames')) < Len(scopes')
        /\ Cardinality(Owners(frames')) <= Level(scopes')
    BY <1>1, <1>2, <1>3 DEF Change, LooseInv, Loose
  <1> QED BY <1>2, <1>4 DEF LooseInv, Loose

LEMMA EntersLoose ==
  ASSUME LooseInv, phase = "parse", NEW h \in Int, NEW b \in Int, Change(frames, frames', h, b), h <= 1,
         \/ b <= 1 /\ scopes' = Entered(Block)
         \/ b <= 0 /\ scopes' = Entered(Struct) /\ Scope = ModuleNamespace
  PROVE  LooseInv'
PROOF
  <1>1. /\ Cardinality(ScopeFrames(frames)) \in Nat /\ Cardinality(Owners(frames)) \in Nat
    BY StackTop DEF LooseInv, Stack
  <1> DEFINE n == Len(scopes)
  <1>2. /\ scopes \in Seq(Int) /\ n \in Nat /\ n >= 1 /\ Scope = scopes[n] /\ Scope \in Int /\ Scope >= -1
        /\ \A j \in 1..n : scopes[j] >= -1 /\ (scopes[j] >= 2 => j > 1 /\ scopes[j - 1] = scopes[j] - 1)
    BY DEF LooseInv, Loose, Chain, Scope
  <1>3. PICK d \in Int : /\ scopes' = Append(scopes, d) /\ d >= -1 /\ (d >= 2 => Scope = d - 1)
                         /\ \/ b <= 1 /\ d = (IF Scope < 1 THEN 1 ELSE Scope + 1)
                            \/ b <= 0 /\ d = 0 /\ Scope < 1
    BY <1>2 DEF Entered, Depth, Block, Struct, ModuleNamespace
  <1>4. /\ scopes' \in Seq(Int) /\ Len(scopes') = n + 1 /\ scopes'[n + 1] = d
        /\ \A j \in 1..n : scopes'[j] = scopes[j]
    BY <1>2, <1>3
  <1>5. Chain(scopes')
    <2> SUFFICES ASSUME NEW j \in 1..(n + 1)
                 PROVE  scopes'[j] >= -1 /\ (scopes'[j] >= 2 => j > 1 /\ scopes'[j - 1] = scopes'[j] - 1)
      BY <1>2, <1>4 DEF Chain
    <2>1. CASE j = n + 1
      <3>1. j - 1 = n /\ n \in 1..n /\ j > 1
        BY <1>2, <2>1
      <3> QED BY <1>2, <1>3, <1>4, <2>1, <3>1
    <2>2. CASE j \in 1..n
      <3>1. j > 1 => j - 1 \in 1..n
        BY <1>2, <2>2
      <3> QED BY <1>2, <1>4, <2>2, <3>1
    <2> QED BY <1>2, <2>1, <2>2
  <1>6. Level(scopes') = (IF d < 1 THEN 0 ELSE d) /\ Level(scopes) = (IF Scope < 1 THEN 0 ELSE Scope)
    BY <1>2, <1>4 DEF Level
  <1>7. Cardinality(Owners(frames)) <= Level(scopes) /\ Cardinality(ScopeFrames(frames)) < n
    BY DEF LooseInv, Loose
  <1>8. Cardinality(Owners(frames')) = Cardinality(Owners(frames)) + b
        /\ Cardinality(ScopeFrames(frames')) = Cardinality(ScopeFrames(frames)) + h
    BY DEF Change
  <1>9. Cardinality(Owners(frames')) <= Level(scopes')
    BY SMTT(30), <1>1, <1>2, <1>3, <1>6, <1>7, <1>8
  <1>10. Cardinality(ScopeFrames(frames')) < Len(scopes')
    BY <1>1, <1>2, <1>4, <1>7, <1>8
  <1> QED BY <1>5, <1>9, <1>10 DEF LooseInv, Loose, Change

LEMMA LeavesLoose ==
  ASSUME LooseInv, phase = "parse", NEW h \in Int, NEW b \in Int, Change(frames, frames', h, b), h <= -1,
         b <= -1 \/ Cardinality(Owners(frames')) = 0, scopes' = Left
  PROVE  LooseInv'
PROOF
  <1>1. /\ Cardinality(ScopeFrames(frames)) \in Nat /\ Cardinality(Owners(frames)) \in Nat
        /\ Cardinality(ScopeFrames(frames')) \in Nat
    BY StackTop DEF LooseInv, Stack, Change
  <1> DEFINE n == Len(scopes)
  <1>2. /\ scopes \in Seq(Int) /\ n \in Nat /\ n >= 1
        /\ \A j \in 1..n : scopes[j] >= -1 /\ (scopes[j] >= 2 => j > 1 /\ scopes[j - 1] = scopes[j] - 1)
    BY DEF LooseInv, Loose, Chain
  <1>3. Cardinality(Owners(frames)) <= Level(scopes) /\ Cardinality(ScopeFrames(frames)) < n
    BY DEF LooseInv, Loose
  <1>4. /\ Cardinality(Owners(frames')) = Cardinality(Owners(frames)) + b
        /\ Cardinality(ScopeFrames(frames')) = Cardinality(ScopeFrames(frames)) + h
    BY DEF Change
  <1>5. n >= 2
    BY <1>1, <1>2, <1>3, <1>4
  <1>6. /\ scopes' \in Seq(Int) /\ Len(scopes') = n - 1 /\ \A j \in 1..(n - 1) : scopes'[j] = scopes[j]
    BY <1>2, <1>5 DEF Left
  <1>7. Chain(scopes')
    <2> SUFFICES ASSUME NEW j \in 1..(n - 1)
                 PROVE  scopes'[j] >= -1 /\ (scopes'[j] >= 2 => j > 1 /\ scopes'[j - 1] = scopes'[j] - 1)
      BY <1>2, <1>5, <1>6 DEF Chain
    <2>1. j \in 1..n /\ (j > 1 => j - 1 \in 1..(n - 1))
      BY <1>2
    <2> QED BY <1>2, <1>6, <2>1
  <1>8. Level(scopes') >= 0 /\ Level(scopes') >= Level(scopes) - 1 /\ Level(scopes') \in Int /\ Level(scopes) \in Int
    <2>1. /\ n - 1 \in 1..(n - 1) /\ n \in 1..n /\ scopes[n] \in Int /\ scopes[n - 1] \in Int
          /\ scopes'[n - 1] = scopes[n - 1]
      <3>1. n - 1 \in 1..(n - 1) /\ n - 1 \in 1..n /\ n \in 1..n
        BY <1>2, <1>5
      <3>2. scopes[n] \in Int /\ scopes[n - 1] \in Int
        BY <1>2, <3>1
      <3>3. scopes'[n - 1] = scopes[n - 1]
        BY <1>6, <3>1
      <3> QED BY <3>1, <3>2, <3>3
    <2>2. /\ Level(scopes') = (IF scopes[n - 1] < 1 THEN 0 ELSE scopes[n - 1])
          /\ Level(scopes) = (IF scopes[n] < 1 THEN 0 ELSE scopes[n])
      BY <1>6, <2>1 DEF Level
    <2>3. scopes[n] >= 2 => scopes[n - 1] = scopes[n] - 1
      BY <1>2, <2>1
    <2> QED BY <2>1, <2>2, <2>3
  <1>9. Cardinality(Owners(frames')) <= Level(scopes')
    <2>1. CASE b <= -1
      BY <1>1, <1>3, <1>4, <1>8, <2>1
    <2>2. CASE Cardinality(Owners(frames')) = 0
      BY <1>8, <2>2
    <2> QED BY <2>1, <2>2
  <1>10. Cardinality(ScopeFrames(frames')) < Len(scopes')
    BY <1>1, <1>2, <1>3, <1>4, <1>6
  <1> QED BY <1>7, <1>9, <1>10 DEF LooseInv, Loose, Change

\* What the pieces of steps do to any stack.
LEMMA AnyTop ==
  ASSUME LooseInv
  PROVE  /\ Len(frames) \in Nat /\ Len(frames) >= 1 /\ Stack(frames)
         /\ \A i \in 1..Len(frames) : frames[i] \in Frames /\ Standing(frames, i)
         /\ Top \in Frames /\ Top = frames[Len(frames)] /\ Standing(frames, Len(frames))
         /\ Top.in \in Functions /\ Top.at \in Places
PROOF
  <1>1. Stack(frames) /\ frames \in Seq(Frames) /\ Len(frames) >= 1
    BY DEF LooseInv, Stack
  <1>2. Len(frames) \in Nat /\ \A i \in 1..Len(frames) : frames[i] \in Frames
    BY <1>1, StackTop
  <1>3. \A i \in 1..Len(frames) : Standing(frames, i)
    BY DEF LooseInv, Stack
  <1>4. Len(frames) \in 1..Len(frames) /\ Top = frames[Len(frames)]
    BY <1>1, <1>2 DEF Top
  <1>5. Top.in \in Functions /\ Top.at \in Places
    BY <1>2, <1>4 DEF Frames
  <1> QED BY <1>1, <1>2, <1>3, <1>4, <1>5

LEMMA GotoChange ==
  ASSUME LooseInv, NEW place \in Places,
         \/ frames' = [frames EXCEPT ![Len(frames)].at = place]
         \/ frames' = [frames EXCEPT ![Len(frames)].at = place, ![Len(frames)].flag = TRUE],
         ~(Top.in \in {"defer", "module"} /\ place = "end")
  PROVE  Change(frames, frames', ScopesAt(Top.in, place) - ScopesAt(Top.in, Top.at),
                                 OwnsAt(Top.in, place) - OwnsAt(Top.in, Top.at))
PROOF
  <1>1. PICK f \in Frames : f.in = Top.in /\ f.at = place /\ frames' = WithTop(frames, f)
    <2>1. /\ [Top EXCEPT !.at = place] \in Frames
          /\ [Top EXCEPT !.at = place, !.flag = TRUE] \in Frames
          /\ [Top EXCEPT !.at = place].in = Top.in
          /\ [Top EXCEPT !.at = place, !.flag = TRUE].in = Top.in
          /\ [Top EXCEPT !.at = place].at = place
          /\ [Top EXCEPT !.at = place, !.flag = TRUE].at = place
      BY AnyTop DEF Frames
    <2>2. CASE frames' = [frames EXCEPT ![Len(frames)].at = place]
      BY <2>1, <2>2 DEF WithTop, Top
    <2>3. CASE frames' = [frames EXCEPT ![Len(frames)].at = place, ![Len(frames)].flag = TRUE]
      <3>1. frames' = WithTop(frames, [Top EXCEPT !.at = place, !.flag = TRUE])
        BY <2>3, AnyTop DEF WithTop, Top, Stack
      <3> QED BY <2>1, <3>1
    <2> QED BY <2>2, <2>3
  <1> QED BY <1>1, AnyTop, TopMoves

LEMMA CallChange ==
  ASSUME LooseInv, NEW function \in Functions, NEW first \in Places, NEW back \in Places,
         frames' = Append([frames EXCEPT ![Len(frames)].at = back], Frame(function, first)),
         function /= "module",
         function = "struct" => Top.in = "module",
         function \notin {"struct", "fn"} =>
           Top.in \notin {"module", "struct", "fn"} \/ (Top.in = "fn" /\ back = "end"),
         function = "block" => OwnsAt(Top.in, back) = 1,
         function = "defer" => Top.in = "block" /\ first /= "end",
         Top.in = "module" => back /= "end",
         Top.in = "defer" /\ back = "end" => Len(frames) > 2 /\ frames[Len(frames) - 2].in = "fn"
  PROVE  Change(frames, frames',
                ScopesAt(Top.in, back) - ScopesAt(Top.in, Top.at) + ScopesAt(function, first),
                OwnsAt(Top.in, back) - OwnsAt(Top.in, Top.at) + OwnsAt(function, first))
PROOF
  <1> DEFINE n == Len(frames)
  <1>1. PICK f : f \in Frames /\ f.in = Top.in /\ f.at = back
                 /\ [frames EXCEPT ![Len(frames)].at = back] = WithTop(frames, f)
    <2>1. [Top EXCEPT !.at = back] \in Frames
      BY AnyTop DEF Frames
    <2> QED BY <2>1, AnyTop DEF WithTop, Top, Frames
  <1>2. PICK g : g = Frame(function, first)
    OBVIOUS
  <1>3. g \in Frames /\ g.in = function /\ g.at = first
    BY <1>2 DEF Frame, Frames
  <1>4. PICK t : t = WithTop(frames, f)
    OBVIOUS
  <1>5. frames' = Append(t, g)
    BY <1>1, <1>2, <1>4
  <1>6. /\ Len(t) = n /\ t[n] = f
        /\ Change(frames, t, ScopesAt(Top.in, back) - ScopesAt(Top.in, Top.at),
                             OwnsAt(Top.in, back) - OwnsAt(Top.in, Top.at))
    <2>1. /\ f.in = frames[n].in /\ (f.in = "module" => f.at /= "end")
          /\ f.in = "defer" /\ f.at = "end" => frames[n - 2].in = "fn" /\ n > 2
      BY <1>1, AnyTop
    <2> QED BY <1>1, <1>4, <2>1, AnyTop, TopMoves
  <1>7. n \in Nat /\ n >= 1 /\ Stack(t) /\ Standing(t, n) /\ n \in 1..n
    BY <1>6, AnyTop DEF Change, Stack
  <1>8. Supported(t, n + 1, g)
    <2>1. (n + 1) - 1 = n
      BY <1>7
    <2>2. g.in = "struct" => n + 1 = 2
      BY <1>1, <1>3, <1>6, <1>7 DEF Standing
    <2>3. g.in = "block" => Owns(t[n])
      BY <1>1, <1>3, <1>6, FrameOwns
    <2>4. g.in \notin {"struct", "fn"} => \E j \in 1..n : t[j].in = "fn" /\ t[j].at = "end"
      <3>1. CASE Top.in = "fn" /\ back = "end"
        BY <1>1, <1>6, <1>7, <3>1
      <3>2. CASE Top.in \notin {"module", "struct", "fn"}
        <4>1. PICK j \in 1..(n - 1) : t[j].in = "fn" /\ t[j].at = "end"
          BY <1>1, <1>6, <1>7, <3>2 DEF Standing
        <4>2. j \in 1..n
          BY <1>7
        <4> QED BY <4>1, <4>2
      <3> QED BY <1>3, <3>1, <3>2
    <2>5. g.in = "defer" => t[n].in = "block" /\ g.at /= "end"
      BY <1>1, <1>3, <1>6
    <2> QED BY <2>1, <2>2, <2>3, <2>4, <2>5 DEF Supported
  <1>9. Change(t, Append(t, g), ScopesAt(function, first), OwnsAt(function, first))
    BY <1>3, <1>6, <1>7, <1>8, TopCalls
  <1>11. /\ ScopesAt(Top.in, back) \in Int /\ ScopesAt(Top.in, Top.at) \in Int /\ ScopesAt(function, first) \in Int
         /\ OwnsAt(Top.in, back) \in Int /\ OwnsAt(Top.in, Top.at) \in Int /\ OwnsAt(function, first) \in Int
    BY AreCounts
  <1>12. Stack(frames)
    BY AnyTop
  <1>13. Change(t, frames', ScopesAt(function, first), OwnsAt(function, first))
    BY <1>5, <1>9
  <1>14. PICK a \in Int, b \in Int : a = ScopesAt(Top.in, back) - ScopesAt(Top.in, Top.at)
                                   /\ b = OwnsAt(Top.in, back) - OwnsAt(Top.in, Top.at)
    BY <1>11
  <1>15. Change(frames, t, a, b)
    BY <1>6, <1>14
  <1>16. Change(frames, frames', a + ScopesAt(function, first), b + OwnsAt(function, first))
    BY <1>11, <1>12, <1>13, <1>15, Changes
  <1> QED BY <1>14, <1>16

LEMMA ReturnChange ==
  ASSUME LooseInv, NEW r, Return(r), Top.in /= "module"
  PROVE  Change(frames, frames', -ScopesAt(Top.in, Top.at), -OwnsAt(Top.in, Top.at))
  BY TopReturns, AnyTop DEF Return

\* Only a struct holds a scope that is not a block's.
LEMMA OwnWeights ==
  /\ \A function \in Functions, place \in Places :
       function /= "struct" => OwnsAt(function, place) = ScopesAt(function, place)
  /\ \A place : OwnsAt("struct", place) = 0
  BY DEF OwnsAt, ScopesAt, Owns, Frame

\* The top frame goes on in the scope it is in, or forgets to leave one.
LEMMA StaysLoose ==
  ASSUME LooseInv, phase = "parse", NEW place \in Places, place /= "end",
         \/ frames' = [frames EXCEPT ![Len(frames)].at = place]
         \/ frames' = [frames EXCEPT ![Len(frames)].at = place, ![Len(frames)].flag = TRUE],
         ScopesAt(Top.in, place) <= ScopesAt(Top.in, Top.at),
         scopes' = scopes
  PROVE  LooseInv'
PROOF
  <1>1. Top.in \in Functions /\ Top.at \in Places
    BY AnyTop
  <1>2. OwnsAt(Top.in, place) <= OwnsAt(Top.in, Top.at)
    BY <1>1, OwnWeights, AreCounts
  <1>3. PICK h \in Int, b \in Int : /\ h = ScopesAt(Top.in, place) - ScopesAt(Top.in, Top.at)
                                    /\ b = OwnsAt(Top.in, place) - OwnsAt(Top.in, Top.at)
                                    /\ h <= 0 /\ b <= 0
    <2>1. /\ ScopesAt(Top.in, place) \in Int /\ ScopesAt(Top.in, Top.at) \in Int
          /\ OwnsAt(Top.in, place) \in Int /\ OwnsAt(Top.in, Top.at) \in Int
      BY AreCounts
    <2> QED BY <1>2, <2>1
  <1>4. Change(frames, frames', h, b)
    BY <1>3, GotoChange
  <1> QED BY <1>3, <1>4, KeepsLoose

\* The top frame returns and leaves its scope, if it has one, behind.
LEMMA ReturnsLoose ==
  ASSUME LooseInv, phase = "parse", NEW r, Return(r), Top.in /= "module", scopes' = scopes
  PROVE  LooseInv'
PROOF
  <1>1. /\ -ScopesAt(Top.in, Top.at) \in Int /\ -OwnsAt(Top.in, Top.at) \in Int
        /\ -ScopesAt(Top.in, Top.at) <= 0 /\ -OwnsAt(Top.in, Top.at) <= 0
    BY AreCounts
  <1>2. Change(frames, frames', -ScopesAt(Top.in, Top.at), -OwnsAt(Top.in, Top.at))
    BY ReturnChange
  <1> QED BY <1>1, <1>2, KeepsLoose

\* The top frame leaves the scope it has entered and returns.
LEMMA EndsLoose ==
  ASSUME LooseInv, phase = "parse", NEW r, Return(r), Top.in \notin {"module", "struct"},
         ScopesAt(Top.in, Top.at) = 1, scopes' = Left
  PROVE  LooseInv'
PROOF
  <1>1. OwnsAt(Top.in, Top.at) = 1
    BY AnyTop, OwnWeights
  <1>2. Change(frames, frames', -1, -1)
    <2>1. Change(frames, frames', -ScopesAt(Top.in, Top.at), -OwnsAt(Top.in, Top.at))
      BY ReturnChange
    <2> QED BY <1>1, <2>1
  <1>3. -1 \in Int /\ -1 <= -1
    OBVIOUS
  <1> QED BY <1>2, <1>3, LeavesLoose

\* A call in the scope of the caller.
LEMMA CallsLoose ==
  ASSUME LooseInv, phase = "parse",
         NEW function \in Functions, NEW first \in Places, NEW back \in Places,
         Call(function, first, back), first /= "end", back /= "end", scopes' = scopes,
         function \notin {"module", "if"} \/ (function = "if" /\ first = "cond"),
         function = "struct" => Top.in = "module" /\ first = "head",
         function \notin {"struct", "fn"} => Top.in \notin {"module", "struct", "fn"},
         function = "block" => OwnsAt(Top.in, back) = 1,
         function = "defer" => Top.in = "block",
         ScopesAt(Top.in, back) <= ScopesAt(Top.in, Top.at)
  PROVE  LooseInv'
PROOF
  <1>1. Top.in \in Functions /\ Top.at \in Places
    BY AnyTop
  <1>2. OwnsAt(Top.in, back) <= OwnsAt(Top.in, Top.at)
    BY <1>1, OwnWeights, AreCounts
  <1>3. ScopesAt(function, first) = 0 /\ OwnsAt(function, first) = 0
    BY Weights, OwnWeights DEF Functions
  <1>4. PICK h \in Int, b \in Int :
          /\ h = ScopesAt(Top.in, back) - ScopesAt(Top.in, Top.at) + ScopesAt(function, first)
          /\ b = OwnsAt(Top.in, back) - OwnsAt(Top.in, Top.at) + OwnsAt(function, first)
          /\ h <= 0 /\ b <= 0
    <2>1. /\ ScopesAt(Top.in, back) \in Int /\ ScopesAt(Top.in, Top.at) \in Int
          /\ OwnsAt(Top.in, back) \in Int /\ OwnsAt(Top.in, Top.at) \in Int
      BY AreCounts
    <2> QED BY <1>2, <1>3, <2>1
  <1>5. function /= "module" /\ (function = "defer" => Top.in = "block" /\ first /= "end")
    BY DEF Functions
  <1>6. Change(frames, frames', h, b)
    BY <1>4, <1>5, CallChange DEF Call
  <1> QED BY <1>4, <1>6, KeepsLoose

\* A block with a scope of its own.
LEMMA OpensLoose ==
  ASSUME LooseInv, phase = "parse", NEW function \in {"block", "deferBlock"}, NEW back \in Places,
         OpenBlock(function, back), Top.in \notin {"module", "struct"},
         Top.in = "fn" => back = "end",
         ScopesAt(Top.in, back) = 1,
         Top.in = "defer" => Len(frames) > 2 /\ frames[Len(frames) - 2].in = "fn"
  PROVE  LooseInv'
PROOF
  <1>1. Top.in \in Functions /\ Top.at \in Places
    BY AnyTop
  <1>2. OwnsAt(Top.in, back) = 1
    BY <1>1, OwnWeights
  <1>3. function \in Functions /\ "loop" \in Places
    BY DEF Functions, Places
  <1>4. ScopesAt(function, "loop") = 0 /\ OwnsAt(function, "loop") = 0
    BY <1>3, Weights, OwnWeights
  <1>5. PICK h \in Int, b \in Int :
          /\ h = ScopesAt(Top.in, back) - ScopesAt(Top.in, Top.at) + ScopesAt(function, "loop")
          /\ b = OwnsAt(Top.in, back) - OwnsAt(Top.in, Top.at) + OwnsAt(function, "loop")
          /\ h <= 1 /\ b <= 1
    <2>1. ScopesAt(Top.in, Top.at) \in {0, 1} /\ OwnsAt(Top.in, Top.at) \in {0, 1}
      BY AreCounts
    <2>2. ScopesAt(Top.in, back) - ScopesAt(Top.in, Top.at) + ScopesAt(function, "loop") \in {0, 1}
      BY <1>4, <2>1
    <2>3. OwnsAt(Top.in, back) - OwnsAt(Top.in, Top.at) + OwnsAt(function, "loop") \in {0, 1}
      BY <1>2, <1>4, <2>1
    <2> QED BY <2>2, <2>3
  <1>6. Change(frames, frames', h, b)
    BY <1>2, <1>3, <1>5, CallChange DEF OpenBlock, Call
  <1>7. scopes' = Entered(Block)
    BY DEF OpenBlock
  <1> QED BY <1>5, <1>6, <1>7, EntersLoose

\* parseModuleBody(): the module is alone on the stack, whatever was left behind.
LEMMA ModuleLoose ==
  ASSUME LooseInv, phase = "parse", ModuleNext
  PROVE  LooseInv'
PROOF
  <1>1. Top.in \in Functions /\ Top.at \in Places /\ Len(frames) \in Nat /\ Len(frames) >= 1
        /\ \A place \in Places : place /= "end" => ScopesAt("module", place) = 0
    BY AnyTop, Weights DEF Functions
  <1>2. Top.in = "module" /\ {"item", "decl", "sync", "skip", "head"} \subseteq Places
    BY DEF ModuleNext, ModuleItem, ModuleDeclared, ModuleSync, ModuleSkip, ModuleEnd, In, Places
  <1>3. ScopesAt(Top.in, Top.at) = 0 /\ Len(frames) = 1
    <2>1. Standing(frames, Len(frames)) /\ Top = frames[Len(frames)]
      BY AnyTop
    <2> QED BY <1>1, <1>2, <2>1 DEF Standing
  <1>4. ASSUME NEW place \in {"item", "decl", "sync", "skip"}, Goto(place) \/ GotoFlagged(place),
               scopes' = scopes
        PROVE  LooseInv'
    <2>1. place \in Places /\ place /= "end" /\ ScopesAt(Top.in, place) <= ScopesAt(Top.in, Top.at)
      BY <1>1, <1>2, <1>3
    <2> QED BY <1>4, <2>1, StaysLoose DEF Goto, GotoFlagged
  <1>5. CASE ModuleItem
    <2>1. scopes' = scopes
      BY <1>5 DEF ModuleItem
    <2>2. CASE Goto("sync") \/ Goto("item")
      BY <1>4, <2>1, <2>2
    <2>3. ScopesAt(Top.in, "decl") <= ScopesAt(Top.in, Top.at)
      BY <1>1, <1>2, <1>3
    <2>4. "fn" \in Functions /\ "struct" \in Functions
      BY DEF Functions
    <2>5. CASE Call("fn", "head", "decl")
      BY <1>2, <2>1, <2>3, <2>4, <2>5, CallsLoose
    <2>6. CASE Call("struct", "head", "decl")
      BY <1>2, <2>1, <2>3, <2>4, <2>6, CallsLoose
    <2> QED BY <1>5, <2>2, <2>5, <2>6 DEF ModuleItem
  <1>6. CASE ModuleDeclared
    BY <1>4, <1>6 DEF ModuleDeclared
  <1>7. CASE ModuleSync
    <2>1. CASE scopes' = scopes
      BY <1>4, <1>7, <2>1 DEF ModuleSync
    <2>2. CASE scopes' = Unwound
      <3>1. Change(frames, frames', 0, 0)
        <4>1. PICK place \in Places : place \in {"item", "skip"} /\ (Goto(place) \/ GotoFlagged(place))
          BY <1>2, <1>7 DEF ModuleSync
        <4>2. /\ ScopesAt(Top.in, place) - ScopesAt(Top.in, Top.at) = 0
              /\ OwnsAt(Top.in, place) - OwnsAt(Top.in, Top.at) = 0
          <5>1. ScopesAt(Top.in, place) = 0 /\ ScopesAt(Top.in, Top.at) = 0
            BY <1>1, <1>2, <1>3, <4>1
          <5>2. OwnsAt(Top.in, place) = 0 /\ OwnsAt(Top.in, Top.at) = 0
            BY <1>1, <1>2, <5>1, OwnWeights
          <5> QED BY <5>1, <5>2
        <4>3. Change(frames, frames', ScopesAt(Top.in, place) - ScopesAt(Top.in, Top.at),
                                      OwnsAt(Top.in, place) - OwnsAt(Top.in, Top.at))
          BY <4>1, GotoChange DEF Goto, GotoFlagged
        <4> QED BY <4>2, <4>3
      <3>2. Cardinality(ScopeFrames(frames)) = 0 /\ Cardinality(Owners(frames)) = 0
        <4>1. ScopeFrames(frames) = {} /\ Owners(frames) = {}
          <5>1. DOMAIN frames = {1} /\ frames[1] = Top /\ Top \in Frames
            BY <1>3, AnyTop DEF Stack
          <5>2. ~HoldsScope(Top)
            BY <1>3, <5>1, FrameOwns
          <5> QED BY <5>1, <5>2 DEF ScopeFrames, Owners, Owns
        <4> QED BY <4>1, FS_EmptySet
      <3>3. /\ Cardinality(ScopeFrames(frames')) = 0 /\ Cardinality(Owners(frames')) = 0
            /\ Stack(frames')
        BY <3>1, <3>2 DEF Change
      <3>4. scopes' = <<-1>>
        BY <2>2 DEF Unwound, ModuleNamespace
      <3>5. Chain(scopes') /\ Len(scopes') = 1 /\ Level(scopes') = 0
        BY <3>4 DEF Chain, Level
      <3> QED BY <3>3, <3>5 DEF LooseInv, Loose
    <2> QED BY <1>7, <2>1, <2>2 DEF ModuleSync
  <1>8. CASE ModuleSkip
    <2>1. CASE frames' = frames
      <3>1. Change(frames, frames', 0, 0)
        <4>1. Stack(frames) /\ Cardinality(ScopeFrames(frames)) \in Nat /\ Cardinality(Owners(frames)) \in Nat
          BY StackTop DEF LooseInv, Stack
        <4> QED BY <2>1, <4>1 DEF Change
      <3> QED BY <1>8, <3>1, KeepsLoose DEF ModuleSkip
    <2>2. CASE frames' = <<Frame("module", "item")>>
      <3>1. PICK f : f = Frame("module", "item")
        OBVIOUS
      <3>2. f \in Frames /\ f.in = "module" /\ f.at = "item"
        BY <3>1 DEF Frame, Frames, Functions, Places
      <3>3. frames' = WithTop(frames, f)
        <4>1. frames \in Seq(Frames)
          BY AnyTop DEF Stack
        <4> QED BY <1>3, <2>2, <3>1, <3>2, <4>1 DEF WithTop
      <3>4. Change(frames, frames', ScopesAt("module", "item") - ScopesAt("module", Top.at),
                                    OwnsAt("module", "item") - OwnsAt("module", Top.at))
        <4>1. f.in = frames[Len(frames)].in /\ Stack(frames) /\ Top = frames[Len(frames)]
          BY <1>2, <3>2, AnyTop
        <4> QED BY <3>2, <3>3, <4>1, TopMoves
      <3>5. /\ ScopesAt("module", "item") - ScopesAt("module", Top.at) = 0
            /\ OwnsAt("module", "item") - OwnsAt("module", Top.at) = 0
        BY <1>1, <1>2, <1>3, OwnWeights
      <3>6. Change(frames, frames', 0, 0)
        BY <3>4, <3>5
      <3> QED BY <1>8, <3>6, KeepsLoose DEF ModuleSkip
    <2> QED BY <1>8, <2>1, <2>2 DEF ModuleSkip
  <1>9. CASE ModuleEnd
    BY <1>9 DEF ModuleEnd, LooseInv
  <1> QED BY <1>5, <1>6, <1>7, <1>8, <1>9 DEF ModuleNext

(* A defer statement that is not refused: the current scope is that of at  *)
(* most one block, so the block around it is the function's.               *)
LEMMA DeferIsInFunction ==
  ASSUME LooseInv, phase = "parse", Top.in = "defer", ~OutsideFunction
  PROVE  Len(frames) > 2 /\ frames[Len(frames) - 2].in = "fn"
PROOF
  <1> DEFINE n == Len(frames)
  <1>1. /\ n \in Nat /\ n >= 1 /\ DOMAIN frames = 1..n /\ \A i \in 1..n : Standing(frames, i)
        /\ frames[n].in = "defer"
    BY AnyTop DEF Stack
  <1>2. n > 1 /\ frames[n - 1].in = "block"
    BY <1>1 DEF Standing
  <1>3. n - 1 \in 1..n /\ (n - 1) - 1 = n - 2
    BY <1>1, <1>2
  <1>4. n - 1 > 1 /\ Owns(frames[n - 2])
    BY <1>1, <1>2, <1>3 DEF Standing
  <1>5. PICK j \in 1..(n - 1) : frames[j].in = "fn" /\ frames[j].at = "end"
    BY <1>1, <1>2 DEF Standing
  <1>6. {j, n - 2} \subseteq Owners(frames)
    BY <1>1, <1>4, <1>5 DEF Owners, Owns, HoldsScope
  <1>7. IsFiniteSet(Owners(frames)) /\ Cardinality(Owners(frames)) <= 1
    <2>1. Cardinality(Owners(frames)) <= Level(scopes) /\ Level(scopes) <= 1
      <3>1. Chain(scopes) /\ Cardinality(Owners(frames)) <= Level(scopes)
        BY DEF LooseInv, Loose
      <3>2. scopes[Len(scopes)] \in Int /\ ~(scopes[Len(scopes)] > 1)
        BY <3>1 DEF Chain, OutsideFunction, Scope, Block
      <3> QED BY <3>1, <3>2 DEF Level
    <2>2. IsFiniteSet(Owners(frames))
      <3>1. Owners(frames) \subseteq 1..n /\ IsFiniteSet(1..n)
        BY <1>1, FS_Interval DEF Owners
      <3> QED BY <3>1, FS_Subset
    <2>3. Level(scopes) \in Int /\ Cardinality(Owners(frames)) \in Nat
      BY <2>2, FS_CardinalityType DEF LooseInv, Loose, Chain, Level
    <2> QED BY <2>1, <2>2, <2>3
  <1>8. j = n - 2
    <2>1. Cardinality({j, n - 2}) <= Cardinality(Owners(frames)) /\ Cardinality({j, n - 2}) \in Nat
      BY <1>6, <1>7, FS_Subset, FS_CardinalityType
    <2>2. SUFFICES ASSUME j /= n - 2 PROVE FALSE
      OBVIOUS
    <2>3. Cardinality({j, n - 2}) = 2
      <3>1. IsFiniteSet({n - 2}) /\ Cardinality({n - 2}) = 1
        BY FS_Singleton
      <3>2. {j, n - 2} = {n - 2} \cup {j} /\ j \notin {n - 2}
        BY <2>2
      <3>3. Cardinality({n - 2} \cup {j}) = Cardinality({n - 2}) + 1
        BY <3>1, <3>2, FS_AddElement
      <3>4. Cardinality({n - 2}) + 1 = 2
        BY <3>1
      <3> QED BY <3>2, <3>3, <3>4
    <2> QED BY <1>7, <2>1, <2>3, FS_CardinalityType
  <1> QED BY <1>4, <1>5, <1>8

\* The statements: only one that fails forgets a scope.
LEMMA StatementLoose ==
  ASSUME LooseInv, phase = "parse", StatementNext
  PROVE  LooseInv'
PROOF
  <1>1. Top.in \in Functions /\ Top.at \in Places /\ ScopesAt(Top.in, Top.at) \in {0, 1}
    BY AnyTop, AreCounts
  <1>2. Top.in \notin {"module", "struct", "block", "deferBlock"}
    BY DEF StatementNext, FnHead, FnBrace, WhileCond, BodyBrace, ExpectCond, ExpectTail, DeferStart,
       BlockEnd, IfCond, IfThen, IfThenDone, IfElseQ, IfElse, IfElseDone, In
  <1>3. ASSUME NEW r, Return(r), scopes' = scopes PROVE LooseInv'
    BY <1>2, <1>3, ReturnsLoose
  <1>4. ASSUME Fail, scopes' = scopes PROVE LooseInv'
    BY <1>3, <1>4 DEF Fail
  <1>5. ASSUME NEW token, NotConsumed(token) PROVE LooseInv'
    BY <1>4, <1>5 DEF NotConsumed
  <1>6. ASSUME NEW place \in {"brace", "tail", "elseQ", "else"}, Goto(place), scopes' = scopes
        PROVE  LooseInv'
    <2>1. place \in Places /\ ScopesAt(Top.in, place) = 0
      <3>1. place \in Places
        BY DEF Places
      <3> QED BY <1>1, <1>2, <3>1, Weights
    <2>2. ScopesAt(Top.in, place) <= ScopesAt(Top.in, Top.at) /\ place /= "end"
      BY <1>1, <2>1
    <2> QED BY <1>6, <2>1, <2>2, StaysLoose DEF Goto
  <1>7. ASSUME NEW back \in {"end", "elseDone"}, OpenBlock("block", back),
               (Top.in \in {"fn", "while", "expect"} /\ back = "end") \/ Top.in = "if"
        PROVE  LooseInv'
    <2>1. back \in Places /\ ScopesAt(Top.in, back) = 1
      <3>1. back \in Places
        BY DEF Places
      <3> QED BY <1>1, <1>2, <1>7, <3>1, Weights
    <2> QED BY <1>2, <1>7, <2>1, OpensLoose
  <1>8. CASE FnHead \/ WhileCond \/ ExpectCond
    BY <1>4, <1>5, <1>6, <1>8 DEF FnHead, WhileCond, ExpectCond, Expression
  <1>9. CASE FnBrace \/ BodyBrace
    BY <1>5, <1>7, <1>9 DEF FnBrace, BodyBrace, In
  <1>10. CASE ExpectTail
    BY <1>3, <1>4, <1>6, <1>10 DEF ExpectTail
  <1>11. CASE DeferStart
    <2>1. CASE OutsideFunction /\ Fail /\ UNCHANGED <<tokenVars, scopes, phase>>
      BY <1>4, <2>1
    <2>2. CASE ~OutsideFunction /\ OpenBlock("deferBlock", "end")
      <3>1. Top.in = "defer" /\ Len(frames) > 2 /\ frames[Len(frames) - 2].in = "fn"
        BY <1>11, <2>2, DeferIsInFunction DEF DeferStart, In
      <3>2. "end" \in Places /\ ScopesAt(Top.in, "end") = 1
        <4>1. "end" \in Places
          BY DEF Places
        <4> QED BY <1>1, <1>2, <3>1, <4>1, Weights
      <3> QED BY <2>2, <3>1, <3>2, OpensLoose
    <2>3. CASE scopes' = scopes /\ (Return("ok") \/ Fail)
      BY <1>3, <1>4, <2>3
    <2> QED BY <1>11, <2>1, <2>2, <2>3 DEF DeferStart
  <1>12. CASE BlockEnd
    <2>1. /\ Top.in \in {"fn", "while", "expect", "defer", "braces"} /\ Top.at = "end"
          /\ scopes' = Left
      BY <1>12 DEF BlockEnd, In
    <2>2. ScopesAt(Top.in, Top.at) = 1
      BY <1>1, <2>1, Weights
    <2> QED BY <1>2, <1>12, <2>1, <2>2, EndsLoose DEF BlockEnd
  <1>13. {"cond", "then", "thenDone", "elseQ", "else", "elseIfDone", "elseDone", "loop"} \subseteq Places
         /\ "block" \in Functions /\ "if" \in Functions
    BY DEF Places, Functions
  <1>14. CASE IfCond
    <2>1. CASE Fail /\ scopes' = scopes
      BY <1>4, <2>1
    <2>2. CASE Goto("then") /\ scopes' = Entered(Block)
      <3>1. Top.in = "if" /\ Top.at = "cond"
        BY <1>14 DEF IfCond, In
      <3>2. ScopesAt("if", "then") = 1 /\ ScopesAt("if", "cond") = 0
        BY <1>13, Weights
      <3>3. OwnsAt("if", "then") = 1 /\ OwnsAt("if", "cond") = 0
        BY <1>13, <3>2, OwnWeights
      <3>4. Change(frames, frames', 1, 1)
        <4>1. Change(frames, frames', ScopesAt("if", "then") - ScopesAt("if", "cond"),
                                      OwnsAt("if", "then") - OwnsAt("if", "cond"))
          BY <1>13, <2>2, <3>1, GotoChange DEF Goto
        <4>2. /\ ScopesAt("if", "then") - ScopesAt("if", "cond") = 1
              /\ OwnsAt("if", "then") - OwnsAt("if", "cond") = 1
          BY <3>2, <3>3
        <4> QED BY <4>1, <4>2
      <3>5. 1 \in Int /\ 1 <= 1
        OBVIOUS
      <3> QED BY <2>2, <3>4, <3>5, EntersLoose
    <2> QED BY <1>14, <2>1, <2>2 DEF IfCond
  <1>15. CASE IfThen
    <2>1. Top.in = "if" /\ Top.at = "then"
      BY <1>15 DEF IfThen, In
    <2>2. CASE Call("block", "loop", "thenDone") /\ scopes' = scopes
      <3>1. ScopesAt(Top.in, "thenDone") = 1 /\ ScopesAt(Top.in, Top.at) = 1
        BY <1>13, <2>1, Weights
      <3>2. OwnsAt(Top.in, "thenDone") = 1
        BY <1>13, <2>1, <3>1, OwnWeights
      <3>3. ScopesAt(Top.in, "thenDone") <= ScopesAt(Top.in, Top.at)
        BY <3>1
      <3> QED BY <1>13, <2>1, <2>2, <3>2, <3>3, CallsLoose
    <2> QED BY <1>5, <1>15, <2>2 DEF IfThen
  <1>16. CASE IfThenDone
    <2>1. Top.in = "if" /\ Top.at = "thenDone"
      BY <1>16 DEF IfThenDone, In
    <2>2. CASE Return("null") /\ scopes' = scopes
      BY <1>3, <2>2
    <2>3. CASE Goto("elseQ") /\ scopes' = Left
      <3>1. ScopesAt("if", "elseQ") = 0 /\ ScopesAt("if", "thenDone") = 1
        BY <1>13, Weights
      <3>2. OwnsAt("if", "elseQ") = 0 /\ OwnsAt("if", "thenDone") = 1
        BY <1>13, <3>1, OwnWeights
      <3>3. Change(frames, frames', -1, -1)
        <4>1. Change(frames, frames', ScopesAt("if", "elseQ") - ScopesAt("if", "thenDone"),
                                      OwnsAt("if", "elseQ") - OwnsAt("if", "thenDone"))
          BY <1>13, <2>1, <2>3, GotoChange DEF Goto
        <4>2. /\ ScopesAt("if", "elseQ") - ScopesAt("if", "thenDone") = -1
              /\ OwnsAt("if", "elseQ") - OwnsAt("if", "thenDone") = -1
          BY <3>1, <3>2
        <4> QED BY <4>1, <4>2
      <3>4. -1 \in Int /\ -1 <= -1
        OBVIOUS
      <3> QED BY <2>3, <3>3, <3>4, LeavesLoose
    <2> QED BY <1>16, <2>2, <2>3 DEF IfThenDone
  <1>17. CASE IfElseQ
    BY <1>3, <1>6, <1>17 DEF IfElseQ
  <1>18. CASE IfElse
    <2>1. Top.in = "if" /\ Top.at = "else"
      BY <1>18 DEF IfElse, In
    <2>2. CASE Call("if", "cond", "elseIfDone") /\ scopes' = scopes
      <3>1. ScopesAt(Top.in, "elseIfDone") = 0 /\ ScopesAt(Top.in, Top.at) = 0
        BY <1>13, <2>1, Weights
      <3>2. ScopesAt(Top.in, "elseIfDone") <= ScopesAt(Top.in, Top.at)
        BY <3>1
      <3> QED BY <1>13, <2>1, <2>2, <3>2, CallsLoose
    <2> QED BY <1>5, <1>7, <1>18, <2>1, <2>2 DEF IfElse
  <1>19. CASE IfElseDone
    <2>1. Top.in = "if" /\ (Top.at = "elseDone" \/ Top.at = "elseIfDone")
      BY <1>19 DEF IfElseDone, In
    <2>2. PICK r : Return(r)
      BY <1>19 DEF IfElseDone
    <2>3. CASE scopes' = scopes
      BY <1>3, <2>2, <2>3
    <2>4. CASE scopes' = Left /\ Top.at = "elseDone"
      <3>1. ScopesAt(Top.in, Top.at) = 1
        BY <1>13, <2>1, <2>4, Weights
      <3> QED BY <1>2, <2>2, <2>4, <3>1, EndsLoose
    <2> QED BY <1>19, <2>1, <2>3, <2>4 DEF IfElseDone
  <1> QED BY <1>8, <1>9, <1>10, <1>11, <1>12, <1>14, <1>15, <1>16, <1>17, <1>18, <1>19
          DEF StatementNext

\* The blocks, which own no scope: whoever opens one does.
LEMMA BlockLoose ==
  ASSUME LooseInv, phase = "parse", BlockNext
  PROVE  LooseInv'
PROOF
  <1>1. Top.in \in Functions /\ Top.at \in Places /\ ScopesAt(Top.in, Top.at) \in {0, 1}
    BY AnyTop, AreCounts
  <1>2. Top.in \in {"block", "deferBlock"}
    BY DEF BlockNext, BlockStatement, DeferBlockStatement, BlockCompound, BlockCheck, BlockSync,
       BlockClose, In
  <1>3. ASSUME NEW place \in {"loop", "check", "sync"}
        PROVE  /\ place \in Places /\ place /= "end"
               /\ ScopesAt(Top.in, place) = 0 /\ OwnsAt(Top.in, place) = 0
    <2>1. place \in Places
      BY DEF Places
    <2>2. ScopesAt(Top.in, place) = 0
      BY <1>1, <1>2, <2>1, Weights
    <2> QED BY <1>1, <1>2, <2>1, <2>2, OwnWeights
  <1>4. ASSUME NEW place \in {"loop", "check", "sync"}, scopes' = scopes,
               \/ frames' = [frames EXCEPT ![Len(frames)].at = place]
               \/ GotoFlagged(place)
        PROVE  LooseInv'
    <2>1. ScopesAt(Top.in, place) <= ScopesAt(Top.in, Top.at)
      BY <1>1, <1>3
    <2> QED BY <1>3, <1>4, <2>1, StaysLoose DEF GotoFlagged
  <1>5. ASSUME NEW r, Return(r), scopes' = scopes PROVE LooseInv'
    BY <1>2, <1>5, ReturnsLoose
  <1>6. CASE frames' = frames /\ scopes' = scopes
    <2>1. Change(frames, frames', 0, 0)
      <3>1. Stack(frames) /\ Cardinality(ScopeFrames(frames)) \in Nat /\ Cardinality(Owners(frames)) \in Nat
        BY StackTop DEF LooseInv, Stack
      <3> QED BY <1>6, <3>1 DEF Change
    <2> QED BY <1>6, <2>1, KeepsLoose
  <1>7. CASE BlockStatement \/ DeferBlockStatement
    BY <1>4, <1>7 DEF BlockStatement, DeferBlockStatement, Statement
  <1>8. CASE BlockCheck
    BY <1>4, <1>5, <1>8 DEF BlockCheck, Goto, Fail
  <1>9. CASE BlockSync
    BY <1>4, <1>6, <1>9 DEF BlockSync, Goto
  <1>10. CASE BlockClose
    BY <1>5, <1>10 DEF BlockClose, Fail
  <1>11. CASE BlockCompound /\ cur /= "{"
    <2>1. PICK first \in {"start", "cond"} :
            /\ Top.in = "block" /\ scopes' = scopes
            /\ cur \in {"if", "while", "defer", "expect"}
            /\ first = (IF cur = "defer" THEN "start" ELSE "cond")
            /\ Call(cur, first, "check")
      BY <1>11 DEF BlockCompound, In
    <2>2. cur \in Functions /\ first \in Places
      BY <2>1 DEF Functions, Places
    <2>3. ScopesAt(Top.in, "check") <= ScopesAt(Top.in, Top.at)
      BY <1>1, <1>3
    <2>4. "check" \in Places /\ first /= "end"
      BY <1>3
    <2>5. /\ cur \notin {"module", "if"} \/ (cur = "if" /\ first = "cond")
          /\ cur /= "struct" /\ cur /= "block"
          /\ Top.in \notin {"module", "struct", "fn"}
      BY <2>1
    <2> QED BY <2>1, <2>2, <2>3, <2>4, <2>5, CallsLoose
  <1>12. CASE BlockCompound /\ cur = "{"
    <2>1. /\ Top.in = "block" /\ Top.at = "loop"
          /\ frames' = [frames EXCEPT ![Len(frames)].at = "check"]
                         \o <<Frame("braces", "end"), Frame("block", "loop")>>
          /\ scopes' = Entered(Block)
      BY <1>12 DEF BlockCompound, In
    <2>2. PICK e, f, g : /\ e = [Top EXCEPT !.at = "check"]
                         /\ f = Frame("braces", "end") /\ g = Frame("block", "loop")
      OBVIOUS
    <2>3. /\ e \in Frames /\ e.in = "block" /\ e.at = "check"
          /\ f \in Frames /\ f.in = "braces" /\ f.at = "end"
          /\ g \in Frames /\ g.in = "block" /\ g.at = "loop"
      <3>1. Top \in Frames
        BY AnyTop
      <3> QED BY <2>1, <2>2, <3>1 DEF Frame, Frames, Functions, Places
    <2>4. PICK t : t = WithTop(frames, e)
      OBVIOUS
    <2>5. /\ Stack(frames) /\ frames \in Seq(Frames) /\ Len(frames) \in Nat /\ Len(frames) >= 1
          /\ Top = frames[Len(frames)]
      BY AnyTop DEF Stack
    <2>6. frames' = t \o <<f, g>>
      BY <2>1, <2>2, <2>4, <2>5 DEF WithTop, Top
    <2>7. /\ ScopesAt("block", "check") = 0 /\ ScopesAt("block", "loop") = 0
          /\ OwnsAt("block", "check") = 0 /\ OwnsAt("block", "loop") = 0
          /\ ScopesAt("braces", "end") = 1 /\ OwnsAt("braces", "end") = 1
      <3>1. /\ ScopesAt("block", "check") = 0 /\ ScopesAt("block", "loop") = 0
            /\ OwnsAt("block", "check") = 0 /\ OwnsAt("block", "loop") = 0
        BY <1>3, <2>1
      <3>2. "braces" \in Functions /\ "end" \in Places
        BY DEF Functions, Places
      <3>3. ScopesAt("braces", "end") = 1
        BY <3>2, Weights
      <3> QED BY <3>1, <3>2, <3>3, OwnWeights
    <2>8. Change(frames, t, 0, 0) /\ Len(t) = Len(frames) /\ t[Len(t)] = e
      <3>1. /\ Len(t) = Len(frames) /\ t[Len(frames)] = e
            /\ Change(frames, t, ScopesAt(e.in, e.at) - ScopesAt(e.in, frames[Len(frames)].at),
                                 OwnsAt(e.in, e.at) - OwnsAt(e.in, frames[Len(frames)].at))
        <4>1. e.in = frames[Len(frames)].in
          BY <2>1, <2>3, <2>5
        <4> QED BY <2>3, <2>4, <2>5, <4>1, TopMoves
      <3>2. /\ ScopesAt(e.in, e.at) - ScopesAt(e.in, frames[Len(frames)].at) = 0
            /\ OwnsAt(e.in, e.at) - OwnsAt(e.in, frames[Len(frames)].at) = 0
        BY <2>1, <2>3, <2>5, <2>7
      <3> QED BY <3>1, <3>2
    <2>9. Stack(t) /\ t \in Seq(Frames) /\ Len(t) \in Nat /\ Len(t) >= 1
      BY <2>5, <2>8 DEF Change, Stack
    <2>10. PICK k \in 1..(Len(t) - 1) : t[k].in = "fn" /\ t[k].at = "end"
      <3>1. Standing(t, Len(t)) /\ t[Len(t)].in = "block"
        BY <2>3, <2>8, <2>9 DEF Stack
      <3> QED BY <3>1 DEF Standing
    <2>11. PICK u : u = Append(t, f)
      OBVIOUS
    <2>12. /\ u \in Seq(Frames) /\ Len(u) = Len(t) + 1 /\ u[Len(u)] = f /\ u[k] = t[k]
           /\ frames' = Append(u, g)
      BY <2>3, <2>6, <2>9, <2>10, <2>11
    <2>13. Change(t, u, 1, 1)
      <3>1. Supported(t, Len(t) + 1, f)
        <4>1. k \in 1..((Len(t) + 1) - 1)
          BY <2>9, <2>10
        <4> QED BY <2>3, <2>10, <4>1 DEF Supported
      <3> QED BY <2>3, <2>7, <2>9, <2>11, <3>1, TopCalls
    <2>14. Change(u, frames', 0, 0)
      <3>1. Supported(u, Len(u) + 1, g)
        <4>1. k \in 1..((Len(u) + 1) - 1) /\ (Len(u) + 1) - 1 = Len(u)
          BY <2>9, <2>10, <2>12
        <4>2. Owns(u[Len(u)])
          BY <2>3, <2>7, <2>12, FrameOwns
        <4> QED BY <2>3, <2>10, <2>12, <4>1, <4>2 DEF Supported
      <3>2. Stack(u)
        BY <2>13 DEF Change
      <3> QED BY <2>3, <2>7, <2>12, <3>1, <3>2, TopCalls
    <2>15. Change(frames, u, 1, 1)
      <3>1. Change(frames, u, 0 + 1, 0 + 1)
        BY <2>5, <2>8, <2>13, Changes
      <3> QED BY <3>1
    <2>16. Change(frames, frames', 1, 1)
      <3>1. Change(frames, frames', 1 + 0, 1 + 0)
        <4>1. 0 \in Int /\ 1 \in Int
          OBVIOUS
        <4> QED BY <2>5, <2>14, <2>15, <4>1, Changes, Zenon
      <3> QED BY <3>1
    <2>17. 1 \in Int /\ 1 <= 1
      OBVIOUS
    <2> QED BY <2>1, <2>16, <2>17, EntersLoose
  <1> QED BY <1>7, <1>8, <1>9, <1>10, <1>11, <1>12 DEF BlockNext

\* parseStructDecl() enters its scope from the module's only.
LEMMA StructLoose ==
  ASSUME LooseInv, phase = "parse", StructNext
  PROVE  LooseInv'
PROOF
  <1>1. /\ Top.in = "struct" /\ Top.at \in Places /\ ScopesAt(Top.in, Top.at) \in {0, 1}
        /\ Standing(frames, Len(frames)) /\ Top = frames[Len(frames)] /\ Len(frames) \in Nat
    BY AnyTop, AreCounts DEF StructNext, StructHead, StructBrace, StructField, StructFieldsDone,
       StructBadMember, StructMethod, StructMethodDone, StructSkip, StructClose, In
  <1>2. {"head", "brace", "fields", "badField", "methods", "badMethod", "method", "skip"}
          \subseteq Places
    BY DEF Places
  <1>3. ASSUME NEW r, Return(r), scopes' = scopes PROVE LooseInv'
    BY <1>1, <1>3, ReturnsLoose
  <1>4. ASSUME NEW token, NotConsumed(token) PROVE LooseInv'
    BY <1>3, <1>4 DEF NotConsumed, Fail
  <1>5. ASSUME NEW place \in {"brace", "fields", "badField", "methods", "badMethod", "method", "skip"},
               Goto(place) \/ GotoFlagged(place), scopes' = scopes,
               place = "brace" \/ Top.at \notin {"head", "brace"}
        PROVE  LooseInv'
    <2>1. place \in Places /\ place /= "end"
      BY <1>2
    <2>2. ScopesAt(Top.in, place) <= ScopesAt(Top.in, Top.at)
      BY <1>1, <1>5, <2>1, Weights
    <2> QED BY <1>5, <2>1, <2>2, StaysLoose DEF Goto, GotoFlagged
  <1>6. CASE frames' = frames /\ scopes' = scopes
    <2>1. Change(frames, frames', 0, 0)
      <3>1. Stack(frames) /\ Cardinality(ScopeFrames(frames)) \in Nat /\ Cardinality(Owners(frames)) \in Nat
        BY StackTop DEF LooseInv, Stack
      <3> QED BY <1>6, <3>1 DEF Change
    <2> QED BY <1>6, <2>1, KeepsLoose
  <1>7. CASE StructHead
    BY <1>4, <1>5, <1>7 DEF StructHead
  <1>8. CASE StructBrace
    <2>1. CASE MayEnter(Struct) /\ scopes' = Entered(Struct) /\ Goto("fields")
      <3>1. Scope = ModuleNamespace
        BY <2>1 DEF MayEnter, Struct, Block
      <3>2. Top.at = "brace"
        BY <1>8 DEF StructBrace, In
      <3>3. ScopesAt("struct", "fields") = 1 /\ ScopesAt("struct", "brace") = 0
        BY <1>2, Weights
      <3>4. OwnsAt("struct", "fields") = 0 /\ OwnsAt("struct", "brace") = 0
        BY OwnWeights
      <3>5. Change(frames, frames', 1, 0)
        <4>1. Change(frames, frames', ScopesAt("struct", "fields") - ScopesAt("struct", "brace"),
                                      OwnsAt("struct", "fields") - OwnsAt("struct", "brace"))
          BY <1>1, <1>2, <2>1, <3>2, GotoChange DEF Goto
        <4>2. /\ ScopesAt("struct", "fields") - ScopesAt("struct", "brace") = 1
              /\ OwnsAt("struct", "fields") - OwnsAt("struct", "brace") = 0
          BY <3>3, <3>4
        <4> QED BY <4>1, <4>2
      <3>6. 1 \in Int /\ 0 \in Int /\ 1 <= 1 /\ 0 <= 0
        OBVIOUS
      <3> QED BY <2>1, <3>1, <3>5, <3>6, EntersLoose
    <2>2. CASE phase' = "abort" /\ frames' = frames
      BY <2>2 DEF LooseInv
    <2> QED BY <1>4, <1>8, <2>1, <2>2 DEF StructBrace
  <1>9. CASE StructField \/ StructBadMember \/ StructMethodDone \/ StructSkip
    BY <1>5, <1>6, <1>9 DEF StructField, StructBadMember, StructMethodDone, StructSkip, In
  <1>10. CASE StructFieldsDone
    BY <1>3, <1>5, <1>10 DEF StructFieldsDone, In
  <1>11. CASE StructMethod
    <2>1. Top.at = "methods" /\ scopes' = scopes
      BY <1>11 DEF StructMethod, In
    <2>2. CASE Goto("badMethod")
      BY <1>5, <2>1, <2>2
    <2>3. CASE Call("fn", "head", "method")
      <3>1. ScopesAt("struct", "method") = 1 /\ ScopesAt("struct", "methods") = 1
        BY <1>2, Weights
      <3>2. "fn" \in Functions /\ ScopesAt(Top.in, "method") <= ScopesAt(Top.in, Top.at)
        BY <1>1, <2>1, <3>1 DEF Functions
      <3> QED BY <1>2, <2>1, <2>3, <3>2, CallsLoose
    <2> QED BY <1>11, <2>2, <2>3 DEF StructMethod
  <1>12. CASE StructClose
    <2>1. Top.at = "methods" /\ scopes' = Left /\ Return("ok")
      BY <1>12 DEF StructClose, In
    <2>2. Change(frames, frames', -1, 0)
      <3>1. Change(frames, frames', -ScopesAt(Top.in, Top.at), -OwnsAt(Top.in, Top.at))
        BY <1>1, <2>1, ReturnChange
      <3>2. -ScopesAt(Top.in, Top.at) = -1 /\ -OwnsAt(Top.in, Top.at) = 0
        <4>1. ScopesAt("struct", "methods") = 1 /\ OwnsAt("struct", "methods") = 0
          BY <1>2, Weights, OwnWeights
        <4> QED BY <1>1, <2>1, <4>1
      <3> QED BY <3>1, <3>2
    <2>3. Cardinality(Owners(frames')) = 0
      <3>1. Len(frames) = 2 /\ frames \in Seq(Frames)
        BY <1>1, AnyTop DEF Standing, Stack
      <3>2. frames' \in Seq(Frames) /\ Len(frames') = 1 /\ Stack(frames')
        BY <2>1, <2>2, <3>1 DEF Return, Change
      <3>3. DOMAIN frames' = {1} /\ frames'[1] \in Frames /\ Standing(frames', 1)
        BY <3>2 DEF Stack
      <3>4. ~Owns(frames'[1])
        BY <3>3 DEF Standing, Owns, HoldsScope
      <3>5. Owners(frames') = {}
        BY <3>3, <3>4 DEF Owners
      <3> QED BY <3>5, FS_EmptySet
    <2>4. -1 \in Int /\ 0 \in Int /\ -1 <= -1
      OBVIOUS
    <2> QED BY <2>1, <2>2, <2>3, <2>4, LeavesLoose
  <1> QED BY <1>7, <1>8, <1>9, <1>10, <1>11, <1>12 DEF StructNext

\* At first there is the module, in its own scope.
LEMMA InitLoose == Init => LooseInv
PROOF
  <1> SUFFICES ASSUME Init PROVE LooseInv
    OBVIOUS
  <1>1. PICK f : f = Frame("module", "item")
    OBVIOUS
  <1>2. f \in Frames /\ f.in = "module" /\ f.at = "item"
    BY <1>1 DEF Frame, Frames, Functions, Places
  <1>3. frames = <<f>> /\ scopes = <<-1>>
    BY <1>1 DEF Init, ModuleNamespace
  <1>4. Stack(frames)
    BY <1>2, <1>3 DEF Stack, Standing
  <1>5. ScopeFrames(frames) = {} /\ Owners(frames) = {}
    BY <1>2, <1>3 DEF ScopeFrames, Owners, Owns, HoldsScope
  <1>6. Chain(scopes) /\ Len(scopes) = 1 /\ Level(scopes) = 0
    BY <1>3 DEF Chain, Level
  <1>7. Cardinality({}) = 0
    BY FS_EmptySet
  <1> QED BY <1>4, <1>5, <1>6, <1>7 DEF LooseInv, Loose

LEMMA NextLoose == LooseInv /\ [Next]_vars => LooseInv'
PROOF
  <1> SUFFICES ASSUME LooseInv, [Next]_vars PROVE LooseInv'
    OBVIOUS
  <1>1. CASE UNCHANGED vars
    BY <1>1 DEF vars, LooseInv, Loose
  <1>2. CASE Next
    <2>1. phase = "parse"
      BY <1>2 DEF Next, ModuleNext, ModuleItem, ModuleDeclared, ModuleSync, ModuleSkip, ModuleEnd,
         StatementNext, FnHead, FnBrace, WhileCond, BodyBrace, ExpectCond, ExpectTail, DeferStart,
         BlockEnd, IfCond, IfThen, IfThenDone, IfElseQ, IfElse, IfElseDone,
         BlockNext, BlockStatement, DeferBlockStatement, BlockCompound, BlockCheck, BlockSync,
         BlockClose, StructNext, StructHead, StructBrace, StructField, StructFieldsDone,
         StructBadMember, StructMethod, StructMethodDone, StructSkip, StructClose, In
    <2> QED BY <1>2, <2>1, ModuleLoose, StatementLoose, BlockLoose, StructLoose DEF Next
  <1> QED BY <1>1, <1>2

(* Whatever errors were met before and whatever scopes they left behind,   *)
(* the depth of the current scope (parseDeferStmt()) never lets a deferred *)
(* block through whose own block is not that of a function or method.      *)
THEOREM DefersInFunctions == Spec => []DeferOnlyInFunctionBlock
PROOF
  <1>1. LooseInv => DeferOnlyInFunctionBlock
    <2> SUFFICES ASSUME LooseInv, NEW i \in DOMAIN frames,
                        frames[i].in = "defer", frames[i].at = "end"
                 PROVE  frames[i - 1].in = "block" /\ frames[i - 2].in = "fn"
      BY DEF DeferOnlyInFunctionBlock
    <2>1. Standing(frames, i)
      BY AnyTop DEF Stack
    <2> QED BY <2>1 DEF Standing
  <1> QED BY <1>1, InitLoose, NextLoose, PTL DEF Spec
=============================================================================
