------------------------------ MODULE Scanner ------------------------------
(***************************************************************************)
(* The scanner on one file, a character at a time: scan_token() called     *)
(* again and again until the end of the file.  Positions count from 0 as   *)
(* in the code; the NUL behind the text ends it.  Which file is scanned    *)
(* next is in ModuleLoading.                                               *)
(***************************************************************************)
EXTENDS Integers, Sequences, FiniteSets

CONSTANTS
  Texts,          \* the files
  Letters, Digits,
  Keywords,       \* lexemes of the keywords
  DepthModulus    \* 2^8: the depth of nested comments is a u8

Blank == {" ", "\r", "\t", "\n"}
Single == {"(", ")", "[", "]", "{", "}", "+", "*", "/", ";", ",", ".", "#"}
\* Symbols that may have a second character.
Double == {":", "&", "-", "=", "|", "!", "<", ">"}
Second(c) == IF c \in {"=", "!", "<", ">"} THEN "=" ELSE IF c = "-" THEN ">" ELSE c
NUL == "\\0"
Quote == "\""
Backslash == "\\"
WordChars == Letters \cup Digits \cup {"_"}
NumberChars == Digits \cup {"_"}

ASSUME ScannerAssumption ==
  /\ Texts \subseteq Seq(STRING)
  /\ WordChars \cap {NUL, Quote} = {}
  /\ DepthModulus \in Nat \ {0, 1}

VARIABLES
  source,    \* the text
  start,     \* where the token starts
  current,   \* the next character
  mode,      \* the loop that is running
  depth,     \* of the comment
  opened,    \* where the comment begins (no variable of the code)
  tokens,    \* what has been returned
  errors     \* an error was added

scanVars == <<source, start, current, mode, depth, opened, tokens, errors>>

Modes == {"skip", "line", "comment", "number", "word", "string", "done", "outside"}
Kinds == {"number", "identifier", "keyword", "string", "symbol", "garbage", "EOF"}

Char(i) == IF i \in 0..(Len(source) - 1) THEN source[i + 1] ELSE NUL
Peek == Char(current)
PeekNext == Char(current + 1)
AtEnd == Peek = NUL

ScanInit ==
  /\ source \in Texts
  /\ start = 0 /\ current = 0
  /\ mode = "skip"
  /\ depth = 0 /\ opened = 0
  /\ tokens = <<>>
  /\ errors = FALSE

Emit(kind, from, to) == tokens' = Append(tokens, [kind |-> kind, from |-> from, to |-> to])
Move(n) == current' = current + n

-----------------------------------------------------------------------------
(* skip_whitespace()                                                       *)
SkipBlank ==
  /\ mode = "skip" /\ Peek \in Blank
  /\ Move(1)
  /\ UNCHANGED <<source, start, mode, depth, opened, tokens, errors>>

OpensLine == Peek = "/" /\ PeekNext = "/"
OpenLine ==
  /\ mode = "skip" /\ OpensLine
  /\ mode' = "line"
  /\ UNCHANGED <<source, start, current, depth, opened, tokens, errors>>

LineStep ==
  /\ mode = "line"
  /\ IF AtEnd \/ Peek = "\n" THEN mode' = "skip" /\ UNCHANGED current ELSE Move(1) /\ UNCHANGED mode
  /\ UNCHANGED <<source, start, depth, opened, tokens, errors>>

\* Only the '/' is consumed: the '*' may still be half of a closing "*/".
OpensComment == Peek = "/" /\ PeekNext = "*"
OpenComment ==
  /\ mode = "skip" /\ OpensComment
  /\ mode' = "comment"
  /\ Move(1)
  /\ depth' = 1
  /\ opened' = current
  /\ UNCHANGED <<source, start, tokens, errors>>

MutCommentStep ==
  /\ mode = "comment" /\ ~AtEnd /\ depth > 0
  /\ IF Peek = "*" /\ PeekNext = "/" THEN Move(2) /\ depth' = depth - 1 ELSE Move(1) /\ UNCHANGED depth
  /\ UNCHANGED <<source, start, mode, opened, tokens, errors>>
CommentStep ==
  /\ mode = "comment" /\ ~AtEnd /\ depth > 0
  /\ \/ OpensComment /\ Move(2) /\ depth' = (depth + 1) % DepthModulus
     \/ Peek = "*" /\ PeekNext = "/" /\ Move(2) /\ depth' = depth - 1
     \/ ~OpensComment /\ ~(Peek = "*" /\ PeekNext = "/") /\ Move(1) /\ UNCHANGED depth
  /\ UNCHANGED <<source, start, mode, opened, tokens, errors>>

EndComment ==
  /\ mode = "comment" /\ (AtEnd \/ depth = 0)
  /\ mode' = "skip"
  /\ UNCHANGED <<source, start, current, depth, opened, tokens, errors>>

-----------------------------------------------------------------------------
(* scan_token() behind the blanks.                                         *)
Starts == mode = "skip" /\ ~OpensLine /\ ~OpensComment /\ current <= Len(source)
UnchangedInToken == UNCHANGED <<source, depth, opened>>

EndOfFile ==
  /\ Starts /\ AtEnd
  /\ start' = current
  /\ mode' = "done"
  /\ Emit("EOF", current, current)
  /\ UnchangedInToken /\ UNCHANGED <<current, errors>>

StartLong ==
  /\ Starts
  /\ \/ Peek \in Digits /\ mode' = "number"
     \/ Peek \in (Letters \cup {"_"}) \ Digits /\ mode' = "word"
     \/ Peek = Quote /\ mode' = "string"
  /\ start' = current
  /\ Move(1)
  /\ UnchangedInToken /\ UNCHANGED <<tokens, errors>>

SymbolLength == IF Peek \in Double /\ PeekNext = Second(Peek) THEN 2 ELSE 1
Symbol ==
  /\ Starts /\ Peek \in Single \cup Double
  /\ start' = current
  /\ Move(SymbolLength)
  /\ Emit("symbol", current, current + SymbolLength)
  /\ UnchangedInToken /\ UNCHANGED <<mode, errors>>

Unknown ==
  /\ Starts /\ ~AtEnd
  /\ Peek \notin Blank \cup WordChars \cup Single \cup Double \cup {Quote}
  /\ start' = current
  /\ Move(1)
  /\ Emit("garbage", current, current + 1)
  /\ errors' = TRUE
  /\ UnchangedInToken /\ UNCHANGED mode

\* scan_number_literal()
MutNumberStep ==
  /\ mode = "number"
  /\ IF ~AtEnd /\ Peek \in Digits
     THEN Move(1) /\ UNCHANGED <<mode, tokens>>
     ELSE Emit("number", start, current) /\ mode' = "skip" /\ UNCHANGED current
  /\ UnchangedInToken /\ UNCHANGED <<start, errors>>
NumberStep ==
  /\ mode = "number"
  /\ IF ~AtEnd /\ Peek \in NumberChars
     THEN Move(1) /\ UNCHANGED <<mode, tokens>>
     ELSE Emit("number", start, current) /\ mode' = "skip" /\ UNCHANGED current
  /\ UnchangedInToken /\ UNCHANGED <<start, errors>>

\* scan_keyword_or_identifier_type(); `result` is not set for other words of
\* six letters that begin with an e.
Lexeme == SubSeq(source, start + 1, current)
WordKinds(w) ==
  IF Len(w) = 6 /\ w[1] = "e" /\ w[3] \notin {"t", "p"} THEN Kinds
  ELSE IF w \in Keywords THEN {"keyword"} ELSE {"identifier"}
WordStep ==
  /\ mode = "word"
  /\ IF ~AtEnd /\ Peek \in WordChars
     THEN Move(1) /\ UNCHANGED <<mode, tokens>>
     ELSE /\ \E kind \in WordKinds(Lexeme) : Emit(kind, start, current)
          /\ mode' = "skip" /\ UNCHANGED current
  /\ UnchangedInToken /\ UNCHANGED <<start, errors>>

\* scan_string_literal(): the character behind the string is consumed, be it
\* the quote or the NUL.
MutEscaped == FALSE
Escaped == Peek = Backslash /\ PeekNext = Quote
StringStep ==
  /\ mode = "string"
  /\ IF ~AtEnd /\ Peek /= Quote
     THEN Move(IF Escaped THEN 2 ELSE 1) /\ UNCHANGED <<mode, tokens>>
     ELSE Move(1) /\ Emit("string", start, current + 1) /\ mode' = "skip"
  /\ UnchangedInToken /\ UNCHANGED <<start, errors>>

\* What lies behind the NUL is read: undefined behaviour.
ReadOutside ==
  /\ mode = "skip" /\ current > Len(source)
  /\ mode' = "outside"
  /\ UNCHANGED <<source, start, current, depth, opened, tokens, errors>>

Skip == SkipBlank \/ OpenLine \/ LineStep \/ OpenComment \/ CommentStep \/ EndComment
Scan == EndOfFile \/ StartLong \/ Symbol \/ Unknown \/ NumberStep \/ WordStep \/ StringStep \/ ReadOutside
ScanNext == Skip \/ Scan
ScanSpec == ScanInit /\ [][ScanNext]_scanVars

-----------------------------------------------------------------------------
ScannerTypeOK ==
  /\ source \in Seq(STRING)
  /\ start \in Nat /\ current \in Nat
  /\ mode \in Modes
  /\ depth \in 0..(DepthModulus - 1)
  /\ opened \in Nat
  /\ tokens \in Seq([kind : Kinds, from : Nat, to : Nat])
  /\ errors \in BOOLEAN

\* The characters of the text between two positions.
Run(from, to, chars) == \A i \in from..(to - 1) : Char(i) \in chars

Maximal(t) ==
  /\ t.kind = "number" /\ Char(t.from) \in Digits =>
       Run(t.from, t.to, NumberChars) /\ Char(t.to) \notin NumberChars
  /\ t.kind \in {"identifier", "keyword"} =>
       Run(t.from, t.to, WordChars) /\ Char(t.to) \notin WordChars

\* Each token begins behind the one before it; all but the end of the file
\* have characters.
Ordered ==
  \A j \in DOMAIN tokens :
    /\ tokens[j].kind /= "EOF" => tokens[j].from < tokens[j].to
    /\ \A i \in 1..(j - 1) : tokens[i].to <= tokens[j].from

\* The scanner stays inside the text and its NUL, unless a string is not
\* closed: then the NUL counts as its quote.
InBounds ==
  /\ current <= Len(source) + 1
  /\ current > Len(source) =>
       /\ tokens /= <<>>
       /\ tokens[Len(tokens)].kind = "string"
       /\ tokens[Len(tokens)].to = Len(source) + 1

\* A backslash escapes what follows it unless it is escaped itself: an odd number of them stands
\* before a quote that is escaped.
IsEscaped(i) ==
  \E n \in 1..i : n % 2 = 1 /\ Run(i - n, i, {Backslash}) /\ Char(i - n - 1) /= Backslash
ClosesString(i) == Char(i) = Quote /\ ~IsEscaped(i)

\* A string that begins at `from` and ends before `to`; the end of the text closes it too.
StringBetween(from, to) ==
  /\ \A i \in (from + 1)..(to - 2) : ~ClosesString(i)
  /\ ClosesString(to - 1) \/ Char(to - 1) = NUL

\* The text of the comment, and the "/*" and "*/" in it; of two that overlap, as in "/*/", the
\* first one counts.
Within == opened + 2
Pair(i) == {Char(i), Char(i + 1)} = {"/", "*"}
Mark(i) ==
  \E s \in Within..i :
    (i - s) % 2 = 0 /\ (\A k \in s..i : Pair(k)) /\ (s = Within \/ ~Pair(s - 1))
Deepens(i) == Mark(i) /\ Char(i) = "/"
EndsLevel(i) == Mark(i) /\ Char(i) = "*"

\* How many comments are open before i, and where the outermost is closed.
CommentLevel(i) ==
  1 + Cardinality({k \in Within..(i - 1) : Deepens(k)}) - Cardinality({k \in Within..(i - 1) : EndsLevel(k)})
ClosesComment(i) == EndsLevel(i) /\ CommentLevel(i) = 1

\* The comment ends before `to`; the end of the text ends it too.
CommentUpTo(to) ==
  /\ \A i \in Within..(to - 3) : ~ClosesComment(i)
  /\ ClosesComment(to - 2) \/ Char(to) = NUL

(* The tokens are in the order of the text and do not overlap, numbers and *)
(* words are as long as they can be, and nothing behind the text is read   *)
(* unless a string is not closed.  (A word may also be returned as a       *)
(* number, see WordKinds.)                                                 *)
TokensAreExact ==
  /\ Ordered
  /\ \A j \in DOMAIN tokens : Maximal(tokens[j])
  /\ InBounds

(* A comment ends with the "*/" that closes it, comments in it counted,    *)
(* unless more are nested than a u8 counts or its own "/*" runs into a     *)
(* "/", which closes it at once.                                           *)
CommentsNest ==
  mode = "comment" /\ (AtEnd \/ depth = 0) =>
    \/ CommentUpTo(current)
    \/ \E i \in Within..current : CommentLevel(i) >= DepthModulus
    \/ Char(Within) = "/"

(* A string ends with the first quote that is not escaped, unless it has a *)
(* backslash that is escaped itself.  (A token that does not begin with a  *)
(* quote may be called a string, see WordKinds.)                           *)
StringsClose ==
  \A j \in DOMAIN tokens :
    LET t == tokens[j] IN
    t.kind = "string" /\ Char(t.from) = Quote =>
      \/ StringBetween(t.from, t.to)
      \/ \E i \in (t.from + 1)..t.to : Char(i) = Backslash /\ Char(i + 1) = Backslash
=============================================================================
