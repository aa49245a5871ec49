----------------------------- MODULE MCScanner -----------------------------
(***************************************************************************)
(* All short texts over the characters that comments are made of, longer   *)
(* ones of "/" and "*" only (at the start of the file or in a comment) in  *)
(* which the depth of a comment overflows;                                 *)
(* all short texts over what strings are made of, and over what words,     *)
(* numbers and symbols are made of; and six-letter words.                  *)
(***************************************************************************)
EXTENDS Scanner

UpTo(n, chars) == UNION {[1..k -> chars] : k \in 0..n}
MCTexts ==
  {pre \o t : pre \in {<<>>, <<"/", "*", "a">>}, t \in UpTo(10, {"/", "*"})}
  \cup UpTo(6, {"/", "*", "a", "\n"})
  \cup UpTo(6, {"\"", "\\", "a", "/"})
  \cup UpTo(4, {"a", "1", "_", "<", "=", "-", ">", "$", " ", ";"})
  \cup {<<"e", "x", c, "e", "r", "n">> : c \in {"t", "p", "a"}}

\* Stand for all keywords.
MCKeywords == {<<"e", "x", "t", "e", "r", "n">>, <<"a", "a">>}

Stopped == mode \in {"done", "outside"} /\ UNCHANGED scanVars
MCSpec == ScanInit /\ [][ScanNext \/ Stopped]_scanVars

-----------------------------------------------------------------------------
(* tester/multiline_comments.ilc: "Nested comments work, even deeply       *)
(* nested ones!"                                                           *)
NestedCommentsWork ==
  mode = "comment" /\ (AtEnd \/ depth = 0) => CommentUpTo(current)
=============================================================================
