--------------------------- MODULE MCTypeRegistry ---------------------------
(* Names for the type tables.  An identifier with its running number is a  *)
(* new word; only the collisions' run has an identifier that ends in a     *)
(* digit, and there "A" with the number 0 is the identifier "A0".          *)
EXTENDS TypeRegistry

CONSTANTS A, B

NoExports == <<>>
MCExports == [m \in {"m"} |-> {A}]
MCSpell ==
  [p \in (Idents \cup Modules) \X (0..(2 * MaxTypes)) |->
     IF p = <<"A", 0>> THEN <<"A0">> ELSE <<p[1], "#", p[2]>>]
=============================================================================
