--------------------------- MODULE MCKernelParser ---------------------------
(***************************************************************************)
(* Small arenas, so that a parse reaches the end of each of them, and      *)
(* three families of sources: operators and parentheses in one accept,     *)
(* record literals in one accept, and kernel tails over leaves.            *)
(***************************************************************************)
EXTENDS KernelParser

TwoCases == {{"A", "B"}}

OneOrTwoCases == {{"A"}, {"A", "B"}}

Operators == {"accept", "paren", "field", "compare", "and", "or"}

Records == {"accept", "paren", "field", "and", "record"}

Tails == {"accept", "reject", "payload", "require", "let", "if", "match"}

AllFamilies == {Operators, Records, Tails}

NestedMatches == {{"reject", "match"}}
=============================================================================
