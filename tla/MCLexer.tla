-------------------------------- MODULE MCLexer --------------------------------
(***************************************************************************)
(* Every source of up to three octets with one of each class, and longer   *)
(* ones where more than three octets matter.                               *)
(***************************************************************************)
EXTENDS Lexer

Upto(n, S) == UNION {[1..k -> S] : k \in 0..n}

LetterA == 97
LetterF == 102
LetterG == 103

Each == {LetterA, Underscore, 50, Quote, Space, CR, LF, Semicolon, Dot, Colon, Equals,
         Minus, Greater, Less, Ampersand, Bar, Bang, 35}

Trivia == {Space, CR, LF, Semicolon, LetterF}
Numerals == {48, 50, 53, 54, LetterF}
Strings == {Quote, 50, LetterF, LetterG, LF}

MCSources == Upto(3, Each) \cup Upto(5, Trivia) \cup Upto(4, Numerals) \cup Upto(5, Strings)
=============================================================================
