--------------------------------- MODULE Lexer ---------------------------------
(***************************************************************************)
(* seki_lexer_next (src/src/alpha/seki_lexer.c), one step per iteration of *)
(* its loops.  A source is a sequence of octets; offsets count from zero,  *)
(* so the octet at an offset is source[offset + 1].                        *)
(*                                                                         *)
(* A token of punctuation is "MARK": which one it is follows from its      *)
(* octets.                                                                 *)
(***************************************************************************)
EXTENDS Integers, Sequences, FiniteSets

CONSTANTS
  Sources,   \* the sources that may be read
  MaxNumber  \* UINT32_MAX

ASSUME LexerAssumption ==
  /\ Sources \subseteq Seq(0..255)
  /\ MaxNumber \in Nat /\ MaxNumber >= 9

(***************************************************************************)
(* Octets by their names.                                                  *)
(***************************************************************************)
Tab == 9
LF == 10
CR == 13
Space == 32
Bang == 33
Quote == 34
Percent == 37
Ampersand == 38
OpenParen == 40
CloseParen == 41
Star == 42
Plus == 43
Comma == 44
Minus == 45
Dot == 46
Slash == 47
Colon == 58
Semicolon == 59
Less == 60
Equals == 61
Greater == 62
At == 64
OpenBracket == 91
CloseBracket == 93
Underscore == 95
OpenBrace == 123
Bar == 124
CloseBrace == 125

ascii_alpha == (97..122) \cup (65..90)
ascii_digit == 48..57
ascii_hex == ascii_digit \cup (97..102) \cup (65..70)
ascii_ident_rest == ascii_alpha \cup ascii_digit \cup {Underscore}

Simple == {Dot, Comma, At, OpenBrace, CloseBrace, OpenBracket, CloseBracket,
           OpenParen, CloseParen, Plus, Star, Slash, Percent}

\* Octets that are a token unless they are the first half of one.
Alone == Simple \cup {Colon, Minus, Less, Greater, Bar}

Pairs == {<<Colon, Colon>>, <<Colon, Equals>>, <<Minus, Greater>>, <<Less, Equals>>,
          <<Greater, Equals>>, <<Equals, Equals>>, <<Bang, Equals>>,
          <<Ampersand, Ampersand>>, <<Bar, Bar>>}

VARIABLES
  source,
  offset,   \* lexer->offset
  line,     \* lexer->line
  column,   \* lexer->column
  failed,   \* lexer->failed
  at,       \* the loop that runs; "idle" between two calls
  begin,    \* start, line and column of the call
  number,
  token,    \* the token returned last
  error     \* the error returned last

vars == <<source, offset, line, column, failed, at, begin, number, token, error>>

NoToken == [kind |-> "NONE", first |-> 0, length |-> 0, number |-> 0, line |-> 1,
            column |-> 1]

NoError == [code |-> "ok", line |-> 1, column |-> 1]

Start == [first |-> 0, line |-> 1, column |-> 1]

Init ==
  /\ source \in Sources
  /\ offset = 0 /\ line = 1 /\ column = 1
  /\ failed = FALSE
  /\ at = "idle"
  /\ begin = Start
  /\ number = 0
  /\ token = NoToken
  /\ error = NoError

-----------------------------------------------------------------------------
More == offset < Len(source)

Octet == source[offset + 1]

\* The octet at the offset, and the one after it, if they are there.
Sees(S) == More /\ Octet \in S
SeesPair(S) == offset + 1 < Len(source) /\ <<Octet, source[offset + 2]>> \in S

advance_regular ==
  /\ offset' = offset + 1
  /\ column' = column + 1
  /\ UNCHANGED line

\* A line ends with n octets.
NextLine(n) ==
  /\ offset' = offset + n
  /\ line' = line + 1
  /\ column' = 1

fail(code, l, c) ==
  /\ failed' = TRUE
  /\ error' = [code |-> code, line |-> l, column |-> c]
  /\ at' = "idle"
  /\ UNCHANGED token

\* set_simple, and the return after it.
Returned(kind, from, length, value) ==
  /\ token' = [kind |-> kind, first |-> from.first, length |-> length, number |-> value,
               line |-> from.line, column |-> from.column]
  /\ at' = "idle"
  /\ UNCHANGED <<failed, error>>

Here == [first |-> offset, line |-> line, column |-> column]

Went(loop) ==
  /\ at' = loop
  /\ UNCHANGED <<failed, token, error>>

-----------------------------------------------------------------------------
(***************************************************************************)
(* The call, and skip_trivia.                                              *)
(***************************************************************************)
Call ==
  /\ at = "idle"
  /\ IF failed THEN fail("A0-LEX-0004", line, column) ELSE Went("trivia")
  /\ UNCHANGED <<source, offset, line, column, begin, number>>

SkipBlank ==
  /\ at = "trivia" /\ Sees({Space, Tab})
  /\ advance_regular
  /\ UNCHANGED <<source, failed, at, begin, number, token, error>>

\* Mutant of SkipReturn: CR LF is taken for two line ends.
SkipReturnTwice ==
  /\ at = "trivia" /\ Sees({CR})
  /\ NextLine(1)
  /\ UNCHANGED <<source, failed, at, begin, number, token, error>>

SkipReturn ==
  /\ at = "trivia" /\ Sees({CR})
  /\ NextLine(IF SeesPair({<<CR, LF>>}) THEN 2 ELSE 1)
  /\ UNCHANGED <<source, failed, at, begin, number, token, error>>

SkipLineFeed ==
  /\ at = "trivia" /\ Sees({LF})
  /\ NextLine(1)
  /\ UNCHANGED <<source, failed, at, begin, number, token, error>>

Commented == SeesPair({<<Semicolon, Semicolon>>})

OpenComment ==
  /\ at = "trivia" /\ Commented
  /\ Went("comment")
  /\ UNCHANGED <<source, offset, line, column, begin, number>>

\* Mutant of SkipComment: a comment also ends before a semicolon.
SkipCommentPart ==
  /\ at = "comment"
  /\ IF More /\ Octet \notin {CR, LF, Semicolon}
     THEN advance_regular /\ at' = at
     ELSE at' = "trivia" /\ UNCHANGED <<offset, line, column>>
  /\ UNCHANGED <<source, failed, begin, number, token, error>>

SkipComment ==
  /\ at = "comment"
  /\ IF More /\ Octet \notin {CR, LF}
     THEN advance_regular /\ at' = at
     ELSE at' = "trivia" /\ UNCHANGED <<offset, line, column>>
  /\ UNCHANGED <<source, failed, begin, number, token, error>>

-----------------------------------------------------------------------------
(***************************************************************************)
(* After the trivia: the first octet decides.                              *)
(***************************************************************************)
Significant == at = "trivia" /\ ~Sees({Space, Tab, CR, LF}) /\ ~Commented

ReturnEnd ==
  /\ Significant /\ ~More
  /\ Returned("EOF", Here, 0, 0)
  /\ begin' = Here
  /\ UNCHANGED <<source, offset, line, column, number>>

StartIdentifier ==
  /\ Significant /\ Sees(ascii_alpha \cup {Underscore})
  /\ begin' = Here
  /\ advance_regular
  /\ Went("identifier")
  /\ UNCHANGED <<source, number>>

StartNumber ==
  /\ Significant /\ Sees(ascii_digit)
  /\ begin' = Here
  /\ number' = 0
  /\ Went("number")
  /\ UNCHANGED <<source, offset, line, column>>

StartString ==
  /\ Significant /\ Sees({Quote})
  /\ begin' = Here
  /\ advance_regular
  /\ Went("string")
  /\ UNCHANGED <<source, number>>

\* Two octets that are one token.
ReturnPair ==
  /\ Significant /\ SeesPair(Pairs)
  /\ Returned("MARK", Here, 2, 0)
  /\ begin' = Here
  /\ offset' = offset + 2
  /\ column' = column + 2
  /\ UNCHANGED <<source, line, number>>

\* Mutant of ReturnMark: before it is looked whether there is a second half.
ReturnMarkFirst ==
  /\ Significant /\ Sees(Alone)
  /\ Returned("MARK", Here, 1, 0)
  /\ begin' = Here
  /\ advance_regular
  /\ UNCHANGED <<source, number>>

ReturnMark ==
  /\ Significant /\ Sees(Alone) /\ ~SeesPair(Pairs)
  /\ Returned("MARK", Here, 1, 0)
  /\ begin' = Here
  /\ advance_regular
  /\ UNCHANGED <<source, number>>

Known == ascii_ident_rest \cup {Quote} \cup Alone

\* No token starts here; half of a pair is consumed before that is known.
FailToken ==
  /\ Significant /\ More /\ ~Sees(Known) /\ ~SeesPair(Pairs)
  /\ fail("A0-LEX-0003", line, column)
  /\ begin' = Here
  /\ IF Sees({Equals, Bang, Ampersand}) THEN advance_regular
     ELSE UNCHANGED <<offset, line, column>>
  /\ UNCHANGED <<source, number>>

-----------------------------------------------------------------------------
(***************************************************************************)
(* The loops of an identifier, a number and a string of octets.            *)
(***************************************************************************)
Identifier ==
  /\ at = "identifier" /\ Sees(ascii_ident_rest)
  /\ advance_regular
  /\ UNCHANGED <<source, failed, at, begin, number, token, error>>

ReturnIdentifier ==
  /\ at = "identifier" /\ ~Sees(ascii_ident_rest)
  /\ Returned("IDENT", begin, offset - begin.first, 0)
  /\ UNCHANGED <<source, offset, line, column, begin, number>>

digit == Octet - 48

\* Mutant of Overflows: the digit is not counted.
OverflowsLate == number > MaxNumber \div 10

Overflows == number > (MaxNumber - digit) \div 10

Number ==
  /\ at = "number" /\ Sees(ascii_digit) /\ ~Overflows
  /\ number' = number * 10 + digit
  /\ advance_regular
  /\ UNCHANGED <<source, failed, at, begin, token, error>>

FailNumber ==
  /\ at = "number" /\ Sees(ascii_digit) /\ Overflows
  /\ fail("A0-LEX-0001", begin.line, begin.column)
  /\ UNCHANGED <<source, offset, line, column, begin, number>>

ReturnNumber ==
  /\ at = "number" /\ ~Sees(ascii_digit)
  /\ Returned("NUMBER", begin, offset - begin.first, number)
  /\ UNCHANGED <<source, offset, line, column, begin, number>>

String ==
  /\ at = "string" /\ Sees(ascii_hex)
  /\ advance_regular
  /\ UNCHANGED <<source, failed, at, begin, number, token, error>>

\* At least one octet, and the closing quote.
Closed == offset # begin.first + 1 /\ Sees({Quote})

\* The token is what is between the quotes.
ReturnString ==
  /\ at = "string" /\ ~Sees(ascii_hex) /\ Closed
  /\ Returned("STRING", [begin EXCEPT !.first = @ + 1], offset - begin.first - 1, 0)
  /\ advance_regular
  /\ UNCHANGED <<source, begin, number>>

FailString ==
  /\ at = "string" /\ ~Sees(ascii_hex) /\ ~Closed
  /\ fail("A0-LEX-0002", begin.line, begin.column)
  /\ UNCHANGED <<source, offset, line, column, begin, number>>

Step ==
  \/ SkipBlank
  \/ SkipReturn
  \/ SkipLineFeed
  \/ OpenComment
  \/ SkipComment
  \/ ReturnEnd
  \/ StartIdentifier
  \/ StartNumber
  \/ StartString
  \/ ReturnPair
  \/ ReturnMark
  \/ FailToken
  \/ Identifier
  \/ ReturnIdentifier
  \/ Number
  \/ FailNumber
  \/ ReturnNumber
  \/ String
  \/ ReturnString
  \/ FailString

Next == Call \/ Step

\* A call that has been made runs on.
Spec == Init /\ [][Next]_vars /\ WF_vars(Step)

-----------------------------------------------------------------------------
(***************************************************************************)
(* Types: the offset stays inside the source, and the value of a literal   *)
(* is always a word, on the way as well.                                   *)
(***************************************************************************)
Loops == {"idle", "trivia", "comment", "identifier", "number", "string"}

Position == [first : 0..Len(source), line : Nat, column : Nat]

TypeOK ==
  /\ source \in Sources
  /\ offset \in 0..Len(source) /\ line \in Nat /\ column \in Nat
  /\ failed \in BOOLEAN
  /\ at \in Loops
  /\ begin \in Position
  /\ number \in 0..MaxNumber
  /\ token.number \in 0..MaxNumber /\ token.first + token.length \in 0..Len(source)
  /\ failed <=> error.code # "ok"

\* Octet i is the last one of a line end: LF, CR LF, or CR alone.
EndsLine(i) ==
  \/ source[i] = LF
  \/ source[i] = CR /\ ~(i < Len(source) /\ source[i + 1] = LF)

\* Line and column of offset n: the line counts the line ends before it, and
\* the column the octets since the last of them.
Placed(n, l, c) ==
  /\ l = 1 + Cardinality({i \in 1..n : EndsLine(i)})
  /\ LET last == n + 1 - c
     IN /\ last \in 0..n
        /\ last # 0 => EndsLine(last)
        /\ \A i \in (last + 1)..n : ~EndsLine(i)

(***************************************************************************)
(* Line and column are a function of the octets before the offset, with    *)
(* CR LF counted once, and so are those of the start of a call's token,    *)
(* which tokens and failures are reported at.  Comments, strings and       *)
(* failed tokens change nothing about that (advance_regular and            *)
(* skip_trivia).                                                           *)
(***************************************************************************)
LineAndColumn ==
  /\ Placed(offset, line, column)
  /\ Placed(begin.first, begin.line, begin.column)

\* A call returns, whatever is in the source.
CallReturns == (at # "idle") ~> (at = "idle")

-----------------------------------------------------------------------------
Grammar == INSTANCE LexicalGrammar

\* The lexer returns the tokens and errors of the grammar, and no others: every
\* step that returns is one of the grammar's, and the others change nothing there.
ImplementsGrammar == Grammar!Spec
=============================================================================
