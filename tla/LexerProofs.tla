----------------------------- MODULE LexerProofs -----------------------------
(***************************************************************************)
(* For any set of sources and any limit of a literal: the variables of the *)
(* lexer keep their types, so no offset leaves the source and no value of  *)
(* a literal wraps; the lines and columns of the offset and of the token   *)
(* count the line ends before them; and the lexer implements its grammar.  *)
(*                                                                         *)
(* The first two invariants are inductive: that the octets the loops pass  *)
(* with advance_regular end no line is what the second one rests on.  The  *)
(* third part takes ScanInv, which says of each loop what it has passed    *)
(* since the last token.                                                   *)
(***************************************************************************)
EXTENDS Lexer, FiniteSetTheorems, NaturalsInduction, WellFoundedInduction, TLAPS

\* A source is a sequence.
LEMMA SourceType ==
  ASSUME source \in Sources
  PROVE  Len(source) \in Nat
<1>1. source \in Seq(0..255)
  BY LexerAssumption
<1>2. QED
  BY <1>1

\* A digit is a number below ten, and a literal that passes the test for
\* overflow stays within the limit: 10n + d > M exactly if n > (M - d) / 10.
LEMMA DigitFits ==
  ASSUME NEW n \in Nat, NEW d \in 0..9, n <= (MaxNumber - d) \div 10
  PROVE  n * 10 + d \in 0..MaxNumber
<1>1. MaxNumber - d \in Nat
  BY LexerAssumption
<1>2. \A m \in Nat : 10 * (m \div 10) <= m
  OBVIOUS
<1>3. (MaxNumber - d) \div 10 \in Int
  BY <1>1
<1>4. n * 10 <= MaxNumber - d
  BY <1>1, <1>2, <1>3
<1>5. QED
  BY <1>4, LexerAssumption

-----------------------------------------------------------------------------
(***************************************************************************)
(* Types.                                                                  *)
(***************************************************************************)
LEMMA InitTypeOK == Init => TypeOK
<1>1. ASSUME Init PROVE TypeOK
  <2>1. source \in Sources /\ Len(source) \in Nat
    BY <1>1, SourceType DEF Init
  <2>2. MaxNumber \in Nat
    BY LexerAssumption
  <2>3. failed \in BOOLEAN /\ (failed <=> error.code # "ok")
    BY <1>1 DEF Init, NoError
  <2>4. token.number = 0 /\ token.first + token.length = 0
    BY <1>1 DEF Init, NoToken
  <2>5. QED
    BY <1>1, <2>1, <2>2, <2>3, <2>4 DEF Init, TypeOK, Loops, Position, Start
<1>2. QED
  BY <1>1

\* What a step does to the offset, line and column, if it moves at all.
Moves ==
  /\ offset' \in 0..Len(source)
  /\ line' \in Nat
  /\ column' \in Nat

LEMMA AdvanceMoves ==
  ASSUME TypeOK, More, advance_regular
  PROVE  Moves
<1>1. Len(source) \in Nat
  BY SourceType DEF TypeOK
<1>2. QED
  BY <1>1 DEF TypeOK, More, advance_regular, Moves

\* The place of the offset is a place of the source.
LEMMA HereIsPosition ==
  ASSUME TypeOK
  PROVE  Here \in Position
  BY DEF TypeOK, Here, Position

\* A token whose end is in the source keeps the types of what a return sets.
LEMMA ReturnedTyped ==
  ASSUME TypeOK, NEW kind, NEW from, NEW length, NEW value \in 0..MaxNumber,
         from.first + length \in 0..Len(source),
         Returned(kind, from, length, value)
  PROVE  /\ failed' \in BOOLEAN /\ at' \in Loops
         /\ token'.number \in 0..MaxNumber
         /\ token'.first + token'.length \in 0..Len(source)
         /\ failed' <=> error'.code # "ok"
  BY DEF TypeOK, Returned, Loops

\* A failure sets the flag together with a code, and no token.
LEMMA FailTyped ==
  ASSUME TypeOK, NEW code, code # "ok", NEW l, NEW c, fail(code, l, c)
  PROVE  /\ failed' \in BOOLEAN /\ at' \in Loops
         /\ token'.number \in 0..MaxNumber
         /\ token'.first + token'.length \in 0..Len(source)
         /\ failed' <=> error'.code # "ok"
  BY DEF TypeOK, fail, Loops

\* The call and the trivia keep the types.
LEMMA TriviaTyped ==
  ASSUME TypeOK,
         Call \/ SkipBlank \/ SkipReturn \/ SkipLineFeed \/ OpenComment \/ SkipComment
  PROVE  TypeOK'
<1>0. Len(source) \in Nat
  BY SourceType DEF TypeOK
<1>1. CASE Call
  <2>1. CASE failed
    <3>1. fail("A0-LEX-0004", line, column)
      BY <1>1, <2>1 DEF Call
    <3>2. QED
      BY <1>1, <3>1, FailTyped DEF Call, TypeOK, Position
  <2>2. CASE ~failed
    BY <1>1, <2>2 DEF Call, Went, TypeOK, Loops, Position
  <2>3. QED
    BY <2>1, <2>2
<1>2. CASE SkipBlank
  BY <1>2, AdvanceMoves DEF SkipBlank, Sees, Moves, TypeOK, Position
<1>3. CASE SkipReturn
  <2>1. CASE SeesPair({<<CR, LF>>})
    BY <1>0, <1>3, <2>1 DEF SkipReturn, NextLine, SeesPair, TypeOK, Position
  <2>2. CASE ~SeesPair({<<CR, LF>>})
    BY <1>0, <1>3, <2>2 DEF SkipReturn, NextLine, Sees, More, TypeOK, Position
  <2>3. QED
    BY <2>1, <2>2
<1>4. CASE SkipLineFeed
  BY <1>0, <1>4 DEF SkipLineFeed, NextLine, Sees, More, TypeOK, Position
<1>5. CASE OpenComment
  BY <1>5 DEF OpenComment, Went, TypeOK, Loops, Position
<1>6. CASE SkipComment
  <2>1. CASE More /\ Octet \notin {CR, LF}
    BY <1>6, <2>1, AdvanceMoves DEF SkipComment, Moves, TypeOK, Position
  <2>2. CASE ~(More /\ Octet \notin {CR, LF})
    BY <1>6, <2>2 DEF SkipComment, TypeOK, Loops, Position
  <2>3. QED
    BY <2>1, <2>2
<1>7. QED
  BY <1>1, <1>2, <1>3, <1>4, <1>5, <1>6

\* What the first octet of a token decides keeps the types.
LEMMA FirstTyped ==
  ASSUME TypeOK,
         \/ ReturnEnd \/ StartIdentifier \/ StartNumber \/ StartString
         \/ ReturnPair \/ ReturnMark \/ FailToken
  PROVE  TypeOK'
<1>0. /\ Len(source) \in Nat
      /\ Here \in Position /\ Here.first = offset
      /\ 0 \in 0..MaxNumber
  BY SourceType, HereIsPosition, LexerAssumption DEF TypeOK, Here
<1>1. CASE ReturnEnd
  <2>1. Returned("EOF", Here, 0, 0) /\ Here.first + 0 \in 0..Len(source)
    BY <1>0, <1>1 DEF ReturnEnd, TypeOK
  <2>2. QED
    BY <1>0, <1>1, <2>1, ReturnedTyped DEF ReturnEnd, TypeOK, Position
<1>2. CASE StartIdentifier
  BY <1>0, <1>2, AdvanceMoves
  DEF StartIdentifier, Sees, Moves, Went, TypeOK, Loops, Position
<1>3. CASE StartNumber
  BY <1>0, <1>3 DEF StartNumber, Went, TypeOK, Loops, Position
<1>4. CASE StartString
  BY <1>0, <1>4, AdvanceMoves
  DEF StartString, Sees, Moves, Went, TypeOK, Loops, Position
<1>5. CASE ReturnPair
  <2>1. Returned("MARK", Here, 2, 0) /\ Here.first + 2 \in 0..Len(source)
    BY <1>0, <1>5 DEF ReturnPair, SeesPair, TypeOK
  <2>2. QED
    BY <1>0, <1>5, <2>1, ReturnedTyped DEF ReturnPair, TypeOK, Position
<1>6. CASE ReturnMark
  <2>1. Returned("MARK", Here, 1, 0) /\ Here.first + 1 \in 0..Len(source)
    BY <1>0, <1>6 DEF ReturnMark, Sees, More, TypeOK
  <2>2. Moves
    BY <1>6, AdvanceMoves DEF ReturnMark, Sees
  <2>3. QED
    BY <1>0, <1>6, <2>1, <2>2, ReturnedTyped DEF ReturnMark, Moves, TypeOK, Position
<1>7. CASE FailToken
  <2>1. fail("A0-LEX-0003", line, column)
    BY <1>7 DEF FailToken
  <2>2. Moves
    BY <1>7, AdvanceMoves DEF FailToken, Sees, Moves, TypeOK
  <2>3. QED
    BY <1>0, <1>7, <2>1, <2>2, FailTyped DEF FailToken, Moves, TypeOK, Position
<1>8. QED
  BY <1>1, <1>2, <1>3, <1>4, <1>5, <1>6, <1>7

\* The loops of the longer tokens keep the types.
LEMMA LoopTyped ==
  ASSUME TypeOK,
         \/ Identifier \/ ReturnIdentifier
         \/ Number \/ FailNumber \/ ReturnNumber
         \/ String \/ ReturnString \/ FailString
  PROVE  TypeOK'
<1>0. /\ Len(source) \in Nat
      /\ 0 \in 0..MaxNumber
      /\ begin.first \in Nat
  BY SourceType, LexerAssumption DEF TypeOK, Position
<1>1. CASE Identifier
  BY <1>1, AdvanceMoves DEF Identifier, Sees, Moves, TypeOK, Position
<1>2. CASE ReturnIdentifier
  <2>1. Returned("IDENT", begin, offset - begin.first, 0)
    BY <1>2 DEF ReturnIdentifier
  <2>2. begin.first + (offset - begin.first) \in 0..Len(source)
    BY <1>0 DEF TypeOK
  <2>3. QED
    BY <1>0, <1>2, <2>1, <2>2, ReturnedTyped DEF ReturnIdentifier, TypeOK, Position
<1>3. CASE Number
  <2>1. digit \in 0..9
    BY <1>3 DEF Number, Sees, ascii_digit, digit
  <2>2. number' \in 0..MaxNumber
    <3>1. number \in Nat
      BY DEF TypeOK
    <3>2. (MaxNumber - digit) \div 10 \in Int
      BY <2>1, LexerAssumption
    <3>3. number <= (MaxNumber - digit) \div 10
      BY <1>3, <3>1, <3>2 DEF Number, Overflows
    <3>4. QED
      BY <1>3, <2>1, <3>1, <3>3, DigitFits DEF Number
  <2>3. Moves
    BY <1>3, AdvanceMoves DEF Number, Sees
  <2>4. QED
    BY <1>3, <2>2, <2>3 DEF Number, Moves, TypeOK, Position
<1>4. CASE FailNumber
  <2>1. fail("A0-LEX-0001", begin.line, begin.column)
    BY <1>4 DEF FailNumber
  <2>2. QED
    BY <1>4, <2>1, FailTyped DEF FailNumber, TypeOK, Position
<1>5. CASE ReturnNumber
  <2>1. Returned("NUMBER", begin, offset - begin.first, number)
    BY <1>5 DEF ReturnNumber
  <2>2. begin.first + (offset - begin.first) \in 0..Len(source)
    BY <1>0 DEF TypeOK
  <2>3. number \in 0..MaxNumber
    BY DEF TypeOK
  <2>4. QED
    BY <1>5, <2>1, <2>2, <2>3, ReturnedTyped DEF ReturnNumber, TypeOK, Position
<1>6. CASE String
  BY <1>6, AdvanceMoves DEF String, Sees, Moves, TypeOK, Position
<1>7. CASE ReturnString
  <2> DEFINE from == [begin EXCEPT !.first = @ + 1]
  <2>1. Returned("STRING", from, offset - begin.first - 1, 0)
    BY <1>7 DEF ReturnString
  <2>2. from.first = begin.first + 1
    BY DEF TypeOK, Position
  <2>3. from.first + (offset - begin.first - 1) \in 0..Len(source)
    BY <1>0, <2>2 DEF TypeOK
  <2>4. Moves
    BY <1>7, AdvanceMoves DEF ReturnString, Closed, Sees
  <2> HIDE DEF from
  <2>5. QED
    BY <1>0, <1>7, <2>1, <2>3, <2>4, ReturnedTyped DEF ReturnString, Moves, TypeOK, Position
<1>8. CASE FailString
  <2>1. fail("A0-LEX-0002", begin.line, begin.column)
    BY <1>8 DEF FailString
  <2>2. QED
    BY <1>8, <2>1, FailTyped DEF FailString, TypeOK, Position
<1>9. QED
  BY <1>1, <1>2, <1>3, <1>4, <1>5, <1>6, <1>7, <1>8

LEMMA NextTypeOK == TypeOK /\ [Next]_vars => TypeOK'
<1>1. ASSUME TypeOK, Next PROVE TypeOK'
  BY <1>1, TriviaTyped, FirstTyped, LoopTyped DEF Next, Step
<1>2. ASSUME TypeOK, UNCHANGED vars PROVE TypeOK'
  BY <1>2 DEF vars, TypeOK, Position
<1>3. QED
  BY <1>1, <1>2

\* The offset never leaves the source and the value of a literal is a word in
\* every state, for every source (seki_lexer_next).
THEOREM TypeCorrect == Spec => []TypeOK
  BY InitTypeOK, NextTypeOK, PTL DEF Spec

-----------------------------------------------------------------------------
(***************************************************************************)
(* Lines and columns.                                                      *)
(***************************************************************************)
\* The octets before offset n that are the last one of a line end.
LineEnds(n) == {i \in 1..n : EndsLine(i)}

\* Of LineAndColumn, the part that is about the offset.
Cursor == Placed(offset, line, column)

LEMMA CursorNext ==
  ASSUME UNCHANGED source
  PROVE  Cursor' <=> Placed(offset', line', column')
  BY DEF Cursor, Placed, EndsLine

\* An octet that ends no line moves the column.
LEMMA CountRegular ==
  ASSUME NEW n \in Nat, NEW l \in Nat, NEW c \in Nat, Placed(n, l, c), ~EndsLine(n + 1)
  PROVE  Placed(n + 1, l, c + 1)
<1>1. LineEnds(n + 1) = LineEnds(n)
  BY DEF LineEnds
<1>2. n + 1 + 1 - (c + 1) = n + 1 - c
  OBVIOUS
<1>3. QED
  BY <1>1, <1>2 DEF Placed, LineEnds

\* The last octet of a line end begins a line.
LEMMA CountLine ==
  ASSUME NEW n \in Nat, NEW l \in Nat, NEW c \in Nat, Placed(n, l, c), EndsLine(n + 1)
  PROVE  Placed(n + 1, l + 1, 1)
<1>1. LineEnds(n + 1) = LineEnds(n) \cup {n + 1} /\ n + 1 \notin LineEnds(n)
  BY DEF LineEnds
<1>2. IsFiniteSet(LineEnds(n))
  <2>1. IsFiniteSet(1..n)
    BY FS_Interval
  <2>2. QED
    BY <2>1, FS_Subset DEF LineEnds
<1>3. Cardinality(LineEnds(n + 1)) = Cardinality(LineEnds(n)) + 1
  BY <1>1, <1>2, FS_AddElement
<1>4. Cardinality(LineEnds(n)) \in Nat
  BY <1>2, FS_CardinalityType
<1>5. QED
  BY <1>3, <1>4 DEF Placed, LineEnds

\* The first octet of a line end of two is passed with the second one.
LEMMA CountWide ==
  ASSUME NEW n \in Nat, NEW l \in Nat, NEW c \in Nat, Placed(n, l, c),
         ~EndsLine(n + 1), EndsLine(n + 2)
  PROVE  Placed(n + 2, l + 1, 1)
<1>1. Placed(n + 1, l, c + 1)
  BY CountRegular
<1>2. EndsLine((n + 1) + 1)
  BY (n + 1) + 1 = n + 2
<1>3. Placed((n + 1) + 1, l + 1, 1)
  BY <1>1, <1>2, CountLine
<1>4. QED
  BY <1>3, (n + 1) + 1 = n + 2

\* The premises of the steps: where a step leaves the offset, or passes an
\* octet that is neither CR nor LF, line and column stay right.
LEMMA StaysCounted ==
  ASSUME Cursor, UNCHANGED <<source, offset, line, column>>
  PROVE  Cursor'
  BY CursorNext DEF Cursor

LEMMA AdvanceCounted ==
  ASSUME TypeOK, Cursor, Octet \notin {CR, LF}, advance_regular, UNCHANGED source
  PROVE  Cursor'
<1>1. ~EndsLine(offset + 1)
  BY DEF EndsLine, Octet
<1>2. offset \in Nat /\ line \in Nat /\ column \in Nat
  BY SourceType DEF TypeOK
<1>3. Placed(offset + 1, line, column + 1)
  BY <1>1, <1>2, CountRegular DEF Cursor
<1>4. QED
  BY <1>3, CursorNext DEF advance_regular

LEMMA LineCounted ==
  ASSUME TypeOK, Cursor, EndsLine(offset + 1), NextLine(1), UNCHANGED source
  PROVE  Cursor'
<1>1. offset \in Nat /\ line \in Nat /\ column \in Nat
  BY SourceType DEF TypeOK
<1>2. Placed(offset + 1, line + 1, 1)
  BY <1>1, CountLine DEF Cursor
<1>3. QED
  BY <1>2, CursorNext DEF NextLine

LEMMA WideCounted ==
  ASSUME TypeOK, Cursor, SeesPair({<<CR, LF>>}), NextLine(2), UNCHANGED source
  PROVE  Cursor'
<1>1. offset \in Nat /\ line \in Nat /\ column \in Nat /\ Len(source) \in Nat
  BY SourceType DEF TypeOK
<1>2. /\ offset + 1 < Len(source)
      /\ source[offset + 1] = CR
      /\ source[offset + 2] = LF
  BY DEF SeesPair, Octet
<1>3. ~EndsLine(offset + 1)
  BY <1>1, <1>2, (offset + 1) + 1 = offset + 2 DEF EndsLine, CR, LF
<1>4. EndsLine(offset + 2)
  BY <1>2 DEF EndsLine
<1>5. Placed(offset + 2, line + 1, 1)
  BY <1>1, <1>3, <1>4, CountWide DEF Cursor
<1>6. QED
  BY <1>5, CursorNext DEF NextLine

\* The two octets of a token of two are passed one after the other.
LEMMA PairCounted ==
  ASSUME TypeOK, Cursor, ReturnPair
  PROVE  Cursor'
<1>1. offset \in Nat /\ line \in Nat /\ column \in Nat
  BY SourceType DEF TypeOK
<1>2. <<source[offset + 1], source[offset + 2]>> \in Pairs
  BY DEF ReturnPair, SeesPair, Octet
<1>3. source[offset + 1] \notin {CR, LF} /\ source[offset + 2] \notin {CR, LF}
  BY <1>2 DEF Pairs, Colon, Equals, Minus, Greater, Less, Bang, Ampersand, Bar, CR, LF
<1>4. ~EndsLine(offset + 1) /\ ~EndsLine(offset + 2)
  BY <1>3 DEF EndsLine
<1>5. Placed(offset + 1, line, column + 1)
  BY <1>1, <1>4, CountRegular DEF Cursor
<1>6. ~EndsLine((offset + 1) + 1)
  BY <1>1, <1>4, (offset + 1) + 1 = offset + 2
<1>7. Placed((offset + 1) + 1, line, (column + 1) + 1)
  BY <1>1, <1>5, <1>6, CountRegular
<1>8. (offset + 1) + 1 = offset + 2 /\ (column + 1) + 1 = column + 2
  BY <1>1
<1>9. Placed(offset + 2, line, column + 2)
  BY <1>7, <1>8
<1>10. QED
  BY <1>9, CursorNext DEF ReturnPair

LEMMA TriviaCounted ==
  ASSUME TypeOK, Cursor,
         Call \/ SkipBlank \/ SkipReturn \/ SkipLineFeed \/ OpenComment \/ SkipComment
  PROVE  Cursor'
<1>1. CASE Call
  BY <1>1, StaysCounted DEF Call
<1>2. CASE SkipBlank
  BY <1>2, AdvanceCounted DEF SkipBlank, Sees, Space, Tab, CR, LF
<1>3. CASE SkipReturn
  <2>1. CASE SeesPair({<<CR, LF>>})
    BY <1>3, <2>1, WideCounted DEF SkipReturn
  <2>2. CASE ~SeesPair({<<CR, LF>>})
    <3>1. offset \in Nat /\ Len(source) \in Nat
      BY SourceType DEF TypeOK
    <3>2. ~(offset + 1 < Len(source) /\ source[(offset + 1) + 1] = LF)
      BY <1>3, <2>2, <3>1, (offset + 1) + 1 = offset + 2 DEF SkipReturn, Sees, SeesPair, Octet
    <3>3. EndsLine(offset + 1)
      BY <1>3, <3>2 DEF SkipReturn, Sees, Octet, EndsLine
    <3>4. QED
      BY <1>3, <2>2, <3>3, LineCounted DEF SkipReturn
  <2>3. QED
    BY <2>1, <2>2
<1>4. CASE SkipLineFeed
  <2>1. EndsLine(offset + 1)
    BY <1>4 DEF SkipLineFeed, Sees, Octet, EndsLine
  <2>2. QED
    BY <1>4, <2>1, LineCounted DEF SkipLineFeed
<1>5. CASE OpenComment
  BY <1>5, StaysCounted DEF OpenComment
<1>6. CASE SkipComment
  <2>1. CASE More /\ Octet \notin {CR, LF}
    BY <1>6, <2>1, AdvanceCounted DEF SkipComment
  <2>2. CASE ~(More /\ Octet \notin {CR, LF})
    BY <1>6, <2>2, StaysCounted DEF SkipComment
  <2>3. QED
    BY <2>1, <2>2
<1>7. QED
  BY <1>1, <1>2, <1>3, <1>4, <1>5, <1>6

LEMMA FirstCounted ==
  ASSUME TypeOK, Cursor,
         \/ ReturnEnd \/ StartIdentifier \/ StartNumber \/ StartString
         \/ ReturnPair \/ ReturnMark \/ FailToken
  PROVE  Cursor'
<1>0. ~Sees({Space, Tab, CR, LF}) /\ More => Octet \notin {CR, LF}
  BY DEF Sees
<1>1. CASE ReturnEnd
  BY <1>1, StaysCounted DEF ReturnEnd
<1>2. CASE StartIdentifier
  BY <1>0, <1>2, AdvanceCounted DEF StartIdentifier, Significant, Sees
<1>3. CASE StartNumber
  BY <1>3, StaysCounted DEF StartNumber
<1>4. CASE StartString
  BY <1>0, <1>4, AdvanceCounted DEF StartString, Significant, Sees
<1>5. CASE ReturnPair
  BY <1>5, PairCounted
<1>6. CASE ReturnMark
  BY <1>0, <1>6, AdvanceCounted DEF ReturnMark, Significant, Sees
<1>7. CASE FailToken
  <2>1. CASE Sees({Equals, Bang, Ampersand})
    BY <1>0, <1>7, <2>1, AdvanceCounted DEF FailToken, Significant
  <2>2. CASE ~Sees({Equals, Bang, Ampersand})
    BY <1>7, <2>2, StaysCounted DEF FailToken
  <2>3. QED
    BY <2>1, <2>2
<1>8. QED
  BY <1>1, <1>2, <1>3, <1>4, <1>5, <1>6, <1>7

LEMMA LoopCounted ==
  ASSUME TypeOK, Cursor,
         \/ Identifier \/ ReturnIdentifier
         \/ Number \/ FailNumber \/ ReturnNumber
         \/ String \/ ReturnString \/ FailString
  PROVE  Cursor'
<1>0. \A o \in ascii_ident_rest \cup ascii_hex \cup {Quote} : o \notin {CR, LF}
  BY DEF ascii_ident_rest, ascii_alpha, ascii_digit, ascii_hex, Underscore, Quote, CR, LF
<1>1. CASE Identifier
  BY <1>0, <1>1, AdvanceCounted DEF Identifier, Sees
<1>2. CASE ReturnIdentifier
  BY <1>2, StaysCounted DEF ReturnIdentifier
<1>3. CASE Number
  BY <1>0, <1>3, AdvanceCounted DEF Number, Sees, ascii_ident_rest
<1>4. CASE FailNumber
  BY <1>4, StaysCounted DEF FailNumber
<1>5. CASE ReturnNumber
  BY <1>5, StaysCounted DEF ReturnNumber
<1>6. CASE String
  BY <1>0, <1>6, AdvanceCounted DEF String, Sees
<1>7. CASE ReturnString
  BY <1>0, <1>7, AdvanceCounted DEF ReturnString, Closed, Sees
<1>8. CASE FailString
  BY <1>8, StaysCounted DEF FailString
<1>9. QED
  BY <1>1, <1>2, <1>3, <1>4, <1>5, <1>6, <1>7, <1>8

\* The start of a token is where the offset was when the call found it.
LEMMA BeginMoves ==
  ASSUME Next
  PROVE  UNCHANGED source /\ (UNCHANGED begin \/ begin' = Here)
<1>1. CASE Call \/ SkipBlank \/ SkipReturn \/ SkipLineFeed \/ OpenComment \/ SkipComment
  BY <1>1 DEF Call, SkipBlank, SkipReturn, SkipLineFeed, OpenComment, SkipComment
<1>2. CASE \/ ReturnEnd \/ StartIdentifier \/ StartNumber \/ StartString
           \/ ReturnPair \/ ReturnMark \/ FailToken
  BY <1>2 DEF ReturnEnd, StartIdentifier, StartNumber, StartString, ReturnPair,
              ReturnMark, FailToken
<1>3. CASE \/ Identifier \/ ReturnIdentifier
           \/ Number \/ FailNumber \/ ReturnNumber
           \/ String \/ ReturnString \/ FailString
  BY <1>3 DEF Identifier, ReturnIdentifier, Number, FailNumber, ReturnNumber, String,
              ReturnString, FailString
<1>4. QED
  BY <1>1, <1>2, <1>3 DEF Next, Step

LEMMA PlacedStays ==
  ASSUME UNCHANGED source
  PROVE  LineAndColumn' <=> /\ Placed(offset', line', column')
                            /\ Placed(begin'.first, begin'.line, begin'.column)
  BY DEF LineAndColumn, Placed, EndsLine

LEMMA InitCounted == Init => LineAndColumn
<1>1. ASSUME Init PROVE LineAndColumn
  <2>1. LineEnds(0) = {}
    BY DEF LineEnds
  <2>2. Cardinality(LineEnds(0)) = 0
    BY <2>1, FS_EmptySet
  <2>3. Placed(0, 1, 1)
    BY <2>2 DEF Placed, LineEnds
  <2>4. QED
    BY <1>1, <2>3 DEF Init, Start, LineAndColumn
<1>2. QED
  BY <1>1

LEMMA NextCounted == TypeOK /\ LineAndColumn /\ [Next]_vars => LineAndColumn'
<1>1. ASSUME TypeOK, LineAndColumn, Next PROVE LineAndColumn'
  <2>1. Cursor /\ Placed(begin.first, begin.line, begin.column)
    BY <1>1 DEF LineAndColumn, Cursor
  <2>2. Cursor'
    BY <1>1, <2>1, TriviaCounted, FirstCounted, LoopCounted DEF Next, Step
  <2>3. UNCHANGED source /\ (UNCHANGED begin \/ begin' = Here)
    BY <1>1, BeginMoves
  <2>4. Placed(begin'.first, begin'.line, begin'.column)
    BY <2>1, <2>3 DEF Cursor, Here
  <2>5. QED
    BY <2>2, <2>3, <2>4, CursorNext, PlacedStays
<1>2. ASSUME LineAndColumn, UNCHANGED vars PROVE LineAndColumn'
  BY <1>2, PlacedStays DEF vars, LineAndColumn
<1>3. QED
  BY <1>1, <1>2

\* The line and column a token or a failure is reported at are those of its
\* first octet in the source, whatever comments, CR LF pairs and refused tokens
\* came before it (skip_trivia, advance_regular).
THEOREM LinesAreCounted == Spec => []LineAndColumn
  BY InitTypeOK, NextTypeOK, InitCounted, NextCounted, PTL DEF Spec

-----------------------------------------------------------------------------
(***************************************************************************)
(* The grammar, one definition after the other: what it says of a place in *)
(* a source, in terms of the octets around it.                             *)
(***************************************************************************)
LEMMA OctetsNamed ==
  /\ Grammar!Letter = ascii_alpha \cup {Underscore}
  /\ Grammar!Digit = ascii_digit
  /\ Grammar!Hex = ascii_hex
  /\ Grammar!Blank = {Tab, Space}
  /\ Grammar!LineEnd = {LF, CR}
  BY DEF Grammar!Letter, Grammar!Digit, Grammar!Hex, Grammar!Blank, Grammar!LineEnd,
         ascii_alpha, ascii_digit, ascii_hex, Underscore, Tab, Space, LF, CR

\* The marks of the grammar are the lexer's single octets and pairs.
LEMMA MarksNamed == Grammar!Marks = {<<c>> : c \in Alone} \cup Pairs
  BY DEF Grammar!Marks, Alone, Simple, Pairs, Bang, Percent, Ampersand, OpenParen, CloseParen,
         Star, Plus, Comma, Minus, Dot, Slash, Colon, Less, Equals, Greater, At, OpenBracket,
         CloseBracket, OpenBrace, Bar, CloseBrace

\* Where the trivia after offset p end: nothing that is not trivial is passed,
\* and what follows is not.
LEMMA SkippedIs ==
  ASSUME NEW s \in Seq(0..255), NEW p \in Nat, NEW b \in p..Len(s),
         \A i \in (p + 1)..b : Grammar!Trivial(s, p + 1, i),
         b = Len(s) \/ ~Grammar!Trivial(s, p + 1, b + 1)
  PROVE  Grammar!Skipped(s, p) = b
<1> DEFINE S == {t \in p..Len(s) : \A i \in (p + 1)..t : Grammar!Trivial(s, p + 1, i)}
<1>0. Len(s) \in Nat /\ b \in Nat
  OBVIOUS
<1>1. b \in S
  OBVIOUS
<1>2. \A t \in S : t \in Int /\ t <= b
  <2>1. ASSUME NEW t \in S, t > b PROVE FALSE
    <3>1. t \in Nat /\ t <= Len(s) /\ b + 1 \in (p + 1)..t
      BY <1>0, <2>1
    <3>2. QED
      BY <1>0, <2>1, <3>1
  <2>2. QED
    BY <1>0, <2>1
<1>3. Grammar!Skipped(s, p) = CHOOSE x \in S : \A y \in S : x >= y
  BY DEF Grammar!Skipped, Grammar!Max
<1> HIDE DEF S
<1>4. \A y \in S : b >= y
  BY <1>0, <1>2
<1> DEFINE c == CHOOSE x \in S : \A y \in S : x >= y
<1>5. c \in S /\ \A y \in S : c >= y
  BY <1>1, <1>4
<1> HIDE DEF c
<1>6. c >= b /\ b >= c /\ c \in Int
  BY <1>1, <1>2, <1>4, <1>5
<1>7. c = b
  BY <1>0, <1>6
<1>8. QED
  BY <1>3, <1>7 DEF c

\* The octets between two offsets.
LEMMA TextOf ==
  ASSUME NEW s \in Seq(0..255), NEW b \in Nat, NEW e \in (b + 1)..Len(s)
  PROVE  /\ Len(SubSeq(s, b + 1, e)) = e - b
         /\ DOMAIN SubSeq(s, b + 1, e) = 1..(e - b)
         /\ \A i \in 1..(e - b) : SubSeq(s, b + 1, e)[i] = s[b + i]
         /\ SubSeq(s, b + 1, e) = [i \in 1..(e - b) |-> s[b + i]]
<1>1. b + 1 \in Nat /\ e \in Nat /\ Len(s) \in Nat /\ b + 1 <= e /\ e <= Len(s)
  OBVIOUS
<1>2. e - (b + 1) + 1 = e - b
  BY <1>1
<1>3. \A i \in 1..(e - b) : (b + 1) + i - 1 = b + i
  BY <1>1
<1>4. SubSeq(s, b + 1, e) = [i \in 1..(e - b) |-> s[b + i]]
  BY <1>1, <1>2, <1>3
<1>5. QED
  BY <1>1, <1>4

\* The places of a text are the places of the source between two offsets.
LEMMA AllBetween ==
  ASSUME NEW s \in Seq(0..255), NEW S, NEW b \in Nat, NEW j \in Nat, NEW k \in Int
  PROVE  (\A i \in j..k : s[b + i] \in S) <=> (\A i \in (b + j)..(b + k) : s[i] \in S)
<1>1. ASSUME \A i \in j..k : s[b + i] \in S, NEW i \in (b + j)..(b + k) PROVE s[i] \in S
  <2>1. i - b \in j..k /\ b + (i - b) = i
    OBVIOUS
  <2>2. QED
    BY <1>1, <2>1
<1>2. ASSUME \A i \in (b + j)..(b + k) : s[i] \in S, NEW i \in j..k PROVE s[b + i] \in S
  <2>1. b + i \in (b + j)..(b + k)
    OBVIOUS
  <2>2. QED
    BY <1>2, <2>1
<1>3. QED
  BY <1>1, <1>2

LEMMA IdentifierIs ==
  ASSUME NEW s \in Seq(0..255), NEW b \in Nat, NEW e \in (b + 1)..Len(s)
  PROVE  Grammar!Is("IDENT", s, b, e)
           <=> /\ s[b + 1] \in ascii_alpha \cup {Underscore}
               /\ \A i \in (b + 1)..e : s[i] \in ascii_ident_rest
<1> DEFINE text == SubSeq(s, b + 1, e)
<1>1. /\ DOMAIN text = 1..(e - b)
      /\ \A i \in 1..(e - b) : text[i] = s[b + i]
  BY TextOf
<1>2. Grammar!Is("IDENT", s, b, e)
        <=> /\ text[1] \in Grammar!Letter
            /\ Grammar!ToSet(text) \subseteq Grammar!Letter \cup Grammar!Digit
  BY Zenon DEF Grammar!Is
<1>3. Grammar!Letter \cup Grammar!Digit = ascii_ident_rest
  BY OctetsNamed DEF ascii_ident_rest
<1> HIDE DEF text
<1>4. Grammar!ToSet(text) \subseteq ascii_ident_rest
        <=> \A i \in 1..(e - b) : s[b + i] \in ascii_ident_rest
  BY <1>1 DEF Grammar!ToSet
<1>5. b + (e - b) = e /\ 1 \in 1..(e - b) /\ e - b \in Int
  OBVIOUS
<1>6. (\A i \in 1..(e - b) : s[b + i] \in ascii_ident_rest)
        <=> \A i \in (b + 1)..e : s[i] \in ascii_ident_rest
  BY <1>5, AllBetween
<1>7. text[1] = s[b + 1]
  BY <1>1, <1>5
<1>8. QED
  BY <1>2, <1>3, <1>4, <1>6, <1>7, OctetsNamed

LEMMA NumberIs ==
  ASSUME NEW s \in Seq(0..255), NEW b \in Nat, NEW e \in (b + 1)..Len(s)
  PROVE  Grammar!Is("NUMBER", s, b, e) <=> \A i \in (b + 1)..e : s[i] \in ascii_digit
<1> DEFINE text == SubSeq(s, b + 1, e)
<1>1. /\ DOMAIN text = 1..(e - b)
      /\ \A i \in 1..(e - b) : text[i] = s[b + i]
  BY TextOf
<1>2. Grammar!Is("NUMBER", s, b, e) <=> Grammar!ToSet(text) \subseteq Grammar!Digit
  BY DEF Grammar!Is
<1> HIDE DEF text
<1>4. Grammar!ToSet(text) \subseteq ascii_digit
        <=> \A i \in 1..(e - b) : s[b + i] \in ascii_digit
  BY <1>1 DEF Grammar!ToSet
<1>5. b + (e - b) = e /\ e - b \in Int
  OBVIOUS
<1>6. QED
  BY <1>2, <1>4, <1>5, AllBetween, OctetsNamed

LEMMA StringIs ==
  ASSUME NEW s \in Seq(0..255), NEW b \in Nat, NEW e \in (b + 1)..Len(s)
  PROVE  Grammar!Is("STRING", s, b, e)
           <=> /\ e - b > 2 /\ s[b + 1] = Quote /\ s[e] = Quote
               /\ \A i \in (b + 2)..(e - 1) : s[i] \in ascii_hex
<1> DEFINE text == SubSeq(s, b + 1, e)
<1>1. /\ Len(text) = e - b
      /\ \A i \in 1..(e - b) : text[i] = s[b + i]
  BY TextOf
<1>2. Grammar!Is("STRING", s, b, e)
        <=> /\ Len(text) > 2 /\ text[1] = 34 /\ text[Len(text)] = 34
            /\ \A i \in 2..(Len(text) - 1) : text[i] \in Grammar!Hex
  BY DEF Grammar!Is
<1> HIDE DEF text
<1>3. /\ b + (e - b) = e /\ b + (e - b - 1) = e - 1 /\ e - b - 1 \in Int
      /\ 1 \in 1..(e - b) /\ e - b \in 1..(e - b)
      /\ \A i \in 2..(e - b - 1) : i \in 1..(e - b)
  OBVIOUS
<1>4. text[1] = s[b + 1] /\ text[e - b] = s[e]
  BY <1>1, <1>3
<1>5. (\A i \in 2..(Len(text) - 1) : text[i] \in Grammar!Hex)
        <=> \A i \in 2..(e - b - 1) : s[b + i] \in ascii_hex
  BY <1>1, <1>3, OctetsNamed
<1>6. (\A i \in 2..(e - b - 1) : s[b + i] \in ascii_hex)
        <=> \A i \in (b + 2)..(e - 1) : s[i] \in ascii_hex
  BY <1>3, AllBetween
<1>7. QED
  BY <1>1, <1>2, <1>4, <1>5, <1>6 DEF Quote

LEMMA MarkIs ==
  ASSUME NEW s \in Seq(0..255), NEW b \in Nat, NEW e \in (b + 1)..Len(s)
  PROVE  Grammar!Is("MARK", s, b, e)
           <=> \/ e = b + 1 /\ s[b + 1] \in Alone
               \/ e = b + 2 /\ <<s[b + 1], s[b + 2]>> \in Pairs
<1> DEFINE text == SubSeq(s, b + 1, e)
<1>1. /\ Len(text) = e - b /\ DOMAIN text = 1..(e - b)
      /\ \A i \in 1..(e - b) : text[i] = s[b + i]
  BY TextOf
<1>2. Grammar!Is("MARK", s, b, e) <=> text \in {<<c>> : c \in Alone} \cup Pairs
  <2>1. Grammar!Is("MARK", s, b, e) <=> text \in Grammar!Marks
    BY DEF Grammar!Is
  <2>2. QED
    BY <2>1, MarksNamed
<1>3. text = [i \in 1..(e - b) |-> s[b + i]]
  BY TextOf
<1> HIDE DEF text
<1>4. \A x \in Pairs : \E c, d : x = <<c, d>>
  BY DEF Pairs
<1>5. CASE e = b + 1
  <2>1. Len(text) = 1 /\ text[1] = s[b + 1] /\ text = <<s[b + 1]>>
    BY <1>1, <1>3, <1>5
  <2>2. text \notin Pairs
    BY <1>4, <2>1
  <2>3. QED
    BY <1>2, <1>5, <2>1, <2>2
<1>6. CASE e = b + 2
  <2>1. Len(text) = 2 /\ text[1] = s[b + 1] /\ text[2] = s[b + 2]
    BY <1>1, <1>6
  <2>2. text = <<s[b + 1], s[b + 2]>>
    BY <1>3, <2>1
  <2>3. text \notin {<<c>> : c \in Alone}
    <3>1. \A c : Len(<<c>>) # 2
      OBVIOUS
    <3>2. QED
      BY <2>1, <3>1
  <2>4. QED
    BY <1>2, <1>6, <2>2, <2>3
<1>7. CASE e # b + 1 /\ e # b + 2
  <2>1. Len(text) # 1 /\ Len(text) # 2
    BY <1>1, <1>7
  <2>2. QED
    BY <1>2, <1>4, <1>7, <2>1
<1>8. QED
  BY <1>5, <1>6, <1>7

-----------------------------------------------------------------------------
(***************************************************************************)
(* The value of a literal, digit by digit.                                 *)
(***************************************************************************)
LEMMA Least ==
  ASSUME NEW T \in SUBSET Nat, NEW x \in T
  PROVE  \E n \in T : \A k \in T : n <= k
<1> DEFINE R == {pair \in Nat \X Nat : pair[1] < pair[2]}
<1>1. IsWellFoundedOn(R, Nat)
  BY NatLessThanWellFounded DEF OpToRel
<1> HIDE DEF R
<1>2. PICK n \in T : \A k \in T : ~(<<k, n>> \in R)
  BY <1>1, WFMin
<1>3. \A k \in T : ~(k < n)
  BY <1>2 DEF R
<1>4. QED
  BY <1>2, <1>3

\* Induction over an interval: by the least number that is not in the set.
LEMMA Climb ==
  ASSUME NEW b \in Nat, NEW l \in Int, NEW P,
         b \in P, \A j \in b..(l - 1) : j \in P => j + 1 \in P
  PROVE  b..l \subseteq P
<1> DEFINE T == {j \in b..l : j \notin P}
<1>1. ASSUME NEW i \in T PROVE FALSE
  <2>1. T \in SUBSET Nat
    OBVIOUS
  <2>2. PICK j \in T : \A h \in T : j <= h
    <3> HIDE DEF T
    <3> QED
      BY <1>1, <2>1, Least
  <2>3. j \in b..l /\ j \notin P /\ j # b
    OBVIOUS
  <2>4. j - 1 \in b..(l - 1) /\ (j - 1) + 1 = j /\ j - 1 \in b..l /\ ~(j <= j - 1)
    BY <2>3
  <2>5. j - 1 \in P
    BY <2>2, <2>4
  <2>6. QED
    BY <2>3, <2>4, <2>5
<1>2. QED
  BY <1>1

\* f is the value of each number of octets of s after offset b.
Values(f, s, b) ==
  f = [n \in b..Len(s) |-> IF n = b THEN 0 ELSE 10 * f[n - 1] + (s[n] - 48)]

LEMMA ValuesExist ==
  ASSUME NEW s \in Seq(0..255), NEW b \in 0..Len(s)
  PROVE  \E f : Values(f, s, b)
<1> DEFINE Upto(f, l) == f = [n \in b..l |-> IF n = b THEN 0 ELSE 10 * f[n - 1] + (s[n] - 48)]
           P == {l \in b..Len(s) : \E f : Upto(f, l)}
<1>0. b \in Nat /\ Len(s) \in Nat /\ b <= Len(s)
  OBVIOUS
<1>1. b \in P
  <2> DEFINE f == [n \in b..b |-> 0]
  <2>1. \A n \in b..b : n = b
    BY <1>0
  <2>2. Upto(f, b)
    BY <2>1
  <2>3. b \in b..Len(s)
    BY <1>0
  <2> HIDE DEF f, Upto
  <2>4. QED
    BY <2>2, <2>3
<1>2. \A j \in b..(Len(s) - 1) : j \in P => j + 1 \in P
  <2> SUFFICES ASSUME NEW j \in b..(Len(s) - 1), NEW f, Upto(f, j) PROVE \E g : Upto(g, j + 1)
    <3>1. \A j \in b..(Len(s) - 1) : j + 1 \in b..Len(s)
      BY <1>0
    <3> HIDE DEF Upto
    <3>2. QED
      BY <3>1
  <2> DEFINE g == [n \in b..(j + 1) |-> IF n = j + 1 THEN 10 * f[j] + (s[j + 1] - 48) ELSE f[n]]
  <2>1. \A n \in b..j : f[n] = IF n = b THEN 0 ELSE 10 * f[n - 1] + (s[n] - 48)
    OBVIOUS
  <2>2. \A n \in b..j : g[n] = f[n]
    BY <1>0
  <2>3. \A n \in b..(j + 1) : g[n] = IF n = b THEN 0 ELSE 10 * g[n - 1] + (s[n] - 48)
    <3>1. ASSUME NEW n \in b..j PROVE g[n] = IF n = b THEN 0 ELSE 10 * g[n - 1] + (s[n] - 48)
      <4>1. n = b \/ n - 1 \in b..j
        BY <1>0
      <4> HIDE DEF g
      <4>2. QED
        BY <2>1, <2>2, <4>1
    <3>2. g[j + 1] = 10 * g[j] + (s[j + 1] - 48) /\ j + 1 # b /\ (j + 1) - 1 = j
      BY <1>0, <2>2
    <3>3. \A n \in b..(j + 1) : n \in b..j \/ n = j + 1
      BY <1>0
    <3> HIDE DEF g
    <3>4. QED
      BY <3>1, <3>2, <3>3
  <2>4. g = [n \in b..(j + 1) |-> g[n]]
    OBVIOUS
  <2> HIDE DEF g
  <2>5. g = [n \in b..(j + 1) |-> IF n = b THEN 0 ELSE 10 * g[n - 1] + (s[n] - 48)]
    BY <2>3, <2>4
  <2>6. QED
    BY <2>5
<1> HIDE DEF P
<1>3. b..Len(s) \subseteq P
  <2>1. Len(s) \in Int
    BY <1>0
  <2>2. QED
    BY <1>0, <1>1, <1>2, <2>1, Climb, Zenon
<1>4. Len(s) \in P
  BY <1>0, <1>3
<1>5. QED
  BY <1>4 DEF P, Values

LEMMA DecimalSteps ==
  ASSUME NEW s \in Seq(0..255), NEW b \in 0..Len(s)
  PROVE  /\ Grammar!Decimal(s, b, b) = 0
         /\ \A e \in (b + 1)..Len(s) :
              Grammar!Decimal(s, b, e) = 10 * Grammar!Decimal(s, b, e - 1) + (s[e] - 48)
<1> DEFINE Is(f) == f = [n \in b..Len(s) |-> IF n = b THEN 0 ELSE 10 * f[n - 1] + (s[n] - 48)]
           v == CHOOSE f : Is(f)
<1>1. Is(v)
  <2>1. \E f : Is(f)
    BY ValuesExist DEF Values
  <2> HIDE DEF Is
  <2>2. QED
    BY <2>1
<1>2. \A e : Grammar!Decimal(s, b, e) = v[e]
  BY DEF Grammar!Decimal
<1> HIDE DEF v
<1>3. \A n \in b..Len(s) : v[n] = IF n = b THEN 0 ELSE 10 * v[n - 1] + (s[n] - 48)
  BY <1>1
<1>4. b \in b..Len(s) /\ \A e \in (b + 1)..Len(s) : e \in b..Len(s) /\ e # b
  OBVIOUS
<1> HIDE DEF Is
<1>5. QED
  BY <1>2, <1>3, <1>4

\* Digits never make a value smaller: one that is too large stays so.
LEMMA DecimalGrows ==
  ASSUME NEW s \in Seq(0..255), NEW b \in 0..Len(s), NEW e \in b..Len(s),
         \A i \in (b + 1)..e : s[i] \in ascii_digit
  PROVE  /\ Grammar!Decimal(s, b, e) \in Nat
         /\ \A o \in b..e : Grammar!Decimal(s, b, o) <= Grammar!Decimal(s, b, e)
<1> DEFINE d(n) == Grammar!Decimal(s, b, n)
           P == {n \in b..e : \A o \in b..n : d(o) \in Nat /\ d(n) \in Nat /\ d(o) <= d(n)}
<1>0. b \in Nat /\ e \in Nat /\ Len(s) \in Nat /\ b <= e /\ e <= Len(s)
  OBVIOUS
<1>1. d(b) = 0
  BY DecimalSteps
<1>2. \A n \in b..(e - 1) : d(n + 1) = 10 * d(n) + (s[n + 1] - 48) /\ s[n + 1] - 48 \in Nat
  <2> TAKE n \in b..(e - 1)
  <2>1. n + 1 \in (b + 1)..e /\ n + 1 \in (b + 1)..Len(s) /\ (n + 1) - 1 = n
    BY <1>0
  <2>2. s[n + 1] \in ascii_digit
    BY <2>1
  <2>3. s[n + 1] - 48 \in Nat
    BY <2>2 DEF ascii_digit
  <2>4. QED
    BY <2>1, <2>3, DecimalSteps
<1> HIDE DEF d
<1>3. b \in P
  <2>1. \A o \in b..b : o = b
    BY <1>0
  <2>2. QED
    BY <1>0, <1>1, <2>1
<1>4. \A n \in b..(e - 1) : n \in P => n + 1 \in P
  <2> SUFFICES ASSUME NEW n \in b..(e - 1), n \in P PROVE n + 1 \in P
    OBVIOUS
  <2>1. \A x, y \in Nat : 10 * x + y \in Nat /\ x <= 10 * x + y
    OBVIOUS
  <2>2. d(n + 1) \in Nat /\ d(n) <= d(n + 1) /\ d(n) \in Nat
    <3>1. n \in b..n
      BY <1>0
    <3>2. d(n) \in Nat
      BY <3>1
    <3>3. QED
      BY <1>2, <2>1, <3>2
  <2>3. \A o \in b..(n + 1) : o \in b..n \/ o = n + 1
    BY <1>0
  <2>4. \A o \in b..n : d(o) \in Nat /\ d(o) <= d(n)
    OBVIOUS
  <2>5. n + 1 \in b..e
    BY <1>0
  <2>6. QED
    BY <2>2, <2>3, <2>4, <2>5
<1> HIDE DEF P
<1>5. b..e \subseteq P
  <2>1. e \in Int
    BY <1>0
  <2>2. QED
    BY <1>0, <1>3, <1>4, <2>1, Climb, Zenon
<1>6. e \in P /\ e \in b..e
  BY <1>0, <1>5
<1>7. QED
  BY <1>6 DEF P, d

-----------------------------------------------------------------------------
(***************************************************************************)
(* The longest token at offset b.                                          *)
(***************************************************************************)
Kinds == {"IDENT", "NUMBER", "STRING", "MARK"}

\* The first octets of the tokens of a kind.
Openers(kind) ==
  CASE kind = "IDENT"  -> ascii_alpha \cup {Underscore}
    [] kind = "NUMBER" -> ascii_digit
    [] kind = "STRING" -> {Quote}
    [] kind = "MARK"   -> Alone \cup {Equals, Bang, Ampersand}

\* No octet opens tokens of two kinds.
LEMMA OpenersApart ==
  ASSUME NEW k \in Kinds, NEW l \in Kinds, NEW o \in Openers(k), o \in Openers(l)
  PROVE  k = l
  BY DEF Kinds, Openers, Alone, Simple, Pairs, ascii_alpha, ascii_digit, Underscore, Quote,
         Bang, Percent, Ampersand, OpenParen, CloseParen, Star, Plus, Comma, Minus, Dot, Slash,
         Colon, Less, Equals, Greater, At, OpenBracket, CloseBracket, OpenBrace, Bar, CloseBrace

LEMMA PairOpens ==
  ASSUME NEW c, NEW d, <<c, d>> \in Pairs
  PROVE  c \in Openers("MARK")
<1>1. c \in {Colon, Minus, Less, Greater, Equals, Bang, Ampersand, Bar}
  BY DEF Pairs
<1>2. QED
  BY <1>1 DEF Openers, Alone

LEMMA StartsWith ==
  ASSUME NEW s \in Seq(0..255), NEW b \in Nat, NEW e \in (b + 1)..Len(s), NEW k \in Kinds,
         Grammar!Is(k, s, b, e)
  PROVE  s[b + 1] \in Openers(k)
<1>0. b + 1 \in (b + 1)..e
  OBVIOUS
<1>1. CASE k = "IDENT"
  BY <1>1, IdentifierIs DEF Openers
<1>2. CASE k = "NUMBER"
  BY <1>0, <1>2, NumberIs DEF Openers
<1>3. CASE k = "STRING"
  BY <1>3, StringIs DEF Openers
<1>4. CASE k = "MARK"
  <2>1. CASE e = b + 1 /\ s[b + 1] \in Alone
    BY <1>4, <2>1 DEF Openers
  <2>2. CASE e = b + 2 /\ <<s[b + 1], s[b + 2]>> \in Pairs
    BY <1>4, <2>2, PairOpens
  <2>3. QED
    BY <1>4, <2>1, <2>2, MarkIs
<1>5. QED
  BY <1>1, <1>2, <1>3, <1>4 DEF Kinds

LEMMA LongestIs ==
  ASSUME NEW S, NEW x \in S, \A y \in S : y[2] \in Nat /\ y[2] <= x[2] /\ (y[2] = x[2] => y = x)
  PROVE  Grammar!Longest(S) = x
<1> DEFINE c == CHOOSE z \in S : \A y \in S : y[2] <= z[2]
<1>1. c \in S /\ \A y \in S : y[2] <= c[2]
  OBVIOUS
<1>2. Grammar!Longest(S) = c
  BY DEF Grammar!Longest
<1> HIDE DEF c
<1>3. c[2] \in Nat /\ x[2] \in Nat /\ c[2] <= x[2] /\ x[2] <= c[2]
  BY <1>1
<1>4. c[2] = x[2]
  BY <1>3
<1>5. QED
  BY <1>1, <1>2, <1>4

LEMMA CandidatesAre ==
  ASSUME NEW s \in Seq(0..255), NEW b \in Nat
  PROVE  /\ \A x \in Grammar!Candidates(s, b) :
              /\ x[1] \in Kinds /\ x[2] \in (b + 1)..Len(s) /\ x = <<x[1], x[2]>>
              /\ Grammar!Is(x[1], s, b, x[2])
         /\ \A k \in Kinds : \A e \in (b + 1)..Len(s) :
              Grammar!Is(k, s, b, e) => <<k, e>> \in Grammar!Candidates(s, b)
<1> DEFINE I(k, e) == Grammar!Is(k, s, b, e)
<1>1. Grammar!Candidates(s, b) = {x \in Kinds \X ((b + 1)..Len(s)) : I(x[1], x[2])}
  BY DEF Grammar!Candidates, Kinds
<1> HIDE DEF I
<1>2. QED
  BY <1>1 DEF I

\* A token of a kind that no other one exceeds is the next one.
LEMMA TokenFound ==
  ASSUME NEW s \in Seq(0..255), NEW p, NEW b \in Nat, Grammar!Skipped(s, p) = b,
         NEW k \in Kinds, NEW e \in (b + 1)..Len(s), Grammar!Is(k, s, b, e),
         \A f \in (b + 1)..Len(s) : Grammar!Is(k, s, b, f) => f <= e
  PROVE  Grammar!NextToken(s, p) = Grammar!Token(s, k, b, e)
<1> DEFINE S == Grammar!Candidates(s, b)
<1>1. <<k, e>> \in S
  BY CandidatesAre
<1>2. ASSUME NEW y \in S
      PROVE  y[2] \in Nat /\ y[2] <= <<k, e>>[2] /\ (y[2] = <<k, e>>[2] => y = <<k, e>>)
  <2>1. /\ y[1] \in Kinds /\ y[2] \in (b + 1)..Len(s) /\ y = <<y[1], y[2]>>
        /\ Grammar!Is(y[1], s, b, y[2])
    BY CandidatesAre
  <2>2. s[b + 1] \in Openers(k) /\ s[b + 1] \in Openers(y[1])
    BY <2>1, StartsWith
  <2>3. y[1] = k
    BY <2>1, <2>2, OpenersApart
  <2>4. y[2] <= e /\ y[2] \in Nat
    BY <2>1, <2>3
  <2>5. QED
    BY <2>1, <2>3, <2>4
<1>3. Grammar!Longest(S) = <<k, e>>
  <2> HIDE DEF S
  <2>1. QED
    BY <1>1, <1>2, LongestIs
<1>4. b # Len(s) /\ S # {}
  BY <1>1
<1>5. QED
  BY <1>3, <1>4 DEF Grammar!NextToken

LEMMA NoTokenFound ==
  ASSUME NEW s \in Seq(0..255), NEW p, NEW b \in Nat, Grammar!Skipped(s, p) = b, b < Len(s),
         \A k \in Kinds : \A e \in (b + 1)..Len(s) : ~Grammar!Is(k, s, b, e)
  PROVE  Grammar!NextToken(s, p) = Grammar!Token(s, "NONE", b, b)
<1>1. Grammar!Candidates(s, b) = {}
  BY CandidatesAre
<1>2. QED
  BY <1>1 DEF Grammar!NextToken

LEMMA EndFound ==
  ASSUME NEW s \in Seq(0..255), NEW p, Grammar!Skipped(s, p) = Len(s)
  PROVE  Grammar!NextToken(s, p) = Grammar!Token(s, "EOF", Len(s), Len(s))
  BY DEF Grammar!NextToken

-----------------------------------------------------------------------------
(***************************************************************************)
(* What the loops of the longer tokens have passed, from offset b up to    *)
(* offset o, and the token there is when one of them stops.                *)
(***************************************************************************)
InIdentifier(s, b, o) ==
  /\ o \in (b + 1)..Len(s)
  /\ s[b + 1] \in ascii_alpha \cup {Underscore}
  /\ \A i \in (b + 1)..o : s[i] \in ascii_ident_rest

InNumber(s, b, o, n) ==
  /\ o \in b..Len(s) /\ b < Len(s)
  /\ s[b + 1] \in ascii_digit
  /\ \A i \in (b + 1)..o : s[i] \in ascii_digit
  /\ n = Grammar!Decimal(s, b, o)

InString(s, b, o) ==
  /\ o \in (b + 1)..Len(s)
  /\ s[b + 1] = Quote
  /\ \A i \in (b + 2)..o : s[i] \in ascii_hex

\* The octet after offset o is not there, or not in S.
Stops(s, S, o) == o = Len(s) \/ s[o + 1] \notin S

LEMMA IdentifierFound ==
  ASSUME NEW s \in Seq(0..255), NEW p, NEW b \in Nat, Grammar!Skipped(s, p) = b,
         NEW o, InIdentifier(s, b, o), Stops(s, ascii_ident_rest, o)
  PROVE  Grammar!NextToken(s, p) = Grammar!Token(s, "IDENT", b, o)
<1>1. o \in (b + 1)..Len(s) /\ Grammar!Is("IDENT", s, b, o)
  BY IdentifierIs DEF InIdentifier
<1>2. ASSUME NEW f \in (b + 1)..Len(s), Grammar!Is("IDENT", s, b, f), ~(f <= o) PROVE FALSE
  <2>1. o + 1 \in (b + 1)..f /\ o # Len(s)
    BY <1>1, <1>2
  <2>2. s[o + 1] \in ascii_ident_rest
    BY <1>2, <2>1, IdentifierIs
  <2>3. QED
    BY <2>1, <2>2 DEF Stops
<1>3. "IDENT" \in Kinds
  BY DEF Kinds
<1>4. QED
  BY <1>1, <1>2, <1>3, TokenFound

LEMMA NumberFound ==
  ASSUME NEW s \in Seq(0..255), NEW p, NEW b \in Nat, Grammar!Skipped(s, p) = b,
         NEW o, NEW n, InNumber(s, b, o, n), Stops(s, ascii_digit, o)
  PROVE  Grammar!NextToken(s, p) = Grammar!Token(s, "NUMBER", b, o)
<1>1. o \in b..Len(s) /\ o # b
  BY DEF InNumber, Stops
<1>2. o \in (b + 1)..Len(s)
  BY <1>1
<1>3. Grammar!Is("NUMBER", s, b, o)
  BY <1>2, NumberIs DEF InNumber
<1>4. ASSUME NEW f \in (b + 1)..Len(s), Grammar!Is("NUMBER", s, b, f), ~(f <= o) PROVE FALSE
  <2>1. o + 1 \in (b + 1)..f /\ o # Len(s)
    BY <1>2, <1>4
  <2>2. s[o + 1] \in ascii_digit
    BY <1>4, <2>1, NumberIs
  <2>3. QED
    BY <2>1, <2>2 DEF Stops
<1>5. "NUMBER" \in Kinds
  BY DEF Kinds
<1>6. QED
  BY <1>2, <1>3, <1>4, <1>5, TokenFound

\* From any digits the run of digits they are in has an end.
LEMMA RunEnds ==
  ASSUME NEW s \in Seq(0..255), NEW b \in Nat, NEW o \in b..Len(s), NEW S,
         \A i \in (b + 1)..o : s[i] \in S
  PROVE  \E e \in o..Len(s) : Stops(s, S, e) /\ \A i \in (b + 1)..e : s[i] \in S
<1> DEFINE T == {e \in o..Len(s) : Stops(s, S, e)}
<1>0. b \in Nat /\ o \in Nat /\ Len(s) \in Nat /\ b <= o /\ o <= Len(s)
  OBVIOUS
<1>1. T \in SUBSET Nat /\ Len(s) \in T
  BY <1>0 DEF Stops
<1>2. PICK e \in T : \A k \in T : e <= k
  <2> HIDE DEF T
  <2>1. QED
    BY <1>1, Least
<1>3. ASSUME NEW i \in (b + 1)..e PROVE s[i] \in S
  <2>1. CASE i <= o
    <3>1. i \in (b + 1)..o
      BY <1>0, <2>1
    <3>2. QED
      BY <3>1
  <2>2. CASE i > o
    <3>1. i - 1 \in o..Len(s) /\ ~(e <= i - 1) /\ (i - 1) + 1 = i
      BY <1>0, <1>2, <2>2
    <3>2. ~Stops(s, S, i - 1)
      BY <1>2, <3>1
    <3>3. QED
      BY <3>1, <3>2 DEF Stops
  <2>3. QED
    BY <1>0, <2>1, <2>2
<1>4. QED
  BY <1>2, <1>3

\* A digit that does not fit any more: the whole literal is too large.
LEMMA NumberTooLarge ==
  ASSUME NEW s \in Seq(0..255), NEW p, NEW b \in Nat, Grammar!Skipped(s, p) = b,
         NEW o, NEW n, InNumber(s, b, o, n), o < Len(s), s[o + 1] \in ascii_digit,
         10 * n + (s[o + 1] - 48) > MaxNumber
  PROVE  \E e \in (b + 1)..Len(s) :
           /\ Grammar!NextToken(s, p) = Grammar!Token(s, "NUMBER", b, e)
           /\ Grammar!Decimal(s, b, e) > MaxNumber
<1>0. o \in Nat /\ Len(s) \in Nat /\ b <= o /\ b \in 0..Len(s) /\ o + 1 \in b..Len(s)
  BY DEF InNumber
<1>1. \A i \in (b + 1)..(o + 1) : s[i] \in ascii_digit
  <2>1. \A i \in (b + 1)..(o + 1) : i \in (b + 1)..o \/ i = o + 1
    BY <1>0
  <2>2. QED
    BY <2>1 DEF InNumber
<1>2. PICK e \in (o + 1)..Len(s) :
        Stops(s, ascii_digit, e) /\ \A i \in (b + 1)..e : s[i] \in ascii_digit
  BY <1>0, <1>1, RunEnds
<1>3. e \in b..Len(s) /\ e \in (b + 1)..Len(s) /\ o + 1 \in b..e /\ b < Len(s)
  BY <1>0
<1>4. InNumber(s, b, e, Grammar!Decimal(s, b, e))
  BY <1>2, <1>3 DEF InNumber
<1>5. Grammar!NextToken(s, p) = Grammar!Token(s, "NUMBER", b, e)
  BY <1>2, <1>4, NumberFound
<1>6. Grammar!Decimal(s, b, o + 1) = 10 * n + (s[o + 1] - 48)
  <2>1. o + 1 \in (b + 1)..Len(s) /\ (o + 1) - 1 = o
    BY <1>0
  <2>2. Grammar!Decimal(s, b, o + 1) = 10 * Grammar!Decimal(s, b, (o + 1) - 1) + (s[o + 1] - 48)
    BY <1>0, <2>1, DecimalSteps
  <2>3. QED
    BY <2>1, <2>2 DEF InNumber
<1> DEFINE x == Grammar!Decimal(s, b, o + 1)
           y == Grammar!Decimal(s, b, e)
<1>7. x \in Nat /\ y \in Nat /\ x <= y
  <2>1. y \in Nat /\ x <= y
    BY <1>0, <1>2, <1>3, DecimalGrows
  <2>2. x \in Nat
    BY <1>0, <1>1, DecimalGrows
  <2>3. QED
    BY <2>1, <2>2
<1>8. x > MaxNumber
  BY <1>6
<1> HIDE DEF x, y
<1>9. y > MaxNumber
  BY <1>7, <1>8, LexerAssumption
<1>10. QED
  BY <1>3, <1>5, <1>9 DEF y

\* Of a string, only where the loop stops at a quote can the end be.
LEMMA StringEnd ==
  ASSUME NEW s \in Seq(0..255), NEW b \in Nat, NEW o, InString(s, b, o),
         Stops(s, ascii_hex, o), NEW e \in (b + 1)..Len(s), Grammar!Is("STRING", s, b, e)
  PROVE  e = o + 1 /\ o < Len(s) /\ s[o + 1] = Quote /\ o # b + 1
<1>0. o \in Nat /\ Len(s) \in Nat /\ b + 1 <= o /\ o <= Len(s)
  BY DEF InString
<1>1. /\ e - b > 2 /\ s[e] = Quote
      /\ \A i \in (b + 2)..(e - 1) : s[i] \in ascii_hex
  BY StringIs
<1>2. Quote \notin ascii_hex
  BY DEF Quote, ascii_hex, ascii_digit
<1>3. ~(e <= o)
  <2>1. e <= o => e \in (b + 2)..o
    BY <1>0, <1>1
  <2>2. QED
    BY <1>1, <1>2, <2>1 DEF InString
<1>4. ~(e > o + 1)
  <2>1. e > o + 1 => o + 1 \in (b + 2)..(e - 1) /\ o # Len(s)
    BY <1>0
  <2>2. QED
    BY <1>1, <2>1 DEF Stops
<1>5. e = o + 1
  BY <1>0, <1>3, <1>4
<1>6. QED
  BY <1>0, <1>1, <1>5

LEMMA StringFound ==
  ASSUME NEW s \in Seq(0..255), NEW p, NEW b \in Nat, Grammar!Skipped(s, p) = b,
         NEW o, InString(s, b, o), o # b + 1, o < Len(s), s[o + 1] = Quote
  PROVE  Grammar!NextToken(s, p) = Grammar!Token(s, "STRING", b, o + 1)
<1>0. o \in Nat /\ Len(s) \in Nat /\ b + 1 < o /\ o + 1 \in (b + 1)..Len(s)
  BY DEF InString
<1>1. Stops(s, ascii_hex, o)
  BY DEF Stops, Quote, ascii_hex, ascii_digit
<1>2. Grammar!Is("STRING", s, b, o + 1)
  <2>1. (o + 1) - b > 2 /\ (o + 1) - 1 = o
    BY <1>0
  <2>2. QED
    BY <1>0, <2>1, StringIs DEF InString
<1>3. \A f \in (b + 1)..Len(s) : Grammar!Is("STRING", s, b, f) => f <= o + 1
  BY <1>0, <1>1, StringEnd
<1>4. "STRING" \in Kinds
  BY DEF Kinds
<1>5. QED
  BY <1>0, <1>2, <1>3, <1>4, TokenFound

LEMMA StringBroken ==
  ASSUME NEW s \in Seq(0..255), NEW p, NEW b \in Nat, Grammar!Skipped(s, p) = b,
         NEW o, InString(s, b, o), Stops(s, ascii_hex, o),
         ~(o # b + 1 /\ o < Len(s) /\ s[o + 1] = Quote)
  PROVE  Grammar!NextToken(s, p) = Grammar!Token(s, "NONE", b, b)
<1>1. b < Len(s)
  BY DEF InString
<1>2. ASSUME NEW k \in Kinds, NEW e \in (b + 1)..Len(s), Grammar!Is(k, s, b, e) PROVE FALSE
  <2>1. s[b + 1] \in Openers(k) /\ s[b + 1] \in Openers("STRING") /\ "STRING" \in Kinds
    BY <1>2, StartsWith DEF InString, Openers, Kinds
  <2>2. k = "STRING"
    BY <2>1, OpenersApart
  <2>3. QED
    BY <1>2, <2>2, StringEnd
<1>3. QED
  BY <1>1, <1>2, NoTokenFound

LEMMA PairFound ==
  ASSUME NEW s \in Seq(0..255), NEW p, NEW b \in Nat, Grammar!Skipped(s, p) = b,
         b + 1 < Len(s), <<s[b + 1], s[b + 2]>> \in Pairs
  PROVE  Grammar!NextToken(s, p) = Grammar!Token(s, "MARK", b, b + 2)
<1>1. b + 2 \in (b + 1)..Len(s)
  OBVIOUS
<1>2. Grammar!Is("MARK", s, b, b + 2)
  BY <1>1, MarkIs
<1>3. \A f \in (b + 1)..Len(s) : Grammar!Is("MARK", s, b, f) => f <= b + 2
  BY MarkIs
<1>4. "MARK" \in Kinds
  BY DEF Kinds
<1>5. QED
  BY <1>1, <1>2, <1>3, <1>4, TokenFound

LEMMA MarkFound ==
  ASSUME NEW s \in Seq(0..255), NEW p, NEW b \in Nat, Grammar!Skipped(s, p) = b,
         b < Len(s), s[b + 1] \in Alone,
         ~(b + 1 < Len(s) /\ <<s[b + 1], s[b + 2]>> \in Pairs)
  PROVE  Grammar!NextToken(s, p) = Grammar!Token(s, "MARK", b, b + 1)
<1>1. b + 1 \in (b + 1)..Len(s)
  OBVIOUS
<1>2. Grammar!Is("MARK", s, b, b + 1)
  BY <1>1, MarkIs
<1>3. ASSUME NEW f \in (b + 1)..Len(s), Grammar!Is("MARK", s, b, f) PROVE f <= b + 1
  <2>1. f = b + 2 => b + 1 < Len(s)
    OBVIOUS
  <2>2. QED
    BY <1>3, <2>1, MarkIs
<1>4. "MARK" \in Kinds
  BY DEF Kinds
<1>5. QED
  BY <1>1, <1>2, <1>3, <1>4, TokenFound

LEMMA NothingFound ==
  ASSUME NEW s \in Seq(0..255), NEW p, NEW b \in Nat, Grammar!Skipped(s, p) = b,
         b < Len(s), s[b + 1] \notin Known,
         ~(b + 1 < Len(s) /\ <<s[b + 1], s[b + 2]>> \in Pairs)
  PROVE  Grammar!NextToken(s, p) = Grammar!Token(s, "NONE", b, b)
<1>1. ASSUME NEW k \in Kinds, NEW e \in (b + 1)..Len(s), Grammar!Is(k, s, b, e) PROVE FALSE
  <2>1. s[b + 1] \in Openers(k)
    BY <1>1, StartsWith
  <2>2. k = "MARK"
    BY <2>1 DEF Openers, Kinds, Known, ascii_ident_rest
  <2>3. e = b + 2 /\ <<s[b + 1], s[b + 2]>> \in Pairs
    BY <1>1, <2>2, MarkIs DEF Known
  <2>4. b + 1 < Len(s)
    BY <2>3
  <2>5. QED
    BY <2>3, <2>4
<1>2. QED
  BY <1>1, NoTokenFound

-----------------------------------------------------------------------------
(***************************************************************************)
(* The trivia after offset p, passed up to offset o.                       *)
(***************************************************************************)
LineEnd == {LF, CR}
CommentAt(s, q) == q < Len(s) /\ s[q] = Semicolon /\ s[q + 1] = Semicolon

Passed(s, p, o) ==
  /\ p \in 0..Len(s) /\ o \in p..Len(s)
  /\ \A i \in (p + 1)..o : Grammar!Trivial(s, p + 1, i)

\* Every comment that was passed ends, before offset o or with what is next.
InTrivia(s, p, o) ==
  /\ Passed(s, p, o)
  /\ \/ o = Len(s)
     \/ s[o + 1] \in LineEnd
     \/ \A q \in (p + 1)..o : CommentAt(s, q) => \E r \in q..o : s[r] \in LineEnd

InComment(s, p, o) ==
  /\ Passed(s, p, o)
  /\ \E q \in (p + 1)..(o + 1) : CommentAt(s, q) /\ \A r \in q..o : s[r] \notin LineEnd

LEMMA TrivialIs ==
  ASSUME NEW s, NEW from, NEW i
  PROVE  Grammar!Trivial(s, from, i)
           <=> \/ s[i] \in {Space, Tab} \cup LineEnd
               \/ \E q \in from..i : CommentAt(s, q) /\ \A r \in q..i : s[r] \notin LineEnd
<1>1. Grammar!Blank \cup Grammar!LineEnd = {Space, Tab} \cup LineEnd /\ Grammar!LineEnd = LineEnd
  BY OctetsNamed DEF LineEnd
<1>2. QED
  BY <1>1 DEF Grammar!Trivial, CommentAt, Semicolon

\* One more octet of trivia.
LEMMA PassOne ==
  ASSUME NEW s \in Seq(0..255), NEW p, NEW o, Passed(s, p, o), o < Len(s),
         Grammar!Trivial(s, p + 1, o + 1)
  PROVE  Passed(s, p, o + 1)
<1>1. p \in Nat /\ o \in Nat /\ Len(s) \in Nat /\ p <= o
  BY DEF Passed
<1>2. \A i \in (p + 1)..(o + 1) : i \in (p + 1)..o \/ i = o + 1
  BY <1>1
<1>3. QED
  BY <1>1, <1>2 DEF Passed

\* A blank, where no comment is open.
LEMMA PassBlank ==
  ASSUME NEW s \in Seq(0..255), NEW p, NEW o, InTrivia(s, p, o), o < Len(s),
         s[o + 1] \in {Space, Tab}
  PROVE  InTrivia(s, p, o + 1)
<1>1. p \in Nat /\ o \in Nat /\ Len(s) \in Nat /\ p <= o
  BY DEF InTrivia, Passed
<1>2. Passed(s, p, o + 1)
  BY PassOne, TrivialIs DEF InTrivia
<1>3. s[o + 1] \notin LineEnd /\ s[o + 1] # Semicolon
  BY DEF LineEnd, Space, Tab, LF, CR, Semicolon
<1>4. ASSUME NEW q \in (p + 1)..(o + 1), CommentAt(s, q)
      PROVE  \E r \in q..(o + 1) : s[r] \in LineEnd
  <2>1. q \in (p + 1)..o
    BY <1>1, <1>3, <1>4 DEF CommentAt
  <2>2. PICK r \in q..o : s[r] \in LineEnd
    BY <1>1, <1>3, <1>4, <2>1 DEF InTrivia
  <2>3. r \in q..(o + 1)
    BY <1>1, <2>1
  <2>4. QED
    BY <2>2, <2>3
<1>5. QED
  BY <1>2, <1>4 DEF InTrivia

\* A line end of n octets, wherever it is, ends the comment it may be in.
LEMMA PassLineEnd ==
  ASSUME NEW s \in Seq(0..255), NEW p, NEW o, Passed(s, p, o), o < Len(s), s[o + 1] \in LineEnd
  PROVE  InTrivia(s, p, o + 1)
<1>1. p \in Nat /\ o \in Nat /\ Len(s) \in Nat /\ p <= o
  BY DEF Passed
<1>2. Passed(s, p, o + 1)
  BY PassOne, TrivialIs
<1>3. \A q \in (p + 1)..(o + 1) : o + 1 \in q..(o + 1)
  BY <1>1
<1>4. QED
  BY <1>2, <1>3 DEF InTrivia

\* An octet of a comment that is open.
LEMMA PassComment ==
  ASSUME NEW s \in Seq(0..255), NEW p, NEW o, InComment(s, p, o), o < Len(s),
         s[o + 1] \notin LineEnd
  PROVE  InComment(s, p, o + 1)
<1>1. p \in Nat /\ o \in Nat /\ Len(s) \in Nat /\ p <= o
  BY DEF InComment, Passed
<1>2. PICK q \in (p + 1)..(o + 1) : CommentAt(s, q) /\ \A r \in q..o : s[r] \notin LineEnd
  BY DEF InComment
<1>3. \A r \in q..(o + 1) : s[r] \notin LineEnd
  <2>1. \A r \in q..(o + 1) : r \in q..o \/ r = o + 1
    BY <1>1, <1>2
  <2>2. QED
    BY <1>2, <2>1
<1>4. Grammar!Trivial(s, p + 1, o + 1)
  BY <1>2, <1>3, TrivialIs
<1>5. Passed(s, p, o + 1)
  BY <1>4, PassOne DEF InComment
<1>6. q \in (p + 1)..((o + 1) + 1)
  BY <1>1
<1>7. QED
  BY <1>2, <1>3, <1>5, <1>6 DEF InComment

LEMMA CommentOpens ==
  ASSUME NEW s \in Seq(0..255), NEW p, NEW o, InTrivia(s, p, o), CommentAt(s, o + 1)
  PROVE  InComment(s, p, o)
<1>1. p \in Nat /\ o \in Nat /\ Len(s) \in Nat /\ p <= o
  BY DEF InTrivia, Passed
<1>2. o + 1 \in (p + 1)..(o + 1) /\ \A r \in (o + 1)..o : FALSE
  BY <1>1
<1>3. QED
  BY <1>2 DEF InComment, InTrivia

LEMMA CommentCloses ==
  ASSUME NEW s, NEW p, NEW o, InComment(s, p, o), o = Len(s) \/ s[o + 1] \in LineEnd
  PROVE  InTrivia(s, p, o)
  BY DEF InComment, InTrivia

\* Where neither a blank nor a line end nor a comment is next, the trivia end.
LEMMA TriviaEnd ==
  ASSUME NEW s \in Seq(0..255), NEW p, NEW o, InTrivia(s, p, o),
         o < Len(s) => s[o + 1] \notin {Space, Tab} \cup LineEnd,
         ~CommentAt(s, o + 1)
  PROVE  Grammar!Skipped(s, p) = o
<1>1. p \in Nat /\ o \in p..Len(s) /\ Len(s) \in Nat
  BY DEF InTrivia, Passed
<1>2. ASSUME o # Len(s), Grammar!Trivial(s, p + 1, o + 1) PROVE FALSE
  <2>1. o < Len(s)
    BY <1>1, <1>2
  <2>2. PICK q \in (p + 1)..(o + 1) : CommentAt(s, q) /\ \A r \in q..(o + 1) : s[r] \notin LineEnd
    BY <1>2, <2>1, TrivialIs
  <2>3. q \in (p + 1)..o
    BY <1>1, <2>2
  <2>4. PICK r \in q..o : s[r] \in LineEnd
    BY <1>2, <2>1, <2>2, <2>3 DEF InTrivia
  <2>5. r \in q..(o + 1)
    BY <1>1, <2>3
  <2>6. QED
    BY <2>2, <2>4, <2>5
<1>3. QED
  BY <1>1, <1>2, SkippedIs DEF InTrivia, Passed

\* A call begins where the last token ended.
LEMMA TriviaStart ==
  ASSUME NEW s \in Seq(0..255), NEW p \in 0..Len(s)
  PROVE  InTrivia(s, p, p)
<1>1. \A i \in (p + 1)..p : FALSE
  OBVIOUS
<1>2. QED
  BY <1>1 DEF InTrivia, Passed

-----------------------------------------------------------------------------
(***************************************************************************)
(* Line and column are those of the grammar.                               *)
(***************************************************************************)
LEMMA SourceTyped ==
  ASSUME TypeOK
  PROVE  source \in Seq(0..255) /\ Len(source) \in Nat
  BY LexerAssumption DEF TypeOK

LEMMA EndsAre ==
  ASSUME NEW n
  PROVE  Grammar!Ends(source, n) = {i \in 1..n : EndsLine(i)}
  BY DEF Grammar!Ends, Grammar!LineEnd, EndsLine, CR, LF

LEMMA PlaceIs ==
  ASSUME TypeOK, NEW n \in 0..Len(source), NEW l \in Nat, NEW c \in Nat, Placed(n, l, c)
  PROVE  Grammar!LineOf(source, n) = l /\ Grammar!ColumnOf(source, n) = c
<1> DEFINE E == {i \in 1..n : EndsLine(i)}
           last == n + 1 - c
           S == {0} \cup E
           m == CHOOSE x \in S : \A y \in S : x >= y
<1>0. n \in Nat
  BY SourceTyped
<1>1. Grammar!LineOf(source, n) = l
  <2>1. l = 1 + Cardinality(E)
    BY DEF Placed
  <2>2. Grammar!Ends(source, n) = E
    BY EndsAre
  <2>3. Grammar!LineOf(source, n) = 1 + Cardinality(E)
    <3>1. \A T : Grammar!Cardinality(T) = Cardinality(T)
      BY DEF Grammar!Cardinality, Cardinality
    <3> HIDE DEF E
    <3>2. QED
      BY <2>2, <3>1 DEF Grammar!LineOf
  <2>4. QED
    BY <2>1, <2>3
<1>2. last \in S /\ last \in Nat
  BY <1>0 DEF Placed
<1>3. \A y \in S : y \in Nat /\ last >= y
  <2>1. ASSUME NEW y \in E, ~(last >= y) PROVE FALSE
    <3>1. y \in (last + 1)..n
      BY <1>0, <1>2, <2>1
    <3>2. QED
      BY <2>1, <3>1 DEF Placed
  <2>2. QED
    BY <1>0, <1>2, <2>1
<1>4. Grammar!ColumnOf(source, n) = n + 1 - m
  BY EndsAre DEF Grammar!ColumnOf, Grammar!Max
<1>5. n + 1 - last = c
  BY <1>0
<1> HIDE DEF S, last
<1>6. m \in S /\ \A y \in S : m >= y
  BY <1>2, <1>3
<1> HIDE DEF m
<1>7. m = last
  BY <1>2, <1>3, <1>6
<1>8. QED
  BY <1>1, <1>4, <1>5, <1>7

\* The token of the grammar at a place the lexer knows the line and column of.
LEMMA TokenIs ==
  ASSUME TypeOK, NEW b \in 0..Len(source), NEW l \in Nat, NEW c \in Nat, Placed(b, l, c),
         NEW k, NEW e
  PROVE  Grammar!Token(source, k, b, e)
           = [kind |-> k, first |-> b + (IF k = "STRING" THEN 1 ELSE 0),
              length |-> e - b - 2 * (IF k = "STRING" THEN 1 ELSE 0),
              number |-> IF k = "NUMBER" THEN Grammar!Decimal(source, b, e) ELSE 0,
              line |-> l, column |-> c]
  BY PlaceIs, Zenon DEF Grammar!Token

-----------------------------------------------------------------------------
(***************************************************************************)
(* The scan: what the lexer has seen of the source since the last token.   *)
(***************************************************************************)
Scanned(s, o, a, b, n, t, e) ==
  /\ Grammar!Behind(t) \in 0..Len(s)
  /\ a # "idle" => e.code = "ok"
  /\ a = "idle" /\ e.code = "ok" => o = Grammar!Behind(t)
  /\ a = "trivia" => InTrivia(s, Grammar!Behind(t), o)
  /\ a = "comment" => InComment(s, Grammar!Behind(t), o)
  /\ a \in {"identifier", "number", "string"} => Grammar!Skipped(s, Grammar!Behind(t)) = b.first
  /\ a = "identifier" => InIdentifier(s, b.first, o)
  /\ a = "number" => InNumber(s, b.first, o, n)
  /\ a = "string" => InString(s, b.first, o)

ScanInv == Scanned(source, offset, at, begin, number, token, error)

\* A step of the grammar, or none.
Refined == UNCHANGED <<source, token, error>> \/ Grammar!Deliver \/ Grammar!Again

LEMMA ScanNext ==
  ScanInv' <=> Scanned(source', offset', at', begin', number', token', error')
  BY DEF ScanInv

LEMMA ScanInit == Init => ScanInv /\ Grammar!Init
<1>1. ASSUME Init PROVE ScanInv /\ Grammar!Init
  <2>1. Grammar!Behind(token) = 0 /\ Len(source) \in Nat
    BY <1>1, SourceType DEF Init, NoToken, Grammar!Behind
  <2>2. ScanInv
    BY <1>1, <2>1 DEF Init, ScanInv, Scanned
  <2>3. Grammar!Init
    BY <1>1 DEF Init, NoToken, NoError, Grammar!Init
  <2>4. QED
    BY <2>2, <2>3
<1>2. QED
  BY <1>1

\* Between two calls, after a token and after a failure.
LEMMA ScanReturned ==
  ASSUME TypeOK, UNCHANGED source, at' = "idle", error'.code = "ok",
         offset' = Grammar!Behind(token'), offset' \in 0..Len(source)
  PROVE  ScanInv'
  BY ScanNext DEF Scanned

LEMMA ScanFailed ==
  ASSUME ScanInv, UNCHANGED <<source, token>>, at' = "idle", error'.code # "ok"
  PROVE  ScanInv'
  BY ScanNext DEF ScanInv, Scanned

\* A return delivers the token of the grammar, and a failure its code.
LEMMA Delivers ==
  ASSUME error.code = "ok", UNCHANGED <<source, error>>,
         NEW t, t = Grammar!NextToken(source, Grammar!Behind(token)),
         Grammar!Code(source, t) = "ok", token' = t
  PROVE  Refined
<1>1. Grammar!Deliver
  BY DEF Grammar!Deliver
<1>2. QED
  BY <1>1 DEF Refined

LEMMA Refuses ==
  ASSUME error.code = "ok", UNCHANGED <<source, token>>,
         NEW t, t = Grammar!NextToken(source, Grammar!Behind(token)),
         Grammar!Code(source, t) # "ok",
         error' = [code |-> Grammar!Code(source, t), line |-> t.line, column |-> t.column]
  PROVE  Refined
<1>1. Grammar!Deliver
  BY DEF Grammar!Deliver
<1>2. QED
  BY <1>1 DEF Refined

-----------------------------------------------------------------------------
(***************************************************************************)
(* Each action of the lexer is a step of the grammar or changes nothing    *)
(* the grammar knows of, and keeps the scan.                               *)
(***************************************************************************)
Refines == ScanInv' /\ Refined

LEMMA OctetsSeen ==
  ASSUME TypeOK
  PROVE  /\ \A S : Sees(S) <=> offset < Len(source) /\ source[offset + 1] \in S
         /\ \A S : SeesPair(S) <=> /\ offset + 1 < Len(source)
                                  /\ <<source[offset + 1], source[offset + 2]>> \in S
  BY DEF Sees, SeesPair, More, Octet

\* A loop that goes on, or another one that begins.
LEMMA ScanGoes ==
  ASSUME ScanInv, UNCHANGED <<source, token, error>>, error.code = "ok", at' # "idle",
         at' = "trivia" => InTrivia(source, Grammar!Behind(token), offset'),
         at' = "comment" => InComment(source, Grammar!Behind(token), offset'),
         at' \in {"identifier", "number", "string"}
           => Grammar!Skipped(source, Grammar!Behind(token)) = begin'.first,
         at' = "identifier" => InIdentifier(source, begin'.first, offset'),
         at' = "number" => InNumber(source, begin'.first, offset', number'),
         at' = "string" => InString(source, begin'.first, offset')
  PROVE  Refines
<1>1. ScanInv'
  BY ScanNext DEF ScanInv, Scanned
<1>2. QED
  BY <1>1 DEF Refines, Refined

\* In a loop nothing has failed, and the trivia are passed as far as it says.
LEMMA ScanNow ==
  ASSUME ScanInv
  PROVE  /\ at # "idle" => error.code = "ok"
         /\ at = "trivia" => InTrivia(source, Grammar!Behind(token), offset)
         /\ at = "comment" => InComment(source, Grammar!Behind(token), offset)
         /\ at \in {"identifier", "number", "string"}
              => Grammar!Skipped(source, Grammar!Behind(token)) = begin.first
         /\ at = "identifier" => InIdentifier(source, begin.first, offset)
         /\ at = "number" => InNumber(source, begin.first, offset, number)
         /\ at = "string" => InString(source, begin.first, offset)
  BY DEF ScanInv, Scanned

LEMMA TriviaRefines ==
  ASSUME TypeOK, ScanInv,
         Call \/ SkipBlank \/ SkipReturn \/ SkipLineFeed \/ OpenComment \/ SkipComment
  PROVE  Refines
<1> DEFINE p == Grammar!Behind(token)
<1>0. /\ source \in Seq(0..255) /\ Len(source) \in Nat
      /\ offset \in Nat /\ offset <= Len(source)
      /\ p \in 0..Len(source)
  BY SourceTyped DEF TypeOK, ScanInv, Scanned
<1> HIDE DEF p
<1>1. CASE Call
  <2>1. CASE failed
    <3>1. error.code # "ok" /\ fail("A0-LEX-0004", line, column) /\ UNCHANGED <<source, token>>
      BY <1>1, <2>1 DEF Call, TypeOK, fail
    <3>2. at' = "idle" /\ error'.code = "A0-LEX-0004"
      BY <3>1 DEF fail
    <3>3. ScanInv'
      BY <3>1, <3>2, ScanFailed
    <3>4. Grammar!Again
      BY <3>1, <3>2 DEF Grammar!Again
    <3>5. QED
      BY <3>3, <3>4 DEF Refines, Refined
  <2>2. CASE ~failed
    <3>1. at = "idle" /\ at' = "trivia" /\ UNCHANGED <<source, offset, token, error>>
      BY <1>1, <2>2 DEF Call, Went
    <3>2. error.code = "ok" /\ offset = p
      BY <2>2, <3>1 DEF TypeOK, ScanInv, Scanned, p
    <3>3. InTrivia(source, p, offset')
      BY <1>0, <3>1, <3>2, TriviaStart
    <3>4. QED
      BY <3>1, <3>2, <3>3, ScanGoes DEF p
  <2>3. QED
    BY <2>1, <2>2
<1>2. CASE SkipBlank
  <2>1. /\ at = "trivia" /\ at' = "trivia" /\ offset' = offset + 1
        /\ UNCHANGED <<source, token, error>>
    BY <1>2 DEF SkipBlank, advance_regular
  <2>2. offset < Len(source) /\ source[offset + 1] \in {Space, Tab}
    BY <1>2, OctetsSeen DEF SkipBlank
  <2>3. InTrivia(source, p, offset')
    BY <1>0, <2>1, <2>2, PassBlank, ScanNow DEF p
  <2>4. QED
    BY <2>1, <2>3, ScanGoes, ScanNow DEF p
<1>3. CASE SkipReturn
  <2>1. /\ at = "trivia" /\ at' = "trivia" /\ UNCHANGED <<source, token, error>>
        /\ offset' = offset + (IF SeesPair({<<CR, LF>>}) THEN 2 ELSE 1)
    BY <1>3, Zenon DEF SkipReturn, NextLine
  <2>2. offset < Len(source) /\ source[offset + 1] \in LineEnd
    BY <1>3, OctetsSeen DEF SkipReturn, LineEnd
  <2>3. InTrivia(source, p, offset + 1)
    BY <1>0, <2>1, <2>2, PassLineEnd, ScanNow DEF p, InTrivia
  <2>4. InTrivia(source, p, offset')
    <3>1. CASE SeesPair({<<CR, LF>>})
      <4>1. offset + 1 < Len(source) /\ source[(offset + 1) + 1] \in LineEnd
        BY <1>0, <3>1, (offset + 1) + 1 = offset + 2, OctetsSeen DEF LineEnd
      <4>2. InTrivia(source, p, (offset + 1) + 1)
        BY <1>0, <2>3, <4>1, PassLineEnd DEF InTrivia
      <4>3. QED
        BY <1>0, <2>1, <3>1, <4>2, (offset + 1) + 1 = offset + 2
    <3>2. CASE ~SeesPair({<<CR, LF>>})
      BY <2>1, <2>3, <3>2
    <3>3. QED
      BY <3>1, <3>2
  <2>5. QED
    BY <2>1, <2>4, ScanGoes, ScanNow DEF p
<1>4. CASE SkipLineFeed
  <2>1. /\ at = "trivia" /\ at' = "trivia" /\ offset' = offset + 1
        /\ UNCHANGED <<source, token, error>>
    BY <1>4 DEF SkipLineFeed, NextLine
  <2>2. offset < Len(source) /\ source[offset + 1] \in LineEnd
    BY <1>4, OctetsSeen DEF SkipLineFeed, LineEnd
  <2>3. InTrivia(source, p, offset')
    BY <1>0, <2>1, <2>2, PassLineEnd, ScanNow DEF p, InTrivia
  <2>4. QED
    BY <2>1, <2>3, ScanGoes, ScanNow DEF p
<1>5. CASE OpenComment
  <2>1. /\ at = "trivia" /\ at' = "comment" /\ UNCHANGED <<source, offset, token, error>>
    BY <1>5 DEF OpenComment, Went
  <2>2. CommentAt(source, offset + 1)
    BY <1>0, <1>5, OctetsSeen, (offset + 1) + 1 = offset + 2 DEF OpenComment, Commented, CommentAt
  <2>3. InComment(source, p, offset')
    BY <1>0, <2>1, <2>2, CommentOpens, ScanNow DEF p
  <2>4. QED
    BY <2>1, <2>3, ScanGoes, ScanNow DEF p
<1>6. CASE SkipComment
  <2>0. at = "comment" /\ UNCHANGED <<source, token, error>>
    BY <1>6 DEF SkipComment
  <2>1. CASE More /\ Octet \notin {CR, LF}
    <3>1. at' = "comment" /\ offset' = offset + 1
      BY <1>6, <2>1 DEF SkipComment, advance_regular
    <3>2. offset < Len(source) /\ source[offset + 1] \notin LineEnd
      BY <2>1 DEF More, Octet, LineEnd
    <3>3. InComment(source, p, offset')
      BY <1>0, <2>0, <3>1, <3>2, PassComment, ScanNow DEF p
    <3>4. QED
      BY <2>0, <3>1, <3>3, ScanGoes, ScanNow DEF p
  <2>2. CASE ~(More /\ Octet \notin {CR, LF})
    <3>1. at' = "trivia" /\ offset' = offset
      BY <1>6, <2>2 DEF SkipComment
    <3>2. offset = Len(source) \/ source[offset + 1] \in LineEnd
      BY <1>0, <2>2 DEF More, Octet, LineEnd
    <3>3. InTrivia(source, p, offset')
      BY <1>0, <2>0, <3>1, <3>2, CommentCloses, ScanNow DEF p
    <3>4. QED
      BY <2>0, <3>1, <3>3, ScanGoes, ScanNow DEF p
  <2>3. QED
    BY <2>1, <2>2
<1>7. QED
  BY <1>1, <1>2, <1>3, <1>4, <1>5, <1>6

\* Where a token may begin, the trivia have ended.
LEMMA SignificantIs ==
  ASSUME TypeOK, ScanInv, Significant
  PROVE  /\ error.code = "ok"
         /\ Grammar!Skipped(source, Grammar!Behind(token)) = offset
<1>1. at = "trivia" /\ ~Sees({Space, Tab, CR, LF}) /\ ~Commented
  BY DEF Significant
<1>2. offset < Len(source) => source[offset + 1] \notin {Space, Tab} \cup LineEnd
  BY <1>1, OctetsSeen DEF LineEnd
<1>3. offset \in Nat /\ (offset + 1) + 1 = offset + 2
  BY SourceTyped DEF TypeOK
<1>4. ~CommentAt(source, offset + 1)
  BY <1>1, <1>3, OctetsSeen DEF Commented, CommentAt
<1>5. QED
  BY <1>1, <1>2, <1>4, SourceTyped, ScanNow, TriviaEnd

\* The place of the offset, and that of the token a loop is in.
LEMMA PlacesKnown ==
  ASSUME TypeOK, LineAndColumn
  PROVE  /\ offset \in 0..Len(source) /\ line \in Nat /\ column \in Nat
         /\ Placed(offset, line, column)
         /\ begin.first \in 0..Len(source) /\ begin.line \in Nat /\ begin.column \in Nat
         /\ Placed(begin.first, begin.line, begin.column)
  BY DEF TypeOK, Position, LineAndColumn

\* What is returned is the next token of the grammar, which ends at e.
LEMMA ReturnRefines ==
  ASSUME TypeOK, ScanInv, error.code = "ok", UNCHANGED <<source, error>>, at' = "idle",
         NEW b \in 0..Len(source), NEW l \in Nat, NEW c \in Nat, Placed(b, l, c),
         NEW k \in Kinds \cup {"EOF"}, NEW e \in b..Len(source), offset' = e,
         Grammar!NextToken(source, Grammar!Behind(token)) = Grammar!Token(source, k, b, e),
         NEW v, v = IF k = "NUMBER" THEN Grammar!Decimal(source, b, e) ELSE 0,
         k = "NUMBER" => v <= MaxNumber,
         token' = [kind |-> k, first |-> b + (IF k = "STRING" THEN 1 ELSE 0),
                   length |-> e - b - 2 * (IF k = "STRING" THEN 1 ELSE 0), number |-> v,
                   line |-> l, column |-> c],
         k = "NUMBER" => v \in Nat
  PROVE  Refines
<1>0. Len(source) \in Nat /\ MaxNumber \in Nat
  BY SourceTyped, LexerAssumption
<1> DEFINE t == Grammar!Token(source, k, b, e)
<1>1. t = token'
  BY TokenIs
<1> HIDE DEF t
<1>2. Grammar!Code(source, token') = "ok"
  BY <1>0 DEF Grammar!Code, Kinds
<1>3. Refined
  BY <1>1, <1>2, Delivers DEF t
<1>4. Grammar!Behind(token') = e
  BY <1>0 DEF Grammar!Behind
<1>5. ScanInv'
  BY <1>0, <1>4, ScanReturned
<1>6. QED
  BY <1>3, <1>5 DEF Refines

\* A failure has the code and the place of the token that is not there, or of
\* the literal that is too large.
LEMMA FailRefines ==
  ASSUME TypeOK, ScanInv, error.code = "ok", UNCHANGED source, NEW x,
         NEW b \in 0..Len(source), NEW l \in Nat, NEW c \in Nat, Placed(b, l, c),
         NEW k, NEW e, fail(x, l, c), x # "ok",
         Grammar!NextToken(source, Grammar!Behind(token)) = Grammar!Token(source, k, b, e),
         Grammar!Code(source, Grammar!Token(source, k, b, e)) = x
  PROVE  Refines
<1> DEFINE t == Grammar!Token(source, k, b, e)
<1>1. t.line = l /\ t.column = c
  BY TokenIs
<1>2. Grammar!Code(source, t) = x /\ t = Grammar!NextToken(source, Grammar!Behind(token))
  OBVIOUS
<1> HIDE DEF t
<1>3. at' = "idle" /\ UNCHANGED token /\ error' = [code |-> x, line |-> l, column |-> c]
  BY DEF fail
<1>4. Refined
  BY <1>1, <1>2, <1>3, Refuses
<1>5. ScanInv'
  BY <1>3, ScanFailed
<1>6. QED
  BY <1>4, <1>5 DEF Refines

LEMMA FirstRefines ==
  ASSUME TypeOK, LineAndColumn, ScanInv,
         \/ ReturnEnd \/ StartIdentifier \/ StartNumber \/ StartString
         \/ ReturnPair \/ ReturnMark \/ FailToken
  PROVE  Refines
<1> DEFINE p == Grammar!Behind(token)
<1>0. /\ source \in Seq(0..255) /\ Len(source) \in Nat
      /\ offset \in Nat /\ offset <= Len(source) /\ offset \in 0..Len(source)
      /\ line \in Nat /\ column \in Nat /\ Placed(offset, line, column)
  BY SourceTyped, PlacesKnown
<1>a. Significant
  BY DEF ReturnEnd, StartIdentifier, StartNumber, StartString, ReturnPair, ReturnMark, FailToken
<1>b. error.code = "ok" /\ Grammar!Skipped(source, p) = offset
  BY <1>a, SignificantIs
<1> HIDE DEF p
<1>1. CASE ReturnEnd
  <2>1. /\ offset = Len(source)
        /\ UNCHANGED <<source, offset, error>> /\ at' = "idle"
        /\ token' = [kind |-> "EOF", first |-> offset, length |-> 0, number |-> 0,
                     line |-> line, column |-> column]
    BY <1>0, <1>1 DEF ReturnEnd, Returned, Here, More
  <2>2. PICK e \in offset..Len(source) : e = offset
    BY <1>0
  <2>3. Grammar!NextToken(source, p) = Grammar!Token(source, "EOF", offset, e)
    BY <1>0, <1>b, <2>1, <2>2, EndFound
  <2> DEFINE v == 0
  <2>4. v = IF "EOF" = "NUMBER" THEN Grammar!Decimal(source, offset, e) ELSE 0
    OBVIOUS
  <2>5. offset = offset + 0 /\ 0 = e - offset - 2 * 0 /\ "EOF" \in Kinds \cup {"EOF"}
    BY <1>0, <2>2
  <2>6. token' = [kind |-> "EOF", first |-> offset + (IF "EOF" = "STRING" THEN 1 ELSE 0),
                  length |-> e - offset - 2 * (IF "EOF" = "STRING" THEN 1 ELSE 0),
                  number |-> v, line |-> line, column |-> column]
    BY <2>1, <2>5
  <2>7. offset' = e
    BY <2>1, <2>2
  <2> HIDE DEF v
  <2>8. QED
    BY <1>0, <1>b, <2>1, <2>2, <2>3, <2>4, <2>5, <2>6, <2>7, ReturnRefines, SMTT(20) DEF p
<1>2. CASE StartIdentifier
  <2>1. /\ UNCHANGED <<source, token, error>> /\ at' = "identifier"
        /\ offset' = offset + 1 /\ begin'.first = offset
        /\ offset < Len(source) /\ source[offset + 1] \in ascii_alpha \cup {Underscore}
    BY <1>2, OctetsSeen DEF StartIdentifier, Here, advance_regular, Went
  <2>2. InIdentifier(source, offset, offset + 1)
    <3>1. \A i \in (offset + 1)..(offset + 1) : i = offset + 1
      BY <1>0
    <3>2. offset + 1 \in (offset + 1)..Len(source)
      BY <1>0, <2>1
    <3>3. QED
      BY <2>1, <3>1, <3>2 DEF InIdentifier, ascii_ident_rest
  <2>3. QED
    BY <1>b, <2>1, <2>2, ScanGoes DEF p
<1>3. CASE StartNumber
  <2>1. /\ UNCHANGED <<source, offset, token, error>> /\ at' = "number"
        /\ begin'.first = offset /\ number' = 0
        /\ offset < Len(source) /\ source[offset + 1] \in ascii_digit
    BY <1>3, OctetsSeen DEF StartNumber, Here, Went
  <2>2. InNumber(source, offset, offset, 0)
    <3>1. \A i \in (offset + 1)..offset : FALSE
      BY <1>0
    <3>2. Grammar!Decimal(source, offset, offset) = 0
      BY <1>0, DecimalSteps
    <3>3. offset \in offset..Len(source)
      BY <1>0
    <3>4. QED
      BY <2>1, <3>1, <3>2, <3>3 DEF InNumber
  <2>3. QED
    BY <1>b, <2>1, <2>2, ScanGoes DEF p
<1>4. CASE StartString
  <2>1. /\ UNCHANGED <<source, token, error>> /\ at' = "string"
        /\ offset' = offset + 1 /\ begin'.first = offset
        /\ offset < Len(source) /\ source[offset + 1] = Quote
    BY <1>4, OctetsSeen DEF StartString, Here, advance_regular, Went
  <2>2. InString(source, offset, offset + 1)
    <3>1. \A i \in (offset + 2)..(offset + 1) : FALSE
      BY <1>0
    <3>2. offset + 1 \in (offset + 1)..Len(source)
      BY <1>0, <2>1
    <3>3. QED
      BY <2>1, <3>1, <3>2 DEF InString
  <2>3. QED
    BY <1>b, <2>1, <2>2, ScanGoes DEF p
<1>5. CASE ReturnPair
  <2>1. /\ UNCHANGED <<source, error>> /\ at' = "idle" /\ offset' = offset + 2
        /\ token' = [kind |-> "MARK", first |-> offset, length |-> 2, number |-> 0,
                     line |-> line, column |-> column]
        /\ offset + 1 < Len(source) /\ <<source[offset + 1], source[offset + 2]>> \in Pairs
    BY <1>5, OctetsSeen DEF ReturnPair, Returned, Here
  <2>2. Grammar!NextToken(source, p) = Grammar!Token(source, "MARK", offset, offset + 2)
    BY <1>0, <1>b, <2>1, PairFound
  <2> DEFINE v == 0
  <2>3. v = IF "MARK" = "NUMBER" THEN Grammar!Decimal(source, offset, offset + 2) ELSE 0
    OBVIOUS
  <2>4. /\ offset = offset + 0 /\ 2 = (offset + 2) - offset - 2 * 0
        /\ offset + 2 \in offset..Len(source) /\ "MARK" \in Kinds \cup {"EOF"}
    BY <1>0, <2>1 DEF Kinds
  <2>5. token' = [kind |-> "MARK", first |-> offset + (IF "MARK" = "STRING" THEN 1 ELSE 0),
                  length |-> (offset + 2) - offset - 2 * (IF "MARK" = "STRING" THEN 1 ELSE 0),
                  number |-> v, line |-> line, column |-> column]
    BY <2>1, <2>4
  <2> HIDE DEF v
  <2>6. QED
    BY <1>0, <1>b, <2>1, <2>2, <2>3, <2>4, <2>5, ReturnRefines DEF p
<1>6. CASE ReturnMark
  <2>1. /\ UNCHANGED <<source, error>> /\ at' = "idle" /\ offset' = offset + 1
        /\ token' = [kind |-> "MARK", first |-> offset, length |-> 1, number |-> 0,
                     line |-> line, column |-> column]
        /\ offset < Len(source) /\ source[offset + 1] \in Alone
        /\ ~(offset + 1 < Len(source) /\ <<source[offset + 1], source[offset + 2]>> \in Pairs)
    BY <1>6, OctetsSeen DEF ReturnMark, Returned, Here, advance_regular
  <2>2. Grammar!NextToken(source, p) = Grammar!Token(source, "MARK", offset, offset + 1)
    BY <1>0, <1>b, <2>1, MarkFound
  <2> DEFINE v == 0
  <2>3. v = IF "MARK" = "NUMBER" THEN Grammar!Decimal(source, offset, offset + 1) ELSE 0
    OBVIOUS
  <2>4. /\ offset = offset + 0 /\ 1 = (offset + 1) - offset - 2 * 0
        /\ offset + 1 \in offset..Len(source) /\ "MARK" \in Kinds \cup {"EOF"}
    BY <1>0, <2>1 DEF Kinds
  <2>5. token' = [kind |-> "MARK", first |-> offset + (IF "MARK" = "STRING" THEN 1 ELSE 0),
                  length |-> (offset + 1) - offset - 2 * (IF "MARK" = "STRING" THEN 1 ELSE 0),
                  number |-> v, line |-> line, column |-> column]
    BY <2>1, <2>4
  <2> HIDE DEF v
  <2>6. QED
    BY <1>0, <1>b, <2>1, <2>2, <2>3, <2>4, <2>5, ReturnRefines DEF p
<1>7. CASE FailToken
  <2>1. /\ UNCHANGED source /\ fail("A0-LEX-0003", line, column)
        /\ offset < Len(source) /\ source[offset + 1] \notin Known
        /\ ~(offset + 1 < Len(source) /\ <<source[offset + 1], source[offset + 2]>> \in Pairs)
    BY <1>7, OctetsSeen DEF FailToken, More
  <2>2. Grammar!NextToken(source, p) = Grammar!Token(source, "NONE", offset, offset)
    BY <1>0, <1>b, <2>1, NothingFound
  <2>3. Grammar!Code(source, Grammar!Token(source, "NONE", offset, offset)) = "A0-LEX-0003"
    <3>1. source[offset + 1] # 34 /\ offset + 0 = offset
      BY <1>0, <2>1 DEF Known, Quote
    <3>2. QED
      BY <3>1 DEF Grammar!Code, Grammar!Token
  <2>4. QED
    BY <1>0, <1>b, <2>1, <2>2, <2>3, FailRefines DEF p
<1>8. QED
  BY <1>1, <1>2, <1>3, <1>4, <1>5, <1>6, <1>7

LEMMA LoopRefines ==
  ASSUME TypeOK, LineAndColumn, ScanInv,
         \/ Identifier \/ ReturnIdentifier
         \/ Number \/ FailNumber \/ ReturnNumber
         \/ String \/ ReturnString \/ FailString
  PROVE  Refines
<1> DEFINE p == Grammar!Behind(token)
           b == begin.first
<1>0. /\ source \in Seq(0..255) /\ Len(source) \in Nat
      /\ offset \in Nat /\ offset <= Len(source)
      /\ b \in Nat /\ b \in 0..Len(source)
      /\ begin.line \in Nat /\ begin.column \in Nat /\ Placed(b, begin.line, begin.column)
  BY SourceTyped, PlacesKnown
<1>a. at \in {"identifier", "number", "string"}
  BY DEF Identifier, ReturnIdentifier, Number, FailNumber, ReturnNumber, String, ReturnString,
         FailString
<1>b. error.code = "ok" /\ Grammar!Skipped(source, p) = b
  BY <1>a, ScanNow
<1>c. \A S : ~Sees(S) => Stops(source, S, offset)
  BY <1>0, OctetsSeen DEF Stops
<1> HIDE DEF p, b
<1>1. CASE Identifier
  <2>1. /\ UNCHANGED <<source, begin, token, error>> /\ at = "identifier" /\ at' = "identifier"
        /\ offset' = offset + 1
        /\ offset < Len(source) /\ source[offset + 1] \in ascii_ident_rest
    BY <1>1, OctetsSeen DEF Identifier, advance_regular
  <2>2. InIdentifier(source, b, offset)
    BY <2>1, ScanNow DEF b
  <2>3. /\ \A i \in (b + 1)..(offset + 1) : i \in (b + 1)..offset \/ i = offset + 1
        /\ offset + 1 \in (b + 1)..Len(source)
    BY <1>0, <2>1, <2>2 DEF InIdentifier
  <2>4. InIdentifier(source, b, offset + 1)
    BY <2>1, <2>2, <2>3 DEF InIdentifier
  <2>5. QED
    BY <1>b, <2>1, <2>4, ScanGoes DEF p, b
<1>2. CASE ReturnIdentifier
  <2>1. /\ UNCHANGED <<source, offset, error>> /\ at = "identifier" /\ at' = "idle"
        /\ token' = [kind |-> "IDENT", first |-> b, length |-> offset - b, number |-> 0,
                     line |-> begin.line, column |-> begin.column]
    BY <1>2 DEF ReturnIdentifier, Returned, b
  <2>2. InIdentifier(source, b, offset) /\ Stops(source, ascii_ident_rest, offset)
    BY <1>2, <1>c, <2>1, ScanNow DEF b, ReturnIdentifier
  <2>3. Grammar!NextToken(source, p) = Grammar!Token(source, "IDENT", b, offset)
    BY <1>0, <1>b, <2>2, IdentifierFound
  <2> DEFINE v == 0
  <2>4. v = IF "IDENT" = "NUMBER" THEN Grammar!Decimal(source, b, offset) ELSE 0
    OBVIOUS
  <2>5. /\ b = b + 0 /\ offset - b = offset - b - 2 * 0
        /\ offset \in b..Len(source) /\ "IDENT" \in Kinds \cup {"EOF"}
    BY <1>0, <2>2 DEF Kinds, InIdentifier
  <2>6. token' = [kind |-> "IDENT", first |-> b + (IF "IDENT" = "STRING" THEN 1 ELSE 0),
                  length |-> offset - b - 2 * (IF "IDENT" = "STRING" THEN 1 ELSE 0),
                  number |-> v, line |-> begin.line, column |-> begin.column]
    BY <2>1, <2>5
  <2> HIDE DEF v
  <2>7. QED
    BY <1>0, <1>b, <2>1, <2>3, <2>4, <2>5, <2>6, ReturnRefines DEF p
<1>3. CASE Number
  <2>1. /\ UNCHANGED <<source, begin, token, error>> /\ at = "number" /\ at' = "number"
        /\ offset' = offset + 1 /\ number' = number * 10 + digit
        /\ offset < Len(source) /\ source[offset + 1] \in ascii_digit
    BY <1>3, OctetsSeen DEF Number, advance_regular
  <2>2. InNumber(source, b, offset, number)
    BY <2>1, ScanNow DEF b
  <2>3. /\ \A i \in (b + 1)..(offset + 1) : i \in (b + 1)..offset \/ i = offset + 1
        /\ offset + 1 \in b..Len(source) /\ offset + 1 \in (b + 1)..Len(source)
        /\ (offset + 1) - 1 = offset
    BY <1>0, <2>1, <2>2 DEF InNumber
  <2>4. number' = Grammar!Decimal(source, b, offset + 1)
    <3>1. Grammar!Decimal(source, b, offset + 1)
            = 10 * Grammar!Decimal(source, b, (offset + 1) - 1) + (source[offset + 1] - 48)
      BY <1>0, <2>3, DecimalSteps
    <3>2. Grammar!Decimal(source, b, (offset + 1) - 1) = number /\ number \in Nat
      BY <2>2, <2>3 DEF InNumber, TypeOK
    <3>3. number' = number * 10 + (source[offset + 1] - 48)
      BY <2>1 DEF digit, Octet
    <3>4. source[offset + 1] \in Int
      BY <2>1 DEF ascii_digit
    <3>5. QED
      BY <3>1, <3>2, <3>3, <3>4
  <2>5. InNumber(source, b, offset + 1, number')
    BY <2>1, <2>2, <2>3, <2>4 DEF InNumber
  <2>6. QED
    BY <1>b, <2>1, <2>5, ScanGoes DEF p, b
<1>4. CASE FailNumber
  <2>1. /\ UNCHANGED source /\ at = "number" /\ fail("A0-LEX-0001", begin.line, begin.column)
        /\ offset < Len(source) /\ source[offset + 1] \in ascii_digit /\ Overflows
    BY <1>4, OctetsSeen DEF FailNumber
  <2>2. InNumber(source, b, offset, number)
    BY <2>1, ScanNow DEF b
  <2>3. 10 * number + (source[offset + 1] - 48) > MaxNumber
    <3>1. digit = source[offset + 1] - 48 /\ digit \in 0..9
      BY <2>1 DEF digit, Octet, ascii_digit
    <3>2. number \in Nat /\ MaxNumber \in Nat /\ MaxNumber >= 9
      BY LexerAssumption DEF TypeOK
    <3>3. \A m \in Nat : m \div 10 \in Nat /\ m < 10 * (m \div 10) + 10
      OBVIOUS
    <3>4. PICK q : q = (MaxNumber - digit) \div 10
      OBVIOUS
    <3>5. MaxNumber - digit \in Nat
      BY <3>1, <3>2
    <3>6. q \in Nat /\ MaxNumber - digit < 10 * q + 10
      BY <3>3, <3>4, <3>5
    <3>7. number > q
      BY <2>1, <3>4 DEF Overflows
    <3>8. \A m, n, r \in Nat : m < 10 * r + 10 /\ n > r => 10 * n > m
      OBVIOUS
    <3>9. 10 * number > MaxNumber - digit
      BY <3>2, <3>5, <3>6, <3>7, <3>8
    <3>10. QED
      BY <3>1, <3>2, <3>9
  <2>4. PICK e \in (b + 1)..Len(source) :
          /\ Grammar!NextToken(source, p) = Grammar!Token(source, "NUMBER", b, e)
          /\ Grammar!Decimal(source, b, e) > MaxNumber
    BY <1>0, <1>b, <2>1, <2>2, <2>3, NumberTooLarge
  <2>5. Grammar!Code(source, Grammar!Token(source, "NUMBER", b, e)) = "A0-LEX-0001"
    BY <2>4 DEF Grammar!Code, Grammar!Token
  <2>6. QED
    BY <1>0, <1>b, <2>1, <2>4, <2>5, FailRefines DEF p
<1>5. CASE ReturnNumber
  <2>1. /\ UNCHANGED <<source, offset, error>> /\ at = "number" /\ at' = "idle"
        /\ token' = [kind |-> "NUMBER", first |-> b, length |-> offset - b, number |-> number,
                     line |-> begin.line, column |-> begin.column]
    BY <1>5 DEF ReturnNumber, Returned, b
  <2>2. InNumber(source, b, offset, number) /\ Stops(source, ascii_digit, offset)
    BY <1>5, <1>c, <2>1, ScanNow DEF b, ReturnNumber
  <2>3. Grammar!NextToken(source, p) = Grammar!Token(source, "NUMBER", b, offset)
    BY <1>0, <1>b, <2>2, NumberFound
  <2>4. number = IF "NUMBER" = "NUMBER" THEN Grammar!Decimal(source, b, offset) ELSE 0
    BY <2>2 DEF InNumber
  <2>5. /\ b = b + 0 /\ offset - b = offset - b - 2 * 0
        /\ offset \in b..Len(source) /\ "NUMBER" \in Kinds \cup {"EOF"}
        /\ number \in Nat /\ number <= MaxNumber
    BY <1>0, <2>2 DEF Kinds, InNumber, TypeOK
  <2>6. token' = [kind |-> "NUMBER", first |-> b + (IF "NUMBER" = "STRING" THEN 1 ELSE 0),
                  length |-> offset - b - 2 * (IF "NUMBER" = "STRING" THEN 1 ELSE 0),
                  number |-> number, line |-> begin.line, column |-> begin.column]
    BY <2>1, <2>5
  <2>7. QED
    BY <1>0, <1>b, <2>1, <2>3, <2>4, <2>5, <2>6, ReturnRefines, SMTT(20) DEF p
<1>6. CASE String
  <2>1. /\ UNCHANGED <<source, begin, token, error>> /\ at = "string" /\ at' = "string"
        /\ offset' = offset + 1
        /\ offset < Len(source) /\ source[offset + 1] \in ascii_hex
    BY <1>6, OctetsSeen DEF String, advance_regular
  <2>2. InString(source, b, offset)
    BY <2>1, ScanNow DEF b
  <2>3. /\ \A i \in (b + 2)..(offset + 1) : i \in (b + 2)..offset \/ i = offset + 1
        /\ offset + 1 \in (b + 1)..Len(source)
    BY <1>0, <2>1, <2>2 DEF InString
  <2>4. InString(source, b, offset + 1)
    BY <2>1, <2>2, <2>3 DEF InString
  <2>5. QED
    BY <1>b, <2>1, <2>4, ScanGoes DEF p, b
<1>7. CASE ReturnString
  <2>0. at = "string" /\ ~Sees(ascii_hex) /\ offset # b + 1 /\ Sees({Quote})
    BY <1>7 DEF ReturnString, Closed, b
  <2>1. /\ UNCHANGED <<source, error>> /\ at' = "idle" /\ offset' = offset + 1
        /\ token' = [kind |-> "STRING", first |-> b + 1, length |-> offset - b - 1, number |-> 0,
                     line |-> begin.line, column |-> begin.column]
    BY <1>7 DEF ReturnString, Returned, advance_regular, b, TypeOK, Position
  <2>2. InString(source, b, offset) /\ offset < Len(source) /\ source[offset + 1] = Quote
    BY <2>0, ScanNow, OctetsSeen DEF b
  <2>3. Grammar!NextToken(source, p) = Grammar!Token(source, "STRING", b, offset + 1)
    BY <1>0, <1>b, <2>0, <2>2, StringFound
  <2> DEFINE v == 0
  <2>4. v = IF "STRING" = "NUMBER" THEN Grammar!Decimal(source, b, offset + 1) ELSE 0
    OBVIOUS
  <2>5. /\ offset - b - 1 = (offset + 1) - b - 2 * 1
        /\ offset + 1 \in b..Len(source) /\ "STRING" \in Kinds \cup {"EOF"}
    BY <1>0, <2>2 DEF Kinds, InString
  <2>6. token' = [kind |-> "STRING", first |-> b + (IF "STRING" = "STRING" THEN 1 ELSE 0),
                  length |-> (offset + 1) - b - 2 * (IF "STRING" = "STRING" THEN 1 ELSE 0),
                  number |-> v, line |-> begin.line, column |-> begin.column]
    BY <2>1, <2>5
  <2> HIDE DEF v
  <2>7. QED
    BY <1>0, <1>b, <2>1, <2>3, <2>4, <2>5, <2>6, ReturnRefines DEF p
<1>8. CASE FailString
  <2>1. /\ UNCHANGED source /\ at = "string" /\ fail("A0-LEX-0002", begin.line, begin.column)
        /\ ~Sees(ascii_hex) /\ ~Closed
    BY <1>8 DEF FailString
  <2>2. InString(source, b, offset) /\ Stops(source, ascii_hex, offset)
    BY <1>c, <2>1, ScanNow DEF b
  <2>3. ~(offset # b + 1 /\ offset < Len(source) /\ source[offset + 1] = Quote)
    BY <2>1, OctetsSeen DEF Closed, b
  <2>4. Grammar!NextToken(source, p) = Grammar!Token(source, "NONE", b, b)
    BY <1>0, <1>b, <2>2, <2>3, StringBroken
  <2>5. Grammar!Code(source, Grammar!Token(source, "NONE", b, b)) = "A0-LEX-0002"
    <3>1. source[b + 1] = 34 /\ b + 0 = b
      BY <1>0, <2>2 DEF InString, Quote
    <3>2. QED
      BY <3>1 DEF Grammar!Code, Grammar!Token
  <2>6. QED
    BY <1>0, <1>b, <2>1, <2>4, <2>5, FailRefines DEF p
<1>9. QED
  BY <1>1, <1>2, <1>3, <1>4, <1>5, <1>6, <1>7, <1>8

LEMMA NextRefines ==
  TypeOK /\ LineAndColumn /\ ScanInv /\ [Next]_vars
    => ScanInv' /\ [Grammar!Deliver \/ Grammar!Again]_(Grammar!grammarVars)
<1>1. ASSUME TypeOK, LineAndColumn, ScanInv, Next PROVE Refines
  BY <1>1, TriviaRefines, FirstRefines, LoopRefines DEF Next, Step
<1>2. ASSUME ScanInv, UNCHANGED vars PROVE Refines
  <2>1. UNCHANGED <<source, offset, at, begin, number, token, error>>
    BY <1>2 DEF vars
  <2>2. Scanned(source', offset', at', begin', number', token', error')
    BY <1>2, <2>1 DEF ScanInv
  <2>3. QED
    BY <2>1, <2>2, ScanNext DEF Refines, Refined
<1>3. Refines => ScanInv' /\ [Grammar!Deliver \/ Grammar!Again]_(Grammar!grammarVars)
  BY DEF Refines, Refined, Grammar!grammarVars
<1>4. QED
  BY <1>1, <1>2, <1>3

\* The lexer implements its grammar, for every source: what seki_lexer_next returns
\* is the longest token after the blanks, line ends and comments that follow the
\* last one, with its value, line and column, or the failure the grammar has there;
\* and after a failure, only that it failed before.
THEOREM GrammarIsImplemented == Spec => ImplementsGrammar
<1>1. Init => TypeOK /\ LineAndColumn /\ ScanInv /\ Grammar!Init
  BY InitTypeOK, InitCounted, ScanInit
<1>2. TypeOK /\ LineAndColumn /\ ScanInv /\ [Next]_vars
        => (TypeOK /\ LineAndColumn /\ ScanInv)'
  BY NextTypeOK, NextCounted, NextRefines
<1>3. QED
  BY <1>1, <1>2, NextRefines, PTL DEF Spec, ImplementsGrammar, Grammar!Spec

-----------------------------------------------------------------------------
(***************************************************************************)
(* Termination: what is left to do of a call.  Every loop but two passes   *)
(* an octet; a comment is opened in front of its first octet and closed    *)
(* in front of a line end.                                                 *)
(***************************************************************************)
InsideComment(s, o) == o < Len(s) /\ s[o + 1] \notin {CR, LF}

RankAt(s, o, a) ==
  IF a = "idle" THEN 0
  ELSE IF a = "trivia" THEN 2
  ELSE IF a = "comment" /\ ~InsideComment(s, o) THEN 3
  ELSE 1

WorkAt(s, o, a) == 4 * (Len(s) - o) + RankAt(s, o, a)

Work == WorkAt(source, offset, at)

LEMMA RankType ==
  ASSUME NEW s, NEW o, NEW a
  PROVE  RankAt(s, o, a) \in 0..3 /\ (a # "idle" => RankAt(s, o, a) \in 1..3)
  BY DEF RankAt

LEMMA WorkType ==
  ASSUME NEW s, Len(s) \in Nat, NEW o \in 0..Len(s), NEW a
  PROVE  WorkAt(s, o, a) \in 0..(4 * Len(s) + 3)
<1>1. PICK r \in 0..3 : r = RankAt(s, o, a)
  BY RankType
<1>2. PICK l \in Nat : l = Len(s)
  OBVIOUS
<1>3. 4 * (l - o) + r \in 0..(4 * l + 3)
  BY <1>2
<1>4. QED
  BY <1>1, <1>2, <1>3 DEF WorkAt

\* A step that passes an octet, whatever loop comes next.
LEMMA ForwardFalls ==
  ASSUME TypeOK, at # "idle", UNCHANGED source,
         offset' \in 0..Len(source), offset' >= offset + 1
  PROVE  Work' < Work
<1>1. PICK l \in Nat, o \in Nat, n \in Nat :
        l = Len(source) /\ o = offset /\ n = offset' /\ n >= o + 1 /\ n <= l
  BY SourceType DEF TypeOK
<1>2. PICK r \in 1..3 : r = RankAt(source, offset, at)
  BY RankType
<1>3. PICK q \in 0..3 : q = RankAt(source', offset', at')
  BY RankType
<1>4. 4 * (l - n) + q < 4 * (l - o) + r
  BY <1>1
<1>5. QED
  BY <1>1, <1>2, <1>3, <1>4 DEF Work, WorkAt

\* A step that passes none goes from one loop to another.
LEMMA StillFalls ==
  ASSUME TypeOK, UNCHANGED source, UNCHANGED offset,
         RankAt(source, offset, at') < RankAt(source, offset, at)
  PROVE  Work' < Work
<1>1. PICK l \in Nat, o \in Nat : l = Len(source) /\ o = offset
  BY SourceType DEF TypeOK
<1>2. PICK r \in 0..3 : r = RankAt(source, offset, at)
  BY RankType
<1>3. PICK q \in 0..3 : q = RankAt(source, offset, at')
  BY RankType
<1>4. q < r => 4 * (l - o) + q < 4 * (l - o) + r
  BY <1>1
<1>5. QED
  BY <1>1, <1>2, <1>3, <1>4 DEF Work, WorkAt

LEMMA SeenForward ==
  ASSUME TypeOK, More, advance_regular
  PROVE  offset' \in 0..Len(source) /\ offset' >= offset + 1
  BY SourceType DEF TypeOK, More, advance_regular

LEMMA TriviaFalls ==
  ASSUME TypeOK, SkipBlank \/ SkipReturn \/ SkipLineFeed \/ OpenComment \/ SkipComment
  PROVE  Work' < Work
<1>0. Len(source) \in Nat /\ offset \in 0..Len(source)
  BY SourceType DEF TypeOK
<1>1. CASE SkipBlank
  BY <1>1, SeenForward, ForwardFalls DEF SkipBlank, Sees
<1>2. CASE SkipReturn
  <2>1. offset' = offset + 1 \/ (offset' = offset + 2 /\ offset + 1 < Len(source))
    BY <1>2 DEF SkipReturn, NextLine, SeesPair
  <2>2. offset < Len(source) /\ at # "idle" /\ UNCHANGED source
    BY <1>2 DEF SkipReturn, Sees, More
  <2>3. QED
    BY <1>0, <2>1, <2>2, ForwardFalls
<1>3. CASE SkipLineFeed
  <2>1. offset' = offset + 1 /\ offset < Len(source) /\ at # "idle" /\ UNCHANGED source
    BY <1>3 DEF SkipLineFeed, NextLine, Sees, More
  <2>2. QED
    BY <1>0, <2>1, ForwardFalls
<1>4. CASE OpenComment
  <2>1. InsideComment(source, offset)
    BY <1>0, <1>4 DEF OpenComment, Commented, SeesPair, Octet, InsideComment, Semicolon, CR, LF
  <2>2. RankAt(source, offset, at') = 1 /\ RankAt(source, offset, at) = 2
    BY <1>4, <2>1 DEF OpenComment, Went, RankAt
  <2>3. QED
    BY <1>4, <2>2, StillFalls DEF OpenComment
<1>5. CASE SkipComment
  <2>1. CASE More /\ Octet \notin {CR, LF}
    BY <1>5, <2>1, SeenForward, ForwardFalls DEF SkipComment
  <2>2. CASE ~(More /\ Octet \notin {CR, LF})
    <3>1. ~InsideComment(source, offset)
      BY <2>2 DEF InsideComment, More, Octet
    <3>2. at = "comment" /\ at' = "trivia" /\ UNCHANGED <<source, offset>>
      BY <1>5, <2>2 DEF SkipComment
    <3>3. RankAt(source, offset, at') = 2 /\ RankAt(source, offset, at) = 3
      BY <3>1, <3>2 DEF RankAt
    <3>4. QED
      BY <3>2, <3>3, StillFalls
  <2>3. QED
    BY <2>1, <2>2
<1>6. QED
  BY <1>1, <1>2, <1>3, <1>4, <1>5

\* A return ranks below every loop, and the loop of a token below the trivia.
LEMMA ReturnFalls ==
  ASSUME TypeOK, at # "idle", at' = "idle", UNCHANGED <<source, offset>>
  PROVE  Work' < Work
<1>1. RankAt(source, offset, at') = 0 /\ RankAt(source, offset, at) \in 1..3
  BY RankType DEF RankAt
<1>2. QED
  BY <1>1, StillFalls

LEMMA FirstFalls ==
  ASSUME TypeOK,
         \/ ReturnEnd \/ StartIdentifier \/ StartNumber \/ StartString
         \/ ReturnPair \/ ReturnMark \/ FailToken
  PROVE  Work' < Work
<1>0. Len(source) \in Nat /\ offset \in 0..Len(source)
  BY SourceType DEF TypeOK
<1>1. CASE ReturnEnd
  BY <1>1, ReturnFalls DEF ReturnEnd, Significant, Returned
<1>2. CASE StartIdentifier
  BY <1>2, SeenForward, ForwardFalls DEF StartIdentifier, Significant, Sees
<1>3. CASE StartNumber
  <2>1. RankAt(source, offset, at') = 1 /\ RankAt(source, offset, at) = 2
    BY <1>3 DEF StartNumber, Significant, Went, RankAt
  <2>2. QED
    BY <1>3, <2>1, StillFalls DEF StartNumber
<1>4. CASE StartString
  BY <1>4, SeenForward, ForwardFalls DEF StartString, Significant, Sees
<1>5. CASE ReturnPair
  <2>1. /\ offset' = offset + 2 /\ offset + 1 < Len(source)
        /\ at # "idle" /\ UNCHANGED source
    BY <1>5 DEF ReturnPair, Significant, SeesPair
  <2>2. QED
    BY <1>0, <2>1, ForwardFalls
<1>6. CASE ReturnMark
  BY <1>6, SeenForward, ForwardFalls DEF ReturnMark, Significant, Sees
<1>7. CASE FailToken
  <2>1. CASE Sees({Equals, Bang, Ampersand})
    BY <1>7, <2>1, SeenForward, ForwardFalls DEF FailToken, Significant, Sees
  <2>2. CASE ~Sees({Equals, Bang, Ampersand})
    BY <1>7, <2>2, ReturnFalls DEF FailToken, Significant, fail
  <2>3. QED
    BY <2>1, <2>2
<1>8. QED
  BY <1>1, <1>2, <1>3, <1>4, <1>5, <1>6, <1>7

LEMMA LoopFalls ==
  ASSUME TypeOK,
         \/ Identifier \/ ReturnIdentifier
         \/ Number \/ FailNumber \/ ReturnNumber
         \/ String \/ ReturnString \/ FailString
  PROVE  Work' < Work
<1>1. CASE Identifier
  BY <1>1, SeenForward, ForwardFalls DEF Identifier, Sees
<1>2. CASE Number
  BY <1>2, SeenForward, ForwardFalls DEF Number, Sees
<1>3. CASE String
  BY <1>3, SeenForward, ForwardFalls DEF String, Sees
<1>4. CASE ReturnString
  BY <1>4, SeenForward, ForwardFalls DEF ReturnString, Closed, Sees
<1>5. CASE ReturnIdentifier \/ ReturnNumber
  BY <1>5, ReturnFalls DEF ReturnIdentifier, ReturnNumber, Returned
<1>6. CASE FailNumber \/ FailString
  BY <1>6, ReturnFalls DEF FailNumber, FailString, fail
<1>7. QED
  BY <1>1, <1>2, <1>3, <1>4, <1>5, <1>6

\* seki_lexer_next returns after at most 4n + 3 iterations of its loops for a
\* source of n octets, whatever they are: every one of them leaves less to do, and
\* there is never more to do than that.
CallsAreBounded ==
  [][at # "idle" => /\ Work \in 0..(4 * Len(source) + 3)
                    /\ Work' \in 0..(Work - 1)]_vars

THEOREM CallsBounded == Spec => CallsAreBounded
<1>1. ASSUME TypeOK, TypeOK', Next, at # "idle"
      PROVE  /\ Work \in 0..(4 * Len(source) + 3)
             /\ Work' \in 0..(Work - 1)
  <2>1. Step
    BY <1>1 DEF Next, Call
  <2>2. Work' < Work
    BY <1>1, <2>1, TriviaFalls, FirstFalls, LoopFalls DEF Step
  <2>3. Len(source) \in Nat /\ Work \in 0..(4 * Len(source) + 3)
    BY <1>1, SourceType, WorkType DEF TypeOK, Work
  <2>4. Work' \in Nat
    <3>1. UNCHANGED source /\ offset' \in 0..Len(source')
      BY <1>1 DEF TypeOK, Next, Step, Call, SkipBlank, SkipReturn, SkipLineFeed,
                  OpenComment, SkipComment, ReturnEnd, StartIdentifier, StartNumber,
                  StartString, ReturnPair, ReturnMark, FailToken, Identifier,
                  ReturnIdentifier, Number, FailNumber, ReturnNumber, String,
                  ReturnString, FailString
    <3>2. WorkAt(source', offset', at') \in 0..(4 * Len(source') + 3)
      BY <2>3, <3>1, WorkType
    <3>3. QED
      BY <2>3, <3>1, <3>2 DEF Work
  <2>5. QED
    BY <2>2, <2>3, <2>4
<1>2. TypeOK /\ TypeOK' /\ [Next]_vars
        => [at # "idle" => /\ Work \in 0..(4 * Len(source) + 3)
                           /\ Work' \in 0..(Work - 1)]_vars
  BY <1>1
<1>3. QED
  BY <1>2, InitTypeOK, NextTypeOK, PTL DEF Spec, CallsAreBounded
=============================================================================
