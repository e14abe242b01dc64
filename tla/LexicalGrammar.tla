----------------------------- MODULE LexicalGrammar -----------------------------
(***************************************************************************)
(* What the lexer promises, without a loop: between two tokens is nothing  *)
(* but blanks, line ends and comments, and the next token is the longest   *)
(* that starts there.  Lexer implements this.                              *)
(***************************************************************************)
EXTENDS Integers, SequencesExt

CONSTANTS Sources, MaxNumber

VARIABLES source, token, error

grammarVars == <<source, token, error>>

Letter == (97..122) \cup (65..90) \cup {95}
Digit == 48..57
Hex == Digit \cup (97..102) \cup (65..70)
Blank == {9, 32}
LineEnd == {10, 13}

\* . , @ { } [ ] ( ) + * / % : - < > | and :: := -> <= >= == != && ||
Marks == {<<c>> : c \in {46, 44, 64, 123, 125, 91, 93, 40, 41, 43, 42, 47, 37,
                         58, 45, 60, 62, 124}}
           \cup {<<58, 58>>, <<58, 61>>, <<45, 62>>, <<60, 61>>, <<62, 61>>, <<61, 61>>,
                 <<33, 61>>, <<38, 38>>, <<124, 124>>}

-----------------------------------------------------------------------------
\* Octet i of a text that starts at octet from, with no token before it.
Trivial(s, from, i) ==
  \/ s[i] \in Blank \cup LineEnd
  \/ \E q \in from..i : /\ q < Len(s) /\ s[q] = 59 /\ s[q + 1] = 59
                        /\ \A r \in q..i : s[r] \notin LineEnd

\* The offset of what comes next after offset p.
Skipped(s, p) ==
  Max({t \in p..Len(s) : \A i \in (p + 1)..t : Trivial(s, p + 1, i)})

\* The octets from offset b up to offset e are a token of the kind.
Is(kind, s, b, e) ==
  LET text == SubSeq(s, b + 1, e)
  IN CASE kind = "IDENT"  -> text[1] \in Letter /\ ToSet(text) \subseteq Letter \cup Digit
       [] kind = "NUMBER" -> ToSet(text) \subseteq Digit
       [] kind = "STRING" -> /\ Len(text) > 2 /\ text[1] = 34 /\ text[Len(text)] = 34
                             /\ \A i \in 2..(Len(text) - 1) : text[i] \in Hex
       [] kind = "MARK"   -> text \in Marks

Candidates(s, b) ==
  {x \in {"IDENT", "NUMBER", "STRING", "MARK"} \X ((b + 1)..Len(s)) : Is(x[1], s, b, x[2])}

Longest(S) == CHOOSE x \in S : \A y \in S : y[2] <= x[2]

\* The value of the octets from offset b up to offset e, read as digits.
Decimal(s, b, e) ==
  LET value[n \in b..Len(s)] == IF n = b THEN 0 ELSE 10 * value[n - 1] + (s[n] - 48)
  IN value[e]

-----------------------------------------------------------------------------
\* Where the offset p is: the line ends before it, CR LF being one.
Ends(s, p) == {i \in 1..p : /\ s[i] \in LineEnd
                            /\ ~(s[i] = 13 /\ i < Len(s) /\ s[i + 1] = 10)}

LineOf(s, p) == 1 + Cardinality(Ends(s, p))
ColumnOf(s, p) == p + 1 - Max({0} \cup Ends(s, p))

\* The token of a kind between two offsets: a string without its quotes.
Token(s, kind, b, e) ==
  LET inside == IF kind = "STRING" THEN 1 ELSE 0
  IN [kind |-> kind, first |-> b + inside, length |-> e - b - 2 * inside,
      number |-> IF kind = "NUMBER" THEN Decimal(s, b, e) ELSE 0,
      line |-> LineOf(s, b), column |-> ColumnOf(s, b)]

\* The offset after a token.
Behind(t) == t.first + t.length + (IF t.kind = "STRING" THEN 1 ELSE 0)

NextToken(s, p) ==
  LET b == Skipped(s, p)
      found == Candidates(s, b)
  IN IF b = Len(s) THEN Token(s, "EOF", b, b)
     ELSE IF found = {} THEN Token(s, "NONE", b, b)
     ELSE Token(s, Longest(found)[1], b, Longest(found)[2])

Code(s, t) ==
  IF t.kind = "NUMBER" /\ t.number > MaxNumber THEN "A0-LEX-0001"
  ELSE IF t.kind # "NONE" THEN "ok"
  ELSE IF s[t.first + 1] = 34 THEN "A0-LEX-0002" ELSE "A0-LEX-0003"

-----------------------------------------------------------------------------
Init ==
  /\ source \in Sources
  /\ token = [kind |-> "NONE", first |-> 0, length |-> 0, number |-> 0, line |-> 1,
              column |-> 1]
  /\ error = [code |-> "ok", line |-> 1, column |-> 1]

\* The next token, unless there is none or its value is too large.
Deliver ==
  /\ error.code = "ok"
  /\ LET t == NextToken(source, Behind(token))
     IN IF Code(source, t) = "ok" THEN token' = t /\ UNCHANGED error
        ELSE /\ error' = [code |-> Code(source, t), line |-> t.line, column |-> t.column]
             /\ UNCHANGED token
  /\ UNCHANGED source

\* Asked once more after a failure; where it then points is left open.
Again ==
  /\ error.code # "ok"
  /\ error'.code = "A0-LEX-0004"
  /\ UNCHANGED <<source, token>>

Spec == Init /\ [][Deliver \/ Again]_grammarVars
=============================================================================
