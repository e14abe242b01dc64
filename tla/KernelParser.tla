---------------------------- MODULE KernelParser ----------------------------
(***************************************************************************)
(* The recursive descent over one kernel body                              *)
(* (src/src/alpha/seki_parser.c, parse_kernel_tail and the expression      *)
(* levels below it), as a machine with an explicit stack: one frame per    *)
(* active production, one step per call, return or loop iteration.         *)
(*                                                                         *)
(* The source is whatever makes the next step possible: at every point     *)
(* where the parser looks at a token, each construct the grammar allows    *)
(* there may come next, or something it does not.  Expressions, match arms *)
(* and field initialisers go to three arenas of fixed capacity which all   *)
(* constructs of the kernel share; an expression keeps the number of its   *)
(* first arm or field and how many there are.                              *)
(***************************************************************************)
EXTENDS Naturals, Sequences, FiniteSets

CONSTANTS
  MaxNesting,      \* SEKI_MAX_NESTING
  MaxExpressions,  \* SEKI_KERNEL_MAX_EXPRESSIONS
  MaxFields,       \* SEKI_KERNEL_MAX_RECORD_FIELDS
  MaxArms,         \* SEKI_KERNEL_MAX_MATCH_ARMS
  FieldNames,      \* the names a field initialiser may have
  CaseNames,       \* the names a match arm may have
  Variants,        \* the variants a scrutinee may have: their sets of cases
  Families         \* sets of constructs: a source contains those of one

ASSUME CapacityAssumption ==
  /\ MaxNesting \in Nat
  /\ MaxExpressions \in Nat
  /\ MaxFields \in Nat
  /\ MaxArms \in Nat
  /\ \A v \in Variants : v \subseteq CaseNames

(***************************************************************************)
(* enum seki_expression_kind; the four kinds without operands are one.     *)
(***************************************************************************)
Kinds == {"leaf", "field", "compare", "and", "or", "record",
          "match", "let", "require", "accept", "reject", "if"}

\* The frames whose production has entered a level of nesting.
Holders == {"paren", "record", "record_field", "match", "arms", "arm", "let",
            "require", "require_ready", "accept", "reject", "if"}

Labels == Holders \cup {"body", "tail", "primary", "projection", "compare",
                        "and", "or", "payload_entry", "payload",
                        "payload_field"}

VARIABLES
  forms,        \* the constructs that occur in this source
  phase,        \* "parse", "done", "failed", "overrun"
  code,         \* the first diagnostic
  depth,        \* parser->depth
  expressions,  \* kernel->expressions
  fields,       \* kernel->record_fields
  arms,         \* kernel->match_arms
  stack         \* the active productions, the innermost last

vars == <<forms, phase, code, depth, expressions, fields, arms, stack>>

Codes == {"none", "syntax", "A0-PARSE-0030", "A0-PARSE-0035", "A0-PARSE-0036",
          "A0-PARSE-0037", "A0-PARSE-0040"}

(***************************************************************************)
(* A frame: where its production stands, the expressions its calls have    *)
(* returned, and what it remembers of an open range, name or variant.      *)
(***************************************************************************)
Frame == [at : Labels, children : Seq(Nat), first : Nat, count : Nat,
          name : FieldNames \cup CaseNames \cup {"none"},
          variant : Variants \cup {{}}]

At(label) == [at |-> label, children |-> <<>>, first |-> 0, count |-> 0,
              name |-> "none", variant |-> {}]

Expression == [kind : Kinds, children : Seq(Nat), first : Nat, count : Nat,
               variant : Variants \cup {{}}]

TypeOK ==
  /\ forms \in Families
  /\ phase \in {"parse", "done", "failed", "overrun"}
  /\ code \in Codes
  /\ depth \in 0..MaxNesting
  /\ expressions \in Seq(Expression) /\ Len(expressions) <= MaxExpressions
  /\ fields \in Seq([name : FieldNames, value : Nat])
  /\ arms \in Seq([item : CaseNames, body : Nat])
  /\ stack \in Seq(Frame)

Init ==
  /\ forms \in Families
  /\ phase = "parse"
  /\ code = "none"
  /\ depth = 0
  /\ expressions = <<>>
  /\ fields = <<>>
  /\ arms = <<>>
  /\ stack = <<At("body"), At("tail")>>

(***************************************************************************)
(* The stack.                                                              *)
(***************************************************************************)
Top == stack[Len(stack)]

Callers == SubSeq(stack, 1, Len(stack) - 1)

\* The innermost frame becomes f and calls the productions of s.
Call(f, s) == Append(Callers, f) \o s

\* The innermost production returns expression e to its caller.
Return(e) ==
  [Callers EXCEPT ![Len(Callers)].children = Append(@, e)]

\* parse_value_expression calls down through the levels at once.
Value == <<At("or"), At("and"), At("compare"), At("projection"), At("primary")>>

\* The productions called for the right operand of an operator.
Operand(level) ==
  CASE level = "or"      -> SubSeq(Value, 2, 5)
    [] level = "and"     -> SubSeq(Value, 3, 5)
    [] level = "compare" -> SubSeq(Value, 4, 5)

Running(label) == phase = "parse" /\ Top.at = label

Returned(n) == Len(Top.children) = n

(***************************************************************************)
(* parser_fail.  A parser that has failed neither advances nor adds        *)
(* anything, so the productions that are still active only return.         *)
(***************************************************************************)
Fail(c) ==
  /\ phase' = "failed"
  /\ code' = c
  /\ UNCHANGED <<forms, depth, expressions, fields, arms>>

\* enter_nesting: c continues one level deeper.
EnterNesting(s) ==
  \/ /\ depth < MaxNesting
     /\ depth' = depth + 1
     /\ stack' = s
     /\ UNCHANGED <<forms, phase, code, expressions, fields, arms>>
  \/ /\ depth = MaxNesting
     /\ Fail("A0-PARSE-0035")
     /\ UNCHANGED stack

\* Mutant of New: the count after the node is stored, as a number from zero.
NewAfter == Len(expressions) + 2

\* The number the next expression gets.
New == Len(expressions) + 1

Node(kind, f) ==
  [kind |-> kind, children |-> f.children, first |-> f.first,
   count |-> f.count, variant |-> f.variant]

\* Mutant of add_expression: the capacity is not looked at.
add_expression_over(e, d, s) ==
  /\ expressions' = Append(expressions, e)
  /\ depth' = d
  /\ stack' = s
  /\ UNCHANGED <<forms, phase, code, fields, arms>>

\* add_expression, with the nesting depth and the stack that follow it.
add_expression(e, d, s) ==
  \/ /\ Len(expressions) < MaxExpressions
     /\ expressions' = Append(expressions, e)
     /\ depth' = d
     /\ stack' = s
     /\ UNCHANGED <<forms, phase, code, fields, arms>>
  \/ /\ Len(expressions) = MaxExpressions
     /\ Fail("A0-PARSE-0030")
     /\ UNCHANGED stack

Goto(s) ==
  /\ stack' = s
  /\ UNCHANGED <<forms, phase, code, depth, expressions, fields, arms>>

(***************************************************************************)
(* parse_primary_expression.                                               *)
(***************************************************************************)
\* A number, true, false, unit or a value name.
Leaf ==
  /\ Running("primary")
  /\ add_expression(Node("leaf", Top), depth, Return(New))

OpenParen ==
  /\ Running("primary")
  /\ "paren" \in forms
  /\ EnterNesting(Call(At("paren"), Value))

CloseParen ==
  /\ Running("paren")
  /\ depth' = depth - 1
  /\ stack' = Return(Top.children[1])
  /\ UNCHANGED <<forms, phase, code, expressions, fields, arms>>

OpenRecord ==
  /\ Running("primary")
  /\ "record" \in forms
  /\ EnterNesting(Call([At("record") EXCEPT !.first = Len(fields)], <<>>))

(***************************************************************************)
(* The initialisers of a record literal and of a rejection payload: the    *)
(* two loops differ in where they are called from.                         *)
(***************************************************************************)
InFields == {"record", "payload"}

Repeats(n) == \E k \in (Top.first + 1)..Len(fields) : fields[k].name = n

FieldOpen ==
  /\ phase = "parse"
  /\ Top.at \in InFields
  /\ \/ /\ Len(fields) = MaxFields
        /\ Fail("A0-PARSE-0036")
        /\ UNCHANGED stack
     \/ /\ Len(fields) # MaxFields
        /\ \E n \in FieldNames :
             \/ /\ Repeats(n)
                /\ Fail("A0-PARSE-0037")
                /\ stack' = Append(Callers, [Top EXCEPT !.name = n])
             \/ /\ ~Repeats(n)
                /\ Goto(Call([Top EXCEPT !.name = n,
                                         !.at = IF Top.at = "record"
                                                THEN "record_field"
                                                ELSE "payload_field"],
                             Value))

\* The entry is stored without a second look at the capacity: with the
\* arena full it goes past its end, and what happens then is not defined.
FieldClose ==
  /\ phase = "parse"
  /\ Top.at \in {"record_field", "payload_field"}
  /\ \/ /\ Len(fields) < MaxFields
        /\ fields' = Append(fields, [name |-> Top.name, value |-> Top.children[1]])
        /\ stack' = Append(Callers,
             [Top EXCEPT !.at = IF @ = "record_field" THEN "record" ELSE "payload",
                         !.children = <<>>, !.name = "none"])
        /\ UNCHANGED <<forms, phase, code, depth, expressions, arms>>
     \/ /\ Len(fields) >= MaxFields
        /\ phase' = "overrun"
        /\ UNCHANGED <<forms, code, depth, expressions, fields, arms, stack>>

RecordClose ==
  /\ Running("record")
  /\ add_expression(Node("record", [Top EXCEPT !.count = Len(fields) - Top.first]),
                    depth - 1, Return(New))

\* parse_rejection_payload: without a parenthesis the range is empty.
PayloadAbsent ==
  /\ Running("payload_entry")
  /\ Goto([Callers EXCEPT ![Len(Callers)].first = Len(fields),
                          ![Len(Callers)].count = 0])

PayloadOpen ==
  /\ Running("payload_entry")
  /\ "payload" \in forms
  /\ Goto(Call([At("payload") EXCEPT !.first = Len(fields)], <<>>))

PayloadClose ==
  /\ Running("payload")
  /\ Goto([Callers EXCEPT ![Len(Callers)].first = Top.first,
                          ![Len(Callers)].count = Len(fields) - Top.first])

(***************************************************************************)
(* The levels above: parse_projection_expression,                          *)
(* parse_comparison_expression, parse_conjunction_expression and           *)
(* parse_value_expression.                                                 *)
(***************************************************************************)
Project ==
  /\ Running("projection")
  /\ "field" \in forms
  /\ add_expression(Node("field", Top), depth,
                    Append(Callers, [Top EXCEPT !.children = <<New>>]))

Operator ==
  /\ phase = "parse"
  /\ Top.at \in {"compare", "and", "or"} \cap forms
  /\ Returned(1)
  /\ Goto(Call(Top, Operand(Top.at)))

\* Mutant of Combine: the operands are folded into the left one, and the
\* entries of the right one are given back to the arena.
CombineFolds ==
  /\ phase = "parse"
  /\ Top.at \in {"compare", "and", "or"}
  /\ Returned(2)
  /\ expressions' = SubSeq(expressions, 1, Top.children[1])
  /\ stack' = Append(Callers, [Top EXCEPT !.children = <<@[1]>>])
  /\ UNCHANGED <<forms, phase, code, depth, fields, arms>>

\* Comparison does not chain; the other two go round again.
Combine ==
  /\ phase = "parse"
  /\ Top.at \in {"compare", "and", "or"}
  /\ Returned(2)
  /\ add_expression(Node(Top.at, Top), depth,
       IF Top.at = "compare" THEN Return(New)
       ELSE Append(Callers, [Top EXCEPT !.children = <<New>>]))

LevelDone ==
  /\ phase = "parse"
  /\ Top.at \in {"projection", "compare", "and", "or"}
  /\ Returned(1)
  /\ Goto(Return(Top.children[1]))

(***************************************************************************)
(* parse_kernel_tail.                                                      *)
(***************************************************************************)
KernelTail ==
  /\ Running("tail")
  /\ \/ \E form \in {"let", "require", "accept", "if"} \cap forms :
          EnterNesting(Call(At(form), Value))
     \/ /\ "reject" \in forms
        /\ EnterNesting(Call(At("reject"), <<At("payload_entry")>>))
     \/ /\ "match" \in forms
        /\ \E v \in Variants :
             EnterNesting(Call([At("match") EXCEPT !.variant = v], Value))

\* match.first is taken when the scrutinee has been parsed.
MatchOpen ==
  /\ Running("match")
  /\ Goto(Append(Callers, [Top EXCEPT !.at = "arms", !.first = Len(arms)]))

\* Mutant of ArmOpen: the capacity is not looked at before the arm.
ArmOpenUnchecked ==
  /\ Running("arms")
  /\ \E c \in CaseNames :
       Goto(Call([Top EXCEPT !.at = "arm", !.name = c], <<At("tail")>>))

ArmOpen ==
  /\ Running("arms")
  /\ \/ /\ Len(arms) = MaxArms
        /\ Fail("A0-PARSE-0040")
        /\ UNCHANGED stack
     \/ /\ Len(arms) # MaxArms
        /\ \E c \in CaseNames :
             Goto(Call([Top EXCEPT !.at = "arm", !.name = c], <<At("tail")>>))

\* Mutant of ArmClose: the arm runs what the match selects on.
ArmCloseScrutinee ==
  /\ Running("arm")
  /\ Len(arms) < MaxArms
  /\ arms' = Append(arms, [item |-> Top.name, body |-> Top.children[1]])
  /\ stack' = Append(Callers, [Top EXCEPT !.at = "arms", !.name = "none",
                                          !.children = <<@[1]>>])
  /\ UNCHANGED <<forms, phase, code, depth, expressions, fields>>

\* As with fields, the arms of the body have been stored in the meantime.
ArmClose ==
  /\ Running("arm")
  /\ \/ /\ Len(arms) < MaxArms
        /\ arms' = Append(arms, [item |-> Top.name, body |-> Top.children[2]])
        /\ stack' = Append(Callers, [Top EXCEPT !.at = "arms", !.name = "none",
                                                !.children = <<@[1]>>])
        /\ UNCHANGED <<forms, phase, code, depth, expressions, fields>>
     \/ /\ Len(arms) >= MaxArms
        /\ phase' = "overrun"
        /\ UNCHANGED <<forms, code, depth, expressions, fields, arms, stack>>

MatchClose ==
  /\ Running("arms")
  /\ add_expression(Node("match", [Top EXCEPT !.count = Len(arms) - Top.first]),
                    depth - 1, Return(New))

\* require: the payload stands between the condition and the continuation.
RequirePayload ==
  /\ Running("require")
  /\ Goto(Call([Top EXCEPT !.at = "require_ready"], <<At("payload_entry")>>))

\* How many calls a tail makes for expressions.
Arity(label) ==
  CASE label = "reject" -> 0
    [] label = "accept" -> 1
    [] label \in {"let", "require_ready"} -> 2
    [] label = "if" -> 3

TailLabels == {"let", "require_ready", "if", "accept", "reject"}

\* The rest of a let or a require, the two blocks of a conditional.
Continue ==
  /\ phase = "parse"
  /\ Top.at \in TailLabels
  /\ Len(Top.children) < Arity(Top.at)
  /\ Goto(Call(Top, <<At("tail")>>))

\* Mutant of Finish: the level of nesting is not left.
FinishInside ==
  /\ phase = "parse"
  /\ Top.at \in TailLabels
  /\ Returned(Arity(Top.at))
  /\ add_expression(Node(IF Top.at = "require_ready" THEN "require" ELSE Top.at,
                         Top),
                    depth, Return(New))

Finish ==
  /\ phase = "parse"
  /\ Top.at \in TailLabels
  /\ Returned(Arity(Top.at))
  /\ add_expression(Node(IF Top.at = "require_ready" THEN "require" ELSE Top.at,
                         Top),
                    depth - 1, Return(New))

\* parse_kernel_body has its root.
BodyClose ==
  /\ Running("body")
  /\ phase' = "done"
  /\ UNCHANGED <<forms, code, depth, expressions, fields, arms, stack>>

\* The next token is none the production accepts, or not a token at all.
SyntaxError ==
  /\ phase = "parse"
  /\ Fail("syntax")
  /\ UNCHANGED stack

Next ==
  \/ Leaf \/ OpenParen \/ CloseParen \/ OpenRecord
  \/ FieldOpen \/ FieldClose \/ RecordClose
  \/ PayloadAbsent \/ PayloadOpen \/ PayloadClose
  \/ Project \/ Operator \/ Combine \/ LevelDone
  \/ KernelTail \/ MatchOpen \/ ArmOpen \/ ArmClose \/ MatchClose
  \/ RequirePayload \/ Continue \/ Finish \/ BodyClose \/ SyntaxError

Spec == Init /\ [][Next]_vars

FairSpec == Spec /\ WF_vars(Next)

-----------------------------------------------------------------------------
(***************************************************************************)
(* What an expression refers to.  Written are the arms or fields that      *)
(* stand in the construct itself, without those of the constructs inside.  *)
(***************************************************************************)
Numbers == 1..Len(expressions)

Slots(i) == (expressions[i].first + 1)..(expressions[i].first + expressions[i].count)

IsMatch(i) == expressions[i].kind = "match"

Written(i) ==
  Slots(i) \ UNION {Slots(j) : j \in {k \in 1..(i - 1) : IsMatch(k) = IsMatch(i)}}

References(i, slots) ==
  {expressions[i].children[k] : k \in DOMAIN expressions[i].children}
  \cup IF IsMatch(i) THEN {arms[k].body : k \in slots}
                     ELSE {fields[k].value : k \in slots}

Parents(c) == {i \in Numbers : c \in References(i, Written(i))}

\* The test check_kernel_tail makes of a match: as many arms as cases, and
\* every case among them once (seki_checker.c:763-784).
CheckedExhaustive(i) ==
  /\ Cardinality(expressions[i].variant) = expressions[i].count
  /\ \A c \in expressions[i].variant :
       Cardinality({k \in Slots(i) : arms[k].item = c}) = 1

(***************************************************************************)
(* Every expression refers only to expressions stored before it, through   *)
(* its operands and through every arm and field of its range.  All later   *)
(* passes recurse along these numbers with no other bound.                 *)
(***************************************************************************)
ChildrenPrecede ==
  \A i \in Numbers :
    /\ Slots(i) \subseteq IF IsMatch(i) THEN DOMAIN arms ELSE DOMAIN fields
    /\ \A c \in References(i, Slots(i)) : c \in 1..(i - 1)

(***************************************************************************)
(* A finished body is a tree: the last expression is its root, and every   *)
(* other one is written in exactly one place.                              *)
(***************************************************************************)
BodyIsTree ==
  phase = "done" =>
    /\ Top.children = <<Len(expressions)>>
    /\ \A c \in 1..(Len(expressions) - 1) : Cardinality(Parents(c)) = 1

(***************************************************************************)
(* The nesting counter is the number of open productions that have entered *)
(* a level: every level is left once, on every path, and a body that has   *)
(* been parsed has left them all.  So "no input can drive descent deeper   *)
(* than the profile admits" (enter_nesting): the active productions are at *)
(* most seven per level.                                                   *)
(***************************************************************************)
NestingBalanced ==
  /\ phase = "parse" =>
       depth = Cardinality({k \in DOMAIN stack : stack[k].at \in Holders})
  /\ Len(stack) <= 7 * (MaxNesting + 1)

\* However long the source, the arenas and the nesting ceiling end the
\* parse: no loop of the descent runs without filling one of them.
ParseEnds == <>(phase # "parse")

(***************************************************************************)
(* seki_checker.c:778: "Every declared case is selected by exactly one     *)
(* arm.  Equal counts plus no repeats makes that exhaustive."              *)
(***************************************************************************)
MatchesAreExhaustive ==
  phase = "done" =>
    \A i \in Numbers :
      (IsMatch(i) /\ CheckedExhaustive(i)) =>
        {arms[k].item : k \in Written(i)} = expressions[i].variant

(***************************************************************************)
(* The capacity of an arena is tested before an entry is parsed and the    *)
(* entry stored after (seki_parser.c:514, 630, 842): that is too early     *)
(* only when the entry has itself stored entries of its kind, a match in   *)
(* the arm or a literal in the field.  No other source writes past an      *)
(* arena.                                                                  *)
(***************************************************************************)
OverrunIsNested ==
  phase = "overrun" =>
    \E i \in Numbers : /\ IsMatch(i) <=> Top.at = "arm"
                      /\ expressions[i].first >= Top.first
                      /\ expressions[i].count > 0
=============================================================================
