------------------------ MODULE KernelParserArenaProofs ------------------------
(***************************************************************************)
(* What becomes of the entries of the arenas: a finished body is a tree,   *)
(* and an arena is only written past its end behind a nested construct.    *)
(*                                                                         *)
(* Further invariants carry this.  Every expression stored so far is in    *)
(* one place, and every field and arm is in the range of an expression or  *)
(* of a production still open.  And since an open entry looked at the      *)
(* capacity, its arena can only have filled through a construct inside it. *)
(***************************************************************************)
EXTENDS KernelParserProofs, WellFoundedInduction

(***************************************************************************)
(* The places of expression c: operand of a frame or of an expression,     *)
(* value of a field, body of an arm.                                       *)
(***************************************************************************)
Holds(x, c) == \E j \in 1..Len(x.children) : x.children[j] = c

InFrames(c) == {k \in 1..Len(stack) : Holds(stack[k], c)}
InExpressions(c) == {i \in 1..Len(expressions) : Holds(expressions[i], c)}
AsField(c) == {k \in 1..Len(fields) : fields[k].value = c}
AsArm(c) == {k \in 1..Len(arms) : arms[k].body = c}

InOnePlace(c) ==
  \E k \in Nat :
    \/ /\ InFrames(c) = {k} /\ InExpressions(c) = {}
       /\ AsField(c) = {} /\ AsArm(c) = {}
    \/ /\ InFrames(c) = {} /\ InExpressions(c) = {k}
       /\ AsField(c) = {} /\ AsArm(c) = {}
    \/ /\ InFrames(c) = {} /\ InExpressions(c) = {}
       /\ AsField(c) = {k} /\ AsArm(c) = {}
    \/ /\ InFrames(c) = {} /\ InExpressions(c) = {}
       /\ AsField(c) = {} /\ AsArm(c) = {k}

\* No frame has the same result twice.
Unrepeated(f) ==
  \A i, j \in 1..Len(f.children) : f.children[i] = f.children[j] => i = j

Ownership ==
  /\ \A c \in 1..Len(expressions) : InOnePlace(c)
  /\ \A k \in 1..Len(stack) : Unrepeated(stack[k])

(***************************************************************************)
(* A field or an arm is in the range of an expression or of an open frame. *)
(***************************************************************************)
Ranged == {"reject", "require_ready"}

KeepsField(f, k) ==
  \/ f.at \in Fielders /\ f.first < k
  \/ f.at \in Ranged /\ k \in (f.first + 1)..(f.first + f.count)

KeepsArm(f, k) == f.at \in Armers /\ f.first < k

FieldKept(k) ==
  \/ \E i \in 1..Len(expressions) : ~IsMatch(i) /\ k \in Slots(i)
  \/ \E l \in 1..Len(stack) : KeepsField(stack[l], k)

ArmKept(k) ==
  \/ \E i \in 1..Len(expressions) : IsMatch(i) /\ k \in Slots(i)
  \/ \E l \in 1..Len(stack) : KeepsArm(stack[l], k)

Coverage ==
  /\ \A k \in 1..Len(fields) : FieldKept(k)
  /\ \A k \in 1..Len(arms) : ArmKept(k)

RootIsLast == Top.at = "body" => Top.children = <<Len(expressions)>>

(***************************************************************************)
(* What an open frame may have above it.                                   *)
(***************************************************************************)
InValue == {"or", "and", "compare", "projection"} \cup Primaries

Openers == {"record_field", "payload_field"}

Nested ==
  \A k, l \in 1..Len(stack) : k < l =>
    /\ stack[k].at \in InValue \cup {"payload_field"} => stack[l].at \in InValue
    /\ stack[k].at \in Fielders /\ stack[l].at \in Fielders
         => stack[k].first <= stack[l].first
    /\ stack[k].at \in Armers /\ stack[l].at \in Armers
         => stack[k].first <= stack[l].first

(***************************************************************************)
(* Since an entry whose range begins after m looked at the capacity: there *)
(* is still room, or a construct inside has stored entries, or one that is *)
(* open has.                                                               *)
(***************************************************************************)
FieldsSince(m) ==
  \/ Len(fields) < MaxFields
  \/ \E i \in 1..Len(expressions) : /\ ~IsMatch(i)
                                   /\ expressions[i].first >= m
                                   /\ expressions[i].count > 0

ArmsSince(m) ==
  \/ Len(arms) < MaxArms
  \/ \E i \in 1..Len(expressions) : /\ IsMatch(i)
                                   /\ expressions[i].first >= m
                                   /\ expressions[i].count > 0

FieldsAbove(k) ==
  \E l \in 1..Len(stack) :
    k < l /\ stack[l].at \in Fielders /\ stack[l].first < Len(fields)

ArmsAbove(k) ==
  \E l \in 1..Len(stack) :
    k < l /\ stack[l].at \in Armers /\ stack[l].first < Len(arms)

LookedFields ==
  \A k \in 1..Len(stack) :
    stack[k].at \in Openers => FieldsSince(stack[k].first) \/ FieldsAbove(k)

LookedArms ==
  \A k \in 1..Len(stack) :
    stack[k].at = "arm" => ArmsSince(stack[k].first) \/ ArmsAbove(k)

\* An overrun has happened at the frame that now stores its entry.
OverrunFull ==
  phase = "overrun" => \/ Top.at \in Openers /\ ~(Len(fields) < MaxFields)
                       \/ Top.at = "arm" /\ ~(Len(arms) < MaxArms)

-----------------------------------------------------------------------------
(***************************************************************************)
(* What an action does to the frames and the arenas.                       *)
(***************************************************************************)
L == Len(stack)

NothingStored == UNCHANGED <<expressions, fields, arms>>

\* The running frame has become f.
Replaced(f) ==
  /\ Len(stack') = L
  /\ \A k \in 1..(L - 1) : stack'[k] = stack[k]
  /\ stack'[L] = f

\* The running frame is gone and its caller has become f.
Left(f) ==
  /\ Len(stack') = L - 1
  /\ \A k \in 1..(L - 2) : stack'[k] = stack[k]
  /\ stack'[L - 1] = f

\* f goes on with the results and the ranges of the running frame.
Continues(f) ==
  /\ f \in Frame /\ f.children = Top.children
  /\ f.at # "body" /\ Top.at # "body"
  /\ Top.at \in Fielders => f.at \in Fielders /\ f.first = Top.first
  /\ Top.at \in Armers => f.at \in Armers /\ f.first = Top.first
  /\ Top.at \in Ranged =>
       f.at \in Ranged /\ f.first = Top.first /\ f.count = Top.count
  /\ f.at \in Fielders => Top.at \in Fielders \/ f.first = NF
  /\ f.at \in Armers => Top.at \in Armers \/ f.first = NA
  /\ Top.at \in InValue => f.at \in InValue
  /\ f.at \in Openers => NF < MaxFields
  /\ f.at = "arm" => NA < MaxArms

\* A production that has just been called.
Fresh(g) ==
  /\ g \in Frame /\ g.children = <<>>
  /\ g.at \in {"or", "and", "compare", "projection", "primary", "tail",
               "payload_entry"}

\* The running frame has become f, which has called the productions of u.
Calling(f, u) ==
  /\ NothingStored
  /\ Continues(f)
  /\ u \in Seq(Frame)
  /\ stack' = Append(Callers, f) \o u
  /\ \A j \in 1..Len(u) : Fresh(u[j])
  /\ Len(u) <= 1 \/ \A j \in 1..Len(u) : u[j].at \in InValue
  /\ f.at \in InValue \cup {"payload_field"} =>
       \A j \in 1..Len(u) : u[j].at \in InValue

\* The result of the running frame is its caller's.
Handing ==
  /\ NothingStored
  /\ Top.at \in {"paren", "projection", "compare", "and", "or"}
  /\ Len(Top.children) = 1
  /\ Left(With(stack[L - 1], Top.children[1]))

\* The node of a frame has the results and the range of the running frame.
Describes(kind, f) ==
  /\ f.children = Top.children
  /\ Top.at \in Fielders =>
       kind # "match" /\ f.first = Top.first /\ f.count = NF - Top.first
  /\ Top.at \in Armers =>
       kind = "match" /\ f.first = Top.first /\ f.count = NA - Top.first
  /\ Top.at \in Ranged =>
       kind # "match" /\ f.first = Top.first /\ f.count = Top.count

Storing(kind, f) ==
  /\ expressions' = Append(expressions, Node(kind, f))
  /\ Node(kind, f) \in Expression
  /\ UNCHANGED <<fields, arms>>
  /\ Top.at \notin Openers \cup Payloads \cup {"arm", "body"}
  /\ Describes(kind, f)

\* The caller goes on with the expression that has been stored.
Leaving == Left(With(stack[L - 1], N + 1))

\* The level goes round again with the expression that has been stored.
Folding ==
  /\ Top.at \in {"projection", "and", "or"}
  /\ Replaced([Top EXCEPT !.children = <<N + 1>>])

\* The requirement or rejection is given the range of its payload.
Paying(f) ==
  /\ NothingStored
  /\ Top.at \in {"payload_entry", "payload"}
  /\ Left(f)
  /\ f.at = stack[L - 1].at /\ f.children = stack[L - 1].children
  /\ Top.at = "payload" => f.first = Top.first /\ f.count = NF - Top.first

FieldEntry(f) ==
  /\ UNCHANGED <<expressions, arms>>
  /\ \E name \in FieldNames :
       fields' = Append(fields, [name |-> name, value |-> Top.children[1]])
  /\ Top.at \in Openers /\ Len(Top.children) = 1
  /\ Replaced(f)
  /\ f.at = (IF Top.at = "record_field" THEN "record" ELSE "payload")
  /\ f.first = Top.first /\ f.children = <<>>

ArmEntry(f) ==
  /\ UNCHANGED <<expressions, fields>>
  /\ \E item \in CaseNames :
       arms' = Append(arms, [item |-> item, body |-> Top.children[2]])
  /\ Top.at = "arm" /\ Len(Top.children) = 2
  /\ Replaced(f)
  /\ f.at = "arms" /\ f.first = Top.first
  /\ f.children = <<Top.children[1]>>

Effect ==
  \/ UNCHANGED <<expressions, fields, arms, stack>>
  \/ \E f, u : Calling(f, u)
  \/ Handing
  \/ \E kind, f : Storing(kind, f) /\ (Leaving \/ Folding)
  \/ \E f : Paying(f)
  \/ \E f : FieldEntry(f)
  \/ \E f : ArmEntry(f)

-----------------------------------------------------------------------------
LEMMA Sizes ==
  ASSUME IInv
  PROVE  /\ L \in Nat /\ L > 0 /\ L - 1 \in Nat /\ L - 1 >= 0
         /\ stack \in Seq(Frame) /\ Top = stack[L]
         /\ Len(Callers) = L - 1 /\ Callers \in Seq(Frame)
         /\ \A k \in 1..(L - 1) : Callers[k] = stack[k]
         /\ \A k \in 1..L : stack[k] \in Frame
         /\ \A k \in 1..L : k \in 1..(L - 1) \/ k = L
         /\ L \in 1..L
  <1>1. /\ stack \in Seq(Frame) /\ Len(stack) > 0 /\ Callers = Pop(stack)
        /\ Len(stack) \in Nat
    BY TopTypes DEF IInv, StackOK
  <1>2. /\ Len(Callers) = L - 1 /\ Callers \in Seq(Frame)
        /\ \A k \in 1..(L - 1) : Callers[k] = stack[k]
    BY <1>1, PopSeq DEF L
  <1>3. \A k \in 1..L : stack[k] \in Frame
    BY <1>1, ElementOfSeq DEF L
  <1> QED BY <1>1, <1>2, <1>3 DEF L, Top

LEMMA ReplacedShape ==
  ASSUME IInv, NEW f \in Frame, stack' = Append(Callers, f)
  PROVE  Replaced(f)
  <1>1. /\ Len(Append(Callers, f)) = Len(Callers) + 1
        /\ \A k \in 1..Len(Callers) : Append(Callers, f)[k] = Callers[k]
        /\ Append(Callers, f)[Len(Callers) + 1] = f
    BY Sizes, PushSeq
  <1>2. Len(Callers) + 1 = L
    BY Sizes
  <1> QED BY <1>1, <1>2, Sizes DEF Replaced

LEMMA LeftShape ==
  ASSUME IInv, Top.at # "body", NEW f \in Frame,
         stack' = [Callers EXCEPT ![Len(Callers)] = f]
  PROVE  Left(f) /\ L - 1 > 0 /\ L - 1 \in 1..L /\ stack[L - 1] \in Frame
  <1>1. Len(Callers) > 0 /\ Len(Callers) \in 1..Len(Callers)
    BY Sizes, TopTypes
  <1>2. /\ Len(stack') = Len(Callers)
        /\ \A j \in 1..Len(Callers) :
             stack'[j] = IF j = Len(Callers) THEN f ELSE Callers[j]
    BY <1>1, Sizes, ExceptSeq
  <1>3. /\ L - 1 > 0 /\ L - 1 \in 1..L /\ L - 1 \in 1..(L - 1)
        /\ \A k \in 1..(L - 2) : k \in 1..(L - 1) /\ k # L - 1
    BY <1>1, Sizes
  <1> QED BY <1>2, <1>3, Sizes DEF Left

LEMMA ReturnShape ==
  ASSUME IInv, Top.at # "body", NEW e \in Nat, stack' = Return(e)
  PROVE  /\ Left(With(stack[L - 1], e))
         /\ L - 1 > 0 /\ L - 1 \in 1..L /\ stack[L - 1] \in Frame
  <1> DEFINE g == Callers[Len(Callers)]
  <1>1. Len(Callers) > 0 /\ Len(Callers) \in 1..Len(Callers)
    BY Sizes, TopTypes
  <1>2. g \in Frame /\ g = stack[L - 1]
    BY <1>1, Sizes, ElementOfSeq
  <1>3. Return(e) = [Callers EXCEPT ![Len(Callers)] = With(g, e)]
    BY <1>1, Sizes DEF Return, With
  <1>4. With(g, e) \in Frame
    BY <1>2, WithFields
  <1> HIDE DEF g, With
  <1> QED BY <1>2, <1>3, <1>4, LeftShape

-----------------------------------------------------------------------------
(***************************************************************************)
(* Every action has one of the effects.                                    *)
(***************************************************************************)
LEMMA NodeType ==
  ASSUME NEW kind \in Kinds, NEW f \in Frame
  PROVE  Node(kind, f) \in Expression
  BY FrameFields DEF Node, Expression

LEMMA LeavingEffect ==
  ASSUME IInv, NEW kind \in Kinds, NEW f \in Frame, NEW d,
         add_expression(Node(kind, f), d, Return(New)),
         Top.at \notin Openers \cup Payloads \cup {"arm", "body"},
         Describes(kind, f)
  PROVE  Effect
  <1>1. CASE Fail("A0-PARSE-0030") /\ UNCHANGED stack
    BY <1>1 DEF Effect, Fail
  <1>2. CASE /\ expressions' = Append(expressions, Node(kind, f))
             /\ stack' = Return(New)
             /\ UNCHANGED <<forms, phase, code, fields, arms>>
    <2>1. New \in Nat /\ New = N + 1
      BY Counts
    <2>2. Leaving
      BY <1>2, <2>1, ReturnShape DEF Leaving
    <2>3. Storing(kind, f)
      BY <1>2, NodeType DEF Storing
    <2> QED BY <2>2, <2>3 DEF Effect
  <1> QED BY <1>1, <1>2 DEF add_expression

LEMMA FoldingEffect ==
  ASSUME IInv, NEW kind \in Kinds, NEW d,
         add_expression(Node(kind, Top), d,
                        Append(Callers, [Top EXCEPT !.children = <<New>>])),
         Top.at \in {"projection", "and", "or"}
  PROVE  Effect
  <1>1. CASE Fail("A0-PARSE-0030") /\ UNCHANGED stack
    BY <1>1 DEF Effect, Fail
  <1>2. CASE /\ expressions' = Append(expressions, Node(kind, Top))
             /\ stack' = Append(Callers, [Top EXCEPT !.children = <<New>>])
             /\ UNCHANGED <<forms, phase, code, fields, arms>>
    <2> DEFINE f == [Top EXCEPT !.children = <<New>>]
    <2>1. New \in Nat /\ New = N + 1 /\ Top \in Frame /\ <<New>> \in Seq(Nat)
      BY Counts, TopTypes
    <2>2. f \in Frame
      BY <2>1, Changed
    <2>3. Replaced(f)
      BY <1>2, <2>2, ReplacedShape
    <2>4. Folding
      BY <2>1, <2>3 DEF Folding
    <2>5. /\ Top.at \notin Openers \cup Payloads \cup {"arm", "body"}
          /\ Top.at \notin Fielders \cup Armers \cup Ranged
      BY DEF Openers, Payloads, Fielders, Armers, Ranged
    <2>6. Storing(kind, Top)
      BY <1>2, <2>1, <2>5, NodeType DEF Storing, Describes
    <2> QED BY <2>4, <2>6 DEF Effect
  <1> QED BY <1>1, <1>2 DEF add_expression

LEMMA LeafEffect ==
  ASSUME IInv, Leaf
  PROVE  Effect
  <1>1. Top.at = "primary" /\ add_expression(Node("leaf", Top), depth, Return(New))
    BY DEF Leaf, Running
  <1>2. /\ Top.at \notin Openers \cup Payloads \cup {"arm", "body"}
        /\ Describes("leaf", Top) /\ "leaf" \in Kinds
    BY <1>1 DEF Openers, Payloads, Fielders, Armers, Ranged, Describes, Kinds
  <1> QED BY <1>1, <1>2, TopTypes, LeavingEffect

LEMMA ProjectEffect ==
  ASSUME IInv, Project
  PROVE  Effect
  <1>1. /\ Top.at = "projection" /\ "field" \in Kinds
        /\ add_expression(Node("field", Top), depth,
                          Append(Callers, [Top EXCEPT !.children = <<New>>]))
    BY DEF Project, Running, Kinds
  <1> QED BY <1>1, FoldingEffect

LEMMA CombineEffect ==
  ASSUME IInv, Combine
  PROVE  Effect
  <1>1. CASE /\ Top.at \in {"and", "or"}
             /\ add_expression(Node(Top.at, Top), depth,
                               Append(Callers, [Top EXCEPT !.children = <<New>>]))
    <2>1. Top.at \in Kinds
      BY <1>1 DEF Kinds
    <2> QED BY <1>1, <2>1, FoldingEffect
  <1>2. CASE /\ Top.at = "compare"
             /\ add_expression(Node(Top.at, Top), depth, Return(New))
    <2>1. /\ Top.at \notin Openers \cup Payloads \cup {"arm", "body"}
          /\ Describes(Top.at, Top) /\ Top.at \in Kinds
      BY <1>2 DEF Openers, Payloads, Fielders, Armers, Ranged, Describes, Kinds
    <2> QED BY <1>2, <2>1, TopTypes, LeavingEffect
  <1> QED BY <1>1, <1>2 DEF Combine

LEMMA RecordCloseEffect ==
  ASSUME IInv, RecordClose
  PROVE  Effect
  <1> DEFINE f == [Top EXCEPT !.count = Len(fields) - Top.first]
  <1>1. /\ Top.at = "record" /\ "record" \in Kinds
        /\ add_expression(Node("record", f), depth - 1, Return(New))
    BY DEF RecordClose, Running, Kinds
  <1>2. Top.first \in Nat /\ Top.first <= NF /\ NF \in Nat /\ Len(fields) = NF
    BY <1>1, TopTypes, FrameFields, Counts DEF FrameOK, Fielders, NF
  <1>3. NF - Top.first \in Nat
    BY <1>2
  <1>4. /\ f \in Frame /\ f.first = Top.first
        /\ f.count = NF - Top.first /\ f.children = Top.children
    BY <1>2, <1>3, TopTypes, Changed
  <1> HIDE DEF f
  <1>5. /\ Top.at \notin Openers \cup Payloads \cup {"arm", "body"}
        /\ Describes("record", f)
    BY <1>1, <1>4 DEF Openers, Payloads, Fielders, Armers, Ranged, Describes
  <1> QED BY <1>1, <1>4, <1>5, LeavingEffect

LEMMA MatchCloseEffect ==
  ASSUME IInv, MatchClose
  PROVE  Effect
  <1> DEFINE f == [Top EXCEPT !.count = Len(arms) - Top.first]
  <1>1. /\ Top.at = "arms" /\ "match" \in Kinds
        /\ add_expression(Node("match", f), depth - 1, Return(New))
    BY DEF MatchClose, Running, Kinds
  <1>2. Top.first \in Nat /\ Top.first <= NA /\ NA \in Nat /\ Len(arms) = NA
    BY <1>1, TopTypes, FrameFields, Counts DEF FrameOK, Armers, NA
  <1>3. NA - Top.first \in Nat
    BY <1>2
  <1>4. /\ f \in Frame /\ f.first = Top.first
        /\ f.count = NA - Top.first /\ f.children = Top.children
    BY <1>2, <1>3, TopTypes, Changed
  <1> HIDE DEF f
  <1>5. /\ Top.at \notin Openers \cup Payloads \cup {"arm", "body"}
        /\ Describes("match", f)
    BY <1>1, <1>4 DEF Openers, Payloads, Fielders, Armers, Ranged, Describes
  <1> QED BY <1>1, <1>4, <1>5, LeavingEffect

LEMMA FinishEffect ==
  ASSUME IInv, Finish
  PROVE  Effect
  <1> DEFINE kind == IF Top.at = "require_ready" THEN "require" ELSE Top.at
  <1>1. /\ Top.at \in {"let", "require_ready", "if", "accept", "reject"}
        /\ add_expression(Node(kind, Top), depth - 1, Return(New))
    BY DEF Finish, TailLabels
  <1>2. kind \in Kinds /\ kind # "match"
    BY <1>1 DEF Kinds
  <1> HIDE DEF kind
  <1>3. /\ Top.at \notin Openers \cup Payloads \cup {"arm", "body"}
        /\ Describes(kind, Top)
    BY <1>1, <1>2 DEF Openers, Payloads, Fielders, Armers, Ranged, Describes
  <1> QED BY <1>1, <1>2, <1>3, TopTypes, LeavingEffect

LEMMA HandingEffect ==
  ASSUME IInv, CloseParen \/ LevelDone
  PROVE  Effect
  <1>1. /\ Top.at \in {"paren", "projection", "compare", "and", "or"}
        /\ stack' = Return(Top.children[1]) /\ NothingStored
    BY DEF CloseParen, LevelDone, Running, Goto, NothingStored
  <1>2. Len(Top.children) = 1 /\ Top.at # "body"
    BY <1>1, TopTypes DEF LevelDone, Returned, CloseParen, Running, Ready
  <1>3. Top.children[1] \in Nat
    BY <1>2, OperandOK
  <1>4. Handing
    BY <1>1, <1>2, <1>3, ReturnShape DEF Handing
  <1> QED BY <1>4 DEF Effect

LEMMA PayloadEffect ==
  ASSUME IInv, NEW x \in Nat, NEW y \in Nat, Top.at \in {"payload_entry", "payload"},
         Top.at = "payload" => x = Top.first /\ y = NF - Top.first,
         Goto([Callers EXCEPT ![Len(Callers)].first = x,
                              ![Len(Callers)].count = y])
  PROVE  Effect
  <1> DEFINE c == Callers[Len(Callers)]
             g == [c EXCEPT !.first = x]
             f == [g EXCEPT !.count = y]
  <1>1. Len(Callers) > 0 /\ Len(Callers) \in 1..Len(Callers)
    BY Sizes, TopTypes
  <1>2. c \in Frame /\ c = stack[L - 1]
    BY <1>1, Sizes, ElementOfSeq
  <1>3. [Callers EXCEPT ![Len(Callers)].first = x, ![Len(Callers)].count = y]
          = [Callers EXCEPT ![Len(Callers)] = f]
    BY <1>1, Sizes
  <1> HIDE DEF c
  <1>4. /\ g \in Frame /\ g.first = x /\ g.at = c.at /\ g.children = c.children
    BY <1>2, Changed
  <1> HIDE DEF g
  <1>5. /\ f \in Frame /\ f.first = x /\ f.count = y /\ f.at = c.at
        /\ f.children = c.children
    BY <1>4, Changed
  <1> HIDE DEF f
  <1>6. stack' = [Callers EXCEPT ![Len(Callers)] = f] /\ NothingStored
    BY <1>3 DEF Goto, NothingStored
  <1>7. Left(f)
    BY <1>5, <1>6, LeftShape
  <1>8. Paying(f)
    BY <1>2, <1>5, <1>6, <1>7 DEF Paying
  <1> QED BY <1>8 DEF Effect

LEMMA PayloadEffects ==
  ASSUME IInv, PayloadAbsent \/ PayloadClose
  PROVE  Effect
  <1>1. CASE PayloadAbsent
    <2>1. Top.at = "payload_entry" /\ NF \in Nat /\ 0 \in Nat
      BY <1>1, Counts DEF PayloadAbsent, Running
    <2> QED BY <1>1, <2>1, PayloadEffect DEF PayloadAbsent, NF
  <1>2. CASE PayloadClose
    <2>1. /\ Top.at = "payload" /\ Top.first \in Nat /\ Top.first <= NF
          /\ NF \in Nat
      BY <1>2, TopTypes, FrameFields, Counts
         DEF PayloadClose, Running, FrameOK, Fielders
    <2>2. NF - Top.first \in Nat
      BY <2>1
    <2> QED BY <1>2, <2>1, <2>2, PayloadEffect DEF PayloadClose, NF
  <1> QED BY <1>1, <1>2

\* The levels that a production which wants a value, or an operand, calls.
LEMMA ValueLevels ==
  ASSUME NEW u \in {Value, Operand("or"), Operand("and"), Operand("compare")}
  PROVE  /\ u \in Seq(Frame)
         /\ \A j \in 1..Len(u) : Fresh(u[j]) /\ u[j].at \in InValue
  <1> DEFINE a == At("or")
             b == At("and")
             c == At("compare")
             d == At("projection")
             e == At("primary")
             S == {a, b, c, d, e}
  <1>1. \A g \in S : Fresh(g) /\ g.at \in InValue
    <2>1. \A l \in {"or", "and", "compare", "projection", "primary"} :
            Fresh(At(l)) /\ At(l).at \in InValue
      <3> SUFFICES ASSUME NEW l \in {"or", "and", "compare", "projection", "primary"}
                   PROVE  Fresh(At(l)) /\ At(l).at \in InValue
        OBVIOUS
      <3>1. At(l) \in Frame
        BY LevelWants, AtFrame DEF FrameOK
      <3> QED BY <3>1, AtFields DEF Fresh, InValue, Primaries
    <2> QED BY <2>1
  <1>2. /\ Value = <<a, b, c, d, e>>
        /\ Operand("or") = <<b, c, d, e>> /\ Operand("and") = <<c, d, e>>
        /\ Operand("compare") = <<d, e>>
    BY Operands, LevelsOfValue DEF Value
  <1>3. a \in S /\ b \in S /\ c \in S /\ d \in S /\ e \in S
    OBVIOUS
  <1> HIDE DEF a, b, c, d, e, S
  <1>4. u \in Seq(S)
    <2>1. /\ <<a, b, c, d, e>> \in Seq(S) /\ <<b, c, d, e>> \in Seq(S)
          /\ <<c, d, e>> \in Seq(S) /\ <<d, e>> \in Seq(S)
      BY <1>3
    <2>2. u \in {<<a, b, c, d, e>>, <<b, c, d, e>>, <<c, d, e>>, <<d, e>>}
      BY <1>2, Zenon
    <2> QED BY <2>1, <2>2, Zenon
  <1>5. \A j \in 1..Len(u) : u[j] \in S
    BY <1>4, ElementOfSeq
  <1>6. S \subseteq Frame
    BY <1>1 DEF Fresh
  <1>7. u \in Seq(Frame)
    BY <1>4, <1>6
  <1> QED BY <1>1, <1>5, <1>7

LEMMA CallValueEffect ==
  ASSUME IInv, NEW f, Continues(f), NothingStored,
         NEW u \in {Value, Operand("or"), Operand("and"), Operand("compare")},
         stack' = Call(f, u)
  PROVE  Effect
  <1>1. Calling(f, u)
    BY ValueLevels DEF Calling, Call
  <1> QED BY <1>1 DEF Effect

LEMMA CallOneEffect ==
  ASSUME IInv, NEW f, Continues(f), NothingStored,
         f.at \notin InValue \cup {"payload_field"},
         NEW l \in {"tail", "payload_entry"}, stack' = Call(f, <<At(l)>>)
  PROVE  Effect
  <1> DEFINE g == At(l)
             u == <<g>>
  <1>1. Fresh(g)
    <2>1. g \in Frame
      BY LevelWants, AtFrame DEF FrameOK
    <2> QED BY <2>1, AtFields DEF Fresh
  <1> HIDE DEF g
  <1>2. /\ u \in Seq(Frame) /\ Len(u) = 1 /\ Len(u) <= 1
        /\ \A j \in 1..Len(u) : u[j] = g
    BY <1>1 DEF Fresh
  <1>3. stack' = Append(Callers, f) \o u
    BY DEF Call, g
  <1> HIDE DEF u
  <1>4. Calling(f, u)
    BY <1>1, <1>2, <1>3 DEF Calling
  <1> QED BY <1>4 DEF Effect

LEMMA ContinueEffect ==
  ASSUME IInv, NEW f, Continues(f), NothingStored,
         stack' = Append(Callers, f)
  PROVE  Effect
  <1> DEFINE u == <<>>
  <1>1. u \in Seq(Frame) /\ Len(u) = 0 /\ Len(u) <= 1 /\ \A j : j \notin 1..Len(u)
    OBVIOUS
  <1>2. Append(Callers, f) \o u = Append(Callers, f)
    <2>1. Append(Callers, f) \in Seq(Frame)
      BY Sizes, PushSeq DEF Continues
    <2> QED BY <2>1, ConcatEmptySeq
  <1> HIDE DEF u
  <1>3. Calling(f, u)
    BY <1>1, <1>2 DEF Calling
  <1> QED BY <1>3 DEF Effect

LEMMA CallNone ==
  ASSUME IInv, NEW f \in Frame
  PROVE  Call(f, <<>>) = Append(Callers, f)
  <1>1. Append(Callers, f) \in Seq(Frame)
    BY Sizes, PushSeq
  <1> QED BY <1>1, ConcatEmptySeq DEF Call

\* A step that enters a level of nesting, or fails to.
LEMMA EnterEffect ==
  ASSUME IInv, NEW s, EnterNesting(s), (NothingStored /\ stack' = s) => Effect
  PROVE  Effect
  BY DEF EnterNesting, Fail, NothingStored, Effect

LEMMA OpenParenEffect ==
  ASSUME IInv, OpenParen
  PROVE  Effect
  <1> DEFINE f == At("paren")
  <1>1. Top.at = "primary" /\ EnterNesting(Call(f, Value))
    BY DEF OpenParen, Running
  <1>2. f \in Frame /\ f.at = "paren" /\ f.children = <<>>
    BY AtFrame, AtFields, Counts DEF Labels, Holders, FrameOK
  <1>3. Top.children = <<>>
    <2>1. Len(Top.children) = 0 /\ Top.children \in Seq(Nat)
      BY <1>1, TopTypes, FrameFields DEF Ready
    <2> QED BY <2>1, EmptySeq
  <1> HIDE DEF f
  <1>4. Continues(f)
    BY <1>1, <1>2, <1>3 DEF Continues, Fielders, Armers, Ranged, InValue,
       Primaries, Openers
  <1> QED BY <1>1, <1>4, EnterEffect, CallValueEffect

LEMMA OpenRecordEffect ==
  ASSUME IInv, OpenRecord
  PROVE  Effect
  <1> DEFINE f == [At("record") EXCEPT !.first = Len(fields)]
  <1>1. Top.at = "primary" /\ EnterNesting(Call(f, <<>>))
    BY DEF OpenRecord, Running
  <1>2. f \in Frame /\ f.at = "record" /\ f.first = NF /\ f.children = <<>>
    <2>1. At("record") \in Frame
      BY AtFrame, Counts DEF Labels, Holders, FrameOK
    <2> QED BY <2>1, Changed, AtFields, Counts DEF NF
  <1>3. Top.children = <<>>
    <2>1. Len(Top.children) = 0 /\ Top.children \in Seq(Nat)
      BY <1>1, TopTypes, FrameFields DEF Ready
    <2> QED BY <2>1, EmptySeq
  <1> HIDE DEF f
  <1>4. Continues(f)
    BY <1>1, <1>2, <1>3 DEF Continues, Fielders, Armers, Ranged, InValue,
       Primaries, Openers
  <1> QED BY <1>1, <1>2, <1>4, EnterEffect, ContinueEffect, CallNone

LEMMA PayloadOpenEffect ==
  ASSUME IInv, PayloadOpen
  PROVE  Effect
  <1> DEFINE f == [At("payload") EXCEPT !.first = Len(fields)]
  <1>1. /\ Top.at = "payload_entry" /\ NothingStored
        /\ stack' = Call(f, <<>>)
    BY DEF PayloadOpen, Running, Goto, NothingStored
  <1>2. f \in Frame /\ f.at = "payload" /\ f.first = NF /\ f.children = <<>>
    <2>1. At("payload") \in Frame
      BY AtFrame, Counts DEF Labels, FrameOK
    <2> QED BY <2>1, Changed, AtFields, Counts DEF NF
  <1>3. Top.children = <<>>
    <2>1. Len(Top.children) = 0 /\ Top.children \in Seq(Nat)
      BY <1>1, TopTypes, FrameFields DEF Ready
    <2> QED BY <2>1, EmptySeq
  <1> HIDE DEF f
  <1>4. Continues(f)
    BY <1>1, <1>2, <1>3 DEF Continues, Fielders, Armers, Ranged, InValue,
       Primaries, Openers
  <1> QED BY <1>1, <1>2, <1>4, ContinueEffect, CallNone

LEMMA FieldOpenEffect ==
  ASSUME IInv, FieldOpen
  PROVE  Effect
  <1>1. Top.at \in {"record", "payload"} /\ Top \in Frame
    BY TopTypes DEF FieldOpen, InFields
  <1>2. CASE Fail("A0-PARSE-0036") /\ UNCHANGED stack
    BY <1>2 DEF Effect, Fail
  <1>3. ASSUME NEW n \in FieldNames, Fail("A0-PARSE-0037"),
               stack' = Append(Callers, [Top EXCEPT !.name = n])
        PROVE  Effect
    <2> DEFINE f == [Top EXCEPT !.name = n]
    <2>1. /\ f \in Frame /\ f.at = Top.at /\ f.children = Top.children
          /\ f.first = Top.first /\ f.count = Top.count
      BY <1>1, Changed
    <2>2. stack' = Append(Callers, f) /\ NothingStored
      BY <1>3 DEF Fail, NothingStored
    <2> HIDE DEF f
    <2>3. Continues(f)
      BY <1>1, <2>1 DEF Continues, Fielders, Armers, Ranged, InValue,
         Primaries, Openers
    <2> QED BY <2>2, <2>3, ContinueEffect
  <1>4. ASSUME NEW n \in FieldNames, NEW l, Len(fields) # MaxFields,
               l = (IF Top.at = "record" THEN "record_field" ELSE "payload_field"),
               Goto(Call([Top EXCEPT !.name = n, !.at = l], Value))
        PROVE  Effect
    <2> DEFINE g == [Top EXCEPT !.name = n]
               f == [g EXCEPT !.at = l]
    <2>1. l \in Labels
      BY <1>4 DEF Labels, Holders
    <2>2. /\ g \in Frame /\ g.children = Top.children
          /\ g.first = Top.first /\ g.count = Top.count
      BY <1>1, Changed
    <2>3. f = [Top EXCEPT !.name = n, !.at = l]
      BY <1>1 DEF Frame
    <2> HIDE DEF g
    <2>4. /\ f \in Frame /\ f.at = l /\ f.children = Top.children
          /\ f.first = Top.first /\ f.count = Top.count
      BY <2>1, <2>2, Changed
    <2> HIDE DEF f
    <2>5. NF < MaxFields
      BY <1>4, Counts, ConstantTypes DEF NF
    <2>6. Continues(f)
      BY <1>1, <1>4, <2>4, <2>5 DEF Continues, Fielders, Armers, Ranged, InValue,
         Primaries, Openers
    <2>7. NothingStored /\ stack' = Call(f, Value)
      BY <1>4, <2>3 DEF Goto, NothingStored
    <2> QED BY <2>6, <2>7, CallValueEffect
  <1> QED BY <1>2, <1>3, <1>4 DEF FieldOpen

LEMMA OperatorEffect ==
  ASSUME IInv, Operator
  PROVE  Effect
  <1>1. /\ Top.at \in {"compare", "and", "or"} /\ NothingStored
        /\ stack' = Call(Top, Operand(Top.at)) /\ Top \in Frame
    BY TopTypes DEF Operator, Goto, NothingStored
  <1>2. Continues(Top)
    BY <1>1 DEF Continues, Fielders, Armers, Ranged, InValue, Openers
  <1> QED BY <1>1, <1>2, CallValueEffect

LEMMA TailValueEffect ==
  ASSUME IInv, Top.at = "tail", NEW f, f \in Frame,
         f.at \in {"let", "require", "accept", "if", "match"},
         f.children = <<>>, EnterNesting(Call(f, Value))
  PROVE  Effect
  <1>1. Top.children = <<>>
    <2>1. Len(Top.children) = 0 /\ Top.children \in Seq(Nat)
      BY TopTypes, FrameFields DEF Ready
    <2> QED BY <2>1, EmptySeq
  <1>2. Continues(f)
    BY <1>1 DEF Continues, Fielders, Armers, Ranged, InValue, Primaries, Openers
  <1> QED BY <1>2, EnterEffect, CallValueEffect

LEMMA KernelTailEffect ==
  ASSUME IInv, KernelTail
  PROVE  Effect
  <1>1. Top.at = "tail"
    BY DEF KernelTail, Running
  <1>2. ASSUME NEW form \in {"let", "require", "accept", "if"},
               EnterNesting(Call(At(form), Value))
        PROVE  Effect
    <2>1. At(form) \in Frame
      BY <1>2, AtFrame, Counts DEF Labels, Holders, FrameOK
    <2> QED BY <1>1, <1>2, <2>1, AtFields, TailValueEffect
  <1>3. ASSUME NEW v \in Variants,
               EnterNesting(Call([At("match") EXCEPT !.variant = v], Value))
        PROVE  Effect
    <2> DEFINE f == [At("match") EXCEPT !.variant = v]
    <2>1. At("match") \in Frame
      BY AtFrame, Counts DEF Labels, Holders, FrameOK
    <2>2. f \in Frame /\ f.at = "match" /\ f.children = <<>>
      BY <2>1, Changed, AtFields
    <2>3. EnterNesting(Call(f, Value))
      BY <1>3
    <2> HIDE DEF f
    <2> QED BY <1>1, <2>2, <2>3, TailValueEffect
  <1>4. CASE EnterNesting(Call(At("reject"), <<At("payload_entry")>>))
    <2> DEFINE f == At("reject")
    <2>1. /\ f \in Frame /\ f.at = "reject" /\ f.children = <<>>
          /\ EnterNesting(Call(f, <<At("payload_entry")>>))
      BY <1>4, AtFrame, AtFields, Counts DEF Labels, Holders, FrameOK
    <2>2. Top.children = <<>>
      <3>1. Len(Top.children) = 0 /\ Top.children \in Seq(Nat)
        BY <1>1, TopTypes, FrameFields DEF Ready
      <3> QED BY <3>1, EmptySeq
    <2> HIDE DEF f
    <2>3. Continues(f) /\ f.at \notin InValue \cup {"payload_field"}
      BY <1>1, <2>1, <2>2 DEF Continues, Fielders, Armers, Ranged, InValue,
         Primaries, Openers
    <2> QED BY <2>1, <2>3, EnterEffect, CallOneEffect
  <1> QED BY <1>2, <1>3, <1>4 DEF KernelTail

LEMMA MatchOpenEffect ==
  ASSUME IInv, MatchOpen
  PROVE  Effect
  <1> DEFINE g == [Top EXCEPT !.at = "arms"]
             f == [g EXCEPT !.first = Len(arms)]
  <1>1. /\ Top.at = "match" /\ Top \in Frame /\ NothingStored
        /\ stack' = Append(Callers, [Top EXCEPT !.at = "arms", !.first = Len(arms)])
    BY TopTypes DEF MatchOpen, Running, Goto, NothingStored
  <1>2. f = [Top EXCEPT !.at = "arms", !.first = Len(arms)]
    BY <1>1 DEF Frame
  <1>3. "arms" \in Labels /\ Len(arms) = NA /\ NA \in Nat
    BY Counts DEF Labels, Holders, NA
  <1>4. g \in Frame /\ g.at = "arms" /\ g.children = Top.children
    BY <1>1, <1>3, Changed
  <1> HIDE DEF g
  <1>5. f \in Frame /\ f.at = "arms" /\ f.first = NA /\ f.children = Top.children
    BY <1>3, <1>4, Changed
  <1> HIDE DEF f
  <1>6. Continues(f)
    BY <1>1, <1>5 DEF Continues, Fielders, Armers, Ranged, InValue,
       Primaries, Openers
  <1> QED BY <1>1, <1>2, <1>6, ContinueEffect

LEMMA ArmOpenEffect ==
  ASSUME IInv, ArmOpen
  PROVE  Effect
  <1>1. Top.at = "arms" /\ Top \in Frame
    BY TopTypes DEF ArmOpen, Running
  <1>2. CASE Fail("A0-PARSE-0040") /\ UNCHANGED stack
    BY <1>2 DEF Effect, Fail
  <1>3. ASSUME NEW c \in CaseNames, Len(arms) # MaxArms,
               Goto(Call([Top EXCEPT !.at = "arm", !.name = c], <<At("tail")>>))
        PROVE  Effect
    <2> DEFINE g == [Top EXCEPT !.at = "arm"]
               f == [g EXCEPT !.name = c]
    <2>1. f = [Top EXCEPT !.at = "arm", !.name = c]
      BY <1>1 DEF Frame
    <2>2. "arm" \in Labels
      BY DEF Labels, Holders
    <2>3. /\ g \in Frame /\ g.at = "arm" /\ g.first = Top.first
          /\ g.children = Top.children
      BY <1>1, <2>2, Changed
    <2> HIDE DEF g
    <2>4. /\ f \in Frame /\ f.at = "arm" /\ f.first = Top.first
          /\ f.children = Top.children
      BY <2>3, Changed
    <2> HIDE DEF f
    <2>5. NA < MaxArms
      BY <1>3, Counts, ConstantTypes DEF NA
    <2>6. Continues(f) /\ f.at \notin InValue \cup {"payload_field"}
      BY <1>1, <2>4, <2>5 DEF Continues, Fielders, Armers, Ranged, InValue,
         Primaries, Openers
    <2>7. NothingStored /\ stack' = Call(f, <<At("tail")>>)
      BY <1>3, <2>1 DEF Goto, NothingStored
    <2> QED BY <2>6, <2>7, CallOneEffect
  <1> QED BY <1>2, <1>3 DEF ArmOpen

LEMMA RequirePayloadEffect ==
  ASSUME IInv, RequirePayload
  PROVE  Effect
  <1> DEFINE f == [Top EXCEPT !.at = "require_ready"]
  <1>1. /\ Top.at = "require" /\ NothingStored
        /\ stack' = Call(f, <<At("payload_entry")>>)
    BY DEF RequirePayload, Running, Goto, NothingStored
  <1>2. "require_ready" \in Labels
    BY DEF Labels, Holders
  <1>3. f \in Frame /\ f.at = "require_ready" /\ f.children = Top.children
    BY <1>2, TopTypes, Changed
  <1> HIDE DEF f
  <1>4. Continues(f) /\ f.at \notin InValue \cup {"payload_field"}
    BY <1>1, <1>3 DEF Continues, Fielders, Armers, Ranged, InValue,
       Primaries, Openers
  <1> QED BY <1>1, <1>4, CallOneEffect

LEMMA TailContinueEffect ==
  ASSUME IInv, Continue
  PROVE  Effect
  <1>1. /\ Top.at \in {"let", "require_ready", "if", "accept", "reject"}
        /\ NothingStored /\ stack' = Call(Top, <<At("tail")>>) /\ Top \in Frame
    BY TopTypes DEF Continue, TailLabels, Goto, NothingStored
  <1>2. Continues(Top) /\ Top.at \notin InValue \cup {"payload_field"}
    BY <1>1 DEF Continues, Fielders, Armers, Ranged, InValue,
       Primaries, Openers
  <1> QED BY <1>1, <1>2, CallOneEffect

LEMMA FieldCloseEffect ==
  ASSUME IInv, FieldClose
  PROVE  Effect
  <1>1. /\ Top.at \in Openers /\ Len(Top.children) = 1 /\ Top.name \in FieldNames
        /\ Top \in Frame
    BY TopTypes DEF FieldClose, Ready, FrameOK, Openers
  <1>2. CASE UNCHANGED <<expressions, fields, arms, stack>>
    BY <1>2 DEF Effect
  <1>3. ASSUME NEW l,
               l = (IF Top.at = "record_field" THEN "record" ELSE "payload"),
               fields' = Append(fields, [name |-> Top.name, value |-> Top.children[1]]),
               stack' = Append(Callers,
                          [Top EXCEPT !.at = l, !.children = <<>>, !.name = "none"]),
               UNCHANGED <<expressions, arms>>
        PROVE  Effect
    <2> DEFINE h == [Top EXCEPT !.at = l]
               g == [h EXCEPT !.children = <<>>]
               f == [g EXCEPT !.name = "none"]
    <2>1. l \in Labels /\ <<>> \in Seq(Nat)
      BY <1>3 DEF Labels, Holders
    <2>2. h \in Frame /\ h.at = l /\ h.first = Top.first
      BY <1>1, <2>1, Changed
    <2>3. f = [Top EXCEPT !.at = l, !.children = <<>>, !.name = "none"]
      BY <1>1 DEF Frame
    <2> HIDE DEF h
    <2>4. g \in Frame /\ g.at = l /\ g.first = Top.first /\ g.children = <<>>
      BY <2>1, <2>2, Changed
    <2> HIDE DEF g
    <2>5. f \in Frame /\ f.at = l /\ f.first = Top.first /\ f.children = <<>>
      BY <2>4, Changed
    <2> HIDE DEF f
    <2>6. Replaced(f)
      BY <1>3, <2>3, <2>5, ReplacedShape
    <2>7. FieldEntry(f)
      BY <1>1, <1>3, <2>5, <2>6 DEF FieldEntry
    <2> QED BY <2>7 DEF Effect
  <1> QED BY <1>2, <1>3 DEF FieldClose

LEMMA ArmCloseEffect ==
  ASSUME IInv, ArmClose
  PROVE  Effect
  <1>1. /\ Top.at = "arm" /\ Len(Top.children) = 2 /\ Top.name \in CaseNames
        /\ Top \in Frame
    BY TopTypes DEF ArmClose, Running, Ready, FrameOK
  <1>2. CASE UNCHANGED <<expressions, fields, arms, stack>>
    BY <1>2 DEF Effect
  <1>3. ASSUME arms' = Append(arms, [item |-> Top.name, body |-> Top.children[2]]),
               stack' = Append(Callers,
                          [Top EXCEPT !.at = "arms", !.name = "none",
                                      !.children = <<@[1]>>]),
               UNCHANGED <<expressions, fields>>
        PROVE  Effect
    <2> DEFINE h == [Top EXCEPT !.at = "arms"]
               g == [h EXCEPT !.name = "none"]
               c == <<Top.children[1]>>
               f == [g EXCEPT !.children = c]
    <2>1. "arms" \in Labels
      BY DEF Labels, Holders
    <2>2. c \in Seq(Nat)
      <3>1. Top.children[1] \in Nat
        BY <1>1, OperandOK
      <3> QED BY <3>1
    <2>3. f = [Top EXCEPT !.at = "arms", !.name = "none", !.children = <<@[1]>>]
      BY <1>1 DEF Frame
    <2>4. h \in Frame /\ h.at = "arms" /\ h.first = Top.first
      BY <1>1, <2>1, Changed
    <2> HIDE DEF h
    <2>5. g \in Frame /\ g.at = "arms" /\ g.first = Top.first
      BY <2>4, Changed
    <2> HIDE DEF g, c
    <2>6. f \in Frame /\ f.at = "arms" /\ f.first = Top.first /\ f.children = c
      BY <2>2, <2>5, Changed
    <2> HIDE DEF f
    <2>7. Replaced(f)
      BY <1>3, <2>3, <2>6, ReplacedShape
    <2>8. ArmEntry(f)
      BY <1>1, <1>3, <2>6, <2>7 DEF ArmEntry, c
    <2> QED BY <2>8 DEF Effect
  <1> QED BY <1>2, <1>3 DEF ArmClose

LEMMA NextEffect ==
  ASSUME IInv, [Next]_vars
  PROVE  Effect
  <1>1. CASE UNCHANGED vars
    BY <1>1 DEF vars, Effect
  <1>2. CASE BodyClose \/ SyntaxError
    BY <1>2 DEF BodyClose, SyntaxError, Fail, Effect
  <1>3. CASE Next
    BY <1>2, <1>3, LeafEffect, OpenParenEffect, HandingEffect, OpenRecordEffect,
       FieldOpenEffect, FieldCloseEffect, RecordCloseEffect, PayloadEffects,
       PayloadOpenEffect, ProjectEffect, OperatorEffect, CombineEffect,
       KernelTailEffect, MatchOpenEffect, ArmOpenEffect, ArmCloseEffect,
       MatchCloseEffect, RequirePayloadEffect, TailContinueEffect, FinishEffect
       DEF Next
  <1> QED BY <1>1, <1>3

-----------------------------------------------------------------------------
(***************************************************************************)
(* The frames after a call.                                                *)
(***************************************************************************)
Called(f) ==
  /\ Len(stack') \in Nat /\ Len(stack') >= L
  /\ \A k \in 1..(L - 1) : stack'[k] = stack[k]
  /\ stack'[L] = f
  /\ \A k \in (L + 1)..Len(stack') : Fresh(stack'[k])
  /\ \/ Len(stack') <= L + 1
     \/ \A k \in (L + 1)..Len(stack') : stack'[k].at \in InValue
  /\ f.at \in InValue \cup {"payload_field"} =>
       \A k \in (L + 1)..Len(stack') : stack'[k].at \in InValue

LEMMA CallingShape ==
  ASSUME IInv, NEW f, NEW u, Calling(f, u)
  PROVE  Called(f)
  <1> DEFINE s == Append(Callers, f)
  <1>1. f \in Frame /\ u \in Seq(Frame) /\ Len(u) \in Nat
    BY LenProperties DEF Calling, Continues
  <1>2. /\ s \in Seq(Frame) /\ Len(s) = L
        /\ \A k \in 1..(L - 1) : s[k] = stack[k]
        /\ s[L] = f
    <2>1. /\ s \in Seq(Frame) /\ Len(s) = Len(Callers) + 1
          /\ \A k \in 1..Len(Callers) : s[k] = Callers[k]
          /\ s[Len(Callers) + 1] = f
      BY <1>1, Sizes, PushSeq
    <2> HIDE DEF s
    <2>2. Len(Callers) + 1 = L
      BY Sizes
    <2> QED BY <2>1, <2>2, Sizes
  <1> HIDE DEF s
  <1>3. /\ Len(s \o u) = Len(s) + Len(u)
        /\ \A i \in 1..(Len(s) + Len(u)) :
             (s \o u)[i] = IF i <= Len(s) THEN s[i] ELSE u[i - Len(s)]
    BY <1>1, <1>2, ConcatProperties
  <1>4. stack' = s \o u
    BY DEF Calling, s
  <1>5. Len(stack') = L + Len(u)
    BY <1>2, <1>3, <1>4
  <1>6. \A i \in 1..(L + Len(u)) : stack'[i] = IF i <= L THEN s[i] ELSE u[i - L]
    BY <1>2, <1>3, <1>4
  <1>7. \A k \in (L + 1)..Len(stack') :
          k - L \in 1..Len(u) /\ stack'[k] = u[k - L]
    BY <1>1, <1>5, <1>6, Sizes
  <1>8. /\ \A k \in 1..(L - 1) : stack'[k] = stack[k]
        /\ stack'[L] = f
    <2>1. \A m, n \in Nat : m > 0 =>
            /\ \A k \in 1..(m - 1) : k \in 1..(m + n) /\ k <= m
            /\ m \in 1..(m + n) /\ m <= m
      OBVIOUS
    <2>2. /\ \A k \in 1..(L - 1) : k \in 1..(L + Len(u)) /\ k <= L
          /\ L \in 1..(L + Len(u)) /\ L <= L
      BY <1>1, <2>1, Sizes
    <2> QED BY <1>2, <1>6, <2>2
  <1>9. /\ Len(stack') \in Nat /\ Len(stack') >= L
        /\ Len(u) <= 1 => Len(stack') <= L + 1
    BY <1>1, <1>5, Sizes
  <1> QED BY <1>7, <1>8, <1>9 DEF Called, Calling

-----------------------------------------------------------------------------
(***************************************************************************)
(* The order of the open frames.                                           *)
(***************************************************************************)
NestedPair(g, h) ==
  /\ g.at \in InValue \cup {"payload_field"} => h.at \in InValue
  /\ g.at \in Fielders /\ h.at \in Fielders => g.first <= h.first
  /\ g.at \in Armers /\ h.at \in Armers => g.first <= h.first

LEMMA NestedIsPairs ==
  Nested <=> \A k, l \in 1..Len(stack) : k < l => NestedPair(stack[k], stack[l])
  BY DEF Nested, NestedPair

LEMMA NestedIsPairsNext ==
  (\A k, l \in 1..Len(stack') : k < l => NestedPair(stack'[k], stack'[l]))
    => Nested'
  BY DEF Nested, NestedPair

\* A production that has just been called opens no range.
LEMMA FreshNested ==
  ASSUME NEW g, NEW h, Fresh(h),
         g.at \in InValue \cup {"payload_field"} => h.at \in InValue
  PROVE  NestedPair(g, h)
  BY DEF NestedPair, Fresh, Fielders, Armers

\* The ranges opened so far start at or before the number of entries.
LEMMA FirstBounded ==
  ASSUME IInv, NEW k \in 1..L
  PROVE  /\ stack[k] \in Frame /\ stack[k].first \in Nat
         /\ stack[k].at \in Fielders => stack[k].first <= NF
         /\ stack[k].at \in Armers => stack[k].first <= NA
  <1>1. FrameOK(stack[k], N, NF, NA)
    BY DEF IInv, StackOK, L, N, NF, NA
  <1> QED BY <1>1, FrameFields DEF FrameOK

LEMMA NestedCalled ==
  ASSUME IInv, Nested, NEW f, Continues(f), Called(f)
  PROVE  Nested'
  <1>1. \A k \in 1..(L - 1) : NestedPair(stack[k], f)
    <2> SUFFICES ASSUME NEW k \in 1..(L - 1) PROVE NestedPair(stack[k], f)
      OBVIOUS
    <2>1. k \in 1..L /\ L \in 1..L /\ k < L
      BY Sizes
    <2>2. NestedPair(stack[k], Top)
      BY <2>1, NestedIsPairs, Sizes DEF L
    <2> QED BY <2>1, <2>2, FirstBounded DEF NestedPair, Continues
  <1> SUFFICES ASSUME NEW k \in 1..Len(stack'), NEW l \in 1..Len(stack'), k < l
               PROVE  NestedPair(stack'[k], stack'[l])
    BY NestedIsPairsNext
  <1>2. CASE l < L
    <2>1. k \in 1..(L - 1) /\ l \in 1..(L - 1) /\ k \in 1..L /\ l \in 1..L
      BY <1>2, Sizes
    <2> QED BY <2>1, NestedIsPairs DEF Called, L
  <1>3. CASE l = L
    <2>1. k \in 1..(L - 1)
      BY <1>3, Sizes
    <2> QED BY <1>1, <1>3, <2>1 DEF Called
  <1>4. CASE l > L
    <2>1. l \in (L + 1)..Len(stack') /\ Fresh(stack'[l])
      BY <1>4, Sizes DEF Called
    <2>2. CASE k <= L
      <3>1. stack'[k].at \in InValue \cup {"payload_field"} =>
              f.at \in InValue \cup {"payload_field"}
        <4>1. k \in 1..(L - 1) \/ k = L
          BY <2>2, Sizes
        <4> QED BY <1>1, <4>1 DEF Called, NestedPair
      <3> QED BY <2>1, <3>1, FreshNested DEF Called
    <2>3. CASE k > L
      <3>1. ~(Len(stack') <= L + 1)
        BY <1>4, <2>1, <2>3, Sizes DEF Called
      <3>2. stack'[l].at \in InValue
        BY <2>1, <3>1 DEF Called
      <3> QED BY <2>1, <3>2, FreshNested
    <2> QED BY <2>2, <2>3, Sizes
  <1> QED BY <1>2, <1>3, <1>4, Sizes

\* What f holds and where it began is what g held.
LEMMA SamePair ==
  ASSUME NEW g, NEW h, NEW f, NestedPair(g, h),
         h.at \in InValue => f.at \in InValue,
         f.at \in Fielders => h.at \in Fielders /\ f.first = h.first,
         f.at \in Armers => h.at \in Armers /\ f.first = h.first
  PROVE  NestedPair(g, f)
  BY DEF NestedPair

LEMMA NestedReplaced ==
  ASSUME IInv, Nested, NEW f, Replaced(f),
         Top.at \in InValue => f.at \in InValue,
         f.at \in Fielders => Top.at \in Fielders /\ f.first = Top.first,
         f.at \in Armers => Top.at \in Armers /\ f.first = Top.first
  PROVE  Nested'
  <1> SUFFICES ASSUME NEW k \in 1..Len(stack'), NEW l \in 1..Len(stack'), k < l
               PROVE  NestedPair(stack'[k], stack'[l])
    BY NestedIsPairsNext
  <1>1. Len(stack') = L /\ k \in 1..L /\ l \in 1..L /\ k \in 1..(L - 1)
    BY Sizes DEF Replaced
  <1>2. NestedPair(stack[k], stack[l])
    BY <1>1, NestedIsPairs DEF L
  <1>3. stack'[k] = stack[k]
    BY <1>1 DEF Replaced
  <1>4. CASE l = L
    BY <1>2, <1>3, <1>4, Sizes, SamePair DEF Replaced
  <1>5. CASE l \in 1..(L - 1)
    BY <1>2, <1>3, <1>5 DEF Replaced
  <1> QED BY <1>1, <1>4, <1>5, Sizes

LEMMA NestedLeft ==
  ASSUME IInv, Nested, NEW f, Left(f), L - 1 > 0,
         f.at = stack[L - 1].at,
         f.at \in Fielders \cup Armers => f.first = stack[L - 1].first
  PROVE  Nested'
  <1> SUFFICES ASSUME NEW k \in 1..Len(stack'), NEW l \in 1..Len(stack'), k < l
               PROVE  NestedPair(stack'[k], stack'[l])
    BY NestedIsPairsNext
  <1>1. Len(stack') = L - 1 /\ k \in 1..L /\ l \in 1..L /\ k \in 1..(L - 2)
    BY Sizes DEF Left
  <1>2. NestedPair(stack[k], stack[l])
    BY <1>1, NestedIsPairs DEF L
  <1>3. stack'[k] = stack[k]
    BY <1>1 DEF Left
  <1>4. CASE l = L - 1
    BY <1>2, <1>3, <1>4, Sizes, SamePair DEF Left
  <1>5. CASE l \in 1..(L - 2)
    BY <1>2, <1>3, <1>5 DEF Left
  <1>6. l = L - 1 \/ l \in 1..(L - 2)
    BY <1>1, Sizes
  <1> QED BY <1>4, <1>5, <1>6

LEMMA CallerExists ==
  ASSUME IInv, Top.at # "body"
  PROVE  /\ L - 1 > 0 /\ L - 1 \in 1..L /\ stack[L - 1] \in Frame
         /\ Wants(stack[L - 1], Top) /\ FrameOK(stack[L - 1], N, NF, NA)
         /\ \A k \in 1..L : k \in 1..(L - 2) \/ k = L - 1 \/ k = L
  <1>1. Len(Callers) > 0 /\ Wants(Callers[Len(Callers)], Top)
    BY TopTypes
  <1>2. L - 1 > 0 /\ L - 1 \in 1..L /\ L - 1 \in 1..(L - 1)
    BY <1>1, Sizes
  <1>3. FrameOK(stack[L - 1], N, NF, NA)
    BY <1>2 DEF IInv, StackOK, L, N, NF, NA
  <1>4. Callers[Len(Callers)] = stack[L - 1]
    BY <1>2, Sizes
  <1>5. \A k \in 1..L : k \in 1..(L - 2) \/ k = L - 1 \/ k = L
    BY Sizes
  <1> QED BY <1>1, <1>2, <1>3, <1>4, <1>5, Sizes

\* The caller with a result is the caller as far as its range goes.
LEMMA CallerWith ==
  ASSUME IInv, Top.at # "body", NEW e \in Nat
  PROVE  LET g == With(stack[L - 1], e) IN
         /\ g \in Frame /\ g.at = stack[L - 1].at
         /\ g.first = stack[L - 1].first /\ g.count = stack[L - 1].count
  BY CallerExists, WithFields

LEMMA NestedStep ==
  ASSUME IInv, Nested, Effect
  PROVE  Nested'
  <1>1. CASE UNCHANGED <<expressions, fields, arms, stack>>
    BY <1>1 DEF Nested
  <1>2. ASSUME NEW f, NEW u, Calling(f, u)
        PROVE  Nested'
    BY <1>2, CallingShape, NestedCalled DEF Calling
  <1>3. CASE Handing
    <2>1. /\ Left(With(stack[L - 1], Top.children[1])) /\ Top.at # "body"
          /\ Top.children[1] \in Nat
      BY <1>3, OperandOK DEF Handing
    <2> QED BY <2>1, CallerExists, CallerWith, NestedLeft
  <1>4. ASSUME NEW kind, NEW f, Storing(kind, f), Leaving
        PROVE  Nested'
    <2>1. /\ Left(With(stack[L - 1], N + 1)) /\ Top.at # "body"
          /\ N + 1 \in Nat
      BY <1>4, Counts DEF Storing, Leaving
    <2> QED BY <2>1, CallerExists, CallerWith, NestedLeft
  <1>5. CASE Folding
    <2> DEFINE f == [Top EXCEPT !.children = <<N + 1>>]
    <2>1. Top \in Frame /\ <<N + 1>> \in Seq(Nat)
      BY TopTypes, Counts
    <2>2. f.at = Top.at /\ f.first = Top.first
      BY <2>1, Changed
    <2>3. Replaced(f)
      BY <1>5 DEF Folding
    <2> HIDE DEF f
    <2> QED BY <2>2, <2>3, NestedReplaced
  <1>6. ASSUME NEW f, Paying(f)
        PROVE  Nested'
    <2>1. /\ Top.at # "body" /\ Left(f) /\ f.at = stack[L - 1].at
          /\ Top.at \in Payloads
      BY <1>6 DEF Paying, Payloads
    <2>2. f.at \notin Fielders \cup Armers
      BY <2>1, CallerExists DEF Wants, Payloads, Tails, Primaries, Fielders, Armers
    <2> QED BY <2>1, <2>2, CallerExists, NestedLeft
  <1>7. ASSUME NEW f, FieldEntry(f)
        PROVE  Nested'
    <2>1. /\ Replaced(f) /\ f.first = Top.first
          /\ f.at = (IF Top.at = "record_field" THEN "record" ELSE "payload")
          /\ Top.at \in {"record_field", "payload_field"}
      BY <1>7 DEF FieldEntry, Openers
    <2>2. /\ Top.at \in InValue => f.at \in InValue
          /\ Top.at \in Fielders /\ f.at \notin Armers
      BY <2>1 DEF InValue, Primaries, Fielders, Armers
    <2> QED BY <2>1, <2>2, NestedReplaced
  <1>8. ASSUME NEW f, ArmEntry(f)
        PROVE  Nested'
    <2>1. /\ Replaced(f) /\ f.first = Top.first /\ f.at = "arms"
          /\ Top.at = "arm"
      BY <1>8 DEF ArmEntry
    <2>2. /\ Top.at \notin InValue /\ f.at \notin Fielders
          /\ Top.at \in Armers
      BY <2>1 DEF InValue, Primaries, Fielders, Armers
    <2> QED BY <2>1, <2>2, NestedReplaced
  <1> QED BY <1>1, <1>2, <1>3, <1>4, <1>5, <1>6, <1>7, <1>8 DEF Effect

-----------------------------------------------------------------------------
(***************************************************************************)
(* What was stored since an open entry looked at the capacity.             *)
(***************************************************************************)
\* Nothing, or one expression, has been stored.
Grown ==
  \/ expressions' = expressions
  \/ \E e \in Expression : expressions' = Append(expressions, e)

LEMMA GrownKeeps ==
  ASSUME IInv, Grown
  PROVE  /\ Len(expressions') \in Nat /\ Len(expressions') >= N
         /\ \A i \in 1..N : i \in 1..Len(expressions')
                            /\ expressions'[i] = expressions[i]
  <1>1. CASE expressions' = expressions
    BY <1>1, Counts DEF N
  <1>2. ASSUME NEW e \in Expression, expressions' = Append(expressions, e)
        PROVE  /\ Len(expressions') \in Nat /\ Len(expressions') >= N
               /\ \A i \in 1..N : i \in 1..Len(expressions')
                                  /\ expressions'[i] = expressions[i]
    <2>1. /\ Len(expressions') = N + 1
          /\ \A i \in 1..N : expressions'[i] = expressions[i]
      BY <1>2, Counts, PushSeq DEF N
    <2> QED BY <2>1, Counts, OneMore
  <1> QED BY <1>1, <1>2 DEF Grown

LEMMA SinceGrows ==
  ASSUME IInv, Grown, NEW m
  PROVE  /\ UNCHANGED fields /\ FieldsSince(m) => FieldsSince(m)'
         /\ UNCHANGED arms /\ ArmsSince(m) => ArmsSince(m)'
  BY GrownKeeps DEF FieldsSince, ArmsSince, IsMatch, N

\* The frames up to the running one stay, which has become f.
Kept(f) ==
  /\ Len(stack') \in Nat /\ Len(stack') >= L
  /\ \A k \in 1..(L - 1) : stack'[k] = stack[k]
  /\ stack'[L] = f
  /\ \A k \in (L + 1)..Len(stack') : stack'[k].at \notin Openers \cup {"arm"}

LEMMA CalledKept ==
  ASSUME NEW f, Called(f)
  PROVE  Kept(f)
  BY DEF Called, Kept, Fresh, Openers

LEMMA ReplacedKept ==
  ASSUME IInv, NEW f, Replaced(f)
  PROVE  Kept(f)
  BY Sizes DEF Replaced, Kept

LEMMA LookedFieldsNext ==
  (\A k \in 1..Len(stack') : \A m :
     stack'[k].at \in Openers /\ m = stack'[k].first
       => FieldsSince(m)' \/ FieldsAbove(k)')
    => LookedFields'
  BY DEF LookedFields, FieldsSince, FieldsAbove, IsMatch

LEMMA LookedFieldsKept ==
  ASSUME IInv, LookedFields, NEW f, Kept(f), Grown, UNCHANGED fields,
         Top.at \in Fielders => f.at \in Fielders /\ f.first = Top.first,
         f.at \in Openers => NF < MaxFields
  PROVE  LookedFields'
  <1> SUFFICES ASSUME NEW k \in 1..Len(stack'), stack'[k].at \in Openers,
                      NEW m, m = stack'[k].first
               PROVE  FieldsSince(m)' \/ FieldsAbove(k)'
    BY LookedFieldsNext
  <1>1. CASE k \in 1..(L - 1)
    <2>1. stack'[k] = stack[k] /\ k \in 1..L /\ k < L
      BY <1>1, Sizes DEF Kept
    <2>2. CASE FieldsSince(m)
      BY <2>2, SinceGrows
    <2>3. ASSUME NEW l \in 1..L, k < l, stack[l].at \in Fielders,
                 stack[l].first < NF
          PROVE  FieldsAbove(k)'
      <3>1. stack'[l].at \in Fielders /\ stack'[l].first = stack[l].first
        BY <2>3, Sizes DEF Kept
      <3>2. l \in 1..Len(stack')
        BY Sizes DEF Kept
      <3> QED BY <2>3, <3>1, <3>2 DEF FieldsAbove, NF
    <2> QED BY <2>1, <2>2, <2>3 DEF LookedFields, FieldsAbove, L, NF
  <1>2. CASE k = L
    BY <1>2 DEF Kept, FieldsSince, NF
  <1>3. k \in 1..(L - 1) \/ k = L \/ k \in (L + 1)..Len(stack')
    BY Sizes DEF Kept
  <1> QED BY <1>1, <1>2, <1>3 DEF Kept

LEMMA LookedFieldsLeft ==
  ASSUME IInv, Top.at # "body", LookedFields, NEW f, Left(f), Grown,
         UNCHANGED fields, f.at = stack[L - 1].at,
         f.at \in Fielders => f.first = stack[L - 1].first,
         \A k \in 1..(L - 1) : \A m :
           stack[k].at \in Openers /\ m = stack[k].first
           /\ Top.at \in Fielders /\ Top.first < NF => FieldsSince(m)'
  PROVE  LookedFields'
  <1> SUFFICES ASSUME NEW k \in 1..Len(stack'), stack'[k].at \in Openers,
                      NEW m, m = stack'[k].first
               PROVE  FieldsSince(m)' \/ FieldsAbove(k)'
    BY LookedFieldsNext
  <1>1. /\ Len(stack') = L - 1 /\ k \in 1..(L - 1) /\ k \in 1..L /\ k < L
    BY CallerExists, Sizes DEF Left
  <1>2. \A l \in 1..(L - 1) : /\ stack'[l].at = stack[l].at
                              /\ stack[l].at \in Fielders =>
                                   stack'[l].first = stack[l].first
    BY CallerExists, Sizes DEF Left
  <1>3. stack[k].at \in Openers /\ m = stack[k].first
    BY <1>1, <1>2 DEF Openers, Fielders
  <1>4. CASE FieldsSince(m)
    BY <1>4, SinceGrows
  <1>5. ASSUME NEW l \in 1..L, k < l, stack[l].at \in Fielders,
               stack[l].first < NF
        PROVE  FieldsSince(m)' \/ FieldsAbove(k)'
    <2>1. CASE l = L
      BY <1>1, <1>3, <1>5, <2>1, Sizes
    <2>2. CASE l \in 1..(L - 1)
      <3>1. /\ l \in 1..Len(stack') /\ stack'[l].at \in Fielders
            /\ stack'[l].first = stack[l].first
        BY <1>1, <1>2, <1>5, <2>2
      <3> QED BY <1>5, <3>1 DEF FieldsAbove, NF
    <2> QED BY <2>1, <2>2, Sizes
  <1> QED BY <1>1, <1>3, <1>4, <1>5 DEF LookedFields, FieldsAbove, L, NF

LEMMA LookedArmsNext ==
  (\A k \in 1..Len(stack') : \A m :
     stack'[k].at = "arm" /\ m = stack'[k].first
       => ArmsSince(m)' \/ ArmsAbove(k)')
    => LookedArms'
  BY DEF LookedArms, ArmsSince, ArmsAbove, IsMatch

LEMMA LookedArmsKept ==
  ASSUME IInv, LookedArms, NEW f, Kept(f), Grown, UNCHANGED arms,
         Top.at \in Armers => f.at \in Armers /\ f.first = Top.first,
         f.at = "arm" => NA < MaxArms
  PROVE  LookedArms'
  <1> SUFFICES ASSUME NEW k \in 1..Len(stack'), stack'[k].at = "arm",
                      NEW m, m = stack'[k].first
               PROVE  ArmsSince(m)' \/ ArmsAbove(k)'
    BY LookedArmsNext
  <1>1. CASE k \in 1..(L - 1)
    <2>1. stack'[k] = stack[k] /\ k \in 1..L /\ k < L
      BY <1>1, Sizes DEF Kept
    <2>2. CASE ArmsSince(m)
      BY <2>2, SinceGrows
    <2>3. ASSUME NEW l \in 1..L, k < l, stack[l].at \in Armers,
                 stack[l].first < NA
          PROVE  ArmsAbove(k)'
      <3>1. stack'[l].at \in Armers /\ stack'[l].first = stack[l].first
        BY <2>3, Sizes DEF Kept
      <3>2. l \in 1..Len(stack')
        BY Sizes DEF Kept
      <3> QED BY <2>3, <3>1, <3>2 DEF ArmsAbove, NA
    <2> QED BY <2>1, <2>2, <2>3 DEF LookedArms, ArmsAbove, L, NA
  <1>2. CASE k = L
    BY <1>2 DEF Kept, ArmsSince, NA
  <1>3. k \in 1..(L - 1) \/ k = L \/ k \in (L + 1)..Len(stack')
    BY Sizes DEF Kept
  <1> QED BY <1>1, <1>2, <1>3 DEF Kept

LEMMA LookedArmsLeft ==
  ASSUME IInv, Top.at # "body", LookedArms, NEW f, Left(f), Grown,
         UNCHANGED arms, f.at = stack[L - 1].at,
         f.at \in Armers => f.first = stack[L - 1].first,
         \A k \in 1..(L - 1) : \A m :
           stack[k].at = "arm" /\ m = stack[k].first
           /\ Top.at \in Armers /\ Top.first < NA => ArmsSince(m)'
  PROVE  LookedArms'
  <1> SUFFICES ASSUME NEW k \in 1..Len(stack'), stack'[k].at = "arm",
                      NEW m, m = stack'[k].first
               PROVE  ArmsSince(m)' \/ ArmsAbove(k)'
    BY LookedArmsNext
  <1>1. /\ Len(stack') = L - 1 /\ k \in 1..(L - 1) /\ k \in 1..L /\ k < L
    BY CallerExists, Sizes DEF Left
  <1>2. \A l \in 1..(L - 1) : /\ stack'[l].at = stack[l].at
                              /\ stack[l].at \in Armers =>
                                   stack'[l].first = stack[l].first
    BY CallerExists, Sizes DEF Left
  <1>3. stack[k].at = "arm" /\ m = stack[k].first
    BY <1>1, <1>2 DEF Openers, Armers
  <1>4. CASE ArmsSince(m)
    BY <1>4, SinceGrows
  <1>5. ASSUME NEW l \in 1..L, k < l, stack[l].at \in Armers,
               stack[l].first < NA
        PROVE  ArmsSince(m)' \/ ArmsAbove(k)'
    <2>1. CASE l = L
      BY <1>1, <1>3, <1>5, <2>1, Sizes
    <2>2. CASE l \in 1..(L - 1)
      <3>1. /\ l \in 1..Len(stack') /\ stack'[l].at \in Armers
            /\ stack'[l].first = stack[l].first
        BY <1>1, <1>2, <1>5, <2>2
      <3> QED BY <1>5, <3>1 DEF ArmsAbove, NA
    <2> QED BY <2>1, <2>2, Sizes
  <1> QED BY <1>1, <1>3, <1>4, <1>5 DEF LookedArms, ArmsAbove, L, NA

LEMMA NewEntry ==
  ASSUME IInv, NEW kind, NEW f, Storing(kind, f)
  PROVE  /\ Grown /\ Len(expressions') = N + 1
         /\ N + 1 \in 1..Len(expressions')
         /\ expressions'[N + 1] = Node(kind, f)
         /\ \A i \in 1..N : expressions'[i] = expressions[i]
  <1>1. /\ expressions' = Append(expressions, Node(kind, f))
        /\ Node(kind, f) \in Expression
    BY DEF Storing
  <1>2. Grown
    BY <1>1 DEF Grown
  <1> DEFINE e == Node(kind, f)
  <1> HIDE DEF e
  <1>3. /\ Len(Append(expressions, e)) = N + 1
        /\ Append(expressions, e)[N + 1] = e
        /\ \A i \in 1..N : Append(expressions, e)[i] = expressions[i]
    BY <1>1, Counts, PushSeq DEF N, e
  <1> QED BY <1>1, <1>2, <1>3, Counts, OneMore DEF e

\* The range of a construct that closes is the range of its expression.
LEMMA StoredSince ==
  ASSUME IInv, Nested, NEW kind, NEW f, Storing(kind, f),
         NEW k \in 1..(L - 1), NEW m, m = stack[k].first
  PROVE  /\ stack[k].at \in Openers /\ Top.at \in Fielders /\ Top.first < NF
              => FieldsSince(m)'
         /\ stack[k].at = "arm" /\ Top.at \in Armers /\ Top.first < NA
              => ArmsSince(m)'
  <1>1. k \in 1..L /\ L \in 1..L /\ k < L
    BY Sizes
  <1>2. NestedPair(stack[k], Top)
    BY <1>1, NestedIsPairs, Sizes DEF L
  <1>3. /\ m \in Nat /\ Top.first \in Nat
        /\ NF \in Nat /\ NA \in Nat
    BY <1>1, FirstBounded, TopTypes, FrameFields, Counts
  <1>a. PICK i \in Nat : i = N + 1
    BY Counts
  <1>4. /\ i \in 1..Len(expressions')
        /\ expressions'[i].kind = kind /\ expressions'[i].first = f.first
        /\ expressions'[i].count = f.count
    BY <1>a, NewEntry, NodeFields
  <1>5. IsMatch(i)' <=> kind = "match"
    BY <1>4 DEF IsMatch
  <1>6. ASSUME stack[k].at \in Openers, Top.at \in Fielders, Top.first < NF
        PROVE  FieldsSince(m)'
    <2>1. kind # "match" /\ f.first = Top.first /\ f.count = NF - Top.first
      BY <1>6 DEF Storing, Describes
    <2>2. m <= Top.first
      BY <1>2, <1>6 DEF NestedPair, Openers, Fielders
    <2>3. f.first >= m /\ f.count > 0
      BY <1>3, <1>6, <2>1, <2>2
    <2>4. ~(IsMatch(i)')
      BY <1>5, <2>1
    <2> QED BY <1>4, <2>3, <2>4 DEF FieldsSince
  <1>7. ASSUME stack[k].at = "arm", Top.at \in Armers, Top.first < NA
        PROVE  ArmsSince(m)'
    <2>1. kind = "match" /\ f.first = Top.first /\ f.count = NA - Top.first
      BY <1>7 DEF Storing, Describes
    <2>2. m <= Top.first
      BY <1>2, <1>7 DEF NestedPair, Armers
    <2>3. f.first >= m /\ f.count > 0
      BY <1>3, <1>7, <2>1, <2>2
    <2>4. IsMatch(i)'
      BY <1>5, <2>1
    <2> QED BY <1>4, <2>3, <2>4 DEF ArmsSince
  <1> QED BY <1>6, <1>7

\* A payload stands inside no value.
LEMMA PayloadOutside ==
  ASSUME IInv, Nested, Top.at \in {"payload_entry", "payload"}, NEW k \in 1..(L - 1)
  PROVE  stack[k].at \notin Openers
  <1>1. k \in 1..L /\ L \in 1..L /\ k < L
    BY Sizes
  <1>2. NestedPair(stack[k], Top)
    BY <1>1, NestedIsPairs, Sizes DEF L
  <1> QED BY <1>2 DEF NestedPair, Openers, InValue, Primaries

LEMMA FieldEntryCount ==
  ASSUME IInv, NEW f, FieldEntry(f)
  PROVE  Len(fields') = NF + 1
  <1>1. PICK name \in FieldNames :
          fields' = Append(fields, [name |-> name, value |-> Top.children[1]])
    BY DEF FieldEntry
  <1>2. Top.children[1] \in Nat
    BY OperandOK DEF FieldEntry
  <1> DEFINE r == [name |-> name, value |-> Top.children[1]]
  <1>3. r \in [name : FieldNames, value : Nat]
    BY <1>2
  <1> HIDE DEF r
  <1>4. Len(Append(fields, r)) = NF + 1
    BY <1>3, Counts, PushSeq DEF NF
  <1> QED BY <1>1, <1>4 DEF r

LEMMA ArmEntryCount ==
  ASSUME IInv, NEW f, ArmEntry(f)
  PROVE  Len(arms') = NA + 1
  <1>1. PICK item \in CaseNames :
          arms' = Append(arms, [item |-> item, body |-> Top.children[2]])
    BY DEF ArmEntry
  <1>2. Top.children[2] \in Nat
    BY OperandOK DEF ArmEntry
  <1> DEFINE r == [item |-> item, body |-> Top.children[2]]
  <1>3. r \in [item : CaseNames, body : Nat]
    BY <1>2
  <1> HIDE DEF r
  <1>4. Len(Append(arms, r)) = NA + 1
    BY <1>3, Counts, PushSeq DEF NA
  <1> QED BY <1>1, <1>4 DEF r

LEMMA LookedFieldsStep ==
  ASSUME IInv, Nested, LookedFields, Effect
  PROVE  LookedFields'
  <1>1. CASE UNCHANGED <<expressions, fields, arms, stack>>
    BY <1>1 DEF LookedFields, FieldsSince, FieldsAbove, IsMatch
  <1>2. ASSUME NEW f, NEW u, Calling(f, u)
        PROVE  LookedFields'
    <2>1. Kept(f) /\ Grown /\ UNCHANGED fields /\ Continues(f)
      BY <1>2, CallingShape, CalledKept DEF Calling, NothingStored, Grown
    <2> QED BY <2>1, LookedFieldsKept DEF Continues
  <1>3. CASE Handing
    <2>1. /\ Left(With(stack[L - 1], Top.children[1])) /\ Top.at # "body"
          /\ Top.children[1] \in Nat /\ Top.at \notin Fielders
          /\ Grown /\ UNCHANGED fields
      BY <1>3, OperandOK DEF Handing, NothingStored, Grown, Fielders
    <2> QED BY <2>1, CallerWith, LookedFieldsLeft
  <1>4. ASSUME NEW kind, NEW f, Storing(kind, f), Leaving
        PROVE  LookedFields'
    <2>1. /\ Left(With(stack[L - 1], N + 1)) /\ Top.at # "body"
          /\ N + 1 \in Nat /\ Grown /\ UNCHANGED fields
      BY <1>4, Counts, NewEntry DEF Storing, Leaving
    <2> QED BY <1>4, <2>1, CallerWith, StoredSince, LookedFieldsLeft
  <1>5. ASSUME NEW kind, NEW g, Storing(kind, g), Folding
        PROVE  LookedFields'
    <2> DEFINE f == [Top EXCEPT !.children = <<N + 1>>]
    <2>1. Top \in Frame /\ <<N + 1>> \in Seq(Nat)
      BY TopTypes, Counts
    <2>2. f.at = Top.at /\ f.first = Top.first
      BY <2>1, Changed
    <2>3. Replaced(f) /\ Top.at \notin Openers
      BY <1>5 DEF Folding, Openers
    <2>4. Grown /\ UNCHANGED fields
      BY <1>5, NewEntry DEF Storing
    <2> HIDE DEF f
    <2> QED BY <2>2, <2>3, <2>4, ReplacedKept, LookedFieldsKept
  <1>6. ASSUME NEW f, Paying(f)
        PROVE  LookedFields'
    <2>1. /\ Top.at # "body" /\ Left(f) /\ f.at = stack[L - 1].at
          /\ Top.at \in Payloads /\ Grown /\ UNCHANGED fields
      BY <1>6 DEF Paying, Payloads, NothingStored, Grown
    <2>2. f.at \notin Fielders
      BY <2>1, CallerExists DEF Wants, Payloads, Tails, Primaries, Fielders
    <2>3. \A k \in 1..(L - 1) : stack[k].at \notin Openers
      BY <1>6, PayloadOutside DEF Paying
    <2> QED BY <2>1, <2>2, <2>3, LookedFieldsLeft
  <1>7. ASSUME NEW f, FieldEntry(f)
        PROVE  LookedFields'
    <2>1. /\ Replaced(f) /\ f.first = Top.first
          /\ f.at \in Fielders /\ f.at \notin Openers /\ Top.at \in Fielders
      BY <1>7 DEF FieldEntry, Openers, Fielders
    <2>2. Top.first \in Nat /\ Top.first <= NF /\ NF \in Nat
      BY <2>1, TopTypes, FrameFields, Counts DEF FrameOK
    <2>3. f.first < Len(fields')
      BY <1>7, <2>1, <2>2, FieldEntryCount
    <2>4. /\ Len(stack') = L /\ stack'[L] = f /\ L \in 1..Len(stack')
      BY <2>1, Sizes DEF Replaced
    <2>5. \A k \in 1..(L - 1) : FieldsAbove(k)'
      <3> TAKE k \in 1..(L - 1)
      <3>1. k < L
        BY Sizes
      <3> QED BY <2>1, <2>3, <2>4, <3>1 DEF FieldsAbove
    <2>6. \A k \in 1..L : k \in 1..(L - 1) \/ k = L
      BY Sizes
    <2> QED BY <2>1, <2>4, <2>5, <2>6, LookedFieldsNext
  <1>8. ASSUME NEW f, ArmEntry(f)
        PROVE  LookedFields'
    <2>1. /\ Replaced(f) /\ Grown /\ UNCHANGED fields
          /\ Top.at \notin Fielders /\ f.at \notin Openers
      BY <1>8 DEF ArmEntry, Grown, Fielders, Openers
    <2> QED BY <2>1, ReplacedKept, LookedFieldsKept
  <1> QED BY <1>1, <1>2, <1>3, <1>4, <1>5, <1>6, <1>7, <1>8 DEF Effect

LEMMA LookedArmsStep ==
  ASSUME IInv, Nested, LookedArms, Effect
  PROVE  LookedArms'
  <1>1. CASE UNCHANGED <<expressions, fields, arms, stack>>
    BY <1>1 DEF LookedArms, ArmsSince, ArmsAbove, IsMatch
  <1>2. ASSUME NEW f, NEW u, Calling(f, u)
        PROVE  LookedArms'
    <2>1. Kept(f) /\ Grown /\ UNCHANGED arms /\ Continues(f)
      BY <1>2, CallingShape, CalledKept DEF Calling, NothingStored, Grown
    <2> QED BY <2>1, LookedArmsKept DEF Continues
  <1>3. CASE Handing
    <2>1. /\ Left(With(stack[L - 1], Top.children[1])) /\ Top.at # "body"
          /\ Top.children[1] \in Nat /\ Top.at \notin Armers
          /\ Grown /\ UNCHANGED arms
      BY <1>3, OperandOK DEF Handing, NothingStored, Grown, Armers
    <2> QED BY <2>1, CallerWith, LookedArmsLeft
  <1>4. ASSUME NEW kind, NEW f, Storing(kind, f), Leaving
        PROVE  LookedArms'
    <2>1. /\ Left(With(stack[L - 1], N + 1)) /\ Top.at # "body"
          /\ N + 1 \in Nat /\ Grown /\ UNCHANGED arms
      BY <1>4, Counts, NewEntry DEF Storing, Leaving
    <2> QED BY <1>4, <2>1, CallerWith, StoredSince, LookedArmsLeft
  <1>5. ASSUME NEW kind, NEW g, Storing(kind, g), Folding
        PROVE  LookedArms'
    <2> DEFINE f == [Top EXCEPT !.children = <<N + 1>>]
    <2>1. Top \in Frame /\ <<N + 1>> \in Seq(Nat)
      BY TopTypes, Counts
    <2>2. f.at = Top.at /\ f.first = Top.first
      BY <2>1, Changed
    <2>3. Replaced(f) /\ Top.at # "arm"
      BY <1>5 DEF Folding
    <2>4. Grown /\ UNCHANGED arms
      BY <1>5, NewEntry DEF Storing
    <2> HIDE DEF f
    <2> QED BY <2>2, <2>3, <2>4, ReplacedKept, LookedArmsKept
  <1>6. ASSUME NEW f, Paying(f)
        PROVE  LookedArms'
    <2>1. /\ Top.at # "body" /\ Left(f) /\ f.at = stack[L - 1].at
          /\ Top.at \in Payloads /\ Grown /\ UNCHANGED arms
          /\ Top.at \notin Armers
      BY <1>6 DEF Paying, Payloads, NothingStored, Grown, Armers
    <2>2. f.at \notin Armers
      BY <2>1, CallerExists DEF Wants, Payloads, Tails, Primaries, Armers
    <2> QED BY <2>1, <2>2, LookedArmsLeft
  <1>7. ASSUME NEW f, ArmEntry(f)
        PROVE  LookedArms'
    <2>1. /\ Replaced(f) /\ f.first = Top.first
          /\ f.at \in Armers /\ f.at # "arm" /\ Top.at \in Armers
      BY <1>7 DEF ArmEntry, Armers
    <2>2. Top.first \in Nat /\ Top.first <= NA /\ NA \in Nat
      BY <2>1, TopTypes, FrameFields, Counts DEF FrameOK
    <2>3. f.first < Len(arms')
      BY <1>7, <2>1, <2>2, ArmEntryCount
    <2>4. /\ Len(stack') = L /\ stack'[L] = f /\ L \in 1..Len(stack')
      BY <2>1, Sizes DEF Replaced
    <2>5. \A k \in 1..(L - 1) : ArmsAbove(k)'
      <3> TAKE k \in 1..(L - 1)
      <3>1. k < L
        BY Sizes
      <3> QED BY <2>1, <2>3, <2>4, <3>1 DEF ArmsAbove
    <2>6. \A k \in 1..L : k \in 1..(L - 1) \/ k = L
      BY Sizes
    <2> QED BY <2>1, <2>4, <2>5, <2>6, LookedArmsNext
  <1>8. ASSUME NEW f, FieldEntry(f)
        PROVE  LookedArms'
    <2>1. /\ Replaced(f) /\ Grown /\ UNCHANGED arms
          /\ Top.at \notin Armers /\ f.at # "arm"
      BY <1>8 DEF FieldEntry, Grown, Armers, Openers
    <2> QED BY <2>1, ReplacedKept, LookedArmsKept
  <1> QED BY <1>1, <1>2, <1>3, <1>4, <1>5, <1>6, <1>7, <1>8 DEF Effect

LEMMA OverrunFullStep ==
  ASSUME IInv, OverrunFull, [Next]_vars
  PROVE  OverrunFull'
  <1>1. CASE UNCHANGED vars
    BY <1>1 DEF vars, OverrunFull, Top
  <1>2. CASE Next
    <2>1. CASE FieldClose
      <3>1. \/ phase' # "overrun"
            \/ /\ UNCHANGED <<fields, stack>>
               /\ Top.at \in Openers /\ Len(fields) >= MaxFields
        BY <2>1 DEF FieldClose, Openers
      <3>2. Len(fields) >= MaxFields => ~(Len(fields) < MaxFields)
        BY Counts, ConstantTypes DEF NF
      <3> QED BY <3>1, <3>2 DEF OverrunFull, Top
    <2>2. CASE ArmClose
      <3>1. \/ phase' # "overrun"
            \/ /\ UNCHANGED <<arms, stack>>
               /\ Top.at = "arm" /\ Len(arms) >= MaxArms
        BY <2>2 DEF ArmClose, Running
      <3>2. Len(arms) >= MaxArms => ~(Len(arms) < MaxArms)
        BY Counts, ConstantTypes DEF NA
      <3> QED BY <3>1, <3>2 DEF OverrunFull, Top
    <2>3. CASE ~FieldClose /\ ~ArmClose
      <3>1. phase' # "overrun"
        BY <1>2, <2>3 DEF Next, Leaf, OpenParen, CloseParen, OpenRecord,
           FieldOpen, RecordClose, PayloadAbsent, PayloadOpen, PayloadClose,
           Project, Operator, Combine, LevelDone, KernelTail, MatchOpen,
           ArmOpen, MatchClose, RequirePayload, Continue, Finish, BodyClose,
           SyntaxError, Running, Fail, Goto, EnterNesting, add_expression
      <3> QED BY <3>1 DEF OverrunFull
    <2> QED BY <2>1, <2>2, <2>3
  <1> QED BY <1>1, <1>2

LEMMA InitFrames ==
  ASSUME Init
  PROVE  /\ Len(stack) = 2 /\ stack[1] = At("body") /\ stack[2] = At("tail")
         /\ \A k \in 1..Len(stack) : k = 1 \/ k = 2
         /\ Top = At("tail")
         /\ expressions = <<>> /\ fields = <<>> /\ arms = <<>>
         /\ Len(expressions) = 0 /\ Len(fields) = 0 /\ Len(arms) = 0
         /\ \A k : k \notin 1..0
  <1> DEFINE a == At("body")
             b == At("tail")
  <1>1. stack = <<a, b>>
    BY DEF Init
  <1> HIDE DEF a, b
  <1>2. Len(stack) = 2 /\ stack[1] = a /\ stack[2] = b
    BY <1>1
  <1>3. \A k \in 1..2 : k = 1 \/ k = 2
    OBVIOUS
  <1>4. \A k : k \notin 1..0
    OBVIOUS
  <1>5. /\ expressions = <<>> /\ fields = <<>> /\ arms = <<>>
        /\ Len(expressions) = 0 /\ Len(fields) = 0 /\ Len(arms) = 0
    BY DEF Init
  <1> QED BY <1>2, <1>3, <1>4, <1>5 DEF Top, a, b

(***************************************************************************)
(* An overrun needs a construct inside the entry: a field or an arm is     *)
(* stored past the end of its arena only when its own value or body has    *)
(* stored a literal or a match, for every capacity and every source.       *)
(***************************************************************************)
THEOREM OverrunNeedsNesting == Spec => []OverrunIsNested
  <1> DEFINE J == IInv /\ Nested /\ LookedFields /\ LookedArms /\ OverrunFull
  <1>1. Init => J
    <2> SUFFICES ASSUME Init PROVE J
      OBVIOUS
    <2>1. IInv
      BY InitInv
    <2>2. \A k \in 1..Len(stack) : stack[k].at \in {"body", "tail"}
      BY InitFrames, AtFields
    <2>3. Nested
      BY <2>2 DEF Nested, InValue, Primaries, Fielders, Armers
    <2>4. LookedFields /\ LookedArms
      BY <2>2 DEF LookedFields, LookedArms, Openers
    <2>5. OverrunFull
      BY DEF Init, OverrunFull
    <2> QED BY <2>1, <2>3, <2>4, <2>5
  <1>2. J /\ [Next]_vars => J'
    BY NextInv, NextEffect, NestedStep, LookedFieldsStep, LookedArmsStep,
       OverrunFullStep
  <1>3. J => OverrunIsNested
    <2> SUFFICES ASSUME J, phase = "overrun"
                 PROVE  \E i \in Numbers : /\ IsMatch(i) <=> Top.at = "arm"
                                           /\ expressions[i].first >= Top.first
                                           /\ expressions[i].count > 0
      BY DEF OverrunIsNested
    <2>1. L \in 1..Len(stack) /\ Top = stack[L] /\ ~\E l \in 1..Len(stack) : L < l
      BY Sizes DEF L
    <2>2. CASE Top.at \in Openers /\ ~(Len(fields) < MaxFields)
      <3>1. FieldsSince(Top.first)
        BY <2>1, <2>2 DEF LookedFields, FieldsAbove
      <3>2. Top.at # "arm"
        BY <2>2 DEF Openers
      <3>3. PICK i \in 1..Len(expressions) : /\ ~IsMatch(i)
                                             /\ expressions[i].first >= Top.first
                                             /\ expressions[i].count > 0
        BY <2>2, <3>1 DEF FieldsSince
      <3> QED BY <3>2, <3>3 DEF Numbers
    <2>3. CASE Top.at = "arm" /\ ~(Len(arms) < MaxArms)
      <3>1. ArmsSince(Top.first)
        BY <2>1, <2>3 DEF LookedArms, ArmsAbove
      <3>2. PICK i \in 1..Len(expressions) : /\ IsMatch(i)
                                             /\ expressions[i].first >= Top.first
                                             /\ expressions[i].count > 0
        BY <2>3, <3>1 DEF ArmsSince
      <3> QED BY <2>3, <3>2 DEF Numbers
    <2> QED BY <2>2, <2>3 DEF OverrunFull
  <1> QED BY <1>1, <1>2, <1>3, PTL DEF Spec

-----------------------------------------------------------------------------
(***************************************************************************)
(* The ranges: what an open frame keeps of an arena is handed on or stored *)
(* when the frame leaves.                                                  *)
(***************************************************************************)
LEMMA SlotsGrow ==
  ASSUME IInv, Grown, NEW i \in 1..N
  PROVE  /\ i \in 1..Len(expressions') /\ Slots(i)' = Slots(i)
         /\ IsMatch(i)' <=> IsMatch(i)
  <1>1. i \in 1..Len(expressions') /\ expressions'[i] = expressions[i]
    BY GrownKeeps
  <1> QED BY <1>1 DEF Slots, IsMatch

LEMMA FieldKeptAbove ==
  ASSUME IInv, Grown, NEW f, Kept(f), NEW k, FieldKept(k),
         KeepsField(Top, k) => KeepsField(f, k)
  PROVE  FieldKept(k)'
  <1>1. ASSUME NEW i \in 1..N, ~IsMatch(i), k \in Slots(i)
        PROVE  FieldKept(k)'
    <2>1. ~IsMatch(i)' /\ k \in Slots(i)' /\ i \in 1..Len(expressions')
      BY <1>1, SlotsGrow
    <2> QED BY <2>1 DEF FieldKept
  <1>2. ASSUME NEW l \in 1..L, KeepsField(stack[l], k)
        PROVE  FieldKept(k)'
    <2>1. l \in 1..Len(stack')
      BY Sizes DEF Kept
    <2>2. KeepsField(stack'[l], k)
      BY <1>2, Sizes DEF Kept
    <2> QED BY <2>1, <2>2 DEF FieldKept
  <1> QED BY <1>1, <1>2 DEF FieldKept, N, L

LEMMA FieldKeptBelow ==
  ASSUME IInv, Top.at # "body", Grown, NEW f, Left(f), NEW k, FieldKept(k),
         KeepsField(Top, k) \/ KeepsField(stack[L - 1], k) =>
           \/ KeepsField(f, k)
           \/ \E i \in 1..Len(expressions') : ~IsMatch(i)' /\ k \in Slots(i)'
  PROVE  FieldKept(k)'
  <1>1. ASSUME NEW i \in 1..N, ~IsMatch(i), k \in Slots(i)
        PROVE  FieldKept(k)'
    <2>1. ~IsMatch(i)' /\ k \in Slots(i)' /\ i \in 1..Len(expressions')
      BY <1>1, SlotsGrow
    <2> QED BY <2>1 DEF FieldKept
  <1>2. ASSUME NEW i \in 1..Len(expressions'), ~IsMatch(i)', k \in Slots(i)'
        PROVE  FieldKept(k)'
    BY <1>2 DEF FieldKept
  <1>3. ASSUME KeepsField(f, k)
        PROVE  FieldKept(k)'
    <2>1. L - 1 \in 1..Len(stack') /\ stack'[L - 1] = f
      BY CallerExists, Sizes DEF Left
    <2> QED BY <1>3, <2>1 DEF FieldKept
  <1>4. ASSUME NEW l \in 1..(L - 2), KeepsField(stack[l], k)
        PROVE  FieldKept(k)'
    <2>1. l \in 1..Len(stack') /\ stack'[l] = stack[l]
      BY CallerExists, Sizes DEF Left
    <2> QED BY <1>4, <2>1 DEF FieldKept
  <1>5. ASSUME NEW l \in 1..L, KeepsField(stack[l], k)
        PROVE  FieldKept(k)'
    <2>1. l \in 1..(L - 2) \/ l = L - 1 \/ l = L
      BY CallerExists
    <2> QED BY <1>2, <1>3, <1>4, <1>5, <2>1, Sizes
  <1> QED BY <1>1, <1>5 DEF FieldKept, N, L

LEMMA ArmKeptAbove ==
  ASSUME IInv, Grown, NEW f, Kept(f), NEW k, ArmKept(k),
         KeepsArm(Top, k) => KeepsArm(f, k)
  PROVE  ArmKept(k)'
  <1>1. ASSUME NEW i \in 1..N, IsMatch(i), k \in Slots(i)
        PROVE  ArmKept(k)'
    <2>1. IsMatch(i)' /\ k \in Slots(i)' /\ i \in 1..Len(expressions')
      BY <1>1, SlotsGrow
    <2> QED BY <2>1 DEF ArmKept
  <1>2. ASSUME NEW l \in 1..L, KeepsArm(stack[l], k)
        PROVE  ArmKept(k)'
    <2>1. l \in 1..Len(stack')
      BY Sizes DEF Kept
    <2>2. KeepsArm(stack'[l], k)
      BY <1>2, Sizes DEF Kept
    <2> QED BY <2>1, <2>2 DEF ArmKept
  <1> QED BY <1>1, <1>2 DEF ArmKept, N, L

LEMMA ArmKeptBelow ==
  ASSUME IInv, Top.at # "body", Grown, NEW f, Left(f), NEW k, ArmKept(k),
         KeepsArm(Top, k) \/ KeepsArm(stack[L - 1], k) =>
           \/ KeepsArm(f, k)
           \/ \E i \in 1..Len(expressions') : IsMatch(i)' /\ k \in Slots(i)'
  PROVE  ArmKept(k)'
  <1>1. ASSUME NEW i \in 1..N, IsMatch(i), k \in Slots(i)
        PROVE  ArmKept(k)'
    <2>1. IsMatch(i)' /\ k \in Slots(i)' /\ i \in 1..Len(expressions')
      BY <1>1, SlotsGrow
    <2> QED BY <2>1 DEF ArmKept
  <1>2. ASSUME NEW i \in 1..Len(expressions'), IsMatch(i)', k \in Slots(i)'
        PROVE  ArmKept(k)'
    BY <1>2 DEF ArmKept
  <1>3. ASSUME KeepsArm(f, k)
        PROVE  ArmKept(k)'
    <2>1. L - 1 \in 1..Len(stack') /\ stack'[L - 1] = f
      BY CallerExists, Sizes DEF Left
    <2> QED BY <1>3, <2>1 DEF ArmKept
  <1>4. ASSUME NEW l \in 1..(L - 2), KeepsArm(stack[l], k)
        PROVE  ArmKept(k)'
    <2>1. l \in 1..Len(stack') /\ stack'[l] = stack[l]
      BY CallerExists, Sizes DEF Left
    <2> QED BY <1>4, <2>1 DEF ArmKept
  <1>5. ASSUME NEW l \in 1..L, KeepsArm(stack[l], k)
        PROVE  ArmKept(k)'
    <2>1. l \in 1..(L - 2) \/ l = L - 1 \/ l = L
      BY CallerExists
    <2> QED BY <1>2, <1>3, <1>4, <1>5, <2>1, Sizes
  <1> QED BY <1>1, <1>5 DEF ArmKept, N, L

\* What the closing frame keeps is in the range of the new expression.
LEMMA StoredKeeps ==
  ASSUME IInv, NEW kind, NEW f, Storing(kind, f)
  PROVE  /\ \A k \in 1..NF : KeepsField(Top, k) =>
              \E i \in 1..Len(expressions') : ~IsMatch(i)' /\ k \in Slots(i)'
         /\ \A k \in 1..NA : KeepsArm(Top, k) =>
              \E i \in 1..Len(expressions') : IsMatch(i)' /\ k \in Slots(i)'
  <1>1. PICK i \in Nat : i = N + 1
    BY Counts
  <1>2. /\ i \in 1..Len(expressions')
        /\ expressions'[i].kind = kind /\ expressions'[i].first = f.first
        /\ expressions'[i].count = f.count
    BY <1>1, NewEntry, NodeFields
  <1>3. /\ IsMatch(i)' <=> kind = "match"
        /\ Slots(i)' = (f.first + 1)..(f.first + f.count)
    BY <1>2 DEF IsMatch, Slots
  <1>4. Top.first \in Nat /\ Top.count \in Nat /\ NF \in Nat /\ NA \in Nat
    BY TopTypes, FrameFields, Counts
  <1>5. ASSUME NEW k \in 1..NF, KeepsField(Top, k)
        PROVE  ~IsMatch(i)' /\ k \in Slots(i)'
    <2>1. CASE Top.at \in Fielders /\ Top.first < k
      <3>1. kind # "match" /\ f.first = Top.first /\ f.count = NF - Top.first
        BY <2>1 DEF Storing, Describes
      <3>2. k \in (f.first + 1)..(f.first + f.count)
        BY <1>4, <2>1, <3>1
      <3> QED BY <1>3, <3>1, <3>2
    <2>2. CASE Top.at \in Ranged /\ k \in (Top.first + 1)..(Top.first + Top.count)
      <3>1. kind # "match" /\ f.first = Top.first /\ f.count = Top.count
        BY <2>2 DEF Storing, Describes
      <3> QED BY <1>3, <2>2, <3>1
    <2> QED BY <1>5, <2>1, <2>2 DEF KeepsField
  <1>6. ASSUME NEW k \in 1..NA, KeepsArm(Top, k)
        PROVE  IsMatch(i)' /\ k \in Slots(i)'
    <2>1. kind = "match" /\ f.first = Top.first /\ f.count = NA - Top.first
      BY <1>6 DEF Storing, Describes, KeepsArm
    <2>2. k \in (f.first + 1)..(f.first + f.count)
      BY <1>4, <1>6, <2>1 DEF KeepsArm
    <2> QED BY <1>3, <2>1, <2>2
  <1> QED BY <1>2, <1>5, <1>6

\* A caller with a result keeps what it kept.
LEMMA CallerKeeps ==
  ASSUME IInv, Top.at # "body", NEW e \in Nat, NEW k
  PROVE  /\ KeepsField(With(stack[L - 1], e), k) <=> KeepsField(stack[L - 1], k)
         /\ KeepsArm(With(stack[L - 1], e), k) <=> KeepsArm(stack[L - 1], k)
  BY CallerWith DEF KeepsField, KeepsArm

LEMMA PayloadKeeps ==
  ASSUME IInv, NEW f, Paying(f)
  PROVE  /\ \A k \in 1..NF :
              KeepsField(Top, k) \/ KeepsField(stack[L - 1], k) => KeepsField(f, k)
         /\ \A k : ~KeepsArm(Top, k) /\ ~KeepsArm(stack[L - 1], k)
  <1>1. /\ Top.at # "body" /\ Top.at \in Payloads /\ Top.at \notin Armers
        /\ Top.at \notin Ranged
        /\ Top.at \in Fielders => Top.at = "payload"
    BY DEF Paying, Payloads, Armers, Ranged, Fielders
  <1>2. /\ stack[L - 1].at \in Ranged /\ stack[L - 1].count = 0
        /\ stack[L - 1].first \in Nat
    BY <1>1, CallerExists, FrameFields DEF Wants, Payloads, Tails, Primaries, Ranged
  <1>3. stack[L - 1].at \notin Fielders \cup Armers
    BY <1>2 DEF Ranged, Fielders, Armers
  <1>4. \A k : ~KeepsArm(Top, k) /\ ~KeepsArm(stack[L - 1], k)
    BY <1>1, <1>3 DEF KeepsArm
  <1>5. \A k : ~KeepsField(stack[L - 1], k)
    BY <1>2, <1>3 DEF KeepsField
  <1>6. ASSUME NEW k \in 1..NF, KeepsField(Top, k)
        PROVE  KeepsField(f, k)
    <2>1. Top.at = "payload" /\ Top.first < k
      BY <1>1, <1>6 DEF KeepsField
    <2>2. f.at \in Ranged /\ f.first = Top.first /\ f.count = NF - Top.first
      BY <1>2, <2>1 DEF Paying
    <2>3. Top.first \in Nat /\ NF \in Nat
      BY TopTypes, FrameFields, Counts
    <2>4. k \in (f.first + 1)..(f.first + f.count)
      BY <2>1, <2>2, <2>3
    <2> QED BY <2>2, <2>4 DEF KeepsField
  <1> QED BY <1>4, <1>5, <1>6

LEMMA CoverageStep ==
  ASSUME IInv, Coverage, Effect
  PROVE  Coverage'
  <1>1. /\ \A k \in 1..NF : FieldKept(k)
        /\ \A k \in 1..NA : ArmKept(k)
    BY DEF Coverage, NF, NA
  <1>2. CASE UNCHANGED <<expressions, fields, arms, stack>>
    BY <1>2 DEF Coverage, FieldKept, ArmKept, IsMatch, Slots
  <1>a. ASSUME UNCHANGED <<fields, arms>>,
               \A k \in 1..NF : FieldKept(k)', \A k \in 1..NA : ArmKept(k)'
        PROVE  Coverage'
    BY <1>a DEF Coverage, NF, NA
  <1>3. ASSUME NEW f, NEW u, Calling(f, u)
        PROVE  Coverage'
    <2>1. Kept(f) /\ Grown /\ UNCHANGED <<fields, arms>> /\ Continues(f)
      BY <1>3, CallingShape, CalledKept DEF Calling, NothingStored, Grown
    <2>2. \A k : /\ KeepsField(Top, k) => KeepsField(f, k)
                 /\ KeepsArm(Top, k) => KeepsArm(f, k)
      BY <2>1 DEF Continues, KeepsField, KeepsArm
    <2> QED BY <1>1, <1>a, <2>1, <2>2, FieldKeptAbove, ArmKeptAbove
  <1>4. CASE Handing
    <2> DEFINE f == With(stack[L - 1], Top.children[1])
    <2>1. /\ Left(f) /\ Top.at # "body" /\ Top.children[1] \in Nat
          /\ Grown /\ UNCHANGED <<fields, arms>>
      BY <1>4, OperandOK DEF Handing, NothingStored, Grown
    <2>2. \A k : ~KeepsField(Top, k) /\ ~KeepsArm(Top, k)
      BY <1>4 DEF Handing, KeepsField, KeepsArm, Fielders, Armers, Ranged
    <2>3. \A k : /\ KeepsField(stack[L - 1], k) => KeepsField(f, k)
                 /\ KeepsArm(stack[L - 1], k) => KeepsArm(f, k)
      BY <2>1, CallerKeeps
    <2> HIDE DEF f
    <2> QED BY <1>1, <1>a, <2>1, <2>2, <2>3, FieldKeptBelow, ArmKeptBelow
  <1>5. ASSUME NEW kind, NEW g, Storing(kind, g), Leaving
        PROVE  Coverage'
    <2> DEFINE f == With(stack[L - 1], N + 1)
    <2>1. /\ Left(f) /\ Top.at # "body" /\ N + 1 \in Nat
          /\ Grown /\ UNCHANGED <<fields, arms>>
      BY <1>5, Counts, NewEntry DEF Storing, Leaving
    <2>2. \A k : /\ KeepsField(stack[L - 1], k) => KeepsField(f, k)
                 /\ KeepsArm(stack[L - 1], k) => KeepsArm(f, k)
      BY <2>1, CallerKeeps
    <2> HIDE DEF f
    <2>3. \A k \in 1..NF : FieldKept(k)'
      BY <1>1, <1>5, <2>1, <2>2, StoredKeeps, FieldKeptBelow
    <2>4. \A k \in 1..NA : ArmKept(k)'
      BY <1>1, <1>5, <2>1, <2>2, StoredKeeps, ArmKeptBelow
    <2> QED BY <1>a, <2>1, <2>3, <2>4
  <1>6. ASSUME NEW kind, NEW g, Storing(kind, g), Folding
        PROVE  Coverage'
    <2> DEFINE f == [Top EXCEPT !.children = <<N + 1>>]
    <2>1. Top \in Frame /\ <<N + 1>> \in Seq(Nat)
      BY TopTypes, Counts
    <2>2. f.at = Top.at /\ f.first = Top.first /\ f.count = Top.count
      BY <2>1, Changed
    <2>3. Kept(f) /\ Grown /\ UNCHANGED <<fields, arms>>
      BY <1>6, NewEntry, ReplacedKept DEF Folding, Storing
    <2> HIDE DEF f
    <2>4. \A k : /\ KeepsField(Top, k) => KeepsField(f, k)
                 /\ KeepsArm(Top, k) => KeepsArm(f, k)
      BY <2>2 DEF KeepsField, KeepsArm
    <2> QED BY <1>1, <1>a, <2>3, <2>4, FieldKeptAbove, ArmKeptAbove
  <1>7. ASSUME NEW f, Paying(f)
        PROVE  Coverage'
    <2>1. /\ Left(f) /\ Top.at # "body" /\ Grown /\ UNCHANGED <<fields, arms>>
      BY <1>7 DEF Paying, NothingStored, Grown
    <2>2. \A k \in 1..NF : FieldKept(k)'
      BY <1>1, <1>7, <2>1, PayloadKeeps, FieldKeptBelow
    <2>3. \A k \in 1..NA : ArmKept(k)'
      BY <1>1, <1>7, <2>1, PayloadKeeps, ArmKeptBelow
    <2> QED BY <1>a, <2>1, <2>2, <2>3
  <1>8. ASSUME NEW f, FieldEntry(f)
        PROVE  Coverage'
    <2>1. /\ Replaced(f) /\ Kept(f) /\ Grown /\ UNCHANGED arms
          /\ Top.at \in Openers /\ f.at \in Fielders /\ f.first = Top.first
          /\ Len(fields') = NF + 1
      BY <1>8, ReplacedKept, FieldEntryCount DEF FieldEntry, Grown, Fielders
    <2>2. Top.at \in Fielders /\ Top.at \notin Ranged /\ Top.at \notin Armers
      BY <2>1 DEF Openers, Fielders, Ranged, Armers
    <2>3. \A k : /\ KeepsField(Top, k) => KeepsField(f, k)
                 /\ ~KeepsArm(Top, k)
      BY <2>1, <2>2 DEF KeepsField, KeepsArm
    <2>4. \A k \in 1..NF : FieldKept(k)'
      BY <1>1, <2>1, <2>3, FieldKeptAbove
    <2>5. \A k \in 1..NA : ArmKept(k)'
      BY <1>1, <2>1, <2>3, ArmKeptAbove
    <2>6. PICK n \in Nat : n = NF + 1
      BY Counts
    <2>7. FieldKept(n)'
      <3>0. Top.first \in Nat /\ Top.first <= NF /\ NF \in Nat
        BY <2>2, TopTypes, FrameFields, Counts DEF FrameOK
      <3>1. f.first < n
        BY <2>1, <2>6, <3>0
      <3>2. KeepsField(f, n)
        BY <2>1, <3>1 DEF KeepsField
      <3>3. L \in 1..Len(stack') /\ stack'[L] = f
        BY <2>1, Sizes DEF Replaced
      <3> QED BY <3>2, <3>3 DEF FieldKept
    <2>8. \A k \in 1..Len(fields') : k \in 1..NF \/ k = n
      BY <2>1, <2>6, Counts, OneMore
    <2>9. Len(arms') = NA
      BY <2>1 DEF NA
    <2> QED BY <2>4, <2>5, <2>7, <2>8, <2>9 DEF Coverage
  <1>9. ASSUME NEW f, ArmEntry(f)
        PROVE  Coverage'
    <2>1. /\ Replaced(f) /\ Kept(f) /\ Grown /\ UNCHANGED fields
          /\ Top.at = "arm" /\ f.at \in Armers /\ f.first = Top.first
          /\ Len(arms') = NA + 1
      BY <1>9, ReplacedKept, ArmEntryCount DEF ArmEntry, Grown, Armers
    <2>2. Top.at \in Armers /\ Top.at \notin Ranged /\ Top.at \notin Fielders
      BY <2>1 DEF Fielders, Ranged, Armers
    <2>3. \A k : /\ KeepsArm(Top, k) => KeepsArm(f, k)
                 /\ ~KeepsField(Top, k)
      BY <2>1, <2>2 DEF KeepsField, KeepsArm
    <2>4. \A k \in 1..NF : FieldKept(k)'
      BY <1>1, <2>1, <2>3, FieldKeptAbove
    <2>5. \A k \in 1..NA : ArmKept(k)'
      BY <1>1, <2>1, <2>3, ArmKeptAbove
    <2>6. PICK n \in Nat : n = NA + 1
      BY Counts
    <2>7. ArmKept(n)'
      <3>0. Top.first \in Nat /\ Top.first <= NA /\ NA \in Nat
        BY <2>2, TopTypes, FrameFields, Counts DEF FrameOK
      <3>1. f.first < n
        BY <2>1, <2>6, <3>0
      <3>2. KeepsArm(f, n)
        BY <2>1, <3>1 DEF KeepsArm
      <3>3. L \in 1..Len(stack') /\ stack'[L] = f
        BY <2>1, Sizes DEF Replaced
      <3> QED BY <3>2, <3>3 DEF ArmKept
    <2>8. \A k \in 1..Len(arms') : k \in 1..NA \/ k = n
      BY <2>1, <2>6, Counts, OneMore
    <2>9. Len(fields') = NF
      BY <2>1 DEF NF
    <2> QED BY <2>4, <2>5, <2>7, <2>8, <2>9 DEF Coverage
  <1> QED BY <1>2, <1>3, <1>4, <1>5, <1>6, <1>7, <1>8, <1>9 DEF Effect

-----------------------------------------------------------------------------
(***************************************************************************)
(* The result of the body is the last expression.                          *)
(***************************************************************************)
LEMMA NewTop ==
  ASSUME IInv, NEW f
  PROVE  /\ Replaced(f) => Top' = f
         /\ Top.at # "body" /\ Left(f) => Top' = f
  BY CallerExists, Sizes DEF Replaced, Left, Top

LEMMA CalledTop ==
  ASSUME IInv, NEW f, Called(f), f.at # "body"
  PROVE  Top'.at # "body"
  <1>1. Len(stack') = L \/ Len(stack') \in (L + 1)..Len(stack')
    BY Sizes DEF Called
  <1> QED BY <1>1 DEF Called, Fresh, Top

\* A frame without results, and one that gets its first.
LEMMA FirstResult ==
  ASSUME NEW f \in Frame, Len(f.children) = 0, NEW e \in Nat
  PROVE  f.children = <<>> /\ With(f, e).children = <<e>>
  <1>1. f.children = <<>>
    BY FrameFields, EmptySeq
  <1>2. With(f, e).children = Append(<<>>, e)
    BY <1>1, WithFields
  <1>3. Append(<<>>, e) = <<e>>
    OBVIOUS
  <1> QED BY <1>1, <1>2, <1>3

LEMMA RootIsLastStep ==
  ASSUME IInv, RootIsLast, Effect
  PROVE  RootIsLast'
  <1>1. CASE UNCHANGED <<expressions, fields, arms, stack>>
    BY <1>1 DEF RootIsLast, Top
  <1>2. ASSUME NEW f, NEW u, Calling(f, u)
        PROVE  RootIsLast'
    BY <1>2, CallingShape, CalledTop DEF Calling, Continues, RootIsLast
  <1>3. CASE Handing
    <2>1. /\ Left(With(stack[L - 1], Top.children[1])) /\ Top.at # "body"
          /\ Top.children[1] \in Nat /\ Top.at \notin Tails
      BY <1>3, OperandOK DEF Handing, Tails
    <2>2. stack[L - 1].at # "body"
      BY <2>1, CallerExists DEF Wants
    <2> QED BY <2>1, <2>2, CallerWith, NewTop DEF RootIsLast
  <1>4. ASSUME NEW kind, NEW g, Storing(kind, g), Leaving
        PROVE  RootIsLast'
    <2>1. PICK n \in Nat : n = N + 1
      BY Counts
    <2>2. Top.at # "body" /\ Left(With(stack[L - 1], n)) /\ Len(expressions') = n
      BY <1>4, <2>1, NewEntry DEF Storing, Leaving
    <2>3. Top' = With(stack[L - 1], n)
      BY <2>2, NewTop
    <2>4. CASE stack[L - 1].at = "body"
      <3>1. Len(stack[L - 1].children) = 0
        BY <2>2, <2>4, CallerExists DEF Wants
      <3>2. Top'.children = <<n>>
        BY <2>2, <2>3, <3>1, CallerExists, FirstResult
      <3> QED BY <2>2, <3>2 DEF RootIsLast
    <2>5. CASE stack[L - 1].at # "body"
      BY <2>2, <2>3, <2>5, CallerWith DEF RootIsLast
    <2> QED BY <2>4, <2>5
  <1>5. CASE Folding
    <2> DEFINE f == [Top EXCEPT !.children = <<N + 1>>]
    <2>1. Top \in Frame /\ <<N + 1>> \in Seq(Nat)
      BY TopTypes, Counts
    <2>2. f.at = Top.at
      BY <2>1, Changed
    <2>3. Replaced(f) /\ Top.at # "body"
      BY <1>5 DEF Folding
    <2> HIDE DEF f
    <2> QED BY <2>2, <2>3, NewTop DEF RootIsLast
  <1>6. ASSUME NEW f, Paying(f)
        PROVE  RootIsLast'
    <2>1. /\ Top.at # "body" /\ Left(f) /\ f.at = stack[L - 1].at
          /\ Top.at \in Payloads /\ Top.at \notin Tails
      BY <1>6 DEF Paying, Payloads, Tails
    <2>2. f.at # "body"
      BY <2>1, CallerExists DEF Wants
    <2> QED BY <2>1, <2>2, NewTop DEF RootIsLast
  <1>7. ASSUME NEW f, FieldEntry(f) \/ ArmEntry(f)
        PROVE  RootIsLast'
    <2>1. Replaced(f) /\ f.at # "body"
      BY <1>7 DEF FieldEntry, ArmEntry
    <2> QED BY <2>1, NewTop DEF RootIsLast
  <1> QED BY <1>1, <1>2, <1>3, <1>4, <1>5, <1>6, <1>7 DEF Effect

-----------------------------------------------------------------------------
(***************************************************************************)
(* Where a result goes.                                                    *)
(***************************************************************************)
LEMMA HoldsWith ==
  ASSUME NEW g \in Frame, NEW e \in Nat, NEW c
  PROVE  Holds(With(g, e), c) <=> Holds(g, c) \/ c = e
  <1> DEFINE s == g.children
             t == With(g, e).children
             n == Len(s)
  <1>1. /\ n \in Nat /\ Len(t) = n + 1
        /\ \A j \in 1..n : t[j] = s[j]
        /\ t[n + 1] = e
    BY FrameFields, WithFields
  <1> HIDE DEF s, t, n
  <1>2. (\E j \in 1..Len(t) : t[j] = c) <=> (\E j \in 1..n : s[j] = c) \/ c = e
    BY <1>1, OneMore
  <1> QED BY <1>2 DEF Holds, s, t, n

LEMMA HoldsSole ==
  ASSUME NEW x, NEW c
  PROVE  /\ x.children = <<>> => ~Holds(x, c)
         /\ \A e : x.children = <<e>> => (Holds(x, c) <=> c = e)
         /\ Len(x.children) = 0 => ~Holds(x, c)
         /\ Len(x.children) = 1 => (Holds(x, c) <=> x.children[1] = c)
  BY DEF Holds

LEMMA FramesReplaced ==
  ASSUME IInv, NEW f, Replaced(f), NEW c
  PROVE  /\ Holds(f, c) => InFrames(c)' = InFrames(c) \cup {L}
         /\ ~Holds(f, c) => InFrames(c)' = InFrames(c) \ {L}
  BY Sizes DEF InFrames, Replaced, L

LEMMA FramesLeft ==
  ASSUME IInv, Top.at # "body", NEW f, Left(f), NEW c
  PROVE  /\ Holds(f, c) => InFrames(c)' = (InFrames(c) \ {L}) \cup {L - 1}
         /\ ~Holds(f, c) => InFrames(c)' = InFrames(c) \ {L, L - 1}
  <1>1. /\ Len(stack') = L - 1 /\ stack'[L - 1] = f
        /\ \A k \in 1..(L - 2) : stack'[k] = stack[k]
        /\ L - 1 \in 1..(L - 1) /\ L \in Nat
    BY CallerExists, Sizes DEF Left
  <1>2. /\ \A k \in 1..(L - 1) : k \in 1..(L - 2) \/ k = L - 1
        /\ \A k \in 1..(L - 2) : k \in 1..(L - 1) /\ k \in 1..L /\ k # L /\ k # L - 1
        /\ \A k \in 1..L : k \in 1..(L - 2) \/ k = L - 1 \/ k = L
        /\ L # L - 1
    BY <1>1, CallerExists
  <1>3. InFrames(c)' = {k \in 1..(L - 1) : Holds(stack'[k], c)}
    BY <1>1 DEF InFrames
  <1>4. InFrames(c) = {k \in 1..L : Holds(stack[k], c)}
    BY DEF InFrames, L
  <1> QED BY <1>1, <1>2, <1>3, <1>4

LEMMA FramesCalled ==
  ASSUME IInv, NEW f, Called(f), f.children = Top.children, NEW c
  PROVE  InFrames(c)' = InFrames(c)
  <1>1. Holds(f, c) <=> Holds(stack[L], c)
    BY Sizes DEF Holds
  <1>2. \A k \in (L + 1)..Len(stack') : ~Holds(stack'[k], c)
    BY HoldsSole DEF Called, Fresh
  <1>3. /\ \A k \in 1..(L - 1) : stack'[k] = stack[k]
        /\ stack'[L] = f /\ Len(stack') \in Nat /\ Len(stack') >= L
    BY DEF Called
  <1>4. /\ \A k \in 1..Len(stack') : k \in 1..L \/ k \in (L + 1)..Len(stack')
        /\ \A k \in 1..L : k \in 1..Len(stack') /\ (k \in 1..(L - 1) \/ k = L)
    BY <1>3, Sizes
  <1>5. \A k \in 1..L : Holds(stack'[k], c) <=> Holds(stack[k], c)
    BY <1>1, <1>3, <1>4
  <1> QED BY <1>2, <1>4, <1>5 DEF InFrames, L

LEMMA HeldStored ==
  ASSUME IInv, NEW c
  PROVE  /\ \A k \in InFrames(c) : c \in 1..N
         /\ \A i \in InExpressions(c) : c \in 1..N
         /\ \A k \in AsField(c) : c \in 1..N
         /\ \A k \in AsArm(c) : c \in 1..N
  <1>1. \A k \in 1..Len(stack) : FrameOK(stack[k], N, NF, NA)
    BY DEF IInv, StackOK, N, NF, NA
  <1>2. \A k \in InFrames(c) : c \in 1..N
    BY <1>1 DEF InFrames, Holds, FrameOK
  <1>3. \A i \in 1..N : \A j \in 1..Len(expressions[i].children) :
          expressions[i].children[j] \in 1..(i - 1)
    BY DEF IInv, ExpressionsOK, ExpressionOK, N
  <1>4. \A i \in 1..N : \A e \in 1..(i - 1) : e \in 1..N
    BY Counts
  <1>5. \A i \in InExpressions(c) : c \in 1..N
    BY <1>3, <1>4 DEF InExpressions, Holds, N
  <1>6. \A k \in AsField(c) : c \in 1..N
    BY DEF IInv, FieldsOK, AsField, N
  <1>7. \A k \in AsArm(c) : c \in 1..N
    BY DEF IInv, ArmsOK, AsArm, N
  <1> QED BY <1>2, <1>5, <1>6, <1>7

\* A result that a frame has is nowhere else.
LEMMA HeldOnce ==
  ASSUME IInv, Ownership, NEW k \in 1..L, NEW c, Holds(stack[k], c)
  PROVE  /\ c \in 1..N
         /\ InFrames(c) = {k} /\ InExpressions(c) = {}
         /\ AsField(c) = {} /\ AsArm(c) = {}
  <1>1. k \in InFrames(c)
    BY DEF InFrames, L
  <1>2. c \in 1..N
    BY <1>1, HeldStored
  <1>3. InOnePlace(c)
    BY <1>2 DEF Ownership, N
  <1> QED BY <1>1, <1>2, <1>3 DEF InOnePlace

LEMMA SamePlace ==
  ASSUME NEW c, InOnePlace(c), InFrames(c)' = InFrames(c),
         InExpressions(c)' = InExpressions(c),
         AsField(c)' = AsField(c), AsArm(c)' = AsArm(c)
  PROVE  InOnePlace(c)'
  BY DEF InOnePlace

LEMMA Untouched ==
  ASSUME NEW c
  PROVE  /\ UNCHANGED expressions => InExpressions(c)' = InExpressions(c)
         /\ UNCHANGED fields => AsField(c)' = AsField(c)
         /\ UNCHANGED arms => AsArm(c)' = AsArm(c)
  BY DEF InExpressions, AsField, AsArm

LEMMA ExpressionsStored ==
  ASSUME IInv, NEW kind, NEW g, Storing(kind, g), NEW n, n = N + 1, NEW c
  PROVE  /\ Holds(Top, c) => InExpressions(c)' = InExpressions(c) \cup {n}
         /\ ~Holds(Top, c) => InExpressions(c)' = InExpressions(c)
  <1>1. /\ Len(expressions') = n
        /\ expressions'[n].children = Top.children
        /\ \A i \in 1..N : expressions'[i] = expressions[i]
    <2>1. g.children = Top.children
      BY DEF Storing, Describes
    <2>2. /\ Len(expressions') = n /\ expressions'[n] = Node(kind, g)
          /\ \A i \in 1..N : expressions'[i] = expressions[i]
      BY NewEntry
    <2>3. expressions'[n].children = g.children
      BY <2>2, NodeFields
    <2> QED BY <2>1, <2>2, <2>3
  <1>2. Holds(expressions'[n], c) <=> Holds(Top, c)
    BY <1>1 DEF Holds
  <1>3. /\ n \in 1..n /\ n \notin 1..N
        /\ \A i \in 1..n : i \in 1..N \/ i = n
        /\ \A i \in 1..N : i \in 1..n
    BY Counts
  <1>4. InExpressions(c)' = {i \in 1..n : Holds(expressions'[i], c)}
    BY <1>1 DEF InExpressions
  <1>5. InExpressions(c) = {i \in 1..N : Holds(expressions[i], c)}
    BY DEF InExpressions, N
  <1> QED BY <1>1, <1>2, <1>3, <1>4, <1>5

LEMMA FieldsStored ==
  ASSUME IInv, NEW f, FieldEntry(f), NEW n, n = NF + 1, NEW c
  PROVE  /\ c = Top.children[1] => AsField(c)' = AsField(c) \cup {n}
         /\ c # Top.children[1] => AsField(c)' = AsField(c)
  <1>1. PICK name \in FieldNames :
          fields' = Append(fields, [name |-> name, value |-> Top.children[1]])
    BY DEF FieldEntry
  <1> DEFINE r == [name |-> name, value |-> Top.children[1]]
  <1>2. r \in [name : FieldNames, value : Nat] /\ r.value = Top.children[1]
    BY OperandOK DEF FieldEntry
  <1> HIDE DEF r
  <1>3. /\ Len(Append(fields, r)) = n /\ Append(fields, r)[n] = r
        /\ \A k \in 1..NF : Append(fields, r)[k] = fields[k]
    BY <1>2, Counts, PushSeq DEF NF
  <1>4. /\ Len(fields') = n /\ fields'[n].value = Top.children[1]
        /\ \A k \in 1..NF : fields'[k] = fields[k]
    BY <1>1, <1>2, <1>3 DEF r
  <1>5. /\ n \in 1..n /\ n \notin 1..NF
        /\ \A i \in 1..n : i \in 1..NF \/ i = n
        /\ \A i \in 1..NF : i \in 1..n
    BY Counts
  <1>6. AsField(c)' = {k \in 1..n : fields'[k].value = c}
    BY <1>4 DEF AsField
  <1>7. AsField(c) = {k \in 1..NF : fields[k].value = c}
    BY DEF AsField, NF
  <1> QED BY <1>4, <1>5, <1>6, <1>7

LEMMA ArmsStored ==
  ASSUME IInv, NEW f, ArmEntry(f), NEW n, n = NA + 1, NEW c
  PROVE  /\ c = Top.children[2] => AsArm(c)' = AsArm(c) \cup {n}
         /\ c # Top.children[2] => AsArm(c)' = AsArm(c)
  <1>1. PICK item \in CaseNames :
          arms' = Append(arms, [item |-> item, body |-> Top.children[2]])
    BY DEF ArmEntry
  <1> DEFINE r == [item |-> item, body |-> Top.children[2]]
  <1>2. r \in [item : CaseNames, body : Nat] /\ r.body = Top.children[2]
    BY OperandOK DEF ArmEntry
  <1> HIDE DEF r
  <1>3. /\ Len(Append(arms, r)) = n /\ Append(arms, r)[n] = r
        /\ \A k \in 1..NA : Append(arms, r)[k] = arms[k]
    BY <1>2, Counts, PushSeq DEF NA
  <1>4. /\ Len(arms') = n /\ arms'[n].body = Top.children[2]
        /\ \A k \in 1..NA : arms'[k] = arms[k]
    BY <1>1, <1>2, <1>3 DEF r
  <1>5. /\ n \in 1..n /\ n \notin 1..NA
        /\ \A i \in 1..n : i \in 1..NA \/ i = n
        /\ \A i \in 1..NA : i \in 1..n
    BY Counts
  <1>6. AsArm(c)' = {k \in 1..n : arms'[k].body = c}
    BY <1>4 DEF AsArm
  <1>7. AsArm(c) = {k \in 1..NA : arms[k].body = c}
    BY DEF AsArm, NA
  <1> QED BY <1>4, <1>5, <1>6, <1>7

(***************************************************************************)
(* No frame gets a result it has.                                          *)
(***************************************************************************)
LEMMA UnrepeatedWith ==
  ASSUME NEW g \in Frame, NEW e \in Nat, Unrepeated(g), ~Holds(g, e)
  PROVE  Unrepeated(With(g, e))
  <1> DEFINE s == g.children
             t == With(g, e).children
             n == Len(s)
  <1>1. /\ n \in Nat /\ Len(t) = n + 1
        /\ \A j \in 1..n : t[j] = s[j]
        /\ t[n + 1] = e
    BY FrameFields, WithFields
  <1>2. /\ \A i, j \in 1..n : s[i] = s[j] => i = j
        /\ \A j \in 1..n : s[j] # e
    BY DEF Unrepeated, Holds
  <1> HIDE DEF s, t, n
  <1>3. \A i, j \in 1..Len(t) : t[i] = t[j] => i = j
    BY <1>1, <1>2, OneMore
  <1> QED BY <1>3 DEF Unrepeated, t

LEMMA UnrepeatedFew ==
  ASSUME NEW x
  PROVE  /\ x.children = <<>> => Unrepeated(x)
         /\ \A e : x.children = <<e>> => Unrepeated(x)
  BY DEF Unrepeated

LEMMA UnrepeatedKept ==
  ASSUME IInv, \A k \in 1..L : Unrepeated(stack[k]), NEW f, Unrepeated(f),
         Replaced(f) \/ (Top.at # "body" /\ Left(f))
  PROVE  \A k \in 1..Len(stack') : Unrepeated(stack'[k])
  <1>1. CASE Replaced(f)
    BY <1>1, Sizes DEF Replaced
  <1>2. CASE Top.at # "body" /\ Left(f)
    <2>1. /\ \A k \in 1..(L - 1) : k \in 1..(L - 2) \/ k = L - 1
          /\ \A k \in 1..(L - 2) : k \in 1..L
      BY <1>2, CallerExists, Sizes
    <2> QED BY <1>2, <2>1 DEF Left
  <1> QED BY <1>1, <1>2

LEMMA FrameHolds ==
  ASSUME IInv, NEW k \in 1..L, NEW c
  PROVE  k \in InFrames(c) <=> Holds(stack[k], c)
  BY DEF InFrames, L

LEMMA FramesGiven ==
  ASSUME IInv, Top.at # "body", NEW e \in Nat, Left(With(stack[L - 1], e)), NEW c
  PROVE  /\ c # e => InFrames(c)' = InFrames(c) \ {L}
         /\ c = e => InFrames(c)' = (InFrames(c) \ {L}) \cup {L - 1}
  <1> DEFINE g == stack[L - 1]
             f == With(g, e)
             m == L - 1
  <1>1. /\ Holds(f, c) <=> Holds(g, c) \/ c = e
        /\ m \in InFrames(c) <=> Holds(g, c)
        /\ m # L
    BY CallerExists, HoldsWith, FrameHolds, Sizes
  <1>2. /\ Holds(f, c) => InFrames(c)' = (InFrames(c) \ {L}) \cup {m}
        /\ ~Holds(f, c) => InFrames(c)' = InFrames(c) \ {L, m}
    BY FramesLeft
  <1> HIDE DEF g, f, m
  <1>3. c # e => InFrames(c)' = InFrames(c) \ {L}
    BY <1>1, <1>2
  <1>4. c = e => InFrames(c)' = (InFrames(c) \ {L}) \cup {m}
    BY <1>1, <1>2
  <1> QED BY <1>3, <1>4 DEF m

LEMMA OnePlaceNext ==
  ASSUME NEW c, NEW k \in Nat
  PROVE  /\ InFrames(c)' = {k} /\ InExpressions(c)' = {}
            /\ AsField(c)' = {} /\ AsArm(c)' = {} => InOnePlace(c)'
         /\ InFrames(c)' = {} /\ InExpressions(c)' = {k}
            /\ AsField(c)' = {} /\ AsArm(c)' = {} => InOnePlace(c)'
         /\ InFrames(c)' = {} /\ InExpressions(c)' = {}
            /\ AsField(c)' = {k} /\ AsArm(c)' = {} => InOnePlace(c)'
         /\ InFrames(c)' = {} /\ InExpressions(c)' = {}
            /\ AsField(c)' = {} /\ AsArm(c)' = {k} => InOnePlace(c)'
  BY DEF InOnePlace

LEMMA OwnershipNext ==
  ASSUME \A c \in 1..Len(expressions') : InOnePlace(c)',
         \A k \in 1..Len(stack') : Unrepeated(stack'[k])
  PROVE  Ownership'
  BY DEF Ownership, Unrepeated

LEMMA OwnershipFacts ==
  ASSUME IInv, Ownership
  PROVE  /\ \A c \in 1..N : InOnePlace(c)
         /\ \A k \in 1..L : Unrepeated(stack[k])
         /\ Unrepeated(Top)
         /\ \A c : Holds(Top, c) =>
              /\ c \in 1..N /\ InFrames(c) = {L} /\ InExpressions(c) = {}
              /\ AsField(c) = {} /\ AsArm(c) = {}
         /\ \A c : ~Holds(Top, c) => L \notin InFrames(c)
         /\ \A c : Holds(Top, c) /\ Top.at # "body" => ~Holds(stack[L - 1], c)
  <1>1. \A c : Holds(Top, c) =>
              /\ c \in 1..N /\ InFrames(c) = {L} /\ InExpressions(c) = {}
              /\ AsField(c) = {} /\ AsArm(c) = {}
    BY Sizes, HeldOnce
  <1>2. \A c : ~Holds(Top, c) => L \notin InFrames(c)
    BY Sizes, FrameHolds
  <1>3. ASSUME NEW c, Holds(Top, c), Top.at # "body"
        PROVE  ~Holds(stack[L - 1], c)
    <2>1. L - 1 \in 1..L /\ L - 1 # L
      BY <1>3, CallerExists, Sizes
    <2>2. L - 1 \notin InFrames(c)
      BY <1>1, <1>3, <2>1
    <2> QED BY <2>1, <2>2, FrameHolds
  <1>4. /\ \A c \in 1..N : InOnePlace(c)
        /\ \A k \in 1..L : Unrepeated(stack[k])
    BY DEF Ownership, N, L
  <1>5. Unrepeated(Top)
    BY <1>4, Sizes
  <1> QED BY <1>1, <1>2, <1>3, <1>4, <1>5

LEMMA CallingOwnership ==
  ASSUME IInv, Ownership, NEW f, NEW u, Calling(f, u)
  PROVE  Ownership'
  <1>1. Called(f) /\ f.children = Top.children /\ UNCHANGED <<expressions, fields, arms>>
    BY CallingShape DEF Calling, Continues, NothingStored
  <1>2. \A c \in 1..Len(expressions') : InOnePlace(c)'
    BY <1>1, OwnershipFacts, FramesCalled, Untouched, SamePlace DEF N
  <1>3. Unrepeated(f)
    BY <1>1, OwnershipFacts DEF Unrepeated
  <1>4. \A k \in 1..Len(stack') : k \in 1..(L - 1) \/ k = L \/ k \in (L + 1)..Len(stack')
    BY Sizes
  <1>5. \A k \in 1..(L - 1) : k \in 1..L
    BY Sizes
  <1>6. \A k \in 1..Len(stack') : Unrepeated(stack'[k])
    BY <1>1, <1>3, <1>4, <1>5, OwnershipFacts, UnrepeatedFew DEF Called, Fresh
  <1> QED BY <1>2, <1>6, OwnershipNext

LEMMA HandingOwnership ==
  ASSUME IInv, Ownership, Handing
  PROVE  Ownership'
  <1>0. PICK e \in Nat : e = Top.children[1]
    BY OperandOK DEF Handing
  <1> DEFINE g == stack[L - 1]
  <1>1. /\ Top.at # "body" /\ Left(With(g, e)) /\ e \in Nat /\ g \in Frame
        /\ UNCHANGED <<expressions, fields, arms>> /\ L - 1 \in Nat
        /\ L - 1 \in 1..L
        /\ \A c : Holds(Top, c) <=> c = e
    BY <1>0, CallerExists, Sizes, HoldsSole DEF Handing, NothingStored
  <1>2. /\ \A c : c # e => InFrames(c)' = InFrames(c) \ {L}
        /\ InFrames(e)' = (InFrames(e) \ {L}) \cup {L - 1}
    BY <1>1, FramesGiven
  <1> HIDE DEF g
  <1>3. ASSUME NEW c \in 1..N
        PROVE  InOnePlace(c)'
    <2>1. CASE c = e
      <3>1. InFrames(c)' = {L - 1}
        BY <1>1, <1>2, <2>1, OwnershipFacts
      <3>2. InExpressions(c)' = {} /\ AsField(c)' = {} /\ AsArm(c)' = {}
        BY <1>1, <2>1, OwnershipFacts, Untouched
      <3> QED BY <1>1, <3>1, <3>2, OnePlaceNext
    <2>2. CASE c # e
      <3>a. L \notin InFrames(c)
        BY <1>1, <2>2, OwnershipFacts
      <3>1. InFrames(c)' = InFrames(c)
        BY <1>2, <2>2, <3>a
      <3> QED BY <1>1, <3>1, OwnershipFacts, Untouched, SamePlace
    <2> QED BY <2>1, <2>2
  <1>4. Unrepeated(With(g, e))
    BY <1>1, OwnershipFacts, UnrepeatedWith DEF g
  <1>5. \A k \in 1..Len(stack') : Unrepeated(stack'[k])
    BY <1>1, <1>4, OwnershipFacts, UnrepeatedKept
  <1>6. Len(expressions') = N
    BY <1>1 DEF N
  <1> QED BY <1>3, <1>5, <1>6, OwnershipNext

LEMMA StoringOwnership ==
  ASSUME IInv, Ownership, NEW kind, NEW x, Storing(kind, x),
         NEW n \in Nat, n = N + 1, NEW f, Unrepeated(f), NEW m \in Nat,
         Replaced(f) \/ (Top.at # "body" /\ Left(f)),
         \A c : c # n => InFrames(c)' = InFrames(c) \ {L},
         InFrames(n)' = {m}
  PROVE  Ownership'
  <1>1. /\ Len(expressions') = n /\ UNCHANGED <<fields, arms>>
        /\ \A c \in 1..n : c \in 1..N \/ c = n
        /\ n \notin 1..N
    BY NewEntry, Counts, OneMore DEF Storing
  <1>2. ASSUME NEW c \in 1..N
        PROVE  InOnePlace(c)'
    <2>1. InFrames(c)' = InFrames(c) \ {L}
      BY <1>1
    <2>2. AsField(c)' = AsField(c) /\ AsArm(c)' = AsArm(c)
      BY <1>1, Untouched
    <2>3. CASE Holds(Top, c)
      <3>1. /\ InFrames(c) = {L} /\ InExpressions(c) = {}
            /\ AsField(c) = {} /\ AsArm(c) = {}
        BY <2>3, OwnershipFacts
      <3>2. InExpressions(c)' = {n}
        BY <2>3, <3>1, ExpressionsStored
      <3>3. InFrames(c)' = {}
        BY <2>1, <3>1
      <3> QED BY <2>2, <3>1, <3>2, <3>3, OnePlaceNext
    <2>4. CASE ~Holds(Top, c)
      <3>1. InFrames(c)' = InFrames(c)
        BY <2>1, <2>4, OwnershipFacts
      <3>2. InExpressions(c)' = InExpressions(c)
        BY <2>4, ExpressionsStored
      <3> QED BY <2>2, <3>1, <3>2, OwnershipFacts, SamePlace
    <2> QED BY <2>3, <2>4
  <1>3. InOnePlace(n)'
    <2>1. InExpressions(n) = {} /\ AsField(n) = {} /\ AsArm(n) = {}
      BY <1>1, HeldStored
    <2>2. ~Holds(Top, n)
      BY <1>1, OwnershipFacts
    <2>3. InExpressions(n)' = {} /\ AsField(n)' = {} /\ AsArm(n)' = {}
      BY <1>1, <2>1, <2>2, ExpressionsStored, Untouched
    <2> QED BY <2>3, OnePlaceNext
  <1>4. \A c \in 1..Len(expressions') : InOnePlace(c)'
    BY <1>1, <1>2, <1>3
  <1>5. \A k \in 1..Len(stack') : Unrepeated(stack'[k])
    BY OwnershipFacts, UnrepeatedKept
  <1> QED BY <1>4, <1>5, OwnershipNext

LEMMA LeavingOwnership ==
  ASSUME IInv, Ownership, NEW kind, NEW x, Storing(kind, x), Leaving
  PROVE  Ownership'
  <1> DEFINE g == stack[L - 1]
  <1>1. PICK n \in Nat : n = N + 1
    BY Counts
  <1>a. Top.at # "body" /\ Left(With(g, n))
    BY <1>1 DEF Storing, Leaving
  <1>b. g \in Frame /\ L - 1 \in Nat /\ L - 1 \in 1..L
    BY <1>a, CallerExists, Sizes
  <1>c. n \notin 1..N
    BY <1>1, Counts
  <1>2. /\ Top.at # "body" /\ Left(With(g, n)) /\ g \in Frame
        /\ L - 1 \in Nat /\ L - 1 \in 1..L /\ n \notin 1..N
    BY <1>a, <1>b, <1>c
  <1>3. InFrames(n) = {}
    BY <1>2, HeldStored
  <1>4. ~Holds(g, n)
    BY <1>2, <1>3, FrameHolds
  <1>5. Unrepeated(With(g, n))
    BY <1>2, <1>4, OwnershipFacts, UnrepeatedWith
  <1>6. /\ \A c : c # n => InFrames(c)' = InFrames(c) \ {L}
        /\ InFrames(n)' = {L - 1}
    BY <1>2, <1>3, FramesGiven
  <1> QED BY <1>1, <1>2, <1>5, <1>6, StoringOwnership

LEMMA FoldingOwnership ==
  ASSUME IInv, Ownership, NEW kind, NEW x, Storing(kind, x), Folding
  PROVE  Ownership'
  <1>1. PICK n \in Nat : n = N + 1
    BY Counts
  <1> DEFINE f == [Top EXCEPT !.children = <<n>>]
  <1>2. Top \in Frame /\ <<n>> \in Seq(Nat)
    BY TopTypes
  <1>3. f.children = <<n>>
    BY <1>2, Changed
  <1>4. Replaced(f) /\ n \notin 1..N /\ L \in Nat
    BY <1>1, Counts, Sizes DEF Folding
  <1> HIDE DEF f
  <1>5. Unrepeated(f) /\ \A c : Holds(f, c) <=> c = n
    BY <1>3, HoldsSole, UnrepeatedFew
  <1>6. InFrames(n) = {}
    BY <1>4, HeldStored
  <1>7. /\ \A c : c # n => InFrames(c)' = InFrames(c) \ {L}
        /\ InFrames(n)' = {L}
    BY <1>4, <1>5, <1>6, FramesReplaced
  <1> QED BY <1>1, <1>4, <1>5, <1>7, StoringOwnership

LEMMA PayingOwnership ==
  ASSUME IInv, Ownership, NEW f, Paying(f)
  PROVE  Ownership'
  <1> DEFINE g == stack[L - 1]
  <1>1. /\ Top.at # "body" /\ Left(f) /\ UNCHANGED <<expressions, fields, arms>>
        /\ L - 1 \in 1..L /\ L # L - 1 /\ Len(Top.children) = 0
        /\ f.children = g.children
    BY CallerExists, Sizes, TopTypes DEF Paying, NothingStored, Ready
  <1>2. \A c : ~Holds(Top, c)
    BY <1>1, HoldsSole
  <1>3. \A c : Holds(f, c) <=> Holds(g, c)
    BY <1>1 DEF Holds
  <1>4. ASSUME NEW c PROVE InFrames(c)' = InFrames(c)
    <2>1. L \notin InFrames(c)
      BY <1>2, OwnershipFacts
    <2>2. L - 1 \in InFrames(c) <=> Holds(f, c)
      BY <1>1, <1>3, FrameHolds
    <2>3. /\ Holds(f, c) => InFrames(c)' = (InFrames(c) \ {L}) \cup {L - 1}
          /\ ~Holds(f, c) => InFrames(c)' = InFrames(c) \ {L, L - 1}
      BY <1>1, FramesLeft
    <2> QED BY <2>1, <2>2, <2>3
  <1>5. \A c \in 1..Len(expressions') : InOnePlace(c)'
    BY <1>1, <1>4, OwnershipFacts, Untouched, SamePlace DEF N
  <1>6. Unrepeated(f)
    BY <1>1, OwnershipFacts DEF Unrepeated
  <1>7. \A k \in 1..Len(stack') : Unrepeated(stack'[k])
    BY <1>1, <1>6, OwnershipFacts, UnrepeatedKept
  <1> QED BY <1>5, <1>7, OwnershipNext

LEMMA FieldEntryOwnership ==
  ASSUME IInv, Ownership, NEW f, FieldEntry(f)
  PROVE  Ownership'
  <1>0. PICK e \in Nat : e = Top.children[1]
    BY OperandOK DEF FieldEntry
  <1>1. PICK n \in Nat : n = NF + 1
    BY Counts
  <1>2. /\ Replaced(f) /\ UNCHANGED <<expressions, arms>> /\ f.children = <<>>
        /\ \A c : Holds(Top, c) <=> c = e
        /\ \A c : ~Holds(f, c)
    BY <1>0, HoldsSole DEF FieldEntry
  <1>3. /\ AsField(e)' = AsField(e) \cup {n}
        /\ \A c : c # e => AsField(c)' = AsField(c)
    BY <1>0, <1>1, FieldsStored
  <1>4. \A c : InFrames(c)' = InFrames(c) \ {L}
    BY <1>2, FramesReplaced
  <1>5. ASSUME NEW c \in 1..N
        PROVE  InOnePlace(c)'
    <2>1. CASE c = e
      <3>1. InFrames(c)' = {} /\ AsField(c)' = {n}
        BY <1>2, <1>3, <1>4, <2>1, OwnershipFacts
      <3>2. InExpressions(c)' = {} /\ AsArm(c)' = {}
        BY <1>2, <2>1, OwnershipFacts, Untouched
      <3> QED BY <3>1, <3>2, OnePlaceNext
    <2>2. CASE c # e
      <3>1. InFrames(c)' = InFrames(c) /\ AsField(c)' = AsField(c)
        BY <1>2, <1>3, <1>4, <2>2, OwnershipFacts
      <3> QED BY <1>2, <3>1, OwnershipFacts, Untouched, SamePlace
    <2> QED BY <2>1, <2>2
  <1>6. Unrepeated(f)
    BY <1>2, UnrepeatedFew
  <1>7. \A k \in 1..Len(stack') : Unrepeated(stack'[k])
    BY <1>2, <1>6, OwnershipFacts, UnrepeatedKept
  <1>8. Len(expressions') = N
    BY <1>2 DEF N
  <1> QED BY <1>5, <1>7, <1>8, OwnershipNext

LEMMA ArmEntryOwnership ==
  ASSUME IInv, Ownership, NEW f, ArmEntry(f)
  PROVE  Ownership'
  <1>0. PICK d \in Nat, e \in Nat : d = Top.children[1] /\ e = Top.children[2]
    BY OperandOK DEF ArmEntry
  <1>1. PICK n \in Nat : n = NA + 1
    BY Counts
  <1>2. /\ Replaced(f) /\ UNCHANGED <<expressions, fields>>
        /\ f.children = <<d>> /\ Len(Top.children) = 2
    BY <1>0 DEF ArmEntry
  <1>3. /\ \A c : Holds(Top, c) <=> c = d \/ c = e
        /\ d # e
    <2>1. \A j : j \in 1..2 <=> j = 1 \/ j = 2
      OBVIOUS
    <2>2. \A i, j \in 1..2 : Top.children[i] = Top.children[j] => i = j
      BY <1>2, OwnershipFacts DEF Unrepeated
    <2> QED BY <1>0, <1>2, <2>1, <2>2 DEF Holds
  <1>4. /\ AsArm(e)' = AsArm(e) \cup {n}
        /\ \A c : c # e => AsArm(c)' = AsArm(c)
    BY <1>0, <1>1, ArmsStored
  <1>5. \A c : Holds(f, c) <=> c = d
    BY <1>2, HoldsSole
  <1>6. /\ \A c : c # d => InFrames(c)' = InFrames(c) \ {L}
        /\ InFrames(d)' = InFrames(d) \cup {L}
    BY <1>2, <1>5, FramesReplaced
  <1>7. ASSUME NEW c \in 1..N
        PROVE  InOnePlace(c)'
    <2>1. CASE c = e
      <3>1. InFrames(c)' = {} /\ AsArm(c)' = {n}
        BY <1>3, <1>4, <1>6, <2>1, OwnershipFacts
      <3>2. InExpressions(c)' = {} /\ AsField(c)' = {}
        BY <1>2, <1>3, <2>1, OwnershipFacts, Untouched
      <3> QED BY <3>1, <3>2, OnePlaceNext
    <2>2. CASE c # e
      <3>1. AsArm(c)' = AsArm(c)
        BY <1>4, <2>2
      <3>2. InFrames(c)' = InFrames(c)
        <4>1. CASE c = d
          <5>1. L \in InFrames(d)
            BY <1>3, OwnershipFacts
          <5> QED BY <1>6, <4>1, <5>1
        <4>2. CASE c # d
          <5>1. L \notin InFrames(c)
            BY <1>3, <2>2, <4>2, OwnershipFacts
          <5> QED BY <1>6, <4>2, <5>1
        <4> QED BY <4>1, <4>2
      <3> QED BY <1>2, <3>1, <3>2, OwnershipFacts, Untouched, SamePlace
    <2> QED BY <2>1, <2>2
  <1>8. Unrepeated(f)
    BY <1>2, UnrepeatedFew
  <1>9. \A k \in 1..Len(stack') : Unrepeated(stack'[k])
    BY <1>2, <1>8, OwnershipFacts, UnrepeatedKept
  <1>10. Len(expressions') = N
    BY <1>2 DEF N
  <1> QED BY <1>7, <1>9, <1>10, OwnershipNext

LEMMA OwnershipStep ==
  ASSUME IInv, Ownership, Effect
  PROVE  Ownership'
  <1>1. CASE UNCHANGED <<expressions, fields, arms, stack>>
    <2>1. ASSUME NEW c
          PROVE  /\ InFrames(c)' = InFrames(c) /\ InExpressions(c)' = InExpressions(c)
                 /\ AsField(c)' = AsField(c) /\ AsArm(c)' = AsArm(c)
      BY <1>1 DEF InFrames, InExpressions, AsField, AsArm
    <2>2. \A c \in 1..Len(expressions) : InOnePlace(c)'
      BY <2>1 DEF Ownership, InOnePlace
    <2> QED BY <1>1, <2>2 DEF Ownership
  <1> QED BY <1>1, CallingOwnership, HandingOwnership, LeavingOwnership,
             FoldingOwnership, PayingOwnership, FieldEntryOwnership,
             ArmEntryOwnership DEF Effect

-----------------------------------------------------------------------------
(***************************************************************************)
(* Who refers to an expression when the body has been parsed.              *)
(***************************************************************************)
LEMMA Smallest ==
  ASSUME NEW T, T \subseteq Nat, T # {}
  PROVE  \E x \in T : \A y \in T : x <= y
  <1> DEFINE R == {ss \in Nat \X Nat : ss[1] < ss[2]}
  <1>1. IsWellFoundedOn(R, Nat)
    BY NatLessThanWellFounded DEF OpToRel
  <1>2. ASSUME NEW x \in Nat, NEW y \in Nat, y < x
        PROVE  <<y, x>> \in R
    BY <1>2
  <1> HIDE DEF R
  <1>3. PICK x \in T : \A y \in T : ~(<<y, x>> \in R)
    BY <1>1, WFMin
  <1>4. \A y \in T : ~(y < x)
    BY <1>2, <1>3
  <1> QED BY <1>3, <1>4

LEMMA WrittenMembers ==
  ASSUME NEW i \in Nat, NEW k
  PROVE  k \in Written(i) <=>
           /\ k \in Slots(i)
           /\ \A j \in 1..(i - 1) : (IsMatch(j) <=> IsMatch(i)) => k \notin Slots(j)
  BY DEF Written, IsMatch

\* A slot that is in the range of an expression is written in just one of
\* them: the first, all others around it.
LEMMA OneWriter ==
  ASSUME IInv, NEW k, NEW i \in 1..N, k \in Slots(i)
  PROVE  \E w \in 1..N : \A j \in 1..N :
           ((IsMatch(j) <=> IsMatch(i)) /\ k \in Written(j)) <=> j = w
  <1> DEFINE T == {j \in 1..N : (IsMatch(j) <=> IsMatch(i)) /\ k \in Slots(j)}
  <1>1. T \subseteq Nat /\ T # {} /\ N \in Nat
    <2>1. N \in Nat /\ T \subseteq 1..N
      BY Counts
    <2>2. i \in T
      BY Zenon
    <2> HIDE DEF T
    <2> QED BY <2>1, <2>2
  <1>2. PICK w \in T : \A j \in T : w <= j
    BY <1>1, Smallest
  <1>3. w \in 1..N /\ (IsMatch(w) <=> IsMatch(i)) /\ k \in Slots(w)
    OBVIOUS
  <1>4. \A j \in 1..N : (IsMatch(j) <=> IsMatch(i)) /\ k \in Slots(j) => w <= j
    BY <1>2
  <1> HIDE DEF T
  <1>5. \A j \in 1..(w - 1) : (IsMatch(j) <=> IsMatch(w)) => k \notin Slots(j)
    BY <1>1, <1>3, <1>4
  <1>6. k \in Written(w)
    BY <1>1, <1>3, <1>5, WrittenMembers
  <1>7. ASSUME NEW j \in 1..N, IsMatch(j) <=> IsMatch(i), k \in Written(j)
        PROVE  j = w
    <2>1. /\ j \in Nat /\ k \in Slots(j)
          /\ \A l \in 1..(j - 1) : (IsMatch(l) <=> IsMatch(j)) => k \notin Slots(l)
      BY <1>1, <1>7, WrittenMembers
    <2>2. w <= j
      BY <1>4, <1>7, <2>1
    <2>3. ~(w < j)
      <3>1. w < j => w \in 1..(j - 1)
        BY <1>1, <1>3, <2>1
      <3> QED BY <1>3, <1>7, <2>1, <3>1
    <2> QED BY <1>1, <1>3, <2>1, <2>2, <2>3
  <1> QED BY <1>3, <1>6, <1>7

LEMMA ParentMeans ==
  ASSUME IInv, NEW i \in 1..N, NEW c
  PROVE  i \in Parents(c) <=>
           \/ i \in InExpressions(c)
           \/ IsMatch(i) /\ \E k \in AsArm(c) : k \in Written(i)
           \/ ~IsMatch(i) /\ \E k \in AsField(c) : k \in Written(i)
  <1>1. /\ expressions[i] \in Expression
        /\ IsMatch(i) => \A k \in Slots(i) : k \in 1..Len(arms)
        /\ ~IsMatch(i) => \A k \in Slots(i) : k \in 1..Len(fields)
    BY DEF IInv, ExpressionsOK, ExpressionOK, IsMatch, Slots, N
  <1>2. DOMAIN expressions[i].children = 1..Len(expressions[i].children)
    BY <1>1 DEF Expression
  <1>3. Written(i) \subseteq Slots(i)
    BY DEF Written
  <1>4. i \in Parents(c) <=> c \in References(i, Written(i))
    BY DEF Parents, Numbers, N
  <1>5. i \in InExpressions(c) <=> \E j \in 1..Len(expressions[i].children) :
                                     expressions[i].children[j] = c
    BY DEF InExpressions, Holds, N
  <1>6. CASE IsMatch(i)
    <2>1. c \in References(i, Written(i)) <=>
            \/ \E j \in 1..Len(expressions[i].children) :
                 expressions[i].children[j] = c
            \/ \E k \in Written(i) : arms[k].body = c
      BY <1>2, <1>6 DEF References
    <2>2. (\E k \in Written(i) : arms[k].body = c)
            <=> \E k \in AsArm(c) : k \in Written(i)
      BY <1>1, <1>3, <1>6 DEF AsArm
    <2> QED BY <1>4, <1>5, <1>6, <2>1, <2>2
  <1>7. CASE ~IsMatch(i)
    <2>1. c \in References(i, Written(i)) <=>
            \/ \E j \in 1..Len(expressions[i].children) :
                 expressions[i].children[j] = c
            \/ \E k \in Written(i) : fields[k].value = c
      BY <1>2, <1>7 DEF References
    <2>2. (\E k \in Written(i) : fields[k].value = c)
            <=> \E k \in AsField(c) : k \in Written(i)
      BY <1>1, <1>3, <1>7 DEF AsField
    <2> QED BY <1>4, <1>5, <1>7, <2>1, <2>2
  <1> QED BY <1>6, <1>7

\* The body has been parsed when it is the running production.
DoneAtBody == phase = "done" => Top.at = "body"

LEMMA DoneAtBodyStep ==
  ASSUME DoneAtBody, [Next]_vars
  PROVE  DoneAtBody'
  <1>1. CASE UNCHANGED vars
    BY <1>1 DEF vars, DoneAtBody, Top
  <1>2. CASE BodyClose
    BY <1>2 DEF BodyClose, Running, DoneAtBody, Top
  <1>3. CASE Next /\ ~BodyClose
    <2>1. phase' # "done"
      BY <1>3 DEF Next, Leaf, OpenParen, CloseParen, OpenRecord,
         FieldOpen, FieldClose, RecordClose, PayloadAbsent, PayloadOpen,
         PayloadClose, Project, Operator, Combine, LevelDone, KernelTail,
         MatchOpen, ArmOpen, ArmClose, MatchClose, RequirePayload, Continue,
         Finish, SyntaxError, Running, Fail, Goto, EnterNesting, add_expression
    <2> QED BY <2>1 DEF DoneAtBody
  <1> QED BY <1>1, <1>2, <1>3

\* Nothing is open below the body.
LEMMA BodyIsAlone ==
  ASSUME IInv, Top.at = "body"
  PROVE  L = 1 /\ \A k \in 1..L : stack[k] = Top
  <1>1. Shallow(Top.at, L, Held(stack, L))
    BY Sizes DEF IInv, StackOK, L
  <1> QED BY <1>1, Sizes DEF Shallow

LEMMA OneParent ==
  ASSUME IInv, Ownership, Coverage, RootIsLast, Top.at = "body",
         NEW c \in 1..(N - 1)
  PROVE  \E w \in 1..N : Parents(c) = {w}
  <1>1. /\ L = 1 /\ \A k \in 1..L : stack[k] = Top
        /\ Top.children = <<N>> /\ N \in Nat
    BY BodyIsAlone, Counts DEF RootIsLast, N
  <1>2. InFrames(c) = {}
    <2>1. ~Holds(Top, c)
      BY <1>1, HoldsSole
    <2> QED BY <1>1, <2>1 DEF InFrames, L
  <1>3. InOnePlace(c)
    BY <1>1 DEF Ownership, N
  <1>4. /\ \A k : ~KeepsField(Top, k) /\ ~KeepsArm(Top, k)
        /\ \A k \in 1..Len(fields) : \E i \in 1..N : ~IsMatch(i) /\ k \in Slots(i)
        /\ \A k \in 1..Len(arms) : \E i \in 1..N : IsMatch(i) /\ k \in Slots(i)
    <2>1. \A k : ~KeepsField(Top, k) /\ ~KeepsArm(Top, k)
      BY DEF KeepsField, KeepsArm, Fielders, Armers, Ranged
    <2> QED BY <1>1, <2>1 DEF Coverage, FieldKept, ArmKept, L, N
  <1>5. Parents(c) \subseteq 1..N
    BY DEF Parents, Numbers, N
  <1>6. ASSUME NEW w \in 1..N, \A i \in 1..N : i \in Parents(c) <=> i = w
        PROVE  \E x \in 1..N : Parents(c) = {x}
    BY <1>5, <1>6
  <1>7. ASSUME NEW w, InExpressions(c) = {w}, AsField(c) = {}, AsArm(c) = {}
        PROVE  \E x \in 1..N : Parents(c) = {x}
    <2>1. w \in 1..N
      BY <1>7 DEF InExpressions, N
    <2>2. \A i \in 1..N : i \in Parents(c) <=> i = w
      BY <1>7, ParentMeans
    <2> QED BY <1>6, <2>1, <2>2
  <1>8. ASSUME NEW k, InExpressions(c) = {}, AsField(c) = {k}, AsArm(c) = {}
        PROVE  \E x \in 1..N : Parents(c) = {x}
    <2>1. k \in 1..Len(fields)
      BY <1>8 DEF AsField
    <2>2. PICK i \in 1..N : ~IsMatch(i) /\ k \in Slots(i)
      BY <1>4, <2>1
    <2>3. PICK w \in 1..N : \A j \in 1..N :
            ((IsMatch(j) <=> IsMatch(i)) /\ k \in Written(j)) <=> j = w
      BY <2>2, OneWriter
    <2>4. \A j \in 1..N : j \in Parents(c) <=> ~IsMatch(j) /\ k \in Written(j)
      BY <1>8, ParentMeans
    <2>5. \A j \in 1..N : j \in Parents(c) <=> j = w
      BY <2>2, <2>3, <2>4
    <2> QED BY <1>6, <2>5
  <1>9. ASSUME NEW k, InExpressions(c) = {}, AsField(c) = {}, AsArm(c) = {k}
        PROVE  \E x \in 1..N : Parents(c) = {x}
    <2>1. k \in 1..Len(arms)
      BY <1>9 DEF AsArm
    <2>2. PICK i \in 1..N : IsMatch(i) /\ k \in Slots(i)
      BY <1>4, <2>1
    <2>3. PICK w \in 1..N : \A j \in 1..N :
            ((IsMatch(j) <=> IsMatch(i)) /\ k \in Written(j)) <=> j = w
      BY <2>2, OneWriter
    <2>4. \A j \in 1..N : j \in Parents(c) <=> IsMatch(j) /\ k \in Written(j)
      BY <1>9, ParentMeans
    <2>5. \A j \in 1..N : j \in Parents(c) <=> j = w
      BY <2>2, <2>3, <2>4
    <2> QED BY <1>6, <2>5
  <1> QED BY <1>2, <1>3, <1>7, <1>8, <1>9 DEF InOnePlace

(***************************************************************************)
(* A body that has been parsed is a tree: its root is the last expression, *)
(* and every other one is written in one place, as an operand, in a field  *)
(* or in an arm, however the constructs share the arenas.                  *)
(***************************************************************************)
THEOREM BodiesAreTrees == Spec => []BodyIsTree
  <1> DEFINE J == IInv /\ Ownership /\ Coverage /\ RootIsLast /\ DoneAtBody
  <1>1. Init => J
    <2> SUFFICES ASSUME Init PROVE J
      OBVIOUS
    <2>1. IInv
      BY InitInv
    <2>2. \A k \in 1..Len(stack) : stack[k].children = <<>>
      BY InitFrames, AtFields
    <2>3. Ownership
      BY <2>2, InitFrames, UnrepeatedFew DEF Ownership
    <2>4. Coverage
      BY InitFrames DEF Coverage
    <2>5. RootIsLast
      BY InitFrames, AtFields DEF RootIsLast
    <2>6. DoneAtBody
      BY DEF Init, DoneAtBody
    <2> QED BY <2>1, <2>3, <2>4, <2>5, <2>6
  <1>2. J /\ [Next]_vars => J'
    BY NextInv, NextEffect, OwnershipStep, CoverageStep, RootIsLastStep,
       DoneAtBodyStep
  <1>3. J => BodyIsTree
    <2> SUFFICES ASSUME J, phase = "done"
                 PROVE  /\ Top.children = <<Len(expressions)>>
                        /\ \A c \in 1..(Len(expressions) - 1) :
                             Cardinality(Parents(c)) = 1
      BY DEF BodyIsTree
    <2>1. Top.at = "body"
      BY DEF DoneAtBody
    <2>2. \A c \in 1..(N - 1) : \E w \in 1..N : Parents(c) = {w}
      BY <2>1, OneParent
    <2>3. \A c \in 1..(N - 1) : Cardinality(Parents(c)) = 1
      BY <2>2, FS_Singleton
    <2> QED BY <2>1, <2>3 DEF RootIsLast, N
  <1> QED BY <1>1, <1>2, <1>3, PTL DEF Spec
=============================================================================
