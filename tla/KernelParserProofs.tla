-------------------------- MODULE KernelParserProofs --------------------------
(***************************************************************************)
(* The descent is typed, its nesting counter exact and its arenas ordered, *)
(* for every source and every capacity.                                    *)
(*                                                                         *)
(* All of it depends on who waits for whom: which production a waiting     *)
(* frame has called, after how many results of its own calls, and how many *)
(* results the running frame has when it runs.  The invariant says this of *)
(* every pair of adjacent frames.                                          *)
(***************************************************************************)
EXTENDS KernelParser, TLAPS, FiniteSetTheorems, SequenceTheorems

\* The frames of a kernel tail, from its first token to its last.
Tails == {"tail", "let", "require", "require_ready", "accept", "reject", "if",
          "match", "arms", "arm"}

\* The frames of a rejection payload.
Payloads == {"payload_entry", "payload", "payload_field"}

\* The frames of a primary expression.
Primaries == {"primary", "paren", "record", "record_field"}

\* The frames that read field initialisers, and those that read arms.
Fielders == {"record", "record_field", "payload", "payload_field"}
Armers == {"arms", "arm"}

(***************************************************************************)
(* f has called g, the frame above it: which it is depends on how many     *)
(* results f has.                                                          *)
(***************************************************************************)
Wants(f, g) ==
  LET n == Len(f.children) IN
  \/ /\ \/ f.at = "body" /\ n = 0
        \/ f.at \in {"let", "require_ready", "arm"} /\ n = 1
        \/ f.at = "if" /\ n \in {1, 2}
     /\ g.at \in Tails
  \/ /\ f.at \in {"let", "require", "accept", "if", "match", "paren",
                  "record_field", "payload_field"}
     /\ n = 0
     /\ g.at = "or"
  \/ /\ \/ f.at = "reject" /\ n = 0
        \/ f.at = "require_ready" /\ n = 1
     /\ f.count = 0
     /\ g.at \in Payloads
  \/ f.at = "or" /\ n \in {0, 1} /\ g.at = "and"
  \/ f.at = "and" /\ n \in {0, 1} /\ g.at = "compare"
  \/ f.at = "compare" /\ n \in {0, 1} /\ g.at = "projection"
  \/ f.at = "projection" /\ n = 0 /\ g.at \in Primaries

\* The results a frame has when it runs.
Ready(f) ==
  LET n == Len(f.children) IN
  /\ f.at \in {"tail", "primary", "record", "payload", "payload_entry", "reject"}
       => n = 0
  /\ f.at \in {"body", "paren", "record_field", "payload_field", "accept",
               "require", "match", "arms", "projection"} => n = 1
  /\ f.at \in {"compare", "and", "or", "let", "require_ready"} => n \in {1, 2}
  /\ f.at = "if" => n \in {1, 2, 3}
  /\ f.at = "arm" => n = 2

(***************************************************************************)
(* A frame when n expressions, nf fields and na arms are stored.           *)
(***************************************************************************)
FrameOK(f, n, nf, na) ==
  /\ f \in Frame
  /\ \A j \in 1..Len(f.children) : f.children[j] \in 1..n
  /\ f.at \in {"reject", "require", "require_ready"} => f.first + f.count <= nf
  /\ f.at \notin {"reject", "require_ready"} => f.count = 0
  /\ f.at \in Fielders => f.first <= nf
  /\ f.at \in Armers => f.first <= na
  /\ f.at \in {"record_field", "payload_field"} => f.name \in FieldNames
  /\ f.at = "arm" => f.name \in CaseNames

\* How many of the first k frames hold a level of nesting.
Held(s, k) == Cardinality({j \in 1..k : s[j].at \in Holders})

\* How far from the bottom frame k may be when h frames up to it hold a level.
Shallow(label, k, h) ==
  /\ label \in Holders => k <= 6 * h - 4
  /\ label \in Payloads => k <= 6 * h - 3
  /\ label = "or" => k <= 6 * h - 2
  /\ label = "and" => k <= 6 * h - 1
  /\ label = "compare" => k <= 6 * h
  /\ label = "projection" => k <= 6 * h + 1
  /\ label \in {"primary", "tail"} => k <= 6 * h + 2
  /\ label = "body" => k = 1

\* g may stand above the frames of s.
Attaches(s, g) ==
  IF Len(s) = 0 THEN g.at = "body" ELSE Wants(s[Len(s)], g)

StackOK(s, n, nf, na) ==
  /\ s \in Seq(Frame)
  /\ \A k \in 1..Len(s) : /\ FrameOK(s[k], n, nf, na)
                          /\ Shallow(s[k].at, k, Held(s, k))
                          /\ k = 1 => s[k].at = "body"
                          /\ k > 1 => Wants(s[k - 1], s[k])

\* The i-th expression: its operands precede it, and its range is stored.
ExpressionOK(e, i, fs, as) ==
  /\ e \in Expression
  /\ \A j \in 1..Len(e.children) : e.children[j] \in 1..(i - 1)
  /\ e.kind = "match" =>
       \A k \in (e.first + 1)..(e.first + e.count) :
         k \in 1..Len(as) /\ as[k].body \in 1..(i - 1)
  /\ e.kind # "match" =>
       \A k \in (e.first + 1)..(e.first + e.count) :
         k \in 1..Len(fs) /\ fs[k].value \in 1..(i - 1)

FieldsOK(fs, n) ==
  /\ fs \in Seq([name : FieldNames, value : Nat])
  /\ Len(fs) <= MaxFields
  /\ \A k \in 1..Len(fs) : fs[k].value \in 1..n

ArmsOK(as, n) ==
  /\ as \in Seq([item : CaseNames, body : Nat])
  /\ Len(as) <= MaxArms
  /\ \A k \in 1..Len(as) : as[k].body \in 1..n

ExpressionsOK(es, fs, as) ==
  /\ es \in Seq(Expression)
  /\ Len(es) <= MaxExpressions
  /\ \A i \in 1..Len(es) : ExpressionOK(es[i], i, fs, as)

IInv ==
  /\ forms \in Families
  /\ phase \in {"parse", "done", "failed", "overrun"}
  /\ code \in Codes
  /\ depth \in 0..MaxNesting
  /\ ExpressionsOK(expressions, fields, arms)
  /\ FieldsOK(fields, Len(expressions))
  /\ ArmsOK(arms, Len(expressions))
  /\ StackOK(stack, Len(expressions), Len(fields), Len(arms))
  /\ Len(stack) > 0
  /\ depth = Held(stack, Len(stack))
  /\ Ready(Top)

-----------------------------------------------------------------------------
(***************************************************************************)
(* Constants and single frames.                                            *)
(***************************************************************************)
LEMMA ConstantTypes ==
  /\ MaxNesting \in Nat /\ MaxExpressions \in Nat
  /\ MaxFields \in Nat /\ MaxArms \in Nat
  BY CapacityAssumption

LEMMA OneMore ==
  /\ \A n \in Nat : \A k \in 1..(n + 1) : k \in 1..n \/ k = n + 1
  /\ \A n \in Nat : \A k \in 1..n : k \in 1..(n + 1)
  /\ \A n \in Nat : n + 1 \in 1..(n + 1)
  OBVIOUS

LEMMA FrameFields ==
  ASSUME NEW f \in Frame
  PROVE  /\ f.at \in Labels
         /\ f.children \in Seq(Nat) /\ Len(f.children) \in Nat
         /\ f.first \in Nat /\ f.count \in Nat
         /\ f.name \in FieldNames \cup CaseNames \cup {"none"}
         /\ f.variant \in Variants \cup {{}}
  BY DEF Frame

\* A production that has just been called remembers nothing.
LEMMA AtFields ==
  ASSUME NEW label
  PROVE  /\ At(label).at = label
         /\ At(label).children = <<>> /\ Len(At(label).children) = 0
         /\ At(label).first = 0 /\ At(label).count = 0
         /\ At(label).name = "none" /\ At(label).variant = {}
  BY DEF At

LEMMA AtFrame ==
  ASSUME NEW label \in Labels \ {"record_field", "payload_field", "arm"},
         NEW n \in Nat, NEW nf \in Nat, NEW na \in Nat
  PROVE  FrameOK(At(label), n, nf, na)
  <1>1. At(label) \in Frame
    BY DEF At, Frame
  <1>2. \A j \in 1..Len(At(label).children) : At(label).children[j] \in 1..n
    BY AtFields
  <1> HIDE DEF At
  <1> QED BY <1>1, <1>2, AtFields DEF FrameOK

LEMMA FrameGrows ==
  ASSUME NEW f, NEW n \in Nat, NEW nf \in Nat, NEW na \in Nat,
         NEW m \in Nat, NEW mf \in Nat, NEW ma \in Nat,
         m >= n, mf >= nf, ma >= na, FrameOK(f, n, nf, na)
  PROVE  FrameOK(f, m, mf, ma)
  BY FrameFields DEF FrameOK

LEMMA StackGrows ==
  ASSUME NEW s, NEW n \in Nat, NEW nf \in Nat, NEW na \in Nat,
         NEW m \in Nat, NEW mf \in Nat, NEW ma \in Nat,
         m >= n, mf >= nf, ma >= na, StackOK(s, n, nf, na)
  PROVE  StackOK(s, m, mf, ma)
  BY FrameGrows DEF StackOK

-----------------------------------------------------------------------------
(***************************************************************************)
(* The levels of nesting a stack holds.                                    *)
(***************************************************************************)
LEMMA HeldType ==
  ASSUME NEW s, NEW k \in Nat
  PROVE  /\ Held(s, k) \in Nat
         /\ IsFiniteSet({j \in 1..k : s[j].at \in Holders})
  <1>1. IsFiniteSet(1..k)
    BY FS_Interval
  <1>2. IsFiniteSet({j \in 1..k : s[j].at \in Holders})
    BY <1>1, FS_Subset
  <1> QED BY <1>2, FS_CardinalityType DEF Held

LEMMA HeldNone ==
  ASSUME NEW s
  PROVE  Held(s, 0) = 0
  <1>1. {j \in 1..0 : s[j].at \in Holders} = {}
    OBVIOUS
  <1> QED BY <1>1, FS_EmptySet DEF Held

LEMMA HeldNext ==
  ASSUME NEW s, NEW k \in Nat
  PROVE  Held(s, k + 1) = Held(s, k) + (IF s[k + 1].at \in Holders THEN 1 ELSE 0)
  <1> DEFINE A == {j \in 1..k : s[j].at \in Holders}
             B == {j \in 1..(k + 1) : s[j].at \in Holders}
  <1>1. IsFiniteSet(A) /\ Cardinality(A) \in Nat
    BY HeldType DEF Held
  <1>2. CASE s[k + 1].at \in Holders
    <2>1. B = A \cup {k + 1} /\ k + 1 \notin A
      BY <1>2
    <2>2. Cardinality(B) = Cardinality(A) + 1
      BY <1>1, <2>1, FS_AddElement
    <2> QED BY <1>2, <2>2 DEF Held
  <1>3. CASE s[k + 1].at \notin Holders
    <2>1. B = A
      BY <1>3
    <2> QED BY <1>1, <1>3, <2>1 DEF Held
  <1> QED BY <1>2, <1>3

LEMMA HeldSame ==
  ASSUME NEW s, NEW t, NEW k, \A j \in 1..k : s[j].at = t[j].at
  PROVE  Held(s, k) = Held(t, k)
  <1>1. {j \in 1..k : s[j].at \in Holders} = {j \in 1..k : t[j].at \in Holders}
    OBVIOUS
  <1> QED BY <1>1 DEF Held

-----------------------------------------------------------------------------
(***************************************************************************)
(* Removing the innermost frame and adding one.                            *)
(***************************************************************************)
Weight(f) == IF f.at \in Holders THEN 1 ELSE 0

Pop(s) == SubSeq(s, 1, Len(s) - 1)

LEMMA PopSeq ==
  ASSUME NEW S, NEW s \in Seq(S), Len(s) > 0
  PROVE  /\ Pop(s) \in Seq(S)
         /\ Len(Pop(s)) = Len(s) - 1
         /\ \A k \in 1..(Len(s) - 1) : Pop(s)[k] = s[k]
  <1>1. Len(s) \in Nat /\ \A k \in 1..(Len(s) - 1) : s[k] \in S
    BY ElementOfSeq, LenProperties
  <1>2. \A n \in Int : (\A i \in 1..n : s[i] \in S) =>
          /\ SubSeq(s, 1, n) \in Seq(S)
          /\ Len(SubSeq(s, 1, n)) = IF 1 <= n THEN n - 1 + 1 ELSE 0
          /\ \A i \in 1..(n - 1 + 1) : SubSeq(s, 1, n)[i] = s[1 + i - 1]
    BY SubSeqProperties
  <1>3. /\ Pop(s) \in Seq(S)
        /\ Len(Pop(s)) = IF 1 <= Len(s) - 1 THEN Len(s) - 1 - 1 + 1 ELSE 0
        /\ \A i \in 1..(Len(s) - 1 - 1 + 1) : Pop(s)[i] = s[1 + i - 1]
    BY <1>1, <1>2 DEF Pop
  <1>4. Len(Pop(s)) = Len(s) - 1
    <2>1. \A m, v \in Int :
            m > 0 /\ v = (IF 1 <= m - 1 THEN m - 1 - 1 + 1 ELSE 0) => v = m - 1
      OBVIOUS
    <2>2. Len(s) \in Int /\ Len(Pop(s)) \in Int
      BY <1>1, <1>3
    <2> QED BY <1>3, <2>1, <2>2
  <1>5. \A k \in 1..(Len(s) - 1) :
          k \in 1..(Len(s) - 1 - 1 + 1) /\ s[1 + k - 1] = s[k]
    BY <1>1
  <1> HIDE DEF Pop
  <1>6. \A k \in 1..(Len(s) - 1) : Pop(s)[k] = s[k]
    BY <1>3, <1>5
  <1> QED BY <1>3, <1>4, <1>6

LEMMA PopOK ==
  ASSUME NEW s, NEW n, NEW nf, NEW na, StackOK(s, n, nf, na), Len(s) > 0
  PROVE  /\ StackOK(Pop(s), n, nf, na)
         /\ Attaches(Pop(s), s[Len(s)])
         /\ Held(s, Len(s)) = Held(Pop(s), Len(Pop(s))) + Weight(s[Len(s)])
  <1> DEFINE t == Pop(s)
  <1>1. /\ s \in Seq(Frame) /\ Len(s) \in Nat
        /\ t \in Seq(Frame) /\ Len(t) = Len(s) - 1
        /\ \A k \in 1..Len(t) : t[k] = s[k]
    BY PopSeq, LenProperties DEF StackOK
  <1> HIDE DEF t
  <1>2. \A k \in 1..Len(t) : Held(t, k) = Held(s, k)
    <2> SUFFICES ASSUME NEW k \in 1..Len(t) PROVE Held(t, k) = Held(s, k)
      OBVIOUS
    <2>1. \A j \in 1..k : t[j].at = s[j].at
      BY <1>1
    <2> QED BY <2>1, HeldSame
  <1>3. StackOK(t, n, nf, na)
    <2> SUFFICES ASSUME NEW k \in 1..Len(t)
                 PROVE  /\ FrameOK(t[k], n, nf, na)
                        /\ Shallow(t[k].at, k, Held(t, k))
                        /\ k = 1 => t[k].at = "body"
                        /\ k > 1 => Wants(t[k - 1], t[k])
      BY <1>1 DEF StackOK
    <2>1. k \in 1..Len(s) /\ t[k] = s[k] /\ Held(t, k) = Held(s, k)
      BY <1>1, <1>2
    <2>2. k > 1 => t[k - 1] = s[k - 1]
      BY <1>1
    <2> QED BY <2>1, <2>2 DEF StackOK
  <1>4. Attaches(t, s[Len(s)])
    BY <1>1 DEF StackOK, Attaches
  <1>5. Held(s, Len(s)) = Held(t, Len(t)) + Weight(s[Len(s)])
    <2>1. Held(s, Len(t) + 1) = Held(s, Len(t)) + Weight(s[Len(t) + 1])
      BY <1>1, HeldNext DEF Weight
    <2>2. Held(s, Len(t)) = Held(t, Len(t))
      <3>1. \A j \in 1..Len(t) : s[j].at = t[j].at
        BY <1>1
      <3> QED BY <3>1, HeldSame
    <2> QED BY <1>1, <2>1, <2>2
  <1> QED BY <1>3, <1>4, <1>5 DEF t

LEMMA PushSeq ==
  ASSUME NEW S, NEW s \in Seq(S), NEW f \in S
  PROVE  /\ Append(s, f) \in Seq(S)
         /\ Len(Append(s, f)) = Len(s) + 1
         /\ \A k \in 1..Len(s) : Append(s, f)[k] = s[k]
         /\ Append(s, f)[Len(s) + 1] = f
         /\ Len(s) \in Nat
  BY AppendProperties, LenProperties

\* How deep a frame may stand follows from how deep its caller stands.
LEMMA ShallowNext ==
  ASSUME NEW f, NEW g, NEW k \in Nat, NEW h \in Nat,
         Shallow(f.at, k, h), Wants(f, g), k > 0
  PROVE  Shallow(g.at, k + 1, h + Weight(g))
  <1>1. CASE g.at \in Tails
    BY <1>1 DEF Shallow, Wants, Weight, Holders, Tails, Payloads
  <1>2. CASE g.at = "or"
    BY <1>2 DEF Shallow, Wants, Weight, Holders, Tails, Payloads, Primaries
  <1>3. CASE g.at \in Payloads
    BY <1>3 DEF Shallow, Wants, Weight, Holders, Tails, Payloads, Primaries
  <1>4. CASE g.at \in {"and", "compare", "projection"}
    BY <1>4 DEF Shallow, Wants, Weight, Holders, Tails, Payloads, Primaries
  <1>5. CASE g.at \in Primaries
    BY <1>5 DEF Shallow, Wants, Weight, Holders, Tails, Payloads, Primaries
  <1> QED BY <1>1, <1>2, <1>3, <1>4, <1>5 DEF Wants

LEMMA PushOK ==
  ASSUME NEW s, NEW n, NEW nf, NEW na, StackOK(s, n, nf, na),
         NEW f, FrameOK(f, n, nf, na), Attaches(s, f)
  PROVE  /\ StackOK(Append(s, f), n, nf, na)
         /\ Len(Append(s, f)) = Len(s) + 1
         /\ Append(s, f)[Len(s) + 1] = f
         /\ Held(Append(s, f), Len(s) + 1) = Held(s, Len(s)) + Weight(f)
         /\ Len(s) \in Nat
  <1> DEFINE t == Append(s, f)
  <1>1. /\ s \in Seq(Frame) /\ f \in Frame /\ Len(s) \in Nat
        /\ t \in Seq(Frame) /\ Len(t) = Len(s) + 1 /\ t[Len(s) + 1] = f
        /\ \A k \in 1..Len(s) : t[k] = s[k]
    BY PushSeq DEF StackOK, FrameOK
  <1> HIDE DEF t
  <1>2. \A k \in 0..Len(s) : Held(t, k) = Held(s, k)
    <2> SUFFICES ASSUME NEW k \in 0..Len(s) PROVE Held(t, k) = Held(s, k)
      OBVIOUS
    <2>1. \A j \in 1..k : t[j].at = s[j].at
      BY <1>1
    <2> QED BY <2>1, HeldSame
  <1>3. Held(t, Len(s) + 1) = Held(s, Len(s)) + Weight(f)
    <2>1. Held(t, Len(s) + 1) = Held(t, Len(s)) + Weight(t[Len(s) + 1])
      BY <1>1, HeldNext DEF Weight
    <2> QED BY <1>1, <1>2, <2>1
  <1>4. Shallow(f.at, Len(s) + 1, Held(t, Len(s) + 1))
    <2>1. CASE Len(s) = 0
      <3>1. f.at = "body"
        BY <2>1 DEF Attaches
      <3> QED BY <2>1, <3>1 DEF Shallow, Holders, Payloads
    <2>2. CASE Len(s) > 0
      <3>1. Wants(s[Len(s)], f)
        BY <1>1, <2>2 DEF Attaches
      <3>2. Shallow(s[Len(s)].at, Len(s), Held(s, Len(s)))
        BY <1>1, <2>2 DEF StackOK
      <3>3. Held(s, Len(s)) \in Nat
        BY <1>1, HeldType
      <3> QED BY <1>1, <1>3, <2>2, <3>1, <3>2, <3>3, ShallowNext
    <2> QED BY <1>1, <2>1, <2>2
  <1>5. \A k \in 1..Len(t) : /\ FrameOK(t[k], n, nf, na)
                             /\ Shallow(t[k].at, k, Held(t, k))
                             /\ k = 1 => t[k].at = "body"
                             /\ k > 1 => Wants(t[k - 1], t[k])
    <2> SUFFICES ASSUME NEW k \in 1..Len(t)
                 PROVE  /\ FrameOK(t[k], n, nf, na)
                        /\ Shallow(t[k].at, k, Held(t, k))
                        /\ k = 1 => t[k].at = "body"
                        /\ k > 1 => Wants(t[k - 1], t[k])
      OBVIOUS
    <2>1. CASE k <= Len(s)
      <3>1. k \in 1..Len(s) /\ t[k] = s[k] /\ Held(t, k) = Held(s, k)
        BY <1>1, <1>2, <2>1
      <3>2. k > 1 => t[k - 1] = s[k - 1]
        BY <1>1, <2>1
      <3> QED BY <3>1, <3>2 DEF StackOK
    <2>2. CASE k = Len(s) + 1
      BY <1>1, <1>4, <2>2 DEF Attaches
    <2> QED BY <1>1, <2>1, <2>2
  <1>6. StackOK(t, n, nf, na)
    BY <1>1, <1>5 DEF StackOK
  <1> QED BY <1>1, <1>3, <1>6 DEF t

-----------------------------------------------------------------------------
(***************************************************************************)
(* The steps the actions take on the stack.                                *)
(***************************************************************************)
\* s, standing for a stack that holds h levels, runs its innermost frame.
Runs(s, h, n, nf, na) ==
  /\ StackOK(s, n, nf, na)
  /\ Len(s) > 0
  /\ Held(s, Len(s)) = h
  /\ Ready(s[Len(s)])

\* s waits: its innermost frame has called g.
Awaits(s, h, g, n, nf, na) ==
  /\ StackOK(s, n, nf, na)
  /\ Len(s) > 0
  /\ Held(s, Len(s)) = h
  /\ Wants(s[Len(s)], g)

LEMMA CallAwaits ==
  ASSUME NEW s, NEW h \in Nat, NEW g, NEW n, NEW nf, NEW na,
         Awaits(s, h, g, n, nf, na), FrameOK(g, n, nf, na),
         NEW f, Wants(g, f)
  PROVE  Awaits(Append(s, g), h + Weight(g), f, n, nf, na)
  <1>1. Attaches(s, g)
    BY DEF Awaits, Attaches
  <1> QED BY <1>1, PushOK DEF Awaits

LEMMA CallRuns ==
  ASSUME NEW s, NEW h \in Nat, NEW g, NEW n, NEW nf, NEW na,
         Awaits(s, h, g, n, nf, na), FrameOK(g, n, nf, na), Ready(g)
  PROVE  Runs(Append(s, g), h + Weight(g), n, nf, na)
  <1>1. Attaches(s, g)
    BY DEF Awaits, Attaches
  <1> QED BY <1>1, PushOK DEF Awaits, Runs

LEMMA LevelWants ==
  /\ Wants(At("or"), At("and"))
  /\ Wants(At("and"), At("compare"))
  /\ Wants(At("compare"), At("projection"))
  /\ Wants(At("projection"), At("primary"))
  /\ Ready(At("primary")) /\ Ready(At("tail")) /\ Ready(At("payload_entry"))
  /\ \A l \in {"or", "and", "compare", "projection", "primary", "tail",
               "payload_entry"} : Weight(At(l)) = 0
  /\ {"or", "and", "compare", "projection", "primary", "tail", "payload_entry"}
       \subseteq Labels \ {"record_field", "payload_field", "arm"}
  BY AtFields DEF Wants, Ready, Weight, Holders, Labels, Primaries

\* The calls that parse_value_expression and its levels make.
LEMMA CallProjection ==
  ASSUME NEW s, NEW h \in Nat, NEW n \in Nat, NEW nf \in Nat, NEW na \in Nat,
         Awaits(s, h, At("projection"), n, nf, na)
  PROVE  Runs(Append(Append(s, At("projection")), At("primary")), h, n, nf, na)
  <1>1. Awaits(Append(s, At("projection")), h, At("primary"), n, nf, na)
    <2>1. Awaits(Append(s, At("projection")), h + Weight(At("projection")),
                 At("primary"), n, nf, na)
      BY LevelWants, AtFrame, CallAwaits
    <2> QED BY <2>1, LevelWants
  <1>2. Runs(Append(Append(s, At("projection")), At("primary")),
             h + Weight(At("primary")), n, nf, na)
    BY <1>1, LevelWants, AtFrame, CallRuns
  <1> QED BY <1>2, LevelWants

LEMMA CallCompare ==
  ASSUME NEW s, NEW h \in Nat, NEW n \in Nat, NEW nf \in Nat, NEW na \in Nat,
         Awaits(s, h, At("compare"), n, nf, na)
  PROVE  Runs(Append(Append(Append(s, At("compare")), At("projection")),
                     At("primary")), h, n, nf, na)
  <1>1. Awaits(Append(s, At("compare")), h + Weight(At("compare")),
               At("projection"), n, nf, na)
    BY LevelWants, AtFrame, CallAwaits
  <1>2. Awaits(Append(s, At("compare")), h, At("projection"), n, nf, na)
    BY <1>1, LevelWants
  <1> QED BY <1>2, CallProjection

LEMMA CallAnd ==
  ASSUME NEW s, NEW h \in Nat, NEW n \in Nat, NEW nf \in Nat, NEW na \in Nat,
         Awaits(s, h, At("and"), n, nf, na)
  PROVE  Runs(Append(Append(Append(Append(s, At("and")), At("compare")),
                     At("projection")), At("primary")), h, n, nf, na)
  <1>1. Awaits(Append(s, At("and")), h + Weight(At("and")),
               At("compare"), n, nf, na)
    BY LevelWants, AtFrame, CallAwaits
  <1>2. Awaits(Append(s, At("and")), h, At("compare"), n, nf, na)
    BY <1>1, LevelWants
  <1> QED BY <1>2, CallCompare

LEMMA CallOr ==
  ASSUME NEW s, NEW h \in Nat, NEW n \in Nat, NEW nf \in Nat, NEW na \in Nat,
         Awaits(s, h, At("or"), n, nf, na)
  PROVE  Runs(Append(Append(Append(Append(Append(s, At("or")), At("and")),
                     At("compare")), At("projection")), At("primary")),
              h, n, nf, na)
  <1>1. Awaits(Append(s, At("or")), h + Weight(At("or")), At("and"), n, nf, na)
    BY LevelWants, AtFrame, CallAwaits
  <1>2. Awaits(Append(s, At("or")), h, At("and"), n, nf, na)
    BY <1>1, LevelWants
  <1> QED BY <1>2, CallAnd

\* Appending several frames is appending them one by one.
LEMMA Concat ==
  ASSUME NEW S, NEW s \in Seq(S), NEW a \in S, NEW b \in S, NEW c \in S,
         NEW d \in S, NEW e \in S
  PROVE  /\ s \o <<>> = s
         /\ s \o <<a>> = Append(s, a)
         /\ s \o <<a, b>> = Append(Append(s, a), b)
         /\ s \o <<a, b, c>> = Append(Append(Append(s, a), b), c)
         /\ s \o <<a, b, c, d>> = Append(Append(Append(Append(s, a), b), c), d)
         /\ s \o <<a, b, c, d, e>>
              = Append(Append(Append(Append(Append(s, a), b), c), d), e)
  <1>1. s \o <<>> = s
    BY ConcatEmptySeq
  <1>2. s \o <<a>> = Append(s, a)
    BY AppendIsConcat
  <1>3. \A t \in Seq(S) : \A x, y \in S :
          t \o <<x, y>> = Append(t \o <<x>>, y)
    OBVIOUS
  <1>4. s \o <<a, b>> = Append(Append(s, a), b)
    BY <1>2, <1>3
  <1>5. s \o <<a, b, c>> = Append(s \o <<a, b>>, c)
    OBVIOUS
  <1>6. s \o <<a, b, c, d>> = Append(s \o <<a, b, c>>, d)
    OBVIOUS
  <1>7. s \o <<a, b, c, d, e>> = Append(s \o <<a, b, c, d>>, e)
    OBVIOUS
  <1> QED BY <1>1, <1>2, <1>4, <1>5, <1>6, <1>7

LEMMA LastOfFive ==
  ASSUME NEW a, NEW b, NEW c, NEW d, NEW e
  PROVE  /\ SubSeq(<<a, b, c, d, e>>, 2, 5) = <<b, c, d, e>>
         /\ SubSeq(<<a, b, c, d, e>>, 3, 5) = <<c, d, e>>
         /\ SubSeq(<<a, b, c, d, e>>, 4, 5) = <<d, e>>
  <1> DEFINE s == <<a, b, c, d, e>>
             S == {a, b, c, d, e}
  <1>1. /\ s \in Seq(S) /\ Len(s) = 5
        /\ s[1] = a /\ s[2] = b /\ s[3] = c /\ s[4] = d /\ s[5] = e
    OBVIOUS
  <1> HIDE DEF s, S
  <1>2. \A m \in 1..5 : /\ SubSeq(s, m, 5) \in Seq(S)
                        /\ Len(SubSeq(s, m, 5)) = 5 - m + 1
                        /\ \A i \in 1..(5 - m + 1) :
                             SubSeq(s, m, 5)[i] = s[m + i - 1]
    <2> SUFFICES ASSUME NEW m \in 1..5
                 PROVE  /\ SubSeq(s, m, 5) \in Seq(S)
                        /\ Len(SubSeq(s, m, 5)) = 5 - m + 1
                        /\ \A i \in 1..(5 - m + 1) :
                             SubSeq(s, m, 5)[i] = s[m + i - 1]
      OBVIOUS
    <2>1. \A i \in m..5 : s[i] \in S
      <3>1. \A i \in 1..Len(s) : s[i] \in S
        BY <1>1, ElementOfSeq
      <3>2. \A i \in m..5 : i \in 1..5
        OBVIOUS
      <3> QED BY <1>1, <3>1, <3>2
    <2>2. m \in Int /\ 5 \in Int
      OBVIOUS
    <2>3. /\ SubSeq(s, m, 5) \in Seq(S)
          /\ Len(SubSeq(s, m, 5)) = IF m <= 5 THEN 5 - m + 1 ELSE 0
          /\ \A i \in 1..(5 - m + 1) : SubSeq(s, m, 5)[i] = s[m + i - 1]
      <3>1. \A p, q \in Int : (\A i \in p..q : s[i] \in S) =>
              /\ SubSeq(s, p, q) \in Seq(S)
              /\ Len(SubSeq(s, p, q)) = IF p <= q THEN q - p + 1 ELSE 0
              /\ \A i \in 1..(q - p + 1) : SubSeq(s, p, q)[i] = s[p + i - 1]
        BY SubSeqProperties
      <3> QED BY <2>1, <2>2, <3>1
    <2> QED BY <2>3
  <1>3. SubSeq(s, 2, 5) = <<b, c, d, e>>
    <2> DEFINE t == SubSeq(s, 2, 5)
    <2>1. t \in Seq(S) /\ Len(t) = 4 /\ t[1] = b /\ t[2] = c /\ t[3] = d /\ t[4] = e
      BY <1>1, <1>2
    <2> HIDE DEF t
    <2>2. t = <<b, c, d, e>>
      BY <2>1
    <2> QED BY <2>2 DEF t
  <1>4. SubSeq(s, 3, 5) = <<c, d, e>>
    <2> DEFINE t == SubSeq(s, 3, 5)
    <2>1. t \in Seq(S) /\ Len(t) = 3 /\ t[1] = c /\ t[2] = d /\ t[3] = e
      BY <1>1, <1>2
    <2> HIDE DEF t
    <2>2. t = <<c, d, e>>
      BY <2>1
    <2> QED BY <2>2 DEF t
  <1>5. SubSeq(s, 4, 5) = <<d, e>>
    <2> DEFINE t == SubSeq(s, 4, 5)
    <2>1. t \in Seq(S) /\ Len(t) = 2 /\ t[1] = d /\ t[2] = e
      BY <1>1, <1>2
    <2> HIDE DEF t
    <2>2. t = <<d, e>>
      BY <2>1
    <2> QED BY <2>2 DEF t
  <1> QED BY <1>3, <1>4, <1>5 DEF s

LEMMA LevelsOfValue ==
  /\ SubSeq(Value, 2, 5)
       = <<At("and"), At("compare"), At("projection"), At("primary")>>
  /\ SubSeq(Value, 3, 5) = <<At("compare"), At("projection"), At("primary")>>
  /\ SubSeq(Value, 4, 5) = <<At("projection"), At("primary")>>
  BY LastOfFive DEF Value

LEMMA Operands ==
  /\ Operand("or") = SubSeq(Value, 2, 5)
  /\ Operand("and") = SubSeq(Value, 3, 5)
  /\ Operand("compare") = SubSeq(Value, 4, 5)
  BY DEF Operand

-----------------------------------------------------------------------------
(***************************************************************************)
(* The innermost frame and its caller.                                     *)
(***************************************************************************)
N == Len(expressions)
NF == Len(fields)
NA == Len(arms)

LEMMA Counts ==
  ASSUME IInv
  PROVE  /\ N \in Nat /\ NF \in Nat /\ NA \in Nat
         /\ N <= MaxExpressions /\ NF <= MaxFields /\ NA <= MaxArms
         /\ depth \in Nat /\ depth <= MaxNesting /\ MaxNesting \in Nat
         /\ N >= N /\ NF >= NF /\ NA >= NA
         /\ expressions \in Seq(Expression)
         /\ fields \in Seq([name : FieldNames, value : Nat])
         /\ arms \in Seq([item : CaseNames, body : Nat])
         /\ New = N + 1
  BY ConstantTypes, LenProperties
     DEF IInv, N, NF, NA, ExpressionsOK, FieldsOK, ArmsOK, New

LEMMA TopTypes ==
  ASSUME IInv
  PROVE  /\ Top \in Frame /\ FrameOK(Top, N, NF, NA) /\ Ready(Top)
         /\ Callers \in Seq(Frame) /\ Callers = Pop(stack)
         /\ Len(stack) \in Nat /\ Len(stack) > 0
         /\ Len(Callers) \in Nat /\ Len(Callers) = Len(stack) - 1
         /\ StackOK(Callers, N, NF, NA)
         /\ Attaches(Callers, Top)
         /\ Held(Callers, Len(Callers)) \in Nat
         /\ depth = Held(Callers, Len(Callers)) + Weight(Top)
         /\ Top.at # "body" => /\ Len(Callers) > 0
                               /\ Wants(Callers[Len(Callers)], Top)
  <1>1. StackOK(stack, N, NF, NA) /\ Len(stack) > 0 /\ stack \in Seq(Frame)
    BY DEF IInv, N, NF, NA, StackOK
  <1>2. Callers = Pop(stack)
    BY DEF Callers, Pop
  <1>3. /\ Len(stack) \in Nat /\ Callers \in Seq(Frame)
        /\ Len(Callers) \in Nat /\ Len(Callers) = Len(stack) - 1
    BY <1>1, <1>2, PopSeq, LenProperties
  <1>4. /\ StackOK(Callers, N, NF, NA)
        /\ Attaches(Callers, Top)
        /\ depth = Held(Callers, Len(Callers)) + Weight(Top)
    BY <1>1, <1>2, PopOK DEF IInv, Top
  <1>5. FrameOK(Top, N, NF, NA)
    BY <1>1, <1>3 DEF StackOK, Top
  <1>6. Top \in Frame
    BY <1>5 DEF FrameOK
  <1>7. Held(Callers, Len(Callers)) \in Nat
    BY <1>3, HeldType
  <1>8. Top.at # "body" => /\ Len(Callers) > 0
                           /\ Wants(Callers[Len(Callers)], Top)
    BY <1>3, <1>4 DEF Attaches
  <1>9. Ready(Top)
    BY DEF IInv
  <1> QED BY <1>1, <1>2, <1>3, <1>4, <1>5, <1>6, <1>7, <1>8, <1>9

\* What a frame was called for depends on the kind of its production only.
Alike(f, g) ==
  \/ f.at = g.at
  \/ f.at \in Tails /\ g.at \in Tails
  \/ f.at \in Payloads /\ g.at \in Payloads
  \/ f.at \in Primaries /\ g.at \in Primaries

LEMMA AttachesAlike ==
  ASSUME NEW s, NEW f, NEW g, Attaches(s, f), Alike(f, g)
  PROVE  Attaches(s, g)
  BY DEF Attaches, Wants, Alike, Tails, Payloads, Primaries

\* What a production may change of its own frame.
LEMMA Changed ==
  ASSUME NEW f \in Frame
  PROVE  /\ \A n \in Nat :
              LET g == [f EXCEPT !.first = n] IN
              /\ g \in Frame /\ g.first = n /\ g.at = f.at
              /\ g.children = f.children /\ g.count = f.count
              /\ g.name = f.name /\ g.variant = f.variant
         /\ \A n \in Nat :
              LET g == [f EXCEPT !.count = n] IN
              /\ g \in Frame /\ g.count = n /\ g.at = f.at
              /\ g.children = f.children /\ g.first = f.first
              /\ g.name = f.name /\ g.variant = f.variant
         /\ \A l \in Labels :
              LET g == [f EXCEPT !.at = l] IN
              /\ g \in Frame /\ g.at = l /\ g.first = f.first
              /\ g.children = f.children /\ g.count = f.count
              /\ g.name = f.name /\ g.variant = f.variant
         /\ \A n \in FieldNames \cup CaseNames \cup {"none"} :
              LET g == [f EXCEPT !.name = n] IN
              /\ g \in Frame /\ g.name = n /\ g.at = f.at
              /\ g.children = f.children /\ g.count = f.count
              /\ g.first = f.first /\ g.variant = f.variant
         /\ \A v \in Variants \cup {{}} :
              LET g == [f EXCEPT !.variant = v] IN
              /\ g \in Frame /\ g.variant = v /\ g.at = f.at
              /\ g.children = f.children /\ g.count = f.count
              /\ g.first = f.first /\ g.name = f.name
         /\ \A c \in Seq(Nat) :
              LET g == [f EXCEPT !.children = c] IN
              /\ g \in Frame /\ g.children = c /\ g.at = f.at
              /\ g.name = f.name /\ g.count = f.count
              /\ g.first = f.first /\ g.variant = f.variant
  BY DEF Frame

\* The production goes on in f.
LEMMA WeightType ==
  ASSUME NEW f
  PROVE  Weight(f) \in {0, 1}
  BY DEF Weight

LEMMA TopWeight ==
  ASSUME IInv
  PROVE  /\ Held(Callers, Len(Callers)) = depth - Weight(Top)
         /\ Held(Callers, Len(Callers)) \in Nat /\ depth \in Nat
         /\ Weight(Top) \in {0, 1}
  <1>1. Weight(Top) \in {0, 1}
    BY WeightType
  <1>2. /\ Held(Callers, Len(Callers)) \in Nat
        /\ depth = Held(Callers, Len(Callers)) + Weight(Top)
    BY TopTypes
  <1> QED BY <1>1, <1>2

LEMMA ContinuesRuns ==
  ASSUME IInv, NEW f, NEW m \in Nat, NEW mf \in Nat, NEW ma \in Nat,
         m >= N, mf >= NF, ma >= NA,
         FrameOK(f, m, mf, ma), Alike(Top, f), Ready(f)
  PROVE  Runs(Append(Callers, f), depth - Weight(Top) + Weight(f), m, mf, ma)
  <1>1. StackOK(Callers, m, mf, ma)
    BY Counts, TopTypes, StackGrows
  <1>2. Attaches(Callers, f)
    BY TopTypes, AttachesAlike
  <1>3. /\ StackOK(Append(Callers, f), m, mf, ma)
        /\ Len(Append(Callers, f)) = Len(Callers) + 1
        /\ Append(Callers, f)[Len(Callers) + 1] = f
        /\ Held(Append(Callers, f), Len(Callers) + 1)
             = Held(Callers, Len(Callers)) + Weight(f)
    BY <1>1, <1>2, PushOK
  <1>4. /\ Held(Callers, Len(Callers)) = depth - Weight(Top)
        /\ Weight(Top) \in {0, 1} /\ Weight(f) \in {0, 1}
    BY TopWeight, WeightType
  <1> QED BY <1>3, <1>4, TopTypes DEF Runs

\* The production goes on in f, which calls g.
LEMMA ContinuesAwaits ==
  ASSUME IInv, NEW f, NEW g, FrameOK(f, N, NF, NA), Alike(Top, f), Wants(f, g)
  PROVE  Awaits(Append(Callers, f), depth - Weight(Top) + Weight(f), g, N, NF, NA)
  <1>1. StackOK(Callers, N, NF, NA)
    BY TopTypes
  <1>2. Attaches(Callers, f)
    BY TopTypes, AttachesAlike
  <1>3. /\ StackOK(Append(Callers, f), N, NF, NA)
        /\ Len(Append(Callers, f)) = Len(Callers) + 1
        /\ Append(Callers, f)[Len(Callers) + 1] = f
        /\ Held(Append(Callers, f), Len(Callers) + 1)
             = Held(Callers, Len(Callers)) + Weight(f)
    BY <1>1, <1>2, PushOK
  <1>4. /\ Held(Callers, Len(Callers)) = depth - Weight(Top)
        /\ Weight(Top) \in {0, 1} /\ Weight(f) \in {0, 1}
    BY TopWeight, WeightType
  <1> QED BY <1>3, <1>4, TopTypes DEF Awaits

-----------------------------------------------------------------------------
(***************************************************************************)
(* A result.                                                               *)
(***************************************************************************)
With(f, e) == [f EXCEPT !.children = Append(@, e)]

LEMMA WithFields ==
  ASSUME NEW f \in Frame, NEW e \in Nat
  PROVE  /\ With(f, e) \in Frame
         /\ With(f, e).at = f.at /\ With(f, e).first = f.first
         /\ With(f, e).count = f.count /\ With(f, e).name = f.name
         /\ With(f, e).variant = f.variant
         /\ With(f, e).children = Append(f.children, e)
         /\ Len(With(f, e).children) = Len(f.children) + 1
         /\ \A j \in 1..Len(f.children) : With(f, e).children[j] = f.children[j]
         /\ With(f, e).children[Len(f.children) + 1] = e
  <1>1. With(f, e).children = Append(f.children, e)
    BY DEF With, Frame
  <1>2. f.children \in Seq(Nat)
    BY FrameFields
  <1>3. /\ Append(f.children, e) \in Seq(Nat)
        /\ Len(Append(f.children, e)) = Len(f.children) + 1
        /\ \A j \in 1..Len(f.children) : Append(f.children, e)[j] = f.children[j]
        /\ Append(f.children, e)[Len(f.children) + 1] = e
    BY <1>2, PushSeq
  <1>4. /\ With(f, e) \in Frame
        /\ With(f, e).at = f.at /\ With(f, e).first = f.first
        /\ With(f, e).count = f.count /\ With(f, e).name = f.name
        /\ With(f, e).variant = f.variant
    BY <1>3 DEF With, Frame
  <1> QED BY <1>1, <1>3, <1>4

LEMMA WithOK ==
  ASSUME NEW f, NEW n \in Nat, NEW nf \in Nat, NEW na \in Nat,
         FrameOK(f, n, nf, na), NEW e \in 1..n
  PROVE  FrameOK(With(f, e), n, nf, na)
  <1>1. f \in Frame /\ e \in Nat
    BY DEF FrameOK
  <1>2. \A j \in 1..Len(With(f, e).children) : With(f, e).children[j] \in 1..n
    <2> DEFINE c == With(f, e).children
    <2>1. /\ Len(c) = Len(f.children) + 1 /\ Len(f.children) \in Nat
          /\ \A j \in 1..Len(f.children) : c[j] = f.children[j]
          /\ c[Len(f.children) + 1] = e
      BY <1>1, WithFields, FrameFields
    <2>2. \A j \in 1..Len(f.children) : f.children[j] \in 1..n
      BY DEF FrameOK
    <2> HIDE DEF c
    <2>3. ASSUME NEW j \in 1..Len(c) PROVE c[j] \in 1..n
      <3>1. j \in 1..Len(f.children) \/ j = Len(f.children) + 1
        BY <2>1
      <3> QED BY <2>1, <2>2, <3>1
    <2> QED BY <2>3 DEF c
  <1> QED BY <1>1, <1>2, WithFields DEF FrameOK

\* A caller that has its result runs.
LEMMA WithReady ==
  ASSUME NEW f \in Frame, NEW g, Wants(f, g), g.at \notin Payloads,
         NEW e \in Nat
  PROVE  Ready(With(f, e))
  <1>1. /\ With(f, e).at = f.at
        /\ Len(With(f, e).children) = Len(f.children) + 1
        /\ Len(f.children) \in Nat
    BY WithFields, FrameFields
  <1> DEFINE w == With(f, e)
  <1> HIDE DEF w
  <1>4. w.at = f.at /\ Len(w.children) = Len(f.children) + 1
    BY <1>1 DEF w
  <1>5. \/ f.at = "body" /\ Len(f.children) = 0
        \/ f.at \in {"let", "require_ready", "arm"} /\ Len(f.children) = 1
        \/ f.at = "if" /\ Len(f.children) \in {1, 2}
        \/ /\ f.at \in {"let", "require", "accept", "if", "match", "paren",
                        "record_field", "payload_field"}
           /\ Len(f.children) = 0
        \/ f.at \in {"or", "and", "compare"} /\ Len(f.children) \in {0, 1}
        \/ f.at = "projection" /\ Len(f.children) = 0
    BY DEF Wants
  <1>6. Len(w.children) \in Nat
    BY <1>1, <1>4
  <1>7. \/ f.at = "body" /\ Len(w.children) = 1
        \/ f.at \in {"let", "require_ready", "arm"} /\ Len(w.children) = 2
        \/ f.at = "if" /\ Len(w.children) \in {2, 3}
        \/ /\ f.at \in {"let", "require", "accept", "if", "match", "paren",
                        "record_field", "payload_field"}
           /\ Len(w.children) = 1
        \/ f.at \in {"or", "and", "compare"} /\ Len(w.children) \in {1, 2}
        \/ f.at = "projection" /\ Len(w.children) = 1
    <2>1. \A p, q \in Nat : q = p + 1 =>
            /\ p = 0 => q = 1
            /\ p = 1 => q = 2
            /\ p \in {1, 2} => q \in {2, 3}
            /\ p \in {0, 1} => q \in {1, 2}
      OBVIOUS
    <2>2. Len(f.children) \in Nat
      BY <1>1
    <2> QED BY <1>4, <1>5, <1>6, <2>1, <2>2
  <1>8. Ready(w)
    <2> DEFINE n == Len(w.children)
    <2>1. w.at \notin {"tail", "primary", "record", "payload", "payload_entry",
                       "reject"}
      BY <1>4, <1>7
    <2>2. w.at \in {"body", "paren", "record_field", "payload_field", "accept",
                    "require", "match", "arms", "projection"} => n = 1
      BY <1>4, <1>7
    <2>3. w.at \in {"compare", "and", "or", "let", "require_ready"}
            => n \in {1, 2}
      BY <1>4, <1>7
    <2>4. w.at = "if" => n \in {1, 2, 3}
      BY <1>4, <1>7
    <2>5. w.at = "arm" => n = 2
      BY <1>4, <1>7
    <2> QED BY <2>1, <2>2, <2>3, <2>4, <2>5 DEF Ready
  <1> QED BY <1>8 DEF w

LEMMA ReplaceLast ==
  ASSUME NEW S, NEW s \in Seq(S), Len(s) > 0, NEW f \in S
  PROVE  [s EXCEPT ![Len(s)] = f] = Append(Pop(s), f)
  <1> DEFINE t == [s EXCEPT ![Len(s)] = f]
             u == Append(Pop(s), f)
  <1>1. Len(s) \in Nat /\ Len(s) \in 1..Len(s)
    BY LenProperties
  <1>2. /\ t \in Seq(S) /\ Len(t) = Len(s)
        /\ \A j \in 1..Len(s) : t[j] = IF j = Len(s) THEN f ELSE s[j]
    BY <1>1, ExceptSeq
  <1>3. /\ Pop(s) \in Seq(S) /\ Len(Pop(s)) = Len(s) - 1
        /\ \A k \in 1..(Len(s) - 1) : Pop(s)[k] = s[k]
    BY PopSeq
  <1>4. /\ u \in Seq(S) /\ Len(u) = Len(Pop(s)) + 1
        /\ \A k \in 1..Len(Pop(s)) : u[k] = Pop(s)[k]
        /\ u[Len(Pop(s)) + 1] = f
    BY <1>3, PushSeq
  <1> HIDE DEF t, u
  <1>5. Len(t) = Len(u) /\ \A i \in 1..Len(t) : t[i] = u[i]
    <2>1. Len(t) = Len(u)
      BY <1>1, <1>2, <1>3, <1>4
    <2>2. ASSUME NEW i \in 1..Len(s) PROVE t[i] = u[i]
      <3>1. CASE i = Len(s)
        BY <1>1, <1>2, <1>3, <1>4, <3>1
      <3>2. CASE i # Len(s)
        <4>1. i \in 1..(Len(s) - 1) /\ i \in 1..Len(Pop(s))
          BY <1>1, <1>3, <3>2
        <4> QED BY <1>2, <1>3, <1>4, <3>2, <4>1
      <3> QED BY <3>1, <3>2
    <2> QED BY <1>2, <2>1, <2>2
  <1>6. t = u
    BY <1>2, <1>4, <1>5, SeqEqual
  <1> QED BY <1>6 DEF t, u

\* The caller goes on in f, the innermost frame is gone.
LEMMA CallerRuns ==
  ASSUME IInv, Top.at # "body", NEW m \in Nat, NEW mf \in Nat, NEW ma \in Nat,
         m >= N, mf >= NF, ma >= NA,
         NEW f, FrameOK(f, m, mf, ma), f.at = Callers[Len(Callers)].at, Ready(f)
  PROVE  Runs([Callers EXCEPT ![Len(Callers)] = f], depth - Weight(Top), m, mf, ma)
  <1> DEFINE C == Callers
             B == Pop(Callers)
  <1>1. /\ C \in Seq(Frame) /\ Len(C) \in Nat /\ Len(C) > 0
        /\ StackOK(C, N, NF, NA) /\ Weight(Top) \in {0, 1}
        /\ Held(C, Len(C)) \in Nat /\ Held(C, Len(C)) = depth - Weight(Top)
        /\ depth \in Nat
    BY TopTypes, TopWeight
  <1>2. /\ StackOK(B, N, NF, NA) /\ Attaches(B, C[Len(C)])
        /\ Held(C, Len(C)) = Held(B, Len(B)) + Weight(C[Len(C)])
    BY <1>1, PopOK
  <1>3. StackOK(B, m, mf, ma)
    BY <1>2, Counts, StackGrows
  <1>4. Attaches(B, f)
    BY <1>2, AttachesAlike DEF Alike
  <1>5. /\ StackOK(Append(B, f), m, mf, ma)
        /\ Len(Append(B, f)) = Len(B) + 1
        /\ Append(B, f)[Len(B) + 1] = f
        /\ Held(Append(B, f), Len(B) + 1) = Held(B, Len(B)) + Weight(f)
        /\ Len(B) \in Nat
    BY <1>3, <1>4, PushOK
  <1>6. Weight(f) = Weight(C[Len(C)])
    BY DEF Weight
  <1>7. Runs(Append(B, f), depth - Weight(Top), m, mf, ma)
    BY <1>1, <1>2, <1>5, <1>6 DEF Runs
  <1>8. [C EXCEPT ![Len(C)] = f] = Append(B, f)
    BY <1>1, ReplaceLast DEF FrameOK
  <1> QED BY <1>7, <1>8

LEMMA ReturnRuns ==
  ASSUME IInv, Top.at \notin Payloads \cup {"body"}, NEW m \in Nat, m >= N,
         NEW e \in 1..m
  PROVE  Runs(Return(e), depth - Weight(Top), m, NF, NA)
  <1> DEFINE g == Callers[Len(Callers)]
  <1>1. /\ Callers \in Seq(Frame) /\ Len(Callers) \in Nat /\ Len(Callers) > 0
        /\ Wants(g, Top) /\ StackOK(Callers, N, NF, NA)
    BY TopTypes
  <1>2. FrameOK(g, N, NF, NA) /\ g \in Frame
    BY <1>1 DEF StackOK, FrameOK
  <1>3. FrameOK(g, m, NF, NA)
    BY <1>2, Counts, FrameGrows
  <1>4. FrameOK(With(g, e), m, NF, NA)
    BY <1>3, Counts, WithOK
  <1>5. Ready(With(g, e)) /\ With(g, e).at = g.at
    BY <1>1, <1>2, WithReady, WithFields
  <1>6. Return(e) = [Callers EXCEPT ![Len(Callers)] = With(g, e)]
    BY <1>1 DEF Return, With
  <1> HIDE DEF g, With
  <1>7. Runs([Callers EXCEPT ![Len(Callers)] = With(g, e)],
             depth - Weight(Top), m, NF, NA)
    BY <1>4, <1>5, Counts, CallerRuns DEF g
  <1> QED BY <1>6, <1>7

-----------------------------------------------------------------------------
(***************************************************************************)
(* The arenas.                                                             *)
(***************************************************************************)
LEMMA NodeFields ==
  ASSUME NEW kind, NEW f
  PROVE  /\ Node(kind, f).kind = kind /\ Node(kind, f).children = f.children
         /\ Node(kind, f).first = f.first /\ Node(kind, f).count = f.count
         /\ Node(kind, f).variant = f.variant
  BY DEF Node

LEMMA RangeNodeOK ==
  ASSUME IInv, NEW kind \in Kinds, NEW f \in Frame,
         \A j \in 1..Len(f.children) : f.children[j] \in 1..N,
         kind = "match" => f.first + f.count <= NA,
         kind # "match" => f.count = 0 \/ f.first + f.count <= NF
  PROVE  ExpressionOK(Node(kind, f), N + 1, fields, arms)
  <1> DEFINE e == Node(kind, f)
  <1>1. /\ f.first \in Nat /\ f.count \in Nat
        /\ f.children \in Seq(Nat) /\ f.variant \in Variants \cup {{}}
    BY FrameFields
  <1>2. e \in Expression
    BY <1>1 DEF Node, Expression
  <1>3. /\ e.kind = kind /\ e.children = f.children
        /\ e.first = f.first /\ e.count = f.count
    BY NodeFields
  <1> HIDE DEF e
  <1>4. (N + 1) - 1 = N
    BY Counts
  <1>5. \A j \in 1..Len(e.children) : e.children[j] \in 1..N
    BY <1>3
  <1>6. ASSUME kind = "match", NEW k \in (e.first + 1)..(e.first + e.count)
        PROVE  k \in 1..Len(arms) /\ arms[k].body \in 1..N
    <2>1. k \in 1..NA
      <3>1. e.first \in Nat /\ e.count \in Nat /\ NA \in Nat
        BY <1>1, <1>3, Counts
      <3>2. e.count = 0 \/ e.first + e.count <= NA
        BY <1>3, <1>6
      <3> QED BY <1>6, <3>1, <3>2
    <2> QED BY <2>1 DEF IInv, ArmsOK, N, NA
  <1>7. ASSUME kind # "match", NEW k \in (e.first + 1)..(e.first + e.count)
        PROVE  k \in 1..Len(fields) /\ fields[k].value \in 1..N
    <2>1. k \in 1..NF
      <3>1. e.first \in Nat /\ e.count \in Nat /\ NF \in Nat
        BY <1>1, <1>3, Counts
      <3>2. e.count = 0 \/ e.first + e.count <= NF
        BY <1>3, <1>7
      <3> QED BY <1>7, <3>1, <3>2
    <2> QED BY <2>1 DEF IInv, FieldsOK, N, NF
  <1>8. ExpressionOK(e, N + 1, fields, arms)
    BY <1>2, <1>3, <1>4, <1>5, <1>6, <1>7 DEF ExpressionOK
  <1> QED BY <1>8 DEF e

LEMMA NodeOK ==
  ASSUME IInv, NEW kind \in Kinds, NEW f, FrameOK(f, N, NF, NA),
         kind = "match" => f.first + f.count <= NA,
         kind # "match" => f.count = 0 \/ f.first + f.count <= NF
  PROVE  ExpressionOK(Node(kind, f), N + 1, fields, arms)
  BY RangeNodeOK DEF FrameOK

LEMMA ExpressionsGrow ==
  ASSUME IInv, NEW e, ExpressionOK(e, N + 1, fields, arms), N < MaxExpressions
  PROVE  /\ ExpressionsOK(Append(expressions, e), fields, arms)
         /\ FieldsOK(fields, N + 1) /\ ArmsOK(arms, N + 1)
         /\ Len(Append(expressions, e)) = N + 1
  <1> DEFINE es == Append(expressions, e)
  <1>1. e \in Expression
    BY DEF ExpressionOK
  <1>2. /\ es \in Seq(Expression) /\ Len(es) = N + 1 /\ es[N + 1] = e
        /\ \A i \in 1..N : es[i] = expressions[i]
    BY <1>1, Counts, PushSeq DEF N
  <1> HIDE DEF es
  <1>3. \A i \in 1..N : ExpressionOK(expressions[i], i, fields, arms)
    BY DEF IInv, ExpressionsOK, N
  <1>4. \A i \in 1..Len(es) : ExpressionOK(es[i], i, fields, arms)
    BY <1>2, <1>3, Counts, OneMore
  <1>5. ExpressionsOK(es, fields, arms)
    <2>1. Len(es) <= MaxExpressions
      BY <1>2, Counts, ConstantTypes
    <2> QED BY <1>2, <1>4, <2>1 DEF ExpressionsOK
  <1>6. \A c \in 1..N : c \in 1..(N + 1)
    BY Counts
  <1>7. FieldsOK(fields, N + 1)
    BY <1>6 DEF IInv, FieldsOK, N
  <1>8. ArmsOK(arms, N + 1)
    BY <1>6 DEF IInv, ArmsOK, N
  <1> QED BY <1>2, <1>5, <1>7, <1>8 DEF es

LEMMA FieldsGrow ==
  ASSUME IInv, NEW name \in FieldNames, NEW value \in 1..N, NF < MaxFields
  PROVE  LET fs == Append(fields, [name |-> name, value |-> value]) IN
         /\ FieldsOK(fs, N) /\ ExpressionsOK(expressions, fs, arms)
         /\ Len(fs) = NF + 1
  <1> DEFINE r == [name |-> name, value |-> value]
             fs == Append(fields, r)
  <1>1. r \in [name : FieldNames, value : Nat] /\ r.value = value
    OBVIOUS
  <1> HIDE DEF r
  <1>2. /\ fs \in Seq([name : FieldNames, value : Nat]) /\ Len(fs) = NF + 1
        /\ fs[NF + 1] = r /\ \A k \in 1..NF : fs[k] = fields[k]
    BY <1>1, Counts, PushSeq DEF NF
  <1> HIDE DEF fs
  <1>3. \A k \in 1..NF : fields[k].value \in 1..N
    BY DEF IInv, FieldsOK, N, NF
  <1>4. \A k \in 1..Len(fs) : fs[k].value \in 1..N
    BY <1>1, <1>2, <1>3, Counts, OneMore
  <1>5. FieldsOK(fs, N)
    <2>1. Len(fs) <= MaxFields
      BY <1>2, Counts, ConstantTypes
    <2> QED BY <1>2, <1>4, <2>1 DEF FieldsOK
  <1>6. ExpressionsOK(expressions, fs, arms)
    <2>1. ASSUME NEW i \in 1..Len(expressions)
          PROVE  ExpressionOK(expressions[i], i, fs, arms)
      <3>1. ExpressionOK(expressions[i], i, fields, arms)
        BY DEF IInv, ExpressionsOK
      <3>2. \A k \in 1..Len(fields) : k \in 1..Len(fs) /\ fs[k] = fields[k]
        BY <1>2, Counts, OneMore DEF NF
      <3> QED BY <3>1, <3>2 DEF ExpressionOK
    <2> QED BY <2>1 DEF IInv, ExpressionsOK
  <1> QED BY <1>2, <1>5, <1>6 DEF fs, r

LEMMA ArmsGrow ==
  ASSUME IInv, NEW item \in CaseNames, NEW body \in 1..N, NA < MaxArms
  PROVE  LET as == Append(arms, [item |-> item, body |-> body]) IN
         /\ ArmsOK(as, N) /\ ExpressionsOK(expressions, fields, as)
         /\ Len(as) = NA + 1
  <1> DEFINE r == [item |-> item, body |-> body]
             as == Append(arms, r)
  <1>1. r \in [item : CaseNames, body : Nat] /\ r.body = body
    OBVIOUS
  <1> HIDE DEF r
  <1>2. /\ as \in Seq([item : CaseNames, body : Nat]) /\ Len(as) = NA + 1
        /\ as[NA + 1] = r /\ \A k \in 1..NA : as[k] = arms[k]
    BY <1>1, Counts, PushSeq DEF NA
  <1> HIDE DEF as
  <1>3. \A k \in 1..NA : arms[k].body \in 1..N
    BY DEF IInv, ArmsOK, N, NA
  <1>4. \A k \in 1..Len(as) : as[k].body \in 1..N
    BY <1>1, <1>2, <1>3, Counts, OneMore
  <1>5. ArmsOK(as, N)
    <2>1. Len(as) <= MaxArms
      BY <1>2, Counts, ConstantTypes
    <2> QED BY <1>2, <1>4, <2>1 DEF ArmsOK
  <1>6. ExpressionsOK(expressions, fields, as)
    <2>1. ASSUME NEW i \in 1..Len(expressions)
          PROVE  ExpressionOK(expressions[i], i, fields, as)
      <3>1. ExpressionOK(expressions[i], i, fields, arms)
        BY DEF IInv, ExpressionsOK
      <3>2. \A k \in 1..Len(arms) : k \in 1..Len(as) /\ as[k] = arms[k]
        BY <1>2, Counts, OneMore DEF NA
      <3> QED BY <3>1, <3>2 DEF ExpressionOK
    <2> QED BY <2>1 DEF IInv, ExpressionsOK
  <1> QED BY <1>2, <1>5, <1>6 DEF as, r

-----------------------------------------------------------------------------
(***************************************************************************)
(* The forms a step takes.                                                 *)
(***************************************************************************)
LEMMA FailStep ==
  ASSUME IInv, NEW c \in Codes, Fail(c), UNCHANGED stack
  PROVE  IInv'
  BY DEF IInv, Fail, Top

LEMMA GotoStep ==
  ASSUME IInv, NEW s, Goto(s), Runs(s, depth, N, NF, NA)
  PROVE  IInv'
  BY DEF IInv, Goto, Runs, Top, N, NF, NA

LEMMA EnterStep ==
  ASSUME IInv, NEW s, EnterNesting(s), Runs(s, depth + 1, N, NF, NA)
  PROVE  IInv'
  <1>1. CASE depth = MaxNesting /\ Fail("A0-PARSE-0035") /\ UNCHANGED stack
    BY <1>1, FailStep DEF Codes
  <1>2. CASE /\ depth < MaxNesting
             /\ depth' = depth + 1
             /\ stack' = s
             /\ UNCHANGED <<forms, phase, code, expressions, fields, arms>>
    <2>1. depth' \in 0..MaxNesting
      BY <1>2, Counts
    <2> QED BY <1>2, <2>1 DEF IInv, Runs, Top, N, NF, NA
  <1> QED BY <1>1, <1>2 DEF EnterNesting

LEMMA StoreStep ==
  ASSUME IInv, NEW e, ExpressionOK(e, N + 1, fields, arms),
         NEW d \in 0..MaxNesting, NEW s, add_expression(e, d, s),
         Runs(s, d, N + 1, NF, NA)
  PROVE  IInv'
  <1>1. CASE /\ Len(expressions) = MaxExpressions
             /\ Fail("A0-PARSE-0030") /\ UNCHANGED stack
    BY <1>1, FailStep DEF Codes
  <1>2. CASE /\ Len(expressions) < MaxExpressions
             /\ expressions' = Append(expressions, e)
             /\ depth' = d
             /\ stack' = s
             /\ UNCHANGED <<forms, phase, code, fields, arms>>
    <2>1. /\ ExpressionsOK(expressions', fields, arms)
          /\ FieldsOK(fields, N + 1) /\ ArmsOK(arms, N + 1)
          /\ Len(expressions') = N + 1
      BY <1>2, ExpressionsGrow DEF N
    <2> QED BY <1>2, <2>1 DEF IInv, Runs, Top, NF, NA
  <1> QED BY <1>1, <1>2 DEF add_expression

\* The depth after a production that holds a level has left it.
LEMMA LeaveDepth ==
  ASSUME IInv, Top.at \in Holders
  PROVE  /\ depth - 1 \in 0..MaxNesting
         /\ depth - Weight(Top) = depth - 1
         /\ Weight(Top) = 1
  BY TopTypes, Counts DEF Weight

LEMMA StayDepth ==
  ASSUME IInv, Top.at \notin Holders
  PROVE  depth - Weight(Top) = depth /\ Weight(Top) = 0
  BY TopTypes, Counts DEF Weight

-----------------------------------------------------------------------------
(***************************************************************************)
(* The actions keep the invariant.  An action that stores nothing leads to *)
(* a stack that runs; one that stores an expression, to a stack that runs  *)
(* with that expression in its operands.                                   *)
(***************************************************************************)
\* The running frame of a production that calls parse_value_expression.
LEMMA ConcatValue ==
  ASSUME NEW s \in Seq(Frame),
         \A l \in {"or", "and", "compare", "projection", "primary"} : At(l) \in Frame
  PROVE  s \o Value = Append(Append(Append(Append(Append(s, At("or")), At("and")),
                       At("compare")), At("projection")), At("primary"))
  <1> DEFINE a == At("or")
             b == At("and")
             c == At("compare")
             d == At("projection")
             e == At("primary")
  <1>1. a \in Frame /\ b \in Frame /\ c \in Frame /\ d \in Frame /\ e \in Frame
    OBVIOUS
  <1>2. Value = <<a, b, c, d, e>>
    BY DEF Value
  <1> HIDE DEF a, b, c, d, e
  <1>3. s \o <<a, b, c, d, e>>
          = Append(Append(Append(Append(Append(s, a), b), c), d), e)
    BY <1>1, Concat
  <1> QED BY <1>2, <1>3 DEF a, b, c, d, e

LEMMA CallValueRuns ==
  ASSUME IInv, NEW f, FrameOK(f, N, NF, NA), Alike(Top, f), Wants(f, At("or")),
         NEW d \in Nat, d = depth - Weight(Top) + Weight(f)
  PROVE  Runs(Call(f, Value), d, N, NF, NA)
  <1> DEFINE s == Append(Callers, f)
  <1>1. Awaits(s, d, At("or"), N, NF, NA)
    BY ContinuesAwaits
  <1>2. s \in Seq(Frame)
    BY <1>1 DEF Awaits, StackOK
  <1>3. \A l \in {"or", "and", "compare", "projection", "primary"} : At(l) \in Frame
    BY AtFrame, LevelWants, Counts DEF FrameOK
  <1> HIDE DEF s
  <1>4. s \o Value = Append(Append(Append(Append(Append(s, At("or")), At("and")),
                       At("compare")), At("projection")), At("primary"))
    BY <1>2, <1>3, ConcatValue
  <1>5. Runs(s \o Value, d, N, NF, NA)
    BY <1>1, <1>4, CallOr, Counts
  <1> QED BY <1>5 DEF Call, s

LEMMA CallOneRuns ==
  ASSUME IInv, NEW f, FrameOK(f, N, NF, NA), Alike(Top, f),
         NEW l \in {"tail", "payload_entry"}, Wants(f, At(l)),
         NEW d \in Nat, d = depth - Weight(Top) + Weight(f)
  PROVE  Runs(Call(f, <<At(l)>>), d, N, NF, NA)
  <1> DEFINE s == Append(Callers, f)
  <1>1. Awaits(s, d, At(l), N, NF, NA)
    BY ContinuesAwaits
  <1>2. s \in Seq(Frame)
    BY <1>1 DEF Awaits, StackOK
  <1>3. FrameOK(At(l), N, NF, NA) /\ Ready(At(l)) /\ Weight(At(l)) = 0
    BY AtFrame, LevelWants, Counts
  <1> HIDE DEF s
  <1>4. s \o <<At(l)>> = Append(s, At(l))
    BY <1>2, <1>3, Concat DEF FrameOK
  <1>5. Runs(Append(s, At(l)), d + Weight(At(l)), N, NF, NA)
    BY <1>1, <1>3, CallRuns
  <1>6. d + 0 = d
    OBVIOUS
  <1> QED BY <1>3, <1>4, <1>5, <1>6 DEF Call, s

LEMMA CallNoneRuns ==
  ASSUME IInv, NEW f, FrameOK(f, N, NF, NA), Alike(Top, f), Ready(f),
         NEW d \in Nat, d = depth - Weight(Top) + Weight(f)
  PROVE  Runs(Call(f, <<>>), d, N, NF, NA)
  <1>1. Append(Callers, f) \in Seq(Frame)
    BY TopTypes, PushSeq DEF FrameOK
  <1>2. Call(f, <<>>) = Append(Callers, f)
    BY <1>1, ConcatEmptySeq DEF Call
  <1>3. Runs(Append(Callers, f), depth - Weight(Top) + Weight(f), N, NF, NA)
    BY ContinuesRuns, Counts
  <1> QED BY <1>2, <1>3

\* A production that holds a level stores its expression and leaves.
LEMMA LeaveRuns ==
  ASSUME IInv, Top.at \in Holders, Top.at \notin Payloads \cup {"body"}
  PROVE  Runs(Return(New), depth - 1, N + 1, NF, NA)
  <1>1. New \in 1..(N + 1) /\ N + 1 \in Nat /\ N + 1 >= N
    BY Counts
  <1>2. Runs(Return(New), depth - Weight(Top), N + 1, NF, NA)
    BY <1>1, ReturnRuns
  <1> QED BY <1>2, LeaveDepth

LEMMA LeafInv ==
  ASSUME IInv, Leaf
  PROVE  IInv'
  <1>1. Top.at = "primary" /\ add_expression(Node("leaf", Top), depth, Return(New))
    BY DEF Leaf, Running
  <1>2. Runs(Return(New), depth, N + 1, NF, NA)
    <2>1. /\ Top.at \notin Payloads \cup {"body"} /\ Top.at \notin Holders
          /\ New \in 1..(N + 1) /\ N + 1 \in Nat /\ N + 1 >= N
      BY <1>1, Counts DEF Payloads, Holders
    <2> QED BY <2>1, ReturnRuns, StayDepth
  <1>3. ExpressionOK(Node("leaf", Top), N + 1, fields, arms)
    <2>1. Top.count = 0
      BY <1>1, TopTypes DEF FrameOK
    <2> QED BY <2>1, TopTypes, NodeOK DEF Kinds
  <1>4. depth \in 0..MaxNesting
    BY DEF IInv
  <1> QED BY <1>1, <1>2, <1>3, <1>4, StoreStep

LEMMA OpenParenInv ==
  ASSUME IInv, OpenParen
  PROVE  IInv'
  <1>1. Top.at = "primary" /\ EnterNesting(Call(At("paren"), Value))
    BY DEF OpenParen, Running
  <1>2. FrameOK(At("paren"), N, NF, NA)
    BY AtFrame, Counts DEF Labels, Holders
  <1>3. Alike(Top, At("paren")) /\ Wants(At("paren"), At("or"))
    BY <1>1, AtFields DEF Alike, Wants, Primaries
  <1>4. depth + 1 \in Nat /\ depth + 1 = depth - Weight(Top) + Weight(At("paren"))
    BY <1>1, Counts, AtFields DEF Weight, Holders
  <1>5. Runs(Call(At("paren"), Value), depth + 1, N, NF, NA)
    BY <1>2, <1>3, <1>4, CallValueRuns
  <1> QED BY <1>1, <1>5, EnterStep

\* A result that is handed on.
LEMMA OperandOK ==
  ASSUME IInv, NEW j \in 1..Len(Top.children)
  PROVE  Top.children[j] \in 1..N
  BY TopTypes DEF FrameOK

LEMMA CloseParenInv ==
  ASSUME IInv, CloseParen
  PROVE  IInv'
  <1>1. /\ Top.at = "paren" /\ depth' = depth - 1
        /\ stack' = Return(Top.children[1])
        /\ UNCHANGED <<forms, phase, code, expressions, fields, arms>>
    BY DEF CloseParen, Running
  <1>2. Len(Top.children) = 1
    BY <1>1, TopTypes DEF Ready
  <1>3. Top.children[1] \in 1..N
    BY <1>2, OperandOK
  <1>4. Top.at \in Holders /\ Top.at \notin Payloads \cup {"body"}
    BY <1>1 DEF Holders, Payloads
  <1>5. Runs(Return(Top.children[1]), depth - 1, N, NF, NA)
    <2>1. Runs(Return(Top.children[1]), depth - Weight(Top), N, NF, NA)
      BY <1>3, <1>4, ReturnRuns, Counts
    <2> QED BY <1>4, <2>1, LeaveDepth
  <1>6. depth - 1 \in 0..MaxNesting
    BY <1>4, LeaveDepth
  <1> HIDE DEF Return
  <1> QED BY <1>1, <1>5, <1>6 DEF IInv, Runs, Top, N, NF, NA

LEMMA OpenRecordInv ==
  ASSUME IInv, OpenRecord
  PROVE  IInv'
  <1> DEFINE f == [At("record") EXCEPT !.first = Len(fields)]
  <1>1. Top.at = "primary" /\ EnterNesting(Call(f, <<>>))
    BY DEF OpenRecord, Running
  <1>2. /\ f \in Frame /\ f.at = "record" /\ f.first = NF /\ f.count = 0
        /\ f.children = <<>>
    <2>1. At("record") \in Frame
      BY AtFrame, Counts DEF Labels, Holders, FrameOK
    <2> QED BY <2>1, Changed, AtFields, Counts DEF NF
  <1> HIDE DEF f
  <1>3. FrameOK(f, N, NF, NA) /\ Alike(Top, f) /\ Ready(f)
    <2>1. Len(f.children) = 0
      BY <1>2
    <2> QED BY <1>1, <1>2, <2>1, Counts
            DEF FrameOK, Alike, Ready, Primaries, Fielders, Armers
  <1>4. depth + 1 \in Nat /\ depth + 1 = depth - Weight(Top) + Weight(f)
    BY <1>1, <1>2, Counts DEF Weight, Holders
  <1>5. Runs(Call(f, <<>>), depth + 1, N, NF, NA)
    BY <1>3, <1>4, CallNoneRuns
  <1> QED BY <1>1, <1>5, EnterStep

LEMMA FieldOpenInv ==
  ASSUME IInv, FieldOpen
  PROVE  IInv'
  <1>1. Top.at \in {"record", "payload"} /\ Len(Top.children) = 0
    BY TopTypes DEF FieldOpen, InFields, Ready
  <1>2. CASE Fail("A0-PARSE-0036") /\ UNCHANGED stack
    BY <1>2, FailStep DEF Codes
  <1>3. ASSUME NEW n \in FieldNames, Fail("A0-PARSE-0037"),
               stack' = Append(Callers, [Top EXCEPT !.name = n])
        PROVE  IInv'
    <2> DEFINE f == [Top EXCEPT !.name = n]
    <2>1. /\ f \in Frame /\ f.at = Top.at /\ f.children = Top.children
          /\ f.first = Top.first /\ f.count = Top.count /\ f.name = n
      BY TopTypes, Changed
    <2> HIDE DEF f
    <2>2. FrameOK(f, N, NF, NA) /\ Alike(Top, f) /\ Ready(f) /\ Weight(f) = Weight(Top)
      BY <1>1, <2>1, TopTypes DEF FrameOK, Alike, Ready, Weight
    <2>3. Runs(Append(Callers, f), depth - Weight(Top) + Weight(f), N, NF, NA)
      BY <2>2, ContinuesRuns, Counts
    <2>4. depth - Weight(Top) + Weight(f) = depth
      BY <2>2, Counts DEF Weight
    <2>5. stack' = Append(Callers, f)
      BY <1>3 DEF f
    <2> QED BY <1>3, <2>3, <2>4, <2>5 DEF IInv, Fail, Runs, Top, Codes, N, NF, NA
  <1>4. ASSUME NEW n \in FieldNames, NEW l,
               l = (IF Top.at = "record" THEN "record_field" ELSE "payload_field"),
               Goto(Call([Top EXCEPT !.name = n, !.at = l], Value))
        PROVE  IInv'
    <2> DEFINE g == [Top EXCEPT !.name = n]
               f == [g EXCEPT !.at = l]
    <2>1. l \in Labels
      BY <1>4 DEF Labels, Holders
    <2>2. /\ g \in Frame /\ g.children = Top.children
          /\ g.first = Top.first /\ g.count = Top.count /\ g.name = n
      BY TopTypes, Changed
    <2> HIDE DEF g
    <2>3. /\ f \in Frame /\ f.at = l /\ f.children = Top.children
          /\ f.first = Top.first /\ f.count = Top.count /\ f.name = n
      BY <2>1, <2>2, Changed
    <2>4. f = [Top EXCEPT !.name = n, !.at = l]
      BY TopTypes DEF g, Frame
    <2> HIDE DEF f
    <2>5. Alike(Top, f) /\ Weight(f) = Weight(Top)
      BY <1>1, <1>4, <2>3 DEF Alike, Primaries, Payloads, Weight, Holders
    <2>6. FrameOK(f, N, NF, NA)
      BY <1>1, <1>4, <2>3, TopTypes DEF FrameOK, Fielders, Armers
    <2>7. Wants(f, At("or"))
      BY <1>1, <1>4, <2>3, AtFields DEF Wants
    <2>8. depth = depth - Weight(Top) + Weight(f)
      BY <2>5, Counts DEF Weight
    <2>9. Runs(Call(f, Value), depth, N, NF, NA)
      BY <2>5, <2>6, <2>7, <2>8, Counts, CallValueRuns
    <2> QED BY <1>4, <2>4, <2>9, GotoStep
  <1> QED BY <1>2, <1>3, <1>4 DEF FieldOpen

LEMMA FieldCloseInv ==
  ASSUME IInv, FieldClose
  PROVE  IInv'
  <1>1. /\ Top.at \in {"record_field", "payload_field"} /\ Len(Top.children) = 1
        /\ Top.name \in FieldNames
    BY TopTypes DEF FieldClose, Ready, FrameOK
  <1>2. CASE /\ phase' = "overrun"
             /\ UNCHANGED <<forms, code, depth, expressions, fields, arms, stack>>
    BY <1>2 DEF IInv, Top
  <1>3. ASSUME NF < MaxFields, NEW l,
               l = (IF Top.at = "record_field" THEN "record" ELSE "payload"),
               fields' = Append(fields, [name |-> Top.name, value |-> Top.children[1]]),
               stack' = Append(Callers,
                          [Top EXCEPT !.at = l, !.children = <<>>, !.name = "none"]),
               UNCHANGED <<forms, phase, code, depth, expressions, arms>>
        PROVE  IInv'
    <2> DEFINE h == [Top EXCEPT !.at = l]
               g == [h EXCEPT !.children = <<>>]
               f == [g EXCEPT !.name = "none"]
    <2>1. l \in Labels /\ <<>> \in Seq(Nat)
      BY <1>3 DEF Labels, Holders
    <2>2. /\ h \in Frame /\ h.at = l /\ h.first = Top.first /\ h.count = Top.count
      BY <2>1, TopTypes, Changed
    <2>3. f = [Top EXCEPT !.at = l, !.children = <<>>, !.name = "none"]
      BY TopTypes DEF Frame
    <2> HIDE DEF h
    <2>4. /\ g \in Frame /\ g.at = l /\ g.first = Top.first /\ g.count = Top.count
          /\ g.children = <<>>
      BY <2>1, <2>2, Changed
    <2> HIDE DEF g
    <2>5. /\ f \in Frame /\ f.at = l /\ f.first = Top.first /\ f.count = Top.count
          /\ f.children = <<>>
      BY <2>4, Changed
    <2> HIDE DEF f
    <2>6. Alike(Top, f) /\ Weight(f) = Weight(Top)
      BY <1>1, <1>3, <2>5 DEF Alike, Primaries, Payloads, Weight, Holders
    <2>7. FrameOK(f, N, NF + 1, NA) /\ Ready(f)
      <3>1. Top.first <= NF /\ Top.count = 0 /\ Top.first \in Nat
        BY <1>1, TopTypes, FrameFields DEF FrameOK, Fielders
      <3>2. Top.first <= NF + 1
        BY <3>1, Counts
      <3> QED BY <1>3, <2>5, <3>1, <3>2 DEF FrameOK, Ready, Fielders, Armers
    <2>8. depth = depth - Weight(Top) + Weight(f)
      BY <2>6, Counts DEF Weight
    <2>9. Runs(Append(Callers, f), depth, N, NF + 1, NA)
      <3>1. NF + 1 \in Nat /\ NF + 1 >= NF
        BY Counts
      <3>2. Runs(Append(Callers, f), depth - Weight(Top) + Weight(f), N, NF + 1, NA)
        BY <2>6, <2>7, <3>1, Counts, ContinuesRuns
      <3> QED BY <2>8, <3>2
    <2>10. /\ FieldsOK(fields', N) /\ ExpressionsOK(expressions, fields', arms)
           /\ Len(fields') = NF + 1
      <3>1. Top.children[1] \in 1..N
        BY <1>1, OperandOK
      <3> QED BY <1>1, <1>3, <3>1, FieldsGrow
    <2> QED BY <1>3, <2>3, <2>9, <2>10 DEF IInv, Runs, Top, N, NA
  <1> QED BY <1>2, <1>3 DEF FieldClose, NF

LEMMA RecordCloseInv ==
  ASSUME IInv, RecordClose
  PROVE  IInv'
  <1> DEFINE f == [Top EXCEPT !.count = Len(fields) - Top.first]
  <1>1. /\ Top.at = "record"
        /\ add_expression(Node("record", f), depth - 1, Return(New))
    BY DEF RecordClose, Running
  <1>2. Top.first \in Nat /\ Top.first <= NF /\ Len(fields) = NF
    BY <1>1, TopTypes, FrameFields DEF FrameOK, Fielders, NF
  <1>3. NF - Top.first \in Nat /\ Top.first + (NF - Top.first) <= NF
    BY <1>2, Counts
  <1>4. /\ f \in Frame /\ f.at = "record" /\ f.first = Top.first
        /\ f.count = NF - Top.first /\ f.children = Top.children
    BY <1>1, <1>2, <1>3, TopTypes, Changed
  <1> HIDE DEF f
  <1>5. ExpressionOK(Node("record", f), N + 1, fields, arms)
    <2>1. \A j \in 1..Len(f.children) : f.children[j] \in 1..N
      BY <1>4, TopTypes DEF FrameOK
    <2>2. f.first + f.count <= NF
      BY <1>3, <1>4
    <2> QED BY <1>4, <2>1, <2>2, RangeNodeOK DEF Kinds
  <1>6. Top.at \in Holders /\ Top.at \notin Payloads \cup {"body"}
    BY <1>1 DEF Holders, Payloads
  <1>7. Runs(Return(New), depth - 1, N + 1, NF, NA)
    BY <1>6, LeaveRuns
  <1>8. depth - 1 \in 0..MaxNesting
    BY <1>6, LeaveDepth
  <1> QED BY <1>1, <1>5, <1>7, <1>8, StoreStep

\* What a payload hands to the rejection or the requirement it belongs to.
LEMMA PayloadRuns ==
  ASSUME IInv, Top.at \in Payloads, NEW x \in Nat, NEW y \in Nat, x + y <= NF
  PROVE  Runs([Callers EXCEPT ![Len(Callers)].first = x,
                              ![Len(Callers)].count = y], depth, N, NF, NA)
  <1> DEFINE c == Callers[Len(Callers)]
             g == [c EXCEPT !.first = x]
             f == [g EXCEPT !.count = y]
  <1>1. Top.at # "body" /\ Top.at \notin Holders
    BY DEF Payloads, Holders
  <1>2. /\ Callers \in Seq(Frame) /\ Len(Callers) \in Nat /\ Len(Callers) > 0
        /\ Wants(c, Top) /\ StackOK(Callers, N, NF, NA)
    BY <1>1, TopTypes
  <1>3. FrameOK(c, N, NF, NA) /\ c \in Frame
    BY <1>2 DEF StackOK, FrameOK
  <1>4. /\ c.at \in {"reject", "require_ready"}
        /\ c.at = "reject" => Len(c.children) = 0
        /\ c.at = "require_ready" => Len(c.children) = 1
    BY <1>2 DEF Wants, Payloads, Tails, Primaries
  <1>5. [Callers EXCEPT ![Len(Callers)].first = x, ![Len(Callers)].count = y]
          = [Callers EXCEPT ![Len(Callers)] = f]
    BY <1>2
  <1> HIDE DEF c
  <1>6. /\ g \in Frame /\ g.first = x /\ g.at = c.at /\ g.children = c.children
        /\ g.name = c.name
    BY <1>3, Changed
  <1> HIDE DEF g
  <1>7. /\ f \in Frame /\ f.first = x /\ f.count = y /\ f.at = c.at
        /\ f.children = c.children
    BY <1>6, Changed
  <1> HIDE DEF f
  <1>8. Ready(f)
    BY <1>4, <1>7 DEF Ready
  <1>9. FrameOK(f, N, NF, NA)
    BY <1>3, <1>4, <1>7 DEF FrameOK, Fielders, Armers
  <1>10. Runs([Callers EXCEPT ![Len(Callers)] = f], depth - Weight(Top), N, NF, NA)
    BY <1>1, <1>7, <1>8, <1>9, Counts, CallerRuns DEF c
  <1> QED BY <1>1, <1>5, <1>10, StayDepth

LEMMA PayloadAbsentInv ==
  ASSUME IInv, PayloadAbsent
  PROVE  IInv'
  <1>1. Top.at \in Payloads
    BY DEF PayloadAbsent, Running, Payloads
  <1>2. 0 \in Nat /\ NF \in Nat /\ NF + 0 <= NF
    BY Counts
  <1>3. Runs([Callers EXCEPT ![Len(Callers)].first = NF,
                             ![Len(Callers)].count = 0], depth, N, NF, NA)
    BY <1>1, <1>2, PayloadRuns
  <1> QED BY <1>3, GotoStep DEF PayloadAbsent, NF

LEMMA PayloadOpenInv ==
  ASSUME IInv, PayloadOpen
  PROVE  IInv'
  <1> DEFINE f == [At("payload") EXCEPT !.first = Len(fields)]
  <1>1. Top.at = "payload_entry" /\ Goto(Call(f, <<>>))
    BY DEF PayloadOpen, Running
  <1>2. /\ f \in Frame /\ f.at = "payload" /\ f.first = NF /\ f.count = 0
        /\ f.children = <<>>
    <2>1. At("payload") \in Frame
      BY AtFrame, Counts DEF Labels, FrameOK
    <2> QED BY <2>1, Changed, AtFields, Counts DEF NF
  <1> HIDE DEF f
  <1>3. FrameOK(f, N, NF, NA) /\ Alike(Top, f) /\ Ready(f)
    <2>1. Len(f.children) = 0
      BY <1>2
    <2> QED BY <1>1, <1>2, <2>1, Counts
            DEF FrameOK, Alike, Ready, Payloads, Fielders, Armers
  <1>4. depth \in Nat /\ depth = depth - Weight(Top) + Weight(f)
    BY <1>1, <1>2, Counts DEF Weight, Holders
  <1>5. Runs(Call(f, <<>>), depth, N, NF, NA)
    BY <1>3, <1>4, CallNoneRuns
  <1> QED BY <1>1, <1>5, GotoStep

LEMMA PayloadCloseInv ==
  ASSUME IInv, PayloadClose
  PROVE  IInv'
  <1>1. Top.at \in Payloads /\ Top.at = "payload"
    BY DEF PayloadClose, Running, Payloads
  <1>2. Top.first \in Nat /\ Top.first <= NF /\ NF \in Nat
    BY <1>1, TopTypes, FrameFields, Counts DEF FrameOK, Fielders
  <1>3. NF - Top.first \in Nat /\ Top.first + (NF - Top.first) <= NF
    BY <1>2
  <1>4. Runs([Callers EXCEPT ![Len(Callers)].first = Top.first,
                             ![Len(Callers)].count = NF - Top.first],
             depth, N, NF, NA)
    BY <1>1, <1>2, <1>3, PayloadRuns
  <1> QED BY <1>4, GotoStep DEF PayloadClose, NF

\* The operands of a level are replaced by the expression made of them.
LEMMA FoldRuns ==
  ASSUME IInv, Top.at \in {"projection", "and", "or"}
  PROVE  Runs(Append(Callers, [Top EXCEPT !.children = <<New>>]),
              depth, N + 1, NF, NA)
  <1> DEFINE f == [Top EXCEPT !.children = <<New>>]
  <1>1. <<New>> \in Seq(Nat) /\ Len(<<New>>) = 1 /\ <<New>>[1] = N + 1 /\ N + 1 \in Nat
    BY Counts
  <1>2. /\ f \in Frame /\ f.at = Top.at /\ f.children = <<New>>
        /\ f.first = Top.first /\ f.count = Top.count
    BY <1>1, TopTypes, Changed
  <1> HIDE DEF f
  <1>3. \A j \in 1..Len(f.children) : f.children[j] \in 1..(N + 1)
    BY <1>1, <1>2, OneMore, Counts
  <1>4. FrameOK(f, N + 1, NF, NA)
    BY <1>2, <1>3, TopTypes DEF FrameOK, Fielders, Armers
  <1>5. Ready(f) /\ Alike(Top, f) /\ Weight(f) = 0 /\ Top.at \notin Holders
    BY <1>1, <1>2 DEF Ready, Alike, Weight, Holders
  <1>6. N + 1 >= N
    BY Counts
  <1>7. Runs(Append(Callers, f), depth - Weight(Top) + Weight(f), N + 1, NF, NA)
    BY <1>1, <1>4, <1>5, <1>6, Counts, ContinuesRuns
  <1>8. depth - Weight(Top) + Weight(f) = depth
    BY <1>5, StayDepth, Counts
  <1> QED BY <1>7, <1>8 DEF f

LEMMA ProjectInv ==
  ASSUME IInv, Project
  PROVE  IInv'
  <1>1. /\ Top.at = "projection"
        /\ add_expression(Node("field", Top), depth,
                          Append(Callers, [Top EXCEPT !.children = <<New>>]))
    BY DEF Project, Running
  <1>2. ExpressionOK(Node("field", Top), N + 1, fields, arms)
    <2>1. Top.count = 0
      BY <1>1, TopTypes DEF FrameOK
    <2> QED BY <2>1, TopTypes, NodeOK DEF Kinds
  <1>3. depth \in 0..MaxNesting
    BY DEF IInv
  <1> QED BY <1>1, <1>2, <1>3, FoldRuns, StoreStep

LEMMA ConcatOperands ==
  ASSUME NEW s \in Seq(Frame),
         \A l \in {"or", "and", "compare", "projection", "primary"} : At(l) \in Frame
  PROVE  /\ s \o Operand("or") = Append(Append(Append(Append(s, At("and")),
                                   At("compare")), At("projection")), At("primary"))
         /\ s \o Operand("and") = Append(Append(Append(s, At("compare")),
                                    At("projection")), At("primary"))
         /\ s \o Operand("compare") = Append(Append(s, At("projection")), At("primary"))
  <1>1. \A a, b \in Frame : s \o <<a, b>> = Append(Append(s, a), b)
    BY Concat
  <1>2. \A a, b, c \in Frame :
          s \o <<a, b, c>> = Append(Append(Append(s, a), b), c)
    BY Concat
  <1>3. \A a, b, c, d \in Frame :
          s \o <<a, b, c, d>> = Append(Append(Append(Append(s, a), b), c), d)
    BY Concat
  <1> DEFINE a == At("and")
             b == At("compare")
             c == At("projection")
             d == At("primary")
  <1>4. a \in Frame /\ b \in Frame /\ c \in Frame /\ d \in Frame
    OBVIOUS
  <1>5. /\ Operand("or") = <<a, b, c, d>> /\ Operand("and") = <<b, c, d>>
        /\ Operand("compare") = <<c, d>>
    BY Operands, LevelsOfValue
  <1> HIDE DEF a, b, c, d
  <1>6. /\ s \o <<a, b, c, d>> = Append(Append(Append(Append(s, a), b), c), d)
        /\ s \o <<b, c, d>> = Append(Append(Append(s, b), c), d)
        /\ s \o <<c, d>> = Append(Append(s, c), d)
    <2>1. s \o <<a, b, c, d>> = Append(Append(Append(Append(s, a), b), c), d)
      BY <1>3, <1>4
    <2>2. s \o <<b, c, d>> = Append(Append(Append(s, b), c), d)
      BY <1>2, <1>4
    <2>3. s \o <<c, d>> = Append(Append(s, c), d)
      BY <1>1, <1>4
    <2> QED BY <2>1, <2>2, <2>3
  <1> QED BY <1>5, <1>6 DEF a, b, c, d

LEMMA OperatorInv ==
  ASSUME IInv, Operator
  PROVE  IInv'
  <1> DEFINE s == Append(Callers, Top)
  <1>1. /\ Top.at \in {"compare", "and", "or"} /\ Len(Top.children) = 1
        /\ Goto(Call(Top, Operand(Top.at)))
    BY DEF Operator, Returned
  <1>2. Alike(Top, Top) /\ FrameOK(Top, N, NF, NA) /\ Top \in Frame
    BY TopTypes DEF Alike
  <1>3. depth - Weight(Top) + Weight(Top) = depth
    BY Counts DEF Weight
  <1>4. s \in Seq(Frame)
    BY TopTypes, PushSeq
  <1>5. \A l \in {"or", "and", "compare", "projection", "primary"} : At(l) \in Frame
    BY AtFrame, LevelWants, Counts DEF FrameOK
  <1> HIDE DEF s
  <1>6. CASE Top.at = "or"
    <2>1. Wants(Top, At("and"))
      BY <1>1, <1>6, AtFields DEF Wants
    <2>2. Awaits(s, depth, At("and"), N, NF, NA)
      <3> DEFINE d == depth - Weight(Top) + Weight(Top)
      <3>1. Awaits(Append(Callers, Top), d, At("and"), N, NF, NA)
        BY <1>2, <2>1, ContinuesAwaits
      <3>2. d = depth
        BY <1>3
      <3> HIDE DEF d
      <3> QED BY <3>1, <3>2 DEF s
    <2>3. s \o Operand("or") = Append(Append(Append(Append(s, At("and")),
                                  At("compare")), At("projection")), At("primary"))
      BY <1>4, <1>5, ConcatOperands
    <2>4. Runs(s \o Operand("or"), depth, N, NF, NA)
      BY <2>2, <2>3, Counts, CallAnd
    <2> QED BY <1>1, <1>6, <2>4, GotoStep DEF Call, s
  <1>7. CASE Top.at = "and"
    <2>1. Wants(Top, At("compare"))
      BY <1>1, <1>7, AtFields DEF Wants
    <2>2. Awaits(s, depth, At("compare"), N, NF, NA)
      <3> DEFINE d == depth - Weight(Top) + Weight(Top)
      <3>1. Awaits(Append(Callers, Top), d, At("compare"), N, NF, NA)
        BY <1>2, <2>1, ContinuesAwaits
      <3>2. d = depth
        BY <1>3
      <3> HIDE DEF d
      <3> QED BY <3>1, <3>2 DEF s
    <2>3. s \o Operand("and")
            = Append(Append(Append(s, At("compare")), At("projection")), At("primary"))
      BY <1>4, <1>5, ConcatOperands
    <2>4. Runs(s \o Operand("and"), depth, N, NF, NA)
      BY <2>2, <2>3, Counts, CallCompare
    <2> QED BY <1>1, <1>7, <2>4, GotoStep DEF Call, s
  <1>8. CASE Top.at = "compare"
    <2>1. Wants(Top, At("projection"))
      BY <1>1, <1>8, AtFields DEF Wants
    <2>2. Awaits(s, depth, At("projection"), N, NF, NA)
      <3> DEFINE d == depth - Weight(Top) + Weight(Top)
      <3>1. Awaits(Append(Callers, Top), d, At("projection"), N, NF, NA)
        BY <1>2, <2>1, ContinuesAwaits
      <3>2. d = depth
        BY <1>3
      <3> HIDE DEF d
      <3> QED BY <3>1, <3>2 DEF s
    <2>3. s \o Operand("compare")
            = Append(Append(s, At("projection")), At("primary"))
      BY <1>4, <1>5, ConcatOperands
    <2>4. Runs(s \o Operand("compare"), depth, N, NF, NA)
      BY <2>2, <2>3, Counts, CallProjection
    <2> QED BY <1>1, <1>8, <2>4, GotoStep DEF Call, s
  <1> QED BY <1>1, <1>6, <1>7, <1>8

LEMMA CombineInv ==
  ASSUME IInv, Combine
  PROVE  IInv'
  <1> DEFINE s == IF Top.at = "compare" THEN Return(New)
                  ELSE Append(Callers, [Top EXCEPT !.children = <<New>>])
  <1>1. /\ Top.at \in {"compare", "and", "or"}
        /\ add_expression(Node(Top.at, Top), depth, s)
    BY DEF Combine
  <1>2. ExpressionOK(Node(Top.at, Top), N + 1, fields, arms)
    <2>1. Top.count = 0 /\ Top.at \in Kinds /\ Top.at # "match"
      BY <1>1, TopTypes DEF FrameOK, Kinds
    <2> QED BY <2>1, TopTypes, NodeOK
  <1>3. Runs(s, depth, N + 1, NF, NA)
    <2>1. CASE Top.at = "compare"
      <3>1. /\ Top.at \notin Payloads \cup {"body"} /\ Top.at \notin Holders
            /\ New \in 1..(N + 1) /\ N + 1 \in Nat /\ N + 1 >= N
        BY <2>1, Counts DEF Payloads, Holders
      <3>2. Runs(Return(New), depth, N + 1, NF, NA)
        BY <3>1, ReturnRuns, StayDepth
      <3> QED BY <2>1, <3>2
    <2>2. CASE Top.at \in {"and", "or"}
      BY <2>2, FoldRuns
    <2> QED BY <1>1, <2>1, <2>2
  <1>4. depth \in 0..MaxNesting
    BY DEF IInv
  <1> HIDE DEF s
  <1> QED BY <1>1, <1>2, <1>3, <1>4, StoreStep

LEMMA LevelDoneInv ==
  ASSUME IInv, LevelDone
  PROVE  IInv'
  <1>1. /\ Top.at \in {"projection", "compare", "and", "or"}
        /\ Len(Top.children) = 1 /\ Goto(Return(Top.children[1]))
    BY DEF LevelDone, Returned
  <1>2. Top.children[1] \in 1..N
    BY <1>1, OperandOK
  <1>3. Top.at \notin Holders /\ Top.at \notin Payloads \cup {"body"}
    BY <1>1 DEF Holders, Payloads
  <1>4. Runs(Return(Top.children[1]), depth - Weight(Top), N, NF, NA)
    BY <1>2, <1>3, Counts, ReturnRuns
  <1>5. Runs(Return(Top.children[1]), depth, N, NF, NA)
    BY <1>3, <1>4, StayDepth
  <1> QED BY <1>1, <1>5, GotoStep

\* A production of a tail that has entered its level calls for a value.
LEMMA TailValueInv ==
  ASSUME IInv, Top.at = "tail", NEW f, f \in Frame,
         f.at \in {"let", "require", "accept", "if", "match"},
         f.children = <<>>, f.first = 0, f.count = 0,
         EnterNesting(Call(f, Value))
  PROVE  IInv'
  <1>1. Len(f.children) = 0
    OBVIOUS
  <1>2. FrameOK(f, N, NF, NA)
    BY <1>1, Counts DEF FrameOK, Fielders, Armers
  <1>3. Alike(Top, f) /\ Wants(f, At("or"))
    BY <1>1, AtFields DEF Alike, Wants, Tails
  <1>4. depth + 1 \in Nat /\ depth + 1 = depth - Weight(Top) + Weight(f)
    BY Counts DEF Weight, Holders
  <1>5. Runs(Call(f, Value), depth + 1, N, NF, NA)
    BY <1>2, <1>3, <1>4, CallValueRuns
  <1> QED BY <1>5, EnterStep

LEMMA KernelTailInv ==
  ASSUME IInv, KernelTail
  PROVE  IInv'
  <1>1. Top.at = "tail"
    BY DEF KernelTail, Running
  <1>2. ASSUME NEW form \in {"let", "require", "accept", "if"},
               EnterNesting(Call(At(form), Value))
        PROVE  IInv'
    <2>1. At(form) \in Frame
      BY <1>2, AtFrame, Counts DEF Labels, Holders, FrameOK
    <2> QED BY <1>1, <1>2, <2>1, AtFields, TailValueInv
  <1>3. ASSUME NEW v \in Variants,
               EnterNesting(Call([At("match") EXCEPT !.variant = v], Value))
        PROVE  IInv'
    <2> DEFINE f == [At("match") EXCEPT !.variant = v]
    <2>1. At("match") \in Frame
      BY AtFrame, Counts DEF Labels, Holders, FrameOK
    <2>2. /\ f \in Frame /\ f.at = "match" /\ f.first = 0 /\ f.count = 0
          /\ f.children = <<>>
      BY <2>1, Changed, AtFields
    <2>3. EnterNesting(Call(f, Value))
      BY <1>3
    <2> HIDE DEF f
    <2> QED BY <1>1, <2>2, <2>3, TailValueInv
  <1>4. CASE EnterNesting(Call(At("reject"), <<At("payload_entry")>>))
    <2>1. FrameOK(At("reject"), N, NF, NA)
      BY AtFrame, Counts DEF Labels, Holders
    <2>2. Alike(Top, At("reject")) /\ Wants(At("reject"), At("payload_entry"))
      BY <1>1, AtFields DEF Alike, Wants, Tails, Payloads
    <2>3. depth + 1 \in Nat /\ depth + 1 = depth - Weight(Top) + Weight(At("reject"))
      BY <1>1, Counts, AtFields DEF Weight, Holders
    <2>4. Runs(Call(At("reject"), <<At("payload_entry")>>), depth + 1, N, NF, NA)
      BY <2>1, <2>2, <2>3, CallOneRuns
    <2> QED BY <1>4, <2>4, EnterStep
  <1> QED BY <1>2, <1>3, <1>4 DEF KernelTail

LEMMA MatchOpenInv ==
  ASSUME IInv, MatchOpen
  PROVE  IInv'
  <1> DEFINE g == [Top EXCEPT !.at = "arms"]
             f == [g EXCEPT !.first = Len(arms)]
  <1>1. /\ Top.at = "match" /\ Top \in Frame
        /\ Goto(Append(Callers, [Top EXCEPT !.at = "arms", !.first = Len(arms)]))
    BY TopTypes DEF MatchOpen, Running
  <1>2. f = [Top EXCEPT !.at = "arms", !.first = Len(arms)]
    BY <1>1 DEF Frame
  <1>3. "arms" \in Labels /\ Len(arms) = NA /\ NA \in Nat
    BY Counts DEF Labels, Holders, NA
  <1>4. /\ g \in Frame /\ g.at = "arms" /\ g.count = Top.count
        /\ g.children = Top.children
    BY <1>1, <1>3, Changed
  <1> HIDE DEF g
  <1>5. /\ f \in Frame /\ f.at = "arms" /\ f.first = NA /\ f.count = Top.count
        /\ f.children = Top.children
    BY <1>3, <1>4, Changed
  <1> HIDE DEF f
  <1>6. /\ FrameOK(f, N, NF, NA) /\ Ready(f) /\ Alike(Top, f)
        /\ Weight(f) = Weight(Top)
    BY <1>1, <1>3, <1>5, TopTypes
       DEF FrameOK, Ready, Alike, Weight, Tails, Holders, Fielders, Armers
  <1>7. depth - Weight(Top) + Weight(f) = depth
    BY <1>6, Counts DEF Weight
  <1>8. Runs(Append(Callers, f), depth - Weight(Top) + Weight(f), N, NF, NA)
    BY <1>6, Counts, ContinuesRuns
  <1> QED BY <1>1, <1>2, <1>7, <1>8, GotoStep

LEMMA ArmOpenInv ==
  ASSUME IInv, ArmOpen
  PROVE  IInv'
  <1>1. Top.at = "arms" /\ Top \in Frame
    BY TopTypes DEF ArmOpen, Running
  <1>2. CASE Fail("A0-PARSE-0040") /\ UNCHANGED stack
    BY <1>2, FailStep DEF Codes
  <1>3. ASSUME NEW c \in CaseNames,
               Goto(Call([Top EXCEPT !.at = "arm", !.name = c], <<At("tail")>>))
        PROVE  IInv'
    <2> DEFINE g == [Top EXCEPT !.at = "arm"]
               f == [g EXCEPT !.name = c]
    <2>1. f = [Top EXCEPT !.at = "arm", !.name = c]
      BY <1>1 DEF Frame
    <2>2. "arm" \in Labels
      BY DEF Labels, Holders
    <2>3. /\ g \in Frame /\ g.at = "arm" /\ g.count = Top.count
          /\ g.first = Top.first /\ g.children = Top.children
      BY <1>1, <2>2, Changed
    <2> HIDE DEF g
    <2>4. /\ f \in Frame /\ f.at = "arm" /\ f.first = Top.first
          /\ f.count = Top.count /\ f.children = Top.children /\ f.name = c
      BY <2>3, Changed
    <2> HIDE DEF f
    <2>5. /\ FrameOK(f, N, NF, NA) /\ Alike(Top, f) /\ Weight(f) = Weight(Top)
          /\ Wants(f, At("tail"))
      BY <1>1, <2>4, TopTypes, AtFields
         DEF FrameOK, Ready, Wants, Alike, Weight, Tails, Holders, Fielders, Armers
    <2>6. depth = depth - Weight(Top) + Weight(f)
      BY <2>5, Counts DEF Weight
    <2>7. Runs(Call(f, <<At("tail")>>), depth, N, NF, NA)
      BY <2>5, <2>6, Counts, CallOneRuns
    <2> QED BY <1>3, <2>1, <2>7, GotoStep
  <1> QED BY <1>2, <1>3 DEF ArmOpen

LEMMA ArmCloseInv ==
  ASSUME IInv, ArmClose
  PROVE  IInv'
  <1>1. /\ Top.at = "arm" /\ Len(Top.children) = 2
        /\ Top.name \in CaseNames /\ Top \in Frame
    BY TopTypes DEF ArmClose, Running, Ready, FrameOK
  <1>2. CASE /\ phase' = "overrun"
             /\ UNCHANGED <<forms, code, depth, expressions, fields, arms, stack>>
    BY <1>2 DEF IInv, Top
  <1>3. ASSUME NA < MaxArms,
               arms' = Append(arms, [item |-> Top.name, body |-> Top.children[2]]),
               stack' = Append(Callers,
                          [Top EXCEPT !.at = "arms", !.name = "none",
                                      !.children = <<@[1]>>]),
               UNCHANGED <<forms, phase, code, depth, expressions, fields>>
        PROVE  IInv'
    <2> DEFINE h == [Top EXCEPT !.at = "arms"]
               g == [h EXCEPT !.name = "none"]
               c == <<Top.children[1]>>
               f == [g EXCEPT !.children = c]
    <2>1. "arms" \in Labels
      BY DEF Labels, Holders
    <2>2. Top.children[1] \in 1..N /\ Top.children[2] \in 1..N
      BY <1>1, OperandOK
    <2>3. c \in Seq(Nat) /\ Len(c) = 1 /\ c[1] = Top.children[1]
      BY <2>2
    <2>4. f = [Top EXCEPT !.at = "arms", !.name = "none", !.children = <<@[1]>>]
      BY <1>1 DEF Frame
    <2>5. /\ h \in Frame /\ h.at = "arms" /\ h.first = Top.first
          /\ h.count = Top.count
      BY <1>1, <2>1, Changed
    <2> HIDE DEF h
    <2>6. /\ g \in Frame /\ g.at = "arms" /\ g.first = Top.first
          /\ g.count = Top.count
      BY <2>5 DEF Frame
    <2> HIDE DEF g, c
    <2>7. /\ f \in Frame /\ f.at = "arms" /\ f.first = Top.first
          /\ f.count = Top.count /\ f.children = c
      BY <2>3, <2>6, Changed
    <2> HIDE DEF f
    <2>8. FrameOK(f, N, NF, NA + 1)
      <3>1. Top.first <= NA /\ Top.count = 0 /\ Top.first \in Nat
        BY <1>1, TopTypes, FrameFields DEF FrameOK, Armers
      <3>2. Top.first <= NA + 1
        BY <3>1, Counts
      <3>3. \A j \in 1..1 : j = 1
        OBVIOUS
      <3>4. \A j \in 1..Len(f.children) : f.children[j] \in 1..N
        BY <2>2, <2>3, <2>7, <3>3
      <3> QED BY <2>7, <3>1, <3>2, <3>4 DEF FrameOK, Fielders, Armers
    <2>9. Ready(f) /\ Alike(Top, f) /\ Weight(f) = Weight(Top)
      BY <1>1, <2>3, <2>7 DEF Ready, Alike, Weight, Tails, Holders
    <2>10. Runs(Append(Callers, f), depth, N, NF, NA + 1)
      <3>1. NA + 1 \in Nat /\ NA + 1 >= NA
        BY Counts
      <3>2. Runs(Append(Callers, f), depth - Weight(Top) + Weight(f), N, NF, NA + 1)
        BY <2>8, <2>9, <3>1, Counts, ContinuesRuns
      <3>3. depth - Weight(Top) + Weight(f) = depth
        BY <2>9, Counts DEF Weight
      <3> QED BY <3>2, <3>3
    <2>11. /\ ArmsOK(arms', N) /\ ExpressionsOK(expressions, fields, arms')
           /\ Len(arms') = NA + 1
      BY <1>1, <1>3, <2>2, ArmsGrow
    <2>12. stack' = Append(Callers, f)
      BY <1>3, <2>4
    <2> QED BY <1>3, <2>10, <2>11, <2>12 DEF IInv, Runs, Top, N, NF
  <1> QED BY <1>2, <1>3 DEF ArmClose, NA

LEMMA MatchCloseInv ==
  ASSUME IInv, MatchClose
  PROVE  IInv'
  <1> DEFINE f == [Top EXCEPT !.count = Len(arms) - Top.first]
  <1>1. /\ Top.at = "arms"
        /\ add_expression(Node("match", f), depth - 1, Return(New))
    BY DEF MatchClose, Running
  <1>2. Top.first \in Nat /\ Top.first <= NA /\ Len(arms) = NA
    BY <1>1, TopTypes, FrameFields DEF FrameOK, Armers, NA
  <1>3. NA - Top.first \in Nat /\ Top.first + (NA - Top.first) <= NA
    BY <1>2, Counts
  <1>4. /\ f \in Frame /\ f.at = "arms" /\ f.first = Top.first
        /\ f.count = NA - Top.first /\ f.children = Top.children
    BY <1>1, <1>2, <1>3, TopTypes, Changed
  <1> HIDE DEF f
  <1>5. ExpressionOK(Node("match", f), N + 1, fields, arms)
    <2>1. \A j \in 1..Len(f.children) : f.children[j] \in 1..N
      BY <1>4, TopTypes DEF FrameOK
    <2>2. f.first + f.count <= NA
      BY <1>3, <1>4
    <2> QED BY <1>4, <2>1, <2>2, RangeNodeOK DEF Kinds
  <1>6. Top.at \in Holders /\ Top.at \notin Payloads \cup {"body"}
    BY <1>1 DEF Holders, Payloads
  <1>7. Runs(Return(New), depth - 1, N + 1, NF, NA)
    BY <1>6, LeaveRuns
  <1>8. depth - 1 \in 0..MaxNesting
    BY <1>6, LeaveDepth
  <1> QED BY <1>1, <1>5, <1>7, <1>8, StoreStep

LEMMA RequirePayloadInv ==
  ASSUME IInv, RequirePayload
  PROVE  IInv'
  <1> DEFINE f == [Top EXCEPT !.at = "require_ready"]
  <1>1. Top.at = "require" /\ Goto(Call(f, <<At("payload_entry")>>))
    BY DEF RequirePayload, Running
  <1>2. "require_ready" \in Labels
    BY DEF Labels, Holders
  <1>3. /\ f \in Frame /\ f.at = "require_ready" /\ f.first = Top.first
        /\ f.count = Top.count /\ f.children = Top.children
    BY <1>2, TopTypes, Changed
  <1> HIDE DEF f
  <1>4. Top.count = 0 /\ Len(Top.children) = 1
    BY <1>1, TopTypes DEF FrameOK, Ready
  <1>5. FrameOK(f, N, NF, NA)
    BY <1>1, <1>3, <1>4, TopTypes DEF FrameOK, Fielders, Armers

  <1>6. /\ Alike(Top, f) /\ Weight(f) = Weight(Top)
        /\ Wants(f, At("payload_entry"))
    BY <1>1, <1>3, <1>4, AtFields DEF Alike, Weight, Wants, Tails, Holders, Payloads
  <1>7. depth = depth - Weight(Top) + Weight(f)
    BY <1>6, Counts DEF Weight
  <1>8. Runs(Call(f, <<At("payload_entry")>>), depth, N, NF, NA)
    BY <1>5, <1>6, <1>7, Counts, CallOneRuns
  <1> QED BY <1>1, <1>8, GotoStep

LEMMA Arities ==
  /\ Arity("reject") = 0 /\ Arity("accept") = 1 /\ Arity("let") = 2
  /\ Arity("require_ready") = 2 /\ Arity("if") = 3
  BY DEF Arity

LEMMA ContinueInv ==
  ASSUME IInv, Continue
  PROVE  IInv'
  <1>1. /\ Top.at \in {"let", "require_ready", "if", "accept", "reject"}
        /\ Len(Top.children) < Arity(Top.at)
        /\ Goto(Call(Top, <<At("tail")>>))
    BY DEF Continue, TailLabels
  <1>2. Ready(Top) /\ FrameOK(Top, N, NF, NA) /\ Len(Top.children) \in Nat
    BY TopTypes, FrameFields
  <1>3. \/ Top.at \in {"let", "require_ready"} /\ Len(Top.children) = 1
        \/ Top.at = "if" /\ Len(Top.children) \in {1, 2}
    <2> DEFINE n == Len(Top.children)
    <2>a. /\ n \in {1, 2} /\ n < 2 => n = 1
          /\ n \in {1, 2, 3} /\ n < 3 => n \in {1, 2}
      OBVIOUS
    <2>b. /\ Top.at \in {"let", "require_ready"} => n \in {1, 2}
          /\ Top.at = "if" => n \in {1, 2, 3}
          /\ Top.at = "accept" => n = 1
      BY <1>2 DEF Ready
    <2> HIDE DEF n
    <2>1. Top.at # "reject"
      BY <1>1, <1>2, Arities
    <2>2. n < Arity(Top.at)
      BY <1>1 DEF n
    <2>3. Top.at # "accept"
      BY <2>b, <2>2, Arities
    <2>4. Top.at \in {"let", "require_ready"} => n = 1
      BY <2>a, <2>b, <2>2, Arities
    <2>5. Top.at = "if" => n \in {1, 2}
      BY <2>a, <2>b, <2>2, Arities
    <2> QED BY <1>1, <2>1, <2>3, <2>4, <2>5 DEF n
  <1>4. Wants(Top, At("tail"))
    BY <1>3, AtFields DEF Wants, Tails
  <1>5. Alike(Top, Top) /\ depth = depth - Weight(Top) + Weight(Top)
    BY Counts DEF Alike, Weight
  <1>6. Runs(Call(Top, <<At("tail")>>), depth, N, NF, NA)
    BY <1>2, <1>4, <1>5, Counts, CallOneRuns
  <1> QED BY <1>1, <1>6, GotoStep

LEMMA FinishInv ==
  ASSUME IInv, Finish
  PROVE  IInv'
  <1> DEFINE kind == IF Top.at = "require_ready" THEN "require" ELSE Top.at
  <1>1. /\ Top.at \in {"let", "require_ready", "if", "accept", "reject"}
        /\ add_expression(Node(kind, Top), depth - 1, Return(New))
    BY DEF Finish, TailLabels
  <1>2. kind \in Kinds /\ kind # "match"
    BY <1>1 DEF Kinds
  <1> HIDE DEF kind
  <1>3. ExpressionOK(Node(kind, Top), N + 1, fields, arms)
    <2>1. Top.count = 0 \/ Top.first + Top.count <= NF
      BY <1>1, TopTypes DEF FrameOK
    <2> QED BY <1>2, <2>1, TopTypes, NodeOK
  <1>4. Top.at \in Holders /\ Top.at \notin Payloads \cup {"body"}
    BY <1>1 DEF Holders, Payloads
  <1>5. Runs(Return(New), depth - 1, N + 1, NF, NA)
    BY <1>4, LeaveRuns
  <1>6. depth - 1 \in 0..MaxNesting
    BY <1>4, LeaveDepth
  <1> QED BY <1>1, <1>3, <1>5, <1>6, StoreStep

LEMMA BodyCloseInv ==
  ASSUME IInv, BodyClose
  PROVE  IInv'
  BY DEF IInv, BodyClose, Top

LEMMA SyntaxErrorInv ==
  ASSUME IInv, SyntaxError
  PROVE  IInv'
  BY FailStep DEF SyntaxError, Codes

LEMMA InitInv ==
  ASSUME Init
  PROVE  IInv
  <1> DEFINE none == <<>>
             s == Append(none, At("body"))
  <1>1. /\ expressions = <<>> /\ fields = <<>> /\ arms = <<>> /\ depth = 0
        /\ stack = <<At("body"), At("tail")>>
    BY DEF Init
  <1>2. /\ <<>> \in Seq(Expression) /\ <<>> \in Seq([name : FieldNames, value : Nat])
        /\ <<>> \in Seq([item : CaseNames, body : Nat]) /\ <<>> \in Seq(Frame)
        /\ Len(<<>>) = 0 /\ \A k : k \notin 1..0
    BY EmptySeq
  <1>3. /\ ExpressionsOK(expressions, fields, arms)
        /\ FieldsOK(fields, 0) /\ ArmsOK(arms, 0)
    BY <1>1, <1>2, ConstantTypes DEF ExpressionsOK, FieldsOK, ArmsOK
  <1>4. /\ StackOK(none, 0, 0, 0) /\ Attaches(none, At("body"))
        /\ Len(none) = 0 /\ Held(none, 0) = 0
    BY <1>2, AtFields, HeldNone DEF StackOK, Attaches
  <1>5. FrameOK(At("body"), 0, 0, 0) /\ FrameOK(At("tail"), 0, 0, 0)
    BY AtFrame DEF Labels
  <1>6. Weight(At("body")) = 0 /\ Weight(At("tail")) = 0
    BY AtFields DEF Weight, Holders
  <1>7. StackOK(s, 0, 0, 0) /\ Len(s) = 1 /\ s[1] = At("body") /\ Held(s, 1) = 0
    <2> DEFINE z == 0
               f == At("body")
    <2>3. StackOK(none, z, z, z) /\ Attaches(none, f) /\ FrameOK(f, z, z, z)
      BY <1>4, <1>5
    <2> HIDE DEF none, z, f
    <2>4. /\ StackOK(Append(none, f), z, z, z)
          /\ Len(Append(none, f)) = Len(none) + 1
          /\ Append(none, f)[Len(none) + 1] = f
          /\ Held(Append(none, f), Len(none) + 1) = Held(none, Len(none)) + Weight(f)
      BY <2>3, PushOK
    <2>1. /\ StackOK(s, 0, 0, 0) /\ Len(s) = Len(none) + 1
          /\ s[Len(none) + 1] = At("body")
          /\ Held(s, Len(none) + 1) = Held(none, Len(none)) + Weight(At("body"))
      BY <2>4 DEF z, f
    <2>2. 0 + 1 = 1 /\ 0 + 0 = 0
      OBVIOUS
    <2> QED BY <1>4, <1>6, <2>1, <2>2
  <1>8. Wants(At("body"), At("tail"))
    BY AtFields DEF Wants, Tails
  <1>a. stack = Append(s, At("tail"))
    BY <1>1 DEF s
  <1> HIDE DEF none, s
  <1>9. Attaches(s, At("tail"))
    BY <1>7, <1>8 DEF Attaches
  <1>10. /\ StackOK(stack, 0, 0, 0) /\ Len(stack) = 2
         /\ stack[2] = At("tail") /\ Held(stack, 2) = 0
    <2> DEFINE u == Append(s, At("tail"))
               f == At("tail")
               z == 0
    <2>4. StackOK(s, z, z, z) /\ Attaches(s, f) /\ FrameOK(f, z, z, z)
      BY <1>5, <1>7, <1>9
    <2> HIDE DEF f, z
    <2>5. /\ StackOK(u, z, z, z) /\ Len(u) = Len(s) + 1
          /\ u[Len(s) + 1] = f
          /\ Held(u, Len(s) + 1) = Held(s, Len(s)) + Weight(f)
      BY <2>4, PushOK DEF f
    <2> HIDE DEF u
    <2>1. /\ StackOK(u, 0, 0, 0) /\ Len(u) = Len(s) + 1
          /\ u[Len(s) + 1] = At("tail")
          /\ Held(u, Len(s) + 1) = Held(s, Len(s)) + Weight(At("tail"))
      BY <2>5 DEF z, f
    <2>2. 1 + 1 = 2 /\ 0 + 0 = 0
      OBVIOUS
    <2>3. /\ StackOK(u, 0, 0, 0) /\ Len(u) = 2
          /\ u[2] = At("tail") /\ Held(u, 2) = 0
      BY <1>6, <1>7, <2>1, <2>2
    <2> QED BY <1>a, <2>3 DEF u
  <1>12. Ready(At("tail"))
    BY LevelWants
  <1>13. /\ forms \in Families /\ phase = "parse" /\ code \in Codes
    BY DEF Init, Codes
  <1>14. /\ Len(expressions) = 0 /\ Len(fields) = 0 /\ Len(arms) = 0
         /\ Len(stack) = 2 /\ 2 > 0 /\ Top = At("tail")
         /\ 0 \in 0..MaxNesting
    BY <1>1, <1>2, <1>10, ConstantTypes DEF Top
  <1> QED BY <1>1, <1>3, <1>10, <1>12, <1>13, <1>14 DEF IInv

LEMMA NextInv ==
  ASSUME IInv, [Next]_vars
  PROVE  IInv'
  <1>1. CASE UNCHANGED vars
    BY <1>1 DEF vars, IInv, Top
  <1>2. CASE Next
    BY <1>2, LeafInv, OpenParenInv, CloseParenInv, OpenRecordInv, FieldOpenInv,
       FieldCloseInv, RecordCloseInv, PayloadAbsentInv, PayloadOpenInv,
       PayloadCloseInv, ProjectInv, OperatorInv, CombineInv, LevelDoneInv,
       KernelTailInv, MatchOpenInv, ArmOpenInv, ArmCloseInv, MatchCloseInv,
       RequirePayloadInv, ContinueInv, FinishInv, BodyCloseInv, SyntaxErrorInv
       DEF Next
  <1> QED BY <1>1, <1>2

LEMMA Invariance == Spec => []IInv
  BY InitInv, NextInv, PTL DEF Spec

-----------------------------------------------------------------------------
(***************************************************************************)
(* Every state of a parse is typed: what a frame remembers of an open      *)
(* range, of a name or of a variant is one when the production needs it.   *)
(***************************************************************************)
THEOREM TypeCorrect == Spec => []TypeOK
  <1>1. IInv => TypeOK
    BY DEF IInv, TypeOK, ExpressionsOK, FieldsOK, ArmsOK, StackOK
  <1> QED BY <1>1, Invariance, PTL

\* The descent has at most six frames for each level it holds, and two more.
LEMMA RunsShallow ==
  ASSUME NEW s, NEW d \in Nat, NEW n, NEW nf, NEW na, Runs(s, d, n, nf, na)
  PROVE  Len(s) \in Nat /\ Len(s) <= 6 * d + 2
  <1> DEFINE k == Len(s)
             label == s[k].at
  <1>1. k \in Nat /\ k \in 1..k
    BY LenProperties DEF Runs, StackOK
  <1>2. Shallow(label, k, d) /\ label \in Labels
    BY <1>1, FrameFields DEF Runs, StackOK, FrameOK
  <1>3. \A i, h \in Nat :
          /\ i <= 6 * h - 4 => i <= 6 * h + 2
          /\ i <= 6 * h - 3 => i <= 6 * h + 2
          /\ i <= 6 * h - 2 => i <= 6 * h + 2
          /\ i <= 6 * h - 1 => i <= 6 * h + 2
          /\ i <= 6 * h => i <= 6 * h + 2
          /\ i <= 6 * h + 1 => i <= 6 * h + 2
          /\ i = 1 => i <= 6 * h + 2
    OBVIOUS
  <1> HIDE DEF k, label
  <1>4. \/ label \in Holders \/ label \in Payloads \/ label = "or"
        \/ label = "and" \/ label = "compare" \/ label = "projection"
        \/ label \in {"primary", "tail"} \/ label = "body"
    BY <1>2 DEF Labels, Payloads
  <1>5. k <= 6 * d + 2
    BY <1>1, <1>2, <1>3, <1>4 DEF Shallow
  <1> QED BY <1>1, <1>5 DEF k

(***************************************************************************)
(* The nesting counter of seki_parser.c is the number of productions that  *)
(* have entered a level and not left it, in every state; so the descent is *)
(* never deeper than seven frames for each level of SEKI_MAX_NESTING.      *)
(***************************************************************************)
THEOREM NestingIsBalanced == Spec => []NestingBalanced
  <1>1. ASSUME IInv
        PROVE  NestingBalanced
    <2>1. /\ stack \in Seq(Frame) /\ Len(stack) \in Nat /\ Len(stack) > 0
          /\ DOMAIN stack = 1..Len(stack)
      BY <1>1, LenProperties DEF IInv, StackOK
    <2>2. depth = Cardinality({k \in DOMAIN stack : stack[k].at \in Holders})
      BY <1>1, <2>1 DEF IInv, Held
    <2>3. Runs(stack, depth, N, NF, NA) /\ depth \in Nat
      BY <1>1, Counts DEF IInv, Runs, N, NF, NA, Top
    <2>4. Len(stack) <= 6 * depth + 2
      BY <2>3, RunsShallow
    <2>a. depth <= MaxNesting /\ MaxNesting \in Nat
      BY <1>1, Counts
    <2>5. Len(stack) <= 7 * (MaxNesting + 1)
      BY <2>1, <2>3, <2>4, <2>a
    <2> QED BY <2>2, <2>5 DEF NestingBalanced
  <1> QED BY <1>1, Invariance, PTL

(***************************************************************************)
(* Every operand, arm and field of a stored expression has a smaller       *)
(* number than the expression, for every source and every capacity: what   *)
(* the checker, the emitter and the back end recurse along goes down.      *)
(***************************************************************************)
THEOREM ChildrenArePreceding == Spec => []ChildrenPrecede
  <1>1. ASSUME IInv
        PROVE  ChildrenPrecede
    <2> SUFFICES ASSUME NEW i \in 1..Len(expressions)
                 PROVE  /\ Slots(i) \subseteq IF IsMatch(i) THEN DOMAIN arms
                                              ELSE DOMAIN fields
                        /\ \A c \in References(i, Slots(i)) : c \in 1..(i - 1)
      BY DEF ChildrenPrecede, Numbers
    <2>1. ExpressionOK(expressions[i], i, fields, arms)
      BY <1>1 DEF IInv, ExpressionsOK
    <2>2. /\ DOMAIN arms = 1..Len(arms) /\ DOMAIN fields = 1..Len(fields)
          /\ DOMAIN expressions[i].children = 1..Len(expressions[i].children)
      <3>1. expressions[i].children \in Seq(Nat)
        BY <2>1 DEF ExpressionOK, Expression
      <3> QED BY <1>1, <3>1, Counts, LenProperties
    <2>3. \A k \in DOMAIN expressions[i].children :
            expressions[i].children[k] \in 1..(i - 1)
      BY <2>1, <2>2 DEF ExpressionOK
    <2>4. CASE IsMatch(i)
      <3>1. \A k \in Slots(i) : k \in DOMAIN arms /\ arms[k].body \in 1..(i - 1)
        BY <2>1, <2>2, <2>4 DEF ExpressionOK, Slots, IsMatch
      <3> QED BY <2>3, <2>4, <3>1 DEF References
    <2>5. CASE ~IsMatch(i)
      <3>1. \A k \in Slots(i) :
              k \in DOMAIN fields /\ fields[k].value \in 1..(i - 1)
        BY <2>1, <2>2, <2>5 DEF ExpressionOK, Slots, IsMatch
      <3> QED BY <2>3, <2>5, <3>1 DEF References
    <2> QED BY <2>4, <2>5
  <1> QED BY <1>1, Invariance, PTL

-----------------------------------------------------------------------------
(***************************************************************************)
(* Termination.  An entry of an arena is never given back, so what counts  *)
(* first is the room that is left in the arenas.  Between two entries the  *)
(* descent goes down, one level of nesting after the other and within a    *)
(* level from production to production, and once an expression has been    *)
(* returned it goes up.  It turns down again only to parse an operand or   *)
(* a block, never twice without storing something.                         *)
(***************************************************************************)
\* The productions that have a result to fold, to chain or to hand on.
HandsOn == {"paren", "projection", "compare", "and", "or"}

\* The order of the other productions on one level of nesting, from last to first.
Rank(label) ==
  CASE label = "primary" -> 1
    [] label \in {"tail", "record"} -> 2
    [] label \in {"match", "payload"} -> 4
    [] label = "payload_entry" -> 5
    [] label = "require" -> 6
    [] OTHER -> 3

\* More than the way down and up again can take.
Way == 13 * (MaxNesting + 1) + 1

\* What is left of it for innermost production label of k, at depth d.
WayLeft(label, k, d) ==
  IF label \in HandsOn THEN 6 * (MaxNesting + 1) + k
  ELSE 6 * (MaxNesting - d) + Rank(label)

Room(n, nf, na) == (MaxExpressions - n) + (MaxFields - nf) + (MaxArms - na)

Work ==
  IF phase # "parse" THEN 0
  ELSE Room(N, NF, NA) * Way + WayLeft(Top.at, Len(stack), depth)

MostWork == (MaxExpressions + MaxFields + MaxArms + 1) * Way

LEMMA RankBounds ==
  ASSUME NEW label
  PROVE  Rank(label) \in 1..6
  BY DEF Rank

LEMMA WayBounds ==
  ASSUME NEW label, NEW k \in Nat, NEW d \in 0..MaxNesting, k <= 6 * d + 2
  PROVE  /\ WayLeft(label, k, d) \in 1..(Way - 1)
         /\ Way \in Nat
  <1>1. Rank(label) \in 1..6
    BY RankBounds
  <1>2. CASE label \in HandsOn
    BY <1>2, ConstantTypes DEF WayLeft, Way
  <1>3. CASE label \notin HandsOn
    <2>1. WayLeft(label, k, d) = 6 * (MaxNesting - d) + Rank(label)
      BY <1>3 DEF WayLeft
    <2> QED BY <1>1, <2>1, ConstantTypes DEF Way
  <1> QED BY <1>2, <1>3

LEMMA RoomBounds ==
  ASSUME NEW n \in Nat, NEW nf \in Nat, NEW na \in Nat,
         n <= MaxExpressions, nf <= MaxFields, na <= MaxArms
  PROVE  /\ Room(n, nf, na) \in 0..(MaxExpressions + MaxFields + MaxArms)
         /\ Room(n + 1, nf, na) = Room(n, nf, na) - 1
         /\ Room(n, nf + 1, na) = Room(n, nf, na) - 1
         /\ Room(n, nf, na + 1) = Room(n, nf, na) - 1
  BY ConstantTypes DEF Room

\* A state of the parse.
LEMMA WorkBounds ==
  ASSUME IInv
  PROVE  Work \in 0..MostWork /\ (phase = "parse" => Work > 0)
  <1>1. CASE phase = "parse"
    <2> DEFINE r == Room(N, NF, NA)
               w == WayLeft(Top.at, Len(stack), depth)
               c == MaxExpressions + MaxFields + MaxArms
    <2>1. Runs(stack, depth, N, NF, NA) /\ depth \in 0..MaxNesting
      BY DEF IInv, Runs, N, NF, NA, Top
    <2>2. w \in 1..(Way - 1) /\ Way \in Nat
      BY <2>1, Counts, RunsShallow, WayBounds
    <2>3. r \in 0..c /\ c \in Nat
      <3>1. Room(N, NF, NA) \in 0..(MaxExpressions + MaxFields + MaxArms)
        BY Counts, RoomBounds
      <3> QED BY <3>1, ConstantTypes
    <2>4. Work = r * Way + w /\ MostWork = (c + 1) * Way
      BY <1>1 DEF Work, MostWork
    <2> HIDE DEF r, w, c
    <2>5. \A W \in Nat : r * W \in 0..(c * W)
      BY <2>3
    <2>6. \A W \in Nat : \A v \in 1..(W - 1) :
            r * W + v \in 1..((c + 1) * W)
      BY <2>3, <2>5
    <2> QED BY <2>2, <2>4, <2>6
  <1>2. CASE phase # "parse"
    BY <1>2, ConstantTypes DEF Work, MostWork, Way
  <1> QED BY <1>1, <1>2

-----------------------------------------------------------------------------
(***************************************************************************)
(* The forms a step takes.                                                 *)
(***************************************************************************)
Falls == Work' \in 0..(Work - 1)

LEMMA StopFalls ==
  ASSUME IInv, phase = "parse", phase' # "parse"
  PROVE  Falls
  BY WorkBounds DEF Falls, Work, MostWork, Way

\* What comes after an entry may take the whole way.
LEMMA StoreFalls ==
  ASSUME IInv, IInv', phase = "parse", phase' = "parse",
         \/ N' = N + 1 /\ NF' = NF /\ NA' = NA
         \/ N' = N /\ NF' = NF + 1 /\ NA' = NA
         \/ N' = N /\ NF' = NF /\ NA' = NA + 1
  PROVE  Falls
  <1> DEFINE r == Room(N, NF, NA)
             w == WayLeft(Top.at, Len(stack), depth)
             v == WayLeft(Top'.at, Len(stack'), depth')
  <1>1. Runs(stack, depth, N, NF, NA) /\ depth \in 0..MaxNesting
    BY DEF IInv, Runs, N, NF, NA, Top
  <1>2. Runs(stack', depth', N', NF', NA') /\ depth' \in 0..MaxNesting
    BY DEF IInv, Runs, N, NF, NA, Top
  <1>3. w \in 1..(Way - 1) /\ Way \in Nat
    BY <1>1, Counts, RunsShallow, WayBounds
  <1>4. v \in 1..(Way - 1)
    <2>1. depth' \in Nat
      BY <1>2, ConstantTypes
    <2> QED BY <1>2, <2>1, RunsShallow, WayBounds
  <1>5. /\ N' \in Nat /\ N' <= MaxExpressions /\ NF' \in Nat /\ NF' <= MaxFields
        /\ NA' \in Nat /\ NA' <= MaxArms
    BY LenProperties DEF IInv, ExpressionsOK, FieldsOK, ArmsOK, N, NF, NA
  <1>6. Room(N', NF', NA') = r - 1 /\ r \in Nat
    <2>1. /\ Room(N, NF, NA) \in 0..(MaxExpressions + MaxFields + MaxArms)
          /\ Room(N + 1, NF, NA) = Room(N, NF, NA) - 1
          /\ Room(N, NF + 1, NA) = Room(N, NF, NA) - 1
          /\ Room(N, NF, NA + 1) = Room(N, NF, NA) - 1
      BY Counts, RoomBounds
    <2> QED BY <2>1, ConstantTypes
  <1>7. Room(N', NF', NA') \in Nat
    BY <1>5, RoomBounds, ConstantTypes
  <1>8. /\ Work = r * Way + w
        /\ Work' = Room(N', NF', NA') * Way + v
    BY DEF Work, Way, Room, WayLeft
  <1> HIDE DEF r, w, v
  <1>9. \A R, W \in Nat : \A x, y \in 1..(W - 1) :
          R > 0 => (R - 1) * W + y \in 0..(R * W + x - 1)
    OBVIOUS
  <1> QED BY <1>3, <1>4, <1>6, <1>7, <1>8, <1>9 DEF Falls

\* The innermost production comes earlier in the order, or on a deeper level, or
\* a result has gone up.
LEMMA WayFalls ==
  ASSUME NEW l, NEW m, NEW k \in Nat \ {0}, NEW i \in Nat,
         NEW d \in 0..MaxNesting, NEW e \in 0..MaxNesting,
         \/ l \in HandsOn /\ m \notin HandsOn
         \/ l \in HandsOn /\ i = k - 1
         \/ l \notin HandsOn /\ m \notin HandsOn /\ e = d /\ Rank(m) < Rank(l)
         \/ l \notin HandsOn /\ m \notin HandsOn /\ e = d + 1
  PROVE  WayLeft(m, i, e) < WayLeft(l, k, d)
  <1>1. Rank(l) \in 1..6 /\ Rank(m) \in 1..6
    BY RankBounds
  <1>2. CASE l \in HandsOn
    <2>1. WayLeft(l, k, d) = 6 * (MaxNesting + 1) + k
      BY <1>2 DEF WayLeft
    <2>2. CASE m \in HandsOn
      <3>1. WayLeft(m, i, e) = 6 * (MaxNesting + 1) + i
        BY <2>2 DEF WayLeft
      <3> QED BY <1>2, <2>1, <2>2, <3>1, ConstantTypes
    <2>3. CASE m \notin HandsOn
      <3>1. WayLeft(m, i, e) = 6 * (MaxNesting - e) + Rank(m)
        BY <2>3 DEF WayLeft
      <3> QED BY <1>1, <2>1, <3>1, ConstantTypes
    <2> QED BY <2>2, <2>3
  <1>3. CASE l \notin HandsOn
    <2>1. /\ WayLeft(l, k, d) = 6 * (MaxNesting - d) + Rank(l)
          /\ WayLeft(m, i, e) = 6 * (MaxNesting - e) + Rank(m)
      BY <1>3 DEF WayLeft
    <2> QED BY <1>1, <1>3, <2>1, ConstantTypes
  <1> QED BY <1>2, <1>3

LEMMA MoveFalls ==
  ASSUME IInv, IInv', phase = "parse", UNCHANGED <<phase, expressions, fields, arms>>,
         LET m == Top'.at
         IN \/ Top.at \in HandsOn /\ m \notin HandsOn
            \/ Top.at \in HandsOn /\ Len(stack') = Len(stack) - 1
            \/ /\ Top.at \notin HandsOn /\ m \notin HandsOn
               /\ depth' = depth /\ Rank(m) < Rank(Top.at)
            \/ Top.at \notin HandsOn /\ m \notin HandsOn /\ depth' = depth + 1
  PROVE  Falls
  <1> DEFINE r == Room(N, NF, NA)
             w == WayLeft(Top.at, Len(stack), depth)
             v == WayLeft(Top'.at, Len(stack'), depth')
  <1>1. /\ Runs(stack, depth, N, NF, NA) /\ depth \in 0..MaxNesting
        /\ Runs(stack', depth', N', NF', NA') /\ depth' \in 0..MaxNesting
    BY DEF IInv, Runs, N, NF, NA, Top
  <1>2. depth \in Nat /\ depth' \in Nat
    BY <1>1, ConstantTypes
  <1>3. /\ w \in 1..(Way - 1) /\ v \in 1..(Way - 1) /\ Way \in Nat
        /\ Len(stack) \in Nat \ {0} /\ Len(stack') \in Nat
    <2>1. Len(stack) > 0
      BY DEF IInv
    <2> QED BY <1>1, <1>2, <2>1, RunsShallow, WayBounds
  <1>4. v < w
    <2> DEFINE m == Top'.at
               i == Len(stack')
               e == depth'
    <2>1. /\ i \in Nat /\ e \in 0..MaxNesting
          /\ \/ Top.at \in HandsOn /\ m \notin HandsOn
             \/ Top.at \in HandsOn /\ i = Len(stack) - 1
             \/ /\ Top.at \notin HandsOn /\ m \notin HandsOn
                /\ e = depth /\ Rank(m) < Rank(Top.at)
             \/ Top.at \notin HandsOn /\ m \notin HandsOn /\ e = depth + 1
      BY <1>1, <1>3
    <2> HIDE DEF m, i, e
    <2>2. WayLeft(m, i, e) < WayLeft(Top.at, Len(stack), depth)
      BY <1>1, <1>3, <2>1, WayFalls
    <2> QED BY <2>2 DEF m, i, e
  <1>5. r \in Nat
    <2>1. Room(N, NF, NA) \in 0..(MaxExpressions + MaxFields + MaxArms)
      BY Counts, RoomBounds
    <2> QED BY <2>1, ConstantTypes
  <1>6. Work = r * Way + w /\ Work' = r * Way + v
    BY DEF Work, Way, Room, WayLeft, N, NF, NA
  <1> HIDE DEF r, w, v
  <1>7. r * Way \in Nat
    BY <1>3, <1>5
  <1> QED BY <1>3, <1>4, <1>6, <1>7 DEF Falls

\* The production a step has made the innermost.
LEMMA TopAfterCall ==
  ASSUME IInv, NEW f \in Frame
  PROVE  /\ LET s == Append(Callers, f) IN s[Len(s)] = f
         /\ LET s == Call(f, <<>>) IN s[Len(s)] = f
         /\ LET s == Call(f, Value) IN s[Len(s)].at = "primary"
         /\ \A l \in {"or", "and", "compare"} :
              LET s == Call(f, Operand(l)) IN s[Len(s)].at = "primary"
         /\ \A l \in {"tail", "payload_entry"} :
              LET s == Call(f, <<At(l)>>) IN s[Len(s)].at = l
  <1> DEFINE c == Append(Callers, f)
  <1>1. c \in Seq(Frame)
    BY TopTypes, PushSeq
  <1>2. c[Len(c)] = f
    <2>1. Callers \in Seq(Frame)
      BY TopTypes
    <2> QED BY <2>1, PushSeq
  <1>3. \A l \in {"or", "and", "compare", "projection", "primary", "tail",
                  "payload_entry"} : At(l) \in Frame
    BY AtFrame, LevelWants, Counts DEF FrameOK
  <1> HIDE DEF c
  <1>4. \A s \in Seq(Frame) : \A g \in Frame :
          /\ Append(s, g) \in Seq(Frame)
          /\ Append(s, g)[Len(Append(s, g))] = g
    BY PushSeq
  <1>5. c \o <<>> = c
    BY <1>1, ConcatEmptySeq
  <1>6. c \o Value = Append(Append(Append(Append(Append(c, At("or")), At("and")),
                       At("compare")), At("projection")), At("primary"))
    BY <1>1, <1>3, ConcatValue
  <1>7. /\ c \o Operand("or") = Append(Append(Append(Append(c, At("and")),
                                   At("compare")), At("projection")), At("primary"))
        /\ c \o Operand("and") = Append(Append(Append(c, At("compare")),
                                    At("projection")), At("primary"))
        /\ c \o Operand("compare") = Append(Append(c, At("projection")), At("primary"))
    BY <1>1, <1>3, ConcatOperands
  <1>8. \A l \in {"tail", "payload_entry"} : c \o <<At(l)>> = Append(c, At(l))
    BY <1>1, <1>3, Concat
  <1>9. \A l \in Labels : At(l).at = l
    BY AtFields
  <1>10. /\ Append(c, At("or")) \in Seq(Frame)
         /\ Append(Append(c, At("or")), At("and")) \in Seq(Frame)
         /\ Append(c, At("and")) \in Seq(Frame)
         /\ Append(c, At("compare")) \in Seq(Frame)
         /\ Append(c, At("projection")) \in Seq(Frame)
    BY <1>1, <1>3, <1>4
  <1>11. /\ Append(Append(c, At("compare")), At("projection")) \in Seq(Frame)
         /\ Append(Append(c, At("and")), At("compare")) \in Seq(Frame)
         /\ Append(Append(Append(c, At("and")), At("compare")), At("projection"))
              \in Seq(Frame)
         /\ Append(Append(Append(c, At("or")), At("and")), At("compare")) \in Seq(Frame)
    BY <1>3, <1>4, <1>10
  <1>12. Append(Append(Append(Append(c, At("or")), At("and")), At("compare")),
                At("projection")) \in Seq(Frame)
    BY <1>3, <1>4, <1>11
  <1>13. \A s \in Seq(Frame) : \A l \in {"primary", "tail", "payload_entry"} :
           LET t == Append(s, At(l)) IN t[Len(t)].at = l
    BY <1>3, <1>4, <1>9, LevelWants
  <1>14. LET s == c \o Value IN s[Len(s)].at = "primary"
    BY <1>6, <1>12, <1>13
  <1>15. \A l \in {"or", "and", "compare"} :
           LET s == c \o Operand(l) IN s[Len(s)].at = "primary"
    <2>1. LET s == c \o Operand("or") IN s[Len(s)].at = "primary"
      BY <1>7, <1>11, <1>13
    <2>2. LET s == c \o Operand("and") IN s[Len(s)].at = "primary"
      BY <1>7, <1>11, <1>13
    <2>3. LET s == c \o Operand("compare") IN s[Len(s)].at = "primary"
      BY <1>7, <1>10, <1>13
    <2> QED BY <2>1, <2>2, <2>3
  <1>16. \A l \in {"tail", "payload_entry"} :
           LET s == c \o <<At(l)>> IN s[Len(s)].at = l
    BY <1>1, <1>8, <1>13
  <1> QED BY <1>2, <1>5, <1>14, <1>15, <1>16 DEF Call, c

\* A result takes the innermost production away.
LEMMA ReturnTop ==
  ASSUME IInv, Top.at \notin Payloads \cup {"body"}, NEW e \in Nat
  PROVE  Len(Return(e)) = Len(stack) - 1
  <1> DEFINE g == Callers[Len(Callers)]
  <1>1. /\ Callers \in Seq(Frame) /\ Len(Callers) \in Nat /\ Len(Callers) > 0
        /\ Len(Callers) = Len(stack) - 1
    BY TopTypes
  <1>2. g \in Frame
    BY <1>1
  <1>3. With(g, e) \in Frame
    BY <1>2, WithFields
  <1>4. Return(e) = [Callers EXCEPT ![Len(Callers)] = With(g, e)]
    BY <1>1 DEF Return, With
  <1> HIDE DEF g, With
  <1>5. Len([Callers EXCEPT ![Len(Callers)] = With(g, e)]) = Len(Callers)
    BY <1>1, <1>3, ExceptSeq
  <1> QED BY <1>1, <1>4, <1>5

\* A rejection payload goes back to the tail it belongs to.
LEMMA PayloadTop ==
  ASSUME IInv, Top.at \in Payloads, NEW x \in Nat, NEW y \in Nat
  PROVE  LET s == [Callers EXCEPT ![Len(Callers)].first = x,
                                  ![Len(Callers)].count = y]
         IN s[Len(s)].at \in {"reject", "require_ready"}
  <1> DEFINE c == Callers[Len(Callers)]
             g == [c EXCEPT !.first = x]
             f == [g EXCEPT !.count = y]
             s == [Callers EXCEPT ![Len(Callers)] = f]
  <1>1. Top.at # "body"
    BY DEF Payloads
  <1>2. /\ Callers \in Seq(Frame) /\ Len(Callers) \in Nat /\ Len(Callers) > 0
        /\ Wants(c, Top)
    BY <1>1, TopTypes
  <1>3. c \in Frame /\ c.at \in {"reject", "require_ready"}
    <2>1. c.at \in {"reject", "require_ready"}
      BY <1>2 DEF Wants, Payloads, Tails, Primaries
    <2> QED BY <1>2, <2>1
  <1>4. [Callers EXCEPT ![Len(Callers)].first = x, ![Len(Callers)].count = y] = s
    BY <1>2
  <1> HIDE DEF c
  <1>5. g \in Frame /\ g.at = c.at
    BY <1>3, Changed
  <1> HIDE DEF g
  <1>6. f \in Frame /\ f.at = c.at
    BY <1>5, Changed
  <1> HIDE DEF f
  <1>7. Len(s) = Len(Callers) /\ s[Len(Callers)] = f
    BY <1>2, <1>6, ExceptSeq
  <1> HIDE DEF s
  <1>8. s[Len(s)].at \in {"reject", "require_ready"}
    BY <1>3, <1>6, <1>7
  <1> QED BY <1>4, <1>8

LEMMA GotoFalls ==
  ASSUME IInv, IInv', phase = "parse", NEW s, Goto(s),
         LET m == s[Len(s)].at
         IN \/ Top.at \in HandsOn /\ m \notin HandsOn
            \/ Top.at \in HandsOn /\ Len(s) = Len(stack) - 1
            \/ Top.at \notin HandsOn /\ m \notin HandsOn /\ Rank(m) < Rank(Top.at)
  PROVE  Falls
  <1>1. /\ stack' = s /\ depth' = depth
        /\ UNCHANGED <<phase, expressions, fields, arms>>
    BY DEF Goto
  <1>2. Top' = s[Len(s)]
    BY <1>1 DEF Top
  <1> QED BY <1>1, <1>2, MoveFalls

LEMMA EnterFalls ==
  ASSUME IInv, IInv', phase = "parse", NEW s, EnterNesting(s),
         Top.at \notin HandsOn, s[Len(s)].at \notin HandsOn
  PROVE  Falls
  <1>1. CASE Fail("A0-PARSE-0035")
    BY <1>1, StopFalls DEF Fail
  <1>2. CASE /\ depth' = depth + 1
             /\ stack' = s
             /\ UNCHANGED <<forms, phase, code, expressions, fields, arms>>
    <2>1. Top' = s[Len(s)]
      BY <1>2 DEF Top
    <2> QED BY <1>2, <2>1, MoveFalls
  <1> QED BY <1>1, <1>2 DEF EnterNesting

LEMMA AddFalls ==
  ASSUME IInv, IInv', phase = "parse", NEW e, NEW d, NEW s,
         add_expression(e, d, s)
  PROVE  Falls
  <1>1. CASE Fail("A0-PARSE-0030")
    BY <1>1, StopFalls DEF Fail
  <1>2. CASE /\ expressions' = Append(expressions, e)
             /\ UNCHANGED <<forms, phase, code, fields, arms>>
    <2>1. N' = N + 1
      BY <1>2, Counts, AppendProperties, LenProperties DEF N
    <2> QED BY <1>2, <2>1, StoreFalls DEF NF, NA
  <1> QED BY <1>1, <1>2 DEF add_expression

-----------------------------------------------------------------------------
(***************************************************************************)
(* The actions.                                                            *)
(***************************************************************************)
LEMMA LabelsFold ==
  /\ {"primary", "tail", "record", "payload", "payload_entry", "require",
      "require_ready", "match", "arms", "reject", "accept", "let", "if"}
       \cap HandsOn = {}
  /\ Rank("primary") = 1 /\ Rank("tail") = 2 /\ Rank("record") = 2
  /\ Rank("match") = 4 /\ Rank("payload") = 4 /\ Rank("payload_entry") = 5
  /\ Rank("require") = 6 /\ Rank("arms") = 3 /\ Rank("reject") = 3
  /\ Rank("require_ready") = 3 /\ Rank("let") = 3 /\ Rank("if") = 3
  /\ Rank("accept") = 3
  BY DEF HandsOn, Rank

LEMMA StoringFalls ==
  ASSUME IInv, IInv', Leaf \/ RecordClose \/ Project \/ Combine \/ MatchClose \/ Finish
  PROVE  Falls
  <1>1. phase = "parse"
    BY DEF Leaf, RecordClose, Project, Combine, MatchClose, Finish, Running
  <1>2. CASE Leaf
    BY <1>1, <1>2, AddFalls DEF Leaf
  <1>3. CASE RecordClose
    BY <1>1, <1>3, AddFalls DEF RecordClose
  <1>4. CASE Project
    BY <1>1, <1>4, AddFalls DEF Project
  <1>5. CASE Combine
    BY <1>1, <1>5, AddFalls DEF Combine
  <1>6. CASE MatchClose
    BY <1>1, <1>6, AddFalls DEF MatchClose
  <1>7. CASE Finish
    BY <1>1, <1>7, AddFalls DEF Finish
  <1> QED BY <1>2, <1>3, <1>4, <1>5, <1>6, <1>7

LEMMA EnteringFalls ==
  ASSUME IInv, IInv', OpenParen \/ OpenRecord \/ KernelTail
  PROVE  Falls
  <1>1. phase = "parse"
    BY DEF OpenParen, OpenRecord, KernelTail, Running
  <1>2. \A l \in Labels \ {"record_field", "payload_field", "arm"} : At(l) \in Frame
    BY AtFrame, Counts DEF FrameOK
  <1>3. CASE OpenParen
    <2> DEFINE s == Call(At("paren"), Value)
    <2>1. Top.at = "primary" /\ EnterNesting(s)
      BY <1>3 DEF OpenParen, Running
    <2>2. s[Len(s)].at = "primary"
      BY <1>2, TopAfterCall DEF Labels, Holders
    <2> HIDE DEF s
    <2> QED BY <1>1, <2>1, <2>2, LabelsFold, EnterFalls
  <1>4. CASE OpenRecord
    <2> DEFINE f == [At("record") EXCEPT !.first = Len(fields)]
               s == Call(f, <<>>)
    <2>1. Top.at = "primary" /\ EnterNesting(s)
      BY <1>4 DEF OpenRecord, Running
    <2>a. At("record") \in Frame
      BY <1>2 DEF Labels, Holders
    <2>2. f \in Frame /\ f.at = "record"
      BY <2>a, Changed, AtFields, Counts DEF NF
    <2> HIDE DEF f
    <2>3. s[Len(s)] = f
      BY <2>2, TopAfterCall
    <2> HIDE DEF s
    <2> QED BY <1>1, <2>1, <2>2, <2>3, LabelsFold, EnterFalls
  <1>5. ASSUME Top.at = "tail", NEW f \in Frame, EnterNesting(Call(f, Value))
        PROVE  Falls
    <2> DEFINE s == Call(f, Value)
    <2>1. s[Len(s)].at = "primary"
      BY TopAfterCall
    <2>2. EnterNesting(s)
      BY <1>5
    <2> HIDE DEF s
    <2> QED BY <1>1, <1>5, <2>1, <2>2, LabelsFold, EnterFalls
  <1>6. ASSUME Top.at = "tail", EnterNesting(Call(At("reject"), <<At("payload_entry")>>))
        PROVE  Falls
    <2> DEFINE s == Call(At("reject"), <<At("payload_entry")>>)
    <2>1. s[Len(s)].at = "payload_entry"
      BY <1>2, TopAfterCall DEF Labels, Holders
    <2>2. EnterNesting(s)
      BY <1>6
    <2> HIDE DEF s
    <2> QED BY <1>1, <1>6, <2>1, <2>2, LabelsFold, EnterFalls
  <1>7. CASE KernelTail
    <2>1. Top.at = "tail"
      BY <1>7 DEF KernelTail, Running
    <2>2. ASSUME NEW form \in {"let", "require", "accept", "if"},
                 EnterNesting(Call(At(form), Value))
          PROVE  Falls
      <3>1. At(form) \in Frame
        BY <1>2, <2>2 DEF Labels, Holders
      <3> QED BY <1>5, <2>1, <2>2, <3>1
    <2>3. ASSUME NEW v \in Variants,
                 EnterNesting(Call([At("match") EXCEPT !.variant = v], Value))
          PROVE  Falls
      <3>1. [At("match") EXCEPT !.variant = v] \in Frame
        BY <1>2, <2>3, Changed DEF Labels, Holders
      <3> QED BY <1>5, <2>1, <2>3, <3>1
    <2> QED BY <1>6, <1>7, <2>1, <2>2, <2>3 DEF KernelTail
  <1> QED BY <1>3, <1>4, <1>7

LEMMA HandingOnFalls ==
  ASSUME IInv, IInv', CloseParen \/ LevelDone
  PROVE  Falls
  <1>1. /\ phase = "parse" /\ Top.at \in HandsOn
        /\ Top.at \notin Payloads \cup {"body"} /\ Len(Top.children) = 1
        /\ stack' = Return(Top.children[1])
        /\ UNCHANGED <<phase, expressions, fields, arms>>
    <2>1. Ready(Top)
      BY TopTypes
    <2>2. CASE CloseParen
      BY <2>1, <2>2 DEF CloseParen, Running, HandsOn, Payloads, Ready
    <2>3. CASE LevelDone
      BY <2>3 DEF LevelDone, Goto, Returned, HandsOn, Payloads
    <2> QED BY <2>2, <2>3
  <1>2. Top.children[1] \in Nat
    BY <1>1, OperandOK, Counts
  <1>3. Len(Return(Top.children[1])) = Len(stack) - 1
    BY <1>1, <1>2, ReturnTop
  <1>4. Len(stack') = Len(stack) - 1
    BY <1>1, <1>3
  <1> QED BY <1>1, <1>4, MoveFalls

LEMMA OperatorFalls ==
  ASSUME IInv, IInv', Operator
  PROVE  Falls
  <1> DEFINE s == Call(Top, Operand(Top.at))
  <1>1. /\ phase = "parse" /\ Top.at \in {"compare", "and", "or"} /\ Goto(s)
    BY DEF Operator
  <1>2. s[Len(s)].at = "primary"
    <2>1. \A l \in {"or", "and", "compare"} :
            LET t == Call(Top, Operand(l)) IN t[Len(t)].at = "primary"
      BY TopAfterCall, TopTypes
    <2> QED BY <1>1, <2>1
  <1>3. Top.at \in HandsOn
    BY <1>1 DEF HandsOn
  <1> HIDE DEF s
  <1> QED BY <1>1, <1>2, <1>3, LabelsFold, GotoFalls

LEMMA FieldOpenFalls ==
  ASSUME IInv, IInv', FieldOpen
  PROVE  Falls
  <1>1. phase = "parse" /\ Top.at \in {"record", "payload"}
    BY DEF FieldOpen, InFields
  <1>2. CASE Fail("A0-PARSE-0036") \/ Fail("A0-PARSE-0037")
    BY <1>1, <1>2, StopFalls DEF Fail
  <1>3. ASSUME NEW n \in FieldNames, NEW l \in Labels,
               Goto(Call([Top EXCEPT !.name = n, !.at = l], Value))
        PROVE  Falls
    <2> DEFINE g == [Top EXCEPT !.name = n]
               f == [g EXCEPT !.at = l]
               s == Call(f, Value)
    <2>1. Goto(s)
      BY <1>3
    <2>2. g \in Frame
      BY TopTypes, Changed
    <2> HIDE DEF g
    <2>3. f \in Frame
      BY <2>2, Changed
    <2> HIDE DEF f
    <2>4. s[Len(s)].at = "primary"
      BY <2>3, TopAfterCall
    <2> HIDE DEF s
    <2> QED BY <1>1, <2>1, <2>4, LabelsFold, GotoFalls
  <1>4. ASSUME NEW n \in FieldNames,
               Goto(Call([Top EXCEPT !.name = n,
                                     !.at = IF Top.at = "record" THEN "record_field"
                                            ELSE "payload_field"], Value))
        PROVE  Falls
    <2> DEFINE l == IF Top.at = "record" THEN "record_field" ELSE "payload_field"
    <2>1. l \in Labels
      BY DEF Labels, Holders
    <2>2. Goto(Call([Top EXCEPT !.name = n, !.at = l], Value))
      BY <1>4
    <2> HIDE DEF l
    <2> QED BY <1>3, <2>1, <2>2
  <1> QED BY <1>2, <1>4 DEF FieldOpen

LEMMA ClosingFalls ==
  ASSUME IInv, IInv', FieldClose \/ ArmClose
  PROVE  Falls
  <1>1. phase = "parse"
    BY DEF FieldClose, ArmClose, Running
  <1>2. CASE phase' = "overrun"
    BY <1>1, <1>2, StopFalls
  <1>3. ASSUME NEW r, fields' = Append(fields, r),
               UNCHANGED <<phase, expressions, arms>>
        PROVE  Falls
    <2>1. NF' = NF + 1
      BY <1>3, Counts, AppendProperties, LenProperties DEF NF
    <2> QED BY <1>1, <1>3, <2>1, StoreFalls DEF N, NA
  <1>4. ASSUME NEW r, arms' = Append(arms, r),
               UNCHANGED <<phase, expressions, fields>>
        PROVE  Falls
    <2>1. NA' = NA + 1
      BY <1>4, Counts, AppendProperties, LenProperties DEF NA
    <2> QED BY <1>1, <1>4, <2>1, StoreFalls DEF N, NF
  <1>5. CASE FieldClose
    BY <1>2, <1>3, <1>5 DEF FieldClose
  <1>6. CASE ArmClose
    BY <1>2, <1>4, <1>6 DEF ArmClose
  <1> QED BY <1>5, <1>6

LEMMA PayloadFalls ==
  ASSUME IInv, IInv', PayloadAbsent \/ PayloadOpen \/ PayloadClose
  PROVE  Falls
  <1>1. phase = "parse"
    BY DEF PayloadAbsent, PayloadOpen, PayloadClose, Running
  <1>2. ASSUME NEW x \in Nat, NEW y \in Nat, Top.at \in {"payload_entry", "payload"},
               Goto([Callers EXCEPT ![Len(Callers)].first = x,
                                    ![Len(Callers)].count = y])
        PROVE  Falls
    <2> DEFINE s == [Callers EXCEPT ![Len(Callers)].first = x,
                                    ![Len(Callers)].count = y]
    <2>1. Goto(s)
      BY <1>2
    <2>2. s[Len(s)].at \in {"reject", "require_ready"}
      BY <1>2, PayloadTop DEF Payloads
    <2> HIDE DEF s
    <2> QED BY <1>1, <1>2, <2>1, <2>2, LabelsFold, GotoFalls
  <1>3. CASE PayloadAbsent
    <2>1. Top.at = "payload_entry" /\ 0 \in Nat /\ Len(fields) \in Nat
      BY <1>3, Counts DEF PayloadAbsent, Running, NF
    <2> QED BY <1>2, <1>3, <2>1 DEF PayloadAbsent
  <1>4. CASE PayloadClose
    <2>1. Top.at = "payload"
      BY <1>4 DEF PayloadClose, Running
    <2>2. Top.first \in Nat /\ Len(fields) - Top.first \in Nat
      BY <2>1, TopTypes, FrameFields, Counts DEF FrameOK, Fielders, NF
    <2> QED BY <1>2, <1>4, <2>1, <2>2 DEF PayloadClose
  <1>5. CASE PayloadOpen
    <2> DEFINE f == [At("payload") EXCEPT !.first = Len(fields)]
               s == Call(f, <<>>)
    <2>1. Top.at = "payload_entry" /\ Goto(s)
      BY <1>5 DEF PayloadOpen, Running
    <2>2. At("payload") \in Frame
      BY AtFrame, Counts DEF Labels, FrameOK
    <2>3. f \in Frame /\ f.at = "payload"
      BY <2>2, Changed, AtFields, Counts DEF NF
    <2> HIDE DEF f
    <2>4. s[Len(s)] = f
      BY <2>3, TopAfterCall
    <2> HIDE DEF s
    <2> QED BY <1>1, <2>1, <2>3, <2>4, LabelsFold, GotoFalls
  <1> QED BY <1>3, <1>4, <1>5

LEMMA MatchFalls ==
  ASSUME IInv, IInv', MatchOpen \/ ArmOpen
  PROVE  Falls
  <1>1. phase = "parse"
    BY DEF MatchOpen, ArmOpen, Running
  <1>2. CASE MatchOpen
    <2> DEFINE g == [Top EXCEPT !.at = "arms"]
               f == [g EXCEPT !.first = Len(arms)]
               s == Append(Callers, f)
    <2>1. Top.at = "match" /\ Goto(s)
      BY <1>2 DEF MatchOpen, Running
    <2>a. "arms" \in Labels
      BY DEF Labels, Holders
    <2>2. g \in Frame /\ g.at = "arms"
      BY <2>a, TopTypes, Changed
    <2> HIDE DEF g
    <2>3. f \in Frame /\ f.at = "arms"
      BY <2>2, Changed, Counts DEF NA
    <2> HIDE DEF f
    <2>4. s[Len(s)] = f
      BY <2>3, TopAfterCall
    <2> HIDE DEF s
    <2> QED BY <1>1, <2>1, <2>3, <2>4, LabelsFold, GotoFalls
  <1>3. ASSUME Top.at = "arms", NEW c \in CaseNames,
               Goto(Call([Top EXCEPT !.at = "arm", !.name = c], <<At("tail")>>))
        PROVE  Falls
    <2> DEFINE g == [Top EXCEPT !.at = "arm"]
               f == [g EXCEPT !.name = c]
               s == Call(f, <<At("tail")>>)
    <2>1. Goto(s)
      BY <1>3
    <2>2. g \in Frame
      BY TopTypes, Changed DEF Labels, Holders
    <2> HIDE DEF g
    <2>3. f \in Frame
      BY <2>2, Changed
    <2> HIDE DEF f
    <2>4. s[Len(s)].at = "tail"
      BY <2>3, TopAfterCall
    <2> HIDE DEF s
    <2> QED BY <1>1, <1>3, <2>1, <2>4, LabelsFold, GotoFalls
  <1>4. CASE ArmOpen
    <2>1. CASE Fail("A0-PARSE-0040")
      BY <1>1, <2>1, StopFalls DEF Fail
    <2> QED BY <1>3, <1>4, <2>1 DEF ArmOpen, Running
  <1> QED BY <1>2, <1>4

LEMMA TailFalls ==
  ASSUME IInv, IInv', RequirePayload \/ Continue
  PROVE  Falls
  <1>1. phase = "parse"
    BY DEF RequirePayload, Continue, Running
  <1>2. CASE RequirePayload
    <2> DEFINE f == [Top EXCEPT !.at = "require_ready"]
               s == Call(f, <<At("payload_entry")>>)
    <2>1. Top.at = "require" /\ Goto(s)
      BY <1>2 DEF RequirePayload, Running
    <2>2. f \in Frame
      BY TopTypes, Changed DEF Labels, Holders
    <2> HIDE DEF f
    <2>3. s[Len(s)].at = "payload_entry"
      BY <2>2, TopAfterCall
    <2> HIDE DEF s
    <2> QED BY <1>1, <2>1, <2>3, LabelsFold, GotoFalls
  <1>3. CASE Continue
    <2> DEFINE s == Call(Top, <<At("tail")>>)
    <2>1. Top.at \in {"let", "require_ready", "if", "accept", "reject"} /\ Goto(s)
      BY <1>3 DEF Continue, TailLabels
    <2>2. s[Len(s)].at = "tail"
      BY TopTypes, TopAfterCall
    <2> HIDE DEF s
    <2> QED BY <1>1, <2>1, <2>2, LabelsFold, GotoFalls
  <1> QED BY <1>2, <1>3

LEMMA EndingFalls ==
  ASSUME IInv, BodyClose \/ SyntaxError
  PROVE  Falls
  BY StopFalls DEF BodyClose, SyntaxError, Fail, Running

(***************************************************************************)
(* parse_kernel_body takes no more than MostWork calls, returns and loop   *)
(* iterations, however long the source: every step leaves less to do, and  *)
(* there is never more to do than that.  So a parse ends with the source   *)
(* read, a diagnostic or an arena overrun.                                 *)
(***************************************************************************)
ParseIsBounded ==
  /\ [](Work \in 0..MostWork)
  /\ [][Work' \in 0..(Work - 1)]_vars

THEOREM ParseBounded == Spec => ParseIsBounded
  <1>1. ASSUME IInv, IInv', Next
        PROVE  Falls
    BY <1>1, StoringFalls, EnteringFalls, HandingOnFalls, OperatorFalls,
       FieldOpenFalls, ClosingFalls, PayloadFalls, MatchFalls, TailFalls,
       EndingFalls DEF Next
  <1>2. IInv /\ IInv' /\ [Next]_vars => [Work' \in 0..(Work - 1)]_vars
    BY <1>1 DEF Falls
  <1>3. IInv => Work \in 0..MostWork
    BY WorkBounds
  <1> QED BY <1>2, <1>3, Invariance, PTL DEF Spec, ParseIsBounded
=============================================================================
