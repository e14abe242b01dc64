------------------------ MODULE TypeTableMeaningProofs ------------------------
(***************************************************************************)
(* What a reference resolves to is what it means, what is measured is how  *)
(* wide it is, and a measurement that fails has a reason.                  *)
(*                                                                         *)
(* A reading of a module gives every name and reference its meaning, width *)
(* and depth, by equations that hold of any fixed point; a reading of the  *)
(* table gives them to the entries.  The invariant says, for every         *)
(* reading, what each frame has found out so far and what the frame below  *)
(* it waits for.  The second half of the module is about the definitions   *)
(* of TypeTable alone: the iterations of Meaning, NameBits and NameDepth   *)
(* end in fixed points, which are a reading, and Denotation is one of the  *)
(* table.                                                                  *)
(***************************************************************************)
EXTENDS TypeTableRingProofs, SequenceTheorems

-----------------------------------------------------------------------------
(***************************************************************************)
(* Readings.  x.name, x.nameBits and x.nameDepth are of names, x.meaning,  *)
(* x.bits and x.depth of references, x.declBits and x.declDepth of         *)
(* declarations; x.sum adds up the fields of a case and x.rank orders the  *)
(* aliases that mean something.                                            *)
(***************************************************************************)
RefRead(x, r) ==
  /\ r.form = "named" =>
       /\ x.meaning[r] = x.name[r.names[1]]
       /\ x.bits[r] = x.nameBits[r.names[1]]
       /\ x.depth[r] = x.nameDepth[r.names[1]]
  /\ r.form = "applied" /\ Len(r.names) = 2 =>
       /\ x.meaning[r] =
            IF x.name[r.names[1]] = Nothing \/ x.name[r.names[2]] = Nothing THEN Nothing
            ELSE <<"decision", x.name[r.names[1]], x.name[r.names[2]]>>
       /\ x.bits[r] = Capped(1 + Larger(x.nameBits[r.names[1]], x.nameBits[r.names[2]]))
       /\ x.depth[r] = Within(1 + Larger(x.nameDepth[r.names[1]], x.nameDepth[r.names[2]]))
  /\ r.form = "applied" /\ Len(r.names) # 2 => x.meaning[r] = Nothing /\ x.bits[r] = Beyond
  /\ r.form \in {"bytes", "digest"} /\ r.length = 0 =>
       x.meaning[r] = Nothing /\ x.bits[r] = Beyond
  /\ r.form \in {"bytes", "digest"} /\ r.length # 0 =>
       /\ x.meaning[r] = <<r.form, r.length>>
       /\ x.bits[r] = Capped(8 * r.length)
       /\ x.depth[r] = 1

NameRead(m, x, n) ==
  /\ x.nameBits[n] \in 0..Beyond
  /\ x.nameDepth[n] \in 1..TooDeep
  /\ x.name[n] = Nothing => x.nameBits[n] = Beyond
  /\ n \notin Builtin /\ (\A d \in Index : m[d].name # n) => x.name[n] = Nothing
  /\ n \in Builtin /\ Leads(m, {n}) = {} =>
       x.name[n] = <<"base", n>> /\ x.nameBits[n] = Widths[n] /\ x.nameDepth[n] = 1

CaseRead(m, x, d, c) ==
  /\ x.sum[d][c][0] = 0
  /\ \A k \in 1..Len(m[d].cases[c]) :
       x.sum[d][c][k] = x.sum[d][c][k - 1] + x.bits[m[d].cases[c][k]]

CaseSum(m, x, d, c) == x.sum[d][c][Len(m[d].cases[c])]

\* w is the widest of the first n cases.
IsWidest(m, x, d, n, w) ==
  /\ \A c \in 1..n : CaseSum(m, x, d, c) <= w
  /\ w = 0 \/ \E c \in 1..n : CaseSum(m, x, d, c) = w

WidthRead(m, x, d) ==
  /\ \A c \in 1..Len(m[d].cases) : CaseRead(m, x, d, c)
  /\ \E w \in Nat : /\ IsWidest(m, x, d, Len(m[d].cases), w)
                    /\ x.declBits[d] = Capped(m[d].tag + w)

DeclarationRead(m, x, d) ==
  /\ WidthRead(m, x, d)
  /\ x.declDepth[d] \in 2..TooDeep
  /\ \A c \in 1..Len(m[d].cases) : \A k \in 1..Len(m[d].cases[c]) :
       x.declDepth[d] = TooDeep \/ 2 + x.depth[m[d].cases[c][k]] <= x.declDepth[d]
  /\ m[d].kind = "alias" =>
       /\ x.name[m[d].name] = x.meaning[m[d].cases[1][1]]
       /\ x.nameBits[m[d].name] = x.bits[m[d].cases[1][1]]
       /\ x.nameDepth[m[d].name] = x.depth[m[d].cases[1][1]]
  /\ m[d].kind # "alias" /\ m[d].name \notin Builtin =>
       /\ x.name[m[d].name] = <<"declared", d>>
       /\ x.nameBits[m[d].name] = x.declBits[d]
       /\ x.nameDepth[m[d].name] = x.declDepth[d]

Ranked(m, x, d) ==
  m[d].kind = "alias" /\ x.name[m[d].name] # Nothing =>
    \A n \in Onward(m, d) : x.rank[n] < x.rank[m[d].name]

Reading(m, x) ==
  /\ \A r \in Ref : RefRead(x, r)
  /\ \A n \in Nat : NameRead(m, x, n) /\ x.rank[n] \in Nat
  /\ \A d \in Index : DeclarationRead(m, x, d) /\ Ranked(m, x, d)

\* The same of the entries of a table.
EntryRead(tab, x, y, t) ==
  /\ tab[t].kind = "base" =>
       /\ y.meaning[t] = <<"base", tab[t].a>>
       /\ y.bits[t] = Widths[tab[t].a]
       /\ y.depth[t] = 1
  /\ tab[t].kind \in {"bytes", "digest"} =>
       /\ y.meaning[t] = <<tab[t].kind, tab[t].a>>
       /\ y.bits[t] = Capped(8 * tab[t].a)
       /\ y.depth[t] = 1
  /\ tab[t].kind = "declared" =>
       /\ y.meaning[t] = <<"declared", tab[t].a>>
       /\ y.bits[t] = x.declBits[tab[t].a]
       /\ y.depth[t] = x.declDepth[tab[t].a]
  /\ tab[t].kind = "decision" =>
       /\ y.meaning[t] = <<"decision", y.meaning[tab[t].a], y.meaning[tab[t].b]>>
       /\ y.bits[t] = Capped(1 + Larger(y.bits[tab[t].a], y.bits[tab[t].b]))
       /\ y.depth[t] = Within(1 + Larger(y.depth[tab[t].a], y.depth[tab[t].b]))

TableReading(tab, x, y) == \A t \in 1..Len(tab) : EntryRead(tab, x, y, t)

(***************************************************************************)
(* What v says as the result of a resolution, of measuring the type t and  *)
(* of measuring the body of the declaration d.                             *)
(***************************************************************************)
Full(tab) == Len(tab) = Capacity

Finds(tab, y, v, meaning) ==
  /\ v = Invalid => meaning = Nothing \/ Full(tab)
  /\ v # Invalid => v \in 1..Len(tab) /\ y.meaning[v] = meaning

Measures(tab, y, t, depth, v) ==
  /\ v = Invalid => y.bits[t] = Beyond \/ Full(tab) \/ depth + y.depth[t] > MaxDepth
  /\ v # Invalid => v = y.bits[t] /\ v <= WordMax

MeasuresBody(tab, x, d, depth, v) ==
  /\ v = Invalid => \/ x.declBits[d] = Beyond \/ Full(tab)
                    \/ depth + x.declDepth[d] > MaxDepth + 1
  /\ v # Invalid => v = x.declBits[d] /\ v <= WordMax

Used(m, r) ==
  \E d \in Index : \E c \in 1..Len(m[d].cases) : \E k \in 1..Len(m[d].cases[c]) :
    r = m[d].cases[c][k]

(***************************************************************************)
(* What a frame has found out.                                             *)
(***************************************************************************)
ResolveTells(m, tab, x, y, f) ==
  /\ Used(m, f.subject)
  /\ \A j \in 1..Len(f.got) : Finds(tab, y, f.got[j], x.name[f.subject.names[j]])

ExpandTells(m, x, f) ==
  x.name[f.subject] = Nothing \/ f.depth + Room(m, {f.subject}) < Count

ValueTells(tab, x, y, f) ==
  /\ f.got # <<>> /\ tab[f.subject].kind = "decision" =>
       /\ Measures(tab, y, tab[f.subject].a, f.depth + 1, f.got[1])
       /\ Len(f.got) = 2 => Measures(tab, y, tab[f.subject].b, f.depth + 1, f.got[2])
  /\ f.got # <<>> /\ tab[f.subject].kind = "declared" =>
       MeasuresBody(tab, x, tab[f.subject].a, f.depth + 1, f.got[1])

DeclaredTells(m, tab, x, y, f) ==
  /\ f.case <= Len(m[f.subject].cases) =>
       /\ f.field <= Len(m[f.subject].cases[f.case]) + 1
       /\ f.payload = x.sum[f.subject][f.case][f.field - 1]
  /\ f.case <= Len(m[f.subject].cases) + 1
  /\ IsWidest(m, x, f.subject, f.case - 1, f.widest)
  /\ f.got # <<>> => Finds(tab, y, f.got[1], x.meaning[FieldAt(m, f)])
  /\ Len(f.got) = 2 => Measures(tab, y, f.got[1], f.depth + 1, f.got[2])

ModuleTells(m, tab, x, y, f) ==
  f.subject < Count =>
    /\ f.got # <<>> /\ InField(m, f) => Finds(tab, y, f.got[1], x.meaning[FieldAt(m, f)])
    /\ m[f.subject].kind = "alias" /\ f.case + f.field > 2 => Len(tab) >= 1
    /\ f.got # <<>> /\ Through(m, f) /\ m[f.subject].kind = "alias" =>
         Measures(tab, y, 1, 0, f.got[1])
    /\ f.got # <<>> /\ Through(m, f) /\ m[f.subject].kind # "alias" =>
         MeasuresBody(tab, x, f.subject, 1, f.got[1])

Tells(m, tab, x, y, f) ==
  /\ f.op = "resolve" => ResolveTells(m, tab, x, y, f)
  /\ f.op = "expand" => ExpandTells(m, x, f)
  /\ f.op = "value" => ValueTells(tab, x, y, f)
  /\ f.op = "declared" => DeclaredTells(m, tab, x, y, f)
  /\ f.op = "module" => ModuleTells(m, tab, x, y, f)

(***************************************************************************)
(* What f needs of g, beyond what Waits says.                              *)
(***************************************************************************)
Wanted(x, g) == IF g.op = "expand" THEN x.name[g.subject] ELSE x.meaning[g.subject]

Needs(m, tab, x, f, g) ==
  /\ g.op \in Resolving /\ f.op = "resolve" =>
       Wanted(x, g) = x.name[f.subject.names[Len(f.got) + 1]]
  /\ g.op \in Resolving /\ f.op \in {"declared", "module"} =>
       Wanted(x, g) = x.meaning[FieldAt(m, f)]
  /\ g.op \in {"value", "declared"} /\ f.op \in {"value", "declared"} =>
       g.depth = f.depth + 1
  /\ g.op = "value" /\ f.op = "module" =>
       /\ g.depth = 0
       /\ m[f.subject].kind = "alias" => g.subject = 1 /\ Len(tab) >= 1

Replies(tab, x, y, g, v) ==
  /\ g.op \in Resolving => Finds(tab, y, v, Wanted(x, g))
  /\ g.op = "value" => Measures(tab, y, g.subject, g.depth, v)
  /\ g.op = "declared" => MeasuresBody(tab, x, g.subject, g.depth, v)

Telling(m, tab, x, y, s) ==
  /\ \A k \in 1..Len(s) : Tells(m, tab, x, y, s[k])
  /\ \A k \in 1..(Len(s) - 1) : Needs(m, tab, x, s[k], s[k + 1])

\* Octets are of a length some reference has.
OctetsUsed(m, tab) ==
  \A t \in 1..Len(tab) : tab[t].kind \in {"bytes", "digest"} =>
    \E r \in Ref : Used(m, r) /\ r.form = tab[t].kind /\ r.length = tab[t].a

\* Why a width may be refused.
Excused(m, tab, x) ==
  \/ \E d \in Index : x.declBits[d] = Beyond
  \/ \E d \in Index : m[d].kind # "alias" /\ x.declDepth[d] = TooDeep
  \/ Full(tab)

TellInv ==
  \A x, y : Reading(module, x) /\ TableReading(table, x, y) =>
    /\ OctetsUsed(module, table)
    /\ Telling(module, table, x, y, stack)
    /\ code = "A0-CHECK-0013" => Excused(module, table, x)

-----------------------------------------------------------------------------
(***************************************************************************)
(* What a frame tells outlives the growth of the table.                    *)
(***************************************************************************)
LEMMA ReadingShrinks ==
  ASSUME NEW tab, TableOK(tab), NEW new, Len(new) \in Nat, Grown(tab, new),
         NEW x, NEW y, TableReading(new, x, y)
  PROVE  TableReading(tab, x, y)
  <1> SUFFICES ASSUME NEW t \in 1..Len(tab) PROVE EntryRead(tab, x, y, t)
    BY DEF TableReading
  <1>1. t \in 1..Len(new) /\ new[t] = tab[t]
    BY DEF TableOK, Grown
  <1>2. EntryRead(new, x, y, t)
    BY <1>1 DEF TableReading
  <1> QED BY <1>1, <1>2 DEF EntryRead

LEMMA FullGrows ==
  ASSUME NEW tab, TableOK(tab), NEW new, TableOK(new), Grown(tab, new)
  PROVE  /\ Full(tab) => Full(new)
         /\ Len(tab) \in Nat /\ Len(new) \in Nat /\ 1..Len(tab) \subseteq 1..Len(new)
  BY ConstantTypes DEF Full, TableOK, Grown

LEMMA TellsGrows ==
  ASSUME NEW m, NEW tab, TableOK(tab), NEW new, TableOK(new), Grown(tab, new),
         NEW x, NEW y, NEW f, f.got \in Seq(Values), Knows(m, tab, f), Tells(m, tab, x, y, f)
  PROVE  Tells(m, new, x, y, f)
  <1>1. ASSUME NEW v, NEW meaning, Finds(tab, y, v, meaning)
        PROVE  Finds(new, y, v, meaning)
    BY <1>1, FullGrows DEF Finds
  <1>2. ASSUME NEW t, NEW depth, NEW v, Measures(tab, y, t, depth, v)
        PROVE  Measures(new, y, t, depth, v)
    BY <1>2, FullGrows DEF Measures
  <1>3. ASSUME NEW d, NEW depth, NEW v, MeasuresBody(tab, x, d, depth, v)
        PROVE  MeasuresBody(new, x, d, depth, v)
    BY <1>3, FullGrows DEF MeasuresBody
  <1>4. ASSUME f.op = "resolve" PROVE ResolveTells(m, new, x, y, f)
    BY <1>1, <1>4 DEF Tells, ResolveTells
  <1>5. ASSUME f.op = "value" PROVE ValueTells(new, x, y, f)
    <2>1. ValueTells(tab, x, y, f)
      BY <1>5 DEF Tells
    <2>2. f.got # <<>> => new[f.subject] = tab[f.subject]
      BY <1>5 DEF Knows, ValueKnows, Grown
    <2> QED BY <1>2, <1>3, <2>1, <2>2 DEF ValueTells
  <1>6. ASSUME f.op = "declared" PROVE DeclaredTells(m, new, x, y, f)
    BY <1>1, <1>2, <1>6 DEF Tells, DeclaredTells
  <1>7. ASSUME f.op = "module" PROVE ModuleTells(m, new, x, y, f)
    <2>1. ModuleTells(m, tab, x, y, f) /\ (Len(tab) >= 1 => Len(new) >= 1)
      BY <1>7, FullGrows DEF Tells, Grown
    <2> QED BY <1>1, <1>2, <1>3, <2>1 DEF ModuleTells
  <1> QED BY <1>4, <1>5, <1>6, <1>7 DEF Tells

LEMMA TellingGrows ==
  ASSUME NEW m, NEW tab, TableOK(tab), NEW new, TableOK(new), Grown(tab, new),
         NEW x, NEW y, NEW s, StackOK(s, Len(tab)), Knowing(m, tab, s),
         Telling(m, tab, x, y, s)
  PROVE  Telling(m, new, x, y, s)
  <1>1. \A k \in 1..Len(s) : s[k].got \in Seq(Values) /\ Knows(m, tab, s[k])
    BY DEF StackOK, FrameOK, AnyFrame, Knowing
  <1>2. \A k \in 1..Len(s) : Tells(m, new, x, y, s[k])
    BY <1>1, TellsGrows DEF Telling
  <1>3. Len(tab) >= 1 => Len(new) >= 1
    BY FullGrows DEF Grown
  <1>4. ASSUME NEW f, NEW g, Needs(m, tab, x, f, g) PROVE Needs(m, new, x, f, g)
    BY <1>3, <1>4 DEF Needs
  <1> QED BY <1>2, <1>4 DEF Telling

-----------------------------------------------------------------------------
(***************************************************************************)
(* What a caller makes of a reply.                                         *)
(***************************************************************************)
LEMMA ReadTypes ==
  ASSUME NEW m, NEW x, Reading(m, x), NEW d \in Index
  PROVE  x.declDepth[d] \in Nat
  <1>1. TooDeep \in Nat
    BY ConstantTypes DEF TooDeep
  <1> QED BY <1>1 DEF Reading, DeclarationRead

LEMMA ResolveTold ==
  ASSUME NEW m, NEW tab, NEW x, NEW y, NEW n, NEW f, FrameOK(f, n), NEW g,
         NEW v \in Values, NEW r, r = [f EXCEPT !.got = Append(@, v)],
         f.op = "resolve", g.op \in Ops, g.op # "module",
         Waits(m, tab, f, g), Tells(m, tab, x, y, f), Needs(m, tab, x, f, g),
         Replies(tab, x, y, g, v)
  PROVE  Tells(m, tab, x, y, r)
  <1>1. g.op \in Resolving
    BY DEF Waits, WaitsValue, WaitsDeclared, Ops, Resolving
  <1>2. Finds(tab, y, v, x.name[f.subject.names[Len(f.got) + 1]])
    BY <1>1 DEF Needs, Replies
  <1>3. ResolveTells(m, tab, x, y, f)
    BY DEF Tells
  <1>4. ASSUME NEW j \in 1..Len(r.got)
        PROVE  Finds(tab, y, r.got[j], x.name[r.subject.names[j]])
    <2>1. CASE j = Len(f.got) + 1
      BY <1>2, <2>1, Answered
    <2>2. CASE j # Len(f.got) + 1
      <3>1. j \in 1..Len(f.got) /\ r.got[j] = f.got[j] /\ r.subject = f.subject
        BY <2>2, Answered
      <3> QED BY <1>3, <3>1 DEF ResolveTells
    <2> QED BY <2>1, <2>2
  <1>5. r.subject = f.subject /\ r.op = "resolve"
    BY Answered
  <1>6. ResolveTells(m, tab, x, y, r)
    BY <1>3, <1>4, <1>5 DEF ResolveTells
  <1> QED BY <1>5, <1>6 DEF Tells

LEMMA ValueTold ==
  ASSUME NEW m, NEW tab, NEW x, NEW y, NEW n, NEW f, FrameOK(f, n), NEW g,
         NEW v \in Values, NEW r, r = [f EXCEPT !.got = Append(@, v)],
         f.op = "value", g.op \in Ops, g.op # "module",
         Waits(m, tab, f, g), Tells(m, tab, x, y, f), Needs(m, tab, x, f, g),
         Replies(tab, x, y, g, v)
  PROVE  Tells(m, tab, x, y, r)
  <1>1. /\ r.subject = f.subject /\ r.op = "value" /\ r.depth = f.depth
        /\ Len(r.got) = Len(f.got) + 1 /\ Len(f.got) \in Nat
        /\ r.got[Len(f.got) + 1] = v /\ (f.got = <<>> <=> Len(f.got) = 0)
        /\ \A j \in 1..Len(f.got) : r.got[j] = f.got[j]
    BY Answered
  <1>2. ValueTells(tab, x, y, f) /\ (g.op \in {"value", "declared"} => g.depth = f.depth + 1)
    BY DEF Tells, Needs
  <1>3. CASE g.op = "value"
    <2>1. /\ tab[f.subject].kind = "decision"
          /\ \/ f.got = <<>> /\ g.subject = tab[f.subject].a
             \/ Len(f.got) = 1 /\ g.subject = tab[f.subject].b
      BY <1>3 DEF Waits, WaitsValue
    <2>2. Measures(tab, y, g.subject, f.depth + 1, v)
      BY <1>2, <1>3 DEF Replies
    <2>3. CASE f.got = <<>> /\ g.subject = tab[f.subject].a
      <3>1. Len(r.got) = 1 /\ r.got[1] = v
        BY <1>1, <2>3
      <3>2. ValueTells(tab, x, y, r)
        BY <1>1, <2>1, <2>2, <2>3, <3>1 DEF ValueTells
      <3> QED BY <1>1, <3>2 DEF Tells
    <2>4. CASE Len(f.got) = 1 /\ g.subject = tab[f.subject].b
      <3>1. Len(r.got) = 2 /\ r.got[2] = v /\ r.got[1] = f.got[1] /\ f.got # <<>>
        BY <1>1, <2>4
      <3>2. Measures(tab, y, tab[f.subject].a, f.depth + 1, f.got[1])
        BY <1>2, <2>1, <3>1 DEF ValueTells
      <3>3. ValueTells(tab, x, y, r)
        BY <1>1, <2>1, <2>2, <2>4, <3>1, <3>2 DEF ValueTells
      <3> QED BY <1>1, <3>3 DEF Tells
    <2> QED BY <2>1, <2>3, <2>4
  <1>4. CASE g.op = "declared"
    <2>1. tab[f.subject].kind = "declared" /\ f.got = <<>> /\ g.subject = tab[f.subject].a
      BY <1>4 DEF Waits, WaitsDeclared
    <2>2. MeasuresBody(tab, x, g.subject, f.depth + 1, v)
      BY <1>2, <1>4 DEF Replies
    <2>3. Len(r.got) = 1 /\ r.got[1] = v
      BY <1>1, <2>1
    <2>4. ValueTells(tab, x, y, r)
      BY <1>1, <2>1, <2>2, <2>3 DEF ValueTells
    <2> QED BY <1>1, <2>4 DEF Tells
  <1>5. g.op \notin Resolving
    BY DEF Waits, WaitsType
  <1> QED BY <1>3, <1>4, <1>5 DEF Ops, Resolving

LEMMA DeclaredTold ==
  ASSUME NEW m, NEW tab, NEW x, NEW y, NEW n, NEW f, FrameOK(f, n), NEW g,
         NEW v \in Values, NEW r, r = [f EXCEPT !.got = Append(@, v)],
         f.op = "declared", g.op \in Ops, g.op # "module",
         Waits(m, tab, f, g), Tells(m, tab, x, y, f), Needs(m, tab, x, f, g),
         Replies(tab, x, y, g, v)
  PROVE  Tells(m, tab, x, y, r)
  <1>1. /\ r.subject = f.subject /\ r.op = "declared" /\ r.depth = f.depth
        /\ r.case = f.case /\ r.field = f.field
        /\ Len(r.got) = Len(f.got) + 1 /\ Len(f.got) \in Nat
        /\ r.got[Len(f.got) + 1] = v /\ (f.got = <<>> <=> Len(f.got) = 0)
        /\ \A j \in 1..Len(f.got) : r.got[j] = f.got[j]
    BY Answered
  <1>2. r.payload = f.payload /\ r.widest = f.widest
    BY DEF FrameOK, AnyFrame
  <1>3. DeclaredTells(m, tab, x, y, f) /\ FieldAt(m, r) = FieldAt(m, f)
    BY <1>1 DEF Tells, FieldAt
  <1>4. \/ /\ Len(r.got) = 1
           /\ Finds(tab, y, r.got[1], x.meaning[FieldAt(m, f)])
        \/ /\ Len(r.got) = 2 /\ Finds(tab, y, r.got[1], x.meaning[FieldAt(m, f)])
           /\ Measures(tab, y, r.got[1], f.depth + 1, r.got[2])
    <2>1. CASE g.op \in Resolving
      <3>1. f.got = <<>> /\ Finds(tab, y, v, x.meaning[FieldAt(m, f)])
        BY <2>1 DEF Waits, WaitsType, Needs, Replies
      <3> QED BY <1>1, <3>1
    <2>2. CASE g.op = "value"
      <3>1. /\ Len(f.got) = 1 /\ g.subject = f.got[1]
            /\ Measures(tab, y, g.subject, f.depth + 1, v)
        BY <2>2 DEF Waits, WaitsValue, Needs, Replies
      <3>2. Len(r.got) = 2 /\ r.got[2] = v /\ r.got[1] = f.got[1] /\ f.got # <<>>
        BY <1>1, <3>1
      <3> QED BY <1>3, <3>1, <3>2 DEF DeclaredTells
    <2>3. g.op # "declared"
      BY DEF Waits, WaitsDeclared
    <2> QED BY <2>1, <2>2, <2>3 DEF Ops, Resolving
  <1>5. DeclaredTells(m, tab, x, y, r)
    BY <1>1, <1>2, <1>3, <1>4 DEF DeclaredTells
  <1> QED BY <1>1, <1>5 DEF Tells

LEMMA ModuleTold ==
  ASSUME NEW m, NEW tab, NEW x, NEW y, Reading(m, x), TableReading(tab, x, y),
         NEW n, NEW f, FrameOK(f, n), NEW g,
         NEW v \in Values, NEW r, r = [f EXCEPT !.got = Append(@, v)],
         f.op = "module", g.op \in Ops, g.op # "module",
         Waits(m, tab, f, g), Tells(m, tab, x, y, f), Needs(m, tab, x, f, g),
         Replies(tab, x, y, g, v)
  PROVE  Tells(m, tab, x, y, r)
  <1>1. /\ r.subject = f.subject /\ r.op = "module" /\ r.case = f.case /\ r.field = f.field
        /\ Len(r.got) = Len(f.got) + 1 /\ Len(f.got) \in Nat
        /\ r.got[Len(f.got) + 1] = v /\ (f.got = <<>> <=> Len(f.got) = 0)
    BY Answered
  <1>2. /\ ModuleTells(m, tab, x, y, f) /\ FieldAt(m, r) = FieldAt(m, f)
        /\ (InField(m, r) <=> InField(m, f)) /\ (Through(m, r) <=> Through(m, f))
    BY <1>1 DEF Tells, FieldAt, InField, Through
  <1>3. f.got = <<>> /\ f.subject < Count
    BY DEF Waits, WaitsType, WaitsValue, WaitsDeclared, Ops, Resolving
  <1>4. Len(r.got) = 1 /\ r.got[1] = v
    BY <1>1, <1>3
  <1>5. InField(m, f) => ~Through(m, f)
    BY DEF InField, Through, FrameOK, AnyFrame
  <1>6. CASE g.op \in Resolving
    <2>1. InField(m, f) /\ Finds(tab, y, v, x.meaning[FieldAt(m, f)])
      BY <1>6 DEF Waits, WaitsType, Needs, Replies
    <2>2. ModuleTells(m, tab, x, y, r)
      BY <1>1, <1>2, <1>4, <1>5, <2>1 DEF ModuleTells
    <2> QED BY <1>1, <2>2 DEF Tells
  <1>7. CASE g.op = "value"
    <2>1. /\ Through(m, f) /\ g.depth = 0 /\ Measures(tab, y, g.subject, 0, v)
          /\ m[f.subject].kind = "alias" => g.subject = 1
      BY <1>7 DEF Waits, WaitsValue, Needs, Replies
    <2>2. ASSUME m[f.subject].kind # "alias"
          PROVE  MeasuresBody(tab, x, f.subject, 1, v)
      <3>1. g.subject \in 1..Len(tab) /\ tab[g.subject] = Declared(f.subject)
        BY <1>7, <2>2 DEF Waits, WaitsValue
      <3>2. tab[g.subject].kind = "declared" /\ tab[g.subject].a = f.subject
        BY <3>1 DEF Declared
      <3>3. EntryRead(tab, x, y, g.subject)
        BY <3>1 DEF TableReading
      <3>4. y.bits[g.subject] = x.declBits[f.subject]
            /\ y.depth[g.subject] = x.declDepth[f.subject]
        BY <3>2, <3>3 DEF EntryRead
      <3>5. f.subject \in Index
        BY <1>3, ConstantTypes DEF FrameOK, SubjectOK, Index
      <3>6. x.declDepth[f.subject] \in Nat
        BY <3>5, ReadTypes
      <3> QED BY <2>1, <3>4, <3>6, ConstantTypes DEF Measures, MeasuresBody
    <2>3. ModuleTells(m, tab, x, y, r)
      BY <1>1, <1>2, <1>4, <1>5, <2>1, <2>2 DEF ModuleTells
    <2> QED BY <1>1, <2>3 DEF Tells
  <1> QED BY <1>6, <1>7 DEF Waits, WaitsDeclared, Ops, Resolving

LEMMA CallerTells ==
  ASSUME NEW m, NEW tab, NEW x, NEW y, Reading(m, x), TableReading(tab, x, y),
         NEW n, NEW f, FrameOK(f, n), NEW g, NEW v \in Values,
         g.op \in Ops, g.op # "module", Waits(m, tab, f, g),
         Tells(m, tab, x, y, f), Needs(m, tab, x, f, g), Replies(tab, x, y, g, v)
  PROVE  Tells(m, tab, x, y, [f EXCEPT !.got = Append(@, v)])
  <1>1. f.op \in {"resolve", "value", "declared", "module"}
    <2>1. f.op \in Ops
      BY DEF FrameOK, AnyFrame
    <2>2. f.op # "expand"
      BY DEF Waits, WaitsType, WaitsValue, WaitsDeclared, Ops, Resolving
    <2> QED BY <2>1, <2>2 DEF Ops
  <1> QED BY <1>1, ResolveTold, ValueTold, DeclaredTold, ModuleTold


-----------------------------------------------------------------------------
(***************************************************************************)
(* The stack.                                                              *)
(***************************************************************************)
LEMMA SameNeeded ==
  ASSUME NEW m, NEW tab, NEW x, NEW f, NEW g, NEW h, Needs(m, tab, x, f, g),
         h.op = g.op, h.subject = g.subject, h.depth = g.depth
  PROVE  Needs(m, tab, x, f, h)
  BY DEF Needs, Wanted

LEMMA TellingBecomes ==
  ASSUME NEW m, NEW tab, NEW x, NEW y, NEW s, s \in Seq(AnyFrame), Len(s) >= 1,
         Telling(m, tab, x, y, s), NEW f, Tells(m, tab, x, y, f),
         Len(s) > 1 => Needs(m, tab, x, s[Len(s) - 1], f)
  PROVE  Telling(m, tab, x, y, [s EXCEPT ![Len(s)] = f])
  <1> DEFINE t == [s EXCEPT ![Len(s)] = f]
  <1>1. /\ Len(s) \in Nat /\ Len(t) = Len(s) /\ t[Len(s)] = f
        /\ \A k \in 1..Len(s) : k # Len(s) => t[k] = s[k]
    OBVIOUS
  <1> HIDE DEF t
  <1>2. \A k \in 1..Len(t) : Tells(m, tab, x, y, t[k])
    BY <1>1 DEF Telling
  <1>3. ASSUME NEW k \in 1..(Len(t) - 1) PROVE Needs(m, tab, x, t[k], t[k + 1])
    <2>1. /\ k \in 1..Len(s) /\ k # Len(s) /\ k + 1 \in 1..Len(s)
          /\ k \in 1..(Len(s) - 1) /\ Len(s) > 1
      BY <1>1
    <2>2. CASE k + 1 = Len(s)
      <3>1. k = Len(s) - 1
        BY <1>1, <2>2
      <3> QED BY <1>1, <2>1, <2>2, <3>1
    <2>3. CASE k + 1 # Len(s)
      BY <1>1, <2>1, <2>3 DEF Telling
    <2> QED BY <2>2, <2>3
  <1>4. Telling(m, tab, x, y, t)
    BY <1>2, <1>3 DEF Telling
  <1> QED BY <1>4 DEF t

LEMMA TellingPushed ==
  ASSUME NEW m, NEW tab, NEW x, NEW y, NEW s, s \in Seq(AnyFrame), Len(s) >= 1,
         Telling(m, tab, x, y, s), NEW f, f \in AnyFrame, Tells(m, tab, x, y, f),
         Needs(m, tab, x, s[Len(s)], f)
  PROVE  Telling(m, tab, x, y, Append(s, f))
  <1> DEFINE t == Append(s, f)
  <1>1. /\ Len(s) \in Nat /\ Len(t) = Len(s) + 1 /\ t[Len(s) + 1] = f
        /\ \A k \in 1..Len(s) : t[k] = s[k]
    OBVIOUS
  <1> HIDE DEF t
  <1>2. \A k \in 1..Len(t) : Tells(m, tab, x, y, t[k])
    BY <1>1 DEF Telling
  <1>3. ASSUME NEW k \in 1..(Len(t) - 1) PROVE Needs(m, tab, x, t[k], t[k + 1])
    <2>1. CASE k = Len(s)
      BY <1>1, <2>1
    <2>2. CASE k # Len(s)
      BY <1>1, <2>2 DEF Telling
    <2> QED BY <2>1, <2>2
  <1>4. Telling(m, tab, x, y, t)
    BY <1>2, <1>3 DEF Telling
  <1> QED BY <1>4 DEF t

LEMMA TellingPopped ==
  ASSUME IInv, Top.op # "module", NEW v \in Values, NEW tab, NEW x, NEW y,
         Reading(module, x), TableReading(tab, x, y),
         Knowing(module, tab, stack), Telling(module, tab, x, y, stack),
         Replies(tab, x, y, Top, v)
  PROVE  Telling(module, tab, x, y, Popped(v))
  <1> DEFINE c == Caller
             t == Popped(v)
  <1>1. /\ c \in Nat /\ c >= 1 /\ c + 1 = Len(stack)
        /\ c \in 1..Len(stack)
        /\ Len(t) = c
        /\ t[c] = [stack[c] EXCEPT !.got = Append(@, v)]
        /\ t[c].op = stack[c].op /\ t[c].subject = stack[c].subject
        /\ t[c].depth = stack[c].depth
        /\ FrameOK(stack[c], Len(table))
        /\ \A k \in 1..c : k # c => t[k] = stack[k]
    BY PoppedStack
  <1>2. Top = stack[c + 1] /\ Top.op \in Ops
    BY <1>1, TopTypes DEF Top, AnyFrame
  <1> HIDE DEF t, c
  <1>a. c \in 1..(Len(stack) - 1)
    BY <1>1
  <1>3. /\ Waits(module, tab, stack[c], Top)
        /\ Tells(module, tab, x, y, stack[c]) /\ Needs(module, tab, x, stack[c], Top)
    BY <1>1, <1>a, <1>2 DEF Knowing, Telling
  <1>4. Tells(module, tab, x, y, t[c])
    <2> DEFINE f == stack[c]
               g == Top
    <2>1. FrameOK(f, Len(table)) /\ g.op \in Ops /\ g.op # "module"
      BY <1>1, <1>2
    <2>2. Waits(module, tab, f, g) /\ Tells(module, tab, x, y, f) /\ Needs(module, tab, x, f, g)
      BY <1>3
    <2>3. Replies(tab, x, y, g, v)
      OBVIOUS
    <2>4. t[c] = [f EXCEPT !.got = Append(@, v)]
      BY <1>1
    <2> HIDE DEF f, g
    <2>5. Tells(module, tab, x, y, [f EXCEPT !.got = Append(@, v)])
      BY <2>1, <2>2, <2>3, CallerTells
    <2> QED BY <2>4, <2>5
  <1>5. \A k \in 1..Len(t) : Tells(module, tab, x, y, t[k])
    BY <1>1, <1>4 DEF Telling
  <1>6. ASSUME NEW k \in 1..(Len(t) - 1) PROVE Needs(module, tab, x, t[k], t[k + 1])
    <2>1. /\ k \in 1..(Len(stack) - 1) /\ t[k] = stack[k] /\ k + 1 \in 1..c
      BY <1>1
    <2>2. Needs(module, tab, x, stack[k], stack[k + 1])
      BY <2>1 DEF Telling
    <2>3. /\ t[k + 1].op = stack[k + 1].op /\ t[k + 1].subject = stack[k + 1].subject
          /\ t[k + 1].depth = stack[k + 1].depth
      BY <1>1, <2>1
    <2> QED BY <2>1, <2>2, <2>3, SameNeeded
  <1>7. Telling(module, tab, x, y, t)
    BY <1>5, <1>6 DEF Telling
  <1> QED BY <1>7 DEF t

-----------------------------------------------------------------------------
(***************************************************************************)
(* The ways an action goes on.                                             *)
(***************************************************************************)
LEMMA TopTells ==
  ASSUME IInv, TellInv, NEW x, NEW y, Reading(module, x), TableReading(table, x, y)
  PROVE  /\ Telling(module, table, x, y, stack)
         /\ Tells(module, table, x, y, Top)
         /\ Len(stack) > 1 => /\ Needs(module, table, x, stack[Len(stack) - 1], Top)
                              /\ Tells(module, table, x, y, stack[Len(stack) - 1])
  <1>1. Len(stack) \in Nat /\ Len(stack) >= 1
    BY ConstantTypes DEF IInv, StackOK
  <1>2. Telling(module, table, x, y, stack)
    BY DEF TellInv
  <1>3. Tells(module, table, x, y, Top)
    BY <1>1, <1>2 DEF Telling, Top
  <1>4. ASSUME Len(stack) > 1
        PROVE  /\ Needs(module, table, x, stack[Len(stack) - 1], Top)
               /\ Tells(module, table, x, y, stack[Len(stack) - 1])
    <2>1. /\ Len(stack) - 1 \in 1..(Len(stack) - 1) /\ (Len(stack) - 1) + 1 = Len(stack)
          /\ Len(stack) - 1 \in 1..Len(stack)
      BY <1>1, <1>4
    <2>2. Needs(module, table, x, stack[Len(stack) - 1], stack[(Len(stack) - 1) + 1])
      BY <1>2, <2>1 DEF Telling
    <2>3. Tells(module, table, x, y, stack[Len(stack) - 1])
      BY <1>2, <2>1 DEF Telling
    <2> QED BY <2>1, <2>2, <2>3 DEF Top
  <1> QED BY <1>2, <1>3, <1>4

LEMMA TellGoto ==
  ASSUME IInv, TellInv, phase = "run", NEW f, Goto(f),
         ASSUME NEW x, NEW y, Reading(module, x), TableReading(table, x, y)
         PROVE  /\ Tells(module, table, x, y, f)
                /\ Len(stack) > 1 => Needs(module, table, x, stack[Len(stack) - 1], f)
  PROVE  TellInv'
  <1>1. stack \in Seq(AnyFrame) /\ Len(stack) >= 1
    BY ConstantTypes DEF IInv, StackOK
  <1>2. ASSUME NEW x, NEW y, Reading(module, x), TableReading(table, x, y)
        PROVE  Telling(module, table, x, y, Becomes(f))
    BY <1>1, <1>2, TopTells, TellingBecomes DEF Becomes
  <1>3. /\ module' = module /\ table' = table /\ stack' = Becomes(f) /\ phase' = "run"
        /\ code' = code
    BY DEF Goto
  <1> QED BY <1>2, <1>3 DEF TellInv

LEMMA TellLoop ==
  ASSUME IInv, TellInv, phase = "run", NEW f, Goto(f),
         f.op = Top.op, f.subject = Top.subject, f.depth = Top.depth,
         ASSUME NEW x, NEW y, Reading(module, x), TableReading(table, x, y)
         PROVE  Tells(module, table, x, y, f)
  PROVE  TellInv'
  <1>1. ASSUME NEW x, NEW y, Reading(module, x), TableReading(table, x, y)
        PROVE  /\ Tells(module, table, x, y, f)
               /\ Len(stack) > 1 => Needs(module, table, x, stack[Len(stack) - 1], f)
    BY <1>1, TopTells, SameNeeded
  <1> QED BY <1>1, TellGoto

\* A resolution goes on with what means the same.
LEMMA TellInstead ==
  ASSUME IInv, TellInv, phase = "run", NEW f, Goto(f),
         f.op \in Resolving, Top.op \in Resolving,
         ASSUME NEW x, NEW y, Reading(module, x), TableReading(table, x, y)
         PROVE  Tells(module, table, x, y, f) /\ Wanted(x, f) = Wanted(x, Top)
  PROVE  TellInv'
  <1>1. ASSUME NEW x, NEW y, Reading(module, x), TableReading(table, x, y)
        PROVE  /\ Tells(module, table, x, y, f)
               /\ Len(stack) > 1 => Needs(module, table, x, stack[Len(stack) - 1], f)
    <2>1. Tells(module, table, x, y, f) /\ Wanted(x, f) = Wanted(x, Top)
      BY <1>1
    <2>2. ASSUME NEW g, Needs(module, table, x, g, Top)
          PROVE  Needs(module, table, x, g, f)
      BY <2>1, <2>2 DEF Needs, Resolving
    <2> QED BY <1>1, <2>1, <2>2, TopTells
  <1> QED BY <1>1, TellGoto

LEMMA TellPush ==
  ASSUME IInv, TellInv, phase = "run", NEW f, Push(f), f \in AnyFrame,
         ASSUME NEW x, NEW y, Reading(module, x), TableReading(table, x, y)
         PROVE  Tells(module, table, x, y, f) /\ Needs(module, table, x, Top, f)
  PROVE  TellInv'
  <1>1. CASE Len(stack) < MaxStack /\ stack' = Append(stack, f)
             /\ UNCHANGED <<module, phase, code, table>>
    <2>1. stack \in Seq(AnyFrame) /\ Len(stack) >= 1
      BY ConstantTypes DEF IInv, StackOK
    <2>2. ASSUME NEW x, NEW y, Reading(module, x), TableReading(table, x, y)
          PROVE  Telling(module, table, x, y, Append(stack, f))
      BY <2>1, <2>2, TopTells, TellingPushed DEF Top
    <2> QED BY <1>1, <2>2 DEF TellInv
  <1>2. CASE Len(stack) = MaxStack /\ phase' = "crashed"
             /\ UNCHANGED <<module, code, table, stack>>
    BY <1>2 DEF TellInv
  <1> QED BY <1>1, <1>2 DEF Push

LEMMA TellReturn ==
  ASSUME IInv, KnowInv, TellInv, phase = "run", NEW v \in Values, Return(v),
         Top.op # "module",
         ASSUME NEW x, NEW y, Reading(module, x), TableReading(table, x, y)
         PROVE  Replies(table, x, y, Top, v)
  PROVE  TellInv'
  <1>1. ASSUME NEW x, NEW y, Reading(module, x), TableReading(table, x, y)
        PROVE  Telling(module, table, x, y, Popped(v))
    BY <1>1, TopTells, TellingPopped DEF KnowInv
  <1>2. module' = module /\ table' = table /\ stack' = Popped(v) /\ code' = code
    BY DEF Return
  <1> QED BY <1>1, <1>2 DEF TellInv

\* No entry is added in a full table.
LEMMA NoRoom ==
  ASSUME TableOK(table), NEW e, ~HasRoom(e)
  PROVE  Full(table)
  BY ConstantTypes DEF TableOK, HasRoom, Full

OctetsOf(e) ==
  e.kind \in {"bytes", "digest"} =>
    \E r \in Ref : Used(module, r) /\ r.form = e.kind /\ r.length = e.a

LEMMA OctetsGrow ==
  ASSUME TableOK(table), NEW e, EntryOK(e, Len(table) + 1), HasRoom(e),
         OctetsUsed(module, table), OctetsOf(e)
  PROVE  OctetsUsed(module, Interned(e))
  <1> SUFFICES ASSUME NEW t \in 1..Len(Interned(e)),
                      Interned(e)[t].kind \in {"bytes", "digest"}
               PROVE  \E r \in Ref : /\ Used(module, r) /\ r.form = Interned(e)[t].kind
                                     /\ r.length = Interned(e)[t].a
    BY DEF OctetsUsed
  <1>1. CASE t \in 1..Len(table)
    <2>1. Interned(e)[t] = table[t]
      BY <1>1, InternGrows DEF Grown
    <2> QED BY <1>1, <2>1 DEF OctetsUsed
  <1>2. CASE Interned(e)[t] = e
    BY <1>2 DEF OctetsOf
  <1> QED BY <1>1, <1>2, InternGrows

LEMMA TellInterned ==
  ASSUME IInv, KnowInv, TellInv, phase = "run", NEW e, EntryOK(e, Len(table) + 1),
         ReturnInterned(e), Top.op \in Resolving,
         ASSUME NEW tab, TableOK(tab), Grown(table, tab),
                NEW v \in 1..Len(tab), tab[v] = e,
                NEW x, NEW y, Reading(module, x), TableReading(tab, x, y),
                TableReading(table, x, y)
         PROVE  y.meaning[v] = Wanted(x, Top) /\ OctetsOf(e)
  PROVE  TellInv'
  <1>0. Top.op # "module" /\ TableOK(table)
    BY DEF Resolving, IInv
  <1>1. CASE HasRoom(e) /\ table' = Interned(e) /\ stack' = Popped(Position(e))
             /\ UNCHANGED <<module, phase, code>>
    <2> DEFINE tab == Interned(e)
               v == Position(e)
    <2>1. /\ TableOK(tab) /\ Len(tab) \in Nat /\ Grown(table, tab)
          /\ v \in 1..Len(tab) /\ v \in Nat /\ tab[v] = e
      BY <1>0, <1>1, InternGrows
    <2>2. OctetsUsed(module, table) /\ OctetsOf(e) => OctetsUsed(module, tab)
      BY <1>0, <1>1, OctetsGrow
    <2>3. module' = module /\ table' = tab /\ stack' = Popped(v) /\ code' = code
      BY <1>1
    <2> HIDE DEF tab, v
    <2>4. Knowing(module, tab, stack) /\ StackOK(stack, Len(table))
          /\ Knowing(module, table, stack)
      BY <1>0, <2>1, KnowingGrows DEF KnowInv, IInv
    <2>5. ASSUME NEW x, NEW y, Reading(module, x), TableReading(tab, x, y)
          PROVE  /\ OctetsUsed(module, tab)
                 /\ Telling(module, tab, x, y, Popped(v))
                 /\ code = "A0-CHECK-0013" => Excused(module, tab, x)
      <3>1. TableReading(table, x, y)
        BY <1>0, <2>1, <2>5, ReadingShrinks
      <3>2. Telling(module, tab, x, y, stack)
        BY <1>0, <2>1, <2>4, <2>5, <3>1, TopTells, TellingGrows
      <3>3. Finds(tab, y, v, Wanted(x, Top))
        <4>1. y.meaning[v] = Wanted(x, Top)
          BY <2>1, <2>5, <3>1
        <4>2. v # Invalid
          BY <2>1 DEF Invalid
        <4> QED BY <2>1, <4>1, <4>2 DEF Finds
      <3>4. Replies(tab, x, y, Top, v) /\ v \in Values
        BY <2>1, <3>3 DEF Replies, Resolving, Values
      <3>5. Telling(module, tab, x, y, Popped(v))
        BY <1>0, <2>4, <2>5, <3>2, <3>4, TellingPopped
      <3>6. ASSUME code = "A0-CHECK-0013" PROVE Excused(module, tab, x)
        <4>1. Excused(module, table, x)
          BY <2>5, <3>1, <3>6 DEF TellInv
        <4> QED BY <1>0, <2>1, <4>1, FullGrows DEF Excused
      <3>7. OctetsUsed(module, tab)
        <4>1. OctetsOf(e)
          BY <2>1, <2>5, <3>1
        <4> QED BY <2>2, <2>5, <3>1, <4>1 DEF TellInv
      <3> QED BY <3>5, <3>6, <3>7
    <2> QED BY <2>3, <2>5 DEF TellInv
  <1>2. CASE ~HasRoom(e) /\ Return(Invalid)
    <2>1. Full(table)
      BY <1>0, <1>2, NoRoom
    <2>2. ASSUME NEW x, NEW y PROVE Replies(table, x, y, Top, Invalid)
      BY <2>1 DEF Replies, Finds, Resolving
    <2>3. Invalid \in Values
      BY DEF Values
    <2> QED BY <1>0, <1>2, <2>2, <2>3, TellReturn
  <1> QED BY <1>1, <1>2 DEF ReturnInterned

LEMMA CallTells ==
  ASSUME NEW m, NEW tab, NEW x, NEW y, NEW subject, NEW depth
  PROVE  Tells(m, tab, x, y, Call("value", subject, depth))
  BY DEF Tells, Call, ValueTells

-----------------------------------------------------------------------------
(***************************************************************************)
(* What a reading says of names, references and entries.                   *)
(***************************************************************************)
LEMMA BoundTypes ==
  /\ Beyond \in Nat /\ TooDeep \in Nat /\ TooDeep = MaxDepth + 1 /\ TooDeep >= 2
  /\ Beyond = WordMax + 1
  BY ConstantTypes DEF Beyond, TooDeep

LEMMA CappedTypes ==
  ASSUME NEW n \in Nat
  PROVE  /\ Capped(n) \in 0..Beyond /\ Within(n) \in 0..TooDeep
         /\ n >= 1 => Within(n) \in 1..TooDeep
  BY BoundTypes, ConstantTypes DEF Capped, Within

LEMMA IndexFinite == IsFiniteSet(Index) /\ Cardinality(Index) = Count
  BY FS_Interval, ConstantTypes DEF Index

LEMMA LargerTypes ==
  ASSUME NEW a \in Nat, NEW b \in Nat
  PROVE  /\ Larger(a, b) \in Nat /\ 1 + Larger(a, b) \in Nat /\ 1 + Larger(a, b) >= 1
         /\ a <= Larger(a, b) /\ b <= Larger(a, b)
         /\ Larger(a, b) = a \/ Larger(a, b) = b
  BY DEF Larger

LEMMA DeclarationTypes ==
  ASSUME module \in Modules, NEW x, Reading(module, x), NEW d \in Index
  PROVE  x.declBits[d] \in 0..Beyond /\ x.declDepth[d] \in 2..TooDeep
  <1>1. DeclarationRead(module, x, d)
    BY DEF Reading
  <1>2. x.declDepth[d] \in 2..TooDeep
    BY <1>1 DEF DeclarationRead
  <1>3. PICK w \in Nat : x.declBits[d] = Capped(module[d].tag + w)
    BY <1>1 DEF DeclarationRead, WidthRead
  <1>4. module[d].tag + w \in Nat
    BY ModuleTypes
  <1> QED BY <1>2, <1>3, <1>4, CappedTypes

\* Meanings are tagged.
LEMMA Tagged ==
  ASSUME NEW a, NEW b, NEW c, NEW d, NEW k \in {"base", "bytes", "digest", "declared"},
         NEW l \in {"base", "bytes", "digest", "declared"}
  PROVE  /\ <<k, a>> # Nothing
         /\ <<"decision", a, b>> # Nothing
         /\ <<k, a>> # <<"decision", c, d>>
         /\ <<k, a>> = <<l, b>> => k = l /\ a = b
         /\ <<"decision", a, b>> = <<"decision", c, d>> => a = c /\ b = d
  BY DEF Nothing

LEMMA RefReadNamed ==
  ASSUME NEW m, NEW x, Reading(m, x), NEW r \in Ref
  PROVE  /\ \/ r.form = "named"
            \/ r.form = "applied" /\ Len(r.names) = 2
            \/ r.form = "applied" /\ Len(r.names) # 2
            \/ r.form \in {"bytes", "digest"} /\ r.length = 0
            \/ r.form \in {"bytes", "digest"} /\ r.length # 0
         /\ RefRead(x, r)
         /\ x.meaning[r] # Nothing => \A n \in NamesOf(r) : x.name[n] # Nothing
  <1>1. RefRead(x, r) /\ r.form \in {"named", "applied", "bytes", "digest"}
    BY RefTypes DEF Reading
  <1>2. CASE r.form = "named"
    BY <1>1, <1>2, NamesOfRef DEF RefRead
  <1>3. CASE r.form = "applied" /\ Len(r.names) = 2
    BY <1>1, <1>3, NamesOfRef DEF RefRead
  <1>4. CASE r.form = "applied" /\ Len(r.names) # 2
    BY <1>1, <1>4 DEF RefRead
  <1>5. CASE r.form \in {"bytes", "digest"}
    BY <1>1, <1>5, NamesOfRef
  <1> QED BY <1>1, <1>2, <1>3, <1>4, <1>5

\* Nothing is beyond every width.
LEMMA NothingIsBeyond ==
  ASSUME NEW m, NEW x, Reading(m, x), NEW r \in Ref, x.meaning[r] = Nothing
  PROVE  x.bits[r] = Beyond
  <1>1. \A n \in Nat : NameRead(m, x, n)
    BY DEF Reading
  <1>2. RefRead(x, r) /\ (r.form \in {"named", "applied"} => r.names \in Seq(Nat))
    BY RefReadNamed, RefTypes
  <1>3. CASE r.form = "named"
    <2>1. r.names[1] \in Nat
      BY <1>2, <1>3, RefTypes
    <2> QED BY <1>1, <1>2, <1>3, <2>1 DEF RefRead, NameRead
  <1>4. CASE r.form = "applied" /\ Len(r.names) = 2
    <2>1. r.names[1] \in Nat /\ r.names[2] \in Nat
      BY <1>2, <1>4
    <2>2. x.name[r.names[1]] = Nothing \/ x.name[r.names[2]] = Nothing
      BY <1>2, <1>4, Tagged DEF RefRead
    <2>3. x.nameBits[r.names[1]] \in 0..Beyond /\ x.nameBits[r.names[2]] \in 0..Beyond
      BY <1>1, <2>1 DEF NameRead
    <2>4. x.nameBits[r.names[1]] = Beyond \/ x.nameBits[r.names[2]] = Beyond
      BY <1>1, <2>1, <2>2 DEF NameRead
    <2>5. x.bits[r] = Capped(1 + Larger(x.nameBits[r.names[1]], x.nameBits[r.names[2]]))
      BY <1>2, <1>4 DEF RefRead
    <2> QED BY <2>3, <2>4, <2>5, BoundTypes, ConstantTypes DEF Capped, Larger
  <1>5. CASE r.form \in {"bytes", "digest"} /\ r.length # 0
    BY <1>2, <1>5, Tagged DEF RefRead
  <1> QED BY <1>2, <1>3, <1>4, <1>5, RefReadNamed DEF RefRead

LEMMA EntryTypes ==
  ASSUME module \in Modules, NEW tab, TableOK(tab), NEW x, NEW y,
         Reading(module, x), TableReading(tab, x, y), NEW t \in 1..Len(tab)
  PROVE  /\ y.meaning[t] # Nothing
         /\ y.bits[t] \in 0..Beyond
         /\ y.depth[t] \in 1..TooDeep
  <1>1. ASSUME NEW u \in 1..Len(tab)
        PROVE  y.meaning[u] # Nothing
    <2>1. EntryRead(tab, x, y, u) /\ tab[u] \in Entry
      BY DEF TableReading, TableOK, EntryOK
    <2>2. tab[u].kind \in {"base", "bytes", "digest", "declared", "decision"}
      BY <2>1 DEF Entry
    <2>3. CASE tab[u].kind = "decision"
      <3>1. y.meaning[u] = <<"decision", y.meaning[tab[u].a], y.meaning[tab[u].b]>>
        BY <2>1, <2>3 DEF EntryRead
      <3> QED BY <3>1, Tagged
    <2>4. CASE tab[u].kind # "decision"
      <3>1. /\ y.meaning[u] = <<tab[u].kind, tab[u].a>>
            /\ tab[u].kind \in {"base", "bytes", "digest", "declared"}
        BY <2>1, <2>2, <2>4 DEF EntryRead
      <3> QED BY <3>1, Tagged
    <2> QED BY <2>3, <2>4
  <1> DEFINE T == {u \in 1..Len(tab) :
                     ~(y.bits[u] \in 0..Beyond /\ y.depth[u] \in 1..TooDeep)}
  <1>2. ASSUME NEW u \in T, \A k \in T : u <= k PROVE FALSE
    <2>1. /\ EntryRead(tab, x, y, u) /\ EntryOK(tab[u], u) /\ u \in 1..Len(tab)
          /\ Len(tab) \in Nat
      BY DEF TableReading, TableOK
    <2>2. /\ tab[u].kind \in {"base", "bytes", "digest", "declared", "decision"}
          /\ tab[u].a \in Nat
      BY <2>1 DEF EntryOK, Entry
    <2>3. CASE tab[u].kind = "base"
      <3>1. tab[u].a \in Builtin
        BY <2>1, <2>3 DEF EntryOK
      <3>2. Widths[tab[u].a] \in Nat /\ Widths[tab[u].a] <= WordMax
        BY <3>1, TableAssumption
      <3>3. y.bits[u] = Widths[tab[u].a] /\ y.depth[u] = 1
        BY <2>1, <2>3 DEF EntryRead
      <3>4. \A w \in Nat : w <= WordMax => w \in 0..Beyond
        BY BoundTypes, ConstantTypes
      <3>5. 1 \in 1..TooDeep
        BY BoundTypes
      <3> QED BY <3>2, <3>3, <3>4, <3>5
    <2>4. CASE tab[u].kind \in {"bytes", "digest"}
      <3>1. y.bits[u] = Capped(8 * tab[u].a) /\ y.depth[u] = 1 /\ 8 * tab[u].a \in Nat
        BY <2>1, <2>2, <2>4 DEF EntryRead
      <3>2. Capped(8 * tab[u].a) \in 0..Beyond
        BY <3>1, CappedTypes
      <3>3. 1 \in 1..TooDeep
        BY BoundTypes
      <3> QED BY <3>1, <3>2, <3>3
    <2>5. CASE tab[u].kind = "declared"
      <3>1. tab[u].a \in Index
        BY <2>1, <2>5 DEF EntryOK
      <3>2. x.declBits[tab[u].a] \in 0..Beyond /\ x.declDepth[tab[u].a] \in 2..TooDeep
        BY <3>1, DeclarationTypes
      <3>3. y.bits[u] = x.declBits[tab[u].a] /\ y.depth[u] = x.declDepth[tab[u].a]
        BY <2>1, <2>5 DEF EntryRead
      <3> QED BY <3>2, <3>3, BoundTypes
    <2>6. CASE tab[u].kind = "decision"
      <3> DEFINE a == tab[u].a
                 b == tab[u].b
      <3>1. a \in 1..(u - 1) /\ b \in 1..(u - 1)
        BY <2>1, <2>6 DEF EntryOK
      <3>2. a \in 1..Len(tab) /\ b \in 1..Len(tab) /\ a \notin T /\ b \notin T
        <4>1. /\ a \in 1..Len(tab) /\ b \in 1..Len(tab)
              /\ ~(u <= a) /\ ~(u <= b)
          BY <2>1, <3>1
        <4> HIDE DEF T
        <4> QED BY <1>2, <4>1
      <3>3. /\ y.bits[a] \in 0..Beyond /\ y.depth[a] \in 1..TooDeep
            /\ y.bits[b] \in 0..Beyond /\ y.depth[b] \in 1..TooDeep
        BY <3>2
      <3>4. /\ y.bits[u] = Capped(1 + Larger(y.bits[a], y.bits[b]))
            /\ y.depth[u] = Within(1 + Larger(y.depth[a], y.depth[b]))
        BY <2>1, <2>6 DEF EntryRead
      <3>5. 1 + Larger(y.bits[a], y.bits[b]) \in Nat
            /\ 1 + Larger(y.depth[a], y.depth[b]) \in Nat
            /\ 1 + Larger(y.depth[a], y.depth[b]) >= 1
        <4>1. /\ y.bits[a] \in Nat /\ y.depth[a] \in Nat
              /\ y.bits[b] \in Nat /\ y.depth[b] \in Nat
          BY <3>3, BoundTypes
        <4> QED BY <4>1, LargerTypes
      <3> HIDE DEF a, b
      <3> QED BY <3>4, <3>5, CappedTypes
    <2> QED BY <2>2, <2>3, <2>4, <2>5, <2>6
  <1>3. T \in SUBSET Nat
    BY DEF TableOK
  <1>4. T = {}
    <2>1. ASSUME NEW u \in T PROVE FALSE
      <3> HIDE DEF T
      <3>1. PICK n \in T : \A k \in T : n <= k
        BY <1>3, <2>1, Least
      <3> QED BY <1>2, <3>1
    <2> QED BY <2>1
  <1> QED BY <1>1, <1>4

-----------------------------------------------------------------------------
(***************************************************************************)
(* The aliases on the way from a name that means something.                *)
(***************************************************************************)
Live(m, x, k) ==
  {d \in Aliases(m) : x.name[m[d].name] # Nothing /\ x.rank[m[d].name] < k}

LEMMA AliasTypes ==
  ASSUME module \in Modules, NEW d \in Aliases(module)
  PROVE  /\ d \in Index /\ module[d].kind = "alias" /\ module[d].name \in Nat
         /\ module[d].cases[1][1] \in Ref /\ Onward(module, d) \subseteq Nat
         /\ Onward(module, d) = NamesOf(module[d].cases[1][1])
  <1>1. /\ d \in Index /\ module[d].kind = "alias" /\ module[d] \in Declaration
        /\ module[d].cases[1][1] \in Ref
    BY ModuleTypes DEF Aliases, Target
  <1>2. module[d].name \in Nat
    BY <1>1 DEF Declaration
  <1>3. NamesOf(module[d].cases[1][1]) \subseteq Nat
    BY <1>1, RefTypes DEF NamesOf
  <1> QED BY <1>1, <1>2, <1>3 DEF Onward

LEMMA OnwardLives ==
  ASSUME module \in Modules, NEW x, Reading(module, x), NEW d \in Aliases(module),
         x.name[module[d].name] # Nothing
  PROVE  /\ \A n \in Onward(module, d) :
              x.name[n] # Nothing /\ x.rank[n] < x.rank[module[d].name]
         /\ x.rank[module[d].name] \in Nat
         /\ \A n \in Onward(module, d) : x.rank[n] \in Nat
  <1>1. /\ d \in Index /\ module[d].kind = "alias" /\ module[d].name \in Nat
        /\ module[d].cases[1][1] \in Ref /\ Onward(module, d) \subseteq Nat
        /\ Onward(module, d) = NamesOf(module[d].cases[1][1])
    BY AliasTypes
  <1>2. DeclarationRead(module, x, d) /\ Ranked(module, x, d)
    BY <1>1 DEF Reading
  <1>3. x.meaning[module[d].cases[1][1]] # Nothing
    BY <1>1, <1>2 DEF DeclarationRead
  <1>4. \A n \in Onward(module, d) : x.name[n] # Nothing
    BY <1>1, <1>3, RefReadNamed
  <1>5. \A n \in Nat : x.rank[n] \in Nat
    BY DEF Reading
  <1> QED BY <1>1, <1>2, <1>4, <1>5 DEF Ranked

LEMMA LiveClosed ==
  ASSUME module \in Modules, NEW x, Reading(module, x), NEW k \in Nat
  PROVE  Closed(module, Live(module, x, k))
  <1> SUFFICES ASSUME NEW d \in Live(module, x, k), NEW e \in Leads(module, Onward(module, d))
               PROVE  e \in Live(module, x, k)
    BY DEF Closed, Onward
  <1>1. d \in Aliases(module) /\ x.name[module[d].name] # Nothing
        /\ x.rank[module[d].name] < k
    BY DEF Live
  <1>2. e \in Aliases(module) /\ module[e].name \in Onward(module, d)
    BY DEF Leads
  <1>3. /\ x.name[module[e].name] # Nothing
        /\ x.rank[module[e].name] < x.rank[module[d].name]
        /\ x.rank[module[e].name] \in Nat /\ x.rank[module[d].name] \in Nat
    BY <1>1, <1>2, OnwardLives
  <1> QED BY <1>1, <1>2, <1>3 DEF Live

LEMMA LiveReach ==
  ASSUME module \in Modules, NEW x, Reading(module, x), NEW k \in Nat, NEW names,
         Leads(module, names) \subseteq Live(module, x, k)
  PROVE  Reach(module, names) \subseteq Live(module, x, k)
  <1>1. Live(module, x, k) \in SUBSET Aliases(module)
    BY DEF Live
  <1> QED BY <1>1, LiveClosed DEF Reach

LEMMA NotBackToItself ==
  ASSUME module \in Modules, NEW x, Reading(module, x), NEW d \in Aliases(module),
         x.name[module[d].name] # Nothing
  PROVE  d \notin Reach(module, Onward(module, d))
  <1> DEFINE k == x.rank[module[d].name]
  <1>1. k \in Nat
    BY OnwardLives
  <1>2. Leads(module, Onward(module, d)) \subseteq Live(module, x, k)
    BY OnwardLives DEF Leads, Live
  <1>3. Reach(module, Onward(module, d)) \subseteq Live(module, x, k)
    BY <1>1, <1>2, LiveReach
  <1>4. d \notin Live(module, x, k)
    BY <1>1 DEF Live
  <1> QED BY <1>3, <1>4

\* Following an alias that means something leaves it behind.
LEMMA RoomLeft ==
  ASSUME module \in Modules, NEW x, Reading(module, x), NEW n,
         NEW d \in Leads(module, {n}), x.name[n] # Nothing
  PROVE  Room(module, Onward(module, d)) + 1 <= Room(module, {n})
  <1>1. d \in Aliases(module) /\ module[d].name = n
    BY DEF Leads
  <1>2. d \in Reach(module, {n})
    BY <1>1 DEF Reach
  <1>3. Reach(module, Onward(module, d)) \subseteq Reach(module, {n})
    BY DEF Reach, Closed, Onward
  <1>4. Reach(module, Onward(module, d)) \in SUBSET (Reach(module, {n}) \ {d})
    BY <1>1, <1>3, NotBackToItself
  <1>5. /\ IsFiniteSet(Reach(module, {n}) \ {d})
        /\ Cardinality(Reach(module, {n}) \ {d}) = Room(module, {n}) - 1
    BY <1>2, RoomTypes, FS_RemoveElement DEF Room
  <1>6. Room(module, Onward(module, d)) <= Cardinality(Reach(module, {n}) \ {d})
    BY <1>4, <1>5, FS_Subset DEF Room
  <1>7. Room(module, Onward(module, d)) \in Nat /\ Room(module, {n}) \in Nat
    BY RoomTypes, ConstantTypes
  <1> QED BY <1>5, <1>6, <1>7

\* From a reference of the module not every declaration is still to be met.
LEMMA UsedRoom ==
  ASSUME module \in Modules, NEW x, Reading(module, x), NEW r \in Ref,
         Used(module, r), NEW n \in NamesOf(r), x.name[n] # Nothing
  PROVE  Room(module, {n}) < Count
  <1>1. Room(module, {n}) \in 0..Count
    BY RoomTypes
  <1> SUFFICES ASSUME Room(module, {n}) = Count PROVE FALSE
    BY <1>1, ConstantTypes
  <1>2. PICK d \in Index : \E c \in 1..Len(module[d].cases) :
          \E k \in 1..Len(module[d].cases[c]) : r = module[d].cases[c][k]
    BY DEF Used
  <1>3. PICK c \in 1..Len(module[d].cases) :
          \E k \in 1..Len(module[d].cases[c]) : r = module[d].cases[c][k]
    BY <1>2
  <1>4. PICK k \in 1..Len(module[d].cases[c]) : r = module[d].cases[c][k]
    BY <1>3
  <1>5. Reach(module, {n}) = Index
    <2>1. Reach(module, {n}) \in SUBSET Index
      BY DEF Reach, Aliases
    <2> QED BY <2>1, IndexFinite, FS_Subset DEF Room
  <1>6. d \in Aliases(module) /\ d \in Reach(module, {n})
    BY <1>5 DEF Reach
  <1>7. Len(module[d].cases) = 1 /\ Len(module[d].cases[1]) = 1
    BY <1>6, ModulesAssumption DEF Aliases
  <1>8. r = module[d].cases[1][1]
    <2>1. c = 1
      BY <1>7
    <2>2. k \in 1..Len(module[d].cases[1])
      BY <2>1
    <2>3. k = 1
      BY <1>7, <2>2
    <2> QED BY <1>4, <2>1, <2>3
  <1>9. n \in Onward(module, d) /\ n \in Nat
    BY <1>6, <1>8, AliasTypes
  <1> DEFINE j == x.rank[n] + 1
  <1>10. j \in Nat /\ x.rank[n] \in Nat
    BY <1>9 DEF Reading
  <1>11. Leads(module, {n}) \subseteq Live(module, x, j)
    BY <1>10 DEF Leads, Live
  <1>12. d \in Live(module, x, j)
    BY <1>6, <1>10, <1>11, LiveReach
  <1>13. x.name[module[d].name] # Nothing /\ x.rank[module[d].name] < j
    BY <1>12 DEF Live
  <1>14. x.rank[n] < x.rank[module[d].name] /\ x.rank[module[d].name] \in Nat
    BY <1>6, <1>9, <1>13, OnwardLives
  <1> QED BY <1>10, <1>13, <1>14

-----------------------------------------------------------------------------
(***************************************************************************)
(* What means the same is as wide and as deep.                             *)
(***************************************************************************)
NameAgrees(tab, x, y, n) ==
  \A v \in 1..Len(tab) : y.meaning[v] = x.name[n] =>
    y.bits[v] = x.nameBits[n] /\ y.depth[v] = x.nameDepth[n]

\* An entry that means <<kind, a>> is that entry, one that means a Decision is one.
LEMMA EntryMeans ==
  ASSUME NEW tab, TableOK(tab), NEW x, NEW y, TableReading(tab, x, y),
         NEW v \in 1..Len(tab)
  PROVE  /\ EntryRead(tab, x, y, v)
         /\ \A k \in {"base", "bytes", "digest", "declared"} : \A a :
              y.meaning[v] = <<k, a>> => tab[v].kind = k /\ tab[v].a = a
         /\ \A a, b : y.meaning[v] = <<"decision", a, b>> =>
              /\ tab[v].kind = "decision"
              /\ tab[v].a \in 1..Len(tab) /\ tab[v].b \in 1..Len(tab)
              /\ y.meaning[tab[v].a] = a /\ y.meaning[tab[v].b] = b
  <1>1. /\ EntryRead(tab, x, y, v) /\ EntryOK(tab[v], v) /\ tab[v] \in Entry
        /\ Len(tab) \in Nat
    BY DEF TableReading, TableOK, EntryOK
  <1>2. tab[v].kind \in {"base", "bytes", "digest", "declared", "decision"}
    BY <1>1 DEF Entry
  <1>3. CASE tab[v].kind = "decision"
    <2>1. y.meaning[v] = <<"decision", y.meaning[tab[v].a], y.meaning[tab[v].b]>>
      BY <1>1, <1>3 DEF EntryRead
    <2>2. tab[v].a \in 1..(v - 1) /\ tab[v].b \in 1..(v - 1)
      BY <1>1, <1>3 DEF EntryOK
    <2>3. tab[v].a \in 1..Len(tab) /\ tab[v].b \in 1..Len(tab)
      BY <1>1, <2>2
    <2> QED BY <1>1, <1>3, <2>1, <2>3, Tagged
  <1>4. CASE tab[v].kind # "decision"
    <2>1. /\ y.meaning[v] = <<tab[v].kind, tab[v].a>>
          /\ tab[v].kind \in {"base", "bytes", "digest", "declared"}
      BY <1>1, <1>2, <1>4 DEF EntryRead
    <2> QED BY <1>1, <2>1, Tagged
  <1> QED BY <1>3, <1>4

LEMMA RefAgrees ==
  ASSUME module \in Modules, NEW tab, TableOK(tab), NEW x, NEW y,
         Reading(module, x), TableReading(tab, x, y), NEW r \in Ref,
         \A n \in NamesOf(r) : NameAgrees(tab, x, y, n),
         NEW v \in 1..Len(tab), y.meaning[v] = x.meaning[r]
  PROVE  y.bits[v] = x.bits[r] /\ y.depth[v] = x.depth[r]
  <1>1. RefRead(x, r) /\ EntryRead(tab, x, y, v) /\ y.meaning[v] # Nothing
    BY RefReadNamed, EntryMeans, EntryTypes
  <1>2. CASE r.form = "named"
    <2>1. NameAgrees(tab, x, y, r.names[1])
      BY <1>2, NamesOfRef
    <2>2. x.meaning[r] = x.name[r.names[1]] /\ x.bits[r] = x.nameBits[r.names[1]]
          /\ x.depth[r] = x.nameDepth[r.names[1]]
      BY <1>1, <1>2 DEF RefRead
    <2> QED BY <2>1, <2>2 DEF NameAgrees
  <1>3. CASE r.form = "applied" /\ Len(r.names) = 2
    <2> DEFINE p == r.names[1]
               q == r.names[2]
               a == tab[v].a
               b == tab[v].b
    <2>1. NameAgrees(tab, x, y, p) /\ NameAgrees(tab, x, y, q)
      BY <1>3, NamesOfRef
    <2>2. /\ x.meaning[r] = <<"decision", x.name[p], x.name[q]>>
          /\ x.bits[r] = Capped(1 + Larger(x.nameBits[p], x.nameBits[q]))
          /\ x.depth[r] = Within(1 + Larger(x.nameDepth[p], x.nameDepth[q]))
      BY <1>1, <1>3 DEF RefRead
    <2>3. /\ tab[v].kind = "decision" /\ a \in 1..Len(tab) /\ b \in 1..Len(tab)
          /\ y.meaning[a] = x.name[p] /\ y.meaning[b] = x.name[q]
      BY <2>2, EntryMeans
    <2>4. /\ y.bits[v] = Capped(1 + Larger(y.bits[a], y.bits[b]))
          /\ y.depth[v] = Within(1 + Larger(y.depth[a], y.depth[b]))
      BY <1>1, <2>3 DEF EntryRead
    <2>5. /\ y.bits[a] = x.nameBits[p] /\ y.bits[b] = x.nameBits[q]
          /\ y.depth[a] = x.nameDepth[p] /\ y.depth[b] = x.nameDepth[q]
      BY <2>1, <2>3 DEF NameAgrees
    <2> QED BY <2>2, <2>4, <2>5
  <1>4. CASE r.form \in {"bytes", "digest"} /\ r.length # 0
    <2>1. /\ x.meaning[r] = <<r.form, r.length>> /\ x.bits[r] = Capped(8 * r.length)
          /\ x.depth[r] = 1
      BY <1>1, <1>4 DEF RefRead
    <2>2. tab[v].kind = r.form /\ tab[v].a = r.length
      BY <1>4, <2>1, EntryMeans
    <2> QED BY <1>1, <1>4, <2>1, <2>2 DEF EntryRead
  <1> QED BY <1>1, <1>2, <1>3, <1>4, RefReadNamed DEF RefRead

LEMMA NameStep ==
  ASSUME module \in Modules, NEW tab, TableOK(tab), NEW x, NEW y,
         Reading(module, x), TableReading(tab, x, y), NEW n \in Nat,
         \A k \in Nat : x.rank[k] < x.rank[n] => NameAgrees(tab, x, y, k)
  PROVE  NameAgrees(tab, x, y, n)
  <1> SUFFICES ASSUME NEW v \in 1..Len(tab), y.meaning[v] = x.name[n]
               PROVE  y.bits[v] = x.nameBits[n] /\ y.depth[v] = x.nameDepth[n]
    BY DEF NameAgrees
  <1>1. x.name[n] # Nothing /\ NameRead(module, x, n) /\ EntryRead(tab, x, y, v)
    BY EntryTypes, EntryMeans DEF Reading
  <1>2. CASE Leads(module, {n}) # {}
    <2>1. PICK d \in Aliases(module) : module[d].name = n
      BY <1>2 DEF Leads
    <2> DEFINE r == module[d].cases[1][1]
    <2>2. /\ d \in Index /\ module[d].kind = "alias" /\ r \in Ref
          /\ Onward(module, d) = NamesOf(r) /\ Onward(module, d) \subseteq Nat
      BY AliasTypes
    <2>3. DeclarationRead(module, x, d)
      BY <2>2 DEF Reading
    <2>4. /\ x.name[n] = x.meaning[r] /\ x.nameBits[n] = x.bits[r]
          /\ x.nameDepth[n] = x.depth[r]
      BY <2>1, <2>2, <2>3 DEF DeclarationRead
    <2>5. \A k \in NamesOf(r) : NameAgrees(tab, x, y, k)
      BY <1>1, <2>1, <2>2, OnwardLives
    <2> QED BY <2>2, <2>4, <2>5, RefAgrees
  <1>3. CASE Leads(module, {n}) = {} /\ n \in Builtin
    <2>1. x.name[n] = <<"base", n>> /\ x.nameBits[n] = Widths[n] /\ x.nameDepth[n] = 1
      BY <1>1, <1>3 DEF NameRead
    <2>2. tab[v].kind = "base" /\ tab[v].a = n
      BY <2>1, EntryMeans
    <2> QED BY <1>1, <2>1, <2>2 DEF EntryRead
  <1>4. CASE Leads(module, {n}) = {} /\ n \notin Builtin
    <2>1. PICK d \in Index : module[d].name = n
      BY <1>1, <1>4 DEF NameRead
    <2>2. module[d].kind # "alias"
      BY <1>4, <2>1 DEF Leads, Aliases
    <2>3. /\ x.name[n] = <<"declared", d>> /\ x.nameBits[n] = x.declBits[d]
          /\ x.nameDepth[n] = x.declDepth[d]
      BY <1>4, <2>1, <2>2 DEF Reading, DeclarationRead
    <2>4. tab[v].kind = "declared" /\ tab[v].a = d
      BY <2>3, EntryMeans
    <2> QED BY <1>1, <2>3, <2>4 DEF EntryRead
  <1> QED BY <1>2, <1>3, <1>4

LEMMA Agreement ==
  ASSUME module \in Modules, NEW tab, TableOK(tab), NEW x, NEW y,
         Reading(module, x), TableReading(tab, x, y), NEW r \in Ref,
         NEW v \in 1..Len(tab), y.meaning[v] = x.meaning[r]
  PROVE  y.bits[v] = x.bits[r] /\ y.depth[v] = x.depth[r]
  <1> DEFINE T == {x.rank[n] : n \in {k \in Nat : ~NameAgrees(tab, x, y, k)}}
  <1>1. T \in SUBSET Nat
    BY DEF Reading
  <1>2. \A n \in Nat : x.rank[n] \in Nat
    BY DEF Reading
  <1>3. ASSUME NEW n \in Nat PROVE NameAgrees(tab, x, y, n)
    <2> SUFFICES ASSUME ~NameAgrees(tab, x, y, n) PROVE FALSE
      OBVIOUS
    <2>1. x.rank[n] \in T
      OBVIOUS
    <2>2. PICK j \in T : \A k \in T : j <= k
      <3> HIDE DEF T
      <3> QED BY <1>1, <2>1, Least
    <2>3. PICK i \in Nat : ~NameAgrees(tab, x, y, i) /\ x.rank[i] = j
      OBVIOUS
    <2>4. \A k \in Nat : x.rank[k] < x.rank[i] => NameAgrees(tab, x, y, k)
      <3>1. ASSUME NEW k \in Nat, x.rank[k] < x.rank[i], ~NameAgrees(tab, x, y, k)
            PROVE  FALSE
        <4>1. x.rank[k] \in T
          BY <3>1
        <4> HIDE DEF T
        <4> QED BY <1>2, <2>2, <2>3, <3>1, <4>1
      <3> QED BY <3>1
    <2> QED BY <2>3, <2>4, NameStep
  <1>4. NamesOf(r) \subseteq Nat
    BY RefTypes DEF NamesOf
  <1> QED BY <1>3, <1>4, RefAgrees

-----------------------------------------------------------------------------
(***************************************************************************)
(* The sums of a declaration.                                              *)
(***************************************************************************)
LEMMA InductionTo ==
  ASSUME NEW L \in Nat, NEW P, 0 \in P, \A j \in 0..(L - 1) : j \in P => j + 1 \in P
  PROVE  0..L \subseteq P
  <1> DEFINE T == {j \in 0..L : j \notin P}
  <1>1. ASSUME NEW i \in T PROVE FALSE
    <2>1. T \in SUBSET Nat /\ i \in T
      OBVIOUS
    <2>2. PICK j \in T : \A h \in T : j <= h
      <3> HIDE DEF T
      <3> QED BY <2>1, Least
    <2>3. j \in 0..L /\ j \notin P /\ j # 0
      OBVIOUS
    <2>4. j - 1 \in 0..(L - 1) /\ (j - 1) + 1 = j /\ j - 1 \in 0..L /\ ~(j <= j - 1)
      BY <2>3
    <2>5. j - 1 \notin T
      BY <2>2, <2>4
    <2>6. j - 1 \in P
      BY <2>4, <2>5
    <2> QED BY <2>3, <2>4, <2>6
  <1> QED BY <1>1

LEMMA RefBitsTypes ==
  ASSUME NEW m, NEW x, Reading(m, x), NEW r \in Ref
  PROVE  x.bits[r] \in 0..Beyond /\ x.bits[r] \in Nat
  <1>1. RefRead(x, r) /\ Beyond \in 0..Beyond
    BY RefReadNamed, BoundTypes
  <1>2. \A n \in Nat : x.nameBits[n] \in 0..Beyond /\ x.nameBits[n] \in Nat
    <2>1. \A n \in Nat : x.nameBits[n] \in 0..Beyond
      BY DEF Reading, NameRead
    <2> QED BY <2>1, BoundTypes
  <1>3. x.bits[r] \in 0..Beyond
    <2>1. CASE r.form = "named"
      <3>1. r.names[1] \in Nat
        BY <2>1, RefTypes
      <3> QED BY <1>1, <1>2, <2>1, <3>1 DEF RefRead
    <2>2. CASE r.form = "applied" /\ Len(r.names) = 2
      <3>1. r.names[1] \in Nat /\ r.names[2] \in Nat
        BY <2>2, RefTypes
      <3>2. 1 + Larger(x.nameBits[r.names[1]], x.nameBits[r.names[2]]) \in Nat
        BY <1>2, <3>1, LargerTypes
      <3>3. x.bits[r] = Capped(1 + Larger(x.nameBits[r.names[1]], x.nameBits[r.names[2]]))
        BY <1>1, <2>2 DEF RefRead
      <3> QED BY <3>2, <3>3, CappedTypes
    <2>3. CASE r.form \in {"bytes", "digest"} /\ r.length # 0
      <3>1. x.bits[r] = Capped(8 * r.length)
        BY <1>1, <2>3 DEF RefRead
      <3>2. 8 * r.length \in Nat
        BY <2>3, RefTypes
      <3> QED BY <3>1, <3>2, CappedTypes
    <2> QED BY <1>1, <2>1, <2>2, <2>3, RefReadNamed DEF RefRead
  <1> QED BY <1>3, BoundTypes

LEMMA CaseTypes ==
  ASSUME module \in Modules, NEW d \in Index, NEW c \in 1..Len(module[d].cases)
  PROVE  /\ module[d].cases[c] \in Seq(Ref) /\ Len(module[d].cases[c]) \in Nat
         /\ Len(module[d].cases) \in Nat
         /\ \A k \in 1..Len(module[d].cases[c]) : module[d].cases[c][k] \in Ref
  BY ModuleTypes

\* The widths of references, and what they add up to in a declaration.
Summed(m, x, d) == (\A r \in Ref : x.bits[r] \in Nat) /\ WidthRead(m, x, d)

LEMMA ReadSummed ==
  ASSUME NEW m, NEW x, Reading(m, x), NEW d \in Index
  PROVE  Summed(m, x, d)
  BY RefBitsTypes DEF Reading, DeclarationRead, Summed

LEMMA SumTypes ==
  ASSUME module \in Modules, NEW d \in Index, NEW x, Summed(module, x, d),
         NEW c \in 1..Len(module[d].cases), NEW k \in 0..Len(module[d].cases[c])
  PROVE  /\ x.sum[d][c][k] \in Nat
         /\ k # 0 => /\ x.sum[d][c][k] = x.sum[d][c][k - 1] + x.bits[module[d].cases[c][k]]
                     /\ x.sum[d][c][k - 1] \in Nat
                     /\ x.bits[module[d].cases[c][k]] \in Nat
         /\ x.sum[d][c][k] <= CaseSum(module, x, d, c)
         /\ CaseSum(module, x, d, c) \in Nat
  <1> DEFINE L == Len(module[d].cases[c])
             S == x.sum[d][c]
  <1>1. L \in Nat /\ \A j \in 1..L : x.bits[module[d].cases[c][j]] \in Nat
    BY CaseTypes DEF Summed
  <1>2. S[0] = 0 /\ \A j \in 1..L : S[j] = S[j - 1] + x.bits[module[d].cases[c][j]]
    BY DEF Summed, WidthRead, CaseRead
  <1>a. CaseSum(module, x, d, c) = S[L]
    BY DEF CaseSum
  <1> DEFINE b == [j \in 1..L |-> x.bits[module[d].cases[c][j]]]
  <1>b. \A j \in 1..L : b[j] \in Nat /\ S[j] = S[j - 1] + b[j]
    BY <1>1, <1>2
  <1> HIDE DEF b, S, L
  <1>3. \A j \in 0..L : S[j] \in Nat
    <2> DEFINE P == {j \in 0..L : S[j] \in Nat}
    <2>1. 0 \in P
      BY <1>1, <1>2
    <2>2. \A j \in 0..(L - 1) : j \in P => j + 1 \in P
      <3>1. ASSUME NEW j \in 0..(L - 1), S[j] \in Nat PROVE S[j + 1] \in Nat
        <4>1. j + 1 \in 1..L /\ (j + 1) - 1 = j
          BY <1>1
        <4>2. S[j + 1] = S[j] + b[j + 1] /\ b[j + 1] \in Nat
          BY <1>b, <4>1
        <4> QED BY <3>1, <4>2
      <3>2. \A j \in 0..(L - 1) : j + 1 \in 0..L
        BY <1>1
      <3> QED BY <3>1, <3>2
    <2> HIDE DEF P
    <2>3. 0..L \subseteq P
      BY <1>1, <2>1, <2>2, InductionTo
    <2> QED BY <2>3 DEF P
  <1>4. \A j \in 0..L : S[j] <= S[L]
    <2> DEFINE P == {h \in 0..L : S[L - h] <= S[L]}
    <2>1. 0 \in P
      <3>1. L - 0 = L /\ 0 \in 0..L /\ L \in 0..L
        BY <1>1
      <3> QED BY <1>3, <3>1
    <2>2. \A h \in 0..(L - 1) : h \in P => h + 1 \in P
      <3>1. ASSUME NEW h \in 0..(L - 1), S[L - h] <= S[L]
            PROVE  S[L - (h + 1)] <= S[L]
        <4>1. /\ L - h \in 1..L /\ (L - h) - 1 = L - (h + 1) /\ L - h \in 0..L
              /\ L - (h + 1) \in 0..L /\ L \in 0..L
          BY <1>1
        <4>2. S[L - h] = S[L - (h + 1)] + b[L - h] /\ b[L - h] \in Nat
          BY <1>b, <4>1
        <4>3. S[L - h] \in Nat /\ S[L] \in Nat /\ S[L - (h + 1)] \in Nat
          BY <1>3, <4>1
        <4> QED BY <3>1, <4>2, <4>3
      <3>2. \A h \in 0..(L - 1) : h + 1 \in 0..L
        BY <1>1
      <3> QED BY <3>1, <3>2
    <2> HIDE DEF P
    <2>3. 0..L \subseteq P
      BY <1>1, <2>1, <2>2, InductionTo
    <2>4. ASSUME NEW j \in 0..L PROVE S[j] <= S[L]
      <3>1. L - j \in 0..L /\ L - (L - j) = j
        BY <1>1
      <3>2. S[L - (L - j)] <= S[L]
        BY <2>3, <3>1 DEF P
      <3> QED BY <3>1, <3>2
    <2> QED BY <2>4
  <1>5. L \in 0..L /\ k \in 0..L /\ (k # 0 => k \in 1..L /\ k - 1 \in 0..L)
    BY <1>1 DEF L
  <1>6. k # 0 => S[k] = S[k - 1] + x.bits[module[d].cases[c][k]]
                 /\ x.bits[module[d].cases[c][k]] \in Nat
    BY <1>1, <1>2, <1>5
  <1> QED BY <1>a, <1>3, <1>4, <1>5, <1>6 DEF S

LEMMA WidestIsUnique ==
  ASSUME module \in Modules, NEW d \in Index, NEW x, Summed(module, x, d),
         NEW v \in Nat, IsWidest(module, x, d, Len(module[d].cases), v),
         NEW w \in Nat, IsWidest(module, x, d, Len(module[d].cases), w)
  PROVE  v = w
  <1>1. ASSUME NEW a \in Nat, IsWidest(module, x, d, Len(module[d].cases), a),
               NEW b \in Nat, IsWidest(module, x, d, Len(module[d].cases), b)
        PROVE  a <= b
    BY <1>1 DEF IsWidest
  <1>2. v <= w /\ w <= v
    BY <1>1
  <1> QED BY <1>2

\* A declaration is as wide as its widest case.
LEMMA WidestDecides ==
  ASSUME module \in Modules, NEW d \in Index, NEW x, Summed(module, x, d),
         NEW w \in Nat, IsWidest(module, x, d, Len(module[d].cases), w)
  PROVE  x.declBits[d] = Capped(module[d].tag + w)
  <1>1. PICK v \in Nat : /\ IsWidest(module, x, d, Len(module[d].cases), v)
                         /\ x.declBits[d] = Capped(module[d].tag + v)
    BY DEF Summed, WidthRead
  <1> QED BY <1>1, WidestIsUnique

LEMMA SumBeyond ==
  ASSUME module \in Modules, NEW d \in Index, NEW x, Summed(module, x, d),
         NEW c \in 1..Len(module[d].cases), NEW k \in 0..Len(module[d].cases[c]),
         x.sum[d][c][k] > WordMax
  PROVE  x.declBits[d] = Beyond
  <1>1. PICK w \in Nat : /\ IsWidest(module, x, d, Len(module[d].cases), w)
                         /\ x.declBits[d] = Capped(module[d].tag + w)
    BY DEF Summed, WidthRead
  <1>2. /\ x.sum[d][c][k] \in Nat /\ CaseSum(module, x, d, c) \in Nat
        /\ x.sum[d][c][k] <= CaseSum(module, x, d, c)
    BY SumTypes
  <1>3. CaseSum(module, x, d, c) <= w
    BY <1>1 DEF IsWidest
  <1>4. w > WordMax
    BY <1>2, <1>3, ConstantTypes
  <1>5. module[d].tag \in Nat
    BY ModuleTypes
  <1>6. module[d].tag + w > WordMax
    BY <1>4, <1>5, ConstantTypes
  <1> QED BY <1>1, <1>6 DEF Capped

LEMMA FieldBeyond ==
  ASSUME module \in Modules, NEW d \in Index, NEW x, Summed(module, x, d),
         NEW c \in 1..Len(module[d].cases), NEW k \in 1..Len(module[d].cases[c]),
         x.bits[module[d].cases[c][k]] = Beyond
  PROVE  x.declBits[d] = Beyond
  <1>1. k \in 0..Len(module[d].cases[c]) /\ k # 0
    BY CaseTypes
  <1>2. /\ x.sum[d][c][k] = x.sum[d][c][k - 1] + Beyond
        /\ x.sum[d][c][k - 1] \in Nat
    BY <1>1, SumTypes
  <1>3. x.sum[d][c][k] > WordMax
    BY <1>2, BoundTypes, ConstantTypes
  <1> QED BY <1>1, <1>3, SumBeyond

-----------------------------------------------------------------------------
(***************************************************************************)
(* seki_type_resolve and resolve_named_expanding.                          *)
(***************************************************************************)
LEMMA UsedExpand ==
  ASSUME module \in Modules, NEW x, NEW y, Reading(module, x), NEW r \in Ref,
         Used(module, r), NEW n \in NamesOf(r)
  PROVE  Tells(module, table, x, y, Call("expand", n, 0))
  <1> DEFINE f == Call("expand", n, 0)
  <1>1. f.op = "expand" /\ f.subject = n /\ f.depth = 0
    BY DEF Call
  <1> HIDE DEF f
  <1>2. x.name[n] # Nothing => Room(module, {n}) < Count /\ Room(module, {n}) \in Nat
    BY UsedRoom, RoomTypes
  <1>3. ExpandTells(module, x, f)
    BY <1>1, <1>2 DEF ExpandTells
  <1>4. Tells(module, table, x, y, f)
    BY <1>1, <1>3 DEF Tells
  <1> QED BY <1>4 DEF f

LEMMA UsedResolve ==
  ASSUME NEW m, NEW tab, NEW x, NEW y, NEW r, Used(m, r)
  PROVE  Tells(m, tab, x, y, Call("resolve", r, 0))
  <1> DEFINE f == Call("resolve", r, 0)
  <1>1. f.op = "resolve" /\ f.subject = r /\ Len(f.got) = 0
    BY DEF Call
  <1> HIDE DEF f
  <1>2. ResolveTells(m, tab, x, y, f)
    BY <1>1 DEF ResolveTells
  <1>3. Tells(m, tab, x, y, f)
    BY <1>1, <1>2 DEF Tells
  <1> QED BY <1>3 DEF f

\* A resolution that fails for what it was asked, or in a full table.
LEMMA TellNothing ==
  ASSUME IInv, KnowInv, TellInv, phase = "run", Top.op \in Resolving, Return(Invalid),
         ASSUME NEW x, NEW y, Reading(module, x), TableReading(table, x, y)
         PROVE  Wanted(x, Top) = Nothing \/ Full(table)
  PROVE  TellInv'
  <1>1. ASSUME NEW x, NEW y, Reading(module, x), TableReading(table, x, y)
        PROVE  Replies(table, x, y, Top, Invalid)
    BY <1>1 DEF Replies, Finds, Resolving
  <1>2. Invalid \in Values /\ Top.op # "module"
    BY DEF Values, Resolving
  <1> QED BY <1>1, <1>2, TellReturn

LEMMA ResolveTell ==
  ASSUME IInv, KnowInv, TellInv,
         \/ ResolveName \/ ResolveBytes \/ ResolveArgument
         \/ ResolveDecision \/ ResolveOther
  PROVE  TellInv'
  <1> DEFINE r == Top.subject
  <1>0. /\ Top.op = "resolve" /\ Top.op \in Resolving /\ Top.op # "module"
        /\ r \in Ref /\ phase = "run" /\ Len(Top.got) \in Nat
        /\ ResolveKnows(module, table, Top) /\ module \in Modules
        /\ TableOK(table)
    BY ResolveTypes, TopKnows DEF ResolveName, ResolveBytes, IInv,
       ResolveArgument, ResolveDecision, ResolveOther, Running, Resolving, Knows
  <1>t. ASSUME NEW x, NEW y, Reading(module, x), TableReading(table, x, y)
        PROVE  /\ ResolveTells(module, table, x, y, Top) /\ RefRead(x, r)
               /\ Wanted(x, Top) = x.meaning[r] /\ Used(module, r)
    <2>1. ResolveTells(module, table, x, y, Top)
      BY <1>0, <1>t, TopTells DEF Tells
    <2>2. RefRead(x, r) /\ Wanted(x, Top) = x.meaning[r]
      BY <1>0, <1>t DEF Wanted, Reading
    <2> QED BY <2>1, <2>2 DEF ResolveTells
  <1>1. CASE ResolveName
    <2> DEFINE f == Call("expand", r.names[1], 0)
    <2>1. Goto(f) /\ NamesOf(r) = {r.names[1]} /\ r.form = "named"
      BY <1>0, <1>1, NamesOfRef DEF ResolveName
    <2>2. f.op = "expand" /\ f.subject = r.names[1] /\ f.op \in Resolving
      BY DEF Call, Resolving
    <2>3. ASSUME NEW x, NEW y, Reading(module, x), TableReading(table, x, y)
          PROVE  Tells(module, table, x, y, f) /\ Wanted(x, f) = Wanted(x, Top)
      <3>1. Wanted(x, f) = x.name[r.names[1]]
        BY <2>2 DEF Wanted
      <3>2. Wanted(x, Top) = x.name[r.names[1]] /\ Used(module, r)
        BY <1>t, <2>1, <2>3 DEF RefRead
      <3>3. Tells(module, table, x, y, f)
        BY <1>0, <2>1, <2>3, <3>2, UsedExpand
      <3> QED BY <3>1, <3>2, <3>3
    <2> HIDE DEF f, r
    <2> QED BY <1>0, <2>1, <2>2, <2>3, TellInstead
  <1>2. CASE ResolveBytes
    <2>0. r.form \in {"bytes", "digest"}
      BY <1>2 DEF ResolveBytes
    <2>1. CASE r.length = 0 /\ Return(Invalid)
      <3>1. ASSUME NEW x, NEW y, Reading(module, x), TableReading(table, x, y)
            PROVE  Wanted(x, Top) = Nothing
        BY <1>t, <2>0, <2>1, <3>1 DEF RefRead
      <3> HIDE DEF r
      <3> QED BY <1>0, <2>1, <3>1, TellNothing
    <2>2. CASE r.length # 0 /\ ReturnInterned(BytesOf(r))
      <3> DEFINE e == BytesOf(r)
      <3>1. /\ EntryOK(e, Len(table) + 1) /\ e.kind = r.form /\ e.a = r.length
        BY <1>0, <2>0, RefTypes DEF EntryOK, BytesOf, Entry
      <3> HIDE DEF e
      <3>2. ASSUME NEW tab, NEW v \in 1..Len(tab), tab[v] = e,
                   NEW x, NEW y, Reading(module, x), TableReading(tab, x, y),
                   TableReading(table, x, y)
            PROVE  y.meaning[v] = Wanted(x, Top) /\ OctetsOf(e)
        <4>1. Wanted(x, Top) = <<r.form, r.length>> /\ Used(module, r)
          BY <1>t, <2>0, <2>2, <3>2 DEF RefRead
        <4>2. EntryRead(tab, x, y, v)
          BY <3>2 DEF TableReading
        <4>3. OctetsOf(e)
          BY <1>0, <3>1, <4>1 DEF OctetsOf
        <4> QED BY <2>0, <3>1, <3>2, <4>1, <4>2, <4>3 DEF EntryRead
      <3>3. ReturnInterned(e)
        BY <2>2 DEF e
      <3> HIDE DEF r
      <3> QED BY <1>0, <3>1, <3>2, <3>3, TellInterned
    <2> QED BY <1>2, <2>1, <2>2 DEF ResolveBytes
  <1>3. CASE ResolveArgument
    <2> DEFINE n == r.names[Len(Top.got) + 1]
               f == Call("expand", n, 0)
    <2>1. Push(f) /\ r.form = "applied" /\ Len(r.names) = 2 /\ Len(Top.got) < 2
      BY <1>3 DEF ResolveArgument
    <2>2. n \in Nat /\ n \in NamesOf(r)
      <3>1. Len(Top.got) + 1 \in {1, 2}
        BY <1>0, <2>1
      <3> QED BY <1>0, <2>1, <3>1, RefTypes, NamesOfRef
    <2>3. f \in AnyFrame
      <3>1. 0 \in 0..MaxDepth
        BY ConstantTypes
      <3> HIDE DEF n
      <3>2. FrameOK(f, 0)
        BY <2>2, <3>1, ExpandCalled
      <3> QED BY <3>2 DEF FrameOK
    <2>4. f.op = "expand" /\ f.subject = n
      BY DEF Call
    <2>5. ASSUME NEW x, NEW y, Reading(module, x), TableReading(table, x, y)
          PROVE  Tells(module, table, x, y, f) /\ Needs(module, table, x, Top, f)
      <3>1. Tells(module, table, x, y, f)
        BY <1>0, <1>t, <2>2, <2>5, UsedExpand
      <3>2. Needs(module, table, x, Top, f)
        BY <1>0, <2>4 DEF Needs, Wanted
      <3> QED BY <3>1, <3>2
    <2> HIDE DEF f
    <2> QED BY <1>0, <2>1, <2>3, <2>5, TellPush
  <1>4. CASE ResolveDecision
    <2> DEFINE a == Top.got[1]
               b == Top.got[2]
               p == r.names[1]
               q == r.names[2]
    <2>1. Len(Top.got) = 2 /\ Top.got # <<>> /\ r.form = "applied" /\ Len(r.names) = 2
      BY <1>0, <1>4, ResolveTypes DEF ResolveDecision, ResolveKnows
    <2>2. ASSUME NEW x, NEW y, Reading(module, x), TableReading(table, x, y)
          PROVE  /\ Finds(table, y, a, x.name[p]) /\ Finds(table, y, b, x.name[q])
                 /\ Wanted(x, Top) =
                      IF x.name[p] = Nothing \/ x.name[q] = Nothing THEN Nothing
                      ELSE <<"decision", x.name[p], x.name[q]>>
      <3>1. ResolveTells(module, table, x, y, Top) /\ 1 \in 1..2 /\ 2 \in 1..2
        BY <1>t, <2>2
      <3>2. Finds(table, y, a, x.name[p]) /\ Finds(table, y, b, x.name[q])
        BY <2>1, <3>1 DEF ResolveTells
      <3> QED BY <1>t, <2>1, <2>2, <3>2 DEF RefRead
    <2> HIDE DEF p, q
    <2>3. CASE (a = Invalid \/ b = Invalid) /\ Return(Invalid)
      <3>1. ASSUME NEW x, NEW y, Reading(module, x), TableReading(table, x, y)
            PROVE  Wanted(x, Top) = Nothing \/ Full(table)
        BY <2>2, <2>3, <3>1 DEF Finds
      <3> HIDE DEF a, b, r
      <3> QED BY <1>0, <2>3, <3>1, TellNothing
    <2>4. CASE a # Invalid /\ b # Invalid /\ ReturnInterned(DecisionOf(a, b))
      <3> DEFINE e == DecisionOf(a, b)
      <3>1. a \in 1..Len(table) /\ b \in 1..Len(table)
        <4>1. a \in Types(Len(table)) /\ b \in Types(Len(table))
          BY <1>0, <2>1, ResolveTypes
        <4> QED BY <2>4, <4>1 DEF Types
      <3>2. EntryOK(e, Len(table) + 1) /\ e.kind = "decision" /\ e.a = a /\ e.b = b
        <4>1. a \in Nat /\ b \in Nat /\ (Len(table) + 1) - 1 = Len(table)
          BY <3>1, TopKnows
        <4> QED BY <3>1, <4>1 DEF EntryOK, DecisionOf, Entry
      <3>3. ReturnInterned(e)
        BY <2>4
      <3> HIDE DEF e
      <3>4. ASSUME NEW tab, NEW v \in 1..Len(tab), tab[v] = e,
                   NEW x, NEW y, Reading(module, x), TableReading(tab, x, y),
                   TableReading(table, x, y)
            PROVE  y.meaning[v] = Wanted(x, Top) /\ OctetsOf(e)
        <4>1. y.meaning[a] = x.name[p] /\ y.meaning[b] = x.name[q]
          BY <2>2, <2>4, <3>4 DEF Finds
        <4>2. x.name[p] # Nothing /\ x.name[q] # Nothing
          BY <1>0, <3>1, <3>4, <4>1, EntryTypes
        <4>3. Wanted(x, Top) = <<"decision", x.name[p], x.name[q]>>
          BY <2>2, <3>4, <4>2
        <4>4. EntryRead(tab, x, y, v)
          BY <3>4 DEF TableReading
        <4>5. y.meaning[v] = <<"decision", y.meaning[a], y.meaning[b]>>
          BY <3>2, <3>4, <4>4 DEF EntryRead
        <4>6. OctetsOf(e)
          BY <3>2 DEF OctetsOf
        <4> QED BY <4>1, <4>3, <4>5, <4>6
      <3> HIDE DEF a, b, r
      <3> QED BY <1>0, <3>2, <3>3, <3>4, TellInterned
    <2> QED BY <1>4, <2>3, <2>4 DEF ResolveDecision
  <1>5. CASE ResolveOther
    <2>1. /\ r.form = "applied" /\ Len(r.names) # 2 /\ Return(Invalid)
      BY <1>5 DEF ResolveOther
    <2>2. ASSUME NEW x, NEW y, Reading(module, x), TableReading(table, x, y)
          PROVE  Wanted(x, Top) = Nothing
      BY <1>t, <2>1, <2>2 DEF RefRead
    <2> HIDE DEF r
    <2> QED BY <1>0, <2>1, <2>2, TellNothing
  <1> QED BY <1>1, <1>2, <1>3, <1>4, <1>5

LEMMA LeadsFound ==
  ASSUME NEW n
  PROVE  Leads(module, {n}) = AliasFound(n)
  BY DEF Leads, Aliases, AliasFound, Found

LEMMA ExpandTell ==
  ASSUME IInv, KnowInv, TellInv, ExpandAlias \/ ExpandName \/ ExpandTooDeep
  PROVE  TellInv'
  <1> DEFINE n == Top.subject
  <1>0. /\ Top.op = "expand" /\ Top.op \in Resolving /\ Top.op # "module"
        /\ n \in Nat /\ phase = "run" /\ module \in Modules
        /\ Top.depth \in Nat /\ TableOK(table)
    BY TopTypes, ConstantTypes DEF ExpandAlias, ExpandName, ExpandTooDeep, Running, Resolving,
       FrameOK, SubjectOK, IInv, AnyFrame
  <1>t. ASSUME NEW x, NEW y, Reading(module, x), TableReading(table, x, y)
        PROVE  /\ x.name[n] = Nothing \/ Top.depth + Room(module, {n}) < Count
               /\ Wanted(x, Top) = x.name[n] /\ NameRead(module, x, n)
    <2>1. ExpandTells(module, x, Top)
      BY <1>0, <1>t, TopTells DEF Tells
    <2> QED BY <1>0, <1>t, <2>1 DEF Wanted, Reading, ExpandTells
  <1>1. CASE ExpandAlias
    <2>1. PICK d \in AliasFound(n) :
            IF Target(d).form = "named"
            THEN Goto(Call("expand", Target(d).names[1], Top.depth + 1))
            ELSE Goto(Call("resolve", Target(d), 0))
      BY <1>1 DEF ExpandAlias
    <2>2. /\ d \in Index /\ module[d].kind = "alias" /\ module[d].name = n
          /\ d \in Leads(module, {n}) /\ d \in Aliases(module)
      BY LeadsFound DEF AliasFound, Found, Aliases
    <2> DEFINE r == Target(d)
    <2>3. r \in Ref /\ r = module[d].cases[1][1] /\ Onward(module, d) = NamesOf(r)
      BY <1>0, <2>2, ModuleTypes DEF Target, Onward
    <2>4. Used(module, r)
      <3>1. Len(module[d].cases) = 1 /\ Len(module[d].cases[1]) = 1
        BY <1>0, <2>2, ModulesAssumption
      <3> QED BY <2>2, <2>3, <3>1 DEF Used
    <2> HIDE DEF r
    <2>5. ASSUME NEW x, Reading(module, x)
          PROVE  x.name[n] = x.meaning[r] /\ RefRead(x, r)
      BY <2>2, <2>3, <2>5 DEF Reading, DeclarationRead
    <2>6. CASE r.form = "named"
      <3> DEFINE f == Call("expand", r.names[1], Top.depth + 1)
      <3>1. /\ f.op = "expand" /\ f.subject = r.names[1] /\ f.op \in Resolving
            /\ f.depth = Top.depth + 1
        BY DEF Call, Resolving
      <3>2. NamesOf(r) = {r.names[1]} /\ Goto(f)
        BY <2>1, <2>3, <2>6, NamesOfRef DEF r
      <3> HIDE DEF f
      <3>3. ASSUME NEW x, NEW y, Reading(module, x), TableReading(table, x, y)
            PROVE  Tells(module, table, x, y, f) /\ Wanted(x, f) = Wanted(x, Top)
        <4>1. Wanted(x, f) = x.name[r.names[1]] /\ x.name[r.names[1]] = x.name[n]
          BY <2>5, <2>6, <3>1, <3>3 DEF Wanted, RefRead
        <4>2. ASSUME x.name[n] # Nothing
              PROVE  f.depth + Room(module, {f.subject}) < Count
          <5>1. Room(module, {r.names[1]}) + 1 <= Room(module, {n})
            BY <1>0, <2>2, <2>3, <3>2, <3>3, <4>2, RoomLeft
          <5>2. Top.depth + Room(module, {n}) < Count
            BY <1>t, <3>3, <4>2
          <5>3. Room(module, {r.names[1]}) \in Nat /\ Room(module, {n}) \in Nat
            BY RoomTypes, ConstantTypes
          <5> QED BY <1>0, <3>1, <5>1, <5>2, <5>3, ConstantTypes
        <4>3. Tells(module, table, x, y, f)
          BY <3>1, <4>1, <4>2 DEF Tells, ExpandTells
        <4> QED BY <1>t, <3>3, <4>1, <4>3
      <3> HIDE DEF n
      <3> QED BY <1>0, <3>1, <3>2, <3>3, TellInstead
    <2>7. CASE r.form # "named"
      <3> DEFINE f == Call("resolve", r, 0)
      <3>1. f.op = "resolve" /\ f.subject = r /\ f.op \in Resolving
        BY DEF Call, Resolving
      <3>2. Goto(f)
        BY <2>1, <2>7 DEF r
      <3>3. ASSUME NEW x, NEW y, Reading(module, x), TableReading(table, x, y)
            PROVE  Tells(module, table, x, y, f) /\ Wanted(x, f) = Wanted(x, Top)
        <4>1. Wanted(x, f) = x.meaning[r]
          BY <3>1 DEF Wanted
        <4>2. Tells(module, table, x, y, f)
          BY <2>4, UsedResolve
        <4> QED BY <1>t, <2>5, <3>3, <4>1, <4>2
      <3> HIDE DEF f, n
      <3> QED BY <1>0, <3>1, <3>2, <3>3, TellInstead
    <2> QED BY <2>6, <2>7
  <1>2. CASE ExpandName
    <2>0. AliasFound(n) = {} /\ Leads(module, {n}) = {}
      BY <1>2, LeadsFound DEF ExpandName
    <2>1. CASE n \in Builtin /\ ReturnInterned(Base(n))
      <3> DEFINE e == Base(n)
      <3>1. EntryOK(e, Len(table) + 1) /\ e.kind = "base" /\ e.a = n /\ ReturnInterned(e)
        BY <1>0, <2>1 DEF EntryOK, Base, Entry
      <3> HIDE DEF e
      <3>2. ASSUME NEW tab, NEW v \in 1..Len(tab), tab[v] = e,
                   NEW x, NEW y, Reading(module, x), TableReading(tab, x, y),
                   TableReading(table, x, y)
            PROVE  y.meaning[v] = Wanted(x, Top) /\ OctetsOf(e)
        <4>1. Wanted(x, Top) = <<"base", n>>
          BY <1>t, <2>0, <2>1, <3>2 DEF NameRead
        <4>2. EntryRead(tab, x, y, v)
          BY <3>2 DEF TableReading
        <4> QED BY <3>1, <3>2, <4>1, <4>2 DEF EntryRead, OctetsOf
      <3> HIDE DEF n
      <3> QED BY <1>0, <3>1, <3>2, TellInterned
    <2>2. ASSUME n \notin Builtin, NEW d \in Found(n), ReturnInterned(Declared(d))
          PROVE  TellInv'
      <3> DEFINE e == Declared(d)
      <3>1. d \in Index /\ module[d].kind # "alias" /\ d \in Nat /\ module[d].name = n
        BY <2>0, ConstantTypes DEF AliasFound, Found
      <3>2. /\ EntryOK(e, Len(table) + 1) /\ e.kind = "declared" /\ e.a = d
            /\ ReturnInterned(e)
        BY <2>2, <3>1 DEF EntryOK, Declared, Entry
      <3> HIDE DEF e
      <3>3. ASSUME NEW tab, NEW v \in 1..Len(tab), tab[v] = e,
                   NEW x, NEW y, Reading(module, x), TableReading(tab, x, y),
                   TableReading(table, x, y)
            PROVE  y.meaning[v] = Wanted(x, Top) /\ OctetsOf(e)
        <4>1. DeclarationRead(module, x, d)
          BY <3>1, <3>3 DEF Reading
        <4>2. Wanted(x, Top) = <<"declared", d>>
          BY <1>t, <2>2, <3>1, <3>3, <4>1 DEF DeclarationRead
        <4>3. EntryRead(tab, x, y, v)
          BY <3>3 DEF TableReading
        <4> QED BY <3>2, <3>3, <4>2, <4>3 DEF EntryRead, OctetsOf
      <3> HIDE DEF n
      <3> QED BY <1>0, <3>2, <3>3, TellInterned
    <2>3. CASE n \notin Builtin /\ Found(n) = {} /\ Return(Invalid)
      <3>1. ASSUME NEW x, NEW y, Reading(module, x), TableReading(table, x, y)
            PROVE  Wanted(x, Top) = Nothing
        <4>1. \A d \in Index : module[d].name # n
          BY <2>3 DEF Found
        <4> QED BY <1>t, <2>3, <3>1, <4>1 DEF NameRead
      <3> HIDE DEF n
      <3> QED BY <1>0, <2>3, <3>1, TellNothing
    <2> QED BY <1>2, <2>1, <2>2, <2>3 DEF ExpandName
  <1>3. CASE ExpandTooDeep
    <2>1. Return(Invalid) /\ Top.depth >= MaxDepth
      BY <1>3 DEF ExpandTooDeep
    <2>2. ASSUME NEW x, NEW y, Reading(module, x), TableReading(table, x, y)
          PROVE  Wanted(x, Top) = Nothing
      <3>1. Room(module, {n}) \in Nat
        BY RoomTypes, ConstantTypes
      <3>2. ~(Top.depth + Room(module, {n}) < Count)
        BY <1>0, <2>1, <3>1, ConstantTypes, ChainAssumption
      <3> QED BY <1>t, <2>2, <3>2
    <2> HIDE DEF n
    <2> QED BY <1>0, <2>1, <2>2, TellNothing
  <1> QED BY <1>1, <1>2, <1>3

-----------------------------------------------------------------------------
(***************************************************************************)
(* value_bits.                                                             *)
(***************************************************************************)
LEMMA BelowTop ==
  ASSUME IInv, KnowInv, TellInv, NEW x, NEW y, Reading(module, x),
         TableReading(table, x, y), Top.op # "module"
  PROVE  \E f : /\ FrameOK(f, Len(table)) /\ f.depth \in Nat
                /\ Waits(module, table, f, Top) /\ Needs(module, table, x, f, Top)
                /\ Tells(module, table, x, y, f)
  <1> DEFINE f == stack[Len(stack) - 1]
  <1>1. Len(stack) > 1 /\ Len(stack) \in Nat /\ Len(stack) - 1 \in 1..Len(stack)
    BY TopTypes, TopKnows
  <1>2. FrameOK(f, Len(table))
    BY <1>1 DEF IInv, StackOK
  <1>3. f.depth \in Nat
    BY <1>2, ConstantTypes DEF FrameOK, AnyFrame
  <1> QED BY <1>1, <1>2, <1>3, TopKnows, TopTells

LEMMA MeasuredInTable ==
  ASSUME IInv, KnowInv, TellInv, NEW x, NEW y, Reading(module, x),
         TableReading(table, x, y), Top.op = "value"
  PROVE  Top.subject \in 1..Len(table)
  <1>1. PICK f : /\ FrameOK(f, Len(table))
                 /\ Waits(module, table, f, Top) /\ Needs(module, table, x, f, Top)
                 /\ Tells(module, table, x, y, f)
    BY BelowTop
  <1>2. WaitsValue(module, table, f, Top)
    BY <1>1 DEF Waits
  <1>3. TableOK(table) /\ Len(table) \in Nat
    BY TopKnows
  <1>4. CASE f.op = "value"
    <2>1. /\ f.subject \in 1..Len(table) /\ table[f.subject].kind = "decision"
          /\ Top.subject \in {table[f.subject].a, table[f.subject].b}
      BY <1>2, <1>4 DEF WaitsValue
    <2>2. Top.subject \in 1..(f.subject - 1)
      BY <1>3, <2>1 DEF TableOK, EntryOK
    <2> QED BY <1>3, <2>1, <2>2
  <1>5. CASE f.op = "declared"
    <2>1. Len(f.got) = 1 /\ f.got[1] # Invalid /\ Top.subject = f.got[1]
      BY <1>2, <1>5 DEF WaitsValue
    <2>2. f.got # <<>> /\ DeclaredTells(module, table, x, y, f)
      BY <1>1, <1>5, <2>1 DEF Tells
    <2> QED BY <2>1, <2>2 DEF DeclaredTells, Finds
  <1>6. CASE f.op = "module"
    <2>1. CASE module[f.subject].kind = "alias"
      BY <1>1, <1>3, <1>6, <2>1 DEF Needs
    <2>2. CASE module[f.subject].kind # "alias"
      BY <1>2, <1>6, <2>2 DEF WaitsValue
    <2> QED BY <2>1, <2>2
  <1> QED BY <1>2, <1>4, <1>5, <1>6 DEF WaitsValue

LEMMA ValueTell ==
  ASSUME IInv, KnowInv, TellInv,
         \/ ValueTooDeep \/ ValueBase \/ ValueArgument
         \/ ValueDecision \/ ValueDeclared
  PROVE  TellInv'
  <1> DEFINE t == Top.subject
             e == table[Top.subject]
             dep == Top.depth
  <1>0. /\ Top.op = "value" /\ Top.op \notin Resolving /\ Top.op # "module"
        /\ dep \in 0..MaxDepth /\ dep \in Nat /\ Top.got \in Seq(Values)
        /\ phase = "run" /\ ValueKnows(module, table, Top)
        /\ Len(Top.got) \in Nat /\ TableOK(table) /\ module \in Modules
    <2>1. Running("value")
      BY DEF ValueTooDeep, ValueBase, ValueArgument, ValueDecision, ValueDeclared
    <2>2. dep \in 0..MaxDepth /\ dep \in Nat /\ Top.got \in Seq(Values)
      BY TopTypes, ConstantTypes DEF FrameOK, AnyFrame
    <2>3. ValueKnows(module, table, Top)
      BY <2>1, TopKnows DEF Running, Knows
    <2> QED BY <2>1, <2>2, <2>3 DEF Running, Resolving, IInv
  <1>t. ASSUME NEW x, NEW y, Reading(module, x), TableReading(table, x, y)
        PROVE  /\ t \in 1..Len(table) /\ EntryRead(table, x, y, t)
               /\ ValueTells(table, x, y, Top) /\ EntryOK(e, t)
               /\ y.bits[t] \in Nat /\ y.depth[t] \in Nat /\ y.depth[t] >= 1
    <2>1. t \in 1..Len(table)
      BY <1>0, <1>t, MeasuredInTable
    <2>2. EntryRead(table, x, y, t) /\ EntryOK(e, t)
      BY <1>0, <1>t, <2>1 DEF TableReading, TableOK
    <2>3. ValueTells(table, x, y, Top)
      BY <1>0, <1>t, TopTells DEF Tells
    <2>4. y.bits[t] \in 0..Beyond /\ y.depth[t] \in 1..TooDeep
      BY <1>0, <1>t, <2>1, EntryTypes
    <2> QED BY <2>1, <2>2, <2>3, <2>4, BoundTypes
  <1>a. ASSUME NEW v \in Values, Return(v),
               ASSUME NEW x, NEW y, Reading(module, x), TableReading(table, x, y)
               PROVE  Measures(table, y, t, dep, v)
        PROVE  TellInv'
    <2>1. ASSUME NEW x, NEW y, Reading(module, x), TableReading(table, x, y)
          PROVE  Replies(table, x, y, Top, v)
      BY <1>0, <1>a, <2>1 DEF Replies
    <2> HIDE DEF t, e, dep
    <2> QED BY <1>0, <1>a, <2>1, TellReturn
  <1>b. ASSUME NEW n \in Nat, Return(Checked(n)),
               ASSUME NEW x, NEW y, Reading(module, x), TableReading(table, x, y)
               PROVE  y.bits[t] = Capped(n)
        PROVE  TellInv'
    <2>1. /\ Checked(n) \in Values
          /\ Checked(n) = Invalid => Capped(n) = Beyond
          /\ Checked(n) # Invalid => Checked(n) = Capped(n) /\ Checked(n) <= WordMax
      BY ConstantTypes DEF Checked, Capped, Values, Invalid
    <2>2. ASSUME NEW x, NEW y, Reading(module, x), TableReading(table, x, y)
          PROVE  Measures(table, y, t, dep, Checked(n))
      <3>1. y.bits[t] = Capped(n)
        BY <1>b, <2>2
      <3> QED BY <2>1, <3>1 DEF Measures
    <2> QED BY <1>a, <1>b, <2>1, <2>2
  <1>c. Invalid \in Values
    BY DEF Values
  <1>k. Kind = e.kind
    BY DEF Kind
  <1> HIDE DEF t, e, dep
  <1>2. CASE ValueTooDeep
    <2>1. Return(Invalid) /\ ~(dep < MaxDepth /\ t \in DOMAIN table)
          /\ DOMAIN table = 1..Len(table)
      BY <1>0, <1>2 DEF ValueTooDeep, Measurable, TableOK, t, dep
    <2>2. ASSUME NEW x, NEW y, Reading(module, x), TableReading(table, x, y)
          PROVE  Measures(table, y, t, dep, Invalid)
      <3>1. t \in 1..Len(table) /\ y.depth[t] \in Nat /\ y.depth[t] >= 1
        BY <1>t, <2>2
      <3>2. dep + y.depth[t] > MaxDepth
        BY <1>0, <2>1, <3>1, ConstantTypes
      <3> QED BY <3>2 DEF Measures
    <2> QED BY <1>a, <1>c, <2>1, <2>2
  <1>3. CASE ValueBase
    <2>0. t \in 1..Len(table) /\ EntryOK(e, t) /\ e \in Entry
      BY <1>0, <1>3 DEF ValueBase, Measurable, TableOK, t, e, EntryOK
    <2>1. CASE e.kind = "base" /\ Return(Widths[e.a])
      <3>1. Widths[e.a] \in Nat /\ Widths[e.a] <= WordMax
        BY <2>0, <2>1, TableAssumption DEF EntryOK
      <3>2. Checked(Widths[e.a]) = Widths[e.a] /\ Capped(Widths[e.a]) = Widths[e.a]
        BY <3>1, ConstantTypes DEF Checked, Capped
      <3>3. ASSUME NEW x, NEW y, Reading(module, x), TableReading(table, x, y)
            PROVE  y.bits[t] = Capped(Widths[e.a])
        BY <1>t, <2>1, <3>2, <3>3 DEF EntryRead, t, e
      <3> QED BY <1>b, <2>1, <3>1, <3>2, <3>3
    <2>2. CASE e.kind \in {"bytes", "digest"} /\ Return(Checked(8 * e.a))
      <3>1. 8 * e.a \in Nat
        BY <2>0 DEF Entry
      <3>2. ASSUME NEW x, NEW y, Reading(module, x), TableReading(table, x, y)
            PROVE  y.bits[t] = Capped(8 * e.a)
        BY <1>t, <2>2, <3>2 DEF EntryRead, t, e
      <3> QED BY <1>b, <2>2, <3>1, <3>2
    <2> QED BY <1>3, <1>k, <2>1, <2>2 DEF ValueBase, e
  <1>4. CASE ValueArgument
    <2> DEFINE argument == IF Top.got = <<>> THEN e.a ELSE e.b
               f == Call("value", argument, dep + 1)
    <2>0. /\ e.kind = "decision" /\ dep + 1 \in 0..MaxDepth /\ Push(f)
          /\ t \in 1..Len(table)
      <3>1. e.kind = "decision" /\ dep < MaxDepth /\ t \in 1..Len(table)
        BY <1>0, <1>4, <1>k DEF ValueArgument, Measurable, TableOK, t, dep
      <3>2. Push(f)
        BY <1>4 DEF ValueArgument, e, dep
      <3> QED BY <1>0, <3>1, <3>2, ConstantTypes
    <2>1. argument \in Nat
      BY <1>0, <2>0 DEF TableOK, EntryOK, Entry, e, t
    <2> HIDE DEF argument
    <2>2. f \in AnyFrame /\ f.op = "value" /\ f.depth = dep + 1
      <3>1. f \in AnyFrame /\ f.op = "value"
        BY <2>0, <2>1, ValueFrame
      <3> QED BY <3>1 DEF Call
    <2>3. ASSUME NEW x, NEW y
          PROVE  Tells(module, table, x, y, f) /\ Needs(module, table, x, Top, f)
      <3>1. Tells(module, table, x, y, f)
        BY CallTells
      <3> HIDE DEF f
      <3>2. Needs(module, table, x, Top, f)
        BY <1>0, <2>2 DEF Needs, Resolving, dep
      <3> QED BY <3>1, <3>2
    <2> HIDE DEF f
    <2> QED BY <1>0, <2>0, <2>2, <2>3, TellPush
  <1>5. CASE ValueDecision
    <2>0. e.kind = "decision" /\ t \in 1..Len(table) /\ Top.got # <<>> /\ Len(Top.got) <= 2
      <3>1. e.kind = "decision" /\ t \in 1..Len(table) /\ Top.got # <<>>
        BY <1>0, <1>5, <1>k DEF ValueDecision, Measurable, TableOK, t
      <3> QED BY <1>0, <3>1 DEF ValueKnows, t, e
    <2>1. ASSUME NEW x, NEW y, Reading(module, x), TableReading(table, x, y)
          PROVE  /\ Measures(table, y, e.a, dep + 1, Top.got[1])
                 /\ Len(Top.got) = 2 => Measures(table, y, e.b, dep + 1, Top.got[2])
                 /\ y.bits[t] = Capped(1 + Larger(y.bits[e.a], y.bits[e.b]))
                 /\ y.depth[t] = Within(1 + Larger(y.depth[e.a], y.depth[e.b]))
                 /\ y.bits[e.a] \in 0..Beyond /\ y.bits[e.b] \in 0..Beyond
                 /\ y.depth[e.a] \in Nat /\ y.depth[e.b] \in Nat
      <3>1. ValueTells(table, x, y, Top) /\ EntryRead(table, x, y, t) /\ EntryOK(e, t)
        BY <1>t, <2>1
      <3>2. /\ Measures(table, y, e.a, dep + 1, Top.got[1])
            /\ Len(Top.got) = 2 => Measures(table, y, e.b, dep + 1, Top.got[2])
        BY <2>0, <3>1 DEF ValueTells, e, t, dep
      <3>3. /\ y.bits[t] = Capped(1 + Larger(y.bits[e.a], y.bits[e.b]))
            /\ y.depth[t] = Within(1 + Larger(y.depth[e.a], y.depth[e.b]))
        BY <2>0, <3>1 DEF EntryRead, e, t
      <3>4. e.a \in 1..Len(table) /\ e.b \in 1..Len(table)
        <4>1. e.a \in 1..(t - 1) /\ e.b \in 1..(t - 1) /\ Len(table) \in Nat
          BY <1>0, <2>0, <3>1, TopKnows DEF EntryOK
        <4> QED BY <2>0, <4>1
      <3>5. /\ y.bits[e.a] \in 0..Beyond /\ y.bits[e.b] \in 0..Beyond
            /\ y.depth[e.a] \in 1..TooDeep /\ y.depth[e.b] \in 1..TooDeep
        BY <1>0, <2>1, <3>4, EntryTypes
      <3> QED BY <3>2, <3>3, <3>5, BoundTypes
    <2>2. CASE /\ Invalid \in {Top.got[k] : k \in DOMAIN Top.got}
               /\ Return(Invalid)
      <3>0. Top.got[1] = Invalid \/ (Len(Top.got) = 2 /\ Top.got[2] = Invalid)
        <4>1. PICK k \in DOMAIN Top.got : Top.got[k] = Invalid
          BY <2>2
        <4>2. k \in 1..Len(Top.got)
          BY <1>0
        <4>3. k = 1 \/ (k = 2 /\ Len(Top.got) = 2)
          <5> DEFINE L == Len(Top.got)
          <5>1. L \in Nat /\ L <= 2 /\ k \in 1..L
            BY <1>0, <2>0, <4>2
          <5> HIDE DEF L
          <5>2. k = 1 \/ (k = 2 /\ L = 2)
            BY <5>1
          <5> QED BY <5>2 DEF L
        <4> QED BY <4>1, <4>3
      <3>1. ASSUME NEW x, NEW y, Reading(module, x), TableReading(table, x, y)
            PROVE  Measures(table, y, t, dep, Invalid)
        <4>1. PICK u \in {e.a, e.b} : Measures(table, y, u, dep + 1, Invalid)
          BY <2>1, <3>0, <3>1
        <4> DEFINE p == y.bits[e.a]
                   q == y.bits[e.b]
                   i == y.depth[e.a]
                   j == y.depth[e.b]
        <4>2. /\ p \in Nat /\ q \in Nat /\ i \in Nat /\ j \in Nat
              /\ y.bits[t] = Capped(1 + Larger(p, q))
              /\ y.depth[t] = Within(1 + Larger(i, j))
          BY <2>1, <3>1, BoundTypes
        <4>3. y.bits[u] \in {p, q} /\ y.depth[u] \in {i, j}
          OBVIOUS
        <4>4. y.bits[u] = Beyond \/ Full(table) \/ dep + 1 + y.depth[u] > MaxDepth
          BY <4>1 DEF Measures
        <4> HIDE DEF p, q, i, j
        <4>5. CASE y.bits[u] = Beyond
          <5>1. 1 + Larger(p, q) > WordMax
            <6>1. Beyond <= Larger(p, q) /\ Larger(p, q) \in Nat
              BY <4>2, <4>3, <4>5, LargerTypes
            <6> QED BY <6>1, BoundTypes, ConstantTypes
          <5>2. y.bits[t] = Beyond
            BY <4>2, <5>1 DEF Capped
          <5> QED BY <5>2 DEF Measures
        <4>6. CASE dep + 1 + y.depth[u] > MaxDepth
          <5>1. y.depth[u] <= Larger(i, j) /\ Larger(i, j) \in Nat /\ y.depth[u] \in Nat
            BY <4>2, <4>3, LargerTypes
          <5>2. y.depth[t] = TooDeep \/ y.depth[t] = 1 + Larger(i, j)
            BY <4>2 DEF Within
          <5>3. dep + y.depth[t] > MaxDepth
            BY <1>0, <4>6, <5>1, <5>2, BoundTypes, ConstantTypes
          <5> QED BY <5>3 DEF Measures
        <4>7. CASE Full(table)
          BY <4>7 DEF Measures
        <4> QED BY <4>4, <4>5, <4>6, <4>7
      <3> QED BY <1>a, <1>c, <2>2, <3>1
    <2>3. CASE /\ Len(Top.got) = 2
               /\ Invalid \notin {Top.got[k] : k \in DOMAIN Top.got}
               /\ Return(Checked(1 + Larger(Top.got[1], Top.got[2])))
      <3> DEFINE n == 1 + Larger(Top.got[1], Top.got[2])
      <3>1. /\ Top.got[1] \in Values /\ Top.got[2] \in Values
            /\ 1 \in DOMAIN Top.got /\ 2 \in DOMAIN Top.got
        BY <1>0, <2>3
      <3>2. Top.got[1] \in Nat /\ Top.got[2] \in Nat
            /\ Top.got[1] # Invalid /\ Top.got[2] # Invalid
        BY <2>3, <3>1 DEF Values
      <3>3. n \in Nat
        BY <3>2, LargerTypes
      <3>4. ASSUME NEW x, NEW y, Reading(module, x), TableReading(table, x, y)
            PROVE  y.bits[t] = Capped(n)
        <4>1. Top.got[1] = y.bits[e.a] /\ Top.got[2] = y.bits[e.b]
          BY <2>1, <2>3, <3>2, <3>4 DEF Measures
        <4> QED BY <2>1, <3>4, <4>1
      <3>5. Return(Checked(n))
        BY <2>3
      <3> HIDE DEF n
      <3> QED BY <1>b, <3>3, <3>4, <3>5
    <2> QED BY <1>5, <2>2, <2>3 DEF ValueDecision
  <1>6. CASE ValueDeclared
    <2> DEFINE f == Call("declared", e.a, dep + 1)
    <2>0. /\ e.kind = "declared" /\ dep + 1 \in 0..MaxDepth
          /\ t \in 1..Len(table) /\ e.a \in Index
      <3>1. e.kind = "declared" /\ dep < MaxDepth /\ t \in 1..Len(table)
        BY <1>0, <1>6, <1>k DEF ValueDeclared, Measurable, TableOK, t, dep
      <3>2. e.a \in Index
        BY <1>0, <3>1 DEF TableOK, EntryOK, e, t
      <3> QED BY <1>0, <3>1, <3>2, ConstantTypes
    <2>1. CASE Top.got = <<>> /\ Push(f)
      <3>1. SubjectOK(f)
        BY <2>0 DEF SubjectOK, Call
      <3>2. f \in AnyFrame
        BY <2>0, <3>1, CallFrame DEF Ops, FrameOK
      <3>3. /\ f.op = "declared" /\ f.subject = e.a /\ f.got = <<>> /\ f.depth = dep + 1
            /\ f.case = 1 /\ f.field = 1 /\ f.payload = 0 /\ f.widest = 0
        BY DEF Call
      <3> HIDE DEF f
      <3>4. ASSUME NEW x, NEW y, Reading(module, x), TableReading(table, x, y)
            PROVE  Tells(module, table, x, y, f) /\ Needs(module, table, x, Top, f)
        <4> DEFINE L == Len(module[e.a].cases)
        <4>1. L \in Nat /\ \A c \in 1..L : Len(module[e.a].cases[c]) \in Nat
          <5>1. module[e.a].cases \in Seq(Seq(Ref))
            BY <1>0, <2>0, ModuleTypes
          <5>2. \A c \in 1..L : Len(module[e.a].cases[c]) \in Nat
            BY <1>0, <2>0, CaseTypes
          <5> QED BY <5>1, <5>2
        <4>2. ASSUME 1 <= L PROVE x.sum[e.a][1][0] = 0
          <5>1. 1 \in 1..Len(module[e.a].cases)
            BY <4>1, <4>2
          <5>2. DeclarationRead(module, x, e.a)
            BY <2>0, <3>4 DEF Reading
          <5>3. CaseRead(module, x, e.a, 1)
            BY <5>1, <5>2 DEF DeclarationRead, WidthRead
          <5> QED BY <5>3 DEF CaseRead
        <4>3. IsWidest(module, x, e.a, 0, 0)
          <5>1. \A c \in 1..0 : FALSE
            OBVIOUS
          <5> QED BY <5>1 DEF IsWidest
        <4>4. DeclaredTells(module, table, x, y, f)
          <5>1. f.case - 1 = 0 /\ f.field - 1 = 0 /\ Len(f.got) # 2 /\ f.got = <<>>
            BY <3>3
          <5>2. f.case <= L + 1 /\ (f.case <= L => f.field <= Len(module[e.a].cases[1]) + 1)
            <6>1. f.case <= L => 1 \in 1..L
              BY <3>3, <4>1
            <6>2. f.case <= L => Len(module[e.a].cases[1]) \in Nat
              BY <4>1, <6>1
            <6>3. f.case = 1 /\ f.field = 1
              BY <3>3
            <6>4. f.case <= L + 1
              BY <4>1, <6>3
            <6>5. f.case <= L => f.field <= Len(module[e.a].cases[1]) + 1
              BY <6>2, <6>3
            <6> QED BY <6>4, <6>5
          <5> QED BY <3>3, <4>2, <4>3, <5>1, <5>2 DEF DeclaredTells
        <4>5. Needs(module, table, x, Top, f)
          BY <1>0, <3>3 DEF Needs, Resolving, dep
        <4> QED BY <3>3, <4>4, <4>5 DEF Tells
      <3> QED BY <1>0, <2>1, <3>2, <3>4, TellPush
    <2>2. CASE Top.got # <<>> /\ Return(Top.got[1])
      <3>1. Top.got[1] \in Values
        BY <1>0, <2>2
      <3>2. ASSUME NEW x, NEW y, Reading(module, x), TableReading(table, x, y)
            PROVE  Measures(table, y, t, dep, Top.got[1])
        <4>1. MeasuresBody(table, x, e.a, dep + 1, Top.got[1])
          BY <1>t, <2>0, <2>2, <3>2 DEF ValueTells, e, t, dep
        <4>2. y.bits[t] = x.declBits[e.a] /\ y.depth[t] = x.declDepth[e.a]
          BY <1>t, <2>0, <3>2 DEF EntryRead, e, t
        <4>3. y.depth[t] \in Nat
          BY <1>t, <3>2
        <4>4. (dep + 1) + y.depth[t] > MaxDepth + 1 => dep + y.depth[t] > MaxDepth
          BY <1>0, <4>3, ConstantTypes
        <4> QED BY <4>1, <4>2, <4>4 DEF Measures, MeasuresBody
      <3> QED BY <1>a, <2>2, <3>1, <3>2
    <2> QED BY <1>6, <2>1, <2>2 DEF ValueDeclared, e, dep
  <1> QED BY <1>2, <1>3, <1>4, <1>5, <1>6

-----------------------------------------------------------------------------
(***************************************************************************)
(* declared_value_bits.                                                    *)
(***************************************************************************)
LEMMA DeclaredWithin ==
  ASSUME IInv, KnowInv, TellInv, NEW x, NEW y, Reading(module, x),
         TableReading(table, x, y), Top.op = "declared"
  PROVE  Top.depth >= 1 /\ Top.depth \in Nat
  <1>1. PICK f : /\ FrameOK(f, Len(table)) /\ f.depth \in Nat
                 /\ Waits(module, table, f, Top) /\ Needs(module, table, x, f, Top)
    BY BelowTop
  <1>2. f.op = "value"
    BY <1>1 DEF Waits, WaitsDeclared
  <1>3. Top.depth = f.depth + 1
    BY <1>1, <1>2 DEF Needs
  <1> QED BY <1>1, <1>3

\* Where the loop stands, in numbers.
LEMMA LoopPlace ==
  ASSUME IInv, Top.op \in {"module", "declared"}, Top.subject \in Index
  PROVE  /\ Len(Cases) \in Nat
         /\ \A c \in 1..Len(Cases) : Len(Cases[c]) \in Nat
         /\ Top.case \in Nat /\ Top.case >= 1 /\ Top.field \in Nat /\ Top.field >= 1
         /\ AtField \/ AtCaseEnd => Top.case \in 1..Len(Cases)
         /\ AtField => Top.field \in 1..Len(Cases[Top.case])
  <1>1. Cases \in Seq(Seq(Ref))
    BY ModuleTypes DEF IInv, Cases
  <1>2. Top.case \in Nat \ {0} /\ Top.field \in Nat \ {0}
    BY LoopTypes
  <1>3. Len(Cases) \in Nat /\ \A c \in 1..Len(Cases) : Len(Cases[c]) \in Nat
    BY <1>1
  <1>4. AtField \/ AtCaseEnd => Top.case \in 1..Len(Cases)
    BY <1>2, <1>3 DEF AtField, AtCaseEnd
  <1>5. AtField => Top.field \in 1..Len(Cases[Top.case])
    BY <1>2, <1>3, <1>4 DEF AtField
  <1> QED BY <1>2, <1>3, <1>4, <1>5

\* What a field's failure says of the declaration.
LEMMA FieldFails ==
  ASSUME module \in Modules, NEW x, Reading(module, x), NEW d \in Index,
         NEW c \in 1..Len(module[d].cases), NEW k \in 1..Len(module[d].cases[c]),
         NEW depth \in Nat, depth >= 1,
         \/ x.bits[module[d].cases[c][k]] = Beyond
         \/ Full(table)
         \/ /\ x.depth[module[d].cases[c][k]] \in Nat
            /\ (depth + 1) + x.depth[module[d].cases[c][k]] > MaxDepth
  PROVE  MeasuresBody(table, x, d, depth, Invalid)
  <1> DEFINE r == module[d].cases[c][k]
  <1>1. CASE x.bits[r] = Beyond
    BY <1>1, ReadSummed, FieldBeyond DEF MeasuresBody
  <1>2. CASE x.depth[r] \in Nat /\ (depth + 1) + x.depth[r] > MaxDepth
    <2>1. x.declDepth[d] = TooDeep \/ 2 + x.depth[r] <= x.declDepth[d]
      BY DEF Reading, DeclarationRead
    <2>2. x.declDepth[d] \in Nat /\ TooDeep = MaxDepth + 1 /\ MaxDepth \in Nat
      BY ReadTypes, BoundTypes, ConstantTypes
    <2> HIDE DEF r
    <2> DEFINE p == x.depth[r]
               q == x.declDepth[d]
    <2>3. /\ p \in Nat /\ q \in Nat /\ (depth + 1) + p > MaxDepth
          /\ q = MaxDepth + 1 \/ 2 + p <= q
      BY <1>2, <2>1, <2>2
    <2> HIDE DEF p, q
    <2>4. depth + q > MaxDepth + 1
      BY <2>2, <2>3
    <2> QED BY <2>4 DEF MeasuresBody, q
  <1>3. CASE Full(table)
    BY <1>3 DEF MeasuresBody
  <1> QED BY <1>1, <1>2, <1>3

LEMMA DeclaredTell ==
  ASSUME IInv, KnowInv, TellInv,
         \/ DeclaredTooDeep \/ FieldResolve \/ FieldMeasure \/ FieldAdd
         \/ CaseEnd \/ DeclaredEnd
  PROVE  TellInv'
  <1> DEFINE d == Top.subject
             dep == Top.depth
             c == Top.case
             k == Top.field
             r == FieldAt(module, Top)
  <1>0. /\ Top.op = "declared" /\ Top.op # "module" /\ phase = "run"
        /\ d \in Index /\ module \in Modules
        /\ DeclaredKnows(module, table, Top)
        /\ Top \in AnyFrame /\ Top.got \in Seq(Values)
        /\ dep \in 0..MaxDepth /\ TableOK(table)
        /\ Invalid \in Values /\ Len(Top.got) \in Nat
        /\ Top.payload \in Nat /\ Top.widest \in Nat
    <2>1. Running("declared")
      BY DEF DeclaredTooDeep, FieldResolve, FieldMeasure, FieldAdd, CaseEnd,
         DeclaredEnd, Measuring
    <2>2. Top.subject \in Index
      BY <2>1, TopTypes DEF Running, FrameOK, SubjectOK
    <2>3. DeclaredKnows(module, table, Top)
      BY <2>1, TopKnows DEF Running, Knows
    <2>4. /\ Top \in AnyFrame /\ Top.got \in Seq(Values) /\ Top.depth \in 0..MaxDepth
          /\ Top.payload \in 0..WordMax /\ Top.widest \in 0..WordMax
      BY <2>1, <2>2, LoopTypes DEF Running
    <2>5. Top.payload \in Nat /\ Top.widest \in Nat
      BY <2>4, ConstantTypes
    <2> QED BY <2>1, <2>2, <2>3, <2>4, <2>5 DEF Running, Values, IInv
  <1>p. /\ Len(Cases) \in Nat /\ \A i \in 1..Len(Cases) : Len(Cases[i]) \in Nat
        /\ c \in Nat /\ c >= 1 /\ k \in Nat /\ k >= 1
        /\ AtField \/ AtCaseEnd => c \in 1..Len(Cases)
        /\ AtField => k \in 1..Len(Cases[c])
        /\ Cases = module[d].cases
    BY <1>0, LoopPlace DEF Cases
  <1>f. AtField => r = module[d].cases[c][k] /\ r \in Ref /\ Used(module, r)
    <2>1. AtField => r = module[d].cases[c][k] /\ r \in Ref
      BY <1>0, LoopAt, LoopTypes DEF FieldAt
    <2> QED BY <1>0, <1>p, <2>1 DEF Used
  <1>t. ASSUME NEW x, NEW y, Reading(module, x), TableReading(table, x, y)
        PROVE  /\ DeclaredTells(module, table, x, y, Top)
               /\ dep >= 1 /\ dep \in Nat
    <2>1. dep >= 1 /\ dep \in Nat
      BY <1>0, <1>t, DeclaredWithin
    <2> QED BY <1>0, <1>t, <2>1, TopTells DEF Tells
  <1>a. ASSUME NEW v \in Values, Return(v),
               ASSUME NEW x, NEW y, Reading(module, x), TableReading(table, x, y)
               PROVE  MeasuresBody(table, x, d, dep, v)
        PROVE  TellInv'
    <2>1. ASSUME NEW x, NEW y, Reading(module, x), TableReading(table, x, y)
          PROVE  Replies(table, x, y, Top, v)
      <3>1. MeasuresBody(table, x, d, dep, v)
        BY <1>a, <2>1
      <3> QED BY <1>0, <3>1 DEF Replies, Resolving
    <2> HIDE DEF d, dep, c, k, r
    <2> QED BY <1>0, <1>a, <2>1, TellReturn
  <1> HIDE DEF d, dep, c, k, r
  <1>1. CASE DeclaredTooDeep
    <2>1. Return(Invalid) /\ dep >= MaxDepth
      BY <1>1 DEF DeclaredTooDeep, dep
    <2>2. ASSUME NEW x, NEW y, Reading(module, x), TableReading(table, x, y)
          PROVE  MeasuresBody(table, x, d, dep, Invalid)
      <3>1. x.declDepth[d] \in 2..TooDeep
        BY <1>0, <2>2, DeclarationTypes
      <3>2. dep + x.declDepth[d] > MaxDepth + 1
        BY <1>0, <2>1, <3>1, BoundTypes, ConstantTypes
      <3> QED BY <3>2 DEF MeasuresBody
    <2> QED BY <1>0, <1>a, <2>1, <2>2
  <1>2. CASE FieldResolve
    <2> DEFINE f == Call("resolve", r, 0)
    <2>1. Push(f) /\ AtField /\ Top.got = <<>>
      BY <1>0, <1>2, LoopAt DEF FieldResolve, r, d
    <2>2. f \in AnyFrame /\ f.op = "resolve" /\ f.subject = r
      BY <1>f, <2>1, ResolveCalled DEF FrameOK, Call
    <2>3. \A x, y : Tells(module, table, x, y, f)
      BY <1>f, <2>1, UsedResolve
    <2> HIDE DEF f
    <2>4. ASSUME NEW x PROVE Needs(module, table, x, Top, f)
      BY <1>0, <2>2 DEF Needs, Resolving, Wanted, r
    <2> QED BY <1>0, <2>1, <2>2, <2>3, <2>4, TellPush
  <1>3. CASE FieldMeasure
    <2>0. AtField /\ Len(Top.got) = 1 /\ Top.got # <<>> /\ dep < MaxDepth
      BY <1>0, <1>3 DEF FieldMeasure, Measuring, dep
    <2>1. ASSUME NEW x, NEW y, Reading(module, x), TableReading(table, x, y)
          PROVE  Finds(table, y, Top.got[1], x.meaning[r])
      BY <1>t, <2>0, <2>1 DEF DeclaredTells, r
    <2>2. CASE Top.got[1] = Invalid /\ Return(Invalid)
      <3>1. ASSUME NEW x, NEW y, Reading(module, x), TableReading(table, x, y)
            PROVE  MeasuresBody(table, x, d, dep, Invalid)
        <4>1. x.meaning[r] = Nothing \/ Full(table)
          BY <2>1, <2>2, <3>1 DEF Finds
        <4>2. x.bits[r] = Beyond \/ Full(table)
          BY <1>f, <2>0, <3>1, <4>1, NothingIsBeyond
        <4>3. dep \in Nat /\ dep >= 1
          BY <1>t, <3>1
        <4> QED BY <1>0, <1>f, <1>p, <2>0, <3>1, <4>2, <4>3, FieldFails
      <3> QED BY <1>0, <1>a, <2>2, <3>1
    <2>3. CASE Top.got[1] # Invalid /\ Push(Call("value", Top.got[1], dep + 1))
      <3> DEFINE f == Call("value", Top.got[1], dep + 1)
      <3>1. Top.got[1] \in Values
        BY <1>0, <2>0
      <3>2. Top.got[1] \in Nat
        BY <2>3, <3>1 DEF Values
      <3>3. dep + 1 \in 0..MaxDepth
        BY <1>0, <2>0, ConstantTypes
      <3>4. f \in AnyFrame /\ f.op = "value" /\ f.subject = Top.got[1] /\ f.depth = dep + 1
        <4>1. f \in AnyFrame /\ f.op = "value" /\ f.subject = Top.got[1]
          BY <3>2, <3>3, ValueFrame
        <4> QED BY <4>1 DEF Call
      <3>5. \A x, y : Tells(module, table, x, y, f)
        BY CallTells
      <3>6. Push(f)
        BY <2>3
      <3> HIDE DEF f
      <3>7. ASSUME NEW x PROVE Needs(module, table, x, Top, f)
        BY <1>0, <3>4 DEF Needs, Resolving, dep
      <3> QED BY <1>0, <3>4, <3>5, <3>6, <3>7, TellPush
    <2> QED BY <1>3, <2>2, <2>3 DEF FieldMeasure, dep
  <1>4. CASE FieldAdd
    <2>0. AtField /\ Len(Top.got) = 2 /\ Top.got # <<>>
      BY <1>0, <1>4 DEF FieldAdd
    <2>k. Top.got[1] # Invalid /\ Top.got[1] \in Values /\ Top.got[2] \in Values
      BY <1>0, <2>0 DEF DeclaredKnows
    <2>1. ASSUME NEW x, NEW y, Reading(module, x), TableReading(table, x, y)
          PROVE  /\ Top.got[2] = Invalid =>
                      \/ x.bits[r] = Beyond \/ Full(table)
                      \/ x.depth[r] \in Nat /\ (dep + 1) + x.depth[r] > MaxDepth
                 /\ Top.got[2] # Invalid => Top.got[2] = x.bits[r]
                 /\ Top.payload = x.sum[d][c][k - 1]
                 /\ x.sum[d][c][k] = x.sum[d][c][k - 1] + x.bits[r]
                 /\ x.sum[d][c][k - 1] \in Nat /\ x.bits[r] \in Nat
      <3>1. /\ Finds(table, y, Top.got[1], x.meaning[r])
            /\ Measures(table, y, Top.got[1], dep + 1, Top.got[2])
            /\ Top.payload = x.sum[d][c][k - 1]
        <4>1. Top.case <= Len(module[Top.subject].cases)
          BY <2>0 DEF AtField, Cases
        <4> QED BY <1>t, <2>0, <2>1, <4>1 DEF DeclaredTells, r, d, c, k, dep
      <3>2. Top.got[1] \in 1..Len(table) /\ y.meaning[Top.got[1]] = x.meaning[r]
        BY <2>k, <3>1 DEF Finds
      <3>3. y.bits[Top.got[1]] = x.bits[r] /\ y.depth[Top.got[1]] = x.depth[r]
        BY <1>0, <1>f, <2>0, <2>1, <3>2, Agreement
      <3>4. y.depth[Top.got[1]] \in 1..TooDeep
        BY <1>0, <2>1, <3>2, EntryTypes
      <3>5. x.depth[r] \in Nat
        BY <3>3, <3>4, BoundTypes
      <3>6. k \in 0..Len(module[d].cases[c]) /\ k # 0 /\ c \in 1..Len(module[d].cases)
        <4>1. \A n \in Nat : \A i \in 1..n : i \in 0..n /\ i # 0
          OBVIOUS
        <4> QED BY <1>p, <2>0, <4>1
      <3>7. /\ x.sum[d][c][k] = x.sum[d][c][k - 1] + x.bits[r]
            /\ x.sum[d][c][k - 1] \in Nat /\ x.bits[r] \in Nat
        <4>1. r = module[d].cases[c][k]
          BY <1>f, <2>0
        <4>2. Summed(module, x, d)
          BY <1>0, <2>1, ReadSummed
        <4> QED BY <1>0, <3>6, <4>1, <4>2, SumTypes
      <3> QED BY <3>1, <3>3, <3>5, <3>7 DEF Measures
    <2>2. CASE Return(Invalid) /\ (Top.got[2] = Invalid \/ Top.payload + Top.got[2] > WordMax)
      <3>1. ASSUME NEW x, NEW y, Reading(module, x), TableReading(table, x, y)
            PROVE  MeasuresBody(table, x, d, dep, Invalid)
        <4>1. CASE Top.got[2] = Invalid
          <5>1. dep \in Nat /\ dep >= 1
            BY <1>t, <3>1
          <5>2. \/ x.bits[r] = Beyond \/ Full(table)
                \/ x.depth[r] \in Nat /\ (dep + 1) + x.depth[r] > MaxDepth
            BY <2>1, <3>1, <4>1
          <5>3. /\ c \in 1..Len(module[d].cases) /\ k \in 1..Len(module[d].cases[c])
                /\ r = module[d].cases[c][k]
            BY <1>f, <1>p, <2>0
          <5> QED BY <1>0, <3>1, <5>1, <5>2, <5>3, FieldFails
        <4>2. CASE Top.got[2] # Invalid /\ Top.payload + Top.got[2] > WordMax
          <5>1. Top.payload + Top.got[2] = x.sum[d][c][k]
            BY <2>1, <3>1, <4>2
          <5>2. k \in 0..Len(module[d].cases[c]) /\ c \in 1..Len(module[d].cases)
            <6>1. \A n \in Nat : \A i \in 1..n : i \in 0..n
              OBVIOUS
            <6> QED BY <1>p, <2>0, <6>1
          <5>3. x.declBits[d] = Beyond
            BY <1>0, <3>1, <4>2, <5>1, <5>2, ReadSummed, SumBeyond
          <5> QED BY <5>3 DEF MeasuresBody
        <4> QED BY <2>2, <4>1, <4>2
      <3> QED BY <1>0, <1>a, <2>2, <3>1
    <2>3. CASE ~(Top.got[2] = Invalid \/ Top.payload + Top.got[2] > WordMax)
      <3> DEFINE f == [Top EXCEPT !.payload = @ + Top.got[2], !.field = @ + 1,
                                  !.got = <<>>]
      <3>1. /\ f.op = Top.op /\ f.subject = d /\ f.case = c
            /\ f.field = k + 1 /\ f.got = <<>> /\ f.depth = Top.depth
            /\ f.payload = Top.payload + Top.got[2] /\ f.widest = Top.widest
        BY <1>0 DEF AnyFrame, d, c, k
      <3>2. Goto(f)
        BY <1>4, <2>3 DEF FieldAdd
      <3> HIDE DEF f
      <3>3. ASSUME NEW x, NEW y, Reading(module, x), TableReading(table, x, y)
            PROVE  Tells(module, table, x, y, f)
        <4>1. DeclaredTells(module, table, x, y, Top)
          BY <1>t, <3>3
        <4>2. f.payload = x.sum[d][c][k]
          BY <2>1, <2>3, <3>1, <3>3
        <4>3. (k + 1) - 1 = k /\ k + 1 <= Len(module[d].cases[c]) + 1
              /\ c <= Len(module[d].cases) + 1
          <5>1. \A n \in Nat : \A i \in 1..n : (i + 1) - 1 = i /\ i + 1 <= n + 1 /\ i <= n + 1
            OBVIOUS
          <5> QED BY <1>p, <2>0, <5>1
        <4>4. IsWidest(module, x, d, c - 1, Top.widest)
          BY <4>1 DEF DeclaredTells, d, c
        <4>5. DeclaredTells(module, table, x, y, f)
          BY <3>1, <4>2, <4>3, <4>4 DEF DeclaredTells
        <4> QED BY <1>0, <3>1, <4>5 DEF Tells
      <3> QED BY <1>0, <3>1, <3>2, <3>3, TellLoop DEF d
    <2> QED BY <1>4, <2>2, <2>3 DEF FieldAdd
  <1>5. CASE CaseEnd
    <2> DEFINE f == [Top EXCEPT !.widest = Larger(@, Top.payload), !.payload = 0,
                                !.case = @ + 1, !.field = 1]
    <2>1. /\ f.op = Top.op /\ f.subject = d /\ f.case = c + 1
          /\ f.field = 1 /\ f.got = Top.got /\ f.depth = Top.depth
          /\ f.payload = 0 /\ f.widest = Larger(Top.widest, Top.payload)
      BY <1>0 DEF AnyFrame, d, c
    <2>2. Goto(f) /\ AtCaseEnd
      BY <1>5 DEF CaseEnd
    <2> HIDE DEF f
    <2>3. Top.got = <<>>
      BY <1>0, <2>2, LoopAt DEF DeclaredKnows, d
    <2>4. ASSUME NEW x, NEW y, Reading(module, x), TableReading(table, x, y)
          PROVE  Tells(module, table, x, y, f)
      <3> DEFINE L == Len(module[d].cases)
      <3>1. /\ c \in 1..L /\ L \in Nat /\ c <= L
            /\ (c + 1) - 1 = c /\ c + 1 <= L + 1 /\ 1 - 1 = 0
        <4>1. \A n \in Nat : \A i \in 1..n : i <= n /\ (i + 1) - 1 = i /\ i + 1 <= n + 1
          OBVIOUS
        <4> QED BY <1>p, <2>2, <4>1
      <3>2. DeclaredTells(module, table, x, y, Top)
        BY <1>t, <2>4
      <3>3. /\ k <= Len(module[d].cases[c]) + 1
            /\ Top.payload = x.sum[d][c][k - 1]
            /\ IsWidest(module, x, d, c - 1, Top.widest)
        BY <3>1, <3>2 DEF DeclaredTells, d, c, k
      <3>4. Top.payload = CaseSum(module, x, d, c)
        <4>1. k - 1 = Len(module[d].cases[c])
          <5>1. k > Len(module[d].cases[c]) /\ Len(module[d].cases[c]) \in Nat
            <6>1. k > Len(Cases[c])
              BY <2>2 DEF AtCaseEnd, c, k
            <6>2. Cases = module[d].cases /\ c \in 1..Len(Cases)
              BY <1>p, <2>2
            <6> QED BY <1>p, <6>1, <6>2
          <5>2. \A i, n \in Nat : i > n /\ i <= n + 1 => i - 1 = n
            OBVIOUS
          <5> QED BY <1>p, <3>3, <5>1, <5>2
        <4> QED BY <3>3, <4>1 DEF CaseSum
      <3>5. IsWidest(module, x, d, c, Larger(Top.widest, Top.payload))
        <4> DEFINE w == Larger(Top.widest, Top.payload)
        <4>1. /\ w \in Nat /\ Top.widest <= w /\ Top.payload <= w
              /\ w = Top.widest \/ w = Top.payload
          BY <1>0, LargerTypes
        <4>2. ASSUME NEW i \in 1..c PROVE CaseSum(module, x, d, i) <= w
          <5>1. CASE i = c
            BY <3>4, <4>1, <5>1
          <5>2. CASE i # c
            <6>1. i \in 1..(c - 1)
              BY <1>p, <5>2
            <6>2. CaseSum(module, x, d, i) <= Top.widest
              BY <3>3, <6>1 DEF IsWidest
            <6>3. i \in 1..L
              BY <1>p, <3>1
            <6>4. CaseSum(module, x, d, i) \in Nat
              <7>1. 0 \in 0..Len(module[d].cases[i])
                BY <1>0, <6>3, CaseTypes
              <7>2. Summed(module, x, d)
                BY <1>0, <2>4, ReadSummed
              <7> QED BY <1>0, <6>3, <7>1, <7>2, SumTypes
            <6> HIDE DEF w
            <6> QED BY <1>0, <4>1, <6>2, <6>4
          <5> QED BY <5>1, <5>2
        <4>3. w = 0 \/ \E i \in 1..c : CaseSum(module, x, d, i) = w
          <5>1. c \in 1..c
            BY <1>p
          <5>2. CASE w = Top.payload
            BY <3>4, <5>1, <5>2
          <5>3. CASE w = Top.widest
            <6>1. w = 0 \/ \E i \in 1..(c - 1) : CaseSum(module, x, d, i) = w
              BY <3>3, <5>3 DEF IsWidest
            <6>2. \A i \in 1..(c - 1) : i \in 1..c
              BY <1>p
            <6> QED BY <6>1, <6>2
          <5> QED BY <4>1, <5>2, <5>3
        <4> HIDE DEF w
        <4>4. IsWidest(module, x, d, c, w)
          BY <4>2, <4>3 DEF IsWidest
        <4> QED BY <4>4 DEF w
      <3>6. ASSUME c + 1 <= L
            PROVE  /\ 1 <= Len(module[d].cases[c + 1]) + 1
                   /\ x.sum[d][c + 1][0] = 0
        <4>1. c + 1 \in 1..L
          BY <3>1, <3>6
        <4>2. Len(module[d].cases[c + 1]) \in Nat
          BY <1>0, <4>1, CaseTypes
        <4>3. DeclarationRead(module, x, d)
          BY <1>0, <2>4 DEF Reading
        <4>4. CaseRead(module, x, d, c + 1)
          BY <4>1, <4>3 DEF DeclarationRead, WidthRead
        <4> QED BY <4>2, <4>4 DEF CaseRead
      <3>7. DeclaredTells(module, table, x, y, f)
        BY <2>1, <2>3, <3>1, <3>5, <3>6 DEF DeclaredTells
      <3> QED BY <1>0, <2>1, <3>7 DEF Tells
    <2> QED BY <1>0, <2>1, <2>2, <2>4, TellLoop DEF d
  <1>6. CASE DeclaredEnd
    <2> DEFINE n == module[d].tag + Top.widest
    <2>1. n \in Nat
      <3>1. module[d].tag \in Nat
        BY <1>0, ModuleTypes
      <3> QED BY <1>0, <3>1
    <2>2. Return(Checked(n)) /\ c > Len(module[d].cases)
      BY <1>6 DEF DeclaredEnd, AtEnd, Cases, c, d
    <2>3. ASSUME NEW x, NEW y, Reading(module, x), TableReading(table, x, y)
          PROVE  x.declBits[d] = Capped(n)
      <3>1. /\ c <= Len(module[d].cases) + 1
            /\ IsWidest(module, x, d, c - 1, Top.widest)
        BY <1>t, <2>3 DEF DeclaredTells, d, c
      <3>2. c - 1 = Len(module[d].cases)
        BY <1>p, <2>2, <3>1
      <3> QED BY <1>0, <2>3, <3>1, <3>2, ReadSummed, WidestDecides
    <2> HIDE DEF n
    <2>4. /\ Checked(n) \in Values
          /\ Checked(n) = Invalid => Capped(n) = Beyond
          /\ Checked(n) # Invalid => Checked(n) = Capped(n) /\ Checked(n) <= WordMax
      BY <2>1, ConstantTypes DEF Checked, Capped, Values, Invalid
    <2>5. ASSUME NEW x, NEW y, Reading(module, x), TableReading(table, x, y)
          PROVE  MeasuresBody(table, x, d, dep, Checked(n))
      BY <2>3, <2>4, <2>5 DEF MeasuresBody
    <2> QED BY <1>a, <2>2, <2>4, <2>5
  <1> QED BY <1>1, <1>2, <1>3, <1>4, <1>5, <1>6

-----------------------------------------------------------------------------
(***************************************************************************)
(* resolve_declarations.                                                   *)
(***************************************************************************)
LEMMA TellInterning ==
  ASSUME IInv, KnowInv, TellInv, phase = "run", Top.op = "module", Top.subject \in Index,
         module[Top.subject].kind # "alias",
         NEW e, e = Declared(Top.subject), HasRoom(e), table' = Interned(e),
         stack' = Append(stack, Call("value", Position(e), 0)),
         UNCHANGED <<module, phase, code>>
  PROVE  TellInv'
  <1> DEFINE tab == Interned(e)
             v == Position(e)
             f == Call("value", v, 0)
  <1>1. Top.subject \in Nat /\ Top.subject < Count /\ 0 \in 0..MaxDepth
    BY ConstantTypes DEF Index
  <1>2. EntryOK(e, Len(table) + 1) /\ OctetsOf(e)
    BY <1>1 DEF Declared, EntryOK, Entry, OctetsOf
  <1>3. /\ TableOK(tab) /\ Len(tab) \in Nat /\ Grown(table, tab)
        /\ v \in 1..Len(tab) /\ v \in Nat /\ tab[v] = e
    BY <1>2, TopKnows, InternGrows
  <1>4. OctetsUsed(module, table) => OctetsUsed(module, tab)
    BY <1>2, TopKnows, OctetsGrow
  <1>5. table' = tab /\ stack' = Append(stack, f) /\ module' = module /\ code' = code
    OBVIOUS
  <1> HIDE DEF tab, v
  <1>6. f \in AnyFrame /\ f.op = "value" /\ f.depth = 0
    <2>1. f \in AnyFrame /\ f.op = "value"
      BY <1>1, <1>3, ValueFrame
    <2> QED BY <2>1 DEF Call
  <1>7. \A x, y : Tells(module, tab, x, y, f)
    BY CallTells
  <1> HIDE DEF f
  <1>8. ASSUME NEW x PROVE Needs(module, tab, x, stack[Len(stack)], f)
    BY <1>6 DEF Needs, Resolving, Top
  <1>9. /\ TableOK(table) /\ StackOK(stack, Len(table)) /\ Knowing(module, table, stack)
        /\ stack \in Seq(AnyFrame) /\ Len(stack) >= 1
    BY TopKnows DEF IInv, KnowInv
  <1>10. ASSUME NEW x, NEW y, Reading(module, x), TableReading(tab, x, y)
         PROVE  /\ OctetsUsed(module, tab)
                /\ Telling(module, tab, x, y, Append(stack, f))
                /\ code = "A0-CHECK-0013" => Excused(module, tab, x)
    <2>1. TableReading(table, x, y)
      BY <1>3, <1>9, <1>10, ReadingShrinks
    <2>2. Telling(module, tab, x, y, stack)
      BY <1>3, <1>9, <1>10, <2>1, TopTells, TellingGrows
    <2>3. Telling(module, tab, x, y, Append(stack, f))
      BY <1>6, <1>7, <1>8, <1>9, <2>2, TellingPushed
    <2>4. ASSUME code = "A0-CHECK-0013" PROVE Excused(module, tab, x)
      <3>1. Excused(module, table, x)
        BY <1>10, <2>1, <2>4 DEF TellInv
      <3> QED BY <1>3, <1>9, <3>1, FullGrows DEF Excused
    <2>5. OctetsUsed(module, tab)
      BY <1>4, <1>10, <2>1 DEF TellInv
    <2> QED BY <2>3, <2>4, <2>5
  <1> QED BY <1>5, <1>10 DEF TellInv

\* The first entry is no decision: what it is too wide for, a field is too.
LEMMA FirstExcuses ==
  ASSUME module \in Modules, NEW x, NEW y, Reading(module, x), TableReading(table, x, y),
         TableOK(table), OctetsUsed(module, table), Opaque(module, table),
         Len(table) >= 1, Measures(table, y, 1, 0, Invalid)
  PROVE  Excused(module, table, x)
  <1> DEFINE e == table[1]
  <1>1. 1 \in 1..Len(table) /\ Len(table) \in Nat
    BY DEF TableOK
  <1>2. EntryOK(e, 1) /\ EntryRead(table, x, y, 1) /\ e \in Entry
    BY <1>1 DEF TableOK, TableReading, EntryOK
  <1>3. y.bits[1] = Beyond \/ Full(table) \/ y.depth[1] > MaxDepth
    <2>1. y.depth[1] \in 1..TooDeep
      BY <1>1, EntryTypes
    <2>2. 0 + y.depth[1] = y.depth[1]
      BY <2>1, BoundTypes
    <2> QED BY <2>2 DEF Measures
  <1> HIDE DEF e
  <1>4. CASE e.kind = "base"
    <2>1. y.bits[1] = Widths[e.a] /\ y.depth[1] = 1
      BY <1>2, <1>4 DEF EntryRead, e
    <2>2. Widths[e.a] \in Nat /\ Widths[e.a] <= WordMax
      BY <1>2, <1>4, TableAssumption DEF EntryOK
    <2>3. y.bits[1] # Beyond /\ ~(y.depth[1] > MaxDepth)
      BY <2>1, <2>2, BoundTypes, ConstantTypes
    <2> QED BY <1>3, <2>3 DEF Excused
  <1>5. CASE e.kind \in {"bytes", "digest"}
    <2>1. y.bits[1] = Capped(8 * e.a) /\ y.depth[1] = 1
      BY <1>2, <1>5 DEF EntryRead, e
    <2>2. PICK r \in Ref : Used(module, r) /\ r.form = e.kind /\ r.length = e.a
      BY <1>1, <1>5 DEF OctetsUsed, e
    <2>3. ASSUME y.bits[1] = Beyond PROVE x.bits[r] = Beyond
      BY <1>5, <2>1, <2>2, <2>3 DEF Reading, RefRead
    <2>4. ASSUME y.bits[1] = Beyond PROVE \E d \in Index : x.declBits[d] = Beyond
      BY <2>2, <2>3, <2>4, ReadSummed, FieldBeyond DEF Used
    <2>5. ~(y.depth[1] > MaxDepth)
      BY <2>1, ConstantTypes
    <2> QED BY <1>3, <2>4, <2>5 DEF Excused
  <1>6. CASE e.kind = "declared"
    <2>1. y.bits[1] = x.declBits[e.a] /\ y.depth[1] = x.declDepth[e.a] /\ e.a \in Index
      BY <1>2, <1>6 DEF EntryRead, EntryOK, e
    <2>2. module[e.a].kind # "alias"
      BY <1>1, <1>6 DEF Opaque, e
    <2>3. x.declDepth[e.a] \in 2..TooDeep
      BY <2>1, DeclarationTypes
    <2>4. y.depth[1] > MaxDepth => x.declDepth[e.a] = TooDeep
      BY <2>1, <2>3, BoundTypes, ConstantTypes
    <2> QED BY <1>3, <2>1, <2>2, <2>4 DEF Excused
  <1>7. CASE e.kind = "decision"
    <2>1. e.a \in 1..(1 - 1)
      BY <1>2, <1>7 DEF EntryOK
    <2> QED BY <2>1
  <1> QED BY <1>2, <1>4, <1>5, <1>6, <1>7 DEF Entry

LEMMA ModuleTell ==
  ASSUME IInv, KnowInv, TellInv,
         \/ ResolveField \/ ResolveCaseEnd \/ ResolveAlias
         \/ InternDeclaration \/ CheckWidth \/ Accept
  PROVE  TellInv'
  <1> DEFINE d == Top.subject
             r == FieldAt(module, Top)
  <1>0. /\ Top.op = "module" /\ phase = "run" /\ d \in 0..Count
        /\ ModuleKnows(module, table, Top) /\ module \in Modules
        /\ Top \in AnyFrame /\ Top.got \in Seq(Values)
        /\ Len(Top.got) \in Nat /\ TableOK(table) /\ Len(table) \in Nat
    <2>1. Running("module")
      BY DEF ResolveField, ResolveCaseEnd, ResolveAlias, InternDeclaration,
         CheckWidth, Accept
    <2>2. Top.subject \in 0..Count /\ Top \in AnyFrame /\ Top.got \in Seq(Values)
      BY <2>1, TopTypes DEF Running, FrameOK, SubjectOK, AnyFrame
    <2>3. ModuleKnows(module, table, Top)
      BY <2>1, TopKnows DEF Running, Knows
    <2>4. TableOK(table) /\ Len(table) \in Nat
      BY TopKnows
    <2> QED BY <2>1, <2>2, <2>3, <2>4 DEF Running, IInv
  <1>1. ASSUME d < Count PROVE d \in Index
    BY <1>0, <1>1, ConstantTypes DEF Index
  <1>p. ASSUME d \in Index
        PROVE  /\ Cases = module[d].cases
               /\ Len(Cases) \in Nat /\ \A i \in 1..Len(Cases) : Len(Cases[i]) \in Nat
               /\ Top.case \in Nat /\ Top.case >= 1
               /\ Top.field \in Nat /\ Top.field >= 1
               /\ AtField \/ AtCaseEnd => Top.case \in 1..Len(Cases)
               /\ AtField => Top.field \in 1..Len(Cases[Top.case])
               /\ module[d].kind = "alias" => Len(Cases) = 1 /\ Len(Cases[1]) = 1
    <2>1. Cases = module[d].cases
      BY DEF Cases
    <2>2. module[d].kind = "alias" => Len(Cases) = 1 /\ Len(Cases[1]) = 1
      BY <1>0, <1>p, <2>1, ModulesAssumption
    <2> QED BY <1>0, <1>p, <2>1, <2>2, LoopPlace
  <1>t. ASSUME NEW x, NEW y, Reading(module, x), TableReading(table, x, y)
        PROVE  ModuleTells(module, table, x, y, Top)
    BY <1>0, <1>t, TopTells DEF Tells
  <1>a. ASSUME NEW c, Refuse(c), c # "A0-CHECK-0013" PROVE TellInv'
    BY <1>a DEF Refuse, TellInv
  <1> HIDE DEF d, r
  <1>2. CASE ResolveField
    <2>1. d < Count /\ d \in Index /\ InField(module, Top) /\ AtField
      BY <1>0, <1>1, <1>2, LoopAt DEF ResolveField, d
    <2>f. r = module[d].cases[Top.case][Top.field] /\ r \in Ref /\ Used(module, r)
      <3>1. r = module[d].cases[Top.case][Top.field] /\ r \in Ref
            /\ r = Cases[Top.case][Top.field]
        BY <1>0, <2>1, LoopAt, LoopTypes DEF FieldAt, r, d
      <3> QED BY <1>p, <2>1, <3>1 DEF Used
    <2>2. CASE Top.got = <<>> /\ Push(Call("resolve", Cases[Top.case][Top.field], 0))
      <3> DEFINE f == Call("resolve", r, 0)
      <3>1. f \in AnyFrame /\ f.op = "resolve" /\ f.subject = r
        BY <2>f, ResolveCalled DEF FrameOK, Call
      <3>2. \A x, y : Tells(module, table, x, y, f)
        BY <2>f, UsedResolve
      <3>3. Push(f)
        BY <2>2, <2>f, <2>1, <1>p
      <3> HIDE DEF f
      <3>4. ASSUME NEW x PROVE Needs(module, table, x, Top, f)
        BY <1>0, <3>1 DEF Needs, Resolving, Wanted, r
      <3> QED BY <1>0, <3>1, <3>2, <3>3, <3>4, TellPush
    <2>3. CASE Refuse("A0-CHECK-0012")
      BY <1>a, <2>3
    <2>4. CASE /\ Top.got # <<>> /\ Top.got # <<Invalid>>
               /\ Goto([Top EXCEPT !.field = @ + 1, !.got = <<>>])
      <3> DEFINE f == [Top EXCEPT !.field = @ + 1, !.got = <<>>]
      <3>1. /\ f.op = Top.op /\ f.subject = Top.subject /\ f.case = Top.case
            /\ f.field = Top.field + 1 /\ f.got = <<>> /\ f.depth = Top.depth
        BY <1>0 DEF AnyFrame
      <3>2. Goto(f)
        BY <2>4
      <3> HIDE DEF f
      <3>3. Top.got[1] # Invalid
        BY <1>0, <2>4 DEF ModuleKnows
      <3>4. ASSUME NEW x, NEW y, Reading(module, x), TableReading(table, x, y)
            PROVE  Tells(module, table, x, y, f)
        <4>1. Finds(table, y, Top.got[1], x.meaning[r])
          BY <1>t, <2>1, <2>4, <3>4 DEF ModuleTells, r, d
        <4>2. Top.got[1] \in 1..Len(table)
          BY <3>3, <4>1 DEF Finds
        <4>3. Len(table) >= 1
          BY <1>0, <4>2
        <4>4. ModuleTells(module, table, x, y, f)
          BY <3>1, <4>3 DEF ModuleTells
        <4> QED BY <1>0, <3>1, <4>4 DEF Tells
      <3> QED BY <1>0, <3>1, <3>2, <3>4, TellLoop
    <2> QED BY <1>2, <2>2, <2>3, <2>4 DEF ResolveField
  <1>3. CASE ResolveCaseEnd
    <2> DEFINE f == [Top EXCEPT !.case = @ + 1, !.field = 1]
    <2>1. /\ f.op = Top.op /\ f.subject = Top.subject /\ f.case = Top.case + 1
          /\ f.field = 1 /\ f.got = Top.got /\ f.depth = Top.depth
      BY <1>0 DEF AnyFrame
    <2>2. Goto(f) /\ AtCaseEnd /\ d < Count /\ d \in Index
      BY <1>1, <1>3 DEF ResolveCaseEnd, d
    <2> HIDE DEF f
    <2>3. Top.got = <<>>
      BY <1>0, <2>2, LoopAt DEF ModuleKnows, d
    <2>4. ASSUME module[d].kind = "alias" PROVE Top.case + Top.field > 2
      <3>1. Top.case = 1
        <4>1. Top.case \in 1..Len(Cases) /\ Len(Cases) = 1
          BY <1>p, <2>2, <2>4
        <4>2. Top.case \in 1..1
          BY <4>1
        <4> QED BY <4>2
      <3>2. Top.field > 1
        BY <1>p, <2>2, <2>4, <3>1 DEF AtCaseEnd
      <3> QED BY <1>p, <2>2, <3>1, <3>2
    <2>5. ASSUME NEW x, NEW y, Reading(module, x), TableReading(table, x, y)
          PROVE  Tells(module, table, x, y, f)
      <3>1. module[d].kind = "alias" => Len(table) >= 1
        BY <1>t, <2>2, <2>4, <2>5 DEF ModuleTells, d
      <3>2. ModuleTells(module, table, x, y, f)
        BY <2>1, <2>3, <3>1 DEF ModuleTells, d
      <3> QED BY <1>0, <2>1, <3>2 DEF Tells
    <2> QED BY <1>0, <2>1, <2>2, <2>5, TellLoop
  <1>n. ASSUME AtEnd, d < Count, module[d].kind = "alias",
               NEW x, NEW y, Reading(module, x), TableReading(table, x, y)
        PROVE  Len(table) >= 1
    <2>1. Top.case > 1
      BY <1>1, <1>p, <1>n DEF AtEnd
    <2>2. Top.case + Top.field > 2
      BY <1>1, <1>p, <1>n, <2>1
    <2> QED BY <1>t, <1>n, <2>2 DEF ModuleTells, d
  <1>4. CASE ResolveAlias
    <2> DEFINE f == Call("value", 1, 0)
    <2>1. /\ Push(f) /\ d < Count /\ AtEnd
          /\ module[d].kind = "alias"
      BY <1>4 DEF ResolveAlias, d
    <2>2. f \in AnyFrame /\ f.op = "value" /\ f.depth = 0 /\ f.subject = 1
      <3>1. f \in AnyFrame /\ f.op = "value" /\ f.subject = 1
        BY ValueFrame, ConstantTypes
      <3> QED BY <3>1 DEF Call
    <2>3. \A x, y : Tells(module, table, x, y, f)
      BY CallTells
    <2> HIDE DEF f
    <2>4. ASSUME NEW x, NEW y, Reading(module, x), TableReading(table, x, y)
          PROVE  Needs(module, table, x, Top, f)
      <3>1. Len(table) >= 1
        BY <1>n, <2>1, <2>4
      <3> QED BY <1>0, <2>2, <3>1 DEF Needs, Resolving
    <2> QED BY <1>0, <2>1, <2>2, <2>3, <2>4, TellPush
  <1>5. CASE InternDeclaration
    <2>1. CASE Refuse("A0-CHECK-0014")
      BY <1>a, <2>1
    <2>2. Top.subject \in Index /\ module[Top.subject].kind # "alias"
      BY <1>1, <1>5 DEF InternDeclaration, d
    <2> QED BY <1>0, <1>5, <2>1, <2>2, TellInterning DEF InternDeclaration
  <1>6. CASE CheckWidth
    <2>0. /\ d < Count /\ d \in Index /\ Top.got # <<>> /\ AtEnd /\ Through(module, Top)
      <3>1. d < Count /\ d \in Index /\ Top.got # <<>> /\ AtEnd
        BY <1>1, <1>6 DEF CheckWidth, d
      <3> QED BY <1>0, <3>1, LoopAt DEF d
    <2>1. CASE Top.got = <<Invalid>> /\ Refuse("A0-CHECK-0013")
      <3>1. Top.got[1] = Invalid
        BY <2>1
      <3>2. ASSUME NEW x, NEW y, Reading(module, x), TableReading(table, x, y)
            PROVE  Excused(module, table, x)
        <4>1. CASE module[d].kind = "alias"
          <5>1. Measures(table, y, 1, 0, Invalid)
            BY <1>t, <2>0, <3>1, <3>2, <4>1 DEF ModuleTells, d
          <5>2. Len(table) >= 1
            BY <1>n, <2>0, <3>2, <4>1
          <5>3. OctetsUsed(module, table) /\ Opaque(module, table)
            BY <3>2 DEF TellInv, KnowInv
          <5> QED BY <1>0, <3>2, <5>1, <5>2, <5>3, FirstExcuses
        <4>2. CASE module[d].kind # "alias"
          <5>1. MeasuresBody(table, x, d, 1, Invalid)
            BY <1>t, <2>0, <3>1, <3>2, <4>2 DEF ModuleTells, d
          <5>2. \/ x.declBits[d] = Beyond \/ Full(table)
                \/ 1 + x.declDepth[d] > MaxDepth + 1
            BY <5>1 DEF MeasuresBody
          <5>3. x.declDepth[d] \in 2..TooDeep
            BY <1>0, <2>0, <3>2, DeclarationTypes
          <5>4. 1 + x.declDepth[d] > MaxDepth + 1 => x.declDepth[d] = TooDeep
            BY <5>3, BoundTypes, ConstantTypes
          <5> QED BY <2>0, <4>2, <5>2, <5>4 DEF Excused
        <4> QED BY <4>1, <4>2
      <3> QED BY <2>1, <3>2 DEF Refuse, TellInv
    <2>2. CASE Top.got # <<Invalid>> /\ Goto(Call("module", d + 1, 0))
      <3> DEFINE f == Call("module", d + 1, 0)
      <3>1. /\ f.op = "module" /\ f.got = <<>> /\ f.case = 1 /\ f.field = 1
        BY DEF Call
      <3>2. Goto(f)
        BY <2>2
      <3> HIDE DEF f
      <3>3. ASSUME NEW x, NEW y, Reading(module, x), TableReading(table, x, y)
            PROVE  /\ Tells(module, table, x, y, f)
                   /\ Len(stack) > 1 => Needs(module, table, x, stack[Len(stack) - 1], f)
        <4>1. ModuleTells(module, table, x, y, f)
          BY <3>1 DEF ModuleTells
        <4>2. Tells(module, table, x, y, f)
          BY <3>1, <4>1 DEF Tells
        <4>3. \A g : Needs(module, table, x, g, f)
          BY <3>1 DEF Needs, Resolving
        <4> QED BY <4>2, <4>3
      <3> QED BY <1>0, <3>2, <3>3, TellGoto
    <2> QED BY <1>6, <2>1, <2>2 DEF CheckWidth, d
  <1>7. CASE Accept
    BY <1>7 DEF Accept, TellInv
  <1> QED BY <1>2, <1>3, <1>4, <1>5, <1>6, <1>7

LEMMA StepTell == IInv /\ KnowInv /\ TellInv /\ [Next]_vars => TellInv'
  <1> SUFFICES ASSUME IInv, KnowInv, TellInv, [Next]_vars PROVE TellInv'
    OBVIOUS
  <1>1. CASE UNCHANGED vars
    BY <1>1 DEF TellInv, vars
  <1>2. CASE \/ ResolveName \/ ResolveBytes \/ ResolveArgument
             \/ ResolveDecision \/ ResolveOther
    BY <1>2, ResolveTell
  <1>3. CASE ExpandAlias \/ ExpandName \/ ExpandTooDeep
    BY <1>3, ExpandTell
  <1>4. CASE \/ ValueTooDeep \/ ValueBase \/ ValueArgument
             \/ ValueDecision \/ ValueDeclared
    BY <1>4, ValueTell
  <1>5. CASE \/ DeclaredTooDeep \/ FieldResolve \/ FieldMeasure \/ FieldAdd
             \/ CaseEnd \/ DeclaredEnd
    BY <1>5, DeclaredTell
  <1>6. CASE \/ ResolveField \/ ResolveCaseEnd \/ ResolveAlias
             \/ InternDeclaration \/ CheckWidth \/ Accept
    BY <1>6, ModuleTell
  <1> QED BY <1>1, <1>2, <1>3, <1>4, <1>5, <1>6 DEF Next

LEMMA InitTell == Init => TellInv
  <1> SUFFICES ASSUME Init PROVE TellInv
    OBVIOUS
  <1> DEFINE f == Call("module", 0, 0)
  <1>1. f.op = "module" /\ f.subject = 0 /\ f.got = <<>> /\ f.case = 1 /\ f.field = 1
    BY DEF Call
  <1>2. stack = <<f>> /\ Len(table) = 0 /\ code = "none"
    BY DEF Init
  <1> HIDE DEF f
  <1>3. Len(stack) = 1 /\ stack[1] = f
    BY <1>2
  <1>4. OctetsUsed(module, table)
    BY <1>2 DEF OctetsUsed
  <1>5. ASSUME NEW x, NEW y PROVE Telling(module, table, x, y, stack)
    <2>1. ModuleTells(module, table, x, y, f)
      BY <1>1 DEF ModuleTells
    <2>2. Tells(module, table, x, y, f)
      BY <1>1, <2>1 DEF Tells
    <2> QED BY <1>3, <2>2 DEF Telling
  <1> QED BY <1>2, <1>4, <1>5 DEF TellInv

LEMMA Told == Spec => [](IInv /\ KnowInv /\ TellInv)
  <1>1. Init => IInv /\ KnowInv /\ TellInv
    BY InitIInv, InitKnow, InitTell
  <1>2. IInv /\ KnowInv /\ TellInv /\ [Next]_vars => (IInv /\ KnowInv /\ TellInv)'
    BY StepIInv, StepKnow, StepTell
  <1> QED BY <1>1, <1>2, PTL DEF Spec

-----------------------------------------------------------------------------
(***************************************************************************)
(* The sums and the greatest of the definitions of TypeTable.              *)
(***************************************************************************)
SumTo(S, s, n) == S = [k \in 0..n |-> IF k = 0 THEN 0 ELSE S[k - 1] + s[k]]

LEMMA SumsExist ==
  ASSUME NEW L \in Nat, NEW s
  PROVE  \E S : SumTo(S, s, L)
  <1> DEFINE P == {n \in 0..L : \E S : SumTo(S, s, n)}
  <1>1. 0 \in P
    <2>1. SumTo([k \in 0..0 |-> 0], s, 0)
      <3>1. \A k \in 0..0 : k = 0
        OBVIOUS
      <3> QED BY <3>1 DEF SumTo
    <2> QED BY <2>1
  <1>2. ASSUME NEW n \in 0..(L - 1), n \in P PROVE n + 1 \in P
    <2>1. PICK S : SumTo(S, s, n)
      BY <1>2
    <2> DEFINE T == [k \in 0..(n + 1) |-> IF k <= n THEN S[k] ELSE S[n] + s[n + 1]]
    <2>2. ASSUME NEW k \in 0..(n + 1)
          PROVE  T[k] = IF k = 0 THEN 0 ELSE T[k - 1] + s[k]
      <3>1. CASE k = 0
        <4>1. 0 \in 0..n /\ k <= n
          BY <3>1
        <4> QED BY <2>1, <3>1, <4>1 DEF SumTo
      <3>2. CASE k \in 1..n
        <4>1. k \in 0..n /\ k # 0 /\ k <= n /\ k - 1 <= n /\ k - 1 \in 0..(n + 1)
          BY <3>2
        <4>2. S[k] = S[k - 1] + s[k]
          BY <2>1, <4>1 DEF SumTo
        <4> QED BY <4>1, <4>2
      <3>3. CASE k = n + 1
        <4>1. ~(k <= n) /\ k - 1 = n /\ n <= n /\ n \in 0..(n + 1) /\ k # 0
          BY <3>3
        <4> QED BY <3>3, <4>1
      <3> QED BY <3>1, <3>2, <3>3
    <2>3. SumTo(T, s, n + 1)
      <3>1. T = [k \in 0..(n + 1) |-> T[k]]
        OBVIOUS
      <3> HIDE DEF T
      <3> QED BY <2>2, <3>1 DEF SumTo
    <2>4. n + 1 \in 0..L
      OBVIOUS
    <2> HIDE DEF T
    <2> QED BY <2>3, <2>4
  <1> HIDE DEF P
  <1>3. 0..L \subseteq P
    BY <1>1, <1>2, InductionTo
  <1> QED BY <1>3 DEF P

LEMMA TotalSums ==
  ASSUME NEW L \in Nat, NEW s, Len(s) = L
  PROVE  \E S : /\ S[0] = 0
                /\ \A k \in 1..L : S[k] = S[k - 1] + s[k]
                /\ Total(s) = S[L]
  <1> DEFINE S == CHOOSE S : SumTo(S, s, L)
  <1>1. SumTo(S, s, L)
    BY SumsExist
  <1>2. Total(s) = S[L]
    BY DEF Total, SumTo
  <1> HIDE DEF S
  <1>3. 0 \in 0..L /\ \A k \in 1..L : k \in 0..L /\ k # 0
    OBVIOUS
  <1>4. S[0] = 0 /\ \A k \in 1..L : S[k] = S[k - 1] + s[k]
    BY <1>1, <1>3 DEF SumTo
  <1> QED BY <1>2, <1>4

LEMMA GreatestOf ==
  ASSUME NEW S, S \subseteq Nat, NEW v \in S, NEW b \in Nat, \A u \in S : u <= b
  PROVE  Greatest(S) \in S /\ \A u \in S : u <= Greatest(S)
  <1> DEFINE T == {n \in Nat : \A u \in S : u <= n}
  <1>1. T \in SUBSET Nat /\ b \in T
    OBVIOUS
  <1>2. PICK n \in T : \A k \in T : n <= k
    <2> HIDE DEF T
    <2> QED BY <1>1, Least
  <1>3. n \in Nat /\ \A u \in S : u <= n
    OBVIOUS
  <1>4. n \in S
    <2>1. SUFFICES ASSUME n \notin S PROVE FALSE
      OBVIOUS
    <2>2. \A u \in S : u < n /\ u \in Nat
      BY <1>3, <2>1
    <2>3. n - 1 \in Nat /\ \A u \in S : u <= n - 1
      BY <1>3, <2>2
    <2>4. n - 1 \in T
      BY <2>3
    <2> HIDE DEF T
    <2>5. n <= n - 1
      BY <1>2, <2>4
    <2> QED BY <1>3, <2>5
  <1> QED BY <1>3, <1>4 DEF Greatest

\* Numbers in a row have a greatest.
LEMMA RowBounded ==
  ASSUME NEW L \in Nat, NEW v, \A c \in 1..L : v[c] \in Nat
  PROVE  \E b \in Nat : \A c \in 1..L : v[c] <= b
  <1> DEFINE P == {n \in 0..L : \E b \in Nat : \A c \in 1..n : v[c] <= b}
  <1>1. 0 \in P
    OBVIOUS
  <1>2. ASSUME NEW n \in 0..(L - 1), n \in P PROVE n + 1 \in P
    <2>1. PICK b \in Nat : \A c \in 1..n : v[c] <= b
      BY <1>2
    <2>2. n + 1 \in 1..L /\ n + 1 \in 0..L
      OBVIOUS
    <2>3. v[n + 1] \in Nat
      BY <2>2
    <2> DEFINE a == Larger(b, v[n + 1])
    <2>4. a \in Nat /\ b <= a /\ v[n + 1] <= a
      BY <2>3, LargerTypes
    <2> HIDE DEF a
    <2>5. ASSUME NEW c \in 1..(n + 1) PROVE v[c] <= a
      <3>1. CASE c = n + 1
        BY <2>4, <3>1
      <3>2. CASE c # n + 1
        <4>1. c \in 1..n /\ c \in 1..L
          BY <3>2
        <4>2. v[c] <= b /\ v[c] \in Nat
          BY <2>1, <4>1
        <4> QED BY <2>4, <4>2
      <3> QED BY <3>1, <3>2
    <2> QED BY <2>2, <2>4, <2>5
  <1> HIDE DEF P
  <1>3. 0..L \subseteq P
    BY <1>1, <1>2, InductionTo
  <1>4. L \in 0..L
    OBVIOUS
  <1> QED BY <1>3, <1>4 DEF P

-----------------------------------------------------------------------------
(***************************************************************************)
(* References and declarations over any widths of the names.               *)
(***************************************************************************)
LEMMA Resolvable ==
  ASSUME NEW r \in Ref, ~Unresolvable(r)
  PROVE  \/ /\ r.form = "named" /\ NamesOf(r) = {r.names[1]} /\ r.names[1] \in Known
         \/ /\ r.form = "applied" /\ Len(r.names) = 2
            /\ NamesOf(r) = {r.names[1], r.names[2]}
            /\ r.names[1] \in Known /\ r.names[2] \in Known
         \/ /\ r.form \in {"bytes", "digest"} /\ r.length # 0
            /\ 8 * r.length \in Nat /\ NamesOf(r) = {}
  <1>1. NamesOf(r) \subseteq Known
    BY DEF Unresolvable
  <1>2. CASE r.form = "named"
    BY <1>1, <1>2, NamesOfRef
  <1>3. CASE r.form = "applied"
    <2>1. Len(r.names) = 2
      BY <1>3 DEF Unresolvable
    <2> QED BY <1>1, <1>3, <2>1, NamesOfRef
  <1>4. CASE r.form \in {"bytes", "digest"}
    <2>1. r.length # 0
      BY <1>4 DEF Unresolvable
    <2>2. 8 * r.length \in Nat
      BY <1>4, RefTypes
    <2> QED BY <1>4, <2>1, <2>2, NamesOfRef
  <1> QED BY <1>2, <1>3, <1>4, RefTypes

LEMMA RefBitsTyped ==
  ASSUME NEW r \in Ref, NEW a, \A n \in Known : a[n] \in 0..Beyond
  PROVE  RefBits(r, a) \in 0..Beyond /\ RefBits(r, a) \in Nat
  <1>0. Beyond \in 0..Beyond /\ \A n \in Known : a[n] \in Nat
    BY BoundTypes
  <1>1. RefBits(r, a) \in 0..Beyond
    <2>1. CASE Unresolvable(r)
      BY <1>0, <2>1 DEF RefBits
    <2>2. CASE ~Unresolvable(r)
      <3>1. CASE r.form = "named"
        BY <2>2, <3>1, Resolvable DEF RefBits
      <3>2. CASE r.form = "applied"
        <4>1. r.names[1] \in Known /\ r.names[2] \in Known
          BY <2>2, <3>2, Resolvable
        <4>2. 1 + Larger(a[r.names[1]], a[r.names[2]]) \in Nat
          BY <1>0, <4>1, LargerTypes
        <4> QED BY <2>2, <3>2, <4>2, CappedTypes DEF RefBits
      <3>3. CASE r.form \in {"bytes", "digest"}
        <4>1. 8 * r.length \in Nat
          BY <2>2, <3>3, Resolvable
        <4> QED BY <2>2, <3>3, <4>1, CappedTypes DEF RefBits
      <3> QED BY <3>1, <3>2, <3>3, RefTypes
    <2> QED BY <2>1, <2>2
  <1> QED BY <1>1, BoundTypes

LEMMA RowLen ==
  ASSUME NEW c \in Seq(Ref), NEW a
  PROVE  Len([k \in DOMAIN c |-> RefBits(c[k], a)]) = Len(c)
  <1> DEFINE s == [k \in DOMAIN c |-> RefBits(c[k], a)]
             V == {RefBits(c[k], a) : k \in DOMAIN c}
  <1>1. DOMAIN c = 1..Len(c) /\ Len(c) \in Nat
    OBVIOUS
  <1>2. s \in [1..Len(c) -> V]
    BY <1>1
  <1>3. DOMAIN s = 1..Len(c)
    BY <1>1
  <1> HIDE DEF s, V
  <1>4. s \in Seq(V)
    BY <1>1, <1>2, SeqDef
  <1>5. Len(s) = Len(c)
    BY <1>1, <1>3, <1>4
  <1> QED BY <1>5 DEF s

Adds(d, c, a, S) ==
  /\ S[0] = 0
  /\ \A k \in 1..Len(module[d].cases[c]) :
       S[k] = S[k - 1] + RefBits(module[d].cases[c][k], a)
  /\ CaseBits(module[d].cases[c], a) = S[Len(module[d].cases[c])]

LEMMA CaseAdds ==
  ASSUME module \in Modules, NEW a, NEW d \in Index,
         NEW c \in 1..Len(module[d].cases)
  PROVE  \E S : Adds(d, c, a, S)
  <1> DEFINE row == module[d].cases[c]
             s == [k \in DOMAIN row |-> RefBits(row[k], a)]
  <1>1. row \in Seq(Ref) /\ Len(row) \in Nat /\ DOMAIN row = 1..Len(row)
    BY CaseTypes
  <1>2. Len(s) = Len(row)
    BY <1>1, RowLen
  <1>3. CaseBits(row, a) = Total(s)
    BY DEF CaseBits
  <1>4. \A k \in 1..Len(row) : s[k] = RefBits(row[k], a)
    BY <1>1
  <1> HIDE DEF s
  <1>5. PICK S : /\ S[0] = 0
                 /\ \A k \in 1..Len(row) : S[k] = S[k - 1] + s[k]
                 /\ Total(s) = S[Len(row)]
    BY <1>1, <1>2, TotalSums
  <1>6. Adds(d, c, a, S)
    BY <1>3, <1>4, <1>5 DEF Adds
  <1> QED BY <1>6

BitsOf(a) == [r \in Ref |-> RefBits(r, a)]

SumsOf(a) ==
  [d \in Index |-> [c \in 1..Len(module[d].cases) |-> CHOOSE S : Adds(d, c, a, S)]]

WidthsOf(a) == [d \in Index |-> DeclarationBits(d, a)]

LEMMA BitsRead ==
  ASSUME module \in Modules, NEW a, \A n \in Known : a[n] \in 0..Beyond,
         NEW x, x.bits = BitsOf(a), x.sum = SumsOf(a), x.declBits = WidthsOf(a),
         NEW d \in Index
  PROVE  Summed(module, x, d)
  <1> DEFINE cases == module[d].cases
             L == Len(cases)
  <1>1. \A r \in Ref : x.bits[r] = RefBits(r, a) /\ x.bits[r] \in Nat
    BY RefBitsTyped DEF BitsOf
  <1>2. L \in Nat /\ DOMAIN cases = 1..L /\ module[d].tag \in Nat
    BY ModuleTypes
  <1>3. ASSUME NEW c \in 1..L PROVE Adds(d, c, a, x.sum[d][c])
    <2>1. \E S : Adds(d, c, a, S)
      BY <1>3, CaseAdds
    <2>2. x.sum[d][c] = CHOOSE S : Adds(d, c, a, S)
      BY DEF SumsOf
    <2> QED BY <2>1, <2>2
  <1>4. ASSUME NEW c \in 1..L PROVE CaseRead(module, x, d, c)
    <2>1. \A k \in 1..Len(cases[c]) : cases[c][k] \in Ref
      BY <1>4, CaseTypes
    <2> QED BY <1>1, <1>3, <2>1 DEF Adds, CaseRead
  <1>5. ASSUME NEW c \in 1..L PROVE CaseSum(module, x, d, c) = CaseBits(cases[c], a)
    BY <1>3 DEF Adds, CaseSum
  <1>6. \A c \in 1..L : CaseBits(cases[c], a) \in Nat
    <2>1. ASSUME NEW c \in 1..L PROVE CaseBits(cases[c], a) \in Nat
      <3> DEFINE row == cases[c]
                 N == Len(row)
                 S == x.sum[d][c]
      <3>1. N \in Nat /\ \A k \in 1..N : row[k] \in Ref
        BY <2>1, CaseTypes
      <3>2. /\ S[0] = 0 /\ CaseBits(row, a) = S[N]
            /\ \A k \in 1..N : S[k] = S[k - 1] + RefBits(row[k], a)
        BY <1>3 DEF Adds
      <3>3. \A k \in 1..N : RefBits(row[k], a) \in Nat
        BY <3>1, RefBitsTyped
      <3> DEFINE P == {k \in 0..N : S[k] \in Nat}
                 b == [k \in 1..N |-> RefBits(row[k], a)]
      <3>4. \A k \in 1..N : S[k] = S[k - 1] + b[k] /\ b[k] \in Nat
        BY <3>2, <3>3
      <3> HIDE DEF b, S, N, row
      <3>5. 0 \in P
        BY <3>1, <3>2
      <3>6. ASSUME NEW k \in 0..(N - 1), k \in P PROVE k + 1 \in P
        <4>1. k + 1 \in 1..N /\ (k + 1) - 1 = k /\ k + 1 \in 0..N
          BY <3>1
        <4>2. S[k + 1] = S[k] + b[k + 1] /\ b[k + 1] \in Nat /\ S[k] \in Nat
          BY <3>4, <3>6, <4>1
        <4>3. S[k + 1] \in Nat
          BY <4>2
        <4> QED BY <4>1, <4>3
      <3> HIDE DEF P
      <3>7. 0..N \subseteq P
        BY <3>1, <3>5, <3>6, InductionTo
      <3>8. N \in 0..N
        BY <3>1
      <3>9. S[N] \in Nat
        BY <3>7, <3>8 DEF P
      <3> QED BY <3>2, <3>9 DEF row
    <2> QED BY <2>1
  <1>7. \E w \in Nat : IsWidest(module, x, d, L, w) /\ x.declBits[d] = Capped(module[d].tag + w)
    <2> DEFINE v == [c \in 1..L |-> CaseBits(cases[c], a)]
               W == {0} \cup {CaseBits(cases[c], a) : c \in DOMAIN cases}
               w == Greatest(W)
    <2>1. \A c \in 1..L : v[c] = CaseBits(cases[c], a) /\ v[c] \in Nat
      BY <1>6
    <2>2. W = {0} \cup {v[c] : c \in 1..L}
      BY <1>2, <2>1
    <2>3. DeclarationBits(d, a) = Capped(module[d].tag + w)
      BY DEF DeclarationBits
    <2> HIDE DEF v, W, L
    <2>4. PICK b \in Nat : \A c \in 1..L : v[c] <= b
      BY <1>2, <2>1, RowBounded
    <2>5. W \subseteq Nat /\ 0 \in W /\ \A u \in W : u <= b
      BY <2>1, <2>2, <2>4
    <2>6. w \in W /\ \A u \in W : u <= w
      BY <2>5, GreatestOf
    <2> HIDE DEF w
    <2>7. \A c \in 1..L : CaseSum(module, x, d, c) = v[c] /\ v[c] \in W
      BY <1>5, <2>1, <2>2
    <2>8. IsWidest(module, x, d, L, w)
      <3>1. \A c \in 1..L : CaseSum(module, x, d, c) <= w
        BY <2>6, <2>7
      <3>2. w = 0 \/ \E c \in 1..L : CaseSum(module, x, d, c) = w
        BY <2>2, <2>6, <2>7
      <3> QED BY <3>1, <3>2 DEF IsWidest
    <2>9. x.declBits[d] = Capped(module[d].tag + w)
      BY <2>3 DEF WidthsOf
    <2> QED BY <2>5, <2>6, <2>8, <2>9
  <1> QED BY <1>1, <1>4, <1>7 DEF Summed, WidthRead

-----------------------------------------------------------------------------
(***************************************************************************)
(* Meaning, NameBits and NameDepth are the last round of one iteration; w  *)
(* says of which.                                                          *)
(***************************************************************************)
Which == {"meaning", "bits", "depth"}

Bottom(w) == IF w = "meaning" THEN Nothing ELSE IF w = "bits" THEN Beyond ELSE TooDeep

OfRef(w, r, a) ==
  IF w = "meaning" THEN RefMeaning(r, a)
  ELSE IF w = "bits" THEN RefBits(r, a) ELSE RefDepth(r, a)

OfBuiltin(w, n) ==
  IF w = "meaning" THEN <<"base", n>> ELSE IF w = "bits" THEN Widths[n] ELSE 1

OfDeclared(w, d, a) ==
  IF w = "meaning" THEN <<"declared", d>>
  ELSE IF w = "bits" THEN DeclarationBits(d, a) ELSE DeclarationDepth(d, a)

OfName(w, n, a) ==
  IF AliasFound(n) # {} THEN OfRef(w, Target(TheAlias(n)), a)
  ELSE IF n \in Builtin THEN OfBuiltin(w, n)
  ELSE OfDeclared(w, TheFound(n), a)

Iterates(w, A, N) ==
  A = [k \in 0..N |->
        [n \in Known |-> IF k = 0 THEN Bottom(w) ELSE OfName(w, n, A[k - 1])]]

LEMMA IterationExists ==
  ASSUME NEW w, NEW L \in Nat
  PROVE  \E A : Iterates(w, A, L)
  <1> DEFINE P == {k \in 0..L : \E A : Iterates(w, A, k)}
             Row(k, a) == [n \in Known |-> IF k = 0 THEN Bottom(w) ELSE OfName(w, n, a)]
  <1>1. 0 \in P
    <2> DEFINE T == [k \in 0..0 |-> Row(0, 0)]
    <2>1. \A k \in 0..0 : k = 0
      OBVIOUS
    <2>2. T = [k \in 0..0 |-> Row(k, T[k - 1])]
      BY <2>1
    <2> HIDE DEF T
    <2>3. Iterates(w, T, 0)
      BY <2>2 DEF Iterates
    <2> QED BY <2>3
  <1>2. ASSUME NEW k \in 0..(L - 1), k \in P PROVE k + 1 \in P
    <2>1. PICK A : Iterates(w, A, k)
      BY <1>2
    <2> DEFINE T == [j \in 0..(k + 1) |-> IF j <= k THEN A[j] ELSE Row(k + 1, A[k])]
    <2>2. ASSUME NEW j \in 0..(k + 1) PROVE T[j] = Row(j, T[j - 1])
      <3>1. A = [i \in 0..k |-> Row(i, A[i - 1])]
        BY <2>1 DEF Iterates
      <3> HIDE DEF Row
      <3>2. CASE j = 0
        <4>1. T[j] = A[j] /\ A[j] = Row(j, A[j - 1])
          BY <3>1, <3>2
        <4>2. \A a, b : Row(0, a) = Row(0, b)
          BY DEF Row
        <4> QED BY <3>2, <4>1, <4>2
      <3>3. CASE j \in 1..k
        <4>1. j \in 0..k /\ j <= k /\ j - 1 <= k /\ j - 1 \in 0..(k + 1)
          BY <3>3
        <4>2. T[j] = A[j] /\ T[j - 1] = A[j - 1] /\ A[j] = Row(j, A[j - 1])
          BY <3>1, <4>1
        <4> QED BY <4>2
      <3>4. CASE j = k + 1
        <4>1. ~(j <= k) /\ j - 1 = k /\ k <= k /\ k \in 0..(k + 1)
          BY <3>4
        <4>2. T[j] = Row(k + 1, A[k]) /\ T[j - 1] = A[k]
          BY <4>1
        <4> QED BY <3>4, <4>2
      <3> QED BY <3>2, <3>3, <3>4
    <2>3. Iterates(w, T, k + 1)
      <3>1. T = [j \in 0..(k + 1) |-> T[j]]
        OBVIOUS
      <3> HIDE DEF T
      <3>2. T = [j \in 0..(k + 1) |-> Row(j, T[j - 1])]
        <4> HIDE DEF Row
        <4> QED BY <2>2, <3>1
      <3> QED BY <3>2 DEF Iterates
    <2>4. k + 1 \in 0..L
      OBVIOUS
    <2> QED BY <2>3, <2>4
  <1> HIDE DEF P
  <1>3. 0..L \subseteq P
    BY <1>1, <1>2, InductionTo
  <1>4. L \in 0..L
    OBVIOUS
  <1> QED BY <1>3, <1>4 DEF P

LEMMA KnownFinite ==
  IsFiniteSet(Known) /\ Cardinality(Known) \in Nat /\ Rounds \in Nat \ {0}
  <1> DEFINE f == [d \in Index |-> module[d].name]
             T == {module[d].name : d \in Index}
  <1>1. IsFiniteSet(T)
    <2>1. f \in Surjection(Index, T)
      BY DEF Surjection
    <2> QED BY <2>1, IndexFinite, FS_Surjection
  <1>2. IsFiniteSet(Builtin)
    BY TableAssumption
  <1>3. IsFiniteSet(Known)
    BY <1>1, <1>2, FS_Union DEF Known
  <1>4. Cardinality(Known) \in Nat
    BY <1>3, FS_CardinalityType
  <1> QED BY <1>3, <1>4 DEF Rounds

\* The rounds, for reasoning about one at a time.
Rows(w, A) ==
  /\ \A k \in 0..Rounds : A[k] = [n \in Known |-> A[k][n]]
  /\ \A n \in Known : A[0][n] = Bottom(w)
  /\ \A k \in 1..Rounds : \A n \in Known : A[k][n] = OfName(w, n, A[k - 1])

LEMMA IteratesRows ==
  ASSUME NEW w, NEW A, Iterates(w, A, Rounds)
  PROVE  Rows(w, A)
  <1> DEFINE Row(k, a) == [n \in Known |-> IF k = 0 THEN Bottom(w) ELSE OfName(w, n, a)]
  <1>1. \A k \in 0..Rounds : A[k] = Row(k, A[k - 1])
    <2>1. A = [k \in 0..Rounds |-> Row(k, A[k - 1])]
      BY DEF Iterates
    <2> HIDE DEF Row
    <2> QED BY <2>1
  <1>2. \A k, a : Row(k, a) = [n \in Known |-> Row(k, a)[n]]
    OBVIOUS
  <1>3. \A k, a : \A n \in Known : Row(k, a)[n] = IF k = 0 THEN Bottom(w) ELSE OfName(w, n, a)
    OBVIOUS
  <1> HIDE DEF Row
  <1>4. 0 \in 0..Rounds /\ \A k \in 1..Rounds : k \in 0..Rounds /\ k # 0
    BY KnownFinite
  <1>5. \A k \in 0..Rounds : A[k] = [n \in Known |-> A[k][n]]
    BY <1>1, <1>2
  <1>6. \A k \in 0..Rounds : \A n \in Known :
          A[k][n] = IF k = 0 THEN Bottom(w) ELSE OfName(w, n, A[k - 1])
    BY <1>1, <1>3
  <1> QED BY <1>4, <1>5, <1>6 DEF Rows

LastRow(w) == IF w = "meaning" THEN Meaning ELSE IF w = "bits" THEN NameBits ELSE NameDepth

LEMMA LastRowIs ==
  ASSUME NEW w \in Which
  PROVE  \E A : Rows(w, A) /\ LastRow(w) = A[Rounds]
  <1>1. PICK B : Iterates(w, B, Rounds)
    BY IterationExists, KnownFinite
  <1>2. CASE w = "meaning"
    <2> DEFINE Is(A) == A = [k \in 0..Rounds |-> [n \in Known |->
              IF k = 0 THEN Nothing
              ELSE IF AliasFound(n) # {}
              THEN RefMeaning(Target(TheAlias(n)), A[k - 1])
              ELSE IF n \in Builtin THEN <<"base", n>>
              ELSE <<"declared", TheFound(n)>>]]
    <2>1. \A A : Is(A) <=> Iterates(w, A, Rounds)
      BY <1>2 DEF Iterates, OfName, OfRef, OfBuiltin, OfDeclared, Bottom
    <2>2. Is(CHOOSE A : Is(A))
      <3> HIDE DEF Is
      <3> QED BY <1>1, <2>1
    <2>3. LastRow(w) = (CHOOSE A : Is(A))[Rounds]
      BY <1>2 DEF LastRow, Meaning
    <2> HIDE DEF Is
    <2> QED BY <2>1, <2>2, <2>3, IteratesRows
  <1>3. CASE w = "bits"
    <2> DEFINE Is(A) == A = [k \in 0..Rounds |-> [n \in Known |->
              IF k = 0 THEN Beyond
              ELSE IF AliasFound(n) # {}
              THEN RefBits(Target(TheAlias(n)), A[k - 1])
              ELSE IF n \in Builtin THEN Widths[n]
              ELSE DeclarationBits(TheFound(n), A[k - 1])]]
    <2>1. \A A : Is(A) <=> Iterates(w, A, Rounds)
      BY <1>3 DEF Iterates, OfName, OfRef, OfBuiltin, OfDeclared, Bottom
    <2>2. Is(CHOOSE A : Is(A))
      <3> HIDE DEF Is
      <3> QED BY <1>1, <2>1
    <2>3. LastRow(w) = (CHOOSE A : Is(A))[Rounds]
      BY <1>3 DEF LastRow, NameBits
    <2> HIDE DEF Is
    <2> QED BY <2>1, <2>2, <2>3, IteratesRows
  <1>4. CASE w = "depth"
    <2> DEFINE Is(A) == A = [k \in 0..Rounds |-> [n \in Known |->
              IF k = 0 THEN TooDeep
              ELSE IF AliasFound(n) # {}
              THEN RefDepth(Target(TheAlias(n)), A[k - 1])
              ELSE IF n \in Builtin THEN 1
              ELSE DeclarationDepth(TheFound(n), A[k - 1])]]
    <2>1. \A A : Is(A) <=> Iterates(w, A, Rounds)
      BY <1>4 DEF Iterates, OfName, OfRef, OfBuiltin, OfDeclared, Bottom
    <2>2. Is(CHOOSE A : Is(A))
      <3> HIDE DEF Is
      <3> QED BY <1>1, <2>1
    <2>3. LastRow(w) = (CHOOSE A : Is(A))[Rounds]
      BY <1>4 DEF LastRow, NameDepth
    <2> HIDE DEF Is
    <2> QED BY <2>1, <2>2, <2>3, IteratesRows
  <1> QED BY <1>2, <1>3, <1>4 DEF Which

-----------------------------------------------------------------------------
(***************************************************************************)
(* What a round has found stays, and the rounds come to an end.            *)
(***************************************************************************)
Valued(w, a) ==
  /\ w = "bits" => \A n \in Known : a[n] \in 0..Beyond
  /\ w = "depth" => \A n \in Known : a[n] \in 1..TooDeep

Extends(w, a, b) == \A n \in Known : a[n] # Bottom(w) => b[n] = a[n]

LEMMA RefDepthTyped ==
  ASSUME NEW r \in Ref, NEW a, Valued("depth", a)
  PROVE  RefDepth(r, a) \in 1..TooDeep
  <1>0. TooDeep \in 1..TooDeep /\ 1 \in 1..TooDeep
    BY BoundTypes
  <1>1. \A n \in Known : a[n] \in 1..TooDeep /\ a[n] \in Nat
    BY BoundTypes DEF Valued
  <1>2. CASE Unresolvable(r)
    BY <1>0, <1>2 DEF RefDepth
  <1>3. CASE ~Unresolvable(r) /\ r.form = "named"
    BY <1>1, <1>3, Resolvable DEF RefDepth
  <1>4. CASE ~Unresolvable(r) /\ r.form = "applied"
    <2>1. r.names[1] \in Known /\ r.names[2] \in Known
      BY <1>4, Resolvable
    <2>2. /\ 1 + Larger(a[r.names[1]], a[r.names[2]]) \in Nat
          /\ 1 + Larger(a[r.names[1]], a[r.names[2]]) >= 1
      BY <1>1, <2>1, LargerTypes
    <2>3. Within(1 + Larger(a[r.names[1]], a[r.names[2]])) \in 1..TooDeep
      BY <2>2, CappedTypes
    <2> QED BY <1>4, <2>3 DEF RefDepth
  <1>5. CASE ~Unresolvable(r) /\ r.form \in {"bytes", "digest"}
    BY <1>0, <1>5 DEF RefDepth
  <1> QED BY <1>2, <1>3, <1>4, <1>5, RefTypes

\* A reference means something, or has a width or a depth, only when all its
\* names do.
LEMMA RefNeeds ==
  ASSUME NEW w \in Which, NEW r \in Ref, NEW a, Valued(w, a),
         OfRef(w, r, a) # Bottom(w)
  PROVE  ~Unresolvable(r) /\ \A n \in NamesOf(r) : n \in Known /\ a[n] # Bottom(w)
  <1>1. ~Unresolvable(r)
    BY DEF OfRef, RefMeaning, RefBits, RefDepth, Bottom, Which
  <1>2. \A n \in NamesOf(r) : n \in Known
    BY <1>1 DEF Unresolvable
  <1>3. CASE w = "meaning"
    BY <1>1, <1>2, <1>3 DEF OfRef, RefMeaning, Bottom
  <1>4. CASE w \in {"bits", "depth"} /\ r.form = "named"
    BY <1>1, <1>2, <1>4, Resolvable DEF OfRef, RefBits, RefDepth, Bottom
  <1>5. CASE w = "bits" /\ r.form = "applied"
    <2>1. /\ NamesOf(r) = {r.names[1], r.names[2]}
          /\ a[r.names[1]] \in 0..Beyond /\ a[r.names[2]] \in 0..Beyond
      BY <1>1, <1>5, Resolvable DEF Valued
    <2>2. Capped(1 + Larger(a[r.names[1]], a[r.names[2]])) # Beyond
      BY <1>1, <1>5 DEF OfRef, RefBits, Bottom
    <2>3. \A p, q \in 0..Beyond : Capped(1 + Larger(p, q)) # Beyond => p # Beyond /\ q # Beyond
      BY BoundTypes, ConstantTypes DEF Capped, Larger
    <2>4. a[r.names[1]] # Beyond /\ a[r.names[2]] # Beyond
      BY <2>1, <2>2, <2>3
    <2> QED BY <1>1, <1>2, <1>5, <2>1, <2>4 DEF Bottom
  <1>6. CASE w = "depth" /\ r.form = "applied"
    <2>1. /\ NamesOf(r) = {r.names[1], r.names[2]}
          /\ a[r.names[1]] \in 1..TooDeep /\ a[r.names[2]] \in 1..TooDeep
      BY <1>1, <1>6, Resolvable DEF Valued
    <2>2. Within(1 + Larger(a[r.names[1]], a[r.names[2]])) # TooDeep
      BY <1>1, <1>6 DEF OfRef, RefDepth, Bottom
    <2>3. \A p, q \in 1..TooDeep : Within(1 + Larger(p, q)) # TooDeep => p # TooDeep /\ q # TooDeep
      BY BoundTypes, ConstantTypes DEF Within, Larger
    <2>4. a[r.names[1]] # TooDeep /\ a[r.names[2]] # TooDeep
      BY <2>1, <2>2, <2>3
    <2> QED BY <1>1, <1>2, <1>6, <2>1, <2>4 DEF Bottom
  <1>7. CASE r.form \in {"bytes", "digest"}
    BY <1>1, <1>7, Resolvable
  <1> QED BY <1>1, <1>3, <1>4, <1>5, <1>6, <1>7, RefTypes DEF Which

LEMMA RefStays ==
  ASSUME NEW w \in Which, NEW r \in Ref, NEW a, NEW b, Valued(w, a), Extends(w, a, b),
         OfRef(w, r, a) # Bottom(w)
  PROVE  OfRef(w, r, b) = OfRef(w, r, a)
  <1>1. ~Unresolvable(r) /\ \A n \in NamesOf(r) : b[n] = a[n]
    BY RefNeeds DEF Extends
  <1>2. CASE r.form = "named"
    <2>1. b[r.names[1]] = a[r.names[1]]
      BY <1>1, <1>2, NamesOfRef
    <2> QED BY <1>1, <1>2, <2>1 DEF OfRef, RefMeaning, RefBits, RefDepth
  <1>3. CASE r.form = "applied"
    <2>1. b[r.names[1]] = a[r.names[1]] /\ b[r.names[2]] = a[r.names[2]]
      BY <1>1, <1>3, Resolvable
    <2> QED BY <1>1, <1>3, <2>1 DEF OfRef, RefMeaning, RefBits, RefDepth
  <1>4. CASE r.form \in {"bytes", "digest"}
    BY <1>1, <1>4, Resolvable DEF OfRef, RefMeaning, RefBits, RefDepth
  <1> QED BY <1>2, <1>3, <1>4, RefTypes

LEMMA RefsOf ==
  ASSUME module \in Modules, NEW d \in Index
  PROVE  /\ \A c \in 1..Len(module[d].cases) : \A k \in 1..Len(module[d].cases[c]) :
              module[d].cases[c][k] \in Refs(d)
         /\ \A r \in Refs(d) : r \in Ref /\ \E c \in 1..Len(module[d].cases) :
              \E k \in 1..Len(module[d].cases[c]) : r = module[d].cases[c][k]
  <1>1. /\ DOMAIN module[d].cases = 1..Len(module[d].cases)
        /\ \A c \in 1..Len(module[d].cases) :
             DOMAIN module[d].cases[c] = 1..Len(module[d].cases[c])
    BY ModuleTypes
  <1>2. \A c \in 1..Len(module[d].cases) : \A k \in 1..Len(module[d].cases[c]) :
          module[d].cases[c][k] \in Ref
    BY ModuleTypes
  <1>3. Refs(d) = UNION {{p[k] : k \in DOMAIN p} :
                           p \in {module[d].cases[i] : i \in DOMAIN module[d].cases}}
    BY DEF Refs
  <1>4. ASSUME NEW c \in 1..Len(module[d].cases), NEW k \in 1..Len(module[d].cases[c])
        PROVE  module[d].cases[c][k] \in Refs(d)
    <2> DEFINE p == module[d].cases[c]
    <2>1. p \in {module[d].cases[i] : i \in DOMAIN module[d].cases}
      BY <1>1
    <2>2. p[k] \in {p[j] : j \in DOMAIN p}
      BY <1>1
    <2> DEFINE fields == {{q[j] : j \in DOMAIN q} :
                           q \in {module[d].cases[i] : i \in DOMAIN module[d].cases}}
    <2>3. {p[j] : j \in DOMAIN p} \in fields
      BY <2>1
    <2>4. p[k] \in UNION fields
      <3> HIDE DEF p, fields
      <3> QED BY <2>2, <2>3
    <2> QED BY <1>3, <2>4
  <1>5. ASSUME NEW r \in Refs(d)
        PROVE  \E c \in 1..Len(module[d].cases) :
                 \E k \in 1..Len(module[d].cases[c]) : r = module[d].cases[c][k]
    <2>1. PICK p \in {module[d].cases[i] : i \in DOMAIN module[d].cases} :
            r \in {p[k] : k \in DOMAIN p}
      BY <1>3
    <2>2. PICK c \in 1..Len(module[d].cases) : p = module[d].cases[c]
      BY <1>1, <2>1
    <2>3. PICK k \in DOMAIN p : r = p[k]
      BY <2>1
    <2> QED BY <1>1, <2>2, <2>3
  <1> QED BY <1>2, <1>4, <1>5

LEMMA DepthOf ==
  ASSUME module \in Modules, NEW d \in Index, NEW a, Valued("depth", a)
  PROVE  /\ DeclarationDepth(d, a) \in 2..TooDeep
         /\ \A r \in Refs(d) :
              DeclarationDepth(d, a) = TooDeep \/ 2 + RefDepth(r, a) <= DeclarationDepth(d, a)
  <1> DEFINE S == {0} \cup {RefDepth(r, a) : r \in Refs(d)}
             g == Greatest(S)
  <1>1. \A r \in Refs(d) : RefDepth(r, a) \in 1..TooDeep
    BY RefsOf, RefDepthTyped
  <1>2. S \subseteq Nat /\ 0 \in S /\ \A u \in S : u <= TooDeep
    BY <1>1, BoundTypes
  <1>3. \A r \in Refs(d) : RefDepth(r, a) \in S
    OBVIOUS
  <1>4. DeclarationDepth(d, a) = Within(2 + g)
    BY DEF DeclarationDepth
  <1> HIDE DEF S
  <1>5. g \in S /\ \A u \in S : u <= g
    BY <1>2, GreatestOf, BoundTypes
  <1>6. g \in Nat /\ \A r \in Refs(d) : RefDepth(r, a) <= g /\ RefDepth(r, a) \in Nat
    BY <1>2, <1>3, <1>5
  <1> HIDE DEF g
  <1>7. \A p \in Nat : Within(2 + p) \in 2..TooDeep /\ (Within(2 + p) = TooDeep \/ Within(2 + p) = 2 + p)
    BY BoundTypes, ConstantTypes DEF Within
  <1>8. Within(2 + g) \in 2..TooDeep /\ (Within(2 + g) = TooDeep \/ Within(2 + g) = 2 + g)
    BY <1>6, <1>7
  <1>9. ASSUME NEW r \in Refs(d)
        PROVE  Within(2 + g) = TooDeep \/ 2 + RefDepth(r, a) <= Within(2 + g)
    <2>1. RefDepth(r, a) <= g /\ RefDepth(r, a) \in Nat
      BY <1>6
    <2>2. \A p, q \in Nat : p <= q => 2 + p <= 2 + q
      OBVIOUS
    <2>3. 2 + RefDepth(r, a) <= 2 + g
      BY <1>6, <2>1, <2>2
    <2> QED BY <1>8, <2>3
  <1> QED BY <1>4, <1>8, <1>9

LEMMA BitsTyped ==
  ASSUME module \in Modules, NEW d \in Index, NEW a, Valued("bits", a)
  PROVE  /\ DeclarationBits(d, a) \in 0..Beyond
         /\ \A r \in Refs(d) : RefBits(r, a) = Beyond => DeclarationBits(d, a) = Beyond
  <1> DEFINE x == [bits |-> BitsOf(a), sum |-> SumsOf(a), declBits |-> WidthsOf(a)]
  <1>1. x.bits = BitsOf(a) /\ x.sum = SumsOf(a) /\ x.declBits = WidthsOf(a)
    OBVIOUS
  <1> HIDE DEF x
  <1>2. \A n \in Known : a[n] \in 0..Beyond
    BY DEF Valued
  <1>3. Summed(module, x, d)
    BY <1>1, <1>2, BitsRead
  <1>4. x.declBits[d] = DeclarationBits(d, a)
    BY <1>1 DEF WidthsOf
  <1>5. DeclarationBits(d, a) \in 0..Beyond
    <2>1. PICK v \in Nat : x.declBits[d] = Capped(module[d].tag + v)
      BY <1>3 DEF Summed, WidthRead
    <2>2. module[d].tag + v \in Nat
      BY ModuleTypes
    <2> QED BY <1>4, <2>1, <2>2, CappedTypes
  <1>6. ASSUME NEW r \in Refs(d), RefBits(r, a) = Beyond
        PROVE  DeclarationBits(d, a) = Beyond
    <2>1. PICK c \in 1..Len(module[d].cases) :
            \E k \in 1..Len(module[d].cases[c]) : r = module[d].cases[c][k]
      BY RefsOf
    <2>2. PICK k \in 1..Len(module[d].cases[c]) : r = module[d].cases[c][k]
      BY <2>1
    <2>3. r \in Ref
      BY RefsOf
    <2>4. x.bits[module[d].cases[c][k]] = Beyond
      BY <1>1, <1>6, <2>2, <2>3 DEF BitsOf
    <2> QED BY <1>3, <1>4, <2>4, FieldBeyond
  <1> QED BY <1>5, <1>6

LEMMA DeclaredStays ==
  ASSUME module \in Modules, NEW w \in Which, NEW d \in Index,
         NEW a, NEW b, Valued(w, a), Extends(w, a, b), OfDeclared(w, d, a) # Bottom(w)
  PROVE  OfDeclared(w, d, b) = OfDeclared(w, d, a)
  <1>1. CASE w = "meaning"
    BY <1>1 DEF OfDeclared
  <1>2. CASE w = "bits"
    <2> DEFINE cases == module[d].cases
    <2>1. ASSUME NEW r \in Refs(d) PROVE RefBits(r, b) = RefBits(r, a)
      <3>1. r \in Ref
        BY RefsOf
      <3>2. RefBits(r, a) # Beyond
        BY <1>2, BitsTyped DEF OfDeclared, Bottom
      <3> QED BY <1>2, <3>1, <3>2, RefStays DEF OfRef, Bottom
    <2>2. ASSUME NEW c \in DOMAIN cases PROVE CaseBits(cases[c], b) = CaseBits(cases[c], a)
      <3>1. c \in 1..Len(cases) /\ DOMAIN cases[c] = 1..Len(cases[c])
        BY ModuleTypes
      <3>2. \A k \in DOMAIN cases[c] : RefBits(cases[c][k], b) = RefBits(cases[c][k], a)
        BY <2>1, <3>1, RefsOf
      <3>3. [k \in DOMAIN cases[c] |-> RefBits(cases[c][k], b)]
            = [k \in DOMAIN cases[c] |-> RefBits(cases[c][k], a)]
        BY <3>2
      <3> QED BY <3>3 DEF CaseBits
    <2>3. {CaseBits(cases[c], b) : c \in DOMAIN cases}
          = {CaseBits(cases[c], a) : c \in DOMAIN cases}
      BY <2>2
    <2>4. DeclarationBits(d, b) = DeclarationBits(d, a)
      BY <2>3 DEF DeclarationBits
    <2> QED BY <1>2, <2>4 DEF OfDeclared
  <1>3. CASE w = "depth"
    <2>1. ASSUME NEW r \in Refs(d) PROVE RefDepth(r, b) = RefDepth(r, a)
      <3>1. r \in Ref
        BY RefsOf
      <3>2. DeclarationDepth(d, a) # TooDeep /\ DeclarationDepth(d, a) \in 2..TooDeep
            /\ 2 + RefDepth(r, a) <= DeclarationDepth(d, a)
        BY <1>3, DepthOf DEF OfDeclared, Bottom
      <3>3. RefDepth(r, a) # TooDeep
        BY <3>2, BoundTypes
      <3> QED BY <1>3, <3>1, <3>3, RefStays DEF OfRef, Bottom
    <2>2. {RefDepth(r, b) : r \in Refs(d)} = {RefDepth(r, a) : r \in Refs(d)}
      BY <2>1
    <2>3. DeclarationDepth(d, b) = DeclarationDepth(d, a)
      BY <2>2 DEF DeclarationDepth
    <2> QED BY <1>3, <2>3 DEF OfDeclared
  <1> QED BY <1>1, <1>2, <1>3 DEF Which

LEMMA NameCases ==
  ASSUME module \in Modules, NEW n \in Known
  PROVE  \/ AliasFound(n) # {} /\ Target(TheAlias(n)) \in Ref
         \/ AliasFound(n) = {} /\ n \in Builtin
         \/ AliasFound(n) = {} /\ n \notin Builtin /\ TheFound(n) \in Index
  <1>1. CASE AliasFound(n) # {}
    <2>1. TheAlias(n) \in AliasFound(n)
      BY <1>1 DEF TheAlias
    <2>2. TheAlias(n) \in Index /\ module[TheAlias(n)].kind = "alias"
      BY <2>1 DEF AliasFound, Found
    <2> QED BY <1>1, <2>2, ModuleTypes
  <1>2. CASE AliasFound(n) = {} /\ n \notin Builtin
    <2>1. Found(n) # {}
      BY <1>2 DEF Known, Found
    <2>2. TheFound(n) \in Found(n)
      BY <2>1 DEF TheFound
    <2> QED BY <1>2, <2>2 DEF Found
  <1> QED BY <1>1, <1>2

LEMMA NameValued ==
  ASSUME module \in Modules, NEW w \in Which, NEW a, Valued(w, a), NEW n \in Known
  PROVE  /\ w = "bits" => OfName(w, n, a) \in 0..Beyond
         /\ w = "depth" => OfName(w, n, a) \in 1..TooDeep
  <1>1. CASE w = "bits"
    <2>1. \A r \in Ref : RefBits(r, a) \in 0..Beyond
      BY <1>1, RefBitsTyped DEF Valued
    <2>2. \A d \in Index : DeclarationBits(d, a) \in 0..Beyond
      BY <1>1, BitsTyped
    <2>3. n \in Builtin => Widths[n] \in 0..Beyond
      BY ConstantTypes, TableAssumption, BoundTypes
    <2> QED BY <1>1, <2>1, <2>2, <2>3, NameCases DEF OfName, OfRef, OfBuiltin, OfDeclared
  <1>2. CASE w = "depth"
    <2>1. \A r \in Ref : RefDepth(r, a) \in 1..TooDeep
      BY <1>2, RefDepthTyped
    <2>2. \A d \in Index : DeclarationDepth(d, a) \in 1..TooDeep
      BY <1>2, DepthOf, BoundTypes
    <2>3. 1 \in 1..TooDeep
      BY BoundTypes
    <2> QED BY <1>2, <2>1, <2>2, <2>3, NameCases DEF OfName, OfRef, OfBuiltin, OfDeclared
  <1> QED BY <1>1, <1>2

LEMMA NameStays ==
  ASSUME module \in Modules, NEW w \in Which, NEW a, NEW b, Valued(w, a),
         Extends(w, a, b), NEW n \in Known, OfName(w, n, a) # Bottom(w)
  PROVE  OfName(w, n, b) = OfName(w, n, a)
  <1>1. CASE AliasFound(n) # {} /\ Target(TheAlias(n)) \in Ref
    BY <1>1, RefStays DEF OfName
  <1>2. CASE AliasFound(n) = {} /\ n \in Builtin
    BY <1>2 DEF OfName
  <1>3. CASE AliasFound(n) = {} /\ n \notin Builtin /\ TheFound(n) \in Index
    BY <1>3, DeclaredStays DEF OfName
  <1> QED BY <1>1, <1>2, <1>3, NameCases

LEMMA RowsGrow ==
  ASSUME module \in Modules, NEW w \in Which, NEW A, Rows(w, A)
  PROVE  /\ \A k \in 0..Rounds : Valued(w, A[k])
         /\ \A k \in 0..(Rounds - 1) : Extends(w, A[k], A[k + 1])
  <1>0. Rounds \in Nat /\ Rounds - 1 \in Nat /\ Rounds # 0
    BY KnownFinite
  <1> DEFINE P == {k \in 0..Rounds : Valued(w, A[k])}
             Q == {k \in 0..(Rounds - 1) : Extends(w, A[k], A[k + 1])}
  <1>1. 0 \in P
    <2>1. /\ w = "bits" => Bottom(w) \in 0..Beyond
          /\ w = "depth" => Bottom(w) \in 1..TooDeep
      BY BoundTypes DEF Bottom
    <2>2. Valued(w, A[0])
      BY <2>1 DEF Valued, Rows
    <2> QED BY <1>0, <2>2
  <1>2. ASSUME NEW k \in 0..(Rounds - 1), k \in P PROVE k + 1 \in P
    <2>1. k + 1 \in 1..Rounds /\ (k + 1) - 1 = k /\ k + 1 \in 0..Rounds
      BY <1>0
    <2>2. \A n \in Known : A[k + 1][n] = OfName(w, n, A[k])
      BY <2>1 DEF Rows
    <2>3. Valued(w, A[k + 1])
      BY <1>2, <2>2, NameValued DEF Valued
    <2> QED BY <2>1, <2>3
  <1> HIDE DEF P
  <1>3. 0..Rounds \subseteq P
    BY <1>0, <1>1, <1>2, InductionTo
  <1>4. \A k \in 0..Rounds : Valued(w, A[k])
    BY <1>3 DEF P
  <1>5. 0 \in Q
    <2>1. Extends(w, A[0], A[0 + 1])
      BY DEF Extends, Rows
    <2> QED BY <1>0, <2>1
  <1>6. ASSUME NEW k \in 0..((Rounds - 1) - 1), k \in Q PROVE k + 1 \in Q
    <2>1. /\ k + 1 \in 1..Rounds /\ (k + 1) - 1 = k /\ k \in 0..Rounds
          /\ (k + 1) + 1 \in 1..Rounds /\ ((k + 1) + 1) - 1 = k + 1
          /\ k + 1 \in 0..(Rounds - 1)
      BY <1>0
    <2>2. \A n \in Known : A[k + 1][n] = OfName(w, n, A[k])
      BY <2>1 DEF Rows
    <2>3. \A n \in Known : A[(k + 1) + 1][n] = OfName(w, n, A[k + 1])
      BY <2>1 DEF Rows
    <2>4. Valued(w, A[k]) /\ Extends(w, A[k], A[k + 1])
      BY <1>4, <1>6, <2>1
    <2>5. Extends(w, A[k + 1], A[(k + 1) + 1])
      BY <2>2, <2>3, <2>4, NameStays DEF Extends
    <2> QED BY <2>1, <2>5
  <1> HIDE DEF Q
  <1>7. 0..(Rounds - 1) \subseteq Q
    BY <1>0, <1>5, <1>6, InductionTo
  <1> QED BY <1>4, <1>7 DEF Q

\* As there are more rounds than names, the last one finds nothing new.
LEMMA RowsEnd ==
  ASSUME module \in Modules, NEW w \in Which, NEW A, Rows(w, A)
  PROVE  A[Rounds] = A[Rounds - 1]
  <1> DEFINE N == Cardinality(Known)
             D(k) == {n \in Known : A[k][n] # Bottom(w)}
             P == {k \in 0..N : A[k] = A[k + 1] \/ Cardinality(D(k + 1)) >= k + 1}
  <1>0. /\ N \in Nat /\ Rounds = N + 1 /\ Rounds - 1 = N /\ Rounds \in Nat
        /\ IsFiniteSet(Known)
    <2>1. \A p \in Nat : (p + 1) - 1 = p /\ p + 1 \in Nat
      OBVIOUS
    <2> QED BY <2>1, KnownFinite DEF Rounds
  <1>1. \A k : IsFiniteSet(D(k)) /\ Cardinality(D(k)) \in Nat /\ Cardinality(D(k)) <= N
    <2>1. \A k : D(k) \in SUBSET Known
      OBVIOUS
    <2> HIDE DEF D
    <2> QED BY <1>0, <2>1, FS_Subset, FS_CardinalityType
  <1>2. ASSUME NEW k \in 0..N, A[k] # A[k + 1]
        PROVE  D(k) \subseteq D(k + 1) /\ D(k) # D(k + 1)
    <2>1. k \in 0..Rounds /\ k + 1 \in 0..Rounds /\ k \in 0..(Rounds - 1)
      BY <1>0
    <2>2. Extends(w, A[k], A[k + 1])
      BY <2>1, RowsGrow
    <2>3. A[k] = [n \in Known |-> A[k][n]] /\ A[k + 1] = [n \in Known |-> A[k + 1][n]]
      BY <2>1 DEF Rows
    <2>4. PICK n \in Known : A[k][n] # A[k + 1][n]
      BY <1>2, <2>3
    <2>5. A[k][n] = Bottom(w) /\ A[k + 1][n] # Bottom(w)
      BY <2>2, <2>4 DEF Extends
    <2> QED BY <2>2, <2>4, <2>5 DEF Extends
  <1>3. ASSUME NEW k \in 0..N, A[k] # A[k + 1]
        PROVE  Cardinality(D(k)) + 1 <= Cardinality(D(k + 1))
    <2>1. D(k) \in SUBSET D(k + 1) /\ D(k) # D(k + 1)
      BY <1>2, <1>3
    <2> HIDE DEF D
    <2>2. /\ Cardinality(D(k)) <= Cardinality(D(k + 1))
          /\ Cardinality(D(k)) # Cardinality(D(k + 1))
      BY <1>1, <2>1, FS_Subset
    <2> QED BY <1>1, <2>2
  <1>4. 0 \in P
    <2>1. 0 \in 0..N
      BY <1>0
    <2>2. A[0] # A[0 + 1] => Cardinality(D(0 + 1)) >= 0 + 1
      <3> HIDE DEF D
      <3> QED BY <1>1, <1>3, <2>1
    <2> HIDE DEF D
    <2> QED BY <2>1, <2>2
  <1>5. ASSUME NEW k \in 0..(N - 1), k \in P PROVE k + 1 \in P
    <2>1. /\ k \in 0..N /\ k + 1 \in 0..N
          /\ k + 1 \in 1..Rounds /\ (k + 1) - 1 = k
          /\ (k + 1) + 1 \in 1..Rounds /\ ((k + 1) + 1) - 1 = k + 1
          /\ k + 1 \in 0..Rounds /\ (k + 1) + 1 \in 0..Rounds
      BY <1>0
    <2>2. CASE A[k] = A[k + 1]
      <3>1. \A n \in Known : A[k + 1][n] = OfName(w, n, A[k])
        BY <2>1 DEF Rows
      <3>2. \A n \in Known : A[(k + 1) + 1][n] = OfName(w, n, A[k + 1])
        BY <2>1 DEF Rows
      <3>3. /\ A[k + 1] = [n \in Known |-> A[k + 1][n]]
            /\ A[(k + 1) + 1] = [n \in Known |-> A[(k + 1) + 1][n]]
        BY <2>1 DEF Rows
      <3>4. \A n \in Known : A[(k + 1) + 1][n] = A[k + 1][n]
        BY <2>2, <3>1, <3>2
      <3>5. A[k + 1] = A[(k + 1) + 1]
        BY <3>3, <3>4
      <3> QED BY <2>1, <3>5
    <2>3. CASE A[k] # A[k + 1] /\ A[k + 1] # A[(k + 1) + 1]
      <3>1. Cardinality(D(k + 1)) >= k + 1
        BY <1>5, <2>3
      <3>2. Cardinality(D(k + 1)) + 1 <= Cardinality(D((k + 1) + 1))
        BY <1>3, <2>1, <2>3
      <3> HIDE DEF D
      <3>3. Cardinality(D(k + 1)) \in Nat /\ Cardinality(D((k + 1) + 1)) \in Nat
        BY <1>1
      <3>4. \A p, q, i \in Nat : p >= i + 1 /\ p + 1 <= q => q >= (i + 1) + 1
        OBVIOUS
      <3>5. k \in Nat
        BY <2>1
      <3>6. Cardinality(D((k + 1) + 1)) >= (k + 1) + 1
        BY <3>1, <3>2, <3>3, <3>4, <3>5
      <3> QED BY <2>1, <3>6
    <2>4. CASE A[k + 1] = A[(k + 1) + 1]
      BY <2>1, <2>4
    <2> QED BY <2>2, <2>3, <2>4
  <1> HIDE DEF P
  <1>6. 0..N \subseteq P
    BY <1>0, <1>4, <1>5, InductionTo
  <1>7. N \in 0..N
    BY <1>0
  <1>8. A[N] = A[N + 1] \/ Cardinality(D(N + 1)) >= N + 1
    BY <1>6, <1>7 DEF P
  <1>9. ~(Cardinality(D(N + 1)) >= N + 1)
    <2> HIDE DEF D, N
    <2> QED BY <1>0, <1>1
  <1> QED BY <1>0, <1>8, <1>9

\* What is used of Meaning, NameBits and NameDepth.
LEMMA FixedPoint ==
  ASSUME module \in Modules, NEW w \in Which
  PROVE  /\ Valued(w, LastRow(w))
         /\ \A n \in Known : LastRow(w)[n] = OfName(w, n, LastRow(w))
  <1>1. PICK A : Rows(w, A) /\ LastRow(w) = A[Rounds]
    BY LastRowIs
  <1>2. Rounds \in 0..Rounds /\ Rounds \in 1..Rounds
    BY KnownFinite
  <1>3. Valued(w, A[Rounds])
    BY <1>1, <1>2, RowsGrow
  <1>4. A[Rounds] = A[Rounds - 1]
    BY <1>1, RowsEnd
  <1>5. \A n \in Known : A[Rounds][n] = OfName(w, n, A[Rounds - 1])
    BY <1>1, <1>2 DEF Rows
  <1> QED BY <1>1, <1>3, <1>4, <1>5

-----------------------------------------------------------------------------
(***************************************************************************)
(* They are a reading.                                                     *)
(***************************************************************************)
LEMMA AliasIs ==
  ASSUME module \in Modules, NEW d \in Index
  PROVE  /\ module[d].name \in Known /\ module[d].name \in Nat
         /\ module[d].kind = "alias" =>
              AliasFound(module[d].name) # {} /\ TheAlias(module[d].name) = d
         /\ module[d].kind # "alias" =>
              AliasFound(module[d].name) = {} /\ TheFound(module[d].name) = d
  <1>1. Found(module[d].name) = {d}
    BY ModulesAssumption DEF Found
  <1>2. module[d].kind = "alias" => AliasFound(module[d].name) = {d}
    BY <1>1 DEF AliasFound
  <1>3. module[d].kind # "alias" => AliasFound(module[d].name) = {}
    BY <1>1 DEF AliasFound
  <1>4. module[d].name \in Known
    BY DEF Known
  <1>5. module[d].name \in Nat
    BY ModuleTypes DEF Declaration
  <1> QED BY <1>1, <1>2, <1>3, <1>4, <1>5 DEF TheAlias, TheFound

LEMMA Fixed ==
  ASSUME module \in Modules
  PROVE  /\ \A n \in Known : Meaning[n] = OfName("meaning", n, Meaning)
         /\ \A n \in Known : NameBits[n] = OfName("bits", n, NameBits)
         /\ \A n \in Known : NameDepth[n] = OfName("depth", n, NameDepth)
         /\ Valued("bits", NameBits) /\ Valued("depth", NameDepth)
         /\ Valued("meaning", Meaning)
  <1>1. /\ LastRow("meaning") = Meaning /\ LastRow("bits") = NameBits
        /\ LastRow("depth") = NameDepth
    BY DEF LastRow
  <1>2. \A w \in Which : /\ Valued(w, LastRow(w))
                         /\ \A n \in Known : LastRow(w)[n] = OfName(w, n, LastRow(w))
    BY FixedPoint
  <1>3. "meaning" \in Which /\ "bits" \in Which /\ "depth" \in Which
    BY DEF Which
  <1> HIDE DEF Which
  <1> QED BY <1>1, <1>2, <1>3

LEMMA KnownNumbers ==
  ASSUME module \in Modules, NEW n \in Known
  PROVE  n \in Nat
  BY TableAssumption, AliasIs DEF Known

\* Aliases that mean something are not in a ring.
LEMMA RankExists ==
  ASSUME module \in Modules
  PROVE  \E rank : /\ \A n \in Nat : rank[n] \in Nat
                   /\ \A d \in Index :
                        module[d].kind = "alias" /\ Meaning[module[d].name] # Nothing =>
                          \A n \in Onward(module, d) : rank[n] < rank[module[d].name]
  <1>1. "meaning" \in Which /\ Bottom("meaning") = Nothing
    BY DEF Which, Bottom
  <1>2. PICK A : Rows("meaning", A) /\ Meaning = A[Rounds]
    <2>1. \E A : Rows("meaning", A) /\ LastRow("meaning") = A[Rounds]
      BY <1>1, LastRowIs
    <2> QED BY <2>1 DEF LastRow
  <1> DEFINE Met(n) == {k \in 0..Rounds : n \in Known /\ A[k][n] # Nothing}
             First(n) == CHOOSE k \in Met(n) : \A j \in Met(n) : k <= j
             rank == [n \in Nat |-> IF Met(n) = {} THEN 0 ELSE First(n)]
  <1>3. ASSUME NEW n, Met(n) # {}
        PROVE  First(n) \in Met(n) /\ \A j \in Met(n) : First(n) <= j
    <2>1. Met(n) \in SUBSET Nat
      BY KnownFinite
    <2> HIDE DEF Met
    <2>2. PICK j \in Met(n) : TRUE
      BY <1>3
    <2>3. \E k \in Met(n) : \A i \in Met(n) : k <= i
      BY <2>1, <2>2, Least
    <2> QED BY <2>3
  <1>4. \A n : Met(n) \subseteq Nat
    BY KnownFinite
  <1>5. \A n \in Nat : /\ rank[n] \in Nat
                       /\ Met(n) # {} => rank[n] = First(n)
    <2> HIDE DEF First, Met
    <2> QED BY <1>3, <1>4
  <1>6. ASSUME NEW d \in Index, module[d].kind = "alias",
               Meaning[module[d].name] # Nothing, NEW n \in Onward(module, d)
        PROVE  rank[n] < rank[module[d].name]
    <2> DEFINE m == module[d].name
               k == First(m)
    <2>1. m \in Known /\ m \in Nat /\ AliasFound(m) # {} /\ TheAlias(m) = d
      BY <1>6, AliasIs
    <2>2. Rounds \in Met(m)
      BY <1>2, <1>6, <2>1, KnownFinite
    <2>3. k \in Met(m) /\ rank[m] = k
      <3> HIDE DEF First, Met, rank
      <3> QED BY <1>3, <1>5, <2>1, <2>2
    <2> HIDE DEF First, rank
    <2>4. k \in 0..Rounds /\ A[k][m] # Nothing
      BY <2>3
    <2>5. k # 0
      BY <1>1, <1>2, <2>1, <2>4 DEF Rows
    <2>6. k \in 1..Rounds /\ k - 1 \in 0..Rounds
      BY <2>4, <2>5, KnownFinite
    <2>7. A[k][m] = OfName("meaning", m, A[k - 1])
      BY <1>2, <2>1, <2>6 DEF Rows
    <2>8. OfRef("meaning", Target(d), A[k - 1]) # Bottom("meaning")
      BY <1>1, <2>1, <2>4, <2>7 DEF OfName
    <2>9. Target(d) \in Ref /\ Valued("meaning", A[k - 1])
      BY <1>6, ModuleTypes DEF Valued
    <2>10. n \in Known /\ A[k - 1][n] # Nothing
      <3>1. n \in NamesOf(Target(d))
        BY <1>6 DEF Onward, Target
      <3> QED BY <1>1, <2>8, <2>9, <3>1, RefNeeds
    <2>11. k - 1 \in Met(n)
      BY <2>6, <2>10
    <2>12. n \in Nat
      BY <1>6, <2>10, KnownNumbers
    <2>13. rank[n] <= k - 1
      <3> HIDE DEF Met
      <3> QED BY <1>3, <1>5, <2>11, <2>12
    <2>14. rank[n] \in Nat /\ k \in Nat
      BY <1>5, <2>4, <2>12, KnownFinite
    <2> QED BY <2>3, <2>13, <2>14
  <1> HIDE DEF rank
  <1> QED BY <1>5, <1>6

\* A name that means nothing has no width.
LEMMA NothingBeyond ==
  ASSUME module \in Modules, NEW n \in Known, Meaning[n] = Nothing
  PROVE  NameBits[n] = Beyond
  <1>1. "bits" \in Which /\ Bottom("bits") = Beyond
    BY DEF Which, Bottom
  <1>2. PICK A : Rows("bits", A) /\ NameBits = A[Rounds]
    <2>1. \E A : Rows("bits", A) /\ LastRow("bits") = A[Rounds]
      BY <1>1, LastRowIs
    <2> QED BY <2>1 DEF LastRow
  <1> DEFINE P == {k \in 0..Rounds : \A i \in Known : Meaning[i] = Nothing => A[k][i] = Beyond}
  <1>3. 0 \in P
    <2>1. \A i \in Known : A[0][i] = Beyond
      BY <1>1, <1>2 DEF Rows
    <2> QED BY <2>1, KnownFinite
  <1>4. ASSUME NEW k \in 0..(Rounds - 1), k \in P PROVE k + 1 \in P
    <2>1. k + 1 \in 1..Rounds /\ (k + 1) - 1 = k /\ k + 1 \in 0..Rounds /\ k \in 0..Rounds
      BY KnownFinite
    <2>2. ASSUME NEW i \in Known, Meaning[i] = Nothing PROVE A[k + 1][i] = Beyond
      <3>1. A[k + 1][i] = OfName("bits", i, A[k])
        BY <1>2, <2>1 DEF Rows
      <3>2. Meaning[i] = OfName("meaning", i, Meaning)
        BY Fixed
      <3> DEFINE r == Target(TheAlias(i))
      <3>3. AliasFound(i) # {} /\ r \in Ref /\ RefMeaning(r, Meaning) = Nothing
        BY <2>2, <3>2, NameCases DEF OfName, OfRef, OfBuiltin, OfDeclared, Nothing
      <3>4. A[k + 1][i] = RefBits(r, A[k])
        BY <3>1, <3>3 DEF OfName, OfRef
      <3> HIDE DEF r
      <3>5. ASSUME RefBits(r, A[k]) # Beyond PROVE FALSE
        <4>1. Valued("bits", A[k])
          BY <1>1, <1>2, <2>1, RowsGrow
        <4>2. OfRef("bits", r, A[k]) # Bottom("bits")
          BY <1>1, <3>5 DEF OfRef
        <4>3. ~Unresolvable(r) /\ \A j \in NamesOf(r) : j \in Known /\ A[k][j] # Beyond
          BY <1>1, <3>3, <4>1, <4>2, RefNeeds
        <4>4. \A j \in NamesOf(r) : Meaning[j] # Nothing
          BY <1>4, <4>3
        <4> QED BY <3>3, <4>3, <4>4, Resolvable DEF RefMeaning, Nothing
      <3> QED BY <3>4, <3>5
    <2> QED BY <2>1, <2>2
  <1> HIDE DEF P
  <1>5. 0..Rounds \subseteq P
    BY <1>3, <1>4, InductionTo, KnownFinite
  <1>6. Rounds \in P
    BY <1>5, KnownFinite
  <1> QED BY <1>2, <1>6 DEF P

\* The reading by Meaning, NameBits and NameDepth.
ByNames(x) ==
  /\ \A n \in Nat : /\ x.name[n] = (IF n \in Known THEN Meaning[n] ELSE Nothing)
                    /\ x.nameBits[n] = (IF n \in Known THEN NameBits[n] ELSE Beyond)
                    /\ x.nameDepth[n] = (IF n \in Known THEN NameDepth[n] ELSE TooDeep)
  /\ \A r \in Ref : /\ x.meaning[r] = RefMeaning(r, Meaning)
                    /\ x.bits[r] = RefBits(r, NameBits)
                    /\ x.depth[r] = RefDepth(r, NameDepth)
  /\ x.bits = BitsOf(NameBits) /\ x.sum = SumsOf(NameBits)
  /\ x.declBits = WidthsOf(NameBits)
  /\ \A d \in Index : /\ x.declBits[d] = DeclarationBits(d, NameBits)
                      /\ x.declDepth[d] = DeclarationDepth(d, NameDepth)
  /\ \A n \in Nat : x.rank[n] \in Nat
  /\ \A d \in Index :
       module[d].kind = "alias" /\ Meaning[module[d].name] # Nothing =>
         \A n \in Onward(module, d) : x.rank[n] < x.rank[module[d].name]

LEMMA ByNamesExists ==
  ASSUME module \in Modules
  PROVE  \E x : ByNames(x)
  <1>1. PICK rank : /\ \A n \in Nat : rank[n] \in Nat
                    /\ \A d \in Index :
                         module[d].kind = "alias" /\ Meaning[module[d].name] # Nothing =>
                           \A n \in Onward(module, d) : rank[n] < rank[module[d].name]
    BY RankExists
  <1> DEFINE x == [name |-> [n \in Nat |-> IF n \in Known THEN Meaning[n] ELSE Nothing],
                   nameBits |-> [n \in Nat |-> IF n \in Known THEN NameBits[n] ELSE Beyond],
                   nameDepth |-> [n \in Nat |-> IF n \in Known THEN NameDepth[n] ELSE TooDeep],
                   meaning |-> [r \in Ref |-> RefMeaning(r, Meaning)],
                   bits |-> BitsOf(NameBits),
                   depth |-> [r \in Ref |-> RefDepth(r, NameDepth)],
                   declBits |-> WidthsOf(NameBits),
                   declDepth |-> [d \in Index |-> DeclarationDepth(d, NameDepth)],
                   sum |-> SumsOf(NameBits),
                   rank |-> rank]
  <1>2. \A n \in Nat : /\ x.name[n] = (IF n \in Known THEN Meaning[n] ELSE Nothing)
                       /\ x.nameBits[n] = (IF n \in Known THEN NameBits[n] ELSE Beyond)
                       /\ x.nameDepth[n] = (IF n \in Known THEN NameDepth[n] ELSE TooDeep)
    OBVIOUS
  <1>3. \A r \in Ref : /\ x.meaning[r] = RefMeaning(r, Meaning)
                       /\ x.bits[r] = RefBits(r, NameBits)
                       /\ x.depth[r] = RefDepth(r, NameDepth)
    BY DEF BitsOf
  <1>4. \A d \in Index : /\ x.declBits[d] = DeclarationBits(d, NameBits)
                         /\ x.declDepth[d] = DeclarationDepth(d, NameDepth)
    BY DEF WidthsOf
  <1>5. /\ x.bits = BitsOf(NameBits) /\ x.sum = SumsOf(NameBits)
        /\ x.declBits = WidthsOf(NameBits) /\ x.rank = rank
    OBVIOUS
  <1> HIDE DEF x
  <1>6. ByNames(x)
    BY <1>1, <1>2, <1>3, <1>4, <1>5 DEF ByNames
  <1> QED BY <1>6

LEMMA ByNamesRefs ==
  ASSUME module \in Modules, NEW x, ByNames(x), NEW r \in Ref
  PROVE  RefRead(x, r)
  <1>1. /\ x.meaning[r] = RefMeaning(r, Meaning)
        /\ x.bits[r] = RefBits(r, NameBits)
        /\ x.depth[r] = RefDepth(r, NameDepth)
    BY DEF ByNames
  <1>2. /\ \A n \in Known : NameBits[n] \in 0..Beyond
        /\ \A n \in Known : NameDepth[n] \in 1..TooDeep
    BY Fixed DEF Valued
  <1>3. ASSUME NEW n \in Nat
        PROVE  /\ n \in Known => /\ x.name[n] = Meaning[n]
                                 /\ x.nameBits[n] = NameBits[n]
                                 /\ x.nameDepth[n] = NameDepth[n]
               /\ n \notin Known => /\ x.name[n] = Nothing
                                    /\ x.nameBits[n] = Beyond
                                    /\ x.nameDepth[n] = TooDeep
               /\ x.nameBits[n] \in 0..Beyond /\ x.nameDepth[n] \in 1..TooDeep
    BY <1>2, BoundTypes DEF ByNames
  <1>4. CASE r.form = "named"
    <2>1. r.names[1] \in Nat /\ NamesOf(r) = {r.names[1]}
      BY <1>4, NamesOfRef, RefTypes
    <2>2. Unresolvable(r) <=> r.names[1] \notin Known
      BY <1>4, <2>1 DEF Unresolvable
    <2>3. /\ x.meaning[r] = x.name[r.names[1]]
          /\ x.bits[r] = x.nameBits[r.names[1]]
          /\ x.depth[r] = x.nameDepth[r.names[1]]
      BY <1>1, <1>3, <1>4, <2>1, <2>2 DEF RefMeaning, RefBits, RefDepth
    <2> QED BY <1>4, <2>3 DEF RefRead
  <1>5. CASE r.form = "applied" /\ Len(r.names) = 2
    <2> DEFINE p == r.names[1]
               q == r.names[2]
    <2>1. p \in Nat /\ q \in Nat /\ NamesOf(r) = {p, q}
      BY <1>5, NamesOfRef, RefTypes
    <2>2. Unresolvable(r) <=> p \notin Known \/ q \notin Known
      BY <1>5, <2>1 DEF Unresolvable
    <2> HIDE DEF p, q
    <2>3. x.meaning[r] = IF x.name[p] = Nothing \/ x.name[q] = Nothing THEN Nothing
                         ELSE <<"decision", x.name[p], x.name[q]>>
      <3>1. p = r.names[1] /\ q = r.names[2]
        BY DEF p, q
      <3> QED BY <1>1, <1>3, <1>5, <2>1, <2>2, <3>1 DEF RefMeaning
    <2>4. \A a, b \in 0..Beyond : a = Beyond \/ b = Beyond => Capped(1 + Larger(a, b)) = Beyond
      BY BoundTypes, ConstantTypes DEF Capped, Larger
    <2>5. x.bits[r] = Capped(1 + Larger(x.nameBits[p], x.nameBits[q]))
      <3>1. p = r.names[1] /\ q = r.names[2]
        BY DEF p, q
      <3>2. CASE Unresolvable(r)
        <4>1. x.nameBits[p] = Beyond \/ x.nameBits[q] = Beyond
          BY <1>3, <2>1, <2>2, <3>2
        <4>2. x.nameBits[p] \in 0..Beyond /\ x.nameBits[q] \in 0..Beyond
          BY <1>3, <2>1
        <4>3. Capped(1 + Larger(x.nameBits[p], x.nameBits[q])) = Beyond
          BY <2>4, <4>1, <4>2
        <4> QED BY <1>1, <3>2, <4>3 DEF RefBits
      <3>3. CASE ~Unresolvable(r)
        <4>1. x.nameBits[p] = NameBits[p] /\ x.nameBits[q] = NameBits[q]
          BY <1>3, <2>1, <2>2, <3>3
        <4> QED BY <1>1, <1>5, <3>1, <3>3, <4>1 DEF RefBits
      <3> QED BY <3>2, <3>3
    <2>6. \A a, b \in 1..TooDeep : a = TooDeep \/ b = TooDeep => Within(1 + Larger(a, b)) = TooDeep
      BY BoundTypes, ConstantTypes DEF Within, Larger
    <2>7. x.depth[r] = Within(1 + Larger(x.nameDepth[p], x.nameDepth[q]))
      <3>1. p = r.names[1] /\ q = r.names[2]
        BY DEF p, q
      <3>2. CASE Unresolvable(r)
        <4>1. x.nameDepth[p] = TooDeep \/ x.nameDepth[q] = TooDeep
          BY <1>3, <2>1, <2>2, <3>2
        <4>2. x.nameDepth[p] \in 1..TooDeep /\ x.nameDepth[q] \in 1..TooDeep
          BY <1>3, <2>1
        <4>3. Within(1 + Larger(x.nameDepth[p], x.nameDepth[q])) = TooDeep
          BY <2>6, <4>1, <4>2
        <4> QED BY <1>1, <3>2, <4>3 DEF RefDepth
      <3>3. CASE ~Unresolvable(r)
        <4>1. x.nameDepth[p] = NameDepth[p] /\ x.nameDepth[q] = NameDepth[q]
          BY <1>3, <2>1, <2>2, <3>3
        <4> QED BY <1>1, <1>5, <3>1, <3>3, <4>1 DEF RefDepth
      <3> QED BY <3>2, <3>3
    <2> QED BY <1>5, <2>3, <2>5, <2>7 DEF RefRead, p, q
  <1>6. CASE r.form = "applied" /\ Len(r.names) # 2
    <2>1. Unresolvable(r)
      BY <1>6 DEF Unresolvable
    <2> QED BY <1>1, <1>6, <2>1 DEF RefRead, RefMeaning, RefBits
  <1>7. CASE r.form \in {"bytes", "digest"} /\ r.length = 0
    <2>1. Unresolvable(r)
      BY <1>7 DEF Unresolvable
    <2> QED BY <1>1, <1>7, <2>1 DEF RefRead, RefMeaning, RefBits
  <1>8. CASE r.form \in {"bytes", "digest"} /\ r.length # 0
    <2>1. ~Unresolvable(r) /\ NamesOf(r) = {}
      BY <1>8, NamesOfRef DEF Unresolvable
    <2> QED BY <1>1, <1>8, <2>1 DEF RefRead, RefMeaning, RefBits, RefDepth
  <1> QED BY <1>4, <1>5, <1>6, <1>7, <1>8, RefTypes

LEMMA ByNamesNames ==
  ASSUME module \in Modules, NEW x, ByNames(x), NEW n \in Nat
  PROVE  NameRead(module, x, n)
  <1>1. /\ x.name[n] = (IF n \in Known THEN Meaning[n] ELSE Nothing)
        /\ x.nameBits[n] = (IF n \in Known THEN NameBits[n] ELSE Beyond)
        /\ x.nameDepth[n] = (IF n \in Known THEN NameDepth[n] ELSE TooDeep)
    BY DEF ByNames
  <1>2. x.nameBits[n] \in 0..Beyond /\ x.nameDepth[n] \in 1..TooDeep
    BY <1>1, Fixed, BoundTypes DEF Valued
  <1>3. x.name[n] = Nothing => x.nameBits[n] = Beyond
    BY <1>1, NothingBeyond
  <1>4. n \notin Builtin /\ (\A d \in Index : module[d].name # n) => x.name[n] = Nothing
    BY <1>1 DEF Known
  <1>5. ASSUME n \in Builtin, Leads(module, {n}) = {}
        PROVE  x.name[n] = <<"base", n>> /\ x.nameBits[n] = Widths[n] /\ x.nameDepth[n] = 1
    <2>1. n \in Known
      BY <1>5 DEF Known
    <2>2. AliasFound(n) = {}
      BY <1>5 DEF AliasFound, Found, Leads, Aliases
    <2>3. /\ Meaning[n] = OfName("meaning", n, Meaning)
          /\ NameBits[n] = OfName("bits", n, NameBits)
          /\ NameDepth[n] = OfName("depth", n, NameDepth)
      BY <2>1, Fixed
    <2> QED BY <1>1, <1>5, <2>1, <2>2, <2>3 DEF OfName, OfBuiltin
  <1> QED BY <1>2, <1>3, <1>4, <1>5 DEF NameRead

LEMMA ByNamesDeclarations ==
  ASSUME module \in Modules, NEW x, ByNames(x), NEW d \in Index
  PROVE  DeclarationRead(module, x, d) /\ Ranked(module, x, d)
  <1> DEFINE m == module[d].name
  <1>1. m \in Known /\ m \in Nat
    BY AliasIs
  <1>2. x.name[m] = Meaning[m] /\ x.nameBits[m] = NameBits[m] /\ x.nameDepth[m] = NameDepth[m]
    BY <1>1 DEF ByNames
  <1>3. /\ Meaning[m] = OfName("meaning", m, Meaning)
        /\ NameBits[m] = OfName("bits", m, NameBits)
        /\ NameDepth[m] = OfName("depth", m, NameDepth)
    BY <1>1, Fixed
  <1>4. WidthRead(module, x, d)
    <2>1. \A n \in Known : NameBits[n] \in 0..Beyond
      BY Fixed DEF Valued
    <2>2. Summed(module, x, d)
      BY <2>1, BitsRead DEF ByNames
    <2> QED BY <2>2 DEF Summed
  <1>5. /\ x.declDepth[d] \in 2..TooDeep
        /\ \A c \in 1..Len(module[d].cases) : \A k \in 1..Len(module[d].cases[c]) :
             x.declDepth[d] = TooDeep \/ 2 + x.depth[module[d].cases[c][k]] <= x.declDepth[d]
    <2>1. Valued("depth", NameDepth) /\ x.declDepth[d] = DeclarationDepth(d, NameDepth)
      BY Fixed DEF ByNames
    <2>2. x.declDepth[d] \in 2..TooDeep
      BY <2>1, DepthOf
    <2>3. ASSUME NEW c \in 1..Len(module[d].cases), NEW k \in 1..Len(module[d].cases[c])
          PROVE  x.declDepth[d] = TooDeep \/ 2 + x.depth[module[d].cases[c][k]] <= x.declDepth[d]
      <3>1. PICK r \in Refs(d) : r = module[d].cases[c][k]
        BY RefsOf
      <3>2. r \in Ref
        BY RefsOf
      <3>3. x.depth[r] = RefDepth(r, NameDepth)
        BY <3>2 DEF ByNames
      <3>4. x.declDepth[d] = TooDeep \/ 2 + RefDepth(r, NameDepth) <= x.declDepth[d]
        BY <2>1, DepthOf
      <3> QED BY <3>1, <3>3, <3>4
    <2> QED BY <2>2, <2>3
  <1>6. ASSUME module[d].kind = "alias"
        PROVE  /\ x.name[m] = x.meaning[module[d].cases[1][1]]
               /\ x.nameBits[m] = x.bits[module[d].cases[1][1]]
               /\ x.nameDepth[m] = x.depth[module[d].cases[1][1]]
    <2>1. AliasFound(m) # {} /\ TheAlias(m) = d
      BY <1>6, AliasIs
    <2>2. Target(d) \in Ref /\ Target(d) = module[d].cases[1][1]
      BY <1>6, ModuleTypes DEF Target
    <2> HIDE DEF m
    <2>3. /\ Meaning[m] = RefMeaning(Target(d), Meaning)
          /\ NameBits[m] = RefBits(Target(d), NameBits)
          /\ NameDepth[m] = RefDepth(Target(d), NameDepth)
      BY <1>3, <2>1 DEF OfName, OfRef
    <2> QED BY <1>2, <2>2, <2>3 DEF ByNames
  <1>7. ASSUME module[d].kind # "alias", m \notin Builtin
        PROVE  /\ x.name[m] = <<"declared", d>>
               /\ x.nameBits[m] = x.declBits[d]
               /\ x.nameDepth[m] = x.declDepth[d]
    <2>1. AliasFound(m) = {} /\ TheFound(m) = d
      BY <1>7, AliasIs
    <2> HIDE DEF m
    <2>2. /\ Meaning[m] = <<"declared", d>>
          /\ NameBits[m] = DeclarationBits(d, NameBits)
          /\ NameDepth[m] = DeclarationDepth(d, NameDepth)
      BY <1>3, <1>7, <2>1 DEF OfName, OfDeclared
    <2> QED BY <1>2, <2>2 DEF ByNames
  <1>8. DeclarationRead(module, x, d)
    BY <1>4, <1>5, <1>6, <1>7 DEF DeclarationRead
  <1>9. Ranked(module, x, d)
    BY <1>2 DEF Ranked, ByNames
  <1> QED BY <1>8, <1>9

LEMMA NamesAreReading ==
  ASSUME module \in Modules, NEW x, ByNames(x)
  PROVE  Reading(module, x)
  BY ByNamesRefs, ByNamesNames, ByNamesDeclarations DEF Reading, ByNames

-----------------------------------------------------------------------------
(***************************************************************************)
(* The entries have a reading too, and its meanings are Denotation.        *)
(***************************************************************************)
LEMMA EntriesRead ==
  ASSUME NEW tab, TableOK(tab), NEW x
  PROVE  \E y : TableReading(tab, x, y)
  <1> DEFINE L == Len(tab)
             P == {n \in 0..L : \E y : \A t \in 1..n : EntryRead(tab, x, y, t)}
  <1>0. L \in Nat /\ \A t \in 1..L : EntryOK(tab[t], t)
    BY DEF TableOK
  <1>1. 0 \in P
    BY <1>0
  <1>2. ASSUME NEW n \in 0..(L - 1), n \in P PROVE n + 1 \in P
    <2>1. PICK y : \A t \in 1..n : EntryRead(tab, x, y, t)
      BY <1>2
    <2> DEFINE e == tab[n + 1]
               ma == <<"decision", y.meaning[e.a], y.meaning[e.b]>>
               mb == Capped(1 + Larger(y.bits[e.a], y.bits[e.b]))
               md == Within(1 + Larger(y.depth[e.a], y.depth[e.b]))
               vm == IF e.kind = "decision" THEN ma ELSE <<e.kind, e.a>>
               vb == IF e.kind = "decision" THEN mb
                     ELSE IF e.kind = "declared" THEN x.declBits[e.a]
                     ELSE IF e.kind = "base" THEN Widths[e.a] ELSE Capped(8 * e.a)
               vd == IF e.kind = "decision" THEN md
                     ELSE IF e.kind = "declared" THEN x.declDepth[e.a] ELSE 1
               z == [meaning |-> [t \in 1..(n + 1) |-> IF t <= n THEN y.meaning[t] ELSE vm],
                     bits |-> [t \in 1..(n + 1) |-> IF t <= n THEN y.bits[t] ELSE vb],
                     depth |-> [t \in 1..(n + 1) |-> IF t <= n THEN y.depth[t] ELSE vd]]
    <2>2. n \in Nat /\ n + 1 \in 1..L /\ n + 1 \in 1..(n + 1) /\ ~(n + 1 <= n)
          /\ n + 1 \in 0..L
      BY <1>0
    <2>3. \A t \in 1..n : /\ z.meaning[t] = y.meaning[t] /\ z.bits[t] = y.bits[t]
                          /\ z.depth[t] = y.depth[t]
      <3>1. \A t \in 1..n : t \in 1..(n + 1) /\ t <= n
        BY <2>2
      <3> HIDE DEF vm, vb, vd
      <3> QED BY <3>1
    <2>4. z.meaning[n + 1] = vm /\ z.bits[n + 1] = vb /\ z.depth[n + 1] = vd
      <3> HIDE DEF vm, vb, vd
      <3> QED BY <2>2
    <2> HIDE DEF z
    <2>5. ASSUME NEW t \in 1..L, tab[t].kind = "decision"
          PROVE  tab[t].a \in 1..(t - 1) /\ tab[t].b \in 1..(t - 1)
      BY <1>0, <2>5 DEF EntryOK
    <2>6. ASSUME NEW t \in 1..n PROVE EntryRead(tab, x, z, t)
      <3>1. t \in 1..L /\ EntryRead(tab, x, y, t)
        BY <1>0, <2>1, <2>2
      <3>2. CASE tab[t].kind = "decision"
        <4>1. tab[t].a \in 1..n /\ tab[t].b \in 1..n
          BY <2>2, <2>5, <3>1, <3>2
        <4> QED BY <2>3, <3>1, <3>2, <4>1 DEF EntryRead
      <3>3. CASE tab[t].kind # "decision"
        BY <2>3, <3>1, <3>3 DEF EntryRead
      <3> QED BY <3>2, <3>3
    <2>7. EntryRead(tab, x, z, n + 1)
      <3>1. CASE e.kind = "decision"
        <4>1. e.a \in 1..n /\ e.b \in 1..n
          <5>1. (n + 1) - 1 = n
            BY <2>2
          <5> QED BY <2>2, <2>5, <3>1, <5>1
        <4>2. vm = ma /\ vb = mb /\ vd = md
          BY <3>1
        <4> QED BY <2>3, <2>4, <3>1, <4>1, <4>2 DEF EntryRead
      <3>2. CASE e.kind # "decision"
        BY <2>4, <3>2 DEF EntryRead
      <3> QED BY <3>1, <3>2
    <2>8. \A t \in 1..(n + 1) : t \in 1..n \/ t = n + 1
      BY <2>2
    <2> QED BY <2>2, <2>6, <2>7, <2>8
  <1> HIDE DEF P
  <1>3. 0..L \subseteq P
    BY <1>0, <1>1, <1>2, InductionTo
  <1>4. L \in 0..L
    BY <1>0
  <1> QED BY <1>3, <1>4 DEF P, TableReading

LEMMA DenotationReads ==
  ASSUME TableOK(table), NEW x
  PROVE  \E y : TableReading(table, x, y) /\ y.meaning = Denotation
  <1> DEFINE Is(f) == f = [t \in DOMAIN table |->
                IF table[t].kind = "decision"
                THEN <<"decision", f[table[t].a], f[table[t].b]>>
                ELSE <<table[t].kind, table[t].a>>]
             L == Len(table)
  <1>1. PICK y : TableReading(table, x, y)
    BY EntriesRead
  <1>2. /\ DOMAIN table = 1..L /\ L \in Nat
        /\ \A t \in 1..L : EntryOK(table[t], t) /\ table[t] \in Entry
    BY DEF TableOK, EntryOK
  <1>3. ASSUME NEW t \in 1..L, table[t].kind = "decision"
        PROVE  table[t].a \in 1..L /\ table[t].b \in 1..L
    <2>1. EntryOK(table[t], t)
      BY <1>2
    <2>2. table[t].a \in 1..(t - 1) /\ table[t].b \in 1..(t - 1)
      BY <1>3, <2>1 DEF EntryOK
    <2> QED BY <1>2, <2>2
  <1>4. ASSUME NEW t \in 1..L
        PROVE  y.meaning[t] = IF table[t].kind = "decision"
                 THEN <<"decision", y.meaning[table[t].a], y.meaning[table[t].b]>>
                 ELSE <<table[t].kind, table[t].a>>
    <2>1. EntryRead(table, x, y, t) /\ table[t] \in Entry
      BY <1>1, <1>2 DEF TableReading
    <2>2. table[t].kind \in {"base", "bytes", "digest", "declared", "decision"}
      BY <2>1 DEF Entry
    <2> QED BY <2>1, <2>2 DEF EntryRead
  <1>5. Is([t \in 1..L |-> y.meaning[t]])
    <2> DEFINE g == [t \in 1..L |-> y.meaning[t]]
    <2>1. \A t \in 1..L : g[t] = y.meaning[t]
      OBVIOUS
    <2>2. g = [t \in 1..L |-> g[t]]
      OBVIOUS
    <2> HIDE DEF g
    <2>3. ASSUME NEW t \in 1..L
          PROVE  g[t] = IF table[t].kind = "decision"
                   THEN <<"decision", g[table[t].a], g[table[t].b]>>
                   ELSE <<table[t].kind, table[t].a>>
      BY <1>3, <1>4, <2>1
    <2>4. Is(g)
      BY <1>2, <2>2, <2>3
    <2> HIDE DEF Is
    <2> QED BY <2>4 DEF g
  <1>6. Denotation = CHOOSE f : Is(f)
    BY DEF Denotation
  <1>7. Is(Denotation)
    <2> HIDE DEF Is
    <2> QED BY <1>5, <1>6
  <1>8. ASSUME NEW t \in 1..L
        PROVE  Denotation[t] = IF table[t].kind = "decision"
                 THEN <<"decision", Denotation[table[t].a], Denotation[table[t].b]>>
                 ELSE <<table[t].kind, table[t].a>>
    <2> DEFINE D == Denotation
    <2>1. D = [u \in 1..L |-> IF table[u].kind = "decision"
                THEN <<"decision", D[table[u].a], D[table[u].b]>>
                ELSE <<table[u].kind, table[u].a>>]
      BY <1>2, <1>7
    <2> HIDE DEF D, L
    <2>2. D[t] = IF table[t].kind = "decision"
                 THEN <<"decision", D[table[t].a], D[table[t].b]>>
                 ELSE <<table[t].kind, table[t].a>>
      BY <2>1
    <2> QED BY <2>2 DEF D
  <1> HIDE DEF Is
  <1> DEFINE z == [meaning |-> Denotation, bits |-> y.bits, depth |-> y.depth]
  <1>9. z.meaning = Denotation /\ z.bits = y.bits /\ z.depth = y.depth
    OBVIOUS
  <1> HIDE DEF z
  <1>10. ASSUME NEW t \in 1..L PROVE EntryRead(table, x, z, t)
    <2>1. EntryRead(table, x, y, t)
      BY <1>1 DEF TableReading
    <2> QED BY <1>8, <1>9, <2>1 DEF EntryRead
  <1> QED BY <1>9, <1>10 DEF TableReading

LEMMA CaseCount ==
  ASSUME module \in Modules, NEW d \in Index
  PROVE  Len(module[d].cases) \in Nat
  BY ModuleTypes

LEMMA FieldIsRef ==
  ASSUME module \in Modules, NEW f \in AnyFrame, f.subject \in Index, InField(module, f)
  PROVE  FieldAt(module, f) \in Ref
  <1>1. f.case \in Nat \ {0} /\ f.field \in Nat \ {0}
    BY DEF AnyFrame
  <1>2. f.case \in 1..Len(module[f.subject].cases)
    BY <1>1, CaseCount DEF InField
  <1>3. f.field \in 1..Len(module[f.subject].cases[f.case])
    BY <1>1, <1>2, CaseTypes DEF InField
  <1> QED BY <1>2, <1>3, CaseTypes DEF FieldAt

\* What the invariant says when a field has been looked at.
LEMMA FieldTold ==
  ASSUME IInv, KnowInv, TellInv, Resolved, NEW x, NEW y,
         Reading(module, x), TableReading(table, x, y)
  PROVE  /\ Top.subject \in Index /\ FieldAt(module, Top) = Cases[Top.case][Top.field]
         /\ FieldAt(module, Top) \in Ref
         /\ Finds(table, y, Top.got[1], x.meaning[FieldAt(module, Top)])
         /\ Len(Top.got) = 2 => /\ Top.got[1] # Invalid
                                /\ Measures(table, y, Top.got[1], Top.depth + 1, Top.got[2])
  <1>1. /\ Tells(module, table, x, y, Top) /\ Knows(module, table, Top)
        /\ Top \in AnyFrame /\ SubjectOK(Top) /\ Top.got # <<>> /\ AtField
        /\ Top.op \in {"module", "declared"} /\ module \in Modules
    <2>1. Tells(module, table, x, y, Top)
      BY TopTells
    <2>2. Knows(module, table, Top) /\ Len(stack) >= 1 /\ Len(stack) \in Nat
      BY TopKnows
    <2>3. FrameOK(Top, Len(table))
      BY <2>2 DEF IInv, StackOK, Top
    <2> QED BY <2>1, <2>2, <2>3 DEF Resolved, FrameOK, IInv
  <1>2. CASE Top.op = "module"
    <2>1. ModuleKnows(module, table, Top) /\ ModuleTells(module, table, x, y, Top)
      BY <1>1, <1>2 DEF Knows, Tells
    <2>2. Top.subject \in 0..Count /\ Top.subject < Count
      BY <1>1, <1>2, <2>1 DEF SubjectOK, ModuleKnows
    <2>3. Top.subject \in Index
      BY <2>2, ConstantTypes DEF Index
    <2>4. InField(module, Top) /\ FieldAt(module, Top) = Cases[Top.case][Top.field]
      BY <1>1 DEF AtField, InField, FieldAt, Cases
    <2>5. FieldAt(module, Top) \in Ref
      BY <1>1, <2>3, <2>4, FieldIsRef
    <2>6. Len(Top.got) <= 1 /\ Len(Top.got) \in Nat
      BY <1>1, <2>1 DEF ModuleKnows, AnyFrame
    <2> QED BY <1>1, <2>1, <2>2, <2>3, <2>4, <2>5, <2>6 DEF ModuleTells
  <1>3. CASE Top.op = "declared"
    <2>1. DeclaredKnows(module, table, Top) /\ DeclaredTells(module, table, x, y, Top)
      BY <1>1, <1>3 DEF Knows, Tells
    <2>2. Top.subject \in Index
      BY <1>1, <1>3 DEF SubjectOK
    <2>3. InField(module, Top) /\ FieldAt(module, Top) = Cases[Top.case][Top.field]
      BY <1>1 DEF AtField, InField, FieldAt, Cases
    <2>4. FieldAt(module, Top) \in Ref
      BY <1>1, <2>2, <2>3, FieldIsRef
    <2> QED BY <1>1, <2>1, <2>2, <2>3, <2>4 DEF DeclaredKnows, DeclaredTells
  <1> QED BY <1>1, <1>2, <1>3

-----------------------------------------------------------------------------
(***************************************************************************)
(* ResolutionIsMeaning: whatever has been interned before and in whichever *)
(* order, what seki_type_resolve returns for a field stands for what the   *)
(* field means by the declarations alone, and it refuses only what means   *)
(* nothing, unless the table is full: for every module, capacity, budget   *)
(* and host stack.                                                         *)
(***************************************************************************)
THEOREM MeaningIsResolved == Spec => []ResolutionIsMeaning
  <1>1. IInv /\ KnowInv /\ TellInv => ResolutionIsMeaning
    <2> SUFFICES ASSUME IInv, KnowInv, TellInv, Resolved
                 PROVE  LET meaning == RefMeaning(Cases[Top.case][Top.field], Meaning)
                        IN IF Top.got[1] = Invalid
                           THEN meaning = Nothing \/ Len(table) = Capacity
                           ELSE Denotation[Top.got[1]] = meaning
      BY DEF ResolutionIsMeaning
    <2>1. module \in Modules /\ TableOK(table)
      BY DEF IInv
    <2>2. PICK x : ByNames(x)
      BY <2>1, ByNamesExists
    <2>3. Reading(module, x)
      BY <2>1, <2>2, NamesAreReading
    <2>4. PICK y : TableReading(table, x, y) /\ y.meaning = Denotation
      BY <2>1, DenotationReads
    <2> DEFINE r == FieldAt(module, Top)
    <2>5. /\ r = Cases[Top.case][Top.field] /\ r \in Ref
          /\ Finds(table, y, Top.got[1], x.meaning[r])
      BY <2>3, <2>4, FieldTold
    <2> HIDE DEF r
    <2>6. x.meaning[r] = RefMeaning(Cases[Top.case][Top.field], Meaning)
      BY <2>2, <2>5 DEF ByNames
    <2> QED BY <2>4, <2>5, <2>6 DEF Finds, Full
  <1> QED BY <1>1, Told, PTL

(***************************************************************************)
(* WidthIsExact: a width that value_bits or declared_value_bits returns is *)
(* the width of the largest value, in unbounded numbers: no addition wraps *)
(* and none is left out or made twice, whatever the declarations.          *)
(***************************************************************************)
THEOREM WidthsAreExact == Spec => []WidthIsExact
  <1>1. IInv /\ KnowInv /\ TellInv => WidthIsExact
    <2> SUFFICES ASSUME IInv, KnowInv, TellInv PROVE WidthIsExact
      OBVIOUS
    <2>1. module \in Modules /\ TableOK(table)
      BY DEF IInv
    <2>2. PICK x : ByNames(x)
      BY <2>1, ByNamesExists
    <2>3. Reading(module, x)
      BY <2>1, <2>2, NamesAreReading
    <2>4. PICK y : TableReading(table, x, y) /\ y.meaning = Denotation
      BY <2>1, DenotationReads
    <2>5. ASSUME Resolved, Len(Top.got) = 2, Top.got[2] # Invalid
          PROVE  Top.got[2] = RefBits(Cases[Top.case][Top.field], NameBits)
      <3> DEFINE r == FieldAt(module, Top)
                 v == Top.got[1]
      <3>1. /\ r = Cases[Top.case][Top.field] /\ r \in Ref
            /\ Finds(table, y, v, x.meaning[r]) /\ v # Invalid
            /\ Measures(table, y, v, Top.depth + 1, Top.got[2])
        BY <2>3, <2>4, <2>5, FieldTold
      <3> HIDE DEF r, v
      <3>2. v \in 1..Len(table) /\ y.meaning[v] = x.meaning[r]
        BY <3>1 DEF Finds
      <3>3. y.bits[v] = x.bits[r]
        BY <2>1, <2>3, <2>4, <3>1, <3>2, Agreement
      <3>4. Top.got[2] = y.bits[v]
        BY <2>5, <3>1 DEF Measures
      <3>5. x.bits[r] = RefBits(r, NameBits)
        BY <2>2, <3>1 DEF ByNames
      <3> QED BY <3>1, <3>3, <3>4, <3>5
    <2>6. ASSUME Running("module"), Top.got # <<>>, AtEnd,
                 module[Top.subject].kind # "alias", Top.got[1] # Invalid
          PROVE  Top.got[1] = DeclarationBits(Top.subject, NameBits)
      <3>1. Tells(module, table, x, y, Top) /\ Knows(module, table, Top)
        BY <2>3, <2>4, TopTells, TopKnows
      <3>2. ModuleTells(module, table, x, y, Top) /\ ModuleKnows(module, table, Top)
        BY <2>6, <3>1 DEF Tells, Knows, Running
      <3>3. Top.subject < Count
        BY <2>6, <3>2 DEF ModuleKnows
      <3>4. Top.subject \in Index
        <4>1. Len(stack) >= 1 /\ Len(stack) \in Nat
          BY TopKnows
        <4>2. SubjectOK(Top)
          BY <4>1 DEF IInv, StackOK, Top, FrameOK
        <4>3. Top.subject \in 0..Count
          BY <2>6, <4>2 DEF SubjectOK, Running
        <4> QED BY <3>3, <4>3, ConstantTypes DEF Index
      <3>5. Through(module, Top)
        BY <2>6 DEF AtEnd, Through, Cases
      <3>6. MeasuresBody(table, x, Top.subject, 1, Top.got[1])
        BY <2>6, <3>2, <3>3, <3>5 DEF ModuleTells
      <3>7. Top.got[1] = x.declBits[Top.subject]
        BY <2>6, <3>6 DEF MeasuresBody
      <3> QED BY <2>2, <3>4, <3>7 DEF ByNames
    <2> QED BY <2>5, <2>6 DEF WidthIsExact
  <1> QED BY <1>1, Told, PTL

(***************************************************************************)
(* FiniteIsAccepted: when resolve_declarations refuses a module because it *)
(* has no width, some declaration is past U32, contains itself or cannot   *)
(* be resolved, some declaration is nested deeper than the budget, or the  *)
(* table is full.                                                          *)
(***************************************************************************)
THEOREM RefusalsHaveReasons == Spec => []FiniteIsAccepted
  <1>1. IInv /\ KnowInv /\ TellInv => FiniteIsAccepted
    <2> SUFFICES ASSUME IInv, KnowInv, TellInv, code = "A0-CHECK-0013"
                 PROVE  \/ \E d \in Index : DeclarationBits(d, NameBits) = Beyond
                        \/ \E d \in Index : /\ module[d].kind # "alias"
                                            /\ DeclarationDepth(d, NameDepth) = TooDeep
                        \/ Len(table) = Capacity
      BY DEF FiniteIsAccepted
    <2>1. module \in Modules /\ TableOK(table)
      BY DEF IInv
    <2>2. PICK x : ByNames(x)
      BY <2>1, ByNamesExists
    <2>3. Reading(module, x)
      BY <2>1, <2>2, NamesAreReading
    <2>4. PICK y : TableReading(table, x, y)
      BY <2>1, EntriesRead
    <2>5. Excused(module, table, x)
      BY <2>3, <2>4 DEF TellInv
    <2> QED BY <2>2, <2>5 DEF Excused, Full, ByNames
  <1> QED BY <1>1, Told, PTL
=============================================================================
