------------------------- MODULE TypeTableRingProofs -------------------------
(***************************************************************************)
(* An accepted module has no ring of declarations, and the calls run out   *)
(* of stack only for a ring of aliases.                                    *)
(*                                                                         *)
(* A set of declarations is ringed when each of them refers to one of      *)
(* them.  What a call has returned is known to lead to no ringed set, if   *)
(* the types in it do not; KnowInv says so of every frame and of every     *)
(* pair of adjacent ones.  The other part is a bound on the height of the  *)
(* stack: a frame that measures stands no higher than its depth says, one  *)
(* that resolves has below it no alias it can still meet (StandInv).       *)
(*                                                                         *)
(* The last section shows that the check ends: read from the outermost     *)
(* frame, the numbers that say what is left of the calls fall in every     *)
(* step.                                                                   *)
(***************************************************************************)
EXTENDS TypeTableProofs, FiniteSetTheorems

-----------------------------------------------------------------------------
(***************************************************************************)
(* Rings.  A set of declarations is ringed when each of them refers to one *)
(* of them, as the layout understands references.                          *)
(***************************************************************************)
Referred(m, names) ==
  {d \in Index : /\ m[d].name \in names
                 /\ m[d].kind = "alias" \/ m[d].name \notin Builtin}

Refers(m, d, e) ==
  \E c \in 1..Len(m[d].cases) : \E k \in 1..Len(m[d].cases[c]) :
    e \in Referred(m, NamesOf(m[d].cases[c][k]))

Ringed(m, S) == \A d \in S : \E e \in S : Refers(m, d, e)

InRing(m, d) == \E S \in SUBSET Index : d \in S /\ Ringed(m, S)

\* Nothing these names refer to is in a ring.
Free(m, names) == \A d \in Referred(m, names) : ~InRing(m, d)

(***************************************************************************)
(* An entry of the table is clean when no declaration in it is in a ring:  *)
(* it belongs to no set of entries of which each is such a declaration or  *)
(* a Decision of another of the set.                                       *)
(***************************************************************************)
Tainted(m, tab, B) ==
  \A t \in B :
    \/ tab[t].kind = "declared" /\ InRing(m, tab[t].a)
    \/ tab[t].kind = "decision" /\ (tab[t].a \in B \/ tab[t].b \in B)

Clean(m, tab, t) ==
  \A B \in SUBSET (1..Len(tab)) : Tainted(m, tab, B) => t \notin B

\* The type v was found for these names.
Means(m, tab, v, names) ==
  v # Invalid => v \in 1..Len(tab) /\ (Clean(m, tab, v) => Free(m, names))

Measured(m) == \A d \in Index : m[d].kind # "alias" => ~InRing(m, d)

(***************************************************************************)
(* Where the loop over the fields of a declaration stands.                 *)
(***************************************************************************)
FieldAt(m, f) == m[f.subject].cases[f.case][f.field]

InField(m, f) ==
  /\ f.case <= Len(m[f.subject].cases)
  /\ f.field <= Len(m[f.subject].cases[f.case])

Through(m, f) == f.case > Len(m[f.subject].cases)

Passed(f, c, k) == c < f.case \/ (c = f.case /\ k < f.field)

PassedFree(m, f) ==
  \A c \in 1..Len(m[f.subject].cases) :
    \A k \in 1..Len(m[f.subject].cases[c]) :
      Passed(f, c, k) => Free(m, NamesOf(m[f.subject].cases[c][k]))

(***************************************************************************)
(* What a frame knows from the calls it has made.                          *)
(***************************************************************************)
ResolveKnows(m, tab, f) ==
  /\ Len(f.got) <= 2
  /\ f.got # <<>> => f.subject.form = "applied" /\ Len(f.subject.names) = 2
  /\ \A j \in 1..Len(f.got) : Means(m, tab, f.got[j], {f.subject.names[j]})

ValueKnows(m, tab, f) ==
  f.got # <<>> =>
    /\ f.subject \in 1..Len(tab)
    /\ \/ /\ tab[f.subject].kind = "decision"
          /\ Len(f.got) <= 2
          /\ f.got[1] # Invalid => Clean(m, tab, tab[f.subject].a)
          /\ Len(f.got) = 2 /\ f.got[2] # Invalid => Clean(m, tab, tab[f.subject].b)
       \/ /\ tab[f.subject].kind = "declared"
          /\ Len(f.got) = 1
          /\ f.got[1] # Invalid => ~InRing(m, tab[f.subject].a)

DeclaredKnows(m, tab, f) ==
  /\ PassedFree(m, f)
  /\ Len(f.got) <= 2
  /\ f.got # <<>> =>
       InField(m, f) /\ Means(m, tab, f.got[1], NamesOf(FieldAt(m, f)))
  /\ Len(f.got) = 2 => f.got[1] # Invalid
  /\ Len(f.got) = 2 /\ f.got[2] # Invalid => Clean(m, tab, f.got[1])

ModuleKnows(m, tab, f) ==
  /\ \A d \in Index :
       d < f.subject /\ (m[d].kind # "alias" \/ Measured(m)) => ~InRing(m, d)
  /\ f.subject < Count => (Measured(m) => PassedFree(m, f))
  /\ Len(f.got) <= 1
  /\ f.got # <<>> =>
       /\ f.subject < Count
       /\ \/ InField(m, f) /\ Means(m, tab, f.got[1], NamesOf(FieldAt(m, f)))
          \/ /\ Through(m, f)
             /\ f.got[1] # Invalid /\ m[f.subject].kind # "alias"
                  => ~InRing(m, f.subject)

Knows(m, tab, f) ==
  /\ f.op = "resolve" => ResolveKnows(m, tab, f)
  /\ f.op = "expand" => f.got = <<>>
  /\ f.op = "value" => ValueKnows(m, tab, f)
  /\ f.op = "declared" => DeclaredKnows(m, tab, f)
  /\ f.op = "module" => ModuleKnows(m, tab, f)

(***************************************************************************)
(* What g has to find out for f.                                           *)
(***************************************************************************)
Asks(g) == IF g.op = "expand" THEN {g.subject} ELSE NamesOf(g.subject)

WaitsType(m, f, g) ==
  \/ /\ f.op = "resolve"
     /\ f.subject.form = "applied" /\ Len(f.subject.names) = 2
     /\ Len(f.got) < 2
     /\ Free(m, Asks(g)) => Free(m, {f.subject.names[Len(f.got) + 1]})
  \/ /\ f.op \in {"declared", "module"}
     /\ f.op = "module" => f.subject < Count
     /\ InField(m, f) /\ f.got = <<>>
     /\ Free(m, Asks(g)) => Free(m, NamesOf(FieldAt(m, f)))

WaitsValue(m, tab, f, g) ==
  \/ /\ f.op = "value" /\ f.subject \in 1..Len(tab)
     /\ tab[f.subject].kind = "decision"
     /\ \/ f.got = <<>> /\ g.subject = tab[f.subject].a
        \/ Len(f.got) = 1 /\ g.subject = tab[f.subject].b
  \/ /\ f.op = "declared" /\ InField(m, f)
     /\ Len(f.got) = 1 /\ f.got[1] # Invalid /\ g.subject = f.got[1]
  \/ /\ f.op = "module" /\ f.subject < Count /\ Through(m, f)
     /\ f.got = <<>>
     /\ m[f.subject].kind # "alias" =>
          g.subject \in 1..Len(tab) /\ tab[g.subject] = Declared(f.subject)

WaitsDeclared(tab, f, g) ==
  /\ f.op = "value" /\ f.subject \in 1..Len(tab)
  /\ tab[f.subject].kind = "declared"
  /\ f.got = <<>> /\ g.subject = tab[f.subject].a

Waits(m, tab, f, g) ==
  /\ g.op \in Resolving => WaitsType(m, f, g)
  /\ g.op = "value" => WaitsValue(m, tab, f, g)
  /\ g.op = "declared" => WaitsDeclared(tab, f, g)

\* v is what g may return.
Answers(m, tab, g, v) ==
  /\ g.op \in Resolving => Means(m, tab, v, Asks(g))
  /\ g.op = "value" => (v # Invalid => Clean(m, tab, g.subject))
  /\ g.op = "declared" => (v # Invalid => ~InRing(m, g.subject))

Opaque(m, tab) ==
  \A t \in 1..Len(tab) : tab[t].kind = "declared" => m[tab[t].a].kind # "alias"

Knowing(m, tab, s) ==
  /\ \A k \in 1..Len(s) : Knows(m, tab, s[k])
  /\ \A k \in 1..(Len(s) - 1) : Waits(m, tab, s[k], s[k + 1])

(***************************************************************************)
(* The aliases that names lead to.                                         *)
(***************************************************************************)
Aliases(m) == {d \in Index : m[d].kind = "alias"}

Leads(m, names) == {d \in Aliases(m) : m[d].name \in names}

Closed(m, C) ==
  \A d \in C : Leads(m, NamesOf(m[d].cases[1][1])) \subseteq C

Reach(m, names) ==
  {d \in Aliases(m) :
     \A C \in SUBSET Aliases(m) :
       Closed(m, C) /\ Leads(m, names) \subseteq C => d \in C}

Room(m, names) == Cardinality(Reach(m, names))

\* How high frame f may be in the stack.
Height(m, k, f) ==
  /\ f.op \in {"value", "declared"} => k <= 2 + f.depth
  /\ f.op = "resolve" => k + Room(m, Asks(f)) <= MaxDepth + Count + 2
  /\ f.op = "expand" => k + Room(m, Asks(f)) <= MaxDepth + Count + 3

AliasesRing(m) ==
  \E S \in SUBSET Aliases(m) :
    S # {} /\ \A d \in S : Leads(m, NamesOf(m[d].cases[1][1])) \cap S # {}

Stands(m, s) ==
  ~AliasesRing(m) => \A k \in 1..Len(s) : Height(m, k, s[k])

-----------------------------------------------------------------------------
(***************************************************************************)
(* Rings and clean entries.                                                *)
(***************************************************************************)
LEMMA OutOfRing ==
  ASSUME NEW m, NEW d \in Index,
         \A c \in 1..Len(m[d].cases) : \A k \in 1..Len(m[d].cases[c]) :
           Free(m, NamesOf(m[d].cases[c][k]))
  PROVE  ~InRing(m, d)
  <1> SUFFICES ASSUME NEW S \in SUBSET Index, d \in S, Ringed(m, S)
               PROVE  FALSE
    BY DEF InRing
  <1>1. PICK e \in S : Refers(m, d, e)
    BY DEF Ringed
  <1>2. PICK c \in 1..Len(m[d].cases) : \E k \in 1..Len(m[d].cases[c]) :
          e \in Referred(m, NamesOf(m[d].cases[c][k]))
    BY <1>1 DEF Refers
  <1>3. ~InRing(m, e)
    BY <1>2 DEF Free
  <1> QED BY <1>3 DEF InRing

LEMMA CleanDeclared ==
  ASSUME NEW m, NEW tab, NEW t \in 1..Len(tab), tab[t].kind = "declared"
  PROVE  Clean(m, tab, t) <=> ~InRing(m, tab[t].a)
  <1>1. ASSUME InRing(m, tab[t].a) PROVE ~Clean(m, tab, t)
    <2>1. Tainted(m, tab, {t}) /\ {t} \in SUBSET (1..Len(tab)) /\ t \in {t}
      BY <1>1 DEF Tainted
    <2> QED BY <2>1 DEF Clean
  <1>2. ASSUME ~Clean(m, tab, t) PROVE InRing(m, tab[t].a)
    <2>1. PICK B \in SUBSET (1..Len(tab)) : Tainted(m, tab, B) /\ t \in B
      BY <1>2 DEF Clean
    <2> QED BY <2>1 DEF Tainted
  <1> QED BY <1>1, <1>2

LEMMA CleanDecision ==
  ASSUME NEW m, NEW tab, NEW t \in 1..Len(tab), tab[t].kind = "decision",
         tab[t].a \in 1..Len(tab), tab[t].b \in 1..Len(tab)
  PROVE  Clean(m, tab, t) <=> Clean(m, tab, tab[t].a) /\ Clean(m, tab, tab[t].b)
  <1>1. ASSUME ~Clean(m, tab, t)
        PROVE  ~Clean(m, tab, tab[t].a) \/ ~Clean(m, tab, tab[t].b)
    <2>1. PICK B \in SUBSET (1..Len(tab)) : Tainted(m, tab, B) /\ t \in B
      BY <1>1 DEF Clean
    <2>2. tab[t].a \in B \/ tab[t].b \in B
      BY <2>1 DEF Tainted
    <2> QED BY <2>1, <2>2 DEF Clean
  <1>2. ASSUME NEW u \in {tab[t].a, tab[t].b}, ~Clean(m, tab, u)
        PROVE  ~Clean(m, tab, t)
    <2>1. PICK B \in SUBSET (1..Len(tab)) : Tainted(m, tab, B) /\ u \in B
      BY <1>2 DEF Clean
    <2>2. Tainted(m, tab, B \cup {t})
      BY <1>2, <2>1 DEF Tainted
    <2>3. B \cup {t} \in SUBSET (1..Len(tab))
      OBVIOUS
    <2> QED BY <2>2, <2>3 DEF Clean
  <1> QED BY <1>1, <1>2

LEMMA CleanOther ==
  ASSUME NEW m, NEW tab, NEW t \in 1..Len(tab),
         tab[t].kind \notin {"declared", "decision"}
  PROVE  Clean(m, tab, t)
  BY DEF Clean, Tainted

Grown(tab, new) ==
  Len(tab) <= Len(new) /\ \A t \in 1..Len(tab) : new[t] = tab[t]

LEMMA CleanGrows ==
  ASSUME NEW m, NEW tab, TableOK(tab), NEW new, Len(new) \in Nat, Grown(tab, new),
         NEW t \in 1..Len(tab)
  PROVE  Clean(m, new, t) <=> Clean(m, tab, t)
  <1>1. Len(tab) \in Nat /\ 1..Len(tab) \subseteq 1..Len(new)
    BY DEF TableOK, Grown
  <1>2. ASSUME ~Clean(m, tab, t) PROVE ~Clean(m, new, t)
    <2>1. PICK B \in SUBSET (1..Len(tab)) : Tainted(m, tab, B) /\ t \in B
      BY <1>2 DEF Clean
    <2>2. Tainted(m, new, B)
      BY <2>1 DEF Tainted, Grown
    <2>3. B \in SUBSET (1..Len(new))
      BY <1>1
    <2> QED BY <2>1, <2>2, <2>3 DEF Clean
  <1>3. ASSUME ~Clean(m, new, t) PROVE ~Clean(m, tab, t)
    <2>1. PICK B \in SUBSET (1..Len(new)) : Tainted(m, new, B) /\ t \in B
      BY <1>3 DEF Clean
    <2> DEFINE C == B \cap 1..Len(tab)
    <2>2. ASSUME NEW u \in C
          PROVE  \/ tab[u].kind = "declared" /\ InRing(m, tab[u].a)
                 \/ tab[u].kind = "decision" /\ (tab[u].a \in C \/ tab[u].b \in C)
      <3>1. /\ new[u] = tab[u] /\ u \in 1..Len(tab)
            /\ tab[u].kind = "decision" => tab[u].a \in 1..(u - 1) /\ tab[u].b \in 1..(u - 1)
        BY DEF Grown, TableOK, EntryOK
      <3>2. 1..(u - 1) \subseteq 1..Len(tab)
        BY <1>1, <3>1
      <3> QED BY <2>1, <3>1, <3>2 DEF Tainted
    <2>3. Tainted(m, tab, C) /\ C \in SUBSET (1..Len(tab)) /\ t \in C
      BY <2>1, <2>2 DEF Tainted
    <2> QED BY <2>3 DEF Clean
  <1> QED BY <1>2, <1>3

LEMMA Least ==
  ASSUME NEW T \in SUBSET Nat, NEW x \in T
  PROVE  \E n \in T : \A k \in T : n <= k
  <1> DEFINE R == {ss \in Nat \X Nat : ss[1] < ss[2]}
  <1>1. IsWellFoundedOn(R, Nat)
    BY NatLessThanWellFounded DEF OpToRel
  <1> HIDE DEF R
  <1>2. PICK n \in T : \A k \in T : ~(<<k, n>> \in R)
    BY <1>1, WFMin
  <1>3. \A k \in T : ~(k < n)
    BY <1>2 DEF R
  <1> QED BY <1>2, <1>3

\* When every declaration but the aliases has been measured.
LEMMA CleanAtLast ==
  ASSUME NEW m, NEW tab, TableOK(tab), Opaque(m, tab), Measured(m),
         NEW t \in 1..Len(tab)
  PROVE  Clean(m, tab, t)
  <1> SUFFICES ASSUME NEW B \in SUBSET (1..Len(tab)), Tainted(m, tab, B), t \in B
               PROVE  FALSE
    BY DEF Clean
  <1>1. Len(tab) \in Nat /\ B \in SUBSET Nat
    BY DEF TableOK
  <1>2. PICK u \in B : \A k \in B : u <= k
    BY <1>1, Least
  <1>3. u \in 1..Len(tab) /\ EntryOK(tab[u], u)
    BY DEF TableOK
  <1>4. CASE tab[u].kind = "declared"
    <2>1. InRing(m, tab[u].a)
      BY <1>4 DEF Tainted
    <2>2. tab[u].a \in Index /\ m[tab[u].a].kind # "alias"
      BY <1>3, <1>4 DEF EntryOK, Opaque
    <2> QED BY <2>1, <2>2 DEF Measured
  <1>5. CASE tab[u].kind # "declared"
    <2>1. /\ tab[u].kind = "decision" /\ (tab[u].a \in B \/ tab[u].b \in B)
      BY <1>5 DEF Tainted
    <2>2. tab[u].a \in 1..(u - 1) /\ tab[u].b \in 1..(u - 1)
      BY <1>3, <2>1 DEF EntryOK
    <2> QED BY <1>1, <1>2, <2>1, <2>2
  <1> QED BY <1>4, <1>5

-----------------------------------------------------------------------------
(***************************************************************************)
(* What a frame knows outlives the growth of the table.                    *)
(***************************************************************************)
LEMMA MeansGrows ==
  ASSUME NEW m, NEW tab, TableOK(tab), NEW new, Len(new) \in Nat, Grown(tab, new),
         NEW v, NEW names, Means(m, tab, v, names)
  PROVE  Means(m, new, v, names)
  <1>1. Len(tab) \in Nat /\ 1..Len(tab) \subseteq 1..Len(new)
    BY DEF TableOK, Grown
  <1> QED BY <1>1, CleanGrows DEF Means

LEMMA ValueKnowsGrows ==
  ASSUME NEW m, NEW tab, TableOK(tab), NEW new, Len(new) \in Nat, Grown(tab, new),
         NEW f, ValueKnows(m, tab, f), f.got # <<>>
  PROVE  ValueKnows(m, new, f)
  <1> DEFINE t == f.subject
  <1>1. /\ Len(tab) \in Nat /\ 1..Len(tab) \subseteq 1..Len(new)
        /\ t \in 1..Len(tab) /\ new[t] = tab[t] /\ EntryOK(tab[t], t)
    BY DEF TableOK, Grown, ValueKnows
  <1>2. tab[t].kind = "decision" => tab[t].a \in 1..Len(tab) /\ tab[t].b \in 1..Len(tab)
    BY <1>1 DEF EntryOK
  <1>3. tab[t].kind = "decision" =>
          /\ Clean(m, tab, tab[t].a) <=> Clean(m, new, tab[t].a)
          /\ Clean(m, tab, tab[t].b) <=> Clean(m, new, tab[t].b)
    BY <1>2, CleanGrows
  <1> QED BY <1>1, <1>3 DEF ValueKnows

LEMMA KnowsGrows ==
  ASSUME NEW m, NEW tab, TableOK(tab), NEW new, Len(new) \in Nat, Grown(tab, new),
         NEW f, f.got \in Seq(Values), Knows(m, tab, f)
  PROVE  Knows(m, new, f)
  <1>1. CASE f.op = "resolve"
    BY <1>1, MeansGrows DEF Knows, ResolveKnows
  <1>2. CASE f.op = "value"
    <2>1. f.got = <<>> => ValueKnows(m, new, f)
      BY DEF ValueKnows
    <2> QED BY <1>2, <2>1, ValueKnowsGrows DEF Knows
  <1>3. CASE f.op = "declared"
    <2>1. f.got # <<>> => Len(f.got) >= 1
      OBVIOUS
    <2>2. Len(f.got) = 2 =>
            f.got # <<>> /\ f.got[1] # Invalid /\ f.got[1] \in 1..Len(tab)
      BY <1>3 DEF Knows, DeclaredKnows, Means
    <2>3. Len(f.got) = 2 => (Clean(m, new, f.got[1]) <=> Clean(m, tab, f.got[1]))
      BY <2>2, CleanGrows
    <2> QED BY <1>3, <2>1, <2>3, MeansGrows DEF Knows, DeclaredKnows
  <1>4. CASE f.op = "module"
    BY <1>4, MeansGrows DEF Knows, ModuleKnows
  <1>5. CASE f.op \notin {"resolve", "value", "declared", "module"}
    BY <1>5 DEF Knows
  <1> QED BY <1>1, <1>2, <1>3, <1>4, <1>5

LEMMA WaitsGrows ==
  ASSUME NEW m, NEW tab, TableOK(tab), NEW new, Len(new) \in Nat, Grown(tab, new),
         NEW f, NEW g, Waits(m, tab, f, g)
  PROVE  Waits(m, new, f, g)
  <1>1. 1..Len(tab) \subseteq 1..Len(new)
    BY DEF TableOK, Grown
  <1> QED BY <1>1 DEF Waits, WaitsValue, WaitsDeclared, Grown

LEMMA KnowingGrows ==
  ASSUME NEW m, NEW tab, TableOK(tab), NEW new, Len(new) \in Nat, Grown(tab, new),
         NEW s, StackOK(s, Len(tab)), Knowing(m, tab, s)
  PROVE  Knowing(m, new, s)
  <1>1. \A k \in 1..Len(s) : s[k].got \in Seq(Values)
    BY DEF StackOK, FrameOK, AnyFrame
  <1> QED BY <1>1, KnowsGrows, WaitsGrows DEF Knowing

-----------------------------------------------------------------------------
(***************************************************************************)
(* What a caller makes of an answer.                                       *)
(***************************************************************************)
LEMMA Answered ==
  ASSUME NEW n, NEW f, FrameOK(f, n), NEW v \in Values, NEW r,
         r = [f EXCEPT !.got = Append(@, v)]
  PROVE  /\ r.op = f.op /\ r.subject = f.subject /\ r.depth = f.depth
         /\ r.case = f.case /\ r.field = f.field
         /\ r.got \in Seq(Values) /\ Len(f.got) \in Nat
         /\ Len(r.got) = Len(f.got) + 1 /\ r.got # <<>>
         /\ r.got[Len(f.got) + 1] = v
         /\ \A j \in 1..Len(f.got) : r.got[j] = f.got[j]
         /\ f.got = <<>> <=> Len(f.got) = 0
  <1>1. f \in AnyFrame /\ f.got \in Seq(Values)
    BY DEF FrameOK, AnyFrame
  <1>2. r = [f EXCEPT !.got = Append(f.got, v)]
    OBVIOUS
  <1>3. r.got = Append(f.got, v) /\ r.op = f.op /\ r.subject = f.subject
        /\ r.depth = f.depth /\ r.case = f.case /\ r.field = f.field
    BY <1>1, <1>2 DEF AnyFrame
  <1>4. PICK got \in Seq(Values) : got = f.got
    BY <1>1
  <1>5. /\ Append(got, v) \in Seq(Values) /\ Len(got) \in Nat
        /\ Len(Append(got, v)) = Len(got) + 1 /\ Append(got, v) # <<>>
        /\ Append(got, v)[Len(got) + 1] = v
        /\ \A j \in 1..Len(got) : Append(got, v)[j] = got[j]
        /\ got = <<>> <=> Len(got) = 0
    OBVIOUS
  <1> QED BY <1>3, <1>4, <1>5

LEMMA ResolveAnswered ==
  ASSUME NEW m, NEW tab, NEW n, NEW f, FrameOK(f, n), NEW g, NEW v \in Values,
         NEW r, r = [f EXCEPT !.got = Append(@, v)],
         f.op = "resolve", g.op \in Ops,
         Knows(m, tab, f), Waits(m, tab, f, g), Answers(m, tab, g, v),
         g.op # "module"
  PROVE  Knows(m, tab, r)
  <1>1. g.op \in Resolving
    BY DEF Waits, WaitsValue, WaitsDeclared, Ops, Resolving
  <1>2. WaitsType(m, f, g) /\ Means(m, tab, v, Asks(g))
    BY <1>1 DEF Waits, Answers
  <1>3. /\ f.subject.form = "applied" /\ Len(f.subject.names) = 2
        /\ Len(f.got) < 2
        /\ Free(m, Asks(g)) => Free(m, {f.subject.names[Len(f.got) + 1]})
    BY <1>2 DEF WaitsType
  <1>4. Means(m, tab, v, {f.subject.names[Len(f.got) + 1]})
    BY <1>2, <1>3 DEF Means
  <1>5. ResolveKnows(m, tab, f)
    BY DEF Knows
  <1>6. ASSUME NEW j \in 1..Len(r.got)
        PROVE  Means(m, tab, r.got[j], {r.subject.names[j]})
    <2>1. CASE j = Len(f.got) + 1
      BY <1>4, <2>1, Answered
    <2>2. CASE j # Len(f.got) + 1
      <3>1. j \in 1..Len(f.got) /\ r.got[j] = f.got[j] /\ r.subject = f.subject
        BY <2>2, Answered
      <3> QED BY <1>5, <3>1 DEF ResolveKnows
    <2> QED BY <2>1, <2>2
  <1>7. Len(r.got) <= 2 /\ r.subject = f.subject /\ r.op = "resolve"
    BY <1>3, Answered
  <1>8. ResolveKnows(m, tab, r)
    BY <1>3, <1>6, <1>7 DEF ResolveKnows
  <1> QED BY <1>7, <1>8 DEF Knows

LEMMA ValueAnswered ==
  ASSUME NEW m, NEW tab, NEW n, NEW f, FrameOK(f, n), NEW g, NEW v \in Values,
         NEW r, r = [f EXCEPT !.got = Append(@, v)],
         f.op = "value", g.op \in Ops,
         Knows(m, tab, f), Waits(m, tab, f, g), Answers(m, tab, g, v),
         g.op # "module"
  PROVE  Knows(m, tab, r)
  <1>1. /\ r.subject = f.subject /\ r.op = "value" /\ r.got # <<>>
        /\ Len(r.got) = Len(f.got) + 1 /\ Len(f.got) \in Nat
        /\ r.got[Len(f.got) + 1] = v /\ (f.got = <<>> <=> Len(f.got) = 0)
        /\ \A j \in 1..Len(f.got) : r.got[j] = f.got[j]
    BY Answered
  <1>2. ValueKnows(m, tab, f)
    BY DEF Knows
  <1>3. CASE g.op = "value"
    <2>1. /\ f.subject \in 1..Len(tab) /\ tab[f.subject].kind = "decision"
          /\ \/ f.got = <<>> /\ g.subject = tab[f.subject].a
             \/ Len(f.got) = 1 /\ g.subject = tab[f.subject].b
      BY <1>3 DEF Waits, WaitsValue
    <2>2. v # Invalid => Clean(m, tab, g.subject)
      BY <1>3 DEF Answers
    <2>3. CASE f.got = <<>> /\ g.subject = tab[f.subject].a
      <3>1. Len(r.got) = 1 /\ r.got[1] = v
        BY <1>1, <2>3
      <3>2. ValueKnows(m, tab, r)
        BY <1>1, <2>1, <2>2, <2>3, <3>1 DEF ValueKnows
      <3> QED BY <1>1, <3>2 DEF Knows
    <2>4. CASE Len(f.got) = 1 /\ g.subject = tab[f.subject].b
      <3>1. Len(r.got) = 2 /\ r.got[2] = v /\ r.got[1] = f.got[1] /\ f.got # <<>>
        BY <1>1, <2>4
      <3>2. f.got[1] # Invalid => Clean(m, tab, tab[f.subject].a)
        BY <1>2, <2>1, <3>1 DEF ValueKnows
      <3>3. ValueKnows(m, tab, r)
        BY <1>1, <2>1, <2>2, <2>4, <3>1, <3>2 DEF ValueKnows
      <3> QED BY <1>1, <3>3 DEF Knows
    <2> QED BY <2>1, <2>3, <2>4
  <1>4. CASE g.op = "declared"
    <2>1. /\ f.subject \in 1..Len(tab) /\ tab[f.subject].kind = "declared"
          /\ f.got = <<>> /\ g.subject = tab[f.subject].a
      BY <1>4 DEF Waits, WaitsDeclared
    <2>2. v # Invalid => ~InRing(m, g.subject)
      BY <1>4 DEF Answers
    <2>3. Len(r.got) = 1 /\ r.got[1] = v
      BY <1>1, <2>1
    <2>4. ValueKnows(m, tab, r)
      BY <1>1, <2>1, <2>2, <2>3 DEF ValueKnows
    <2> QED BY <1>1, <2>4 DEF Knows
  <1>5. g.op \notin Resolving
    BY DEF Waits, WaitsType
  <1> QED BY <1>3, <1>4, <1>5 DEF Ops, Resolving

LEMMA DeclaredAnswered ==
  ASSUME NEW m, NEW tab, NEW n, NEW f, FrameOK(f, n), NEW g, NEW v \in Values,
         NEW r, r = [f EXCEPT !.got = Append(@, v)],
         f.op = "declared", g.op \in Ops,
         Knows(m, tab, f), Waits(m, tab, f, g), Answers(m, tab, g, v),
         g.op # "module"
  PROVE  Knows(m, tab, r)
  <1>1. /\ r.subject = f.subject /\ r.op = "declared" /\ r.got # <<>>
        /\ r.case = f.case /\ r.field = f.field
        /\ Len(r.got) = Len(f.got) + 1 /\ Len(f.got) \in Nat
        /\ r.got[Len(f.got) + 1] = v /\ (f.got = <<>> <=> Len(f.got) = 0)
        /\ \A j \in 1..Len(f.got) : r.got[j] = f.got[j]
    BY Answered
  <1>2. DeclaredKnows(m, tab, f)
    BY DEF Knows
  <1>3. PassedFree(m, r) /\ FieldAt(m, r) = FieldAt(m, f) /\ (InField(m, r) <=> InField(m, f))
    BY <1>1, <1>2 DEF DeclaredKnows, PassedFree, Passed, FieldAt, InField
  <1>4. CASE g.op \in Resolving
    <2>1. /\ InField(m, f) /\ f.got = <<>>
          /\ Free(m, Asks(g)) => Free(m, NamesOf(FieldAt(m, f)))
          /\ Means(m, tab, v, Asks(g))
      BY <1>4 DEF Waits, WaitsType, Answers
    <2>2. Means(m, tab, v, NamesOf(FieldAt(m, f)))
      BY <2>1 DEF Means
    <2>3. Len(r.got) = 1 /\ r.got[1] = v
      BY <1>1, <2>1
    <2>4. DeclaredKnows(m, tab, r)
      BY <1>3, <2>1, <2>2, <2>3 DEF DeclaredKnows
    <2> QED BY <1>1, <2>4 DEF Knows
  <1>5. CASE g.op = "value"
    <2>1. /\ InField(m, f) /\ Len(f.got) = 1 /\ f.got[1] # Invalid
          /\ g.subject = f.got[1] /\ (v # Invalid => Clean(m, tab, g.subject))
      BY <1>5 DEF Waits, WaitsValue, Answers
    <2>2. Len(r.got) = 2 /\ r.got[2] = v /\ r.got[1] = f.got[1] /\ f.got # <<>>
      BY <1>1, <2>1
    <2>3. Means(m, tab, r.got[1], NamesOf(FieldAt(m, r)))
      BY <1>2, <1>3, <2>2 DEF DeclaredKnows
    <2>4. DeclaredKnows(m, tab, r)
      BY <1>3, <2>1, <2>2, <2>3 DEF DeclaredKnows
    <2> QED BY <1>1, <2>4 DEF Knows
  <1>6. g.op # "declared"
    BY DEF Waits, WaitsDeclared
  <1> QED BY <1>4, <1>5, <1>6 DEF Ops, Resolving

LEMMA ModuleAnswered ==
  ASSUME NEW m, NEW tab, NEW n, NEW f, FrameOK(f, n), NEW g, NEW v \in Values,
         NEW r, r = [f EXCEPT !.got = Append(@, v)],
         f.op = "module", g.op \in Ops,
         Knows(m, tab, f), Waits(m, tab, f, g), Answers(m, tab, g, v),
         g.op # "module"
  PROVE  Knows(m, tab, r)
  <1>1. /\ r.subject = f.subject /\ r.op = "module" /\ r.got # <<>>
        /\ r.case = f.case /\ r.field = f.field
        /\ Len(r.got) = Len(f.got) + 1 /\ Len(f.got) \in Nat
        /\ r.got[Len(f.got) + 1] = v /\ (f.got = <<>> <=> Len(f.got) = 0)
    BY Answered
  <1>2. ModuleKnows(m, tab, f)
    BY DEF Knows
  <1>3. /\ PassedFree(m, r) <=> PassedFree(m, f)
        /\ FieldAt(m, r) = FieldAt(m, f)
        /\ InField(m, r) <=> InField(m, f)
        /\ Through(m, r) <=> Through(m, f)
    BY <1>1 DEF PassedFree, Passed, FieldAt, InField, Through
  <1>4. f.got = <<>> /\ f.subject < Count
    BY DEF Waits, WaitsType, WaitsValue, WaitsDeclared, Ops, Resolving
  <1>5. Len(r.got) = 1 /\ r.got[1] = v
    BY <1>1, <1>4
  <1>6. \/ InField(m, r) /\ Means(m, tab, v, NamesOf(FieldAt(m, r)))
        \/ /\ Through(m, r)
           /\ v # Invalid /\ m[r.subject].kind # "alias" => ~InRing(m, r.subject)
    <2>1. CASE g.op \in Resolving
      <3>1. /\ InField(m, f) /\ Means(m, tab, v, Asks(g))
            /\ Free(m, Asks(g)) => Free(m, NamesOf(FieldAt(m, f)))
        BY <2>1 DEF Waits, WaitsType, Answers
      <3> QED BY <1>3, <3>1 DEF Means
    <2>2. CASE g.op = "value"
      <3>1. /\ Through(m, f)
            /\ m[f.subject].kind # "alias" =>
                 g.subject \in 1..Len(tab) /\ tab[g.subject] = Declared(f.subject)
            /\ v # Invalid => Clean(m, tab, g.subject)
        BY <2>2 DEF Waits, WaitsValue, Answers
      <3>2. ASSUME v # Invalid, m[f.subject].kind # "alias"
            PROVE  ~InRing(m, f.subject)
        <4>1. /\ g.subject \in 1..Len(tab)
              /\ tab[g.subject].kind = "declared" /\ tab[g.subject].a = f.subject
          BY <3>1, <3>2 DEF Declared
        <4> QED BY <3>1, <3>2, <4>1, CleanDeclared
      <3> QED BY <1>1, <1>3, <3>1, <3>2
    <2> QED BY <2>1, <2>2 DEF Waits, WaitsDeclared, Ops, Resolving
  <1>7. ModuleKnows(m, tab, r)
    BY <1>1, <1>2, <1>3, <1>4, <1>5, <1>6 DEF ModuleKnows
  <1> QED BY <1>1, <1>7 DEF Knows

LEMMA CallerKnows ==
  ASSUME NEW m, NEW tab, NEW n, NEW f, FrameOK(f, n), NEW g, NEW v \in Values,
         g.op \in Ops, g.op # "module",
         Knows(m, tab, f), Waits(m, tab, f, g), Answers(m, tab, g, v)
  PROVE  Knows(m, tab, [f EXCEPT !.got = Append(@, v)])
  <1>1. f.op \in {"resolve", "value", "declared", "module"}
    <2>1. f.op \in Ops
      BY DEF FrameOK, AnyFrame
    <2>2. f.op # "expand"
      BY DEF Waits, WaitsType, WaitsValue, WaitsDeclared, Ops, Resolving
    <2> QED BY <2>1, <2>2 DEF Ops
  <1> QED BY <1>1, ResolveAnswered, ValueAnswered, DeclaredAnswered, ModuleAnswered

-----------------------------------------------------------------------------
(***************************************************************************)
(* The stack.                                                              *)
(***************************************************************************)
LEMMA SameWaited ==
  ASSUME NEW m, NEW tab, NEW f, NEW g, NEW h, Waits(m, tab, f, g),
         h.op = g.op, h.subject = g.subject
  PROVE  Waits(m, tab, f, h)
  BY DEF Waits, WaitsType, WaitsValue, WaitsDeclared, Asks

LEMMA KnowingBecomes ==
  ASSUME NEW m, NEW tab, NEW s, s \in Seq(AnyFrame), Len(s) >= 1,
         Knowing(m, tab, s), NEW f, Knows(m, tab, f),
         Len(s) > 1 => Waits(m, tab, s[Len(s) - 1], f)
  PROVE  Knowing(m, tab, [s EXCEPT ![Len(s)] = f])
  <1> DEFINE t == [s EXCEPT ![Len(s)] = f]
  <1>1. /\ Len(s) \in Nat /\ Len(t) = Len(s) /\ t[Len(s)] = f
        /\ \A k \in 1..Len(s) : k # Len(s) => t[k] = s[k]
    OBVIOUS
  <1> HIDE DEF t
  <1>2. \A k \in 1..Len(t) : Knows(m, tab, t[k])
    BY <1>1 DEF Knowing
  <1>3. ASSUME NEW k \in 1..(Len(t) - 1) PROVE Waits(m, tab, t[k], t[k + 1])
    <2>1. /\ k \in 1..Len(s) /\ k # Len(s) /\ k + 1 \in 1..Len(s)
          /\ k \in 1..(Len(s) - 1) /\ Len(s) > 1
      BY <1>1
    <2>2. CASE k + 1 = Len(s)
      <3>1. k = Len(s) - 1
        BY <1>1, <2>2
      <3> QED BY <1>1, <2>1, <2>2, <3>1
    <2>3. CASE k + 1 # Len(s)
      BY <1>1, <2>1, <2>3 DEF Knowing
    <2> QED BY <2>2, <2>3
  <1>4. Knowing(m, tab, t)
    BY <1>2, <1>3 DEF Knowing
  <1> QED BY <1>4 DEF t

LEMMA KnowingPushed ==
  ASSUME NEW m, NEW tab, NEW s, s \in Seq(AnyFrame), Len(s) >= 1,
         Knowing(m, tab, s), NEW f, f \in AnyFrame, Knows(m, tab, f),
         Waits(m, tab, s[Len(s)], f)
  PROVE  Knowing(m, tab, Append(s, f))
  <1> DEFINE t == Append(s, f)
  <1>1. /\ Len(s) \in Nat /\ Len(t) = Len(s) + 1 /\ t[Len(s) + 1] = f
        /\ \A k \in 1..Len(s) : t[k] = s[k]
    OBVIOUS
  <1> HIDE DEF t
  <1>2. \A k \in 1..Len(t) : Knows(m, tab, t[k])
    BY <1>1 DEF Knowing
  <1>3. ASSUME NEW k \in 1..(Len(t) - 1) PROVE Waits(m, tab, t[k], t[k + 1])
    <2>1. CASE k = Len(s)
      BY <1>1, <2>1
    <2>2. CASE k # Len(s)
      BY <1>1, <2>2 DEF Knowing
    <2> QED BY <2>1, <2>2
  <1>4. Knowing(m, tab, t)
    BY <1>2, <1>3 DEF Knowing
  <1> QED BY <1>4 DEF t

Caller == Len(stack) - 1

\* The stack after a return, one frame shorter.
LEMMA PoppedStack ==
  ASSUME IInv, Top.op # "module", NEW v \in Values
  PROVE  /\ Caller \in Nat /\ Caller >= 1 /\ Caller + 1 = Len(stack)
         /\ Caller \in 1..Len(stack)
         /\ Len(Popped(v)) = Caller
         /\ Popped(v)[Caller] = [stack[Caller] EXCEPT !.got = Append(@, v)]
         /\ Popped(v)[Caller].op = stack[Caller].op
         /\ Popped(v)[Caller].subject = stack[Caller].subject
         /\ Popped(v)[Caller].depth = stack[Caller].depth
         /\ FrameOK(stack[Caller], Len(table))
         /\ \A k \in 1..Caller : k # Caller => Popped(v)[k] = stack[k]
  <1> DEFINE c == Caller
             s == SubSeq(stack, 1, c)
             g == [s[c] EXCEPT !.got = Append(@, v)]
             t == [s EXCEPT ![c] = g]
  <1>1. /\ stack \in Seq(AnyFrame) /\ Len(stack) \in Nat /\ Len(stack) > 1
        /\ c \in Nat /\ c >= 1 /\ c + 1 = Len(stack) /\ c \in 1..Len(stack)
    BY TopTypes, ConstantTypes DEF IInv, StackOK, Caller
  <1>2. s \in Seq(AnyFrame) /\ Len(s) = c /\ \A k \in 1..c : s[k] = stack[k]
    BY <1>1
  <1> HIDE DEF s
  <1>3. FrameOK(stack[c], Len(table)) /\ s[c] = stack[c] /\ c \in 1..c
    BY <1>1, <1>2 DEF IInv, StackOK
  <1>4. /\ g = [stack[c] EXCEPT !.got = Append(@, v)]
        /\ g.op = stack[c].op /\ g.subject = stack[c].subject /\ g.depth = stack[c].depth
    BY <1>3, Answered
  <1> HIDE DEF g
  <1>5. /\ Len(t) = c /\ t[c] = g
        /\ \A k \in 1..c : k # c => t[k] = stack[k]
    BY <1>1, <1>2
  <1>6. Popped(v) = t
    BY DEF Popped, s, g, Caller
  <1> HIDE DEF t, c
  <1>7. Len(Popped(v)) = c /\ Popped(v)[c] = g
        /\ \A k \in 1..c : k # c => Popped(v)[k] = stack[k]
    BY <1>5, <1>6
  <1> QED BY <1>1, <1>3, <1>4, <1>7 DEF c

LEMMA KnowingPopped ==
  ASSUME IInv, Top.op # "module", NEW v \in Values, NEW tab,
         Knowing(module, tab, stack), Answers(module, tab, Top, v)
  PROVE  Knowing(module, tab, Popped(v))
  <1> DEFINE c == Caller
             t == Popped(v)
  <1>1. /\ c \in Nat /\ c >= 1 /\ c + 1 = Len(stack)
        /\ c \in 1..Len(stack)
        /\ Len(t) = c
        /\ t[c] = [stack[c] EXCEPT !.got = Append(@, v)]
        /\ t[c].op = stack[c].op /\ t[c].subject = stack[c].subject
        /\ FrameOK(stack[c], Len(table))
        /\ \A k \in 1..c : k # c => t[k] = stack[k]
    BY PoppedStack
  <1>2. Top = stack[c + 1] /\ Top.op \in Ops
    BY <1>1, TopTypes DEF Top, AnyFrame
  <1> HIDE DEF t, c
  <1>3. Knows(module, tab, stack[c]) /\ Waits(module, tab, stack[c], Top)
    BY <1>1, <1>2 DEF Knowing
  <1>4. Knows(module, tab, t[c])
    <2>1. Knows(module, tab, [stack[c] EXCEPT !.got = Append(@, v)])
      BY <1>1, <1>2, <1>3, CallerKnows
    <2> QED BY <1>1, <2>1
  <1>5. \A k \in 1..Len(t) : Knows(module, tab, t[k])
    BY <1>1, <1>4 DEF Knowing
  <1>6. ASSUME NEW k \in 1..(Len(t) - 1) PROVE Waits(module, tab, t[k], t[k + 1])
    <2>1. /\ k \in 1..(Len(stack) - 1) /\ t[k] = stack[k] /\ k + 1 \in 1..c
      BY <1>1
    <2>2. Waits(module, tab, stack[k], stack[k + 1])
      BY <2>1 DEF Knowing
    <2>3. t[k + 1].op = stack[k + 1].op /\ t[k + 1].subject = stack[k + 1].subject
      BY <1>1, <2>1
    <2> QED BY <2>1, <2>2, <2>3, SameWaited
  <1>7. Knowing(module, tab, t)
    BY <1>5, <1>6 DEF Knowing
  <1> QED BY <1>7 DEF t

-----------------------------------------------------------------------------
(***************************************************************************)
(* The ways an action goes on.                                             *)
(***************************************************************************)
KnowInv ==
  /\ Opaque(module, table)
  /\ Knowing(module, table, stack)
  /\ phase = "done" => Top.op = "module" /\ Top.subject = Count

LEMMA TopKnows ==
  ASSUME IInv, KnowInv
  PROVE  /\ Knows(module, table, Top)
         /\ Len(stack) > 1 => Waits(module, table, stack[Len(stack) - 1], Top)
         /\ stack \in Seq(AnyFrame) /\ Len(stack) >= 1 /\ TableOK(table)
         /\ Len(stack) \in Nat /\ Len(table) \in Nat
  <1>1. /\ Len(stack) \in Nat /\ Len(stack) >= 1 /\ stack \in Seq(AnyFrame)
        /\ TableOK(table) /\ Len(table) \in Nat
    BY ConstantTypes DEF IInv, StackOK, TableOK
  <1>2. Knows(module, table, Top)
    BY <1>1 DEF KnowInv, Knowing, Top
  <1>3. ASSUME Len(stack) > 1
        PROVE  Waits(module, table, stack[Len(stack) - 1], Top)
    <2>1. Len(stack) - 1 \in 1..(Len(stack) - 1) /\ (Len(stack) - 1) + 1 = Len(stack)
      BY <1>1, <1>3
    <2>2. Waits(module, table, stack[Len(stack) - 1], stack[(Len(stack) - 1) + 1])
      BY <2>1 DEF KnowInv, Knowing
    <2> QED BY <2>1, <2>2 DEF Top
  <1> QED BY <1>1, <1>2, <1>3

LEMMA KnowGoto ==
  ASSUME IInv, KnowInv, phase = "run", NEW f, Goto(f), Knows(module, table, f),
         Len(stack) > 1 => Waits(module, table, stack[Len(stack) - 1], f)
  PROVE  KnowInv'
  <1>1. Knowing(module, table, Becomes(f))
    BY TopKnows, KnowingBecomes DEF KnowInv, Becomes
  <1>2. module' = module /\ table' = table /\ stack' = Becomes(f) /\ phase' = "run"
    BY DEF Goto
  <1> QED BY <1>1, <1>2 DEF KnowInv

LEMMA KnowLoop ==
  ASSUME IInv, KnowInv, phase = "run", NEW f, Goto(f), Knows(module, table, f),
         f.op = Top.op, f.subject = Top.subject
  PROVE  KnowInv'
  BY KnowGoto, TopKnows, SameWaited

\* A resolution goes on with other names.
LEMMA KnowInstead ==
  ASSUME IInv, KnowInv, phase = "run", NEW f, Goto(f), Knows(module, table, f),
         f.op \in Resolving, Top.op \in Resolving,
         Free(module, Asks(f)) => Free(module, Asks(Top))
  PROVE  KnowInv'
  <1>1. ASSUME Len(stack) > 1
        PROVE  Waits(module, table, stack[Len(stack) - 1], f)
    <2>1. WaitsType(module, stack[Len(stack) - 1], Top)
      BY <1>1, TopKnows DEF Waits
    <2>2. WaitsType(module, stack[Len(stack) - 1], f)
      BY <2>1 DEF WaitsType
    <2> QED BY <2>2 DEF Waits, Resolving
  <1> QED BY <1>1, KnowGoto

LEMMA KnowPush ==
  ASSUME IInv, KnowInv, phase = "run", NEW f, Push(f), f \in AnyFrame,
         Knows(module, table, f), Waits(module, table, Top, f)
  PROVE  KnowInv'
  <1>1. CASE Len(stack) < MaxStack /\ stack' = Append(stack, f)
             /\ UNCHANGED <<module, phase, code, table>>
    <2>1. Knowing(module, table, Append(stack, f))
      BY TopKnows, KnowingPushed DEF KnowInv, Top
    <2> QED BY <1>1, <2>1 DEF KnowInv
  <1>2. CASE Len(stack) = MaxStack /\ phase' = "crashed"
             /\ UNCHANGED <<module, code, table, stack>>
    BY <1>2 DEF KnowInv
  <1> QED BY <1>1, <1>2 DEF Push

LEMMA KnowReturn ==
  ASSUME IInv, KnowInv, phase = "run", NEW v \in Values, Return(v),
         Top.op # "module", Answers(module, table, Top, v)
  PROVE  KnowInv'
  <1>1. Knowing(module, table, Popped(v))
    BY KnowingPopped DEF KnowInv
  <1> QED BY <1>1 DEF KnowInv, Return

LEMMA KnowInvalid ==
  ASSUME IInv, KnowInv, phase = "run", Return(Invalid), Top.op # "module"
  PROVE  KnowInv'
  <1>1. Answers(module, table, Top, Invalid) /\ Invalid \in Values
    BY DEF Answers, Means, Values
  <1> QED BY <1>1, KnowReturn

LEMMA InternGrows ==
  ASSUME TableOK(table), NEW e, EntryOK(e, Len(table) + 1), HasRoom(e)
  PROVE  /\ TableOK(Interned(e)) /\ Len(Interned(e)) \in Nat
         /\ Grown(table, Interned(e))
         /\ Position(e) \in 1..Len(Interned(e)) /\ Position(e) \in Nat
         /\ Interned(e)[Position(e)] = e
         /\ \A t \in 1..Len(Interned(e)) :
              t \in 1..Len(table) \/ Interned(e)[t] = e
  <1>1. /\ table \in Seq(Entry) /\ Len(table) \in Nat /\ DOMAIN table = 1..Len(table)
    BY DEF TableOK
  <1>2. /\ TableOK(Interned(e)) /\ Position(e) \in 1..Len(Interned(e))
        /\ Position(e) \in Nat
    BY InternKeeps
  <1>3. CASE Positions(e) # {}
    <2>1. Position(e) \in Positions(e)
      BY <1>3 DEF Position
    <2> QED BY <1>1, <1>2, <1>3, <2>1 DEF Interned, Positions, Grown
  <1>4. CASE Positions(e) = {}
    <2> DEFINE new == Append(table, e)
    <2>1. Interned(e) = new /\ Position(e) = Len(table) + 1
      BY <1>4 DEF Interned, Position
    <2>2. /\ Len(new) = Len(table) + 1 /\ new[Len(table) + 1] = e
          /\ \A t \in 1..Len(table) : new[t] = table[t]
      BY <1>1
    <2> HIDE DEF new
    <2> QED BY <1>1, <1>2, <2>1, <2>2 DEF Grown
  <1> QED BY <1>3, <1>4

LEMMA OpaqueGrows ==
  ASSUME TableOK(table), NEW e, EntryOK(e, Len(table) + 1), HasRoom(e),
         Opaque(module, table),
         e.kind = "declared" => module[e.a].kind # "alias"
  PROVE  Opaque(module, Interned(e))
  BY InternGrows DEF Opaque, Grown

LEMMA KnowInterned ==
  ASSUME IInv, KnowInv, phase = "run", NEW e, EntryOK(e, Len(table) + 1),
         ReturnInterned(e), Top.op \in Resolving,
         e.kind = "declared" => module[e.a].kind # "alias",
         ASSUME NEW tab, TableOK(tab), Len(tab) \in Nat, Grown(table, tab),
                NEW v \in 1..Len(tab), tab[v] = e, Clean(module, tab, v)
         PROVE  Free(module, Asks(Top))
  PROVE  KnowInv'
  <1>1. CASE HasRoom(e) /\ table' = Interned(e) /\ stack' = Popped(Position(e))
             /\ UNCHANGED <<module, phase, code>>
    <2> DEFINE tab == Interned(e)
               v == Position(e)
    <2>1. /\ TableOK(tab) /\ Len(tab) \in Nat /\ Grown(table, tab)
          /\ v \in 1..Len(tab) /\ v \in Nat /\ tab[v] = e
      BY <1>1, TopKnows, InternGrows
    <2>2. Opaque(module, tab)
      BY <1>1, TopKnows, OpaqueGrows DEF KnowInv
    <2> HIDE DEF tab, v
    <2>3. Knowing(module, tab, stack)
      BY <2>1, TopKnows, KnowingGrows DEF KnowInv, IInv
    <2>4. Means(module, tab, v, Asks(Top))
      BY <2>1 DEF Means
    <2>5. Answers(module, tab, Top, v) /\ Top.op # "module" /\ v \in Values
      BY <2>1, <2>4 DEF Answers, Resolving, Values
    <2>6. Knowing(module, tab, Popped(v))
      BY <2>3, <2>5, KnowingPopped
    <2>7. module' = module /\ table' = tab /\ stack' = Popped(v) /\ phase' = "run"
      BY <1>1 DEF tab, v
    <2> QED BY <2>2, <2>6, <2>7 DEF KnowInv
  <1>2. CASE ~HasRoom(e) /\ Return(Invalid)
    BY <1>2, KnowInvalid DEF Resolving
  <1> QED BY <1>1, <1>2 DEF ReturnInterned

LEMMA CallKnows ==
  ASSUME NEW m, NEW tab, NEW op \in {"resolve", "expand", "value"},
         NEW subject, NEW depth
  PROVE  Knows(m, tab, Call(op, subject, depth))
  BY DEF Knows, Call, ResolveKnows, ValueKnows

-----------------------------------------------------------------------------
(***************************************************************************)
(* seki_type_resolve and resolve_named_expanding.                          *)
(***************************************************************************)
LEMMA NamesOfRef ==
  ASSUME NEW r \in Ref
  PROVE  /\ r.form = "named" => NamesOf(r) = {r.names[1]}
         /\ r.form = "applied" /\ Len(r.names) = 2 =>
              NamesOf(r) = {r.names[1], r.names[2]}
         /\ r.form \in {"bytes", "digest"} => NamesOf(r) = {}
  <1>1. r.form \in {"named", "applied"} => DOMAIN r.names = 1..Len(r.names)
    BY RefTypes
  <1>2. ASSUME r.form = "named" PROVE NamesOf(r) = {r.names[1]}
    <2>1. DOMAIN r.names = {1}
      BY <1>1, <1>2, RefTypes
    <2> QED BY <1>2, <2>1 DEF NamesOf
  <1>3. ASSUME r.form = "applied", Len(r.names) = 2
        PROVE  NamesOf(r) = {r.names[1], r.names[2]}
    <2>1. DOMAIN r.names = {1, 2}
      BY <1>1, <1>3
    <2> QED BY <1>3, <2>1 DEF NamesOf
  <1>4. r.form \in {"bytes", "digest"} => NamesOf(r) = {}
    BY DEF NamesOf
  <1> QED BY <1>2, <1>3, <1>4

LEMMA FreeUnion ==
  ASSUME NEW m, NEW a, NEW b, Free(m, {a}), Free(m, {b})
  PROVE  Free(m, {a, b})
  BY DEF Free, Referred

LEMMA ResolveKnow ==
  ASSUME IInv, KnowInv,
         \/ ResolveName \/ ResolveBytes \/ ResolveArgument
         \/ ResolveDecision \/ ResolveOther
  PROVE  KnowInv'
  <1> DEFINE r == Top.subject
  <1>0. /\ Top.op = "resolve" /\ Top.op \in Resolving /\ Top.op # "module"
        /\ r \in Ref /\ phase = "run" /\ Len(Top.got) \in Nat
        /\ ResolveKnows(module, table, Top)
        /\ 0 \in 0..MaxDepth /\ Asks(Top) = NamesOf(r)
    BY ResolveTypes, TopKnows, ConstantTypes DEF ResolveName, ResolveBytes,
       ResolveArgument, ResolveDecision, ResolveOther, Running, Resolving, Knows, Asks
  <1>1. CASE ResolveName
    <2> DEFINE f == Call("expand", r.names[1], 0)
    <2>1. Goto(f) /\ NamesOf(r) = {r.names[1]}
      BY <1>0, <1>1, NamesOfRef DEF ResolveName
    <2>2. f.op = "expand" /\ f.subject = r.names[1]
      BY DEF Call
    <2>3. Asks(f) = Asks(Top) /\ f.op \in Resolving
      BY <1>0, <2>1, <2>2 DEF Asks, Resolving
    <2> QED BY <1>0, <2>1, <2>3, CallKnows, KnowInstead
  <1>2. CASE ResolveBytes
    <2>1. CASE Return(Invalid)
      BY <1>0, <2>1, KnowInvalid
    <2>2. CASE r.length # 0 /\ ReturnInterned(BytesOf(r))
      <3>1. /\ EntryOK(BytesOf(r), Len(table) + 1)
            /\ BytesOf(r).kind # "declared"
        BY <1>0, <1>2, RefTypes DEF ResolveBytes, EntryOK, BytesOf, Entry
      <3>2. Free(module, Asks(Top))
        BY <1>0, <1>2, NamesOfRef DEF ResolveBytes, Free, Referred
      <3> HIDE DEF r
      <3> QED BY <1>0, <2>2, <3>1, <3>2, KnowInterned
    <2> QED BY <1>2, <2>1, <2>2 DEF ResolveBytes
  <1>3. CASE ResolveArgument
    <2> DEFINE n == r.names[Len(Top.got) + 1]
               f == Call("expand", n, 0)
    <2>1. Push(f) /\ r.form = "applied" /\ Len(r.names) = 2 /\ Len(Top.got) < 2
      BY <1>3 DEF ResolveArgument
    <2>2. n \in Nat
      BY <1>0, <2>1, RefTypes
    <2>3. f \in AnyFrame
      BY <1>0, <2>2, ExpandCalled DEF FrameOK
    <2>4. f.op = "expand" /\ Asks(f) = {n}
      BY DEF Call, Asks
    <2>5. Waits(module, table, Top, f)
      BY <1>0, <2>1, <2>4 DEF Waits, WaitsType
    <2> QED BY <1>0, <2>1, <2>3, <2>5, CallKnows, KnowPush
  <1>4. CASE ResolveDecision
    <2> DEFINE a == Top.got[1]
               b == Top.got[2]
    <2>1. Len(Top.got) = 2 /\ Top.got # <<>>
      BY <1>4, ResolveTypes DEF ResolveDecision
    <2>2. /\ NamesOf(r) = {r.names[1], r.names[2]}
          /\ Means(module, table, a, {r.names[1]})
          /\ Means(module, table, b, {r.names[2]})
      BY <1>0, <2>1, NamesOfRef DEF ResolveKnows
    <2>3. CASE Return(Invalid)
      BY <1>0, <2>3, KnowInvalid
    <2>4. CASE a # Invalid /\ b # Invalid /\ ReturnInterned(DecisionOf(a, b))
      <3>1. a \in 1..Len(table) /\ b \in 1..Len(table)
        BY <2>2, <2>4 DEF Means
      <3>2. EntryOK(DecisionOf(a, b), Len(table) + 1) /\ DecisionOf(a, b).kind = "decision"
            /\ DecisionOf(a, b).a = a /\ DecisionOf(a, b).b = b
        <4>1. a \in Nat /\ b \in Nat /\ (Len(table) + 1) - 1 = Len(table)
          BY <3>1, TopKnows
        <4> QED BY <3>1, <4>1 DEF EntryOK, DecisionOf, Entry
      <3>3. ASSUME NEW tab, TableOK(tab), Len(tab) \in Nat, Grown(table, tab),
                   NEW v \in 1..Len(tab), tab[v] = DecisionOf(a, b),
                   Clean(module, tab, v)
            PROVE  Free(module, Asks(Top))
        <4>1. a \in 1..Len(tab) /\ b \in 1..Len(tab)
          BY <3>1, <3>3, TopKnows DEF Grown
        <4>2. Clean(module, tab, a) /\ Clean(module, tab, b)
          BY <3>2, <3>3, <4>1, CleanDecision
        <4>3. Clean(module, table, a) /\ Clean(module, table, b)
          BY <3>1, <3>3, <4>2, TopKnows, CleanGrows
        <4>4. Free(module, {r.names[1]}) /\ Free(module, {r.names[2]})
          BY <2>2, <2>4, <4>3 DEF Means
        <4>5. Free(module, {r.names[1], r.names[2]})
          BY <4>4, FreeUnion
        <4> QED BY <1>0, <2>2, <4>5
      <3>4. DecisionOf(a, b).kind # "declared"
        BY <3>2
      <3> HIDE DEF a, b, r
      <3> QED BY <1>0, <2>4, <3>2, <3>3, <3>4, KnowInterned
    <2> QED BY <1>4, <2>3, <2>4 DEF ResolveDecision
  <1>5. CASE ResolveOther
    BY <1>0, <1>5, KnowInvalid DEF ResolveOther
  <1> QED BY <1>1, <1>2, <1>3, <1>4, <1>5

LEMMA OnlyOneFound ==
  ASSUME module \in Modules, NEW n, NEW d \in Found(n)
  PROVE  Referred(module, {n}) \subseteq {d} /\ d \in Index
  BY ModulesAssumption DEF Found, Referred

LEMMA ExpandKnow ==
  ASSUME IInv, KnowInv, ExpandAlias \/ ExpandName \/ ExpandTooDeep
  PROVE  KnowInv'
  <1> DEFINE n == Top.subject
  <1>0. /\ Top.op = "expand" /\ Top.op \in Resolving /\ Top.op # "module"
        /\ n \in Nat /\ phase = "run" /\ Asks(Top) = {n} /\ module \in Modules
    BY TopTypes DEF ExpandAlias, ExpandName, ExpandTooDeep, Running, Resolving,
       FrameOK, SubjectOK, Asks, IInv
  <1>1. CASE ExpandAlias
    <2>1. PICK d \in AliasFound(n) :
            IF Target(d).form = "named"
            THEN Goto(Call("expand", Target(d).names[1], Top.depth + 1))
            ELSE Goto(Call("resolve", Target(d), 0))
      BY <1>1 DEF ExpandAlias
    <2>2. d \in Found(n) /\ d \in Index /\ module[d].kind = "alias"
      BY DEF AliasFound, Found
    <2>3. Target(d) \in Ref
      BY <1>0, <2>2, ModuleTypes
    <2>4. ASSUME Free(module, NamesOf(Target(d))) PROVE Free(module, {n})
      <3>1. Len(module[d].cases) = 1 /\ Len(module[d].cases[1]) = 1
        BY <1>0, <2>2, ModulesAssumption
      <3>2. ~InRing(module, d)
        BY <2>2, <2>4, <3>1, OutOfRing DEF Target
      <3> QED BY <1>0, <2>2, <3>2, OnlyOneFound DEF Free
    <2>5. CASE Target(d).form = "named"
      <3> DEFINE f == Call("expand", Target(d).names[1], Top.depth + 1)
      <3>1. f.op = "expand" /\ Asks(f) = {Target(d).names[1]} /\ f.op \in Resolving
        BY DEF Call, Asks, Resolving
      <3>2. Asks(f) = NamesOf(Target(d)) /\ Goto(f)
        BY <2>1, <2>3, <2>5, <3>1, NamesOfRef
      <3> QED BY <1>0, <2>4, <3>1, <3>2, CallKnows, KnowInstead
    <2>6. CASE Target(d).form # "named"
      <3> DEFINE f == Call("resolve", Target(d), 0)
      <3>1. f.op = "resolve" /\ Asks(f) = NamesOf(Target(d)) /\ f.op \in Resolving
        BY DEF Call, Asks, Resolving
      <3>2. Goto(f)
        BY <2>1, <2>6
      <3> QED BY <1>0, <2>4, <3>1, <3>2, CallKnows, KnowInstead
    <2> QED BY <2>5, <2>6
  <1>2. CASE ExpandName
    <2>0. AliasFound(n) = {}
      BY <1>2 DEF ExpandName
    <2>1. CASE n \in Builtin /\ ReturnInterned(Base(n))
      <3>1. EntryOK(Base(n), Len(table) + 1) /\ Base(n).kind # "declared"
        BY <1>0, <2>1 DEF EntryOK, Base, Entry
      <3>2. Free(module, Asks(Top))
        BY <1>0, <2>0, <2>1 DEF AliasFound, Found, Free, Referred
      <3> HIDE DEF n
      <3> QED BY <1>0, <2>1, <3>1, <3>2, KnowInterned
    <2>2. ASSUME NEW d \in Found(n), ReturnInterned(Declared(d)) PROVE KnowInv'
      <3>1. d \in Index /\ module[d].kind # "alias" /\ d \in Nat
        BY <2>0, ConstantTypes DEF AliasFound, Found
      <3>2. /\ EntryOK(Declared(d), Len(table) + 1)
            /\ Declared(d).kind = "declared" /\ Declared(d).a = d
        BY <3>1 DEF EntryOK, Declared, Entry
      <3>3. ASSUME NEW tab, NEW v \in 1..Len(tab), tab[v] = Declared(d),
                   Clean(module, tab, v)
            PROVE  Free(module, Asks(Top))
        <4>1. ~InRing(module, d)
          BY <3>2, <3>3, CleanDeclared
        <4> QED BY <1>0, <4>1, OnlyOneFound DEF Free
      <3> QED BY <1>0, <2>2, <3>1, <3>2, <3>3, KnowInterned
    <2>3. CASE Return(Invalid)
      BY <1>0, <2>3, KnowInvalid
    <2> QED BY <1>2, <2>1, <2>2, <2>3 DEF ExpandName
  <1>3. CASE ExpandTooDeep
    BY <1>0, <1>3, KnowInvalid DEF ExpandTooDeep
  <1> QED BY <1>1, <1>2, <1>3

-----------------------------------------------------------------------------
(***************************************************************************)
(* value_bits and declared_value_bits.                                     *)
(***************************************************************************)
LEMMA ValueFrame ==
  ASSUME NEW type \in Nat, NEW depth \in 0..MaxDepth
  PROVE  /\ Call("value", type, depth) \in AnyFrame
         /\ Call("value", type, depth).op = "value"
         /\ Call("value", type, depth).subject = type
  <1>1. SubjectOK(Call("value", type, depth))
    BY DEF SubjectOK, Call
  <1>2. FrameOK(Call("value", type, depth), 0)
    BY <1>1, CallFrame DEF Ops
  <1> QED BY <1>2 DEF FrameOK, Call

LEMMA ValueKnow ==
  ASSUME IInv, KnowInv,
         \/ ValueTooDeep \/ ValueBase \/ ValueArgument
         \/ ValueDecision \/ ValueDeclared
  PROVE  KnowInv'
  <1> DEFINE t == Top.subject
             e == table[Top.subject]
  <1>0. /\ Top.op = "value" /\ Top.op \notin Resolving /\ Top.op # "module"
        /\ Top.depth \in 0..MaxDepth /\ Top.got \in Seq(Values)
        /\ phase = "run" /\ ValueKnows(module, table, Top)
        /\ Len(Top.got) \in Nat
        /\ Len(Top.got) = 0 => Top.got = <<>>
    <2>1. Running("value")
      BY DEF ValueTooDeep, ValueBase, ValueArgument, ValueDecision, ValueDeclared
    <2>2. Top.depth \in 0..MaxDepth /\ Top.got \in Seq(Values)
      BY TopTypes DEF FrameOK, AnyFrame
    <2>3. ValueKnows(module, table, Top)
      BY <2>1, TopKnows DEF Running, Knows
    <2> QED BY <2>1, <2>2, <2>3 DEF Running, Resolving
  <1>1. ASSUME Measurable
        PROVE  /\ t \in 1..Len(table) /\ Kind = e.kind
               /\ e \in Entry /\ e.a \in Nat /\ e.b \in Nat
               /\ e.kind = "base" => e.a \in Builtin
               /\ e.kind = "declared" => e.a \in Index
               /\ e.kind = "decision" => e.a \in 1..Len(table) /\ e.b \in 1..Len(table)
               /\ Top.depth + 1 \in 0..MaxDepth
    <2>1. t \in 1..Len(table) /\ Len(table) \in Nat
      BY <1>1 DEF Measurable, IInv, TableOK
    <2>2. EntryOK(e, t)
      BY <2>1 DEF IInv, TableOK
    <2>3. Top.depth + 1 \in 0..MaxDepth
      BY <1>0, <1>1, ConstantTypes DEF Measurable
    <2>4. 1..(t - 1) \subseteq 1..Len(table)
      BY <2>1
    <2> QED BY <2>1, <2>2, <2>3, <2>4 DEF EntryOK, Entry, Kind
  <1>a. ASSUME NEW v \in Values, Return(v), v # Invalid => Clean(module, table, t)
        PROVE  KnowInv'
    <2>1. Answers(module, table, Top, v)
      BY <1>0, <1>a DEF Answers
    <2> HIDE DEF t, e
    <2> QED BY <1>0, <1>a, <2>1, KnowReturn
  <1> HIDE DEF t, e
  <1>2. CASE ValueTooDeep
    BY <1>0, <1>2, KnowInvalid DEF ValueTooDeep
  <1>3. CASE ValueBase
    <2>0. Clean(module, table, t)
      BY <1>1, <1>3, CleanOther DEF ValueBase, t, e
    <2>1. CASE Kind = "base" /\ Return(Widths[e.a])
      <3>1. Widths[e.a] \in Values
        BY <1>1, <1>3, <2>1, ConstantTypes DEF ValueBase, Values
      <3> QED BY <1>a, <2>0, <2>1, <3>1
    <2>2. CASE Return(Checked(8 * e.a))
      <3>1. Checked(8 * e.a) \in Values
        BY <1>1, <1>3, CheckedValue DEF ValueBase
      <3> QED BY <1>a, <2>0, <2>2, <3>1
    <2> QED BY <1>3, <2>1, <2>2 DEF ValueBase, e
  <1>4. CASE ValueArgument
    <2> DEFINE argument == IF Top.got = <<>> THEN e.a ELSE e.b
               f == Call("value", argument, Top.depth + 1)
    <2>1. /\ argument \in Nat /\ Top.depth + 1 \in 0..MaxDepth
          /\ t \in 1..Len(table) /\ e.kind = "decision" /\ Len(Top.got) < 2
      BY <1>1, <1>4 DEF ValueArgument
    <2>2. Push(f)
      BY <1>4 DEF ValueArgument, e
    <2>3. \/ Top.got = <<>> /\ argument = e.a
          \/ Len(Top.got) = 1 /\ argument = e.b
      <3>1. Len(Top.got) < 2
        BY <1>4 DEF ValueArgument
      <3>2. \A n \in Nat : n < 2 => n \in {0, 1}
        OBVIOUS
      <3>3. Len(Top.got) \in {0, 1}
        BY <1>0, <3>1, <3>2
      <3>4. Top.got = <<>> \/ Len(Top.got) = 1
        BY <1>0, <3>3
      <3> QED BY <3>4
    <2> HIDE DEF argument
    <2>4. f \in AnyFrame /\ f.op = "value" /\ f.subject = argument
      BY <2>1, ValueFrame
    <2>5. Knows(module, table, f)
      BY CallKnows
    <2> HIDE DEF f
    <2>6. WaitsValue(module, table, Top, f)
      BY <1>0, <2>1, <2>3, <2>4 DEF WaitsValue, t, e
    <2>7. Waits(module, table, Top, f)
      BY <2>4, <2>6 DEF Waits, Resolving
    <2> QED BY <1>0, <2>2, <2>4, <2>5, <2>7, KnowPush
  <1>5. CASE ValueDecision
    <2>1. CASE Return(Invalid)
      BY <1>0, <2>1, KnowInvalid
    <2>2. CASE /\ Len(Top.got) = 2
               /\ Invalid \notin {Top.got[k] : k \in DOMAIN Top.got}
               /\ Return(Checked(1 + Larger(Top.got[1], Top.got[2])))
      <3>1. /\ Top.got[1] \in Values /\ Top.got[2] \in Values
            /\ 1 \in DOMAIN Top.got /\ 2 \in DOMAIN Top.got
        BY <1>0, <2>2
      <3>2. Top.got[1] \in Nat /\ Top.got[2] \in Nat
            /\ Top.got[1] # Invalid /\ Top.got[2] # Invalid
        BY <2>2, <3>1 DEF Values
      <3>3. 1 + Larger(Top.got[1], Top.got[2]) \in Nat
        BY <3>2 DEF Larger
      <3>4. Checked(1 + Larger(Top.got[1], Top.got[2])) \in Values
        BY <3>3, CheckedValue
      <3>5. t \in 1..Len(table) /\ e.kind = "decision"
            /\ e.a \in 1..Len(table) /\ e.b \in 1..Len(table)
        BY <1>1, <1>5 DEF ValueDecision
      <3>6. Clean(module, table, e.a) /\ Clean(module, table, e.b)
        BY <1>0, <2>2, <3>2, <3>5 DEF ValueKnows, t, e
      <3>7. Clean(module, table, t)
        BY <3>5, <3>6, CleanDecision DEF t, e
      <3> QED BY <1>a, <2>2, <3>4, <3>7
    <2> QED BY <1>5, <2>1, <2>2 DEF ValueDecision
  <1>6. CASE ValueDeclared
    <2> DEFINE f == Call("declared", e.a, Top.depth + 1)
    <2>0. /\ e.a \in Index /\ Top.depth + 1 \in 0..MaxDepth
          /\ t \in 1..Len(table) /\ e.kind = "declared"
      BY <1>1, <1>6 DEF ValueDeclared
    <2>1. CASE Top.got = <<>> /\ Push(f)
      <3>1. SubjectOK(f)
        BY <2>0 DEF SubjectOK, Call
      <3>2. f \in AnyFrame
        BY <2>0, <3>1, CallFrame DEF Ops, FrameOK
      <3>3. /\ f.op = "declared" /\ f.subject = e.a /\ f.got = <<>>
            /\ f.case = 1 /\ f.field = 1
        BY DEF Call
      <3> HIDE DEF f
      <3>4. PassedFree(module, f)
        <4>1. ASSUME NEW c \in 1..Len(module[f.subject].cases),
                     NEW k \in 1..Len(module[f.subject].cases[c])
              PROVE  ~Passed(f, c, k)
          BY <3>3 DEF Passed
        <4> QED BY <4>1 DEF PassedFree
      <3>5. Knows(module, table, f)
        BY <3>3, <3>4 DEF Knows, DeclaredKnows
      <3>6. Waits(module, table, Top, f)
        BY <1>0, <2>0, <2>1, <3>3 DEF Waits, WaitsDeclared, Resolving, t, e
      <3> QED BY <1>0, <2>1, <3>2, <3>5, <3>6, KnowPush
    <2>2. CASE Top.got # <<>> /\ Return(Top.got[1])
      <3>1. Top.got[1] \in Values
        BY <1>0, <2>2
      <3>2. Top.got[1] # Invalid => ~InRing(module, e.a)
        BY <1>0, <2>0, <2>2 DEF ValueKnows, t, e
      <3>3. Top.got[1] # Invalid => Clean(module, table, t)
        BY <2>0, <3>2, CleanDeclared DEF t, e
      <3> QED BY <1>a, <2>2, <3>1, <3>3
    <2> QED BY <1>6, <2>1, <2>2 DEF ValueDeclared, e
  <1> QED BY <1>2, <1>3, <1>4, <1>5, <1>6

LEMMA LoopAt ==
  ASSUME IInv, Top.op \in {"module", "declared"}, Top.subject \in Index
  PROVE  /\ AtField <=> InField(module, Top)
         /\ AtEnd <=> Through(module, Top)
         /\ Cases[Top.case][Top.field] = FieldAt(module, Top)
         /\ AtCaseEnd => ~InField(module, Top) /\ ~Through(module, Top)
         /\ AtField => ~AtEnd
  <1>1. AtField <=> InField(module, Top)
    BY DEF AtField, InField, Cases
  <1>2. AtEnd <=> Through(module, Top)
    BY DEF AtEnd, Through, Cases
  <1>3. Cases[Top.case][Top.field] = FieldAt(module, Top)
    BY DEF FieldAt, Cases
  <1>4. /\ Top.case \in Nat /\ Top.field \in Nat /\ Len(Cases) \in Nat
        /\ \A c \in 1..Len(Cases) : Len(Cases[c]) \in Nat
        /\ Top.case >= 1
    <2>1. module[Top.subject].cases \in Seq(Seq(Ref))
      BY ModuleTypes DEF IInv
    <2>2. /\ Top.case \in Nat \ {0}
          /\ Top.field \in Nat \ {0}
      BY LoopTypes
    <2>3. Cases \in Seq(Seq(Ref))
      BY <2>1 DEF Cases
    <2>4. Len(Cases) \in Nat /\ \A c \in 1..Len(Cases) : Len(Cases[c]) \in Nat
      BY <2>3
    <2> QED BY <2>2, <2>4
  <1>5. AtCaseEnd => ~AtField /\ ~AtEnd
    BY <1>4 DEF AtCaseEnd, AtField, AtEnd
  <1>6. AtField => ~AtEnd
    BY <1>4 DEF AtField, AtEnd
  <1> QED BY <1>1, <1>2, <1>3, <1>5, <1>6

\* The field the loop is at has been found free.
LEMMA NextField ==
  ASSUME IInv, Top.subject \in Index, Top.op \in {"module", "declared"},
         NEW f, f.subject = Top.subject, f.case = Top.case, f.field = Top.field + 1,
         PassedFree(module, Top), Free(module, NamesOf(FieldAt(module, Top)))
  PROVE  PassedFree(module, f)
  <1>1. Top.case \in Nat /\ Top.field \in Nat
    BY LoopTypes
  <1>2. ASSUME NEW c \in 1..Len(module[f.subject].cases),
               NEW k \in 1..Len(module[f.subject].cases[c]), Passed(f, c, k)
        PROVE  Free(module, NamesOf(module[f.subject].cases[c][k]))
    <2>1. CASE Passed(Top, c, k)
      BY <1>2, <2>1 DEF PassedFree
    <2>2. CASE ~Passed(Top, c, k)
      <3>1. c = Top.case /\ k = Top.field
        BY <1>1, <1>2, <2>2 DEF Passed
      <3> QED BY <3>1 DEF FieldAt
    <2> QED BY <2>1, <2>2
  <1> QED BY <1>2 DEF PassedFree

LEMMA NextCase ==
  ASSUME IInv, Top.subject \in Index, Top.op \in {"module", "declared"}, AtCaseEnd,
         NEW f, f.subject = Top.subject, f.case = Top.case + 1, f.field = 1,
         PassedFree(module, Top)
  PROVE  PassedFree(module, f)
  <1>1. Top.case \in Nat /\ Top.field \in Nat /\ Top.field > Len(Cases[Top.case])
    BY LoopTypes DEF AtCaseEnd
  <1>2. ASSUME NEW c \in 1..Len(module[f.subject].cases),
               NEW k \in 1..Len(module[f.subject].cases[c]), Passed(f, c, k)
        PROVE  Free(module, NamesOf(module[f.subject].cases[c][k]))
    <2>1. c <= Top.case
      BY <1>1, <1>2 DEF Passed
    <2>2. /\ module[f.subject].cases = Cases
          /\ Len(Cases[c]) \in Nat
      BY ModuleTypes DEF Cases, IInv
    <2>3. Passed(Top, c, k)
      BY <1>1, <2>1, <2>2 DEF Passed
    <2> QED BY <2>3 DEF PassedFree
  <1> QED BY <1>2 DEF PassedFree

LEMMA AllPassed ==
  ASSUME NEW m, NEW f, f.subject \in Index, f.case \in Nat, PassedFree(m, f),
         Through(m, f), Len(m[f.subject].cases) \in Nat
  PROVE  ~InRing(m, f.subject)
  <1>1. ASSUME NEW c \in 1..Len(m[f.subject].cases),
               NEW k \in 1..Len(m[f.subject].cases[c])
        PROVE  Free(m, NamesOf(m[f.subject].cases[c][k]))
    <2>1. Passed(f, c, k)
      BY DEF Through, Passed
    <2> QED BY <2>1 DEF PassedFree
  <1> QED BY <1>1, OutOfRing

LEMMA DeclaredKnow ==
  ASSUME IInv, KnowInv,
         \/ DeclaredTooDeep \/ FieldResolve \/ FieldMeasure \/ FieldAdd
         \/ CaseEnd \/ DeclaredEnd
  PROVE  KnowInv'
  <1>0. /\ Top.op = "declared" /\ Top.op # "module" /\ phase = "run"
        /\ Top.subject \in Index
        /\ DeclaredKnows(module, table, Top)
        /\ Top \in AnyFrame /\ Top.got \in Seq(Values)
    <2>1. Running("declared")
      BY DEF DeclaredTooDeep, FieldResolve, FieldMeasure, FieldAdd, CaseEnd,
         DeclaredEnd, Measuring
    <2>2. Top.subject \in Index
      BY <2>1, TopTypes DEF Running, FrameOK, SubjectOK
    <2>3. DeclaredKnows(module, table, Top)
      BY <2>1, TopKnows DEF Running, Knows
    <2> QED BY <2>1, <2>2, <2>3, LoopTypes DEF Running
  <1>1. CASE DeclaredTooDeep
    BY <1>0, <1>1, KnowInvalid DEF DeclaredTooDeep
  <1>2. CASE FieldResolve
    <2> DEFINE f == Call("resolve", FieldAt(module, Top), 0)
    <2>1. Push(f) /\ InField(module, Top) /\ Top.got = <<>>
      BY <1>0, <1>2, LoopAt DEF FieldResolve
    <2>2. FieldAt(module, Top) \in Ref
      BY <1>0, <1>2, LoopTypes, LoopAt DEF FieldResolve
    <2>3. f \in AnyFrame /\ f.op = "resolve" /\ Asks(f) = NamesOf(FieldAt(module, Top))
      BY <2>2, ResolveCalled DEF FrameOK, Call, Asks
    <2>4. Knows(module, table, f)
      BY CallKnows
    <2> HIDE DEF f
    <2>5. WaitsType(module, Top, f)
      BY <1>0, <2>1, <2>3 DEF WaitsType
    <2>6. Waits(module, table, Top, f)
      BY <2>3, <2>5 DEF Waits
    <2> QED BY <1>0, <2>1, <2>3, <2>4, <2>6, KnowPush
  <1>3. CASE FieldMeasure
    <2>1. CASE Return(Invalid)
      BY <1>0, <2>1, KnowInvalid
    <2>2. CASE Top.got[1] # Invalid /\ Push(Call("value", Top.got[1], Top.depth + 1))
      <3> DEFINE f == Call("value", Top.got[1], Top.depth + 1)
      <3>1. Top.got[1] \in Values /\ Len(Top.got) = 1 /\ InField(module, Top)
        BY <1>0, <1>3, LoopAt DEF FieldMeasure
      <3>2. Top.got[1] \in Nat
        BY <2>2, <3>1 DEF Values
      <3>3. Top.depth + 1 \in 0..MaxDepth
        BY <1>0, <1>3, LoopTypes, ConstantTypes DEF FieldMeasure, Measuring
      <3>4. f \in AnyFrame /\ f.op = "value" /\ f.subject = Top.got[1]
        BY <3>2, <3>3, ValueFrame
      <3>5. Knows(module, table, f) /\ Push(f)
        BY <2>2, CallKnows
      <3> HIDE DEF f
      <3>6. WaitsValue(module, table, Top, f)
        BY <1>0, <2>2, <3>1, <3>4 DEF WaitsValue
      <3>7. Waits(module, table, Top, f)
        BY <3>4, <3>6 DEF Waits, Resolving
      <3> QED BY <1>0, <3>4, <3>5, <3>7, KnowPush
    <2> QED BY <1>3, <2>1, <2>2 DEF FieldMeasure
  <1>4. CASE FieldAdd
    <2>1. CASE Return(Invalid)
      BY <1>0, <2>1, KnowInvalid
    <2>2. CASE ~(Top.got[2] = Invalid \/ Top.payload + Top.got[2] > WordMax)
      <3> DEFINE f == [Top EXCEPT !.payload = @ + Top.got[2], !.field = @ + 1,
                                  !.got = <<>>]
      <3>1. /\ f.op = Top.op /\ f.subject = Top.subject /\ f.case = Top.case
            /\ f.field = Top.field + 1 /\ f.got = <<>>
        BY <1>0 DEF AnyFrame
      <3>2. Goto(f) /\ Len(Top.got) = 2 /\ Top.got # <<>>
        BY <1>0, <1>4, <2>2 DEF FieldAdd
      <3> HIDE DEF f
      <3>3. Free(module, NamesOf(FieldAt(module, Top)))
        BY <1>0, <2>2, <3>2 DEF DeclaredKnows, Means
      <3>4. PassedFree(module, f)
        BY <1>0, <3>1, <3>3, NextField DEF DeclaredKnows
      <3>5. Knows(module, table, f)
        BY <1>0, <3>1, <3>4 DEF Knows, DeclaredKnows
      <3> QED BY <1>0, <3>1, <3>2, <3>5, KnowLoop
    <2> QED BY <1>4, <2>1, <2>2 DEF FieldAdd
  <1>5. CASE CaseEnd
    <2> DEFINE f == [Top EXCEPT !.widest = Larger(@, Top.payload), !.payload = 0,
                                !.case = @ + 1, !.field = 1]
    <2>1. /\ f.op = Top.op /\ f.subject = Top.subject /\ f.case = Top.case + 1
          /\ f.field = 1 /\ f.got = Top.got
      BY <1>0 DEF AnyFrame
    <2>2. Goto(f) /\ AtCaseEnd
      BY <1>5 DEF CaseEnd
    <2> HIDE DEF f
    <2>3. Top.got = <<>>
      BY <1>0, <2>2, LoopAt DEF DeclaredKnows
    <2>4. PassedFree(module, f)
      BY <1>0, <2>1, <2>2, NextCase DEF DeclaredKnows
    <2>5. Knows(module, table, f)
      BY <1>0, <2>1, <2>3, <2>4 DEF Knows, DeclaredKnows
    <2> QED BY <1>0, <2>1, <2>2, <2>5, KnowLoop
  <1>6. CASE DeclaredEnd
    <2>1. module[Top.subject].tag + Top.widest \in Nat
      <3>1. Top.widest \in Nat
        BY <1>0, LoopTypes, ConstantTypes
      <3>2. module[Top.subject].tag \in Nat
        BY <1>0, ModuleTypes DEF IInv
      <3> QED BY <3>1, <3>2
    <2>2. Checked(module[Top.subject].tag + Top.widest) \in Values
      BY <2>1, CheckedValue
    <2>3. module[Top.subject].cases \in Seq(Seq(Ref))
      BY <1>0, ModuleTypes DEF IInv
    <2>4. Len(module[Top.subject].cases) \in Nat /\ Through(module, Top)
      BY <1>0, <1>6, <2>3, LoopAt DEF DeclaredEnd
    <2>5. ~InRing(module, Top.subject)
      BY <1>0, <2>4, LoopTypes, AllPassed DEF DeclaredKnows
    <2>6. ASSUME NEW v PROVE Answers(module, table, Top, v)
      BY <1>0, <2>5 DEF Answers, Resolving
    <2> QED BY <1>0, <1>6, <2>2, <2>6, KnowReturn DEF DeclaredEnd
  <1> QED BY <1>1, <1>2, <1>3, <1>4, <1>5, <1>6

-----------------------------------------------------------------------------
(***************************************************************************)
(* resolve_declarations.                                                   *)
(***************************************************************************)
LEMMA KnowInterning ==
  ASSUME IInv, KnowInv, phase = "run", Top.op = "module", Top.subject \in Index,
         Through(module, Top), Top.got = <<>>, module[Top.subject].kind # "alias",
         NEW e, e = Declared(Top.subject), HasRoom(e), table' = Interned(e),
         stack' = Append(stack, Call("value", Position(e), 0)),
         UNCHANGED <<module, phase, code>>
  PROVE  KnowInv'
  <1> DEFINE tab == Interned(e)
             v == Position(e)
             f == Call("value", v, 0)
  <1>1. Top.subject \in Nat /\ Top.subject < Count /\ 0 \in 0..MaxDepth
    BY ConstantTypes DEF Index
  <1>2. EntryOK(e, Len(table) + 1) /\ e.a = Top.subject
    BY <1>1 DEF Declared, EntryOK, Entry
  <1>3. /\ TableOK(tab) /\ Len(tab) \in Nat /\ Grown(table, tab)
        /\ v \in 1..Len(tab) /\ v \in Nat /\ tab[v] = e
    BY <1>2, TopKnows, InternGrows
  <1>4. Opaque(module, tab)
    BY <1>2, TopKnows, OpaqueGrows DEF KnowInv
  <1>5. table' = tab /\ stack' = Append(stack, f)
    OBVIOUS
  <1> HIDE DEF tab, v
  <1>6. Knowing(module, tab, stack)
    BY <1>3, TopKnows, KnowingGrows DEF KnowInv, IInv
  <1>7. f \in AnyFrame /\ f.op = "value" /\ f.subject = v
    BY <1>1, <1>3, ValueFrame
  <1>8. Knows(module, tab, f)
    BY CallKnows
  <1> HIDE DEF f
  <1>9. WaitsValue(module, tab, Top, f)
    BY <1>1, <1>3, <1>7 DEF WaitsValue
  <1>10. Waits(module, tab, stack[Len(stack)], f)
    BY <1>7, <1>9 DEF Waits, Resolving, Top
  <1>11. Knowing(module, tab, Append(stack, f))
    BY <1>6, <1>7, <1>8, <1>10, TopKnows, KnowingPushed
  <1> QED BY <1>4, <1>5, <1>11 DEF KnowInv

LEMMA ModuleKnow ==
  ASSUME IInv, KnowInv,
         \/ ResolveField \/ ResolveCaseEnd \/ ResolveAlias
         \/ InternDeclaration \/ CheckWidth \/ Accept
  PROVE  KnowInv'
  <1>0. /\ Top.op = "module" /\ phase = "run" /\ Top.subject \in 0..Count
        /\ ModuleKnows(module, table, Top)
        /\ Top \in AnyFrame /\ Top.got \in Seq(Values)
    <2>1. Running("module")
      BY DEF ResolveField, ResolveCaseEnd, ResolveAlias, InternDeclaration,
         CheckWidth, Accept
    <2>2. Top.subject \in 0..Count /\ Top \in AnyFrame /\ Top.got \in Seq(Values)
      BY <2>1, TopTypes DEF Running, FrameOK, SubjectOK, AnyFrame
    <2>3. ModuleKnows(module, table, Top)
      BY <2>1, TopKnows DEF Running, Knows
    <2> QED BY <2>1, <2>2, <2>3 DEF Running
  <1>1. ASSUME Top.subject < Count PROVE Top.subject \in Index
    BY <1>0, <1>1, ConstantTypes DEF Index
  <1>a. ASSUME NEW c, Refuse(c) PROVE KnowInv'
    BY <1>a DEF Refuse, KnowInv
  <1>2. CASE ResolveField
    <2>1. Top.subject < Count /\ Top.subject \in Index /\ InField(module, Top)
          /\ ~Through(module, Top) /\ FieldAt(module, Top) \in Ref
      BY <1>0, <1>1, <1>2, LoopAt, LoopTypes DEF ResolveField
    <2>2. CASE Top.got = <<>> /\ Push(Call("resolve", FieldAt(module, Top), 0))
      <3> DEFINE f == Call("resolve", FieldAt(module, Top), 0)
      <3>1. f \in AnyFrame /\ f.op = "resolve" /\ Asks(f) = NamesOf(FieldAt(module, Top))
        BY <2>1, ResolveCalled DEF FrameOK, Call, Asks
      <3>2. Knows(module, table, f)
        BY CallKnows
      <3> HIDE DEF f
      <3>3. WaitsType(module, Top, f)
        BY <1>0, <2>1, <2>2, <3>1 DEF WaitsType
      <3>4. Waits(module, table, Top, f)
        BY <3>1, <3>3 DEF Waits
      <3> QED BY <1>0, <2>2, <3>1, <3>2, <3>4, KnowPush DEF f
    <2>3. CASE Refuse("A0-CHECK-0012")
      BY <1>a, <2>3
    <2>4. CASE /\ Top.got # <<>> /\ Top.got # <<Invalid>>
               /\ Goto([Top EXCEPT !.field = @ + 1, !.got = <<>>])
      <3> DEFINE f == [Top EXCEPT !.field = @ + 1, !.got = <<>>]
      <3>1. /\ f.op = Top.op /\ f.subject = Top.subject /\ f.case = Top.case
            /\ f.field = Top.field + 1 /\ f.got = <<>>
        BY <1>0 DEF AnyFrame
      <3> HIDE DEF f
      <3>2. Top.got[1] # Invalid
        BY <1>0, <2>4 DEF ModuleKnows
      <3>3. ASSUME Measured(module) PROVE PassedFree(module, f)
        <4>1. /\ Top.got[1] \in 1..Len(table)
              /\ Clean(module, table, Top.got[1]) =>
                   Free(module, NamesOf(FieldAt(module, Top)))
          BY <1>0, <2>1, <2>4, <3>2 DEF ModuleKnows, Means
        <4>2. Clean(module, table, Top.got[1])
          BY <3>3, <4>1, TopKnows, CleanAtLast DEF KnowInv
        <4>3. PassedFree(module, Top)
          BY <1>0, <2>1, <3>3 DEF ModuleKnows
        <4> QED BY <1>0, <2>1, <3>1, <4>1, <4>2, <4>3, NextField
      <3>4. ModuleKnows(module, table, f)
        BY <1>0, <3>1, <3>3 DEF ModuleKnows
      <3>5. Knows(module, table, f)
        BY <1>0, <3>1, <3>4 DEF Knows
      <3> QED BY <1>0, <2>4, <3>1, <3>5, KnowLoop DEF f
    <2> QED BY <1>0, <1>2, <2>1, <2>2, <2>3, <2>4, LoopAt DEF ResolveField
  <1>3. CASE ResolveCaseEnd
    <2> DEFINE f == [Top EXCEPT !.case = @ + 1, !.field = 1]
    <2>1. /\ f.op = Top.op /\ f.subject = Top.subject /\ f.case = Top.case + 1
          /\ f.field = 1 /\ f.got = Top.got
      BY <1>0 DEF AnyFrame
    <2>2. Goto(f) /\ AtCaseEnd /\ Top.subject < Count /\ Top.subject \in Index
      BY <1>1, <1>3 DEF ResolveCaseEnd
    <2> HIDE DEF f
    <2>3. Top.got = <<>>
      BY <1>0, <2>2, LoopAt DEF ModuleKnows
    <2>4. Measured(module) => PassedFree(module, f)
      BY <1>0, <2>1, <2>2, NextCase DEF ModuleKnows
    <2>5. ModuleKnows(module, table, f)
      BY <1>0, <2>1, <2>3, <2>4 DEF ModuleKnows
    <2>6. Knows(module, table, f)
      BY <1>0, <2>1, <2>5 DEF Knows
    <2> QED BY <1>0, <2>1, <2>2, <2>6, KnowLoop
  <1>4. CASE ResolveAlias
    <2> DEFINE f == Call("value", 1, 0)
    <2>1. /\ Push(f) /\ Top.subject < Count /\ Top.subject \in Index
          /\ Through(module, Top) /\ Top.got = <<>>
          /\ module[Top.subject].kind = "alias"
      BY <1>0, <1>1, <1>4, LoopAt DEF ResolveAlias
    <2>2. f \in AnyFrame /\ f.op = "value"
      BY ValueFrame, ConstantTypes
    <2>3. Knows(module, table, f)
      BY CallKnows
    <2> HIDE DEF f
    <2>4. WaitsValue(module, table, Top, f)
      BY <1>0, <2>1, <2>2 DEF WaitsValue
    <2>5. Waits(module, table, Top, f)
      BY <2>2, <2>4 DEF Waits, Resolving
    <2> QED BY <1>0, <2>1, <2>2, <2>3, <2>5, KnowPush
  <1>5. CASE InternDeclaration
    <2>1. CASE Refuse("A0-CHECK-0014")
      BY <1>a, <2>1
    <2>2. Top.subject \in Index /\ Through(module, Top) /\ Top.got = <<>>
          /\ module[Top.subject].kind # "alias"
      BY <1>0, <1>1, <1>5, LoopAt DEF InternDeclaration
    <2> QED BY <1>0, <1>5, <2>1, <2>2, KnowInterning DEF InternDeclaration
  <1>6. CASE CheckWidth
    <2>1. CASE Refuse("A0-CHECK-0013")
      BY <1>a, <2>1
    <2>2. CASE Top.got # <<Invalid>> /\ Goto(Call("module", Top.subject + 1, 0))
      <3> DEFINE f == Call("module", Top.subject + 1, 0)
      <3>1. /\ Top.subject \in Index /\ Top.got # <<>>
            /\ Through(module, Top) /\ ~InField(module, Top)
        <4>1. Top.subject \in Index /\ Top.got # <<>> /\ AtEnd
          BY <1>1, <1>6 DEF CheckWidth
        <4> QED BY <1>0, <4>1, LoopAt
      <3>2. /\ f.op = "module" /\ f.subject = Top.subject + 1 /\ f.got = <<>>
            /\ f.case = 1 /\ f.field = 1
        BY DEF Call
      <3> HIDE DEF f
      <3>3. Top.got[1] # Invalid
        BY <1>0, <2>2, <3>1 DEF ModuleKnows
      <3>4. ASSUME module[Top.subject].kind # "alias" \/ Measured(module)
            PROVE  ~InRing(module, Top.subject)
        <4>1. module[Top.subject].kind # "alias" => ~InRing(module, Top.subject)
          BY <1>0, <3>1, <3>3 DEF ModuleKnows
        <4>2. ASSUME Measured(module) PROVE ~InRing(module, Top.subject)
          <5>1. module[Top.subject].cases \in Seq(Seq(Ref)) /\ Top.case \in Nat
            BY <1>0, <3>1, ModuleTypes, LoopTypes DEF IInv
          <5>2. Len(module[Top.subject].cases) \in Nat /\ PassedFree(module, Top)
            BY <1>0, <3>1, <4>2, <5>1 DEF ModuleKnows
          <5> QED BY <3>1, <5>1, <5>2, AllPassed
        <4> QED BY <3>4, <4>1, <4>2
      <3>5. PassedFree(module, f)
        BY <3>2 DEF PassedFree, Passed
      <3>6. ASSUME NEW d \in Index, d < f.subject,
                   module[d].kind # "alias" \/ Measured(module)
            PROVE  ~InRing(module, d)
        <4>1. d < Top.subject \/ d = Top.subject
          BY <3>1, <3>2, <3>6, ConstantTypes
        <4> QED BY <1>0, <3>4, <3>6, <4>1 DEF ModuleKnows
      <3>7. ModuleKnows(module, table, f)
        BY <3>2, <3>5, <3>6 DEF ModuleKnows
      <3>8. Knows(module, table, f)
        BY <3>2, <3>7 DEF Knows
      <3>9. f.op # "value" /\ f.op \notin Resolving /\ f.op # "declared"
        BY <3>2 DEF Resolving
      <3>10. Goto(f)
        BY <2>2 DEF f
      <3>11. Len(stack) > 1 => Waits(module, table, stack[Len(stack) - 1], f)
        BY <3>9 DEF Waits
      <3> QED BY <1>0, <3>8, <3>10, <3>11, KnowGoto
    <2> QED BY <1>6, <2>1, <2>2 DEF CheckWidth
  <1>7. CASE Accept
    BY <1>7 DEF Accept, Running, KnowInv, Top
  <1> QED BY <1>2, <1>3, <1>4, <1>5, <1>6, <1>7

LEMMA StepKnow == IInv /\ KnowInv /\ [Next]_vars => KnowInv'
  <1> SUFFICES ASSUME IInv, KnowInv, [Next]_vars PROVE KnowInv'
    OBVIOUS
  <1>1. CASE UNCHANGED vars
    BY <1>1 DEF KnowInv, vars, Top
  <1>2. CASE \/ ResolveName \/ ResolveBytes \/ ResolveArgument
             \/ ResolveDecision \/ ResolveOther
    BY <1>2, ResolveKnow
  <1>3. CASE ExpandAlias \/ ExpandName \/ ExpandTooDeep
    BY <1>3, ExpandKnow
  <1>4. CASE \/ ValueTooDeep \/ ValueBase \/ ValueArgument
             \/ ValueDecision \/ ValueDeclared
    BY <1>4, ValueKnow
  <1>5. CASE \/ DeclaredTooDeep \/ FieldResolve \/ FieldMeasure \/ FieldAdd
             \/ CaseEnd \/ DeclaredEnd
    BY <1>5, DeclaredKnow
  <1>6. CASE \/ ResolveField \/ ResolveCaseEnd \/ ResolveAlias
             \/ InternDeclaration \/ CheckWidth \/ Accept
    BY <1>6, ModuleKnow
  <1> QED BY <1>1, <1>2, <1>3, <1>4, <1>5, <1>6 DEF Next

LEMMA InitKnow == Init => KnowInv
  <1> SUFFICES ASSUME Init PROVE KnowInv
    OBVIOUS
  <1> DEFINE f == Call("module", 0, 0)
  <1>1. /\ f.op = "module" /\ f.subject = 0 /\ f.got = <<>>
        /\ f.case = 1 /\ f.field = 1
    BY DEF Call
  <1>2. /\ stack = <<f>> /\ Len(table) = 0 /\ phase = "run"
    BY DEF Init
  <1> HIDE DEF f
  <1>3. Opaque(module, table)
    BY <1>2 DEF Opaque
  <1>4. PassedFree(module, f)
    BY <1>1 DEF PassedFree, Passed
  <1>5. \A d \in Index : ~(d < f.subject)
    <2>1. \A d \in Index : ~(d < 0)
      BY ConstantTypes
    <2> QED BY <1>1, <2>1
  <1>6. Knows(module, table, f)
    BY <1>1, <1>4, <1>5 DEF Knows, ModuleKnows
  <1>7. Len(stack) = 1 /\ stack[1] = f
    BY <1>2
  <1>8. Knowing(module, table, stack)
    BY <1>6, <1>7 DEF Knowing
  <1> QED BY <1>2, <1>3, <1>8 DEF KnowInv

-----------------------------------------------------------------------------
(***************************************************************************)
(* How many aliases names lead to.                                         *)
(***************************************************************************)
LEMMA ReachGrows ==
  ASSUME NEW m, NEW a, NEW b, a \subseteq b
  PROVE  Reach(m, a) \subseteq Reach(m, b)
  BY DEF Reach, Leads

LEMMA RoomTypes ==
  ASSUME NEW m, NEW names
  PROVE  /\ Room(m, names) \in 0..Count
         /\ IsFiniteSet(Reach(m, names))
  <1>1. IsFiniteSet(Index) /\ Cardinality(Index) = Count
    BY FS_Interval, ConstantTypes DEF Index
  <1>2. Reach(m, names) \in SUBSET Index
    BY DEF Reach, Aliases
  <1>3. IsFiniteSet(Reach(m, names)) /\ Room(m, names) <= Count
    BY <1>1, <1>2, FS_Subset DEF Room
  <1>4. Room(m, names) \in Nat
    BY <1>3, FS_CardinalityType DEF Room
  <1> QED BY <1>3, <1>4, ConstantTypes

LEMMA RoomGrows ==
  ASSUME NEW m, NEW a, NEW b, a \subseteq b
  PROVE  Room(m, a) <= Room(m, b)
  BY ReachGrows, RoomTypes, FS_Subset DEF Room

Onward(m, d) == NamesOf(m[d].cases[1][1])

LEMMA NotFromItself ==
  ASSUME NEW m, NEW d \in Aliases(m), ~AliasesRing(m)
  PROVE  d \notin Reach(m, Onward(m, d))
  <1> SUFFICES ASSUME d \in Reach(m, Onward(m, d)) PROVE FALSE
    OBVIOUS
  <1> DEFINE S == {e \in Aliases(m) : d \in Reach(m, Onward(m, e))}
             C == Aliases(m) \ S
  <1>1. S \in SUBSET Aliases(m) /\ S # {}
    OBVIOUS
  <1>2. PICK e \in S : Leads(m, Onward(m, e)) \cap S = {}
    BY <1>1 DEF AliasesRing, Onward
  <1>3. Leads(m, Onward(m, e)) \subseteq C
    BY <1>2 DEF Leads
  <1>4. ASSUME NEW x \in C, NEW y \in Leads(m, Onward(m, x)) PROVE y \in C
    <2>1. y \in Aliases(m)
      BY DEF Leads
    <2>2. ASSUME y \in S PROVE FALSE
      <3>1. d \in Reach(m, Onward(m, y)) /\ d \notin Reach(m, Onward(m, x))
        BY <2>2
      <3>2. PICK D \in SUBSET Aliases(m) :
              Closed(m, D) /\ Leads(m, Onward(m, x)) \subseteq D /\ d \notin D
        BY <3>1 DEF Reach
      <3>3. Leads(m, Onward(m, y)) \subseteq D
        BY <3>2 DEF Closed, Onward
      <3> QED BY <3>1, <3>2, <3>3 DEF Reach
    <2> QED BY <2>1, <2>2
  <1>5. Closed(m, C)
    BY <1>4 DEF Closed, Onward
  <1>6. Reach(m, Onward(m, e)) \subseteq C
    BY <1>3, <1>5 DEF Reach
  <1> QED BY <1>6

LEMMA RoomShrinks ==
  ASSUME NEW m, NEW n, NEW d \in Leads(m, {n}), ~AliasesRing(m)
  PROVE  Room(m, Onward(m, d)) + 1 <= Room(m, {n})
  <1>1. d \in Aliases(m)
    BY DEF Leads
  <1>2. d \in Reach(m, {n})
    BY <1>1 DEF Reach
  <1>3. Reach(m, Onward(m, d)) \subseteq Reach(m, {n})
    BY DEF Reach, Closed, Onward
  <1>4. Reach(m, Onward(m, d)) \in SUBSET (Reach(m, {n}) \ {d})
    BY <1>1, <1>3, NotFromItself
  <1>5. /\ IsFiniteSet(Reach(m, {n}) \ {d})
        /\ Cardinality(Reach(m, {n}) \ {d}) = Room(m, {n}) - 1
    BY <1>2, RoomTypes, FS_RemoveElement DEF Room
  <1>6. Room(m, Onward(m, d)) <= Room(m, {n}) - 1
    <2>1. Room(m, Onward(m, d)) <= Cardinality(Reach(m, {n}) \ {d})
      BY <1>4, <1>5, FS_Subset DEF Room
    <2> QED BY <1>5, <2>1
  <1>7. Room(m, Onward(m, d)) \in Nat /\ Room(m, {n}) \in Nat
    BY RoomTypes, ConstantTypes
  <1> QED BY <1>6, <1>7

-----------------------------------------------------------------------------
(***************************************************************************)
(* How high the stack grows.                                               *)
(***************************************************************************)
StandInv ==
  /\ Stands(module, stack)
  /\ phase = "crashed" => AliasesRing(module)

LEMMA StackTypes ==
  ASSUME IInv
  PROVE  Len(stack) \in Nat /\ Len(stack) >= 1 /\ stack \in Seq(AnyFrame)
  BY ConstantTypes DEF IInv, StackOK

LEMMA TopStands ==
  ASSUME IInv, StandInv, ~AliasesRing(module)
  PROVE  Height(module, Len(stack), Top)
  BY StackTypes DEF StandInv, Stands, Top

LEMMA StandGoto ==
  ASSUME IInv, StandInv, phase = "run", NEW f, Goto(f),
         ~AliasesRing(module) => Height(module, Len(stack), f)
  PROVE  StandInv'
  <1> DEFINE t == Becomes(f)
  <1>1. /\ Len(t) = Len(stack) /\ t[Len(stack)] = f
        /\ \A k \in 1..Len(stack) : k # Len(stack) => t[k] = stack[k]
    BY StackTypes DEF Becomes
  <1> HIDE DEF t
  <1>2. Stands(module, t)
    BY <1>1 DEF StandInv, Stands
  <1>3. module' = module /\ stack' = t /\ phase' = "run"
    BY DEF Goto, t
  <1> QED BY <1>2, <1>3 DEF StandInv

\* Whatever the loops do to their counters, the frame stands where it stood.
LEMMA StandLoop ==
  ASSUME IInv, StandInv, phase = "run", NEW f, Goto(f),
         f.op = Top.op, f.subject = Top.subject, f.depth = Top.depth
  PROVE  StandInv'
  BY TopStands, StandGoto DEF Height, Asks

LEMMA StandingPushed ==
  ASSUME IInv, StandInv, NEW f,
         ~AliasesRing(module) => Height(module, Len(stack) + 1, f)
  PROVE  Stands(module, Append(stack, f))
  <1> DEFINE t == Append(stack, f)
  <1>1. /\ Len(t) = Len(stack) + 1 /\ t[Len(stack) + 1] = f
        /\ \A k \in 1..Len(stack) : t[k] = stack[k]
        /\ Len(stack) \in Nat
    BY StackTypes
  <1> HIDE DEF t
  <1>2. Stands(module, t)
    BY <1>1 DEF StandInv, Stands
  <1> QED BY <1>2 DEF t

LEMMA StandPush ==
  ASSUME IInv, StandInv, phase = "run", NEW f, Push(f),
         ~AliasesRing(module) =>
           Height(module, Len(stack) + 1, f) /\ Len(stack) < MaxStack
  PROVE  StandInv'
  <1>1. CASE stack' = Append(stack, f) /\ UNCHANGED <<module, phase, code, table>>
    BY <1>1, StandingPushed DEF StandInv
  <1>2. CASE Len(stack) = MaxStack /\ phase' = "crashed"
             /\ UNCHANGED <<module, code, table, stack>>
    <2>1. AliasesRing(module)
      BY <1>2, ConstantTypes
    <2> QED BY <1>2, <2>1 DEF StandInv
  <1> QED BY <1>1, <1>2 DEF Push

LEMMA PoppedShape ==
  ASSUME IInv, Top.op # "module", NEW v
  PROVE  /\ Len(Popped(v)) \in Nat /\ Len(Popped(v)) <= Len(stack)
         /\ \A k \in 1..Len(Popped(v)) :
              /\ Popped(v)[k].op = stack[k].op
              /\ Popped(v)[k].subject = stack[k].subject
              /\ Popped(v)[k].depth = stack[k].depth
  <1> DEFINE c == Caller
             s == SubSeq(stack, 1, c)
             g == [s[c] EXCEPT !.got = Append(@, v)]
             t == [s EXCEPT ![c] = g]
  <1>1. /\ stack \in Seq(AnyFrame) /\ Len(stack) \in Nat /\ Len(stack) > 1
        /\ c \in Nat /\ c >= 1 /\ c + 1 = Len(stack) /\ c \in 1..Len(stack)
    BY TopTypes, ConstantTypes DEF IInv, StackOK, Caller
  <1>2. s \in Seq(AnyFrame) /\ Len(s) = c /\ \A k \in 1..c : s[k] = stack[k]
    BY <1>1
  <1> HIDE DEF s
  <1>3. s[c] \in AnyFrame /\ s[c] = stack[c] /\ c \in 1..c
    BY <1>1, <1>2
  <1>4. g.op = stack[c].op /\ g.subject = stack[c].subject /\ g.depth = stack[c].depth
    BY <1>3 DEF AnyFrame
  <1> HIDE DEF g
  <1>5. /\ Len(t) = c /\ t[c] = g
        /\ \A k \in 1..c : k # c => t[k] = stack[k]
    BY <1>1, <1>2
  <1>6. Popped(v) = t
    BY DEF Popped, s, g, Caller
  <1> HIDE DEF t, c
  <1> QED BY <1>1, <1>4, <1>5, <1>6

LEMMA StandPopped ==
  ASSUME IInv, StandInv, Top.op # "module", NEW v, stack' = Popped(v),
         module' = module, phase' = "run"
  PROVE  StandInv'
  <1>1. ASSUME ~AliasesRing(module), NEW k \in 1..Len(Popped(v))
        PROVE  Height(module, k, Popped(v)[k])
    <2>1. k \in 1..Len(stack) /\ Height(module, k, stack[k])
      BY <1>1, StackTypes, PoppedShape DEF StandInv, Stands
    <2> QED BY <2>1, PoppedShape DEF Height, Asks
  <1>2. Stands(module, Popped(v))
    BY <1>1 DEF Stands
  <1> QED BY <1>2 DEF StandInv

LEMMA StandReturn ==
  ASSUME IInv, StandInv, phase = "run", NEW v, Return(v), Top.op # "module"
  PROVE  StandInv'
  BY StandPopped DEF Return

LEMMA StandInterned ==
  ASSUME IInv, StandInv, phase = "run", NEW e, ReturnInterned(e), Top.op # "module"
  PROVE  StandInv'
  BY StandPopped, StandReturn DEF ReturnInterned

\* A call to measure or to resolve fits.
LEMMA StandMeasure ==
  ASSUME IInv, StandInv, phase = "run", NEW f, Push(f),
         f.op \in {"value", "declared"},
         \/ Top.op \in {"value", "declared"} /\ f.depth = Top.depth + 1
         \/ Len(stack) = 1 /\ f.depth = 0,
         f.depth \in 0..MaxDepth
  PROVE  StandInv'
  <1>1. ASSUME ~AliasesRing(module)
        PROVE  Height(module, Len(stack) + 1, f) /\ Len(stack) < MaxStack
    <2>1. Len(stack) + 1 <= 2 + f.depth
      <3>1. Top.depth \in Nat /\ Len(stack) \in Nat
        BY TopTypes, StackTypes, ConstantTypes DEF AnyFrame
      <3>2. CASE Top.op \in {"value", "declared"} /\ f.depth = Top.depth + 1
        <4>1. Len(stack) <= 2 + Top.depth
          BY <1>1, <3>2, TopStands DEF Height
        <4> QED BY <3>1, <3>2, <4>1
      <3>3. CASE Len(stack) = 1 /\ f.depth = 0
        BY <3>3
      <3> QED BY <3>2, <3>3
    <2>2. Len(stack) < MaxStack
      BY <2>1, StackTypes, ConstantTypes, StackAssumption
    <2> QED BY <2>1, <2>2 DEF Height
  <1> QED BY <1>1, StandPush

LEMMA StandResolve ==
  ASSUME IInv, StandInv, phase = "run", NEW f, Push(f), f.op = "resolve",
         \/ Top.op = "declared" /\ Top.depth < MaxDepth
         \/ Len(stack) = 1
  PROVE  StandInv'
  <1>1. ASSUME ~AliasesRing(module)
        PROVE  Height(module, Len(stack) + 1, f) /\ Len(stack) < MaxStack
    <2>1. Len(stack) + 1 <= MaxDepth + 2
      <3>1. Top.depth \in Nat /\ Len(stack) \in Nat
        BY TopTypes, StackTypes, ConstantTypes DEF AnyFrame
      <3>2. CASE Top.op = "declared" /\ Top.depth < MaxDepth
        <4>1. Len(stack) <= 2 + Top.depth
          BY <1>1, <3>2, TopStands DEF Height
        <4> QED BY <3>1, <3>2, <4>1, ConstantTypes
      <3>3. CASE Len(stack) = 1
        BY <3>3, ConstantTypes
      <3> QED BY <3>2, <3>3
    <2>2. Len(stack) < MaxStack
      BY <2>1, StackTypes, ConstantTypes, StackAssumption
    <2>3. Room(module, Asks(f)) \in 0..Count
      BY RoomTypes
    <2>4. Len(stack) + 1 + Room(module, Asks(f)) <= MaxDepth + Count + 2
      BY <2>1, <2>3, StackTypes, ConstantTypes
    <2> QED BY <2>2, <2>4 DEF Height
  <1> QED BY <1>1, StandPush

LEMMA ResolveStand ==
  ASSUME IInv, StandInv,
         \/ ResolveName \/ ResolveBytes \/ ResolveArgument
         \/ ResolveDecision \/ ResolveOther
  PROVE  StandInv'
  <1> DEFINE r == Top.subject
  <1>0. /\ Top.op = "resolve" /\ Top.op # "module"
        /\ r \in Ref /\ phase = "run" /\ Asks(Top) = NamesOf(r)
        /\ Room(module, NamesOf(r)) \in Nat /\ Len(stack) \in Nat
    BY ResolveTypes, StackTypes, RoomTypes, ConstantTypes DEF ResolveName,
       ResolveBytes, ResolveArgument, ResolveDecision, ResolveOther, Running, Asks
  <1>1. ASSUME ~AliasesRing(module)
        PROVE  Len(stack) + Room(module, NamesOf(r)) <= MaxDepth + Count + 2
    BY <1>0, <1>1, TopStands DEF Height
  <1>2. CASE ResolveName
    <2> DEFINE f == Call("expand", r.names[1], 0)
    <2>1. Goto(f) /\ Asks(f) = NamesOf(r) /\ f.op = "expand"
      BY <1>0, <1>2, NamesOfRef DEF ResolveName, Asks, Call
    <2> HIDE DEF f, r
    <2>2. ~AliasesRing(module) => Height(module, Len(stack), f)
      <3>1. ASSUME ~AliasesRing(module)
            PROVE  Len(stack) + Room(module, Asks(f)) <= MaxDepth + Count + 3
        BY <1>0, <1>1, <2>1, <3>1, ConstantTypes
      <3> QED BY <2>1, <3>1 DEF Height
    <2> QED BY <1>0, <2>1, <2>2, StandGoto
  <1>3. CASE ResolveArgument
    <2> DEFINE n == r.names[Len(Top.got) + 1]
               f == Call("expand", n, 0)
    <2>1. Push(f) /\ r.form = "applied" /\ Len(r.names) = 2 /\ Len(Top.got) \in {0, 1}
      <3>1. \A k \in Nat : k < 2 => k \in {0, 1}
        OBVIOUS
      <3>2. Len(Top.got) \in Nat
        BY <1>0, ResolveTypes
      <3> QED BY <1>3, <3>1, <3>2 DEF ResolveArgument
    <2>2. n \in {r.names[1], r.names[2]}
      <3>1. \A k \in {0, 1} : k + 1 \in {1, 2}
        OBVIOUS
      <3>2. Len(Top.got) + 1 \in {1, 2}
        BY <2>1, <3>1
      <3> QED BY <3>2
    <2>3. {n} \subseteq NamesOf(r)
      BY <1>0, <2>1, <2>2, NamesOfRef
    <2>4. f.op = "expand" /\ Asks(f) = {n}
      BY DEF Call, Asks
    <2> HIDE DEF f, n, r
    <2>5. Room(module, {n}) <= Room(module, NamesOf(r)) /\ Room(module, {n}) \in Nat
      BY <2>3, RoomGrows, RoomTypes, ConstantTypes
    <2>6. ASSUME ~AliasesRing(module)
          PROVE  /\ Len(stack) + 1 + Room(module, Asks(f)) <= MaxDepth + Count + 3
                 /\ Len(stack) < MaxStack
      <3>1. Len(stack) + Room(module, NamesOf(r)) <= MaxDepth + Count + 2
        BY <1>1, <2>6
      <3> QED BY <1>0, <2>4, <2>5, <3>1, ConstantTypes, StackAssumption
    <2>7. ~AliasesRing(module) =>
            Height(module, Len(stack) + 1, f) /\ Len(stack) < MaxStack
      BY <2>4, <2>6 DEF Height
    <2> QED BY <1>0, <2>1, <2>7, StandPush
  <1>4. CASE ResolveBytes \/ ResolveDecision \/ ResolveOther
    BY <1>0, <1>4, StandReturn, StandInterned
       DEF ResolveBytes, ResolveDecision, ResolveOther
  <1> QED BY <1>2, <1>3, <1>4

LEMMA ExpandStand ==
  ASSUME IInv, StandInv, ExpandAlias \/ ExpandName \/ ExpandTooDeep
  PROVE  StandInv'
  <1> DEFINE n == Top.subject
  <1>0. /\ Top.op = "expand" /\ Top.op # "module" /\ phase = "run"
        /\ Asks(Top) = {n} /\ Room(module, {n}) \in Nat /\ Len(stack) \in Nat
    BY StackTypes, RoomTypes, ConstantTypes DEF ExpandAlias, ExpandName,
       ExpandTooDeep, Running, Asks
  <1>1. CASE ExpandAlias
    <2>1. PICK d \in AliasFound(n) :
            IF Target(d).form = "named"
            THEN Goto(Call("expand", Target(d).names[1], Top.depth + 1))
            ELSE Goto(Call("resolve", Target(d), 0))
      BY <1>1 DEF ExpandAlias
    <2>2. d \in Leads(module, {n}) /\ d \in Index /\ module[d].kind = "alias"
      BY DEF AliasFound, Found, Leads, Aliases
    <2>3. Target(d) \in Ref /\ Onward(module, d) = NamesOf(Target(d))
      BY <2>2, ModuleTypes DEF IInv, Target, Onward
    <2> HIDE DEF n
    <2>4. ASSUME ~AliasesRing(module)
          PROVE  Len(stack) + Room(module, NamesOf(Target(d))) <= MaxDepth + Count + 2
      <3>1. Len(stack) + Room(module, {n}) <= MaxDepth + Count + 3
        BY <1>0, <2>4, TopStands DEF Height
      <3>2. Room(module, NamesOf(Target(d))) + 1 <= Room(module, {n})
        BY <2>2, <2>3, <2>4, RoomShrinks
      <3>3. Room(module, NamesOf(Target(d))) \in Nat
        BY RoomTypes, ConstantTypes
      <3> QED BY <1>0, <3>1, <3>2, <3>3, ConstantTypes
    <2>5. ASSUME NEW f, Goto(f), f.op \in Resolving, Asks(f) = NamesOf(Target(d))
          PROVE  StandInv'
      <3>1. ASSUME ~AliasesRing(module) PROVE Height(module, Len(stack), f)
        <4>1. Room(module, Asks(f)) \in Nat
          BY RoomTypes, ConstantTypes
        <4>2. Len(stack) + Room(module, Asks(f)) <= MaxDepth + Count + 2
          BY <2>4, <2>5, <3>1
        <4>3. Len(stack) + Room(module, Asks(f)) <= MaxDepth + Count + 3
          BY <1>0, <4>1, <4>2, ConstantTypes
        <4> QED BY <2>5, <4>2, <4>3 DEF Height, Resolving
      <3> QED BY <1>0, <2>5, <3>1, StandGoto
    <2>6. CASE Target(d).form = "named"
      <3> DEFINE f == Call("expand", Target(d).names[1], Top.depth + 1)
      <3>1. f.op \in Resolving /\ Asks(f) = {Target(d).names[1]}
        BY DEF Call, Asks, Resolving
      <3>2. Goto(f) /\ Asks(f) = NamesOf(Target(d))
        BY <2>1, <2>3, <2>6, <3>1, NamesOfRef
      <3> HIDE DEF f
      <3> QED BY <2>5, <3>1, <3>2
    <2>7. CASE Target(d).form # "named"
      <3> DEFINE f == Call("resolve", Target(d), 0)
      <3>1. f.op \in Resolving /\ Asks(f) = NamesOf(Target(d))
        BY DEF Call, Asks, Resolving
      <3>2. Goto(f)
        BY <2>1, <2>7
      <3> HIDE DEF f
      <3> QED BY <2>5, <3>1, <3>2
    <2> QED BY <2>6, <2>7
  <1>2. CASE ExpandName
    BY <1>0, <1>2, StandReturn, StandInterned DEF ExpandName
  <1>3. CASE ExpandTooDeep
    BY <1>0, <1>3, StandReturn DEF ExpandTooDeep
  <1> QED BY <1>1, <1>2, <1>3

\* One level further down.
LEMMA DeeperBudget ==
  ASSUME IInv, Top.depth < MaxDepth
  PROVE  Top.depth + 1 \in 0..MaxDepth
  BY TopTypes, ConstantTypes DEF AnyFrame

LEMMA ValueStand ==
  ASSUME IInv, StandInv,
         \/ ValueTooDeep \/ ValueBase \/ ValueArgument
         \/ ValueDecision \/ ValueDeclared
  PROVE  StandInv'
  <1>0. Top.op = "value" /\ Top.op # "module" /\ phase = "run"
    BY DEF ValueTooDeep, ValueBase, ValueArgument, ValueDecision, ValueDeclared,
       Running
  <1>1. ASSUME NEW op \in {"value", "declared"}, NEW x,
               Push(Call(op, x, Top.depth + 1)), Top.depth < MaxDepth
        PROVE  StandInv'
    <2> DEFINE f == Call(op, x, Top.depth + 1)
    <2>1. f.op = op /\ f.depth = Top.depth + 1 /\ Push(f)
      BY <1>1 DEF Call
    <2> HIDE DEF f
    <2>2. f.depth \in 0..MaxDepth
      BY <1>1, <2>1, DeeperBudget
    <2> QED BY <1>0, <2>1, <2>2, StandMeasure
  <1>2. CASE ValueTooDeep \/ ValueBase \/ ValueDecision
    BY <1>0, <1>2, StandReturn DEF ValueTooDeep, ValueBase, ValueDecision
  <1>3. CASE ValueArgument
    BY <1>1, <1>3 DEF ValueArgument, Measurable
  <1>4. CASE ValueDeclared
    BY <1>0, <1>1, <1>4, StandReturn DEF ValueDeclared, Measurable
  <1> QED BY <1>2, <1>3, <1>4

LEMMA DeclaredStand ==
  ASSUME IInv, StandInv,
         \/ DeclaredTooDeep \/ FieldResolve \/ FieldMeasure \/ FieldAdd
         \/ CaseEnd \/ DeclaredEnd
  PROVE  StandInv'
  <1>0. Top.op = "declared" /\ Top.op # "module" /\ phase = "run" /\ Top \in AnyFrame
    BY TopTypes DEF DeclaredTooDeep, FieldResolve, FieldMeasure, FieldAdd, CaseEnd,
       DeclaredEnd, Measuring, Running
  <1>1. CASE DeclaredTooDeep \/ DeclaredEnd
    BY <1>0, <1>1, StandReturn DEF DeclaredTooDeep, DeclaredEnd
  <1>2. CASE FieldResolve
    <2> DEFINE f == Call("resolve", Cases[Top.case][Top.field], 0)
    <2>1. Push(f) /\ f.op = "resolve" /\ Top.depth < MaxDepth
      BY <1>2 DEF FieldResolve, Measuring, Call
    <2> HIDE DEF f
    <2> QED BY <1>0, <2>1, StandResolve
  <1>3. CASE FieldMeasure
    <2>1. CASE Return(Invalid)
      BY <1>0, <2>1, StandReturn
    <2>2. CASE Push(Call("value", Top.got[1], Top.depth + 1))
      <3> DEFINE f == Call("value", Top.got[1], Top.depth + 1)
      <3>1. f.op = "value" /\ f.depth = Top.depth + 1 /\ Push(f)
        BY <2>2 DEF Call
      <3> HIDE DEF f
      <3>2. f.depth \in 0..MaxDepth
        BY <1>3, <3>1, DeeperBudget DEF FieldMeasure, Measuring
      <3> QED BY <1>0, <3>1, <3>2, StandMeasure
    <2> QED BY <1>3, <2>1, <2>2 DEF FieldMeasure
  <1>4. CASE FieldAdd
    <2> DEFINE f == [Top EXCEPT !.payload = @ + Top.got[2], !.field = @ + 1,
                                !.got = <<>>]
    <2>1. f.op = Top.op /\ f.subject = Top.subject /\ f.depth = Top.depth
      BY <1>0 DEF AnyFrame
    <2>2. Return(Invalid) \/ Goto(f)
      BY <1>4 DEF FieldAdd
    <2> HIDE DEF f
    <2> QED BY <1>0, <2>1, <2>2, StandReturn, StandLoop
  <1>5. CASE CaseEnd
    <2> DEFINE f == [Top EXCEPT !.widest = Larger(@, Top.payload), !.payload = 0,
                                !.case = @ + 1, !.field = 1]
    <2>1. f.op = Top.op /\ f.subject = Top.subject /\ f.depth = Top.depth
      BY <1>0 DEF AnyFrame
    <2>2. Goto(f)
      BY <1>5 DEF CaseEnd
    <2> HIDE DEF f
    <2> QED BY <1>0, <2>1, <2>2, StandLoop
  <1> QED BY <1>1, <1>2, <1>3, <1>4, <1>5

\* Nothing calls resolve_declarations.
LEMMA ModuleAlone ==
  ASSUME IInv, Top.op = "module"
  PROVE  Len(stack) = 1
  <1>1. ASSUME Len(stack) > 1 PROVE FALSE
    <2>1. Len(stack) - 1 \in 1..(Len(stack) - 1)
      BY <1>1, StackTypes
    <2>2. Follows(stack[Len(stack) - 1], stack[(Len(stack) - 1) + 1])
      BY <2>1 DEF IInv, StackOK
    <2>3. (Len(stack) - 1) + 1 = Len(stack)
      BY StackTypes
    <2> QED BY <2>2, <2>3 DEF Follows, Top
  <1>2. \A n \in Nat : n >= 1 /\ ~(n > 1) => n = 1
    OBVIOUS
  <1> QED BY <1>1, <1>2, StackTypes

LEMMA ModuleStand ==
  ASSUME IInv, StandInv,
         \/ ResolveField \/ ResolveCaseEnd \/ ResolveAlias
         \/ InternDeclaration \/ CheckWidth \/ Accept
  PROVE  StandInv'
  <1>0. Top.op = "module" /\ phase = "run" /\ Len(stack) = 1 /\ Top \in AnyFrame
    <2>1. Running("module")
      BY DEF ResolveField, ResolveCaseEnd, ResolveAlias, InternDeclaration,
         CheckWidth, Accept
    <2> QED BY <2>1, ModuleAlone, TopTypes DEF Running
  <1>a. ASSUME NEW c, Refuse(c) PROVE StandInv'
    BY <1>a DEF Refuse, StandInv
  <1>1. CASE ResolveField
    <2> DEFINE f == Call("resolve", Cases[Top.case][Top.field], 0)
               g == [Top EXCEPT !.field = @ + 1, !.got = <<>>]
    <2>1. f.op = "resolve"
      BY DEF Call
    <2>2. g.op = Top.op /\ g.subject = Top.subject /\ g.depth = Top.depth
      BY <1>0 DEF AnyFrame
    <2>3. Push(f) \/ Refuse("A0-CHECK-0012") \/ Goto(g)
      BY <1>1 DEF ResolveField
    <2> HIDE DEF f, g
    <2> QED BY <1>0, <1>a, <2>1, <2>2, <2>3, StandResolve, StandLoop
  <1>2. CASE ResolveCaseEnd
    <2> DEFINE f == [Top EXCEPT !.case = @ + 1, !.field = 1]
    <2>1. f.op = Top.op /\ f.subject = Top.subject /\ f.depth = Top.depth
      BY <1>0 DEF AnyFrame
    <2>2. Goto(f)
      BY <1>2 DEF ResolveCaseEnd
    <2> HIDE DEF f
    <2> QED BY <1>0, <2>1, <2>2, StandLoop
  <1>3. CASE ResolveAlias
    <2> DEFINE f == Call("value", 1, 0)
    <2>1. Push(f) /\ f.op = "value" /\ f.depth = 0 /\ f.depth \in 0..MaxDepth
      BY <1>3, ConstantTypes DEF ResolveAlias, Call
    <2> HIDE DEF f
    <2> QED BY <1>0, <2>1, StandMeasure
  <1>4. CASE InternDeclaration
    <2> DEFINE f == Call("value", Position(Declared(Top.subject)), 0)
    <2>1. CASE Refuse("A0-CHECK-0014")
      BY <1>a, <2>1
    <2>2. CASE stack' = Append(stack, f) /\ UNCHANGED <<module, phase, code>>
      <3>1. f.op = "value" /\ f.depth = 0
        BY DEF Call
      <3> HIDE DEF f
      <3>2. Height(module, Len(stack) + 1, f)
        BY <1>0, <3>1 DEF Height
      <3>3. Stands(module, Append(stack, f))
        BY <3>2, StandingPushed
      <3> QED BY <1>0, <2>2, <3>3 DEF StandInv
    <2> QED BY <1>4, <2>1, <2>2 DEF InternDeclaration
  <1>5. CASE CheckWidth
    <2> DEFINE f == Call("module", Top.subject + 1, 0)
    <2>1. f.op = "module"
      BY DEF Call
    <2>2. Refuse("A0-CHECK-0013") \/ Goto(f)
      BY <1>5 DEF CheckWidth
    <2> HIDE DEF f
    <2>3. Height(module, Len(stack), f)
      BY <2>1 DEF Height
    <2> QED BY <1>0, <1>a, <2>2, <2>3, StandGoto
  <1>6. CASE Accept
    BY <1>6 DEF Accept, StandInv
  <1> QED BY <1>1, <1>2, <1>3, <1>4, <1>5, <1>6

LEMMA StepStand == IInv /\ StandInv /\ [Next]_vars => StandInv'
  <1> SUFFICES ASSUME IInv, StandInv, [Next]_vars PROVE StandInv'
    OBVIOUS
  <1>1. CASE UNCHANGED vars
    BY <1>1 DEF StandInv, vars
  <1>2. CASE \/ ResolveName \/ ResolveBytes \/ ResolveArgument
             \/ ResolveDecision \/ ResolveOther
    BY <1>2, ResolveStand
  <1>3. CASE ExpandAlias \/ ExpandName \/ ExpandTooDeep
    BY <1>3, ExpandStand
  <1>4. CASE \/ ValueTooDeep \/ ValueBase \/ ValueArgument
             \/ ValueDecision \/ ValueDeclared
    BY <1>4, ValueStand
  <1>5. CASE \/ DeclaredTooDeep \/ FieldResolve \/ FieldMeasure \/ FieldAdd
             \/ CaseEnd \/ DeclaredEnd
    BY <1>5, DeclaredStand
  <1>6. CASE \/ ResolveField \/ ResolveCaseEnd \/ ResolveAlias
             \/ InternDeclaration \/ CheckWidth \/ Accept
    BY <1>6, ModuleStand
  <1> QED BY <1>1, <1>2, <1>3, <1>4, <1>5, <1>6 DEF Next

LEMMA InitStand == Init => StandInv
  <1> SUFFICES ASSUME Init PROVE StandInv
    OBVIOUS
  <1> DEFINE f == Call("module", 0, 0)
  <1>1. f.op = "module"
    BY DEF Call
  <1>2. Len(stack) = 1 /\ stack[1] = f /\ phase = "run"
    BY DEF Init
  <1> HIDE DEF f
  <1>3. Stands(module, stack)
    BY <1>1, <1>2 DEF Stands, Height
  <1> QED BY <1>2, <1>3 DEF StandInv

-----------------------------------------------------------------------------
(***************************************************************************)
(* What the invariants say in the words of the model.                      *)
(***************************************************************************)
LEMMA NoneInRing ==
  ASSUME IInv, KnowInv, phase = "done"
  PROVE  \A d \in Index : ~InRing(module, d)
  <1>1. ModuleKnows(module, table, Top) /\ Top.subject = Count
    BY TopKnows DEF KnowInv, Knows
  <1>2. \A d \in Index : d < Top.subject
    BY <1>1, ConstantTypes DEF Index
  <1>3. Measured(module)
    BY <1>1, <1>2 DEF ModuleKnows, Measured
  <1> QED BY <1>1, <1>2, <1>3 DEF ModuleKnows

\* What the layout calls a reference is one.
LEMMA LayoutRefers ==
  ASSUME module \in Modules, NEW d \in Index, NEW e,
         e \in Layout!Resolved(Surface, Layout!Mentioned(Surface, d))
  PROVE  Refers(module, d, e)
  <1>1. /\ e \in Index
        /\ Surface[e].name = module[e].name /\ Surface[e].kind = module[e].kind
    BY DEF Layout!Resolved, Layout!Index, Index, Surface
  <1>2. /\ module[e].name \in Layout!Mentioned(Surface, d)
        /\ module[e].kind = "alias" \/ module[e].name \notin Builtin
    BY <1>1 DEF Layout!Resolved
  <1>3. PICK r \in Refs(d) : module[e].name \in NamesOf(r)
    BY <1>2 DEF Layout!Mentioned, Surface
  <1>4. /\ module[d].cases \in Seq(Seq(Ref))
        /\ DOMAIN module[d].cases = 1..Len(module[d].cases)
        /\ \A c \in 1..Len(module[d].cases) :
             DOMAIN module[d].cases[c] = 1..Len(module[d].cases[c])
    BY ModuleTypes
  <1>5. PICK c \in 1..Len(module[d].cases) :
          \E k \in DOMAIN module[d].cases[c] : r = module[d].cases[c][k]
    BY <1>3, <1>4 DEF Refs
  <1>6. PICK k \in 1..Len(module[d].cases[c]) : r = module[d].cases[c][k]
    BY <1>4, <1>5
  <1>7. e \in Referred(module, NamesOf(module[d].cases[c][k]))
    BY <1>1, <1>2, <1>3, <1>6 DEF Referred
  <1> QED BY <1>7 DEF Refers

LEMMA DoneIsFormed ==
  ASSUME IInv, KnowInv, phase = "done"
  PROVE  Layout!Formed(Surface)
  <1> SUFFICES ASSUME NEW S \in (SUBSET Index) \ {{}},
                      \A d \in S :
                        Layout!Resolved(Surface, Layout!Mentioned(Surface, d)) \cap S # {}
               PROVE  FALSE
    BY DEF Layout!Formed, Layout!Index, Index
  <1>1. Ringed(module, S)
    BY LayoutRefers DEF IInv, Ringed
  <1>2. PICK d \in S : TRUE
    OBVIOUS
  <1>3. InRing(module, d) /\ d \in Index
    BY <1>1 DEF InRing
  <1> QED BY <1>3, NoneInRing

LEMMA RingOfAliases == AliasesRing(module) => AliasRing
  <1> SUFFICES ASSUME NEW S \in SUBSET Aliases(module), S # {},
                      \A d \in S : Leads(module, Onward(module, d)) \cap S # {}
               PROVE  AliasRing
    BY DEF AliasesRing, Onward
  <1>1. ASSUME NEW d \in S
        PROVE  \E n \in NamesOf(Target(d)) : Found(n) \cap S # {}
    <2>1. PICK e \in S : e \in Leads(module, Onward(module, d))
      OBVIOUS
    <2>2. e \in Index /\ module[e].name \in NamesOf(Target(d))
      BY <2>1 DEF Leads, Aliases, Onward, Target
    <2>3. e \in Found(module[e].name)
      BY <2>2 DEF Found
    <2> QED BY <2>2, <2>3
  <1>2. S \in (SUBSET {d \in Index : module[d].kind = "alias"}) \ {{}}
    BY DEF Aliases
  <1> QED BY <1>1, <1>2 DEF AliasRing

(***************************************************************************)
(* RingsAreFound: a module that is accepted has no ring of declarations,   *)
(* which is what the declaration order of seki_core.c relies on            *)
(* (TypeLayout's assumption); and with room for MaxDepth + Count + 3 calls *)
(* seki_types.c exhausts the host stack only for aliases in a ring, for    *)
(* every module, capacity and budget.                                      *)
(***************************************************************************)
THEOREM RingsAreRefused == Spec => []RingsAreFound
  <1>1. IInv /\ KnowInv /\ StandInv => RingsAreFound
    BY DoneIsFormed, RingOfAliases DEF StandInv, RingsAreFound
  <1>2. IInv /\ KnowInv /\ StandInv /\ [Next]_vars => KnowInv' /\ StandInv'
    BY StepKnow, StepStand
  <1>3. Init => KnowInv /\ StandInv
    BY InitKnow, InitStand
  <1> QED BY <1>1, <1>2, <1>3, Invariant, PTL DEF Spec

-----------------------------------------------------------------------------
(***************************************************************************)
(* The check ends.                                                         *)
(*                                                                         *)
(* Every call has four numbers that say what is left of it: what gets      *)
(* smaller first, the cases left, the fields left of its case, the calls   *)
(* left for its field.  A call of a type has the first number only, and    *)
(* what is no call yet is above every call that can be made.  So a step of *)
(* a loop makes the numbers of the innermost call smaller, a call replaces *)
(* those of none, and a return counts for the caller: of the numbers of    *)
(* the stack, read from the outermost call, the first that changes gets    *)
(* smaller.                                                                *)
(***************************************************************************)
Short(n, m) == IF n < m THEN m - n ELSE 0

CasesLeft(m, f) == Short(f.case, Len(m[f.subject].cases) + 1)

FieldsLeft(m, f) ==
  IF f.case <= Len(m[f.subject].cases)
  THEN Short(f.field, Len(m[f.subject].cases[f.case]) + 1) ELSE 0

CallsLeft(f) == Short(Len(f.got), 3)

Looping(f) == f.op = "declared" \/ (f.op = "module" /\ f.subject < Count)

Lead(f) ==
  CASE f.op = "module" -> Count - f.subject
    [] f.op = "declared" -> 0
    [] f.op = "expand" -> 4 + (MaxDepth - f.depth)
    [] f.op = "resolve" -> IF f.subject.form = "named" THEN MaxDepth + 5 ELSE CallsLeft(f)
    [] f.op = "value" -> CallsLeft(f)

Ahead(m, f) ==
  IF Looping(f) THEN <<Lead(f), CasesLeft(m, f), FieldsLeft(m, f), CallsLeft(f)>>
                ELSE <<Lead(f), 0, 0, 0>>

NoCall == <<MaxDepth + 6, 0, 0, 0>>

Left(m, s, k) == IF k <= Len(s) THEN Ahead(m, s[k]) ELSE NoCall

Counts == Nat \X Nat \X Nat \X Nat

Less(a, b) ==
  \E i \in 1..4 : a[i] < b[i] /\ \A j \in 1..(i - 1) : a[j] = b[j]

\* From the stack s to the stack t.
Falls(m, s, t) ==
  \E k \in 1..MaxStack :
    /\ Less(Left(m, t, k), Left(m, s, k))
    /\ \A j \in 1..(k - 1) : Left(m, t, j) = Left(m, s, j)

CheckIsBounded ==
  /\ [](\A k \in 1..MaxStack : Left(module, stack, k) \in Counts)
  /\ [][ /\ phase = "run"
         /\ module' = module
         /\ phase' = "run" => Falls(module, stack, stack') ]_vars

\* What a frame of an invariant state is made of.
LEMMA FrameTypes ==
  ASSUME NEW n, NEW f, FrameOK(f, n)
  PROVE  /\ f.op \in Ops /\ f.depth \in 0..MaxDepth
         /\ f.case \in Nat /\ f.field \in Nat
         /\ Len(f.got) \in Nat
         /\ f.op = "module" => f.subject \in 0..Count
         /\ Looping(f) => f.subject \in Index
  BY ConstantTypes DEF FrameOK, AnyFrame, SubjectOK, Looping, Index

LEMMA FirstTypes ==
  ASSUME NEW n, NEW f, FrameOK(f, n)
  PROVE  /\ Lead(f) \in Nat
         /\ f.op # "module" => Lead(f) < MaxDepth + 6
  <1>1. CallsLeft(f) \in 0..3
    BY FrameTypes DEF CallsLeft, Short
  <1>2. /\ f.op \in Ops /\ f.depth \in 0..MaxDepth /\ MaxDepth \in Nat /\ Count \in Nat
        /\ f.op = "module" => f.subject \in 0..Count
    BY FrameTypes, ConstantTypes
  <1> QED BY <1>1, <1>2 DEF Lead, Ops

LEMMA LoopCounts ==
  ASSUME module \in Modules, NEW n, NEW f, FrameOK(f, n), Looping(f)
  PROVE  /\ CasesLeft(module, f) \in Nat
         /\ FieldsLeft(module, f) \in Nat
         /\ CallsLeft(f) \in Nat
  <1>1. /\ f.case \in Nat \ {0} /\ f.field \in Nat /\ Len(f.got) \in Nat
        /\ f.subject \in Index
    BY FrameTypes DEF FrameOK, AnyFrame
  <1> DEFINE cases == module[f.subject].cases
  <1>a. cases \in Seq(Seq(Ref)) /\ \A c \in 1..Len(cases) : cases[c] \in Seq(Ref)
    BY <1>1, ModuleTypes
  <1>b. CasesLeft(module, f) = Short(f.case, Len(cases) + 1)
    BY DEF CasesLeft
  <1>c. FieldsLeft(module, f) =
          IF f.case <= Len(cases) THEN Short(f.field, Len(cases[f.case]) + 1) ELSE 0
    BY DEF FieldsLeft
  <1> HIDE DEF cases
  <1>2. Len(cases) \in Nat /\ \A c \in 1..Len(cases) : Len(cases[c]) \in Nat
    BY <1>a
  <1>3. CasesLeft(module, f) \in Nat
    BY <1>1, <1>2, <1>b DEF Short
  <1>4. FieldsLeft(module, f) \in Nat
    <2>1. CASE f.case <= Len(cases)
      <3>1. f.case \in 1..Len(cases)
        BY <1>1, <1>2, <2>1
      <3>2. Len(cases[f.case]) \in Nat
        BY <1>2, <3>1
      <3> QED BY <1>1, <1>c, <2>1, <3>2 DEF Short
    <2>2. CASE ~(f.case <= Len(cases))
      BY <1>c, <2>2
    <2> QED BY <2>1, <2>2
  <1>5. CallsLeft(f) \in Nat
    BY <1>1 DEF CallsLeft, Short
  <1> QED BY <1>3, <1>4, <1>5

LEMMA LeftTypes ==
  ASSUME IInv, NEW k \in 1..MaxStack
  PROVE  Left(module, stack, k) \in Counts
  <1>1. CASE k <= Len(stack)
    <2>1. FrameOK(stack[k], Len(table)) /\ module \in Modules
      BY <1>1, ConstantTypes DEF IInv, StackOK
    <2>2. Lead(stack[k]) \in Nat
      BY <2>1, FirstTypes
    <2>3. Ahead(module, stack[k]) \in Counts
      BY <2>1, <2>2, LoopCounts DEF Ahead, Counts
    <2> QED BY <1>1, <2>3 DEF Left
  <1>2. CASE ~(k <= Len(stack))
    BY <1>2, ConstantTypes DEF Left, NoCall, Counts
  <1> QED BY <1>1, <1>2

-----------------------------------------------------------------------------
(***************************************************************************)
(* A frame that has called another is at a call, and has calls left.       *)
(***************************************************************************)
AtCall(f) ==
  /\ f.op # "expand"
  /\ f.op = "module" => f.subject < Count
  /\ f.op = "resolve" => f.subject.form # "named"
  /\ Len(f.got) < 2

Calling(s) == \A k \in 1..(Len(s) - 1) : AtCall(s[k])

LEMMA OnwardsFalls ==
  ASSUME IInv, Calling(stack), NEW f, Less(Ahead(module, f), Ahead(module, Top))
  PROVE  Falls(module, stack, Becomes(f)) /\ Calling(Becomes(f))
  <1> DEFINE t == Becomes(f)
  <1>1. /\ Len(t) = Len(stack) /\ t[Len(stack)] = f
        /\ \A k \in 1..Len(stack) : k # Len(stack) => t[k] = stack[k]
        /\ Len(stack) \in 1..MaxStack /\ Len(stack) \in Nat
    BY StackTypes, TopTypes DEF Becomes
  <1> HIDE DEF t
  <1>2. Less(Left(module, t, Len(stack)), Left(module, stack, Len(stack)))
    BY <1>1 DEF Left, Top
  <1>3. \A j \in 1..(Len(stack) - 1) : Left(module, t, j) = Left(module, stack, j)
    BY <1>1 DEF Left
  <1>4. Falls(module, stack, t)
    BY <1>1, <1>2, <1>3 DEF Falls
  <1>5. Calling(t)
    BY <1>1 DEF Calling
  <1> QED BY <1>4, <1>5 DEF t

LEMMA CallIsLess ==
  ASSUME NEW m, NEW n, NEW f, FrameOK(f, n), f.op # "module"
  PROVE  Less(Ahead(m, f), NoCall)
  <1>1. Lead(f) < MaxDepth + 6
    BY FirstTypes
  <1>2. Ahead(m, f)[1] = Lead(f) /\ NoCall[1] = MaxDepth + 6
    BY DEF Ahead, NoCall
  <1>3. 1 \in 1..4 /\ 1..(1 - 1) = {}
    OBVIOUS
  <1> QED BY <1>1, <1>2, <1>3 DEF Less

LEMMA DeeperFalls ==
  ASSUME IInv, Calling(stack), AtCall(Top), Len(stack) < MaxStack,
         NEW f, NEW n, FrameOK(f, n), f.op # "module"
  PROVE  Falls(module, stack, Append(stack, f)) /\ Calling(Append(stack, f))
  <1> DEFINE t == Append(stack, f)
             k == Len(stack) + 1
  <1>1. /\ Len(t) = k /\ t[k] = f
        /\ \A j \in 1..Len(stack) : t[j] = stack[j]
        /\ Len(stack) \in Nat /\ k \in 1..MaxStack
    BY StackTypes, ConstantTypes
  <1> HIDE DEF t
  <1>2. Less(Left(module, t, k), Left(module, stack, k))
    <2>1. Left(module, t, k) = Ahead(module, f)
      BY <1>1 DEF Left
    <2>2. Left(module, stack, k) = NoCall
      BY <1>1 DEF Left
    <2> QED BY <2>1, <2>2, CallIsLess
  <1>3. \A j \in 1..(k - 1) : Left(module, t, j) = Left(module, stack, j)
    BY <1>1 DEF Left
  <1>4. Falls(module, stack, t)
    BY <1>1, <1>2, <1>3 DEF Falls
  <1>5. ASSUME NEW j \in 1..(Len(t) - 1) PROVE AtCall(t[j])
    <2>1. t[j] = stack[j] /\ j \in 1..Len(stack)
      BY <1>1
    <2>2. CASE j = Len(stack)
      BY <2>1, <2>2 DEF Top
    <2>3. CASE j # Len(stack)
      BY <1>1, <2>1, <2>3 DEF Calling
    <2> QED BY <2>2, <2>3
  <1>6. Calling(t)
    BY <1>5 DEF Calling
  <1> QED BY <1>4, <1>6 DEF t

LEMMA LessWhen ==
  ASSUME NEW a, NEW b,
         \/ a[1] < b[1]
         \/ a[1] = b[1] /\ a[2] < b[2]
         \/ a[1] = b[1] /\ a[2] = b[2] /\ a[3] < b[3]
         \/ a[1] = b[1] /\ a[2] = b[2] /\ a[3] = b[3] /\ a[4] < b[4]
  PROVE  Less(a, b)
  <1>1. /\ 1..(1 - 1) = {} /\ 1..(2 - 1) = {1} /\ 1..(3 - 1) = {1, 2}
        /\ 1..(4 - 1) = {1, 2, 3} /\ 1 \in 1..4 /\ 2 \in 1..4 /\ 3 \in 1..4 /\ 4 \in 1..4
    OBVIOUS
  <1>2. CASE a[1] < b[1]
    BY <1>1, <1>2 DEF Less
  <1>3. CASE a[1] = b[1] /\ a[2] < b[2]
    BY <1>1, <1>3 DEF Less
  <1>4. CASE a[1] = b[1] /\ a[2] = b[2] /\ a[3] < b[3]
    BY <1>1, <1>4 DEF Less
  <1>5. CASE a[1] = b[1] /\ a[2] = b[2] /\ a[3] = b[3] /\ a[4] < b[4]
    BY <1>1, <1>5 DEF Less
  <1> QED BY <1>2, <1>3, <1>4, <1>5

\* One more result, and everything else of the frame as it was.
LEMMA AnsweredLess ==
  ASSUME module \in Modules, NEW n, NEW f, FrameOK(f, n), AtCall(f), NEW v \in Values
  PROVE  Less(Ahead(module, [f EXCEPT !.got = Append(@, v)]), Ahead(module, f))
  <1> DEFINE g == [f EXCEPT !.got = Append(@, v)]
  <1>1. /\ g.op = f.op /\ g.subject = f.subject /\ g.case = f.case
        /\ g.field = f.field /\ Len(g.got) = Len(f.got) + 1
        /\ Len(f.got) \in Nat /\ Len(f.got) < 2
    <2>1. f \in AnyFrame /\ f.got \in Seq(Values)
      BY DEF FrameOK, AnyFrame
    <2>2. g.got = Append(f.got, v)
      BY <2>1 DEF AnyFrame
    <2> QED BY <2>1, <2>2 DEF AnyFrame, AtCall
  <1> HIDE DEF g
  <1>2. CallsLeft(g) < CallsLeft(f)
    BY <1>1 DEF CallsLeft, Short
  <1>3. Looping(g) <=> Looping(f)
    BY <1>1 DEF Looping
  <1>4. CASE Looping(f)
    <2>1. Lead(g) = Lead(f)
      BY <1>1, <1>4 DEF Lead, Looping
    <2>2. CasesLeft(module, g) = CasesLeft(module, f)
      BY <1>1 DEF CasesLeft
    <2>3. FieldsLeft(module, g) = FieldsLeft(module, f)
      BY <1>1 DEF FieldsLeft
    <2>4. /\ Ahead(module, g) = <<Lead(g), CasesLeft(module, g), FieldsLeft(module, g), CallsLeft(g)>>
          /\ Ahead(module, f) = <<Lead(f), CasesLeft(module, f), FieldsLeft(module, f), CallsLeft(f)>>
      BY <1>3, <1>4 DEF Ahead
    <2>5. Less(Ahead(module, g), Ahead(module, f))
      BY <1>2, <2>1, <2>2, <2>3, <2>4, LessWhen
    <2> QED BY <2>5 DEF g
  <1>5. CASE ~Looping(f)
    <2>1. f.op = "value" \/ (f.op = "resolve" /\ f.subject.form # "named")
      BY <1>5, FrameTypes DEF Looping, AtCall, Ops
    <2>2. Lead(g) = CallsLeft(g) /\ Lead(f) = CallsLeft(f)
      BY <1>1, <2>1 DEF Lead
    <2>3. Ahead(module, g)[1] = Lead(g) /\ Ahead(module, f)[1] = Lead(f)
      BY DEF Ahead
    <2>4. Less(Ahead(module, g), Ahead(module, f))
      BY <1>2, <2>2, <2>3, LessWhen
    <2> QED BY <2>4 DEF g
  <1> QED BY <1>4, <1>5

LEMMA PoppedFalls ==
  ASSUME IInv, Calling(stack), Top.op # "module", NEW v \in Values
  PROVE  Falls(module, stack, Popped(v)) /\ Calling(Popped(v))
  <1> DEFINE c == Caller
             t == Popped(v)
             g == [stack[c] EXCEPT !.got = Append(@, v)]
  <1>1. /\ c \in Nat /\ c >= 1 /\ c + 1 = Len(stack) /\ c \in 1..Len(stack)
        /\ Len(t) = c /\ t[c] = g
        /\ FrameOK(stack[c], Len(table))
        /\ \A k \in 1..c : k # c => t[k] = stack[k]
    BY PoppedStack
  <1>2. c \in 1..(Len(stack) - 1) /\ c \in 1..MaxStack
    BY <1>1, TopTypes, ConstantTypes
  <1>3. AtCall(stack[c])
    BY <1>2 DEF Calling
  <1>4. Less(Ahead(module, g), Ahead(module, stack[c]))
    BY <1>1, <1>3, AnsweredLess DEF IInv
  <1> HIDE DEF t, g, c
  <1>5. Left(module, t, c) = Ahead(module, g) /\ Left(module, stack, c) = Ahead(module, stack[c])
    BY <1>1 DEF Left
  <1>6. \A j \in 1..(c - 1) : Left(module, t, j) = Left(module, stack, j)
    BY <1>1 DEF Left
  <1>7. Falls(module, stack, t)
    BY <1>2, <1>4, <1>5, <1>6 DEF Falls
  <1>8. Calling(t)
    BY <1>1 DEF Calling
  <1> QED BY <1>7, <1>8 DEF t

-----------------------------------------------------------------------------
(***************************************************************************)
(* The ways an action goes on.                                             *)
(***************************************************************************)
Descends ==
  /\ phase = "run"
  /\ module' = module
  /\ phase' = "run" => Falls(module, stack, stack') /\ Calling(stack')

LEMMA GotoDescends ==
  ASSUME IInv, Calling(stack), phase = "run", NEW f, Goto(f),
         Less(Ahead(module, f), Ahead(module, Top))
  PROVE  Descends
  BY OnwardsFalls DEF Goto, Descends

LEMMA PushDescends ==
  ASSUME IInv, Calling(stack), phase = "run", AtCall(Top), NEW f, Push(f),
         NEW n, FrameOK(f, n), f.op # "module"
  PROVE  Descends
  BY DeeperFalls DEF Push, Descends

LEMMA ReturnDescends ==
  ASSUME IInv, Calling(stack), phase = "run", Top.op # "module",
         NEW v \in Values, Return(v)
  PROVE  Descends
  BY PoppedFalls DEF Return, Descends

LEMMA InvalidDescends ==
  ASSUME IInv, Calling(stack), phase = "run", Top.op # "module", Return(Invalid)
  PROVE  Descends
  BY ReturnDescends DEF Values

LEMMA InternedDescends ==
  ASSUME IInv, Calling(stack), phase = "run", Top.op # "module",
         NEW e, EntryOK(e, Len(table) + 1), ReturnInterned(e)
  PROVE  Descends
  <1>1. CASE HasRoom(e) /\ stack' = Popped(Position(e)) /\ UNCHANGED <<module, phase, code>>
    <2>1. Position(e) \in Values
      BY <1>1, InternKeeps DEF IInv, Values
    <2> QED BY <1>1, <2>1, PoppedFalls DEF Descends
  <1>2. CASE Return(Invalid)
    BY <1>2, InvalidDescends
  <1> QED BY <1>1, <1>2 DEF ReturnInterned

LEMMA RefuseDescends ==
  ASSUME phase = "run", NEW c, Refuse(c)
  PROVE  Descends
  BY DEF Refuse, Descends

-----------------------------------------------------------------------------
(***************************************************************************)
(* The actions: resolution.                                                *)
(***************************************************************************)
LEMMA ExpandLess ==
  ASSUME NEW m, NEW name, NEW depth \in 0..MaxDepth
  PROVE  /\ Ahead(m, Call("expand", name, depth)) = <<4 + (MaxDepth - depth), 0, 0, 0>>
         /\ Ahead(m, Call("expand", name, depth))[1] = 4 + (MaxDepth - depth)
  BY DEF Ahead, Looping, Lead, Call

LEMMA ResolveDescends ==
  ASSUME IInv, Calling(stack),
         \/ ResolveName \/ ResolveBytes \/ ResolveArgument
         \/ ResolveDecision \/ ResolveOther
  PROVE  Descends
  <1> DEFINE r == Top.subject
  <1>0. /\ Top.op = "resolve" /\ Top.op # "module" /\ phase = "run"
        /\ r \in Ref /\ Len(table) \in Nat /\ Len(Top.got) \in Nat
    <2>1. Top.op = "resolve" /\ Top.op # "module" /\ phase = "run"
      BY DEF ResolveName, ResolveBytes, ResolveArgument, ResolveDecision, ResolveOther, Running
    <2> QED BY <2>1, ResolveTypes DEF IInv, TableOK
  <1> HIDE DEF r
  <1>1. CASE ResolveName
    <2>1. r.form = "named" /\ Goto(Call("expand", r.names[1], 0)) /\ 0 \in 0..MaxDepth
      BY <1>1, ConstantTypes DEF ResolveName, r
    <2>2. Ahead(module, Top)[1] = MaxDepth + 5
      BY <1>0, <2>1 DEF Ahead, Lead, Looping, r
    <2>3. Less(Ahead(module, Call("expand", r.names[1], 0)), Ahead(module, Top))
      BY <2>1, <2>2, ExpandLess, LessWhen, ConstantTypes
    <2> QED BY <1>0, <2>1, <2>3, GotoDescends
  <1>2. CASE ResolveBytes
    <2>1. r.form \in {"bytes", "digest"} /\ r.length \in Nat
      BY <1>0, <1>2, RefTypes DEF ResolveBytes, r
    <2>2. EntryOK(BytesOf(r), Len(table) + 1)
      BY <2>1 DEF BytesOf, EntryOK, Entry
    <2>3. CASE Return(Invalid)
      BY <1>0, <2>3, InvalidDescends
    <2>4. CASE ReturnInterned(BytesOf(r))
      BY <1>0, <2>2, <2>4, InternedDescends
    <2> QED BY <1>2, <2>3, <2>4 DEF ResolveBytes, r
  <1>3. CASE ResolveArgument
    <2> DEFINE name == r.names[Len(Top.got) + 1]
    <2>1. r.names \in Seq(Nat) /\ Len(r.names) = 2 /\ Len(Top.got) < 2
      BY <1>0, <1>3, RefTypes DEF ResolveArgument, r
    <2>2. name \in Nat /\ 0 \in 0..MaxDepth
      BY <1>0, <2>1, ConstantTypes
    <2>3. Push(Call("expand", name, 0)) /\ Top.subject.form = "applied"
      BY <1>3 DEF ResolveArgument, r
    <2> HIDE DEF name
    <2>4. AtCall(Top)
      BY <1>0, <2>1, <2>3 DEF AtCall
    <2>5. /\ FrameOK(Call("expand", name, 0), Len(table))
          /\ Call("expand", name, 0).op # "module"
      BY <2>2, ExpandCalled
    <2> QED BY <1>0, <2>3, <2>4, <2>5, PushDescends
  <1>4. CASE ResolveDecision
    <2>1. Top.got[1] \in Types(Len(table)) /\ Top.got[2] \in Types(Len(table))
      BY <1>0, <1>4, ResolveTypes DEF ResolveDecision
    <2>2. CASE Return(Invalid)
      BY <1>0, <2>2, InvalidDescends
    <2>3. CASE /\ Top.got[1] # Invalid /\ Top.got[2] # Invalid
               /\ ReturnInterned(DecisionOf(Top.got[1], Top.got[2]))
      <3>1. Top.got[1] \in 1..Len(table) /\ Top.got[2] \in 1..Len(table)
        BY <2>1, <2>3 DEF Types
      <3>2. EntryOK(DecisionOf(Top.got[1], Top.got[2]), Len(table) + 1)
        BY <1>0, <3>1 DEF DecisionOf, EntryOK, Entry
      <3> QED BY <1>0, <2>3, <3>2, InternedDescends
    <2> QED BY <1>4, <2>2, <2>3 DEF ResolveDecision
  <1>5. CASE ResolveOther
    BY <1>0, <1>5, InvalidDescends DEF ResolveOther
  <1> QED BY <1>1, <1>2, <1>3, <1>4, <1>5

LEMMA ExpandDescends ==
  ASSUME IInv, Calling(stack), ExpandAlias \/ ExpandName \/ ExpandTooDeep
  PROVE  Descends
  <1>0. /\ Top.op = "expand" /\ Top.op # "module" /\ phase = "run"
        /\ Top.subject \in Nat /\ Top.depth \in 0..MaxDepth /\ Len(table) \in Nat
    BY TopTypes DEF ExpandAlias, ExpandName, ExpandTooDeep, Running,
       IInv, TableOK, FrameOK, SubjectOK, AnyFrame
  <1>1. CASE ExpandAlias
    <2>0. Ahead(module, Top)[1] = 4 + (MaxDepth - Top.depth) /\ Top.depth < MaxDepth
      BY <1>0, <1>1 DEF Ahead, Lead, Looping, ExpandAlias
    <2>1. PICK d \in AliasFound(Top.subject) :
            IF Target(d).form = "named"
            THEN Goto(Call("expand", Target(d).names[1], Top.depth + 1))
            ELSE Goto(Call("resolve", Target(d), 0))
      BY <1>1 DEF ExpandAlias
    <2>2. CASE Target(d).form = "named"
      <3>1. Top.depth + 1 \in 0..MaxDepth
        BY <1>0, <2>0, ConstantTypes
      <3>2. Less(Ahead(module, Call("expand", Target(d).names[1], Top.depth + 1)), Ahead(module, Top))
        BY <1>0, <2>0, <3>1, ExpandLess, LessWhen, ConstantTypes
      <3> QED BY <1>0, <2>1, <2>2, <3>2, GotoDescends
    <2>3. CASE Target(d).form # "named"
      <3> DEFINE f == Call("resolve", Target(d), 0)
      <3>1. f.op = "resolve" /\ f.subject.form # "named" /\ Len(f.got) = 0
        BY <2>3 DEF Call
      <3>2. Goto(f)
        BY <2>1, <2>3
      <3> HIDE DEF f
      <3>3. Ahead(module, f)[1] = 3
        BY <3>1 DEF Ahead, Lead, Looping, CallsLeft, Short
      <3>4. 3 < 4 + (MaxDepth - Top.depth)
        BY <1>0, <2>0, ConstantTypes
      <3>5. Less(Ahead(module, f), Ahead(module, Top))
        BY <2>0, <3>3, <3>4, LessWhen
      <3> QED BY <1>0, <3>2, <3>5, GotoDescends
    <2> QED BY <2>2, <2>3
  <1>2. CASE ExpandName
    <2>1. CASE Top.subject \in Builtin /\ ReturnInterned(Base(Top.subject))
      <3>1. EntryOK(Base(Top.subject), Len(table) + 1)
        BY <1>0, <2>1 DEF Base, EntryOK, Entry
      <3> QED BY <1>0, <2>1, <3>1, InternedDescends
    <2>2. CASE \E d \in Found(Top.subject) : ReturnInterned(Declared(d))
      <3>1. PICK d \in Found(Top.subject) : ReturnInterned(Declared(d))
        BY <2>2
      <3>2. d \in Index /\ d \in Nat
        BY <3>1, ConstantTypes DEF Found
      <3>3. EntryOK(Declared(d), Len(table) + 1)
        BY <3>2 DEF Declared, EntryOK, Entry
      <3> QED BY <1>0, <3>1, <3>3, InternedDescends
    <2>3. CASE Return(Invalid)
      BY <1>0, <2>3, InvalidDescends
    <2> QED BY <1>2, <2>1, <2>2, <2>3 DEF ExpandName
  <1>3. CASE ExpandTooDeep
    BY <1>0, <1>3, InvalidDescends DEF ExpandTooDeep
  <1> QED BY <1>1, <1>2, <1>3

-----------------------------------------------------------------------------
(***************************************************************************)
(* The actions: widths and loops.                                          *)
(***************************************************************************)
LEMMA ValueCall ==
  ASSUME NEW type \in Nat, NEW depth \in 0..MaxDepth, NEW n
  PROVE  /\ FrameOK(Call("value", type, depth), n)
         /\ Call("value", type, depth).op # "module"
  <1>1. SubjectOK(Call("value", type, depth))
    BY DEF SubjectOK, Call
  <1>2. FrameOK(Call("value", type, depth), n)
    BY <1>1, CallFrame DEF Ops
  <1> QED BY <1>2 DEF Call

LEMMA ValueDescends ==
  ASSUME IInv, Calling(stack),
         \/ ValueTooDeep \/ ValueBase \/ ValueArgument
         \/ ValueDecision \/ ValueDeclared
  PROVE  Descends
  <1> DEFINE e == table[Top.subject]
  <1>0. /\ Top.op = "value" /\ Top.op # "module" /\ phase = "run"
        /\ Top.depth \in 0..MaxDepth /\ Top.got \in Seq(Values) /\ Len(Top.got) \in Nat
    <2>1. Top.op = "value" /\ Top.op # "module" /\ phase = "run"
      BY DEF ValueTooDeep, ValueBase, ValueArgument, ValueDecision, ValueDeclared, Running
    <2> QED BY <2>1, TopTypes DEF FrameOK, AnyFrame
  <1>1. ASSUME Measurable
        PROVE  /\ e.a \in Nat /\ e.b \in Nat /\ Kind = e.kind
               /\ e.kind = "base" => e.a \in Builtin
               /\ e.kind = "declared" => e.a \in Index
               /\ Top.depth + 1 \in 0..MaxDepth
    <2>1. Top.subject \in 1..Len(table)
      BY <1>1 DEF Measurable, IInv, TableOK
    <2>2. EntryOK(e, Top.subject)
      BY <2>1 DEF IInv, TableOK
    <2>3. Top.depth + 1 \in 0..MaxDepth
      BY <1>0, <1>1, ConstantTypes DEF Measurable
    <2> QED BY <2>2, <2>3 DEF EntryOK, Entry, Kind
  <1> HIDE DEF e
  <1>2. CASE ValueTooDeep
    BY <1>0, <1>2, InvalidDescends DEF ValueTooDeep
  <1>3. CASE ValueBase
    <2>1. CASE Kind = "base" /\ Return(Widths[e.a])
      <3>1. Widths[e.a] \in Values
        BY <1>1, <1>3, <2>1, ConstantTypes DEF ValueBase, Values
      <3> QED BY <1>0, <2>1, <3>1, ReturnDescends
    <2>2. CASE Return(Checked(8 * e.a))
      <3>1. Checked(8 * e.a) \in Values
        BY <1>1, <1>3, CheckedValue DEF ValueBase
      <3> QED BY <1>0, <2>2, <3>1, ReturnDescends
    <2> QED BY <1>3, <2>1, <2>2 DEF ValueBase, e
  <1>4. CASE ValueArgument
    <2> DEFINE argument == IF Top.got = <<>> THEN e.a ELSE e.b
    <2>1. argument \in Nat /\ Top.depth + 1 \in 0..MaxDepth
      BY <1>1, <1>4 DEF ValueArgument
    <2>2. Push(Call("value", argument, Top.depth + 1)) /\ Len(Top.got) < 2
      BY <1>4 DEF ValueArgument, e
    <2> HIDE DEF argument
    <2>3. AtCall(Top)
      BY <1>0, <2>2 DEF AtCall
    <2>4. /\ FrameOK(Call("value", argument, Top.depth + 1), Len(table))
          /\ Call("value", argument, Top.depth + 1).op # "module"
      BY <2>1, ValueCall
    <2> QED BY <1>0, <2>2, <2>3, <2>4, PushDescends
  <1>5. CASE ValueDecision
    <2>1. CASE Return(Invalid)
      BY <1>0, <2>1, InvalidDescends
    <2>2. CASE /\ Len(Top.got) = 2
               /\ Invalid \notin {Top.got[k] : k \in DOMAIN Top.got}
               /\ Return(Checked(1 + Larger(Top.got[1], Top.got[2])))
      <3>1. /\ Top.got[1] \in Values /\ Top.got[2] \in Values
            /\ 1 \in DOMAIN Top.got /\ 2 \in DOMAIN Top.got
        BY <1>0, <2>2
      <3>2. Top.got[1] \in Nat /\ Top.got[2] \in Nat
        BY <2>2, <3>1 DEF Values
      <3>3. 1 + Larger(Top.got[1], Top.got[2]) \in Nat
        BY <3>2 DEF Larger
      <3>4. Checked(1 + Larger(Top.got[1], Top.got[2])) \in Values
        BY <3>3, CheckedValue
      <3> QED BY <1>0, <2>2, <3>4, ReturnDescends
    <2> QED BY <1>5, <2>1, <2>2 DEF ValueDecision
  <1>6. CASE ValueDeclared
    <2> DEFINE f == Call("declared", e.a, Top.depth + 1)
    <2>0. e.a \in Index /\ Top.depth + 1 \in 0..MaxDepth
      BY <1>1, <1>6 DEF ValueDeclared
    <2>1. CASE Top.got = <<>> /\ Push(f)
      <3>1. SubjectOK(f) /\ f.op = "declared"
        BY <2>0 DEF SubjectOK, Call
      <3>2. FrameOK(f, Len(table)) /\ f.op # "module"
        BY <2>0, <3>1, CallFrame DEF Ops
      <3>3. AtCall(Top)
        BY <1>0, <2>1 DEF AtCall
      <3> HIDE DEF f
      <3> QED BY <1>0, <2>1, <3>2, <3>3, PushDescends
    <2>2. CASE Top.got # <<>> /\ Return(Top.got[1])
      <3>1. Top.got[1] \in Values
        BY <1>0, <2>2
      <3> QED BY <1>0, <2>2, <3>1, ReturnDescends
    <2> QED BY <1>6, <2>1, <2>2 DEF ValueDeclared, e
  <1> QED BY <1>2, <1>3, <1>4, <1>5, <1>6

LEMMA ShortFalls ==
  ASSUME NEW n \in Nat, NEW m \in Nat, n <= m
  PROVE  Short(n + 1, m + 1) < Short(n, m + 1)
  BY DEF Short

\* The next field, or the next case, of a loop over fields.
LEMMA LoopLess ==
  ASSUME IInv, Top.subject \in Index, Top.op \in {"module", "declared"},
         NEW f, f.op = Top.op, f.subject = Top.subject,
         \/ AtField /\ f.case = Top.case /\ f.field = Top.field + 1
         \/ AtCaseEnd /\ f.case = Top.case + 1
  PROVE  Less(Ahead(module, f), Ahead(module, Top))
  <1>1. /\ Top.case \in Nat \ {0} /\ Top.field \in Nat \ {0}
        /\ Cases \in Seq(Seq(Ref)) /\ Len(Cases) \in Nat
        /\ \A c \in 1..Len(Cases) : Len(Cases[c]) \in Nat
    <2>1. /\ module[Top.subject].cases \in Seq(Seq(Ref))
          /\ \A c \in 1..Len(module[Top.subject].cases) :
               module[Top.subject].cases[c] \in Seq(Ref)
      BY ModuleTypes DEF IInv
    <2>2. Top.case \in Nat \ {0} /\ Top.field \in Nat \ {0}
      BY LoopTypes
    <2>3. Cases \in Seq(Seq(Ref)) /\ \A c \in 1..Len(Cases) : Cases[c] \in Seq(Ref)
      BY <2>1 DEF Cases
    <2> QED BY <2>2, <2>3
  <1>2. Looping(f) /\ Looping(Top) /\ Lead(f) = Lead(Top)
    BY ConstantTypes DEF Looping, Lead, Index
  <1>3. /\ Ahead(module, f) = <<Lead(f), CasesLeft(module, f), FieldsLeft(module, f), CallsLeft(f)>>
        /\ Ahead(module, Top) = <<Lead(Top), CasesLeft(module, Top), FieldsLeft(module, Top), CallsLeft(Top)>>
    BY <1>2 DEF Ahead
  <1>4. /\ CasesLeft(module, f) = Short(f.case, Len(Cases) + 1)
        /\ CasesLeft(module, Top) = Short(Top.case, Len(Cases) + 1)
    BY DEF CasesLeft, Cases
  <1>5. CASE AtField /\ f.case = Top.case /\ f.field = Top.field + 1
    <2>1. Top.case \in 1..Len(Cases) /\ Top.field <= Len(Cases[Top.case])
      BY <1>1, <1>5 DEF AtField
    <2>2. /\ FieldsLeft(module, f) = Short(f.field, Len(Cases[Top.case]) + 1)
          /\ FieldsLeft(module, Top) = Short(Top.field, Len(Cases[Top.case]) + 1)
      BY <1>5, <2>1 DEF FieldsLeft, Cases
    <2>3. Len(Cases[Top.case]) \in Nat
      BY <1>1, <2>1
    <2>4. FieldsLeft(module, f) < FieldsLeft(module, Top)
      BY <1>1, <1>5, <2>1, <2>2, <2>3, ShortFalls
    <2>5. CasesLeft(module, f) = CasesLeft(module, Top)
      BY <1>4, <1>5
    <2> QED BY <1>2, <1>3, <2>4, <2>5, LessWhen
  <1>6. CASE AtCaseEnd /\ f.case = Top.case + 1
    <2>0. Top.case \in Nat /\ Top.case <= Len(Cases)
      BY <1>1, <1>6 DEF AtCaseEnd
    <2>1. CasesLeft(module, f) < CasesLeft(module, Top)
      BY <1>1, <1>4, <1>6, <2>0, ShortFalls
    <2> QED BY <1>2, <1>3, <2>1, LessWhen
  <1> QED BY <1>5, <1>6

LEMMA DeclaredDescends ==
  ASSUME IInv, Calling(stack),
         \/ DeclaredTooDeep \/ FieldResolve \/ FieldMeasure \/ FieldAdd
         \/ CaseEnd \/ DeclaredEnd
  PROVE  Descends
  <1>0. /\ Top.op = "declared" /\ Top.op # "module" /\ phase = "run"
        /\ Top.subject \in Index
    <2>1. Top.op = "declared" /\ Top.op # "module" /\ phase = "run"
      BY DEF DeclaredTooDeep, FieldResolve, FieldMeasure, FieldAdd,
         CaseEnd, DeclaredEnd, Measuring, Running
    <2> QED BY <2>1, TopTypes DEF FrameOK, SubjectOK
  <1>f. Top \in AnyFrame /\ Top.got \in Seq(Values)
    BY <1>0, LoopTypes
  <1>1. CASE DeclaredTooDeep
    BY <1>0, <1>1, InvalidDescends DEF DeclaredTooDeep
  <1>2. CASE FieldResolve
    <2> DEFINE r == Cases[Top.case][Top.field]
    <2>1. r \in Ref /\ Push(Call("resolve", r, 0)) /\ AtCall(Top)
      BY <1>0, <1>2, LoopTypes DEF FieldResolve, AtCall
    <2> HIDE DEF r
    <2> QED BY <1>0, <2>1, ResolveCalled, PushDescends
  <1>3. CASE FieldMeasure
    <2>1. CASE Return(Invalid)
      BY <1>0, <2>1, InvalidDescends
    <2>2. CASE Top.got[1] # Invalid /\ Push(Call("value", Top.got[1], Top.depth + 1))
      <3>1. Top.got[1] \in Values
        BY <1>f, <1>3 DEF FieldMeasure
      <3>2. Top.got[1] \in Nat
        BY <2>2, <3>1 DEF Values
      <3>3. Top.depth + 1 \in 0..MaxDepth
        <4>1. Top.depth \in 0..MaxDepth
          BY <1>0, LoopTypes
        <4>2. Top.depth < MaxDepth
          BY <1>3 DEF FieldMeasure, Measuring
        <4> QED BY <4>1, <4>2, ConstantTypes
      <3>4. AtCall(Top)
        BY <1>0, <1>3 DEF FieldMeasure, AtCall
      <3>5. /\ FrameOK(Call("value", Top.got[1], Top.depth + 1), Len(table))
            /\ Call("value", Top.got[1], Top.depth + 1).op # "module"
        BY <3>2, <3>3, ValueCall
      <3> QED BY <1>0, <2>2, <3>4, <3>5, PushDescends
    <2> QED BY <1>3, <2>1, <2>2 DEF FieldMeasure
  <1>4. CASE FieldAdd
    <2>1. CASE Return(Invalid)
      BY <1>0, <2>1, InvalidDescends
    <2>2. CASE ~(Top.got[2] = Invalid \/ Top.payload + Top.got[2] > WordMax)
      <3> DEFINE f == [Top EXCEPT !.payload = @ + Top.got[2], !.field = @ + 1,
                                  !.got = <<>>]
      <3>1. /\ f.op = Top.op /\ f.subject = Top.subject /\ f.case = Top.case
            /\ f.field = Top.field + 1
        BY <1>f DEF AnyFrame
      <3>2. Goto(f) /\ AtField
        BY <1>4, <2>2 DEF FieldAdd
      <3> HIDE DEF f
      <3>3. Less(Ahead(module, f), Ahead(module, Top))
        BY <1>0, <3>1, <3>2, LoopLess
      <3> QED BY <1>0, <3>2, <3>3, GotoDescends
    <2> QED BY <1>4, <2>1, <2>2 DEF FieldAdd
  <1>5. CASE CaseEnd
    <2> DEFINE f == [Top EXCEPT !.widest = Larger(@, Top.payload), !.payload = 0,
                                !.case = @ + 1, !.field = 1]
    <2>1. f.op = Top.op /\ f.subject = Top.subject /\ f.case = Top.case + 1
      BY <1>f DEF AnyFrame
    <2>2. Goto(f) /\ AtCaseEnd
      BY <1>5 DEF CaseEnd
    <2> HIDE DEF f
    <2>3. Less(Ahead(module, f), Ahead(module, Top))
      BY <1>0, <2>1, <2>2, LoopLess
    <2> QED BY <1>0, <2>2, <2>3, GotoDescends
  <1>6. CASE DeclaredEnd
    <2>0. Top.widest \in 0..WordMax
      BY <1>0, LoopTypes
    <2>1. Top.widest \in Nat /\ module[Top.subject].tag \in Nat
      <3>1. module[Top.subject].tag \in Nat
        BY <1>0, ModuleTypes DEF IInv
      <3> QED BY <2>0, <3>1, ConstantTypes
    <2>2. Checked(module[Top.subject].tag + Top.widest) \in Values
      BY <2>1, CheckedValue
    <2> QED BY <1>0, <1>6, <2>2, ReturnDescends DEF DeclaredEnd
  <1> QED BY <1>1, <1>2, <1>3, <1>4, <1>5, <1>6

-----------------------------------------------------------------------------
(***************************************************************************)
(* The actions: resolve_declarations.                                      *)
(***************************************************************************)
LEMMA ModuleDescends ==
  ASSUME IInv, Calling(stack),
         \/ ResolveField \/ ResolveCaseEnd \/ ResolveAlias
         \/ InternDeclaration \/ CheckWidth \/ Accept
  PROVE  Descends
  <1>0. Top.op = "module" /\ phase = "run" /\ Top.subject \in 0..Count /\ Top \in AnyFrame
    <2>1. Top.op = "module" /\ phase = "run"
      BY DEF ResolveField, ResolveCaseEnd, ResolveAlias,
         InternDeclaration, CheckWidth, Accept, Running
    <2> QED BY <2>1, TopTypes DEF FrameOK, SubjectOK
  <1>1. ASSUME Top.subject < Count PROVE Top.subject \in Index
    BY <1>0, <1>1, ConstantTypes DEF Index
  <1>2. CASE ResolveField
    <2>1. Top.subject \in Index /\ AtField /\ Top.subject < Count
      BY <1>1, <1>2 DEF ResolveField
    <2>2. CASE Top.got = <<>> /\ Push(Call("resolve", Cases[Top.case][Top.field], 0))
      <3> DEFINE r == Cases[Top.case][Top.field]
      <3>1. r \in Ref /\ Push(Call("resolve", r, 0)) /\ AtCall(Top)
        BY <1>0, <2>1, <2>2, LoopTypes DEF AtCall
      <3> HIDE DEF r
      <3> QED BY <1>0, <3>1, ResolveCalled, PushDescends
    <2>3. CASE Refuse("A0-CHECK-0012")
      BY <1>0, <2>3, RefuseDescends
    <2>4. CASE Goto([Top EXCEPT !.field = @ + 1, !.got = <<>>])
      <3> DEFINE f == [Top EXCEPT !.field = @ + 1, !.got = <<>>]
      <3>1. /\ f.op = Top.op /\ f.subject = Top.subject /\ f.case = Top.case
            /\ f.field = Top.field + 1
        BY <1>0 DEF AnyFrame
      <3>2. Goto(f)
        BY <2>4
      <3> HIDE DEF f
      <3>3. Less(Ahead(module, f), Ahead(module, Top))
        BY <1>0, <2>1, <3>1, LoopLess
      <3> QED BY <1>0, <3>2, <3>3, GotoDescends
    <2> QED BY <1>2, <2>2, <2>3, <2>4 DEF ResolveField
  <1>3. CASE ResolveCaseEnd
    <2> DEFINE f == [Top EXCEPT !.case = @ + 1, !.field = 1]
    <2>1. f.op = Top.op /\ f.subject = Top.subject /\ f.case = Top.case + 1
      BY <1>0 DEF AnyFrame
    <2>2. Goto(f) /\ AtCaseEnd /\ Top.subject \in Index
      BY <1>1, <1>3 DEF ResolveCaseEnd
    <2> HIDE DEF f
    <2>3. Less(Ahead(module, f), Ahead(module, Top))
      BY <1>0, <2>1, <2>2, LoopLess
    <2> QED BY <1>0, <2>2, <2>3, GotoDescends
  <1>4. CASE ResolveAlias
    <2>1. /\ Push(Call("value", 1, 0)) /\ 0 \in 0..MaxDepth /\ AtCall(Top)
      BY <1>0, <1>4, ConstantTypes DEF ResolveAlias, AtCall
    <2>2. /\ FrameOK(Call("value", 1, 0), Len(table))
          /\ Call("value", 1, 0).op # "module"
      BY <2>1, ValueCall
    <2> QED BY <1>0, <2>1, <2>2, PushDescends
  <1>5. CASE InternDeclaration
    <2> DEFINE e == Declared(Top.subject)
               f == Call("value", Position(e), 0)
    <2>1. CASE Refuse("A0-CHECK-0014")
      BY <1>0, <2>1, RefuseDescends
    <2>2. CASE /\ HasRoom(e)
               /\ stack' = Append(stack, f)
               /\ UNCHANGED <<module, phase, code>>
      <3>1. Top.subject \in Nat /\ Top.subject \in Index /\ Top.got = <<>> /\ Top.subject < Count
        BY <1>1, <1>5, ConstantTypes DEF InternDeclaration
      <3>2. EntryOK(e, Len(table) + 1)
        BY <3>1 DEF Declared, EntryOK, Entry
      <3>3. Position(e) \in Nat /\ 0 \in 0..MaxDepth
        BY <2>2, <3>2, InternKeeps, ConstantTypes DEF IInv
      <3>4. FrameOK(f, Len(table)) /\ f.op # "module"
        BY <3>3, ValueCall
      <3>5. AtCall(Top)
        BY <1>0, <3>1 DEF AtCall
      <3>6. Len(stack) < MaxStack
        BY <1>0, ModuleAlone, ConstantTypes
      <3> HIDE DEF f
      <3> QED BY <1>0, <2>2, <3>4, <3>5, <3>6, DeeperFalls DEF Descends
    <2> QED BY <1>5, <2>1, <2>2 DEF InternDeclaration
  <1>6. CASE CheckWidth
    <2>1. CASE Refuse("A0-CHECK-0013")
      BY <1>0, <2>1, RefuseDescends
    <2>2. CASE Goto(Call("module", Top.subject + 1, 0))
      <3> DEFINE f == Call("module", Top.subject + 1, 0)
      <3>1. f.op = "module" /\ f.subject = Top.subject + 1
        BY DEF Call
      <3> HIDE DEF f
      <3>2. Lead(f) = Count - (Top.subject + 1) /\ Lead(Top) = Count - Top.subject
        BY <1>0, <3>1 DEF Lead
      <3>3. Lead(f) < Lead(Top)
        BY <1>0, <3>2, ConstantTypes
      <3>4. Ahead(module, f)[1] = Lead(f) /\ Ahead(module, Top)[1] = Lead(Top)
        BY DEF Ahead
      <3>5. Less(Ahead(module, f), Ahead(module, Top))
        BY <3>3, <3>4, LessWhen
      <3>6. Goto(f)
        BY <2>2 DEF f
      <3> QED BY <1>0, <3>5, <3>6, GotoDescends
    <2> QED BY <1>6, <2>1, <2>2 DEF CheckWidth
  <1>7. CASE Accept
    BY <1>0, <1>7 DEF Accept, Descends
  <1> QED BY <1>2, <1>3, <1>4, <1>5, <1>6, <1>7

LEMMA NextDescends ==
  ASSUME IInv, Calling(stack), Next
  PROVE  Descends
  <1>1. CASE \/ ResolveName \/ ResolveBytes \/ ResolveArgument
             \/ ResolveDecision \/ ResolveOther
    BY <1>1, ResolveDescends
  <1>2. CASE ExpandAlias \/ ExpandName \/ ExpandTooDeep
    BY <1>2, ExpandDescends
  <1>3. CASE \/ ValueTooDeep \/ ValueBase \/ ValueArgument
             \/ ValueDecision \/ ValueDeclared
    BY <1>3, ValueDescends
  <1>4. CASE \/ DeclaredTooDeep \/ FieldResolve \/ FieldMeasure \/ FieldAdd
             \/ CaseEnd \/ DeclaredEnd
    BY <1>4, DeclaredDescends
  <1>5. CASE \/ ResolveField \/ ResolveCaseEnd \/ ResolveAlias
             \/ InternDeclaration \/ CheckWidth \/ Accept
    BY <1>5, ModuleDescends
  <1> QED BY <1>1, <1>2, <1>3, <1>4, <1>5 DEF Next

\* When the check has ended, no step is left.
LEMMA OnlyWhileRunning == Next => phase = "run"
  BY DEF Next, ResolveName, ResolveBytes, ResolveArgument, ResolveDecision,
         ResolveOther, ExpandAlias, ExpandName, ExpandTooDeep, ValueTooDeep, ValueBase,
         ValueArgument, ValueDecision, ValueDeclared, DeclaredTooDeep, FieldResolve,
         FieldMeasure, FieldAdd, CaseEnd, DeclaredEnd, Measuring, ResolveField,
         ResolveCaseEnd, ResolveAlias, InternDeclaration, CheckWidth, Accept, Running

CallInv == phase = "run" => Calling(stack)

LEMMA StepCalls == IInv /\ CallInv /\ [Next]_vars => CallInv'
  <1> SUFFICES ASSUME IInv, CallInv, [Next]_vars PROVE CallInv'
    OBVIOUS
  <1>1. CASE UNCHANGED vars
    BY <1>1 DEF CallInv, Calling, vars
  <1>2. CASE Next
    <2>1. phase = "run"
      BY <1>2, OnlyWhileRunning
    <2>2. Descends
      BY <1>2, <2>1, NextDescends DEF CallInv
    <2> QED BY <2>2 DEF Descends, CallInv, Calling
  <1> QED BY <1>1, <1>2

(***************************************************************************)
(* seki_types.c, the calls of resolve_declarations: the check of every     *)
(* module ends.  The numbers of the stack, read from the outermost call,   *)
(* are finitely many natural numbers, of which the first that a step       *)
(* changes gets smaller; so no behaviour has steps without end, though     *)
(* nothing but MaxStack bounds the resolution of an alias inside a         *)
(* Decision, and no bound is placed on cases and fields.                   *)
(***************************************************************************)
THEOREM CheckBounded == Spec => CheckIsBounded
  <1>1. Init => CallInv
    BY DEF Init, CallInv, Calling
  <1>2. IInv => \A k \in 1..MaxStack : Left(module, stack, k) \in Counts
    BY LeftTypes
  <1>3. IInv /\ CallInv /\ [Next]_vars =>
          [ /\ phase = "run"
            /\ module' = module
            /\ phase' = "run" => Falls(module, stack, stack') ]_vars
    <2> SUFFICES ASSUME IInv, CallInv, Next
                 PROVE  /\ phase = "run"
                        /\ module' = module
                        /\ phase' = "run" => Falls(module, stack, stack')
      OBVIOUS
    <2>1. phase = "run"
      BY OnlyWhileRunning
    <2>2. Descends
      BY <2>1, NextDescends DEF CallInv
    <2> QED BY <2>2 DEF Descends
  <1> QED BY <1>1, <1>2, <1>3, StepCalls, Invariant, PTL DEF Spec, CheckIsBounded
=============================================================================
