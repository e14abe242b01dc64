------------------------------ MODULE TypeTable ------------------------------
(***************************************************************************)
(* Type resolution and width derivation (src/src/alpha/seki_types.c), as   *)
(* resolve_declarations (seki_checker.c) drives them over the declarations *)
(* of a module.                                                            *)
(*                                                                         *)
(* The functions call one another recursively and share one table of       *)
(* interned types, so they are a machine with an explicit stack: one frame *)
(* per active call, one step per call, return or loop iteration.           *)
(***************************************************************************)
EXTENDS Integers, Sequences, FiniteSets

CONSTANTS
  Count,     \* declaration_count
  Widths,    \* the width of each built-in: Unit, Bool, U8, ...
  Modules,   \* the modules the parser may hand over
  Capacity,  \* SEKI_TYPE_TABLE_CAPACITY
  MaxDepth,  \* SEKI_TYPE_MAX_DEPTH
  WordMax,   \* UINT32_MAX
  MaxStack   \* the calls the host stack has room for

Builtin == DOMAIN Widths

Index == 0..(Count - 1)

\* What the parser can return as a type: a name, Bytes or Digest of a length
\* (0 for those that are refused), Decision of two arguments (a number is a
\* name nothing has), or with any other count an application that is refused.
Ref == {r \in [form : {"named", "applied"}, names : Seq(Nat)] :
          r.form = "named" => Len(r.names) = 1}
       \cup [form : {"bytes", "digest"}, length : Nat]

\* An alias or a nominal has its target for its only field, a record its
\* fields for its only case.  tag: the bits seki_tag_bits gives the largest.
Declaration == [name : Nat, kind : {"alias", "nominal", "record", "variant"},
                cases : Seq(Seq(Ref)), tag : Nat]

ASSUME TableAssumption ==
  /\ Count \in Nat \ {0}
  /\ Widths \in [Builtin -> Nat]
  /\ IsFiniteSet(Builtin)
  /\ Capacity \in Nat
  /\ MaxDepth \in Nat \ {0}
  /\ WordMax \in Nat
  /\ \A n \in Builtin : n \in Nat /\ Widths[n] <= WordMax
  /\ MaxStack \in Nat \ {0, 1}

\* The host stack has room for the loop of resolve_declarations, for the
\* descent it may make, and for a resolution that meets every alias once: with
\* 32 declarations (SEKI_MODULE_MAX_DECLARATIONS) fewer than 70 small frames.
ASSUME StackAssumption == MaxStack >= MaxDepth + Count + 3

\* A chain of all the other declarations, each an alias of the next, is within
\* the bound of the loop: both are 32 in the code.
ASSUME ChainAssumption == Count <= MaxDepth

\* The parser stores one target for an alias and a nominal, and refuses a
\* second declaration of a name.
ASSUME ModulesAssumption ==
  \A m \in Modules :
    /\ m \in [Index -> Declaration]
    /\ \A i, j \in Index : m[i].name = m[j].name => i = j
    /\ \A d \in Index : m[d].kind \in {"alias", "nominal"} =>
         Len(m[d].cases) = 1 /\ Len(m[d].cases[1]) = 1

VARIABLES
  module,  \* the declarations, in source order
  phase,   \* "run", "done", "refused", "crashed"
  code,    \* the diagnostic
  table,   \* types.entries; identifiers are positions
  stack    \* the active calls, the innermost last

vars == <<module, phase, code, table, stack>>

\* SEKI_TYPE_INVALID, and the failure of a width.
Invalid == -1

Entry == [kind : {"base", "bytes", "digest", "declared", "decision"}, a : Nat, b : Nat]

(***************************************************************************)
(* A call: what it was called with and where its loop stands.  got: what   *)
(* the calls it has made for the current element have returned.            *)
(***************************************************************************)
Frame(op, subjects) ==
  [op : {op}, subject : subjects, depth : 0..MaxDepth,
   case : Nat \ {0}, field : Nat \ {0}, payload : 0..WordMax,
   widest : 0..WordMax, got : Seq(Nat \cup {Invalid})]

Ops == {"module", "resolve", "expand", "value", "declared"}

\* A call is about a declaration, a reference, a name or a type.
FrameOf(op) ==
  CASE op = "module"   -> Frame(op, 0..Count)
    [] op = "resolve"  -> Frame(op, Ref)
    [] op = "expand"   -> Frame(op, Nat)
    [] op = "value"    -> Frame(op, Nat)
    [] op = "declared" -> Frame(op, Index)

Call(op, subject, depth) ==
  [op |-> op, subject |-> subject, depth |-> depth, case |-> 1, field |-> 1,
   payload |-> 0, widest |-> 0, got |-> <<>>]

TypeOK ==
  /\ phase \in {"run", "done", "refused", "crashed"}
  /\ code \in {"none", "A0-CHECK-0012", "A0-CHECK-0013", "A0-CHECK-0014"}
  /\ table \in Seq(Entry) /\ Len(table) <= Capacity
  /\ Len(stack) \in 1..MaxStack
  /\ \A k \in DOMAIN stack :
       stack[k].op \in Ops /\ stack[k] \in FrameOf(stack[k].op)

\* seki_type_table_init, and the loop of resolve_declarations.
Init ==
  /\ module \in Modules
  /\ phase = "run"
  /\ code = "none"
  /\ table = <<>>
  /\ stack = <<Call("module", 0, 0)>>

(***************************************************************************)
(* The stack.                                                              *)
(***************************************************************************)
Top == stack[Len(stack)]

Becomes(f) == [stack EXCEPT ![Len(stack)] = f]

Running(op) == phase = "run" /\ Top.op = op

Goto(f) ==
  /\ stack' = Becomes(f)
  /\ UNCHANGED <<module, phase, code, table>>

\* Nothing but the depth of the host stack bounds the calls.
Push(f) ==
  \/ /\ Len(stack) < MaxStack
     /\ stack' = Append(stack, f)
     /\ UNCHANGED <<module, phase, code, table>>
  \/ /\ Len(stack) = MaxStack
     /\ phase' = "crashed"
     /\ UNCHANGED <<module, code, table, stack>>

Popped(value) ==
  LET caller == Len(stack) - 1
  IN [SubSeq(stack, 1, caller) EXCEPT ![caller].got = Append(@, value)]

Return(value) ==
  /\ stack' = Popped(value)
  /\ UNCHANGED <<module, phase, code, table>>

\* check_fail
Refuse(c) ==
  /\ phase' = "refused"
  /\ code' = c
  /\ UNCHANGED <<module, table, stack>>

-----------------------------------------------------------------------------
(***************************************************************************)
(* The table.                                                              *)
(***************************************************************************)
Positions(e) == {t \in DOMAIN table : table[t] = e}

\* Mutant of HasRoom: the capacity is one more than the array has.
HasRoomAtEnd(e) == Positions(e) # {} \/ Len(table) <= Capacity

HasRoom(e) == Positions(e) # {} \/ Len(table) < Capacity

\* Mutant of Interned: what was interned is never looked for.
InternedAgain(e) == Append(table, e)

\* seki_type_intern: the table with e in it, and the position e has there.
Interned(e) == IF Positions(e) # {} THEN table ELSE Append(table, e)

Position(e) ==
  IF Positions(e) # {} THEN CHOOSE t \in Positions(e) : TRUE
                       ELSE Len(table) + 1

ReturnInterned(e) ==
  \/ /\ HasRoom(e)
     /\ table' = Interned(e)
     /\ stack' = Popped(Position(e))
     /\ UNCHANGED <<module, phase, code>>
  \/ /\ ~HasRoom(e)
     /\ Return(Invalid)

Base(n) == [kind |-> "base", a |-> n, b |-> 0]
BytesOf(r) == [kind |-> r.form, a |-> r.length, b |-> 0]
Declared(d) == [kind |-> "declared", a |-> d, b |-> 0]
DecisionOf(a, b) == [kind |-> "decision", a |-> a, b |-> b]

(***************************************************************************)
(* find_declaration: the parser refuses a second declaration of a name, so *)
(* there is at most one.                                                   *)
(***************************************************************************)
Found(n) == {d \in Index : module[d].name = n}

AliasFound(n) == {d \in Found(n) : module[d].kind = "alias"}

Target(d) == module[d].cases[1][1]

(***************************************************************************)
(* seki_type_resolve.                                                      *)
(***************************************************************************)
ResolveName ==
  /\ Running("resolve")
  /\ Top.subject.form = "named"
  /\ Goto(Call("expand", Top.subject.names[1], 0))

ResolveBytes ==
  /\ Running("resolve")
  /\ Top.subject.form \in {"bytes", "digest"}
  /\ IF Top.subject.length = 0 THEN Return(Invalid)
                               ELSE ReturnInterned(BytesOf(Top.subject))

\* Decision[A, R].  Both arguments are resolved before either is looked at.
ResolveArgument ==
  /\ Running("resolve")
  /\ Top.subject.form = "applied"
  /\ Len(Top.subject.names) = 2
  /\ Len(Top.got) < 2
  /\ Push(Call("expand", Top.subject.names[Len(Top.got) + 1], 0))

ResolveDecision ==
  /\ Running("resolve")
  /\ Len(Top.got) = 2
  /\ IF Top.got[1] = Invalid \/ Top.got[2] = Invalid
     THEN Return(Invalid)
     ELSE ReturnInterned(DecisionOf(Top.got[1], Top.got[2]))

ResolveOther ==
  /\ Running("resolve")
  /\ Top.subject.form = "applied"
  /\ Len(Top.subject.names) # 2
  /\ Return(Invalid)

(***************************************************************************)
(* resolve_named_expanding: one iteration.  The loop is bounded, the call  *)
(* back to seki_type_resolve for any other target is not.                  *)
(***************************************************************************)
ExpandAlias ==
  /\ Running("expand")
  /\ Top.depth < MaxDepth
  /\ \E d \in AliasFound(Top.subject) :
       IF Target(d).form = "named"
       THEN Goto(Call("expand", Target(d).names[1], Top.depth + 1))
       ELSE Goto(Call("resolve", Target(d), 0))

\* Mutant of ExpandName: declarations come before the built-ins.
ExpandNameShadowed ==
  /\ Running("expand")
  /\ Top.depth < MaxDepth
  /\ AliasFound(Top.subject) = {}
  /\ \/ /\ Found(Top.subject) # {}
        /\ \E d \in Found(Top.subject) : ReturnInterned(Declared(d))
     \/ /\ Found(Top.subject) = {}
        /\ Top.subject \in Builtin
        /\ ReturnInterned(Base(Top.subject))
     \/ /\ Found(Top.subject) \cup ({Top.subject} \cap Builtin) = {}
        /\ Return(Invalid)

\* resolve_named: built-ins come before declarations.
ExpandName ==
  /\ Running("expand")
  /\ Top.depth < MaxDepth
  /\ AliasFound(Top.subject) = {}
  /\ \/ /\ Top.subject \in Builtin
        /\ ReturnInterned(Base(Top.subject))
     \/ /\ Top.subject \notin Builtin
        /\ \E d \in Found(Top.subject) : ReturnInterned(Declared(d))
     \/ /\ Top.subject \notin Builtin
        /\ Found(Top.subject) = {}
        /\ Return(Invalid)

\* Mutant of ExpandTooDeep: the loop has no bound.
ExpandOnAndOn ==
  /\ Running("expand")
  /\ Top.depth >= MaxDepth
  /\ Goto(Call("expand", Top.subject, 0))

ExpandTooDeep ==
  /\ Running("expand")
  /\ Top.depth >= MaxDepth
  /\ Return(Invalid)

-----------------------------------------------------------------------------
(***************************************************************************)
(* value_bits.                                                             *)
(***************************************************************************)
Larger(a, b) == IF a > b THEN a ELSE b

\* seki_checked_add and seki_checked_mul.
Checked(n) == IF n > WordMax THEN Invalid ELSE n

Kind == table[Top.subject].kind

Measurable == Top.depth < MaxDepth /\ Top.subject \in DOMAIN table

ValueTooDeep ==
  /\ Running("value")
  /\ ~Measurable
  /\ Return(Invalid)

ValueBase ==
  /\ Running("value")
  /\ Measurable
  /\ \/ Kind = "base" /\ Return(Widths[table[Top.subject].a])
     \/ Kind \in {"bytes", "digest"} /\ Return(Checked(8 * table[Top.subject].a))

\* Mutant of ValueArgument: the rejection is measured on the way the
\* acceptance took.
ValueArgumentFirst ==
  /\ Running("value")
  /\ Measurable
  /\ Kind = "decision"
  /\ Len(Top.got) < 2
  /\ Invalid \notin {Top.got[k] : k \in DOMAIN Top.got}
  /\ Push(Call("value", table[Top.subject].a, Top.depth + 1))

\* A Decision measures its rejection only when its acceptance has a width.
ValueArgument ==
  /\ Running("value")
  /\ Measurable
  /\ Kind = "decision"
  /\ Len(Top.got) < 2
  /\ Invalid \notin {Top.got[k] : k \in DOMAIN Top.got}
  /\ Push(Call("value", IF Top.got = <<>> THEN table[Top.subject].a
                                          ELSE table[Top.subject].b,
               Top.depth + 1))

ValueDecision ==
  /\ Running("value")
  /\ Measurable
  /\ Kind = "decision"
  /\ \/ /\ Invalid \in {Top.got[k] : k \in DOMAIN Top.got}
        /\ Return(Invalid)
     \/ /\ Len(Top.got) = 2
        /\ Invalid \notin {Top.got[k] : k \in DOMAIN Top.got}
        /\ Return(Checked(1 + Larger(Top.got[1], Top.got[2])))

ValueDeclared ==
  /\ Running("value")
  /\ Measurable
  /\ Kind = "declared"
  /\ \/ Top.got = <<>> /\ Push(Call("declared", table[Top.subject].a, Top.depth + 1))
     \/ Top.got # <<>> /\ Return(Top.got[1])

(***************************************************************************)
(* declared_value_bits, its loops over cases and fields, and               *)
(* lookup_field_bits.                                                      *)
(***************************************************************************)
Cases == module[Top.subject].cases

AtField == Top.case <= Len(Cases) /\ Top.field <= Len(Cases[Top.case])

AtCaseEnd == Top.case <= Len(Cases) /\ Top.field > Len(Cases[Top.case])

AtEnd == Top.case > Len(Cases)

Measuring == Running("declared") /\ Top.depth < MaxDepth

DeclaredTooDeep ==
  /\ Running("declared")
  /\ Top.depth >= MaxDepth
  /\ Return(Invalid)

\* The first call for a field resolves it, the second measures the type.
FieldResolve ==
  /\ Measuring
  /\ AtField
  /\ Top.got = <<>>
  /\ Push(Call("resolve", Cases[Top.case][Top.field], 0))

FieldMeasure ==
  /\ Measuring
  /\ AtField
  /\ Len(Top.got) = 1
  /\ IF Top.got[1] = Invalid
     THEN Return(Invalid)
     ELSE Push(Call("value", Top.got[1], Top.depth + 1))

FieldAdd ==
  /\ Measuring
  /\ AtField
  /\ Len(Top.got) = 2
  /\ IF Top.got[2] = Invalid \/ Top.payload + Top.got[2] > WordMax
     THEN Return(Invalid)
     ELSE Goto([Top EXCEPT !.payload = @ + Top.got[2], !.field = @ + 1,
                           !.got = <<>>])

\* Mutant of CaseEnd: the next case goes on where this one stopped.
CaseEndAdds ==
  /\ Measuring
  /\ AtCaseEnd
  /\ Goto([Top EXCEPT !.widest = Larger(@, Top.payload),
                      !.case = @ + 1, !.field = 1])

CaseEnd ==
  /\ Measuring
  /\ AtCaseEnd
  /\ Goto([Top EXCEPT !.widest = Larger(@, Top.payload), !.payload = 0,
                      !.case = @ + 1, !.field = 1])

DeclaredEnd ==
  /\ Measuring
  /\ AtEnd
  /\ Return(Checked(module[Top.subject].tag + Top.widest))

(***************************************************************************)
(* resolve_declarations.                                                   *)
(***************************************************************************)
ResolveField ==
  /\ Running("module")
  /\ Top.subject < Count
  /\ AtField
  /\ \/ /\ Top.got = <<>>
        /\ Push(Call("resolve", Cases[Top.case][Top.field], 0))
     \/ /\ Top.got = <<Invalid>>
        /\ Refuse("A0-CHECK-0012")
     \/ /\ Top.got # <<>> /\ Top.got # <<Invalid>>
        /\ Goto([Top EXCEPT !.field = @ + 1, !.got = <<>>])

ResolveCaseEnd ==
  /\ Running("module")
  /\ Top.subject < Count
  /\ AtCaseEnd
  /\ Goto([Top EXCEPT !.case = @ + 1, !.field = 1])

\* An alias is not interned; what is measured for it is the first type of
\* the table.
ResolveAlias ==
  /\ Running("module")
  /\ Top.subject < Count
  /\ AtEnd
  /\ Top.got = <<>>
  /\ module[Top.subject].kind = "alias"
  /\ Push(Call("value", 1, 0))

InternDeclaration ==
  /\ Running("module")
  /\ Top.subject < Count
  /\ AtEnd
  /\ Top.got = <<>>
  /\ module[Top.subject].kind # "alias"
  /\ LET e == Declared(Top.subject)
     IN \/ /\ ~HasRoom(e)
           /\ Refuse("A0-CHECK-0014")
        \/ /\ HasRoom(e)
           /\ table' = Interned(e)
           /\ stack' = Append(stack, Call("value", Position(e), 0))
           /\ UNCHANGED <<module, phase, code>>

\* Mutant of CheckWidth: the width is derived and not looked at.
CheckNothing ==
  /\ Running("module")
  /\ Top.subject < Count
  /\ Top.got # <<>>
  /\ AtEnd
  /\ Goto(Call("module", Top.subject + 1, 0))

\* width_of
CheckWidth ==
  /\ Running("module")
  /\ Top.subject < Count
  /\ Top.got # <<>>
  /\ AtEnd
  /\ IF Top.got = <<Invalid>>
     THEN Refuse("A0-CHECK-0013")
     ELSE Goto(Call("module", Top.subject + 1, 0))

Accept ==
  /\ Running("module")
  /\ Top.subject = Count
  /\ phase' = "done"
  /\ UNCHANGED <<module, code, table, stack>>

Next ==
  \/ ResolveName \/ ResolveBytes \/ ResolveArgument \/ ResolveDecision
  \/ ResolveOther \/ ExpandAlias \/ ExpandName \/ ExpandTooDeep
  \/ ValueTooDeep \/ ValueBase \/ ValueArgument \/ ValueDecision
  \/ ValueDeclared \/ DeclaredTooDeep \/ FieldResolve \/ FieldMeasure
  \/ FieldAdd \/ CaseEnd \/ DeclaredEnd
  \/ ResolveField \/ ResolveCaseEnd \/ ResolveAlias \/ InternDeclaration
  \/ CheckWidth \/ Accept

Spec == Init /\ [][Next]_vars

FairSpec == Spec /\ WF_vars(Next)

-----------------------------------------------------------------------------
(***************************************************************************)
(* What a reference means, how wide its values are and how many calls deep *)
(* the derivation of that goes, by the declarations alone: no table, no    *)
(* order, no budget.  A chain of names without a repetition ends within    *)
(* Rounds; a longer one means nothing, a width past U32 is Beyond, and a   *)
(* depth past the budget TooDeep.                                          *)
(***************************************************************************)
Known == Builtin \cup {module[d].name : d \in Index}

Rounds == Cardinality(Known) + 1

NamesOf(r) ==
  IF r.form \in {"named", "applied"}
  THEN {r.names[k] : k \in DOMAIN r.names} ELSE {}

\* No declarations could make these a type.
Unresolvable(r) ==
  \/ r.form \in {"bytes", "digest"} /\ r.length = 0
  \/ r.form = "applied" /\ Len(r.names) # 2
  \/ ~(NamesOf(r) \subseteq Known)

TheAlias(n) == CHOOSE d \in AliasFound(n) : TRUE

TheFound(n) == CHOOSE d \in Found(n) : TRUE

Nothing == <<"nothing">>

\* What r means when names mean what they do in known.
RefMeaning(r, known) ==
  IF Unresolvable(r) \/ \E n \in NamesOf(r) : known[n] = Nothing THEN Nothing
  ELSE IF r.form = "named" THEN known[r.names[1]]
  ELSE IF r.form = "applied"
  THEN <<"decision", known[r.names[1]], known[r.names[2]]>>
  ELSE <<r.form, r.length>>

Meaning ==
  LET after[k \in 0..Rounds] ==
        LET known == after[k - 1]
        IN [n \in Known |->
              IF k = 0 THEN Nothing
              ELSE IF AliasFound(n) # {}
              THEN RefMeaning(Target(TheAlias(n)), known)
              ELSE IF n \in Builtin THEN <<"base", n>>
              ELSE <<"declared", TheFound(n)>>]
  IN after[Rounds]

\* What the entries of the table stand for.
Denotation ==
  LET of[t \in DOMAIN table] ==
        IF table[t].kind = "decision"
        THEN <<"decision", of[table[t].a], of[table[t].b]>>
        ELSE <<table[t].kind, table[t].a>>
  IN of

Beyond == WordMax + 1

Capped(n) == IF n > WordMax THEN Beyond ELSE n

RefBits(r, bits) ==
  IF Unresolvable(r) THEN Beyond
  ELSE IF r.form = "named" THEN bits[r.names[1]]
  ELSE IF r.form = "applied"
  THEN Capped(1 + Larger(bits[r.names[1]], bits[r.names[2]]))
  ELSE Capped(8 * r.length)

Total(s) ==
  LET sum[k \in 0..Len(s)] == IF k = 0 THEN 0 ELSE sum[k - 1] + s[k]
  IN sum[Len(s)]

Greatest(S) == CHOOSE w \in S : \A v \in S : v <= w

CaseBits(c, bits) == Total([k \in DOMAIN c |-> RefBits(c[k], bits)])

\* The sum of a case, the widest case, and the tag.
DeclarationBits(d, bits) ==
  LET cases == module[d].cases
  IN Capped(module[d].tag +
            Greatest({0} \cup {CaseBits(cases[c], bits) : c \in DOMAIN cases}))

NameBits ==
  LET after[k \in 0..Rounds] ==
        LET bits == after[k - 1]
        IN [n \in Known |->
              IF k = 0 THEN Beyond
              ELSE IF AliasFound(n) # {}
              THEN RefBits(Target(TheAlias(n)), bits)
              ELSE IF n \in Builtin THEN Widths[n]
              ELSE DeclarationBits(TheFound(n), bits)]
  IN after[Rounds]

Refs(d) ==
  UNION {{c[k] : k \in DOMAIN c} :
           c \in {module[d].cases[i] : i \in DOMAIN module[d].cases}}

TooDeep == MaxDepth + 1

Within(n) == IF n > MaxDepth THEN TooDeep ELSE n

RefDepth(r, depths) ==
  IF Unresolvable(r) THEN TooDeep
  ELSE IF r.form = "named" THEN depths[r.names[1]]
  ELSE IF r.form = "applied"
  THEN Within(1 + Larger(depths[r.names[1]], depths[r.names[2]]))
  ELSE 1

\* A declaration is a type to measure and then a body, whose fields are next.
DeclarationDepth(d, depths) ==
  Within(2 + Greatest({0} \cup {RefDepth(r, depths) : r \in Refs(d)}))

NameDepth ==
  LET after[k \in 0..Rounds] ==
        LET depths == after[k - 1]
        IN [n \in Known |->
              IF k = 0 THEN TooDeep
              ELSE IF AliasFound(n) # {}
              THEN RefDepth(Target(TheAlias(n)), depths)
              ELSE IF n \in Builtin THEN 1
              ELSE DeclarationDepth(TheFound(n), depths)]
  IN after[Rounds]

\* The rings that aliases form among themselves.
AliasRing ==
  \E S \in (SUBSET {d \in Index : module[d].kind = "alias"}) \ {{}} :
    \A d \in S : \E n \in NamesOf(Target(d)) : Found(n) \cap S # {}

\* The declarations as the layout sees them.
Surface ==
  [d \in Index |->
    [name |-> module[d].name, kind |-> module[d].kind,
     named |-> UNION {NamesOf(r) : r \in {q \in Refs(d) : q.form = "named"}},
     applied |-> UNION {NamesOf(r) : r \in {q \in Refs(d) : q.form = "applied"}}]]

Layout == INSTANCE TypeLayout WITH
  Modules <- {}, type_order <- <<>>, type_position <- <<>>, index <- 0,
  candidate <- 0, position <- 0, dependency_order <- <<>>, placed <- {}

-----------------------------------------------------------------------------
(***************************************************************************)
(* seki_types.h:11: "two identical types share one identifier and exact    *)
(* normalized identity is an integer comparison".  No two entries are the  *)
(* same, and an entry is built from earlier ones; so, by induction along   *)
(* the table, no two entries stand for the same type.                      *)
(***************************************************************************)
IdentityIsEquality ==
  \A t \in DOMAIN table :
    /\ \A u \in DOMAIN table : table[t] = table[u] => t = u
    /\ table[t].kind = "decision" => table[t].a \in 1..(t - 1) /\ table[t].b \in 1..(t - 1)

(***************************************************************************)
(* Whatever has been interned before and in whichever order, a reference   *)
(* resolves to the type it means: aliases are transparent, declarations    *)
(* opaque, and nothing is refused that has a meaning while the table has   *)
(* room.                                                                   *)
(***************************************************************************)
Resolved ==
  /\ phase = "run"
  /\ Top.op \in {"module", "declared"}
  /\ Top.got # <<>>
  /\ AtField

ResolutionIsMeaning ==
  Resolved =>
    LET meaning == RefMeaning(Cases[Top.case][Top.field], Meaning)
    IN IF Top.got[1] = Invalid
       THEN meaning = Nothing \/ Len(table) = Capacity
       ELSE Denotation[Top.got[1]] = meaning

(***************************************************************************)
(* A width that is derived, of a field or of a declaration, is the width   *)
(* of its largest value, with every addition done in unbounded numbers.    *)
(***************************************************************************)
WidthIsExact ==
  /\ (Resolved /\ Len(Top.got) = 2 /\ Top.got[2] # Invalid) =>
       Top.got[2] = RefBits(Cases[Top.case][Top.field], NameBits)
  /\ ( /\ Running("module")
       /\ Top.got # <<>>
       /\ AtEnd
       /\ module[Top.subject].kind # "alias"
       /\ Top.got[1] # Invalid ) =>
       Top.got[1] = DeclarationBits(Top.subject, NameBits)

(***************************************************************************)
(* seki_types.h:76-78: the width fails "on checked-arithmetic overflow or  *)
(* an unresolvable declaration".  A module refused for a width has a       *)
(* declaration that contains itself, passes U32 or cannot be resolved (the *)
(* table being full is one reason), or one whose body is nested deeper     *)
(* than the budget, which every declaration on the way uses twice.         *)
(***************************************************************************)
FiniteIsAccepted ==
  code = "A0-CHECK-0013" =>
    \/ \E d \in Index : DeclarationBits(d, NameBits) = Beyond
    \/ \E d \in Index : /\ module[d].kind # "alias"
                        /\ DeclarationDepth(d, NameDepth) = TooDeep
    \/ Len(table) = Capacity

(***************************************************************************)
(* What the layout relies on: in a module that is accepted no declarations *)
(* contain one another in a ring, whether directly, through an alias or    *)
(* inside a Decision; and the recursion that finds that out exhausts the   *)
(* host stack only for aliases in a ring.                                  *)
(***************************************************************************)
RingsAreFound ==
  /\ phase = "done" => Layout!Formed(Surface)
  /\ phase = "crashed" => AliasRing

\* Resolution and width derivation end, for rings as well.
CheckEnds == <>(phase # "run")

(***************************************************************************)
(* seki_types.c:5-10: width derivation "carries its own descent budget so  *)
(* a cyclic module fails closed here instead of exhausting the host stack" *)
(***************************************************************************)
NeverCrashes == phase # "crashed"
=============================================================================
