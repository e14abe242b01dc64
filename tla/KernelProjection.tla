---------------------------- MODULE KernelProjection ----------------------------
(***************************************************************************)
(* An emitted kernel on its way to C: compile_source and seki_core_to_c    *)
(* (src/src/alpha/sekic.c, src/src/alpha/seki_c_backend.c) read the core   *)
(* back into arenas and print it.  KernelPipeline is what happens before.  *)
(* Checker and emitter accept more than the reader takes and the printer   *)
(* prints, and what is printed has to mean to a C compiler what the source *)
(* means to its reader.                                                    *)
(***************************************************************************)
EXTENDS KernelPipeline, RestrictedC

VARIABLES
  restricted,  \* the module the reader has decoded
  source       \* the printed unit

allVars == <<vars, restricted, source>>

ProjectionInit ==
  /\ Init
  /\ restricted = Absent
  /\ source = Absent

\* The passes of KernelPipeline that come before.
Built ==
  /\ CheckHeader \/ CheckTail \/ CheckOrder \/ DeriveCost \/ CompareCeilings \/ Emit
  /\ UNCHANGED <<restricted, source>>

Taken(d) ==
  /\ Pass(IF d.m.failed THEN "A0-BACKEND-0001" ELSE "ok", "decoded")
  /\ restricted' = d

Decode ==
  /\ phase = "written"
  /\ Taken(decode_module(core))
  /\ UNCHANGED <<kernel, body, exact, core, reasons, source>>

RECURSIVE Texts(_)

\* Every token of a block, also of the blocks inside.
Texts(items) ==
  FlattenSeq([j \in DOMAIN items |->
                items[j].tokens \o Texts(items[j].then) \o Texts(items[j].else)])

Printed(unit) ==
  LET stuck == failed[1] \in ToSet(Texts(unit.body))
  IN /\ Pass(IF stuck THEN "A0-BACKEND-0002" ELSE "ok", "printed")
     /\ source' = IF stuck THEN Absent ELSE unit

WriteC ==
  /\ phase = "decoded"
  /\ Printed(print_module(restricted, core, kernel.name))
  /\ UNCHANGED <<kernel, body, exact, core, reasons, restricted>>

ProjectionNext == Built \/ Decode \/ WriteC

ProjectionSpec == ProjectionInit /\ [][ProjectionNext]_allVars

-----------------------------------------------------------------------------
(***************************************************************************)
(* Types: a unit is there when it was printed and only then, a decoded     *)
(* module as long as it is needed, and no arena is ever past its capacity. *)
(***************************************************************************)
ProjectionTypeOK ==
  /\ phase \in {"header", "tail", "order", "cost", "ceilings", "emit", "written",
                "decoded", "printed", "refused"}
  /\ (code # "ok") <=> (phase = "refused")
  /\ (source # Absent) <=> (phase = "printed")
  /\ phase \in {"decoded", "printed"} =>
       /\ ~restricted.m.failed
       /\ Len(restricted.m.expressions) <= Capacity.expressions
       /\ Len(restricted.m.record_fields) <= Capacity.record_fields
       /\ Len(restricted.m.tails) <= Capacity.tails
       /\ Len(restricted.m.arms) <= Capacity.tails

-----------------------------------------------------------------------------
RECURSIVE HoldsTerm(_, _, _, _)

\* Node i of the arenas is term e, where env names the slots in scope.
HoldsTerm(m, i, e, env) ==
  LET x == m.expressions[i]
      Moved == /\ x.owner = e.owner /\ x.count = Len(e.values)
               /\ \A j \in DOMAIN e.values :
                    HoldsTerm(m, m.record_fields[x.first + j], e.values[j], env)
      Compared(operator) == x.kind = "compare" /\ CompareOperators[x.compare + 1] = operator
  IN /\ x.type = e.type
     /\ CASE e.term = "equal"     -> Compared("==")
          [] e.term = "not_equal" -> Compared("!=")
          [] e.term = "compare"   -> Compared(CoreOperations[e.operation + 1])
          [] OTHER -> x.kind = e.term
     /\ CASE e.term = "unit"    -> TRUE
          [] e.term = "bool"    -> x.value = Truth(e.value)
          [] e.term = "int"     -> x.value = e.value
          [] e.term = "local"   -> x.binding = env[e.slot + 1]
          [] e.term = "project" -> /\ x.field = e.field
                                   /\ HoldsTerm(m, x.record, e.receiver, env)
          [] e.term = "record"  -> Moved
          [] e.term = "variant" -> x.tag = e.tag /\ Moved
          [] OTHER -> /\ HoldsTerm(m, x.left, e.left, env)
                      /\ HoldsTerm(m, x.right, e.right, env)

RECURSIVE HoldsTail(_, _, _, _)
HoldsTail(m, i, e, env) ==
  LET t == m.tails[i]
      Term(j, x) == HoldsTerm(m, j, x, env)
  IN /\ t.kind = e.term
     /\ CASE e.term = "accept"  -> Term(t.value, e.value)
          [] e.term = "reject"  -> Term(t.reason, e.reason)
          [] e.term = "require" -> /\ Term(t.condition, e.condition)
                                   /\ Term(t.reason, e.reason)
                                   /\ t.premise = e.precedence
                                   /\ HoldsTail(m, t.continuation, e.continuation, env)
          [] e.term = "let"     -> /\ Term(t.value, e.value)
                                   /\ t.ordinal \notin ToSet(env)
                                   /\ HoldsTail(m, t.body, e.body, <<t.ordinal>> \o env)
          [] e.term = "if"      -> /\ Term(t.condition, e.condition)
                                   /\ HoldsTail(m, t.if_true, e.if_true, env)
                                   /\ HoldsTail(m, t.if_false, e.if_false, env)
          [] e.term = "match"   ->
               /\ Term(t.scrutinee, e.scrutinee) /\ t.count = Len(e.arms)
               /\ \A j \in DOMAIN e.arms :
                    /\ m.arms[t.first + j].tag = e.arms[j].tag
                    /\ HoldsTail(m, m.arms[t.first + j].body, e.arms[j].body, env)

(***************************************************************************)
(* The arenas hold the body that was written: followed from its root, with *)
(* every name a binding or the parameter as its slot says, they give the   *)
(* tree back, and nothing else was stored (decode_expression, decode_tail: *)
(* reserved ranges, indices returned, ordinals for slots).                 *)
(***************************************************************************)
ArenasHoldTree ==
  phase \in {"decoded", "printed"} =>
    /\ HoldsTail(restricted.m, restricted.at, core.body, <<Invalid>>)
    /\ Len(restricted.m.expressions) = Len(Expressions(core.body))
    /\ Len(restricted.m.tails) = Len(Controls(core.body))

-----------------------------------------------------------------------------
\* How many of a sequence are as they say.
Total(s, Count(_)) == FoldLeft(LAMBDA n, x : n + Count(x), 0, s)

\* The nodes the parser had stored for the body: a reason is part of its tail.
ParsedNodes(c) ==
  LET Own(t) == IF t.term \in {"require", "reject"} THEN 0 ELSE 1
  IN Len(Expressions(c.body)) + Total(Controls(c.body), Own)

Constructed(c) ==
  LET Own(e) == IF e.term \in {"record", "variant"} THEN Len(e.values) ELSE 0
  IN Total(Expressions(c.body), Own)

\* A field of another record than the parameter's.
ProjectsElsewhere(c) ==
  LET terms == Expressions(c.body)
  IN \E j \in DOMAIN terms : /\ terms[j].term = "project"
                             /\ terms[j].owner # c.parameters[1]

(***************************************************************************)
(* What the header of a module may hold that C has no type for, or the     *)
(* reader no room.  Payloads may hold what other members may not.          *)
(***************************************************************************)
TooLong(t) == t \in DOMAIN Lengths \ {"Digest"} /\ Lengths[t] > Capacity.octets

Lifted(t) == t = "Decision" \/ TooLong(t)

HeaderOutside(module) ==
  \/ module.profile # "c11_bounded@1"
  \/ module.longest >= Capacity.name
  \/ \E t \in module.types :
       \/ \E f \in ToSet(FieldsOf(t)) : f.type \in {"Unit", "Bool"} \/ Lifted(f.type)
       \/ StandsFor(t) /\ \/ Declarations[t].target \in {"Unit", "Bool"}
                          \/ Lifted(Declarations[t].target)
       \/ \E x \in ToSet(CasesOf(t)) :
            x.tag > Capacity.tag \/ \E f \in ToSet(x.payload) : Lifted(f.type)

\* k is the kernel, c what was written of it.
Unprojectable(k, c) ==
  \/ HeaderOutside(k.module)
  \/ k.module.kernels > 1
  \/ k.publication
  \/ Len(k.parameters) # 1
  \/ ~IsA("record", k.parameters[1].type)
  \/ k.accepted = "Decision"
  \/ expand(k.accepted) \in DOMAIN Lengths
  \/ ~IsA("variant", k.rejection)
  \/ ProjectsElsewhere(c)
  \/ Len(Controls(c.body)) > Capacity.tails
  \/ Constructed(c) > Capacity.record_fields

\* A record, a reason or unit where C has a value: inside another expression,
\* or as what a binding names.
AggregateAsValue(c) ==
  LET Aggregate(e) == e.term \in {"record", "variant", "unit"}
      Inside(h) == \E j \in 1..(Len(Terms(h)) - 1) : Aggregate(Terms(h)[j])
      tails == Controls(c.body)
  IN \E j \in DOMAIN tails :
       \/ \E h \in DOMAIN Heads(tails[j]) : Inside(Heads(tails[j])[h])
       \/ tails[j].term = "let" /\ Aggregate(tails[j].value)

(***************************************************************************)
(* What passes every check and is emitted is refused by the reader for one *)
(* of these reasons and no other: the profile, a name too long, a member   *)
(* that is Unit, Bool, a Decision or too many octets, a tag above an       *)
(* octet, a second kernel, publication, a signature other than from one    *)
(* record to what is no octets and a variant, a field that is not the      *)
(* parameter's, or more tails or constructed fields than there is room     *)
(* for.  Arms, nesting and expressions need no test of their own,          *)
(* expressions because the parser stores at most as many nodes             *)
(* (SEKI_KERNEL_MAX_EXPRESSIONS, RESTRICTED_MAX_EXPRESSIONS); of           *)
(* constructed fields it stores half of what the reader has room for, so   *)
(* only the small capacity here is ever passed.  What is decoded is        *)
(* printed unless an aggregate stands where C has a value: that is refused *)
(* as if the text were too long (print_expression).                        *)
(***************************************************************************)
RefusedExactly ==
  /\ (core # Absent /\ phase # "written" /\ ParsedNodes(core) <= Capacity.expressions) =>
       ((code = "A0-BACKEND-0001") <=> Unprojectable(kernel, core))
  /\ (phase = "printed" \/ code = "A0-BACKEND-0002") =>
       ((phase = "refused") <=> AggregateAsValue(core))

-----------------------------------------------------------------------------
\* What in the source makes C11 refuse the unit.
StartsWithLet(t) ==
  {j \in DOMAIN t.arms : t.arms[j].body.term = "let"}

LetsInArms(c, n) ==
  LET tails == Controls(c.body)
  IN \E j \in DOMAIN tails : /\ tails[j].term = "match"
                             /\ Cardinality(StartsWithLet(tails[j])) >= n

EqualAggregates(c) ==
  LET terms == Expressions(c.body)
  IN \E j \in DOMAIN terms : /\ terms[j].term \in {"equal", "not_equal"}
                             /\ \E kind \in {"record", "variant"} :
                                  IsA(kind, expand(terms[j].left.type))

\* Octets as operands of the terms of some kinds.
MovesOctets(c, kinds) ==
  LET terms == Expressions(c.body)
  IN \E j \in DOMAIN terms : \E v \in DOMAIN Parts(terms[j]) :
       terms[j].term \in kinds /\ Octets(Parts(terms[j])[v].type)

OctetsOnlyInReasons(c) == MovesOctets(c, {"variant"}) /\ ~MovesOctets(c, {"record"})

RejectionIsMember(k) ==
  \/ k.accepted = k.rejection
  \/ \E t \in k.module.types :
       \/ \E f \in ToSet(FieldsOf(t)) : f.type = k.rejection
       \/ \E x \in ToSet(CasesOf(t)) : \E f \in ToSet(x.payload) : f.type = k.rejection
       \/ StandsFor(t) /\ Declarations[t].target = k.rejection

\* What gets an identifier, [what, type, case], and how it is spelled.
Entity(what, t, case) == [what |-> what, type |-> t, case |-> case]

Entities(k, c) ==
  LET own == k.module.types \ {k.rejection}
      carrying(t) == {x.name : x \in {y \in ToSet(CasesOf(t)) : y.payload # <<>>}}
  IN {Entity("type", t, "") : t \in own}
       \cup UNION {{Entity("case", t, x) : x \in carrying(t)} : t \in own}
       \cup {Entity("payload", "", x) : x \in carrying(k.rejection)}
       \cup {Entity(what, "", "") : what \in {"decision", "zero", "kernel"}}
       \cup {Entity("octets_equal", "", "") :
               what \in When(MovesOctets(c, {"equal", "not_equal"}), "printed")}
       \cup {Entity("octets_copy", "", "") :
               what \in When(MovesOctets(c, {"record"}), "printed")}

Spelling(x, k) ==
  CASE x.what = "type"    -> Lower[x.type]
    [] x.what = "case"    -> Lower[x.type] \o Lower[x.case]
    [] x.what = "payload" -> <<"payload">> \o Lower[x.case]
    [] x.what = "kernel"  -> k.name
    [] x.what = "octets_equal" -> <<"octets", "equal">>
    [] x.what = "octets_copy"  -> <<"octets", "copy">>
    [] OTHER -> <<x.what>>

\* Two things spelled alike, unless they are names for one type.
SpelledAlike(k, c) ==
  \E x, y \in Entities(k, c) :
    /\ x # y /\ Spelling(x, k) = Spelling(y, k)
    /\ ~(/\ x.what = "type" /\ StandsFor(x.type)
         /\ y.what = "type" /\ StandsFor(y.type)
         /\ SameInC(x.type, y.type))

\* A case with a payload whose name is a keyword of C in lower case.
CaseIsKeyword(k) ==
  \E t \in k.module.types : \E x \in ToSet(CasesOf(t)) :
    x.payload # <<>> /\ Len(Lower[x.name]) = 1 /\ Lower[x.name][1] \in Keywords

(***************************************************************************)
(* A printed unit compiles, but for exactly these: an arm that starts with *)
(* a binding (a declaration after a label), two such arms (one name twice  *)
(* in the switch), records or variants compared as a whole, octets moved   *)
(* only into a reason (the helper is not printed), the rejection variant   *)
(* as the type of a member or as what is accepted (it has no typedef), two *)
(* of the types, cases, helpers and the kernel with one spelling in lower  *)
(* case, and a case that is a keyword (print_tail, print_module).          *)
(***************************************************************************)
CompilesExactly ==
  phase = "printed" =>
    CompileReasons(source, core)
      = When(LetsInArms(core, 1), "label") \cup When(LetsInArms(core, 2), "redeclared")
          \cup When(EqualAggregates(core), "operands")
          \cup When(OctetsOnlyInReasons(core), "helper")
          \cup When(RejectionIsMember(kernel), "typedef")
          \cup When(SpelledAlike(kernel, core), "identifier")
          \cup When(CaseIsKeyword(kernel), "keyword")

-----------------------------------------------------------------------------
\* A source value as C has it.
RECURSIVE Projected(_, _)
Projected(v, t) ==
  CASE IsA("nominal", t) -> Projected(v, Declarations[t].target)
    [] IsA("record", t)  -> [n \in DOMAIN v |-> Projected(v[n], MemberType(t, n))]
    [] IsA("variant", t) -> [tag |-> CasesOf(t)[Min(Named(CasesOf(t), v.item))].tag]
    [] t = "Bool" -> Truth(v)
    [] OTHER -> v

\* The decision a consumer of the unit must get for decision d of kernel k.
DecisionResult(d, k) ==
  LET case == CasesOf(k.rejection)[Min(Named(CasesOf(k.rejection), d.value.item))]
      Payload(f) == Projected(d.value.payload[f.name], f.type)
      at == CHOOSE j \in DOMAIN k.rejections : k.rejections[j].item = d.value.item
  IN IF d.accepts
     THEN [Zeroed EXCEPT
             !.disposition = 1,
             !.accepted = IF k.accepted = "Unit" THEN <<>>
                          ELSE MembersOf(Projected(d.value, k.accepted), k.accepted)]
     ELSE [Zeroed EXCEPT
             !.disposition = 2, !.rejection_tag = case.tag,
             !.premise_tag = IF d.premise THEN at ELSE 0,
             !.case = IF case.payload = <<>> THEN "" ELSE case.name,
             !.payload = [n \in {f.name : f \in ToSet(case.payload)} |->
                            Payload(case.payload[Min(Named(case.payload, n))])]]

Decides(u, c, k) ==
  \A v \in Sample[c.parameters[1]] :
    Call(u, Projected(v, c.parameters[1]), c)
      = DecisionResult(Decision(k.body, k.parameters[1].name :> v), k)

\* An equality of Booleans printed without the grouping it has in the source.
Regrouped(c) ==
  LET terms == Expressions(c.body)
      Bare(e) == e.term \in {"equal", "not_equal"} /\ ~Octets(e.left.type)
  IN \E j \in DOMAIN terms :
       /\ Bare(terms[j])
       /\ \/ terms[j].left.term \in {"and", "or"}
          \/ terms[j].right.term \in {"and", "or"}
          \/ Bare(terms[j].right)

(***************************************************************************)
(* The compiled function decides as the source does, for all sampled       *)
(* arguments: the disposition, the tag of the rejection, the number of the *)
(* premise that failed, the accepted value and the payload, member by      *)
(* member (seki_core_to_c after put_kernel), unless an equality has lost   *)
(* its grouping.                                                           *)
(***************************************************************************)
ProjectionDecides ==
  (phase = "printed" /\ CompileReasons(source, core) = {} /\ ~Regrouped(core)) =>
    Decides(source, core, kernel)

(***************************************************************************)
(* seki_c_backend.c:1357: "Parenthesises an operand that is itself a       *)
(* short-circuit node, so the printed C groups exactly as the decoded tree *)
(* does rather than relying on the reader to recall C's precedence between *)
(* `&&` and `||`."                                                         *)
(***************************************************************************)
GroupsAsTree ==
  (phase = "printed" /\ CompileReasons(source, core) = {}) =>
    Decides(source, core, kernel)
=============================================================================
