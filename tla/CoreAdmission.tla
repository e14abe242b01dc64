----------------------------- MODULE CoreAdmission -----------------------------
(***************************************************************************)
(* The independent reader of a core kernel                                 *)
(* (src/tools/encoding/check_typed_core.mjs): it derives types and costs   *)
(* again from the tree the emitter wrote and compares them with the ones   *)
(* stored there.  Of the terms it knows, the ones the emitter writes.      *)
(*                                                                         *)
(* Reasons are collected in a set, empty when the kernel is admitted; the  *)
(* code stops at the first one it meets.  "none" is the type of a term     *)
(* that has none.                                                          *)
(***************************************************************************)
EXTENDS Integers, SequencesExt

CONSTANTS
  Core,      \* declared types by name: members in canonical order
  Lengths,   \* the octet types with their lengths
  MaxNat,    \* MAX_NAT, the largest natural of the encoding
  Profile    \* C11_BOUNDED_PROFILE: [name, expressions, nesting, and the bounds]

DeclaredAs(kind, t) == t \in DOMAIN Core /\ Core[t].kind = kind

Fields(t) == IF DeclaredAs("record", t) THEN Core[t].fields ELSE <<>>

Constructors(t) == IF DeclaredAs("variant", t) THEN Core[t].cases ELSE <<>>

isInteger(t) == t \in {"U8", "U64"}

tagBits(tag) == IF tag = 0 THEN 0 ELSE CHOOSE k \in 1..32 : tag \div 2^(k - 1) = 1

RECURSIVE width(_)
width(t) ==
  LET Sum(fields) == FoldLeft(LAMBDA sum, f : sum + width(f.type), 0, fields)
  IN CASE t = "Bool" -> 1
       [] t = "U8"   -> 8
       [] t = "U64"  -> 64
       [] t = "Decision" -> 2
       [] t \in DOMAIN Lengths -> 8 * Lengths[t]
       [] DeclaredAs("nominal", t) -> width(Core[t].target)
       [] DeclaredAs("record", t)  -> Sum(Fields(t))
       [] DeclaredAs("variant", t) ->
            tagBits(Max({c.tag : c \in ToSet(Constructors(t))}))
              + Max({Sum(c.payload) : c \in ToSet(Constructors(t))})
       [] OTHER -> 0

-----------------------------------------------------------------------------
(***************************************************************************)
(* infer.                                                                  *)
(***************************************************************************)
If(condition, reason) == IF condition THEN {reason} ELSE {}

finishExpression(e, inferred, reasons) ==
  [type |-> inferred, reasons |-> reasons \cup If(e.type # inferred, "0800")]

RECURSIVE infer(_, _)

ReasonsOf(s) == UNION {s[j].reasons : j \in DOMAIN s}

\* The values of a construction have the types of its members, in their order.
Members(members, values, env, reason) ==
  LET Agree(inferred) ==
        ReasonsOf(inferred) \cup
        If(\E j \in DOMAIN values : inferred[j].type # members[j].type, reason)
  IN IF Len(values) # Len(members) THEN {reason}
     ELSE Agree([j \in DOMAIN values |-> infer(values[j], env)])

inferLocal(e, env) ==
  IF e.slot >= Len(env) THEN finishExpression(e, "none", {"0702"})
  ELSE finishExpression(e, env[e.slot + 1], {})

inferProject(e, env) ==
  LET receiver == infer(e.receiver, env)
      fields == Fields(e.owner)
      reasons == receiver.reasons
                   \cup If(~DeclaredAs("record", e.owner), "0701")
                   \cup If(receiver.type # e.owner, "0704")
                   \cup If(e.field > Len(fields), "0703")
  IN finishExpression(e, IF e.field \in DOMAIN fields THEN fields[e.field].type
                         ELSE "none", reasons)

inferVariant(e, env) ==
  LET cases == {j \in DOMAIN Constructors(e.owner) : Constructors(e.owner)[j].tag = e.tag}
      payload == Constructors(e.owner)[Min(cases)].payload
  IN finishExpression(e, e.owner,
       IF cases = {} THEN {"0705"}
       ELSE Members(payload, e.values, env, "0806")
              \cup If([j \in DOMAIN payload |-> payload[j].name] # e.names, "0806"))

inferBinary(e, env) ==
  LET Operands(l, r) ==
        CASE e.term \in {"equal", "not_equal"} -> If(l # r, "0801")
          [] e.term = "compare" -> If(l # r \/ ~isInteger(l), "080a")
          [] e.term \in {"and", "or"} -> If(l # "Bool" \/ r # "Bool", "0801")
      Both(left, right) ==
        finishExpression(e, "Bool", left.reasons \cup right.reasons
                                      \cup Operands(left.type, right.type))
  IN Both(infer(e.left, env), infer(e.right, env))

infer(e, env) ==
  CASE e.term = "unit"    -> finishExpression(e, "Unit", {})
    [] e.term = "bool"    -> finishExpression(e, "Bool", {})
    [] e.term = "int"     -> finishExpression(e, IF isInteger(e.type) THEN e.type
                                                 ELSE "none", {})
    [] e.term = "local"   -> inferLocal(e, env)
    [] e.term = "project" -> inferProject(e, env)
    [] e.term = "record"  ->
         finishExpression(e, e.owner,
           If(~DeclaredAs("record", e.owner), "0701")
             \cup Members(Fields(e.owner), e.values, env, "0805"))
    [] e.term = "variant" -> inferVariant(e, env)
    [] e.term \in {"equal", "not_equal", "compare", "and", "or"} -> inferBinary(e, env)

(***************************************************************************)
(* checkKernel, in core kernel c.                                          *)
(***************************************************************************)
\* Any other type has no tags, and no order is equal to that.
constructorTags(t) == [j \in DOMAIN Constructors(t) |-> Constructors(t)[j].tag]

checkRejection(e, c, env, floor) ==
  infer(e.reason, env).reasons
    \cup If(e.reason.type # c.rejection, "0a03")
    \cup (IF e.precedence >= Len(c.order) THEN {"0a06"}
          ELSE If(e.precedence < floor, "0a08")
                 \cup If(c.order[e.precedence + 1] # e.reason.tag, "0a07"))

checkCondition(e, env) ==
  LET Boolean(c) == c.reasons \cup If(c.type # "Bool", "0801")
  IN Boolean(infer(e.condition, env))

RECURSIVE checkKernel(_, _, _, _)

checkMatch(e, c, env, floor) ==
  LET Arm(a, type) ==
        LET cases == {x \in ToSet(Constructors(a.owner)) : x.tag = a.tag}
        IN IF cases = {} THEN {"0705"}
           ELSE If(a.owner # type, "0706")
                  \cup checkKernel(a.body, c,
                         IF \E x \in cases : x.payload # <<>>
                         THEN <<"payload">> \o env ELSE env, floor)
      Arms(scrutinee) ==
        scrutinee.reasons
          \cup UNION {Arm(a, scrutinee.type) : a \in ToSet(e.arms)}
          \cup If([j \in DOMAIN e.arms |-> e.arms[j].tag]
                    # constructorTags(scrutinee.type), "0808")
  IN Arms(infer(e.scrutinee, env))

checkKernel(e, c, env, floor) ==
  CASE e.term = "accept"  ->
         infer(e.value, env).reasons
           \cup If(infer(e.value, env).type # c.accepted, "0a02")
    [] e.term = "reject"  -> checkRejection(e, c, env, floor)
    [] e.term = "require" ->
         checkCondition(e, env) \cup checkRejection(e, c, env, floor)
           \cup checkKernel(e.continuation, c, env, e.precedence + 1)
    [] e.term = "let"     ->
         infer(e.value, env).reasons
           \cup checkKernel(e.body, c, <<infer(e.value, env).type>> \o env, floor)
    [] e.term = "if"      ->
         checkCondition(e, env) \cup checkKernel(e.if_true, c, env, floor)
           \cup checkKernel(e.if_false, c, env, floor)
    [] e.term = "match"   -> checkMatch(e, c, env, floor)

-----------------------------------------------------------------------------
(***************************************************************************)
(* analyzeExpr, analyzeStrict and analyzeKernel: [steps, live, depth].     *)
(***************************************************************************)
Cost(steps, live, depth) == [steps |-> steps, live |-> live, depth |-> depth]

\* Costs of which one is met, and of a node whose parts are met in turn.
Widest(costs) == Cost(Max({x.steps : x \in costs}), Max({x.live : x \in costs}),
                      Max({x.depth : x \in costs}))

Node(x, y, live) == Cost(1 + x.steps + y.steps, Max({x.live, y.live, live}),
                         1 + Max({x.depth, y.depth}))

None == Cost(0, 0, 0)

RECURSIVE analyzeExpr(_, _)

\* analyzeStrict: what children before the k-th have left is retained.
analyzeStrict(children, type, base) ==
  LET Retained(j) == FoldLeft(LAMBDA sum, e : sum + width(e.type), base,
                              SubSeq(children, 1, j))
      Around(costs, inner) ==
        Cost(1 + FoldLeft(LAMBDA sum, x : sum + x.steps, 0, costs),
             Max({inner.live, Retained(Len(children)) + width(type)}),
             1 + inner.depth)
      Met(costs) == Around(costs, IF costs = <<>> THEN None ELSE Widest(ToSet(costs)))
  IN Met([j \in DOMAIN children |-> analyzeExpr(children[j], Retained(j - 1))])

analyzeExpr(e, base) ==
  CASE e.term \in {"unit", "bool", "int", "local"} -> Cost(1, base + width(e.type), 1)
    [] e.term = "project" ->
         Node(analyzeExpr(e.receiver, base), None,
              base + width(e.receiver.type) + width(e.type))
    [] e.term \in {"record", "variant"} -> analyzeStrict(e.values, e.type, base)
    [] e.term \in {"equal", "not_equal", "compare"} ->
         analyzeStrict(<<e.left, e.right>>, e.type, base)
    [] e.term \in {"and", "or"} ->
         Node(analyzeExpr(e.left, base), analyzeExpr(e.right, base), 0)

RECURSIVE analyzeKernel(_, _, _)
analyzeKernel(e, c, base) ==
  LET resultBits == 1 + Max({width(c.accepted), width(c.rejection)})
      Analyze(x) == analyzeExpr(x, base)
  IN CASE e.term = "accept"  ->
            Node(Analyze(e.value), None, base + width(e.value.type) + resultBits)
       [] e.term = "reject"  ->
            Node(Analyze(e.reason), None, base + width(e.reason.type) + resultBits)
       [] e.term = "require" ->
            Node(Analyze(e.condition),
                 Widest({Analyze(e.reason), analyzeKernel(e.continuation, c, base)}),
                 base + width(e.reason.type) + resultBits)
       [] e.term = "let"     ->
            Node(Analyze(e.value),
                 analyzeKernel(e.body, c, base + width(e.value.type)), 0)
       [] e.term = "if"      ->
            Node(Analyze(e.condition),
                 Widest({analyzeKernel(e.if_true, c, base),
                         analyzeKernel(e.if_false, c, base)}), 0)
       [] e.term = "match"   ->
            LET selected(a) == CHOOSE x \in ToSet(Constructors(a.owner)) : x.tag = a.tag
                payloadBits(a) == FoldLeft(LAMBDA sum, f : sum + width(f.type), 0,
                                           selected(a).payload)
            IN Node(Analyze(e.scrutinee),
                    Widest({analyzeKernel(a.body, c, base + width(e.scrutinee.type)
                                                       + payloadBits(a))
                              : a \in ToSet(e.arms)}), 0)

-----------------------------------------------------------------------------
(***************************************************************************)
(* checkModuleCeilings: what the profile allows, whatever the module       *)
(* declares.  The ceilings a module states itself are those of the profile *)
(* (encode_module).  The counts of octets and of declarations are left     *)
(* out, and so is the order of declarations (TypeLayout).                  *)
(***************************************************************************)
Components == {"steps", "live", "depth", "workspace"}

\* The types the members of a declaration have.
Mentioned(t) ==
  IF DeclaredAs("record", t) THEN {f.type : f \in ToSet(Fields(t))}
  ELSE IF DeclaredAs("variant", t)
  THEN {f.type : f \in UNION {ToSet(x.payload) : x \in ToSet(Constructors(t))}}
  ELSE {Core[t].target}

\* How many nodes there are and how deep they are nested.
Deeper(children) ==
  [count |-> FoldLeft(LAMBDA sum, x : sum + x.count, 1, children),
   nesting |-> 1 + Max({0} \cup {x.nesting : x \in ToSet(children)})]

RECURSIVE expressionMetrics(_), kernelMetrics(_)

expressionMetrics(e) ==
  LET All(es) == [j \in DOMAIN es |-> expressionMetrics(es[j])]
  IN Deeper(CASE e.term = "project" -> All(<<e.receiver>>)
              [] e.term \in {"record", "variant"} -> All(e.values)
              [] e.term \in {"equal", "not_equal", "compare", "and", "or"} ->
                   All(<<e.left, e.right>>)
              [] OTHER -> <<>>)

kernelMetrics(e) ==
  LET E(x) == expressionMetrics(x)
      K(x) == kernelMetrics(x)
  IN Deeper(CASE e.term = "accept"  -> <<E(e.value)>>
              [] e.term = "reject"  -> <<E(e.reason)>>
              [] e.term = "require" -> <<E(e.condition), E(e.reason), K(e.continuation)>>
              [] e.term = "let"     -> <<E(e.value), K(e.body)>>
              [] e.term = "if"      -> <<E(e.condition), K(e.if_true), K(e.if_false)>>
              [] e.term = "match"   ->
                   <<E(e.scrutinee)>> \o [j \in DOMAIN e.arms |-> K(e.arms[j].body)])

checkModuleCeilings(c) ==
  LET metrics == kernelMetrics(c.body)
      resultBits == 1 + Max({width(c.accepted), width(c.rejection)})
      widths == {resultBits} \cup {width(t) : t \in ToSet(c.parameters)}
                  \cup UNION {{width(u) : u \in Mentioned(t)} : t \in c.module.types}
  IN If(c.module.profile # Profile.name, "0b07")
       \cup If(\E bits \in widths : bits > Profile.live, "0607")
       \cup If(\E f \in Components : c.declared[f] > Profile[f], "0b06")
       \cup If(metrics.count > Profile.expressions \/ metrics.nesting > Profile.nesting,
              "0b06")

-----------------------------------------------------------------------------
(***************************************************************************)
(* compareBounds, and what check says of one kernel.                       *)
(***************************************************************************)
compareBounds(actual, stored, declared) ==
  If(actual.steps > MaxNat \/ actual.live > MaxNat, "0b00")
    \cup If(actual.steps # stored.steps, "0b01")
    \cup If(actual.live # stored.live, "0b02")
    \cup If(actual.depth # stored.depth, "0b03")
    \cup If(\E f \in {"steps", "live", "depth"} : actual[f] > declared[f], "0b05")

checkOrder(c) ==
  If(~IsInjective(c.order), "0a05")
    \cup If(ToSet(c.order) # ToSet(constructorTags(c.rejection)), "0a04")

\* Only a module that claims publication, by that theorem, may have it.
checkPublication(c) ==
  If(c.publication /\ (7 \notin c.module.claims \/ 6 \notin c.module.theorems), "0a0a")

check(c) ==
  LET Bits == FoldLeft(LAMBDA sum, t : sum + width(t), 0, c.parameters)
      Called(inner) == Cost(1 + inner.steps, inner.live, 1 + inner.depth)
      Typed(reasons) ==
        IF reasons # {} THEN reasons
        ELSE compareBounds(Called(analyzeKernel(c.body, c, Bits)), c.exact, c.declared)
  IN Typed(checkModuleCeilings(c) \cup checkOrder(c) \cup checkPublication(c)
             \cup checkKernel(c.body, c, Reverse(c.parameters), 0))
=============================================================================
