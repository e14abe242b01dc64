---------------------------- MODULE KernelChecker ----------------------------
(***************************************************************************)
(* The elaboration of one kernel (src/src/alpha/seki_checker.c below       *)
(* check_kernel): types, environment slots, rejection indices, the order   *)
(* of premises, and the exact resource bounds of its body.                 *)
(*                                                                         *)
(* A surface body is a tree, as the parser leaves it; the table of         *)
(* elaborations is part of the tree: an elaborated node is the surface     *)
(* node with its type, slot, owner, tag or index.  Types are compared by   *)
(* name, aliases having been resolved; TypeTable says why that is what the *)
(* identifiers of the type table mean.  Failure is the first diagnostic,   *)
(* "ok" otherwise.                                                         *)
(***************************************************************************)
EXTENDS Integers, SequencesExt

CONSTANTS
  Declarations,  \* the declared types by name: [kind, fields | cases | target]
  Lengths,       \* the octet types, Bytes[n] and Digest, with their lengths
  EnvCapacity,   \* SEKI_ENV_CAPACITY
  WordMax        \* UINT32_MAX, the largest result of checked arithmetic

Unsigned == {"U8", "U64"}

\* "Decision" is Decision[Bool, Bool]: members may have such a type.
Types == {"Unit", "Bool", "Decision"} \cup Unsigned \cup DOMAIN Lengths
           \cup DOMAIN Declarations

IsA(kind, t) == t \in DOMAIN Declarations /\ Declarations[t].kind = kind

\* A nominal, or an alias: no expression has the type of an alias.
StandsFor(t) == IsA("nominal", t) \/ IsA("alias", t)

FieldsOf(t) == IF IsA("record", t) THEN Declarations[t].fields ELSE <<>>

CasesOf(t) == IF IsA("variant", t) THEN Declarations[t].cases ELSE <<>>

Named(s, n) == {k \in DOMAIN s : s[k].name = n}

(***************************************************************************)
(* seki_type_value_bits, for types whose widths are derived already, and   *)
(* seki_type_expand.                                                       *)
(***************************************************************************)
tag_bits(t) == IF t = 0 THEN 0 ELSE CHOOSE k \in 1..32 : 2^(k - 1) <= t /\ t < 2^k

RECURSIVE width_of(_), expand(_)

SumOf(fields) == FoldLeft(LAMBDA sum, f : sum + width_of(f.type), 0, fields)

width_of(t) ==
  CASE t = "Bool" -> 1
    [] t = "U8"   -> 8
    [] t = "U64"  -> 64
    [] t = "Decision" -> 2
    [] t \in DOMAIN Lengths -> 8 * Lengths[t]
    [] StandsFor(t) -> width_of(Declarations[t].target)
    [] IsA("record", t)  -> SumOf(FieldsOf(t))
    [] IsA("variant", t) ->
         tag_bits(Max({c.tag : c \in ToSet(CasesOf(t))}))
           + Max({SumOf(c.payload) : c \in ToSet(CasesOf(t))})
    [] OTHER -> 0

expand(t) == IF StandsFor(t) THEN expand(Declarations[t].target) ELSE t

DecisionBits(k) == 1 + Max({width_of(k.accepted), width_of(k.rejection)})

(***************************************************************************)
(* Environments: bindings, the innermost first, in slots from zero.        *)
(***************************************************************************)
Invalid == -1

environment_lookup(env, n) ==
  IF Named(env, n) = {} THEN Invalid ELSE Min(Named(env, n)) - 1

Bind(env, n, t) == <<[name |-> n, type |-> t]>> \o env

\* The last parameter has slot zero.
Parameters(k) == Reverse(k.parameters)

-----------------------------------------------------------------------------
(***************************************************************************)
(* What infer_expression returns.                                          *)
(***************************************************************************)
Typed(e, t, info) ==
  [code |-> "ok", type |-> t, natural |-> FALSE,
   node |-> [type |-> t] @@ info @@ e]

Natural(e) ==
  [code |-> "ok", type |-> "none", natural |-> TRUE,
   node |-> [type |-> "none"] @@ e]

Refused(c) ==
  [code |-> c, type |-> "none", natural |-> FALSE, node |-> [kind |-> "none"]]

\* The first diagnostic among results computed one after the other.
FirstCode(s) ==
  LET bad == {k \in DOMAIN s : s[k].code # "ok"}
  IN IF bad = {} THEN "ok" ELSE s[Min(bad)].code

\* Mutant of natural_fits: one too many.
natural_fits_over(n, t) == t = "U8" => n <= 2^8

natural_fits(n, t) == t = "U8" => n < 2^8

adopt_natural(v, t) ==
  IF v.natural /\ t \in Unsigned /\ natural_fits(v.node.natural, t)
  THEN Typed(v.node, t, <<>>) ELSE v

RECURSIVE infer_expression(_, _)

(***************************************************************************)
(* The initialisers of a record literal, or of a rejection payload: every  *)
(* declared field once, in the order of the declaration.                   *)
(***************************************************************************)
CheckField(f, inits, env, missing, mismatch) ==
  LET Fitting(v) ==
        IF v.code = "ok" /\ v.type # f.type THEN Refused(mismatch) ELSE v
      Given(init) == adopt_natural(infer_expression(init.value, env), f.type)
  IN IF Named(inits, f.name) = {} THEN Refused(missing)
     ELSE Fitting(Given(inits[Min(Named(inits, f.name))]))

CheckFields(fields, inits, env, missing, mismatch) ==
  LET Gathered(checked) ==
        IF FirstCode(checked) # "ok" THEN [code |-> FirstCode(checked), inits |-> <<>>]
        ELSE [code |-> "ok",
              inits |-> [j \in DOMAIN inits |->
                [name |-> inits[j].name,
                 value |-> checked[Min(Named(fields, inits[j].name))].node]]]
  IN IF Len(fields) # Len(inits) THEN [code |-> missing, inits |-> <<>>]
     ELSE Gathered([k \in DOMAIN fields |->
                      CheckField(fields[k], inits, env, missing, mismatch)])

InferName(e, env) ==
  LET slot == environment_lookup(env, e.name)
  IN IF slot = Invalid THEN Refused("A0-CHECK-0002")
     ELSE Typed(e, env[slot + 1].type, [slot |-> slot])

InferField(e, env) ==
  LET Projected(receiver, owner, found) ==
        IF receiver.code # "ok" THEN receiver
        ELSE IF found = {} THEN Refused("A0-CHECK-0003")
        ELSE Typed([e EXCEPT !.receiver = receiver.node],
                   FieldsOf(owner)[Min(found)].type,
                   [owner |-> owner, index |-> Min(found)])
      Opened(receiver, owner) ==
        Projected(receiver, owner, Named(FieldsOf(owner), e.field))
      Received(receiver) == Opened(receiver, expand(receiver.type))
  IN Received(infer_expression(e.receiver, env))

InferRecord(e, env) ==
  LET Literal(fields) ==
        IF ~IsA("record", e.owner) THEN Refused("A0-CHECK-0020")
        ELSE IF fields.code # "ok" THEN Refused(fields.code)
        ELSE Typed([e EXCEPT !.inits = fields.inits], e.owner, <<>>)
  IN Literal(CheckFields(FieldsOf(e.owner), e.inits, env,
                         "A0-CHECK-0021", "A0-CHECK-0022"))

\* enum seki_compare_operator, in its order.
CompareOperators == <<"<", "<=", ">", ">=", "==", "!=">>

Ordinal(operator) == SelectInSeq(CompareOperators, LAMBDA o : o = operator) - 1

Ordered(operator) == operator \notin {"==", "!="}

InferCompare(e, env) ==
  LET Compared(left, right) ==
        IF FirstCode(<<left, right>>) # "ok" THEN Refused(FirstCode(<<left, right>>))
        ELSE IF left.natural /\ right.natural THEN Refused("A0-CHECK-0015")
        ELSE IF left.type # right.type \/ (Ordered(e.operator) /\ left.type \notin Unsigned)
        THEN Refused("A0-CHECK-0004")
        ELSE Typed([e EXCEPT !.left = left.node, !.right = right.node], "Bool", <<>>)
      Adopted(l, r) == Compared(adopt_natural(l, r.type), adopt_natural(r, l.type))
  IN Adopted(infer_expression(e.left, env), infer_expression(e.right, env))

InferLogical(e, env) ==
  LET Joined(l, r) ==
        IF FirstCode(<<l, r>>) # "ok" THEN Refused(FirstCode(<<l, r>>))
        ELSE IF l.type # "Bool" \/ r.type # "Bool" THEN Refused("A0-CHECK-0018")
        ELSE Typed([e EXCEPT !.left = l.node, !.right = r.node], "Bool", <<>>)
  IN Joined(infer_expression(e.left, env), infer_expression(e.right, env))

infer_expression(e, env) ==
  CASE e.kind = "name"    -> InferName(e, env)
    [] e.kind = "bool"    -> Typed(e, "Bool", <<>>)
    [] e.kind = "unit"    -> Typed(e, "Unit", <<>>)
    [] e.kind = "natural" -> Natural(e)
    [] e.kind = "field"   -> InferField(e, env)
    [] e.kind = "record"  -> InferRecord(e, env)
    [] e.kind = "compare" -> InferCompare(e, env)
    [] e.kind \in {"and", "or"} -> InferLogical(e, env)

-----------------------------------------------------------------------------
(***************************************************************************)
(* Kernel tails, in kernel k: what check_kernel_tail finds.                *)
(***************************************************************************)
Checked(e) == [code |-> "ok", node |-> e]

Failed(c) == [code |-> c, node |-> [kind |-> "none"]]

\* resolve_rejection and check_rejection_payload, shared by reject and require.
CheckRejection(e, env, k) ==
  LET cases == Named(CasesOf(k.rejection), e.item)
      case == CasesOf(k.rejection)[Min(cases)]
      listed == {j \in DOMAIN k.rejections :
                   k.rejections[j] = [owner |-> e.owner, item |-> e.item]}
      Resolved(payload) ==
        IF payload.code # "ok" THEN Failed(payload.code)
        ELSE Checked([tag |-> case.tag, precedence |-> Min(listed) - 1]
                     @@ [e EXCEPT !.inits = payload.inits])
  IN IF e.owner # k.rejection \/ cases = {} THEN Failed("A0-CHECK-0007")
     ELSE IF listed = {} THEN Failed("A0-CHECK-0008")
     ELSE Resolved(CheckFields(case.payload, e.inits, env,
                               "A0-CHECK-0024", "A0-CHECK-0025"))

RECURSIVE check_kernel_tail(_, _, _)

CheckAccept(e, env, k) ==
  LET Accepted(v) ==
        IF v.code # "ok" THEN Failed(v.code)
        ELSE IF v.type # k.accepted THEN Failed("A0-CHECK-0006")
        ELSE Checked([e EXCEPT !.value = v.node])
  IN Accepted(adopt_natural(infer_expression(e.value, env), k.accepted))

CheckRequire(e, env, k) ==
  LET Required(c, r, t) ==
        IF c.code # "ok" THEN Failed(c.code)
        ELSE IF c.type # "Bool" THEN Failed("A0-CHECK-0009")
        ELSE IF FirstCode(<<r, t>>) # "ok" THEN Failed(FirstCode(<<r, t>>))
        ELSE Checked([r.node EXCEPT !.condition = c.node, !.continuation = t.node])
  IN Required(infer_expression(e.condition, env), CheckRejection(e, env, k),
              check_kernel_tail(e.continuation, env, k))

CheckLet(e, env, k) ==
  LET Bound(v, t) ==
        IF v.code # "ok" THEN Failed(v.code)
        ELSE IF v.natural THEN Failed("A0-CHECK-0015")
        ELSE IF environment_lookup(env, e.name) # Invalid THEN Failed("A0-CHECK-0019")
        ELSE IF Len(env) = EnvCapacity THEN Failed("A0-CHECK-0016")
        ELSE IF t.code # "ok" THEN t
        ELSE Checked([e EXCEPT !.value = v.node, !.body = t.node])
      Inside(v) == Bound(v, check_kernel_tail(e.body, Bind(env, e.name, v.type), k))
  IN Inside(infer_expression(e.value, env))

\* Each case of the variant is selected once, and none carries a payload.
CoverageCode(cases, arms) ==
  LET Once(c) == Cardinality({j \in DOMAIN arms : arms[j].item = c.name}) = 1
      bad == {j \in DOMAIN cases : ~Once(cases[j]) \/ cases[j].payload # <<>>}
  IN IF Len(cases) # Len(arms) THEN "A0-CHECK-0027"
     ELSE IF bad = {} THEN "ok"
     ELSE IF Once(cases[Min(bad)]) THEN "A0-CHECK-0028" ELSE "A0-CHECK-0027"

CheckMatch(e, env, k) ==
  LET Selected(s, owner, covers, arms) ==
        IF s.code # "ok" THEN Failed(s.code)
        ELSE IF ~IsA("variant", owner) THEN Failed("A0-CHECK-0026")
        ELSE IF covers # "ok" THEN Failed(covers)
        ELSE IF FirstCode(arms) # "ok" THEN Failed(FirstCode(arms))
        ELSE Checked([owner |-> owner] @@
                     [e EXCEPT !.scrutinee = s.node,
                               !.arms = [j \in DOMAIN arms |->
                                  [item |-> e.arms[j].item, body |-> arms[j].node]]])
      Opened(s, owner) ==
        Selected(s, owner, CoverageCode(CasesOf(owner), e.arms),
                 [j \in DOMAIN e.arms |-> check_kernel_tail(e.arms[j].body, env, k)])
      Examined(s) == Opened(s, expand(s.type))
  IN Examined(infer_expression(e.scrutinee, env))

CheckIf(e, env, k) ==
  LET Branched(c, t, f) ==
        IF c.code # "ok" THEN Failed(c.code)
        ELSE IF c.type # "Bool" THEN Failed("A0-CHECK-0009")
        ELSE IF FirstCode(<<t, f>>) # "ok" THEN Failed(FirstCode(<<t, f>>))
        ELSE Checked([e EXCEPT !.condition = c.node, !.if_true = t.node,
                               !.if_false = f.node])
  IN Branched(infer_expression(e.condition, env),
              check_kernel_tail(e.if_true, env, k),
              check_kernel_tail(e.if_false, env, k))

check_kernel_tail(e, env, k) ==
  CASE e.kind = "accept"  -> CheckAccept(e, env, k)
    [] e.kind = "reject"  -> CheckRejection(e, env, k)
    [] e.kind = "require" -> CheckRequire(e, env, k)
    [] e.kind = "let"     -> CheckLet(e, env, k)
    [] e.kind = "match"   -> CheckMatch(e, env, k)
    [] e.kind = "if"      -> CheckIf(e, env, k)

(***************************************************************************)
(* check_rejection_order: indices increase along every continuation.       *)
(***************************************************************************)
RECURSIVE check_rejection_order(_, _)
check_rejection_order(e, floor) ==
  CASE e.kind = "accept"  -> TRUE
    [] e.kind = "reject"  -> e.precedence >= floor
    [] e.kind = "require" -> /\ e.precedence >= floor
                             /\ check_rejection_order(e.continuation,
                                                      e.precedence + 1)
    [] e.kind = "let"     -> check_rejection_order(e.body, floor)
    [] e.kind = "if"      -> /\ check_rejection_order(e.if_true, floor)
                             /\ check_rejection_order(e.if_false, floor)
    [] e.kind = "match"   -> \A a \in ToSet(e.arms) :
                               check_rejection_order(a.body, floor)

-----------------------------------------------------------------------------
(***************************************************************************)
(* The exact bounds of an elaborated body.  A cost counts entered nodes,   *)
(* the widest set of live values, and nested frames; base is the width of  *)
(* the environment.  The sums are taken without a limit: each sum the code *)
(* checks is at most one of the totals, so DeriveCost of KernelPipeline    *)
(* compares those.  Workspace is zero in this subset.                      *)
(***************************************************************************)
Cost(steps, live, depth) == [steps |-> steps, live |-> live, depth |-> depth]

\* One node entered and nothing in it yet; the neutral cost of a maximum.
Entered(base) == Cost(1, base, 1)
Nothing == Cost(0, 0, 0)

Peak(c, live) == [c EXCEPT !.live = Max({@, live})]

\* Only one of two costs is met.
Either(c, d) == Cost(Max({c.steps, d.steps}), Max({c.live, d.live}),
                     Max({c.depth, d.depth}))

\* Both are met, one after the other.
Both(c, d) == [Either(c, d) EXCEPT !.steps = c.steps + d.steps]

\* The node around them: one step and one frame.
Under(c) == [c EXCEPT !.steps = @ + 1, !.depth = @ + 1]

\* The initialiser of a declared field, and all of them in an order of fields.
Initialiser(inits, f) == inits[Min(Named(inits, f.name))].value

InOrder(fields, inits) ==
  [j \in DOMAIN fields |-> Initialiser(inits, fields[j])]

ByName(fields) == SortSeq(fields, LAMBDA f, g : f.name < g.name)

RECURSIVE cost_of_expression(_, _)

\* Mutant of cost_strict: a child is charged at the base of its parent.
cost_strict_released(children, type, base) ==
  LET Add(total, e) == Both(total, [cost_of_expression(e, base) EXCEPT !.depth = @ + 1])
      all == FoldLeft(Add, Entered(base), children)
      retained == FoldLeft(LAMBDA sum, e : sum + width_of(e.type), 0, children)
  IN Peak(all, base + retained + width_of(type))

(***************************************************************************)
(* cost_strict: the results of the children are retained until the result  *)
(* is allocated.                                                           *)
(***************************************************************************)
cost_strict(children, type, base) ==
  LET Add(total, e) ==
        LET child == cost_of_expression(e, base + total.retained)
        IN [cost |-> Both(total.cost, [child EXCEPT !.depth = @ + 1]),
            retained |-> total.retained + width_of(e.type)]
      Allocated(all) == Peak(all.cost, base + all.retained + width_of(type))
  IN Allocated(FoldLeft(Add, [cost |-> Entered(base), retained |-> 0], children))

cost_of_expression(e, base) ==
  CASE e.kind \in {"name", "bool", "unit", "natural"} ->
         Peak(Entered(base), base + width_of(e.type))
    [] e.kind = "field" ->
         Peak(Under(cost_of_expression(e.receiver, base)),
              base + width_of(e.receiver.type) + width_of(e.type))
    [] e.kind = "compare" -> cost_strict(<<e.left, e.right>>, e.type, base)
    [] e.kind = "record"  ->
         cost_strict(InOrder(FieldsOf(e.owner), e.inits), e.type, base)
    [] e.kind \in {"and", "or"} ->
         Under(Both(cost_of_expression(e.left, base), cost_of_expression(e.right, base)))

\* The value or reason is retained while the Decision is allocated.
Decided(child, type, base, k) ==
  Peak(child, base + width_of(type) + DecisionBits(k))

CaseTagged(t, tag) == CHOOSE c \in ToSet(CasesOf(t)) : c.tag = tag

\* Mutant of payload_children: in the order of the declaration.
payload_children_declared(e, k) ==
  InOrder(CaseTagged(k.rejection, e.tag).payload, e.inits)

payload_children(e, k) ==
  InOrder(ByName(CaseTagged(k.rejection, e.tag).payload), e.inits)

Reason(e, base, k) == cost_strict(payload_children(e, k), k.rejection, base)

RECURSIVE cost_of_kernel_tail(_, _, _)
cost_of_kernel_tail(e, base, k) ==
  CASE e.kind = "accept" ->
         Decided(Under(cost_of_expression(e.value, base)), e.value.type, base, k)
    [] e.kind = "reject" -> Decided(Under(Reason(e, base, k)), k.rejection, base, k)
    [] e.kind = "let" ->
         Under(Both(cost_of_expression(e.value, base),
                    cost_of_kernel_tail(e.body, base + width_of(e.value.type), k)))
    [] e.kind = "match" ->
         LET arm_base == base + width_of(e.scrutinee.type)
         IN Under(Both(cost_of_expression(e.scrutinee, base),
                       FoldLeft(LAMBDA c, a :
                                  Either(c, cost_of_kernel_tail(a.body, arm_base, k)),
                                Nothing, e.arms)))
    [] e.kind = "require" ->
         Under(Both(cost_of_expression(e.condition, base),
                    Either(cost_of_kernel_tail(e.continuation, base, k),
                           Decided(Reason(e, base, k), k.rejection, base, k))))
    [] e.kind = "if" ->
         Under(Both(cost_of_expression(e.condition, base),
                    Either(cost_of_kernel_tail(e.if_true, base, k),
                           cost_of_kernel_tail(e.if_false, base, k))))

\* The width of the parameters, and the cost of the kernel, its frame included.
ParameterBits(k) ==
  FoldLeft(LAMBDA sum, p : sum + width_of(p.type), 0, k.parameters)

ExactCost(body, k) == Under(cost_of_kernel_tail(body, ParameterBits(k), k))
=============================================================================
