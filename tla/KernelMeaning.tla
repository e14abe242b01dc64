----------------------------- MODULE KernelMeaning -----------------------------
(***************************************************************************)
(* What a kernel means, twice: of its surface tree, where members have     *)
(* names, and of its core tree, where they have slots, positions and tags; *)
(* and the schedule of events the resource bounds are about                *)
(* (src/spec/typed-core/RESOURCE_COST_ALGEBRA_V0_DRAFT.md section 3.1).    *)
(* Nothing here is code of the compiler: it is what the compiler is        *)
(* compared with.                                                          *)
(***************************************************************************)
EXTENDS CoreEmitter

\* A value of declared type t as the core knows it.
RECURSIVE Represent(_, _)
Represent(v, t) ==
  LET Members(fields, f) == [j \in DOMAIN fields |->
                               Represent(f[fields[j].name], fields[j].type)]
      case == CasesOf(t)[Min(Named(CasesOf(t), v.item))]
  IN CASE IsA("nominal", t) -> Represent(v, Declarations[t].target)
       [] IsA("record", t)  -> Members(ByName(FieldsOf(t)), v)
       [] IsA("variant", t) -> [tag |-> case.tag,
                                payload |-> Members(ByName(case.payload), v.payload)]
       [] OTHER -> v

\* What the six comparisons say; only == and != are asked of all values.
Holds(operator, v, w) ==
  CASE operator = "<"  -> v < w
    [] operator = "<=" -> v <= w
    [] operator = ">"  -> v > w
    [] operator = ">=" -> v >= w
    [] operator = "==" -> v = w
    [] operator = "!=" -> v # w

\* The operations of the core form compare (SCB0_SCHEMA_LEDGER.md), from zero.
CoreOperations == <<"<", "<=", ">", ">=">>

-----------------------------------------------------------------------------
(***************************************************************************)
(* The surface: env gives every name in scope its value.                   *)
(***************************************************************************)
RECURSIVE Value(_, _)

Given(inits, env) ==
  [n \in {x.name : x \in ToSet(inits)} |-> Value(Initialiser(inits, [name |-> n]), env)]

Value(e, env) ==
  CASE e.kind = "name"    -> env[e.name]
    [] e.kind = "bool"    -> e.value
    [] e.kind = "unit"    -> "unit"
    [] e.kind = "natural" -> e.natural
    [] e.kind = "field"   -> Value(e.receiver, env)[e.field]
    [] e.kind = "record"  -> Given(e.inits, env)
    [] e.kind = "compare" ->
         Holds(e.operator, Value(e.left, env), Value(e.right, env))
    [] e.kind = "and"     -> Value(e.left, env) /\ Value(e.right, env)
    [] e.kind = "or"      -> Value(e.left, env) \/ Value(e.right, env)

\* What a kernel decides; premise says whether a failed premise decided it.
Accepts(v) == [accepts |-> TRUE, value |-> v, premise |-> FALSE]
Rejects(v, premise) == [accepts |-> FALSE, value |-> v, premise |-> premise]

Rejected(e, env) == [item |-> e.item, payload |-> Given(e.inits, env)]

RECURSIVE Decision(_, _)
Decision(e, env) ==
  CASE e.kind = "accept"  -> Accepts(Value(e.value, env))
    [] e.kind = "reject"  -> Rejects(Rejected(e, env), FALSE)
    [] e.kind = "require" -> IF Value(e.condition, env)
                             THEN Decision(e.continuation, env)
                             ELSE Rejects(Rejected(e, env), TRUE)
    [] e.kind = "let"     -> Decision(e.body, (e.name :> Value(e.value, env)) @@ env)
    [] e.kind = "if"      -> Decision(IF Value(e.condition, env) THEN e.if_true
                                      ELSE e.if_false, env)
    [] e.kind = "match"   ->
         LET v == Value(e.scrutinee, env)
         IN Decision((CHOOSE a \in ToSet(e.arms) : a.item = v.item).body, env)

-----------------------------------------------------------------------------
(***************************************************************************)
(* The core: env is the sequence of slots.                                 *)
(***************************************************************************)
RECURSIVE CoreValue(_, _)
CoreValue(e, env) ==
  CASE e.term = "unit"    -> "unit"
    [] e.term \in {"bool", "int"} -> e.value
    [] e.term = "local"   -> env[e.slot + 1]
    [] e.term = "project" -> CoreValue(e.receiver, env)[e.field]
    [] e.term = "record"  -> [j \in DOMAIN e.values |-> CoreValue(e.values[j], env)]
    [] e.term = "variant" ->
         [tag |-> e.tag,
          payload |-> [j \in DOMAIN e.values |-> CoreValue(e.values[j], env)]]
    [] e.term = "compare" -> Holds(CoreOperations[e.operation + 1],
                                   CoreValue(e.left, env), CoreValue(e.right, env))
    [] e.term = "equal"   -> CoreValue(e.left, env) = CoreValue(e.right, env)
    [] e.term = "not_equal" -> CoreValue(e.left, env) # CoreValue(e.right, env)
    [] e.term = "and"     -> CoreValue(e.left, env) /\ CoreValue(e.right, env)
    [] e.term = "or"      -> CoreValue(e.left, env) \/ CoreValue(e.right, env)

RECURSIVE CoreDecision(_, _)
CoreDecision(e, env) ==
  CASE e.term = "accept"  -> Accepts(CoreValue(e.value, env))
    [] e.term = "reject"  -> Rejects(CoreValue(e.reason, env), FALSE)
    [] e.term = "require" -> IF CoreValue(e.condition, env)
                             THEN CoreDecision(e.continuation, env)
                             ELSE Rejects(CoreValue(e.reason, env), TRUE)
    [] e.term = "let"     -> CoreDecision(e.body, <<CoreValue(e.value, env)>> \o env)
    [] e.term = "if"      -> CoreDecision(IF CoreValue(e.condition, env) THEN e.if_true
                                          ELSE e.if_false, env)
    [] e.term = "match"   ->
         LET v == CoreValue(e.scrutinee, env)
         IN CoreDecision((CHOOSE a \in ToSet(e.arms) : a.tag = v.tag).body, env)

-----------------------------------------------------------------------------
(***************************************************************************)
(* The nodes of a core tree, in the order of the encoding: an expression   *)
(* after its parts, a tail before its branches.                            *)
(***************************************************************************)
Parts(e) ==
  CASE e.term = "project" -> <<e.receiver>>
    [] e.term \in {"record", "variant"} -> e.values
    [] e.term \in Comparisons \cup {"and", "or"} -> <<e.left, e.right>>
    [] OTHER -> <<>>

RECURSIVE Terms(_)
Terms(e) == Append(FlattenSeq([j \in DOMAIN Parts(e) |-> Terms(Parts(e)[j])]), e)

Heads(e) ==
  CASE e.term \in {"accept", "let"} -> <<e.value>>
    [] e.term = "reject"  -> <<e.reason>>
    [] e.term = "require" -> <<e.condition, e.reason>>
    [] e.term = "if"      -> <<e.condition>>
    [] e.term = "match"   -> <<e.scrutinee>>

Branches(e) ==
  CASE e.term \in {"accept", "reject"} -> <<>>
    [] e.term = "require" -> <<e.continuation>>
    [] e.term = "let"     -> <<e.body>>
    [] e.term = "if"      -> <<e.if_true, e.if_false>>
    [] e.term = "match"   -> [j \in DOMAIN e.arms |-> e.arms[j].body]

RECURSIVE Controls(_)
Controls(e) ==
  <<e>> \o FlattenSeq([j \in DOMAIN Branches(e) |-> Controls(Branches(e)[j])])

Expressions(e) ==
  LET Under1(t) == FlattenSeq([j \in DOMAIN Heads(t) |-> Terms(Heads(t)[j])])
  IN FlattenSeq([j \in DOMAIN Controls(e) |-> Under1(Controls(e)[j])])

-----------------------------------------------------------------------------
(***************************************************************************)
(* The schedule.  A run is a sequence of events: the width of the live     *)
(* slots, the frames, whether a node is entered, and the premise tested or *)
(* Invalid.  Runs gives the possible ones, every alternative once.         *)
(***************************************************************************)
Event(live, frames, steps, premise) ==
  [live |-> live, frames |-> frames, steps |-> steps, premise |-> premise]

Then(A, B) == {a \o b : a \in A, b \in B}

Enter(live, frames) == {<<Event(live, frames, 1, Invalid)>>}
Allocate(live, frames) == {<<Event(live, frames, 0, Invalid)>>}
Test(premise, live, frames) == {<<Event(live, frames, 0, premise)>>}

RECURSIVE Runs(_, _, _)

\* Rule 4: the children left to right, then the result, all retained.
Strict(children, type, live, frames) ==
  LET Add(s, e) == [runs |-> Then(s.runs, Runs(e, s.live, frames)),
                    live |-> s.live + width_of(e.type)]
      Result(all) == Then(all.runs, Allocate(all.live + width_of(type), frames))
  IN Result(FoldLeft(Add, [runs |-> Enter(live, frames), live |-> live], children))

\* Expression e below the given number of frames.
Runs(e, live, below) ==
  LET frames == below + 1
  IN CASE e.term \in {"unit", "bool", "int", "local"} ->
            Strict(<<>>, e.type, live, frames)
       [] e.term = "project" -> Strict(<<e.receiver>>, e.type, live, frames)
       [] e.term \in {"record", "variant"} -> Strict(e.values, e.type, live, frames)
       [] e.term \in Comparisons ->
            Strict(<<e.left, e.right>>, e.type, live, frames)
       [] e.term \in {"and", "or"} ->
            LET OneOrBoth(left) == left \cup Then(left, Runs(e.right, live, frames))
            IN OneOrBoth(Then(Enter(live, frames), Runs(e.left, live, frames)))

\* Kernel expression e of core kernel c.
RECURSIVE KernelRuns(_, _, _, _)
KernelRuns(e, c, live, below) ==
  LET frames == below + 1
      enter == Enter(live, frames)
      Decide(child) ==
        Then(Runs(child, live, frames),
             Allocate(live + width_of(child.type) + DecisionBits(c), frames))
      Tested == Test(e.precedence, live, frames)
      After(child, rest) == Then(Then(enter, Runs(child, live, frames)), rest)
      Under1(body, extra) == KernelRuns(body, c, live + extra, frames)
  IN CASE e.term = "accept"  -> Then(enter, Decide(e.value))
       [] e.term = "reject"  -> Then(enter, Then(Tested, Decide(e.reason)))
       [] e.term = "require" ->
            After(e.condition, Then(Tested, Decide(e.reason)
                                              \cup Under1(e.continuation, 0)))
       [] e.term = "let"     -> After(e.value, Under1(e.body, width_of(e.value.type)))
       [] e.term = "if"      ->
            After(e.condition, Under1(e.if_true, 0) \cup Under1(e.if_false, 0))
       [] e.term = "match"   ->
            After(e.scrutinee, UNION {Under1(a.body, width_of(e.scrutinee.type))
                                        : a \in ToSet(e.arms)})

CallableRuns(c) ==
  LET live == FoldLeft(LAMBDA sum, t : sum + width_of(t), 0, c.parameters)
  IN Then(Enter(live, 1), KernelRuns(c.body, c, live, 1))

\* What the runs of a core kernel use at most, and the premises a run tests.
ScheduledCost(c) ==
  LET Widest(run) == Max({ev.live : ev \in ToSet(run)})
      Deepest(run) == Max({ev.frames : ev \in ToSet(run)})
      Steps(run) == FoldLeft(LAMBDA sum, ev : sum + ev.steps, 0, run)
      Most(runs) == Cost(Max({Steps(r) : r \in runs}), Max({Widest(r) : r \in runs}),
                         Max({Deepest(r) : r \in runs}))
  IN Most(CallableRuns(c))

Premises(run) ==
  LET tests == SelectSeq(run, LAMBDA ev : ev.premise # Invalid)
  IN [j \in DOMAIN tests |-> tests[j].premise]
=============================================================================
