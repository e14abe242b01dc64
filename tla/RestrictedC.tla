------------------------------ MODULE RestrictedC ------------------------------
(***************************************************************************)
(* What a C compiler makes of a printed unit: the part of C11 that the     *)
(* projection prints.  Expressions are parsed by C's own precedences, a    *)
(* unit is refused for the reasons C11 gives, and a body is executed.      *)
(* Nothing here is code of the compiler: it is what the projection is      *)
(* compared with.                                                          *)
(***************************************************************************)
EXTENDS CBackend, KernelMeaning

(***************************************************************************)
(* Parsing.  Binary operators of C, the weakest first, all of them         *)
(* associating to the left; an operator inside parentheses is not seen.    *)
(***************************************************************************)
Precedences == <<{","}, {"||"}, {"&&"}, {"==", "!="}, {"<", "<=", ">", ">="}>>

Opened(tokens, j) ==
  LET Count(text) == Cardinality({l \in 1..j : tokens[l].text = text})
  IN Count("(") - Count(")")

Splits(tokens, texts) ==
  {j \in DOMAIN tokens : tokens[j].text \in texts /\ Opened(tokens, j) = 0}

RECURSIVE Parse(_)
Parse(tokens) ==
  LET weakest == {l \in DOMAIN Precedences : Splits(tokens, Precedences[l]) # {}}
      last == tokens[Len(tokens)]
      Binary(j) == [op |-> tokens[j].text, left |-> Parse(SubSeq(tokens, 1, j - 1)),
                    right |-> Parse(SubSeq(tokens, j + 1, Len(tokens)))]
      Inside(from) == Parse(SubSeq(tokens, from, Len(tokens) - 1))
  IN IF weakest # {} THEN Binary(Max(Splits(tokens, Precedences[Min(weakest)])))
     ELSE IF tokens[1].text = "!" THEN [op |-> "!", of |-> Parse(Tail(tokens))]
     ELSE IF last.text = "." THEN [op |-> ".", of |-> Parse(Front(tokens)), n |-> last.n]
     ELSE IF tokens[1].text = "(" THEN Inside(2)
     ELSE IF tokens[1].text = "octets_equal" THEN [op |-> "call", of |-> Inside(3)]
     ELSE [op |-> last.text, n |-> last.n]

-----------------------------------------------------------------------------
(***************************************************************************)
(* Types.  scope gives the bindings in scope their types; "none" is the    *)
(* type of what has none.                                                  *)
(***************************************************************************)
Scalar(t) == expand(t) \in {"Bool"} \cup Unsigned

Octets(t) == expand(t) \in DOMAIN Lengths

Same(t, u) == (Scalar(t) /\ Scalar(u)) \/ (expand(t) = expand(u) /\ t # "none")

MemberType(t, n) ==
  LET found == Named(FieldsOf(expand(t)), n)
  IN IF found = {} THEN "none" ELSE FieldsOf(expand(t))[Min(found)].type

RECURSIVE CType(_, _, _)
CType(e, scope, parameter) ==
  LET T(x) == CType(x, scope, parameter)
      Comparable(l, r) == (Scalar(l) /\ Scalar(r)) \/ (Octets(l) /\ Octets(r))
      If(holds) == IF holds THEN "U8" ELSE "none"
  IN CASE e.op = "parameter" -> parameter
       [] e.op = "binding"   -> IF e.n \in DOMAIN scope THEN scope[e.n] ELSE "none"
       [] e.op = "number"    -> "U64"
       [] e.op = "."         -> MemberType(T(e.of), e.n)
       [] e.op = "!"         -> If(Scalar(T(e.of)))
       [] e.op = "call"      -> If(Octets(T(e.of.left)) /\ Octets(T(e.of.right)))
       [] e.op \in ToSet(CompareOperators) -> If(Comparable(T(e.left), T(e.right)))
       [] e.op \in {"&&", "||"} -> If(Scalar(T(e.left)) /\ Scalar(T(e.right)))

(***************************************************************************)
(* The reasons C11 has to refuse a block: a declaration right after a      *)
(* label, a name declared twice in one scope, operands or an assignment of *)
(* the wrong types, a helper or a typedef that is not there.  The last is  *)
(* a reason also where another type is spelled alike: C takes that one.    *)
(***************************************************************************)
PlaceType(place, c) ==
  CASE place.member = "accepted"  ->
         IF place.field = 0 THEN c.accepted ELSE MemberType(c.accepted, place.field)
    [] place.member = "rejection" ->
         LET payload == CasesOf(c.rejection)[Min(Named(CasesOf(c.rejection),
                                                       place.case))].payload
         IN payload[Min(Named(payload, place.field))].type
    [] OTHER -> "U64"

When(refused, reason) == IF refused THEN {reason} ELSE {}

Calls(tokens) == \E t \in ToSet(tokens) : t.text = "octets_equal"

NoType(t, typedefs) ==
  t \in DOMAIN Declarations /\ t \notin {d.of : d \in ToSet(typedefs)}

RECURSIVE BlockReasons(_, _, _, _)

\* s: the scope, the names of this block, whether a label comes before, reasons.
ItemReasons(s, x, u, c) ==
  LET type == IF x.tokens = <<>> THEN "none"
              ELSE CType(Parse(x.tokens), s.scope, c.parameters[1])
      Inner(block) == BlockReasons(block, s.scope, u, c)
      Here == When(Calls(x.tokens) /\ <<"octets", "equal">> \notin u.helpers, "helper")
      Added(s2, reasons) == [s2 EXCEPT !.reasons = @ \cup Here \cup reasons,
                                       !.label = x.does = "case"]
  IN CASE x.does = "assign" ->
            Added(s, When(~Same(PlaceType(x.place, c), type) \/ Octets(type), "operands"))
       [] x.does = "copy" ->
            Added(s, When(<<"octets", "copy">> \notin u.helpers, "helper")
                       \cup When(~Octets(type) \/ ~Octets(PlaceType(x.place, c)),
                                   "operands"))
       [] x.does = "declare" ->
            Added([s EXCEPT !.scope = (x.n :> x.type) @@ @, !.here = @ \cup {x.n}],
                  When(s.label, "label") \cup When(x.n \in s.here, "redeclared")
                    \cup When(~Same(x.type, type), "operands")
                    \cup When(NoType(x.type, u.declarations), "typedef"))
       [] x.does = "if" ->
            Added(s, When(~Scalar(type), "operands") \cup Inner(x.then) \cup Inner(x.else))
       [] x.does = "switch" ->
            Added(s, When(~IsA("variant", expand(type)), "operands") \cup Inner(x.then))
       [] OTHER -> Added(s, {})

BlockReasons(items, scope, u, c) ==
  FoldLeft(LAMBDA s, x : ItemReasons(s, x, u, c),
           [scope |-> scope, here |-> {}, label |-> FALSE, reasons |-> {}],
           items).reasons

(***************************************************************************)
(* File scope: every name once, but that a typedef which is no structure   *)
(* may be repeated for the same type (C11 6.7); a type before its use; no  *)
(* keyword as a member.  Two members of a union with one name have two     *)
(* structures with one name.                                               *)
(***************************************************************************)
Keywords ==
  {"auto", "break", "case", "char", "const", "continue", "default", "do", "double", "else",
   "enum", "extern", "float", "for", "goto", "if", "inline", "int", "long", "register",
   "restrict", "return", "short", "signed", "sizeof", "static", "struct", "switch",
   "typedef", "union", "unsigned", "void", "volatile", "while"}

SameInC(t, u) ==
  \/ expand(t) = expand(u)
  \/ Octets(t) /\ Octets(u) /\ Lengths[expand(t)] = Lengths[expand(u)]

Repeats(d, e) == d.target # "" /\ e.target # "" /\ SameInC(d.target, e.target)

FileReasons(u) ==
  LET d == u.declarations
      spelled == {x.words : x \in ToSet(d)}
      Clash(j, l) == d[j].words = d[l].words /\ ~Repeats(d[j], d[l])
      Unknown(j) == \E t \in d[j].uses : NoType(t, SubSeq(d, 1, j - 1))
      members == UNION {x.members : x \in ToSet(d)}
  IN When(\/ \E j \in DOMAIN d : \E l \in 1..(j - 1) : Clash(j, l)
          \/ u.function \in spelled \cup u.helpers
          \/ u.helpers \cap spelled # {}, "identifier")
       \cup When(\E j \in DOMAIN d : Unknown(j), "typedef")
       \cup When(\E w \in Keywords : <<w>> \in members, "keyword")

CompileReasons(u, c) == FileReasons(u) \cup BlockReasons(u.body, <<>>, u, c)

-----------------------------------------------------------------------------
(***************************************************************************)
(* Execution.  Truth is 1 or 0; a structure is a function of its members.  *)
(* Octet arrays compare as addresses, equal when they name one object.     *)
(***************************************************************************)
Truth(b) == IF b THEN 1 ELSE 0

RECURSIVE CValue(_, _, _, _)
CValue(e, env, parameter, types) ==
  LET V(x) == CValue(x, env, parameter, types)
      Address(x) == Octets(CType(x, types.scope, types.parameter))
  IN CASE e.op = "parameter" -> parameter
       [] e.op = "binding"   -> env[e.n]
       [] e.op = "number"    -> e.n
       [] e.op = "."         -> V(e.of)[e.n]
       [] e.op = "!"         -> Truth(V(e.of) = 0)
       [] e.op = "call"      -> Truth(V(e.of.left) = V(e.of.right))
       [] e.op \in {"==", "!="} ->
            Truth(IF Address(e.left) THEN (e.left = e.right) <=> (e.op = "==")
                  ELSE Holds(e.op, V(e.left), V(e.right)))
       [] e.op \in {"<", "<=", ">", ">="} -> Truth(Holds(e.op, V(e.left), V(e.right)))
       [] e.op = "&&"        -> Truth(V(e.left) # 0 /\ V(e.right) # 0)
       [] e.op = "||"        -> Truth(V(e.left) # 0 \/ V(e.right) # 0)

\* A stored value as members: a structure has its own, any other has member 0.
MembersOf(v, t) == IF IsA("record", expand(t)) THEN v ELSE 0 :> v

Zeroed == [disposition |-> 0, rejection_tag |-> 0, premise_tag |-> 0,
           accepted |-> <<>>, case |-> "", payload |-> <<>>]

Stored(r, place, v, c) ==
  CASE place.member = "accepted" ->
         [r EXCEPT !.accepted = IF place.field = 0 THEN MembersOf(v, c.accepted)
                                ELSE (place.field :> v) @@ @]
    [] place.member = "rejection" ->
         [r EXCEPT !.case = place.case, !.payload = (place.field :> v) @@ @]
    [] OTHER -> [r EXCEPT ![place.member] = v]

RECURSIVE Execute(_, _, _, _)

\* s: the result so far, the bindings and their types, whether a break was met.
Step(s, x, parameter, c) ==
  LET types == [scope |-> s.types, parameter |-> c.parameters[1]]
      Evaluated == CValue(Parse(x.tokens), s.env, parameter, types)
      Inner(block) == [Execute(block, s, parameter, c) EXCEPT !.env = s.env,
                                                              !.types = s.types]
      Label(tag) == {j \in DOMAIN x.then : x.then[j].does = "case" /\ x.then[j].n = tag}
      From(labels) == IF labels = {} THEN <<>>
                      ELSE SubSeq(x.then, Min(labels), Len(x.then))
  IN CASE s.broke -> s
       [] x.does \in {"assign", "copy"} ->
            [s EXCEPT !.result = Stored(@, x.place, Evaluated, c)]
       [] x.does = "declare" -> [s EXCEPT !.env = (x.n :> Evaluated) @@ @,
                                          !.types = (x.n :> x.type) @@ @]
       [] x.does = "if"      -> Inner(IF Evaluated # 0 THEN x.then ELSE x.else)
       [] x.does = "switch"  -> [Inner(From(Label(Evaluated.tag))) EXCEPT !.broke = FALSE]
       [] x.does = "break"   -> [s EXCEPT !.broke = TRUE]
       [] OTHER -> s

Execute(items, s, parameter, c) ==
  FoldLeft(LAMBDA t, x : Step(t, x, parameter, c), s, items)

\* What the function of unit u returns.
Call(u, parameter, c) ==
  Execute(u.body, [result |-> Zeroed, env |-> <<>>, types |-> <<>>, broke |-> FALSE],
          parameter, c).result
=============================================================================
