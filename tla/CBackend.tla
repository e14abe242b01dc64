-------------------------------- MODULE CBackend --------------------------------
(***************************************************************************)
(* The projection to C (src/src/alpha/seki_c_backend.c): a reader that     *)
(* takes an emitted kernel into arenas of fixed capacity, and a printer    *)
(* that walks the arenas.                                                  *)
(*                                                                         *)
(* The octets of the core are left out: the reader meets the nodes in the  *)
(* order of the encoding.  The C is kept as tokens where its grammar       *)
(* matters, in expressions, and as nested blocks of items where braces are *)
(* printed; layout and the size of the text are left out.                  *)
(***************************************************************************)
EXTENDS CoreEmitter

CONSTANTS
  Capacity,   \* of the reader: [expressions, tails, record_fields, tag, octets, name]
  TypeOrder,  \* type_order: the declared types, as TypeLayout derives it
  Lower       \* a declared or case name as the lower-case words between its "_"

-----------------------------------------------------------------------------
(***************************************************************************)
(* The reader.  m is what it has decoded: it has failed, or the arenas     *)
(* hold what was read.  A decoded node is m and its index, d.              *)
(***************************************************************************)
Decoded(m, at) == [m |-> m, at |-> at]

reader_fail(m) == Decoded([m EXCEPT !.failed = TRUE], 0)

NothingDecoded ==
  [failed |-> FALSE, expressions |-> <<>>, record_fields |-> <<>>,
   tails |-> <<>>, arms |-> <<>>]

add_expression(m, x) ==
  IF m.failed \/ Len(m.expressions) = Capacity.expressions THEN reader_fail(m)
  ELSE Decoded([m EXCEPT !.expressions = Append(@, x)], Len(m.expressions) + 1)

\* Mutant of add_tail: one too many.
add_tail_over(m, t) ==
  IF m.failed \/ Len(m.tails) > Capacity.tails THEN reader_fail(m)
  ELSE Decoded([m EXCEPT !.tails = Append(@, t)], Len(m.tails) + 1)

add_tail(m, t) ==
  IF m.failed \/ Len(m.tails) = Capacity.tails THEN reader_fail(m)
  ELSE Decoded([m EXCEPT !.tails = Append(@, t)], Len(m.tails) + 1)

\* Mutant of binding_ordinal: the slot itself.
binding_ordinal_slot(slot, bindings) == IF slot < bindings THEN slot ELSE Invalid

\* Slots below bindings are bindings, numbered in the order of introduction.
binding_ordinal(slot, bindings) ==
  IF slot < bindings THEN bindings - 1 - slot ELSE Invalid

(***************************************************************************)
(* read_claimed_type: the types that can be read at all.  A Decision names *)
(* the rejection variant, which is not known yet where members are read,   *)
(* and no other Decision is one of this kernel's.                          *)
(***************************************************************************)
read_claimed_type(t, c) ==
  \/ t \in {"Unit", "Bool"} \cup Unsigned \cup c.module.types
  \/ t = "Digest"
  \/ t \in DOMAIN Lengths \ {"Digest"} /\ Lengths[t] \in 1..Capacity.octets

RECURSIVE decode_expression(_, _, _, _)

\* Slots of the field arena are reserved before the values are read.
decode_values(m, e, x, c, bindings) ==
  LET first == Len(m.record_fields)
      Reserved == [m EXCEPT !.record_fields = @ \o [j \in DOMAIN e.values |-> 0]]
      Stored(d, j) == [d.m EXCEPT !.record_fields[first + j] = d.at]
      Read(n, j) == Stored(decode_expression(n, e.values[j], c, bindings), j)
      Added(n) == add_expression(n, [first |-> first, count |-> Len(e.values)] @@ x)
  IN IF first + Len(e.values) > Capacity.record_fields THEN reader_fail(m)
     ELSE Added(FoldLeftDomain(Read, Reserved, e.values))

\* Mutant of decode_project: of any record.
decode_project_any(d, e, x, c) ==
  IF e.field > Len(FieldsOf(e.owner)) THEN reader_fail(d.m)
  ELSE add_expression(d.m, [record |-> d.at, field |-> e.field] @@ x)

decode_project(d, e, x, c) ==
  IF e.owner # c.parameters[1] \/ e.field > Len(FieldsOf(e.owner))
  THEN reader_fail(d.m)
  ELSE add_expression(d.m, [record |-> d.at, field |-> e.field] @@ x)

decode_binary(m, e, x, c, bindings) ==
  LET Joined(l, r) == add_expression(r.m, [left |-> l.at, right |-> r.at] @@ x)
      Right(l) == Joined(l, decode_expression(l.m, e.right, c, bindings))
  IN Right(decode_expression(m, e.left, c, bindings))

\* enum restricted_compare, from zero.
RESTRICTED_EQUAL == 4
RESTRICTED_NOT_EQUAL == 5

\* An order is read with its octet, the equalities are known by their form.
decode_compare(m, e, x, c, bindings) ==
  LET Compared(operation) ==
        decode_binary(m, e, [compare |-> operation] @@ [x EXCEPT !.kind = "compare"],
                      c, bindings)
  IN CASE e.term = "equal" -> Compared(RESTRICTED_EQUAL)
       [] e.term = "not_equal" -> Compared(RESTRICTED_NOT_EQUAL)
       [] e.term = "compare" ->
            IF e.operation > 3 THEN reader_fail(m) ELSE Compared(e.operation)

decode_expression(m, e, c, bindings) ==
  LET x == [kind |-> e.term, type |-> e.type]
      Sum(owner, tag) == [owner |-> owner, tag |-> tag] @@ x
  IN IF m.failed \/ ~read_claimed_type(e.type, c) THEN reader_fail(m)
     ELSE CASE e.term = "unit" -> add_expression(m, x)
            [] e.term = "bool" ->
                 add_expression(m, [value |-> IF e.value THEN 1 ELSE 0] @@ x)
            [] e.term = "int"  -> add_expression(m, [value |-> e.value] @@ x)
            [] e.term = "local" ->
                 IF e.slot > bindings THEN reader_fail(m)
                 ELSE add_expression(m, [binding |-> binding_ordinal(e.slot, bindings)] @@ x)
            [] e.term = "record" ->
                 IF ~IsA("record", e.owner) THEN reader_fail(m)
                 ELSE decode_values(m, e, Sum(e.owner, 0), c, bindings)
            [] e.term = "variant" ->
                 IF e.owner # c.rejection THEN reader_fail(m)
                 ELSE decode_values(m, e, Sum(e.owner, e.tag), c, bindings)
            [] e.term = "project" ->
                 decode_project(decode_expression(m, e.receiver, c, bindings), e, x, c)
            [] e.term \in Comparisons -> decode_compare(m, e, x, c, bindings)
            [] e.term \in {"and", "or"} -> decode_binary(m, e, x, c, bindings)

\* The precedence index names the case that the reason constructs.
Consistent(d, precedence, c) ==
  /\ ~d.m.failed
  /\ precedence < Len(c.order)
  /\ d.m.expressions[d.at].kind = "variant"
  /\ c.order[precedence + 1] = d.m.expressions[d.at].tag

RECURSIVE decode_tail(_, _, _, _, _)

\* Arms are reserved together; each is a tag and the body read for it.
decode_arms(d, e, c, depth, bindings) ==
  LET first == Len(d.m.arms)
      Reserved == [d.m EXCEPT !.arms = @ \o [j \in DOMAIN e.arms |->
                                              [tag |-> e.arms[j].tag, body |-> 0]]]
      Stored(b, j) == [b.m EXCEPT !.arms[first + j].body = b.at]
      Read(n, j) == Stored(decode_tail(n, e.arms[j].body, c, depth + 1, bindings), j)
      Added(n) == add_tail(n, [kind |-> "match", scrutinee |-> d.at, first |-> first,
                               count |-> Len(e.arms)])
  IN IF d.m.failed \/ first + Len(e.arms) > Capacity.tails THEN reader_fail(d.m)
     ELSE Added(FoldLeftDomain(Read, Reserved, e.arms))

\* A tail is stored after the tails it goes on with.
decode_tail(m, e, c, depth, bindings) ==
  LET Value(n, x) == decode_expression(n, x, c, bindings)
      Onward(n, t, extra) == decode_tail(n, t, c, depth + 1, bindings + extra)
      Accept(v) == add_tail(v.m, [kind |-> "accept", value |-> v.at])
      Reject(r) ==
        IF ~Consistent(r, e.precedence, c) THEN reader_fail(r.m)
        ELSE add_tail(r.m, [kind |-> "reject", reason |-> r.at])
      Required(v, r, t) ==
        add_tail(t.m, [kind |-> "require", condition |-> v.at, reason |-> r.at,
                       premise |-> e.precedence, continuation |-> t.at])
      Reasoned(v, r) ==
        IF ~Consistent(r, e.precedence, c) THEN reader_fail(r.m)
        ELSE Required(v, r, Onward(r.m, e.continuation, 0))
      Require(v) == Reasoned(v, Value(v.m, e.reason))
      Bound(v, t) == add_tail(t.m, [kind |-> "let", value |-> v.at,
                                    ordinal |-> bindings, body |-> t.at])
      Let(v) == Bound(v, Onward(v.m, e.body, 1))
      Chosen(v, t, f) == add_tail(f.m, [kind |-> "if", condition |-> v.at,
                                        if_true |-> t.at, if_false |-> f.at])
      Else(v, t) == Chosen(v, t, Onward(t.m, e.if_false, 0))
      If(v) == Else(v, Onward(v.m, e.if_true, 0))
  IN IF m.failed \/ depth >= Capacity.tails THEN reader_fail(m)
     ELSE CASE e.term = "accept"  -> Accept(Value(m, e.value))
            [] e.term = "reject"  -> Reject(Value(m, e.reason))
            [] e.term = "require" -> Require(Value(m, e.condition))
            [] e.term = "let"     -> Let(Value(m, e.value))
            [] e.term = "match"   ->
                 decode_arms(Value(m, e.scrutinee), e, c, depth, bindings)
            [] e.term = "if"      -> If(Value(m, e.condition))

-----------------------------------------------------------------------------
(***************************************************************************)
(* resolve_representation: through nominals, to a type that is none.       *)
(***************************************************************************)
\* Mutant of resolve_representation: the type as it is written.
resolve_representation_bare(t) == t

resolve_representation(t) == expand(t)

IsOctets(t) == resolve_representation(t) \in DOMAIN Lengths

(***************************************************************************)
(* decode_header, over the declarations of the module: a field, and what   *)
(* an alias or a nominal stands for, is neither Unit nor Bool.  The counts *)
(* of declarations, members and path components have the limits of the     *)
(* parser, so only the length of names, the profile and the tags can be    *)
(* more than the reader takes.                                             *)
(***************************************************************************)
Representable(t, c) == read_claimed_type(t, c) /\ t \notin {"Unit", "Bool"}

decode_header(c) ==
  /\ c.module.profile = "c11_bounded@1"
  /\ c.module.longest < Capacity.name
  /\ \A t \in c.module.types :
       /\ \A f \in ToSet(FieldsOf(t)) : Representable(f.type, c)
       /\ \A x \in ToSet(CasesOf(t)) :
            /\ x.tag <= Capacity.tag
            /\ \A f \in ToSet(x.payload) : read_claimed_type(f.type, c)
       /\ StandsFor(t) => Representable(Declarations[t].target, c)

\* decode_kernel: the signature, the body, the bounds and the publication.
Signature(c) ==
  /\ c.module.kernels = 1
  /\ Len(c.parameters) = 1
  /\ IsA("record", c.parameters[1])
  /\ read_claimed_type(c.accepted, c)
  /\ ~IsOctets(c.accepted)
  /\ IsA("variant", c.rejection)
  /\ c.order # <<>>
  /\ ToSet(c.order) \subseteq {x.tag : x \in ToSet(CasesOf(c.rejection))}

decode_kernel(c) ==
  LET Finished(d) ==
        IF (\E b \in DOMAIN c.exact : c.exact[b] > c.declared[b]) \/ c.publication
        THEN reader_fail(d.m) ELSE d
  IN IF ~Signature(c) THEN reader_fail(NothingDecoded)
     ELSE Finished(decode_tail(NothingDecoded, c.body, c, 0, 0))

decode_module(c) ==
  IF ~decode_header(c) THEN reader_fail(NothingDecoded) ELSE decode_kernel(c)

-----------------------------------------------------------------------------
(***************************************************************************)
(* Printed expressions: sequences of tokens.  failed is the text buffer's  *)
(* sticky failure, kept as a token.                                        *)
(***************************************************************************)
Token(text, n) == [text |-> text, n |-> n]

Mark(text) == <<Token(text, 0)>>

Parenthesised(tokens) == Mark("(") \o tokens \o Mark(")")

failed == Mark("failed")

FieldName(t, j) == ByName(FieldsOf(t))[j].name

RECURSIVE print_expression(_, _, _)

IsLogical(m, i) == m.expressions[i].kind \in {"and", "or"}

\* Mutant of print_logical_operand: C's precedence is relied on.
print_logical_operand_bare(m, c, i) == print_expression(m, c, i)

print_logical_operand(m, c, i) ==
  IF IsLogical(m, i) THEN Parenthesised(print_expression(m, c, i))
  ELSE print_expression(m, c, i)

restricted_compare_text(compare) == CompareOperators[compare + 1]

\* Mutant of print_octets: inequality is printed as equality.
print_octets_equal(operands, compare) ==
  IF compare \notin {RESTRICTED_EQUAL, RESTRICTED_NOT_EQUAL} THEN failed
  ELSE Mark("octets_equal") \o Parenthesised(operands)

\* Octets are compared by a helper, and only for equality.
print_octets(operands, compare) ==
  IF compare \notin {RESTRICTED_EQUAL, RESTRICTED_NOT_EQUAL} THEN failed
  ELSE (IF compare = RESTRICTED_NOT_EQUAL THEN Mark("!") ELSE <<>>)
         \o Mark("octets_equal") \o Parenthesised(operands)

print_compare(m, c, x) ==
  LET left == print_expression(m, c, x.left)
      right == print_expression(m, c, x.right)
  IN IF IsOctets(m.expressions[x.left].type)
     THEN print_octets(left \o Mark(",") \o right, x.compare)
     ELSE left \o Mark(restricted_compare_text(x.compare)) \o right

\* Records and variants are written into a destination, never as a value.
print_expression(m, c, i) ==
  LET x == m.expressions[i]
  IN CASE x.kind = "local" ->
            IF x.binding = Invalid THEN Mark("parameter") ELSE <<Token("binding", x.binding)>>
       [] x.kind = "project" ->
            print_expression(m, c, x.record)
              \o <<Token(".", FieldName(c.parameters[1], x.field))>>
       [] x.kind \in {"int", "bool"} -> <<Token("number", x.value)>>
       [] x.kind = "compare" -> print_compare(m, c, x)
       [] x.kind \in {"and", "or"} ->
            print_logical_operand(m, c, x.left)
              \o Mark(IF x.kind = "and" THEN "&&" ELSE "||")
              \o print_logical_operand(m, c, x.right)
       [] OTHER -> failed

-----------------------------------------------------------------------------
(***************************************************************************)
(* Printed control: blocks of items.  A place is where an assignment goes: *)
(* a member of the result, and for a union member its case and its field.  *)
(***************************************************************************)
Blank == [does |-> "", place |-> [member |-> "", case |-> "", field |-> 0],
          tokens |-> <<>>, n |-> 0, type |-> "", then |-> <<>>, else |-> <<>>]

Place(member, case, field) == [member |-> member, case |-> case, field |-> field]

Assign(place, tokens) ==
  <<[Blank EXCEPT !.does = "assign", !.place = place, !.tokens = tokens]>>

Set(member, n) == Assign(Place(member, "", 0), <<Token("number", n)>>)

Block(does, tokens, then, else) ==
  <<[Blank EXCEPT !.does = does, !.tokens = tokens, !.then = then, !.else = else]>>

\* Field j of the construction x goes to its place: octets are copied.
print_field(m, c, x, j, type, place) ==
  LET Store == Assign(place, print_expression(m, c, m.record_fields[x.first + j]))
  IN IF IsOctets(type) THEN <<[Store[1] EXCEPT !.does = "copy"]>> ELSE Store

print_record_into(m, c, i) ==
  LET x == m.expressions[i]
      fields == ByName(FieldsOf(x.owner))
  IN FlattenSeq([j \in 1..x.count |->
       print_field(m, c, x, j, fields[j].type, Place("accepted", "", fields[j].name))])

\* The case with the tag, into its member of the union.
print_rejection_payload(m, c, i) ==
  LET x == m.expressions[i]
      case == CaseTagged(c.rejection, x.tag)
      payload == sort_payload_order(case)
  IN IF x.count # 0 /\ Len(payload) # x.count THEN Assign(Place("rejection", case.name, 0), failed)
     ELSE FlattenSeq([j \in 1..x.count |->
            print_field(m, c, x, j, payload[j].type,
                        Place("rejection", case.name, payload[j].name))])

print_accept(m, c, i) ==
  Set("disposition", 1) \o
  (IF c.accepted = "Unit" THEN <<>>
   ELSE IF m.expressions[i].kind = "record" THEN print_record_into(m, c, i)
   ELSE Assign(Place("accepted", "", 0), print_expression(m, c, i)))

print_reject(m, c, i) ==
  Set("disposition", 2) \o Set("rejection_tag", m.expressions[i].tag)

print_condition(m, c, i) == Mark("!") \o Parenthesised(print_expression(m, c, i))

\* An octet binding names the octets; any other one is a constant object.
print_binding(m, c, t) ==
  LET value == m.expressions[t.value]
  IN <<[Blank EXCEPT !.does = "declare", !.n = t.ordinal,
                     !.type = IF IsOctets(value.type)
                              THEN resolve_representation(value.type) ELSE value.type,
                     !.tokens = print_expression(m, c, t.value)]>>

RECURSIVE print_tail(_, _, _)

print_match(m, c, t) ==
  LET Label(a) == <<[Blank EXCEPT !.does = "case", !.n = a.tag]>>
      Break == <<[Blank EXCEPT !.does = "break"]>>
      Arm(a) == Label(a) \o print_tail(m, c, a.body) \o Break
  IN Block("switch", print_expression(m, c, t.scrutinee),
           FlattenSeq([j \in 1..t.count |-> Arm(m.arms[t.first + j])]), <<>>)

print_tail(m, c, i) ==
  LET t == m.tails[i]
  IN CASE t.kind = "accept"  -> print_accept(m, c, t.value)
       [] t.kind = "reject"  ->
            print_reject(m, c, t.reason) \o print_rejection_payload(m, c, t.reason)
       [] t.kind = "require" ->
            Block("if", print_condition(m, c, t.condition),
                  print_reject(m, c, t.reason) \o Set("premise_tag", t.premise + 1)
                    \o print_rejection_payload(m, c, t.reason),
                  print_tail(m, c, t.continuation))
       [] t.kind = "let"     -> print_binding(m, c, t) \o print_tail(m, c, t.body)
       [] t.kind = "match"   -> print_match(m, c, t)
       [] t.kind = "if"      ->
            Block("if", print_expression(m, c, t.condition),
                  print_tail(m, c, t.if_true), print_tail(m, c, t.if_false))

-----------------------------------------------------------------------------
(***************************************************************************)
(* print_module: the file-scope declarations in their order, each with its *)
(* identifier after the prefix and the types it uses; the helpers; and the *)
(* body of the function.                                                   *)
(***************************************************************************)
module_copies_octets(m) ==
  \E i \in DOMAIN m.expressions :
    /\ m.expressions[i].kind = "record"
    /\ \E f \in ToSet(FieldsOf(m.expressions[i].owner)) : IsOctets(f.type)

module_compares_octets(m) ==
  \E i \in DOMAIN m.expressions :
    /\ m.expressions[i].kind = "compare"
    /\ IsOctets(m.expressions[m.expressions[i].left].type)

(***************************************************************************)
(* A typedef: the declared type it is for (none for the payload of a       *)
(* case), the identifier after the prefix, what it stands for if it is no  *)
(* structure, the types of its members, and the identifiers, without a     *)
(* prefix, of the members of its union.                                    *)
(***************************************************************************)
Typedef(t, words, target, uses, members) ==
  [of |-> t, words |-> words, target |-> target, uses |-> uses, members |-> members]

TypesOf(fields) == {f.type : f \in ToSet(fields)}

Carrying(t) == SelectSeq(CaseOrder(t), LAMBDA x : x.payload # <<>>)

\* A struct for each case with a payload, under the words it is named with.
print_cases(t, words) ==
  [j \in DOMAIN Carrying(t) |->
     Typedef("", words \o Lower[Carrying(t)[j].name], "",
             TypesOf(Carrying(t)[j].payload), {})]

\* A union has a member for each of them, named like the case.
UnionMembers(t) == {Lower[x.name] : x \in ToSet(Carrying(t))}

\* The rejection variant has no type of its own.
print_declaration(t, c) ==
  CASE StandsFor(t) ->
         <<Typedef(t, Lower[t], Declarations[t].target, {Declarations[t].target}, {})>>
    [] IsA("record", t)  -> <<Typedef(t, Lower[t], "", TypesOf(FieldsOf(t)), {})>>
    [] IsA("variant", t) ->
         IF t = c.rejection THEN <<>>
         ELSE Append(print_cases(t, Lower[t]),
                     Typedef(t, Lower[t], "", {}, UnionMembers(t)))

print_declarations(c) ==
  LET order == SelectSeq(TypeOrder, LAMBDA t : t \in c.module.types)
  IN FlattenSeq([j \in DOMAIN order |-> print_declaration(order[j], c)])
       \o print_cases(c.rejection, <<"payload">>)
       \o <<Typedef("", <<"decision">>, "", {c.accepted}, UnionMembers(c.rejection))>>

print_helpers(m) ==
  {<<"zero">>} \cup (IF module_compares_octets(m) THEN {<<"octets", "equal">>} ELSE {})
               \cup (IF module_copies_octets(m) THEN {<<"octets", "copy">>} ELSE {})

\* d is what was decoded; its index is the root of the body.
print_module(d, c, name) ==
  [declarations |-> print_declarations(c), helpers |-> print_helpers(d.m),
   function |-> name, body |-> print_tail(d.m, c, d.at)]
=============================================================================
