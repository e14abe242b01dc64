------------------------------ MODULE CoreEmitter ------------------------------
(***************************************************************************)
(* What the emitter (src/src/alpha/seki_core.c) writes of one elaborated   *)
(* kernel.  The core is a tree: octets and positions of declared types are *)
(* left to TypeLayout, so a type is still known by its name; the members   *)
(* of a declaration are known by their positions in canonical order, as in *)
(* the encoding.                                                           *)
(***************************************************************************)
EXTENDS KernelChecker

CONSTANT StrayTags  \* what may be read as tags where no case is stored

(***************************************************************************)
(* build_member_layout and put_declaration: fields and payloads by name,   *)
(* cases by stable tag.                                                    *)
(***************************************************************************)
sort_payload_order(item) == ByName(item.payload)

CaseOrder(t) == SortSeq(CasesOf(t), LAMBDA c, d : c.tag < d.tag)

field_position(owner, index) ==
  LET f == FieldsOf(owner)[index]
  IN CHOOSE j \in DOMAIN FieldsOf(owner) : ByName(FieldsOf(owner))[j] = f

put_declaration(t) ==
  CASE IsA("record", t)  -> [kind |-> "record", fields |-> ByName(FieldsOf(t))]
    [] IsA("variant", t) ->
         [kind |-> "variant",
          cases |-> [j \in DOMAIN CaseOrder(t) |->
                       [tag |-> CaseOrder(t)[j].tag,
                        payload |-> sort_payload_order(CaseOrder(t)[j])]]]
    [] OTHER -> Declarations[t]

-----------------------------------------------------------------------------
\* The forms a comparison is written in.
Comparisons == {"compare", "equal", "not_equal"}

\* Mutant of compare_form: one form for both equalities.
compare_form_equal(operator) ==
  IF Ordered(operator) THEN [term |-> "compare", operation |-> Ordinal(operator)]
  ELSE [term |-> "equal"]

\* Equalities have a form of their own, an order is a form and an octet.
compare_form(operator) ==
  CASE operator = "==" -> [term |-> "equal"]
    [] operator = "!=" -> [term |-> "not_equal"]
    [] OTHER -> [term |-> "compare", operation |-> Ordinal(operator)]

RECURSIVE put_expression(_)

\* Constructor fields in canonical order, by their position or by their name.
Values(fields, inits) == [j \in DOMAIN fields |->
                            put_expression(Initialiser(inits, fields[j]))]

put_expression(e) ==
  CASE e.kind = "unit"    -> [type |-> e.type, term |-> "unit"]
    [] e.kind = "bool"    -> [type |-> e.type, term |-> "bool", value |-> e.value]
    [] e.kind = "natural" ->
         [type |-> e.type, term |-> "int",
          value |-> IF e.type = "U8" THEN e.natural % 2^8 ELSE e.natural]
    [] e.kind = "name"    -> [type |-> e.type, term |-> "local", slot |-> e.slot]
    [] e.kind = "record"  ->
         LET fields == ByName(FieldsOf(e.owner))
         IN [type |-> e.type, term |-> "record", owner |-> e.owner,
             values |-> Values(fields, e.inits)]
    [] e.kind = "field"   ->
         [type |-> e.type, term |-> "project", owner |-> e.owner,
          receiver |-> put_expression(e.receiver),
          field |-> field_position(e.owner, e.index)]
    [] e.kind = "compare" ->
         [type |-> e.type,
          left |-> put_expression(e.left), right |-> put_expression(e.right)]
           @@ compare_form(e.operator)
    [] e.kind \in {"and", "or"} ->
         [type |-> e.type, term |-> e.kind,
          left |-> put_expression(e.left), right |-> put_expression(e.right)]

\* The reason is a construction of the rejection variant, built inline.
put_rejection_reason(e, k) ==
  LET payload == sort_payload_order(CaseTagged(k.rejection, e.tag))
  IN [type |-> k.rejection, term |-> "variant", owner |-> k.rejection,
      tag |-> e.tag, names |-> [j \in DOMAIN payload |-> payload[j].name],
      values |-> Values(payload, e.inits)]

RECURSIVE put_kernel_expression(_, _)
put_kernel_expression(e, k) ==
  CASE e.kind = "accept"  -> [term |-> "accept", value |-> put_expression(e.value)]
    [] e.kind = "reject"  ->
         [term |-> "reject", reason |-> put_rejection_reason(e, k),
          precedence |-> e.precedence]
    [] e.kind = "let"     ->
         [term |-> "let", value |-> put_expression(e.value),
          body |-> put_kernel_expression(e.body, k)]
    [] e.kind = "require" ->
         [term |-> "require", condition |-> put_expression(e.condition),
          reason |-> put_rejection_reason(e, k), precedence |-> e.precedence,
          continuation |-> put_kernel_expression(e.continuation, k)]
    [] e.kind = "match"   ->
         LET Arm(c) == CHOOSE a \in ToSet(e.arms) : a.item = c.name
         IN [term |-> "match", scrutinee |-> put_expression(e.scrutinee),
             arms |-> [j \in DOMAIN CaseOrder(e.owner) |->
               [owner |-> e.owner, tag |-> CaseOrder(e.owner)[j].tag,
                body |-> put_kernel_expression(Arm(CaseOrder(e.owner)[j]).body, k)]]]
    [] e.kind = "if"      ->
         [term |-> "if", condition |-> put_expression(e.condition),
          if_true |-> put_kernel_expression(e.if_true, k),
          if_false |-> put_kernel_expression(e.if_false, k)]

(***************************************************************************)
(* put_kernel.  The inventory is looked up by item alone, whatever owner   *)
(* it was written with; an item no case has fails the emission.  So does a *)
(* rejection that is not declared.  One that is declared but no variant is *)
(* read as a variant all the same: the tags found for the items are then   *)
(* whatever another member of the union has left there, or none is found.  *)
(***************************************************************************)
rejection_orders(k) ==
  LET cases(item) == Named(CasesOf(k.rejection), item)
      known == \A j \in DOMAIN k.rejections : cases(k.rejections[j].item) # {}
      TagOf(item) == CasesOf(k.rejection)[Min(cases(item))].tag
  IN IF k.rejection \notin DOMAIN Declarations THEN {}
     ELSE IF ~IsA("variant", k.rejection) THEN [DOMAIN k.rejections -> StrayTags]
     ELSE IF known THEN {[j \in DOMAIN k.rejections |-> TagOf(k.rejections[j].item)]}
     ELSE {}

may_fail(k) == rejection_orders(k) = {} \/ ~IsA("variant", k.rejection)

(***************************************************************************)
(* put_tag_vector: the header names theorems and claims, the core has      *)
(* their positions in these registries.  A name that is not there fails    *)
(* the emission.                                                           *)
(***************************************************************************)
seki_theorem_names ==
  <<"type_well_formed", "totality", "determinism", "resource_bounds",
    "rejection_precedence", "representation", "publication_equivalence">>

seki_claim_names ==
  <<"semantic_evaluation", "lean_projection", "representation_correspondence",
    "restricted_c_source", "clight_refinement", "certified_lean_equivalence",
    "installed_binary", "publication">>

put_tag_vector(names, registry) ==
  {j - 1 : j \in {l \in DOMAIN registry : registry[l] \in ToSet(names)}}

AllKnown(names, registry) ==
  Cardinality(put_tag_vector(names, registry)) = Len(names)

(***************************************************************************)
(* encode_module.  Of the other kernels of the module only their number is *)
(* kept, and of the names in it the length of the longest.                 *)
(***************************************************************************)
HeaderFails(module) ==
  \/ ~AllKnown(module.requires, seki_theorem_names)
  \/ ~AllKnown(module.claims, seki_claim_names)

encode_module(module) ==
  [types |-> module.types, profile |-> module.profile, kernels |-> module.kernels,
   longest |-> module.longest,
   theorems |-> put_tag_vector(module.requires, seki_theorem_names),
   claims |-> put_tag_vector(module.claims, seki_claim_names)]

put_kernel(k, body, exact, order) ==
  [module |-> encode_module(k.module),
   parameters |-> [j \in DOMAIN k.parameters |-> k.parameters[j].type],
   accepted |-> k.accepted, rejection |-> k.rejection, order |-> order,
   body |-> put_kernel_expression(body, k),
   declared |-> k.bounds, exact |-> exact, publication |-> k.publication]
=============================================================================
