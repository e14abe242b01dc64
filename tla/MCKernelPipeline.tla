--------------------------- MODULE MCKernelPipeline ---------------------------
(***************************************************************************)
(* Modules of the same declarations, and kernels over them: every small    *)
(* body crossed with every continuation it can be in, well typed or not.   *)
(* Fields and cases are not declared in canonical order, but for records.  *)
(* No literal is inside another and no match inside an arm: the parser     *)
(* does not leave those as trees (KernelParser, MatchesAreExhaustive).     *)
(***************************************************************************)
EXTENDS KernelPipeline

Field(n, t) == [name |-> n, type |-> t]
Case(n, tag, payload) == [name |-> n, tag |-> tag, payload |-> payload]
RecordOf(fields) == [kind |-> "record", fields |-> fields]
VariantOf(cases) == [kind |-> "variant", cases |-> cases]
NominalOf(t) == [kind |-> "nominal", target |-> t]

\* Long is wider than the profile allows, and so is what has Double as a member.
MCLengths == [Digest |-> 32, Half |-> 100, Long |-> 200]

MCProfile == [name |-> "c11_bounded@1", steps |-> 100, live |-> 900, depth |-> 50,
              workspace |-> 8, nesting |-> 50, expressions |-> 100]

DeclarationsOf(pair) ==
  [Id     |-> NominalOf("U8"),
   Opened |-> NominalOf("Pair"),
   Dial   |-> NominalOf("Mode"),
   Pair   |-> RecordOf(pair),
   Box    |-> RecordOf(<<Field(1, "U64"), Field(2, "Pair"), Field(3, "U8")>>),
   Mode   |-> VariantOf(<<Case("On", 3, <<>>), Case("Off", 1, <<>>)>>),
   Denial |-> VariantOf(<<Case("Early", 2, <<>>),
                          Case("Late", 1, <<Field(2, "U64"), Field(1, "U8")>>)>>),
   Far    |-> NominalOf("Long"),
   Double |-> RecordOf(<<Field(1, "Half"), Field(2, "Half")>>),
   Shelf  |-> VariantOf(<<Case("None", 1, <<>>), Case("Some", 2, <<Field(1, "Double")>>)>>)]

MCDeclarations == DeclarationsOf(<<Field(1, "U8"), Field(2, "U64")>>)

\* The fields of Pair out of order.
SwappedDeclarations == DeclarationsOf(<<Field(2, "U8"), Field(1, "U64")>>)

PairOf(a, b) == 1 :> a @@ 2 :> b

Modes == {[item |-> "On", payload |-> <<>>], [item |-> "Off", payload |-> <<>>]}

MCSample ==
  [U8 |-> {0, 255}, U64 |-> {0, 300}, Id |-> {7}, Opened |-> {PairOf(4, 5)},
   Pair |-> {PairOf(1, 2), PairOf(0, 0)}, Box |-> {1 :> 300 @@ 2 :> PairOf(1, 2) @@ 3 :> 9},
   Mode |-> Modes, Dial |-> Modes]

-----------------------------------------------------------------------------
Name(n) == [kind |-> "name", name |-> n]
Num(n) == [kind |-> "natural", natural |-> n]
Bool(b) == [kind |-> "bool", value |-> b]
Proj(e, n) == [kind |-> "field", receiver |-> e, field |-> n]
Give(n, e) == [name |-> n, value |-> e]
Lit(owner, inits) == [kind |-> "record", owner |-> owner, inits |-> inits]
Cmp(o, l, r) == [kind |-> "compare", operator |-> o, left |-> l, right |-> r]
Logical(kind, l, r) == [kind |-> kind, left |-> l, right |-> r]

Scalars == {Name("x"), Num(7), Num(256), Proj(Name("p"), 1), Proj(Name("p"), 2),
            Name("y")}

\* Fields of a wide record: more is live while they are read than is left.
Word == Proj(Name("b"), 1)
Octet == Proj(Name("b"), 3)

Literals ==
  {Lit("Pair", <<Give(1, a), Give(2, b)>>) :
     a \in Scalars, b \in {Num(300), Word, Octet}}
    \cup {Lit("Pair", <<Give(2, b), Give(1, Name("x"))>>) : b \in Scalars}
    \cup {Lit("Pair", <<Give(1, Name("x"))>>), Lit("Mode", <<>>)}

Others == {Name("p"), Name("m"), Name("i"), Name("z"), Bool(TRUE), [kind |-> "unit"],
           Proj(Name("p"), 3), Proj(Name("i"), 1),
           Proj(Proj(Name("b"), 2), 2), Proj(Lit("Pair",
             <<Give(2, Num(9)), Give(1, Name("x"))>>), 2)}

PairOfNames == Lit("Pair", <<Give(2, Proj(Name("p"), 2)), Give(1, Name("x"))>>)

Operands == Scalars \cup Literals \cup Others

Tests == {Bool(FALSE), Cmp("<", Name("x"), Num(255)), Cmp("==", Name("y"), Num(0)),
          Cmp("<", Name("p"), Name("p")),
          Cmp("==", Name("p"), Lit("Pair", <<Give(2, Num(2)), Give(1, Num(1))>>))}

Conditions ==
  Tests \cup {Logical(kind, l, r) : kind \in {"and", "or"}, l, r \in Tests}
        \cup {Cmp(o, l, r) : o \in ToSet(CompareOperators), l, r \in Scalars}
        \cup {Cmp("!=", Name("p"), PairOfNames)}
        \cup {Logical("and", Name("x"), Bool(TRUE)), Name("m")}

-----------------------------------------------------------------------------
Accept(e) == [kind |-> "accept", value |-> e]
Reject(item, inits) ==
  [kind |-> "reject", owner |-> "Denial", item |-> item, inits |-> inits]
Require(c, r, e) ==
  [kind |-> "require", owner |-> r.owner, item |-> r.item, inits |-> r.inits,
   condition |-> c, continuation |-> e]
Let(n, v, e) == [kind |-> "let", name |-> n, value |-> v, body |-> e]
If(c, e, f) == [kind |-> "if", condition |-> c, if_true |-> e, if_false |-> f]
Arm(item, e) == [item |-> item, body |-> e]
Match(s, arms) == [kind |-> "match", scrutinee |-> s, arms |-> arms]

Early == Reject("Early", <<>>)
Late(a, b) == Reject("Late", <<Give(1, a), Give(2, b)>>)
Late2 == Reject("Late", <<Give(2, Word), Give(1, Name("x"))>>)

Rejections == {Early, Late(Name("x"), Proj(Name("p"), 2)), Late(Num(1), Num(2)), Late2}
BadRejections == {Reject("Late", <<>>), Reject("Never", <<>>), Late(Num(256), Num(1)),
                  [Early EXCEPT !.owner = "Mode"]}

Simple == {Accept(Name("p")), Accept(Lit("Pair", <<Give(2, Num(1)), Give(1, Name("x"))>>)),
           Early, Late2}
Flat == {Accept(v) : v \in Operands} \cup Rejections \cup BadRejections

Middle ==
  {Require(c, r, e) : c \in Tests, r \in Rejections, e \in Simple}
    \cup {Let("y", v, e) : v \in Scalars \cup Others,
            e \in Simple \cup {Accept(Name("y")), Accept(Lit("Pair",
                      <<Give(1, Name("y")), Give(2, Num(0))>>))}}
    \cup {Match(Name("m"), <<Arm("Off", e), Arm("On", f)>>) : e, f \in Simple}
    \cup {If(c, e, f) : c \in {Bool(FALSE), Cmp("<", Name("x"), Num(255))}, e, f \in Simple}

Deep ==
  {Require(Cmp("<", Name("x"), Num(7)), r, e) : r \in {Early, Late2}, e \in Middle}
    \cup {Let(n, v, e) : n \in {"y", "x"}, v \in {Name("p"), Proj(Name("p"), 1)}, e \in Middle}
    \cup {Match(Name("m"), <<Arm("On", e), Arm("Off", Accept(Name("p")))>>) :
            e \in {m \in Middle : m.kind # "match"}}
    \cup {Match(s, <<Arm("On", Early), Arm(item, Early)>>) :
            s \in {Name("m"), Name("p")}, item \in {"On", "Off", "Never"}}
    \cup {If(Logical("or", Bool(FALSE), Cmp("==", Name("p"), Name("p"))), Late2, e) : e \in Middle}
    \cup {If(c, Early, Accept(Name("p"))) : c \in Conditions}

-----------------------------------------------------------------------------
Item(n) == [owner |-> "Denial", item |-> n]
Bounds(s, l, d) == [steps |-> s, live |-> l, depth |-> d, workspace |-> 0]

\* Only some modules also have the last three declarations.
Usual == {"Id", "Opened", "Dial", "Pair", "Box", "Mode", "Denial"}

MCModule == [types |-> Usual, profile |-> "c11_bounded@1", kernels |-> 1, longest |-> 6,
             claims |-> <<"semantic_evaluation">>, requires |-> <<"totality">>]

MCParameters == <<Field("x", "U8"), Field("p", "Pair"), Field("m", "Mode"), Field("i", "Id"),
                 Field("b", "Box")>>

Kernel(accepted, inventory, bounds, e) ==
  [decision |-> TRUE, parameters |-> MCParameters, accepted |-> accepted,
   rejection |-> "Denial", rejections |-> inventory, bounds |-> bounds, body |-> e,
   publication |-> FALSE, module |-> MCModule]

Wide(n, t) == [j \in 1..n |-> Field(<<"a", "b", "c", "d", "e", "f", "g", "h">>[j], t)]

Full == <<Item("Early"), Item("Late")>>
Ample == Bounds(100, 900, 50)

Modest(e) == Kernel("Pair", Full, Ample, e)

\* Headers: profiles, names the registries have and have not, and more types.
Headers ==
  {[MCModule EXCEPT !.claims = claims, !.requires = requires] :
     claims \in {<<"publication">>, <<"semantic_evaluation">>, <<"installed_binary">>,
                 <<"publication", "lean_projection">>, <<"semantics">>},
     requires \in {<<"publication_equivalence">>, <<"totality">>,
                   <<"publication_equivalence", "determinism">>, <<"safety">>}}
    \cup {[MCModule EXCEPT !.profile = "c11_bounded@2"]}
    \cup {[MCModule EXCEPT !.types = @ \cup more] :
            more \in {{"Far"}, {"Double"}, {"Double", "Shelf"}}}

ByHeader ==
  {[Modest(Accept(Name("p"))) EXCEPT !.module = header, !.publication = p] :
     header \in Headers, p \in BOOLEAN}

\* Bounds above the profile, one at a time.
ByBounds ==
  {[Modest(e) EXCEPT !.bounds = b] :
     b \in {Bounds(101, 900, 50), Bounds(100, 901, 50), Bounds(100, 900, 51),
            [Ample EXCEPT !.workspace = 8], [Ample EXCEPT !.workspace = 9]},
     e \in Simple}

\* Rejections that are no variant, and one that is another variant.
ByRejection ==
  {[Modest(e) EXCEPT !.rejection = t, !.rejections = items] :
     t \in {"Pair", "Id", "U8", "Mode"}, e \in {Accept(Name("p")), Early},
     items \in {<<Item("On")>>, <<Item("Off"), Item("On")>>}}

MCKernels ==
  ByHeader \cup ByBounds \cup ByRejection
    \cup {Kernel("Pair", Full, Ample, e) : e \in Flat \cup Middle \cup Deep}
    \cup {Kernel("U64", Full, Ample, Accept(v)) : v \in Operands}
    \cup {Kernel("Pair", inventory, Ample, e) :
            inventory \in {<<Item("Late"), Item("Early")>>, <<Item("Late")>>,
                           <<Item("Early"), Item("Late"), Item("Early")>>,
                           <<Item("Early"), Item("Late"), Item("Never")>>},
            e \in Middle \cup Rejections}
    \cup {Kernel("Pair", Full, b, e) :
            b \in {Bounds(100, 400, 50), Bounds(6, 900, 50), Bounds(100, 900, 4)}, e \in Middle}
    \cup {[Kernel("Pair", Full, Ample, Accept(Name("p"))) EXCEPT !.decision = FALSE],
          [Kernel("Pair", Full, Ample, Let("y", Bool(TRUE), Early)) EXCEPT
             !.parameters = Wide(7, "U8")]}
    \cup {[Kernel("Pair", Full, Ample, Early) EXCEPT !.parameters = Wide(w[1], w[2])]
            : w \in {<<8, "U8">>, <<7, "U64">>, <<5, "Box">>}}
    \cup {[k EXCEPT !.parameters[4].type = "Opened"] :
            k \in {Kernel("U64", Full, Ample, Accept(v)) :
                     v \in Operands \cup {Proj(Name("i"), 2)}}
                   \cup {Kernel("Pair", Full, Ample, e) : e \in Middle}}
    \cup {[Kernel("Pair", Full, Ample, e) EXCEPT !.parameters[3].type = "Dial"] :
            e \in {m \in Middle : m.kind = "match"}}

\* The bodies the declarations above are about.
SwappedKernels ==
  {Kernel("Pair", Full, Ample, Accept(v)) : v \in Literals}
    \cup {Kernel("Pair", Full, Ample, e) : e \in Middle}
=============================================================================
