--------------------------- MODULE MCKernelProjection ---------------------------
(***************************************************************************)
(* Kernels over one record parameter, as the projection wants them, and    *)
(* kernels and modules just outside of that.  Octets are met directly,     *)
(* behind a nominal and inside records; fields, payloads and cases are     *)
(* declared out of canonical order.  The builders are those of             *)
(* MCKernelPipeline.                                                       *)
(***************************************************************************)
EXTENDS MCKernelPipeline, KernelProjection

ProjectedLengths == [Digest |-> 32, Bytes32 |-> 32, Bytes33 |-> 33]

AliasOf(t) == [kind |-> "alias", target |-> t]

BaseDeclarations ==
  [Oct    |-> NominalOf("Digest"),
   Pair   |-> RecordOf(<<Field(1, "U8"), Field(2, "U8")>>),
   Held   |-> NominalOf("Pair"),
   Sealed |-> RecordOf(<<Field(2, "U8"), Field(1, "Oct")>>),
   Mode   |-> VariantOf(<<Case("On", 3, <<>>), Case("Off", 1, <<>>)>>),
   Choice |-> VariantOf(<<Case("No", 1, <<>>), Case("Yes", 2, <<Field(1, "Mode")>>)>>),
   Denial |-> VariantOf(<<Case("Early", 2, <<>>), Case("Hold", 4, <<Field(1, "Pair")>>),
                          Case("Late", 1, <<Field(2, "Oct"), Field(1, "U8")>>)>>),
   Node   |-> RecordOf(<<Field(3, "Digest"), Field(4, "Digest"), Field(1, "U8"),
                         Field(2, "U8"), Field(5, "Oct"), Field(6, "Mode"),
                         Field(7, "Pair"), Field(8, "Sealed"), Field(9, "Held")>>)]

(***************************************************************************)
(* Further types, of which a module has one: types C has nothing for, tags *)
(* and octets past the capacities, and names that are spelled like those   *)
(* of something else once they are in lower case, or like a keyword.       *)
(***************************************************************************)
FurtherDeclarations ==
  [Flag |-> RecordOf(<<Field(1, "U8"), Field(2, "Bool")>>),
   Empty |-> RecordOf(<<Field(1, "Unit")>>),
   Lost |-> RecordOf(<<Field(1, "Decision")>>),
   Nil  |-> NominalOf("Unit"),
   Sure |-> AliasOf("Bool"),
   Gain |-> VariantOf(<<Case("Yes", 1, <<Field(1, "Bool"), Field(2, "Unit")>>)>>),
   Odd  |-> VariantOf(<<Case("Yes", 1, <<Field(1, "Decision")>>)>>),
   High |-> VariantOf(<<Case("Yes", 5, <<>>), Case("No", 4, <<>>)>>),
   Blob |-> NominalOf("Bytes33"),
   Crate |-> VariantOf(<<Case("Yes", 1, <<Field(1, "Bytes33")>>)>>),
   Small |-> NominalOf("Bytes32"),
   Refusal |-> NominalOf("Denial"),
   Grounds |-> RecordOf(<<Field(1, "Denial")>>),
   Verdict |-> VariantOf(<<Case("Yes", 1, <<Field(1, "Denial")>>)>>),
   DENIAL |-> RecordOf(<<Field(1, "U8")>>),
   Zero |-> RecordOf(<<Field(1, "U8")>>),
   DECISION |-> NominalOf("U8"),
   Octets_Equal |-> NominalOf("U8"),
   Octets_Copy |-> NominalOf("U8"),
   Choice_Yes |-> NominalOf("U8"),
   Choice_No |-> NominalOf("U8"),
   Payload_Late |-> NominalOf("U8"),
   Admit |-> NominalOf("U8"),
   PAIR |-> RecordOf(<<Field(1, "U8"), Field(2, "U8")>>),
   HELD |-> NominalOf("Pair"),
   OCT  |-> AliasOf("Digest"),
   OcT  |-> NominalOf("U8"),
   MODE |-> NominalOf("U8"),
   Twins |-> VariantOf(<<Case("Yes", 1, <<Field(1, "U8")>>),
                         Case("YES", 2, <<Field(1, "U8")>>)>>),
   Keyed |-> VariantOf(<<Case("Default", 1, <<Field(1, "U8")>>), Case("Yes", 2, <<>>)>>),
   Plain |-> VariantOf(<<Case("While", 1, <<>>), Case("Yes", 2, <<Field(1, "U8")>>)>>)]

\* A LET, so that the statistics of a run do not repeat the tables at every use.
ProjectedDeclarations ==
  LET all == BaseDeclarations @@ FurtherDeclarations IN all

\* Of one's own module, so that each of the further types is where it would be.
ProjectedOrder ==
  <<"Admit", "Blob", "Choice_No", "Choice_Yes", "Crate", "DECISION",
    "DENIAL", "Empty", "Flag", "Gain", "High", "Keyed", "Lost", "MODE", "Mode", "Choice",
    "Nil", "OCT", "OcT", "Oct", "Octets_Copy", "Octets_Equal", "Odd", "PAIR", "Pair",
    "Denial", "Grounds", "HELD", "Held", "Payload_Late", "Plain", "Refusal", "Sealed",
    "Node", "Small", "Sure", "Twins", "Verdict", "Zero">>

ProjectedLower ==
  [Oct |-> <<"oct">>, Pair |-> <<"pair">>, Held |-> <<"held">>, Sealed |-> <<"sealed">>,
   Mode |-> <<"mode">>, Choice |-> <<"choice">>, Denial |-> <<"denial">>,
   Node |-> <<"node">>, On |-> <<"on">>, Off |-> <<"off">>, No |-> <<"no">>,
   Yes |-> <<"yes">>, Early |-> <<"early">>, Hold |-> <<"hold">>, Late |-> <<"late">>,
   Flag |-> <<"flag">>, Empty |-> <<"empty">>, Lost |-> <<"lost">>, Nil |-> <<"nil">>,
   Sure |-> <<"sure">>, Gain |-> <<"gain">>, Odd |-> <<"odd">>, High |-> <<"high">>,
   Blob |-> <<"blob">>, Crate |-> <<"crate">>, Small |-> <<"small">>,
   Refusal |-> <<"refusal">>, Grounds |-> <<"grounds">>, Verdict |-> <<"verdict">>,
   DENIAL |-> <<"denial">>, Zero |-> <<"zero">>, DECISION |-> <<"decision">>,
   Octets_Equal |-> <<"octets", "equal">>, Octets_Copy |-> <<"octets", "copy">>,
   Choice_Yes |-> <<"choice", "yes">>, Choice_No |-> <<"choice", "no">>,
   Payload_Late |-> <<"payload", "late">>, Admit |-> <<"admit">>, PAIR |-> <<"pair">>,
   HELD |-> <<"held">>, OCT |-> <<"oct">>, OcT |-> <<"oct">>, MODE |-> <<"mode">>,
   Twins |-> <<"twins">>, Keyed |-> <<"keyed">>, Plain |-> <<"plain">>,
   Default |-> <<"default">>, While |-> <<"while">>, YES |-> <<"yes">>]

\* RESTRICTED_MAX_*, the largest tag and the octets, scaled down; names are not.
SmallCapacity ==
  [expressions |-> 24, tails |-> 5, record_fields |-> 4, tag |-> 4, octets |-> 32,
   name |-> 64]

NodeOf(a, b, c, d, mode, p) ==
  1 :> a @@ 2 :> b @@ 3 :> c @@ 4 :> d @@ 5 :> c
    @@ 6 :> [item |-> mode, payload |-> <<>>] @@ 7 :> p
    @@ 8 :> (1 :> d @@ 2 :> b) @@ 9 :> p

ProjectedSample ==
  [Pair |-> {PairOf(1, 2)}, Sealed |-> {1 :> 500 @@ 2 :> 3},
   Node |-> {NodeOf(0, 0, 500, 500, "On", PairOf(1, 2)),
             NodeOf(0, 9, 500, 501, "Off", PairOf(3, 4)),
             NodeOf(9, 0, 500, 501, "On", PairOf(1, 1)),
             NodeOf(9, 9, 501, 501, "Off", PairOf(0, 0)),
             NodeOf(1, 2, 501, 500, "On", PairOf(5, 6))}]

-----------------------------------------------------------------------------
Of(n) == Proj(Name("node"), n)
Equal(l, r) == Cmp("==", l, r)

PairLit(a, b) == Lit("Pair", <<Give(2, b), Give(1, a)>>)
SealedLit(o, b) == Lit("Sealed", <<Give(1, o), Give(2, b)>>)

Basic == {Cmp("<", Of(1), Num(5)), Cmp("<", Num(5), Of(2)), Equal(Of(1), Of(2)),
          Equal(Of(3), Of(4)), Bool(TRUE)}

Joined(S) == {Logical(kind, l, r) : kind \in {"and", "or"}, l, r \in S}
               \cup {Cmp(o, l, r) : o \in {"==", "!="}, l, r \in S}

Connected == Joined(Basic)

\* Three operators deep, and comparisons of everything that can be compared.
Nested == Joined({Cmp("<", Of(1), Num(5)), Equal(Of(1), Of(2)), Bool(TRUE)}
                   \cup Joined({Cmp("<", Of(1), Num(5)), Equal(Of(3), Of(4))}))

\* Every operator, on numbers and on octets, and what joins an inequality.
Ordinary ==
  {Cmp(o, l, r) : o \in ToSet(CompareOperators), l, r \in {Of(1), Of(2), Proj(Of(8), 2)}}
    \cup {Cmp(o, Of(1), Num(n)) : o \in ToSet(CompareOperators), n \in {0, 9}}
    \cup {Cmp("!=", l, r) : l, r \in {Of(3), Of(4)}} \cup {Cmp("!=", Of(5), Proj(Of(8), 1))}

Unequal == {Cmp(">=", Of(1), Of(2)), Cmp("!=", Of(3), Of(4)), Cmp("!=", Of(1), Num(9))}

Whole ==
  {Cmp(o, Of(n), Of(n)) : o \in {"==", "!="}, n \in 3..9}
    \cup {Equal(Of(7), PairLit(Of(1), Num(1)))}

-----------------------------------------------------------------------------
Denied(item, inits) ==
  [kind |-> "reject", owner |-> "Denial", item |-> item, inits |-> inits]

Soon == Denied("Early", <<>>)
Held(v) == Denied("Hold", <<Give(1, v)>>)
Tardy(o) == Denied("Late", <<Give(1, Of(2)), Give(2, o)>>)

Reasons == {Soon, Held(Of(7)), Tardy(Of(5))}

Values1 ==
  {Of(n) : n \in 1..9} \cup {Num(7), Bool(TRUE), [kind |-> "unit"], Name("node"),
     PairLit(Of(1), Num(3)), SealedLit(Of(5), Of(1)), Proj(Of(7), 1), Proj(Of(9), 2),
     Proj(PairLit(Of(1), Num(3)), 2)}

Leaves == {Accept(Of(7)), Accept(PairLit(Of(2), Of(1)))} \cup Reasons

Chosen(e, f) == Match(Of(6), <<Arm("On", e), Arm("Off", f)>>)

Named1(v) == Let("y", v, Accept(PairLit(Num(1), Name("y"))))

\* One more around a tail.
Around(e) ==
  {Require(Cmp("<", Of(1), Num(5)), r, e) : r \in Reasons}
    \cup {Let("z", Of(n), e) : n \in {1, 3, 7}}
    \cup {If(Equal(Of(3), Of(4)), e, Soon), Chosen(e, Soon), Chosen(Accept(Of(7)), e)}

Inner ==
  Leaves \cup UNION {Around(e) : e \in Leaves \cup {Named1(Of(2))}}
    \cup {Chosen(Named1(Of(1)), Named1(Of(2))),
          Let("y", Of(1), Let("w", Of(2), Accept(PairLit(Name("w"), Name("y"))))),
          Let("y", Of(5), Denied("Late", <<Give(1, Num(4)), Give(2, Name("y"))>>)),
          Let("y", Equal(Of(1), Of(2)), If(Name("y"), Soon, Accept(Of(7)))),
          Require(Equal(Of(1), Of(2)), Soon,
                  Require(Cmp("<", Of(1), Num(5)), Held(Of(7)), Tardy(Of(5)))),
          Held(PairLit(Num(1), Num(2)))}

\* No match inside an arm: the parser does not leave those as trees.
HasMatch(e) == e.kind = "match" \/ (e.kind = "if" /\ e.if_true.kind = "match")
                 \/ (e.kind = "require" /\ e.continuation.kind = "match")
                 \/ (e.kind = "let" /\ e.body.kind = "match")

Outer == UNION {{f \in Around(e) : ~HasMatch(e) \/ f.kind # "match"} : e \in Inner}

Bodies ==
  {If(c, Soon, Accept(Of(7))) :
     c \in Connected \cup Nested \cup Whole \cup Ordinary \cup Joined(Unequal)}
    \cup {Require(c, Soon, Accept(Of(7))) : c \in Connected \cup Ordinary}
    \cup {Let("y", c, If(Equal(Name("y"), d), Soon, Accept(Of(7)))) :
            c \in Basic, d \in Basic \cup {Name("y")}}
    \cup {Let("y", v, Soon) : v \in Values1}
    \cup Inner \cup Outer

-----------------------------------------------------------------------------
Inventory(items) == [j \in DOMAIN items |-> [owner |-> "Denial", item |-> items[j]]]

BaseModule == [MCModule EXCEPT !.types = DOMAIN BaseDeclarations]

ProjectedKernel(name, accepted, e) ==
  [name |-> name, decision |-> TRUE, parameters |-> <<Field("node", "Node")>>,
   accepted |-> accepted, rejection |-> "Denial",
   rejections |-> Inventory(<<"Early", "Hold", "Late">>),
   bounds |-> Bounds(1000, 50000, 100), body |-> e, publication |-> FALSE,
   module |-> BaseModule]

Admitted(e) == ProjectedKernel(<<"admit">>, "Pair", e)

With(k, types) == [k EXCEPT !.module.types = @ \cup types]

\* Bodies that move octets, compare them, do both, or neither.
CopiesOctets == Let("y", Of(5), Accept(SealedLit(Name("y"), Of(1))))
ComparesOctets == If(Equal(Of(3), Of(4)), Soon, Accept(Of(8)))

Fewer == {Soon, Accept(Of(7)), Tardy(Of(5)), If(Equal(Of(3), Of(4)), Soon, Accept(Of(7)))}

Pairs == {Admitted(e) : e \in Fewer}
Seals == {ProjectedKernel(<<"admit">>, "Sealed", e) :
            e \in {Soon, CopiesOctets, ComparesOctets,
                   If(Equal(Of(3), Of(4)), Soon, CopiesOctets)}}

\* A type of an expression, or of a decision, is no alias.
Acceptable == {t \in Types : ~IsA("alias", t)}

ByAccepted ==
  {With(ProjectedKernel(<<"admit">>, t, e), {t} \cap DOMAIN Declarations) :
     t \in Acceptable, e \in {Accept(v) : v \in Values1} \cup {Soon}}

ByTypes == {With(k, {t}) : k \in Pairs \cup Seals, t \in DOMAIN FurtherDeclarations}

BySpelling ==
  {[k EXCEPT !.name = name] : k \in Pairs \cup Seals,
     name \in {<<"zero">>, <<"node">>, <<"decision">>, <<"denial">>, <<"octets">>, <<"choice">>,
               <<"choice", "yes">>, <<"choice", "no">>, <<"payload", "late">>,
               <<"payload", "early">>, <<"octets", "copy">>, <<"octets", "equal">>}}

ByParameters ==
  {[Admitted(Accept(Of(7))) EXCEPT !.parameters = p] :
     p \in {<<>>, <<Field("node", "Node"), Field("n", "U8")>>, <<Field("node", "U8")>>}}
    \cup {[Admitted(e) EXCEPT !.parameters = <<Field("node", t)>>] :
            t \in {"Pair", "Held", "Sealed"}, e \in {Soon, Accept(Name("node"))}}

\* Rejections that are no variant, and other variants than Denial.
RejectedAs(t, owner, item, bodies) ==
  {With([Admitted(e) EXCEPT !.rejection = t, !.rejections = <<[owner |-> t, item |-> item]>>],
        {t} \cap DOMAIN Declarations) :
     e \in bodies \cup {Accept(Of(7)), [Soon EXCEPT !.owner = owner, !.item = item]}}

ByRejected ==
  UNION {RejectedAs(t, "Mode", "On", {Denied("On", <<>>)}) :
           t \in {"Mode", "Pair", "Held", "Digest"}}
    \cup UNION {RejectedAs(t, t, "Yes", {[Soon EXCEPT !.owner = t, !.item = "Yes",
                                                     !.inits = <<Give(1, Of(2))>>]}) :
                  t \in {"Choice", "Gain", "High", "Twins", "Keyed", "Plain", "Verdict"}}

ByModule ==
  {[k EXCEPT !.publication = p, !.module.profile = profile, !.module.kernels = n,
             !.module.longest = longest] :
     k \in Pairs, p \in BOOLEAN, profile \in {"c11_bounded@1", "c11_bounded@2"},
     n \in 1..2, longest \in {6, 63, 64}}

ProjectedKernels ==
  {Admitted(e) : e \in Bodies}
    \cup ByAccepted \cup ByTypes \cup BySpelling \cup ByParameters \cup ByRejected \cup ByModule
=============================================================================
