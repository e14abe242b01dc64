---------------------------- MODULE KernelPipeline ----------------------------
(***************************************************************************)
(* One kernel on its way from the parser to an admitted core module:       *)
(* check_kernel of src/src/alpha/seki_checker.c in its order, put_kernel   *)
(* of src/src/alpha/seki_core.c, and the independent admission of what was *)
(* written.  The stages never look at each other's work again: what one    *)
(* accepts the next one takes for granted, and that it may is what the     *)
(* properties say.                                                         *)
(***************************************************************************)
EXTENDS KernelMeaning

CONSTANTS
  Kernels,   \* kernels as the parser leaves them, each with its module's header
  Profile,   \* what the independent reader allows
  Sample     \* for a type name, some of its values

VARIABLES
  kernel,    \* the kernel being built
  phase,     \* the stage it has come to
  code,      \* error->code, "ok" unless refused
  body,      \* the elaborated body
  exact,     \* elaboration->exact
  core,      \* the emitted kernel
  reasons    \* why admission refuses it

vars == <<kernel, phase, code, body, exact, core, reasons>>

CoreDeclarations == [t \in DOMAIN Declarations |-> put_declaration(t)]

Reader == INSTANCE CoreAdmission WITH Core <- CoreDeclarations, MaxNat <- WordMax

Absent == [kind |-> "absent"]

Init ==
  /\ kernel \in Kernels
  /\ phase = "header"
  /\ code = "ok"
  /\ body = Absent
  /\ exact = Nothing
  /\ core = Absent
  /\ reasons = {}

\* The stage finds c: the kernel goes on to the next stage, or is refused.
Pass(c, next) ==
  /\ code' = c
  /\ phase' = IF c = "ok" THEN next ELSE "refused"

\* check_kernel up to the body: the result, and the parameters' environment.
HeaderCode(k) ==
  IF ~k.decision THEN "A0-CHECK-0011"
  ELSE IF Len(k.parameters) > EnvCapacity THEN "A0-CHECK-0016"
  ELSE IF ParameterBits(k) > WordMax THEN "A0-CHECK-0013"
  ELSE "ok"

CheckHeader ==
  /\ phase = "header"
  /\ Pass(HeaderCode(kernel), "tail")
  /\ UNCHANGED <<kernel, body, exact, core, reasons>>

Elaborated(t) ==
  /\ Pass(t.code, "order")
  /\ body' = IF t.code = "ok" THEN t.node ELSE Absent

CheckTail ==
  /\ phase = "tail"
  /\ Elaborated(check_kernel_tail(kernel.body, Parameters(kernel), kernel))
  /\ UNCHANGED <<kernel, exact, core, reasons>>

\* Mutant of CheckOrder: the order is not looked at.
CheckOrderSkipped ==
  /\ phase = "order"
  /\ Pass("ok", "cost")
  /\ UNCHANGED <<kernel, body, exact, core, reasons>>

CheckOrder ==
  /\ phase = "order"
  /\ Pass(IF check_rejection_order(body, 0) THEN "ok" ELSE "A0-CHECK-0023", "cost")
  /\ UNCHANGED <<kernel, body, exact, core, reasons>>

\* Mutant of DeriveCost: sums are not checked.
DeriveCostUnchecked ==
  /\ phase = "cost"
  /\ exact' = ExactCost(body, kernel)
  /\ Pass("ok", "ceilings")
  /\ UNCHANGED <<kernel, body, core, reasons>>

Recorded(c) ==
  LET overflows == c.steps > WordMax \/ c.live > WordMax
  IN /\ exact' = IF overflows THEN exact ELSE c
     /\ Pass(IF overflows THEN "A0-CHECK-0013" ELSE "ok", "ceilings")

\* The totals are recorded before the declared ceilings are compared.
DeriveCost ==
  /\ phase = "cost"
  /\ Recorded(ExactCost(body, kernel))
  /\ UNCHANGED <<kernel, body, core, reasons>>

CompareCeilings ==
  /\ phase = "ceilings"
  /\ Pass(IF \E f \in {"steps", "live", "depth"} : kernel.bounds[f] < exact[f]
          THEN "A0-CHECK-0017" ELSE "ok", "emit")
  /\ UNCHANGED <<kernel, body, exact, core, reasons>>

EmitFails ==
  /\ HeaderFails(kernel.module) \/ may_fail(kernel)
  /\ Pass("A0-CORE-0001", "written")
  /\ UNCHANGED core

EmitWrites ==
  /\ ~HeaderFails(kernel.module)
  /\ \E order \in rejection_orders(kernel) :
       core' = put_kernel(kernel, body, exact, order)
  /\ Pass("ok", "written")

Emit ==
  /\ phase = "emit"
  /\ EmitFails \/ EmitWrites
  /\ UNCHANGED <<kernel, body, exact, reasons>>

Admit ==
  /\ phase = "written"
  /\ reasons' = Reader!check(core)
  /\ phase' = "read"
  /\ UNCHANGED <<kernel, code, body, exact, core>>

Next ==
  \/ CheckHeader
  \/ CheckTail
  \/ CheckOrder
  \/ DeriveCost
  \/ CompareCeilings
  \/ Emit
  \/ Admit

Spec == Init /\ [][Next]_vars

-----------------------------------------------------------------------------
(***************************************************************************)
(* Types: a kernel is refused exactly when it has a code, what a stage     *)
(* leaves is there for the next one, and recorded bounds are words.        *)
(***************************************************************************)
TypeOK ==
  /\ phase \in {"header", "tail", "order", "cost", "ceilings", "emit", "written",
                "read", "refused"}
  /\ (code # "ok") <=> (phase = "refused")
  /\ phase \in {"order", "cost", "ceilings", "emit", "written", "read"}
       => body.kind = kernel.body.kind
  /\ exact.steps \in 0..WordMax /\ exact.live \in 0..WordMax /\ exact.depth \in Nat
  /\ (phase \in {"written", "read"}) => (core # Absent)
  /\ phase # "read" => reasons = {}

\* rejects: names every case of the rejection variant, each once.
CompleteInventory(k) ==
  /\ IsInjective(k.rejections)
  /\ {r.item : r \in ToSet(k.rejections)}
       = {c.name : c \in ToSet(CasesOf(k.rejection))}

\* A core kernel that looks inside a nominal: a field of it, or a match on it.
OpensNominal(c) ==
  LET terms == Expressions(c.body)
      tails == Controls(c.body)
  IN \/ \E j \in DOMAIN terms : /\ terms[j].term = "project"
                               /\ IsA("nominal", terms[j].receiver.type)
     \/ \E j \in DOMAIN tails : /\ tails[j].term = "match"
                               /\ IsA("nominal", tails[j].scrutinee.type)

\* The bounds that are declared, and every member of a type, within the profile.
WithinProfile(k) ==
  LET members(t) == {f.type : f \in ToSet(FieldsOf(t))}
                      \cup UNION {{f.type : f \in ToSet(x.payload)} : x \in ToSet(CasesOf(t))}
                      \cup (IF StandsFor(t) THEN {Declarations[t].target} ELSE {})
  IN /\ k.module.profile = Profile.name
     /\ \A f \in DOMAIN k.bounds : k.bounds[f] <= Profile[f]
     /\ \A t \in k.module.types : \A u \in members(t) : width_of(u) <= Profile.live

MayBePublished(k) ==
  k.publication => /\ "publication" \in ToSet(k.module.claims)
                   /\ "publication_equivalence" \in ToSet(k.module.requires)

(***************************************************************************)
(* A kernel the compiler accepts is admitted by the independent reader: it *)
(* finds the same types, the same rejections and the same exact bounds     *)
(* where the checker put them (check_kernel, put_kernel and checkKernel).  *)
(* What the compiler lets pass and the reader refuses is an inventory that *)
(* is not complete (also of a rejection that is no variant), a nominal     *)
(* that is looked into, another profile, a declared bound or a member      *)
(* wider than the profile allows, and publication without its claim and    *)
(* theorem.  Nesting and the widths of parameters and result need no word: *)
(* the exact bounds are at least those, and at most the declared ones.     *)
(* More expressions than the profile allows are not stored by the parser.  *)
(***************************************************************************)
AcceptedIsAdmitted ==
  phase = "read" =>
    ((reasons = {}) <=> /\ CompleteInventory(kernel) /\ ~OpensNominal(core)
                        /\ WithinProfile(kernel) /\ MayBePublished(kernel))

(***************************************************************************)
(* The exact bounds are the most any run of the emitted kernel needs under *)
(* the schedule of section 3.1, events taken one by one in the order of    *)
(* the encoding: not one step, bit or frame more or less                   *)
(* (cost_of_kernel_tail).                                                  *)
(***************************************************************************)
CostIsSchedule == phase = "written" => exact = ScheduledCost(core)

(***************************************************************************)
(* On every run of an emitted kernel premises are tested in the order of   *)
(* its inventory, none twice, and the one that rejects is the one at its   *)
(* index there (check_rejection_order, kernel_precedence_index).           *)
(***************************************************************************)
PremisesInOrder ==
  phase = "written" =>
    \A run \in CallableRuns(core) :
      LET tested == Premises(run)
      IN /\ \A j, l \in DOMAIN tested : j < l => tested[j] < tested[l]
         /\ \A j \in DOMAIN tested : tested[j] < Len(core.order)

\* Some arguments of kernel k, by the names of its parameters.
Arguments(k) ==
  FoldLeft(LAMBDA S, p : {(p.name :> v) @@ f : v \in Sample[p.type], f \in S},
           {<<>>}, k.parameters)

(***************************************************************************)
(* The core decides as the source does: for all sampled arguments the      *)
(* decision of the emitted kernel, with slots, positions and tags, is the  *)
(* representation of the decision of the surface kernel, with names        *)
(* (environment_lookup, find_record_field, resolve_rejection, put_kernel). *)
(***************************************************************************)
MeaningKept ==
  phase = "written" =>
    \A args \in Arguments(kernel) :
      LET d == Decision(kernel.body, args)
          type == IF d.accepts THEN kernel.accepted ELSE kernel.rejection
          slots == [j \in DOMAIN kernel.parameters |->
                      Represent(args[Parameters(kernel)[j].name],
                                Parameters(kernel)[j].type)]
          written == CoreDecision(core.body, slots)
      IN /\ written.accepts = d.accepts /\ written.premise = d.premise
         /\ written.value = Represent(d.value, type)
=============================================================================
