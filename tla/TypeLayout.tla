----------------------------- MODULE TypeLayout -----------------------------
(***************************************************************************)
(* The canonical layout of the type table (src/src/alpha/seki_core.c):     *)
(* sort_by_name, build_type_layout, declaration_dependencies and           *)
(* build_dependency_order, one step per iteration of their loops.          *)
(*                                                                         *)
(* The emitter writes declarations in name order, refers to them by their  *)
(* position there, and appends the order in which they can be formed.      *)
(* Whoever admits the core recomputes that order from the emitted bytes    *)
(* and accepts no other permutation, so the emitter, which computes it     *)
(* from the surface declarations, has to arrive at the same one.           *)
(***************************************************************************)
EXTENDS Naturals, FiniteSets

CONSTANTS
  Count,    \* declaration_count
  Builtin,  \* the names resolve_named knows: Unit, Bool, U8, ...
  Modules   \* the modules the emitter may be given

(***************************************************************************)
(* A declaration as far as the layout sees it.  Names are numbers in the   *)
(* order of name_precedes.  named: the names its body mentions as a type   *)
(* of their own; applied: those it mentions inside Decision[_, _].         *)
(***************************************************************************)
Kinds == {"alias", "nominal", "record", "variant"}

Declaration == [name : Nat, kind : Kinds,
                named : SUBSET Nat, applied : SUBSET Nat]

Index == 0..(Count - 1)

Mentioned(m, d) == m[d].named \cup m[d].applied

(***************************************************************************)
(* The declarations a set of names resolves to.  resolve_named_expanding   *)
(* looks for an alias first; any other declaration is found only if no     *)
(* built-in has its name.                                                  *)
(***************************************************************************)
Resolved(m, names) ==
  {d \in Index : /\ m[d].name \in names
                 /\ m[d].kind = "alias" \/ m[d].name \notin Builtin}

\* resolve_declarations derives a width for every declaration, so it has
\* refused a module in which declarations contain one another in a ring.
Formed(m) ==
  \A S \in (SUBSET Index) \ {{}} :
    \E d \in S : Resolved(m, Mentioned(m, d)) \cap S = {}

ASSUME CountAssumption == Count \in Nat \ {0}

\* The parser refuses a second declaration of a name, the checker what is
\* not formed.
ASSUME ModulesAssumption ==
  /\ Modules \subseteq [Index -> Declaration]
  /\ \A m \in Modules :
       /\ \A i, j \in Index : m[i].name = m[j].name => i = j
       /\ Formed(m)

VARIABLES
  module,            \* the declarations, in source order
  phase,             \* "sort", "shift", "position", "order", "done", "cycle"
  type_order,        \* canonical position -> declaration
  type_position,     \* declaration -> canonical position
  index,             \* the loop counter of the current loop
  candidate,         \* sort_by_name: the element being inserted
  position,          \* sort_by_name: where the hole is
  dependency_order,  \* step -> canonical position
  placed             \* canonical positions already in dependency_order

vars == <<module, phase, type_order, type_position, index, candidate,
          position, dependency_order, placed>>

TypeOK ==
  /\ module \in [Index -> Declaration]
  /\ phase \in {"sort", "shift", "position", "order", "done", "cycle"}
  /\ type_order \in [Index -> Index]
  /\ type_position \in [Index -> Index]
  /\ index \in 0..Count
  /\ candidate \in Index
  /\ position \in Index
  /\ dependency_order \in [Index -> Index]
  /\ placed \in SUBSET Index

(***************************************************************************)
(* build_layout clears the layout; sort_by_name starts from the identity.  *)
(***************************************************************************)
Init ==
  /\ module \in Modules
  /\ phase = "sort"
  /\ type_order = [i \in Index |-> i]
  /\ type_position = [i \in Index |-> 0]
  /\ index = 1
  /\ candidate = 0
  /\ position = 0
  /\ dependency_order = [i \in Index |-> 0]
  /\ placed = {}

(***************************************************************************)
(* sort_by_name: insertion sort, one element shifted at a time.            *)
(***************************************************************************)
\* Mutant of name_precedes: the comparison is turned round.
name_follows(left, right) == module[right].name < module[left].name

name_precedes(left, right) == module[left].name < module[right].name

\* Mutant of Take: the hole is one slot further on.
TakeNextHole ==
  /\ phase = "sort"
  /\ index < Count
  /\ candidate' = type_order[index]
  /\ position' = index + 1
  /\ phase' = "shift"
  /\ UNCHANGED <<module, type_order, type_position, index, dependency_order,
                 placed>>

\* Take the next element out; its slot is the hole.
Take ==
  /\ phase = "sort"
  /\ index < Count
  /\ candidate' = type_order[index]
  /\ position' = index
  /\ phase' = "shift"
  /\ UNCHANGED <<module, type_order, type_position, index, dependency_order,
                 placed>>

Shift ==
  /\ phase = "shift"
  /\ position > 0
  /\ name_precedes(candidate, type_order[position - 1])
  /\ type_order' = [type_order EXCEPT ![position] = type_order[position - 1]]
  /\ position' = position - 1
  /\ UNCHANGED <<module, phase, type_position, index, candidate,
                 dependency_order, placed>>

\* Mutant of Drop: the loop counter stays.
DropAgain ==
  /\ phase = "shift"
  /\ position > 0 => ~name_precedes(candidate, type_order[position - 1])
  /\ type_order' = [type_order EXCEPT ![position] = candidate]
  /\ phase' = "sort"
  /\ UNCHANGED <<module, type_position, index, candidate, position,
                 dependency_order, placed>>

Drop ==
  /\ phase = "shift"
  /\ position > 0 => ~name_precedes(candidate, type_order[position - 1])
  /\ type_order' = [type_order EXCEPT ![position] = candidate]
  /\ index' = index + 1
  /\ phase' = "sort"
  /\ UNCHANGED <<module, type_position, candidate, position,
                 dependency_order, placed>>

Sorted ==
  /\ phase = "sort"
  /\ index = Count
  /\ phase' = "position"
  /\ index' = 0
  /\ UNCHANGED <<module, type_order, type_position, candidate, position,
                 dependency_order, placed>>

\* build_type_layout: type_position is the inverse of type_order.
Position ==
  /\ phase = "position"
  /\ index < Count
  /\ type_position' = [type_position EXCEPT ![type_order[index]] = index]
  /\ index' = index + 1
  /\ UNCHANGED <<module, phase, type_order, candidate, position,
                 dependency_order, placed>>

Positioned ==
  /\ phase = "position"
  /\ index = Count
  /\ phase' = "order"
  /\ index' = 0
  /\ UNCHANGED <<module, type_order, type_position, candidate, position,
                 dependency_order, placed>>

(***************************************************************************)
(* declaration_dependencies of the declaration at canonical position c:    *)
(* only references of kind SEKI_TYPE_NAMED are looked up, by surface name. *)
(***************************************************************************)
dependencies(c) ==
  {type_position[d] : d \in {e \in Index :
     module[e].name \in module[type_order[c]].named}}

\* Mutants of Ready: a declaration waits for one of its dependencies only;
\* it never comes before a later name it refers to.
ReadyBackward(c) == /\ c \notin placed
                    /\ \A d \in dependencies(c) : d < c /\ d \in placed

ReadyOnAny(c) == /\ c \notin placed
                 /\ \/ dependencies(c) = {}
                    \/ dependencies(c) \cap placed # {}

Ready(c) == /\ c \notin placed
            /\ dependencies(c) \subseteq placed

\* Mutant of Place: any declaration that is ready, not the lowest.
PlaceAny ==
  /\ phase = "order"
  /\ index < Count
  /\ \E c \in Index :
       /\ Ready(c)
       /\ dependency_order' = [dependency_order EXCEPT ![index] = c]
       /\ placed' = placed \cup {c}
  /\ index' = index + 1
  /\ UNCHANGED <<module, phase, type_order, type_position, candidate, position>>

\* One iteration of build_dependency_order: the lowest ready position.
Place ==
  /\ phase = "order"
  /\ index < Count
  /\ \E c \in Index :
       /\ Ready(c)
       /\ \A b \in Index : b < c => ~Ready(b)
       /\ dependency_order' = [dependency_order EXCEPT ![index] = c]
       /\ placed' = placed \cup {c}
  /\ index' = index + 1
  /\ UNCHANGED <<module, phase, type_order, type_position, candidate, position>>

\* Nothing is ready: A0-CORE-0004, "type declarations are recursive".
Cycle ==
  /\ phase = "order"
  /\ index < Count
  /\ \A c \in Index : ~Ready(c)
  /\ phase' = "cycle"
  /\ UNCHANGED <<module, type_order, type_position, index, candidate,
                 position, dependency_order, placed>>

Ordered ==
  /\ phase = "order"
  /\ index = Count
  /\ phase' = "done"
  /\ UNCHANGED <<module, type_order, type_position, index, candidate,
                 position, dependency_order, placed>>

Next == \/ Take \/ Shift \/ Drop \/ Sorted \/ Position \/ Positioned
        \/ Place \/ Cycle \/ Ordered

Spec == Init /\ [][Next]_vars

FairSpec == Spec /\ WF_vars(Next)

-----------------------------------------------------------------------------
(***************************************************************************)
(* What the emitted declaration refers to.  put_surface_type resolves a    *)
(* reference before it writes it: an alias is replaced by what it stands   *)
(* for, through any number of aliases, and the arguments of a Decision are *)
(* references of their own.  Referred is what the least set closed under   *)
(* this replacement leaves when the aliases are gone.                      *)
(***************************************************************************)
Closed(T) ==
  \A d \in T : module[d].kind = "alias" =>
    Resolved(module, Mentioned(module, d)) \subseteq T

Referred(names) ==
  {d \in Index :
     /\ module[d].kind # "alias"
     /\ \A T \in SUBSET Index :
          (Resolved(module, names) \subseteq T /\ Closed(T)) => d \in T}

\* localTypeDependencies of the admission (tools/encoding/decode_scb0.mjs).
localTypeDependencies(c) ==
  {type_position[d] : d \in Referred(Mentioned(module, type_order[c]))}

Before(i) == {dependency_order[j] : j \in {k \in Index : k < i}}

Admissible(c, i) == /\ c \notin Before(i)
                    /\ localTypeDependencies(c) \subseteq Before(i)

\* validateTypeOrder of the admission: every entry is the lowest position
\* not used before whose references are all used.
Admitted ==
  \A i \in Index :
    /\ Admissible(dependency_order[i], i)
    /\ \A c \in Index : c < dependency_order[i] => ~Admissible(c, i)

\* The surface references are the emitted ones: no alias, no Decision, no
\* declaration that bears the name of a built-in.
Plain(m) ==
  \A d \in Index : /\ m[d].kind # "alias"
                   /\ m[d].applied = {}
                   /\ m[d].name \notin Builtin

(***************************************************************************)
(* The type table is a permutation of the declarations in strict name      *)
(* order, and the two layout arrays are inverses of each other: a          *)
(* reference written as a position is read back as the declaration that    *)
(* was meant.                                                              *)
(***************************************************************************)
TableIsCanonical ==
  phase \in {"order", "done", "cycle"} =>
    /\ \A i, j \in Index : i < j =>
         module[type_order[i]].name < module[type_order[j]].name
    /\ \A d \in Index : type_order[type_position[d]] = d
    /\ \A c \in Index : type_position[type_order[c]] = c

(***************************************************************************)
(* The order written for a plain module is the one admission recomputes    *)
(* from the emitted bytes (seki_core.c:316-321).                           *)
(***************************************************************************)
PlainOrderIsAdmitted == (phase = "done" /\ Plain(module)) => Admitted

(***************************************************************************)
(* Whatever the module, the finished order mentions every declaration once *)
(* and none before what its surface body names.                            *)
(***************************************************************************)
OrderIsTopological ==
  phase = "done" =>
    /\ {dependency_order[i] : i \in Index} = Index
    /\ \A i \in Index : dependencies(dependency_order[i]) \subseteq Before(i)

(***************************************************************************)
(* A plain module the checker has derived widths for is never refused as   *)
(* recursive: whatever is left always has a declaration that is ready.     *)
(***************************************************************************)
PlainIsNeverRecursive == phase = "cycle" => ~Plain(module)

\* The loops of the layout end, each of them (build_layout returns).
LayoutEnds == <>(phase \in {"done", "cycle"})

(***************************************************************************)
(* seki_core.c:319: "Admission recomputes it and rejects any other         *)
(* permutation, so this must match exactly", for every module.             *)
(***************************************************************************)
OrderIsAdmitted == phase = "done" => Admitted
=============================================================================
