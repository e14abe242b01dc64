---------------------------- MODULE MCTypeLayout ----------------------------
(***************************************************************************)
(* Three declarations with names out of four, in every source order; one   *)
(* of the four names may be that of a built-in.  A plain body mentions at  *)
(* most one declared name, or two; a mixed one may be an alias or mention  *)
(* names inside a Decision.  Only modules the checker accepts are kept.    *)
(***************************************************************************)
EXTENDS TypeLayout

NameSet == 1..4

Body(k, n, a) == [kind |-> k, named |-> n, applied |-> a]

PlainBodies ==
  {Body("record", r, {}) : r \in {{}, {1}, {3}, {4}, {1, 3}, {3, 4}}}

MixedBodies ==
  {Body("record", {}, {}), Body("nominal", {1}, {}), Body("variant", {2, 4}, {}),
   Body("record", {2}, {3}), Body("alias", {3}, {}), Body("alias", {}, {1, 2})}

Orders == {f \in [Index -> NameSet] : \A i, j \in Index : f[i] = f[j] => i = j}

PlainOrders == {f \in Orders : \A i \in Index : f[i] # 2}

ModulesOf(orders, bodies) ==
  {m \in {[i \in Index |-> [name |-> f[i], kind |-> b[i].kind,
                           named |-> b[i].named, applied |-> b[i].applied]] :
             f \in orders, b \in [Index -> bodies]} : Formed(m)}

MixedModules == ModulesOf(Orders, MixedBodies)

MCModules == ModulesOf(PlainOrders, PlainBodies) \cup MixedModules
=============================================================================
