----------------------------- MODULE MCTypeTable -----------------------------
(***************************************************************************)
(* Two built-ins, and three declarations of which any two may contain one  *)
(* another; and an alias of a Decision of itself.                          *)
(***************************************************************************)
EXTENDS TypeTable

\* Name 0 is Bool, name 1 is U8, which a declaration may also have.
MCWidths == [n \in {0, 1} |-> IF n = 0 THEN 1 ELSE 8]

Named(n) == [form |-> "named", names |-> <<n>>]
Applied(s) == [form |-> "applied", names |-> s]
Bytes(l) == [form |-> "bytes", length |-> l]

Body(k, cases, tag) == [kind |-> k, cases |-> cases, tag |-> tag]

Bodies ==
  {Body("alias", <<<<Named(3)>>>>, 0),
   Body("alias", <<<<Named(1)>>>>, 0),
   Body("alias", <<<<Applied(<<4, 0>>)>>>>, 0),
   Body("nominal", <<<<Named(2)>>>>, 0),
   Body("record", <<<<Named(1), Named(4)>>>>, 0),
   Body("record", <<<<Bytes(2), Applied(<<1, 3>>)>>>>, 0),
   Body("record", <<<<Applied(<<1>>)>>>>, 0),
   Body("record", <<<<Bytes(6)>>>>, 0),
   Body("variant", <<<<Named(1), Named(0)>>, <<>>, <<Applied(<<0, 2>>)>>>>, 2),
   Body("variant", <<<<Bytes(3)>>, <<Bytes(3), Named(4)>>>>, 1),
   Body("nominal", <<<<Bytes(0)>>>>, 0)}

NameOrders == {<<2, 3, 4>>, <<4, 1, 2>>}

MCModules ==
  {[d \in Index |-> [name |-> f[d + 1], kind |-> b[d].kind,
                     cases |-> b[d].cases, tag |-> b[d].tag]] :
     f \in NameOrders, b \in [Index -> Bodies]}

\* An alias of a Decision of itself.
RingModules ==
  {[d \in Index |-> [name |-> 2, kind |-> "alias",
                     cases |-> <<<<Applied(<<2, 0>>)>>>>, tag |-> 0]]}
=============================================================================
