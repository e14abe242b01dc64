--------------------------- MODULE TypeTableProofs ---------------------------
(***************************************************************************)
(* The table is typed and canonical for every module and every capacity.   *)
(*                                                                         *)
(* That the arguments of a Decision are earlier entries depends on what    *)
(* the calls return to whom: only resolutions return to a resolution, so   *)
(* a width is never taken for a type.  The invariant says this of every    *)
(* pair of adjacent frames.                                                *)
(***************************************************************************)
EXTENDS TypeTable, TLAPS

Resolving == {"resolve", "expand"}

Values == Nat \cup {Invalid}

\* What a resolution may return when the table has n entries.
Types(n) == {Invalid} \cup 1..n

AnyFrame ==
  [op : Ops, subject : Nat \cup Ref, depth : 0..MaxDepth, case : Nat \ {0},
   field : Nat \ {0}, payload : 0..WordMax, widest : 0..WordMax,
   got : Seq(Values)]

SubjectOK(f) ==
  /\ f.op = "module" => f.subject \in 0..Count
  /\ f.op = "resolve" => f.subject \in Ref
  /\ f.op \in {"expand", "value"} => f.subject \in Nat
  /\ f.op = "declared" => f.subject \in Index

FrameOK(f, n) ==
  /\ f \in AnyFrame
  /\ SubjectOK(f)
  /\ f.op = "resolve" => \A j \in 1..Len(f.got) : f.got[j] \in Types(n)

\* g may be called by f.
Follows(f, g) ==
  /\ g.op # "module"
  /\ f.op = "resolve" => g.op \in Resolving

StackOK(s, n) ==
  /\ s \in Seq(AnyFrame)
  /\ Len(s) \in 1..MaxStack
  /\ s[1].op = "module"
  /\ \A k \in 1..Len(s) : FrameOK(s[k], n)
  /\ \A k \in 1..(Len(s) - 1) : Follows(s[k], s[k + 1])

\* An entry that may stand at position t.
EntryOK(e, t) ==
  /\ e \in Entry
  /\ e.kind = "base" => e.a \in Builtin
  /\ e.kind = "declared" => e.a \in Index
  /\ e.kind = "decision" => e.a \in 1..(t - 1) /\ e.b \in 1..(t - 1)

TableOK(tab) ==
  /\ tab \in Seq(Entry)
  /\ Len(tab) <= Capacity
  /\ \A t \in 1..Len(tab) : EntryOK(tab[t], t)
  /\ \A t, u \in 1..Len(tab) : tab[t] = tab[u] => t = u

IInv ==
  /\ module \in Modules
  /\ phase \in {"run", "done", "refused", "crashed"}
  /\ code \in {"none", "A0-CHECK-0012", "A0-CHECK-0013", "A0-CHECK-0014"}
  /\ TableOK(table)
  /\ StackOK(stack, Len(table))

-----------------------------------------------------------------------------
(***************************************************************************)
(* What the invariant says of the parts the actions look at.               *)
(***************************************************************************)
LEMMA ConstantTypes ==
  /\ Count \in Nat /\ Capacity \in Nat /\ MaxDepth \in Nat /\ WordMax \in Nat
  /\ MaxStack \in Nat /\ MaxStack > 1 /\ Count > 0 /\ MaxDepth > 0
  /\ \A n \in Builtin : n \in Nat /\ Widths[n] \in Nat
  /\ Index \subseteq Nat
  BY TableAssumption DEF Builtin, Index

LEMMA ModuleTypes ==
  ASSUME module \in Modules, NEW d \in Index
  PROVE  /\ module[d] \in Declaration
         /\ module[d].tag \in Nat
         /\ module[d].cases \in Seq(Seq(Ref))
         /\ \A c \in 1..Len(module[d].cases) :
              /\ module[d].cases[c] \in Seq(Ref)
              /\ \A k \in 1..Len(module[d].cases[c]) :
                   module[d].cases[c][k] \in Ref
         /\ module[d].kind = "alias" => Target(d) \in Ref
  <1>1. module[d] \in Declaration
    BY ModulesAssumption
  <1>2. /\ module[d].tag \in Nat
        /\ module[d].cases \in Seq(Seq(Ref))
    BY <1>1 DEF Declaration
  <1>3. \A c \in 1..Len(module[d].cases) :
          /\ module[d].cases[c] \in Seq(Ref)
          /\ \A k \in 1..Len(module[d].cases[c]) : module[d].cases[c][k] \in Ref
    BY <1>2
  <1>4. module[d].kind = "alias" => Target(d) \in Ref
    BY <1>3, ModulesAssumption DEF Target
  <1> QED BY <1>1, <1>2, <1>3, <1>4

LEMMA TopTypes ==
  ASSUME IInv
  PROVE  /\ Top \in AnyFrame
         /\ FrameOK(Top, Len(table))
         /\ Len(stack) \in 1..MaxStack
         /\ Top.op # "module" => Len(stack) > 1
  BY ConstantTypes DEF IInv, StackOK, Top

LEMMA RefTypes ==
  ASSUME NEW r \in Ref
  PROVE  /\ r.form \in {"named", "applied", "bytes", "digest"}
         /\ r.form \in {"named", "applied"} => r.names \in Seq(Nat)
         /\ r.form = "named" => Len(r.names) = 1
         /\ r.form \in {"bytes", "digest"} => r.length \in Nat
  BY DEF Ref

-----------------------------------------------------------------------------
(***************************************************************************)
(* The table.                                                              *)
(***************************************************************************)
LEMMA InternKeeps ==
  ASSUME TableOK(table), NEW e, EntryOK(e, Len(table) + 1), HasRoom(e)
  PROVE  /\ TableOK(Interned(e))
         /\ Position(e) \in 1..Len(Interned(e))
         /\ Len(Interned(e)) >= Len(table)
         /\ Position(e) \in Nat
  <1>1. /\ table \in Seq(Entry) /\ e \in Entry /\ Len(table) \in Nat
        /\ DOMAIN table = 1..Len(table)
    BY DEF TableOK, EntryOK
  <1>2. CASE Positions(e) # {}
    <2>1. Position(e) \in 1..Len(table)
      BY <1>1, <1>2 DEF Position, Positions
    <2>2. Interned(e) = table
      BY <1>2 DEF Interned
    <2> QED BY <1>1, <2>1, <2>2
  <1>3. CASE Positions(e) = {}
    <2>1. /\ Interned(e) = Append(table, e) /\ Position(e) = Len(table) + 1
          /\ Len(table) < Capacity
      BY <1>1, <1>3 DEF Interned, Position, HasRoom
    <2>2. \A t \in 1..Len(table) : table[t] # e
      BY <1>1, <1>3 DEF Positions
    <2>3. TableOK(Append(table, e))
      <3> DEFINE new == Append(table, e)
      <3>1. /\ new \in Seq(Entry) /\ Len(new) = Len(table) + 1
            /\ new[Len(table) + 1] = e
            /\ \A t \in 1..Len(table) : new[t] = table[t]
        BY <1>1
      <3> HIDE DEF new
      <3>2. Len(new) <= Capacity
        BY <1>1, <2>1, <3>1, ConstantTypes
      <3>3. \A t \in 1..Len(new) : EntryOK(new[t], t)
        BY <1>1, <3>1 DEF TableOK
      <3>4. \A t, u \in 1..Len(new) : new[t] = new[u] => t = u
        BY <1>1, <2>2, <3>1 DEF TableOK
      <3>5. TableOK(new)
        BY <3>1, <3>2, <3>3, <3>4 DEF TableOK
      <3> QED BY <3>5 DEF new
    <2> QED BY <1>1, <2>1, <2>3
  <1> QED BY <1>2, <1>3

-----------------------------------------------------------------------------
(***************************************************************************)
(* The stack.                                                              *)
(***************************************************************************)
LEMMA FrameGrows ==
  ASSUME NEW f, NEW n \in Nat, NEW m \in Nat, m >= n, FrameOK(f, n)
  PROVE  FrameOK(f, m)
  BY DEF FrameOK, Types

LEMMA StackGrows ==
  ASSUME NEW s, NEW n \in Nat, NEW m \in Nat, m >= n, StackOK(s, n)
  PROVE  StackOK(s, m)
  BY FrameGrows DEF StackOK

LEMMA CallFrame ==
  ASSUME NEW op \in Ops, NEW subject, NEW depth \in 0..MaxDepth, NEW n,
         SubjectOK(Call(op, subject, depth))
  PROVE  FrameOK(Call(op, subject, depth), n)
  <1>1. subject \in Nat \cup Ref
    <2>1. Call(op, subject, depth).op = op /\ Call(op, subject, depth).subject = subject
      BY DEF Call
    <2> HIDE DEF Call
    <2>2. 0..Count \subseteq Nat /\ Index \subseteq Nat
      BY ConstantTypes
    <2> QED BY <2>1, <2>2 DEF SubjectOK, Ops
  <1>2. <<>> \in Seq(Values) /\ Len(<<>>) = 0
    OBVIOUS
  <1>3. 0 \in 0..WordMax /\ 1 \in Nat \ {0}
    BY ConstantTypes
  <1> QED BY <1>1, <1>2, <1>3 DEF FrameOK, AnyFrame, Call

LEMMA StackBecomes ==
  ASSUME NEW s, NEW n, StackOK(s, n), NEW f, FrameOK(f, n),
         \/ f.op = s[Len(s)].op
         \/ f.op \in Resolving /\ s[Len(s)].op \in Resolving
  PROVE  StackOK([s EXCEPT ![Len(s)] = f], n)
  <1> DEFINE t == [s EXCEPT ![Len(s)] = f]
  <1>1. /\ s \in Seq(AnyFrame) /\ f \in AnyFrame /\ Len(s) \in Nat /\ Len(s) >= 1
        /\ Len(s) \in 1..MaxStack
    BY ConstantTypes DEF StackOK, FrameOK
  <1>2. /\ t \in Seq(AnyFrame) /\ Len(t) = Len(s) /\ t[Len(s)] = f
        /\ \A k \in 1..Len(s) : k # Len(s) => t[k] = s[k]
    BY <1>1
  <1> HIDE DEF t
  <1>3. t[1].op = "module"
    <2>1. CASE Len(s) = 1
      BY <1>2, <2>1 DEF StackOK, Resolving
    <2>2. CASE Len(s) # 1
      BY <1>1, <1>2, <2>2 DEF StackOK
    <2> QED BY <2>1, <2>2
  <1>4. \A k \in 1..Len(t) : FrameOK(t[k], n)
    BY <1>2 DEF StackOK
  <1>5. ASSUME NEW k \in 1..(Len(t) - 1) PROVE Follows(t[k], t[k + 1])
    <2>1. t[k] = s[k] /\ Follows(s[k], s[k + 1]) /\ k + 1 \in 1..Len(s)
      BY <1>1, <1>2 DEF StackOK
    <2>2. CASE k + 1 = Len(s)
      BY <1>2, <2>1, <2>2 DEF Follows, Resolving
    <2>3. CASE k + 1 # Len(s)
      BY <1>2, <2>1, <2>3
    <2> QED BY <2>2, <2>3
  <1>6. StackOK(t, n)
    BY <1>1, <1>2, <1>3, <1>4, <1>5 DEF StackOK
  <1> QED BY <1>6 DEF t

LEMMA StackPushed ==
  ASSUME NEW s, NEW n, StackOK(s, n), NEW f, FrameOK(f, n),
         Follows(s[Len(s)], f), Len(s) < MaxStack
  PROVE  StackOK(Append(s, f), n)
  <1> DEFINE t == Append(s, f)
  <1>1. /\ s \in Seq(AnyFrame) /\ f \in AnyFrame /\ Len(s) \in Nat /\ Len(s) >= 1
    BY ConstantTypes DEF StackOK, FrameOK
  <1>2. /\ t \in Seq(AnyFrame) /\ Len(t) = Len(s) + 1 /\ t[Len(s) + 1] = f
        /\ \A k \in 1..Len(s) : t[k] = s[k]
    BY <1>1
  <1> HIDE DEF t
  <1>3. t[1].op = "module" /\ Len(t) \in 1..MaxStack
    BY <1>1, <1>2, ConstantTypes DEF StackOK
  <1>4. \A k \in 1..Len(t) : FrameOK(t[k], n)
    BY <1>1, <1>2 DEF StackOK
  <1>5. \A k \in 1..(Len(t) - 1) : Follows(t[k], t[k + 1])
    BY <1>1, <1>2 DEF StackOK
  <1>6. StackOK(t, n)
    BY <1>2, <1>3, <1>4, <1>5 DEF StackOK
  <1> QED BY <1>6 DEF t

LEMMA StackPopped ==
  ASSUME NEW n \in Nat, StackOK(stack, n), NEW v \in Values,
         Top.op # "module", Top.op \in Resolving => v \in Types(n)
  PROVE  StackOK(Popped(v), n)
  <1> DEFINE c == Len(stack) - 1
             s == SubSeq(stack, 1, c)
             g == [s[c] EXCEPT !.got = Append(@, v)]
             t == [s EXCEPT ![c] = g]
  <1>1. /\ stack \in Seq(AnyFrame) /\ Len(stack) \in Nat /\ Len(stack) > 1
        /\ Len(stack) <= MaxStack /\ c \in Nat /\ c >= 1
    BY ConstantTypes DEF StackOK, Top
  <1>2. /\ s \in Seq(AnyFrame) /\ Len(s) = c
        /\ \A k \in 1..c : s[k] = stack[k]
    BY <1>1
  <1> HIDE DEF s
  <1>3. /\ s[c] \in AnyFrame /\ FrameOK(s[c], n)
        /\ s[c].op = "resolve" => v \in Types(n)
    <2>1. s[c] = stack[c] /\ Follows(stack[c], Top) /\ FrameOK(stack[c], n)
      BY <1>1, <1>2 DEF StackOK, Top
    <2> QED BY <2>1 DEF FrameOK, Follows
  <1> HIDE DEF c
  <1>4. /\ g \in AnyFrame /\ g.op = s[c].op /\ g.subject = s[c].subject
        /\ g.got = Append(s[c].got, v)
    <2>1. Append(s[c].got, v) \in Seq(Values)
      BY <1>3 DEF AnyFrame
    <2>2. g = [s[c] EXCEPT !.got = Append(s[c].got, v)]
      OBVIOUS
    <2> HIDE DEF g
    <2> QED BY <1>3, <2>1, <2>2 DEF AnyFrame
  <1>5. FrameOK(g, n)
    <2>1. s[c].got \in Seq(Values) /\ Len(s[c].got) \in Nat
      BY <1>3 DEF AnyFrame
    <2>2. ASSUME g.op = "resolve", NEW j \in 1..Len(g.got)
          PROVE  g.got[j] \in Types(n)
      <3> DEFINE got == s[c].got
      <3>1. /\ v \in Types(n)
            /\ \A k \in 1..Len(got) : got[k] \in Types(n)
        BY <1>3, <1>4, <2>2 DEF FrameOK
      <3>2. got \in Seq(Values) /\ g.got = Append(got, v)
        BY <1>4, <2>1
      <3> HIDE DEF got
      <3>3. \A k \in 1..Len(Append(got, v)) :
              Append(got, v)[k] = v \/ (k \in 1..Len(got) /\ Append(got, v)[k] = got[k])
        BY <3>2
      <3> QED BY <2>2, <3>1, <3>2, <3>3
    <2>3. SubjectOK(g)
      BY <1>3, <1>4 DEF FrameOK, SubjectOK
    <2> QED BY <1>4, <2>2, <2>3 DEF FrameOK
  <1> HIDE DEF g
  <1>6. /\ t \in Seq(AnyFrame) /\ Len(t) = c /\ t[c] = g
        /\ \A k \in 1..c : k # c => t[k] = stack[k]
    BY <1>1, <1>2, <1>4
  <1>7. Popped(v) = t
    BY DEF Popped, t, s, g, c
  <1> HIDE DEF t
  <1>8. \A k \in 1..c : t[k].op = stack[k].op
    BY <1>1, <1>2, <1>4, <1>6
  <1>9. t[1].op = "module" /\ Len(t) \in 1..MaxStack
    BY <1>1, <1>6, <1>8, ConstantTypes DEF StackOK, c
  <1>10. \A k \in 1..Len(t) : FrameOK(t[k], n)
    BY <1>1, <1>5, <1>6 DEF StackOK, c
  <1>11. \A k \in 1..(Len(t) - 1) : Follows(t[k], t[k + 1])
    <2> TAKE k \in 1..(Len(t) - 1)
    <2>1. k \in 1..c /\ k + 1 \in 1..c /\ k \in 1..(Len(stack) - 1)
      BY <1>1, <1>6 DEF c
    <2>2. Follows(stack[k], stack[k + 1])
      BY <2>1 DEF StackOK
    <2> QED BY <1>8, <2>1, <2>2 DEF Follows
  <1>12. StackOK(t, n)
    BY <1>6, <1>9, <1>10, <1>11 DEF StackOK
  <1> QED BY <1>7, <1>12

-----------------------------------------------------------------------------
(***************************************************************************)
(* The ways an action goes on.                                             *)
(***************************************************************************)
LEMMA GotoKeeps ==
  ASSUME IInv, NEW f, FrameOK(f, Len(table)), Goto(f),
         \/ f.op = Top.op
         \/ f.op \in Resolving /\ Top.op \in Resolving
  PROVE  IInv'
  <1>1. StackOK(Becomes(f), Len(table))
    BY StackBecomes DEF IInv, Becomes, Top
  <1> QED BY <1>1 DEF IInv, Goto, TableOK

LEMMA PushKeeps ==
  ASSUME IInv, NEW f, FrameOK(f, Len(table)), Follows(Top, f), Push(f)
  PROVE  IInv'
  <1>1. CASE /\ Len(stack) < MaxStack
             /\ stack' = Append(stack, f)
             /\ UNCHANGED <<module, phase, code, table>>
    <2>1. StackOK(Append(stack, f), Len(table))
      BY <1>1, StackPushed DEF IInv, Top
    <2> QED BY <1>1, <2>1 DEF IInv
  <1>2. CASE phase' = "crashed" /\ UNCHANGED <<module, code, table, stack>>
    BY <1>2 DEF IInv
  <1> QED BY <1>1, <1>2 DEF Push

LEMMA ReturnKeeps ==
  ASSUME IInv, NEW v \in Values, Top.op # "module",
         Top.op \in Resolving => v \in Types(Len(table)), Return(v)
  PROVE  IInv'
  <1>1. Len(table) \in Nat
    BY DEF IInv, TableOK
  <1>2. StackOK(Popped(v), Len(table))
    BY <1>1, StackPopped DEF IInv
  <1> QED BY <1>2 DEF IInv, Return

LEMMA ReturnInternedKeeps ==
  ASSUME IInv, NEW e, EntryOK(e, Len(table) + 1), Top.op \in Resolving,
         ReturnInterned(e)
  PROVE  IInv'
  <1>1. CASE /\ HasRoom(e)
             /\ table' = Interned(e)
             /\ stack' = Popped(Position(e))
             /\ UNCHANGED <<module, phase, code>>
    <2> DEFINE n == Len(Interned(e))
    <2>1. /\ TableOK(Interned(e)) /\ Position(e) \in 1..n
          /\ n >= Len(table) /\ Position(e) \in Nat
      BY <1>1, InternKeeps DEF IInv
    <2>2. n \in Nat /\ Len(table) \in Nat
      BY <2>1 DEF IInv, TableOK
    <2>3. StackOK(stack, n)
      BY <2>1, <2>2, StackGrows DEF IInv
    <2>4. Position(e) \in Values /\ Position(e) \in Types(n) /\ Top.op # "module"
      BY <2>1 DEF Values, Types, Resolving
    <2> HIDE DEF n
    <2>5. StackOK(Popped(Position(e)), n)
      BY <2>2, <2>3, <2>4, StackPopped
    <2> QED BY <1>1, <2>1, <2>5 DEF IInv, n
  <1>2. CASE ~HasRoom(e) /\ Return(Invalid)
    <2>1. Invalid \in Values /\ Invalid \in Types(Len(table)) /\ Top.op # "module"
      BY DEF Values, Types, Resolving
    <2> QED BY <1>2, <2>1, ReturnKeeps
  <1> QED BY <1>1, <1>2 DEF ReturnInterned

LEMMA InvalidReturned ==
  ASSUME IInv, Top.op # "module", Return(Invalid)
  PROVE  IInv'
  BY ReturnKeeps DEF Values, Types

-----------------------------------------------------------------------------
(***************************************************************************)
(* The actions: resolution.                                                *)
(***************************************************************************)
LEMMA ExpandCalled ==
  ASSUME NEW n, NEW name \in Nat, NEW depth \in 0..MaxDepth
  PROVE  FrameOK(Call("expand", name, depth), n) /\ Call("expand", name, depth).op = "expand"
  <1>1. SubjectOK(Call("expand", name, depth))
    BY DEF SubjectOK, Call
  <1> QED BY <1>1, CallFrame DEF Ops, Call

LEMMA ResolveCalled ==
  ASSUME NEW n, NEW r \in Ref
  PROVE  FrameOK(Call("resolve", r, 0), n) /\ Call("resolve", r, 0).op = "resolve"
  <1>1. SubjectOK(Call("resolve", r, 0)) /\ 0 \in 0..MaxDepth
    BY ConstantTypes DEF SubjectOK, Call
  <1> QED BY <1>1, CallFrame DEF Ops, Call

LEMMA ResolveTypes ==
  ASSUME IInv, Top.op = "resolve"
  PROVE  /\ Top.subject \in Ref
         /\ Top.got \in Seq(Values)
         /\ \A j \in 1..Len(Top.got) : Top.got[j] \in Types(Len(table))
  BY TopTypes DEF FrameOK, SubjectOK, AnyFrame

LEMMA ResolveKeeps ==
  ASSUME IInv,
         \/ ResolveName \/ ResolveBytes \/ ResolveArgument
         \/ ResolveDecision \/ ResolveOther
  PROVE  IInv'
  <1> DEFINE r == Top.subject
  <1>0. /\ Top.op = "resolve" /\ Top.op \in Resolving /\ Top.op # "module"
        /\ r \in Ref /\ Len(table) \in Nat
    BY ResolveTypes DEF ResolveName, ResolveBytes, ResolveArgument,
       ResolveDecision, ResolveOther, Running, Resolving, IInv, TableOK
  <1> HIDE DEF r
  <1>1. CASE ResolveName
    <2>1. r.names[1] \in Nat /\ 0 \in 0..MaxDepth /\ Goto(Call("expand", r.names[1], 0))
      BY <1>0, <1>1, RefTypes, ConstantTypes DEF ResolveName, r
    <2> QED BY <1>0, <2>1, ExpandCalled, GotoKeeps DEF Resolving
  <1>2. CASE ResolveBytes
    <2>1. r.form \in {"bytes", "digest"} /\ r.length \in Nat
      BY <1>0, <1>2, RefTypes DEF ResolveBytes, r
    <2>2. EntryOK(BytesOf(r), Len(table) + 1)
      BY <2>1 DEF BytesOf, EntryOK, Entry
    <2>3. CASE Return(Invalid)
      BY <1>0, <2>3, InvalidReturned
    <2>4. CASE ReturnInterned(BytesOf(r))
      BY <1>0, <2>2, <2>4, ReturnInternedKeeps
    <2> QED BY <1>2, <2>3, <2>4 DEF ResolveBytes, r
  <1>3. CASE ResolveArgument
    <2> DEFINE name == r.names[Len(Top.got) + 1]
    <2>1. Len(Top.got) \in Nat
      BY <1>0, ResolveTypes
    <2>2. r.names \in Seq(Nat) /\ Len(r.names) = 2 /\ Len(Top.got) < 2
      BY <1>0, <1>3, RefTypes DEF ResolveArgument, r
    <2>3. name \in Nat /\ 0 \in 0..MaxDepth
      BY <2>1, <2>2, ConstantTypes
    <2>4. Push(Call("expand", name, 0))
      BY <1>3 DEF ResolveArgument, r
    <2> HIDE DEF name
    <2>5. FrameOK(Call("expand", name, 0), Len(table)) /\ Follows(Top, Call("expand", name, 0))
      BY <2>3, ExpandCalled DEF Follows, Resolving
    <2> QED BY <2>4, <2>5, PushKeeps
  <1>4. CASE ResolveDecision
    <2>1. Top.got[1] \in Types(Len(table)) /\ Top.got[2] \in Types(Len(table))
      BY <1>0, <1>4, ResolveTypes DEF ResolveDecision
    <2>2. CASE Return(Invalid)
      BY <1>0, <2>2, InvalidReturned
    <2>3. CASE /\ Top.got[1] # Invalid /\ Top.got[2] # Invalid
               /\ ReturnInterned(DecisionOf(Top.got[1], Top.got[2]))
      <3>1. Top.got[1] \in 1..Len(table) /\ Top.got[2] \in 1..Len(table)
        BY <2>1, <2>3 DEF Types
      <3>2. EntryOK(DecisionOf(Top.got[1], Top.got[2]), Len(table) + 1)
        BY <1>0, <3>1 DEF DecisionOf, EntryOK, Entry
      <3> QED BY <1>0, <2>3, <3>2, ReturnInternedKeeps
    <2> QED BY <1>4, <2>2, <2>3 DEF ResolveDecision
  <1>5. CASE ResolveOther
    BY <1>0, <1>5, InvalidReturned DEF ResolveOther
  <1> QED BY <1>1, <1>2, <1>3, <1>4, <1>5

LEMMA ExpandKeeps ==
  ASSUME IInv, ExpandAlias \/ ExpandName \/ ExpandTooDeep
  PROVE  IInv'
  <1>0. /\ Top.op = "expand" /\ Top.op \in Resolving /\ Top.op # "module"
        /\ Top.subject \in Nat /\ Top.depth \in 0..MaxDepth /\ Len(table) \in Nat
    BY TopTypes DEF ExpandAlias, ExpandName, ExpandTooDeep, Running, Resolving,
       IInv, TableOK, FrameOK, SubjectOK, AnyFrame
  <1>1. CASE ExpandAlias
    <2>1. PICK d \in AliasFound(Top.subject) :
            IF Target(d).form = "named"
            THEN Goto(Call("expand", Target(d).names[1], Top.depth + 1))
            ELSE Goto(Call("resolve", Target(d), 0))
      BY <1>1 DEF ExpandAlias
    <2>2. d \in Index /\ module[d].kind = "alias"
      BY <2>1 DEF AliasFound, Found
    <2>3. Target(d) \in Ref
      BY <2>2, ModuleTypes DEF IInv
    <2>4. CASE Target(d).form = "named"
      <3>1. Target(d).names[1] \in Nat
        BY <2>3, <2>4, RefTypes
      <3>2. Top.depth + 1 \in 0..MaxDepth
        BY <1>0, <1>1, ConstantTypes DEF ExpandAlias
      <3> QED BY <1>0, <2>1, <2>4, <3>1, <3>2, ExpandCalled, GotoKeeps DEF Resolving
    <2>5. CASE Target(d).form # "named"
      BY <1>0, <2>1, <2>3, <2>5, ResolveCalled, GotoKeeps DEF Resolving
    <2> QED BY <2>4, <2>5
  <1>2. CASE ExpandName
    <2>1. CASE Top.subject \in Builtin /\ ReturnInterned(Base(Top.subject))
      <3>1. EntryOK(Base(Top.subject), Len(table) + 1)
        BY <1>0, <2>1 DEF Base, EntryOK, Entry
      <3> QED BY <1>0, <2>1, <3>1, ReturnInternedKeeps
    <2>2. CASE \E d \in Found(Top.subject) : ReturnInterned(Declared(d))
      <3>1. PICK d \in Found(Top.subject) : ReturnInterned(Declared(d))
        BY <2>2
      <3>2. d \in Index /\ d \in Nat
        BY <3>1, ConstantTypes DEF Found
      <3>3. EntryOK(Declared(d), Len(table) + 1)
        BY <3>2 DEF Declared, EntryOK, Entry
      <3> QED BY <1>0, <3>1, <3>3, ReturnInternedKeeps
    <2>3. CASE Return(Invalid)
      BY <1>0, <2>3, InvalidReturned
    <2> QED BY <1>2, <2>1, <2>2, <2>3 DEF ExpandName
  <1>3. CASE ExpandTooDeep
    BY <1>0, <1>3, InvalidReturned DEF ExpandTooDeep
  <1> QED BY <1>1, <1>2, <1>3

-----------------------------------------------------------------------------
(***************************************************************************)
(* The actions: widths.                                                    *)
(***************************************************************************)
LEMMA CheckedValue ==
  ASSUME NEW n \in Nat
  PROVE  Checked(n) \in Values
  BY DEF Checked, Values

LEMMA ValueCalled ==
  ASSUME IInv, NEW type \in Nat, NEW depth \in 0..MaxDepth,
         Top.op # "resolve", Push(Call("value", type, depth))
  PROVE  IInv'
  <1>1. SubjectOK(Call("value", type, depth)) /\ Call("value", type, depth).op = "value"
    BY DEF SubjectOK, Call
  <1>2. FrameOK(Call("value", type, depth), Len(table))
    BY <1>1, CallFrame DEF Ops
  <1>3. Follows(Top, Call("value", type, depth))
    BY <1>1 DEF Follows
  <1> QED BY <1>2, <1>3, PushKeeps

LEMMA ValueKeeps ==
  ASSUME IInv,
         \/ ValueTooDeep \/ ValueBase \/ ValueArgument
         \/ ValueDecision \/ ValueDeclared
  PROVE  IInv'
  <1> DEFINE e == table[Top.subject]
  <1>0. /\ Top.op = "value" /\ Top.op \notin Resolving /\ Top.op # "module"
        /\ Top.depth \in 0..MaxDepth /\ Top.got \in Seq(Values)
    BY TopTypes DEF ValueTooDeep, ValueBase, ValueArgument, ValueDecision,
       ValueDeclared, Running, Resolving, FrameOK, AnyFrame
  <1>1. ASSUME Measurable
        PROVE  /\ e \in Entry /\ e.a \in Nat /\ e.b \in Nat /\ Kind = e.kind
               /\ e.kind = "base" => e.a \in Builtin
               /\ e.kind = "declared" => e.a \in Index
               /\ Top.depth + 1 \in 0..MaxDepth
    <2>1. Top.subject \in 1..Len(table)
      BY <1>1 DEF Measurable, IInv, TableOK
    <2>2. EntryOK(e, Top.subject)
      BY <2>1 DEF IInv, TableOK
    <2>3. Top.depth + 1 \in 0..MaxDepth
      BY <1>0, <1>1, ConstantTypes DEF Measurable
    <2> QED BY <2>2, <2>3 DEF EntryOK, Entry, Kind
  <1> HIDE DEF e
  <1>2. CASE ValueTooDeep
    BY <1>0, <1>2, InvalidReturned DEF ValueTooDeep
  <1>3. CASE ValueBase
    <2>1. CASE Kind = "base" /\ Return(Widths[e.a])
      <3>1. Widths[e.a] \in Values
        BY <1>1, <1>3, <2>1, ConstantTypes DEF ValueBase, Values
      <3> QED BY <1>0, <2>1, <3>1, ReturnKeeps
    <2>2. CASE Return(Checked(8 * e.a))
      <3>1. Checked(8 * e.a) \in Values
        BY <1>1, <1>3, CheckedValue DEF ValueBase
      <3> QED BY <1>0, <2>2, <3>1, ReturnKeeps
    <2> QED BY <1>3, <2>1, <2>2 DEF ValueBase, e
  <1>4. CASE ValueArgument
    <2> DEFINE argument == IF Top.got = <<>> THEN e.a ELSE e.b
    <2>1. argument \in Nat /\ Top.depth + 1 \in 0..MaxDepth
      BY <1>1, <1>4 DEF ValueArgument
    <2>2. Push(Call("value", argument, Top.depth + 1))
      BY <1>4 DEF ValueArgument, e
    <2> HIDE DEF argument
    <2> QED BY <1>0, <2>1, <2>2, ValueCalled
  <1>5. CASE ValueDecision
    <2>1. CASE Return(Invalid)
      BY <1>0, <2>1, InvalidReturned
    <2>2. CASE /\ Len(Top.got) = 2
               /\ Invalid \notin {Top.got[k] : k \in DOMAIN Top.got}
               /\ Return(Checked(1 + Larger(Top.got[1], Top.got[2])))
      <3>1. /\ Top.got[1] \in Values /\ Top.got[2] \in Values
            /\ 1 \in DOMAIN Top.got /\ 2 \in DOMAIN Top.got
        BY <1>0, <2>2
      <3>2. Top.got[1] \in Nat /\ Top.got[2] \in Nat
        BY <2>2, <3>1 DEF Values
      <3>3. 1 + Larger(Top.got[1], Top.got[2]) \in Nat
        BY <3>2 DEF Larger
      <3>4. Checked(1 + Larger(Top.got[1], Top.got[2])) \in Values
        BY <3>3, CheckedValue
      <3> QED BY <1>0, <2>2, <3>4, ReturnKeeps
    <2> QED BY <1>5, <2>1, <2>2 DEF ValueDecision
  <1>6. CASE ValueDeclared
    <2> DEFINE f == Call("declared", e.a, Top.depth + 1)
    <2>0. e.a \in Index /\ Top.depth + 1 \in 0..MaxDepth
      BY <1>1, <1>6 DEF ValueDeclared
    <2>1. CASE Push(f)
      <3>1. SubjectOK(f) /\ f.op = "declared"
        BY <2>0 DEF SubjectOK, Call
      <3>2. FrameOK(f, Len(table))
        BY <2>0, <3>1, CallFrame DEF Ops
      <3>3. Follows(Top, f)
        BY <1>0, <3>1 DEF Follows
      <3> HIDE DEF f
      <3> QED BY <2>1, <3>2, <3>3, PushKeeps
    <2>2. CASE Top.got # <<>> /\ Return(Top.got[1])
      <3>1. Top.got[1] \in Values
        BY <1>0, <2>2
      <3> QED BY <1>0, <2>2, <3>1, ReturnKeeps
    <2> QED BY <1>6, <2>1, <2>2 DEF ValueDeclared, e
  <1> QED BY <1>2, <1>3, <1>4, <1>5, <1>6

\* A frame that goes on with another field or case keeps its type.
LEMMA LoopFrame ==
  ASSUME IInv, Top.op \in {"module", "declared"}, NEW f \in AnyFrame,
         f.op = Top.op, f.subject = Top.subject, Goto(f)
  PROVE  IInv'
  <1>1. SubjectOK(f)
    BY TopTypes DEF FrameOK, SubjectOK
  <1>2. FrameOK(f, Len(table))
    BY <1>1 DEF FrameOK
  <1> QED BY <1>2, GotoKeeps

LEMMA RefCalled ==
  ASSUME IInv, Top.op # "resolve", NEW r \in Ref, Push(Call("resolve", r, 0))
  PROVE  IInv'
  <1>1. FrameOK(Call("resolve", r, 0), Len(table)) /\ Follows(Top, Call("resolve", r, 0))
    BY ResolveCalled DEF Follows
  <1> QED BY <1>1, PushKeeps

\* Where a loop over fields stands.
LEMMA LoopTypes ==
  ASSUME IInv, Top.op \in {"module", "declared"}, Top.subject \in Index
  PROVE  /\ AtField => Cases[Top.case][Top.field] \in Ref
         /\ Top.case \in Nat \ {0} /\ Top.field \in Nat \ {0}
         /\ Top.payload \in 0..WordMax /\ Top.widest \in 0..WordMax
         /\ Top.got \in Seq(Values) /\ Top.depth \in 0..MaxDepth
         /\ Top \in AnyFrame
  <1>1. /\ Top.case \in Nat \ {0} /\ Top.field \in Nat \ {0}
        /\ Top.payload \in 0..WordMax /\ Top.widest \in 0..WordMax
        /\ Top.got \in Seq(Values) /\ Top.depth \in 0..MaxDepth
        /\ Top \in AnyFrame
    BY TopTypes DEF AnyFrame
  <1>2. ASSUME AtField PROVE Cases[Top.case][Top.field] \in Ref
    <2>1. /\ Cases \in Seq(Seq(Ref))
          /\ \A c \in 1..Len(Cases) :
               /\ Cases[c] \in Seq(Ref)
               /\ \A k \in 1..Len(Cases[c]) : Cases[c][k] \in Ref
      BY ModuleTypes DEF IInv, Cases
    <2>2. Top.case \in 1..Len(Cases)
      BY <1>1, <1>2, <2>1 DEF AtField
    <2>3. Top.field \in 1..Len(Cases[Top.case])
      BY <1>1, <1>2, <2>1, <2>2 DEF AtField
    <2> QED BY <2>1, <2>2, <2>3
  <1> QED BY <1>1, <1>2

LEMMA DeclaredKeeps ==
  ASSUME IInv,
         \/ DeclaredTooDeep \/ FieldResolve \/ FieldMeasure \/ FieldAdd
         \/ CaseEnd \/ DeclaredEnd
  PROVE  IInv'
  <1>0. /\ Top.op = "declared" /\ Top.op \notin Resolving /\ Top.op # "module"
        /\ Top.subject \in Index
    BY TopTypes DEF DeclaredTooDeep, FieldResolve, FieldMeasure, FieldAdd,
       CaseEnd, DeclaredEnd, Measuring, Running, Resolving, FrameOK, SubjectOK
  <1>1. CASE DeclaredTooDeep
    BY <1>0, <1>1, InvalidReturned DEF DeclaredTooDeep
  <1>2. CASE FieldResolve
    BY <1>0, <1>2, LoopTypes, RefCalled DEF FieldResolve
  <1>3. CASE FieldMeasure
    <2>1. CASE Return(Invalid)
      BY <1>0, <2>1, InvalidReturned
    <2>2. CASE Top.got[1] # Invalid /\ Push(Call("value", Top.got[1], Top.depth + 1))
      <3>1. Top.got[1] \in Values
        BY <1>0, <1>3, LoopTypes DEF FieldMeasure
      <3>2. Top.got[1] \in Nat
        BY <2>2, <3>1 DEF Values
      <3>3. Top.depth + 1 \in 0..MaxDepth
        BY <1>0, <1>3, LoopTypes, ConstantTypes DEF FieldMeasure, Measuring
      <3> QED BY <1>0, <2>2, <3>2, <3>3, ValueCalled
    <2> QED BY <1>3, <2>1, <2>2 DEF FieldMeasure
  <1>4. CASE FieldAdd
    <2>1. CASE Return(Invalid)
      BY <1>0, <2>1, InvalidReturned
    <2>2. CASE ~(Top.got[2] = Invalid \/ Top.payload + Top.got[2] > WordMax)
      <3> DEFINE f == [Top EXCEPT !.payload = @ + Top.got[2], !.field = @ + 1,
                                  !.got = <<>>]
      <3>1. Top.got[2] \in Values
        BY <1>0, <1>4, LoopTypes DEF FieldAdd
      <3>2. Top.payload + Top.got[2] \in 0..WordMax /\ Top.field + 1 \in Nat \ {0}
        <4>1. Top.payload \in 0..WordMax /\ Top.field \in Nat \ {0}
          BY <1>0, LoopTypes
        <4>2. Top.got[2] \in Nat /\ Top.payload + Top.got[2] <= WordMax
          BY <1>0, <2>2, <3>1, <4>1, ConstantTypes DEF Values
        <4> QED BY <4>1, <4>2, ConstantTypes
      <3>3. <<>> \in Seq(Values) /\ Top \in AnyFrame
        BY <1>0, LoopTypes
      <3>4. f \in AnyFrame /\ f.op = Top.op /\ f.subject = Top.subject
        BY <3>2, <3>3 DEF AnyFrame
      <3>5. Goto(f)
        BY <1>4, <2>2 DEF FieldAdd
      <3> HIDE DEF f
      <3> QED BY <1>0, <3>4, <3>5, LoopFrame
    <2> QED BY <1>4, <2>1, <2>2 DEF FieldAdd
  <1>5. CASE CaseEnd
    <2> DEFINE f == [Top EXCEPT !.widest = Larger(@, Top.payload), !.payload = 0,
                                !.case = @ + 1, !.field = 1]
    <2>1. /\ Larger(Top.widest, Top.payload) \in 0..WordMax /\ 0 \in 0..WordMax
          /\ Top.case + 1 \in Nat \ {0} /\ 1 \in Nat \ {0}
      BY <1>0, LoopTypes, ConstantTypes DEF Larger
    <2>2. f \in AnyFrame /\ f.op = Top.op /\ f.subject = Top.subject
      BY <1>0, <2>1, LoopTypes DEF AnyFrame
    <2>3. Goto(f)
      BY <1>5 DEF CaseEnd
    <2> HIDE DEF f
    <2> QED BY <1>0, <2>2, <2>3, LoopFrame
  <1>6. CASE DeclaredEnd
    <2>1. module[Top.subject].tag + Top.widest \in Nat
      <3>1. Top.widest \in Nat
        BY <1>0, LoopTypes, ConstantTypes
      <3>2. module[Top.subject].tag \in Nat
        BY <1>0, ModuleTypes DEF IInv
      <3> QED BY <3>1, <3>2
    <2>2. Checked(module[Top.subject].tag + Top.widest) \in Values
      BY <2>1, CheckedValue
    <2> QED BY <1>0, <1>6, <2>2, ReturnKeeps DEF DeclaredEnd
  <1> QED BY <1>1, <1>2, <1>3, <1>4, <1>5, <1>6

-----------------------------------------------------------------------------
(***************************************************************************)
(* The actions: resolve_declarations.                                      *)
(***************************************************************************)
LEMMA ModuleKeeps ==
  ASSUME IInv,
         \/ ResolveField \/ ResolveCaseEnd \/ ResolveAlias
         \/ InternDeclaration \/ CheckWidth \/ Accept
  PROVE  IInv'
  <1>0. Top.op = "module" /\ Top.op # "resolve" /\ Top.subject \in 0..Count
    BY TopTypes DEF ResolveField, ResolveCaseEnd, ResolveAlias,
       InternDeclaration, CheckWidth, Accept, Running, FrameOK, SubjectOK
  <1>1. ASSUME Top.subject < Count PROVE Top.subject \in Index
    BY <1>0, <1>1, ConstantTypes DEF Index
  <1>2. CASE ResolveField
    <2>1. Top.subject \in Index /\ AtField
      BY <1>1, <1>2 DEF ResolveField
    <2>2. CASE Push(Call("resolve", Cases[Top.case][Top.field], 0))
      BY <1>0, <2>1, <2>2, LoopTypes, RefCalled
    <2>3. CASE Refuse("A0-CHECK-0012")
      BY <2>3 DEF Refuse, IInv
    <2>4. CASE Goto([Top EXCEPT !.field = @ + 1, !.got = <<>>])
      <3> DEFINE f == [Top EXCEPT !.field = @ + 1, !.got = <<>>]
      <3>1. /\ Top.field + 1 \in Nat \ {0} /\ <<>> \in Seq(Values)
            /\ Top \in AnyFrame
        BY <1>0, <2>1, LoopTypes
      <3>2. f \in AnyFrame /\ f.op = Top.op /\ f.subject = Top.subject
        BY <3>1 DEF AnyFrame
      <3> HIDE DEF f
      <3> QED BY <1>0, <2>4, <3>2, LoopFrame DEF f
    <2> QED BY <1>2, <2>2, <2>3, <2>4 DEF ResolveField
  <1>3. CASE ResolveCaseEnd
    <2> DEFINE f == [Top EXCEPT !.case = @ + 1, !.field = 1]
    <2>1. /\ Top.case + 1 \in Nat \ {0} /\ 1 \in Nat \ {0}
          /\ Top \in AnyFrame
      BY <1>0, <1>1, <1>3, LoopTypes DEF ResolveCaseEnd
    <2>2. f \in AnyFrame /\ f.op = Top.op /\ f.subject = Top.subject
      BY <2>1 DEF AnyFrame
    <2>3. Goto(f)
      BY <1>3 DEF ResolveCaseEnd
    <2> HIDE DEF f
    <2> QED BY <1>0, <2>2, <2>3, LoopFrame
  <1>4. CASE ResolveAlias
    <2>1. Push(Call("value", 1, 0)) /\ 0 \in 0..MaxDepth
      BY <1>4, ConstantTypes DEF ResolveAlias
    <2> QED BY <1>0, <2>1, ValueCalled
  <1>5. CASE InternDeclaration
    <2> DEFINE e == Declared(Top.subject)
    <2>1. CASE Refuse("A0-CHECK-0014")
      BY <2>1 DEF Refuse, IInv
    <2>2. CASE /\ HasRoom(e)
               /\ table' = Interned(e)
               /\ stack' = Append(stack, Call("value", Position(e), 0))
               /\ UNCHANGED <<module, phase, code>>
      <3> DEFINE n == Len(Interned(e))
                 f == Call("value", Position(e), 0)
      <3>1. Top.subject \in Index /\ Top.subject \in Nat
        BY <1>1, <1>5, ConstantTypes DEF InternDeclaration
      <3>2. EntryOK(e, Len(table) + 1)
        BY <3>1 DEF Declared, EntryOK, Entry
      <3>3. /\ TableOK(Interned(e)) /\ Position(e) \in Nat /\ n >= Len(table)
        BY <2>2, <3>2, InternKeeps DEF IInv
      <3>4. n \in Nat /\ Len(table) \in Nat
        BY <3>3 DEF IInv, TableOK
      <3>5. StackOK(stack, n)
        BY <3>3, <3>4, StackGrows DEF IInv
      <3>6. SubjectOK(f) /\ f.op = "value" /\ 0 \in 0..MaxDepth
        BY <3>3, ConstantTypes DEF SubjectOK, Call
      <3>7. FrameOK(f, n) /\ Follows(Top, f)
        BY <1>0, <3>6, CallFrame DEF Ops, Follows
      <3>8. Len(stack) < MaxStack
        <4>1. Len(stack) = 1
          <5>1. ASSUME Len(stack) > 1 PROVE FALSE
            <6>1. Len(stack) - 1 \in 1..(Len(stack) - 1) /\ Len(stack) \in Nat
              BY <5>1, TopTypes, ConstantTypes
            <6>2. Follows(stack[Len(stack) - 1], stack[Len(stack) - 1 + 1])
              BY <6>1 DEF IInv, StackOK
            <6> QED BY <1>0, <6>1, <6>2 DEF Follows, Top
          <5>2. Len(stack) \in Nat /\ Len(stack) >= 1
            BY TopTypes, ConstantTypes
          <5> QED BY <5>1, <5>2
        <4> QED BY <4>1, ConstantTypes
      <3> HIDE DEF n, f
      <3>9. StackOK(Append(stack, f), n)
        BY <3>5, <3>7, <3>8, StackPushed DEF Top
      <3> QED BY <2>2, <3>3, <3>9 DEF IInv, n, f
    <2> QED BY <1>5, <2>1, <2>2 DEF InternDeclaration
  <1>6. CASE CheckWidth
    <2>1. CASE Refuse("A0-CHECK-0013")
      BY <2>1 DEF Refuse, IInv
    <2>2. CASE Goto(Call("module", Top.subject + 1, 0))
      <3> DEFINE f == Call("module", Top.subject + 1, 0)
      <3>1. Top.subject + 1 \in 0..Count /\ 0 \in 0..MaxDepth
        BY <1>0, <1>6, ConstantTypes DEF CheckWidth
      <3>2. SubjectOK(f) /\ f.op = "module"
        BY <3>1 DEF SubjectOK, Call
      <3>3. FrameOK(f, Len(table))
        BY <3>1, <3>2, CallFrame DEF Ops
      <3> HIDE DEF f
      <3> QED BY <1>0, <2>2, <3>2, <3>3, GotoKeeps DEF f
    <2> QED BY <1>6, <2>1, <2>2 DEF CheckWidth
  <1>7. CASE Accept
    BY <1>7 DEF Accept, IInv
  <1> QED BY <1>2, <1>3, <1>4, <1>5, <1>6, <1>7

-----------------------------------------------------------------------------
LEMMA InitIInv == Init => IInv
  <1> SUFFICES ASSUME Init PROVE IInv
    OBVIOUS
  <1> DEFINE f == Call("module", 0, 0)
  <1>1. TableOK(<<>>)
    BY ConstantTypes DEF TableOK
  <1>2. SubjectOK(f) /\ f.op = "module" /\ 0 \in 0..MaxDepth
    BY ConstantTypes DEF SubjectOK, Call
  <1>3. FrameOK(f, 0)
    BY <1>2, CallFrame DEF Ops
  <1> HIDE DEF f
  <1>4. /\ <<f>> \in Seq(AnyFrame) /\ Len(<<f>>) = 1 /\ <<f>>[1] = f
    BY <1>3 DEF FrameOK
  <1>5. StackOK(<<f>>, 0)
    BY <1>2, <1>3, <1>4, ConstantTypes DEF StackOK
  <1> QED BY <1>1, <1>5 DEF Init, IInv, f

LEMMA StepIInv == IInv /\ [Next]_vars => IInv'
  <1> SUFFICES ASSUME IInv, [Next]_vars PROVE IInv'
    OBVIOUS
  <1>1. CASE UNCHANGED vars
    BY <1>1 DEF IInv, vars
  <1>2. CASE \/ ResolveName \/ ResolveBytes \/ ResolveArgument
             \/ ResolveDecision \/ ResolveOther
    BY <1>2, ResolveKeeps
  <1>3. CASE ExpandAlias \/ ExpandName \/ ExpandTooDeep
    BY <1>3, ExpandKeeps
  <1>4. CASE \/ ValueTooDeep \/ ValueBase \/ ValueArgument
             \/ ValueDecision \/ ValueDeclared
    BY <1>4, ValueKeeps
  <1>5. CASE \/ DeclaredTooDeep \/ FieldResolve \/ FieldMeasure \/ FieldAdd
             \/ CaseEnd \/ DeclaredEnd
    BY <1>5, DeclaredKeeps
  <1>6. CASE \/ ResolveField \/ ResolveCaseEnd \/ ResolveAlias
             \/ InternDeclaration \/ CheckWidth \/ Accept
    BY <1>6, ModuleKeeps
  <1> QED BY <1>1, <1>2, <1>3, <1>4, <1>5, <1>6 DEF Next

LEMMA Invariant == Spec => []IInv
  BY InitIInv, StepIInv, PTL DEF Spec

(***************************************************************************)
(* TypeOK: whatever the module, every active call is about something of    *)
(* the right sort, its budget and its widths stay in range (the checked    *)
(* additions of seki_types.c), and the table within its capacity.          *)
(***************************************************************************)
THEOREM TypeCorrect == Spec => []TypeOK
  <1>1. IInv => TypeOK
    <2> SUFFICES ASSUME IInv PROVE TypeOK
      OBVIOUS
    <2>1. DOMAIN stack = 1..Len(stack) /\ Len(stack) \in 1..MaxStack
      BY DEF IInv, StackOK
    <2>2. ASSUME NEW k \in DOMAIN stack
          PROVE  stack[k].op \in Ops /\ stack[k] \in FrameOf(stack[k].op)
      <3>1. FrameOK(stack[k], Len(table))
        BY <2>1, <2>2 DEF IInv, StackOK
      <3>2. stack[k] \in AnyFrame /\ SubjectOK(stack[k])
        BY <3>1 DEF FrameOK
      <3>3. stack[k].op \in Ops
        BY <3>2 DEF AnyFrame
      <3>4. stack[k].got \in Seq(Nat \cup {Invalid})
        BY <3>2 DEF AnyFrame, Values
      <3>5. ASSUME NEW S, stack[k].subject \in S
            PROVE  stack[k] \in Frame(stack[k].op, S)
        BY <3>2, <3>4, <3>5 DEF AnyFrame, Frame
      <3>6. stack[k] \in FrameOf(stack[k].op)
        BY <3>2, <3>3, <3>5 DEF SubjectOK, Ops, FrameOf
      <3> QED BY <3>3, <3>6
    <2> QED BY <2>1, <2>2 DEF TypeOK, IInv, TableOK
  <1> QED BY <1>1, Invariant, PTL

(***************************************************************************)
(* IdentityIsEquality: seki_type_intern gives one identifier to one type,  *)
(* and a Decision's identifiers are older than its own, so identity of     *)
(* types is equality of identifiers for every module.                      *)
(***************************************************************************)
THEOREM IdentityCorrect == Spec => []IdentityIsEquality
  <1>1. IInv => IdentityIsEquality
    BY DEF IInv, TableOK, EntryOK, IdentityIsEquality
  <1> QED BY <1>1, Invariant, PTL
=============================================================================
