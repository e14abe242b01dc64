--------------------------- MODULE TypeLayoutProofs ---------------------------
(***************************************************************************)
(* The layout is correct for every number of declarations and every module *)
(* the parser and the checker let through.                                 *)
(*                                                                         *)
(* The sort keeps the table a permutation with a sorted prefix; while an   *)
(* element is out, that holds of the table with the element put back into  *)
(* the hole.  The order keeps the greedy choice of every step made so far, *)
(* in terms of the positions placed before that step.                      *)
(***************************************************************************)
EXTENDS TypeLayout, FiniteSetTheorems, NaturalsInduction,
        WellFoundedInduction, TLAPS

\* The table with the element that is out put into the hole.
Filled == [type_order EXCEPT ![position] = candidate]

\* t lists every declaration, each once.
Permutes(t) ==
  /\ t \in [Index -> Index]
  /\ \A i, j \in Index : t[i] = t[j] => i = j
  /\ \A d \in Index : \E c \in Index : t[c] = d

NameAt(t, i) == module[t[i]].name

\* The first n entries of t are in strict name order.
SortedTo(t, n) ==
  \A i, j \in Index : (i < j /\ j < n) => NameAt(t, i) < NameAt(t, j)

\* While an element is out: sorted but for the hole, and everything behind
\* the hole comes after the element.
SortedButHole(t, n, hole) ==
  /\ \A i, j \in Index : (i < j /\ j <= n /\ i # hole /\ j # hole) =>
       NameAt(t, i) < NameAt(t, j)
  /\ \A j \in Index : (hole < j /\ j <= n) => NameAt(t, hole) < NameAt(t, j)

SortInv ==
  /\ phase = "sort" => /\ 0 < index
                       /\ Permutes(type_order)
                       /\ SortedTo(type_order, index)
  /\ phase = "shift" => /\ index < Count
                        /\ position <= index
                        /\ Permutes(Filled)
                        /\ SortedButHole(Filled, index, position)
  /\ phase \in {"position", "order", "done", "cycle"} =>
       /\ Permutes(type_order)
       /\ SortedTo(type_order, Count)

PositionInv ==
  /\ phase = "position" =>
       \A i \in Index : i < index => type_position[type_order[i]] = i
  /\ phase \in {"order", "done", "cycle"} =>
       \A i \in Index : type_position[type_order[i]] = i

\* Position c could be chosen at step i.
Choosable(c, i) == /\ c \notin Before(i)
                   /\ dependencies(c) \subseteq Before(i)

\* Step i made the greedy choice.
Greedy(i) == /\ Choosable(dependency_order[i], i)
             /\ \A c \in Index : c < dependency_order[i] => ~Choosable(c, i)

OrderInv ==
  /\ phase \in {"sort", "shift", "position"} => placed = {}
  /\ phase \in {"order", "done", "cycle"} =>
       /\ IsFiniteSet(placed)
       /\ Cardinality(placed) = index
       /\ placed = Before(index)
       /\ \A i \in Index : i < index => Greedy(i)
  /\ phase = "done" => index = Count
  /\ phase = "cycle" => /\ index < Count
                        /\ \A c \in Index : ~Ready(c)

IInv == /\ module \in Modules
        /\ TypeOK
        /\ SortInv
        /\ PositionInv
        /\ OrderInv

-----------------------------------------------------------------------------
LEMMA CountType == Count \in Nat /\ Count > 0 /\ Index = 0..(Count - 1)
  BY CountAssumption DEF Index

\* Two declarations of one module never share a name.
LEMMA NamesDiffer ==
  ASSUME NEW m \in Modules
  PROVE  /\ m \in [Index -> Declaration]
         /\ \A i \in Index : m[i].name \in Nat
         /\ \A i, j \in Index : m[i].name = m[j].name => i = j
         /\ Formed(m)
<1>1. /\ m \in [Index -> Declaration]
      /\ \A i, j \in Index : m[i].name = m[j].name => i = j
      /\ Formed(m)
  BY ModulesAssumption
<1>2. ASSUME NEW i \in Index PROVE m[i].name \in Nat
  <2>1. m[i] \in Declaration
    BY <1>1
  <2>. QED  BY <2>1 DEF Declaration
<1>. QED  BY <1>1, <1>2

LEMMA IndexFinite == IsFiniteSet(Index) /\ Cardinality(Index) = Count
<1>1. IsFiniteSet(0..(Count - 1)) /\ Cardinality(0..(Count - 1)) = Count
  <2>1. 0 \in Int /\ Count - 1 \in Int /\ ~(0 > Count - 1)
    BY CountType
  <2>2. IsFiniteSet(0..(Count - 1))
    BY FS_Interval, <2>1
  <2>3. Cardinality(0..(Count - 1)) = (Count - 1) - 0 + 1
    BY FS_Interval, <2>1, Zenon
  <2>. QED  BY <2>2, <2>3, CountType
<1>. QED  BY <1>1 DEF Index

\* Moving the hole one place down: the table with the element put back has
\* two neighbouring entries exchanged.
LEMMA SwapPermutes ==
  ASSUME NEW t, Permutes(t), NEW p \in Index, NEW q \in Index,
         NEW u, u = [t EXCEPT ![p] = t[q], ![q] = t[p]]
  PROVE  Permutes(u)
<1>1. /\ t \in [Index -> Index]
      /\ \A i, j \in Index : t[i] = t[j] => i = j
      /\ \A d \in Index : \E c \in Index : t[c] = d
  BY DEF Permutes
<1>2. u \in [Index -> Index]
  BY <1>1
<1>3. \A i \in Index : u[i] = IF i = q THEN t[p] ELSE IF i = p THEN t[q] ELSE t[i]
  BY <1>1
<1>4. \A i, j \in Index : u[i] = u[j] => i = j
  BY <1>1, <1>3
<1>5. ASSUME NEW d \in Index PROVE \E c \in Index : u[c] = d
  <2>1. PICK c \in Index : t[c] = d
    BY <1>1
  <2>2. CASE c = p
    <3>1. u[q] = d
      BY <2>1, <2>2, <1>3
    <3>. QED  BY <3>1
  <2>3. CASE c = q
    <3>1. u[p] = d
      BY <2>1, <2>3, <1>3
    <3>. QED  BY <3>1
  <2>4. CASE c # p /\ c # q
    <3>1. u[c] = d
      BY <2>1, <2>4, <1>3
    <3>. QED  BY <3>1
  <2>. QED  BY <2>2, <2>3, <2>4
<1>. QED  BY <1>2, <1>4, <1>5 DEF Permutes

-----------------------------------------------------------------------------
(***************************************************************************)
(* Every variable of the layout keeps its type: no loop index leaves its   *)
(* array (sort_by_name to build_dependency_order).                         *)
(***************************************************************************)
LEMMA InitType == Init => TypeOK
<1> SUFFICES ASSUME Init PROVE TypeOK
  OBVIOUS
<1>1. module \in [Index -> Declaration]
  BY NamesDiffer DEF Init
<1>2. 0 \in Index /\ 1 \in 0..Count
  BY CountType
<1>3. placed \in SUBSET Index
  BY DEF Init
<1>. QED  BY <1>1, <1>2, <1>3 DEF Init, TypeOK

LEMMA StepType ==
  ASSUME TypeOK, SortInv, Next
  PROVE  TypeOK'
<1>1. 0 \in 0..Count
  BY CountType
<1>2. index < Count => index \in Index /\ index + 1 \in 0..Count
  BY CountType DEF TypeOK
<1>3. position > 0 => position - 1 \in Index
  BY CountType DEF TypeOK
<1>4. CASE Take
  <2>1. index \in Index
    BY <1>4, <1>2 DEF Take
  <2>. QED  BY <1>4, <2>1 DEF Take, TypeOK
<1>5. CASE Shift
  <2>1. position - 1 \in Index
    BY <1>5, <1>3 DEF Shift
  <2>. QED  BY <1>5, <2>1 DEF Shift, TypeOK
<1>6. CASE Drop
  <2>1. index + 1 \in 0..Count
    BY <1>6, <1>2 DEF Drop, SortInv
  <2>. QED  BY <1>6, <2>1 DEF Drop, TypeOK
<1>7. CASE Sorted
  BY <1>7, <1>1 DEF Sorted, TypeOK
<1>8. CASE Position
  <2>1. index \in Index /\ index + 1 \in 0..Count
    BY <1>8, <1>2 DEF Position
  <2>. QED  BY <1>8, <2>1 DEF Position, TypeOK
<1>9. CASE Positioned
  BY <1>9, <1>1 DEF Positioned, TypeOK
<1>10. CASE Place
  <2>1. index \in Index /\ index + 1 \in 0..Count
    BY <1>10, <1>2 DEF Place
  <2>2. PICK c \in Index :
          /\ dependency_order' = [dependency_order EXCEPT ![index] = c]
          /\ placed' = placed \cup {c}
    BY <1>10 DEF Place
  <2>3. dependency_order' \in [Index -> Index] /\ placed' \in SUBSET Index
    BY <2>1, <2>2 DEF TypeOK
  <2>. QED  BY <1>10, <2>1, <2>3 DEF Place, TypeOK
<1>11. CASE Cycle
  BY <1>11 DEF Cycle, TypeOK
<1>12. CASE Ordered
  BY <1>12 DEF Ordered, TypeOK
<1>. QED
  BY <1>4, <1>5, <1>6, <1>7, <1>8, <1>9, <1>10, <1>11, <1>12 DEF Next

-----------------------------------------------------------------------------
(***************************************************************************)
(* The sort.                                                               *)
(***************************************************************************)
LEMMA InitSort == Init => SortInv
<1> SUFFICES ASSUME Init PROVE SortInv
  OBVIOUS
<1>1. type_order = [i \in Index |-> i] /\ index = 1 /\ phase = "sort"
  BY DEF Init
<1>2. Permutes(type_order)
  BY <1>1 DEF Permutes
<1>3. SortedTo(type_order, index)
  BY <1>1, CountType DEF SortedTo
<1>. QED  BY <1>1, <1>2, <1>3 DEF SortInv

LEMMA StepTake ==
  ASSUME TypeOK, SortInv, Take
  PROVE  SortInv'
<1>1. /\ phase = "sort" /\ phase' = "shift"
      /\ index < Count /\ index' = index
      /\ candidate' = type_order[index] /\ position' = index
      /\ type_order' = type_order /\ module' = module
  BY DEF Take
<1>2. /\ index \in Index /\ Permutes(type_order) /\ SortedTo(type_order, index)
  BY <1>1, CountType DEF SortInv, TypeOK
<1>3. Filled' = type_order
  BY <1>1, <1>2 DEF Filled, Permutes
<1>4. Permutes(Filled')
  BY <1>2, <1>3
<1>5. SortedButHole(type_order, index, index)
  BY <1>2, CountType DEF SortedButHole, SortedTo, NameAt
<1>6. SortedButHole(Filled, index, position)'
  BY <1>1, <1>3, <1>5 DEF SortedButHole, NameAt
<1>7. Permutes(Filled)'
  BY <1>4 DEF Permutes
<1>8. position' <= index'
  BY <1>1, <1>2, CountType
<1>. QED  BY <1>1, <1>6, <1>7, <1>8 DEF SortInv

LEMMA StepShift ==
  ASSUME TypeOK, module \in Modules, SortInv, Shift
  PROVE  SortInv'
<1> DEFINE p == position
           q == position - 1
<1>1. /\ phase = "shift" /\ phase' = "shift"
      /\ index < Count /\ index' = index /\ p <= index /\ p > 0
      /\ candidate' = candidate /\ position' = q
      /\ type_order' = [type_order EXCEPT ![p] = type_order[q]]
      /\ module' = module
      /\ module[candidate].name < module[type_order[q]].name
  BY DEF Shift, SortInv, name_precedes
<1>2. /\ p \in Index /\ q \in Index /\ p \in Nat /\ q = p - 1 /\ q < p
      /\ index \in Nat
      /\ type_order \in [Index -> Index] /\ candidate \in Index
  <2>1. /\ position \in Index /\ index \in 0..Count
        /\ type_order \in [Index -> Index] /\ candidate \in Index
    BY DEF TypeOK
  <2>2. position \in 0..(Count - 1) /\ position > 0 /\ Count \in Nat
    BY <1>1, <2>1, CountType
  <2>3. position \in Nat /\ position - 1 \in 0..(Count - 1) /\ position - 1 < position
    BY <2>2
  <2>4. q \in Index /\ index \in Nat
    BY <2>1, <2>3, CountType
  <2>. QED  BY <2>1, <2>3, <2>4
<1>3. Filled = [type_order EXCEPT ![p] = candidate]
  BY DEF Filled
<1>4. Filled' = [Filled EXCEPT ![p] = Filled[q], ![q] = Filled[p]]
  <2>1. Filled' = [[type_order EXCEPT ![p] = type_order[q]] EXCEPT ![q] = candidate]
    BY <1>1 DEF Filled
  <2>2. Filled[q] = type_order[q] /\ Filled[p] = candidate
    BY <1>2, <1>3
  <2>. QED  BY <1>2, <1>3, <2>1, <2>2
<1>5. Permutes(Filled) /\ SortedButHole(Filled, index, p)
  BY <1>1 DEF SortInv
<1> HIDE DEF p, q
<1>6. Permutes(Filled')
  BY <1>2, <1>4, <1>5, SwapPermutes
<1>7. /\ \A i \in Index : i # p /\ i # q => Filled'[i] = Filled[i]
      /\ Filled'[p] = Filled[q] /\ Filled'[q] = Filled[p]
      /\ Filled[q] = type_order[q] /\ Filled[p] = candidate
  BY <1>2, <1>3, <1>4, <1>5 DEF Permutes
<1>8. \A i \in Index : NameAt(Filled, i) \in Nat
  BY <1>5, NamesDiffer DEF Permutes, NameAt
<1>9. NameAt(Filled, p) < NameAt(Filled, q)
  BY <1>1, <1>7 DEF NameAt
<1>10. SortedButHole(Filled', index, q)
  <2>1. ASSUME NEW i \in Index, NEW j \in Index, i < j, j <= index, i # q, j # q
        PROVE  NameAt(Filled', i) < NameAt(Filled', j)
    <3>1. CASE i # p /\ j # p
      <4>1. NameAt(Filled', i) = NameAt(Filled, i) /\ NameAt(Filled', j) = NameAt(Filled, j)
        BY <1>7, <2>1, <3>1 DEF NameAt
      <4>. QED  BY <1>5, <2>1, <3>1, <4>1 DEF SortedButHole
    <3>2. CASE j = p
      <4>1. NameAt(Filled', j) = NameAt(Filled, q) /\ NameAt(Filled', i) = NameAt(Filled, i)
        BY <1>7, <2>1, <3>2, CountType DEF NameAt
      <4>2. i < q /\ q <= index /\ i # p /\ q # p
        BY <1>1, <1>2, <2>1, <3>2, CountType
      <4>. QED  BY <1>2, <1>5, <4>1, <4>2 DEF SortedButHole
    <3>3. CASE i = p
      <4>1. NameAt(Filled', i) = NameAt(Filled, q) /\ NameAt(Filled', j) = NameAt(Filled, j)
        BY <1>7, <2>1, <3>3, CountType DEF NameAt
      <4>2. q < j /\ j # p /\ q # p
        BY <1>2, <2>1, <3>3, CountType
      <4>. QED  BY <1>2, <1>5, <2>1, <4>1, <4>2 DEF SortedButHole
    <3>. QED  BY <3>1, <3>2, <3>3
  <2>2. ASSUME NEW j \in Index, q < j, j <= index
        PROVE  NameAt(Filled', q) < NameAt(Filled', j)
    <3>1. NameAt(Filled', q) = NameAt(Filled, p)
      BY <1>7 DEF NameAt
    <3>2. CASE j = p
      <4>1. NameAt(Filled', j) = NameAt(Filled, q)
        BY <1>7, <3>2 DEF NameAt
      <4>. QED  BY <1>9, <3>1, <4>1
    <3>3. CASE j # p
      <4>1. NameAt(Filled', j) = NameAt(Filled, j)
        <5>1. j # q
          BY <1>2, <2>2, CountType
        <5>. QED  BY <1>7, <3>3, <5>1 DEF NameAt
      <4>2. p < j
        BY <1>2, <2>2, <3>3, CountType
      <4>. QED  BY <1>5, <2>2, <3>1, <4>1, <4>2 DEF SortedButHole
    <3>. QED  BY <3>2, <3>3
  <2>. QED  BY <2>1, <2>2 DEF SortedButHole
<1>11. SortedButHole(Filled, index, position)' /\ Permutes(Filled)'
  BY <1>1, <1>6, <1>10 DEF SortedButHole, NameAt, Permutes
<1>12. position' <= index'
  BY <1>1, <1>2
<1>. QED  BY <1>1, <1>11, <1>12 DEF SortInv

LEMMA StepDrop ==
  ASSUME TypeOK, module \in Modules, SortInv, Drop
  PROVE  SortInv'
<1>1. /\ phase = "shift" /\ phase' = "sort"
      /\ index < Count /\ index' = index + 1 /\ position <= index
      /\ type_order' = Filled /\ module' = module
      /\ position > 0 =>
           ~(module[candidate].name < module[type_order[position - 1]].name)
  BY DEF Drop, SortInv, name_precedes, Filled
<1>2. /\ position \in Index /\ position \in Nat /\ index \in Nat
      /\ type_order \in [Index -> Index] /\ candidate \in Index
  <2>1. /\ position \in Index /\ index \in 0..Count
        /\ type_order \in [Index -> Index] /\ candidate \in Index
    BY DEF TypeOK
  <2>. QED  BY <2>1, CountType
<1>3. Permutes(Filled) /\ SortedButHole(Filled, index, position)
  BY <1>1 DEF SortInv
<1>4. \A i \in Index : NameAt(Filled, i) \in Nat
  BY <1>3, NamesDiffer DEF Permutes, NameAt
<1>5. ASSUME NEW i \in Index, i < position
      PROVE  NameAt(Filled, i) < NameAt(Filled, position)
  <2> DEFINE q == position - 1
  <2>1. q \in Index /\ q # position /\ i <= q /\ i \in Nat
    BY <1>2, <1>5, CountType
  <2>2. Filled[q] = type_order[q] /\ Filled[position] = candidate
    BY <1>2, <2>1 DEF Filled
  <2>3. ~(NameAt(Filled, position) < NameAt(Filled, q))
    BY <1>1, <1>2, <1>5, <2>1, <2>2, CountType DEF NameAt
  <2>4. NameAt(Filled, position) # NameAt(Filled, q)
    <3>1. /\ Filled[position] \in Index /\ Filled[q] \in Index
          /\ Filled[position] # Filled[q]
      BY <1>2, <1>3, <2>1 DEF Permutes
    <3>. QED  BY <3>1, NamesDiffer DEF NameAt
  <2>5. NameAt(Filled, q) < NameAt(Filled, position)
    BY <1>2, <1>4, <2>1, <2>3, <2>4
  <2>6. CASE i = q
    BY <2>5, <2>6
  <2>7. CASE i # q
    <3>1. i < q /\ q <= index /\ i # position
      BY <1>1, <1>2, <2>1, <2>7, CountType
    <3>2. NameAt(Filled, i) < NameAt(Filled, q)
      BY <1>3, <2>1, <3>1 DEF SortedButHole
    <3>. QED  BY <1>2, <1>4, <2>1, <2>5, <3>2
  <2>. QED  BY <2>6, <2>7
<1>6. SortedTo(Filled, index + 1)
  <2> SUFFICES ASSUME NEW i \in Index, NEW j \in Index, i < j, j < index + 1
               PROVE  NameAt(Filled, i) < NameAt(Filled, j)
    BY DEF SortedTo
  <2>1. j <= index
    BY <1>2, CountType
  <2>2. CASE j = position
    BY <1>5, <2>2
  <2>3. CASE i = position
    BY <1>3, <2>1, <2>3 DEF SortedButHole
  <2>4. CASE i # position /\ j # position
    BY <1>3, <2>1, <2>4 DEF SortedButHole
  <2>. QED  BY <2>2, <2>3, <2>4
<1>7. Permutes(type_order)' /\ SortedTo(type_order, index)'
  BY <1>1, <1>3, <1>6 DEF Permutes, SortedTo, NameAt
<1>8. 0 < index'
  BY <1>1, <1>2
<1>. QED  BY <1>1, <1>7, <1>8 DEF SortInv

LEMMA StepSort ==
  ASSUME TypeOK, module \in Modules, SortInv, Next
  PROVE  SortInv'
<1>1. CASE Take
  BY <1>1, StepTake
<1>2. CASE Shift
  BY <1>2, StepShift
<1>3. CASE Drop
  BY <1>3, StepDrop
<1>4. CASE Sorted
  BY <1>4 DEF Sorted, SortInv, Permutes, SortedTo, NameAt
<1>5. ASSUME Position \/ Positioned \/ Place \/ Cycle \/ Ordered
      PROVE  SortInv'
  <2>1. /\ type_order' = type_order /\ module' = module
        /\ phase \in {"position", "order", "done", "cycle"}
        /\ phase' \in {"position", "order", "done", "cycle"}
    BY <1>5 DEF Position, Positioned, Place, Cycle, Ordered
  <2>2. Permutes(type_order)' /\ SortedTo(type_order, Count)'
    BY <2>1 DEF SortInv, Permutes, SortedTo, NameAt
  <2>. QED  BY <2>1, <2>2 DEF SortInv
<1>. QED  BY <1>1, <1>2, <1>3, <1>4, <1>5 DEF Next

-----------------------------------------------------------------------------
(***************************************************************************)
(* The inverse.                                                            *)
(***************************************************************************)
LEMMA StepPosition ==
  ASSUME TypeOK, module \in Modules, SortInv, PositionInv, Next
  PROVE  PositionInv'
<1>1. CASE Take \/ Shift \/ Drop
  BY <1>1 DEF Take, Shift, Drop, PositionInv
<1>2. CASE Sorted
  <2>1. index' = 0 /\ phase' = "position"
    BY <1>2 DEF Sorted
  <2>2. \A i \in Index : ~(i < index')
    BY <2>1, CountType
  <2>. QED  BY <2>1, <2>2 DEF PositionInv
<1>3. CASE Position
  <2>1. /\ phase = "position" /\ phase' = "position"
        /\ index < Count /\ index' = index + 1 /\ type_order' = type_order
        /\ type_position' = [type_position EXCEPT ![type_order[index]] = index]
    BY <1>3 DEF Position
  <2>2. /\ index \in Index /\ index \in Nat /\ type_position \in [Index -> Index]
    <3>1. index \in 0..Count /\ type_position \in [Index -> Index]
      BY DEF TypeOK
    <3>. QED  BY <2>1, <3>1, CountType
  <2>3. /\ type_order \in [Index -> Index]
        /\ \A i, j \in Index : type_order[i] = type_order[j] => i = j
        /\ \A i \in Index : i < index => type_position[type_order[i]] = i
    BY <2>1 DEF SortInv, Permutes, PositionInv
  <2>4. ASSUME NEW i \in Index, i < index'
        PROVE  type_position'[type_order'[i]] = i
    <3>1. CASE i = index
      BY <2>1, <2>2, <2>3, <3>1
    <3>2. CASE i # index
      <4>1. i < index
        BY <2>1, <2>2, <2>4, <3>2, CountType
      <4>2. type_order[i] # type_order[index]
        BY <2>2, <2>3, <3>2
      <4>. QED  BY <2>1, <2>2, <2>3, <4>1, <4>2
    <3>. QED  BY <3>1, <3>2
  <2>. QED  BY <2>1, <2>4 DEF PositionInv
<1>4. CASE Positioned
  <2>1. /\ phase = "position" /\ index = Count /\ phase' = "order"
        /\ type_order' = type_order /\ type_position' = type_position
    BY <1>4 DEF Positioned
  <2>2. \A i \in Index : i < Count
    BY CountType
  <2>. QED  BY <2>1, <2>2 DEF PositionInv
<1>5. CASE Place \/ Cycle \/ Ordered
  BY <1>5 DEF Place, Cycle, Ordered, PositionInv
<1>. QED  BY <1>1, <1>2, <1>3, <1>4, <1>5 DEF Next

-----------------------------------------------------------------------------
(***************************************************************************)
(* The order.                                                              *)
(***************************************************************************)
\* A step that keeps the tables and the first n entries of the order keeps
\* what was placed before each of them, and so the choices made.
LEMMA ChoicesStay ==
  ASSUME NEW n \in Nat,
         module' = module, type_order' = type_order,
         type_position' = type_position,
         \A j \in Index : j < n => dependency_order'[j] = dependency_order[j]
  PROVE  /\ \A i \in 0..n : Before(i)' = Before(i)
         /\ \A c : dependencies(c)' = dependencies(c)
         /\ \A i \in Index : (i < n /\ Greedy(i)) => Greedy(i)'
<1>1. ASSUME NEW i \in 0..n PROVE Before(i)' = Before(i)
  <2>1. \A k \in Index : k < i => k < n
    BY CountType
  <2>2. \A k \in {l \in Index : l < i} : dependency_order'[k] = dependency_order[k]
    BY <2>1
  <2>. QED  BY <2>2 DEF Before
<1>2. ASSUME NEW c PROVE dependencies(c)' = dependencies(c)
  BY DEF dependencies
<1>3. ASSUME NEW i \in Index, i < n, Greedy(i) PROVE Greedy(i)'
  <2>1. i \in 0..n
    BY <1>3, CountType
  <2>2. Before(i)' = Before(i) /\ dependency_order'[i] = dependency_order[i]
    BY <1>1, <1>3, <2>1
  <2>3. ASSUME NEW c PROVE Choosable(c, i)' <=> Choosable(c, i)
    BY <1>2, <2>2 DEF Choosable
  <2>. QED  BY <1>3, <2>2, <2>3 DEF Greedy
<1>. QED  BY <1>1, <1>2, <1>3

LEMMA StepPlace ==
  ASSUME TypeOK, OrderInv, Place
  PROVE  OrderInv'
<1>1. PICK c \in Index :
        /\ Ready(c)
        /\ \A b \in Index : b < c => ~Ready(b)
        /\ dependency_order' = [dependency_order EXCEPT ![index] = c]
        /\ placed' = placed \cup {c}
  BY DEF Place
<1>2. PICK n \in Nat : n = index
  BY CountType DEF TypeOK
<1>3. /\ phase = "order" /\ phase' = "order"
      /\ n < Count /\ index' = n + 1
      /\ module' = module /\ type_order' = type_order
      /\ type_position' = type_position
  BY <1>2 DEF Place
<1>4. n \in Index /\ dependency_order \in [Index -> Index]
  <2>1. n \in Index
    BY <1>3, CountType
  <2>. QED  BY <2>1 DEF TypeOK
<1>5. /\ IsFiniteSet(placed) /\ Cardinality(placed) = n
      /\ placed = Before(n)
      /\ \A i \in Index : i < n => Greedy(i)
  BY <1>2, <1>3 DEF OrderInv
<1>6. /\ \A j \in Index : j < n => dependency_order'[j] = dependency_order[j]
      /\ dependency_order'[n] = c
  BY <1>1, <1>2, <1>4, CountType
<1>7. /\ \A i \in 0..n : Before(i)' = Before(i)
      /\ \A d : dependencies(d)' = dependencies(d)
      /\ \A i \in Index : (i < n /\ Greedy(i)) => Greedy(i)'
  BY <1>3, <1>6, ChoicesStay
<1>8. Before(n)' = placed
  <2>1. n \in 0..n
    OBVIOUS
  <2>. QED  BY <1>5, <1>7, <2>1
<1>9. IsFiniteSet(placed') /\ Cardinality(placed') = n + 1
  <2>1. c \notin placed
    BY <1>1 DEF Ready
  <2>. QED  BY <1>1, <1>5, <2>1, FS_AddElement
<1>10. placed' = Before(n + 1)'
  <2>1. {k \in Index : k < n + 1} = {k \in Index : k < n} \cup {n}
    BY <1>4, CountType
  <2>2. Before(n + 1)' = Before(n)' \cup {c}
    BY <1>6, <2>1 DEF Before
  <2>. QED  BY <1>1, <1>8, <2>2
<1>11. ASSUME NEW i \in Index, i < n + 1 PROVE Greedy(i)'
  <2>1. CASE i < n
    BY <1>5, <1>7, <2>1
  <2>2. CASE i = n
    <3>1. ASSUME NEW d PROVE Choosable(d, n)' <=> Ready(d)
      BY <1>7, <1>8 DEF Choosable, Ready
    <3>. QED  BY <1>1, <1>6, <2>2, <3>1 DEF Greedy
  <2>3. i < n \/ i = n
    BY <1>11, CountType
  <2>. QED  BY <2>1, <2>2, <2>3
<1>12. (placed = Before(index))'
  BY <1>3, <1>10 DEF Before
<1>13. \A i \in Index : i < index' => Greedy(i)'
  BY <1>3, <1>11
<1>. QED  BY <1>3, <1>9, <1>12, <1>13 DEF OrderInv

LEMMA StepOrder ==
  ASSUME TypeOK, OrderInv, Next
  PROVE  OrderInv'
<1>1. CASE Take \/ Shift \/ Drop \/ Sorted \/ Position
  <2>1. /\ phase \in {"sort", "shift", "position"}
        /\ phase' \in {"sort", "shift", "position"} /\ placed' = placed
    BY <1>1 DEF Take, Shift, Drop, Sorted, Position
  <2>. QED  BY <2>1 DEF OrderInv
<1>2. CASE Positioned
  <2>1. phase = "position" /\ phase' = "order" /\ placed' = placed /\ index' = 0
    BY <1>2 DEF Positioned
  <2>2. placed' = {}
    BY <2>1 DEF OrderInv
  <2>3. \A i \in Index : ~(i < index')
    BY <2>1, CountType
  <2>4. (placed = Before(index))'
    BY <2>2, <2>3 DEF Before
  <2>5. IsFiniteSet(placed') /\ Cardinality(placed') = index'
    BY <2>1, <2>2, FS_EmptySet
  <2>. QED  BY <2>1, <2>3, <2>4, <2>5 DEF OrderInv
<1>3. CASE Place
  BY <1>3, StepPlace
<1>4. ASSUME Cycle \/ Ordered
      PROVE  OrderInv'
  <2>1. /\ module' = module /\ type_order' = type_order
        /\ type_position' = type_position /\ index' = index
        /\ dependency_order' = dependency_order /\ placed' = placed
        /\ phase = "order" /\ phase' \in {"done", "cycle"}
        /\ phase' = "done" => index = Count
        /\ phase' = "cycle" => index < Count /\ \A c \in Index : ~Ready(c)
    BY <1>4 DEF Cycle, Ordered
  <2>2. index \in Nat
    BY CountType DEF TypeOK
  <2>3. \A i \in Index : (i < index /\ Greedy(i)) => Greedy(i)'
    BY <2>1, <2>2, ChoicesStay
  <2>4. (Before(index))' = Before(index)
    BY <2>1 DEF Before
  <2>5. ASSUME NEW c PROVE Ready(c)' <=> Ready(c)
    BY <2>1 DEF Ready, dependencies
  <2>6. /\ IsFiniteSet(placed) /\ Cardinality(placed) = index
        /\ placed = Before(index)
        /\ \A i \in Index : i < index => Greedy(i)
    BY <2>1 DEF OrderInv
  <2>7. /\ IsFiniteSet(placed') /\ Cardinality(placed') = index'
        /\ (placed = Before(index))'
        /\ \A i \in Index : i < index' => Greedy(i)'
    BY <2>1, <2>3, <2>4, <2>6
  <2>8. phase' = "cycle" => \A c \in Index : ~Ready(c)'
    BY <2>1, <2>5
  <2>. QED  BY <2>1, <2>7, <2>8 DEF OrderInv
<1>. QED  BY <1>1, <1>2, <1>3, <1>4 DEF Next

-----------------------------------------------------------------------------
LEMMA InitInv == Init => IInv
<1> SUFFICES ASSUME Init PROVE IInv
  OBVIOUS
<1>1. PositionInv /\ OrderInv /\ module \in Modules
  BY DEF Init, PositionInv, OrderInv
<1>. QED  BY <1>1, InitType, InitSort DEF IInv

LEMMA StepInv == IInv /\ [Next]_vars => IInv'
<1> SUFFICES ASSUME IInv, [Next]_vars PROVE IInv'
  OBVIOUS
<1>1. CASE Next
  <2>1. module' = module
    BY <1>1 DEF Next, Take, Shift, Drop, Sorted, Position, Positioned, Place,
                Cycle, Ordered
  <2>. QED  BY <1>1, <2>1, StepType, StepSort, StepPosition, StepOrder DEF IInv
<1>2. CASE UNCHANGED vars
  <2>1. TypeOK' /\ module' \in Modules
    BY <1>2 DEF vars, IInv, TypeOK
  <2>2. SortInv'
    BY <1>2 DEF vars, IInv, SortInv, Permutes, SortedTo, SortedButHole, NameAt,
                Filled
  <2>3. PositionInv'
    BY <1>2 DEF vars, IInv, PositionInv
  <2>4. OrderInv'
    <3>1. ASSUME NEW i PROVE Before(i)' = Before(i)
      BY <1>2 DEF vars, Before
    <3>2. ASSUME NEW c PROVE dependencies(c)' = dependencies(c)
      BY <1>2 DEF vars, dependencies
    <3>3. ASSUME NEW i PROVE Greedy(i)' <=> Greedy(i)
      BY <1>2, <3>1, <3>2 DEF vars, Greedy, Choosable
    <3>4. ASSUME NEW c PROVE Ready(c)' <=> Ready(c)
      BY <1>2, <3>2 DEF vars, Ready
    <3>5. (placed = Before(index))' <=> placed = Before(index)
      BY <1>2 DEF vars, Before
    <3>. QED  BY <1>2, <3>3, <3>4, <3>5 DEF vars, IInv, OrderInv
  <2>. QED  BY <2>1, <2>2, <2>3, <2>4 DEF IInv
<1>. QED  BY <1>1, <1>2

LEMMA Invariance == Spec => []IInv
  BY InitInv, StepInv, PTL DEF Spec

(***************************************************************************)
(* Every variable of the layout keeps its type, for every number of        *)
(* declarations: no loop leaves its arrays.                                *)
(***************************************************************************)
THEOREM TypeCorrect == Spec => []TypeOK
<1>1. IInv => TypeOK
  BY DEF IInv
<1>. QED  BY <1>1, Invariance, PTL

(***************************************************************************)
(* sort_by_name and build_type_layout: from the moment it is used, the     *)
(* type table is in strict name order and type_position is its inverse.    *)
(***************************************************************************)
THEOREM TableCanonical == Spec => []TableIsCanonical
<1>1. IInv => TableIsCanonical
  <2> SUFFICES ASSUME IInv, phase \in {"order", "done", "cycle"}
               PROVE  /\ \A i, j \in Index : i < j =>
                           module[type_order[i]].name < module[type_order[j]].name
                      /\ \A d \in Index : type_order[type_position[d]] = d
                      /\ \A c \in Index : type_position[type_order[c]] = c
    BY DEF TableIsCanonical
  <2>1. Permutes(type_order) /\ SortedTo(type_order, Count)
    BY DEF IInv, SortInv
  <2>2. \A c \in Index : type_position[type_order[c]] = c
    BY DEF IInv, PositionInv
  <2>3. ASSUME NEW d \in Index PROVE type_order[type_position[d]] = d
    <3>1. PICK c \in Index : type_order[c] = d
      BY <2>1 DEF Permutes
    <3>. QED  BY <2>2, <3>1
  <2>4. \A j \in Index : j < Count
    BY CountType
  <2>. QED  BY <2>1, <2>2, <2>3, <2>4 DEF SortedTo, NameAt
<1>. QED  BY <1>1, Invariance, PTL

\* When every step of the order has been taken, everything is placed.
LEMMA AllPlaced ==
  ASSUME IInv, phase = "done"
  PROVE  /\ placed = Index
         /\ \A i \in Index : Greedy(i)
<1>1. Cardinality(placed) = Count /\ placed \in SUBSET Index
  BY DEF IInv, OrderInv, TypeOK
<1>2. placed = Index
  BY <1>1, IndexFinite, FS_Subset
<1>3. \A i \in Index : i < Count
  BY CountType
<1>. QED  BY <1>2, <1>3 DEF IInv, OrderInv

(***************************************************************************)
(* build_dependency_order: a finished order lists every declaration once,  *)
(* after everything its surface body names.                                *)
(***************************************************************************)
THEOREM OrderTopological == Spec => []OrderIsTopological
<1>1. IInv => OrderIsTopological
  <2> SUFFICES ASSUME IInv, phase = "done"
               PROVE  /\ {dependency_order[i] : i \in Index} = Index
                      /\ \A i \in Index :
                           dependencies(dependency_order[i]) \subseteq Before(i)
    BY DEF OrderIsTopological
  <2>1. Before(Count) = Index
    BY AllPlaced DEF IInv, OrderInv
  <2>2. {k \in Index : k < Count} = Index
    BY CountType
  <2>3. {dependency_order[i] : i \in Index} = Index
    BY <2>1, <2>2 DEF Before
  <2>. QED  BY <2>3, AllPlaced DEF Greedy, Choosable
<1>. QED  BY <1>1, Invariance, PTL

\* In a plain module the references that are emitted are the surface ones.
LEMMA PlainReferences ==
  ASSUME module \in Modules, Plain(module), type_order \in [Index -> Index],
         NEW c \in Index
  PROVE  localTypeDependencies(c) = dependencies(c)
<1> DEFINE names == module[type_order[c]].named
<1>1. Mentioned(module, type_order[c]) = names
  BY DEF Plain, Mentioned
<1>2. Resolved(module, names) = {e \in Index : module[e].name \in names}
  BY DEF Plain, Resolved
<1>3. \A T : T \in SUBSET Index => Closed(T)
  BY DEF Closed, Plain
<1>4. Referred(names) = Resolved(module, names)
  <2>1. Resolved(module, names) \in SUBSET Index
    BY DEF Resolved
  <2>2. Closed(Resolved(module, names))
    BY <1>3, <2>1
  <2>3. Referred(names) \subseteq Resolved(module, names)
    BY <2>1, <2>2 DEF Referred
  <2>4. Resolved(module, names) \subseteq Referred(names)
    BY <2>1 DEF Referred, Plain
  <2>. QED  BY <2>3, <2>4
<1>. QED  BY <1>1, <1>2, <1>4 DEF localTypeDependencies, dependencies

(***************************************************************************)
(* build_dependency_order against validateTypeOrder: the order written for *)
(* a plain module is the one admission recomputes.                         *)
(***************************************************************************)
THEOREM PlainAdmitted == Spec => []PlainOrderIsAdmitted
<1>1. IInv => PlainOrderIsAdmitted
  <2> SUFFICES ASSUME IInv, phase = "done", Plain(module) PROVE Admitted
    BY DEF PlainOrderIsAdmitted
  <2>1. \A c \in Index : localTypeDependencies(c) = dependencies(c)
    BY PlainReferences DEF IInv, TypeOK
  <2>2. \A i, c \in Index : Admissible(c, i) <=> Choosable(c, i)
    BY <2>1 DEF Admissible, Choosable
  <2>3. \A i \in Index : dependency_order[i] \in Index
    BY DEF IInv, TypeOK
  <2>. QED  BY <2>2, <2>3, AllPlaced DEF Admitted, Greedy
<1>. QED  BY <1>1, Invariance, PTL

(***************************************************************************)
(* A plain module that resolve_declarations has let through is never       *)
(* refused with A0-CORE-0004: the declarations left over would contain one *)
(* another in a ring.                                                      *)
(***************************************************************************)
THEOREM PlainNeverRecursive == Spec => []PlainIsNeverRecursive
<1>1. IInv => PlainIsNeverRecursive
  <2> SUFFICES ASSUME IInv, phase = "cycle", Plain(module) PROVE FALSE
    BY DEF PlainIsNeverRecursive
  <2>1. /\ type_order \in [Index -> Index]
        /\ type_position \in [Index -> Index]
        /\ \A i \in Index : type_position[type_order[i]] = i
        /\ \A d \in Index : \E c \in Index : type_order[c] = d
        /\ module \in Modules /\ placed \in SUBSET Index
        /\ Cardinality(placed) = index /\ index < Count
        /\ \A c \in Index : ~Ready(c)
    BY DEF IInv, TypeOK, SortInv, Permutes, PositionInv, OrderInv
  <2> DEFINE S == {d \in Index : type_position[d] \notin placed}
  <2>2. PICK c \in Index : c \notin placed
    <3>1. index # Count
      BY <2>1, CountType DEF IInv, TypeOK
    <3>2. placed # Index
      BY <2>1, <3>1, IndexFinite
    <3>. QED  BY <2>1, <3>2
  <2>3. type_order[c] \in S
    BY <2>1, <2>2
  <2>4. ASSUME NEW d \in S
        PROVE  Resolved(module, Mentioned(module, d)) \cap S # {}
    <3>1. PICK b \in Index : type_order[b] = d
      BY <2>1
    <3>2. type_position[d] = b /\ b \notin placed
      BY <2>1, <3>1
    <3>3. PICK e \in Index : /\ module[e].name \in module[d].named
                             /\ type_position[e] \notin placed
      BY <2>1, <3>1, <3>2 DEF Ready, dependencies
    <3>4. e \in Resolved(module, Mentioned(module, d))
      BY <3>3 DEF Resolved, Mentioned, Plain
    <3>. QED  BY <3>3, <3>4
  <2>5. Formed(module)
    BY <2>1, NamesDiffer
  <2>6. S \in (SUBSET Index) \ {{}}
    BY <2>3
  <2>. QED  BY <2>4, <2>5, <2>6 DEF Formed
<1>. QED  BY <1>1, Invariance, PTL

-----------------------------------------------------------------------------
(***************************************************************************)
(* The layout as a function of the declarations.  a is the type table, the *)
(* declaration at every canonical position, and o the order; neither says  *)
(* where a declaration was in the source.                                  *)
(***************************************************************************)
StrictlySorted(a) == \A i, j \in Index : i < j => a[i].name < a[j].name

\* The positions of the declarations that the body at position c names.
NamedAt(a, c) == {e \in Index : a[e].name \in a[c].named}

\* The first i entries of an order, and what may come after them.
Chosen(o, i) == {o[j] : j \in {k \in Index : k < i}}

Available(a, o, i) ==
  {c \in Index \ Chosen(o, i) : NamedAt(a, c) \subseteq Chosen(o, i)}

\* The first n entries are the lowest that could come there.
LowestFirst(a, o, n) ==
  \A i \in Index : i < n =>
    /\ o[i] \in Available(a, o, i)
    /\ \A c \in Available(a, o, i) : o[i] <= c

\* The canonical layout of the declarations of m, in whatever order m has them.
CanonicalLayout(m, a, o) ==
  /\ a \in [Index -> {m[d] : d \in Index}]
  /\ \A d \in Index : \E i \in Index : a[i] = m[d]
  /\ StrictlySorted(a)
  /\ o \in [Index -> Index]
  /\ LowestFirst(a, o, Count)

SameDeclarations(m, n) == {m[d] : d \in Index} = {n[d] : d \in Index}

\* Of the positions that are not as they should be there is a first.
LEMMA FirstOf ==
  ASSUME NEW S \in SUBSET Index, S # {}
  PROVE  \E i \in S : \A j \in Index : j < i => j \notin S
<1> DEFINE R == {pair \in Nat \X Nat : pair[1] < pair[2]}
<1>1. IsWellFoundedOn(R, Nat)
  BY NatLessThanWellFounded DEF OpToRel
<1>2. Index \subseteq Nat /\ S \subseteq Nat
  BY CountType
<1>3. PICK x : x \in S
  OBVIOUS
<1> HIDE DEF R
<1>4. PICK i \in S : \A k \in S : ~(<<k, i>> \in R)
  BY <1>1, <1>2, <1>3, WFMin
<1>5. \A k \in S : ~(k < i)
  BY <1>2, <1>4 DEF R
<1>6. QED
  BY <1>4, <1>5

\* Two tables in strict name order with the same declarations are the same: at
\* the first difference each would have a name that comes before the other's.
LEMMA TablesAgree ==
  ASSUME NEW a \in [Index -> Declaration], NEW b \in [Index -> Declaration],
         StrictlySorted(a), StrictlySorted(b),
         \A i \in Index : \E j \in Index : a[i] = b[j],
         \A j \in Index : \E i \in Index : b[j] = a[i]
  PROVE  a = b
<1> DEFINE S == {i \in Index : a[i] # b[i]}
<1>1. ASSUME S # {} PROVE FALSE
  <2>1. PICK i \in S : \A j \in Index : j < i => j \notin S
    <3>1. S \in SUBSET Index
      OBVIOUS
    <3> HIDE DEF S
    <3>2. QED
      BY <1>1, <3>1, FirstOf
  <2>2. i \in Index /\ a[i] # b[i] /\ \A j \in Index : j < i => a[j] = b[j]
    BY <2>1
  <2>3. \A j \in Index : a[j].name \in Nat /\ b[j].name \in Nat
    <3>1. \A d \in Declaration : d.name \in Nat
      BY DEF Declaration
    <3>2. \A j \in Index : a[j] \in Declaration /\ b[j] \in Declaration
      OBVIOUS
    <3>3. QED
      BY <3>1, <3>2
  <2>4. /\ \A j, k \in Index : j < k \/ j = k \/ k < j
        /\ \A x \in Nat : ~(x < x)
        /\ \A x, y \in Nat : x < y => ~(y < x)
    <3>1. \A x \in Nat : ~(x < x)
      OBVIOUS
    <3>2. \A x, y \in Nat : x < y => ~(y < x)
      OBVIOUS
    <3>3. \A j, k \in Index : j < k \/ j = k \/ k < j
      BY CountType
    <3>4. QED
      BY <3>1, <3>2, <3>3
  <2>5. PICK j \in Index : a[i] = b[j]
    BY <2>2
  <2>6. ~(j < i) /\ j # i
    <3>1. j < i => a[j] = a[i] /\ a[j].name < a[i].name
      BY <2>2, <2>5 DEF StrictlySorted
    <3>2. QED
      BY <2>2, <2>3, <2>5, <2>4, <3>1
  <2>7. b[i].name < a[i].name
    BY <2>2, <2>5, <2>6, <2>4 DEF StrictlySorted
  <2>8. PICK k \in Index : b[i] = a[k]
    BY <2>2
  <2>9. ~(k < i) /\ k # i
    <3>1. k < i => b[k] = b[i] /\ b[k].name < b[i].name
      BY <2>2, <2>8 DEF StrictlySorted
    <3>2. QED
      BY <2>2, <2>3, <2>8, <2>4, <3>1
  <2>10. a[i].name < b[i].name
    BY <2>2, <2>8, <2>9, <2>4 DEF StrictlySorted
  <2>11. PICK x \in Nat, y \in Nat : x = a[i].name /\ y = b[i].name
    BY <2>2, <2>3
  <2>12. QED
    BY <2>4, <2>7, <2>10, <2>11
<1>2. QED
  BY <1>1

\* A table leaves no choice of the order, nor of any number of its first steps.
LEMMA OrdersAgree ==
  ASSUME NEW a, NEW n \in Nat,
         NEW o \in [Index -> Index], NEW p \in [Index -> Index],
         LowestFirst(a, o, n), LowestFirst(a, p, n)
  PROVE  \A i \in Index : i < n => o[i] = p[i]
<1> DEFINE S == {i \in Index : i < n /\ o[i] # p[i]}
<1>1. ASSUME S # {} PROVE FALSE
  <2>1. PICK i \in S : \A j \in Index : j < i => j \notin S
    <3>1. S \in SUBSET Index
      OBVIOUS
    <3> HIDE DEF S
    <3>2. QED
      BY <1>1, <3>1, FirstOf
  <2>2. i \in Index /\ i < n /\ o[i] # p[i]
    BY <2>1
  <2>3. \A j \in Index : j < i => o[j] = p[j]
    BY <2>1, <2>2, CountType
  <2>4. Chosen(o, i) = Chosen(p, i)
    BY <2>3 DEF Chosen
  <2>5. Available(a, o, i) = Available(a, p, i)
    BY <2>4 DEF Available
  <2>6. /\ o[i] \in Available(a, o, i) /\ \A c \in Available(a, o, i) : o[i] <= c
        /\ p[i] \in Available(a, o, i) /\ \A c \in Available(a, o, i) : p[i] <= c
    BY <2>2, <2>5 DEF LowestFirst
  <2>7. o[i] <= p[i] /\ p[i] <= o[i] /\ o[i] \in Int /\ p[i] \in Int
    BY <2>2, <2>6, CountType
  <2>8. QED
    BY <2>2, <2>7
<1>2. QED
  BY <1>1

\* The table of the layout the emitter builds.
Table == [c \in Index |-> module[type_order[c]]]

LEMMA TableListed ==
  ASSUME IInv, phase \in {"order", "done", "cycle"}
  PROVE  /\ Table \in [Index -> {module[d] : d \in Index}]
         /\ \A d \in Index : \E i \in Index : Table[i] = module[d]
         /\ StrictlySorted(Table)
<1>1. Permutes(type_order) /\ SortedTo(type_order, Count)
  BY DEF IInv, SortInv
<1>2. \A i, j \in Index : i < j => NameAt(type_order, i) < NameAt(type_order, j)
  BY <1>1, CountType DEF SortedTo
<1>3. \A i \in Index : type_order[i] \in Index /\ Table[i] = module[type_order[i]]
  BY <1>1 DEF Permutes, Table
<1>4. StrictlySorted(Table)
  BY <1>2, <1>3 DEF StrictlySorted, NameAt
<1>5. Table \in [Index -> {module[d] : d \in Index}]
  BY <1>3 DEF Table
<1>6. \A d \in Index : \E i \in Index : Table[i] = module[d]
  BY <1>1, <1>3 DEF Permutes
<1>7. QED
  BY <1>4, <1>5, <1>6

\* What build_dependency_order looks up through type_position is what the table says.
LEMMA TableDepends ==
  ASSUME IInv, phase \in {"order", "done", "cycle"}, NEW c \in Index
  PROVE  dependencies(c) = NamedAt(Table, c)
<1>1. /\ Permutes(type_order) /\ type_position \in [Index -> Index]
      /\ \A i \in Index : type_position[type_order[i]] = i
  BY DEF IInv, SortInv, PositionInv, TypeOK
<1>2. \A i \in Index : type_order[i] \in Index /\ Table[i] = module[type_order[i]]
  BY <1>1 DEF Permutes, Table
<1>3. dependencies(c) \subseteq NamedAt(Table, c)
  <2>1. ASSUME NEW e \in Index, module[e].name \in module[type_order[c]].named
        PROVE  type_position[e] \in NamedAt(Table, c)
    <3>1. PICK i \in Index : type_order[i] = e
      BY <1>1 DEF Permutes
    <3>2. type_position[e] = i /\ Table[i].name \in Table[c].named
      BY <1>1, <1>2, <2>1, <3>1
    <3>3. QED
      BY <3>2 DEF NamedAt
  <2>2. QED
    BY <2>1 DEF dependencies
<1>4. NamedAt(Table, c) \subseteq dependencies(c)
  <2>1. ASSUME NEW i \in Index, Table[i].name \in Table[c].named
        PROVE  i \in dependencies(c)
    <3>1. /\ type_order[i] \in {e \in Index : module[e].name \in module[type_order[c]].named}
          /\ i = type_position[type_order[i]]
      BY <1>1, <1>2, <2>1
    <3>2. QED
      BY <3>1 DEF dependencies
  <2>2. QED
    BY <2>1 DEF NamedAt
<1>5. QED
  BY <1>3, <1>4

\* The steps taken so far are the lowest that were available.
LEMMA OrderLowest ==
  ASSUME IInv, phase \in {"order", "done", "cycle"}
  PROVE  /\ \A c, i \in Index : Choosable(c, i) <=> c \in Available(Table, dependency_order, i)
         /\ LowestFirst(Table, dependency_order, index)
<1>1. \A i : Before(i) = Chosen(dependency_order, i)
  BY DEF Before, Chosen
<1>2. ASSUME NEW c \in Index, NEW i \in Index
      PROVE  Choosable(c, i) <=> c \in Available(Table, dependency_order, i)
  BY <1>1, TableDepends DEF Choosable, Available
<1>3. ASSUME NEW i \in Index, i < index
      PROVE  /\ dependency_order[i] \in Available(Table, dependency_order, i)
             /\ \A c \in Available(Table, dependency_order, i) : dependency_order[i] <= c
  <2>1. dependency_order[i] \in Index /\ Greedy(i)
    BY <1>3 DEF IInv, TypeOK, OrderInv
  <2>2. \A c \in Available(Table, dependency_order, i) :
          c \in Index /\ ~(c < dependency_order[i])
    BY <1>2, <2>1 DEF Greedy, Available
  <2>3. QED
    BY <1>2, <2>1, <2>2, CountType DEF Greedy
<1>4. QED
  BY <1>2, <1>3 DEF LowestFirst

(***************************************************************************)
(* seki_core.c, build_type_layout and build_dependency_order: the bytes do *)
(* not depend on where the declarations stood in the source.  The layout   *)
(* is a canonical one, and every module with the same declarations has     *)
(* that layout and no other; where the emitter answers A0-CORE-0004, none  *)
(* of them has any.                                                        *)
(***************************************************************************)
LayoutIsCanonical ==
  /\ phase = "done" =>
       /\ CanonicalLayout(module, Table, dependency_order)
       /\ \A m \in Modules : \A a, o :
            SameDeclarations(m, module) /\ CanonicalLayout(m, a, o)
              => a = Table /\ o = dependency_order
  /\ phase = "cycle" =>
       \A m \in Modules : \A a, o :
         SameDeclarations(m, module) => ~CanonicalLayout(m, a, o)

THEOREM LayoutCanonical == Spec => []LayoutIsCanonical
<1>1. ASSUME IInv, phase \in {"done", "cycle"}, NEW m \in Modules, NEW a, NEW o,
             SameDeclarations(m, module), CanonicalLayout(m, a, o)
      PROVE  /\ a = Table
             /\ \A i \in Index : i < index => o[i] = dependency_order[i]
             /\ phase = "done"
  <2>1. module \in [Index -> Declaration]
    BY <1>1, NamesDiffer DEF IInv
  <2>2. /\ Table \in [Index -> {module[d] : d \in Index}]
        /\ \A d \in Index : \E i \in Index : Table[i] = module[d]
        /\ StrictlySorted(Table)
    BY <1>1, TableListed
  <2>3. /\ a \in [Index -> {module[d] : d \in Index}]
        /\ \A i \in Index : \E d \in Index : a[i] = module[d]
        /\ \A d \in Index : \E i \in Index : a[i] = module[d]
        /\ StrictlySorted(a)
    <3>1. /\ a \in [Index -> {m[d] : d \in Index}]
          /\ \A d \in Index : \E i \in Index : a[i] = m[d]
          /\ StrictlySorted(a)
      BY <1>1 DEF CanonicalLayout
    <3>2. {m[d] : d \in Index} = {module[d] : d \in Index}
      BY <1>1 DEF SameDeclarations
    <3>3. a \in [Index -> {module[d] : d \in Index}]
      BY <3>1, <3>2
    <3>4. \A i \in Index : \E d \in Index : a[i] = module[d]
      BY <3>3
    <3>5. ASSUME NEW d \in Index PROVE \E i \in Index : a[i] = module[d]
      <4>1. module[d] \in {m[e] : e \in Index}
        BY <3>2
      <4>2. PICK e \in Index : module[d] = m[e]
        BY <4>1
      <4>3. QED
        BY <3>1, <4>2
    <3>6. QED
      BY <3>1, <3>3, <3>4, <3>5
  <2>4. {module[d] : d \in Index} \subseteq Declaration
    BY <2>1
  <2>5. a = Table
    <3>1. a \in [Index -> Declaration] /\ Table \in [Index -> Declaration]
      BY <2>2, <2>3, <2>4
    <3>2. ASSUME NEW i \in Index PROVE \E j \in Index : a[i] = Table[j]
      <4>1. PICK d \in Index : a[i] = module[d]
        BY <2>3
      <4>2. PICK j \in Index : Table[j] = module[d]
        BY <2>2
      <4>3. QED
        BY <4>1, <4>2
    <3>3. ASSUME NEW j \in Index PROVE \E i \in Index : Table[j] = a[i]
      <4>1. Table[j] \in {module[d] : d \in Index}
        BY <2>2
      <4>2. PICK d \in Index : Table[j] = module[d]
        BY <4>1
      <4>3. PICK i \in Index : a[i] = module[d]
        BY <2>3
      <4>4. QED
        BY <4>2, <4>3
    <3>4. QED
      BY <2>2, <2>3, <3>1, <3>2, <3>3, TablesAgree
  <2>6. /\ index \in Nat /\ index <= Count /\ dependency_order \in [Index -> Index]
        /\ LowestFirst(Table, dependency_order, index)
    <3>1. TypeOK
      BY <1>1 DEF IInv
    <3>2. index \in 0..Count /\ dependency_order \in [Index -> Index]
      BY <3>1 DEF TypeOK
    <3>3. QED
      BY <1>1, <3>2, CountType, OrderLowest
  <2>7. o \in [Index -> Index] /\ LowestFirst(Table, o, Count)
    BY <1>1, <2>5 DEF CanonicalLayout
  <2>8. LowestFirst(Table, o, index)
    <3>1. \A i \in Index : i < Count
      BY CountType
    <3>2. QED
      BY <2>7, <3>1 DEF LowestFirst
  <2>9. \A i \in Index : i < index => o[i] = dependency_order[i]
    BY <2>6, <2>7, <2>8, OrdersAgree
  <2>10. ASSUME phase = "cycle" PROVE FALSE
    <3>1. /\ index \in Index /\ index < Count /\ placed = Before(index)
          /\ \A c \in Index : ~Ready(c)
      BY <1>1, <2>6, <2>10, CountType DEF IInv, OrderInv
    <3>2. \A c \in Index : ~Choosable(c, index)
      BY <3>1 DEF Ready, Choosable
    <3>3. Available(Table, dependency_order, index) = {}
      BY <1>1, <3>1, <3>2, OrderLowest DEF Available
    <3>4. Chosen(o, index) = Chosen(dependency_order, index)
      BY <2>9 DEF Chosen
    <3>5. Available(Table, o, index) = {}
      BY <3>3, <3>4 DEF Available
    <3>6. QED
      BY <2>7, <3>1, <3>5 DEF LowestFirst
  <2>11. QED
    BY <1>1, <2>5, <2>9, <2>10
<1>2. ASSUME IInv, phase = "done"
      PROVE  CanonicalLayout(module, Table, dependency_order)
  <2>1. index = Count /\ dependency_order \in [Index -> Index]
    BY <1>2 DEF IInv, OrderInv, TypeOK
  <2>2. QED
    BY <1>2, <2>1, TableListed, OrderLowest DEF CanonicalLayout
<1>3. IInv => LayoutIsCanonical
  <2>1. ASSUME IInv, phase = "done", NEW m \in Modules, NEW a, NEW o,
               SameDeclarations(m, module), CanonicalLayout(m, a, o)
        PROVE  a = Table /\ o = dependency_order
    <3>1. /\ index = Count /\ dependency_order \in [Index -> Index]
          /\ o \in [Index -> Index]
      BY <2>1 DEF IInv, OrderInv, TypeOK, CanonicalLayout
    <3>2. \A i \in Index : i < Count
      BY CountType
    <3>3. \A i \in Index : o[i] = dependency_order[i]
      BY <1>1, <2>1, <3>1, <3>2
    <3>4. QED
      BY <1>1, <2>1, <3>1, <3>3
  <2>2. ASSUME IInv, phase = "cycle", NEW m \in Modules, NEW a, NEW o,
               SameDeclarations(m, module), CanonicalLayout(m, a, o)
        PROVE  FALSE
    BY <1>1, <2>2
  <2>3. QED
    BY <1>2, <2>1, <2>2 DEF LayoutIsCanonical
<1>4. QED
  BY <1>3, Invariance, PTL

-----------------------------------------------------------------------------
(***************************************************************************)
(* Termination: the iterations that are left.  An element that is being    *)
(* inserted has its position still to go down, and those after it have     *)
(* one insertion each.                                                     *)
(***************************************************************************)
Insertions(n) == n * (Count + 2)

Work ==
  IF phase = "sort" THEN Insertions(Count - index) + 2 * Count + 3
  ELSE IF phase = "shift"
  THEN Insertions(Count - (index + 1)) + position + 1 + 2 * Count + 3
  ELSE IF phase = "position" THEN (Count - index) + Count + 2
  ELSE IF phase = "order" THEN (Count - index) + 1
  ELSE 0

MostWork == Count * Count + 3 * Count + 1

\* One insertion fewer is the time of one insertion less.
LEMMA InsertionLess ==
  ASSUME NEW n \in Nat, n > 0
  PROVE  /\ Insertions(n) \in Nat
         /\ Insertions(n) = Insertions(n - 1) + Count + 2
<1>1. PICK c \in Nat : c = Count
  BY CountType
<1>2. n * (c + 2) \in Nat /\ n * (c + 2) = (n - 1) * (c + 2) + c + 2
  OBVIOUS
<1>3. QED
  BY <1>1, <1>2 DEF Insertions

LEMMA InsertionType ==
  ASSUME NEW n \in Nat
  PROVE  Insertions(n) \in Nat
<1>1. PICK c \in Nat : c = Count
  BY CountType
<1>2. n * (c + 2) \in Nat
  OBVIOUS
<1>3. QED
  BY <1>1, <1>2 DEF Insertions

LEMMA InitWork == Init => Work \in 0..MostWork
<1> SUFFICES ASSUME Init PROVE Work \in 0..MostWork
  OBVIOUS
<1>1. PICK c \in Nat : c = Count /\ c > 0
  BY CountType
<1>2. Work = (c - 1) * (c + 2) + 2 * c + 3
  BY <1>1 DEF Init, Work, Insertions
<1>3. (c - 1) * (c + 2) + 2 * c + 3 = c * c + 3 * c + 1
  BY <1>1
<1>4. c * c \in Nat
  OBVIOUS
<1>5. QED
  BY <1>1, <1>2, <1>3, <1>4 DEF MostWork

LEMMA SortWork ==
  ASSUME IInv, Take \/ Shift \/ Drop \/ Sorted
  PROVE  Work \in Nat /\ Work' \in 0..(Work - 1)
<1>1. PICK c \in Nat, i \in Nat, p \in Nat :
        c = Count /\ i = index /\ p = position /\ i <= c
  BY CountType DEF IInv, TypeOK
<1>2. /\ \A n \in Nat : Insertions(n) \in Nat
      /\ \A n \in Nat : n > 0 => Insertions(n) = Insertions(n - 1) + Count + 2
  BY InsertionLess, InsertionType
<1>3. CASE Take
  <2>1. /\ phase = "sort" /\ phase' = "shift" /\ i < c
        /\ index' = i /\ position' = i
    BY <1>1, <1>3 DEF Take
  <2>2. PICK k \in Nat, m \in Nat :
          k = Insertions(c - i) /\ m = Insertions(c - (i + 1)) /\ k = m + c + 2
    <3>1. c - i \in Nat /\ c - i > 0 /\ (c - i) - 1 = c - (i + 1) /\ c - (i + 1) \in Nat
      BY <2>1
    <3>2. QED
      BY <1>1, <1>2, <3>1
  <2>3. Work = k + 2 * c + 3 /\ Work' = m + i + 1 + 2 * c + 3
    BY <1>1, <2>1, <2>2 DEF Work
  <2>4. QED
    BY <2>1, <2>2, <2>3
<1>4. CASE Shift
  <2>1. /\ phase = "shift" /\ phase' = "shift" /\ i < c /\ p > 0
        /\ index' = i /\ position' = p - 1
    BY <1>1, <1>4 DEF Shift, IInv, SortInv
  <2>2. PICK m \in Nat : m = Insertions(c - (i + 1))
    <3>1. c - (i + 1) \in Nat
      BY <2>1
    <3>2. QED
      BY <1>2, <3>1
  <2>3. Work = m + p + 1 + 2 * c + 3 /\ Work' = m + (p - 1) + 1 + 2 * c + 3
    BY <1>1, <2>1, <2>2 DEF Work
  <2>4. QED
    BY <2>1, <2>2, <2>3
<1>5. CASE Drop
  <2>1. /\ phase = "shift" /\ phase' = "sort" /\ i < c /\ index' = i + 1
    BY <1>1, <1>5 DEF Drop, IInv, SortInv
  <2>2. PICK m \in Nat : m = Insertions(c - (i + 1))
    <3>1. c - (i + 1) \in Nat
      BY <2>1
    <3>2. QED
      BY <1>2, <3>1
  <2>3. Work = m + p + 1 + 2 * c + 3 /\ Work' = m + 2 * c + 3
    BY <1>1, <2>1, <2>2 DEF Work
  <2>4. QED
    BY <2>1, <2>2, <2>3
<1>6. CASE Sorted
  <2>1. phase = "sort" /\ phase' = "position" /\ i = c /\ index' = 0
    BY <1>1, <1>6 DEF Sorted
  <2>2. PICK m \in Nat : m = Insertions(0) /\ m = Insertions(c - i)
    BY <1>1, <1>2, <2>1
  <2>3. Work = m + 2 * c + 3 /\ Work' = (c - 0) + c + 2
    BY <1>1, <2>1, <2>2 DEF Work
  <2>4. QED
    BY <2>2, <2>3
<1>7. QED
  BY <1>3, <1>4, <1>5, <1>6

LEMMA OrderWork ==
  ASSUME IInv, Position \/ Positioned \/ Place \/ Cycle \/ Ordered
  PROVE  Work \in Nat /\ Work' \in 0..(Work - 1)
<1>1. PICK c \in Nat, i \in Nat : c = Count /\ i = index /\ i <= c
  BY CountType DEF IInv, TypeOK
<1>2. CASE Position
  <2>1. phase = "position" /\ phase' = "position" /\ i < c /\ index' = i + 1
    BY <1>1, <1>2 DEF Position
  <2>2. Work = (c - i) + c + 2 /\ Work' = (c - (i + 1)) + c + 2
    BY <1>1, <2>1 DEF Work
  <2>3. QED
    BY <2>1, <2>2
<1>3. CASE Positioned
  <2>1. phase = "position" /\ phase' = "order" /\ index' = 0
    BY <1>3 DEF Positioned
  <2>2. Work = (c - i) + c + 2 /\ Work' = (c - 0) + 1
    BY <1>1, <2>1 DEF Work
  <2>3. QED
    BY <1>1, <2>2
<1>4. CASE Place
  <2>1. phase = "order" /\ phase' = "order" /\ i < c /\ index' = i + 1
    BY <1>1, <1>4 DEF Place
  <2>2. Work = (c - i) + 1 /\ Work' = (c - (i + 1)) + 1
    BY <1>1, <2>1 DEF Work
  <2>3. QED
    BY <2>1, <2>2
<1>5. CASE Cycle \/ Ordered
  <2>1. phase = "order" /\ phase' \in {"done", "cycle"}
    BY <1>5 DEF Cycle, Ordered
  <2>2. Work = (c - i) + 1 /\ Work' = 0
    BY <1>1, <2>1 DEF Work
  <2>3. QED
    BY <1>1, <2>2
<1>6. QED
  BY <1>2, <1>3, <1>4, <1>5

(***************************************************************************)
(* The loops of sort_by_name, build_type_layout and build_dependency_order *)
(* together take no more than Count * Count + 3 * Count + 1 iterations,    *)
(* whatever the declarations: every step leaves less to do, and at the     *)
(* start there is no more to do than that.                                 *)
(***************************************************************************)
LayoutIsBounded ==
  /\ Work \in 0..MostWork
  /\ [][Work' \in 0..(Work - 1)]_vars

THEOREM LayoutBounded == Spec => LayoutIsBounded
<1>1. IInv /\ [Next]_vars => [Work' \in 0..(Work - 1)]_vars
  BY SortWork, OrderWork DEF Next
<1>2. QED
  BY <1>1, InitWork, Invariance, PTL DEF Spec, LayoutIsBounded
=============================================================================
