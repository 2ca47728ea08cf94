-------------------------- MODULE CreateTasksProofs --------------------------
(***************************************************************************)
(* Proofs about CreateTasks for every size.  While the inner tasks of a    *)
(* subtree are built, the tasks that have a parent are the first dep ones, *)
(* and dep is twice the number of inner tasks: so the place of a task in   *)
(* the vector alone says who its parent and its children are, which is the *)
(* closed form of TaskForest.  That a level of base tasks finds its        *)
(* operands follows from the number of tasks without a parent.             *)
(***************************************************************************)
EXTENDS CreateTasks, SequenceTheorems, TLAPS

Operand == [row_start : Nat, col_start : Nat, size : Nat, original_size : Nat] \cup {NoTask}
Position == Nat \cup {NoTask}
Node == [ops : {"MULTIPLICATION"}, left : Operand, right : Operand,
         parent : Position, left_child : Position, right_child : Position]

Typed ==
    /\ k \in Nat \ {0} /\ rest \in Nat
    /\ at \in {"subtree", "leaves", "pairs", "aborted"}
    /\ i \in Nat /\ j \in Nat /\ base \in Nat /\ dep \in Nat
    /\ tasks \in Seq(Node)
    /\ tasks_init \in Seq(Nat \X Nat)
    /\ tasks_final \in Seq(Seq(Node))

(* Node p of a vector in which the first m nodes have their parent.        *)
Linked(s, p, m) ==
    /\ s[p + 1].parent = IF p < m THEN k + (p \div 2) ELSE NoTask
    /\ p >= k => /\ s[p + 1].left_child = 2 * (p - k)
                 /\ s[p + 1].right_child = 2 * (p - k) + 1

LeavesShape ==
    at = "leaves" => /\ j <= k /\ Len(tasks) = j
                     /\ \A p \in 0..(Len(tasks) - 1) : Linked(tasks, p, 0)

PairsShape ==
    at = "pairs" => /\ j <= base /\ Len(tasks) >= k
                    /\ dep = 2 * (Len(tasks) - k)
                    /\ Len(tasks) - dep >= 2 * base - j
                    /\ \A p \in 0..(Len(tasks) - 1) : Linked(tasks, p, dep)

Complete(s) == /\ Len(s) = 2 * k - 1
               /\ \A p \in 0..(2 * k - 2) : Linked(s, p, 2 * k - 2)

FinalShape ==
    /\ \A m \in 1..Len(tasks_final) : Complete(tasks_final[m])
    /\ Len(tasks_final) = i /\ i <= SubTrees
    /\ at \in {"leaves", "pairs"} => i < SubTrees

Named == IF at = "leaves" THEN i * k + j
         ELSE IF at = "pairs" THEN i * k + k ELSE i * k

InitShape ==
    at # "aborted" =>
        /\ Len(tasks_init) = Named
        /\ \A n \in 1..Len(tasks_init) : tasks_init[n] = <<(n - 1) \div k, (n - 1) % k>>

IInv == Typed /\ LeavesShape /\ PairsShape /\ FinalShape /\ InitShape
-----------------------------------------------------------------------------
LEMMA SubTreesNat == ASSUME Typed PROVE SubTrees \in Nat
<1>1. k * k \in Nat
  BY DEF Typed
<1> QED BY <1>1 DEF SubTrees

(* The number of a leaf gives its subtree and its position.                *)
LEMMA LeafName ==
  ASSUME NEW K \in Nat \ {0}, NEW a \in Nat, NEW b \in 0..(K - 1)
  PROVE  (a * K + b) \div K = a /\ (a * K + b) % K = b
<1> DEFINE n == a * K + b
           q == n \div K
           r == n % K
<1>1. n \in Nat /\ q \in Int /\ r \in 0..(K - 1) /\ n = K * q + r
  OBVIOUS
<1>2. CASE q < a
  OBVIOUS
<1>3. CASE q > a
  OBVIOUS
<1> QED OBVIOUS
-----------------------------------------------------------------------------
LEMMA InitIInv == Init => IInv
<1> SUFFICES ASSUME Init PROVE IInv
  OBVIOUS
<1> USE SizesAssumption, NoTaskAssumption DEF Init
<1>1. Typed
  BY DEF Typed
<1>2. LeavesShape /\ PairsShape
  BY DEF LeavesShape, PairsShape
<1>3. FinalShape
  <2>1. SubTrees \in Nat
    BY <1>1, SubTreesNat
  <2>2. k * k \in Nat /\ 0 <= (k * k) \div 2
    OBVIOUS
  <2> QED BY <2>1, <2>2 DEF FinalShape, SubTrees
<1>4. InitShape
  <2>1. 0 * k = 0
    OBVIOUS
  <2> QED BY <2>1 DEF InitShape, Named
<1> QED BY <1>1, <1>2, <1>3, <1>4 DEF IInv

LEMMA NextSubtreeIInv == ASSUME IInv, NextSubtree PROVE IInv'
<1> USE DEF NextSubtree, IInv
<1>1. Typed'
  BY DEF Typed
<1>2. LeavesShape' /\ PairsShape'
  BY DEF LeavesShape, PairsShape, Typed
<1>3. FinalShape'
  BY DEF FinalShape, Complete, Linked, SubTrees
<1>4. InitShape'
  BY DEF InitShape, Named, Typed
<1> QED BY <1>1, <1>2, <1>3, <1>4

LEMMA BlocksFit ==
  ASSUME Typed
  PROVE  matrix_size \in Nat /\ k * submatrix_size \in Nat /\ k * submatrix_size <= matrix_size
<1>1. \A x, y \in Nat : x * y \in Nat /\ x + y \in Nat /\ x <= x + y
  OBVIOUS
<1>2. k * submatrix_size \in Nat /\ rest \in Nat
  BY <1>1, SizesAssumption DEF Typed
<1> QED BY <1>1, <1>2 DEF matrix_size

LEMMA LeafType == ASSUME Typed PROVE Leaf \in Node /\ Leaf.parent = NoTask
<1>1. submatrix_size \in Nat /\ i \div k \in Nat
  BY SizesAssumption DEF Typed
<1>2. \A x, y \in Nat : x * y \in Nat
  OBVIOUS
<1>3. (i \div k) * submatrix_size \in Nat /\ j * submatrix_size \in Nat /\ matrix_size \in Nat
  BY <1>1, <1>2, BlocksFit DEF Typed
<1>4. \A row, col \in Nat : TrackSubmatrix(row, col) \in Operand
  BY <1>1, <1>3 DEF TrackSubmatrix, Submatrix, Operand
<1> HIDE DEF Operand
<1> QED BY <1>3, <1>4 DEF Leaf, Node, Position

LEMMA AddLeafIInv == ASSUME IInv, AddLeaf PROVE IInv'
<1> USE DEF AddLeaf, IInv
<1>0. Leaf \in Node /\ Leaf.parent = NoTask
  BY LeafType
<1> DEFINE name == <<i, Len(tasks)>>
<1>n. Len(tasks) \in Nat /\ Len(tasks) = j /\ name \in Nat \X Nat
  BY LenProperties DEF Typed, LeavesShape
<1>1. Typed'
  BY <1>0, <1>n, AppendProperties DEF Typed
<1>2. LeavesShape'
  BY <1>0, <1>n, AppendProperties DEF LeavesShape, Linked, Typed
<1>3. PairsShape' /\ FinalShape'
  BY DEF PairsShape, FinalShape, Complete, Linked, SubTrees, Typed
<1>4. InitShape'
  <2>1. Len(tasks_init) = i * k + j /\ i * k \in Nat
    BY DEF InitShape, Named, Typed
  <2>2. (i * k + j) \div k = i /\ (i * k + j) % k = j
    <3>1. j \in 0..(k - 1) /\ i \in Nat /\ k \in Nat \ {0}
      BY DEF Typed
    <3> QED BY <3>1, LeafName, Zenon
  <2>3. /\ Len(tasks_init') = i * k + (j + 1)
        /\ tasks_init'[Len(tasks_init) + 1] = <<i, j>>
        /\ \A n \in 1..Len(tasks_init) : tasks_init'[n] = tasks_init[n]
    BY <2>1, <1>n, AppendProperties DEF Typed
  <2>4. ASSUME NEW n \in 1..Len(tasks_init')
        PROVE  tasks_init'[n] = <<(n - 1) \div k, (n - 1) % k>>
    <3>1. CASE n = Len(tasks_init) + 1
      <4>1. n - 1 = i * k + j
        BY <3>1, <2>1 DEF Typed
      <4> QED BY <3>1, <4>1, <2>2, <2>3
    <3>2. CASE n # Len(tasks_init) + 1
      <4>1. n \in 1..Len(tasks_init)
        BY <3>2, <2>1, <2>3 DEF Typed
      <4> QED BY <4>1, <2>3 DEF InitShape
    <3> QED BY <3>1, <3>2
  <2> QED BY <2>3, <2>4 DEF InitShape, Named
<1> QED BY <1>1, <1>2, <1>3, <1>4

LEMMA StartPairsIInv == ASSUME IInv, StartPairs PROVE IInv'
<1> USE DEF StartPairs, IInv
<1>1. Typed' /\ LeavesShape'
  BY DEF Typed, LeavesShape, Halved
<1>2. PairsShape'
  BY DEF PairsShape, LeavesShape, Linked, Halved, Typed
<1>3. FinalShape' /\ InitShape'
  BY DEF FinalShape, Complete, Linked, SubTrees, InitShape, Named, Typed
<1> QED BY <1>1, <1>2, <1>3

(* The operands are there: the tasks without a parent suffice for what is  *)
(* left of this level and for the pairs of the next one.                   *)
LEMMA OperandsThere ==
  ASSUME IInv, at = "pairs", base >= 1, j < base
  PROVE  /\ dep \in Nat /\ Len(tasks) \in Nat /\ dep + 2 <= Len(tasks)
         /\ dep = 2 * (Len(tasks) - k) /\ dep \div 2 = Len(tasks) - k
         /\ (dep + 1) \div 2 = Len(tasks) - k
<1>1. Len(tasks) \in Nat
  BY LenProperties DEF IInv, Typed
<1> QED BY <1>1 DEF IInv, PairsShape, Typed

(* A task of the vector is given a parent.                                 *)
WithParent(s, q, v) == [s EXCEPT ![q].parent = v]

SameOperands(a, b) == /\ a.left = b.left /\ a.right = b.right
                      /\ a.left_child = b.left_child /\ a.right_child = b.right_child

LEMMA SetParent ==
  ASSUME NEW s \in Seq(Node), NEW q \in 1..Len(s), NEW v \in Nat
  PROVE  /\ WithParent(s, q, v) \in Seq(Node) /\ Len(WithParent(s, q, v)) = Len(s)
         /\ \A p \in 1..Len(s) :
               /\ SameOperands(WithParent(s, q, v)[p], s[p])
               /\ WithParent(s, q, v)[p].parent = IF p = q THEN v ELSE s[p].parent
<1> DEFINE node == [s[q] EXCEPT !.parent = v]
           r == WithParent(s, q, v)
<1>1. s[q] \in Node
  BY ElementOfSeq
<1>2. node \in Node /\ node.parent = v /\ SameOperands(node, s[q])
  <2>1. v \in Position
    BY DEF Position
  <2> HIDE DEF Operand, Position
  <2> QED BY <1>1, <2>1 DEF Node, SameOperands
<1> HIDE DEF node
<1>3. r = [s EXCEPT ![q] = node]
  BY DEF node, WithParent
<1> HIDE DEF r
<1>4. /\ r \in Seq(Node) /\ Len(r) = Len(s)
      /\ \A p \in 1..Len(s) : r[p] = IF p = q THEN node ELSE s[p]
  BY <1>2, <1>3, ExceptSeq
<1>5. \A p \in 1..Len(s) : /\ SameOperands(r[p], s[p])
                           /\ r[p].parent = IF p = q THEN v ELSE s[p].parent
  BY <1>2, <1>4 DEF SameOperands
<1> QED BY <1>4, <1>5 DEF r

(* The vector after the step: two tasks have a parent, the new last one.   *)
LEMMA InnerAdded ==
  ASSUME IInv, AddInner
  PROVE  /\ tasks' \in Seq(Node) /\ Len(tasks') = Len(tasks) + 1
         /\ \A p \in 1..Len(tasks) :
               /\ SameOperands(tasks'[p], tasks[p])
               /\ tasks'[p].parent = IF p \in {dep + 1, dep + 2} THEN Len(tasks)
                                     ELSE tasks[p].parent
         /\ tasks'[Len(tasks) + 1] =
               [ops |-> "MULTIPLICATION", left |-> NoTask, right |-> NoTask,
                parent |-> NoTask, left_child |-> dep, right_child |-> dep + 1]
<1> USE DEF IInv
<1> DEFINE n == Len(tasks)
           inner == [ops |-> "MULTIPLICATION", left |-> NoTask, right |-> NoTask,
                     parent |-> NoTask, left_child |-> Pair.left, right_child |-> Pair.right]
           linked == [tasks EXCEPT ![Pair.left + 1].parent = n, ![Pair.right + 1].parent = n]
<1> HIDE DEF linked, inner, n
<1>0. at = "pairs" /\ base >= 1 /\ j < base /\ j' = j + 1 /\ dep' = dep + 2
      /\ tasks' = Append(linked, inner)
      /\ UNCHANGED <<k, rest, at, i, base, tasks_init, tasks_final>>
  BY DEF AddInner, OperandsPerTask, linked, inner, n
<1>1. /\ dep \in Nat /\ n \in Nat /\ dep + 2 <= n
      /\ dep = 2 * (n - k) /\ dep \div 2 = n - k /\ (dep + 1) \div 2 = n - k
  BY <1>0, OperandsThere DEF n
<1>2. Pair.left = dep /\ Pair.right = dep + 1
  BY DEF Pair
<1>3. inner \in Node /\ inner =
        [ops |-> "MULTIPLICATION", left |-> NoTask, right |-> NoTask, parent |-> NoTask,
         left_child |-> dep, right_child |-> dep + 1]
  <2>1. inner = [ops |-> "MULTIPLICATION", left |-> NoTask, right |-> NoTask, parent |-> NoTask,
                 left_child |-> dep, right_child |-> dep + 1]
    BY <1>2, Zenon DEF inner
  <2>2. NoTask \in Operand /\ NoTask \in Position /\ dep \in Position /\ dep + 1 \in Position
    BY <1>1 DEF Operand, Position
  <2> QED BY <2>1, <2>2 DEF Node
<1>4. /\ linked \in Seq(Node) /\ Len(linked) = n
      /\ \A p \in 1..n : /\ SameOperands(linked[p], tasks[p])
                         /\ linked[p].parent = IF p \in {dep + 1, dep + 2} THEN n
                                               ELSE tasks[p].parent
  <2> DEFINE first == WithParent(tasks, dep + 1, n)
             second == WithParent(first, dep + 2, n)
  <2>1. linked = second
    <3>1. (dep + 1) + 1 = dep + 2
      BY <1>1
    <3> QED BY <1>2, <3>1, Zenon DEF linked, WithParent
  <2>2. dep + 1 \in 1..n /\ dep + 2 \in 1..n /\ dep + 1 # dep + 2 /\ n \in Nat
        /\ tasks \in Seq(Node) /\ n = Len(tasks)
    <3>1. n = Len(tasks)
      BY DEF n
    <3>2. dep + 1 \in 1..n /\ dep + 2 \in 1..n /\ dep + 1 # dep + 2 /\ n \in Nat
      BY <1>1
    <3>3. tasks \in Seq(Node)
      BY DEF Typed
    <3> QED BY <3>1, <3>2, <3>3, Zenon
  <2>3. /\ first \in Seq(Node) /\ Len(first) = n
        /\ \A p \in 1..n : /\ SameOperands(first[p], tasks[p])
                           /\ first[p].parent = IF p = dep + 1 THEN n ELSE tasks[p].parent
    BY <2>2, SetParent
  <2> HIDE DEF first
  <2>4. /\ second \in Seq(Node) /\ Len(second) = n
        /\ \A p \in 1..n : /\ SameOperands(second[p], first[p])
                           /\ second[p].parent = IF p = dep + 2 THEN n ELSE first[p].parent
    BY <2>2, <2>3, SetParent
  <2> HIDE DEF second
  <2>5. ASSUME NEW p \in 1..n PROVE SameOperands(second[p], tasks[p])
    BY <2>3, <2>4 DEF SameOperands
  <2> QED BY <2>1, <2>2, <2>3, <2>4, <2>5
<1>5. /\ tasks' \in Seq(Node) /\ Len(tasks') = n + 1
      /\ tasks'[n + 1] = inner /\ \A p \in 1..n : tasks'[p] = linked[p]
  <2>1. linked \in Seq(Node) /\ Len(linked) = n /\ inner \in Node /\ tasks' = Append(linked, inner)
    BY <1>0, <1>3, <1>4
  <2> QED BY <2>1, AppendProperties
<1> QED BY <1>3, <1>4, <1>5 DEF n

LEMMA AddInnerIInv == ASSUME IInv, AddInner PROVE IInv'
<1> USE DEF IInv
<1>0. at = "pairs" /\ base >= 1 /\ j < base /\ j' = j + 1 /\ dep' = dep + 2
      /\ UNCHANGED <<k, rest, at, i, base, tasks_init, tasks_final>>
  BY DEF AddInner, OperandsPerTask
<1>n. PICK n \in Nat : n = Len(tasks)
  BY LenProperties DEF Typed
<1>1. /\ dep \in Nat /\ dep + 2 <= n
      /\ dep = 2 * (n - k) /\ dep \div 2 = n - k /\ (dep + 1) \div 2 = n - k
  BY <1>0, <1>n, OperandsThere
<1>5. /\ tasks' \in Seq(Node) /\ Len(tasks') = n + 1
      /\ \A p \in 1..n :
            /\ SameOperands(tasks'[p], tasks[p])
            /\ tasks'[p].parent = IF p \in {dep + 1, dep + 2} THEN n ELSE tasks[p].parent
      /\ tasks'[n + 1].parent = NoTask
      /\ tasks'[n + 1].left_child = dep /\ tasks'[n + 1].right_child = dep + 1
  BY <1>n, InnerAdded
<1>6. Typed' /\ LeavesShape'
  BY <1>0, <1>1, <1>5 DEF Typed, LeavesShape
<1>7. PairsShape'
  <2>1. /\ j <= base /\ n >= k /\ n - dep >= 2 * base - j
        /\ \A p \in 0..(n - 1) : Linked(tasks, p, dep)
    BY <1>0, <1>n DEF PairsShape
  <2>k. k \in Nat
    BY DEF Typed
  <2>2. ASSUME NEW p \in 0..n PROVE Linked(tasks', p, dep + 2)
    <3>1. CASE p < n
      <4>1. p + 1 \in 1..n /\ p \in 0..(n - 1)
        BY <1>1, <3>1
      <4>2. p + 1 \in {dep + 1, dep + 2} <=> p \in {dep, dep + 1}
        <5>1. p \in Int /\ dep \in Int
          BY <1>1, <4>1
        <5> QED BY <5>1
      <4>3. /\ tasks'[p + 1].left_child = tasks[p + 1].left_child
            /\ tasks'[p + 1].right_child = tasks[p + 1].right_child
            /\ tasks'[p + 1].parent = IF p \in {dep, dep + 1} THEN n ELSE tasks[p + 1].parent
        BY <1>5, <4>1, <4>2 DEF SameOperands
      <4>4. Linked(tasks, p, dep)
        BY <2>1, <4>1
      <4>5. /\ p \in {dep, dep + 1} => k + (p \div 2) = n /\ p < dep + 2
            /\ p \notin {dep, dep + 1} => (p < dep <=> p < dep + 2)
        BY <1>1, <4>1, <2>k
      <4> QED BY <4>1, <4>3, <4>4, <4>5 DEF Linked
    <3>2. CASE p = n
      <4>1. p >= k /\ ~(p < dep + 2) /\ dep = 2 * (p - k) /\ dep + 1 = 2 * (p - k) + 1
        BY <1>1, <2>1, <2>k, <3>2
      <4> QED BY <1>5, <3>2, <4>1 DEF Linked
    <3> QED BY <3>1, <3>2, <1>1
  <2>3. \A p \in 0..(Len(tasks') - 1) : Linked(tasks, p, dep)'
    <3>1. k' = k /\ dep' = dep + 2 /\ Len(tasks') - 1 = n
      BY <1>0, <1>1, <1>5
    <3> QED BY <2>2, <3>1 DEF Linked
  <2>4. /\ j' <= base' /\ Len(tasks') >= k' /\ dep' = 2 * (Len(tasks') - k')
        /\ Len(tasks') - dep' >= 2 * base' - j'
    BY <1>0, <1>1, <1>5, <2>1 DEF Typed
  <2> QED BY <2>3, <2>4 DEF PairsShape
<1>8. FinalShape' /\ InitShape'
  BY <1>0 DEF FinalShape, Complete, Linked, SubTrees, InitShape, Named, Typed
<1> QED BY <1>6, <1>7, <1>8

LEMMA NextLevelIInv == ASSUME IInv, NextLevel PROVE IInv'
<1> USE DEF NextLevel, IInv
<1>1. Typed' /\ LeavesShape'
  BY DEF Typed, LeavesShape, Halved
<1>2. PairsShape'
  <2>1. Len(tasks) \in Nat
    BY LenProperties DEF Typed
  <2>2. j = base /\ Len(tasks) - dep >= base /\ 2 * (base \div 2) <= base
    BY <2>1 DEF PairsShape, Typed
  <2>3. j' <= base' /\ Len(tasks') - dep' >= 2 * base' - j'
    BY <2>1, <2>2 DEF Halved, Typed
  <2>4. (\A p \in 0..(Len(tasks) - 1) : Linked(tasks, p, dep))'
    BY DEF PairsShape, Linked
  <2> QED BY <2>3, <2>4 DEF PairsShape
<1>3. FinalShape' /\ InitShape'
  BY DEF FinalShape, Complete, Linked, SubTrees, InitShape, Named, Typed
<1> QED BY <1>1, <1>2, <1>3

LEMMA FinishSubtreeIInv == ASSUME IInv, FinishSubtree PROVE IInv'
<1> USE DEF FinishSubtree, IInv
<1>n. Len(tasks) \in Nat /\ Len(tasks_final) \in Nat
  BY LenProperties DEF Typed
<1>1. CASE AllPaired
  <2>1. Complete(tasks)
    BY <1>1, <1>n DEF PairsShape, Complete, AllPaired, Typed
  <2>2. /\ tasks_final' \in Seq(Seq(Node)) /\ Len(tasks_final') = i + 1
        /\ \A m \in 1..(i + 1) : tasks_final'[m] = IF m = i + 1 THEN tasks ELSE tasks_final[m]
    <3>1. tasks_final \in Seq(Seq(Node)) /\ tasks \in Seq(Node) /\ Len(tasks_final) = i /\ i \in Nat
      BY DEF Typed, FinalShape
    <3>2. tasks_final' = Append(tasks_final, tasks)
      BY <1>1
    <3> HIDE DEF IInv, FinishSubtree
    <3> QED BY <3>1, <3>2, AppendProperties
  <2>3. Typed' /\ LeavesShape' /\ PairsShape'
    BY <1>1, <2>2 DEF Typed, LeavesShape, PairsShape
  <2>4. FinalShape'
    <3>1. SubTrees' = SubTrees /\ SubTrees \in Nat /\ i + 1 <= SubTrees
      BY SubTreesNat DEF SubTrees, FinalShape, Typed
    <3>2. \A s : Complete(s) => Complete(s)'
      BY DEF Complete, Linked
    <3>3. ASSUME NEW m \in 1..(i + 1) PROVE Complete(tasks_final'[m])
      <4>1. m # i + 1 => m \in 1..Len(tasks_final)
        BY <3>3 DEF FinalShape, Typed
      <4> HIDE DEF FinishSubtree
      <4> QED BY <2>1, <2>2, <4>1 DEF FinalShape
    <3> QED BY <1>1, <2>2, <3>1, <3>2, <3>3 DEF FinalShape, Complete, Linked, Typed
  <2>5. InitShape'
    <3>1. (i + 1) * k = i * k + k
      BY DEF Typed
    <3> QED BY <1>1, <3>1 DEF InitShape, Named, Typed
  <2> QED BY <2>3, <2>4, <2>5
<1>2. CASE ~AllPaired
  BY <1>2, SMTT(30) DEF Typed, LeavesShape, PairsShape, FinalShape, InitShape, Complete, Linked, SubTrees
<1> QED BY <1>1, <1>2

LEMMA NextIInv == IInv /\ [Next]_vars => IInv'
<1> SUFFICES ASSUME IInv, [Next]_vars PROVE IInv'
  OBVIOUS
<1>1. CASE UNCHANGED vars
  BY <1>1 DEF vars, IInv, Typed, LeavesShape, PairsShape, FinalShape, InitShape, Named, Complete,
               Linked, SubTrees
<1>2. CASE Stopped
  BY <1>1, <1>2 DEF Stopped
<1> QED BY <1>1, <1>2, NextSubtreeIInv, AddLeafIInv, StartPairsIInv, AddInnerIInv,
            NextLevelIInv, FinishSubtreeIInv DEF Next

LEMMA Invariance == Spec => []IInv
<1> QED BY InitIInv, NextIInv, PTL DEF Spec
-----------------------------------------------------------------------------
(* For every size, create_tasks indexes its vector only where a task       *)
(* without a parent is (utils.cc:131-137).                                 *)
THEOREM PairsAlwaysExist == Spec => []PairsExist
<1>1. IInv => PairsExist
  <2> SUFFICES ASSUME IInv, at = "pairs", base >= 1, j < base,
                      NEW n \in {Pair.left, Pair.right}
               PROVE  n < Len(tasks) /\ tasks[n + 1].parent = NoTask
    BY DEF PairsExist
  <2>1. n \in {dep, dep + 1}
    BY DEF Pair
  <2>2. dep \in Nat /\ Len(tasks) \in Nat /\ dep + 2 <= Len(tasks)
    BY OperandsThere
  <2>3. n \in 0..(Len(tasks) - 1) /\ n < Len(tasks) /\ ~(n < dep)
    BY <2>1, <2>2
  <2>4. Linked(tasks, n, dep)
    BY <2>3 DEF IInv, PairsShape
  <2> QED BY <2>3, <2>4 DEF Linked
<1> QED BY <1>1, Invariance, PTL

(* For every size whose assertion holds, what create_tasks returns is the  *)
(* forest of TaskForest (utils.cc:81-170): its links and its initial tasks.*)
THEOREM ForestIsBuilt == Spec => []BuildsForest
<1>1. ASSUME IInv, Done PROVE BuildsForest
  <2> USE DEF IInv
  <2>1. SubTrees \in Nat /\ i = SubTrees /\ at = "subtree"
    BY <1>1, SubTreesNat DEF Done
  <2>2. Len(tasks_final) = SubTrees /\ \A m \in 1..SubTrees : Complete(tasks_final[m])
    BY <1>1, <2>1 DEF FinalShape
  <2>3. tasks_init = Forest!InitialTasks
    <3>1. tasks_init \in [1..SubTrees * k -> Nat \X Nat]
      BY <1>1, <2>1, LenProperties DEF InitShape, Named, Typed
    <3> QED BY <1>1, <2>1, <3>1, LenProperties DEF InitShape, Named, Typed, Forest!InitialTasks
  <2>4. ASSUME NEW t \in Forest!Task
        PROVE  LET node == tasks_final[t[1] + 1][t[2] + 1]
               IN /\ Forest!IsRoot(t) <=> node.parent = NoTask
                  /\ node.parent # NoTask => <<t[1], node.parent>> = Forest!Parent(t)
                  /\ ~Forest!IsLeaf(t) =>
                        /\ <<t[1], node.left_child>> = Forest!LeftChild(t)
                        /\ <<t[1], node.right_child>> = Forest!RightChild(t)
    <3>1. k \in Nat \ {0} /\ t[1] \in 0..(SubTrees - 1) /\ t[2] \in 0..(2 * k - 2)
      BY <1>1 DEF Forest!Task, Typed
    <3>2. Linked(tasks_final[t[1] + 1], t[2], 2 * k - 2)
      BY <2>1, <2>2, <3>1 DEF Complete
    <3>3. k + (t[2] \div 2) # NoTask
      BY <3>1, NoTaskAssumption
    <3> QED BY <3>1, <3>2, <3>3 DEF Linked, Forest!IsRoot, Forest!IsLeaf, Forest!Parent,
                                     Forest!LeftChild, Forest!RightChild
  <2> QED BY <2>2, <2>3, <2>4 DEF BuildsForest
<1>2. IInv => BuildsForest
  BY <1>1 DEF BuildsForest
<1> QED BY <1>2, Invariance, PTL
-----------------------------------------------------------------------------
(* Which sizes abort.  A power of two is halved until one task without a   *)
(* parent is left; of a size with an odd factor, a level that is not even  *)
(* leaves a task over, and the next ones never use it up.                  *)
Odd(d) == 2 * d + 1

LEMMA OddFactor ==
  ASSUME NEW n \in Nat \ {0}
  PROVE  PowerOfTwo(n) <=> \A d, q \in Nat \ {0} : n # Odd(d) * q
<1>1. ASSUME NEW d \in Nat \ {0}, NEW q \in Nat \ {0}, n = Odd(d) * q
      PROVE  d \in 1..n /\ q \in 1..n
  <2>1. d * q >= d /\ d * q >= q
    <3>1. d * (q - 1) >= 0 /\ (d - 1) * q >= 0
      OBVIOUS
    <3> QED BY <3>1
  <2>2. n = 2 * (d * q) + q
    BY <1>1 DEF Odd
  <2>3. d * q \in Nat
    OBVIOUS
  <2> QED BY <2>1, <2>2, <2>3
<1>2. PowerOfTwo(n) <=> \A d, q \in 1..n : n # Odd(d) * q
  BY DEF PowerOfTwo, Odd
<1>3. 1..n \subseteq Nat \ {0}
  OBVIOUS
<1> QED BY <1>1, <1>2, <1>3

LEMMA HalfOfMultiple ==
  ASSUME NEW d \in Nat \ {0}, NEW n \in Nat, \E q \in Nat \ {0} : n = Odd(d) * q
  PROVE  /\ n \div 2 \in Nat \ {0}
         /\ \/ n = 2 * (n \div 2) + 1
            \/ n = 2 * (n \div 2) /\ \E p \in Nat \ {0} : n \div 2 = Odd(d) * p
<1>0. PICK q \in Nat \ {0} : n = Odd(d) * q
  OBVIOUS
<1>1. n >= 3
  <2>1. n = 2 * (d * q) + q /\ d * q \in Nat \ {0}
    BY <1>0 DEF Odd
  <2> QED BY <2>1
<1>2. n \div 2 \in Nat \ {0} /\ (n = 2 * (n \div 2) \/ n = 2 * (n \div 2) + 1)
  BY <1>1
<1>3. PICK p \in Nat : q = 2 * p \/ q = 2 * p + 1
  <2>1. q \div 2 \in Nat /\ (q = 2 * (q \div 2) \/ q = 2 * (q \div 2) + 1)
    OBVIOUS
  <2> QED BY <2>1
<1>4. CASE q = 2 * p
  <2>1. p \in Nat \ {0} /\ n = 2 * (Odd(d) * p)
    BY <1>0, <1>4 DEF Odd
  <2>2. Odd(d) * p \in Nat
    BY DEF Odd
  <2>3. n \div 2 = Odd(d) * p
    BY <2>1, <2>2
  <2> QED BY <1>2, <2>1, <2>2, <2>3
<1>5. CASE q = 2 * p + 1
  <2>1. n = 2 * (d * q + p) + 1
    BY <1>0, <1>5 DEF Odd
  <2>2. d * q + p \in Nat
    OBVIOUS
  <2> QED BY <1>2, <2>1, <2>2
<1> QED BY <1>3, <1>4, <1>5

LEMMA HalfOfPower ==
  ASSUME NEW n \in Nat \ {0}, PowerOfTwo(n), n # 1
  PROVE  n \div 2 \in Nat \ {0} /\ n = 2 * (n \div 2) /\ PowerOfTwo(n \div 2)
<1>1. n \div 2 \in Nat \ {0} /\ (n = 2 * (n \div 2) \/ n = 2 * (n \div 2) + 1)
  OBVIOUS
<1>2. n # Odd(n \div 2) * 1
  BY <1>1, OddFactor
<1>3. n = 2 * (n \div 2)
  BY <1>1, <1>2 DEF Odd
<1>4. ASSUME NEW d \in Nat \ {0}, NEW q \in Nat \ {0} PROVE n \div 2 # Odd(d) * q
  <2> SUFFICES ASSUME n \div 2 = Odd(d) * q PROVE FALSE
    OBVIOUS
  <2>1. n = Odd(d) * (2 * q) /\ 2 * q \in Nat \ {0}
    BY <1>3 DEF Odd
  <2> QED BY <2>1, OddFactor
<1> QED BY <1>1, <1>3, <1>4, OddFactor

(* Tasks of the subtree that have no parent yet.                           *)
Unpaired == Len(tasks) - dep

PowerShape ==
    at = "pairs" /\ PowerOfTwo(k) =>
        IF base = 0 THEN Unpaired = 1
        ELSE PowerOfTwo(base) /\ Unpaired = 2 * base - j

OddShape ==
    \A d, q \in Nat \ {0} :
        at = "pairs" /\ k = Odd(d) * q =>
            \/ \E p \in Nat \ {0} : base = Odd(d) * p
            \/ Unpaired > 2 * base - j /\ Unpaired >= 2

SizesInv ==
    /\ PowerShape /\ OddShape
    /\ at = "aborted" => ~PowerOfTwo(k)
    /\ i > 0 => PowerOfTwo(k)

LEMMA InitSizes == Init => SizesInv
BY DEF Init, SizesInv, PowerShape, OddShape

LEMMA StartPairsSizes == ASSUME IInv, SizesInv, StartPairs PROVE SizesInv'
<1>1. /\ at = "leaves" /\ at' = "pairs" /\ dep' = 0 /\ base' = k \div 2 /\ j' = 0
      /\ UNCHANGED <<k, i, tasks>> /\ k \in Nat \ {0}
  BY DEF StartPairs, Halved, IInv, Typed
<1>2. Len(tasks) = k
  BY <1>1 DEF StartPairs, IInv, LeavesShape
<1>3. Unpaired' = k
  BY <1>1, <1>2 DEF Unpaired
<1>4. PowerShape'
  <2> SUFFICES ASSUME PowerOfTwo(k)
      PROVE  IF base' = 0 THEN k = 1 ELSE PowerOfTwo(base') /\ k = 2 * base'
    BY <1>1, <1>3 DEF PowerShape, PowerOfTwo
  <2>1. CASE k = 1
    BY <1>1, <2>1
  <2>2. CASE k # 1
    BY <1>1, <2>2, HalfOfPower
  <2> QED BY <2>1, <2>2
<1>5. OddShape'
  <2> SUFFICES ASSUME NEW d \in Nat \ {0}, NEW q \in Nat \ {0}, k = Odd(d) * q
      PROVE  \/ \E p \in Nat \ {0} : base' = Odd(d) * p
             \/ k > 2 * base' /\ k >= 2
    BY <1>1, <1>3 DEF OddShape, Odd
  <2>1. /\ k \div 2 \in Nat \ {0}
        /\ \/ k = 2 * (k \div 2) + 1
           \/ k = 2 * (k \div 2) /\ \E p \in Nat \ {0} : k \div 2 = Odd(d) * p
    <3>1. k \in Nat
      BY <1>1
    <3> QED BY <3>1, HalfOfMultiple
  <2> QED BY <1>1, <2>1
<1> QED BY <1>1, <1>4, <1>5 DEF SizesInv, PowerOfTwo

LEMMA AddInnerSizes == ASSUME IInv, SizesInv, AddInner PROVE SizesInv'
<1>1. /\ at = "pairs" /\ base >= 1 /\ j' = j + 1 /\ dep' = dep + 2
      /\ UNCHANGED <<k, rest, at, i, base>> /\ base \in Nat /\ j \in Nat /\ dep \in Nat
  BY DEF AddInner, OperandsPerTask, IInv, Typed
<1>2. Len(tasks') = Len(tasks) + 1 /\ Len(tasks) \in Nat /\ Len(tasks) - dep >= 2 * base - j
  BY <1>1, InnerAdded, LenProperties DEF IInv, Typed, PairsShape
<1>3. Unpaired' = Unpaired - 1 /\ Unpaired \in Int
  BY <1>1, <1>2 DEF Unpaired
<1>4. j < base
  BY DEF AddInner
<1>5. PowerShape'
  BY <1>1, <1>3 DEF SizesInv, PowerShape, PowerOfTwo
<1>6. OddShape'
  <2> SUFFICES ASSUME NEW d \in Nat \ {0}, NEW q \in Nat \ {0}, k = Odd(d) * q,
                      ~\E p \in Nat \ {0} : base = Odd(d) * p
      PROVE  Unpaired - 1 > 2 * base - (j + 1) /\ Unpaired - 1 >= 2
    BY <1>1, <1>3 DEF OddShape, Odd
  <2>1. Unpaired > 2 * base - j
    BY <1>1 DEF SizesInv, OddShape
  <2> QED BY <1>1, <1>3, <1>4, <2>1
<1> QED BY <1>1, <1>5, <1>6 DEF SizesInv, PowerOfTwo

LEMMA NextLevelSizes == ASSUME IInv, SizesInv, NextLevel PROVE SizesInv'
<1>1. /\ at = "pairs" /\ base >= 1 /\ j = base /\ base' = base \div 2 /\ j' = 0
      /\ UNCHANGED <<k, rest, at, i, dep, tasks>> /\ base \in Nat \ {0} /\ dep \in Nat
  BY DEF NextLevel, Halved, IInv, Typed
<1>2. Unpaired' = Unpaired /\ Unpaired \in Int /\ Unpaired >= base
  <2>1. Len(tasks) \in Nat /\ Len(tasks) - dep >= 2 * base - j
    BY <1>1, LenProperties DEF IInv, Typed, PairsShape
  <2> QED BY <1>1, <2>1 DEF Unpaired
<1>3. PowerShape'
  <2> SUFFICES ASSUME PowerOfTwo(k)
      PROVE  IF base' = 0 THEN Unpaired = 1 ELSE PowerOfTwo(base') /\ Unpaired = 2 * base'
    BY <1>1, <1>2 DEF PowerShape, PowerOfTwo
  <2>1. PowerOfTwo(base) /\ Unpaired = base
    BY <1>1, <1>2 DEF SizesInv, PowerShape
  <2>2. CASE base = 1
    BY <1>1, <2>1, <2>2
  <2>3. CASE base # 1
    BY <1>1, <2>1, <2>3, HalfOfPower
  <2> QED BY <2>2, <2>3
<1>4. OddShape'
  <2> SUFFICES ASSUME NEW d \in Nat \ {0}, NEW q \in Nat \ {0}, k = Odd(d) * q
      PROVE  \/ \E p \in Nat \ {0} : base' = Odd(d) * p
             \/ Unpaired > 2 * base' /\ Unpaired >= 2
    <3>1. k' = k /\ at' = at /\ 2 * base' - j' = 2 * base'
      BY <1>1
    <3> QED BY <1>1, <1>2, <3>1 DEF OddShape, Odd
  <2>1. CASE \E p \in Nat \ {0} : base = Odd(d) * p
    <3>1. base \in Nat
      BY <1>1
    <3>2. /\ base \div 2 \in Nat \ {0}
          /\ \/ base = 2 * (base \div 2) + 1
             \/ base = 2 * (base \div 2) /\ \E p \in Nat \ {0} : base \div 2 = Odd(d) * p
      BY <2>1, <3>1, HalfOfMultiple
    <3> QED BY <1>1, <1>2, <3>2
  <2>2. CASE Unpaired > 2 * base - j /\ Unpaired >= 2
    BY <1>1, <1>2, <2>2
  <2> QED BY <1>1, <2>1, <2>2 DEF SizesInv, OddShape
<1> QED BY <1>1, <1>3, <1>4 DEF SizesInv, PowerOfTwo

LEMMA FinishSubtreeSizes == ASSUME IInv, SizesInv, FinishSubtree PROVE SizesInv'
<1>1. at = "pairs" /\ base = 0 /\ k' = k /\ at' # "pairs" /\ k \in Nat \ {0}
  BY DEF FinishSubtree, IInv, Typed
<1>2. Len(tasks) \in Nat /\ dep \in Nat
  BY LenProperties DEF IInv, Typed
<1>3. AllPaired <=> Unpaired = 1
  BY <1>2 DEF AllPaired, Unpaired
<1>4. PowerOfTwo(k) => AllPaired
  BY <1>1, <1>3 DEF SizesInv, PowerShape
<1>5. AllPaired => PowerOfTwo(k)
  <2> SUFFICES ASSUME AllPaired, NEW d \in Nat \ {0}, NEW q \in Nat \ {0}, k = Odd(d) * q
      PROVE  FALSE
    BY <1>1, OddFactor
  <2>1. PICK p \in Nat \ {0} : base = Odd(d) * p
    BY <1>1, <1>3 DEF SizesInv, OddShape
  <2>2. base = 2 * (d * p) + p /\ d * p \in Nat
    BY <2>1 DEF Odd
  <2> QED BY <1>1, <2>2
<1>6. PowerOfTwo(k)' = PowerOfTwo(k)
  BY <1>1 DEF PowerOfTwo
<1>7. CASE AllPaired
  BY <1>1, <1>5, <1>6, <1>7 DEF FinishSubtree, SizesInv, PowerShape, OddShape
<1>8. CASE ~AllPaired
  BY <1>1, <1>4, <1>6, <1>8 DEF FinishSubtree, SizesInv, PowerShape, OddShape
<1> QED BY <1>7, <1>8

LEMMA StepSizes == ASSUME IInv, SizesInv, [Next]_vars PROVE SizesInv'
<1>1. CASE NextSubtree \/ AddLeaf
  <2>1. at' # "pairs" /\ at' # "aborted" /\ k' = k /\ i' = i
    BY <1>1 DEF NextSubtree, AddLeaf
  <2> QED BY <2>1 DEF SizesInv, PowerShape, OddShape, PowerOfTwo
<1>2. CASE Stopped \/ UNCHANGED vars
  BY <1>2 DEF Stopped, vars, SizesInv, PowerShape, OddShape, PowerOfTwo, Odd, Unpaired
<1> QED BY <1>1, <1>2, StartPairsSizes, AddInnerSizes, NextLevelSizes, FinishSubtreeSizes DEF Next

(* For every size, the assertion "power of 2" (utils.cc:152) aborts the    *)
(* process when the size is not one, at the first subtree, and does not    *)
(* when it is.                                                             *)
THEOREM AbortsExactly == Spec => []AbortsUnlessPowerOfTwo
<1>1. IInv /\ SizesInv => AbortsUnlessPowerOfTwo
  BY SubTreesNat DEF SizesInv, AbortsUnlessPowerOfTwo, Done, IInv
<1>2. IInv /\ SizesInv /\ [Next]_vars => SizesInv'
  BY StepSizes
<1> QED BY <1>1, <1>2, InitSizes, Invariance, PTL DEF Spec
-----------------------------------------------------------------------------
(* What the requests carry.  The operands of a leaf are the two blocks     *)
(* that its number names, and the inner tasks have none of their own.      *)
RowStart == (i \div k) * submatrix_size

LeafOperands(node, p) ==
    /\ node.left = TrackSubmatrix(RowStart, p * submatrix_size)
    /\ node.right = TrackSubmatrix(p * submatrix_size, RowStart)

OperandsInv ==
    at \in {"leaves", "pairs"} =>
        \A p \in 0..(Len(tasks) - 1) :
            IF p < k THEN LeafOperands(tasks[p + 1], p) ELSE tasks[p + 1].left = NoTask

LEMMA AddLeafOperands == ASSUME IInv, OperandsInv, AddLeaf PROVE OperandsInv'
<1>1. /\ at = "leaves" /\ j < k /\ tasks' = Append(tasks, Leaf) /\ UNCHANGED <<k, rest, at, i>>
      /\ Len(tasks) = j /\ j \in Nat /\ k \in Nat /\ tasks \in Seq(Node) /\ Leaf \in Node
  BY LeafType DEF AddLeaf, IInv, Typed, LeavesShape
<1>2. /\ Len(tasks') = j + 1 /\ tasks'[j + 1] = Leaf
      /\ \A p \in 1..j : tasks'[p] = tasks[p]
  BY <1>1, AppendProperties
<1>3. LeafOperands(Leaf, j)
  BY DEF LeafOperands, Leaf, RowStart
<1>4. ASSUME NEW p \in 0..j PROVE LeafOperands(tasks'[p + 1], p)
  <2>1. CASE p = j
    BY <1>2, <1>3, <2>1
  <2>2. CASE p # j
    <3>1. p \in 0..(Len(tasks) - 1) /\ p + 1 \in 1..j /\ p < k
      BY <1>1, <2>2
    <3> QED BY <1>1, <1>2, <3>1 DEF OperandsInv
  <2> QED BY <2>1, <2>2
<1>5. \A p : LeafOperands(tasks'[p + 1], p) => LeafOperands(tasks[p + 1], p)'
  BY <1>1 DEF LeafOperands, RowStart, TrackSubmatrix, matrix_size
<1>6. ASSUME NEW p \in 0..(Len(tasks') - 1)
      PROVE  p < k' /\ LeafOperands(tasks[p + 1], p)'
  <2>1. p \in 0..j /\ p < k'
    BY <1>1, <1>2
  <2> QED BY <1>4, <1>5, <2>1
<1> QED BY <1>6 DEF OperandsInv

LEMMA AddInnerOperands == ASSUME IInv, OperandsInv, AddInner PROVE OperandsInv'
<1>1. /\ at = "pairs" /\ UNCHANGED <<k, rest, at, i>> /\ k \in Nat
      /\ Len(tasks) \in Nat /\ Len(tasks) >= k
  BY LenProperties DEF AddInner, IInv, Typed, PairsShape
<1>2. /\ Len(tasks') = Len(tasks) + 1 /\ tasks'[Len(tasks) + 1].left = NoTask
      /\ \A p \in 1..Len(tasks) : SameOperands(tasks'[p], tasks[p])
  BY InnerAdded
<1>3. ASSUME NEW p \in 0..(Len(tasks') - 1)
      PROVE  IF p < k THEN LeafOperands(tasks'[p + 1], p) ELSE tasks'[p + 1].left = NoTask
  <2>1. CASE p = Len(tasks)
    BY <1>1, <1>2, <2>1
  <2>2. CASE p # Len(tasks)
    <3>1. p \in 0..(Len(tasks) - 1) /\ p + 1 \in 1..Len(tasks)
      BY <1>1, <1>2, <2>2
    <3>2. IF p < k THEN LeafOperands(tasks[p + 1], p) ELSE tasks[p + 1].left = NoTask
      BY <1>1, <3>1 DEF OperandsInv
    <3> QED BY <1>2, <3>1, <3>2 DEF LeafOperands, SameOperands
  <2> QED BY <2>1, <2>2
<1>4. \A p : LeafOperands(tasks'[p + 1], p) => LeafOperands(tasks[p + 1], p)'
  BY <1>1 DEF LeafOperands, RowStart, TrackSubmatrix, matrix_size
<1> QED BY <1>1, <1>3, <1>4 DEF OperandsInv

LEMMA StepOperands == ASSUME IInv, OperandsInv, [Next]_vars PROVE OperandsInv'
<1>1. CASE NextSubtree
  <2>1. tasks' = <<>>
    BY <1>1 DEF NextSubtree
  <2> QED BY <2>1 DEF OperandsInv
<1>2. CASE StartPairs \/ NextLevel \/ Stopped \/ UNCHANGED vars
  <2>1. UNCHANGED <<k, rest, i, tasks>> /\ (at' \in {"leaves", "pairs"} => at \in {"leaves", "pairs"})
    BY <1>2 DEF StartPairs, NextLevel, Stopped, vars
  <2> QED BY <2>1 DEF OperandsInv, LeafOperands, RowStart, TrackSubmatrix, matrix_size
<1>3. CASE FinishSubtree
  BY <1>3 DEF FinishSubtree, OperandsInv
<1> QED BY <1>1, <1>2, <1>3, AddLeafOperands, AddInnerOperands DEF Next

LEMMA SpecOperands == Spec => []OperandsInv
<1>1. Init => OperandsInv
  BY DEF Init, OperandsInv
<1> QED BY <1>1, StepOperands, Invariance, PTL DEF Spec

(* The elements that an int can count are copied from where they are.      *)
LEMMA AsIntSmall == ASSUME NEW x \in 0..(HalfRange - 1) PROVE AsInt(x) = x
<1>1. PICK h \in Nat \ {0} : h = HalfRange
  BY HalfRangeAssumption
<1>2. PICK y \in Nat : y = x + h
  BY <1>1
<1>3. PICK m \in Nat \ {0} : m = 2 * h
  BY <1>1
<1>4. y < m
  BY <1>1, <1>2, <1>3
<1>5. y % m = y
  BY <1>4
<1> QED BY <1>1, <1>2, <1>3, <1>5 DEF AsInt

(* Row and column of an element of a block.                                *)
LEMMA InBlock ==
  ASSUME NEW s \in Nat \ {0}, NEW d \in 0..(s * s - 1)
  PROVE  /\ d \div s \in 0..(s - 1) /\ d % s \in 0..(s - 1)
         /\ (d \div s) * s + (d % s) = d
<1>1. d \in Nat /\ s * s \in Nat /\ d < s * s
  OBVIOUS
<1>2. (d % s) + s * (d \div s) = d
  BY <1>1
<1>3. d \div s \in Nat /\ d % s \in 0..(s - 1)
  BY <1>1
<1>4. PICK p \in Nat, r \in Nat : p = d \div s /\ r = d % s /\ r < s
  BY <1>3
<1>5. r + s * p = d
  BY <1>2, <1>4
<1>6. p < s
  <2> SUFFICES ASSUME p >= s PROVE FALSE
    BY <1>4
  <2>1. s * (p - s) >= 0
    OBVIOUS
  <2> QED BY <1>1, <1>5, <2>1
<1> QED BY <1>3, <1>4, <1>5, <1>6

LEMMA BlockIsCopied ==
  ASSUME NEW row \in Nat, NEW col \in Nat, NEW s \in Nat \ {0}, NEW size \in Nat,
         row + s <= size, col + s <= size, size * size <= HalfRange
  PROVE  LET b == Submatrix(row, col, s, size) IN GetSubmatrixData(b) = Block(b)
<1> DEFINE b == Submatrix(row, col, s, size)
<1>1. /\ b.row_start = row /\ b.col_start = col /\ b.size = s /\ b.original_size = size
      /\ Positions(b) = 0..(s * s - 1)
  BY DEF Submatrix, Positions
<1> HIDE DEF b
<1>2. CASE IsWhole(b)
  <2>1. row = 0 /\ col = 0 /\ s = size
    BY <1>1, <1>2 DEF IsWhole
  <2>2. ASSUME NEW d \in 0..(s * s - 1) PROVE (row + (d \div s)) * size + col + (d % s) = d
    <3>1. d \div s \in Nat /\ d % s \in Nat /\ (d \div s) * s + (d % s) = d
      BY InBlock
    <3> QED BY <2>1, <3>1
  <2> QED BY <1>1, <1>2, <2>2 DEF GetSubmatrixData, Block, b
<1>3. CASE ~IsWhole(b)
  <2>1. ASSUME NEW d \in 0..(s * s - 1)
        PROVE  SourceOffset(b, d \div s) + (d % s) = (row + (d \div s)) * size + col + (d % s)
    <3>1. PICK p \in Nat, r \in Nat : p = d \div s /\ r = d % s /\ p < s /\ r < s
      <4>1. d \div s \in 0..(s - 1) /\ d % s \in 0..(s - 1)
        BY InBlock
      <4>2. PICK p \in Nat, r \in Nat : p = d \div s /\ r = d % s
        BY <4>1
      <4> QED BY <4>1, <4>2
    <3>2. PICK x \in Nat : x = row + p
      OBVIOUS
    <3>3. x + 1 <= size /\ col + 1 <= size /\ x \in Nat
      BY <3>1, <3>2
    <3>4. PICK y \in Nat : y = x * size
      OBVIOUS
    <3>5. y + size <= size * size
      <4>1. size * (size - (x + 1)) >= 0
        BY <3>3
      <4> QED BY <3>4, <4>1
    <3>6. PICK z \in Nat : z = size * size
      OBVIOUS
    <3>7. x <= y
      <4>1. x * (size - 1) >= 0
        BY <3>3
      <4> QED BY <3>4, <4>1
    <3>8. y + col \in 0..(HalfRange - 1) /\ x \in 0..(HalfRange - 1)
      BY <3>3, <3>5, <3>6, <3>7, HalfRangeAssumption
    <3>9. AsInt(x) = x /\ AsInt(y + col) = y + col
      BY <3>8, AsIntSmall
    <3>10. SourceOffset(b, p) = AsInt(AsInt(row + p) * size + col)
      BY <1>1 DEF SourceOffset, RowLength
    <3>11. SourceOffset(b, p) = y + col
      BY <3>2, <3>4, <3>9, <3>10
    <3> QED BY <3>1, <3>2, <3>4, <3>11
  <2> QED BY <1>1, <1>3, <2>1 DEF GetSubmatrixData, Block, b
<1> QED BY <1>2, <1>3 DEF b

(* A result is a matrix of its own: it is copied whole, whatever its size. *)
LEMMA WholeIsCopied ==
  ASSUME NEW s \in Nat \ {0}
  PROVE  LET b == Submatrix(0, 0, s, s) IN GetSubmatrixData(b) = Block(b)
<1> DEFINE b == Submatrix(0, 0, s, s)
<1>1. /\ b.row_start = 0 /\ b.col_start = 0 /\ b.size = s /\ b.original_size = s
      /\ Positions(b) = 0..(s * s - 1) /\ IsWhole(b)
  BY DEF Submatrix, Positions, IsWhole
<1> HIDE DEF b
<1>2. ASSUME NEW d \in 0..(s * s - 1) PROVE (0 + (d \div s)) * s + 0 + (d % s) = d
  <2>1. d \div s \in Nat /\ d % s \in Nat /\ (d \div s) * s + (d % s) = d
    BY InBlock
  <2> QED BY <2>1
<1>3. GetSubmatrixData(b) = Block(b)
  BY <1>1, <1>2 DEF GetSubmatrixData, Block
<1> QED BY <1>3 DEF b

(* For every size whose matrix an int can count, every leaf is given the   *)
(* two blocks it multiplies (utils.cc:92-105, utils.h:88-99), and every    *)
(* task the whole results of its operands.                                 *)
THEOREM OperandsAreRight == Spec => []OperandsAreBlocks
<1>1. ASSUME IInv, OperandsInv PROVE OperandsAreBlocks
  <2>1. submatrix_size \in Nat \ {0} /\ k \in Nat \ {0} /\ i \in Nat
    BY <1>1, SizesAssumption DEF IInv, Typed
  <2>2. matrix_size \in Nat /\ k * submatrix_size \in Nat /\ k * submatrix_size <= matrix_size
    BY <1>1, BlocksFit DEF IInv
  <2>3. ASSUME at \in {"leaves", "pairs"}, matrix_size * matrix_size <= HalfRange,
               NEW n \in DOMAIN tasks, tasks[n].left # NoTask
        PROVE  /\ GetSubmatrixData(tasks[n].left) =
                     Block(Submatrix((i \div k) * submatrix_size, (n - 1) * submatrix_size,
                                     submatrix_size, matrix_size))
               /\ GetSubmatrixData(tasks[n].right) =
                     Block(Submatrix((n - 1) * submatrix_size, (i \div k) * submatrix_size,
                                     submatrix_size, matrix_size))
    <3>1. n \in 1..Len(tasks) /\ Len(tasks) \in Nat
      BY <1>1, LenProperties DEF IInv, Typed
    <3>2. PICK p \in 0..(Len(tasks) - 1) : p = n - 1 /\ n = p + 1
      BY <3>1
    <3>3. p < k /\ LeafOperands(tasks[n], p)
      BY <1>1, <2>3, <3>2 DEF OperandsInv
    <3>4. PICK q \in Nat : q = i \div k /\ q < k
      <4>1. i < SubTrees
        BY <1>1, <2>3 DEF IInv, FinalShape
      <4>2. i < k * k
        <5>1. k * k \in Nat /\ (k * k) \div 2 <= k * k
          BY <2>1
        <5> QED BY <2>1, <4>1, <5>1 DEF SubTrees
      <4>3. i \in 0..(k * k - 1)
        BY <2>1, <4>2
      <4>4. i \div k \in 0..(k - 1)
        BY <2>1, <4>3, InBlock
      <4> QED BY <2>1, <4>4
    <3>5. ASSUME NEW x \in Nat, x < k
          PROVE  x * submatrix_size \in Nat
                 /\ x * submatrix_size + submatrix_size <= matrix_size
      <4>1. (k - (x + 1)) * submatrix_size >= 0
        BY <2>1, <3>5
      <4>2. x * submatrix_size + submatrix_size <= k * submatrix_size
        BY <2>1, <3>5, <4>1
      <4> QED BY <2>1, <2>2, <4>2
    <3>6. PICK row \in Nat, col \in Nat :
            /\ row = q * submatrix_size /\ col = p * submatrix_size
            /\ row + submatrix_size <= matrix_size /\ col + submatrix_size <= matrix_size
      BY <3>2, <3>3, <3>4, <3>5
    <3>7. /\ tasks[n].left = Submatrix(row, col, submatrix_size, matrix_size)
          /\ tasks[n].right = Submatrix(col, row, submatrix_size, matrix_size)
      BY <3>3, <3>4, <3>6 DEF LeafOperands, RowStart, TrackSubmatrix
    <3>8. /\ GetSubmatrixData(Submatrix(row, col, submatrix_size, matrix_size)) =
                Block(Submatrix(row, col, submatrix_size, matrix_size))
          /\ GetSubmatrixData(Submatrix(col, row, submatrix_size, matrix_size)) =
                Block(Submatrix(col, row, submatrix_size, matrix_size))
      BY <2>1, <2>3, <2>2, <3>6, BlockIsCopied
    <3> QED BY <3>2, <3>4, <3>6, <3>7, <3>8
  <2> QED BY <2>1, <2>3, WholeIsCopied DEF OperandsAreBlocks
<1> QED BY <1>1, Invariance, SpecOperands, PTL
=============================================================================
