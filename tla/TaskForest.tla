----------------------------- MODULE TaskForest -----------------------------
(***************************************************************************)
(* The tasks of a job in closed form, as create_tasks leaves them: one     *)
(* binary tree per subtree, its nodes numbered in the order of creation.   *)
(* With K blocks in a row of the matrix, nodes 0..K-1 are the leaves, each *)
(* level above is made of pairs of the one below, and 2K-2 is the root.    *)
(* CreateTasks runs the loops and arrives here; ClusterManager and Job     *)
(* start here.                                                             *)
(***************************************************************************)
EXTENDS Naturals, Sequences

CONSTANTS K,         \* matrix_size / submatrix_size
          Subtrees   \* number of trees; K * K / 2 in the code

ASSUME KAssumption == K \in Nat \ {0}
ASSUME SubtreesAssumption == Subtrees \in Nat

Task == (0..Subtrees - 1) \X (0..2 * K - 2)

IsLeaf(t) == t[2] < K
IsRoot(t) == t[2] = 2 * K - 2

LeftChild(t) == <<t[1], 2 * (t[2] - K)>>
RightChild(t) == <<t[1], 2 * (t[2] - K) + 1>>
Children(t) == IF IsLeaf(t) THEN {} ELSE {LeftChild(t), RightChild(t)}

(* Meaningful for a task that is not a root.                               *)
Parent(t) == <<t[1], K + t[2] \div 2>>

(* The order of tasks_init: subtree by subtree, leaf by leaf.              *)
InitialTasks == [n \in 1..Subtrees * K |-> <<(n - 1) \div K, (n - 1) % K>>]
=============================================================================
