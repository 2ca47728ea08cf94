---------------------------- MODULE CreateTasks ----------------------------
(***************************************************************************)
(* utils::create_tasks, loop by loop: how a job of k x k blocks becomes    *)
(* trees of tasks.  The number of blocks is truncated: the rest of a size  *)
(* that is no multiple of the block's is in no task.  A task is named      *)
(* <<subtree, position>>, the position being its index in the vector tasks *)
(* of its subtree.                                                         *)
(***************************************************************************)
EXTENDS MatrixBlocks, Sequences, SequencesExt

CONSTANTS Sizes,           \* the values of matrix_size / submatrix_size explored
          submatrix_size,  \* rows and columns of a block
          NoTask           \* the null pointer

ASSUME SizesAssumption == Sizes \subseteq Nat \ {0} /\ submatrix_size \in Nat \ {0}
ASSUME NoTaskAssumption == NoTask \notin Nat

VARIABLES k,            \* matrix_size / submatrix_size, which truncates
          rest,         \* matrix_size % submatrix_size, rows and columns in no block
          at,           \* where the loops are
          i, j,         \* the loop counters
          base,         \* inner tasks of the level being built
          dep,          \* dependency_counter
          tasks,        \* the tasks of the subtree, in order of creation
          tasks_init,   \* names of the tasks that can start at once
          tasks_final   \* every finished subtree

vars == <<k, rest, at, i, j, base, dep, tasks, tasks_init, tasks_final>>

matrix_size == k * submatrix_size + rest
SubTrees == (k * k) \div 2

Init == /\ k \in Sizes /\ rest \in 0..submatrix_size - 1
        /\ at = "subtree"
        /\ i = 0 /\ j = 0 /\ base = 0 /\ dep = 0
        /\ tasks = <<>> /\ tasks_init = <<>> /\ tasks_final = <<>>
-----------------------------------------------------------------------------
(* Wrong versions of definitions below.                                    *)
OneLeftOver == dep + 2 >= Len(tasks)
SwappedPair == [left |-> dep + 1, right |-> dep]
CountedOnce == 1
-----------------------------------------------------------------------------
NextSubtree ==
    /\ at = "subtree" /\ i < SubTrees
    /\ at' = "leaves" /\ j' = 0 /\ tasks' = <<>>
    /\ UNCHANGED <<k, rest, i, base, dep, tasks_init, tasks_final>>

(* A leaf multiplies block j of a row by the block that mirrors it.        *)
TrackSubmatrix(row, col) == Submatrix(row, col, submatrix_size, matrix_size)

Leaf == LET row_start == (i \div k) * submatrix_size
            col_start == j * submatrix_size
        IN
        [ops |-> "MULTIPLICATION",
         left |-> TrackSubmatrix(row_start, col_start),
         right |-> TrackSubmatrix(col_start, row_start),
         parent |-> NoTask, left_child |-> NoTask, right_child |-> NoTask]

AddLeaf ==
    /\ at = "leaves" /\ j < k
    /\ tasks' = Append(tasks, Leaf)
    /\ tasks_init' = Append(tasks_init, <<i, Len(tasks)>>)
    /\ j' = j + 1
    /\ UNCHANGED <<k, rest, at, i, base, dep, tasks_final>>

Halved(n) == n \div 2

StartPairs ==
    /\ at = "leaves" /\ j = k
    /\ at' = "pairs" /\ dep' = 0 /\ base' = Halved(k) /\ j' = 0
    /\ UNCHANGED <<k, rest, i, tasks, tasks_init, tasks_final>>

(* The next two tasks that have no parent, by position.                    *)
Pair == [left |-> dep, right |-> dep + 1]
OperandsPerTask == 2

(* An inner task waits for its two children; the code creates it with ops  *)
(* MULTIPLICATION.                                                         *)
AddInner ==
    /\ at = "pairs" /\ base >= 1 /\ j < base
    /\ LET inner == [ops |-> "MULTIPLICATION", left |-> NoTask, right |-> NoTask,
                     parent |-> NoTask, left_child |-> Pair.left, right_child |-> Pair.right]
       IN tasks' = Append([tasks EXCEPT ![Pair.left + 1].parent = Len(tasks),
                                        ![Pair.right + 1].parent = Len(tasks)], inner)
    /\ dep' = dep + OperandsPerTask
    /\ j' = j + 1
    /\ UNCHANGED <<k, rest, at, i, base, tasks_init, tasks_final>>

NextLevel ==
    /\ at = "pairs" /\ base >= 1 /\ j = base
    /\ base' = Halved(base) /\ j' = 0
    /\ UNCHANGED <<k, rest, at, i, dep, tasks, tasks_init, tasks_final>>

(* The assertion of the code, and what follows when it holds.              *)
AllPaired == dep + 1 = Len(tasks)

FinishSubtree ==
    /\ at = "pairs" /\ base = 0
    /\ IF AllPaired
       THEN /\ at' = "subtree" /\ i' = i + 1
            /\ tasks_final' = Append(tasks_final, tasks)
       ELSE /\ at' = "aborted"
            /\ UNCHANGED <<i, tasks_final>>
    /\ UNCHANGED <<k, rest, j, base, dep, tasks, tasks_init>>

Done == at = "subtree" /\ i = SubTrees

(* The function has returned, or the process has aborted.                  *)
Stopped == (Done \/ at = "aborted") /\ UNCHANGED vars

Next == NextSubtree \/ AddLeaf \/ StartPairs \/ AddInner \/ NextLevel \/ FinishSubtree \/ Stopped

Spec == Init /\ [][Next]_vars /\ WF_vars(Next)
-----------------------------------------------------------------------------
\* Its only odd factor is 1.
PowerOfTwo(n) == \A d, q \in 1..n : n # (2 * d + 1) * q

(* The comment at the assertion says "power of 2" (utils.cc:152): the      *)
(* assertion holds of a finished subtree for the powers of two and for no  *)
(* other size, and then create_tasks returns with every subtree built.     *)
AbortsUnlessPowerOfTwo ==
    /\ at = "aborted" => ~PowerOfTwo(k)
    /\ Done /\ SubTrees > 0 => PowerOfTwo(k)

(* tasks[dependency_counter], indexed without a check, is a task that is   *)
(* there and has no parent yet: no size makes the loop overtake the vector *)
(* it is filling.                                                          *)
PairsExist ==
    at = "pairs" /\ base >= 1 /\ j < base =>
        \A n \in {Pair.left, Pair.right} :
            n < Len(tasks) /\ tasks[n + 1].parent = NoTask

(* What the loops build is the forest that ClusterManager starts from: the *)
(* same parents and children, one root, and the leaves alone as initial    *)
(* tasks, in order.                                                        *)
Forest == INSTANCE TaskForest WITH K <- k, Subtrees <- SubTrees

BuildsForest ==
    Done =>
        /\ Len(tasks_final) = SubTrees
        /\ tasks_init = Forest!InitialTasks
        /\ \A t \in Forest!Task :
              LET node == tasks_final[t[1] + 1][t[2] + 1]
              IN /\ Forest!IsRoot(t) <=> node.parent = NoTask
                 /\ node.parent # NoTask => <<t[1], node.parent>> = Forest!Parent(t)
                 /\ ~Forest!IsLeaf(t) =>
                       /\ <<t[1], node.left_child>> = Forest!LeftChild(t)
                       /\ <<t[1], node.right_child>> = Forest!RightChild(t)

(* What the client copies into the request of a leaf are the two blocks of *)
(* the matrix, block j of the subtree's row and block j of the column with *)
(* the same number.  It is stated only of matrices whose elements an int   *)
(* can count, as source_offset (utils.h:94) is one; beyond, nothing is     *)
(* claimed.  A result, which is a matrix of its own, is copied whole for   *)
(* the task that waits for it.                                             *)
OperandsAreBlocks ==
    /\ at \in {"leaves", "pairs"} /\ matrix_size * matrix_size <= HalfRange =>
          \A n \in DOMAIN tasks : tasks[n].left # NoTask =>
              /\ GetSubmatrixData(tasks[n].left) =
                     Block(Submatrix((i \div k) * submatrix_size, (n - 1) * submatrix_size,
                                     submatrix_size, matrix_size))
              /\ GetSubmatrixData(tasks[n].right) =
                     Block(Submatrix((n - 1) * submatrix_size, (i \div k) * submatrix_size,
                                     submatrix_size, matrix_size))
    /\ LET result == Submatrix(0, 0, submatrix_size, submatrix_size)
       IN GetSubmatrixData(result) = Block(result)
=============================================================================
